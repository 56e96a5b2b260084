------------------------------- MODULE Lists -------------------------------
(***************************************************************************)
(* Removal from a list, as epoll's ready list and m_process_infos need it. *)
(***************************************************************************)
EXTENDS Naturals, Sequences

\* What is left of s, in order, without the members of F.
Without(s, F) ==
    LET kept[n \in 0 .. Len(s)] ==
            IF n = 0 THEN <<>>
            ELSE IF s[n] \in F THEN kept[n - 1] ELSE Append(kept[n - 1], s[n])
    IN  kept[Len(s)]
=============================================================================
