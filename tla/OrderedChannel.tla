--------------------------- MODULE OrderedChannel ---------------------------
(***************************************************************************)
(* What a ring promises its users, whatever happens inside: messages are   *)
(* accepted one after the other, and every reader receives whole accepted  *)
(* messages, each at most once and in the order they were accepted.  Until *)
(* the channel is disturbed a reader misses none.  Messages are numbers    *)
(* that grow with the order of acceptance.                                 *)
(***************************************************************************)
EXTENDS Naturals

CONSTANTS Readers, Messages

VARIABLES accepted, received, lossy

chanVars == <<accepted, received, lossy>>

\* received[r]: the last message r received, one past it to be exact; 0 before any.
Init ==
    /\ accepted = {}
    /\ received = [r \in Readers |-> 0]
    /\ lossy = FALSE

Accept(m) ==
    /\ \A a \in accepted : a < m
    /\ accepted' = accepted \cup {m}
    /\ UNCHANGED <<received, lossy>>

Receive(r, m) ==
    /\ m \in accepted
    /\ received[r] <= m
    /\ lossy \/ \A a \in accepted : received[r] <= a => m <= a
    /\ received' = [received EXCEPT ![r] = m + 1]
    /\ UNCHANGED <<accepted, lossy>>

\* A process dies, a reader joins late, or the channel is disabled.
Disturb ==
    /\ lossy' = TRUE
    /\ UNCHANGED <<accepted, received>>

Next ==
    \/ \E m \in Messages : Accept(m)
    \/ \E r \in Readers, m \in Messages : Receive(r, m)
    \/ Disturb

Spec == Init /\ [][Next]_chanVars
=============================================================================
