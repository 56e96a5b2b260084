-------------------------- MODULE MCProcessManager --------------------------
(* Instances of ProcessManager for TLC: how many events of each kind. *)
EXTENDS ProcessManager

Events(starts, exits, fails, syncs) ==
    [k \in EventKinds |-> CASE k = "start" -> starts
                             [] k = "exit" -> exits
                             [] k = "forkFails" -> fails
                             [] k = "setSync" -> syncs]

\* Two generations of the user's process; or two deaths of any process, with a failed
\* fork or a change of a flag.
FewOfEach == {Events(2, 1, 1, 1), Events(1, 2, 1, 0), Events(1, 2, 0, 1)}
TwoStarts == {Events(2, 2, 0, 0)}
=============================================================================
