-------------------------- MODULE MCMessageThread --------------------------
(* Instance of MessageThread for TLC: a thread that lives by timers, and one *)
(* that posts and has a descriptor watched.                                  *)
EXTENDS MessageThread

CONSTANTS c1, c2

TimersAndFds == (c1 :> {"once", "periodic", "stopTimer"})
                    @@ (c2 :> {"post", "addFd", "removeFd"})
=============================================================================
