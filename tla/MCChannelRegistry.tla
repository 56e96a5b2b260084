-------------------------- MODULE MCChannelRegistry --------------------------
(* Instances of ChannelRegistry for TLC: how many events of each kind. *)
EXTENDS ChannelRegistry

Events(requests, leaves, forces, dead, losses) ==
    [k \in EventKinds |-> CASE k = "request" -> requests
                            [] k = "leave" -> leaves
                            [] k = "force" -> forces
                            [] k = "crash" -> dead
                            [] k = "lost" -> losses]

AllOfAll == Events(3, 1, 1, 1, 1)
==============================================================================
