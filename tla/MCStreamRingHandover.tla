------------------------ MODULE MCStreamRingHandover ------------------------
(* Instances of StreamRingHandover for TLC. *)
EXTENDS StreamRingHandover, MCStreamRing
=============================================================================
