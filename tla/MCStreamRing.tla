---------------------------- MODULE MCStreamRing ----------------------------
(* Instances of StreamRing for TLC: budgets of events, flag values, symmetry. *)
EXTENDS StreamRingInv, TLC

NoEvents  == [k \in EventKinds |-> 0]
Alloc1    == [NoEvents EXCEPT !["alloc"] = 1]
Crash1    == [NoEvents EXCEPT !["senderCrash"] = 1]
Restart1  == [Alloc1 EXCEPT !["readerCrash"] = 1]
Readers1  == [k \in EventKinds |-> 1]

NoFlags   == {}
AllFlags  == {{}, {SendBit, RecvBit}}
Symmetric == Permutations(Senders)
=============================================================================
