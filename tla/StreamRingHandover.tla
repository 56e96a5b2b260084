------------------------- MODULE StreamRingHandover -------------------------
(***************************************************************************)
(* A ring whose reader leaves on request.  handleDaemon_ReleaseShm frees   *)
(* the index of the leaver at once, and handleDaemon_AllocateShm may give  *)
(* it to another process while the receiving thread of the leaver is still *)
(* inside recv: until the answer is handled there, two threads work with   *)
(* one m_reader_head and one semaphore.  The thread of the leaver goes on  *)
(* with the recv_impl of StreamRing, on locals of its own.                 *)
(***************************************************************************)
EXTENDS StreamRing

VARIABLES
    \* recv_impl: the locals of the leaver's thread, and what it delivered last
    leaverPc, leaverHead, leaverCount, leaverDone, leaverBuf, leaverLast

leaverVars ==
    <<leaverPc, leaverHead, leaverCount, leaverDone, leaverBuf, leaverLast>>

Leaver == INSTANCE StreamRing WITH
    rpc <- leaverPc,
    head <- leaverHead,
    sliceCount <- leaverCount,
    slicesDone <- leaverDone,
    buf <- leaverBuf,
    last <- leaverLast

HandoverInit ==
    /\ Init
    /\ leaverPc = [i \in ReaderSlots |-> "off"]
    /\ leaverHead = [i \in ReaderSlots |-> 0]
    /\ leaverCount = [i \in ReaderSlots |-> 0]
    /\ leaverDone = [i \in ReaderSlots |-> 0]
    /\ leaverBuf = [i \in ReaderSlots |-> {}]
    /\ leaverLast = [i \in ReaderSlots |-> {}]

\* handleDaemon_ReleaseShm for a reader that runs: its index is free from now on.
\* One leaver at a time is followed for each index.
Leave(i) ==
    /\ i \in readerFlag
    /\ rpc[i] # "off"
    /\ leaverPc[i] = "off"
    /\ FreeReaderSlot(i)
    /\ leaverPc' = [leaverPc EXCEPT ![i] = rpc[i]]
    /\ leaverHead' = [leaverHead EXCEPT ![i] = head[i]]
    /\ leaverCount' = [leaverCount EXCEPT ![i] = sliceCount[i]]
    /\ leaverDone' = [leaverDone EXCEPT ![i] = slicesDone[i]]
    /\ leaverBuf' = [leaverBuf EXCEPT ![i] = buf[i]]
    /\ leaverLast' = [leaverLast EXCEPT ![i] = last[i]]
    /\ rpc' = [rpc EXCEPT ![i] = "off"]
    /\ last' = [last EXCEPT ![i] = {}]
    /\ ClearAssembly(i)
    /\ UNCHANGED <<tail, readerHead, flag, slotVars, sndVars, head, allocVars,
                   ctlVars, msgLen, lost, spent>>

\* The thread of the leaver goes on receiving.
LeaverReceives(i) ==
    /\ Leaver!ReaderStep(i)
    /\ UNCHANGED <<rcvVars, last>>

\* handleProcess_ReleaseShm: the ReceiveWork of the leaver ends.
LeaverStops(i) ==
    /\ leaverPc[i] = "idle"
    /\ leaverPc' = [leaverPc EXCEPT ![i] = "off"]
    /\ UNCHANGED <<vars, leaverHead, leaverCount, leaverDone, leaverBuf, leaverLast>>

HandoverNext ==
    \/ Next /\ UNCHANGED leaverVars
    \/ \E i \in ReaderSlots : Leave(i) \/ LeaverReceives(i) \/ LeaverStops(i)

HandoverSpec == HandoverInit /\ [][HandoverNext]_<<vars, leaverVars>>
=============================================================================
