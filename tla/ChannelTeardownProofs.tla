------------------------ MODULE ChannelTeardownProofs ------------------------
(***************************************************************************)
(* Proofs about ChannelTeardown, for any number of processes, receivers,   *)
(* senders and sends: its types, that no process unmaps the segment under  *)
(* its receiving thread, and that a deleted segment leaves no receiver     *)
(* asleep without a token.                                                 *)
(***************************************************************************)
EXTENDS ChannelTeardown, TLAPS

USE ReadersAssumption, SendersAssumption, KindsAssumption, MaxTriesAssumption

\* m_sending_count counts the sends between their increment and their decrement.
SendingCounts ==
    \A p \in Procs : sending[p] = IF spc[p] \in {"write", "done", "full"} THEN 1 ELSE 0

\* A worker that has got past the join has no receiving thread any more, and has
\* unmapped nothing before it is through.
JoinedIsExited ==
    /\ \A r \in Readers : wpc[r] \in {"forget", "release", "close", "closed"} => rpc[r] = "exited"
    /\ \A p \in Procs : ~mapped[p] => wpc[p] = "closed"

\* Once the daemon has cleared m_flag, nobody goes to sleep any more.
DeletedIsDisabled == dpc \in {"postAll", "deleted"} => RecvBit \notin flag

TeardownInv ==
    /\ TypeOK /\ SendingCounts
    /\ JoinedIsExited
    /\ DeletedIsDisabled /\ SleeperHasToken

USE DEF segVars, daemonVars, workerVars, recvVars, sendVars, PostAll, RecvGo, SendGo,
        DaemonGo, WorkerGo, SendBit, RecvBit

LEMMA TeardownInvInit == Init => TeardownInv
BY DEF Init, TeardownInv, TypeOK, SegType, DaemonType, WorkerType, RecvType, SendType,
       SendingCounts, JoinedIsExited, DeletedIsDisabled, SleeperHasToken

\* The receiving thread.
LEMMA InvRecv ==
    ASSUME TeardownInv, NEW r \in Readers, Recv(r) PROVE TeardownInv'
<1> USE DEF TeardownInv, TypeOK, Recv, RecvLoop, RecvEnter, RecvWait, RecvRead
<1>1. SegType'
  <2>1. mask' \subseteq Readers /\ flag' \subseteq {SendBit, RecvBit}
    BY DEF SegType, DaemonType
  <2>2. sem' \in [Readers -> Nat]
    BY DEF SegType
  <2> QED BY <2>1, <2>2 DEF SegType
<1>2. DaemonType'
  BY DEF DaemonType
<1>3. WorkerType' /\ RecvType'
  BY DEF WorkerType, RecvType
<1>4. SendType' /\ SendingCounts'
  BY DEF SendType, SendingCounts
<1>5. JoinedIsExited'
  BY DEF WorkerType, RecvType, JoinedIsExited
<1>6. DeletedIsDisabled' /\ SleeperHasToken'
  BY DEF SegType, RecvType, DeletedIsDisabled, SleeperHasToken
<1> QED BY <1>1, <1>2, <1>3, <1>4, <1>5, <1>6

\* A sending thread.
LEMMA InvSend ==
    ASSUME TeardownInv, NEW p \in Senders, SendLook(p) \/ Send(p) PROVE TeardownInv'
<1> USE DEF TeardownInv, TypeOK, Send, SendLook, SendValid, SendTest, SendCount, SendWrite,
            SendDone, SendFails
<1>1. SegType'
  <2>1. mask' \subseteq Readers /\ flag' \subseteq {SendBit, RecvBit}
    BY DEF SegType, DaemonType
  <2>2. sem' \in [Readers -> Nat]
    BY DEF SegType
  <2> QED BY <2>1, <2>2 DEF SegType
<1>2. DaemonType'
  BY DEF DaemonType
<1>3. WorkerType' /\ RecvType'
  BY DEF WorkerType, RecvType
<1>4. SendType' /\ SendingCounts'
  BY DEF SendType, SendingCounts
<1>5. JoinedIsExited'
  BY DEF WorkerType, RecvType, JoinedIsExited
<1>6. DeletedIsDisabled' /\ SleeperHasToken'
  BY DEF SegType, RecvType, DeletedIsDisabled, SleeperHasToken
<1> QED BY <1>1, <1>2, <1>3, <1>4, <1>5, <1>6

\* The daemon.
LEMMA InvDaemon ==
    ASSUME TeardownInv,
           Daemon \/ \E p \in Procs, kind \in Kinds : DaemonFree(p, kind)
    PROVE  TeardownInv'
<1> USE DEF TeardownInv, TypeOK, Daemon, DaemonFree, DaemonPost, DaemonDisable, DaemonPostAll
<1>1. SegType'
  <2>1. mask' \subseteq Readers /\ flag' \subseteq {SendBit, RecvBit}
    BY DEF SegType, DaemonType
  <2>2. sem' \in [Readers -> Nat]
    BY DEF SegType
  <2> QED BY <2>1, <2>2 DEF SegType
<1>2. DaemonType'
  BY DEF DaemonType
<1>3. WorkerType' /\ RecvType'
  BY DEF WorkerType, RecvType
<1>4. SendType' /\ SendingCounts'
  BY DEF SendType, SendingCounts
<1>5. JoinedIsExited'
  BY DEF WorkerType, RecvType, JoinedIsExited
<1>6. DeletedIsDisabled' /\ SleeperHasToken'
  BY DEF SegType, RecvType, DeletedIsDisabled, SleeperHasToken
<1> QED BY <1>1, <1>2, <1>3, <1>4, <1>5, <1>6

\* The worker of a process.
LEMMA InvWorker ==
    ASSUME TeardownInv, NEW p \in Procs, Worker(p) PROVE TeardownInv'
<1> USE DEF TeardownInv, TypeOK, Worker, StopBegins, WakeupClear, WakeupPost, Join, Forget,
            ReleaseChecks, Unmap
<1>1. SegType'
  <2>1. mask' \subseteq Readers /\ flag' \subseteq {SendBit, RecvBit}
    BY DEF SegType, DaemonType
  <2>2. sem' \in [Readers -> Nat]
    BY DEF SegType
  <2> QED BY <2>1, <2>2 DEF SegType
<1>2. DaemonType'
  BY DEF DaemonType
<1>3. WorkerType' /\ RecvType'
  BY DEF WorkerType, RecvType
<1>4. SendType' /\ SendingCounts'
  BY DEF SendType, SendingCounts
<1>5. JoinedIsExited'
  BY DEF WorkerType, RecvType, JoinedIsExited
<1>6. DeletedIsDisabled' /\ SleeperHasToken'
  BY DEF SegType, RecvType, DeletedIsDisabled, SleeperHasToken
<1> QED BY <1>1, <1>2, <1>3, <1>4, <1>5, <1>6

LEMMA InvStutter == TeardownInv /\ UNCHANGED vars => TeardownInv'
BY DEF vars, TeardownInv, TypeOK, SegType, DaemonType, WorkerType, RecvType, SendType,
       SendingCounts, JoinedIsExited, DeletedIsDisabled, SleeperHasToken

LEMMA TeardownInvStep == TeardownInv /\ [Next]_vars => TeardownInv'
BY InvRecv, InvSend, InvDaemon, InvWorker, InvStutter DEF Next, Recv, Send, Daemon, Worker

\* Every variable keeps its type; m_sending_count never wraps below zero.
THEOREM TypeCorrect == Spec => []TypeOK
<1>1. TeardownInv => TypeOK
  BY DEF TeardownInv
<1> QED BY <1>1, TeardownInvInit, TeardownInvStep, PTL DEF Spec

\* The join in ReceiveWork::stop, before releaseShm and Close, is enough: no thread
\* is inside recv when its process unmaps the segment.
THEOREM ReceiversAreMapped == Spec => []ReceiverInMappedSegment
<1>1. TeardownInv => ReceiverInMappedSegment
  BY DEF TeardownInv, TypeOK, WorkerType, RecvType, JoinedIsExited, ReceiverInMappedSegment,
         RecvInSegment
<1> QED BY <1>1, TeardownInvInit, TeardownInvStep, PTL DEF Spec

\* delete_shm clears m_flag and then posts every semaphore, in this order: whoever
\* still sleeps on the deleted segment can wake up.
THEOREM SleepersCanWake == Spec => []SleeperHasToken
<1>1. TeardownInv => SleeperHasToken
  BY DEF TeardownInv
<1> QED BY <1>1, TeardownInvInit, TeardownInvStep, PTL DEF Spec
=============================================================================
