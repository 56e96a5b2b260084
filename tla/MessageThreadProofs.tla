------------------------- MODULE MessageThreadProofs -------------------------
(***************************************************************************)
(* Two arguments about the worker.  For a worker that one thread starts    *)
(* and stops, the order of stop (m_running FALSE, then the join) and of    *)
(* start (m_running TRUE, then the thread) never leaves a thread behind    *)
(* that m_running does not announce (ControlInv).  For any number of       *)
(* threads, what epoll has to report and the array it was copied to hold   *)
(* every wake-up and every expiration that is not dealt with (WorkerInv).  *)
(***************************************************************************)
EXTENDS MessageThread, DataLemmas

\* While its one controller is between operations m_running tells of any thread
\* that was not joined; in the middle of start there is none, and once m_running is
\* set only stop, which is the same thread's, resets it.
ControlInv ==
    /\ running \in BOOLEAN
    /\ kpc \in [Controllers -> {"idle", "store", "thread", "wake", "join"}]
    /\ \A k \in Controllers :
          /\ kpc[k] = "idle" /\ wpc # "none" => running
          /\ kpc[k] \in {"store", "thread"} => wpc = "none"
          /\ kpc[k] = "thread" => running

\* A step of a caller, of a timer or of the descriptor leaves the control alone.
LEMMA OthersKeepControl ==
    ASSUME ControlInv, UNCHANGED <<running, wpc, kpc>>
    PROVE  ControlInv'
  BY DEF ControlInv

LEMMA CallersKeepControl ==
    ASSUME NEW c \in Callers,
           \/ \E op \in Ops[c] : Call(c, op)
           \/ Write(c) \/ Wake(c) \/ StartTimerReturns(c)
    PROVE  UNCHANGED <<running, wpc, kpc>>
  BY DEF Call, Write, Wake, StartTimerReturns, workerVars, controlVars

\* The worker ends only once m_running is FALSE, and only join forgets it.
LEMMA WorkerKeepsControl ==
    ASSUME ControlInv,
           \/ Check \/ Poll \/ EventBatch \/ FdBatch \/ BatchDone \/ Pop \/ Drained
           \/ \E fd \in Fds : TimerBatch(fd)
    PROVE  ControlInv'
  <1>1. CASE Check
    BY <1>1 DEF Check, WGo, ControlInv, controlVars
  <1>2. CASE Poll
    BY <1>2 DEF Poll, WGo, ControlInv, controlVars
  <1>3. CASE EventBatch
    BY <1>3 DEF EventBatch, WGo, ControlInv, controlVars
  <1>4. CASE FdBatch
    BY <1>4, OthersKeepControl DEF FdBatch, controlVars
  <1>5. CASE BatchDone
    BY <1>5 DEF BatchDone, WGo, ControlInv, controlVars
  <1>6. CASE Pop
    BY <1>6, OthersKeepControl DEF Pop, controlVars
  <1>7. CASE Drained
    BY <1>7 DEF Drained, WGo, ControlInv, controlVars
  <1>8. ASSUME NEW fd \in Fds, TimerBatch(fd) PROVE ControlInv'
    BY <1>8, OthersKeepControl DEF TimerBatch, controlVars
  <1>9. QED
    BY <1>1, <1>2, <1>3, <1>4, <1>5, <1>6, <1>7, <1>8

\* One controller is never in start and in stop at once.
LEMMA ControllerKeepsControl ==
    ASSUME ControlInv, NEW k, Controllers = {k},
           \/ StartLoad(k) \/ StartStore(k) \/ StartThread(k)
           \/ StopSet(k) \/ StopWake(k) \/ StopJoin(k)
    PROVE  ControlInv'
  <1> USE DEF ControlInv, KGo
  <1>1. CASE StartLoad(k)
    BY <1>1 DEF StartLoad, workerVars
  <1>2. CASE StartStore(k)
    BY <1>2 DEF StartStore
  <1>3. CASE StartThread(k)
    BY <1>3 DEF StartThread
  <1>4. CASE StopSet(k)
    BY <1>4 DEF StopSet
  <1>5. CASE StopWake(k)
    BY <1>5 DEF StopWake, workerVars
  <1>6. CASE StopJoin(k)
    BY <1>6 DEF StopJoin
  <1>7. QED
    BY <1>1, <1>2, <1>3, <1>4, <1>5, <1>6

\* A worker that one thread controls is never started over a thread that was not
\* joined (ThreadBase::start after MessageThread::stop), whatever its callers, its
\* timers and its own loop do in between.
THEOREM StartIsAlone ==
    ASSUME NEW k, Controllers = {k}
    PROVE  Spec => []StartsOneThread
  <1>1. Init => ControlInv
    BY DEF Init, ControlInv
  <1>2. ControlInv /\ [Next]_vars => ControlInv'
    <2> SUFFICES ASSUME ControlInv, [Next]_vars PROVE ControlInv'
      OBVIOUS
    <2>1. ASSUME NEW c \in Callers,
                 \/ \E op \in Ops[c] : Call(c, op)
                 \/ Write(c) \/ Wake(c) \/ StartTimerReturns(c)
          PROVE  ControlInv'
      BY <2>1, CallersKeepControl, OthersKeepControl
    <2>2. ASSUME NEW fd \in Fds, Elapse(fd) PROVE ControlInv'
      BY <2>2, OthersKeepControl DEF Elapse, controlVars
    <2>3. CASE Signal
      BY <2>3, OthersKeepControl DEF Signal, controlVars
    <2>4. CASE UNCHANGED vars
      BY <2>4, OthersKeepControl DEF vars, workerVars, controlVars
    <2>5. QED
      BY <2>1, <2>2, <2>3, <2>4, WorkerKeepsControl, ControllerKeepsControl DEF Next
  <1>3. ControlInv => StartsOneThread
    BY DEF ControlInv, StartsOneThread
  <1>4. QED
    BY <1>1, <1>2, <1>3, PTL DEF Spec

-----------------------------------------------------------------------------
(* The worker's loop: what epoll has to report, and what it works off. *)

AllFds == Fds \cup {EventFd, UserFd}

\* What epoll will report or has reported to the worker.
Reported == ToSet(ready) \cup ToSet(batch)

\* The array of epoll_wait is worked off before the next call; a task that stops a
\* timer names one.
LoopInv ==
    /\ wpc \notin {"batch", "drain"} => batch = <<>>
    /\ \A k \in DOMAIN queue : queue[k].op = "stopTimer" => queue[k].fd # NoFd

WakeInv ==
    (queue # <<>> /\ Head(queue).written) =>
        \/ wpc = "drain"
        \/ EventFd \in Reported
        \/ \E c \in Callers : cpc[c] \in {"wake", "wakeWait"}

DueInv ==
    /\ \A fd \in Fds : timers[fd].due => fd \in Reported
    /\ userFd.added /\ userFd.high => UserFd \in ToSet(ready)

WorkerInv == TypeOK /\ LoopInv /\ WakeInv /\ DueInv

TaskRec == [op : AllOps, by : Callers, fd : Fds \cup {NoFd}, written : BOOLEAN]

LEMMA FdsDiffer ==
    /\ EventFd \notin Fds /\ UserFd \notin Fds /\ EventFd # UserFd
    /\ Fds \subseteq Nat \ {0}
  BY FdsAssumption

\* A descriptor becomes ready.
LEMMA MakeReadyAdds ==
    ASSUME TypeOK, NEW fd \in AllFds, MakeReady(fd)
    PROVE  ready' \in Seq(AllFds) /\ IsInjective(ready') /\ ToSet(ready') = ToSet(ready) \cup {fd}
  <1>1. ready \in Seq(AllFds) /\ IsInjective(ready)
    BY DEF TypeOK, AllFds
  <1>2. CASE Contains(ready, fd)
    BY <1>1, <1>2, ContainsIsMember DEF MakeReady
  <1>3. CASE ~Contains(ready, fd)
    <2>1. ready' = Append(ready, fd)
      BY <1>3 DEF MakeReady
    <2>2. fd \notin ToSet(ready)
      BY <1>1, <1>3, ContainsIsMember
    <2>3. QED
      BY <1>1, <2>1, <2>2, AppendFacts
  <1>4. QED
    BY <1>2, <1>3

\* Descriptors leave the list.
LEMMA WithoutRemoves ==
    ASSUME TypeOK, NEW F, ready' = Without(ready, F)
    PROVE  ready' \in Seq(AllFds) /\ IsInjective(ready') /\ ToSet(ready') = ToSet(ready) \ F
  <1>1. ready \in Seq(AllFds) /\ IsInjective(ready)
    BY DEF TypeOK, AllFds
  <1>2. QED
    BY <1>1, WithoutFacts

\* The next descriptor of the array is taken.
LEMMA BatchLoses ==
    ASSUME TypeOK, batch # <<>>, batch' = Tail(batch)
    PROVE  batch' \in Seq(AllFds) /\ ToSet(batch) = {Head(batch)} \cup ToSet(batch')
  <1>1. batch \in Seq(AllFds)
    BY DEF TypeOK, AllFds
  <1>2. QED
    BY <1>1, TailFacts

LEMMA NothingListed == ToSet(<<>>) = {} /\ IsInjective(<<>>)
  <1>1. DOMAIN <<>> = {}
    OBVIOUS
  <1>2. QED
    BY <1>1, Zenon DEF ToSet, IsInjective

LEMMA WorkerInvInit == Init => WorkerInv
  <1> SUFFICES ASSUME Init PROVE WorkerInv
    OBVIOUS
  <1>1. ready = <<>> /\ batch = <<>> /\ queue = <<>> /\ spent = 0
    BY DEF Init
  <1>2. TypeOK
    <2>1. /\ queue \in Seq(TaskRec) /\ Len(queue) <= Capacity
          /\ {ready, batch} \subseteq Seq(AllFds)
      BY <1>1, BoundsAssumption
    <2>2. spent \in 0 .. MaxOps
      BY <1>1, BoundsAssumption
    <2>3. QED
      BY <1>1, <2>1, <2>2, NothingListed DEF Init, TypeOK, AllFds, TaskRec, NoTimer
  <1>3. LoopInv
    BY <1>1 DEF LoopInv
  <1>4. WakeInv
    BY <1>1 DEF WakeInv
  <1>5. DueInv
    <2>1. \A fd \in Fds : ~timers[fd].due
      BY DEF Init, NoTimer
    <2>2. ~userFd.added
      BY DEF Init
    <2>3. QED
      BY <2>1, <2>2 DEF DueInv
  <1>6. QED
    BY <1>2, <1>3, <1>4, <1>5 DEF WorkerInv

\* A task more at the end, one less at the front, or one that is written.
LEMMA CallKeeps ==
    ASSUME WorkerInv, NEW c \in Callers, NEW op \in Ops[c], Call(c, op)
    PROVE  WorkerInv'
  <1> DEFINE t == [op |-> op, by |-> c, fd |-> held[c], written |-> FALSE]
  <1>1. /\ TypeOK /\ LoopInv /\ WakeInv /\ DueInv
        /\ queue \in Seq(TaskRec) /\ Len(queue) < Capacity
    BY DEF WorkerInv, TypeOK, TaskRec, Call
  <1>2. t \in TaskRec
    BY <1>1, OpsAssumption DEF TypeOK, TaskRec
  <1>3. t.op = "stopTimer" => t.fd # NoFd
    BY DEF Call
  <1>4. t.written = FALSE
    OBVIOUS
  <1>5. queue' = Append(queue, t)
    BY DEF Call
  <1> HIDE DEF t
  <1>6. /\ queue' \in Seq(TaskRec) /\ Len(queue') <= Capacity
        /\ DOMAIN queue' = 1 .. Len(queue) + 1 /\ DOMAIN queue = 1 .. Len(queue)
        /\ \A k \in 1 .. Len(queue) : queue'[k] = queue[k]
        /\ queue'[Len(queue) + 1] = t
    BY <1>1, <1>2, <1>5, BoundsAssumption
  <1>7. TypeOK'
    <2>1. held' \in [Callers -> Fds \cup {NoFd}]
      BY <1>1 DEF TypeOK, Call
    <2>2. spent' \in 0 .. MaxOps
      BY <1>1, BoundsAssumption DEF TypeOK, Call
    <2>3. cpc' \in [Callers -> {"idle", "write", "wake", "wakeWait", "wait"}]
      BY <1>1 DEF TypeOK, Call
    <2>4. QED
      BY <1>1, <1>6, <2>1, <2>2, <2>3 DEF TypeOK, Call, workerVars, controlVars, TaskRec
  <1>8. LoopInv'
    <2>1. ASSUME NEW k \in DOMAIN queue' PROVE queue'[k].op = "stopTimer" => queue'[k].fd # NoFd
      BY <1>1, <1>3, <1>6 DEF LoopInv
    <2>2. QED
      BY <1>1, <2>1 DEF LoopInv, Call, workerVars
  <1>9. WakeInv'
    <2>1. CASE queue = <<>>
      <3>1. Head(queue').written = FALSE
        BY <1>4, <1>5, <2>1
      <3>2. QED
        BY <3>1 DEF WakeInv
    <2>2. CASE queue # <<>>
      <3>1. Head(queue') = Head(queue)
        BY <1>1, <1>2, <1>5, <2>2
      <3>2. \A d \in Callers : cpc[d] \in {"wake", "wakeWait"} => cpc'[d] \in {"wake", "wakeWait"}
        BY <1>1 DEF Call, TypeOK
      <3>3. QED
        BY <1>1, <2>2, <3>1, <3>2 DEF WakeInv, Reported, Call, workerVars
    <2>3. QED
      BY <2>1, <2>2
  <1>10. DueInv'
    BY <1>1 DEF DueInv, Reported, Call, workerVars
  <1>11. QED
    BY <1>7, <1>8, <1>9, <1>10 DEF WorkerInv

LEMMA WriteKeeps ==
    ASSUME WorkerInv, NEW c \in Callers, Write(c)
    PROVE  WorkerInv'
  <1>1. /\ TypeOK /\ LoopInv /\ WakeInv /\ DueInv
        /\ queue \in Seq(TaskRec) /\ DOMAIN queue = 1 .. Len(queue)
    BY DEF WorkerInv, TypeOK, TaskRec
  <1>2. PICK k \in DOMAIN queue : queue' = [queue EXCEPT ![k].written = TRUE]
    BY DEF Write
  <1>3. PICK t : t = [queue[k] EXCEPT !.written = TRUE]
    OBVIOUS
  <1>4. t \in TaskRec /\ t.op = queue[k].op /\ t.fd = queue[k].fd
    <2>1. queue[k] \in TaskRec
      BY <1>1
    <2>2. QED
      BY <1>3, <2>1 DEF TaskRec
  <1>5. queue' = [queue EXCEPT ![k] = t]
    BY <1>2, <1>3
  <1>6. queue' \in Seq(TaskRec) /\ Len(queue') = Len(queue) /\ DOMAIN queue' = DOMAIN queue
    BY <1>1, <1>4, <1>5
  <1>7. /\ cpc'[c] \in {"wake", "wakeWait"}
        /\ cpc' \in [Callers -> {"idle", "write", "wake", "wakeWait", "wait"}]
    <2>1. PICK x : cpc' = [cpc EXCEPT ![c] = x] /\ x \in {"wake", "wakeWait"}
      <3>1. PICK k2 \in DOMAIN queue :
                cpc' = [cpc EXCEPT ![c] = IF queue[k2].op \in Answered THEN "wakeWait"
                                          ELSE "wake"]
        BY DEF Write
      <3>2. CASE queue[k2].op \in Answered
        BY <3>1, <3>2
      <3>3. CASE queue[k2].op \notin Answered
        BY <3>1, <3>3
      <3>4. QED
        BY <3>2, <3>3
    <2>2. cpc \in [Callers -> {"idle", "write", "wake", "wakeWait", "wait"}]
      BY <1>1 DEF TypeOK
    <2>3. QED
      BY <2>1, <2>2
  <1>8. TypeOK'
    BY <1>1, <1>6, <1>7 DEF TypeOK, Write, workerVars, controlVars, TaskRec
  <1>9. LoopInv'
    <2>1. ASSUME NEW j \in DOMAIN queue' PROVE queue'[j].op = "stopTimer" => queue'[j].fd # NoFd
      BY <1>1, <1>4, <1>5, <1>6 DEF LoopInv
    <2>2. QED
      BY <1>1, <2>1 DEF LoopInv, Write, workerVars
  <1>10. WakeInv'
    BY <1>7 DEF WakeInv
  <1>11. DueInv'
    BY <1>1 DEF DueInv, Reported, Write, workerVars
  <1>12. QED
    BY <1>8, <1>9, <1>10, <1>11 DEF WorkerInv

\* More is reported, or the same: what holds of the timers and of the queue stays.
LEMMA MoreReported ==
    ASSUME TypeOK, LoopInv, WakeInv, DueInv, TypeOK',
           ToSet(ready) \subseteq ToSet(ready'),
           UNCHANGED <<queue, wpc, batch, timers, userFd>>,
           \/ UNCHANGED cpc
           \/ EventFd \in ToSet(ready')
    PROVE  WorkerInv'
  <1>1. Reported \subseteq Reported'
    BY DEF Reported
  <1>2. LoopInv'
    BY DEF LoopInv
  <1>3. WakeInv'
    BY <1>1 DEF WakeInv, Reported
  <1>4. DueInv'
    BY <1>1 DEF DueInv
  <1>5. QED
    BY <1>2, <1>3, <1>4 DEF WorkerInv

LEMMA WakeKeeps ==
    ASSUME WorkerInv, NEW c \in Callers, Wake(c)
    PROVE  WorkerInv'
  <1>1. /\ TypeOK /\ LoopInv /\ WakeInv /\ DueInv /\ EventFd \in AllFds
        /\ MakeReady(EventFd)
    BY DEF WorkerInv, AllFds, Wake
  <1>2. /\ ready' \in Seq(AllFds) /\ IsInjective(ready')
        /\ ToSet(ready') = ToSet(ready) \cup {EventFd}
    BY <1>1, MakeReadyAdds
  <1>3. cpc' \in [Callers -> {"idle", "write", "wake", "wakeWait", "wait"}]
    BY <1>1 DEF Wake, TypeOK
  <1>4. TypeOK'
    BY <1>1, <1>2, <1>3 DEF TypeOK, Wake, workerVars, controlVars, AllFds
  <1>5. QED
    BY <1>1, <1>2, <1>4, MoreReported DEF Wake, workerVars

LEMMA StartTimerReturnsKeeps ==
    ASSUME WorkerInv, NEW c \in Callers, StartTimerReturns(c)
    PROVE  WorkerInv'
  <1>1. TypeOK /\ LoopInv /\ WakeInv /\ DueInv
    BY DEF WorkerInv
  <1>2. /\ cpc' \in [Callers -> {"idle", "write", "wake", "wakeWait", "wait"}]
        /\ done' \in [Callers -> BOOLEAN]
    BY <1>1 DEF StartTimerReturns, SemWait, TypeOK
  <1>3. \A d \in Callers : cpc[d] \in {"wake", "wakeWait"} => cpc'[d] = cpc[d]
    BY <1>1 DEF StartTimerReturns, TypeOK
  <1>4. TypeOK'
    BY <1>1, <1>2 DEF TypeOK, StartTimerReturns, workerVars, controlVars
  <1>5. LoopInv' /\ DueInv'
    BY <1>1 DEF LoopInv, DueInv, Reported, StartTimerReturns, workerVars
  <1>6. WakeInv'
    BY <1>1, <1>3 DEF WakeInv, Reported, StartTimerReturns, workerVars
  <1>7. QED
    BY <1>4, <1>5, <1>6 DEF WorkerInv

\* Of a thread that starts or stops the worker.
LEMMA ControlKeeps ==
    ASSUME WorkerInv, NEW k \in Controllers,
           \/ StartLoad(k) \/ StartStore(k) \/ StartThread(k)
           \/ StopSet(k) \/ StopWake(k) \/ StopJoin(k)
    PROVE  WorkerInv'
  <1>1. TypeOK /\ LoopInv /\ WakeInv /\ DueInv
    BY DEF WorkerInv
  <1>2. kpc' \in [Controllers -> {"idle", "store", "thread", "wake", "join"}]
    BY <1>1 DEF TypeOK, KGo, StartLoad, StartStore, StartThread, StopSet, StopWake, StopJoin
  <1>3. CASE StopWake(k)
    <2>1. /\ ready' \in Seq(AllFds) /\ IsInjective(ready')
          /\ ToSet(ready') = ToSet(ready) \cup {EventFd}
      BY <1>1, <1>3, MakeReadyAdds DEF StopWake, AllFds
    <2>2. TypeOK'
      BY <1>1, <1>2, <1>3, <2>1 DEF TypeOK, StopWake, workerVars, callerVars, AllFds
    <2>3. QED
      BY <1>1, <1>3, <2>1, <2>2, MoreReported DEF StopWake, workerVars, callerVars
  <1>4. CASE \/ StartLoad(k) \/ StartStore(k) \/ StartThread(k)
             \/ StopSet(k) \/ StopJoin(k)
    <2>1. /\ UNCHANGED <<batch, timers, userFd, queue, ready, callerVars>>
          /\ running' \in BOOLEAN
          /\ \/ wpc' = wpc
             \/ wpc = "none" /\ wpc' = "check"
             \/ wpc \in {"none", "exited"} /\ wpc' = "none"
      BY <1>1, <1>4 DEF TypeOK, StartLoad, StartStore, StartThread, StopSet, StopJoin, workerVars
    <2>2. TypeOK'
      BY <1>1, <1>2, <2>1 DEF TypeOK, callerVars
    <2>3. LoopInv' /\ DueInv'
      BY <1>1, <2>1 DEF LoopInv, DueInv, Reported
    <2>4. WakeInv'
      BY <1>1, <2>1 DEF WakeInv, Reported, callerVars
    <2>5. QED
      BY <2>2, <2>3, <2>4 DEF WorkerInv
  <1>5. QED
    BY <1>3, <1>4

\* The worker goes on without touching a list.
LEMMA LoopKeeps ==
    ASSUME WorkerInv, Check \/ BatchDone \/ Drained
    PROVE  WorkerInv'
  <1>1. TypeOK /\ LoopInv /\ WakeInv /\ DueInv
    BY DEF WorkerInv
  <1>2. /\ UNCHANGED <<running, batch, timers, userFd, queue, ready, callerVars, controlVars>>
        /\ wpc' \in {"poll", "exited", "check", "batch"}
        /\ wpc = "drain" => queue = <<>>
        /\ wpc' # "batch" => batch = <<>>
    BY <1>1 DEF Check, BatchDone, Drained, WGo, LoopInv
  <1>3. TypeOK'
    BY <1>1, <1>2 DEF TypeOK, callerVars, controlVars
  <1>4. LoopInv' /\ DueInv'
    BY <1>1, <1>2 DEF LoopInv, DueInv, Reported
  <1>5. WakeInv'
    BY <1>1, <1>2 DEF WakeInv, Reported, callerVars
  <1>6. QED
    BY <1>3, <1>4, <1>5 DEF WorkerInv

LEMMA PollKeeps ==
    ASSUME WorkerInv, Poll
    PROVE  WorkerInv'
  <1>1. TypeOK /\ LoopInv /\ WakeInv /\ DueInv
    BY DEF WorkerInv
  <1> DEFINE front == SubSeq(ready, 1, Reports)
             back == SubSeq(ready, Reports + 1, Len(ready))
             kept == Without(front, Fds \cup {EventFd})
  <1>2. batch = <<>> /\ batch' = front /\ ready' = back \o kept /\ wpc = "poll" /\ wpc' = "batch"
    BY <1>1 DEF Poll, LoopInv, WGo
  <1>3. /\ front \in Seq(AllFds) /\ back \in Seq(AllFds)
        /\ ToSet(ready) = ToSet(front) \cup ToSet(back)
        /\ IsInjective(front) /\ IsInjective(back) /\ ToSet(front) \cap ToSet(back) = {}
    <2>1. ready \in Seq(AllFds) /\ IsInjective(ready)
      BY <1>1 DEF TypeOK, AllFds
    <2>2. PICK n \in 0 .. Len(ready) : n = Reports
      BY <2>1, BoundsAssumption DEF Reports
    <2>3. front = SubSeq(ready, 1, n) /\ back = SubSeq(ready, n + 1, Len(ready))
      BY <2>2
    <2>4. QED
      BY <2>1, <2>2, <2>3, SplitFacts
  <1> HIDE DEF front, back
  <1>4. /\ kept \in Seq(AllFds) /\ ToSet(kept) = ToSet(front) \ (Fds \cup {EventFd})
        /\ IsInjective(kept)
    BY <1>3, WithoutFacts
  <1> HIDE DEF kept
  <1>5. /\ ready' \in Seq(AllFds) /\ IsInjective(ready')
        /\ ToSet(ready') = ToSet(back) \cup ToSet(kept)
    <2>1. ToSet(back) \cap ToSet(kept) = {}
      BY <1>3, <1>4
    <2>2. QED
      BY <1>2, <1>3, <1>4, <2>1, ConcatFacts
  <1>6. Reported \subseteq Reported'
    BY <1>2, <1>3, <1>5, NothingListed DEF Reported
  <1>7. TypeOK'
    BY <1>1, <1>2, <1>3, <1>5 DEF TypeOK, Poll, callerVars, controlVars, AllFds
  <1>8. LoopInv'
    BY <1>1, <1>2 DEF LoopInv, Poll
  <1>9. WakeInv'
    BY <1>1, <1>2, <1>6 DEF WakeInv, Poll, callerVars
  <1>10. DueInv'
    <2>1. \A fd \in Fds : timers'[fd].due => fd \in Reported'
      BY <1>1, <1>6 DEF DueInv, Poll
    <2>2. UserFd \in ToSet(ready) => UserFd \in ToSet(ready')
      BY <1>3, <1>4, <1>5, FdsDiffer
    <2>3. QED
      BY <1>1, <2>1, <2>2 DEF DueInv, Poll
  <1>11. QED
    BY <1>7, <1>8, <1>9, <1>10 DEF WorkerInv

LEMMA EventBatchKeeps ==
    ASSUME WorkerInv, EventBatch
    PROVE  WorkerInv'
  <1>1. TypeOK /\ LoopInv /\ WakeInv /\ DueInv
    BY DEF WorkerInv
  <1>2. /\ batch' \in Seq(AllFds) /\ ToSet(batch) = {EventFd} \cup ToSet(batch')
        /\ wpc' = "drain"
    BY <1>1, BatchLoses DEF EventBatch, WGo
  <1>3. TypeOK'
    BY <1>1, <1>2 DEF TypeOK, EventBatch, callerVars, controlVars, AllFds
  <1>4. LoopInv'
    BY <1>1, <1>2 DEF LoopInv, EventBatch
  <1>5. WakeInv'
    BY <1>2 DEF WakeInv
  <1>6. DueInv'
    BY <1>1, <1>2, FdsDiffer DEF DueInv, EventBatch, Reported
  <1>7. QED
    BY <1>3, <1>4, <1>5, <1>6 DEF WorkerInv

LEMMA TimerBatchKeeps ==
    ASSUME WorkerInv, NEW fd \in Fds, TimerBatch(fd)
    PROVE  WorkerInv'
  <1>1. TypeOK /\ LoopInv /\ WakeInv /\ DueInv
    BY DEF WorkerInv
  <1>2. /\ batch' \in Seq(AllFds) /\ ToSet(batch) = {fd} \cup ToSet(batch')
        /\ wpc = "batch" /\ wpc' = "batch"
    BY <1>1, BatchLoses DEF TimerBatch
  <1>3. /\ ready' \in Seq(AllFds) /\ IsInjective(ready')
        /\ ToSet(ready) \ {fd} \subseteq ToSet(ready')
    <2>1. CASE UNCHANGED ready
      BY <1>1, <2>1 DEF TypeOK, AllFds
    <2>2. CASE ready' = NoLongerReady(fd)
      BY <1>1, <2>2, WithoutRemoves DEF NoLongerReady
    <2>3. QED
      BY <2>1, <2>2 DEF TimerBatch
  <1>4. /\ timers' \in [Fds -> [kind : {"none", "once", "periodic"}, due : BOOLEAN]]
        /\ ~timers'[fd].due
        /\ \A g \in Fds : g # fd => timers'[g] = timers[g]
    <2>1. timers \in [Fds -> [kind : {"none", "once", "periodic"}, due : BOOLEAN]]
      BY <1>1 DEF TypeOK
    <2>2. NoTimer \in [kind : {"none", "once", "periodic"}, due : BOOLEAN] /\ ~NoTimer.due
      BY DEF NoTimer
    <2>3. CASE timers' = [timers EXCEPT ![fd].due = FALSE]
      BY <2>1, <2>3
    <2>4. CASE timers' = [timers EXCEPT ![fd] = NoTimer]
      BY <2>1, <2>2, <2>4
    <2>5. CASE timers[fd] = NoTimer /\ UNCHANGED timers
      BY <2>1, <2>2, <2>5
    <2>6. QED
      BY <2>3, <2>4, <2>5 DEF TimerBatch
  <1>5. TypeOK'
    BY <1>1, <1>2, <1>3, <1>4 DEF TypeOK, TimerBatch, callerVars, controlVars, AllFds
  <1>6. LoopInv'
    BY <1>1, <1>2 DEF LoopInv, TimerBatch
  <1>7. WakeInv'
    BY <1>1, <1>2, <1>3, FdsDiffer DEF WakeInv, TimerBatch, Reported, callerVars
  <1>8. DueInv'
    BY <1>1, <1>2, <1>3, <1>4, FdsDiffer DEF DueInv, TimerBatch, Reported
  <1>9. QED
    BY <1>5, <1>6, <1>7, <1>8 DEF WorkerInv

LEMMA FdBatchKeeps ==
    ASSUME WorkerInv, FdBatch
    PROVE  WorkerInv'
  <1>1. TypeOK /\ LoopInv /\ WakeInv /\ DueInv
    BY DEF WorkerInv
  <1>2. /\ batch' \in Seq(AllFds) /\ ToSet(batch) = {UserFd} \cup ToSet(batch')
        /\ wpc = "batch" /\ wpc' = "batch"
    BY <1>1, BatchLoses DEF FdBatch
  <1>3. /\ ready' \in Seq(AllFds) /\ IsInjective(ready')
        /\ ToSet(ready) \ {UserFd} \subseteq ToSet(ready')
    <2>1. CASE UNCHANGED ready
      BY <1>1, <2>1 DEF TypeOK, AllFds
    <2>2. CASE ready' = NoLongerReady(UserFd)
      BY <1>1, <2>2, WithoutRemoves DEF NoLongerReady
    <2>3. QED
      BY <2>1, <2>2 DEF FdBatch
  <1>4. userFd' \in [added : BOOLEAN, high : BOOLEAN] /\ ~(userFd'.added /\ userFd'.high)
    BY <1>1 DEF TypeOK, FdBatch
  <1>5. TypeOK'
    BY <1>1, <1>2, <1>3, <1>4 DEF TypeOK, FdBatch, callerVars, controlVars, AllFds
  <1>6. LoopInv'
    BY <1>1, <1>2 DEF LoopInv, FdBatch
  <1>7. WakeInv'
    BY <1>1, <1>2, <1>3, FdsDiffer DEF WakeInv, FdBatch, Reported, callerVars
  <1>8. DueInv'
    BY <1>1, <1>2, <1>3, <1>4, FdsDiffer DEF DueInv, FdBatch, Reported
  <1>9. QED
    BY <1>5, <1>6, <1>7, <1>8 DEF WorkerInv

TimerType == [kind : {"none", "once", "periodic"}, due : BOOLEAN]

\* What a task of the queue does to the timers, to the watched descriptor and to
\* what epoll has to report.
TaskEffect ==
    /\ ready' \in Seq(AllFds) /\ IsInjective(ready')
    /\ timers' \in [Fds -> TimerType]
    /\ userFd' \in [added : BOOLEAN, high : BOOLEAN]
    /\ held' \in [Callers -> Fds \cup {NoFd}]
    /\ done' \in [Callers -> BOOLEAN]
    /\ \A fd \in Fds : timers'[fd].due =>
          timers[fd].due /\ (fd \in ToSet(ready) => fd \in ToSet(ready'))
    /\ userFd'.added /\ userFd'.high => UserFd \in ToSet(ready')

LEMMA TimerStartsEffect ==
    ASSUME WorkerInv, NEW t \in TaskRec, TimerStarts(t)
    PROVE  TaskEffect
  <1> DEFINE free == {fd \in Fds : timers[fd] = NoTimer}
             lowest == CHOOSE f \in free : \A g \in free : f <= g
             timer == [kind |-> t.op, due |-> FALSE]
  <1>1. TypeOK /\ DueInv /\ t.by \in Callers
    BY DEF WorkerInv, TaskRec
  <1>2. timers \in [Fds -> TimerType] /\ held \in [Callers -> Fds \cup {NoFd}]
    BY <1>1 DEF TypeOK, TimerType
  <1>3. done' \in [Callers -> BOOLEAN]
    BY <1>1 DEF TimerStarts, SemPost, TypeOK
  <1>4. timer \in TimerType /\ timer.due = FALSE
    BY DEF TimerStarts, TimerType
  <1>5. free # {} => lowest \in Fds
    <2>1. free \subseteq Nat
      BY FdsAssumption
    <2>2. free # {} => \E f \in free : \A g \in free : f <= g
      BY <2>1, Least
    <2>3. free # {} => lowest \in free
      BY <2>2, Zenon
    <2>4. QED
      BY <2>3
  <1>6. \/ timers' = [timers EXCEPT ![lowest] = timer] /\ held' = [held EXCEPT ![t.by] = lowest]
           /\ free # {}
        \/ timers' = timers /\ held' = [held EXCEPT ![t.by] = NoFd]
    BY Zenon DEF TimerStarts
  <1> HIDE DEF free, lowest, timer
  <1>7. /\ timers' \in [Fds -> TimerType]
        /\ held' \in [Callers -> Fds \cup {NoFd}]
        /\ \A fd \in Fds : timers'[fd].due => timers[fd].due
    BY <1>2, <1>4, <1>5, <1>6
  <1>8. ready' = ready /\ userFd' = userFd
    BY DEF TimerStarts
  <1>9. QED
    BY <1>1, <1>3, <1>7, <1>8 DEF TaskEffect, TypeOK, DueInv, AllFds

LEMMA TimerStopsEffect ==
    ASSUME WorkerInv, NEW t \in TaskRec, t.fd # NoFd, TimerStops(t)
    PROVE  TaskEffect
  <1>1. TypeOK /\ DueInv /\ t.fd \in Fds
    BY DEF WorkerInv, TaskRec
  <1>2. /\ ready' \in Seq(AllFds) /\ IsInjective(ready')
        /\ ToSet(ready') = ToSet(ready) \ {t.fd}
    BY <1>1, WithoutRemoves DEF TimerStops, NoLongerReady
  <1>3. /\ timers' \in [Fds -> TimerType] /\ ~timers'[t.fd].due
        /\ \A fd \in Fds : fd # t.fd => timers'[fd] = timers[fd]
    <2>1. NoTimer \in TimerType /\ ~NoTimer.due
      BY DEF NoTimer, TimerType
    <2>2. timers \in [Fds -> TimerType]
      BY <1>1 DEF TypeOK, TimerType
    <2>3. QED
      BY <1>1, <2>1, <2>2 DEF TimerStops
  <1>4. QED
    BY <1>1, <1>2, <1>3, FdsDiffer DEF TaskEffect, TimerStops, TypeOK, DueInv

LEMMA FdIsAddedEffect ==
    ASSUME WorkerInv, NEW t \in TaskRec, FdIsAdded(t)
    PROVE  TaskEffect
  <1>1. TypeOK /\ DueInv /\ t.by \in Callers /\ UserFd \in AllFds
    BY DEF WorkerInv, TaskRec, AllFds
  <1>2. /\ ready' \in Seq(AllFds) /\ IsInjective(ready')
        /\ ToSet(ready) \subseteq ToSet(ready')
        /\ userFd.high => UserFd \in ToSet(ready')
    <2>1. CASE userFd.high
      BY <1>1, <2>1, MakeReadyAdds DEF FdIsAdded
    <2>2. CASE ~userFd.high
      BY <1>1, <2>2 DEF FdIsAdded, TypeOK, AllFds
    <2>3. QED
      BY <2>1, <2>2
  <1>3. userFd' \in [added : BOOLEAN, high : BOOLEAN] /\ userFd'.high = userFd.high
    BY <1>1 DEF FdIsAdded, TypeOK
  <1>4. done' \in [Callers -> BOOLEAN]
    BY <1>1 DEF FdIsAdded, SemPost, TypeOK
  <1>5. QED
    BY <1>1, <1>2, <1>3, <1>4 DEF TaskEffect, FdIsAdded, TypeOK, TimerType

LEMMA FdIsRemovedEffect ==
    ASSUME WorkerInv, NEW t \in TaskRec, FdIsRemoved(t)
    PROVE  TaskEffect
  <1>1. TypeOK
    BY DEF WorkerInv
  <1>2. /\ ready' \in Seq(AllFds) /\ IsInjective(ready')
        /\ ToSet(ready') = ToSet(ready) \ {UserFd}
    BY <1>1, WithoutRemoves DEF FdIsRemoved, NoLongerReady
  <1>3. userFd' \in [added : BOOLEAN, high : BOOLEAN] /\ ~userFd'.added
    BY <1>1 DEF FdIsRemoved, TypeOK
  <1>4. QED
    BY <1>1, <1>2, <1>3, FdsDiffer DEF TaskEffect, FdIsRemoved, TypeOK, TimerType

LEMMA PopKeeps ==
    ASSUME WorkerInv, Pop
    PROVE  WorkerInv'
  <1>1. TypeOK /\ LoopInv /\ WakeInv /\ DueInv /\ queue \in Seq(TaskRec) /\ queue # <<>>
    BY DEF WorkerInv, TypeOK, TaskRec, Pop
  <1>2. /\ Head(queue) \in TaskRec /\ queue' \in Seq(TaskRec) /\ Len(queue') = Len(queue) - 1
        /\ Head(queue) = queue[1] /\ 1 \in DOMAIN queue
        /\ \A k \in DOMAIN queue' : k + 1 \in DOMAIN queue /\ queue'[k] = queue[k + 1]
    <2>1. queue' = Tail(queue)
      BY DEF Pop
    <2>2. QED
      BY <1>1, <2>1
  <1>3. wpc = "drain" /\ wpc' = "drain" /\ Len(queue') <= Capacity
    <2>1. Len(queue) \in Nat /\ Len(queue) <= Capacity /\ Capacity \in Nat
      BY <1>1, BoundsAssumption DEF TypeOK
    <2>2. QED
      BY <1>2, <2>1 DEF Pop
  <1>4. TaskEffect
    <2> DEFINE t == Head(queue)
    <2>1. \/ t.op = "post" /\ UNCHANGED <<timers, userFd, held, done, ready>>
          \/ TimerStarts(t) \/ TimerStops(t) \/ FdIsAdded(t) \/ FdIsRemoved(t)
      BY DEF Pop
    <2>2. t \in TaskRec /\ (t.op = "stopTimer" => t.fd # NoFd)
      BY <1>1, <1>2 DEF LoopInv
    <2> HIDE DEF t
    <2>3. CASE UNCHANGED <<timers, userFd, held, done, ready>>
      BY <1>1, <2>3 DEF TaskEffect, TypeOK, DueInv, TimerType, AllFds
    <2>4. CASE TimerStops(t)
      BY <2>2, <2>4, TimerStopsEffect DEF TimerStops
    <2>5. QED
      BY <2>1, <2>2, <2>3, <2>4, TimerStartsEffect, FdIsAddedEffect, FdIsRemovedEffect
  <1>5. UNCHANGED <<running, wpc, batch, cpc, spent, controlVars>>
    BY DEF Pop
  <1>6. TypeOK'
    BY <1>1, <1>2, <1>3, <1>4, <1>5
    DEF TypeOK, TaskEffect, controlVars, AllFds, TaskRec, TimerType
  <1>7. LoopInv'
    BY <1>1, <1>2, <1>3 DEF LoopInv
  <1>8. WakeInv'
    BY <1>3 DEF WakeInv
  <1>9. DueInv'
    BY <1>1, <1>4, <1>5 DEF DueInv, TaskEffect, Reported
  <1>10. QED
    BY <1>6, <1>7, <1>8, <1>9 DEF WorkerInv

\* A timer elapses, or the other end of the descriptor writes to it.
LEMMA ElapseKeeps ==
    ASSUME WorkerInv, NEW fd \in Fds, Elapse(fd)
    PROVE  WorkerInv'
  <1>1. TypeOK /\ LoopInv /\ WakeInv /\ DueInv /\ fd \in AllFds
    BY DEF WorkerInv, AllFds
  <1>2. /\ ready' \in Seq(AllFds) /\ IsInjective(ready')
        /\ ToSet(ready') = ToSet(ready) \cup {fd}
    BY <1>1, MakeReadyAdds DEF Elapse
  <1>3. /\ timers' \in [Fds -> [kind : {"none", "once", "periodic"}, due : BOOLEAN]]
        /\ \A g \in Fds : g # fd => timers'[g] = timers[g]
    BY <1>1 DEF Elapse, TypeOK
  <1>4. TypeOK'
    BY <1>1, <1>2, <1>3 DEF TypeOK, Elapse, callerVars, controlVars, AllFds
  <1>5. LoopInv'
    BY <1>1 DEF LoopInv, Elapse
  <1>6. WakeInv'
    BY <1>1, <1>2 DEF WakeInv, Elapse, Reported, callerVars
  <1>7. DueInv'
    BY <1>1, <1>2, <1>3 DEF DueInv, Elapse, Reported
  <1>8. QED
    BY <1>4, <1>5, <1>6, <1>7 DEF WorkerInv

LEMMA SignalKeeps ==
    ASSUME WorkerInv, Signal
    PROVE  WorkerInv'
  <1>1. TypeOK /\ LoopInv /\ WakeInv /\ DueInv /\ UserFd \in AllFds
    BY DEF WorkerInv, AllFds
  <1>2. /\ ready' \in Seq(AllFds) /\ IsInjective(ready')
        /\ ToSet(ready) \subseteq ToSet(ready')
        /\ userFd.added => UserFd \in ToSet(ready')
    <2>1. CASE userFd.added
      BY <1>1, <2>1, MakeReadyAdds DEF Signal
    <2>2. CASE ~userFd.added
      BY <1>1, <2>2 DEF Signal, TypeOK, AllFds
    <2>3. QED
      BY <2>1, <2>2
  <1>3. userFd' \in [added : BOOLEAN, high : BOOLEAN] /\ userFd'.added = userFd.added
    BY <1>1 DEF Signal, TypeOK
  <1>4. TypeOK'
    BY <1>1, <1>2, <1>3 DEF TypeOK, Signal, callerVars, controlVars, AllFds
  <1>5. LoopInv'
    BY <1>1 DEF LoopInv, Signal
  <1>6. WakeInv'
    BY <1>1, <1>2 DEF WakeInv, Signal, Reported, callerVars
  <1>7. DueInv'
    BY <1>1, <1>2, <1>3 DEF DueInv, Signal, Reported
  <1>8. QED
    BY <1>4, <1>5, <1>6, <1>7 DEF WorkerInv

LEMMA WorkerInvHolds == Spec => []WorkerInv
  <1>1. WorkerInv /\ [Next]_vars => WorkerInv'
    <2> SUFFICES ASSUME WorkerInv, [Next]_vars PROVE WorkerInv'
      OBVIOUS
    <2>1. ASSUME NEW c \in Callers,
                 \/ \E op \in Ops[c] : Call(c, op)
                 \/ Write(c) \/ Wake(c) \/ StartTimerReturns(c)
          PROVE  WorkerInv'
      BY <2>1, CallKeeps, WriteKeeps, WakeKeeps, StartTimerReturnsKeeps
    <2>2. ASSUME NEW k \in Controllers,
                 \/ StartLoad(k) \/ StartStore(k) \/ StartThread(k)
                 \/ StopSet(k) \/ StopWake(k) \/ StopJoin(k)
          PROVE  WorkerInv'
      BY <2>2, ControlKeeps
    <2>3. CASE Check \/ Poll \/ EventBatch \/ FdBatch \/ BatchDone \/ Pop \/ Drained
      BY <2>3, LoopKeeps, PollKeeps, EventBatchKeeps, FdBatchKeeps, PopKeeps
    <2>4. ASSUME NEW fd \in Fds, TimerBatch(fd) \/ Elapse(fd) PROVE WorkerInv'
      BY <2>4, TimerBatchKeeps, ElapseKeeps
    <2>5. CASE Signal
      BY <2>5, SignalKeeps
    <2>6. CASE UNCHANGED vars
      BY <2>6
      DEF vars, workerVars, callerVars, controlVars, WorkerInv, TypeOK, LoopInv, WakeInv,
          DueInv, Reported
    <2>7. QED
      BY <2>1, <2>2, <2>3, <2>4, <2>5, <2>6 DEF Next
  <1>2. QED
    BY <1>1, WorkerInvInit, PTL DEF Spec

\* Any number of callers, of threads that start and stop the worker, of timers.
THEOREM WorkerTypeCorrect == Spec => []TypeOK
  <1>1. WorkerInv => TypeOK
    BY DEF WorkerInv
  <1>2. QED
    BY <1>1, WorkerInvHolds, PTL

\* EpollControl::post pushes, then writes the eventfd, and the worker reads the
\* eventfd, then drains: between the two orders no wake-up is lost, whatever is
\* posted, stopped or started again meanwhile.
THEOREM NoWakeupIsLost == Spec => []NoLostWakeup
  <1>1. WorkerInv => NoLostWakeup
    <2> SUFFICES ASSUME WorkerInv PROVE NoLostWakeup
      OBVIOUS
    <2>1. ready \in Seq(AllFds) /\ batch \in Seq(AllFds) /\ WakeInv
      BY DEF WorkerInv, TypeOK, AllFds
    <2>2. EventFd \in Reported => Contains(ready \o batch, EventFd)
      BY <2>1, ConcatFacts, ContainsIsMember DEF Reported
    <2>3. QED
      BY <2>1, <2>2 DEF WakeInv, NoLostWakeup
  <1>2. QED
    BY <1>1, WorkerInvHolds, PTL

\* An expiration is read, or its timer stopped, before epoll forgets it; a watched
\* descriptor that is readable stays in epoll's list.
THEOREM ElapsedStaysReported == Spec => []ElapsedIsReported
  <1>1. WorkerInv => ElapsedIsReported
    <2> SUFFICES ASSUME WorkerInv PROVE ElapsedIsReported
      OBVIOUS
    <2>1. ready \in Seq(AllFds) /\ batch \in Seq(AllFds) /\ DueInv
      BY DEF WorkerInv, TypeOK, AllFds
    <2>2. \A fd : fd \in Reported => Contains(ready \o batch, fd)
      <3>1. ready \o batch \in Seq(AllFds) /\ ToSet(ready \o batch) = Reported
        BY <2>1, ConcatFacts DEF Reported
      <3>2. QED
        BY <3>1, ContainsIsMember
    <2>3. UserFd \in ToSet(ready) => Contains(ready, UserFd)
      BY <2>1, ContainsIsMember
    <2>4. QED
      BY <2>1, <2>2, <2>3 DEF DueInv, ElapsedIsReported
  <1>2. QED
    BY <1>1, WorkerInvHolds, PTL
=============================================================================
