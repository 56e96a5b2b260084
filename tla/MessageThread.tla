---------------------------- MODULE MessageThread ----------------------------
(***************************************************************************)
(* MessageThread: a worker that waits in epoll for an eventfd and timers,  *)
(* threads that post tasks to its queue or start and stop timers through   *)
(* it, and threads that start and stop the worker itself.  The eventfd and *)
(* the timers are edge-triggered, a descriptor of addFd is not.  The queue  *)
(* is LockFreeQueue's: a node is claimed, then written, and pop waits for   *)
(* an unwritten one.                                                        *)
(***************************************************************************)
EXTENDS Naturals, SequencesExt, Lists

CONSTANTS
    Callers,        \* threads that use the worker
    Controllers,    \* threads that start and stop it
    Ops,            \* what each caller asks for: subsets of AllOps
    Fds,            \* descriptors left for timers
    EventFd,        \* the descriptor of the eventfd
    UserFd,         \* a descriptor callers ask the worker to watch
    Capacity,       \* of the queue
    MaxEventsOnce,  \* kMaxEventsOnce, the length of the array of epoll_wait
    MaxOps,         \* bound: operations of all callers together
    MaxStarts,      \* bound: starts by each controller
    MaxStops        \* bound: stops by each controller

AllOps == {"post", "once", "periodic", "stopTimer", "addFd", "removeFd"}
Answered == {"once", "periodic", "addFd"}   \* the caller waits for the task

ASSUME OpsAssumption == Ops \in [Callers -> SUBSET AllOps]
ASSUME FdsAssumption == Fds \subseteq Nat \ {0} /\ {EventFd, UserFd} \subseteq Nat \ Fds
                 /\ EventFd # UserFd
ASSUME BoundsAssumption ==
    /\ {Capacity, MaxOps, MaxStarts, MaxStops} \subseteq Nat
    /\ MaxEventsOnce \in Nat \ {0}

NoFd == 0   \* -1 in the code
NoTimer == [kind |-> "none", due |-> FALSE]

VARIABLES
    running,            \* m_running
    wpc,                \* the worker: "none" when there is no thread to join
    queue, ready,       \* m_queue; the descriptors epoll would report, in order
    batch,              \* what is left of the array epoll_wait filled
    timers,             \* m_timers: per descriptor its kind, and an unread expiration
    userFd,             \* m_fds: whether UserFd is in it; whether it is readable
    cpc, done, held,    \* callers: position, posted semaphore, timer they hold
    spent,              \* operations begun
    kpc, starts, stops  \* controllers

workerVars == <<running, wpc, batch, timers, userFd>>
callerVars == <<cpc, done, held, spent>>
controlVars == <<kpc, starts, stops>>
vars == <<workerVars, queue, ready, callerVars, controlVars>>

Init ==
    /\ running = FALSE
    /\ wpc = "none"
    /\ queue = <<>> /\ ready = <<>> /\ batch = <<>>
    /\ timers = [fd \in Fds |-> NoTimer]
    /\ userFd = [added |-> FALSE, high |-> FALSE]
    /\ cpc = [c \in Callers |-> "idle"]
    /\ done = [c \in Callers |-> FALSE]
    /\ held = [c \in Callers |-> NoFd]
    /\ spent = 0
    /\ kpc = [k \in Controllers |-> "idle"]
    /\ starts = [k \in Controllers |-> 0]
    /\ stops = [k \in Controllers |-> 0]

MakeReady(fd) == ready' = IF Contains(ready, fd) THEN ready ELSE Append(ready, fd)
NoLongerReady(fd) == Without(ready, {fd})

\* The semaphore of a caller that waits for its task: sem_post and sem_wait.
SemPost(c) == done' = [done EXCEPT ![c] = TRUE]
SemWait(c) == done[c] /\ done' = [done EXCEPT ![c] = FALSE]

-----------------------------------------------------------------------------
(* Callers: EpollControl::post is a push, then a write to the eventfd. *)

\* A node of the queue is claimed; a full queue refuses and nothing changes.
Call(c, op) ==
    /\ cpc[c] = "idle"
    /\ op \in Ops[c]
    /\ op = "stopTimer" => held[c] # NoFd
    /\ spent < MaxOps
    /\ Len(queue) < Capacity
    /\ queue' = Append(queue, [op |-> op, by |-> c, fd |-> held[c], written |-> FALSE])
    /\ held' = IF op = "stopTimer" THEN [held EXCEPT ![c] = NoFd] ELSE held
    /\ cpc' = [cpc EXCEPT ![c] = "write"]
    /\ spent' = spent + 1
    /\ UNCHANGED <<workerVars, ready, done, controlVars>>

Own(c, k) == queue[k].by = c /\ ~queue[k].written

\* Mutant of Write: the eventfd is written only for a worker that sleeps.
WriteWakesSleeper(c) ==
    /\ cpc[c] = "write"
    /\ \E k \in DOMAIN queue :
          /\ Own(c, k)
          /\ queue' = [queue EXCEPT ![k].written = TRUE]
          /\ LET waits == queue[k].op \in Answered
             IN  cpc' = [cpc EXCEPT ![c] = IF wpc = "poll"
                                           THEN IF waits THEN "wakeWait" ELSE "wake"
                                           ELSE IF waits THEN "wait" ELSE "idle"]
    /\ UNCHANGED <<workerVars, ready, done, held, spent, controlVars>>

Write(c) ==
    /\ cpc[c] = "write"
    /\ \E k \in DOMAIN queue :
          /\ Own(c, k)
          /\ queue' = [queue EXCEPT ![k].written = TRUE]
          /\ cpc' = [cpc EXCEPT ![c] = IF queue[k].op \in Answered THEN "wakeWait"
                                       ELSE "wake"]
    /\ UNCHANGED <<workerVars, ready, done, held, spent, controlVars>>

\* startTimer and addFd then wait for the semaphore; the others return.
Wake(c) ==
    /\ cpc[c] \in {"wake", "wakeWait"}
    /\ MakeReady(EventFd)
    /\ cpc' = [cpc EXCEPT ![c] = IF @ = "wakeWait" THEN "wait" ELSE "idle"]
    /\ UNCHANGED <<workerVars, queue, done, held, spent, controlVars>>

StartTimerReturns(c) ==
    /\ cpc[c] = "wait"
    /\ SemWait(c)
    /\ cpc' = [cpc EXCEPT ![c] = "idle"]
    /\ UNCHANGED <<workerVars, queue, ready, held, spent, controlVars>>

-----------------------------------------------------------------------------
(* Controllers: ThreadBase::start and MessageThread::stop. *)

KGo(k, from, to) == kpc[k] = from /\ kpc' = [kpc EXCEPT ![k] = to]

\* start reads m_running; on a running thread it does nothing.
StartLoad(k) ==
    /\ starts[k] < MaxStarts
    /\ ~running
    /\ KGo(k, "idle", "store")
    /\ starts' = [starts EXCEPT ![k] = @ + 1]
    /\ UNCHANGED <<workerVars, queue, ready, callerVars, stops>>

StartStore(k) ==
    /\ KGo(k, "store", "thread")
    /\ running' = TRUE
    /\ UNCHANGED <<wpc, batch, timers, userFd, queue, ready, callerVars, starts, stops>>

\* The thread is created.  Over a thread not joined std::terminate is called.
StartThread(k) ==
    /\ wpc = "none"
    /\ KGo(k, "thread", "idle")
    /\ wpc' = "check"
    /\ UNCHANGED <<running, batch, timers, userFd, queue, ready, callerVars, starts, stops>>

StopSet(k) ==
    /\ stops[k] < MaxStops
    /\ KGo(k, "idle", "wake")
    /\ running' = FALSE
    /\ stops' = [stops EXCEPT ![k] = @ + 1]
    /\ UNCHANGED <<wpc, batch, timers, userFd, queue, ready, callerVars, starts>>

\* Mutant of StopWake: ThreadBase::stop, which does not wake the worker.
StopNoWake(k) ==
    /\ KGo(k, "wake", "join")
    /\ UNCHANGED <<workerVars, queue, ready, callerVars, starts, stops>>

StopWake(k) ==
    /\ KGo(k, "wake", "join")
    /\ MakeReady(EventFd)
    /\ UNCHANGED <<workerVars, queue, callerVars, starts, stops>>

\* Mutant of StopJoin: the thread is not waited for.
StopNoJoin(k) ==
    /\ KGo(k, "join", "idle")
    /\ UNCHANGED <<workerVars, queue, ready, callerVars, starts, stops>>

\* join returns once the thread has ended, at once where there is none.
StopJoin(k) ==
    /\ KGo(k, "join", "idle")
    /\ wpc \in {"none", "exited"}
    /\ wpc' = "none"
    /\ UNCHANGED <<running, batch, timers, userFd, queue, ready, callerVars, starts, stops>>

-----------------------------------------------------------------------------
(* The worker. *)

WGo(from, to) == wpc = from /\ wpc' = to

Check ==
    /\ \/ running /\ WGo("check", "poll")
       \/ ~running /\ WGo("check", "exited")
    /\ UNCHANGED <<running, batch, timers, userFd, queue, ready, callerVars, controlVars>>

\* How much of the ready list one epoll_wait reports.
Reports == IF Len(ready) < MaxEventsOnce THEN Len(ready) ELSE MaxEventsOnce

\* epoll_wait: the front of the list, each reported once, UserFd as long as it is
\* readable; it goes to the end of the list.
Poll ==
    /\ ready # <<>>
    /\ WGo("poll", "batch")
    /\ batch' = SubSeq(ready, 1, Reports)
    /\ ready' = SubSeq(ready, Reports + 1, Len(ready))
                    \o Without(SubSeq(ready, 1, Reports), Fds \cup {EventFd})
    /\ UNCHANGED <<running, timers, userFd, queue, callerVars, controlVars>>

\* The eventfd is read.
EventBatch ==
    /\ batch # <<>> /\ Head(batch) = EventFd
    /\ WGo("batch", "drain")
    /\ batch' = Tail(batch)
    /\ UNCHANGED <<running, timers, userFd, queue, ready, callerVars, controlVars>>

\* A timer of m_timers: read, call back, and stop it unless it is periodic.
TimerBatch(fd) ==
    /\ batch # <<>> /\ Head(batch) = fd
    /\ wpc = "batch"
    /\ batch' = Tail(batch)
    /\ \/ /\ timers[fd].kind = "periodic"
          /\ timers' = [timers EXCEPT ![fd].due = FALSE]
          /\ UNCHANGED ready
       \/ /\ timers[fd].kind = "once"
          /\ timers' = [timers EXCEPT ![fd] = NoTimer]
          /\ ready' = NoLongerReady(fd)
       \/ timers[fd] = NoTimer /\ UNCHANGED <<timers, ready>>
    /\ UNCHANGED <<running, wpc, userFd, queue, callerVars, controlVars>>

\* The callback of a descriptor in m_fds reads it; one no longer there is passed.
FdBatch ==
    /\ batch # <<>> /\ Head(batch) = UserFd
    /\ wpc = "batch"
    /\ batch' = Tail(batch)
    /\ \/ /\ userFd.added
          /\ userFd' = [userFd EXCEPT !.high = FALSE]
          /\ ready' = NoLongerReady(UserFd)
       \/ ~userFd.added /\ UNCHANGED <<userFd, ready>>
    /\ UNCHANGED <<running, wpc, timers, queue, callerVars, controlVars>>

BatchDone ==
    /\ batch = <<>>
    /\ WGo("batch", "check")
    /\ UNCHANGED <<running, batch, timers, userFd, queue, ready, callerVars, controlVars>>

\* Mutant of TimerStarts: a timer that could not be created is kept under no descriptor.
TimerStartsUnchecked(t) ==
    LET free == {fd \in Fds : timers[fd] = NoTimer}
        fd == IF free = {} THEN NoFd ELSE CHOOSE f \in free : \A g \in free : f <= g
    IN  /\ t.op \in {"once", "periodic"}
        /\ timers' = (fd :> [kind |-> t.op, due |-> FALSE]) @@ timers
        /\ held' = [held EXCEPT ![t.by] = fd]
        /\ SemPost(t.by)
        /\ UNCHANGED <<ready, userFd>>

\* Mutant of TimerStarts: without a timer the task ends before it posts.
TimerStartsNoPost(t) ==
    LET free == {fd \in Fds : timers[fd] = NoTimer}
    IN  /\ t.op \in {"once", "periodic"}
        /\ \/ /\ free # {}
              /\ LET fd == CHOOSE f \in free : \A g \in free : f <= g
                 IN  /\ timers' = [timers EXCEPT ![fd] = [kind |-> t.op, due |-> FALSE]]
                     /\ held' = [held EXCEPT ![t.by] = fd]
              /\ SemPost(t.by)
           \/ free = {} /\ UNCHANGED <<timers, held, done>>
        /\ UNCHANGED <<ready, userFd>>

\* The task of startTimer: a timer on the lowest free descriptor, or none where
\* they are used up; then the caller's semaphore is posted.
TimerStarts(t) ==
    LET free == {fd \in Fds : timers[fd] = NoTimer}
    IN  /\ t.op \in {"once", "periodic"}
        /\ \/ /\ free # {}
              /\ LET fd == CHOOSE f \in free : \A g \in free : f <= g
                 IN  /\ timers' = [timers EXCEPT ![fd] = [kind |-> t.op, due |-> FALSE]]
                     /\ held' = [held EXCEPT ![t.by] = fd]
           \/ free = {} /\ UNCHANGED timers /\ held' = [held EXCEPT ![t.by] = NoFd]
        /\ SemPost(t.by)
        /\ UNCHANGED <<ready, userFd>>

\* The task of stopTimer: whatever timer has that descriptor now.
TimerStops(t) ==
    /\ t.op = "stopTimer"
    /\ timers' = [timers EXCEPT ![t.fd] = NoTimer]
    /\ ready' = NoLongerReady(t.fd)
    /\ UNCHANGED <<held, done, userFd>>

\* The task of addFd: one that is in m_fds is refused; the caller is answered.
FdIsAdded(t) ==
    /\ t.op = "addFd"
    /\ userFd' = [userFd EXCEPT !.added = TRUE]
    /\ IF userFd.high THEN MakeReady(UserFd) ELSE UNCHANGED ready
    /\ SemPost(t.by)
    /\ UNCHANGED <<timers, held>>

\* The task of removeFd.
FdIsRemoved(t) ==
    /\ t.op = "removeFd"
    /\ userFd' = [userFd EXCEPT !.added = FALSE]
    /\ ready' = NoLongerReady(UserFd)
    /\ UNCHANGED <<timers, held, done>>

\* pop takes the first task, once it is written, and the task runs.
Pop ==
    /\ wpc = "drain"
    /\ queue # <<>> /\ Head(queue).written
    /\ queue' = Tail(queue)
    /\ \/ Head(queue).op = "post" /\ UNCHANGED <<timers, userFd, held, done, ready>>
       \/ TimerStarts(Head(queue)) \/ TimerStops(Head(queue))
       \/ FdIsAdded(Head(queue)) \/ FdIsRemoved(Head(queue))
    /\ UNCHANGED <<running, wpc, batch, cpc, spent, controlVars>>

\* Mutant of Drained: wait returns after the tasks and leaves the rest of the array.
DrainedReturns ==
    /\ queue = <<>>
    /\ WGo("drain", "batch")
    /\ batch' = <<>>
    /\ UNCHANGED <<running, timers, userFd, queue, ready, callerVars, controlVars>>

Drained ==
    /\ queue = <<>>
    /\ WGo("drain", "batch")
    /\ UNCHANGED <<running, batch, timers, userFd, queue, ready, callerVars, controlVars>>

Worker ==
    \/ Check \/ Poll \/ EventBatch \/ FdBatch \/ BatchDone \/ Pop \/ Drained
    \/ \E fd \in Fds : TimerBatch(fd)

\* A timer that is running elapses, a one-shot timer once.
Elapse(fd) ==
    /\ timers[fd].kind # "none"
    /\ timers[fd].kind = "once" => ~timers[fd].due
    /\ timers' = [timers EXCEPT ![fd].due = TRUE]
    /\ MakeReady(fd)
    /\ UNCHANGED <<running, wpc, batch, userFd, queue, callerVars, controlVars>>

\* Whoever is at the other end makes UserFd readable.
Signal ==
    /\ ~userFd.high
    /\ userFd' = [userFd EXCEPT !.high = TRUE]
    /\ IF userFd.added THEN MakeReady(UserFd) ELSE UNCHANGED ready
    /\ UNCHANGED <<running, wpc, batch, timers, queue, callerVars, controlVars>>

Caller(c) == Write(c) \/ Wake(c) \/ StartTimerReturns(c)
Stop(k) == StopWake(k) \/ StopJoin(k)

Next ==
    \/ \E c \in Callers :
          \/ \E op \in Ops[c] : Call(c, op)
          \/ Write(c) \/ Wake(c) \/ StartTimerReturns(c)
    \/ \E k \in Controllers :
          \/ StartLoad(k) \/ StartStore(k) \/ StartThread(k)
          \/ StopSet(k) \/ StopWake(k) \/ StopJoin(k)
    \/ Check \/ Poll \/ EventBatch \/ FdBatch \/ BatchDone \/ Pop \/ Drained
    \/ \E fd \in Fds : TimerBatch(fd) \/ Elapse(fd)
    \/ Signal

Spec == Init /\ [][Next]_vars

\* Every thread runs; nobody has to call, to start or to stop.
FairSpec ==
    /\ Spec
    /\ WF_vars(Worker)
    /\ \A c \in Callers : WF_vars(Caller(c))
    /\ \A k \in Controllers : WF_vars(StartStore(k) \/ StartThread(k)) /\ WF_vars(Stop(k))

-----------------------------------------------------------------------------

\* The shape of the variables; no descriptor is twice in epoll's ready list.
TypeOK ==
    /\ running \in BOOLEAN
    /\ wpc \in {"none", "check", "poll", "batch", "drain", "exited"}
    /\ queue \in Seq([op : AllOps, by : Callers, fd : Fds \cup {NoFd}, written : BOOLEAN])
    /\ Len(queue) <= Capacity
    /\ {ready, batch} \subseteq Seq(Fds \cup {EventFd, UserFd})
    /\ IsInjective(ready)
    /\ timers \in [Fds -> [kind : {"none", "once", "periodic"}, due : BOOLEAN]]
    /\ userFd \in [added : BOOLEAN, high : BOOLEAN]
    /\ cpc \in [Callers -> {"idle", "write", "wake", "wakeWait", "wait"}]
    /\ done \in [Callers -> BOOLEAN]
    /\ held \in [Callers -> Fds \cup {NoFd}]
    /\ spent \in 0 .. MaxOps
    /\ kpc \in [Controllers -> {"idle", "store", "thread", "wake", "join"}]

\* No wake-up is lost, over stops and restarts too: while the first task of the
\* queue is complete, the worker is going to look, the eventfd is reported to it,
\* or the thread that posted some task is about to write the eventfd.
NoLostWakeup ==
    (queue # <<>> /\ Head(queue).written) =>
        \/ wpc = "drain"
        \/ Contains(ready \o batch, EventFd)
        \/ \E c \in Callers : cpc[c] \in {"wake", "wakeWait"}

\* A timer that has elapsed and is not yet read has its callback ahead, and so has
\* a watched descriptor that is readable, whenever it was added or became so.
ElapsedIsReported ==
    /\ \A fd \in Fds : timers[fd].due => Contains(ready \o batch, fd)
    /\ userFd.added /\ userFd.high => Contains(ready, UserFd)

\* start creates the thread where there is none (ThreadBase.cpp:40 checks m_running
\* against a second start): after a stop and a new start the worker of before is
\* gone, and no std::thread is assigned over one that was not joined.
StartsOneThread == \A k \in Controllers : kpc[k] = "thread" => wpc = "none"

\* What was posted is run as long as the worker is not stopped.
PostedIsRun == queue # <<>> ~> (queue = <<>> \/ ~running)

\* startTimer and addFd return as long as the worker is not stopped.
StartTimerReturnsSoon ==
    \A c \in Callers : cpc[c] = "wait" ~> (cpc[c] # "wait" \/ ~running)

\* stop returns, whatever the worker was doing when it was called.
StopEnds == \A k \in Controllers : kpc[k] = "join" ~> kpc[k] # "join"
=============================================================================
