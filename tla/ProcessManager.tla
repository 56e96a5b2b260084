--------------------------- MODULE ProcessManager ---------------------------
(***************************************************************************)
(* Supervision of the business processes by the daemon: the worker thread  *)
(* of ProcessManager (its task queue, the epoll loop of EpollControl, the  *)
(* pidfd watches and retry timers), the daemon's main thread in waitpid,   *)
(* the part of the ShmManager worker that passes crashes and reports on,   *)
(* and the processes themselves, started by the daemon or by the user.     *)
(*                                                                         *)
(* A task of a worker is one action: all it shares with other threads are  *)
(* the queues it posts to, m_flags and m_reader_flag.  epoll is modelled   *)
(* with its ready list: epoll_wait copies an event array out of the list,  *)
(* which is worked off while descriptors are closed and their numbers, the *)
(* lowest free ones, are given out again.  A pid is the position of a      *)
(* process in procs; pids are not reused.                                  *)
(***************************************************************************)
EXTENDS Integers, SequencesExt, Lists

CONSTANTS
    Slots,      \* logic ids of the business processes
    Boot,       \* shouldLaunchAtBoot
    Restart,    \* shouldRelaunchAfterOnline
    Fds,        \* descriptor numbers the worker thread may obtain
    EventFd,    \* the eventfd of the task queue
    MaxEventsOnce,  \* kMaxEventsOnce, the length of the array of epoll_wait
    Limits      \* bounds: how often each kind of event may happen, one choice per behaviour

EventKinds == {"start", "exit", "forkFails", "setSync"}

ASSUME SlotsAssumption == Slots \subseteq Nat
ASSUME BootAssumption == Boot \subseteq Slots
ASSUME RestartAssumption == Restart \subseteq Slots \ Boot
ASSUME FdsAssumption == Fds \subseteq Nat /\ EventFd \in Nat \ Fds
ASSUME MaxEventsOnceAssumption == MaxEventsOnce \in Nat \ {0}
ASSUME LimitsAssumption == Limits \subseteq [EventKinds -> Nat]

NoFd == -1

VARIABLES
    \* the operating system: processes, open descriptors, epoll's ready list
    procs, watch, ready,
    \* the ProcessManager worker: task queue, event array, m_process_infos
    queue, wpc, batch, infos,
    \* the ShmManager worker: task queue, slots tryStartFixedProcesses has to post
    smQueue, toStart,
    \* ProcessSyncInfo::m_flags, and bit 0 of m_reader_flag of each inbox
    syncFlag, readerBit,
    \* history: pids in the order of the crash callbacks; events still to come
    crashed, left

osVars == <<procs, watch, ready>>
pmVars == <<queue, wpc, batch, infos>>
smVars == <<smQueue, toStart>>
vars == <<osVars, pmVars, smVars, syncFlag, readerBit, crashed, left>>

Pid == DOMAIN procs
Free == [kind |-> "free"]
Pidfd(p) == [kind |-> "pidfd", pid |-> p]
Timer(s, armed) == [kind |-> "timer", slot |-> s, armed |-> armed]
Info(s, exe, p, fd) == [slot |-> s, exe |-> exe, pid |-> p, fd |-> fd]
Task(op, s, p) == [op |-> op, slot |-> s, pid |-> p]
Process(s, child) == [slot |-> s, child |-> child, state |-> "running",
                      attached |-> FALSE, reported |-> FALSE]

FreeFds(w) == {fd \in Fds : w[fd] = Free}
LowestFree(w) == CHOOSE fd \in FreeFds(w) : \A g \in FreeFds(w) : fd <= g
Running(p) == procs[p].state = "running"

Spend(k) ==
    /\ left[k] > 0
    /\ left' = [left EXCEPT ![k] = @ - 1]

Init ==
    /\ procs = <<>>
    /\ watch = [fd \in Fds |-> Free]
    /\ ready = <<>>
    /\ queue = <<>>
    /\ wpc = "poll"
    /\ batch = <<>>
    /\ infos = <<>>
    /\ smQueue = <<>>
    /\ toStart = Slots
    /\ syncFlag \in [Slots -> BOOLEAN]
    /\ readerBit = [s \in Slots |-> FALSE]
    /\ crashed = <<>>
    /\ left \in Limits

\* A descriptor becomes ready: it is in the list once.
MakeReady(list, fd) == IF Contains(list, fd) THEN list ELSE Append(list, fd)

\* MessageThread::post: push the task, then write the eventfd.
Post(t) ==
    /\ queue' = Append(queue, t)
    /\ ready' = MakeReady(ready, EventFd)

-----------------------------------------------------------------------------
(* The processes.  The user starts one that the daemon does not start at boot,
   and where none is running. *)

UserStarts(s) ==
    /\ s \notin Boot
    /\ \A p \in Pid : procs[p].slot = s => ~Running(p)
    /\ Spend("start")
    /\ procs' = Append(procs, Process(s, FALSE))
    /\ UNCHANGED <<watch, ready, pmVars, smVars, syncFlag, readerBit, crashed>>

\* openStreamShmRetry on the process's own inbox: it becomes reader 0.
Attach(p) ==
    /\ Running(p) /\ ~procs[p].attached
    /\ procs' = [procs EXCEPT ![p].attached = TRUE]
    /\ readerBit' = [readerBit EXCEPT ![procs[p].slot] = TRUE]
    /\ UNCHANGED <<watch, ready, pmVars, smVars, syncFlag, crashed, left>>

\* The report of sendProcessOnline reaches the ShmManager worker of the daemon, through
\* the ring of its inbox and the ReceiveWork: any time after the process has attached,
\* its death included.
Report(p) ==
    /\ procs[p].attached /\ ~procs[p].reported
    /\ procs' = [procs EXCEPT ![p].reported = TRUE]
    /\ smQueue' = Append(smQueue, Task("online", procs[p].slot, p))
    /\ UNCHANGED <<watch, ready, pmVars, toStart, syncFlag, readerBit, crashed, left>>

\* A child becomes a zombie; a pidfd of the process becomes readable.
Exit(p) ==
    /\ Running(p)
    /\ Spend("exit")
    /\ procs' = [procs EXCEPT ![p].state = IF procs[p].child THEN "zombie" ELSE "gone"]
    /\ \/ /\ \A fd \in Fds : watch[fd] # Pidfd(p)
          /\ UNCHANGED ready
       \/ \E fd \in Fds : watch[fd] = Pidfd(p) /\ ready' = MakeReady(ready, fd)
    /\ UNCHANGED <<watch, pmVars, smVars, syncFlag, readerBit, crashed>>

\* The daemon's main thread reaps a child and posts its pid.
Waitpid(p) ==
    /\ procs[p].state = "zombie"
    /\ procs' = [procs EXCEPT ![p].state = "gone"]
    /\ Post(Task("reaped", procs[p].slot, p))
    /\ UNCHANGED <<watch, wpc, batch, infos, smVars, syncFlag, readerBit, crashed, left>>

-----------------------------------------------------------------------------
(* The ShmManager worker of the daemon. *)

\* tryStartFixedProcesses, once every inbox is created: one slot after the other.
StartFixed(s) ==
    /\ s \in toStart /\ \A r \in toStart : s <= r
    /\ toStart' = toStart \ {s}
    /\ Post(Task("boot", s, 0))
    /\ UNCHANGED <<procs, watch, wpc, batch, infos, smQueue, syncFlag, readerBit,
                   crashed, left>>

\* Mutant of ShmCrash: the reader is dropped after the restart was posted.
ShmCrashDropsLater(t) ==
    /\ t.op \in {"crash", "drop"}
    /\ IF t.op = "crash"
       THEN /\ Post(t)
            /\ smQueue' = Append(Tail(smQueue), Task("drop", t.slot, t.pid))
            /\ UNCHANGED readerBit
       ELSE /\ readerBit' = [readerBit EXCEPT ![t.slot] = FALSE]
            /\ smQueue' = Tail(smQueue)
            /\ UNCHANGED <<queue, ready>>

\* onProcessCrash: ShmManager::handleProcessCrash drops reader 0 of the inbox,
\* then the pid goes back to ProcessManager.
ShmCrash(t) ==
    /\ t.op = "crash"
    /\ readerBit' = [readerBit EXCEPT ![t.slot] = FALSE]
    /\ Post(t)
    /\ smQueue' = Tail(smQueue)

\* handleDaemon_ProcessOnline passes the report on.
ShmOnline(t) ==
    /\ t.op = "online"
    /\ Post(t)
    /\ smQueue' = Tail(smQueue)
    /\ UNCHANGED readerBit

\* Another task of this worker, before that one or after it.
ShmTask ==
    /\ toStart \in {{}, Slots}
    /\ smQueue # <<>>
    /\ ShmCrash(Head(smQueue)) \/ ShmOnline(Head(smQueue))
    /\ UNCHANGED <<procs, watch, wpc, batch, infos, toStart, syncFlag, crashed, left>>

\* handleDaemon_SetSyncFlag: a store to m_flags.
SetSync(s) ==
    /\ Spend("setSync")
    /\ syncFlag' = [syncFlag EXCEPT ![s] = ~@]
    /\ UNCHANGED <<osVars, pmVars, smVars, readerBit, crashed>>

-----------------------------------------------------------------------------
(* Tasks of the ProcessManager worker.  infs are the records the task leaves, *)
(* before and after the descriptors it closes before and after createProcess. *)

\* unwatchPidfd: out of epoll and closed.
Closed(F) == [fd \in Fds |-> IF fd \in F THEN Free ELSE watch[fd]]
NoLongerReady(F) == Without(ready, F)

\* postTimer(1000, ...) in the worker opens a one-shot timer; without a descriptor
\* for it there is no retry.
RetryLater(s, infs, before, after) ==
    /\ infos' = infs
    /\ watch' = IF FreeFds(Closed(before)) = {} THEN Closed(before \cup after)
                ELSE [Closed(before \cup after)
                         EXCEPT ![LowestFree(Closed(before))] = Timer(s, TRUE)]
    /\ ready' = NoLongerReady(before \cup after)
    /\ UNCHANGED procs

Fork(s, infs, before, after) ==
    /\ procs' = Append(procs, Process(s, TRUE))
    /\ infos' = Append(infs, Info(s, TRUE, Len(procs) + 1, NoFd))
    /\ watch' = Closed(before \cup after)
    /\ ready' = NoLongerReady(before \cup after)
    /\ UNCHANGED left

Forget(infs, F) ==
    /\ infos' = infs
    /\ watch' = Closed(F)
    /\ ready' = NoLongerReady(F)
    /\ UNCHANGED procs

\* Mutant of CreateProcess: a failed fork is not retried.
CreateProcessOnce(s, infs, before, after) ==
    \/ syncFlag[s] /\ Fork(s, infs, before, after)
    \/ syncFlag[s] /\ Spend("forkFails") /\ Forget(infs, before \cup after)
    \/ ~syncFlag[s] /\ RetryLater(s, infs, before, after) /\ UNCHANGED left

\* Mutant of CreateProcess: the -1 of a failed fork is recorded as a pid.
CreateProcessUnchecked(s, infs, before, after) ==
    \/ syncFlag[s] /\ Fork(s, infs, before, after)
    \/ /\ syncFlag[s] /\ Spend("forkFails")
       /\ Forget(Append(infs, Info(s, TRUE, -1, NoFd)), before \cup after)
    \/ ~syncFlag[s] /\ RetryLater(s, infs, before, after) /\ UNCHANGED left

\* createProcess: fork and record the child where the flag allows it, retry in
\* a second where it does not or fork fails.
CreateProcess(s, infs, before, after) ==
    \/ syncFlag[s] /\ Fork(s, infs, before, after)
    \/ syncFlag[s] /\ Spend("forkFails") /\ RetryLater(s, infs, before, after)
    \/ ~syncFlag[s] /\ RetryLater(s, infs, before, after) /\ UNCHANGED left

Keep == UNCHANGED <<procs, watch, ready, infos, left>>

Recorded(p) == \E k \in DOMAIN infos : infos[k].pid = p

\* The task of postCreateProcess.
BootTask(t) ==
    /\ t.op = "boot"
    /\ IF t.slot \in Boot THEN CreateProcess(t.slot, infos, {}, {}) ELSE Keep
    /\ UNCHANGED <<smQueue, crashed>>

\* The task of the main thread: a pid that is not recorded is none of ours.
ReapedTask(t) ==
    /\ t.op = "reaped"
    /\ IF Recorded(t.pid)
       THEN /\ smQueue' = Append(smQueue, Task("crash", t.slot, t.pid))
            /\ crashed' = Append(crashed, t.pid)
       ELSE UNCHANGED <<smQueue, crashed>>
    /\ Keep

\* ProcessManager::handleProcessCrash: forget the process and start it again if
\* its record names an executable.
CrashTask(t) ==
    /\ t.op = "crash"
    /\ IF Recorded(t.pid)
       THEN \E k \in DOMAIN infos :
               LET gone == infos[k]
                   rest == Without(infos, {gone})
               IN  /\ gone.pid = t.pid
                   /\ \/ gone.exe /\ CreateProcess(gone.slot, rest, {gone.fd}, {})
                      \/ ~gone.exe /\ Forget(rest, {gone.fd}) /\ UNCHANGED left
       ELSE Keep
    /\ UNCHANGED <<smQueue, crashed>>

\* The watch of the slot is replaced by one on the process that reports.
\* pidfd_open fails once the process is reaped, by its parent if not a child, and
\* where no descriptor is free.
Replace(t) ==
    LET replaced == {r \in ToSet(infos) : r.slot = t.slot}
        old == {r.fd : r \in replaced}
        rest == Without(infos, replaced)
        fd == LowestFree(Closed(old))
        p == procs[t.pid]
    IN  \/ /\ p.state = "gone" => ~p.child
           /\ FreeFds(Closed(old)) # {}
           /\ infos' = Append(rest, Info(t.slot, t.slot \in Restart, t.pid, fd))
           /\ watch' = [Closed(old) EXCEPT ![fd] = Pidfd(t.pid)]
           /\ ready' = IF Running(t.pid) THEN NoLongerReady(old)
                       ELSE Append(NoLongerReady(old), fd)
           /\ UNCHANGED procs
        \/ /\ p.state = "gone" \/ FreeFds(Closed(old)) = {}
           /\ Forget(rest, old)

\* Mutant of OnlineTask: the daemon's own children are watched as well.
OnlineTaskWatchesChildren(t) ==
    /\ t.op = "online"
    /\ Replace(t)
    /\ UNCHANGED <<left, smQueue, crashed>>

\* handleProcessOnline.  A report for a boot slot, or for one with a record without a
\* pidfd, is dropped.
OnlineTask(t) ==
    LET unwatched == \E k \in DOMAIN infos : infos[k].slot = t.slot /\ infos[k].fd = NoFd
    IN  /\ t.op = "online"
        /\ \/ /\ t.slot \notin Boot /\ ~unwatched
              /\ Replace(t)
              /\ UNCHANGED left
           \/ (t.slot \in Boot \/ unwatched) /\ Keep
        /\ UNCHANGED <<smQueue, crashed>>

-----------------------------------------------------------------------------
(* The epoll loop of the worker. *)

\* How much of the ready list one epoll_wait reports.
Reports == IF Len(ready) < MaxEventsOnce THEN Len(ready) ELSE MaxEventsOnce

\* epoll_wait: the front of the list; an edge-triggered descriptor leaves the list,
\* a pidfd goes to its end.
Poll ==
    /\ wpc = "poll"
    /\ ready # <<>>
    /\ wpc' = "batch"
    /\ batch' = SubSeq(ready, 1, Reports)
    /\ ready' = SubSeq(ready, Reports + 1, Len(ready))
                    \o Without(SubSeq(ready, 1, Reports),
                               {EventFd} \cup {fd \in Fds : watch[fd].kind # "pidfd"})
    /\ UNCHANGED <<procs, watch, queue, infos, smVars, syncFlag, readerBit, crashed, left>>

\* The eventfd is read, and the queue drained.
EventBatch ==
    /\ wpc = "batch" /\ batch # <<>>
    /\ Head(batch) = EventFd
    /\ wpc' = "drain"
    /\ batch' = Tail(batch)
    /\ UNCHANGED <<osVars, queue, infos, smVars, syncFlag, readerBit, crashed, left>>

RunTask ==
    /\ wpc = "drain" /\ queue # <<>>
    /\ LET t == Head(queue)
       IN  BootTask(t) \/ ReapedTask(t) \/ CrashTask(t) \/ OnlineTask(t)
    /\ queue' = Tail(queue)
    /\ UNCHANGED <<wpc, batch, toStart, syncFlag, readerBit>>

Drained ==
    /\ wpc = "drain" /\ queue = <<>>
    /\ wpc' = "batch"
    /\ UNCHANGED <<osVars, queue, batch, infos, smVars, syncFlag, readerBit, crashed, left>>

\* A one-shot timer: createProcess, which may open another one, then this one
\* is stopped and closed.  An event for a number that has become a timer since
\* epoll_wait returned runs its callback early.
TimerBatch ==
    /\ wpc = "batch" /\ batch # <<>>
    /\ LET fd == Head(batch)
       IN  /\ fd # EventFd
           /\ watch[fd].kind = "timer"
           /\ CreateProcess(watch[fd].slot, infos, {}, {fd})
    /\ batch' = Tail(batch)
    /\ UNCHANGED <<queue, wpc, smVars, syncFlag, readerBit, crashed>>

\* Mutant of PidfdBatch: the record keeps the number of the closed descriptor.
PidfdBatchKeepsFd ==
    /\ wpc = "batch" /\ batch # <<>>
    /\ LET fd == Head(batch)
       IN  /\ fd # EventFd
           /\ watch[fd].kind = "pidfd"
           /\ \E k \in DOMAIN infos :
                 /\ infos[k].fd = fd
                 /\ crashed' = Append(crashed, infos[k].pid)
                 /\ smQueue' = Append(smQueue, Task("crash", infos[k].slot, infos[k].pid))
           /\ watch' = Closed({fd})
           /\ ready' = NoLongerReady({fd})
    /\ batch' = Tail(batch)
    /\ UNCHANGED <<procs, queue, wpc, infos, toStart, syncFlag, readerBit, left>>

\* onPidfd: the first record with that descriptor, if any, has died.
PidfdBatch ==
    /\ wpc = "batch" /\ batch # <<>>
    /\ LET fd == Head(batch)
       IN  /\ fd # EventFd
           /\ watch[fd].kind = "pidfd"
           /\ \E k \in DOMAIN infos :
                 /\ infos[k].fd = fd
                 /\ infos' = [infos EXCEPT ![k].fd = NoFd]
                 /\ crashed' = Append(crashed, infos[k].pid)
                 /\ smQueue' = Append(smQueue, Task("crash", infos[k].slot, infos[k].pid))
           /\ watch' = Closed({fd})
           /\ ready' = NoLongerReady({fd})
    /\ batch' = Tail(batch)
    /\ UNCHANGED <<procs, queue, wpc, toStart, syncFlag, readerBit, left>>

\* The descriptor was closed since epoll_wait returned it.
StaleBatch ==
    /\ wpc = "batch" /\ batch # <<>>
    /\ Head(batch) # EventFd
    /\ watch[Head(batch)] = Free
    /\ batch' = Tail(batch)
    /\ UNCHANGED <<osVars, queue, wpc, infos, smVars, syncFlag, readerBit, crashed, left>>

BatchDone ==
    /\ wpc = "batch" /\ batch = <<>>
    /\ wpc' = "poll"
    /\ UNCHANGED <<osVars, queue, batch, infos, smVars, syncFlag, readerBit, crashed, left>>

TimerExpires(fd) ==
    /\ watch[fd].kind = "timer" /\ watch[fd].armed
    /\ watch' = [watch EXCEPT ![fd].armed = FALSE]
    /\ ready' = MakeReady(ready, fd)
    /\ UNCHANGED <<procs, pmVars, smVars, syncFlag, readerBit, crashed, left>>

Worker ==
    \/ Poll \/ EventBatch \/ RunTask \/ Drained
    \/ TimerBatch \/ PidfdBatch \/ StaleBatch \/ BatchDone

Next ==
    \/ \E s \in Slots : UserStarts(s) \/ StartFixed(s) \/ SetSync(s)
    \/ \E p \in Pid : Attach(p) \/ Report(p) \/ Exit(p) \/ Waitpid(p)
    \/ ShmTask
    \/ Worker
    \/ \E fd \in Fds : TimerExpires(fd)

Spec == Init /\ [][Next]_vars

\* The threads of the daemon run, timers expire, dead children are reaped.
FairSpec ==
    /\ Spec
    /\ WF_vars(Worker) /\ WF_vars(ShmTask)
    /\ \A s \in Slots : WF_vars(StartFixed(s))
    /\ \A fd \in Fds : WF_vars(TimerExpires(fd))
    /\ WF_vars(\E p \in Pid : Waitpid(p))

-----------------------------------------------------------------------------

ProcessType ==
    [slot : Slots, child : BOOLEAN, state : {"running", "zombie", "gone"},
     attached : BOOLEAN, reported : BOOLEAN]

WatchType == {Free} \cup {Pidfd(p) : p \in Pid} \cup {Timer(s, b) : s \in Slots, b \in BOOLEAN}
TaskType(ops) == [op : ops, slot : Slots, pid : Pid \cup {0}]

\* The shape of the variables; no descriptor is twice in epoll's ready list.
TypeOK ==
    /\ procs \in Seq(ProcessType)
    /\ watch \in [Fds -> WatchType]
    /\ {ready, batch} \subseteq Seq(Fds \cup {EventFd})
    /\ IsInjective(ready)
    /\ queue \in Seq(TaskType({"boot", "reaped", "crash", "online"}))
    /\ wpc \in {"poll", "batch", "drain"}
    /\ infos \in Seq([slot : Slots, exe : BOOLEAN, pid : Pid, fd : Fds \cup {NoFd}])
    /\ smQueue \in Seq(TaskType({"crash", "online"}))
    /\ toStart \subseteq Slots
    /\ syncFlag \in [Slots -> BOOLEAN]
    /\ readerBit \in [Slots -> BOOLEAN]
    /\ crashed \in Seq(Pid)
    /\ left \in [EventKinds -> Nat]

\* Every open pidfd is the watch of one record, of the same process, and every
\* record with a descriptor has it open: none leaks, none is used after close.
\* A process has one record, and "a repeated report of a slot replaces the old
\* pidfd and is not watched twice" (2026-10-08 design, line 19).
WatchesMatchRecords ==
    /\ \A fd \in Fds : watch[fd].kind = "pidfd" =>
          \E k \in DOMAIN infos : infos[k].fd = fd
    /\ \A k \in DOMAIN infos : infos[k].fd # NoFd => watch[infos[k].fd] = Pidfd(infos[k].pid)
    /\ \A j, k \in DOMAIN infos : infos[j].pid = infos[k].pid => j = k
    /\ \A j, k \in DOMAIN infos :
          infos[j].slot = infos[k].slot /\ infos[j].fd # NoFd /\ infos[k].fd # NoFd => j = k

\* A child of the daemon has its record from fork until its death has been
\* handled, in spite of waitpid running in another thread: no death is missed.
ChildrenAreTracked ==
    \A p \in Pid :
        /\ procs[p].child
        /\ \/ procs[p].state # "gone"
           \/ \E t \in ToSet(queue \o smQueue) : t.pid = p /\ t.op # "online"
        => Recorded(p)

\* Whichever of waitpid and pidfd sees it, a death is handled once.
CrashHandledOnce ==
    \A j, k \in DOMAIN crashed : crashed[j] = crashed[k] => j = k

\* "A readable pidfd: the process has exited" (2026-10-08 design, line 73): the
\* crash callback is called for dead processes only.
OnlyDeadAreReported == \A k \in DOMAIN crashed : ~Running(crashed[k])

\* Dropping reader 0 of a dead process's inbox never hits its successor: where
\* only the daemon starts processes, a running one keeps the bit it attached with.
LiveReaderKeepsBit ==
    \A p \in Pid :
        procs[p].slot \in Boot /\ Running(p) /\ procs[p].attached
            => readerBit[procs[p].slot]

\* A process the daemon starts at boot is up again after every crash and every
\* failed fork, once its flag is set for good (README.md:311).
BootProcessComesBack ==
    \A s \in Boot :
        <>[]syncFlag[s] => <>[](\E p \in Pid : procs[p].slot = s /\ Running(p))
=============================================================================
