------------------------ MODULE ProcessManagerProofs ------------------------
(***************************************************************************)
(* Proofs about ProcessManager: its invariants, for any slots, descriptors *)
(* and numbers of events.                                                  *)
(*                                                                         *)
(* The invariants of the runs speak of positions in lists; SupervisionInv  *)
(* speaks of the sets of records, tasks and handled deaths, and adds who   *)
(* may be where: a watched process is none of the daemon's children, a     *)
(* crash task on its way is of a handled death, a boot slot has one source *)
(* of its next process.  Records are given up in three places (GivesUp);   *)
(* a process is started, or its start put off, in three others (MayStart), *)
(* and ForkKeeps and GivesUpKeeps serve all of them.                       *)
(***************************************************************************)
EXTENDS ProcessManager, DataLemmas

Records == ToSet(infos)
Queued == ToSet(queue)
Passed == ToSet(smQueue)
Handled == ToSet(crashed)
Known(p) == \E r \in Records : r.pid = p

InfoType == [slot : Slots, exe : BOOLEAN, pid : Pid, fd : Fds \cup {NoFd}]
PmTask == TaskType({"boot", "reaped", "crash", "online"})
SmTask == TaskType({"crash", "online"})

\* Nothing closed is left in epoll's ready list.
ReadyIsOpen == \A fd \in ToSet(ready) : fd # EventFd => watch[fd] # Free

\* Records and tasks name a process and its slot; only the daemon's children are
\* zombies, and only the daemon starts the boot processes.
SlotsAgree ==
    /\ \A r \in Records : r.slot = procs[r.pid].slot
    /\ \A t \in Queued \cup Passed :
          t.op # "boot" => t.pid \in Pid /\ t.slot = procs[t.pid].slot
    /\ \A p \in Pid :
          /\ procs[p].state = "zombie" => procs[p].child
          /\ procs[p].slot \in Boot => procs[p].child

\* Records and open pidfds are the same; a watched process is none of the daemon's
\* children and its death is not handled yet.
WatchInv ==
    /\ IsInjective(infos)
    /\ \A r, q \in Records : r.pid = q.pid => r = q
    /\ \A fd \in Fds : watch[fd].kind = "pidfd" => \E r \in Records : r.fd = fd
    /\ \A r \in Records : r.fd # NoFd =>
          /\ watch[r.fd] = Pidfd(r.pid)
          /\ ~procs[r.pid].child /\ r.pid \notin Handled
          /\ \A q \in Records : q.slot = r.slot /\ q.fd # NoFd => q = r

\* A task is in one queue, once.  What waitpid saw is a child's death nobody handled,
\* a crash on its way is one that was handled, a report is not acted on yet.
TaskInv ==
    /\ IsInjective(queue) /\ IsInjective(smQueue) /\ Queued \cap Passed = {}
    /\ IsInjective(crashed)
    /\ \A t \in Queued \cup Passed :
          /\ t.op = "reaped" =>
                procs[t.pid].child /\ procs[t.pid].state = "gone" /\ t.pid \notin Handled
          /\ t.op = "crash" => t.pid \in Handled
          /\ t.op = "online" =>
                /\ procs[t.pid].reported
                /\ ~procs[t.pid].child => ~Known(t.pid) /\ t.pid \notin Handled
    /\ \A p \in Pid :
          /\ procs[p].child /\ p \in Handled => procs[p].state = "gone"
          /\ ~procs[p].child /\ (Known(p) \/ p \in Handled) => procs[p].reported

\* ChildrenAreTracked over the sets.
TrackInv ==
    \A p \in Pid : procs[p].child =>
        /\ procs[p].state # "gone" => Known(p)
        /\ \A t \in Queued \cup Passed : t.pid = p /\ t.op # "online" => Known(p)

\* A boot process is about to be started in one place: by tryStartFixedProcesses,
\* by its task, by a retry, or it is recorded and the crash task will.
StartInv ==
    /\ \A t \in Queued : t.op = "boot" => t.slot \notin toStart /\ t.pid = 0
    /\ \A s \in Boot :
          /\ \A fd \in Fds : watch[fd].kind = "timer" /\ watch[fd].slot = s =>
                /\ s \notin toStart
                /\ \A t \in Queued : t.op = "boot" => t.slot # s
                /\ \A r \in Records : r.slot # s
                /\ \A g \in Fds : watch[g].kind = "timer" /\ watch[g].slot = s => g = fd
          /\ \A r \in Records : r.slot = s =>
                /\ s \notin toStart
                /\ \A t \in Queued : t.op = "boot" => t.slot # s
                /\ \A q \in Records : q.slot = s => q = r

SetInv == SlotsAgree /\ WatchInv /\ TaskInv /\ TrackInv /\ StartInv

SupervisionInv == TypeOK /\ ReadyIsOpen /\ SetInv /\ LiveReaderKeepsBit

-----------------------------------------------------------------------------
(* The lists as sets. *)

AllFds == Fds \cup {EventFd}

LEMMA FdsDiffer == EventFd \notin Fds /\ NoFd \notin AllFds /\ Fds \subseteq Nat
  BY FdsAssumption DEF NoFd, AllFds

LEMMA NothingListed == ToSet(<<>>) = {} /\ IsInjective(<<>>)
  <1>1. DOMAIN <<>> = {}
    OBVIOUS
  <1>2. QED
    BY <1>1, Zenon DEF ToSet, IsInjective

LEMMA ListTypes ==
    ASSUME TypeOK
    PROVE  /\ procs \in Seq(ProcessType) /\ Pid = 1 .. Len(procs) /\ Len(procs) \in Nat
           /\ \A p \in Pid : procs[p] \in ProcessType
           /\ ready \in Seq(AllFds) /\ batch \in Seq(AllFds) /\ IsInjective(ready)
           /\ queue \in Seq(PmTask) /\ smQueue \in Seq(SmTask)
           /\ infos \in Seq(InfoType) /\ crashed \in Seq(Pid)
           /\ watch \in [Fds -> WatchType]
  BY DEF TypeOK, AllFds, PmTask, SmTask, InfoType, Pid

LEMMA WatchKinds ==
    /\ Free.kind = "free"
    /\ \A p : Pidfd(p).kind = "pidfd" /\ Pidfd(p).pid = p /\ Pidfd(p) # Free
    /\ \A s : /\ Timer(s, TRUE).kind = "timer" /\ Timer(s, TRUE).slot = s /\ Timer(s, TRUE) # Free
             /\ Timer(s, FALSE).kind = "timer" /\ Timer(s, FALSE).slot = s
             /\ Timer(s, FALSE) # Free
  BY DEF Free, Pidfd, Timer

LEMMA WatchCases ==
    ASSUME TypeOK, NEW fd \in Fds
    PROVE  \/ watch[fd] = Free
           \/ \E p \in Pid : watch[fd] = Pidfd(p)
           \/ \E s \in Slots, b \in BOOLEAN : watch[fd] = Timer(s, b)
  <1>1. watch[fd] \in WatchType
    BY ListTypes
  <1>2. QED
    BY <1>1, SMT DEF WatchType, Timer, Pidfd, Free

LEMMA TimerTyped ==
    ASSUME NEW s \in Slots, NEW b \in BOOLEAN
    PROVE  Timer(s, b) \in WatchType
  <1>1. Timer(s, b) \in {Timer(u, c) : u \in Slots, c \in BOOLEAN}
    OBVIOUS
  <1>2. QED
    BY <1>1 DEF WatchType

LEMMA MembersTyped ==
    ASSUME NEW S, NEW s \in Seq(S)
    PROVE  ToSet(s) \subseteq S
  BY DEF ToSet

LEMMA SetTypes ==
    ASSUME TypeOK
    PROVE  /\ Records \subseteq InfoType /\ Queued \subseteq PmTask
           /\ Passed \subseteq SmTask /\ Handled \subseteq Pid
  <1>1. /\ queue \in Seq(PmTask) /\ smQueue \in Seq(SmTask)
        /\ infos \in Seq(InfoType) /\ crashed \in Seq(Pid)
    BY ListTypes
  <1>2. QED
    BY <1>1, MembersTyped DEF Records, Queued, Passed, Handled

LEMMA RecordedIsKnown ==
    ASSUME NEW p
    PROVE  Recorded(p) <=> Known(p)
  BY DEF Recorded, Known, Records, ToSet

\* MessageThread::post.
LEMMA PostFacts ==
    ASSUME TypeOK, NEW t \in PmTask, Post(t)
    PROVE  /\ queue' \in Seq(PmTask) /\ Queued' = Queued \cup {t}
           /\ IsInjective(queue) /\ t \notin Queued => IsInjective(queue')
           /\ ready' \in Seq(AllFds) /\ IsInjective(ready')
           /\ ToSet(ready') = ToSet(ready) \cup {EventFd}
  <1>1. /\ ready \in Seq(AllFds) /\ IsInjective(ready) /\ queue \in Seq(PmTask)
        /\ EventFd \in AllFds
    BY ListTypes DEF AllFds
  <1>2. queue' = Append(queue, t)
    BY DEF Post
  <1>3. /\ queue' \in Seq(PmTask) /\ Queued' = Queued \cup {t}
        /\ IsInjective(queue) /\ t \notin Queued => IsInjective(queue')
    BY <1>1, <1>2, AppendFacts DEF Queued
  <1>4. CASE Contains(ready, EventFd)
    <2>1. ready' = ready /\ EventFd \in ToSet(ready)
      BY <1>1, <1>4, ContainsIsMember DEF Post, MakeReady
    <2>2. QED
      BY <1>1, <1>3, <2>1
  <1>5. CASE ~Contains(ready, EventFd)
    <2>1. ready' = Append(ready, EventFd) /\ EventFd \notin ToSet(ready)
      BY <1>1, <1>5, ContainsIsMember DEF Post, MakeReady
    <2>2. QED
      BY <1>1, <1>3, <2>1, AppendFacts
  <1>6. QED
    BY <1>4, <1>5

LEMMA MakeReadyFacts ==
    ASSUME TypeOK, NEW fd \in AllFds, ready' = MakeReady(ready, fd)
    PROVE  /\ ready' \in Seq(AllFds) /\ IsInjective(ready')
           /\ ToSet(ready') = ToSet(ready) \cup {fd}
  <1>1. ready \in Seq(AllFds) /\ IsInjective(ready)
    BY ListTypes
  <1>2. CASE Contains(ready, fd)
    BY <1>1, <1>2, ContainsIsMember DEF MakeReady
  <1>3. CASE ~Contains(ready, fd)
    <2>1. ready' = Append(ready, fd) /\ fd \notin ToSet(ready)
      BY <1>1, <1>3, ContainsIsMember DEF MakeReady
    <2>2. QED
      BY <1>1, <2>1, AppendFacts
  <1>4. QED
    BY <1>2, <1>3

LEMMA NoLongerReadyFacts ==
    ASSUME TypeOK, NEW F
    PROVE  /\ NoLongerReady(F) \in Seq(AllFds) /\ IsInjective(NoLongerReady(F))
           /\ ToSet(NoLongerReady(F)) = ToSet(ready) \ F
  <1>1. ready \in Seq(AllFds) /\ IsInjective(ready)
    BY ListTypes
  <1>2. QED
    BY <1>1, WithoutFacts DEF NoLongerReady

-----------------------------------------------------------------------------
(* The parts of the invariant that a step leaves alone. *)

\* No process is forgotten; each goes its way from running to gone.
Aging ==
    /\ Pid \subseteq Pid'
    /\ \A p \in Pid :
          /\ procs'[p].slot = procs[p].slot /\ procs'[p].child = procs[p].child
          /\ procs[p].reported => procs'[p].reported
          /\ procs[p].state = "gone" => procs'[p].state = "gone"
          /\ procs'[p].state # "gone" => procs[p].state # "gone"

\* Processes age, everything else that SetInv reads is as it was.
LEMMA AgingKeeps ==
    ASSUME TypeOK, SetInv, Aging, Pid' = Pid,
           \A p \in Pid : procs'[p].state = "zombie" => procs'[p].child,
           UNCHANGED <<watch, infos, queue, smQueue, crashed, toStart>>
    PROVE  SetInv'
  <1>1. /\ Records' = Records /\ Queued' = Queued /\ Passed' = Passed /\ Handled' = Handled
        /\ SlotsAgree /\ WatchInv /\ TaskInv /\ TrackInv /\ StartInv
        /\ \A p : Known(p)' <=> Known(p)
    BY DEF Records, Queued, Passed, Handled, SetInv, Known
  <1>2. /\ Records \subseteq InfoType /\ Queued \subseteq PmTask
        /\ Passed \subseteq SmTask /\ Handled \subseteq Pid
    BY SetTypes
  <1>3. \A r \in Records : r.pid \in Pid
    BY <1>2 DEF InfoType
  <1>4. SlotsAgree'
    BY <1>1, <1>3 DEF SlotsAgree, Aging
  <1>5. WatchInv'
    BY <1>1, <1>3 DEF WatchInv, Aging
  <1>6. TaskInv'
    <2>1. \A t \in Queued \cup Passed : t.op # "boot" => t.pid \in Pid
      BY <1>1 DEF SlotsAgree
    <2>2. QED
      BY <1>1, <2>1 DEF TaskInv, Aging
  <1>7. TrackInv'
    BY <1>1 DEF TrackInv, Aging
  <1>8. StartInv'
    BY <1>1 DEF StartInv
  <1>9. QED
    BY <1>4, <1>5, <1>6, <1>7, <1>8 DEF SetInv

LEMMA ProcessChanges ==
    ASSUME TypeOK, NEW p \in Pid, NEW r \in ProcessType, procs' = [procs EXCEPT ![p] = r]
    PROVE  /\ procs' \in Seq(ProcessType) /\ Pid' = Pid /\ procs'[p] = r
           /\ \A q \in Pid : q # p => procs'[q] = procs[q]
  BY ListTypes DEF Pid

LEMMA SpendFacts ==
    ASSUME TypeOK, NEW k \in EventKinds, Spend(k)
    PROVE  left' \in [EventKinds -> Nat]
  <1>1. left \in [EventKinds -> Nat]
    BY DEF TypeOK
  <1>2. left[k] - 1 \in Nat
    BY <1>1 DEF Spend
  <1>3. QED
    BY <1>1, <1>2 DEF Spend

OtherTypes ==
    /\ wpc \in {"poll", "batch", "drain"}
    /\ toStart \subseteq Slots
    /\ syncFlag \in [Slots -> BOOLEAN]
    /\ readerBit \in [Slots -> BOOLEAN]
    /\ left \in [EventKinds -> Nat]

LEMMA OthersTyped == TypeOK => OtherTypes
  BY DEF TypeOK, OtherTypes

\* A step that starts no process is typed part by part.
LEMMA TypedByParts ==
    ASSUME Pid' = Pid, OtherTypes', procs' \in Seq(ProcessType), watch' \in [Fds -> WatchType],
           ready' \in Seq(AllFds), batch' \in Seq(AllFds), IsInjective(ready'),
           queue' \in Seq(PmTask), smQueue' \in Seq(SmTask),
           infos' \in Seq(InfoType), crashed' \in Seq(Pid)
    PROVE  TypeOK'
  <1>1. PmTask' = PmTask /\ SmTask' = SmTask /\ InfoType' = InfoType /\ WatchType' = WatchType
    <2>1. PmTask' = PmTask /\ SmTask' = SmTask
      BY DEF PmTask, SmTask, TaskType
    <2>2. InfoType' = InfoType
      BY DEF InfoType
    <2>3. WatchType' = WatchType
      BY DEF WatchType, Pidfd, Timer, Free
    <2>4. QED
      BY <2>1, <2>2, <2>3
  <1>2. /\ queue' \in Seq(PmTask') /\ smQueue' \in Seq(SmTask') /\ infos' \in Seq(InfoType')
        /\ watch' \in [Fds -> WatchType'] /\ crashed' \in Seq(Pid')
    BY <1>1
  <1>3. QED
    BY <1>2 DEF TypeOK, OtherTypes, AllFds, PmTask, SmTask, InfoType

-----------------------------------------------------------------------------
(* The processes and the ShmManager worker. *)

LEMMA InitHolds == Init => SupervisionInv
  <1> SUFFICES ASSUME Init PROVE SupervisionInv
    OBVIOUS
  <1>1. /\ procs = <<>> /\ ready = <<>> /\ batch = <<>> /\ queue = <<>> /\ infos = <<>>
        /\ smQueue = <<>> /\ crashed = <<>> /\ Pid = {}
        /\ \A fd \in Fds : watch[fd] = Free
    BY DEF Init, Pid
  <1>2. Records = {} /\ Queued = {} /\ Passed = {} /\ Handled = {} /\ ToSet(ready) = {}
    BY <1>1, NothingListed DEF Records, Queued, Passed, Handled
  <1>3. TypeOK
    <2>1. left \in [EventKinds -> Nat]
      BY LimitsAssumption DEF Init
    <2>2. watch \in [Fds -> WatchType]
      BY DEF Init, WatchType
    <2>3. QED
      BY <1>1, <2>1, <2>2, NothingListed DEF Init, TypeOK
  <1>4. ReadyIsOpen
    BY <1>2 DEF ReadyIsOpen
  <1>5. SlotsAgree
    BY <1>1, <1>2 DEF SlotsAgree
  <1>6. WatchInv
    BY <1>1, <1>2, NothingListed DEF WatchInv, Free
  <1>7. TaskInv
    BY <1>1, <1>2, NothingListed DEF TaskInv
  <1>8. TrackInv
    BY <1>1, <1>2 DEF TrackInv
  <1>9. StartInv
    BY <1>1, <1>2 DEF StartInv, Free
  <1>10. LiveReaderKeepsBit
    BY <1>1 DEF LiveReaderKeepsBit
  <1>11. QED
    BY <1>3, <1>4, <1>5, <1>6, <1>7, <1>8, <1>9, <1>10 DEF SupervisionInv, SetInv

LEMMA AttachKeeps ==
    ASSUME SupervisionInv, NEW p \in Pid, Attach(p)
    PROVE  SupervisionInv'
  <1>1. TypeOK /\ ReadyIsOpen /\ SetInv /\ LiveReaderKeepsBit /\ procs[p] \in ProcessType
    BY ListTypes DEF SupervisionInv
  <1>2. PICK r : r = [procs[p] EXCEPT !.attached = TRUE]
    OBVIOUS
  <1>3. /\ r \in ProcessType /\ r.slot = procs[p].slot /\ r.child = procs[p].child
        /\ r.state = procs[p].state /\ r.reported = procs[p].reported
    BY <1>1, <1>2 DEF ProcessType
  <1>4. procs' = [procs EXCEPT ![p] = r]
    BY <1>2 DEF Attach
  <1>5. /\ procs' \in Seq(ProcessType) /\ Pid' = Pid /\ procs'[p] = r
        /\ \A q \in Pid : q # p => procs'[q] = procs[q]
    BY <1>1, <1>3, <1>4, ProcessChanges
  <1>6. /\ readerBit' \in [Slots -> BOOLEAN]
        /\ \A s \in Slots : readerBit'[s] = (readerBit[s] \/ s = procs[p].slot)
    BY <1>1 DEF Attach, TypeOK, ProcessType
  <1>7. TypeOK'
    BY <1>1, <1>5, <1>6, ListTypes, OthersTyped, TypedByParts
    DEF OtherTypes, Attach, pmVars, smVars
  <1>8. ReadyIsOpen'
    BY <1>1 DEF ReadyIsOpen, Attach
  <1>9. SetInv'
    BY <1>1, <1>3, <1>5, AgingKeeps DEF Aging, Attach, pmVars, smVars, SetInv, SlotsAgree
  <1>10. LiveReaderKeepsBit'
    <2>1. \A q \in Pid : procs[q].slot \in Slots
      BY <1>1, ListTypes DEF ProcessType
    <2>2. QED
      BY <1>1, <1>3, <1>5, <1>6, <2>1 DEF LiveReaderKeepsBit, Running
  <1>11. QED
    BY <1>7, <1>8, <1>9, <1>10 DEF SupervisionInv

LEMMA ExitKeeps ==
    ASSUME SupervisionInv, NEW p \in Pid, Exit(p)
    PROVE  SupervisionInv'
  <1>1. TypeOK /\ ReadyIsOpen /\ SetInv /\ LiveReaderKeepsBit /\ procs[p] \in ProcessType
    BY ListTypes DEF SupervisionInv
  <1>2. PICK r : r = [procs[p] EXCEPT !.state = IF procs[p].child THEN "zombie" ELSE "gone"]
    OBVIOUS
  <1>3. /\ r \in ProcessType /\ r.slot = procs[p].slot /\ r.child = procs[p].child
        /\ r.state # "running" /\ r.reported = procs[p].reported
        /\ r.state = "zombie" => r.child
    BY <1>1, <1>2 DEF ProcessType
  <1>4. procs' = [procs EXCEPT ![p] = r] /\ procs[p].state = "running"
    BY <1>2 DEF Exit, Running
  <1>5. /\ procs' \in Seq(ProcessType) /\ Pid' = Pid /\ procs'[p] = r
        /\ \A q \in Pid : q # p => procs'[q] = procs[q]
    BY <1>1, <1>3, <1>4, ProcessChanges
  <1>6. /\ ready' \in Seq(AllFds) /\ IsInjective(ready')
        /\ \A fd \in ToSet(ready') : fd # EventFd => watch[fd] # Free
    <2>1. CASE UNCHANGED ready
      BY <1>1, <2>1, ListTypes DEF ReadyIsOpen
    <2>2. ASSUME NEW fd \in Fds, watch[fd] = Pidfd(p), ready' = MakeReady(ready, fd)
          PROVE  /\ ready' \in Seq(AllFds) /\ IsInjective(ready')
                 /\ ToSet(ready') = ToSet(ready) \cup {fd} /\ watch[fd] # Free
      <3>1. watch[fd] # Free
        BY <2>2 DEF Pidfd, Free
      <3>2. fd \in AllFds
        BY DEF AllFds
      <3>3. QED
        BY <1>1, <2>2, <3>1, <3>2, MakeReadyFacts
    <2>3. QED
      BY <1>1, <2>1, <2>2 DEF Exit, ReadyIsOpen
  <1>7. left' \in [EventKinds -> Nat]
    BY <1>1, SpendFacts DEF Exit, EventKinds
  <1>8. TypeOK'
    BY <1>1, <1>5, <1>6, <1>7, ListTypes, OthersTyped, TypedByParts
    DEF OtherTypes, Exit, pmVars, smVars
  <1>9. ReadyIsOpen'
    BY <1>6 DEF ReadyIsOpen, Exit
  <1>10. SetInv'
    BY <1>1, <1>3, <1>4, <1>5, AgingKeeps DEF Aging, Exit, pmVars, smVars, SetInv, SlotsAgree
  <1>11. LiveReaderKeepsBit'
    BY <1>1, <1>3, <1>5 DEF LiveReaderKeepsBit, Running, Exit
  <1>12. QED
    BY <1>8, <1>9, <1>10, <1>11 DEF SupervisionInv

\* What SetInv says of the tasks: which there may be, and where a new one may appear.
LEMMA TasksTyped ==
    ASSUME TypeOK, SetInv
    PROVE  /\ \A t \in Queued : t \in PmTask
           /\ \A t \in Passed : t \in SmTask
           /\ \A t \in Queued \cup Passed : t.op # "boot" => t.pid \in Pid
           /\ \A r \in Records : r \in InfoType /\ r.pid \in Pid
           /\ \A p \in Handled : p \in Pid
  BY SetTypes DEF SetInv, SlotsAgree, InfoType

LEMMA AgingWatch ==
    ASSUME TypeOK, SetInv, Aging, UNCHANGED <<watch, infos, crashed>>
    PROVE  /\ WatchInv' /\ Records' = Records /\ Handled' = Handled
           /\ \A p : Known(p)' <=> Known(p)
  <1>1. /\ Records' = Records /\ Handled' = Handled /\ WatchInv
        /\ \A p : Known(p)' <=> Known(p)
    BY DEF Records, Handled, SetInv, Known
  <1>2. WatchInv'
    BY <1>1, TasksTyped DEF WatchInv, Aging
  <1>3. QED
    BY <1>1, <1>2

LEMMA ReportKeeps ==
    ASSUME SupervisionInv, NEW p \in Pid, Report(p)
    PROVE  SupervisionInv'
  <1>1. /\ TypeOK /\ ReadyIsOpen /\ SetInv /\ LiveReaderKeepsBit /\ procs[p] \in ProcessType
        /\ SlotsAgree /\ WatchInv /\ TaskInv /\ TrackInv /\ StartInv
    BY ListTypes DEF SupervisionInv, SetInv
  <1>2. PICK r : r = [procs[p] EXCEPT !.reported = TRUE]
    OBVIOUS
  <1>3. /\ r \in ProcessType /\ r.slot = procs[p].slot /\ r.child = procs[p].child
        /\ r.state = procs[p].state /\ r.reported /\ r.attached = procs[p].attached
    BY <1>1, <1>2 DEF ProcessType
  <1>4. procs' = [procs EXCEPT ![p] = r] /\ ~procs[p].reported
    BY <1>2 DEF Report
  <1>5. /\ procs' \in Seq(ProcessType) /\ Pid' = Pid /\ procs'[p] = r
        /\ \A q \in Pid : q # p => procs'[q] = procs[q]
    BY <1>1, <1>3, <1>4, ProcessChanges
  <1>6. Aging
    BY <1>3, <1>4, <1>5 DEF Aging
  <1>7. PICK t : t = Task("online", procs[p].slot, p)
    OBVIOUS
  <1>8. t \in SmTask /\ t.op = "online" /\ t.slot = procs[p].slot /\ t.pid = p
    BY <1>1, <1>7 DEF Task, SmTask, TaskType, ProcessType
  <1>9. t \notin Queued \cup Passed
    BY <1>1, <1>4, <1>8 DEF TaskInv
  <1>10. /\ smQueue' \in Seq(SmTask) /\ IsInjective(smQueue') /\ Passed' = Passed \cup {t}
    BY <1>1, <1>7, <1>8, <1>9, AppendFacts, ListTypes DEF Report, Passed, TaskInv
  <1>11. TypeOK'
    BY <1>1, <1>5, <1>10, ListTypes, OthersTyped, TypedByParts
    DEF OtherTypes, Report, pmVars
  <1>12. ReadyIsOpen'
    BY <1>1 DEF ReadyIsOpen, Report
  <1>13. /\ WatchInv' /\ Records' = Records /\ Handled' = Handled
         /\ \A q : Known(q)' <=> Known(q)
    BY <1>1, <1>6, AgingWatch DEF Report, pmVars
  <1>14. Queued' = Queued
    BY DEF Report, pmVars, Queued
  <1>15. SlotsAgree'
    BY <1>1, <1>3, <1>5, <1>8, <1>10, <1>13, <1>14, TasksTyped DEF SlotsAgree
  <1>16. TaskInv'
    <2>1. /\ IsInjective(queue') /\ IsInjective(smQueue') /\ IsInjective(crashed')
          /\ Queued' \cap Passed' = {}
      BY <1>1, <1>9, <1>10, <1>14 DEF TaskInv, Report, pmVars
    <2>2. ~procs[p].child => ~Known(p) /\ p \notin Handled
      BY <1>1, <1>4 DEF TaskInv
    <2>3. ASSUME NEW u \in Queued' \cup Passed'
          PROVE  /\ u.op = "reaped" =>
                       procs'[u.pid].child /\ procs'[u.pid].state = "gone" /\ u.pid \notin Handled'
                 /\ u.op = "crash" => u.pid \in Handled'
                 /\ u.op = "online" =>
                       /\ procs'[u.pid].reported
                       /\ ~procs'[u.pid].child => ~Known(u.pid)' /\ u.pid \notin Handled'
      <3>1. CASE u = t
        BY <1>3, <1>5, <1>8, <1>13, <2>2, <3>1
      <3>2. CASE u \in Queued \cup Passed
        BY <1>1, <1>6, <1>13, <3>2, TasksTyped DEF TaskInv, Aging
      <3>3. QED
        BY <1>10, <1>14, <3>1, <3>2
    <2>4. \A q \in Pid' :
            /\ procs'[q].child /\ q \in Handled' => procs'[q].state = "gone"
            /\ ~procs'[q].child /\ (Known(q)' \/ q \in Handled') => procs'[q].reported
      BY <1>1, <1>5, <1>6, <1>13 DEF TaskInv, Aging
    <2>5. QED
      BY <2>1, <2>3, <2>4 DEF TaskInv
  <1>17. TrackInv'
    BY <1>1, <1>5, <1>6, <1>8, <1>10, <1>13, <1>14 DEF TrackInv, Aging
  <1>18. StartInv'
    BY <1>1, <1>13, <1>14 DEF StartInv, Report
  <1>19. LiveReaderKeepsBit'
    BY <1>1, <1>3, <1>5 DEF LiveReaderKeepsBit, Running, Report
  <1>20. QED
    BY <1>11, <1>12, <1>13, <1>15, <1>16, <1>17, <1>18, <1>19 DEF SupervisionInv, SetInv

LEMMA WaitpidKeeps ==
    ASSUME SupervisionInv, NEW p \in Pid, Waitpid(p)
    PROVE  SupervisionInv'
  <1>1. /\ TypeOK /\ ReadyIsOpen /\ SetInv /\ LiveReaderKeepsBit /\ procs[p] \in ProcessType
        /\ SlotsAgree /\ WatchInv /\ TaskInv /\ TrackInv /\ StartInv
    BY ListTypes DEF SupervisionInv, SetInv
  <1>2. PICK r : r = [procs[p] EXCEPT !.state = "gone"]
    OBVIOUS
  <1>3. /\ r \in ProcessType /\ r.slot = procs[p].slot /\ r.child = procs[p].child
        /\ r.state = "gone" /\ r.reported = procs[p].reported
    BY <1>1, <1>2 DEF ProcessType
  <1>4. procs' = [procs EXCEPT ![p] = r] /\ procs[p].state = "zombie"
    BY <1>2 DEF Waitpid
  <1>5. /\ procs' \in Seq(ProcessType) /\ Pid' = Pid /\ procs'[p] = r
        /\ \A q \in Pid : q # p => procs'[q] = procs[q]
    BY <1>1, <1>3, <1>4, ProcessChanges
  <1>6. Aging
    BY <1>3, <1>4, <1>5 DEF Aging
  <1>7. PICK t : t = Task("reaped", procs[p].slot, p)
    OBVIOUS
  <1>8. t \in PmTask /\ t.op = "reaped" /\ t.slot = procs[p].slot /\ t.pid = p
    BY <1>1, <1>7 DEF Task, PmTask, TaskType, ProcessType
  <1>9. t \notin Queued \cup Passed /\ procs[p].child /\ p \notin Handled /\ Known(p)
    BY <1>1, <1>4, <1>8 DEF TaskInv, SlotsAgree, TrackInv
  <1>10. /\ queue' \in Seq(PmTask) /\ IsInjective(queue') /\ Queued' = Queued \cup {t}
         /\ ready' \in Seq(AllFds) /\ IsInjective(ready')
         /\ ToSet(ready') = ToSet(ready) \cup {EventFd}
    BY <1>1, <1>7, <1>8, <1>9, PostFacts DEF Waitpid, TaskInv
  <1>11. TypeOK'
    BY <1>1, <1>5, <1>10, ListTypes, OthersTyped, TypedByParts
    DEF OtherTypes, Waitpid, smVars
  <1>12. ReadyIsOpen'
    BY <1>1, <1>10 DEF ReadyIsOpen, Waitpid
  <1>13. /\ WatchInv' /\ Records' = Records /\ Handled' = Handled
         /\ \A q : Known(q)' <=> Known(q)
    BY <1>1, <1>6, AgingWatch DEF Waitpid
  <1>14. Passed' = Passed
    BY DEF Waitpid, smVars, Passed
  <1>15. SlotsAgree'
    BY <1>1, <1>3, <1>5, <1>8, <1>10, <1>13, <1>14, TasksTyped DEF SlotsAgree
  <1>16. TaskInv'
    <2>1. /\ IsInjective(queue') /\ IsInjective(smQueue') /\ IsInjective(crashed')
          /\ Queued' \cap Passed' = {}
      BY <1>1, <1>9, <1>10, <1>14 DEF TaskInv, Waitpid, smVars
    <2>3. ASSUME NEW u \in Queued' \cup Passed'
          PROVE  /\ u.op = "reaped" =>
                       procs'[u.pid].child /\ procs'[u.pid].state = "gone" /\ u.pid \notin Handled'
                 /\ u.op = "crash" => u.pid \in Handled'
                 /\ u.op = "online" =>
                       /\ procs'[u.pid].reported
                       /\ ~procs'[u.pid].child => ~Known(u.pid)' /\ u.pid \notin Handled'
      <3>1. CASE u = t
        BY <1>3, <1>5, <1>8, <1>9, <1>13, <3>1
      <3>2. CASE u \in Queued \cup Passed
        BY <1>1, <1>6, <1>13, <3>2, TasksTyped DEF TaskInv, Aging
      <3>3. QED
        BY <1>10, <1>14, <3>1, <3>2
    <2>4. \A q \in Pid' :
            /\ procs'[q].child /\ q \in Handled' => procs'[q].state = "gone"
            /\ ~procs'[q].child /\ (Known(q)' \/ q \in Handled') => procs'[q].reported
      BY <1>1, <1>5, <1>6, <1>13 DEF TaskInv, Aging
    <2>5. QED
      BY <2>1, <2>3, <2>4 DEF TaskInv
  <1>17. TrackInv'
    BY <1>1, <1>5, <1>6, <1>8, <1>9, <1>10, <1>13, <1>14 DEF TrackInv, Aging
  <1>18. StartInv'
    BY <1>1, <1>8, <1>10, <1>13 DEF StartInv, Waitpid, smVars
  <1>19. LiveReaderKeepsBit'
    BY <1>1, <1>3, <1>5 DEF LiveReaderKeepsBit, Running, Waitpid
  <1>20. QED
    BY <1>11, <1>12, <1>13, <1>15, <1>16, <1>17, <1>18, <1>19 DEF SupervisionInv, SetInv

LEMMA StartFixedKeeps ==
    ASSUME SupervisionInv, NEW s \in Slots, StartFixed(s)
    PROVE  SupervisionInv'
  <1>1. /\ TypeOK /\ ReadyIsOpen /\ SetInv /\ LiveReaderKeepsBit
        /\ SlotsAgree /\ WatchInv /\ TaskInv /\ TrackInv /\ StartInv
    BY DEF SupervisionInv, SetInv
  <1>2. /\ UNCHANGED <<procs, watch, infos, smQueue, crashed, readerBit, batch>>
        /\ s \in toStart /\ toStart' = toStart \ {s}
    BY DEF StartFixed
  <1>3. /\ Pid' = Pid /\ Records' = Records /\ Passed' = Passed /\ Handled' = Handled
        /\ \A p : Known(p)' <=> Known(p)
    BY <1>2 DEF Pid, Records, Passed, Handled, Known
  <1>4. PICK t : t = Task("boot", s, 0)
    OBVIOUS
  <1>5. t \in PmTask /\ t.op = "boot" /\ t.slot = s /\ t.pid = 0
    BY <1>4 DEF Task, PmTask, TaskType
  <1>6. t \notin Queued /\ t \notin Passed
    BY <1>1, <1>2, <1>5, TasksTyped DEF StartInv, SmTask, TaskType
  <1>7. /\ queue' \in Seq(PmTask) /\ IsInjective(queue') /\ Queued' = Queued \cup {t}
        /\ ready' \in Seq(AllFds) /\ IsInjective(ready')
        /\ ToSet(ready') = ToSet(ready) \cup {EventFd}
    BY <1>1, <1>4, <1>5, <1>6, PostFacts DEF StartFixed, TaskInv
  <1>8. TypeOK'
    BY <1>1, <1>2, <1>3, <1>7, ListTypes, OthersTyped, TypedByParts
    DEF OtherTypes, StartFixed
  <1>9. ReadyIsOpen'
    BY <1>1, <1>2, <1>7 DEF ReadyIsOpen
  <1>10. SlotsAgree'
    BY <1>1, <1>2, <1>3, <1>5, <1>7 DEF SlotsAgree
  <1>11. WatchInv'
    BY <1>1, <1>2, <1>3 DEF WatchInv
  <1>12. TaskInv'
    BY <1>1, <1>2, <1>3, <1>5, <1>6, <1>7 DEF TaskInv
  <1>13. TrackInv'
    <2>1. ~ \E p \in Pid : t.pid = p
      BY <1>1, <1>5, ListTypes
    <2>2. QED
      BY <1>1, <1>2, <1>3, <1>7, <2>1 DEF TrackInv
  <1>14. StartInv'
    <2>1. \A u \in Queued' : u.op = "boot" => u.slot \notin toStart' /\ u.pid = 0
      BY <1>1, <1>2, <1>5, <1>7 DEF StartInv
    <2>2. QED
      BY <1>1, <1>2, <1>3, <1>5, <1>7, <2>1 DEF StartInv
  <1>15. LiveReaderKeepsBit'
    BY <1>1, <1>2, <1>3 DEF LiveReaderKeepsBit, Running
  <1>16. QED
    BY <1>8, <1>9, <1>10, <1>11, <1>12, <1>13, <1>14, <1>15 DEF SupervisionInv, SetInv

\* The boot process whose crash is on its way is the last one of its slot.
LEMMA CrashedIsAlone ==
    ASSUME TypeOK, SetInv, NEW t \in Queued \cup Passed, t.op = "crash", t.slot \in Boot,
           NEW p \in Pid, procs[p].slot = t.slot
    PROVE  procs[p].state = "gone"
  <1> SUFFICES ASSUME procs[p].state # "gone" PROVE FALSE
    OBVIOUS
  <1>1. SlotsAgree /\ WatchInv /\ TaskInv /\ TrackInv /\ StartInv
    BY DEF SetInv
  <1>2. t.pid \in Pid /\ procs[t.pid].slot = t.slot /\ procs[t.pid].child /\ procs[p].child
    BY <1>1 DEF SlotsAgree
  <1>3. t.pid \in Handled /\ procs[t.pid].state = "gone"
    BY <1>1, <1>2 DEF TaskInv
  <1>4. Known(p) /\ Known(t.pid)
    BY <1>1, <1>2 DEF TrackInv
  <1>5. PICK r \in Records, q \in Records : r.pid = p /\ q.pid = t.pid
    BY <1>4 DEF Known
  <1>6. r.slot = t.slot /\ q.slot = t.slot
    BY <1>1, <1>2, <1>5 DEF SlotsAgree
  <1>7. r = q
    BY <1>1, <1>6 DEF StartInv
  <1>8. QED
    BY <1>3, <1>5, <1>7

LEMMA ShmTaskKeeps ==
    ASSUME SupervisionInv, ShmTask
    PROVE  SupervisionInv'
  <1>1. /\ TypeOK /\ ReadyIsOpen /\ SetInv /\ LiveReaderKeepsBit
        /\ SlotsAgree /\ WatchInv /\ TaskInv /\ TrackInv /\ StartInv
    BY DEF SupervisionInv, SetInv
  <1>2. /\ UNCHANGED <<procs, watch, infos, crashed, batch, toStart>>
        /\ smQueue # <<>> /\ smQueue' = Tail(smQueue)
    BY DEF ShmTask, ShmCrash, ShmOnline
  <1>3. /\ Pid' = Pid /\ Records' = Records /\ Handled' = Handled
        /\ \A p : Known(p)' <=> Known(p)
    BY <1>2 DEF Pid, Records, Handled, Known
  <1>4. PICK t : t = Head(smQueue)
    OBVIOUS
  <1>5. /\ t \in SmTask /\ smQueue' \in Seq(SmTask) /\ IsInjective(smQueue')
        /\ t \in Passed /\ Passed' = Passed \ {t}
    <2>1. smQueue \in Seq(SmTask) /\ IsInjective(smQueue)
      BY <1>1, ListTypes DEF TaskInv
    <2>2. /\ Head(smQueue) \in SmTask /\ Tail(smQueue) \in Seq(SmTask)
          /\ ToSet(smQueue) = {Head(smQueue)} \cup ToSet(Tail(smQueue))
          /\ IsInjective(Tail(smQueue)) /\ Head(smQueue) \notin ToSet(Tail(smQueue))
      BY <1>2, <2>1, TailFacts
    <2>3. QED
      BY <1>2, <1>4, <2>2 DEF Passed
  <1>6. t \in PmTask /\ t.op \in {"crash", "online"} /\ t.slot \in Slots /\ t \notin Queued
    BY <1>1, <1>5 DEF PmTask, SmTask, TaskType, TaskInv
  <1>7. Post(t)
    BY <1>4 DEF ShmTask, ShmCrash, ShmOnline
  <1>8. /\ queue' \in Seq(PmTask) /\ IsInjective(queue') /\ Queued' = Queued \cup {t}
        /\ ready' \in Seq(AllFds) /\ IsInjective(ready')
        /\ ToSet(ready') = ToSet(ready) \cup {EventFd}
    BY <1>1, <1>6, <1>7, PostFacts DEF TaskInv
  <1>9. readerBit' \in [Slots -> BOOLEAN]
    BY <1>1 DEF ShmTask, ShmCrash, ShmOnline, TypeOK
  <1>10. Queued' \cup Passed' = Queued \cup Passed /\ Queued' \cap Passed' = {}
    BY <1>1, <1>5, <1>8 DEF TaskInv
  <1>11. TypeOK'
    BY <1>1, <1>2, <1>3, <1>5, <1>8, <1>9, ListTypes, OthersTyped, TypedByParts
    DEF OtherTypes, ShmTask
  <1>12. ReadyIsOpen'
    BY <1>1, <1>2, <1>8 DEF ReadyIsOpen
  <1>13. SlotsAgree'
    BY <1>1, <1>2, <1>3, <1>10 DEF SlotsAgree
  <1>14. WatchInv'
    BY <1>1, <1>2, <1>3 DEF WatchInv
  <1>15. TaskInv'
    BY <1>1, <1>2, <1>3, <1>5, <1>8, <1>10 DEF TaskInv
  <1>16. TrackInv'
    BY <1>1, <1>2, <1>3, <1>10 DEF TrackInv
  <1>17. StartInv'
    BY <1>1, <1>2, <1>3, <1>6, <1>8 DEF StartInv
  <1>18. LiveReaderKeepsBit'
    <2>1. CASE t.op = "crash"
      <3>1. readerBit' = [readerBit EXCEPT ![t.slot] = FALSE]
        BY <1>4, <2>1 DEF ShmTask, ShmCrash, ShmOnline
      <3>2. ASSUME NEW p \in Pid, procs[p].slot \in Boot, procs[p].state = "running"
            PROVE  procs[p].slot # t.slot
        BY <1>1, <1>5, <2>1, <3>2, CrashedIsAlone
      <3>3. readerBit \in [Slots -> BOOLEAN] /\ Boot \subseteq Slots
        BY <1>1, BootAssumption DEF TypeOK
      <3>4. QED
        BY <1>1, <1>2, <1>3, <3>1, <3>2, <3>3 DEF LiveReaderKeepsBit, Running
    <2>2. CASE t.op = "online"
      <3>1. readerBit' = readerBit
        BY <1>4, <2>2 DEF ShmTask, ShmCrash, ShmOnline
      <3>2. QED
        BY <1>1, <1>2, <1>3, <3>1 DEF LiveReaderKeepsBit, Running
    <2>3. QED
      BY <1>6, <2>1, <2>2
  <1>19. QED
    BY <1>11, <1>12, <1>13, <1>14, <1>15, <1>16, <1>17, <1>18 DEF SupervisionInv, SetInv

\* What only touches m_flags, the budget or the array of epoll_wait.
LEMMA SetSyncKeeps ==
    ASSUME SupervisionInv, NEW s \in Slots, SetSync(s)
    PROVE  SupervisionInv'
  <1>1. TypeOK /\ ReadyIsOpen /\ SetInv /\ LiveReaderKeepsBit
    BY DEF SupervisionInv
  <1>2. UNCHANGED <<osVars, pmVars, smVars, readerBit, crashed>>
    BY DEF SetSync
  <1>3. left' \in [EventKinds -> Nat] /\ syncFlag' \in [Slots -> BOOLEAN]
    BY <1>1, SpendFacts DEF SetSync, EventKinds, TypeOK
  <1>4. Pid' = Pid
    BY <1>2 DEF osVars, Pid
  <1>5. TypeOK'
    BY <1>1, <1>2, <1>3, <1>4, ListTypes, OthersTyped, TypedByParts
    DEF OtherTypes, osVars, pmVars, smVars
  <1>6. ReadyIsOpen'
    BY <1>1, <1>2 DEF ReadyIsOpen, osVars
  <1>7. SetInv'
    BY <1>1, <1>2, <1>4, AgingKeeps DEF Aging, osVars, pmVars, smVars, SetInv, SlotsAgree
  <1>8. LiveReaderKeepsBit'
    BY <1>1, <1>2, <1>4 DEF LiveReaderKeepsBit, Running, osVars
  <1>9. QED
    BY <1>5, <1>6, <1>7, <1>8 DEF SupervisionInv

\* A process more.
LEMMA SeqGrows ==
    ASSUME NEW S, NEW T, S \subseteq T
    PROVE  Seq(S) \subseteq Seq(T)
  OBVIOUS

LEMMA ProcessStarts ==
    ASSUME TypeOK, NEW x \in ProcessType, procs' = Append(procs, x), NEW n, n = Len(procs) + 1
    PROVE  /\ procs' \in Seq(ProcessType) /\ Pid' = Pid \cup {n} /\ n \notin Pid
           /\ procs'[n] = x /\ \A p \in Pid : procs'[p] = procs[p]
           /\ Seq(PmTask) \subseteq Seq(PmTask') /\ Seq(SmTask) \subseteq Seq(SmTask')
           /\ InfoType \subseteq InfoType'
           /\ Seq(InfoType) \subseteq Seq(InfoType') /\ Seq(Pid) \subseteq Seq(Pid')
           /\ WatchType \subseteq WatchType'
  <1>1. procs \in Seq(ProcessType) /\ Pid = 1 .. Len(procs) /\ Len(procs) \in Nat
    BY ListTypes
  <1>2. /\ procs' \in Seq(ProcessType) /\ Len(procs') = Len(procs) + 1
        /\ procs'[n] = x /\ \A p \in Pid : procs'[p] = procs[p]
        /\ Pid' = 1 .. Len(procs) + 1
    BY <1>1 DEF Pid
  <1>3. Pid' = Pid \cup {n} /\ n \notin Pid
    BY <1>1, <1>2
  <1>4. PmTask \subseteq PmTask' /\ SmTask \subseteq SmTask'
    BY <1>3 DEF PmTask, SmTask, TaskType
  <1>5. InfoType \subseteq InfoType'
    BY <1>3 DEF InfoType
  <1>6. WatchType \subseteq WatchType'
    BY <1>3 DEF WatchType
  <1>7. QED
    BY <1>2, <1>3, <1>4, <1>5, <1>6, SeqGrows

LEMMA TypedByNewParts ==
    ASSUME OtherTypes', procs' \in Seq(ProcessType), watch' \in [Fds -> WatchType'],
           ready' \in Seq(AllFds), batch' \in Seq(AllFds), IsInjective(ready'),
           queue' \in Seq(PmTask'), smQueue' \in Seq(SmTask'),
           infos' \in Seq(InfoType'), crashed' \in Seq(Pid')
    PROVE  TypeOK'
  BY DEF TypeOK, OtherTypes, AllFds, PmTask, SmTask, InfoType

LEMMA UserStartsKeeps ==
    ASSUME SupervisionInv, NEW s \in Slots, UserStarts(s)
    PROVE  SupervisionInv'
  <1>1. /\ TypeOK /\ ReadyIsOpen /\ SetInv /\ LiveReaderKeepsBit
        /\ SlotsAgree /\ WatchInv /\ TaskInv /\ TrackInv /\ StartInv
    BY DEF SupervisionInv, SetInv
  <1>2. /\ UNCHANGED <<watch, ready, pmVars, smVars, syncFlag, readerBit, crashed>>
        /\ procs' = Append(procs, Process(s, FALSE)) /\ s \notin Boot
    BY DEF UserStarts
  <1>3. PICK n, x : n = Len(procs) + 1 /\ x = Process(s, FALSE)
    OBVIOUS
  <1>4. x \in ProcessType /\ x.slot = s /\ ~x.child /\ x.state = "running" /\ ~x.attached
    BY <1>3 DEF Process, ProcessType
  <1>5. /\ procs' \in Seq(ProcessType) /\ Pid' = Pid \cup {n} /\ n \notin Pid
        /\ procs'[n] = x /\ \A p \in Pid : procs'[p] = procs[p]
        /\ Seq(PmTask) \subseteq Seq(PmTask') /\ Seq(SmTask) \subseteq Seq(SmTask')
        /\ Seq(InfoType) \subseteq Seq(InfoType') /\ Seq(Pid) \subseteq Seq(Pid')
        /\ WatchType \subseteq WatchType'
    BY <1>1, <1>2, <1>3, <1>4, ProcessStarts
  <1>6. left' \in [EventKinds -> Nat]
    BY <1>1, SpendFacts DEF UserStarts, EventKinds
  <1>7. /\ Records' = Records /\ Queued' = Queued /\ Passed' = Passed /\ Handled' = Handled
        /\ \A p : Known(p)' <=> Known(p)
    BY <1>2 DEF pmVars, smVars, Records, Queued, Passed, Handled, Known
  <1>8. /\ \A t \in Queued \cup Passed : t.op # "boot" => t.pid \in Pid
        /\ \A r \in Records : r.pid \in Pid
        /\ n \notin Handled /\ ~Known(n)
    BY <1>1, <1>5, TasksTyped DEF Known
  <1>9. TypeOK'
    <2>1. /\ queue' \in Seq(PmTask') /\ smQueue' \in Seq(SmTask')
          /\ infos' \in Seq(InfoType') /\ crashed' \in Seq(Pid')
      BY <1>1, <1>2, <1>5, ListTypes DEF pmVars, smVars
    <2>2. watch' \in [Fds -> WatchType']
      BY <1>1, <1>2, <1>5, ListTypes
    <2>3. OtherTypes'
      BY <1>1, <1>2, <1>6, OthersTyped DEF OtherTypes, pmVars, smVars
    <2>4. ready' \in Seq(AllFds) /\ batch' \in Seq(AllFds) /\ IsInjective(ready')
      BY <1>1, <1>2, ListTypes DEF pmVars
    <2>5. QED
      BY <1>5, <2>1, <2>2, <2>3, <2>4, TypedByNewParts
  <1>10. ReadyIsOpen'
    BY <1>1, <1>2 DEF ReadyIsOpen
  <1>11. SlotsAgree'
    BY <1>1, <1>2, <1>4, <1>5, <1>7, <1>8 DEF SlotsAgree
  <1>12. WatchInv'
    BY <1>1, <1>2, <1>5, <1>7, <1>8 DEF WatchInv, pmVars
  <1>13. TaskInv'
    <2>1. \A t \in Queued \cup Passed : t.op # "boot" => procs'[t.pid] = procs[t.pid]
      BY <1>5, <1>8
    <2>2. QED
      BY <1>1, <1>2, <1>4, <1>5, <1>7, <1>8, <2>1 DEF TaskInv, pmVars, smVars
  <1>14. TrackInv'
    BY <1>1, <1>4, <1>5, <1>7 DEF TrackInv
  <1>15. StartInv'
    BY <1>1, <1>2, <1>7 DEF StartInv, smVars
  <1>16. LiveReaderKeepsBit'
    BY <1>1, <1>2, <1>4, <1>5 DEF LiveReaderKeepsBit, Running
  <1>17. QED
    BY <1>9, <1>10, <1>11, <1>12, <1>13, <1>14, <1>15, <1>16 DEF SupervisionInv, SetInv

-----------------------------------------------------------------------------
(* The epoll loop. *)

\* A step of the loop that reads its descriptors and changes nothing else.
LEMMA QuietKeeps ==
    ASSUME SupervisionInv, OtherTypes',
           UNCHANGED <<procs, watch, infos, queue, smQueue, crashed, toStart, readerBit>>,
           ready' \in Seq(AllFds), batch' \in Seq(AllFds), IsInjective(ready'),
           ToSet(ready') \subseteq ToSet(ready)
    PROVE  SupervisionInv'
  <1>1. TypeOK /\ ReadyIsOpen /\ SetInv /\ LiveReaderKeepsBit /\ Pid' = Pid
    BY DEF SupervisionInv, Pid
  <1>2. TypeOK'
    BY <1>1, ListTypes, TypedByParts
  <1>3. ReadyIsOpen'
    BY <1>1 DEF ReadyIsOpen
  <1>4. SetInv'
    BY <1>1, AgingKeeps DEF Aging, SetInv, SlotsAgree
  <1>5. LiveReaderKeepsBit'
    BY <1>1 DEF LiveReaderKeepsBit, Running
  <1>6. QED
    BY <1>2, <1>3, <1>4, <1>5 DEF SupervisionInv

LEMMA PollKeeps ==
    ASSUME SupervisionInv, Poll
    PROVE  SupervisionInv'
  <1>1. TypeOK
    BY DEF SupervisionInv
  <1> DEFINE front == SubSeq(ready, 1, Reports)
             back == SubSeq(ready, Reports + 1, Len(ready))
             seen == {EventFd} \cup {fd \in Fds : watch[fd].kind # "pidfd"}
             kept == Without(front, seen)
  <1>2. batch' = front /\ ready' = back \o kept /\ wpc' = "batch"
    BY DEF Poll
  <1>3. /\ front \in Seq(AllFds) /\ back \in Seq(AllFds)
        /\ ToSet(ready) = ToSet(front) \cup ToSet(back)
        /\ IsInjective(front) /\ IsInjective(back) /\ ToSet(front) \cap ToSet(back) = {}
    <2>1. ready \in Seq(AllFds) /\ IsInjective(ready)
      BY <1>1, ListTypes
    <2>2. PICK n \in 0 .. Len(ready) : n = Reports
      BY <2>1, MaxEventsOnceAssumption DEF Reports
    <2>3. front = SubSeq(ready, 1, n) /\ back = SubSeq(ready, n + 1, Len(ready))
      BY <2>2
    <2>4. QED
      BY <2>1, <2>2, <2>3, SplitFacts
  <1> HIDE DEF front, back, seen
  <1>4. kept \in Seq(AllFds) /\ ToSet(kept) = ToSet(front) \ seen /\ IsInjective(kept)
    BY <1>3, WithoutFacts
  <1> HIDE DEF kept
  <1>5. /\ ready' \in Seq(AllFds) /\ IsInjective(ready')
        /\ ToSet(ready') = ToSet(back) \cup ToSet(kept)
    <2>1. ToSet(back) \cap ToSet(kept) = {}
      BY <1>3, <1>4
    <2>2. QED
      BY <1>2, <1>3, <1>4, <2>1, ConcatFacts
  <1>6. ToSet(ready') \subseteq ToSet(ready)
    BY <1>3, <1>4, <1>5
  <1>7. OtherTypes'
    BY <1>1, <1>2, OthersTyped DEF OtherTypes, Poll, smVars
  <1>8. QED
    BY <1>2, <1>3, <1>5, <1>6, <1>7, QuietKeeps DEF Poll, smVars

LEMMA LoopKeeps ==
    ASSUME SupervisionInv, EventBatch \/ Drained \/ StaleBatch \/ BatchDone
    PROVE  SupervisionInv'
  <1>1. TypeOK
    BY DEF SupervisionInv
  <1>2. UNCHANGED <<osVars, queue, infos, smVars, syncFlag, readerBit, crashed, left>>
    BY DEF EventBatch, Drained, StaleBatch, BatchDone
  <1>3. batch' \in Seq(AllFds)
    <2>1. batch \in Seq(AllFds)
      BY <1>1, ListTypes
    <2>2. batch # <<>> => Tail(batch) \in Seq(AllFds)
      BY <2>1, TailFacts
    <2>3. QED
      BY <2>1, <2>2 DEF EventBatch, Drained, StaleBatch, BatchDone
  <1>4. wpc' \in {"poll", "batch", "drain"}
    BY <1>1 DEF EventBatch, Drained, StaleBatch, BatchDone, TypeOK
  <1>5. OtherTypes'
    BY <1>1, <1>2, <1>4, OthersTyped DEF OtherTypes, smVars
  <1>6. QED
    BY <1>1, <1>2, <1>3, <1>5, ListTypes, QuietKeeps DEF osVars, smVars

\* A change of descriptors that opens and closes none.
LEMMA TimerExpiresKeeps ==
    ASSUME SupervisionInv, NEW fd \in Fds, TimerExpires(fd)
    PROVE  SupervisionInv'
  <1>1. /\ TypeOK /\ ReadyIsOpen /\ SetInv /\ LiveReaderKeepsBit
        /\ SlotsAgree /\ WatchInv /\ TaskInv /\ TrackInv /\ StartInv
    BY DEF SupervisionInv, SetInv
  <1>2. /\ UNCHANGED <<procs, pmVars, smVars, syncFlag, readerBit, crashed, left>>
        /\ watch[fd].kind = "timer" /\ ready' = MakeReady(ready, fd)
    BY DEF TimerExpires
  <1>3. PICK s \in Slots, b \in BOOLEAN : watch[fd] = Timer(s, b)
    BY <1>1, <1>2, WatchCases, WatchKinds
  <1>4. PICK w : w = [Timer(s, b) EXCEPT !.armed = FALSE]
    OBVIOUS
  <1>5. /\ watch' \in [Fds -> WatchType]
        /\ watch'[fd] = Timer(s, FALSE) /\ \A g \in Fds : g # fd => watch'[g] = watch[g]
    <2>1. w = Timer(s, FALSE)
      BY <1>4 DEF Timer
    <2>2. watch' = [watch EXCEPT ![fd] = w]
      BY <1>3, <1>4, Zenon DEF TimerExpires
    <2>3. Timer(s, FALSE) \in WatchType
      BY TimerTyped
    <2>4. QED
      BY <1>1, <2>1, <2>2, <2>3, ListTypes
  <1>6. /\ Timer(s, FALSE).kind = "timer" /\ Timer(s, FALSE).slot = s /\ watch[fd].slot = s
        /\ Timer(s, FALSE) # Free
    BY <1>3, WatchKinds
  <1>7. /\ ready' \in Seq(AllFds) /\ IsInjective(ready')
        /\ ToSet(ready') = ToSet(ready) \cup {fd}
    BY <1>1, <1>2, MakeReadyFacts DEF AllFds
  <1>8. /\ Pid' = Pid /\ Records' = Records /\ Queued' = Queued /\ Passed' = Passed
        /\ Handled' = Handled /\ \A p : Known(p)' <=> Known(p)
    BY <1>2 DEF pmVars, smVars, Pid, Records, Queued, Passed, Handled, Known
  <1>9. TypeOK'
    BY <1>1, <1>2, <1>5, <1>7, <1>8, ListTypes, OthersTyped, TypedByParts
    DEF OtherTypes, pmVars, smVars
  <1>10. ReadyIsOpen'
    <2>1. ToSet(ready) \subseteq AllFds
      BY <1>1, ListTypes, MembersTyped
    <2>2. QED
      BY <1>1, <1>5, <1>6, <1>7, <2>1 DEF ReadyIsOpen, AllFds
  <1>11. SlotsAgree'
    BY <1>1, <1>2, <1>8 DEF SlotsAgree
  <1>12. WatchInv'
    <2>1. \A r \in Records : r.fd # NoFd => r.fd \in Fds
      BY <1>1, TasksTyped DEF InfoType
    <2>2. \A r \in Records : r.fd # NoFd => r.fd # fd
      BY <1>1, <1>2, <2>1, WatchKinds DEF WatchInv
    <2>3. QED
      BY <1>1, <1>2, <1>5, <1>6, <1>8, <2>1, <2>2 DEF WatchInv, pmVars
  <1>13. TaskInv'
    BY <1>1, <1>2, <1>8 DEF TaskInv, pmVars, smVars
  <1>14. TrackInv'
    BY <1>1, <1>2, <1>8 DEF TrackInv
  <1>15. StartInv'
    <2>1. \A g \in Fds : /\ watch'[g].kind = "timer" <=> watch[g].kind = "timer"
                         /\ watch[g].kind = "timer" => watch'[g].slot = watch[g].slot
      BY <1>2, <1>5, <1>6
    <2>2. QED
      BY <1>1, <1>2, <1>8, <2>1 DEF StartInv, smVars
  <1>16. LiveReaderKeepsBit'
    BY <1>1, <1>2, <1>8 DEF LiveReaderKeepsBit, Running
  <1>17. QED
    BY <1>9, <1>10, <1>11, <1>12, <1>13, <1>14, <1>15, <1>16 DEF SupervisionInv, SetInv

-----------------------------------------------------------------------------
(* Records are given up, and a process is started or its start put off.  infs are *)
(* the records left, F the descriptors closed.                                    *)

\* What the step does to the rest of the state: a task may be taken.
Undisturbed ==
    /\ UNCHANGED <<smQueue, crashed, toStart, syncFlag, readerBit>>
    /\ queue' \in Seq(PmTask) /\ IsInjective(queue') /\ Queued' \subseteq Queued
    /\ batch' \in Seq(AllFds) /\ wpc' \in {"poll", "batch", "drain"}
    /\ left' \in [EventKinds -> Nat]

\* The records given up are those of the closed pidfds, or of children whose death
\* has been handled.
GivesUp(infs, F) ==
    /\ infs \in Seq(InfoType) /\ IsInjective(infs) /\ ToSet(infs) \subseteq Records
    /\ \A r \in ToSet(infs) : r.fd # NoFd => r.fd \notin F
    /\ \A fd \in Fds \ F : watch[fd].kind = "pidfd" => \E r \in ToSet(infs) : r.fd = fd
    /\ \A r \in Records \ ToSet(infs) : procs[r.pid].child =>
          /\ procs[r.pid].state = "gone"
          /\ \A t \in Queued' \cup Passed : t.pid = r.pid => t.op = "online"

\* Nothing else starts a process of a boot slot.
MayStart(s, infs, F) ==
    s \in Boot =>
        /\ s \notin toStart
        /\ \A t \in Queued' : t.op = "boot" => t.slot # s
        /\ \A r \in ToSet(infs) : r.slot # s
        /\ \A fd \in Fds \ F : watch[fd].kind = "timer" => watch[fd].slot # s

Unready(F) ==
    ready' \in Seq(AllFds) /\ IsInjective(ready') /\ ToSet(ready') = ToSet(ready) \ F

Closes(F) == \A fd \in Fds : watch'[fd] = IF fd \in F THEN Free ELSE watch[fd]

Opens(g, s, F) ==
    /\ g \in Fds /\ (g \in F \/ watch[g] = Free) /\ watch'[g] = Timer(s, TRUE)
    /\ \A fd \in Fds : fd # g => watch'[fd] = IF fd \in F THEN Free ELSE watch[fd]

LEMMA GivesUpKeeps ==
    ASSUME SupervisionInv, NEW s \in Slots, NEW infs, NEW F, Undisturbed, GivesUp(infs, F),
           procs' = procs, infos' = infs, Unready(F),
           watch' \in [Fds -> WatchType],
           \/ Closes(F)
           \/ MayStart(s, infs, F) /\ \E g \in Fds : Opens(g, s, F)
    PROVE  SupervisionInv'
  <1>1. /\ TypeOK /\ ReadyIsOpen /\ SetInv /\ LiveReaderKeepsBit
        /\ SlotsAgree /\ WatchInv /\ TaskInv /\ TrackInv /\ StartInv
    BY DEF SupervisionInv, SetInv
  <1>2. /\ Pid' = Pid /\ Records' = ToSet(infs) /\ Passed' = Passed /\ Handled' = Handled
        /\ Records' \subseteq Records
    BY DEF Undisturbed, GivesUp, Pid, Records, Passed, Handled
  <1>3. \A p : Known(p)' => Known(p)
    BY <1>2 DEF Known
  <1>4. /\ ready' \in Seq(AllFds) /\ IsInjective(ready') /\ ToSet(ready') = ToSet(ready) \ F
    BY DEF Unready
  <1>5. TypeOK'
    BY <1>1, <1>2, <1>4, ListTypes, OthersTyped, TypedByParts
    DEF OtherTypes, Undisturbed, GivesUp
  <1>6. ASSUME NEW fd \in Fds
        PROVE  \/ watch'[fd] = watch[fd] /\ fd \notin F
               \/ watch'[fd] = Free /\ fd \in F
               \/ /\ watch'[fd] = Timer(s, TRUE) /\ (fd \in F \/ watch[fd] = Free)
                  /\ MayStart(s, infs, F)
    BY <1>1 DEF Closes, Opens
  <1>7. ReadyIsOpen'
    <2>1. ToSet(ready) \subseteq AllFds
      BY <1>1, ListTypes, MembersTyped
    <2>2. QED
      BY <1>1, <1>4, <1>6, <2>1, WatchKinds DEF ReadyIsOpen, AllFds
  <1>8. SlotsAgree'
    BY <1>1, <1>2 DEF SlotsAgree, Undisturbed
  <1>9. WatchInv'
    <2>1. ASSUME NEW fd \in Fds, watch'[fd].kind = "pidfd"
          PROVE  \E r \in Records' : r.fd = fd
      <3>1. watch'[fd] = watch[fd] /\ fd \notin F
        BY <1>6, <2>1, WatchKinds
      <3>2. QED
        BY <1>2, <2>1, <3>1 DEF GivesUp
    <2>2. ASSUME NEW r \in Records', r.fd # NoFd
          PROVE  /\ watch'[r.fd] = Pidfd(r.pid)
                 /\ ~procs[r.pid].child /\ r.pid \notin Handled
                 /\ \A q \in Records' : q.slot = r.slot /\ q.fd # NoFd => q = r
      <3>1. r \in Records /\ r \in ToSet(infs)
        BY <1>2
      <3>2. /\ watch[r.fd] = Pidfd(r.pid)
            /\ ~procs[r.pid].child /\ r.pid \notin Handled
            /\ \A q \in Records : q.slot = r.slot /\ q.fd # NoFd => q = r
        BY <1>1, <2>2, <3>1 DEF WatchInv
      <3>3. r.fd \notin F /\ r.fd \in Fds
        BY <1>1, <2>2, <3>1, TasksTyped DEF GivesUp, InfoType
      <3>4. watch'[r.fd] = watch[r.fd]
        BY <1>6, <3>2, <3>3, WatchKinds
      <3>5. QED
        BY <1>2, <3>2, <3>4
    <2>3. IsInjective(infos') /\ \A r, q \in Records' : r.pid = q.pid => r = q
      BY <1>1, <1>2 DEF WatchInv, GivesUp
    <2>4. QED
      BY <1>2, <2>1, <2>2, <2>3 DEF WatchInv
  <1>10. TaskInv'
    <2>1. /\ IsInjective(queue') /\ IsInjective(smQueue') /\ Queued' \cap Passed' = {}
          /\ IsInjective(crashed')
      BY <1>1, <1>2 DEF TaskInv, Undisturbed
    <2>2. QED
      BY <1>1, <1>2, <1>3, <2>1 DEF TaskInv, Undisturbed
  <1>11. TrackInv'
    <2>1. ASSUME NEW p \in Pid, procs[p].child, Known(p), ~Known(p)'
          PROVE  /\ procs[p].state = "gone"
                 /\ \A t \in Queued' \cup Passed : t.pid = p => t.op = "online"
      <3>1. PICK r \in Records : r.pid = p
        BY <2>1 DEF Known
      <3>2. r \notin ToSet(infs)
        BY <1>2, <2>1, <3>1 DEF Known
      <3>3. QED
        BY <2>1, <3>1, <3>2 DEF GivesUp
    <2>2. QED
      BY <1>1, <1>2, <2>1 DEF TrackInv, Undisturbed
  <1>12. StartInv'
    <2>1. \A t \in Queued' : t.op = "boot" => t.slot \notin toStart' /\ t.pid = 0
      BY <1>1 DEF StartInv, Undisturbed
    <2>2. ASSUME NEW b \in Boot, NEW fd \in Fds, watch'[fd].kind = "timer", watch'[fd].slot = b
          PROVE  /\ b \notin toStart'
                 /\ \A t \in Queued' : t.op = "boot" => t.slot # b
                 /\ \A r \in Records' : r.slot # b
                 /\ \A g \in Fds : watch'[g].kind = "timer" /\ watch'[g].slot = b => g = fd
      <3>1. CASE Closes(F)
        <4>1. \A g \in Fds : watch'[g].kind = "timer" => watch'[g] = watch[g]
          BY <3>1, WatchKinds DEF Closes
        <4>2. QED
          BY <1>1, <1>2, <2>2, <4>1 DEF StartInv, Undisturbed
      <3>2. ASSUME NEW g \in Fds, Opens(g, s, F), MayStart(s, infs, F)
            PROVE  /\ b \notin toStart'
                   /\ \A t \in Queued' : t.op = "boot" => t.slot # b
                   /\ \A r \in Records' : r.slot # b
                   /\ \A h \in Fds : watch'[h].kind = "timer" /\ watch'[h].slot = b => h = fd
        <4>1. /\ watch'[g].kind = "timer" /\ watch'[g].slot = s
              /\ \A h \in Fds : h # g /\ watch'[h].kind = "timer" =>
                    watch'[h] = watch[h] /\ h \notin F
          BY <3>2, WatchKinds DEF Opens
        <4>2. CASE b = s
          BY <1>2, <2>2, <3>2, <4>1, <4>2 DEF MayStart, Undisturbed
        <4>3. CASE b # s
          BY <1>1, <1>2, <2>2, <4>1, <4>3 DEF StartInv, Undisturbed
        <4>4. QED
          BY <4>2, <4>3
      <3>3. QED
        BY <3>1, <3>2
    <2>3. ASSUME NEW b \in Boot, NEW r \in Records', r.slot = b
          PROVE  /\ b \notin toStart'
                 /\ \A t \in Queued' : t.op = "boot" => t.slot # b
                 /\ \A q \in Records' : q.slot = b => q = r
      BY <1>1, <1>2, <2>3 DEF StartInv, Undisturbed
    <2>4. QED
      BY <2>1, <2>2, <2>3 DEF StartInv
  <1>13. LiveReaderKeepsBit'
    BY <1>1, <1>2 DEF LiveReaderKeepsBit, Running, Undisturbed
  <1>14. QED
    BY <1>5, <1>7, <1>8, <1>9, <1>10, <1>11, <1>12, <1>13 DEF SupervisionInv, SetInv

LEMMA ForkKeeps ==
    ASSUME SupervisionInv, NEW s \in Slots, NEW infs, NEW F, Undisturbed, GivesUp(infs, F),
           MayStart(s, infs, F), procs' = Append(procs, Process(s, TRUE)),
           infos' = Append(infs, Info(s, TRUE, Len(procs) + 1, NoFd)),
           ready' = NoLongerReady(F), watch' = Closed(F)
    PROVE  SupervisionInv'
  <1>1. /\ TypeOK /\ ReadyIsOpen /\ SetInv /\ LiveReaderKeepsBit
        /\ SlotsAgree /\ WatchInv /\ TaskInv /\ TrackInv /\ StartInv
    BY DEF SupervisionInv, SetInv
  <1>2. PICK n, x, i : /\ n = Len(procs) + 1 /\ x = Process(s, TRUE)
                       /\ i = Info(s, TRUE, n, NoFd)
    OBVIOUS
  <1>3. /\ x \in ProcessType /\ x.slot = s /\ x.child /\ x.state = "running"
        /\ ~x.attached /\ ~x.reported
    BY <1>2 DEF Process, ProcessType
  <1>4. /\ procs' \in Seq(ProcessType) /\ Pid' = Pid \cup {n} /\ n \notin Pid
        /\ procs'[n] = x /\ \A p \in Pid : procs'[p] = procs[p]
        /\ Seq(PmTask) \subseteq Seq(PmTask') /\ Seq(SmTask) \subseteq Seq(SmTask')
        /\ InfoType \subseteq InfoType'
        /\ Seq(InfoType) \subseteq Seq(InfoType') /\ Seq(Pid) \subseteq Seq(Pid')
        /\ WatchType \subseteq WatchType'
    BY <1>1, <1>2, <1>3, ProcessStarts
  <1>5. /\ i \in InfoType' /\ i.slot = s /\ i.exe /\ i.pid = n /\ i.fd = NoFd
    BY <1>2, <1>4 DEF Info, InfoType
  <1>6. /\ \A t \in Queued \cup Passed : t.op # "boot" => t.pid \in Pid
        /\ \A t \in Queued : t.op = "boot" => t.pid = 0
        /\ \A t \in Passed : t.op # "boot"
        /\ \A r \in Records : r \in InfoType /\ r.pid \in Pid
        /\ n \notin Handled /\ ~Known(n) /\ 0 # n
    <2>1. n # 0
      BY <1>1, <1>2, ListTypes
    <2>2. QED
      BY <1>1, <1>4, <2>1, TasksTyped DEF Known, StartInv, SmTask, TaskType
  <1>7. /\ infos' \in Seq(InfoType') /\ IsInjective(infos') /\ Records' = ToSet(infs) \cup {i}
        /\ i \notin Records
    <2>1. infs \in Seq(InfoType') /\ IsInjective(infs) /\ ToSet(infs) \subseteq Records
      BY <1>4 DEF GivesUp
    <2>2. i \notin Records
      BY <1>4, <1>5, <1>6
    <2>3. infos' = Append(infs, i)
      BY <1>2
    <2>4. PICK S : S = InfoType'
      OBVIOUS
    <2>5. infs \in Seq(S) /\ i \in S
      BY <1>5, <2>1, <2>4
    <2>6. /\ infos' \in Seq(S) /\ IsInjective(infos') /\ ToSet(infos') = ToSet(infs) \cup {i}
      <3>1. i \notin ToSet(infs)
        BY <2>1, <2>2
      <3>2. /\ Append(infs, i) \in Seq(S) /\ IsInjective(Append(infs, i))
            /\ ToSet(Append(infs, i)) = ToSet(infs) \cup {i}
        BY <2>1, <2>5, <3>1, AppendFacts
      <3>3. QED
        BY <2>3, <3>2, Zenon
    <2>7. QED
      BY <2>2, <2>4, <2>6 DEF Records
  <1>8. Passed' = Passed /\ Handled' = Handled /\ ToSet(infs) \subseteq Records
    BY DEF Undisturbed, Passed, Handled, GivesUp
  <1>9. Known(n)' /\ \A p \in Pid : Known(p)' => Known(p)
    BY <1>4, <1>5, <1>7, <1>8 DEF Known
  <1>10. /\ ready' \in Seq(AllFds) /\ IsInjective(ready') /\ ToSet(ready') = ToSet(ready) \ F
    BY <1>1, NoLongerReadyFacts
  <1>11. \A fd \in Fds : watch'[fd] = IF fd \in F THEN Free ELSE watch[fd]
    BY DEF Closed
  <1>12. TypeOK'
    <2>1. watch' \in [Fds -> WatchType']
      <3>1. Free \in WatchType /\ \A fd \in Fds : watch[fd] \in WatchType
        <4>1. Free \in WatchType
          BY DEF WatchType
        <4>2. QED
          BY <1>1, <4>1, ListTypes
      <3>2. \A fd \in Fds : watch[fd] \in WatchType' /\ Free \in WatchType'
        BY <1>4, <3>1
      <3>3. QED
        BY <3>2 DEF Closed
    <2>2. /\ queue' \in Seq(PmTask') /\ smQueue' \in Seq(SmTask') /\ crashed' \in Seq(Pid')
      BY <1>1, <1>4, ListTypes DEF Undisturbed
    <2>3. OtherTypes' /\ batch' \in Seq(AllFds)
      BY <1>1, OthersTyped DEF OtherTypes, Undisturbed
    <2>4. QED
      BY <1>4, <1>7, <1>10, <2>1, <2>2, <2>3, TypedByNewParts
  <1>13. ReadyIsOpen'
    <2>1. ToSet(ready) \subseteq AllFds
      BY <1>1, ListTypes, MembersTyped
    <2>2. QED
      BY <1>1, <1>10, <1>11, <2>1 DEF ReadyIsOpen, AllFds
  <1>14. SlotsAgree'
    BY <1>1, <1>3, <1>4, <1>5, <1>6, <1>7, <1>8 DEF SlotsAgree, Undisturbed
  <1>15. WatchInv'
    <2>1. \A fd \in Fds : watch'[fd].kind = "pidfd" => watch'[fd] = watch[fd] /\ fd \notin F
      BY <1>11, WatchKinds
    <2>2. \A fd \in Fds : watch'[fd].kind = "pidfd" => \E r \in Records' : r.fd = fd
      BY <1>7, <2>1 DEF GivesUp
    <2>3. \A r, q \in Records' : r.pid = q.pid => r = q
      BY <1>1, <1>4, <1>5, <1>6, <1>7, <1>8 DEF WatchInv
    <2>4. ASSUME NEW r \in Records', r.fd # NoFd
          PROVE  /\ watch'[r.fd] = Pidfd(r.pid)
                 /\ ~procs'[r.pid].child /\ r.pid \notin Handled
                 /\ \A q \in Records' : q.slot = r.slot /\ q.fd # NoFd => q = r
      <3>1. r \in Records /\ r \in ToSet(infs)
        BY <1>5, <1>7, <1>8, <2>4
      <3>2. /\ watch[r.fd] = Pidfd(r.pid)
            /\ ~procs[r.pid].child /\ r.pid \notin Handled
            /\ \A q \in Records : q.slot = r.slot /\ q.fd # NoFd => q = r
        BY <1>1, <2>4, <3>1 DEF WatchInv
      <3>3. r.fd \notin F /\ r.fd \in Fds
        BY <1>6, <2>4, <3>1 DEF GivesUp, InfoType
      <3>4. watch'[r.fd] = watch[r.fd]
        BY <1>11, <3>3
      <3>5. QED
        BY <1>4, <1>5, <1>6, <1>7, <1>8, <3>1, <3>2, <3>4
    <2>5. QED
      BY <1>7, <1>8, <2>2, <2>3, <2>4 DEF WatchInv
  <1>16. TaskInv'
    <2>1. /\ IsInjective(queue') /\ IsInjective(smQueue') /\ Queued' \cap Passed' = {}
          /\ IsInjective(crashed')
      BY <1>1, <1>8 DEF TaskInv, Undisturbed
    <2>2. \A t \in Queued' \cup Passed' :
              t.op # "boot" => t.pid \in Pid /\ procs'[t.pid] = procs[t.pid]
      BY <1>4, <1>6, <1>8 DEF Undisturbed
    <2>3. ASSUME NEW t \in Queued' \cup Passed'
          PROVE  /\ t.op = "reaped" =>
                       procs'[t.pid].child /\ procs'[t.pid].state = "gone" /\ t.pid \notin Handled'
                 /\ t.op = "crash" => t.pid \in Handled'
                 /\ t.op = "online" =>
                       /\ procs'[t.pid].reported
                       /\ ~procs'[t.pid].child => ~Known(t.pid)' /\ t.pid \notin Handled'
      BY <1>1, <1>8, <1>9, <2>2, <2>3 DEF TaskInv, Undisturbed
    <2>4. \A q \in Pid' :
            /\ procs'[q].child /\ q \in Handled' => procs'[q].state = "gone"
            /\ ~procs'[q].child /\ (Known(q)' \/ q \in Handled') => procs'[q].reported
      BY <1>1, <1>3, <1>4, <1>6, <1>8, <1>9 DEF TaskInv
    <2>5. QED
      BY <2>1, <2>3, <2>4 DEF TaskInv
  <1>17. TrackInv'
    <2>1. ASSUME NEW p \in Pid, procs[p].child, Known(p), ~Known(p)'
          PROVE  /\ procs[p].state = "gone"
                 /\ \A t \in Queued' \cup Passed : t.pid = p => t.op = "online"
      <3>1. PICK r \in Records : r.pid = p
        BY <2>1 DEF Known
      <3>2. r \notin ToSet(infs)
        BY <1>7, <2>1, <3>1 DEF Known
      <3>3. QED
        BY <2>1, <3>1, <3>2 DEF GivesUp
    <2>2. QED
      BY <1>1, <1>4, <1>8, <1>9, <2>1 DEF TrackInv, Undisturbed
  <1>18. StartInv'
    <2>1. \A fd \in Fds : watch'[fd].kind = "timer" => watch'[fd] = watch[fd] /\ fd \notin F
      BY <1>11, WatchKinds
    <2>2. \A t \in Queued' : t.op = "boot" => t.slot \notin toStart' /\ t.pid = 0
      BY <1>1 DEF StartInv, Undisturbed
    <2>3. ASSUME NEW b \in Boot, NEW fd \in Fds, watch'[fd].kind = "timer", watch'[fd].slot = b
          PROVE  /\ b \notin toStart'
                 /\ \A t \in Queued' : t.op = "boot" => t.slot # b
                 /\ \A r \in Records' : r.slot # b
                 /\ \A g \in Fds : watch'[g].kind = "timer" /\ watch'[g].slot = b => g = fd
      <3>1. b # s
        BY <2>1, <2>3 DEF MayStart
      <3>2. watch[fd].kind = "timer" /\ watch[fd].slot = b
        BY <2>1, <2>3
      <3>3. /\ b \notin toStart
            /\ \A t \in Queued : t.op = "boot" => t.slot # b
            /\ \A r \in Records : r.slot # b
            /\ \A g \in Fds : watch[g].kind = "timer" /\ watch[g].slot = b => g = fd
        BY <1>1, <3>2 DEF StartInv
      <3>4. QED
        BY <1>5, <1>7, <1>8, <2>1, <3>1, <3>3 DEF Undisturbed
    <2>4. ASSUME NEW b \in Boot, NEW r \in Records', r.slot = b
          PROVE  /\ b \notin toStart'
                 /\ \A t \in Queued' : t.op = "boot" => t.slot # b
                 /\ \A q \in Records' : q.slot = b => q = r
      <3>1. CASE b = s
        BY <1>5, <1>7, <2>4, <3>1 DEF MayStart, Undisturbed
      <3>2. CASE b # s
        BY <1>1, <1>5, <1>7, <1>8, <2>4, <3>2 DEF StartInv, Undisturbed
      <3>3. QED
        BY <3>1, <3>2
    <2>5. QED
      BY <2>2, <2>3, <2>4 DEF StartInv
  <1>19. LiveReaderKeepsBit'
    <2>1. readerBit' = readerBit
      BY DEF Undisturbed
    <2>2. QED
      BY <1>1, <1>3, <1>4, <2>1 DEF LiveReaderKeepsBit, Running
  <1>20. QED
    BY <1>12, <1>13, <1>14, <1>15, <1>16, <1>17, <1>18, <1>19 DEF SupervisionInv, SetInv

\* createProcess: fork, or a retry on the lowest free descriptor, if there is one.
LEMMA CreateKeeps ==
    ASSUME SupervisionInv, NEW s \in Slots, NEW infs, NEW before, NEW after, Undisturbed,
           GivesUp(infs, before \cup after), MayStart(s, infs, before \cup after),
           CreateProcess(s, infs, before, after)
    PROVE  SupervisionInv'
  <1>1. TypeOK
    BY DEF SupervisionInv
  <1>2. PICK F : F = before \cup after
    OBVIOUS
  <1>3. GivesUp(infs, F) /\ MayStart(s, infs, F)
    BY <1>2
  <1>4. CASE Fork(s, infs, before, after)
    BY <1>2, <1>3, <1>4, ForkKeeps DEF Fork
  <1>5. CASE RetryLater(s, infs, before, after)
    <2>1. procs' = procs /\ infos' = infs /\ ready' = NoLongerReady(F)
      BY <1>2, <1>5 DEF RetryLater
    <2>2. Unready(F)
      BY <1>1, <2>1, NoLongerReadyFacts DEF Unready
    <2>3. /\ Free \in WatchType /\ Timer(s, TRUE) \in WatchType
          /\ \A fd \in Fds : watch[fd] \in WatchType
      <3>1. Free \in WatchType
        BY DEF WatchType
      <3>2. QED
        BY <1>1, <3>1, TimerTyped, ListTypes
    <2>4. CASE FreeFds(Closed(before)) = {}
      <3>1. watch' = Closed(F)
        BY <1>2, <1>5, <2>4 DEF RetryLater
      <3>2. Closes(F) /\ watch' \in [Fds -> WatchType]
        BY <2>3, <3>1 DEF Closed, Closes
      <3>3. QED
        BY <1>3, <2>1, <2>2, <3>2, GivesUpKeeps
    <2>5. CASE FreeFds(Closed(before)) # {}
      <3>1. PICK g : g = LowestFree(Closed(before))
        OBVIOUS
      <3>2. g \in FreeFds(Closed(before))
        <4>1. FreeFds(Closed(before)) \subseteq Nat
          BY FdsDiffer DEF FreeFds
        <4>2. \E i \in FreeFds(Closed(before)) : \A j \in FreeFds(Closed(before)) : i <= j
          BY <2>5, <4>1, Least
        <4>3. QED
          BY <3>1, <4>2, Zenon DEF LowestFree
      <3>3. g \in Fds /\ (g \in F \/ watch[g] = Free)
        BY <1>2, <3>2 DEF FreeFds, Closed
      <3>4. watch' = [Closed(F) EXCEPT ![g] = Timer(s, TRUE)]
        BY <1>2, <1>5, <2>5, <3>1 DEF RetryLater
      <3>5. Opens(g, s, F) /\ watch' \in [Fds -> WatchType]
        BY <2>3, <3>3, <3>4 DEF Closed, Opens
      <3>6. QED
        BY <1>3, <2>1, <2>2, <3>3, <3>5, GivesUpKeeps
    <2>6. QED
      BY <2>4, <2>5
  <1>6. QED
    BY <1>4, <1>5 DEF CreateProcess

LEMMA CreateSpends ==
    ASSUME TypeOK, NEW s, NEW infs, NEW before, NEW after, CreateProcess(s, infs, before, after)
    PROVE  left' \in [EventKinds -> Nat]
  <1>1. left \in [EventKinds -> Nat]
    BY DEF TypeOK
  <1>2. QED
    BY <1>1, SpendFacts DEF CreateProcess, Fork, EventKinds

LEMMA ForgetKeeps ==
    ASSUME SupervisionInv, NEW s \in Slots, NEW infs, NEW F, Undisturbed, GivesUp(infs, F),
           Forget(infs, F)
    PROVE  SupervisionInv'
  <1>1. TypeOK
    BY DEF SupervisionInv
  <1>2. Unready(F)
    BY <1>1, NoLongerReadyFacts DEF Unready, Forget
  <1>3. Closes(F) /\ watch' \in [Fds -> WatchType]
    <2>1. Free \in WatchType
      BY DEF WatchType
    <2>2. \A fd \in Fds : watch[fd] \in WatchType
      BY <1>1, ListTypes
    <2>3. QED
      BY <2>1, <2>2 DEF Forget, Closed, Closes
  <1>4. QED
    BY <1>2, <1>3, GivesUpKeeps DEF Forget

\* No record is given up, and no pidfd closed.
LEMMA GivesUpNone ==
    ASSUME SupervisionInv, NEW F, \A fd \in Fds \cap F : watch[fd].kind # "pidfd"
    PROVE  GivesUp(infos, F)
  <1>1. TypeOK /\ WatchInv
    BY DEF SupervisionInv, SetInv
  <1>2. infos \in Seq(InfoType) /\ \A r \in Records : r \in InfoType
    BY <1>1, ListTypes, SetTypes
  <1>3. \A r \in Records : r.fd # NoFd => r.fd \in Fds /\ watch[r.fd].kind = "pidfd"
    BY <1>1, <1>2, WatchKinds DEF WatchInv, InfoType
  <1>4. QED
    BY <1>1, <1>2, <1>3 DEF GivesUp, WatchInv, Records

LEMMA TaskDropped ==
    ASSUME SupervisionInv, NEW s \in Slots, Undisturbed, UNCHANGED <<procs, watch, ready, infos>>
    PROVE  SupervisionInv'
  <1>1. TypeOK
    BY DEF SupervisionInv
  <1>2. GivesUp(infos, {})
    BY GivesUpNone
  <1>3. Unready({}) /\ Closes({}) /\ watch' \in [Fds -> WatchType]
    BY <1>1, ListTypes DEF Unready, Closes
  <1>4. QED
    BY <1>2, <1>3, GivesUpKeeps

-----------------------------------------------------------------------------
(* The tasks of the ProcessManager worker. *)

LEMMA SameTask ==
    ASSUME NEW t \in PmTask, NEW u \in PmTask, t.op = u.op, t.slot = u.slot, t.pid = u.pid
    PROVE  t = u
  BY DEF PmTask, TaskType

LEMMA TaskTaken ==
    ASSUME SupervisionInv, queue # <<>>, queue' = Tail(queue), NEW t, t = Head(queue)
    PROVE  /\ t \in PmTask /\ t \in Queued /\ t \notin Passed /\ t.slot \in Slots
           /\ queue' \in Seq(PmTask) /\ IsInjective(queue') /\ Queued' = Queued \ {t}
           /\ \A u \in Queued' \cup Passed : u \in PmTask /\ u # t
  <1>1. TypeOK /\ TaskInv /\ SetInv
    BY DEF SupervisionInv, SetInv
  <1>2. queue \in Seq(PmTask) /\ IsInjective(queue)
    BY <1>1, ListTypes DEF TaskInv
  <1>3. /\ t \in PmTask /\ queue' \in Seq(PmTask)
        /\ ToSet(queue) = {t} \cup ToSet(queue')
        /\ IsInjective(queue') /\ t \notin ToSet(queue')
    BY <1>2, TailFacts
  <1>4. t \in Queued /\ Queued' = Queued \ {t}
    BY <1>3 DEF Queued
  <1>5. SmTask \subseteq PmTask /\ t.slot \in Slots
    BY <1>3 DEF SmTask, PmTask, TaskType
  <1>6. QED
    BY <1>1, <1>3, <1>4, <1>5, TasksTyped DEF TaskInv

LEMMA BootTaskKeeps ==
    ASSUME SupervisionInv, RunTask, NEW t, t = Head(queue), BootTask(t)
    PROVE  SupervisionInv'
  <1>1. TypeOK /\ StartInv
    BY DEF SupervisionInv, SetInv
  <1>2. /\ t \in PmTask /\ t \in Queued /\ t.slot \in Slots /\ t.op = "boot"
        /\ queue' \in Seq(PmTask) /\ IsInjective(queue') /\ Queued' = Queued \ {t}
        /\ \A u \in Queued' \cup Passed : u \in PmTask /\ u # t
    BY TaskTaken DEF RunTask, BootTask
  <1>3. left' \in [EventKinds -> Nat]
    BY <1>1, CreateSpends, OthersTyped DEF BootTask, Keep, OtherTypes
  <1>4. Undisturbed
    BY <1>1, <1>2, <1>3, ListTypes DEF Undisturbed, RunTask, BootTask, TypeOK
  <1>5. CASE t.slot \notin Boot
    BY <1>2, <1>4, <1>5, TaskDropped DEF BootTask, Keep
  <1>6. CASE t.slot \in Boot
    <2>1. CreateProcess(t.slot, infos, {}, {})
      BY <1>6 DEF BootTask
    <2>2. GivesUp(infos, {} \cup {})
      BY GivesUpNone
    <2>3. \A u \in Queued' : u.op = "boot" => u.slot # t.slot
      BY <1>1, <1>2, SameTask DEF StartInv
    <2>4. MayStart(t.slot, infos, {} \cup {})
      BY <1>1, <1>2, <1>6, <2>3 DEF MayStart, StartInv, Records
    <2>5. QED
      BY <1>2, <1>4, <2>1, <2>2, <2>4, CreateKeeps
  <1>7. QED
    BY <1>5, <1>6

LEMMA CrashTaskKeeps ==
    ASSUME SupervisionInv, RunTask, NEW t, t = Head(queue), CrashTask(t)
    PROVE  SupervisionInv'
  <1>1. /\ TypeOK /\ SetInv /\ SlotsAgree /\ WatchInv /\ TaskInv /\ TrackInv /\ StartInv
    BY DEF SupervisionInv, SetInv
  <1>2. /\ t \in PmTask /\ t \in Queued /\ t.slot \in Slots /\ t.op = "crash"
        /\ queue' \in Seq(PmTask) /\ IsInjective(queue') /\ Queued' = Queued \ {t}
        /\ \A u \in Queued' \cup Passed : u \in PmTask /\ u # t
    BY TaskTaken DEF RunTask, CrashTask
  <1>3. left' \in [EventKinds -> Nat]
    BY <1>1, CreateSpends, OthersTyped DEF CrashTask, Keep, OtherTypes
  <1>4. Undisturbed
    BY <1>1, <1>2, <1>3, ListTypes DEF Undisturbed, RunTask, CrashTask, TypeOK
  <1>5. CASE ~Recorded(t.pid)
    BY <1>2, <1>4, <1>5, TaskDropped DEF CrashTask, Keep
  <1>6. CASE Recorded(t.pid)
    <2>1. PICK k \in DOMAIN infos :
              /\ infos[k].pid = t.pid
              /\ \/ /\ infos[k].exe
                    /\ CreateProcess(infos[k].slot, Without(infos, {infos[k]}), {infos[k].fd}, {})
                 \/ /\ Forget(Without(infos, {infos[k]}), {infos[k].fd})
      BY <1>6 DEF CrashTask
    <2>2. PICK gone, rest : gone = infos[k] /\ rest = Without(infos, {gone})
      OBVIOUS
    <2>3. /\ gone \in Records /\ gone \in InfoType /\ gone.pid = t.pid /\ gone.slot \in Slots
      BY <1>1, <2>1, <2>2, TasksTyped DEF Records, ToSet, InfoType
    <2>4. rest \in Seq(InfoType) /\ ToSet(rest) = Records \ {gone} /\ IsInjective(rest)
      <3>1. infos \in Seq(InfoType) /\ IsInjective(infos)
        BY <1>1, ListTypes DEF WatchInv
      <3>2. QED
        BY <2>2, <3>1, WithoutFacts DEF Records
    <2>5. GivesUp(rest, {gone.fd})
      <3>1. \A r \in ToSet(rest) : r.fd # NoFd => r.fd # gone.fd
        <4>1. ASSUME NEW r \in Records, r.fd # NoFd, r.fd = gone.fd PROVE r = gone
          <5>1. Pidfd(r.pid) = Pidfd(gone.pid)
            BY <1>1, <2>3, <4>1 DEF WatchInv
          <5>2. r.pid = gone.pid
            BY <5>1, WatchKinds
          <5>3. QED
            BY <1>1, <2>3, <5>2 DEF WatchInv
        <4>2. QED
          BY <2>4, <4>1
      <3>2. \A fd \in Fds \ {gone.fd} :
                watch[fd].kind = "pidfd" => \E r \in ToSet(rest) : r.fd = fd
        BY <1>1, <2>4 DEF WatchInv
      <3>3. ASSUME procs[gone.pid].child
            PROVE  /\ procs[gone.pid].state = "gone"
                   /\ \A u \in Queued' \cup Passed : u.pid = gone.pid => u.op = "online"
        <4>1. gone.pid \in Handled /\ gone.pid \in Pid /\ t.slot = procs[gone.pid].slot
          BY <1>1, <1>2, <2>3 DEF TaskInv, SlotsAgree
        <4>2. ASSUME NEW u \in Queued' \cup Passed, u.pid = gone.pid PROVE u.op = "online"
          <5>1. u \in Queued \cup Passed /\ u \in PmTask /\ u # t
            BY <1>2
          <5>2. u.op \in {"boot", "reaped", "crash", "online"}
            BY <5>1 DEF PmTask, TaskType
          <5>3. u.op # "boot"
            <6>1. u.op = "boot" => u.pid = 0
              BY <1>1, <5>1, TasksTyped DEF StartInv, SmTask, TaskType
            <6>2. QED
              BY <1>1, <4>1, <4>2, <6>1, ListTypes
          <5>4. u.op # "reaped"
            BY <1>1, <4>1, <4>2, <5>1 DEF TaskInv
          <5>5. u.op # "crash"
            <6>1. u.op = "crash" => u.slot = t.slot
              BY <1>1, <4>1, <4>2, <5>1 DEF SlotsAgree
            <6>2. QED
              BY <1>2, <2>3, <4>2, <5>1, <6>1, SameTask
          <5>6. QED
            BY <5>2, <5>3, <5>4, <5>5
        <4>3. QED
          BY <1>1, <3>3, <4>1, <4>2 DEF TaskInv
      <3>4. \A r \in Records \ ToSet(rest) : r = gone
        BY <2>4
      <3>5. QED
        BY <2>4, <3>1, <3>2, <3>3, <3>4 DEF GivesUp
    <2>6. MayStart(gone.slot, rest, {gone.fd})
      BY <1>1, <1>2, <2>3, <2>4 DEF MayStart, StartInv
    <2>7. CASE Forget(rest, {gone.fd})
      BY <1>4, <2>3, <2>5, <2>7, ForgetKeeps
    <2>8. CASE CreateProcess(gone.slot, rest, {gone.fd}, {})
      <3>1. {gone.fd} \cup {} = {gone.fd}
        OBVIOUS
      <3>2. GivesUp(rest, {gone.fd} \cup {}) /\ MayStart(gone.slot, rest, {gone.fd} \cup {})
        BY <2>5, <2>6, <3>1
      <3>3. QED
        BY <1>4, <2>3, <2>8, <3>2, CreateKeeps
    <2>9. QED
      BY <2>1, <2>2, <2>7, <2>8
  <1>7. QED
    BY <1>5, <1>6

LEMMA TimerBatchKeeps ==
    ASSUME SupervisionInv, TimerBatch
    PROVE  SupervisionInv'
  <1>1. TypeOK /\ WatchInv /\ StartInv /\ TaskInv
    BY DEF SupervisionInv, SetInv
  <1>2. PICK fd : fd = Head(batch)
    OBVIOUS
  <1>3. /\ fd \in Fds /\ batch' \in Seq(AllFds) /\ watch[fd].kind = "timer"
        /\ CreateProcess(watch[fd].slot, infos, {}, {fd})
    <2>1. batch \in Seq(AllFds) /\ batch # <<>>
      BY <1>1, ListTypes DEF TimerBatch
    <2>2. Head(batch) \in AllFds /\ Tail(batch) \in Seq(AllFds)
      BY <2>1, TailFacts
    <2>3. QED
      BY <1>2, <2>2 DEF TimerBatch, AllFds
  <1>4. PICK s \in Slots : s = watch[fd].slot
    <2>1. PICK s \in Slots, b \in BOOLEAN : watch[fd] = Timer(s, b)
      BY <1>1, <1>3, WatchCases, WatchKinds
    <2>2. watch[fd].slot = s
      BY <2>1, WatchKinds
    <2>3. QED
      BY <2>2
  <1>5. left' \in [EventKinds -> Nat]
    BY <1>1, <1>3, CreateSpends
  <1>6. Queued' = Queued /\ Undisturbed
    BY <1>1, <1>3, <1>5, ListTypes DEF Undisturbed, TimerBatch, Queued, TypeOK, smVars, TaskInv
  <1>7. GivesUp(infos, {} \cup {fd})
    BY <1>3, GivesUpNone
  <1>8. MayStart(s, infos, {} \cup {fd})
    BY <1>1, <1>3, <1>4, <1>6 DEF MayStart, StartInv, Records
  <1>9. QED
    BY <1>3, <1>4, <1>6, <1>7, <1>8, CreateKeeps

\* A death is passed on: the callback of onPidfd and of the reaped task.
LEMMA PassFacts ==
    ASSUME TypeOK, SetInv, NEW p \in Pid, p \notin Handled, NEW s, s = procs[p].slot, NEW c,
           c = Task("crash", s, p), smQueue' = Append(smQueue, c), crashed' = Append(crashed, p)
    PROVE  /\ c \in SmTask /\ c \in PmTask /\ c.op = "crash" /\ c.pid = p /\ c.slot = s
           /\ c \notin Queued \cup Passed
           /\ smQueue' \in Seq(SmTask) /\ IsInjective(smQueue') /\ Passed' = Passed \cup {c}
           /\ crashed' \in Seq(Pid) /\ IsInjective(crashed') /\ Handled' = Handled \cup {p}
  <1>1. s \in Slots
    BY ListTypes DEF ProcessType
  <1>2. c \in SmTask /\ c \in PmTask /\ c.op = "crash" /\ c.pid = p /\ c.slot = s
    BY <1>1 DEF Task, SmTask, PmTask, TaskType
  <1>3. c \notin Queued \cup Passed
    BY <1>2 DEF SetInv, TaskInv
  <1>4. /\ smQueue \in Seq(SmTask) /\ crashed \in Seq(Pid)
        /\ IsInjective(smQueue) /\ IsInjective(crashed)
    BY ListTypes DEF SetInv, TaskInv
  <1>5. smQueue' \in Seq(SmTask) /\ IsInjective(smQueue') /\ Passed' = Passed \cup {c}
    BY <1>2, <1>3, <1>4, AppendFacts DEF Passed
  <1>6. crashed' \in Seq(Pid) /\ IsInjective(crashed') /\ Handled' = Handled \cup {p}
    BY <1>4, AppendFacts DEF Handled
  <1>7. QED
    BY <1>2, <1>3, <1>5, <1>6

LEMMA ReapedTaskKeeps ==
    ASSUME SupervisionInv, RunTask, NEW t, t = Head(queue), ReapedTask(t)
    PROVE  SupervisionInv'
  <1>1. /\ TypeOK /\ ReadyIsOpen /\ SetInv /\ LiveReaderKeepsBit
        /\ SlotsAgree /\ WatchInv /\ TaskInv /\ TrackInv /\ StartInv
    BY DEF SupervisionInv, SetInv
  <1>2. /\ t \in PmTask /\ t \in Queued /\ t.slot \in Slots /\ t.op = "reaped"
        /\ queue' \in Seq(PmTask) /\ IsInjective(queue') /\ Queued' = Queued \ {t}
        /\ \A u \in Queued' \cup Passed : u \in PmTask /\ u # t
    BY TaskTaken DEF RunTask, ReapedTask
  <1>3. UNCHANGED <<procs, watch, ready, infos, left, batch, toStart, syncFlag, readerBit, wpc>>
    BY DEF RunTask, ReapedTask, Keep
  <1>4. CASE ~Recorded(t.pid)
    <2>1. Undisturbed
      BY <1>1, <1>2, <1>3, <1>4, ListTypes DEF Undisturbed, ReapedTask, TypeOK
    <2>2. QED
      BY <1>2, <1>3, <2>1, TaskDropped
  <1>5. CASE Recorded(t.pid)
    <2>1. PICK p : p = t.pid
      OBVIOUS
    <2>2. /\ p \in Pid /\ t.slot = procs[p].slot /\ procs[p].child /\ procs[p].state = "gone"
          /\ p \notin Handled /\ Known(p)
      BY <1>1, <1>2, <1>5, <2>1, RecordedIsKnown DEF SlotsAgree, TaskInv
    <2>3. PICK c : c = Task("crash", t.slot, p)
      OBVIOUS
    <2>4. smQueue' = Append(smQueue, c) /\ crashed' = Append(crashed, p)
      BY <1>5, <2>1, <2>3 DEF ReapedTask
    <2>5. /\ c \in SmTask /\ c.op = "crash" /\ c.pid = p /\ c.slot = t.slot
          /\ c \notin Queued \cup Passed
          /\ smQueue' \in Seq(SmTask) /\ IsInjective(smQueue') /\ Passed' = Passed \cup {c}
          /\ crashed' \in Seq(Pid) /\ IsInjective(crashed') /\ Handled' = Handled \cup {p}
      BY <1>1, <2>2, <2>3, <2>4, PassFacts
    <2>6. Pid' = Pid /\ Records' = Records /\ \A q : Known(q)' <=> Known(q)
      BY <1>3 DEF Pid, Records, Known
    <2>7. TypeOK'
      BY <1>1, <1>2, <1>3, <2>5, <2>6, ListTypes, OthersTyped, TypedByParts DEF OtherTypes
    <2>8. ReadyIsOpen'
      BY <1>1, <1>3 DEF ReadyIsOpen
    <2>9. SlotsAgree'
      BY <1>1, <1>2, <1>3, <2>2, <2>5, <2>6 DEF SlotsAgree
    <2>10. WatchInv'
      BY <1>1, <1>3, <2>2, <2>5, <2>6 DEF WatchInv
    <2>11. TaskInv'
      <3>1. /\ IsInjective(queue') /\ IsInjective(smQueue') /\ Queued' \cap Passed' = {}
            /\ IsInjective(crashed')
        BY <1>1, <1>2, <2>5 DEF TaskInv
      <3>2. ASSUME NEW u \in Queued' \cup Passed'
            PROVE  /\ u.op = "reaped" =>
                         procs[u.pid].child /\ procs[u.pid].state = "gone" /\ u.pid \notin Handled'
                   /\ u.op = "crash" => u.pid \in Handled'
                   /\ u.op = "online" =>
                         /\ procs[u.pid].reported
                         /\ ~procs[u.pid].child => ~Known(u.pid) /\ u.pid \notin Handled'
        <4>1. CASE u = c
          BY <2>5, <4>1
        <4>2. CASE u \in Queued' \cup Passed
          <5>1. u \in Queued \cup Passed /\ u \in PmTask /\ u # t
            BY <1>2, <4>2
          <5>2. u.op = "reaped" => u.pid # p
            <6>1. u.op = "reaped" /\ u.pid = p => u.slot = t.slot
              BY <1>1, <2>2, <5>1 DEF SlotsAgree
            <6>2. QED
              BY <1>2, <2>1, <5>1, <6>1, SameTask
          <5>3. QED
            BY <1>1, <2>2, <2>5, <5>1, <5>2 DEF TaskInv
        <4>3. QED
          BY <2>5, <3>2, <4>1, <4>2
      <3>3. \A q \in Pid :
              /\ procs[q].child /\ q \in Handled' => procs[q].state = "gone"
              /\ ~procs[q].child /\ (Known(q) \/ q \in Handled') => procs[q].reported
        BY <1>1, <2>2, <2>5 DEF TaskInv
      <3>4. QED
        BY <1>3, <2>6, <3>1, <3>2, <3>3 DEF TaskInv
    <2>12. TrackInv'
      BY <1>1, <1>2, <1>3, <2>2, <2>5, <2>6 DEF TrackInv
    <2>13. StartInv'
      BY <1>1, <1>2, <1>3, <2>6 DEF StartInv
    <2>14. LiveReaderKeepsBit'
      BY <1>1, <1>3, <2>6 DEF LiveReaderKeepsBit, Running
    <2>15. QED
      BY <2>7, <2>8, <2>9, <2>10, <2>11, <2>12, <2>13, <2>14 DEF SupervisionInv, SetInv
  <1>6. QED
    BY <1>4, <1>5

\* onPidfd: the record of the descriptor is r, and n without the descriptor.
LEMMA PidfdBatchKeeps ==
    ASSUME SupervisionInv, PidfdBatch
    PROVE  SupervisionInv'
  <1>1. /\ TypeOK /\ ReadyIsOpen /\ SetInv /\ LiveReaderKeepsBit
        /\ SlotsAgree /\ WatchInv /\ TaskInv /\ TrackInv /\ StartInv
    BY DEF SupervisionInv, SetInv
  <1>2. PICK fd : fd = Head(batch)
    OBVIOUS
  <1>3. /\ fd \in Fds /\ batch' \in Seq(AllFds) /\ watch[fd].kind = "pidfd"
        /\ watch' = Closed({fd}) /\ ready' = NoLongerReady({fd})
        /\ UNCHANGED <<procs, queue, wpc, toStart, syncFlag, readerBit, left>>
    <2>1. batch \in Seq(AllFds) /\ batch # <<>>
      BY <1>1, ListTypes DEF PidfdBatch
    <2>2. Head(batch) \in AllFds /\ Tail(batch) \in Seq(AllFds)
      BY <2>1, TailFacts
    <2>3. QED
      BY <1>2, <2>2 DEF PidfdBatch, AllFds
  <1>4. PICK k \in DOMAIN infos :
            /\ infos[k].fd = fd
            /\ infos' = [infos EXCEPT ![k].fd = NoFd]
            /\ crashed' = Append(crashed, infos[k].pid)
            /\ smQueue' = Append(smQueue, Task("crash", infos[k].slot, infos[k].pid))
    BY <1>2 DEF PidfdBatch
  <1>5. PICK r, n, p : r = infos[k] /\ n = [r EXCEPT !.fd = NoFd] /\ p = r.pid
    OBVIOUS
  <1>6. infos \in Seq(InfoType) /\ IsInjective(infos) /\ r \in Records /\ r \in InfoType
    BY <1>1, <1>5, ListTypes, TasksTyped DEF WatchInv, Records, ToSet
  <1>7. /\ n \in InfoType /\ n.slot = r.slot /\ n.exe = r.exe /\ n.pid = p /\ n.fd = NoFd
        /\ r.fd = fd /\ r.pid = p /\ fd # NoFd
    BY <1>3, <1>4, <1>5, <1>6, FdsDiffer DEF InfoType, AllFds
  <1>8. /\ p \in Pid /\ watch[fd] = Pidfd(p) /\ ~procs[p].child /\ p \notin Handled
        /\ r.slot = procs[p].slot /\ Known(p)
        /\ \A q \in Records : q.pid = p \/ q.fd = fd => q = r
    <2>1. /\ watch[fd] = Pidfd(p) /\ ~procs[p].child /\ p \notin Handled
          /\ \A q \in Records : q.pid = p => q = r
      BY <1>1, <1>6, <1>7 DEF WatchInv
    <2>2. \A q \in Records : q.fd = fd => Pidfd(q.pid) = Pidfd(p)
      BY <1>1, <1>7, <2>1 DEF WatchInv
    <2>3. \A q \in Records : q.fd = fd => q.pid = p
      BY <2>2, WatchKinds
    <2>4. QED
      BY <1>1, <1>6, <1>7, <2>1, <2>3 DEF SlotsAgree, Known, InfoType
  <1>9. PICK c : c = Task("crash", r.slot, p)
    OBVIOUS
  <1>10. /\ c \in SmTask /\ c.op = "crash" /\ c.pid = p /\ c.slot = r.slot
         /\ c \notin Queued \cup Passed
         /\ smQueue' \in Seq(SmTask) /\ IsInjective(smQueue') /\ Passed' = Passed \cup {c}
         /\ crashed' \in Seq(Pid) /\ IsInjective(crashed') /\ Handled' = Handled \cup {p}
    <2>1. smQueue' = Append(smQueue, c) /\ crashed' = Append(crashed, p)
      BY <1>4, <1>5, <1>9
    <2>2. QED
      BY <1>1, <1>8, <1>9, <2>1, PassFacts
  <1>11. /\ infos' \in Seq(InfoType) /\ IsInjective(infos')
         /\ Records' = (Records \ {r}) \cup {n}
    <2>1. infos' = [infos EXCEPT ![k] = n]
      BY <1>4, <1>5
    <2>2. infos' \in Seq(InfoType) /\ DOMAIN infos' = DOMAIN infos /\ infos'[k] = n
      BY <1>6, <1>7, <2>1
    <2>3. \A j \in DOMAIN infos : j # k => infos'[j] = infos[j]
      BY <1>6, <2>1
    <2>4. \A j \in DOMAIN infos : infos[j] \in Records /\ (j # k => infos[j] # r)
      BY <1>5, <1>6 DEF IsInjective, Records, ToSet
    <2>5. n \notin Records
      BY <1>7, <1>8
    <2>6. IsInjective(infos')
      BY <1>6, <2>2, <2>3, <2>4, <2>5 DEF IsInjective
    <2>7. Records' = (Records \ {r}) \cup {n}
      <3>1. ASSUME NEW y \in Records' PROVE y \in (Records \ {r}) \cup {n}
        <4>1. PICK j \in DOMAIN infos : y = infos'[j]
          BY <2>2 DEF Records, ToSet
        <4>2. QED
          BY <2>2, <2>3, <2>4, <4>1
      <3>2. ASSUME NEW y \in Records, y # r PROVE y \in Records'
        <4>1. PICK j \in DOMAIN infos : y = infos[j]
          BY DEF Records, ToSet
        <4>2. y = infos'[j]
          BY <1>5, <2>3, <3>2, <4>1
        <4>3. QED
          BY <2>2, <4>2 DEF Records, ToSet
      <3>3. n \in Records'
        BY <2>2 DEF Records, ToSet
      <3>4. QED
        BY <3>1, <3>2, <3>3
    <2>8. QED
      BY <2>2, <2>6, <2>7
  <1>12. Pid' = Pid /\ Queued' = Queued /\ \A q : Known(q)' <=> Known(q)
    BY <1>3, <1>6, <1>7, <1>11 DEF Pid, Queued, Known
  <1>13. /\ watch'[fd] = Free /\ \A g \in Fds : g # fd => watch'[g] = watch[g]
         /\ watch' \in [Fds -> WatchType]
    <2>1. Free \in WatchType /\ \A g \in Fds : watch[g] \in WatchType
      <3>1. Free \in WatchType
        BY DEF WatchType
      <3>2. QED
        BY <1>1, <3>1, ListTypes
    <2>2. QED
      BY <1>3, <2>1 DEF Closed
  <1>14. /\ ready' \in Seq(AllFds) /\ IsInjective(ready') /\ ToSet(ready') = ToSet(ready) \ {fd}
    BY <1>1, <1>3, NoLongerReadyFacts
  <1>15. TypeOK'
    BY <1>1, <1>3, <1>10, <1>11, <1>12, <1>13, <1>14, ListTypes, OthersTyped, TypedByParts
    DEF OtherTypes
  <1>16. ReadyIsOpen'
    <2>1. ToSet(ready) \subseteq AllFds
      BY <1>1, ListTypes, MembersTyped
    <2>2. QED
      BY <1>1, <1>13, <1>14, <2>1 DEF ReadyIsOpen, AllFds
  <1>17. SlotsAgree'
    BY <1>1, <1>3, <1>7, <1>8, <1>10, <1>11, <1>12 DEF SlotsAgree
  <1>18. WatchInv'
    <2>1. \A g \in Fds : watch'[g].kind = "pidfd" => \E q \in Records' : q.fd = g
      <3>1. \A g \in Fds : watch'[g].kind = "pidfd" => g # fd /\ watch'[g] = watch[g]
        BY <1>13, WatchKinds
      <3>2. QED
        BY <1>1, <1>7, <1>11, <3>1 DEF WatchInv
    <2>2. \A q, u \in Records' : q.pid = u.pid => q = u
      BY <1>1, <1>7, <1>8, <1>11 DEF WatchInv
    <2>3. ASSUME NEW q \in Records', q.fd # NoFd
          PROVE  /\ watch'[q.fd] = Pidfd(q.pid)
                 /\ ~procs[q.pid].child /\ q.pid \notin Handled'
                 /\ \A u \in Records' : u.slot = q.slot /\ u.fd # NoFd => u = q
      <3>1. q \in Records /\ q # r /\ q.fd # fd /\ q.fd \in Fds /\ q.pid # p
        BY <1>1, <1>7, <1>8, <1>11, <2>3, TasksTyped DEF InfoType
      <3>2. QED
        BY <1>1, <1>7, <1>10, <1>11, <1>13, <2>3, <3>1 DEF WatchInv
    <2>4. QED
      BY <1>3, <1>11, <2>1, <2>2, <2>3 DEF WatchInv
  <1>19. TaskInv'
    <2>1. /\ IsInjective(queue') /\ IsInjective(smQueue') /\ Queued' \cap Passed' = {}
          /\ IsInjective(crashed')
      BY <1>1, <1>3, <1>10, <1>12 DEF TaskInv
    <2>2. ASSUME NEW u \in Queued' \cup Passed'
          PROVE  /\ u.op = "reaped" =>
                       procs[u.pid].child /\ procs[u.pid].state = "gone" /\ u.pid \notin Handled'
                 /\ u.op = "crash" => u.pid \in Handled'
                 /\ u.op = "online" =>
                       /\ procs[u.pid].reported
                       /\ ~procs[u.pid].child => ~Known(u.pid) /\ u.pid \notin Handled'
      <3>1. CASE u = c
        BY <1>10, <3>1
      <3>2. CASE u \in Queued \cup Passed
        BY <1>1, <1>8, <1>10, <3>2 DEF TaskInv
      <3>3. QED
        BY <1>10, <1>12, <3>1, <3>2
    <2>3. \A q \in Pid :
            /\ procs[q].child /\ q \in Handled' => procs[q].state = "gone"
            /\ ~procs[q].child /\ (Known(q) \/ q \in Handled') => procs[q].reported
      BY <1>1, <1>8, <1>10 DEF TaskInv
    <2>4. QED
      BY <1>3, <1>12, <2>1, <2>2, <2>3 DEF TaskInv
  <1>20. TrackInv'
    BY <1>1, <1>3, <1>8, <1>10, <1>12 DEF TrackInv
  <1>21. StartInv'
    <2>1. \A g \in Fds : watch'[g].kind = "timer" => watch'[g] = watch[g]
      BY <1>13, WatchKinds
    <2>2. \A t \in Queued' : t.op = "boot" => t.slot \notin toStart' /\ t.pid = 0
      BY <1>1, <1>3, <1>12 DEF StartInv
    <2>3. ASSUME NEW b \in Boot, NEW g \in Fds, watch'[g].kind = "timer", watch'[g].slot = b
          PROVE  /\ b \notin toStart'
                 /\ \A t \in Queued' : t.op = "boot" => t.slot # b
                 /\ \A q \in Records' : q.slot # b
                 /\ \A h \in Fds : watch'[h].kind = "timer" /\ watch'[h].slot = b => h = g
      <3>1. watch[g].kind = "timer" /\ watch[g].slot = b
        BY <2>1, <2>3
      <3>2. /\ b \notin toStart
            /\ \A t \in Queued : t.op = "boot" => t.slot # b
            /\ \A q \in Records : q.slot # b
            /\ \A h \in Fds : watch[h].kind = "timer" /\ watch[h].slot = b => h = g
        BY <1>1, <3>1 DEF StartInv
      <3>3. QED
        BY <1>3, <1>6, <1>7, <1>11, <1>12, <2>1, <3>2
    <2>4. ASSUME NEW b \in Boot, NEW q \in Records', q.slot = b
          PROVE  /\ b \notin toStart'
                 /\ \A t \in Queued' : t.op = "boot" => t.slot # b
                 /\ \A u \in Records' : u.slot = b => u = q
      <3>1. PICK old \in Records : old.slot = b /\ (old = q \/ (old = r /\ q = n))
        BY <1>6, <1>7, <1>11, <2>4
      <3>2. /\ b \notin toStart
            /\ \A t \in Queued : t.op = "boot" => t.slot # b
            /\ \A u \in Records : u.slot = b => u = old
        BY <1>1, <3>1 DEF StartInv
      <3>3. QED
        BY <1>3, <1>6, <1>7, <1>11, <1>12, <2>4, <3>1, <3>2
    <2>5. QED
      BY <2>2, <2>3, <2>4 DEF StartInv
  <1>22. LiveReaderKeepsBit'
    BY <1>1, <1>3, <1>12 DEF LiveReaderKeepsBit, Running
  <1>23. QED
    BY <1>15, <1>16, <1>17, <1>18, <1>19, <1>20, <1>21, <1>22 DEF SupervisionInv, SetInv

\* LowestFree is a free descriptor, where there is one.
LEMMA LowestFreeFacts ==
    ASSUME NEW F, FreeFds(Closed(F)) # {}, NEW g, g = LowestFree(Closed(F))
    PROVE  g \in Fds /\ (g \in F \/ watch[g] = Free)
  <1>1. FreeFds(Closed(F)) \subseteq Nat
    BY FdsDiffer DEF FreeFds
  <1>2. \E i \in FreeFds(Closed(F)) : \A j \in FreeFds(Closed(F)) : i <= j
    BY <1>1, Least
  <1>3. g \in FreeFds(Closed(F))
    BY <1>2, Zenon DEF LowestFree
  <1>4. QED
    BY <1>3 DEF FreeFds, Closed

\* What Replace gives up: records, descriptors; and what it leaves.
Replaced(t) == {r \in Records : r.slot = t.slot}
OldFds(t) == {r.fd : r \in Replaced(t)}
RestOf(t) == Without(infos, Replaced(t))

\* A report that is acted on: the slot is none of the daemon's, its records are
\* watched, so they are no children, and neither is the process that reports.
LEMMA ReplacedFacts ==
    ASSUME SupervisionInv, RunTask, NEW t, t = Head(queue), t.op = "online",
           t.slot \notin Boot, \A r \in Records : r.slot = t.slot => r.fd # NoFd
    PROVE  /\ GivesUp(RestOf(t), OldFds(t)) /\ ToSet(RestOf(t)) = Records \ Replaced(t)
           /\ t.pid \in Pid
           /\ (procs[t.pid].state = "gone" => ~procs[t.pid].child) =>
                /\ ~procs[t.pid].child /\ procs[t.pid].reported
                /\ ~Known(t.pid) /\ t.pid \notin Handled
  <1>1. /\ TypeOK /\ SetInv /\ SlotsAgree /\ WatchInv /\ TaskInv /\ TrackInv
    BY DEF SupervisionInv, SetInv
  <1> DEFINE replaced == Replaced(t)
             old == OldFds(t)
             rest == RestOf(t)
  <1>2. t \in Queued /\ t.pid \in Pid /\ t.slot = procs[t.pid].slot
    <2>1. t \in Queued
      BY TaskTaken DEF RunTask
    <2>2. QED
      BY <1>1, <2>1 DEF SlotsAgree
  <1>3. rest \in Seq(InfoType) /\ ToSet(rest) = Records \ replaced /\ IsInjective(rest)
    <2>1. infos \in Seq(InfoType) /\ IsInjective(infos)
      BY <1>1, ListTypes DEF WatchInv
    <2>2. QED
      BY <2>1, WithoutFacts DEF Records, RestOf
  <1>4. ASSUME NEW r \in ToSet(rest), r.fd # NoFd, r.fd \in old PROVE FALSE
    <2>1. PICK q \in replaced : q.fd = r.fd
      BY <1>4 DEF OldFds
    <2>2. q \in Records /\ r \in Records /\ q # r
      BY <1>3, <2>1 DEF Replaced
    <2>3. Pidfd(q.pid) = Pidfd(r.pid)
      BY <1>1, <1>4, <2>1, <2>2 DEF WatchInv
    <2>4. q.pid = r.pid
      BY <2>3, WatchKinds
    <2>5. QED
      BY <1>1, <2>2, <2>4 DEF WatchInv
  <1>5. \A fd \in Fds \ old : watch[fd].kind = "pidfd" => \E r \in ToSet(rest) : r.fd = fd
    <2>1. ASSUME NEW fd \in Fds \ old, watch[fd].kind = "pidfd"
          PROVE  \E r \in ToSet(rest) : r.fd = fd
      <3>1. PICK r \in Records : r.fd = fd
        BY <1>1, <2>1 DEF WatchInv
      <3>2. r \notin replaced
        BY <2>1, <3>1 DEF OldFds
      <3>3. QED
        BY <1>3, <3>1, <3>2
    <2>2. QED
      BY <2>1
  <1>6. \A r \in Records \ ToSet(rest) : ~procs[r.pid].child
    BY <1>1, <1>3 DEF WatchInv, Replaced
  <1>7. GivesUp(rest, old)
    BY <1>3, <1>4, <1>5, <1>6 DEF GivesUp
  <1>8. ASSUME procs[t.pid].state = "gone" => ~procs[t.pid].child
        PROVE  /\ ~procs[t.pid].child /\ procs[t.pid].reported
               /\ ~Known(t.pid) /\ t.pid \notin Handled
    <2>1. ~procs[t.pid].child
      <3>1. SUFFICES ASSUME procs[t.pid].child PROVE FALSE
        OBVIOUS
      <3>2. Known(t.pid)
        BY <1>1, <1>2, <1>8, <3>1 DEF TrackInv
      <3>3. PICK r \in Records : r.pid = t.pid
        BY <3>2 DEF Known
      <3>4. r.slot = t.slot
        BY <1>1, <1>2, <3>3 DEF SlotsAgree
      <3>5. QED
        BY <1>1, <3>1, <3>3, <3>4 DEF WatchInv
    <2>2. QED
      BY <1>1, <1>2, <2>1 DEF TaskInv
  <1>9. QED
    BY <1>2, <1>3, <1>7, <1>8

\* The record of the slot is replaced by a watched one on the process that reports.
LEMMA WatchedKeeps ==
    ASSUME SupervisionInv, Undisturbed, UNCHANGED procs,
           NEW t \in Queued, t \in PmTask, t.op = "online", Queued' = Queued \ {t},
           t.slot \notin Boot, \A u \in Queued' \cup Passed : u \in PmTask /\ u # t,
           \A r \in Records : r.slot = t.slot => r.fd # NoFd,
           NEW replaced, replaced = {r \in Records : r.slot = t.slot},
           NEW old, NEW rest, GivesUp(rest, old), ToSet(rest) = Records \ replaced,
           t.pid \in Pid, ~procs[t.pid].child, procs[t.pid].reported,
           ~Known(t.pid), t.pid \notin Handled,
           FreeFds(Closed(old)) # {}, NEW fd, fd = LowestFree(Closed(old)),
           infos' = Append(rest, Info(t.slot, t.slot \in Restart, t.pid, fd)),
           watch' = [Closed(old) EXCEPT ![fd] = Pidfd(t.pid)],
           ready' = NoLongerReady(old) \/ ready' = Append(NoLongerReady(old), fd)
    PROVE  SupervisionInv'
  <1>1. /\ TypeOK /\ ReadyIsOpen /\ SetInv /\ LiveReaderKeepsBit
        /\ SlotsAgree /\ WatchInv /\ TaskInv /\ TrackInv /\ StartInv
    BY DEF SupervisionInv, SetInv
  <1>2. fd \in Fds /\ (fd \in old \/ watch[fd] = Free) /\ fd # NoFd
    BY LowestFreeFacts, FdsDiffer DEF AllFds
  <1>3. PICK i, p : i = Info(t.slot, t.slot \in Restart, p, fd) /\ p = t.pid
    OBVIOUS
  <1>4. /\ i \in InfoType /\ i.slot = t.slot /\ i.pid = p /\ i.fd = fd
        /\ t.slot = procs[p].slot /\ i \notin Records /\ p \in Pid
    <2>1. t.slot \in Slots /\ t.slot = procs[p].slot
      BY <1>1, <1>3 DEF SlotsAgree, PmTask, TaskType
    <2>2. i \in InfoType /\ i.slot = t.slot /\ i.pid = p /\ i.fd = fd
      BY <1>2, <1>3, <2>1 DEF Info, InfoType
    <2>3. QED
      BY <1>3, <2>1, <2>2 DEF Known
  <1>5. /\ infos' \in Seq(InfoType) /\ IsInjective(infos')
        /\ Records' = (Records \ replaced) \cup {i}
    <2>1. rest \in Seq(InfoType) /\ IsInjective(rest) /\ i \notin ToSet(rest)
      BY <1>4 DEF GivesUp
    <2>2. infos' = Append(rest, i)
      BY <1>3
    <2>3. QED
      BY <1>4, <2>1, <2>2, AppendFacts DEF Records
  <1>6. /\ Pid' = Pid /\ Passed' = Passed /\ Handled' = Handled
        /\ \A q : Known(q)' => Known(q) \/ q = p
    BY <1>4, <1>5 DEF Undisturbed, Pid, Passed, Handled, Known
  <1>7. /\ watch'[fd] = Pidfd(p)
        /\ \A g \in Fds : g # fd => watch'[g] = IF g \in old THEN Free ELSE watch[g]
        /\ watch' \in [Fds -> WatchType]
    <2>1. Free \in WatchType /\ Pidfd(p) \in WatchType /\ \A g \in Fds : watch[g] \in WatchType
      <3>1. Free \in WatchType /\ Pidfd(p) \in WatchType
        BY <1>4 DEF WatchType
      <3>2. QED
        BY <1>1, <3>1, ListTypes
    <2>2. Closed(old) \in [Fds -> WatchType]
      BY <2>1 DEF Closed
    <2>3. watch' \in [Fds -> WatchType] /\ watch'[fd] = Pidfd(p)
      BY <1>2, <1>3, <2>1, <2>2
    <2>4. \A g \in Fds : g # fd => watch'[g] = Closed(old)[g]
      BY <2>2
    <2>5. QED
      BY <2>3, <2>4 DEF Closed
  <1>8. /\ ready' \in Seq(AllFds) /\ IsInjective(ready')
        /\ ToSet(ready') \subseteq (ToSet(ready) \ old) \cup {fd}
    <2>1. PICK l : l = NoLongerReady(old)
      OBVIOUS
    <2>2. l \in Seq(AllFds) /\ IsInjective(l) /\ ToSet(l) = ToSet(ready) \ old
      BY <1>1, <2>1, NoLongerReadyFacts
    <2>3. fd \notin ToSet(l) /\ fd \in AllFds
      BY <1>1, <1>2, <2>2, FdsDiffer DEF ReadyIsOpen, AllFds
    <2>4. /\ Append(l, fd) \in Seq(AllFds) /\ IsInjective(Append(l, fd))
          /\ ToSet(Append(l, fd)) = ToSet(l) \cup {fd}
      BY <2>2, <2>3, AppendFacts
    <2>5. CASE ready' = l
      BY <2>2, <2>5
    <2>6. CASE ready' = Append(l, fd)
      BY <2>2, <2>4, <2>6
    <2>7. QED
      BY <2>1, <2>5, <2>6
  <1>9. TypeOK'
    BY <1>1, <1>5, <1>6, <1>7, <1>8, ListTypes, OthersTyped, TypedByParts
    DEF OtherTypes, Undisturbed
  <1>10. ReadyIsOpen'
    <2>1. ToSet(ready) \subseteq AllFds
      BY <1>1, ListTypes, MembersTyped
    <2>2. QED
      BY <1>1, <1>7, <1>8, <2>1, WatchKinds DEF ReadyIsOpen, AllFds
  <1>11. SlotsAgree'
    BY <1>1, <1>4, <1>5, <1>6 DEF SlotsAgree
  <1>12. WatchInv'
    <2>1. ASSUME NEW g \in Fds, watch'[g].kind = "pidfd"
          PROVE  \E r \in Records' : r.fd = g
      <3>1. CASE g = fd
        BY <1>4, <1>5, <3>1
      <3>2. CASE g # fd
        <4>1. g \notin old /\ watch[g].kind = "pidfd"
          BY <1>7, <2>1, <3>2, WatchKinds
        <4>2. PICK r \in ToSet(rest) : r.fd = g
          BY <4>1 DEF GivesUp
        <4>3. QED
          BY <1>5, <4>2
      <3>3. QED
        BY <3>1, <3>2
    <2>2. \A r, q \in Records' : r.pid = q.pid => r = q
      BY <1>1, <1>3, <1>4, <1>5 DEF WatchInv, Known
    <2>3. ASSUME NEW r \in Records', r.fd # NoFd
          PROVE  /\ watch'[r.fd] = Pidfd(r.pid)
                 /\ ~procs[r.pid].child /\ r.pid \notin Handled
                 /\ \A q \in Records' : q.slot = r.slot /\ q.fd # NoFd => q = r
      <3>1. CASE r = i
        BY <1>3, <1>4, <1>5, <1>7, <3>1
      <3>2. CASE r \in Records \ replaced
        <4>1. /\ watch[r.fd] = Pidfd(r.pid)
              /\ ~procs[r.pid].child /\ r.pid \notin Handled
              /\ \A q \in Records : q.slot = r.slot /\ q.fd # NoFd => q = r
          BY <1>1, <2>3, <3>2 DEF WatchInv
        <4>2. r.fd \notin old /\ r.fd \in Fds /\ r.slot # t.slot
          BY <1>1, <2>3, <3>2, TasksTyped DEF GivesUp, InfoType
        <4>3. r.fd # fd
          BY <1>2, <4>1, <4>2, WatchKinds
        <4>4. QED
          BY <1>4, <1>5, <1>7, <4>1, <4>2, <4>3
      <3>3. QED
        BY <1>5, <3>1, <3>2
    <2>4. QED
      BY <1>5, <1>6, <2>1, <2>2, <2>3 DEF WatchInv
  <1>13. TaskInv'
    <2>1. /\ IsInjective(queue') /\ IsInjective(smQueue') /\ Queued' \cap Passed' = {}
          /\ IsInjective(crashed')
      BY <1>1, <1>6 DEF TaskInv, Undisturbed
    <2>2. ASSUME NEW u \in Queued' \cup Passed, u.op = "online", u.pid = p PROVE FALSE
      <3>1. u \in Queued \cup Passed /\ u \in PmTask /\ u # t
        BY <2>2
      <3>2. u.slot = t.slot
        BY <1>1, <1>4, <2>2, <3>1 DEF SlotsAgree
      <3>3. QED
        BY <1>3, <2>2, <3>1, <3>2, SameTask
    <2>3. ASSUME NEW u \in Queued' \cup Passed
          PROVE  /\ u.op = "reaped" =>
                       procs[u.pid].child /\ procs[u.pid].state = "gone" /\ u.pid \notin Handled
                 /\ u.op = "crash" => u.pid \in Handled
                 /\ u.op = "online" =>
                       /\ procs[u.pid].reported
                       /\ ~procs[u.pid].child => ~Known(u.pid)' /\ u.pid \notin Handled
      <3>1. u \in Queued \cup Passed /\ (u.op = "online" => u.pid # p)
        BY <2>2
      <3>2. QED
        BY <1>1, <1>6, <3>1 DEF TaskInv
    <2>4. \A q \in Pid :
            /\ procs[q].child /\ q \in Handled => procs[q].state = "gone"
            /\ ~procs[q].child /\ (Known(q)' \/ q \in Handled) => procs[q].reported
      BY <1>1, <1>3, <1>6 DEF TaskInv
    <2>5. QED
      BY <1>6, <2>1, <2>3, <2>4 DEF TaskInv
  <1>14. TrackInv'
    <2>1. ASSUME NEW q \in Pid, procs[q].child, Known(q) PROVE Known(q)'
      <3>1. PICK r \in Records : r.pid = q
        BY <2>1 DEF Known
      <3>2. CASE r \in replaced
        <4>1. r.fd # NoFd
          BY <3>2
        <4>2. QED
          BY <1>1, <2>1, <3>1, <4>1 DEF WatchInv
      <3>3. CASE r \notin replaced
        BY <1>5, <3>1, <3>3 DEF Known
      <3>4. QED
        BY <3>2, <3>3
    <2>2. QED
      BY <1>1, <1>6, <2>1 DEF TrackInv
  <1>15. StartInv'
    <2>1. \A g \in Fds : watch'[g].kind = "timer" => watch'[g] = watch[g]
      BY <1>7, WatchKinds
    <2>2. \A b \in Boot : \A r \in Records' : r.slot = b => r \in Records
      BY <1>4, <1>5
    <2>3. toStart' = toStart
      BY DEF Undisturbed
    <2>4. ASSUME NEW b \in Boot, NEW g \in Fds, watch'[g].kind = "timer", watch'[g].slot = b
          PROVE  /\ b \notin toStart
                 /\ \A u \in Queued' : u.op = "boot" => u.slot # b
                 /\ \A q \in Records' : q.slot # b
                 /\ \A h \in Fds : watch'[h].kind = "timer" /\ watch'[h].slot = b => h = g
      <3>1. watch[g].kind = "timer" /\ watch[g].slot = b
        BY <2>1, <2>4
      <3>2. /\ b \notin toStart
            /\ \A u \in Queued : u.op = "boot" => u.slot # b
            /\ \A q \in Records : q.slot # b
            /\ \A h \in Fds : watch[h].kind = "timer" /\ watch[h].slot = b => h = g
        BY <1>1, <3>1 DEF StartInv
      <3>3. QED
        BY <2>1, <2>2, <3>2
    <2>5. \A b \in Boot : \A r \in Records' : r.slot = b =>
                /\ b \notin toStart
                /\ \A u \in Queued' : u.op = "boot" => u.slot # b
                /\ \A q \in Records' : q.slot = b => q = r
      BY <1>1, <2>2 DEF StartInv
    <2>6. \A u \in Queued' : u.op = "boot" => u.slot \notin toStart /\ u.pid = 0
      BY <1>1 DEF StartInv
    <2>7. QED
      BY <2>3, <2>4, <2>5, <2>6 DEF StartInv
  <1>16. LiveReaderKeepsBit'
    BY <1>1, <1>6 DEF LiveReaderKeepsBit, Running, Undisturbed
  <1>17. QED
    BY <1>9, <1>10, <1>11, <1>12, <1>13, <1>14, <1>15, <1>16 DEF SupervisionInv, SetInv

LEMMA OnlineTaskKeeps ==
    ASSUME SupervisionInv, RunTask, NEW t, t = Head(queue), OnlineTask(t)
    PROVE  SupervisionInv'
  <1>1. /\ TypeOK /\ ReadyIsOpen /\ SetInv /\ LiveReaderKeepsBit
        /\ SlotsAgree /\ WatchInv /\ TaskInv /\ TrackInv /\ StartInv
    BY DEF SupervisionInv, SetInv
  <1>2. /\ t \in PmTask /\ t \in Queued /\ t.slot \in Slots /\ t.op = "online"
        /\ queue' \in Seq(PmTask) /\ IsInjective(queue') /\ Queued' = Queued \ {t}
        /\ \A u \in Queued' \cup Passed : u \in PmTask /\ u # t
    BY TaskTaken DEF RunTask, OnlineTask
  <1>3. Undisturbed
    BY <1>1, <1>2, ListTypes DEF Undisturbed, RunTask, OnlineTask, Keep, TypeOK
  <1>4. CASE Keep
    BY <1>2, <1>3, <1>4, TaskDropped DEF Keep
  <1>5. CASE t.slot \notin Boot /\ Replace(t) /\ \A k \in DOMAIN infos :
                infos[k].slot = t.slot => infos[k].fd # NoFd
    <2>1. \A r \in Records : r.slot = t.slot => r.fd # NoFd
      BY <1>5 DEF Records, ToSet
    <2>2. PICK replaced, old, rest :
              replaced = Replaced(t) /\ old = OldFds(t) /\ rest = RestOf(t)
      OBVIOUS
    <2>3. replaced = {r \in Records : r.slot = t.slot}
      BY <2>2 DEF Replaced
    <2>4. /\ GivesUp(rest, old) /\ ToSet(rest) = Records \ replaced /\ t.pid \in Pid
          /\ (procs[t.pid].state = "gone" => ~procs[t.pid].child) =>
               /\ ~procs[t.pid].child /\ procs[t.pid].reported
               /\ ~Known(t.pid) /\ t.pid \notin Handled
      BY <1>2, <1>5, <2>1, <2>2, ReplacedFacts
    <2>5. \/ /\ procs[t.pid].state = "gone" => ~procs[t.pid].child
             /\ FreeFds(Closed(old)) # {}
             /\ infos' = Append(rest, Info(t.slot, t.slot \in Restart, t.pid,
                                            LowestFree(Closed(old))))
             /\ watch' = [Closed(old) EXCEPT ![LowestFree(Closed(old))] = Pidfd(t.pid)]
             /\ \/ ready' = NoLongerReady(old)
                \/ ready' = Append(NoLongerReady(old), LowestFree(Closed(old)))
             /\ UNCHANGED procs
          \/ Forget(rest, old)
      BY <1>5, <2>2 DEF Replace, Replaced, OldFds, RestOf, Records
    <2>6. CASE Forget(rest, old)
      BY <1>2, <1>3, <2>4, <2>6, ForgetKeeps
    <2>7. ASSUME procs[t.pid].state = "gone" => ~procs[t.pid].child,
                 FreeFds(Closed(old)) # {}, NEW fd, fd = LowestFree(Closed(old)),
                 infos' = Append(rest, Info(t.slot, t.slot \in Restart, t.pid, fd)),
                 watch' = [Closed(old) EXCEPT ![fd] = Pidfd(t.pid)],
                 \/ ready' = NoLongerReady(old)
                 \/ ready' = Append(NoLongerReady(old), fd),
                 UNCHANGED procs
          PROVE  SupervisionInv'
      BY <1>1, <1>2, <1>3, <1>5, <2>1, <2>3, <2>4, <2>7, WatchedKeeps
    <2>8. QED
      BY <2>5, <2>6, <2>7
  <1>6. QED
    BY <1>4, <1>5 DEF OnlineTask

-----------------------------------------------------------------------------
(* The invariant holds, and with it what the runs check. *)

LEMMA StepKeeps == SupervisionInv /\ [Next]_vars => SupervisionInv'
  <1> SUFFICES ASSUME SupervisionInv, [Next]_vars PROVE SupervisionInv'
    OBVIOUS
  <1>1. ASSUME NEW s \in Slots, UserStarts(s) \/ StartFixed(s) \/ SetSync(s)
        PROVE  SupervisionInv'
    BY <1>1, UserStartsKeeps, StartFixedKeeps, SetSyncKeeps
  <1>2. ASSUME NEW p \in Pid, Attach(p) \/ Report(p) \/ Exit(p) \/ Waitpid(p)
        PROVE  SupervisionInv'
    BY <1>2, AttachKeeps, ReportKeeps, ExitKeeps, WaitpidKeeps
  <1>3. CASE ShmTask
    BY <1>3, ShmTaskKeeps
  <1>4. CASE RunTask
    BY <1>4, BootTaskKeeps, ReapedTaskKeeps, CrashTaskKeeps, OnlineTaskKeeps DEF RunTask
  <1>5. CASE Worker
    BY <1>4, <1>5, PollKeeps, LoopKeeps, TimerBatchKeeps, PidfdBatchKeeps DEF Worker
  <1>6. ASSUME NEW fd \in Fds, TimerExpires(fd) PROVE SupervisionInv'
    BY <1>6, TimerExpiresKeeps
  <1>7. CASE UNCHANGED vars
    <2>1. TypeOK
      BY DEF SupervisionInv
    <2>2. UNCHANGED <<osVars, pmVars, smVars, syncFlag, readerBit, crashed, left>>
      BY <1>7 DEF vars
    <2>3. OtherTypes'
      BY <2>1, <2>2, OthersTyped DEF OtherTypes, pmVars, smVars
    <2>4. QED
      BY <2>1, <2>2, <2>3, ListTypes, QuietKeeps DEF osVars, pmVars, smVars
  <1>8. QED
    BY <1>1, <1>2, <1>3, <1>5, <1>6, <1>7 DEF Next

LEMMA SupervisionInvHolds == Spec => []SupervisionInv
  BY InitHolds, StepKeeps, PTL DEF Spec

\* Any slots, descriptors and number of events, descriptors used up included.
THEOREM SupervisionTypeCorrect == Spec => []TypeOK
  <1>1. SupervisionInv => TypeOK
    BY DEF SupervisionInv
  <1>2. QED
    BY <1>1, SupervisionInvHolds, PTL

\* unwatchPidfd and watchPidfd keep m_process_infos and epoll in step: no pidfd leaks,
\* none is used after close, none stays with a record that is gone.
THEOREM WatchesFollowRecords == Spec => []WatchesMatchRecords
  <1>1. SupervisionInv => WatchesMatchRecords
    <2> SUFFICES ASSUME SupervisionInv PROVE WatchesMatchRecords
      OBVIOUS
    <2>1. TypeOK /\ WatchInv
      BY DEF SupervisionInv, SetInv
    <2>2. \A k \in DOMAIN infos : infos[k] \in Records
      BY DEF Records, ToSet
    <2>3. \A j, k \in DOMAIN infos : infos[j] = infos[k] => j = k
      BY <2>1 DEF WatchInv, IsInjective
    <2>4. \A fd \in Fds : watch[fd].kind = "pidfd" => \E k \in DOMAIN infos : infos[k].fd = fd
      BY <2>1 DEF WatchInv, Records, ToSet
    <2>5. QED
      BY <2>1, <2>2, <2>3, <2>4 DEF WatchInv, WatchesMatchRecords
  <1>2. QED
    BY <1>1, SupervisionInvHolds, PTL

\* createProcess records the child before any other task of the worker, and a record
\* is given up only by the crash task: no death of a child is taken for a stranger's.
THEOREM NoChildIsMissed == Spec => []ChildrenAreTracked
  <1>1. SupervisionInv => ChildrenAreTracked
    <2> SUFFICES ASSUME SupervisionInv PROVE ChildrenAreTracked
      OBVIOUS
    <2>1. TypeOK /\ TrackInv
      BY DEF SupervisionInv, SetInv
    <2>2. queue \in Seq(PmTask) /\ smQueue \in Seq(PmTask)
      <3>1. queue \in Seq(PmTask) /\ smQueue \in Seq(SmTask)
        BY <2>1, ListTypes
      <3>2. SmTask \subseteq PmTask
        BY DEF SmTask, PmTask, TaskType
      <3>3. QED
        BY <3>1, <3>2, SeqGrows
    <2>3. ToSet(queue \o smQueue) = Queued \cup Passed
      BY <2>2, ConcatFacts DEF Queued, Passed
    <2>4. QED
      BY <2>1, <2>3, RecordedIsKnown DEF ChildrenAreTracked, TrackInv
  <1>2. QED
    BY <1>1, SupervisionInvHolds, PTL

\* waitpid reports children, pidfds everyone else, and a record that was reported is
\* no longer watched: no death is handled twice.
THEOREM DeathsAreHandledOnce == Spec => []CrashHandledOnce
  <1>1. SupervisionInv => CrashHandledOnce
    BY DEF SupervisionInv, SetInv, TaskInv, CrashHandledOnce, IsInjective
  <1>2. QED
    BY <1>1, SupervisionInvHolds, PTL

\* In a slot the daemon boots, ShmManager::handleProcessCrash drops reader 0 before
\* ProcessManager starts the next process, so it is never the new one's reader.  In
\* a slot the user restarts by hand it may be, and the theorem does not speak of it.
THEOREM LiveReaderIsKept == Spec => []LiveReaderKeepsBit
  <1>1. SupervisionInv => LiveReaderKeepsBit
    BY DEF SupervisionInv
  <1>2. QED
    BY <1>1, SupervisionInvHolds, PTL
=============================================================================
