---------------------------- MODULE InboxOpening ----------------------------
(***************************************************************************)
(* How the processes find each other: the daemon creates the inbox of      *)
(* every process and the process-sync segment, the others open the inboxes *)
(* and report to it (ShmManager::initShm, openStreamShmRetry and what it   *)
(* calls, StreamShmCreator::Open and create_shm, ShmCreator,               *)
(* ProcessManager::initProcessSyncShm).  Any process may die at any point  *)
(* and start again; the segments stay, with their names.                   *)
(*                                                                         *)
(* A process and its inbox have the same name.  The worker of a process    *)
(* does one thing after the other: all retries wait 1000 ms, so their      *)
(* timers expire in the order they were set, after initShm has ended.      *)
(* shm_open, fstat and mmap of an existing name are one action, and so are *)
(* ftruncate and mmap of a new one.  What is in a ring besides the reports *)
(* is left to StreamRing, what the daemon does with a report to            *)
(* ProcessManager.                                                         *)
(***************************************************************************)
EXTENDS Naturals, Sequences

CONSTANTS
    Daemon, Procs,        \* the names in kProcesses
    Boot,                 \* the processes with m_boot
    Order,                \* the names in the order of kProcesses
    MaxDeaths, MaxFails   \* bounds: deaths of processes, failed system calls

ASSUME NamesAssumption ==
    Daemon \notin Procs /\ Boot \subseteq Procs /\ "report" \notin Procs \cup {Daemon}
ASSUME BoundsAssumption == MaxDeaths \in Nat /\ MaxFails \in Nat

Names == Procs \cup {Daemon}

\* kProcesses lists every name once.
ASSUME OrderAssumption ==
    /\ Order \in Seq(Names)
    /\ \A n \in Names : \E k \in 1 .. Len(Order) : Order[k] = n
    /\ \A i, k \in 1 .. Len(Order) : Order[i] = Order[k] => i = k

VARIABLES
    seg,            \* the segment behind a name: size 0, size set, m_flag set
    sync,           \* the process-sync segment, which has no m_flag
    daemonBit,      \* bit 0 of m_reader_flag in the daemon's inbox
    up,             \* which processes run
    hnd,            \* hnd[p][n]: the StreamShmCreator of p for the inbox n
    todo,           \* what initShm has not come to yet, and then the timers
    work,           \* the ReceiveWork of the own inbox exists
    heard,          \* the report of a process
    started,        \* m_fixed_processes_started
    syncHnd,        \* m_process_sync_shm_creator
    left            \* what is left of the bounds

memVars == <<seg, sync, daemonBit>>
smVars == <<hnd, todo, work, heard, started>>
vars == <<memVars, smVars, up, syncHnd, left>>

Stage == {"absent", "empty", "sized", "ready"}
Handle == {"closed", "created", "mapped", "stale", "open"}

Init ==
    /\ seg = [n \in Names |-> "absent"]
    /\ sync = "absent"
    /\ daemonBit = FALSE
    /\ up = [p \in Names |-> FALSE]
    /\ hnd = [p \in Names |-> [n \in Names |-> "closed"]]
    /\ todo = [p \in Names |-> Order]
    /\ work = [p \in Names |-> FALSE]
    /\ heard = [p \in Procs |-> "unsent"]
    /\ started = FALSE
    /\ syncHnd = "closed"
    /\ left = [deaths |-> MaxDeaths, fails |-> MaxFails]

-----------------------------------------------------------------------------
(* After an Open *)

Valid(h) == h \in {"mapped", "stale", "open"}

\* Whether send gets the report into the daemon's inbox: this process has it
\* open, and it has a reader.
CanReport(hs) == Valid(hs[Daemon]) /\ daemonBit

\* Mutant of AllInboxesValid: one inbox is enough.
SomeInboxValid(hs) == \E n \in Procs : Valid(hs[n])

\* tryStartFixedProcesses looks at every inbox but the daemon's own.
AllInboxesValid(hs) == \A n \in Procs : Valid(hs[n])

\* Mutant of SendOnline: a report that cannot be sent is forgotten.
SendOnce(p, hs, q) ==
    /\ todo' = [todo EXCEPT ![p] = q]
    /\ heard' = IF CanReport(hs) THEN [heard EXCEPT ![p] = "queued"] ELSE heard

\* sendProcessOnline; q is the rest of the work p has to do.
SendOnline(p, hs, q) ==
    \/ /\ CanReport(hs)
       /\ heard' = [heard EXCEPT ![p] = "queued"]
       /\ todo' = [todo EXCEPT ![p] = q]
    \/ /\ ~CanReport(hs)
       /\ todo' = [todo EXCEPT ![p] = Append(q, "report")]
       /\ UNCHANGED heard

\* The rest of openStreamShmRetry.  The owner of the inbox takes reader 0 if
\* it is free, starts receiving and reports; the daemon looks whether the
\* others can be started.  createReceiveWork cannot fail on a valid segment.
Opened(p, n) ==
    LET hs == [hnd[p] EXCEPT ![n] = "open"]
    IN  /\ hnd' = [hnd EXCEPT ![p] = hs]
        /\ work' = [work EXCEPT ![p] = @ \/ n = p]
        /\ daemonBit' = (daemonBit \/ (n = p /\ p = Daemon))
        /\ IF n = p /\ p # Daemon THEN SendOnline(p, hs, Tail(todo[p]))
           ELSE todo' = [todo EXCEPT ![p] = Tail(@)] /\ UNCHANGED heard
        /\ started' = (started \/ (p = Daemon /\ AllInboxesValid(hs)))

\* Mutant of OpenFails: the segment is left mapped, without Close.
OpenFailsUnclosed(p, n) ==
    /\ todo' = [todo EXCEPT ![p] = Append(Tail(@), n)]
    /\ UNCHANGED <<hnd, work, heard, started>>

\* Open returned false: Close, and a timer.
OpenFails(p, n) ==
    /\ hnd' = [hnd EXCEPT ![p][n] = "closed"]
    /\ todo' = [todo EXCEPT ![p] = Append(Tail(@), n)]
    /\ UNCHANGED <<work, heard, started>>

-----------------------------------------------------------------------------
(* Open, by the worker of p, of the name n that is next.  A timer is only    *)
(* set after Close (TypeOK), so openStreamShmRetry never finds n valid.      *)

IsNext(p, n) == up[p] /\ todo[p] # <<>> /\ n = Head(todo[p])

\* Open(true) of the daemon on a new name: shm_open with O_EXCL succeeds.
CreateName(n) ==
    /\ IsNext(Daemon, n)
    /\ hnd[Daemon][n] = "closed" /\ seg[n] = "absent"
    /\ seg' = [seg EXCEPT ![n] = "empty"]
    /\ hnd' = [hnd EXCEPT ![Daemon][n] = "created"]
    /\ UNCHANGED <<sync, daemonBit, up, todo, work, heard, started, syncHnd, left>>

\* Open of a name that exists, by the daemon or another process: a segment
\* that has a size is mapped.
MapInbox(p, n) ==
    /\ IsNext(p, n)
    /\ hnd[p][n] = "closed" /\ seg[n] \in {"sized", "ready"}
    /\ hnd' = [hnd EXCEPT ![p][n] = "mapped"]
    /\ UNCHANGED <<memVars, up, todo, work, heard, started, syncHnd, left>>

\* There is no such name, or its size is 0.
NoInbox(p, n) ==
    /\ IsNext(p, n)
    /\ hnd[p][n] = "closed"
    /\ seg[n] = "empty" \/ (seg[n] = "absent" /\ p # Daemon)
    /\ OpenFails(p, n)
    /\ UNCHANGED <<memVars, up, syncHnd, left>>

\* Mutant of FlagSet: create_shm(false) does not look at m_flag.
FlagIgnored(p, n) == hnd[p][n] = "mapped" /\ seg[n] \in {"sized", "ready"}

\* A mapping of a segment whose creation was undone reads an m_flag of 0.
FlagSet(p, n) == hnd[p][n] = "mapped" /\ seg[n] = "ready"

\* The test of m_flag at the end of create_shm(false).
CheckFlag(p, n) ==
    /\ IsNext(p, n)
    /\ hnd[p][n] \in {"mapped", "stale"}
    /\ \/ FlagSet(p, n) /\ Opened(p, n)
       \/ ~FlagSet(p, n) /\ OpenFails(p, n) /\ UNCHANGED daemonBit
    /\ UNCHANGED <<seg, sync, up, syncHnd, left>>

\* create_shm(true): ftruncate and mmap, then the header.
SizeInbox(n) ==
    /\ IsNext(Daemon, n)
    /\ hnd[Daemon][n] = "created" /\ seg[n] = "empty"
    /\ seg' = [seg EXCEPT ![n] = "sized"]
    /\ UNCHANGED <<sync, daemonBit, smVars, up, syncHnd, left>>

InitInbox(n) ==
    /\ IsNext(Daemon, n)
    /\ hnd[Daemon][n] = "created" /\ seg[n] = "sized"
    /\ seg' = [seg EXCEPT ![n] = "ready"]
    /\ Opened(Daemon, n)
    /\ UNCHANGED <<sync, up, syncHnd, left>>

\* ftruncate or, with the size set, mmap fails: Open closes and unlinks.
\* Whoever has mapped the segment keeps a segment without a name.
CreationFails(n) ==
    /\ IsNext(Daemon, n)
    /\ hnd[Daemon][n] = "created" /\ left.fails > 0
    /\ left' = [left EXCEPT !.fails = @ - 1]
    /\ seg' = [seg EXCEPT ![n] = "absent"]
    /\ hnd' = [p \in Names |-> [hnd[p] EXCEPT ![n] =
                  IF p = Daemon THEN "closed"
                  ELSE IF @ = "mapped" THEN "stale" ELSE @]]
    /\ todo' = [todo EXCEPT ![Daemon] = Append(Tail(@), n)]
    /\ UNCHANGED <<sync, daemonBit, up, work, heard, started, syncHnd>>

-----------------------------------------------------------------------------
(* Reports *)

\* The timer of sendProcessOnline.
ReportAgain(p) ==
    /\ IsNext(p, "report")
    /\ SendOnline(p, hnd[p], Tail(todo[p]))
    /\ UNCHANGED <<memVars, up, hnd, work, started, syncHnd, left>>

\* ReceiveWork, onReceiveMessage and handleDaemon_ProcessOnline.  A new daemon
\* goes on at the head its predecessor published (set_reader_index).
HearReport(p) ==
    /\ up[Daemon] /\ work[Daemon] /\ heard[p] = "queued"
    /\ heard' = [heard EXCEPT ![p] = "known"]
    /\ UNCHANGED <<memVars, up, hnd, todo, work, started, syncHnd, left>>

-----------------------------------------------------------------------------
(* The process-sync segment, in the daemon's ProcessManager *)

\* initProcessSyncShm: a new name is created, one that has a size is mapped;
\* one of size 0 is tried again by a timer, which changes nothing.
CreateSync ==
    /\ up[Daemon] /\ syncHnd = "closed" /\ sync = "absent"
    /\ sync' = "empty"
    /\ syncHnd' = "created"
    /\ UNCHANGED <<seg, daemonBit, smVars, up, left>>

MapSync ==
    /\ up[Daemon]
    /\ \/ syncHnd = "created"
       \/ syncHnd = "closed" /\ sync = "ready"
    /\ sync' = "ready"
    /\ syncHnd' = "open"
    /\ UNCHANGED <<seg, daemonBit, smVars, up, left>>

\* ftruncate or, with the size set, mmap fails: ShmCreator, unlike
\* StreamShmCreator, leaves the name.
SyncFails ==
    /\ up[Daemon] /\ syncHnd = "created" /\ left.fails > 0
    /\ left' = [left EXCEPT !.fails = @ - 1]
    /\ sync' \in {"empty", "ready"}
    /\ syncHnd' = "closed"
    /\ UNCHANGED <<seg, daemonBit, smVars, up>>

-----------------------------------------------------------------------------
(* Processes start and die *)

\* The user starts the daemon and the processes that are not booted, in any
\* order.  What a dead daemon booted is stopped before there is a new one.
UserStarts(p) ==
    /\ ~up[p] /\ p \notin Boot
    /\ p = Daemon => \A b \in Boot : ~up[b]
    /\ up' = [up EXCEPT ![p] = TRUE]
    /\ UNCHANGED <<memVars, smVars, syncHnd, left>>

\* createProcess has been posted by tryStartFixedProcesses, and
\* isAllowCreateProcess finds the sync segment, whose flags allow it.
MayBoot == up[Daemon] /\ started /\ syncHnd = "open"

BootStarts(p) ==
    /\ ~up[p] /\ MayBoot
    /\ up' = [up EXCEPT ![p] = TRUE]
    /\ UNCHANGED <<memVars, smVars, syncHnd, left>>

\* The process loses what it holds itself; a report the dead daemon has heard
\* is lost with it, one that is still in its inbox is not.
Dies(p) ==
    /\ up[p] /\ left.deaths > 0
    /\ left' = [left EXCEPT !.deaths = @ - 1]
    /\ up' = [up EXCEPT ![p] = FALSE]
    /\ hnd' = [hnd EXCEPT ![p] = [n \in Names |-> "closed"]]
    /\ todo' = [todo EXCEPT ![p] = Order]
    /\ work' = [work EXCEPT ![p] = FALSE]
    /\ heard' = [q \in Procs |->
                    CASE q = p -> "unsent"
                      [] p = Daemon /\ heard[q] = "known" -> "lost"
                      [] OTHER -> heard[q]]
    /\ started' = (started /\ p # Daemon)
    /\ syncHnd' = IF p = Daemon THEN "closed" ELSE syncHnd
    /\ UNCHANGED memVars

-----------------------------------------------------------------------------

Worker(p) ==
    \/ \E n \in Names : MapInbox(p, n) \/ NoInbox(p, n) \/ CheckFlag(p, n)
    \/ p = Daemon /\ \E n \in Names : CreateName(n) \/ SizeInbox(n) \/ InitInbox(n)
    \/ p # Daemon /\ ReportAgain(p)

Next ==
    \/ \E p \in Names : Worker(p)
    \/ \E n \in Names : CreationFails(n)
    \/ \E p \in Procs : HearReport(p)
    \/ CreateSync \/ MapSync \/ SyncFails
    \/ \E p \in Names : UserStarts(p) \/ Dies(p)
    \/ \E p \in Boot : BootStarts(p)

Spec == Init /\ [][Next]_vars

\* The workers run, timers expire and a process that may be booted is; nobody
\* is obliged to start the daemon or another process, or to die.
FairSpec ==
    /\ Spec
    /\ \A p \in Names : WF_vars(Worker(p))
    /\ \A p \in Procs : WF_vars(HearReport(p))
    /\ WF_vars(CreateSync \/ MapSync)
    /\ \A p \in Boot : WF_vars(BootStarts(p))

-----------------------------------------------------------------------------

\* The shape of the variables; a process is in one Open at a time, and a name
\* that waits for its timer is closed.
TypeOK ==
    /\ seg \in [Names -> Stage]
    /\ sync \in {"absent", "empty", "ready"}
    /\ daemonBit \in BOOLEAN
    /\ up \in [Names -> BOOLEAN]
    /\ hnd \in [Names -> [Names -> Handle]]
    /\ todo \in [Names -> Seq(Names \cup {"report"})]
    /\ \A p \in Names : \A k \in 2 .. Len(todo[p]) :
          todo[p][k] \in Names => hnd[p][todo[p][k]] = "closed"
    /\ work \in [Names -> BOOLEAN]
    /\ heard \in [Procs -> {"unsent", "queued", "known", "lost"}]
    /\ started \in BOOLEAN
    /\ syncHnd \in {"closed", "created", "open"}
    /\ left \in [deaths : 0 .. MaxDeaths, fails : 0 .. MaxFails]

\* An inbox that a process takes for open is initialised, whichever daemon
\* made it and whatever failed on the way, and it still has its name.
OpenedIsReady ==
    \A p, n \in Names : hnd[p][n] = "open" => seg[n] = "ready"

\* A process the daemon boots finds its own inbox and that of every other business
\* process at the first attempt, also from a daemon that started over after a death.
\* The daemon's own inbox may still be missing: tryStartFixedProcesses leaves it out
\* (ShmManager.cpp:237), and the process opens it when its timer expires.
BootFindsInboxes ==
    \A p \in Boot : up[p] => \A n \in Procs : seg[n] = "ready"

\* A daemon died after it had created the name and before the segment was
\* usable, or could not give the sync segment a size: nobody repairs that.
Stuck(n) == seg[n] \in {"empty", "sized"} /\ hnd[Daemon][n] # "created"
SyncStuck == sync = "empty" /\ syncHnd # "created"

\* If the daemon is up for good, every process that runs is heard of, or was
\* heard of by a daemon that died, in spite of inboxes that are not there yet;
\* and the boot processes get started.  Only a half-made name prevents it.
StartupCompletes ==
    <>[]up[Daemon] =>
        /\ \A p \in Procs :
              up[p] ~> \/ ~up[p] \/ heard[p] \in {"known", "lost"}
                       \/ Stuck(p) \/ Stuck(Daemon)
        /\ \A p \in Boot :
              []<>(up[p] \/ SyncStuck \/ \E n \in Procs : Stuck(n))
=============================================================================
