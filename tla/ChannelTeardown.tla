--------------------------- MODULE ChannelTeardown ---------------------------
(***************************************************************************)
(* Taking one dynamic segment down while its threads are in it: the daemon *)
(* (free_reader_slot, delete_shm), and in each member process the worker   *)
(* that handles RELEASE (ReceiveWork::stop, releaseShm), the ReceiveWork   *)
(* thread of a receiver and a thread that sends.  One action touches the   *)
(* shared memory once; the ring itself is left to StreamRing.              *)
(***************************************************************************)
EXTENDS Integers, FiniteSets

CONSTANTS
    Procs,      \* processes that have the segment open
    Readers,    \* those that are receivers; a reader's index is its process
    Senders,    \* those in which a thread sends
    Kinds,      \* kinds of release asked for: "leave", "force"
    MaxSends,   \* bound: messages each of them sends
    MaxTries    \* calls of send for one message: kSendMaxRetry

ASSUME ReadersAssumption == Readers \subseteq Procs
ASSUME SendersAssumption == Senders \subseteq Procs
ASSUME KindsAssumption == Kinds \subseteq {"leave", "force"}
ASSUME MaxSendsAssumption == MaxSends \in Nat
ASSUME MaxTriesAssumption == MaxTries \in Nat \ {0}

SendBit == "send"   \* BIT0 of m_flag
RecvBit == "recv"   \* BIT1 of m_flag

VARIABLES
    \* the segment
    mask, flag, sem,
    \* the daemon: handler position, the process whose request it handles (a set),
    \* how it was asked, members; the processes told to release
    dpc, leaver, dkind, members, told,
    \* per process: worker, in m_shm_infos, mapped, m_sending_count
    wpc, known, mapped, sending,
    \* per receiver: its thread and m_running
    rpc, running,
    \* per process: a sending thread, the messages it began to send, calls for this one
    spc, sends, tries

segVars == <<mask, flag, sem>>
daemonVars == <<dpc, leaver, dkind, members, told>>
workerVars == <<wpc, known, mapped>>
recvVars == <<rpc, running>>
sendVars == <<spc, sends, tries, sending>>
vars == <<segVars, daemonVars, workerVars, recvVars, sendVars>>

Init ==
    /\ mask = Readers
    /\ flag = {SendBit, RecvBit}
    /\ sem = [r \in Readers |-> 0]
    /\ dpc = "idle" /\ leaver = {} /\ dkind = "leave"
    /\ members = Procs
    /\ told = {}
    /\ wpc = [p \in Procs |-> "idle"]
    /\ known = [p \in Procs |-> TRUE]
    /\ mapped = [p \in Procs |-> TRUE]
    /\ sending = [p \in Procs |-> 0]
    /\ rpc = [r \in Readers |-> "loop"]
    /\ running = [r \in Readers |-> TRUE]
    /\ spc = [p \in Procs |-> "idle"]
    /\ sends = [p \in Procs |-> 0]
    /\ tries = [p \in Procs |-> 0]

PostAll(S) == sem' = [r \in Readers |-> IF r \in S THEN sem[r] + 1 ELSE sem[r]]

-----------------------------------------------------------------------------
(* The ReceiveWork thread: ReceiveMessage calls recv while it is running. *)

RecvGo(r, from, to) == rpc[r] = from /\ rpc' = [rpc EXCEPT ![r] = to]

\* isRunning, then valid().
RecvLoop(r) ==
    /\ \/ running[r] /\ mapped[r] /\ RecvGo(r, "loop", "enter")
       \/ ~running[r] /\ RecvGo(r, "loop", "exited")
    /\ UNCHANGED <<segVars, daemonVars, workerVars, running, sendVars>>

\* The first test of BIT1: without it recv returns 0 at once.
RecvEnter(r) ==
    /\ \/ RecvBit \in flag /\ RecvGo(r, "enter", "wait")
       \/ RecvBit \notin flag /\ RecvGo(r, "enter", "loop")
    /\ UNCHANGED <<segVars, daemonVars, workerVars, running, sendVars>>

RecvWait(r) ==
    /\ sem[r] > 0
    /\ RecvGo(r, "wait", "read")
    /\ sem' = [sem EXCEPT ![r] = @ - 1]
    /\ UNCHANGED <<mask, flag, daemonVars, workerVars, running, sendVars>>

\* The second test of BIT1, and what there is to read.
RecvRead(r) ==
    /\ RecvGo(r, "read", "loop")
    /\ UNCHANGED <<segVars, daemonVars, workerVars, running, sendVars>>

Recv(r) == RecvLoop(r) \/ RecvEnter(r) \/ RecvWait(r) \/ RecvRead(r)

-----------------------------------------------------------------------------
(* A thread that sends. *)

SendGo(p, from, to) == spc[p] = from /\ spc' = [spc EXCEPT ![p] = to]

\* A call of send has failed: ShmManager::send makes another, up to kSendMaxRetry
\* of them, without looking the channel up again.
SendFails(p, from) ==
    \/ tries[p] < MaxTries /\ SendGo(p, from, "valid") /\ tries' = [tries EXCEPT ![p] = @ + 1]
    \/ tries[p] >= MaxTries /\ SendGo(p, from, "idle") /\ UNCHANGED tries

\* ShmManager::send finds the channel and tests valid().
SendLook(p) ==
    /\ sends[p] < MaxSends
    /\ known[p] /\ mapped[p]
    /\ SendGo(p, "idle", "valid")
    /\ sends' = [sends EXCEPT ![p] = @ + 1]
    /\ tries' = [tries EXCEPT ![p] = 1]
    /\ UNCHANGED <<segVars, daemonVars, workerVars, recvVars, sending>>

\* StreamShmCreator::send tests valid() again.
SendValid(p) ==
    /\ \/ mapped[p] /\ SendGo(p, "valid", "test") /\ UNCHANGED tries
       \/ ~mapped[p] /\ SendFails(p, "valid")
    /\ UNCHANGED <<segVars, daemonVars, workerVars, recvVars, sends, sending>>

\* Mutant of SendTest: a refused send leaves the way a finished one does.
SendTestUncounted(p) ==
    /\ \/ SendBit \in flag /\ SendGo(p, "test", "count")
       \/ SendBit \notin flag /\ SendGo(p, "test", "full")
    /\ UNCHANGED <<segVars, daemonVars, workerVars, recvVars, sends, tries, sending>>

\* send_impl reads BIT0 of m_flag.
SendTest(p) ==
    /\ \/ SendBit \in flag /\ SendGo(p, "test", "count") /\ UNCHANGED tries
       \/ SendBit \notin flag /\ SendFails(p, "test")
    /\ UNCHANGED <<segVars, daemonVars, workerVars, recvVars, sends, sending>>

SendCount(p) ==
    /\ SendGo(p, "count", "write")
    /\ sending' = [sending EXCEPT ![p] = @ + 1]
    /\ UNCHANGED <<segVars, daemonVars, workerVars, recvVars, sends, tries>>

\* The message is written and the readers of the mask posted, or there is no
\* room for it.
SendWrite(p) ==
    /\ \/ SendGo(p, "write", "done") /\ PostAll(mask)
       \/ SendGo(p, "write", "full") /\ UNCHANGED sem
    /\ UNCHANGED <<mask, flag, daemonVars, workerVars, recvVars, sends, tries, sending>>

\* The send is no longer counted.
SendDone(p) ==
    /\ \/ SendGo(p, "done", "idle") /\ UNCHANGED tries
       \/ SendFails(p, "full")
    /\ sending' = [sending EXCEPT ![p] = @ - 1]
    /\ UNCHANGED <<segVars, daemonVars, workerVars, recvVars, sends>>

Send(p) == SendValid(p) \/ SendTest(p) \/ SendCount(p) \/ SendWrite(p) \/ SendDone(p)

-----------------------------------------------------------------------------
(* The daemon: handleDaemon_ReleaseShm. *)

DaemonGo(from, to) == dpc = from /\ dpc' = to

\* A request to release: the member leaves the registry, its bit is cleared.
DaemonFree(p, kind) ==
    /\ p \in members
    /\ DaemonGo("idle", "post")
    /\ leaver' = {p} /\ dkind' = kind
    /\ members' = members \ {p}
    /\ mask' = mask \ {p}
    /\ UNCHANGED <<flag, sem, told, workerVars, recvVars, sendVars>>

\* Its semaphore is posted, it is told, and without force the others stay.
DaemonPost ==
    /\ dpc = "post"
    /\ PostAll(leaver)
    /\ told' = told \cup leaver
    /\ \/ dkind = "leave" /\ members # {} /\ dpc' = "idle"
       \/ dkind = "force" /\ dpc' = "disable"
       \/ members = {} /\ dpc' = "disable"
    /\ UNCHANGED <<mask, flag, leaver, dkind, members, workerVars, recvVars, sendVars>>

\* releaseShm and delete_shm: m_flag is cleared ...
DaemonDisable ==
    /\ DaemonGo("disable", "postAll")
    /\ flag' = {}
    /\ UNCHANGED <<mask, sem, leaver, dkind, members, told, workerVars, recvVars, sendVars>>

\* Mutant of DaemonPostAll: the readers still registered are posted.
DaemonPostMask ==
    /\ DaemonGo("postAll", "deleted")
    /\ PostAll(mask)
    /\ told' = told \cup members
    /\ members' = {}
    /\ UNCHANGED <<mask, flag, leaver, dkind, workerVars, recvVars, sendVars>>

\* ... every semaphore posted, the name unlinked, and the members told.
DaemonPostAll ==
    /\ DaemonGo("postAll", "deleted")
    /\ PostAll(Readers)
    /\ told' = told \cup members
    /\ members' = {}
    /\ UNCHANGED <<mask, flag, leaver, dkind, workerVars, recvVars, sendVars>>

Daemon == DaemonPost \/ DaemonDisable \/ DaemonPostAll

-----------------------------------------------------------------------------
(* The worker of a process: handleProcess_ReleaseShm. *)

WorkerGo(p, from, to) == wpc[p] = from /\ wpc' = [wpc EXCEPT ![p] = to]

\* The ReceiveWork, if there is one, is told to stop.
StopBegins(p) ==
    /\ p \in told
    /\ \/ /\ p \in Readers
          /\ WorkerGo(p, "idle", "clear")
          /\ running' = [running EXCEPT ![p] = FALSE]
       \/ p \notin Readers /\ WorkerGo(p, "idle", "forget") /\ UNCHANGED running
    /\ UNCHANGED <<segVars, daemonVars, known, mapped, rpc, sendVars>>

\* wakeup_recv clears BIT1 ...
WakeupClear(p) ==
    /\ WorkerGo(p, "clear", "wake")
    /\ flag' = flag \ {RecvBit}
    /\ UNCHANGED <<mask, sem, daemonVars, known, mapped, recvVars, sendVars>>

\* ... and posts the readers of the mask.
WakeupPost(p) ==
    /\ WorkerGo(p, "wake", "join")
    /\ PostAll(mask)
    /\ UNCHANGED <<mask, flag, daemonVars, known, mapped, recvVars, sendVars>>

\* Mutant of Join: the thread is not waited for.
JoinNot(p) ==
    /\ WorkerGo(p, "join", "forget")
    /\ UNCHANGED <<segVars, daemonVars, known, mapped, recvVars, sendVars>>

Join(p) ==
    /\ WorkerGo(p, "join", "forget")
    /\ rpc[p] = "exited"
    /\ UNCHANGED <<segVars, daemonVars, known, mapped, recvVars, sendVars>>

\* removeShmInfo.
Forget(p) ==
    /\ WorkerGo(p, "forget", "release")
    /\ known' = [known EXCEPT ![p] = FALSE]
    /\ UNCHANGED <<segVars, daemonVars, mapped, recvVars, sendVars>>

\* releaseShm reads get_sending_count; a second later again while it is not 0.
ReleaseChecks(p) ==
    /\ sending[p] = 0
    /\ WorkerGo(p, "release", "close")
    /\ UNCHANGED <<segVars, daemonVars, known, mapped, recvVars, sendVars>>

\* Close: munmap.
Unmap(p) ==
    /\ WorkerGo(p, "close", "closed")
    /\ mapped' = [mapped EXCEPT ![p] = FALSE]
    /\ UNCHANGED <<segVars, daemonVars, known, recvVars, sendVars>>

Worker(p) ==
    \/ StopBegins(p) \/ WakeupClear(p) \/ WakeupPost(p) \/ Join(p)
    \/ Forget(p) \/ ReleaseChecks(p) \/ Unmap(p)

Next ==
    \/ \E p \in Procs, kind \in Kinds : DaemonFree(p, kind)
    \/ DaemonPost \/ DaemonDisable \/ DaemonPostAll
    \/ \E p \in Procs :
          \/ StopBegins(p) \/ WakeupClear(p) \/ WakeupPost(p) \/ Join(p)
          \/ Forget(p) \/ ReleaseChecks(p) \/ Unmap(p)
    \/ \E p \in Senders :
          \/ SendLook(p) \/ SendValid(p) \/ SendTest(p) \/ SendCount(p)
          \/ SendWrite(p) \/ SendDone(p)
    \/ \E r \in Readers : RecvLoop(r) \/ RecvEnter(r) \/ RecvWait(r) \/ RecvRead(r)

Spec == Init /\ [][Next]_vars

\* Every thread runs; nobody has to ask for a release or to send.
FairSpec ==
    /\ Spec
    /\ WF_vars(Daemon)
    /\ \A p \in Procs : WF_vars(Worker(p)) /\ WF_vars(Send(p))
    /\ \A r \in Readers : WF_vars(Recv(r))

-----------------------------------------------------------------------------

SegType ==
    /\ mask \subseteq Readers
    /\ flag \subseteq {SendBit, RecvBit}
    /\ sem \in [Readers -> Nat]

DaemonType ==
    /\ dpc \in {"idle", "post", "disable", "postAll", "deleted"}
    /\ leaver \subseteq Procs /\ dkind \in {"leave", "force"}
    /\ members \subseteq Procs /\ told \subseteq Procs

WorkerType ==
    /\ wpc \in [Procs -> {"idle", "clear", "wake", "join", "forget", "release", "close", "closed"}]
    /\ known \in [Procs -> BOOLEAN] /\ mapped \in [Procs -> BOOLEAN]

RecvType ==
    /\ rpc \in [Readers -> {"loop", "enter", "wait", "read", "exited"}]
    /\ running \in [Readers -> BOOLEAN]

SendType ==
    /\ spc \in [Procs -> {"idle", "valid", "test", "count", "write", "done", "full"}]
    /\ sends \in [Procs -> Nat] /\ tries \in [Procs -> Nat]
    /\ sending \in [Procs -> Nat]

\* The shape of the variables; m_sending_count does not wrap below zero.
TypeOK == SegType /\ DaemonType /\ WorkerType /\ RecvType /\ SendType

\* Where the next step of a thread reads or writes the segment.
RecvInSegment(r) == rpc[r] \in {"enter", "wait", "read"}
SendInSegment(p) == spc[p] \in {"test", "write"}

\* A process never unmaps the segment under its receiving thread.
ReceiverInMappedSegment == \A r \in Readers : RecvInSegment(r) => mapped[r]

\* "Local shared memory is released after sending and receiving are disabled; while
\* there is a send, try again a second later" (ShmManager.h:200): a process does not
\* unmap the segment under a thread that sends.
SenderInMappedSegment == \A p \in Procs : SendInSegment(p) => mapped[p]

\* Once the daemon has deleted the segment, a receiver that went to sleep before
\* has a token to wake up on, however many leave, stop or send at the same time.
SleeperHasToken == dpc = "deleted" => \A r \in Readers : rpc[r] = "wait" => sem[r] > 0

\* A deleted segment is unmapped by every process in the end: each stop returns,
\* each sender finishes.
DeletedIsUnmapped == dpc = "deleted" ~> \A p \in Procs : ~mapped[p]

\* "Clear the receive bit and wake up a sem_wait blocked in recv"
\* (StreamShmCreator.h:296): a stop that has called wakeup_recv returns.
StopReturns == \A p \in Readers : wpc[p] = "join" ~> wpc[p] # "join"
=============================================================================
