--------------------------- MODULE ChannelRegistry ---------------------------
(***************************************************************************)
(* One dynamic channel: the daemon's registry of its members and their     *)
(* reader indices, the segments behind its name, and what each business    *)
(* process keeps of it.  The ALLOCATE and RELEASE messages travel through  *)
(* the fixed inboxes, each a FIFO; a handler of the ShmManager worker is   *)
(* one action.  Contents of the channel are not modelled here.             *)
(*                                                                         *)
(* Segments are numbered in the order the daemon creates them: shm_unlink  *)
(* and a new shm_open give the name to another segment, while a process    *)
(* may still map the old one.                                              *)
(***************************************************************************)
EXTENDS Integers, SequencesExt

CONSTANTS
    Procs,          \* logic ids of the business processes
    Indices,        \* 0 .. MAX_READER_COUNT - 1
    UserRestarts,   \* a process may be started again before its crash is handled
    Limit           \* bound: how often each kind of event happens

EventKinds == {"request", "leave", "force", "crash", "lost"}

ASSUME ProcsAssumption == IsFiniteSet(Procs)
ASSUME IndicesAssumption == Indices \subseteq Nat /\ Indices # {}
ASSUME RestartsAssumption == UserRestarts \in BOOLEAN
ASSUME LimitAssumption == Limit \in [EventKinds -> Nat]

NoIndex == -1   \* 0xFF
NoShm == 0      \* the name is not in m_shm_infos
Unopened == -1  \* in m_shm_infos, Open failed, a timer tries again

VARIABLES
    \* the daemon: the segment of the channel, its members, the reader index of each
    cur, senders, slot,
    \* the segments: readers in m_reader_flag, BIT1 of m_flag, deleted or not, and
    \* (only observed) the indices two ReceiveWorks have received on at a time
    segs,
    \* FIFOs: the daemon's inbox, each process's inbox, posted crashes
    toDaemon, inbox, crashes,
    \* each process: running, in m_pidNameInfos, m_receive_handlers, m_shm_infos,
    \* m_reader_index, ReceiveWork, waiting for ever in its stop()
    up, info, handler, shm, index, work, stuck,
    spent

daemonVars == <<cur, senders, slot, segs>>
netVars == <<toDaemon, inbox, crashes>>
procVars == <<up, info, handler, shm, index, work, stuck>>
vars == <<daemonVars, netVars, procVars, spent>>

Segment == 1 .. Len(segs)
Receivers == {p \in Procs : slot[p] # NoIndex}
Members == senders \cup Receivers
NewSegment == [mask |-> {}, recv |-> TRUE, deleted |-> FALSE, shared |-> {}]

\* The processes whose ReceiveWork may be waiting for tokens of index i.
Waiting(g, i) == {p \in Procs : shm[p] = g /\ index[p] = i /\ (work[p] \/ stuck[p])}

Init ==
    /\ cur = NoShm
    /\ senders = {}
    /\ slot = [p \in Procs |-> NoIndex]
    /\ segs = <<>>
    /\ toDaemon = <<>>
    /\ inbox = [p \in Procs |-> <<>>]
    /\ crashes = <<>>
    /\ up = [p \in Procs |-> TRUE]
    /\ info = [p \in Procs |-> FALSE]
    /\ handler = [p \in Procs |-> FALSE]
    /\ shm = [p \in Procs |-> NoShm]
    /\ index = [p \in Procs |-> NoIndex]
    /\ work = [p \in Procs |-> FALSE]
    /\ stuck = [p \in Procs |-> FALSE]
    /\ spent = [k \in EventKinds |-> 0]

Spend(k, n) ==
    /\ spent[k] + n <= Limit[k]
    /\ spent' = [spent EXCEPT ![k] = @ + n]

-----------------------------------------------------------------------------
(* What any thread of a process calls. *)

\* RequestAllocateShm: refused once the channel is in m_shm_infos.
RequestAllocate(p, role) ==
    /\ up[p] /\ shm[p] = NoShm
    /\ Spend("request", 1)
    /\ handler' = [handler EXCEPT ![p] = @ \/ role = "receiver"]
    /\ toDaemon' = Append(toDaemon, [op |-> "allocate", from |-> p, role |-> role])
    /\ UNCHANGED <<daemonVars, inbox, crashes, up, info, shm, index, work, stuck>>

\* The daemon's inbox is full: a receiver's handler is taken away again, even if
\* an earlier request set it.
RequestNotSent(p) ==
    /\ up[p] /\ shm[p] = NoShm
    /\ Spend("lost", 1)
    /\ handler' = [handler EXCEPT ![p] = FALSE]
    /\ UNCHANGED <<daemonVars, netVars, up, info, shm, index, work, stuck>>

\* RequestReleaseShm: refused unless the channel is in m_shm_infos.
RequestRelease(p, how) ==
    /\ up[p] /\ shm[p] # NoShm
    /\ Spend(how, 1)
    /\ toDaemon' = Append(toDaemon, [op |-> "release", from |-> p, role |-> how])
    /\ UNCHANGED <<daemonVars, inbox, crashes, procVars>>

-----------------------------------------------------------------------------
(* The daemon. *)

\* Mutant of FreeIndex: one above the highest index given out.
NextIndex(mask) == IF mask = {} THEN 0 ELSE 1 + CHOOSE i \in mask : \A j \in mask : j <= i

\* The scan of alloc_reader_slot: the lowest bit that is not set.
FreeIndex(mask) ==
    CHOOSE i \in Indices \ mask : \A j \in Indices \ mask : i <= j

\* send to the inbox of each process in copies, that many times; a full inbox
\* loses the answer.
Answer(copies, m) ==
    \E lost \in SUBSET {p \in Procs : copies[p] > 0} :
        /\ Spend("lost", Cardinality(lost))
        /\ inbox' = [p \in Procs |->
                        IF p \in lost THEN inbox[p]
                        ELSE inbox[p] \o [k \in 1 .. copies[p] |-> m]]

Once(p) == [q \in Procs |-> IF q = p THEN 1 ELSE 0]

\* Mutant of AnswerAllocate: who is a member already is not answered.
AnswerFirst(p, role, i) ==
    IF p \in Members THEN UNCHANGED <<inbox, spent>>
    ELSE Answer(Once(p), [op |-> "allocate", role |-> role, index |-> i])

\* The request is sent back, with the reader index of a receiver.
AnswerAllocate(p, role, i) ==
    Answer(Once(p), [op |-> "allocate", role |-> role, index |-> i])

\* A reader keeps its index; a new one is given the lowest free one, which a
\* process that has left may still receive on.
GrantIndex(p, g, all) ==
    \/ /\ slot[p] # NoIndex
       /\ segs' = all
       /\ UNCHANGED slot
    \/ /\ slot[p] = NoIndex
       /\ Indices \ all[g].mask # {}
       /\ LET i == FreeIndex(all[g].mask)
          IN  /\ segs' = [all EXCEPT ![g].mask = @ \cup {i},
                                     ![g].shared = @ \cup
                                        {j \in {i} : Waiting(g, i) \ {p} # {}}]
              /\ slot' = [slot EXCEPT ![p] = i]

\* handleDaemon_AllocateShm: create the segment at the first request, register
\* the role, answer.  Without a free index the request is not answered.
DaemonAllocate(m) ==
    LET p == m.from
        g == IF cur = NoShm THEN Len(segs) + 1 ELSE cur
        all == IF cur = NoShm THEN Append(segs, NewSegment) ELSE segs
    IN  /\ m.op = "allocate"
        /\ cur' = g
        /\ \/ /\ m.role = "sender"
              /\ senders' = senders \cup {p}
              /\ segs' = all
              /\ UNCHANGED slot
              /\ AnswerAllocate(p, "sender", NoIndex)
           \/ /\ m.role = "receiver"
              /\ GrantIndex(p, g, all)
              /\ UNCHANGED senders
              /\ AnswerAllocate(p, "receiver", slot'[p])
           \/ /\ m.role = "receiver"
              /\ slot[p] = NoIndex /\ Indices \ all[g].mask = {}
              /\ UNCHANGED <<senders, slot, segs, inbox, spent>>

\* free_reader_slot, also called as drop_reader.
Freed(p) ==
    IF slot[p] = NoIndex THEN segs ELSE [segs EXCEPT ![cur].mask = @ \ {slot[p]}]

\* PidNameInfo::remove.
RemoveMember(p) ==
    /\ senders' = senders \ {p}
    /\ slot' = [slot EXCEPT ![p] = NoIndex]

\* The channel is forgotten and its segment deleted: delete_shm clears the flag
\* and unlinks the name.
Teardown(freed) ==
    /\ cur' = NoShm
    /\ senders' = {}
    /\ slot' = [p \in Procs |-> NoIndex]
    /\ segs' = [freed EXCEPT ![cur].deleted = TRUE]

\* Mutant of NotifyAll: only the process that asked is told.
NotifyOne(p) == Once(p)

\* The one that asked, then each remaining member, once for every role it has.
NotifyAll(p) ==
    [q \in Procs |-> IF q = p THEN 1
                     ELSE (IF q \in senders THEN 1 ELSE 0) + (IF q \in Receivers THEN 1 ELSE 0)]

\* handleDaemon_ReleaseShm.
DaemonRelease(m) ==
    LET p == m.from
        told == [op |-> "release", role |-> m.role, index |-> NoIndex]
    IN  /\ m.op = "release"
        /\ \/ /\ cur = NoShm
              /\ UNCHANGED <<daemonVars, inbox, spent>>
           \/ /\ cur # NoShm
              /\ m.role = "leave" /\ Members \ {p} # {}
              /\ RemoveMember(p)
              /\ segs' = Freed(p)
              /\ UNCHANGED cur
              /\ Answer(Once(p), told)
           \/ /\ cur # NoShm
              /\ m.role = "force" \/ Members \ {p} = {}
              /\ Teardown(Freed(p))
              /\ Answer(NotifyAll(p), told)

DaemonMessage ==
    /\ toDaemon # <<>>
    /\ LET m == Head(toDaemon) IN DaemonAllocate(m) \/ DaemonRelease(m)
    /\ toDaemon' = Tail(toDaemon)
    /\ UNCHANGED <<crashes, procVars>>

\* Mutant of DaemonCrash: the reader bit of the dead process stays.
CrashKeepsBit(p) ==
    \/ p \notin Members /\ UNCHANGED daemonVars
    \/ p \in Members /\ Members \ {p} # {} /\ RemoveMember(p) /\ UNCHANGED <<segs, cur>>
    \/ Members = {p} /\ Teardown(segs)

\* handleProcessCrash: the dead process leaves, the last one takes the channel along.
DaemonCrash(p) ==
    \/ p \notin Members /\ UNCHANGED daemonVars
    \/ /\ p \in Members /\ Members \ {p} # {}
       /\ RemoveMember(p)
       /\ segs' = Freed(p)
       /\ UNCHANGED cur
    \/ Members = {p} /\ Teardown(Freed(p))

CrashHandled ==
    /\ crashes # <<>>
    /\ DaemonCrash(Head(crashes))
    /\ crashes' = Tail(crashes)
    /\ UNCHANGED <<toDaemon, inbox, procVars, spent>>

-----------------------------------------------------------------------------
(* The ShmManager worker of a process. *)

\* Another process has the index, or still receives on it.
Others(p, g, i) ==
    \/ Waiting(g, i) \ {p} # {}
    \/ cur = g /\ \E q \in Procs \ {p} : slot[q] = i

Handles(p, op) == up[p] /\ ~stuck[p] /\ inbox[p] # <<>> /\ Head(inbox[p]).op = op

\* handleProcess_AllocateShm: open the segment the name refers to now, and
\* start the ReceiveWork of a receiver whose segment is open.  The daemon may have
\* taken the index back meanwhile and given it to another process.
ProcessAllocate(p) ==
    /\ Handles(p, "allocate")
    /\ LET m == Head(inbox[p])
           opened == IF shm[p] # NoShm THEN shm[p] ELSE IF cur # NoShm THEN cur ELSE Unopened
       IN  /\ shm' = [shm EXCEPT ![p] = opened]
           /\ index' = [index EXCEPT ![p] = IF m.role = "receiver" THEN m.index ELSE @]
           /\ work' = [work EXCEPT ![p] = @ \/ /\ m.role = "receiver"
                                               /\ opened # Unopened
                                               /\ handler[p]]
           /\ segs' = IF opened \notin Segment THEN segs
                      ELSE [segs EXCEPT ![opened].shared = @ \cup
                               {i \in Indices : /\ work'[p] /\ i = index'[p]
                                                /\ Others(p, opened, i)}]
    /\ info' = [info EXCEPT ![p] = TRUE]
    /\ inbox' = [inbox EXCEPT ![p] = Tail(@)]
    /\ UNCHANGED <<cur, senders, slot, toDaemon, crashes, up, handler, stuck, spent>>

\* openStreamShmRetry again, a second later; no ReceiveWork is started.
RetryOpen(p) ==
    /\ up[p] /\ ~stuck[p] /\ shm[p] = Unopened
    /\ cur # NoShm
    /\ shm' = [shm EXCEPT ![p] = cur]
    /\ UNCHANGED <<daemonVars, netVars, up, info, handler, index, work, stuck, spent>>

\* ReceiveWork::stop blocks for ever in join() if its thread is in sem_wait, or
\* about to be: wakeup_recv posts the readers in m_reader_flag only.  Either this
\* one has left it and its last token is used up, or another process that receives
\* on the same index takes the tokens.
MayBlock(p) ==
    /\ work[p]
    /\ \/ ~segs[shm[p]].deleted /\ index[p] \notin segs[shm[p]].mask
       \/ index[p] \in segs[shm[p]].shared

\* handleProcess_ReleaseShm.  Stopping the ReceiveWork calls wakeup_recv, which
\* clears BIT1 of the segment.
ProcessRelease(p) ==
    /\ Handles(p, "release")
    /\ inbox' = [inbox EXCEPT ![p] = Tail(@)]
    /\ \/ /\ ~info[p]
          /\ UNCHANGED <<info, handler, shm, work, stuck, segs>>
       \/ /\ info[p]
          /\ info' = [info EXCEPT ![p] = FALSE]
          /\ handler' = [handler EXCEPT ![p] = FALSE]
          /\ work' = [work EXCEPT ![p] = FALSE]
          /\ segs' = IF work[p] THEN [segs EXCEPT ![shm[p]].recv = FALSE] ELSE segs
          /\ \/ shm' = [shm EXCEPT ![p] = NoShm] /\ UNCHANGED stuck
             \/ MayBlock(p) /\ stuck' = [stuck EXCEPT ![p] = TRUE] /\ UNCHANGED shm
    /\ UNCHANGED <<cur, senders, slot, toDaemon, crashes, up, index, spent>>

\* The blocked thread gets a token: delete_shm posts every index, a sender the
\* indices given out.
Unblock(p) ==
    /\ up[p] /\ stuck[p]
    /\ segs[shm[p]].deleted \/ index[p] \in segs[shm[p]].mask
    /\ stuck' = [stuck EXCEPT ![p] = FALSE]
    /\ shm' = [shm EXCEPT ![p] = NoShm]
    /\ UNCHANGED <<daemonVars, netVars, up, info, handler, index, work, spent>>

Crash(p) ==
    /\ up[p]
    /\ Spend("crash", 1)
    /\ up' = [up EXCEPT ![p] = FALSE]
    /\ info' = [info EXCEPT ![p] = FALSE]
    /\ handler' = [handler EXCEPT ![p] = FALSE]
    /\ shm' = [shm EXCEPT ![p] = NoShm]
    /\ index' = [index EXCEPT ![p] = NoIndex]
    /\ work' = [work EXCEPT ![p] = FALSE]
    /\ stuck' = [stuck EXCEPT ![p] = FALSE]
    /\ crashes' = Append(crashes, p)
    /\ UNCHANGED <<daemonVars, toDaemon, inbox>>

\* The new process reads its inbox from the tail on.
Start(p) ==
    /\ ~up[p]
    /\ UserRestarts \/ p \notin ToSet(crashes)
    /\ up' = [up EXCEPT ![p] = TRUE]
    /\ inbox' = [inbox EXCEPT ![p] = <<>>]
    /\ UNCHANGED <<daemonVars, toDaemon, crashes, info, handler, shm, index, work, stuck, spent>>

Process(p) == ProcessAllocate(p) \/ ProcessRelease(p)

Next ==
    \/ \E p \in Procs :
          \/ \E role \in {"sender", "receiver"} : RequestAllocate(p, role)
          \/ \E how \in {"leave", "force"} : RequestRelease(p, how)
          \/ RequestNotSent(p)
          \/ ProcessAllocate(p) \/ ProcessRelease(p) \/ RetryOpen(p) \/ Unblock(p)
          \/ Crash(p) \/ Start(p)
    \/ DaemonMessage
    \/ CrashHandled

Spec == Init /\ [][Next]_vars

\* The workers run, and retry timers expire; a token arrives for certain only
\* when the segment is deleted and nobody else takes it.
FairSpec ==
    /\ Spec
    /\ WF_vars(DaemonMessage) /\ WF_vars(CrashHandled)
    /\ \A p \in Procs : /\ WF_vars(Process(p))
                        /\ WF_vars(RetryOpen(p))
                        /\ WF_vars(Unblock(p) /\ segs[shm[p]].deleted
                                              /\ index[p] \notin segs[shm[p]].shared)

-----------------------------------------------------------------------------

\* The shape of the variables.
TypeOK ==
    /\ cur \in {NoShm} \cup Segment
    /\ senders \subseteq Procs
    /\ slot \in [Procs -> Indices \cup {NoIndex}]
    /\ segs \in Seq([mask : SUBSET Indices, recv : BOOLEAN, deleted : BOOLEAN,
                     shared : SUBSET Indices])
    /\ toDaemon \in Seq([op : {"allocate"}, from : Procs, role : {"sender", "receiver"}]
                         \cup [op : {"release"}, from : Procs, role : {"leave", "force"}])
    /\ inbox \in [Procs -> Seq([op : {"allocate", "release"},
                                role : {"sender", "receiver", "leave", "force"},
                                index : Indices \cup {NoIndex}])]
    /\ crashes \in Seq(Procs)
    /\ {up, info, handler, work, stuck} \subseteq [Procs -> BOOLEAN]
    /\ shm \in [Procs -> {NoShm, Unopened} \cup Segment]
    /\ index \in [Procs -> Indices \cup {NoIndex}]
    /\ spent \in [EventKinds -> Nat]

\* The registry and the shared memory agree: the bits of m_reader_flag are the
\* indices of the registered receivers, each index given to one of them, and a
\* channel that is gone has no members.
RegistryMatchesMask ==
    /\ cur # NoShm => segs[cur].mask = {slot[p] : p \in Receivers}
    /\ \A p, q \in Receivers : slot[p] = slot[q] => p = q
    /\ cur = NoShm => Members = {}

\* Nothing is on its way to the daemon or to a running process.
Quiet ==
    /\ toDaemon = <<>> /\ crashes = <<>>
    /\ \A p \in Procs : up[p] => inbox[p] = <<>>

\* With no message lost, once every message and crash is handled a process that
\* has the channel open is a member of it and maps the segment in use; only one
\* that hangs in the stop of its ReceiveWork still maps what it has left.
OpenMeansMember ==
    spent["lost"] = 0 /\ Quiet => \A p \in Procs :
                 up[p] /\ shm[p] # NoShm /\ ~stuck[p] => p \in Members /\ shm[p] = cur

\* The members left behind by a force release, and the one that hangs, give up
\* the deleted segment in the end, unless the message that tells them is lost or
\* another process has received on the index of the one that hangs.
DeletedIsUnmapped ==
    \A p \in Procs :
        (shm[p] \in Segment /\ segs[shm[p]].deleted)
            ~> \/ shm[p] = NoShm \/ spent["lost"] > 0
               \/ stuck[p] /\ index[p] \in segs[shm[p]].shared

\* A receiver that asks gets its ReceiveWork, unless the channel is released
\* under it (which takes its handler away), the answer is lost or it dies.
ReceiverIsServed ==
    \A p \in Procs : handler[p] ~> (work[p] \/ ~handler[p] \/ spent["lost"] > 0)

=============================================================================
