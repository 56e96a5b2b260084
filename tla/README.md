# Verification of ipc-interface

TLA+ models of the interprocess messaging library under `src/src`: a daemon that
supervises business processes, shared-memory rings through which they exchange
messages, and the worker threads and queues inside each process. TLC checks the
models on small instances; TLAPS proves the safety properties and the refinements among
them for every value of the constants that a theorem's hypotheses allow.

## 1. Inventory

| component | code | state | operations | what is hard | what makes it correct |
|---|---|---|---|---|---|
| ring data path | `mul_process/StreamShmCreator.{h,cpp}` | `m_tail`, `m_reader_head[]`, `m_reader_flag`, `m_sem[]`, `m_flag`, the slots; locals of send and recv | `send_impl`, `recv_impl`, `alloc_reader_slot`, `free_reader_slot`, `set_reader_index`, `set_flag`, `wakeup_recv` | several processes on lock-free memory; deaths in the middle; a slot timeout; tokens against messages | no slot shared or overrun, messages whole and in order, no reader asleep over data, recv returns |
| segment lifecycle | `StreamShmCreator.cpp`, `ShmManager::releaseShm` | mapping, name, size, `m_flag`, `m_sending_count` | `Open`, `create_shm`, `delete_shm`, `Close` | a creator that dies or fails halfway; unmapping under threads that use the segment | nobody uses a half-made segment or is in an unmapped one, everybody leaves a deleted one |
| LockFreeQueue | `model/LockFreeQueue.inl` | `m_head`, `m_tail`, node data and flags | `push`, `pop` | lock-free, nodes reused | bounded FIFO, nothing lost, nothing twice |
| MessageThread, ThreadBase, EpollControl | `model/*.cpp` | `m_running`, task queue, timers, event array | `post`, `startTimer`, `stopTimer`, `addFd`, `start`, `stop`, the loop | edge-triggered wake-ups, events of closed descriptors, stop racing sleep | no lost wake-up, no forgotten timer, stop returns |
| ReceiveWork | `mul_process/ReceiveWork.cpp` | thread, `m_running` | start, loop, `stop` | wake a thread out of `sem_wait` | stop returns |
| ShmManager, dynamic channels | `mul_process/ShmManager.cpp`, `PidNameInfo.cpp` | members and reader indices (daemon), open segments, handlers, ReceiveWorks (processes) | `RequestAllocateShm`, `RequestReleaseShm`, their handlers, `handleProcessCrash` | messages lost or late, crashes, a channel re-created under its old name | registry, segment and processes agree |
| ShmManager, fixed inboxes | `ShmManager.cpp` | the inboxes a process has open, reader 0 of each, `m_fixed_processes_started` | `initShm`, `openStreamShmRetry`, `tryStartFixedProcesses`, `sendProcessOnline`, drop after a crash, `SET_SYNC_FLAG` | processes that start and die in any order, the daemon too; retries; a late drop against a restart | a booted process finds the inboxes of the business processes, reports get through, the living reader keeps its bit |
| ProcessManager, daemon main | `mul_process/ProcessManager.cpp`, `daemon/Daemon.cpp` | `m_process_infos`, pidfds, retry timers, children | boot, crash, restart, report, `waitpid` | two threads see deaths; descriptor numbers are reused | no death missed or handled twice, no watch leaked, boot processes come back |
| process-sync segment | `model/ShmCreator.inl`, `ProcessManager::initProcessSyncShm` | name, size, `m_flags` | `Open`, `create_shm`, read, write | a failed creation leaves its name; any process may write | boot processes get started |
| codec, logging, definitions, demos | `standard`, `log`, `define`, `demo` | none | | | not modelled (section 8) |

Interaction: a business thread calls `ShmManager::send`, which writes to the ring of
the receiver's inbox or of a dynamic channel. The `ReceiveWork` thread of the
receiver takes the message out; messages to the library itself are posted to the
ShmManager worker (a `MessageThread`) and handled there. In the daemon the
ShmManager worker and the ProcessManager worker post tasks to each other, and the
main thread posts the pids it reaps to ProcessManager.

## 2. Plan

Built so far: the ring, the task queue, the worker thread, the supervision of processes,
the opening of the inboxes at start and after deaths, the registry of dynamic channels,
and the teardown of a segment, each with the theorems about it. Every invariant, action
property and refinement that a passing run checks is stated by a theorem (section 6);
what is left to TLC is liveness.

Next, in this order:

1. The tokens of the ring without `Timely`.
2. A daemon that restarts in ChannelRegistry, with the members of dynamic channels it
   has forgotten.
3. Several readers of one ring that come and go, and a channel whose receivers leave on
   request, with what then still holds (`StreamRingHandover` and section 7 say what does
   not).

## 3. Modules

| module | models | remarks |
|---|---|---|
| `OrderedChannel` | abstract: what a ring promises | accept in order, receive whole, in order, at most once; nothing missed until it is disturbed (`lossy`) |
| `StreamRing` | send, recv, reader slots, flags, crashes | one shared-memory access per action |
| `StreamRingHandover`, `MCStreamRingHandover` | a reader leaves on request and its index is given out at once | the leaver's thread is `recv_impl` of StreamRing again (`INSTANCE`), on locals of its own |
| `StreamRingInv` | the inductive invariants of the ring | `TypeInv`, `WindowInv`, `SlotInv`, `ChannelInv`, `TokenInv` |
| `StreamRingProofs`, `LockFreeQueueProofs`, `MessageThreadProofs`, `ProcessManagerProofs`, `InboxOpeningProofs`, `ChannelRegistryProofs`, `ChannelTeardownProofs` | theorems, each with the inductive invariant it rests on | section 6 |
| `Lists` | a list without an element | for the lists of the workers and of epoll |
| `DataLemmas` | lemmas on remainders, on lists and the sets of their elements, on least elements | for the proofs |
| `MCStreamRing` | budgets of events, symmetry | |
| `TaskQueue` | abstract: a bounded FIFO | |
| `LockFreeQueue` | push, pop | one access per action |
| `MessageThread`, `MCMessageThread` | post, timers, watched descriptors, start, stop, the loop | the queue with its claimed-but-unwritten nodes |
| `InboxOpening`, `MCInboxOpening` | the inboxes and the process-sync segment from start to restart | a system call and what follows it to the next is one action |
| `ProcessManager`, `MCProcessManager` | supervision of processes | a task of a worker is one action |
| `ChannelRegistry`, `MCChannelRegistry` | one dynamic channel: daemon and members | a handler is one action |
| `ChannelTeardown` | the threads in a segment that is taken down | one access per action |

How state and actions correspond to the code:

* **StreamRing.** The header and the slots are variables (`tail` is `m_tail`, `mSeq`
  is `m_seq`, and so on); the locals of `send_impl` are functions over `Senders`,
  those of `recv_impl` functions over reader indices, `spc` and `rpc` the position.
  A payload is the sequence number it was claimed under, so that an intact message is
  a run of consecutive numbers. Some accesses are merged: the writes to one
  unpublished slot (`FillSlot`), the loads of `m_tail` and `m_seq` at the head of the
  receive loop, the scan for a published slot after a timeout. In the first two
  nothing another process can do between them changes the outcome; the scan is
  decided at the moment the timeout fires, which stands for the unchanged scan
  results over the whole timeout. `FreeReaderSlot` clears a bit and posts in one step.
  A sender's death before its claim changes nothing another process sees and is covered
  by `SendReturns`. A process takes up its inbox in the order of ShmManager.cpp:219-223:
  allocate, `set_reader_index`, then the receiving thread; so nobody receives on an index
  that is being allocated. `StreamRingHandover` adds the other life of an index, that of
  a dynamic channel: `Leave` frees it under a running `recv`, and `AllocLoad` may give it
  to another process.
* **LockFreeQueue.** Items are positions. `Full` includes the wrap of `size_t` when a
  stale tail is behind the head.
* **MessageThread.** The queue is a sequence of nodes with a `written` bit: `Call` is
  the claim, `Write` the commit, `Wake` the write of the eventfd. `ready` is what
  epoll would report, `batch` the array `epoll_wait` filled. A task runs in `Pop`.
  `userFd` is a descriptor given to `addFd`: it stays in `ready` as long as it is
  readable, being level-triggered.
* **InboxOpening.** `seg` is the stage of a segment in shared memory (no name, size 0,
  size set, `m_flag` set), `hnd[p][n]` the stage of process `p`'s `StreamShmCreator`
  for it, `todo[p]` what the worker of `p` has before it: first the loop of `initShm`,
  then its timers, which all wait 1000 ms and so expire in the order they were set.
  `Opened` is everything `openStreamShmRetry` does after a successful `Open`. Death is
  an action of every process and takes with it what is not in shared memory.
* **ProcessManager.** `ready`, `batch` and `watch` (descriptor number to pidfd or
  timer, lowest free number first) model the kernel's side. `CreateProcess` is fork,
  retry after a failed fork, or retry while the flag of the slot is clear. The
  ShmManager worker of the daemon appears with the two tasks that pass crashes and
  reports on.
* **ChannelRegistry.** Segments are numbered in the order of creation, because a name
  that was unlinked and created again is another segment. `stuck` marks a process
  whose worker hangs in `ReceiveWork::stop` (finding `DownStop`). `MayBlock` says when it
  may: its bit is gone from the mask, whether or not BIT1 was cleared before, or another
  process has received on the same index (`shared`, a history of each segment) and takes
  the token. It is let go when its segment is deleted and nobody else takes that token.
* **ChannelTeardown.** The daemon, the worker, the receiving thread and a sending
  thread of each process around one segment, access by access; what is in the ring is
  left to StreamRing. A send that is refused or finds no room is called again, up to
  `MaxTries` times (`kSendMaxRetry`), without looking the channel up again.

## 4. Runs

Bounds are constants of the modules, set in the `.cfg` of the run.

| run | instance | shows |
|---|---|---|
| `RingLive` | 2 senders, 2 readers that stay, 3 slots, messages of 1 slice, 3 sequence numbers, 1 sender crash, fairness | the slower reader holds the senders back, refinement of OrderedChannel, recv returns, every claim is consumed |
| `RingReaders` | 2 senders, the one reader of an inbox, 3 slots, messages of 2 slices, 4 sequence numbers, without fairness; 1 each of sender crash, reader crash, allocation, wake-up, change of flags | writers do not share slots, no slot is read while it is written, messages stay whole and in order over restarts of the reader, lag is explained |
| `RingHandover` | 2 senders, one index, a leave and an allocation, messages of 1 slice, 5 sequence numbers | violates `ReadsOnlyCommitted` |
| `Queue` | 2 producers, 1 consumer, 2 nodes, 5 pushes, fairness | refinement of TaskQueue, exclusive nodes, nothing stays inside |
| `Proc` | a boot slot and a restarted external slot, 4 descriptors, either 2 user starts and 1 exit with a failed fork and a flag change, or 1 user start and 2 exits with one of the two, fairness | watches, records and deaths stay consistent; the boot process comes back |
| `ProcStaleEvent` | 2 user starts, 2 exits | violates `OnlyDeadAreReported` |
| `Registry` | 2 processes, 2 reader indices, 3 requests, 1 leave, 1 force, 1 crash, 1 lost message, fairness | registry, mask and members agree; deleted segments are unmapped; receivers are served |
| `Teardown` | 2 receivers, 1 of them sends once in up to 2 tries, leave and force, fairness | receivers only in mapped memory, no sleeper without a token, everybody unmaps |
| `DownStop` | 2 receivers, leave, fairness | violates `StopReturns` |
| `DownSender` | 2 processes that send, force | violates `SenderInMappedSegment` |
| `Messages` | a caller that uses timers and one that posts and has a descriptor watched, 3 operations in all, 1 controller with 2 starts and 1 stop, 1 timer descriptor, fairness | no wake-up, expiration or readable descriptor is lost, stop, startTimer and addFd return, one worker at a time |
| `Inbox` | the daemon, a booted and an external process, 3 deaths, 1 failed system call, fairness | an inbox that is used is initialised; a booted process finds those of all business processes; reports get through and boot processes are started unless a half-made name is left |

Why the bounds are enough to be interesting. In `RingReaders` messages of two slices
and four sequence numbers on three slots let a claim reach the second lap while the
first is being read, so that a torn message and a reused slot occur. In `RingLive` three
messages of one slice on slots that hold two let a ring be full for one reader and not
for the other, a message be published before an earlier one, and a sender die with its
hole before a published slot (the mutants of section 5 are found in these instances).
Messages of different lengths in one ring are left to the theorems, which hold for every
`Needs`. Two
queue nodes and five pushes go through every node at least twice. Three or four
descriptors let a number be freed and given out again inside one event array; that array
holds 2 events in the runs (`MaxEventsOnce`), fewer than may be due at once, so that what
does not fit has to be reported again. Descriptors may run out in `ProcessManager`: a
pidfd or a retry timer then is not to be had, as in the code. The invariants hold all the
same; in `Proc` they do not run out, and only there is `BootProcessComesBack` claimed, since
a retry that gets no timer is never made. Two processes are
enough for every pairing of roles, the leaver and the one that stays; two reader
indices for an index to be freed and given again. Three deaths let the daemon die in
a creation, its successor die too, and a process die between them; a failed system
call then meets inboxes that others have mapped.

Runs whose system may really stop (all events of the budget spent, nobody has to
send) set `CHECK_DEADLOCK FALSE`; the plain ring and queue runs keep the check.

### Fairness

* Ring: weak fairness of each sender inside send, of each reader, and of the attach
  that follows an allocation in the same function. A sender is not obliged to start
  a send, nothing obliges a compare-and-swap to succeed.
* Queue: weak fairness of a push that holds a position and of the consumer, strong
  fairness of its compare-and-swap, which is alone on `m_head` and can only fail
  spuriously.
* ProcessManager, MessageThread, ChannelRegistry: the workers run, timers expire,
  dead children are reaped; nobody is obliged to call, crash or release.
* InboxOpening: the workers run and their timers expire, the daemon hears what is in
  its inbox and forks what it may. Nobody is obliged to start the daemon or to die;
  the liveness property is about a daemon that in the end stays up.
* ChannelTeardown: every thread that has started something goes on with it.

All of it is the scheduling the operating system gives to runnable threads.

### Assumptions

* `Timely = TRUE`: no live sender takes longer from its claim to its last publication
  than the slot timeout, or than a change of reader. The code relies on it in the
  same way; without it the slots of a live sender are given up and overwritten. Of the
  theorems those about the slots, the channel and the tokens of the ring need it.
* Sequence numbers stay below their first wrap (`MaxTail < SeqSpan`), `size_t`
  positions too.
* One allocation of a reader slot at a time: only the daemon's worker, or the owner of
  an inbox at its start, allocates.
* In StreamRing an index is taken up only when nobody receives on it. That is the fixed
  inboxes, with one running process to a slot, and the channels whose receivers do not
  leave on request while others join. `StreamRingHandover` drops the assumption.
* `set_reader_index` is called before the receiving thread starts. A second ALLOCATE
  answer (a request made twice before the first answer) calls it under a running `recv`
  and rewrites `m_local_head` there (ShmManager.cpp:551, StreamShmCreator.cpp:344): a
  data race that no module has; ChannelRegistry follows its messages, not the cursor.
* Pids are not reused; the task queues of the daemon are never full; the user starts a
  process only where none is running, and the crash of a process of a dynamic channel
  is handled before it is started again (`UserRestarts = FALSE`).
* The daemon restarts in InboxOpening only, and there the processes it had booted are
  stopped first, since a new daemon knows nothing of them and would boot them again.
  Its creation of a dynamic channel succeeds.
* A daemon that starts again goes on reading its inbox where its predecessor stopped
  (`set_reader_index` takes over the published head).

## 5. Properties and mutants

Each property of each passing run is paired in `PROJECT.json` with a mutant of the
code's translation (a dropped guard, an off-by-one, a missing post, a wrong order)
under which TLC finds it violated. The mutants stand next to the definitions they
change, marked "Mutant of". All of them are changes of this program, none of the kernel's
part of a model. Each module has one type invariant, and its
mutant breaks what of it is not mere shape: a skip that runs past the tail, a
queue that holds more than its capacity, the -1 of a failed fork recorded as a pid, a timer
without a descriptor, a count of senders below zero.

## 6. Theorems

Each proof module states the inductive invariant it needs, one lemma per action or group
of actions, and the theorems. The invariants named below were model-checked on the runs'
instances before they were proved.

### The ring (`StreamRingProofs`, invariants in `StreamRingInv`)

* `TypeCorrect`: `Spec => []TypeOK`, for every value of the constants allowed by the
  named assumptions. `TypeOK` is not inductive: a reader's cursor stays in range only
  because it stays behind the tail, and a sender's because it stays inside its claim.
  `TypeInv == TypeOK /\ BehindTail` is.

The other theorems assume `WholeMasks`: a mask that a sender loads names every reader of
the ring or none. That is so with one reader index, whose process may die, restart, be
dropped and allocate again (the fixed inboxes), and with several readers that are there
from the start and stay. For readers that leave on request, or several that come and go,
the theorems claim nothing: there the properties are false (`RingHandover`, section 7).

* `WindowIsBounded`: the ring never holds more than `m_slot_count - 1` slots a reader has
  not consumed, for any number of senders and slots. `WindowInv`:
  - `HeadsPublished`: the head in shared memory is the reader's cursor as long as it
    runs;
  - `ScanBounds`: what `slowest_head` has found bounds the distance of every reader
    visited, although they move on, since heads only grow;
  - `AllocAlone`, `ReadersStay`: with one index nobody reads while it is allocated (its
    own process does it before it starts its thread), and the head it is given is not behind the one it had; fixed readers keep their bits;
  - `WithinWindow`: the bound itself, for a reader that is registered or not.
* `WritersAreDisjoint`, `ReadsAreCommitted`: if moreover live senders are timely, no two
  senders write one physical slot, and none writes the slot a reader copies from.
  `SlotInv` adds to `WindowInv`:
  - `AheadOfReaders`: no reader passes a slot a live sender has still to publish (this
    is what `Timely` gives);
  - `ClaimsApart`: claims do not overlap;
  - `NotPublishedEarly`: no `m_seq` says that a slot is published before its own
    writer has stored it;
  - `CopiesPublished`: what is being copied stays published.

  All of them lie in one window, where different numbers have different slots
  (`DataLemmas`).
* `RingImplementsChannel`: under the same hypotheses the ring implements
  `OrderedChannel`. The claim maps to `Accept`, the copy of the last slice to `Receive`,
  every other step to a stutter. `ChannelInv` adds to `SlotInv`:
  - `ClaimsInOrder`: claims follow one another, and a writer's is the one recorded;
  - `PublishedIsWhole`: a published slot that has still to be read holds a slice of the
    claim it belongs to, with the right number and, in the first, the right count;
  - `AssemblyIsPrefix`: what a reader has put together is the beginning of one claim;
  - `DeliveredBefore`: what it handed over last is a whole claim below that one;
  - `NothingSkipped`: until the first death, late reader or change of `m_flag`
    (`Disturb` in the abstract channel), everything below was handed over and everything above has a live sender, so that neither the
    time-out nor the skip of a foreign slice ever happens.
* `SleepersLagHasCauses`: under the same hypotheses, a reader that sleeps while no send
  is under way has no more unread messages than tokens were lost to crashes and disabled
  wake-ups. `TokenInv` adds to `ChannelInv` a balance for each reader, `TokensCover`: for
  every message it has not passed there is a token, on its semaphore, promised by a
  sender between claim and post, taken by the reader, or lost. It holds because a call
  of `recv` that spends a token passes the end of a message: the copy of the last slice
  does, and a time-out does, since the slices of a claim are published in order
  (`SlicesInOrder`), no message has more than `MAX_SLICE_COUNT` slices and the claims
  cover everything below the tail (`ClaimsCover`); `recv` that finds nothing is at the
  tail and behind on nothing.

### The task queue (`LockFreeQueueProofs`)

For one consumer (a MessageThread has one), any producers and any capacity:
`TypeCorrect`; `NodesAreExclusive`; and `QueueImplementsTasks`, the refinement of
`TaskQueue`. `QueueInv` says that claims are in the window and each of one producer
(`Claims`), that the consumer's head is the true one (`ConsumerHead`), where the committed
flag may be raised (`Flags`), that writer and taker are not on one node (`Apart`) and which
node holds which item (`Stored`).

### The worker thread (`MessageThreadProofs`)

* `StartIsAlone`, if one thread starts and stops the worker: `start` never creates a
  second thread. `ControlInv`: between operations `m_running` announces any thread that
  was not joined.
* `WorkerTypeCorrect`, `NoWakeupIsLost`, `ElapsedStaysReported`, for any callers,
  controllers, timers and any length of the event array, from
  `WorkerInv == TypeOK /\ LoopInv /\ WakeInv /\ DueInv`. `NoLostWakeup` and
  `ElapsedIsReported` look at one state of the worker; `WakeInv` and `DueInv` say of
  every state that a published task at the head of the queue has a wake-up under way and
  that what is due is in epoll's list or in the array of events, which `LoopInv` says is
  worked off before the next `epoll_wait`.

### Supervision (`ProcessManagerProofs`)

`SupervisionTypeCorrect`, `WatchesFollowRecords`, `NoChildIsMissed`,
`DeathsAreHandledOnce` and `LiveReaderIsKept`, for any slots, descriptors and length of
the event array, also when no descriptor is free. `LiveReaderIsKept` speaks of the slots
the daemon boots only: where the user restarts a process by hand before its crash is
handled, the late drop may take the bit of the new one. The records and queues are lists in the
code; `SupervisionInv` speaks of the sets of their elements (lemmas in `DataLemmas`):

* `ReadyIsOpen`, `WatchInv`: nothing closed is in epoll's list; records and open pidfds
  correspond, one for a slot, and a watched process is none of the daemon's children;
* `TaskInv`: a task is in one queue, once; what `waitpid` saw is a child's death that
  nobody has handled, and a crash on its way is of a death that was;
* `TrackInv`: a child that is not gone, or whose crash is on its way, is recorded;
* `StartInv`: the next process of a boot slot has one source: `tryStartFixedProcesses`,
  a boot task, a retry timer, or the record whose crash will be handled;
* `SlotsAgree`: tasks and records name a process with its own slot.

### The inboxes (`InboxOpeningProofs`)

Without further assumptions than that `kProcesses` names every process once
(`OrderAssumption`):

* `UsedInboxesAreReady`, `BootedFindInboxes` (the inboxes of the business processes, not
  the daemon's own): `OpenedIsReady` and `BootFindsInboxes` are kept because only the daemon is ever in the middle of a creation (`CreatorIsDaemon`), a
  worker is inside `Open` for one name at a time (`OneOpen`), a segment that is ready stays
  so, and what `tryStartFixedProcesses` saw is still so when it forks (`StartedIsReady`).
* `OpeningTypeCorrect`: `TypeOK` needs that a worker's list names no inbox twice and that
  the inboxes behind its first entry are closed (`Waits`), so that a retry never meets an
  inbox that is open already.

### The registry (`ChannelRegistryProofs`)

* `RegistryIsTrue`: `RegistryMatchesMask`, inductive together with the types of what the
  daemon keeps and receives.
* `ChannelTypeCorrect`: the types of the rest.
* `OpenIsMember`: `OpenMeansMember`, if the crash of a process is handled before it is
  started again (`~UserRestarts`; with a restart before that, the late crash takes the
  membership of the new process away). `ViewInv` follows what is under way to a process:
  the last message in its inbox is true of the registry, and a process that maps another
  segment than the daemon's has a release coming.

### The teardown (`ChannelTeardownProofs`)

For any receivers and senders: `TypeCorrect` (a count of senders does not go below zero:
`SendingCounts`), `ReceiversAreMapped` (a worker unmaps after the join: `JoinedIsExited`)
and `SleepersCanWake` (nobody goes to sleep once `m_flag` is clear: `DeletedIsDisabled`).

### What is not proved

The theorems are about the modules as the runs check them, and the constants of every run
of a module satisfy the hypotheses of its theorems. The invariants, action properties and
refinements of the passing runs are all among them. Only model-checked is all liveness
(`RecvReturns`, `EveryClaimIsConsumed`, `EveryItemIsPopped`, `PostedIsRun`,
`StartTimerReturnsSoon`, `StopEnds`, `BootProcessComesBack`, both `DeletedIsUnmapped`,
`ReceiverIsServed`, `StartupCompletes`), which is out of the reach of TLAPS here. Outside
both: a ring with several readers that come and go or that leave on request, a ring whose live senders outlast the
slot timeout, a queue with several consumers, and the membership of processes that are
started again before their crash is handled.

## 7. Where the code and its documents disagree

* `RingHandover`: a slot may be overwritten while it is copied, when the index of a
  receiver that leaves is given to another process before the first has stopped receiving
  (`ShmManager.cpp:439`, `406`; `ShmManager.cpp:6` says that only complete data is read).
* `ProcStaleEvent`: an event left in the array of `epoll_wait` for a closed pidfd is
  taken for the process whose pidfd has the number now (the pidfd design, line 73).
* `DownStop`: `ReceiveWork::stop` may hang when a receiver leaves a channel that lives
  on, because `wakeup_recv` posts the readers of the mask it has just left
  (`StreamShmCreator.h:296`).
* `DownSender`: a segment may be unmapped under a sender that has not counted itself
  yet (`ShmManager.h:200`).

Seen while modelling, without a run: a second reader that is allocated while senders
are inside `send_impl` may read slots that are being overwritten
(`StreamShmCreator.cpp:313`; `README.md:360` advises a single reader, the daemon
registers up to eight); `StreamShmCreator.h:260` documents 0 for a
successful `send`, which returns the size; `LockFreeQueue::size` (`.h:70`) is 0 for a
full queue and `push` (`.h:38`) may refuse an item when a stale tail is behind the
head; the copying `push` names a release order for a failed compare-and-swap
(`.inl:57`); `README.md:279` says a crash clears the flag of a fixed channel, which
`handleProcessCrash` leaves alone; the report of a restarted external process is
dropped while the record of the dead one is pending (`ProcessManager.cpp:241`); a
one-shot timer may run at once through the event of a stopped one
(`EpollControl.cpp:119`); a daemon that dies between the creation of an inbox and its
`m_flag` (`StreamShmCreator.cpp:121`), or whose `ftruncate` of the process-sync segment
fails (`ShmCreator.inl:44`), leaves a name that no later daemon can finish, so that the
inbox stays closed or nothing is booted until the name is unlinked by hand
(`StartupCompletes` states both as its exceptions); the daemon does not wait for its own
inbox before it boots processes (`ShmManager.cpp:237`), which then open it later and repeat
their reports; a second ALLOCATE answer rewrites the cursor of a running `recv`
(`ShmManager.cpp:551`). The hazards of `PROJECT.json` list them with the others.

## 8. Not modelled

* Conversions of integers to bytes, payload layout, logging, clocks: data without
  control.
* Failures of `epoll_ctl`, `timerfd_create` and `sem_init`, of `mmap` when an existing
  segment is opened, and of the creation of a dynamic channel.
* The way of a report through the daemon's inbox and ReceiveWork: `Report` may put it into
  the ShmManager queue at any time after the process has attached, also after its death.
* What an orphan of a dead daemon does beside its successor's child.
* Weak memory: an action is one access in a sequentially consistent order. The
  release and acquire pairs of `m_seq`, `m_tail`, `m_committed` are taken as given.
* `LockFreeQueue::clear`, several consumers of one queue (EpollControl has one).
* The wrap of the 32-bit sequence number.
* The demo programs.
