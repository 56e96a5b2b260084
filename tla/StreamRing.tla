----------------------------- MODULE StreamRing -----------------------------
(***************************************************************************)
(* The shared-memory ring of StreamShmCreator: any number of sending       *)
(* threads, in any number of processes, claim runs of slots with a         *)
(* compare-and-swap on m_tail; up to MAX_READER_COUNT readers each follow  *)
(* the tail with a head of their own and sleep on a semaphore of their     *)
(* own.  A message occupies slot_need consecutive slots (its slices); a    *)
(* slot is published by storing its sequence number plus one in m_seq.     *)
(*                                                                         *)
(* One action is one shared-memory access that another process can         *)
(* observe, or a run of accesses between which nothing another process     *)
(* does can change the outcome.  Sequence numbers are the uint32_t values  *)
(* of the code below their first wrap: MaxTail < SeqSpan.  A slot's payload *)
(* is represented by the sequence number its writer claimed it under, so   *)
(* an intact message is a run of consecutive sequence numbers.             *)
(***************************************************************************)
EXTENDS Integers, FiniteSets

CONSTANTS
    Senders,      \* sending threads
    ReaderSlots,  \* reader indexes in use, a subset of 0 .. MAX_READER_COUNT-1
    Registered,   \* the readers whose slots were allocated before the first send
    SlotCount,    \* m_slot_count
    MaxSlice,     \* MAX_SLICE_COUNT
    Needs,        \* slot_need of the messages that are sent
    SeqSpan,      \* the modulus of the sequence numbers, 2^32 in the code
    MaxTail,      \* bound: no claim goes past this sequence number
    Timely,       \* TRUE: no live sender outlasts the slot timeout, or a change of reader
    FlagValues,   \* the values set_flag is called with
    Limit         \* bound: how often each kind of event may happen

NoReader == -1

\* The bits of m_flag: BIT0 allows sending, BIT1 allows receiving.
SendBit == 0
RecvBit == 1

\* What may happen to the ring while it is in use, each at most Limit[k] times.
EventKinds == {"alloc", "senderCrash", "readerCrash", "wakeup", "setFlag"}

ASSUME ReaderSlotsAssumption == ReaderSlots \subseteq Nat
ASSUME RegisteredAssumption == Registered \subseteq ReaderSlots
ASSUME SlotCountAssumption == SlotCount \in Nat \ {0}
ASSUME MaxSliceAssumption == MaxSlice \in Nat \ {0}
ASSUME NeedsAssumption == Needs \subseteq Nat \ {0}
ASSUME SeqSpanAssumption == SeqSpan \in Nat
ASSUME MaxTailAssumption == MaxTail \in Nat /\ MaxTail < SeqSpan
ASSUME TimelyAssumption == Timely \in BOOLEAN
ASSUME FlagValuesAssumption == FlagValues \subseteq SUBSET {SendBit, RecvBit}
ASSUME LimitAssumption == Limit \in [EventKinds -> Nat]

VARIABLES
    \* the segment header
    tail, readerHead, readerFlag, sem, flag,
    \* the slots
    mSeq, mSliceId, mSliceCount, mData,
    \* send_impl: the locals of each sending thread
    spc, need, mask, oldTail, used, todo, seq,
    \* recv_impl: the locals of each reader
    rpc, head, sliceCount, slicesDone, buf,
    \* alloc_reader_slot: the locals of the one process that allocates
    apc, aOld, aIdx, aTail,
    \* the deaths of readers the daemon has still to hear of
    drops,
    \* wakeup_recv: where the one that runs is, and whom it has still to post
    wpc, wtodo,
    \* history: claims made, message last handed to the handler, tokens lost
    msgLen, last, lost, spent

ringVars  == <<tail, readerHead, readerFlag, sem, flag>>
slotVars  == <<mSeq, mSliceId, mSliceCount, mData>>
sndVars   == <<spc, need, mask, oldTail, used, todo, seq>>
rcvVars   == <<rpc, head, sliceCount, slicesDone, buf>>
allocVars == <<apc, aOld, aIdx, aTail>>
ctlVars   == <<drops, wpc, wtodo>>
histVars  == <<msgLen, last, lost, spent>>
vars == <<ringVars, slotVars, sndVars, rcvVars, allocVars, ctlVars, histVars>>

Pos  == 0 .. MaxTail          \* sequence numbers
Slot == 0 .. SlotCount - 1    \* physical slots

Idx(q) == q % SlotCount

\* uint32_t subtraction: a stale minuend makes it wrap.
SeqSub(a, b) == IF a >= b THEN a - b ELSE SeqSpan + a - b

\* Reader indexes are visited, and free ones chosen, from the lowest up.
LowestOf(S) == {i \in S : \A j \in S : i <= j}

\* The sequence numbers of the message claimed at b.
Span(b) == b .. b + msgLen[b] - 1

-----------------------------------------------------------------------------
(* A segment as create_shm(true) leaves it, after the first readers have been *)
(* allocated their slots.                                                     *)

Init ==
    /\ tail = 0
    /\ readerHead = [i \in ReaderSlots |-> 0]
    /\ readerFlag = Registered
    /\ sem = [i \in ReaderSlots |-> 0]
    /\ flag = {SendBit, RecvBit}
    /\ mSeq = [j \in Slot |-> 0]
    /\ mSliceId = [j \in Slot |-> 0]
    /\ mSliceCount = [j \in Slot |-> 0]
    /\ mData = [j \in Slot |-> 0]
    /\ spc = [s \in Senders |-> "idle"]
    /\ need = [s \in Senders |-> 0]
    /\ mask = [s \in Senders |-> {}]
    /\ oldTail = [s \in Senders |-> 0]
    /\ used = [s \in Senders |-> 0]
    /\ todo = [s \in Senders |-> {}]
    /\ seq = [s \in Senders |-> 0]
    /\ rpc = [i \in ReaderSlots |-> "off"]
    /\ head = [i \in ReaderSlots |-> 0]
    /\ sliceCount = [i \in ReaderSlots |-> 0]
    /\ slicesDone = [i \in ReaderSlots |-> 0]
    /\ buf = [i \in ReaderSlots |-> {}]
    /\ apc = "idle"
    /\ aOld = {}
    /\ aIdx = NoReader
    /\ aTail = 0
    /\ drops = [i \in ReaderSlots |-> 0]
    /\ wpc = "idle"
    /\ wtodo = {}
    /\ msgLen = [b \in Pos |-> 0]
    /\ last = [i \in ReaderSlots |-> {}]
    /\ lost = [i \in ReaderSlots |-> 0]
    /\ spent = [k \in EventKinds |-> 0]

Spend(k) ==
    /\ spent[k] < Limit[k]
    /\ spent' = [spent EXCEPT ![k] = @ + 1]

-----------------------------------------------------------------------------
(* send_impl *)

\* send_impl leaves the stack: whatever it returned, its locals are gone.
SendReturns(s) ==
    /\ spc' = [spc EXCEPT ![s] = "idle"]
    /\ need' = [need EXCEPT ![s] = 0]
    /\ mask' = [mask EXCEPT ![s] = {}]
    /\ oldTail' = [oldTail EXCEPT ![s] = 0]
    /\ used' = [used EXCEPT ![s] = 0]
    /\ todo' = [todo EXCEPT ![s] = {}]
    /\ seq' = [seq EXCEPT ![s] = 0]

\* A call with BIT0 set and a message of n slices; without the bit, or with
\* more slices than a slice id can number, send_impl returns -1 at once.
SendEnter(s, n) ==
    /\ spc[s] = "idle"
    /\ SendBit \in flag
    /\ n <= MaxSlice
    /\ spc' = [spc EXCEPT ![s] = "mask"]
    /\ need' = [need EXCEPT ![s] = n]
    /\ UNCHANGED <<ringVars, slotVars, mask, oldTail, used, todo, seq,
                   rcvVars, allocVars, ctlVars, histVars>>

\* Load m_reader_flag; a ring nobody reads refuses the message.
LoadMask(s) ==
    /\ spc[s] = "mask"
    /\ \/ /\ readerFlag # {}
          /\ spc' = [spc EXCEPT ![s] = "tail"]
          /\ mask' = [mask EXCEPT ![s] = readerFlag]
          /\ UNCHANGED <<need, oldTail, used, todo, seq>>
       \/ readerFlag = {} /\ SendReturns(s)
    /\ UNCHANGED <<ringVars, slotVars, rcvVars, allocVars, ctlVars, histVars>>

\* Load m_tail and start slowest_head over the readers of the mask.
LoadTail(s) ==
    /\ spc[s] = "tail"
    /\ spc' = [spc EXCEPT ![s] = "scan"]
    /\ oldTail' = [oldTail EXCEPT ![s] = tail]
    /\ used' = [used EXCEPT ![s] = 0]
    /\ todo' = [todo EXCEPT ![s] = mask[s]]
    /\ UNCHANGED <<ringVars, slotVars, need, mask, seq,
                   rcvVars, allocVars, ctlVars, histVars>>

\* Mutant of LoadHead: the fastest reader counts instead of the slowest.
LoadHeadOfFastest(s) ==
    /\ spc[s] = "scan"
    /\ \E i \in LowestOf(todo[s]) :
          LET d == SeqSub(oldTail[s], readerHead[i])
          IN  /\ used' = [used EXCEPT ![s] = IF todo[s] = mask[s] \/ d < @ THEN d ELSE @]
              /\ todo' = [todo EXCEPT ![s] = @ \ {i}]
              /\ spc' = [spc EXCEPT ![s] = IF todo[s] = {i} THEN "cas" ELSE "scan"]
    /\ UNCHANGED <<ringVars, slotVars, need, mask, oldTail, seq,
                   rcvVars, allocVars, ctlVars, histVars>>

\* One iteration of slowest_head: load one head, keep the largest distance.
LoadHead(s) ==
    /\ spc[s] = "scan"
    /\ \E i \in LowestOf(todo[s]) :
          LET d == SeqSub(oldTail[s], readerHead[i])
          IN  /\ used' = [used EXCEPT ![s] = IF d > @ THEN d ELSE @]
              /\ todo' = [todo EXCEPT ![s] = @ \ {i}]
              /\ spc' = [spc EXCEPT ![s] = IF todo[s] = {i} THEN "cas" ELSE "scan"]
    /\ UNCHANGED <<ringVars, slotVars, need, mask, oldTail, seq,
                   rcvVars, allocVars, ctlVars, histVars>>

HasRoom(s) ==
    /\ used[s] < SlotCount - 1
    /\ SlotCount - 1 - used[s] >= need[s]

\* The ring is full as far as this sender can tell: send_impl returns -1.
SendFull(s) ==
    /\ spc[s] = "cas"
    /\ ~HasRoom(s)
    /\ SendReturns(s)
    /\ UNCHANGED <<ringVars, slotVars, rcvVars, allocVars, ctlVars, histVars>>

\* Mutant of Claim: a plain store of the new tail, no comparison.
ClaimStores(s) ==
    /\ spc[s] = "cas"
    /\ HasRoom(s)
    /\ oldTail[s] + need[s] <= MaxTail
    /\ tail' = oldTail[s] + need[s]
    /\ seq' = [seq EXCEPT ![s] = oldTail[s]]
    /\ spc' = [spc EXCEPT ![s] = "fill"]
    /\ msgLen' = [msgLen EXCEPT ![oldTail[s]] = need[s]]
    /\ UNCHANGED <<readerHead, readerFlag, sem, flag, slotVars,
                   need, mask, oldTail, used, todo,
                   rcvVars, allocVars, ctlVars, last, lost, spent>>

\* The compare-and-swap on m_tail succeeds: the slots belong to this sender.
Claim(s) ==
    /\ spc[s] = "cas"
    /\ HasRoom(s)
    /\ tail = oldTail[s]
    /\ tail + need[s] <= MaxTail
    /\ tail' = tail + need[s]
    /\ seq' = [seq EXCEPT ![s] = tail]
    /\ spc' = [spc EXCEPT ![s] = "fill"]
    /\ msgLen' = [msgLen EXCEPT ![tail] = need[s]]
    /\ UNCHANGED <<readerHead, readerFlag, sem, flag, slotVars,
                   need, mask, oldTail, used, todo,
                   rcvVars, allocVars, ctlVars, last, lost, spent>>

\* It fails, for a moved tail or (a weak CAS) for nothing: start over.
ClaimFails(s) ==
    /\ spc[s] = "cas"
    /\ HasRoom(s)
    /\ spc' = [spc EXCEPT ![s] = "mask"]
    /\ UNCHANGED <<ringVars, slotVars, need, mask, oldTail, used, todo, seq,
                   rcvVars, allocVars, ctlVars, histVars>>

\* Write the payload and the slice fields of one slot; only the first slice
\* of a message carries the slice count.
FillSlot(s) ==
    LET j == Idx(seq[s])
        first == seq[s] = oldTail[s]
    IN  /\ spc[s] = "fill"
        /\ mData' = [mData EXCEPT ![j] = seq[s]]
        /\ mSliceCount' = [mSliceCount EXCEPT ![j] = IF first THEN need[s] ELSE @]
        /\ mSliceId' = [mSliceId EXCEPT ![j] = seq[s] - oldTail[s]]
        /\ spc' = [spc EXCEPT ![s] = "commit"]
        /\ UNCHANGED <<ringVars, mSeq, need, mask, oldTail, used, todo, seq,
                       rcvVars, allocVars, ctlVars, histVars>>

\* Publish the slot (the release store of m_seq) and go to the next slice.
CommitSlot(s) ==
    /\ spc[s] = "commit"
    /\ mSeq' = [mSeq EXCEPT ![Idx(seq[s])] = seq[s] + 1]
    /\ seq' = [seq EXCEPT ![s] = @ + 1]
    /\ IF seq[s] + 1 = oldTail[s] + need[s]
       THEN /\ spc' = [spc EXCEPT ![s] = "post"]
            /\ todo' = [todo EXCEPT ![s] = mask[s]]
       ELSE /\ spc' = [spc EXCEPT ![s] = "fill"]
            /\ UNCHANGED todo
    /\ UNCHANGED <<ringVars, mSliceId, mSliceCount, mData,
                   need, mask, oldTail, used,
                   rcvVars, allocVars, ctlVars, histVars>>

\* Mutant of Post: no token for a reader that still has one.
PostIfZero(s) ==
    /\ spc[s] = "post"
    /\ \E i \in LowestOf(todo[s]) :
          /\ sem' = [sem EXCEPT ![i] = IF @ = 0 THEN 1 ELSE @]
          /\ \/ /\ todo[s] # {i}
                /\ todo' = [todo EXCEPT ![s] = @ \ {i}]
                /\ UNCHANGED <<spc, need, mask, oldTail, used, seq>>
             \/ todo[s] = {i} /\ SendReturns(s)
    /\ UNCHANGED <<tail, readerHead, readerFlag, flag, slotVars,
                   rcvVars, allocVars, ctlVars, histVars>>

\* Mutant of Post: only the readers registered by now get a token.
PostRegistered(s) ==
    /\ spc[s] = "post"
    /\ \E i \in LowestOf(todo[s]) :
          /\ sem' = [sem EXCEPT ![i] = IF i \in readerFlag THEN @ + 1 ELSE @]
          /\ \/ /\ todo[s] # {i}
                /\ todo' = [todo EXCEPT ![s] = @ \ {i}]
                /\ UNCHANGED <<spc, need, mask, oldTail, used, seq>>
             \/ todo[s] = {i} /\ SendReturns(s)
    /\ UNCHANGED <<tail, readerHead, readerFlag, flag, slotVars,
                   rcvVars, allocVars, ctlVars, histVars>>

\* post_reader_sems: one token per reader of the mask loaded before the claim.
Post(s) ==
    /\ spc[s] = "post"
    /\ \E i \in LowestOf(todo[s]) :
          /\ sem' = [sem EXCEPT ![i] = @ + 1]
          /\ \/ /\ todo[s] # {i}
                /\ todo' = [todo EXCEPT ![s] = @ \ {i}]
                /\ UNCHANGED <<spc, need, mask, oldTail, used, seq>>
             \/ todo[s] = {i} /\ SendReturns(s)
    /\ UNCHANGED <<tail, readerHead, readerFlag, flag, slotVars,
                   rcvVars, allocVars, ctlVars, histVars>>

\* The process dies after its claim: its slots stay claimed, the tokens it
\* had not posted are never posted.  Dying before the claim changes nothing
\* another process sees, and is one of the returns above.
CrashSender(s) ==
    LET owed == IF spc[s] = "post" THEN todo[s] ELSE mask[s]
    IN  /\ spc[s] \in {"fill", "commit", "post"}
        /\ Spend("senderCrash")
        /\ SendReturns(s)
        /\ lost' = [i \in ReaderSlots |-> IF i \in owed THEN lost[i] + 1 ELSE lost[i]]
        /\ UNCHANGED <<ringVars, slotVars, rcvVars, allocVars, ctlVars,
                       msgLen, last>>

SenderStep(s) ==
    \/ LoadMask(s) \/ LoadTail(s) \/ LoadHead(s)
    \/ SendFull(s) \/ Claim(s) \/ ClaimFails(s)
    \/ FillSlot(s) \/ CommitSlot(s) \/ Post(s)

-----------------------------------------------------------------------------
(* recv_impl *)

\* Sequence numbers below q that a live sender has claimed and not published.
LiveBelow(q) ==
    {p \in 0 .. q - 1 : \E s \in Senders :
        /\ spc[s] \in {"fill", "commit"}
        /\ seq[s] <= p
        /\ p < oldTail[s] + need[s]}

\* The first test of recv_impl; without BIT1 it returns 0 at once.
RecvEnter(i) ==
    /\ rpc[i] = "idle"
    /\ RecvBit \in flag
    /\ rpc' = [rpc EXCEPT ![i] = "wait"]
    /\ UNCHANGED <<ringVars, slotVars, sndVars, head, sliceCount, slicesDone, buf,
                   allocVars, ctlVars, histVars>>

\* sem_wait returns and BIT1 still stands.
SemWait(i) ==
    /\ rpc[i] = "wait"
    /\ sem[i] > 0
    /\ RecvBit \in flag
    /\ sem' = [sem EXCEPT ![i] = @ - 1]
    /\ rpc' = [rpc EXCEPT ![i] = "loop"]
    /\ UNCHANGED <<tail, readerHead, readerFlag, flag, slotVars, sndVars,
                   head, sliceCount, slicesDone, buf,
                   allocVars, ctlVars, histVars>>

\* sem_wait returns and receiving was disabled meanwhile: recv_impl returns 0,
\* the token is spent and no slot was read.
SemWaitDisabled(i) ==
    /\ rpc[i] = "wait"
    /\ sem[i] > 0
    /\ RecvBit \notin flag
    /\ sem' = [sem EXCEPT ![i] = @ - 1]
    /\ rpc' = [rpc EXCEPT ![i] = "idle"]
    /\ lost' = [lost EXCEPT ![i] = @ + 1]
    /\ UNCHANGED <<tail, readerHead, readerFlag, flag, slotVars, sndVars,
                   head, sliceCount, slicesDone, buf,
                   allocVars, ctlVars, msgLen, last, spent>>

\* The message being assembled is dropped.
ClearAssembly(i) ==
    /\ sliceCount' = [sliceCount EXCEPT ![i] = 0]
    /\ slicesDone' = [slicesDone EXCEPT ![i] = 0]
    /\ buf' = [buf EXCEPT ![i] = {}]

\* The cursor moves to q and is published in m_reader_head.
AdvanceTo(i, q) ==
    /\ head' = [head EXCEPT ![i] = q]
    /\ readerHead' = [readerHead EXCEPT ![i] = q]

\* head = tail: leave the loop with nothing (an incomplete message is cleared).
RecvEmpty(i) ==
    /\ rpc[i] = "loop"
    /\ head[i] = tail
    /\ rpc' = [rpc EXCEPT ![i] = "idle"]
    /\ ClearAssembly(i)
    /\ AdvanceTo(i, head[i])
    /\ UNCHANGED <<tail, readerFlag, sem, flag, slotVars, sndVars,
                   allocVars, ctlVars, histVars>>

\* Mutant of Committed: a flag instead of the sequence number.
CommittedOnce(q) == mSeq[Idx(q)] # 0

Committed(q) == mSeq[Idx(q)] = q + 1

\* The acquire load of m_seq finds the slot at the cursor published.
FindCommitted(i) ==
    /\ rpc[i] = "loop"
    /\ head[i] # tail
    /\ Committed(head[i])
    /\ rpc' = [rpc EXCEPT ![i] = "copy"]
    /\ UNCHANGED <<ringVars, slotVars, sndVars, head, sliceCount, slicesDone, buf,
                   allocVars, ctlVars, histVars>>

\* How far the scan for a published slot goes.
ScanEnd(h) == IF tail - h > MaxSlice THEN h + MaxSlice ELSE tail

\* Mutant of RecvTimeout: the assembly is dropped and the wait begins again.
RecvTimeoutWaitsAgain(i) ==
    /\ rpc[i] = "loop"
    /\ head[i] # tail
    /\ ~Committed(head[i])
    /\ Timely => \A p \in LiveBelow(tail) : p < head[i]
    /\ ClearAssembly(i)
    /\ UNCHANGED <<rpc, head, ringVars, slotVars, sndVars, allocVars, ctlVars, histVars>>

\* Mutant of RecvTimeout: a slot that is not published is passed at once.
RecvTimeoutAtOnce(i) ==
    /\ rpc[i] = "loop"
    /\ head[i] # tail
    /\ ~Committed(head[i])
    /\ \E q \in head[i] + 1 .. ScanEnd(head[i]) :
          /\ \A p \in head[i] .. q - 1 : ~Committed(p)
          /\ q = ScanEnd(head[i]) \/ Committed(q)
          /\ AdvanceTo(i, q)
    /\ ClearAssembly(i)
    /\ rpc' = [rpc EXCEPT ![i] = "idle"]
    /\ UNCHANGED <<tail, readerFlag, sem, flag, slotVars, sndVars,
                   allocVars, ctlVars, histVars>>

\* The slot at the cursor stays unpublished for longer than m_slot_timeout:
\* jump to the first published slot, the tail, or MAX_SLICE_COUNT further on,
\* whichever comes first, and return 0.
RecvTimeout(i) ==
    /\ rpc[i] = "loop"
    /\ head[i] # tail
    /\ ~Committed(head[i])
    /\ \E q \in head[i] + 1 .. ScanEnd(head[i]) :
          /\ \A p \in head[i] .. q - 1 : ~Committed(p)
          /\ q = ScanEnd(head[i]) \/ Committed(q)
          /\ Timely => \A p \in LiveBelow(q) : p < head[i]
          /\ AdvanceTo(i, q)
    /\ ClearAssembly(i)
    /\ rpc' = [rpc EXCEPT ![i] = "idle"]
    /\ UNCHANGED <<tail, readerFlag, sem, flag, slotVars, sndVars,
                   allocVars, ctlVars, histVars>>

\* Mutant of CopySlice: the loop ends one slice early.
CopySliceOneFewer(i, count) ==
    LET content == buf[i] \cup {mData[Idx(head[i])]}
        done == slicesDone[i] + 1 >= count - 1
    IN  /\ AdvanceTo(i, head[i] + 1)
        /\ \/ /\ done
              /\ last' = [last EXCEPT ![i] = content]
              /\ rpc' = [rpc EXCEPT ![i] = "idle"]
              /\ ClearAssembly(i)
           \/ /\ ~done
              /\ buf' = [buf EXCEPT ![i] = content]
              /\ sliceCount' = [sliceCount EXCEPT ![i] = count]
              /\ slicesDone' = [slicesDone EXCEPT ![i] = @ + 1]
              /\ rpc' = [rpc EXCEPT ![i] = "loop"]
              /\ UNCHANGED last
        /\ UNCHANGED <<tail, readerFlag, sem, flag, slotVars, sndVars,
                       allocVars, ctlVars, msgLen, lost, spent>>

\* The message is complete: recv_impl returns and ReceiveMessage hands the
\* buffer to the handler.  Otherwise the loop goes on.
CopySlice(i, count) ==
    LET content == buf[i] \cup {mData[Idx(head[i])]}
        done == slicesDone[i] + 1 >= count
    IN  /\ AdvanceTo(i, head[i] + 1)
        /\ \/ /\ done
              /\ last' = [last EXCEPT ![i] = content]
              /\ rpc' = [rpc EXCEPT ![i] = "idle"]
              /\ ClearAssembly(i)
           \/ /\ ~done
              /\ buf' = [buf EXCEPT ![i] = content]
              /\ sliceCount' = [sliceCount EXCEPT ![i] = count]
              /\ slicesDone' = [slicesDone EXCEPT ![i] = @ + 1]
              /\ rpc' = [rpc EXCEPT ![i] = "loop"]
              /\ UNCHANGED last
        /\ UNCHANGED <<tail, readerFlag, sem, flag, slotVars, sndVars,
                       allocVars, ctlVars, msgLen, lost, spent>>

\* Mutant of SkipSlice: the cursor is moved past the slot twice.
SkipTwoSlices(i) ==
    /\ AdvanceTo(i, head[i] + 2)
    /\ ClearAssembly(i)
    /\ rpc' = [rpc EXCEPT ![i] = "loop"]
    /\ UNCHANGED <<tail, readerFlag, sem, flag, slotVars, sndVars,
                   allocVars, ctlVars, histVars>>

\* Skip the slot at the cursor and go on with an empty assembly.
SkipSlice(i) ==
    /\ AdvanceTo(i, head[i] + 1)
    /\ ClearAssembly(i)
    /\ rpc' = [rpc EXCEPT ![i] = "loop"]
    /\ UNCHANGED <<tail, readerFlag, sem, flag, slotVars, sndVars,
                   allocVars, ctlVars, histVars>>

StartsMessage(j) == mSliceId[j] = 0 /\ mSliceCount[j] # 0

\* The slot at the cursor is the next slice of the message being assembled, or
\* the first one of a message when there is none.
Continues(i) ==
    IF sliceCount[i] = 0 THEN StartsMessage(Idx(head[i]))
    ELSE mSliceId[Idx(head[i])] = slicesDone[i]

CopyFirst(i) ==
    /\ rpc[i] = "copy"
    /\ sliceCount[i] = 0
    /\ Continues(i)
    /\ CopySlice(i, mSliceCount[Idx(head[i])])

CopyNext(i) ==
    /\ rpc[i] = "copy"
    /\ sliceCount[i] # 0
    /\ Continues(i)
    /\ CopySlice(i, sliceCount[i])

\* A slice in the middle of a message this reader did not start, or of another
\* message than the one being assembled, which is dropped with it.
SkipForeign(i) ==
    /\ rpc[i] = "copy"
    /\ ~Continues(i)
    /\ SkipSlice(i)

ReaderStep(i) ==
    \/ RecvEnter(i) \/ SemWait(i) \/ SemWaitDisabled(i)
    \/ RecvEmpty(i) \/ FindCommitted(i) \/ RecvTimeout(i)
    \/ CopyFirst(i) \/ CopyNext(i) \/ SkipForeign(i)

-----------------------------------------------------------------------------
(* Readers come and go: an index is allocated, the reading process attaches *)
(* to it, and the daemon frees it once the process has died.  A process    *)
(* that takes up its inbox allocates before it starts its receiving thread *)
(* (ShmManager.cpp:219-223), so that nobody reads under an index that is   *)
(* given out.  That holds for an inbox.  A channel that is left on request *)
(* does not keep to it: StreamRingHandover.                                *)

FreeSlots(f) == ReaderSlots \ f

\* alloc_reader_slot loads m_reader_flag, for a reader that does not run yet.
AllocLoad ==
    /\ apc = "idle"
    /\ \E i \in LowestOf(FreeSlots(readerFlag)) : rpc[i] = "off"
    /\ Spend("alloc")
    /\ apc' = "tail"
    /\ aOld' = readerFlag
    /\ UNCHANGED <<ringVars, slotVars, sndVars, rcvVars, aIdx, aTail, ctlVars,
                   msgLen, last, lost>>

\* The lowest free index, and a load of m_tail to start it at.
AllocTail ==
    /\ apc = "tail"
    /\ apc' = "store"
    /\ aIdx' \in LowestOf(FreeSlots(aOld))
    /\ aTail' = tail
    /\ UNCHANGED <<ringVars, slotVars, sndVars, rcvVars, aOld, ctlVars, histVars>>

\* Store it in m_reader_head.  No reader protects the slots below the new head any
\* more; when Timely, the sends that hold them have finished by then.
AllocStore ==
    /\ apc = "store"
    /\ Timely => LiveBelow(aTail) = {}
    /\ apc' = "cas"
    /\ readerHead' = [readerHead EXCEPT ![aIdx] = aTail]
    /\ UNCHANGED <<tail, readerFlag, sem, flag, slotVars, sndVars, rcvVars,
                   aOld, aIdx, aTail, ctlVars, histVars>>

\* The compare-and-swap on m_reader_flag makes the reader visible to senders.
AllocCas ==
    /\ apc = "cas"
    /\ readerFlag = aOld
    /\ apc' = "idle"
    /\ readerFlag' = readerFlag \cup {aIdx}
    /\ aOld' = {}
    /\ aIdx' = NoReader
    /\ aTail' = 0
    /\ UNCHANGED <<tail, readerHead, sem, flag, slotVars, sndVars, rcvVars,
                   ctlVars, histVars>>

\* It fails and reloads the mask; the loop picks an index again.
AllocCasFails ==
    /\ apc = "cas"
    /\ apc' = "tail"
    /\ aOld' = readerFlag
    /\ UNCHANGED <<ringVars, slotVars, sndVars, rcvVars, aIdx, aTail, ctlVars, histVars>>

\* set_reader_index, before the receiving thread starts: the process takes up the
\* slot, freshly allocated or still allocated from before its restart, at the
\* published head.
Attach(i) ==
    /\ rpc[i] = "off"
    /\ i \in readerFlag
    /\ rpc' = [rpc EXCEPT ![i] = "idle"]
    /\ head' = [head EXCEPT ![i] = readerHead[i]]
    /\ UNCHANGED <<ringVars, slotVars, sndVars, sliceCount, slicesDone, buf,
                   allocVars, ctlVars, histVars>>

\* free_reader_slot: clear the bit, and post so that the reader wakes up.
FreeReaderSlot(i) ==
    /\ readerFlag' = readerFlag \ {i}
    /\ sem' = [sem EXCEPT ![i] = @ + 1]

\* The reading process dies; a token it took for a message not yet delivered
\* dies with it, and the daemon will learn of it.
CrashReader(i) ==
    /\ rpc[i] # "off"
    /\ Spend("readerCrash")
    /\ rpc' = [rpc EXCEPT ![i] = "off"]
    /\ ClearAssembly(i)
    /\ drops' = [drops EXCEPT ![i] = @ + 1]
    /\ lost' = [lost EXCEPT ![i] = IF rpc[i] \in {"loop", "copy"} THEN @ + 1 ELSE @]
    /\ UNCHANGED <<ringVars, slotVars, sndVars, head, allocVars, wpc, wtodo,
                   msgLen, last>>

\* handleProcessCrash in the daemon drops the reader of the dead process,
\* however late: the process may be running again by then.
DropReader(i) ==
    /\ drops[i] > 0
    /\ drops' = [drops EXCEPT ![i] = @ - 1]
    /\ FreeReaderSlot(i)
    /\ UNCHANGED <<tail, readerHead, flag, slotVars, sndVars, rcvVars, allocVars,
                   wpc, wtodo, histVars>>

SetFlag(f) ==
    /\ Spend("setFlag")
    /\ flag' = f
    /\ UNCHANGED <<tail, readerHead, readerFlag, sem, slotVars, sndVars, rcvVars,
                   allocVars, ctlVars, msgLen, last, lost>>

\* wakeup_recv clears BIT1 ...
WakeupClear ==
    /\ wpc = "idle"
    /\ Spend("wakeup")
    /\ flag' = flag \ {RecvBit}
    /\ wpc' = "mask"
    /\ UNCHANGED <<tail, readerHead, readerFlag, sem, slotVars, sndVars, rcvVars,
                   allocVars, drops, wtodo, msgLen, last, lost>>

\* ... loads the mask ...
WakeupMask ==
    /\ wpc = "mask"
    /\ wpc' = IF readerFlag = {} THEN "idle" ELSE "post"
    /\ wtodo' = readerFlag
    /\ UNCHANGED <<ringVars, slotVars, sndVars, rcvVars, allocVars, drops, histVars>>

\* ... and posts the readers that are in it.
WakeupPost ==
    /\ wpc = "post"
    /\ \E i \in LowestOf(wtodo) :
          /\ sem' = [sem EXCEPT ![i] = @ + 1]
          /\ wtodo' = wtodo \ {i}
          /\ wpc' = IF wtodo = {i} THEN "idle" ELSE "post"
    /\ UNCHANGED <<tail, readerHead, readerFlag, flag, slotVars, sndVars, rcvVars,
                   allocVars, drops, histVars>>

WakeupRecv == WakeupClear \/ WakeupMask \/ WakeupPost

Alloc == AllocLoad \/ AllocTail \/ AllocStore \/ AllocCas \/ AllocCasFails

Next ==
    \/ \E s \in Senders : \/ \E n \in Needs : SendEnter(s, n)
                          \/ SenderStep(s)
                          \/ CrashSender(s)
    \/ \E i \in ReaderSlots : \/ ReaderStep(i)
                              \/ Attach(i) \/ CrashReader(i) \/ DropReader(i)
    \/ Alloc
    \/ \E f \in FlagValues : SetFlag(f)
    \/ WakeupRecv

Spec == Init /\ [][Next]_vars

\* Every thread that is inside send or recv keeps running, and a process that
\* has a reader slot takes it up: set_reader_index follows in the same function.
FairSpec ==
    /\ Spec
    /\ \A s \in Senders : WF_vars(SenderStep(s))
    /\ \A i \in ReaderSlots : WF_vars(ReaderStep(i)) /\ WF_vars(Attach(i))

-----------------------------------------------------------------------------
(* What the ring promises. *)

HeaderType ==
    /\ tail \in Pos
    /\ readerHead \in [ReaderSlots -> Pos]
    /\ readerFlag \subseteq ReaderSlots
    /\ sem \in [ReaderSlots -> Nat]
    /\ flag \subseteq {SendBit, RecvBit}

SlotType ==
    /\ mSeq \in [Slot -> 0 .. MaxTail + 1]
    /\ mSliceId \in [Slot -> Nat]
    /\ mSliceCount \in [Slot -> Nat]
    /\ mData \in [Slot -> Pos]

SenderType ==
    /\ spc \in [Senders -> {"idle", "mask", "tail", "scan", "cas",
                            "fill", "commit", "post"}]
    /\ need \in [Senders -> Nat]
    /\ mask \in [Senders -> SUBSET ReaderSlots]
    /\ oldTail \in [Senders -> Pos]
    /\ used \in [Senders -> Nat]
    /\ todo \in [Senders -> SUBSET ReaderSlots]
    /\ seq \in [Senders -> Pos]

ReaderType ==
    /\ rpc \in [ReaderSlots -> {"off", "idle", "wait", "loop", "copy"}]
    /\ head \in [ReaderSlots -> Pos]
    /\ sliceCount \in [ReaderSlots -> Nat]
    /\ slicesDone \in [ReaderSlots -> Nat]
    /\ buf \in [ReaderSlots -> SUBSET Pos]

ControlType ==
    /\ apc \in {"idle", "tail", "store", "cas"}
    /\ aOld \subseteq ReaderSlots
    /\ aIdx \in ReaderSlots \cup {NoReader}
    /\ apc \in {"store", "cas"} => aIdx \in ReaderSlots
    /\ aTail \in Pos
    /\ drops \in [ReaderSlots -> Nat]
    /\ wpc \in {"idle", "mask", "post"}
    /\ wtodo \subseteq ReaderSlots

HistoryType ==
    /\ msgLen \in [Pos -> Nat]
    /\ last \in [ReaderSlots -> SUBSET Pos]
    /\ lost \in [ReaderSlots -> Nat]
    /\ spent \in [EventKinds -> Nat]

\* Every variable keeps its shape: sequence numbers stay in their range, and the
\* masks, indexes and cursors of send and recv within the readers of the ring.
TypeOK ==
    HeaderType /\ SlotType /\ SenderType /\ ReaderType /\ ControlType /\ HistoryType

\* The room test of send_impl, made with a tail and heads loaded one by one
\* while other senders claim and readers move, never lets the ring hold more
\* than m_slot_count - 1 slots a registered reader has not consumed.
WindowBound ==
    \A i \in readerFlag :
        /\ readerHead[i] <= tail
        /\ tail - readerHead[i] <= SlotCount - 1

Writing(s) == spc[s] \in {"fill", "commit"}

\* "A consumer reads a slot only after its data is completely written"
\* (ShmManager.cpp:6): no sender writes the slot a reader is copying from.
ReadsOnlyCommitted ==
    \A i \in ReaderSlots, s \in Senders :
        rpc[i] = "copy" /\ Writing(s) => Idx(head[i]) # Idx(seq[s])

\* Two senders never write the same physical slot, whichever laps of the ring
\* their claims belong to (the point of claiming by compare-and-swap).
WritersDisjoint ==
    \A s, t \in Senders :
        s # t /\ Writing(s) /\ Writing(t) => Idx(seq[s]) # Idx(seq[t])

\* A reader that sleeps with every send finished has at most as many messages
\* left unread as tokens were lost to crashes and disabled wake-ups: a token is
\* posted after every publication and no message is left behind without a cause.
Unread(i) == {b \in Pos : msgLen[b] > 0 /\ b >= head[i]}

SleepersLagIsExplained ==
    \A i \in ReaderSlots :
        /\ rpc[i] = "wait"
        /\ sem[i] = 0
        /\ \A s \in Senders : spc[s] \notin {"fill", "commit", "post"}
        => Cardinality(Unread(i)) <= lost[i]

\* A reader inside recv comes out of it: the slots of a sender that died after
\* its claim are timed out, and no slot is waited for forever.
RecvReturns ==
    \A i \in ReaderSlots :
        rpc[i] \in {"loop", "copy"} ~> rpc[i] \notin {"loop", "copy"}

\* As long as no sender dies every reader catches up with the claims: their
\* number is bounded, so a reader that is woken for each consumes the last.
EveryClaimIsConsumed ==
    \A i \in ReaderSlots : head[i] < tail ~> (head[i] = tail \/ spent["senderCrash"] > 0)

-----------------------------------------------------------------------------
(* The ring implements an ordered channel: the messages are the sequence   *)
(* numbers claimed first, a message is accepted by the claim and received  *)
(* when it is handed to the handler.  A buffer that is not one whole       *)
(* message is mapped to a number no message has.                           *)

Accepted == {b \in Pos : msgLen[b] > 0}

Received(i) ==
    IF last[i] = {} THEN 0
    ELSE IF \E b \in Accepted : last[i] = Span(b)
         THEN 1 + CHOOSE b \in Accepted : last[i] = Span(b)
         ELSE MaxTail + 2

Channel == INSTANCE OrderedChannel WITH
    Readers <- ReaderSlots,
    Messages <- Pos,
    accepted <- Accepted,
    received <- [i \in ReaderSlots |-> Received(i)],
    lossy <- \E k \in EventKinds : spent[k] > 0

\* recv hands over whole messages in the order of the claims, none twice; until the
\* first reader joins late, process dies or flag is changed, none is missed.
ImplementsOrderedChannel == Channel!Spec
=============================================================================
