-------------------------- MODULE StreamRingProofs --------------------------
(***************************************************************************)
(* Proofs about StreamRing, for every number of senders, slots and slices  *)
(* and every budget of events, in five parts:                              *)
(*                                                                         *)
(*   types     TypeInv, for any set of readers;                            *)
(*   window    WindowInv: the ring never holds more than SlotCount - 1     *)
(*             slots a reader has not consumed, when every mask a sender   *)
(*             loads names all readers or none (WholeMasks);               *)
(*   slots     SlotInv: who may touch a slot, when moreover no live sender *)
(*             outlasts the slot timeout (Timely);                         *)
(*   channel   ChannelInv: what slots and buffers hold, and the refinement *)
(*             of OrderedChannel;                                          *)
(*   tokens    TokenInv: every message a reader has not passed has a token *)
(*             on its semaphore, promised, taken or lost.                  *)
(***************************************************************************)
EXTENDS StreamRingInv, DataLemmas, FiniteSetTheorems

USE RegisteredAssumption, SlotCountAssumption, MaxTailAssumption, NeedsAssumption,
    SeqSpanAssumption, MaxSliceAssumption, FlagValuesAssumption

\* A slot index is a remainder modulo the slot count.
LEMMA IdxIsSlot == ASSUME NEW q \in Nat PROVE Idx(q) \in Slot
BY DEF Idx, Slot

\* Counting an event keeps the counters natural numbers.
LEMMA SpendKeepsType ==
    ASSUME NEW k \in EventKinds, spent \in [EventKinds -> Nat], Spend(k)
    PROVE  spent' \in [EventKinds -> Nat]
BY DEF Spend

-----------------------------------------------------------------------------
(* Type correctness: TypeInv is inductive.                                 *)

LEMMA TypeInvInit == Init => TypeInv
<1> SUFFICES ASSUME Init PROVE TypeInv
  OBVIOUS
<1>1. TypeOK
  BY DEF Init, TypeOK, HeaderType, SlotType, SenderType, ReaderType, ControlType,
         HistoryType, Pos, Slot, SendBit, RecvBit, NoReader
<1>2. BehindTail
  BY DEF Init, BehindTail, Writing
<1> QED BY <1>1, <1>2 DEF TypeInv

LEMMA TypeInvStutters == TypeInv /\ UNCHANGED vars => TypeInv'
BY DEF TypeInv, TypeOK, BehindTail, Writing, HeaderType, SlotType, SenderType,
       ReaderType, ControlType, HistoryType, vars, ringVars, slotVars, sndVars,
       rcvVars, allocVars, ctlVars, histVars

LEMMA TypeInvSendEnter ==
    ASSUME TypeInv, NEW s \in Senders, NEW n \in Needs, SendEnter(s, n) PROVE
           TypeInv'
<1>1. HeaderType' /\ SlotType' /\ ReaderType' /\ ControlType' /\ HistoryType'
  BY DEF TypeInv, TypeOK, HeaderType, SlotType, ReaderType, ControlType,
         HistoryType, SendEnter, ringVars, slotVars, rcvVars, allocVars,
         ctlVars, histVars
<1>2. SenderType'
  BY DEF TypeInv, TypeOK, SenderType, HeaderType, SendEnter, Pos, sndVars
<1>3. BehindTail'
  BY DEF TypeInv, TypeOK, BehindTail, Writing, HeaderType, SenderType,
         ReaderType, ControlType, SendEnter, Pos, ringVars, sndVars, rcvVars,
         allocVars, ctlVars
<1> QED BY <1>1, <1>2, <1>3 DEF TypeInv, TypeOK

LEMMA TypeInvLoadMask ==
    ASSUME TypeInv, NEW s \in Senders, LoadMask(s) PROVE TypeInv'
<1>1. HeaderType' /\ SlotType' /\ ReaderType' /\ ControlType' /\ HistoryType'
  BY DEF TypeInv, TypeOK, HeaderType, SlotType, ReaderType, ControlType,
         HistoryType, LoadMask, SendReturns, ringVars, slotVars, rcvVars,
         allocVars, ctlVars, histVars
<1>2. SenderType'
  BY DEF TypeInv, TypeOK, SenderType, HeaderType, LoadMask, SendReturns, Pos,
         sndVars
<1>3. BehindTail'
  BY DEF TypeInv, TypeOK, BehindTail, Writing, HeaderType, SenderType,
         ReaderType, ControlType, LoadMask, SendReturns, Pos, ringVars,
         sndVars, rcvVars, allocVars, ctlVars
<1> QED BY <1>1, <1>2, <1>3 DEF TypeInv, TypeOK

LEMMA TypeInvLoadTail ==
    ASSUME TypeInv, NEW s \in Senders, LoadTail(s) PROVE TypeInv'
<1>1. HeaderType' /\ SlotType' /\ ReaderType' /\ ControlType' /\ HistoryType'
  BY DEF TypeInv, TypeOK, HeaderType, SlotType, ReaderType, ControlType,
         HistoryType, LoadTail, ringVars, slotVars, rcvVars, allocVars,
         ctlVars, histVars
<1>2. SenderType'
  BY DEF TypeInv, TypeOK, SenderType, HeaderType, LoadTail, Pos, sndVars
<1>3. BehindTail'
  BY DEF TypeInv, TypeOK, BehindTail, Writing, HeaderType, SenderType,
         ReaderType, ControlType, LoadTail, Pos, ringVars, sndVars, rcvVars,
         allocVars, ctlVars
<1> QED BY <1>1, <1>2, <1>3 DEF TypeInv, TypeOK

LEMMA TypeInvLoadHead ==
    ASSUME TypeInv, NEW s \in Senders, LoadHead(s) PROVE TypeInv'
<1>1. HeaderType' /\ SlotType' /\ ReaderType' /\ ControlType' /\ HistoryType'
  BY DEF TypeInv, TypeOK, HeaderType, SlotType, ReaderType, ControlType,
         HistoryType, LoadHead, ringVars, slotVars, rcvVars, allocVars,
         ctlVars, histVars
<1>2. SenderType'
  BY DEF TypeInv, TypeOK, SenderType, HeaderType, LoadHead, LowestOf, SeqSub,
         Pos, sndVars
<1>3. BehindTail'
  BY DEF TypeInv, TypeOK, BehindTail, Writing, HeaderType, SenderType,
         ReaderType, ControlType, LoadHead, LowestOf, SeqSub, Pos, ringVars,
         sndVars, rcvVars, allocVars, ctlVars
<1> QED BY <1>1, <1>2, <1>3 DEF TypeInv, TypeOK

LEMMA TypeInvSendFull ==
    ASSUME TypeInv, NEW s \in Senders, SendFull(s) PROVE TypeInv'
<1>1. HeaderType' /\ SlotType' /\ ReaderType' /\ ControlType' /\ HistoryType'
  BY DEF TypeInv, TypeOK, HeaderType, SlotType, ReaderType, ControlType,
         HistoryType, SendFull, SendReturns, ringVars, slotVars, rcvVars,
         allocVars, ctlVars, histVars
<1>2. SenderType'
  BY DEF TypeInv, TypeOK, SenderType, SendFull, SendReturns, Pos, sndVars
<1>3. BehindTail'
  BY DEF TypeInv, TypeOK, BehindTail, Writing, HeaderType, SenderType,
         ReaderType, ControlType, SendFull, SendReturns, Pos, ringVars,
         sndVars, rcvVars, allocVars, ctlVars
<1> QED BY <1>1, <1>2, <1>3 DEF TypeInv, TypeOK

LEMMA TypeInvClaim ==
    ASSUME TypeInv, NEW s \in Senders, Claim(s) PROVE TypeInv'
<1>1. SlotType' /\ ReaderType' /\ ControlType'
  BY DEF TypeInv, TypeOK, SlotType, ReaderType, ControlType, Claim, slotVars,
         rcvVars, allocVars, ctlVars
<1>2. HeaderType'
  BY DEF TypeInv, TypeOK, HeaderType, SenderType, HistoryType, Claim, Pos,
         ringVars
<1>3. SenderType'
  BY DEF TypeInv, TypeOK, SenderType, HeaderType, HistoryType, Claim, Pos,
         sndVars
<1>4. HistoryType'
  BY DEF TypeInv, TypeOK, HistoryType, HeaderType, SenderType, Claim, Pos,
         histVars
<1>5. BehindTail'
  BY DEF TypeInv, TypeOK, BehindTail, Writing, HeaderType, SenderType,
         ReaderType, ControlType, Claim, Pos, ringVars, sndVars, rcvVars,
         allocVars, ctlVars
<1> QED BY <1>1, <1>2, <1>3, <1>4, <1>5 DEF TypeInv, TypeOK

LEMMA TypeInvClaimFails ==
    ASSUME TypeInv, NEW s \in Senders, ClaimFails(s) PROVE TypeInv'
<1>1. HeaderType' /\ SlotType' /\ ReaderType' /\ ControlType' /\ HistoryType'
  BY DEF TypeInv, TypeOK, HeaderType, SlotType, ReaderType, ControlType,
         HistoryType, ClaimFails, ringVars, slotVars, rcvVars, allocVars,
         ctlVars, histVars
<1>2. SenderType'
  BY DEF TypeInv, TypeOK, SenderType, ClaimFails, Pos, sndVars
<1>3. BehindTail'
  BY DEF TypeInv, TypeOK, BehindTail, Writing, HeaderType, SenderType,
         ReaderType, ControlType, ClaimFails, Pos, ringVars, sndVars, rcvVars,
         allocVars, ctlVars
<1> QED BY <1>1, <1>2, <1>3 DEF TypeInv, TypeOK

LEMMA TypeInvFillSlot ==
    ASSUME TypeInv, NEW s \in Senders, FillSlot(s) PROVE TypeInv'
<1>1. HeaderType' /\ ReaderType' /\ ControlType' /\ HistoryType'
  BY DEF TypeInv, TypeOK, HeaderType, ReaderType, ControlType, HistoryType,
         FillSlot, ringVars, rcvVars, allocVars, ctlVars, histVars
<1>2. /\ seq[s] \in Pos
      /\ need[s] \in Nat
      /\ seq[s] - oldTail[s] \in Nat
  BY DEF TypeInv, TypeOK, SenderType, BehindTail, Writing, FillSlot, Pos
<1>3. SlotType'
  BY <1>2 DEF TypeInv, TypeOK, SlotType, FillSlot
<1>4. SenderType'
  BY DEF TypeInv, TypeOK, SenderType, FillSlot
<1>5. BehindTail'
  BY DEF TypeInv, TypeOK, BehindTail, Writing, SenderType, FillSlot,
         ringVars, rcvVars, allocVars
<1> QED BY <1>1, <1>3, <1>4, <1>5 DEF TypeInv, TypeOK

LEMMA TypeInvCommitSlot ==
    ASSUME TypeInv, NEW s \in Senders, CommitSlot(s) PROVE TypeInv'
<1>1. HeaderType' /\ ReaderType' /\ ControlType' /\ HistoryType'
  BY DEF TypeInv, TypeOK, HeaderType, ReaderType, ControlType, HistoryType,
         CommitSlot, ringVars, rcvVars, allocVars, ctlVars, histVars
<1>2. /\ seq[s] \in Nat
      /\ seq[s] + 1 \in Pos
      /\ seq[s] + 1 <= oldTail[s] + need[s]
  BY MaxTailAssumption
     DEF TypeInv, TypeOK, HeaderType, SenderType, BehindTail, Writing, CommitSlot, Pos
<1>3. SlotType'
  <2>1. seq[s] + 1 \in 0 .. MaxTail + 1
    BY <1>2 DEF Pos
  <2> QED BY <2>1 DEF TypeInv, TypeOK, SlotType, CommitSlot
<1>4. SenderType'
  BY <1>2 DEF TypeInv, TypeOK, SenderType, CommitSlot
<1>5. BehindTail'
  BY <1>2 DEF TypeInv, TypeOK, BehindTail, Writing, HeaderType, SenderType, CommitSlot,
              Pos, ringVars, rcvVars, allocVars
<1> QED BY <1>1, <1>3, <1>4, <1>5 DEF TypeInv, TypeOK

LEMMA TypeInvPost ==
    ASSUME TypeInv, NEW s \in Senders, Post(s) PROVE TypeInv'
<1>1. SlotType' /\ ReaderType' /\ ControlType' /\ HistoryType'
  BY DEF TypeInv, TypeOK, SlotType, ReaderType, ControlType, HistoryType, Post,
         SendReturns, slotVars, rcvVars, allocVars, ctlVars, histVars
<1>2. HeaderType'
  BY DEF TypeInv, TypeOK, HeaderType, SenderType, Post, SendReturns, LowestOf,
         Pos, ringVars
<1>3. SenderType'
  BY DEF TypeInv, TypeOK, SenderType, HeaderType, Post, SendReturns, LowestOf,
         Pos, sndVars
<1>4. BehindTail'
  BY DEF TypeInv, TypeOK, BehindTail, Writing, HeaderType, SenderType,
         ReaderType, ControlType, Post, SendReturns, LowestOf, Pos, ringVars,
         sndVars, rcvVars, allocVars, ctlVars
<1> QED BY <1>1, <1>2, <1>3, <1>4 DEF TypeInv, TypeOK

LEMMA TypeInvCrashSender ==
    ASSUME TypeInv, NEW s \in Senders, CrashSender(s) PROVE TypeInv'
<1>1. HeaderType' /\ SlotType' /\ ReaderType' /\ ControlType'
  BY DEF TypeInv, TypeOK, HeaderType, SlotType, ReaderType, ControlType,
         CrashSender, SendReturns, Spend, ringVars, slotVars, rcvVars,
         allocVars, ctlVars
<1>2. SenderType'
  BY DEF TypeInv, TypeOK, SenderType, HistoryType, CrashSender, SendReturns,
         Spend, Pos, sndVars
<1>3. HistoryType'
  <2>1. spent' \in [EventKinds -> Nat]
    BY SpendKeepsType DEF TypeInv, TypeOK, HistoryType, EventKinds, CrashSender
  <2> QED BY <2>1 DEF TypeInv, TypeOK, HistoryType, SenderType, CrashSender,
         SendReturns, Pos, histVars
<1>4. BehindTail'
  BY DEF TypeInv, TypeOK, BehindTail, Writing, HeaderType, SenderType,
         ReaderType, ControlType, CrashSender, SendReturns, Spend, Pos,
         ringVars, sndVars, rcvVars, allocVars, ctlVars
<1> QED BY <1>1, <1>2, <1>3, <1>4 DEF TypeInv, TypeOK

LEMMA TypeInvRecvEnter ==
    ASSUME TypeInv, NEW i \in ReaderSlots, RecvEnter(i) PROVE TypeInv'
<1>1. HeaderType' /\ SlotType' /\ SenderType' /\ ControlType' /\ HistoryType'
  BY DEF TypeInv, TypeOK, HeaderType, SlotType, SenderType, ControlType,
         HistoryType, RecvEnter, ringVars, slotVars, sndVars, allocVars,
         ctlVars, histVars
<1>2. ReaderType'
  BY DEF TypeInv, TypeOK, ReaderType, HeaderType, RecvEnter, Pos, rcvVars
<1>3. BehindTail'
  BY DEF TypeInv, TypeOK, BehindTail, Writing, HeaderType, SenderType,
         ReaderType, ControlType, RecvEnter, Pos, ringVars, sndVars, rcvVars,
         allocVars, ctlVars
<1> QED BY <1>1, <1>2, <1>3 DEF TypeInv, TypeOK

LEMMA TypeInvSemWait ==
    ASSUME TypeInv, NEW i \in ReaderSlots, SemWait(i) PROVE TypeInv'
<1>1. SlotType' /\ SenderType' /\ ControlType' /\ HistoryType'
  BY DEF TypeInv, TypeOK, SlotType, SenderType, ControlType, HistoryType,
         SemWait, slotVars, sndVars, allocVars, ctlVars, histVars
<1>2. HeaderType'
  BY DEF TypeInv, TypeOK, HeaderType, ReaderType, SemWait, Pos, ringVars
<1>3. ReaderType'
  BY DEF TypeInv, TypeOK, ReaderType, HeaderType, SemWait, Pos, rcvVars
<1>4. BehindTail'
  BY DEF TypeInv, TypeOK, BehindTail, Writing, HeaderType, SenderType,
         ReaderType, ControlType, SemWait, Pos, ringVars, sndVars, rcvVars,
         allocVars, ctlVars
<1> QED BY <1>1, <1>2, <1>3, <1>4 DEF TypeInv, TypeOK

LEMMA TypeInvSemWaitDisabled ==
    ASSUME TypeInv, NEW i \in ReaderSlots, SemWaitDisabled(i) PROVE TypeInv'
<1>1. SlotType' /\ SenderType' /\ ControlType'
  BY DEF TypeInv, TypeOK, SlotType, SenderType, ControlType, SemWaitDisabled,
         slotVars, sndVars, allocVars, ctlVars
<1>2. HeaderType'
  BY DEF TypeInv, TypeOK, HeaderType, ReaderType, HistoryType, SemWaitDisabled,
         Pos, ringVars
<1>3. ReaderType'
  BY DEF TypeInv, TypeOK, ReaderType, HeaderType, HistoryType, SemWaitDisabled,
         Pos, rcvVars
<1>4. HistoryType'
  BY DEF TypeInv, TypeOK, HistoryType, HeaderType, ReaderType, SemWaitDisabled,
         Pos, histVars
<1>5. BehindTail'
  BY DEF TypeInv, TypeOK, BehindTail, Writing, HeaderType, SenderType,
         ReaderType, ControlType, SemWaitDisabled, Pos, ringVars, sndVars,
         rcvVars, allocVars, ctlVars
<1> QED BY <1>1, <1>2, <1>3, <1>4, <1>5 DEF TypeInv, TypeOK

LEMMA TypeInvRecvEmpty ==
    ASSUME TypeInv, NEW i \in ReaderSlots, RecvEmpty(i) PROVE TypeInv'
<1>1. SlotType' /\ SenderType' /\ ControlType' /\ HistoryType'
  BY DEF TypeInv, TypeOK, SlotType, SenderType, ControlType, HistoryType,
         RecvEmpty, ClearAssembly, AdvanceTo, slotVars, sndVars, allocVars,
         ctlVars, histVars
<1>2. HeaderType'
  BY DEF TypeInv, TypeOK, HeaderType, ReaderType, RecvEmpty, ClearAssembly,
         AdvanceTo, Pos, ringVars
<1>3. ReaderType'
  BY DEF TypeInv, TypeOK, ReaderType, HeaderType, RecvEmpty, ClearAssembly,
         AdvanceTo, Pos, rcvVars
<1>4. BehindTail'
  BY DEF TypeInv, TypeOK, BehindTail, Writing, HeaderType, SenderType,
         ReaderType, ControlType, RecvEmpty, ClearAssembly, AdvanceTo, Pos,
         ringVars, sndVars, rcvVars, allocVars, ctlVars
<1> QED BY <1>1, <1>2, <1>3, <1>4 DEF TypeInv, TypeOK

LEMMA TypeInvFindCommitted ==
    ASSUME TypeInv, NEW i \in ReaderSlots, FindCommitted(i) PROVE TypeInv'
<1>1. HeaderType' /\ SlotType' /\ SenderType' /\ ControlType' /\ HistoryType'
  BY DEF TypeInv, TypeOK, HeaderType, SlotType, SenderType, ControlType, HistoryType,
         FindCommitted, ringVars, slotVars, sndVars, allocVars, ctlVars, histVars
<1>2. ReaderType'
  BY DEF TypeInv, TypeOK, ReaderType, FindCommitted
<1>3. head[i] < tail
  BY DEF TypeInv, TypeOK, HeaderType, ReaderType, BehindTail, FindCommitted, Pos
<1>4. BehindTail'
  BY <1>3 DEF TypeInv, TypeOK, ReaderType, BehindTail, Writing, FindCommitted,
              ringVars, sndVars, allocVars
<1> QED BY <1>1, <1>2, <1>4 DEF TypeInv, TypeOK

LEMMA TypeInvRecvTimeout ==
    ASSUME TypeInv, NEW i \in ReaderSlots, RecvTimeout(i) PROVE TypeInv'
<1>1. SlotType' /\ SenderType' /\ ControlType' /\ HistoryType'
  BY DEF TypeInv, TypeOK, SlotType, SenderType, ControlType, HistoryType,
         RecvTimeout, ClearAssembly, AdvanceTo, slotVars, sndVars, allocVars,
         ctlVars, histVars
<1>2. HeaderType'
  BY DEF TypeInv, TypeOK, HeaderType, ReaderType, RecvTimeout, ClearAssembly,
         AdvanceTo, ScanEnd, Pos, BehindTail, Writing, ringVars
<1>3. ReaderType'
  BY DEF TypeInv, TypeOK, ReaderType, HeaderType, RecvTimeout, ClearAssembly,
         AdvanceTo, ScanEnd, Pos, BehindTail, Writing, rcvVars
<1>4. BehindTail'
  BY DEF TypeInv, TypeOK, BehindTail, Writing, HeaderType, SenderType,
         ReaderType, ControlType, RecvTimeout, ClearAssembly, AdvanceTo,
         ScanEnd, Pos, ringVars, sndVars, rcvVars, allocVars, ctlVars
<1> QED BY <1>1, <1>2, <1>3, <1>4 DEF TypeInv, TypeOK

LEMMA TypeInvCopySlice ==
    ASSUME TypeInv, NEW i \in ReaderSlots, NEW count \in Nat,
           rpc[i] = "copy", CopySlice(i, count)
    PROVE  TypeInv'
<1>1. SlotType' /\ SenderType' /\ ControlType'
  BY DEF TypeInv, TypeOK, SlotType, SenderType, ControlType, CopySlice,
         slotVars, sndVars, allocVars, ctlVars
<1>2. head[i] \in Nat /\ head[i] + 1 \in Pos /\ head[i] + 1 <= tail
  BY MaxTailAssumption DEF TypeInv, TypeOK, HeaderType, ReaderType, BehindTail, Pos
<1>3. buf[i] \cup {mData[Idx(head[i])]} \in SUBSET Pos
  BY <1>2, IdxIsSlot DEF TypeInv, TypeOK, SlotType, ReaderType
<1>4. HeaderType'
  BY <1>2 DEF TypeInv, TypeOK, HeaderType, CopySlice, AdvanceTo
<1>5. ReaderType'
  <2>1. head' \in [ReaderSlots -> Pos]
    BY <1>2 DEF TypeInv, TypeOK, ReaderType, CopySlice, AdvanceTo
  <2>2. rpc' \in [ReaderSlots -> {"off", "idle", "wait", "loop", "copy"}]
    BY DEF TypeInv, TypeOK, ReaderType, CopySlice
  <2>3. /\ sliceCount' \in [ReaderSlots -> Nat]
        /\ slicesDone' \in [ReaderSlots -> Nat]
    BY DEF TypeInv, TypeOK, ReaderType, CopySlice, ClearAssembly
  <2>4. buf' \in [ReaderSlots -> SUBSET Pos]
    BY <1>3 DEF TypeInv, TypeOK, ReaderType, CopySlice, ClearAssembly
  <2> QED BY <2>1, <2>2, <2>3, <2>4 DEF ReaderType
<1>6. HistoryType'
  BY <1>3 DEF TypeInv, TypeOK, HistoryType, CopySlice
<1>7. BehindTail'
  BY <1>2 DEF TypeInv, TypeOK, HeaderType, ReaderType, BehindTail, Writing,
              CopySlice, AdvanceTo, Pos, sndVars, allocVars
<1> QED BY <1>1, <1>4, <1>5, <1>6, <1>7 DEF TypeInv, TypeOK

LEMMA TypeInvCopyFirst ==
    ASSUME TypeInv, NEW i \in ReaderSlots, CopyFirst(i) PROVE TypeInv'
<1>1. head[i] \in Nat
  BY DEF TypeInv, TypeOK, ReaderType, Pos
<1>2. mSliceCount[Idx(head[i])] \in Nat
  BY <1>1, IdxIsSlot DEF TypeInv, TypeOK, SlotType
<1> QED BY <1>2, TypeInvCopySlice DEF CopyFirst

LEMMA TypeInvCopyNext ==
    ASSUME TypeInv, NEW i \in ReaderSlots, CopyNext(i) PROVE TypeInv'
<1>1. sliceCount[i] \in Nat
  BY DEF TypeInv, TypeOK, ReaderType
<1> QED BY <1>1, TypeInvCopySlice DEF CopyNext

LEMMA TypeInvSkipForeign ==
    ASSUME TypeInv, NEW i \in ReaderSlots, SkipForeign(i) PROVE TypeInv'
<1>1. SlotType' /\ SenderType' /\ ControlType' /\ HistoryType'
  BY DEF TypeInv, TypeOK, SlotType, SenderType, ControlType, HistoryType,
         SkipForeign, SkipSlice, ClearAssembly, AdvanceTo, slotVars, sndVars,
         allocVars, ctlVars, histVars
<1>2. HeaderType'
  BY DEF TypeInv, TypeOK, HeaderType, SlotType, ReaderType, SkipForeign,
         SkipSlice, ClearAssembly, AdvanceTo, Pos, BehindTail, Writing,
         ringVars
<1>3. ReaderType'
  BY DEF TypeInv, TypeOK, ReaderType, HeaderType, SlotType, SkipForeign,
         SkipSlice, ClearAssembly, AdvanceTo, Pos, BehindTail, Writing, rcvVars
<1>4. BehindTail'
  BY DEF TypeInv, TypeOK, BehindTail, Writing, HeaderType, SenderType,
         ReaderType, ControlType, SkipForeign, SkipSlice, ClearAssembly,
         AdvanceTo, Pos, ringVars, sndVars, rcvVars, allocVars, ctlVars
<1> QED BY <1>1, <1>2, <1>3, <1>4 DEF TypeInv, TypeOK

LEMMA TypeInvAttach ==
    ASSUME TypeInv, NEW i \in ReaderSlots, Attach(i) PROVE TypeInv'
<1>1. HeaderType' /\ SlotType' /\ SenderType' /\ ControlType' /\ HistoryType'
  BY DEF TypeInv, TypeOK, HeaderType, SlotType, SenderType, ControlType,
         HistoryType, Attach, ringVars, slotVars, sndVars, allocVars, ctlVars,
         histVars
<1>2. ReaderType'
  BY DEF TypeInv, TypeOK, ReaderType, HeaderType, Attach, Pos, rcvVars
<1>3. BehindTail'
  BY DEF TypeInv, TypeOK, BehindTail, Writing, HeaderType, SenderType,
         ReaderType, ControlType, Attach, Pos, ringVars, sndVars, rcvVars,
         allocVars, ctlVars
<1> QED BY <1>1, <1>2, <1>3 DEF TypeInv, TypeOK

LEMMA TypeInvCrashReader ==
    ASSUME TypeInv, NEW i \in ReaderSlots, CrashReader(i) PROVE TypeInv'
<1>1. HeaderType' /\ SlotType' /\ SenderType'
  BY DEF TypeInv, TypeOK, HeaderType, SlotType, SenderType, CrashReader, Spend,
         ClearAssembly, ringVars, slotVars, sndVars
<1>2. ReaderType'
  BY DEF TypeInv, TypeOK, ReaderType, ControlType, HistoryType, CrashReader,
         Spend, ClearAssembly, Pos, rcvVars
<1>3. ControlType'
  BY DEF TypeInv, TypeOK, ControlType, ReaderType, HistoryType, CrashReader,
         Spend, ClearAssembly, Pos, allocVars, ctlVars
<1>4. HistoryType'
  <2>1. spent' \in [EventKinds -> Nat]
    BY SpendKeepsType DEF TypeInv, TypeOK, HistoryType, EventKinds, CrashReader
  <2> QED BY <2>1 DEF TypeInv, TypeOK, HistoryType, ReaderType, ControlType,
         CrashReader, ClearAssembly, Pos, histVars
<1>5. BehindTail'
  BY DEF TypeInv, TypeOK, BehindTail, Writing, HeaderType, SenderType,
         ReaderType, ControlType, CrashReader, Spend, ClearAssembly, Pos,
         ringVars, sndVars, rcvVars, allocVars, ctlVars
<1> QED BY <1>1, <1>2, <1>3, <1>4, <1>5 DEF TypeInv, TypeOK

LEMMA TypeInvDropReader ==
    ASSUME TypeInv, NEW i \in ReaderSlots, DropReader(i) PROVE TypeInv'
<1>1. SlotType' /\ SenderType' /\ ReaderType' /\ HistoryType'
  BY DEF TypeInv, TypeOK, SlotType, SenderType, ReaderType, HistoryType,
         DropReader, FreeReaderSlot, slotVars, sndVars, rcvVars, histVars
<1>2. HeaderType'
  BY DEF TypeInv, TypeOK, HeaderType, ControlType, DropReader, FreeReaderSlot,
         Pos, ringVars
<1>3. ControlType'
  BY DEF TypeInv, TypeOK, ControlType, HeaderType, DropReader, FreeReaderSlot,
         Pos, allocVars, ctlVars
<1>4. BehindTail'
  BY DEF TypeInv, TypeOK, BehindTail, Writing, HeaderType, SenderType,
         ReaderType, ControlType, DropReader, FreeReaderSlot, Pos, ringVars,
         sndVars, rcvVars, allocVars, ctlVars
<1> QED BY <1>1, <1>2, <1>3, <1>4 DEF TypeInv, TypeOK

LEMMA TypeInvAllocLoad ==
    ASSUME TypeInv, AllocLoad PROVE TypeInv'
<1>1. HeaderType' /\ SlotType' /\ SenderType' /\ ReaderType'
  BY DEF TypeInv, TypeOK, HeaderType, SlotType, SenderType, ReaderType,
         AllocLoad, Spend, ringVars, slotVars, sndVars, rcvVars
<1>2. ControlType'
  BY DEF TypeInv, TypeOK, ControlType, HeaderType, ReaderType, HistoryType,
         AllocLoad, LowestOf, Spend, FreeSlots, Pos, allocVars, ctlVars
<1>3. HistoryType'
  <2>1. spent' \in [EventKinds -> Nat]
    BY SpendKeepsType DEF TypeInv, TypeOK, HistoryType, EventKinds, AllocLoad
  <2> QED BY <2>1 DEF TypeInv, TypeOK, HistoryType, HeaderType, ReaderType,
         ControlType, AllocLoad, LowestOf, FreeSlots, Pos, histVars
<1>4. BehindTail'
  BY DEF TypeInv, TypeOK, BehindTail, Writing, HeaderType, SenderType,
         ReaderType, ControlType, AllocLoad, LowestOf, Spend, FreeSlots, Pos,
         ringVars, sndVars, rcvVars, allocVars, ctlVars
<1> QED BY <1>1, <1>2, <1>3, <1>4 DEF TypeInv, TypeOK

LEMMA TypeInvAllocTail ==
    ASSUME TypeInv, AllocTail PROVE TypeInv'
<1>1. HeaderType' /\ SlotType' /\ SenderType' /\ ReaderType' /\ HistoryType'
  BY DEF TypeInv, TypeOK, HeaderType, SlotType, SenderType, ReaderType,
         HistoryType, AllocTail, ringVars, slotVars, sndVars, rcvVars, histVars
<1>2. ControlType'
  BY DEF TypeInv, TypeOK, ControlType, HeaderType, AllocTail, LowestOf,
         FreeSlots, Pos, allocVars, ctlVars
<1>3. BehindTail'
  BY DEF TypeInv, TypeOK, BehindTail, Writing, HeaderType, SenderType,
         ReaderType, ControlType, AllocTail, LowestOf, FreeSlots, Pos,
         ringVars, sndVars, rcvVars, allocVars, ctlVars
<1> QED BY <1>1, <1>2, <1>3 DEF TypeInv, TypeOK

LEMMA TypeInvAllocStore ==
    ASSUME TypeInv, AllocStore PROVE TypeInv'
<1>1. SlotType' /\ SenderType' /\ ReaderType' /\ HistoryType'
  BY DEF TypeInv, TypeOK, SlotType, SenderType, ReaderType, HistoryType,
         AllocStore, slotVars, sndVars, rcvVars, histVars
<1>2. HeaderType'
  BY DEF TypeInv, TypeOK, HeaderType, ControlType, AllocStore, Pos, ringVars
<1>3. ControlType'
  BY DEF TypeInv, TypeOK, ControlType, HeaderType, AllocStore, Pos, allocVars,
         ctlVars
<1>4. BehindTail'
  BY DEF TypeInv, TypeOK, BehindTail, Writing, HeaderType, SenderType,
         ReaderType, ControlType, AllocStore, Pos, ringVars, sndVars, rcvVars,
         allocVars, ctlVars
<1> QED BY <1>1, <1>2, <1>3, <1>4 DEF TypeInv, TypeOK

LEMMA TypeInvAllocCas ==
    ASSUME TypeInv, AllocCas PROVE TypeInv'
<1>1. SlotType' /\ SenderType' /\ ReaderType' /\ HistoryType'
  BY DEF TypeInv, TypeOK, SlotType, SenderType, ReaderType, HistoryType,
         AllocCas, slotVars, sndVars, rcvVars, histVars
<1>2. HeaderType'
  BY DEF TypeInv, TypeOK, HeaderType, ControlType, AllocCas, NoReader, Pos,
         ringVars
<1>3. ControlType'
  BY DEF TypeInv, TypeOK, ControlType, HeaderType, AllocCas, NoReader, Pos,
         allocVars, ctlVars
<1>4. BehindTail'
  BY DEF TypeInv, TypeOK, BehindTail, Writing, HeaderType, SenderType,
         ReaderType, ControlType, AllocCas, NoReader, Pos, ringVars, sndVars,
         rcvVars, allocVars, ctlVars
<1> QED BY <1>1, <1>2, <1>3, <1>4 DEF TypeInv, TypeOK

LEMMA TypeInvAllocCasFails ==
    ASSUME TypeInv, AllocCasFails PROVE TypeInv'
<1>1. HeaderType' /\ SlotType' /\ SenderType' /\ ReaderType' /\ HistoryType'
  BY DEF TypeInv, TypeOK, HeaderType, SlotType, SenderType, ReaderType,
         HistoryType, AllocCasFails, ringVars, slotVars, sndVars, rcvVars,
         histVars
<1>2. ControlType'
  BY DEF TypeInv, TypeOK, ControlType, HeaderType, AllocCasFails, Pos,
         allocVars, ctlVars
<1>3. BehindTail'
  BY DEF TypeInv, TypeOK, BehindTail, Writing, HeaderType, SenderType,
         ReaderType, ControlType, AllocCasFails, Pos, ringVars, sndVars,
         rcvVars, allocVars, ctlVars
<1> QED BY <1>1, <1>2, <1>3 DEF TypeInv, TypeOK

LEMMA TypeInvWakeupClear ==
    ASSUME TypeInv, WakeupClear PROVE TypeInv'
<1>1. SlotType' /\ SenderType' /\ ReaderType'
  BY DEF TypeInv, TypeOK, SlotType, SenderType, ReaderType, WakeupClear, Spend, slotVars,
         sndVars, rcvVars
<1>2. HeaderType'
  BY DEF TypeInv, TypeOK, HeaderType, ControlType, WakeupClear, Spend, Pos, ringVars
<1>3. ControlType'
  BY DEF TypeInv, TypeOK, HeaderType, ControlType, WakeupClear, Spend, Pos, allocVars
<1>4. HistoryType'
  <2>1. spent' \in [EventKinds -> Nat]
    BY SpendKeepsType DEF TypeInv, TypeOK, HistoryType, EventKinds, WakeupClear
  <2> QED BY <2>1 DEF TypeInv, TypeOK, HistoryType, WakeupClear, Pos, histVars
<1>5. BehindTail'
  BY DEF TypeInv, BehindTail, Writing, WakeupClear, sndVars, rcvVars, allocVars
<1> QED BY <1>1, <1>2, <1>3, <1>4, <1>5 DEF TypeInv, TypeOK

LEMMA TypeInvWakeupMask ==
    ASSUME TypeInv, WakeupMask PROVE TypeInv'
<1>1. SlotType' /\ SenderType' /\ ReaderType'
  BY DEF TypeInv, TypeOK, SlotType, SenderType, ReaderType, WakeupMask, slotVars,
         sndVars, rcvVars
<1>2. HeaderType'
  BY DEF TypeInv, TypeOK, HeaderType, ControlType, WakeupMask, Pos, ringVars
<1>3. ControlType'
  BY DEF TypeInv, TypeOK, HeaderType, ControlType, WakeupMask, Pos, allocVars
<1>4. HistoryType'
  BY DEF TypeInv, TypeOK, HistoryType, WakeupMask, histVars
<1>5. BehindTail'
  BY DEF TypeInv, BehindTail, Writing, WakeupMask, ringVars, sndVars, rcvVars, allocVars
<1> QED BY <1>1, <1>2, <1>3, <1>4, <1>5 DEF TypeInv, TypeOK

LEMMA TypeInvWakeupPost ==
    ASSUME TypeInv, WakeupPost PROVE TypeInv'
<1>1. SlotType' /\ SenderType' /\ ReaderType'
  BY DEF TypeInv, TypeOK, SlotType, SenderType, ReaderType, WakeupPost, LowestOf, slotVars,
         sndVars, rcvVars
<1>2. HeaderType'
  BY DEF TypeInv, TypeOK, HeaderType, ControlType, WakeupPost, LowestOf, Pos, ringVars
<1>3. ControlType'
  BY DEF TypeInv, TypeOK, HeaderType, ControlType, WakeupPost, LowestOf, Pos, allocVars
<1>4. HistoryType'
  BY DEF TypeInv, TypeOK, HistoryType, WakeupPost, histVars
<1>5. BehindTail'
  BY DEF TypeInv, BehindTail, Writing, WakeupPost, ringVars, sndVars, rcvVars, allocVars
<1> QED BY <1>1, <1>2, <1>3, <1>4, <1>5 DEF TypeInv, TypeOK

LEMMA TypeInvSetFlag ==
    ASSUME TypeInv, NEW f \in FlagValues, SetFlag(f) PROVE TypeInv'
<1>1. SlotType' /\ SenderType' /\ ReaderType' /\ ControlType'
  BY DEF TypeInv, TypeOK, SlotType, SenderType, ReaderType, ControlType,
         SetFlag, Spend, slotVars, sndVars, rcvVars, allocVars, ctlVars
<1>2. HeaderType'
  BY DEF TypeInv, TypeOK, HeaderType, HistoryType, SetFlag, Spend, Pos, ringVars
<1>3. HistoryType'
  <2>1. spent' \in [EventKinds -> Nat]
    BY SpendKeepsType DEF TypeInv, TypeOK, HistoryType, EventKinds, SetFlag
  <2> QED BY <2>1 DEF TypeInv, TypeOK, HistoryType, SetFlag, Pos, histVars
<1>4. BehindTail'
  BY DEF TypeInv, TypeOK, BehindTail, Writing, HeaderType, SenderType,
         ReaderType, ControlType, SetFlag, Spend, Pos, ringVars, sndVars,
         rcvVars, allocVars, ctlVars
<1> QED BY <1>1, <1>2, <1>3, <1>4 DEF TypeInv, TypeOK

-----------------------------------------------------------------------------

LEMMA TypeInvStep == TypeInv /\ [Next]_vars => TypeInv'
<1> SUFFICES ASSUME TypeInv, [Next]_vars PROVE TypeInv'
  OBVIOUS
<1>1. CASE \E s \in Senders : \/ \E n \in Needs : SendEnter(s, n)
                              \/ SenderStep(s)
                              \/ CrashSender(s)
  BY <1>1, TypeInvSendEnter, TypeInvLoadMask, TypeInvLoadTail, TypeInvLoadHead,
     TypeInvSendFull, TypeInvClaim, TypeInvClaimFails, TypeInvFillSlot,
     TypeInvCommitSlot, TypeInvPost, TypeInvCrashSender DEF SenderStep
<1>2. CASE \E i \in ReaderSlots : ReaderStep(i)
  BY <1>2, TypeInvRecvEnter, TypeInvSemWait, TypeInvSemWaitDisabled,
     TypeInvRecvEmpty, TypeInvFindCommitted, TypeInvRecvTimeout, TypeInvCopyFirst,
     TypeInvCopyNext, TypeInvSkipForeign DEF ReaderStep
<1>3. CASE \E i \in ReaderSlots : Attach(i) \/ CrashReader(i) \/ DropReader(i)
  BY <1>3, TypeInvAttach, TypeInvCrashReader, TypeInvDropReader
<1>4. CASE Alloc
  BY <1>4, TypeInvAllocLoad, TypeInvAllocTail, TypeInvAllocStore,
     TypeInvAllocCas, TypeInvAllocCasFails DEF Alloc
<1>5. CASE (\E f \in FlagValues : SetFlag(f)) \/ WakeupRecv
  BY <1>5, TypeInvSetFlag, TypeInvWakeupClear, TypeInvWakeupMask, TypeInvWakeupPost
     DEF WakeupRecv
<1>6. CASE UNCHANGED vars
  BY <1>6, TypeInvStutters
<1> QED BY <1>1, <1>2, <1>3, <1>4, <1>5, <1>6 DEF Next

\* The counters, masks and cursors of the ring keep their ranges in every
\* execution, for any number of senders and readers and any slot count (the
\* declarations of the header, and the locals of send_impl and recv_impl).
THEOREM TypeCorrect == Spec => []TypeOK
<1>1. TypeInv => TypeOK
  BY DEF TypeInv
<1> QED BY <1>1, TypeInvInit, TypeInvStep, PTL DEF Spec

-----------------------------------------------------------------------------
(* The window.  A sender measures its distance to a reader with a tail and a *)
(* head loaded at different moments, but heads only grow, so the distance it *)
(* measured is at least the one at its compare-and-swap, and the             *)
(* compare-and-swap makes sure the tail is the one it measured with.  Heads  *)
(* only grow because a reader publishes its own cursor, and an allocation    *)
(* gives the one index a tail loaded while nobody was reading.               *)

\* What the steps of each process leave alone.

SendStep(s) ==
    \/ \E n \in Needs : SendEnter(s, n)
    \/ SenderStep(s)
    \/ CrashSender(s)

ControlStep(i) ==
    Attach(i) \/ CrashReader(i) \/ DropReader(i)

FlagStep == (\E f \in FlagValues : SetFlag(f)) \/ WakeupRecv

LEMMA SendFrame ==
    ASSUME NEW s \in Senders, SendStep(s)
    PROVE  /\ UNCHANGED <<readerHead, readerFlag, rpc, head, apc, aOld, aIdx, aTail>>
           /\ Claim(s) \/ UNCHANGED tail
BY DEF SendStep, SendEnter, SenderStep, LoadMask, LoadTail, LoadHead, SendFull, Claim,
       ClaimFails, FillSlot, CommitSlot, Post, CrashSender, ringVars, rcvVars, allocVars

LEMMA ReaderFrame ==
    ASSUME NEW i \in ReaderSlots, ReaderStep(i)
    PROVE  UNCHANGED <<tail, readerFlag, sndVars, allocVars>>
BY DEF ReaderStep, RecvEnter, SemWait, SemWaitDisabled, RecvEmpty, FindCommitted,
       RecvTimeout, CopyFirst, CopyNext, SkipForeign, CopySlice,
       SkipSlice, ringVars

LEMMA ControlFrame ==
    ASSUME NEW i \in ReaderSlots, ControlStep(i)
    PROVE  UNCHANGED <<tail, readerHead, sndVars, allocVars>>
BY DEF ControlStep, Attach, CrashReader, DropReader, ringVars

LEMMA FlagFrame ==
    ASSUME FlagStep
    PROVE  UNCHANGED <<tail, readerHead, readerFlag, slotVars, sndVars, rcvVars, allocVars,
                       drops, msgLen, last, lost>>
BY DEF FlagStep, SetFlag, WakeupRecv, WakeupClear, WakeupMask, WakeupPost, ringVars,
       histVars, ctlVars

LEMMA AllocFrame ==
    ASSUME Alloc
    PROVE  UNCHANGED <<tail, sndVars, rcvVars>>
BY DEF Alloc, AllocLoad, AllocTail, AllocStore, AllocCas, AllocCasFails, ringVars

LEMMA StepCases ==
    ASSUME [Next]_vars
    PROVE  \/ \E s \in Senders : SendStep(s)
           \/ \E i \in ReaderSlots : ReaderStep(i)
           \/ \E i \in ReaderSlots : ControlStep(i)
           \/ FlagStep
           \/ Alloc
           \/ UNCHANGED vars
BY DEF Next, SendStep, ControlStep, FlagStep

-----------------------------------------------------------------------------
(* The initial state. *)

LEMMA WindowInvInit == Init => WindowInv
BY TypeInvInit, SlotCountAssumption
   DEF Init, WindowInv, HeadsPublished, ScanBounds, ReadersStay, FixedReaders, AllocAlone,
       WithinWindow

-----------------------------------------------------------------------------
(* Heads only grow. *)

\* A reader moves its cursor and its published head together, and forward.
LEMMA ReaderAdvances ==
    ASSUME TypeInv, HeadsPublished, NEW i \in ReaderSlots, ReaderStep(i)
    PROVE  /\ readerHead[i] = head[i] /\ readerHead'[i] = head'[i]
           /\ readerHead[i] \in Nat /\ readerHead'[i] \in Nat
           /\ readerHead[i] <= readerHead'[i]
           /\ \A j \in ReaderSlots : j # i =>
                 /\ readerHead'[j] = readerHead[j]
                 /\ head'[j] = head[j]
                 /\ rpc'[j] = rpc[j]
<1>1. /\ readerHead \in [ReaderSlots -> Nat]
      /\ head \in [ReaderSlots -> Nat]
      /\ rpc \in [ReaderSlots -> {"off", "idle", "wait", "loop", "copy"}]
      /\ tail \in Nat
      /\ head[i] <= tail
  BY DEF TypeInv, TypeOK, HeaderType, ReaderType, BehindTail, Pos
<1>2. readerHead[i] = head[i]
  BY DEF HeadsPublished, ReaderStep, RecvEnter, SemWait, SemWaitDisabled, RecvEmpty,
         FindCommitted, RecvTimeout, CopyFirst, CopyNext, SkipForeign
<1>3. CASE RecvEnter(i) \/ SemWait(i) \/ SemWaitDisabled(i) \/ FindCommitted(i)
  BY <1>1, <1>2, <1>3 DEF RecvEnter, SemWait, SemWaitDisabled, FindCommitted, ringVars
<1>4. CASE RecvEmpty(i)
  BY <1>1, <1>2, <1>4 DEF RecvEmpty, AdvanceTo
<1>5. CASE RecvTimeout(i)
  <2>1. PICK q \in head[i] + 1 .. ScanEnd(head[i]) : AdvanceTo(i, q)
    BY <1>5 DEF RecvTimeout
  <2>2. q \in Nat /\ head[i] <= q
    BY <1>1, <2>1 DEF ScanEnd
  <2> QED BY <1>1, <1>2, <1>5, <2>1, <2>2 DEF RecvTimeout, AdvanceTo
<1>6. CASE CopyFirst(i) \/ CopyNext(i)
  BY <1>1, <1>2, <1>6 DEF CopyFirst, CopyNext, CopySlice, AdvanceTo
<1>7. CASE SkipForeign(i)
  BY <1>1, <1>2, <1>7 DEF SkipForeign, SkipSlice, AdvanceTo
<1> QED BY <1>3, <1>4, <1>5, <1>6, <1>7 DEF ReaderStep

LEMMA HeadsGrow ==
    ASSUME WholeMasks, WindowInv, [Next]_vars
    PROVE  \A i \in ReaderSlots : /\ readerHead[i] \in Nat
                                  /\ readerHead'[i] \in Nat
                                  /\ readerHead[i] <= readerHead'[i]
<1>1. TypeInv /\ HeadsPublished /\ AllocAlone
  BY DEF WindowInv
<1>2. readerHead \in [ReaderSlots -> Nat]
  BY <1>1 DEF TypeInv, TypeOK, HeaderType, Pos
<1>3. CASE UNCHANGED readerHead
  BY <1>2, <1>3
<1>4. CASE \E i \in ReaderSlots : ReaderStep(i)
  BY <1>1, <1>2, <1>4, ReaderAdvances
<1>5. CASE AllocStore
  <2>1. /\ aTail \in Nat /\ aIdx \in ReaderSlots
        /\ \A i \in ReaderSlots : readerHead[i] <= aTail
    BY <1>1, <1>5 DEF TypeInv, TypeOK, ControlType, Pos, AllocAlone, AllocStore
  <2> QED BY <1>2, <1>5, <2>1 DEF AllocStore
<1>6. Alloc => AllocStore \/ UNCHANGED readerHead
  BY DEF Alloc, AllocLoad, AllocTail, AllocCas, AllocCasFails, ringVars
<1>7. UNCHANGED vars => UNCHANGED readerHead
  BY DEF vars, ringVars
<1> QED BY <1>3, <1>4, <1>5, <1>6, <1>7, StepCases, SendFrame, ControlFrame, FlagFrame

-----------------------------------------------------------------------------
(* The parts of WindowInv, one by one.                                     *)

LEMMA HeadsPublishedStep ==
    ASSUME WholeMasks, WindowInv, [Next]_vars
    PROVE  HeadsPublished'
<1>1. TypeInv /\ HeadsPublished /\ AllocAlone
  BY DEF WindowInv
<1>2. /\ readerHead \in [ReaderSlots -> Nat]
      /\ head \in [ReaderSlots -> Nat]
      /\ rpc \in [ReaderSlots -> {"off", "idle", "wait", "loop", "copy"}]
  BY <1>1 DEF TypeInv, TypeOK, HeaderType, ReaderType, Pos
<1>3. CASE UNCHANGED <<readerHead, head, rpc>>
  BY <1>1, <1>3 DEF HeadsPublished
<1>4. CASE \E i \in ReaderSlots : ReaderStep(i)
  BY <1>1, <1>4, ReaderAdvances DEF HeadsPublished
<1>5. ASSUME NEW i \in ReaderSlots, ControlStep(i)
      PROVE  HeadsPublished'
  BY <1>1, <1>2, <1>5, ControlFrame
     DEF ControlStep, Attach, CrashReader, DropReader,
         HeadsPublished, rcvVars
<1>6. CASE Alloc
  <2>1. \A i \in ReaderSlots : rpc'[i] = "off" \/ UNCHANGED readerHead
    BY <1>1, <1>6, AllocFrame
       DEF AllocAlone, Alloc, AllocLoad, AllocTail, AllocStore, AllocCas,
           AllocCasFails, ringVars, rcvVars
  <2> QED BY <1>1, <1>6, <2>1, AllocFrame DEF HeadsPublished, rcvVars
<1>7. UNCHANGED vars => UNCHANGED <<readerHead, head, rpc>>
  BY DEF vars, ringVars, rcvVars
<1>8. FlagStep => UNCHANGED <<readerHead, head, rpc>>
  BY FlagFrame DEF rcvVars
<1> QED BY <1>3, <1>4, <1>5, <1>6, <1>7, <1>8, StepCases, SendFrame

\* An event with no budget does not happen.
LEMMA NoBudget ==
    ASSUME NEW k \in EventKinds, Limit[k] = 0, TypeInv
    PROVE  ~Spend(k)
BY DEF Spend, TypeInv, TypeOK, HistoryType

LEMMA ReadersStayStep ==
    ASSUME WindowInv, [Next]_vars
    PROVE  ReadersStay'
<1> SUFFICES ASSUME FixedReaders
             PROVE  /\ readerFlag' = ReaderSlots
                    /\ apc' = "idle"
                    /\ \A i \in ReaderSlots : drops'[i] = 0
  BY DEF ReadersStay
<1>1. /\ TypeInv
      /\ readerFlag = ReaderSlots /\ apc = "idle"
      /\ \A i \in ReaderSlots : drops[i] = 0
  BY DEF WindowInv, ReadersStay
<1>2. ~Spend("alloc") /\ ~Spend("readerCrash")
  BY <1>1, NoBudget DEF FixedReaders, EventKinds
<1>3. UNCHANGED <<readerFlag, apc, drops>>
  BY <1>1, <1>2
     DEF Next, vars, ringVars, allocVars, ctlVars, SendEnter, SenderStep, LoadMask, LoadTail,
         LoadHead, SendFull, Claim, ClaimFails, FillSlot, CommitSlot, Post, CrashSender,
         ReaderStep, RecvEnter, SemWait, SemWaitDisabled, RecvEmpty, FindCommitted,
         RecvTimeout, CopyFirst, CopyNext, SkipForeign, CopySlice, SkipSlice,
         Attach, CrashReader, DropReader, SetFlag, WakeupRecv,
         WakeupClear, WakeupMask, WakeupPost, Alloc, AllocLoad, AllocTail,
         AllocStore, AllocCas, AllocCasFails
<1> QED BY <1>1, <1>3

LEMMA AllocAloneStep ==
    ASSUME WholeMasks, WindowInv, [Next]_vars
    PROVE  AllocAlone'
<1>1. TypeInv /\ AllocAlone
  BY DEF WindowInv
<1>2. /\ readerHead \in [ReaderSlots -> Nat]
      /\ rpc \in [ReaderSlots -> {"off", "idle", "wait", "loop", "copy"}]
      /\ readerFlag \subseteq ReaderSlots
      /\ \A i \in ReaderSlots : readerHead[i] <= tail
  BY <1>1 DEF TypeInv, TypeOK, HeaderType, ReaderType, BehindTail, Pos
<1>3. CASE UNCHANGED <<readerHead, readerFlag, rpc, apc, aOld, aTail>>
  BY <1>1, <1>3 DEF AllocAlone
<1>4. ASSUME NEW i \in ReaderSlots, ReaderStep(i)
      PROVE  AllocAlone'
  <2>1. rpc[i] # "off"
    BY <1>4 DEF ReaderStep, RecvEnter, SemWait, SemWaitDisabled, RecvEmpty, FindCommitted,
                RecvTimeout, CopyFirst, CopyNext, SkipForeign
  <2>2. apc = "idle" /\ apc' = "idle"
    BY <1>1, <1>4, <2>1, ReaderFrame DEF AllocAlone, allocVars
  <2> QED BY <2>2 DEF AllocAlone
<1>5. ASSUME NEW i \in ReaderSlots, ControlStep(i)
      PROVE  AllocAlone'
  <2>1. UNCHANGED <<readerHead, apc, aOld, aTail>>
    BY <1>5, ControlFrame DEF allocVars
  <2>2. CASE apc = "idle"
    BY <2>1, <2>2 DEF AllocAlone
  <2>3. CASE apc # "idle"
    <3>1. readerFlag = {} /\ rpc[i] = "off"
      BY <1>1, <2>3 DEF AllocAlone
    <3>2. UNCHANGED <<readerFlag, rpc>>
      BY <1>5, <3>1 DEF ControlStep, Attach, CrashReader,
                        DropReader, FreeReaderSlot, rcvVars
    <3> QED BY <1>1, <2>1, <3>2 DEF AllocAlone
  <2> QED BY <2>2, <2>3
<1>6. CASE AllocLoad
  <2>1. ~FixedReaders
    BY <1>1, <1>6, NoBudget DEF AllocLoad, FixedReaders, EventKinds
  <2>2. readerFlag = {} /\ \A i \in ReaderSlots : rpc[i] = "off"
    BY <1>2, <1>6, <2>1 DEF AllocLoad, LowestOf, FreeSlots, WholeMasks
  <2> QED BY <1>6, <2>2 DEF AllocLoad, AllocAlone, ringVars, rcvVars
<1>7. CASE AllocTail
  BY <1>1, <1>2, <1>7 DEF AllocTail, AllocAlone, ringVars, rcvVars
<1>8. CASE AllocStore
  <2>1. aTail \in Nat /\ aTail' = aTail /\ apc' = "cas"
    BY <1>1, <1>8 DEF TypeInv, TypeOK, ControlType, Pos, AllocStore
  <2>2. \A i \in ReaderSlots : readerHead'[i] <= aTail
    BY <1>1, <1>2, <1>8, <2>1 DEF AllocStore, AllocAlone
  <2> QED BY <1>1, <1>8, <2>1, <2>2 DEF AllocStore, AllocAlone, rcvVars
<1>9. CASE AllocCas
  BY <1>9 DEF AllocCas, AllocAlone
<1>10. CASE AllocCasFails
  BY <1>1, <1>10 DEF AllocCasFails, AllocAlone, ringVars, rcvVars
<1>11. UNCHANGED vars => UNCHANGED <<readerHead, readerFlag, rpc, apc, aOld, aTail>>
  BY DEF vars, ringVars, rcvVars, allocVars
<1>12. FlagStep => UNCHANGED <<readerHead, readerFlag, rpc, apc, aOld, aTail>>
  BY FlagFrame DEF rcvVars, allocVars
<1> QED BY <1>3, <1>4, <1>5, <1>6, <1>7, <1>8, <1>9, <1>10, <1>11, <1>12,
           StepCases, SendFrame DEF Alloc

LEMMA ScanBoundsStep ==
    ASSUME WholeMasks, WindowInv, [Next]_vars
    PROVE  ScanBounds'
<1>1. TypeInv /\ ScanBounds
  BY DEF WindowInv
<1>2. /\ spc \in [Senders -> {"idle", "mask", "tail", "scan", "cas",
                              "fill", "commit", "post"}]
      /\ mask \in [Senders -> SUBSET ReaderSlots]
      /\ todo \in [Senders -> SUBSET ReaderSlots]
      /\ oldTail \in [Senders -> Nat]
      /\ used \in [Senders -> Nat]
      /\ readerHead \in [ReaderSlots -> Nat]
      /\ readerFlag \subseteq ReaderSlots
  BY <1>1 DEF TypeInv, TypeOK, HeaderType, SenderType, Pos
<1>3. \A i \in ReaderSlots : readerHead'[i] \in Nat /\ readerHead[i] <= readerHead'[i]
  BY HeadsGrow
<1>4. CASE UNCHANGED sndVars
  BY <1>1, <1>2, <1>3, <1>4 DEF ScanBounds, sndVars
<1>5. ASSUME NEW s \in Senders, SendStep(s)
      PROVE  ScanBounds'
  <2>1. UNCHANGED readerHead
    BY <1>5, SendFrame
  <2>2. \A t \in Senders : t # s =>
           /\ spc'[t] = spc[t]
           /\ mask'[t] = mask[t]
           /\ todo'[t] = todo[t]
           /\ oldTail'[t] = oldTail[t]
           /\ used'[t] = used[t]
    BY <1>2, <1>5
       DEF SendStep, SenderStep, SendEnter, LoadMask, LoadTail, LoadHead, SendFull, Claim,
           ClaimFails, FillSlot, CommitSlot, Post, CrashSender, SendReturns
  <2> DEFINE Bounded(t) ==
               /\ spc[t] \in {"tail", "scan", "cas"} => mask[t] = ReaderSlots
               /\ spc[t] = "scan" => todo[t] \subseteq mask[t]
               /\ spc[t] = "cas" => todo[t] = {}
               /\ spc[t] \in {"scan", "cas"} =>
                     \A i \in mask[t] \ todo[t] : oldTail[t] - readerHead[i] <= used[t]
  <2>3. Bounded(s)
    BY <1>1 DEF ScanBounds
  <2>4. CASE LoadHead(s)
    <3>1. PICK i \in LowestOf(todo[s]) :
             /\ used' = [used EXCEPT ![s] =
                  IF SeqSub(oldTail[s], readerHead[i]) > @
                  THEN SeqSub(oldTail[s], readerHead[i]) ELSE @]
             /\ todo' = [todo EXCEPT ![s] = @ \ {i}]
             /\ spc' = [spc EXCEPT ![s] = IF todo[s] = {i} THEN "cas" ELSE "scan"]
      BY <2>4 DEF LoadHead
    <3>2. /\ i \in ReaderSlots /\ todo[s] \subseteq mask[s] /\ mask[s] = ReaderSlots
          /\ i \in todo[s]
      BY <1>2, <2>3, <2>4, <3>1 DEF LoadHead, LowestOf
    <3>3. /\ SeqSub(oldTail[s], readerHead[i]) \in Int
          /\ oldTail[s] - readerHead[i] <= SeqSub(oldTail[s], readerHead[i])
      BY <1>2, <3>2, SeqSpanAssumption DEF SeqSub
    <3>4. /\ oldTail[s] - readerHead[i] <= used'[s]
          /\ used[s] <= used'[s]
          /\ used'[s] \in Int
      BY <1>2, <3>1, <3>2, <3>3
    <3>5. UNCHANGED <<mask, oldTail>>
      BY <2>4 DEF LoadHead
    <3>6. \A j \in mask[s] \ (todo[s] \ {i}) : oldTail[s] - readerHead[j] <= used'[s]
      BY <1>2, <2>3, <2>4, <3>2, <3>4 DEF LoadHead
    <3>7. Bounded(s)'
      BY <1>2, <2>1, <3>1, <3>2, <3>5, <3>6
    <3> QED BY <1>1, <2>1, <2>2, <3>7 DEF ScanBounds
  <2>5. CASE LoadTail(s)
    BY <1>1, <1>2, <2>1, <2>2, <2>3, <2>5 DEF LoadTail, ScanBounds
  <2>6. CASE LoadMask(s)
    <3>1. readerFlag # {} => readerFlag = ReaderSlots
      BY <1>1, <1>2 DEF WindowInv, ReadersStay, WholeMasks
    <3> QED BY <1>1, <1>2, <2>1, <2>2, <2>6, <3>1 DEF LoadMask, SendReturns, ScanBounds
  <2>7. CASE spc'[s] \notin {"tail", "scan", "cas"}
    BY <1>1, <2>1, <2>2, <2>7 DEF ScanBounds
  <2>8. SendStep(s) => \/ LoadHead(s) \/ LoadTail(s) \/ LoadMask(s)
                       \/ spc'[s] \notin {"tail", "scan", "cas"}
    BY <1>2 DEF SendStep, SenderStep, SendEnter, SendFull, Claim, ClaimFails, FillSlot,
                CommitSlot, Post, CrashSender, SendReturns
  <2> QED BY <1>5, <2>4, <2>5, <2>6, <2>7, <2>8
<1>6. UNCHANGED vars => UNCHANGED sndVars
  BY DEF vars
<1> QED BY <1>4, <1>5, <1>6, StepCases, ReaderFrame, ControlFrame, FlagFrame, AllocFrame

LEMMA WithinWindowStep ==
    ASSUME WholeMasks, WindowInv, [Next]_vars
    PROVE  WithinWindow'
<1>1. TypeInv /\ ScanBounds /\ WithinWindow
  BY DEF WindowInv
<1>2. tail \in Nat /\ SlotCount \in Nat
  BY <1>1, SlotCountAssumption DEF TypeInv, TypeOK, HeaderType, Pos
<1>3. \A i \in ReaderSlots : /\ readerHead[i] \in Nat
                             /\ readerHead'[i] \in Nat
                             /\ readerHead[i] <= readerHead'[i]
  BY HeadsGrow
<1>4. CASE UNCHANGED tail
  BY <1>1, <1>2, <1>3, <1>4 DEF WithinWindow
<1>5. ASSUME NEW s \in Senders, Claim(s)
      PROVE  WithinWindow'
  <2>1. mask[s] = ReaderSlots /\ todo[s] = {}
    BY <1>1, <1>5 DEF TypeInv, TypeOK, SenderType, ScanBounds, Claim
  <2>2. \A i \in ReaderSlots : tail - readerHead[i] <= used[s]
    BY <1>1, <1>5, <2>1 DEF ScanBounds, Claim
  <2>3. used[s] \in Nat /\ need[s] \in Nat /\ used[s] + need[s] <= SlotCount - 1
    BY <1>1, <1>2, <1>5 DEF TypeInv, TypeOK, SenderType, Claim, HasRoom
  <2>4. tail' = tail + need[s] /\ UNCHANGED readerHead
    BY <1>5 DEF Claim
  <2> QED BY <1>2, <1>3, <2>2, <2>3, <2>4 DEF WithinWindow
<1>6. UNCHANGED vars => UNCHANGED tail
  BY DEF vars, ringVars
<1> QED BY <1>4, <1>5, <1>6, StepCases, SendFrame, ReaderFrame, ControlFrame, FlagFrame,
           AllocFrame

-----------------------------------------------------------------------------

LEMMA WindowInvStep ==
    ASSUME WholeMasks, WindowInv, [Next]_vars
    PROVE  WindowInv'
BY TypeInvStep, HeadsPublishedStep, ScanBoundsStep, ReadersStayStep, AllocAloneStep,
   WithinWindowStep
   DEF WindowInv

\* An inbox, whose one reader dies, is dropped, allocates again and restarts, and a
\* ring with several readers that stay, never hold more than SlotCount - 1 slots a
\* reader has not consumed, and no head passes the tail: the room test of send_impl
\* (StreamShmCreator.h:397-403) is sound in spite of its stale loads.  A channel that
\* is left on request is not covered: its index may be given out while the thread of
\* the leaver still reads under it (StreamRingHandover).
THEOREM WindowIsBounded ==
    ASSUME WholeMasks
    PROVE  Spec => []WindowBound
<1>1. WindowInv /\ [Next]_vars => WindowInv'
  BY WindowInvStep
<1>2. WindowInv => WindowBound
  <2> SUFFICES ASSUME WindowInv, NEW i \in readerFlag
               PROVE  readerHead[i] <= tail /\ tail - readerHead[i] <= SlotCount - 1
    BY DEF WindowBound
  <2>1. i \in ReaderSlots /\ readerHead[i] \in Nat /\ tail \in Nat /\ SlotCount \in Nat
    BY SlotCountAssumption DEF WindowInv, TypeInv, TypeOK, HeaderType, Pos
  <2> QED BY <2>1 DEF WindowInv, TypeInv, BehindTail, WithinWindow
<1> QED BY <1>1, <1>2, WindowInvInit, PTL DEF Spec

-----------------------------------------------------------------------------
(* The slots.  Everything claimed and not consumed lies in the window, where *)
(* a slot belongs to one sequence number; and readers stay behind what live  *)
(* senders have left to publish, since they move over a slot only when that  *)
(* is published, or when they time out.  So two writers, or a writer and a   *)
(* reader, meet in a slot only with the same sequence number, which claims   *)
(* that do not overlap exclude.                                              *)

\* What the slot lemmas use of the types.
LEMMA SlotTypes ==
    ASSUME WindowInv
    PROVE  /\ tail \in Nat
           /\ readerHead \in [ReaderSlots -> Nat] /\ head \in [ReaderSlots -> Nat]
           /\ rpc \in [ReaderSlots -> {"off", "idle", "wait", "loop", "copy"}]
           /\ mSeq \in [Slot -> Nat]
           /\ spc \in [Senders -> {"idle", "mask", "tail", "scan", "cas",
                                   "fill", "commit", "post"}]
           /\ seq \in [Senders -> Nat] /\ oldTail \in [Senders -> Nat]
           /\ need \in [Senders -> Nat]
           /\ \A i \in ReaderSlots :
                 /\ readerHead[i] <= tail
                 /\ rpc[i] # "off" => readerHead[i] = head[i]
                 /\ rpc[i] = "copy" => head[i] < tail
           /\ \A s \in Senders :
                 Writing(s) => /\ oldTail[s] <= seq[s]
                               /\ seq[s] < oldTail[s] + need[s]
                               /\ oldTail[s] + need[s] <= tail
BY DEF WindowInv, TypeInv, TypeOK, HeaderType, SlotType, SenderType, ReaderType,
       BehindTail, HeadsPublished, Pos

LEMMA WindowSlots ==
    ASSUME WindowInv, NEW i \in ReaderSlots,
           NEW p \in Nat, readerHead[i] <= p, p < tail,
           NEW q \in Nat, readerHead[i] <= q, q < tail, p # q
    PROVE  Idx(p) # Idx(q)
<1>1. /\ readerHead[i] \in Nat /\ tail \in Nat /\ SlotCount \in Nat \ {0}
      /\ tail <= readerHead[i] + SlotCount - 1
  BY SlotTypes, SlotCountAssumption DEF WindowInv, WithinWindow
<1>2. p < readerHead[i] + SlotCount /\ q < readerHead[i] + SlotCount
  BY <1>1
<1>3. PICK h \in Nat : h = readerHead[i]
  BY <1>1
<1>4. p % SlotCount # q % SlotCount
  BY <1>1, <1>2, <1>3, ModApart
<1> QED BY <1>4 DEF Idx

LEMMA SlotInvInit == Init => SlotInv
BY WindowInvInit
   DEF Init, SlotInv, AheadOfReaders, ClaimsApart, NotPublishedEarly, CopiesPublished, Writing

\* Steps after which nobody has more left to publish than before.
LEMMA NothingClaimed ==
    ASSUME SlotInv, UNCHANGED <<tail, mSeq, readerHead>>,
           \A t \in Senders : Writing(t)' =>
              Writing(t) /\ seq'[t] = seq[t] /\ oldTail'[t] = oldTail[t] /\ need'[t] = need[t]
    PROVE  AheadOfReaders' /\ ClaimsApart' /\ NotPublishedEarly'
<1>1. AheadOfReaders'
  BY DEF SlotInv, AheadOfReaders
<1>2. ClaimsApart'
  BY DEF SlotInv, ClaimsApart
<1>3. NotPublishedEarly'
  BY DEF SlotInv, NotPublishedEarly, Left, Committed
<1> QED BY <1>1, <1>2, <1>3

\* The claim is at the tail: beyond every other claim, every number in m_seq and
\* the head of the reader.
LEMMA ClaimSlots ==
    ASSUME SlotInv, NEW s \in Senders, Claim(s)
    PROVE  AheadOfReaders' /\ ClaimsApart' /\ NotPublishedEarly' /\ CopiesPublished'
<1>1. /\ tail' = tail + need[s] /\ seq' = [seq EXCEPT ![s] = tail] /\ oldTail[s] = tail
      /\ spc' = [spc EXCEPT ![s] = "fill"]
      /\ UNCHANGED <<mSeq, readerHead, rpc, head, oldTail, need>>
  BY DEF Claim, slotVars, rcvVars
<1>2. WindowInv
  BY DEF SlotInv
<1>3. /\ seq'[s] = tail
      /\ \A t \in Senders : t # s => seq'[t] = seq[t] /\ (Writing(t)' <=> Writing(t))
  BY <1>1, <1>2, SlotTypes DEF Writing
<1>4. AheadOfReaders'
  BY <1>1, <1>2, <1>3, SlotTypes DEF SlotInv, AheadOfReaders
<1>5. ClaimsApart'
  BY <1>1, <1>2, <1>3, SlotTypes DEF SlotInv, ClaimsApart
<1>6. \A j \in Slot : mSeq[j] <= tail /\ mSeq[j] \in Nat
  BY <1>2, SlotTypes DEF SlotInv, NotPublishedEarly
<1>7. \A j \in Slot : mSeq'[j] <= tail'
  BY <1>1, <1>2, <1>6, SlotTypes
<1>8. ASSUME NEW p \in Left(s)' PROVE ~Committed(p)'
  <2>1. p \in Nat /\ tail <= p
    BY <1>1, <1>2, <1>3, SlotTypes DEF Left
  <2>2. mSeq[Idx(p)] <= tail
    BY <1>6, <2>1, IdxIsSlot
  <2> QED BY <1>1, <1>2, <1>6, <2>1, <2>2, IdxIsSlot, SlotTypes DEF Committed
<1>9. ASSUME NEW t \in Senders, t # s, Writing(t)', NEW p \in Left(t)' PROVE ~Committed(p)'
  BY <1>1, <1>3, <1>9 DEF SlotInv, NotPublishedEarly, Left, Committed
<1>10. NotPublishedEarly'
  BY <1>7, <1>8, <1>9 DEF NotPublishedEarly
<1>11. CopiesPublished'
  BY <1>1 DEF SlotInv, CopiesPublished, Committed
<1> QED BY <1>4, <1>5, <1>10, <1>11

\* The number that is stored is the sender's next one, which no other claim holds
\* and no reader copies.
LEMMA CommitSlots ==
    ASSUME WholeMasks, SlotInv, NEW s \in Senders, CommitSlot(s)
    PROVE  AheadOfReaders' /\ ClaimsApart' /\ NotPublishedEarly' /\ CopiesPublished'
<1> DEFINE c == seq[s]
<1>1. /\ mSeq' = [mSeq EXCEPT ![Idx(c)] = c + 1] /\ seq' = [seq EXCEPT ![s] = c + 1]
      /\ spc[s] = "commit" /\ Writing(s)
      /\ spc'[s] \in {"fill", "post"}
      /\ \A t \in Senders : t # s => spc'[t] = spc[t]
      /\ UNCHANGED <<tail, readerHead, rpc, head, oldTail, need>>
  BY SlotTypes DEF SlotInv, CommitSlot, ringVars, rcvVars, Writing
<1>2. WindowInv
  BY DEF SlotInv
<1>3. c \in Nat /\ oldTail[s] <= c /\ c < oldTail[s] + need[s] /\ c < tail
      /\ oldTail[s] + need[s] <= tail
  BY <1>1, <1>2, SlotTypes
<1>4. Idx(c) \in Slot /\ mSeq \in [Slot -> Nat]
  BY <1>2, <1>3, IdxIsSlot, SlotTypes
<1>5. /\ seq'[s] = c + 1
      /\ \A t \in Senders : t # s => seq'[t] = seq[t] /\ (Writing(t)' <=> Writing(t))
  BY <1>1, <1>2, SlotTypes DEF Writing
<1>6. AheadOfReaders'
  BY <1>1, <1>2, <1>3, <1>5, SlotTypes DEF SlotInv, AheadOfReaders
<1>7. ClaimsApart'
  BY <1>1, <1>5 DEF SlotInv, ClaimsApart
<1>8. \A j \in Slot : mSeq'[j] <= tail'
  BY <1>1, <1>2, <1>3, <1>4, SlotTypes DEF SlotInv, NotPublishedEarly
<1>9. ASSUME NEW t \in Senders, Writing(t)', NEW p \in Left(t)'
      PROVE  ~Committed(p)'
  <2>1. Writing(t) /\ p \in Left(t) /\ p # c /\ p \in Nat
    <3>1. CASE t = s
      BY <1>1, <1>2, <1>3, <1>5, <1>9, <3>1, SlotTypes DEF Left
    <3>2. CASE t # s
      <4>1. Writing(t) /\ p \in Left(t) /\ p \in Nat
        BY <1>1, <1>2, <1>5, <1>9, <3>2, SlotTypes DEF Left
      <4>2. oldTail[t] <= p /\ p < oldTail[t] + need[t]
        BY <1>2, <4>1, SlotTypes DEF Left
      <4>3. \/ oldTail[s] + need[s] <= oldTail[t]
            \/ oldTail[t] + need[t] <= oldTail[s]
        BY <1>1, <3>2, <4>1 DEF SlotInv, ClaimsApart
      <4> QED BY <1>2, <1>3, <4>1, <4>2, <4>3, SlotTypes
    <3> QED BY <3>1, <3>2
  <2>2. mSeq[Idx(p)] # p + 1 /\ Idx(p) \in Slot
    BY <2>1, IdxIsSlot DEF SlotInv, NotPublishedEarly, Committed
  <2> QED BY <1>1, <1>3, <1>4, <2>1, <2>2 DEF Committed
<1>10. NotPublishedEarly'
  BY <1>8, <1>9 DEF NotPublishedEarly
<1>11. ASSUME NEW i \in ReaderSlots, rpc'[i] = "copy"
       PROVE  Committed(head[i])'
  <2>1. rpc[i] = "copy" /\ mSeq[Idx(head[i])] = head[i] + 1
    BY <1>1, <1>11 DEF SlotInv, CopiesPublished, Committed
  <2>2. /\ head[i] \in Nat /\ head[i] = readerHead[i] /\ head[i] < tail
        /\ readerHead[i] <= c
    BY <1>1, <1>2, <2>1, SlotTypes DEF SlotInv, AheadOfReaders
  <2>3. head[i] # c
    BY <1>1, <1>2, <1>3, <2>1, SlotTypes DEF SlotInv, NotPublishedEarly, Left, Committed
  <2>4. PICK h \in Nat : h = head[i]
    BY <2>2
  <2>5. PICK q \in Nat : q = c
    BY <1>3
  <2>6. Idx(h) # Idx(q)
    BY <1>2, <1>3, <2>2, <2>3, <2>4, <2>5, WindowSlots
  <2>7. Idx(h) \in Slot
    BY <2>2, <2>4, IdxIsSlot
  <2> QED BY <1>1, <1>4, <2>1, <2>4, <2>5, <2>6, <2>7 DEF Committed
<1>12. CopiesPublished'
  BY <1>1, <1>11 DEF CopiesPublished
<1> QED BY <1>6, <1>7, <1>10, <1>12

LEMMA SenderSlots ==
    ASSUME WholeMasks, SlotInv, NEW s \in Senders, SendStep(s)
    PROVE  AheadOfReaders' /\ ClaimsApart' /\ NotPublishedEarly' /\ CopiesPublished'
<1>1. CASE Claim(s)
  BY <1>1, ClaimSlots
<1>2. CASE CommitSlot(s)
  BY <1>2, CommitSlots
<1>3. CASE ~Claim(s) /\ ~CommitSlot(s)
  <2>1. UNCHANGED <<tail, readerHead, rpc, head>>
    BY <1>3, SendFrame
  <2>2. UNCHANGED mSeq
    BY <1>3 DEF SendStep, SenderStep, SendEnter, LoadMask, LoadTail, LoadHead, SendFull,
                ClaimFails, FillSlot, Post, CrashSender, slotVars
  <2>3. \A t \in Senders : Writing(t)' =>
           Writing(t) /\ seq'[t] = seq[t] /\ oldTail'[t] = oldTail[t] /\ need'[t] = need[t]
    BY <1>3, SlotTypes
       DEF SlotInv, SendStep, SenderStep, SendEnter, LoadMask, LoadTail, LoadHead, SendFull,
           ClaimFails, FillSlot, Post, CrashSender, SendReturns, Writing
  <2>4. CopiesPublished'
    BY <2>1, <2>2 DEF SlotInv, CopiesPublished, Committed
  <2> QED BY <2>1, <2>2, <2>3, <2>4, NothingClaimed
<1> QED BY <1>1, <1>2, <1>3

-----------------------------------------------------------------------------
(* The reader. *)

LEMMA SendersUntouched ==
    ASSUME SlotInv, UNCHANGED <<tail, mSeq, spc, seq, oldTail, need>>
    PROVE  ClaimsApart' /\ NotPublishedEarly' /\ (\A s \in Senders : Writing(s)' <=> Writing(s))
BY DEF SlotInv, ClaimsApart, NotPublishedEarly, Left, Committed, Writing

\* A timely sender is not overtaken by a time-out, and nobody is by a copy.
LEMMA ReaderStaysBehind ==
    ASSUME Timely, SlotInv, NEW i \in ReaderSlots, ReaderStep(i), NEW s \in Senders, Writing(s)
    PROVE  readerHead'[i] <= seq[s]
<1>1. WindowInv
  BY DEF SlotInv
<1>2. /\ head[i] \in Nat /\ seq[s] \in Nat /\ readerHead[i] <= seq[s]
      /\ readerHead \in [ReaderSlots -> Nat] /\ tail \in Nat
  BY <1>1, SlotTypes DEF SlotInv, AheadOfReaders
<1>3. rpc[i] # "off" /\ readerHead[i] = head[i]
  BY <1>1, SlotTypes
     DEF ReaderStep, RecvEnter, SemWait, SemWaitDisabled, RecvEmpty, FindCommitted,
         RecvTimeout, CopyFirst, CopyNext, SkipForeign
<1>4. CASE readerHead' = [readerHead EXCEPT ![i] = head[i]] \/ UNCHANGED readerHead
  BY <1>2, <1>3, <1>4
<1>5. CASE rpc[i] = "copy" /\ readerHead' = [readerHead EXCEPT ![i] = head[i] + 1]
  <2>1. Committed(head[i])
    BY <1>5 DEF SlotInv, CopiesPublished
  <2>2. seq[s] \in Left(s)
    BY <1>1, SlotTypes DEF Left
  <2>3. seq[s] # head[i]
    BY <2>1, <2>2 DEF SlotInv, NotPublishedEarly
  <2> QED BY <1>2, <1>3, <1>5, <2>3
<1>6. CASE RecvTimeout(i)
  <2>1. PICK q \in head[i] + 1 .. ScanEnd(head[i]) :
           /\ \A p \in LiveBelow(q) : p < head[i]
           /\ AdvanceTo(i, q)
    BY <1>6 DEF RecvTimeout
  <2>2. q \in Nat
    BY <1>2, <2>1, MaxSliceAssumption DEF ScanEnd
  <2>3. seq[s] \notin LiveBelow(q)
    BY <1>2, <1>3, <2>1
  <2>4. q <= seq[s]
    BY <1>1, <1>2, <2>2, <2>3, SlotTypes DEF LiveBelow, Writing
  <2> QED BY <1>2, <2>1, <2>4 DEF AdvanceTo
<1> QED BY <1>4, <1>5, <1>6
        DEF ReaderStep, RecvEnter, SemWait, SemWaitDisabled, RecvEmpty, FindCommitted,
            CopyFirst, CopyNext, SkipForeign, CopySlice, SkipSlice, AdvanceTo, ringVars

LEMMA ReaderSlotsStep ==
    ASSUME WholeMasks, Timely, SlotInv, NEW i \in ReaderSlots, ReaderStep(i)
    PROVE  AheadOfReaders' /\ ClaimsApart' /\ NotPublishedEarly' /\ CopiesPublished'
<1>1. UNCHANGED <<tail, mSeq, spc, seq, oldTail, need>>
  BY ReaderFrame
     DEF sndVars, ReaderStep, RecvEnter, SemWait, SemWaitDisabled, RecvEmpty, FindCommitted,
         RecvTimeout, CopyFirst, CopyNext, SkipForeign, CopySlice, SkipSlice, slotVars
<1>2. ClaimsApart' /\ NotPublishedEarly' /\ (\A s \in Senders : Writing(s)' <=> Writing(s))
  BY <1>1, SendersUntouched
<1>3. \A j \in ReaderSlots : j # i =>
         readerHead'[j] = readerHead[j] /\ head'[j] = head[j] /\ rpc'[j] = rpc[j]
  BY ReaderAdvances DEF SlotInv, WindowInv
<1>4. AheadOfReaders'
  <2> SUFFICES ASSUME NEW j \in ReaderSlots, NEW s \in Senders, Writing(s)'
               PROVE  readerHead'[j] <= seq'[s]
    BY DEF AheadOfReaders
  <2>1. readerHead'[j] = readerHead[j] \/ j = i
    BY <1>3
  <2> QED BY <1>1, <1>2, <2>1, ReaderStaysBehind DEF SlotInv, AheadOfReaders
<1>5. CopiesPublished'
  <2>1. rpc'[i] = "copy" => Committed(head[i]) /\ UNCHANGED head
    BY SlotTypes
       DEF SlotInv, ReaderStep, RecvEnter, SemWait, SemWaitDisabled, RecvEmpty, FindCommitted,
           RecvTimeout, CopyFirst, CopyNext, SkipForeign, CopySlice, SkipSlice
  <2> QED BY <1>1, <1>3, <2>1 DEF SlotInv, CopiesPublished, Committed
<1> QED BY <1>2, <1>4, <1>5

\* Readers that come and go: only a new head matters, and it waits for the senders.
LEMMA ControlSlots ==
    ASSUME WholeMasks, Timely, SlotInv,
           \/ \E i \in ReaderSlots : ControlStep(i)
           \/ FlagStep \/ Alloc \/ UNCHANGED vars
    PROVE  AheadOfReaders' /\ ClaimsApart' /\ NotPublishedEarly' /\ CopiesPublished'
<1>1. UNCHANGED <<tail, mSeq, spc, seq, oldTail, need>>
  BY ControlFrame, FlagFrame, AllocFrame
     DEF vars, ringVars, sndVars, slotVars, ControlStep, Attach, CrashReader, DropReader,
         Alloc, AllocLoad, AllocTail,
         AllocStore, AllocCas, AllocCasFails
<1>2. ClaimsApart' /\ NotPublishedEarly' /\ (\A s \in Senders : Writing(s)' <=> Writing(s))
  BY <1>1, SendersUntouched
<1>3. WindowInv
  BY DEF SlotInv
<1>4. ASSUME UNCHANGED readerHead PROVE AheadOfReaders'
  <2>1. UNCHANGED <<readerHead, seq>>
    BY <1>1, <1>4
  <2> QED BY <1>2, <2>1 DEF SlotInv, AheadOfReaders
<1>5. ASSUME AllocStore PROVE AheadOfReaders'
  <2>1. /\ LiveBelow(aTail) = {} /\ aIdx \in ReaderSlots /\ aTail \in Nat
        /\ readerHead' = [readerHead EXCEPT ![aIdx] = aTail]
    BY <1>3, <1>5 DEF AllocStore, WindowInv, TypeInv, TypeOK, ControlType, Pos
  <2>2. ASSUME NEW s \in Senders, Writing(s) PROVE aTail <= seq[s]
    <3>1. seq[s] \in Nat /\ seq[s] < oldTail[s] + need[s]
      BY <1>3, <2>2, SlotTypes
    <3>2. seq[s] \notin 0 .. aTail - 1
      BY <2>1, <2>2, <3>1 DEF LiveBelow, Writing
    <3> QED BY <2>1, <3>1, <3>2
  <2>3. \A i \in ReaderSlots : readerHead'[i] \in {aTail, readerHead[i]}
    BY <1>3, <2>1, SlotTypes
  <2> SUFFICES ASSUME NEW i \in ReaderSlots, NEW s \in Senders, Writing(s)'
               PROVE  readerHead'[i] <= seq'[s]
    BY DEF AheadOfReaders
  <2> QED BY <1>1, <1>2, <2>2, <2>3 DEF SlotInv, AheadOfReaders
<1>6. AheadOfReaders'
  BY <1>4, <1>5, ControlFrame, FlagFrame
     DEF vars, ringVars, Alloc, AllocLoad, AllocTail, AllocCas, AllocCasFails
<1>7. \A i \in ReaderSlots : rpc'[i] = "copy" => rpc[i] = "copy" /\ head'[i] = head[i]
  BY <1>3, SlotTypes, FlagFrame, AllocFrame
     DEF vars, rcvVars, ControlStep, Attach, CrashReader, DropReader
<1>8. CopiesPublished'
  BY <1>1, <1>7 DEF SlotInv, CopiesPublished, Committed
<1> QED BY <1>2, <1>6, <1>8

-----------------------------------------------------------------------------

LEMMA SlotInvStep ==
    ASSUME WholeMasks, Timely, SlotInv, [Next]_vars
    PROVE  SlotInv'
<1>1. WindowInv'
  BY WindowInvStep DEF SlotInv
<1>2. AheadOfReaders' /\ ClaimsApart' /\ NotPublishedEarly' /\ CopiesPublished'
  BY StepCases, SenderSlots, ReaderSlotsStep, ControlSlots
<1> QED BY <1>1, <1>2 DEF SlotInv

LEMMA SlotsAreSafe ==
    ASSUME WholeMasks, Timely
    PROVE  Spec => []SlotInv
<1>1. SlotInv /\ [Next]_vars => SlotInv'
  BY SlotInvStep
<1> QED BY <1>1, SlotInvInit, PTL DEF Spec

LEMMA SlotInvWriters ==
    ASSUME WholeMasks, SlotInv
    PROVE  WritersDisjoint
<1> SUFFICES ASSUME NEW s \in Senders, NEW t \in Senders, s # t, Writing(s), Writing(t)
             PROVE  Idx(seq[s]) # Idx(seq[t])
  BY DEF WritersDisjoint
<1>1. WindowInv
  BY DEF SlotInv
<1>2. /\ seq[s] \in Nat /\ seq[t] \in Nat /\ seq[s] # seq[t]
      /\ seq[s] < tail /\ seq[t] < tail
  BY <1>1, SlotTypes DEF SlotInv, ClaimsApart
<1>3. PICK r \in ReaderSlots : readerHead[r] <= seq[s] /\ readerHead[r] <= seq[t]
  BY DEF SlotInv, AheadOfReaders, WholeMasks
<1>4. PICK p \in Nat, q \in Nat : p = seq[s] /\ q = seq[t]
  BY <1>2
<1> QED BY <1>1, <1>2, <1>3, <1>4, WindowSlots

\* Two senders never write one physical slot of such a ring, for any number of senders
\* and slots and over any crashes of the reader of an inbox, as long as no live sender
\* outlasts the slot timeout (Timely).
THEOREM WritersAreDisjoint ==
    ASSUME WholeMasks, Timely
    PROVE  Spec => []WritersDisjoint
<1>1. SlotInv => WritersDisjoint
  BY SlotInvWriters
<1> QED BY <1>1, SlotsAreSafe, PTL

\* Nor does a sender write the slot the reader of such a ring is copying from: "a
\* consumer reads a slot only after its data is completely written" (ShmManager.cpp:6).
\* After a leave and a new grant of the index it may: the run RingHandover.
THEOREM ReadsAreCommitted ==
    ASSUME WholeMasks, Timely
    PROVE  Spec => []ReadsOnlyCommitted
<1>1. SlotInv => ReadsOnlyCommitted
  <2> SUFFICES ASSUME SlotInv, NEW i \in ReaderSlots, NEW s \in Senders,
                      rpc[i] = "copy", Writing(s)
               PROVE  Idx(head[i]) # Idx(seq[s])
    BY DEF ReadsOnlyCommitted
  <2>1. WindowInv
    BY DEF SlotInv
  <2>2. /\ head[i] \in Nat /\ seq[s] \in Nat /\ head[i] < tail /\ seq[s] < tail
        /\ readerHead[i] = head[i] /\ readerHead[i] <= seq[s]
        /\ seq[s] \in Left(s)
    BY <2>1, SlotTypes DEF SlotInv, AheadOfReaders, Left
  <2>3. head[i] # seq[s]
    BY <2>2 DEF SlotInv, CopiesPublished, NotPublishedEarly
  <2>4. PICK p \in Nat, q \in Nat : p = head[i] /\ q = seq[s]
    BY <2>2
  <2> QED BY <2>1, <2>2, <2>3, <2>4, WindowSlots
<1> QED BY <1>1, SlotsAreSafe, PTL

-----------------------------------------------------------------------------
(* The channel.  A published slot that some reader has still to read holds a *)
(* slice of the claim it belongs to, because no other writer can touch it;   *)
(* so a reader assembles a message slice by slice in the order of the claim, *)
(* and what it hands over is one whole claim above the one before.           *)

\* What the channel lemmas use of the types.
LEMMA ChannelTypes ==
    ASSUME WindowInv
    PROVE  /\ tail \in Pos /\ Pos \subseteq Nat
           /\ msgLen \in [Pos -> Nat]
           /\ last \in [ReaderSlots -> SUBSET Pos]
           /\ mSliceId \in [Slot -> Nat] /\ mSliceCount \in [Slot -> Nat]
           /\ mData \in [Slot -> Pos]
           /\ sliceCount \in [ReaderSlots -> Nat] /\ slicesDone \in [ReaderSlots -> Nat]
           /\ buf \in [ReaderSlots -> SUBSET Pos]
           /\ seq \in [Senders -> Pos] /\ oldTail \in [Senders -> Pos]
           /\ readerHead \in [ReaderSlots -> Pos] /\ head \in [ReaderSlots -> Pos]
           /\ \A s \in Senders : spc[s] # "idle" => need[s] > 0
BY DEF WindowInv, TypeInv, TypeOK, HeaderType, SlotType, SenderType, ReaderType,
       HistoryType, BehindTail, Pos

LEMMA ChannelInvInit == Init => ChannelInv
<1> SUFFICES ASSUME Init PROVE ChannelInv
  OBVIOUS
<1>1. Accepted = {} /\ \A s \in Senders : ~Writing(s) /\ spc[s] = "idle"
  BY DEF Init, Accepted, Writing
<1>2. ClaimsInOrder
  BY <1>1 DEF ClaimsInOrder
<1>3. PublishedIsWhole
  BY <1>1 DEF PublishedIsWhole, Init, Pos
<1>4. AssemblyIsPrefix /\ DeliveredBefore
  BY DEF AssemblyIsPrefix, DeliveredBefore, Init
<1>5. NothingSkipped
  BY <1>1 DEF NothingSkipped, Init, Pos
<1> QED BY <1>2, <1>3, <1>4, <1>5, SlotInvInit DEF ChannelInv

\* A claim is at the tail; no other step touches what was claimed, or gives a
\* sender more to publish.
LEMMA ClaimAtTail ==
    ASSUME ChannelInv, NEW s \in Senders, Claim(s)
    PROVE  /\ tail \in Pos /\ need[s] \in Nat /\ need[s] > 0 /\ tail' = tail + need[s]
           /\ oldTail[s] = tail
           /\ msgLen' = [msgLen EXCEPT ![tail] = need[s]]
           /\ spc' = [spc EXCEPT ![s] = "fill"] /\ seq' = [seq EXCEPT ![s] = tail]
           /\ UNCHANGED <<readerHead, slotVars, need, oldTail, rcvVars, allocVars, ctlVars,
                           last>>
           /\ Accepted' = Accepted \cup {tail}
           /\ \A b \in Accepted : b \in Nat /\ b < tail /\ msgLen'[b] = msgLen[b]
                                  /\ msgLen[b] \in Nat /\ msgLen[b] > 0
<1>1. WindowInv
  BY DEF ChannelInv, SlotInv
<1>2. \A b \in Accepted : b \in Nat /\ b < tail /\ msgLen[b] \in Nat /\ msgLen[b] > 0
  BY <1>1, ChannelTypes DEF ChannelInv, ClaimsInOrder, Accepted
<1>3. need[s] \in Nat /\ need[s] > 0
  BY <1>1, SlotTypes, ChannelTypes DEF Claim
<1> QED BY <1>1, <1>2, <1>3, ChannelTypes DEF Claim, Accepted

LEMMA ClaimsKept ==
    ASSUME WindowInv, [Next]_vars, \A s \in Senders : ~Claim(s)
    PROVE  /\ UNCHANGED <<tail, msgLen>>
           /\ \A s \in Senders : Writing(s)' =>
                 Writing(s) /\ oldTail'[s] = oldTail[s] /\ need'[s] = need[s]
<1>1. ASSUME NEW s \in Senders, SendStep(s)
      PROVE  /\ UNCHANGED <<tail, msgLen>>
             /\ \A t \in Senders : Writing(t)' =>
                   Writing(t) /\ oldTail'[t] = oldTail[t] /\ need'[t] = need[t]
  BY <1>1, SlotTypes
     DEF SendStep, SendEnter, SenderStep, LoadMask, LoadTail, LoadHead, SendFull, ClaimFails,
         FillSlot, CommitSlot, Post, CrashSender, SendReturns, Writing, ringVars, histVars
<1>2. CASE UNCHANGED <<tail, msgLen, sndVars>>
  BY <1>2 DEF sndVars, Writing
<1>3. ASSUME NEW i \in ReaderSlots, ReaderStep(i) PROVE UNCHANGED <<tail, msgLen, sndVars>>
  BY <1>3, ReaderFrame
     DEF ReaderStep, RecvEnter, SemWait, SemWaitDisabled, RecvEmpty, FindCommitted,
         RecvTimeout, CopyFirst, CopyNext, SkipForeign, CopySlice, SkipSlice, histVars
<1>4. ASSUME NEW i \in ReaderSlots, ControlStep(i) PROVE UNCHANGED <<tail, msgLen, sndVars>>
  BY <1>4, ControlFrame
     DEF ControlStep, Attach, CrashReader, DropReader, histVars
<1>5. FlagStep => UNCHANGED <<tail, msgLen, sndVars>>
  BY FlagFrame
<1>6. Alloc => UNCHANGED <<tail, msgLen, sndVars>>
  BY AllocFrame DEF Alloc, AllocLoad, AllocTail, AllocStore, AllocCas, AllocCasFails, histVars
<1>7. UNCHANGED vars => UNCHANGED <<tail, msgLen, sndVars>>
  BY DEF vars, ringVars, histVars
<1> QED BY <1>1, <1>2, <1>3, <1>4, <1>5, <1>6, <1>7, StepCases

LEMMA ClaimsInOrderStep ==
    ASSUME ChannelInv, [Next]_vars
    PROVE  ClaimsInOrder'
<1>1. WindowInv
  BY DEF ChannelInv, SlotInv
<1>2. ASSUME NEW s \in Senders, Claim(s) PROVE ClaimsInOrder'
  <2>1. \A b \in Accepted' : b + msgLen'[b] <= tail'
    BY <1>2, ClaimAtTail, ChannelTypes, <1>1 DEF ChannelInv, ClaimsInOrder
  <2>2. ASSUME NEW a \in Accepted', NEW b \in Accepted', a < b
        PROVE  a + msgLen'[a] <= b
    <3>1. a \in Accepted /\ (b \in Accepted \/ b = tail) /\ tail \in Nat
      BY <1>1, <1>2, <2>2, ClaimAtTail, ChannelTypes
    <3>2. msgLen'[a] = msgLen[a] /\ a + msgLen[a] <= tail
      BY <1>2, <3>1, ClaimAtTail DEF ChannelInv, ClaimsInOrder
    <3> QED BY <2>2, <3>1, <3>2 DEF ChannelInv, ClaimsInOrder
  <2>3. ASSUME NEW t \in Senders, Writing(t)' PROVE msgLen'[oldTail'[t]] = need'[t]
    <3>1. CASE t = s
      BY <1>1, <1>2, <3>1, ClaimAtTail, ChannelTypes
    <3>2. CASE t # s
      <4>1. Writing(t)
        BY <1>1, <1>2, <2>3, <3>2, ClaimAtTail, SlotTypes DEF Writing
      <4>2. oldTail[t] < tail /\ msgLen[oldTail[t]] = need[t]
        BY <1>1, <4>1, SlotTypes DEF ChannelInv, ClaimsInOrder
      <4> QED BY <1>1, <1>2, <4>2, ClaimAtTail, ChannelTypes
    <3> QED BY <3>1, <3>2
  <2> QED BY <2>1, <2>2, <2>3 DEF ClaimsInOrder
<1>3. CASE \A s \in Senders : ~Claim(s)
  BY <1>1, <1>3, ClaimsKept DEF ChannelInv, ClaimsInOrder, Accepted
<1> QED BY <1>2, <1>3

\* What was claimed stays claimed, and is as long as it was.
LEMMA ClaimsStay ==
    ASSUME ChannelInv, [Next]_vars
    PROVE  \A b \in Accepted :
              /\ b \in Accepted' /\ b \in Pos /\ b \in Nat
              /\ msgLen'[b] = msgLen[b] /\ msgLen[b] \in Nat /\ msgLen[b] > 0
              /\ Span(b)' = Span(b)
<1>1. WindowInv
  BY DEF ChannelInv, SlotInv
<1>2. \A b \in Accepted : b \in Pos /\ b \in Nat /\ msgLen[b] \in Nat /\ msgLen[b] > 0
  BY <1>1, ChannelTypes DEF Accepted
<1>3. \A b \in Accepted : b \in Accepted' /\ msgLen'[b] = msgLen[b]
  <2>1. ASSUME NEW s \in Senders, Claim(s)
        PROVE  \A b \in Accepted : b \in Accepted' /\ msgLen'[b] = msgLen[b]
    BY <2>1, ClaimAtTail
  <2>2. CASE \A s \in Senders : ~Claim(s)
    BY <1>1, <2>2, ClaimsKept DEF Accepted
  <2> QED BY <2>1, <2>2
<1> QED BY <1>2, <1>3 DEF Span

\* Every step but these three leaves the slots, and what a sender is about to
\* publish, as they are.
LEMMA SlotsKept ==
    ASSUME WindowInv, [Next]_vars,
           \A s \in Senders : ~Claim(s) /\ ~FillSlot(s) /\ ~CommitSlot(s)
    PROVE  /\ UNCHANGED slotVars
           /\ \A s \in Senders : Writing(s)' =>
                 spc'[s] = spc[s] /\ seq'[s] = seq[s] /\ oldTail'[s] = oldTail[s]
<1>1. ASSUME NEW s \in Senders, SendStep(s)
      PROVE  /\ UNCHANGED slotVars
             /\ \A t \in Senders : Writing(t)' =>
                   spc'[t] = spc[t] /\ seq'[t] = seq[t] /\ oldTail'[t] = oldTail[t]
  BY <1>1, SlotTypes
     DEF SendStep, SendEnter, SenderStep, LoadMask, LoadTail, LoadHead, SendFull, ClaimFails,
         Post, CrashSender, SendReturns, Writing
<1>2. CASE UNCHANGED <<slotVars, sndVars>>
  BY <1>2 DEF sndVars, Writing
<1>3. ASSUME NEW i \in ReaderSlots, ReaderStep(i) PROVE UNCHANGED <<slotVars, sndVars>>
  BY <1>3, ReaderFrame
     DEF ReaderStep, RecvEnter, SemWait, SemWaitDisabled, RecvEmpty, FindCommitted,
         RecvTimeout, CopyFirst, CopyNext, SkipForeign, CopySlice, SkipSlice
<1>4. ASSUME NEW i \in ReaderSlots, ControlStep(i) PROVE UNCHANGED <<slotVars, sndVars>>
  BY <1>4, ControlFrame DEF ControlStep, Attach, CrashReader, DropReader
<1>5. FlagStep => UNCHANGED <<slotVars, sndVars>>
  BY FlagFrame
<1>6. Alloc => UNCHANGED <<slotVars, sndVars>>
  BY AllocFrame DEF Alloc, AllocLoad, AllocTail, AllocStore, AllocCas, AllocCasFails
<1>7. UNCHANGED vars => UNCHANGED <<slotVars, sndVars>>
  BY DEF vars
<1> QED BY <1>1, <1>2, <1>3, <1>4, <1>5, <1>6, <1>7, StepCases

\* The slot of a number in the window is written by the sender of that number only:
\* whatever happens to slot Idx(c), other numbers keep what they hold.
LEMMA OtherSlotsHold ==
    ASSUME ChannelInv, [Next]_vars, NEW p \in Pos, NEW b \in Accepted, HoldsSlice(p, b),
           mData'[Idx(p)] = mData[Idx(p)],
           mSliceId'[Idx(p)] = mSliceId[Idx(p)],
           mSliceCount'[Idx(p)] = mSliceCount[Idx(p)]
    PROVE  HoldsSlice(p, b)'
BY ClaimsStay DEF HoldsSlice, Idx

LEMMA WriterIsAccepted ==
    ASSUME ChannelInv, NEW s \in Senders, Writing(s)
    PROVE  oldTail[s] \in Accepted /\ msgLen[oldTail[s]] = need[s]
<1>1. WindowInv
  BY DEF ChannelInv, SlotInv
<1> QED BY <1>1, SlotTypes, ChannelTypes DEF ChannelInv, ClaimsInOrder, Accepted, Writing

LEMMA PublishedByClaim ==
    ASSUME WholeMasks, ChannelInv, NEW s \in Senders, Claim(s)
    PROVE  PublishedIsWhole'
<1>1. WindowInv /\ SlotInv /\ [Next]_vars
  BY DEF ChannelInv, SlotInv, Next, SenderStep
<1>2. UNCHANGED <<mSeq, mSliceId, mSliceCount, mData, readerHead>>
  BY ClaimAtTail DEF slotVars
<1>3. ASSUME NEW i \in ReaderSlots, NEW p \in Pos,
             readerHead'[i] <= p, p < tail', Committed(p)'
      PROVE  \E b \in Accepted' : p \in Span(b)' /\ HoldsSlice(p, b)'
  <2>1. p \in Nat /\ tail \in Nat /\ mSeq[Idx(p)] = p + 1
    BY <1>1, <1>2, <1>3, ChannelTypes DEF Committed
  <2>2. mSeq[Idx(p)] <= tail
    BY <1>1, <2>1, IdxIsSlot DEF SlotInv, NotPublishedEarly
  <2>3. p < tail /\ Committed(p) /\ readerHead[i] <= p
    BY <1>2, <1>3, <2>1, <2>2 DEF Committed
  <2>4. PICK b \in Accepted : p \in Span(b) /\ HoldsSlice(p, b)
    BY <2>3 DEF ChannelInv, PublishedIsWhole
  <2> QED BY <1>1, <1>2, <2>4, OtherSlotsHold, ClaimsStay
<1>4. ASSUME NEW t \in Senders, spc'[t] = "commit",
             NEW p, p = seq'[t], NEW b, b = oldTail'[t]
      PROVE  HoldsSlice(p, b)'
  <2>1. /\ t # s /\ spc[t] = "commit" /\ Writing(t)
        /\ seq'[t] = seq[t] /\ oldTail'[t] = oldTail[t]
    BY <1>1, <1>4, ClaimAtTail, SlotTypes DEF Writing
  <2>2. HoldsSlice(p, b) /\ p \in Pos
    BY <1>1, <1>4, <2>1, ChannelTypes DEF ChannelInv, PublishedIsWhole
  <2>3. b \in Accepted
    BY <1>1, <1>4, <2>1, WriterIsAccepted
  <2> QED BY <1>1, <1>2, <2>2, <2>3, OtherSlotsHold
<1> QED BY <1>3, <1>4 DEF PublishedIsWhole, HoldsSlice

\* A writer's next number is in every reader's window, so no other number of the
\* window, and no other writer, has its slot.
LEMMA WriterHasItsSlot ==
    ASSUME WholeMasks, SlotInv, NEW s \in Senders, Writing(s)
    PROVE  /\ Idx(seq[s]) \in Slot
           /\ \A i \in ReaderSlots, p \in Nat :
                 readerHead[i] <= p /\ p < tail /\ p # seq[s] => Idx(p) # Idx(seq[s])
           /\ \A t \in Senders : t # s /\ Writing(t) => Idx(seq[t]) # Idx(seq[s])
<1>1. WindowInv
  BY DEF SlotInv
<1>2. PICK c \in Nat : c = seq[s]
  BY <1>1, SlotTypes
<1>3. c < tail /\ \A i \in ReaderSlots : readerHead[i] <= c
  BY <1>1, <1>2, SlotTypes DEF SlotInv, AheadOfReaders
<1>4. \A i \in ReaderSlots, p \in Nat :
         readerHead[i] <= p /\ p < tail /\ p # c => Idx(p) # Idx(c)
  BY <1>1, <1>3, WindowSlots
<1> QED BY <1>2, <1>4, IdxIsSlot, SlotInvWriters DEF WritersDisjoint

LEMMA PublishedByFill ==
    ASSUME WholeMasks, ChannelInv, NEW s \in Senders, FillSlot(s)
    PROVE  PublishedIsWhole'
<1> DEFINE c == seq[s]
<1>1. WindowInv /\ SlotInv /\ [Next]_vars
  BY DEF ChannelInv, SlotInv, Next, SenderStep
<1>2. /\ Writing(s) /\ spc' = [spc EXCEPT ![s] = "commit"]
      /\ mData' = [mData EXCEPT ![Idx(c)] = c]
      /\ mSliceId' = [mSliceId EXCEPT ![Idx(c)] = c - oldTail[s]]
      /\ mSliceCount' = [mSliceCount EXCEPT ![Idx(c)] =
                           IF c = oldTail[s] THEN need[s] ELSE @]
      /\ UNCHANGED <<tail, readerHead, mSeq, msgLen, seq, oldTail, need>>
  BY DEF FillSlot, Writing, ringVars, histVars
<1>3. /\ mData \in [Slot -> Pos] /\ mSliceId \in [Slot -> Nat]
      /\ mSliceCount \in [Slot -> Nat] /\ Idx(c) \in Slot
  BY <1>1, <1>2, ChannelTypes, WriterHasItsSlot
<1>4. \A q : Idx(q) # Idx(c) => /\ mData'[Idx(q)] = mData[Idx(q)]
                                /\ mSliceId'[Idx(q)] = mSliceId[Idx(q)]
                                /\ mSliceCount'[Idx(q)] = mSliceCount[Idx(q)]
  BY <1>2, <1>3
<1>5. ASSUME NEW i \in ReaderSlots, NEW p \in Pos,
             readerHead'[i] <= p, p < tail', Committed(p)'
      PROVE  \E b \in Accepted' : p \in Span(b)' /\ HoldsSlice(p, b)'
  <2>1. p \in Nat /\ readerHead[i] <= p /\ p < tail /\ Committed(p)
    BY <1>1, <1>2, <1>5, ChannelTypes DEF Committed
  <2>2. p # c
    BY <1>1, <1>2, <2>1, SlotTypes DEF SlotInv, NotPublishedEarly, Left
  <2>3. Idx(p) # Idx(c)
    BY <1>1, <1>2, <2>1, <2>2, WriterHasItsSlot
  <2>4. PICK b \in Accepted : p \in Span(b) /\ HoldsSlice(p, b)
    BY <2>1 DEF ChannelInv, PublishedIsWhole
  <2> QED BY <1>1, <1>4, <2>3, <2>4, OtherSlotsHold, ClaimsStay
<1>6. ASSUME NEW t \in Senders, spc'[t] = "commit",
             NEW p, p = seq'[t], NEW b, b = oldTail'[t]
      PROVE  HoldsSlice(p, b)'
  <2>1. CASE t = s
    <3>1. p = c /\ b = oldTail[s] /\ msgLen'[b] = need[s]
      BY <1>2, <1>6, <2>1, WriterIsAccepted
    <3>2. mData'[Idx(c)] = c /\ mSliceId'[Idx(c)] = c - b
          /\ (c = b => mSliceCount'[Idx(c)] = need[s])
      BY <1>2, <1>3, <3>1
    <3> QED BY <3>1, <3>2 DEF HoldsSlice, Idx
  <2>2. CASE t # s
    <3>1. spc[t] = "commit" /\ Writing(t) /\ p = seq[t] /\ b = oldTail[t]
      BY <1>1, <1>2, <1>6, <2>2, SlotTypes DEF Writing
    <3>2. HoldsSlice(p, b) /\ p \in Pos /\ b \in Accepted
      BY <1>1, <3>1, ChannelTypes, WriterIsAccepted DEF ChannelInv, PublishedIsWhole
    <3>3. Idx(p) # Idx(c)
      BY <1>1, <1>2, <2>2, <3>1, WriterHasItsSlot
    <3> QED BY <1>1, <1>4, <3>2, <3>3, OtherSlotsHold
  <2> QED BY <2>1, <2>2
<1> QED BY <1>5, <1>6 DEF PublishedIsWhole, HoldsSlice

LEMMA PublishedByCommit ==
    ASSUME WholeMasks, ChannelInv, NEW s \in Senders, CommitSlot(s)
    PROVE  PublishedIsWhole'
<1> DEFINE c == seq[s]
<1>1. WindowInv /\ SlotInv /\ [Next]_vars
  BY DEF ChannelInv, SlotInv, Next, SenderStep
<1>2. /\ Writing(s) /\ spc[s] = "commit" /\ spc'[s] # "commit"
      /\ \A t \in Senders : t # s => spc'[t] = spc[t] /\ seq'[t] = seq[t]
      /\ mSeq' = [mSeq EXCEPT ![Idx(c)] = c + 1]
      /\ UNCHANGED <<tail, readerHead, mData, mSliceId, mSliceCount, msgLen, oldTail>>
  BY <1>1, SlotTypes DEF CommitSlot, Writing, ringVars, histVars
<1>3. ASSUME NEW i \in ReaderSlots, NEW p \in Pos,
             readerHead'[i] <= p, p < tail', Committed(p)'
      PROVE  \E b \in Accepted' : p \in Span(b)' /\ HoldsSlice(p, b)'
  <2>1. p \in Nat /\ readerHead[i] <= p /\ p < tail
    BY <1>1, <1>2, <1>3, ChannelTypes
  <2>2. \E b \in Accepted : p \in Span(b) /\ HoldsSlice(p, b)
    <3>1. CASE p = c
      <4>1. oldTail[s] \in Accepted /\ c \in Span(oldTail[s])
        BY <1>1, <1>2, SlotTypes, WriterIsAccepted DEF Span
      <4> QED BY <1>2, <3>1, <4>1 DEF ChannelInv, PublishedIsWhole
    <3>2. CASE p # c
      <4>1. Idx(p) # Idx(c)
        BY <1>1, <1>2, <2>1, <3>2, WriterHasItsSlot
      <4>2. Committed(p)
        BY <1>1, <1>2, <1>3, <4>1, SlotTypes DEF Committed, Idx
      <4> QED BY <2>1, <4>2 DEF ChannelInv, PublishedIsWhole
    <3> QED BY <3>1, <3>2
  <2>3. PICK b \in Accepted : p \in Span(b) /\ HoldsSlice(p, b)
    BY <2>2
  <2> QED BY <1>1, <1>2, <2>3, OtherSlotsHold, ClaimsStay
<1>4. ASSUME NEW t \in Senders, spc'[t] = "commit",
             NEW p, p = seq'[t], NEW b, b = oldTail'[t]
      PROVE  HoldsSlice(p, b)'
  <2>1. spc[t] = "commit" /\ Writing(t) /\ p = seq[t] /\ b = oldTail[t]
    BY <1>2, <1>4 DEF Writing
  <2>2. HoldsSlice(p, b) /\ p \in Pos /\ b \in Accepted
    BY <1>1, <2>1, ChannelTypes, WriterIsAccepted DEF ChannelInv, PublishedIsWhole
  <2> QED BY <1>1, <1>2, <2>2, OtherSlotsHold
<1> QED BY <1>3, <1>4 DEF PublishedIsWhole, HoldsSlice

LEMMA PublishedIsWholeStep ==
    ASSUME WholeMasks, ChannelInv, [Next]_vars
    PROVE  PublishedIsWhole'
<1>1. WindowInv
  BY DEF ChannelInv, SlotInv
<1>2. CASE \A s \in Senders : ~Claim(s) /\ ~FillSlot(s) /\ ~CommitSlot(s)
  <2>1. /\ UNCHANGED <<tail, msgLen, mSeq, mData, mSliceId, mSliceCount>>
        /\ \A s \in Senders : Writing(s)' =>
              spc'[s] = spc[s] /\ seq'[s] = seq[s] /\ oldTail'[s] = oldTail[s]
    BY <1>1, <1>2, ClaimsKept, SlotsKept DEF slotVars
  <2>2. ASSUME NEW i \in ReaderSlots, NEW p \in Pos,
               readerHead'[i] <= p, p < tail', Committed(p)'
        PROVE  \E b \in Accepted' : p \in Span(b)' /\ HoldsSlice(p, b)'
    <3>1. readerHead[i] <= p /\ p < tail /\ Committed(p)
      BY <1>1, <2>1, <2>2, HeadsGrow, ChannelTypes DEF Committed
    <3>2. PICK b \in Accepted : p \in Span(b) /\ HoldsSlice(p, b)
      BY <3>1 DEF ChannelInv, PublishedIsWhole
    <3> QED BY <2>1, <3>2, OtherSlotsHold, ClaimsStay
  <2>3. ASSUME NEW t \in Senders, spc'[t] = "commit",
               NEW p, p = seq'[t], NEW b, b = oldTail'[t]
        PROVE  HoldsSlice(p, b)'
    <3>1. spc[t] = "commit" /\ Writing(t) /\ p = seq[t] /\ b = oldTail[t]
      BY <2>1, <2>3 DEF Writing
    <3>2. HoldsSlice(p, b) /\ p \in Pos /\ b \in Accepted
      BY <1>1, <3>1, ChannelTypes, WriterIsAccepted DEF ChannelInv, PublishedIsWhole
    <3> QED BY <2>1, <3>2, OtherSlotsHold
  <2> QED BY <2>2, <2>3 DEF PublishedIsWhole, HoldsSlice
<1> QED BY <1>2, PublishedByClaim, PublishedByFill, PublishedByCommit

-----------------------------------------------------------------------------
(* The reader's assembly. *)

\* The claim a number belongs to is the only one.
LEMMA OneClaimEach ==
    ASSUME ChannelInv, NEW a \in Accepted, NEW b \in Accepted, NEW p \in Nat,
           p \in Span(a), p \in Span(b)
    PROVE  a = b
<1>1. /\ a \in Nat /\ b \in Nat /\ msgLen[a] \in Nat /\ msgLen[b] \in Nat
  BY ChannelTypes DEF ChannelInv, SlotInv, Accepted
<1>2. a <= p /\ p < a + msgLen[a] /\ b <= p /\ p < b + msgLen[b]
  BY <1>1 DEF Span
<1>3. (a < b => a + msgLen[a] <= b) /\ (b < a => b + msgLen[b] <= a)
  BY DEF ChannelInv, ClaimsInOrder
<1> QED BY <1>1, <1>2, <1>3

\* What recv_impl takes for the next slice is the next slice of the claim at Start,
\* and the count it goes by is that claim's.
LEMMA NextSlice ==
    ASSUME ChannelInv, NEW i \in ReaderSlots, rpc[i] = "copy", Continues(i),
           NEW count,
           count = IF sliceCount[i] = 0 THEN mSliceCount[Idx(head[i])] ELSE sliceCount[i]
    PROVE  /\ head[i] \in Nat /\ readerHead[i] = head[i] /\ slicesDone[i] \in Nat
           /\ Start(i) \in Accepted /\ Start(i) \in Nat
           /\ head[i] = Start(i) + slicesDone[i]
           /\ head[i] < Start(i) + count
           /\ count = msgLen[Start(i)] /\ count \in Nat
           /\ buf[i] \cup {mData[Idx(head[i])]} = Start(i) .. head[i]
<1> DEFINE h == head[i]
<1>1. WindowInv /\ SlotInv
  BY DEF ChannelInv, SlotInv
<1>2. /\ h \in Nat /\ h \in Pos /\ readerHead[i] = h /\ h < tail /\ Committed(h)
      /\ slicesDone[i] \in Nat /\ sliceCount[i] \in Nat
  BY <1>1, SlotTypes, ChannelTypes DEF SlotInv, CopiesPublished
<1>3. PICK b \in Accepted : h \in Span(b) /\ HoldsSlice(h, b)
  BY <1>2 DEF ChannelInv, PublishedIsWhole
<1>4. /\ b \in Nat /\ msgLen[b] \in Nat /\ b <= h /\ h < b + msgLen[b]
      /\ mData[Idx(h)] = h /\ mSliceId[Idx(h)] = h - b
      /\ h = b => mSliceCount[Idx(h)] = msgLen[b]
  BY <1>1, <1>3, ChannelTypes DEF Span, HoldsSlice, Accepted
<1>5. CASE sliceCount[i] = 0
  <2>1. slicesDone[i] = 0 /\ buf[i] = {}
    BY <1>5 DEF ChannelInv, AssemblyIsPrefix
  <2>2. h = b
    BY <1>2, <1>4, <1>5 DEF Continues, StartsMessage
  <2>3. Start(i) = h
    BY <1>2, <2>1 DEF Start
  <2>4. Start(i) .. h = {h}
    BY <1>2, <2>3
  <2> QED BY <1>2, <1>3, <1>4, <1>5, <2>1, <2>2, <2>3, <2>4
<1>6. CASE sliceCount[i] # 0
  <2>1. /\ slicesDone[i] > 0 /\ slicesDone[i] < sliceCount[i]
        /\ sliceCount[i] = msgLen[Start(i)]
        /\ buf[i] = Start(i) .. h - 1
    BY <1>2, <1>6 DEF ChannelInv, AssemblyIsPrefix
  <2>2. h - b = slicesDone[i]
    BY <1>4, <1>6 DEF Continues
  <2>3. Start(i) = b
    BY <1>2, <1>4, <2>2 DEF Start
  <2>4. (b .. h - 1) \cup {h} = b .. h
    BY <1>2, <1>4
  <2> QED BY <1>2, <1>3, <1>4, <1>6, <2>1, <2>2, <2>3, <2>4
<1> QED BY <1>5, <1>6

\* Taking it either completes the claim, which is handed over, or leaves one slice
\* more of it in the buffer.
LEMMA CopyOutcome ==
    ASSUME ChannelInv, NEW i \in ReaderSlots, CopyFirst(i) \/ CopyNext(i)
    PROVE  /\ Start(i) \in Accepted /\ Start(i) \in Nat /\ msgLen[Start(i)] \in Nat
           /\ msgLen[Start(i)] > 0
           /\ UNCHANGED <<msgLen, tail, slotVars, sndVars, allocVars, ctlVars>>
           /\ \A j \in ReaderSlots : j # i =>
                 /\ readerHead'[j] = readerHead[j] /\ slicesDone'[j] = slicesDone[j]
                 /\ sliceCount'[j] = sliceCount[j] /\ buf'[j] = buf[j]
                 /\ rpc'[j] = rpc[j] /\ last'[j] = last[j]
           /\ \/ /\ last' = [last EXCEPT ![i] = Span(Start(i))]
                 /\ sliceCount'[i] = 0 /\ slicesDone'[i] = 0 /\ buf'[i] = {}
                 /\ readerHead'[i] = Start(i) + msgLen[Start(i)]
              \/ /\ UNCHANGED last
                 /\ rpc'[i] = "loop"
                 /\ sliceCount'[i] = msgLen[Start(i)]
                 /\ slicesDone'[i] = slicesDone[i] + 1
                 /\ slicesDone'[i] < sliceCount'[i]
                 /\ slicesDone[i] \in Nat /\ readerHead[i] \in Nat
                 /\ readerHead'[i] = readerHead[i] + 1
                 /\ buf'[i] = Start(i) .. readerHead'[i] - 1
<1>1. WindowInv
  BY DEF ChannelInv, SlotInv
<1> DEFINE count == IF sliceCount[i] = 0 THEN mSliceCount[Idx(head[i])] ELSE sliceCount[i]
           content == buf[i] \cup {mData[Idx(head[i])]}
<1>2. rpc[i] = "copy" /\ Continues(i) /\ CopySlice(i, count)
  BY DEF CopyFirst, CopyNext
<1>3. /\ head[i] \in Nat /\ readerHead[i] = head[i] /\ slicesDone[i] \in Nat
      /\ Start(i) \in Accepted /\ Start(i) \in Nat
      /\ head[i] = Start(i) + slicesDone[i] /\ head[i] < Start(i) + count
      /\ count = msgLen[Start(i)] /\ count \in Nat
      /\ content = Start(i) .. head[i]
  BY <1>2, NextSlice
<1>4. /\ readerHead \in [ReaderSlots -> Nat]
      /\ rpc \in [ReaderSlots -> {"off", "idle", "wait", "loop", "copy"}]
      /\ sliceCount \in [ReaderSlots -> Nat] /\ slicesDone \in [ReaderSlots -> Nat]
      /\ buf \in [ReaderSlots -> SUBSET Pos] /\ last \in [ReaderSlots -> SUBSET Pos]
  BY <1>1, SlotTypes, ChannelTypes
<1>5. /\ UNCHANGED <<msgLen, tail, slotVars, sndVars, allocVars, ctlVars>>
      /\ readerHead' = [readerHead EXCEPT ![i] = head[i] + 1]
  BY <1>2 DEF CopySlice, AdvanceTo
<1> HIDE DEF count, content
<1>6. CASE slicesDone[i] + 1 >= count
  <2>1. /\ last' = [last EXCEPT ![i] = content] /\ rpc' = [rpc EXCEPT ![i] = "idle"]
        /\ ClearAssembly(i)
    BY <1>2, <1>6 DEF CopySlice, content
  <2>2. head[i] + 1 = Start(i) + count
    BY <1>3, <1>6
  <2>3. content = Span(Start(i))
    <3>1. head[i] = Start(i) + msgLen[Start(i)] - 1
      BY <1>3, <2>2
    <3> QED BY <1>3, <3>1 DEF Span
  <2>4. \A j \in ReaderSlots : j # i =>
           /\ readerHead'[j] = readerHead[j] /\ slicesDone'[j] = slicesDone[j]
           /\ sliceCount'[j] = sliceCount[j] /\ buf'[j] = buf[j]
           /\ rpc'[j] = rpc[j] /\ last'[j] = last[j]
    BY <1>4, <1>5, <2>1 DEF ClearAssembly
  <2>5. /\ last' = [last EXCEPT ![i] = Span(Start(i))]
        /\ sliceCount'[i] = 0 /\ slicesDone'[i] = 0 /\ buf'[i] = {}
    BY <1>4, <2>1, <2>3 DEF ClearAssembly
  <2>6. readerHead'[i] = Start(i) + msgLen[Start(i)]
    BY <1>3, <1>4, <1>5, <2>2
  <2>7. msgLen[Start(i)] > 0
    BY <1>3, <1>6
  <2> QED BY <1>3, <1>5, <2>4, <2>5, <2>6, <2>7
<1>7. CASE ~(slicesDone[i] + 1 >= count)
  <2>1. /\ buf' = [buf EXCEPT ![i] = content]
        /\ sliceCount' = [sliceCount EXCEPT ![i] = count]
        /\ slicesDone' = [slicesDone EXCEPT ![i] = slicesDone[i] + 1]
        /\ rpc' = [rpc EXCEPT ![i] = "loop"] /\ UNCHANGED last
    BY <1>2, <1>7 DEF CopySlice, content
  <2> QED BY <1>3, <1>4, <1>5, <1>7, <2>1
<1> QED BY <1>6, <1>7

\* What a step does to one reader's assembly: a copy, an empty buffer, or nothing
\* but perhaps its next test of recv_impl.
Emptied(i) ==
    /\ sliceCount'[i] = 0 /\ slicesDone'[i] = 0 /\ buf'[i] = {}
    /\ last'[i] = last[i]

Unmoved(i) ==
    /\ sliceCount'[i] = sliceCount[i] /\ slicesDone'[i] = slicesDone[i] /\ buf'[i] = buf[i]
    /\ last'[i] = last[i]
    /\ rpc[i] \in {"loop", "copy"} =>
          rpc'[i] \in {"loop", "copy"} /\ readerHead'[i] = readerHead[i]

LEMMA AssemblyCases ==
    ASSUME ChannelInv, [Next]_vars, NEW i \in ReaderSlots
    PROVE  CopyFirst(i) \/ CopyNext(i) \/ Emptied(i) \/ Unmoved(i)
<1>1. WindowInv
  BY DEF ChannelInv, SlotInv
<1>2. /\ readerHead \in [ReaderSlots -> Nat]
      /\ rpc \in [ReaderSlots -> {"off", "idle", "wait", "loop", "copy"}]
      /\ sliceCount \in [ReaderSlots -> Nat] /\ slicesDone \in [ReaderSlots -> Nat]
      /\ buf \in [ReaderSlots -> SUBSET Pos] /\ last \in [ReaderSlots -> SUBSET Pos]
  BY <1>1, SlotTypes, ChannelTypes
<1>3. CASE UNCHANGED <<readerHead, rpc, sliceCount, slicesDone, buf, last>>
  BY <1>3 DEF Unmoved
<1>4. ASSUME NEW s \in Senders, SendStep(s)
      PROVE  UNCHANGED <<readerHead, rpc, sliceCount, slicesDone, buf, last>>
  BY <1>4, SendFrame
     DEF SendStep, SendEnter, SenderStep, LoadMask, LoadTail, LoadHead, SendFull, Claim,
         ClaimFails, FillSlot, CommitSlot, Post, CrashSender, rcvVars, histVars
<1>5. CASE ReaderStep(i)
  <2>1. CASE RecvEnter(i) \/ SemWait(i) \/ SemWaitDisabled(i) \/ FindCommitted(i)
    BY <1>2, <2>1 DEF RecvEnter, SemWait, SemWaitDisabled, FindCommitted, Unmoved, ringVars,
                      histVars
  <2>2. CASE RecvEmpty(i) \/ RecvTimeout(i) \/ SkipForeign(i)
    BY <1>2, <2>2 DEF RecvEmpty, RecvTimeout, SkipForeign, SkipSlice, ClearAssembly, Emptied,
                      histVars
  <2> QED BY <1>5, <2>1, <2>2 DEF ReaderStep
<1>6. ASSUME NEW j \in ReaderSlots, ReaderStep(j), j # i PROVE Unmoved(i)
  <2>1. readerHead'[i] = readerHead[i] /\ rpc'[i] = rpc[i]
    BY <1>1, <1>6, ReaderAdvances DEF WindowInv
  <2>2. /\ sliceCount'[i] = sliceCount[i] /\ slicesDone'[i] = slicesDone[i]
        /\ buf'[i] = buf[i] /\ last'[i] = last[i]
    BY <1>2, <1>6
       DEF ReaderStep, RecvEnter, SemWait, SemWaitDisabled, RecvEmpty, FindCommitted,
           RecvTimeout, CopyFirst, CopyNext, SkipForeign, CopySlice, SkipSlice,
           ClearAssembly, histVars
  <2> QED BY <2>1, <2>2 DEF Unmoved
<1>7. ASSUME NEW j \in ReaderSlots, ControlStep(j) PROVE Emptied(i) \/ Unmoved(i)
  <2>1. UNCHANGED <<readerHead, last>>
    BY <1>7, ControlFrame
       DEF ControlStep, Attach, CrashReader, DropReader, histVars
  <2>2. CASE j = i /\ CrashReader(i)
    BY <1>2, <2>1, <2>2 DEF CrashReader, ClearAssembly, Emptied
  <2>3. CASE j # i /\ CrashReader(j)
    BY <1>2, <2>1, <2>3 DEF CrashReader, ClearAssembly, Unmoved
  <2>4. CASE Attach(j) \/ DropReader(j)
    BY <1>2, <2>1, <2>4 DEF Attach, DropReader, Unmoved, rcvVars
  <2> QED BY <1>7, <2>2, <2>3, <2>4 DEF ControlStep
<1>8. FlagStep => UNCHANGED <<readerHead, rpc, sliceCount, slicesDone, buf, last>>
  BY FlagFrame DEF rcvVars
<1>9. CASE Alloc
  <2>1. UNCHANGED <<rpc, sliceCount, slicesDone, buf, last>>
    BY <1>9, AllocFrame
       DEF Alloc, AllocLoad, AllocTail, AllocStore, AllocCas, AllocCasFails, rcvVars, histVars
  <2>2. rpc[i] = "off" \/ UNCHANGED readerHead
    BY <1>1, <1>9 DEF WindowInv, AllocAlone, Alloc, AllocLoad, AllocTail, AllocStore, AllocCas,
                      AllocCasFails, ringVars
  <2> QED BY <2>1, <2>2 DEF Unmoved
<1>10. UNCHANGED vars => UNCHANGED <<readerHead, rpc, sliceCount, slicesDone, buf, last>>
  BY DEF vars, ringVars, rcvVars, histVars
<1> QED BY <1>3, <1>4, <1>5, <1>6, <1>7, <1>8, <1>9, <1>10, StepCases

LEMMA AssemblyStep ==
    ASSUME WholeMasks, ChannelInv, [Next]_vars
    PROVE  AssemblyIsPrefix' /\ DeliveredBefore'
<1>1. WindowInv
  BY DEF ChannelInv, SlotInv
<1> SUFFICES ASSUME NEW i \in ReaderSlots
             PROVE  /\ IF sliceCount'[i] = 0
                       THEN slicesDone'[i] = 0 /\ buf'[i] = {}
                       ELSE /\ rpc'[i] \in {"loop", "copy"}
                            /\ slicesDone'[i] > 0
                            /\ Start(i)' \in Accepted'
                            /\ sliceCount'[i] = msgLen'[Start(i)']
                            /\ slicesDone'[i] < sliceCount'[i]
                            /\ buf'[i] = Start(i)' .. readerHead'[i] - 1
                    /\ \/ last'[i] = {}
                       \/ \E b \in Accepted' :
                             last'[i] = Span(b)' /\ b + msgLen'[b] <= Start(i)'
  BY DEF AssemblyIsPrefix, DeliveredBefore
<1>2. /\ readerHead[i] \in Nat /\ readerHead'[i] \in Nat /\ readerHead[i] <= readerHead'[i]
      /\ slicesDone[i] \in Nat /\ last \in [ReaderSlots -> SUBSET Pos]
  BY <1>1, HeadsGrow, ChannelTypes
<1>3. ASSUME Start(i)' \in Int, Start(i) <= Start(i)', last'[i] = last[i]
      PROVE  \/ last'[i] = {}
             \/ \E b \in Accepted' : last'[i] = Span(b)' /\ b + msgLen'[b] <= Start(i)'
  <2>1. CASE last[i] = {}
    BY <1>3, <2>1
  <2>2. CASE \E b \in Accepted : last[i] = Span(b) /\ b + msgLen[b] <= Start(i)
    <3>1. PICK b \in Accepted : last[i] = Span(b) /\ b + msgLen[b] <= Start(i)
      BY <2>2
    <3>2. Start(i) \in Int
      BY <1>2 DEF Start
    <3>3. /\ b \in Accepted' /\ b \in Nat /\ msgLen[b] \in Nat /\ msgLen'[b] = msgLen[b]
          /\ Span(b)' = Span(b)
      BY ClaimsStay
    <3>4. b + msgLen'[b] <= Start(i)'
      BY <1>2, <1>3, <3>1, <3>2, <3>3
    <3> QED BY <1>3, <3>1, <3>3, <3>4
  <2> QED BY <2>1, <2>2 DEF ChannelInv, DeliveredBefore
<1>4. CASE CopyFirst(i) \/ CopyNext(i)
  <2>1. PICK m \in Accepted : m = Start(i)
    BY <1>4, CopyOutcome
  <2>2. /\ m \in Accepted /\ m \in Nat /\ msgLen[m] \in Nat /\ msgLen[m] > 0
    BY <1>4, <2>1, CopyOutcome
  <2>3. m \in Accepted' /\ msgLen'[m] = msgLen[m] /\ Span(m)' = Span(m)
    BY <2>2, ClaimsStay
  <2>4. CASE /\ last' = [last EXCEPT ![i] = Span(m)]
             /\ sliceCount'[i] = 0 /\ slicesDone'[i] = 0 /\ buf'[i] = {}
             /\ readerHead'[i] = m + msgLen[m]
    <3>1. Start(i)' = m + msgLen[m]
      BY <2>2, <2>4 DEF Start
    <3>2. last'[i] = Span(m)
      BY <1>2, <2>4
    <3> QED BY <2>2, <2>3, <2>4, <3>1, <3>2
  <2>5. CASE /\ UNCHANGED last
             /\ rpc'[i] = "loop"
             /\ sliceCount'[i] = msgLen[m]
             /\ slicesDone'[i] = slicesDone[i] + 1
             /\ slicesDone'[i] < sliceCount'[i]
             /\ readerHead'[i] = readerHead[i] + 1
             /\ buf'[i] = m .. readerHead'[i] - 1
    <3>1. Start(i)' = m
      BY <1>2, <2>1, <2>5 DEF Start
    <3>2. Start(i)' \in Int /\ Start(i) <= Start(i)'
      BY <2>1, <2>2, <3>1
    <3>3. \/ last'[i] = {}
          \/ \E b \in Accepted' : last'[i] = Span(b)' /\ b + msgLen'[b] <= Start(i)'
      BY <1>3, <2>5, <3>2
    <3>4. /\ sliceCount'[i] # 0 /\ rpc'[i] \in {"loop", "copy"} /\ slicesDone'[i] > 0
          /\ Start(i)' \in Accepted' /\ sliceCount'[i] = msgLen'[Start(i)']
          /\ buf'[i] = Start(i)' .. readerHead'[i] - 1
      BY <1>2, <2>2, <2>3, <2>5, <3>1
    <3> QED BY <2>5, <3>3, <3>4
  <2> QED BY <1>4, <2>1, <2>4, <2>5, CopyOutcome
<1>5. CASE Emptied(i)
  <2>1. Start(i)' \in Int /\ Start(i) <= Start(i)'
    BY <1>2, <1>5 DEF Emptied, Start
  <2> QED BY <1>3, <1>5, <2>1 DEF Emptied
<1>6. CASE Unmoved(i)
  <2>1. Start(i)' \in Int /\ Start(i) <= Start(i)'
    BY <1>2, <1>6 DEF Unmoved, Start
  <2>2. CASE sliceCount[i] = 0
    BY <1>3, <1>6, <2>1, <2>2 DEF Unmoved, ChannelInv, AssemblyIsPrefix
  <2>3. CASE sliceCount[i] # 0
    <3>1. /\ rpc[i] \in {"loop", "copy"} /\ slicesDone[i] > 0 /\ Start(i) \in Accepted
          /\ sliceCount[i] = msgLen[Start(i)] /\ slicesDone[i] < sliceCount[i]
          /\ buf[i] = Start(i) .. readerHead[i] - 1
      BY <2>3 DEF ChannelInv, AssemblyIsPrefix
    <3>2. Start(i)' = Start(i) /\ rpc'[i] \in {"loop", "copy"} /\ readerHead'[i] = readerHead[i]
      BY <1>6, <3>1 DEF Unmoved, Start
    <3>3. Start(i) \in Accepted' /\ msgLen'[Start(i)] = msgLen[Start(i)]
      BY <3>1, ClaimsStay
    <3> QED BY <1>3, <1>6, <2>1, <2>3, <3>1, <3>2, <3>3 DEF Unmoved
  <2> QED BY <2>2, <2>3
<1> QED BY <1>4, <1>5, <1>6, AssemblyCases

-----------------------------------------------------------------------------
(* A ring where nothing has died, joined late or been disabled so far. *)

\* There every slot a reader waits for has a live sender, which outlives the wait,
\* and every slot it finds continues its message: it only copies.
LEMMA LosslessReader ==
    ASSUME Timely, Lossless, ChannelInv, NEW i \in ReaderSlots
    PROVE  ~RecvTimeout(i) /\ ~SkipForeign(i)
<1>1. WindowInv /\ SlotInv
  BY DEF ChannelInv, SlotInv
<1> DEFINE h == head[i]
<1>2. /\ h \in Nat /\ h \in Pos /\ tail \in Nat /\ slicesDone[i] \in Nat
      /\ rpc[i] # "off" => readerHead[i] = h
      /\ h <= tail /\ (rpc[i] = "copy" => h < tail)
  BY <1>1, SlotTypes, ChannelTypes DEF WindowInv, TypeInv, BehindTail
<1>3. ASSUME RecvTimeout(i) PROVE FALSE
  <2>1. /\ rpc[i] # "off" /\ h < tail /\ ~Committed(h)
    BY <1>2, <1>3 DEF RecvTimeout
  <2>2. PICK s \in Senders : Writing(s) /\ h \in Left(s)
    BY <1>2, <2>1 DEF ChannelInv, NothingSkipped
  <2>3. PICK q \in h + 1 .. ScanEnd(h) : \A p \in LiveBelow(q) : p < h
    BY <1>3 DEF RecvTimeout
  <2>4. q \in Nat /\ h < q
    BY <1>2, <2>3, MaxSliceAssumption DEF ScanEnd
  <2>5. seq[s] <= h /\ h < oldTail[s] + need[s]
    BY <1>1, <1>2, <2>2, SlotTypes DEF Left
  <2>6. h \in LiveBelow(q)
    BY <1>2, <2>2, <2>4, <2>5 DEF LiveBelow, Writing
  <2> QED BY <1>2, <2>3, <2>6
<1>4. ASSUME SkipForeign(i) PROVE FALSE
  <2>1. rpc[i] = "copy" /\ Committed(h) /\ readerHead[i] = h /\ h < tail
    BY <1>1, <1>2, <1>4 DEF SkipForeign, SlotInv, CopiesPublished
  <2>2. PICK b \in Accepted : h \in Span(b) /\ HoldsSlice(h, b)
    BY <1>2, <2>1 DEF ChannelInv, PublishedIsWhole
  <2>3. /\ b \in Nat /\ msgLen[b] \in Nat /\ msgLen[b] > 0 /\ b <= h /\ h < b + msgLen[b]
        /\ mSliceId[Idx(h)] = h - b /\ (h = b => mSliceCount[Idx(h)] = msgLen[b])
    BY <1>1, <2>2, ChannelTypes DEF Span, HoldsSlice, Accepted
  <2>4. CASE sliceCount[i] = 0
    <3>1. Start(i) = h
      BY <1>2, <2>1, <2>4 DEF Start, ChannelInv, AssemblyIsPrefix
    <3>2. b = h
      BY <1>2, <2>3, <3>1 DEF ChannelInv, NothingSkipped
    <3> QED BY <1>2, <1>4, <2>3, <2>4, <3>2 DEF SkipForeign, Continues, StartsMessage
  <2>5. CASE sliceCount[i] # 0
    <3>1. /\ Start(i) \in Accepted /\ slicesDone[i] > 0 /\ slicesDone[i] < msgLen[Start(i)]
      BY <2>5 DEF ChannelInv, AssemblyIsPrefix
    <3>2. Start(i) \in Nat /\ msgLen[Start(i)] \in Nat /\ h = Start(i) + slicesDone[i]
      BY <1>1, <1>2, <2>1, <3>1, ChannelTypes DEF Start, Accepted
    <3>3. h \in Span(Start(i))
      BY <1>2, <3>1, <3>2 DEF Span
    <3>4. b = Start(i)
      BY <1>2, <2>2, <3>1, <3>3, OneClaimEach
    <3>5. mSliceId[Idx(h)] = slicesDone[i]
      BY <1>2, <2>3, <3>2, <3>4
    <3> QED BY <1>4, <2>5, <3>5 DEF SkipForeign, Continues
  <2> QED BY <2>4, <2>5
<1> QED BY <1>3, <1>4

\* A reader at the tail has no unfinished message: the rest would be below the tail.
LEMMA NothingBegunAtTail ==
    ASSUME ChannelInv, NEW i \in ReaderSlots, RecvEmpty(i)
    PROVE  slicesDone[i] = 0
<1>1. WindowInv
  BY DEF ChannelInv, SlotInv
<1>2. /\ readerHead[i] = tail /\ tail \in Nat /\ slicesDone[i] \in Nat
  BY <1>1, SlotTypes, ChannelTypes DEF RecvEmpty
<1>3. ASSUME sliceCount[i] # 0 PROVE FALSE
  <2>1. /\ Start(i) \in Accepted /\ slicesDone[i] < msgLen[Start(i)]
    BY <1>3 DEF ChannelInv, AssemblyIsPrefix
  <2>2. Start(i) + msgLen[Start(i)] <= tail /\ Start(i) \in Nat /\ msgLen[Start(i)] \in Nat
    BY <1>1, <2>1, ChannelTypes DEF ChannelInv, ClaimsInOrder, Accepted
  <2>3. Start(i) + slicesDone[i] = tail
    BY <1>2 DEF Start
  <2> QED BY <1>2, <2>1, <2>2, <2>3
<1> QED BY <1>3 DEF ChannelInv, AssemblyIsPrefix

\* Every event is counted.
LEMMA SpendsOrKeeps ==
    ASSUME [Next]_vars
    PROVE  UNCHANGED spent \/ \E k \in EventKinds : Spend(k)
<1>1. ASSUME NEW s \in Senders, SendStep(s)
      PROVE  UNCHANGED spent \/ \E k \in EventKinds : Spend(k)
  BY <1>1
     DEF SendStep, SendEnter, SenderStep, LoadMask, LoadTail, LoadHead, SendFull, Claim,
         ClaimFails, FillSlot, CommitSlot, Post, CrashSender, histVars, EventKinds
<1>2. ASSUME NEW i \in ReaderSlots, ReaderStep(i) PROVE UNCHANGED spent
  BY <1>2
     DEF ReaderStep, RecvEnter, SemWait, SemWaitDisabled, RecvEmpty, FindCommitted,
         RecvTimeout, CopyFirst, CopyNext, SkipForeign, CopySlice, SkipSlice, histVars
<1>3. ASSUME NEW i \in ReaderSlots, ControlStep(i)
      PROVE  UNCHANGED spent \/ \E k \in EventKinds : Spend(k)
  BY <1>3 DEF ControlStep, Attach, CrashReader, DropReader, histVars, EventKinds
<1>4. CASE FlagStep
  BY <1>4 DEF FlagStep, SetFlag, WakeupRecv, WakeupClear, WakeupMask, WakeupPost, histVars,
              EventKinds
<1>5. CASE Alloc
  BY <1>5 DEF Alloc, AllocLoad, AllocTail, AllocStore, AllocCas, AllocCasFails, histVars,
              EventKinds
<1>6. CASE UNCHANGED vars
  BY <1>6 DEF vars, histVars
<1> QED BY <1>1, <1>2, <1>3, <1>4, <1>5, <1>6, StepCases

\* A step to a state in which nothing has happened is no event ...
LEMMA NothingHappens ==
    ASSUME Lossless', WindowInv, NEW k \in EventKinds
    PROVE  ~Spend(k)
BY DEF Lossless, Spend, WindowInv, TypeInv, TypeOK, HistoryType

\* ... and nothing had happened before it.
LEMMA LosslessBefore ==
    ASSUME Lossless', WindowInv, [Next]_vars
    PROVE  Lossless
BY NothingHappens, SpendsOrKeeps DEF Lossless

LEMMA LosslessControl ==
    ASSUME Lossless, Lossless', ChannelInv, [Next]_vars
    PROVE  /\ apc' = "idle" /\ \A i \in ReaderSlots : drops'[i] = 0
           /\ \A s \in Senders : ~CrashSender(s)
           /\ \A i \in ReaderSlots : ~CrashReader(i)
           /\ ~Alloc
<1>1. /\ WindowInv
      /\ apc = "idle" /\ \A i \in ReaderSlots : drops[i] = 0
  BY DEF ChannelInv, SlotInv, NothingSkipped
<1>2. \A k \in EventKinds : ~Spend(k)
  BY <1>1, NothingHappens
<1>3. /\ ~Spend("alloc") /\ ~Spend("senderCrash") /\ ~Spend("readerCrash")
  BY <1>2 DEF EventKinds
<1>4. ~Alloc
  BY <1>1, <1>3 DEF Alloc, AllocLoad, AllocTail, AllocStore, AllocCas, AllocCasFails
<1>5. UNCHANGED <<apc, drops>>
  BY <1>1, <1>3, <1>4
     DEF Next, vars, allocVars, ctlVars, SendEnter, SenderStep, LoadMask, LoadTail,
         LoadHead, SendFull, Claim, ClaimFails, FillSlot, CommitSlot, Post, CrashSender,
         ReaderStep, RecvEnter, SemWait, SemWaitDisabled, RecvEmpty, FindCommitted,
         RecvTimeout, CopyFirst, CopyNext, SkipForeign, CopySlice, SkipSlice,
         Attach, CrashReader, DropReader, SetFlag, WakeupRecv, WakeupClear, WakeupMask,
         WakeupPost
<1> QED BY <1>1, <1>3, <1>4, <1>5 DEF CrashSender, CrashReader

\* A reader's next message stays where it begins until it is delivered.
LEMMA LosslessStart ==
    ASSUME Timely, Lossless, Lossless', ChannelInv, [Next]_vars, NEW i \in ReaderSlots
    PROVE  \/ CopyFirst(i) \/ CopyNext(i)
           \/ Start(i)' = Start(i) /\ last'[i] = last[i]
<1>1. WindowInv
  BY DEF ChannelInv, SlotInv
<1>2. /\ readerHead \in [ReaderSlots -> Nat] /\ slicesDone \in [ReaderSlots -> Nat]
      /\ last \in [ReaderSlots -> SUBSET Pos]
  BY <1>1, SlotTypes, ChannelTypes
<1>3. CASE UNCHANGED <<readerHead, slicesDone, last>>
  BY <1>3 DEF Start
<1>4. ASSUME NEW s \in Senders, SendStep(s)
      PROVE  UNCHANGED <<readerHead, slicesDone, last>>
  BY <1>4, SendFrame
     DEF SendStep, SendEnter, SenderStep, LoadMask, LoadTail, LoadHead, SendFull, Claim,
         ClaimFails, FillSlot, CommitSlot, Post, CrashSender, rcvVars, histVars
<1>5. CASE ReaderStep(i)
  <2>1. CASE RecvEnter(i) \/ SemWait(i) \/ SemWaitDisabled(i) \/ FindCommitted(i)
    BY <1>3, <2>1 DEF RecvEnter, SemWait, SemWaitDisabled, FindCommitted, ringVars, histVars
  <2>2. CASE RecvEmpty(i)
    <3>1. /\ slicesDone[i] = 0 /\ slicesDone'[i] = 0 /\ last'[i] = last[i]
          /\ readerHead'[i] = readerHead[i]
      BY <1>1, <1>2, <2>2, NothingBegunAtTail, SlotTypes
         DEF RecvEmpty, ClearAssembly, AdvanceTo, histVars
    <3> QED BY <3>1 DEF Start
  <2> QED BY <1>5, <2>1, <2>2, LosslessReader DEF ReaderStep
<1>6. ASSUME NEW j \in ReaderSlots, ReaderStep(j), j # i
      PROVE  Start(i)' = Start(i) /\ last'[i] = last[i]
  <2>1. readerHead'[i] = readerHead[i]
    BY <1>1, <1>6, ReaderAdvances DEF WindowInv
  <2>2. slicesDone'[i] = slicesDone[i] /\ last'[i] = last[i]
    BY <1>2, <1>6
       DEF ReaderStep, RecvEnter, SemWait, SemWaitDisabled, RecvEmpty, FindCommitted,
           RecvTimeout, CopyFirst, CopyNext, SkipForeign, CopySlice, SkipSlice,
           ClearAssembly, histVars
  <2> QED BY <2>1, <2>2 DEF Start
<1>7. ASSUME NEW j \in ReaderSlots, ControlStep(j)
      PROVE  UNCHANGED <<readerHead, slicesDone, last>>
  BY <1>7, ControlFrame, LosslessControl
     DEF ControlStep, Attach, DropReader, rcvVars, histVars
<1>8. FlagStep => UNCHANGED <<readerHead, slicesDone, last>>
  BY FlagFrame DEF rcvVars
<1>9. UNCHANGED vars => UNCHANGED <<readerHead, slicesDone, last>>
  BY DEF vars, ringVars, rcvVars, histVars
<1> QED BY <1>3, <1>4, <1>5, <1>6, <1>7, <1>8, <1>9, StepCases, LosslessControl

\* Everything below the next message has been delivered.
LEMMA AllDelivered ==
    ASSUME Timely, Lossless, Lossless', ChannelInv, [Next]_vars,
           NEW i \in ReaderSlots, NEW b \in Accepted', b < Start(i)'
    PROVE  /\ b + msgLen'[b] <= Start(i)'
           /\ \E d \in Accepted' : last'[i] = Span(d)' /\ b <= d
<1>1. WindowInv
  BY DEF ChannelInv, SlotInv
<1>2. /\ readerHead[i] \in Nat /\ slicesDone[i] \in Nat /\ readerHead[i] <= tail /\ tail \in Nat
      /\ last \in [ReaderSlots -> SUBSET Pos]
  BY <1>1, SlotTypes, ChannelTypes
<1>3. ASSUME Start(i)' = Start(i), last'[i] = last[i]
      PROVE  /\ b + msgLen'[b] <= Start(i)'
             /\ \E d \in Accepted' : last'[i] = Span(d)' /\ b <= d
  <2>1. b \in Accepted
    <3>1. b < tail /\ (\A s \in Senders : Claim(s) => Accepted' = Accepted \cup {tail})
      BY <1>2, <1>3, ClaimAtTail DEF Start, Accepted, Pos
    <3>2. (\A s \in Senders : ~Claim(s)) => Accepted' = Accepted
      BY <1>1, ClaimsKept DEF Accepted
    <3> QED BY <1>2, <3>1, <3>2
  <2>2. PICK d \in Accepted : last[i] = Span(d) /\ b <= d
    BY <1>3, <2>1 DEF ChannelInv, NothingSkipped
  <2>3. d \in Accepted' /\ Span(d)' = Span(d) /\ msgLen'[b] = msgLen[b]
    BY <2>1, ClaimsStay
  <2> QED BY <1>3, <2>1, <2>2, <2>3 DEF ChannelInv, NothingSkipped
<1>4. CASE CopyFirst(i) \/ CopyNext(i)
  <2>1. PICK m \in Accepted : m = Start(i)
    BY <1>4, CopyOutcome
  <2>2. /\ m \in Nat /\ msgLen[m] \in Nat /\ msgLen[m] > 0
        /\ UNCHANGED <<msgLen, tail>> /\ Accepted' = Accepted
    BY <1>4, <2>1, CopyOutcome DEF Accepted
  <2>3. b \in Accepted /\ b \in Nat /\ msgLen'[b] = msgLen[b] /\ Span(m)' = Span(m)
    BY <1>1, <2>2, ClaimsStay
  <2>4. CASE /\ last' = [last EXCEPT ![i] = Span(m)]
             /\ slicesDone'[i] = 0 /\ readerHead'[i] = m + msgLen[m]
    <3>1. Start(i)' = m + msgLen[m] /\ last'[i] = Span(m)
      BY <1>2, <2>2, <2>4 DEF Start
    <3>2. /\ m < b => m + msgLen[m] <= b
          /\ b < m => b + msgLen[b] <= m
      BY <2>3 DEF ChannelInv, ClaimsInOrder
    <3>3. b <= m /\ msgLen[b] \in Nat
      BY <2>2, <2>3, <3>1, <3>2, ClaimsStay
    <3>4. b + msgLen[b] <= m + msgLen[m]
      BY <2>2, <2>3, <3>2, <3>3
    <3> QED BY <2>2, <2>3, <3>1, <3>3, <3>4
  <2>5. CASE /\ UNCHANGED last /\ slicesDone'[i] = slicesDone[i] + 1
             /\ readerHead'[i] = readerHead[i] + 1
    BY <1>2, <1>3, <2>5 DEF Start
  <2> QED BY <1>4, <2>1, <2>4, <2>5, CopyOutcome
<1> QED BY <1>3, <1>4, LosslessStart

\* A slot that is claimed and not published has a live sender.
LEMMA SendersAlive ==
    ASSUME WholeMasks, Lossless, Lossless', ChannelInv, [Next]_vars,
           NEW i \in ReaderSlots, NEW p \in Pos, readerHead'[i] <= p, p < tail'
    PROVE  Committed(p)' \/ \E s \in Senders : Writing(s)' /\ p \in Left(s)'
<1>1. WindowInv /\ SlotInv
  BY DEF ChannelInv, SlotInv
<1>2. /\ p \in Nat /\ tail \in Nat /\ readerHead[i] <= p
  BY <1>1, HeadsGrow, SlotTypes, ChannelTypes
<1>3. p < tail => Committed(p) \/ \E s \in Senders : Writing(s) /\ p \in Left(s)
  BY <1>2 DEF ChannelInv, NothingSkipped
<1>4. ASSUME NEW s \in Senders, Claim(s)
      PROVE  Committed(p)' \/ \E t \in Senders : Writing(t)' /\ p \in Left(t)'
  <2>1. /\ UNCHANGED mSeq /\ Writing(s)' /\ Left(s)' = tail .. tail' - 1
        /\ ~Writing(s)
    BY <1>1, <1>4, ClaimAtTail, SlotTypes DEF Writing, Left, slotVars, Claim
  <2>2. \A t \in Senders : t # s => /\ Writing(t)' <=> Writing(t)
                                    /\ Left(t)' = Left(t)
    BY <1>1, <1>4, ClaimAtTail, SlotTypes DEF Writing, Left
  <2>3. CASE p < tail
    BY <1>3, <2>1, <2>2, <2>3 DEF Committed
  <2>4. CASE ~(p < tail)
    BY <1>2, <1>4, <2>1, <2>4, ClaimAtTail
  <2> QED BY <2>3, <2>4
<1>5. ASSUME NEW s \in Senders, CommitSlot(s)
      PROVE  Committed(p)' \/ \E t \in Senders : Writing(t)' /\ p \in Left(t)'
  <2> DEFINE c == seq[s]
  <2>1. /\ Writing(s) /\ c \in Nat
        /\ mSeq' = [mSeq EXCEPT ![Idx(c)] = c + 1]
        /\ seq' = [seq EXCEPT ![s] = c + 1]
        /\ c + 1 # oldTail[s] + need[s] => Writing(s)'
        /\ \A t \in Senders : t # s => spc'[t] = spc[t]
        /\ UNCHANGED <<tail, oldTail, need>>
        /\ oldTail[s] \in Nat /\ need[s] \in Nat /\ c < oldTail[s] + need[s]
    BY <1>1, <1>5, SlotTypes DEF CommitSlot, Writing, ringVars
  <2>2. Idx(c) \in Slot /\ (p # c => Idx(p) # Idx(c))
    BY <1>1, <1>2, <2>1, WriterHasItsSlot
  <2>3. CASE p = c
    BY <1>1, <2>1, <2>2, <2>3, SlotTypes DEF Committed, Idx
  <2>4. CASE p # c /\ Committed(p)
    BY <1>1, <2>1, <2>2, <2>4, SlotTypes DEF Committed, Idx
  <2>5. ASSUME p # c, NEW t \in Senders, Writing(t), p \in Left(t)
        PROVE  Writing(t)' /\ p \in Left(t)'
    <3>1. CASE t = s
      <4>1. c <= p /\ p < oldTail[s] + need[s]
        BY <1>2, <2>1, <2>5, <3>1 DEF Left
      <4>2. c + 1 <= p /\ c + 1 # oldTail[s] + need[s]
        BY <1>2, <2>1, <2>5, <4>1
      <4>3. seq'[s] = c + 1
        BY <1>1, <2>1, SlotTypes
      <4> QED BY <1>2, <2>1, <3>1, <4>1, <4>2, <4>3 DEF Left
    <3>2. CASE t # s
      BY <1>1, <2>1, <2>5, <3>2, SlotTypes DEF Left, Writing
    <3> QED BY <3>1, <3>2
  <2> QED BY <1>2, <1>3, <2>1, <2>3, <2>4, <2>5
<1>6. ASSUME \A s \in Senders : ~Claim(s) /\ ~CommitSlot(s)
      PROVE  Committed(p)' \/ \E t \in Senders : Writing(t)' /\ p \in Left(t)'
  <2>1. /\ UNCHANGED <<tail, mSeq>>
        /\ \A t \in Senders : Writing(t) => Writing(t)' /\ Left(t)' = Left(t)
    <3>1. ASSUME NEW s \in Senders, SendStep(s)
          PROVE  /\ UNCHANGED <<tail, mSeq>>
                 /\ \A t \in Senders : Writing(t) => Writing(t)' /\ Left(t)' = Left(t)
      BY <1>1, <1>6, <3>1, SlotTypes, LosslessControl
         DEF SendStep, SendEnter, SenderStep, LoadMask, LoadTail, LoadHead, SendFull,
             ClaimFails, FillSlot, Post, SendReturns, Writing, Left, ringVars, slotVars
    <3>2. CASE UNCHANGED <<tail, mSeq, sndVars>>
      BY <3>2 DEF sndVars, Writing, Left
    <3>3. (\A s \in Senders : ~SendStep(s)) => UNCHANGED <<tail, mSeq, sndVars>>
      <4>1. ASSUME NEW j \in ReaderSlots, ReaderStep(j) PROVE UNCHANGED <<tail, mSeq, sndVars>>
        BY <4>1, ReaderFrame
           DEF ReaderStep, RecvEnter, SemWait, SemWaitDisabled, RecvEmpty, FindCommitted,
               RecvTimeout, CopyFirst, CopyNext, SkipForeign, CopySlice, SkipSlice, slotVars
      <4>2. ASSUME NEW j \in ReaderSlots, ControlStep(j)
            PROVE  UNCHANGED <<tail, mSeq, sndVars>>
        BY <4>2, ControlFrame
           DEF ControlStep, Attach, CrashReader, DropReader, slotVars
      <4>3. FlagStep => UNCHANGED <<tail, mSeq, sndVars>>
        BY FlagFrame DEF slotVars
      <4>4. UNCHANGED vars => UNCHANGED <<tail, mSeq, sndVars>>
        BY DEF vars, ringVars, slotVars
      <4> QED BY <4>1, <4>2, <4>3, <4>4, StepCases, LosslessControl
    <3> QED BY <3>1, <3>2, <3>3
  <2> QED BY <1>2, <1>3, <2>1 DEF Committed
<1> QED BY <1>4, <1>5, <1>6

LEMMA ChannelInvStep ==
    ASSUME WholeMasks, Timely, ChannelInv, [Next]_vars
    PROVE  ChannelInv'
<1>1. SlotInv'
  BY SlotInvStep DEF ChannelInv
<1>2. ClaimsInOrder' /\ PublishedIsWhole' /\ AssemblyIsPrefix' /\ DeliveredBefore'
  BY ClaimsInOrderStep, PublishedIsWholeStep, AssemblyStep
<1>3. NothingSkipped'
  <2> SUFFICES ASSUME Lossless'
               PROVE  NothingSkipped'
    BY DEF NothingSkipped
  <2> Lossless
    BY LosslessBefore DEF ChannelInv, SlotInv
  <2>1. apc' = "idle" /\ \A i \in ReaderSlots : drops'[i] = 0
    BY LosslessControl
  <2>2. ASSUME NEW i \in ReaderSlots, NEW b \in Accepted', b < Start(i)'
        PROVE  /\ b + msgLen'[b] <= Start(i)'
               /\ \E d \in Accepted' : last'[i] = Span(d)' /\ b <= d
    BY <2>2, AllDelivered
  <2>3. ASSUME NEW i \in ReaderSlots, NEW p \in Pos, readerHead'[i] <= p, p < tail'
        PROVE  Committed(p)' \/ \E s \in Senders : Writing(s)' /\ p \in Left(s)'
    BY <2>3, SendersAlive
  <2> QED BY <2>1, <2>2, <2>3 DEF NothingSkipped
<1> QED BY <1>1, <1>2, <1>3 DEF ChannelInv

LEMMA ChannelIsSafe ==
    ASSUME WholeMasks, Timely
    PROVE  Spec => []ChannelInv
<1>1. ChannelInv /\ [Next]_vars => ChannelInv'
  BY ChannelInvStep
<1> QED BY <1>1, ChannelInvInit, PTL DEF Spec

-----------------------------------------------------------------------------
(* Every step is a step of OrderedChannel or changes nothing of it. *)

\* The message handed over last is the only one with its slices.
LEMMA ReceivedIs ==
    ChannelInv => \A i \in ReaderSlots, b \in Accepted :
                     last[i] = Span(b) => Received(i) = b + 1
<1> SUFFICES ASSUME ChannelInv, NEW i \in ReaderSlots, NEW b \in Accepted, last[i] = Span(b)
             PROVE  Received(i) = b + 1
  OBVIOUS
<1>1. \A a \in Accepted : a \in Nat /\ msgLen[a] \in Nat /\ msgLen[a] > 0
  BY ChannelTypes DEF ChannelInv, SlotInv, Accepted
<1>2. ASSUME NEW a \in Accepted, last[i] = Span(a) PROVE a = b
  <2>1. a \in Span(a) /\ b \in Span(b)
    BY <1>1 DEF Span
  <2>2. a \in Span(b) /\ b \in Span(a)
    BY <1>2, <2>1
  <2> QED BY <1>1, <2>2 DEF Span
<1>3. b \in Span(b)
  BY <1>1 DEF Span
<1>4. (CHOOSE a \in Accepted : last[i] = Span(a)) = b
  BY <1>2
<1>5. last[i] # {}
  BY <1>3
<1>6. \E a \in Accepted : last[i] = Span(a)
  OBVIOUS
<1>7. Received(i) = 1 + CHOOSE a \in Accepted : last[i] = Span(a)
  BY <1>5, <1>6, Zenon DEF Received
<1>8. Received(i) = 1 + b
  BY <1>4, <1>7, Zenon
<1> QED BY <1>1, <1>8

LEMMA ReceivedIsNext ==
    ChannelInv' => (\A i \in ReaderSlots, b \in Accepted :
                       last[i] = Span(b) => Received(i) = b + 1)'
BY ReceivedIs, PTL

LEMMA ReceivedStays ==
    ASSUME ChannelInv, ChannelInv', [Next]_vars, NEW i \in ReaderSlots, last'[i] = last[i]
    PROVE  Received(i)' = Received(i)
<1>1. CASE last[i] = {}
  BY <1>1 DEF Received
<1>2. CASE last[i] # {}
  <2>1. PICK b \in Accepted : last[i] = Span(b)
    BY <1>2 DEF ChannelInv, DeliveredBefore
  <2>2. b \in Accepted' /\ Span(b)' = Span(b)
    BY ClaimsStay
  <2> QED BY <2>1, <2>2, ReceivedIs, ReceivedIsNext
<1> QED BY <1>1, <1>2

LEMMA DeliveryIsReceive ==
    ASSUME ChannelInv, ChannelInv', [Next]_vars, NEW i \in ReaderSlots,
           NEW m \in Accepted, m = Start(i), Accepted' = Accepted,
           last' = [last EXCEPT ![i] = Span(m)], UNCHANGED spent
    PROVE  Channel!Receive(i, m)
<1>1. /\ last \in [ReaderSlots -> SUBSET Pos]
      /\ \A a \in Accepted : a \in Nat /\ msgLen[a] \in Nat /\ msgLen[a] > 0
  BY ChannelTypes DEF ChannelInv, SlotInv, Accepted
<1>2. Received(i) <= m
  <2>1. CASE last[i] = {}
    BY <1>1, <2>1 DEF Received
  <2>2. CASE last[i] # {}
    <3>1. PICK b \in Accepted : last[i] = Span(b) /\ b + msgLen[b] <= m
      BY <2>2 DEF ChannelInv, DeliveredBefore
    <3> QED BY <1>1, <3>1, ReceivedIs
  <2> QED BY <2>1, <2>2
<1>3. (\E k \in EventKinds : spent[k] > 0) \/
      \A a \in Accepted : Received(i) <= a => m <= a
  <2> SUFFICES ASSUME ~(\E k \in EventKinds : spent[k] > 0),
                      NEW a \in Accepted, a < m
               PROVE  ~(Received(i) <= a)
    BY <1>1
  <2>1. Lossless
    BY DEF Lossless, ChannelInv, SlotInv, WindowInv, TypeInv, TypeOK, HistoryType
  <2>2. PICK d \in Accepted : last[i] = Span(d) /\ a <= d
    BY <2>1 DEF ChannelInv, NothingSkipped
  <2>3. Received(i) = d + 1
    BY <2>2, ReceivedIs
  <2> QED BY <1>1, <2>2, <2>3
<1>4. [j \in ReaderSlots |-> Received(j)]' =
         [[j \in ReaderSlots |-> Received(j)] EXCEPT ![i] = m + 1]
  <2>1. Received(i)' = m + 1
    <3>1. last'[i] = Span(m)' /\ m \in Accepted'
      BY <1>1, ClaimsStay
    <3> QED BY <3>1, ReceivedIsNext
  <2>2. ASSUME NEW j \in ReaderSlots, j # i PROVE Received(j)' = Received(j)
    BY <1>1, <2>2, ReceivedStays
  <2> QED BY <2>1, <2>2
<1> QED BY <1>2, <1>3, <1>4 DEF Channel!Receive

LEMMA StepIsChannel ==
    ASSUME WholeMasks, Timely, ChannelInv, [Next]_vars
    PROVE  [Channel!Next]_(Channel!chanVars)
<1>1. ChannelInv' /\ WindowInv
  BY ChannelInvStep DEF ChannelInv, SlotInv
<1>2. /\ last \in [ReaderSlots -> SUBSET Pos]
      /\ \A a \in Accepted : a \in Pos
  BY <1>1, ChannelTypes DEF Accepted
<1>3. ASSUME Accepted' = Accepted, \A i \in ReaderSlots : last'[i] = last[i]
      PROVE  [Channel!Next]_(Channel!chanVars)
  <2>1. \A i \in ReaderSlots : Received(i)' = Received(i)
    BY <1>1, <1>3, ReceivedStays
  <2>2. CASE UNCHANGED spent
    BY <1>3, <2>1, <2>2 DEF Channel!chanVars
  <2>3. CASE \E k \in EventKinds : Spend(k)
    <3>1. (\E k \in EventKinds : spent[k] > 0)'
      BY <1>1, <2>3 DEF Spend, WindowInv, TypeInv, TypeOK, HistoryType
    <3>2. Channel!Disturb
      BY <1>3, <2>1, <3>1 DEF Channel!Disturb
    <3> QED BY <3>2 DEF Channel!Next
  <2> QED BY <2>2, <2>3, SpendsOrKeeps
<1>4. ASSUME NEW s \in Senders, Claim(s) PROVE Channel!Next
  <2>1. PICK m \in Pos : m = tail
    BY <1>4, ClaimAtTail
  <2>2. Accepted' = Accepted \cup {m} /\ (\A a \in Accepted : a < m) /\ UNCHANGED last
    BY <1>4, <2>1, ClaimAtTail
  <2>3. \A i \in ReaderSlots : Received(i)' = Received(i)
    BY <1>1, <2>2, ReceivedStays
  <2>4. UNCHANGED spent
    BY <1>4 DEF Claim
  <2>5. Channel!Accept(m)
    BY <2>2, <2>3, <2>4 DEF Channel!Accept
  <2> QED BY <2>5 DEF Channel!Next
<1>5. ASSUME \A s \in Senders : ~Claim(s), NEW i \in ReaderSlots, CopyFirst(i) \/ CopyNext(i)
      PROVE  [Channel!Next]_(Channel!chanVars)
  <2>1. Accepted' = Accepted
    BY <1>1, <1>5, ClaimsKept DEF Accepted
  <2>2. PICK m \in Accepted : m = Start(i)
    BY <1>5, CopyOutcome
  <2>3. last' = [last EXCEPT ![i] = Span(m)] \/ UNCHANGED last
    BY <1>5, <2>2, CopyOutcome
  <2>4. CASE last' = [last EXCEPT ![i] = Span(m)]
    <3>1. UNCHANGED spent
      BY <1>5 DEF CopyFirst, CopyNext, CopySlice
    <3> QED BY <1>1, <1>2, <2>1, <2>2, <2>4, <3>1, DeliveryIsReceive DEF Channel!Next
  <2> QED BY <1>3, <2>1, <2>3, <2>4
<1>6. ASSUME \A s \in Senders : ~Claim(s),
             \A i \in ReaderSlots : ~CopyFirst(i) /\ ~CopyNext(i)
      PROVE  [Channel!Next]_(Channel!chanVars)
  <2>1. Accepted' = Accepted
    BY <1>1, <1>6, ClaimsKept DEF Accepted
  <2> QED BY <1>3, <1>6, <2>1, AssemblyCases DEF Emptied, Unmoved
<1> QED BY <1>4, <1>5, <1>6

\* recv hands over whole messages in the order of the claims, none twice, whatever
\* senders interleave or die, for the one reader of an inbox over its deaths, drops and
\* restarts and for several readers that stay; and until the first process dies, joins
\* late or changes a flag it misses none: such a ring implements OrderedChannel, as long
\* as no live sender outlasts the slot timeout.
THEOREM RingImplementsChannel ==
    ASSUME WholeMasks, Timely
    PROVE  Spec => ImplementsOrderedChannel
<1>1. Init => Channel!Init
  <2> SUFFICES ASSUME Init PROVE Channel!Init
    OBVIOUS
  <2>1. Accepted = {} /\ \A i \in ReaderSlots : Received(i) = 0
    BY DEF Init, Accepted, Received
  <2>2. ~(\E k \in EventKinds : spent[k] > 0)
    BY DEF Init
  <2> QED BY <2>1, <2>2 DEF Channel!Init
<1>2. ChannelInv /\ [Next]_vars => [Channel!Next]_(Channel!chanVars)
  BY StepIsChannel
<1> QED BY <1>1, <1>2, ChannelIsSafe, PTL DEF Spec, ImplementsOrderedChannel, Channel!Spec

-----------------------------------------------------------------------------
(* Tokens.  A message a reader has not passed has a token somewhere.  A time-out *)
(* spends one, and passes a whole message: the slices of a claim are published   *)
(* in order, so the first missing one is followed by missing ones to its end.    *)

LEMMA TokenInvInit == Init => TokenInv
<1> SUFFICES ASSUME Init PROVE TokenInv
  OBVIOUS
<1>1. /\ Accepted = {} /\ tail = 0
      /\ \A s \in Senders : ~Writing(s) /\ spc[s] = "idle"
  BY DEF Init, Accepted, Writing
<1>2. ClaimsCover
  BY <1>1 DEF ClaimsCover, Pos
<1>3. SlicesInOrder
  BY <1>1 DEF SlicesInOrder
<1>4. \A i \in ReaderSlots : Behind(i) = {} /\ Promised(i) = {} /\ Taken(i) = 0
  BY <1>1 DEF Behind, Promised, Taken, Init
<1>5. \A i \in ReaderSlots : sem[i] = 0 /\ lost[i] = 0
  BY DEF Init
<1>6. ASSUME NEW i \in ReaderSlots
      PROVE  /\ IsFiniteSet(Promised(i))
             /\ Cardinality(Behind(i)) <=
                   sem[i] + lost[i] + Cardinality(Promised(i)) + Taken(i)
  <2>1. Cardinality(Behind(i)) = 0 /\ Cardinality(Promised(i)) = 0 /\ IsFiniteSet(Promised(i))
    BY <1>4, FS_EmptySet
  <2> QED BY <1>4, <1>5, <2>1
<1> QED BY <1>2, <1>3, <1>6, ChannelInvInit DEF TokenInv, TokensCover

\* No step makes a message longer than recv_impl scans.
LEMMA NeedsFit ==
    ASSUME WindowInv, ClaimsCover, [Next]_vars, NEW s \in Senders, spc'[s] # "idle"
    PROVE  need'[s] <= MaxSlice
<1>1. /\ spc \in [Senders -> {"idle", "mask", "tail", "scan", "cas",
                              "fill", "commit", "post"}]
      /\ need \in [Senders -> Nat]
  BY SlotTypes
<1>2. ASSUME NEW t \in Senders, SendStep(t) PROVE need'[s] <= MaxSlice
  <2>1. CASE \E n \in Needs : SendEnter(t, n)
    BY <1>1, <2>1 DEF SendEnter, ClaimsCover
  <2>2. CASE SenderStep(t) \/ CrashSender(t)
    BY <1>1, <2>2
       DEF SenderStep, LoadMask, LoadTail, LoadHead, SendFull, Claim, ClaimFails, FillSlot,
           CommitSlot, Post, CrashSender, SendReturns, ClaimsCover
  <2> QED BY <1>2, <2>1, <2>2 DEF SendStep
<1>3. CASE UNCHANGED sndVars
  BY <1>3 DEF sndVars, ClaimsCover
<1>4. UNCHANGED vars => UNCHANGED sndVars
  BY DEF vars
<1> QED BY <1>2, <1>3, <1>4, StepCases, ReaderFrame, ControlFrame, FlagFrame, AllocFrame

LEMMA ClaimsCoverStep ==
    ASSUME ChannelInv, ClaimsCover, [Next]_vars
    PROVE  ClaimsCover'
<1>1. WindowInv
  BY DEF ChannelInv, SlotInv
<1>2. ASSUME NEW s \in Senders, Claim(s)
      PROVE  /\ \A p \in Pos : p < tail' => \E b \in Accepted' : p \in Span(b)'
             /\ \A b \in Accepted' : msgLen'[b] <= MaxSlice
  <2>1. /\ tail \in Nat /\ tail \in Pos /\ need[s] \in Nat /\ tail' = tail + need[s]
        /\ Accepted' = Accepted \cup {tail}
        /\ msgLen' = [msgLen EXCEPT ![tail] = need[s]]
        /\ msgLen \in [Pos -> Nat]
    BY <1>1, <1>2, ClaimAtTail, SlotTypes, ChannelTypes
  <2>2. need[s] <= MaxSlice
    BY <1>2 DEF Claim, ClaimsCover
  <2>3. ASSUME NEW p \in Pos, p < tail' PROVE \E b \in Accepted' : p \in Span(b)'
    <3>1. CASE p < tail
      <4>1. PICK b \in Accepted : p \in Span(b)
        BY <3>1 DEF ClaimsCover
      <4>2. b \in Accepted' /\ Span(b)' = Span(b)
        BY ClaimsStay
      <4> QED BY <4>1, <4>2
    <3>2. CASE ~(p < tail)
      <4>1. PICK t \in Accepted' : t = tail
        BY <2>1
      <4>2. msgLen'[t] = need[s] /\ p \in Nat /\ t <= p /\ p <= t + need[s] - 1
        BY <2>1, <2>3, <3>2, <4>1 DEF Pos
      <4>3. p \in Span(t)'
        BY <2>1, <4>1, <4>2 DEF Span
      <4> QED BY <4>3
    <3> QED BY <3>1, <3>2
  <2>4. \A b \in Accepted' : msgLen'[b] <= MaxSlice
    BY <2>1, <2>2, <1>2, ClaimAtTail DEF ClaimsCover
  <2> QED BY <2>3, <2>4
<1>3. ASSUME \A s \in Senders : ~Claim(s)
      PROVE  /\ \A p \in Pos : p < tail' => \E b \in Accepted' : p \in Span(b)'
             /\ \A b \in Accepted' : msgLen'[b] <= MaxSlice
  <2>1. UNCHANGED <<tail, msgLen>>
    BY <1>1, <1>3, ClaimsKept
  <2> QED BY <2>1 DEF ClaimsCover, Accepted, Span
<1>4. \A s \in Senders : spc'[s] # "idle" => need'[s] <= MaxSlice
  BY <1>1, NeedsFit
<1> QED BY <1>2, <1>3, <1>4 DEF ClaimsCover

\* Slices are numbers below the tail.
LEMMA SliceTypes ==
    ASSUME ChannelInv, NEW b \in Accepted, NEW p \in Span(b)
    PROVE  /\ p \in Nat /\ p \in Pos /\ b \in Nat /\ msgLen[b] \in Nat
           /\ b <= p /\ p < b + msgLen[b] /\ p < tail
<1>1. WindowInv
  BY DEF ChannelInv, SlotInv
<1>2. b \in Nat /\ msgLen[b] \in Nat /\ b + msgLen[b] <= tail /\ tail \in Nat /\ tail <= MaxTail
  BY <1>1, ChannelTypes DEF ChannelInv, ClaimsInOrder, Accepted, Pos
<1>3. p \in Nat /\ b <= p /\ p < b + msgLen[b]
  BY <1>2 DEF Span
<1> QED BY <1>2, <1>3 DEF Pos

LEMMA OrderedByClaim ==
    ASSUME ChannelInv, SlicesInOrder, NEW s \in Senders, Claim(s)
    PROVE  SlicesInOrder'
<1>1. WindowInv /\ SlotInv /\ [Next]_vars
  BY DEF ChannelInv, SlotInv, Next, SenderStep
<1>2. /\ UNCHANGED <<mSeq, readerHead, oldTail>>
      /\ tail \in Nat /\ oldTail[s] = tail /\ seq' = [seq EXCEPT ![s] = tail]
      /\ spc' = [spc EXCEPT ![s] = "fill"]
      /\ Accepted' = Accepted \cup {tail}
  BY <1>1, ClaimAtTail, SlotTypes DEF slotVars
<1>3. ASSUME NEW i \in ReaderSlots, NEW b \in Accepted',
             NEW p \in Span(b)', NEW q \in Span(b)',
             readerHead'[i] <= p, p < q, Committed(q)'
      PROVE  Committed(p)'
  <2>1. CASE b \in Accepted
    <3>1. Span(b)' = Span(b)
      BY <1>1, <2>1, ClaimsStay
    <3> QED BY <1>2, <1>3, <2>1, <3>1 DEF SlicesInOrder, Committed
  <2>2. CASE b = tail
    <3>1. q \in Int /\ tail <= q
      BY <1>2, <1>3, <2>2 DEF Span
    <3>2. mSeq[Idx(q)] = q + 1 /\ mSeq[Idx(q)] <= tail
      BY <1>1, <1>2, <1>3, <3>1, IdxIsSlot DEF SlotInv, NotPublishedEarly, Committed
    <3> QED BY <1>2, <3>1, <3>2
  <2> QED BY <1>2, <2>1, <2>2
<1>4. ASSUME NEW i \in ReaderSlots, NEW t \in Senders, Writing(t)',
             NEW p \in oldTail'[t] .. seq'[t] - 1, readerHead'[i] <= p
      PROVE  Committed(p)'
  <2>1. t # s
    BY <1>1, <1>2, <1>4, SlotTypes
  <2>2. Writing(t) /\ p \in oldTail[t] .. seq[t] - 1 /\ readerHead[i] <= p
    BY <1>1, <1>2, <1>4, <2>1, SlotTypes DEF Writing
  <2> QED BY <1>2, <2>2 DEF SlicesInOrder, Committed
<1> QED BY <1>3, <1>4 DEF SlicesInOrder

LEMMA OrderedByCommit ==
    ASSUME WholeMasks, ChannelInv, SlicesInOrder, NEW s \in Senders, CommitSlot(s)
    PROVE  SlicesInOrder'
<1>1. WindowInv /\ SlotInv /\ [Next]_vars
  BY DEF ChannelInv, SlotInv, Next, SenderStep
<1>0. PICK c \in Nat : c = seq[s]
  BY <1>1, SlotTypes
<1>2. /\ Writing(s) /\ seq[s] = c
      /\ seq' = [seq EXCEPT ![s] = c + 1]
      /\ \A t \in Senders : t # s => spc'[t] = spc[t]
      /\ mSeq' = [mSeq EXCEPT ![Idx(c)] = c + 1]
      /\ UNCHANGED <<tail, readerHead, msgLen, oldTail>>
  BY <1>0, <1>1, SlotTypes DEF CommitSlot, Writing, ringVars, histVars
<1>3. c \in Nat /\ c < tail /\ oldTail[s] <= c /\ oldTail[s] \in Nat
      /\ c < oldTail[s] + need[s] /\ Idx(c) \in Slot /\ mSeq \in [Slot -> Nat] /\ ~Committed(c)
  BY <1>1, <1>2, SlotTypes, IdxIsSlot DEF SlotInv, NotPublishedEarly, Left
<1>4. ASSUME NEW i \in ReaderSlots, NEW p \in Nat, readerHead[i] <= p, p < tail, p # c
      PROVE  Committed(p)' <=> Committed(p)
  <2>1. Idx(p) # Idx(c)
    BY <1>1, <1>2, <1>4, WriterHasItsSlot
  <2>2. Idx(p) \in Slot /\ mSeq'[Idx(p)] = mSeq[Idx(p)]
    BY <1>2, <1>3, <1>4, <2>1, IdxIsSlot
  <2> QED BY <2>2 DEF Committed, Idx
<1>5. Committed(c)'
  BY <1>2, <1>3 DEF Committed, Idx
<1>6. ASSUME NEW i \in ReaderSlots, NEW b \in Accepted',
             NEW p \in Span(b)', NEW q \in Span(b)',
             readerHead'[i] <= p, p < q, Committed(q)'
      PROVE  Committed(p)'
  <2>1. b \in Accepted /\ p \in Span(b) /\ q \in Span(b) /\ readerHead[i] <= p
    BY <1>2, <1>6 DEF Accepted, Span
  <2>2. /\ p \in Nat /\ q \in Nat /\ p < tail /\ q < tail /\ b <= p
        /\ readerHead[i] \in Nat /\ readerHead[i] <= q
    <3>1. p \in Nat /\ q \in Nat /\ p < tail /\ q < tail /\ b <= p
      BY <2>1, SliceTypes
    <3> QED BY <1>1, <1>6, <2>1, <3>1, SlotTypes
  <2>3. CASE p = c
    BY <1>5, <2>3
  <2>4. CASE p # c /\ q # c
    BY <1>4, <1>6, <2>1, <2>2, <2>4 DEF SlicesInOrder
  <2>5. CASE q = c
    <3>1. oldTail[s] \in Accepted /\ c \in Span(oldTail[s])
      BY <1>1, <1>2, <1>3, WriterIsAccepted, SlotTypes DEF Span
    <3>2. oldTail[s] = b
      BY <1>3, <2>1, <2>5, <3>1, OneClaimEach
    <3>3. p \in oldTail[s] .. c - 1
      BY <1>3, <1>6, <2>2, <2>5, <3>2
    <3>4. Committed(p)
      BY <1>2, <2>1, <3>3 DEF SlicesInOrder
    <3> QED BY <1>4, <1>6, <2>1, <2>2, <2>5, <3>4
  <2> QED BY <2>3, <2>4, <2>5
<1>7. ASSUME NEW i \in ReaderSlots, NEW t \in Senders, Writing(t)',
             NEW p \in oldTail'[t] .. seq'[t] - 1, readerHead'[i] <= p
      PROVE  Committed(p)'
  <2>1. CASE p = c
    BY <1>5, <2>1
  <2>2. CASE p # c
    <3>1. Writing(t) /\ p \in oldTail[t] .. seq[t] - 1
      BY <1>1, <1>2, <1>3, <1>7, <2>2, SlotTypes DEF Writing
    <3>2. p \in Nat /\ p < tail
      BY <1>1, <3>1, SlotTypes
    <3>3. Committed(p)
      BY <1>2, <1>7, <3>1 DEF SlicesInOrder
    <3> QED BY <1>2, <1>4, <1>7, <2>2, <3>2, <3>3
  <2> QED BY <2>1, <2>2
<1> QED BY <1>6, <1>7 DEF SlicesInOrder

LEMMA SlicesInOrderStep ==
    ASSUME WholeMasks, ChannelInv, SlicesInOrder, [Next]_vars
    PROVE  SlicesInOrder'
<1>1. WindowInv
  BY DEF ChannelInv, SlotInv
<1>2. CASE \A s \in Senders : ~Claim(s) /\ ~CommitSlot(s)
  <2>1. /\ UNCHANGED mSeq
        /\ \A s \in Senders : Writing(s)' =>
              Writing(s) /\ seq'[s] = seq[s] /\ oldTail'[s] = oldTail[s]
    <3>1. ASSUME NEW s \in Senders, FillSlot(s)
          PROVE  /\ UNCHANGED mSeq
                 /\ \A t \in Senders : Writing(t)' =>
                       Writing(t) /\ seq'[t] = seq[t] /\ oldTail'[t] = oldTail[t]
      BY <1>1, <3>1, SlotTypes DEF FillSlot, Writing
    <3>2. CASE \A s \in Senders : ~FillSlot(s)
      BY <1>1, <1>2, <3>2, SlotsKept DEF slotVars, Writing
    <3> QED BY <3>1, <3>2
  <2>2. UNCHANGED msgLen
    BY <1>1, <1>2, ClaimsKept
  <2>3. \A i \in ReaderSlots : readerHead[i] \in Nat /\ readerHead'[i] \in Nat
                               /\ readerHead[i] <= readerHead'[i]
    BY <1>1, HeadsGrow
  <2>4. ASSUME NEW i \in ReaderSlots, NEW b \in Accepted',
               NEW p \in Span(b)', NEW q \in Span(b)',
               readerHead'[i] <= p, p < q, Committed(q)'
        PROVE  Committed(p)'
    <3>1. b \in Accepted /\ p \in Span(b) /\ q \in Span(b)
      BY <2>2, <2>4 DEF Accepted, Span
    <3>2. readerHead[i] <= p
      BY <2>3, <2>4, <3>1, SliceTypes
    <3> QED BY <2>1, <2>4, <3>1, <3>2 DEF SlicesInOrder, Committed
  <2>5. ASSUME NEW i \in ReaderSlots, NEW t \in Senders, Writing(t)',
               NEW p \in oldTail'[t] .. seq'[t] - 1, readerHead'[i] <= p
        PROVE  Committed(p)'
    <3>1. Writing(t) /\ p \in oldTail[t] .. seq[t] - 1 /\ p \in Int
      BY <2>1, <2>5
    <3>2. readerHead[i] <= p
      BY <2>3, <2>5, <3>1
    <3> QED BY <2>1, <3>1, <3>2 DEF SlicesInOrder, Committed
  <2> QED BY <2>4, <2>5 DEF SlicesInOrder
<1> QED BY <1>2, OrderedByClaim, OrderedByCommit

\* Counting one message or one promise more or less.
LEMMA CountKept ==
    ASSUME NEW B, IsFiniteSet(B), NEW C, C \subseteq B
    PROVE  Cardinality(C) \in Nat /\ Cardinality(B) \in Nat /\ Cardinality(C) <= Cardinality(B)
BY FS_Subset, FS_CardinalityType

LEMMA CountMore ==
    ASSUME NEW B, IsFiniteSet(B), NEW x, NEW C, C \subseteq B \cup {x}
    PROVE  /\ Cardinality(C) \in Nat /\ Cardinality(B) \in Nat
           /\ Cardinality(C) <= Cardinality(B) + 1
<1>1. /\ IsFiniteSet(B \cup {x})
      /\ Cardinality(B \cup {x}) = IF x \in B THEN Cardinality(B) ELSE Cardinality(B) + 1
  BY FS_AddElement
<1>2. Cardinality(B) \in Nat
  BY FS_CardinalityType
<1> QED BY <1>1, <1>2, CountKept

LEMMA CountLess ==
    ASSUME NEW B, IsFiniteSet(B), NEW x \in B, NEW C, C \subseteq B \ {x}
    PROVE  /\ Cardinality(C) \in Nat /\ Cardinality(B) \in Nat
           /\ Cardinality(C) <= Cardinality(B) - 1
<1>1. IsFiniteSet(B \ {x}) /\ Cardinality(B \ {x}) = Cardinality(B) - 1
  BY FS_RemoveElement
<1>2. Cardinality(B) \in Nat
  BY FS_CardinalityType
<1> QED BY <1>1, <1>2, CountKept

\* What the token lemmas use of the types.
LEMMA TokenTypes ==
    ASSUME WindowInv
    PROVE  /\ sem \in [ReaderSlots -> Nat] /\ lost \in [ReaderSlots -> Nat]
           /\ mask \in [Senders -> SUBSET ReaderSlots]
           /\ todo \in [Senders -> SUBSET ReaderSlots]
           /\ \A i \in ReaderSlots : IsFiniteSet(Behind(i)) /\ Taken(i) \in {0, 1}
<1>1. Pos = 0 .. MaxTail /\ IsFiniteSet(Pos)
  BY FS_Interval DEF Pos
<1>2. \A i \in ReaderSlots : Behind(i) \subseteq Pos
  BY DEF Behind, Accepted
<1>3. \A i \in ReaderSlots : IsFiniteSet(Behind(i))
  BY <1>1, <1>2, FS_Subset
<1> QED BY <1>3 DEF WindowInv, TypeInv, TypeOK, HeaderType, SenderType, HistoryType, Taken

\* The balance of one reader.
Covered(i) ==
    /\ IsFiniteSet(Promised(i))
    /\ Cardinality(Behind(i)) <= sem[i] + lost[i] + Cardinality(Promised(i)) + Taken(i)

\* A reader passes messages and never goes back; only a claim adds one.
LEMMA BehindShrinks ==
    ASSUME WholeMasks, ChannelInv, [Next]_vars, \A s \in Senders : ~Claim(s),
           NEW i \in ReaderSlots
    PROVE  Behind(i)' \subseteq Behind(i)
<1>1. WindowInv
  BY DEF ChannelInv, SlotInv
<1>2. UNCHANGED <<tail, msgLen>>
  BY <1>1, ClaimsKept
<1>3. readerHead[i] \in Nat /\ readerHead'[i] \in Nat /\ readerHead[i] <= readerHead'[i]
  BY <1>1, HeadsGrow
<1>4. \A b \in Accepted : b \in Nat /\ msgLen[b] \in Nat
  BY ClaimsStay
<1> QED BY <1>2, <1>3, <1>4 DEF Behind, Accepted

\* Steps that leave the promises to a reader alone and waste no token of it.
LEMMA CoveredStays ==
    ASSUME WholeMasks, ChannelInv, [Next]_vars, \A s \in Senders : ~Claim(s),
           NEW i \in ReaderSlots, sem'[i] \in Nat, lost'[i] \in Nat,
           Covered(i), Promised(i)' = Promised(i),
           sem[i] + lost[i] + Taken(i) <= sem'[i] + lost'[i] + Taken(i)'
    PROVE  Covered(i)'
<1>1. WindowInv
  BY DEF ChannelInv, SlotInv
<1>2. IsFiniteSet(Behind(i)) /\ Behind(i)' \subseteq Behind(i)
  BY <1>1, TokenTypes, BehindShrinks
<1>3. /\ Cardinality(Behind(i)') \in Nat /\ Cardinality(Behind(i)) \in Nat
      /\ Cardinality(Behind(i)') <= Cardinality(Behind(i))
  BY <1>2, CountKept
<1>4. Cardinality(Promised(i)) \in Nat
  BY FS_CardinalityType DEF Covered
<1>5. /\ sem[i] \in Nat /\ lost[i] \in Nat /\ Taken(i) \in {0, 1}
      /\ sem'[i] \in Nat /\ lost'[i] \in Nat /\ Taken(i)' \in {0, 1}
  BY <1>1, TokenTypes DEF Taken
<1> QED BY <1>3, <1>4, <1>5 DEF Covered

\* A token kept or lost in place of a promise.
LEMMA PromiseKept ==
    ASSUME WholeMasks, ChannelInv, [Next]_vars, \A s \in Senders : ~Claim(s),
           NEW i \in ReaderSlots, sem'[i] \in Nat, lost'[i] \in Nat,
           Covered(i),
           NEW s \in Promised(i), Promised(i)' = Promised(i) \ {s},
           sem[i] + lost[i] + Taken(i) + 1 <= sem'[i] + lost'[i] + Taken(i)'
    PROVE  Covered(i)'
<1>1. WindowInv
  BY DEF ChannelInv, SlotInv
<1>2. IsFiniteSet(Behind(i)) /\ Behind(i)' \subseteq Behind(i)
  BY <1>1, TokenTypes, BehindShrinks
<1>3. /\ Cardinality(Behind(i)') \in Nat /\ Cardinality(Behind(i)) \in Nat
      /\ Cardinality(Behind(i)') <= Cardinality(Behind(i))
  BY <1>2, CountKept
<1>4. /\ IsFiniteSet(Promised(i)')
      /\ Cardinality(Promised(i)) \in Nat /\ Cardinality(Promised(i)') \in Nat
      /\ Cardinality(Promised(i)') = Cardinality(Promised(i)) - 1
  BY FS_RemoveElement, FS_CardinalityType DEF Covered
<1>5. /\ sem[i] \in Nat /\ lost[i] \in Nat /\ Taken(i) \in {0, 1}
      /\ sem'[i] \in Nat /\ lost'[i] \in Nat /\ Taken(i)' \in {0, 1}
  BY <1>1, TokenTypes DEF Taken
<1> QED BY <1>3, <1>4, <1>5 DEF Covered

\* A message passed for the token that was spent.
LEMMA MessagePassed ==
    ASSUME ChannelInv,
           NEW i \in ReaderSlots, sem'[i] \in Nat, lost'[i] \in Nat,
           Covered(i), Promised(i)' = Promised(i),
           NEW b \in Behind(i), Behind(i)' \subseteq Behind(i) \ {b},
           sem[i] + lost[i] + Taken(i) <= sem'[i] + lost'[i] + Taken(i)' + 1
    PROVE  Covered(i)'
<1>1. WindowInv
  BY DEF ChannelInv, SlotInv
<1>2. IsFiniteSet(Behind(i))
  BY <1>1, TokenTypes
<1>3. /\ Cardinality(Behind(i)') \in Nat /\ Cardinality(Behind(i)) \in Nat
      /\ Cardinality(Behind(i)') <= Cardinality(Behind(i)) - 1
  BY <1>2, CountLess
<1>4. Cardinality(Promised(i)) \in Nat
  BY FS_CardinalityType DEF Covered
<1>5. /\ sem[i] \in Nat /\ lost[i] \in Nat /\ Taken(i) \in {0, 1}
      /\ sem'[i] \in Nat /\ lost'[i] \in Nat /\ Taken(i)' \in {0, 1}
  BY <1>1, TokenTypes DEF Taken
<1> QED BY <1>3, <1>4, <1>5 DEF Covered

\* A time-out leaves the message its slot belongs to.
LEMMA TimeoutPasses ==
    ASSUME ChannelInv, ClaimsCover, SlicesInOrder, NEW i \in ReaderSlots, RecvTimeout(i)
    PROVE  \E b \in Behind(i) : b \notin Behind(i)'
<1>1. WindowInv
  BY DEF ChannelInv, SlotInv
<1>2. PICK h \in Nat : h = head[i]
  BY <1>1, SlotTypes
<1>3. /\ h = readerHead[i] /\ h < tail /\ tail \in Nat /\ h \in Pos /\ ~Committed(h)
      /\ readerHead \in [ReaderSlots -> Nat]
  <2>1. rpc[i] = "loop" /\ head[i] # tail /\ ~Committed(head[i])
    BY DEF RecvTimeout
  <2>2. head[i] <= tail /\ head[i] = readerHead[i] /\ tail \in Nat /\ head[i] \in Pos
        /\ readerHead \in [ReaderSlots -> Nat]
    BY <1>1, <2>1, SlotTypes, ChannelTypes
  <2> QED BY <1>2, <2>1, <2>2
<1>4. PICK b \in Accepted : h \in Span(b)
  BY <1>3 DEF ClaimsCover
<1>5. /\ b \in Nat /\ msgLen[b] \in Nat /\ b <= h /\ h < b + msgLen[b]
      /\ msgLen[b] <= MaxSlice /\ b + msgLen[b] <= tail
  BY <1>4, SliceTypes DEF ClaimsCover, ChannelInv, ClaimsInOrder
<1>6. PICK q \in h + 1 .. ScanEnd(h) :
         /\ q = ScanEnd(h) \/ Committed(q)
         /\ AdvanceTo(i, q)
  BY <1>2 DEF RecvTimeout
<1>7. q \in Nat /\ h < q
  BY <1>2, <1>3, <1>6 DEF ScanEnd
<1>8. b + msgLen[b] <= q
  <2>1. CASE q = ScanEnd(h)
    BY <1>3, <1>5, <2>1 DEF ScanEnd
  <2>2. CASE Committed(q) /\ q < b + msgLen[b]
    <3>1. q \in Span(b)
      BY <1>5, <1>7, <2>2 DEF Span
    <3>2. Committed(h)
      BY <1>3, <1>4, <1>7, <2>2, <3>1 DEF SlicesInOrder
    <3> QED BY <1>3, <3>2
  <2> QED BY <1>5, <1>6, <1>7, <2>1, <2>2
<1>9. b \in Behind(i)
  BY <1>3, <1>4, <1>5 DEF Behind
<1>10. readerHead'[i] = q /\ UNCHANGED msgLen
  BY <1>3, <1>6 DEF AdvanceTo, RecvTimeout, histVars
<1>11. b \notin Behind(i)'
  BY <1>5, <1>7, <1>8, <1>10 DEF Behind
<1> QED BY <1>9, <1>11

\* Nothing is behind a reader whose head is at the tail.
LEMMA NothingBehindAtTail ==
    ASSUME ChannelInv, NEW i \in ReaderSlots, RecvEmpty(i)
    PROVE  Behind(i)' = {}
<1>1. WindowInv
  BY DEF ChannelInv, SlotInv
<1>2. head[i] = tail /\ readerHead'[i] = tail /\ tail \in Nat /\ UNCHANGED <<tail, msgLen>>
  BY <1>1, SlotTypes DEF RecvEmpty, AdvanceTo, histVars
<1>3. \A b \in Accepted : b \in Nat /\ msgLen[b] \in Nat /\ b + msgLen[b] <= tail
  BY <1>1, ChannelTypes DEF ChannelInv, ClaimsInOrder, Accepted
<1> QED BY <1>2, <1>3 DEF Behind, Accepted

\* A step of the reader itself.
LEMMA CoveredByReader ==
    ASSUME WholeMasks, TokenInv, NEW i \in ReaderSlots, ReaderStep(i),
           sem'[i] \in Nat, lost'[i] \in Nat
    PROVE  Covered(i)'
<1>1. /\ WindowInv /\ ChannelInv /\ ClaimsCover /\ SlicesInOrder /\ [Next]_vars /\ Covered(i)
  BY DEF TokenInv, ChannelInv, SlotInv, TokensCover, Covered, Next
<1>2. /\ sem \in [ReaderSlots -> Nat] /\ lost \in [ReaderSlots -> Nat]
      /\ rpc \in [ReaderSlots -> {"off", "idle", "wait", "loop", "copy"}]
  BY <1>1, TokenTypes, SlotTypes
<1>3. UNCHANGED sndVars /\ \A s \in Senders : ~Claim(s)
  <2>1. UNCHANGED <<tail, sndVars>>
    BY ReaderFrame
  <2>2. ASSUME NEW s \in Senders, Claim(s) PROVE FALSE
    <3>1. tail \in Pos /\ need[s] \in Nat /\ need[s] > 0 /\ tail' = tail + need[s]
      BY <1>1, <2>2, ClaimAtTail
    <3> QED BY <2>1, <3>1 DEF Pos
  <2> QED BY <2>1, <2>2
<1>4. Promised(i)' = Promised(i)
  BY <1>3 DEF sndVars, Promised, Writing
<1>5. Behind(i)' \subseteq Behind(i)
  BY <1>1, <1>3, BehindShrinks
<1>6. CASE RecvEnter(i) \/ SemWait(i) \/ SemWaitDisabled(i) \/ FindCommitted(i) \/ SkipForeign(i)
  <2>1. sem[i] + lost[i] + Taken(i) <= sem'[i] + lost'[i] + Taken(i)'
    BY <1>2, <1>6 DEF RecvEnter, SemWait, SemWaitDisabled, FindCommitted, SkipForeign,
                      SkipSlice, Taken, ringVars, histVars
  <2> QED BY <1>1, <1>3, <1>4, <2>1, CoveredStays
<1>7. ASSUME NEW b \in Behind(i), b \notin Behind(i)', UNCHANGED <<sem, lost>>
      PROVE  Covered(i)'
  <2>1. sem[i] + lost[i] + Taken(i) <= sem'[i] + lost'[i] + Taken(i)' + 1
    BY <1>2, <1>7 DEF Taken
  <2>2. Behind(i)' \subseteq Behind(i) \ {b}
    BY <1>5, <1>7
  <2> QED BY <1>1, <1>4, <2>1, <2>2, MessagePassed
<1>8. CASE RecvTimeout(i)
  <2>1. UNCHANGED <<sem, lost>>
    BY <1>8 DEF RecvTimeout, histVars
  <2> QED BY <1>1, <1>7, <1>8, <2>1, TimeoutPasses
<1>9. CASE RecvEmpty(i)
  <2>1. Cardinality(Behind(i)') = 0
    BY <1>1, <1>9, NothingBehindAtTail, FS_EmptySet
  <2>2. IsFiniteSet(Promised(i)') /\ Cardinality(Promised(i)') \in Nat
    BY <1>1, <1>4, FS_CardinalityType DEF Covered
  <2>3. Taken(i)' \in {0, 1}
    BY DEF Taken
  <2> QED BY <2>1, <2>2, <2>3 DEF Covered
<1>10. CASE CopyFirst(i) \/ CopyNext(i)
  <2>1. UNCHANGED <<sem, lost>>
    BY <1>10 DEF CopyFirst, CopyNext, CopySlice
  <2>2. CASE rpc'[i] = "loop"
    <3>1. sem[i] + lost[i] + Taken(i) <= sem'[i] + lost'[i] + Taken(i)'
      BY <1>2, <1>10, <2>1, <2>2 DEF CopyFirst, CopyNext, Taken
    <3> QED BY <1>1, <1>3, <1>4, <3>1, CoveredStays
  <2>3. CASE rpc'[i] # "loop"
    <3>1. PICK b \in Accepted : b = Start(i)
      BY <1>1, <1>10, CopyOutcome
    <3>2. b \in Nat /\ msgLen[b] \in Nat /\ readerHead'[i] = b + msgLen[b] /\ UNCHANGED msgLen
      BY <1>1, <1>10, <2>3, <3>1, CopyOutcome
    <3>3. b \notin Behind(i)'
      BY <3>2 DEF Behind
    <3>4. rpc[i] = "copy" /\ Continues(i)
      BY <1>10 DEF CopyFirst, CopyNext
    <3>5. head[i] \in Nat /\ readerHead[i] = head[i] /\ head[i] < b + msgLen[b]
      BY <1>1, <3>1, <3>4, NextSlice
    <3>6. b \in Behind(i)
      BY <3>2, <3>5 DEF Behind
    <3> QED BY <1>7, <2>1, <3>3, <3>6
  <2> QED BY <2>2, <2>3
<1> QED BY <1>6, <1>8, <1>9, <1>10 DEF ReaderStep

\* A claim promises a token to every reader: its mask names them all.
LEMMA CoveredByClaim ==
    ASSUME WholeMasks, TokenInv, NEW s \in Senders, Claim(s), NEW i \in ReaderSlots
    PROVE  Covered(i)'
<1>1. WindowInv /\ ChannelInv /\ [Next]_vars /\ Covered(i)
  BY DEF TokenInv, ChannelInv, SlotInv, TokensCover, Covered, Next, SenderStep
<1>2. /\ UNCHANGED <<sem, lost, rpc, mask, todo, readerHead>>
      /\ spc' = [spc EXCEPT ![s] = "fill"] /\ spc[s] = "cas"
      /\ Accepted' = Accepted \cup {tail}
      /\ \A b \in Accepted : msgLen'[b] = msgLen[b]
  BY <1>1, ClaimAtTail DEF Claim, rcvVars
<1>3. i \in mask[s]
  BY <1>1, <1>2 DEF WindowInv, ScanBounds
<1>4. spc \in [Senders -> {"idle", "mask", "tail", "scan", "cas", "fill", "commit", "post"}]
  BY <1>1, SlotTypes
<1>5. Promised(i)' = Promised(i) \cup {s} /\ s \notin Promised(i)
  BY <1>2, <1>3, <1>4 DEF Promised, Writing
<1>6. IsFiniteSet(Behind(i)) /\ sem[i] \in Nat /\ lost[i] \in Nat /\ Taken(i) \in {0, 1}
      /\ Taken(i)' = Taken(i)
  BY <1>1, <1>2, TokenTypes DEF Taken
<1>7. Behind(i)' \subseteq Behind(i) \cup {tail}
  BY <1>2 DEF Behind
<1>8. /\ Cardinality(Behind(i)') \in Nat /\ Cardinality(Behind(i)) \in Nat
      /\ Cardinality(Behind(i)') <= Cardinality(Behind(i)) + 1
  BY <1>6, <1>7, CountMore
<1>9. /\ IsFiniteSet(Promised(i)') /\ Cardinality(Promised(i)) \in Nat
      /\ Cardinality(Promised(i)') = Cardinality(Promised(i)) + 1
  BY <1>1, <1>5, FS_AddElement, FS_CardinalityType DEF Covered
<1> QED BY <1>1, <1>2, <1>6, <1>8, <1>9 DEF Covered

\* A token posted, or lost with the sender that had promised it, is no longer promised.
LEMMA CoveredBySender ==
    ASSUME WholeMasks, TokenInv, NEW s \in Senders, SendStep(s), ~Claim(s),
           NEW i \in ReaderSlots, sem'[i] \in Nat, lost'[i] \in Nat
    PROVE  Covered(i)'
<1>1. WindowInv /\ ChannelInv /\ [Next]_vars /\ Covered(i)
  BY DEF TokenInv, ChannelInv, SlotInv, TokensCover, Covered, Next, SendStep
<1>2. \A t \in Senders : ~Claim(t)
  <2>1. UNCHANGED tail
    BY SendFrame
  <2>2. ASSUME NEW t \in Senders, Claim(t) PROVE FALSE
    <3>1. tail \in Pos /\ need[t] \in Nat /\ need[t] > 0 /\ tail' = tail + need[t]
      BY <1>1, <2>2, ClaimAtTail
    <3> QED BY <2>1, <3>1 DEF Pos
  <2> QED BY <2>2
<1>3. /\ spc \in [Senders -> {"idle", "mask", "tail", "scan", "cas",
                              "fill", "commit", "post"}]
      /\ sem \in [ReaderSlots -> Nat] /\ lost \in [ReaderSlots -> Nat]
      /\ mask \in [Senders -> SUBSET ReaderSlots]
      /\ todo \in [Senders -> SUBSET ReaderSlots]
      /\ Taken(i) \in {0, 1}
  BY <1>1, SlotTypes, TokenTypes
<1>4. Taken(i)' = Taken(i)
  BY SendFrame DEF Taken
<1>5. \A t \in Senders : t # s =>
         /\ spc'[t] = spc[t] /\ mask'[t] = mask[t] /\ todo'[t] = todo[t]
  BY <1>3 DEF SendStep, SenderStep, SendEnter, LoadMask, LoadTail, LoadHead, SendFull, Claim,
              ClaimFails, FillSlot, CommitSlot, Post, CrashSender, SendReturns
<1>6. \A t \in Senders : t # s => (t \in Promised(i)' <=> t \in Promised(i))
  BY <1>5 DEF Promised, Writing
<1>7. ASSUME UNCHANGED <<sem, lost>>, s \in Promised(i)' <=> s \in Promised(i)
      PROVE  Covered(i)'
  <2>1. Promised(i)' = Promised(i)
    BY <1>6, <1>7 DEF Promised
  <2> QED BY <1>1, <1>2, <1>3, <1>4, <1>7, <2>1, CoveredStays
<1>8. CASE CommitSlot(s)
  <2>1. UNCHANGED <<sem, lost, mask>> /\ spc[s] = "commit"
        /\ spc'[s] \in {"fill", "post"} /\ (spc'[s] = "post" => todo'[s] = mask[s])
    BY <1>3, <1>8 DEF CommitSlot, ringVars, histVars
  <2> QED BY <1>7, <2>1 DEF Promised, Writing
<1>9. CASE FillSlot(s)
  <2>1. UNCHANGED <<sem, lost, mask>> /\ spc[s] = "fill" /\ spc'[s] = "commit"
    BY <1>3, <1>9 DEF FillSlot, ringVars, histVars
  <2> QED BY <1>7, <2>1 DEF Promised, Writing
<1>10. CASE \/ \E n \in Needs : SendEnter(s, n)
            \/ LoadMask(s) \/ LoadTail(s) \/ LoadHead(s) \/ SendFull(s) \/ ClaimFails(s)
  <2>1. /\ UNCHANGED <<sem, lost>>
        /\ spc[s] \notin {"fill", "commit", "post"} /\ spc'[s] \notin {"fill", "commit", "post"}
    BY <1>3, <1>10 DEF SendEnter, LoadMask, LoadTail, LoadHead, SendFull, ClaimFails,
                       SendReturns, ringVars, histVars
  <2> QED BY <1>7, <2>1 DEF Promised, Writing
<1>11. ASSUME s \in Promised(i), s \notin Promised(i)',
              sem'[i] + lost'[i] = sem[i] + lost[i] + 1
       PROVE  Covered(i)'
  <2>1. Promised(i)' = Promised(i) \ {s}
    BY <1>6, <1>11 DEF Promised
  <2>2. sem[i] + lost[i] + Taken(i) + 1 <= sem'[i] + lost'[i] + Taken(i)'
    BY <1>3, <1>4, <1>11
  <2> QED BY <1>1, <1>2, <1>11, <2>1, <2>2, PromiseKept
<1>12. CASE Post(s)
  <2>1. PICK j \in LowestOf(todo[s]) :
           /\ sem' = [sem EXCEPT ![j] = @ + 1]
           /\ \/ /\ todo[s] # {j}
                 /\ todo' = [todo EXCEPT ![s] = @ \ {j}]
                 /\ UNCHANGED <<spc, need, mask, oldTail, used, seq>>
              \/ todo[s] = {j} /\ SendReturns(s)
    BY <1>12 DEF Post
  <2>2. j \in todo[s] /\ j \in ReaderSlots /\ spc[s] = "post" /\ UNCHANGED lost
    BY <1>3, <1>12, <2>1 DEF LowestOf, Post, histVars
  <2>3. \/ spc'[s] = "post" /\ todo'[s] = todo[s] \ {j}
        \/ spc'[s] = "idle" /\ todo[s] = {j}
    BY <1>3, <2>1, <2>2 DEF SendReturns
  <2>4. CASE i = j
    <3>1. s \in Promised(i) /\ s \notin Promised(i)'
      BY <2>2, <2>3, <2>4 DEF Promised, Writing
    <3>2. sem'[i] + lost'[i] = sem[i] + lost[i] + 1
      BY <1>3, <2>1, <2>2, <2>4
    <3> QED BY <1>11, <3>1, <3>2
  <2>5. CASE i # j
    <3>1. s \in Promised(i)' <=> s \in Promised(i)
      BY <2>2, <2>3, <2>5 DEF Promised, Writing
    <3>2. sem'[i] = sem[i] /\ lost'[i] = lost[i] /\ Promised(i)' = Promised(i)
      <4>1. Promised(i)' = Promised(i)
        BY <1>6, <3>1 DEF Promised
      <4> QED BY <1>3, <2>1, <2>2, <2>5, <4>1
    <3> QED BY <1>1, <1>2, <1>3, <1>4, <3>2, CoveredStays
  <2> QED BY <2>4, <2>5
<1>13. CASE CrashSender(s)
  <2>1. /\ UNCHANGED sem /\ spc[s] \in {"fill", "commit", "post"} /\ spc'[s] = "idle"
        /\ lost'[i] = IF i \in (IF spc[s] = "post" THEN todo[s] ELSE mask[s])
                      THEN lost[i] + 1 ELSE lost[i]
    BY <1>3, <1>13 DEF CrashSender, SendReturns, ringVars
  <2>2. s \notin Promised(i)'
    BY <2>1 DEF Promised, Writing
  <2>3. CASE s \in Promised(i)
    <3>1. lost'[i] = lost[i] + 1
      BY <2>1, <2>3 DEF Promised, Writing
    <3> QED BY <1>3, <1>11, <2>1, <2>2, <2>3, <3>1
  <2>4. CASE s \notin Promised(i)
    <3>1. lost'[i] = lost[i]
      BY <2>1, <2>4 DEF Promised, Writing
    <3>2. Promised(i)' = Promised(i)
      BY <1>6, <2>2, <2>4 DEF Promised
    <3> QED BY <1>1, <1>2, <1>3, <1>4, <2>1, <3>1, <3>2, CoveredStays
  <2> QED BY <2>3, <2>4
<1> QED BY <1>8, <1>9, <1>10, <1>12, <1>13 DEF SendStep, SenderStep

\* Nothing else takes a token that it does not count as taken or lost.
LEMMA CoveredByOthers ==
    ASSUME WholeMasks, TokenInv, [Next]_vars, NEW i \in ReaderSlots,
           sem'[i] \in Nat, lost'[i] \in Nat,
           \/ \E j \in ReaderSlots : j # i /\ ReaderStep(j)
           \/ \E j \in ReaderSlots : ControlStep(j)
           \/ FlagStep \/ Alloc \/ UNCHANGED vars
    PROVE  Covered(i)'
<1>1. WindowInv /\ ChannelInv /\ Covered(i)
  BY DEF TokenInv, ChannelInv, SlotInv, TokensCover, Covered
<1>2. UNCHANGED <<tail, sndVars>>
  BY ReaderFrame, ControlFrame, FlagFrame, AllocFrame DEF vars, ringVars
<1>3. \A t \in Senders : ~Claim(t)
  <2>1. ASSUME NEW t \in Senders, Claim(t) PROVE FALSE
    <3>1. tail \in Pos /\ need[t] \in Nat /\ need[t] > 0 /\ tail' = tail + need[t]
      BY <1>1, <2>1, ClaimAtTail
    <3> QED BY <1>2, <3>1 DEF Pos
  <2> QED BY <2>1
<1>4. Promised(i)' = Promised(i)
  BY <1>2 DEF sndVars, Promised, Writing
<1>5. /\ sem \in [ReaderSlots -> Nat] /\ lost \in [ReaderSlots -> Nat]
      /\ rpc \in [ReaderSlots -> {"off", "idle", "wait", "loop", "copy"}]
  BY <1>1, TokenTypes, SlotTypes
<1>6. sem[i] + lost[i] + Taken(i) <= sem'[i] + lost'[i] + Taken(i)'
  <2>1. ASSUME NEW j \in ReaderSlots, j # i, ReaderStep(j)
        PROVE  sem'[i] = sem[i] /\ lost'[i] = lost[i] /\ Taken(i)' = Taken(i)
    <3>1. rpc'[i] = rpc[i]
      BY <1>1, <2>1, ReaderAdvances DEF WindowInv
    <3> QED BY <1>5, <2>1, <3>1
            DEF ReaderStep, RecvEnter, SemWait, SemWaitDisabled, RecvEmpty, FindCommitted,
                RecvTimeout, CopyFirst, CopyNext, SkipForeign, CopySlice, SkipSlice,
                ringVars, histVars, Taken
  <2>2. ASSUME NEW j \in ReaderSlots, ControlStep(j)
        PROVE  sem[i] + lost[i] + Taken(i) <= sem'[i] + lost'[i] + Taken(i)'
    <3>1. CASE Attach(j)
      BY <1>5, <3>1 DEF Attach, Taken, ringVars, histVars
    <3>2. CASE DropReader(j)
      BY <1>5, <3>2 DEF DropReader, FreeReaderSlot, Taken, rcvVars, histVars
    <3>3. CASE CrashReader(j)
      BY <1>5, <3>3 DEF CrashReader, Taken, ringVars
    <3> QED BY <2>2, <3>1, <3>2, <3>3 DEF ControlStep
  <2>3. ASSUME FlagStep PROVE sem[i] + lost[i] + Taken(i) <= sem'[i] + lost'[i] + Taken(i)'
    <3>1. sem[i] \in Nat /\ (sem'[i] = sem[i] \/ sem'[i] = sem[i] + 1)
      BY <1>5, <2>3
         DEF FlagStep, SetFlag, WakeupRecv, WakeupClear, WakeupMask, WakeupPost, ringVars
    <3>2. lost'[i] = lost[i] /\ lost[i] \in Nat /\ Taken(i)' = Taken(i) /\ Taken(i) \in Nat
      BY <1>5, <2>3, FlagFrame DEF Taken, rcvVars
    <3> QED BY <3>1, <3>2
  <2>4. ASSUME Alloc \/ UNCHANGED vars
        PROVE  sem'[i] = sem[i] /\ lost'[i] = lost[i] /\ Taken(i)' = Taken(i)
    BY <2>4, AllocFrame
       DEF Alloc, AllocLoad, AllocTail, AllocStore, AllocCas, AllocCasFails, vars, ringVars,
           rcvVars, histVars, Taken
  <2>5. Taken(i) \in {0, 1} /\ Taken(i)' \in {0, 1}
    BY DEF Taken
  <2> QED BY <1>5, <2>1, <2>2, <2>3, <2>4, <2>5
<1> QED BY <1>1, <1>3, <1>4, <1>6, CoveredStays

LEMMA TokenInvStep ==
    ASSUME WholeMasks, Timely, TokenInv, [Next]_vars
    PROVE  TokenInv'
<1>1. ChannelInv' /\ ClaimsCover' /\ SlicesInOrder'
  BY ChannelInvStep, ClaimsCoverStep, SlicesInOrderStep DEF TokenInv
<1>2. ASSUME NEW i \in ReaderSlots PROVE Covered(i)'
  <2>1. sem'[i] \in Nat /\ lost'[i] \in Nat
    BY <1>1 DEF ChannelInv, SlotInv, WindowInv, TypeInv, TypeOK, HeaderType, HistoryType
  <2>2. CASE \E s \in Senders : SendStep(s)
    BY <2>1, <2>2, CoveredByClaim, CoveredBySender
  <2>3. CASE ReaderStep(i)
    BY <2>1, <2>3, CoveredByReader
  <2> QED BY <2>1, <2>2, <2>3, StepCases, CoveredByOthers
<1> QED BY <1>1, <1>2 DEF TokenInv, TokensCover, Covered

\* On such a ring, with timely senders, a reader that sleeps while no send is under way
\* (the one of an inbox after any restarts of its process) has at most as many messages
\* unread as tokens were lost to crashes and disabled wake-ups: SleepersLagIsExplained,
\* of post_reader_sems and recv_impl.
THEOREM SleepersLagHasCauses ==
    ASSUME WholeMasks, Timely
    PROVE  Spec => []SleepersLagIsExplained
<1>1. TokenInv /\ [Next]_vars => TokenInv'
  BY TokenInvStep
<1>2. TokenInv => SleepersLagIsExplained
  <2> SUFFICES ASSUME TokenInv, NEW i \in ReaderSlots, rpc[i] = "wait", sem[i] = 0,
                      \A s \in Senders : spc[s] \notin {"fill", "commit", "post"}
               PROVE  Cardinality(Unread(i)) <= lost[i]
    BY DEF SleepersLagIsExplained
  <2>1. WindowInv /\ ChannelInv
    BY DEF TokenInv, ChannelInv, SlotInv
  <2>2. Promised(i) = {} /\ Taken(i) = 0
    BY DEF Promised, Writing, Taken
  <2>3. Cardinality(Promised(i)) = 0
    BY <2>2, FS_EmptySet
  <2>4. /\ Cardinality(Behind(i)) <= sem[i] + lost[i] + Cardinality(Promised(i)) + Taken(i)
        /\ lost[i] \in Nat /\ IsFiniteSet(Behind(i))
    BY <2>1, TokenTypes DEF TokenInv, TokensCover
  <2>5. Unread(i) \subseteq Behind(i)
    <3>1. readerHead[i] = head[i] /\ head[i] \in Nat
      BY <2>1, SlotTypes
    <3>2. \A b \in Accepted : b \in Nat /\ msgLen[b] \in Nat
      BY <2>1, ChannelTypes DEF Accepted
    <3>3. Unread(i) \subseteq Accepted
      BY DEF Unread, Accepted
    <3> QED BY <3>1, <3>2, <3>3 DEF Unread, Behind
  <2>6. /\ Cardinality(Unread(i)) \in Nat /\ Cardinality(Behind(i)) \in Nat
        /\ Cardinality(Unread(i)) <= Cardinality(Behind(i))
    BY <2>4, <2>5, CountKept
  <2> QED BY <2>2, <2>3, <2>4, <2>6
<1> QED BY <1>1, <1>2, TokenInvInit, PTL DEF Spec
=============================================================================
