------------------------ MODULE LockFreeQueueProofs ------------------------
(***************************************************************************)
(* The queue with one consumer, which is how a MessageThread uses it, for  *)
(* any number of producers and any capacity: the type invariant, that no   *)
(* node is used by two threads, and that the queue implements TaskQueue.   *)
(***************************************************************************)
EXTENDS LockFreeQueue, DataLemmas

\* A producer between its claim and its commit; a consumer that has claimed.
Holds(p) == ppc[p] \in {"wait", "write", "commit"}
Takes(c) == cpc[c] \in {"move", "clear"}

\* Claims are inside the window, each of one producer; one that has passed the
\* test for room keeps the room, since the consumer only makes more.
Claims ==
    /\ \A p \in Producers :
          /\ pTail[p] <= mTail
          /\ ppc[p] = "cas" => pTail[p] - mHead < Capacity
          /\ Holds(p) => mHead <= pTail[p] /\ pTail[p] < mTail
    /\ \A p, q \in Producers :
          p # q /\ Holds(p) /\ Holds(q) => pTail[p] # pTail[q]

\* The one consumer alone moves m_head, so its local head stays the true one.
ConsumerHead ==
    \A c \in Consumers :
        /\ cpc[c] \in {"tail", "check", "cas"} => cHead[c] = mHead
        /\ cpc[c] \in {"check", "cas"} => mHead < mTail
        /\ Takes(c) => cHead[c] < mHead

\* The committed flag: raised where the consumer works; a producer finds it raised
\* only where the consumer of the lap before is not done; nodes outside the window
\* have it down.
Flags ==
    /\ \A c \in Consumers :
          cpc[c] \in {"cas", "move", "clear"} => committed[Idx(cHead[c])]
    /\ \A p \in Producers :
          Holds(p) /\ committed[Idx(pTail[p])] =>
              /\ ppc[p] = "wait"
              /\ \E c \in Consumers : Takes(c) /\ Idx(cHead[c]) = Idx(pTail[p])
    /\ \A j \in Node :
          committed[j] => \/ \E q \in mHead .. mTail - 1 : Idx(q) = j
                          \/ \E c \in Consumers : Takes(c) /\ Idx(cHead[c]) = j

\* Whoever writes a node is alone on it.
Apart ==
    \A p \in Producers, c \in Consumers :
        ppc[p] \in {"write", "commit"} /\ Takes(c) => Idx(pTail[p]) # Idx(cHead[c])

\* A node holds the item of its position from the write until it is taken out.
Stored ==
    /\ \A q \in mHead .. mTail - 1 :
          (\A p \in Producers : Holds(p) => pTail[p] # q) => data[Idx(q)] = q
    /\ \A p \in Producers : ppc[p] = "commit" => data[Idx(pTail[p])] = pTail[p]
    /\ \A c \in Consumers : cpc[c] = "move" => data[Idx(cHead[c])] = cHead[c]

QueueInv ==
    /\ TypeOK
    /\ Claims
    /\ ConsumerHead
    /\ Flags
    /\ Apart
    /\ Stored

-----------------------------------------------------------------------------
(* The index of a position: a remainder, so close positions do not meet. *)

LEMMA IdxIsNode ==
    ASSUME NEW a \in Nat
    PROVE  Idx(a) \in Node
  BY CapacityAssumption, DivMod DEF Idx, Node

LEMMA IdxApart ==
    ASSUME NEW a \in Nat, NEW b \in Nat, a # b,
           NEW h \in Nat, h <= a, h <= b, a < h + Capacity, b < h + Capacity
    PROVE  Idx(a) # Idx(b)
  BY CapacityAssumption, ModApart DEF Idx

\* Two positions of the window, or of the window and its end while there is room,
\* have nodes of their own; so have any two claims.
LEMMA WindowApart ==
    ASSUME TypeOK
    PROVE  /\ \A a, b \in mHead .. mTail - 1 : a # b => Idx(a) # Idx(b)
           /\ mTail - mHead < Capacity =>
                  \A a \in mHead .. mTail - 1 : Idx(a) # Idx(mTail)
           /\ \A a \in Position : Idx(a) \in Node
  <1>1. mHead \in Nat /\ mTail \in Nat /\ mTail <= mHead + Capacity /\ Capacity \in Nat
    BY CapacityAssumption, MaxPushAssumption DEF TypeOK, Position
  <1>2. ASSUME NEW a \in mHead .. mTail - 1, NEW b \in mHead .. mTail - 1, a # b
        PROVE  Idx(a) # Idx(b)
    <2>1. /\ a \in Nat /\ mHead <= a /\ a < mHead + Capacity
          /\ b \in Nat /\ mHead <= b /\ b < mHead + Capacity
      BY <1>1
    <2>2. QED
      BY <1>1, <1>2, <2>1, IdxApart
  <1>3. ASSUME NEW a \in mHead .. mTail - 1, mTail - mHead < Capacity
        PROVE  Idx(a) # Idx(mTail)
    <2>1. /\ a \in Nat /\ mHead <= a /\ a < mHead + Capacity /\ a # mTail
          /\ mHead <= mTail /\ mTail < mHead + Capacity
      BY <1>1, <1>3
    <2>2. QED
      BY <1>1, <2>1, IdxApart
  <1>4. ASSUME NEW a \in Position PROVE Idx(a) \in Node
    BY IdxIsNode, MaxPushAssumption DEF Position
  <1>5. QED
    BY <1>2, <1>3, <1>4

LEMMA HoldersApart ==
    ASSUME TypeOK, Claims, NEW p \in Producers, NEW q \in Producers,
           p # q, Holds(p), Holds(q)
    PROVE  Idx(pTail[p]) # Idx(pTail[q])
  <1>1. pTail[p] \in mHead .. mTail - 1 /\ pTail[q] \in mHead .. mTail - 1
    BY MaxPushAssumption DEF TypeOK, Claims, Position
  <1>2. pTail[p] # pTail[q]
    BY DEF Claims
  <1>3. QED
    BY <1>1, <1>2, WindowApart

LEMMA PushLoadTailKeeps ==
    ASSUME QueueInv, NEW p \in Producers, PushLoadTail(p)
    PROVE  QueueInv'
  <1> USE CapacityAssumption, MaxPushAssumption
          DEF PushLoadTail, QueueInv, Position, nodeVars, prodVars, consVars, Holds, Takes
  <1>1. TypeOK'
    BY DEF TypeOK
  <1>2. Claims'
    BY DEF TypeOK, Claims
  <1>3. ConsumerHead'
    BY DEF ConsumerHead
  <1>4. Flags'
    BY DEF TypeOK, Flags
  <1>5. Apart'
    BY DEF TypeOK, Apart
  <1>6. Stored'
    BY DEF TypeOK, Stored
  <1>7. QED
    BY <1>1, <1>2, <1>3, <1>4, <1>5, <1>6

LEMMA PushLoadHeadKeeps ==
    ASSUME QueueInv, NEW p \in Producers, PushLoadHead(p)
    PROVE  QueueInv'
  <1> USE CapacityAssumption, MaxPushAssumption
          DEF PushLoadHead, QueueInv, Position, nodeVars, prodVars, consVars, Holds, Takes
  <1>1. TypeOK'
    BY DEF TypeOK
  <1>2. Claims'
    BY DEF TypeOK, Claims, Full
  <1>3. ConsumerHead'
    BY DEF ConsumerHead
  <1>4. Flags'
    BY DEF TypeOK, Flags
  <1>5. Apart'
    BY DEF TypeOK, Apart
  <1>6. Stored'
    BY DEF TypeOK, Stored
  <1>7. QED
    BY <1>1, <1>2, <1>3, <1>4, <1>5, <1>6

LEMMA PushCasKeeps ==
    ASSUME QueueInv, NEW p \in Producers, PushCas(p)
    PROVE  QueueInv'
  <1> USE CapacityAssumption, MaxPushAssumption
          DEF PushCas, QueueInv, Position, nodeVars, prodVars, consVars, Holds, Takes
  <1>1. TypeOK'
    BY DEF TypeOK, Claims
  <1>2. Claims'
    BY DEF TypeOK, Claims
  <1>3. ConsumerHead'
    BY DEF TypeOK, ConsumerHead
  <1>4. Flags'
    BY WindowApart DEF TypeOK, Claims, Flags
  <1>5. Apart'
    BY DEF TypeOK, Apart
  <1>6. Stored'
    BY DEF TypeOK, Stored
  <1>7. QED
    BY <1>1, <1>2, <1>3, <1>4, <1>5, <1>6

LEMMA PushCasFailsKeeps ==
    ASSUME QueueInv, NEW p \in Producers, PushCasFails(p)
    PROVE  QueueInv'
  <1> USE CapacityAssumption, MaxPushAssumption
          DEF PushCasFails, QueueInv, Position, nodeVars, prodVars, consVars, Holds, Takes
  <1>1. TypeOK'
    BY DEF TypeOK
  <1>2. Claims'
    BY DEF TypeOK, Claims
  <1>3. ConsumerHead'
    BY DEF ConsumerHead
  <1>4. Flags'
    BY DEF TypeOK, Flags
  <1>5. Apart'
    BY DEF TypeOK, Apart
  <1>6. Stored'
    BY DEF TypeOK, Stored
  <1>7. QED
    BY <1>1, <1>2, <1>3, <1>4, <1>5, <1>6

LEMMA WaitSlotWritableKeeps ==
    ASSUME QueueInv, NEW p \in Producers, WaitSlotWritable(p)
    PROVE  QueueInv'
  <1> USE CapacityAssumption, MaxPushAssumption
          DEF WaitSlotWritable, QueueInv, Position, nodeVars, prodVars, consVars, Holds, Takes
  <1>1. TypeOK'
    BY DEF TypeOK
  <1>2. Claims'
    BY DEF TypeOK, Claims
  <1>3. ConsumerHead'
    BY DEF ConsumerHead
  <1>4. Flags'
    BY DEF TypeOK, Flags
  <1>5. Apart'
    BY DEF TypeOK, Flags, Apart
  <1>6. Stored'
    BY DEF TypeOK, Stored
  <1>7. QED
    BY <1>1, <1>2, <1>3, <1>4, <1>5, <1>6

LEMMA PushWriteKeeps ==
    ASSUME QueueInv, NEW p \in Producers, PushWrite(p)
    PROVE  QueueInv'
  <1> USE CapacityAssumption, MaxPushAssumption
          DEF PushWrite, QueueInv, Position, nodeVars, prodVars, consVars, Holds, Takes
  <1>1. TypeOK'
    BY DEF TypeOK
  <1>2. Claims'
    BY DEF TypeOK, Claims
  <1>3. ConsumerHead'
    BY DEF ConsumerHead
  <1>4. Flags'
    BY DEF TypeOK, Flags
  <1>5. Apart'
    BY DEF TypeOK, Apart
  <1>6. Stored'
    BY WindowApart DEF TypeOK, Claims, Flags, Stored
  <1>7. QED
    BY <1>1, <1>2, <1>3, <1>4, <1>5, <1>6

LEMMA PushCommitKeeps ==
    ASSUME QueueInv, NEW p \in Producers, PushCommit(p)
    PROVE  QueueInv'
  <1> USE CapacityAssumption, MaxPushAssumption
          DEF PushCommit, QueueInv, Position, nodeVars, prodVars, consVars, Holds, Takes
  <1>1. TypeOK'
    BY DEF TypeOK
  <1>2. Claims'
    BY DEF TypeOK, Claims
  <1>3. ConsumerHead'
    BY DEF ConsumerHead
  <1>4. Flags'
    BY WindowApart DEF TypeOK, Claims, Flags
  <1>5. Apart'
    BY DEF TypeOK, Apart
  <1>6. Stored'
    BY DEF TypeOK, Stored
  <1>7. QED
    BY <1>1, <1>2, <1>3, <1>4, <1>5, <1>6

LEMMA PopLoadHeadKeeps ==
    ASSUME QueueInv, NEW c \in Consumers, PopLoadHead(c), Consumers = {c}
    PROVE  QueueInv'
  <1> USE CapacityAssumption, MaxPushAssumption
          DEF PopLoadHead, QueueInv, Position, nodeVars, prodVars, consVars, Holds, Takes
  <1>1. TypeOK'
    BY DEF TypeOK
  <1>2. Claims'
    BY DEF Claims
  <1>3. ConsumerHead'
    BY DEF TypeOK, ConsumerHead
  <1>4. Flags'
    BY DEF TypeOK, Flags
  <1>5. Apart'
    BY DEF TypeOK, Apart
  <1>6. Stored'
    BY DEF TypeOK, Stored
  <1>7. QED
    BY <1>1, <1>2, <1>3, <1>4, <1>5, <1>6

LEMMA PopLoadTailKeeps ==
    ASSUME QueueInv, NEW c \in Consumers, PopLoadTail(c), Consumers = {c}
    PROVE  QueueInv'
  <1> USE CapacityAssumption, MaxPushAssumption
          DEF PopLoadTail, QueueInv, Position, nodeVars, prodVars, consVars, Holds, Takes
  <1>1. TypeOK'
    BY DEF TypeOK
  <1>2. Claims'
    BY DEF Claims
  <1>3. ConsumerHead'
    BY WindowApart DEF TypeOK, ConsumerHead
  <1>4. Flags'
    BY DEF TypeOK, Flags
  <1>5. Apart'
    BY DEF TypeOK, Apart
  <1>6. Stored'
    BY DEF TypeOK, Stored
  <1>7. QED
    BY <1>1, <1>2, <1>3, <1>4, <1>5, <1>6

LEMMA PopCheckKeeps ==
    ASSUME QueueInv, NEW c \in Consumers, PopCheck(c), Consumers = {c}
    PROVE  QueueInv'
  <1> USE CapacityAssumption, MaxPushAssumption
          DEF PopCheck, QueueInv, Position, nodeVars, prodVars, consVars, Holds, Takes
  <1>1. TypeOK'
    BY DEF TypeOK
  <1>2. Claims'
    BY DEF Claims
  <1>3. ConsumerHead'
    BY DEF TypeOK, ConsumerHead
  <1>4. Flags'
    BY DEF TypeOK, Flags
  <1>5. Apart'
    BY DEF TypeOK, Apart
  <1>6. Stored'
    BY DEF TypeOK, Stored
  <1>7. QED
    BY <1>1, <1>2, <1>3, <1>4, <1>5, <1>6

LEMMA PopCasKeeps ==
    ASSUME QueueInv, NEW c \in Consumers, PopCas(c), Consumers = {c}
    PROVE  QueueInv'
  <1> USE CapacityAssumption, MaxPushAssumption
          DEF PopCas, QueueInv, Position, nodeVars, prodVars, consVars, Holds, Takes
  <1>1. TypeOK'
    BY DEF TypeOK, ConsumerHead
  <1>2. Claims'
    BY DEF TypeOK, Claims, Flags
  <1>3. ConsumerHead'
    BY DEF TypeOK, ConsumerHead
  <1>4. Flags'
    BY DEF TypeOK, Flags
  <1>5. Apart'
    BY DEF TypeOK, Flags, Apart
  <1>6. Stored'
    BY DEF TypeOK, ConsumerHead, Flags, Stored
  <1>7. QED
    BY <1>1, <1>2, <1>3, <1>4, <1>5, <1>6

LEMMA PopCasFailsKeeps ==
    ASSUME QueueInv, NEW c \in Consumers, PopCasFails(c), Consumers = {c}
    PROVE  QueueInv'
  <1> USE CapacityAssumption, MaxPushAssumption
          DEF PopCasFails, QueueInv, Position, nodeVars, prodVars, consVars, Holds, Takes
  <1>1. TypeOK'
    BY DEF TypeOK
  <1>2. Claims'
    BY DEF Claims
  <1>3. ConsumerHead'
    BY DEF TypeOK, ConsumerHead
  <1>4. Flags'
    BY DEF TypeOK, Flags
  <1>5. Apart'
    BY DEF TypeOK, Apart
  <1>6. Stored'
    BY DEF TypeOK, Stored
  <1>7. QED
    BY <1>1, <1>2, <1>3, <1>4, <1>5, <1>6

LEMMA PopMoveKeeps ==
    ASSUME QueueInv, NEW c \in Consumers, PopMove(c), Consumers = {c}
    PROVE  QueueInv'
  <1> USE CapacityAssumption, MaxPushAssumption
          DEF PopMove, QueueInv, Position, nodeVars, prodVars, consVars, Holds, Takes
  <1>1. TypeOK'
    BY WindowApart DEF TypeOK
  <1>2. Claims'
    BY DEF Claims
  <1>3. ConsumerHead'
    BY DEF TypeOK, ConsumerHead
  <1>4. Flags'
    BY DEF TypeOK, Flags
  <1>5. Apart'
    BY DEF TypeOK, Apart
  <1>6. Stored'
    BY DEF TypeOK, Stored
  <1>7. QED
    BY <1>1, <1>2, <1>3, <1>4, <1>5, <1>6

LEMMA PopClearKeeps ==
    ASSUME QueueInv, NEW c \in Consumers, PopClear(c), Consumers = {c}
    PROVE  QueueInv'
  <1> USE CapacityAssumption, MaxPushAssumption
          DEF PopClear, QueueInv, Position, nodeVars, prodVars, consVars, Holds, Takes
  <1>1. TypeOK'
    BY DEF TypeOK
  <1>2. Claims'
    BY DEF Claims
  <1>3. ConsumerHead'
    BY DEF TypeOK, ConsumerHead
  <1>4. Flags'
    BY WindowApart DEF TypeOK, Flags
  <1>5. Apart'
    BY DEF TypeOK, Apart
  <1>6. Stored'
    BY DEF TypeOK, Stored
  <1>7. QED
    BY <1>1, <1>2, <1>3, <1>4, <1>5, <1>6

-----------------------------------------------------------------------------
(* One consumer: every step keeps the invariant. *)

LEMMA InitQueue == Init => QueueInv
  BY CapacityAssumption, MaxPushAssumption
     DEF Init, QueueInv, TypeOK, Claims, ConsumerHead, Flags, Apart, Stored, Holds, Takes,
         Position

LEMMA NextKeeps ==
    ASSUME NEW c, Consumers = {c}, QueueInv, [Next]_vars
    PROVE  QueueInv'
  <1>1. ASSUME NEW p \in Producers,
               PushLoadTail(p) \/ PushLoadHead(p) \/ PushCas(p) \/ PushCasFails(p)
                  \/ PushGoesOn(p)
        PROVE  QueueInv'
    BY <1>1, PushLoadTailKeeps, PushLoadHeadKeeps, PushCasKeeps, PushCasFailsKeeps,
       WaitSlotWritableKeeps, PushWriteKeeps, PushCommitKeeps DEF PushGoesOn
  <1>2. CASE Pop(c)
    BY <1>2, PopLoadHeadKeeps, PopLoadTailKeeps, PopCheckKeeps, PopCasKeeps,
       PopCasFailsKeeps, PopMoveKeeps, PopClearKeeps DEF Pop
  <1>3. CASE UNCHANGED vars
    BY <1>3 DEF vars, nodeVars, prodVars, consVars, QueueInv, TypeOK, Claims,
                ConsumerHead, Flags, Apart, Stored, Holds, Takes
  <1>4. QED
    BY <1>1, <1>2, <1>3 DEF Next

LEMMA QueueIsSafe ==
    ASSUME NEW c, Consumers = {c}
    PROVE  Spec => []QueueInv
  <1>1. QueueInv /\ [Next]_vars => QueueInv'
    BY NextKeeps
  <1>2. QED
    BY <1>1, InitQueue, PTL DEF Spec

-----------------------------------------------------------------------------

\* The variables keep their types and no more than m_capacity items are inside, for
\* any number of producers that test for room with a stale head (LockFreeQueue.inl:78).
THEOREM TypeCorrect ==
    ASSUME NEW c, Consumers = {c}
    PROVE  Spec => []TypeOK
  <1>1. QueueInv => TypeOK
    BY DEF QueueInv
  <1>2. QED
    BY <1>1, QueueIsSafe, PTL

\* No two producers write one node, and none writes a node that the consumer is
\* still moving the item of the lap before out of (waitSlotWritable).
THEOREM NodesAreExclusive ==
    ASSUME NEW c, Consumers = {c}
    PROVE  Spec => []NodeExclusive
  <1>1. QueueInv => NodeExclusive
    BY HoldersApart DEF QueueInv, NodeExclusive, Holds, Apart, Takes
  <1>2. QED
    BY <1>1, QueueIsSafe, PTL

-----------------------------------------------------------------------------
(* The refinement: push enters its item when it claims, pop takes it when it does. *)

Inside == [k \in 1 .. mTail - mHead |-> mHead + k - 1]
Hand == [c \in Consumers |-> IF cpc[c] = "move" THEN cHead[c] ELSE item[c]]

\* The queue between two positions: one more at the end, one less at the front.
Between(h, t) == [k \in 1 .. t - h |-> h + k - 1]

LEMMA BetweenIsQueue ==
    ASSUME NEW h \in Nat, NEW t \in Nat, h <= t
    PROVE  /\ Between(h, t) \in Seq(Nat)
           /\ Len(Between(h, t)) = t - h
           /\ Append(Between(h, t), t) = Between(h, t + 1)
           /\ h < t => /\ Between(h, t) # <<>>
                       /\ Head(Between(h, t)) = h
                       /\ Tail(Between(h, t)) = Between(h + 1, t)
  <1>1. Between(h, t) \in Seq(Nat) /\ Len(Between(h, t)) = t - h
    BY DEF Between
  <1>2. Append(Between(h, t), t) = Between(h, t + 1)
    <2>1. /\ Between(h, t + 1) \in Seq(Nat) /\ Len(Between(h, t + 1)) = t - h + 1
          /\ Append(Between(h, t), t) \in Seq(Nat)
          /\ Len(Append(Between(h, t), t)) = t - h + 1
      BY <1>1 DEF Between
    <2>2. ASSUME NEW k \in 1 .. t - h + 1
          PROVE  Append(Between(h, t), t)[k] = Between(h, t + 1)[k]
      BY <1>1 DEF Between
    <2>3. QED
      BY <2>1, <2>2
  <1>3. ASSUME h < t
        PROVE  /\ Between(h, t) # <<>>
               /\ Head(Between(h, t)) = h
               /\ Tail(Between(h, t)) = Between(h + 1, t)
    <2>1. Between(h, t) # <<>> /\ Head(Between(h, t)) = h
      BY <1>1, <1>3 DEF Between
    <2>2. /\ Between(h + 1, t) \in Seq(Nat) /\ Len(Between(h + 1, t)) = t - h - 1
          /\ Tail(Between(h, t)) \in Seq(Nat) /\ Len(Tail(Between(h, t))) = t - h - 1
      BY <1>1, <1>3, <2>1 DEF Between
    <2>3. ASSUME NEW k \in 1 .. t - h - 1
          PROVE  Tail(Between(h, t))[k] = Between(h + 1, t)[k]
      BY <1>1, <1>3, <2>1 DEF Between
    <2>4. Tail(Between(h, t)) = Between(h + 1, t)
      <3> DEFINE a == Tail(Between(h, t))
                 b == Between(h + 1, t)
      <3>1. a \in Seq(Nat) /\ b \in Seq(Nat) /\ Len(a) = Len(b)
        BY <2>2
      <3>2. \A k \in 1 .. Len(a) : a[k] = b[k]
        BY <2>2, <2>3
      <3> HIDE DEF a, b
      <3>3. a = b
        BY <3>1, <3>2
      <3>4. QED
        BY <3>3 DEF a, b
    <2>5. QED
      BY <2>1, <2>4
  <1>4. QED
    BY <1>1, <1>2, <1>3

LEMMA StepIsTask ==
    ASSUME NEW c, Consumers = {c}, QueueInv, [Next]_vars
    PROVE  [Tasks!Next]_(Tasks!queueVars)
  <1> DEFINE inside == Between(mHead, mTail)
  <1>1. /\ mHead \in Nat /\ mTail \in Nat /\ mHead <= mTail /\ mTail \in Position
    BY CapacityAssumption, MaxPushAssumption DEF QueueInv, TypeOK, Position
  <1>2. Inside = inside /\ Inside' = Between(mHead', mTail')
    BY DEF Inside, Between
  <1>3. ASSUME Inside' = Inside, Hand' = Hand
        PROVE  UNCHANGED Tasks!queueVars
    BY <1>3 DEF Tasks!queueVars, Inside, Hand
  <1>4. ASSUME NEW p \in Producers, PushCas(p)
        PROVE  Tasks!Next
    <2>1. Len(Inside) < Capacity
      BY <1>1, <1>2, <1>4, BetweenIsQueue DEF PushCas, QueueInv, Claims
    <2>2. Inside' = Append(Inside, mTail)
      BY <1>1, <1>2, <1>4, BetweenIsQueue DEF PushCas
    <2>3. Hand' = Hand
      BY <1>4 DEF PushCas, Hand, consVars
    <2>4. PICK x \in Position : x = mTail
      BY <1>1
    <2>5. Tasks!Enqueue(x)
      BY <2>1, <2>2, <2>3, <2>4 DEF Tasks!Enqueue, Inside, Hand
    <2>6. QED
      BY <2>5 DEF Tasks!Next
  <1>5. ASSUME NEW p \in Producers,
               PushLoadTail(p) \/ PushLoadHead(p) \/ PushCasFails(p) \/ PushGoesOn(p)
        PROVE  UNCHANGED Tasks!queueVars
    <2>1. UNCHANGED <<mHead, mTail, cpc, cHead, item>>
      BY <1>5 DEF PushLoadTail, PushLoadHead, PushCasFails, PushGoesOn,
                  WaitSlotWritable, PushWrite, PushCommit, consVars
    <2>2. QED
      BY <2>1, <1>3 DEF Inside, Hand
  <1>6. CASE PopCas(c)
    <2>1. mHead < mTail /\ cHead[c] = mHead
      BY <1>6 DEF PopCas, QueueInv, ConsumerHead
    <2>2. Inside # <<>> /\ Head(Inside) = mHead /\ Inside' = Tail(Inside)
      BY <1>1, <1>2, <1>6, <2>1, BetweenIsQueue DEF PopCas
    <2>3. Hand' = [Hand EXCEPT ![c] = Head(Inside)]
      BY <1>6, <2>1, <2>2 DEF PopCas, Hand, QueueInv, TypeOK
    <2>4. Tasks!Dequeue(c)
      BY <2>2, <2>3 DEF Tasks!Dequeue, Inside, Hand
    <2>5. QED
      BY <2>4 DEF Tasks!Next
  <1>7. CASE PopMove(c)
    <2>1. item' = [item EXCEPT ![c] = cHead[c]]
      BY <1>7 DEF PopMove, QueueInv, Stored
    <2>2. Hand' = Hand
      BY <1>7, <2>1 DEF PopMove, Hand, QueueInv, TypeOK
    <2>3. Inside' = Inside
      BY <1>7 DEF PopMove, Inside
    <2>4. QED
      BY <1>3, <2>2, <2>3
  <1>8. CASE \/ PopLoadHead(c) \/ PopLoadTail(c) \/ PopCheck(c)
             \/ PopCasFails(c) \/ PopClear(c)
    <2>1. /\ UNCHANGED <<mHead, mTail, item>>
          /\ cpc[c] # "move" /\ cpc'[c] # "move"
      BY <1>8 DEF PopLoadHead, PopLoadTail, PopCheck, PopCasFails, PopClear, nodeVars,
                  QueueInv, TypeOK
    <2>2. QED
      BY <1>3, <2>1 DEF Inside, Hand
  <1>9. CASE UNCHANGED vars
    BY <1>3, <1>9 DEF vars, consVars, Inside, Hand
  <1>10. CASE Pop(c)
    BY <1>6, <1>7, <1>8, <1>10 DEF Pop
  <1>11. (\E d \in Consumers : Pop(d)) => Pop(c)
    OBVIOUS
  <1>12. CASE Next
    <2>1. CASE \E p \in Producers : \/ PushLoadTail(p) \/ PushLoadHead(p)
                                     \/ PushCas(p) \/ PushCasFails(p)
                                     \/ PushGoesOn(p)
      BY <1>4, <1>5, <2>1
    <2>2. QED
      BY <1>10, <1>11, <1>12, <2>1 DEF Next
  <1>13. QED
    BY <1>9, <1>12

\* What the consumer takes is what was pushed, once, whole and in the order of the
\* claims, in a queue of m_capacity: for any number of producers, LockFreeQueue
\* implements TaskQueue.
THEOREM QueueImplementsTasks ==
    ASSUME NEW c, Consumers = {c}
    PROVE  Spec => ImplementsTaskQueue
  <1>1. Init => Tasks!Init
    BY DEF Init, Tasks!Init
  <1>2. QueueInv /\ [Next]_vars => [Tasks!Next]_(Tasks!queueVars)
    BY StepIsTask
  <1>3. QED
    BY <1>1, <1>2, QueueIsSafe, PTL DEF Spec, ImplementsTaskQueue, Tasks!Spec
=============================================================================
