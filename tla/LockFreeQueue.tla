--------------------------- MODULE LockFreeQueue ---------------------------
(***************************************************************************)
(* model/LockFreeQueue.inl: the task queue behind EpollControl::post.  A   *)
(* producer claims a position with a compare-and-swap on m_tail, waits for *)
(* the node's committed flag to fall, writes, raises the flag; a consumer  *)
(* waits for the flag of the node at m_head, claims it with a              *)
(* compare-and-swap on m_head, moves the item out, lowers the flag.  Both  *)
(* overloads of push take the same steps.                                  *)
(*                                                                         *)
(* One action is one atomic access, or the plain write or move of m_data.  *)
(* An item is named by the position it is claimed for.  Positions are      *)
(* size_t; MaxPush keeps them below their wrap.                            *)
(***************************************************************************)
EXTENDS Integers, Sequences

CONSTANTS
    Producers, Consumers,
    Capacity,     \* m_capacity, a power of two
    MaxPush       \* bound: how many pushes succeed

Nothing == -1

ASSUME CapacityAssumption == Capacity \in Nat \ {0}
ASSUME MaxPushAssumption == MaxPush \in Nat

VARIABLES
    mHead, mTail,         \* m_head, m_tail
    data, committed,      \* m_data and m_committed of each node
    ppc, pTail,           \* push: program counter, the local tail
    cpc, cHead, item      \* pop: program counter, the local head, the result

nodeVars == <<data, committed>>
prodVars == <<ppc, pTail>>
consVars == <<cpc, cHead, item>>
vars == <<mHead, mTail, nodeVars, prodVars, consVars>>

Position == 0 .. MaxPush
Node == 0 .. Capacity - 1

Idx(q) == q % Capacity          \* q & m_mask, the capacity being a power of two

\* Mutant of Full: one item more than there are nodes.
FullOneLate(t, h) == t < h \/ t - h > Capacity

\* ((tail - head) & ~m_mask) != 0: in size_t a tail behind the head counts
\* as a difference beyond every capacity.
Full(t, h) == t < h \/ t - h >= Capacity

Init ==
    /\ mHead = 0
    /\ mTail = 0
    /\ data = [j \in Node |-> Nothing]
    /\ committed = [j \in Node |-> FALSE]
    /\ ppc = [p \in Producers |-> "idle"]
    /\ pTail = [p \in Producers |-> 0]
    /\ cpc = [c \in Consumers |-> "idle"]
    /\ cHead = [c \in Consumers |-> 0]
    /\ item = [c \in Consumers |-> Nothing]

-----------------------------------------------------------------------------
(* push *)

PushLoadTail(p) ==
    /\ ppc[p] = "idle"
    /\ ppc' = [ppc EXCEPT ![p] = "head"]
    /\ pTail' = [pTail EXCEPT ![p] = mTail]
    /\ UNCHANGED <<mHead, mTail, nodeVars, consVars>>

\* Load m_head; the queue is full as far as this producer can tell, or not.
PushLoadHead(p) ==
    /\ ppc[p] = "head"
    /\ \/ /\ Full(pTail[p], mHead)
          /\ ppc' = [ppc EXCEPT ![p] = "idle"]
       \/ /\ ~Full(pTail[p], mHead)
          /\ ppc' = [ppc EXCEPT ![p] = "cas"]
    /\ UNCHANGED <<mHead, mTail, nodeVars, pTail, consVars>>

PushCas(p) ==
    /\ ppc[p] = "cas"
    /\ mTail = pTail[p]
    /\ mTail < MaxPush
    /\ mTail' = mTail + 1
    /\ ppc' = [ppc EXCEPT ![p] = "wait"]
    /\ UNCHANGED <<mHead, nodeVars, pTail, consVars>>

\* A failed compare-and-swap (the weak form may fail for nothing) reloads tail.
PushCasFails(p) ==
    /\ ppc[p] = "cas"
    /\ pTail' = [pTail EXCEPT ![p] = mTail]
    /\ ppc' = [ppc EXCEPT ![p] = "head"]
    /\ UNCHANGED <<mHead, mTail, nodeVars, consVars>>

\* Mutant of WaitSlotWritable: the node is written without waiting.
WriteAtOnce(p) ==
    /\ ppc[p] = "wait"
    /\ ppc' = [ppc EXCEPT ![p] = "write"]
    /\ UNCHANGED <<mHead, mTail, nodeVars, pTail, consVars>>

\* waitSlotWritable: the consumer of the lap before may still be moving out.
WaitSlotWritable(p) ==
    /\ ppc[p] = "wait"
    /\ ~committed[Idx(pTail[p])]
    /\ ppc' = [ppc EXCEPT ![p] = "write"]
    /\ UNCHANGED <<mHead, mTail, nodeVars, pTail, consVars>>

PushWrite(p) ==
    /\ ppc[p] = "write"
    /\ data' = [data EXCEPT ![Idx(pTail[p])] = pTail[p]]
    /\ ppc' = [ppc EXCEPT ![p] = "commit"]
    /\ UNCHANGED <<mHead, mTail, committed, pTail, consVars>>

PushCommit(p) ==
    /\ ppc[p] = "commit"
    /\ committed' = [committed EXCEPT ![Idx(pTail[p])] = TRUE]
    /\ ppc' = [ppc EXCEPT ![p] = "idle"]
    /\ UNCHANGED <<mHead, mTail, data, pTail, consVars>>

-----------------------------------------------------------------------------
(* pop *)

PopLoadHead(c) ==
    /\ cpc[c] = "idle"
    /\ cpc' = [cpc EXCEPT ![c] = "tail"]
    /\ cHead' = [cHead EXCEPT ![c] = mHead]
    /\ UNCHANGED <<mHead, mTail, nodeVars, prodVars, item>>

\* Load m_tail; equal to the local head it means empty, and pop returns false.
PopLoadTail(c) ==
    /\ cpc[c] = "tail"
    /\ cpc' = [cpc EXCEPT ![c] = IF cHead[c] = mTail THEN "idle" ELSE "check"]
    /\ UNCHANGED <<mHead, mTail, nodeVars, prodVars, cHead, item>>

\* Mutant of PopCheck: a claimed position is taken for a written one.
PopUnchecked(c) ==
    /\ cpc[c] = "check"
    /\ cpc' = [cpc EXCEPT ![c] = "cas"]
    /\ UNCHANGED <<mHead, mTail, nodeVars, prodVars, cHead, item>>

\* Not committed yet: around the loop with the same local head.
PopCheck(c) ==
    /\ cpc[c] = "check"
    /\ cpc' = [cpc EXCEPT ![c] = IF committed[Idx(cHead[c])] THEN "cas" ELSE "tail"]
    /\ UNCHANGED <<mHead, mTail, nodeVars, prodVars, cHead, item>>

PopCas(c) ==
    /\ cpc[c] = "cas"
    /\ mHead = cHead[c]
    /\ mHead' = mHead + 1
    /\ cpc' = [cpc EXCEPT ![c] = "move"]
    /\ UNCHANGED <<mTail, nodeVars, prodVars, cHead, item>>

PopCasFails(c) ==
    /\ cpc[c] = "cas"
    /\ cHead' = [cHead EXCEPT ![c] = mHead]
    /\ cpc' = [cpc EXCEPT ![c] = "tail"]
    /\ UNCHANGED <<mHead, mTail, nodeVars, prodVars, item>>

PopMove(c) ==
    /\ cpc[c] = "move"
    /\ item' = [item EXCEPT ![c] = data[Idx(cHead[c])]]
    /\ cpc' = [cpc EXCEPT ![c] = "clear"]
    /\ UNCHANGED <<mHead, mTail, nodeVars, prodVars, cHead>>

\* Mutant of PopClear: the index is that of the new m_head.
PopClearsNext(c) ==
    /\ cpc[c] = "clear"
    /\ committed' = [committed EXCEPT ![Idx(cHead[c] + 1)] = FALSE]
    /\ cpc' = [cpc EXCEPT ![c] = "idle"]
    /\ UNCHANGED <<mHead, mTail, data, prodVars, cHead, item>>

PopClear(c) ==
    /\ cpc[c] = "clear"
    /\ committed' = [committed EXCEPT ![Idx(cHead[c])] = FALSE]
    /\ cpc' = [cpc EXCEPT ![c] = "idle"]
    /\ UNCHANGED <<mHead, mTail, data, prodVars, cHead, item>>

-----------------------------------------------------------------------------

\* The steps of a push that holds a position, and those of pop.
PushGoesOn(p) == WaitSlotWritable(p) \/ PushWrite(p) \/ PushCommit(p)

Pop(c) ==
    \/ PopLoadHead(c) \/ PopLoadTail(c) \/ PopCheck(c)
    \/ PopCas(c) \/ PopCasFails(c) \/ PopMove(c) \/ PopClear(c)

Next ==
    \/ \E p \in Producers : \/ PushLoadTail(p) \/ PushLoadHead(p)
                            \/ PushCas(p) \/ PushCasFails(p)
                            \/ PushGoesOn(p)
    \/ \E c \in Consumers : Pop(c)

Spec == Init /\ [][Next]_vars

\* A producer finishes the push it claimed a position for; a consumer keeps
\* popping, and its compare-and-swap, alone on m_head, does not fail forever.
FairSpec ==
    /\ Spec
    /\ \A p \in Producers : WF_vars(PushGoesOn(p))
    /\ \A c \in Consumers : WF_vars(Pop(c)) /\ SF_vars(PopCas(c))

-----------------------------------------------------------------------------

\* The shape of the variables; at most m_capacity positions are claimed and
\* not yet popped, in spite of a test made with a tail and a head loaded apart.
TypeOK ==
    /\ mHead \in Position
    /\ mTail \in Position
    /\ mTail \in mHead .. mHead + Capacity
    /\ data \in [Node -> Position \cup {Nothing}]
    /\ committed \in [Node -> BOOLEAN]
    /\ ppc \in [Producers -> {"idle", "head", "cas", "wait", "write", "commit"}]
    /\ pTail \in [Producers -> Position]
    /\ cpc \in [Consumers -> {"idle", "tail", "check", "cas", "move", "clear"}]
    /\ cHead \in [Consumers -> Position]
    /\ item \in [Consumers -> Position \cup {Nothing}]

\* No node is written by two producers, or written by one while a consumer
\* moves the item of the lap before out of it (the comment at .inl:22-23).
NodeExclusive ==
    /\ \A p, q \in Producers :
          p # q /\ ppc[p] = "write" /\ ppc[q] = "write"
              => Idx(pTail[p]) # Idx(pTail[q])
    /\ \A p \in Producers, c \in Consumers :
          ppc[p] = "write" /\ cpc[c] = "move" => Idx(pTail[p]) # Idx(cHead[c])

\* An item that entered the queue comes out of it: the consumer gets past every
\* position, in spite of producers that are between claim and commit.
EveryItemIsPopped ==
    \A q \in Position : mTail > q ~> mHead > q

\* The items are their positions; the queue holds those between head and tail.
\* A consumer has taken its item when it has moved m_head.
Tasks == INSTANCE TaskQueue WITH
    Items <- Position,
    queue <- [k \in 1 .. mTail - mHead |-> mHead + k - 1],
    hand <- [c \in Consumers |-> IF cpc[c] = "move" THEN cHead[c] ELSE item[c]]

\* Every item is taken once, whole, in the order of the claims.
ImplementsTaskQueue == Tasks!Spec
=============================================================================
