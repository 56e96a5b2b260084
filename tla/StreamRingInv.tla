--------------------------- MODULE StreamRingInv ---------------------------
(***************************************************************************)
(* The inductive invariants behind the properties of StreamRing.           *)
(***************************************************************************)
EXTENDS StreamRing

\* The readers whose slots are allocated before the first send are all there are,
\* and none of them is restarted or dropped.
FixedReaders ==
    /\ Registered = ReaderSlots
    /\ \A k \in {"alloc", "readerCrash"} : Limit[k] = 0

\* A mask a sender loads names every reader of the ring or none: what the window
\* rests on.  One reader index may come and go (a fixed inbox); several may not.
WholeMasks ==
    /\ ReaderSlots # {}
    /\ (\E r \in ReaderSlots : ReaderSlots = {r}) \/ FixedReaders

\* No cursor, published head, loaded tail or claim lies beyond the tail, and a
\* sender writes inside its claim.
BehindTail ==
    /\ \A i \in ReaderSlots :
          /\ head[i] <= tail
          /\ readerHead[i] <= tail
          /\ rpc[i] = "copy" => head[i] < tail
    /\ aTail <= tail
    /\ \A s \in Senders :
          /\ oldTail[s] <= tail
          /\ spc[s] # "idle" => need[s] > 0
          /\ Writing(s) => /\ oldTail[s] <= seq[s]
                           /\ seq[s] < oldTail[s] + need[s]
                           /\ oldTail[s] + need[s] <= tail

TypeInv == TypeOK /\ BehindTail

\* The head a reader publishes is its cursor as long as it runs.
HeadsPublished ==
    \A i \in ReaderSlots : rpc[i] # "off" => readerHead[i] = head[i]

\* What slowest_head found so far bounds the distance of every reader it has
\* visited, although the readers have moved on since.
ScanBounds ==
    \A s \in Senders :
        /\ spc[s] \in {"tail", "scan", "cas"} => mask[s] = ReaderSlots
        /\ spc[s] = "scan" => todo[s] \subseteq mask[s]
        /\ spc[s] = "cas" => todo[s] = {}
        /\ spc[s] \in {"scan", "cas"} =>
              \A i \in mask[s] \ todo[s] : oldTail[s] - readerHead[i] <= used[s]

\* Fixed readers stay registered, and nobody allocates or drops one.
ReadersStay ==
    FixedReaders =>
        /\ readerFlag = ReaderSlots
        /\ apc = "idle"
        /\ \A i \in ReaderSlots : drops[i] = 0

\* Nobody reads while a reader is being allocated, and the head it is about to be
\* given is not behind the one it had.
AllocAlone ==
    /\ apc # "idle" =>
          /\ readerFlag = {}
          /\ aOld = {}
          /\ \A i \in ReaderSlots : rpc[i] = "off"
    /\ apc \in {"store", "cas"} => \A i \in ReaderSlots : readerHead[i] <= aTail

\* The ring never holds more than SlotCount - 1 slots a reader has not consumed,
\* registered or not.
WithinWindow ==
    \A i \in ReaderSlots : tail <= readerHead[i] + SlotCount - 1

\* Inductive when WholeMasks.
WindowInv ==
    TypeInv /\ HeadsPublished /\ ScanBounds /\ ReadersStay /\ AllocAlone /\ WithinWindow

\* What a sender has claimed and not yet published.
Left(s) == seq[s] .. oldTail[s] + need[s] - 1

\* No reader passes a slot a live sender still has to publish.
AheadOfReaders ==
    \A i \in ReaderSlots, s \in Senders : Writing(s) => readerHead[i] <= seq[s]

\* Claims do not overlap.
ClaimsApart ==
    \A s, t \in Senders :
        s # t /\ Writing(s) /\ Writing(t) =>
            \/ oldTail[s] + need[s] <= oldTail[t]
            \/ oldTail[t] + need[t] <= oldTail[s]

\* A slot counts as published only once its own writer has stored its number: no
\* number in shared memory is beyond the tail, or in what a sender has left to do.
NotPublishedEarly ==
    /\ \A j \in Slot : mSeq[j] <= tail
    /\ \A s \in Senders : Writing(s) => \A p \in Left(s) : ~Committed(p)

\* What a reader copies stays published while it does.
CopiesPublished == \A i \in ReaderSlots : rpc[i] = "copy" => Committed(head[i])

\* Inductive when WholeMasks and senders are timely.
SlotInv ==
    WindowInv /\ AheadOfReaders /\ ClaimsApart /\ NotPublishedEarly /\ CopiesPublished

-----------------------------------------------------------------------------
(* What the slots and the readers' buffers hold, for ImplementsOrderedChannel. *)

\* Claims follow one another below the tail, and a writer's is the one recorded.
ClaimsInOrder ==
    /\ \A b \in Accepted : b + msgLen[b] <= tail
    /\ \A a, b \in Accepted : a < b => a + msgLen[a] <= b
    /\ \A s \in Senders : Writing(s) => msgLen[oldTail[s]] = need[s]

\* The slot of p holds a slice of the message claimed at b.
HoldsSlice(p, b) ==
    /\ mData[Idx(p)] = p
    /\ mSliceId[Idx(p)] = p - b
    /\ p = b => mSliceCount[Idx(p)] = msgLen[b]

\* A published slot some reader has still to read holds a slice of the claim it
\* belongs to, and so does the one its sender is about to publish.
PublishedIsWhole ==
    /\ \A i \in ReaderSlots, p \in Pos :
          readerHead[i] <= p /\ p < tail /\ Committed(p) =>
             \E b \in Accepted : p \in Span(b) /\ HoldsSlice(p, b)
    /\ \A s \in Senders : spc[s] = "commit" => HoldsSlice(seq[s], oldTail[s])

\* Where the message a reader is assembling, or the next one, begins.
Start(i) == readerHead[i] - slicesDone[i]

\* A reader that assembles holds the slices of one message read so far, and nobody
\* has moved its head since the first one.
AssemblyIsPrefix ==
    \A i \in ReaderSlots :
        IF sliceCount[i] = 0
        THEN slicesDone[i] = 0 /\ buf[i] = {}
        ELSE /\ rpc[i] \in {"loop", "copy"}
             /\ slicesDone[i] > 0
             /\ Start(i) \in Accepted
             /\ sliceCount[i] = msgLen[Start(i)]
             /\ slicesDone[i] < sliceCount[i]
             /\ buf[i] = Start(i) .. readerHead[i] - 1

\* What was delivered last is a whole message, below the one being assembled.
DeliveredBefore ==
    \A i \in ReaderSlots :
        \/ last[i] = {}
        \/ \E b \in Accepted : last[i] = Span(b) /\ b + msgLen[b] <= Start(i)

\* So far nothing has died, joined late or been disabled.
Lossless == \A k \in EventKinds : spent[k] = 0

\* Then everything below a reader's next message has been delivered to it, in
\* whole, and everything above it is published or has a live sender.
NothingSkipped ==
    Lossless =>
        /\ apc = "idle"
        /\ \A i \in ReaderSlots :
              /\ drops[i] = 0
              /\ \A b \in Accepted :
                    b < Start(i) =>
                       /\ b + msgLen[b] <= Start(i)
                       /\ \E d \in Accepted : last[i] = Span(d) /\ b <= d
              /\ \A p \in Pos :
                    readerHead[i] <= p /\ p < tail =>
                       Committed(p) \/ \E s \in Senders : Writing(s) /\ p \in Left(s)

\* Inductive when WholeMasks and senders are timely.
ChannelInv ==
    /\ SlotInv
    /\ ClaimsInOrder
    /\ PublishedIsWhole
    /\ AssemblyIsPrefix
    /\ DeliveredBefore
    /\ NothingSkipped
-----------------------------------------------------------------------------
(* Messages against tokens, for SleepersLagIsExplained. *)

\* Every number below the tail belongs to a claim, and no message is longer than
\* recv_impl scans for a published slot.
ClaimsCover ==
    /\ \A p \in Pos : p < tail => \E b \in Accepted : p \in Span(b)
    /\ \A b \in Accepted : msgLen[b] <= MaxSlice
    /\ \A s \in Senders : spc[s] # "idle" => need[s] <= MaxSlice

\* The slices of a message are published in their order: after one that is missing
\* no later one is to be found.
SlicesInOrder ==
    /\ \A i \in ReaderSlots, b \in Accepted : \A p, q \in Span(b) :
          readerHead[i] <= p /\ p < q /\ Committed(q) => Committed(p)
    /\ \A i \in ReaderSlots, s \in Senders :
          Writing(s) => \A p \in oldTail[s] .. seq[s] - 1 :
                           readerHead[i] <= p => Committed(p)

\* The messages a reader has not passed.
Behind(i) == {b \in Accepted : b + msgLen[b] > readerHead[i]}

\* The senders that have still to post a token for it.
Promised(i) ==
    {s \in Senders :
        \/ Writing(s) /\ i \in mask[s]
        \/ spc[s] = "post" /\ i \in todo[s]}

\* The token it has taken and not yet answered for.
Taken(i) == IF rpc[i] \in {"loop", "copy"} THEN 1 ELSE 0

\* For every message a reader has not passed there is a token: on its semaphore,
\* promised by a sender, taken by the reader, or lost for a reason.
TokensCover ==
    \A i \in ReaderSlots :
        /\ IsFiniteSet(Promised(i))
        /\ Cardinality(Behind(i)) <=
              sem[i] + lost[i] + Cardinality(Promised(i)) + Taken(i)

\* Inductive when WholeMasks and senders are timely.
TokenInv == ChannelInv /\ ClaimsCover /\ SlicesInOrder /\ TokensCover
=============================================================================
