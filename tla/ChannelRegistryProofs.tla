----------------------- MODULE ChannelRegistryProofs -----------------------
(***************************************************************************)
(* The daemon's registry of a dynamic channel agrees with the reader bits  *)
(* of the segment in shared memory, for any processes, any set of reader   *)
(* indices and any sequence of requests, releases, crashes and losses.     *)
(***************************************************************************)
EXTENDS ChannelRegistry, DataLemmas, FiniteSetTheorems

SegRec == [mask : SUBSET Indices, recv : BOOLEAN, deleted : BOOLEAN, shared : SUBSET Indices]
DaemonMsg == [op : {"allocate"}, from : Procs, role : {"sender", "receiver"}]
                \cup [op : {"release"}, from : Procs, role : {"leave", "force"}]

\* The part of the type invariant the daemon depends on.
RegType ==
    /\ segs \in Seq(SegRec)
    /\ cur \in {NoShm} \cup Segment
    /\ senders \subseteq Procs
    /\ slot \in [Procs -> Indices \cup {NoIndex}]
    /\ toDaemon \in Seq(DaemonMsg)
    /\ crashes \in Seq(Procs)

RegInv == RegType /\ RegistryMatchesMask

registryVars == <<segs, cur, senders, slot>>

-----------------------------------------------------------------------------
(* The lowest free index, and what giving one out does to the mask. *)

LEMMA LowestFree ==
    ASSUME NEW mask, Indices \ mask # {}
    PROVE  FreeIndex(mask) \in Indices \ mask
  <1> DEFINE free == Indices \ mask
  <1>1. free \subseteq Nat
    BY IndicesAssumption
  <1>2. \E i \in free : \A j \in free : i <= j
    BY <1>1, Least
  <1>3. QED
    BY <1>2 DEF FreeIndex

\* One entry of the list of segments is replaced.
LEMMA OneReplaced ==
    ASSUME NEW s \in Seq(SegRec), NEW k \in 1 .. Len(s), NEW r \in SegRec
    PROVE  /\ [s EXCEPT ![k] = r] \in Seq(SegRec)
           /\ Len([s EXCEPT ![k] = r]) = Len(s)
           /\ \A g \in 1 .. Len(s) : [s EXCEPT ![k] = r][g] = IF g = k THEN r ELSE s[g]
  OBVIOUS

\* A process that has no index is given one that no receiver has.
LEMMA GrantMatches ==
    ASSUME NEW p \in Procs, NEW all \in Seq(SegRec), NEW g \in 1 .. Len(all),
           slot \in [Procs -> Indices \cup {NoIndex}],
           all[g].mask = {slot[q] : q \in Receivers},
           \A q, r \in Receivers : slot[q] = slot[r] => q = r,
           GrantIndex(p, g, all)
    PROVE  /\ segs' \in Seq(SegRec) /\ Len(segs') = Len(all)
           /\ slot' \in [Procs -> Indices \cup {NoIndex}]
           /\ segs'[g].mask = {slot'[q] : q \in Receivers'}
           /\ \A q, r \in Receivers' : slot'[q] = slot'[r] => q = r
  <1> DEFINE Met(i) == {j \in {i} : Waiting(g, i) \ {p} # {}}
  <1>1. CASE slot[p] # NoIndex /\ segs' = all /\ UNCHANGED slot
    BY <1>1 DEF Receivers
  <1>2. CASE /\ slot[p] = NoIndex
             /\ Indices \ all[g].mask # {}
             /\ segs' = [all EXCEPT ![g].mask = @ \cup {FreeIndex(all[g].mask)},
                                    ![g].shared = @ \cup Met(FreeIndex(all[g].mask))]
             /\ slot' = [slot EXCEPT ![p] = FreeIndex(all[g].mask)]
    <2> DEFINE i == FreeIndex(all[g].mask)
    <2>1. i \in Indices \ all[g].mask /\ i # NoIndex
      BY <1>2, LowestFree, IndicesAssumption DEF NoIndex
    <2> DEFINE met == Met(i)
    <2> HIDE DEF i
    <2>10. met \subseteq {i}
      OBVIOUS
    <2> HIDE DEF met
    <2>2. /\ segs' = [all EXCEPT ![g].mask = @ \cup {i}, ![g].shared = @ \cup met]
          /\ slot' = [slot EXCEPT ![p] = i]
      BY <1>2 DEF i, met
    <2>3. all[g] \in SegRec
      OBVIOUS
    <2>4. /\ segs' \in Seq(SegRec) /\ Len(segs') = Len(all)
          /\ segs'[g].mask = all[g].mask \cup {i}
      <3>1. PICK r : r = [all[g] EXCEPT !.mask = @ \cup {i}, !.shared = @ \cup met]
        OBVIOUS
      <3>2. r \in SegRec /\ r.mask = all[g].mask \cup {i}
        BY <2>1, <2>3, <2>10, <3>1 DEF SegRec
      <3>3. segs' = [all EXCEPT ![g] = r]
        BY <2>2, <3>1
      <3>4. QED
        BY <3>2, <3>3, OneReplaced
    <2>5. Receivers' = Receivers \cup {p} /\ p \notin Receivers
      <3>1. \A q \in Procs : slot'[q] = IF q = p THEN i ELSE slot[q]
        BY <2>2
      <3>2. p \in Procs /\ slot[p] = NoIndex
        BY <1>2
      <3>3. \A q \in Procs : slot'[q] # NoIndex <=> (q = p \/ slot[q] # NoIndex)
        BY <2>1, <3>1, <3>2
      <3>4. QED
        BY <3>2, <3>3 DEF Receivers
    <2>6. /\ slot' \in [Procs -> Indices \cup {NoIndex}]
          /\ slot'[p] = i /\ \A q \in Receivers : slot'[q] = slot[q]
      BY <2>1, <2>2, <2>5 DEF Receivers
    <2>7. {slot'[q] : q \in Receivers'} = {slot[q] : q \in Receivers} \cup {i}
      BY <2>5, <2>6
    <2>8. \A q \in Receivers : slot[q] # i
      BY <2>1
    <2>9. QED
      BY <2>4, <2>5, <2>6, <2>7, <2>8
  <1>3. QED
    BY <1>1, <1>2 DEF GrantIndex

-----------------------------------------------------------------------------
(* The steps of the daemon that change the registry. *)

LEMMA AllocateMatches ==
    ASSUME RegInv, NEW m \in DaemonMsg, DaemonAllocate(m)
    PROVE  /\ segs' \in Seq(SegRec) /\ cur' \in 1 .. Len(segs') /\ senders' \subseteq Procs
           /\ slot' \in [Procs -> Indices \cup {NoIndex}]
           /\ RegistryMatchesMask' /\ Len(segs') >= Len(segs)
  <1> DEFINE g == IF cur = NoShm THEN Len(segs) + 1 ELSE cur
             all == IF cur = NoShm THEN Append(segs, NewSegment) ELSE segs
  <1>1. m.from \in Procs
    BY DEF DaemonMsg
  <1>2. segs \in Seq(SegRec) /\ NewSegment \in SegRec
    BY DEF RegInv, RegType, NewSegment, SegRec
  <1>3. /\ all \in Seq(SegRec) /\ g \in 1 .. Len(all) /\ cur' = g /\ g # NoShm
        /\ Len(all) >= Len(segs)
    BY <1>2 DEF RegInv, RegType, DaemonAllocate, NoShm, Segment
  <1>4. /\ all[g].mask = {slot[q] : q \in Receivers}
        /\ \A q, r \in Receivers : slot[q] = slot[r] => q = r
        /\ slot \in [Procs -> Indices \cup {NoIndex}]
        /\ senders \subseteq Procs
    <2>1. CASE cur = NoShm
      <3>1. Receivers = {}
        BY <2>1 DEF RegInv, RegistryMatchesMask, Members
      <3>2. all[g] = NewSegment
        BY <1>2, <2>1
      <3>3. QED
        BY <3>1, <3>2 DEF NewSegment, RegInv, RegType
    <2>2. CASE cur # NoShm
      BY <2>2 DEF RegInv, RegType, RegistryMatchesMask
    <2>3. QED
      BY <2>1, <2>2
  <1>5. CASE segs' = all /\ slot' = slot /\ senders' \in {senders, senders \cup {m.from}}
    BY <1>1, <1>3, <1>4, <1>5 DEF RegistryMatchesMask, Receivers
  <1>6. CASE GrantIndex(m.from, g, all) /\ senders' = senders
    <2>1. /\ segs' \in Seq(SegRec) /\ Len(segs') = Len(all)
          /\ slot' \in [Procs -> Indices \cup {NoIndex}]
          /\ segs'[g].mask = {slot'[q] : q \in Receivers'}
          /\ \A q, r \in Receivers' : slot'[q] = slot'[r] => q = r
      <3> HIDE DEF g, all
      <3>1. QED
        BY <1>1, <1>3, <1>4, <1>6, GrantMatches
    <2> HIDE DEF g, all
    <2>2. QED
      BY <1>3, <1>4, <1>6, <2>1 DEF RegistryMatchesMask
  <1>7. CASE UNCHANGED <<senders, slot, segs>> /\ slot[m.from] = NoIndex
             /\ Indices \ all[g].mask = {}
    <2>1. cur # NoShm
      <3>1. SUFFICES ASSUME cur = NoShm PROVE FALSE
        OBVIOUS
      <3>2. all[g] = NewSegment
        BY <1>2, <3>1
      <3>3. QED
        BY <1>7, <3>2, IndicesAssumption DEF NewSegment
    <2>2. QED
      BY <1>3, <1>4, <1>7, <2>1 DEF RegInv, RegType, RegistryMatchesMask, Receivers
  <1>8. QED
    BY <1>5, <1>6, <1>7 DEF DaemonAllocate

LEMMA RemoveMatches ==
    ASSUME RegInv, cur # NoShm, NEW p \in Procs,
           RemoveMember(p), segs' = Freed(p), UNCHANGED cur
    PROVE  /\ segs' \in Seq(SegRec) /\ Len(segs') = Len(segs) /\ senders' \subseteq Procs
           /\ slot' \in [Procs -> Indices \cup {NoIndex}]
           /\ RegistryMatchesMask'
  <1>1. /\ segs \in Seq(SegRec) /\ cur \in 1 .. Len(segs) /\ senders \subseteq Procs
        /\ slot \in [Procs -> Indices \cup {NoIndex}]
        /\ segs[cur].mask = {slot[q] : q \in Receivers}
        /\ \A q, r \in Receivers : slot[q] = slot[r] => q = r
    BY DEF RegInv, RegType, RegistryMatchesMask, Segment, NoShm
  <1>2. /\ slot' \in [Procs -> Indices \cup {NoIndex}]
        /\ \A q \in Procs : slot'[q] = IF q = p THEN NoIndex ELSE slot[q]
        /\ senders' \subseteq Procs
    BY <1>1 DEF RemoveMember
  <1>3. Receivers' = Receivers \ {p} /\ \A q \in Receivers' : slot'[q] = slot[q]
    BY <1>2 DEF Receivers
  <1>4. segs[cur] \in SegRec
    BY <1>1
  <1>5. /\ segs' \in Seq(SegRec) /\ Len(segs') = Len(segs)
        /\ segs'[cur].mask = segs[cur].mask \ {slot[p]}
    <2>1. CASE slot[p] = NoIndex
      <3>1. NoIndex \notin segs[cur].mask
        BY <1>4, IndicesAssumption DEF SegRec, NoIndex
      <3>2. QED
        BY <1>1, <2>1, <3>1 DEF Freed
    <2>2. CASE slot[p] # NoIndex
      <3>1. segs' = [segs EXCEPT ![cur].mask = @ \ {slot[p]}]
        BY <2>2 DEF Freed
      <3>2. PICK r : r = [segs[cur] EXCEPT !.mask = @ \ {slot[p]}]
        OBVIOUS
      <3>3. r \in SegRec /\ r.mask = segs[cur].mask \ {slot[p]}
        BY <1>4, <3>2 DEF SegRec
      <3>4. segs' = [segs EXCEPT ![cur] = r]
        BY <3>1, <3>2
      <3>5. QED
        BY <1>1, <3>3, <3>4, OneReplaced
    <2>3. QED
      BY <2>1, <2>2
  <1>6. {slot'[q] : q \in Receivers'} = {slot[q] : q \in Receivers} \ {slot[p]}
    BY <1>1, <1>3 DEF Receivers
  <1>7. QED
    BY <1>1, <1>2, <1>3, <1>5, <1>6 DEF RegistryMatchesMask

LEMMA TeardownMatches ==
    ASSUME RegInv, cur # NoShm, NEW p \in Procs, Teardown(Freed(p))
    PROVE  /\ segs' \in Seq(SegRec) /\ Len(segs') = Len(segs) /\ senders' \subseteq Procs
           /\ slot' \in [Procs -> Indices \cup {NoIndex}] /\ cur' = NoShm
           /\ RegistryMatchesMask'
  <1>1. segs \in Seq(SegRec) /\ cur \in 1 .. Len(segs) /\ segs[cur] \in SegRec
    BY DEF RegInv, RegType, Segment, NoShm
  <1>2. Freed(p) \in Seq(SegRec) /\ Len(Freed(p)) = Len(segs) /\ Freed(p)[cur] \in SegRec
    BY <1>1 DEF Freed, SegRec
  <1>3. segs' \in Seq(SegRec) /\ Len(segs') = Len(segs)
    <2> DEFINE freed == Freed(p)
    <2>1. segs' = [freed EXCEPT ![cur].deleted = TRUE]
      BY DEF Teardown
    <2>2. freed \in Seq(SegRec) /\ Len(freed) = Len(segs) /\ freed[cur] \in SegRec
      BY <1>2
    <2> HIDE DEF freed
    <2>3. PICK r : r = [freed[cur] EXCEPT !.deleted = TRUE]
      OBVIOUS
    <2>4. r \in SegRec
      BY <2>2, <2>3 DEF SegRec
    <2>5. segs' = [freed EXCEPT ![cur] = r]
      BY <2>1, <2>3
    <2>6. QED
      BY <1>1, <2>2, <2>4, <2>5, OneReplaced
  <1>4. /\ cur' = NoShm /\ senders' = {}
        /\ slot' \in [Procs -> Indices \cup {NoIndex}]
        /\ \A q \in Procs : slot'[q] = NoIndex
    BY DEF Teardown
  <1>5. Receivers' = {}
    BY <1>4 DEF Receivers
  <1>6. QED
    BY <1>3, <1>4, <1>5 DEF RegistryMatchesMask, Members

-----------------------------------------------------------------------------
(* Every step. *)

LEMMA DaemonKeepsRegistry ==
    ASSUME RegInv, DaemonMessage \/ CrashHandled
    PROVE  RegInv' /\ Len(segs') >= Len(segs)
  <1>1. ASSUME segs' \in Seq(SegRec), Len(segs') >= Len(segs),
               cur' \in {NoShm} \cup 1 .. Len(segs'), senders' \subseteq Procs,
               slot' \in [Procs -> Indices \cup {NoIndex}],
               toDaemon' \in Seq(DaemonMsg), crashes' \in Seq(Procs),
               RegistryMatchesMask'
        PROVE  RegInv' /\ Len(segs') >= Len(segs)
    BY <1>1 DEF RegInv, RegType, Segment
  <1>2. /\ segs \in Seq(SegRec) /\ cur \in {NoShm} \cup 1 .. Len(segs)
        /\ toDaemon \in Seq(DaemonMsg) /\ crashes \in Seq(Procs)
    BY DEF RegInv, RegType, Segment
  <1>3. ASSUME UNCHANGED registryVars
        PROVE  RegistryMatchesMask' /\ senders' \subseteq Procs
               /\ slot' \in [Procs -> Indices \cup {NoIndex}]
    BY <1>3 DEF registryVars, RegInv, RegType, RegistryMatchesMask, Members, Receivers
  <1>4. CASE DaemonMessage
    <2> DEFINE m == Head(toDaemon)
    <2>1. /\ m \in DaemonMsg /\ m.from \in Procs
          /\ toDaemon' \in Seq(DaemonMsg) /\ crashes' \in Seq(Procs)
      BY <1>2, <1>4 DEF DaemonMessage, DaemonMsg
    <2>2. CASE DaemonAllocate(m)
      BY <1>1, <2>1, <2>2, AllocateMatches
    <2>3. CASE DaemonRelease(m)
      <3>1. CASE UNCHANGED daemonVars
        BY <1>1, <1>2, <1>3, <2>1, <3>1 DEF daemonVars, registryVars
      <3>2. CASE cur # NoShm /\ RemoveMember(m.from) /\ segs' = Freed(m.from)
                 /\ UNCHANGED cur
        BY <1>1, <1>2, <2>1, <3>2, RemoveMatches
      <3>3. CASE cur # NoShm /\ Teardown(Freed(m.from))
        BY <1>1, <2>1, <3>3, TeardownMatches
      <3>4. QED
        BY <2>3, <3>1, <3>2, <3>3 DEF DaemonRelease
    <2>4. QED
      BY <1>4, <2>2, <2>3 DEF DaemonMessage
  <1>5. CASE CrashHandled
    <2> DEFINE p == Head(crashes)
    <2>1. p \in Procs /\ toDaemon' \in Seq(DaemonMsg) /\ crashes' \in Seq(Procs)
      BY <1>2, <1>5 DEF CrashHandled
    <2>2. p \in Members => cur # NoShm
      BY DEF RegInv, RegistryMatchesMask
    <2>3. CASE UNCHANGED daemonVars
      BY <1>1, <1>2, <1>3, <2>1, <2>3 DEF daemonVars, registryVars
    <2>4. CASE p \in Members /\ RemoveMember(p) /\ segs' = Freed(p) /\ UNCHANGED cur
      BY <1>1, <1>2, <2>1, <2>2, <2>4, RemoveMatches
    <2>5. CASE Members = {p} /\ Teardown(Freed(p))
      BY <1>1, <2>1, <2>2, <2>5, TeardownMatches
    <2>6. QED
      BY <1>5, <2>3, <2>4, <2>5 DEF CrashHandled, DaemonCrash
  <1>6. QED
    BY <1>4, <1>5

\* The registry is not concerned by a change of the segments that leaves their
\* masks alone.
LEMMA MasksKeepRegistry ==
    ASSUME RegInv, UNCHANGED <<cur, senders, slot, toDaemon, crashes>>,
           segs' \in Seq(SegRec), Len(segs') = Len(segs),
           \A g \in 1 .. Len(segs) : segs'[g].mask = segs[g].mask
    PROVE  RegInv'
  <1>1. cur \in {NoShm} \cup 1 .. Len(segs)
    BY DEF RegInv, RegType, Segment
  <1>2. RegType'
    BY <1>1 DEF RegInv, RegType, Segment
  <1>3. cur # NoShm => segs'[cur].mask = segs[cur].mask
    BY <1>1
  <1>4. Receivers' = Receivers /\ Members' = Members
    BY DEF Receivers, Members
  <1>5. {slot'[q] : q \in Receivers'} = {slot[q] : q \in Receivers}
    BY <1>4
  <1>6. RegistryMatchesMask'
    BY <1>3, <1>4, <1>5 DEF RegInv, RegistryMatchesMask
  <1>7. QED
    BY <1>2, <1>6 DEF RegInv

\* Stopping a ReceiveWork clears BIT1 of the segment and no reader bit.
LEMMA ReleaseKeepsRegistry ==
    ASSUME RegInv, NEW p \in Procs, ProcessRelease(p)
    PROVE  RegInv' /\ Len(segs') = Len(segs)
  <1>1. segs \in Seq(SegRec)
    BY DEF RegInv, RegType
  <1>2. UNCHANGED <<cur, senders, slot, toDaemon, crashes>>
    BY DEF ProcessRelease
  <1>3. /\ segs' \in Seq(SegRec) /\ Len(segs') = Len(segs)
        /\ \A g \in 1 .. Len(segs) : segs'[g].mask = segs[g].mask
    <2>1. CASE segs' = segs
      BY <1>1, <2>1
    <2>2. CASE segs' = [segs EXCEPT ![shm[p]].recv = FALSE]
      <3>1. CASE shm[p] \in 1 .. Len(segs)
        <4>1. PICK r : r = [segs[shm[p]] EXCEPT !.recv = FALSE]
          OBVIOUS
        <4>2. segs[shm[p]] \in SegRec
          BY <1>1, <3>1
        <4>3. r \in SegRec /\ r.mask = segs[shm[p]].mask
          BY <4>1, <4>2 DEF SegRec
        <4>4. segs' = [segs EXCEPT ![shm[p]] = r]
          BY <2>2, <4>1
        <4>5. QED
          BY <1>1, <3>1, <4>3, <4>4, OneReplaced
      <3>2. CASE shm[p] \notin 1 .. Len(segs)
        <4>1. segs' = segs
          BY <1>1, <2>2, <3>2
        <4>2. QED
          BY <1>1, <4>1
      <3>3. QED
        BY <3>1, <3>2
    <2>3. QED
      BY <2>1, <2>2 DEF ProcessRelease
  <1>4. RegInv'
    BY <1>2, <1>3, MasksKeepRegistry
  <1>5. QED
    BY <1>3, <1>4

\* Starting one may find the index in use by another, which changes no mask.
LEMMA AllocateKeepsRegistry ==
    ASSUME RegInv, NEW p \in Procs, ProcessAllocate(p)
    PROVE  RegInv' /\ Len(segs') = Len(segs)
  <1>1. segs \in Seq(SegRec)
    BY DEF RegInv, RegType
  <1>2. UNCHANGED <<cur, senders, slot, toDaemon, crashes>>
    BY DEF ProcessAllocate
  <1>3. PICK g, M : \/ segs' = segs
                    \/ /\ g \in 1 .. Len(segs) /\ M \subseteq Indices
                       /\ segs' = [segs EXCEPT ![g].shared = @ \cup M]
    BY DEF ProcessAllocate, Segment
  <1>4. /\ segs' \in Seq(SegRec) /\ Len(segs') = Len(segs)
        /\ \A h \in 1 .. Len(segs) : segs'[h].mask = segs[h].mask
    <2>1. CASE segs' = segs
      BY <1>1, <2>1
    <2>2. CASE /\ g \in 1 .. Len(segs) /\ M \subseteq Indices
               /\ segs' = [segs EXCEPT ![g].shared = @ \cup M]
      <3>1. PICK r : r = [segs[g] EXCEPT !.shared = @ \cup M]
        OBVIOUS
      <3>2. segs[g] \in SegRec
        BY <1>1, <2>2
      <3>3. r \in SegRec /\ r.mask = segs[g].mask
        BY <2>2, <3>1, <3>2 DEF SegRec
      <3>4. segs' = [segs EXCEPT ![g] = r]
        BY <2>2, <3>1
      <3>5. g \in 1 .. Len(segs)
        BY <2>2
      <3>6. /\ segs' \in Seq(SegRec) /\ Len(segs') = Len(segs)
            /\ \A h \in 1 .. Len(segs) : segs'[h] = IF h = g THEN r ELSE segs[h]
        BY <1>1, <3>3, <3>4, <3>5, OneReplaced
      <3>7. QED
        BY <3>3, <3>5, <3>6
    <2>3. QED
      BY <1>3, <2>1, <2>2
  <1>5. RegInv'
    BY <1>2, <1>4, MasksKeepRegistry
  <1>6. QED
    BY <1>4, <1>5

\* A process only asks.
LEMMA ProcessesKeepRegistry ==
    ASSUME RegInv, NEW p \in Procs,
           \/ \E role \in {"sender", "receiver"} : RequestAllocate(p, role)
           \/ \E how \in {"leave", "force"} : RequestRelease(p, how)
           \/ RequestNotSent(p)
           \/ ProcessAllocate(p) \/ ProcessRelease(p) \/ RetryOpen(p) \/ Unblock(p)
           \/ Crash(p) \/ Start(p)
    PROVE  RegInv'
  <1> USE DEF RegInv, RegType, RegistryMatchesMask, Members, Receivers, Segment,
              daemonVars, netVars
  <1>1. ASSUME NEW role \in {"sender", "receiver"}, RequestAllocate(p, role) PROVE RegInv'
    BY <1>1 DEF RequestAllocate, DaemonMsg
  <1>2. ASSUME NEW how \in {"leave", "force"}, RequestRelease(p, how) PROVE RegInv'
    BY <1>2 DEF RequestRelease, DaemonMsg
  <1>3. CASE RequestNotSent(p)
    BY <1>3 DEF RequestNotSent
  <1>4. CASE ProcessAllocate(p)
    BY <1>4, AllocateKeepsRegistry
  <1>5. CASE ProcessRelease(p)
    BY <1>5, ReleaseKeepsRegistry
  <1>6. CASE RetryOpen(p)
    BY <1>6 DEF RetryOpen
  <1>7. CASE Unblock(p)
    BY <1>7 DEF Unblock
  <1>8. CASE Crash(p)
    BY <1>8 DEF Crash
  <1>9. CASE Start(p)
    BY <1>9 DEF Start
  <1>10. QED
    BY <1>1, <1>2, <1>3, <1>4, <1>5, <1>6, <1>7, <1>8, <1>9

LEMMA RegInvInit == Init => RegInv
  BY DEF Init, RegInv, RegType, RegistryMatchesMask, Members, Receivers

LEMMA RegInvStep == RegInv /\ [Next]_vars => RegInv'
  <1> SUFFICES ASSUME RegInv, [Next]_vars PROVE RegInv'
    OBVIOUS
  <1>1. CASE UNCHANGED vars
    BY <1>1 DEF vars, daemonVars, netVars, RegInv, RegType, RegistryMatchesMask, Members,
                Receivers, Segment
  <1>2. QED
    BY <1>1, DaemonKeepsRegistry, ProcessesKeepRegistry DEF Next

\* For every number of processes and every set of reader indices, the bits of
\* m_reader_flag are the indices the daemon has on record, no index has two
\* receivers, and a channel that is torn down leaves no member behind
\* (handleDaemon_AllocateShm, handleDaemon_ReleaseShm, handleProcessCrash).
THEOREM RegistryIsTrue == Spec => []RegistryMatchesMask
  <1>1. Init => RegInv
    BY DEF Init, RegInv, RegType, RegistryMatchesMask, Members, Receivers
  <1>2. RegInv /\ [Next]_vars => RegInv'
    <2>1. CASE UNCHANGED vars
      BY <2>1 DEF vars, daemonVars, netVars, RegInv, RegType, RegistryMatchesMask, Members,
                  Receivers, Segment
    <2>2. QED
      BY <2>1, DaemonKeepsRegistry, ProcessesKeepRegistry DEF Next
  <1>3. RegInv => RegistryMatchesMask
    BY DEF RegInv
  <1>4. QED
    BY <1>1, <1>2, <1>3, PTL DEF Spec

-----------------------------------------------------------------------------
(* The inboxes and the processes. *)

InboxMsg == [op : {"allocate", "release"}, role : {"sender", "receiver", "leave", "force"},
             index : Indices \cup {NoIndex}]

\* TypeOK without the daemon's part.
ClientType ==
    /\ inbox \in [Procs -> Seq(InboxMsg)]
    /\ {up, info, handler, work, stuck} \subseteq [Procs -> BOOLEAN]
    /\ shm \in [Procs -> {NoShm, Unopened} \cup Segment]
    /\ index \in [Procs -> Indices \cup {NoIndex}]
    /\ spent \in [EventKinds -> Nat]

LEMMA TypeSplits == TypeOK <=> RegType /\ ClientType
  BY DEF TypeOK, RegType, ClientType, InboxMsg, SegRec, DaemonMsg

LEMMA SpendFacts ==
    ASSUME ClientType, NEW k \in EventKinds, NEW n \in Nat, Spend(k, n)
    PROVE  /\ spent' \in [EventKinds -> Nat]
           /\ spent'["lost"] = 0 => spent["lost"] = 0 /\ (k = "lost" => n = 0)
  <1>1. spent \in [EventKinds -> Nat] /\ "lost" \in EventKinds
    BY DEF ClientType, EventKinds
  <1>2. /\ spent' \in [EventKinds -> Nat]
        /\ spent'[k] = spent[k] + n /\ \A j \in EventKinds : j # k => spent'[j] = spent[j]
    BY <1>1 DEF Spend
  <1>3. QED
    BY <1>1, <1>2

Repeat(m, n) == [k \in 1 .. n |-> m]

\* The same message, n times more.
LEMMA RepeatFacts ==
    ASSUME NEW S, NEW s \in Seq(S), NEW m \in S, NEW n \in Nat
    PROVE  /\ s \o Repeat(m, n) \in Seq(S)
           /\ ToSet(s) \subseteq ToSet(s \o Repeat(m, n))
           /\ n = 0 => s \o Repeat(m, n) = s
           /\ n > 0 => /\ s \o Repeat(m, n) # <<>>
                      /\ Last(s \o Repeat(m, n)) = m
                      /\ m \in ToSet(s \o Repeat(m, n))
  <1>1. PICK t : t = Repeat(m, n)
    OBVIOUS
  <1>2. t \in Seq(S) /\ Len(t) = n /\ \A k \in 1 .. n : t[k] = m
    BY <1>1 DEF Repeat
  <1>3. s \o t \in Seq(S) /\ ToSet(s \o t) = ToSet(s) \cup ToSet(t)
    BY <1>2, ConcatFacts
  <1>4. n = 0 => s \o t = s
    BY <1>2
  <1>5. ASSUME n > 0 PROVE s \o t # <<>> /\ Last(s \o t) = m /\ m \in ToSet(s \o t)
    <2>1. Len(s \o t) = Len(s) + n /\ Len(s) \in Nat
      BY <1>2
    <2>2. (s \o t)[Len(s) + n] = t[n]
      BY <1>2, <1>5, <2>1
    <2>3. t[n] = m /\ m \in ToSet(t)
      BY <1>2, <1>5 DEF ToSet
    <2>4. QED
      BY <1>3, <1>5, <2>1, <2>2, <2>3 DEF Last
  <1>6. QED
    BY <1>1, <1>3, <1>4, <1>5

LEMMA LastOfTail ==
    ASSUME NEW S, NEW s \in Seq(S), s # <<>>
    PROVE  /\ Last(s) \in ToSet(s)
           /\ Tail(s) # <<>> => Last(Tail(s)) = Last(s)
           /\ Tail(s) = <<>> => Last(s) = Head(s)
  <1>1. Len(s) \in Nat \ {0} /\ Tail(s) \in Seq(S) /\ Len(Tail(s)) = Len(s) - 1
    OBVIOUS
  <1>2. Last(s) \in ToSet(s)
    BY <1>1 DEF Last, ToSet
  <1>3. CASE Tail(s) = <<>>
    <2>1. PICK t \in Seq(S) : t = Tail(s)
      BY <1>1
    <2>2. Len(s) = 1
      <3>1. Len(t) = Len(s) - 1 /\ t = <<>>
        BY <1>1, <1>3, <2>1, Zenon
      <3>2. Len(t) = 0
        BY <3>1
      <3>3. PICK n \in Nat : n = Len(s)
        BY <1>1
      <3>4. n - 1 = 0
        BY <3>1, <3>2, <3>3, Zenon
      <3>5. n = 1
        BY <3>4
      <3>6. QED
        BY <3>3, <3>5, Zenon
    <2>3. Last(s) = s[1] /\ Head(s) = s[1]
      BY <2>2 DEF Last
    <2>4. QED
      BY <1>2, <1>3, <2>3
  <1>4. CASE Tail(s) # <<>>
    <2>1. Len(Tail(s)) # 0
      BY <1>1, <1>4
    <2>2. Tail(s)[Len(s) - 1] = s[(Len(s) - 1) + 1]
      BY <1>1, <2>1
    <2>3. QED
      BY <1>1, <1>2, <1>4, <2>2 DEF Last
  <1>5. QED
    BY <1>3, <1>4

\* send of the daemon to an inbox: nothing is taken away, and where nothing is lost
\* the message is the last one.
LEMMA AnswerFacts ==
    ASSUME ClientType, NEW copies \in [Procs -> Nat], NEW m \in InboxMsg, Answer(copies, m)
    PROVE  /\ inbox' \in [Procs -> Seq(InboxMsg)] /\ spent' \in [EventKinds -> Nat]
           /\ spent'["lost"] = 0 => spent["lost"] = 0
           /\ \A p \in Procs :
                 /\ ToSet(inbox[p]) \subseteq ToSet(inbox'[p])
                 /\ copies[p] = 0 => inbox'[p] = inbox[p]
                 /\ spent'["lost"] = 0 /\ copies[p] > 0 =>
                       inbox'[p] # <<>> /\ Last(inbox'[p]) = m /\ m \in ToSet(inbox'[p])
  <1>1. PICK lost \in SUBSET {p \in Procs : copies[p] > 0} :
            /\ Spend("lost", Cardinality(lost))
            /\ inbox' = [p \in Procs |->
                            IF p \in lost THEN inbox[p]
                            ELSE inbox[p] \o [k \in 1 .. copies[p] |-> m]]
    BY DEF Answer
  <1>2. IsFiniteSet(lost) /\ Cardinality(lost) \in Nat
    BY ProcsAssumption, FS_Subset, FS_CardinalityType
  <1>3. /\ spent' \in [EventKinds -> Nat]
        /\ spent'["lost"] = 0 => spent["lost"] = 0 /\ lost = {}
    BY <1>1, <1>2, SpendFacts, FS_EmptySet DEF EventKinds
  <1>4. ASSUME NEW p \in Procs
        PROVE  /\ inbox'[p] \in Seq(InboxMsg)
               /\ ToSet(inbox[p]) \subseteq ToSet(inbox'[p])
               /\ copies[p] = 0 => inbox'[p] = inbox[p]
               /\ p \notin lost /\ copies[p] > 0 =>
                     inbox'[p] # <<>> /\ Last(inbox'[p]) = m /\ m \in ToSet(inbox'[p])
    <2>1. inbox[p] \in Seq(InboxMsg) /\ copies[p] \in Nat
      BY DEF ClientType
    <2>2. CASE p \in lost
      BY <1>1, <2>1, <2>2
    <2>3. CASE p \notin lost
      <3>1. inbox'[p] = inbox[p] \o Repeat(m, copies[p])
        BY <1>1, <2>3 DEF Repeat
      <3>2. QED
        BY <2>1, <2>3, <3>1, RepeatFacts
    <2>4. QED
      BY <2>2, <2>3
  <1>5. inbox' \in [Procs -> Seq(InboxMsg)]
    BY <1>1, <1>4
  <1>6. QED
    BY <1>3, <1>4, <1>5


-----------------------------------------------------------------------------
(* What the daemon's steps mean for a process. *)

\* Nothing is taken from the inbox; a process that is no member any more is told so
\* last, one that is told it has the channel is a member.
Tells(p) ==
    /\ ToSet(inbox[p]) \subseteq ToSet(inbox'[p])
    /\ \/ inbox'[p] = inbox[p] /\ (p \in Members => p \in Members')
       \/ /\ inbox'[p] # <<>> /\ Last(inbox'[p]) \in ToSet(inbox'[p])
          /\ \/ Last(inbox'[p]).op = "release"
             \/ Last(inbox'[p]).op = "allocate" /\ p \in Members'

LEMMA DaemonTells ==
    ASSUME RegInv, RegInv', ClientType, DaemonMessage
    PROVE  /\ inbox' \in [Procs -> Seq(InboxMsg)] /\ spent' \in [EventKinds -> Nat]
           /\ spent'["lost"] = 0 => spent["lost"] = 0 /\ \A p \in Procs : Tells(p)
           /\ cur' = cur \/ cur = NoShm \/ cur' = NoShm
  <1>1. /\ inbox \in [Procs -> Seq(InboxMsg)] /\ spent \in [EventKinds -> Nat]
        /\ senders \subseteq Procs /\ slot \in [Procs -> Indices \cup {NoIndex}]
        /\ senders' \subseteq Procs /\ slot' \in [Procs -> Indices \cup {NoIndex}]
    BY DEF ClientType, RegInv, RegType
  <1>2. PICK m \in DaemonMsg : m = Head(toDaemon) /\ m.from \in Procs
    <2>1. toDaemon \in Seq(DaemonMsg) /\ toDaemon # <<>>
      BY DEF DaemonMessage, RegInv, RegType
    <2>2. Head(toDaemon) \in DaemonMsg
      BY <2>1
    <2>3. QED
      BY <2>2 DEF DaemonMsg
  <1>3. ASSUME UNCHANGED <<inbox, spent>>, Members \subseteq Members'
        PROVE  /\ inbox' \in [Procs -> Seq(InboxMsg)] /\ spent' \in [EventKinds -> Nat]
               /\ spent'["lost"] = 0 => spent["lost"] = 0 /\ \A p \in Procs : Tells(p)
    BY <1>1, <1>3 DEF Tells
  <1>4. ASSUME NEW copies \in [Procs -> Nat], NEW a \in InboxMsg, Answer(copies, a),
               \A p \in Procs : copies[p] = 0 => (p \in Members => p \in Members'),
               \/ a.op = "release"
               \/ a.op = "allocate" /\ \A p \in Procs : copies[p] > 0 => p \in Members'
        PROVE  /\ inbox' \in [Procs -> Seq(InboxMsg)] /\ spent' \in [EventKinds -> Nat]
               /\ spent'["lost"] = 0 => spent["lost"] = 0 /\ \A p \in Procs : Tells(p)
    <2>1. /\ inbox' \in [Procs -> Seq(InboxMsg)] /\ spent' \in [EventKinds -> Nat]
          /\ spent'["lost"] = 0 => spent["lost"] = 0
          /\ \A p \in Procs :
                /\ ToSet(inbox[p]) \subseteq ToSet(inbox'[p])
                /\ copies[p] = 0 => inbox'[p] = inbox[p]
                /\ spent'["lost"] = 0 /\ copies[p] > 0 =>
                      inbox'[p] # <<>> /\ Last(inbox'[p]) = a /\ a \in ToSet(inbox'[p])
      BY <1>4, AnswerFacts
    <2>2. \A p \in Procs : copies[p] = 0 \/ copies[p] > 0
      OBVIOUS
    <2>3. QED
      BY <1>4, <2>1, <2>2 DEF Tells
  <1>5. CASE DaemonAllocate(m)
    <2> DEFINE p == m.from
    <2>1. cur' = cur \/ cur = NoShm
      BY <1>5 DEF DaemonAllocate
    <2>2. Members \subseteq Members'
      <3>1. senders \subseteq senders'
        BY <1>5 DEF DaemonAllocate
      <3>2. \A q \in Procs : slot[q] # NoIndex => slot'[q] = slot[q]
        BY <1>1, <1>5 DEF DaemonAllocate, GrantIndex
      <3>3. QED
        BY <3>1, <3>2 DEF Members, Receivers
    <2>3. ASSUME NEW role \in {"sender", "receiver"}, NEW i \in Indices \cup {NoIndex},
                 AnswerAllocate(p, role, i), p \in Members'
          PROVE  /\ inbox' \in [Procs -> Seq(InboxMsg)] /\ spent' \in [EventKinds -> Nat]
                 /\ spent'["lost"] = 0 => spent["lost"] = 0 /\ \A q \in Procs : Tells(q)
      <3>1. PICK a : a = [op |-> "allocate", role |-> role, index |-> i]
        OBVIOUS
      <3>2. a \in InboxMsg /\ a.op = "allocate"
        BY <3>1 DEF InboxMsg
      <3>3. Once(p) \in [Procs -> Nat] /\ \A q \in Procs : Once(p)[q] > 0 => q = p
        BY DEF Once
      <3>4. PICK copies \in [Procs -> Nat] : copies = Once(p)
        BY <3>3
      <3>5. Answer(copies, a)
        BY <2>3, <3>1, <3>4 DEF AnswerAllocate
      <3> HIDE DEF p
      <3>6. QED
        BY <1>4, <2>2, <2>3, <3>2, <3>3, <3>4, <3>5
    <2>4. CASE /\ senders' = senders \cup {p} /\ AnswerAllocate(p, "sender", NoIndex)
      <3>1. p \in Members'
        BY <2>4 DEF Members
      <3>2. QED
        BY <2>1, <2>3, <2>4, <3>1
    <2>5. CASE /\ AnswerAllocate(p, "receiver", slot'[p]) /\ slot'[p] # NoIndex
      <3>1. p \in Members' /\ slot'[p] \in Indices \cup {NoIndex}
        BY <1>1, <1>2, <2>5 DEF Members, Receivers
      <3>2. QED
        BY <2>1, <2>3, <2>5, <3>1
    <2>6. CASE UNCHANGED <<inbox, spent>>
      BY <1>3, <2>1, <2>2, <2>6
    <2>7. ASSUME NEW g, NEW all, GrantIndex(p, g, all) PROVE slot'[p] # NoIndex
      <3>1. CASE slot[p] # NoIndex /\ UNCHANGED slot
        BY <3>1
      <3>2. CASE /\ Indices \ all[g].mask # {}
                 /\ slot' = [slot EXCEPT ![p] = FreeIndex(all[g].mask)]
        <4>1. FreeIndex(all[g].mask) \in Indices
          BY <3>2, LowestFree
        <4>2. FreeIndex(all[g].mask) # NoIndex
          BY <4>1, IndicesAssumption DEF NoIndex
        <4>3. slot'[p] = FreeIndex(all[g].mask)
          BY <1>1, <1>2, <3>2
        <4>4. QED
          BY <4>2, <4>3
      <3>3. QED
        BY <2>7, <3>1, <3>2 DEF GrantIndex
    <2>8. QED
      BY <1>5, <2>4, <2>5, <2>6, <2>7 DEF DaemonAllocate
  <1>6. CASE DaemonRelease(m)
    <2> DEFINE p == m.from
    <2>1. PICK a : a = [op |-> "release", role |-> m.role, index |-> NoIndex]
      OBVIOUS
    <2>2. a \in InboxMsg /\ a.op = "release"
      <3>1. m.role \in {"sender", "receiver", "leave", "force"}
        BY <1>2 DEF DaemonMsg
      <3>2. QED
        BY <2>1, <3>1 DEF InboxMsg
    <2>3. CASE UNCHANGED <<daemonVars, inbox, spent>>
      BY <1>3, <2>3 DEF daemonVars, Members, Receivers
    <2>4. CASE RemoveMember(p) /\ UNCHANGED cur /\ Answer(Once(p), a)
      <3>1. Once(p) \in [Procs -> Nat] /\ \A q \in Procs : Once(p)[q] = 0 => q # p
        BY DEF Once
      <3>2. \A q \in Procs : q # p => (q \in Members => q \in Members')
        BY <1>1, <2>4 DEF RemoveMember, Members, Receivers
      <3>3. PICK copies \in [Procs -> Nat] : copies = Once(p)
        BY <3>1
      <3> HIDE DEF p
      <3>4. QED
        BY <1>4, <2>2, <2>4, <3>1, <3>2, <3>3
    <2>5. CASE Teardown(Freed(p)) /\ Answer(NotifyAll(p), a)
      <3>1. /\ NotifyAll(p) \in [Procs -> Nat]
            /\ \A q \in Procs : NotifyAll(p)[q] = 0 => q \notin Members
        BY DEF NotifyAll, Members
      <3>2. cur' = NoShm
        BY <2>5 DEF Teardown
      <3>3. PICK copies \in [Procs -> Nat] : copies = NotifyAll(p)
        BY <3>1
      <3> HIDE DEF p
      <3>4. QED
        BY <1>4, <2>2, <2>5, <3>1, <3>2, <3>3
    <2>6. QED
      BY <1>6, <2>1, <2>3, <2>4, <2>5 DEF DaemonRelease
  <1>7. QED
    BY <1>2, <1>5, <1>6 DEF DaemonMessage

\* The type of what a process keeps, for a step that leaves the rest of ClientType to say.
LEMMA ClientTypeKept ==
    ASSUME RegInv, RegInv', ClientType, Len(segs') >= Len(segs),
           inbox' \in [Procs -> Seq(InboxMsg)], spent' \in [EventKinds -> Nat],
           UNCHANGED procVars
    PROVE  ClientType'
  <1>1. Segment \subseteq Segment'
    BY DEF RegInv, RegType, Segment
  <1>2. QED
    BY <1>1 DEF ClientType, procVars

LEMMA ProcessKeepsType ==
    ASSUME RegInv, ClientType, NEW p \in Procs,
           \/ ProcessAllocate(p) \/ ProcessRelease(p) \/ RetryOpen(p) \/ Unblock(p)
    PROVE  ClientType'
  <1>1. Segment' = Segment
    <2>1. CASE ProcessRelease(p)
      BY <2>1, ReleaseKeepsRegistry DEF Segment
    <2>2. CASE ProcessAllocate(p)
      BY <2>2, AllocateKeepsRegistry DEF Segment
    <2>3. QED
      BY <2>1, <2>2 DEF RetryOpen, Unblock, daemonVars, Segment
  <1>2. /\ inbox[p] \in Seq(InboxMsg) /\ shm[p] \in {NoShm, Unopened} \cup Segment
        /\ cur \in {NoShm} \cup Segment
    BY DEF ClientType, RegInv, RegType
  <1>3. CASE ProcessAllocate(p)
    <2> DEFINE m == Head(inbox[p])
               opened == IF shm[p] # NoShm THEN shm[p] ELSE IF cur # NoShm THEN cur ELSE Unopened
    <2>1. m \in InboxMsg /\ Tail(inbox[p]) \in Seq(InboxMsg)
      BY <1>2, <1>3, TailFacts DEF ProcessAllocate, Handles
    <2>2. opened \in {NoShm, Unopened} \cup Segment
      BY <1>2
    <2>3. (IF m.role = "receiver" THEN m.index ELSE index[p]) \in Indices \cup {NoIndex}
      BY <2>1 DEF InboxMsg, ClientType
    <2>4. inbox' \in [Procs -> Seq(InboxMsg)]
      BY <1>3, <2>1 DEF ProcessAllocate, ClientType
    <2>5. shm' \in [Procs -> {NoShm, Unopened} \cup Segment]
      BY <1>3, <2>2 DEF ProcessAllocate, ClientType
    <2>6. index' \in [Procs -> Indices \cup {NoIndex}]
      BY <1>3, <2>3 DEF ProcessAllocate, ClientType
    <2>7. {info', work'} \subseteq [Procs -> BOOLEAN]
      <3>1. work[p] \in BOOLEAN /\ handler[p] \in BOOLEAN
        BY DEF ClientType
      <3>2. PICK b \in BOOLEAN :
                b = (work[p] \/ (m.role = "receiver" /\ opened # Unopened /\ handler[p]))
        BY <3>1
      <3>3. work' = [work EXCEPT ![p] = b]
        BY <1>3, <3>2 DEF ProcessAllocate
      <3>4. QED
        BY <1>3, <3>3 DEF ProcessAllocate, ClientType
    <2>8. QED
      BY <1>1, <1>3, <2>4, <2>5, <2>6, <2>7 DEF ProcessAllocate, ClientType
  <1>4. CASE ProcessRelease(p)
    <2>1. inbox' \in [Procs -> Seq(InboxMsg)]
      <3>1. Tail(inbox[p]) \in Seq(InboxMsg)
        BY <1>2, <1>4, TailFacts DEF ProcessRelease, Handles
      <3>2. QED
        BY <1>4, <3>1 DEF ProcessRelease, ClientType
    <2>2. shm' \in [Procs -> {NoShm, Unopened} \cup Segment]
      <3>1. shm' = shm \/ shm' = [shm EXCEPT ![p] = NoShm]
        BY <1>4 DEF ProcessRelease
      <3>2. QED
        BY <3>1 DEF ClientType
    <2>3. {info', handler', work', stuck'} \subseteq [Procs -> BOOLEAN]
      <3>1. /\ info' = info \/ info' = [info EXCEPT ![p] = FALSE]
            /\ handler' = handler \/ handler' = [handler EXCEPT ![p] = FALSE]
            /\ work' = work \/ work' = [work EXCEPT ![p] = FALSE]
            /\ stuck' = stuck \/ stuck' = [stuck EXCEPT ![p] = TRUE]
        BY <1>4 DEF ProcessRelease
      <3>2. info' \in [Procs -> BOOLEAN]
        BY <3>1 DEF ClientType
      <3>3. handler' \in [Procs -> BOOLEAN]
        BY <3>1 DEF ClientType
      <3>4. work' \in [Procs -> BOOLEAN]
        BY <3>1 DEF ClientType
      <3>5. stuck' \in [Procs -> BOOLEAN]
        BY <3>1 DEF ClientType
      <3>6. QED
        BY <3>2, <3>3, <3>4, <3>5
    <2>4. UNCHANGED <<up, index, spent>>
      BY <1>4 DEF ProcessRelease
    <2>5. QED
      BY <1>1, <2>1, <2>2, <2>3, <2>4 DEF ClientType
  <1>5. CASE RetryOpen(p)
    BY <1>1, <1>2, <1>5 DEF RetryOpen, netVars, ClientType
  <1>6. CASE Unblock(p)
    BY <1>1, <1>6 DEF Unblock, netVars, ClientType
  <1>7. QED
    BY <1>3, <1>4, <1>5, <1>6

LEMMA OutsideKeepsType ==
    ASSUME RegInv, ClientType, NEW p \in Procs,
           \/ \E role \in {"sender", "receiver"} : RequestAllocate(p, role)
           \/ \E how \in {"leave", "force"} : RequestRelease(p, how)
           \/ RequestNotSent(p)
           \/ Crash(p) \/ Start(p)
    PROVE  ClientType'
  <1>1. CASE \E role \in {"sender", "receiver"} : RequestAllocate(p, role)
    <2>1. PICK role \in {"sender", "receiver"} : RequestAllocate(p, role)
      BY <1>1
    <2>2. spent' \in [EventKinds -> Nat]
      BY <2>1, SpendFacts DEF RequestAllocate, EventKinds
    <2>3. handler' \in [Procs -> BOOLEAN]
      BY <2>1 DEF RequestAllocate, ClientType
    <2>4. QED
      BY <2>1, <2>2, <2>3 DEF RequestAllocate, ClientType, daemonVars, Segment
  <1>2. CASE \E how \in {"leave", "force"} : RequestRelease(p, how)
    <2>1. PICK how \in {"leave", "force"} : RequestRelease(p, how)
      BY <1>2
    <2>2. spent' \in [EventKinds -> Nat]
      BY <2>1, SpendFacts DEF RequestRelease, EventKinds
    <2>3. QED
      BY <2>1, <2>2 DEF RequestRelease, ClientType, daemonVars, procVars, Segment
  <1>3. CASE RequestNotSent(p)
    <2>1. spent' \in [EventKinds -> Nat]
      BY <1>3, SpendFacts DEF RequestNotSent, EventKinds
    <2>2. QED
      BY <1>3, <2>1 DEF RequestNotSent, ClientType, daemonVars, netVars, Segment
  <1>4. CASE Crash(p)
    <2>1. spent' \in [EventKinds -> Nat]
      BY <1>4, SpendFacts DEF Crash, EventKinds
    <2>2. QED
      BY <1>4, <2>1 DEF Crash, ClientType, daemonVars, Segment
  <1>5. CASE Start(p)
    <2>1. inbox' \in [Procs -> Seq(InboxMsg)]
      BY <1>5 DEF Start, ClientType
    <2>2. QED
      BY <1>5, <2>1 DEF Start, ClientType, daemonVars, Segment
  <1>6. QED
    BY <1>1, <1>2, <1>3, <1>4, <1>5

LEMMA ClientTypeStep ==
    ASSUME RegInv, ClientType, [Next]_vars PROVE ClientType'
  <1>1. RegInv'
    BY RegInvStep
  <1>2. CASE DaemonMessage
    BY <1>1, <1>2, DaemonKeepsRegistry, DaemonTells, ClientTypeKept DEF DaemonMessage
  <1>3. CASE CrashHandled
    <2>1. inbox' \in [Procs -> Seq(InboxMsg)] /\ spent' \in [EventKinds -> Nat]
      BY <1>3 DEF CrashHandled, ClientType
    <2>2. QED
      BY <1>1, <1>3, <2>1, DaemonKeepsRegistry, ClientTypeKept DEF CrashHandled
  <1>4. CASE UNCHANGED vars
    BY <1>4 DEF vars, daemonVars, netVars, procVars, ClientType, Segment
  <1>5. QED
    BY <1>2, <1>3, <1>4, ProcessKeepsType, OutsideKeepsType DEF Next

LEMMA ClientTypeInit == Init => ClientType
  <1> SUFFICES ASSUME Init PROVE ClientType
    OBVIOUS
  <1>1. /\ inbox \in [Procs -> Seq(InboxMsg)] /\ spent \in [EventKinds -> Nat]
        /\ {up, info, handler, work, stuck} \subseteq [Procs -> BOOLEAN]
    BY DEF Init
  <1>2. /\ shm \in [Procs -> {NoShm, Unopened} \cup Segment]
        /\ index \in [Procs -> Indices \cup {NoIndex}]
    BY DEF Init
  <1>3. QED
    BY <1>1, <1>2 DEF ClientType

\* For every number of processes, messages lost and crashes, the daemon's registry,
\* the messages under way and what each process keeps of the channel have their
\* shape: above all, a process maps a segment that was created, and indices given
\* out are reader indices (ShmManager's request and release handlers).
THEOREM ChannelTypeCorrect == Spec => []TypeOK
  <1>1. Init => RegInv /\ ClientType
    BY RegInvInit, ClientTypeInit
  <1>2. RegInv /\ ClientType /\ [Next]_vars => RegInv' /\ ClientType'
    BY RegInvStep, ClientTypeStep
  <1>3. RegInv /\ ClientType => TypeOK
    BY TypeSplits DEF RegInv
  <1>4. QED
    BY <1>1, <1>2, <1>3, PTL DEF Spec

-----------------------------------------------------------------------------
(* What a process believes of the channel. *)

\* A release is on its way to p.
Told(p) == \E m \in ToSet(inbox[p]) : m.op = "release"

\* A dead process maps nothing, a crash is handled before the restart, and only the
\* names of the record list are open.
AwayOf(p) ==
    /\ ~up[p] => shm[p] = NoShm
    /\ shm[p] # NoShm => info[p] \/ stuck[p]
    /\ up[p] => p \notin ToSet(crashes)

\* The last word under way to a process is true of the registry; one that has heard
\* everything and has the channel is a member; one that maps another segment than
\* the daemon's will be told.
ViewOf(p) ==
    up[p] =>
       /\ inbox[p] # <<>> /\ Last(inbox[p]).op = "allocate" => p \in Members
       /\ inbox[p] = <<>> /\ shm[p] # NoShm /\ ~stuck[p] => p \in Members
       /\ shm[p] # NoShm /\ shm[p] # cur /\ ~stuck[p] => Told(p)

ViewInv ==
    /\ \A p \in Procs : AwayOf(p)
    /\ spent["lost"] = 0 => \A p \in Procs : ViewOf(p)

LEMMA LastIsMessage ==
    ASSUME ClientType, NEW p \in Procs, inbox[p] # <<>>, Last(inbox[p]).op # "allocate"
    PROVE  Told(p)
  <1>1. inbox[p] \in Seq(InboxMsg)
    BY DEF ClientType
  <1>2. Last(inbox[p]) \in ToSet(inbox[p])
    BY <1>1, LastOfTail
  <1>3. Last(inbox[p]) \in InboxMsg
    <2>1. PICK k \in 1 .. Len(inbox[p]) : Last(inbox[p]) = inbox[p][k]
      BY <1>1, <1>2 DEF ToSet
    <2>2. inbox[p][k] \in InboxMsg
      BY <1>1
    <2>3. QED
      BY <2>1, <2>2
  <1>4. QED
    BY <1>2, <1>3 DEF Told, InboxMsg

\* A process whose channel is forgotten has been told, or is about to be.
LEMMA ForgottenIsTold ==
    ASSUME ClientType, NEW p \in Procs, ViewOf(p), up[p], p \notin Members,
           shm[p] # NoShm, ~stuck[p]
    PROVE  Told(p)
  BY LastIsMessage DEF ViewOf

\* A step of one process leaves the view of the others alone.
LEMMA OneViewMoves ==
    ASSUME ViewInv, NEW p \in Procs, UNCHANGED <<cur, senders, slot, crashes>>,
           \A q \in Procs : q # p => /\ up'[q] = up[q] /\ info'[q] = info[q]
                                     /\ shm'[q] = shm[q] /\ stuck'[q] = stuck[q]
                                     /\ inbox'[q] = inbox[q],
           spent'["lost"] = 0 => spent["lost"] = 0,
           AwayOf(p)', ViewOf(p) => ViewOf(p)'
    PROVE  ViewInv'
  <1>1. Members' = Members
    BY DEF Members, Receivers
  <1>2. ASSUME NEW q \in Procs, q # p
        PROVE  AwayOf(q)' /\ (ViewOf(q) => ViewOf(q)')
    BY <1>1, <1>2 DEF AwayOf, ViewOf, Told, ViewInv
  <1>3. QED
    BY <1>2 DEF ViewInv

LEMMA ProcessKeepsView ==
    ASSUME RegInv, ClientType, ViewInv, NEW p \in Procs,
           \/ ProcessAllocate(p) \/ ProcessRelease(p) \/ RetryOpen(p) \/ Unblock(p)
    PROVE  ViewInv'
  <1>1. /\ UNCHANGED <<cur, senders, slot, crashes, up, spent>> /\ up[p]
        /\ \A q \in Procs : q # p => /\ info'[q] = info[q] /\ shm'[q] = shm[q]
                                     /\ stuck'[q] = stuck[q] /\ inbox'[q] = inbox[q]
    <2>1. /\ UNCHANGED <<cur, senders, slot, crashes, up, spent>> /\ up[p]
      BY DEF ProcessAllocate, ProcessRelease, RetryOpen, Unblock, daemonVars, netVars, Handles
    <2>2. /\ info' = info \/ \E b : info' = [info EXCEPT ![p] = b]
          /\ shm' = shm \/ \E b : shm' = [shm EXCEPT ![p] = b]
          /\ stuck' = stuck \/ \E b : stuck' = [stuck EXCEPT ![p] = b]
          /\ inbox' = inbox \/ \E b : inbox' = [inbox EXCEPT ![p] = b]
      BY DEF ProcessAllocate, ProcessRelease, RetryOpen, Unblock, netVars
    <2>3. \A q \in Procs : q # p => info'[q] = info[q]
      BY <2>2 DEF ClientType
    <2>4. \A q \in Procs : q # p => shm'[q] = shm[q]
      BY <2>2 DEF ClientType
    <2>5. \A q \in Procs : q # p => stuck'[q] = stuck[q]
      BY <2>2 DEF ClientType
    <2>6. \A q \in Procs : q # p => inbox'[q] = inbox[q]
      BY <2>2 DEF ClientType
    <2>7. QED
      BY <2>1, <2>3, <2>4, <2>5, <2>6
  <1>2. Members' = Members
    BY <1>1 DEF Members, Receivers
  <1>3. SUFFICES AwayOf(p)' /\ (ViewOf(p) => ViewOf(p)')
    BY <1>1, OneViewMoves
  <1>4. /\ AwayOf(p) /\ inbox[p] \in Seq(InboxMsg)
        /\ shm[p] \in {NoShm, Unopened} \cup Segment
        /\ info \in [Procs -> BOOLEAN] /\ stuck \in [Procs -> BOOLEAN] /\ DOMAIN inbox = Procs
        /\ DOMAIN shm = Procs
    BY DEF ViewInv, ClientType
  <1>5. p \notin ToSet(crashes)'
    BY <1>1, <1>4 DEF AwayOf
  <1>6. ASSUME inbox[p] # <<>>, inbox'[p] = Tail(inbox[p])
        PROVE  /\ inbox'[p] # <<>> => Last(inbox'[p]) = Last(inbox[p])
               /\ inbox'[p] = <<>> => Last(inbox[p]) = Head(inbox[p])
               /\ Told(p) /\ Head(inbox[p]).op # "release" => Told(p)'
    <2>1. ToSet(inbox[p]) = {Head(inbox[p])} \cup ToSet(Tail(inbox[p]))
      BY <1>4, <1>6, TailFacts
    <2>2. QED
      BY <1>4, <1>6, <2>1, LastOfTail DEF Told
  <1>7. CASE ProcessAllocate(p)
    <2>1. /\ inbox[p] # <<>> /\ inbox'[p] = Tail(inbox[p]) /\ Head(inbox[p]).op = "allocate"
          /\ ~stuck[p] /\ stuck' = stuck /\ info'[p] = TRUE
      BY <1>4, <1>7 DEF ProcessAllocate, Handles
    <2>2. /\ shm[p] # NoShm => shm'[p] = shm[p]
          /\ shm[p] = NoShm /\ cur # NoShm => shm'[p] = cur
          /\ shm'[p] # NoShm
      BY <1>4, <1>7 DEF ProcessAllocate, NoShm, Unopened
    <2>3. AwayOf(p)'
      BY <1>1, <1>5, <2>1 DEF AwayOf
    <2>4. ASSUME ViewOf(p) PROVE ViewOf(p)'
      <3>1. inbox'[p] # <<>> /\ Last(inbox'[p]).op = "allocate" => p \in Members
        BY <1>1, <1>6, <2>1, <2>4 DEF ViewOf
      <3>2. inbox'[p] = <<>> => p \in Members
        BY <1>1, <1>6, <2>1, <2>4 DEF ViewOf
      <3>3. shm'[p] # cur => Told(p)'
        <4>1. CASE shm[p] # NoShm
          BY <1>1, <1>6, <2>1, <2>2, <2>4, <4>1 DEF ViewOf
        <4>2. CASE shm[p] = NoShm /\ cur = NoShm
          <5>1. p \notin Members
            BY <4>2 DEF RegInv, RegistryMatchesMask
          <5>2. Last(inbox[p]).op # "allocate"
            BY <1>1, <2>1, <2>4, <5>1 DEF ViewOf
          <5>3. Told(p)
            BY <2>1, <5>2, LastIsMessage
          <5>4. QED
            BY <1>6, <2>1, <5>3
        <4>3. QED
          BY <2>2, <4>1, <4>2
      <3>4. QED
        BY <1>1, <1>2, <3>1, <3>2, <3>3 DEF ViewOf
    <2>5. QED
      BY <2>3, <2>4
  <1>8. CASE ProcessRelease(p)
    <2>1. /\ inbox[p] # <<>> /\ inbox'[p] = Tail(inbox[p]) /\ ~stuck[p]
      BY <1>4, <1>8 DEF ProcessRelease, Handles
    <2>2. shm'[p] = NoShm \/ stuck'[p]
      BY <1>4, <1>8, <2>1 DEF ProcessRelease, AwayOf
    <2>3. AwayOf(p)'
      BY <1>1, <1>5, <2>2 DEF AwayOf
    <2>4. ASSUME ViewOf(p) PROVE ViewOf(p)'
      BY <1>1, <1>2, <1>6, <2>1, <2>2, <2>4 DEF ViewOf
    <2>5. QED
      BY <2>3, <2>4
  <1>9. CASE RetryOpen(p)
    <2>1. /\ shm'[p] = cur /\ shm[p] # NoShm /\ UNCHANGED <<inbox, info, stuck>>
      BY <1>4, <1>9 DEF RetryOpen, netVars, NoShm, Unopened
    <2>2. QED
      BY <1>1, <1>2, <1>4, <1>5, <2>1 DEF AwayOf, ViewOf
  <1>10. CASE Unblock(p)
    <2>1. /\ shm'[p] = NoShm /\ UNCHANGED inbox
      BY <1>4, <1>10 DEF Unblock, netVars
    <2>2. QED
      BY <1>1, <1>2, <1>4, <1>5, <2>1 DEF AwayOf, ViewOf
  <1>11. QED
    BY <1>7, <1>8, <1>9, <1>10

LEMMA OutsideKeepsView ==
    ASSUME ~UserRestarts, RegInv, ClientType, ViewInv, NEW p \in Procs,
           \/ \E role \in {"sender", "receiver"} : RequestAllocate(p, role)
           \/ \E how \in {"leave", "force"} : RequestRelease(p, how)
           \/ RequestNotSent(p)
           \/ Crash(p) \/ Start(p)
    PROVE  ViewInv'
  <1>1. ASSUME UNCHANGED <<cur, senders, slot, crashes, up, info, shm, stuck, inbox>>,
               spent'["lost"] = 0 => spent["lost"] = 0
        PROVE  ViewInv'
    BY <1>1 DEF ViewInv, AwayOf, ViewOf, Told, Members, Receivers
  <1>2. CASE \E role \in {"sender", "receiver"} : RequestAllocate(p, role)
    <2>1. PICK role \in {"sender", "receiver"} : RequestAllocate(p, role)
      BY <1>2
    <2>2. spent'["lost"] = 0 => spent["lost"] = 0
      BY <2>1, SpendFacts DEF RequestAllocate, EventKinds
    <2>3. QED
      BY <1>1, <2>1, <2>2 DEF RequestAllocate, daemonVars
  <1>3. CASE \E how \in {"leave", "force"} : RequestRelease(p, how)
    <2>1. PICK how \in {"leave", "force"} : RequestRelease(p, how)
      BY <1>3
    <2>2. spent'["lost"] = 0 => spent["lost"] = 0
      BY <2>1, SpendFacts DEF RequestRelease, EventKinds
    <2>3. QED
      BY <1>1, <2>1, <2>2 DEF RequestRelease, daemonVars, procVars
  <1>4. CASE RequestNotSent(p)
    <2>1. spent'["lost"] = 0 => spent["lost"] = 0
      BY <1>4, SpendFacts DEF RequestNotSent, EventKinds
    <2>2. QED
      BY <1>1, <1>4, <2>1 DEF RequestNotSent, daemonVars, netVars
  <1>5. CASE Crash(p)
    <2>1. spent'["lost"] = 0 => spent["lost"] = 0
      BY <1>5, SpendFacts DEF Crash, EventKinds
    <2>2. /\ UNCHANGED <<cur, senders, slot, inbox>> /\ ~up'[p] /\ shm'[p] = NoShm
          /\ \A q \in Procs : q # p => /\ up'[q] = up[q] /\ info'[q] = info[q]
                                       /\ shm'[q] = shm[q] /\ stuck'[q] = stuck[q]
      BY <1>5 DEF Crash, daemonVars, ClientType
    <2>3. ToSet(crashes') = ToSet(crashes) \cup {p}
      BY <1>5, AppendFacts DEF Crash, RegInv, RegType
    <2>4. Members' = Members
      BY <2>2 DEF Members, Receivers
    <2>5. ASSUME NEW q \in Procs PROVE AwayOf(q)' /\ (ViewOf(q) => ViewOf(q)')
      BY <2>2, <2>3, <2>4 DEF AwayOf, ViewOf, Told, ViewInv
    <2>6. QED
      BY <2>1, <2>5 DEF ViewInv
  <1>6. CASE Start(p)
    <2>1. /\ UNCHANGED <<cur, senders, slot, crashes, info, shm, stuck, spent>>
          /\ up'[p] /\ inbox'[p] = <<>> /\ ~up[p] /\ p \notin ToSet(crashes)
          /\ \A q \in Procs : q # p => up'[q] = up[q] /\ inbox'[q] = inbox[q]
      BY <1>6 DEF Start, daemonVars, ClientType
    <2>2. shm[p] = NoShm
      BY <2>1 DEF ViewInv, AwayOf
    <2>3. AwayOf(p)' /\ ViewOf(p)'
      BY <2>1, <2>2 DEF AwayOf, ViewOf
    <2>4. QED
      BY <2>1, <2>3, OneViewMoves
  <1>7. QED
    BY <1>2, <1>3, <1>4, <1>5, <1>6

LEMMA DaemonKeepsView ==
    ASSUME RegInv, RegInv', ClientType, ViewInv, DaemonMessage
    PROVE  ViewInv'
  <1>1. /\ spent'["lost"] = 0 => spent["lost"] = 0 /\ \A p \in Procs : Tells(p)
        /\ cur' = cur \/ cur = NoShm \/ cur' = NoShm
    BY DaemonTells
  <1>2. UNCHANGED <<crashes, up, info, shm, stuck>>
    BY DEF DaemonMessage, procVars
  <1>3. \A p \in Procs : AwayOf(p)'
    BY <1>2 DEF ViewInv, AwayOf
  <1>4. ASSUME NEW p \in Procs, Tells(p), ViewOf(p), up[p] PROVE ViewOf(p)'
    <2>1. inbox'[p] # <<>> /\ Last(inbox'[p]).op = "allocate" => p \in Members'
      BY <1>4 DEF Tells, ViewOf
    <2>2. inbox'[p] = <<>> /\ shm[p] # NoShm /\ ~stuck[p] => p \in Members'
      BY <1>4 DEF Tells, ViewOf
    <2>3. ASSUME shm[p] # NoShm, shm[p] # cur', ~stuck[p] PROVE Told(p)'
      <3>1. CASE shm[p] # cur
        BY <1>4, <2>3, <3>1 DEF Tells, ViewOf, Told
      <3>2. CASE shm[p] = cur
        <4>1. p \notin Members'
          BY <1>1, <2>3, <3>2 DEF RegInv, RegistryMatchesMask
        <4>2. CASE inbox'[p] = inbox[p] /\ p \notin Members
          BY <1>4, <2>3, <4>2, ForgottenIsTold DEF Told
        <4>3. CASE Last(inbox'[p]) \in ToSet(inbox'[p]) /\ Last(inbox'[p]).op = "release"
          BY <4>3 DEF Told
        <4>4. QED
          BY <1>4, <4>1, <4>2, <4>3 DEF Tells
      <3>3. QED
        BY <3>1, <3>2
    <2>4. QED
      BY <1>2, <2>1, <2>2, <2>3 DEF ViewOf
  <1>5. ASSUME NEW p \in Procs, ~up[p] PROVE ViewOf(p)'
    BY <1>2, <1>5 DEF ViewOf
  <1>6. QED
    BY <1>1, <1>3, <1>4, <1>5 DEF ViewInv

LEMMA CrashKeepsView ==
    ASSUME RegInv, RegInv', ClientType, ViewInv, CrashHandled
    PROVE  ViewInv'
  <1>1. PICK q \in Procs : /\ q \in ToSet(crashes) /\ DaemonCrash(q)
                           /\ ToSet(crashes') \subseteq ToSet(crashes)
    <2>1. crashes \in Seq(Procs) /\ crashes # <<>> /\ crashes' = Tail(crashes)
      BY DEF CrashHandled, RegInv, RegType
    <2>2. QED
      BY <2>1, TailFacts DEF CrashHandled
  <1>2. UNCHANGED <<inbox, up, info, shm, stuck, spent>>
    BY DEF CrashHandled, procVars
  <1>3. ~up[q] /\ \A p \in Procs : AwayOf(p)'
    BY <1>1, <1>2 DEF ViewInv, AwayOf
  <1>4. /\ \A p \in Procs : p # q /\ p \in Members => p \in Members'
        /\ cur' = cur \/ cur' = NoShm
    <2>1. CASE UNCHANGED daemonVars
      BY <2>1 DEF daemonVars, Members, Receivers
    <2>2. CASE RemoveMember(q) /\ UNCHANGED cur
      BY <2>2 DEF RemoveMember, Members, Receivers, RegInv, RegType
    <2>3. CASE Members = {q} /\ Teardown(Freed(q))
      BY <2>3 DEF Teardown
    <2>4. QED
      BY <1>1, <2>1, <2>2, <2>3 DEF DaemonCrash
  <1>5. ASSUME NEW p \in Procs, ViewOf(p), up[p] PROVE ViewOf(p)'
    <2>1. ASSUME shm[p] # NoShm, shm[p] # cur', ~stuck[p] PROVE Told(p)
      <3>1. CASE shm[p] # cur
        BY <1>5, <2>1, <3>1 DEF ViewOf
      <3>2. CASE shm[p] = cur
        <4>1. p \notin Members
          BY <1>3, <1>4, <1>5, <2>1, <3>2 DEF RegInv, RegistryMatchesMask
        <4>2. QED
          BY <1>5, <2>1, <4>1, ForgottenIsTold
      <3>3. QED
        BY <3>1, <3>2
    <2>2. QED
      BY <1>2, <1>3, <1>4, <1>5, <2>1 DEF ViewOf, Told
  <1>6. ASSUME NEW p \in Procs, ~up[p] PROVE ViewOf(p)'
    BY <1>2, <1>6 DEF ViewOf
  <1>7. QED
    BY <1>2, <1>3, <1>5, <1>6 DEF ViewInv

\* For every number of processes and every order of requests, releases and crashes:
\* if no message is lost and no process comes back before its crash is handled, a
\* process that has heard everything and has the channel open is on the daemon's
\* record and maps the daemon's segment (handleDaemon_AllocateShm,
\* handleDaemon_ReleaseShm, handleProcessCrash, handleProcess_AllocateShm,
\* handleProcess_ReleaseShm).
THEOREM OpenIsMember ==
    ASSUME ~UserRestarts
    PROVE  Spec => []OpenMeansMember
  <1> DEFINE I == RegInv /\ ClientType /\ ViewInv
  <1>1. Init => I
    <2> SUFFICES ASSUME Init PROVE ViewInv
      BY RegInvInit, ClientTypeInit
    <2>1. ToSet(crashes) = {}
      BY DEF Init, ToSet
    <2>2. QED
      BY <2>1 DEF Init, ViewInv, AwayOf, ViewOf
  <1>2. I /\ [Next]_vars => I'
    <2> SUFFICES ASSUME I, [Next]_vars PROVE I'
      OBVIOUS
    <2>1. RegInv' /\ ClientType'
      BY RegInvStep, ClientTypeStep
    <2>2. CASE UNCHANGED vars
      BY <2>1, <2>2 DEF vars, daemonVars, netVars, procVars, ViewInv, AwayOf, ViewOf, Told,
                        Members, Receivers
    <2>3. QED
      BY <2>1, <2>2, DaemonKeepsView, CrashKeepsView, ProcessKeepsView, OutsideKeepsView
         DEF Next
  <1>3. I => OpenMeansMember
    <2> SUFFICES ASSUME I, spent["lost"] = 0, Quiet, NEW p \in Procs,
                        up[p], shm[p] # NoShm, ~stuck[p]
                 PROVE  p \in Members /\ shm[p] = cur
      BY DEF OpenMeansMember
    <2>1. inbox[p] = <<>> /\ ViewOf(p)
      BY DEF Quiet, ViewInv
    <2>2. ~Told(p)
      BY <2>1 DEF Told, ToSet
    <2>3. QED
      BY <2>1, <2>2 DEF ViewOf
  <1>4. QED
    BY <1>1, <1>2, <1>3, PTL DEF Spec
=============================================================================
