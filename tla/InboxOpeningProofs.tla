------------------------- MODULE InboxOpeningProofs -------------------------
(***************************************************************************)
(* Proofs about InboxOpening, for any number of processes, any order of    *)
(* kProcesses and any number of deaths and failed system calls: an inbox   *)
(* that is used is initialised, and a booted process finds those of all    *)
(* business processes.                                                     *)
(***************************************************************************)
EXTENDS InboxOpening, TLAPS

USE NamesAssumption DEF Names

\* As much of the types as the argument needs.
Shape ==
    /\ seg \in [Names -> Stage]
    /\ hnd \in [Names -> [Names -> Handle]]
    /\ up \in [Names -> BOOLEAN]
    /\ DOMAIN todo = Names

InFlight == {"created", "mapped", "stale"}

\* The worker of a process is inside Open for the name it has before it only.
OneOpen ==
    \A p, n \in Names : hnd[p][n] \in InFlight => Head(todo[p]) = n

\* Only the daemon is in the middle of a creation, of a segment not ready yet.
CreatorIsDaemon ==
    \A p, n \in Names : hnd[p][n] = "created" => p = Daemon /\ seg[n] \in {"empty", "sized"}

\* What tryStartFixedProcesses has seen is still so.
StartedIsReady == started => \A n \in Procs : seg[n] = "ready"

OpeningInv ==
    /\ Shape /\ OneOpen /\ CreatorIsDaemon
    /\ OpenedIsReady /\ StartedIsReady /\ BootFindsInboxes

USE DEF Stage, Handle, InFlight, memVars, smVars, IsNext

LEMMA OpeningInvInit == Init => OpeningInv
BY DEF Init, OpeningInv, Shape, OneOpen, CreatorIsDaemon, OpenedIsReady, StartedIsReady,
       BootFindsInboxes

-----------------------------------------------------------------------------
(* How the later parts follow from what a step does to the segments.        *)

\* A segment that is ready stays so: a creation is undone only before m_flag.
LEMMA ReadyStays ==
    ASSUME OpeningInv, [Next]_vars, NEW n \in Names, seg[n] = "ready"
    PROVE  seg'[n] = "ready"
<1> USE DEF OpeningInv, Shape, CreatorIsDaemon
<1>1. ASSUME NEW m \in Names, CreateName(m) PROVE seg'[n] = "ready"
  BY <1>1 DEF CreateName
<1>2. ASSUME NEW m \in Names, SizeInbox(m) PROVE seg'[n] = "ready"
  BY <1>2 DEF SizeInbox
<1>3. ASSUME NEW m \in Names, InitInbox(m) PROVE seg'[n] = "ready"
  BY <1>3 DEF InitInbox
<1>4. ASSUME NEW m \in Names, CreationFails(m) PROVE seg'[n] = "ready"
  BY <1>4 DEF CreationFails
<1>5. ASSUME seg' = seg PROVE seg'[n] = "ready"
  BY <1>5
<1> QED
  BY <1>1, <1>2, <1>3, <1>4, <1>5
     DEF Next, Worker, vars, MapInbox, NoInbox, CheckFlag, ReportAgain, HearReport,
         CreateSync, MapSync, SyncFails, UserStarts, BootStarts, Dies

\* The conjuncts that speak of ready segments only are kept by a step that opens
\* nothing, starts nothing and does not say that the daemon may start anything.
LEMMA ReadyFrame ==
    ASSUME OpeningInv, [Next]_vars,
           \A p, n \in Names : hnd'[p][n] = "open" => hnd[p][n] = "open",
           started' => started,
           \A p \in Boot : up'[p] => up[p]
    PROVE  OpenedIsReady' /\ StartedIsReady' /\ BootFindsInboxes'
BY ReadyStays DEF OpeningInv, OpenedIsReady, StartedIsReady, BootFindsInboxes

-----------------------------------------------------------------------------
(* One lemma per action.                                                    *)

LEMMA InvCreateName ==
    ASSUME OpeningInv, [Next]_vars, NEW n \in Names, CreateName(n) PROVE OpeningInv'
<1> USE DEF OpeningInv, CreateName
<1>1. Shape' /\ OneOpen' /\ CreatorIsDaemon'
  BY DEF Shape, OneOpen, CreatorIsDaemon
<1> QED BY <1>1, ReadyFrame DEF Shape

LEMMA InvMapInbox ==
    ASSUME OpeningInv, [Next]_vars, NEW p \in Names, NEW n \in Names, MapInbox(p, n)
    PROVE  OpeningInv'
<1> USE DEF OpeningInv, MapInbox
<1>1. Shape' /\ OneOpen' /\ CreatorIsDaemon'
  BY DEF Shape, OneOpen, CreatorIsDaemon
<1> QED BY <1>1, ReadyFrame DEF Shape

\* Open was refused, whichever way.
LEMMA InvOpenFails ==
    ASSUME OpeningInv, [Next]_vars, NEW p \in Names, NEW n \in Names,
           IsNext(p, n), OpenFails(p, n), UNCHANGED <<seg, up>>
    PROVE  OpeningInv'
<1> USE DEF OpeningInv, OpenFails
<1>1. Shape' /\ OneOpen' /\ CreatorIsDaemon'
  BY DEF Shape, OneOpen, CreatorIsDaemon
<1> QED BY <1>1, ReadyFrame DEF Shape

\* Open succeeded on a segment that is ready by then.
LEMMA InvOpened ==
    ASSUME OpeningInv, [Next]_vars, NEW p \in Names, NEW n \in Names,
           IsNext(p, n), Opened(p, n), seg'[n] = "ready", UNCHANGED up,
           seg' \in [Names -> Stage],
           p = Daemon \/ seg' = seg
    PROVE  OpeningInv'
<1> DEFINE hs == [hnd[p] EXCEPT ![n] = "open"]
<1> USE DEF OpeningInv, Shape
<1>1. /\ hnd' = [hnd EXCEPT ![p] = hs]
      /\ started' = (started \/ (p = Daemon /\ AllInboxesValid(hs)))
  BY DEF Opened
<1>2. \E q : todo' = [todo EXCEPT ![p] = q]
  BY DEF Opened, SendOnline
<1>3. hs \in [Names -> Handle] /\ hs[n] = "open" /\ \A m \in Names : m # n => hs[m] = hnd[p][m]
  OBVIOUS
<1>4. \A m \in Names : hs[m] \notin InFlight
  BY <1>3 DEF OneOpen
<1>5. Shape'
  BY <1>1, <1>2, <1>3
<1>6. OneOpen'
  BY <1>1, <1>2, <1>4 DEF OneOpen
<1>7. CreatorIsDaemon'
  <2> SUFFICES ASSUME NEW q \in Names, NEW m \in Names, hnd'[q][m] = "created"
               PROVE  q = Daemon /\ seg'[m] \in {"empty", "sized"}
    BY DEF CreatorIsDaemon
  <2>1. q # p /\ hnd[q][m] = "created"
    BY <1>1, <1>4
  <2>2. q = Daemon /\ seg[m] \in {"empty", "sized"}
    BY <2>1 DEF CreatorIsDaemon
  <2> QED BY <2>1, <2>2
<1>8. OpenedIsReady'
  BY <1>1, <1>3, ReadyStays DEF OpenedIsReady
<1>9. StartedIsReady'
  <2>1. CASE started
    BY <2>1, ReadyStays DEF StartedIsReady
  <2>2. CASE p = Daemon /\ AllInboxesValid(hs)
    <3> SUFFICES ASSUME NEW m \in Procs PROVE seg'[m] = "ready"
      BY DEF StartedIsReady
    <3>1. hs[m] = "open"
      BY <1>4, <2>2 DEF AllInboxesValid, Valid
    <3> QED BY <1>3, <3>1, ReadyStays DEF OpenedIsReady
  <2> QED BY <1>1, <2>1, <2>2 DEF StartedIsReady
<1>10. BootFindsInboxes'
  BY ReadyStays DEF BootFindsInboxes
<1> QED BY <1>5, <1>6, <1>7, <1>8, <1>9, <1>10

LEMMA InvNoInbox ==
    ASSUME OpeningInv, [Next]_vars, NEW p \in Names, NEW n \in Names, NoInbox(p, n)
    PROVE  OpeningInv'
BY InvOpenFails DEF NoInbox

LEMMA InvCheckFlag ==
    ASSUME OpeningInv, [Next]_vars, NEW p \in Names, NEW n \in Names, CheckFlag(p, n)
    PROVE  OpeningInv'
<1>1. CASE FlagSet(p, n) /\ Opened(p, n)
  BY <1>1, InvOpened DEF CheckFlag, FlagSet, OpeningInv, Shape
<1>2. CASE OpenFails(p, n)
  BY <1>2, InvOpenFails DEF CheckFlag
<1> QED BY <1>1, <1>2 DEF CheckFlag

LEMMA InvSizeInbox ==
    ASSUME OpeningInv, [Next]_vars, NEW n \in Names, SizeInbox(n) PROVE OpeningInv'
<1> USE DEF OpeningInv, SizeInbox
<1>1. Shape' /\ OneOpen' /\ CreatorIsDaemon'
  BY DEF Shape, OneOpen, CreatorIsDaemon
<1> QED BY <1>1, ReadyFrame DEF Shape

LEMMA InvInitInbox ==
    ASSUME OpeningInv, [Next]_vars, NEW n \in Names, InitInbox(n) PROVE OpeningInv'
<1>1. seg' \in [Names -> Stage] /\ seg'[n] = "ready"
  BY DEF InitInbox, OpeningInv, Shape
<1> QED BY <1>1, InvOpened DEF InitInbox

LEMMA InvCreationFails ==
    ASSUME OpeningInv, [Next]_vars, NEW n \in Names, CreationFails(n) PROVE OpeningInv'
<1> USE DEF OpeningInv, Shape, CreationFails
<1>1. \A p, m \in Names :
         hnd'[p][m] = IF m # n THEN hnd[p][m]
                      ELSE IF p = Daemon THEN "closed"
                      ELSE IF hnd[p][m] = "mapped" THEN "stale" ELSE hnd[p][m]
  OBVIOUS
<1>2. Shape'
  OBVIOUS
<1>3. OneOpen'
  BY <1>1 DEF OneOpen
<1>4. CreatorIsDaemon'
  BY <1>1 DEF CreatorIsDaemon
<1>5. OpenedIsReady' /\ StartedIsReady' /\ BootFindsInboxes'
  <2>1. \A p, m \in Names : hnd'[p][m] = "open" => hnd[p][m] = "open"
    BY <1>1
  <2>2. started' = started /\ up' = up
    OBVIOUS
  <2> HIDE DEF OpeningInv, Shape, CreationFails
  <2> QED BY <2>1, <2>2, ReadyFrame
<1> QED BY <1>2, <1>3, <1>4, <1>5

\* No Open is under way while the report is what the worker has before it.
LEMMA InvReportAgain ==
    ASSUME OpeningInv, [Next]_vars, NEW p \in Names, ReportAgain(p) PROVE OpeningInv'
<1> USE DEF OpeningInv, ReportAgain
<1>1. \E q : todo' = [todo EXCEPT ![p] = q]
  BY DEF SendOnline
<1>2. Shape' /\ OneOpen' /\ CreatorIsDaemon'
  BY <1>1 DEF Shape, OneOpen, CreatorIsDaemon
<1> QED BY <1>2, ReadyFrame DEF Shape

LEMMA InvFrame ==
    ASSUME OpeningInv, UNCHANGED <<seg, hnd, todo, up, started>>
    PROVE  OpeningInv'
BY DEF OpeningInv, Shape, OneOpen, CreatorIsDaemon, OpenedIsReady, StartedIsReady,
       BootFindsInboxes

LEMMA InvStarts ==
    ASSUME OpeningInv, [Next]_vars, NEW p \in Names,
           UserStarts(p) \/ (p \in Boot /\ BootStarts(p))
    PROVE  OpeningInv'
<1>1. /\ up' = [up EXCEPT ![p] = TRUE]
      /\ UNCHANGED <<seg, hnd, todo, started>>
      /\ p \in Boot => started
  BY DEF UserStarts, BootStarts, MayBoot
<1>2. Shape' /\ OneOpen' /\ CreatorIsDaemon' /\ OpenedIsReady' /\ StartedIsReady'
  BY <1>1 DEF OpeningInv, Shape, OneOpen, CreatorIsDaemon, OpenedIsReady, StartedIsReady
<1>3. BootFindsInboxes'
  BY <1>1 DEF OpeningInv, Shape, BootFindsInboxes, StartedIsReady
<1> QED BY <1>2, <1>3 DEF OpeningInv

LEMMA InvDies ==
    ASSUME OpeningInv, [Next]_vars, NEW p \in Names, Dies(p) PROVE OpeningInv'
<1> USE DEF OpeningInv, Dies
<1>1. Shape' /\ OneOpen' /\ CreatorIsDaemon'
  BY DEF Shape, OneOpen, CreatorIsDaemon
<1> QED BY <1>1, ReadyFrame DEF Shape

-----------------------------------------------------------------------------

LEMMA OpeningInvStep == OpeningInv /\ [Next]_vars => OpeningInv'
<1> SUFFICES ASSUME OpeningInv, [Next]_vars PROVE OpeningInv'
  OBVIOUS
<1>1. ASSUME NEW p \in Names, Worker(p) PROVE OpeningInv'
  BY <1>1, InvMapInbox, InvNoInbox, InvCheckFlag, InvCreateName, InvSizeInbox,
     InvInitInbox, InvReportAgain DEF Worker
<1>2. ASSUME NEW n \in Names, CreationFails(n) PROVE OpeningInv'
  BY <1>2, InvCreationFails
<1>3. ASSUME NEW p \in Procs, HearReport(p) PROVE OpeningInv'
  BY <1>3, InvFrame DEF HearReport
<1>4. CASE CreateSync \/ MapSync \/ SyncFails
  BY <1>4, InvFrame DEF CreateSync, MapSync, SyncFails
<1>5. ASSUME NEW p \in Names, UserStarts(p) \/ Dies(p) PROVE OpeningInv'
  BY <1>5, InvStarts, InvDies
<1>6. ASSUME NEW p \in Boot, BootStarts(p) PROVE OpeningInv'
  BY <1>6, InvStarts
<1>7. CASE UNCHANGED vars
  BY <1>7, InvFrame DEF vars
<1> QED BY <1>1, <1>2, <1>3, <1>4, <1>5, <1>6, <1>7 DEF Next

\* The test of m_flag in create_shm (StreamShmCreator.cpp:102) is enough: nobody
\* has an inbox open that is not initialised, over any deaths and failures.
THEOREM UsedInboxesAreReady == Spec => []OpenedIsReady
<1>1. OpeningInv => OpenedIsReady
  BY DEF OpeningInv
<1> QED BY <1>1, OpeningInvInit, OpeningInvStep, PTL DEF Spec

\* The look of tryStartFixedProcesses at every inbox but the daemon's own
\* (ShmManager.cpp:235-242) is enough for those: whoever was booted runs with the
\* inbox of every business process ready.
THEOREM BootedFindInboxes == Spec => []BootFindsInboxes
<1>1. OpeningInv => BootFindsInboxes
  BY DEF OpeningInv
<1> QED BY <1>1, OpeningInvInit, OpeningInvStep, PTL DEF Spec

-----------------------------------------------------------------------------
(* The list of a worker: a name it waits for is closed.                     *)

Jobs == Names \cup {"report"}

\* No name is listed twice, and the names behind the first are closed in h.
Waits(q, h) ==
    /\ q \in Seq(Jobs)
    /\ \A i, k \in 1 .. Len(q) : i # k /\ q[i] = q[k] => q[i] = "report"
    /\ \A k \in 2 .. Len(q) : q[k] \in Names => h[q[k]] = "closed"

\* While the first is worked on, its handle may change.
LEMMA WaitsDuring ==
    ASSUME NEW q, NEW h \in [Names -> Handle], Waits(q, h), q # <<>>, NEW x
    PROVE  Waits(q, [h EXCEPT ![Head(q)] = x])
<1>1. q \in Seq(Jobs) /\ Len(q) \in Nat \ {0} /\ Head(q) = q[1]
  BY DEF Waits
<1>2. ASSUME NEW k \in 2 .. Len(q), q[k] \in Names
      PROVE  [h EXCEPT ![Head(q)] = x][q[k]] = "closed"
  <2>1. k \in 1 .. Len(q) /\ 1 \in 1 .. Len(q) /\ k # 1
    BY <1>1
  <2>2. q[k] # q[1]
    BY <1>2, <2>1 DEF Waits
  <2>3. h[q[k]] = "closed"
    BY <1>2 DEF Waits
  <2> QED BY <1>1, <1>2, <2>2, <2>3
<1> QED BY <1>2 DEF Waits

\* The first is done.
LEMMA WaitsDone ==
    ASSUME NEW q, NEW h \in [Names -> Handle], Waits(q, h), q # <<>>
    PROVE  /\ Waits(Tail(q), h)
           /\ \A k \in 1 .. Len(Tail(q)) : Tail(q)[k] \in Names =>
                 Tail(q)[k] # Head(q) /\ h[Tail(q)[k]] = "closed"
<1>1. /\ q \in Seq(Jobs) /\ Len(q) \in Nat \ {0} /\ Head(q) = q[1]
      /\ Tail(q) \in Seq(Jobs) /\ Len(Tail(q)) = Len(q) - 1
  BY DEF Waits
<1>2. \A k \in 1 .. Len(q) - 1 : Tail(q)[k] = q[k + 1]
  BY <1>1
<1>3. PICK t \in Seq(Jobs), n \in Nat :
         t = Tail(q) /\ n = Len(q) /\ Len(t) = n - 1 /\ n > 0
  <2>1. Len(q) > 0
    BY <1>1
  <2> QED BY <1>1, <2>1, Zenon
<1>4. \A k \in 1 .. n - 1 : t[k] = q[k + 1]
  BY <1>2, <1>3
<1>5. /\ \A i, k \in 1 .. n : i # k /\ q[i] = q[k] => q[i] = "report"
      /\ \A k \in 2 .. n : q[k] \in Names => h[q[k]] = "closed"
  BY <1>3 DEF Waits
<1>6. \A i, k \in 1 .. n - 1 : i # k /\ t[i] = t[k] => t[i] = "report"
  <2> SUFFICES ASSUME NEW i \in 1 .. n - 1, NEW k \in 1 .. n - 1, i # k, t[i] = t[k]
               PROVE  t[i] = "report"
    OBVIOUS
  <2>1. i + 1 \in 1 .. n /\ k + 1 \in 1 .. n /\ i + 1 # k + 1
    BY <1>3
  <2> QED BY <1>4, <1>5, <2>1
<1>7. ASSUME NEW k \in 1 .. n - 1, t[k] \in Names
      PROVE  t[k] # Head(q) /\ h[t[k]] = "closed"
  <2>1. k + 1 \in 2 .. n /\ k + 1 \in 1 .. n /\ 1 \in 1 .. n /\ k + 1 # 1
    BY <1>3
  <2>2. t[k] = q[k + 1] /\ t[k] # "report"
    BY <1>4, <1>7
  <2>3. PICK j \in 1 .. n : j = k + 1 /\ j \in 2 .. n /\ j # 1
    BY <2>1
  <2>4. q[j] # q[1]
    BY <1>5, <2>1, <2>2, <2>3
  <2>5. h[q[j]] = "closed"
    BY <1>5, <1>7, <2>2, <2>3
  <2> QED BY <1>1, <2>2, <2>3, <2>4, <2>5
<1>8. Waits(t, h)
  <2>1. \A k \in 2 .. Len(t) : t[k] \in Names => h[t[k]] = "closed"
    BY <1>3, <1>7
  <2> QED BY <1>3, <1>6, <2>1 DEF Waits
<1> QED BY <1>3, <1>7, <1>8

\* Another job is put behind: a name that is not listed, and closed, or the report.
LEMMA WaitsMore ==
    ASSUME NEW q, NEW h \in [Names -> Handle], Waits(q, h), NEW x \in Jobs,
           x \in Names => /\ h[x] = "closed"
                          /\ \A k \in 1 .. Len(q) : q[k] # x
    PROVE  Waits(Append(q, x), h)
<1>1. q \in Seq(Jobs)
  BY DEF Waits
<1>2. PICK t \in Seq(Jobs), n \in Nat :
         /\ t = Append(q, x) /\ n = Len(q) /\ Len(t) = n + 1
         /\ t[n + 1] = x /\ \A k \in 1 .. n : t[k] = q[k]
  <2>1. /\ Append(q, x) \in Seq(Jobs) /\ Len(q) \in Nat /\ Len(Append(q, x)) = Len(q) + 1
        /\ Append(q, x)[Len(q) + 1] = x
        /\ \A k \in 1 .. Len(q) : Append(q, x)[k] = q[k]
    BY <1>1
  <2> QED BY <2>1, Zenon
<1>3. /\ \A i, k \in 1 .. n : i # k /\ q[i] = q[k] => q[i] = "report"
      /\ \A k \in 2 .. n : q[k] \in Names => h[q[k]] = "closed"
  BY <1>2 DEF Waits
<1>4. \A k \in 1 .. n + 1 : k \in 1 .. n \/ k = n + 1
  OBVIOUS
<1>5. x \in Names \/ x = "report"
  BY DEF Jobs
<1>6. ASSUME NEW i \in 1 .. n + 1, NEW k \in 1 .. n + 1, i # k, t[i] = t[k]
      PROVE  t[i] = "report"
  <2>1. CASE i \in 1 .. n /\ k \in 1 .. n
    BY <1>2, <1>3, <1>6, <2>1
  <2>2. CASE i = n + 1 /\ k \in 1 .. n
    <3>1. q[k] = x /\ t[i] = x
      BY <1>2, <1>6, <2>2
    <3> QED BY <1>2, <1>5, <2>2, <3>1
  <2>3. CASE k = n + 1 /\ i \in 1 .. n
    <3>1. q[i] = x /\ t[i] = x
      BY <1>2, <1>6, <2>3
    <3> QED BY <1>2, <1>5, <2>3, <3>1
  <2> QED BY <1>4, <1>6, <2>1, <2>2, <2>3
<1>7. ASSUME NEW k \in 2 .. n + 1, t[k] \in Names PROVE h[t[k]] = "closed"
  <2>1. k \in 2 .. n \/ k = n + 1
    OBVIOUS
  <2>2. \A j \in 2 .. n : j \in 1 .. n
    OBVIOUS
  <2> QED BY <1>2, <1>3, <1>7, <2>1, <2>2
<1>8. Waits(t, h)
  BY <1>2, <1>6, <1>7 DEF Waits
<1> QED BY <1>2, <1>8

ListsOK == \A p \in Names : Waits(todo[p], hnd[p])

Rows == hnd \in [Names -> [Names -> Handle]] /\ todo \in [Names -> Seq(Jobs)]

\* The rest of the variables.
Flat ==
    /\ seg \in [Names -> Stage]
    /\ sync \in {"absent", "empty", "ready"}
    /\ daemonBit \in BOOLEAN
    /\ up \in [Names -> BOOLEAN]
    /\ work \in [Names -> BOOLEAN]
    /\ heard \in [Procs -> {"unsent", "queued", "known", "lost"}]
    /\ started \in BOOLEAN
    /\ syncHnd \in {"closed", "created", "open"}
    /\ left \in [deaths : 0 .. MaxDeaths, fails : 0 .. MaxFails]

LEMMA ShapeOfAll == Rows /\ ListsOK /\ Flat => TypeOK
BY DEF Rows, ListsOK, Flat, Waits, TypeOK, Jobs

\* One worker moves.
LEMMA OneRow ==
    ASSUME Rows, ListsOK, NEW p \in Names, NEW q, NEW h \in [Names -> Handle], Waits(q, h),
           todo' = [todo EXCEPT ![p] = q], hnd' = [hnd EXCEPT ![p] = h]
    PROVE  Rows' /\ ListsOK'
<1>1. q \in Seq(Jobs)
  BY DEF Waits
<1>2. Rows'
  BY <1>1 DEF Rows
<1>3. ASSUME NEW r \in Names PROVE Waits(todo'[r], hnd'[r])
  <2>1. CASE r = p
    BY <2>1 DEF Rows
  <2>2. CASE r # p
    <3>1. todo'[r] = todo[r] /\ hnd'[r] = hnd[r]
      BY <2>2 DEF Rows
    <3> QED BY <3>1 DEF ListsOK
  <2> QED BY <2>1, <2>2
<1> QED BY <1>2, <1>3 DEF ListsOK

LEMMA RowsFrame ==
    ASSUME Rows, ListsOK, UNCHANGED <<hnd, todo>> PROVE Rows' /\ ListsOK'
BY DEF Rows, ListsOK

\* The first job of p takes a step: the handle of that name is x now.
LEMMA RowMoves ==
    ASSUME Rows, ListsOK, NEW p \in Names, NEW n \in Names, IsNext(p, n), NEW x \in Handle,
           hnd' = [hnd EXCEPT ![p][n] = x]
    PROVE  /\ todo' = todo => Rows' /\ ListsOK'
           /\ todo' = [todo EXCEPT ![p] = Tail(@)] => Rows' /\ ListsOK'
           /\ todo' = [todo EXCEPT ![p] = Append(Tail(@), "report")] => Rows' /\ ListsOK'
           /\ todo' = [todo EXCEPT ![p] = Append(Tail(@), n)] /\ x = "closed"
                 => Rows' /\ ListsOK'
<1>1. PICK h \in [Names -> Handle] : h = [hnd[p] EXCEPT ![n] = x]
  BY DEF Rows
<1>2. PICK q : q = todo[p]
  OBVIOUS
<1>3. hnd' = [hnd EXCEPT ![p] = h] /\ h[n] = x
  BY <1>1 DEF Rows
<1>4. Waits(q, h) /\ q # <<>> /\ n = Head(q)
  <2>1. Waits(q, hnd[p]) /\ hnd[p] \in [Names -> Handle]
    BY <1>2 DEF ListsOK, Rows
  <2>2. q # <<>> /\ n = Head(q)
    BY <1>2
  <2>3. h = [hnd[p] EXCEPT ![Head(q)] = x]
    BY <1>1, <2>2
  <2>4. Waits(q, [hnd[p] EXCEPT ![Head(q)] = x])
    BY <2>1, <2>2, WaitsDuring
  <2> QED BY <2>2, <2>3, <2>4
<1>5. /\ Waits(Tail(q), h)
      /\ \A k \in 1 .. Len(Tail(q)) : Tail(q)[k] \in Names => Tail(q)[k] # n
  <2>1. /\ Waits(Tail(q), h)
        /\ \A k \in 1 .. Len(Tail(q)) : Tail(q)[k] \in Names =>
              Tail(q)[k] # Head(q) /\ h[Tail(q)[k]] = "closed"
    BY <1>4, WaitsDone, Zenon
  <2>2. n = Head(q)
    BY <1>4
  <2> QED BY <2>1, <2>2, Zenon
<1>6. ASSUME todo' = todo PROVE Rows' /\ ListsOK'
  <2>1. todo' = [todo EXCEPT ![p] = q]
    BY <1>2, <1>6 DEF Rows
  <2> QED BY <1>3, <1>4, <2>1, OneRow
<1>7. ASSUME todo' = [todo EXCEPT ![p] = Tail(@)] PROVE Rows' /\ ListsOK'
  <2>1. todo' = [todo EXCEPT ![p] = Tail(q)]
    BY <1>2, <1>7 DEF Rows
  <2> QED BY <1>3, <1>5, <2>1, OneRow
<1>8. ASSUME todo' = [todo EXCEPT ![p] = Append(Tail(@), "report")] PROVE Rows' /\ ListsOK'
  <2>1. todo' = [todo EXCEPT ![p] = Append(Tail(q), "report")]
    BY <1>2, <1>8 DEF Rows
  <2>2. "report" \in Jobs /\ "report" \notin Names
    BY DEF Jobs
  <2>3. Waits(Append(Tail(q), "report"), h)
    BY <1>5, <2>2, WaitsMore
  <2> QED BY <1>3, <2>1, <2>3, OneRow
<1>9. ASSUME todo' = [todo EXCEPT ![p] = Append(Tail(@), n)], x = "closed"
      PROVE  Rows' /\ ListsOK'
  <2>1. todo' = [todo EXCEPT ![p] = Append(Tail(q), n)]
    BY <1>2, <1>9 DEF Rows
  <2>2. \A k \in 1 .. Len(Tail(q)) : Tail(q)[k] # n
    BY <1>5
  <2>3. Waits(Append(Tail(q), n), h)
    BY <1>3, <1>5, <1>9, <2>2, WaitsMore DEF Jobs
  <2> QED BY <1>3, <2>1, <2>3, OneRow
<1> QED BY <1>6, <1>7, <1>8, <1>9

LEMMA FreshList == Waits(Order, [n \in Names |-> "closed"])
<1>1. Order \in Seq(Jobs)
  BY OrderAssumption DEF Jobs
<1>2. ASSUME NEW k \in 2 .. Len(Order), Order[k] \in Names
      PROVE  [n \in Names |-> "closed"][Order[k]] = "closed"
  BY <1>2
<1> QED BY <1>1, <1>2, OrderAssumption DEF Waits

LEMMA RowsStep == ASSUME Rows, ListsOK, [Next]_vars PROVE Rows' /\ ListsOK'
<1>1. ASSUME NEW p \in Names, NEW n \in Names, MapInbox(p, n) PROVE Rows' /\ ListsOK'
  BY <1>1, RowMoves DEF MapInbox
<1>2. ASSUME NEW n \in Names, CreateName(n) PROVE Rows' /\ ListsOK'
  BY <1>2, RowMoves DEF CreateName
<1>3. ASSUME NEW p \in Names, NEW n \in Names, IsNext(p, n), OpenFails(p, n)
      PROVE  Rows' /\ ListsOK'
  BY <1>3, RowMoves DEF OpenFails
<1>4. ASSUME NEW p \in Names, NEW n \in Names, IsNext(p, n), Opened(p, n)
      PROVE  Rows' /\ ListsOK'
  <2>1. hnd' = [hnd EXCEPT ![p][n] = "open"]
    BY <1>4 DEF Opened, Rows
  <2>2. \/ todo' = [todo EXCEPT ![p] = Tail(@)]
        \/ todo' = [todo EXCEPT ![p] = Append(Tail(@), "report")]
    BY <1>4 DEF Opened, SendOnline, Rows
  <2> QED BY <1>4, <2>1, <2>2, RowMoves
<1>5. ASSUME NEW p \in Names, ReportAgain(p) PROVE Rows' /\ ListsOK'
  <2>1. /\ Waits(todo[p], hnd[p]) /\ hnd[p] \in [Names -> Handle] /\ todo[p] # <<>>
        /\ hnd' = [hnd EXCEPT ![p] = hnd[p]]
    BY <1>5 DEF ListsOK, Rows, ReportAgain
  <2>2. Waits(Tail(todo[p]), hnd[p])
    BY <2>1, WaitsDone
  <2>3. Waits(Append(Tail(todo[p]), "report"), hnd[p])
    <3>1. "report" \in Jobs /\ "report" \notin Names
      BY DEF Jobs
    <3> QED BY <2>1, <2>2, <3>1, WaitsMore
  <2>4. \/ todo' = [todo EXCEPT ![p] = Tail(todo[p])]
        \/ todo' = [todo EXCEPT ![p] = Append(Tail(todo[p]), "report")]
    BY <1>5 DEF ReportAgain, SendOnline
  <2> QED BY <2>1, <2>2, <2>3, <2>4, OneRow
<1>6. ASSUME NEW n \in Names, CreationFails(n) PROVE Rows' /\ ListsOK'
  <2>1. PICK h \in [Names -> Handle] : h = [hnd[Daemon] EXCEPT ![n] = "closed"]
    BY DEF Rows
  <2>2. PICK q : q = todo[Daemon]
    OBVIOUS
  <2>3. Waits(q, h) /\ q # <<>> /\ n = Head(q) /\ h[n] = "closed"
    <3>1. Waits(q, hnd[Daemon]) /\ hnd[Daemon] \in [Names -> Handle]
      BY <2>2 DEF ListsOK, Rows
    <3>2. q # <<>> /\ n = Head(q)
      BY <1>6, <2>2 DEF CreationFails
    <3> QED BY <2>1, <3>1, <3>2, WaitsDuring
  <2>4. /\ Waits(Tail(q), h)
        /\ \A k \in 1 .. Len(Tail(q)) : Tail(q)[k] # n
    BY <2>3, WaitsDone
  <2>5. Waits(Append(Tail(q), n), h)
    BY <2>3, <2>4, WaitsMore DEF Jobs
  <2>6. hnd' \in [Names -> [Names -> Handle]] /\ hnd'[Daemon] = h
    BY <1>6, <2>1 DEF CreationFails, Rows
  <2>7. todo' = [todo EXCEPT ![Daemon] = Append(Tail(q), n)]
    BY <1>6, <2>2 DEF CreationFails, Rows
  <2>8. Rows'
    BY <2>5, <2>6, <2>7 DEF Rows, Waits
  <2>9. ASSUME NEW r \in Names, r # Daemon PROVE Waits(todo'[r], hnd'[r])
    <3>1. todo'[r] = todo[r]
      BY <2>7, <2>9 DEF Rows
    <3>2. \A m \in Names : hnd[r][m] = "closed" => hnd'[r][m] = "closed"
      BY <1>6, <2>9 DEF CreationFails, Rows
    <3>3. Waits(todo[r], hnd[r])
      BY DEF ListsOK
    <3> QED BY <3>1, <3>2, <3>3 DEF Waits
  <2>10. todo'[Daemon] = Append(Tail(q), n)
    BY <2>7 DEF Rows
  <2> QED BY <2>5, <2>6, <2>8, <2>9, <2>10 DEF ListsOK
<1>7. ASSUME NEW p \in Names, Dies(p) PROVE Rows' /\ ListsOK'
  <2>1. PICK h \in [Names -> Handle] : h = [n \in Names |-> "closed"]
    OBVIOUS
  <2>2. Waits(Order, h)
    BY <2>1, FreshList
  <2> QED BY <1>7, <2>1, <2>2, OneRow DEF Dies
<1>8. CASE UNCHANGED <<hnd, todo>>
  BY <1>8, RowsFrame
<1>9. ASSUME NEW p \in Names, Worker(p) PROVE Rows' /\ ListsOK'
  BY <1>1, <1>2, <1>3, <1>4, <1>5, <1>8, <1>9
     DEF Worker, NoInbox, CheckFlag, SizeInbox, InitInbox
<1> QED
  BY <1>6, <1>7, <1>8, <1>9
     DEF Next, vars, HearReport, CreateSync, MapSync, SyncFails, UserStarts, BootStarts

LEMMA FlatStep == ASSUME Rows, Flat, [Next]_vars PROVE Flat'
<1> USE BoundsAssumption DEF Flat
<1>1. ASSUME NEW p \in Names, NEW n \in Names, IsNext(p, n), OpenFails(p, n),
             UNCHANGED <<memVars, up, syncHnd, left>>
      PROVE  Flat'
  BY <1>1 DEF OpenFails
<1>2. ASSUME NEW p \in Names, NEW n \in Names, Opened(p, n), seg' \in [Names -> Stage],
             UNCHANGED <<sync, up, syncHnd, left>>
      PROVE  Flat'
  <2>1. work' \in [Names -> BOOLEAN]
    <3>1. PICK x \in BOOLEAN : x = (work[p] \/ n = p)
      OBVIOUS
    <3>2. work' = [work EXCEPT ![p] = x]
      BY <1>2, <3>1 DEF Opened
    <3> QED BY <3>2
  <2>2. daemonBit' \in BOOLEAN /\ started' \in BOOLEAN
    BY <1>2 DEF Opened
  <2>3. heard' \in [Procs -> {"unsent", "queued", "known", "lost"}]
    BY <1>2 DEF Opened, SendOnline
  <2> QED BY <1>2, <2>1, <2>2, <2>3
<1>3. ASSUME NEW p \in Names, Worker(p) PROVE Flat'
  <2>1. ASSUME NEW n \in Names, MapInbox(p, n) PROVE Flat'
    BY <2>1 DEF MapInbox
  <2>2. ASSUME NEW n \in Names, NoInbox(p, n) PROVE Flat'
    BY <1>1, <2>2 DEF NoInbox
  <2>3. ASSUME NEW n \in Names, CheckFlag(p, n) PROVE Flat'
    BY <1>1, <1>2, <2>3 DEF CheckFlag
  <2>4. ASSUME NEW n \in Names, CreateName(n) PROVE Flat'
    BY <2>4 DEF CreateName
  <2>5. ASSUME NEW n \in Names, SizeInbox(n) PROVE Flat'
    BY <2>5 DEF SizeInbox
  <2>6. ASSUME NEW n \in Names, InitInbox(n) PROVE Flat'
    BY <1>2, <2>6 DEF InitInbox
  <2>7. CASE ReportAgain(p)
    BY <2>7 DEF ReportAgain, SendOnline
  <2> QED BY <1>3, <2>1, <2>2, <2>3, <2>4, <2>5, <2>6, <2>7 DEF Worker
<1>4. ASSUME NEW n \in Names, CreationFails(n) PROVE Flat'
  <2>1. left' \in [deaths : 0 .. MaxDeaths, fails : 0 .. MaxFails]
    BY <1>4 DEF CreationFails
  <2> QED BY <1>4, <2>1 DEF CreationFails
<1>5. ASSUME NEW p \in Procs, HearReport(p) PROVE Flat'
  BY <1>5 DEF HearReport
<1>6. CASE CreateSync \/ MapSync
  BY <1>6 DEF CreateSync, MapSync
<1>7. CASE SyncFails
  <2>1. left' \in [deaths : 0 .. MaxDeaths, fails : 0 .. MaxFails]
    BY <1>7 DEF SyncFails
  <2> QED BY <1>7, <2>1 DEF SyncFails
<1>8. ASSUME NEW p \in Names, UserStarts(p) \/ (p \in Boot /\ BootStarts(p)) PROVE Flat'
  BY <1>8 DEF UserStarts, BootStarts
<1>9. ASSUME NEW p \in Names, Dies(p) PROVE Flat'
  <2>1. left' \in [deaths : 0 .. MaxDeaths, fails : 0 .. MaxFails]
    BY <1>9 DEF Dies
  <2>2. heard' \in [Procs -> {"unsent", "queued", "known", "lost"}]
    <3>1. ASSUME NEW q \in Procs
          PROVE  (CASE q = p -> "unsent"
                    [] p = Daemon /\ heard[q] = "known" -> "lost"
                    [] OTHER -> heard[q]) \in {"unsent", "queued", "known", "lost"}
      OBVIOUS
    <3> QED BY <1>9, <3>1 DEF Dies
  <2> QED BY <1>9, <2>1, <2>2 DEF Dies
<1>10. CASE UNCHANGED vars
  BY <1>10 DEF vars
<1> QED
  BY <1>3, <1>4, <1>5, <1>6, <1>7, <1>8, <1>9, <1>10 DEF Next

\* For every number of processes and of deaths and failed system calls, a worker is
\* inside one Open at most and the names whose timers run are closed, so that
\* openStreamShmRetry (ShmManager.cpp:167) never finds one of them open already.
THEOREM OpeningTypeCorrect == Spec => []TypeOK
<1> DEFINE I == Rows /\ ListsOK /\ Flat
<1>1. Init => I
  <2> SUFFICES ASSUME Init PROVE I
    OBVIOUS
  <2>1. Flat
    <3>1. left \in [deaths : 0 .. MaxDeaths, fails : 0 .. MaxFails]
      <4>1. MaxDeaths \in 0 .. MaxDeaths /\ MaxFails \in 0 .. MaxFails
        BY BoundsAssumption
      <4> QED BY <4>1 DEF Init
    <3> QED BY <3>1 DEF Init, Flat
  <2>2. Order \in Seq(Jobs) /\ Waits(Order, [n \in Names |-> "closed"])
    BY FreshList DEF Waits
  <2>3. Rows
    BY <2>2 DEF Init, Rows
  <2>4. ListsOK
    <3> SUFFICES ASSUME NEW p \in Names PROVE Waits(todo[p], hnd[p])
      BY DEF ListsOK
    <3>1. todo[p] = Order /\ hnd[p] = [n \in Names |-> "closed"]
      BY DEF Init
    <3> QED BY <2>2, <3>1
  <2> QED BY <2>1, <2>3, <2>4
<1>2. I /\ [Next]_vars => I'
  BY RowsStep, FlatStep
<1>3. I => TypeOK
  BY ShapeOfAll
<1> QED BY <1>1, <1>2, <1>3, PTL DEF Spec
=============================================================================
