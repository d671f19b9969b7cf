--------------------------- MODULE BotLearnerProofs --------------------------
(***************************************************************************)
(* Proofs about BotLearner, for any numbers of rounds, resets and faults,  *)
(* any errors, any interval above one, and any number of kept snapshots    *)
(* that is more than half of the gate's window.                            *)
(***************************************************************************)
EXTENDS BotLearnerProps, FiniteSetTheorems, SequenceTheorems,
        WellFoundedInduction, TLAPS

\* No two snapshots are of one round.
RoundsDiffer == \A r, s \in rows : r.round = s.round => r = s

\* The last snapshot of a loaded core is in the table, on top.
SavedOnTop ==
  saved # None /\ ~misfiled /\ saved.arch = arch =>
    saved \in rows /\ \A r \in rows : r.round <= saved.round

\* A loaded core has trained at least as many rounds as any snapshot.
CoreIsAhead == core.stage = "ready" /\ ~misfiled => \A r \in rows : r.round <= core.round

\* Nothing was saved by a build to come; a bot that is down has no core.
PastBuild == (saved # None => saved.arch <= arch) /\ (proc = "down" => core.stage = "opening")

Inv == RoundsDiffer /\ SavedOnTop /\ CoreIsAhead /\ PastBuild /\ ResetIsKept

Basics ==
  /\ core \in Core /\ rows \subseteq Row /\ archived \subseteq FiledRow /\ arch \in {1, 2}
  /\ saved \in Row \cup {None}

\* The newest of rows with different rounds is the one on top.
LEMMA NewestIsOnTop ==
  ASSUME NEW rs \in SUBSET Row, NEW top \in rs, \A r \in rs : r.round <= top.round,
         \A r, s \in rs : r.round = s.round => r = s
  PROVE  Newest(rs) = top
<1>1. \E r \in rs : \A s \in rs : s.round <= r.round
  OBVIOUS
<1>2. Newest(rs) \in rs /\ top.round <= Newest(rs).round
  BY <1>1 DEF Newest
<1>3. Newest(rs).round = top.round
  BY <1>2 DEF Row
<1> QED BY <1>2, <1>3

\* Some row is the newest: the rounds that are left to it are the fewest.
LEMMA NewestAmong ==
  ASSUME NEW rs, rs # {}, \A r \in rs : r.round \in 0 .. MaxRound
  PROVE  Newest(rs) \in rs /\ \A s \in rs : s.round <= Newest(rs).round
<1> DEFINE Less == OpToRel(<, Nat)
           Left == {MaxRound - r.round : r \in rs}
<1>1. Left \subseteq Nat /\ Left # {}
  BY LearnerConstantsOK
<1>2. IsWellFoundedOn(Less, Nat)
  BY NatLessThanWellFounded
<1>3. PICK x \in Left : \A y \in Left : ~ (<<y, x>> \in Less)
  <2> HIDE DEF Less, Left
  <2> QED BY <1>1, <1>2, WFMin
<1>a. Less = {ss \in Nat \X Nat : ss[1] < ss[2]}
  BY DEF OpToRel
<1>4. \A y \in Left : x <= y
  <2> HIDE DEF Less, Left
  <2>1. \A y \in Left : ~(y < x)
    BY <1>1, <1>3, <1>a
  <2> QED BY <1>1, <2>1
<1>5. PICK r \in rs : x = MaxRound - r.round
  BY <1>3
<1>6. ASSUME NEW s \in rs PROVE s.round <= r.round
  <2>1. MaxRound - s.round \in Left
    OBVIOUS
  <2>2. MaxRound - r.round <= MaxRound - s.round
    BY <1>4, <1>5, <2>1
  <2> QED BY <2>2, LearnerConstantsOK
<1> QED BY <1>6 DEF Newest

LEMMA NewestExists ==
  ASSUME NEW rs \in SUBSET Row, rs # {}
  PROVE  Newest(rs) \in rs /\ \A s \in rs : s.round <= Newest(rs).round
<1>1. \A r \in rs : r.round \in 0 .. MaxRound
  BY DEF Row
<1> QED BY <1>1, NewestAmong

LEMMA NewestFiled ==
  ASSUME Basics
  PROVE  InArchive \subseteq FiledRow /\ (InArchive # {} => Newest(InArchive) \in InArchive)
<1>1. InArchive \subseteq FiledRow
  BY DEF Basics, InArchive, Filed, FiledRow, Row
<1>2. \A r \in InArchive : r.round \in 0 .. MaxRound
  BY <1>1 DEF FiledRow
<1> QED BY <1>1, <1>2, NewestAmong

(***************************************************************************)
(* Snapshots.                                                              *)
(***************************************************************************)

\* A core as it goes into a snapshot: that of now, or one that has trained.
Successor(c) ==
  c \in Core /\ c.stage = core.stage /\ c.stale = core.stale /\ c.round >= core.round

LEMMA NewestIsKept ==
  ASSUME NEW rs, NEW top \in rs, \A r \in rs : r.round <= top.round, rs \subseteq Row
  PROVE  top \in Pruned(rs) /\ Pruned(rs) \subseteq rs
<1>1. {s \in rs : s.round > top.round} = {}
  BY DEF Row
<1>2. Cardinality({s \in rs : s.round > top.round}) = 0
  BY <1>1, FS_EmptySet
<1>3. 0 < Keep
  BY LearnerConstantsOK
<1>4. Cardinality({s \in rs : s.round > top.round}) < Keep
  BY <1>2, <1>3
<1> QED BY <1>4 DEF Pruned

LEMMA RowTyped ==
  ASSUME Basics, NEW c \in Core
  PROVE  RowOf(c) \in Row /\ RowOf(c).round = c.round /\ RowOf(c).arch = arch /\ RowOf(c).stale = c.stale
BY DEF Basics, Core, RowOf, Row

LEMMA SnapshotKeeps ==
  ASSUME Basics, Inv, NEW c, Successor(c), SnapshotOf(c), arch' = arch,
         proc' = "down" => proc = "down"
  PROVE  /\ Inv' /\ rows' \subseteq Row /\ saved' \in Row \cup {None} /\ archived' = archived
         /\ core'.stage = core.stage /\ core'.round = c.round /\ core'.stale = core.stale
<1> USE DEF Successor
<1>0. /\ core'.stage = core.stage /\ core'.round = c.round /\ core'.stale = core.stale /\ archived' = archived
  BY DEF SnapshotOf, SnapshotSkipped, SnapshotTaken, Core, Storage
<1>1. CASE UNCHANGED <<rows, saved, misfiled>>
  BY <1>0, <1>1 DEF Basics, Inv, RoundsDiffer, SavedOnTop, CoreIsAhead, PastBuild, ResetIsKept, Core, Row
<1>2. ASSUME rows' = Pruned({r \in rows : r.round # c.round} \cup {RowOf(c)}),
             c.stage = "ready", saved' = (IF misfiled THEN None ELSE RowOf(c)), misfiled' = misfiled
      PROVE  Inv' /\ rows' \subseteq Row /\ saved' \in Row \cup {None}
  <2> DEFINE all == {r \in rows : r.round # c.round} \cup {RowOf(c)}
  <2>1. all \subseteq Row /\ rows' \subseteq all /\ \A r, s \in all : r.round = s.round => r = s
    BY <1>2, RowTyped DEF Pruned, Basics, Inv, RoundsDiffer
  <2>2. ~misfiled => \A r \in all : r.round <= c.round
    BY <1>2, RowTyped DEF Basics, Inv, CoreIsAhead, Core, Row
  <2>3. ~misfiled => RowOf(c) \in rows'
    BY <1>2, <2>1, <2>2, NewestIsKept, RowTyped
  <2> HIDE DEF all
  <2>4. RoundsDiffer'
    BY <2>1 DEF RoundsDiffer
  <2>5. SavedOnTop' /\ CoreIsAhead' /\ PastBuild' /\ ResetIsKept'
    BY <1>0, <1>2, <2>1, <2>2, <2>3, RowTyped
       DEF SavedOnTop, CoreIsAhead, PastBuild, ResetIsKept, Basics, Inv
  <2> QED BY <1>2, <2>1, <2>4, <2>5, RowTyped DEF Inv
<1>3. ASSUME rows' = Pruned({r \in rows : r.round # c.round} \cup {RowOf(c)}),
             c.stage # "ready",
             misfiled' = (misfiled \/ (rows # {} /\ Newest(rows).round <= c.round)),
             saved' = IF misfiled' THEN None ELSE saved
      PROVE  Inv' /\ rows' \subseteq Row /\ saved' \in Row \cup {None}
  <2> DEFINE all == {r \in rows : r.round # c.round} \cup {RowOf(c)}
  <2>1. all \subseteq Row /\ rows' \subseteq all /\ \A r, s \in all : r.round = s.round => r = s
    BY <1>3, RowTyped DEF Pruned, Basics, Inv, RoundsDiffer
  <2>2. RoundsDiffer' /\ CoreIsAhead' /\ PastBuild' /\ ResetIsKept'
    BY <1>0, <1>3, <2>1 DEF RoundsDiffer, CoreIsAhead, PastBuild, ResetIsKept, Inv
  <2>3. SavedOnTop'
    <3> SUFFICES ASSUME saved # None, ~misfiled, saved.arch = arch, ~misfiled', saved' = saved
                 PROVE  saved \in rows' /\ \A r \in rows' : r.round <= saved.round
      BY <1>3 DEF SavedOnTop
    <3>1. saved \in rows /\ \A r \in rows : r.round <= saved.round
      BY DEF Inv, SavedOnTop
    <3>2. Newest(rows) = saved
      BY <3>1, NewestIsOnTop DEF Basics, Inv, RoundsDiffer
    <3>3. c.round < saved.round
      <4>1. ~(rows # {} /\ Newest(rows).round <= c.round)
        BY <1>3, Zenon
      <4>2. ~(saved.round <= c.round)
        BY <3>1, <3>2, <4>1
      <4>3. saved.round \in Int /\ c.round \in Int
        BY <3>1 DEF Basics, Row, Core
      <4> QED BY <4>2, <4>3
    <3>4. saved \in all /\ \A r \in all : r.round <= saved.round
      BY <3>1, <3>3, RowTyped DEF Basics, Row, Core
    <3> QED BY <1>3, <2>1, <3>4, NewestIsKept
  <2> QED BY <1>3, <2>1, <2>2, <2>3 DEF Inv, Basics
<1>4. \/ UNCHANGED <<rows, saved, misfiled>>
      \/ /\ rows' = Pruned({r \in rows : r.round # c.round} \cup {RowOf(c)})
         /\ c.stage = "ready" /\ saved' = (IF misfiled THEN None ELSE RowOf(c)) /\ misfiled' = misfiled
      \/ /\ rows' = Pruned({r \in rows : r.round # c.round} \cup {RowOf(c)})
         /\ c.stage # "ready"
         /\ misfiled' = (misfiled \/ (rows # {} /\ Newest(rows).round <= c.round))
         /\ saved' = IF misfiled' THEN None ELSE saved
  BY Zenon DEF SnapshotOf, SnapshotSkipped, SnapshotTaken, Storage
<1>5. rows' \subseteq Row /\ saved' \in Row \cup {None} /\ Inv'
  BY <1>1, <1>2, <1>3, <1>4 DEF Basics
<1> QED BY <1>0, <1>5

(***************************************************************************)
(* The core's record.                                                      *)
(***************************************************************************)
CoreOK(c) == c \in Core /\ Len(c.ring) <= Window

LEMMA FreshCoreOK == CoreOK(FreshCore) /\ FreshCore.stage = "opening"
BY LearnerConstantsOK DEF CoreOK, FreshCore, Core, Models

LEMMA AnchoredOK ==
  ASSUME NEW c, CoreOK(c) PROVE Anchored(c) \in Seq(Errors) /\ Len(Anchored(c)) <= Window
<1> DEFINE longer == Append(c.ring, c.mae)
<1>0. c.ring \in Seq(Errors) /\ Len(c.ring) <= Window /\ c.mae \in Models
  BY DEF CoreOK, Core
<1>1. CASE ~c.golden \/ c.mae = Broken
  BY <1>0, <1>1 DEF Anchored
<1>2. CASE ~(~c.golden \/ c.mae = Broken)
  <2>1. c.mae \in Errors
    BY <1>0, <1>2 DEF Models
  <2>2. longer \in Seq(Errors) /\ longer # <<>> /\ Len(longer) = Len(c.ring) + 1
    BY <1>0, <2>1, AppendProperties
  <2>3. Tail(longer) \in Seq(Errors) /\ Len(Tail(longer)) = Len(longer) - 1
    BY <2>2, HeadTailProperties
  <2>4. Anchored(c) = IF Len(longer) > Window THEN Tail(longer) ELSE longer
    BY <1>2 DEF Anchored
  <2>5. Len(c.ring) \in Nat /\ Len(longer) \in Nat /\ Window \in Nat
    BY <1>0, <2>2, LenProperties, LearnerConstantsOK
  <2> HIDE DEF longer
  <2> QED BY <1>0, <2>2, <2>3, <2>4, <2>5
<1> QED BY <1>1, <1>2

LEMMA SnapshotOK ==
  ASSUME NEW c, CoreOK(c), SnapshotOf(c) PROVE CoreOK(core')
<1>0. /\ c \in Core /\ c.ring \in Seq(Errors) /\ Len(c.ring) <= Window /\ c.mae \in Models
      /\ c.round \in 0 .. MaxRound
  BY DEF CoreOK, Core
<1>1. CASE core' = c
  BY <1>1
<1>2. CASE core' = [c EXCEPT !.pending = FALSE, !.retryAt = c.round + Interval]
  <2>1. c.round + Interval \in 0 .. MaxRound + Interval
    BY <1>0, LearnerConstantsOK
  <2> QED BY <1>0, <1>2, <2>1 DEF CoreOK, Core
<1>3. CASE core' = [c EXCEPT !.pending = FALSE, !.lastSnap = c.round, !.ring = Anchored(c)]
  BY <1>0, <1>3, AnchoredOK DEF CoreOK, Core
<1> QED BY <1>1, <1>2, <1>3, Zenon DEF SnapshotOf, SnapshotSkipped, SnapshotTaken

LEMMA ThenKeeps ==
  ASSUME Basics, Inv, NEW c, Successor(c), CoreOK(c), NEW due, NEW idle,
         Then(c, due, idle), UNCHANGED <<arch, proc>>
  PROVE  /\ Inv' /\ rows' \subseteq Row /\ saved' \in Row \cup {None} /\ archived' = archived
         /\ CoreOK(core') /\ core'.stage = core.stage
<1> DEFINE scheduled == [c EXCEPT !.pending = @ \/ due]
<1>1. CoreOK(scheduled) /\ Successor(scheduled)
  <2>1. (c.pending \/ due) \in BOOLEAN
    BY Zenon
  <2> HIDE DEF scheduled
  <2>2. PICK p \in BOOLEAN : scheduled = [c EXCEPT !.pending = p]
    BY <2>1, Zenon DEF scheduled
  <2> QED BY <2>2 DEF CoreOK, Successor, Core
<1> HIDE DEF scheduled
<1>2. CASE SnapshotOf(scheduled)
  BY <1>1, <1>2, SnapshotKeeps, SnapshotOK
<1>3. CASE core' = scheduled /\ UNCHANGED Storage
  <2>1. /\ core'.stage = core.stage /\ core'.stale = core.stale /\ core'.round >= core.round
        /\ core'.round \in Int /\ core.round \in Int
    BY <1>1, <1>3 DEF Successor, Basics, Core
  <2>2. Inv'
    BY <1>3, <2>1 DEF Inv, RoundsDiffer, SavedOnTop, CoreIsAhead, PastBuild, ResetIsKept, Storage,
                      Basics, Row
  <2> QED BY <1>1, <1>3, <2>1, <2>2 DEF Storage, Basics
<1>4. SnapshotOf(scheduled) \/ (core' = scheduled /\ UNCHANGED Storage)
  BY Zenon DEF Then, scheduled
<1> QED BY <1>2, <1>3, <1>4

\* Either way a training step goes, it is a successor of the core.
LEMMA Trained ==
  ASSUME Basics, CoreOK(core), core.round < MaxRound, NEW mae \in Models, NEW storm \in BOOLEAN
  PROVE  /\ CoreOK(Trains(mae)) /\ Successor(Trains(mae))
         /\ CoreOK(RolledBack(storm)) /\ Successor(RolledBack(storm))
         /\ CoreOK(Sits(storm)) /\ Successor(Sits(storm))
<1>0. core \in Core /\ core.round \in 0 .. MaxRound
  <2>1. core \in Core
    BY DEF CoreOK
  <2> QED BY <2>1 DEF Core
<1>1. core \in Core /\ core.round + 1 \in 0 .. MaxRound /\ core.round \in Nat
  <2>1. MaxRound \in Nat
    BY LearnerConstantsOK
  <2> QED BY <1>0, <2>1
<1>2. ASSUME NEW n \in 0 .. MaxRound, n >= core.round, NEW m \in Models, NEW f \in BOOLEAN
      PROVE  /\ CoreOK([core EXCEPT !.round = n, !.mae = m]) /\ Successor([core EXCEPT !.round = n, !.mae = m])
             /\ CoreOK([core EXCEPT !.round = n, !.frozen = f])
             /\ Successor([core EXCEPT !.round = n, !.frozen = f])
  BY <1>1, <1>2 DEF CoreOK, Successor, Core
<1>3. core.round + 1 >= core.round
  BY <1>1
<1> QED BY <1>1, <1>2, <1>3 DEF Trains, RolledBack, Sits

(***************************************************************************)
(* The steps.                                                              *)
(***************************************************************************)
Typed == Basics /\ CoreOK(core)
IInv  == Typed /\ Inv

LEMMA NewCore ==
  ASSUME IInv, core' = FreshCore, UNCHANGED <<rows, archived, saved, misfiled>>,
         arch' = arch \/ (arch' = 2 /\ proc = "down")
  PROVE  IInv'
<1>1. CoreOK(core') /\ core'.stage = "opening" /\ arch' \in {1, 2}
  BY FreshCoreOK DEF IInv, Typed, Basics
<1>2. saved # None /\ saved.arch = arch' => arch' = arch
  BY DEF IInv, Typed, Basics, Inv, PastBuild, Row
<1>3. saved # None => saved.arch <= arch'
  BY DEF IInv, Typed, Basics, Inv, PastBuild, Row
<1> QED BY <1>1, <1>2, <1>3
        DEF IInv, Typed, Basics, Inv, RoundsDiffer, SavedOnTop, CoreIsAhead, PastBuild, ResetIsKept, CoreOK

LEMMA LoadKeeps == ASSUME IInv, NEW mae \in Models, Load(mae) PROVE IInv'
<1> USE DEF IInv, Typed
<1>0. /\ core \in Core /\ Len(core.ring) <= Window /\ rows \subseteq Row /\ archived \subseteq FiledRow
      /\ UNCHANGED <<proc, arch, saved, misfiled>> /\ proc # "down"
  BY DEF Load, CoreOK, Basics
<1>1. CASE Loadable
  <2>0. core' = LoadedFrom(Newest(rows)) /\ UNCHANGED <<rows, archived>> /\ rows # {}
    BY <1>1 DEF Load, Loadable
  <2>1. Newest(rows) \in Row /\ \A r \in rows : r.round <= Newest(rows).round
    BY <1>0, <2>0, NewestExists
  <2> DEFINE row == Newest(rows)
  <2>2. (IF ~core.golden \/ row.mae = Broken THEN core.ring ELSE <<row.mae>>) \in Seq(Errors)
        /\ Len(IF ~core.golden \/ row.mae = Broken THEN core.ring ELSE <<row.mae>>) <= Window
    <3>1. CASE ~core.golden \/ row.mae = Broken
      BY <1>0, <3>1 DEF Core
    <3>2. CASE ~(~core.golden \/ row.mae = Broken)
      <4>1. row.mae \in Errors
        BY <2>1, <3>2 DEF Row, Models
      <4>2. <<row.mae>> \in Seq(Errors) /\ Len(<<row.mae>>) = 1 /\ 1 <= Window
        BY <4>1, LearnerConstantsOK
      <4> QED BY <3>2, <4>2
    <3> QED BY <3>1, <3>2
  <2>3. /\ CoreOK(core') /\ core'.stage = "ready" /\ core'.round = row.round /\ core'.stale = row.stale
    BY <1>0, <2>0, <2>1, <2>2 DEF LoadedFrom, Row, Core, CoreOK
  <2>4. saved # None /\ ~misfiled /\ saved.arch = arch => saved = row
    BY NewestIsOnTop DEF Inv, SavedOnTop, RoundsDiffer, Basics
  <2> QED BY <1>0, <2>0, <2>1, <2>3, <2>4
          DEF Basics, Inv, RoundsDiffer, SavedOnTop, CoreIsAhead, PastBuild, ResetIsKept, CoreOK
<1>2. CASE ~Loadable
  <2>0. /\ rows' = {} /\ archived' = IF InArchive = {} THEN {} ELSE {Newest(InArchive)}
        /\ core' = [StartedFrom(archived') EXCEPT !.mae = mae]
    BY <1>2 DEF Load
  <2>1. archived' \subseteq FiledRow
    BY <2>0, NewestFiled
  <2>2. archived' # {} => Newest(archived') \in FiledRow
    <3>1. \A r \in archived' : r.round \in 0 .. MaxRound
      BY <2>1 DEF FiledRow
    <3> QED BY <2>1, <3>1, NewestAmong
  <2>3. CoreOK(core')
    BY <1>0, <2>0, <2>2 DEF StartedFrom, CoreOK, Core, FiledRow
  <2>4. ~(saved # None /\ ~misfiled /\ saved.arch = arch)
    <3> SUFFICES ASSUME saved # None, ~misfiled, saved.arch = arch PROVE FALSE
      OBVIOUS
    <3>1. saved \in rows /\ \A r \in rows : r.round <= saved.round
      BY DEF Inv, SavedOnTop
    <3>2. Newest(rows) = saved
      BY <1>0, <3>1, NewestIsOnTop DEF Inv, RoundsDiffer
    <3> QED BY <1>2, <3>1, <3>2 DEF Loadable
  <2> QED BY <1>0, <2>0, <2>1, <2>3, <2>4
          DEF Basics, Inv, RoundsDiffer, SavedOnTop, CoreIsAhead, PastBuild, ResetIsKept, CoreOK
<1> QED BY <1>1, <1>2

LEMMA ResetKeeps == ASSUME IInv, Reset PROVE IInv'
<1> USE DEF IInv, Typed
<1>0. /\ core \in Core /\ rows \subseteq Row /\ archived \subseteq FiledRow /\ saved' = None
      /\ UNCHANGED <<arch, proc>> /\ proc # "down" /\ core' = Emptied
  BY DEF Reset, CoreOK, Basics
<1>1. CoreOK(core')
  BY <1>0, FreshCoreOK DEF Emptied, CoreOK, Core
<1>2. ASSUME NEW rs \in SUBSET Row PROVE Discarded(rs) \subseteq Row
  BY DEF Discarded, Row
<1>f. ASSUME NEW rs \in SUBSET FiledRow PROVE Discarded(rs) \subseteq FiledRow
  BY DEF Discarded, FiledRow
<1>3. ASSUME NEW rs \in SUBSET Row, \A r, s \in rs : r.round = s.round => r = s
      PROVE  \A r, s \in Discarded(rs) : r.round = s.round => r = s
  BY ZenonT(60), <1>3 DEF Discarded, Row
<1>4. \/ rows' = {} /\ archived' = (IF InArchive = {} THEN {} ELSE Discarded({Newest(InArchive)}))
      \/ rows' = Discarded(rows) /\ archived' = Discarded(archived) /\ misfiled'
  BY Zenon DEF Reset
<1>5. InArchive # {} => {Newest(InArchive)} \subseteq FiledRow
  BY NewestFiled
<1>6. rows' \subseteq Row /\ archived' \subseteq FiledRow
  BY <1>0, <1>2, <1>f, <1>4, <1>5
<1>7. RoundsDiffer' /\ CoreIsAhead'
  BY <1>0, <1>3, <1>4 DEF RoundsDiffer, CoreIsAhead, Inv
<1> QED BY <1>0, <1>1, <1>6, <1>7 DEF Basics, Inv, SavedOnTop, PastBuild, ResetIsKept, CoreOK

LEMMA StepKeeps == ASSUME IInv, [Next]_vars PROVE IInv'
<1> USE DEF IInv, Typed
<1>1. CASE Boot \/ Respawn \/ ShutdownAcked \/ Crash
  BY <1>1, NewCore DEF Boot, Respawn, ShutdownAcked, Crash, Down, Storage
<1>2. CASE Deploy
  <2>1. /\ arch = 1 /\ arch' = 2 /\ proc = "down" /\ UNCHANGED <<proc, core, rows, archived, saved, misfiled>>
    BY <1>2 DEF Deploy, Storage
  <2>2. core.stage = "opening" /\ (saved # None => saved.arch = 1)
    BY <2>1 DEF Inv, PastBuild, Basics, Row
  <2> QED BY <2>1, <2>2
          DEF Basics, CoreOK, Inv, RoundsDiffer, SavedOnTop, CoreIsAhead, PastBuild, ResetIsKept
<1>3. CASE OpenDatabase \/ ReadGoldenSet \/ InitFails
  <2>1. /\ UNCHANGED <<rows, archived, arch, saved, misfiled, proc>> /\ proc # "down"
        /\ \/ core' = [core EXCEPT !.stage = "loading", !.db = "open"]
           \/ core' = [core EXCEPT !.golden = TRUE] /\ core.stage = "loading"
           \/ core' = [core EXCEPT !.stage = "failed"]
    BY <1>3 DEF OpenDatabase, ReadGoldenSet, InitFails, Storage
  <2>2. CoreOK(core') /\ core'.stage # "ready"
    BY <2>1 DEF CoreOK, Core
  <2> QED BY <2>1, <2>2 DEF Basics, CoreOK, Inv, RoundsDiffer, SavedOnTop, CoreIsAhead, PastBuild, ResetIsKept
<1>4. ASSUME NEW mae \in Models, Load(mae) PROVE IInv'
  BY <1>4, LoadKeeps
<1>5. ASSUME NEW mae \in Models, NEW idle \in BOOLEAN, Update(mae, idle) PROVE IInv'
  <2>1. /\ core.round < MaxRound /\ UNCHANGED <<arch, proc>>
        /\ Then(Trains(mae), SnapshotDue(Trains(mae)), idle)
    BY <1>5 DEF Update, CanUpdate, OutsideOfCore
  <2> QED BY <2>1, Trained, ThenKeeps DEF Basics, CoreOK
<1>6. ASSUME NEW storm \in BOOLEAN, NEW idle \in BOOLEAN, UpdateDiverges(storm, idle) PROVE IInv'
  <2>1. core.round < MaxRound /\ UNCHANGED <<arch, proc>> /\ Then(RolledBack(storm), FALSE, idle)
    BY <1>6 DEF UpdateDiverges, CanUpdate, OutsideOfCore
  <2> QED BY <2>1, Trained, ThenKeeps DEF Basics, CoreOK, Models
<1>7. ASSUME NEW storm \in BOOLEAN, UpdateFrozen(storm) PROVE IInv'
  <2>1. /\ core.round < MaxRound /\ UNCHANGED <<rows, archived, saved, misfiled, arch, proc>>
        /\ core' = Sits(storm)
    BY <1>7 DEF UpdateFrozen, CanUpdate, OutsideOfCore, Storage
  <2>2. CoreOK(core') /\ Successor(core')
    BY <2>1, Trained DEF Models
  <2> QED BY <2>1, <2>2 DEF Successor, Basics, CoreOK, Core, Row, Inv, RoundsDiffer, SavedOnTop,
                            CoreIsAhead, PastBuild, ResetIsKept
<1>8. CASE Reset
  BY <1>8, ResetKeeps
<1>9. CASE RestartWorker
  <2>1. SnapshotOf(core) /\ UNCHANGED <<arch, proc>>
    BY <1>9 DEF RestartWorker
  <2>2. Successor(core)
    BY DEF Successor, CoreOK, Core
  <2> QED BY <2>1, <2>2, SnapshotKeeps, SnapshotOK DEF Basics, CoreOK
<1>10. CASE Stop
  <2>1. SnapshotOf(core) /\ UNCHANGED arch /\ proc = "up" /\ proc' = "stopping"
    BY <1>10 DEF Stop
  <2>2. Successor(core)
    BY DEF Successor, CoreOK, Core
  <2> QED BY <2>1, <2>2, SnapshotKeeps, SnapshotOK DEF Basics, CoreOK
<1>11. CASE UNCHANGED vars
  BY <1>11 DEF vars, Basics, CoreOK, Inv, RoundsDiffer, SavedOnTop, CoreIsAhead, PastBuild, ResetIsKept
<1> QED BY <1>1, <1>2, <1>3, <1>4, <1>5, <1>6, <1>7, <1>8, <1>9, <1>10, <1>11 DEF Next

LEMMA InitHolds == Init => IInv
<1> SUFFICES ASSUME Init PROVE IInv
  OBVIOUS
<1>1. core = FreshCore /\ rows = {} /\ archived = {} /\ arch = 1 /\ saved = None /\ ~misfiled
  BY Zenon DEF Init
<1> QED BY <1>1, FreshCoreOK
        DEF IInv, Typed, Basics, CoreOK, Inv, RoundsDiffer, SavedOnTop, CoreIsAhead, PastBuild, ResetIsKept

LEMMA Inductive == Spec => []IInv
BY InitHolds, StepKeeps, PTL DEF Spec

\* Every start of the learner finds the last snapshot that a loaded core took
\* on top of the table, however many rounds, snapshots, restarts, resets and
\* failures came before.
THEOREM LastSnapshotKept == Spec => []LastSnapshotIsNewest
<1>1. IInv => LastSnapshotIsNewest
  <2> SUFFICES ASSUME IInv, saved # None, ~misfiled, saved.arch = arch
               PROVE  rows # {} /\ Newest(rows) = saved
    BY DEF LastSnapshotIsNewest
  <2>1. saved \in rows /\ \A r \in rows : r.round <= saved.round
    BY DEF IInv, Inv, SavedOnTop
  <2> QED BY <2>1, NewestIsOnTop DEF IInv, Typed, Basics, Inv, RoundsDiffer
<1> QED BY <1>1, Inductive, PTL

\* From the first snapshot after a reset on, no core holds weights that the
\* reset discarded.
THEOREM ResetsAreKept == Spec => []ResetIsKept
BY Inductive, PTL DEF IInv, Inv

(***************************************************************************)
(* Types.                                                                  *)
(***************************************************************************)
ProcessOK == proc \in {"down", "up", "stopping"} /\ restarting \in BOOLEAN /\ misfiled \in BOOLEAN
CountsOK  == resets \in 0 .. MaxResets /\ faults \in 0 .. MaxFaults
ArchiveOK == \A a, b \in archived : a = b

LEMMA ProcessStep == ASSUME ProcessOK, [Next]_vars PROVE ProcessOK'
<1>1. \/ proc' = proc \/ proc' = "down" \/ proc' = "up" \/ proc' = "stopping"
  BY Zenon DEF Next, Boot, OpenDatabase, ReadGoldenSet, InitFails, Load, Update, UpdateDiverges,
       UpdateFrozen, Reset, RestartWorker, Respawn, Stop, ShutdownAcked, Crash, Deploy, Down,
       OutsideOfCore, vars
<1>2. restarting' = restarting \/ restarting' = TRUE \/ restarting' = FALSE
  BY Zenon DEF Next, Boot, OpenDatabase, ReadGoldenSet, InitFails, Load, Update, UpdateDiverges,
       UpdateFrozen, Reset, RestartWorker, Respawn, Stop, ShutdownAcked, Crash, Deploy, Down,
       OutsideOfCore, vars
<1>3. \/ misfiled' = misfiled \/ misfiled' = TRUE
      \/ \E c : misfiled' = (misfiled \/ (rows # {} /\ Newest(rows).round <= c.round))
  <2>1. ASSUME NEW c, SnapshotOf(c)
        PROVE  \/ misfiled' = misfiled
               \/ misfiled' = (misfiled \/ (rows # {} /\ Newest(rows).round <= c.round))
    BY <2>1, Zenon DEF SnapshotOf, SnapshotSkipped, SnapshotTaken, Storage
  <2>2. ASSUME NEW c, NEW due, NEW idle, Then(c, due, idle)
        PROVE  misfiled' = misfiled \/ \E d : SnapshotOf(d)
    BY <2>2, Zenon DEF Then, Storage
  <2>3. CASE \/ \E mae \in Models, idle \in BOOLEAN : Update(mae, idle)
             \/ \E storm, idle \in BOOLEAN : UpdateDiverges(storm, idle)
             \/ RestartWorker \/ Stop
    BY <2>1, <2>2, <2>3, Zenon DEF Update, UpdateDiverges, RestartWorker, Stop
  <2>4. CASE Reset
    BY <2>4, Zenon DEF Reset
  <2>5. CASE \/ Boot \/ OpenDatabase \/ ReadGoldenSet \/ InitFails \/ \E mae \in Models : Load(mae)
             \/ \E storm \in BOOLEAN : UpdateFrozen(storm)
             \/ Respawn \/ ShutdownAcked \/ Crash \/ Deploy \/ UNCHANGED vars
    BY <2>5, Zenon DEF Boot, OpenDatabase, ReadGoldenSet, InitFails, Load, UpdateFrozen, Respawn,
                 ShutdownAcked, Crash, Deploy, Down, Storage, vars
  <2> QED BY <2>3, <2>4, <2>5, Zenon DEF Next
<1> QED BY <1>1, <1>2, <1>3, Zenon DEF ProcessOK

LEMMA CountsStep == ASSUME CountsOK, [Next]_vars PROVE CountsOK'
<1> USE LearnerConstantsOK DEF CountsOK, Fault
<1>1. CASE Reset
  BY <1>1 DEF Reset
<1>2. CASE InitFails \/ RestartWorker \/ Crash \/ Deploy
  BY <1>2 DEF InitFails, RestartWorker, Crash, Deploy, Down
<1>3. CASE \/ Boot \/ OpenDatabase \/ ReadGoldenSet \/ Respawn \/ Stop \/ ShutdownAcked
           \/ \E mae \in Models : Load(mae)
           \/ \E mae \in Models, idle \in BOOLEAN : Update(mae, idle)
           \/ \E storm, idle \in BOOLEAN : UpdateDiverges(storm, idle)
           \/ \E storm \in BOOLEAN : UpdateFrozen(storm)
           \/ UNCHANGED vars
  BY <1>3 DEF Boot, OpenDatabase, ReadGoldenSet, Respawn, Stop, ShutdownAcked, Down, Load, Update, UpdateDiverges,
              UpdateFrozen, OutsideOfCore, vars
<1> QED BY <1>1, <1>2, <1>3 DEF Next

LEMMA ArchiveStep == ASSUME ArchiveOK, [Next]_vars PROVE ArchiveOK'
<1> USE DEF ArchiveOK
<1>1. ASSUME NEW mae \in Models, Load(mae) PROVE ArchiveOK'
  <2>1. archived' = archived \/ archived' = {} \/ archived' = {Newest(InArchive)}
    BY <1>1 DEF Load
  <2> QED BY <2>1
<1>2. CASE Reset
  <2>1. \/ archived' = {} \/ archived' = Discarded({Newest(InArchive)})
        \/ archived' = Discarded(archived)
    BY <1>2, Zenon DEF Reset
  <2>2. ASSUME NEW rs, \A a, b \in rs : a = b PROVE \A a, b \in Discarded(rs) : a = b
    BY <2>2 DEF Discarded
  <2> QED BY <2>1, <2>2
<1>3. CASE \/ \E mae \in Models, idle \in BOOLEAN : Update(mae, idle)
           \/ \E storm, idle \in BOOLEAN : UpdateDiverges(storm, idle)
           \/ \E storm \in BOOLEAN : UpdateFrozen(storm)
           \/ Boot \/ OpenDatabase \/ ReadGoldenSet \/ InitFails \/ Respawn \/ ShutdownAcked \/ Crash \/ Deploy
           \/ RestartWorker \/ Stop \/ UNCHANGED vars
  <2>1. archived' = archived
    BY <1>3, Zenon DEF Update, UpdateDiverges, UpdateFrozen, Then, SnapshotOf, SnapshotSkipped,
         SnapshotTaken, Boot, OpenDatabase, ReadGoldenSet, InitFails, Respawn, ShutdownAcked, Crash, Deploy,
         RestartWorker, Stop, Down, Storage, vars
  <2> QED BY <2>1
<1> QED BY <1>1, <1>2, <1>3 DEF Next

\* TypeOK always: the gate's window stays bounded and no two snapshots share a
\* round, which "the newest snapshot" relies on.
THEOREM LearnerTypeCorrect == Spec => []TypeOK
<1>1. Init => ProcessOK /\ CountsOK /\ ArchiveOK
  <2>1. Init => ProcessOK
    BY Zenon DEF Init, ProcessOK
  <2>2. Init => CountsOK /\ ArchiveOK
    BY LearnerConstantsOK DEF Init, CountsOK, ArchiveOK
  <2> QED BY <2>1, <2>2
<1>2. ProcessOK /\ CountsOK /\ ArchiveOK /\ [Next]_vars => (ProcessOK /\ CountsOK /\ ArchiveOK)'
  BY ProcessStep, CountsStep, ArchiveStep
<1>3. IInv /\ ProcessOK /\ CountsOK /\ ArchiveOK => TypeOK
  <2> SUFFICES ASSUME IInv, ProcessOK, CountsOK, ArchiveOK PROVE TypeOK
    OBVIOUS
  <2>1. Cardinality(archived) <= 1
    <3>1. CASE archived = {}
      BY <3>1, FS_EmptySet
    <3>2. CASE archived # {}
      <4>1. PICK a \in archived : archived = {a}
        BY <3>2 DEF ArchiveOK
      <4> QED BY <4>1, FS_Singleton
    <3> QED BY <3>1, <3>2
  <2> QED BY <2>1, Zenon DEF TypeOK, IInv, Typed, Basics, CoreOK, Inv, RoundsDiffer, ProcessOK, CountsOK
<1> QED BY <1>1, <1>2, <1>3, Inductive, PTL DEF Spec

(***************************************************************************)
(* The gate.  An error is low for a model that errs by x when x is more    *)
(* than a fifth above it: of more than half low entries the median is low. *)
(***************************************************************************)
Low(ring, x) == {i \in DOMAIN ring : 12 * ring[i] < 10 * x}

LEMMA RingIndices ==
  ASSUME NEW ring \in Seq(Errors)
  PROVE  /\ Len(ring) \in Nat /\ DOMAIN ring = 1 .. Len(ring)
         /\ IsFiniteSet(DOMAIN ring) /\ Cardinality(DOMAIN ring) = Len(ring)
         /\ \A i \in DOMAIN ring : ring[i] \in Errors /\ ring[i] \in Nat
         /\ \A I \in SUBSET DOMAIN ring : IsFiniteSet(I) /\ Cardinality(I) \in Nat
<1>1. Len(ring) \in Nat /\ DOMAIN ring = 1 .. Len(ring)
  BY LenProperties
<1>2. IsFiniteSet(DOMAIN ring) /\ Cardinality(DOMAIN ring) = Len(ring)
  <2>1. 1 \in Int /\ Len(ring) \in Int
    BY <1>1
  <2>2. IsFiniteSet(1 .. Len(ring)) /\ Cardinality(1 .. Len(ring)) = IF 1 > Len(ring) THEN 0 ELSE Len(ring) - 1 + 1
    BY <2>1, FS_Interval, Zenon
  <2> QED BY <1>1, <2>2
<1>3. ASSUME NEW I \in SUBSET DOMAIN ring PROVE IsFiniteSet(I) /\ Cardinality(I) \in Nat
  BY <1>2, FS_Subset, FS_CardinalityType
<1>4. \A i \in DOMAIN ring : ring[i] \in Errors
  BY <1>1, ElementOfSeq
<1>5. Errors \subseteq Nat
  BY LearnerConstantsOK
<1> QED BY <1>1, <1>2, <1>3, <1>4, <1>5

LEMMA LeastNumber ==
  ASSUME NEW T \in SUBSET Nat, T # {}
  PROVE  \E m \in T : \A n \in T : m <= n
<1> DEFINE Less == OpToRel(<, Nat)
<1>1. IsWellFoundedOn(Less, Nat)
  BY NatLessThanWellFounded
<1>2. Less = {ss \in Nat \X Nat : ss[1] < ss[2]}
  BY DEF OpToRel
<1> HIDE DEF Less
<1>3. PICK m \in T : \A n \in T : ~ (<<n, m>> \in Less)
  BY <1>1, WFMin
<1>4. ASSUME NEW n \in T PROVE m <= n
  <2>1. ~(n < m)
    BY <1>2, <1>3
  <2> QED BY <2>1
<1> QED BY <1>4

\* There is a k-th error, the least that k entries do not exceed.
LEMMA SortedIsLow ==
  ASSUME NEW ring \in Seq(Errors), NEW k \in 1 .. Len(ring), NEW x \in Nat,
         k <= Cardinality(Low(ring, x))
  PROVE  Sorted(ring, k) \in Nat /\ 12 * Sorted(ring, k) < 10 * x
<1> DEFINE Below(e) == {i \in DOMAIN ring : ring[i] < e}
           UpTo(e)  == {i \in DOMAIN ring : ring[i] <= e}
           IsIt(e)  == Cardinality(Below(e)) < k /\ k <= Cardinality(UpTo(e))
           Enough   == {e \in Nat : k <= Cardinality(UpTo(e))}
<1>1. /\ k \in Nat /\ k >= 1
      /\ \A i \in DOMAIN ring : ring[i] \in Errors /\ ring[i] \in Nat
  BY RingIndices
<1>2. /\ \A I \in SUBSET DOMAIN ring : IsFiniteSet(I) /\ Cardinality(I) \in Nat
      /\ \A I, J \in SUBSET DOMAIN ring : I \subseteq J => Cardinality(I) <= Cardinality(J)
  <2>1. \A I \in SUBSET DOMAIN ring : IsFiniteSet(I) /\ Cardinality(I) \in Nat
    BY RingIndices
  <2>2. ASSUME NEW I \in SUBSET DOMAIN ring, NEW J \in SUBSET DOMAIN ring, I \subseteq J
        PROVE  Cardinality(I) <= Cardinality(J)
    BY <2>1, <2>2, FS_Subset
  <2> QED BY <2>1, <2>2
<1>3. \A e \in Nat : Below(e) \in SUBSET DOMAIN ring /\ UpTo(e) \in SUBSET DOMAIN ring
  OBVIOUS
<1>4. Low(ring, x) \in SUBSET DOMAIN ring /\ Low(ring, x) \subseteq UpTo(x)
  BY <1>1 DEF Low
<1>5. x \in Enough
  <2> HIDE DEF UpTo
  <2>1. Cardinality(Low(ring, x)) <= Cardinality(UpTo(x))
    BY <1>2, <1>3, <1>4
  <2>2. Cardinality(Low(ring, x)) \in Nat /\ Cardinality(UpTo(x)) \in Nat
    BY <1>2, <1>3, <1>4
  <2> QED BY <1>1, <2>1, <2>2
<1>6. PICK e \in Enough : \A d \in Enough : e <= d
  <2> HIDE DEF UpTo
  <2>1. Enough \subseteq Nat /\ Enough # {}
    BY <1>5
  <2> QED BY <2>1, LeastNumber
<1>7. IsIt(e)
  <2>1. CASE e = 0
    <3>1. Below(e) = {}
      BY <1>1, <2>1
    <3>2. Cardinality(Below(e)) = 0
      BY <3>1, FS_EmptySet
    <3> HIDE DEF Below, UpTo
    <3> QED BY <1>1, <1>6, <3>2
  <2>2. CASE e # 0
    <3>1. e - 1 \in Nat /\ Below(e) = UpTo(e - 1)
      <4>1. e - 1 \in Nat
        BY <2>2
      <4>2. \A i \in DOMAIN ring : ring[i] < e <=> ring[i] <= e - 1
        BY <1>1, <4>1
      <4> QED BY <4>1, <4>2
    <3>2. Cardinality(UpTo(e - 1)) \in Nat
      BY <1>2, <1>3, <3>1
    <3> HIDE DEF Below, UpTo
    <3>3. e - 1 \notin Enough
      BY <1>6, <3>1
    <3>4. ~(k <= Cardinality(UpTo(e - 1)))
      BY <3>1, <3>3
    <3> QED BY <1>1, <1>6, <3>1, <3>2, <3>4
  <2> QED BY <2>1, <2>2
<1>8. e \in Errors
  <2>1. \E i \in DOMAIN ring : ring[i] = e
    <3> SUFFICES ASSUME \A i \in DOMAIN ring : ring[i] # e PROVE FALSE
      OBVIOUS
    <3>1. UpTo(e) = Below(e)
      BY <1>1
    <3>2. Cardinality(Below(e)) \in Nat
      BY <1>2, <1>3
    <3> HIDE DEF Below, UpTo
    <3> QED BY <1>1, <1>7, <3>1, <3>2
  <2> QED BY <1>1, <2>1
<1>9. Sorted(ring, k) = CHOOSE d \in Errors : IsIt(d)
  BY DEF Sorted
<1>10. Sorted(ring, k) \in Errors /\ IsIt(Sorted(ring, k))
  <2> HIDE DEF IsIt
  <2> QED BY <1>7, <1>8, <1>9
<1> DEFINE s == Sorted(ring, k)
<1>11. s \in Nat
  BY <1>10, LearnerConstantsOK
<1>12. ASSUME ~(12 * s < 10 * x) PROVE FALSE
  <2>1. Low(ring, x) \subseteq Below(s)
    <3> HIDE DEF s
    <3> QED BY <1>1, <1>11, <1>12 DEF Low
  <2>2. Cardinality(Below(s)) < k
    BY <1>10
  <2> HIDE DEF Below, UpTo, s
  <2>3. Cardinality(Low(ring, x)) <= Cardinality(Below(s))
    BY <1>2, <1>3, <1>4, <1>11, <2>1
  <2>4. Cardinality(Low(ring, x)) \in Nat /\ Cardinality(Below(s)) \in Nat
    BY <1>2, <1>3, <1>4, <1>11
  <2> QED BY <1>1, <2>2, <2>3, <2>4
<1> QED BY <1>11, <1>12

LEMMA MedianIsLow ==
  ASSUME NEW ring \in Seq(Errors), Len(ring) > 0, NEW x \in Nat,
         2 * Cardinality(Low(ring, x)) > Len(ring)
  PROVE  TwiceMedian(ring) \in Nat /\ 6 * TwiceMedian(ring) < 10 * x
<1> DEFINE n == Len(ring)  low == Cardinality(Low(ring, x))  half == n \div 2
<1>1. n \in Nat /\ n > 0 /\ low \in Nat /\ 2 * low > n
  <2>1. Low(ring, x) \in SUBSET DOMAIN ring
    BY DEF Low
  <2> QED BY <2>1, RingIndices
<1>2. TwiceMedian(ring) = Sorted(ring, half + 1) + Sorted(ring, IF n % 2 = 0 THEN half ELSE half + 1)
  BY DEF TwiceMedian
<1>3. \A k \in 1 .. n : k <= low => Sorted(ring, k) \in Nat /\ 12 * Sorted(ring, k) < 10 * x
  BY SortedIsLow
<1> HIDE DEF n, low
<1>4. ASSUME NEW a \in 1 .. n, NEW b \in 1 .. n, a <= low, b <= low,
             TwiceMedian(ring) = Sorted(ring, a) + Sorted(ring, b)
      PROVE  TwiceMedian(ring) \in Nat /\ 6 * TwiceMedian(ring) < 10 * x
  <2>1. /\ Sorted(ring, a) \in Nat /\ 12 * Sorted(ring, a) < 10 * x
        /\ Sorted(ring, b) \in Nat /\ 12 * Sorted(ring, b) < 10 * x
    BY <1>3, <1>4
  <2> QED BY <1>4, <2>1
<1>5. CASE n % 2 = 0
  <2>1. half \in 1 .. n /\ half + 1 \in 1 .. n /\ half <= low /\ half + 1 <= low
    BY <1>1, <1>5
  <2> QED BY <1>2, <1>4, <1>5, <2>1
<1>6. CASE n % 2 # 0
  <2>1. half + 1 \in 1 .. n /\ half + 1 <= low
    BY <1>1, <1>6
  <2> QED BY <1>2, <1>4, <1>6, <2>1
<1> QED BY <1>5, <1>6

\* The newest entries of the gate's window are the errors of rows as recent as
\* they are; without an entry there is nothing to lose.
Above(rs, r) == {s \in rs : s.round > r.round}
Recent(ring, rs) ==
  /\ \A i \in 1 .. Len(ring) : Len(ring) - i < Keep =>
       \E r \in rs : Cardinality(Above(rs, r)) <= Len(ring) - i /\ r.mae = ring[i]
  /\ ring = <<>> => rs = {} \/ Newest(rs).mae = Broken
OfRound(c, rs) == \A r \in rs : r.round = c.round => r.mae = c.mae

\* More than half of the window is low when all working rows are.
LEMMA HalfIsLow ==
  ASSUME NEW ring \in Seq(Errors), Len(ring) <= Window, NEW rs, Recent(ring, rs), NEW x \in Nat,
         rs # {}, Newest(rs).mae # Broken, \A r \in rs : r.mae # Broken => 12 * r.mae < 10 * x
  PROVE  Len(ring) > 0 /\ 2 * Cardinality(Low(ring, x)) > Len(ring)
<1> DEFINE n == Len(ring)
           m == IF n <= Keep THEN 1 ELSE n - Keep + 1
<1>1. n \in Nat /\ DOMAIN ring = 1 .. n /\ Keep \in Nat \ {0} /\ Window \in Nat /\ 2 * Keep > Window
  BY RingIndices, LearnerConstantsOK
<1>2. n > 0
  <2>1. ring # <<>>
    BY DEF Recent
  <2> QED BY <1>1, <2>1, EmptySeq
<1>3. m \in 1 .. n /\ \A i \in m .. n : i \in 1 .. n /\ n - i < Keep
  BY <1>1, <1>2
<1>4. ASSUME NEW i \in m .. n PROVE i \in Low(ring, x)
  <2>1. PICK r \in rs : r.mae = ring[i]
    BY <1>3 DEF Recent
  <2>2. i \in DOMAIN ring /\ ring[i] \in Errors
    BY <1>1, <1>3, RingIndices
  <2>3. r.mae # Broken
    BY <2>1, <2>2, LearnerConstantsOK
  <2> QED BY <2>1, <2>2, <2>3 DEF Low
<1>5. Cardinality(m .. n) = n - m + 1
  <2> HIDE DEF m, n
  <2>1. m \in Int /\ n \in Int /\ m <= n
    BY <1>1, <1>3
  <2> QED BY <2>1, FS_Interval
<1>6. Low(ring, x) \in SUBSET DOMAIN ring /\ m .. n \subseteq Low(ring, x)
  BY <1>4 DEF Low
<1>7. IsFiniteSet(Low(ring, x)) /\ Cardinality(Low(ring, x)) \in Nat
  BY <1>6, RingIndices
<1>8. Cardinality(m .. n) <= Cardinality(Low(ring, x))
  BY <1>6, <1>7, FS_Subset
<1>9. (n <= Keep /\ m = 1) \/ (n > Keep /\ n - m + 1 = Keep)
  BY <1>1
<1>10. n <= Window /\ m \in Int
  BY <1>1
<1> HIDE DEF m, n
<1>11. 2 * (n - m + 1) > n
  BY <1>1, <1>2, <1>9, <1>10
<1>12. 2 * Cardinality(Low(ring, x)) > n
  BY <1>1, <1>5, <1>7, <1>8, <1>10, <1>11
<1> QED BY <1>1, <1>2, <1>12 DEF n

\* So the gate refuses what errs by more than a fifth above all working rows.
LEMMA GateRefuses ==
  ASSUME NEW c \in Core, c.golden, Len(c.ring) <= Window, NEW rs \in SUBSET Row, Recent(c.ring, rs),
         rs # {}, Newest(rs) \in rs, Newest(rs).mae # Broken,
         c.mae = Broken \/ \A r \in rs : r.mae # Broken => 12 * AtLeast(r.mae, Cent) < 10 * c.mae
  PROVE  Regressed(c)
<1>1. c.ring \in Seq(Errors) /\ c.mae \in Models /\ c.ring # <<>>
  BY DEF Core, Recent
<1>2. CASE c.mae = Broken
  BY <1>1, <1>2 DEF Regressed
<1>3. CASE c.mae # Broken
  <2>1. c.mae \in Nat /\ Cent \in Nat
    BY <1>1, <1>3, LearnerConstantsOK DEF Models
  <2>2. \A r \in rs : r.mae # Broken => r.mae \in Nat
    BY LearnerConstantsOK DEF Row, Models
  <2>3. \A r \in rs : r.mae # Broken => 12 * r.mae < 10 * c.mae /\ 12 * Cent < 10 * c.mae
    BY <1>3, <2>1, <2>2 DEF AtLeast
  <2>4. Len(c.ring) > 0 /\ 2 * Cardinality(Low(c.ring, c.mae)) > Len(c.ring)
    BY <1>1, <2>1, <2>3, HalfIsLow
  <2>5. TwiceMedian(c.ring) \in Nat /\ 6 * TwiceMedian(c.ring) < 10 * c.mae
    BY <1>1, <2>1, <2>4, MedianIsLow
  <2>6. 6 * AtLeast(TwiceMedian(c.ring), 2 * Cent) < 10 * c.mae
    BY <2>1, <2>3, <2>5 DEF AtLeast
  <2>7. 10 * c.mae > 6 * AtLeast(TwiceMedian(c.ring), 2 * Cent)
    <3>1. AtLeast(TwiceMedian(c.ring), 2 * Cent) \in Nat
      BY <2>1, <2>5 DEF AtLeast
    <3> QED BY <2>1, <2>6, <3>1
  <2> QED BY <1>1, <2>7 DEF Regressed
<1> QED BY <1>2, <1>3

\* An accepted error is the ring's last entry, the others stay or move up.
LEMMA AnchoredAt ==
  ASSUME NEW c \in Core, Len(c.ring) <= Window, c.golden, c.mae # Broken
  PROVE  \E d \in {0, 1} :
           LET new == Anchored(c)
           IN  /\ new \in Seq(Errors) /\ Len(new) = Len(c.ring) + 1 - d /\ Len(new) >= 1
               /\ new[Len(new)] = c.mae
               /\ \A i \in 1 .. Len(new) - 1 : i + d \in 1 .. Len(c.ring) /\ new[i] = c.ring[i + d]
<1> DEFINE ring == c.ring  longer == Append(ring, c.mae)
<1>0. ring \in Seq(Errors) /\ c.mae \in Errors
  BY DEF Core, Models
<1>1. /\ Len(ring) \in Nat /\ Window \in Nat \ {0}
  BY <1>0, LenProperties, LearnerConstantsOK
<1>2. /\ longer \in Seq(Errors) /\ longer # <<>> /\ Len(longer) = Len(ring) + 1
      /\ \A i \in 1 .. Len(ring) : longer[i] = ring[i]
      /\ longer[Len(ring) + 1] = c.mae
  BY <1>0, AppendProperties
<1>3. Anchored(c) = IF Len(longer) > Window THEN Tail(longer) ELSE longer
  BY DEF Anchored
<1>4. /\ Tail(longer) \in Seq(Errors) /\ Len(Tail(longer)) = Len(longer) - 1
      /\ \A i \in 1 .. Len(Tail(longer)) : Tail(longer)[i] = longer[i + 1]
  BY <1>2, HeadTailProperties
<1> HIDE DEF longer, ring
<1>5. CASE Len(longer) > Window
  <2>1. Len(ring) >= 1 /\ Len(Tail(longer)) = Len(ring)
    BY <1>1, <1>2, <1>4, <1>5 DEF ring
  <2>2. Tail(longer)[Len(ring)] = c.mae
    BY <1>1, <1>2, <1>4, <2>1
  <2>3. \A i \in 1 .. Len(ring) - 1 : i + 1 \in 1 .. Len(ring) /\ Tail(longer)[i] = ring[i + 1]
    BY <1>1, <1>2, <1>4, <2>1
  <2>4. Anchored(c) = Tail(longer)
    BY <1>3, <1>5
  <2>5. Len(ring) = Len(ring) + 1 - 1
    BY <1>1
  <2> QED BY <1>1, <1>4, <2>1, <2>2, <2>3, <2>4, <2>5 DEF ring
<1>6. CASE ~(Len(longer) > Window)
  <2>1. \A i \in 1 .. Len(longer) - 1 : i + 0 \in 1 .. Len(ring) /\ longer[i] = ring[i + 0]
    BY <1>1, <1>2
  <2>2. Anchored(c) = longer
    BY <1>3, <1>6
  <2>3. Len(longer) = Len(ring) + 1 - 0 /\ Len(longer) >= 1 /\ longer[Len(longer)] = c.mae
    BY <1>1, <1>2
  <2> QED BY <1>2, <2>1, <2>2, <2>3 DEF ring
<1> QED BY <1>5, <1>6

\* A snapshot moves every other row down by one at most.
LEMMA RowsMoveByOne ==
  ASSUME Basics, NEW c \in Core, IsFiniteSet(rows), OfRound(c, rows), \A r \in rows : r.round <= c.round,
         rows' = Pruned({r \in rows : r.round # c.round} \cup {RowOf(c)})
  PROVE  /\ RowOf(c) \in rows' /\ Cardinality(Above(rows', RowOf(c))) = 0
         /\ IsFiniteSet(rows') /\ OfRound(c, rows')
         /\ \A r \in rows : Cardinality(Above(rows, r)) + 1 < Keep =>
              \E q \in rows' : q.mae = r.mae /\ Cardinality(Above(rows', q)) <= Cardinality(Above(rows, r)) + 1
<1> DEFINE top == RowOf(c)
           all == {r \in rows : r.round # c.round} \cup {top}
<1>1. top \in Row /\ top.round = c.round /\ top.mae = c.mae /\ rows \subseteq Row /\ c.round \in Nat
  <2>1. top.mae = c.mae
    BY DEF RowOf
  <2>2. top \in Row /\ top.round = c.round
    BY RowTyped
  <2>3. c.round \in 0 .. MaxRound
    BY DEF Core
  <2>4. c.round \in Nat
    BY <2>3, LearnerConstantsOK DEF LearnerConstantsOK
  <2>5. rows \subseteq Row
    BY DEF Basics
  <2> HIDE DEF top
  <2> QED BY <2>1, <2>2, <2>4, <2>5
<1>2. all \subseteq Row /\ top \in all /\ \A r \in all : r.round <= top.round
  BY <1>1 DEF Row
<1>3. rows' = Pruned(all) /\ IsFiniteSet(all)
  <2>1. IsFiniteSet({r \in rows : r.round # c.round})
    BY FS_Subset
  <2> QED BY <2>1, FS_AddElement
<1> HIDE DEF top, all
<1>4. top \in rows' /\ rows' \subseteq all
  BY <1>2, <1>3, NewestIsKept
<1>5. IsFiniteSet(rows')
  BY <1>3, <1>4, FS_Subset
<1>6. Above(rows', top) = {}
  BY <1>2, <1>4 DEF Above, Row
<1>7. Cardinality(Above(rows', top)) = 0
  BY <1>6, FS_EmptySet
<1>8. OfRound(c, rows')
  BY <1>1, <1>4 DEF OfRound, all
<1>9. ASSUME NEW r \in rows, Cardinality(Above(rows, r)) + 1 < Keep
      PROVE  \E q \in rows' : q.mae = r.mae /\ Cardinality(Above(rows', q)) <= Cardinality(Above(rows, r)) + 1
  <2>1. IsFiniteSet(Above(rows, r))
    BY FS_Subset DEF Above
  <2>2. Cardinality(Above(rows, r)) \in Nat
    BY <2>1, FS_CardinalityType
  <2>3. CASE r.round = c.round
    <3>1. top.mae = r.mae
      BY <1>1, <2>3 DEF OfRound
    <3> QED BY <1>4, <1>7, <2>2, <3>1
  <2>4. CASE r.round # c.round
    <3>1. r \in all
      BY <2>4 DEF all
    <3>2. Above(all, r) \subseteq Above(rows, r) \cup {top}
      BY DEF Above, all
    <3>3. IsFiniteSet(Above(rows, r) \cup {top})
          /\ Cardinality(Above(rows, r) \cup {top}) <= Cardinality(Above(rows, r)) + 1
      <4>1. IsFiniteSet(Above(rows, r) \cup {top})
            /\ Cardinality(Above(rows, r) \cup {top})
                 = IF top \in Above(rows, r) THEN Cardinality(Above(rows, r)) ELSE Cardinality(Above(rows, r)) + 1
        BY <2>1, FS_AddElement
      <4> QED BY <2>2, <4>1
    <3>4. IsFiniteSet(Above(all, r)) /\ Cardinality(Above(all, r)) <= Cardinality(Above(rows, r) \cup {top})
      BY <3>2, <3>3, FS_Subset
    <3>5. Above(rows', r) \subseteq Above(all, r)
      BY <1>4 DEF Above
    <3>6. IsFiniteSet(Above(rows', r)) /\ Cardinality(Above(rows', r)) <= Cardinality(Above(all, r))
      BY <3>4, <3>5, FS_Subset
    <3>7. /\ Cardinality(Above(all, r)) \in Nat /\ Cardinality(Above(rows', r)) \in Nat
          /\ Cardinality(Above(rows, r) \cup {top}) \in Nat /\ Keep \in Nat
      BY <3>3, <3>4, <3>6, FS_CardinalityType, LearnerConstantsOK
    <3>8. Cardinality(Above(all, r)) < Keep /\ Cardinality(Above(rows', r)) <= Cardinality(Above(rows, r)) + 1
      BY <1>9, <2>2, <3>3, <3>4, <3>6, <3>7
    <3>9. r \in rows'
      BY <1>3, <3>1, <3>8 DEF Pruned, Above
    <3> QED BY <3>8, <3>9
  <2> QED BY <2>3, <2>4
<1> QED BY <1>4, <1>5, <1>7, <1>8, <1>9 DEF top

\* The newest row after a snapshot of a core that is ahead of the table.
LEMMA SnapshotOnTop ==
  ASSUME Basics, RoundsDiffer, NEW c \in Core, \A r \in rows : r.round <= c.round,
         rows' = Pruned({r \in rows : r.round # c.round} \cup {RowOf(c)})
  PROVE  Newest(rows') = RowOf(c)
<1> DEFINE top == RowOf(c)
           all == {r \in rows : r.round # c.round} \cup {top}
<1>1. top \in Row /\ top.round = c.round
  BY RowTyped
<1> HIDE DEF top
<1>2. /\ all \subseteq Row /\ top \in all /\ \A r \in all : r.round <= top.round
      /\ \A r, s \in all : r.round = s.round => r = s
  BY <1>1 DEF Basics, RoundsDiffer, Row
<1>3. rows' = Pruned(all)
  BY DEF top
<1> HIDE DEF all
<1>4. top \in rows' /\ rows' \subseteq all
  BY <1>2, <1>3, NewestIsKept
<1> QED BY <1>2, <1>4, NewestIsOnTop DEF top

\* The ring stays recent when a snapshot is taken.
LEMMA SnapshotIsRecent ==
  ASSUME Basics, RoundsDiffer, NEW c, CoreOK(c), c.golden, IsFiniteSet(rows), OfRound(c, rows),
         \A r \in rows : r.round <= c.round, Recent(c.ring, rows), ~Regressed(c),
         rows' = Pruned({r \in rows : r.round # c.round} \cup {RowOf(c)})
  PROVE  Recent(Anchored(c), rows')
<1> DEFINE ring == c.ring  new == Anchored(c)  top == RowOf(c)
<1>1. /\ c \in Core /\ ring \in Seq(Errors) /\ Len(ring) <= Window /\ c.mae \in Models
      /\ Len(ring) \in Nat /\ Keep \in Nat \ {0}
  <2>1. c \in Core /\ c.ring \in Seq(Errors) /\ c.mae \in Models
    BY DEF CoreOK, Core
  <2> QED BY <2>1, LenProperties, LearnerConstantsOK DEF CoreOK
<1>2. /\ top \in rows' /\ Cardinality(Above(rows', top)) = 0
      /\ \A r \in rows : Cardinality(Above(rows, r)) + 1 < Keep =>
           \E q \in rows' : q.mae = r.mae /\ Cardinality(Above(rows', q)) <= Cardinality(Above(rows, r)) + 1
  BY <1>1, RowsMoveByOne
<1>3. top.mae = c.mae
  BY DEF RowOf
<1>n. Newest(rows') = top
  BY <1>1, SnapshotOnTop
<1> HIDE DEF top
<1>4. CASE c.mae = Broken
  <2>1. new = <<>>
    BY <1>4 DEF Regressed, Anchored
  <2>2. Len(new) = 0 /\ 1 .. 0 = {}
    BY <2>1
  <2> QED BY <1>n, <1>3, <1>4, <2>2 DEF Recent
<1>5. CASE c.mae # Broken
  <2>2. PICK d \in {0, 1} :
          /\ new \in Seq(Errors) /\ Len(new) = Len(ring) + 1 - d /\ Len(new) >= 1
          /\ new[Len(new)] = c.mae
          /\ \A i \in 1 .. Len(new) - 1 : i + d \in 1 .. Len(ring) /\ new[i] = ring[i + d]
    BY <1>1, <1>5, AnchoredAt
  <2>3. Len(new) \in Nat
    BY <1>1, <2>2
  <2>h. \A i \in 1 .. Len(ring) : Len(ring) - i < Keep =>
          \E r \in rows : Cardinality(Above(rows, r)) <= Len(ring) - i /\ r.mae = ring[i]
    BY DEF Recent
  <2> HIDE DEF new, ring
  <2>4. ASSUME NEW i \in 1 .. Len(new), Len(new) - i < Keep
        PROVE  \E r \in rows' : Cardinality(Above(rows', r)) <= Len(new) - i /\ r.mae = new[i]
    <3>1. CASE i = Len(new)
      <4>1. Len(new) - i = 0
        BY <2>3, <3>1
      <4>2. top \in rows' /\ Cardinality(Above(rows', top)) <= Len(new) - i
        BY <1>2, <4>1
      <4>3. top.mae = new[i]
        BY <1>3, <2>2, <3>1
      <4> QED BY <4>2, <4>3
    <3>2. CASE i # Len(new)
      <4>1. i \in 1 .. Len(new) - 1 /\ i + d \in 1 .. Len(ring) /\ Len(ring) - (i + d) = Len(new) - i - 1
        BY <1>1, <2>2, <2>3, <3>2
      <4>2. Len(ring) - (i + d) < Keep
        BY <1>1, <2>3, <2>4, <4>1
      <4>3. PICK r \in rows : /\ Cardinality(Above(rows, r)) <= Len(ring) - (i + d)
                              /\ r.mae = ring[i + d]
        BY <2>h, <4>1, <4>2
      <4>4. Cardinality(Above(rows, r)) \in Nat
        <5>1. IsFiniteSet(Above(rows, r))
          BY FS_Subset DEF Above
        <5> QED BY <5>1, FS_CardinalityType
      <4>5. Cardinality(Above(rows, r)) + 1 <= Len(new) - i /\ Cardinality(Above(rows, r)) + 1 < Keep
        BY <1>1, <2>3, <2>4, <4>1, <4>3, <4>4
      <4>6. PICK q \in rows' : q.mae = r.mae /\ Cardinality(Above(rows', q)) <= Cardinality(Above(rows, r)) + 1
        BY <1>2, <4>5
      <4>7. Cardinality(Above(rows', q)) \in Nat
        <5>1. IsFiniteSet(rows')
          BY <1>1, RowsMoveByOne
        <5>2. IsFiniteSet(Above(rows', q))
          BY <5>1, FS_Subset DEF Above
        <5> QED BY <5>2, FS_CardinalityType
      <4>8. Cardinality(Above(rows', q)) <= Len(new) - i
        BY <2>3, <4>4, <4>5, <4>6, <4>7
      <4>9. new[i] = ring[i + d]
        BY <2>2, <4>1
      <4> QED BY <4>3, <4>6, <4>8, <4>9
    <3> QED BY <3>1, <3>2
  <2>5. new # <<>>
    BY <2>2, EmptySeq
  <2>6. Recent(new, rows')
    BY <2>4, <2>5 DEF Recent
  <2> QED BY <2>6 DEF new
<1> QED BY <1>4, <1>5

\* A core that is still loading has trained at most one round, and its gate
\* remembers nothing yet.
FreshRing ==
  proc = "up" /\ ~restarting /\ core.stage \in {"opening", "loading"} =>
    core.round <= 1 /\ ~core.pending /\ core.ring = <<>>

\* The window of a core that has its golden set is recent, and the row of its
\* round is its own.
Gated        == proc = "up" /\ ~restarting /\ core.stage = "ready" /\ core.golden /\ ~misfiled
RingIsRecent == Gated => Recent(core.ring, rows) /\ OfRound(core, rows)

GateInv == IsFiniteSet(rows) /\ FreshRing /\ RingIsRecent

\* A core that goes into a snapshot.
Candidate(c) ==
  /\ Successor(c) /\ CoreOK(c) /\ c.ring = core.ring /\ c.golden = core.golden
  /\ Gated => OfRound(c, rows)

LEMMA CandidateFacts ==
  ASSUME IInv, GateInv, NEW c, Candidate(c)
  PROVE  /\ c \in Core /\ CoreOK(c) /\ Basics /\ RoundsDiffer /\ IsFiniteSet(rows) /\ rows \subseteq Row
         /\ c.stage = core.stage /\ c.ring = core.ring /\ c.golden = core.golden
         /\ c.round \in Nat /\ Len(c.ring) <= Window
         /\ Gated => Recent(c.ring, rows) /\ OfRound(c, rows) /\ \A r \in rows : r.round <= c.round
<1>1. /\ c \in Core /\ CoreOK(c) /\ Basics /\ c.stage = core.stage /\ c.ring = core.ring
      /\ c.golden = core.golden /\ c.round >= core.round /\ core \in Core /\ rows \subseteq Row
      /\ IsFiniteSet(rows) /\ RoundsDiffer
  BY DEF Candidate, Successor, IInv, Typed, Basics, GateInv, Inv
<1>2. c.round \in Nat /\ core.round \in Nat /\ Len(c.ring) <= Window
  BY <1>1 DEF Core, CoreOK
<1>3. Gated => Recent(c.ring, rows) /\ OfRound(c, rows)
  BY <1>1 DEF GateInv, RingIsRecent, Candidate
<1>4. Gated => \A r \in rows : r.round <= c.round
  BY <1>1, <1>2 DEF Gated, IInv, Inv, CoreIsAhead, Row
<1> QED BY <1>1, <1>2, <1>3, <1>4

LEMMA SnapshotGate ==
  ASSUME IInv, GateInv, NEW c, Candidate(c), SnapshotOf(c)
  PROVE  /\ IsFiniteSet(rows') /\ core'.stage = core.stage /\ core'.golden = core.golden
         /\ core.stage = "ready" => misfiled' = misfiled
         /\ Gated => Recent(core'.ring, rows') /\ OfRound(core', rows')
<1>1. /\ c \in Core /\ CoreOK(c) /\ Basics /\ RoundsDiffer /\ IsFiniteSet(rows) /\ rows \subseteq Row
      /\ c.stage = core.stage /\ c.ring = core.ring /\ c.golden = core.golden
      /\ Gated => Recent(c.ring, rows) /\ OfRound(c, rows) /\ \A r \in rows : r.round <= c.round
  BY CandidateFacts
<1>2. CASE SnapshotSkipped(c)
  <2>1. core' = c /\ UNCHANGED <<rows, misfiled>>
    BY <1>2 DEF SnapshotSkipped, Storage
  <2> QED BY <1>1, <2>1
<1>3. CASE SnapshotTaken(c) /\ Regressed(c)
  <2>1. /\ core' = [c EXCEPT !.pending = FALSE, !.retryAt = c.round + Interval]
        /\ UNCHANGED <<rows, misfiled>>
    BY <1>3 DEF SnapshotTaken
  <2>2. /\ core'.stage = c.stage /\ core'.ring = c.ring /\ core'.round = c.round /\ core'.mae = c.mae
        /\ core'.golden = c.golden
    BY <1>1, <2>1 DEF Core
  <2> QED BY <1>1, <2>1, <2>2 DEF OfRound
<1>4. CASE SnapshotTaken(c) /\ ~Regressed(c)
  <2>1. /\ core' = [c EXCEPT !.pending = FALSE, !.lastSnap = c.round, !.ring = Anchored(c)]
        /\ rows' = Pruned({r \in rows : r.round # c.round} \cup {RowOf(c)})
        /\ c.stage = "ready" => misfiled' = misfiled
    BY <1>4 DEF SnapshotTaken
  <2>2. /\ core'.stage = c.stage /\ core'.ring = Anchored(c) /\ core'.golden = c.golden
        /\ core'.round = c.round /\ core'.mae = c.mae
    BY <1>1, <2>1 DEF Core
  <2>3. IsFiniteSet(rows')
    <3>1. IsFiniteSet({r \in rows : r.round # c.round})
      BY <1>1, FS_Subset
    <3>2. IsFiniteSet({r \in rows : r.round # c.round} \cup {RowOf(c)})
      BY <3>1, FS_AddElement
    <3>3. rows' \subseteq {r \in rows : r.round # c.round} \cup {RowOf(c)}
      BY <2>1 DEF Pruned
    <3> QED BY <3>2, <3>3, FS_Subset
  <2>4. ASSUME Gated PROVE Recent(core'.ring, rows') /\ OfRound(core', rows')
    <3>1. c.golden
      BY <1>1, <2>4 DEF Gated
    <3>2. Recent(Anchored(c), rows')
      BY <1>1, <1>4, <2>1, <2>4, <3>1, SnapshotIsRecent
    <3>3. OfRound(c, rows')
      BY <1>1, <2>1, <2>4, RowsMoveByOne
    <3> QED BY <2>2, <3>2, <3>3 DEF OfRound
  <2> QED BY <1>1, <2>1, <2>2, <2>3, <2>4
<1> QED BY <1>2, <1>3, <1>4, Zenon DEF SnapshotOf

\* What is due goes into a snapshot, now or later.
Scheduled(c, due) == [c EXCEPT !.pending = @ \/ due]

LEMMA ScheduledCandidate ==
  ASSUME NEW c, Candidate(c), NEW due PROVE Candidate(Scheduled(c, due))
<1>1. (c.pending \/ due) \in BOOLEAN
  BY Zenon
<1>2. PICK p \in BOOLEAN : Scheduled(c, due) = [c EXCEPT !.pending = p]
  BY <1>1, Zenon DEF Scheduled
<1> QED BY <1>2 DEF Candidate, Successor, CoreOK, Core, OfRound

LEMMA ThenGate ==
  ASSUME IInv, GateInv, proc = "up", NEW c, Candidate(c), NEW due, NEW idle, Then(c, due, idle),
         ~restarting /\ core.stage \in {"opening", "loading"} => c.round <= 1 /\ ~c.pending /\ ~due,
         UNCHANGED <<proc, restarting>>
  PROVE  GateInv'
<1>1. Candidate(Scheduled(c, due))
  BY ScheduledCandidate
<1>2. SnapshotOf(Scheduled(c, due)) \/ (core' = Scheduled(c, due) /\ UNCHANGED Storage)
  BY Zenon DEF Then, Scheduled
<1>3. /\ IsFiniteSet(rows') /\ core'.stage = core.stage /\ core'.golden = core.golden
      /\ core.stage = "ready" => misfiled' = misfiled
      /\ Gated => Recent(core'.ring, rows') /\ OfRound(core', rows')
  <2>1. CASE core' = Scheduled(c, due) /\ UNCHANGED Storage
    BY <1>1, <2>1, CandidateFacts DEF Storage
  <2> QED BY <1>1, <1>2, <2>1, SnapshotGate
<1>4. RingIsRecent'
  BY <1>3 DEF RingIsRecent, Gated
<1>5. FreshRing'
  <2> SUFFICES ASSUME ~restarting, core.stage \in {"opening", "loading"}
               PROVE  core'.round <= 1 /\ ~core'.pending /\ core'.ring = <<>>
    BY <1>3 DEF FreshRing
  <2>1. c \in Core /\ c.round <= 1 /\ ~c.pending /\ ~due /\ c.ring = <<>>
    BY CandidateFacts DEF GateInv, FreshRing
  <2>2. Scheduled(c, due).pending <=> (c.pending \/ due)
    <3>1. "pending" \in DOMAIN c
      BY <2>1 DEF Core
    <3> QED BY <3>1, Zenon DEF Scheduled
  <2>3. ~Scheduled(c, due).pending
    BY <2>1, <2>2, Zenon
  <2>4. core' = Scheduled(c, due)
    BY <2>3, Zenon DEF Then, Scheduled
  <2>5. Scheduled(c, due).round = c.round /\ Scheduled(c, due).ring = c.ring
    BY <2>1 DEF Scheduled, Core
  <2> QED BY <2>1, <2>3, <2>4, <2>5
<1> QED BY <1>3, <1>4, <1>5 DEF GateInv

LEMMA TrainedCandidate ==
  ASSUME IInv, core.round < MaxRound, NEW mae \in Models, NEW storm \in BOOLEAN
  PROVE  /\ Candidate(Trains(mae)) /\ Candidate(RolledBack(storm)) /\ Candidate(Sits(storm))
         /\ Trains(mae).round = core.round + 1 /\ RolledBack(storm).round = core.round + 1
         /\ Trains(mae).pending = core.pending /\ RolledBack(storm).pending = core.pending
         /\ Trains(mae).lastSnap = core.lastSnap
<1>1. core \in Core /\ Basics /\ CoreOK(core) /\ core.round \in Nat
  BY DEF IInv, Typed, CoreOK, Core
<1>2. /\ CoreOK(Trains(mae)) /\ Successor(Trains(mae))
      /\ CoreOK(RolledBack(storm)) /\ Successor(RolledBack(storm))
      /\ CoreOK(Sits(storm)) /\ Successor(Sits(storm))
  BY <1>1, Trained
<1>3. /\ Trains(mae).round = core.round + 1 /\ Trains(mae).ring = core.ring
      /\ RolledBack(storm).round = core.round + 1 /\ RolledBack(storm).ring = core.ring
      /\ Sits(storm).round = core.round + 1 /\ Sits(storm).ring = core.ring
      /\ Trains(mae).pending = core.pending /\ RolledBack(storm).pending = core.pending
      /\ Trains(mae).lastSnap = core.lastSnap
  BY <1>1 DEF Trains, RolledBack, Sits, Core
<1>4. Gated => \A r \in rows : r.round # core.round + 1
  BY <1>1 DEF Gated, IInv, Inv, CoreIsAhead, Basics, Row
<1>5. /\ Trains(mae).golden = core.golden /\ RolledBack(storm).golden = core.golden
      /\ Sits(storm).golden = core.golden
  BY <1>1 DEF Trains, RolledBack, Sits, Core
<1> QED BY <1>2, <1>3, <1>4, <1>5 DEF Candidate, OfRound

LEMMA UpdateGate ==
  ASSUME IInv, GateInv, NEW mae \in Models, NEW storm \in BOOLEAN, NEW idle \in BOOLEAN,
         Update(mae, idle) \/ UpdateDiverges(storm, idle) \/ UpdateFrozen(storm)
  PROVE  GateInv'
<1>1. /\ proc = "up" /\ core.round < MaxRound /\ UNCHANGED <<proc, restarting>>
      /\ core.stage \in {"ready", "failed"} \/ core.round = 0
  BY DEF Update, UpdateDiverges, UpdateFrozen, CanUpdate, OutsideOfCore
<1>2. /\ Candidate(Trains(mae)) /\ Candidate(RolledBack(storm)) /\ Candidate(Sits(storm))
      /\ Trains(mae).round = core.round + 1 /\ RolledBack(storm).round = core.round + 1
      /\ Trains(mae).pending = core.pending /\ RolledBack(storm).pending = core.pending
      /\ Trains(mae).lastSnap = core.lastSnap
  BY <1>1, TrainedCandidate
<1>3. core.lastSnap \in Nat /\ core.round \in Nat /\ Interval \in Nat /\ Interval > 1
  BY LearnerConstantsOK DEF IInv, Typed, Basics, Core
<1>4. ~restarting /\ core.stage \in {"opening", "loading"} => core.round = 0 /\ ~core.pending
  BY <1>1 DEF GateInv, FreshRing
<1>5. CASE Update(mae, idle)
  <2>1. Then(Trains(mae), SnapshotDue(Trains(mae)), idle)
    BY <1>5 DEF Update
  <2>2. ~restarting /\ core.stage \in {"opening", "loading"} => ~SnapshotDue(Trains(mae))
    BY <1>2, <1>3, <1>4 DEF SnapshotDue
  <2>3. ~restarting /\ core.stage \in {"opening", "loading"} => Trains(mae).round <= 1 /\ ~Trains(mae).pending
    BY <1>2, <1>4
  <2> QED BY <1>1, <1>2, <2>1, <2>2, <2>3, ThenGate
<1>6. CASE UpdateDiverges(storm, idle)
  <2>1. Then(RolledBack(storm), FALSE, idle)
    BY <1>6 DEF UpdateDiverges
  <2>2. ~restarting /\ core.stage \in {"opening", "loading"} =>
          RolledBack(storm).round <= 1 /\ ~RolledBack(storm).pending
    BY <1>2, <1>4
  <2> QED BY <1>1, <1>2, <2>1, <2>2, ThenGate
<1>7. CASE UpdateFrozen(storm)
  <2>1. core' = Sits(storm) /\ UNCHANGED <<rows, misfiled>>
    BY <1>7 DEF UpdateFrozen, Storage
  <2>2. core \in Core
    BY DEF IInv, Typed, Basics
  <2>3. /\ core'.stage = core.stage /\ core'.golden = core.golden /\ core'.ring = core.ring
        /\ core'.round = core.round + 1 /\ core'.pending = core.pending
    BY <2>1, <2>2 DEF Sits, Core
  <2>4. Gated => OfRound(core', rows)
    BY <1>2, <2>1 DEF Candidate
  <2>5. IsFiniteSet(rows') /\ RingIsRecent'
    BY <1>1, <2>1, <2>3, <2>4 DEF GateInv, RingIsRecent, Gated, OfRound
  <2>6. FreshRing'
    BY <1>1, <1>3, <1>4, <2>3 DEF GateInv, FreshRing
  <2> QED BY <2>5, <2>6 DEF GateInv
<1> QED BY <1>5, <1>6, <1>7

LEMMA LoadGate ==
  ASSUME IInv, GateInv, NEW mae \in Models, Load(mae)
  PROVE  GateInv'
<1>0. /\ core \in Core /\ rows \subseteq Row /\ UNCHANGED <<proc, misfiled, restarting>>
      /\ core.stage = "loading" /\ RoundsDiffer /\ IsFiniteSet(rows) /\ Len(<<>>) = 0 /\ 1 .. 0 = {}
  BY DEF Load, IInv, Typed, Basics, Inv, GateInv
<1>1. proc = "up" /\ ~restarting => core.ring = <<>>
  BY <1>0 DEF GateInv, FreshRing
<1>2. CASE Loadable
  <2>1. core' = LoadedFrom(Newest(rows)) /\ rows' = rows /\ rows # {}
    BY <1>2 DEF Load, Loadable
  <2> DEFINE row == Newest(rows)
  <2>2. row \in rows /\ row \in Row /\ \A s \in rows : s.round <= row.round
    BY <1>0, <2>1, NewestExists
  <2>3. /\ core'.stage = "ready" /\ core'.round = row.round /\ core'.mae = row.mae
        /\ core'.golden = core.golden
        /\ core'.ring = IF ~core.golden \/ row.mae = Broken THEN core.ring ELSE <<row.mae>>
    BY <1>0, <2>1, <2>2 DEF LoadedFrom, Core
  <2>4. OfRound(core', rows)
    BY <1>0, <2>2, <2>3 DEF OfRound, RoundsDiffer
  <2>5. ASSUME proc = "up", ~restarting, core.golden PROVE Recent(core'.ring, rows)
    <3>1. CASE row.mae = Broken
      <4>1. core'.ring = <<>>
        BY <1>1, <2>3, <2>5, <3>1
      <4> QED BY <1>0, <3>1, <4>1 DEF Recent
    <3>2. CASE row.mae # Broken
      <4>1. core'.ring = <<row.mae>>
        BY <2>3, <2>5, <3>2
      <4>2. Len(core'.ring) = 1 /\ core'.ring[1] = row.mae /\ core'.ring # <<>> /\ 1 .. 1 = {1}
        BY <4>1
      <4>3. Above(rows, row) = {}
        BY <1>0, <2>2 DEF Above, Row
      <4>4. Cardinality(Above(rows, row)) = 0
        BY <4>3, FS_EmptySet
      <4> HIDE DEF row
      <4> QED BY <2>2, <4>2, <4>4 DEF Recent
    <3> QED BY <3>1, <3>2
  <2> HIDE DEF row
  <2>6. FreshRing' /\ RingIsRecent'
    BY <1>0, <2>1, <2>3, <2>4, <2>5 DEF FreshRing, RingIsRecent, Gated
  <2> QED BY <1>0, <2>1, <2>6 DEF GateInv
<1>3. CASE ~Loadable
  <2>1. rows' = {} /\ core' = [StartedFrom(archived') EXCEPT !.mae = mae]
    BY <1>3 DEF Load
  <2>2. core'.stage = "ready" /\ core'.ring = core.ring
    BY <1>0, <2>1 DEF StartedFrom, Core
  <2>3. proc = "up" /\ ~restarting => Recent(core'.ring, rows') /\ OfRound(core', rows')
    BY <1>0, <1>1, <2>1, <2>2 DEF Recent, OfRound
  <2>4. FreshRing' /\ RingIsRecent'
    BY <1>0, <2>2, <2>3 DEF FreshRing, RingIsRecent, Gated
  <2>5. IsFiniteSet(rows')
    BY <2>1, FS_EmptySet
  <2> QED BY <2>4, <2>5 DEF GateInv
<1> QED BY <1>2, <1>3

LEMMA ResetGate == ASSUME IInv, GateInv, Reset PROVE GateInv'
<1>1. core' = Emptied /\ UNCHANGED <<proc, restarting>> /\ core \in Core /\ rows \subseteq Row
  BY DEF Reset, IInv, Typed, Basics
<1>2. /\ core'.stage = core.stage /\ core'.round = 0 /\ core'.ring = <<>> /\ core'.pending = core.pending
  BY <1>1 DEF Emptied, FreshCore
<1>3. \/ rows' = {}
      \/ rows' = Discarded(rows) /\ misfiled'
  BY Zenon DEF Reset
<1>4. IsFiniteSet(rows')
  <2>1. ASSUME rows' = Discarded(rows) PROVE IsFiniteSet(rows')
    <3> DEFINE f == [r \in rows |-> [r EXCEPT !.stale = TRUE]]
    <3>1. f \in Surjection(rows, Discarded(rows))
      <4>1. f \in [rows -> Discarded(rows)]
        BY DEF Discarded
      <4>2. \A d \in Discarded(rows) : \E r \in rows : f[r] = d
        BY DEF Discarded
      <4> QED BY <4>1, <4>2 DEF Surjection
    <3> HIDE DEF f
    <3>2. IsFiniteSet(rows)
      BY DEF GateInv
    <3> QED BY <2>1, <3>1, <3>2, FS_Surjection
  <2> QED BY <1>3, <2>1, FS_EmptySet
<1>5. FreshRing'
  BY <1>1, <1>2 DEF GateInv, FreshRing
<1>6. RingIsRecent'
  <2>1. rows' = {} => Recent(<<>>, rows') /\ OfRound(core', rows')
    <3>1. Len(<<>>) = 0 /\ 1 .. 0 = {}
      OBVIOUS
    <3> QED BY <3>1 DEF Recent, OfRound
  <2> QED BY <1>2, <1>3, <2>1 DEF RingIsRecent, Gated
<1> QED BY <1>4, <1>5, <1>6 DEF GateInv

LEMMA CoreIsCandidate == ASSUME IInv, GateInv PROVE Candidate(core)
<1>1. core \in Core /\ CoreOK(core) /\ core.round >= core.round
  BY DEF IInv, Typed, Basics, Core
<1> QED BY <1>1 DEF Candidate, Successor, GateInv, RingIsRecent

LEMMA GateStep == ASSUME IInv, GateInv, [Next]_vars PROVE GateInv'
<1>1. CASE Boot \/ Respawn \/ ShutdownAcked \/ Crash
  <2>1. rows' = rows /\ core' = FreshCore
    BY <1>1 DEF Boot, Respawn, ShutdownAcked, Crash, Down, Storage
  <2>2. core'.stage = "opening" /\ core'.round = 0 /\ ~core'.pending /\ core'.ring = <<>>
    BY <2>1 DEF FreshCore
  <2> QED BY <2>1, <2>2 DEF GateInv, FreshRing, RingIsRecent, Gated
<1>2. CASE Deploy
  <2>1. proc' = "down" /\ rows' = rows
    BY <1>2 DEF Deploy, Storage
  <2> QED BY <2>1 DEF GateInv, FreshRing, RingIsRecent, Gated
<1>3. CASE OpenDatabase \/ ReadGoldenSet \/ InitFails
  <2>1. /\ UNCHANGED <<rows, proc, restarting>> /\ core \in Core
        /\ core.stage \in {"opening", "loading"}
        /\ \/ core' = [core EXCEPT !.stage = "loading", !.db = "open"]
           \/ core' = [core EXCEPT !.golden = TRUE]
           \/ core' = [core EXCEPT !.stage = "failed"]
    BY <1>3 DEF OpenDatabase, ReadGoldenSet, InitFails, Storage, IInv, Typed, Basics
  <2>2. /\ core'.stage \in {"opening", "loading", "failed"} /\ core'.round = core.round
        /\ core'.pending = core.pending /\ core'.ring = core.ring
    BY <2>1 DEF Core
  <2> QED BY <2>1, <2>2 DEF GateInv, FreshRing, RingIsRecent, Gated
<1>4. ASSUME NEW mae \in Models, Load(mae) PROVE GateInv'
  BY <1>4, LoadGate
<1>5. ASSUME NEW mae \in Models, NEW idle \in BOOLEAN, Update(mae, idle) PROVE GateInv'
  BY <1>5, UpdateGate, Zenon
<1>6. ASSUME NEW storm \in BOOLEAN, NEW idle \in BOOLEAN, UpdateDiverges(storm, idle) PROVE GateInv'
  <2>1. Broken \in Models
    BY DEF Models
  <2> QED BY <1>6, <2>1, UpdateGate, Zenon
<1>7. ASSUME NEW storm \in BOOLEAN, UpdateFrozen(storm) PROVE GateInv'
  <2>1. Broken \in Models /\ TRUE \in BOOLEAN
    BY DEF Models
  <2> QED BY <1>7, <2>1, UpdateGate, Zenon
<1>8. CASE Reset
  BY <1>8, ResetGate
<1>9. CASE RestartWorker \/ Stop
  <2>1. (restarting' = TRUE \/ proc' = "stopping") /\ SnapshotOf(core)
    BY <1>9 DEF RestartWorker, Stop
  <2>2. IsFiniteSet(rows')
    BY <2>1, CoreIsCandidate, SnapshotGate
  <2> QED BY <2>1, <2>2 DEF GateInv, FreshRing, RingIsRecent, Gated
<1>10. CASE UNCHANGED vars
  BY <1>10 DEF vars, GateInv, FreshRing, RingIsRecent, Gated
<1> QED BY <1>1, <1>2, <1>3, <1>4, <1>5, <1>6, <1>7, <1>8, <1>9, <1>10 DEF Next

LEMMA GateHoldsInitially == Init => GateInv
<1> SUFFICES ASSUME Init PROVE GateInv
  OBVIOUS
<1>1. rows = {} /\ proc = "down"
  BY DEF Init
<1> QED BY <1>1, FS_EmptySet DEF GateInv, FreshRing, RingIsRecent, Gated

\* The newest row is an old one, or works about as well as some old one.
Survives ==
  \/ Newest(rows') \in rows
  \/ /\ Newest(rows').mae # Broken
     /\ \E r \in rows : r.mae # Broken /\ 10 * Newest(rows').mae <= 12 * AtLeast(r.mae, Cent)

LEMMA SnapshotSurvives ==
  ASSUME IInv, GateInv, proc = "up", ~restarting, core.golden, ~misfiled', NEW c, Candidate(c),
         SnapshotOf(c), rows # {}, Newest(rows).mae # Broken
  PROVE  Survives
<1>0. /\ c \in Core /\ CoreOK(c) /\ Basics /\ RoundsDiffer /\ rows \subseteq Row
      /\ c.stage = core.stage /\ c.ring = core.ring /\ c.golden /\ c.round \in Nat
      /\ Len(c.ring) <= Window
      /\ Gated => Recent(c.ring, rows) /\ \A r \in rows : r.round <= c.round
  BY CandidateFacts
<1>1. Newest(rows) \in rows /\ \A r \in rows : r.round <= Newest(rows).round
  BY <1>0, NewestExists
<1>2. CASE rows' = rows
  BY <1>1, <1>2 DEF Survives
<1>3. CASE rows' # rows
  <2> DEFINE all == {r \in rows : r.round # c.round} \cup {RowOf(c)}
  <2>1. /\ ~Regressed(c) /\ rows' = Pruned(all)
        /\ c.stage = "ready" => misfiled' = misfiled
        /\ c.stage # "ready" => misfiled' = (misfiled \/ (rows # {} /\ Newest(rows).round <= c.round))
    <3>1. SnapshotTaken(c)
      BY <1>3 DEF SnapshotOf, SnapshotSkipped, Storage
    <3>2. ~Regressed(c)
      BY <1>3, <3>1 DEF SnapshotTaken
    <3>3. /\ rows' = Pruned(all)
          /\ c.stage = "ready" => misfiled' = misfiled
      BY <3>1, <3>2 DEF SnapshotTaken
    <3>4. c.stage # "ready" => misfiled' = (misfiled \/ (rows # {} /\ Newest(rows).round <= c.round))
      BY <3>1, <3>2, Zenon DEF SnapshotTaken
    <3> QED BY <3>2, <3>3, <3>4
  <2>2. CASE c.stage = "ready"
    <3>1. Gated
      BY <1>0, <2>1, <2>2 DEF Gated
    <3>2. /\ c.mae # Broken
          /\ \E r \in rows : r.mae # Broken /\ ~(12 * AtLeast(r.mae, Cent) < 10 * c.mae)
      BY <1>0, <1>1, <2>1, <3>1, GateRefuses
    <3>3. PICK r \in rows : r.mae # Broken /\ ~(12 * AtLeast(r.mae, Cent) < 10 * c.mae)
      BY <3>2
    <3>4. r.mae \in Nat /\ c.mae \in Nat /\ Cent \in Nat
      BY <1>0, <3>2, <3>3, LearnerConstantsOK DEF Row, Core, Models
    <3>5. 10 * c.mae <= 12 * AtLeast(r.mae, Cent)
      BY <3>3, <3>4 DEF AtLeast
    <3>6. Newest(rows') = RowOf(c)
      BY <1>0, <2>1, <3>1, SnapshotOnTop
    <3>7. RowOf(c).mae = c.mae
      BY DEF RowOf
    <3> QED BY <3>2, <3>3, <3>5, <3>6, <3>7 DEF Survives
  <2>3. CASE c.stage # "ready"
    <3>1. c.round < Newest(rows).round
      <4>1. ~(Newest(rows).round <= c.round)
        BY <2>1, <2>3, Zenon
      <4>2. Newest(rows).round \in Nat
        BY <1>0, <1>1, LearnerConstantsOK DEF Row
      <4> QED BY <1>0, <4>1, <4>2
    <3>2. RowOf(c) \in Row /\ RowOf(c).round = c.round
      BY <1>0, RowTyped
    <3>3. /\ all \subseteq Row /\ \A r, s \in all : r.round = s.round => r = s
          /\ Newest(rows) \in all /\ \A r \in all : r.round <= Newest(rows).round
      BY <1>0, <1>1, <3>1, <3>2 DEF Row, RoundsDiffer
    <3> HIDE DEF all
    <3>4. Newest(rows) \in rows' /\ rows' \subseteq all
      BY <2>1, <3>3, NewestIsKept
    <3>5. Newest(rows') = Newest(rows)
      BY <3>3, <3>4, NewestIsOnTop
    <3> QED BY <1>1, <3>5 DEF Survives
  <2> QED BY <2>2, <2>3
<1> QED BY <1>2, <1>3

\* A worker with a golden set never replaces a newest snapshot that works by one
\* that does not, nor by one that errs by more than a fifth above every working
\* one in the table, whatever the errors are.
THEOREM WorkingModelsSurvive == Spec => WorkingModelSurvives
<1>1. Init => GateInv
  BY GateHoldsInitially
<1>2. IInv /\ GateInv /\ [Next]_vars => GateInv'
  BY GateStep
<1>3. IInv /\ GateInv /\ [Next]_vars =>
        [rows # {} /\ rows' # {} /\ core.golden /\ ~restarting /\ ~misfiled' /\ Newest(rows).mae # Broken
           => \/ Newest(rows') \in rows
              \/ /\ Newest(rows').mae # Broken
                 /\ \E r \in rows : r.mae # Broken /\ 10 * Newest(rows').mae <= 12 * AtLeast(r.mae, Cent)]_vars
  <2> SUFFICES ASSUME IInv, GateInv, [Next]_vars, rows # {}, rows' # {}, core.golden, ~restarting,
                      ~misfiled', Newest(rows).mae # Broken
               PROVE  Survives
    BY DEF vars, Survives
  <2>0. rows \subseteq Row
    BY DEF IInv, Typed, Basics
  <2>1. rows' = rows => Survives
    BY <2>0, NewestExists DEF Survives
  <2>2. ASSUME proc = "up", NEW c, Candidate(c), NEW due, NEW idle, Then(c, due, idle) PROVE Survives
    <3>1. SnapshotOf(Scheduled(c, due)) \/ rows' = rows
      BY <2>2, Zenon DEF Then, Scheduled, Storage
    <3> QED BY <2>1, <2>2, <3>1, ScheduledCandidate, SnapshotSurvives
  <2>3. ASSUME NEW mae \in Models, NEW idle \in BOOLEAN, Update(mae, idle) PROVE Survives
    <3>1. proc = "up" /\ core.round < MaxRound /\ Then(Trains(mae), SnapshotDue(Trains(mae)), idle)
      BY <2>3 DEF Update, CanUpdate
    <3>2. Candidate(Trains(mae))
      BY <3>1, TrainedCandidate
    <3> QED BY <2>2, <3>1, <3>2
  <2>4. ASSUME NEW storm \in BOOLEAN, NEW idle \in BOOLEAN, UpdateDiverges(storm, idle) PROVE Survives
    <3>1. proc = "up" /\ core.round < MaxRound /\ Then(RolledBack(storm), FALSE, idle)
      BY <2>4 DEF UpdateDiverges, CanUpdate
    <3>2. Candidate(RolledBack(storm))
      BY <3>1, TrainedCandidate DEF Models
    <3> QED BY <2>2, <3>1, <3>2
  <2>5. CASE RestartWorker \/ Stop
    <3>1. proc = "up" /\ SnapshotOf(core)
      BY <2>5 DEF RestartWorker, Stop
    <3> QED BY <3>1, CoreIsCandidate, SnapshotSurvives
  <2>6. CASE Reset
    <3>1. rows' = {} \/ misfiled'
      BY <2>6, Zenon DEF Reset
    <3> QED BY <3>1
  <2>7. CASE \E mae \in Models : Load(mae)
    <3>1. rows' = rows \/ rows' = {}
      BY <2>7 DEF Load
    <3> QED BY <2>1, <3>1
  <2>8. CASE \/ Boot \/ OpenDatabase \/ ReadGoldenSet \/ InitFails \/ Respawn \/ ShutdownAcked \/ Crash
             \/ Deploy \/ \E storm \in BOOLEAN : UpdateFrozen(storm)
    <3>1. rows' = rows
      BY <2>8, Zenon DEF Boot, OpenDatabase, ReadGoldenSet, InitFails, Respawn, ShutdownAcked, Crash, Deploy,
           UpdateFrozen, Down, Storage
    <3> QED BY <2>1, <3>1
  <2>9. CASE UNCHANGED vars
    BY <2>1, <2>9 DEF vars
  <2> QED BY <2>3, <2>4, <2>5, <2>6, <2>7, <2>8, <2>9 DEF Next
<1> QED BY <1>1, <1>2, <1>3, Inductive, PTL DEF Spec, WorkingModelSurvives
=============================================================================
