----------------------------- MODULE BotLearner -----------------------------
(***************************************************************************)
(* The streamer bot's learner: the bridge of the bot's process, the worker *)
(* it runs in-process (main.ts passes no worker script), the worker's core *)
(* and the snapshots that survive it.  The process has one event loop: an  *)
(* action is what happens between two awaits.  Weights are abstracted to   *)
(* the error that the golden set shows when it is there, and to whether    *)
(* they descend from a model that a reset had discarded.                   *)
(***************************************************************************)
EXTENDS Integers, Sequences, FiniteSets

CONSTANTS
  Interval,                \* snapshotInterval
  Keep,                    \* snapshots that pruneSnapshots leaves
  Window,                  \* SNAPSHOT_MAE_BASELINE_WINDOW
  Errors, Cent,            \* finite errors, and how much a cent is in their unit
  Broken,                  \* some golden price is predicted as NaN
  Untrained,               \* the error of random weights
  MaxRound, MaxResets,
  MaxFaults,               \* bounds; faults: crashes, stalls, failures, and a new build
  None

ASSUME LearnerConstantsOK ==
  /\ {Interval, Keep, Window, Cent} \subseteq Nat \ {0}
  /\ Interval > 1 /\ 2 * Keep > Window         \* in the code: 100, 3 and 5
  /\ Errors \subseteq Nat /\ Untrained \in Errors /\ Broken \notin Errors
  /\ {MaxRound, MaxResets, MaxFaults} \subseteq Nat

Models == Errors \cup {Broken}

VARIABLES
  proc,                    \* the bot's process: "down", "up", "stopping"
  restarting,              \* restartInFlight: the old worker is being shut down
  core,                    \* the worker's core
  rows, archived,          \* nn_snapshots, nn_snapshots_archived
  arch,                    \* the deployed build's architecture
  resets, faults,
  saved,                   \* history: the last snapshot a loaded core took
  misfiled                 \* history: a reset could not archive the snapshots, or a core that
                           \*   had loaded nothing took one that outranks the last

vars == <<proc, restarting, core, rows, archived, arch, resets, faults, saved, misfiled>>

FreshCore == [stage |-> "opening", db |-> "none", golden |-> FALSE, round |-> 0, mae |-> Untrained,
              stale |-> FALSE, ring |-> <<>>, lastSnap |-> 0, retryAt |-> 0, pending |-> FALSE,
              frozen |-> FALSE]

Init ==
  /\ proc = "down" /\ restarting = FALSE /\ core = FreshCore
  /\ rows = {} /\ archived = {} /\ arch = 1
  /\ resets = 0 /\ faults = 0 /\ saved = None /\ misfiled = FALSE

\* What is ever read of an archived row.
Filed(rs)    == {[round |-> r.round, stale |-> r.stale] : r \in rs}
Newest(rs)   == CHOOSE r \in rs : \A s \in rs : s.round <= r.round
InArchive    == archived \cup Filed(rows)               \* after archiveAll
Fault        == faults < MaxFaults /\ faults' = faults + 1
Storage      == <<rows, archived, saved, misfiled>>

(***************************************************************************)
(* snapshotNow: nothing without a database or with a disk that was full at *)
(* its last check; refused by the gate when the golden error is over 1.2   *)
(* times the median of the last accepted ones, or a cent.  Without golden  *)
(* set the gate lets everything pass and remembers nothing.                *)
(***************************************************************************)
\* The k-th of the errors in ascending order.
Sorted(ring, k) ==
  CHOOSE e \in Errors : /\ Cardinality({i \in DOMAIN ring : ring[i] < e}) < k
                        /\ k <= Cardinality({i \in DOMAIN ring : ring[i] <= e})
TwiceMedian(ring) ==
  LET n == Len(ring)
  IN  Sorted(ring, n \div 2 + 1) + Sorted(ring, IF n % 2 = 0 THEN n \div 2 ELSE n \div 2 + 1)

AtLeast(e, floor) == IF e < floor THEN floor ELSE e

Skipped(c)   == c.db # "open"
Regressed(c) == /\ c.golden /\ c.ring # <<>>
                /\ c.mae = Broken \/ 10 * c.mae > 6 * AtLeast(TwiceMedian(c.ring), 2 * Cent)
Anchored(c) ==
  IF ~c.golden \/ c.mae = Broken THEN c.ring
  ELSE LET longer == Append(c.ring, c.mae)
       IN  IF Len(longer) > Window THEN Tail(longer) ELSE longer

OldestKept(rs) == {r \in rs : Cardinality({s \in rs : s.round < r.round}) < Keep}    \* mutant
Pruned(rs)     == {r \in rs : Cardinality({s \in rs : s.round > r.round}) < Keep}
RowOf(c)       == [round |-> c.round, mae |-> c.mae, stale |-> c.stale, arch |-> arch]

SnapshotSkipped(c) == core' = c /\ UNCHANGED Storage

SnapshotTaken(c) ==
  /\ ~Skipped(c)
  /\ core' = IF Regressed(c) THEN [c EXCEPT !.pending = FALSE, !.retryAt = c.round + Interval]
             ELSE [c EXCEPT !.pending = FALSE, !.lastSnap = c.round, !.ring = Anchored(c)]
  /\ IF Regressed(c) THEN UNCHANGED <<rows, saved, misfiled>>
     ELSE /\ rows' = Pruned({r \in rows : r.round # c.round} \cup {RowOf(c)})
          /\ IF c.stage = "ready" THEN saved' = (IF misfiled THEN None ELSE RowOf(c)) /\ UNCHANGED misfiled
             ELSE /\ misfiled' = (misfiled \/ (rows # {} /\ Newest(rows).round <= c.round))
                  /\ saved' = IF misfiled' THEN None ELSE saved
  /\ UNCHANGED archived

\* A check of the disk may have come at any time.
SnapshotOf(c) == SnapshotSkipped(c) \/ SnapshotTaken(c)

(***************************************************************************)
(* The worker starts: its database, the files it reads, the newest         *)
(* snapshot.  An error is reported to the bridge, which logs it.  A golden *)
(* set that is missing or cannot be parsed counts as an empty one.         *)
(***************************************************************************)
Boot ==
  /\ proc = "down" /\ proc' = "up"
  /\ core' = FreshCore /\ restarting' = FALSE
  /\ UNCHANGED <<rows, archived, arch, resets, faults, saved, misfiled>>

OpenDatabase ==
  /\ proc # "down" /\ core.stage = "opening"
  /\ core' = [core EXCEPT !.stage = "loading", !.db = "open"]
  /\ UNCHANGED <<proc, restarting, Storage, arch, resets, faults>>

ReadGoldenSet ==
  /\ proc # "down" /\ core.stage = "loading" /\ ~core.golden
  /\ core' = [core EXCEPT !.golden = TRUE]
  /\ UNCHANGED <<proc, restarting, Storage, arch, resets, faults>>

InitFails ==
  /\ proc # "down" /\ core.stage \in {"opening", "loading"} /\ Fault
  /\ core' = [core EXCEPT !.stage = "failed"]
  /\ UNCHANGED <<proc, restarting, Storage, arch, resets>>

\* The last golden error becomes the gate's first baseline.
NoBaseline(row)     == [core EXCEPT !.stage = "ready", !.round = row.round, !.mae = row.mae, !.stale = row.stale,
                                    !.lastSnap = row.round, !.ring = <<>>]            \* mutant
LoadedFrom(row)     == [core EXCEPT !.stage = "ready", !.round = row.round, !.mae = row.mae, !.stale = row.stale,
                                    !.lastSnap = row.round,
                                    !.ring = IF ~core.golden \/ row.mae = Broken THEN core.ring ELSE <<row.mae>>]

\* Without a loadable row the network takes the archive's newest weights,
\* by number of rounds, if there are any; how good it is then is open.
StartedFrom(archive) ==
  IF archive = {} THEN [core EXCEPT !.stage = "ready"]
  ELSE [core EXCEPT !.stage = "ready", !.stale = Newest(archive).stale]

\* The newest row counts, if it fits the build.
ArchiveFirst == rows # {} /\ Newest(rows).arch = arch /\ archived = {}       \* mutant
Loadable     == rows # {} /\ Newest(rows).arch = arch

Load(mae) ==
  /\ proc # "down" /\ core.stage = "loading"
  /\ IF Loadable
     THEN core' = LoadedFrom(Newest(rows)) /\ mae = core'.mae /\ UNCHANGED <<rows, archived>>
     ELSE /\ rows' = {} /\ archived' = IF InArchive = {} THEN {} ELSE {Newest(InArchive)}
          /\ core' = [StartedFrom(archived') EXCEPT !.mae = mae]
          /\ mae = core.mae \/ archived' # {}
  /\ UNCHANGED <<proc, restarting, arch, resets, faults, saved, misfiled>>

(***************************************************************************)
(* A round of the game has been revealed: the model trains on it, unless a *)
(* storm of rollbacks has frozen it; a step that diverges is rolled back.  *)
(***************************************************************************)
Trains(mae)       == [core EXCEPT !.round = @ + 1, !.mae = mae]
RolledBack(storm) == [core EXCEPT !.round = @ + 1, !.frozen = storm]
Sits(storm)       == [core EXCEPT !.round = @ + 1, !.frozen = storm]
SnapshotDue(c) == c.round - c.lastSnap >= Interval /\ c.round >= c.retryAt

\* storm: over NAN_STORM_THRESHOLD rollbacks in the last hour; idle: no
\* prediction in the last two seconds.
Then(c, due, idle) ==
  LET scheduled == [c EXCEPT !.pending = @ \/ due]
  IN  IF scheduled.pending /\ idle THEN SnapshotOf(scheduled)
      ELSE core' = scheduled /\ UNCHANGED Storage

CanUpdate == proc = "up" /\ core.round < MaxRound /\ (core.stage \in {"ready", "failed"} \/ core.round = 0)
OutsideOfCore == <<proc, restarting, arch, resets, faults>>

Update(mae, idle) ==
  /\ CanUpdate /\ ~core.frozen
  /\ Then(Trains(mae), SnapshotDue(Trains(mae)), idle)
  /\ UNCHANGED OutsideOfCore

UpdateDiverges(storm, idle) ==
  /\ CanUpdate /\ ~core.frozen
  /\ Then(RolledBack(storm), FALSE, idle)
  /\ UNCHANGED OutsideOfCore

UpdateFrozen(storm) ==
  /\ CanUpdate /\ core.frozen
  /\ core' = Sits(storm)
  /\ UNCHANGED <<Storage, OutsideOfCore>>

(***************************************************************************)
(* The operator's reset: the snapshots go to the archive, the core starts  *)
(* from random weights; a pending snapshot stays pending.                  *)
(***************************************************************************)
Discarded(rs) == {[r EXCEPT !.stale = TRUE] : r \in rs}
Emptied == [FreshCore EXCEPT !.stage = core.stage, !.db = core.db, !.golden = core.golden,
                             !.pending = core.pending]

Reset ==
  /\ proc # "down" /\ resets < MaxResets /\ resets' = resets + 1
  /\ core' = Emptied
  /\ IF core.db # "open"
     THEN /\ rows' = Discarded(rows) /\ archived' = Discarded(archived)
          /\ misfiled' = TRUE /\ saved' = None /\ UNCHANGED faults
     ELSE \/ /\ rows' = {} /\ saved' = None
             /\ archived' = IF InArchive = {} THEN {} ELSE Discarded({Newest(InArchive)})
             /\ UNCHANGED <<faults, misfiled>>
          \/ /\ Fault /\ misfiled' = TRUE
             /\ rows' = Discarded(rows) /\ archived' = Discarded(archived) /\ saved' = None
  /\ UNCHANGED <<proc, restarting, arch>>

(***************************************************************************)
(* The bridge's watchdog finds the last heartbeat over 30 s old, as when   *)
(* the process stood still: the worker is shut down, with a last snapshot, *)
(* and replaced.                                                           *)
(***************************************************************************)
RestartWorker ==
  /\ proc = "up" /\ ~restarting /\ Fault
  /\ restarting' = TRUE
  /\ SnapshotOf(core)
  /\ UNCHANGED <<proc, arch, resets>>

Respawn ==
  /\ proc = "up" /\ restarting
  /\ core' = FreshCore /\ restarting' = FALSE
  /\ UNCHANGED <<proc, Storage, arch, resets, faults>>

Stop ==
  /\ proc = "up" /\ proc' = "stopping"
  /\ SnapshotOf(core)
  /\ UNCHANGED <<restarting, arch, resets, faults>>

Down ==
  /\ proc' = "down" /\ core' = FreshCore /\ restarting' = FALSE
  /\ UNCHANGED <<Storage, arch, resets>>

ShutdownAcked == proc = "stopping" /\ Down /\ UNCHANGED faults
Crash         == proc # "down" /\ Fault /\ Down

\* A build with another architecture.
Deploy ==
  /\ proc = "down" /\ arch = 1 /\ arch' = 2 /\ Fault
  /\ UNCHANGED <<proc, restarting, core, Storage, resets>>

Next ==
  \/ Boot \/ OpenDatabase \/ ReadGoldenSet \/ InitFails
  \/ \E mae \in Models : Load(mae)
  \/ \E mae \in Models, idle \in BOOLEAN : Update(mae, idle)
  \/ \E storm, idle \in BOOLEAN : UpdateDiverges(storm, idle)
  \/ \E storm \in BOOLEAN : UpdateFrozen(storm)
  \/ Reset \/ RestartWorker \/ Respawn \/ Stop \/ ShutdownAcked \/ Crash \/ Deploy

Spec == Init /\ [][Next]_vars

Row == [round : 0 .. MaxRound, mae : Models, stale : BOOLEAN, arch : {1, 2}]
FiledRow == [round : 0 .. MaxRound, stale : BOOLEAN]

Core == [stage : {"opening", "loading", "ready", "failed"}, db : {"none", "open"}, golden : BOOLEAN,
         round : 0 .. MaxRound, mae : Models, stale : BOOLEAN, ring : Seq(Errors),
         lastSnap : 0 .. MaxRound, retryAt : 0 .. MaxRound + Interval, pending : BOOLEAN, frozen : BOOLEAN]

\* Every variable has its type; the gate remembers at most Window errors, the
\* snapshots are of different rounds.
TypeOK ==
  /\ proc \in {"down", "up", "stopping"} /\ restarting \in BOOLEAN /\ misfiled \in BOOLEAN
  /\ core \in Core /\ Len(core.ring) <= Window
  /\ rows \subseteq Row /\ \A r, s \in rows : r.round = s.round => r = s
  /\ archived \subseteq FiledRow /\ Cardinality(archived) <= 1
  /\ arch \in {1, 2} /\ resets \in 0 .. MaxResets /\ faults \in 0 .. MaxFaults
  /\ saved \in Row \cup {None}
=============================================================================
