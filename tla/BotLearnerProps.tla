--------------------------- MODULE BotLearnerProps ---------------------------
(***************************************************************************)
(* What the bot keeps of what it learnt.                                   *)
(***************************************************************************)
EXTENDS BotLearner

\* The last snapshot a loaded worker took is the one the next start resumes
\* from: it is not pruned, overwritten or outranked by a row of more rounds,
\* through crashes, restarts and resets, unless it was misfiled or a new
\* architecture made it unusable.
LastSnapshotIsNewest ==
  saved # None /\ ~misfiled /\ saved.arch = arch => rows # {} /\ Newest(rows) = saved

\* A reset is final from the first snapshot of the new model on: no worker
\* resumes from the weights the reset discarded, neither from a row left behind
\* nor from the archive.
ResetIsKept ==
  saved # None /\ ~misfiled /\ saved.arch = arch /\ ~saved.stale /\ core.stage = "ready" =>
    ~core.stale

\* "after a divergence, restarting the worker reloads a working model": in a
\* worker that found its golden set, a newest snapshot that works is replaced by
\* none that is broken, and by none that errs by more than a fifth above the worst
\* working one in the table (or a cent).  The window of the gate in memory thus
\* stays true to the table through pruning, restarts and resets.  The worker that
\* is being replaced may misjudge what it still saves.
WorkingModelSurvives ==
  [][rows # {} /\ rows' # {} /\ core.golden /\ ~restarting /\ ~misfiled' /\ Newest(rows).mae # Broken
       => \/ Newest(rows') \in rows
          \/ /\ Newest(rows').mae # Broken
             /\ \E r \in rows : r.mae # Broken /\ 10 * Newest(rows').mae <= 12 * AtLeast(r.mae, Cent)]_vars
=============================================================================
