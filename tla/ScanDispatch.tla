---------------------------- MODULE ScanDispatch ----------------------------
(***************************************************************************)
(* The dispatch of a full-file scan (internal/scan/agent.go): batches one  *)
(* after the other, the files of a batch in parallel up to MaxConcurrency, *)
(* a budget gate per file, duplicate findings merged when a batch is over, *)
(* and the checkpoints written after that.                                 *)
(*                                                                         *)
(* A finding is the pair of the file whose task filed it and of the path   *)
(* it is filed on.  A comment stands for the findings merged into it.      *)
(***************************************************************************)
EXTENDS Naturals, Sequences, FiniteSets, SequencesExt

CONSTANTS
  Batches,        \* the files selected, in the batches of groupBatches (ScanSource)
  Resumable,      \* the files the resumed session has a checkpoint for
  Filing,         \* Filing[f]: the paths the task of f may comment on
  MaxConcurrency, \* slots of a batch
  Estimate,       \* tokens a file is estimated at
  Costs,          \* tokens a request may cost
  Budget,         \* the run's token budget, 0 for none
  SpentBound,     \* requests stop being counted here; checking only
  MinDedup        \* comments a batch needs to be deduplicated

Members(b) == Range(Batches[b])
ScanItem == UNION {Members(b) : b \in DOMAIN Batches}

(* groupBatches puts every file selected in one batch, once. *)
ASSUME BatchesAssumption ==
  /\ Batches \in Seq(Seq(ScanItem))
  /\ \A b, c \in DOMAIN Batches : \A i \in DOMAIN Batches[b], j \in DOMAIN Batches[c] :
       Batches[b][i] = Batches[c][j] => b = c /\ i = j
ASSUME ScanAssumption ==
  /\ Resumable \subseteq ScanItem /\ Filing \in [ScanItem -> SUBSET ScanItem]
  /\ MaxConcurrency \in Nat \ {0} /\ {Estimate, Budget, SpentBound} \subseteq Nat
  /\ Costs \subseteq Nat \ {0} /\ MinDedup \in Nat \ {0}

SmallerOf(m, n) == IF m < n THEN m ELSE n

VARIABLES
  phase,       \* "loop", "batch", "acquire", "join", "dedup", "record" or "ended"
  batch,       \* number of the current batch
  next,        \* position of the next file in it
  batchStart,  \* comments in the collector when it started
  batchDone,   \* the batch's checkpoints: files completed or reused
  merged,      \* dedupCheckpoints: path -> comments; <<>> when there are none
  budgetHit,   \* the budget gate stopped the batch
  interrupted, \* the context ended while the batch waited for a slot
  budgetExceeded, \* what the run reports of its budget
  state,       \* state[f]: "waiting", "running", "done", "reused", "failed" or
               \* "stopped" by the end of the context
  dispatched, failed,
  spent,       \* tokens used by the run
  pool,        \* findings given to the worker pool and not yet collected
  comments,    \* the collector
  checkpoint,  \* checkpoint[f]: the comments of its "done" or "reused" record
  result,      \* "none", "ok", "cancelled" or "all failed"
  cancelled

loop == <<phase, batch, next, batchStart, batchDone, merged>>
limits == <<budgetHit, interrupted, budgetExceeded>>
workers == <<state, dispatched, failed, spent>>
found == <<pool, comments>>
ends == <<checkpoint, result, cancelled>>
scanVars == <<loop, limits, workers, found, ends>>

Comment(path, of) == [path |-> path, of |-> of]
NoCheckpoint == {Comment("none", {})}
Since(start) == SubSeq(comments, start + 1, Len(comments))
Running == {f \in ScanItem : state[f] = "running"}
Reused == {f \in ScanItem : state[f] = "reused"}
Current == Batches[batch][next]
Projected == spent + Estimate

(* The findings the collector stands for, and those a checkpoint brings back. *)
Output == UNION {comments[i].of : i \in DOMAIN comments}
Restored(f) == UNION {c.of : c \in checkpoint[f]}

-----------------------------------------------------------------------------
(* Deduplication. *)

(* Mutated: an id that no group names is not missed. *)
AccountedLoose(groups, n) == \A g, h \in groups : g = h \/ g \cap h = {}

(* Every id is in exactly one group; any other answer is refused. *)
Accounted(groups, n) == UNION groups = 1..n /\ \A g, h \in groups : g = h \/ g \cap h = {}

(* A group's comment: its first member's, standing for all of them. *)
Canonical(originals, group, head) ==
  Comment(originals[head[group]].path, UNION {originals[i].of : i \in group})

Deduped(originals, groups, head) ==
  LET order == SetToSeq(groups)
  IN  [k \in DOMAIN order |-> Canonical(originals, order[k], head)]

Paths(originals, group) == {originals[i].path : i \in group}

(* Mutated: a group over several files is kept as its canonical comment only. *)
MergedOfCanonical(originals, groups, head, path) ==
  {Canonical(originals, g, head) : g \in {h \in groups : originals[head[h]].path = path}}

(* The checkpoint of a path: canonical comments of groups within one file, the *)
(* original comments of groups over several.                                   *)
MergedOf(originals, groups, head, path) ==
  {Canonical(originals, g, head) : g \in {h \in groups : Paths(originals, h) = {path}}}
    \cup {originals[i] : i \in {j \in DOMAIN originals : originals[j].path = path /\
            \E g \in groups : j \in g /\ Paths(originals, g) # {path}}}

-----------------------------------------------------------------------------
ScanInit ==
  /\ phase = "loop" /\ batch = 1 /\ next = 1 /\ batchStart = 0 /\ batchDone = {} /\ merged = <<>>
  /\ budgetHit = FALSE /\ interrupted = FALSE /\ budgetExceeded = FALSE
  /\ state = [f \in ScanItem |-> "waiting"] /\ dispatched = 0 /\ failed = 0 /\ spent = 0
  /\ pool = {} /\ comments = <<>> /\ checkpoint = [f \in ScanItem |-> NoCheckpoint]
  /\ result = "none" /\ cancelled = FALSE

EndScan(r) == phase' = "ended" /\ result' = r

AllFailed == failed > 0 /\ failed = dispatched /\ Reused = {}

(* The end of the scan: a rollup of the files that failed. *)
Rollup == EndScan(IF AllFailed THEN "all failed" ELSE "ok")

(* The next batch, unless the context is done. *)
NextBatch ==
  /\ phase = "loop"
  /\ IF batch <= Len(Batches) /\ ~cancelled
       THEN /\ phase' = "batch" /\ next' = 1 /\ batchStart' = Len(comments)
            /\ batchDone' = {} /\ merged' = <<>> /\ UNCHANGED result
       ELSE /\ IF batch > Len(Batches) THEN Rollup ELSE EndScan("cancelled")
            /\ UNCHANGED <<next, batchStart, batchDone, merged>>
  /\ UNCHANGED <<batch, limits, workers, found, checkpoint, cancelled>>

(* A file with a checkpoint brings its comments back. *)
ReuseFile ==
  /\ phase = "batch" /\ next <= Len(Batches[batch]) /\ Current \in Resumable
  /\ state' = [state EXCEPT ![Current] = "reused"]
  /\ comments' = Append(comments, Comment(Current, {<<Current, Current>>}))
  /\ batchDone' = batchDone \cup {Current} /\ next' = next + 1
  /\ UNCHANGED <<phase, batch, batchStart, merged, limits, dispatched, failed, spent,
                 pool, ends>>

(* Mutated: only the batch knows that the budget stopped it. *)
GateFileUnreported ==
  /\ phase = "batch" /\ next <= Len(Batches[batch]) /\ Current \notin Resumable
  /\ IF Budget > 0 /\ Projected > Budget
       THEN phase' = "join" /\ budgetHit' = TRUE
       ELSE phase' = "acquire" /\ UNCHANGED budgetHit
  /\ UNCHANGED <<batch, next, batchStart, batchDone, merged, interrupted, budgetExceeded, workers,
                 found, ends>>

(* The budget gate of a file, before a slot is asked for. *)
GateFile ==
  /\ phase = "batch" /\ next <= Len(Batches[batch]) /\ Current \notin Resumable
  /\ IF Budget > 0 /\ Projected > Budget
       THEN phase' = "join" /\ budgetHit' = TRUE /\ budgetExceeded' = TRUE
       ELSE phase' = "acquire" /\ UNCHANGED <<budgetHit, budgetExceeded>>
  /\ UNCHANGED <<batch, next, batchStart, batchDone, merged, interrupted, workers, found, ends>>

(* A slot is free: the file is launched. *)
Launch ==
  /\ phase = "acquire" /\ Cardinality(Running) < MaxConcurrency
  /\ state' = [state EXCEPT ![Current] = "running"] /\ dispatched' = dispatched + 1
  /\ phase' = "batch" /\ next' = next + 1
  /\ UNCHANGED <<batch, batchStart, batchDone, merged, limits, failed, spent, found, ends>>

(* The context ends first: the batch is left once its tasks are over. *)
LeaveBatch ==
  /\ phase = "acquire" /\ cancelled /\ phase' = "join" /\ interrupted' = TRUE
  /\ UNCHANGED <<batch, next, batchStart, batchDone, merged, budgetHit, budgetExceeded, workers,
                 found, ends>>

EndBatch ==
  /\ phase = "batch" /\ next > Len(Batches[batch]) /\ phase' = "join"
  /\ UNCHANGED <<batch, next, batchStart, batchDone, merged, limits, workers, found, ends>>

(* Await: every comment of the batch is in the collector.  A batch that was    *)
(* interrupted waits for them only when it has a checkpoint to write.          *)
Drained == pool = {} \/ (interrupted /\ batchDone = {})

(* wg.Wait, then Await; an interrupted batch goes straight to its checkpoints. *)
Join ==
  /\ phase = "join" /\ Running = {} /\ Drained
  /\ phase' = IF interrupted THEN "record" ELSE "dedup"
  /\ UNCHANGED <<batch, next, batchStart, batchDone, merged, limits, workers, found, ends>>

ReplaceSince(start, replacements) == SubSeq(comments, 1, start) \o replacements

(* A request's tokens, which the run's total gains. *)
Spend == \E cost \in Costs : spent' = SmallerOf(spent + cost, SpentBound)

(* maybeRunDedup: a failed request, a malformed grouping or one that merges    *)
(* nothing changes no comment.                                                 *)
Dedup ==
  /\ phase = "dedup" /\ phase' = "record"
  /\ LET originals == Since(batchStart) IN
       \/ UNCHANGED <<comments, merged, spent>>
       \/ /\ Len(originals) >= MinDedup /\ Spend /\ UNCHANGED <<comments, merged>>
       \/ /\ Len(originals) >= MinDedup /\ Spend
          /\ \E groups \in SUBSET ((SUBSET (DOMAIN originals)) \ {{}}) :
               /\ Accounted(groups, Len(originals)) /\ Cardinality(groups) < Len(originals)
               /\ \E head \in {h \in [groups -> DOMAIN originals] : \A g \in groups : h[g] \in g} :
                    /\ comments' = ReplaceSince(batchStart, Deduped(originals, groups, head))
                    /\ merged' = [p \in ScanItem |-> MergedOf(originals, groups, head, p)]
  /\ UNCHANGED <<batch, next, batchStart, batchDone, limits, state, dispatched, failed,
                 pool, ends>>

Own(path) == {c \in Range(Since(batchStart)) : c.path = path}

(* What a file's record carries: a reused file keeps the comments it came with. *)
BatchCheckpoints ==
  [f \in batchDone |->
     IF state[f] = "reused" THEN {Comment(f, {<<f, f>>})}
     ELSE IF merged # <<>> THEN merged[f] ELSE Own(f)]

(* recordBatchCheckpoints, and what the loop does of the batch's outcome. *)
Record ==
  /\ phase = "record"
  /\ checkpoint' = [f \in ScanItem |-> IF f \in batchDone THEN BatchCheckpoints[f] ELSE checkpoint[f]]
  /\ \/ /\ interrupted /\ EndScan("cancelled") /\ UNCHANGED batch
     \/ /\ ~interrupted /\ budgetHit /\ Rollup /\ UNCHANGED batch
     \/ /\ ~interrupted /\ ~budgetHit /\ phase' = "loop" /\ batch' = batch + 1 /\ UNCHANGED result
  /\ UNCHANGED <<next, batchStart, batchDone, merged, limits, workers, found, cancelled>>

-----------------------------------------------------------------------------
(* The task of a file files a finding; a worker adds it to the collector. *)
Filed == pool \cup Output

FileFinding(f, path) ==
  /\ state[f] = "running" /\ path \in Filing[f] /\ <<f, path>> \notin Filed
  /\ pool' = pool \cup {<<f, path>>}
  /\ UNCHANGED <<loop, limits, workers, comments, ends>>

Land ==
  /\ phase # "ended"
  /\ \E finding \in pool :
       /\ comments' = Append(comments, Comment(finding[2], {finding})) /\ pool' = pool \ {finding}
  /\ UNCHANGED <<loop, limits, workers, ends>>

(* A request of a task. *)
TaskSpends(f) ==
  /\ state[f] = "running" /\ Spend
  /\ UNCHANGED <<loop, limits, state, dispatched, failed, found, ends>>

(* The task ends: task_done; an error, a limit, an oversized prompt; the run's *)
(* budget, which is reported; or the end of the context.                       *)
FinishFile(f) ==
  /\ state[f] = "running"
  /\ \E outcome \in {"done", "failed", "stopped"} :
       /\ outcome = "stopped" => cancelled
       /\ state' = [state EXCEPT ![f] = outcome]
       /\ IF outcome = "done"
            THEN batchDone' = batchDone \cup {f} /\ UNCHANGED <<failed, budgetExceeded>>
            ELSE /\ failed' = failed + 1 /\ UNCHANGED batchDone
                 /\ budgetExceeded' \in IF outcome = "failed" /\ Budget > 0 /\ spent > Budget
                                          THEN {budgetExceeded, TRUE} ELSE {budgetExceeded}
  /\ UNCHANGED <<phase, batch, next, batchStart, merged, budgetHit, interrupted, dispatched, spent,
                 found, ends>>

Cancel ==
  /\ phase # "ended" /\ ~cancelled /\ cancelled' = TRUE
  /\ UNCHANGED <<loop, limits, workers, found, checkpoint, result>>

Loop ==
  NextBatch \/ ReuseFile \/ GateFile \/ Launch \/ LeaveBatch \/ EndBatch \/ Join \/ Dedup \/ Record

(* The scan has returned. *)
Stay == phase = "ended" /\ UNCHANGED scanVars

ScanNext ==
  \/ Loop \/ Land \/ Cancel
  \/ \E f \in ScanItem : TaskSpends(f) \/ FinishFile(f) \/ \E path \in ScanItem : FileFinding(f, path)
  \/ Stay

ScanSpec == ScanInit /\ [][ScanNext]_scanVars

-----------------------------------------------------------------------------

(* However workers, batches and merges interleave, a scan that was not cut     *)
(* short returns every finding that was filed or reused once, alone or merged. *)
OutputWhole ==
  phase = "ended" =>
    /\ result # "cancelled" => pool = {}
    /\ \A i, j \in DOMAIN comments : i # j => comments[i].of \cap comments[j].of = {}

(* A merge never costs a finding. *)
FindingsKept == [][Output \subseteq Output']_scanVars

SameBatch(f, g) == \E b \in DOMAIN Batches : {f, g} \subseteq Members(b)

(* The checkpoint of a completed file restores all that was found on it within *)
(* its batch, so that a file merged with others and then left out of a resume  *)
(* does not take their findings along ("so invalidating one file cannot erase  *)
(* another file's finding on resume").                                         *)
CheckpointRestores ==
  \A f \in ScanItem : state[f] = "done" /\ checkpoint[f] # NoCheckpoint =>
    \A finding \in Output :
      finding[2] = f /\ SameBatch(f, finding[1]) => finding \in Restored(f)

(* Checkpoints are written for every file that was completed or reused, even   *)
(* when its batch was interrupted or the budget ran out in it.                 *)
CheckpointsWritten ==
  phase = "ended" => \A f \in ScanItem : state[f] \in {"done", "reused"} => checkpoint[f] # NoCheckpoint

(* A scan that reports success launched nothing or got something out of it,    *)
(* and one that left a file out says that the budget was exceeded.             *)
SuccessIsHonest ==
  result = "ok" =>
    /\ dispatched = 0 \/ \E f \in ScanItem : state[f] \in {"done", "reused"}
    /\ (\E f \in ScanItem : state[f] = "waiting") => budgetExceeded

(* Every file that was settled has its checkpoint, and it restores the file.   *)
CheckpointsWhole == CheckpointsWritten /\ CheckpointRestores

(* What a scan returns and what it says of it.                                 *)
OutcomeHonest == OutputWhole /\ SuccessIsHonest
=============================================================================
