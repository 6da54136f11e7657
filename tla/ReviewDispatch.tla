--------------------------- MODULE ReviewDispatch ---------------------------
(***************************************************************************)
(* One `ocr review` run (internal/agent/agent.go): Agent.Run and the group *)
(* goroutines dispatchSubtasks starts, reporting to one manifest builder   *)
(* (module Manifest), one comment collector and one session file.          *)
(*                                                                         *)
(* The main goroutine registers and seals the selection, applies a resume, *)
(* then walks the groups: budget look-ahead, semaphore, context re-check,  *)
(* go.  Each group goroutine runs a conversation, of which this module     *)
(* keeps the tokens it spends, the comments it lands on files (through     *)
(* asynchronous tasks, on its own files or on any other), the comments its *)
(* review filter removes, and how it ends; then it settles its files one   *)
(* by one and releases its slot.  The context may be cancelled, or reach a *)
(* deadline, at any moment.                                                *)
(***************************************************************************)
EXTENDS Naturals, Sequences, FiniteSets, SequencesExt, FiniteSetsExt

CONSTANTS
  AllFiles,     \* the files of the change, in its order
  Reusable,     \* those whose checkpoint the resumed parent settled
  Groups,       \* the groups groupDiffs makes of the others, each a sequence of files
  Concurrency,  \* Args.MaxConcurrency
  Budget,       \* Args.MaxTokensBudget, 0 for no budget
  Est,          \* Est[g]: estimated cost of group g
  MaxSpend,     \* bound: the tokens one group may spend
  GroupingCost, \* bound: the tokens the grouping request may spend
  Commenting,   \* bound: the groups whose conversations file comments
  Rounds,       \* Template.ReviewRounds()
  Refile,       \* bound: the files on which comments of other groups may be re-filed
  ErrKinds,     \* the errors executeGroupSubtask may return, see ClassifyItemError
  Stops,        \* the early exits it may report, see ClassifyStop
  CtxEnds,      \* how the run's context may end: "cancelled", "deadline"
  Endgames      \* the ends explored of a run's edges: "load", "empty", "persist"

G == DOMAIN Groups
Files(g) == Range(Groups[g])
Item == Range(AllFiles)

ASSUME ChangeAssumption == AllFiles \in Seq(Item)
ASSUME PartitionAssumption ==
  /\ Groups \in Seq(Seq(Item))
  /\ UNION {Files(g) : g \in G} = Item \ Reusable
  /\ \A g, h \in G : g # h => Files(g) \cap Files(h) = {}
ASSUME ConcurrencyAssumption == Concurrency \in Nat \ {0}
ASSUME RefileAssumption == Refile \subseteq Item

VARIABLES
  items, runFailure, pendingFailure, mode, sealed, frozen, result,  \* the manifest builder
  pc,             \* where Agent.Run is
  todo,           \* files the current pass of the main goroutine has left
  gi,             \* the group under consideration
  sem,            \* slots taken of the semaphore
  dispatched,     \* files handed to a goroutine
  subtaskFailed,  \* files counted as failed
  ctx,            \* "live" or how the context ended
  used,           \* tokens spent: used[0] by the grouping request, used[g] by group g
  phase,          \* phase[g] of the group's goroutine
  outcome,        \* outcome[g]: how its conversation ended
  left,           \* left[g]: files the goroutine has still to settle
  tasks,          \* groups with an unresolved asynchronous comment
  comments,       \* files with at least one comment in the collector
  checkpoint,     \* the last checkpoint written for each file
  output,         \* the files with comments Agent.Run returns
  runErr,         \* the error it returns
  sessionEnd      \* what became of the session_end record

M == INSTANCE Manifest WITH ItemClasses <- {}, RunClasses <- {}, Modes <- {"range"}

manifestVars == <<items, runFailure, pendingFailure, mode, sealed, frozen, result>>
mainVars == <<pc, todo, gi, dispatched, output, runErr, sessionEnd>>
groupVars == <<phase, outcome, left, subtaskFailed>>
workVars == <<used, tasks, comments>>
vars == <<manifestVars, mainVars, groupVars, workVars, sem, ctx, checkpoint>>

Undecided == [kind |-> "none", why |-> "none", report |-> FALSE]

TokensUsed == SumFunction(used)

(* The class a failed conversation gives its files. *)
ClassifyItemError(kind) ==
  CASE kind \in {"requestTimeout", "deadline"} -> "timeout"
    [] kind = "canceled" -> "cancelled"
    [] kind = "emptyTemplate" -> "configuration"
    [] kind = "panic" -> "panic"
    [] OTHER -> "provider"

(* The class an early exit gives the files it leaves without a comment. *)
ClassifyStop(stop) ==
  IF stop \in {"maxRounds", "tokenBudget", "promptTooLarge"} THEN "budget" ELSE "unknown"

Class(o) == IF o.kind = "stop" THEN ClassifyStop(o.why) ELSE ClassifyItemError(o.why)

-----------------------------------------------------------------------------
Init ==
  /\ M!Init
  /\ pc = "load" /\ todo = <<>> /\ gi = 1 /\ dispatched = 0
  /\ output = {} /\ runErr = "none" /\ sessionEnd = "none"
  /\ phase = [g \in G |-> "idle"]
  /\ outcome = [g \in G |-> Undecided]
  /\ left = [g \in G |-> <<>>]
  /\ subtaskFailed = 0
  /\ used = [g \in G \cup {0} |-> 0] /\ tasks = {} /\ comments = {}
  /\ sem = 0
  /\ ctx = "live"
  /\ checkpoint = [f \in Item |-> "none"]

-----------------------------------------------------------------------------
(* The main goroutine. *)

LoadFails ==
  /\ pc = "load" /\ "load" \in Endgames
  /\ M!SetRunFailure("input")
  /\ pc' = "freeze" /\ runErr' = "load"
  /\ UNCHANGED <<todo, gi, dispatched, output, sessionEnd, groupVars, workVars, sem, ctx, checkpoint>>

(* Every changed file is filtered out: no item is ever selected. *)
NothingSelected ==
  /\ pc = "load" /\ "empty" \in Endgames
  /\ pc' = "freeze"
  /\ UNCHANGED <<todo, gi, dispatched, output, runErr, sessionEnd,
                 manifestVars, groupVars, workVars, sem, ctx, checkpoint>>

Load ==
  /\ pc = "load"
  /\ pc' = "register" /\ todo' = AllFiles
  /\ UNCHANGED <<gi, dispatched, output, runErr, sessionEnd,
                 manifestVars, groupVars, workVars, sem, ctx, checkpoint>>

Register ==
  /\ pc = "register" /\ todo # <<>>
  /\ M!RegisterSelected(Head(todo))
  /\ todo' = Tail(todo)
  /\ UNCHANGED <<pc, gi, dispatched, output, runErr, sessionEnd,
                 groupVars, workVars, sem, ctx, checkpoint>>

Seal ==
  /\ pc = "register" /\ todo = <<>>
  /\ M!SealSelected
  /\ pc' = "resume" /\ todo' = AllFiles
  /\ UNCHANGED <<gi, dispatched, output, runErr, sessionEnd,
                 groupVars, workVars, sem, ctx, checkpoint>>

ApplyResume ==
  /\ pc = "resume" /\ todo # <<>>
  /\ LET f == Head(todo)
     IN  IF f \in Reusable
           THEN /\ \E found \in {{}, {f}} : comments' = comments \cup found
                /\ checkpoint' = [checkpoint EXCEPT ![f] = "reused"]
                /\ M!MarkReused(f)
           ELSE UNCHANGED <<comments, checkpoint, manifestVars>>
  /\ todo' = Tail(todo)
  /\ UNCHANGED <<pc, gi, dispatched, output, runErr, sessionEnd,
                 groupVars, used, tasks, sem, ctx>>

(* groupDiffs: one request, whose usage is recorded before any group starts. *)
Group ==
  /\ pc = "resume" /\ todo = <<>>
  /\ \E n \in 0..GroupingCost : used' = [used EXCEPT ![0] = n]
  /\ pc' = "gate"
  /\ UNCHANGED <<todo, gi, dispatched, output, runErr, sessionEnd,
                 manifestVars, groupVars, tasks, comments, sem, ctx, checkpoint>>

OverBudget(g) == Budget > 0 /\ TokensUsed + Est[g] > Budget

(* The look-ahead, before the semaphore. *)
Gate ==
  /\ pc = "gate" /\ gi \in G
  /\ IF OverBudget(gi)
       THEN pc' = "wait" /\ M!SetPendingFailureCause("budget")
       ELSE pc' = "acquire" /\ UNCHANGED manifestVars
  /\ UNCHANGED <<todo, gi, dispatched, output, runErr, sessionEnd,
                 groupVars, workVars, sem, ctx, checkpoint>>

AllDispatched ==
  /\ pc = "gate" /\ gi \notin G
  /\ pc' = "wait"
  /\ UNCHANGED <<todo, gi, dispatched, output, runErr, sessionEnd,
                 manifestVars, groupVars, workVars, sem, ctx, checkpoint>>

SlotFree == sem < Concurrency

(* select { case sem <- struct{}{}: ... case <-ctx.Done(): ... }: when both *)
(* are ready either may be taken.                                           *)
Acquire ==
  /\ pc = "acquire"
  /\ \/ SlotFree /\ sem' = sem + 1 /\ pc' = "spawn"
     \/ ctx # "live" /\ pc' = "wait" /\ UNCHANGED sem
  /\ UNCHANGED <<todo, gi, dispatched, output, runErr, sessionEnd,
                 manifestVars, groupVars, workVars, ctx, checkpoint>>

AbandonSlot == pc' = "wait" /\ sem' = sem - 1 /\ UNCHANGED <<gi, dispatched, phase>>

Spawn ==
  /\ pc = "spawn"
  /\ IF ctx # "live"
       THEN AbandonSlot
       ELSE /\ phase' = [phase EXCEPT ![gi] = "running"]
            /\ dispatched' = dispatched + Len(Groups[gi])
            /\ gi' = gi + 1 /\ pc' = "gate" /\ UNCHANGED sem
  /\ UNCHANGED <<todo, output, runErr, sessionEnd, manifestVars, outcome, left,
                 subtaskFailed, workVars, ctx, checkpoint>>

(* Mutated: the comment pool is not awaited. *)
DrainedNoAwait == \A g \in G : phase[g] \in {"idle", "done"}

(* wg.Wait, then CommentWorkerPool.Await. *)
Drained == (\A g \in G : phase[g] \in {"idle", "done"}) /\ tasks = {}

ReusedFiles == Cardinality({f \in Item : checkpoint[f] = "reused"})

(* Mutated: reused files are not looked at. *)
AllFailedIgnoringReuse == subtaskFailed > 0 /\ subtaskFailed = dispatched

AllFailed == subtaskFailed > 0 /\ subtaskFailed = dispatched /\ ReusedFiles = 0

RecordContextFailure ==
  IF ctx = "deadline" THEN M!SetPendingFailureCause("timeout")
                      ELSE M!SetRunFailure("cancelled")

(* dispatchSubtasks returns. *)
Report ==
  /\ pc = "wait" /\ Drained
  /\ output' = comments
  /\ IF ctx # "live"
       THEN runErr' = "ctx" /\ RecordContextFailure
       ELSE /\ runErr' = IF AllFailed /\ comments = {} THEN "allFailed" ELSE "none"
            /\ UNCHANGED manifestVars
  /\ pc' = "freeze"
  /\ UNCHANGED <<todo, gi, dispatched, sessionEnd, groupVars, workVars, sem, ctx, checkpoint>>

(* applyInputIdentity, then Finalize of the builder: two calls. *)
FreezeInput ==
  /\ pc = "freeze"
  /\ M!SetInput("range")
  /\ pc' = "finalize"
  /\ UNCHANGED <<todo, gi, dispatched, output, runErr, sessionEnd,
                 groupVars, workVars, sem, ctx, checkpoint>>

FinalizeManifest ==
  /\ pc = "finalize"
  /\ M!Finalize
  /\ pc' = "persist"
  /\ UNCHANGED <<todo, gi, dispatched, output, runErr, sessionEnd,
                 groupVars, workVars, sem, ctx, checkpoint>>

(* session.Finalize: a session_end that cannot be written is an error of its own. *)
Persist ==
  /\ pc = "persist"
  /\ \/ sessionEnd' = "written" /\ UNCHANGED runErr
     \/ /\ "persist" \in Endgames
        /\ sessionEnd' = "lost"
        /\ runErr' = IF runErr = "none" THEN "persist" ELSE runErr
  /\ pc' = "done"
  /\ UNCHANGED <<todo, gi, dispatched, output,
                 manifestVars, groupVars, workVars, sem, ctx, checkpoint>>

(* reviewResultError, of what Agent.Run returned and of the frozen manifest. *)
ExitsNonZero == runErr # "none" \/ result.terminal = "failed"

-----------------------------------------------------------------------------
(* The group goroutines. *)

Spend(g) ==
  /\ phase[g] = "running" \/ g \in tasks
  /\ used[g] < MaxSpend
  /\ used' = [used EXCEPT ![g] = @ + 1]
  /\ UNCHANGED <<manifestVars, mainVars, groupVars, tasks, comments, sem, ctx, checkpoint>>

Submit(g) ==
  /\ phase[g] = "running" /\ g \in Commenting \ tasks
  /\ tasks' = tasks \cup {g}
  /\ UNCHANGED <<manifestVars, mainVars, groupVars, used, comments, sem, ctx, checkpoint>>

(* The task resolves the comment to a file of its group, to another file of *)
(* the change, or to nothing (it failed or panicked).                       *)
Deliver(g) ==
  /\ g \in tasks
  /\ tasks' = tasks \ {g}
  /\ \/ \E f \in Files(g) \cup Refile : comments' = comments \cup {f}
     \/ UNCHANGED comments
  /\ UNCHANGED <<manifestVars, mainVars, groupVars, used, sem, ctx, checkpoint>>

(* The review filter of a round, after AwaitKey, empties a file of comments. *)
FilterRemoves(g) ==
  /\ phase[g] = "running" /\ g \notin tasks
  /\ \E f \in Files(g) \cap comments : comments' = comments \ {f}
  /\ UNCHANGED <<manifestVars, mainVars, groupVars, used, tasks, sem, ctx, checkpoint>>

GroupHasComments(g) == Files(g) \cap comments # {}

(* How a conversation can end now.  AwaitKey precedes every ending but an     *)
(* error: the first round returns it, a later one keeps the earlier rounds.   *)
Endings(g) ==
  {o \in {[kind |-> "completed", why |-> "none", report |-> FALSE]} : g \in tasks => Rounds > 1}
  \cup {[kind |-> "error", why |-> e, report |-> FALSE] :
          e \in {x \in ErrKinds \cup {"panic"} : x = "canceled" => ctx = "cancelled"}}
  \cup {[kind |-> "stop", why |-> s, report |-> s # "promptTooLarge" /\ ~GroupHasComments(g)] :
          s \in {x \in Stops : /\ g \notin tasks
                               /\ x = "tokenBudget" => Budget > 0 /\ TokensUsed > Budget}}

(* executeGroupSubtask returns, or panics and is recovered: an error or a     *)
(* panic counts the whole group as failed before its files are marked.        *)
End(g) ==
  /\ phase[g] = "running"
  /\ \E e \in Endings(g) :
       /\ outcome' = [outcome EXCEPT ![g] = e]
       /\ subtaskFailed' = IF e.kind = "error" THEN subtaskFailed + Len(Groups[g]) ELSE subtaskFailed
  /\ phase' = [phase EXCEPT ![g] = "settling"]
  /\ left' = [left EXCEPT ![g] = Groups[g]]
  /\ UNCHANGED <<manifestVars, mainVars, workVars, sem, ctx, checkpoint>>

(* Mutated: the group, not the file, decides what an early exit covered. *)
CoversByGroup(g, f) == outcome[g].kind = "completed" \/ (outcome[g].kind = "stop" /\ GroupHasComments(g))

(* A file is covered by a completed conversation, or by one that stopped *)
(* short but left a comment on that file.                                *)
Covers(g, f) == outcome[g].kind = "completed" \/ (outcome[g].kind = "stop" /\ f \in comments)

(* The next file of the group gets its mark and its checkpoint. *)
Settle(g) ==
  /\ phase[g] = "settling" /\ left[g] # <<>>
  /\ LET f == Head(left[g])
     IN  /\ IF Covers(g, f) THEN M!MarkCompleted(f) ELSE M!MarkFailed(f, Class(outcome[g]))
         /\ checkpoint' = [checkpoint EXCEPT ![f] = IF Covers(g, f) THEN "done" ELSE "failed"]
  /\ left' = [left EXCEPT ![g] = Tail(@)]
  /\ UNCHANGED <<mainVars, phase, outcome, subtaskFailed, workVars, sem, ctx>>

FailedFiles(g) == Cardinality({f \in Files(g) : items[f].state = "failed"})

(* Mutated: the slot is given back at the end of the work, which a panic skips. *)
KeptByPanic(g) == outcome[g].why = "panic"

(* It is given back by a deferred call. *)
KeepsSlot(g) == FALSE

(* The goroutine returns: an early exit counts the files it marked failed,  *)
(* if it is reported as an error; the slot is released.                     *)
Release(g) ==
  /\ phase[g] = "settling" /\ left[g] = <<>>
  /\ subtaskFailed' = IF outcome[g].report THEN subtaskFailed + FailedFiles(g) ELSE subtaskFailed
  /\ phase' = [phase EXCEPT ![g] = "done"]
  /\ sem' = IF KeepsSlot(g) THEN sem ELSE sem - 1
  /\ UNCHANGED <<manifestVars, mainVars, outcome, left, workVars, ctx, checkpoint>>

-----------------------------------------------------------------------------
CtxEnd ==
  /\ ctx = "live" /\ pc # "done"
  /\ ctx' \in CtxEnds
  /\ UNCHANGED <<manifestVars, mainVars, groupVars, workVars, sem, checkpoint>>

Main ==
  \/ LoadFails \/ NothingSelected \/ Load \/ Register \/ Seal \/ ApplyResume \/ Group \/ Gate \/ AllDispatched
  \/ Acquire \/ Spawn \/ Report \/ FreezeInput \/ FinalizeManifest \/ Persist

GroupStep(g) == Spend(g) \/ Submit(g) \/ FilterRemoves(g)
GroupProgress(g) == End(g) \/ Settle(g) \/ Release(g)

Done == pc = "done" /\ UNCHANGED vars

Next ==
  \/ Main \/ CtxEnd \/ Done
  \/ \E g \in G : GroupStep(g) \/ GroupProgress(g) \/ Deliver(g)

(* The main goroutine and every started goroutine and task keep running; a *)
(* conversation ends because its rounds, its tokens and its requests (each *)
(* under a client timeout) are bounded.                                    *)
Fairness ==
  /\ WF_vars(Main)
  /\ \A g \in G : WF_vars(GroupProgress(g)) /\ WF_vars(Deliver(g))

Spec == Init /\ [][Next]_vars /\ Fairness

-----------------------------------------------------------------------------

(* No finding is lost or added after dispatchSubtasks collected its result:    *)
(* what Agent.Run returns is all that ever landed in the collector.            *)
OutputComplete ==
  pc \in {"freeze", "finalize", "persist", "done"} => output = comments /\ tasks = {}

(* The exit contract written in reviewResultError: non-zero only for a         *)
(* run-level failure, or when every selected item failed; any usable coverage  *)
(* exits 0.  A session_end that was lost is an error of its own; a deadline on *)
(* the whole run, which the CLI never sets, is left out.                       *)
ExitContract ==
  pc = "done" /\ sessionEnd = "written" /\ ctx # "deadline" =>
    (ExitsNonZero <=>
       \/ result.runFailure # M!NoClass
       \/ result.coverage.selected # {} /\ result.coverage.selected = result.coverage.failed)

(* Every file left without a conversation gets the cause that stopped the run: *)
(* budget, cancellation or deadline; "unknown" is only ever said by a          *)
(* conversation that ended for an unclassified reason (Finalize's sweep).      *)
SweepIsExplained ==
  \A f \in Item : items[f].class = "unknown" =>
    \E g \in G : f \in Files(g) /\ outcome[g].kind = "stop" /\ ClassifyStop(outcome[g].why) = "unknown"

(* A file is reported completed on evidence of its own: its group's            *)
(* conversation completed, or a comment stands on that very file.              *)
CompletedOnEvidence ==
  \A f \in Item : items[f].state = "completed" =>
    \E g \in G : f \in Files(g) /\ (outcome[g].kind = "completed" \/ f \in comments)

(* Every run ends, with its manifest frozen, whatever is cancelled or fails.   *)
Termination == <>(pc = "done" /\ frozen)

(* How a run ended is told by its causes: each file that was left out by what  *)
(* stopped the run, the exit status by the coverage.                           *)
EndIsExplained == SweepIsExplained /\ ExitContract
=============================================================================
