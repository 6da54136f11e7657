-------------------------------- MODULE Turns --------------------------------
(***************************************************************************)
(* The editor adapter (src/acp): sessions, their prompts, and the ocr process *)
(* that a prompt runs.  A session holds one turn at a time and at most one    *)
(* pending clarification.  Cancel, CloseSession, Shutdown and the deadline of *)
(* a turn end its context at any moment; the process may ignore the           *)
(* interrupt, leave descendants behind or hold its pipes open.                *)
(***************************************************************************)
EXTENDS Naturals, FiniteSets

CONSTANTS Sessions, Prompts, Closers, \* calls of session/new, session/prompt and session/close
          MaxCancels, MaxRuns,        \* bounds: session/cancel notifications, runs of ocr
          NoTurn
ASSUME NotAPrompt == NoTurn \notin Prompts

VARIABLES
  sessions, \* each with its clarification (the cancellation it was said after, 0 for none) and latest turn
  closed,   \* Shutdown has begun
  prompt,   \* where each call is, its context and what came of it
  child,    \* its process: leader, descendants, and whether the readers were cut off
  closer,   \* calls of CloseSession, each waiting for a turn
  shutdown  \* Shutdown, and the turns it waits for
vars == <<sessions, closed, prompt, child, closer, shutdown>>

NewCall == [at |-> "new", session |-> {}, ctx |-> "live", late |-> FALSE, stopped |-> FALSE, unsent |-> FALSE,
            era |-> 0, seen |-> 0, ran |-> FALSE, cause |-> "", errs |-> {}, outcome |-> "", answer |-> ""]
NoChild == [leader |-> "none", kin |-> "none", cut |-> FALSE]

Init ==
  /\ sessions = [s \in Sessions |-> [is |-> "none", closing |-> FALSE, pending |-> 0, era |-> 1, turn |-> NoTurn]]
  /\ closed = FALSE
  /\ prompt = [p \in Prompts |-> NewCall]
  /\ child = [p \in Prompts |-> NoChild]
  /\ closer = [c \in Closers |-> [at |-> "new", session |-> {}, on |-> {}]]
  /\ shutdown = [at |-> "none", on |-> {}]

InTurn(p) == prompt[p].at \notin {"new", "answered"}
Latest(s) == {sessions[s].turn} \ {NoTurn}
Turn(s) == {p \in Latest(s) : InTurn(p)}
Busy(s) == Turn(s) # {}
Cancelled(p) == [prompt[p] EXCEPT !.ctx = IF @ = "live" THEN "cancelled" ELSE @]
To(p, where) == prompt' = [prompt EXCEPT ![p].at = where]
Answer(p, what) == prompt' = [prompt EXCEPT ![p].at = "end", ![p].answer = what]
Private(p) == UNCHANGED <<sessions, closed, closer, shutdown>>

NewSession(s) ==
  /\ sessions[s].is = "none" /\ ~closed
  /\ sessions' = [sessions EXCEPT ![s].is = "open"]
  /\ UNCHANGED <<closed, prompt, child, closer, shutdown>>

(* Mutated: a session that is being closed takes another turn.              *)
AdmitsClosing(s) == ~closed /\ sessions[s].is = "open" /\ ~Busy(s)

Admits(s) == ~closed /\ sessions[s].is = "open" /\ ~sessions[s].closing /\ ~Busy(s)
BeginTurn(p, s) ==
  /\ prompt[p].at = "new" /\ sessions[s].is # "none"
  /\ IF Admits(s)
       THEN /\ sessions' = [sessions EXCEPT ![s].turn = p]
            /\ prompt' = [prompt EXCEPT ![p].at = "parse", ![p].session = {s}, ![p].era = sessions[s].era]
       ELSE /\ prompt' = [prompt EXCEPT ![p].at = "answered", ![p].answer = "refused"]
            /\ UNCHANGED sessions
  /\ UNCHANGED <<closed, child, closer, shutdown>>

---------------------------------------------------------------------------
(* The prompt up to its run.                                                *)

Pending(p, said) == sessions' = [s \in Sessions |-> IF s \in prompt[p].session THEN [sessions[s] EXCEPT !.pending = said] ELSE sessions[s]]

\* Its resources cannot be used, or it has nothing else.
Unusable(p) ==
  /\ prompt[p].at = "parse"
  /\ To(p, "tell") /\ Pending(p, 0)
  /\ UNCHANGED <<closed, child, closer, shutdown>>
\* The clarification is read before the model is asked and merged with after.
Read(p) ==
  /\ prompt[p].at = "parse"
  /\ \E s \in prompt[p].session : prompt' = [prompt EXCEPT ![p].at = "merge", ![p].seen = sessions[s].pending]
  /\ UNCHANGED child /\ Private(p)
Settle(p, result) ==
  CASE result = "clarify" -> Pending(p, IF prompt[p].seen = 0 THEN prompt[p].era ELSE prompt[p].seen)
    [] result \in {"intent", "reject"} -> Pending(p, 0)
    [] OTHER -> UNCHANGED sessions
Merge(p) ==
  /\ prompt[p].at = "merge"
  /\ \E result \in {"intent", "clarify", "reject", "no answer"} :
       /\ prompt' = [prompt EXCEPT ![p].at = IF result = "intent" THEN "understood" ELSE "not understood", ![p].seen = 0]
       /\ Settle(p, result)
  /\ UNCHANGED <<closed, child, closer, shutdown>>
\* A slash command that resumes a clarification reads it a second time; when it
\* was cleared in between there is nothing to resume, and the code dereferences it.
Dereference(p) ==
  /\ prompt[p].at = "merge" /\ prompt[p].seen # 0
  /\ \E s \in prompt[p].session : sessions[s].pending = 0
  /\ Answer(p, "panic")
  /\ UNCHANGED child /\ Private(p)
Parsed(p) ==
  /\ prompt[p].at \in {"understood", "not understood"}
  /\ CASE prompt[p].ctx = "expired" -> Answer(p, "timeout")
       [] prompt[p].ctx = "cancelled" -> Answer(p, "cancelled")
       [] OTHER -> To(p, IF prompt[p].at = "understood" THEN "announce" ELSE "tell")
  /\ UNCHANGED child /\ Private(p)

FinishSend(p, failed, said) ==
  CASE prompt[p].ctx = "expired" -> "timeout" [] prompt[p].ctx = "cancelled" -> "cancelled"
    [] prompt[p].ctx = "live" -> IF failed THEN "error" ELSE said
Tell(p) ==
  /\ prompt[p].at = "tell"
  /\ \E failed \in BOOLEAN : Answer(p, FinishSend(p, failed, "end_turn"))
  /\ UNCHANGED child /\ Private(p)
\* There is no repository to run in, the client cannot be told, or the run begins.
Announce(p) ==
  /\ prompt[p].at = "announce"
  /\ \/ To(p, "tell")
     \/ Cardinality({q \in Prompts : prompt[q].ran}) < MaxRuns /\ prompt' = [prompt EXCEPT ![p].at = "prestart", ![p].ran = TRUE]
     \/ prompt' = [prompt EXCEPT ![p].at = "report", ![p].unsent = TRUE]
  /\ UNCHANGED child /\ Private(p)

---------------------------------------------------------------------------
(* The run.                                                                 *)

\* An expired deadline wins over a cancellation first seen with it.
LocalTermination(p) ==
  CASE prompt[p].ctx = "expired" \/ prompt[p].late -> "timed_out"
    [] ~(prompt[p].ctx = "expired" \/ prompt[p].late) /\ (prompt[p].ctx = "cancelled" \/ prompt[p].stopped) -> "cancelled"
    [] OTHER -> ""
Deliver(p, outcome, cause) == prompt' = [prompt EXCEPT ![p].at = "collect", ![p].outcome = outcome, ![p].cause = cause]

Prestart(p) ==
  /\ prompt[p].at = "prestart"
  /\ IF LocalTermination(p) = "" THEN To(p, "start") ELSE Deliver(p, LocalTermination(p), LocalTermination(p))
  /\ UNCHANGED child /\ Private(p)
Start(p) ==
  /\ prompt[p].at = "start"
  /\ \/ \E kin \in {"none", "group", "stray"} : child' = [child EXCEPT ![p].leader = "up", ![p].kin = kin] /\ To(p, "await")
     \/ /\ Deliver(p, IF LocalTermination(p) = "" THEN "failed" ELSE LocalTermination(p), LocalTermination(p))
        /\ UNCHANGED child
  /\ Private(p)
\* The leader leaves by itself, interrupted or killed; so may its descendants.
Leave(p) ==
  /\ InTurn(p) \* afterwards nobody looks
  /\ \/ child[p].leader = "up" /\ child' = [child EXCEPT ![p].leader = "gone"]
     \/ child[p].kin # "none" /\ child' = [child EXCEPT ![p].kin = "none"]
  /\ UNCHANGED <<sessions, closed, prompt, closer, shutdown>>
Kill(p, where, errs) ==
  \/ /\ prompt' = [prompt EXCEPT ![p].at = where, ![p].errs = @ \cup errs]
     /\ child' = [child EXCEPT ![p].kin = IF @ = "group" THEN "none" ELSE @]
  \/ prompt' = [prompt EXCEPT ![p].at = where, ![p].errs = @ \cup errs \cup {"kill"}] /\ UNCHANGED child

\* A stopped leader is interrupted; a failure of that is only reported.
Await(p) ==
  /\ prompt[p].at = "await"
  /\ child[p].leader = "gone" \/ LocalTermination(p) # ""
  /\ prompt' = [prompt EXCEPT ![p].at = IF LocalTermination(p) = "" THEN "drain" ELSE "grace", ![p].cause = LocalTermination(p)]
  /\ UNCHANGED child /\ Private(p)

\* It left within the grace period, or the period is over.
Grace(p) ==
  /\ prompt[p].at = "grace"
  /\ \/ child[p].leader = "gone" /\ Kill(p, "drain", {})
     \/ Kill(p, "killed", {})
  /\ Private(p)
Killed(p) ==
  /\ prompt[p].at = "killed"
  /\ \E errs \in {{}, {"exit"}} :
       /\ errs = {} => child[p].leader = "gone"
       /\ prompt' = [prompt EXCEPT ![p].at = "drain", ![p].errs = @ \cup errs]
  /\ UNCHANGED child /\ Private(p)

PipesClosed(p) == child[p].leader # "up" /\ child[p].kin = "none"

(* Mutated: readers that hold on are not cut off.                           *)
DrainUncut(p) ==
  /\ prompt[p].at = "drain"
  /\ \/ PipesClosed(p) /\ To(p, "conclude") /\ UNCHANGED child
     \/ prompt' = [prompt EXCEPT ![p].at = "conclude", ![p].errs = @ \cup {"drain"}] /\ UNCHANGED child
  /\ Private(p)

\* The readers saw the end, or are cut off when the drain period is over.
Drain(p) ==
  /\ prompt[p].at = "drain"
  /\ \/ PipesClosed(p) /\ To(p, "conclude") /\ UNCHANGED child
     \/ prompt' = [prompt EXCEPT ![p].at = "conclude", ![p].errs = @ \cup {"drain"}] /\ child' = [child EXCEPT ![p].cut = TRUE]
  /\ Private(p)

Outcome(cause, errs, good) == IF cause # "" THEN cause ELSE IF errs = {} /\ good THEN "completed" ELSE "failed"

(* Mutated: what is observed last decides.                                  *)
ConcludeLatest(p) ==
  /\ prompt[p].at = "conclude"
  /\ \E good, killed \in BOOLEAN :
       LET errs  == prompt[p].errs \cup (IF killed THEN {} ELSE {"kill"})
           cause == LocalTermination(p)
       IN  /\ prompt[p].cause # "" => killed
           /\ prompt' = [prompt EXCEPT ![p].at = "collect", ![p].errs = errs, ![p].outcome = Outcome(cause, errs, good)]
           /\ child' = [child EXCEPT ![p].kin = IF @ = "group" /\ prompt[p].cause = "" /\ killed THEN "none" ELSE @]
  /\ Private(p)

\* A leader that left by itself is followed by a kill of its group; then the
\* last look at the context: a later cancellation cannot rewrite the outcome.
Conclude(p) ==
  /\ prompt[p].at = "conclude"
  /\ \E good, killed \in BOOLEAN : \* good: exit code, size and form of the output
       LET errs  == prompt[p].errs \cup (IF killed THEN {} ELSE {"kill"})
           cause == IF prompt[p].cause = "" THEN LocalTermination(p) ELSE prompt[p].cause
       IN  /\ prompt[p].cause # "" => killed \* no second kill
           /\ prompt' = [prompt EXCEPT ![p].at = "collect", ![p].cause = cause, ![p].errs = errs, ![p].outcome = Outcome(cause, errs, good)]
           /\ child' = [child EXCEPT ![p].kin = IF @ = "group" /\ prompt[p].cause = "" /\ killed THEN "none" ELSE @]
  /\ Private(p)

---------------------------------------------------------------------------
(* What the client is told.                                                 *)

\* A progress message cannot be sent: the run is stopped.
Progress(p) ==
  /\ prompt[p].at \in {"prestart", "start", "await", "grace", "killed", "drain", "conclude", "collect"}
  /\ prompt[p].ctx = "live" /\ ~prompt[p].unsent
  /\ prompt' = [prompt EXCEPT ![p].unsent = TRUE, ![p].stopped = TRUE]
  /\ UNCHANGED child /\ Private(p)
\* The events end with the readers; the outcome is taken afterwards.
Collect(p) ==
  /\ prompt[p].at = "collect"
  /\ child[p].cut \/ PipesClosed(p)
  /\ \E failed \in BOOLEAN : prompt' = [prompt EXCEPT ![p].at = "report", ![p].unsent = @ \/ failed]
  /\ UNCHANGED child /\ Private(p)
Report(p) ==
  /\ prompt[p].at = "report"
  /\ LET it == prompt[p] IN
     CASE it.outcome = "timed_out" \/ it.ctx = "expired" -> Answer(p, "timeout")
       [] ~(it.outcome = "timed_out" \/ it.ctx = "expired") /\ it.unsent -> Answer(p, FinishSend(p, TRUE, ""))
       [] ~(it.outcome = "timed_out" \/ it.ctx = "expired") /\ ~it.unsent /\ (it.outcome = "cancelled" \/ it.ctx # "live") -> Answer(p, "cancelled")
       [] OTHER -> IF it.outcome = "completed" THEN To(p, "deliver") ELSE To(p, "deliver") \/ Answer(p, "error")
  /\ UNCHANGED child /\ Private(p)
\* The result is sent; an error that came with it is the answer.
DeliverResult(p) ==
  /\ prompt[p].at = "deliver"
  /\ \E failed \in BOOLEAN :
       LET sent == FinishSend(p, failed, "end_turn") IN
       Answer(p, IF sent # "error" /\ prompt[p].outcome = "failed" THEN "error" ELSE sent)
  /\ UNCHANGED child /\ Private(p)

\* The call returns and what it held is gone.
Return(p) ==
  /\ prompt' = [prompt EXCEPT ![p] = [NewCall EXCEPT !.at = "answered", !.session = prompt[p].session, !.ran = prompt[p].ran]]
  /\ child' = [child EXCEPT ![p] = NoChild]

(* Mutated: a turn that was cancelled keeps its clarification.              *)
EndTurnKeeps(p) ==
  /\ prompt[p].at = "end"
  /\ Return(p)
  /\ sessions' = [s \in Sessions |-> IF s \notin prompt[p].session THEN sessions[s]
                    ELSE [sessions[s] EXCEPT !.is = IF sessions[s].closing THEN "deleted" ELSE @]]
  /\ UNCHANGED <<closed, closer, shutdown>>

EndTurn(p) ==
  /\ prompt[p].at = "end"
  /\ Return(p)
  /\ sessions' = [s \in Sessions |-> IF s \notin prompt[p].session THEN sessions[s]
                    ELSE [sessions[s] EXCEPT !.pending = IF prompt[p].ctx = "live" THEN @ ELSE 0, !.is = IF sessions[s].closing THEN "deleted" ELSE @]]
  /\ UNCHANGED <<closed, closer, shutdown>>

---------------------------------------------------------------------------
(* What ends a turn from outside.                                           *)

Deadline(p) ==
  /\ InTurn(p) /\ ~prompt[p].late /\ prompt[p].ctx # "expired"
  /\ prompt' = [prompt EXCEPT ![p].ctx = IF @ = "live" THEN "expired" ELSE @, ![p].late = prompt[p].ctx # "live"]
  /\ UNCHANGED child /\ Private(p)
Cancel(s) ==
  /\ sessions[s].is = "open" /\ sessions[s].era <= MaxCancels
  /\ sessions' = [sessions EXCEPT ![s].pending = 0, ![s].era = @ + 1]
  /\ prompt' = [p \in Prompts |-> IF p \in Turn(s) THEN Cancelled(p) ELSE prompt[p]]
  /\ UNCHANGED <<closed, child, closer, shutdown>>
CloseSession(c, s) ==
  /\ closer[c].at = "new" /\ sessions[s].is # "none"
  /\ IF sessions[s].is = "open"
       THEN /\ sessions' = [sessions EXCEPT ![s].closing = TRUE, ![s].pending = 0]
            /\ prompt' = [p \in Prompts |-> IF p \in Turn(s) THEN Cancelled(p) ELSE prompt[p]]
       ELSE UNCHANGED <<sessions, prompt>>
  /\ closer' = [closer EXCEPT ![c] = [at |-> "waiting", session |-> {s}, on |-> IF sessions[s].is = "open" THEN Latest(s) ELSE {}]]
  /\ UNCHANGED <<closed, child, shutdown>>
CloseReturns(c) ==
  /\ closer[c].at = "waiting"
  /\ \/ /\ \A p \in closer[c].on : ~InTurn(p)
        /\ closer' = [closer EXCEPT ![c].at = "ok"]
        /\ sessions' = [s \in Sessions |-> IF s \in closer[c].session THEN [sessions[s] EXCEPT !.is = "deleted"] ELSE sessions[s]]
     \/ closer[c].on # {} /\ closer' = [closer EXCEPT ![c].at = "given up"] /\ UNCHANGED sessions
  /\ UNCHANGED <<closed, prompt, child, shutdown>>
Shutdown ==
  /\ shutdown.at = "none"
  /\ closed' = TRUE
  /\ LET open == {s \in Sessions : sessions[s].is = "open"} IN
     /\ sessions' = [s \in Sessions |-> IF s \in open THEN [sessions[s] EXCEPT !.pending = 0] ELSE sessions[s]]
     /\ prompt' = [p \in Prompts |-> IF \E s \in open : p \in Turn(s) THEN Cancelled(p) ELSE prompt[p]]
     /\ shutdown' = [at |-> "waiting", on |-> UNION {Latest(s) : s \in open}]
  /\ UNCHANGED <<child, closer>>
ShutdownReturns ==
  /\ shutdown.at = "waiting"
  /\ \/ (\A p \in shutdown.on : ~InTurn(p)) /\ shutdown' = [shutdown EXCEPT !.at = "ok"]
     \/ shutdown.on # {} /\ shutdown' = [shutdown EXCEPT !.at = "late"]
  /\ UNCHANGED <<sessions, closed, prompt, child, closer>>

\* What the turn's goroutine does, its timers among it.
Step(p) ==
  \/ Unusable(p) \/ Read(p) \/ Merge(p) \/ Dereference(p) \/ Parsed(p) \/ Tell(p) \/ Announce(p) \/ Prestart(p) \/ Start(p) \/ Await(p) \/ Grace(p)
  \/ Killed(p) \/ Drain(p) \/ Conclude(p) \/ Collect(p) \/ Report(p) \/ DeliverResult(p) \/ EndTurn(p)
Next ==
  \/ \E p \in Prompts : Step(p) \/ Leave(p) \/ Progress(p) \/ Deadline(p) \/ \E s \in Sessions : BeginTurn(p, s)
  \/ \E s \in Sessions : NewSession(s) \/ Cancel(s) \/ \E c \in Closers : CloseSession(c, s)
  \/ \E c \in Closers : CloseReturns(c)
  \/ Shutdown \/ ShutdownReturns
Spec == Init /\ [][Next]_vars /\ \A p \in Prompts : WF_<<sessions, prompt, child>>(Step(p))

---------------------------------------------------------------------------
(* When CloseSession or Shutdown has returned without an error, no turn of    *)
(* the session, or of any, is under way, and none begins any more.           *)
ClosedIsQuiet ==
  /\ \A c \in Closers : closer[c].at = "ok" => \A p \in Prompts : prompt[p].session = closer[c].session => ~InTurn(p)
  /\ shutdown.at = "ok" => \A p \in Prompts : ~InTurn(p)

(* Nothing the adapter started outlives its turn, short of what left the      *)
(* process group, unless the outcome says that it could not be ended.         *)
NothingBehind ==
  \A p \in Prompts : prompt[p].at \in {"report", "deliver", "end"} =>
    /\ child[p].kin = "group" => "kill" \in prompt[p].errs
    /\ child[p].leader = "up" => {"kill", "exit"} \cap prompt[p].errs # {}

(* What a user said before cancelling is not merged into what is said         *)
(* afterwards, however the cancellation meets the parsing of it.              *)
CancelForgets == \A s \in Sessions : ~Busy(s) /\ sessions[s].pending # 0 => sessions[s].pending = sessions[s].era

(* The first reason to stop that a run observes is the one that its client is *)
(* told, and a turn is a success only when its run was one.                   *)
FirstCauseStands ==
  \A p \in Prompts : LET it == prompt[p] IN it.at = "end" =>
    /\ it.cause = "timed_out" => it.answer = "timeout"
    /\ it.cause = "cancelled" /\ ~it.stopped => it.answer = "cancelled"
    /\ it.answer = "end_turn" /\ child[p].leader # "none" => it.outcome = "completed" /\ it.errs = {}

(* A turn that is cancelled or out of time is answered, though its process    *)
(* ignores every signal and a descendant keeps the pipes.                     *)
ToldEnds == \A p \in Prompts : InTurn(p) /\ prompt[p].ctx # "live" ~> prompt[p].at = "answered"

(* After a turn nothing of it goes on: see the two parts.                      *)
QuietAfter == ClosedIsQuiet /\ NothingBehind
=============================================================================
