------------------------------ MODULE Requests ------------------------------
(***************************************************************************)
(* Model requests of one review run (internal/llm): the three clients, the  *)
(* SDK retry loop they share, the concurrency limit, the retry collector    *)
(* and its report, which the command freezes when the run has ended.        *)
(*                                                                         *)
(* A request is one logical call; inside the SDK it may be several HTTP     *)
(* attempts.  Messages, headers and durations are left out.                 *)
(***************************************************************************)
EXTENDS Naturals, FiniteSets, Sequences

CONSTANTS
  Request,    \* the run's logical requests, told apart by their RequestMeta
  Job,        \* those a background memory compression makes
  Unnamed,    \* those without a meta, as a scan makes them
  Limit,      \* requests in flight at once; 0 is no limit
  MaxRetries  \* retries of one SDK call

ASSUME RequestsAssumption ==
  /\ Job \cup Unnamed \subseteq Request /\ Limit \in Nat /\ MaxRetries \in Nat

VARIABLES
  client,  \* the one client that serves the run
  pc,      \* where each request is
  context, \* its context: "live", "cancelled" or "expired"
  call,    \* 2 in the second SDK call of a chat completion that was cut short
  left,    \* retries its SDK call has left
  answer,  \* the answer the SDK returns, while pc is "returned"
  reply,   \* what its caller got: "none" as yet, "ok", or an error
  entries, \* RetryCollector.entries
  slots,   \* requests that hold a place of the concurrency limit
  run,     \* "running", "dispatched", "joined", "frozen"
  report

moving == <<pc, context, call, left, answer, reply, entries, slots, run, report>>
vars == <<client, moving>>

Streaming == {"chat stream", "responses stream"}
Kinds == Streaming \cup {"chat", "responses", "anthropic"}
NoAnswer == [status |-> 0, err |-> "none", again |-> FALSE]
NoReport == [state |-> "none", total |-> 0, retries |-> 0, retried |-> 0, recovered |-> 0, failed |-> 0, cancelled |-> 0, requests |-> {}]
Dead(r) == context[r] # "live"
ContextError(r) == IF context[r] = "cancelled" THEN "cancelled" ELSE "deadline"

---------------------------------------------------------------------------
(* Classification.                                                          *)

Success == [class |-> "none", phase |-> "none"]
Fault(class, phase) == [class |-> class, phase |-> phase]

ClassifyAttempt(a) ==
  CASE a.status = 401 -> Fault("authentication", "http")
    [] a.status = 0 /\ a.err = "cancelled" -> Fault("cancelled", "context")
    [] a.status = 0 /\ a.err = "deadline" -> Fault("timeout", "context")
    [] a.status = 0 /\ a.err = "reset" -> Fault("network", "transport")
    [] OTHER -> Success

\* The errors the boundary recognizes by their type; the rest stay as observed.
Recognized == {"cancelled", "deadline", "cut", "json"}
ClassifyBoundaryError(e) ==
  CASE e = "cancelled" -> Fault("cancelled", "context")
    [] e = "deadline" -> Fault("timeout", "context")
    [] e = "cut" -> Fault("network", "response_decode")
    [] e = "json" -> Fault("unknown", "response_decode")

ClassifyStreamError(e) ==
  CASE e = "integrity" -> Fault("provider", "stream")
    [] e \in {"cancelled", "deadline"} -> ClassifyBoundaryError(e)
    [] OTHER -> Fault("unknown", "stream")

---------------------------------------------------------------------------
(* The collector.                                                           *)

NewEntry == [attempts |-> <<>>, finalized |-> FALSE, outcome |-> "none", violation |-> FALSE]
Named(r) == r \notin Unnamed
HasErrorAttempt(e) == \E i \in DOMAIN e.attempts : e.attempts[i] # Success

Entry(r) == IF r \in DOMAIN entries THEN entries[r] ELSE NewEntry
With(es, r, e) == [x \in DOMAIN es \cup {r} |-> IF x = r THEN e ELSE es[x]]

RecordAttempt(r, a) ==
  IF ~Named(r) THEN entries
  ELSE IF Entry(r).finalized THEN With(entries, r, [Entry(r) EXCEPT !.violation = TRUE])
  ELSE With(entries, r, [Entry(r) EXCEPT !.attempts = Append(@, ClassifyAttempt(a))])

ReviseLastAttempt(es, r, fault) ==
  IF r \notin DOMAIN es THEN es
  ELSE IF es[r].finalized THEN [es EXCEPT ![r].violation = TRUE]
  ELSE LET n == Len(es[r].attempts) IN [es EXCEPT ![r].attempts[n] = IF @ = Success THEN fault ELSE @]

Finalize(es, r, e) ==
  IF r \notin DOMAIN es THEN es
  ELSE IF es[r].finalized THEN [es EXCEPT ![r].violation = TRUE]
  ELSE [es EXCEPT ![r].finalized = TRUE,
          ![r].outcome = IF context[r] = "cancelled" THEN "cancelled" ELSE IF e # "ok" THEN "failed"
                         ELSE IF HasErrorAttempt(es[r]) THEN "recovered" ELSE "succeeded"]

\* finalizeRequest: the correction comes first.
FinalizeRequest(es, r, e) ==
  Finalize(IF e \in Recognized THEN ReviseLastAttempt(es, r, ClassifyBoundaryError(e)) ELSE es, r, e)

Listed(e) == Len(e.attempts) > 1 \/ HasErrorAttempt(e) \/ e.outcome # "succeeded"
Retries(es, S) == Cardinality(UNION {{r} \X (2..Len(es[r].attempts)) : r \in S})
Ended(es, S, outcome) == Cardinality({r \in S : es[r].outcome = outcome})

\* Freeze and validateReport: totals over every entry, recomputed from those
\* listed.
BuildReport(es) ==
  LET all == DOMAIN es
      listed == {r \in all : Listed(es[r])} IN
  [state |-> "published", total |-> Cardinality(all), retries |-> Retries(es, all),
   retried |-> Cardinality({r \in all : Len(es[r].attempts) > 1}),
   recovered |-> Ended(es, all, "recovered"), failed |-> Ended(es, all, "failed"), cancelled |-> Ended(es, all, "cancelled"),
   requests |-> listed]
ValidReport(rep, es) ==
  /\ rep.retries = Retries(es, rep.requests)
  /\ rep.retried = Cardinality({r \in rep.requests : Len(es[r].attempts) > 1})
  /\ rep.recovered = Ended(es, rep.requests, "recovered")
  /\ rep.failed = Ended(es, rep.requests, "failed") /\ rep.cancelled = Ended(es, rep.requests, "cancelled")
  /\ \A r \in rep.requests :
       /\ es[r].outcome = "recovered" => HasErrorAttempt(es[r])
       /\ es[r].outcome = "succeeded" => ~HasErrorAttempt(es[r]) /\ Len(es[r].attempts) > 1
Freeze(es) ==
  LET rep == BuildReport(es) IN
  IF \E r \in DOMAIN es : es[r].violation \/ ~es[r].finalized \/ es[r].attempts = <<>> THEN [NoReport EXCEPT !.state = "error"]
  ELSE IF rep.requests = {} THEN [NoReport EXCEPT !.state = "nothing"]
  ELSE IF ValidReport(rep, es) THEN rep ELSE [NoReport EXCEPT !.state = "error"]

---------------------------------------------------------------------------
(* One request.                                                             *)

Init ==
  /\ client \in Kinds
  /\ pc = [r \in Request |-> "new"] /\ context = [r \in Request |-> "live"]
  /\ call = [r \in Request |-> 1] /\ left = [r \in Request |-> MaxRetries]
  /\ answer = [r \in Request |-> NoAnswer] /\ reply = [r \in Request |-> "none"]
  /\ entries = [r \in {} |-> NewEntry] /\ slots = {} /\ run = "running" /\ report = NoReport

Begin(r) ==
  /\ pc[r] = "new" /\ run = "running"
  /\ pc' = [pc EXCEPT ![r] = IF Limit = 0 THEN "calling" ELSE "waiting"]
  /\ UNCHANGED <<context, call, left, answer, reply, entries, slots, run, report>>

\* A wait for a place honours the context; so does the place once it is got.
Acquire(r) ==
  /\ pc[r] = "waiting" /\ Cardinality(slots) < Limit
  /\ IF Dead(r) THEN pc' = [pc EXCEPT ![r] = "done"] /\ slots' = slots /\ reply' = [reply EXCEPT ![r] = ContextError(r)]
     ELSE pc' = [pc EXCEPT ![r] = "calling"] /\ slots' = slots \cup {r} /\ reply' = reply
  /\ UNCHANGED <<context, call, left, answer, entries, run, report>>
GiveUp(r) ==
  /\ pc[r] = "waiting" /\ Dead(r)
  /\ pc' = [pc EXCEPT ![r] = "done"] /\ reply' = [reply EXCEPT ![r] = ContextError(r)]
  /\ UNCHANGED <<context, call, left, answer, entries, slots, run, report>>

\* The answers a server, the network and the SDK may give one attempt.
Answer(status, e, again) == [status |-> status, err |-> e, again |-> again]
Answers ==
  {Answer(0, "reset", FALSE), Answer(401, "refused", FALSE), Answer(200, "ok", TRUE), Answer(200, "ok", FALSE)}
  \cup {Answer(200, e, FALSE) :
          e \in {"panic"} \cup (IF client \in Streaming THEN {"cut", "integrity"} ELSE {"cut", "json"})
                \cup (IF client \in {"responses", "responses stream"} THEN {"status", "foreign"} ELSE {})}

\* The retry loop: codes of the configuration are retried like the server's own
\* x-should-retry.
SDKRetries(a) == a.again \/ a.status = 0

Attempt(r) ==
  /\ pc[r] = "calling"
  /\ \E a \in IF Dead(r) THEN {Answer(0, ContextError(r), FALSE)} ELSE Answers :
       /\ entries' = RecordAttempt(r, a)
       /\ IF SDKRetries(a) /\ left[r] > 0 /\ ~Dead(r)
          THEN pc' = [pc EXCEPT ![r] = "backoff"] /\ left' = [left EXCEPT ![r] = @ - 1] /\ answer' = answer
          ELSE pc' = [pc EXCEPT ![r] = "returned"] /\ left' = left /\ answer' = [answer EXCEPT ![r] = a]
  /\ UNCHANGED <<context, call, reply, slots, run, report>>

\* The wait between attempts ends early with the context: no attempt follows.
Backoff(r) ==
  /\ pc[r] = "backoff"
  /\ IF Dead(r)
     THEN pc' = [pc EXCEPT ![r] = "returned"] /\ answer' = [answer EXCEPT ![r] = Answer(0, ContextError(r), FALSE)]
     ELSE pc' = [pc EXCEPT ![r] = "calling"] /\ answer' = answer
  /\ UNCHANGED <<context, call, left, reply, entries, slots, run, report>>

\* The request ends at the client's boundary, and leaves its place.
Complete(r, es, e) ==
  /\ entries' = FinalizeRequest(es, r, e)
  /\ pc' = [pc EXCEPT ![r] = "done"] /\ reply' = [reply EXCEPT ![r] = e] /\ slots' = slots \ {r}
  /\ left' = [left EXCEPT ![r] = 0] /\ answer' = [answer EXCEPT ![r] = NoAnswer] /\ call' = [call EXCEPT ![r] = 1]

\* Before any attempt: a client without credentials, arguments that do not
\* parse, a ChatGPT endpoint that is not the public one.
Refuse(r) ==
  /\ pc[r] = "calling" /\ left[r] = MaxRetries /\ call[r] = 1
  /\ Complete(r, entries, "unusable") /\ UNCHANGED <<context, run, report>>

\* The error the SDK returns: while a body is read the context may end too.
Surfaced(r) == {answer[r].err} \cup IF Dead(r) THEN {ContextError(r)} ELSE {}

\* A completion that was cut short is called once more.
ReturnChat(r) ==
  /\ pc[r] = "returned" /\ client = "chat"
  /\ \E e \in Surfaced(r) :
       LET revised == IF e = "cut" THEN ReviseLastAttempt(entries, r, ClassifyBoundaryError("cut")) ELSE entries IN
       IF e = "cut" /\ call[r] = 1 /\ ~Dead(r)
       THEN /\ pc' = [pc EXCEPT ![r] = "calling"] /\ call' = [call EXCEPT ![r] = 2] /\ left' = [left EXCEPT ![r] = MaxRetries]
            /\ answer' = [answer EXCEPT ![r] = NoAnswer] /\ entries' = revised /\ UNCHANGED <<reply, slots>>
       ELSE Complete(r, revised, IF Dead(r) /\ e \notin {"ok", "panic"} /\ (e = "cut" \/ call[r] = 2) THEN ContextError(r) ELSE e)
  /\ UNCHANGED <<context, run, report>>

ReturnStream(r) ==
  /\ pc[r] = "returned" /\ client \in Streaming
  /\ \E e \in Surfaced(r) :
       Complete(r, IF e \in {"ok", "panic", "foreign"} THEN entries
                   ELSE ReviseLastAttempt(entries, r, IF e = "status" THEN Fault("provider", "response_status") ELSE ClassifyStreamError(e)), e)
  /\ UNCHANGED <<context, run, report>>

ReturnPlain(r) ==
  /\ pc[r] = "returned" /\ client \in {"responses", "anthropic"}
  /\ \E e \in Surfaced(r) :
       Complete(r, IF e = "status" THEN ReviseLastAttempt(entries, r, Fault("provider", "response_status")) ELSE entries, e)
  /\ UNCHANGED <<context, run, report>>

Return(r) == ReturnChat(r) \/ ReturnStream(r) \/ ReturnPlain(r)

---------------------------------------------------------------------------
(* The run.                                                                 *)

\* What ends a context after its request is done concerns nobody.
Cancellable(r) == ~Dead(r) /\ pc[r] # "done"

\* An interrupt reaches every request but the background jobs, whose context
\* is detached; a group's time limit reaches its own requests.
Interrupt ==
  /\ run = "running" /\ \E r \in Request \ Job : Cancellable(r)
  /\ context' = [r \in Request |-> IF r \notin Job /\ Cancellable(r) THEN "cancelled" ELSE context[r]]
  /\ UNCHANGED <<pc, call, left, answer, reply, entries, slots, run, report>>
Expire(r) ==
  /\ run = "running" /\ Cancellable(r) /\ pc[r] # "new"
  /\ context' = [context EXCEPT ![r] = "expired"]
  /\ UNCHANGED <<pc, call, left, answer, reply, entries, slots, run, report>>

\* The groups and the comment workers are done; jobs of conversations that
\* ended are cancelled, not awaited.
EndDispatch ==
  /\ run = "running" /\ \A r \in Request \ Job : pc[r] \in {"new", "done"}
  /\ run' = "dispatched"
  /\ context' = [r \in Request |-> IF r \in Job /\ pc[r] \notin {"new", "done"} THEN "cancelled" ELSE context[r]]
  /\ UNCHANGED <<pc, call, left, answer, reply, entries, slots, report>>

(* Mutated: the jobs that were cancelled are not waited for.                *)
WaitForNobody ==
  /\ run = "dispatched"
  /\ run' = "joined" /\ UNCHANGED <<pc, context, call, left, answer, reply, entries, slots, report>>

(* Mutated: a job is counted before it is known to start.                   *)
WaitForAll ==
  /\ run = "dispatched" /\ \A r \in Job : pc[r] = "done"
  /\ run' = "joined" /\ UNCHANGED <<pc, context, call, left, answer, reply, entries, slots, report>>

WaitBackground ==
  /\ run = "dispatched" /\ \A r \in Job : pc[r] \in {"new", "done"}
  /\ run' = "joined" /\ UNCHANGED <<pc, context, call, left, answer, reply, entries, slots, report>>

FreezeReport ==
  /\ run = "joined" /\ run' = "frozen" /\ report' = Freeze(entries)
  /\ UNCHANGED <<pc, context, call, left, answer, reply, entries, slots>>

Serve(r) == Attempt(r) \/ Backoff(r) \/ Return(r)
Next ==
  /\ \/ \E r \in Request : Begin(r) \/ Acquire(r) \/ GiveUp(r) \/ Serve(r) \/ Refuse(r) \/ Expire(r)
     \/ Interrupt \/ EndDispatch \/ WaitBackground \/ FreezeReport
  /\ UNCHANGED client

\* Each attempt has a time limit, so it ends; a place that is free again and
\* again is given to every request that waits for it.
Spec ==
  /\ Init /\ [][Next]_vars
  /\ \A r \in Request : WF_moving(Serve(r)) /\ SF_moving(Acquire(r))
  /\ WF_moving(EndDispatch) /\ WF_moving(WaitBackground) /\ WF_moving(FreezeReport)
---------------------------------------------------------------------------
(* Properties.                                                              *)

\* No interleaving of retries, second calls, panics, cancellations and
\* background jobs makes Freeze refuse its own data: the report of a run is
\* published or there was nothing to report (review_cmd.go freezes it at the
\* end of Run and suppresses a report that contradicts itself).
ReportStands == report.state # "error"

\* The report agrees with what the callers were told, request by request: no
\* failure is lost, none is invented, and one that surfaced only after HTTP 200
\* shows in its attempt.
ReportMatchesCallers ==
  run = "frozen" => \A r \in DOMAIN entries :
    LET e == entries[r] last == e.attempts[Len(e.attempts)] IN
    /\ e.outcome = "failed" <=> reply[r] # "ok" /\ context[r] # "cancelled"
    /\ reply[r] \notin {"ok", "panic", "foreign"} => HasErrorAttempt(e)
    /\ reply[r] \in {"cut", "json", "integrity", "status"} => last # Success
    /\ e.outcome # "succeeded" => r \in report.requests

\* A request in flight holds a place, there are never more than the limit, and
\* none is lost with a panic, a refusal or a dead context.
InFlight(r) == pc[r] \in {"calling", "backoff", "returned"}
PlacesReturned == Limit > 0 => slots = {r \in Request : InFlight(r)} /\ Cardinality(slots) <= Limit

\* Every run comes to its report, whatever is cancelled and however its
\* requests compete for places.
RunReports == <>(run = "frozen")

\* The report stands and says what happened, and every place is given back.
ReportSound == ReportStands /\ ReportMatchesCallers /\ PlacesReturned
=============================================================================
