---------------------------- MODULE Conversation ----------------------------
(***************************************************************************)
(* One main-task conversation with the model (internal/llmloop: loop.go,   *)
(* compression.go): RunMainTask, its grace round, the three-zone           *)
(* compression and the background compression job.                         *)
(*                                                                         *)
(* A message has a role, a size, the number of tool calls it makes and the *)
(* rounds it covers: its own round, or, for the user prompt, every round   *)
(* whose summary was appended to it.  The job runs while the loop goes on; *)
(* the rest of addNextMessage runs without the job being able to disturb   *)
(* it, since the job only writes its own result and its owner's slot.      *)
(***************************************************************************)
EXTENDS Naturals, Sequences, FiniteSets, FiniteSetsExt, SequencesExt

CONSTANTS
  MaxToolRequestTimes, \* rounds the template grants
  SoftLimit,           \* 60% of MAX_TOKENS: compress in the background
  WarnLimit,           \* 80% of MAX_TOKENS: compress at once
  PromptSize,          \* size of the system and of the user prompt, each
  SummarySize,         \* size of a summary
  ResultSizes,         \* sizes a tool result may have
  MaxCalls             \* bound: tool calls in one turn

ASSUME LimitAssumption == SoftLimit < WarnLimit
ASSUME SizeAssumption ==
  /\ MaxToolRequestTimes \in Nat /\ MaxCalls \in Nat /\ PromptSize \in Nat /\ SummarySize \in Nat
  /\ ResultSizes \subseteq Nat

VARIABLES
  messages,     \* the conversation
  round,        \* rounds appended to the conversation
  toolReqCount, \* requests left
  emptyRounds,  \* consecutive rounds without a usable result
  job,          \* pendingJob: the background compression this conversation owns
  phase,        \* "head", "asked", "grace" or "ended"
  stop,         \* MainLoopStop
  result,       \* "none", "completed", "incomplete" or "error"
  cancelled,    \* the context is done
  overBudget    \* the run has spent more than its aggregate token budget

vars == <<messages, round, toolReqCount, emptyRounds, job, phase, stop, result, cancelled,
          overBudget>>

Message(role, covers, calls, size) ==
  [role |-> role, covers |-> covers, calls |-> calls, size |-> size]
Assistant(n, calls) == Message("assistant", {n}, calls, 1)
ToolResult(n, size) == Message("tool", {n}, 0, size)
Nudge == Message("user", {}, 0, 1)

NoJob == [state |-> "none", snapshot |-> <<>>, rebuilt |-> <<>>]

CountMessagesTokens(msgs) == FoldSeq(LAMBDA m, total : m.size + total, 0, msgs)

-----------------------------------------------------------------------------
(* Compression. *)

(* The rounds of a conversation: where each assistant message stands, and the  *)
(* last of the tool results that follow it.                                    *)
RoundStarts(msgs) == {i \in 3..Len(msgs) : msgs[i].role = "assistant"}
RoundEnd(msgs, i) ==
  Max({j \in i..Len(msgs) : \A k \in (i + 1)..j : msgs[k].role = "tool"})
RoundTokens(msgs, i) == CountMessagesTokens(SubSeq(msgs, i, RoundEnd(msgs, i)))

(* The most recent rounds that fit the budget together. *)
ActiveRounds(msgs) ==
  LET rounds == RoundStarts(msgs)
  IN  {i \in rounds :
         MapThenSumSet(LAMBDA j : RoundTokens(msgs, j), {j \in rounds : j >= i})
           <= WarnLimit}

(* Mutated: the zone ends at the assistant message and leaves its results behind. *)
CompressEndAtAssistant(msgs) ==
  LET old == RoundStarts(msgs) \ ActiveRounds(msgs)
  IN  IF old = {} THEN Len(msgs) ELSE Max(old)

(* partitionMessages: the last message to summarize.  When every round fits,   *)
(* there is no active zone.                                                    *)
CompressEnd(msgs) ==
  LET old == RoundStarts(msgs) \ ActiveRounds(msgs)
  IN  IF old = {} THEN Len(msgs) ELSE RoundEnd(msgs, Max(old))

(* runCompression: the zone's summary is appended to the user prompt.  A failed *)
(* request or an empty summary leaves the conversation as it is.                *)
Compress(msgs, outcome) ==
  IF Len(msgs) <= 2 \/ outcome # "summary" THEN msgs
  ELSE LET zone == SubSeq(msgs, 3, CompressEnd(msgs))
           covered == UNION {zone[i].covers : i \in DOMAIN zone}
       IN  <<msgs[1], [msgs[2] EXCEPT !.covers = @ \cup covered, !.size = @ + SummarySize]>>
             \o SubSeq(msgs, CompressEnd(msgs) + 1, Len(msgs))

Outcomes == {"summary", "empty", "error"}

(* Mutated: what was appended after the snapshot is not put back. *)
RebuiltWithoutTail(msgs) == job.rebuilt

(* tryApplyPendingCompression: the job's result, and what came after its snapshot. *)
Rebuilt(msgs) == job.rebuilt \o SubSeq(msgs, Len(job.snapshot) + 1, Len(msgs))

(* cancelPendingCompression before compressing at once. *)
AfterCompression(j) == NoJob

(* addNextMessage: messages and job after a turn is appended, when the         *)
(* compressions it may need end as first and second say.                       *)
Appended(turn, first, second) ==
  LET applied == IF job.state = "done" THEN Rebuilt(messages) ELSE messages
      job1 == IF job.state = "done" THEN NoJob ELSE job
      overBefore == CountMessagesTokens(applied) > WarnLimit
      before == (IF overBefore THEN Compress(applied, first) ELSE applied) \o turn
      job2 == IF overBefore THEN AfterCompression(job1) ELSE job1
      overAfter == CountMessagesTokens(before) > WarnLimit
      after == IF overAfter THEN Compress(before, second) ELSE before
      job3 == IF overAfter THEN AfterCompression(job2) ELSE job2
      finalCount == CountMessagesTokens(after)
  IN  [messages |-> after,
       job |-> IF job3.state = "none" /\ finalCount > SoftLimit /\ finalCount < WarnLimit
                 THEN [NoJob EXCEPT !.state = "running", !.snapshot = after] ELSE job3,
       succeed |-> finalCount < WarnLimit]

-----------------------------------------------------------------------------
Init ==
  /\ messages = <<Message("system", {}, 0, PromptSize), Message("user", {}, 0, PromptSize)>>
  /\ round = 0 /\ toolReqCount = MaxToolRequestTimes /\ emptyRounds = 0
  /\ job = NoJob /\ phase = "head" /\ stop = "none" /\ result = "none"
  /\ cancelled = FALSE /\ overBudget = FALSE

(* The conversation returns; its job is cancelled. *)
Return(r) == phase' = "ended" /\ result' = r /\ job' = NoJob

(* The loop breaks: a spent budget goes on to the grace round. *)
Break(why) ==
  /\ stop' = why
  /\ IF why \in {"max_rounds", "token_budget"}
       THEN phase' = "grace" /\ UNCHANGED result
       ELSE phase' = "ended" /\ result' = "incomplete"

RequestsLeft(n) == n - 1

(* The head of the loop: a request is sent unless the rounds or the budget are *)
(* spent or the context is done.                                               *)
LoopHead ==
  /\ phase = "head"
  /\ \/ /\ toolReqCount = 0 /\ Break("max_rounds") /\ UNCHANGED <<toolReqCount, job>>
     \/ /\ toolReqCount > 0 /\ cancelled /\ Return("error")
        /\ UNCHANGED <<toolReqCount, stop>>
     \/ /\ toolReqCount > 0 /\ ~cancelled /\ overBudget /\ Break("token_budget")
        /\ UNCHANGED <<toolReqCount, job>>
     \/ /\ toolReqCount > 0 /\ ~cancelled /\ ~overBudget /\ phase' = "asked"
        /\ toolReqCount' = RequestsLeft(toolReqCount)
        /\ UNCHANGED <<job, stop, result>>
  /\ UNCHANGED <<messages, round, emptyRounds, cancelled, overBudget>>

RequestFails ==
  /\ phase = "asked" /\ Return("error")
  /\ UNCHANGED <<messages, round, toolReqCount, emptyRounds, stop, cancelled, overBudget>>

(* A response without tool calls: what it says is kept and the model is nudged, *)
(* past addNextMessage.                                                         *)
NoToolCalls ==
  /\ phase = "asked" /\ phase' = "head"
  /\ \/ /\ messages' = messages \o <<Assistant(round + 1, 0), Nudge>> /\ round' = round + 1
     \/ /\ messages' = Append(messages, Nudge) /\ UNCHANGED round
  /\ UNCHANGED <<toolReqCount, emptyRounds, job, stop, result, cancelled, overBudget>>

TooManyEmpty(n) == n >= 3

(* A response with tool calls: executeToolCall on each, then addNextMessage.   *)
(* An outcome says what its calls came to, the first FAILED ending them.       *)
ToolCalls ==
  /\ phase = "asked"
  /\ \E outcome \in (SUBSET {"DONE", "FAILED", "valid", "empty"}) \ {{}},
        calls \in 1..MaxCalls, size \in ResultSizes, first \in Outcomes, second \in Outcomes :
       LET turn == <<Assistant(round + 1, calls)>> \o [i \in 1..calls |-> ToolResult(round + 1, size)]
           next == Appended(turn, first, second)
           empties == IF "valid" \in outcome THEN 0 ELSE emptyRounds + 1
       IN  \/ /\ "FAILED" \in outcome /\ Return("error")
              /\ UNCHANGED <<messages, round, emptyRounds, stop>>
           \/ /\ "FAILED" \notin outcome /\ "DONE" \in outcome /\ Return("completed")
              /\ UNCHANGED <<messages, round, emptyRounds, stop>>
           \/ /\ outcome \subseteq {"valid", "empty"} /\ TooManyEmpty(empties)
              /\ Break("empty_rounds") /\ emptyRounds' = empties /\ job' = NoJob
              /\ UNCHANGED <<messages, round>>
           \/ /\ outcome \subseteq {"valid", "empty"} /\ ~TooManyEmpty(empties)
              /\ emptyRounds' = empties /\ round' = round + 1 /\ messages' = next.messages
              /\ IF next.succeed
                   THEN phase' = "head" /\ job' = next.job /\ UNCHANGED <<stop, result>>
                   ELSE Break("compression") /\ job' = NoJob
  /\ UNCHANGED <<toolReqCount, cancelled, overBudget>>

GraceVerdict(outcome) == "DONE" \in outcome /\ "FAILED" \notin outcome

(* The grace round's answer, which executeToolCall reads as in any round. *)
GraceAnswered ==
  /\ phase = "grace" /\ ~cancelled
  /\ \E outcome \in SUBSET {"DONE", "FAILED"} :
       Return(IF GraceVerdict(outcome) THEN "completed" ELSE "incomplete")
  /\ UNCHANGED <<messages, round, toolReqCount, emptyRounds, stop, cancelled, overBudget>>

(* Mutated: the grace request waits for a context that is already done. *)
GraceSkippedNever == phase = "grace" /\ ~cancelled /\ Return("incomplete")
  /\ UNCHANGED <<messages, round, toolReqCount, emptyRounds, stop, cancelled, overBudget>>

(* A done context skips the grace round; its request may also fail. *)
GraceSkipped ==
  /\ phase = "grace" /\ Return("incomplete")
  /\ UNCHANGED <<messages, round, toolReqCount, emptyRounds, stop, cancelled, overBudget>>

(* The background job ends: a failure gives the slot up, anything else is kept *)
(* for the loop to apply.                                                      *)
JobEnds ==
  /\ job.state = "running"
  /\ \E outcome \in Outcomes :
       job' = IF outcome = "error" THEN NoJob
              ELSE [job EXCEPT !.state = "done", !.rebuilt = Compress(job.snapshot, outcome)]
  /\ UNCHANGED <<messages, round, toolReqCount, emptyRounds, phase, stop, result, cancelled,
                 overBudget>>

(* The deadline passes or the run is cancelled; the other conversations of the *)
(* run spend its budget.                                                       *)
Cancel ==
  /\ phase # "ended" /\ ~cancelled /\ cancelled' = TRUE
  /\ UNCHANGED <<messages, round, toolReqCount, emptyRounds, job, phase, stop, result,
                 overBudget>>
SpendBudget ==
  /\ phase # "ended" /\ ~overBudget /\ overBudget' = TRUE
  /\ UNCHANGED <<messages, round, toolReqCount, emptyRounds, job, phase, stop, result,
                 cancelled>>

Step == LoopHead \/ RequestFails \/ NoToolCalls \/ ToolCalls \/ GraceAnswered \/ GraceSkipped

Next == Step \/ JobEnds \/ Cancel \/ SpendBudget

(* The model answers every request, or the request fails by its own timeout;   *)
(* nothing says that a background job or a cancellation ever comes.            *)
Spec == Init /\ [][Next]_vars /\ WF_vars(Step)

-----------------------------------------------------------------------------

(* Whatever is summarized, replaced or appended, every request answers each    *)
(* tool call with its result, right behind the message that made it, and holds *)
(* no result without its call: a provider rejects anything else.               *)
WellPaired ==
  \A i \in DOMAIN messages :
    /\ messages[i].role = "assistant" =>
         \A k \in 1..messages[i].calls :
           i + k <= Len(messages) /\ messages[i + k].role = "tool" /\ messages[i + k].covers = messages[i].covers
    /\ messages[i].role = "tool" =>
         \E k \in 1..MaxCalls : i - k >= 3 /\ messages[i - k].role = "assistant" /\ messages[i - k].calls >= k

(* No round is lost and none is there twice: each is summarized in the user    *)
(* prompt or stands in the conversation, however the background job and the    *)
(* loop interleave.                                                            *)
NothingLost ==
  \A r \in 1..round :
    Cardinality({i \in DOMAIN messages : messages[i].role \in {"user", "assistant"} /\ r \in messages[i].covers}) = 1

(* While a job is pending its snapshot is a prefix of the conversation, which  *)
(* is what applying it by position relies on.                                  *)
SnapshotPrefix == job.state # "none" => IsPrefix(job.snapshot, messages)

(* Every conversation ends. *)
Ends == <>(phase = "ended")

(* The rounds are whole, and so is what a pending job would put in their place. *)
RoundsWhole == NothingLost /\ SnapshotPrefix
=============================================================================
