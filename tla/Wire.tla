-------------------------------- MODULE Wire --------------------------------
(***************************************************************************)
(* What a conversation becomes on the wire (internal/llm): the requests of  *)
(* the three clients, the answers they read and the streams they put        *)
(* together, with the turn the loop keeps of an answer.                     *)
(*                                                                         *)
(* An answer is a sequence of items: visible text, "tagged" text that is    *)
(* nothing but think tags, thinking (with its signature) and tool calls.    *)
(* The texts themselves, the tools, sampling and caching are left out.      *)
(***************************************************************************)
EXTENDS Naturals, Sequences, FiniteSets, SequencesExt

Families == {"chat", "anthropic", "responses"}

Item(kind, id) == [kind |-> kind, id |-> id]
Has(items, kinds) == \E i \in DOMAIN items : items[i].kind \in kinds
CallIds(items) == LET calls == SelectSeq(items, LAMBDA p : p.kind = "call") IN [i \in DOMAIN calls |-> calls[i].id]
Parts(kind, ids) == [i \in DOMAIN ids |-> Item(kind, ids[i])]

---------------------------------------------------------------------------
(* Streams.  An event brings an item, ends the stream or is an error; the   *)
(* connection may close anywhere.                                           *)

Rejected == [ok |-> FALSE, items |-> <<>>]

\* Items done in any order, put back in the order of their index.
AccumulateResponses(events, requireCompleted) ==
  LET done == SelectSeq(events, LAMBDA p : p.kind \notin {"terminal", "error"})
      terminal == SelectSeq(events, LAMBDA p : p.kind = "terminal") IN
  IF Has(events, {"error"}) \/ terminal = <<>> THEN Rejected
  ELSE IF Last(terminal).id \notin {"completed"} \cup (IF requireCompleted THEN {} ELSE {"incomplete"}) THEN Rejected
  ELSE [ok |-> TRUE, items |-> SortSeq(done, LAMBDA p, q : p.id < q.id)]

\* Chunks come in order; each choice must have finished.
AccumulateChat(events) ==
  IF Has(events, {"error"}) \/ ~Has(events, {"terminal"}) THEN Rejected
  ELSE [ok |-> TRUE, items |-> SelectSeq(events, LAMBDA p : p.kind # "terminal")]

---------------------------------------------------------------------------
(* Answers read, and the turns kept of them.                                *)

Response(items, native) ==
  [text |-> Has(items, {"text"}), calls |-> CallIds(items), native |-> native, reasoning |-> Has(items, {"thinking"})]

MapAnthropicResponse(items) == Response(items, IF Has(items, {"thinking"}) THEN items ELSE <<>>)
MapOpenAIResponse(items) == Response(items, SelectSeq(items, LAMBDA p : p.kind = "thinking"))

\* Reasoning that stands alone is no valid input.
MapResponsesResponse(items) == Response(items, IF Has(items, {"text", "tagged", "call"}) THEN items ELSE <<>>)

MapResponse(family, items) ==
  CASE family = "chat" -> MapOpenAIResponse(items)
    [] family = "anthropic" -> MapAnthropicResponse(items)
    [] family = "responses" -> MapResponsesResponse(items)

Message(role, response, id) ==
  [role |-> role, text |-> response.text, calls |-> response.calls, native |-> response.native, id |-> id]
Said(role) == Message(role, [text |-> TRUE, calls |-> <<>>, native |-> <<>>], <<0>>)
ToolResult(id) == Message("tool", [text |-> TRUE, calls |-> <<>>, native |-> <<>>], id)

\* One round of the loop: the answer, its results or the nudge.
AppendTurn(messages, response) ==
  messages
    \o (IF response.calls # <<>> \/ response.text \/ response.native # <<>> \/ response.reasoning
        THEN <<Message("assistant", response, <<0>>)>> ELSE <<>>)
    \o (IF response.calls = <<>> THEN <<Said("user")>>
        ELSE [i \in DOMAIN response.calls |-> ToolResult(response.calls[i])])

---------------------------------------------------------------------------
(* Requests: messages of a role and parts.                                  *)

Sent(role, parts) == [role |-> role, parts |-> parts]
Text(m) == IF m.text THEN <<Item("text", m.id)>> ELSE <<>>
Blank(m) == <<Item(IF m.text THEN "text" ELSE "empty", m.id)>>

BuildOpenAIParams(messages) ==
  [i \in DOMAIN messages |->
    LET m == messages[i] IN
    CASE m.role = "assistant" -> Sent("assistant", m.native \o (IF m.calls = <<>> THEN Blank(m) ELSE Text(m)) \o Parts("call", m.calls))
      [] m.role = "tool" -> Sent("tool", <<Item("result", m.id)>>)
      [] OTHER -> Sent(m.role, Text(m))]

(* Mutated: results wait for the end of the conversation.                   *)
BuildAnthropicLate(messages) ==
  LET results == SelectSeq(messages, LAMBDA m : m.role = "tool")
      others == SelectSeq(messages, LAMBDA m : m.role \in {"user", "assistant"})
      Block(m) == IF m.role = "assistant" /\ m.native # <<>> THEN m.native
                  ELSE IF m.role = "assistant" THEN Text(m) \o Parts("call", m.calls) ELSE Text(m) IN
  [i \in DOMAIN others |-> Sent(others[i].role, Block(others[i]))]
    \o IF results = <<>> THEN <<>> ELSE <<Sent("user", [i \in DOMAIN results |-> Item("result", results[i].id)])>>

\* The results that wait are one user message, before whatever follows them.
BuildAnthropicParams(messages) ==
  LET Flushed(s) == IF s.pending = <<>> THEN s ELSE [done |-> Append(s.done, Sent("user", Parts("result", s.pending))), pending |-> <<>>]
      Blocks(m) == LET blocks == Text(m) \o Parts("call", m.calls) IN IF blocks = <<>> THEN Blank(m) ELSE blocks
      Step(s, m) ==
        CASE m.role = "tool" -> [s EXCEPT !.pending = Append(@, m.id)]
          [] m.role = "system" -> Flushed(s)
          [] m.role = "assistant" -> [Flushed(s) EXCEPT !.done = Append(@, Sent("assistant", IF m.native # <<>> THEN m.native ELSE Blocks(m)))]
          [] OTHER -> [Flushed(s) EXCEPT !.done = Append(@, Sent("user", Text(m)))] IN
  Flushed(FoldLeft(Step, [done |-> <<>>, pending |-> <<>>], messages)).done

\* Every part is an item of its own; the system prompt goes elsewhere.
BuildResponsesParams(messages) ==
  LET Items(m) ==
        CASE m.role = "system" -> <<>>
          [] m.role = "assistant" -> IF m.native # <<>> THEN m.native ELSE Text(m) \o Parts("call", m.calls)
          [] m.role = "tool" -> <<Item("result", m.id)>>
          [] OTHER -> Text(m) IN
  LET all == FlattenSeq([i \in DOMAIN messages |-> Items(messages[i])])
  IN [i \in DOMAIN all |-> Sent("item", <<all[i]>>)]

BuildParams(family, messages) ==
  CASE family = "chat" -> BuildOpenAIParams(messages)
    [] family = "anthropic" -> BuildAnthropicParams(messages)
    [] family = "responses" -> BuildResponsesParams(messages)

---------------------------------------------------------------------------
\* The request after a conversation in which the model answered as given.
Converse(family, answers) ==
  BuildParams(family, FoldLeft(LAMBDA ms, items : AppendTurn(ms, MapResponse(family, items)), <<Said("system"), Said("user")>>, answers))

Flat(wire) == FlattenSeq([i \in DOMAIN wire |-> wire[i].parts])

(* Every provider rejects a request in which a call lacks its result, or a    *)
(* result its call: the results of a turn follow it at once, in its order,    *)
(* for Anthropic in one message of their own.                                 *)
CallsAnswered(family, answers) ==
  LET wire == Converse(family, answers)
      trace == SelectSeq(Flat(wire), LAMBDA p : p.kind \in {"call", "result"})
      turns == [t \in DOMAIN answers |-> Parts("call", CallIds(answers[t])) \o Parts("result", CallIds(answers[t]))] IN
  /\ trace = FlattenSeq(turns)
  /\ family = "anthropic" => \A j \in DOMAIN wire :
       Has(wire[j].parts, {"result"}) => wire[j].role = "user" /\ CallIds(wire[j - 1].parts) = [i \in DOMAIN wire[j].parts |-> wire[j].parts[i].id]

(* What the model said comes back as it said it: thinking with a call of its  *)
(* turn stands before or behind it where it stood, none comes back alone to   *)
(* the Responses API, and no empty block goes to Anthropic.                   *)
ReplayedAsSaid(family, answers) ==
  LET wire == Converse(family, answers) flat == Flat(wire)
      thought == {t \in DOMAIN answers : Has(answers[t], {"thinking"})} IN
  /\ family # "chat" => \A t \in thought : Has(answers[t], {"call"}) =>
       \E k \in 0..Len(flat) : k + Len(answers[t]) <= Len(flat) /\ SubSeq(flat, k + 1, k + Len(answers[t])) = answers[t]
  /\ family = "chat" => \A t \in thought : \E i \in DOMAIN flat : flat[i].kind = "thinking" /\ flat[i].id[1] = t
  /\ family = "responses" => \A i \in DOMAIN flat : flat[i].kind = "thinking" => Has(answers[flat[i].id[1]], {"text", "tagged", "call"})
  /\ family = "anthropic" => ~Has(flat, {"empty"})

(* A streamed answer is taken whole or not at all, whatever order its items   *)
(* were finished in and wherever the connection was closed.                   *)
StreamWhole(client, ending, order, cut) ==
  LET events == SubSeq([i \in DOMAIN order |-> Item("call", order[i])] \o <<Item("terminal", ending)>>, 1, cut)
      taken == IF client = "chat" THEN AccumulateChat(events) ELSE AccumulateResponses(events, client = "plan")
      whole == [i \in DOMAIN order |-> Item("call", i)] IN
  /\ taken.ok => taken.items = whole /\ cut > Len(order)
  /\ cut > Len(order) /\ ending = "completed" => taken.ok
=============================================================================
