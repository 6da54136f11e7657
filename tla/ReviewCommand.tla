---------------------------- MODULE ReviewCommand ----------------------------
(***************************************************************************)
(* The command "ocr review" (cmd/opencodereview: review_cmd.go, shared.go,   *)
(* output.go; internal/mcp) under the signal handler of module Interrupt:    *)
(* what it refuses, the servers it starts, the one report it publishes and   *)
(* the file it may publish it to, and its deferred cleanup.  The review       *)
(* itself (ReviewDispatch) is the step between Start and Run.                *)
(*                                                                         *)
(* The report is written in pieces: a document (JSON, SARIF) at once, text    *)
(* line by line.  Any piece may fail to be written, to a file or to standard  *)
(* output.                                                                   *)
(***************************************************************************)
EXTENDS Interrupt, Integers, FiniteSets, SequencesExt, Functions

CONSTANTS
  Servers,  \* the configured MCP servers, in the order of their names
  Tools,    \* Tools[s]: what a server publishes
  Allowed,  \* Allowed[s]: the tools it is limited to, {} for all
  Reserved, \* the names of the built-in tools
  Lines     \* the lines of a report in text; a bound

ASSUME ServersAssumption ==
  /\ Servers \in Seq(DOMAIN Tools) /\ DOMAIN Allowed = DOMAIN Tools
  /\ \A s \in DOMAIN Tools : Tools[s] \in Seq(ToSet(Tools[s]))
ASSUME LinesAssumption == Lines \in Nat \ {0}

VARIABLES
  options,  \* the file and the format that were asked for
  at,       \* where executeReviewContext is
  count,    \* servers, then lines of the report, that were gone through
  printed,  \* what standard output got
  target,   \* what --output names: the Earlier file, or the lines of a report
  temp,     \* the temporary file beside it: NoFile, or its lines
  writer,   \* what it is written with: set up (a file's), broken by a failed write, closed
  servers,  \* "off", "open", or "closing" once it was asked to
  registry, \* the server that serves each tool
  offered,  \* the tools the model is told of, in the order of the servers
  session,  \* "none", "open", "ended", or "lost" when it could not be written
  result,   \* what Run returned: an error, and the manifest
  reports,  \* the exits of the retry report: "result", "failure", "lost" when its writing failed
  failure   \* what the command's error is made of
ownVars == <<options, at, count, printed, target, temp, writer, servers, registry, offered, session, result, reports, failure>>
files == <<count, printed, target, temp, writer>>
agents == <<servers, registry, offered, session, result, reports>>

Earlier == <<0>>
NoFile == <<-1>>

CommandInit ==
  /\ Init
  /\ options \in [file : BOOLEAN, format : {"json", "sarif", "text"}]
  /\ at = "output" /\ count = 0 /\ printed = <<>> /\ target = Earlier /\ temp = NoFile
  /\ writer = [ready |-> "no", broken |-> FALSE, closed |-> FALSE]
  /\ servers = [s \in DOMAIN Tools |-> "off"] /\ registry = [n \in {} |-> 0] /\ offered = {}
  /\ session = "none" /\ result = [error |-> FALSE, manifest |-> "none"] /\ reports = <<>> /\ failure = {}

---------------------------------------------------------------------------
(* Before the review.  A refusal returns at once.                           *)

Refuse == at' = "return" /\ failure' = {"refused"}
Pass(next) == at' = next /\ UNCHANGED failure

\* The target of the output; then repository, rules, references, background.
ResolveOutputWriter == at = "output" /\ (Pass("context") \/ (options.file /\ Refuse)) /\ UNCHANGED <<options, files, agents>>
LoadCommonContext ==
  /\ at = "context" /\ (Refuse \/ Pass("preview") \/ Pass("resume") \/ Pass("runtime"))
  /\ UNCHANGED <<options, files, agents>>
\* A preview has no findings to report in SARIF.
RunPreviewContext ==
  /\ at = "preview" /\ (Refuse \/ (options.format # "sarif" /\ Pass("emit")))
  /\ UNCHANGED <<options, files, agents>>
LoadReviewResumeState == at = "resume" /\ (Pass("resumed") \/ Refuse) /\ UNCHANGED <<options, files, agents>>
LoadLLMRuntime ==
  /\ at \in {"runtime", "resumed"} /\ (Pass(IF at = "resumed" THEN "identity" ELSE "servers") \/ Refuse)
  /\ UNCHANGED <<options, files, agents>>
ValidateResumeIdentity == at = "identity" /\ (Pass("servers") \/ Refuse) /\ UNCHANGED <<options, files, agents>>

\* A server's tools are registered under names that no other has.
Registered(reg, s) ==
  LET new == {n \in ToSet(Tools[s]) \ (Reserved \cup DOMAIN reg) : Allowed[s] # {} => n \in Allowed[s]}
  IN [n \in DOMAIN reg \cup new |-> IF n \in new THEN s ELSE reg[n]]

\* Connecting, by pipe or by HTTP, and listing the tools, page by page.
Connect(s) == ~cancelled /\ servers' = [servers EXCEPT ![s] = "open"] /\ registry' = Registered(registry, s)

\* One after the other; one that is not configured, fails its setup or cannot
\* be reached in time, is left out.
InitMCPClient(i) ==
  /\ at = "servers" /\ i = count + 1 /\ i \in DOMAIN Servers
  /\ Connect(Servers[i]) \/ UNCHANGED <<servers, registry>>
  /\ count' = i
  /\ UNCHANGED <<options, at, printed, target, temp, writer, offered, session, result, reports, failure>>

\* An offer is a server and a place in its list.  Of all that the servers
\* publish, what is registered, and of several with one name the first.
NameOf(offer) == Tools[Servers[offer[1]]][offer[2]]
Before(a, b) == a[1] < b[1] \/ (a[1] = b[1] /\ a[2] < b[2])
CollectToolDefs ==
  LET opened == {i \in DOMAIN Servers : servers[Servers[i]] = "open"}
      published == UNION {{i} \X DOMAIN Tools[Servers[i]] : i \in opened}
      kept == {a \in published : NameOf(a) \notin Reserved /\ NameOf(a) \in DOMAIN registry}
  IN {b \in kept : \A a \in kept : NameOf(a) = NameOf(b) => ~Before(a, b)}

\* agent.New creates the session, which may fail.
NewAgent ==
  /\ at = "servers" /\ count = Len(Servers)
  /\ at' = "run" /\ count' = 0 /\ offered' = CollectToolDefs /\ session' \in {"open", "lost"}
  /\ UNCHANGED <<options, printed, target, temp, writer, servers, registry, result, reports, failure>>

\* Run returns: without a manifest, or without its session's end, with an error.
Run ==
  /\ at = "run"
  /\ \E error \in BOOLEAN, manifest \in {"none", "failed", "usable"}, end \in {"ended", "lost"} :
       /\ (manifest = "none" \/ end = "lost") => error
       /\ session = "lost" => end = "lost"
       /\ result' = [error |-> error, manifest |-> manifest] /\ session' = end
       /\ at' = IF manifest # "none" THEN "emit" ELSE "usage"
  /\ UNCHANGED <<options, files, servers, registry, offered, reports, failure>>

---------------------------------------------------------------------------
(* The report: emitRunResult, the lazy writer and its commit.               *)

Preview == session = "none"
Failed == result.error \/ result.manifest = "failed"
Whole == [i \in 1..(IF options.format = "text" THEN Lines ELSE 1) |-> i]
Lost == writer.ready = "failed" \/ writer.broken

\* A document's encoder returns the error of its write.  Text drops it and asks
\* the writer, of which only a file's remembers.
WriteError == Lost /\ (options.file \/ options.format # "text")

\* The first write makes the temporary file, or fails for good.
Write ==
  IF ~options.file
    THEN /\ \/ printed' = Append(printed, count + 1) /\ UNCHANGED writer
            \/ writer' = [writer EXCEPT !.broken = TRUE] /\ UNCHANGED printed
         /\ UNCHANGED <<target, temp>>
  ELSE /\ \/ writer.ready = "failed" /\ UNCHANGED <<temp, writer>>
          \/ writer.ready = "no" /\ writer' = [writer EXCEPT !.ready = "failed"] /\ UNCHANGED temp
          \/ writer.ready = "no" /\ writer' = [writer EXCEPT !.ready = "yes"] /\ temp' = <<count + 1>>
          \/ writer.ready = "no" /\ writer' = [writer EXCEPT !.ready = "yes", !.broken = TRUE] /\ temp' = <<>>
          \/ writer.ready = "yes" /\ temp' = Append(temp, count + 1) /\ UNCHANGED writer
          \/ writer.ready = "yes" /\ writer' = [writer EXCEPT !.broken = TRUE] /\ UNCHANGED temp
       /\ UNCHANGED <<printed, target>>

\* Text goes on after a line that could not be written.
EmitRunResult ==
  /\ at = "emit" /\ count < Len(Whole)
  /\ Write /\ count' = count + 1
  /\ UNCHANGED <<options, at, agents, failure>>

\* The retry report is part of JSON and of text, but not of SARIF.  A preview has
\* none, and its file is committed by the deferred close.
Emitted ==
  /\ at = "emit" /\ count = Len(Whole)
  /\ failure' = IF WriteError THEN failure \cup {"emit"} ELSE failure
  /\ reports' = IF Preview \/ options.format = "sarif" THEN reports ELSE Append(reports, IF Lost THEN "lost" ELSE "result")
  /\ at' = CASE Preview -> "return" [] WriteError /\ ~Preview -> "usage" [] OTHER -> "close"
  /\ UNCHANGED <<options, files, servers, registry, offered, session, result>>

AfterClose == IF command = "review" THEN "usage" ELSE "over"

(* Mutated: what could not all be written is committed.                     *)
ClosesAnyway == TRUE

Commits == ~writer.broken

\* finishOutput: synced and closed, or discarded.
CloseWriter ==
  /\ at = "close" /\ writer' = [writer EXCEPT !.closed = TRUE]
  /\ CASE temp = NoFile -> at' = AfterClose /\ UNCHANGED failure
       [] temp # NoFile /\ Commits -> Pass("rename") \/ (at' = "discard" /\ failure' = failure \cup {"close"})
       [] OTHER -> Pass("discard")
  /\ UNCHANGED <<options, count, printed, target, temp, agents>>
Rename ==
  /\ at = "rename"
  /\ \/ target' = temp /\ temp' = NoFile /\ at' = AfterClose /\ UNCHANGED failure
     \/ at' = "discard" /\ failure' = failure \cup {"close"} /\ UNCHANGED <<target, temp>>
  /\ UNCHANGED <<options, count, printed, writer, agents>>
CleanupOutputTemp ==
  /\ at = "discard" /\ at' = AfterClose
  /\ \/ temp' = NoFile /\ UNCHANGED failure
     \/ failure' = failure \cup {"discard"} /\ UNCHANGED temp
  /\ UNCHANGED <<options, count, printed, target, writer, agents>>

\* emitFailureUsage has the retry report when nothing was emitted; what it writes
\* to standard error may be lost.
Return ==
  /\ at = "usage" /\ at' = "return"
  /\ failure' = IF Failed THEN failure \cup {"review"} ELSE failure
  /\ IF result.manifest = "none" THEN \E exit \in {"failure", "lost"} : reports' = Append(reports, exit) ELSE UNCHANGED reports
  /\ UNCHANGED <<options, files, servers, registry, offered, session, result>>

---------------------------------------------------------------------------
(* The deferred calls: the servers are closed, all at once and for a limited *)
(* time, then the output.                                                    *)

CloseAll ==
  /\ at = "return"
  /\ servers' = [s \in DOMAIN servers |-> IF servers[s] = "open" THEN "closing" ELSE servers[s]] /\ at' = "closing"
  /\ UNCHANGED <<options, files, registry, offered, session, result, reports, failure>>
Closing == {s \in DOMAIN servers : servers[s] = "closing"}

\* All have closed, or the time is up: what became of each is only warned of.
LeaveCloseAll ==
  /\ at = "closing"
  /\ at' = IF writer.closed THEN "over" ELSE "close"
  /\ UNCHANGED <<options, files, agents, failure>>

---------------------------------------------------------------------------
Execute ==
  \/ ResolveOutputWriter \/ LoadCommonContext \/ RunPreviewContext \/ LoadReviewResumeState \/ LoadLLMRuntime \/ ValidateResumeIdentity
  \/ (\E i \in DOMAIN Servers : InitMCPClient(i)) \/ NewAgent \/ Run \/ EmitRunResult \/ Emitted \/ Return
Publish == CloseWriter \/ Rename \/ CleanupOutputTemp
Deferred == CloseAll \/ LeaveCloseAll \/ Publish

ReviewStep == Alive /\ command = "review" /\ (Execute \/ Publish) /\ UNCHANGED vars
CleanupStep == Alive /\ command = "cleanup" /\ Deferred /\ UNCHANGED vars
ProceedStep == Proceed /\ (command = "review" => at = "return") /\ (command = "cleanup" => at = "over") /\ UNCHANGED ownVars
\* The context that the command was started with is the background: it never ends.
SignalStep == (Signal \/ Watcher \/ Stop) /\ UNCHANGED ownVars

CommandNext == ReviewStep \/ CleanupStep \/ ProceedStep \/ SignalStep

(* The deferred calls end and stop is called after them; the review and a     *)
(* server may take for ever.                                                 *)
CommandSpec ==
  /\ CommandInit /\ [][CommandNext]_<<vars, ownVars>>
  /\ WF_vars(Watcher /\ UNCHANGED ownVars) /\ WF_vars(StopBody /\ UNCHANGED ownVars)
  /\ \A who \in {"watcher", "command"} : WF_vars(EnterStop(who) /\ UNCHANGED ownVars) /\ WF_vars(LeaveStop(who) /\ UNCHANGED ownVars)
  /\ WF_<<vars, ownVars>>(CleanupStep) /\ WF_<<vars, ownVars>>(ProceedStep)

---------------------------------------------------------------------------
Exited == process = "exited"

(* Whatever fails and whenever the process is ended, --output names the       *)
(* earlier file or a whole report; a temporary file is left only by a forced  *)
(* end or when it could not be removed.                                       *)
TargetWhole ==
  /\ target \in {Earlier, Whole}
  /\ Exited /\ temp # NoFile => "discard" \in failure

Delivered == IF options.file THEN target = Whole ELSE printed = Whole

\* What the code does not notice: lines of text that standard output did not take.
LostText == ~options.file /\ options.format = "text" /\ writer.broken

(* An exit of 0 has published its report and saved its session, and the       *)
(* review was not a failure; and of a run with a manifest the report is       *)
(* published though the review failed, unless the status says that it could   *)
(* not be written, which it says of no report that was.  The exception is     *)
(* text on standard output: lines that could not be written change nothing.   *)
ExitTells ==
  Exited =>
    /\ failure = {} => (Delivered \/ LostText) /\ ~Failed /\ session \in {"none", "ended"}
    /\ result.manifest # "none" /\ failure \cap {"emit", "close"} = {} => Delivered \/ LostText
    /\ Delivered => failure \cap {"emit", "close"} = {}

(* What is refused before the agent exists leaves no session, no server and   *)
(* no file ("a rejected resume persists nothing").                            *)
RefusedLeavesNothing ==
  Exited /\ session = "none" =>
    /\ \A s \in DOMAIN servers : servers[s] = "off"
    /\ "refused" \in failure => target = Earlier /\ temp = NoFile /\ printed = <<>>

(* A run's retry report has one exit, its result or its failure, and in a     *)
(* result it is published with it.  "Never duplicated" holds; "never silently *)
(* dropped" holds but for two cases: a result in SARIF has no place for it,   *)
(* and text on standard output may lose it unnoticed.                        *)
ReportedOnce ==
  /\ Len(reports) <= 1
  /\ Exited /\ session # "none" => reports # <<>> \/ (options.format = "sarif" /\ result.manifest # "none")
  /\ Exited /\ reports = <<"result">> => Delivered \/ "close" \in failure
  /\ Exited /\ reports = <<"lost">> => failure # {} \/ LostText

(* The report is in place before a server is asked to close, however long it  *)
(* takes to.                                                                  *)
CommittedFirst ==
  Closing # {} /\ options.file /\ result.manifest # "none" /\ failure \cap {"emit", "close"} = {} => target = Whole

(* The model is told of the tools that some server serves, of each once, and  *)
(* none of them hides a built-in one.                                         *)
ToolsServed ==
  at = "run" =>
    /\ {NameOf(a) : a \in offered} = DOMAIN registry /\ \A a, b \in offered : NameOf(a) = NameOf(b) => a = b
    /\ \A n \in DOMAIN registry : n \notin Reserved /\ servers[registry[n]] = "open" /\ n \in ToSet(Tools[registry[n]])

(* What the command leaves is what its exit status says.                      *)
CommandHonest == TargetWhole /\ ExitTells /\ RefusedLeavesNothing /\ ReportedOnce /\ CommittedFirst /\ ToolsServed

(* The cleanup ends although a server never closes, and signals are answered. *)
CommandEnds == SignalsAnswered /\ (command = "cleanup" ~> (~Alive \/ command = "gone"))
=============================================================================
