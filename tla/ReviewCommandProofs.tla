------------------------- MODULE ReviewCommandProofs -------------------------
(***************************************************************************)
(* What the signal handler and the review command it stops leave behind, for *)
(* any number of signals, any servers and reports of any length, by an       *)
(* invariant of the handler and one that says for each place of the command  *)
(* what has been written, kept and reported.                                 *)
(***************************************************************************)
EXTENDS ReviewCommand, WellFoundedInduction, TLAPS

(***************************************************************************)
(* The signal handler, for any number of signals.                          *)
(***************************************************************************)

(* The signals the watcher has taken from the channel and still acts on. *)
Taken ==
  IF watcher \in {"cancel", "second"} THEN 1 ELSE IF watcher \in {"check", "force"} THEN 2 ELSE 0

(* A late signal is one queued after stopped was set: while one is in the      *)
(* channel or in the watcher's hands the run is stopping, and the watcher got  *)
(* past its check only with an early one.                                      *)
LateMeansStopped ==
  /\ \A i \in 1..Len(channel) : channel[i] => stopped
  /\ held => stopped
  /\ watcher = "force" => ~held

(* Every signal in the channel or in the watcher's hands was sent. *)
SentCovers == Len(channel) + Taken <= sent

(* A forced exit takes two signals: the first one always leaves the cleanup a  *)
(* chance (the first select of the watcher only cancels).                      *)
ForcedBySecond == process = "forced" => sent >= 2

IInv == TypeOK /\ LateMeansStopped /\ SentCovers /\ LateSignalHarmless /\ ForcedBySecond

(* The handler starts in the invariant: nothing was sent. *)
LEMMA Start == Init => IInv
<1> SUFFICES ASSUME Init PROVE IInv
  OBVIOUS
<1>1. TypeOK
  <2>1. channel \in Seq(BOOLEAN) /\ Len(channel) = 0
    BY DEF Init
  <2>2. sent \in 0..MaxSignals
    BY SignalAssumption DEF Init
  <2>3. /\ registered \in BOOLEAN /\ cancelled \in BOOLEAN /\ parentDone \in BOOLEAN
        /\ stopped \in BOOLEAN /\ held \in BOOLEAN
    BY Zenon DEF Init
  <2> QED BY <2>1, <2>2, <2>3 DEF Init, TypeOK
<1>2. LateMeansStopped
  BY DEF Init, LateMeansStopped
<1>3. SentCovers
  BY DEF Init, SentCovers, Taken
<1> QED BY <1>1, <1>2, <1>3 DEF Init, IInv, LateSignalHarmless, ForcedBySecond

(* Taking a signal leaves a shorter channel of the others. *)
LEMMA TakeOne ==
  ASSUME channel \in Seq(BOOLEAN), Receive
  PROVE  /\ channel' \in Seq(BOOLEAN) /\ Len(channel') = Len(channel) - 1 /\ Len(channel) >= 1
         /\ held' \in BOOLEAN /\ held' = channel[1]
         /\ \A i \in 1..Len(channel') : channel'[i] = channel[i + 1]
BY DEF Receive

(* Every step of the sender, the watcher, the command and stop keeps the invariant. *)
LEMMA KeepsInv == IInv /\ [Next]_vars => IInv'
<1> SUFFICES ASSUME IInv, [Next]_vars PROVE IInv'
  OBVIOUS
<1> USE SignalAssumption DEF Alive
<1>a. TypeOK /\ LateMeansStopped /\ SentCovers /\ LateSignalHarmless /\ ForcedBySecond
  BY DEF IInv
<1>1. CASE Signal
  <2>1. TypeOK'
    <3>1. channel' \in Seq(BOOLEAN) /\ Len(channel') <= 2
      BY <1>1, <1>a DEF Signal, TypeOK, Buffer
    <3> QED BY <3>1, <1>1, <1>a DEF Signal, TypeOK
  <2>2. LateMeansStopped'
    BY <1>1, <1>a DEF Signal, TypeOK, LateMeansStopped
  <2>3. SentCovers'
    BY <1>1, <1>a DEF Signal, TypeOK, SentCovers, Taken
  <2>4. LateSignalHarmless' /\ ForcedBySecond'
    BY <1>1, <1>a DEF Signal, TypeOK, LateSignalHarmless, ForcedBySecond
  <2> QED BY <2>1, <2>2, <2>3, <2>4 DEF IInv
<1>2. CASE Wait \/ Second
  <2>1. CASE Receive
    <3>1. /\ channel' \in Seq(BOOLEAN) /\ Len(channel') = Len(channel) - 1 /\ Len(channel) >= 1
          /\ held' \in BOOLEAN /\ held' = channel[1]
          /\ \A i \in 1..Len(channel') : channel'[i] = channel[i + 1]
      BY <2>1, <1>a, TakeOne DEF TypeOK
    <3>2. \/ watcher = "wait" /\ watcher' \in {"cancel", "stop"}
          \/ watcher = "second" /\ watcher' \in {"check", "stop"}
      BY <1>2 DEF Wait, Second, OnFirst
    <3>3. UNCHANGED <<sent, registered, cancelled, parentDone, stopped, command, stopper, stage, process>>
          /\ process = "alive"
      BY <1>2 DEF Wait, Second
    <3>4. TypeOK'
      BY <3>1, <3>2, <3>3, <1>a DEF TypeOK
    <3>5. LateMeansStopped'
      BY <3>1, <3>2, <3>3, <1>a DEF LateMeansStopped, TypeOK
    <3>6. SentCovers'
      BY <3>1, <3>2, <3>3, <1>a DEF SentCovers, Taken, TypeOK
    <3> QED BY <3>3, <3>4, <3>5, <3>6 DEF IInv, LateSignalHarmless, ForcedBySecond
  <2>2. CASE UNCHANGED <<channel, held>> /\ watcher' = "stop"
    <3>1. UNCHANGED <<sent, registered, cancelled, parentDone, stopped, command, stopper, stage, process>>
      BY <1>2 DEF Wait, Second
    <3> QED BY <2>2, <3>1, <1>a
          DEF IInv, TypeOK, LateMeansStopped, SentCovers, Taken, LateSignalHarmless, ForcedBySecond
  <2> QED BY <1>2, <2>1, <2>2 DEF Wait, Second
<1>3. CASE FirstSignal
  BY <1>3, <1>a DEF FirstSignal, IInv, TypeOK, LateMeansStopped, SentCovers, Taken,
     LateSignalHarmless, ForcedBySecond
<1>4. CASE Check
  BY <1>4, <1>a DEF Check, MayForce, IInv, TypeOK, LateMeansStopped, SentCovers, Taken,
     LateSignalHarmless, ForcedBySecond
<1>5. CASE ForceExit
  <2>1. TypeOK'
    BY <1>5, <1>a DEF ForceExit, TypeOK
  <2>2. LateMeansStopped'
    BY <1>5, <1>a DEF ForceExit, TypeOK, LateMeansStopped
  <2>3. SentCovers'
    BY <1>5, <1>a DEF ForceExit, TypeOK, SentCovers, Taken
  <2>4. LateSignalHarmless' /\ ForcedBySecond'
    BY <1>5, <1>a DEF ForceExit, LateMeansStopped, SentCovers, Taken, TypeOK, LateSignalHarmless, ForcedBySecond
  <2> QED BY <2>1, <2>2, <2>3, <2>4 DEF IInv
<1>6. CASE Stop
  <2>1. CASE StopBody
    <3>1. TypeOK'
      BY <2>1, <1>a DEF StopBody, AfterStop, TypeOK
    <3>2. LateMeansStopped'
      BY <2>1, <1>a DEF StopBody, AfterStop, TypeOK, LateMeansStopped
    <3>3. SentCovers'
      BY <2>1, <1>a DEF StopBody, AfterStop, TypeOK, SentCovers, Taken
    <3>4. LateSignalHarmless' /\ ForcedBySecond'
      BY <2>1, <1>a DEF StopBody, AfterStop, LateSignalHarmless, ForcedBySecond
    <3> QED BY <3>1, <3>2, <3>3, <3>4 DEF IInv
  <2>2. CASE \E who \in {"watcher", "command"} : EnterStop(who)
    <3>1. TypeOK'
      BY <2>2, <1>a DEF EnterStop, TypeOK
    <3>2. LateMeansStopped'
      BY <2>2, <1>a DEF EnterStop, TypeOK, LateMeansStopped
    <3>3. SentCovers'
      BY <2>2, <1>a DEF EnterStop, TypeOK, SentCovers, Taken
    <3>4. LateSignalHarmless' /\ ForcedBySecond'
      BY <2>2, <1>a DEF EnterStop, LateSignalHarmless, ForcedBySecond
    <3> QED BY <3>1, <3>2, <3>3, <3>4 DEF IInv
  <2>3. CASE \E who \in {"watcher", "command"} : LeaveStop(who)
    <3>1. TypeOK'
      BY <2>3, <1>a DEF LeaveStop, Calling, TypeOK
    <3>2. LateMeansStopped'
      BY <2>3, <1>a DEF LeaveStop, Calling, TypeOK, LateMeansStopped
    <3>3. SentCovers'
      BY <2>3, <1>a DEF LeaveStop, Calling, TypeOK, SentCovers, Taken
    <3>4. LateSignalHarmless' /\ ForcedBySecond'
      BY <2>3, <1>a DEF LeaveStop, Calling, LateSignalHarmless, ForcedBySecond
    <3> QED BY <3>1, <3>2, <3>3, <3>4 DEF IInv
  <2> QED BY <1>6, <2>1, <2>2, <2>3 DEF Stop
<1>7. CASE Proceed
  <2>1. TypeOK'
    BY <1>7, <1>a DEF Proceed, TypeOK
  <2>2. LateMeansStopped'
    BY <1>7, <1>a DEF Proceed, TypeOK, LateMeansStopped
  <2>3. SentCovers'
    BY <1>7, <1>a DEF Proceed, TypeOK, SentCovers, Taken
  <2>4. LateSignalHarmless' /\ ForcedBySecond'
    BY <1>7, <1>a DEF Proceed, LateMeansStopped, SentCovers, Taken, TypeOK, LateSignalHarmless, ForcedBySecond
  <2> QED BY <2>1, <2>2, <2>3, <2>4 DEF IInv
<1>9. CASE EndParent
  <2>1. TypeOK'
    BY <1>9, <1>a DEF EndParent, TypeOK
  <2>2. LateMeansStopped'
    BY <1>9, <1>a DEF EndParent, TypeOK, LateMeansStopped
  <2>3. SentCovers'
    BY <1>9, <1>a DEF EndParent, TypeOK, SentCovers, Taken
  <2>4. LateSignalHarmless' /\ ForcedBySecond'
    BY <1>9, <1>a DEF EndParent, LateMeansStopped, SentCovers, Taken, TypeOK, LateSignalHarmless, ForcedBySecond
  <2> QED BY <2>1, <2>2, <2>3, <2>4 DEF IInv
<1>8. CASE UNCHANGED vars
  <2>1. TypeOK'
    BY <1>8, <1>a DEF vars, TypeOK
  <2>2. LateMeansStopped'
    BY <1>8, <1>a DEF vars, TypeOK, LateMeansStopped
  <2>3. SentCovers'
    BY <1>8, <1>a DEF vars, TypeOK, SentCovers, Taken
  <2>4. LateSignalHarmless' /\ ForcedBySecond'
    BY <1>8, <1>a DEF vars, LateSignalHarmless, ForcedBySecond
  <2> QED BY <2>1, <2>2, <2>3, <2>4 DEF IInv
<1> QED BY <1>1, <1>2, <1>3, <1>4, <1>5, <1>6, <1>7, <1>8, <1>9 DEF Next, Watcher

(* Every state of the handler is well typed and keeps the strengthening. *)
THEOREM HandlerInvariant == Spec => []IInv
BY Start, KeepsInv, PTL DEF Spec

(* A signal that arrives once stop has taken effect never turns a run into     *)
(* exit 1, however many signals are sent and however the watcher is scheduled. *)
THEOREM LateSignalsHarmless == Spec => []LateSignalHarmless
<1>1. IInv => LateSignalHarmless
  BY DEF IInv
<1> QED BY <1>1, HandlerInvariant, PTL

(* No single signal ends the process: the cleanup always gets its chance. *)
THEOREM ForcedOnlyBySecond == Spec => []ForcedBySecond
<1>1. IInv => ForcedBySecond
  BY DEF IInv
<1> QED BY <1>1, HandlerInvariant, PTL

(***************************************************************************)
(* The command it stops.                                                   *)
(***************************************************************************)

Upto(n) == [i \in 1..n |-> i]
Size == IF options.format = "text" THEN Lines ELSE 1

(* The places before a report is written.                                   *)
Early == {"output", "context", "preview", "resume", "resumed", "runtime", "identity", "servers", "run"}
Places == Early \cup {"emit", "close", "rename", "discard", "usage", "return", "closing", "over"}

HasManifest == result.manifest # "none"

(* The command has a report to write: a run's, or a preview's.               *)
Emits == HasManifest \/ (session = "none" /\ "refused" \notin failure)

OwnTypes ==
  /\ options \in [file : BOOLEAN, format : {"json", "sarif", "text"}]
  /\ at \in Places /\ count \in Nat
  /\ writer \in [ready : {"no", "yes", "failed"}, broken : BOOLEAN, closed : BOOLEAN]
  /\ ~options.file => writer.ready = "no"
  /\ temp \in Seq(Nat) \cup {NoFile}
  /\ servers \in [DOMAIN Tools -> {"off", "open", "closing"}]
  /\ session \in {"none", "open", "ended", "lost"}
  /\ result \in [error : BOOLEAN, manifest : {"none", "failed", "usable"}]
  /\ reports \in Seq({"result", "failure", "lost"})
  /\ failure \subseteq {"refused", "emit", "close", "discard", "review"}

(* Where the command can be while the review, its cleanup and stop run.      *)
Placed ==
  /\ command \in {"review", "cleanup", "stop", "gone"}
  /\ command = "review" => at \in Early \cup {"emit", "close", "rename", "discard", "usage", "return"}
  /\ command = "cleanup" => at \in {"return", "closing", "close", "rename", "discard", "over"}
  /\ command \in {"stop", "gone"} => at = "over"
  /\ process = "exited" => command = "gone"

(* The session, what Run returned and the servers.                           *)
Ran ==
  /\ at \in Early \ {"servers"} => count = 0
  /\ at \in Early \ {"run"} => session = "none"
  /\ at = "run" => session \in {"open", "lost"}
  /\ at \notin Early => session # "open"
  /\ at \in Early \/ session = "none" => ~result.error /\ ~HasManifest
  /\ at # "run" /\ session = "lost" => result.error
  /\ at \notin Early /\ session # "none" /\ ~HasManifest => result.error
  /\ at = "usage" => session # "none"
  /\ at = "emit" => HasManifest \/ session = "none"
  /\ session = "none" /\ at # "servers" => \A s \in DOMAIN servers : servers[s] = "off"
  /\ (\E s \in DOMAIN servers : servers[s] = "closing") => command # "review" /\ at # "return"

(* What the command's error is made of.                                      *)
Failing ==
  /\ at \in Early \cup {"emit"} => failure = {}
  /\ "refused" \in failure => session = "none"
  /\ (at = "return" \/ command # "review") /\ Failed => "review" \in failure

(* The retry report's exit: with the result, but for SARIF, or the failure.   *)
Exit ==
  IF ~HasManifest THEN {<<"failure">>, <<"lost">>}
  ELSE IF options.format = "sarif" THEN {<<>>}
  ELSE IF Lost THEN {<<"lost">>} ELSE {<<"result">>}
Reported ==
  IF session = "none" \/ at \in Early \cup {"emit"} \/ (at = "usage" /\ ~HasManifest) THEN reports = <<>>
  ELSE reports \in Exit

(* How much of a report the writer was given, and what became of it.         *)
Amount == IF at \in Early THEN 0 ELSE IF at = "emit" THEN count ELSE IF Emits THEN Size ELSE 0
Given(n) ==
  IF ~options.file
  THEN /\ temp = NoFile /\ writer.ready = "no" /\ printed \in Seq(Nat)
       /\ ~writer.broken => printed = Upto(n)
       /\ writer.broken => n > 0 /\ (options.format # "text" => printed = <<>>)
  ELSE /\ printed = <<>>
       /\ writer.ready = "no" => n = 0 /\ temp = NoFile /\ ~writer.broken
       /\ writer.ready = "failed" => n > 0 /\ temp = NoFile /\ ~writer.broken
       /\ writer.ready = "yes" => n > 0 /\ temp \in Seq(Nat) /\ (~writer.broken => temp = Upto(n))

(* Before the output is closed nothing has replaced the earlier file.        *)
Open ==
  ~writer.closed =>
    /\ at \notin {"rename", "discard", "over"} /\ target = Earlier /\ Given(Amount)
    /\ at = "emit" => count <= Size
    /\ failure \cap {"close", "discard"} = {}
    /\ at \notin Early \cup {"emit"} => ("emit" \in failure <=> Emits /\ WriteError)

(* Once it is: a whole report, or the earlier file with an error that says so. *)
Closed ==
  writer.closed =>
    /\ at \in {"rename", "discard", "usage", "return", "closing", "over"}
    /\ "emit" \in failure <=> Emits /\ WriteError
    /\ at = "rename" => /\ options.file /\ Emits /\ temp = Upto(Size) /\ target = Earlier
                        /\ failure \cap {"emit", "close", "discard"} = {}
    /\ at = "discard" => /\ options.file /\ Emits /\ target = Earlier
                         /\ failure \cap {"emit", "close"} # {}
    /\ at \notin {"rename", "discard"} =>
         /\ temp = NoFile \/ "discard" \in failure
         /\ Emits /\ options.file => target = IF failure \cap {"emit", "close"} = {} THEN Upto(Size) ELSE Earlier
         /\ Emits /\ ~options.file =>
              /\ target = Earlier /\ "close" \notin failure
              /\ ~writer.broken => printed = Upto(Size)
              /\ WriteError => printed = <<>>
         /\ ~Emits => printed = <<>> /\ temp = NoFile /\ target = Earlier /\ failure \cap {"emit", "close"} = {}

(* A run's report is in place before the deferred calls.                      *)
InPlace ==
  /\ at \in {"close", "rename", "discard"} /\ command = "review" => HasManifest /\ "emit" \notin failure
  /\ HasManifest /\ "emit" \notin failure =>
       /\ at \in {"usage", "return", "closing", "over"} => writer.closed
       /\ command # "review" => at \notin {"close", "rename"}

CInv == OwnTypes /\ Placed /\ Ran /\ Failing /\ Reported /\ Open /\ Closed /\ InPlace

(* A report written so far: its length, and that a shorter one differs.      *)
LEMMA UptoFacts ==
  /\ Upto(0) = <<>> /\ Upto(1) = <<1>>
  /\ \A n \in Nat : Upto(n) \in Seq(Nat) /\ Len(Upto(n)) = n /\ Append(Upto(n), n + 1) = Upto(n + 1)
  /\ \A n \in Nat \ {0} : Upto(n) # Earlier /\ Upto(n) # <<>>
<1>1. Upto(0) = <<>> /\ Upto(1) = <<1>>
  BY DEF Upto
<1>2. ASSUME NEW n \in Nat
      PROVE  Upto(n) \in Seq(Nat) /\ Len(Upto(n)) = n /\ Append(Upto(n), n + 1) = Upto(n + 1)
  <2>1. Upto(n) \in Seq(Nat) /\ Len(Upto(n)) = n
    BY DEF Upto
  <2>2. Append(Upto(n), n + 1) \in Seq(Nat) /\ Len(Append(Upto(n), n + 1)) = n + 1
    BY <2>1
  <2>3. \A i \in 1..(n + 1) : Append(Upto(n), n + 1)[i] = i
    BY <2>1 DEF Upto
  <2> QED BY <2>1, <2>2, <2>3 DEF Upto
<1>3. ASSUME NEW n \in Nat \ {0} PROVE Upto(n) # Earlier /\ Upto(n) # <<>>
  <2>1. Upto(n)[1] = 1 /\ Len(Upto(n)) = n
    BY DEF Upto
  <2> QED BY <2>1 DEF Earlier
<1> QED BY <1>1, <1>2, <1>3

(* The whole report is the one all of whose pieces were written.             *)
LEMMA WholeFacts == options \in [file : BOOLEAN, format : {"json", "sarif", "text"}] => Whole = Upto(Size) /\ Size \in Nat \ {0} /\ Len(Whole) = Size
BY LinesAssumption, UptoFacts DEF Whole, Upto, Size

(* No sequence of pieces is the absent file.                                 *)
LEMMA NotAFile == NoFile \notin Seq(Nat)
BY DEF NoFile

(* The command starts in the invariant.                                      *)
LEMMA CommandStarts == CommandInit => CInv
BY UptoFacts DEF CommandInit, Init, CInv, OwnTypes, Placed, Ran, Failing, Reported, Open, Closed, InPlace,
   Places, Early, HasManifest, Emits, Amount, Given, Failed

(* Each step of the command before its report keeps the invariant.           *)
LEMMA EarlySteps ==
  ASSUME CInv, UNCHANGED vars, command = "review",
         ResolveOutputWriter \/ LoadCommonContext \/ RunPreviewContext \/ LoadReviewResumeState \/ LoadLLMRuntime \/ ValidateResumeIdentity
  PROVE  CInv'
<1> USE DEF CInv, vars, files, agents, Early, Places, HasManifest, Emits, Lost, Exit
<1>1. OwnTypes'
  BY DEF OwnTypes, Refuse, Pass, ResolveOutputWriter, LoadCommonContext, RunPreviewContext, LoadReviewResumeState, LoadLLMRuntime, ValidateResumeIdentity
<1>2. CASE Refuse /\ at \in Early \ {"servers", "run"} /\ UNCHANGED <<options, files, agents>>
  BY <1>1, <1>2 DEF Placed, Ran, Failing, Reported, Open, Closed, InPlace, Refuse, Amount, Given, Failed, WriteError
<1>3. CASE /\ at \in Early \ {"servers", "run"} /\ UNCHANGED <<options, files, agents, failure>>
           /\ at' \in Early \ {"run"} \/ (at = "preview" /\ at' = "emit")
  <2>1. Placed' /\ Ran' /\ Failing' /\ Reported'
    BY <1>3 DEF Placed, Ran, Failing, Reported, Failed
  <2>2. Open'
    BY <1>3, WholeFacts DEF Open, Closed, Ran, Amount, Given, OwnTypes, Size
  <2>3. Closed' /\ InPlace'
    BY <1>3 DEF Closed, InPlace, Ran
  <2> QED BY <1>1, <2>1, <2>2, <2>3
<1> QED BY <1>2, <1>3 DEF Refuse, Pass, ResolveOutputWriter, LoadCommonContext, RunPreviewContext, LoadReviewResumeState, LoadLLMRuntime, ValidateResumeIdentity
LEMMA StartSteps ==
  ASSUME CInv, UNCHANGED vars, command = "review",
         (\E i \in DOMAIN Servers : InitMCPClient(i)) \/ NewAgent \/ Run
  PROVE  CInv'
<1> USE DEF CInv, vars, files, agents, Early, Places, HasManifest, Emits, Lost, Exit
<1>1. ASSUME NEW i \in DOMAIN Servers, InitMCPClient(i) PROVE CInv'
  <2>1. /\ servers' \in [DOMAIN Tools -> {"off", "open", "closing"}] /\ count' \in Nat
        /\ (\E s \in DOMAIN servers' : servers'[s] = "closing") => (\E s \in DOMAIN servers : servers[s] = "closing")
    <3>1. Servers[i] \in DOMAIN Tools
      BY ServersAssumption
    <3>2. count' = i /\ i \in Nat
      BY <1>1, ServersAssumption DEF InitMCPClient
    <3>3. servers' = servers \/ servers' = [servers EXCEPT ![Servers[i]] = "open"]
      BY <1>1 DEF InitMCPClient, Connect
    <3> QED BY <3>1, <3>2, <3>3 DEF OwnTypes
  <2>2. /\ at = "servers" /\ UNCHANGED <<options, at, printed, target, temp, writer, session, result, reports, failure>>
    BY <1>1 DEF InitMCPClient
  <2>3. OwnTypes' /\ Placed' /\ Ran' /\ Failing' /\ Reported'
    BY <2>1, <2>2 DEF OwnTypes, Placed, Ran, Failing, Reported, Failed
  <2>4. Open' /\ Closed' /\ InPlace'
    BY <2>2 DEF Open, Closed, InPlace, Amount, Given, WriteError
  <2> QED BY <2>3, <2>4
<1>2. CASE NewAgent
  <2>1. OwnTypes' /\ Placed' /\ Ran' /\ Failing' /\ Reported'
    BY <1>2 DEF NewAgent, OwnTypes, Placed, Ran, Failing, Reported, Failed
  <2>2. Open' /\ Closed' /\ InPlace'
    BY <1>2 DEF NewAgent, Open, Closed, InPlace, Amount, Given, WriteError
  <2> QED BY <2>1, <2>2
<1>3. CASE Run
  <2>1. OwnTypes' /\ Placed' /\ Ran' /\ Failing' /\ Reported'
    BY <1>3 DEF Run, OwnTypes, Placed, Ran, Failing, Reported, Failed
  <2>2. Open'
    BY <1>3, WholeFacts DEF Run, Open, Closed, Ran, Failing, Amount, Given, OwnTypes, WriteError, Size
  <2>3. Closed' /\ InPlace'
    BY <1>3 DEF Run, Closed, InPlace, Failing
  <2> QED BY <2>1, <2>2, <2>3
<1> QED BY <1>1, <1>2, <1>3

(* Each piece of the report, and what follows the last one.                  *)
LEMMA EmitSteps ==
  ASSUME CInv, UNCHANGED vars, command = "review", EmitRunResult \/ Emitted \/ Return
  PROVE  CInv'
<1> USE DEF CInv, vars, files, agents, Early, Places, HasManifest, Emits, Lost, Exit
<1>1. CASE EmitRunResult
  <2>1. count \in Nat /\ count + 1 <= Size /\ Given(count) /\ at = "emit" /\ ~writer.closed
    BY <1>1, WholeFacts DEF EmitRunResult, Open, Closed, Amount, OwnTypes
  <2>2. /\ UNCHANGED <<options, at, servers, registry, offered, session, result, reports, failure, target>>
        /\ count' = count + 1 /\ Write
    BY <1>1 DEF EmitRunResult, Write
  <2>3. /\ writer' \in [ready : {"no", "yes", "failed"}, broken : BOOLEAN, closed : BOOLEAN] /\ ~writer'.closed
        /\ temp' \in Seq(Nat) \cup {NoFile} /\ Given(count)' /\ (~options'.file => writer'.ready = "no")
    <3>1. CASE ~options.file
      <4>1. /\ temp = NoFile /\ writer.ready = "no" /\ printed \in Seq(Nat) /\ temp' = temp /\ ~options'.file
            /\ ~writer.broken => printed = Upto(count)
            /\ writer.broken => count > 0
        BY <2>1, <2>2, <3>1 DEF Given, Write
      <4>2. options.format # "text" => count = 0
        BY <2>1 DEF Size
      <4>3. writer \in [ready : {"no", "yes", "failed"}, broken : BOOLEAN, closed : BOOLEAN]
        BY DEF OwnTypes
      <4>4. CASE printed' = Append(printed, count + 1) /\ writer' = writer
        <5>1. printed' \in Seq(Nat) /\ (~writer.broken => printed' = Upto(count'))
          <6>1. Append(printed, count + 1) \in Seq(Nat)
            BY <2>1, <4>1
          <6>2. Append(Upto(count), count + 1) = Upto(count + 1)
            BY <2>1, UptoFacts
          <6> QED BY <2>2, <4>1, <4>4, <6>1, <6>2
        <5>2. writer.broken => options'.format = "text"
          BY <2>2, <4>1, <4>2
        <5> QED BY <2>1, <2>2, <4>1, <4>3, <4>4, <5>1, <5>2 DEF Given
      <4>5. CASE printed' = printed /\ writer' = [writer EXCEPT !.broken = TRUE]
        <5>1. options.format # "text" => printed = <<>>
          BY <4>1, <4>2, <4>3, UptoFacts
        <5>2. /\ writer' \in [ready : {"no", "yes", "failed"}, broken : BOOLEAN, closed : BOOLEAN]
              /\ writer'.ready = "no" /\ writer'.broken /\ writer'.closed = writer.closed
          BY <4>1, <4>3, <4>5
        <5>3. count' > 0 /\ options' = options /\ printed' \in Seq(Nat) /\ temp' = NoFile
          BY <2>1, <2>2, <4>1, <4>5
        <5> QED BY <2>1, <4>1, <4>5, <5>1, <5>2, <5>3 DEF Given
      <4> QED BY <2>2, <3>1, <4>4, <4>5 DEF Write
    <3>2. CASE options.file /\ writer.ready = "no"
      <4>1. count = 0 /\ ~writer.broken /\ temp = NoFile /\ printed = <<>>
        BY <2>1, <3>2 DEF Given
      <4>2. \/ writer' = [writer EXCEPT !.ready = "failed"] /\ temp' = NoFile
            \/ writer' = [writer EXCEPT !.ready = "yes"] /\ temp' = <<1>>
            \/ writer' = [writer EXCEPT !.ready = "yes", !.broken = TRUE] /\ temp' = <<>>
        BY <2>2, <3>2, <4>1 DEF Write
      <4>3. printed' = <<>> /\ count' = 1 /\ options'.file
        BY <2>2, <3>2, <4>1 DEF Write
      <4>4. writer \in [ready : {"no", "yes", "failed"}, broken : BOOLEAN, closed : BOOLEAN]
        BY DEF OwnTypes
      <4>5. <<>> \in Seq(Nat) /\ <<1>> \in Seq(Nat) /\ <<1>> = Upto(1)
        BY UptoFacts
      <4>6. writer' \in [ready : {"no", "yes", "failed"}, broken : BOOLEAN, closed : BOOLEAN] /\ ~writer'.closed
        BY <2>1, <4>2, <4>4
      <4>7. /\ temp' \in Seq(Nat) \cup {NoFile} /\ writer'.ready # "no"
            /\ writer'.ready = "failed" => temp' = NoFile /\ ~writer'.broken
            /\ writer'.ready = "yes" => temp' \in Seq(Nat) /\ (~writer'.broken => temp' = Upto(1))
        BY <4>1, <4>2, <4>4, <4>5
      <4> QED BY <4>3, <4>6, <4>7 DEF Given
    <3>3. CASE options.file /\ writer.ready = "failed"
      BY <2>1, <2>2, <3>3 DEF Write, Given, OwnTypes
    <3>4. CASE options.file /\ writer.ready = "yes"
      <4>1. temp \in Seq(Nat) /\ (~writer.broken => temp = Upto(count)) /\ printed = <<>>
        BY <2>1, <3>4 DEF Given
      <4>2. \/ temp' = Append(temp, count + 1) /\ writer' = writer
            \/ temp' = temp /\ writer' = [writer EXCEPT !.broken = TRUE]
        BY <2>2, <3>4 DEF Write
      <4>3. temp' \in Seq(Nat) /\ (temp' = Append(temp, count + 1) /\ ~writer.broken => temp' = Upto(count'))
        <5>1. Append(temp, count + 1) \in Seq(Nat)
          BY <2>1, <4>1
        <5>2. Append(Upto(count), count + 1) = Upto(count + 1)
          BY <2>1, UptoFacts
        <5> QED BY <2>2, <4>1, <4>2, <5>1, <5>2
      <4>4. printed' = <<>> /\ count' > 0 /\ options'.file
        BY <2>1, <2>2, <3>4, <4>1 DEF Write
      <4> QED BY <2>1, <3>4, <4>1, <4>2, <4>3, <4>4 DEF Given, OwnTypes
    <3> QED BY <2>2, <3>1, <3>2, <3>3, <3>4 DEF OwnTypes, Given
  <2>4. OwnTypes' /\ Placed' /\ Ran' /\ Failing' /\ Reported'
    BY <2>1, <2>2, <2>3 DEF OwnTypes, Placed, Ran, Failing, Reported, Failed
  <2>5. Open' /\ Closed' /\ InPlace'
    BY <2>1, <2>2, <2>3 DEF Open, Closed, InPlace, Amount, Size
  <2> QED BY <2>4, <2>5
<1>2. CASE Emitted
  <2>1. OwnTypes' /\ Placed' /\ Ran' /\ Failing' /\ Reported'
    <3>1. reports = <<>> /\ Append(<<>>, "lost") = <<"lost">> /\ Append(<<>>, "result") = <<"result">>
      BY <1>2 DEF Emitted, Reported
    <3>2. reports' = IF session = "none" \/ options.format = "sarif" THEN <<>> ELSE IF Lost THEN <<"lost">> ELSE <<"result">>
      BY <1>2, <3>1 DEF Emitted, Preview
    <3>3. OwnTypes' /\ Placed' /\ Ran' /\ Failing'
      BY <1>2, <3>2 DEF Emitted, Preview, OwnTypes, Placed, Ran, Failing, Failed
    <3>4. Reported'
      BY <1>2, <3>2 DEF Emitted, Preview, Ran, Reported
    <3> QED BY <3>3, <3>4
  <2>2. count = Size
    BY <1>2, WholeFacts DEF Emitted, OwnTypes
  <2>3. Open'
    BY <1>2, <2>2 DEF Emitted, Preview, Open, Closed, Amount, Given, Failing, WriteError, Size, Ran
  <2>4. Closed' /\ InPlace'
    BY <1>2 DEF Emitted, Preview, Open, Closed, InPlace, Failing, Ran
  <2> QED BY <2>1, <2>3, <2>4
<1>3. CASE Return
  <2>1. OwnTypes' /\ Placed' /\ Ran' /\ Failing' /\ Reported'
    <3>1. /\ session # "none" /\ UNCHANGED <<session, result, options, writer>>
          /\ HasManifest => reports' = reports
          /\ ~HasManifest => reports' \in {<<"failure">>, <<"lost">>}
      <4>1. at = "usage" /\ session # "none" /\ UNCHANGED <<session, result, options, writer>>
        BY <1>3 DEF Return, Ran
      <4>2. ~HasManifest => reports = <<>>
        BY <4>1 DEF Reported
      <4>3. Append(<<>>, "failure") = <<"failure">> /\ Append(<<>>, "lost") = <<"lost">>
        OBVIOUS
      <4>4. /\ HasManifest => reports' = reports
            /\ ~HasManifest => reports' = Append(reports, "failure") \/ reports' = Append(reports, "lost")
        BY <1>3 DEF Return
      <4> QED BY <4>1, <4>2, <4>3, <4>4
    <3>2. OwnTypes' /\ Placed' /\ Ran' /\ Failing'
      BY <1>3, <3>1 DEF Return, OwnTypes, Placed, Ran, Failing, Failed
    <3>3. Reported'
      BY <1>3, <3>1 DEF Return, Reported
    <3> QED BY <3>2, <3>3
  <2>2. Open'
    BY <1>3 DEF Return, Open, Amount, Given, WriteError, Size
  <2>3. Closed' /\ InPlace'
    BY <1>3 DEF Return, Closed, InPlace, WriteError, Size
  <2> QED BY <2>1, <2>2, <2>3
<1> QED BY <1>1, <1>2, <1>3

(* The commit of the output file, in the review or deferred, keeps it.        *)
LEMMA CloseSteps ==
  ASSUME CInv, UNCHANGED vars, command \in {"review", "cleanup"}, Publish
  PROVE  CInv'
<1> USE DEF CInv, vars, files, agents, Early, Places, HasManifest, Emits, Lost, Exit
<1>1. CASE CloseWriter
  <2>1. OwnTypes' /\ Placed' /\ Ran' /\ Failing' /\ Reported'
    <3>1. /\ at = "close" /\ UNCHANGED <<options, count, printed, agents>>
          /\ failure' \in {failure, failure \cup {"close"}, failure \cup {"discard"}}
          /\ at' \in {"rename", "discard"} \/ at' = IF command = "review" THEN "usage" ELSE "over"
      BY <1>1 DEF CloseWriter, Commits, Pass, AfterClose
    <3>2. OwnTypes'
      BY <1>1, <3>1 DEF CloseWriter, Commits, Pass, OwnTypes
    <3>3. Placed' /\ Failing'
      BY <3>1 DEF Placed, Failing, Failed
    <3>4. Ran'
      BY <3>1 DEF Ran, InPlace
    <3>5. Reported'
      BY <1>1, <3>1, <3>3 DEF CloseWriter, OwnTypes, Reported, Ran, InPlace
    <3> QED BY <3>2, <3>3, <3>4, <3>5
  <2>2. Given(Amount) /\ target = Earlier /\ failure \cap {"close", "discard"} = {}
        /\ ("emit" \in failure <=> Emits /\ WriteError)
    BY <1>1 DEF CloseWriter, Open, Closed
  <2>3. Amount = IF Emits THEN Size ELSE 0
    BY <1>1 DEF CloseWriter, Amount
  <2>4. Open'
    BY <1>1 DEF CloseWriter, Open, OwnTypes
  <2>5. Closed'
    <3>0. writer'.broken = writer.broken /\ WriteError' = WriteError
      BY <1>1 DEF CloseWriter, OwnTypes, WriteError
    <3>1. at = "close" /\ writer'.closed /\ Size' = Size /\ UNCHANGED <<options, count, printed, target, temp, agents>>
      BY <1>1 DEF CloseWriter, OwnTypes, Size
    <3>2. CASE temp = NoFile
      <4>1. at' \in {"usage", "over"} /\ failure' = failure
        BY <1>1, <3>2 DEF CloseWriter, AfterClose
      <4>2. Upto(Size) \in Seq(Nat) /\ Size > 0 /\ Size \in Nat
        <5>1. Size \in Nat \ {0}
          BY WholeFacts DEF OwnTypes
        <5> QED BY <5>1, UptoFacts
      <4>3. CASE Emits
        <5>1. ~options.file => /\ ~writer'.broken => printed' = Upto(Size)
                               /\ WriteError' => printed' = <<>>
          <6>1. ~options.file => /\ ~writer.broken => printed = Upto(Size)
                                 /\ WriteError => printed = <<>>
            BY <2>2, <2>3, <4>3 DEF Given, WriteError, OwnTypes
          <6> QED BY <3>1, <3>0, <6>1
        <5>2. options.file => writer.ready = "failed" \/ temp \in Seq(Nat)
          BY <2>2, <2>3, <4>2, <4>3 DEF Given, OwnTypes
        <5>3. options.file => "emit" \in failure
          BY <2>2, <3>2, <4>3, <5>2, NotAFile DEF WriteError
        <5> QED BY <2>2, <3>0, <3>1, <3>2, <4>1, <4>3, <5>1, <5>3 DEF Closed
      <4>4. CASE ~Emits
        <5>1. printed = <<>>
          <6>1. Given(0) /\ writer.broken \in BOOLEAN
            BY <2>2, <2>3, <4>4 DEF OwnTypes
          <6>2. ~options.file => ~writer.broken
            BY <6>1 DEF Given
          <6> QED BY <6>1, <6>2, UptoFacts DEF Given
        <5> QED BY <2>2, <3>0, <3>1, <3>2, <4>1, <4>4, <5>1 DEF Closed
      <4> QED BY <4>3, <4>4
    <3>3. CASE temp # NoFile
      <4>1. options.file /\ Emits /\ writer.ready = "yes" /\ temp \in Seq(Nat) /\ (~writer.broken => temp = Upto(Size))
        BY <2>2, <2>3, <3>3, WholeFacts DEF Given, OwnTypes
      <4>2. CASE writer.broken
        <5>1. at' = "discard" /\ failure' = failure /\ "emit" \in failure
          BY <1>1, <2>2, <3>3, <4>1, <4>2 DEF CloseWriter, Commits, Pass, WriteError
        <5> QED BY <2>2, <3>1, <4>1, <5>1, <3>0, <4>2 DEF Closed, WriteError
      <4>3. CASE ~writer.broken
        <5>1. "emit" \notin failure
          BY <2>2, <4>1, <4>3 DEF WriteError
        <5>2. (at' = "rename" /\ failure' = failure) \/ (at' = "discard" /\ failure' = failure \cup {"close"})
          BY <1>1, <3>3, <4>3 DEF CloseWriter, Commits, Pass
        <5> QED BY <2>2, <3>1, <4>1, <4>3, <5>1, <5>2, <3>0 DEF Closed
      <4> QED BY <4>2, <4>3
    <3> QED BY <3>2, <3>3
  <2>6. InPlace'
    BY <1>1 DEF CloseWriter, AfterClose, Commits, Pass, InPlace
  <2> QED BY <2>1, <2>4, <2>5, <2>6
<1>2. CASE Rename
  <2>1. OwnTypes' /\ Placed' /\ Ran' /\ Failing' /\ Reported'
    <3>1. /\ at = "rename" /\ UNCHANGED <<options, count, printed, writer, agents>>
          /\ failure' \in {failure, failure \cup {"close"}, failure \cup {"discard"}}
          /\ at' \in {"rename", "discard"} \/ at' = IF command = "review" THEN "usage" ELSE "over"
      BY <1>2 DEF Rename, AfterClose
    <3>2. OwnTypes'
      BY <1>2, <3>1 DEF Rename, OwnTypes
    <3>3. Placed' /\ Failing'
      BY <3>1 DEF Placed, Failing, Failed
    <3>4. Ran'
      BY <3>1 DEF Ran, InPlace
    <3>5. Reported'
      BY <3>1, <3>3 DEF Reported, Ran, InPlace
    <3> QED BY <3>2, <3>3, <3>4, <3>5
  <2>2. Open' /\ Closed' /\ InPlace'
    BY <1>2 DEF Rename, AfterClose, Open, Closed, InPlace, WriteError, Size
  <2> QED BY <2>1, <2>2
<1>3. CASE CleanupOutputTemp
  <2>1. OwnTypes' /\ Placed' /\ Ran' /\ Failing' /\ Reported'
    <3>1. /\ at = "discard" /\ UNCHANGED <<options, count, printed, writer, agents>>
          /\ failure' \in {failure, failure \cup {"close"}, failure \cup {"discard"}}
          /\ at' \in {"rename", "discard"} \/ at' = IF command = "review" THEN "usage" ELSE "over"
      BY <1>3 DEF CleanupOutputTemp, AfterClose
    <3>2. OwnTypes'
      BY <1>3, <3>1 DEF CleanupOutputTemp, OwnTypes
    <3>3. Placed' /\ Failing'
      BY <3>1 DEF Placed, Failing, Failed
    <3>4. Ran'
      BY <3>1 DEF Ran, InPlace
    <3>5. Reported'
      BY <3>1, <3>3 DEF Reported, Ran, InPlace
    <3> QED BY <3>2, <3>3, <3>4, <3>5
  <2>2. Open' /\ Closed' /\ InPlace'
    BY <1>3 DEF CleanupOutputTemp, AfterClose, Open, Closed, InPlace, WriteError, Size
  <2> QED BY <2>1, <2>2
<1> QED BY <1>1, <1>2, <1>3 DEF Publish

(* The servers are asked to close once the report is in place.               *)
LEMMA ServerSteps ==
  ASSUME CInv, UNCHANGED vars, command = "cleanup", CloseAll \/ LeaveCloseAll
  PROVE  CInv'
<1> USE DEF CInv, vars, files, agents, Early, Places, HasManifest, Emits, Lost, Exit
<1>1. CASE CloseAll
  <2>1. servers' \in [DOMAIN Tools -> {"off", "open", "closing"}]
        /\ (session = "none" => \A s \in DOMAIN servers' : servers'[s] = "off")
    BY <1>1 DEF CloseAll, OwnTypes, Ran
  <2>2. at = "return" /\ at' = "closing" /\ UNCHANGED <<options, files, registry, offered, session, result, reports, failure>>
    BY <1>1 DEF CloseAll
  <2>3. OwnTypes' /\ Placed' /\ Ran' /\ Failing' /\ Reported'
    BY <2>1, <2>2 DEF OwnTypes, Placed, Ran, Failing, Reported, Failed
  <2>4. Open' /\ Closed' /\ InPlace'
    BY <2>2 DEF Open, Closed, InPlace, Amount, Given, WriteError, Size
  <2> QED BY <2>3, <2>4
<1>2. CASE LeaveCloseAll
  <2>1. OwnTypes' /\ Placed' /\ Ran' /\ Failing' /\ Reported'
    BY <1>2 DEF LeaveCloseAll, OwnTypes, Placed, Ran, Failing, Reported, Failed
  <2>2. Open' /\ Closed' /\ InPlace'
    BY <1>2 DEF LeaveCloseAll, Open, Closed, InPlace, Amount, Given, WriteError, Size
  <2> QED BY <2>1, <2>2
<1> QED BY <1>1, <1>2

(* A step of the handler, or from one phase of the command to the next.      *)
LEMMA PhaseSteps ==
  ASSUME CInv, ProceedStep \/ SignalStep \/ UNCHANGED <<vars, ownVars>>
  PROVE  CInv'
<1> USE DEF CInv, vars, ownVars, Early, Places, HasManifest, Emits, Lost, Exit
<1>1. UNCHANGED ownVars
  BY DEF ProceedStep, SignalStep
<1>2. \/ command' = command /\ (process' = process \/ process' # "exited")
      \/ command = "review" /\ at = "return" /\ command' = "cleanup" /\ process' = process /\ process = "alive"
      \/ command = "cleanup" /\ at = "over" /\ command' = "stop" /\ process' = process /\ process = "alive"
      \/ command = "stop" /\ command' = "gone" /\ process' = process
      \/ command = "gone" /\ command' = "gone"
  <2>1. CASE ProceedStep
    BY <2>1 DEF ProceedStep, Proceed, Alive
  <2>2. CASE Signal \/ EndParent
    BY <2>2 DEF Signal, EndParent
  <2>3. CASE Watcher
    BY <2>3 DEF Watcher, Wait, FirstSignal, Second, Check, ForceExit
  <2>4. CASE Stop
    BY <2>4 DEF Stop, StopBody, EnterStop, LeaveStop, Calling
  <2> QED BY <2>1, <2>2, <2>3, <2>4 DEF SignalStep
<1>3. OwnTypes' /\ Placed' /\ Failing' /\ Reported'
  BY <1>1, <1>2 DEF OwnTypes, Placed, Failing, Reported, Failed
<1>4. Ran'
  BY <1>1, <1>2 DEF Ran
<1>5. Open' /\ Closed'
  BY <1>1 DEF Open, Closed, Amount, Given, WriteError, Size
<1>6. InPlace'
  BY <1>1, <1>2 DEF InPlace, Placed
<1> QED BY <1>3, <1>4, <1>5, <1>6

(* Every step of the composition, the handler's and the command's, keeps it.  *)
LEMMA CommandKeeps == CInv /\ [CommandNext]_<<vars, ownVars>> => CInv'
BY EarlySteps, StartSteps, EmitSteps, CloseSteps, ServerSteps, PhaseSteps
   DEF CommandNext, ReviewStep, CleanupStep, Execute, Deferred

(* Every place of the command is as the invariant says.                      *)
THEOREM CommandInvariant == CommandSpec => []CInv
BY CommandStarts, CommandKeeps, PTL DEF CommandSpec

(* Composition: a step of the command is a step of the handler or leaves it   *)
(* alone, so that what was shown of the handler under any command holds of    *)
(* this one.                                                                 *)
THEOREM CommandHandlesSignals == CommandSpec => [](LateSignalHarmless /\ ForcedBySecond)
<1>1. CommandInit => Init
  BY DEF CommandInit
<1>2. [CommandNext]_<<vars, ownVars>> => [Next]_vars
  BY DEF CommandNext, ReviewStep, CleanupStep, ProceedStep, SignalStep, Next, vars
<1>3. IInv => LateSignalHarmless /\ ForcedBySecond
  BY DEF IInv
<1> QED BY <1>1, <1>2, <1>3, Start, KeepsInv, PTL DEF CommandSpec

(* Of a command that exited: a report that was to be written was delivered    *)
(* unless its error says otherwise, or it lost text on standard output.       *)
LEMMA ExitedFacts ==
  ASSUME CInv, Exited
  PROVE  /\ Emits /\ failure \cap {"emit", "close"} = {} => Delivered \/ LostText
         /\ Delivered => Emits /\ failure \cap {"emit", "close"} = {}
         /\ Emits /\ ~Lost /\ "close" \notin failure => Delivered
         /\ Emits /\ Lost => "emit" \in failure \/ LostText
<1>1. at = "over" /\ command = "gone" /\ writer.closed
  BY DEF CInv, Placed, Exited, Open
<1>2. /\ "emit" \in failure <=> Emits /\ WriteError
      /\ Emits /\ options.file => target = IF failure \cap {"emit", "close"} = {} THEN Upto(Size) ELSE Earlier
      /\ Emits /\ ~options.file => /\ "close" \notin failure /\ (~writer.broken => printed = Upto(Size))
                                   /\ WriteError => printed = <<>>
      /\ ~Emits => printed = <<>> /\ target = Earlier /\ failure \cap {"emit", "close"} = {}
  BY <1>1 DEF CInv, Closed
<1>3. Whole = Upto(Size) /\ Whole # Earlier /\ Whole # <<>>
  <2>1. Whole = Upto(Size) /\ Size \in Nat \ {0}
    BY WholeFacts DEF CInv, OwnTypes
  <2> QED BY <2>1, UptoFacts
<1>4. CASE options.file
  BY <1>2, <1>3, <1>4 DEF Delivered, WriteError, Lost
<1>5. CASE ~options.file
  <2>1. writer.ready = "no"
    BY <1>5 DEF CInv, OwnTypes
  <2> QED BY <1>2, <1>3, <1>5, <2>1 DEF Delivered, LostText, WriteError, Lost
<1> QED BY <1>4, <1>5

(* What the command leaves is what its exit status says: --output names the   *)
(* earlier file or a whole report; exit 0 has published it, but for text that *)
(* standard output lost; what was refused left nothing; and the retry report  *)
(* had one exit, but for SARIF, which has no place for it.                    *)
THEOREM CommandReportsHonestly ==
  CommandSpec => [](TargetWhole /\ ExitTells /\ RefusedLeavesNothing /\ ReportedOnce /\ CommittedFirst)
<1>1. CInv => TargetWhole
  BY WholeFacts DEF CInv, OwnTypes, Placed, Open, Closed, TargetWhole, Exited, Early
<1>2. CInv => ExitTells
  <2> SUFFICES ASSUME CInv, Exited PROVE ExitTells
    BY DEF ExitTells
  <2>1. at = "over" /\ command = "gone"
    BY DEF CInv, Placed, Exited
  <2>2. /\ Failed => "review" \in failure
        /\ session \in {"none", "ended", "lost"} /\ (session = "lost" => result.error)
        /\ session # "none" /\ ~HasManifest => result.error
    BY <2>1 DEF CInv, OwnTypes, Ran, Failing, Early
  <2>3. failure = {} => Emits /\ ~Failed /\ session \in {"none", "ended"}
    BY <2>2 DEF Emits, Failed
  <2> QED BY <2>3, ExitedFacts DEF ExitTells, Emits, HasManifest
<1>3. CInv => RefusedLeavesNothing
  BY DEF CInv, Placed, Ran, Open, Closed, Emits, HasManifest, RefusedLeavesNothing, Exited, Early
<1>4. CInv => ReportedOnce
  <2>1. ASSUME CInv PROVE Len(reports) <= 1
    <3>1. reports \in {<<>>, <<"result">>, <<"failure">>, <<"lost">>}
      BY <2>1 DEF CInv, Reported, Exit
    <3> QED BY <3>1
  <2>2. ASSUME CInv, Exited, session # "none"
        PROVE  /\ reports # <<>> \/ (options.format = "sarif" /\ HasManifest)
               /\ reports = <<"result">> => HasManifest /\ ~Lost
               /\ reports = <<"lost">> => (HasManifest /\ Lost) \/ result.error
    <3>1. at = "over" /\ command = "gone" /\ (~HasManifest => result.error)
      BY <2>2 DEF CInv, Placed, Exited, Ran, Early
    <3>2. reports \in Exit
      BY <2>2, <3>1 DEF CInv, Reported, Early
    <3>3. <<"failure">> # <<"lost">> /\ <<"failure">> # <<"result">> /\ <<"lost">> # <<"result">>
      <4>1. <<"failure">>[1] = "failure" /\ <<"lost">>[1] = "lost" /\ <<"result">>[1] = "result"
        OBVIOUS
      <4> QED BY <4>1
    <3> QED BY <3>1, <3>2, <3>3 DEF Exit
  <2>3. ASSUME CInv, Exited, session # "none", result.error PROVE failure # {}
    BY <2>3 DEF CInv, Placed, Failing, Failed, Exited
  <2>4. ASSUME CInv, session = "none" PROVE reports = <<>>
    BY <2>4 DEF CInv, Reported
  <2>5. HasManifest => Emits
    BY DEF Emits
  <2> QED BY <2>1, <2>2, <2>3, <2>4, <2>5, ExitedFacts DEF ReportedOnce, HasManifest
<1>5. CInv => CommittedFirst
  BY WholeFacts DEF CInv, OwnTypes, Placed, Ran, Open, Closed, InPlace, Emits, HasManifest, CommittedFirst, Closing, Early, Places
<1> QED BY <1>1, <1>2, <1>3, <1>4, <1>5, CommandInvariant, PTL

(* While the servers are started and the review runs, a registered tool is    *)
(* one that its server, which is open, publishes and may offer, and that no   *)
(* built-in tool is named like.                                              *)
Serves(n) ==
  LET s == registry[n] IN
  /\ s \in DOMAIN Tools /\ (\E i \in DOMAIN Servers : s = Servers[i]) /\ servers[s] = "open" /\ n \notin Reserved
  /\ n \in ToSet(Tools[s]) /\ (Allowed[s] # {} => n \in Allowed[s])
Served ==
  /\ at \in Early \ {"servers", "run"} => DOMAIN registry = {}
  /\ at \in {"servers", "run"} => \A n \in DOMAIN registry : Serves(n)

(* A server that is connected adds names that are free and leaves the others  *)
(* to the servers that came before it.                                       *)
LEMMA RegisteredFacts ==
  ASSUME NEW s \in DOMAIN Tools
  PROVE  LET reg == Registered(registry, s) IN
         /\ DOMAIN registry \subseteq DOMAIN reg
         /\ \A n \in DOMAIN registry : reg[n] = registry[n]
         /\ \A n \in DOMAIN reg \ DOMAIN registry :
              reg[n] = s /\ n \in ToSet(Tools[s]) /\ n \notin Reserved /\ (Allowed[s] # {} => n \in Allowed[s])
BY DEF Registered

(* A step of the command keeps the registry as its servers have it.           *)
LEMMA ServedKept == CInv /\ Served /\ [CommandNext]_<<vars, ownVars>> => Served'
<1> SUFFICES ASSUME CInv, Served, [CommandNext]_<<vars, ownVars>> PROVE Served'
  OBVIOUS
<1>1. ASSUME NEW i \in DOMAIN Servers, InitMCPClient(i) PROVE Served'
  <2>1. at = "servers" /\ at' = "servers"
    BY <1>1 DEF InitMCPClient
  <2>2. CASE UNCHANGED <<servers, registry>>
    BY <2>1, <2>2 DEF Served, Serves, Early
  <2>3. CASE Connect(Servers[i])
    <3>1. Servers[i] \in DOMAIN Tools
      BY ServersAssumption
    <3>2. servers \in [DOMAIN Tools -> {"off", "open", "closing"}]
      BY DEF CInv, OwnTypes
    <3>3. servers'[Servers[i]] = "open" /\ \A s \in DOMAIN Tools : servers[s] = "open" => servers'[s] = "open"
      BY <2>3, <3>1, <3>2 DEF Connect
    <3>4. ASSUME NEW n \in DOMAIN registry' PROVE Serves(n)'
      <4>1. registry' = Registered(registry, Servers[i])
        BY <2>3 DEF Connect
      <4>2. CASE n \in DOMAIN registry
        BY <2>1, <3>1, <3>3, <4>1, <4>2, RegisteredFacts DEF Served, Serves
      <4>3. CASE n \notin DOMAIN registry
        BY <3>1, <3>3, <3>4, <4>1, <4>3, RegisteredFacts DEF Serves
      <4> QED BY <4>2, <4>3
    <3> QED BY <2>1, <3>4 DEF Served, Early
  <2> QED BY <1>1, <2>2, <2>3 DEF InitMCPClient
<1>2. CASE UNCHANGED <<servers, registry>> /\ (at' \in Early => at \in Early /\ at # "run" /\ (at = "servers" => at' = "run"))
  BY <1>2 DEF Served, Serves, Early
<1>3. CASE UNCHANGED <<at, servers, registry>>
  BY <1>3 DEF Served, Serves
<1>4. CASE at' \notin Early
  BY <1>4 DEF Served, Early
<1>5. CASE ResolveOutputWriter \/ LoadCommonContext \/ RunPreviewContext \/ LoadReviewResumeState \/ LoadLLMRuntime \/ ValidateResumeIdentity
  BY <1>2, <1>4, <1>5 DEF ResolveOutputWriter, LoadCommonContext, RunPreviewContext, LoadReviewResumeState, LoadLLMRuntime,
     ValidateResumeIdentity, Pass, Refuse, agents, Early
<1>6. CASE NewAgent
  BY <1>2, <1>6 DEF NewAgent, Early
<1>7. CASE Run \/ EmitRunResult \/ Emitted \/ Return
  BY <1>4, <1>7 DEF Run, EmitRunResult, Emitted, Return, Early
<1>8. CASE Publish \/ CloseAll \/ LeaveCloseAll
  BY <1>4, <1>8 DEF Publish, CloseWriter, Rename, CleanupOutputTemp, CloseAll, LeaveCloseAll, Pass, AfterClose, Early
<1>9. CASE UNCHANGED ownVars
  BY <1>3, <1>9 DEF ownVars
<1> QED BY <1>1, <1>5, <1>6, <1>7, <1>8, <1>9
     DEF CommandNext, ReviewStep, CleanupStep, ProceedStep, SignalStep, Execute, Deferred

(* While the review runs every tool that the MCP servers registered is served *)
(* by one that is open, that publishes it and may offer it, and none hides a  *)
(* built-in tool.                                                            *)
THEOREM RegisteredAreServed == CommandSpec => [](at = "run" => \A n \in DOMAIN registry : Serves(n))
<1>1. CommandInit => Served
  BY DEF CommandInit, Served, Early
<1>2. Served => (at = "run" => \A n \in DOMAIN registry : Serves(n))
  BY DEF Served
<1> QED BY <1>1, <1>2, ServedKept, CommandInvariant, PTL DEF CommandSpec

(* The model is told, while the review runs, of what was collected when it    *)
(* began: no server is connected or closed meanwhile.                         *)
Collected == at = "run" => offered = CollectToolDefs

(* A step of the command leaves what the model was told as it was collected.  *)
LEMMA CollectedKept == CInv /\ Collected /\ [CommandNext]_<<vars, ownVars>> => Collected'
<1> SUFFICES ASSUME CInv, Collected, [CommandNext]_<<vars, ownVars>> PROVE Collected'
  OBVIOUS
<1>1. CASE UNCHANGED <<at, servers, registry, offered>>
  BY <1>1 DEF Collected, CollectToolDefs
<1>2. CASE NewAgent
  BY <1>2 DEF NewAgent, Collected, CollectToolDefs
<1>3. CASE at' # "run"
  BY <1>3 DEF Collected
<1>4. ASSUME NEW i \in DOMAIN Servers, InitMCPClient(i) PROVE Collected'
  BY <1>3, <1>4 DEF InitMCPClient
<1>5. CASE ResolveOutputWriter \/ LoadCommonContext \/ RunPreviewContext \/ LoadReviewResumeState \/ LoadLLMRuntime \/ ValidateResumeIdentity
  BY <1>3, <1>5 DEF ResolveOutputWriter, LoadCommonContext, RunPreviewContext, LoadReviewResumeState, LoadLLMRuntime,
     ValidateResumeIdentity, Pass, Refuse
<1>6. CASE Run \/ EmitRunResult \/ Emitted \/ Return
  BY <1>3, <1>6 DEF Run, EmitRunResult, Emitted, Return
<1>7. CASE Publish \/ CloseAll \/ LeaveCloseAll
  BY <1>3, <1>7 DEF Publish, CloseWriter, Rename, CleanupOutputTemp, CloseAll, LeaveCloseAll, Pass, AfterClose
<1>8. CASE UNCHANGED ownVars
  BY <1>1, <1>8 DEF ownVars
<1> QED BY <1>2, <1>4, <1>5, <1>6, <1>7, <1>8
     DEF CommandNext, ReviewStep, CleanupStep, ProceedStep, SignalStep, Execute, Deferred

(* A relation that orders the natural numbers as < does, and has no infinite  *)
(* descent.                                                                  *)
LEMMA Descending == \E R : IsWellFoundedOn(R, Nat) /\ \A x, y \in Nat : x < y => <<x, y>> \in R
<1>1. \A x, y \in Nat : x < y => <<x, y>> \in OpToRel(<, Nat)
  BY Zenon DEF OpToRel
<1> QED BY <1>1, NatLessThanWellFounded, Zenon

(* WFMin, of the natural numbers.                                            *)
LEMMA Minimal ==
  ASSUME NEW R, NEW T, IsWellFoundedOn(R, Nat), T \subseteq Nat, T # {}
  PROVE  \E x \in T : \A y \in T : ~(<<y, x>> \in R)
BY WFMin, Zenon

(* A set of numbers that is not empty has a least one.                       *)
LEMMA Least == ASSUME NEW T, T \subseteq Nat, T # {} PROVE \E x \in T : \A y \in T : ~(y < x)
<1>1. PICK R : IsWellFoundedOn(R, Nat) /\ \A x, y \in Nat : x < y => <<x, y>> \in R
  BY Descending
<1>2. PICK x \in T : \A y \in T : ~(<<y, x>> \in R)
  BY <1>1, Minimal
<1>3. \A y \in T : ~(y < x)
  BY <1>1, <1>2
<1> QED BY <1>3

(* Of offers one comes before all others.                                    *)
LEMMA FirstOffer ==
  ASSUME NEW T, T \subseteq Nat \X Nat, T # {}
  PROVE  \E b \in T : \A a \in T : ~Before(a, b)
<1>1. PICK i \in {a[1] : a \in T} : \A j \in {a[1] : a \in T} : ~(j < i)
  <2>1. {a[1] : a \in T} \subseteq Nat /\ {a[1] : a \in T} # {}
    OBVIOUS
  <2> QED BY <2>1, Least
<1> DEFINE Row == {a \in T : a[1] = i}
<1>2. PICK k \in {a[2] : a \in Row} : \A l \in {a[2] : a \in Row} : ~(l < k)
  <2>1. {a[2] : a \in Row} \subseteq Nat /\ {a[2] : a \in Row} # {}
    OBVIOUS
  <2> QED BY <2>1, Least
<1>3. PICK b \in Row : b[2] = k
  OBVIOUS
<1>4. ASSUME NEW a \in T PROVE ~Before(a, b)
  <2>1. ~(a[1] < b[1])
    BY <1>1, <1>3
  <2>2. a[1] = b[1] => ~(a[2] < b[2])
    BY <1>2, <1>3
  <2> QED BY <2>1, <2>2 DEF Before
<1> QED BY <1>4

(* Of what the servers publish each registered name is offered, and once.    *)
LEMMA OffersTell ==
  ASSUME \A n \in DOMAIN registry : Serves(n)
  PROVE  /\ {NameOf(a) : a \in CollectToolDefs} = DOMAIN registry
         /\ \A a, b \in CollectToolDefs : NameOf(a) = NameOf(b) => a = b
<1> DEFINE opened == {i \in DOMAIN Servers : servers[Servers[i]] = "open"}
           published == UNION {{i} \X DOMAIN Tools[Servers[i]] : i \in opened}
           kept == {a \in published : NameOf(a) \notin Reserved /\ NameOf(a) \in DOMAIN registry}
<1>1. CollectToolDefs = {b \in kept : \A a \in kept : NameOf(a) = NameOf(b) => ~Before(a, b)}
  BY DEF CollectToolDefs
<1>2. DOMAIN Servers \subseteq Nat
  BY ServersAssumption
<1>3. \A i \in DOMAIN Servers : DOMAIN Tools[Servers[i]] \subseteq Nat
  <2> SUFFICES ASSUME NEW i \in DOMAIN Servers PROVE DOMAIN Tools[Servers[i]] \subseteq Nat
    OBVIOUS
  <2>1. Servers[i] \in DOMAIN Tools
    BY ServersAssumption
  <2> DEFINE S == ToSet(Tools[Servers[i]])
  <2>2. Tools[Servers[i]] \in Seq(S)
    BY <2>1, ServersAssumption
  <2> HIDE DEF S
  <2> QED BY <2>2
<1>4. kept \subseteq Nat \X Nat
  BY <1>2, <1>3
<1>5. ASSUME NEW n \in DOMAIN registry PROVE \E b \in CollectToolDefs : NameOf(b) = n
  <2>1. PICK i \in DOMAIN Servers : registry[n] = Servers[i]
    BY DEF Serves
  <2>2. servers[Servers[i]] = "open" /\ n \notin Reserved /\ n \in ToSet(Tools[Servers[i]])
    BY <2>1 DEF Serves
  <2>3. PICK k \in DOMAIN Tools[Servers[i]] : n = Tools[Servers[i]][k]
    BY <2>2 DEF ToSet
  <2> DEFINE same == {a \in kept : NameOf(a) = n}
  <2>4. NameOf(<<i, k>>) = n
    BY <2>3 DEF NameOf
  <2>5. <<i, k>> \in published
    BY <2>2
  <2>6. <<i, k>> \in same
    BY <2>2, <2>4, <2>5
  <2>7. same \subseteq Nat \X Nat /\ same # {}
    BY <1>4, <2>6
  <2> HIDE DEF same
  <2>8. PICK b \in same : \A a \in same : ~Before(a, b)
    BY <2>7, FirstOffer
  <2> USE DEF same
  <2>9. b \in kept /\ NameOf(b) = n /\ \A a \in kept : NameOf(a) = NameOf(b) => ~Before(a, b)
    BY <2>8
  <2> HIDE DEF kept
  <2> QED BY <1>1, <2>9
<1>6. \A a \in CollectToolDefs : NameOf(a) \in DOMAIN registry
  BY <1>1
<1>7. ASSUME NEW a \in CollectToolDefs, NEW b \in CollectToolDefs, NameOf(a) = NameOf(b) PROVE a = b
  <2>1. a \in kept /\ b \in kept /\ ~Before(a, b) /\ ~Before(b, a)
    <3> HIDE DEF kept
    <3> QED BY <1>1, <1>7
  <2>2. a \in Nat \X Nat /\ b \in Nat \X Nat
    BY <1>4, <2>1
  <2>3. a[1] = b[1] /\ a[2] = b[2]
    BY <2>1, <2>2 DEF Before
  <2> QED BY <2>2, <2>3
<1> QED BY <1>5, <1>6, <1>7

(* What the command leaves is what its exit status says, and while the review *)
(* runs the model is told of the tools that the open servers serve, of each   *)
(* once; for any servers, tools and signals.                                 *)
THEOREM CommandIsHonest == CommandSpec => []CommandHonest
<1>1. CommandInit => Served /\ Collected
  BY DEF CommandInit, Served, Collected, Early
<1>2. Served /\ Collected => ToolsServed
  BY OffersTell DEF Served, Serves, Collected, ToolsServed
<1> QED BY <1>1, <1>2, ServedKept, CollectedKept, CommandInvariant, CommandReportsHonestly, PTL DEF CommandSpec, CommandHonest
=============================================================================
