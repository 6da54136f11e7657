----------------------------- MODULE Interrupt -----------------------------
(***************************************************************************)
(* Signals of a review (cmd/opencodereview/interrupt.go).  The first one   *)
(* cancels the review's context, so that the command's deferred cleanup    *)
(* runs; a second one ends the process at once.  A watcher goroutine reads *)
(* the signals from a buffered channel until the command calls stop.       *)
(*                                                                         *)
(* The critical sections under mu are steps of one action each.            *)
(***************************************************************************)
EXTENDS Naturals, Sequences

CONSTANT MaxSignals  \* signals sent; a bound

ASSUME SignalAssumption == MaxSignals \in Nat

VARIABLES
  sent,       \* signals sent so far
  channel,    \* ch: for each signal whether it was queued after stopped was set
  registered, \* signal.Notify, undone by signal.Stop
  cancelled,  \* the review's context is done
  parentDone, \* the parent context is done
  stopped,    \* stopped, and done is closed
  watcher,    \* "wait", "cancel", "second", "check", "force", "stop" or "gone"
  held,       \* the signal the watcher received last
  command,    \* "review", "cleanup", "stop", or "gone" once stop has returned
  stopper,    \* who runs the body of once.Do: "none", "watcher", "command"
  stage,      \* its next step: "lock", "unregister", "cancel", "over"
  process     \* "alive", "exited", "forced" (exit 1), "killed" (by default handling)

vars == <<sent, channel, registered, cancelled, parentDone, stopped, watcher, held, command,
          stopper, stage, process>>

(* Mutated: room for one signal. *)
BufferOne == 1

Buffer == 2

Init ==
  /\ sent = 0 /\ channel = <<>> /\ registered = TRUE /\ cancelled = FALSE /\ parentDone = FALSE
  /\ stopped = FALSE /\ watcher = "wait" /\ held = FALSE /\ command = "review"
  /\ stopper = "none" /\ stage = "lock" /\ process = "alive"

Alive == process = "alive"

(* A signal: queued when there is room, dropped when there is not, and fatal *)
(* when the channel is no longer registered.                                 *)
Signal ==
  /\ Alive /\ sent < MaxSignals /\ sent' = sent + 1
  /\ IF ~registered
       THEN process' = "killed" /\ UNCHANGED <<channel>>
       ELSE /\ UNCHANGED process
            /\ channel' = IF Len(channel) < Buffer THEN Append(channel, stopped) ELSE channel
  /\ UNCHANGED <<registered, cancelled, parentDone, stopped, watcher, held, command, stopper, stage>>

EndParent ==
  /\ Alive /\ ~parentDone /\ parentDone' = TRUE /\ cancelled' = TRUE
  /\ UNCHANGED <<sent, channel, registered, stopped, watcher, held, command, stopper, stage, process>>

-----------------------------------------------------------------------------
(* The watcher. *)

Receive == channel # <<>> /\ held' = Head(channel) /\ channel' = Tail(channel)

(* Where the watcher goes on the first signal. *)
OnFirst == "cancel"

(* The first select: a signal, the end of the context, or stop. *)
Wait ==
  /\ Alive /\ watcher = "wait"
  /\ \/ Receive /\ watcher' = OnFirst
     \/ (cancelled \/ stopped) /\ watcher' = "stop" /\ UNCHANGED <<channel, held>>
  /\ UNCHANGED <<sent, registered, cancelled, parentDone, stopped, command, stopper, stage, process>>

FirstSignal ==
  /\ Alive /\ watcher = "cancel" /\ watcher' = "second" /\ cancelled' = TRUE
  /\ UNCHANGED <<sent, channel, registered, parentDone, stopped, held, command, stopper, stage,
                 process>>

(* The second select: another signal, or stop. *)
Second ==
  /\ Alive /\ watcher = "second"
  /\ \/ Receive /\ watcher' = "check"
     \/ stopped /\ watcher' = "stop" /\ UNCHANGED <<channel, held>>
  /\ UNCHANGED <<sent, registered, cancelled, parentDone, stopped, command, stopper, stage, process>>

(* Mutated: whether the run is stopping is not looked at. *)
MayForceAlways == TRUE

MayForce == ~stopped

(* Under mu. *)
Check ==
  /\ Alive /\ watcher = "check" /\ watcher' = IF MayForce THEN "force" ELSE "stop"
  /\ UNCHANGED <<sent, channel, registered, cancelled, parentDone, stopped, held, command, stopper,
                 stage, process>>

ForceExit ==
  /\ Alive /\ watcher = "force" /\ process' = "forced"
  /\ UNCHANGED <<sent, channel, registered, cancelled, parentDone, stopped, watcher, held, command,
                 stopper, stage>>

-----------------------------------------------------------------------------
(* stop: once.Do runs the body for its first caller; the other one waits. *)

Calling(who) == IF who = "watcher" THEN watcher = "stop" ELSE command = "stop"

EnterStop(who) ==
  /\ Alive /\ Calling(who) /\ stopper = "none" /\ stopper' = who
  /\ UNCHANGED <<sent, channel, registered, cancelled, parentDone, stopped, watcher, held, command,
                 stage, process>>

(* What stopped and done are once the critical section of stop is over. *)
AfterStop == TRUE

StopBody ==
  /\ Alive /\ stopper # "none"
  /\ \/ stage = "lock" /\ stopped' = AfterStop /\ stage' = "unregister" /\ UNCHANGED <<registered, cancelled>>
     \/ stage = "unregister" /\ registered' = FALSE /\ stage' = "cancel" /\ UNCHANGED <<stopped, cancelled>>
     \/ stage = "cancel" /\ cancelled' = TRUE /\ stage' = "over" /\ UNCHANGED <<stopped, registered>>
  /\ UNCHANGED <<sent, channel, parentDone, watcher, held, command, stopper, process>>

LeaveStop(who) ==
  /\ Alive /\ Calling(who) /\ stage = "over"
  /\ IF who = "watcher" THEN watcher' = "gone" /\ UNCHANGED command ELSE command' = "gone" /\ UNCHANGED watcher
  /\ UNCHANGED <<sent, channel, registered, cancelled, parentDone, stopped, held, stopper, stage,
                 process>>

-----------------------------------------------------------------------------
(* The command: the review returns, by itself or because its context is done; *)
(* its cleanup runs; then stop, then the process exits.                       *)
Proceed ==
  /\ Alive
  /\ \/ command = "review" /\ command' = "cleanup" /\ UNCHANGED process
     \/ command = "cleanup" /\ command' = "stop" /\ UNCHANGED process
     \/ command = "gone" /\ process' = "exited" /\ UNCHANGED command
  /\ UNCHANGED <<sent, channel, registered, cancelled, parentDone, stopped, watcher, held, stopper,
                 stage>>

Watcher == Wait \/ FirstSignal \/ Second \/ Check \/ ForceExit
Stop == StopBody \/ \E who \in {"watcher", "command"} : EnterStop(who) \/ LeaveStop(who)
Next == Signal \/ EndParent \/ Watcher \/ Stop \/ Proceed

(* Goroutines are scheduled; nothing is assumed of signals, of the review or of *)
(* its cleanup, which may hang.                                                 *)
Spec ==
  /\ Init /\ [][Next]_vars
  /\ WF_vars(Watcher) /\ WF_vars(StopBody)
  /\ \A who \in {"watcher", "command"} : WF_vars(EnterStop(who)) /\ WF_vars(LeaveStop(who))

-----------------------------------------------------------------------------
(* The types of the handler. *)
TypeOK ==
  /\ sent \in 0..MaxSignals /\ channel \in Seq(BOOLEAN) /\ Len(channel) <= 2
  /\ registered \in BOOLEAN /\ cancelled \in BOOLEAN /\ parentDone \in BOOLEAN
  /\ stopped \in BOOLEAN /\ held \in BOOLEAN
  /\ watcher \in {"wait", "cancel", "second", "check", "force", "stop", "gone"}
  /\ command \in {"review", "cleanup", "stop", "gone"}
  /\ stopper \in {"none", "watcher", "command"} /\ stage \in {"lock", "unregister", "cancel", "over"}
  /\ process \in {"alive", "exited", "forced", "killed"}

(* "A signal queued while stop() was running must not turn an already          *)
(* successful run into exit 1": a forced exit is for a signal that was queued  *)
(* before the stop took effect.                                                *)
LateSignalHarmless == process = "forced" => ~held

(* A second signal is not swallowed: with two of them sent to a watcher that   *)
(* listens, the process ends or stop takes effect, however long the cleanup    *)
(* that the first one started would take.                                      *)
SecondSignalForces ==
  (sent >= 2 /\ ~parentDone) ~> (~Alive \/ stopped \/ parentDone)

(* Once the command calls stop, stop returns and the watcher is released, who- *)
(* ever of the two came first: neither waits for the other for ever.           *)
StopReleases == (command = "stop") ~> (~Alive \/ (command = "gone" /\ watcher = "gone"))

(* Neither a second signal nor the end of the command waits for ever.          *)
SignalsAnswered == SecondSignalForces /\ StopReleases
=============================================================================
