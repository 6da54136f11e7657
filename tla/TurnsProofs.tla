----------------------------- MODULE TurnsProofs -----------------------------
(***************************************************************************)
(* The safety of the editor adapter for any sessions, prompts and callers.  *)
(* The record of a turn and that of its process tell, place by place, what  *)
(* was started and why it was stopped (Told); a turn under way is the one   *)
(* its session has (TurnHeld), so that whoever closes it sees it; and what  *)
(* is pending is of the current era unless a stopped turn will clear it.    *)
(***************************************************************************)
EXTENDS Turns, TLAPS

(* Where a call is: before its run, in it, after it. *)
Before == {"parse", "merge", "understood", "not understood", "tell", "announce", "prestart", "start"}
Running == {"await", "grace", "killed", "drain", "conclude"}
After == {"collect", "report", "deliver", "end"}

Place == {"new", "answered"} \cup Before \cup Running \cup After
Contexts == {"live", "cancelled", "expired"}
Causes == {"", "timed_out", "cancelled"}
Errs == {"kill", "exit", "drain"}
Outcomes == Causes \cup {"completed", "failed"}
Answers == {"", "refused", "panic", "timeout", "cancelled", "error", "end_turn"}

Session == [is : {"none", "open", "deleted"}, closing : BOOLEAN, pending : Nat, era : Nat \ {0}, turn : Prompts \cup {NoTurn}]
Call == [at : Place, session : SUBSET Sessions,
         ctx : Contexts, late : BOOLEAN, stopped : BOOLEAN, unsent : BOOLEAN,
         era : Nat, seen : Nat, ran : BOOLEAN, cause : Causes, errs : SUBSET Errs,
         outcome : Outcomes, answer : Answers]
Child == [leader : {"none", "up", "gone"}, kin : {"none", "group", "stray"}, cut : BOOLEAN]

TypeOK ==
  /\ sessions \in [Sessions -> Session]
  /\ closed \in BOOLEAN
  /\ prompt \in [Prompts -> Call]
  /\ child \in [Prompts -> Child]
  /\ closer \in [Closers -> [at : {"new", "waiting", "ok", "given up"}, session : SUBSET Sessions, on : SUBSET Prompts]]
  /\ shutdown \in [at : {"none", "waiting", "ok", "late"}, on : SUBSET Prompts]

(* What is known of the process of a call and of what was seen of its end, place *)
(* by place: see NothingBehind.                                                  *)
ChildTold(it, ch) ==
  /\ it.at \in Before \cup {"new", "answered"} => ch.leader = "none" /\ ch.kin = "none"
  /\ it.at \in {"drain", "conclude"} \cup After /\ ch.leader = "up" => "kill" \in it.errs \/ "exit" \in it.errs
  /\ ch.kin = "group" /\ (it.at \in {"killed"} \cup After \/ (it.at \in {"drain", "conclude"} /\ it.cause # ""))
       => "kill" \in it.errs

(* What is known of its cause, outcome and answer: see FirstCauseStands. *)
CauseTold(it, ch) ==
  /\ it.at \in Before => it.cause = "" /\ ch.leader = "none"
  /\ it.at \in Before \cup Running => it.outcome = ""
  /\ it.cause = "cancelled" /\ ~it.stopped => it.ctx = "cancelled"
  /\ it.at \in After /\ it.cause # "" => it.outcome = it.cause
  /\ it.outcome = "completed" => it.errs = {}
  /\ it.at = "collect" => it.outcome # ""
  /\ it.at = "report" /\ it.outcome = "" => it.unsent
  /\ it.at = "deliver" => it.outcome \in {"completed", "failed"}
  /\ it.at = "end" =>
       /\ it.cause = "timed_out" => it.answer = "timeout"
       /\ it.cause = "cancelled" /\ ~it.stopped => it.answer = "cancelled"
       /\ it.answer = "end_turn" /\ ch.leader # "none" => it.outcome = "completed" /\ it.errs = {}

Told == \A p \in Prompts : ChildTold(prompt[p], child[p]) /\ CauseTold(prompt[p], child[p])

(* A turn under way is the latest one of its session, which is open; a turn is of *)
(* one session, and a call that was not made has nothing.                         *)
TurnHeld ==
  /\ \A p \in Prompts : InTurn(p) =>
       \E s \in Sessions : prompt[p].session = {s} /\ sessions[s].turn = p /\ sessions[s].is = "open"
  /\ \A s \in Sessions : sessions[s].turn # NoTurn => prompt[sessions[s].turn].session = {s}
  /\ \A p \in Prompts : prompt[p].at = "new" => prompt[p] = NewCall

(* A closer that waits, or has returned, sees every turn its session still has. *)
ClosersSee ==
  \A c \in Closers : closer[c].at \in {"waiting", "ok"} =>
    \E s \in Sessions :
      /\ closer[c].session = {s} /\ sessions[s].is # "none"
      /\ sessions[s].closing \/ sessions[s].is = "deleted"
      /\ \A p \in Prompts : InTurn(p) /\ prompt[p].session = {s} => closer[c].at = "waiting" /\ p \in closer[c].on

(* Shutdown sees every turn there still is. *)
ShutdownSees ==
  shutdown.at # "none" =>
    /\ closed
    /\ \A p \in Prompts : InTurn(p) => shutdown.at # "ok" /\ p \in shutdown.on

(* A pending clarification is of the current era, unless the turn that holds the *)
(* session was stopped and will clear it; a live turn is of the current era.     *)
PendingTold ==
  /\ \A s \in Sessions : sessions[s].pending # 0 =>
       sessions[s].pending = sessions[s].era \/ \E p \in Turn(s) : prompt[p].ctx # "live"
  /\ \A p \in Prompts : InTurn(p) /\ prompt[p].ctx = "live" =>
       \A s \in prompt[p].session :
         prompt[p].era = sessions[s].era /\ prompt[p].seen \in {0, sessions[s].era}

IInv == TypeOK /\ Told /\ TurnHeld /\ ClosersSee /\ ShutdownSees /\ PendingTold

(* A turn goes on from one record to the next: still under way, in its session *)
(* and era, not revived, and with this clarification in hand.                  *)
Onward(old, it, seen) ==
  /\ it.at \in Before \cup Running \cup After
  /\ it.session = old.session /\ it.era = old.era /\ it.seen = seen
  /\ it.ctx = "live" => old.ctx = "live"

Moves(p, seen) ==
  \E it \in Call, ch \in Child :
    /\ prompt' = [prompt EXCEPT ![p] = it] /\ child' = [child EXCEPT ![p] = ch]
    /\ Onward(prompt[p], it, seen) /\ ChildTold(it, ch) /\ CauseTold(it, ch)

(* What every action of a turn starts from. *)
LEMMA AtHand ==
  ASSUME TypeOK, Told, NEW p \in Prompts
  PROVE  /\ prompt[p] \in Call /\ child[p] \in Child
         /\ ChildTold(prompt[p], child[p]) /\ CauseTold(prompt[p], child[p])
         /\ child = [child EXCEPT ![p] = child[p]] /\ prompt = [prompt EXCEPT ![p] = prompt[p]]
         /\ prompt \in [Prompts -> Call] /\ child \in [Prompts -> Child]
BY DEF TypeOK, Told

(* localTermination and finishSend, by the context they look at. *)
LEMMA Termination ==
  ASSUME NEW p, prompt[p] \in Call
  PROVE  /\ LocalTermination(p) \in Causes
         /\ LocalTermination(p) = "cancelled" /\ ~prompt[p].stopped => prompt[p].ctx = "cancelled"
BY DEF LocalTermination, Call, Causes, Contexts

(* finishSend prefers what the context says over how the send went. *)
LEMMA Sent ==
  ASSUME NEW p, prompt[p] \in Call, NEW failed \in BOOLEAN, NEW said \in Answers
  PROVE  /\ FinishSend(p, failed, said) \in Answers
         /\ prompt[p].ctx = "expired" => FinishSend(p, failed, said) = "timeout"
         /\ prompt[p].ctx = "cancelled" => FinishSend(p, failed, said) = "cancelled"
         /\ failed => FinishSend(p, failed, said) \in {"timeout", "cancelled", "error"}
BY DEF FinishSend, Call, Contexts, Answers

(* Up to the run: nothing was started and no cause seen. *)
LEMMA PlainMoves ==
  ASSUME TypeOK, Told, NEW p \in Prompts, NEW where \in Before, To(p, where), UNCHANGED child,
         prompt[p].at \in Before
  PROVE  Moves(p, prompt[p].seen)
<1> DEFINE it == prompt[p] ch == child[p] new == [it EXCEPT !.at = where]
<1>1. it \in Call /\ ch \in Child /\ ChildTold(it, ch) /\ CauseTold(it, ch) /\ it.at \in Before
      /\ child' = [child EXCEPT ![p] = ch] /\ prompt' = [prompt EXCEPT ![p] = new]
  BY AtHand DEF To
<1> HIDE DEF it, ch
<1>2. new \in Call /\ Onward(it, new, it.seen)
  BY <1>1 DEF Call, Onward, Place
<1>3. ChildTold(new, ch) /\ CauseTold(new, ch)
  BY <1>1 DEF Call, ChildTold, CauseTold, Before, Running, After
<1> QED BY <1>1, <1>2, <1>3 DEF Moves, it

(* An answer before the run leaves no cause to report. *)
LEMMA EarlyAnswerMoves ==
  ASSUME TypeOK, Told, NEW p \in Prompts, NEW what \in Answers, Answer(p, what), UNCHANGED child,
         prompt[p].at \in Before
  PROVE  Moves(p, prompt[p].seen)
<1> DEFINE it == prompt[p] ch == child[p] new == [it EXCEPT !.at = "end", !.answer = what]
<1>1. it \in Call /\ ch \in Child /\ ChildTold(it, ch) /\ CauseTold(it, ch) /\ it.at \in Before
      /\ child' = [child EXCEPT ![p] = ch] /\ prompt' = [prompt EXCEPT ![p] = new]
  BY AtHand DEF Answer
<1> HIDE DEF it, ch
<1>2. new \in Call /\ Onward(it, new, it.seen)
  BY <1>1 DEF Call, Onward, Place, After
<1>3. ChildTold(new, ch) /\ CauseTold(new, ch)
  BY <1>1 DEF Call, ChildTold, CauseTold, Before, Running, After
<1> QED BY <1>1, <1>2, <1>3 DEF Moves, it

(* The clarification in hand is the pending one, or none. *)
LEMMA ReadMoves ==
  ASSUME TypeOK, Told, NEW p \in Prompts, Read(p)
  PROVE  \E s \in prompt[p].session : Moves(p, sessions[s].pending)
<1> DEFINE it == prompt[p] ch == child[p]
<1>1. it \in Call /\ ch \in Child /\ ChildTold(it, ch) /\ CauseTold(it, ch) /\ it.at = "parse"
      /\ child' = [child EXCEPT ![p] = ch]
  BY AtHand DEF Read
<1>2. PICK s \in prompt[p].session : prompt' = [prompt EXCEPT ![p].at = "merge", ![p].seen = sessions[s].pending]
  BY DEF Read
<1>3. sessions[s].pending \in Nat
  BY <1>1 DEF TypeOK, Call, Session
<1> DEFINE said == sessions[s].pending new == [it EXCEPT !.at = "merge", !.seen = said]
<1>4. prompt' = [prompt EXCEPT ![p] = new]
  BY AtHand, <1>2
<1> HIDE DEF it, ch, said
<1>5. new \in Call /\ Onward(it, new, said)
  BY <1>1, <1>3 DEF Call, Onward, Place, Before, said
<1>6. ChildTold(new, ch) /\ CauseTold(new, ch)
  BY <1>1 DEF Call, ChildTold, CauseTold, Before, Running, After
<1> QED BY <1>1, <1>2, <1>4, <1>5, <1>6 DEF Moves, it, said

(* What was read is merged with what the model answers, and let go. *)
LEMMA MergeMoves ==
  ASSUME TypeOK, Told, NEW p \in Prompts, Merge(p) PROVE Moves(p, 0)
<1> DEFINE it == prompt[p] ch == child[p]
<1>1. it \in Call /\ ch \in Child /\ ChildTold(it, ch) /\ CauseTold(it, ch) /\ it.at = "merge"
      /\ child' = [child EXCEPT ![p] = ch]
  BY AtHand DEF Merge
<1>2. PICK result \in {"intent", "clarify", "reject", "no answer"} :
        prompt' = [prompt EXCEPT ![p].at = IF result = "intent" THEN "understood" ELSE "not understood", ![p].seen = 0]
  BY DEF Merge
<1> DEFINE where == IF result = "intent" THEN "understood" ELSE "not understood"
           new == [it EXCEPT !.at = where, !.seen = 0]
<1>3. prompt' = [prompt EXCEPT ![p] = new]
  BY AtHand, <1>2
<1> HIDE DEF it, ch
<1>4. new \in Call /\ Onward(it, new, 0)
  BY <1>1 DEF Call, Onward, Place, Before
<1>5. ChildTold(new, ch) /\ CauseTold(new, ch)
  BY <1>1 DEF Call, ChildTold, CauseTold, Before, Running, After
<1> QED BY <1>1, <1>3, <1>4, <1>5 DEF Moves, it

(* There is no repository to run in, the run begins, or the client cannot be told. *)
LEMMA AnnounceMoves ==
  ASSUME TypeOK, Told, NEW p \in Prompts, Announce(p) PROVE Moves(p, prompt[p].seen)
<1> DEFINE it == prompt[p] ch == child[p]
<1>1. it \in Call /\ ch \in Child /\ ChildTold(it, ch) /\ CauseTold(it, ch) /\ it.at = "announce"
      /\ child' = [child EXCEPT ![p] = ch] /\ UNCHANGED child
  BY AtHand DEF Announce
<1>2. CASE To(p, "tell")
  BY <1>1, <1>2, PlainMoves DEF Before
<1>3. CASE prompt' = [prompt EXCEPT ![p].at = "prestart", ![p].ran = TRUE]
  <2> DEFINE new == [it EXCEPT !.at = "prestart", !.ran = TRUE]
  <2>1. prompt' = [prompt EXCEPT ![p] = new]
    BY AtHand, <1>3
  <2> HIDE DEF it, ch
  <2>2. new \in Call /\ Onward(it, new, it.seen)
    BY <1>1 DEF Call, Onward, Place, Before, After
  <2>3. ChildTold(new, ch) /\ CauseTold(new, ch)
    BY <1>1 DEF Call, ChildTold, CauseTold, Before, Running, After
  <2> QED BY <1>1, <2>1, <2>2, <2>3 DEF Moves, it
<1>4. CASE prompt' = [prompt EXCEPT ![p].at = "report", ![p].unsent = TRUE]
  <2> DEFINE new == [it EXCEPT !.at = "report", !.unsent = TRUE]
  <2>1. prompt' = [prompt EXCEPT ![p] = new]
    BY AtHand, <1>4
  <2> HIDE DEF it, ch
  <2>2. new \in Call /\ Onward(it, new, it.seen)
    BY <1>1 DEF Call, Onward, Place, Before, After
  <2>3. ChildTold(new, ch) /\ CauseTold(new, ch)
    BY <1>1 DEF Call, ChildTold, CauseTold, Before, Running, After
  <2> QED BY <1>1, <2>1, <2>2, <2>3 DEF Moves, it
<1> QED BY <1>2, <1>3, <1>4 DEF Announce

(* Before the process, the run ends with a cause or by a failure to start. *)
LEMMA DeliverMoves ==
  ASSUME TypeOK, Told, NEW p \in Prompts, NEW outcome \in Outcomes \ {"", "completed"}, NEW cause \in Causes,
         prompt[p].at \in {"prestart", "start"}, Deliver(p, outcome, cause), UNCHANGED child,
         cause # "" => outcome = cause, cause = "cancelled" /\ ~prompt[p].stopped => prompt[p].ctx = "cancelled"
  PROVE Moves(p, prompt[p].seen)
<1> DEFINE it == prompt[p] ch == child[p]
<1>1. it \in Call /\ ch \in Child /\ ChildTold(it, ch) /\ CauseTold(it, ch)
  BY AtHand
<1>2. /\ it.at \in {"prestart", "start"}
      /\ cause = "cancelled" /\ ~it.stopped => it.ctx = "cancelled"
  OBVIOUS
<1> DEFINE new == [it EXCEPT !.at = "collect", !.outcome = outcome, !.cause = cause] newch == ch
<1>3. prompt' = [prompt EXCEPT ![p] = new] /\ child' = [child EXCEPT ![p] = newch]
  BY AtHand, <1>2 DEF Deliver
<1> HIDE DEF it, ch
<1>4. new \in Call /\ newch \in Child /\ Onward(it, new, it.seen)
  BY <1>1, <1>2 DEF Call, Child, Onward, Place, Before, Running, After, Outcomes, Causes
<1>5. ChildTold(new, newch) /\ CauseTold(new, newch)
  BY <1>1, <1>2 DEF Call, Child, ChildTold, CauseTold, Before, Running, After, Outcomes, Causes
<1> QED BY <1>1, <1>3, <1>4, <1>5 DEF Moves, it

(* Prestart looks at the context, Start at what starting came to. *)
LEMMA PrestartMoves ==
  ASSUME TypeOK, Told, NEW p \in Prompts, Prestart(p) PROVE Moves(p, prompt[p].seen)
<1>1. prompt[p] \in Call
  BY AtHand
<1>2. CASE LocalTermination(p) = ""
  BY <1>2, PlainMoves DEF Prestart, Before
<1>3. CASE LocalTermination(p) # ""
  BY <1>1, <1>3, Termination, DeliverMoves DEF Prestart, Outcomes, Causes
<1> QED BY <1>2, <1>3

(* The process starts, with or without descendants, or the run ends for its cause. *)
LEMMA StartMoves ==
  ASSUME TypeOK, Told, NEW p \in Prompts, Start(p) PROVE Moves(p, prompt[p].seen)
<1> DEFINE it == prompt[p] ch == child[p]
<1>1. it \in Call /\ ch \in Child /\ ChildTold(it, ch) /\ CauseTold(it, ch) /\ it.at = "start"
  BY AtHand DEF Start
<1>2. CASE \E kin \in {"none", "group", "stray"} :
             child' = [child EXCEPT ![p].leader = "up", ![p].kin = kin] /\ To(p, "await")
  <2>1. PICK kin \in {"none", "group", "stray"} :
          child' = [child EXCEPT ![p].leader = "up", ![p].kin = kin] /\ To(p, "await")
    BY <1>2
  <2> DEFINE new == [it EXCEPT !.at = "await"] newch == [ch EXCEPT !.leader = "up", !.kin = kin]
  <2>2. prompt' = [prompt EXCEPT ![p] = new] /\ child' = [child EXCEPT ![p] = newch]
    BY AtHand, <2>1 DEF To
  <2> HIDE DEF it, ch
  <2>3. new \in Call /\ newch \in Child /\ Onward(it, new, it.seen)
    BY <1>1 DEF Call, Child, Onward, Place, Running
  <2>4. ChildTold(new, newch) /\ CauseTold(new, newch)
    BY <1>1 DEF Call, Child, ChildTold, CauseTold, Before, Running, After
  <2> QED BY <2>2, <2>3, <2>4 DEF Moves, it
<1>3. CASE /\ Deliver(p, IF LocalTermination(p) = "" THEN "failed" ELSE LocalTermination(p), LocalTermination(p))
           /\ UNCHANGED child
  BY <1>1, <1>3, Termination, DeliverMoves DEF Outcomes, Causes
<1> QED BY <1>2, <1>3 DEF Start

(* The cause of a stop is what localTermination sees while the process runs. *)
LEMMA AwaitMoves ==
  ASSUME TypeOK, Told, NEW p \in Prompts, Await(p) PROVE Moves(p, prompt[p].seen)
<1> DEFINE it == prompt[p] ch == child[p]
<1>1. it \in Call /\ ch \in Child /\ ChildTold(it, ch) /\ CauseTold(it, ch) /\ it.at = "await"
  BY AtHand DEF Await
<1>2. /\ LocalTermination(p) \in Causes
      /\ LocalTermination(p) = "cancelled" /\ ~it.stopped => it.ctx = "cancelled"
      /\ ch.leader = "gone" \/ LocalTermination(p) # ""
  BY <1>1, Termination DEF Await
<1> DEFINE why == LocalTermination(p)
<1> DEFINE new == [it EXCEPT !.at = IF why = "" THEN "drain" ELSE "grace", !.cause = why] newch == ch
<1>3. prompt' = [prompt EXCEPT ![p] = new] /\ child' = [child EXCEPT ![p] = newch]
  BY AtHand, <1>2 DEF Await
<1> HIDE DEF it, ch
<1> HIDE DEF why
<1>4. new \in Call /\ newch \in Child /\ Onward(it, new, it.seen)
  BY <1>1, <1>2 DEF Call, Child, Onward, Place, Before, Running, After, why
<1>5. ChildTold(new, newch) /\ CauseTold(new, newch)
  BY <1>1, <1>2 DEF Call, Child, ChildTold, CauseTold, Before, Running, After, why
<1> QED BY <1>1, <1>3, <1>4, <1>5 DEF Moves, it

(* A kill reaches the group of the process, or is reported to have failed. *)
LEMMA KillMoves ==
  ASSUME TypeOK, Told, NEW p \in Prompts, prompt[p].at = "grace", NEW where \in {"drain", "killed"}, Kill(p, where, {}),
         where = "drain" => child[p].leader = "gone"
  PROVE  Moves(p, prompt[p].seen)
<1> DEFINE it == prompt[p] ch == child[p]
<1>1. /\ it \in Call /\ ch \in Child /\ ChildTold(it, ch) /\ CauseTold(it, ch) /\ it.at = "grace"
      /\ where = "drain" => ch.leader = "gone"
  BY AtHand
<1>2. CASE /\ prompt' = [prompt EXCEPT ![p].at = where, ![p].errs = @ \cup {}]
           /\ child' = [child EXCEPT ![p].kin = IF @ = "group" THEN "none" ELSE @]
  <2> DEFINE new == [it EXCEPT !.at = where] newch == [ch EXCEPT !.kin = IF @ = "group" THEN "none" ELSE @]
  <2>1. prompt[p].errs \cup {} = prompt[p].errs
    OBVIOUS
  <2>2. [it EXCEPT !.at = where, !.errs = @ \cup {}] = new
    BY <1>1, <2>1 DEF Call
  <2>3. prompt' = [prompt EXCEPT ![p] = [it EXCEPT !.at = where, !.errs = @ \cup {}]] /\ child' = [child EXCEPT ![p] = newch]
    BY AtHand, <1>2
  <2> HIDE DEF it, ch
  <2>4. new \in Call /\ newch \in Child /\ Onward(it, new, it.seen)
    BY <1>1 DEF Call, Child, Onward, Place, Running
  <2>5. ChildTold(new, newch) /\ CauseTold(new, newch)
    BY <1>1 DEF Call, Child, ChildTold, CauseTold, Before, Running, After
  <2> QED BY <2>2, <2>3, <2>4, <2>5 DEF Moves, it
<1>3. CASE prompt' = [prompt EXCEPT ![p].at = where, ![p].errs = @ \cup {} \cup {"kill"}] /\ UNCHANGED child
  <2> DEFINE new == [it EXCEPT !.at = where, !.errs = @ \cup {} \cup {"kill"}]
  <2>1. prompt' = [prompt EXCEPT ![p] = new] /\ child' = [child EXCEPT ![p] = ch]
    BY AtHand, <1>3
  <2> HIDE DEF it, ch
  <2>2. new \in Call /\ Onward(it, new, it.seen)
    BY <1>1 DEF Call, Child, Onward, Place, Running, Errs
  <2>3. ChildTold(new, ch) /\ CauseTold(new, ch)
    BY <1>1 DEF Call, Child, ChildTold, CauseTold, Before, Running, After
  <2> QED BY <1>1, <2>1, <2>2, <2>3 DEF Moves, it
<1> QED BY <1>2, <1>3 DEF Kill

(* It left within the grace period, or not. *)
LEMMA GraceMoves ==
  ASSUME TypeOK, Told, NEW p \in Prompts, Grace(p) PROVE Moves(p, prompt[p].seen)
BY KillMoves DEF Grace

(* A killed leader is waited for, or reported not to have left. *)
LEMMA KilledMoves ==
  ASSUME TypeOK, Told, NEW p \in Prompts, Killed(p) PROVE Moves(p, prompt[p].seen)
<1> DEFINE it == prompt[p] ch == child[p]
<1>1. it \in Call /\ ch \in Child /\ ChildTold(it, ch) /\ CauseTold(it, ch) /\ it.at = "killed"
      /\ child' = [child EXCEPT ![p] = ch]
  BY AtHand DEF Killed
<1>2. PICK errs \in {{}, {"exit"}} :
        /\ errs = {} => ch.leader = "gone"
        /\ prompt' = [prompt EXCEPT ![p].at = "drain", ![p].errs = @ \cup errs]
  BY DEF Killed
<1> DEFINE new == [it EXCEPT !.at = "drain", !.errs = @ \cup errs]
<1>3. prompt' = [prompt EXCEPT ![p] = new]
  BY AtHand, <1>2
<1> HIDE DEF it, ch
<1>4. new \in Call /\ Onward(it, new, it.seen)
  BY <1>1 DEF Call, Onward, Place, Running, Errs
<1>5. ChildTold(new, ch) /\ CauseTold(new, ch)
  BY <1>1, <1>2 DEF Call, ChildTold, CauseTold, Before, Running, After
<1> QED BY <1>1, <1>3, <1>4, <1>5 DEF Moves, it

(* The readers saw the end, or are cut off. *)
LEMMA DrainMoves ==
  ASSUME TypeOK, Told, NEW p \in Prompts, Drain(p) PROVE Moves(p, prompt[p].seen)
<1> DEFINE it == prompt[p] ch == child[p]
<1>1. it \in Call /\ ch \in Child /\ ChildTold(it, ch) /\ CauseTold(it, ch) /\ it.at = "drain"
  BY AtHand DEF Drain
<1>2. CASE To(p, "conclude") /\ UNCHANGED child
  <2> DEFINE new == [it EXCEPT !.at = "conclude"]
  <2>1. prompt' = [prompt EXCEPT ![p] = new] /\ child' = [child EXCEPT ![p] = ch]
    BY AtHand, <1>2 DEF To
  <2> HIDE DEF it, ch
  <2>2. new \in Call /\ Onward(it, new, it.seen)
    BY <1>1 DEF Call, Onward, Place, Running
  <2>3. ChildTold(new, ch) /\ CauseTold(new, ch)
    BY <1>1 DEF Call, ChildTold, CauseTold, Before, Running, After
  <2> QED BY <1>1, <2>1, <2>2, <2>3 DEF Moves, it
<1>3. CASE /\ prompt' = [prompt EXCEPT ![p].at = "conclude", ![p].errs = @ \cup {"drain"}]
           /\ child' = [child EXCEPT ![p].cut = TRUE]
  <2> DEFINE new == [it EXCEPT !.at = "conclude", !.errs = @ \cup {"drain"}] newch == [ch EXCEPT !.cut = TRUE]
  <2>1. prompt' = [prompt EXCEPT ![p] = new] /\ child' = [child EXCEPT ![p] = newch]
    BY AtHand, <1>3
  <2> HIDE DEF it, ch
  <2>2. new \in Call /\ newch \in Child /\ Onward(it, new, it.seen)
    BY <1>1 DEF Call, Child, Onward, Place, Running, Errs
  <2>3. ChildTold(new, newch) /\ CauseTold(new, newch)
    BY <1>1 DEF Call, Child, ChildTold, CauseTold, Before, Running, After
  <2> QED BY <2>1, <2>2, <2>3 DEF Moves, it
<1> QED BY <1>2, <1>3 DEF Drain

(* The last look at the context: a cause seen before is kept. *)
LEMMA ConcludeMoves ==
  ASSUME TypeOK, Told, NEW p \in Prompts, Conclude(p) PROVE Moves(p, prompt[p].seen)
<1> DEFINE it == prompt[p] ch == child[p]
           More(killed) == IF killed THEN {} ELSE {"kill"}
           cause == IF it.cause = "" THEN LocalTermination(p) ELSE it.cause
           Kin(killed) == IF ch.kin = "group" /\ it.cause = "" /\ killed THEN "none" ELSE ch.kin
<1>1. it \in Call /\ ch \in Child /\ ChildTold(it, ch) /\ CauseTold(it, ch) /\ it.at = "conclude"
  BY AtHand DEF Conclude
<1>2. PICK good \in BOOLEAN, killed \in BOOLEAN :
        /\ it.cause # "" => killed
        /\ prompt' = [prompt EXCEPT ![p].at = "collect", ![p].cause = cause, ![p].errs = it.errs \cup More(killed),
                                    ![p].outcome = Outcome(cause, it.errs \cup More(killed), good)]
        /\ child' = [child EXCEPT ![p].kin = IF @ = "group" /\ it.cause = "" /\ killed THEN "none" ELSE @]
  BY DEF Conclude
<1> DEFINE errs == it.errs \cup More(killed) outcome == Outcome(cause, errs, good)
           new == [it EXCEPT !.at = "collect", !.cause = cause, !.errs = errs, !.outcome = outcome]
           newch == [ch EXCEPT !.kin = Kin(killed)]
<1>3. prompt' = [prompt EXCEPT ![p] = new] /\ child' = [child EXCEPT ![p] = newch]
  BY AtHand, <1>2
<1>4. /\ cause \in Causes
      /\ cause = "cancelled" /\ ~it.stopped => it.ctx = "cancelled"
  BY <1>1, Termination DEF Call, CauseTold
<1>5. /\ errs \in SUBSET Errs /\ it.errs \subseteq errs
      /\ ~killed => "kill" \in errs
  BY <1>1 DEF Call, Errs
<1>6. /\ outcome \in Outcomes /\ outcome # ""
      /\ cause # "" => outcome = cause
      /\ outcome = "completed" => errs = {}
  BY <1>4 DEF Outcome, Outcomes, Causes
<1>7. /\ Kin(killed) \in {"none", "group", "stray"}
      /\ Kin(killed) = "group" => ch.kin = "group" /\ (it.cause # "" \/ ~killed)
  BY <1>1 DEF Child
<1> HIDE DEF it, ch, cause, errs, outcome, Kin
<1>8. new \in Call /\ newch \in Child /\ Onward(it, new, it.seen)
  BY <1>1, <1>4, <1>5, <1>6, <1>7 DEF Call, Child, Onward, Place, After
<1>9. ChildTold(new, newch)
  BY <1>1, <1>5, <1>7 DEF Call, Child, ChildTold, Before, After
<1>10. CauseTold(new, newch)
  BY <1>1, <1>4, <1>6 DEF Call, Child, CauseTold, Before, Running, After
<1> QED BY <1>3, <1>8, <1>9, <1>10 DEF Moves, it

(* The events end with the readers. *)
LEMMA CollectMoves ==
  ASSUME TypeOK, Told, NEW p \in Prompts, Collect(p) PROVE Moves(p, prompt[p].seen)
<1> DEFINE it == prompt[p] ch == child[p]
<1>1. it \in Call /\ ch \in Child /\ ChildTold(it, ch) /\ CauseTold(it, ch) /\ it.at = "collect"
      /\ child' = [child EXCEPT ![p] = ch]
  BY AtHand DEF Collect
<1>2. PICK failed \in BOOLEAN : prompt' = [prompt EXCEPT ![p].at = "report", ![p].unsent = @ \/ failed]
  BY DEF Collect
<1> DEFINE new == [it EXCEPT !.at = "report", !.unsent = @ \/ failed]
<1>3. prompt' = [prompt EXCEPT ![p] = new]
  BY AtHand, <1>2
<1> HIDE DEF it, ch
<1>4. new \in Call /\ Onward(it, new, it.seen)
  BY <1>1 DEF Call, Onward, Place, After
<1>5. ChildTold(new, ch) /\ CauseTold(new, ch)
  BY <1>1 DEF Call, ChildTold, CauseTold, Before, Running, After
<1> QED BY <1>1, <1>3, <1>4, <1>5 DEF Moves, it

(* A run is answered for its cause, and only a run that did its work by a success. *)
LEMMA AnswerMoves ==
  ASSUME TypeOK, Told, NEW p \in Prompts, prompt[p].at \in {"report", "deliver"}, UNCHANGED child,
         NEW what \in Answers, Answer(p, what),
         prompt[p].cause = "timed_out" => what = "timeout",
         prompt[p].cause = "cancelled" /\ ~prompt[p].stopped => what = "cancelled",
         what = "end_turn" => prompt[p].outcome = "completed"
  PROVE  Moves(p, prompt[p].seen)
<1> DEFINE it == prompt[p] ch == child[p] new == [it EXCEPT !.at = "end", !.answer = what]
<1>1. /\ it \in Call /\ ch \in Child /\ ChildTold(it, ch) /\ CauseTold(it, ch) /\ it.at \in {"report", "deliver"}
      /\ child' = [child EXCEPT ![p] = ch] /\ prompt' = [prompt EXCEPT ![p] = new]
      /\ it.cause = "timed_out" => what = "timeout"
      /\ it.cause = "cancelled" /\ ~it.stopped => what = "cancelled"
      /\ what = "end_turn" => it.outcome = "completed"
  BY AtHand DEF Answer
<1> HIDE DEF it, ch
<1>2. new \in Call /\ Onward(it, new, it.seen)
  BY <1>1 DEF Call, Onward, Place, After
<1>3. ChildTold(new, ch) /\ CauseTold(new, ch)
  BY <1>1 DEF Call, ChildTold, CauseTold, Before, Running, After
<1> QED BY <1>1, <1>2, <1>3 DEF Moves, it

(* Report answers a run that was stopped for the cause it was stopped for; only *)
(* one that was not stopped has a result to deliver.                            *)
LEMMA ReportMoves ==
  ASSUME TypeOK, Told, NEW p \in Prompts, Report(p) PROVE Moves(p, prompt[p].seen)
<1> DEFINE it == prompt[p] ch == child[p]
<1>1. it \in Call /\ ch \in Child /\ ChildTold(it, ch) /\ CauseTold(it, ch) /\ it.at = "report" /\ UNCHANGED child
      /\ child' = [child EXCEPT ![p] = ch]
  BY AtHand DEF Report
<1>2. /\ it.cause = "timed_out" => it.outcome = "timed_out"
      /\ it.cause = "cancelled" => it.outcome = "cancelled"
      /\ it.cause = "cancelled" /\ ~it.stopped => it.ctx = "cancelled"
      /\ it.outcome \in Outcomes /\ it.ctx \in Contexts /\ it.cause \in Causes
  BY <1>1 DEF CauseTold, Call, After
<1>3. CASE it.outcome = "timed_out" \/ it.ctx = "expired"
  <2>1. Answer(p, "timeout")
    BY <1>3 DEF Report
  <2> QED BY <1>1, <1>2, <1>3, <2>1, AnswerMoves DEF Answers
<1>4. CASE ~(it.outcome = "timed_out" \/ it.ctx = "expired") /\ it.unsent
  <2>1. Answer(p, FinishSend(p, TRUE, ""))
    BY <1>4 DEF Report
  <2>2. /\ FinishSend(p, TRUE, "") \in Answers \ {"end_turn"}
        /\ it.ctx = "cancelled" => FinishSend(p, TRUE, "") = "cancelled"
    BY <1>1, Sent DEF Answers
  <2> QED BY <1>1, <1>2, <1>4, <2>1, <2>2, AnswerMoves
<1>5. CASE /\ ~(it.outcome = "timed_out" \/ it.ctx = "expired") /\ ~it.unsent
           /\ it.outcome = "cancelled" \/ it.ctx # "live"
  <2>1. Answer(p, "cancelled")
    BY <1>5 DEF Report
  <2> QED BY <1>1, <1>2, <1>5, <2>1, AnswerMoves DEF Answers
<1>6. CASE ~(it.outcome = "timed_out" \/ it.ctx = "expired") /\ ~it.unsent /\ it.outcome # "cancelled" /\ it.ctx = "live"
  <2>1. To(p, "deliver") \/ Answer(p, "error")
    BY <1>6 DEF Report, To, Answer
  <2>2. it.cause = ""
    BY <1>2, <1>6 DEF Causes
  <2>3. CASE Answer(p, "error")
    BY <1>1, <2>2, <2>3, AnswerMoves DEF Answers
  <2>4. CASE To(p, "deliver")
    <3> DEFINE new == [it EXCEPT !.at = "deliver"]
    <3>1. prompt' = [prompt EXCEPT ![p] = new]
      BY AtHand, <2>4 DEF To
    <3> HIDE DEF it, ch
    <3>2. it.outcome \in {"completed", "failed"}
      BY <1>1, <1>2, <1>6 DEF Outcomes, Causes, CauseTold
    <3>3. new \in Call /\ Onward(it, new, it.seen)
      BY <1>1 DEF Call, Onward, Place, After
    <3>4. ChildTold(new, ch) /\ CauseTold(new, ch)
      BY <1>1, <3>2 DEF Call, ChildTold, CauseTold, Before, Running, After
    <3> QED BY <1>1, <3>1, <3>3, <3>4 DEF Moves, it
  <2> QED BY <2>1, <2>3, <2>4
<1> QED BY <1>3, <1>4, <1>5, <1>6

(* The result is sent, in time or not. *)
LEMMA DeliverResultMoves ==
  ASSUME TypeOK, Told, NEW p \in Prompts, DeliverResult(p) PROVE Moves(p, prompt[p].seen)
<1> DEFINE it == prompt[p]
<1>1. it \in Call /\ CauseTold(it, child[p]) /\ it.at = "deliver" /\ UNCHANGED child
  BY AtHand DEF DeliverResult
<1>2. it.cause = "" /\ it.outcome \in {"completed", "failed"}
  BY <1>1 DEF CauseTold, After, Call, Causes
<1>3. PICK failed \in BOOLEAN :
        Answer(p, IF FinishSend(p, failed, "end_turn") # "error" /\ it.outcome = "failed" THEN "error"
                  ELSE FinishSend(p, failed, "end_turn"))
  BY DEF DeliverResult
<1>4. FinishSend(p, failed, "end_turn") \in Answers
  BY <1>1, Sent DEF Answers
<1> QED BY <1>1, <1>2, <1>3, <1>4, AnswerMoves DEF Answers

(* The process goes by itself: its end is no step of the turn. *)
LEMMA LeaveMoves ==
  ASSUME TypeOK, Told, NEW p \in Prompts, Leave(p) PROVE Moves(p, prompt[p].seen)
<1> DEFINE it == prompt[p] ch == child[p]
<1>1. /\ it \in Call /\ ch \in Child /\ ChildTold(it, ch) /\ CauseTold(it, ch)
      /\ it.at \notin {"new", "answered"} /\ prompt' = [prompt EXCEPT ![p] = it]
  BY AtHand DEF Leave, InTurn
<1>2. PICK newch \in {[ch EXCEPT !.leader = "gone"], [ch EXCEPT !.kin = "none"]} :
        child' = [child EXCEPT ![p] = newch] /\ (newch = [ch EXCEPT !.leader = "gone"] => ch.leader = "up")
  <2>1. CASE child[p].leader = "up" /\ child' = [child EXCEPT ![p].leader = "gone"]
    BY <2>1
  <2>2. CASE child[p].kin # "none" /\ child' = [child EXCEPT ![p].kin = "none"]
    <3>1. child[p].leader = "up" \/ [ch EXCEPT !.kin = "none"] # [ch EXCEPT !.leader = "gone"]
      BY <1>1, <2>2 DEF Child
    <3> QED BY <2>2, <3>1
  <2> QED BY <2>1, <2>2 DEF Leave
<1> HIDE DEF it, ch
<1>3. newch \in Child /\ Onward(it, it, it.seen)
  BY <1>1, <1>2 DEF Call, Child, Onward, Place
<1>4. ChildTold(it, newch) /\ CauseTold(it, newch)
  BY <1>1, <1>2 DEF Child, ChildTold, CauseTold, Before, Running, After
<1> QED BY <1>1, <1>2, <1>3, <1>4 DEF Moves, it

(* A progress message that cannot be sent stops the run. *)
LEMMA ProgressMoves ==
  ASSUME TypeOK, Told, NEW p \in Prompts, Progress(p) PROVE Moves(p, prompt[p].seen)
<1> DEFINE it == prompt[p] ch == child[p] new == [it EXCEPT !.unsent = TRUE, !.stopped = TRUE]
<1>1. it \in Call /\ ch \in Child /\ ChildTold(it, ch) /\ CauseTold(it, ch)
      /\ it.at \in {"prestart", "start", "await", "grace", "killed", "drain", "conclude", "collect"}
      /\ child' = [child EXCEPT ![p] = ch] /\ prompt' = [prompt EXCEPT ![p] = new]
  BY AtHand DEF Progress
<1> HIDE DEF it, ch
<1>2. new \in Call /\ Onward(it, new, it.seen)
  BY <1>1 DEF Call, Onward, Before, Running, After
<1>3. ChildTold(new, ch) /\ CauseTold(new, ch)
  BY <1>1 DEF Call, ChildTold, CauseTold, Before, Running, After
<1> QED BY <1>1, <1>2, <1>3 DEF Moves, it

(* The deadline does not replace a cancellation that came first. *)
LEMMA DeadlineMoves ==
  ASSUME TypeOK, Told, NEW p \in Prompts, Deadline(p) PROVE Moves(p, prompt[p].seen)
<1> DEFINE it == prompt[p] ch == child[p]
           ctx == IF it.ctx = "live" THEN "expired" ELSE it.ctx late == it.ctx # "live"
           new == [it EXCEPT !.ctx = ctx, !.late = late]
<1>1. it \in Call /\ ch \in Child /\ ChildTold(it, ch) /\ CauseTold(it, ch) /\ it.at \notin {"new", "answered"}
      /\ child' = [child EXCEPT ![p] = ch] /\ prompt' = [prompt EXCEPT ![p] = new]
  BY AtHand DEF Deadline, InTurn
<1>2. it.ctx \in Contexts
  BY <1>1 DEF Call
<1>3. ctx \in Contexts /\ ctx # "live" /\ (it.ctx = "cancelled" => ctx = "cancelled")
  BY <1>2 DEF Contexts
<1>4. late \in BOOLEAN
  OBVIOUS
<1> HIDE DEF it, ch, ctx, late
<1>5. new \in Call
  BY <1>1, <1>3, <1>4 DEF Call
<1>6. Onward(it, new, it.seen)
  BY <1>1, <1>3, <1>4 DEF Call, Onward, Place
<1>7. ChildTold(new, ch)
  BY <1>1 DEF Call, ChildTold, Before, Running, After
<1>8. CauseTold(new, ch)
  BY <1>1, <1>3 DEF Call, CauseTold, Before, Running, After
<1> QED BY <1>1, <1>5, <1>6, <1>7, <1>8 DEF Moves, it

(* What a step of a turn under way may do: its own records move on, and of its *)
(* session only the clarification changes, to what the turn holds or to none.  *)
Goes(p) ==
  /\ InTurn(p) /\ UNCHANGED <<closed, closer, shutdown>>
  /\ sessions' \in [Sessions -> Session]
  /\ \A s \in Sessions :
       /\ sessions'[s].is = sessions[s].is /\ sessions'[s].closing = sessions[s].closing
       /\ sessions'[s].era = sessions[s].era /\ sessions'[s].turn = sessions[s].turn
       /\ \/ sessions'[s].pending = sessions[s].pending
          \/ s \in prompt[p].session /\ sessions'[s].pending \in {0, prompt[p].era, prompt[p].seen}
  /\ \E seen \in {0, prompt[p].seen} \cup {sessions[s].pending : s \in prompt[p].session} : Moves(p, seen)

(* Storing or clearing the clarification. *)
LEMMA Stores ==
  ASSUME TypeOK, NEW p \in Prompts, NEW said \in {0, prompt[p].era, prompt[p].seen}, Pending(p, said)
  PROVE  /\ sessions' \in [Sessions -> Session]
         /\ \A s \in Sessions :
              /\ sessions'[s].is = sessions[s].is /\ sessions'[s].closing = sessions[s].closing
              /\ sessions'[s].era = sessions[s].era /\ sessions'[s].turn = sessions[s].turn
              /\ \/ sessions'[s].pending = sessions[s].pending
                 \/ s \in prompt[p].session /\ sessions'[s].pending \in {0, prompt[p].era, prompt[p].seen}
<1>1. prompt[p] \in Call
  BY DEF TypeOK
<1>2. said \in Nat
  BY <1>1 DEF Call
<1>3. \A s \in Sessions : sessions[s] \in Session
  BY DEF TypeOK
<1>4. \A s \in Sessions : [sessions[s] EXCEPT !.pending = said] \in Session
  BY <1>2, <1>3 DEF Session
<1>5. \A s \in Sessions : sessions'[s] = IF s \in prompt[p].session THEN [sessions[s] EXCEPT !.pending = said] ELSE sessions[s]
  BY DEF Pending
<1>6. sessions' \in [Sessions -> Session]
  BY <1>3, <1>4 DEF Pending
<1>7. ASSUME NEW s \in Sessions
      PROVE  /\ sessions'[s].is = sessions[s].is /\ sessions'[s].closing = sessions[s].closing
             /\ sessions'[s].era = sessions[s].era /\ sessions'[s].turn = sessions[s].turn
             /\ \/ sessions'[s].pending = sessions[s].pending
                \/ s \in prompt[p].session /\ sessions'[s].pending \in {0, prompt[p].era, prompt[p].seen}
  BY <1>3, <1>5 DEF Session
<1> QED BY <1>6, <1>7

(* Every step of a turn but its last goes on in this way. *)
LEMMA StepGoes ==
  ASSUME TypeOK, Told, NEW p \in Prompts,
         Step(p) \/ Leave(p) \/ Progress(p) \/ Deadline(p), ~EndTurn(p)
  PROVE  Goes(p)
<1>1. ASSUME Moves(p, prompt[p].seen), InTurn(p), UNCHANGED <<sessions, closed, closer, shutdown>> PROVE Goes(p)
  BY <1>1 DEF Goes, TypeOK
<1>2. CASE Parsed(p) \/ Tell(p) \/ Announce(p) \/ Dereference(p)
  <2>1. /\ prompt[p].at \in Before /\ InTurn(p) /\ UNCHANGED <<sessions, closed, closer, shutdown, child>>
        /\ prompt[p] \in Call
    BY <1>2, AtHand DEF Parsed, Tell, Announce, Dereference, Before, InTurn, Private
  <2>2. CASE \E where \in Before : To(p, where)
    BY <1>1, <2>1, <2>2, PlainMoves
  <2>3. CASE \E what \in Answers : Answer(p, what)
    BY <1>1, <2>1, <2>3, EarlyAnswerMoves
  <2>4. CASE Parsed(p)
    BY <2>2, <2>3, <2>4 DEF Parsed, Before, Answers, To, Answer
  <2>5. CASE Dereference(p)
    BY <2>3, <2>5 DEF Dereference, Answers
  <2>6. CASE Tell(p)
    BY <2>1, <2>3, <2>6, Sent DEF Tell, Answers
  <2>7. CASE Announce(p)
    BY <2>1, <2>7, AnnounceMoves, <1>1
  <2> QED BY <1>2, <2>4, <2>5, <2>6, <2>7
<1>3. CASE \/ Prestart(p) \/ Start(p) \/ Await(p) \/ Grace(p) \/ Killed(p) \/ Drain(p) \/ Conclude(p) \/ Collect(p)
           \/ Report(p) \/ DeliverResult(p) \/ Leave(p) \/ Progress(p) \/ Deadline(p)
  <2>1. InTurn(p) /\ UNCHANGED <<sessions, closed, closer, shutdown>>
    BY <1>3 DEF Prestart, Start, Await, Grace, Killed, Drain, Conclude, Collect, Report, DeliverResult, Leave, Progress,
                Deadline, InTurn, Private
  <2>2. Moves(p, prompt[p].seen)
    BY <1>3, PrestartMoves, StartMoves, AwaitMoves, GraceMoves, KilledMoves, DrainMoves, ConcludeMoves, CollectMoves,
       ReportMoves, DeliverResultMoves, LeaveMoves, ProgressMoves, DeadlineMoves
  <2> QED BY <1>1, <2>1, <2>2
<1>4. CASE Unusable(p)
  <2>1. InTurn(p) /\ UNCHANGED <<closed, closer, shutdown>> /\ Pending(p, 0)
    BY <1>4 DEF Unusable, InTurn
  <2>2. Moves(p, prompt[p].seen)
    BY <1>4, PlainMoves DEF Unusable, Before
  <2> QED BY <2>1, <2>2, Stores DEF Goes
<1>5. CASE Read(p)
  <2>1. InTurn(p) /\ UNCHANGED <<sessions, closed, closer, shutdown>>
    BY <1>5 DEF Read, InTurn, Private
  <2> QED BY <1>5, <2>1, ReadMoves DEF Goes, TypeOK
<1>6. CASE Merge(p)
  <2>1. InTurn(p) /\ UNCHANGED <<closed, closer, shutdown>>
    BY <1>6 DEF Merge, InTurn
  <2>2. Moves(p, 0)
    BY <1>6, MergeMoves
  <2>3. PICK result \in {"intent", "clarify", "reject", "no answer"} : Settle(p, result)
    BY <1>6 DEF Merge
  <2>4. UNCHANGED sessions \/ \E said \in {0, prompt[p].era, prompt[p].seen} : Pending(p, said)
    BY <2>3 DEF Settle, Pending
  <2> QED BY <2>1, <2>2, <2>4, Stores DEF Goes, TypeOK
<1> QED BY <1>2, <1>3, <1>4, <1>5, <1>6 DEF Step

(* A step after which the same turns are under way, none of them revived. *)
Stays ==
  \A q \in Prompts :
    /\ InTurn(q)' <=> InTurn(q)
    /\ prompt'[q].session = prompt[q].session /\ prompt'[q].era = prompt[q].era
    /\ prompt'[q].ctx = "live" => prompt[q].ctx = "live"
    /\ prompt'[q].at = "new" => prompt'[q] = NewCall

(* The latest turn of a session is a call, when it has one. *)
LEMMA Latests ==
  ASSUME TypeOK, NEW s \in Sessions
  PROVE  /\ sessions[s] \in Session /\ sessions[s].turn \in Prompts \cup {NoTurn}
         /\ \A p : p \in Turn(s) <=> p \in Prompts /\ p = sessions[s].turn /\ InTurn(p)
<1>1. sessions[s] \in Session
  BY DEF TypeOK
<1>2. sessions[s].turn \in Prompts \cup {NoTurn}
  BY <1>1 DEF Session
<1> QED BY <1>1, <1>2, NotAPrompt DEF Turn, Latest

(* Such a step leaves each turn to its session, when that stays open. *)
LEMMA TurnStays ==
  ASSUME TypeOK, TurnHeld, Stays, \A s \in Sessions : sessions'[s].turn = sessions[s].turn,
         \A p \in Prompts : InTurn(p) => \A s \in prompt[p].session : sessions'[s].is = sessions[s].is
  PROVE  TurnHeld'
<1>1. ASSUME NEW p \in Prompts, InTurn(p)'
      PROVE  \E s \in Sessions : prompt'[p].session = {s} /\ sessions'[s].turn = p /\ sessions'[s].is = "open"
  <2>1. InTurn(p)
    BY <1>1 DEF Stays
  <2>2. PICK s \in Sessions : prompt[p].session = {s} /\ sessions[s].turn = p /\ sessions[s].is = "open"
    BY <2>1 DEF TurnHeld
  <2> QED BY <2>1, <2>2 DEF Stays
<1>2. ASSUME NEW s \in Sessions, sessions'[s].turn # NoTurn PROVE prompt'[sessions'[s].turn].session = {s}
  <2>1. sessions[s].turn \in Prompts /\ prompt[sessions[s].turn].session = {s}
    BY <1>2, Latests DEF TurnHeld
  <2> QED BY <2>1 DEF Stays
<1> QED BY <1>1, <1>2 DEF TurnHeld, Stays

(* A step after which no other turn is under way, as seen by those who wait. *)
Fewer == \A q \in Prompts : InTurn(q)' => InTurn(q) /\ prompt'[q].session = prompt[q].session

(* It takes nothing away from what the closers see. *)
LEMMA ClosersStay ==
  ASSUME ClosersSee, Fewer, closer' = closer,
         \A s \in Sessions :
           /\ sessions[s].is # "none" => sessions'[s].is # "none"
           /\ sessions[s].closing \/ sessions[s].is = "deleted" => sessions'[s].closing \/ sessions'[s].is = "deleted"
  PROVE  ClosersSee'
BY DEF ClosersSee, Fewer

(* Nor from what Shutdown sees. *)
LEMMA ShutdownStays ==
  ASSUME ShutdownSees, Fewer, shutdown' = shutdown, closed' = closed PROVE ShutdownSees'
BY DEF ShutdownSees, Fewer

(* A clarification that stays is of the era that stays; a session whose era *)
(* changes has its turn stopped.                                            *)
LEMMA PendingStays ==
  ASSUME TypeOK, TurnHeld, PendingTold, Stays, \A q \in Prompts : prompt'[q].seen = prompt[q].seen,
         \A s \in Sessions : sessions'[s].turn = sessions[s].turn,
         \A s \in Sessions :
           \/ sessions'[s].pending = sessions[s].pending /\ sessions'[s].era = sessions[s].era
           \/ /\ sessions'[s].pending = 0
              /\ sessions'[s].era = sessions[s].era \/ \A p \in Turn(s) : prompt'[p].ctx # "live"
  PROVE  PendingTold'
<1>1. ASSUME NEW s \in Sessions, sessions'[s].pending # 0
      PROVE  sessions'[s].pending = sessions'[s].era \/ \E p \in Turn(s)' : prompt'[p].ctx # "live"
  <2>1. sessions'[s].pending = sessions[s].pending /\ sessions'[s].era = sessions[s].era
    BY <1>1
  <2>2. CASE sessions[s].pending = sessions[s].era
    BY <2>1, <2>2
  <2>3. CASE \E p \in Turn(s) : prompt[p].ctx # "live"
    <3>1. PICK p \in Turn(s) : prompt[p].ctx # "live"
      BY <2>3
    <3>2. p \in Prompts /\ p = sessions[s].turn /\ p # NoTurn /\ InTurn(p)
      BY <3>1, Latests, NotAPrompt
    <3>3. p \in Turn(s)'
      BY <3>2 DEF Turn, Latest, Stays
    <3> QED BY <3>1, <3>2, <3>3 DEF Stays
  <2> QED BY <1>1, <2>1, <2>2, <2>3 DEF PendingTold
<1>2. ASSUME NEW p \in Prompts, InTurn(p)', prompt'[p].ctx = "live", NEW s \in prompt'[p].session
      PROVE  prompt'[p].era = sessions'[s].era /\ prompt'[p].seen \in {0, sessions'[s].era}
  <2>1. InTurn(p) /\ prompt[p].ctx = "live" /\ s \in prompt[p].session /\ prompt'[p].era = prompt[p].era
    BY <1>2 DEF Stays
  <2>2. s \in Sessions /\ sessions[s].turn = p
    BY <2>1 DEF TurnHeld
  <2>3. p \in Turn(s)
    BY <2>1, <2>2, NotAPrompt DEF Turn, Latest
  <2>4. sessions'[s].era = sessions[s].era
    BY <1>2, <2>2, <2>3
  <2> QED BY <2>1, <2>4 DEF PendingTold
<1> QED BY <1>1, <1>2 DEF PendingTold

(* A step of a turn keeps the invariant: of the session it has only the *)
(* clarification, which it took in the current era or will clear.       *)
LEMMA GoesKeeps == ASSUME IInv, NEW p \in Prompts, Goes(p) PROVE IInv'
<1> USE DEF IInv
<1>1. PICK seen \in {0, prompt[p].seen} \cup {sessions[s].pending : s \in prompt[p].session},
           it \in Call, ch \in Child :
        /\ prompt' = [prompt EXCEPT ![p] = it] /\ child' = [child EXCEPT ![p] = ch]
        /\ Onward(prompt[p], it, seen) /\ ChildTold(it, ch) /\ CauseTold(it, ch)
  BY DEF Goes, Moves
<1>2. /\ prompt \in [Prompts -> Call] /\ child \in [Prompts -> Child] /\ InTurn(p)
      /\ UNCHANGED <<closed, closer, shutdown>> /\ sessions' \in [Sessions -> Session]
  BY DEF TypeOK, Goes
<1>3. TypeOK'
  BY <1>1, <1>2 DEF TypeOK
<1>4. \A q \in Prompts : IF q = p THEN prompt'[q] = it /\ child'[q] = ch ELSE prompt'[q] = prompt[q] /\ child'[q] = child[q]
  BY <1>1, <1>2
<1>5. Told'
  BY <1>1, <1>4 DEF Told
<1>6. it.at \notin {"new", "answered"} /\ it.session = prompt[p].session /\ it.era = prompt[p].era /\ it.seen = seen
      /\ (it.ctx = "live" => prompt[p].ctx = "live")
  BY <1>1 DEF Onward, Before, Running, After
<1>7. Stays
  BY <1>2, <1>4, <1>6 DEF Stays, InTurn, TurnHeld
<1>8. Fewer
  BY <1>7 DEF Fewer, Stays
<1>9. \A s \in Sessions :
        /\ sessions'[s].is = sessions[s].is /\ sessions'[s].closing = sessions[s].closing
        /\ sessions'[s].era = sessions[s].era /\ sessions'[s].turn = sessions[s].turn
        /\ \/ sessions'[s].pending = sessions[s].pending
           \/ s \in prompt[p].session /\ sessions'[s].pending \in {0, prompt[p].era, prompt[p].seen}
  BY DEF Goes
<1>10. TurnHeld'
  <2>1. \A q \in Prompts : InTurn(q) => prompt[q].session \subseteq Sessions
    BY DEF TurnHeld
  <2> QED BY <1>7, <1>9, <2>1, TurnStays
<1>11. ClosersSee'
  BY <1>2, <1>8, <1>9, ClosersStay
<1>12. ShutdownSees'
  BY <1>2, <1>8, ShutdownStays
<1>13. PICK own \in Sessions : prompt[p].session = {own} /\ sessions[own].turn = p
  BY <1>2 DEF TurnHeld
<1>14. p \in Turn(own)
  BY <1>2, <1>13, Latests
<1>15. ASSUME NEW s \in Sessions, sessions'[s].pending # 0
       PROVE  sessions'[s].pending = sessions'[s].era \/ \E q \in Turn(s)' : prompt'[q].ctx # "live"
  <2>1. Turn(s)' = Turn(s)
    <3>1. \A q \in Latest(s) : q \in Prompts
      BY Latests DEF Latest
    <3> QED BY <1>7, <1>9, <3>1 DEF Turn, Latest, Stays
  <2>2. CASE s = own /\ prompt[p].ctx # "live"
    BY <1>7, <1>14, <2>1, <2>2 DEF Stays
  <2>3. CASE s = own /\ prompt[p].ctx = "live"
    <3>1. prompt[p].era = sessions[s].era /\ prompt[p].seen \in {0, sessions[s].era}
      BY <1>2, <1>13, <2>3 DEF PendingTold
    <3>2. Turn(s) = {p}
      BY <1>13, <1>14, <2>3, Latests
    <3> QED BY <1>9, <1>15, <2>3, <3>1, <3>2 DEF PendingTold
  <2>4. CASE s # own
    <3>1. sessions'[s].pending = sessions[s].pending
      BY <1>9, <1>13, <2>4
    <3>2. \A q \in Turn(s) : q \in Prompts
      BY Latests
    <3> QED BY <1>7, <1>9, <1>15, <2>1, <3>1, <3>2 DEF PendingTold, Stays
  <2> QED BY <2>2, <2>3, <2>4
<1>16. ASSUME NEW q \in Prompts, InTurn(q)', prompt'[q].ctx = "live", NEW s \in prompt'[q].session
       PROVE  prompt'[q].era = sessions'[s].era /\ prompt'[q].seen \in {0, sessions'[s].era}
  <2>1. InTurn(q) /\ prompt[q].ctx = "live" /\ s \in prompt[q].session /\ prompt'[q].era = prompt[q].era
    BY <1>7, <1>16 DEF Stays
  <2>2. s \in Sessions /\ prompt[q].session = {s}
    BY <2>1 DEF TurnHeld
  <2>3. prompt[q].era = sessions[s].era /\ prompt[q].seen \in {0, sessions[s].era}
    BY <2>1 DEF PendingTold
  <2>4. CASE q # p
    BY <1>4, <1>9, <2>1, <2>2, <2>3, <2>4
  <2>5. CASE q = p
    <3>1. s = own /\ prompt'[q].seen = seen
      BY <1>4, <1>6, <1>13, <2>2, <2>5
    <3>2. Turn(s) = {p}
      BY <1>13, <1>14, <3>1, Latests
    <3>3. sessions[s].pending \in {0, sessions[s].era}
      BY <2>1, <2>2, <2>5, <3>2 DEF PendingTold
    <3>4. seen \in {0, prompt[p].seen, sessions[own].pending}
      BY <1>13
    <3> QED BY <1>9, <2>1, <2>2, <2>3, <2>5, <3>1, <3>3, <3>4
  <2> QED BY <2>4, <2>5
<1>17. PendingTold'
  BY <1>15, <1>16 DEF PendingTold
<1> QED BY <1>3, <1>5, <1>10, <1>11, <1>12, <1>17

(* The end of a turn takes away what it held, and what was stopped with it. *)
LEMMA EndKeeps == ASSUME IInv, NEW p \in Prompts, EndTurn(p) PROVE IInv'
<1> USE DEF IInv
<1> DEFINE it == [NewCall EXCEPT !.at = "answered", !.session = prompt[p].session, !.ran = prompt[p].ran]
<1>1. /\ prompt \in [Prompts -> Call] /\ child \in [Prompts -> Child] /\ prompt[p] \in Call
      /\ \A s \in Sessions : sessions[s] \in Session
  BY DEF TypeOK
<1>2. /\ InTurn(p) /\ UNCHANGED <<closed, closer, shutdown>>
      /\ prompt' = [prompt EXCEPT ![p] = it] /\ child' = [child EXCEPT ![p] = NoChild]
      /\ \A s \in Sessions : sessions'[s] =
           IF s \notin prompt[p].session THEN sessions[s]
           ELSE [sessions[s] EXCEPT !.pending = IF prompt[p].ctx = "live" THEN @ ELSE 0,
                                    !.is = IF sessions[s].closing THEN "deleted" ELSE @]
  BY DEF EndTurn, Return, InTurn
<1>3. it \in Call /\ NoChild \in Child /\ it.at = "answered" /\ it.session = prompt[p].session
  BY <1>1 DEF Call, NewCall, Child, NoChild, Place, Contexts, Causes, Outcomes, Answers
<1>4. \A s \in Sessions :
        /\ sessions'[s] \in Session
        /\ s \notin prompt[p].session => sessions'[s] = sessions[s]
        /\ sessions'[s].closing = sessions[s].closing /\ sessions'[s].era = sessions[s].era
        /\ sessions'[s].turn = sessions[s].turn
        /\ sessions'[s].pending = IF s \in prompt[p].session /\ prompt[p].ctx # "live" THEN 0 ELSE sessions[s].pending
        /\ sessions'[s].is = IF s \in prompt[p].session /\ sessions[s].closing THEN "deleted" ELSE sessions[s].is
  <2> TAKE s \in Sessions
  <2>1. CASE s \notin prompt[p].session
    BY <1>1, <1>2, <2>1
  <2>2. CASE s \in prompt[p].session
    <3> DEFINE old == sessions[s] said == IF prompt[p].ctx = "live" THEN old.pending ELSE 0
               is == IF old.closing THEN "deleted" ELSE old.is
    <3>1. sessions'[s] = [old EXCEPT !.pending = said, !.is = is]
      BY <1>2, <2>2
    <3>2. old \in Session
      BY <1>1
    <3>3. said \in Nat /\ is \in {"none", "open", "deleted"}
      BY <3>2 DEF Session
    <3>4. said = (IF prompt[p].ctx # "live" THEN 0 ELSE old.pending) /\ is = IF old.closing THEN "deleted" ELSE old.is
      OBVIOUS
    <3> HIDE DEF old, said, is
    <3>5. /\ sessions'[s] \in Session /\ sessions'[s].pending = said /\ sessions'[s].is = is
          /\ sessions'[s].closing = old.closing /\ sessions'[s].era = old.era /\ sessions'[s].turn = old.turn
      BY <3>1, <3>2, <3>3 DEF Session
    <3> QED BY <2>2, <3>4, <3>5 DEF old
  <2> QED BY <2>1, <2>2
<1>5. TypeOK'
  <2>1. sessions' \in [Sessions -> Session]
    BY <1>4 DEF EndTurn
  <2> QED BY <1>1, <1>2, <1>3, <2>1 DEF TypeOK
<1>6. \A q \in Prompts : IF q = p THEN prompt'[q] = it /\ child'[q] = NoChild
                         ELSE prompt'[q] = prompt[q] /\ child'[q] = child[q]
  BY <1>1, <1>2
<1>7. Told'
  <2>1. ChildTold(it, NoChild) /\ CauseTold(it, NoChild)
    BY <1>1 DEF ChildTold, CauseTold, NewCall, NoChild, Before, Running, After
  <2> QED BY <1>6, <2>1 DEF Told
<1>8. PICK own \in Sessions : prompt[p].session = {own} /\ sessions[own].turn = p
  BY <1>2 DEF TurnHeld
<1> HIDE DEF it
<1>9. \A q \in Prompts : /\ InTurn(q)' <=> q # p /\ InTurn(q)
                         /\ prompt'[q].session = prompt[q].session
  BY <1>3, <1>6 DEF InTurn
<1>10. Fewer
  BY <1>9 DEF Fewer
<1>11. TurnHeld'
  <2>1. ASSUME NEW q \in Prompts, InTurn(q)'
        PROVE  \E s \in Sessions : prompt'[q].session = {s} /\ sessions'[s].turn = q /\ sessions'[s].is = "open"
    BY <1>4, <1>8, <1>9, <2>1 DEF TurnHeld
  <2>2. ASSUME NEW s \in Sessions, sessions'[s].turn # NoTurn PROVE prompt'[sessions'[s].turn].session = {s}
    BY <1>4, <1>9, <2>2, Latests DEF TurnHeld
  <2>3. \A q \in Prompts : prompt'[q].at = "new" => prompt'[q] = NewCall
    BY <1>3, <1>6 DEF TurnHeld
  <2> QED BY <2>1, <2>2, <2>3 DEF TurnHeld
<1>12. ClosersSee'
  BY <1>2, <1>4, <1>10, ClosersStay
<1>13. ShutdownSees'
  BY <1>2, <1>10, ShutdownStays
<1>14. ASSUME NEW s \in Sessions, sessions'[s].pending # 0
       PROVE  sessions'[s].pending = sessions'[s].era \/ \E q \in Turn(s)' : prompt'[q].ctx # "live"
  <2>1. sessions[s].pending # 0 /\ sessions'[s].pending = sessions[s].pending /\ sessions'[s].era = sessions[s].era
        /\ (s = own => prompt[p].ctx = "live")
    BY <1>4, <1>8, <1>14
  <2>2. CASE sessions[s].pending = sessions[s].era
    BY <2>1, <2>2
  <2>3. CASE \E q \in Turn(s) : prompt[q].ctx # "live"
    <3>1. PICK q \in Turn(s) : prompt[q].ctx # "live"
      BY <2>3
    <3>2. q \in Prompts /\ q = sessions[s].turn /\ InTurn(q)
      BY <3>1, Latests
    <3>3. q # p
      <4>1. prompt[q].session = {s}
        BY <3>2, NotAPrompt DEF TurnHeld
      <4> QED BY <1>8, <2>1, <3>1, <4>1
    <3>4. q \in Turn(s)'
      BY <1>4, <1>9, <3>2, <3>3, NotAPrompt DEF Turn, Latest
    <3> QED BY <1>6, <3>1, <3>2, <3>3, <3>4
  <2> QED BY <2>1, <2>2, <2>3 DEF PendingTold
<1>15. ASSUME NEW q \in Prompts, InTurn(q)', prompt'[q].ctx = "live", NEW s \in prompt'[q].session
       PROVE  prompt'[q].era = sessions'[s].era /\ prompt'[q].seen \in {0, sessions'[s].era}
  <2>1. InTurn(q) /\ q # p /\ prompt'[q] = prompt[q]
    BY <1>6, <1>9, <1>15
  <2>2. s \in Sessions
    BY <1>15, <2>1 DEF TurnHeld
  <2> QED BY <1>4, <1>15, <2>1, <2>2 DEF PendingTold
<1>16. PendingTold'
  BY <1>14, <1>15 DEF PendingTold
<1> QED BY <1>5, <1>7, <1>11, <1>12, <1>13, <1>16

(* A turn begins in a session that has none, with nothing in hand. *)
LEMMA BeginKeeps ==
  ASSUME IInv, NEW p \in Prompts, NEW s \in Sessions, BeginTurn(p, s), Admits(s) PROVE IInv'
<1> USE DEF IInv
<1> DEFINE it == [NewCall EXCEPT !.at = "parse", !.session = {s}, !.era = sessions[s].era]
<1>1. /\ prompt \in [Prompts -> Call] /\ child \in [Prompts -> Child] /\ sessions[s] \in Session
      /\ prompt[p] = NewCall /\ UNCHANGED <<closed, child, closer, shutdown>>
      /\ sessions' = [sessions EXCEPT ![s].turn = p]
      /\ ~closed /\ sessions[s].is = "open" /\ ~sessions[s].closing /\ ~Busy(s) /\ sessions[s].era \in Nat
  BY DEF TypeOK, BeginTurn, Admits, TurnHeld, Session
<1>2. prompt[p].at = "new" /\ prompt[p].session = {}
  <2>1. NewCall.at = "new" /\ NewCall.session = {}
    BY DEF NewCall
  <2> QED BY <1>1, <2>1
<1>3. prompt' = [prompt EXCEPT ![p] = it]
  BY <1>1 DEF BeginTurn
<1>4. it \in Call /\ it.at = "parse" /\ it.session = {s} /\ it.era = sessions[s].era /\ it.seen = 0
      /\ [sessions[s] EXCEPT !.turn = p] \in Session
  BY <1>1 DEF Call, NewCall, Place, Before, Contexts, Causes, Outcomes, Answers, Session
<1>5. TypeOK'
  BY <1>1, <1>3, <1>4 DEF TypeOK
<1>6. ChildTold(it, child[p]) /\ CauseTold(it, child[p])
  <2>1. child[p].leader = "none" /\ child[p].kin = "none"
    BY <1>2 DEF Told, ChildTold
  <2> QED BY <2>1 DEF ChildTold, CauseTold, NewCall, Before, Running, After
<1> HIDE DEF it
<1>7. \A q \in Prompts : prompt'[q] = IF q = p THEN it ELSE prompt[q]
  BY <1>1, <1>3
<1>8. Told'
  BY <1>1, <1>6, <1>7 DEF Told
<1>9. \A x \in Sessions : IF x = s THEN sessions'[x] = [sessions[s] EXCEPT !.turn = p] ELSE sessions'[x] = sessions[x]
  BY <1>1 DEF TypeOK
<1>10. \A x \in Sessions :
         /\ sessions'[x].is = sessions[x].is /\ sessions'[x].closing = sessions[x].closing
         /\ sessions'[x].pending = sessions[x].pending /\ sessions'[x].era = sessions[x].era
         /\ sessions'[x].turn = IF x = s THEN p ELSE sessions[x].turn
  BY <1>1, <1>9 DEF Session
<1>11. \A q \in Prompts : /\ InTurn(q)' <=> q = p \/ InTurn(q)
                          /\ q # p => prompt'[q] = prompt[q]
  BY <1>4, <1>7 DEF InTurn
<1>12. \A q \in Prompts : InTurn(q) => q # p /\ q # sessions[s].turn
  BY <1>1, <1>2, Latests DEF Busy, InTurn
<1>13. \A x \in Sessions : sessions[x].turn # p
  BY <1>2, NotAPrompt DEF TurnHeld
<1>14. TurnHeld'
  <2>1. ASSUME NEW q \in Prompts, InTurn(q)'
        PROVE  \E x \in Sessions : prompt'[q].session = {x} /\ sessions'[x].turn = q /\ sessions'[x].is = "open"
    <3>1. CASE q = p
      BY <1>1, <1>4, <1>7, <1>10, <3>1
    <3>2. CASE q # p
      <4>1. InTurn(q) /\ prompt'[q] = prompt[q]
        BY <1>11, <2>1, <3>2
      <4>2. PICK x \in Sessions : prompt[q].session = {x} /\ sessions[x].turn = q /\ sessions[x].is = "open"
        BY <4>1 DEF TurnHeld
      <4> QED BY <1>10, <1>12, <4>1, <4>2
    <3> QED BY <3>1, <3>2
  <2>2. ASSUME NEW x \in Sessions, sessions'[x].turn # NoTurn PROVE prompt'[sessions'[x].turn].session = {x}
    <3>1. CASE x = s
      BY <1>4, <1>7, <1>10, <3>1
    <3>2. CASE x # s
      BY <1>10, <1>11, <1>13, <2>2, <3>2, Latests DEF TurnHeld
    <3> QED BY <3>1, <3>2
  <2>3. \A q \in Prompts : prompt'[q].at = "new" => prompt'[q] = NewCall
    BY <1>4, <1>7 DEF TurnHeld
  <2> QED BY <2>1, <2>2, <2>3 DEF TurnHeld
<1>15. ClosersSee'
  <2>1. ASSUME NEW c \in Closers, closer[c].at \in {"waiting", "ok"}
        PROVE  \E x \in Sessions :
                 /\ closer[c].session = {x} /\ sessions'[x].is # "none"
                 /\ sessions'[x].closing \/ sessions'[x].is = "deleted"
                 /\ \A q \in Prompts : InTurn(q)' /\ prompt'[q].session = {x} => closer[c].at = "waiting" /\ q \in closer[c].on
    <3>1. PICK x \in Sessions :
            /\ closer[c].session = {x} /\ sessions[x].is # "none"
            /\ sessions[x].closing \/ sessions[x].is = "deleted"
            /\ \A q \in Prompts : InTurn(q) /\ prompt[q].session = {x} => closer[c].at = "waiting" /\ q \in closer[c].on
      BY <2>1 DEF ClosersSee
    <3>2. x # s
      BY <1>1, <3>1
    <3>3. prompt'[p].session # {x}
      BY <1>4, <1>7, <3>2
    <3> QED BY <1>10, <1>11, <3>1, <3>3
  <2> QED BY <1>1, <2>1 DEF ClosersSee
<1>16. ShutdownSees'
  BY <1>1 DEF ShutdownSees
<1>17. ASSUME NEW x \in Sessions, sessions'[x].pending # 0
       PROVE  sessions'[x].pending = sessions'[x].era \/ \E q \in Turn(x)' : prompt'[q].ctx # "live"
  <2>1. CASE sessions[x].pending = sessions[x].era
    BY <1>10, <2>1
  <2>2. CASE \E q \in Turn(x) : prompt[q].ctx # "live"
    <3>1. PICK q \in Turn(x) : prompt[q].ctx # "live"
      BY <2>2
    <3>2. q \in Prompts /\ q = sessions[x].turn /\ InTurn(q)
      BY <3>1, Latests
    <3>3. x # s /\ q # p
      BY <1>12, <3>2
    <3>4. q \in Turn(x)'
      BY <1>10, <1>11, <3>2, <3>3, NotAPrompt DEF Turn, Latest
    <3> QED BY <1>11, <3>1, <3>2, <3>3, <3>4
  <2> QED BY <1>10, <1>17, <2>1, <2>2 DEF PendingTold
<1>18. ASSUME NEW q \in Prompts, InTurn(q)', prompt'[q].ctx = "live", NEW x \in prompt'[q].session
       PROVE  prompt'[q].era = sessions'[x].era /\ prompt'[q].seen \in {0, sessions'[x].era}
  <2>1. CASE q = p
    BY <1>4, <1>7, <1>10, <1>18, <2>1
  <2>2. CASE q # p
    <3>1. InTurn(q) /\ prompt'[q] = prompt[q]
      BY <1>11, <1>18, <2>2
    <3>2. x \in Sessions
      BY <1>18, <3>1 DEF TurnHeld
    <3> QED BY <1>10, <1>18, <3>1, <3>2 DEF PendingTold
  <2> QED BY <2>1, <2>2
<1>19. PendingTold'
  BY <1>17, <1>18 DEF PendingTold
<1> QED BY <1>5, <1>8, <1>14, <1>15, <1>16, <1>19

(* A prompt that is not admitted is answered at once. *)
LEMMA RefusalKeeps ==
  ASSUME IInv, NEW p \in Prompts, NEW s \in Sessions, BeginTurn(p, s), ~Admits(s) PROVE IInv'
<1> USE DEF IInv
<1> DEFINE it == [NewCall EXCEPT !.at = "answered", !.answer = "refused"]
<1>1. /\ prompt \in [Prompts -> Call] /\ prompt[p] = NewCall /\ prompt[p].at = "new"
      /\ UNCHANGED <<sessions, closed, child, closer, shutdown>>
  BY DEF TypeOK, BeginTurn, TurnHeld
<1>2. prompt' = [prompt EXCEPT ![p] = it]
  BY <1>1 DEF BeginTurn
<1>3. it \in Call /\ it.at = "answered" /\ it.session = NewCall.session /\ it.era = NewCall.era
      /\ it.ctx = NewCall.ctx /\ it.seen = NewCall.seen
  BY DEF Call, NewCall, Place, Contexts, Causes, Outcomes, Answers
<1>4. ChildTold(it, child[p]) /\ CauseTold(it, child[p])
  <2>1. child[p].leader = "none" /\ child[p].kin = "none"
    BY <1>1 DEF Told, ChildTold, NewCall
  <2> QED BY <2>1 DEF ChildTold, CauseTold, NewCall, Before, Running, After
<1> HIDE DEF it
<1>5. \A q \in Prompts : prompt'[q] = IF q = p THEN it ELSE prompt[q]
  BY <1>1, <1>2
<1>6. TypeOK'
  BY <1>1, <1>2, <1>3 DEF TypeOK
<1>7. Told'
  BY <1>1, <1>4, <1>5 DEF Told
<1>8. Stays /\ (\A q \in Prompts : prompt'[q].seen = prompt[q].seen)
  BY <1>1, <1>3, <1>5 DEF Stays, InTurn, TurnHeld
<1>9. Fewer
  BY <1>8 DEF Stays, Fewer
<1> QED BY <1>1, <1>6, <1>7, <1>8, <1>9, TurnStays, ClosersStay, ShutdownStays, PendingStays

(* What ends turns from outside leaves each where it was, with its context. *)
LEMMA CancelsTold ==
  ASSUME TypeOK, Told, TurnHeld, UNCHANGED child, NEW S, \A q \in S : InTurn(q),
         prompt' = [p \in Prompts |-> IF p \in S THEN Cancelled(p) ELSE prompt[p]]
  PROVE  /\ prompt' \in [Prompts -> Call] /\ Told' /\ Stays /\ Fewer
         /\ \A q \in Prompts : prompt'[q].seen = prompt[q].seen
         /\ \A q \in Prompts : q \in S => prompt'[q].ctx # "live"
<1>1. ASSUME NEW q \in Prompts
      PROVE  /\ prompt'[q] \in Call /\ ChildTold(prompt'[q], child'[q]) /\ CauseTold(prompt'[q], child'[q])
             /\ prompt'[q].at = prompt[q].at /\ prompt'[q].session = prompt[q].session
             /\ prompt'[q].era = prompt[q].era /\ prompt'[q].seen = prompt[q].seen
             /\ prompt'[q].ctx = "live" => prompt[q].ctx = "live" /\ prompt'[q] = prompt[q]
             /\ q \in S => prompt'[q].ctx # "live"
             /\ q \notin S => prompt'[q] = prompt[q]
  <2>1. CASE q \notin S
    <3>1. prompt'[q] = prompt[q] /\ child'[q] = child[q]
      BY <2>1
    <3> QED BY <2>1, <3>1 DEF TypeOK, Told
  <2>2. CASE q \in S
    <3> DEFINE it == prompt[q] ch == child[q] ctx == IF it.ctx = "live" THEN "cancelled" ELSE it.ctx
               new == [it EXCEPT !.ctx = ctx]
    <3>1. prompt'[q] = new /\ child'[q] = ch /\ it \in Call /\ ChildTold(it, ch) /\ CauseTold(it, ch)
      BY <2>2, AtHand DEF Cancelled
    <3>2. it.ctx \in Contexts
      BY <3>1 DEF Call
    <3>3. ctx \in Contexts /\ ctx # "live" /\ (it.ctx = "cancelled" => ctx = "cancelled")
      BY <3>2 DEF Contexts
    <3> HIDE DEF it, ch, ctx
    <3>4. new \in Call /\ new.at = it.at /\ new.session = it.session /\ new.era = it.era /\ new.seen = it.seen
          /\ new.ctx = ctx
      BY <3>1, <3>3 DEF Call
    <3>5. ChildTold(new, ch)
      BY <3>1 DEF Call, ChildTold, Before, Running, After
    <3>6. CauseTold(new, ch)
      BY <3>1, <3>3 DEF Call, CauseTold, Before, Running, After
    <3> HIDE DEF new
    <3> QED BY <2>2, <3>1, <3>3, <3>4, <3>5, <3>6 DEF it
  <2> QED BY <2>1, <2>2
<1>2. prompt' \in [Prompts -> Call] /\ Told'
  BY <1>1 DEF Told
<1>3. \A q \in Prompts : prompt'[q].at = "new" => q \notin S /\ prompt'[q] = prompt[q] /\ prompt[q].at = "new"
  BY <1>1 DEF InTurn
<1>4. Stays
  BY <1>1, <1>3 DEF Stays, InTurn, TurnHeld
<1>5. Fewer
  BY <1>1, <1>4 DEF Stays, Fewer
<1> QED BY <1>1, <1>2, <1>4, <1>5

(* A new session has no turn, no closer and nothing pending. *)
LEMMA NewSessionKeeps == ASSUME IInv, NEW s \in Sessions, NewSession(s) PROVE IInv'
<1> USE DEF IInv
<1>1. /\ sessions[s].is = "none" /\ UNCHANGED <<closed, prompt, child, closer, shutdown>>
      /\ sessions' = [sessions EXCEPT ![s].is = "open"] /\ \A x \in Sessions : sessions[x] \in Session
      /\ [sessions[s] EXCEPT !.is = "open"] \in Session
  BY DEF NewSession, TypeOK, Session
<1>2. TypeOK'
  BY <1>1 DEF TypeOK
<1>3. Told'
  BY <1>1 DEF Told
<1>4. Stays /\ Fewer
  BY <1>1 DEF Stays, Fewer, InTurn, TurnHeld
<1>5. \A x \in Sessions :
        /\ sessions'[x].is = IF x = s THEN "open" ELSE sessions[x].is
        /\ sessions'[x].closing = sessions[x].closing /\ sessions'[x].pending = sessions[x].pending
        /\ sessions'[x].era = sessions[x].era /\ sessions'[x].turn = sessions[x].turn
  BY <1>1 DEF TypeOK, Session
<1>6. TurnHeld'
  <2>1. \A q \in Prompts : InTurn(q) => \A x \in prompt[q].session : sessions'[x].is = sessions[x].is
    BY <1>1, <1>5 DEF TurnHeld
  <2> QED BY <1>4, <1>5, <2>1, TurnStays
<1>7. ClosersSee' /\ ShutdownSees'
  BY <1>1, <1>4, <1>5, ClosersStay, ShutdownStays
<1>8. PendingTold'
  BY <1>1, <1>4, <1>5, <1>6, PendingStays
<1> QED BY <1>2, <1>3, <1>6, <1>7, <1>8

(* session/cancel: the next era, and what was said before is forgotten. *)
LEMMA CancelKeeps == ASSUME IInv, NEW s \in Sessions, Cancel(s) PROVE IInv'
<1> USE DEF IInv
<1>1. /\ UNCHANGED <<closed, child, closer, shutdown>>
      /\ sessions' = [sessions EXCEPT ![s].pending = 0, ![s].era = @ + 1]
      /\ prompt' = [p \in Prompts |-> IF p \in Turn(s) THEN Cancelled(p) ELSE prompt[p]]
      /\ \A x \in Sessions : sessions[x] \in Session
  BY DEF Cancel, TypeOK
<1>2. \A q \in Turn(s) : InTurn(q) /\ q \in Prompts
  BY Latests
<1>3. /\ prompt' \in [Prompts -> Call] /\ Told' /\ Stays /\ Fewer
      /\ \A q \in Prompts : prompt'[q].seen = prompt[q].seen
      /\ \A q \in Prompts : q \in Turn(s) => prompt'[q].ctx # "live"
  BY <1>1, <1>2, CancelsTold
<1>4. \A x \in Sessions :
        /\ sessions'[x] \in Session
        /\ sessions'[x].is = sessions[x].is /\ sessions'[x].closing = sessions[x].closing
        /\ sessions'[x].turn = sessions[x].turn
        /\ x # s => sessions'[x].pending = sessions[x].pending /\ sessions'[x].era = sessions[x].era
        /\ x = s => sessions'[x].pending = 0
  <2> DEFINE old == sessions[s] era == old.era + 1 new == [old EXCEPT !.pending = 0, !.era = era]
  <2>1. sessions' = [sessions EXCEPT ![s] = new]
    BY <1>1 DEF TypeOK
  <2>2. old \in Session
    BY <1>1
  <2>3. era \in Nat \ {0}
    BY <2>2 DEF Session
  <2> HIDE DEF old, era
  <2>4. new \in Session /\ new.is = old.is /\ new.closing = old.closing /\ new.turn = old.turn /\ new.pending = 0
    BY <2>2, <2>3 DEF Session
  <2>5. /\ new \in Session /\ new.is = sessions[s].is /\ new.closing = sessions[s].closing
        /\ new.turn = sessions[s].turn /\ new.pending = 0
    BY <2>4 DEF old
  <2> HIDE DEF new
  <2> QED BY <1>1, <2>1, <2>5 DEF TypeOK
<1>5. TypeOK'
  <2>1. sessions' \in [Sessions -> Session]
    BY <1>1, <1>4 DEF TypeOK
  <2> QED BY <1>1, <1>3, <2>1 DEF TypeOK
<1>6. TurnHeld'
  <2>1. \A q \in Prompts : InTurn(q) => \A x \in prompt[q].session : sessions'[x].is = sessions[x].is
    BY <1>4 DEF TurnHeld
  <2> QED BY <1>3, <1>4, <2>1, TurnStays
<1>7. ClosersSee' /\ ShutdownSees'
  BY <1>1, <1>3, <1>4, ClosersStay, ShutdownStays
<1>8. PendingTold'
  <2>1. \A p \in Turn(s) : prompt'[p].ctx # "live"
    BY <1>2, <1>3
  <2> QED BY <1>3, <1>4, <2>1, PendingStays
<1> QED BY <1>3, <1>5, <1>6, <1>7, <1>8

(* CloseSession: no turn begins any more, and it waits for the one there is. *)
LEMMA CloseSessionKeeps ==
  ASSUME IInv, NEW c \in Closers, NEW s \in Sessions, CloseSession(c, s) PROVE IInv'
<1> USE DEF IInv
<1> DEFINE S == IF sessions[s].is = "open" THEN Turn(s) ELSE {}
           on == IF sessions[s].is = "open" THEN Latest(s) ELSE {}
           it == [at |-> "waiting", session |-> {s}, on |-> on]
<1>1. /\ UNCHANGED <<closed, child, shutdown>> /\ closer' = [closer EXCEPT ![c] = it]
      /\ \A x \in Sessions : sessions[x] \in Session
      /\ sessions[s].is # "none"
  BY DEF CloseSession, TypeOK
<1>2. \A q \in S : InTurn(q) /\ q \in Prompts
  BY Latests
<1>3. prompt' = [p \in Prompts |-> IF p \in S THEN Cancelled(p) ELSE prompt[p]]
  <2>1. CASE sessions[s].is = "open"
    BY <2>1 DEF CloseSession
  <2>2. CASE sessions[s].is # "open"
    BY <2>2 DEF CloseSession, TypeOK
  <2> QED BY <2>1, <2>2
<1> HIDE DEF S
<1>4. /\ prompt' \in [Prompts -> Call] /\ Told' /\ Stays /\ Fewer
      /\ \A q \in Prompts : prompt'[q].seen = prompt[q].seen
      /\ \A q \in Prompts : q \in S => prompt'[q].ctx # "live"
  BY <1>1, <1>2, <1>3, CancelsTold
<1>5. \A x \in Sessions :
        /\ sessions'[x] \in Session
        /\ sessions'[x].is = sessions[x].is /\ sessions'[x].turn = sessions[x].turn
        /\ sessions'[x].era = sessions[x].era
        /\ sessions[x].closing => sessions'[x].closing
        /\ sessions'[x].pending \in {0, sessions[x].pending}
        /\ x = s /\ sessions[s].is = "open" => sessions'[s].closing
  <2>1. CASE sessions[s].is = "open"
    <3> DEFINE old == sessions[s] new == [old EXCEPT !.closing = TRUE, !.pending = 0]
    <3>1. sessions' = [sessions EXCEPT ![s] = new]
      BY <2>1 DEF TypeOK, CloseSession
    <3>2. old \in Session
      BY <1>1
    <3> HIDE DEF old
    <3>3. new \in Session /\ new.is = old.is /\ new.closing /\ new.turn = old.turn /\ new.pending = 0 /\ new.era = old.era
      BY <3>2 DEF Session
    <3> HIDE DEF new
    <3> QED BY <1>1, <3>1, <3>3 DEF TypeOK, old
  <2>2. CASE sessions[s].is # "open"
    BY <1>1, <2>2 DEF CloseSession
  <2> QED BY <2>1, <2>2
<1>6. on \subseteq Prompts
  BY Latests, NotAPrompt DEF Latest
<1>7. TypeOK'
  <2>1. sessions' \in [Sessions -> Session]
    BY <1>1, <1>5 DEF TypeOK, CloseSession
  <2>2. it \in [at : {"new", "waiting", "ok", "given up"}, session : SUBSET Sessions, on : SUBSET Prompts]
    BY <1>6
  <2> HIDE DEF it, on
  <2> QED BY <1>1, <1>4, <2>1, <2>2 DEF TypeOK
<1>8. TurnHeld'
  <2>1. \A q \in Prompts : InTurn(q) => \A x \in prompt[q].session : sessions'[x].is = sessions[x].is
    BY <1>5 DEF TurnHeld
  <2> QED BY <1>4, <1>5, <2>1, TurnStays
<1>9. ClosersSee'
  <2>1. ASSUME NEW d \in Closers, closer'[d].at \in {"waiting", "ok"}
        PROVE  \E x \in Sessions :
                 /\ closer'[d].session = {x} /\ sessions'[x].is # "none"
                 /\ sessions'[x].closing \/ sessions'[x].is = "deleted"
                 /\ \A q \in Prompts : InTurn(q)' /\ prompt'[q].session = {x} => closer'[d].at = "waiting" /\ q \in closer'[d].on
    <3>1. CASE d # c
      <4>1. closer'[d] = closer[d]
        BY <1>1, <3>1 DEF TypeOK
      <4>2. PICK x \in Sessions :
              /\ closer[d].session = {x} /\ sessions[x].is # "none"
              /\ sessions[x].closing \/ sessions[x].is = "deleted"
              /\ \A q \in Prompts : InTurn(q) /\ prompt[q].session = {x} => closer[d].at = "waiting" /\ q \in closer[d].on
        BY <2>1, <4>1 DEF ClosersSee
      <4> QED BY <1>4, <1>5, <4>1, <4>2 DEF Fewer
    <3>2. CASE d = c
      <4>1. closer'[d].at = "waiting" /\ closer'[d].session = {s} /\ closer'[d].on = on
        BY <1>1, <3>2 DEF TypeOK
      <4>2. sessions'[s].is # "none" /\ (sessions'[s].closing \/ sessions'[s].is = "deleted")
        BY <1>1, <1>5 DEF Session
      <4>3. ASSUME NEW q \in Prompts, InTurn(q)', prompt'[q].session = {s} PROVE q \in on
        <5>1. InTurn(q) /\ prompt[q].session = {s}
          BY <1>4, <4>3 DEF Fewer
        <5>2. sessions[s].turn = q /\ sessions[s].is = "open"
          BY <5>1 DEF TurnHeld
        <5> QED BY <5>2, NotAPrompt DEF Latest
      <4> QED BY <4>1, <4>2, <4>3
    <3> QED BY <3>1, <3>2
  <2> QED BY <2>1 DEF ClosersSee
<1>10. ShutdownSees'
  BY <1>1, <1>4, ShutdownStays
<1>11. PendingTold'
  BY <1>4, <1>5, PendingStays
<1> QED BY <1>4, <1>7, <1>8, <1>9, <1>10, <1>11

(* CloseSession returns: the session is gone when the turn is over. *)
LEMMA CloseReturnsKeeps == ASSUME IInv, NEW c \in Closers, CloseReturns(c) PROVE IInv'
<1> USE DEF IInv
<1>1. /\ UNCHANGED <<closed, prompt, child, shutdown>> /\ closer[c].at = "waiting"
      /\ \A x \in Sessions : sessions[x] \in Session
  BY DEF CloseReturns, TypeOK
<1>2. Stays /\ Fewer /\ (\A q \in Prompts : prompt'[q].seen = prompt[q].seen)
  BY <1>1 DEF Stays, Fewer, InTurn, TurnHeld
<1>3. PICK own \in Sessions :
        /\ closer[c].session = {own}
        /\ \A q \in Prompts : InTurn(q) /\ prompt[q].session = {own} => q \in closer[c].on
  BY <1>1 DEF ClosersSee
<1>4. ASSUME NEW where \in {"ok", "given up"}, closer' = [closer EXCEPT ![c].at = where]
      PROVE  /\ closer' \in [Closers -> [at : {"new", "waiting", "ok", "given up"}, session : SUBSET Sessions, on : SUBSET Prompts]]
             /\ \A d \in Closers : d # c => closer'[d] = closer[d]
             /\ closer'[c].at = where /\ closer'[c].session = closer[c].session
  <2>1. closer \in [Closers -> [at : {"new", "waiting", "ok", "given up"}, session : SUBSET Sessions, on : SUBSET Prompts]]
    BY DEF TypeOK
  <2> QED BY <1>4, <2>1
<1>5. CASE /\ \A p \in closer[c].on : ~InTurn(p)
           /\ closer' = [closer EXCEPT ![c].at = "ok"]
           /\ sessions' = [s \in Sessions |-> IF s \in closer[c].session THEN [sessions[s] EXCEPT !.is = "deleted"] ELSE sessions[s]]
  <2>1. \A x \in Sessions :
          /\ sessions'[x] \in Session
          /\ sessions'[x].is = IF x = own THEN "deleted" ELSE sessions[x].is
          /\ sessions'[x].closing = sessions[x].closing /\ sessions'[x].turn = sessions[x].turn
          /\ sessions'[x].pending = sessions[x].pending /\ sessions'[x].era = sessions[x].era
    BY <1>1, <1>3, <1>5 DEF Session
  <2>2. TypeOK'
    <3>1. sessions' \in [Sessions -> Session]
      BY <1>5, <2>1
    <3>2. closer' \in [Closers -> [at : {"new", "waiting", "ok", "given up"}, session : SUBSET Sessions, on : SUBSET Prompts]]
      BY <1>4, <1>5
    <3> QED BY <1>1, <1>5, <3>1, <3>2 DEF TypeOK
  <2>3. Told'
    BY <1>1 DEF Told
  <2>4. \A q \in Prompts : InTurn(q) => prompt[q].session # {own}
    BY <1>3, <1>5
  <2>5. TurnHeld'
    <3>1. \A q \in Prompts : InTurn(q) => \A x \in prompt[q].session : sessions'[x].is = sessions[x].is
      BY <2>1, <2>4 DEF TurnHeld
    <3> QED BY <1>2, <2>1, <3>1, TurnStays
  <2>6. ClosersSee'
    <3>1. ASSUME NEW d \in Closers, closer'[d].at \in {"waiting", "ok"}
          PROVE  \E x \in Sessions :
                   /\ closer'[d].session = {x} /\ sessions'[x].is # "none"
                   /\ sessions'[x].closing \/ sessions'[x].is = "deleted"
                   /\ \A q \in Prompts : InTurn(q) /\ prompt[q].session = {x} => closer'[d].at = "waiting" /\ q \in closer'[d].on
      <4>1. CASE d # c
        <5>1. closer'[d] = closer[d]
          BY <1>4, <1>5, <4>1
        <5>2. PICK x \in Sessions :
                /\ closer[d].session = {x} /\ sessions[x].is # "none"
                /\ sessions[x].closing \/ sessions[x].is = "deleted"
                /\ \A q \in Prompts : InTurn(q) /\ prompt[q].session = {x} => closer[d].at = "waiting" /\ q \in closer[d].on
          BY <3>1, <5>1 DEF ClosersSee
        <5> QED BY <2>1, <5>1, <5>2
      <4>2. CASE d = c
        <5>1. closer'[d].session = {own}
          BY <1>3, <1>4, <1>5, <4>2
        <5> QED BY <2>1, <2>4, <5>1
      <4> QED BY <4>1, <4>2
    <3> QED BY <1>1, <3>1 DEF ClosersSee, InTurn
  <2>7. ShutdownSees'
    BY <1>1, <1>2, ShutdownStays
  <2>8. PendingTold'
    BY <1>2, <2>1, PendingStays
  <2> QED BY <2>2, <2>3, <2>5, <2>6, <2>7, <2>8
<1>6. CASE closer' = [closer EXCEPT ![c].at = "given up"] /\ UNCHANGED sessions
  <2>1. TypeOK'
    <3>1. closer' \in [Closers -> [at : {"new", "waiting", "ok", "given up"}, session : SUBSET Sessions, on : SUBSET Prompts]]
      BY <1>4, <1>6
    <3> QED BY <1>1, <1>6, <3>1 DEF TypeOK
  <2>2. Told'
    BY <1>1 DEF Told
  <2>3. TurnHeld' /\ ShutdownSees' /\ PendingTold'
    BY <1>1, <1>2, <1>6, TurnStays, ShutdownStays, PendingStays
  <2>4. ClosersSee'
    <3>1. \A d \in Closers : closer'[d].at \in {"waiting", "ok"} => closer'[d] = closer[d]
      BY <1>4, <1>6
    <3> QED BY <1>1, <1>6, <3>1 DEF ClosersSee, InTurn
  <2> QED BY <2>1, <2>2, <2>3, <2>4
<1> QED BY <1>5, <1>6 DEF CloseReturns

(* Shutdown: no session and no turn begins any more, and it waits for all there are. *)
LEMMA ShutdownKeeps == ASSUME IInv, Shutdown PROVE IInv'
<1> USE DEF IInv
<1> DEFINE open == {s \in Sessions : sessions[s].is = "open"}
           S == {p \in Prompts : \E s \in open : p \in Turn(s)}
           on == UNION {Latest(s) : s \in open}
<1>1. /\ UNCHANGED <<child, closer>> /\ closed' = TRUE /\ shutdown' = [at |-> "waiting", on |-> on]
      /\ sessions' = [s \in Sessions |-> IF s \in open THEN [sessions[s] EXCEPT !.pending = 0] ELSE sessions[s]]
      /\ prompt' = [p \in Prompts |-> IF p \in S THEN Cancelled(p) ELSE prompt[p]]
      /\ \A x \in Sessions : sessions[x] \in Session
  BY DEF Shutdown, TypeOK
<1>2. \A q \in S : InTurn(q)
  BY Latests
<1> HIDE DEF S
<1>3. /\ prompt' \in [Prompts -> Call] /\ Told' /\ Stays /\ Fewer
      /\ \A q \in Prompts : prompt'[q].seen = prompt[q].seen
  BY <1>1, <1>2, CancelsTold
<1>4. \A x \in Sessions :
        /\ sessions'[x] \in Session
        /\ sessions'[x].is = sessions[x].is /\ sessions'[x].closing = sessions[x].closing
        /\ sessions'[x].turn = sessions[x].turn /\ sessions'[x].era = sessions[x].era
        /\ sessions'[x].pending \in {0, sessions[x].pending}
  <2> TAKE x \in Sessions
  <2>1. sessions'[x] = IF x \in open THEN [sessions[x] EXCEPT !.pending = 0] ELSE sessions[x]
    BY <1>1
  <2> QED BY <1>1, <2>1 DEF Session
<1>5. on \subseteq Prompts
  BY Latests, NotAPrompt DEF Latest
<1>6. \A q \in Prompts : InTurn(q) => q \in on
  <2>1. ASSUME NEW q \in Prompts, InTurn(q) PROVE q \in on
    <3>1. PICK s \in Sessions : sessions[s].turn = q /\ sessions[s].is = "open"
      BY <2>1 DEF TurnHeld
    <3>2. s \in open /\ q \in Latest(s)
      BY <3>1, NotAPrompt DEF Latest
    <3> QED BY <3>2
  <2> QED BY <2>1
<1>7. TypeOK'
  <2>1. sessions' \in [Sessions -> Session]
    BY <1>1, <1>4
  <2> HIDE DEF on
  <2>2. shutdown' \in [at : {"none", "waiting", "ok", "late"}, on : SUBSET Prompts]
    BY <1>1, <1>5
  <2> QED BY <1>1, <1>3, <2>1, <2>2 DEF TypeOK
<1>8. TurnHeld'
  <2>1. \A q \in Prompts : InTurn(q) => \A x \in prompt[q].session : sessions'[x].is = sessions[x].is
    BY <1>4 DEF TurnHeld
  <2> QED BY <1>3, <1>4, <2>1, TurnStays
<1>9. ClosersSee'
  BY <1>1, <1>3, <1>4, ClosersStay
<1>10. ShutdownSees'
  <2> HIDE DEF on
  <2> QED BY <1>1, <1>3, <1>6 DEF ShutdownSees, Fewer
<1>11. PendingTold'
  BY <1>3, <1>4, PendingStays
<1> QED BY <1>3, <1>7, <1>8, <1>9, <1>10, <1>11

(* Shutdown returns: the turns it waited for are over, or its own time is. *)
LEMMA ShutdownReturnsKeeps == ASSUME IInv, ShutdownReturns PROVE IInv'
<1> USE DEF IInv
<1>1. /\ UNCHANGED <<sessions, closed, prompt, child, closer>> /\ shutdown.at = "waiting"
      /\ shutdown \in [at : {"none", "waiting", "ok", "late"}, on : SUBSET Prompts]
      /\ closed /\ \A p \in Prompts : InTurn(p) => p \in shutdown.on
  BY DEF ShutdownReturns, TypeOK, ShutdownSees
<1>2. /\ shutdown' \in [at : {"none", "waiting", "ok", "late"}, on : SUBSET Prompts] /\ shutdown'.on = shutdown.on
      /\ shutdown'.at = "ok" => \A p \in shutdown.on : ~InTurn(p)
  BY <1>1 DEF ShutdownReturns
<1>3. TypeOK' /\ Told'
  BY <1>1, <1>2 DEF TypeOK, Told
<1>4. ShutdownSees'
  BY <1>1, <1>2 DEF ShutdownSees, InTurn
<1>5. Stays /\ Fewer /\ (\A q \in Prompts : prompt'[q].seen = prompt[q].seen)
  BY <1>1 DEF Stays, Fewer, InTurn, TurnHeld
<1>6. TurnHeld' /\ ClosersSee' /\ PendingTold'
  BY <1>1, <1>5, TurnStays, ClosersStay, PendingStays
<1> QED BY <1>3, <1>4, <1>6

(* At first there is nothing to tell, hold or see. *)
LEMMA IInvInit == Init => IInv
<1> SUFFICES ASSUME Init PROVE IInv
  OBVIOUS
<1>1. NewCall \in Call /\ NewCall.at = "new"
  BY DEF NewCall, Call, Place, Contexts, Causes, Outcomes, Answers
<1>2. NoChild \in Child /\ ChildTold(NewCall, NoChild) /\ CauseTold(NewCall, NoChild)
  BY DEF NewCall, NoChild, Child, ChildTold, CauseTold, Before, Running, After
<1>3. \A p \in Prompts : prompt[p] = NewCall /\ child[p] = NoChild /\ ~InTurn(p)
  BY <1>1 DEF Init, InTurn
<1>4. \A s \in Sessions : sessions[s] \in Session /\ sessions[s].turn = NoTurn /\ sessions[s].pending = 0
  BY DEF Init, Session
<1>5. TypeOK
  BY <1>1, <1>2, <1>4 DEF Init, TypeOK
<1>6. Told
  BY <1>2, <1>3 DEF Told
<1>7. TurnHeld
  BY <1>3, <1>4 DEF TurnHeld
<1>8. ClosersSee /\ ShutdownSees
  BY DEF Init, ClosersSee, ShutdownSees
<1>9. PendingTold
  BY <1>3, <1>4 DEF PendingTold
<1> QED BY <1>5, <1>6, <1>7, <1>8, <1>9 DEF IInv

(* Every step keeps the invariant. *)
LEMMA IInvNext == IInv /\ [Next]_vars => IInv'
<1> SUFFICES ASSUME IInv, [Next]_vars PROVE IInv'
  OBVIOUS
<1>1. ASSUME NEW p \in Prompts, Step(p) \/ Leave(p) \/ Progress(p) \/ Deadline(p) PROVE IInv'
  <2>1. CASE EndTurn(p)
    BY <2>1, EndKeeps
  <2>2. CASE ~EndTurn(p)
    BY <1>1, <2>2, StepGoes, GoesKeeps DEF IInv
  <2> QED BY <2>1, <2>2
<1>2. ASSUME NEW p \in Prompts, NEW s \in Sessions, BeginTurn(p, s) PROVE IInv'
  BY <1>2, BeginKeeps, RefusalKeeps
<1>3. ASSUME NEW s \in Sessions, NewSession(s) \/ Cancel(s) \/ \E c \in Closers : CloseSession(c, s) PROVE IInv'
  BY <1>3, NewSessionKeeps, CancelKeeps, CloseSessionKeeps
<1>4. ASSUME NEW c \in Closers, CloseReturns(c) PROVE IInv'
  BY <1>4, CloseReturnsKeeps
<1>5. CASE Shutdown \/ ShutdownReturns
  BY <1>5, ShutdownKeeps, ShutdownReturnsKeeps
<1>6. CASE UNCHANGED vars
  <2>1. /\ UNCHANGED <<sessions, closed, prompt, child, closer, shutdown>>
        /\ TypeOK /\ Told /\ TurnHeld /\ ClosersSee /\ ShutdownSees /\ PendingTold
    BY <1>6 DEF vars, IInv
  <2>2. TypeOK' /\ Told'
    BY <2>1 DEF TypeOK, Told
  <2>3. Stays /\ Fewer /\ (\A q \in Prompts : prompt'[q].seen = prompt[q].seen)
    BY <2>1 DEF Stays, Fewer, InTurn, TurnHeld
  <2> QED BY <2>1, <2>2, <2>3, TurnStays, ClosersStay, ShutdownStays, PendingStays DEF IInv
<1> QED BY <1>1, <1>2, <1>3, <1>4, <1>5, <1>6 DEF Next

(* The states of every behaviour are told, held and seen as IInv says. *)
THEOREM Inductive == Spec => []IInv
<1>1. Init => IInv
  BY IInvInit
<1>2. IInv /\ [Next]_vars => IInv'
  BY IInvNext
<1> QED BY <1>1, <1>2, PTL DEF Spec

(* When CloseSession or Shutdown has returned without an error no turn it waited *)
(* for is under way, however many closers, prompts and sessions there are, and   *)
(* none begins any more.                                                         *)
THEOREM ClosedStaysQuiet == Spec => []ClosedIsQuiet
<1>1. IInv => ClosedIsQuiet
  <2> SUFFICES ASSUME IInv PROVE ClosedIsQuiet
    OBVIOUS
  <2>1. ASSUME NEW c \in Closers, closer[c].at = "ok", NEW p \in Prompts, prompt[p].session = closer[c].session
        PROVE  ~InTurn(p)
    BY <2>1 DEF IInv, ClosersSee
  <2>2. shutdown.at = "ok" => \A p \in Prompts : ~InTurn(p)
    BY DEF IInv, ShutdownSees
  <2> QED BY <2>1, <2>2 DEF ClosedIsQuiet
<1> QED BY <1>1, Inductive, PTL

(* Besides, the process a turn started is gone, or was told of as one that could *)
(* not be ended, before the turn is answered: QuietAfter.                        *)
THEOREM TurnsLeaveNothing == Spec => []QuietAfter
<1>1. IInv => NothingBehind
  <2> SUFFICES ASSUME IInv, NEW p \in Prompts, prompt[p].at \in {"report", "deliver", "end"}
               PROVE  /\ child[p].kin = "group" => "kill" \in prompt[p].errs
                      /\ child[p].leader = "up" => {"kill", "exit"} \cap prompt[p].errs # {}
    BY DEF NothingBehind
  <2>1. ChildTold(prompt[p], child[p])
    BY DEF IInv, Told
  <2> QED BY <2>1 DEF ChildTold, After
<1> QED BY <1>1, Inductive, ClosedStaysQuiet, PTL DEF QuietAfter

(* What was said before a cancellation is never pending after it in a session at *)
(* rest: a cancellation that meets the parsing of it is made good when the turn  *)
(* ends.                                                                         *)
THEOREM CancellationForgets == Spec => []CancelForgets
<1>1. IInv => CancelForgets
  BY DEF IInv, PendingTold, CancelForgets, Busy
<1> QED BY <1>1, Inductive, PTL

(* The first reason to stop that a run saw is what its client is told, whatever  *)
(* the context became later, and a success stands for a run without an error.    *)
THEOREM FirstCauseIsTold == Spec => []FirstCauseStands
<1>1. IInv => FirstCauseStands
  <2> SUFFICES ASSUME IInv, NEW p \in Prompts, prompt[p].at = "end"
               PROVE  /\ prompt[p].cause = "timed_out" => prompt[p].answer = "timeout"
                      /\ prompt[p].cause = "cancelled" /\ ~prompt[p].stopped => prompt[p].answer = "cancelled"
                      /\ prompt[p].answer = "end_turn" /\ child[p].leader # "none" =>
                           prompt[p].outcome = "completed" /\ prompt[p].errs = {}
    BY DEF FirstCauseStands
  <2>1. CauseTold(prompt[p], child[p])
    BY DEF IInv, Told
  <2> QED BY <2>1 DEF CauseTold
<1> QED BY <1>1, Inductive, PTL
=============================================================================
