------------------------ MODULE ReviewDispatchProofs ------------------------
(***************************************************************************)
(* Proofs about module ReviewDispatch: any change, any grouping of it, any *)
(* limits and any interleaving of the main goroutine with the groups' and  *)
(* with the asynchronous comments.  The review is first shown to make only *)
(* the calls the manifest builder is specified for, so that what           *)
(* ManifestProofs says of the builder holds in every state of a review;    *)
(* the invariant Inv then follows part by part, one lemma each.            *)
(***************************************************************************)
EXTENDS ReviewDispatch, FiniteSetTheorems, SequenceTheorems, TLAPS

(* The manifest builder with the calls a review makes of it. *)
B == INSTANCE ManifestProofs WITH
  ItemClasses <- M!FailureClass, RunClasses <- {"input", "cancelled"}, Modes <- {"range"}

(* Where the main goroutine can be, when its result is collected, and what can end a conversation. *)
Places == {"load", "register", "resume", "gate", "acquire", "spawn", "wait", "freeze", "finalize", "persist", "done"}
Late == {"freeze", "finalize", "persist", "done"}
Reasons == ErrKinds \cup Stops \cup {"none", "panic"}
Outcomes == [kind : {"none", "completed", "error", "stop"}, why : Reasons, report : BOOLEAN]

(* The types of the state. *)
Shape ==
  /\ pc \in Places
  /\ todo \in Seq(Item)
  /\ gi \in 1 .. Len(Groups) + 1 /\ (pc \in {"acquire", "spawn"} => gi \in G)
  /\ dispatched \in Nat /\ subtaskFailed \in Nat
  /\ phase \in [G -> {"idle", "running", "settling", "done"}]
  /\ outcome \in [G -> Outcomes]
  /\ left \in [G -> Seq(Item)]
  /\ \A g \in G : Range(left[g]) \subseteq Files(g)
  /\ tasks \subseteq G /\ comments \subseteq Item
  /\ checkpoint \in [Item -> {"none", "reused", "done", "failed"}]

(* Who has begun, and what has come of it: groups are started in their order, *)
(* and a late run is at rest.                                                  *)
Order ==
  /\ \A g \in G :
       /\ phase[g] # "idle" <=> g < gi
       /\ outcome[g].kind = "none" <=> phase[g] \in {"idle", "running"}
       /\ outcome[g].report => outcome[g].kind = "stop"
       /\ phase[g] = "done" => left[g] = <<>>
       /\ g \in tasks => phase[g] # "idle"
  /\ pc \in {"load", "register", "resume"} => gi = 1
  /\ pc \in {"load", "register"} => comments = {}
  /\ output = IF pc \in Late THEN comments ELSE {}
  /\ pc \in Late => Drained

(* What the builder can have been told by now. *)
Told ==
  /\ frozen <=> pc \in {"persist", "done"}
  /\ pc \in {"load", "register"} => ~sealed
  /\ pc = "finalize" => mode = "range"
  /\ runFailure \in {"none", "input", "cancelled"} /\ pendingFailure \in {"none", "budget", "timeout"}
  /\ runFailure # "none" => pc \in Late

(* Where each file is: registered, reused, then settled by its own group. *)
Marked ==
  /\ pc = "load" => \A f \in Item : items[f].state = "absent"
  /\ pc = "register" => \A f \in Item : IF f \in Range(todo) THEN items[f].state \in {"absent", "selected"}
                                         ELSE items[f].state = "selected"
  /\ \A f \in Item :
       /\ items[f].state # "waived"
       /\ pc \in {"resume", "gate", "acquire", "spawn", "wait"} => items[f].state # "absent"
       /\ items[f].state = "reused" => f \in Reusable /\ checkpoint[f] = "reused"
       /\ f \in Reusable /\ (pc \in {"gate", "acquire", "spawn", "wait"} \/ (pc = "resume" /\ f \notin Range(todo)))
            => items[f].state # "selected"
  /\ \A g \in G : \A f \in Files(g) : phase[g] \in {"settling", "done"} /\ f \notin Range(left[g]) => items[f].state # "selected"

(* What a file is reported as rests on its own group. *)
Founded ==
  \A f \in Item :
    /\ items[f].state = "completed" =>
         \E g \in G : f \in Files(g) /\ phase[g] \in {"settling", "done"} /\ (outcome[g].kind = "completed" \/ f \in comments)
    /\ items[f].class = "unknown" =>
         \E g \in G : f \in Files(g) /\ outcome[g].kind = "stop" /\ ClassifyStop(outcome[g].why) = "unknown"

(* A run that stops short of a file knows why. *)
Caused ==
  /\ pc = "wait" => ctx # "live" \/ pendingFailure # "none" \/ gi \notin G
  /\ pc \in {"freeze", "finalize"} =>
       runFailure # "none" \/ pendingFailure # "none" \/ \A f \in Item : items[f].state # "selected"

(* The groups whose files are not, or not yet, counted as failed. *)
Counted(g) == outcome[g].kind = "error" \/ (phase[g] = "done" /\ outcome[g].report)
Open == {g \in G : phase[g] # "idle" /\ ~Counted(g)}
Copies(g) == {g} \X (1 .. Len(Groups[g]))
Owed == UNION {Copies(g) : g \in Open}

(* No file is counted as failed twice. *)
Accounted ==
  /\ subtaskFailed + Cardinality(Owed) <= dispatched
  /\ Item = {} => dispatched = 0

(* The error of a run has a cause in the manifest, or lost every file. *)
Ended ==
  /\ runErr \in {"none", "load", "ctx", "allFailed", "persist"}
  /\ runErr # "none" => pc \in Late
  /\ runErr = "load" => runFailure # "none"
  /\ runErr = "ctx" => ctx # "live" /\ (ctx # "deadline" => runFailure # "none")
  /\ runErr = "allFailed" => Item # {} /\ \A f \in Item : items[f].state \in {"selected", "failed"}
  /\ runErr = "persist" => pc = "done" /\ sessionEnd = "lost"

(* The inductive invariant: Caused needs Marked to know that nothing is left, Founded needs  *)
(* Caused for the sweep, Ended needs Accounted and Founded for an error that loses every file. *)
Inv == Shape /\ Order /\ Told /\ Marked /\ Founded /\ Caused /\ Accounted /\ Ended

(* A file in a group is a file of the change that is not reused. *)
LEMMA GroupFiles ==
  ASSUME NEW g \in G
  PROVE  /\ Groups[g] \in Seq(Item) /\ Files(g) \subseteq Item \ Reusable /\ Range(Groups[g]) = Files(g)
         /\ Len(Groups[g]) \in Nat /\ G = 1 .. Len(Groups) /\ Len(Groups) \in Nat
<1>1. Groups \in Seq(Seq(Item)) /\ UNION {Files(h) : h \in G} = Item \ Reusable
  BY PartitionAssumption
<1>2. G = 1 .. Len(Groups) /\ Len(Groups) \in Nat
  BY <1>1, LenProperties DEF G
<1>3. Groups[g] \in Seq(Item)
  BY <1>1, <1>2, ElementOfSeq
<1> QED BY <1>1, <1>2, <1>3 DEF Files

(* Whatever ended a conversation, its files get a class the manifest knows. *)
LEMMA ClassKnown == ASSUME NEW o PROVE Class(o) \in M!FailureClass
BY DEF Class, ClassifyStop, ClassifyItemError, M!FailureClass

(* What is left of a sequence of files. *)
LEMMA Rest ==
  ASSUME NEW s \in Seq(Item), s # <<>>
  PROVE  /\ Head(s) \in Range(s) /\ Head(s) \in Item /\ Tail(s) \in Seq(Item)
         /\ Range(Tail(s)) \subseteq Range(s) /\ Range(s) = {Head(s)} \cup Range(Tail(s))
<1>1. /\ Head(s) \in Item /\ Tail(s) \in Seq(Item) /\ Len(s) \in Nat \ {0} /\ Len(Tail(s)) = Len(s) - 1
      /\ DOMAIN s = 1 .. Len(s) /\ DOMAIN Tail(s) = 1 .. Len(Tail(s)) /\ Head(s) = s[1]
      /\ \A i \in 1 .. Len(Tail(s)) : Tail(s)[i] = s[i + 1]
  BY HeadTailProperties, EmptySeq, LenProperties
<1>2. \A i \in DOMAIN s : s[i] = Head(s) \/ (i - 1 \in DOMAIN Tail(s) /\ s[i] = Tail(s)[i - 1])
  BY <1>1
<1>3. \A i \in DOMAIN Tail(s) : i + 1 \in DOMAIN s /\ Tail(s)[i] = s[i + 1]
  BY <1>1
<1>4. 1 \in DOMAIN s
  BY <1>1
<1> QED BY <1>1, <1>2, <1>3, <1>4 DEF Range

(* A group has no more failed files than it has files. *)
LEMMA FailedBound == ASSUME NEW g \in G PROVE FailedFiles(g) \in Nat /\ FailedFiles(g) <= Len(Groups[g])
<1> DEFINE n == Len(Groups[g]) S == 1 .. n
<1>1. n \in Nat /\ DOMAIN Groups[g] = S /\ Files(g) = {Groups[g][i] : i \in S}
  BY GroupFiles, LenProperties DEF Files, Range
<1>2. IsFiniteSet(S) /\ Cardinality(S) = n
  BY <1>1, FS_Interval
<1>3. Groups[g] \in Surjection(S, Files(g))
  BY <1>1, GroupFiles, LenProperties DEF Surjection
<1>4. IsFiniteSet(Files(g)) /\ Cardinality(Files(g)) <= n
  BY <1>2, <1>3, FS_Surjection
<1>5. FailedFiles(g) <= Cardinality(Files(g)) /\ FailedFiles(g) \in Nat
  <2> DEFINE T == {f \in Files(g) : items[f].state = "failed"}
  <2>1. T \subseteq Files(g)
    OBVIOUS
  <2>2. IsFiniteSet(T) /\ Cardinality(T) <= Cardinality(Files(g))
    BY <1>4, <2>1, FS_Subset
  <2> QED BY <2>2, FS_CardinalityType DEF FailedFiles
<1>6. Cardinality(Files(g)) \in Nat
  BY <1>4, FS_CardinalityType
<1> QED BY <1>1, <1>4, <1>5, <1>6

(* The first state has the types. *)
LEMMA ShapeInit == Init => Shape
BY GroupFiles, EmptySeq DEF Init, Shape, Places, Outcomes, Reasons, Undecided, Range

(* Every step keeps the types, the files a goroutine has left among its own. *)
LEMMA ShapeNext == Shape /\ [Next]_vars => Shape'
<1> SUFFICES ASSUME Shape, [Next]_vars PROVE Shape'
  OBVIOUS
<1> USE DEF Shape
<1>1. AllFiles \in Seq(Item) /\ Item = Range(AllFiles)
  BY ChangeAssumption DEF Item
<1>2. CASE LoadFails \/ NothingSelected \/ Seal \/ Load
  BY <1>1, <1>2 DEF LoadFails, NothingSelected, Seal, Load, Places, groupVars, workVars
<1>3. CASE Register
  BY <1>3, Rest DEF Register, groupVars, workVars
<1>4. CASE ApplyResume
  BY <1>4, Rest DEF ApplyResume, groupVars
<1>5. CASE Group \/ Gate \/ AllDispatched \/ Acquire
  BY <1>5 DEF Group, Gate, AllDispatched, Acquire, Places, groupVars, workVars
<1>6. CASE Spawn
  <2>1. gi \in G /\ UNCHANGED <<todo, outcome, left, subtaskFailed, tasks, comments, checkpoint>>
    BY <1>6 DEF Spawn, workVars
  <2>2. Len(Groups[gi]) \in Nat /\ gi + 1 \in 1 .. Len(Groups) + 1
    BY <2>1, GroupFiles
  <2>3. CASE ctx # "live"
    BY <1>6, <2>1, <2>3 DEF Spawn, AbandonSlot, Places
  <2>4. CASE ctx = "live"
    BY <1>6, <2>1, <2>2, <2>4 DEF Spawn, Places
  <2> QED BY <2>3, <2>4
<1>7. CASE Report \/ FreezeInput \/ FinalizeManifest \/ Persist
  BY <1>7 DEF Report, FreezeInput, FinalizeManifest, Persist, Places, groupVars, workVars
<1>8. CASE CtxEnd \/ Done \/ UNCHANGED vars
  BY <1>8 DEF CtxEnd, Done, vars, mainVars, groupVars, workVars
<1>9. ASSUME NEW g \in G, GroupStep(g) \/ Deliver(g) PROVE Shape'
  <2>1. Files(g) \subseteq Item
    BY GroupFiles
  <2>2. tasks' \subseteq G /\ comments' \subseteq Item
    BY <1>9, <2>1, RefileAssumption DEF GroupStep, Spend, Submit, FilterRemoves, Deliver
  <2>3. UNCHANGED <<mainVars, groupVars, checkpoint>>
    BY <1>9 DEF GroupStep, Spend, Submit, FilterRemoves, Deliver
  <2> QED BY <2>2, <2>3 DEF mainVars, groupVars
<1>10. ASSUME NEW g \in G, End(g) PROVE Shape'
  <2>1. Endings(g) \subseteq Outcomes
    <3>1. ASSUME NEW o \in Endings(g) PROVE o \in Outcomes
      <4>1. CASE o = [kind |-> "completed", why |-> "none", report |-> FALSE]
        BY <4>1 DEF Outcomes, Reasons
      <4>2. CASE \E e \in ErrKinds \cup {"panic"} : o = [kind |-> "error", why |-> e, report |-> FALSE]
        BY <4>2 DEF Outcomes, Reasons
      <4>3. CASE \E x \in Stops : \E r \in BOOLEAN : o = [kind |-> "stop", why |-> x, report |-> r]
        BY <4>3 DEF Outcomes, Reasons
      <4> QED BY <3>1, <4>1, <4>2, <4>3 DEF Endings
    <3> QED BY <3>1
  <2> QED BY <1>10, <2>1, GroupFiles DEF End, mainVars, workVars
<1>11. ASSUME NEW g \in G, Settle(g) PROVE Shape'
  <2>1. left[g] \in Seq(Item) /\ left[g] # <<>> /\ Range(left[g]) \subseteq Files(g)
    BY <1>11 DEF Settle
  <2>2. Head(left[g]) \in Item /\ Tail(left[g]) \in Seq(Item) /\ Range(Tail(left[g])) \subseteq Files(g)
    BY <2>1, Rest
  <2> QED BY <1>11, <2>2 DEF Settle, mainVars, workVars
<1>12. ASSUME NEW g \in G, Release(g) PROVE Shape'
  <2>1. FailedFiles(g) \in Nat
    BY FailedBound
  <2> QED BY <1>12, <2>1 DEF Release, mainVars, workVars
<1> QED BY <1>2, <1>3, <1>4, <1>5, <1>6, <1>7, <1>8, <1>9, <1>10, <1>11, <1>12 DEF Next, Main, GroupProgress

-----------------------------------------------------------------------------
(* Every step of a review is a call of the builder, or none. *)
LEMMA BuilderStep == Shape /\ [Next]_vars => [B!Next]_(B!manifestVars)
<1> SUFFICES ASSUME Shape, [Next]_vars PROVE B!Next \/ UNCHANGED B!manifestVars
  OBVIOUS
<1> USE DEF manifestVars, B!manifestVars, B!Next
<1>1. CASE LoadFails
  BY <1>1 DEF LoadFails, M!SetRunFailure, B!SetRunFailure, M!RunFailureClass, B!RunFailureClass, M!NoClass, B!NoClass
<1>2. CASE Register
  <2>1. Head(todo) \in Item
    BY <1>2, Rest DEF Register, Shape
  <2> QED BY <1>2, <2>1 DEF Register, M!RegisterSelected, B!RegisterSelected
<1>3. CASE Seal
  BY <1>3 DEF Seal, M!SealSelected, B!SealSelected
<1>4. CASE ApplyResume
  <2>1. Head(todo) \in Item
    BY <1>4, Rest DEF ApplyResume, Shape
  <2> QED BY <1>4, <2>1 DEF ApplyResume, M!MarkReused, B!MarkReused, M!Transition, B!Transition, M!CanTransition,
        B!CanTransition, M!ValidPayload, B!ValidPayload, M!FailureClass, B!FailureClass, M!NoClass, B!NoClass
<1>5. CASE Gate
  BY <1>5 DEF Gate, M!SetPendingFailureCause, B!SetPendingFailureCause, M!FailureClass, B!FailureClass, M!NoClass, B!NoClass
<1>6. CASE Report
  BY <1>6 DEF Report, RecordContextFailure, M!SetPendingFailureCause, B!SetPendingFailureCause, M!SetRunFailure,
     B!SetRunFailure, M!RunFailureClass, B!RunFailureClass, M!FailureClass, B!FailureClass, M!NoClass, B!NoClass
<1>7. CASE FreezeInput
  BY <1>7 DEF FreezeInput, M!SetInput, B!SetInput
<1>8. CASE FinalizeManifest
  <2>1. M!Finalize => B!Finalize
    BY DEF M!Finalize, B!Finalize, M!ValidateLocked, B!ValidateLocked, M!Swept, B!Swept, M!SweepClass, B!SweepClass,
       M!ItemFailureForRunClass, B!ItemFailureForRunClass, M!BuildCoverage, B!BuildCoverage, M!InState, B!InState,
       M!FinalManifest, B!FinalManifest, M!ComputeTerminal, B!ComputeTerminal, M!InputMode, B!InputMode,
       M!RunFailureClass, B!RunFailureClass, M!FailureClass, B!FailureClass, M!NoClass, B!NoClass
  <2> QED BY <1>8, <2>1 DEF FinalizeManifest
<1>9. ASSUME NEW g \in G, Settle(g) PROVE B!Next
  <2>1. Head(left[g]) \in Item
    BY <1>9, Rest DEF Settle, Shape
  <2>2. Class(outcome[g]) \in M!FailureClass
    BY ClassKnown
  <2> QED BY <1>9, <2>1, <2>2 DEF Settle, M!MarkCompleted, B!MarkCompleted, M!MarkFailed, B!MarkFailed, M!Transition,
        B!Transition, M!CanTransition, B!CanTransition, M!ValidPayload, B!ValidPayload, M!FailureClass,
        B!FailureClass, M!NoClass, B!NoClass
<1>10. CASE \/ NothingSelected \/ Load \/ Group \/ AllDispatched \/ Acquire \/ Spawn \/ Persist \/ CtxEnd \/ Done
            \/ UNCHANGED vars
            \/ \E g \in G : GroupStep(g) \/ Deliver(g) \/ End(g) \/ Release(g)
  BY <1>10 DEF NothingSelected, Load, Group, AllDispatched, Acquire, Spawn, Persist, CtxEnd, Done, vars,
     GroupStep, Spend, Submit, FilterRemoves, Deliver, End, Release
<1> QED BY <1>1, <1>2, <1>3, <1>4, <1>5, <1>6, <1>7, <1>8, <1>9, <1>10 DEF Next, Main, GroupProgress

(* A review makes no call the builder is not specified for: with the proofs about *)
(* the builder, everything they say of it holds of the manifest of every review.  *)
THEOREM CallsTheBuilder == Spec => B!Spec
<1>1. Init => Shape /\ B!Init
  BY ShapeInit DEF Init, M!Init, B!Init, M!NoClass, B!NoClass, M!NoResult, B!NoResult
<1>2. Shape /\ [Next]_vars => Shape'
  BY ShapeNext
<1>3. Shape /\ [Next]_vars => [B!Next]_(B!manifestVars)
  BY BuilderStep
<1> QED BY <1>1, <1>2, <1>3, PTL DEF Spec, B!Spec

(* What the proofs about the builder say of it in every state of a review. *)
Built == B!TypeOK /\ B!ManifestIsSnapshot /\ B!CanAlwaysClose

(* It holds of every review, because a review is a run of the builder. *)
LEMMA BuiltAlways == Spec => []Built
<1>1. B!ClassAssumption
  BY DEF B!ClassAssumption, M!FailureClass, B!NoClass
<1> QED BY <1>1, CallsTheBuilder, B!TypeCorrect, B!SnapshotCorrect, B!AlwaysClosable, PTL DEF Built

-----------------------------------------------------------------------------
(* Groups start in their order, and a late run is at rest with what it returns. *)
LEMMA OrderNext == Shape /\ Order /\ [Next]_vars => Order'
<1> SUFFICES ASSUME Shape, Order, [Next]_vars PROVE Order'
  OBVIOUS
<1> USE DEF Order, Late
<1>1. CASE LoadFails \/ NothingSelected
  BY <1>1, GroupFiles DEF Shape, LoadFails, NothingSelected, Drained, groupVars, workVars
<1>2. CASE Load \/ Register \/ Seal
  BY <1>2 DEF Load, Register, Seal, Drained, groupVars, workVars
<1>3. CASE ApplyResume \/ Group \/ Gate \/ AllDispatched \/ Acquire
  BY <1>3 DEF ApplyResume, Group, Gate, AllDispatched, Acquire, groupVars, workVars
<1>4. CASE Spawn
  <2>1. gi \in G /\ gi \in Nat /\ G \subseteq Nat
    BY <1>4, GroupFiles DEF Spawn, Shape
  <2>2. CASE ctx # "live"
    BY <1>4, <2>2 DEF Spawn, AbandonSlot, workVars
  <2>3. CASE ctx = "live"
    BY <1>4, <2>1, <2>3 DEF Spawn, workVars, Shape
  <2> QED BY <2>2, <2>3
<1>5. CASE Report \/ FreezeInput \/ FinalizeManifest \/ Persist
  BY <1>5 DEF Report, FreezeInput, FinalizeManifest, Persist, Drained, groupVars, workVars
<1>6. CASE CtxEnd \/ Done \/ UNCHANGED vars
  BY <1>6 DEF CtxEnd, Done, vars, mainVars, groupVars, workVars, Drained
<1>7. ASSUME NEW g \in G, GroupStep(g) \/ Deliver(g) PROVE Order'
  <2>1. UNCHANGED <<mainVars, groupVars>> /\ tasks' \subseteq tasks \cup {g}
    BY <1>7 DEF GroupStep, Spend, Submit, FilterRemoves, Deliver
  <2>2. g \in tasks' \cup tasks \/ phase[g] = "running" => phase[g] # "idle"
    BY <1>7 DEF GroupStep, Spend, Submit, FilterRemoves, Deliver
  <2>3. CASE Spend(g)
    BY <2>3 DEF Spend, mainVars, groupVars, Drained
  <2>4. CASE Submit(g) \/ FilterRemoves(g) \/ Deliver(g)
    <3>1. pc \notin Late
      BY <2>4 DEF Submit, FilterRemoves, Deliver, Drained
    <3>2. pc \notin {"load", "register"}
      <4>1. phase[g] # "idle"
        BY <2>4 DEF Submit, FilterRemoves, Deliver
      <4> QED BY <4>1, GroupFiles
    <3> QED BY <2>1, <2>2, <2>4, <3>1, <3>2 DEF mainVars, groupVars, Submit, FilterRemoves, Deliver
  <2> QED BY <1>7, <2>3, <2>4 DEF GroupStep
<1>8. ASSUME NEW g \in G, End(g) PROVE Order'
  <2>1. PICK e \in Endings(g) : outcome' = [outcome EXCEPT ![g] = e]
    BY <1>8 DEF End
  <2>2. e.kind # "none" /\ (e.report => e.kind = "stop")
    BY <2>1 DEF Endings
  <2> QED BY <1>8, <2>1, <2>2 DEF End, Shape, mainVars, workVars, Drained
<1>9. ASSUME NEW g \in G, Settle(g) \/ Release(g) PROVE Order'
  BY <1>9 DEF Settle, Release, Shape, mainVars, workVars, Drained
<1> QED BY <1>1, <1>2, <1>3, <1>4, <1>5, <1>6, <1>7, <1>8, <1>9 DEF Next, Main, GroupProgress

(* A review's Finalize succeeds: the files still selected get the cause of the run. *)
LEMMA FinalizeSweeps ==
  ASSUME Told, Built, FinalizeManifest
  PROVE  /\ \A f \in Item : items'[f] = IF items[f].state = "selected"
                                          THEN [state |-> "failed", class |-> M!SweepClass] ELSE items[f]
         /\ ~frozen /\ frozen' /\ UNCHANGED <<runFailure, pendingFailure>>
<1>1. M!ValidateLocked(M!Swept)
  <2>1. B!ValidateLocked(B!Swept)
    BY DEF FinalizeManifest, Told, Built, B!CanAlwaysClose, B!InputMode
  <2> QED BY <2>1 DEF M!ValidateLocked, B!ValidateLocked, M!Swept, B!Swept, M!SweepClass, B!SweepClass,
        M!ItemFailureForRunClass, B!ItemFailureForRunClass, M!BuildCoverage, B!BuildCoverage, M!InState, B!InState,
        M!InputMode, B!InputMode, M!RunFailureClass, B!RunFailureClass, M!FailureClass, B!FailureClass, M!NoClass, B!NoClass
<1>2. ~frozen
  BY DEF FinalizeManifest, Told
<1>3. items' = M!Swept /\ frozen' /\ UNCHANGED <<runFailure, pendingFailure>>
  BY <1>1, <1>2 DEF FinalizeManifest, M!Finalize
<1> QED BY <1>2, <1>3 DEF M!Swept

(* Nobody tells the builder anything after the freeze, nor too early. *)
LEMMA ToldNext == Shape /\ Order /\ Told /\ Built /\ [Next]_vars => Told'
<1> SUFFICES ASSUME Shape, Order, Told, Built, [Next]_vars PROVE Told'
  OBVIOUS
<1> USE DEF Told, Late, manifestVars
<1>1. CASE LoadFails \/ NothingSelected \/ Load
  BY <1>1 DEF LoadFails, NothingSelected, Load, M!SetRunFailure, M!RunFailureClass, M!NoClass
<1>2. CASE Register \/ Seal
  BY <1>2 DEF Register, Seal, M!RegisterSelected, M!SealSelected
<1>3. CASE ApplyResume
  BY <1>3 DEF ApplyResume, M!MarkReused, M!Transition
<1>4. CASE Group \/ Gate \/ AllDispatched \/ Acquire \/ Spawn
  BY <1>4 DEF Group, Gate, AllDispatched, Acquire, Spawn, AbandonSlot, M!SetPendingFailureCause
<1>5. CASE Report
  BY <1>5 DEF Report, RecordContextFailure, M!SetPendingFailureCause, M!SetRunFailure
<1>6. CASE FreezeInput
  BY <1>6 DEF FreezeInput, M!SetInput
<1>7. CASE FinalizeManifest
  BY <1>7, FinalizeSweeps DEF FinalizeManifest, M!Finalize
<1>8. CASE Persist \/ CtxEnd \/ Done \/ UNCHANGED vars
  BY <1>8 DEF Persist, CtxEnd, Done, vars, mainVars
<1>9. ASSUME NEW g \in G, Settle(g) PROVE Told'
  BY <1>9 DEF Settle, M!MarkCompleted, M!MarkFailed, M!Transition, mainVars
<1>10. ASSUME NEW g \in G, GroupStep(g) \/ Deliver(g) \/ End(g) \/ Release(g) PROVE Told'
  BY <1>10 DEF GroupStep, Spend, Submit, FilterRemoves, Deliver, End, Release, mainVars
<1> QED BY <1>1, <1>2, <1>3, <1>4, <1>5, <1>6, <1>7, <1>8, <1>9, <1>10 DEF Next, Main, GroupProgress

-----------------------------------------------------------------------------
(* A mark moves its own file, out of "selected", and no other. *)
LEMMA MarkOne ==
  ASSUME Built, ~frozen, NEW f \in Item, NEW to, NEW c, M!Transition(f, to, c), M!ValidPayload(to, c)
  PROVE  /\ \A h \in Item : items'[h] = IF h = f /\ items[f].state = "selected"
                                           THEN [state |-> to, class |-> c] ELSE items[h]
         /\ UNCHANGED <<runFailure, pendingFailure, mode, sealed, frozen, result>>
<1>1. items \in [Item -> B!Entry]
  BY DEF Built, B!TypeOK
<1>2. items' = IF items[f].state = "selected" THEN [items EXCEPT ![f] = [state |-> to, class |-> c]] ELSE items
  BY DEF M!Transition, M!CanTransition
<1> QED BY <1>1, <1>2 DEF M!Transition

(* What a goroutine says of its next file is said of that file only. *)
LEMMA SettleOne ==
  ASSUME Shape, Order, Told, Built, NEW g \in G, Settle(g)
  PROVE  /\ Head(left[g]) \in Files(g) /\ Head(left[g]) \in Item /\ phase[g] = "settling"
         /\ \A h \in Item : items'[h] =
              IF h = Head(left[g]) /\ items[h].state = "selected"
                THEN IF Covers(g, h) THEN [state |-> "completed", class |-> "none"]
                                     ELSE [state |-> "failed", class |-> Class(outcome[g])]
                ELSE items[h]
         /\ UNCHANGED <<runFailure, pendingFailure, mode, sealed, frozen, result>>
<1> DEFINE f == Head(left[g])
<1>1. /\ left[g] \in Seq(Item) /\ left[g] # <<>> /\ Range(left[g]) \subseteq Files(g) /\ phase[g] = "settling"
  BY DEF Settle, Shape
<1>2. f \in Item /\ f \in Files(g)
  BY <1>1, Rest
<1>3. ~frozen
  BY <1>1 DEF Order, Late, Drained, Told
<1>4. CASE Covers(g, f)
  <2>1. M!Transition(f, "completed", "none") /\ M!ValidPayload("completed", "none")
    BY <1>4 DEF Settle, M!MarkCompleted, M!NoClass, M!ValidPayload
  <2>2. \A h \in Item : items'[h] = IF h = f /\ items[f].state = "selected" THEN [state |-> "completed", class |-> "none"] ELSE items[h]
    BY <1>2, <1>3, <2>1, MarkOne
  <2>3. UNCHANGED <<runFailure, pendingFailure, mode, sealed, frozen, result>>
    BY <2>1 DEF M!Transition
  <2> HIDE DEF f
  <2>4. f = Head(left[g])
    BY DEF f
  <2> QED BY <1>1, <1>2, <1>4, <2>2, <2>3, <2>4
<1>5. CASE ~Covers(g, f)
  <2> DEFINE c == Class(outcome[g])
  <2>1. M!Transition(f, "failed", c) /\ M!ValidPayload("failed", c)
    BY <1>5, ClassKnown DEF Settle, M!MarkFailed, M!ValidPayload
  <2>2. \A h \in Item : items'[h] = IF h = f /\ items[f].state = "selected" THEN [state |-> "failed", class |-> c] ELSE items[h]
    BY <1>2, <1>3, <2>1, MarkOne
  <2>3. UNCHANGED <<runFailure, pendingFailure, mode, sealed, frozen, result>>
    BY <2>1 DEF M!Transition
  <2> HIDE DEF f
  <2>4. f = Head(left[g])
    BY DEF f
  <2> QED BY <1>1, <1>2, <1>5, <2>2, <2>3, <2>4
<1> QED BY <1>4, <1>5

(* Registration, reuse and settlement each leave a file where Marked says. *)
LEMMA MarkedNext == Shape /\ Order /\ Told /\ Built /\ Marked /\ [Next]_vars => Marked'
<1> SUFFICES ASSUME Shape, Order, Told, Built, Marked, [Next]_vars PROVE Marked'
  OBVIOUS
<1> USE DEF Marked
<1>1. /\ AllFiles \in Seq(Item) /\ Item = Range(AllFiles) /\ Range(<<>>) = {}
      /\ items \in [Item -> B!Entry] /\ \A g \in G : Files(g) \subseteq Item \ Reusable
  <2>1. Range(<<>>) = {}
    BY DEF Range
  <2>2. items \in [Item -> B!Entry]
    BY DEF Built, B!TypeOK
  <2> QED BY <2>1, <2>2, ChangeAssumption, GroupFiles DEF Item
<1>2. CASE LoadFails \/ NothingSelected
  <2>1. UNCHANGED <<items, checkpoint, phase, left>> /\ pc' = "freeze"
    BY <1>2 DEF LoadFails, NothingSelected, M!SetRunFailure, manifestVars, groupVars
  <2> QED BY <2>1
<1>3. CASE Load
  <2>1. UNCHANGED <<items, checkpoint, phase, left>> /\ pc' = "register" /\ todo' = AllFiles /\ pc = "load"
    BY <1>3 DEF Load, manifestVars, groupVars
  <2>2. Range(todo') = Item
    BY <1>1, <2>1
  <2> QED BY <2>1, <2>2
<1>4. CASE Register
  <2>1. /\ Head(todo) \in Item /\ Range(todo) = {Head(todo)} \cup Range(todo')
    BY <1>4, Rest DEF Register, Shape
  <2>2. pc = "register" /\ UNCHANGED <<pc, checkpoint, phase, left>> /\ ~frozen /\ ~sealed
    BY <1>4 DEF Register, groupVars, Told
  <2>3. items' = IF items[Head(todo)].state = "absent" THEN [items EXCEPT ![Head(todo)].state = "selected"] ELSE items
    BY <1>4, <2>2 DEF Register, M!RegisterSelected
  <2>4. \A h \in Item : items'[h].state = IF h = Head(todo) /\ items[h].state = "absent" THEN "selected" ELSE items[h].state
    BY <1>1, <2>1, <2>3 DEF B!Entry
  <2>5. \A g \in G : phase[g] = "idle"
    BY <2>2, GroupFiles DEF Order, Shape
  <2> QED BY <1>1, <2>1, <2>2, <2>4, <2>5
<1>5. CASE Seal
  <2>1. UNCHANGED <<items, checkpoint, phase, left>> /\ pc' = "resume" /\ todo' = AllFiles /\ pc = "register" /\ todo = <<>>
    BY <1>5 DEF Seal, M!SealSelected, groupVars
  <2>2. Range(todo') = Item /\ \A f \in Item : items[f].state = "selected"
    BY <1>1, <2>1
  <2> QED BY <1>1, <2>1, <2>2
<1>6. CASE ApplyResume
  <2>1. /\ Head(todo) \in Item /\ Range(todo) = {Head(todo)} \cup Range(todo')
    BY <1>6, Rest DEF ApplyResume, Shape
  <2>2. pc = "resume" /\ UNCHANGED <<pc, phase, left>> /\ ~frozen
    BY <1>6 DEF ApplyResume, groupVars, Told
  <2>3. \A g \in G : phase[g] = "idle"
    BY <2>2, GroupFiles DEF Order, Shape
  <2>4. CASE Head(todo) \in Reusable
    <3> DEFINE f == Head(todo)
    <3>1. M!Transition(f, "reused", M!NoClass) /\ M!ValidPayload("reused", M!NoClass) /\ checkpoint' = [checkpoint EXCEPT ![f] = "reused"]
      BY <1>6, <2>4 DEF ApplyResume, M!MarkReused, M!ValidPayload
    <3>2. \A h \in Item : items'[h] = IF h = f /\ items[f].state = "selected" THEN [state |-> "reused", class |-> M!NoClass] ELSE items[h]
      BY <2>1, <2>2, <3>1, MarkOne
    <3>3. checkpoint' [f] = "reused" /\ \A h \in Item : h # f => checkpoint'[h] = checkpoint[h]
      BY <2>1, <3>1 DEF Shape
    <3> HIDE DEF f
    <3>4. \A h \in Item : items'[h].state = IF h = f /\ items[f].state = "selected" THEN "reused" ELSE items[h].state
      BY <3>2
    <3>5. f = Head(todo)
      BY DEF f
    <3> QED BY <1>1, <2>1, <2>2, <2>3, <2>4, <3>3, <3>4, <3>5
  <2>5. CASE Head(todo) \notin Reusable
    <3>1. UNCHANGED <<items, checkpoint>>
      BY <1>6, <2>5 DEF ApplyResume, manifestVars
    <3> QED BY <1>1, <2>1, <2>2, <2>3, <2>5, <3>1
  <2> QED BY <2>4, <2>5
<1>7. CASE Group \/ Gate \/ AllDispatched \/ Acquire
  <2>1. /\ UNCHANGED <<items, checkpoint, phase, left, todo>> /\ pc' \in {"gate", "acquire", "spawn", "wait"}
        /\ pc \in {"resume", "gate", "acquire"} /\ (pc = "resume" => todo = <<>>)
    BY <1>7 DEF Group, Gate, AllDispatched, Acquire, manifestVars, groupVars, M!SetPendingFailureCause
  <2> QED BY <1>1, <2>1
<1>8. CASE Spawn
  <2>1. UNCHANGED <<items, checkpoint, left, todo>> /\ pc = "spawn" /\ pc' \in {"gate", "wait"}
    BY <1>8 DEF Spawn, AbandonSlot, manifestVars
  <2>2. \A g \in G : phase'[g] \in {"settling", "done"} => phase[g] \in {"settling", "done"}
    BY <1>8 DEF Spawn, AbandonSlot, Shape
  <2> QED BY <1>1, <2>1, <2>2
<1>9. CASE Report \/ FreezeInput \/ Persist \/ CtxEnd \/ Done \/ UNCHANGED vars
  <2>1. UNCHANGED <<items, checkpoint, phase, left, todo>> /\ (pc' \in Late \/ pc' = pc)
    BY <1>9 DEF Report, RecordContextFailure, FreezeInput, Persist, CtxEnd, Done, vars, mainVars, manifestVars, groupVars,
       M!SetPendingFailureCause, M!SetRunFailure, M!SetInput, Late
  <2> QED BY <1>1, <2>1 DEF Late
<1>10. CASE FinalizeManifest
  <2>1. UNCHANGED <<checkpoint, phase, left>> /\ pc' = "persist"
    BY <1>10 DEF FinalizeManifest, groupVars
  <2>2. \A f \in Item : items'[f].state = IF items[f].state = "selected" THEN "failed" ELSE items[f].state
    BY <1>10, FinalizeSweeps
  <2> QED BY <1>1, <2>1, <2>2
<1>11. ASSUME NEW g \in G, Settle(g) PROVE Marked'
  <2> DEFINE f == Head(left[g])
  <2>1. /\ left[g] \in Seq(Item) /\ left[g] # <<>> /\ Range(left[g]) \subseteq Files(g)
    BY <1>11 DEF Settle, Shape
  <2>2. /\ f \in Item /\ f \in Files(g) /\ Range(left[g]) = {f} \cup Range(Tail(left[g]))
    BY <2>1, Rest
  <2>3. phase[g] = "settling" /\ UNCHANGED <<pc, todo, phase>> /\ left' = [left EXCEPT ![g] = Tail(@)]
    BY <1>11 DEF Settle, mainVars
  <2>4. pc \notin Late /\ pc \notin {"load", "register", "resume"} /\ ~frozen
    BY <2>3, GroupFiles DEF Order, Late, Drained, Told
  <2>5. checkpoint' = [checkpoint EXCEPT ![f] = IF Covers(g, f) THEN "done" ELSE "failed"]
    BY <1>11 DEF Settle
  <2>6. \A h \in Item : h # f => checkpoint'[h] = checkpoint[h]
    BY <2>5 DEF Shape
  <2>7. left'[g] = Tail(left[g]) /\ \A h \in G : h # g => left'[h] = left[h]
    BY <2>3 DEF Shape
  <2>8. /\ \A h \in Item : h # f => items'[h] = items[h]
        /\ items'[f].state \in {items[f].state, "completed", "failed"} \ {"selected"}
    <3>1. \A h \in Item : items'[h] =
            IF h = f /\ items[h].state = "selected"
              THEN IF Covers(g, h) THEN [state |-> "completed", class |-> "none"]
                                   ELSE [state |-> "failed", class |-> Class(outcome[g])]
              ELSE items[h]
      BY <1>11, SettleOne
    <3> QED BY <2>2, <3>1
  <2> HIDE DEF f
  <2>9. f \notin Reusable /\ items[f].state # "reused"
    BY <1>1, <2>2
  <2> QED BY <1>1, <2>2, <2>3, <2>4, <2>6, <2>7, <2>8, <2>9
<1>12. ASSUME NEW g \in G, End(g) PROVE Marked'
  <2>1. UNCHANGED <<items, checkpoint, pc, todo>> /\ left' = [left EXCEPT ![g] = Groups[g]] /\ phase' = [phase EXCEPT ![g] = "settling"]
    BY <1>12 DEF End, manifestVars, mainVars
  <2>2. Range(left'[g]) = Files(g) /\ \A h \in G : h # g => left'[h] = left[h] /\ phase'[h] = phase[h]
    BY <2>1 DEF Shape, Files
  <2> QED BY <2>1, <2>2
<1>13. ASSUME NEW g \in G, GroupStep(g) \/ Deliver(g) PROVE Marked'
  <2>1. UNCHANGED <<items, checkpoint, pc, todo, left, phase>>
    BY <1>13 DEF GroupStep, Spend, Submit, FilterRemoves, Deliver, mainVars, manifestVars, groupVars
  <2> QED BY <2>1
<1>14. ASSUME NEW g \in G, Release(g) PROVE Marked'
  <2>1. UNCHANGED <<items, checkpoint, pc, todo, left>> /\ phase' = [phase EXCEPT ![g] = "done"] /\ phase[g] = "settling"
    BY <1>14 DEF Release, mainVars, manifestVars
  <2>2. \A h \in G : phase'[h] \in {"settling", "done"} => phase[h] \in {"settling", "done"}
    BY <2>1 DEF Shape
  <2> QED BY <2>1, <2>2
<1> QED BY <1>2, <1>3, <1>4, <1>5, <1>6, <1>7, <1>8, <1>9, <1>10, <1>11, <1>12, <1>13, <1>14 DEF Next, Main, GroupProgress

(* The steps that leave the builder's items alone. *)
LEMMA ItemsStand ==
  [Next]_vars => \/ Register \/ ApplyResume \/ FinalizeManifest \/ \E g \in G : Settle(g)
                 \/ UNCHANGED items
BY DEF Next, Main, GroupProgress, GroupStep, LoadFails, NothingSelected, Load, Seal, Group, Gate, AllDispatched, Acquire,
   Spawn, Report, RecordContextFailure, FreezeInput, Persist, CtxEnd, Done, Spend, Submit, FilterRemoves, Deliver, End, Release,
   M!SealSelected, M!SetRunFailure, M!SetPendingFailureCause, M!SetInput, vars, manifestVars

(* A reviewed file keeps its evidence, and only what a conversation said of it is unknown. *)
LEMMA FoundedNext == Shape /\ Order /\ Told /\ Built /\ Marked /\ Caused /\ Founded /\ [Next]_vars => Founded'
<1> SUFFICES ASSUME Shape, Order, Told, Built, Marked, Caused, Founded, [Next]_vars PROVE Founded'
  OBVIOUS
<1> DEFINE Evidence(g, f) == f \in Files(g) /\ phase[g] \in {"settling", "done"} /\ (outcome[g].kind = "completed" \/ f \in comments)
           Unsaid(g, f) == f \in Files(g) /\ outcome[g].kind = "stop" /\ ClassifyStop(outcome[g].why) = "unknown"
<1>1. \A g \in G : phase[g] \in {"settling", "done"} => outcome'[g] = outcome[g] /\ phase'[g] \in {"settling", "done"}
  <2>1. ASSUME NEW g \in G, phase[g] \in {"settling", "done"}, NEW h \in G, End(h)
        PROVE  outcome'[g] = outcome[g] /\ phase'[g] = phase[g]
    BY <2>1 DEF End, Shape
  <2>2. ASSUME NEW g \in G, phase[g] \in {"settling", "done"}, NEW h \in G, Release(h)
        PROVE  outcome'[g] = outcome[g] /\ phase'[g] \in {"settling", "done"}
    BY <2>2 DEF Release, Shape
  <2>3. CASE Spawn
    <3>1. UNCHANGED phase \/ (phase[gi] = "idle" /\ phase' = [phase EXCEPT ![gi] = "running"])
      BY <2>3, GroupFiles DEF Spawn, AbandonSlot, Order, Shape
    <3> QED BY <2>3, <3>1 DEF Spawn, Shape
  <2>4. (\E g \in G : GroupStep(g) \/ Deliver(g) \/ Settle(g)) \/ (Main /\ ~Spawn) \/ CtxEnd \/ Done \/ UNCHANGED vars => UNCHANGED <<outcome, phase>>
    BY DEF Main, GroupStep, LoadFails, NothingSelected, Load, Register, Seal, ApplyResume, Group, Gate, AllDispatched, Acquire,
       Report, FreezeInput, FinalizeManifest, Persist, CtxEnd, Done, Spend, Submit, FilterRemoves, Deliver, Settle, vars, groupVars
  <2> QED BY <2>1, <2>2, <2>3, <2>4 DEF Next, GroupProgress
<1>2. \A f \in Item, g \in G : Evidence(g, f) => Evidence(g, f)'
  <2> SUFFICES ASSUME NEW f \in Item, NEW g \in G, Evidence(g, f) PROVE Evidence(g, f)'
    OBVIOUS
  <2>1. f \in Files(g) /\ phase'[g] \in {"settling", "done"} /\ outcome'[g] = outcome[g]
    BY <1>1
  <2>2. f \in comments => f \in comments'
    <3>1. ASSUME NEW h \in G, FilterRemoves(h), f \in comments PROVE f \in comments'
      <4>1. h # g
        BY <3>1 DEF FilterRemoves
      <4>2. Files(g) \cap Files(h) = {}
        BY <4>1, PartitionAssumption
      <4> QED BY <2>1, <3>1, <4>2 DEF FilterRemoves
    <3>2. (\E h \in G : Spend(h) \/ Submit(h) \/ Deliver(h) \/ GroupProgress(h)) \/ Main \/ CtxEnd \/ Done \/ UNCHANGED vars => comments \subseteq comments'
      BY DEF Main, GroupProgress, LoadFails, NothingSelected, Load, Register, Seal, ApplyResume, Group, Gate, AllDispatched, Acquire,
         Report, FreezeInput, FinalizeManifest, Persist, CtxEnd, Done, Spend, Submit, Deliver, Settle, End, Release, Spawn, vars, workVars
    <3> QED BY <3>1, <3>2 DEF Next, GroupStep
  <2> QED BY <2>1, <2>2 DEF Files
<1>3. \A f \in Item, g \in G : Unsaid(g, f) => Unsaid(g, f)'
  <2> SUFFICES ASSUME NEW f \in Item, NEW g \in G, Unsaid(g, f) PROVE Unsaid(g, f)'
    OBVIOUS
  <2>1. phase[g] \in {"settling", "done"}
    BY DEF Order, Shape
  <2> QED BY <1>1, <2>1 DEF Files
<1>4. \A f \in Item : /\ items[f].state = "completed" => \E g \in G : Evidence(g, f)
                      /\ items[f].class = "unknown" => \E g \in G : Unsaid(g, f)
  BY DEF Founded
<1>5. SUFFICES ASSUME NEW f \in Item
               PROVE  /\ items'[f].state = "completed" => \E g \in G : Evidence(g, f)'
                      /\ items'[f].class = "unknown" => \E g \in G : Unsaid(g, f)'
  BY DEF Founded, Files
<1>6. CASE items'[f] = items[f] \/ (items'[f].class = "none" /\ items'[f].state # "completed")
  <2> HIDE DEF Evidence, Unsaid
  <2> QED BY <1>2, <1>3, <1>4, <1>6
<1>7. CASE UNCHANGED items
  BY <1>6, <1>7
<1>8. CASE Register
  <2>1. Head(todo) \in Item
    BY <1>8, Rest DEF Register, Shape
  <2>2. items \in [Item -> B!Entry] /\ \A h \in Item : items[h].state # "failed" => items[h].class = "none"
    BY DEF Built, B!TypeOK, B!NoClass
  <2>3. items'[f] = items[f] \/ (items'[f].class = "none" /\ items'[f].state = "selected")
    BY <1>8, <2>1, <2>2 DEF Register, M!RegisterSelected, B!Entry
  <2> QED BY <1>6, <2>3
<1>9. CASE ApplyResume
  <2>1. Head(todo) \in Item /\ ~frozen
    BY <1>9, Rest DEF ApplyResume, Shape, Told
  <2>2. items'[f] = items[f] \/ items'[f] = [state |-> "reused", class |-> M!NoClass]
    <3>1. CASE Head(todo) \in Reusable
      <4>1. M!Transition(Head(todo), "reused", M!NoClass) /\ M!ValidPayload("reused", M!NoClass)
        BY <1>9, <3>1 DEF ApplyResume, M!MarkReused, M!ValidPayload
      <4> QED BY <2>1, <4>1, MarkOne
    <3>2. CASE Head(todo) \notin Reusable
      BY <1>9, <3>2 DEF ApplyResume, manifestVars
    <3> QED BY <3>1, <3>2
  <2> QED BY <1>6, <2>2 DEF M!NoClass
<1>10. CASE FinalizeManifest
  <2>1. items'[f] = items[f] \/ (items[f].state = "selected" /\ items'[f] = [state |-> "failed", class |-> M!SweepClass])
    BY <1>10, FinalizeSweeps
  <2>2. items[f].state = "selected" => M!SweepClass # "unknown"
    BY <1>10 DEF FinalizeManifest, Caused, Told, M!SweepClass, M!ItemFailureForRunClass, M!NoClass
  <2>3. CASE items'[f] # items[f]
    <3>1. items'[f].state = "failed" /\ items'[f].class # "unknown"
      BY <2>1, <2>2, <2>3
    <3> QED BY <3>1
  <2> QED BY <1>6, <2>3
<1>11. ASSUME NEW g \in G, Settle(g), items'[f] # items[f]
       PROVE  /\ items'[f].state = "completed" => Evidence(g, f)'
              /\ items'[f].class = "unknown" => Unsaid(g, f)'
  <2>1. /\ f \in Files(g) /\ phase[g] = "settling"
        /\ items'[f] = IF Covers(g, f) THEN [state |-> "completed", class |-> "none"] ELSE [state |-> "failed", class |-> Class(outcome[g])]
    BY <1>11, SettleOne
  <2>2. UNCHANGED <<phase, outcome, comments>>
    BY <1>11 DEF Settle, workVars
  <2>3. CASE Covers(g, f)
    <3>1. items'[f].state = "completed" /\ items'[f].class = "none"
      BY <2>1, <2>3
    <3> QED BY <2>1, <2>2, <2>3, <3>1 DEF Covers, Files
  <2>4. CASE ~Covers(g, f)
    <3>1. items'[f].state = "failed" /\ items'[f].class = Class(outcome[g])
      BY <2>1, <2>4
    <3>2. Class(outcome[g]) = "unknown" => outcome[g].kind = "stop" /\ ClassifyStop(outcome[g].why) = "unknown"
      BY DEF Class, ClassifyItemError
    <3> QED BY <2>1, <2>2, <3>1, <3>2 DEF Files
  <2> QED BY <2>3, <2>4
<1>12. CASE \E g \in G : Settle(g)
  <2> HIDE DEF Evidence, Unsaid
  <2> QED BY <1>6, <1>11, <1>12
<1> QED BY <1>7, <1>8, <1>9, <1>10, <1>12, ItemsStand

-----------------------------------------------------------------------------
(* No step but these can end the dispatch early or open the freeze: a run that *)
(* stops short of a file has told the builder why.                             *)
LEMMA CausedNext == Shape /\ Order /\ Told /\ Built /\ Marked /\ Caused /\ [Next]_vars => Caused'
<1> SUFFICES ASSUME Shape, Order, Told, Built, Marked, Caused, [Next]_vars PROVE Caused'
  OBVIOUS
<1> USE DEF Caused
<1>1. CASE LoadFails
  <2>1. runFailure' = "input" /\ pc' = "freeze"
    BY <1>1 DEF LoadFails, Told, Late, M!SetRunFailure, M!RunFailureClass, M!NoClass
  <2> QED BY <2>1
<1>2. CASE NothingSelected
  BY <1>2 DEF NothingSelected, Marked, manifestVars
<1>3. CASE Load \/ Register \/ Seal \/ ApplyResume \/ Group
  <2>1. pc' \notin {"wait", "freeze", "finalize"}
    BY <1>3 DEF Load, Register, Seal, ApplyResume, Group
  <2> QED BY <2>1
<1>4. CASE Gate
  BY <1>4 DEF Gate, Told, M!SetPendingFailureCause, M!FailureClass, M!NoClass
<1>5. CASE AllDispatched \/ Acquire
  BY <1>5 DEF AllDispatched, Acquire, manifestVars
<1>6. CASE Spawn
  BY <1>6 DEF Spawn, AbandonSlot, manifestVars
<1>7. CASE Report
  <2>1. pc = "wait" /\ pc' = "freeze" /\ ~frozen /\ runFailure = "none"
    BY <1>7 DEF Report, Told, Late
  <2>2. CASE ctx # "live"
    BY <1>7, <2>1, <2>2 DEF Report, RecordContextFailure, M!SetPendingFailureCause, M!SetRunFailure, M!FailureClass,
       M!RunFailureClass, M!NoClass
  <2>3. CASE ctx = "live" /\ pendingFailure # "none"
    BY <1>7, <2>1, <2>3 DEF Report, manifestVars
  <2>4. CASE ctx = "live" /\ gi \notin G
    <3>1. gi \in Nat /\ \A g \in G : g \in Nat /\ g < gi
      BY <2>4, GroupFiles DEF Shape
    <3>2. \A g \in G : phase[g] = "done" /\ left[g] = <<>>
      BY <1>7, <3>1 DEF Report, Drained, Order
    <3>3. \A g \in G : \A f \in Files(g) : items[f].state # "selected"
      <4>1. Range(<<>>) = {}
        BY DEF Range
      <4> QED BY <3>2, <4>1 DEF Marked
    <3>4. \A f \in Item : f \in Reusable \/ \E g \in G : f \in Files(g)
      BY PartitionAssumption
    <3>5. \A f \in Item : items[f].state # "selected"
      BY <2>1, <3>3, <3>4 DEF Marked
    <3> QED BY <1>7, <2>1, <2>4, <3>5 DEF Report, manifestVars
  <2> QED BY <2>1, <2>2, <2>3, <2>4
<1>8. CASE FreezeInput
  BY <1>8 DEF FreezeInput, M!SetInput
<1>9. CASE FinalizeManifest \/ Persist
  BY <1>9 DEF FinalizeManifest, Persist
<1>10. CASE CtxEnd \/ Done \/ UNCHANGED vars
  BY <1>10 DEF CtxEnd, Done, vars, mainVars, manifestVars
<1>11. ASSUME NEW g \in G, Settle(g) PROVE Caused'
  <2>1. phase[g] = "settling" /\ UNCHANGED <<pc, gi, ctx>>
    BY <1>11 DEF Settle, mainVars
  <2>2. UNCHANGED <<runFailure, pendingFailure>>
    BY <1>11, SettleOne
  <2>3. pc \notin Late
    BY <2>1 DEF Order, Drained
  <2> QED BY <2>1, <2>2, <2>3 DEF Late
<1>12. ASSUME NEW g \in G, GroupStep(g) \/ Deliver(g) \/ End(g) \/ Release(g) PROVE Caused'
  BY <1>12 DEF GroupStep, Spend, Submit, FilterRemoves, Deliver, End, Release, mainVars, manifestVars
<1> QED BY <1>1, <1>2, <1>3, <1>4, <1>5, <1>6, <1>7, <1>8, <1>9, <1>10, <1>11, <1>12 DEF Next, Main, GroupProgress

-----------------------------------------------------------------------------
(* A group holds as many places as it is long, and what is owed is a finite set of them. *)
LEMMA OwedFinite ==
  /\ \A g \in G : IsFiniteSet(Copies(g)) /\ Cardinality(Copies(g)) = Len(Groups[g]) /\ Len(Groups[g]) \in Nat
  /\ \A S \in SUBSET G : IsFiniteSet(UNION {Copies(g) : g \in S})
<1>1. \A g \in G : IsFiniteSet(Copies(g)) /\ Cardinality(Copies(g)) = Len(Groups[g]) /\ Len(Groups[g]) \in Nat
  <2> SUFFICES ASSUME NEW g \in G
               PROVE  IsFiniteSet(Copies(g)) /\ Cardinality(Copies(g)) = Len(Groups[g]) /\ Len(Groups[g]) \in Nat
    OBVIOUS
  <2> DEFINE n == Len(Groups[g])
  <2>1. n \in Nat
    BY GroupFiles
  <2> HIDE DEF n
  <2>2. IsFiniteSet(1 .. n) /\ Cardinality(1 .. n) = n
    BY <2>1, FS_Interval
  <2>3. IsFiniteSet({g}) /\ Cardinality({g}) = 1
    BY FS_Singleton
  <2>4. IsFiniteSet({g} \X (1 .. n)) /\ Cardinality({g} \X (1 .. n)) = 1 * n
    BY <2>2, <2>3, FS_Product
  <2> QED BY <2>1, <2>4 DEF Copies, n
<1>2. ASSUME NEW S \in SUBSET G PROVE IsFiniteSet(UNION {Copies(g) : g \in S})
  <2> DEFINE T == {Copies(g) : g \in S}
             fn == [g \in S |-> Copies(g)]
  <2>1. IsFiniteSet(S)
    <3>1. IsFiniteSet(G)
      <4>1. Groups \in Seq(Seq(Item))
        BY PartitionAssumption
      <4>2. G = 1 .. Len(Groups) /\ Len(Groups) \in Nat
        BY <4>1, LenProperties DEF G
      <4> QED BY <4>2, FS_Interval
    <3> QED BY <3>1, FS_Subset
  <2>2. fn \in Surjection(S, T)
    BY DEF Surjection
  <2>3. IsFiniteSet(T)
    BY <2>1, <2>2, FS_Surjection
  <2>4. \A X \in T : IsFiniteSet(X)
    BY <1>1
  <2> QED BY <2>3, <2>4, FS_UNION
<1> QED BY <1>1, <1>2

(* A group that is counted leaves what is owed by exactly its length. *)
LEMMA OwedSplit ==
  ASSUME NEW S \in SUBSET G, NEW g \in G, g \notin S
  PROVE  LET U(T) == UNION {Copies(h) : h \in T}
         IN  /\ Cardinality(U(S \cup {g})) = Cardinality(U(S)) + Len(Groups[g])
             /\ Cardinality(U(S)) \in Nat
<1> DEFINE A == UNION {Copies(h) : h \in S}
           W == Copies(g)
           C == UNION {Copies(h) : h \in S \cup {g}}
<1>1. C = A \cup W
  OBVIOUS
<1>2. A \cap W = {}
  BY DEF Copies
<1>3. IsFiniteSet(A) /\ IsFiniteSet(W) /\ Cardinality(W) = Len(Groups[g]) /\ Len(Groups[g]) \in Nat
  BY OwedFinite
<1>4. Cardinality(A) \in Nat
  BY <1>3, FS_CardinalityType
<1>5. Cardinality(A \cap W) = 0
  BY <1>2, FS_EmptySet
<1>6. Cardinality(A \cup W) = Cardinality(A) + Cardinality(W) - Cardinality(A \cap W)
  BY <1>3, FS_Union
<1> HIDE DEF A, W, C
<1>7. Cardinality(C) = Cardinality(A) + Len(Groups[g])
  BY <1>1, <1>3, <1>4, <1>5, <1>6
<1> QED BY <1>4, <1>7 DEF A, C

(* No file is counted as failed before it was dispatched, nor twice. *)
LEMMA AccountedNext == Shape /\ Order /\ Accounted /\ [Next]_vars => Accounted'
<1> SUFFICES ASSUME Shape, Order, Accounted, [Next]_vars PROVE Accounted'
  OBVIOUS
<1> USE DEF Accounted
<1>1. /\ Owed = UNION {Copies(g) : g \in Open} /\ Open \subseteq G
      /\ Owed' = UNION {Copies(g) : g \in Open'} /\ Open' \subseteq G
  BY DEF Owed, Open, Copies, Files, G
<1>2. ASSUME UNCHANGED <<subtaskFailed, dispatched>>, Open' = Open PROVE Accounted'
  <2>1. Owed' = Owed
    BY <1>1, <1>2
  <2> QED BY <1>2, <2>1 DEF Files, Item
<1>3. ASSUME UNCHANGED <<subtaskFailed, dispatched, phase, outcome>> PROVE Accounted'
  <2>1. Open' = Open
    BY <1>3 DEF Open, Counted, G
  <2> QED BY <1>2, <1>3, <2>1
<1>4. CASE Spawn
  <2>1. CASE ctx # "live"
    BY <1>3, <1>4, <2>1 DEF Spawn, AbandonSlot
  <2>2. CASE ctx = "live"
    <3>1. /\ gi \in G /\ phase[gi] = "idle" /\ phase' = [phase EXCEPT ![gi] = "running"] /\ UNCHANGED <<outcome, subtaskFailed>>
          /\ dispatched' = dispatched + Len(Groups[gi])
      BY <1>4, <2>2, GroupFiles DEF Spawn, Order, Shape
    <3>2. phase'[gi] = "running" /\ \A g \in G : g # gi => phase'[g] = phase[g]
      BY <3>1 DEF Shape
    <3>3. outcome[gi].kind = "none" /\ ~outcome[gi].report
      BY <3>1 DEF Order
    <3>4. Open' = Open \cup {gi} /\ gi \notin Open
      <4>1. gi \notin Open /\ gi \in Open'
        BY <3>1, <3>2, <3>3 DEF Open, Counted
      <4>2. \A g \in G : g # gi => (g \in Open <=> g \in Open')
        BY <3>1, <3>2 DEF Open, Counted
      <4> QED BY <1>1, <3>1, <4>1, <4>2
    <3>5. Cardinality(Owed') = Cardinality(Owed) + Len(Groups[gi]) /\ Cardinality(Owed) \in Nat
      BY <1>1, <3>1, <3>4, OwedSplit
    <3>6. Len(Groups[gi]) \in Nat
      BY <3>1, GroupFiles
    <3>7. Item = {} => Len(Groups[gi]) = 0
      <4>1. Groups[gi] \in Seq(Item)
        BY <3>1, GroupFiles
      <4>2. Len(Groups[gi]) > 0 => Groups[gi][1] \in Item
        BY <3>6, <4>1, ElementOfSeq
      <4> QED BY <3>6, <4>2
    <3> QED BY <3>1, <3>5, <3>6, <3>7 DEF Shape, Item
  <2> QED BY <2>1, <2>2
<1>5. ASSUME NEW g \in G, End(g) PROVE Accounted'
  <2>1. PICK e \in Endings(g) : /\ outcome' = [outcome EXCEPT ![g] = e]
                                /\ subtaskFailed' = IF e.kind = "error" THEN subtaskFailed + Len(Groups[g]) ELSE subtaskFailed
    BY <1>5 DEF End
  <2>2. phase[g] = "running" /\ phase' = [phase EXCEPT ![g] = "settling"] /\ UNCHANGED dispatched
    BY <1>5 DEF End, mainVars
  <2>3. /\ outcome'[g] = e /\ phase'[g] = "settling"
        /\ \A h \in G : h # g => outcome'[h] = outcome[h] /\ phase'[h] = phase[h]
    BY <2>1, <2>2 DEF Shape
  <2>4. g \in Open
    BY <2>2 DEF Open, Counted, Order
  <2>5. \A h \in G : h # g => (h \in Open <=> h \in Open')
    BY <2>3 DEF Open, Counted
  <2>6. CASE e.kind = "error"
    <3>1. g \notin Open'
      BY <2>3, <2>6 DEF Open, Counted
    <3>2. Open = Open' \cup {g}
      BY <1>1, <2>4, <2>5, <3>1
    <3>3. Cardinality(Owed) = Cardinality(Owed') + Len(Groups[g]) /\ Cardinality(Owed') \in Nat
      BY <1>1, <3>1, <3>2, OwedSplit
    <3>4. subtaskFailed' = subtaskFailed + Len(Groups[g]) /\ Len(Groups[g]) \in Nat
      BY <2>1, <2>6, GroupFiles
    <3> QED BY <2>2, <3>3, <3>4 DEF Shape
  <2>7. CASE e.kind # "error"
    <3>1. g \in Open'
      BY <2>3, <2>7 DEF Open, Counted
    <3>2. \A h \in G : h \in Open <=> h \in Open'
      BY <2>4, <2>5, <3>1
    <3>3. Open' = Open
      BY <1>1, <3>2
    <3> QED BY <1>2, <2>1, <2>2, <2>7, <3>3
  <2> QED BY <2>6, <2>7
<1>6. ASSUME NEW g \in G, Release(g) PROVE Accounted'
  <2>1. /\ phase[g] = "settling" /\ phase' = [phase EXCEPT ![g] = "done"] /\ UNCHANGED <<dispatched, outcome>>
        /\ subtaskFailed' = IF outcome[g].report THEN subtaskFailed + FailedFiles(g) ELSE subtaskFailed
    BY <1>6 DEF Release, mainVars
  <2>2. phase'[g] = "done" /\ \A h \in G : h # g => phase'[h] = phase[h]
    BY <2>1 DEF Shape
  <2>3. \A h \in G : h # g => (h \in Open <=> h \in Open')
    BY <2>1, <2>2 DEF Open, Counted
  <2>4. CASE outcome[g].report
    <3>1. g \in Open /\ g \notin Open'
      BY <2>1, <2>2, <2>4 DEF Open, Counted, Order
    <3>2. Open = Open' \cup {g}
      BY <1>1, <2>3, <3>1
    <3>3. Cardinality(Owed) = Cardinality(Owed') + Len(Groups[g]) /\ Cardinality(Owed') \in Nat
      BY <1>1, <3>1, <3>2, OwedSplit
    <3>4. subtaskFailed' = subtaskFailed + FailedFiles(g) /\ FailedFiles(g) \in Nat /\ FailedFiles(g) <= Len(Groups[g])
      BY <2>1, <2>4, FailedBound
    <3>5. Len(Groups[g]) \in Nat
      BY GroupFiles
    <3>6. subtaskFailed + Cardinality(Owed) <= dispatched /\ subtaskFailed \in Nat /\ dispatched \in Nat /\ dispatched' = dispatched
      BY <2>1 DEF Shape
    <3>7. subtaskFailed' + Cardinality(Owed') <= dispatched'
      BY <3>3, <3>4, <3>5, <3>6
    <3> QED BY <3>6, <3>7 DEF Item
  <2>5. CASE ~outcome[g].report
    <3>1. g \in Open <=> g \in Open'
      BY <2>1, <2>2, <2>5 DEF Open, Counted
    <3>2. Open' = Open
      BY <1>1, <2>3, <3>1
    <3> QED BY <1>2, <2>1, <2>5, <3>2
  <2> QED BY <2>4, <2>5
<1>7. CASE \/ Main /\ ~Spawn
           \/ CtxEnd \/ Done \/ UNCHANGED vars
           \/ \E g \in G : GroupStep(g) \/ Deliver(g) \/ Settle(g)
  <2>1. UNCHANGED <<subtaskFailed, dispatched, phase, outcome>>
    BY <1>7 DEF Main, LoadFails, NothingSelected, Load, Register, Seal, ApplyResume, Group, Gate, AllDispatched, Acquire,
       Report, FreezeInput, FinalizeManifest, Persist, CtxEnd, Done, GroupStep, Spend, Submit, FilterRemoves, Deliver, Settle,
       vars, mainVars, groupVars
  <2> QED BY <1>3, <2>1
<1> QED BY <1>4, <1>5, <1>6, <1>7 DEF Next, Main, GroupProgress

(* When every dispatched file was counted as failed, none was reused and no comment *)
(* stands, no file of the change was covered: the counters of dispatchSubtasks say  *)
(* what the manifest says.                                                          *)
LEMMA AllFailedSound ==
  ASSUME Shape, Order, Built, Marked, Founded, Accounted, pc = "wait", AllFailed, comments = {}
  PROVE  Item # {} /\ \A f \in Item : items[f].state \in {"selected", "failed"}
<1>1. Item # {}
  BY DEF AllFailed, Accounted, Shape
<1>2. \A g \in Open : Files(g) = {}
  <2>1. Owed = UNION {Copies(g) : g \in Open} /\ Open \subseteq G
    BY DEF Owed, Open
  <2>2. IsFiniteSet(Owed)
    BY <2>1, OwedFinite
  <2>3. Cardinality(Owed) \in Nat /\ (Cardinality(Owed) = 0 => Owed = {})
    BY <2>2, FS_CardinalityType, FS_EmptySet
  <2>4. Owed = {}
    BY <2>3 DEF AllFailed, Accounted, Shape
  <2> SUFFICES ASSUME NEW g \in Open PROVE Files(g) = {}
    OBVIOUS
  <2>5. Copies(g) = {} /\ g \in G
    BY <2>1, <2>4
  <2>6. Len(Groups[g]) \in Nat /\ Groups[g] \in Seq(Item)
    BY <2>5, GroupFiles
  <2>7. DOMAIN Groups[g] = 1 .. Len(Groups[g])
    BY <2>6, LenProperties
  <2>8. 1 .. Len(Groups[g]) = {}
    <3>1. \A i \in 1 .. Len(Groups[g]) : <<g, i>> \in Copies(g)
      BY DEF Copies
    <3> QED BY <2>5, <3>1
  <2> QED BY <2>7, <2>8 DEF Files, Range
<1>3. ASSUME NEW f \in Item PROVE checkpoint[f] # "reused"
  <2> DEFINE R == {h \in Item : checkpoint[h] = "reused"}
  <2>1. IsFiniteSet(Item)
    <3>1. AllFiles \in Seq(Item) /\ Item = {AllFiles[i] : i \in DOMAIN AllFiles}
      BY ChangeAssumption DEF Item, Range
    <3>2. DOMAIN AllFiles = 1 .. Len(AllFiles) /\ Len(AllFiles) \in Nat
      BY <3>1, LenProperties
    <3>3. IsFiniteSet(1 .. Len(AllFiles))
      BY <3>2, FS_Interval
    <3>4. AllFiles \in [1 .. Len(AllFiles) -> Item]
      BY <3>1, <3>2, LenProperties
    <3>5. AllFiles \in Surjection(1 .. Len(AllFiles), Item)
      BY <3>1, <3>2, <3>4 DEF Surjection
    <3> QED BY <3>3, <3>5, FS_Surjection
  <2>2. IsFiniteSet(R)
    <3>1. R \subseteq Item
      OBVIOUS
    <3> QED BY <2>1, <3>1, FS_Subset
  <2>3. Cardinality(R) = 0
    BY DEF AllFailed, ReusedFiles
  <2>4. R = {}
    BY <2>2, <2>3, FS_EmptySet
  <2> QED BY <2>4
<1>4. ASSUME NEW f \in Item PROVE items[f].state # "completed"
  <2>1. SUFFICES ASSUME items[f].state = "completed" PROVE FALSE
    OBVIOUS
  <2>2. PICK g \in G : f \in Files(g) /\ phase[g] \in {"settling", "done"} /\ (outcome[g].kind = "completed" \/ f \in comments)
    BY <2>1 DEF Founded
  <2>3. outcome[g].kind = "completed"
    BY <2>2
  <2>4. ~outcome[g].report
    BY <2>3 DEF Order
  <2>5. g \in Open
    BY <2>2, <2>3, <2>4 DEF Open, Counted
  <2> QED BY <1>2, <2>2, <2>5
<1>5. \A f \in Item : items[f].state \in {"selected", "failed", "completed", "reused", "waived", "absent"}
  BY DEF Built, B!TypeOK, B!Entry, B!ItemState
<1> QED BY <1>1, <1>3, <1>4, <1>5 DEF Marked

(* The error Agent.Run returns is never without a cause that the manifest shares. *)
LEMMA EndedNext ==
  Shape /\ Order /\ Told /\ Built /\ Marked /\ Founded /\ Accounted /\ Ended /\ [Next]_vars => Ended'
<1> SUFFICES ASSUME Shape, Order, Told, Built, Marked, Founded, Accounted, Ended, [Next]_vars PROVE Ended'
  OBVIOUS
<1> USE DEF Ended, Late
<1>1. CASE LoadFails
  <2>1. runFailure' = "input" /\ pc' = "freeze" /\ runErr' = "load"
    BY <1>1 DEF LoadFails, Told, M!SetRunFailure, M!RunFailureClass, M!NoClass
  <2> QED BY <2>1
<1>2. CASE \/ NothingSelected \/ Load \/ Register \/ Seal \/ ApplyResume \/ Group \/ Gate \/ AllDispatched
           \/ Acquire \/ Spawn
  <2>1. pc \notin Late /\ UNCHANGED runErr
    BY <1>2 DEF NothingSelected, Load, Register, Seal, ApplyResume, Group, Gate, AllDispatched, Acquire, Spawn
  <2>2. runErr = "none"
    BY <2>1
  <2> QED BY <2>1, <2>2
<1>3. CASE Report
  <2>1. pc = "wait" /\ pc' = "freeze" /\ UNCHANGED ctx /\ ~frozen /\ runFailure = "none"
    BY <1>3 DEF Report, Told
  <2>2. CASE ctx # "live"
    <3>1. runErr' = "ctx" /\ RecordContextFailure
      BY <1>3, <2>2 DEF Report
    <3>2. ctx # "deadline" => runFailure' # "none"
      BY <2>1, <3>1 DEF RecordContextFailure, M!SetRunFailure, M!RunFailureClass, M!NoClass
    <3> QED BY <2>1, <2>2, <3>1, <3>2
  <2>3. CASE ctx = "live" /\ AllFailed /\ comments = {}
    <3>1. runErr' = "allFailed" /\ UNCHANGED items
      BY <1>3, <2>3 DEF Report, manifestVars
    <3>2. Item # {} /\ \A f \in Item : items[f].state \in {"selected", "failed"}
      BY <2>1, <2>3, AllFailedSound
    <3> QED BY <2>1, <3>1, <3>2 DEF Item
  <2>4. CASE ctx = "live" /\ ~(AllFailed /\ comments = {})
    BY <1>3, <2>1, <2>4 DEF Report
  <2> QED BY <2>2, <2>3, <2>4
<1>4. CASE FreezeInput
  BY <1>4 DEF FreezeInput, M!SetInput, Item
<1>5. CASE FinalizeManifest
  <2>1. UNCHANGED <<runFailure, runErr, sessionEnd, ctx>> /\ pc' \in Late /\ pc = "finalize"
    BY <1>5, FinalizeSweeps DEF FinalizeManifest
  <2>2. \A f \in Item : items[f].state \in {"selected", "failed"} => items'[f].state \in {"selected", "failed"}
    BY <1>5, FinalizeSweeps
  <2> QED BY <2>1, <2>2 DEF Item
<1>6. CASE Persist
  BY <1>6 DEF Persist, manifestVars, Item
<1>7. CASE CtxEnd
  BY <1>7 DEF CtxEnd, mainVars, manifestVars, Item
<1>8. CASE Done \/ UNCHANGED vars
  BY <1>8 DEF Done, vars, mainVars, manifestVars, Item
<1>9. ASSUME NEW g \in G, Settle(g) PROVE Ended'
  <2>1. phase[g] = "settling" /\ UNCHANGED <<pc, runErr>>
    BY <1>9 DEF Settle, mainVars
  <2>2. pc \notin Late
    BY <2>1 DEF Order, Drained
  <2> QED BY <2>1, <2>2
<1>10. ASSUME NEW g \in G, GroupStep(g) \/ Deliver(g) \/ End(g) \/ Release(g) PROVE Ended'
  <2>1. UNCHANGED <<pc, runErr, sessionEnd, ctx, items, runFailure>>
    BY <1>10 DEF GroupStep, Spend, Submit, FilterRemoves, Deliver, End, Release, mainVars, manifestVars
  <2> QED BY <2>1 DEF Item
<1> QED BY <1>1, <1>2, <1>3, <1>4, <1>5, <1>6, <1>7, <1>8, <1>9, <1>10 DEF Next, Main, GroupProgress

-----------------------------------------------------------------------------
(* The inductive invariant: what holds of a review at every step of any of its goroutines. *)
THEOREM Inductive == Spec => []Inv
<1>1. Init => Inv
  <2>1. Init => Shape
    BY ShapeInit
  <2>2. Init => Order
    BY GroupFiles DEF Init, Order, Undecided, Late
  <2>3. Init => Told
    BY DEF Init, Told, M!Init, M!NoClass
  <2>4. Init => Marked
    BY GroupFiles DEF Init, Marked, M!Init
  <2>5. Init => Founded
    BY DEF Init, Founded, M!Init, M!NoClass
  <2>6. Init => Caused
    BY DEF Init, Caused
  <2>7. Init => Accounted
    <3> SUFFICES ASSUME Init PROVE Accounted
      OBVIOUS
    <3>1. Open = {}
      BY DEF Init, Open
    <3>2. Owed = {}
      BY <3>1 DEF Owed
    <3> QED BY <3>2, FS_EmptySet DEF Init, Accounted
  <2>8. Init => Ended
    BY DEF Init, Ended
  <2> QED BY <2>1, <2>2, <2>3, <2>4, <2>5, <2>6, <2>7, <2>8 DEF Inv
<1>2. Inv /\ Built /\ [Next]_vars => Inv'
  BY ShapeNext, OrderNext, ToldNext, MarkedNext, FoundedNext, CausedNext, AccountedNext, EndedNext DEF Inv
<1> QED BY <1>1, <1>2, BuiltAlways, PTL DEF Spec

(* What Agent.Run returns is everything that ever landed in the collector: once      *)
(* dispatchSubtasks collected its result no goroutine and no task adds or removes one. *)
THEOREM OutputIsComplete == Spec => []OutputComplete
<1>1. Inv => OutputComplete
  BY DEF Inv, Order, Late, Drained, OutputComplete
<1> QED BY <1>1, Inductive, PTL

(* A file reported completed has evidence of its own, however comments were re-filed *)
(* and filtered while its group settled.                                             *)
THEOREM CompletedHasEvidence == Spec => []CompletedOnEvidence
<1>1. Inv => CompletedOnEvidence
  BY DEF Inv, Founded, CompletedOnEvidence
<1> QED BY <1>1, Inductive, PTL

(* What the exit status says of a run whose end was recorded is what its coverage says. *)
LEMMA ExitOfCoverage == Inv /\ Built => ExitContract
<1> SUFFICES ASSUME Inv, Built, pc = "done", sessionEnd = "written", ctx # "deadline"
             PROVE  ExitsNonZero <=> \/ result.runFailure # M!NoClass
                                     \/ result.coverage.selected # {} /\ result.coverage.selected = result.coverage.failed
  BY DEF ExitContract
<1> DEFINE sel == {f \in Item : items[f].state # "absent"}
           fld == {f \in Item : items[f].state = "failed"}
<1>1. /\ frozen /\ result.coverage = B!BuildCoverage(items) /\ result.runFailure = runFailure
      /\ result.terminal = B!ComputeTerminal(B!BuildCoverage(items), runFailure)
      /\ \A f \in Item : items[f].state # "selected"
  BY DEF Inv, Told, Built, B!ManifestIsSnapshot, B!InState
<1>2. result.coverage.selected = sel /\ result.coverage.failed = fld
  BY <1>1 DEF B!BuildCoverage, B!InState
<1>3. result.terminal = "failed" <=> runFailure # "none" \/ (sel # {} /\ fld = sel)
  <2>1. B!BuildCoverage(items).selected = sel /\ B!BuildCoverage(items).failed = fld
    BY DEF B!BuildCoverage, B!InState
  <2>2. sel # {} /\ fld = sel => fld # {}
    OBVIOUS
  <2> HIDE DEF sel, fld
  <2> QED BY <1>1, <2>1, <2>2 DEF B!ComputeTerminal, B!NoClass
<1>4. runErr # "none" => runFailure # "none" \/ (sel # {} /\ fld = sel)
  <2>1. runErr \in {"none", "load", "ctx", "allFailed"}
    BY DEF Inv, Ended
  <2>2. runErr \in {"load", "ctx"} => runFailure # "none"
    BY DEF Inv, Ended
  <2>3. runErr = "allFailed" => sel = Item /\ fld = Item /\ Item # {}
    BY <1>1 DEF Inv, Ended
  <2> QED BY <2>1, <2>2, <2>3
<1> HIDE DEF sel, fld
<1> QED BY <1>1, <1>2, <1>3, <1>4 DEF ExitsNonZero, M!NoClass

(* How a run ended is told by its causes: what was left out by what stopped it, the *)
(* exit status by the coverage, whoever failed, was cancelled or came late.         *)
THEOREM EndIsTold == Spec => []EndIsExplained
<1>1. Inv => SweepIsExplained
  BY DEF Inv, Founded, SweepIsExplained
<1> QED BY <1>1, ExitOfCoverage, Inductive, BuiltAlways, PTL DEF EndIsExplained

(* Every review's manifest is whole: what is never reported complete, or changed     *)
(* after the seal, whatever order its goroutines report in.                          *)
THEOREM ManifestOfReview == Spec => []B!CompleteMeansCovered /\ B!DenominatorFixed /\ B!ImplementsLedger
<1>1. B!ClassAssumption
  BY DEF B!ClassAssumption, M!FailureClass, B!NoClass
<1> QED BY <1>1, CallsTheBuilder, B!CoverageCorrect, B!DenominatorCorrect, B!LedgerImplemented, PTL
=============================================================================
