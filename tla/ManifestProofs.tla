--------------------------- MODULE ManifestProofs ---------------------------
(***************************************************************************)
(* The safety of the manifest builder for any set of items, any classes    *)
(* and modes its callers may pass, and any order of their calls.           *)
(***************************************************************************)
EXTENDS Manifest, TLAPS

(* What an operation other than a registration, a transition or Finalize     *)
(* leaves alone.                                                             *)
LEMMA OtherSteps ==
  ASSUME \/ \E m \in Modes : SetInput(m)
         \/ \E c \in RunClasses : SetRunFailure(c)
         \/ \E c \in ItemClasses : SetPendingFailureCause(c)
         \/ SealSelected
  PROVE  UNCHANGED <<items, frozen, result>>
BY DEF SetInput, SetRunFailure, SetPendingFailureCause, SealSelected

(* A mark, in the one form the four Mark* methods share: the target state is *)
(* terminal and comes with a class exactly when it is "failed".              *)
LEMMA MarkStep ==
  ASSUME \/ \E i \in Item : RegisterSelected(i)
         \/ \E i \in Item : MarkCompleted(i)
         \/ \E i \in Item : MarkReused(i)
         \/ \E i \in Item, c \in ItemClasses : MarkFailed(i, c)
         \/ \E i \in Item, blank \in BOOLEAN : MarkWaived(i, blank)
  PROVE  \/ \E i \in Item : RegisterSelected(i)
         \/ \E i \in Item, to \in {"completed", "reused", "waived"} : Transition(i, to, NoClass)
         \/ \E i \in Item, c \in ItemClasses : Transition(i, "failed", c)
BY DEF MarkCompleted, MarkReused, MarkFailed, MarkWaived

(* The sweep leaves no item undecided, and is well typed: the class it uses  *)
(* is an item class whatever the run failure is.                             *)
LEMMA SweptType ==
  ASSUME TypeOK
  PROVE  /\ SweepClass \in FailureClass
         /\ Swept \in [Item -> Entry]
         /\ \A i \in Item : Swept[i].state = "failed" <=> Swept[i].class # NoClass
         /\ \A i \in Item : Swept[i].state # "selected"
<1>1. SweepClass \in FailureClass
  BY DEF SweepClass, TypeOK, ItemFailureForRunClass, FailureClass, RunFailureClass, NoClass
<1>2. NoClass \notin FailureClass
  BY DEF NoClass, FailureClass
<1>3. QED
  BY <1>1, <1>2 DEF Swept, TypeOK, Entry, ItemState

(* What Finalize publishes of any well typed items is a run manifest. *)
LEMMA ManifestType ==
  ASSUME NEW m \in [Item -> Entry], TypeOK
  PROVE  FinalManifest(m) \in RunManifest
BY DEF FinalManifest, RunManifest, BuildCoverage, Coverage, InState, ComputeTerminal,
       TerminalState, TypeOK

-----------------------------------------------------------------------------
(* A new builder is well typed (NewManifestBuilder). *)
LEMMA InitTypeOK == Init => TypeOK
<1> SUFFICES ASSUME Init PROVE TypeOK
  OBVIOUS
<1>1. items \in [Item -> Entry] /\ \A i \in Item : items[i].state = "failed" <=> items[i].class # NoClass
  BY DEF Init, Entry, ItemState
<1>2. QED
  BY <1>1 DEF Init, TypeOK

(* Every operation keeps the builder well typed, accepted or rejected. *)
LEMMA NextTypeOK == TypeOK /\ [Next]_manifestVars => TypeOK'
<1> SUFFICES ASSUME TypeOK, [Next]_manifestVars PROVE TypeOK'
  OBVIOUS
<1>0. NoClass \notin FailureClass
  BY DEF NoClass, FailureClass
<1>1. ASSUME NEW m \in Modes, SetInput(m) PROVE TypeOK'
  BY <1>1 DEF TypeOK, SetInput
<1>2. ASSUME NEW c \in RunClasses, SetRunFailure(c) PROVE TypeOK'
  BY <1>2 DEF TypeOK, SetRunFailure
<1>3. ASSUME NEW c \in ItemClasses, SetPendingFailureCause(c) PROVE TypeOK'
  BY <1>3 DEF TypeOK, SetPendingFailureCause
<1>4. ASSUME NEW i \in Item, RegisterSelected(i) PROVE TypeOK'
  BY <1>4 DEF TypeOK, RegisterSelected, Entry, ItemState
<1>5. CASE SealSelected
  BY <1>5 DEF TypeOK, SealSelected
<1>6. ASSUME NEW i \in Item, NEW to \in {"completed", "reused", "waived"},
             Transition(i, to, NoClass)
      PROVE  TypeOK'
  BY <1>6 DEF TypeOK, Transition, Entry, ItemState
<1>7. ASSUME NEW i \in Item, NEW c \in ItemClasses, Transition(i, "failed", c)
      PROVE  TypeOK'
  BY <1>0, <1>7 DEF TypeOK, Transition, CanTransition, ValidPayload, Entry, ItemState
<1>8. CASE Finalize
  BY <1>8, SweptType, ManifestType DEF TypeOK, Finalize
<1>9. CASE UNCHANGED manifestVars
  BY <1>9 DEF TypeOK, manifestVars
<1>10. QED
  BY <1>1, <1>2, <1>3, <1>4, <1>5, <1>6, <1>7, <1>8, <1>9, MarkStep DEF Next

(* Every field of the builder keeps its type, and an item carries a failure  *)
(* class exactly when it is failed.                                          *)
THEOREM TypeCorrect == Spec => []TypeOK
<1>1. QED
  BY InitTypeOK, NextTypeOK, PTL DEF Spec

-----------------------------------------------------------------------------
(* A new builder has no manifest (NewManifestBuilder). *)
LEMMA InitSnapshot == Init => ManifestIsSnapshot
BY DEF Init, ManifestIsSnapshot

(* Only Finalize writes the manifest, and nothing changes the items after it. *)
LEMMA NextSnapshot == TypeOK /\ ManifestIsSnapshot /\ [Next]_manifestVars => ManifestIsSnapshot'
<1> SUFFICES ASSUME TypeOK, ManifestIsSnapshot, [Next]_manifestVars
             PROVE  ManifestIsSnapshot'
  OBVIOUS
<1>1. CASE UNCHANGED <<items, frozen, result, runFailure>>
  BY <1>1 DEF ManifestIsSnapshot, BuildCoverage, InState
<1>2. ASSUME NEW c \in RunClasses, SetRunFailure(c) PROVE ManifestIsSnapshot'
  <2>1. frozen => runFailure' = runFailure
    BY <1>2 DEF SetRunFailure
  <2>2. QED
    BY <1>2, <2>1 DEF SetRunFailure, ManifestIsSnapshot, BuildCoverage, InState
<1>3. ASSUME NEW i \in Item, NEW to, NEW c,
             RegisterSelected(i) \/ Transition(i, to, c)
      PROVE  ManifestIsSnapshot'
  <2>1. frozen => items' = items
    BY <1>3 DEF RegisterSelected, Transition, CanTransition
  <2>2. UNCHANGED <<frozen, result, runFailure>>
    BY <1>3 DEF RegisterSelected, Transition
  <2>3. QED
    BY <2>1, <2>2 DEF ManifestIsSnapshot, BuildCoverage, InState
<1>4. CASE Finalize
  <2>1. CASE ~frozen /\ ValidateLocked(Swept)
    <3>1. items' = Swept /\ frozen' = TRUE /\ result' = FinalManifest(Swept)
             /\ runFailure' = runFailure
      BY <1>4, <2>1 DEF Finalize
    <3>2. FinalManifest(Swept).terminal # NoResult.terminal
      BY DEF FinalManifest, ComputeTerminal, NoResult
    <3>3. InState(Swept, "selected") = {}
      BY SweptType DEF InState
    <3>4. QED
      BY <3>1, <3>2, <3>3 DEF ManifestIsSnapshot, FinalManifest, BuildCoverage, InState
  <2>2. CASE ~(~frozen /\ ValidateLocked(Swept))
    BY <1>1, <1>4, <2>2 DEF Finalize
  <2>3. QED
    BY <2>1, <2>2
<1>5. CASE UNCHANGED manifestVars
  BY <1>1, <1>5 DEF manifestVars
<1>6. ASSUME \/ \E m \in Modes : SetInput(m)
             \/ \E c \in ItemClasses : SetPendingFailureCause(c)
             \/ SealSelected
      PROVE  ManifestIsSnapshot'
  BY <1>1, <1>6 DEF SetInput, SetPendingFailureCause, SealSelected
<1>7. QED
  BY <1>2, <1>3, <1>4, <1>5, <1>6, MarkStep DEF Next

(* The manifest a run publishes is the truth about its items, for ever: late *)
(* or conflicting calls cannot make the two disagree.                        *)
THEOREM SnapshotCorrect == Spec => []ManifestIsSnapshot
<1>1. TypeOK /\ ManifestIsSnapshot /\ [Next]_manifestVars => ManifestIsSnapshot'
  BY NextSnapshot
<1>2. QED
  BY <1>1, InitSnapshot, TypeCorrect, PTL DEF Spec

(* The verdict of a manifest that is a snapshot is earned (computeTerminal). *)
LEMMA SnapshotCovered == TypeOK /\ ManifestIsSnapshot => CompleteMeansCovered
<1> SUFFICES ASSUME TypeOK, ManifestIsSnapshot, frozen
             PROVE  /\ result.terminal = "complete" =>
                         \A i \in Item : items[i].state \in {"absent", "completed", "reused", "waived"}
                    /\ result.terminal = "partial" =>
                         \E i, j \in Item : /\ items[i].state \in {"completed", "reused", "waived"}
                                            /\ items[j].state = "failed"
  BY DEF CompleteMeansCovered
<1> DEFINE cov == BuildCoverage(items)
<1>1. result.terminal = ComputeTerminal(cov, runFailure)
  BY DEF ManifestIsSnapshot
<1>2. \A i \in Item : items[i].state \in ItemState \ {"selected"}
  BY DEF ManifestIsSnapshot, InState, TypeOK, Entry
<1>3. cov.failed = {i \in Item : items[i].state = "failed"}
      /\ cov.selected = {i \in Item : items[i].state # "absent"}
  BY DEF BuildCoverage, InState
<1>4. result.terminal = "complete" => cov.failed = {}
  BY <1>1 DEF ComputeTerminal
<1>5. result.terminal = "partial" => cov.failed # {} /\ cov.failed # cov.selected
  BY <1>1, <1>3 DEF ComputeTerminal
<1>6. QED
  BY <1>2, <1>3, <1>4, <1>5 DEF ItemState

(* A run reported complete covered all it selected, and one reported partial *)
(* covered something and lost something.                                     *)
THEOREM CoverageCorrect == Spec => []CompleteMeansCovered
BY SnapshotCovered, TypeCorrect, SnapshotCorrect, PTL

(* A sweep of well typed items is always valid (Finalize, validateLocked). *)
LEMMA TypeCanClose == TypeOK => CanAlwaysClose
<1> SUFFICES ASSUME TypeOK, mode \in InputMode PROVE ValidateLocked(Swept)
  BY DEF CanAlwaysClose
<1> DEFINE cov == BuildCoverage(Swept)
<1>1. \A i \in Item : Swept[i].state \in ItemState \ {"selected"}
  BY SweptType DEF Entry
<1>2. cov.selected = cov.completed \cup cov.reused \cup cov.failed \cup cov.waived
  BY <1>1 DEF BuildCoverage, InState, ItemState
<1>3. \A i \in cov.failed : Swept[i].class \in FailureClass
  BY SweptType DEF BuildCoverage, InState, Entry
<1>4. QED
  BY <1>2, <1>3 DEF ValidateLocked, TypeOK

(* Whatever was reported, in whatever order, a run whose input mode is set   *)
(* can be closed and delivers its manifest.                                  *)
THEOREM AlwaysClosable == Spec => []CanAlwaysClose
BY TypeCanClose, TypeCorrect, PTL

-----------------------------------------------------------------------------
(* Once sealed, the coverage denominator is fixed: no later call widens or      *)
(* narrows the set of selected files (SealSelected, RegisterSelected).          *)
DenominatorFixed ==
  [][sealed => {i \in Item : items'[i].state = "absent"} = InState(items, "absent")]_manifestVars

(* No operation on a sealed builder changes which items are registered. *)
LEMMA NextDenominator ==
  TypeOK /\ [Next]_manifestVars =>
    [sealed => {i \in Item : items'[i].state = "absent"} = InState(items, "absent")]_manifestVars
<1> SUFFICES ASSUME TypeOK, Next, sealed
             PROVE  {i \in Item : items'[i].state = "absent"} = InState(items, "absent")
  OBVIOUS
<1>1. CASE items' = items
  BY <1>1 DEF InState
<1>2. ASSUME NEW i \in Item, RegisterSelected(i) PROVE items' = items
  BY <1>2 DEF RegisterSelected
<1>3. ASSUME NEW i \in Item, NEW to, NEW c, to # "absent", Transition(i, to, c)
      PROVE  {j \in Item : items'[j].state = "absent"} = InState(items, "absent")
  BY <1>3 DEF Transition, CanTransition, InState, TypeOK, Entry
<1>4. CASE Finalize
  BY <1>4 DEF Finalize, Swept, InState, TypeOK, Entry
<1>5. QED
  BY <1>1, <1>2, <1>3, <1>4, OtherSteps, MarkStep DEF Next

(* After the seal nobody adds a file to the denominator or drops one.        *)
THEOREM DenominatorCorrect == Spec => DenominatorFixed
BY NextDenominator, TypeCorrect, PTL DEF Spec, DenominatorFixed

-----------------------------------------------------------------------------
(* The refinement: a call the builder accepts is a step of the ledger, one   *)
(* it rejects is a stutter.                                                  *)

(* The builder is frozen exactly when the ledger is closed. *)
LEMMA ClosedIsFrozen ==
  ASSUME TypeOK, ManifestIsSnapshot
  PROVE  frozen <=> Ledger!closed
<1>1. frozen => result.terminal \in TerminalState
  BY DEF ManifestIsSnapshot, TypeOK, RunManifest
<1>2. QED
  BY <1>1 DEF Ledger!closed, TerminalState

(* After a sweep the ledger's verdict is the builder's terminal state.       *)
LEMMA VerdictOfSwept ==
  ASSUME TypeOK
  PROVE  Ledger!Verdict(LedgerOf(Swept), runFailure) = FinalManifest(Swept).terminal
<1> DEFINE cov == BuildCoverage(Swept)
           l == LedgerOf(Swept)
           planned == {i \in Item : l[i].fate # "unplanned"}
           covered == {i \in Item : l[i].fate \in Ledger!Covered}
<1>1. \A i \in Item : Swept[i].state \in {"absent", "completed", "reused", "failed", "waived"}
  BY SweptType DEF Entry, ItemState
<1>2. \A i \in Item : l[i].fate = IF Swept[i].state = "absent" THEN "unplanned" ELSE Swept[i].state
  BY <1>1 DEF LedgerOf, FateOf
<1>3. planned = cov.selected
  BY <1>1, <1>2 DEF BuildCoverage
<1>4. covered = cov.selected \ cov.failed
  BY <1>1, <1>2 DEF BuildCoverage, InState, Ledger!Covered
<1>5. cov.failed \subseteq cov.selected
  BY DEF BuildCoverage, InState
<1>6. /\ covered = planned <=> cov.failed = {}
      /\ covered = {} <=> cov.failed = cov.selected
  BY <1>3, <1>4, <1>5
<1>7. Ledger!Verdict(l, runFailure) = ComputeTerminal(cov, runFailure)
  <2>1. Ledger!Verdict(l, runFailure) =
          CASE runFailure # NoClass -> "failed"
            [] runFailure = NoClass /\ planned = {} -> "skipped"
            [] runFailure = NoClass /\ planned # {} /\ covered = planned -> "complete"
            [] runFailure = NoClass /\ planned # {} /\ covered = {} -> "failed"
            [] OTHER -> "partial"
    BY DEF Ledger!Verdict
  <2> HIDE DEF planned, covered, cov
  <2>2. QED
    BY <1>3, <1>6, <2>1 DEF ComputeTerminal
<1>8. QED
  BY <1>7 DEF FinalManifest

(* A new builder is an empty ledger. *)
LEMMA InitLedger == Init => Ledger!LedgerInit
BY DEF Init, Ledger!LedgerInit, LedgerOf, FateOf

(* Every operation of the builder is a step of the ledger or changes nothing of it. *)
LEMMA NextLedger ==
  ASSUME TypeOK, ManifestIsSnapshot, [Next]_manifestVars
  PROVE  [Ledger!LedgerNext]_(Ledger!ledgerVars)
<1> USE DEF Ledger!ledgerVars
<1>0. frozen <=> Ledger!closed
  BY ClosedIsFrozen
<1>1. CASE UNCHANGED <<items, runFailure, frozen, result>>
  BY <1>1 DEF LedgerOf
<1>2. ASSUME NEW c \in RunClasses, SetRunFailure(c)
      PROVE  [Ledger!LedgerNext]_(Ledger!ledgerVars)
  <2>1. CASE runFailure' = runFailure
    BY <1>1, <1>2, <2>1 DEF SetRunFailure
  <2>2. CASE runFailure' # runFailure
    <3>1. c \in RunFailureClass /\ Ledger!Stop(c)
      BY <1>0, <1>2, <2>2 DEF SetRunFailure, Ledger!Stop, LedgerOf
    <3>2. QED
      BY <3>1 DEF Ledger!LedgerNext
  <2>3. QED
    BY <2>1, <2>2
<1>3. ASSUME NEW i \in Item, RegisterSelected(i)
      PROVE  [Ledger!LedgerNext]_(Ledger!ledgerVars)
  <2>1. CASE items' = items
    BY <1>1, <1>3, <2>1 DEF RegisterSelected
  <2>2. CASE items' # items
    <3>1. ~frozen /\ items[i].state = "absent" /\ items' = [items EXCEPT ![i].state = "selected"]
             /\ UNCHANGED <<runFailure, frozen, result>>
      BY <1>3, <2>2 DEF RegisterSelected
    <3>2. LedgerOf(items)[i].fate = "unplanned"
      BY <3>1 DEF LedgerOf, FateOf
    <3>3. LedgerOf(items') = [LedgerOf(items) EXCEPT ![i].fate = "open"]
      BY <3>1 DEF LedgerOf, FateOf, TypeOK, Entry
    <3>4. Ledger!Plan(i)
      BY <1>0, <3>1, <3>2, <3>3 DEF Ledger!Plan, LedgerOf
    <3>5. QED
      BY <3>4 DEF Ledger!LedgerNext
  <2>3. QED
    BY <2>1, <2>2
<1>4. ASSUME NEW i \in Item, NEW to \in {"completed", "reused", "waived", "failed"}, NEW c,
             to # "failed" => c = NoClass,
             Transition(i, to, c)
      PROVE  [Ledger!LedgerNext]_(Ledger!ledgerVars)
  <2>1. CASE items' = items
    BY <1>1, <1>4, <2>1 DEF Transition
  <2>2. CASE items' # items
    <3> DEFINE d == [fate |-> to, why |-> c]
    <3>1. /\ CanTransition(i, to, c)
          /\ items' = [items EXCEPT ![i] = [state |-> to, class |-> c]]
          /\ UNCHANGED <<runFailure, frozen, result>>
      BY <1>4, <2>2 DEF Transition
    <3>2. d \in Ledger!Decision
      BY <1>4, <3>1 DEF CanTransition, ValidPayload, Ledger!Decision, Ledger!Covered
    <3>3. LedgerOf(items)[i].fate = "open"
      BY <3>1 DEF CanTransition, LedgerOf, FateOf
    <3>4. LedgerOf(items') = [LedgerOf(items) EXCEPT ![i] = d]
      <4>1. FateOf(to) = to
        BY <1>4 DEF FateOf
      <4>2. QED
        BY <3>1, <4>1 DEF LedgerOf, TypeOK
    <3>5. Ledger!Decide(i, d)
      <4> HIDE DEF d
      <4>1. QED
        BY <1>0, <3>1, <3>3, <3>4 DEF Ledger!Decide, CanTransition, LedgerOf
    <3>6. QED
      BY <3>2, <3>5 DEF Ledger!LedgerNext
  <2>3. QED
    BY <2>1, <2>2
<1>5. CASE Finalize
  <2>1. CASE UNCHANGED <<items, frozen, result>>
    BY <1>1, <1>5, <2>1 DEF Finalize
  <2>2. CASE ~ UNCHANGED <<items, frozen, result>>
    <3>1. /\ ~frozen /\ items' = Swept /\ frozen' = TRUE
          /\ result' = FinalManifest(Swept) /\ runFailure' = runFailure
      BY <1>5, <2>2 DEF Finalize
    <3>2. LedgerOf(items') = [i \in Item |->
                                IF LedgerOf(items)[i].fate = "open"
                                  THEN [fate |-> "failed", why |-> SweepClass]
                                  ELSE LedgerOf(items)[i]]
      BY <3>1 DEF LedgerOf, FateOf, Swept, TypeOK, Entry, ItemState
    <3>3. Ledger!Verdict(LedgerOf(items'), runFailure) = result'.terminal
      BY <3>1, VerdictOfSwept
    <3>4. Ledger!Close(SweepClass)
      BY <1>0, <3>1, <3>2, <3>3 DEF Ledger!Close
    <3>5. QED
      BY <3>4, SweptType DEF Ledger!LedgerNext
  <2>3. QED
    BY <2>1, <2>2
<1>6. ASSUME \/ \E m \in Modes : SetInput(m)
             \/ \E c \in ItemClasses : SetPendingFailureCause(c)
             \/ SealSelected
             \/ UNCHANGED manifestVars
      PROVE  [Ledger!LedgerNext]_(Ledger!ledgerVars)
  BY <1>1, <1>6 DEF SetInput, SetPendingFailureCause, SealSelected, manifestVars
<1>7. QED
  BY <1>2, <1>3, <1>4, <1>5, <1>6, MarkStep DEF Next

(* The builder implements the ledger: under any interleaving of calls a file *)
(* is decided once, the first run failure is kept, and the manifest is       *)
(* closed once with the verdict its decisions imply.                         *)
THEOREM LedgerImplemented == Spec => ImplementsLedger
<1>1. TypeOK /\ ManifestIsSnapshot /\ [Next]_manifestVars => [Ledger!LedgerNext]_(Ledger!ledgerVars)
  BY NextLedger
<1>2. QED
  BY <1>1, InitLedger, TypeCorrect, SnapshotCorrect, PTL
     DEF Spec, ImplementsLedger, Ledger!LedgerSpec
=============================================================================
