------------------------------ MODULE Manifest ------------------------------
(***************************************************************************)
(* session.ManifestBuilder (internal/session/manifest.go): the accumulator *)
(* of a run's coverage.  Every method holds b.mu for its whole body, so    *)
(* each is one step.  A call the builder rejects returns an error and      *)
(* changes nothing: the rejected case is the second disjunct of each       *)
(* operation, and the callers of this module (Next here, the review        *)
(* pipeline in ReviewDispatch) may make any call at any time.              *)
(*                                                                         *)
(* Reasons are free text and no property tells two of them apart; the only *)
(* thing kept of a reason is whether the one given to MarkWaived is blank. *)
(***************************************************************************)
EXTENDS FiniteSets

CONSTANTS
  Item,         \* item ids
  ItemClasses,  \* the classes callers pass to MarkFailed
  RunClasses,   \* the classes callers pass to SetRunFailure
  Modes         \* the input modes callers pass to SetInput

VARIABLES
  items,          \* b.items: state and classification of each item
  runFailure,     \* b.runFailure, NoClass for nil
  pendingFailure, \* b.pendingFailure, NoClass for nil
  mode,           \* b.input.Mode
  sealed,         \* b.sealed
  frozen,         \* b.frozen
  result          \* b.result, NoResult for nil

manifestVars == <<items, runFailure, pendingFailure, mode, sealed, frozen, result>>

FailureClass == {"provider", "timeout", "cancelled", "configuration", "input",
                 "budget", "panic", "unknown"}
RunFailureClass == {"input", "configuration", "timeout", "cancelled", "budget",
                    "internal", "unknown"}
InputMode == {"range", "commit", "workspace"}
NoClass == "none"
NoResult == [terminal |-> "none", runFailure |-> NoClass,
             coverage |-> [selected |-> {}, completed |-> {}, reused |-> {},
                           failed |-> {}, waived |-> {}]]

ASSUME ClassAssumption == NoClass \notin ItemClasses /\ NoClass \notin RunClasses

ItemState == {"absent", "selected", "completed", "reused", "failed", "waived"}
Entry == [state : ItemState, class : FailureClass \cup {NoClass}]
Coverage == [selected : SUBSET Item, completed : SUBSET Item, reused : SUBSET Item,
             failed : SUBSET Item, waived : SUBSET Item]
TerminalState == {"complete", "partial", "failed", "skipped"}
RunManifest == [terminal : TerminalState, coverage : Coverage,
                runFailure : RunFailureClass \cup {NoClass}]

(* Mutated: internal and unknown keep their run-level name. *)
ItemFailureForRunClassVerbatim(c) == c

(* The item class that colours the undecided items of a stopped run. *)
ItemFailureForRunClass(c) ==
  IF c \in {"input", "configuration", "timeout", "cancelled", "budget"} THEN c ELSE "unknown"

-----------------------------------------------------------------------------
Init ==
  /\ items = [i \in Item |-> [state |-> "absent", class |-> NoClass]]
  /\ runFailure = NoClass
  /\ pendingFailure = NoClass
  /\ mode = "unset"
  /\ sealed = FALSE
  /\ frozen = FALSE
  /\ result = NoResult

SetInput(m) ==
  /\ mode' = IF frozen THEN mode ELSE m
  /\ UNCHANGED <<items, runFailure, pendingFailure, sealed, frozen, result>>

(* The first class is kept; the same class again is a no-op, another one an error. *)
SetRunFailure(c) ==
  /\ runFailure' = IF ~frozen /\ c \in RunFailureClass /\ runFailure = NoClass
                     THEN c ELSE runFailure
  /\ UNCHANGED <<items, pendingFailure, mode, sealed, frozen, result>>

SetPendingFailureCause(c) ==
  /\ pendingFailure' = IF ~frozen /\ c \in FailureClass /\ pendingFailure = NoClass
                         THEN c ELSE pendingFailure
  /\ UNCHANGED <<items, runFailure, mode, sealed, frozen, result>>

(* Mutated: a registration that comes after Finalize is accepted. *)
RegisterSelectedFrozen(i) ==
  /\ items' = IF ~sealed /\ items[i].state = "absent"
                THEN [items EXCEPT ![i].state = "selected"] ELSE items
  /\ UNCHANGED <<runFailure, pendingFailure, mode, sealed, frozen, result>>

RegisterSelected(i) ==
  /\ items' = IF ~frozen /\ ~sealed /\ items[i].state = "absent"
                THEN [items EXCEPT ![i].state = "selected"] ELSE items
  /\ UNCHANGED <<runFailure, pendingFailure, mode, sealed, frozen, result>>

SealSelected ==
  /\ sealed' = (sealed \/ ~frozen)
  /\ UNCHANGED <<items, runFailure, pendingFailure, mode, frozen, result>>

(* The payload is validated before the state is looked at. *)
ValidPayload(to, c) == to = "failed" => c \in FailureClass

(* Mutated: the last mark wins. *)
CanTransitionAgain(i, to, c) == ~frozen /\ ValidPayload(to, c) /\ items[i].state # "absent"

CanTransition(i, to, c) ==
  ~frozen /\ ValidPayload(to, c) /\ items[i].state = "selected"

Transition(i, to, c) ==
  /\ items' = IF CanTransition(i, to, c)
                THEN [items EXCEPT ![i] = [state |-> to, class |-> c]] ELSE items
  /\ UNCHANGED <<runFailure, pendingFailure, mode, sealed, frozen, result>>

MarkCompleted(i) == Transition(i, "completed", NoClass)
MarkReused(i) == Transition(i, "reused", NoClass)
MarkFailed(i, c) == Transition(i, "failed", c)
(* A blank reason is rejected. *)
MarkWaived(i, blank) == ~blank /\ Transition(i, "waived", NoClass)

-----------------------------------------------------------------------------
SweepClass ==
  CASE runFailure # NoClass -> ItemFailureForRunClass(runFailure)
    [] runFailure = NoClass /\ pendingFailure # NoClass -> pendingFailure
    [] OTHER -> "unknown"

(* The backstop: no selected item is left without an outcome. *)
Swept ==
  [i \in Item |-> IF items[i].state = "selected"
                    THEN [state |-> "failed", class |-> SweepClass] ELSE items[i]]

InState(m, s) == {i \in Item : m[i].state = s}

BuildCoverage(m) ==
  [selected |-> {i \in Item : m[i].state # "absent"},
   completed |-> InState(m, "completed"), reused |-> InState(m, "reused"),
   failed |-> InState(m, "failed"), waived |-> InState(m, "waived")]

ValidateLocked(m) ==
  LET cov == BuildCoverage(m)
  IN  /\ mode \in InputMode
      /\ cov.selected = cov.completed \cup cov.reused \cup cov.failed \cup cov.waived
      /\ \A i \in cov.failed : m[i].class \in FailureClass
      /\ runFailure \in RunFailureClass \cup {NoClass}

(* Mutated: no case for a run that lost every item. *)
ComputeTerminalNoFailed(cov, rf) ==
  CASE rf # NoClass -> "failed"
    [] rf = NoClass /\ cov.selected = {} -> "skipped"
    [] rf = NoClass /\ cov.selected # {} /\ cov.failed = {} -> "complete"
    [] OTHER -> "partial"

ComputeTerminal(cov, rf) ==
  CASE rf # NoClass -> "failed"
    [] rf = NoClass /\ cov.selected = {} -> "skipped"
    [] rf = NoClass /\ cov.selected # {} /\ cov.failed = {} -> "complete"
    [] rf = NoClass /\ cov.selected # {} /\ cov.failed = cov.selected -> "failed"
    [] OTHER -> "partial"

FinalManifest(m) ==
  [terminal |-> ComputeTerminal(BuildCoverage(m), runFailure),
   coverage |-> BuildCoverage(m), runFailure |-> runFailure]

(* A Finalize that fails validation restores the items it swept and does not *)
(* freeze; one on a frozen builder returns the stored manifest.              *)
Finalize ==
  /\ IF ~frozen /\ ValidateLocked(Swept)
       THEN /\ items' = Swept
            /\ frozen' = TRUE
            /\ result' = FinalManifest(Swept)
       ELSE UNCHANGED <<items, frozen, result>>
  /\ UNCHANGED <<runFailure, pendingFailure, mode, sealed>>

-----------------------------------------------------------------------------
Next ==
  \/ \E m \in Modes : SetInput(m)
  \/ \E c \in RunClasses : SetRunFailure(c)
  \/ \E c \in ItemClasses : SetPendingFailureCause(c)
  \/ \E i \in Item : RegisterSelected(i)
  \/ SealSelected
  \/ \E i \in Item : MarkCompleted(i)
  \/ \E i \in Item : MarkReused(i)
  \/ \E i \in Item, c \in ItemClasses : MarkFailed(i, c)
  \/ \E i \in Item, blank \in BOOLEAN : MarkWaived(i, blank)
  \/ Finalize

Spec == Init /\ [][Next]_manifestVars

-----------------------------------------------------------------------------
(* Types of the builder's fields; an item is classified exactly when it failed. *)
TypeOK ==
  /\ items \in [Item -> Entry]
  /\ \A i \in Item : items[i].state = "failed" <=> items[i].class # NoClass
  /\ runFailure \in RunFailureClass \cup {NoClass}
  /\ pendingFailure \in FailureClass \cup {NoClass}
  /\ mode \in InputMode \cup Modes \cup {"unset"}
  /\ sealed \in BOOLEAN
  /\ frozen \in BOOLEAN
  /\ result \in RunManifest \cup {NoResult}

(* The frozen manifest is the truth about the items: its sets are exactly the  *)
(* items in each state, nothing registered is missing from the four terminal   *)
(* sets, and before the freeze there is no manifest (Finalize, cloned).        *)
ManifestIsSnapshot ==
  /\ frozen <=> result # NoResult
  /\ frozen => /\ result.coverage = BuildCoverage(items)
               /\ result.terminal = ComputeTerminal(BuildCoverage(items), runFailure)
               /\ result.runFailure = runFailure
               /\ InState(items, "selected") = {}

(* No run can be reported complete when a registered item was not covered, and  *)
(* none partial when nothing was covered (computeTerminal after the sweep).     *)
CompleteMeansCovered ==
  frozen =>
    /\ result.terminal = "complete" =>
         \A i \in Item : items[i].state \in {"absent", "completed", "reused", "waived"}
    /\ result.terminal = "partial" =>
         \E i, j \in Item : /\ items[i].state \in {"completed", "reused", "waived"}
                            /\ items[j].state = "failed"

(* Once its input mode is known a run can always be closed: no order of calls   *)
(* leaves the builder in a state whose sweep Finalize would reject, which would *)
(* lose the manifest of the whole run (Finalize, validateLocked).               *)
CanAlwaysClose == mode \in InputMode => ValidateLocked(Swept)

(* The builder as a ledger: see CoverageLedger. *)
FateOf(state) ==
  CASE state = "absent" -> "unplanned"
    [] state = "selected" -> "open"
    [] OTHER -> state

LedgerOf(m) == [i \in Item |-> [fate |-> FateOf(m[i].state), why |-> m[i].class]]

Ledger == INSTANCE CoverageLedger WITH
  Class <- FailureClass, StopClass <- RunFailureClass, None <- NoClass,
  ledger <- LedgerOf(items), stop <- runFailure,
  verdict <- IF frozen THEN result.terminal ELSE "pending"

(* Concurrent reports, conflicting marks, a sweep and a failed Finalize never   *)
(* change a decision, a closed manifest or the first recorded stop: the builder *)
(* implements the ledger (transition, SetRunFailure, Finalize).                 *)
ImplementsLedger == Ledger!LedgerSpec
=============================================================================
