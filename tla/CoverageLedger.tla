--------------------------- MODULE CoverageLedger ---------------------------
(***************************************************************************)
(* What a run manifest promises its readers, whatever the order in which   *)
(* the goroutines of a run report to it: a file is planned once, decided   *)
(* once, and the ledger is closed once.  Closing decides every file that   *)
(* is still open as failed, all of them for the same cause, and gives a    *)
(* verdict that is a function of the decided files and of the run-level    *)
(* stop recorded first.  A closed ledger never changes again.              *)
(*                                                                         *)
(* Module Manifest (session.ManifestBuilder) implements this module.       *)
(***************************************************************************)
CONSTANTS
  Item,       \* the files a run can select
  Class,      \* why a file may have failed
  StopClass,  \* why a whole run may have stopped
  None        \* no failure, no stop

VARIABLES
  ledger,     \* ledger[i]: the fate of i, and why if it failed
  stop,       \* why the run stopped, None while it did not
  verdict     \* "pending" until the ledger is closed

ledgerVars == <<ledger, stop, verdict>>

Covered == {"completed", "reused", "waived"}
Decision == [fate : Covered, why : {None}] \cup [fate : {"failed"}, why : Class]

closed == verdict # "pending"

(* What the fates in l and the stop s amount to. *)
Verdict(l, s) ==
  LET planned == {i \in Item : l[i].fate # "unplanned"}
      covered == {i \in Item : l[i].fate \in Covered}
  IN  CASE s # None -> "failed"
        [] s = None /\ planned = {} -> "skipped"
        [] s = None /\ planned # {} /\ covered = planned -> "complete"
        [] s = None /\ planned # {} /\ covered = {} -> "failed"
        [] OTHER -> "partial"

LedgerInit ==
  /\ ledger = [i \in Item |-> [fate |-> "unplanned", why |-> None]]
  /\ stop = None
  /\ verdict = "pending"

(* A file enters the denominator. *)
Plan(i) ==
  /\ ~closed
  /\ ledger[i].fate = "unplanned"
  /\ ledger' = [ledger EXCEPT ![i].fate = "open"]
  /\ UNCHANGED <<stop, verdict>>

(* An open file gets its only decision. *)
Decide(i, d) ==
  /\ ~closed
  /\ ledger[i].fate = "open"
  /\ ledger' = [ledger EXCEPT ![i] = d]
  /\ UNCHANGED <<stop, verdict>>

(* The first run-level stop is kept. *)
Stop(s) ==
  /\ ~closed
  /\ stop = None
  /\ stop' = s
  /\ UNCHANGED <<ledger, verdict>>

(* The open files fail together, for one cause; the verdict is given. *)
Close(c) ==
  /\ ~closed
  /\ ledger' = [i \in Item |-> IF ledger[i].fate = "open" THEN [fate |-> "failed", why |-> c] ELSE ledger[i]]
  /\ verdict' = Verdict(ledger', stop)
  /\ UNCHANGED stop

LedgerNext ==
  \/ \E i \in Item : Plan(i)
  \/ \E i \in Item, d \in Decision : Decide(i, d)
  \/ \E s \in StopClass : Stop(s)
  \/ \E c \in Class : Close(c)

LedgerSpec == LedgerInit /\ [][LedgerNext]_ledgerVars
=============================================================================
