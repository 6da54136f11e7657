----------------------------- MODULE SessionLog -----------------------------
(***************************************************************************)
(* The session file and what a resume makes of it (internal/session:       *)
(* persist.go, history.go, resume.go, resume_identity.go).                 *)
(*                                                                         *)
(* A run appends records to a buffered writer; checkpoint and lineage      *)
(* records and session_end are flushed, the others are not.  The process   *)
(* may be killed, a write may fail, and a line may be damaged afterwards.  *)
(* The next run may replay the file: a review trusts only the checkpoints  *)
(* the run manifest in session_end vouches for, a scan, which has no       *)
(* manifest, trusts every checkpoint but refuses a file with a bad line.   *)
(*                                                                         *)
(* A finding is identified by the run and the input that produced it.      *)
(***************************************************************************)
EXTENDS Naturals, Sequences, FiniteSets, FiniteSetsExt

CONSTANTS
  File,      \* the files under review, selected in every run
  Inputs,    \* the inputs the same refs may resolve to
  Changed,   \* the files whose content differs between inputs
  MaxRuns,   \* MaxRuns[k]: runs in a chain of sessions of kind k; a bound
  MaxNoise   \* MaxNoise[k]: records without a flush in one run; a bound

Kinds == {"review", "scan"}

ASSUME BoundAssumption == MaxRuns \in [Kinds -> Nat] /\ MaxNoise \in [Kinds -> Nat]
ASSUME ChangedAssumption == Changed \subseteq File

VARIABLES
  kind,      \* what the sessions are of: "review" or "scan"
  run,       \* number of the current run, 0 before the first
  mode,      \* "idle", "running", "closed" (Finalize returned), "crashed"
  input,     \* what the refs resolve to in this run
  pending,   \* files a resume has still to consider, then files to settle
  reusable,  \* what the resume may reuse: fingerprint -> finding
  coverage,  \* coverage[f] in the run's manifest
  findings,  \* findings[f] the run reports
  owed,      \* files settled whose checkpoint is still to be written
  records,   \* every record given to the writer
  flushed,   \* how many of them are in the file
  broken,    \* the writer has failed: a bufio.Writer keeps its first error
  disk,      \* the lines of the file when the run is over
  delivered, \* Finalize returned no error
  parent     \* the report of the run whose file is on disk

vars == <<kind, run, mode, input, pending, reusable, coverage, findings, owed, records, flushed,
          broken, disk, delivered, parent>>

NoFinding == [run |-> 0, input |-> 0]
Finding == [run : 1..MaxRuns[kind], input : Inputs]
NoFile == "none"

(* What a file holds under an input: only changed files tell the inputs apart. *)
Content(f, v) == IF f \in Changed THEN v ELSE Min(Inputs)

(* Mutated: the digest leaves the path out. *)
FingerprintOfContent(f, v) == <<NoFile, Content(f, v)>>

(* The fingerprint of a file is a digest of its path and of its content. *)
Fingerprint(f, v) == <<f, Content(f, v)>>
Fingerprints == {Fingerprint(f, v) : f \in File, v \in Inputs}

NoManifest == [input |-> 0, coverage |-> [f \in File |-> "selected"]]

Line(type, key, finding) ==
  [type |-> type, key |-> key, finding |-> finding, manifest |-> NoManifest]
Plain(type) == Line(type, <<NoFile, 0>>, NoFinding)
Torn == Plain("torn")
Bad == Plain("bad")

-----------------------------------------------------------------------------
(* Replay. *)

(* An unterminated record at the end of the file is dropped. *)
CompleteLines(lines) ==
  IF lines # <<>> /\ lines[Len(lines)].type = "torn" THEN SubSeq(lines, 1, Len(lines) - 1) ELSE lines

Checkpoints(lines, key) ==
  {i \in DOMAIN lines : lines[i].type \in {"done", "reused", "failed"} /\ lines[i].key = key}

(* Items: the last checkpoint of a fingerprint, unless it is a failure. *)
Item(lines, key) ==
  LET at == Checkpoints(lines, key)
  IN  IF at = {} \/ lines[Max(at)].type = "failed" THEN NoFinding ELSE lines[Max(at)].finding

Manifest(lines) ==
  LET at == {i \in DOMAIN lines : lines[i].type = "end"}
  IN  IF at = {} THEN NoManifest ELSE lines[Max(at)].manifest

(* LoadResumeState fails on a line it cannot parse; LoadReviewResumeState skips it. *)
Loads(lines) == kind = "scan" => \A i \in DOMAIN lines : lines[i].type # "bad"

(* ValidateOptions, ValidateScanOptions: session_start tells the mode of the run. *)
Started(lines) == \E i \in DOMAIN lines : lines[i].type = "start"

(* manifestReusableFingerprints: a scan has no manifest to consult. *)
Vouched(m, key) ==
  kind = "scan" \/ \E f \in File : /\ Fingerprint(f, m.input) = key
                                   /\ m.coverage[f] \in {"completed", "reused"}

(* Mutated: the resolved input is not compared. *)
AdmitsAnyInput(m, v) == kind = "review" => m # NoManifest

(* ValidateResume: a review needs a manifest of the same input. *)
Admits(m, v) == kind = "review" => m # NoManifest /\ m.input = v

ReusableItem(lines, key) ==
  IF Vouched(Manifest(lines), key) THEN Item(lines, key) ELSE NoFinding

-----------------------------------------------------------------------------
Init ==
  /\ kind \in Kinds /\ run = 0 /\ mode = "idle" /\ input \in Inputs /\ pending = {}
  /\ reusable = [k \in Fingerprints |-> NoFinding]
  /\ coverage = [f \in File |-> "selected"]
  /\ findings = [f \in File |-> NoFinding]
  /\ owed = {} /\ records = <<>> /\ flushed = 0 /\ broken = FALSE
  /\ disk = <<>> /\ delivered = FALSE
  /\ parent = [input |-> 0, coverage |-> [f \in File |-> "selected"],
               findings |-> [f \in File |-> NoFinding]]

(* Mutated: a checkpoint stays in the buffer. *)
CheckpointBuffered(line) == records' = Append(records, line) /\ UNCHANGED flushed

(* The writer takes a record and flushes: it is in the file, unless writing failed. *)
Checkpoint(line) ==
  /\ records' = Append(records, line)
  /\ flushed' = IF broken THEN flushed ELSE Len(records) + 1

(* A new run, on what the refs resolve to now, resuming the file on disk or not. *)
StartRun ==
  /\ mode \in {"idle", "closed", "crashed"} /\ run < MaxRuns[kind]
  /\ run' = run + 1 /\ mode' = "running"
  /\ input' \in Inputs
  /\ pending' = File /\ owed' = {} /\ delivered' = FALSE
  /\ coverage' = [f \in File |-> "selected"] /\ findings' = [f \in File |-> NoFinding]
  /\ broken' = FALSE
  /\ parent' = [input |-> input, coverage |-> coverage, findings |-> findings]
  /\ LET lines == CompleteLines(disk)
     IN  \/ /\ run > 0 /\ Loads(lines) /\ Started(lines) /\ Admits(Manifest(lines), input')
            /\ reusable' = [k \in Fingerprints |-> ReusableItem(lines, k)]
            /\ IF kind = "review"
                 THEN records' = <<Plain("start"), Plain("lineage")>> /\ flushed' = 2
                 ELSE records' = <<Plain("start")>> /\ flushed' = 0
         \/ /\ reusable' = [k \in Fingerprints |-> NoFinding]
            /\ records' = <<Plain("start")>> /\ flushed' = 0
  /\ UNCHANGED <<kind, disk>>

(* A file with a reusable checkpoint: its findings are this run's too.  A review *)
(* writes the record at once, a scan when its batch is over.                     *)
Reuse(f) ==
  LET key == Fingerprint(f, input)
  IN  /\ mode = "running" /\ f \in pending /\ reusable[key] # NoFinding
      /\ findings' = [findings EXCEPT ![f] = reusable[key]]
      /\ coverage' = [coverage EXCEPT ![f] = "reused"]
      /\ IF kind = "review"
           THEN Checkpoint(Line("reused", key, reusable[key])) /\ UNCHANGED owed
           ELSE owed' = owed \cup {f} /\ UNCHANGED <<records, flushed>>
      /\ pending' = pending \ {f}
      /\ UNCHANGED <<kind, run, mode, input, reusable, broken, disk, delivered, parent>>

(* A file is reviewed. *)
Complete(f) ==
  LET key == Fingerprint(f, input)
      found == [run |-> run, input |-> input]
  IN  /\ mode = "running" /\ f \in pending /\ reusable[key] = NoFinding
      /\ findings' = [findings EXCEPT ![f] = found]
      /\ coverage' = [coverage EXCEPT ![f] = "completed"]
      /\ IF kind = "review"
           THEN Checkpoint(Line("done", key, found)) /\ UNCHANGED owed
           ELSE owed' = owed \cup {f} /\ UNCHANGED <<records, flushed>>
      /\ pending' = pending \ {f}
      /\ UNCHANGED <<kind, run, mode, input, reusable, broken, disk, delivered, parent>>

(* recordBatchCheckpoints of a scan. *)
RecordBatch ==
  /\ mode = "running" /\ owed # {}
  /\ \E f \in owed :
       /\ Checkpoint(Line(IF coverage[f] = "reused" THEN "reused" ELSE "done",
                          Fingerprint(f, input), findings[f]))
       /\ owed' = owed \ {f}
  /\ UNCHANGED <<kind, run, mode, input, pending, reusable, coverage, findings, broken, disk,
                 delivered, parent>>

(* A file fails: a checkpoint of the same fingerprint no longer counts. *)
Fail(f) ==
  LET key == Fingerprint(f, input)
  IN  /\ mode = "running" /\ f \in pending /\ reusable[key] = NoFinding
      /\ coverage' = [coverage EXCEPT ![f] = "failed"]
      /\ Checkpoint(Line("failed", key, NoFinding))
      /\ pending' = pending \ {f}
      /\ UNCHANGED <<kind, run, mode, input, reusable, findings, owed, broken, disk, delivered, parent>>

(* A group panics after the file was settled in it: recovery writes a failure  *)
(* for every file of the group, but the manifest keeps the first verdict.      *)
Panic(f) ==
  /\ kind = "review" /\ mode = "running" /\ coverage[f] = "completed"
  /\ Item(records, Fingerprint(f, input)) = findings[f]
  /\ Checkpoint(Line("failed", Fingerprint(f, input), NoFinding))
  /\ UNCHANGED <<kind, run, mode, input, pending, reusable, coverage, findings, owed, broken, disk,
                 delivered, parent>>

(* Requests, responses and tool calls only reach the buffer, which the writer *)
(* empties when it is full.                                                   *)
Noise ==
  /\ mode = "running"
  /\ Cardinality({i \in DOMAIN records : records[i].type = "request"}) < MaxNoise[kind]
  /\ records' = Append(records, Plain("request"))
  /\ flushed' \in {flushed} \cup (IF broken THEN {} ELSE {Len(records) + 1})
  /\ UNCHANGED <<kind, run, mode, input, pending, reusable, coverage, findings, owed, broken, disk,
                 delivered, parent>>

(* The disk is full: from the record being written on, nothing reaches the file. *)
WriteFails ==
  /\ mode = "running" /\ ~broken /\ broken' = TRUE
  /\ UNCHANGED <<kind, run, mode, input, pending, reusable, coverage, findings, owed, records, flushed,
                 disk, delivered, parent>>

EndDelivered == ~broken

(* The last record, with the manifest a review froze; the file is closed.  A  *)
(* budget or a cancellation may have left files unsettled: the manifest sweeps *)
(* them as failed, and no checkpoint says so.                                  *)
End ==
  LET swept == [f \in File |-> IF f \in pending THEN "failed" ELSE coverage[f]]
      manifest == IF kind = "review" THEN [input |-> input, coverage |-> swept] ELSE NoManifest
      last == [Plain("end") EXCEPT !.manifest = manifest]
  IN  /\ mode = "running" /\ owed = {}
      /\ mode' = "closed" /\ pending' = {} /\ coverage' = swept
      /\ records' = Append(records, last)
      /\ delivered' = EndDelivered
      /\ flushed' = IF broken THEN flushed ELSE Len(records) + 1
      /\ \E torn \in IF broken THEN {<<>>, <<Torn>>} ELSE {<<>>} :
           disk' = SubSeq(records', 1, flushed') \o torn
      /\ UNCHANGED <<kind, run, input, reusable, findings, owed, broken, parent>>

(* The process is killed: what was flushed is in the file, and maybe a part of *)
(* what followed it, cut anywhere.                                             *)
Crash ==
  /\ mode = "running" /\ mode' = "crashed"
  /\ \E k \in flushed..(IF broken THEN flushed ELSE Len(records)), torn \in {<<>>, <<Torn>>} :
       disk' = SubSeq(records, 1, k) \o torn
  /\ UNCHANGED <<kind, run, input, pending, reusable, coverage, findings, owed, records, flushed,
                 broken, delivered, parent>>

(* One line of the closed file is damaged. *)
Damage ==
  /\ mode \in {"closed", "crashed"}
  /\ \A i \in DOMAIN disk : disk[i].type # "bad"
  /\ \E i \in DOMAIN disk : disk' = [disk EXCEPT ![i] = Bad]
  /\ UNCHANGED <<kind, run, mode, input, pending, reusable, coverage, findings, owed, records, flushed,
                 broken, delivered, parent>>

Next ==
  \/ StartRun \/ RecordBatch \/ Noise \/ WriteFails \/ End \/ Crash \/ Damage
  \/ \E f \in File : Reuse(f) \/ Complete(f) \/ Fail(f) \/ Panic(f)

Spec == Init /\ [][Next]_vars

-----------------------------------------------------------------------------

(* What a review reuses is what its parent reported for that file, and what    *)
(* the parent stood behind: never a checkpoint of a file it failed, of a run   *)
(* that was killed, or of another session, whatever line of the file is lost.  *)
ReuseSound ==
  kind = "review" => \A f \in File : coverage[f] = "reused" =>
    parent.coverage[f] \in {"completed", "reused"} /\ findings[f] = parent.findings[f]

(* One report is computed from one input, across a whole chain of resumes      *)
(* ("mixing results computed from one input with results computed from         *)
(* another" is what ValidateResume rejects); a scan, which has no input to     *)
(* compare, carries a finding over only to the very content it was found in.   *)
OneInput ==
  \A f \in File : findings[f] # NoFinding =>
    /\ kind = "review" => findings[f].input = input
    /\ Content(f, findings[f].input) = Content(f, input)

Undamaged == \A i \in DOMAIN disk : disk[i].type # "bad"

(* A panic wrote a failure after the checkpoint of a file. *)
Retracted(f) == kind = "review" /\ Item(records, Fingerprint(f, input)) = NoFinding

(* A checkpoint is durable when the call that writes it returns: unless        *)
(* writing failed or a line was damaged later, replay finds every file the run *)
(* settled, however the process ended, unless a panic retracted it.            *)
CheckpointDurable ==
  mode \in {"closed", "crashed"} /\ ~broken /\ Undamaged =>
    \A f \in File : coverage[f] \in {"completed", "reused"} /\ f \notin owed /\ ~Retracted(f) =>
      Item(CompleteLines(disk), Fingerprint(f, input)) = findings[f]

(* A killed run leaves a file a scan can load: a torn last record costs itself *)
(* and nothing else.                                                           *)
CrashLoads == mode = "crashed" /\ Undamaged => Loads(CompleteLines(disk))

(* When Finalize returns no error the whole log is in the file, session_end is *)
(* its last record and, for a review, says what the run's manifest says.       *)
DeliveredWhole ==
  mode = "closed" /\ delivered /\ Undamaged =>
    disk = records /\ disk[Len(disk)].type = "end" /\
    (kind = "review" => Manifest(disk).coverage = coverage)

(* What the calls that write the log promise is in the file, whether the run   *)
(* closes it, is killed or cannot write.                                       *)
LogHolds == CheckpointDurable /\ CrashLoads /\ DeliveredWhole
=============================================================================
