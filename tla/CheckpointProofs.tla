-------------------------- MODULE CheckpointProofs --------------------------
(***************************************************************************)
(* Proofs about what a resume relies on: module SessionLog, for any files, *)
(* any inputs, chains of runs of any length, any point of a kill, of a     *)
(* failing write and of a damaged line; and module ScanDispatch, for any   *)
(* batches of files, any filing of findings, any grouping of duplicates,   *)
(* any budget and number of slots.                                         *)
(***************************************************************************)
EXTENDS SessionLog, ScanDispatch, FiniteSetTheorems, SequenceTheorems, WellFoundedInduction, NaturalsInduction, TLAPS

-----------------------------------------------------------------------------
(* The session file. *)

CoverageState == {"selected", "completed", "reused", "failed"}
Settled == {"completed", "reused"}
Findings == [run : Nat \ {0}, input : Inputs] \cup {NoFinding}
LineTypes == {"start", "lineage", "request", "done", "reused", "failed", "end", "torn", "bad"}
Lines == [type : LineTypes, key : Fingerprints \cup {<<NoFile, 0>>}, finding : Findings,
          manifest : [input : Inputs \cup {0}, coverage : [File -> CoverageState]]]
Key(f) == Fingerprint(f, input)

(* The types of the state. *)
Types ==
  /\ kind \in Kinds /\ run \in Nat /\ mode \in {"idle", "running", "closed", "crashed"} /\ input \in Inputs
  /\ mode = "idle" => run = 0
  /\ mode # "idle" => run # 0
  /\ pending \in SUBSET File /\ owed \in SUBSET File
  /\ reusable \in [Fingerprints -> Findings]
  /\ coverage \in [File -> CoverageState] /\ findings \in [File -> Findings]
  /\ records \in Seq(Lines) /\ disk \in Seq(Lines)
  /\ flushed \in 0 .. Len(records)
  /\ broken \in BOOLEAN /\ delivered \in BOOLEAN
  /\ parent \in [input : Inputs \cup {0}, coverage : [File -> CoverageState], findings : [File -> Findings]]

(* A file has a finding exactly when it was settled, of the run's own input. *)
Reported ==
  \A f \in File :
    /\ findings[f] # NoFinding <=> coverage[f] \in Settled
    /\ mode = "running" => (f \in pending <=> coverage[f] = "selected")
    /\ f \in owed => kind = "scan" /\ coverage[f] \in Settled
    /\ findings[f] # NoFinding => /\ kind = "review" => findings[f].input = input
                                  /\ Content(f, findings[f].input) = Content(f, input)
    /\ kind = "review" /\ coverage[f] = "reused" =>
         parent.coverage[f] \in Settled /\ findings[f] = parent.findings[f]

(* What the resume offers for a file was found in that content, and reported. *)
Offered ==
  \A f \in File : reusable[Key(f)] # NoFinding =>
    /\ Content(f, reusable[Key(f)].input) = Content(f, input)
    /\ kind = "review" => /\ reusable[Key(f)].input = input
                          /\ parent.coverage[f] \in Settled /\ reusable[Key(f)] = parent.findings[f]

EndManifest == IF kind = "review" THEN [input |-> input, coverage |-> coverage] ELSE NoManifest

(* What a record of the run may say. *)
Truthful(l) ==
  /\ l.type \notin {"torn", "bad"}
  /\ l.type \in {"done", "reused"} =>
       \E f \in File \ owed : l.key = Key(f) /\ coverage[f] \in Settled /\ l.finding = findings[f]
  /\ l.type = "failed" =>
       \E f \in File : l.key = Key(f) /\ (coverage[f] = "failed" \/ (kind = "review" /\ coverage[f] = "completed"))
  /\ l.type = "end" => mode = "closed" /\ l.manifest = EndManifest

IsCheckpoint(l) == l.type \in {"done", "reused", "failed"}

(* The log of a run: every record is true, every settled file has its checkpoint, *)
(* which is in the file unless writing failed, and session_end is the last.       *)
Logged ==
  /\ \A i \in DOMAIN records : Truthful(records[i])
  /\ \A f \in File : coverage[f] \in Settled /\ f \notin owed =>
       \E i \in DOMAIN records : records[i].type \in {"done", "reused"} /\ records[i].key = Key(f)
  /\ ~broken => \A i \in DOMAIN records : IsCheckpoint(records[i]) => i <= flushed
  /\ mode = "closed" => /\ owed = {} /\ Len(records) > 0 /\ records[Len(records)].type = "end"
                        /\ \A i \in DOMAIN records : records[i].type = "end" => i = Len(records)
                        /\ delivered => flushed = Len(records)

(* What is left of the log when the run is over: its first k records, each as it *)
(* was written or damaged, and maybe a part of the next.                         *)
Left(k) ==
  /\ Len(disk) = k \/ (Len(disk) = k + 1 /\ disk[k + 1].type \in {"torn", "bad"})
  /\ \A i \in 1 .. k : disk[i] = records[i] \/ disk[i].type = "bad"
  /\ mode = "closed" /\ delivered => Len(disk) = k

OnDisk == mode \in {"closed", "crashed"} => \E k \in flushed .. Len(records) : Left(k)

Inv == Types /\ Reported /\ Offered /\ Logged /\ OnDisk

(* A set of positions has a last one. *)
LEMMA MaxIn == ASSUME NEW n \in Nat, NEW S \in SUBSET (1 .. n), S # {} PROVE Max(S) \in S /\ \A y \in S : Max(S) >= y
<1> DEFINE T == {n - x : x \in S}
<1>1. T \subseteq Nat /\ T # {}
  <2>1. \A x \in S : n - x \in Nat
    OBVIOUS
  <2>2. PICK x \in S : TRUE
    OBVIOUS
  <2>3. n - x \in T
    OBVIOUS
  <2> QED BY <2>1, <2>3
<1>2. PICK t \in T : \A u \in T : ~ (<<u, t>> \in OpToRel(<, Nat))
  BY <1>1, NatLessThanWellFounded, WFMin
<1>3. \A u \in T : ~ (u < t)
  BY <1>1, <1>2 DEF OpToRel
<1>4. PICK x \in S : t = n - x
  BY <1>2
<1>5. \A y \in S : x >= y
  BY <1>3, <1>4
<1> QED BY <1>4, <1>5 DEF Max

(* A finding that replay returns is on a checkpoint of that fingerprint. *)
LEMMA ItemFrom ==
  ASSUME NEW lines \in Seq(Lines), NEW key, Item(lines, key) # NoFinding
  PROVE  \E i \in DOMAIN lines : lines[i].type \in {"done", "reused"} /\ lines[i].key = key
                                 /\ lines[i].finding = Item(lines, key)
<1> DEFINE at == Checkpoints(lines, key)
<1>1. at # {} /\ lines[Max(at)].type # "failed" /\ Item(lines, key) = lines[Max(at)].finding
  BY DEF Item
<1>2. at \in SUBSET (1 .. Len(lines)) /\ Len(lines) \in Nat /\ DOMAIN lines = 1 .. Len(lines)
  BY LenProperties DEF Checkpoints
<1>3. Max(at) \in at
  BY <1>1, <1>2, MaxIn
<1> HIDE DEF at
<1>4. Max(at) \in DOMAIN lines /\ lines[Max(at)].type \in {"done", "reused", "failed"} /\ lines[Max(at)].key = key
  BY <1>3 DEF at, Checkpoints
<1> QED BY <1>1, <1>4

(* A manifest that replay finds is on a session_end. *)
LEMMA ManifestFrom ==
  ASSUME NEW lines \in Seq(Lines), Manifest(lines) # NoManifest
  PROVE  \E i \in DOMAIN lines : lines[i].type = "end" /\ lines[i].manifest = Manifest(lines)
<1> DEFINE at == {i \in DOMAIN lines : lines[i].type = "end"}
<1>1. at # {} /\ Manifest(lines) = lines[Max(at)].manifest
  BY DEF Manifest
<1>2. at \in SUBSET (1 .. Len(lines)) /\ Len(lines) \in Nat
  BY LenProperties
<1>3. Max(at) \in at
  BY <1>1, <1>2, MaxIn
<1> QED BY <1>1, <1>3

(* Dropping a torn last line keeps the others. *)
LEMMA CompleteFacts ==
  ASSUME NEW lines \in Seq(Lines)
  PROVE  /\ CompleteLines(lines) \in Seq(Lines)
         /\ Len(CompleteLines(lines)) \in Nat /\ Len(lines) \in Nat
         /\ Len(CompleteLines(lines)) = IF lines # <<>> /\ lines[Len(lines)].type = "torn" THEN Len(lines) - 1 ELSE Len(lines)
         /\ \A i \in 1 .. Len(CompleteLines(lines)) : i \in 1 .. Len(lines) /\ CompleteLines(lines)[i] = lines[i]
<1> DEFINE n == Len(lines)
<1>1. n \in Nat /\ DOMAIN lines = 1 .. n /\ \A i \in 1 .. n : lines[i] \in Lines
  BY LenProperties, ElementOfSeq
<1>2. CASE lines # <<>> /\ lines[n].type = "torn"
  <2>1. n > 0
    BY <1>1, <1>2, EmptySeq
  <2>2. CompleteLines(lines) = SubSeq(lines, 1, n - 1)
    BY <1>2 DEF CompleteLines
  <2>3. SubSeq(lines, 1, n - 1) \in Seq(Lines) /\ Len(SubSeq(lines, 1, n - 1)) = n - 1
        /\ \A i \in 1 .. n - 1 : SubSeq(lines, 1, n - 1)[i] = lines[i]
    BY <1>1, <2>1, SubSeqProperties
  <2> QED BY <1>1, <1>2, <2>1, <2>2, <2>3
<1>3. CASE ~(lines # <<>> /\ lines[n].type = "torn")
  BY <1>1, <1>3 DEF CompleteLines
<1> QED BY <1>2, <1>3

-----------------------------------------------------------------------------
(* The values the run writes are lines of the log. *)
LEMMA LineTyped ==
  ASSUME Types
  PROVE  /\ \A f \in File, v \in Inputs : Fingerprint(f, v) \in Fingerprints
         /\ NoManifest \in [input : Inputs \cup {0}, coverage : [File -> CoverageState]]
         /\ \A t \in LineTypes, k \in Fingerprints, x \in Findings : Line(t, k, x) \in Lines
         /\ \A t \in LineTypes : Plain(t) \in Lines
         /\ \A t, k, x : /\ Line(t, k, x).type = t /\ Line(t, k, x).key = k /\ Line(t, k, x).finding = x
         /\ \A t : Plain(t).type = t
         /\ NoFinding \in Findings
<1>1. \A f \in File, v \in Inputs : Fingerprint(f, v) \in Fingerprints
  BY DEF Fingerprints
<1>2. NoManifest \in [input : Inputs \cup {0}, coverage : [File -> CoverageState]]
  BY DEF NoManifest, CoverageState
<1>3. NoFinding \in Findings
  BY DEF Findings
<1>4. \A t \in LineTypes, k \in Fingerprints \cup {<<NoFile, 0>>}, x \in Findings : Line(t, k, x) \in Lines
  BY <1>2 DEF Line, Lines
<1>5. \A t \in LineTypes : Plain(t) \in Lines
  BY <1>3, <1>4 DEF Plain
<1>6. \A t, k, x : /\ Line(t, k, x).type = t /\ Line(t, k, x).key = k /\ Line(t, k, x).finding = x
  BY DEF Line
<1>7. \A t : Plain(t).type = t
  BY <1>6 DEF Plain
<1> QED BY <1>1, <1>2, <1>3, <1>4, <1>5, <1>6, <1>7

(* The first state is in the invariant. *)
LEMMA InitInv == Init => Inv
<1> SUFFICES ASSUME Init PROVE Inv
  OBVIOUS
<1>1. Types
  <2>1. records \in Seq(Lines) /\ disk \in Seq(Lines) /\ flushed \in 0 .. Len(records)
    BY EmptySeq DEF Init
  <2>2. reusable \in [Fingerprints -> Findings] /\ findings \in [File -> Findings] /\ coverage \in [File -> CoverageState]
    BY DEF Init, Findings, CoverageState
  <2>3. parent \in [input : Inputs \cup {0}, coverage : [File -> CoverageState], findings : [File -> Findings]]
    BY DEF Init, Findings, CoverageState
  <2> QED BY <2>1, <2>2, <2>3 DEF Init, Types
<1>2. Reported /\ Offered
  <2>1. \A f \in File : Key(f) \in Fingerprints
    BY DEF Init, Key, Fingerprints
  <2> QED BY <2>1 DEF Init, Reported, Offered, Settled, NoFinding
<1>3. Logged /\ OnDisk
  BY DEF Init, Logged, OnDisk, Settled
<1> QED BY <1>1, <1>2, <1>3 DEF Inv

(* What was true of the run stays true when a file not yet settled is. *)
LEMMA TruthKept ==
  ASSUME mode = "running", UNCHANGED <<kind, mode, input>>,
         \A f \in File : /\ f \notin owed /\ coverage[f] \in Settled =>
                              f \notin owed' /\ coverage'[f] = coverage[f] /\ findings'[f] = findings[f]
                         /\ coverage[f] \in {"failed", "completed"} => coverage'[f] = coverage[f]
  PROVE  \A l : Truthful(l) => Truthful(l)'
BY DEF Truthful, Key, Settled

(* A record joins the log of a running run. *)
LEMMA LogStep ==
  ASSUME Types, Logged, mode = "running", UNCHANGED <<kind, mode, input, broken>>,
         NEW l \in Lines, records' = Append(records, l), Truthful(l)',
         \A m : Truthful(m) => Truthful(m)',
         \A f \in File : coverage'[f] \in Settled /\ f \notin owed' =>
           \/ coverage[f] \in Settled /\ f \notin owed
           \/ l.type \in {"done", "reused"} /\ l.key = Key(f),
         flushed' \in {flushed, Len(records) + 1},
         ~broken /\ IsCheckpoint(l) => flushed' = Len(records) + 1
  PROVE  Logged' /\ records' \in Seq(Lines) /\ flushed' \in 0 .. Len(records')
<1> DEFINE n == Len(records)
<1>1. records \in Seq(Lines) /\ n \in Nat /\ DOMAIN records = 1 .. n /\ flushed \in 0 .. n
  BY LenProperties DEF Types
<1>2. /\ records' \in Seq(Lines) /\ Len(records') = n + 1 /\ DOMAIN records' = 1 .. n + 1
      /\ \A i \in 1 .. n : records'[i] = records[i]
      /\ records'[n + 1] = l
  BY <1>1, AppendProperties, LenProperties
<1>3. (\A i \in DOMAIN records : Truthful(records[i]))'
  <2> SUFFICES ASSUME NEW i \in DOMAIN records' PROVE Truthful(records[i])'
    OBVIOUS
  <2>1. CASE i = n + 1
    BY <1>2, <2>1
  <2>2. CASE i \in 1 .. n
    <3>1. Truthful(records[i]) /\ records'[i] = records[i]
      BY <1>1, <1>2, <2>2 DEF Logged
    <3> QED BY <3>1
  <2> QED BY <1>1, <1>2, <2>1, <2>2
<1>4. ASSUME NEW f \in File, coverage'[f] \in Settled, f \notin owed'
      PROVE  \E i \in DOMAIN records' : records'[i].type \in {"done", "reused"} /\ records'[i].key = Key(f)'
  <2>1. Key(f)' = Key(f)
    BY DEF Key
  <2>2. CASE coverage[f] \in Settled /\ f \notin owed
    BY <1>1, <1>2, <2>1, <2>2 DEF Logged
  <2>3. CASE l.type \in {"done", "reused"} /\ l.key = Key(f)
    BY <1>1, <1>2, <2>1, <2>3
  <2> QED BY <1>4, <2>2, <2>3
<1>5. ~broken' => \A i \in DOMAIN records' : IsCheckpoint(records'[i]) => i <= flushed'
  BY <1>1, <1>2 DEF Logged
<1>6. flushed' \in 0 .. n + 1
  BY <1>1
<1> QED BY <1>2, <1>3, <1>4, <1>5, <1>6 DEF Logged, IsCheckpoint

-----------------------------------------------------------------------------
(* What replay reads of a finished run is what the run wrote, or says nothing. *)
LEMMA DiskTruthful ==
  ASSUME Inv, mode \in {"closed", "crashed"}
  PROVE  \A i \in DOMAIN CompleteLines(disk) :
           Truthful(CompleteLines(disk)[i]) \/ CompleteLines(disk)[i].type \in {"torn", "bad"}
<1> DEFINE L == CompleteLines(disk)
<1>1. PICK k \in flushed .. Len(records) : Left(k)
  BY DEF Inv, OnDisk
<1>2. k \in Nat /\ k <= Len(records) /\ Len(records) \in Nat /\ DOMAIN records = 1 .. Len(records)
  BY LenProperties DEF Inv, Types
<1>3. disk \in Seq(Lines) /\ Len(disk) \in {k, k + 1}
  BY <1>1 DEF Inv, Types, Left
<1>4. L \in Seq(Lines) /\ Len(L) \in Nat /\ \A i \in 1 .. Len(L) : i \in 1 .. Len(disk) /\ L[i] = disk[i]
  BY <1>3, CompleteFacts
<1>5. DOMAIN L = 1 .. Len(L)
  BY <1>4, LenProperties
<1> SUFFICES ASSUME NEW i \in DOMAIN L PROVE Truthful(L[i]) \/ L[i].type \in {"torn", "bad"}
  OBVIOUS
<1>6. L[i] = disk[i] /\ i \in 1 .. Len(disk)
  BY <1>4, <1>5
<1> HIDE DEF L
<1>7. CASE i \in 1 .. k
  <2>1. disk[i] = records[i] \/ disk[i].type = "bad"
    BY <1>1, <1>7 DEF Left
  <2>2. Truthful(records[i])
    BY <1>2, <1>7 DEF Inv, Logged
  <2> QED BY <1>6, <2>1, <2>2
<1>8. CASE i = k + 1
  <2>1. Len(disk) = k + 1
    BY <1>2, <1>3, <1>6, <1>8
  <2> QED BY <1>1, <1>2, <1>6, <1>8, <2>1 DEF Left
<1> QED BY <1>2, <1>3, <1>6, <1>7, <1>8

(* A run starts with nothing settled, and is offered what its parent reported of *)
(* the very content it is to review.                                             *)
LEMMA StartKeeps == Inv /\ StartRun => Inv'
<1> SUFFICES ASSUME Inv, StartRun PROVE Inv'
  OBVIOUS
<1> USE DEF Inv
<1> DEFINE L == CompleteLines(disk)
<1>1. /\ mode' = "running" /\ input' \in Inputs /\ pending' = File /\ owed' = {} /\ broken' = FALSE /\ delivered' = FALSE
      /\ coverage' = [f \in File |-> "selected"] /\ findings' = [f \in File |-> NoFinding]
      /\ parent' = [input |-> input, coverage |-> coverage, findings |-> findings]
      /\ run' = run + 1 /\ UNCHANGED <<kind, disk>>
  BY DEF StartRun
<1>2. PICK resumed \in BOOLEAN :
        /\ resumed => /\ run > 0 /\ Admits(Manifest(L), input')
                      /\ reusable' = [k \in Fingerprints |-> ReusableItem(L, k)]
        /\ ~resumed => reusable' = [k \in Fingerprints |-> NoFinding]
        /\ \/ records' = <<Plain("start")>> /\ flushed' = 0
           \/ records' = <<Plain("start"), Plain("lineage")>> /\ flushed' = 2
  BY DEF StartRun
<1>3. /\ disk \in Seq(Lines) /\ L \in Seq(Lines)
  BY CompleteFacts DEF Types
<1>4. \A f \in File : Key(f)' = Fingerprint(f, input') /\ Key(f)' \in Fingerprints
  BY <1>1, LineTyped DEF Key
<1>5. \A k \in Fingerprints : ReusableItem(L, k) \in Findings
  <2> SUFFICES ASSUME NEW k \in Fingerprints PROVE ReusableItem(L, k) \in Findings
    OBVIOUS
  <2>1. NoFinding \in Findings
    BY LineTyped
  <2>2. Item(L, k) \in Findings
    <3>1. CASE Item(L, k) # NoFinding
      <4>1. PICK i \in DOMAIN L : L[i].finding = Item(L, k)
        BY <1>3, <3>1, ItemFrom
      <4>2. L[i] \in Lines
        BY <1>3, <4>1, LenProperties, ElementOfSeq
      <4> QED BY <4>1, <4>2 DEF Lines
    <3> QED BY <2>1, <3>1
  <2> QED BY <2>1, <2>2 DEF ReusableItem
<1>6. Types'
  <2>1. Plain("start") \in Lines /\ Plain("lineage") \in Lines /\ NoFinding \in Findings
    BY LineTyped DEF LineTypes
  <2>2. records' \in Seq(Lines) /\ flushed' \in 0 .. Len(records')
    <3>1. CASE records' = <<Plain("start")>> /\ flushed' = 0
      BY <2>1, <3>1
    <3>2. CASE records' = <<Plain("start"), Plain("lineage")>> /\ flushed' = 2
      <4>1. Len(records') = 2 /\ records' \in Seq(Lines)
        BY <2>1, <3>2
      <4> QED BY <3>2, <4>1
    <3> QED BY <1>2, <3>1, <3>2
  <2>3. reusable' \in [Fingerprints -> Findings]
    BY <1>2, <1>5, <2>1
  <2>4. coverage' \in [File -> CoverageState] /\ findings' \in [File -> Findings]
    BY <1>1, <2>1 DEF CoverageState
  <2>5. parent' \in [input : Inputs \cup {0}, coverage : [File -> CoverageState], findings : [File -> Findings]]
    BY <1>1 DEF Types
  <2>6. run' \in Nat /\ run' # 0
    BY <1>1 DEF Types
  <2> QED BY <1>1, <2>2, <2>3, <2>4, <2>5, <2>6 DEF Types
<1>7. Reported'
  BY <1>1 DEF Reported, Settled
<1>8. Offered'
  <2> SUFFICES ASSUME NEW f \in File, reusable'[Key(f)'] # NoFinding
               PROVE  /\ Content(f, reusable'[Key(f)'].input) = Content(f, input')
                      /\ kind = "review" => /\ reusable'[Key(f)'].input = input'
                                            /\ parent'.coverage[f] \in Settled /\ reusable'[Key(f)'] = parent'.findings[f]
    BY <1>1 DEF Offered
  <2> DEFINE key == Key(f)'
  <2>1. key \in Fingerprints /\ key = Fingerprint(f, input')
    BY <1>4
  <2> HIDE DEF key
  <2>2. resumed /\ reusable'[key] = ReusableItem(L, key)
    BY <1>2, <2>1 DEF key
  <2>3. reusable'[key] = Item(L, key) /\ Item(L, key) # NoFinding
    BY <2>2 DEF key, ReusableItem
  <2>4. PICK i \in DOMAIN L : L[i].type \in {"done", "reused"} /\ L[i].key = key /\ L[i].finding = Item(L, key)
    BY <1>3, <2>3, ItemFrom
  <2>5. mode \in {"closed", "crashed"}
    BY <1>2, <2>2 DEF StartRun, Types
  <2>6. \A j \in DOMAIN L : Truthful(L[j]) \/ L[j].type \in {"torn", "bad"}
    BY <2>5, DiskTruthful
  <2> HIDE DEF L
  <2>7. PICK g \in File : key = Fingerprint(g, input) /\ coverage[g] \in Settled /\ Item(L, key) = findings[g]
    BY <2>4, <2>6 DEF Truthful, Key
  <2>8. g = f /\ Content(f, input') = Content(f, input)
    BY <2>1, <2>7 DEF Fingerprint
  <2>9. findings[f] # NoFinding /\ Content(f, findings[f].input) = Content(f, input) /\ (kind = "review" => findings[f].input = input)
    BY <2>7, <2>8 DEF Reported
  <2>10. kind = "review" => input' = input
    <3> SUFFICES ASSUME kind = "review" PROVE input' = input
      OBVIOUS
    <3>1. Manifest(L) # NoManifest /\ Manifest(L).input = input'
      BY <1>2, <2>2 DEF Admits
    <3>2. PICK j \in DOMAIN L : L[j].type = "end" /\ L[j].manifest = Manifest(L)
      BY <1>3, <3>1, ManifestFrom
    <3>3. Manifest(L) = [input |-> input, coverage |-> coverage]
      BY <2>6, <3>2 DEF Truthful, EndManifest
    <3> QED BY <3>1, <3>3
  <2> QED BY <1>1, <2>3, <2>7, <2>8, <2>9, <2>10 DEF key
<1>9. Logged'
  <2>1. \A i \in DOMAIN records' : records'[i].type \in {"start", "lineage"}
    BY <1>2, LineTyped
  <2>2. \A i \in DOMAIN records' : ~IsCheckpoint(records'[i])
    BY <2>1 DEF IsCheckpoint
  <2> QED BY <1>1, <2>1, <2>2 DEF Logged, Truthful, IsCheckpoint, Settled
<1>10. OnDisk'
  BY <1>1 DEF OnDisk
<1> QED BY <1>6, <1>7, <1>8, <1>9, <1>10

-----------------------------------------------------------------------------
(* What a running run leaves alone: the offer of its resume, and the file of another run. *)
LEMMA RunningKeeps ==
  ASSUME Inv, mode = "running", UNCHANGED <<kind, run, mode, input, reusable, broken, disk, delivered, parent>>,
         pending' \in SUBSET File, owed' \in SUBSET File,
         coverage' \in [File -> CoverageState], findings' \in [File -> Findings],
         Reported', Logged', records' \in Seq(Lines), flushed' \in 0 .. Len(records')
  PROVE  Inv'
<1>1. Types'
  BY DEF Inv, Types
<1>2. Offered'
  BY DEF Inv, Offered, Key
<1>3. OnDisk'
  BY DEF OnDisk
<1> QED BY <1>1, <1>2, <1>3 DEF Inv

(* A file is settled: by what the resume offers for it, or by a review of its own. *)
LEMMA SettleKeeps == ASSUME Inv, NEW f \in File, Reuse(f) \/ Complete(f) PROVE Inv'
<1> USE DEF Inv
<1> DEFINE key == Fingerprint(f, input)
<1>1. /\ mode = "running" /\ f \in pending /\ pending' = pending \ {f}
      /\ UNCHANGED <<kind, run, mode, input, reusable, broken, disk, delivered, parent>>
  BY DEF Reuse, Complete
<1>2. PICK how \in {"reused", "completed"}, met \in Findings \ {NoFinding} :
        /\ coverage' = [coverage EXCEPT ![f] = how] /\ findings' = [findings EXCEPT ![f] = met]
        /\ IF kind = "review" THEN /\ Checkpoint(Line(IF how = "reused" THEN "reused" ELSE "done", key, met))
                                   /\ UNCHANGED owed
                              ELSE owed' = owed \cup {f} /\ UNCHANGED <<records, flushed>>
        /\ kind = "review" => met.input = input
        /\ Content(f, met.input) = Content(f, input)
        /\ kind = "review" /\ how = "reused" => parent.coverage[f] \in Settled /\ met = parent.findings[f]
  <2>1. CASE Reuse(f)
    <3>1. key \in Fingerprints /\ reusable[key] # NoFinding /\ reusable[key] \in Findings /\ Key(f) = key
      BY <2>1, LineTyped DEF Reuse, Types, Key
    <3>2. Content(f, reusable[key].input) = Content(f, input) /\ (kind = "review" => reusable[key].input = input
            /\ parent.coverage[f] \in Settled /\ reusable[key] = parent.findings[f])
      BY <3>1 DEF Offered
    <3>3. /\ coverage' = [coverage EXCEPT ![f] = "reused"] /\ findings' = [findings EXCEPT ![f] = reusable[key]]
          /\ IF kind = "review" THEN Checkpoint(Line("reused", key, reusable[key])) /\ UNCHANGED owed
                                ELSE owed' = owed \cup {f} /\ UNCHANGED <<records, flushed>>
      BY <2>1 DEF Reuse
    <3> HIDE DEF key
    <3> QED BY <3>1, <3>2, <3>3
  <2>2. CASE Complete(f)
    <3> DEFINE met == [run |-> run, input |-> input]
    <3>1. met \in Findings /\ met # NoFinding /\ met.input = input
      BY <1>1 DEF Types, Findings, NoFinding
    <3>2. /\ coverage' = [coverage EXCEPT ![f] = "completed"] /\ findings' = [findings EXCEPT ![f] = met]
          /\ IF kind = "review" THEN Checkpoint(Line("done", key, met)) /\ UNCHANGED owed
                                ELSE owed' = owed \cup {f} /\ UNCHANGED <<records, flushed>>
      BY <2>2 DEF Complete
    <3> HIDE DEF key, met
    <3> QED BY <3>1, <3>2
  <2> QED BY <2>1, <2>2
<1>3. /\ coverage[f] = "selected" /\ findings[f] = NoFinding /\ f \notin owed
      /\ coverage \in [File -> CoverageState] /\ findings \in [File -> Findings]
  BY <1>1 DEF Reported, Types, Settled
<1>4. /\ coverage'[f] = how /\ findings'[f] = met
      /\ \A g \in File : g # f => coverage'[g] = coverage[g] /\ findings'[g] = findings[g]
      /\ coverage' \in [File -> CoverageState] /\ findings' \in [File -> Findings]
  BY <1>2, <1>3 DEF CoverageState
<1>5. owed' \in SUBSET File /\ (kind = "review" => UNCHANGED owed) /\ (kind # "review" => owed' = owed \cup {f})
  BY <1>2 DEF Types
<1>6. kind \in {"review", "scan"} /\ how \in Settled
  BY DEF Types, Kinds, Settled
<1>7. Reported'
  BY <1>1, <1>2, <1>3, <1>4, <1>5, <1>6 DEF Reported, CoverageState
<1>8. \A m : Truthful(m) => Truthful(m)'
  BY <1>1, <1>3, <1>4, <1>5, TruthKept DEF Settled
<1>9. Logged' /\ records' \in Seq(Lines) /\ flushed' \in 0 .. Len(records')
  <2>1. CASE kind = "review"
    <3>1. PICK l \in Lines : /\ l = Line(IF how = "reused" THEN "reused" ELSE "done", key, met)
                             /\ l.type \in {"done", "reused"} /\ l.key = Key(f) /\ l.finding = met
      BY LineTyped DEF Types, LineTypes, Key
    <3>2. Key(f)' = Key(f)
      BY <1>1 DEF Key
    <3>3. /\ records' = Append(records, l) /\ (flushed' = IF broken THEN flushed ELSE Len(records) + 1) /\ UNCHANGED owed
      BY <1>2, <2>1, <3>1 DEF Checkpoint
    <3> HIDE DEF key
    <3>4. Truthful(l)'
      BY <1>1, <1>3, <1>4, <1>6, <3>1, <3>2, <3>3 DEF Truthful
    <3>5. \A g \in File : coverage'[g] \in Settled /\ g \notin owed' =>
             (coverage[g] \in Settled /\ g \notin owed) \/ (l.type \in {"done", "reused"} /\ l.key = Key(g))
      BY <1>4, <3>1, <3>2, <3>3
    <3> QED BY <1>1, <1>8, <3>1, <3>3, <3>4, <3>5, LogStep DEF Types
  <2>2. CASE kind # "review"
    <3>1. UNCHANGED <<records, flushed>> /\ owed' = owed \cup {f}
      BY <1>2, <2>2
    <3>2. (\A i \in DOMAIN records : Truthful(records[i]))'
      BY <1>8, <3>1 DEF Logged
    <3>3. \A g \in File : coverage'[g] \in Settled /\ g \notin owed' => coverage[g] \in Settled /\ g \notin owed
      BY <1>4, <3>1
    <3> QED BY <1>1, <3>1, <3>2, <3>3 DEF Logged, IsCheckpoint, Types, Key
  <2> QED BY <2>1, <2>2
<1> QED BY <1>1, <1>4, <1>5, <1>7, <1>9, RunningKeeps DEF Types

(* The checkpoint a scan owed is written. *)
LEMMA RecordKeeps == Inv /\ RecordBatch => Inv'
<1> SUFFICES ASSUME Inv, RecordBatch PROVE Inv'
  OBVIOUS
<1> USE DEF Inv
<1> PICK f \in owed :
      /\ Checkpoint(Line(IF coverage[f] = "reused" THEN "reused" ELSE "done", Fingerprint(f, input), findings[f]))
      /\ owed' = owed \ {f}
  BY DEF RecordBatch
<1>1. mode = "running" /\ UNCHANGED <<kind, run, mode, input, pending, reusable, coverage, findings, broken, disk, delivered, parent>>
  BY DEF RecordBatch
<1>2. f \in File /\ coverage[f] \in Settled /\ findings[f] \in Findings
  BY DEF Types, Reported
<1>3. PICK l \in Lines : /\ l = Line(IF coverage[f] = "reused" THEN "reused" ELSE "done", Fingerprint(f, input), findings[f])
                         /\ l.type \in {"done", "reused"} /\ l.key = Key(f) /\ l.finding = findings[f]
  BY <1>2, LineTyped DEF Types, LineTypes, Key
<1>4. Key(f)' = Key(f)
  BY <1>1 DEF Key
<1>5. records' = Append(records, l) /\ (flushed' = IF broken THEN flushed ELSE Len(records) + 1)
  BY <1>3 DEF Checkpoint
<1>6. \A m : Truthful(m) => Truthful(m)'
  BY <1>1, TruthKept
<1>7. Truthful(l)'
  BY <1>1, <1>2, <1>3, <1>4 DEF Truthful
<1>8. \A g \in File : coverage'[g] \in Settled /\ g \notin owed' =>
        (coverage[g] \in Settled /\ g \notin owed) \/ (l.type \in {"done", "reused"} /\ l.key = Key(g))
  BY <1>1, <1>3, <1>4
<1>9. Logged' /\ records' \in Seq(Lines) /\ flushed' \in 0 .. Len(records')
  BY <1>1, <1>3, <1>5, <1>6, <1>7, <1>8, LogStep
<1>10. Reported'
  BY <1>1 DEF Reported
<1> QED BY <1>1, <1>9, <1>10, RunningKeeps DEF Types

(* A failure is written: of a file not settled, or after the fact of one that was. *)
LEMMA FailKeeps == ASSUME Inv, NEW f \in File, Fail(f) \/ Panic(f) PROVE Inv'
<1> USE DEF Inv
<1>1. mode = "running" /\ UNCHANGED <<kind, run, mode, input, reusable, findings, owed, broken, disk, delivered, parent>>
  BY DEF Fail, Panic
<1>2. PICK l \in Lines : l = Line("failed", Fingerprint(f, input), NoFinding) /\ l.type = "failed" /\ l.key = Key(f)
  BY LineTyped DEF Types, LineTypes, Key
<1>3. /\ records' = Append(records, l) /\ (flushed' = IF broken THEN flushed ELSE Len(records) + 1)
      /\ Key(f)' = Key(f)
  BY <1>1, <1>2 DEF Fail, Panic, Checkpoint, Key
<1>4. /\ \A g \in File : coverage[g] # "selected" => coverage'[g] = coverage[g]
      /\ \A g \in File : coverage'[g] = coverage[g] \/ (coverage'[g] = "failed" /\ coverage[g] = "selected")
      /\ coverage'[f] = "failed" \/ (kind = "review" /\ coverage'[f] = "completed")
      /\ coverage' \in [File -> CoverageState] /\ pending' \in SUBSET File
  <2>1. CASE Fail(f)
    <3>1. f \in pending /\ coverage[f] = "selected" /\ coverage' = [coverage EXCEPT ![f] = "failed"] /\ pending' = pending \ {f}
      BY <1>1, <2>1 DEF Fail, Reported
    <3> QED BY <3>1 DEF Types, CoverageState
  <2>2. CASE Panic(f)
    BY <2>2 DEF Panic, Types
  <2> QED BY <2>1, <2>2
<1>5. \A g \in File : g \in pending' <=> coverage'[g] = "selected"
  <2>1. CASE Fail(f)
    BY <1>1, <2>1 DEF Fail, Reported, Types
  <2>2. CASE Panic(f)
    BY <1>1, <2>2 DEF Panic, Reported
  <2> QED BY <2>1, <2>2
<1>6. \A m : Truthful(m) => Truthful(m)'
  BY <1>1, <1>4, TruthKept DEF Settled
<1>7. Truthful(l)'
  BY <1>1, <1>2, <1>3, <1>4 DEF Truthful
<1>8. \A g \in File : coverage'[g] \in Settled /\ g \notin owed' => coverage[g] \in Settled /\ g \notin owed
  BY <1>1, <1>4 DEF Settled
<1>9. Logged' /\ records' \in Seq(Lines) /\ flushed' \in 0 .. Len(records')
  BY <1>1, <1>2, <1>3, <1>6, <1>7, <1>8, LogStep
<1>10. Reported'
  BY <1>1, <1>4, <1>5 DEF Reported, Settled
<1> QED BY <1>1, <1>4, <1>9, <1>10, RunningKeeps DEF Types

(* What is not flushed says nothing of a file. *)
LEMMA NoiseKeeps == Inv /\ Noise => Inv'
<1> SUFFICES ASSUME Inv, Noise PROVE Inv'
  OBVIOUS
<1> USE DEF Inv
<1>1. /\ mode = "running" /\ records' = Append(records, Plain("request"))
      /\ UNCHANGED <<kind, run, mode, input, pending, reusable, coverage, findings, owed, broken, disk, delivered, parent>>
      /\ flushed' \in {flushed, Len(records) + 1}
  BY DEF Noise
<1>2. Plain("request") \in Lines /\ Plain("request").type = "request"
  BY LineTyped DEF LineTypes
<1>3. \A m : Truthful(m) => Truthful(m)'
  BY <1>1, TruthKept
<1>4. Truthful(Plain("request"))' /\ ~IsCheckpoint(Plain("request"))
  BY <1>2 DEF Truthful, IsCheckpoint
<1>5. Logged' /\ records' \in Seq(Lines) /\ flushed' \in 0 .. Len(records')
  BY <1>1, <1>2, <1>3, <1>4, LogStep
<1>6. Reported'
  BY <1>1 DEF Reported
<1> QED BY <1>1, <1>5, <1>6, RunningKeeps DEF Types

(* From a failed write on nothing is promised of the file. *)
LEMMA WriteFailsKeeps == Inv /\ WriteFails => Inv'
<1> SUFFICES ASSUME Inv, WriteFails PROVE Inv'
  OBVIOUS
<1> USE DEF Inv
<1>1. /\ mode = "running" /\ broken' = TRUE
      /\ UNCHANGED <<kind, run, mode, input, pending, reusable, coverage, findings, owed, records, flushed, disk, delivered, parent>>
  BY DEF WriteFails
<1>2. \A m : Truthful(m) => Truthful(m)'
  BY <1>1, TruthKept
<1>3. (\A i \in DOMAIN records : Truthful(records[i]))'
  BY <1>1, <1>2 DEF Logged
<1>4. Logged'
  BY <1>1, <1>3 DEF Logged, Key
<1>5. Types' /\ Reported' /\ Offered' /\ OnDisk'
  BY <1>1 DEF Types, Reported, Offered, OnDisk, Key
<1> QED BY <1>4, <1>5

-----------------------------------------------------------------------------
(* A prefix of the log with maybe a torn record behind it. *)
LEMMA PrefixLeft ==
  ASSUME NEW log \in Seq(Lines), NEW k \in 0 .. Len(log), NEW torn \in {<<>>, <<Torn>>}
  PROVE  LET d == SubSeq(log, 1, k) \o torn
         IN  /\ d \in Seq(Lines)
             /\ Len(d) = k \/ (Len(d) = k + 1 /\ d[k + 1].type \in {"torn", "bad"})
             /\ torn = <<>> => Len(d) = k
             /\ \A i \in 1 .. k : d[i] = log[i]
<1> DEFINE s == SubSeq(log, 1, k)
<1>1. Len(log) \in Nat /\ k \in Nat /\ \A i \in 1 .. k : log[i] \in Lines
  BY LenProperties, ElementOfSeq
<1>2. s \in Seq(Lines) /\ Len(s) = k /\ \A i \in 1 .. k : s[i] = log[i]
  BY <1>1, SubSeqProperties
<1>3. Torn \in Lines /\ Torn.type = "torn"
  BY DEF Torn, Plain, Line, Lines, LineTypes, Findings, NoManifest, CoverageState
<1>4. CASE torn = <<>>
  <2>1. s \o torn = s
    BY <1>2, <1>4, ConcatEmptySeq
  <2> QED BY <1>2, <1>4, <2>1
<1>5. CASE torn = <<Torn>>
  <2>1. torn \in Seq(Lines) /\ Len(torn) = 1 /\ torn[1] = Torn
    BY <1>3, <1>5
  <2>2. /\ s \o torn \in Seq(Lines) /\ Len(s \o torn) = k + 1
        /\ \A i \in 1 .. k + 1 : (s \o torn)[i] = IF i <= k THEN s[i] ELSE torn[i - k]
    <3>1. /\ s \o torn \in Seq(Lines) /\ Len(s \o torn) = Len(s) + Len(torn)
          /\ \A i \in 1 .. Len(s) + Len(torn) : (s \o torn)[i] = IF i <= Len(s) THEN s[i] ELSE torn[i - Len(s)]
      BY <1>2, <2>1, ConcatProperties
    <3> HIDE DEF s
    <3> QED BY <1>2, <2>1, <3>1
  <2>3. (s \o torn)[k + 1] = Torn /\ \A i \in 1 .. k : (s \o torn)[i] = log[i]
    BY <1>1, <1>2, <2>1, <2>2
  <2>4. <<Torn>> # <<>>
    OBVIOUS
  <2> HIDE DEF s
  <2> QED BY <1>3, <1>5, <2>2, <2>3, <2>4 DEF s
<1> QED BY <1>4, <1>5

(* The run is over: the manifest sweeps what was left, and closes the log. *)
LEMMA EndKeeps == Inv /\ End => Inv'
<1> SUFFICES ASSUME Inv, End PROVE Inv'
  OBVIOUS
<1> USE DEF Inv
<1> DEFINE swept == [f \in File |-> IF f \in pending THEN "failed" ELSE coverage[f]]
           manifest == IF kind = "review" THEN [input |-> input, coverage |-> swept] ELSE NoManifest
           n == Len(records)
<1>1. /\ mode = "running" /\ owed = {} /\ mode' = "closed" /\ pending' = {} /\ coverage' = swept
      /\ records' = Append(records, [Plain("end") EXCEPT !.manifest = manifest])
      /\ delivered' = EndDelivered
      /\ flushed' = IF broken THEN flushed ELSE n + 1
      /\ UNCHANGED <<kind, run, input, reusable, findings, owed, broken, parent>>
  BY DEF End
<1>2. PICK torn \in {<<>>, <<Torn>>} : (~broken => torn = <<>>) /\ disk' = SubSeq(records', 1, flushed') \o torn
  BY DEF End
<1>3. /\ swept \in [File -> CoverageState]
      /\ \A f \in File : swept[f] = coverage[f] \/ (swept[f] = "failed" /\ coverage[f] = "selected")
      /\ \A f \in File : findings[f] # NoFinding <=> swept[f] \in Settled
  BY <1>1 DEF Types, CoverageState, Reported, Settled
<1>4. PICK last \in Lines : /\ last = [Plain("end") EXCEPT !.manifest = manifest]
                            /\ last.type = "end" /\ last.manifest = manifest
  <2>1. manifest \in [input : Inputs \cup {0}, coverage : [File -> CoverageState]]
    BY <1>3, LineTyped DEF Types
  <2> HIDE DEF manifest
  <2>2. [Plain("end") EXCEPT !.manifest = manifest] \in Lines
    BY <2>1 DEF Plain, Line, Lines, LineTypes, Findings
  <2>3. [Plain("end") EXCEPT !.manifest = manifest].type = "end" /\ [Plain("end") EXCEPT !.manifest = manifest].manifest = manifest
    BY DEF Plain, Line
  <2> QED BY <2>2, <2>3
<1>5. records \in Seq(Lines) /\ n \in Nat /\ DOMAIN records = 1 .. n /\ flushed \in 0 .. n
  BY LenProperties DEF Types
<1>6. /\ records' \in Seq(Lines) /\ Len(records') = n + 1 /\ DOMAIN records' = 1 .. n + 1
      /\ \A i \in 1 .. n : records'[i] = records[i]
      /\ records'[n + 1] = last
  <2>1. records' = Append(records, last)
    BY <1>1, <1>4
  <2> QED BY <1>5, <2>1, AppendProperties, LenProperties
<1>7. flushed' \in 0 .. n + 1 /\ (~broken => flushed' = n + 1)
  BY <1>1, <1>5
<1>8. EndManifest' = manifest
  BY <1>1 DEF EndManifest
<1> HIDE DEF manifest
<1>9. \A m : m.type # "end" /\ Truthful(m) => Truthful(m)'
  BY <1>1, <1>3 DEF Truthful, Key, Settled
<1>10. Truthful(last)'
  BY <1>1, <1>4, <1>8 DEF Truthful
<1>11. \A i \in 1 .. n : records[i].type # "end" /\ Truthful(records[i])
  BY <1>1, <1>5 DEF Logged, Truthful
<1>12. (\A i \in DOMAIN records : Truthful(records[i]))'
  <2> SUFFICES ASSUME NEW i \in DOMAIN records' PROVE Truthful(records[i])'
    OBVIOUS
  <2>1. CASE i = n + 1
    BY <1>6, <1>10, <2>1
  <2>2. CASE i \in 1 .. n
    <3>1. Truthful(records[i]) /\ records[i].type # "end" /\ records'[i] = records[i]
      BY <1>6, <1>11, <2>2
    <3> QED BY <1>9, <3>1
  <2> QED BY <1>5, <1>6, <2>1, <2>2
<1> HIDE DEF swept
<1>13. PICK k \in 0 .. n + 1 : k = flushed'
  BY <1>7
<1>14. disk' \in Seq(Lines) /\ Left(k)' /\ (broken \/ Len(disk') = n + 1)
  <2> DEFINE d == SubSeq(records', 1, k) \o torn
  <2>1. /\ d \in Seq(Lines)
        /\ Len(d) = k \/ (Len(d) = k + 1 /\ d[k + 1].type \in {"torn", "bad"})
        /\ torn = <<>> => Len(d) = k
        /\ \A i \in 1 .. k : d[i] = records'[i]
    BY <1>6, <1>13, PrefixLeft
  <2>2. disk' = d
    BY <1>2, <1>13
  <2> HIDE DEF d
  <2> QED BY <1>1, <1>2, <1>7, <1>13, <2>1, <2>2 DEF Left, EndDelivered
<1>15. Types'
  BY <1>1, <1>3, <1>6, <1>7, <1>14 DEF Types, EndDelivered
<1>16. Reported'
  BY <1>1, <1>3 DEF Reported, Settled
<1>17. Offered'
  BY <1>1 DEF Offered, Key
<1>18. OnDisk'
  <2>1. k \in flushed' .. Len(records') /\ Left(k)'
    BY <1>5, <1>6, <1>13, <1>14
  <2> QED BY <2>1 DEF OnDisk, Left
<1>19. Logged'
  <2>1. \A f \in File : coverage'[f] \in Settled => \E i \in DOMAIN records' : records'[i].type \in {"done", "reused"} /\ records'[i].key = Key(f)
    BY <1>1, <1>3, <1>5, <1>6 DEF Logged, Settled
  <2>2. Len(records') > 0 /\ records'[Len(records')].type = "end" /\ \A i \in DOMAIN records' : records'[i].type = "end" => i = Len(records')
    BY <1>4, <1>5, <1>6, <1>11
  <2>3. ~broken' => \A i \in DOMAIN records' : i <= flushed'
    BY <1>1, <1>6, <1>7
  <2>4. delivered' => flushed' = Len(records')
    BY <1>1, <1>6, <1>7 DEF EndDelivered
  <2> QED BY <1>1, <1>12, <2>1, <2>2, <2>3, <2>4 DEF Logged, Key
<1> QED BY <1>15, <1>16, <1>17, <1>18, <1>19

(* A kill leaves the flushed records, more of them if it happens, and a torn one. *)
LEMMA CrashKeeps == Inv /\ Crash => Inv'
<1> SUFFICES ASSUME Inv, Crash PROVE Inv'
  OBVIOUS
<1> USE DEF Inv
<1>1. /\ mode = "running" /\ mode' = "crashed"
      /\ UNCHANGED <<kind, run, input, pending, reusable, coverage, findings, owed, records, flushed, broken, delivered, parent>>
  BY DEF Crash
<1>2. records \in Seq(Lines) /\ Len(records) \in Nat /\ flushed \in 0 .. Len(records)
  BY LenProperties DEF Types
<1>3. PICK k \in flushed .. Len(records), torn \in {<<>>, <<Torn>>} : disk' = SubSeq(records, 1, k) \o torn
  <2>1. PICK k \in flushed .. (IF broken THEN flushed ELSE Len(records)), torn \in {<<>>, <<Torn>>} :
          disk' = SubSeq(records, 1, k) \o torn
    BY DEF Crash
  <2>2. k \in flushed .. Len(records)
    BY <1>2
  <2> QED BY <2>1, <2>2
<1>4. disk' \in Seq(Lines) /\ Left(k)'
  <2> DEFINE d == SubSeq(records, 1, k) \o torn
  <2>1. k \in 0 .. Len(records)
    BY <1>2
  <2>2. /\ d \in Seq(Lines)
        /\ Len(d) = k \/ (Len(d) = k + 1 /\ d[k + 1].type \in {"torn", "bad"})
        /\ \A i \in 1 .. k : d[i] = records[i]
    BY <1>2, <2>1, PrefixLeft
  <2> QED BY <1>1, <1>3, <2>2 DEF Left
<1>5. \A m : Truthful(m) => Truthful(m)'
  BY <1>1 DEF Truthful, Key
<1>6. (\A i \in DOMAIN records : Truthful(records[i]))'
  BY <1>1, <1>5 DEF Logged
<1>7. Logged'
  BY <1>1, <1>6 DEF Logged, Key, IsCheckpoint
<1>8. Types' /\ Reported' /\ Offered'
  BY <1>1, <1>4 DEF Types, Reported, Offered, Key
<1>9. OnDisk'
  BY <1>1, <1>3, <1>4 DEF OnDisk, Left
<1> QED BY <1>7, <1>8, <1>9

(* A damaged line is lost, and no other. *)
LEMMA DamageKeeps == Inv /\ Damage => Inv'
<1> SUFFICES ASSUME Inv, Damage PROVE Inv'
  OBVIOUS
<1> USE DEF Inv
<1>1. /\ mode \in {"closed", "crashed"}
      /\ UNCHANGED <<kind, run, mode, input, pending, reusable, coverage, findings, owed, records, flushed, broken, delivered, parent>>
  BY DEF Damage
<1>2. PICK j \in DOMAIN disk : disk' = [disk EXCEPT ![j] = Bad]
  BY DEF Damage
<1>3. Bad \in Lines /\ Bad.type = "bad"
  BY DEF Bad, Plain, Line, Lines, LineTypes, Findings, NoManifest, CoverageState
<1>4. /\ disk \in Seq(Lines) /\ DOMAIN disk = 1 .. Len(disk) /\ Len(disk) \in Nat
  BY LenProperties DEF Types
<1>5. disk' \in Seq(Lines) /\ Len(disk') = Len(disk)
      /\ \A i \in 1 .. Len(disk) : disk'[i] = IF i = j THEN Bad ELSE disk[i]
  BY <1>2, <1>3, <1>4, ExceptSeq
<1>6. PICK k \in flushed .. Len(records) : Left(k)
  BY <1>1 DEF OnDisk
<1>7. k \in Nat /\ Len(disk) \in {k, k + 1}
  BY <1>6, LenProperties DEF Types, Left
<1>8. Left(k)'
  <2>1. \A i \in 1 .. k : disk'[i] = records'[i] \/ disk'[i].type = "bad"
    BY <1>1, <1>3, <1>5, <1>6, <1>7 DEF Left
  <2>2. Len(disk') = k \/ (Len(disk') = k + 1 /\ disk'[k + 1].type \in {"torn", "bad"})
    BY <1>3, <1>5, <1>6, <1>7 DEF Left
  <2>3. mode' = "closed" /\ delivered' => Len(disk') = k
    BY <1>1, <1>5, <1>6 DEF Left
  <2> QED BY <2>1, <2>2, <2>3 DEF Left
<1>9. OnDisk'
  BY <1>1, <1>6, <1>8 DEF OnDisk, Left
<1>10. \A m : Truthful(m) => Truthful(m)'
  BY <1>1 DEF Truthful, Key, EndManifest
<1>11. (\A i \in DOMAIN records : Truthful(records[i]))'
  BY <1>1, <1>10 DEF Logged
<1>12. Logged'
  BY <1>1, <1>11 DEF Logged, Key, IsCheckpoint
<1>13. Types' /\ Reported' /\ Offered'
  BY <1>1, <1>5 DEF Types, Reported, Offered, Key
<1> QED BY <1>9, <1>12, <1>13

-----------------------------------------------------------------------------
(* The inductive invariant: every step of a run, a kill, a failed write and a *)
(* damaged line keep it, and so does the run that resumes.                    *)
THEOREM Inductive == Spec => []Inv
<1>1. Inv /\ UNCHANGED vars => Inv'
  <2> SUFFICES ASSUME Inv, UNCHANGED vars PROVE Inv'
    OBVIOUS
  <2>1. Types' /\ Reported' /\ Offered'
    BY DEF vars, Inv, Types, Reported, Offered, Key
  <2>2. (\A i \in DOMAIN records : Truthful(records[i]))'
    BY DEF vars, Inv, Logged, Truthful, Key, EndManifest
  <2>3. Logged'
    BY <2>2 DEF vars, Inv, Logged, Key, IsCheckpoint
  <2>4. OnDisk'
    BY DEF vars, Inv, OnDisk, Left
  <2> QED BY <2>1, <2>3, <2>4 DEF Inv
<1>2. Inv /\ [Next]_vars => Inv'
  BY <1>1, StartKeeps, SettleKeeps, RecordKeeps, FailKeeps, NoiseKeeps, WriteFailsKeeps, EndKeeps, CrashKeeps, DamageKeeps DEF Next
<1> QED BY <1>2, InitInv, PTL DEF Spec

(* A review reuses only what its parent settled and reported of that very file. *)
THEOREM ReuseIsSound == Spec => []ReuseSound
<1>1. Inv => ReuseSound
  BY DEF Inv, Reported, ReuseSound, Settled
<1> QED BY <1>1, Inductive, PTL

(* Every finding of a report was met in the content the run is about, across a *)
(* chain of resumes of any length.                                               *)
THEOREM InputIsOne == Spec => []OneInput
<1>1. Inv => OneInput
  BY DEF Inv, Reported, OneInput
<1> QED BY <1>1, Inductive, PTL

(* What replay makes of an undamaged file: the records written, from the first to *)
(* one that is not before the last flush.                                         *)
LEMMA ReplayedWhole ==
  ASSUME Inv, mode \in {"closed", "crashed"}, Undamaged
  PROVE  \E k \in flushed .. Len(records) :
           /\ Len(CompleteLines(disk)) = k
           /\ \A i \in 1 .. k : CompleteLines(disk)[i] = records[i]
<1> DEFINE L == CompleteLines(disk)
<1>1. PICK k \in flushed .. Len(records) : Left(k)
  BY DEF Inv, OnDisk
<1>2. /\ records \in Seq(Lines) /\ Len(records) \in Nat /\ DOMAIN records = 1 .. Len(records) /\ flushed \in Nat /\ k \in 0 .. Len(records)
      /\ disk \in Seq(Lines) /\ Len(disk) \in Nat /\ DOMAIN disk = 1 .. Len(disk)
  BY LenProperties DEF Inv, Types
<1>3. \A i \in 1 .. k : disk[i] = records[i] /\ records[i].type # "torn"
  <2>1. ASSUME NEW i \in 1 .. k PROVE i \in DOMAIN disk /\ i \in DOMAIN records
    <3>1. Len(disk) = k \/ Len(disk) = k + 1
      BY <1>1 DEF Left
    <3>2. k \in Nat /\ k <= Len(records)
      BY <1>2
    <3>3. i \in 1 .. Len(records)
      BY <1>2, <3>2
    <3>4. CASE Len(disk) = k
      BY <1>2, <3>3, <3>4
    <3>5. CASE Len(disk) = k + 1
      <4>1. i \in 1 .. (k + 1)
        BY <3>2
      <4> QED BY <1>2, <3>3, <3>5, <4>1
    <3> QED BY <3>1, <3>4, <3>5
  <2> QED BY <1>1, <2>1 DEF Left, Undamaged, Inv, Logged, Truthful
<1>4. /\ Len(L) = IF disk # <<>> /\ disk[Len(disk)].type = "torn" THEN Len(disk) - 1 ELSE Len(disk)
      /\ \A i \in 1 .. Len(L) : i \in 1 .. Len(disk) /\ L[i] = disk[i]
  BY <1>2, CompleteFacts
<1> HIDE DEF L
<1>5. Len(L) = k
  <2>1. CASE Len(disk) = k
    <3>1. CASE k = 0
      BY <1>2, <1>4, <2>1, <3>1, EmptySeq
    <3>2. CASE k # 0
      BY <1>2, <1>3, <1>4, <2>1, <3>2
    <3> QED BY <3>1, <3>2
  <2>2. CASE Len(disk) = k + 1
    <3>1. disk[k + 1].type = "torn"
      BY <1>1, <1>2, <2>2 DEF Left, Undamaged
    <3>2. disk # <<>>
      BY <1>2, <2>2, EmptySeq
    <3> QED BY <1>2, <1>4, <2>2, <3>1, <3>2
  <2> QED BY <1>1, <2>1, <2>2 DEF Left
<1> QED BY <1>3, <1>4, <1>5 DEF L

(* Replay finds the finding of every file that was settled and not retracted. *)
LEMMA Durable == Inv => CheckpointDurable
<1> SUFFICES ASSUME Inv, mode \in {"closed", "crashed"}, ~broken, Undamaged,
                    NEW f \in File, coverage[f] \in Settled, f \notin owed, ~Retracted(f)
             PROVE  Item(CompleteLines(disk), Fingerprint(f, input)) = findings[f]
  BY DEF CheckpointDurable, Settled
<1> DEFINE L == CompleteLines(disk)
           key == Fingerprint(f, input)
           at == Checkpoints(records, key)
<1>1. PICK k \in flushed .. Len(records) : Len(L) = k /\ \A i \in 1 .. k : L[i] = records[i]
  BY ReplayedWhole
<1>2. /\ records \in Seq(Lines) /\ Len(records) \in Nat /\ DOMAIN records = 1 .. Len(records) /\ flushed \in Nat /\ k \in 0 .. Len(records)
      /\ L \in Seq(Lines) /\ DOMAIN L = 1 .. k
  <2>1. disk \in Seq(Lines) /\ records \in Seq(Lines) /\ flushed \in 0 .. Len(records)
    BY DEF Inv, Types
  <2>2. L \in Seq(Lines)
    BY <2>1, CompleteFacts
  <2> QED BY <1>1, <2>1, <2>2, LenProperties
<1> HIDE DEF L, key
<1>3. at \subseteq 1 .. k
  <2> SUFFICES ASSUME NEW i \in at PROVE i \in 1 .. k
    OBVIOUS
  <2>1. i \in DOMAIN records /\ IsCheckpoint(records[i])
    BY DEF Checkpoints, IsCheckpoint
  <2>2. i <= flushed
    BY <2>1 DEF Inv, Logged
  <2> QED BY <1>2, <2>1, <2>2
<1>4. Checkpoints(L, key) = at
  <2>1. \A i \in 1 .. k : i \in Checkpoints(L, key) <=> i \in at
    BY <1>1, <1>2 DEF Checkpoints
  <2>2. Checkpoints(L, key) \subseteq 1 .. k
    BY <1>2 DEF Checkpoints
  <2> QED BY <1>3, <2>1, <2>2
<1>5. at # {}
  <2>1. PICK i \in DOMAIN records : records[i].type \in {"done", "reused"} /\ records[i].key = Key(f)
    BY DEF Inv, Logged
  <2> QED BY <2>1 DEF Checkpoints, Key, key
<1>6. Max(at) \in at
  <2>1. k \in Nat /\ at \in SUBSET (1 .. k)
    BY <1>2, <1>3
  <2> HIDE DEF at
  <2> QED BY <1>5, <2>1, MaxIn
<1> DEFINE m == Max(at)
<1> HIDE DEF at
<1>7. m \in 1 .. k /\ L[m] = records[m] /\ m \in DOMAIN records
  <2>1. m \in at
    BY <1>6
  <2> HIDE DEF m
  <2>2. m \in 1 .. k
    BY <1>3, <2>1
  <2>3. m \in DOMAIN records
    BY <2>1 DEF at, Checkpoints
  <2> QED BY <1>1, <2>2, <2>3
<1>8. records[m].type \in {"done", "reused", "failed"} /\ records[m].key = key
  BY <1>6 DEF at, Checkpoints
<1>9. Item(L, key) = Item(records, key) /\ Item(records, key) = IF records[m].type = "failed" THEN NoFinding ELSE records[m].finding
  BY <1>4, <1>5, <1>7 DEF Item, at
<1> HIDE DEF m
<1>10. records[m].type # "failed"
  <2> SUFFICES ASSUME records[m].type = "failed" PROVE FALSE
    OBVIOUS
  <2>1. kind # "review"
    BY <1>9 DEF Retracted, key
  <2>2. PICK g \in File : key = Fingerprint(g, input) /\ coverage[g] = "failed"
    BY <1>7, <1>8, <2>1 DEF Inv, Logged, Truthful, Key
  <2>3. g = f
    BY <2>2 DEF key, Fingerprint
  <2> QED BY <2>2, <2>3 DEF Settled
<1>11. PICK g \in File : key = Fingerprint(g, input) /\ records[m].finding = findings[g]
  BY <1>7, <1>8, <1>10 DEF Inv, Logged, Truthful, Key
<1>12. g = f
  BY <1>11 DEF key, Fingerprint
<1> QED BY <1>9, <1>10, <1>11, <1>12 DEF L, key

(* What the calls that write the log promise is in the file, however the process *)
(* ended: checkpoints that were flushed, a log that loads, a delivered whole.    *)
THEOREM LogIsHeld == Spec => []LogHolds
<1>1. Inv => CrashLoads
  <2> SUFFICES ASSUME Inv, mode = "crashed", Undamaged PROVE Loads(CompleteLines(disk))
    BY DEF CrashLoads
  <2>1. disk \in Seq(Lines)
    BY DEF Inv, Types
  <2>2. /\ DOMAIN disk = 1 .. Len(disk) /\ DOMAIN CompleteLines(disk) = 1 .. Len(CompleteLines(disk))
        /\ \A i \in 1 .. Len(CompleteLines(disk)) : i \in 1 .. Len(disk) /\ CompleteLines(disk)[i] = disk[i]
    BY <2>1, CompleteFacts, LenProperties
  <2> QED BY <2>2 DEF Loads, Undamaged
<1>2. Inv => DeliveredWhole
  <2> SUFFICES ASSUME Inv, mode = "closed", delivered, Undamaged
               PROVE  disk = records /\ disk[Len(disk)].type = "end" /\ (kind = "review" => Manifest(disk).coverage = coverage)
    BY DEF DeliveredWhole
  <2>1. /\ records \in Seq(Lines) /\ disk \in Seq(Lines) /\ Len(records) \in Nat /\ DOMAIN records = 1 .. Len(records)
        /\ DOMAIN disk = 1 .. Len(disk) /\ flushed \in 0 .. Len(records)
    BY LenProperties DEF Inv, Types
  <2>2. PICK k \in flushed .. Len(records) : Left(k)
    BY DEF Inv, OnDisk
  <2>3. k = Len(records) /\ Len(disk) = k
    <3>1. flushed = Len(records)
      BY DEF Inv, Logged
    <3>2. Len(disk) = k
      BY <2>2 DEF Left
    <3> QED BY <2>1, <2>2, <3>1, <3>2
  <2>4. \A i \in 1 .. Len(disk) : disk[i] = records[i]
    BY <2>1, <2>2, <2>3 DEF Left, Undamaged
  <2>5. disk = records
    BY <2>1, <2>3, <2>4, SeqEqual
  <2> DEFINE at == {i \in DOMAIN records : records[i].type = "end"}
             n == Len(records)
  <2>6. n \in at /\ at \in SUBSET (1 .. n) /\ at = {n}
    BY <2>1 DEF Inv, Logged
  <2>7. Max(at) = n
    <3>1. Max(at) \in at
      BY <2>1, <2>6, MaxIn
    <3> QED BY <2>6, <3>1
  <2>8. Manifest(records) = records[n].manifest
    BY <2>6, <2>7 DEF Manifest
  <2>9. records[n].type = "end" /\ records[n].manifest = EndManifest
    BY <2>1, <2>6 DEF Inv, Logged, Truthful
  <2> QED BY <2>5, <2>8, <2>9 DEF EndManifest
<1> QED BY <1>1, <1>2, Durable, Inductive, PTL DEF LogHolds

-----------------------------------------------------------------------------
(* The dispatch of a scan. *)

Phases == {"loop", "batch", "acquire", "join", "dedup", "record", "ended"}
InBatch == phase \in {"batch", "acquire", "join", "dedup", "record"}
States == {"waiting", "running", "done", "reused", "failed", "stopped"}
Pairs == ScanItem \X ScanItem
ScanComments == [path : ScanItem, of : (SUBSET Pairs) \ {{}}]

LoopTypes ==
  /\ phase \in Phases /\ batch \in 1 .. (Len(Batches) + 1) /\ next \in Nat \ {0}
  /\ InBatch => batch \in DOMAIN Batches
  /\ phase = "acquire" => next \in DOMAIN Batches[batch]

FoundTypes ==
  /\ pool \in SUBSET Pairs /\ comments \in Seq(ScanComments)
  /\ batchStart \in Nat /\ (InBatch => batchStart <= Len(comments))

TaskTypes ==
  /\ batchDone \in SUBSET ScanItem
  /\ budgetHit \in BOOLEAN /\ interrupted \in BOOLEAN /\ budgetExceeded \in BOOLEAN /\ cancelled \in BOOLEAN
  /\ state \in [ScanItem -> States] /\ dispatched \in Nat /\ failed \in Nat
  /\ result \in {"none", "ok", "cancelled", "all failed"}

ScanTypes == LoopTypes /\ FoundTypes /\ TaskTypes

(* The findings of a list of comments. *)
OutputOf(s) == UNION {s[i].of : i \in DOMAIN s}

(* The loop is past the file at a place of a batch. *)
Passed(b, i) == b < batch \/ (b = batch /\ InBatch /\ i < next)

(* Which files have been started, run and are over. *)
LoopStarted ==
  phase # "ended" => \A b \in DOMAIN Batches : \A i \in DOMAIN Batches[b] :
    state[Batches[b][i]] = "waiting" <=> ~Passed(b, i)
RunsHere == \A f \in ScanItem : state[f] = "running" => phase \in {"batch", "acquire", "join"} /\ f \in Members(batch)
DoneHere == InBatch => batchDone = {f \in Members(batch) : state[f] \in {"done", "reused"}}
Progress == LoopStarted /\ RunsHere /\ DoneHere

(* What the loop waited for, and what cut it short. *)
Waited ==
  /\ phase \in {"loop", "dedup"} => pool = {}
  /\ phase = "record" => pool = {} \/ (interrupted /\ batchDone = {})
  /\ phase = "ended" <=> result # "none"
  /\ phase = "ended" /\ result # "cancelled" => pool = {}
  /\ interrupted => phase \in {"join", "record", "ended"}
  /\ budgetHit => budgetExceeded /\ phase \in {"join", "dedup", "record", "ended"}
  /\ InBatch /\ merged # <<>> => phase = "record" /\ pool = {}
  /\ phase \in {"join", "dedup", "record"} => interrupted \/ budgetHit \/ next > Len(Batches[batch])

(* A finding is in the pool or in one comment, and of a file that was started. *)
Disjoint(s) == \A i, j \in DOMAIN s : i # j => s[i].of \cap s[j].of = {}
Single ==
  /\ \A p \in pool : p \notin Output /\ state[p[1]] # "waiting" /\ (phase # "ended" => p[1] \in Members(batch))
  /\ \A p \in Output : state[p[1]] # "waiting"
  /\ Disjoint(comments)

(* The findings of the batch are behind batchStart, as they were filed or as they *)
(* were merged, and then the merged checkpoints have them all.                    *)
Fresh ==
  InBatch =>
    /\ \A i \in 1 .. batchStart : \A p \in comments[i].of : p[1] \notin Members(batch)
    /\ merged = <<>> =>
         \A i \in (batchStart + 1) .. Len(comments) : \E by \in ScanItem : comments[i].of = {<<by, comments[i].path>>}
    /\ merged # <<>> => \A f \in ScanItem :
         /\ \A c \in merged[f] : c.of # {}
         /\ \A i \in (batchStart + 1) .. Len(comments) : \A p \in comments[i].of :
              p[2] = f => \E c \in merged[f] : p \in c.of

(* The files of the batches that are over have their checkpoints. *)
Closed(b) == b < batch \/ phase = "ended"
Recorded ==
  \A b \in DOMAIN Batches : \A f \in Members(b) :
    /\ ~Closed(b) => checkpoint[f] = NoCheckpoint
    /\ Closed(b) /\ state[f] \in {"done", "reused"} => checkpoint[f] # NoCheckpoint
    /\ Closed(b) /\ state[f] = "done" => \A p \in Output : p[2] = f /\ p[1] \in Members(b) => p \in Restored(f)

(* The two counters, and what a success comes from. *)
Launched == {f \in ScanItem : state[f] \in {"running", "done", "failed", "stopped"}}
Lost == {f \in ScanItem : state[f] \in {"failed", "stopped"}}
Tallied == dispatched = Cardinality(Launched) /\ failed = Cardinality(Lost) /\ SuccessIsHonest

ScanInv == ScanTypes /\ Progress /\ Waited /\ Single /\ Fresh /\ Recorded /\ Tallied

(* The files of a batch, and that each is in one batch once. *)
LEMMA ItemPlaces ==
  /\ Len(Batches) \in Nat /\ DOMAIN Batches = 1 .. Len(Batches)
  /\ \A b \in DOMAIN Batches :
       /\ Batches[b] \in Seq(ScanItem) /\ Len(Batches[b]) \in Nat /\ DOMAIN Batches[b] = 1 .. Len(Batches[b])
       /\ \A i \in DOMAIN Batches[b] : Batches[b][i] \in Members(b)
       /\ \A f \in Members(b) : f \in ScanItem /\ \E i \in DOMAIN Batches[b] : f = Batches[b][i]
  /\ \A f \in ScanItem : \E b \in DOMAIN Batches : f \in Members(b)
  /\ \A b, c \in DOMAIN Batches : \A f \in Members(b) : f \in Members(c) => b = c
<1>1. Len(Batches) \in Nat /\ DOMAIN Batches = 1 .. Len(Batches)
  BY BatchesAssumption, LenProperties
<1>2. ASSUME NEW b \in DOMAIN Batches
      PROVE  /\ Batches[b] \in Seq(ScanItem) /\ Len(Batches[b]) \in Nat /\ DOMAIN Batches[b] = 1 .. Len(Batches[b])
             /\ \A i \in DOMAIN Batches[b] : Batches[b][i] \in Members(b)
             /\ \A f \in Members(b) : f \in ScanItem /\ \E i \in DOMAIN Batches[b] : f = Batches[b][i]
  <2>1. Batches[b] \in Seq(ScanItem)
    BY <1>1, BatchesAssumption, ElementOfSeq
  <2>2. Len(Batches[b]) \in Nat /\ DOMAIN Batches[b] = 1 .. Len(Batches[b])
    BY <2>1, LenProperties
  <2>3. \A f \in Members(b) : f \in ScanItem /\ \E i \in DOMAIN Batches[b] : f = Batches[b][i]
    BY DEF Members, Range, ScanItem
  <2> QED BY <2>1, <2>2, <2>3 DEF Members, Range
<1>3. \A f \in ScanItem : \E b \in DOMAIN Batches : f \in Members(b)
  BY DEF ScanItem
<1>4. \A b, c \in DOMAIN Batches : \A f \in Members(b) : f \in Members(c) => b = c
  BY <1>2, BatchesAssumption
<1> QED BY <1>1, <1>2, <1>3, <1>4

(* There are finitely many. *)
LEMMA ItemsFinite == IsFiniteSet(ScanItem)
<1> DEFINE all == {Members(b) : b \in DOMAIN Batches}
<1>1. \A b \in DOMAIN Batches : IsFiniteSet(Members(b))
  <2> SUFFICES ASSUME NEW b \in DOMAIN Batches PROVE IsFiniteSet(Members(b))
    OBVIOUS
  <2>1. Batches[b] \in Surjection(1 .. Len(Batches[b]), Members(b))
    BY ItemPlaces, LenProperties DEF Surjection, Members, Range
  <2>2. IsFiniteSet(1 .. Len(Batches[b]))
    BY ItemPlaces, FS_Interval
  <2> QED BY <2>1, <2>2, FS_Surjection
<1>2. IsFiniteSet(all)
  <2> DEFINE pick == [b \in DOMAIN Batches |-> Members(b)]
  <2>1. pick \in Surjection(DOMAIN Batches, all)
    BY DEF Surjection
  <2>2. IsFiniteSet(DOMAIN Batches)
    BY ItemPlaces, FS_Interval
  <2> QED BY <2>1, <2>2, FS_Surjection
<1>3. IsFiniteSet(UNION all)
  BY <1>1, <1>2, FS_UNION
<1> QED BY <1>3 DEF ScanItem

(* Some order of a set has each of its members once. *)
LEMMA SomeOrder ==
  ASSUME NEW S, IsFiniteSet(S)
  PROVE  /\ Cardinality(S) \in Nat /\ SetToSeq(S) \in [1 .. Cardinality(S) -> S]
         /\ \A i, j \in 1 .. Cardinality(S) : SetToSeq(S)[i] = SetToSeq(S)[j] => i = j
         /\ \A x \in S : \E i \in 1 .. Cardinality(S) : SetToSeq(S)[i] = x
<1> DEFINE n == Cardinality(S)
           q == SetToSeq(S)
<1>1. n \in Nat /\ ExistsBijection(1 .. n, S)
  BY FS_CardinalityType
<1>2. \E f \in [1 .. n -> S] : IsInjective(f)
  BY <1>1 DEF ExistsBijection, Bijection, Injection
<1>3. q \in [1 .. n -> S] /\ IsInjective(q)
  BY <1>2 DEF SetToSeq
<1>4. IsFiniteSet(1 .. n) /\ Cardinality(1 .. n) = n
  BY <1>1, FS_Interval
<1>5. q \in Injection(1 .. n, S)
  BY <1>3 DEF Injection
<1> HIDE DEF n, q
<1>6. q \in Surjection(1 .. n, S)
  BY <1>4, <1>5, FS_Injection DEF n
<1> QED BY <1>1, <1>3, <1>6 DEF IsInjective, Surjection, n, q

(* A list with a comment more. *)
Added(s, c, t) == s \in Seq(ScanComments) /\ c \in ScanComments /\ t = Append(s, c)

(* A comment that is added comes last. *)
LEMMA AddedLast ==
  ASSUME NEW s, NEW c, NEW t, Added(s, c, t)
  PROVE  /\ t \in Seq(ScanComments) /\ Len(t) = Len(s) + 1
         /\ \A i \in 1 .. Len(s) : t[i] = s[i]
         /\ t[Len(s) + 1] = c
         /\ OutputOf(t) = OutputOf(s) \cup c.of
         /\ Disjoint(s) /\ c.of \cap OutputOf(s) = {} => Disjoint(t)
<1>0. s \in Seq(ScanComments) /\ c \in ScanComments /\ t = Append(s, c)
  BY DEF Added
<1>1. /\ t \in Seq(ScanComments) /\ Len(t) = Len(s) + 1
      /\ \A i \in 1 .. Len(s) : t[i] = s[i]
      /\ t[Len(s) + 1] = c
  BY <1>0, AppendProperties
<1>2. Len(s) \in Nat /\ (\A i : i \in DOMAIN s <=> i \in 1 .. Len(s)) /\ (\A i : i \in DOMAIN t <=> i \in 1 .. (Len(s) + 1))
  BY <1>0, <1>1, LenProperties
<1>3. \A i \in DOMAIN t : i \in DOMAIN s \/ i = Len(s) + 1
  BY <1>2
<1>4. \A i \in DOMAIN s : i \in DOMAIN t /\ t[i] = s[i]
  BY <1>1, <1>2
<1>5. Len(s) + 1 \in DOMAIN t
  BY <1>2
<1>6. OutputOf(t) = OutputOf(s) \cup c.of
  BY <1>1, <1>3, <1>4, <1>5 DEF OutputOf
<1>7. ASSUME Disjoint(s), c.of \cap OutputOf(s) = {}, NEW i \in DOMAIN t, NEW j \in DOMAIN t, i # j
      PROVE  t[i].of \cap t[j].of = {}
  <2>1. \A k \in DOMAIN s : s[k].of \cap c.of = {}
    BY <1>7 DEF OutputOf
  <2> QED BY <1>1, <1>3, <1>4, <1>7, <2>1 DEF Disjoint
<1> QED BY <1>1, <1>6, <1>7 DEF Disjoint

(* The comments behind a place. *)
LEMMA BehindStart ==
  ASSUME NEW s \in Seq(ScanComments), NEW start \in 0 .. Len(s), NEW originals, originals = SubSeq(s, start + 1, Len(s))
  PROVE  /\ originals \in Seq(ScanComments) /\ Len(originals) = Len(s) - start
         /\ (\A i : i \in DOMAIN originals <=> i \in 1 .. (Len(s) - start))
         /\ \A j \in DOMAIN originals : start + j \in DOMAIN s /\ originals[j] = s[start + j] /\ originals[j] \in ScanComments
         /\ \A i \in (start + 1) .. Len(s) : i - start \in DOMAIN originals /\ originals[i - start] = s[i]
<1>1. Len(s) \in Nat /\ (\A i : i \in DOMAIN s <=> i \in 1 .. Len(s)) /\ \A i \in 1 .. Len(s) : s[i] \in ScanComments
  BY LenProperties
<1>2. \A i \in (start + 1) .. Len(s) : s[i] \in ScanComments
  BY <1>1
<1>3. /\ originals \in Seq(ScanComments) /\ Len(originals) = IF start + 1 <= Len(s) THEN Len(s) - (start + 1) + 1 ELSE 0
      /\ \A j \in 1 .. (Len(s) - (start + 1) + 1) : originals[j] = s[start + 1 + j - 1]
  <2> DEFINE m == start + 1
  <2>1. start \in Nat /\ m \in Int /\ Len(s) \in Int
    BY <1>1
  <2>2. \A i \in m .. Len(s) : s[i] \in ScanComments
    BY <1>2
  <2> HIDE DEF m
  <2>3. /\ SubSeq(s, m, Len(s)) \in Seq(ScanComments)
        /\ Len(SubSeq(s, m, Len(s))) = IF m <= Len(s) THEN Len(s) - m + 1 ELSE 0
        /\ \A i \in 1 .. (Len(s) - m + 1) : SubSeq(s, m, Len(s))[i] = s[m + i - 1]
    BY ONLY <2>1, <2>2, SubSeqProperties
  <2> QED BY <2>3 DEF m
<1>4. Len(originals) = Len(s) - start
  BY ONLY <1>1, <1>3, start \in 0 .. Len(s)
<1>5. (\A i : i \in DOMAIN originals <=> i \in 1 .. (Len(s) - start))
  BY <1>3, <1>4, LenProperties
<1>6. ASSUME NEW j \in 1 .. (Len(s) - start) PROVE start + j \in 1 .. Len(s) /\ originals[j] = s[start + j]
  <2>1. j \in 1 .. (Len(s) - (start + 1) + 1) /\ start + 1 + j - 1 = start + j /\ start + j \in 1 .. Len(s)
    BY ONLY <1>1, start \in 0 .. Len(s), j \in 1 .. (Len(s) - start)
  <2> QED BY ONLY <1>3, <2>1
<1>7. ASSUME NEW i \in (start + 1) .. Len(s) PROVE i - start \in 1 .. (Len(s) - start) /\ originals[i - start] = s[i]
  <2>1. i - start \in 1 .. (Len(s) - start) /\ start + (i - start) = i
    BY <1>1
  <2> QED BY <1>6, <2>1
<1> QED BY <1>1, <1>3, <1>4, <1>5, <1>6, <1>7

(* The place behind a start. *)
Behind(start, k) == start + k

(* The places of a list, before a start and behind it. *)
LEMMA SplitPlaces ==
  ASSUME NEW start \in Nat, NEW n \in Nat
  PROVE  /\ \A i \in 1 .. (start + n) : i \in 1 .. start \/ \E k \in 1 .. n : i = Behind(start, k)
         /\ \A i \in 1 .. start : i \in 1 .. (start + n) /\ i <= start
         /\ \A k \in 1 .. n : Behind(start, k) \in 1 .. (start + n) /\ Behind(start, k) \notin 1 .. start
         /\ \A k \in 1 .. n : ~(Behind(start, k) <= start) /\ Behind(start, k) - start = k
         /\ \A k, l \in 1 .. n : Behind(start, k) = Behind(start, l) => k = l
<1>1. ASSUME NEW i \in 1 .. (start + n), i \notin 1 .. start PROVE i - start \in 1 .. n /\ i = Behind(start, i - start)
  BY <1>1 DEF Behind
<1> QED BY <1>1 DEF Behind

(* What the members of a group stand for, together. *)
Joint(originals, group) == UNION {originals[i].of : i \in group}

(* What a merge leaves: the comments before the batch, and one for each group. *)
Rejoined(s, start, originals, groups, n, order, t) ==
  /\ t \in Seq(ScanComments) /\ Len(t) = start + n /\ n \in Nat
  /\ (\A i : i \in DOMAIN t <=> i \in 1 .. (start + n))
  /\ \A i \in 1 .. start : t[i] = s[i]
  /\ \A k \in 1 .. n : order[k] \in groups /\ t[Behind(start, k)].of = Joint(originals, order[k])
  /\ \A i, j \in 1 .. n : order[i] = order[j] => i = j
  /\ \A g \in groups : \E i \in 1 .. n : order[i] = g

(* A canonical comment stands for what its group does. *)
LEMMA CanonicalIs ==
  ASSUME NEW originals, \A j \in DOMAIN originals : originals[j] \in ScanComments,
         NEW group \in (SUBSET (DOMAIN originals)) \ {{}}, NEW head, head[group] \in DOMAIN originals
  PROVE  /\ Canonical(originals, group, head) \in ScanComments
         /\ Canonical(originals, group, head).of = Joint(originals, group)
<1>1. Canonical(originals, group, head) = [path |-> originals[head[group]].path, of |-> Joint(originals, group)]
  BY DEF Canonical, Comment, Joint
<1>2. \A k \in group : originals[k].of \in (SUBSET Pairs) \ {{}}
  BY DEF ScanComments
<1>3. Joint(originals, group) \in (SUBSET Pairs) \ {{}}
  BY <1>2 DEF Joint
<1>4. originals[head[group]].path \in ScanItem
  BY DEF ScanComments
<1> QED BY <1>1, <1>3, <1>4 DEF ScanComments

(* So it is when the comments behind the start are deduplicated. *)
LEMMA MergeRejoins ==
  ASSUME NEW s \in Seq(ScanComments), NEW start \in 0 .. Len(s),
         NEW originals, (\A i : i \in DOMAIN originals <=> i \in 1 .. (Len(s) - start)), \A j \in DOMAIN originals : originals[j] \in ScanComments,
         NEW groups \in SUBSET ((SUBSET (DOMAIN originals)) \ {{}}),
         NEW head \in [groups -> DOMAIN originals]
  PROVE  Rejoined(s, start, originals, groups, Cardinality(groups), SetToSeq(groups),
                  SubSeq(s, 1, start) \o Deduped(originals, groups, head))
<1> DEFINE n == Cardinality(groups)
           order == SetToSeq(groups)
           d == Deduped(originals, groups, head)
           front == SubSeq(s, 1, start)
           t == front \o d
<1>1. /\ Len(s) \in Nat /\ (\A i : i \in DOMAIN s <=> i \in 1 .. Len(s)) /\ start \in Nat /\ start <= Len(s)
      /\ \A i \in 1 .. start : s[i] \in ScanComments
  <2>1. Len(s) \in Nat /\ (\A i : i \in DOMAIN s <=> i \in 1 .. Len(s)) /\ \A i \in DOMAIN s : s[i] \in ScanComments
    BY LenProperties
  <2> QED BY <2>1
<1>2. IsFiniteSet(groups)
  <2>1. Len(s) - start \in Nat
    BY <1>1
  <2>2. DOMAIN originals = 1 .. (Len(s) - start)
    OBVIOUS
  <2>3. IsFiniteSet(1 .. (Len(s) - start))
    BY ONLY <2>1, FS_Interval
  <2>4. IsFiniteSet(SUBSET (DOMAIN originals))
    BY <2>2, <2>3, FS_SUBSET
  <2> QED BY <2>4, FS_Subset
<1>3. /\ n \in Nat /\ order \in [1 .. n -> groups]
      /\ \A i, j \in 1 .. n : order[i] = order[j] => i = j
      /\ \A g \in groups : \E i \in 1 .. n : order[i] = g
  BY <1>2, SomeOrder
<1>4. d = [k \in 1 .. n |-> Canonical(originals, order[k], head)]
  BY <1>3 DEF Deduped
<1>5. \A g \in groups : Canonical(originals, g, head) \in ScanComments /\ Canonical(originals, g, head).of = Joint(originals, g)
  BY CanonicalIs
<1> HIDE DEF n, order, d, front, t
<1>6. /\ d \in [1 .. n -> ScanComments]
      /\ \A k \in 1 .. n : order[k] \in groups /\ d[k].of = Joint(originals, order[k])
  <2>1. \A k \in 1 .. n : order[k] \in groups
    BY ONLY <1>3
  <2>2. \A k \in 1 .. n : Canonical(originals, order[k], head) \in ScanComments /\ Canonical(originals, order[k], head).of = Joint(originals, order[k])
    BY ONLY <1>5, <2>1
  <2> QED BY ONLY <1>4, <2>1, <2>2
<1>7. d \in Seq(ScanComments) /\ Len(d) = n
  <2>1. d \in Seq(ScanComments)
    BY ONLY <1>3, <1>6, SeqDef
  <2> QED BY ONLY <1>3, <1>6, <2>1, LenProperties
<1>8. front \in Seq(ScanComments) /\ Len(front) = start /\ \A i \in 1 .. start : front[i] = s[i]
  <2>1. 1 \in Int /\ start \in Int
    BY ONLY <1>1
  <2>2. /\ front \in Seq(ScanComments) /\ Len(front) = IF 1 <= start THEN start - 1 + 1 ELSE 0
        /\ \A i \in 1 .. (start - 1 + 1) : front[i] = s[1 + i - 1]
    BY ONLY <1>1, <2>1, SubSeqProperties DEF front
  <2>3. Len(front) = start
    BY ONLY <1>1, <2>2
  <2>4. ASSUME NEW i \in 1 .. start PROVE front[i] = s[i]
    <3>1. i \in 1 .. (start - 1 + 1) /\ 1 + i - 1 = i
      BY ONLY <1>1, i \in 1 .. start
    <3> QED BY ONLY <2>2, <3>1
  <2> QED BY ONLY <2>2, <2>3, <2>4
<1>9. /\ t \in Seq(ScanComments) /\ Len(t) = start + n
      /\ \A i \in 1 .. (start + n) : t[i] = IF i <= start THEN front[i] ELSE d[i - start]
  <2> front \in Seq(ScanComments) /\ d \in Seq(ScanComments)
    BY ONLY <1>7, <1>8
  <2>1. /\ front \o d \in Seq(ScanComments) /\ Len(front \o d) = Len(front) + Len(d)
        /\ \A i \in 1 .. (Len(front) + Len(d)) : (front \o d)[i] = IF i <= Len(front) THEN front[i] ELSE d[i - Len(front)]
    BY ONLY front \in Seq(ScanComments), d \in Seq(ScanComments), ConcatProperties
  <2> QED BY ONLY <1>7, <1>8, <2>1 DEF t
<1>10. (\A i : i \in DOMAIN t <=> i \in 1 .. (start + n))
  BY ONLY <1>9, LenProperties
<1>11. \A i \in 1 .. start : t[i] = s[i]
  BY ONLY <1>1, <1>3, <1>8, <1>9, SplitPlaces
<1>12. \A k \in 1 .. n : t[Behind(start, k)] = d[k]
  BY ONLY <1>1, <1>3, <1>9, SplitPlaces
<1>13. Rejoined(s, start, originals, groups, n, order, t)
  BY ONLY <1>3, <1>6, <1>9, <1>10, <1>11, <1>12 DEF Rejoined
<1> QED BY <1>13 DEF n, order, d, front, t

(* A grouping in which every id is once costs no finding and doubles none. *)
LEMMA RejoinedKeeps ==
  ASSUME NEW s \in Seq(ScanComments), NEW start \in 0 .. Len(s), NEW originals,
         (\A i : i \in DOMAIN originals <=> i \in 1 .. (Len(s) - start)), \A j \in DOMAIN originals : originals[j] = s[Behind(start, j)],
         NEW groups \in SUBSET ((SUBSET (DOMAIN originals)) \ {{}}), UNION groups = DOMAIN originals,
         \A g, h \in groups : g = h \/ g \cap h = {},
         NEW n, NEW order, NEW t, Rejoined(s, start, originals, groups, n, order, t)
  PROVE  /\ \A i \in (start + 1) .. Len(t) : \A p \in t[i].of : \E j \in DOMAIN originals : p \in originals[j].of
         /\ OutputOf(t) = OutputOf(s)
         /\ Disjoint(s) => Disjoint(t)
<1>1. /\ Len(s) \in Nat /\ (\A i : i \in DOMAIN s <=> i \in 1 .. Len(s)) /\ start \in Nat /\ Len(s) - start \in Nat /\ Len(s) = start + (Len(s) - start)
  <2>1. Len(s) \in Nat /\ (\A i : i \in DOMAIN s <=> i \in 1 .. Len(s))
    BY LenProperties
  <2> QED BY <2>1
<1>2. /\ n \in Nat /\ (\A i : i \in DOMAIN t <=> i \in 1 .. (start + n)) /\ Len(t) = start + n
      /\ \A i \in 1 .. start : t[i] = s[i]
      /\ \A k \in 1 .. n : order[k] \in groups /\ t[Behind(start, k)].of = Joint(originals, order[k])
      /\ \A i, j \in 1 .. n : order[i] = order[j] => i = j
      /\ \A g \in groups : \E i \in 1 .. n : order[i] = g
  BY DEF Rejoined
<1>3. /\ \A i \in DOMAIN t : i \in 1 .. start \/ \E k \in 1 .. n : i = Behind(start, k)
      /\ \A i \in 1 .. start : i \in DOMAIN t
      /\ \A k \in 1 .. n : Behind(start, k) \in DOMAIN t
  <2>1. start \in Nat /\ n \in Nat
    BY ONLY <1>1, <1>2
  <2>2. /\ \A i \in 1 .. (start + n) : i \in 1 .. start \/ \E k \in 1 .. n : i = Behind(start, k)
        /\ \A i \in 1 .. start : i \in 1 .. (start + n)
        /\ \A k \in 1 .. n : Behind(start, k) \in 1 .. (start + n)
    BY ONLY <2>1, SplitPlaces
  <2>3. \A i : i \in DOMAIN t <=> i \in 1 .. (start + n)
    BY ONLY <1>2
  <2> QED BY ONLY <2>2, <2>3
<1>4. /\ \A i \in DOMAIN s : i \in 1 .. start \/ \E j \in DOMAIN originals : i = Behind(start, j)
      /\ \A i \in 1 .. start : i \in DOMAIN s
      /\ \A j \in DOMAIN originals : Behind(start, j) \in DOMAIN s /\ Behind(start, j) \notin 1 .. start
      /\ \A j, k \in DOMAIN originals : Behind(start, j) = Behind(start, k) => j = k
  <2> DEFINE m == Len(s) - start
  <2>1. start \in Nat /\ m \in Nat
    BY ONLY <1>1
  <2>2. \A i : i \in DOMAIN s <=> i \in 1 .. (start + m)
    BY ONLY <1>1
  <2>3. \A i : i \in DOMAIN originals <=> i \in 1 .. m
    OBVIOUS
  <2> HIDE DEF m
  <2>4. /\ \A i \in 1 .. (start + m) : i \in 1 .. start \/ \E k \in 1 .. m : i = Behind(start, k)
        /\ \A i \in 1 .. start : i \in 1 .. (start + m)
        /\ \A k \in 1 .. m : Behind(start, k) \in 1 .. (start + m) /\ Behind(start, k) \notin 1 .. start
        /\ \A k, l \in 1 .. m : Behind(start, k) = Behind(start, l) => k = l
    BY ONLY <2>1, SplitPlaces
  <2> QED BY ONLY <2>2, <2>3, <2>4
<1>5. /\ \A i \in 1 .. start : i \in DOMAIN t /\ i \in DOMAIN s
      /\ \A k \in 1 .. n : Behind(start, k) \in DOMAIN t
      /\ \A j \in DOMAIN originals : Behind(start, j) \in DOMAIN s /\ Behind(start, j) \notin 1 .. start
      /\ \A j, k \in DOMAIN originals : Behind(start, j) = Behind(start, k) => j = k
  BY ONLY <1>3, <1>4
<1>6. \A j \in DOMAIN originals : \E k \in 1 .. n : j \in order[k]
  BY <1>2
<1>7. \A k \in 1 .. n : order[k] \subseteq DOMAIN originals
  BY <1>2
<1>8. \A g, p : p \in Joint(originals, g) <=> \E j \in g : p \in originals[j].of
  BY DEF Joint
<1>9. \A k \in 1 .. n : \A p \in t[Behind(start, k)].of : \E j \in order[k] : j \in DOMAIN originals /\ p \in s[Behind(start, j)].of
  <2> SUFFICES ASSUME NEW k \in 1 .. n, NEW p \in t[Behind(start, k)].of
               PROVE  \E j \in order[k] : j \in DOMAIN originals /\ p \in s[Behind(start, j)].of
    OBVIOUS
  <2>1. p \in Joint(originals, order[k])
    BY <1>2
  <2>2. PICK j \in order[k] : p \in originals[j].of
    BY ONLY <1>8, <2>1
  <2>3. j \in DOMAIN originals
    BY ONLY <1>7, k \in 1 .. n, j \in order[k]
  <2> QED BY <2>2, <2>3
<1>10. OutputOf(t) \subseteq OutputOf(s)
  <2> SUFFICES ASSUME NEW i \in DOMAIN t, NEW p \in t[i].of PROVE \E k \in DOMAIN s : p \in s[k].of
    BY DEF OutputOf
  <2>1. CASE i \in 1 .. start
    BY <1>2, <1>5, <2>1
  <2>2. ASSUME NEW k \in 1 .. n, i = Behind(start, k) PROVE \E m \in DOMAIN s : p \in s[m].of
    BY <1>5, <1>9, <2>2
  <2> QED BY <1>3, <2>1, <2>2
<1>11. OutputOf(s) \subseteq OutputOf(t)
  <2> SUFFICES ASSUME NEW i \in DOMAIN s, NEW p \in s[i].of PROVE \E k \in DOMAIN t : p \in t[k].of
    BY DEF OutputOf
  <2>1. CASE i \in 1 .. start
    BY <1>2, <1>5, <2>1
  <2>2. ASSUME NEW j \in DOMAIN originals, i = Behind(start, j) PROVE \E k \in DOMAIN t : p \in t[k].of
    <3>1. PICK k \in 1 .. n : j \in order[k]
      BY <1>6
    <3>2. p \in originals[j].of
      BY <2>2
    <3>3. p \in Joint(originals, order[k])
      BY <1>8, <3>1, <3>2
    <3>4. Behind(start, k) \in DOMAIN t /\ p \in t[Behind(start, k)].of
      BY <1>2, <1>5, <3>3
    <3> QED BY <3>4
  <2> QED BY <1>4, <2>1, <2>2
<1>12. ASSUME NEW i \in (start + 1) .. Len(t), NEW p \in t[i].of PROVE \E j \in DOMAIN originals : p \in originals[j].of
  <2>1. i \in DOMAIN t /\ i \notin 1 .. start
    BY ONLY <1>1, <1>2, i \in (start + 1) .. Len(t)
  <2>2. PICK k \in 1 .. n : i = Behind(start, k)
    BY <1>3, <2>1
  <2>3. p \in Joint(originals, order[k])
    <3>1. p \in t[Behind(start, k)].of
      BY ONLY <1>12, <2>2
    <3>2. t[Behind(start, k)].of = Joint(originals, order[k])
      BY ONLY <1>2, k \in 1 .. n
    <3> QED BY ONLY <3>1, <3>2
  <2>4. PICK j \in order[k] : p \in originals[j].of
    BY ONLY <1>8, <2>3
  <2> QED BY ONLY <1>7, k \in 1 .. n, j \in order[k], <2>4
<1>13. ASSUME Disjoint(s), NEW i \in DOMAIN t, NEW j \in DOMAIN t, NEW p \in t[i].of, p \in t[j].of PROVE i = j
  <2>1. \A a, b \in DOMAIN s : p \in s[a].of /\ p \in s[b].of => a = b
    BY <1>13 DEF Disjoint
  <2>2. ASSUME NEW a \in 1 .. start, p \in t[a].of, NEW k \in 1 .. n, p \in t[Behind(start, k)].of PROVE FALSE
    <3>1. PICK m \in DOMAIN originals : p \in s[Behind(start, m)].of
      BY <1>9, <2>2
    <3>2. a = Behind(start, m)
      BY <1>2, <1>5, <2>1, <2>2, <3>1
    <3> QED BY <1>5, <3>2
  <2>3. CASE i \in 1 .. start /\ j \in 1 .. start
    BY <1>2, <1>5, <1>13, <2>1, <2>3
  <2>4. ASSUME NEW k \in 1 .. n, i = Behind(start, k), NEW l \in 1 .. n, j = Behind(start, l) PROVE i = j
    <3>1. PICK m \in order[k] : m \in DOMAIN originals /\ p \in s[Behind(start, m)].of
      BY <1>9, <1>13, <2>4
    <3>2. PICK o \in order[l] : o \in DOMAIN originals /\ p \in s[Behind(start, o)].of
      BY <1>9, <1>13, <2>4
    <3>3. m = o
      BY <1>5, <2>1, <3>1, <3>2
    <3>4. order[k] = order[l]
      BY <1>2, <3>1, <3>2, <3>3
    <3> QED BY <1>2, <2>4, <3>4
  <2> QED BY <1>3, <1>13, <2>2, <2>3, <2>4
<1> QED BY <1>10, <1>11, <1>12, <1>13 DEF Disjoint

(* A list of comments after those behind a start were merged. *)
MergeOf(s, start, originals, groups, head, t) ==
  /\ s \in Seq(ScanComments) /\ start \in 0 .. Len(s) /\ originals = SubSeq(s, start + 1, Len(s))
  /\ groups \in SUBSET ((SUBSET (DOMAIN originals)) \ {{}}) /\ Accounted(groups, Len(originals))
  /\ head \in [groups -> DOMAIN originals]
  /\ t = SubSeq(s, 1, start) \o Deduped(originals, groups, head)

(* A merge of the batch's comments costs no finding and doubles none. *)
LEMMA MergesKeep ==
  ASSUME NEW s, NEW start, NEW originals, NEW groups, NEW head, NEW t,
         MergeOf(s, start, originals, groups, head, t)
  PROVE  /\ t \in Seq(ScanComments) /\ start <= Len(t)
         /\ \A i \in 1 .. start : t[i] = s[i]
         /\ \A i \in (start + 1) .. Len(t) : \A p \in t[i].of : \E j \in DOMAIN originals : p \in originals[j].of
         /\ OutputOf(t) = OutputOf(s)
         /\ Disjoint(s) => Disjoint(t)
<1> DEFINE n == Cardinality(groups)
           order == SetToSeq(groups)
<1>0. /\ s \in Seq(ScanComments) /\ start \in 0 .. Len(s) /\ originals = SubSeq(s, start + 1, Len(s))
      /\ groups \in SUBSET ((SUBSET (DOMAIN originals)) \ {{}}) /\ Accounted(groups, Len(originals))
      /\ head \in [groups -> DOMAIN originals]
      /\ t = SubSeq(s, 1, start) \o Deduped(originals, groups, head)
  BY DEF MergeOf
<1>1. /\ \A i : i \in DOMAIN originals <=> i \in 1 .. (Len(s) - start)
      /\ \A j \in DOMAIN originals : originals[j] = s[Behind(start, j)] /\ originals[j] \in ScanComments
  BY ONLY <1>0, BehindStart DEF Behind
<1>2. Rejoined(s, start, originals, groups, n, order, t)
  BY <1>0, <1>1, MergeRejoins
<1>3. Len(originals) \in Nat /\ DOMAIN originals = 1 .. Len(originals)
  <2>1. originals \in Seq(ScanComments)
    BY ONLY <1>0, BehindStart
  <2> QED BY ONLY <2>1, LenProperties
<1>4. UNION groups = DOMAIN originals /\ \A g, h \in groups : g = h \/ g \cap h = {}
  BY <1>0, <1>3 DEF Accounted
<1> HIDE DEF n, order
<1> USE <1>0
<1>5. /\ \A i \in (start + 1) .. Len(t) : \A p \in t[i].of : \E j \in DOMAIN originals : p \in originals[j].of
      /\ OutputOf(t) = OutputOf(s)
      /\ Disjoint(s) => Disjoint(t)
  BY ONLY <1>1, <1>2, <1>4, s \in Seq(ScanComments), start \in 0 .. Len(s),
          groups \in SUBSET ((SUBSET (DOMAIN originals)) \ {{}}), RejoinedKeeps
<1>6. /\ t \in Seq(ScanComments) /\ Len(t) = start + n /\ n \in Nat
      /\ \A i \in 1 .. start : t[i] = s[i]
  BY ONLY <1>2 DEF Rejoined
<1>7. start <= Len(t)
  <2>1. start \in Nat
    BY <1>0, LenProperties
  <2> QED BY ONLY <1>6, <2>1
<1> QED BY <1>5, <1>6, <1>7

(* What the merged checkpoints of a path keep. *)
LEMMA MergedKeep ==
  ASSUME NEW originals, \A j \in DOMAIN originals : originals[j] \in ScanComments,
         \A j \in DOMAIN originals : \E by \in ScanItem : originals[j].of = {<<by, originals[j].path>>},
         NEW groups \in SUBSET ((SUBSET (DOMAIN originals)) \ {{}}), UNION groups = DOMAIN originals,
         NEW head \in [groups -> DOMAIN originals], NEW f \in ScanItem
  PROVE  /\ \A c \in MergedOf(originals, groups, head, f) : c.of # {}
         /\ \A j \in DOMAIN originals : \A p \in originals[j].of :
              p[2] = f => \E c \in MergedOf(originals, groups, head, f) : p \in c.of
<1>1. \A g \in groups : Canonical(originals, g, head) \in ScanComments /\ Canonical(originals, g, head).of = Joint(originals, g)
  BY CanonicalIs
<1>2. \A c \in ScanComments : c.of # {}
  BY DEF ScanComments
<1>3. ASSUME NEW c \in MergedOf(originals, groups, head, f) PROVE c.of # {}
  <2>1. c \in ScanComments
    BY <1>1 DEF MergedOf
  <2> QED BY <1>2, <2>1
<1>4. ASSUME NEW j \in DOMAIN originals, NEW p \in originals[j].of, p[2] = f
      PROVE  \E c \in MergedOf(originals, groups, head, f) : p \in c.of
  <2>1. originals[j].path = f
    BY <1>4
  <2>2. PICK g \in groups : j \in g
    OBVIOUS
  <2>3. CASE Paths(originals, g) = {f}
    <3>1. Canonical(originals, g, head) \in MergedOf(originals, groups, head, f)
      BY <2>3 DEF MergedOf
    <3>2. p \in Joint(originals, g)
      BY <2>2 DEF Joint
    <3> QED BY <1>1, <3>1, <3>2
  <2>4. CASE Paths(originals, g) # {f}
    <3>1. originals[j] \in MergedOf(originals, groups, head, f)
      BY <2>1, <2>2, <2>4 DEF MergedOf
    <3> QED BY <3>1
  <2> QED BY <2>3, <2>4
<1> QED BY <1>3, <1>4

(* The file the loop is at. *)
LEMMA CurrentFile ==
  ASSUME ScanTypes, (phase = "batch" /\ next <= Len(Batches[batch])) \/ phase = "acquire"
  PROVE  /\ batch \in DOMAIN Batches /\ next \in DOMAIN Batches[batch]
         /\ Current \in ScanItem /\ Current \in Members(batch)
         /\ \A b \in DOMAIN Batches : \A i \in DOMAIN Batches[b] : Batches[b][i] = Current => b = batch /\ i = next
<1>1. batch \in DOMAIN Batches
  BY DEF ScanTypes, LoopTypes, InBatch
<1>2. next \in DOMAIN Batches[batch]
  <2>1. CASE phase = "batch" /\ next <= Len(Batches[batch])
    <3>1. Len(Batches[batch]) \in Nat /\ DOMAIN Batches[batch] = 1 .. Len(Batches[batch])
      BY <1>1, ItemPlaces
    <3>2. next \in 1 .. Len(Batches[batch])
      <4>1. next \in Nat \ {0}
        BY DEF ScanTypes, LoopTypes, FoundTypes
      <4>2. Len(Batches[batch]) \in Nat
        BY <3>1
      <4> QED BY ONLY <2>1, <4>1, <4>2
    <3> QED BY <3>1, <3>2
  <2>2. CASE phase = "acquire"
    BY <2>2 DEF ScanTypes, LoopTypes
  <2> QED BY <2>1, <2>2
<1>3. Current \in ScanItem /\ Current \in Members(batch)
  BY <1>1, <1>2, ItemPlaces DEF Current
<1>4. \A b \in DOMAIN Batches : \A i \in DOMAIN Batches[b] : Batches[b][i] = Current => b = batch /\ i = next
  BY <1>1, <1>2, BatchesAssumption DEF Current
<1> QED BY <1>1, <1>2, <1>3, <1>4

(* A finding makes a comment of its own. *)
LEMMA CommentOfOne ==
  ASSUME NEW p \in Pairs
  PROVE  /\ Comment(p[2], {p}) \in ScanComments
         /\ Comment(p[2], {p}).of = {p} /\ Comment(p[2], {p}).path = p[2]
BY DEF Comment, ScanComments, Pairs

(* The steps of a dedup: nothing but tokens, or a merge of the batch's comments. *)
Merges(groups, head) ==
  /\ groups \in SUBSET ((SUBSET (DOMAIN Since(batchStart))) \ {{}})
  /\ head \in [groups -> DOMAIN Since(batchStart)]
  /\ Len(Since(batchStart)) >= MinDedup /\ Accounted(groups, Len(Since(batchStart)))
  /\ comments' = ReplaceSince(batchStart, Deduped(Since(batchStart), groups, head))
  /\ merged' = [p \in ScanItem |-> MergedOf(Since(batchStart), groups, head, p)]

(* A dedup either leaves the comments or merges them. *)
LEMMA DedupMerges ==
  ASSUME Dedup
  PROVE  UNCHANGED <<comments, merged>> \/ \E groups, head : Merges(groups, head)
<1> DEFINE originals == Since(batchStart)
<1> SUFFICES ASSUME ~ UNCHANGED <<comments, merged>> PROVE \E groups, head : Merges(groups, head)
  OBVIOUS
<1>1. PICK groups \in SUBSET ((SUBSET (DOMAIN originals)) \ {{}}) :
        /\ Len(originals) >= MinDedup /\ Accounted(groups, Len(originals))
        /\ \E head \in {h \in [groups -> DOMAIN originals] : \A g \in groups : h[g] \in g} :
             /\ comments' = ReplaceSince(batchStart, Deduped(originals, groups, head))
             /\ merged' = [p \in ScanItem |-> MergedOf(originals, groups, head, p)]
  BY DEF Dedup
<1>2. PICK head \in [groups -> DOMAIN originals] :
        /\ comments' = ReplaceSince(batchStart, Deduped(originals, groups, head))
        /\ merged' = [p \in ScanItem |-> MergedOf(originals, groups, head, p)]
  BY <1>1
<1> QED BY <1>1, <1>2 DEF Merges

(* What a merge does to the collector. *)
LEMMA MergeStep ==
  ASSUME ScanTypes, InBatch, NEW groups, NEW head, Merges(groups, head)
  PROVE  /\ comments' \in Seq(ScanComments) /\ batchStart <= Len(comments')
         /\ \A i \in 1 .. batchStart : comments'[i] = comments[i]
         /\ \A i \in (batchStart + 1) .. Len(comments') : \A p \in comments'[i].of :
              \E j \in DOMAIN Since(batchStart) : p \in Since(batchStart)[j].of
         /\ Output' = Output
         /\ Disjoint(comments) => Disjoint(comments')
<1>1. comments \in Seq(ScanComments) /\ batchStart \in 0 .. Len(comments)
  <2>1. comments \in Seq(ScanComments) /\ batchStart \in Nat /\ batchStart <= Len(comments)
    BY DEF ScanTypes, LoopTypes, FoundTypes
  <2>2. Len(comments) \in Nat
    BY <2>1, LenProperties
  <2> QED BY <2>1, <2>2
<1> DEFINE originals == Since(batchStart)
           t == comments'
           start == batchStart
           s == comments
<1>2. MergeOf(s, start, originals, groups, head, t)
  BY <1>1 DEF Merges, Since, ReplaceSince, MergeOf
<1> HIDE DEF originals, t, start, s
<1>3. /\ t \in Seq(ScanComments) /\ start <= Len(t)
      /\ \A i \in 1 .. start : t[i] = s[i]
      /\ \A i \in (start + 1) .. Len(t) : \A p \in t[i].of : \E j \in DOMAIN originals : p \in originals[j].of
      /\ OutputOf(t) = OutputOf(s)
      /\ Disjoint(s) => Disjoint(t)
  BY ONLY <1>2, MergesKeep
<1>4. Output' = OutputOf(t) /\ Output = OutputOf(s)
  BY DEF Output, OutputOf, t, s
<1> QED BY <1>3, <1>4 DEF originals, t, start, s

(* An added finding is last in the collector, and all else stays in its place. *)
LEMMA AddStep ==
  ASSUME ScanTypes, NEW p \in Pairs, comments' = Append(comments, Comment(p[2], {p}))
  PROVE  /\ comments' \in Seq(ScanComments) /\ Len(comments) \in Nat /\ Len(comments') = Len(comments) + 1
         /\ \A i \in 1 .. Len(comments) : comments'[i] = comments[i]
         /\ comments'[Len(comments) + 1].of = {p} /\ comments'[Len(comments) + 1].path = p[2]
         /\ Output' = Output \cup {p}
         /\ Disjoint(comments) /\ p \notin Output => Disjoint(comments')
<1> DEFINE c == Comment(p[2], {p})
           s == comments
           t == comments'
<1>1. c \in ScanComments /\ c.of = {p} /\ c.path = p[2]
  BY CommentOfOne
<1>2. s \in Seq(ScanComments) /\ t = Append(s, c) /\ Len(s) \in Nat
  <2>1. s \in Seq(ScanComments) /\ t = Append(s, c)
    BY DEF ScanTypes, LoopTypes, FoundTypes
  <2> QED BY <2>1, LenProperties
<1> HIDE DEF c, s, t
<1>3. /\ t \in Seq(ScanComments) /\ Len(t) = Len(s) + 1
      /\ \A i \in 1 .. Len(s) : t[i] = s[i]
      /\ t[Len(s) + 1] = c
      /\ OutputOf(t) = OutputOf(s) \cup c.of
      /\ Disjoint(s) /\ c.of \cap OutputOf(s) = {} => Disjoint(t)
  <2>1. Added(s, c, t)
    BY <1>1, <1>2 DEF Added
  <2> QED BY ONLY <2>1, AddedLast
<1>4. Output' = OutputOf(t) /\ Output = OutputOf(s)
  BY DEF Output, OutputOf, t, s
<1>5. p \notin Output => c.of \cap OutputOf(s) = {}
  BY <1>1, <1>4
<1> QED BY <1>1, <1>2, <1>3, <1>4, <1>5 DEF s, t

(* The comments of a file that is reused are one that stands for its findings. *)
LEMMA ReusedPair ==
  ASSUME ScanTypes, ReuseFile
  PROVE  /\ <<Current, Current>> \in Pairs /\ <<Current, Current>>[1] = Current /\ <<Current, Current>>[2] = Current
         /\ comments' = Append(comments, Comment(<<Current, Current>>[2], {<<Current, Current>>}))
<1>1. Current \in ScanItem
  BY CurrentFile DEF ReuseFile
<1> QED BY <1>1 DEF ReuseFile, Pairs

(* The loop is at a batch and at a file of it. *)
LEMMA LoopTypesKept ==
  ASSUME ScanTypes, [ScanNext]_scanVars
  PROVE  LoopTypes'
<1> USE DEF InBatch, Phases
<1>0. LoopTypes
  BY DEF ScanTypes
<1>1. CASE NextBatch
  <2>1. Len(Batches) \in Nat /\ DOMAIN Batches = 1 .. Len(Batches)
    BY ItemPlaces
  <2>2. CASE batch <= Len(Batches) /\ ~cancelled
    <3>1. phase' = "batch" /\ batch' = batch /\ next' = 1
      BY <1>1, <2>2 DEF NextBatch
    <3>2. batch \in 1 .. Len(Batches)
      <4>1. batch \in 1 .. (Len(Batches) + 1)
        BY <1>0 DEF LoopTypes
      <4>2. Len(Batches) \in Nat
        BY <2>1
      <4> QED BY ONLY <4>1, <4>2, <2>2
    <3> QED BY <1>0, <2>1, <3>1, <3>2 DEF LoopTypes
  <2>3. CASE ~(batch <= Len(Batches) /\ ~cancelled)
    <3>1. phase' = "ended" /\ batch' = batch /\ next' = next
      BY <1>1, <2>3 DEF NextBatch, Rollup, EndScan
    <3> QED BY <1>0, <3>1 DEF LoopTypes
  <2> QED BY <2>2, <2>3
<1>2. CASE ReuseFile
  BY <1>0, <1>2 DEF ReuseFile, LoopTypes
<1>3. CASE GateFile
  <2>1. next \in DOMAIN Batches[batch] /\ batch \in DOMAIN Batches
    BY <1>3, CurrentFile DEF GateFile
  <2> QED BY <1>0, <1>3, <2>1 DEF GateFile, LoopTypes
<1>4. CASE Launch
  BY <1>0, <1>4 DEF Launch, LoopTypes
<1>5. CASE LeaveBatch \/ EndBatch \/ Join \/ Dedup
  BY <1>0, <1>5 DEF LeaveBatch, EndBatch, Join, Dedup, LoopTypes
<1>6. CASE Record
  <2>1. batch \in DOMAIN Batches /\ Len(Batches) \in Nat /\ DOMAIN Batches = 1 .. Len(Batches)
    BY <1>0, <1>6, ItemPlaces DEF Record, LoopTypes
  <2>2. batch + 1 \in 1 .. (Len(Batches) + 1)
    BY <2>1
  <2>3. \/ phase' = "ended" /\ batch' = batch /\ next' = next
        \/ phase' = "loop" /\ batch' = batch + 1 /\ next' = next
    BY <1>6 DEF Record, Rollup, EndScan
  <2> QED BY <1>0, <2>2, <2>3 DEF LoopTypes
<1>7. CASE Land \/ Cancel
  BY <1>0, <1>7 DEF Land, Cancel, LoopTypes, loop
<1>8. ASSUME NEW f \in ScanItem, TaskSpends(f) \/ FinishFile(f) PROVE LoopTypes'
  BY <1>0, <1>8 DEF TaskSpends, FinishFile, LoopTypes, loop
<1>9. ASSUME NEW f \in ScanItem, NEW path \in ScanItem, FileFinding(f, path) PROVE LoopTypes'
  BY <1>0, <1>9 DEF FileFinding, LoopTypes, loop
<1>10. CASE UNCHANGED scanVars
  BY <1>0, <1>10 DEF LoopTypes, scanVars, loop
<1> QED BY <1>1, <1>2, <1>3, <1>4, <1>5, <1>6, <1>7, <1>8, <1>9, <1>10 DEF ScanNext, Loop, Stay

(* The comments are comments, and a batch starts within them. *)
LEMMA FoundTypesKept ==
  ASSUME ScanTypes, [ScanNext]_scanVars
  PROVE  FoundTypes'
<1> USE DEF InBatch
<1>0. FoundTypes
  BY DEF ScanTypes
<1>1. CASE NextBatch
  <2>1. Len(comments) \in Nat
    BY <1>0, LenProperties DEF FoundTypes
  <2>2. pool' = pool /\ comments' = comments
    BY <1>1 DEF NextBatch, found
  <2>3. \/ batchStart' = Len(comments)
        \/ phase' = "ended" /\ batchStart' = batchStart
    BY <1>1 DEF NextBatch, Rollup, EndScan
  <2> QED BY <1>0, <2>1, <2>2, <2>3 DEF FoundTypes
<1>2. CASE ReuseFile
  <2>1. comments' \in Seq(ScanComments) /\ Len(comments) \in Nat /\ Len(comments') = Len(comments) + 1
    BY <1>2, ReusedPair, AddStep
  <2>2. pool' = pool /\ batchStart' = batchStart /\ batchStart \in Nat /\ batchStart <= Len(comments)
    BY <1>0, <1>2 DEF ReuseFile, FoundTypes
  <2>3. batchStart <= Len(comments')
    BY ONLY <2>1, <2>2
  <2> QED BY <1>0, <2>1, <2>2, <2>3 DEF FoundTypes
<1>3. CASE GateFile \/ Launch \/ LeaveBatch \/ EndBatch \/ Join
  BY <1>0, <1>3 DEF GateFile, Launch, LeaveBatch, EndBatch, Join, FoundTypes, found
<1>4. CASE Dedup
  <2>1. InBatch
    BY <1>4 DEF Dedup
  <2>2. comments' \in Seq(ScanComments) /\ batchStart <= Len(comments')
    <3>1. CASE UNCHANGED <<comments, merged>>
      BY <1>0, <2>1, <3>1 DEF FoundTypes
    <3> QED BY <1>4, <2>1, <3>1, DedupMerges, MergeStep
  <2> QED BY <1>0, <1>4, <2>2 DEF Dedup, FoundTypes
<1>5. CASE Record
  BY <1>0, <1>5 DEF Record, FoundTypes, found, Rollup, EndScan
<1>6. CASE Land
  <2>1. PICK p \in pool : comments' = Append(comments, Comment(p[2], {p})) /\ pool' = pool \ {p}
    BY <1>6 DEF Land
  <2>2. p \in Pairs
    BY <1>0, <2>1 DEF FoundTypes
  <2>3. comments' \in Seq(ScanComments) /\ Len(comments) \in Nat /\ Len(comments') = Len(comments) + 1
    BY <2>1, <2>2, AddStep
  <2>4. batchStart' = batchStart /\ phase' = phase /\ batchStart \in Nat /\ (InBatch => batchStart <= Len(comments))
    BY <1>0, <1>6 DEF Land, loop, FoundTypes
  <2>5. InBatch => batchStart <= Len(comments')
    BY ONLY <2>3, <2>4
  <2> QED BY <1>0, <2>1, <2>3, <2>4, <2>5 DEF FoundTypes
<1>7. CASE Cancel
  BY <1>0, <1>7 DEF Cancel, FoundTypes, loop, found
<1>8. ASSUME NEW f \in ScanItem, TaskSpends(f) \/ FinishFile(f) PROVE FoundTypes'
  BY <1>0, <1>8 DEF TaskSpends, FinishFile, FoundTypes, loop, found
<1>9. ASSUME NEW f \in ScanItem, NEW path \in ScanItem, FileFinding(f, path) PROVE FoundTypes'
  BY <1>0, <1>9 DEF FileFinding, FoundTypes, loop, Pairs
<1>10. CASE UNCHANGED scanVars
  BY <1>0, <1>10 DEF FoundTypes, scanVars, loop, found
<1> QED BY <1>1, <1>2, <1>3, <1>4, <1>5, <1>6, <1>7, <1>8, <1>9, <1>10 DEF ScanNext, Loop, Stay

(* A step keeps the types. *)
LEMMA TypesKept ==
  ASSUME ScanTypes, [ScanNext]_scanVars
  PROVE  ScanTypes'
<1>0. TaskTypes
  BY DEF ScanTypes
<1> SUFFICES TaskTypes'
  BY LoopTypesKept, FoundTypesKept DEF ScanTypes
<1>1. CASE NextBatch
  BY <1>0, <1>1 DEF NextBatch, Rollup, EndScan, TaskTypes, limits, workers
<1>2. CASE ReuseFile
  <2>1. Current \in ScanItem
    BY <1>2, CurrentFile DEF ReuseFile
  <2>2. state' \in [ScanItem -> States]
    BY <1>0, <1>2, <2>1 DEF ReuseFile, TaskTypes, States
  <2>3. batchDone' \in SUBSET ScanItem
    BY <1>0, <1>2, <2>1 DEF ReuseFile, TaskTypes
  <2>4. UNCHANGED <<budgetHit, interrupted, budgetExceeded, cancelled, dispatched, failed, result>>
    BY <1>2 DEF ReuseFile, limits, ends
  <2>5. /\ budgetHit' \in BOOLEAN /\ interrupted' \in BOOLEAN /\ budgetExceeded' \in BOOLEAN
        /\ cancelled' \in BOOLEAN /\ dispatched' \in Nat /\ failed' \in Nat
        /\ result' \in {"none", "ok", "cancelled", "all failed"}
    BY <1>0, <2>4 DEF TaskTypes
  <2> QED BY <2>2, <2>3, <2>5 DEF TaskTypes
<1>3. CASE GateFile
  BY <1>0, <1>3 DEF GateFile, TaskTypes, workers, ends
<1>4. CASE Launch
  <2>1. Current \in ScanItem
    BY <1>4, CurrentFile DEF Launch
  <2>2. state' \in [ScanItem -> States]
    BY <1>0, <1>4, <2>1 DEF Launch, TaskTypes, States
  <2>3. dispatched' \in Nat
    <3>1. dispatched \in Nat /\ dispatched' = dispatched + 1
      BY <1>0, <1>4 DEF Launch, TaskTypes
    <3> QED BY ONLY <3>1
  <2>4. UNCHANGED <<batchDone, budgetHit, interrupted, budgetExceeded, cancelled, failed, result>>
    BY <1>4 DEF Launch, limits, ends
  <2> QED BY <1>0, <2>2, <2>3, <2>4 DEF TaskTypes
<1>5. CASE LeaveBatch \/ EndBatch \/ Join \/ Dedup
  BY <1>0, <1>5 DEF LeaveBatch, EndBatch, Join, Dedup, TaskTypes, limits, workers, ends
<1>6. CASE Record
  BY <1>0, <1>6 DEF Record, Rollup, EndScan, TaskTypes, limits, workers
<1>7. CASE Land \/ Cancel
  BY <1>0, <1>7 DEF Land, Cancel, TaskTypes, loop, limits, workers, ends
<1>8. ASSUME NEW f \in ScanItem, TaskSpends(f) PROVE TaskTypes'
  BY <1>0, <1>8 DEF TaskSpends, TaskTypes, loop, limits, ends
<1>9. ASSUME NEW f \in ScanItem, FinishFile(f) PROVE TaskTypes'
  <2>1. PICK outcome \in {"done", "failed", "stopped"} :
          /\ state' = [state EXCEPT ![f] = outcome]
          /\ batchDone' \in {batchDone, batchDone \cup {f}} /\ failed' \in {failed, failed + 1}
          /\ budgetExceeded' \in {budgetExceeded, TRUE}
    BY <1>9 DEF FinishFile
  <2>2. state' \in [ScanItem -> States]
    BY <1>0, <2>1 DEF TaskTypes, States
  <2>3. batchDone' \in SUBSET ScanItem
    BY <1>0, <2>1 DEF TaskTypes
  <2>4. failed' \in Nat
    <3>1. failed \in Nat /\ (failed' = failed \/ failed' = failed + 1)
      BY <1>0, <2>1 DEF TaskTypes
    <3> QED BY ONLY <3>1
  <2>5. budgetExceeded' \in BOOLEAN
    <3>1. budgetExceeded \in BOOLEAN
      BY <1>0 DEF TaskTypes
    <3>2. budgetExceeded' = budgetExceeded \/ budgetExceeded' = TRUE
      BY <2>1
    <3> QED BY <3>1, <3>2
  <2>6. UNCHANGED <<budgetHit, interrupted, cancelled, dispatched, result>>
    BY <1>9 DEF FinishFile, ends
  <2> QED BY <1>0, <2>2, <2>3, <2>4, <2>5, <2>6 DEF TaskTypes
<1>10. ASSUME NEW f \in ScanItem, NEW path \in ScanItem, FileFinding(f, path) PROVE TaskTypes'
  BY <1>0, <1>10 DEF FileFinding, TaskTypes, loop, limits, workers, ends
<1>11. CASE UNCHANGED scanVars
  BY <1>0, <1>11 DEF TaskTypes, scanVars, loop, limits, workers, ends
<1> QED BY <1>1, <1>2, <1>3, <1>4, <1>5, <1>6, <1>7, <1>8, <1>9, <1>10, <1>11 DEF ScanNext, Loop, Stay

(* A step of the loop passes the file it starts, and no other. *)
LEMMA StartedKept ==
  ASSUME ScanInv, [ScanNext]_scanVars
  PROVE  LoopStarted'
<1>0. ScanTypes /\ LoopTypes /\ TaskTypes /\ LoopStarted /\ Waited
  BY DEF ScanInv, ScanTypes, Progress
<1> SUFFICES ASSUME phase' # "ended", NEW b \in DOMAIN Batches, NEW i \in DOMAIN Batches[b]
             PROVE  state'[Batches[b][i]] = "waiting" <=> ~Passed(b, i)'
  BY DEF LoopStarted
<1> DEFINE file == Batches[b][i]
<1>1. b \in Nat /\ i \in Nat /\ 1 <= i /\ file \in ScanItem /\ i <= Len(Batches[b]) /\ Len(Batches[b]) \in Nat
  <2>1. DOMAIN Batches = 1 .. Len(Batches) /\ Len(Batches) \in Nat
    BY ItemPlaces
  <2>2. DOMAIN Batches[b] = 1 .. Len(Batches[b]) /\ Len(Batches[b]) \in Nat
    BY ItemPlaces
  <2>3. file \in ScanItem
    BY ItemPlaces
  <2>4. b \in 1 .. Len(Batches) /\ i \in 1 .. Len(Batches[b])
    BY <2>1, <2>2
  <2> HIDE DEF file
  <2> QED BY ONLY <2>1, <2>2, <2>3, <2>4
<1>2. batch \in Nat /\ next \in Nat
  <2>1. batch \in 1 .. (Len(Batches) + 1) /\ next \in Nat \ {0}
    BY <1>0 DEF LoopTypes
  <2> QED BY ONLY <2>1
<1>3. phase # "ended" => (state[file] = "waiting" <=> ~Passed(b, i))
  BY <1>0 DEF LoopStarted
<1> HIDE DEF file
<1>4. CASE NextBatch
  <2>1. phase = "loop" /\ phase' = "batch" /\ batch' = batch /\ next' = 1 /\ state' = state
    BY <1>4 DEF NextBatch, Rollup, EndScan, workers
  <2>2. Passed(b, i)' <=> Passed(b, i)
    BY <1>1, <1>2, <2>1 DEF Passed, InBatch
  <2> QED BY <1>3, <2>1, <2>2 DEF file
<1>5. ASSUME ReuseFile \/ Launch PROVE state'[file] = "waiting" <=> ~Passed(b, i)'
  <2>1. /\ InBatch /\ phase # "ended" /\ phase' = "batch" /\ batch' = batch /\ next' = next + 1
        /\ state' = [state EXCEPT ![Current] = "reused"] \/ state' = [state EXCEPT ![Current] = "running"]
    BY <1>5 DEF ReuseFile, Launch, InBatch
  <2>2. file = Current <=> b = batch /\ i = next
    BY <1>0, <1>5, CurrentFile DEF ReuseFile, Launch, file, Current
  <2>3. state \in [ScanItem -> States]
    BY <1>0 DEF TaskTypes
  <2>4. CASE file = Current
    <3>1. state'[file] # "waiting"
      BY <1>1, <2>1, <2>3, <2>4
    <3>2. Passed(b, i)'
      BY <1>2, <2>1, <2>2, <2>4 DEF Passed, InBatch
    <3> QED BY <3>1, <3>2
  <2>5. CASE file # Current
    <3>1. state'[file] = state[file]
      BY <1>1, <2>1, <2>3, <2>5
    <3>2. Passed(b, i)' <=> Passed(b, i)
      BY <1>1, <1>2, <2>1, <2>2, <2>5 DEF Passed, InBatch
    <3> QED BY <1>3, <2>1, <3>1, <3>2
  <2> QED BY <2>4, <2>5
<1>6. CASE GateFile \/ LeaveBatch \/ EndBatch \/ Join \/ Dedup
  <2>1. InBatch /\ InBatch' /\ phase # "ended" /\ batch' = batch /\ next' = next /\ state' = state
    BY <1>6 DEF GateFile, LeaveBatch, EndBatch, Join, Dedup, InBatch, workers
  <2>2. Passed(b, i)' <=> Passed(b, i)
    BY <2>1 DEF Passed
  <2> QED BY <1>3, <2>1, <2>2 DEF file
<1>7. CASE Record
  <2>1. phase = "record" /\ phase' = "loop" /\ batch' = batch + 1 /\ state' = state /\ ~interrupted /\ ~budgetHit
    BY <1>7 DEF Record, Rollup, EndScan, workers
  <2>2. next > Len(Batches[batch])
    BY <1>0, <2>1 DEF Waited
  <2>3. b = batch => i < next
    BY <1>1, <1>2, <2>2
  <2>4. Passed(b, i)' <=> Passed(b, i)
    BY <1>1, <1>2, <2>1, <2>3 DEF Passed, InBatch
  <2> QED BY <1>3, <2>1, <2>4 DEF file
<1>8. ASSUME UNCHANGED <<phase, batch, next>>, state'[file] = "waiting" <=> state[file] = "waiting"
      PROVE  state'[file] = "waiting" <=> ~Passed(b, i)'
  <2>1. Passed(b, i)' <=> Passed(b, i)
    BY <1>8 DEF Passed, InBatch
  <2> QED BY <1>3, <1>8, <2>1
<1>9. CASE Land \/ Cancel
  BY <1>8, <1>9 DEF Land, Cancel, loop, workers, file
<1>10. ASSUME NEW f \in ScanItem, TaskSpends(f) PROVE state'[file] = "waiting" <=> ~Passed(b, i)'
  BY <1>8, <1>10 DEF TaskSpends, loop
<1>11. ASSUME NEW f \in ScanItem, FinishFile(f) PROVE state'[file] = "waiting" <=> ~Passed(b, i)'
  <2>1. PICK outcome \in {"done", "failed", "stopped"} : state[f] = "running" /\ state' = [state EXCEPT ![f] = outcome]
    BY <1>11 DEF FinishFile
  <2>2. state \in [ScanItem -> States]
    BY <1>0 DEF TaskTypes
  <2>3. state'[file] = "waiting" <=> state[file] = "waiting"
    BY <1>1, <2>1, <2>2
  <2> QED BY <1>8, <1>11, <2>3 DEF FinishFile
<1>12. ASSUME NEW f \in ScanItem, NEW path \in ScanItem, FileFinding(f, path) PROVE state'[file] = "waiting" <=> ~Passed(b, i)'
  BY <1>8, <1>12 DEF FileFinding, loop, workers
<1>13. CASE UNCHANGED scanVars
  BY <1>8, <1>13 DEF scanVars, loop, workers, file
<1> QED BY <1>4, <1>5, <1>6, <1>7, <1>9, <1>10, <1>11, <1>12, <1>13 DEF ScanNext, Loop, Stay, file

(* A task that runs is one of the current batch, which waits for it. *)
LEMMA RunsHereKept ==
  ASSUME ScanInv, [ScanNext]_scanVars
  PROVE  RunsHere'
<1>0. ScanTypes /\ RunsHere /\ state \in [ScanItem -> States]
  BY DEF ScanInv, ScanTypes, TaskTypes, Progress
<1> SUFFICES ASSUME NEW g \in ScanItem, state'[g] = "running"
             PROVE  phase' \in {"batch", "acquire", "join"} /\ g \in Members(batch')
  BY DEF RunsHere, Members
<1>1. state[g] = "running" => phase \in {"batch", "acquire", "join"} /\ g \in Members(batch)
  BY <1>0 DEF RunsHere
<1>2. CASE NextBatch \/ Dedup \/ Record
  BY <1>1, <1>2 DEF NextBatch, Dedup, Record, workers
<1>3. CASE ReuseFile
  <2>1. Current \in ScanItem
    BY <1>0, <1>3, CurrentFile DEF ReuseFile
  <2> QED BY <1>0, <1>1, <1>3, <2>1 DEF ReuseFile
<1>4. CASE Launch
  <2>1. Current \in ScanItem /\ Current \in Members(batch)
    BY <1>0, <1>4, CurrentFile DEF Launch
  <2> QED BY <1>0, <1>1, <1>4, <2>1 DEF Launch
<1>5. CASE GateFile \/ LeaveBatch \/ EndBatch
  BY <1>1, <1>5 DEF GateFile, LeaveBatch, EndBatch, workers
<1>6. CASE Join
  BY <1>1, <1>6 DEF Join, Running, workers
<1>7. CASE Land \/ Cancel
  BY <1>1, <1>7 DEF Land, Cancel, loop, workers
<1>8. ASSUME NEW f \in ScanItem, TaskSpends(f) PROVE phase' \in {"batch", "acquire", "join"} /\ g \in Members(batch')
  BY <1>1, <1>8 DEF TaskSpends, loop
<1>9. ASSUME NEW f \in ScanItem, FinishFile(f) PROVE phase' \in {"batch", "acquire", "join"} /\ g \in Members(batch')
  BY <1>0, <1>1, <1>9 DEF FinishFile
<1>10. ASSUME NEW f \in ScanItem, NEW path \in ScanItem, FileFinding(f, path)
       PROVE  phase' \in {"batch", "acquire", "join"} /\ g \in Members(batch')
  BY <1>1, <1>10 DEF FileFinding, loop, workers
<1>11. CASE UNCHANGED scanVars
  BY <1>1, <1>11 DEF scanVars, loop, workers
<1> QED BY <1>2, <1>3, <1>4, <1>5, <1>6, <1>7, <1>8, <1>9, <1>10, <1>11 DEF ScanNext, Loop, Stay

(* The batch's checkpoints are those of its files that are completed or reused. *)
LEMMA DoneHereKept ==
  ASSUME ScanInv, [ScanNext]_scanVars
  PROVE  DoneHere'
<1>0. ScanTypes /\ LoopStarted /\ RunsHere /\ DoneHere /\ state \in [ScanItem -> States]
  BY DEF ScanInv, ScanTypes, TaskTypes, Progress
<1> DEFINE Over(s, f) == s[f] \in {"done", "reused"}
           Same == batchDone' = {f \in Members(batch) : Over(state', f)}
<1> SUFFICES ASSUME InBatch' PROVE batch' \in DOMAIN Batches /\ batchDone' = {f \in Members(batch') : Over(state', f)}
  BY DEF DoneHere, Members
<1>1. batch' \in DOMAIN Batches
  BY <1>0, LoopTypesKept DEF LoopTypes
<1>2. InBatch => batchDone = {f \in Members(batch) : Over(state, f)}
  BY <1>0 DEF DoneHere
<1>3. ASSUME NEW f, f \in Members(batch'), state' = state, phase = "loop", batch' = batch PROVE ~Over(state, f)
  <2>1. PICK i \in DOMAIN Batches[batch] : f = Batches[batch][i]
    BY <1>1, <1>3, ItemPlaces
  <2>2. batch \in DOMAIN Batches /\ ~Passed(batch, i)
    <3>1. batch \in Nat
      BY <1>1, <1>3, ItemPlaces
    <3> QED BY <1>1, <1>3, <3>1 DEF Passed, InBatch
  <2> QED BY <1>0, <1>3, <2>1, <2>2 DEF LoopStarted
<1>4. CASE NextBatch
  <2>1. phase = "loop" /\ batch' = batch /\ state' = state /\ batchDone' = {}
    BY <1>4 DEF NextBatch, Rollup, EndScan, workers, InBatch
  <2> QED BY <1>1, <1>3, <2>1
<1>5. CASE ReuseFile
  <2>1. Current \in ScanItem /\ Current \in Members(batch)
    BY <1>0, <1>5, CurrentFile DEF ReuseFile
  <2>2. \A f \in Members(batch) : f \in ScanItem
    BY <1>1, <1>5, ItemPlaces DEF ReuseFile
  <2>3. InBatch /\ batch' = batch /\ state' = [state EXCEPT ![Current] = "reused"] /\ batchDone' = batchDone \cup {Current}
    BY <1>5 DEF ReuseFile, InBatch
  <2>4. \A f \in Members(batch) : Over(state', f) <=> Over(state, f) \/ f = Current
    BY <1>0, <2>1, <2>2, <2>3
  <2> QED BY <1>1, <1>2, <2>1, <2>3, <2>4
<1>6. CASE Launch
  <2>1. Current \in ScanItem /\ batch \in DOMAIN Batches /\ next \in DOMAIN Batches[batch]
    BY <1>0, <1>6, CurrentFile DEF Launch
  <2>2. ~Over(state, Current)
    <3>1. batch \in Nat /\ next \in Nat
      <4>1. batch \in 1 .. (Len(Batches) + 1) /\ next \in Nat \ {0}
        BY <1>0 DEF ScanTypes, LoopTypes
      <4> QED BY ONLY <4>1
    <3>2. ~Passed(batch, next)
      BY <3>1 DEF Passed
    <3> QED BY <1>0, <1>6, <2>1, <3>2 DEF Launch, LoopStarted, Current
  <2>3. \A f \in Members(batch) : f \in ScanItem
    BY <2>1, ItemPlaces
  <2>4. InBatch /\ batch' = batch /\ state' = [state EXCEPT ![Current] = "running"] /\ batchDone' = batchDone
    BY <1>6 DEF Launch, InBatch
  <2>5. \A f \in Members(batch) : Over(state', f) <=> Over(state, f)
    BY <1>0, <2>1, <2>2, <2>3, <2>4
  <2> QED BY <1>1, <1>2, <2>4, <2>5
<1>7. CASE GateFile \/ LeaveBatch \/ EndBatch \/ Join \/ Dedup
  BY <1>1, <1>2, <1>7 DEF GateFile, LeaveBatch, EndBatch, Join, Dedup, InBatch, workers
<1>8. CASE Record
  BY <1>8 DEF Record, Rollup, EndScan, InBatch
<1>9. CASE Land \/ Cancel
  BY <1>1, <1>2, <1>9 DEF Land, Cancel, InBatch, loop, workers
<1>10. ASSUME NEW f \in ScanItem, TaskSpends(f) PROVE batchDone' = {g \in Members(batch') : Over(state', g)}
  BY <1>2, <1>10 DEF TaskSpends, InBatch, loop
<1>11. ASSUME NEW f \in ScanItem, FinishFile(f) PROVE batchDone' = {g \in Members(batch') : Over(state', g)}
  <2>1. PICK outcome \in {"done", "failed", "stopped"} :
          /\ state' = [state EXCEPT ![f] = outcome]
          /\ batchDone' = IF outcome = "done" THEN batchDone \cup {f} ELSE batchDone
    BY <1>11 DEF FinishFile
  <2>2. state[f] = "running" /\ batch' = batch /\ phase' = phase /\ InBatch
    BY <1>11 DEF FinishFile, InBatch
  <2>3. f \in Members(batch)
    BY <1>0, <2>2 DEF RunsHere
  <2>4. \A g \in Members(batch) : g \in ScanItem
    BY <1>1, <2>2, ItemPlaces
  <2>5. \A g \in Members(batch) : Over(state', g) <=> Over(state, g) \/ (g = f /\ outcome = "done")
    BY <1>0, <2>1, <2>2, <2>4
  <2> QED BY <1>2, <2>1, <2>2, <2>3, <2>5
<1>12. ASSUME NEW f \in ScanItem, NEW path \in ScanItem, FileFinding(f, path)
       PROVE  batchDone' = {g \in Members(batch') : Over(state', g)}
  BY <1>2, <1>12 DEF FileFinding, InBatch, loop, workers
<1>13. CASE UNCHANGED scanVars
  BY <1>1, <1>2, <1>13 DEF scanVars, InBatch, loop, workers
<1> QED BY <1>1, <1>4, <1>5, <1>6, <1>7, <1>8, <1>9, <1>10, <1>11, <1>12, <1>13 DEF ScanNext, Loop, Stay

(* What the loop waited for stays so, and so does what cut it short. *)
LEMMA WaitedKept ==
  ASSUME ScanInv, [ScanNext]_scanVars
  PROVE  Waited'
<1>0. ScanTypes /\ Waited /\ RunsHere
  BY DEF ScanInv, Progress
<1>1. CASE NextBatch
  BY <1>0, <1>1 DEF NextBatch, Rollup, EndScan, Waited, InBatch, limits, found
<1>2. CASE ReuseFile
  BY <1>0, <1>2 DEF ReuseFile, Waited, InBatch, limits, ends
<1>3. CASE GateFile
  BY <1>0, <1>3 DEF GateFile, Waited, InBatch, found, ends
<1>4. CASE Launch
  BY <1>0, <1>4 DEF Launch, Waited, InBatch, limits, found, ends
<1>5. CASE LeaveBatch
  BY <1>0, <1>5 DEF LeaveBatch, Waited, InBatch, found, ends
<1>6. CASE EndBatch
  BY <1>0, <1>6 DEF EndBatch, Waited, InBatch, limits, found, ends
<1>7. CASE Join
  BY <1>0, <1>7 DEF Join, Drained, Waited, InBatch, limits, found, ends
<1>8. CASE Dedup
  BY <1>0, <1>8 DEF Dedup, Waited, InBatch, limits, ends
<1>9. CASE Record
  BY <1>0, <1>9 DEF Record, Rollup, EndScan, Waited, InBatch, limits, found
<1>10. CASE Land
  <2>1. pool # {} /\ pool' \subseteq pool
    BY <1>10 DEF Land
  <2> QED BY <1>0, <1>10, <2>1 DEF Land, Waited, InBatch, loop, limits, ends
<1>11. CASE Cancel
  BY <1>0, <1>11 DEF Cancel, Waited, InBatch, loop, limits, found
<1>12. ASSUME NEW f \in ScanItem, TaskSpends(f) PROVE Waited'
  BY <1>0, <1>12 DEF TaskSpends, Waited, InBatch, loop, limits, found, ends
<1>13. ASSUME NEW f \in ScanItem, FinishFile(f) PROVE Waited'
  <2>1. phase \in {"batch", "acquire", "join"}
    BY <1>0, <1>13 DEF FinishFile, RunsHere
  <2>2. budgetExceeded => budgetExceeded'
    BY <1>13 DEF FinishFile
  <2> QED BY <1>0, <1>13, <2>1, <2>2 DEF FinishFile, Waited, InBatch, found, ends
<1>14. ASSUME NEW f \in ScanItem, NEW path \in ScanItem, FileFinding(f, path) PROVE Waited'
  <2>1. phase \in {"batch", "acquire", "join"}
    BY <1>0, <1>14 DEF FileFinding, RunsHere
  <2> QED BY <1>0, <1>14, <2>1 DEF FileFinding, Waited, InBatch, loop, limits, ends
<1>15. CASE UNCHANGED scanVars
  BY <1>0, <1>15 DEF scanVars, Waited, InBatch, loop, limits, found, ends
<1> QED BY <1>1, <1>2, <1>3, <1>4, <1>5, <1>6, <1>7, <1>8, <1>9, <1>10, <1>11, <1>12, <1>13, <1>14, <1>15
        DEF ScanNext, Loop, Stay

(* Findings are pairs of files. *)
LEMMA OutputPairs ==
  ASSUME ScanTypes
  PROVE  /\ \A p \in Output : p \in Pairs /\ p[1] \in ScanItem /\ p[2] \in ScanItem
         /\ \A p \in pool : p \in Pairs /\ p[1] \in ScanItem /\ p[2] \in ScanItem /\ p = <<p[1], p[2]>>
<1>1. \A p \in Pairs : p[1] \in ScanItem /\ p[2] \in ScanItem /\ p = <<p[1], p[2]>>
  BY DEF Pairs
<1>2. comments \in Seq(ScanComments) /\ pool \in SUBSET Pairs
  BY DEF ScanTypes, FoundTypes
<1>3. \A i \in DOMAIN comments : comments[i] \in ScanComments
  BY <1>2, LenProperties
<1>4. \A i \in DOMAIN comments : comments[i].of \in SUBSET Pairs
  BY <1>3 DEF ScanComments
<1> QED BY <1>1, <1>2, <1>4 DEF Output

(* A file that was started stays so. *)
LEMMA StaysStarted ==
  ASSUME ScanTypes, [ScanNext]_scanVars, NEW g \in ScanItem, state[g] # "waiting"
  PROVE  state'[g] # "waiting"
<1>0. state \in [ScanItem -> States]
  BY DEF ScanTypes, TaskTypes
<1>1. CASE ReuseFile \/ Launch
  BY <1>0, <1>1 DEF ReuseFile, Launch
<1>2. CASE NextBatch \/ GateFile \/ LeaveBatch \/ EndBatch \/ Join \/ Dedup \/ Record \/ Land \/ Cancel
  BY <1>2 DEF NextBatch, GateFile, LeaveBatch, EndBatch, Join, Dedup, Record, Land, Cancel, workers
<1>3. ASSUME NEW f \in ScanItem, FinishFile(f) PROVE state'[g] # "waiting"
  BY <1>0, <1>3 DEF FinishFile
<1>4. ASSUME NEW f \in ScanItem, TaskSpends(f) \/ \E path \in ScanItem : FileFinding(f, path) PROVE state'[g] # "waiting"
  BY <1>4 DEF TaskSpends, FileFinding, workers
<1>5. CASE UNCHANGED scanVars
  BY <1>5 DEF scanVars, workers
<1> QED BY <1>1, <1>2, <1>3, <1>4, <1>5 DEF ScanNext, Loop, Stay

(* A finding is in one place only, whatever the order of filing, landing and merging. *)
LEMMA SingleKept ==
  ASSUME ScanInv, [ScanNext]_scanVars
  PROVE  Single'
<1>0. ScanTypes /\ Waited /\ Single /\ RunsHere /\ LoopStarted
  BY DEF ScanInv, Progress
<1>1. /\ \A p \in pool : p \notin Output /\ state[p[1]] # "waiting" /\ (phase # "ended" => p[1] \in Members(batch))
      /\ \A p \in Output : state[p[1]] # "waiting"
      /\ Disjoint(comments)
  BY <1>0 DEF Single
<1>2. /\ \A p \in pool : state'[p[1]] # "waiting"
      /\ \A p \in Output : state'[p[1]] # "waiting"
  BY <1>0, <1>1, OutputPairs, StaysStarted
<1> SUFFICES /\ \A p \in pool' : p \notin Output' /\ state'[p[1]] # "waiting" /\ (phase' # "ended" => p[1] \in Members(batch'))
             /\ \A p \in Output' : state'[p[1]] # "waiting"
             /\ Disjoint(comments')
  BY DEF Single, Members, Disjoint
<1> DEFINE Held == /\ \A p \in pool' : p \notin Output' /\ state'[p[1]] # "waiting" /\ (phase' # "ended" => p[1] \in Members(batch'))
                   /\ \A p \in Output' : state'[p[1]] # "waiting"
                   /\ Disjoint(comments')
<1>3. ASSUME pool' \subseteq pool, Output' = Output, Disjoint(comments'),
             pool' = {} \/ phase' = "ended" \/ (batch' = batch /\ phase # "ended")
      PROVE  Held
  BY <1>1, <1>2, <1>3
<1>4. ASSUME comments' = comments PROVE Output' = Output /\ Disjoint(comments')
  BY <1>1, <1>4 DEF Output
<1>5. CASE NextBatch
  BY <1>0, <1>3, <1>4, <1>5 DEF NextBatch, Rollup, EndScan, found, Waited
<1>6. CASE ReuseFile
  <2> DEFINE p == <<Current, Current>>
  <2>1. Current \in ScanItem /\ Current \in Members(batch) /\ batch \in DOMAIN Batches /\ next \in DOMAIN Batches[batch]
    BY <1>0, <1>6, CurrentFile DEF ReuseFile
  <2>2. state[Current] = "waiting" /\ state'[Current] # "waiting"
    <3>1. batch \in Nat /\ next \in Nat
      <4>1. batch \in 1 .. (Len(Batches) + 1) /\ next \in Nat \ {0}
        BY <1>0 DEF ScanTypes, LoopTypes
      <4> QED BY ONLY <4>1
    <3>2. ~Passed(batch, next)
      BY <3>1 DEF Passed
    <3>3. state[Current] = "waiting"
      BY <1>0, <1>6, <2>1, <3>2 DEF ReuseFile, LoopStarted, Current
    <3>4. state'[Current] = "reused"
      BY <1>0, <1>6, <2>1 DEF ReuseFile, ScanTypes, TaskTypes
    <3> QED BY <3>3, <3>4
  <2>3. p \in Pairs /\ p[1] = Current /\ p[2] = Current /\ comments' = Append(comments, Comment(p[2], {p}))
    BY <1>0, <1>6, ReusedPair
  <2> HIDE DEF p
  <2>4. p \notin Output /\ p \notin pool
    BY <1>1, <2>2, <2>3
  <2>5. Output' = Output \cup {p} /\ Disjoint(comments')
    BY <1>0, <1>1, <2>3, <2>4, AddStep
  <2>6. pool' = pool /\ batch' = batch /\ phase' = phase
    BY <1>6 DEF ReuseFile
  <2> QED BY <1>1, <1>2, <2>2, <2>3, <2>4, <2>5, <2>6
<1>7. CASE GateFile \/ Launch \/ LeaveBatch \/ EndBatch \/ Join
  BY <1>3, <1>4, <1>7 DEF GateFile, Launch, LeaveBatch, EndBatch, Join, found
<1>8. CASE Dedup
  <2>1. Output' = Output /\ Disjoint(comments')
    <3>1. InBatch
      BY <1>8 DEF Dedup, InBatch
    <3>2. CASE UNCHANGED <<comments, merged>>
      BY <1>4, <3>2
    <3> QED BY <1>0, <1>1, <1>8, <3>1, <3>2, DedupMerges, MergeStep
  <2> QED BY <1>3, <1>8, <2>1 DEF Dedup
<1>9. CASE Record
  BY <1>0, <1>3, <1>4, <1>9 DEF Record, Rollup, EndScan, found, Waited
<1>10. CASE Land
  <2>1. PICK p \in pool : comments' = Append(comments, Comment(p[2], {p})) /\ pool' = pool \ {p}
    BY <1>10 DEF Land
  <2>2. p \in Pairs /\ p \notin Output
    BY <1>0, <1>1, <2>1, OutputPairs
  <2>3. Output' = Output \cup {p} /\ Disjoint(comments')
    BY <1>0, <1>1, <2>1, <2>2, AddStep
  <2>4. batch' = batch /\ phase' = phase
    BY <1>10 DEF Land, loop
  <2> QED BY <1>1, <1>2, <2>1, <2>3, <2>4
<1>11. CASE Cancel
  BY <1>3, <1>4, <1>11 DEF Cancel, loop, found
<1>12. ASSUME NEW f \in ScanItem, TaskSpends(f) \/ FinishFile(f) PROVE Held
  <2>1. phase # "ended"
    BY <1>0, <1>12 DEF TaskSpends, FinishFile, RunsHere
  <2> QED BY <1>3, <1>4, <1>12, <2>1 DEF TaskSpends, FinishFile, loop, found
<1>13. ASSUME NEW f \in ScanItem, NEW path \in ScanItem, FileFinding(f, path) PROVE Held
  <2>1. f \in Members(batch) /\ state[f] = "running"
    BY <1>0, <1>13 DEF FileFinding, RunsHere
  <2>2. <<f, path>> \notin Output /\ pool' = pool \cup {<<f, path>>}
    BY <1>13 DEF FileFinding, Filed
  <2>3. UNCHANGED <<comments, batch, phase, state>>
    BY <1>13 DEF FileFinding, loop, workers
  <2> QED BY <1>1, <1>2, <1>4, <2>1, <2>2, <2>3
<1>14. CASE UNCHANGED scanVars
  <2>1. UNCHANGED <<comments, batch, phase, pool>>
    BY <1>14 DEF scanVars, loop, found
  <2> QED BY <1>1, <1>2, <1>4, <2>1
<1> QED BY <1>5, <1>6, <1>7, <1>8, <1>9, <1>10, <1>11, <1>12, <1>13, <1>14 DEF ScanNext, Loop, Stay

(* The comments behind the start of a batch, place by place. *)
LEMMA SincePlaces ==
  ASSUME ScanTypes, InBatch
  PROVE  /\ \A j \in DOMAIN Since(batchStart) :
              /\ Since(batchStart)[j] \in ScanComments
              /\ batchStart + j \in (batchStart + 1) .. Len(comments) /\ Since(batchStart)[j] = comments[batchStart + j]
         /\ \A i \in (batchStart + 1) .. Len(comments) :
              i - batchStart \in DOMAIN Since(batchStart) /\ Since(batchStart)[i - batchStart] = comments[i]
         /\ Len(Since(batchStart)) \in Nat /\ DOMAIN Since(batchStart) = 1 .. Len(Since(batchStart))
<1> DEFINE s == comments
           start == batchStart
           originals == Since(batchStart)
<1>1. s \in Seq(ScanComments) /\ start \in Nat /\ start <= Len(s)
  BY DEF ScanTypes, FoundTypes
<1>2. originals = SubSeq(s, start + 1, Len(s))
  BY DEF Since
<1> HIDE DEF s, start, originals
<1>3. Len(s) \in Nat
  BY <1>1, LenProperties
<1>4. start \in 0 .. Len(s)
  BY ONLY <1>1, <1>3
<1>5. /\ originals \in Seq(ScanComments) /\ Len(originals) = Len(s) - start
      /\ (\A i : i \in DOMAIN originals <=> i \in 1 .. (Len(s) - start))
      /\ \A j \in DOMAIN originals : start + j \in DOMAIN s /\ originals[j] = s[start + j] /\ originals[j] \in ScanComments
      /\ \A i \in (start + 1) .. Len(s) : i - start \in DOMAIN originals /\ originals[i - start] = s[i]
  BY ONLY <1>1, <1>2, <1>4, BehindStart
<1>6. \A j \in 1 .. (Len(s) - start) : start + j \in (start + 1) .. Len(s)
  BY ONLY <1>1, <1>3
<1>7. Len(originals) \in Nat /\ DOMAIN originals = 1 .. Len(originals)
  BY ONLY <1>5, LenProperties
<1> QED BY <1>5, <1>6, <1>7 DEF s, start, originals

(* What is behind the start of the batch came from the batch, as filed or as merged. *)
LEMMA FreshKept ==
  ASSUME ScanInv, [ScanNext]_scanVars
  PROVE  Fresh'
<1>0. ScanTypes /\ Waited /\ Single /\ Fresh /\ LoopStarted /\ FoundTypes
  BY DEF ScanInv, ScanTypes, Progress
<1>1. ASSUME UNCHANGED <<comments, batch, batchStart, merged>>, InBatch' => InBatch PROVE Fresh'
  BY <1>0, <1>1 DEF Fresh, Members
<1>2. CASE GateFile \/ Launch \/ LeaveBatch \/ EndBatch \/ Join \/ Cancel
  BY <1>1, <1>2 DEF GateFile, Launch, LeaveBatch, EndBatch, Join, Cancel, InBatch, loop, found
<1>3. ASSUME NEW f \in ScanItem, TaskSpends(f) \/ FinishFile(f) \/ \E path \in ScanItem : FileFinding(f, path) PROVE Fresh'
  BY <1>1, <1>3 DEF TaskSpends, FinishFile, FileFinding, InBatch, loop, found
<1>4. CASE UNCHANGED scanVars
  BY <1>1, <1>4 DEF scanVars, InBatch, loop, found
<1>5. CASE Record
  BY <1>5 DEF Record, Rollup, EndScan, Fresh, InBatch
<1>6. CASE NextBatch
  <2> SUFFICES ASSUME InBatch' PROVE Fresh'
    BY DEF Fresh
  <2>1. phase = "loop" /\ batch <= Len(Batches) /\ batch' = batch /\ comments' = comments /\ batchStart' = Len(comments) /\ merged' = <<>>
    BY <1>6 DEF NextBatch, Rollup, EndScan, found, InBatch
  <2>2. Len(comments) \in Nat /\ \A i \in 1 .. Len(comments) : i \in DOMAIN comments
    BY <1>0, LenProperties DEF FoundTypes
  <2>3. ASSUME NEW i \in 1 .. Len(comments), NEW p \in comments[i].of, p[1] \in Members(batch) PROVE FALSE
    <3>1. p \in Output
      BY <2>2 DEF Output
    <3>2. state[p[1]] # "waiting"
      BY <1>0, <3>1 DEF Single
    <3>3. batch \in DOMAIN Batches
      BY <2>1, LoopTypesKept, <1>0 DEF LoopTypes
    <3>4. PICK k \in DOMAIN Batches[batch] : p[1] = Batches[batch][k]
      BY <2>3, <3>3, ItemPlaces
    <3>5. ~Passed(batch, k)
      <4>1. batch \in Nat
        BY <3>3, ItemPlaces
      <4> QED BY <2>1, <4>1 DEF Passed, InBatch
    <3> QED BY <1>0, <2>1, <3>2, <3>3, <3>4, <3>5 DEF LoopStarted
  <2>4. (Len(comments) + 1) .. Len(comments) = {}
    BY <2>2
  <2> QED BY <2>1, <2>3, <2>4 DEF Fresh, Members
<1>7. ASSUME NEW p \in Pairs, comments' = Append(comments, Comment(p[2], {p})), UNCHANGED <<batch, batchStart, merged, phase>>,
             InBatch => merged = <<>>
      PROVE  Fresh'
  <2>0. p = <<p[1], p[2]>> /\ p[1] \in ScanItem
    BY DEF Pairs
  <2>1. /\ Len(comments) \in Nat /\ Len(comments') = Len(comments) + 1
        /\ \A i \in 1 .. Len(comments) : comments'[i] = comments[i]
        /\ comments'[Len(comments) + 1].of = {p} /\ comments'[Len(comments) + 1].path = p[2]
    BY <1>0, <1>7, AddStep
  <2> SUFFICES ASSUME InBatch PROVE Fresh'
    BY <1>7 DEF Fresh, InBatch
  <2>2. batchStart \in Nat /\ batchStart <= Len(comments) /\ merged' = <<>>
    BY <1>0, <1>7 DEF FoundTypes
  <2>3. ASSUME NEW i \in 1 .. batchStart PROVE comments'[i] = comments[i]
    <3>1. i \in 1 .. Len(comments)
      BY ONLY <2>1, <2>2, i \in 1 .. batchStart
    <3> QED BY <2>1, <3>1
  <2>4. ASSUME NEW i \in (batchStart + 1) .. Len(comments') PROVE \E by \in ScanItem : comments'[i].of = {<<by, comments'[i].path>>}
    <3>1. i \in (batchStart + 1) .. Len(comments) \/ i = Len(comments) + 1
      BY ONLY <2>1, <2>2, i \in (batchStart + 1) .. Len(comments')
    <3>2. CASE i = Len(comments) + 1
      BY <2>0, <2>1, <3>2
    <3>3. CASE i \in (batchStart + 1) .. Len(comments)
      <4>1. i \in 1 .. Len(comments)
        BY ONLY <2>1, <2>2, <3>3
      <4> QED BY <1>0, <1>7, <2>1, <3>3, <4>1 DEF Fresh
    <3> QED BY <3>1, <3>2, <3>3
  <2> QED BY <1>0, <1>7, <2>2, <2>3, <2>4 DEF Fresh, Members
<1>8. CASE ReuseFile
  <2>1. InBatch => merged = <<>>
    BY <1>0, <1>8 DEF ReuseFile, Waited
  <2> QED BY <1>0, <1>7, <1>8, <2>1, ReusedPair DEF ReuseFile
<1>9. CASE Land
  <2>1. PICK p \in pool : comments' = Append(comments, Comment(p[2], {p}))
    BY <1>9 DEF Land
  <2>2. InBatch => merged = <<>>
    BY <1>0, <2>1 DEF Waited
  <2> QED BY <1>0, <1>7, <1>9, <2>1, <2>2 DEF Land, loop, FoundTypes
<1>10. CASE Dedup
  <2>1. InBatch /\ phase = "dedup" /\ batch' = batch /\ batchStart' = batchStart
    BY <1>10 DEF Dedup, InBatch
  <2>2. CASE UNCHANGED <<comments, merged>>
    BY <1>1, <2>1, <2>2
  <2>3. ASSUME NEW groups, NEW head, Merges(groups, head) PROVE Fresh'
    <3> DEFINE originals == Since(batchStart)
    <3>1. /\ \A i \in 1 .. batchStart : comments'[i] = comments[i]
          /\ \A i \in (batchStart + 1) .. Len(comments') : \A p \in comments'[i].of :
               \E j \in DOMAIN originals : p \in originals[j].of
      BY <1>0, <2>1, <2>3, MergeStep
    <3>2. /\ \A j \in DOMAIN originals : originals[j] \in ScanComments
          /\ \A j \in DOMAIN originals : \E by \in ScanItem : originals[j].of = {<<by, originals[j].path>>}
          /\ Len(originals) \in Nat /\ DOMAIN originals = 1 .. Len(originals)
      <4>1. merged = <<>>
        BY <1>0, <2>1 DEF Waited
      <4>2. \A i \in (batchStart + 1) .. Len(comments) : \E by \in ScanItem : comments[i].of = {<<by, comments[i].path>>}
        BY <1>0, <2>1, <4>1 DEF Fresh
      <4> QED BY <1>0, <2>1, <4>2, SincePlaces
    <3>3. /\ groups \in SUBSET ((SUBSET (DOMAIN originals)) \ {{}}) /\ head \in [groups -> DOMAIN originals]
          /\ Accounted(groups, Len(originals)) /\ Len(originals) >= MinDedup
          /\ merged' = [p \in ScanItem |-> MergedOf(originals, groups, head, p)]
      BY <2>3 DEF Merges
    <3> HIDE DEF originals
    <3>4. UNION groups = DOMAIN originals
      BY <3>2, <3>3 DEF Accounted
    <3>5. merged' # <<>>
      <4>1. 1 \in DOMAIN originals
        BY <3>2, <3>3, ScanAssumption
      <4>2. originals[1].path \in ScanItem
        BY <3>2, <4>1 DEF ScanComments
      <4>3. DOMAIN merged' = ScanItem
        BY <3>3
      <4>4. DOMAIN <<>> = {}
        OBVIOUS
      <4> QED BY <4>2, <4>3, <4>4
    <3>6. ASSUME NEW f \in ScanItem
          PROVE  /\ \A c \in merged'[f] : c.of # {}
                 /\ \A i \in (batchStart + 1) .. Len(comments') : \A p \in comments'[i].of :
                      p[2] = f => \E c \in merged'[f] : p \in c.of
      <4>1. /\ \A c \in MergedOf(originals, groups, head, f) : c.of # {}
            /\ \A j \in DOMAIN originals : \A p \in originals[j].of :
                 p[2] = f => \E c \in MergedOf(originals, groups, head, f) : p \in c.of
        BY ONLY <3>2, <3>3, <3>4, f \in ScanItem, MergedKeep
      <4>2. merged'[f] = MergedOf(originals, groups, head, f)
        BY <3>3
      <4> QED BY <3>1, <4>1, <4>2
    <3>7. \A i \in 1 .. batchStart : \A p \in comments'[i].of : p[1] \notin Members(batch)
      BY <1>0, <2>1, <3>1 DEF Fresh
    <3> QED BY <2>1, <3>5, <3>6, <3>7 DEF Fresh, Members
  <2> QED BY <1>10, <2>2, <2>3, DedupMerges
<1> QED BY <1>2, <1>3, <1>4, <1>5, <1>6, <1>8, <1>9, <1>10 DEF ScanNext, Loop, Stay

(* A file's checkpoint is written when its batch is over, with all that was found on it there. *)
LEMMA RecordedKept ==
  ASSUME ScanInv, [ScanNext]_scanVars
  PROVE  Recorded'
<1>0. /\ ScanTypes /\ Waited /\ Single /\ Fresh /\ LoopStarted /\ RunsHere /\ DoneHere /\ Recorded
      /\ LoopTypes /\ state \in [ScanItem -> States]
  BY DEF ScanInv, ScanTypes, TaskTypes, Progress
<1> DEFINE Kept(b, f) ==
             /\ ~Closed(b) => checkpoint[f] = NoCheckpoint
             /\ Closed(b) /\ state[f] \in {"done", "reused"} => checkpoint[f] # NoCheckpoint
             /\ Closed(b) /\ state[f] = "done" =>
                  \A p \in Output : p[2] = f /\ p[1] \in Members(b) => p \in Restored(f)
<1> SUFFICES ASSUME NEW b \in DOMAIN Batches, NEW f, f \in Members(b)
             PROVE  Kept(b, f)'
  BY DEF Recorded, Members
<1>1. Kept(b, f)
  BY <1>0 DEF Recorded
<1>2. f \in ScanItem /\ b \in Nat /\ batch \in Nat /\ \A c \in DOMAIN Batches : f \in Members(c) => b = c
  <2>1. batch \in 1 .. (Len(Batches) + 1)
    BY <1>0 DEF LoopTypes
  <2>2. batch \in Nat
    BY ONLY <2>1
  <2> QED BY <2>2, ItemPlaces
<1>3. ASSUME checkpoint' = checkpoint, batch' = batch, phase' = "ended" <=> phase = "ended",
             Closed(b) => state'[f] = state[f],
             Closed(b) => \A p \in Output' : p[1] \in Members(b) => p \in Output
      PROVE  Kept(b, f)'
  <2>1. Closed(b)' <=> Closed(b)
    BY <1>3 DEF Closed
  <2>2. Restored(f)' = Restored(f)
    BY <1>3 DEF Restored
  <2> QED BY <1>1, <1>3, <2>1, <2>2 DEF Members
<1>4. ASSUME comments' = comments PROVE Output' = Output
  BY <1>4 DEF Output
<1>5. ASSUME b > batch \/ (b = batch /\ phase = "loop"), phase # "ended" PROVE state[f] = "waiting"
  <2>1. PICK i \in DOMAIN Batches[b] : f = Batches[b][i]
    BY ItemPlaces
  <2>2. ~Passed(b, i)
    BY <1>2, <1>5 DEF Passed, InBatch
  <2> QED BY <1>0, <1>5, <2>1, <2>2 DEF LoopStarted
<1>6. ASSUME Closed(b), phase # "ended", NEW g, g \in Members(batch), batch \in DOMAIN Batches PROVE g # f /\ g \notin Members(b)
  <2>1. b # batch
    BY <1>2, <1>6 DEF Closed
  <2>2. \A c, d \in DOMAIN Batches : \A h \in Members(c) : h \in Members(d) => c = d
    BY ItemPlaces
  <2> QED BY <1>6, <2>1, <2>2
<1>7. CASE NextBatch
  <2>1. checkpoint' = checkpoint /\ batch' = batch /\ comments' = comments /\ state' = state /\ phase = "loop"
    BY <1>7 DEF NextBatch, found, workers
  <2>2. CASE phase' # "ended"
    BY <1>3, <1>4, <2>1, <2>2
  <2>3. CASE phase' = "ended"
    <3>1. CASE b < batch
      <4>1. Closed(b) /\ Closed(b)'
        BY <2>3, <3>1 DEF Closed
      <4>2. Restored(f)' = Restored(f) /\ Output' = Output
        BY <1>4, <2>1 DEF Restored
      <4> QED BY <1>1, <2>1, <4>1, <4>2 DEF Members
    <3>2. CASE ~(b < batch)
      <4>1. state[f] = "waiting"
        BY <1>2, <1>5, <2>1, <3>2
      <4>2. Closed(b)'
        BY <2>3 DEF Closed
      <4> QED BY <2>1, <4>1, <4>2
    <3> QED BY <3>1, <3>2
  <2> QED BY <2>2, <2>3
<1>8. CASE ReuseFile
  <2> DEFINE q == <<Current, Current>>
  <2>1. Current \in ScanItem /\ Current \in Members(batch) /\ batch \in DOMAIN Batches
    BY <1>0, <1>8, CurrentFile DEF ReuseFile
  <2>2. q \in Pairs /\ q[1] = Current /\ q[2] = Current /\ comments' = Append(comments, Comment(q[2], {q}))
    BY <1>0, <1>8, ReusedPair
  <2>3. checkpoint' = checkpoint /\ batch' = batch /\ phase' = phase /\ phase # "ended" /\ state' = [state EXCEPT ![Current] = "reused"]
    BY <1>8 DEF ReuseFile, ends
  <2> HIDE DEF q
  <2>4. Output' = Output \cup {q}
    BY <1>0, <2>2, AddStep
  <2>5. Closed(b) => Current # f /\ Current \notin Members(b)
    BY <1>6, <2>1, <2>3
  <2>6. Closed(b) => state'[f] = state[f]
    BY <1>0, <1>2, <2>1, <2>3, <2>5
  <2>7. Closed(b) => \A p \in Output' : p[1] \in Members(b) => p \in Output
    BY <2>2, <2>4, <2>5
  <2> QED BY <1>3, <2>3, <2>6, <2>7
<1>9. CASE Launch
  <2>1. Current \in ScanItem /\ Current \in Members(batch) /\ batch \in DOMAIN Batches
    BY <1>0, <1>9, CurrentFile DEF Launch
  <2>2. /\ checkpoint' = checkpoint /\ batch' = batch /\ phase # "ended" /\ phase' # "ended" /\ comments' = comments
        /\ state' = [state EXCEPT ![Current] = "running"]
    BY <1>9 DEF Launch, ends, found
  <2>3. Closed(b) => state'[f] = state[f]
    BY <1>0, <1>2, <1>6, <2>1, <2>2
  <2> QED BY <1>3, <1>4, <2>2, <2>3
<1>10. CASE GateFile \/ LeaveBatch \/ EndBatch \/ Join
  BY <1>3, <1>4, <1>10 DEF GateFile, LeaveBatch, EndBatch, Join, workers, found, ends
<1>11. CASE Dedup
  <2>1. Output' = Output
    <3>1. InBatch
      BY <1>11 DEF Dedup, InBatch
    <3>2. CASE UNCHANGED <<comments, merged>>
      BY <1>4, <3>2
    <3> QED BY <1>0, <1>11, <3>1, <3>2, DedupMerges, MergeStep
  <2> QED BY <1>3, <1>11, <2>1 DEF Dedup, ends
<1>12. CASE Land
  <2>1. PICK q \in pool : comments' = Append(comments, Comment(q[2], {q}))
    BY <1>12 DEF Land
  <2>2. checkpoint' = checkpoint /\ batch' = batch /\ phase' = phase /\ phase # "ended" /\ state' = state
    BY <1>12 DEF Land, loop, workers, ends
  <2>3. q \in Pairs /\ q[1] \in Members(batch)
    BY <1>0, <2>1, <2>2, OutputPairs DEF Single
  <2>4. Output' = Output \cup {q}
    BY <1>0, <2>1, <2>3, AddStep
  <2>5. batch \in DOMAIN Batches
    <3>1. InBatch
      BY <1>0, <1>12, <2>1 DEF Land, Waited, LoopTypes, Phases, InBatch
    <3> QED BY <1>0, <3>1 DEF LoopTypes
  <2>6. Closed(b) => q[1] \notin Members(b)
    BY <1>6, <2>2, <2>3, <2>5
  <2>7. Closed(b) => \A p \in Output' : p[1] \in Members(b) => p \in Output
    BY <2>4, <2>6
  <2> QED BY <1>3, <2>2, <2>7
<1>13. CASE Record
  <2>1. /\ phase = "record" /\ InBatch /\ batch \in DOMAIN Batches /\ comments' = comments /\ state' = state
        /\ checkpoint'[f] = IF f \in batchDone THEN BatchCheckpoints[f] ELSE checkpoint[f]
    BY <1>0, <1>2, <1>13 DEF Record, found, workers, InBatch, LoopTypes
  <2>2. Output' = Output
    BY <1>4, <2>1
  <2>3. (phase' = "ended" /\ batch' = batch) \/ (phase' = "loop" /\ batch' = batch + 1)
    BY <1>13 DEF Record, Rollup, EndScan
  <2>4. f \in batchDone <=> b = batch /\ state[f] \in {"done", "reused"}
    BY <1>0, <1>2, <2>1 DEF DoneHere
  <2>5. CASE b < batch
    <3>1. Closed(b) /\ Closed(b)'
      BY <1>2, <2>3, <2>5 DEF Closed
    <3>2. checkpoint'[f] = checkpoint[f]
      BY <1>2, <2>1, <2>4, <2>5
    <3>3. Restored(f)' = Restored(f)
      BY <3>2 DEF Restored
    <3> QED BY <1>1, <2>1, <2>2, <3>1, <3>2, <3>3 DEF Members
  <2>6. CASE b > batch
    <3>1. state[f] = "waiting" /\ checkpoint'[f] = checkpoint[f]
      BY <1>2, <1>5, <2>1, <2>4, <2>6
    <3>2. ~Closed(b)
      BY <1>2, <2>1, <2>6 DEF Closed
    <3> QED BY <1>1, <2>1, <3>1, <3>2
  <2>7. CASE b = batch
    <3>1. Closed(b)'
      BY <1>2, <2>3, <2>7 DEF Closed
    <3> SUFFICES ASSUME state[f] \in {"done", "reused"}
                 PROVE  /\ checkpoint'[f] # NoCheckpoint
                        /\ state[f] = "done" => \A p \in Output : p[2] = f /\ p[1] \in Members(b) => p \in Restored(f)'
      BY <2>1, <2>2, <3>1 DEF Members
    <3>2. checkpoint'[f] = IF state[f] = "reused" THEN {Comment(f, {<<f, f>>})}
                           ELSE IF merged # <<>> THEN merged[f] ELSE Own(f)
      BY <2>1, <2>4, <2>7 DEF BatchCheckpoints
    <3>3. \A c \in NoCheckpoint : c.of = {}
      BY DEF NoCheckpoint, Comment
    <3>4. NoCheckpoint # {}
      BY DEF NoCheckpoint
    <3>5. \A c \in checkpoint'[f] : c.of # {}
      <4>1. CASE state[f] = "reused"
        <5>1. checkpoint'[f] = {Comment(f, {<<f, f>>})}
          BY <3>2, <4>1
        <5>2. Comment(f, {<<f, f>>}).of = {<<f, f>>}
          BY DEF Comment
        <5> QED BY <5>1, <5>2
      <4>2. CASE state[f] # "reused" /\ merged # <<>>
        BY <1>0, <1>2, <2>1, <3>2, <4>2 DEF Fresh
      <4>3. CASE state[f] # "reused" /\ merged = <<>>
        <5>1. \A c \in Range(Since(batchStart)) : c \in ScanComments
          BY <1>0, <2>1, SincePlaces DEF Range
        <5>2. \A c \in ScanComments : c.of # {}
          BY DEF ScanComments
        <5>3. checkpoint'[f] \subseteq Range(Since(batchStart))
          BY <3>2, <4>3 DEF Own
        <5> QED BY <5>1, <5>2, <5>3
      <4> QED BY <4>1, <4>2, <4>3
    <3>6. checkpoint'[f] # NoCheckpoint
      BY <3>3, <3>4, <3>5
    <3>7. ASSUME state[f] = "done", NEW p \in Output, p[2] = f, p[1] \in Members(b) PROVE \E c \in checkpoint'[f] : p \in c.of
      <4>1. PICK i \in DOMAIN comments : p \in comments[i].of
        BY DEF Output
      <4>2. i \in (batchStart + 1) .. Len(comments)
        <5>1. comments \in Seq(ScanComments) /\ batchStart \in Nat
          BY <1>0 DEF ScanTypes, FoundTypes
        <5>2. i \in 1 .. Len(comments) /\ Len(comments) \in Nat
          BY <5>1, LenProperties
        <5>3. i \notin 1 .. batchStart
          BY <1>0, <2>1, <2>7, <3>7, <4>1 DEF Fresh
        <5> QED BY ONLY <5>1, <5>2, <5>3
      <4>3. CASE merged # <<>>
        BY <1>0, <1>2, <2>1, <3>2, <3>7, <4>1, <4>2, <4>3 DEF Fresh
      <4>4. CASE merged = <<>>
        <5>1. PICK by \in ScanItem : comments[i].of = {<<by, comments[i].path>>}
          BY <1>0, <2>1, <4>2, <4>4 DEF Fresh
        <5>2. comments[i].path = f
          BY <3>7, <4>1, <5>1
        <5>3. comments[i] \in Range(Since(batchStart))
          BY <1>0, <2>1, <4>2, SincePlaces DEF Range
        <5>4. comments[i] \in checkpoint'[f]
          BY <3>2, <3>7, <4>4, <5>2, <5>3 DEF Own
        <5> QED BY <4>1, <5>4
      <4> QED BY <4>3, <4>4
    <3> QED BY <3>6, <3>7 DEF Restored
  <2> QED BY <1>2, <2>5, <2>6, <2>7
<1>14. CASE Cancel
  BY <1>3, <1>4, <1>14 DEF Cancel, loop, workers, found
<1>15. ASSUME NEW g \in ScanItem, TaskSpends(g) PROVE Kept(b, f)'
  BY <1>3, <1>4, <1>15 DEF TaskSpends, loop, found, ends
<1>16. ASSUME NEW g \in ScanItem, FinishFile(g) PROVE Kept(b, f)'
  <2>1. PICK outcome \in {"done", "failed", "stopped"} : state[g] = "running" /\ state' = [state EXCEPT ![g] = outcome]
    BY <1>16 DEF FinishFile
  <2>2. UNCHANGED <<checkpoint, batch, phase, comments>>
    BY <1>16 DEF FinishFile, found, ends
  <2>3. g \in Members(batch) /\ phase # "ended" /\ InBatch
    BY <1>0, <2>1 DEF RunsHere, InBatch
  <2>4. batch \in DOMAIN Batches
    BY <1>0, <2>3 DEF LoopTypes
  <2>5. Closed(b) => state'[f] = state[f]
    BY <1>0, <1>2, <1>6, <2>1, <2>3, <2>4
  <2> QED BY <1>3, <1>4, <2>2, <2>5
<1>17. ASSUME NEW g \in ScanItem, NEW path \in ScanItem, FileFinding(g, path) PROVE Kept(b, f)'
  BY <1>3, <1>4, <1>17 DEF FileFinding, loop, workers, ends
<1>18. CASE UNCHANGED scanVars
  BY <1>3, <1>4, <1>18 DEF scanVars, loop, workers, found, ends
<1> QED BY <1>7, <1>8, <1>9, <1>10, <1>11, <1>12, <1>13, <1>14, <1>15, <1>16, <1>17, <1>18 DEF ScanNext, Loop, Stay

(* The counters are the numbers of files launched and lost, and a scan's success is one. *)
LEMMA TalliedKept ==
  ASSUME ScanInv, [ScanNext]_scanVars
  PROVE  Tallied'
<1>0. /\ ScanTypes /\ Waited /\ LoopStarted /\ RunsHere /\ Tallied /\ LoopTypes
      /\ state \in [ScanItem -> States] /\ dispatched \in Nat /\ failed \in Nat
  BY DEF ScanInv, ScanTypes, TaskTypes, Progress
<1>1. dispatched = Cardinality(Launched) /\ failed = Cardinality(Lost) /\ SuccessIsHonest
  BY <1>0 DEF Tallied
<1>2. IsFiniteSet(Launched) /\ IsFiniteSet(Lost)
  BY ItemsFinite, FS_Subset DEF Launched, Lost
<1> DEFINE Counts == dispatched = Cardinality(Launched) /\ failed = Cardinality(Lost)
<1>3. ASSUME UNCHANGED <<state, dispatched, failed>> PROVE Counts'
  BY <1>1, <1>3 DEF Launched, Lost
<1>4. ASSUME phase # "ended", result' = result PROVE SuccessIsHonest'
  BY <1>0, <1>4 DEF Waited, SuccessIsHonest
<1>5. ASSUME Rollup, phase \in {"loop", "record"}, state' = state, dispatched' = dispatched, budgetExceeded' = budgetExceeded,
             (\E f \in ScanItem : state[f] = "waiting") => budgetExceeded
      PROVE  SuccessIsHonest'
  <2> SUFFICES ASSUME result' = "ok", \A f \in ScanItem : state[f] \notin {"done", "reused"} PROVE dispatched = 0
    BY <1>5 DEF SuccessIsHonest
  <2>1. ~AllFailed
    BY <1>5 DEF Rollup, EndScan
  <2>2. Reused = {}
    BY DEF Reused
  <2>3. Launched = Lost
    BY <1>0, <1>5 DEF Launched, Lost, RunsHere, States
  <2> QED BY <1>0, <1>1, <2>1, <2>2, <2>3 DEF AllFailed
<1>6. CASE NextBatch
  <2>1. phase = "loop" /\ UNCHANGED <<state, dispatched, failed, budgetExceeded>>
    BY <1>6 DEF NextBatch, workers, limits
  <2>2. SuccessIsHonest'
    <3>1. CASE batch > Len(Batches)
      <4>1. batch \in Nat /\ Len(Batches) \in Nat
        <5>1. batch \in 1 .. (Len(Batches) + 1) /\ Len(Batches) \in Nat
          BY <1>0, ItemPlaces DEF LoopTypes
        <5> QED BY ONLY <5>1
      <4>2. Rollup
        BY <1>6, <3>1, <4>1 DEF NextBatch
      <4>3. ASSUME NEW f \in ScanItem PROVE state[f] # "waiting"
        <5>1. PICK b \in DOMAIN Batches : f \in Members(b)
          BY ItemPlaces
        <5>2. PICK i \in DOMAIN Batches[b] : f = Batches[b][i]
          BY <5>1, ItemPlaces
        <5>3. b < batch
          <6>1. b \in 1 .. Len(Batches)
            BY ItemPlaces
          <6> QED BY ONLY <3>1, <4>1, <6>1
        <5> QED BY <1>0, <2>1, <5>2, <5>3 DEF LoopStarted, Passed
      <4> QED BY <1>5, <2>1, <4>2, <4>3
    <3>2. CASE ~(batch > Len(Batches))
      BY <1>0, <1>6, <3>2 DEF NextBatch, EndScan, SuccessIsHonest, Waited
    <3> QED BY <3>1, <3>2
  <2> QED BY <1>3, <2>1, <2>2 DEF Tallied
<1>7. CASE ReuseFile
  <2>1. Current \in ScanItem /\ batch \in DOMAIN Batches /\ next \in DOMAIN Batches[batch]
    BY <1>0, <1>7, CurrentFile DEF ReuseFile
  <2>2. state' = [state EXCEPT ![Current] = "reused"] /\ UNCHANGED <<dispatched, failed, result, phase>> /\ phase = "batch"
    BY <1>7 DEF ReuseFile, ends
  <2>3. state[Current] = "waiting"
    <3>1. batch \in Nat /\ next \in Nat
      <4>1. batch \in 1 .. (Len(Batches) + 1) /\ next \in Nat \ {0}
        BY <1>0 DEF LoopTypes
      <4> QED BY ONLY <4>1
    <3>2. ~Passed(batch, next)
      BY <3>1 DEF Passed
    <3> QED BY <1>0, <2>1, <2>2, <3>2 DEF LoopStarted, Current
  <2>4. Launched' = Launched /\ Lost' = Lost
    BY <1>0, <2>1, <2>2, <2>3 DEF Launched, Lost
  <2> QED BY <1>1, <1>4, <2>2, <2>4 DEF Tallied
<1>8. CASE Launch
  <2>1. Current \in ScanItem /\ batch \in DOMAIN Batches /\ next \in DOMAIN Batches[batch]
    BY <1>0, <1>8, CurrentFile DEF Launch
  <2>2. /\ state' = [state EXCEPT ![Current] = "running"] /\ dispatched' = dispatched + 1
        /\ UNCHANGED <<failed, result>> /\ phase = "acquire"
    BY <1>8 DEF Launch, ends
  <2>3. state[Current] = "waiting"
    <3>1. batch \in Nat /\ next \in Nat
      <4>1. batch \in 1 .. (Len(Batches) + 1) /\ next \in Nat \ {0}
        BY <1>0 DEF LoopTypes
      <4> QED BY ONLY <4>1
    <3>2. ~Passed(batch, next)
      BY <3>1 DEF Passed
    <3> QED BY <1>0, <2>1, <2>2, <3>2 DEF LoopStarted, Current
  <2>4. Launched' = Launched \cup {Current} /\ Current \notin Launched /\ Lost' = Lost
    BY <1>0, <2>1, <2>2, <2>3 DEF Launched, Lost
  <2>5. Cardinality(Launched') = Cardinality(Launched) + 1
    BY <1>2, <2>4, FS_AddElement
  <2> QED BY <1>1, <1>4, <2>2, <2>4, <2>5 DEF Tallied
<1>9. CASE GateFile \/ LeaveBatch \/ EndBatch \/ Join \/ Dedup
  <2>1. phase # "ended" /\ UNCHANGED <<state, dispatched, failed, result>>
    BY <1>9 DEF GateFile, LeaveBatch, EndBatch, Join, Dedup, workers, ends
  <2> QED BY <1>3, <1>4, <2>1 DEF Tallied
<1>10. CASE Record
  <2>1. phase = "record" /\ UNCHANGED <<state, dispatched, failed, budgetExceeded>>
    BY <1>10 DEF Record, workers, limits
  <2>2. SuccessIsHonest'
    <3>1. CASE ~interrupted /\ budgetHit
      BY <1>0, <1>5, <1>10, <2>1, <3>1 DEF Record, Waited
    <3>2. CASE interrupted \/ ~budgetHit
      BY <1>0, <1>10, <2>1, <3>2 DEF Record, EndScan, SuccessIsHonest, Waited
    <3> QED BY <3>1, <3>2
  <2> QED BY <1>3, <2>1, <2>2 DEF Tallied
<1>11. CASE Land \/ Cancel
  <2>1. phase # "ended" /\ UNCHANGED <<state, dispatched, failed, result>>
    BY <1>11 DEF Land, Cancel, workers, ends
  <2> QED BY <1>3, <1>4, <2>1 DEF Tallied
<1>12. ASSUME NEW f \in ScanItem, TaskSpends(f) \/ \E path \in ScanItem : FileFinding(f, path) PROVE Tallied'
  <2>1. phase # "ended" /\ UNCHANGED <<state, dispatched, failed, result>>
    BY <1>0, <1>12 DEF TaskSpends, FileFinding, RunsHere, workers, ends
  <2> QED BY <1>3, <1>4, <2>1 DEF Tallied
<1>13. ASSUME NEW f \in ScanItem, FinishFile(f) PROVE Tallied'
  <2>1. PICK outcome \in {"done", "failed", "stopped"} :
          state' = [state EXCEPT ![f] = outcome] /\ failed' = IF outcome = "done" THEN failed ELSE failed + 1
    BY <1>13 DEF FinishFile
  <2>2. state[f] = "running" /\ phase # "ended" /\ UNCHANGED <<dispatched, result>>
    BY <1>0, <1>13 DEF FinishFile, RunsHere, ends
  <2>3. Launched' = Launched /\ f \notin Lost
    BY <1>0, <2>1, <2>2 DEF Launched, Lost
  <2>4. Lost' = IF outcome = "done" THEN Lost ELSE Lost \cup {f}
    BY <1>0, <2>1, <2>2 DEF Lost
  <2>5. Cardinality(Lost \cup {f}) = Cardinality(Lost) + 1
    BY <1>2, <2>3, FS_AddElement
  <2>6. failed' = Cardinality(Lost')
    BY <1>1, <2>1, <2>4, <2>5
  <2> QED BY <1>1, <1>4, <2>2, <2>3, <2>6 DEF Tallied
<1>14. CASE UNCHANGED scanVars
  <2>1. UNCHANGED <<state, dispatched, failed, result, budgetExceeded>>
    BY <1>14 DEF scanVars, workers, limits, ends
  <2>2. SuccessIsHonest'
    BY <1>1, <2>1 DEF SuccessIsHonest
  <2> QED BY <1>3, <2>1, <2>2 DEF Tallied
<1> QED BY <1>6, <1>7, <1>8, <1>9, <1>10, <1>11, <1>12, <1>13, <1>14 DEF ScanNext, Loop, Stay

(* A scan starts with nothing done, and its invariant holds of that. *)
LEMMA ScanStarts == ScanInit => ScanInv
<1> SUFFICES ASSUME ScanInit PROVE ScanInv
  OBVIOUS
<1> USE DEF ScanInit
<1>1. ScanTypes
  <2>1. 1 \in 1 .. (Len(Batches) + 1)
    BY ItemPlaces
  <2>2. comments \in Seq(ScanComments)
    BY DEF ScanComments
  <2>3. LoopTypes
    BY <2>1 DEF LoopTypes, Phases, InBatch
  <2>4. FoundTypes
    BY <2>2 DEF FoundTypes, InBatch
  <2>5. TaskTypes
    BY DEF TaskTypes, States
  <2> QED BY <2>3, <2>4, <2>5 DEF ScanTypes
<1>2. Progress
  <2>1. ASSUME NEW b \in DOMAIN Batches, NEW i \in DOMAIN Batches[b] PROVE state[Batches[b][i]] = "waiting" /\ ~Passed(b, i)
    <3>1. Batches[b][i] \in ScanItem /\ b \in Nat /\ 1 <= b
      BY ItemPlaces
    <3> QED BY <3>1 DEF Passed, InBatch
  <2> QED BY <2>1 DEF Progress, LoopStarted, RunsHere, DoneHere, InBatch
<1>3. Waited
  BY DEF Waited, InBatch
<1>4. Output = {} /\ Disjoint(comments)
  BY DEF Output, Disjoint
<1>5. Single
  BY <1>4 DEF Single
<1>6. Fresh
  BY DEF Fresh, InBatch
<1>7. Recorded
  <2> SUFFICES ASSUME NEW b \in DOMAIN Batches, NEW f, f \in Members(b)
               PROVE  ~Closed(b) /\ checkpoint[f] = NoCheckpoint
    BY DEF Recorded
  <2>1. f \in ScanItem /\ b \in Nat /\ 1 <= b
    BY ItemPlaces
  <2> QED BY <2>1 DEF Closed
<1>8. Tallied
  <2>1. Launched = {} /\ Lost = {}
    BY DEF Launched, Lost
  <2> QED BY <2>1, FS_EmptySet DEF Tallied, SuccessIsHonest
<1> QED BY <1>1, <1>2, <1>3, <1>5, <1>6, <1>7, <1>8 DEF ScanInv

(* The invariant of the scan holds: the files started are those the loop is past, *)
(* a finding is in one place, and the batches that are over have their checkpoints. *)
THEOREM ScanInvariant == ScanSpec => []ScanInv
<1>1. ASSUME ScanInv, [ScanNext]_scanVars PROVE ScanInv'
  BY <1>1, TypesKept, StartedKept, RunsHereKept, DoneHereKept, WaitedKept, SingleKept, FreshKept, RecordedKept, TalliedKept
     DEF ScanInv, Progress
<1> QED BY ScanStarts, <1>1, PTL DEF ScanSpec

(* Every file that was settled has its checkpoint, which restores what was found on *)
(* it within its batch (recordBatchCheckpoints, dedupCheckpoints).                  *)
THEOREM CheckpointsAreWhole == ScanSpec => []CheckpointsWhole
<1>1. ASSUME ScanInv PROVE CheckpointsWhole
  <2>1. Recorded
    BY <1>1 DEF ScanInv
  <2>2. CheckpointsWritten
    BY <2>1, ItemPlaces DEF CheckpointsWritten, Recorded, Closed
  <2>3. CheckpointRestores
    <3> SUFFICES ASSUME NEW f \in ScanItem, state[f] = "done", checkpoint[f] # NoCheckpoint,
                        NEW finding \in Output, finding[2] = f, SameBatch(f, finding[1])
                 PROVE  finding \in Restored(f)
      BY DEF CheckpointRestores
    <3>1. PICK b \in DOMAIN Batches : f \in Members(b) /\ finding[1] \in Members(b)
      BY DEF SameBatch
    <3> QED BY <2>1, <3>1 DEF Recorded
  <2> QED BY <2>2, <2>3 DEF CheckpointsWhole
<1> QED BY ScanInvariant, <1>1, PTL

(* A scan that was not cut short returns each finding once, and one that reports  *)
(* success got something out of it and says whether the budget left a file out.   *)
THEOREM OutcomeIsHonest == ScanSpec => []OutcomeHonest
<1>1. ASSUME ScanInv PROVE OutcomeHonest
  BY <1>1 DEF ScanInv, Waited, Single, Disjoint, Tallied, OutcomeHonest, OutputWhole
<1> QED BY ScanInvariant, <1>1, PTL

(* Neither a merge nor any other step costs a finding (maybeRunDedup). *)
THEOREM NoFindingIsLost == ScanSpec => FindingsKept
<1>1. ASSUME ScanInv, [ScanNext]_scanVars PROVE [Output \subseteq Output']_scanVars
  <2>0. ScanTypes
    BY <1>1 DEF ScanInv
  <2>1. ASSUME comments' = comments PROVE Output \subseteq Output'
    BY <2>1 DEF Output
  <2>2. CASE ReuseFile
    BY <2>0, <2>2, ReusedPair, AddStep
  <2>3. CASE Land
    <3>1. PICK p \in pool : comments' = Append(comments, Comment(p[2], {p}))
      BY <2>3 DEF Land
    <3> QED BY <2>0, <3>1, OutputPairs, AddStep
  <2>4. CASE Dedup
    <3>1. InBatch
      BY <2>4 DEF Dedup, InBatch
    <3> QED BY <2>0, <2>1, <2>4, <3>1, DedupMerges, MergeStep
  <2>5. CASE NextBatch \/ GateFile \/ Launch \/ LeaveBatch \/ EndBatch \/ Join \/ Record \/ Cancel
    BY <2>1, <2>5 DEF NextBatch, GateFile, Launch, LeaveBatch, EndBatch, Join, Record, Cancel, found
  <2>6. ASSUME NEW f \in ScanItem, TaskSpends(f) \/ FinishFile(f) \/ \E path \in ScanItem : FileFinding(f, path) PROVE Output \subseteq Output'
    BY <2>1, <2>6 DEF TaskSpends, FinishFile, FileFinding, found
  <2> QED BY <1>1, <2>2, <2>3, <2>4, <2>5, <2>6 DEF ScanNext, Loop, Stay
<1> QED BY ScanInvariant, <1>1, PTL DEF ScanSpec, FindingsKept
=============================================================================
