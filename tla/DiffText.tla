------------------------------ MODULE DiffText ------------------------------
(***************************************************************************)
(* Diff text and what is read from it (internal/diff): ParseDiffText and    *)
(* ParseHunks, the line numbers of a comment and its move to another file.  *)
(*                                                                         *)
(* A line of a diff is its kind, and of a content line its text.  Git's     *)
(* output is given by Render, from files whose content may look like a      *)
(* header.                                                                  *)
(***************************************************************************)
EXTENDS Integers, Sequences, FiniteSets, FiniteSetsExt, SequencesExt

Line(kind, text) == [kind |-> kind, text |-> text]

---------------------------------------------------------------------------
(* Git's output: a change of a file and its hunks, each a sequence of       *)
(* <<sign, text>>.                                                          *)

\* "+++ /dev/null" is a header, or the added text "++ /dev/null".
Content(signed) ==
  CASE signed = <<"+", "lookalike">> -> Line("+++ /dev/null", "lookalike")
    [] signed = <<"-", "lookalike">> -> Line("--- /dev/null", "lookalike")
    [] OTHER -> Line(signed[1], signed[2])

Headers(change) ==
  CASE change = "new" -> <<"new file mode", "index", "--- /dev/null", "+++">>
    [] change = "untracked" -> <<"--- /dev/null", "+++">>
    [] change = "deleted" -> <<"deleted file mode", "index", "---", "+++ /dev/null">>
    [] change = "renamed" -> <<"rename from", "rename to", "index", "---", "+++">>
    [] change = "binary" -> <<"index", "Binary files">>
    [] change = "modified" -> <<"index", "---", "+++">>

RenderFile(file) ==
  <<Line("diff --git", file.path)>>
    \o [i \in DOMAIN Headers(file.change) |-> Line(Headers(file.change)[i], file.path)]
    \o FlattenSeq([h \in DOMAIN file.hunks |-> <<Line("@@", "")>> \o [i \in DOMAIN file.hunks[h] |-> Content(file.hunks[h][i])] \o <<Line("No newline", "")>>])
\* A commit's message comes before the first file.
Render(files) == <<Line(" ", "message")>> \o FlattenSeq([i \in DOMAIN files |-> RenderFile(files[i])])

---------------------------------------------------------------------------
(* ParseDiffText.                                                           *)

Added(line) == line.kind \in {"+", "+++", "+++ /dev/null"}
Removed(line) == line.kind \in {"-", "---", "--- /dev/null"}

NewDiff(path) ==
  [path |-> path, isNew |-> FALSE, isDeleted |-> FALSE, isRenamed |-> FALSE, isBinary |-> FALSE, insertions |-> 0, deletions |-> 0, diff |-> <<>>]

(* Mutated: the null path is taken for a header wherever it stands.         *)
ReadLineAnywhere(d, line, inHunk) ==
  CASE line.kind = "new file mode" \/ line.kind = "--- /dev/null" -> [d EXCEPT !.isNew = TRUE]
    [] line.kind = "deleted file mode" \/ line.kind = "+++ /dev/null" -> [d EXCEPT !.isDeleted = TRUE]
    [] ~inHunk /\ line.kind = "Binary files" -> [d EXCEPT !.isBinary = TRUE]
    [] line.kind \in {"rename from", "rename to"} -> [d EXCEPT !.isRenamed = TRUE]
    [] inHunk /\ Added(line) -> [d EXCEPT !.insertions = @ + 1]
    [] inHunk /\ Removed(line) -> [d EXCEPT !.deletions = @ + 1]
    [] OTHER -> d

\* What one line says of its file.
ReadLine(d, line, inHunk) ==
  CASE line.kind = "new file mode" \/ (~inHunk /\ line.kind = "--- /dev/null") -> [d EXCEPT !.isNew = TRUE]
    [] line.kind = "deleted file mode" \/ (~inHunk /\ line.kind = "+++ /dev/null") -> [d EXCEPT !.isDeleted = TRUE]
    [] ~inHunk /\ line.kind = "Binary files" -> [d EXCEPT !.isBinary = TRUE]
    [] line.kind \in {"rename from", "rename to"} -> [d EXCEPT !.isRenamed = TRUE]
    [] inHunk /\ Added(line) -> [d EXCEPT !.insertions = @ + 1]
    [] inHunk /\ Removed(line) -> [d EXCEPT !.deletions = @ + 1]
    [] OTHER -> d

\* A "diff --git" line ends one file and opens the next; nothing before the
\* first is read.
ParseDiffText(lines) ==
  LET Step(s, line) ==
        IF line.kind = "diff --git"
        THEN [diffs |-> Append(s.diffs, [NewDiff(line.text) EXCEPT !.diff = <<line>>]), inHunk |-> FALSE]
        ELSE IF s.diffs = <<>> \/ (~s.inHunk /\ line.kind = "index") THEN s
        ELSE [diffs |-> [s.diffs EXCEPT ![Len(s.diffs)] = [ReadLine(@, line, s.inHunk) EXCEPT !.diff = Append(@, line)]],
              inHunk |-> s.inHunk \/ line.kind = "@@"]
  IN FoldLeft(Step, [diffs |-> <<>>, inHunk |-> FALSE], lines).diffs

\* The hunks of one file's diff.
ParseHunks(lines) ==
  LET sign(line) == IF Added(line) THEN "+" ELSE IF Removed(line) THEN "-" ELSE " "
      Step(hunks, line) ==
        IF line.kind = "@@" THEN Append(hunks, <<>>)
        ELSE IF hunks = <<>> \/ line.kind = "No newline" THEN hunks
        ELSE [hunks EXCEPT ![Len(hunks)] = Append(@, <<sign(line), line.text>>)]
  IN FoldLeft(Step, <<>>, lines)

(* However much its content looks like a header, each file of a change is     *)
(* read once, in order, as what it is, with its lines counted and its hunks.  *)
Signs(file, sign) == Len(SelectSeq(FlattenSeq(file.hunks), LAMBDA l : l[1] = sign))
ParsedAsRendered(files) ==
  LET diffs == ParseDiffText(Render(files)) IN
  /\ [i \in DOMAIN diffs |-> diffs[i].path] = [i \in DOMAIN files |-> files[i].path]
  /\ \A i \in DOMAIN diffs :
       LET d == diffs[i] f == files[i] IN
       /\ d.isNew <=> f.change \in {"new", "untracked"}
       /\ d.isDeleted <=> f.change = "deleted"
       /\ d.isRenamed <=> f.change = "renamed"
       /\ d.isBinary <=> f.change = "binary"
       /\ d.insertions = Signs(f, "+") /\ d.deletions = Signs(f, "-")
       /\ ParseHunks(d.diff) = f.hunks

---------------------------------------------------------------------------
(* Hunks and the lines of a comment.                                        *)

\* A hunk: where it starts on both sides, and its lines.
Hunk(start, lines) == [start |-> start, lines |-> lines]

\* The lines of one side with their numbers.
ExtractSideLines(hunk, newSide) ==
  LET Step(s, l) ==
        [old |-> s.old + (IF l[1] = "+" THEN 0 ELSE 1), new |-> s.new + (IF l[1] = "-" THEN 0 ELSE 1),
         side |-> IF l[1] = (IF newSide THEN "-" ELSE "+") THEN s.side
                  ELSE Append(s.side, <<IF newSide THEN s.new ELSE s.old, l[2]>>)]
  IN FoldLeft(Step, [old |-> hunk.start, new |-> hunk.start, side |-> <<>>], hunk.lines).side

NotFound == <<0, 0>>

\* The first place where the target stands.
MatchConsecutive(side, target) ==
  LET places == {i \in 1..(Len(side) - Len(target) + 1) : \A j \in DOMAIN target : side[i + j - 1][2] = target[j]} IN
  IF target = <<>> \/ places = {} THEN NotFound
  ELSE LET i == Min(places) IN <<side[i][1], side[i + Len(target) - 1][1]>>

NotBlank(lines) == SelectSeq(lines, LAMBDA l : l[2] # "")
Numbered(content) == [i \in DOMAIN content |-> <<i, content[i]>>]

FirstFound(found) == LET hits == SelectSeq(found, LAMBDA r : r # NotFound) IN IF hits = <<>> THEN NotFound ELSE hits[1]

ResolveFromHunk(d, target) ==
  FirstFound([h \in DOMAIN d.hunks |-> MatchConsecutive(ExtractSideLines(d.hunks[h], TRUE), target)]
               \o [h \in DOMAIN d.hunks |-> MatchConsecutive(ExtractSideLines(d.hunks[h], FALSE), target)])

\* Blank lines are skipped, and keep their numbers.
ResolveFromFileContent(d, target) == MatchConsecutive(NotBlank(Numbered(d.content)), target)

ResolveComment(d, target) == FirstFound(<<ResolveFromHunk(d, target), ResolveFromFileContent(d, target)>>)

\* The content of a file whose one hunk starts behind "before".
FileOf(before, lines, after) ==
  LET side == SelectSeq(lines, LAMBDA l : l[1] # "-") IN
  [hunks |-> <<Hunk(Len(before) + 1, lines)>>, content |-> before \o [i \in DOMAIN side |-> side[i][2]] \o after]

(* A comment's lines are where its code stands: in the new file, or, when it  *)
(* is no longer there, in the old; none are given only when it is nowhere.    *)
Stands(content, range, target) ==
  /\ range # NotFound /\ range[2] <= Len(content)
  /\ LET lines == NotBlank([i \in 1..(range[2] - range[1] + 1) |-> <<i, content[range[1] + i - 1]>>]) IN
     [i \in DOMAIN lines |-> lines[i][2]] = target
OldContent(d, before) == LET side == SelectSeq(d.hunks[1].lines, LAMBDA l : l[1] # "+") IN before \o [i \in DOMAIN side |-> side[i][2]]
ResolvedInPlace(before, lines, after, target) ==
  LET d == FileOf(before, lines, after) range == ResolveComment(d, target) IN
  IF range = NotFound THEN ~\E i, j \in DOMAIN d.content : i <= j /\ Stands(d.content, <<i, j>>, target)
  ELSE Stands(d.content, range, target) \/ Stands(OldContent(d, before), range, target)

---------------------------------------------------------------------------
(* What the code_comment tool does with one entry.  A comment is            *)
(* [path, code, range]; a diff of the run has its paths, whether it deletes *)
(* the file, its hunks and the new file's content.                          *)

NullPath == "null"
NewPath(d) == IF d.deleted THEN NullPath ELSE d.new

\* An entry without content or path is dropped; the group's path stands in
\* for a missing one.
ParseComments(entries, taskKey) ==
  LET usable == SelectSeq(entries, LAMBDA e : e.content /\ (e.path # "" \/ taskKey # ""))
  IN [i \in DOMAIN usable |-> [path |-> IF usable[i].path = "" THEN taskKey ELSE usable[i].path, code |-> usable[i].code, range |-> NotFound]]

Named(d, path) == path \in {d.old, NewPath(d)}
Hits(comment, diffs) == {i \in DOMAIN diffs : ~Named(diffs[i], comment.path) /\ ResolveComment(diffs[i], comment.code) # NotFound}

(* Mutated: the first file that has the code is taken.                      *)
RelocateToFirst(comment, diffs) ==
  LET hits == Hits(comment, diffs) IN
  IF comment.code = <<>> \/ hits = {} THEN comment
  ELSE LET d == diffs[Min(hits)] IN [comment EXCEPT !.path = NewPath(d), !.range = ResolveComment(d, comment.code)]

\* A comment moves to the one other file that has its code.
RelocateAcrossFiles(comment, diffs) ==
  LET hits == Hits(comment, diffs) IN
  IF comment.code = <<>> \/ Cardinality(hits) # 1 THEN comment
  ELSE LET d == diffs[Min(hits)] IN [comment EXCEPT !.path = NewPath(d), !.range = ResolveComment(d, comment.code)]

\* The model's code replaces the comment's only where it is found.
ReLocateComment(comment, d, reply) ==
  IF reply = <<>> \/ ResolveComment(d, reply) = NotFound THEN comment
  ELSE [comment EXCEPT !.code = reply, !.range = ResolveComment(d, reply)]

\* The comment's own file, then the other files, then the model.
ResolveAndCollect(comment, diffs, reply) ==
  LET own == {i \in DOMAIN diffs : Named(diffs[i], comment.path)}
      here == IF own = {} THEN comment ELSE [comment EXCEPT !.range = ResolveComment(diffs[Min(own)], comment.code)]
      there == IF here.range # NotFound THEN here ELSE RelocateAcrossFiles(here, diffs)
  IN IF there.range # NotFound \/ own = {} THEN there ELSE ReLocateComment(there, diffs[Min(own)], reply)

(* A comment leaves its file, or changes its code, only on evidence: it moves *)
(* to the one file of the change that has its code, its new code is in the    *)
(* file it was filed against, and without either it keeps both.               *)
CommentOnEvidence(comment, diffs, reply) ==
  LET filed == ResolveAndCollect(comment, diffs, reply)
      having(code) == {i \in DOMAIN diffs : ResolveComment(diffs[i], code) # NotFound}
  IN /\ filed.path # comment.path => /\ filed.code = comment.code
                                     /\ \E i \in having(comment.code) : NewPath(diffs[i]) = filed.path /\ having(comment.code) \ {i} = {}
     /\ filed.code # comment.code => /\ filed.path = comment.path
                                     /\ Cardinality(having(comment.code)) # 1
                                     /\ \E i \in having(filed.code) : Named(diffs[i], filed.path)
     /\ filed.range = NotFound => filed = comment

=============================================================================
