------------------------------ MODULE Changeset ------------------------------
(***************************************************************************)
(* Which changes a run is about (internal/diff, git.go and svn.go): the      *)
(* files of a workspace, the commits of a range, the diff of a Subversion    *)
(* checkout, and the endpoints that a resumed run is pinned to.              *)
(***************************************************************************)
EXTENDS Integers, Sequences, FiniteSets, FiniteSetsExt, SequencesExt
LOCAL D == INSTANCE DiffText

None == "none"

---------------------------------------------------------------------------
(* The files of a workspace.  A file has a path, whether the path lies in a *)
(* directory no review reads, and its content in HEAD, the index and the    *)
(* working tree.  A pattern of .gitignore is the paths it matches.          *)

\* git diff HEAD compares what is tracked, and fails before the first commit.
InTree(file) == IF file.index = None THEN None ELSE file.tree
DiffHead(files) == SelectSeq(files, LAMBDA f : InTree(f) # f.head)
DiffStaged(files) == SelectSeq(files, LAMBDA f : f.index # f.head)
Untracked(files) == SelectSeq(files, LAMBDA f : f.index = None /\ f.tree # None)

\* The pattern that matches last decides; a negated directory pattern never
\* readmits a file.
IsPathExcluded(file, patterns) ==
  LET deciding == {i \in DOMAIN patterns : file.path \in patterns[i].paths /\ ~(patterns[i].negated /\ patterns[i].directory)}
  IN file.provider \/ (deciding # {} /\ ~patterns[Max(deciding)].negated)

Entry(file, was, is) == [file |-> file, isNew |-> was = None, isDeleted |-> is = None, content |-> IF is = None THEN None ELSE file.tree]

\* The staged changes stand in when git diff HEAD fails or is empty.
WorkspaceTrackedDiff(files, born) ==
  LET changed == DiffHead(files) staged == DiffStaged(files) IN
  IF born /\ changed # <<>> THEN [i \in DOMAIN changed |-> Entry(changed[i], changed[i].head, InTree(changed[i]))]
  ELSE [i \in DOMAIN staged |-> Entry(staged[i], staged[i].head, staged[i].index)]

\* Untracked files are written as new ones; one that cannot be read is
\* left out.
UntrackedFileDiffs(files, patterns) ==
  LET listed == SelectSeq(Untracked(files), LAMBDA f : ~IsPathExcluded(f, patterns) /\ f.readable)
  IN [i \in DOMAIN listed |-> Entry(listed[i], None, listed[i].tree)]

PartitionDiffs(diffs, patterns) ==
  LET Step(set, d) ==
        IF d.file.provider THEN [set EXCEPT !.excluded = Append(@, d), !.excludedAt = Append(@, Len(set.included) + Len(set.excluded))]
        ELSE IF IsPathExcluded(d.file, patterns) THEN set
        ELSE [set EXCEPT !.included = Append(@, d)]
  IN FoldLeft(Step, [included |-> <<>>, excluded |-> <<>>, excludedAt |-> <<>>], diffs)

WorkspaceDiff(files, born, patterns) == WorkspaceTrackedDiff(files, born) \o UntrackedFileDiffs(files, patterns)
GetDiffSet(files, born, patterns) == PartitionDiffs(WorkspaceDiff(files, born, patterns), patterns)

\* The included ones that stand before each excluded one are visited first.
ForEachInOrder(set) ==
  LET Step(s, i) ==
        LET upTo == set.excludedAt[i] - (i - 1)
        IN [next |-> upTo, seen |-> s.seen \o SubSeq(set.included, s.next + 1, upTo) \o <<set.excluded[i]>>]
      last == FoldLeft(Step, [next |-> 0, seen |-> <<>>], [i \in DOMAIN set.excluded |-> i])
  IN last.seen \o SubSeq(set.included, last.next + 1, Len(set.included))

(* Every file that the working tree holds otherwise than the last commit,     *)
(* and that a review may read, is in the change with what the tree holds.     *)
WorkspaceCovered(files, born, patterns) ==
  \A i \in DOMAIN files :
    LET f == files[i] IN
    (f.tree # f.head /\ ~IsPathExcluded(f, patterns) /\ f.readable)
      => \E d \in ToSet(GetDiffSet(files, born, patterns).included) : d.file = f /\ d.content = f.tree

(* A preview lists what git lists, in git's order, the built-in exclusions in *)
(* their places.                                                              *)
PreviewInOrder(files, born, patterns) ==
  ForEachInOrder(GetDiffSet(files, born, patterns))
    = SelectSeq(WorkspaceDiff(files, born, patterns), LAMBDA d : d.file.provider \/ ~IsPathExcluded(d.file, patterns))

---------------------------------------------------------------------------
(* Endpoints.  A history gives the parents of each commit in order; a name  *)
(* is a branch, which may move between two commands of git, or a commit.    *)
NoCommit == 0

Ancestors(history, commit) == LET up[c \in DOMAIN history] == {c} \cup UNION {up[p] : p \in ToSet(history[c])} IN up[commit]
GitMergeBase(history, a, b) == LET common == Ancestors(history, a) \cap Ancestors(history, b) IN IF common = {} THEN NoCommit ELSE Max(common)
FirstParent(history, commit) == IF history[commit] = <<>> THEN NoCommit ELSE history[commit][1]

\* The commit that a name stands for when a command runs.
Rev(name, branches) == IF name \in DOMAIN branches THEN branches[name] ELSE name

\* What one load reads: the two sides of the diff, and afterwards the range it
\* records.  The merge base is computed once.
LoadDiffs(history, provider, atDiff, atResolve) ==
  IF provider.mode = "commit"
  THEN LET c == Rev(provider.to, atDiff) r == Rev(provider.to, atResolve) IN
       [diff |-> <<FirstParent(history, c), c>>, recorded |-> <<FirstParent(history, r), r>>]
  ELSE LET base == GitMergeBase(history, Rev(provider.from, atDiff), Rev(provider.to, atDiff)) IN
       [diff |-> <<base, Rev(provider.to, atDiff)>>, recorded |-> <<base, Rev(provider.to, atResolve)>>]

\* Before a resumed run is admitted its names are resolved, one at a time.
ResolveInputBeforeDiff(history, args, at1, at2) ==
  LET head == Rev(args.to, IF args.mode = "commit" THEN at1 ELSE at2) IN
  IF args.mode = "commit" THEN [base |-> FirstParent(history, head), head |-> head]
  ELSE [base |-> GitMergeBase(history, Rev(args.from, at1), head), head |-> head]

NewDiffProvider(args, sealed) ==
  IF args.mode = "commit" THEN [args EXCEPT !.to = sealed.head] ELSE [args EXCEPT !.from = sealed.base, !.to = sealed.head]

(* However its branches move meanwhile, a resumed run reviews the very        *)
(* commits that were admitted and records them; a fresh run does while they   *)
(* stay.                                                                      *)
SealedInputReviewed(history, args, at) ==
  LET sealed == ResolveInputBeforeDiff(history, args, at[1], at[2])
      admitted == LoadDiffs(history, NewDiffProvider(args, sealed), at[3], at[4])
      run == LoadDiffs(history, NewDiffProvider(args, sealed), at[5], at[6])
      fresh == LoadDiffs(history, args, at[5], at[6])
  IN /\ sealed.base # NoCommit =>
          run = admitted /\ run.diff = <<sealed.base, sealed.head>> /\ run.recorded = run.diff
     /\ at[5] = at[6] => fresh.recorded = fresh.diff

---------------------------------------------------------------------------
(* A Subversion checkout: svn diff, rewritten as git's.  Statuses are what   *)
(* svn status says of the paths of a working copy; a revision has none.      *)

\* A content line with a sign and a text: "code", or x, which stands for
\* "-- x" behind "-" and for "++ x" behind "+"; x may be a path.
SvnContent(line) ==
  LET kind == line[1] \o line[1] \o line[1] IN
  CASE line[1] = " " \/ line[2] = "code" -> D!Line(line[1], line[2])
    [] line[2] \in {"(nonexistent)", "/dev/null"} -> D!Line(kind \o " " \o line[2], line[2])
    [] OTHER -> D!Line(kind, line[2])

\* svn's output for one file, whose properties may have changed too.
SvnFile(file) ==
  <<D!Line("Index:", file.path), D!Line("===", "")>>
    \o (IF file.change = "binary" THEN <<D!Line("Cannot display", file.path)>>
        ELSE <<D!Line(IF file.change = "new" THEN "--- (nonexistent)" ELSE "---", file.path),
               D!Line(IF file.change = "deleted" THEN "+++ (nonexistent)" ELSE "+++", file.path)>>)
    \o FlattenSeq([h \in DOMAIN file.hunks |-> <<D!Line("@@", "")>> \o [i \in DOMAIN file.hunks[h] |-> SvnContent(file.hunks[h][i])]])
    \o (IF file.properties THEN <<D!Line(" ", ""), D!Line("Property changes", file.path), D!Line("##", ""), D!Line("+", "property")>> ELSE <<>>)

Has(statuses, path, item) == path \in DOMAIN statuses /\ statuses[path] = item

\* A line is told by how it begins, wherever it stands: content too.
ConvertSVNDiff(lines, statuses) ==
  LET converted(l) ==
        CASE l.kind = "Index:" -> <<D!Line("diff --git", l.text)>>
          [] l.kind = "===" -> <<>>
          [] l.kind = "Cannot display" -> <<D!Line("Binary files", l.text)>>
          [] l.kind = "--- (nonexistent)" \/ (l.kind = "---" /\ Has(statuses, l.text, "added"))
               -> <<D!Line("new file mode", ""), D!Line("--- /dev/null", "")>>
          [] l.kind = "+++ (nonexistent)" \/ (l.kind = "+++" /\ Has(statuses, l.text, "deleted"))
               -> <<D!Line("deleted file mode", ""), D!Line("+++ /dev/null", "")>>
          [] OTHER -> <<l>>
  IN FlattenSeq([i \in DOMAIN lines |-> converted(lines[i])])

(* A Subversion change is read as the same files, each as what it is, and no  *)
(* line of a file is left out; lines of a property's change may be added to a *)
(* file's own.  The exception is a line that reads as the header of a file    *)
(* that is not there, or that was added or deleted in the working copy: its   *)
(* text is lost and its own file, but no other, is taken for new or deleted.  *)
MistakenForHeader(line, statuses) ==
  \/ line[1] = "-" /\ (line[2] = "(nonexistent)" \/ Has(statuses, line[2], "added"))
  \/ line[1] = "+" /\ (line[2] = "(nonexistent)" \/ Has(statuses, line[2], "deleted"))
SvnParsed(files, statuses) ==
  LET diffs == D!ParseDiffText(ConvertSVNDiff(FlattenSeq([i \in DOMAIN files |-> SvnFile(files[i])]), statuses))
      mistaken(file, sign) == \E l \in ToSet(FlattenSeq(file.hunks)) : l[1] = sign /\ MistakenForHeader(l, statuses)
      asRead(hunk) == FlattenSeq([i \in DOMAIN hunk |-> IF MistakenForHeader(hunk[i], statuses) THEN <<<<" ", "">>, <<hunk[i][1], "">>>> ELSE <<hunk[i]>>])
  IN
  /\ [i \in DOMAIN diffs |-> diffs[i].path] = [i \in DOMAIN files |-> files[i].path]
  /\ \A i \in DOMAIN diffs :
       /\ diffs[i].isNew <=> files[i].change = "new" \/ mistaken(files[i], "-")
       /\ diffs[i].isDeleted <=> files[i].change = "deleted" \/ mistaken(files[i], "+")
       /\ diffs[i].isBinary <=> files[i].change = "binary"
       /\ LET read == D!ParseHunks(diffs[i].diff) IN
          \A h \in DOMAIN files[i].hunks : h \in DOMAIN read /\ IsPrefix(asRead(files[i].hunks[h]), read[h])
=============================================================================
