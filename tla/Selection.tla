------------------------------ MODULE Selection ------------------------------
(***************************************************************************)
(* From the changed files to the conversations of a review                  *)
(* (internal/agent: selection.go, preview.go, grouping.go, identity.go and   *)
(* the prompts and the filter of agent.go).                                  *)
(*                                                                         *)
(* A changed file has its paths, whether it is deleted, what its path and    *)
(* header say of it (marks), its tokens and whether a checkpoint covers it.  *)
(***************************************************************************)
EXTENDS Integers, Sequences, FiniteSets, FiniteSetsExt, SequencesExt
CONSTANT MaxFilesPerGroup \* ten in the code

---------------------------------------------------------------------------
(* selectFiles.                                                             *)

\* Credentials come before the user's rules, and an include before the
\* allowlists.
WhyExcluded(file) ==
  CASE "binary" \in file.marks -> "binary"
    [] "secret" \in file.marks -> "secret"
    [] "excluded" \in file.marks -> "user rule"
    [] "included" \in file.marks -> "none"
    [] "extension" \in file.marks -> "extension"
    [] "default" \in file.marks -> "default path"
    [] OTHER -> "none"

Decide(file, limit) ==
  CASE WhyExcluded(file) # "none" -> WhyExcluded(file)
    [] file.deleted -> "deleted"
    [] limit > 0 /\ file.tokens > limit -> "too large"
    [] OTHER -> "none"
WillReview(files, limit) == SelectSeq(files, LAMBDA f : Decide(f, limit) = "none")

\* Deletions stay for the prompts.
SummarizeSelection(files, limit) == SelectSeq(files, LAMBDA f : Decide(f, limit) \in {"none", "deleted"})

\* registerCoverage, applyResume and the dispatch each leave deletions out.
Present(files) == SelectSeq(files, LAMBDA f : ~f.deleted)
Reused(kept) == SelectSeq(Present(kept), LAMBDA f : f.checkpointed)
ToDispatch(kept) == SelectSeq(Present(kept), LAMBDA f : ~f.checkpointed)

---------------------------------------------------------------------------
(* groupDiffs.  A group is a sequence of files.                             *)

Alone(files) == [i \in DOMAIN files |-> <<files[i]>>]
GroupTokens(group) == FoldLeft(LAMBDA n, f : n + f.tokens, 0, group)

(* Mutated: what exceeds the maximum is dropped from a group.               *)
TruncateGroups(groups) == [i \in DOMAIN groups |-> SubSeq(groups[i], 1, IF Len(groups[i]) < MaxFilesPerGroup THEN Len(groups[i]) ELSE MaxFilesPerGroup)]

EnforceMaxFilesPerGroup(groups) ==
  LET chunks(g) == [c \in 1..((Len(g) + MaxFilesPerGroup - 1) \div MaxFilesPerGroup) |->
                      SubSeq(g, (c - 1) * MaxFilesPerGroup + 1, IF c * MaxFilesPerGroup < Len(g) THEN c * MaxFilesPerGroup ELSE Len(g))]
  IN FlattenSeq([i \in DOMAIN groups |-> chunks(groups[i])])
EnforceGroupTokenBudget(groups, limit) ==
  IF limit <= 0 THEN groups
  ELSE FlattenSeq([i \in DOMAIN groups |-> IF GroupTokens(groups[i]) <= limit THEN <<groups[i]>> ELSE Alone(groups[i])])

\* The model's answer groups files by index: an index that names no file or
\* was seen is skipped, and a file it left out stands alone.
ParseGroupingResponse(answer, files) ==
  LET Take(s, index) ==
        IF index \notin 0..(Len(files) - 1) \/ index \in s.seen THEN s
        ELSE [seen |-> s.seen \cup {index}, group |-> Append(s.group, files[index + 1])]
      Step(s, indices) ==
        LET taken == FoldLeft(Take, [seen |-> s.seen, group |-> <<>>], indices)
        IN [seen |-> taken.seen, groups |-> IF taken.group = <<>> THEN s.groups ELSE Append(s.groups, taken.group)]
      read == FoldLeft(Step, [seen |-> {}, groups |-> <<>>], answer)
      left == SelectSeq([i \in DOMAIN files |-> i - 1], LAMBDA i : i \notin read.seen)
  IN EnforceMaxFilesPerGroup(read.groups \o [i \in DOMAIN left |-> <<files[left[i] + 1]>>])

\* The plan of the partition is to ask the model, to bundle, or one group per
\* file, which also stands in when the model's answer cannot be had or read.
GroupDiffs(files, plan, answer, limit) ==
  CASE Len(files) <= 1 \/ plan \in {"per file", "failed"} -> Alone(files)
    [] plan = "bundle" -> EnforceGroupTokenBudget(EnforceMaxFilesPerGroup(<<files>>), limit)
    [] plan = "model" -> EnforceGroupTokenBudget(ParseGroupingResponse(answer, files), limit)

(* What a preview promises is what the run seals, and every sealed file is    *)
(* either reused or reviewed in one group, whatever the model answers; only a *)
(* file alone may exceed a group's tokens.                                    *)
SealedIsReviewed(files, plan, answer, limit) ==
  LET kept == SummarizeSelection(files, limit)
      groups == IF ToDispatch(kept) = <<>> THEN <<>> ELSE GroupDiffs(ToDispatch(kept), plan, answer, limit)
      reviewed == FlattenSeq(groups)
      is(seq, f) == Cardinality({i \in DOMAIN seq : seq[i] = f})
  IN /\ Present(kept) = WillReview(files, limit)
     /\ \A i \in DOMAIN files : is(Present(kept), files[i]) = is(reviewed, files[i]) + is(Reused(kept), files[i])
     /\ Len(reviewed) + Len(Reused(kept)) = Len(Present(kept))
     /\ \A i \in DOMAIN groups :
          /\ Len(groups[i]) \in 1..MaxFilesPerGroup
          /\ Len(groups[i]) > 1 /\ limit > 0 => GroupTokens(groups[i]) <= limit

---------------------------------------------------------------------------
(* The prompt of a group.                                                   *)

\* The other files of the change are listed without their diffs, leaving out
\* binaries and what has a path of the group.
BuildChangeFilesExceptGroup(kept, group) ==
  LET paths == UNION {{group[i].new, group[i].old} : i \in DOMAIN group}
  IN SelectSeq(kept, LAMBDA f : "binary" \notin f.marks /\ f.old \notin paths /\ (f.deleted \/ f.new \notin paths))

(* Unless a path is taken again after a rename, the prompt of every group     *)
(* tells of every file of the change once, by its diff or by its name.        *)
PromptsTellAll(files, plan, answer, limit) ==
  LET kept == SummarizeSelection(files, limit)
      groups == GroupDiffs(ToDispatch(kept), plan, answer, limit)
  IN (\A i, j \in DOMAIN kept : i # j => {kept[i].old, kept[i].new} \cap {kept[j].old, kept[j].new} = {}) =>
       \A g \in DOMAIN groups :
         LET listed == BuildChangeFilesExceptGroup(kept, groups[g]) IN
         /\ Len(groups[g]) + Len(listed) = Len(kept)
         /\ ToSet(groups[g]) \cup ToSet(listed) = ToSet(kept)

---------------------------------------------------------------------------
(* executeGroupReviewFilter.  The collector holds comments [path, n] in     *)
(* order; "from" says how many of each path an earlier round confirmed.     *)

CommentsForPath(collector, path) == SelectSeq(collector, LAMBDA c : c.path = path)

\* The candidates of a group, with their places among their path's comments.
Candidates(collector, paths, from) ==
  LET of(path) ==
        LET all == CommentsForPath(collector, path)
            start == IF from[path] > Len(all) THEN Len(all) ELSE from[path]
        IN [i \in 1..(Len(all) - start) |-> [path |-> path, place |-> start + i]]
  IN FlattenSeq([i \in DOMAIN paths |-> of(paths[i])])

\* The indices that the answer names, of the candidates there are; an answer
\* in text counts only when no tool was called, and one that cannot be read
\* removes nothing.
ParseFilterAnswer(answer, total) ==
  LET reports == SelectSeq(answer.calls, LAMBDA c : c.readable)
      named == IF reports # <<>> THEN UNION {ToSet(reports[i].ids) : i \in DOMAIN reports} ELSE ToSet(answer.text)
  IN {i \in named : i \in 0..(total - 1)}

RemoveByPathAndIndices(collector, path, places) ==
  LET Step(s, c) ==
        IF c.path # path THEN [s EXCEPT !.left = Append(@, c)]
        ELSE [left |-> IF s.at + 1 \in places THEN s.left ELSE Append(s.left, c), at |-> s.at + 1]
  IN FoldLeft(Step, [left |-> <<>>, at |-> 0], collector).left

ExecuteGroupReviewFilter(collector, paths, from, answer) ==
  LET candidates == Candidates(collector, paths, from)
      indices == ParseFilterAnswer(answer, Len(candidates))
  IN FoldLeft(LAMBDA c, path : RemoveByPathAndIndices(c, path, {candidates[i + 1].place : i \in {j \in indices : candidates[j + 1].path = path}}), collector, paths)

(* A filter removes the comments it was shown and named, and no other: not    *)
(* one of an earlier round, of another path, or of an id that was made up.    *)
FilterRemovesNamed(collector, paths, from, answer) ==
  LET shown == Candidates(collector, paths, from)
      comment(c) == CommentsForPath(collector, c.path)[c.place]
      named == {comment(shown[i + 1]) : i \in ParseFilterAnswer(answer, Len(shown))}
  IN ExecuteGroupReviewFilter(collector, paths, from, answer) = SelectSeq(collector, LAMBDA c : c \notin named)
=============================================================================
