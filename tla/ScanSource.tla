----------------------------- MODULE ScanSource -----------------------------
(***************************************************************************)
(* What a full scan reads: the files that its selectors name, those it keeps *)
(* and what they are estimated to cost (internal/scan: provider.go,          *)
(* preview.go, estimate.go and the selection in agent.go).                   *)
(*                                                                         *)
(* A path is a sequence of names, a name a word in a case.  A source is a    *)
(* directory: its entries [path, kind, to, size, readable] in the order of   *)
(* a walk, where a link goes to a path, to Missing or Outside;               *)
(* whether names that differ in case are one; whether it is a repository of   *)
(* git and then its index, with unmerged paths repeated; and the paths that   *)
(* git or the built-in patterns ignore, with all below them.                 *)
(***************************************************************************)
EXTENDS Integers, Sequences, FiniteSets, FiniteSetsExt, SequencesExt
CONSTANT MaxFileSize \* two MiB in the code
Selection == INSTANCE Selection WITH MaxFilesPerGroup <- 10

Missing == <<<<"missing", "">>>>
Outside == <<<<"..", "">>>>

---------------------------------------------------------------------------
(* NewProvider.                                                             *)

\* A blank selector is dropped, and one that names the root selects all.
Blank == <<<<"blank", "">>>>
Cleaned(selectors) ==
  LET named == SelectSeq(selectors, LAMBDA w : w # Blank)
  IN IF <<>> \in ToSet(named) THEN <<>> ELSE named

---------------------------------------------------------------------------
(* listFiles.                                                               *)

Entries(source) == ToSet(source.entries)
IsPathExcluded(source, path) == \E p \in source.ignored : IsPrefix(p, path)

\* The index has what it has, ignored or not and on disk or not; an entry
\* that it has twice is listed once.
ListFilesViaGit(source) ==
  LET indexed == ToSet(source.index)
      inside(e) == e.kind # "directory" /\ e.path \notin indexed /\ ~\E p \in source.untold : IsPrefix(p, e.path)
      untracked == SelectSeq(source.entries, inside)
  IN FoldLeft(LAMBDA all, path : IF path \in ToSet(all) THEN all ELSE Append(all, path),
              <<>>, source.index \o [i \in DOMAIN untracked |-> untracked[i].path])
ListFilesViaWalk(source) ==
  LET files == SelectSeq(source.entries, LAMBDA e : e.kind = "file" /\ ~IsPathExcluded(source, e.path))
  IN [i \in DOMAIN files |-> files[i].path]
ListFiles(source) == IF source.git THEN ListFilesViaGit(source) ELSE ListFilesViaWalk(source)

---------------------------------------------------------------------------
(* filterByPaths.                                                           *)

SameName(source, one, other) == one = other \/ (source.foldsCase /\ one[1] = other[1])
Found(source, dir, name) == {e \in Entries(source) : e.path # <<>> /\ Front(e.path) = dir /\ SameName(source, Last(e.path), name)}

\* Links are followed; a name keeps the case it was asked in.
EvalSymlinks(source, path) ==
  LET Enter(s, e, name) == IF e.kind = "link" THEN [dir |-> e.to, asked |-> e.to] ELSE [dir |-> e.path, asked |-> Append(s.asked, name)]
      Step(s, name) ==
        IF s.dir \in {Missing, Outside} THEN s
        ELSE IF Found(source, s.dir, name) = {} THEN [dir |-> Missing, asked |-> Missing]
        ELSE Enter(s, CHOOSE e \in Found(source, s.dir, name) : TRUE, name)
  IN IF path = Outside THEN Outside ELSE FoldLeft(Step, [dir |-> <<>>, asked |-> <<>>], path).asked

\* An entry of that very name before one that the file system takes for it.
OnDiskName(source, dir, name) ==
  LET found == Found(source, dir, name)
      exact == {e \in found : Last(e.path) = name}
  IN Last((CHOOSE e \in IF exact # {} THEN exact ELSE found : TRUE).path)

ResolveSelector(source, want) ==
  LET Spelled(real) == FoldLeft(LAMBDA at, name : Append(at, OnDiskName(source, at, name)), <<>>, real)
      Within(real) == IF real \in {Missing, Outside} THEN real ELSE Spelled(real)
  IN Within(EvalSymlinks(source, want))

\* "." is what the root resolves to, which is no prefix of a listed path.
PathMatches(path, want) == want # <<>> /\ IsPrefix(want, path)

Refused == [refused |-> TRUE, files |-> <<>>]
FilterByPaths(source, paths, all) ==
  LET exact(want) == \E path \in ToSet(all) : PathMatches(path, want)
      names == [want \in ToSet(paths) |-> IF exact(want) THEN want ELSE ResolveSelector(source, want)]
      keep(named) == IF Missing \in named THEN Refused
                     ELSE [refused |-> FALSE, files |-> SelectSeq(all, LAMBDA path : \E want \in named : PathMatches(path, want))]
  IN keep({names[want] : want \in ToSet(paths)})

---------------------------------------------------------------------------
(* Enumerate.                                                               *)

\* What is ignored, gone, no regular file, large or unreadable is left out.
\* git has already left out what it does not track.
Lstat(source, path) == {e \in Entries(source) : Len(e.path) = Len(path) /\ \A i \in DOMAIN path : SameName(source, e.path[i], path[i])}
Reviewable(source, path) ==
  /\ ~IsPathExcluded(source, path)
  /\ \E e \in Lstat(source, path) : e.kind = "file" /\ e.size <= MaxFileSize /\ e.readable

Enumerate(source, selectors) ==
  LET select(paths, listed) == IF paths = <<>> THEN [refused |-> FALSE, files |-> listed] ELSE FilterByPaths(source, paths, listed)
      enumerate(selected) == IF selected.refused THEN Refused ELSE [selected EXCEPT !.files = SelectSeq(@, LAMBDA path : Reviewable(source, path))]
  IN enumerate(select(Cleaned(selectors), ListFiles(source)))

(* Every file that a selector leads to, by its spelling, in any case that the  *)
(* file system takes for it or through a link, is scanned once and no other,    *)
(* but for a link that git itself lists, which is no file; and a scan is        *)
(* refused when a selector leads nowhere and names nothing that git tracks.     *)
ScanCovers(source, selectors, scan, listed) ==
  LET paths == {selectors[i] : i \in DOMAIN selectors} \ {Blank}
      whole == paths = {} \/ <<>> \in paths
      same(one, other) == Len(one) = Len(other) /\ \A i \in DOMAIN one : SameName(source, one[i], other[i])
      under(path, dir) == Len(path) >= Len(dir) /\ same(SubSeq(path, 1, Len(dir)), dir)
      links(want) == {e \in Entries(source) : e.kind = "link" /\ under(want, e.path)}
      goal(want) == IF links(want) = {} THEN want
                    ELSE LET e == CHOOSE e \in links(want) : TRUE
                         IN IF e.to \in {Missing, Outside} THEN e.to ELSE e.to \o SubSeq(want, Len(e.path) + 1, Len(want))
      exists(want) == goal(want) \in {<<>>, Outside} \/ \E e \in Entries(source) : same(e.path, goal(want))
      leads(want, path) == goal(want) # <<>> /\ under(path, goal(want)) /\ ~(want \in listed /\ links(want) # {})
      selected(path) == path \in listed /\ Reviewable(source, path) /\ (whole \/ \E want \in paths : leads(want, path))
      times(path) == Cardinality({i \in DOMAIN scan.files : scan.files[i] = path})
  IN IF ~whole /\ \E want \in paths : ~exists(want) /\ ~\E path \in listed : IsPrefix(want, path) THEN scan.refused
     ELSE ~scan.refused /\ \A path \in listed \cup ToSet(scan.files) : times(path) = IF selected(path) THEN 1 ELSE 0

SelectedIsScanned(source, selectors) == ScanCovers(source, selectors, Enumerate(source, selectors), ToSet(ListFiles(source)))

(* A directory is scanned alike whether or not it is a repository of git, as   *)
(* long as nothing is ignored that only git knows of and no selector is a link  *)
(* that git lists.                                                              *)
ScannedAlike(source, selectors) ==
  LET repository == Enumerate([source EXCEPT !.git = TRUE], selectors)
      plain == Enumerate([source EXCEPT !.git = FALSE], selectors)
      links == {e.path : e \in {e \in Entries(source) : e.kind = "link"}}
  IN source.untold = {} /\ ToSet(selectors) \cap links = {} /\ ~repository.refused /\ ~plain.refused => ToSet(repository.files) = ToSet(plain.files)

---------------------------------------------------------------------------
(* The items: what their path says of them (marks) and their tokens, of       *)
(* which an empty file and one that is binary have none.                       *)

SelectScanItems(items, limit) ==
  [i \in DOMAIN items |->
     LET why == Selection!WhyExcluded(items[i])
     IN [item |-> items[i], reason |-> IF why = "none" /\ limit > 0 /\ items[i].tokens > limit THEN "too large" ELSE why]]
SelectedScanItems(decisions) ==
  LET kept == SelectSeq(decisions, LAMBDA d : d.reason = "none") IN [i \in DOMAIN kept |-> kept[i].item]

Preview(items, limit) ==
  LET decisions == SelectScanItems(items, limit)
      will == {i \in DOMAIN decisions : decisions[i].reason = "none"}
  IN [total |-> Len(items), reviewable |-> Cardinality(will), excluded |-> Len(items) - Cardinality(will),
      entries |-> [i \in DOMAIN decisions |-> [item |-> items[i], review |-> i \in will]]]

PromptOverheadTokens == 2000
AvgMainRoundsPerFile == 7
AvgOutputTokensPerRound == 700
PlanOutput == 400
CommentsPerFile == 3

EstimateFileTokens(item, plan) ==
  IF item.tokens = 0 THEN 0
  ELSE (IF plan THEN item.tokens + PromptOverheadTokens + PlanOutput ELSE 0)
       + (item.tokens + PromptOverheadTokens) * AvgMainRoundsPerFile + AvgOutputTokensPerRound * AvgMainRoundsPerFile

\* Input and output are told apart, and the calls over all comments added.
EstimateCost(items, plan, dedup, summary) ==
  LET told == SelectSeq(items, LAMBDA item : item.tokens > 0)
      calls == AvgMainRoundsPerFile + IF plan THEN 1 ELSE 0
      comments == CommentsPerFile * Len(told)
      over(enabled, output) == IF enabled /\ comments > 0 THEN [input |-> comments * 120 + PromptOverheadTokens, output |-> output] ELSE [input |-> 0, output |-> 0]
      deduped == over(dedup, comments * 20)
      summed == over(summary, 2000)
      input == FoldLeft(LAMBDA n, item : n + (item.tokens + PromptOverheadTokens) * calls, 0, told) + deduped.input + summed.input
      output == Len(told) * (AvgOutputTokensPerRound * AvgMainRoundsPerFile + IF plan THEN PlanOutput ELSE 0) + deduped.output + summed.output
  IN [files |-> Len(told), input |-> input, output |-> output, total |-> input + output]

(* A preview shows the items that a run then reviews, every other with a       *)
(* reason; and a budget that the estimate of a run does not exceed is not       *)
(* exceeded by the estimates its files are started on.                          *)
ScanIsForeseen(items, limit, plan, dedup, summary) ==
  LET run == SelectedScanItems(SelectScanItems(items, limit))
      shown == Preview(items, limit)
      reviewed == SelectSeq(shown.entries, LAMBDA e : e.review)
      started == FoldLeft(LAMBDA n, item : n + EstimateFileTokens(item, plan), 0, run)
      estimate == EstimateCost(run, plan, dedup, summary)
  IN /\ run = [i \in DOMAIN reviewed |-> reviewed[i].item]
     /\ shown.reviewable = Len(run) /\ shown.total = shown.reviewable + shown.excluded
     /\ started <= estimate.total
     /\ ~dedup /\ ~summary => started = estimate.total

---------------------------------------------------------------------------
(* groupBatches: key[item] is the rank of its language or first directory, or *)
(* its own; a size of 0 is no limit.                                          *)

Pieces(items, size) ==
  LET from(k) == (k - 1) * size + 1
  IN IF size = 0 THEN <<items>>
     ELSE [k \in 1..((Len(items) + size - 1) \div size) |-> SubSeq(items, from(k), Min({k * size, Len(items)}))]

GroupBatches(items, key, size) ==
  LET keys == SetToSortSeq({key[item] : item \in ToSet(items)}, <)
  IN FlattenSeq([k \in DOMAIN keys |-> Pieces(SelectSeq(items, LAMBDA item : key[item] = keys[k]), size)])

(* Every item is in one batch, with others of its key and in their order; a    *)
(* key has no more batches than it needs.                                     *)
BatchesWhole(items, key, size) ==
  LET batches == GroupBatches(items, key, size)
      all == FlattenSeq(batches)
      place(item) == CHOOSE i \in DOMAIN items : items[i] = item
      keyOf(b) == key[batches[b][1]]
  IN /\ Len(all) = Len(items) /\ ToSet(all) = ToSet(items)
     /\ \A i, j \in DOMAIN all : i < j => key[all[i]] < key[all[j]] \/ (key[all[i]] = key[all[j]] /\ place(all[i]) < place(all[j]))
     /\ \A b \in DOMAIN batches :
          /\ batches[b] # <<>> /\ \A item \in ToSet(batches[b]) : key[item] = keyOf(b)
          /\ size > 0 => Len(batches[b]) <= size
          /\ b > 1 /\ keyOf(b - 1) = keyOf(b) => size > 0 /\ Len(batches[b - 1]) = size
=============================================================================
