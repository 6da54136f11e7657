--------------------------- MODULE RepositoryTools ---------------------------
(***************************************************************************)
(* The tools a model looks around the repository with, and what they keep    *)
(* for a run (internal/tool: filereader.go, file_read.go, code_search.go,    *)
(* file_find.go and svn_files.go).                                           *)
(*                                                                         *)
(* A path and a line of text are the sequences of the fields that a colon    *)
(* splits them into.  A world has its paths in order, and at the reviewed    *)
(* ref and in the working tree what each of them is: a file with lines and a *)
(* size, a link whose only line is the path it names, a submodule, or gone.  *)
(* The run holds a reader: of Subversion or of git, pinned to a ref or not,  *)
(* with the files, the list of names and the searches that it keeps.         *)
(***************************************************************************)
EXTENDS Integers, Sequences, FiniteSets, FiniteSetsExt, SequencesExt, TLC
CONSTANTS MaxLines,      \* that file_read shows: 500 in the code
          MaxCount,      \* of the matches of a search, of the files found: 100
          CachedFile,    \* the size of a file that is kept: 8 MiB
          CacheBudget,   \* of all of them: 64 MiB
          CachedSearches, \* 128
          CachedAnswer   \* of one answer: 128 KiB, here its lines

---------------------------------------------------------------------------
(* file_read: a window of a file's bytes, of which "n" ends a line and "r"   *)
(* before it is dropped.  A bound of zero was not asked for.                 *)

TrimReturn(line) == IF line # <<>> /\ Last(line) = "r" THEN Front(line) ELSE line

ScanLines(content, startLine, maxLines) ==
  LET Count(s) ==
        [total |-> s.total + 1, open |-> <<>>,
         lines |-> IF s.total + 1 >= startLine /\ Len(s.lines) < maxLines THEN Append(s.lines, TrimReturn(s.open)) ELSE s.lines]
      read == FoldLeft(LAMBDA s, byte : IF byte = "n" THEN Count(s) ELSE [s EXCEPT !.open = Append(@, byte)],
                       [total |-> 0, open |-> <<>>, lines |-> <<>>], content)
  IN IF content = <<>> THEN read ELSE Count(read)

FileRead(content, start, end) ==
  LET from == IF start <= 0 THEN 1 ELSE start
      requested == end - from + 1
      read == ScanLines(content, from, IF end > 0 /\ requested < MaxLines THEN requested ELSE MaxLines)
      effectiveEnd == IF end > 0 /\ end < read.total THEN end ELSE read.total
  IN IF (end > 0 /\ requested <= 0) \/ (read.total > 0 /\ from > read.total) THEN [refused |-> TRUE]
     ELSE [refused |-> FALSE, total |-> read.total, truncated |-> effectiveEnd - (from - 1) > MaxLines,
           shown |-> [i \in DOMAIN read.lines |-> <<from + i - 1, read.lines[i]>>]]

\* The lines of a text, by where they end.
Lines(content) ==
  LET ends == SetToSortSeq({i \in DOMAIN content : content[i] = "n"} \cup {Len(content) + 1}, <)
      begin(i) == IF i = 1 THEN 1 ELSE ends[i - 1] + 1
  IN IF content = <<>> THEN <<>> ELSE [i \in DOMAIN ends |-> TrimReturn(SubSeq(content, begin(i), ends[i] - 1))]

(* A window shows the lines asked for under the numbers they have in the     *)
(* file, the first ones when there are too many, and says that it was cut    *)
(* exactly when a line that was asked for is not there.                      *)
WindowShown(content, start, end) ==
  LET lines == Lines(content)
      from == IF start <= 0 THEN 1 ELSE start
      asked == SetToSortSeq({n \in DOMAIN lines : n >= from /\ (end <= 0 \/ n <= end)}, <)
      answer == FileRead(content, start, end)
  IN IF answer.refused THEN asked = <<>>
     ELSE /\ answer.shown = [i \in 1..(IF Len(asked) < MaxLines THEN Len(asked) ELSE MaxLines) |-> <<asked[i], lines[asked[i]]>>]
          /\ answer.truncated = (Len(answer.shown) < Len(asked))
          /\ answer.total = Len(lines)

---------------------------------------------------------------------------
(* FileReader.Read.                                                         *)

NoFile == [kind |-> "gone", lines |-> <<>>, size |-> 0]
NewReader(svn, pinned) == [svn |-> svn, pinned |-> pinned, files |-> <<>>, ready |-> FALSE, names |-> <<>>, searches |-> <<>>]

\* A link is followed on disk and never out of the repository; a ref has
\* the text of the link.
ReadFromDisk(tree, path) ==
  LET real == IF tree[path].kind = "link" THEN tree[path].lines[1] ELSE path
  IN IF real \in DOMAIN tree /\ tree[real].kind = "file" THEN tree[real] ELSE NoFile
ReadUncached(reader, world, path) ==
  IF ~reader.pinned THEN ReadFromDisk(world.tree, path)
  ELSE IF world.ref[path].kind \in {"file", "link"} THEN world.ref[path] ELSE NoFile

CacheBytes(files) == MapThenSumSet(LAMBDA p : files[p].size, DOMAIN files)
Content(reader, world, path) == IF reader.svn /\ path \in DOMAIN reader.files THEN reader.files[path] ELSE ReadUncached(reader, world, path)
KeepFile(reader, path, content) ==
  IF /\ content # NoFile /\ reader.svn /\ content.size <= CachedFile
     /\ path \notin DOMAIN reader.files /\ CacheBytes(reader.files) + content.size <= CacheBudget
  THEN [reader EXCEPT !.files = @ @@ (path :> content)] ELSE reader
Read(reader, world, path) ==
  LET read(content) == [answer |-> content, reader |-> KeepFile(reader, path, content)]
  IN read(Content(reader, world, path))

---------------------------------------------------------------------------
(* The names that there are to find: of Subversion what is versioned, listed *)
(* once for a run; of git what is not ignored, an unmerged path three times. *)

SvnFilesUncached(reader, world) ==
  LET opens(path) == \/ world.tree[path].kind = "file"
                     \/ world.tree[path].kind = "link" /\ (LET to == world.tree[path].lines[1] IN to \in DOMAIN world.tree => world.tree[to].kind = "file")
      has(path) == IF reader.pinned THEN world.ref[path].kind \in {"file", "link"} ELSE path \in world.versioned /\ opens(path)
  IN SelectSeq(world.paths, LAMBDA path : has(path) /\ path \notin world.skipped)
SvnFiles(reader, world) ==
  IF reader.ready THEN [names |-> reader.names, reader |-> reader]
  ELSE LET names == SvnFilesUncached(reader, world) IN [names |-> names, reader |-> [reader EXCEPT !.ready = TRUE, !.names = names]]

ListGitFiles(reader, world) ==
  LET tracked == SelectSeq(world.paths, LAMBDA path : IF reader.pinned THEN world.ref[path].kind # "gone" ELSE path \in world.versioned)
      untracked == SelectSeq(world.paths, LAMBDA path : ~reader.pinned /\ path \notin world.versioned /\ world.tree[path].kind # "gone")
      stages(path) == IF ~reader.pinned /\ path \in world.unmerged THEN <<path, path, path>> ELSE <<path>>
  IN SelectSeq(untracked \o FlattenSeq([i \in DOMAIN tracked |-> stages(tracked[i])]), LAMBDA path : path \notin world.skipped)

\* A query is told by the paths whose base name, and whose whole path, has it.
FileFind(names, query) ==
  LET First(matching) == FoldLeft(LAMBDA found, path : IF Len(found) < MaxCount /\ path \in matching THEN Append(found, path) ELSE found, <<>>, names)
  IN IF First(query.base) # <<>> THEN First(query.base) ELSE First(query.path)

Names(reader, world) == IF reader.svn THEN SvnFiles(reader, world).names ELSE ListGitFiles(reader, world)

(* Unless it was cut at the maximum, the answer has every file of that name   *)
(* that a read opens; and what it names a read opens, unless it is a           *)
(* submodule, is gone from disk or leads out of the repository.                *)
FilesFound(reader, world, query) ==
  LET found == FileFind(Names(reader, world), query)
      opens(path) == Content(reader, world, path) # NoFile
      offered(path) == path \notin world.skipped /\ (reader.svn /\ ~reader.pinned => path \in world.versioned)
      entry(path) == IF reader.pinned THEN world.ref[path] ELSE world.tree[path]
      some == \E path \in query.base : path \in ToSet(Names(reader, world))
  IN /\ Len(found) < MaxCount => {path \in IF some THEN query.base ELSE query.path : offered(path) /\ opens(path)} \subseteq ToSet(found)
     /\ Len(found) <= MaxCount
     /\ \A path \in ToSet(found) : opens(path) \/ entry(path).kind \in {"submodule", "gone"} \/ entry(path).lines[1] \notin DOMAIN world.tree

---------------------------------------------------------------------------
(* code_search.  A key has the term and the paths that the patterns match.   *)

Binary(entry) == \E i \in DOMAIN entry.lines : "nul" \in ToSet(entry.lines[i])
Matches(path, entry, term) ==
  SelectSeq([i \in DOMAIN entry.lines |-> <<path, i, entry.lines[i]>>], LAMBDA m : term \in ToSet(m[3]))

\* What git grep prints: path, number and line, after the ref if there is one,
\* and of a file no more than one match past the maximum.
GitGrepOutput(reader, world, key) ==
  LET entry(path) == IF reader.pinned THEN world.ref[path] ELSE world.tree[path]
      searched == SelectSeq(world.paths, LAMBDA path : path \in key.within /\ entry(path).kind = "file" /\ ~Binary(entry(path)))
      few(seq) == SubSeq(seq, 1, IF Len(seq) <= MaxCount THEN Len(seq) ELSE MaxCount + 1)
      print(m) == (IF reader.pinned THEN <<"ref">> ELSE <<>>) \o m[1] \o <<ToString(m[2])>> \o m[3]
      printed(path) == LET found == few(Matches(path, entry(path), key.term)) IN [i \in DOMAIN found |-> print(found[i])]
  IN FlattenSeq([i \in DOMAIN searched |-> printed(searched[i])])

Nothing == [error |-> FALSE, shown |-> <<>>, cut |-> FALSE, files |-> {}]
Failed == [Nothing EXCEPT !.error = TRUE]

\* The fields before the line are taken to be one each; a line whose number
\* is none is skipped, and past the maximum only the files are counted.
GitGrep(reader, world, key) ==
  LET output == GitGrepOutput(reader, world, key)
      at == IF reader.pinned THEN 2 ELSE 1
      numbers == 1..9
      Parse(s, line) ==
        IF Len(line) < at + 2 \/ ~\E n \in numbers : ToString(n) = line[at + 1] THEN s
        ELSE LET counted == [s EXCEPT !.files = @ \cup {<<line[at]>>}]
             IN IF Len(s.shown) >= MaxCount THEN [counted EXCEPT !.cut = TRUE]
                ELSE [counted EXCEPT !.shown = Append(@, <<<<line[at]>>, CHOOSE n \in numbers : ToString(n) = line[at + 1], SubSeq(line, at + 2, Len(line))>>)]
  IN IF world.git \in {"timeout", "failed"} /\ (world.git = "timeout" \/ output = <<>>) THEN Failed ELSE FoldLeft(Parse, Nothing, output)

\* A file that cannot be read is passed over on disk and ends a search of a
\* revision; what is read is kept for reads to come.
SvnGrep(reader, world, key) ==
  LET searched(content) == content # NoFile /\ content.size <= CachedFile /\ ~Binary(content)
      Show(result, found, room) ==
        [result EXCEPT !.shown = @ \o SubSeq(found, 1, IF Len(found) < room THEN Len(found) ELSE room), !.cut = @ \/ Len(found) > room]
      Take(s, path, content) ==
        IF content = NoFile /\ reader.pinned THEN [s EXCEPT !.result = Failed]
        ELSE [reader |-> KeepFile(s.reader, path, content),
              result |-> IF searched(content) THEN Show(s.result, Matches(path, content, key.term), MaxCount - Len(s.result.shown)) ELSE s.result]
      Search(s, path) ==
        IF s.result.error \/ path \notin key.within THEN s ELSE Take(s, path, Content(s.reader, world, path))
      all(listed) == FoldLeft(Search, [reader |-> listed.reader, result |-> Nothing], listed.names)
  IN all(SvnFiles(reader, world))

\* A search is asked once: an answer that is no error and not too long is
\* kept, whatever changes on disk.
KeepSearch(reader, key, result) ==
  IF ~result.error /\ Len(result.shown) <= CachedAnswer /\ Cardinality(DOMAIN reader.searches) < CachedSearches
  THEN [reader EXCEPT !.searches = @ @@ (key :> result)] ELSE reader
Search(reader, world, key) ==
  LET ran(run) == [answer |-> run.result, reader |-> KeepSearch(run.reader, key, run.result)]
  IN IF key \in DOMAIN reader.searches THEN [answer |-> reader.searches[key], reader |-> reader]
     ELSE ran(IF reader.svn THEN SvnGrep(reader, world, key) ELSE [reader |-> reader, result |-> GitGrep(reader, world, key)])

(* A search shows the first matches of the files it is for, each with the     *)
(* number and the text that a read shows, and says that there are more when    *)
(* there are - if no path has a colon, which git does not mark off.            *)
ShowsMatches(reader, world, key, answer) ==
  LET entry(path) == ReadUncached(reader, world, path)
      searched(path) == /\ path \in key.within /\ ~Binary(entry(path)) /\ (reader.svn => entry(path).size <= CachedFile)
                        /\ IF reader.svn THEN path \in ToSet(SvnFiles(reader, world).names)
                           ELSE (IF reader.pinned THEN world.ref ELSE world.tree)[path].kind = "file"
      files == SelectSeq(world.paths, searched)
      all == FlattenSeq([i \in DOMAIN files |-> Matches(files[i], entry(files[i]), key.term)])
  IN ~answer.error /\ (reader.svn \/ \A i \in DOMAIN world.paths : Len(world.paths[i]) = 1) =>
       /\ answer.shown = SubSeq(all, 1, IF Len(all) < MaxCount THEN Len(all) ELSE MaxCount)
       /\ answer.cut = (Len(all) > MaxCount)
       /\ ~reader.svn => answer.files = {all[i][1] : i \in DOMAIN all}

MatchesShown(reader, world, key) == ShowsMatches(reader, world, key, Search(reader, world, key).answer)

---------------------------------------------------------------------------
(* A run of the tools while somebody edits the working tree: an operation     *)
(* reads a path, searches for a key, or puts an entry at a path.              *)

Answers(reader, world, operations) ==
  LET Note(s, operation, done) ==
        [s EXCEPT !.reader = done.reader, !.answers = Append(@, [operation |-> operation, answer |-> done.answer, tree |-> s.world.tree])]
      Do(s, operation) ==
        CASE operation[1] = "edit" -> [s EXCEPT !.world.tree[operation[2]] = operation[3]]
          [] operation[1] = "read" -> Note(s, operation, Read(s.reader, s.world, operation[2]))
          [] operation[1] = "search" -> Note(s, operation, Search(s.reader, s.world, operation[2]))
  IN FoldLeft(Do, [reader |-> reader, world |-> world, answers |-> <<>>], operations).answers

(* A run that is pinned answers from its ref.  In a working copy that is       *)
(* edited meanwhile a search whose answer may be kept repeats itself, reads of *)
(* git see the disk, and those of Subversion repeat themselves and show what   *)
(* searches showed as long as the files there were fit what is kept.           *)
Agree(reader, world, operations, answers) ==
  LET fresh(operation) == (IF operation[1] = "read" THEN Read(reader, world, operation[2]) ELSE Search(reader, world, operation[2])).answer
      everywhere(path) == {world.tree[path]} \cup {operations[i][3] : i \in {k \in DOMAIN operations : operations[k][1] = "edit" /\ operations[k][2] = path}}
      largest(path) == Max({e.size : e \in everywhere(path)})
      fits == /\ \A path \in DOMAIN world.tree : largest(path) <= CachedFile
              /\ Cardinality(DOMAIN world.tree) * Max({largest(path) : path \in DOMAIN world.tree}) <= CacheBudget
      keys == {operations[i][2] : i \in {k \in DOMAIN operations : operations[k][1] = "search"}}
      is(i, kind) == answers[i].operation[1] = kind
  IN /\ reader.pinned => \A i \in DOMAIN answers : answers[i].answer = fresh(answers[i].operation)
     /\ Cardinality(keys) <= CachedSearches =>
          \A i, j \in DOMAIN answers :
            i < j /\ is(i, "search") /\ answers[i].operation = answers[j].operation
              /\ ~answers[i].answer.error /\ Len(answers[i].answer.shown) <= CachedAnswer => answers[j].answer = answers[i].answer
     /\ ~reader.pinned /\ ~reader.svn =>
          \A i \in DOMAIN answers : is(i, "read") => answers[i].answer = ReadFromDisk(answers[i].tree, answers[i].operation[2])
     /\ reader.svn /\ fits =>
          \A i, j \in DOMAIN answers :
            /\ i < j /\ is(i, "read") /\ answers[i].operation = answers[j].operation /\ answers[i].answer # NoFile => answers[j].answer = answers[i].answer
            /\ is(i, "search") /\ is(j, "read") /\ i < j =>
                 \A m \in ToSet(answers[i].answer.shown) :
                   m[1] = answers[j].operation[2] => m[2] \in DOMAIN answers[j].answer.lines /\ answers[j].answer.lines[m[2]] = m[3]

AnswersAgree(reader, world, operations) == Agree(reader, world, operations, Answers(reader, world, operations))
=============================================================================
