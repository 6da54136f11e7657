---------------------------- MODULE MCAlgorithms ----------------------------
(***************************************************************************)
(* The pure algorithms, each over bounded inputs: a step picks the inputs   *)
(* of one of them.                                                          *)
(***************************************************************************)
EXTENDS Integers, Sequences, FiniteSets, FiniteSetsExt, SequencesExt, TLC
CONSTANT AnswerItems \* items in one answer of the model
W == INSTANCE Wire
D == INSTANCE DiffText
C == INSTANCE Changeset
R == INSTANCE RuleConfig
S == INSTANCE Selection WITH MaxFilesPerGroup <- 2
V == INSTANCE SessionViews
P == INSTANCE ScanSource WITH MaxFileSize <- 2
T == INSTANCE RepositoryTools WITH MaxLines <- 2, MaxCount <- 2, CachedFile <- 2, CacheBudget <- 4, CachedSearches <- 2, CachedAnswer <- 1

VARIABLES subject, input
vars == <<subject, input>>
Init == subject = "none" /\ input = <<>>

Answers(t) ==
  {[i \in 1..Len(kinds) |-> W!Item(kinds[i], <<t, i>>)] : kinds \in BoundedSeq({"text", "tagged", "thinking", "call"}, IF t = 1 THEN AnswerItems ELSE AnswerItems - 1)}
PickConversation ==
  /\ subject' = "conversation"
  /\ \E family \in W!Families, first \in Answers(1), second \in Answers(2) : input' = <<family, <<first, second>>>>
PickStream ==
  /\ subject' = "stream"
  /\ \E client \in {"chat", "responses", "plan"}, ending \in {"completed", "incomplete", "failed"}, n \in 0..AnswerItems, cut \in 0..(AnswerItems + 1) :
       \E order \in IF client = "chat" THEN {[i \in 1..n |-> i]} ELSE {p \in [1..n -> 1..n] : \A i, j \in 1..n : p[i] = p[j] => i = j} :
         cut <= n + 1 /\ input' = <<client, ending, order, cut>>

Signs == {"+", "-", " "}
Changes == {"new", "untracked", "deleted", "renamed", "binary", "modified"}
SignOf(change) == CASE change \in {"new", "untracked"} -> {"+"} [] change = "deleted" -> {"-"} [] OTHER -> Signs
\* One file with up to two hunks of lines that look like a header, or two files.
ChangedFiles(path, hunks) ==
  UNION {{[path |-> path, change |-> c, hunks |-> h] :
            h \in IF c = "binary" THEN {<<>>} ELSE [1..hunks -> BoundedSeq({<<s, t>> : s \in SignOf(c), t \in {"lookalike", "a"}}, 2) \ {<<>>}]} : c \in Changes}
PickDiffText ==
  /\ subject' = "diff"
  /\ \/ \E f \in ChangedFiles("p", 2) : input' = <<f>>
     \/ \E f \in ChangedFiles("p", 1), g \in ChangedFiles("q", 1) : input' = <<f, g>>

Codes == {<<"a">>, <<"b">>, <<"a", "b">>}
PickTarget ==
  /\ subject' = "target"
  /\ \E before, after \in BoundedSeq({"a", ""}, 2), lines \in BoundedSeq({<<s, t>> : s \in Signs, t \in {"a", "b", ""}}, 3) \ {<<>>}, target \in Codes :
       input' = <<before, lines, after, target>>

\* A whole file that was written or removed, of the lines given.
Whole(path, was, deleted, text) ==
  [old |-> was, new |-> path, deleted |-> deleted,
   hunks |-> <<[start |-> 1, lines |-> [i \in DOMAIN text |-> <<IF deleted THEN "-" ELSE "+", text[i]>>]]>>,
   content |-> IF deleted THEN <<>> ELSE text]
PickComment ==
  /\ subject' = "comment"
  /\ \E one, two, three \in {<<"a">>, <<"b">>, <<"a", "b">>, <<"c">>}, gone1, gone2 \in BOOLEAN, code \in Codes \cup {<<>>}, reply \in Codes \cup {<<>>},
        path \in {"p", "q", "was", "", "elsewhere"} :
       input' = <<[content |-> TRUE, path |-> path, code |-> code],
                  <<Whole("p", "p", gone1, one), Whole("q", "was", FALSE, two), Whole("r", "r", gone2, three)>>, reply>>

\* Two files in any state and a third that was edited, in plain, ignored and
\* built-in directories.
Files(path, contents) ==
  {[path |-> path, provider |-> p, readable |-> r, head |-> h, index |-> i, tree |-> t] : p, r \in BOOLEAN, h, i, t \in contents}
Ignores == {<<>>, <<[paths |-> {"p", "q"}, negated |-> FALSE, directory |-> FALSE]>>,
            <<[paths |-> {"p", "q"}, negated |-> FALSE, directory |-> FALSE], [paths |-> {"q"}, negated |-> TRUE, directory |-> FALSE]>>,
            <<[paths |-> {"p", "q"}, negated |-> FALSE, directory |-> TRUE], [paths |-> {"q"}, negated |-> TRUE, directory |-> TRUE]>>}
PickWorkspace ==
  /\ subject' = "workspace"
  /\ \E f \in Files("p", {"none", "a", "b"}), g \in Files("q", {"none", "a"}), h \in Files("r", {"a"}), patterns \in Ignores, born, edited \in BOOLEAN :
       /\ ~born => \A x \in {f, g} : x.head = "none"
       /\ born \/ ~edited
       /\ input' = <<<<f, g, [h EXCEPT !.head = IF born THEN "a" ELSE "none", !.tree = IF edited THEN "b" ELSE "a"]>>, born, patterns>>

\* The branches are -1 and -2: a root, two branches of it, their merge and one more root; branches that
\* move between the commands of git.
History == << <<>>, <<1>>, <<1>>, <<2, 3>>, <<>> >>
Move(one, two, t) == [i \in 1..6 |-> IF i <= t THEN one ELSE two]
Moves == {Move(one, two, t) : one, two \in [{-1, -2} -> {2, 3, 4}], t \in 1..6}
PickEndpoints ==
  /\ subject' = "endpoints"
  /\ \E mode \in {"commit", "range"}, from \in {-1, 1, 2, 5}, to \in {-2, 1, 3, 4, 5}, at \in Moves :
       input' = <<[mode |-> mode, from |-> from, to |-> to], at>>

\* Two files in a working copy or in a revision; lines of the one may read as
\* a header of the other, or of a file that is not there.
SvnChanges == {"new", "deleted", "binary", "modified"}
SvnFiles(path, texts, lines) ==
  UNION {{[path |-> path, change |-> c, hunks |-> h, properties |-> p] : p \in BOOLEAN,
            h \in IF c = "binary" THEN {<<>>} ELSE [1..1 -> BoundedSeq({<<s, t>> : s \in SignOf(c), t \in texts}, lines) \ {<<>>}]} : c \in SvnChanges}
SvnStatus(file) == CASE file.change = "new" -> "added" [] file.change = "deleted" -> "deleted" [] OTHER -> "modified"
PickSvn ==
  /\ subject' = "svn"
  /\ \E f \in SvnFiles("p", {"code", "(nonexistent)", "/dev/null", "q"}, 2), g \in SvnFiles("q", {"code", "p"}, 1) :
     \E statuses \in {<<>>, "p" :> SvnStatus(f) @@ "q" :> SvnStatus(g)} : input' = <<<<f, g>>, statuses>>

\* One file with any marks, and others that are small, large, deleted or
\* covered by a checkpoint; answers that repeat, skip and invent indices.
Changed(path, marks, tokens) ==
  {[new |-> path, old |-> o, deleted |-> d, marks |-> k, tokens |-> n, checkpointed |-> c] : o \in {path, "o"}, d, c \in BOOLEAN, k \in marks, n \in tokens}
Marks == SUBSET {"binary", "secret", "excluded", "included", "extension", "default"}
Plain(path, tokens) == {f \in Changed(path, {{}}, tokens) : f.old = path /\ ~f.checkpointed /\ ~f.deleted}
Partitions == {"per file", "bundle", "model", "failed"}
GroupAnswers == {<<>>, <<<<0, 1, 2, 3>>>>, <<<<2, 0>>, <<1>>>>, <<<<0, 0, 9>>, <<0, 1>>>>, <<<<3>>, <<-1>>, <<1, 2>>>>}
PickSelection ==
  /\ subject' = "selection"
  /\ \/ \E f \in Changed("p", Marks, {1, 3}), g \in Plain("q", {1}), limit \in {0, 2}, plan \in Partitions, answer \in GroupAnswers :
          input' = <<<<f, g>>, plan, answer, limit>>
     \/ \E f, g \in Changed("p", {{}, {"included"}}, {1, 3}), h, k \in Plain("r", {1, 2}), limit \in {0, 2, 3}, plan \in Partitions, answer \in GroupAnswers :
          input' = <<<<f, [g EXCEPT !.new = "q", !.old = "q"], h, [k EXCEPT !.new = "s", !.old = "s"]>>, plan, answer, limit>>

\* Comments on the group's two files and on a third, some of which an earlier
\* round confirmed.
Collected == {[i \in DOMAIN s |-> [path |-> s[i], n |-> i]] : s \in BoundedSeq({"p", "q", "z"}, 4)}
Calls == {<<>>, <<[readable |-> FALSE, ids |-> <<>>]>>, <<[readable |-> TRUE, ids |-> <<>>]>>, <<[readable |-> TRUE, ids |-> <<0, 2, 9>>]>>,
          <<[readable |-> TRUE, ids |-> <<1>>], [readable |-> TRUE, ids |-> <<3>>]>>}
PickFilter ==
  /\ subject' = "filter"
  /\ \E collector \in Collected, p, q \in 0..3, calls \in Calls, text \in {<<>>, <<0, 1>>} :
       input' = <<collector, <<"q", "p">>, [x \in {"p", "q"} |-> IF x = "p" THEN p ELSE q], [calls |-> calls, text |-> text]>>

\* Pairs of configurations: their layers and filters, against one another.
Entries == {[paths |-> p, rule |-> r, merge |-> m] : p \in {{"x"}, {"x", "y"}}, r \in {"", "mine"}, m \in BOOLEAN}
Layers == {[rules |-> s, include |-> i, exclude |-> e] : s \in {<<>>} \cup {<<e>> : e \in Entries}, i \in {{}, {"x"}}, e \in {{}, {"y"}}}
Configs(tops) ==
  {[layers |-> <<one, other, R!NoLayer>>, objc |-> o,
    system |-> [rules |-> <<[paths |-> {"y"}, rule |-> "of y"]>>, default |-> "any"]] : one \in tops, other \in Layers, o \in {{}, {"x"}}}
Plainest == {l \in Layers : l.include = {} /\ \A i \in DOMAIN l.rules : l.rules[i].rule = "mine"}
PickRules == subject' = "rules" /\ \E one \in Configs(Plainest), other \in {c \in Configs(Plainest) : c.objc = {}} : input' = <<one, other>>

\* The files that rules are read from: any of them missing or of no use, up to
\* two rules of the project, and one of --rule that names the same kinds of file.
Written == {<<[paths |-> p, rule |-> "mine", merge |-> m, ref |-> r]>> : p \in {{"x"}, {"x", "y"}}, m \in BOOLEAN, r \in {"inline", "inside", "climbs", "linked", "elsewhere", "gone"}}
RuleFile(state, rules) == [state |-> state, rules |-> rules, include |-> {}, exclude |-> {}]
PickRuleFiles ==
  /\ subject' = "rule files"
  /\ \E custom \in {RuleFile(t, <<>>) : t \in {"unset", "absent"}} \cup {RuleFile("read", r) : r \in Written},
        project \in {RuleFile(t, <<>>) : t \in {"absent", "outside", "unreadable"}} \cup {RuleFile("read", r \o w) : r, w \in Written},
        global \in {RuleFile("unreadable", <<>>), RuleFile("read", <<[paths |-> {"y"}, rule |-> "global", merge |-> FALSE, ref |-> "inline"]>>)} :
       input' = <<[custom |-> custom, project |-> project, global |-> global, system |-> [rules |-> <<>>, default |-> "any"]]>>

\* Session files: any checkpoints, with or without a fingerprint, after the
\* start; cut before the end, torn, or ended with or without a manifest.
LogLine(type, key, comments, items) == [type |-> type, key |-> key, comments |-> comments, items |-> items]
CheckpointLines ==
  {LogLine(t, k, c, {}) : t \in {"done", "reused"}, k \in {"a", "b", ""}, c \in {<<>>, <<1>>, <<2, 3>>}} \cup {LogLine("failed", k, <<>>, {}) : k \in {"a", "b", ""}}
Item(path, state) == [old |-> path, new |-> path, state |-> state]
LogEnds == {<<>>, <<LogLine("bad", "", <<>>, {})>>, <<LogLine("end", "", <<>>, V!NoManifest)>>,
            <<LogLine("end", "", <<>>, {Item("p", "completed"), Item("q", "reused"), Item("r", "failed")})>>}
PickLog ==
  /\ subject' = "log"
  /\ \E lines \in BoundedSeq(CheckpointLines, 3), end \in LogEnds : input' = <<LogLine("start", "", <<>>, {})>> \o lines \o end

\* The lines of two tasks, one after the other or interleaved: two requests of
\* the first, with its calls and their results, and one of the second.
TaskLine(type, file, task, request) ==
  [type |-> type, file |-> file, task |-> task, request |-> request, content |-> "", calls |-> <<>>, name |-> "", ok |-> FALSE, nth |-> 0]
OneRequest(file, task, request, calls, text) ==
  <<TaskLine("request", file, task, request), [TaskLine("response", file, task, request) EXCEPT !.content = text, !.calls = calls]>>
    \o SelectSeq([i \in DOMAIN calls |-> [TaskLine("tool", file, task, request) EXCEPT !.name = calls[i], !.nth = i, !.ok = i # 1,
                                           !.content = <<"one", "two", "">>[i]]],
                  LAMBDA l : l.name \notin {"task_done", "unknown"})
Failing(file, task, request) == <<TaskLine("request", file, task, request), [TaskLine("error", file, task, request) EXCEPT !.content = "refused"]>>
Interleaved(one, two, at) ==
  LET before(i) == Cardinality({j \in at : j < i})
  IN [i \in 1..(Len(one) + Len(two)) |-> IF i \in at THEN two[before(i) + 1] ELSE one[i - before(i)]]
ToolCalls == {<<>>, <<"read", "read">>, <<"unknown", "read">>, <<"read", "task_done">>, <<"read", "find", "read">>}
PickCards ==
  /\ subject' = "cards"
  /\ \E calls, more \in ToolCalls, text \in {"", "said"}, other \in {<<"p", "compression">>, <<"q", "main">>} :
     \E two \in {OneRequest(other[1], other[2], 3, <<>>, "summary"), Failing(other[1], other[2], 3)} :
       LET one == OneRequest("p", "main", 1, calls, text) \o OneRequest("p", "main", 2, more, "done") IN
       \E at \in kSubset(2, 1..(Len(one) + 2)) : input' = Interleaved(one, two, at)
\* Findings of two runs: "was" became "p" in the later one, or did not.
Findings == {[path |-> p, body |-> b] : p \in {"p", "was", "q"}, b \in {"x", "y"}}
Numbered(seq, base) == [i \in DOMAIN seq |-> [path |-> seq[i].path, body |-> seq[i].body, n |-> base + i]]
Settlements == {V!NoManifest} \cup
  {{[old |-> o, new |-> "p", state |-> s], [Item("q", "failed") EXCEPT !.state = t]} : o \in {"p", "was", ""}, s \in {"completed", "failed"}, t \in {"reused", "waived"}}
PickComparison ==
  /\ subject' = "comparison"
  /\ \E before \in BoundedSeq(Findings, 3), after \in BoundedSeq(Findings, 2), items \in Settlements : input' = <<Numbered(before, 0), Numbered(after, 10), items>>

\* Two repositories that share a directory and one that does not, before and
\* after the user was asked.
Stores == SUBSET {[dir |-> "d", id |-> "i", repo |-> "one"], [dir |-> "d", id |-> "j", repo |-> "two"], [dir |-> "d", id |-> "k", repo |-> ""],
                  [dir |-> "e", id |-> "i", repo |-> "three"], [dir |-> "e", id |-> "k", repo |-> "three"]}
PickRemoval ==
  /\ subject' = "removal"
  /\ \E asked, later \in Stores, repo \in {"", "one", "two", "three"}, id \in {"i", "j", "k"} :
       input' = <<asked, later, IF repo = "three" THEN "e" ELSE "d", repo, id>>

\* Bytes of a file, and windows of it that begin and end anywhere.
PickWindow ==
  /\ subject' = "window"
  /\ \E content \in BoundedSeq({"a", "r", "n"}, 5), start \in 0..4, end \in -1..4 : input' = <<content, start, end>>

\* Two files, one of which may be of another kind on disk, and a link or a
\* submodule; names with a colon, without an extension, or unmerged.
Entry(kind, lines, size) == [kind |-> kind, lines |-> lines, size |-> size]
Gone == Entry("gone", <<>>, 0)
Texts == {Entry("file", l, n) : l \in {<<<<"s">>, <<"t">>>>, <<<<"s", "t">>, <<"s">>, <<"s", "1">>>>, <<<<"nul">>, <<"s">>>>}, n \in {1, 3}}
Worlds(names) ==
  {[paths |-> names, ref |-> (names[1] :> p @@ names[2] :> q @@ names[3] :> other), tree |-> (names[1] :> now @@ names[2] :> q @@ names[3] :> other),
    versioned |-> {names[i] : i \in v}, unmerged |-> {names[1]} \cap {names[i] : i \in v}, skipped |-> {names[2]} \cap {names[i] : i \in 1..k}, git |-> g] :
     p \in Texts, now \in {Gone, Entry("file", <<<<"t">>>>, 1), Entry("link", <<names[2]>>, 1)}, q \in {Entry("file", <<<<"s">>, <<"s">>, <<"u">>>>, 1)},
     other \in {Gone, Entry("link", <<names[2]>>, 1), Entry("link", <<<<"out">>>>, 1), Entry("submodule", <<>>, 0)},
     v \in {{2}, {1, 2}, {1, 2, 3}}, k \in {1, 2}, g \in {"ok", "failed"}}
Named == {<<<<"p">>, <<"q">>, <<"r">>>>, <<<<"p", "1">>, <<"q">>, <<"r">>>>}
Readers == {T!NewReader(svn, pinned) : svn, pinned \in BOOLEAN}
SomeOf(names) == {{names[i] : i \in within} : within \in {{1}, {2, 3}, {1, 2, 3}}}
PickTools ==
  /\ subject' = "tools"
  /\ \E names \in Named, reader \in Readers : \E world \in Worlds(names), base \in SomeOf(names), term \in {"s", "t"} :
       input' = <<reader, world, [base |-> base, path |-> {names[i] : i \in 1..3}], [term |-> term, within |-> base]>>
PickToolRun ==
  /\ subject' = "tool run"
  /\ LET names == <<<<"p">>, <<"q">>, <<"r">>>>
         key(term, i) == [term |-> term, within |-> {names[j] : j \in i..3}]
         operations == {<<"read", names[1]>>, <<"read", names[2]>>, <<"search", key("s", 1)>>, <<"search", key("s", 2)>>, <<"search", key("t", 1)>>,
                        <<"edit", names[1], Entry("file", <<<<"t">>, <<"t">>>>, 1)>>, <<"edit", names[1], Gone>>, <<"edit", names[2], Entry("file", <<<<"s">>>>, 3)>>}
     IN \E reader \in Readers, world \in {w \in Worlds(names) : w.git = "ok" /\ w.versioned = {names[1], names[2]} /\ w.skipped = {} /\ w.tree[names[3]] = Gone /\ w.tree[names[1]] # Gone},
           run \in [1..3 -> operations] : input' = <<reader, world, run>>

\* A directory "src" with one or two files, a link or a variant in case beside
\* it, which are tracked, ignored, gone or none of these.
Word(w) == <<w, "lower">>
Upper(w) == <<w, "upper">>
Dir(path) == [path |-> path, kind |-> "directory", to |-> <<>>, size |-> 0, readable |-> TRUE]
Reg(path, size, readable) == [Dir(path) EXCEPT !.kind = "file", !.size = size, !.readable = readable]
Link(path, to) == [Dir(path) EXCEPT !.kind = "link", !.to = to]
Src == <<Word("src")>>
SrcA == <<Word("src"), Word("a")>>
Beside ==
  {<<Link(<<Word("l")>>, to)>> : to \in {Src, SrcA, <<>>, P!Missing, P!Outside}}
    \cup {<<Dir(<<Upper("src")>>), Reg(<<Upper("src"), Word("a")>>, 1, TRUE)>>, <<Reg(<<Word("srcx")>>, 1, TRUE)>>, <<Dir(<<Word("src"), Word("d")>>), Reg(<<Word("src"), Word("d"), Word("a")>>, 1, TRUE)>>}
Sources ==
  {[entries |-> <<Dir(Src), a>> \o beside, foldsCase |-> folds, git |-> git, index |-> index, ignored |-> ignored, untold |-> untold] :
     a \in {Reg(SrcA, 1, TRUE), Reg(SrcA, 3, TRUE), Reg(SrcA, 1, FALSE)}, beside \in Beside, folds, git \in BOOLEAN,
     index \in {<<>>, <<SrcA, SrcA, <<Word("gone")>>>>}, ignored \in {{}, {Src}, {<<Word("l")>>}}, untold \in {{}, {<<Word("l")>>}}}
Asked == {<<>>, P!Blank, P!Outside, Src, <<Upper("src")>>, SrcA, <<Upper("src"), Upper("a")>>, <<Word("src"), Word("d")>>, <<Word("l")>>, <<Upper("l")>>, <<Word("l"), Word("a")>>, <<Word("gone")>>, <<Word("s")>>}
PickSource ==
  /\ subject' = "source"
  /\ \E source \in Sources, selectors \in BoundedSeq(Asked, 1) \cup {<<one, other>> : one \in {Src, P!Blank}, other \in Asked} :
       /\ source.foldsCase => \A e \in ToSet(source.entries) : e.path[1] # Upper("src")
       /\ input' = <<source, selectors>>
PickItems ==
  /\ subject' = "items"
  /\ \E marks \in [1..3 -> {{}, {"secret", "included"}, {"excluded"}}], tokens \in [1..3 -> {0, 10, 30}], limit \in {0, 20}, plan, dedup, summary \in BOOLEAN :
       input' = <<[i \in 1..3 |-> [path |-> i, marks |-> marks[i], tokens |-> tokens[i]]], limit, plan, dedup, summary>>
PickBatches ==
  /\ subject' = "batches"
  /\ \E n \in 0..4, size \in 0..3 : \E key \in [1..n -> 1..3] : input' = <<[i \in 1..n |-> i], key, size>>

Next ==
  /\ subject = "none"
  /\ PickConversation \/ PickStream \/ PickDiffText \/ PickTarget \/ PickComment \/ PickWorkspace \/ PickEndpoints \/ PickSvn
     \/ PickSelection \/ PickFilter \/ PickRules \/ PickRuleFiles \/ PickLog \/ PickCards \/ PickComparison \/ PickRemoval \/ PickWindow \/ PickTools \/ PickToolRun
     \/ PickSource \/ PickItems \/ PickBatches
Spec == Init /\ [][Next]_vars

(* Every conversation the loop builds can be sent to its provider: each call is *)
(* answered, what was said is replayed, and a stream that ended in any order is *)
(* whole or refused (Wire).                                                     *)
ConversationsSent ==
  /\ subject = "conversation" => W!CallsAnswered(input[1], input[2]) /\ W!ReplayedAsSaid(input[1], input[2])
  /\ subject = "stream" => W!StreamWhole(input[1], input[2], input[3], input[4])

(* A comment is put where its code stands, in its own file before any other, or *)
(* nowhere (DiffText); and what the tools show of the repository while it is     *)
(* written is what a read, a search and a listing each find there               *)
(* (RepositoryTools).                                                           *)
CommentsOnEvidence ==
  /\ subject = "target" => D!ResolvedInPlace(input[1], input[2], input[3], input[4])
  /\ subject = "comment" =>
       LET comments == D!ParseComments(<<input[1]>>, "p") IN
       \A i \in DOMAIN comments : D!CommentOnEvidence(comments[i], input[2], input[3])
  /\ subject = "window" => T!WindowShown(input[1], input[2], input[3])
  /\ subject = "tools" => T!FilesFound(input[1], input[2], input[3]) /\ T!MatchesShown(input[1], input[2], input[4])
  /\ subject = "tool run" => T!AnswersAgree(input[1], input[2], input[3])

(* The changes a run lists are those of its workspace, range or commit, once    *)
(* each and in order, and those a sealed run recorded; each is read from the     *)
(* diff of git as what it was made from, although content may look like a header, *)
(* and from that of Subversion but for such content, which harms its own file     *)
(* alone (Changeset, DiffText).                                                   *)
ChangesReviewed ==
  /\ subject = "workspace" => C!WorkspaceCovered(input[1], input[2], input[3]) /\ C!PreviewInOrder(input[1], input[2], input[3])
  /\ subject = "endpoints" => C!SealedInputReviewed(History, input[1], input[2])
  /\ subject = "diff" => D!ParsedAsRendered(input)
  /\ subject = "svn" => C!SvnParsed(input[1], input[2])

(* Every sealed file is in one conversation and told to all others, whatever    *)
(* partition the model answers, and a filter removes what it was asked to       *)
(* (Selection); a scan reads the files that its selectors lead to, as previewed  *)
(* and estimated, each in one batch (ScanSource).                               *)
FilesReviewed ==
  /\ subject = "selection" => S!SealedIsReviewed(input[1], input[2], input[3], input[4]) /\ S!PromptsTellAll(input[1], input[2], input[3], input[4])
  /\ subject = "filter" => S!FilterRemovesNamed(input[1], input[2], input[3], input[4])
  /\ subject = "source" => P!SelectedIsScanned(input[1], input[2]) /\ P!ScannedAlike(input[1], input[2])
  /\ subject = "items" => P!ScanIsForeseen(input[1], input[2], input[3], input[4], input[5])
  /\ subject = "batches" => P!BatchesWhole(input[1], input[2], input[3])

(* Two configurations with one hash review alike, a group's rules name the      *)
(* files they are for, and rules are read from where they may be (RuleConfig).   *)
RulesHeld ==
  /\ subject = "rules" => R!SameHashSameRules(input[1], input[2], {"x", "y"}) /\ R!RulesAttributed(input[1], <<"x", "y", "z">>)
  /\ subject = "rule files" => R!RulesLoaded(input[1], {"x", "y"})

(* The readers of a session file agree: its comments and the replay of a        *)
(* resume, its summaries, its cards, two runs compared, and what is removed     *)
(* (SessionViews).                                                              *)
SessionsReadAlike ==
  /\ subject = "log" => V!CommentsMirrorReplay(input) /\ V!SummariesAgree(input)
  /\ subject = "cards" => V!CardsLinked(input)
  /\ subject = "comparison" => V!ComparisonWhole(input[1], input[2], input[3])
  /\ subject = "removal" => V!RemovesShown(input[1], input[2], input[3], input[4], input[5])
=============================================================================
