---------------------------- MODULE SessionViews ----------------------------
(***************************************************************************)
(* What is made of saved sessions (internal/session: list.go, comments.go,   *)
(* compare.go, delete.go; internal/viewer: store.go): four readers of one    *)
(* file, the comparison of two runs, and the removal of a session.           *)
(*                                                                         *)
(* A line of the file has a type; a checkpoint its fingerprint (key) and     *)
(* comments, session_end the items of the run's manifest or none.            *)
(***************************************************************************)
EXTENDS Integers, Sequences, FiniteSets, FiniteSetsExt, SequencesExt

Checkpoint(line) == line.type \in {"done", "reused"}
Ends(line) == line.type = "end"
NoManifest == {[old |-> "", new |-> "", state |-> "none"]}
In(items, states) == {i \in items : i.state \in states}

---------------------------------------------------------------------------
(* The replay of a resume, and the comments of a session.                   *)

ReplayItems(log) ==
  LET Step(items, line) ==
        CASE Checkpoint(line) /\ line.key # "" -> [k \in DOMAIN items \cup {line.key} |-> IF k = line.key THEN line.comments ELSE items[k]]
          [] line.type = "failed" -> [k \in DOMAIN items \ {line.key} |-> items[k]]
          [] OTHER -> items
  IN FoldLeft(Step, [k \in {} |-> <<>>], log)

(* Mutated: a failure leaves the comments of its checkpoint.                *)
LoadCommentsOfFailed(log) ==
  LET Step(groups, line) ==
        LET at == {g \in DOMAIN groups : groups[g].key = line.key /\ line.key # ""} IN
        CASE Checkpoint(line) /\ at # {} -> [groups EXCEPT ![Min(at)].comments = line.comments]
          [] Checkpoint(line) /\ at = {} -> Append(groups, [key |-> line.key, comments |-> line.comments])
          [] OTHER -> groups
  IN FoldLeft(Step, <<>>, log)

\* In the order in which files were first settled.
LoadComments(log) ==
  LET Step(groups, line) ==
        LET at == {g \in DOMAIN groups : groups[g].key = line.key /\ line.key # ""} IN
        CASE Checkpoint(line) /\ at # {} -> [groups EXCEPT ![Min(at)].comments = line.comments]
          [] Checkpoint(line) /\ at = {} -> Append(groups, [key |-> line.key, comments |-> line.comments])
          [] line.type = "failed" /\ at # {} -> [groups EXCEPT ![Min(at)].comments = <<>>]
          [] OTHER -> groups
  IN FoldLeft(Step, <<>>, log)

(* The comments listed for a session are those that a resume of it would      *)
(* reuse, whatever was settled twice, failed afterwards or settled again.     *)
CommentsMirrorReplay(log) ==
  LET items == ReplayItems(log)
      groups == SelectSeq(LoadComments(log), LAMBDA g : g.key # "")
  IN /\ \A g \in DOMAIN groups : groups[g].comments = IF groups[g].key \in DOMAIN items THEN items[groups[g].key] ELSE <<>>
     /\ DOMAIN items \subseteq {groups[g].key : g \in DOMAIN groups}
     /\ \A g, h \in DOMAIN groups : groups[g].key = groups[h].key => g = h

---------------------------------------------------------------------------
(* Three summaries: "ocr session", the list of pages and the page itself.    *)

Counted(log, type) == Len(SelectSeq(log, LAMBDA l : l.type = type))
CommentCount(log) == FoldLeft(LAMBDA n, l : n + Len(l.comments), 0, SelectSeq(log, Checkpoint))
OfManifest(items) ==
  [selected |-> Cardinality(items), completed |-> Cardinality(In(items, {"completed"})),
   reused |-> Cardinality(In(items, {"reused"})), failed |-> Cardinality(In(items, {"failed"})),
   waived |-> Cardinality(In(items, {"waived"}))]

LoadSummary(log) ==
  LET ends == SelectSeq(log, Ends)
      counted == [completed |-> Counted(log, "done"), reused |-> Counted(log, "reused"), failed |-> Counted(log, "failed"),
                  selected |-> IF ends = <<>> THEN 0 ELSE Counted(log, "done") + Counted(log, "reused") + Counted(log, "failed"), waived |-> 0]
  IN [aborted |-> ends = <<>>, comments |-> CommentCount(log),
      counts |-> IF ends # <<>> /\ Last(ends).items # NoManifest THEN OfManifest(Last(ends).items) ELSE counted]

\* The first line that can be read is the header, whatever it is, and only the
\* last line can be the end.
PeekSession(log) ==
  LET read == SelectSeq(log, LAMBDA l : l.type # "bad") IN
  [aborted |-> log = <<>> \/ ~Ends(Last(log)), comments |-> IF read = <<>> THEN 0 ELSE CommentCount(Tail(read)),
   counts |-> IF log # <<>> /\ Ends(Last(log)) /\ Last(log).items # NoManifest THEN OfManifest(Last(log).items) ELSE OfManifest({})]

PageSummary(log) ==
  LET ends == SelectSeq(log, Ends) IN
  [aborted |-> ends = <<>>, comments |-> CommentCount(log),
   counts |-> IF ends # <<>> /\ Last(ends).items # NoManifest THEN OfManifest(Last(ends).items) ELSE OfManifest({})]

(* Of a file that a run wrote, to its end or not, the three say the same.    *)
SummariesAgree(log) ==
  LET one == LoadSummary(log) two == PeekSession(log) three == PageSummary(log) IN
  /\ two = three
  /\ one.aborted = two.aborted /\ one.comments = two.comments
  /\ Ends(Last(log)) /\ Last(log).items # NoManifest => one.counts = two.counts

---------------------------------------------------------------------------
(* The page of a session: a card for each request, with what came of it.    *)

CardsOf(cards, file, task) == {c \in DOMAIN cards : cards[c].file = file /\ cards[c].task = task}
NewCard(line) == [file |-> line.file, task |-> line.task, request |-> line.request, response |-> "", error |-> "", calls |-> <<>>]
Answered(card, line) ==
  [card EXCEPT !.response = IF @ = "" THEN line.content ELSE @, !.error = IF card.response = "" THEN "" ELSE @,
               !.calls = @ \o [i \in DOMAIN line.calls |-> [name |-> line.calls[i], result |-> "", ok |-> line.calls[i] \in {"task_done", "approve_all_comments"}]]]
WithResult(card, line) ==
  LET open == {i \in DOMAIN card.calls : card.calls[i].name = line.name /\ card.calls[i].result = "" /\ ~card.calls[i].ok}
  IN IF open = {} THEN card ELSE [card EXCEPT !.calls[Min(open)].result = line.content, !.calls[Min(open)].ok = line.ok]

\* An answer, an error and a result go to the last card of their file and task:
\* only a request and an error carry its number.
LoadCards(lines) ==
  LET Step(cards, line) ==
        LET of == CardsOf(cards, line.file, line.task) IN
        CASE line.type = "request" -> Append(cards, NewCard(line))
          [] line.type # "request" /\ of = {} -> cards
          [] line.type = "response" /\ of # {} -> [cards EXCEPT ![Max(of)] = Answered(@, line)]
          [] line.type = "error" /\ of # {} -> [cards EXCEPT ![Max(of)].error = IF @ = "" THEN line.content ELSE @]
          [] line.type = "tool" /\ of # {} -> [cards EXCEPT ![Max(of)] = WithResult(@, line)]
  IN FoldLeft(Step, <<>>, lines)

(* Each request is shown with its own answer, its own error and the results   *)
(* of its own calls, though others are under way ("TaskCard links an LLM      *)
(* request with its response and tool calls").                                *)
CardsLinked(lines) ==
  LET cards == LoadCards(lines)
      card(line) == cards[CHOOSE c \in DOMAIN cards : cards[c].request = line.request]
  IN \A i \in DOMAIN lines :
       CASE lines[i].type = "request" -> card(lines[i]).file = lines[i].file
         [] lines[i].type = "response" -> card(lines[i]).response = lines[i].content /\ Len(card(lines[i]).calls) = Len(lines[i].calls)
         [] lines[i].type = "error" -> card(lines[i]).error = lines[i].content
         [] lines[i].type = "tool" -> card(lines[i]).calls[lines[i].nth].result = lines[i].content

---------------------------------------------------------------------------
(* Compare.  A finding has its path, what it says (body) and a place (n), of  *)
(* which the place does not identify it.                                     *)

Settled(items) == In(items, {"completed", "reused"})
ReviewedPaths(items) == {i.new : i \in Settled(items)}
\* A manifest that renames a path twice maps it to either.
Renamed(items, path) ==
  LET to == {i.new : i \in {j \in Settled(items) : j.old = path /\ j.old \notin {"", j.new}}}
  IN IF to = {} THEN path ELSE CHOOSE p \in to : TRUE

Compare(before, after, items) ==
  LET Step(s, c) ==
        LET path == Renamed(items, c.path)
            same == {i \in DOMAIN s.pool : s.pool[i].path = path /\ s.pool[i].body = c.body}
        IN CASE same # {} -> [s EXCEPT !.persisting = Append(@, s.pool[Min(same)]), !.pool = RemoveAt(@, Min(same))]
             [] same = {} /\ items # NoManifest /\ path \notin ReviewedPaths(items) -> [s EXCEPT !.notReviewed = Append(@, c)]
             [] OTHER -> [s EXCEPT !.resolved = Append(@, c)]
  IN FoldLeft(Step, [pool |-> after, persisting |-> <<>>, resolved |-> <<>>, notReviewed |-> <<>>], before)

(* A finding of the later run is new or persists, one of the earlier run      *)
(* persists, is resolved or was not looked at, each once; nothing is resolved *)
(* that is found again, or whose file the later run did not settle.           *)
ComparisonWhole(before, after, items) ==
  LET result == Compare(before, after, items)
      count(seq, path, body) == Len(SelectSeq(seq, LAMBDA c : c.path = path /\ c.body = body))
      moved == [i \in DOMAIN before |-> [before[i] EXCEPT !.path = Renamed(items, @)]]
  IN /\ ToSet(result.pool) \cup ToSet(result.persisting) = ToSet(after)
     /\ Len(result.pool) + Len(result.persisting) = Len(after)
     /\ Len(result.persisting) + Len(result.resolved) + Len(result.notReviewed) = Len(before)
     /\ \A c \in ToSet(moved) \cup ToSet(after) :
          count(result.persisting, c.path, c.body) =
            Min({count(moved, c.path, c.body), count(after, c.path, c.body)})
     /\ \A r \in DOMAIN result.resolved :
          LET path == Renamed(items, result.resolved[r].path) IN
          /\ count(result.pool, path, result.resolved[r].body) = 0
          /\ items # NoManifest => \E i \in items : i.new = path /\ i.state \in {"completed", "reused"}

---------------------------------------------------------------------------
(* "session rm".  A file lies in a directory that repositories may share,    *)
(* and records the repository it is of, or none.  The user is asked about    *)
(* what is there then; the file is removed from what is there afterwards.    *)

FindSessionsByID(store, id) == {f \in store : f.id = id}

CheckSessionRepo(store, dir, repo, id) == {f \in store : f.id = id /\ f.dir = dir /\ f.repo = repo}

\* Without a repository the id alone must tell the file.
Asked(store, dir, repo, id) ==
  IF repo # "" THEN CheckSessionRepo(store, dir, repo, id)
  ELSE IF Cardinality(FindSessionsByID(store, id)) = 1 THEN FindSessionsByID(store, id) ELSE {}
SessionRm(asked, later, dir, repo, id) ==
  LET shown == Asked(asked, dir, repo, id) IN
  IF shown = {} THEN later
  ELSE IF repo # "" THEN later \ CheckSessionRepo(later, dir, repo, id)
  ELSE {f \in later : \A g \in shown : f.id # g.id \/ f.dir # g.dir}

(* What is removed is the one session the user was shown, and never one that  *)
(* records another repository than the one that was named.                    *)
RemovesShown(asked, later, dir, repo, id) ==
  LET removed == later \ SessionRm(asked, later, dir, repo, id) IN
  /\ removed \subseteq asked /\ Cardinality(removed) <= 1
  /\ \A f \in removed : f.id = id /\ (repo # "" => f.repo = repo) /\ (repo = "" => FindSessionsByID(asked, id) = {f})
=============================================================================
