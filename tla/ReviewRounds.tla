---------------------------- MODULE ReviewRounds ----------------------------
(***************************************************************************)
(* The review rounds of the group goroutines (executeGroupSubtask in       *)
(* internal/agent/agent.go) over the state they share: the comment         *)
(* collector (internal/tool/comment_collector.go), one list for the run,   *)
(* and the comment worker pool (internal/llmloop/pool.go), whose tasks are *)
(* drained per group.                                                      *)
(*                                                                         *)
(* A round asks the model, drains the group's tasks, shows the new         *)
(* comments on the group's files to the review filter, removes by position *)
(* those it rejects, and confirms the rest.  Positions are read before the *)
(* filter's request and used after it, while other groups' tasks append to *)
(* the same list, on any file of the change.                               *)
(*                                                                         *)
(* The list is the set of its comments, whose ids grow in its order: a     *)
(* position among the comments of a file is the number of those before it. *)
(***************************************************************************)
EXTENDS Naturals, Sequences, FiniteSets, Functions

CONSTANTS
  Groups,       \* the sequence of groups, each a sequence of files
  Rounds,       \* Template.ReviewRounds()
  ConfirmedCap, \* confirmedCap
  MaxComments,  \* bound: the comments the model files in the whole run
  Refile        \* may a comment land on a file of another group?

G == DOMAIN Groups
Files(g) == Range(Groups[g])
File == UNION {Files(g) : g \in G}

ASSUME GroupsAssumption == \A g \in G : Groups[g] \in Seq(Files(g)) \ {<<>>}
ASSUME PartitionAssumption == \A g, h \in G : g # h => Files(g) \cap Files(h) = {}
ASSUME RoundsAssumption == Rounds \in Nat \ {0}

VARIABLES
  comments,    \* the collector: [id, by, path] of each comment, by the group that filed it
  landed,      \* the id of the comment added last
  filed,       \* number of comments filed so far
  pending,     \* the pool: pending[g], the tasks under the key of g that have not landed
  stage,       \* stage[g]: where the goroutine of g is
  reviewRound, \* reviewRound[g]
  baseline,    \* baseline[f]: comments of file f accounted for by its group
  candidates,  \* candidates[g]: what the filter is shown, [id, path, idx] of each
  verdict,     \* verdict[g]: how the conversation of this round ended
  confirmed,   \* confirmed[g]: what later rounds are told about, <<round, id>> of each
  returned,    \* returned[g]: what executeGroupSubtask returned
  left,        \* left[g]: files still to be settled
  checkpoint   \* checkpoint[f]: the ids its review_item record holds

sharedVars == <<comments, landed, filed, pending>>
roundVars == <<stage, reviewRound, baseline, candidates, verdict, confirmed>>
roundsVars == <<sharedVars, roundVars, returned, left, checkpoint>>

NoCheckpoint == {0}

CommentsForPath(f) == {c \in comments : c.path = f}
Ids(S) == {c.id : c \in S}

(* The position of a comment among the comments of its file, from 0. *)
PathIdx(c) == Cardinality({d \in CommentsForPath(c.path) : d.id < c.id})

(* The comments whose (path, position) is in rejected are dropped. *)
RemoveByPathAndIndices(rejected) ==
  {c \in comments : [path |-> c.path, idx |-> PathIdx(c)] \notin rejected}

RoundsInit ==
  /\ comments = {} /\ landed = 0 /\ filed = 0 /\ pending = [g \in G |-> 0]
  /\ stage = [g \in G |-> "start"]
  /\ reviewRound = [g \in G |-> 1]
  /\ baseline = [f \in File |-> 0]
  /\ candidates = [g \in G |-> {}]
  /\ verdict = [g \in G |-> "none"]
  /\ confirmed = [g \in G |-> {}]
  /\ returned = [g \in G |-> "none"]
  /\ left = [g \in G |-> <<>>]
  /\ checkpoint = [f \in File |-> NoCheckpoint]

-----------------------------------------------------------------------------
(* The goroutine of group g leaves executeGroupSubtask with outcome r. *)
Leave(g, r) ==
  /\ stage' = [stage EXCEPT ![g] = "settling"]
  /\ returned' = [returned EXCEPT ![g] = r]
  /\ left' = [left EXCEPT ![g] = Groups[g]]

Goto(g, p) == stage' = [stage EXCEPT ![g] = p] /\ UNCHANGED <<returned, left>>

(* What the loop leaves when it breaks out of a round. *)
Breaks(g) == Leave(g, "completed")

(* What a group has accounted for: all there is on its files. *)
AdvancedBaseline(g) ==
  [f \in File |-> IF f \in Files(g) THEN Cardinality(CommentsForPath(f)) ELSE baseline[f]]

(* Baselines are taken when the group starts: another group may already have *)
(* re-filed a comment on its files.                                          *)
Start(g) ==
  /\ stage[g] = "start"
  /\ baseline' = AdvancedBaseline(g)
  /\ Goto(g, "head")
  /\ UNCHANGED <<sharedVars, reviewRound, candidates, verdict, confirmed, checkpoint>>

(* The head of a round: cancellation fails the group whatever it has found; a *)
(* prompt that is too large stops the first round; a later round is skipped   *)
(* when the budget is exceeded, the prompt too large or the last round over.  *)
RoundHead(g) ==
  /\ stage[g] = "head"
  /\ \/ reviewRound[g] <= Rounds /\ Leave(g, "error")
     \/ reviewRound[g] <= Rounds /\ reviewRound[g] = 1 /\ Leave(g, "stop")
     \/ reviewRound[g] > 1 /\ Breaks(g)
     \/ reviewRound[g] <= Rounds /\ Goto(g, "conversation")
  /\ UNCHANGED <<sharedVars, reviewRound, baseline, candidates, verdict, confirmed, checkpoint>>

(* code_comment: a task is submitted under the group's key. *)
FileComment(g) ==
  /\ stage[g] = "conversation" /\ filed < MaxComments
  /\ filed' = filed + 1 /\ pending' = [pending EXCEPT ![g] = @ + 1]
  /\ UNCHANGED <<comments, landed, roundVars, returned, left, checkpoint>>

(* RunMainTask returns: an error of the first round, or a panic of any, fails *)
(* the group; an error of a later round keeps what earlier rounds confirmed.  *)
EndConversation(g) ==
  /\ stage[g] = "conversation"
  /\ \/ \E v \in {"done", "stopped"} : verdict' = [verdict EXCEPT ![g] = v] /\ Goto(g, "drain")
     \/ Leave(g, "error") /\ UNCHANGED verdict
     \/ reviewRound[g] > 1 /\ Breaks(g) /\ verdict' = [verdict EXCEPT ![g] = "failed"]
  /\ UNCHANGED <<sharedVars, reviewRound, baseline, candidates, confirmed, checkpoint>>

(* Mutated: nothing is waited for. *)
KeyDrainedAlways(g) == TRUE

KeyDrained(g) == pending[g] = 0

(* Mutated: the filter is shown every comment of the group's files. *)
FilterFromStart(f) == 0

(* Only the comments past the baseline are candidates. *)
FilterFrom(f) == baseline[f]

(* Mutated: a candidate's place among those shown of its file, not in its file. *)
CandidatesByPosition(g) ==
  {[id |-> c.id, path |-> c.path, idx |-> PathIdx(c) - FilterFrom(c.path)] :
     c \in {d \in comments : d.path \in Files(g) /\ PathIdx(d) >= FilterFrom(d.path)}}

Candidates(g) ==
  {[id |-> c.id, path |-> c.path, idx |-> PathIdx(c)] :
     c \in {d \in comments : d.path \in Files(g) /\ PathIdx(d) >= FilterFrom(d.path)}}

(* AwaitKey, then the candidates are read and the filter is asked. *)
ReadCandidates(g) ==
  /\ stage[g] = "drain" /\ KeyDrained(g)
  /\ candidates' = [candidates EXCEPT ![g] = Candidates(g)]
  /\ Goto(g, "filter")
  /\ UNCHANGED <<sharedVars, reviewRound, baseline, verdict, confirmed, checkpoint>>

(* The filter answers: it rejects some candidates, or none (it approves, fails, *)
(* or is switched off).                                                         *)
ApplyFilter(g) ==
  /\ stage[g] = "filter"
  /\ \E rejected \in SUBSET candidates[g] :
       comments' = RemoveByPathAndIndices({[path |-> c.path, idx |-> c.idx] : c \in rejected})
  /\ candidates' = [candidates EXCEPT ![g] = {}]
  /\ Goto(g, "delta")
  /\ UNCHANGED <<landed, filed, pending, reviewRound, baseline, verdict, confirmed, checkpoint>>

NewlyConfirmed(g) == Ids({c \in comments : c.path \in Files(g) /\ PathIdx(c) >= baseline[c.path]})

(* The round's delta, and whether another round follows. *)
Confirm(g) ==
  /\ stage[g] = "delta"
  /\ LET new == {reviewRound[g]} \X NewlyConfirmed(g)
     IN  /\ confirmed' = [confirmed EXCEPT ![g] = @ \cup new]
         /\ baseline' = AdvancedBaseline(g)
         /\ IF verdict[g] = "stopped" THEN Leave(g, "stop") /\ UNCHANGED reviewRound
            ELSE IF new = {} \/ Cardinality(confirmed[g] \cup new) >= ConfirmedCap
              THEN Breaks(g) /\ UNCHANGED reviewRound
              ELSE Goto(g, "head") /\ reviewRound' = [reviewRound EXCEPT ![g] = @ + 1]
  /\ UNCHANGED <<sharedVars, candidates, verdict, checkpoint>>

CheckpointOf(g, f) == Ids(CommentsForPath(f))

Covered(g, f) == returned[g] = "completed" \/ (returned[g] = "stop" /\ CommentsForPath(f) # {})

(* The next file gets its checkpoint. *)
Settle(g) ==
  /\ stage[g] = "settling" /\ left[g] # <<>>
  /\ LET f == Head(left[g])
     IN  checkpoint' = [checkpoint EXCEPT ![f] = IF Covered(g, f) THEN CheckpointOf(g, f)
                                                                   ELSE NoCheckpoint]
  /\ left' = [left EXCEPT ![g] = Tail(@)]
  /\ stage' = [stage EXCEPT ![g] = IF Len(left[g]) = 1 THEN "done" ELSE @]
  /\ UNCHANGED <<sharedVars, reviewRound, baseline, candidates, verdict, confirmed, returned>>

-----------------------------------------------------------------------------
(* A task of the pool runs: its comment lands on a file, or nowhere (it panicked). *)
Land(g) ==
  /\ pending[g] > 0 /\ pending' = [pending EXCEPT ![g] = @ - 1]
  /\ \/ \E f \in IF Refile THEN File ELSE Files(g) :
          /\ comments' = comments \cup {[id |-> landed + 1, by |-> g, path |-> f]}
          /\ landed' = landed + 1
     \/ UNCHANGED <<comments, landed>>
  /\ UNCHANGED <<filed, roundVars, returned, left, checkpoint>>

(* wg.Wait and CommentWorkerPool.Await have returned. *)
Finished == (\A g \in G : stage[g] = "done" /\ pending[g] = 0)

Stay == Finished /\ UNCHANGED roundsVars

GroupStep(g) ==
  \/ Start(g) \/ RoundHead(g) \/ FileComment(g) \/ EndConversation(g) \/ ReadCandidates(g)
  \/ ApplyFilter(g) \/ Confirm(g) \/ Settle(g) \/ Land(g)

RoundsNext == (\E g \in G : GroupStep(g)) \/ Stay

RoundsSpec == RoundsInit /\ [][RoundsNext]_roundsVars

-----------------------------------------------------------------------------

Collected == Ids(comments)
ConfirmedIds(g) == {p[2] : p \in confirmed[g]}

(* A finding a round confirmed, and the next rounds were told about, is never  *)
(* taken back, and no later round confirms it again: filter and delta of a     *)
(* round work past the baseline the round before left.                         *)
ConfirmedStands ==
  \A g \in G :
    /\ ConfirmedIds(g) \subseteq Collected
    /\ \A p, q \in confirmed[g] : p[2] = q[2] => p = q

(* What the filter removes is what it was shown, although the collector grows  *)
(* while it thinks: positions read before its request still name the same      *)
(* comments after it.                                                          *)
RemovesOnlyJudged ==
  [][\E g \in G : Collected \ Collected' \subseteq Ids(candidates[g])]_roundsVars

(* The comments group g filed that now stand on file f. *)
OwnOn(g, f) == Ids({c \in CommentsForPath(f) : c.by = g})

(* A group whose last conversation did not fail leaves no finding of its own   *)
(* on its files that no filter saw and no delta confirmed: the round's tasks  *)
(* have landed before the filter looks.                                        *)
NothingEscapes ==
  \A g \in G : returned[g] \in {"completed", "stop"} /\ verdict[g] # "failed" =>
    \A f \in Files(g) : OwnOn(g, f) \subseteq ConfirmedIds(g)

(* What a resume would restore for a file its group covered: every finding of  *)
(* that group the run reports on it, and nothing the run does not report.      *)
CheckpointComplete ==
  Finished => \A g \in G : returned[g] # "error" /\ verdict[g] # "failed" =>
    \A f \in Files(g) : checkpoint[f] # NoCheckpoint =>
      /\ OwnOn(g, f) \subseteq checkpoint[f]
      /\ checkpoint[f] \subseteq Collected

(* Between filter, delta and checkpoint no finding of a settled group is lost. *)
FindingsSettled == NothingEscapes /\ CheckpointComplete
=============================================================================
