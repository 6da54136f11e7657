---------------------------- MODULE GroupProofs ----------------------------
(***************************************************************************)
(* Proofs about what the goroutine of a group does.                        *)
(*                                                                         *)
(* First module Conversation, one conversation of a round: any number of   *)
(* rounds and of calls in a turn, any sizes and thresholds, any choice of  *)
(* the rounds to keep.  What a message weighs plays no part: a compression *)
(* may come at any turn, and the active zone may be any set of rounds.     *)
(*                                                                         *)
(* Then module ReviewRounds, the rounds of all groups over one collector:  *)
(* any number of groups, of files in each, of rounds and of comments,      *)
(* which may land on any file of the change at any time.                   *)
(***************************************************************************)
EXTENDS Conversation, ReviewRounds, FiniteSetTheorems, SequenceTheorems, WellFoundedInduction,
        NaturalsInduction, TLAPS

-----------------------------------------------------------------------------
(* The conversation. *)

Roles == {"system", "user", "assistant", "tool"}
Messages == [role : Roles, covers : SUBSET (Nat \ {0}), calls : Nat, size : Nat]

(* The message stands for a round: the summary it went into, or its assistant. *)
Carries(m, r) == m.role \in {"user", "assistant"} /\ r \in m.covers

(* One message of a stretch stands for the round. *)
Once(msgs, r) ==
  \E i \in DOMAIN msgs : Carries(msgs[i], r) /\ \A j \in DOMAIN msgs : Carries(msgs[j], r) => j = i

(* In a stretch of messages, calls and results answer each other. *)
Paired(msgs) ==
  \A i \in DOMAIN msgs :
    /\ msgs[i].role = "assistant" =>
         \A k \in 1 .. msgs[i].calls :
           i + k <= Len(msgs) /\ msgs[i + k].role = "tool" /\ msgs[i + k].covers = msgs[i].covers
    /\ msgs[i].role = "tool" =>
         \E k \in 1 .. MaxCalls : i - k >= 1 /\ msgs[i - k].role = "assistant" /\ msgs[i - k].calls >= k

(* A stretch of messages that stands for the rounds of a set, each once. *)
Stretch(msgs, rounds) ==
  /\ msgs \in Seq(Messages)
  /\ Paired(msgs)
  /\ \A i \in DOMAIN msgs : msgs[i].covers \subseteq rounds /\ (msgs[i].role = "system" => msgs[i].covers = {})
  /\ \A r \in rounds : Once(msgs, r)

(* What the first e messages cover. *)
CoveredBy(msgs, e) == UNION {msgs[i].covers : i \in 1 .. e}

(* A conversation of n rounds. *)
Whole(msgs, n) ==
  Stretch(msgs, 1 .. n) /\ Len(msgs) >= 2 /\ msgs[1].role = "system" /\ msgs[2].role = "user"

(* What was appended after the snapshot of a job. *)
Since(j, msgs) == SubSeq(msgs, Len(j.snapshot) + 1, Len(msgs))

(* The snapshot of a pending job is whole and so is what it became; the rest of *)
(* the conversation are the rounds after it.                                    *)
Pending(j, msgs, n) ==
  j.state # "none" =>
    \E a \in 0 .. n :
      /\ Whole(j.snapshot, a)
      /\ j.state = "done" => Whole(j.rebuilt, a)
      /\ msgs = j.snapshot \o Since(j, msgs)
      /\ Stretch(Since(j, msgs), (a + 1) .. n)

Jobs == [state : {"none", "running", "done"}, snapshot : Seq(Messages), rebuilt : Seq(Messages)]

Inv ==
  /\ round \in Nat
  /\ job \in Jobs
  /\ Whole(messages, round)
  /\ Pending(job, messages, round)

(* A set of positions has a last one. *)
LEMMA MaxIn == ASSUME NEW n \in Nat, NEW S \in SUBSET (1 .. n), S # {} PROVE Max(S) \in S /\ \A y \in S : Max(S) >= y
<1> DEFINE T == {n - x : x \in S}
<1>1. T \subseteq Nat /\ T # {}
  <2>1. \A x \in S : n - x \in Nat
    OBVIOUS
  <2>2. PICK x \in S : TRUE
    OBVIOUS
  <2>3. n - x \in T
    OBVIOUS
  <2> QED BY <2>1, <2>3
<1>2. PICK t \in T : \A u \in T : ~ (<<u, t>> \in OpToRel(<, Nat))
  BY <1>1, NatLessThanWellFounded, WFMin
<1>3. \A u \in T : ~ (u < t)
  BY <1>1, <1>2 DEF OpToRel
<1>4. PICK x \in S : t = n - x
  BY <1>2
<1>5. \A y \in S : x >= y
  BY <1>3, <1>4
<1> QED BY <1>4, <1>5 DEF Max

(* Two stretches of different rounds make one. *)
LEMMA Joined ==
  ASSUME NEW Q, NEW R, NEW s, NEW t, Stretch(s, Q), Stretch(t, R), Q \cap R = {}
  PROVE  Stretch(s \o t, Q \cup R)
<1> DEFINE u == s \o t
<1>1. /\ s \in Seq(Messages) /\ t \in Seq(Messages) /\ Len(s) \in Nat /\ Len(t) \in Nat
      /\ DOMAIN s = 1 .. Len(s) /\ DOMAIN t = 1 .. Len(t)
  BY LenProperties DEF Stretch
<1>2. u \in Seq(Messages) /\ Len(u) = Len(s) + Len(t)
  BY <1>1, ConcatProperties
<1>3. DOMAIN u = 1 .. (Len(s) + Len(t))
  BY <1>2, LenProperties
<1>4. \A i \in 1 .. Len(s) : u[i] = s[i] /\ i \in DOMAIN u
  BY <1>1, <1>3, ConcatProperties
<1>5. \A i \in 1 .. Len(t) : u[Len(s) + i] = t[i] /\ Len(s) + i \in DOMAIN u
  BY <1>1, <1>3, ConcatProperties
<1> HIDE DEF u
<1>6. \A i \in DOMAIN u : i \in 1 .. Len(s) \/ \E k \in 1 .. Len(t) : i = Len(s) + k
  <2> SUFFICES ASSUME NEW i \in DOMAIN u, ~ (i \in 1 .. Len(s)) PROVE \E k \in 1 .. Len(t) : i = Len(s) + k
    OBVIOUS
  <2>1. i - Len(s) \in 1 .. Len(t) /\ i = Len(s) + (i - Len(s))
    BY <1>1, <1>3
  <2> QED BY <2>1
<1>7. Paired(u)
  <2> SUFFICES ASSUME NEW i \in DOMAIN u
               PROVE  /\ u[i].role = "assistant" => \A k \in 1 .. u[i].calls : i + k <= Len(u) /\ u[i + k].role = "tool" /\ u[i + k].covers = u[i].covers
                      /\ u[i].role = "tool" => \E k \in 1 .. MaxCalls : i - k >= 1 /\ u[i - k].role = "assistant" /\ u[i - k].calls >= k
    BY DEF Paired
  <2>1. CASE i \in 1 .. Len(s)
    <3>1. ASSUME u[i].role = "assistant", NEW k \in 1 .. u[i].calls
          PROVE  i + k <= Len(u) /\ u[i + k].role = "tool" /\ u[i + k].covers = u[i].covers
      <4>1. i \in DOMAIN s /\ u[i] = s[i] /\ u[i].calls \in Nat
        <5>1. s[i] \in Messages
          BY <1>1, <1>4, <2>1, ElementOfSeq
        <5> QED BY <1>1, <1>4, <2>1, <5>1 DEF Messages
      <4>2. i + k <= Len(s) /\ s[i + k].role = "tool" /\ s[i + k].covers = s[i].covers
        BY <3>1, <4>1 DEF Stretch, Paired
      <4>3. i + k \in 1 .. Len(s) /\ i + k <= Len(u)
        BY <1>1, <1>2, <2>1, <4>1, <4>2
      <4> QED BY <1>4, <4>1, <4>2, <4>3
    <3>2. ASSUME u[i].role = "tool"
          PROVE  \E k \in 1 .. MaxCalls : i - k >= 1 /\ u[i - k].role = "assistant" /\ u[i - k].calls >= k
      <4>1. i \in DOMAIN s /\ s[i].role = "tool"
        BY <1>1, <1>4, <2>1, <3>2
      <4>2. PICK k \in 1 .. MaxCalls : i - k >= 1 /\ s[i - k].role = "assistant" /\ s[i - k].calls >= k
        BY <4>1 DEF Stretch, Paired
      <4>3. i - k \in 1 .. Len(s)
        BY <1>1, <2>1, <4>2, SizeAssumption
      <4> QED BY <1>4, <4>2, <4>3
    <3> QED BY <3>1, <3>2
  <2>2. ASSUME NEW h \in 1 .. Len(t), i = Len(s) + h
        PROVE  /\ u[i].role = "assistant" => \A k \in 1 .. u[i].calls : i + k <= Len(u) /\ u[i + k].role = "tool" /\ u[i + k].covers = u[i].covers
               /\ u[i].role = "tool" => \E k \in 1 .. MaxCalls : i - k >= 1 /\ u[i - k].role = "assistant" /\ u[i - k].calls >= k
    <3>1. ASSUME u[i].role = "assistant", NEW k \in 1 .. u[i].calls
          PROVE  i + k <= Len(u) /\ u[i + k].role = "tool" /\ u[i + k].covers = u[i].covers
      <4>1. h \in DOMAIN t /\ u[i] = t[h] /\ u[i].calls \in Nat
        <5>1. t[h] \in Messages
          BY <1>1, <1>5, <2>2, ElementOfSeq
        <5> QED BY <1>1, <1>5, <2>2, <5>1 DEF Messages
      <4>2. h + k <= Len(t) /\ t[h + k].role = "tool" /\ t[h + k].covers = t[h].covers
        BY <3>1, <4>1 DEF Stretch, Paired
      <4>3. h + k \in 1 .. Len(t) /\ i + k = Len(s) + (h + k) /\ i + k <= Len(u)
        BY <1>1, <1>2, <2>2, <4>1, <4>2
      <4>4. u[Len(s) + (h + k)] = t[h + k]
        BY <1>5, <4>3
      <4> QED BY <4>1, <4>2, <4>3, <4>4
    <3>2. ASSUME u[i].role = "tool"
          PROVE  \E k \in 1 .. MaxCalls : i - k >= 1 /\ u[i - k].role = "assistant" /\ u[i - k].calls >= k
      <4>1. h \in DOMAIN t /\ t[h].role = "tool"
        BY <1>1, <1>5, <2>2, <3>2
      <4>2. PICK k \in 1 .. MaxCalls : h - k >= 1 /\ t[h - k].role = "assistant" /\ t[h - k].calls >= k
        BY <4>1 DEF Stretch, Paired
      <4>3. h - k \in 1 .. Len(t) /\ i - k = Len(s) + (h - k) /\ i - k >= 1
        BY <1>1, <2>2, <4>2, SizeAssumption
      <4>4. u[Len(s) + (h - k)] = t[h - k]
        BY <1>5, <4>3
      <4> QED BY <4>2, <4>3, <4>4
    <3> QED BY <3>1, <3>2
  <2> QED BY <1>6, <2>1, <2>2
<1>8. \A i \in DOMAIN u : u[i].covers \subseteq Q \cup R /\ (u[i].role = "system" => u[i].covers = {})
  <2> SUFFICES ASSUME NEW i \in DOMAIN u PROVE u[i].covers \subseteq Q \cup R /\ (u[i].role = "system" => u[i].covers = {})
    OBVIOUS
  <2>1. CASE i \in 1 .. Len(s)
    BY <1>1, <1>4, <2>1 DEF Stretch
  <2>2. ASSUME NEW h \in 1 .. Len(t), i = Len(s) + h
        PROVE  u[i].covers \subseteq Q \cup R /\ (u[i].role = "system" => u[i].covers = {})
    BY <1>1, <1>5, <2>2 DEF Stretch
  <2> QED BY <1>6, <2>1, <2>2
<1>9. \A r \in Q \cup R : Once(u, r)
  <2>1. ASSUME NEW r \in Q PROVE Once(u, r)
    <3>1. PICK i \in DOMAIN s : Carries(s[i], r) /\ \A j \in DOMAIN s : Carries(s[j], r) => j = i
      BY DEF Stretch, Once
    <3>2. i \in DOMAIN u /\ Carries(u[i], r)
      BY <1>1, <1>4, <3>1
    <3>3. ASSUME NEW j \in DOMAIN u, Carries(u[j], r) PROVE j = i
      <4>1. CASE j \in 1 .. Len(s)
        BY <1>1, <1>4, <3>1, <3>3, <4>1
      <4>2. ASSUME NEW h \in 1 .. Len(t), j = Len(s) + h PROVE FALSE
        <5>1. Carries(t[h], r) /\ h \in DOMAIN t
          BY <1>1, <1>5, <3>3, <4>2
        <5>2. r \in R
          BY <5>1 DEF Carries, Stretch
        <5> QED BY <5>2
      <4> QED BY <1>6, <4>1, <4>2
    <3> QED BY <3>2, <3>3 DEF Once
  <2>2. ASSUME NEW r \in R PROVE Once(u, r)
    <3>1. PICK i \in DOMAIN t : Carries(t[i], r) /\ \A j \in DOMAIN t : Carries(t[j], r) => j = i
      BY DEF Stretch, Once
    <3>2. Len(s) + i \in DOMAIN u /\ Carries(u[Len(s) + i], r)
      BY <1>1, <1>5, <3>1
    <3>3. ASSUME NEW j \in DOMAIN u, Carries(u[j], r) PROVE j = Len(s) + i
      <4>1. ASSUME j \in 1 .. Len(s) PROVE FALSE
        <5>1. Carries(s[j], r) /\ j \in DOMAIN s
          BY <1>1, <1>4, <3>3, <4>1
        <5>2. r \in Q
          BY <5>1 DEF Carries, Stretch
        <5> QED BY <5>2
      <4>2. ASSUME NEW h \in 1 .. Len(t), j = Len(s) + h PROVE j = Len(s) + i
        <5>1. Carries(t[h], r) /\ h \in DOMAIN t
          BY <1>1, <1>5, <3>3, <4>2
        <5> QED BY <3>1, <4>2, <5>1
      <4> QED BY <1>6, <4>1, <4>2
    <3> QED BY <3>2, <3>3 DEF Once
  <2> QED BY <2>1, <2>2
<1> QED BY <1>2, <1>7, <1>8, <1>9 DEF Stretch, u

(* Between a tool result and the message that called it there are only results. *)
LEMMA Caller ==
  ASSUME NEW R, NEW m, Stretch(m, R), NEW i \in DOMAIN m, m[i].role = "tool"
  PROVE  \E a \in DOMAIN m : /\ a < i /\ m[a].role = "assistant" /\ m[i].covers = m[a].covers
                             /\ i - a \in 1 .. MaxCalls /\ m[a].calls >= i - a
                             /\ \A l \in (a + 1) .. i : m[l].role = "tool"
<1>1. m \in Seq(Messages) /\ Len(m) \in Nat /\ DOMAIN m = 1 .. Len(m)
  BY LenProperties DEF Stretch
<1>2. PICK k \in 1 .. MaxCalls : i - k >= 1 /\ m[i - k].role = "assistant" /\ m[i - k].calls >= k
  BY DEF Stretch, Paired
<1>3. PICK a \in DOMAIN m : a = i - k
  BY <1>1, <1>2, SizeAssumption
<1>4. m[a].calls \in Nat
  <2>1. m[a] \in Messages
    BY <1>1, ElementOfSeq
  <2> QED BY <2>1 DEF Messages
<1>5. \A h \in 1 .. m[a].calls : m[a + h].role = "tool" /\ m[a + h].covers = m[a].covers
  BY <1>2, <1>3 DEF Stretch, Paired
<1>6. ASSUME NEW l \in (a + 1) .. i PROVE m[l].role = "tool" /\ m[l].covers = m[a].covers
  <2>1. l - a \in 1 .. m[a].calls /\ a + (l - a) = l
    BY <1>1, <1>2, <1>3, <1>4, SizeAssumption
  <2> QED BY <1>5, <2>1
<1>7. a < i /\ i - a \in 1 .. MaxCalls /\ m[a].calls >= i - a /\ i \in (a + 1) .. i
  BY <1>1, <1>2, <1>3, SizeAssumption
<1> QED BY <1>2, <1>3, <1>6, <1>7

(* What a message covers is carried by it or, for a result, by its caller. *)
LEMMA Carrier ==
  ASSUME NEW R, NEW m, Stretch(m, R), NEW j \in DOMAIN m, NEW r \in m[j].covers
  PROVE  \E i \in DOMAIN m : i <= j /\ Carries(m[i], r) /\ \A l \in (i + 1) .. j : m[l].role = "tool"
<1>1. m \in Seq(Messages) /\ DOMAIN m = 1 .. Len(m) /\ Len(m) \in Nat
  BY LenProperties DEF Stretch
<1>2. m[j].role \in Roles /\ m[j].role # "system"
  <2>1. m[j] \in Messages
    BY <1>1, ElementOfSeq
  <2>2. m[j].role # "system"
    BY DEF Stretch
  <2> QED BY <2>1, <2>2 DEF Messages
<1>3. CASE m[j].role \in {"user", "assistant"}
  <2>1. Carries(m[j], r)
    BY <1>3 DEF Carries
  <2>2. j <= j /\ (j + 1) .. j = {}
    BY <1>1
  <2> QED BY <2>1, <2>2
<1>4. CASE m[j].role = "tool"
  <2>1. PICK a \in DOMAIN m : /\ a < j /\ m[a].role = "assistant" /\ m[j].covers = m[a].covers
                              /\ \A l \in (a + 1) .. j : m[l].role = "tool"
    BY <1>4, Caller
  <2>2. a <= j /\ Carries(m[a], r)
    BY <1>1, <2>1 DEF Carries
  <2> QED BY <2>1, <2>2
<1> QED BY <1>2, <1>3, <1>4 DEF Roles

(* A stretch can be cut before any message but a tool result. *)
LEMMA Cut ==
  ASSUME NEW R, NEW m, Stretch(m, R), NEW e \in 0 .. Len(m), e < Len(m) => m[e + 1].role # "tool"
  PROVE  CoveredBy(m, e) \subseteq R /\ Stretch(SubSeq(m, e + 1, Len(m)), R \ CoveredBy(m, e))
<1> DEFINE Q == UNION {m[i].covers : i \in 1 .. e}
           t == SubSeq(m, e + 1, Len(m))
<1>1. m \in Seq(Messages) /\ Len(m) \in Nat /\ DOMAIN m = 1 .. Len(m) /\ e \in Nat /\ e <= Len(m)
  BY LenProperties DEF Stretch
<1>2. Q \subseteq R
  <2>1. \A i \in 1 .. e : m[i].covers \subseteq R
    BY <1>1 DEF Stretch
  <2> QED BY <2>1
<1>3. t \in Seq(Messages) /\ Len(t) = Len(m) - e /\ \A i \in 1 .. (Len(m) - e) : t[i] = m[e + i]
  <2>1. \A i \in (e + 1) .. Len(m) : m[i] \in Messages
    BY <1>1, ElementOfSeq
  <2>2. /\ t \in Seq(Messages) /\ Len(t) = IF e + 1 <= Len(m) THEN Len(m) - (e + 1) + 1 ELSE 0
        /\ \A i \in 1 .. (Len(m) - (e + 1) + 1) : t[i] = m[(e + 1) + i - 1]
    <3>1. e + 1 \in Int /\ Len(m) \in Int
      BY <1>1
    <3> QED BY <2>1, <3>1, SubSeqProperties
  <2> HIDE DEF t
  <2>3. Len(m) - (e + 1) + 1 = Len(m) - e /\ (\A i \in 1 .. (Len(m) - e) : (e + 1) + i - 1 = e + i)
    BY <1>1
  <2>4. Len(t) = Len(m) - e
    <3>1. CASE e + 1 <= Len(m)
      <4>1. Len(t) = Len(m) - (e + 1) + 1
        BY <2>2, <3>1
      <4> QED BY <2>3, <4>1
    <3>2. CASE e = Len(m)
      <4>1. ~ (e + 1 <= Len(m)) /\ Len(m) - e = 0
        BY <1>1, <3>2
      <4> QED BY <2>2, <4>1
    <3>3. e + 1 <= Len(m) \/ e = Len(m)
      <4>1. PICK n \in Nat : n = Len(m)
        BY <1>1
      <4>2. e + 1 <= n \/ e = n
        BY <4>1
      <4> QED BY <4>1, <4>2
    <3> QED BY <3>1, <3>2, <3>3
  <2> QED BY <2>2, <2>3, <2>4
<1> HIDE DEF t
<1>4. DOMAIN t = 1 .. (Len(m) - e)
  BY <1>3, LenProperties
<1>5. \A i \in DOMAIN t : t[i] = m[e + i] /\ e + i \in DOMAIN m /\ e + i > e
  BY <1>1, <1>3, <1>4
<1>6. ASSUME NEW a \in DOMAIN m, NEW i \in DOMAIN m, i > e, \A l \in (a + 1) .. i : m[l].role = "tool" PROVE a > e
  <2> SUFFICES ASSUME ~ (a > e) PROVE FALSE
    OBVIOUS
  <2>1. e + 1 \in (a + 1) .. i /\ e < Len(m)
    BY <1>1, <1>6
  <2> QED BY <1>6, <2>1
<1>7. Paired(t)
  <2> SUFFICES ASSUME NEW i \in DOMAIN t
               PROVE  /\ t[i].role = "assistant" => \A k \in 1 .. t[i].calls : i + k <= Len(t) /\ t[i + k].role = "tool" /\ t[i + k].covers = t[i].covers
                      /\ t[i].role = "tool" => \E k \in 1 .. MaxCalls : i - k >= 1 /\ t[i - k].role = "assistant" /\ t[i - k].calls >= k
    BY DEF Paired
  <2>1. ASSUME t[i].role = "assistant", NEW k \in 1 .. t[i].calls
        PROVE  i + k <= Len(t) /\ t[i + k].role = "tool" /\ t[i + k].covers = t[i].covers
    <3>1. t[i] = m[e + i] /\ e + i \in DOMAIN m /\ t[i].calls \in Nat
      <4>1. t[i] \in Messages
        BY <1>3, <1>4, ElementOfSeq
      <4> QED BY <1>5, <4>1 DEF Messages
    <3>2. (e + i) + k <= Len(m) /\ m[(e + i) + k].role = "tool" /\ m[(e + i) + k].covers = m[e + i].covers
      BY <2>1, <3>1 DEF Stretch, Paired
    <3>3. i + k \in DOMAIN t /\ i + k <= Len(t) /\ (e + i) + k = e + (i + k)
      BY <1>1, <1>3, <1>4, <3>1, <3>2
    <3> QED BY <1>5, <3>1, <3>2, <3>3
  <2>2. ASSUME t[i].role = "tool"
        PROVE  \E k \in 1 .. MaxCalls : i - k >= 1 /\ t[i - k].role = "assistant" /\ t[i - k].calls >= k
    <3>1. e + i \in DOMAIN m /\ m[e + i].role = "tool" /\ e + i > e
      BY <1>5, <2>2
    <3>2. PICK a \in DOMAIN m : /\ a < e + i /\ m[a].role = "assistant"
                                /\ (e + i) - a \in 1 .. MaxCalls /\ m[a].calls >= (e + i) - a
                                /\ \A l \in (a + 1) .. (e + i) : m[l].role = "tool"
      BY <3>1, Caller
    <3>3. a > e
      BY <1>6, <3>1, <3>2
    <3>4. a - e \in DOMAIN t /\ e + (a - e) = a
      BY <1>1, <1>4, <3>3
    <3>5. t[a - e] = m[a]
      BY <1>5, <3>4
    <3>6. PICK k \in 1 .. MaxCalls : k = (e + i) - a
      BY <3>2
    <3>7. i - k = a - e /\ i - k >= 1
      BY <1>1, <1>4, <3>3, <3>6, SizeAssumption
    <3> QED BY <3>2, <3>5, <3>6, <3>7
  <2> QED BY <2>1, <2>2
<1>8. ASSUME NEW i \in DOMAIN t PROVE t[i].covers \subseteq R \ Q /\ (t[i].role = "system" => t[i].covers = {})
  <2>1. t[i] = m[e + i] /\ e + i \in DOMAIN m /\ e + i > e
    BY <1>5
  <2>2. m[e + i].covers \subseteq R /\ (m[e + i].role = "system" => m[e + i].covers = {})
    BY <2>1 DEF Stretch
  <2>3. ASSUME NEW r \in m[e + i].covers, r \in Q PROVE FALSE
    <3>1. PICK j \in 1 .. e : r \in m[j].covers
      BY <2>3
    <3>2. j \in DOMAIN m
      BY <1>1
    <3>3. PICK b \in DOMAIN m : b <= j /\ Carries(m[b], r)
      BY <3>1, <3>2, Carrier
    <3>4. PICK a \in DOMAIN m : Carries(m[a], r) /\ \A l \in (a + 1) .. (e + i) : m[l].role = "tool"
      BY <2>1, <2>3, Carrier
    <3>5. a > e
      BY <1>6, <2>1, <3>4
    <3>6. b <= e
      BY <1>1, <3>3
    <3>7. Once(m, r)
      BY <2>2, <2>3 DEF Stretch
    <3>8. a = b
      BY <3>3, <3>4, <3>7 DEF Once
    <3> QED BY <1>1, <3>5, <3>6, <3>8
  <2> QED BY <2>1, <2>2, <2>3
<1>9. ASSUME NEW r \in R \ Q PROVE Once(t, r)
  <2>1. PICK i \in DOMAIN m : Carries(m[i], r) /\ \A j \in DOMAIN m : Carries(m[j], r) => j = i
    BY DEF Stretch, Once
  <2>2. i > e
    <3>1. ~ (i \in 1 .. e)
      BY <1>9, <2>1 DEF Carries
    <3> QED BY <1>1, <3>1
  <2>3. i - e \in DOMAIN t /\ e + (i - e) = i
    BY <1>1, <1>4, <2>2
  <2>4. Carries(t[i - e], r)
    BY <1>5, <2>1, <2>3
  <2>5. ASSUME NEW j \in DOMAIN t, Carries(t[j], r) PROVE j = i - e
    <3>1. e + j \in DOMAIN m /\ Carries(m[e + j], r)
      BY <1>5, <2>5
    <3>2. e + j = i
      BY <2>1, <3>1
    <3> QED BY <1>1, <1>4, <3>2
  <2> QED BY <2>3, <2>4, <2>5 DEF Once
<1>10. Stretch(t, R \ Q)
  BY <1>3, <1>7, <1>8, <1>9 DEF Stretch
<1> QED BY <1>2, <1>10 DEF t, CoveredBy

(* A round ends at a message of its own, and no result comes right after it. *)
LEMMA EndOfRound ==
  ASSUME NEW m \in Seq(Messages), NEW i \in 1 .. Len(m)
  PROVE  RoundEnd(m, i) \in i .. Len(m) /\ (RoundEnd(m, i) < Len(m) => m[RoundEnd(m, i) + 1].role # "tool")
<1> DEFINE J == {j \in i .. Len(m) : \A k \in (i + 1) .. j : m[k].role = "tool"}
           e == Max(J)
<1>1. Len(m) \in Nat /\ i \in Nat /\ i >= 1 /\ i <= Len(m)
  BY LenProperties
<1>2. i \in J /\ J \in SUBSET (1 .. Len(m))
  BY <1>1
<1>3. e \in J /\ \A y \in J : e >= y
  <2> HIDE DEF J
  <2> QED BY <1>1, <1>2, MaxIn
<1> HIDE DEF e
<1>4. e \in i .. Len(m) /\ \A k \in (i + 1) .. e : m[k].role = "tool"
  BY <1>3
<1>5. ASSUME e < Len(m), m[e + 1].role = "tool" PROVE FALSE
  <2>1. e + 1 \in i .. Len(m)
    BY <1>1, <1>4, <1>5
  <2>2. ASSUME NEW k \in (i + 1) .. (e + 1) PROVE m[k].role = "tool"
    <3>1. k \in (i + 1) .. e \/ k = e + 1
      BY <1>1, <1>4
    <3> QED BY <1>4, <1>5, <3>1
  <2>3. e + 1 \in J
    BY <2>1, <2>2
  <2> QED BY <1>1, <1>3, <1>4, <2>3
<1> QED BY <1>4, <1>5 DEF RoundEnd, e, J

(* The zone to compress ends at the end of a round. *)
LEMMA EndOfZone ==
  ASSUME NEW m \in Seq(Messages), Len(m) > 2
  PROVE  CompressEnd(m) \in 3 .. Len(m) /\ (CompressEnd(m) < Len(m) => m[CompressEnd(m) + 1].role # "tool")
<1> DEFINE old == RoundStarts(m) \ ActiveRounds(m)
<1>1. Len(m) \in Nat
  BY LenProperties
<1>2. old \subseteq 3 .. Len(m)
  BY DEF RoundStarts
<1> HIDE DEF old
<1>3. CASE old = {}
  <2>1. CompressEnd(m) = Len(m)
    BY <1>3 DEF CompressEnd, old
  <2> QED BY <1>1, <2>1
<1>4. CASE old # {}
  <2>1. old \in SUBSET (1 .. Len(m))
    BY <1>1, <1>2
  <2>2. Max(old) \in old
    BY <1>1, <1>4, <2>1, MaxIn
  <2>3. PICK i \in 3 .. Len(m) : i = Max(old)
    BY <1>2, <2>2
  <2>4. CompressEnd(m) = RoundEnd(m, i)
    BY <1>4, <2>3 DEF CompressEnd, old
  <2>5. i \in 1 .. Len(m)
    BY <1>1
  <2>6. RoundEnd(m, i) \in i .. Len(m) /\ (RoundEnd(m, i) < Len(m) => m[RoundEnd(m, i) + 1].role # "tool")
    BY <2>5, EndOfRound
  <2>7. RoundEnd(m, i) \in 3 .. Len(m)
    BY <1>1, <2>6
  <2> QED BY <2>4, <2>6, <2>7
<1> QED BY <1>3, <1>4

(* Compression keeps a conversation whole, whatever zone it takes. *)
LEMMA Compressed ==
  ASSUME NEW n \in Nat, NEW m, Whole(m, n), NEW outcome
  PROVE  Whole(Compress(m, outcome), n)
<1>1. m \in Seq(Messages) /\ Len(m) \in Nat /\ DOMAIN m = 1 .. Len(m)
  BY LenProperties DEF Whole, Stretch
<1>2. CASE Len(m) <= 2 \/ outcome # "summary"
  <2>1. Compress(m, outcome) = m
    BY <1>2 DEF Compress
  <2> QED BY <2>1
<1>3. CASE Len(m) > 2 /\ outcome = "summary"
  <2> DEFINE e == CompressEnd(m)
             zone == SubSeq(m, 3, e)
             covered == UNION {zone[i].covers : i \in DOMAIN zone}
             user == [m[2] EXCEPT !.covers = @ \cup covered, !.size = @ + SummarySize]
             head == <<m[1], user>>
             Q == CoveredBy(m, e)
             rest == SubSeq(m, e + 1, Len(m))
  <2>1. Compress(m, outcome) = head \o rest
    <3>1. ~ (Len(m) <= 2 \/ outcome # "summary")
      BY <1>1, <1>3
    <3> QED BY <3>1 DEF Compress
  <2>2. e \in 3 .. Len(m) /\ (e < Len(m) => m[e + 1].role # "tool")
    BY <1>1, <1>3, EndOfZone
  <2> HIDE DEF e
  <2>3. e \in 0 .. Len(m) /\ e \in Nat /\ e >= 3 /\ e <= Len(m)
    BY <1>1, <2>2
  <2>4. Q \subseteq 1 .. n /\ Stretch(rest, (1 .. n) \ Q)
    <3>1. Stretch(m, 1 .. n)
      BY DEF Whole
    <3> QED BY <2>2, <2>3, <3>1, Cut
  <2>5. zone \in Seq(Messages) /\ DOMAIN zone = 1 .. (e - 2) /\ \A i \in 1 .. (e - 2) : zone[i] = m[i + 2]
    <3>1. \A i \in 3 .. e : m[i] \in Messages
      BY <1>1, <2>3, ElementOfSeq
    <3>2. /\ zone \in Seq(Messages) /\ Len(zone) = IF 3 <= e THEN e - 3 + 1 ELSE 0
          /\ \A i \in 1 .. (e - 3 + 1) : zone[i] = m[3 + i - 1]
      <4>1. 3 \in Int /\ e \in Int
        BY <2>3
      <4> QED BY <3>1, <4>1, SubSeqProperties
    <3> HIDE DEF zone
    <3>3. e - 3 + 1 = e - 2 /\ \A i \in 1 .. (e - 2) : 3 + i - 1 = i + 2
      BY <2>3
    <3>4. Len(zone) = e - 2
      BY <2>3, <3>2
    <3> QED BY <3>2, <3>3, <3>4, LenProperties
  <2> HIDE DEF zone
  <2>6. m[1] \in Messages /\ m[2] \in Messages /\ m[1].covers = {} /\ m[1].role = "system" /\ m[2].role = "user"
    <3>1. 1 \in DOMAIN m /\ 2 \in DOMAIN m
      BY <1>1, <1>3
    <3> QED BY <1>1, <3>1, ElementOfSeq DEF Whole, Stretch
  <2>7. covered \cup m[2].covers = Q
    <3> USE DEF CoveredBy
    <3>1. ASSUME NEW r \in covered PROVE r \in Q
      <4>1. PICK i \in 1 .. (e - 2) : r \in m[i + 2].covers
        BY <2>5
      <4>2. i + 2 \in 1 .. e
        BY <2>3
      <4> QED BY <4>1, <4>2
    <3>2. m[2].covers \subseteq Q
      <4>1. 2 \in 1 .. e
        BY <2>3
      <4> QED BY <4>1
    <3>3. ASSUME NEW r \in Q PROVE r \in covered \cup m[2].covers
      <4>1. PICK i \in 1 .. e : r \in m[i].covers
        OBVIOUS
      <4>2. CASE i = 1 \/ i = 2
        BY <2>6, <4>1, <4>2
      <4>3. CASE i >= 3
        <5>1. i - 2 \in 1 .. (e - 2) /\ (i - 2) + 2 = i
          BY <2>3, <4>3
        <5>2. zone[i - 2] = m[i] /\ i - 2 \in DOMAIN zone
          BY <2>5, <5>1
        <5> QED BY <4>1, <5>2
      <4> QED BY <2>3, <4>2, <4>3
    <3> QED BY <3>1, <3>2, <3>3
  <2> HIDE DEF covered, Q
  <2>8. user \in Messages /\ user.role = "user" /\ user.covers = Q
    <3>1. Q \subseteq Nat \ {0}
      BY <2>4
    <3>2. m[2].size \in Nat /\ m[2].size + SummarySize \in Nat
      BY <2>6, SizeAssumption DEF Messages
    <3>3. user.role = m[2].role /\ user.covers = m[2].covers \cup covered /\ user.calls = m[2].calls /\ user.size = m[2].size + SummarySize
      BY <2>6 DEF Messages
    <3>4. user \in Messages
      BY <2>6, <2>7, <3>1, <3>2 DEF Messages
    <3> QED BY <2>6, <2>7, <3>3, <3>4
  <2> HIDE DEF user
  <2>9. Stretch(head, Q)
    <3>1. head \in Seq(Messages) /\ Len(head) = 2 /\ DOMAIN head = 1 .. 2 /\ head[1] = m[1] /\ head[2] = user
      BY <2>6, <2>8
    <3> HIDE DEF head
    <3>2. \A i \in DOMAIN head : i = 1 \/ i = 2
      BY <3>1
    <3>3. Paired(head)
      BY <2>6, <2>8, <3>1, <3>2 DEF Paired
    <3>4. \A i \in DOMAIN head : head[i].covers \subseteq Q /\ (head[i].role = "system" => head[i].covers = {})
      BY <2>6, <2>8, <3>1, <3>2
    <3>5. ASSUME NEW r \in Q PROVE Once(head, r)
      <4>1. 2 \in DOMAIN head /\ Carries(head[2], r)
        BY <2>8, <3>1 DEF Carries
      <4>2. \A j \in DOMAIN head : Carries(head[j], r) => j = 2
        BY <2>6, <3>1, <3>2 DEF Carries
      <4> QED BY <4>1, <4>2 DEF Once
    <3> QED BY <3>1, <3>3, <3>4, <3>5 DEF Stretch
  <2>10. head \in Seq(Messages) /\ Len(head) = 2 /\ head[1] = m[1] /\ head[2] = user
    BY <2>6, <2>8
  <2> HIDE DEF head, rest
  <2>11. Stretch(head \o rest, 1 .. n)
    <3>1. Stretch(head \o rest, Q \cup ((1 .. n) \ Q))
      BY <2>4, <2>9, Joined
    <3>2. Q \cup ((1 .. n) \ Q) = 1 .. n
      BY <2>4
    <3> QED BY <3>1, <3>2
  <2>12. Len(head \o rest) >= 2 /\ (head \o rest)[1] = m[1] /\ (head \o rest)[2] = user
    <3>1. rest \in Seq(Messages) /\ Len(rest) \in Nat
      BY <2>4, LenProperties DEF Stretch
    <3>2. Len(head \o rest) = Len(head) + Len(rest)
      BY <2>10, <3>1, ConcatProperties
    <3>3. \A i \in 1 .. Len(head) + Len(rest) : (head \o rest)[i] = IF i <= Len(head) THEN head[i] ELSE rest[i - Len(head)]
      BY <2>10, <3>1, ConcatProperties
    <3> QED BY <2>10, <3>1, <3>2, <3>3
  <2> QED BY <2>1, <2>6, <2>8, <2>11, <2>12 DEF Whole
<1> QED BY <1>1, <1>2, <1>3

(* A conversation with new rounds after it is a conversation. *)
LEMMA Extended ==
  ASSUME NEW n \in Nat, NEW k \in Nat, n <= k, NEW m, NEW t, Whole(m, n), Stretch(t, (n + 1) .. k)
  PROVE  Whole(m \o t, k)
<1>1. m \in Seq(Messages) /\ t \in Seq(Messages) /\ Len(m) \in Nat /\ Len(t) \in Nat /\ Len(m) >= 2
  BY LenProperties DEF Whole, Stretch
<1>2. Stretch(m \o t, 1 .. k)
  <2>1. (1 .. n) \cap ((n + 1) .. k) = {} /\ (1 .. n) \cup ((n + 1) .. k) = 1 .. k
    OBVIOUS
  <2>2. Stretch(m, 1 .. n)
    BY DEF Whole
  <2>3. Stretch(m \o t, (1 .. n) \cup ((n + 1) .. k))
    BY <2>1, <2>2, Joined
  <2> QED BY <2>1, <2>3
<1>3. Len(m \o t) = Len(m) + Len(t)
  BY <1>1, ConcatProperties
<1>4. \A i \in 1 .. Len(m) + Len(t) : (m \o t)[i] = IF i <= Len(m) THEN m[i] ELSE t[i - Len(m)]
  BY <1>1, ConcatProperties
<1>5. (m \o t)[1] = m[1] /\ (m \o t)[2] = m[2] /\ Len(m \o t) >= 2
  BY <1>1, <1>3, <1>4
<1> QED BY <1>2, <1>5 DEF Whole

(* What comes after a prefix. *)
LEMMA AfterPrefix ==
  ASSUME NEW s \in Seq(Messages), NEW t \in Seq(Messages)
  PROVE  SubSeq(s \o t, Len(s) + 1, Len(s \o t)) = t
<1>1. Len(s) \in Nat /\ Len(t) \in Nat
  BY LenProperties
<1>2. Len(s \o t) = Len(s) + Len(t)
  BY ConcatProperties
<1>3. CASE t = <<>>
  <2>1. Len(t) = 0
    BY <1>3
  <2>2. Len(s \o t) \in Int /\ Len(s) + 1 \in Int /\ Len(s \o t) < Len(s) + 1
    BY <1>1, <1>2, <2>1
  <2> QED BY <1>3, <2>2, SubSeqEmpty
<1>4. CASE t # <<>>
  <2>1. Len(t) # 0
    BY <1>4, EmptySeq
  <2>2. Len(s) + 1 \in Len(s) + 1 .. Len(s) + Len(t) /\ Len(s) + Len(t) \in Len(s) + 1 .. Len(s) + Len(t)
    BY <1>1, <2>1
  <2>3. SubSeq(s \o t, Len(s) + 1, Len(s) + Len(t)) = SubSeq(t, (Len(s) + 1) - Len(s), (Len(s) + Len(t)) - Len(s))
    BY <2>2, SubSeqOfConcat2
  <2>4. (Len(s) + 1) - Len(s) = 1 /\ (Len(s) + Len(t)) - Len(s) = Len(t)
    BY <1>1
  <2>5. SubSeq(t, 1, Len(t)) = t
    BY SubSeqFull
  <2> QED BY <1>2, <2>3, <2>4, <2>5
<1> QED BY <1>3, <1>4

(* No messages stand for no rounds. *)
LEMMA NoMessages == Stretch(<<>>, {})
<1>1. <<>> \in Seq(Messages) /\ DOMAIN <<>> = {}
  OBVIOUS
<1> QED BY <1>1 DEF Stretch, Paired

(* The job that took the conversation as it stands is pending on it. *)
LEMMA Taken ==
  ASSUME NEW n \in Nat, NEW m, Whole(m, n), NEW j, j.snapshot = m, j.state = "running"
  PROVE  Pending(j, m, n)
<1>1. m \in Seq(Messages) /\ Len(m) \in Nat
  BY LenProperties DEF Whole, Stretch
<1>2. Since(j, m) = <<>>
  BY <1>1, SubSeqEmpty DEF Since
<1>3. m = m \o <<>>
  BY <1>1, ConcatEmptySeq
<1>4. n \in 0 .. n /\ (n + 1) .. n = {}
  OBVIOUS
<1> QED BY <1>2, <1>3, <1>4, NoMessages DEF Pending

(* A pending job stays pending on a conversation that grows. *)
LEMMA Grown ==
  ASSUME NEW n \in Nat, NEW k \in Nat, n <= k, NEW j, NEW m, Pending(j, m, n),
         NEW t, Stretch(t, (n + 1) .. k)
  PROVE  Pending(j, m \o t, k)
<1> SUFFICES ASSUME j.state # "none" PROVE Pending(j, m \o t, k)
  BY DEF Pending
<1>1. PICK a \in 0 .. n : /\ Whole(j.snapshot, a) /\ (j.state = "done" => Whole(j.rebuilt, a))
                          /\ m = j.snapshot \o Since(j, m) /\ Stretch(Since(j, m), (a + 1) .. n)
  BY DEF Pending
<1>2. PICK s : s = j.snapshot
  OBVIOUS
<1>3. PICK rest : rest = Since(j, m)
  OBVIOUS
<1>4. s \in Seq(Messages) /\ rest \in Seq(Messages) /\ t \in Seq(Messages) /\ m = s \o rest /\ Len(s) \in Nat
  BY <1>1, <1>2, <1>3, LenProperties DEF Whole, Stretch
<1>5. m \o t = s \o (rest \o t)
  <2>1. s \in Seq(Messages) /\ rest \in Seq(Messages) /\ t \in Seq(Messages)
    BY <1>4
  <2>2. (s \o rest) \o t = s \o (rest \o t)
    BY ONLY <2>1, ConcatAssociative
  <2> QED BY <1>4, <2>2
<1>6. rest \o t \in Seq(Messages)
  BY <1>4, ConcatProperties
<1>7. SubSeq(s \o (rest \o t), Len(s) + 1, Len(s \o (rest \o t))) = rest \o t
  BY <1>4, <1>6, AfterPrefix
<1>8. Since(j, m \o t) = rest \o t
  BY <1>2, <1>5, <1>7 DEF Since
<1>9. Stretch(rest \o t, (a + 1) .. k)
  <2>1. ((a + 1) .. n) \cap ((n + 1) .. k) = {} /\ ((a + 1) .. n) \cup ((n + 1) .. k) = (a + 1) .. k
    OBVIOUS
  <2>2. Stretch(rest, (a + 1) .. n)
    BY <1>1, <1>3
  <2>3. Stretch(rest \o t, ((a + 1) .. n) \cup ((n + 1) .. k))
    BY <2>1, <2>2, Joined
  <2> QED BY <2>1, <2>3
<1>10. a \in 0 .. k
  OBVIOUS
<1> QED BY <1>1, <1>2, <1>5, <1>8, <1>9, <1>10 DEF Pending

(* The result of a job that is done, put in the place of its snapshot, keeps the *)
(* conversation whole.                                                           *)
LEMMA Applied ==
  ASSUME NEW n \in Nat, NEW j, NEW m, Pending(j, m, n), j.state = "done"
  PROVE  Whole(j.rebuilt \o Since(j, m), n)
<1>1. PICK a \in 0 .. n : Whole(j.rebuilt, a) /\ Stretch(Since(j, m), (a + 1) .. n)
  BY DEF Pending
<1> QED BY <1>1, Extended

(* The messages of a turn stand for its round. *)
LEMMA TurnStretch ==
  ASSUME NEW n \in Nat \ {0}, NEW calls \in 0 .. MaxCalls, NEW size \in Nat
  PROVE  Stretch(<<Assistant(n, calls)>> \o [i \in 1 .. calls |-> ToolResult(n, size)], n .. n)
<1> DEFINE h == <<Assistant(n, calls)>>
           t == [i \in 1 .. calls |-> ToolResult(n, size)]
           u == h \o t
<1>1. Assistant(n, calls) \in Messages /\ ToolResult(n, size) \in Messages /\ calls \in Nat
  BY SizeAssumption DEF Assistant, ToolResult, Message, Messages, Roles
<1>2. h \in Seq(Messages) /\ Len(h) = 1 /\ h[1] = Assistant(n, calls)
  BY <1>1
<1>3. t \in Seq(Messages) /\ Len(t) = calls /\ \A i \in 1 .. calls : t[i] = ToolResult(n, size)
  BY <1>1
<1> HIDE DEF h, t
<1>4. u \in Seq(Messages) /\ Len(u) = 1 + calls
  BY <1>1, <1>2, <1>3, ConcatProperties
<1>5. \A i \in 1 .. Len(h) + Len(t) : (h \o t)[i] = IF i <= Len(h) THEN h[i] ELSE t[i - Len(h)]
  BY <1>2, <1>3, ConcatProperties
<1>6. DOMAIN u = 1 .. (1 + calls)
  BY <1>4, LenProperties
<1>7. u[1] = Assistant(n, calls) /\ \A i \in 2 .. (1 + calls) : u[i] = ToolResult(n, size)
  <2>1. u[1] = h[1]
    <3>1. 1 \in 1 .. Len(h) + Len(t) /\ 1 <= Len(h)
      BY <1>1, <1>2, <1>3
    <3> QED BY <1>5, <3>1 DEF u
  <2>2. ASSUME NEW i \in 2 .. (1 + calls) PROVE u[i] = ToolResult(n, size)
    <3>1. i \in 1 .. Len(h) + Len(t) /\ ~ (i <= Len(h)) /\ i - Len(h) \in 1 .. calls
      BY <1>1, <1>2, <1>3
    <3>2. u[i] = t[i - Len(h)]
      BY <1>5, <3>1 DEF u
    <3> QED BY <1>3, <3>1, <3>2
  <2> QED BY <1>2, <2>1, <2>2
<1> HIDE DEF u
<1>8. /\ u[1].role = "assistant" /\ u[1].covers = {n} /\ u[1].calls = calls
      /\ \A i \in 2 .. (1 + calls) : u[i].role = "tool" /\ u[i].covers = {n}
  BY <1>7 DEF Assistant, ToolResult, Message
<1>9. \A i \in DOMAIN u : i = 1 \/ i \in 2 .. (1 + calls)
  BY <1>1, <1>6
<1>10. Paired(u)
  <2> SUFFICES ASSUME NEW i \in DOMAIN u
               PROVE  /\ u[i].role = "assistant" => \A k \in 1 .. u[i].calls : i + k <= Len(u) /\ u[i + k].role = "tool" /\ u[i + k].covers = u[i].covers
                      /\ u[i].role = "tool" => \E k \in 1 .. MaxCalls : i - k >= 1 /\ u[i - k].role = "assistant" /\ u[i - k].calls >= k
    BY DEF Paired
  <2>1. CASE i = 1
    <3>1. \A k \in 1 .. calls : 1 + k \in 2 .. (1 + calls) /\ 1 + k <= 1 + calls
      BY <1>1
    <3> QED BY <1>4, <1>8, <2>1, <3>1
  <2>2. CASE i \in 2 .. (1 + calls)
    <3>1. i - 1 \in 1 .. MaxCalls /\ i - (i - 1) = 1 /\ calls >= i - 1
      BY <1>1, <2>2, SizeAssumption
    <3> QED BY <1>8, <2>2, <3>1
  <2> QED BY <1>9, <2>1, <2>2
<1>11. n .. n = {n}
  OBVIOUS
<1>12. \A r \in n .. n : Once(u, r)
  <2>1. 1 \in DOMAIN u /\ Carries(u[1], n)
    BY <1>1, <1>6, <1>8 DEF Carries
  <2>2. \A i \in DOMAIN u : Carries(u[i], n) => i = 1
    BY <1>8, <1>9 DEF Carries
  <2> QED BY <1>11, <2>1, <2>2 DEF Once
<1>13. \A i \in DOMAIN u : u[i].covers \subseteq n .. n /\ u[i].role # "system"
  BY <1>8, <1>9, <1>11
<1> QED BY <1>4, <1>10, <1>12, <1>13 DEF Stretch, u, h, t

(* A turn with its compressions leaves the conversation whole, one round longer, *)
(* and the job that is pending after it holds a part of that conversation.       *)
LEMMA TurnAppended ==
  ASSUME Inv, NEW turn, Stretch(turn, (round + 1) .. (round + 1)), NEW first, NEW second
  PROVE  /\ Whole(Appended(turn, first, second).messages, round + 1)
         /\ Appended(turn, first, second).job \in Jobs
         /\ Pending(Appended(turn, first, second).job, Appended(turn, first, second).messages, round + 1)
<1> DEFINE applied == IF job.state = "done" THEN Rebuilt(messages) ELSE messages
           job1 == IF job.state = "done" THEN NoJob ELSE job
           overBefore == CountMessagesTokens(applied) > WarnLimit
           kept == IF overBefore THEN Compress(applied, first) ELSE applied
           before == kept \o turn
           job2 == IF overBefore THEN AfterCompression(job1) ELSE job1
           overAfter == CountMessagesTokens(before) > WarnLimit
           after == IF overAfter THEN Compress(before, second) ELSE before
           job3 == IF overAfter THEN AfterCompression(job2) ELSE job2
           finalCount == CountMessagesTokens(after)
           begins == job3.state = "none" /\ finalCount > SoftLimit /\ finalCount < WarnLimit
           taken == [NoJob EXCEPT !.state = "running", !.snapshot = after]
           last == IF begins THEN taken ELSE job3
<1>1. round \in Nat /\ round + 1 \in Nat
  BY DEF Inv
<1>2. NoJob \in Jobs /\ NoJob.state = "none"
  BY DEF NoJob, Jobs
<1>3. Whole(applied, round) /\ job1 \in Jobs /\ Pending(job1, applied, round)
  <2>1. CASE job.state = "done"
    <3>1. Rebuilt(messages) = job.rebuilt \o Since(job, messages)
      BY DEF Rebuilt, Since
    <3>2. Whole(Rebuilt(messages), round)
      BY <1>1, <2>1, <3>1, Applied DEF Inv
    <3> QED BY <1>2, <2>1, <3>2 DEF Pending
  <2>2. CASE job.state # "done"
    BY <2>2 DEF Inv
  <2> QED BY <2>1, <2>2
<1> HIDE DEF applied, job1, overBefore
<1>4. Whole(kept, round) /\ job2 \in Jobs /\ Pending(job2, kept, round)
  <2>1. CASE overBefore
    <3>1. Whole(Compress(applied, first), round)
      BY <1>1, <1>3, Compressed
    <3>2. job2 = NoJob
      BY <2>1 DEF AfterCompression
    <3> QED BY <1>2, <2>1, <3>1, <3>2 DEF Pending
  <2>2. CASE ~ overBefore
    BY <1>3, <2>2
  <2> QED BY <2>1, <2>2
<1> HIDE DEF kept, job2
<1>5. Whole(before, round + 1) /\ Pending(job2, before, round + 1)
  <2>1. round <= round + 1
    BY <1>1
  <2>2. Whole(before, round + 1)
    BY <1>1, <1>4, <2>1, Extended
  <2>3. Pending(job2, before, round + 1)
    BY <1>1, <1>4, <2>1, Grown
  <2> QED BY <2>2, <2>3
<1> HIDE DEF before, overAfter
<1>6. Whole(after, round + 1) /\ job3 \in Jobs /\ Pending(job3, after, round + 1)
  <2>1. CASE overAfter
    <3>1. Whole(Compress(before, second), round + 1)
      BY <1>1, <1>5, Compressed
    <3>2. job3 = NoJob
      BY <2>1 DEF AfterCompression
    <3> QED BY <1>2, <2>1, <3>1, <3>2 DEF Pending
  <2>2. CASE ~ overAfter
    BY <1>4, <1>5, <2>2
  <2> QED BY <2>1, <2>2
<1> HIDE DEF after, job3, begins
<1>7. taken.state = "running" /\ taken.snapshot = after /\ taken \in Jobs
  <2>1. after \in Seq(Messages)
    BY <1>6 DEF Whole, Stretch
  <2> QED BY <1>2, <2>1 DEF Jobs
<1> HIDE DEF taken
<1>8. Pending(taken, after, round + 1)
  BY <1>1, <1>6, <1>7, Taken
<1>9. last \in Jobs /\ Pending(last, after, round + 1)
  BY <1>6, <1>7, <1>8
<1>10. Appended(turn, first, second).messages = after /\ Appended(turn, first, second).job = last
  BY DEF Appended, last, taken, begins, finalCount, job3, after, overAfter, job2, before, kept, overBefore, job1, applied
<1> QED BY <1>6, <1>9, <1>10

------------------------------------------------------------------------------
(* The conversation starts whole. *)
LEMMA InitInv == Init => Inv
<1> SUFFICES ASSUME Init PROVE Inv
  OBVIOUS
<1> DEFINE sys == Message("system", {}, 0, PromptSize)
           usr == Message("user", {}, 0, PromptSize)
<1>1. sys \in Messages /\ usr \in Messages
  BY SizeAssumption DEF Message, Messages, Roles
<1>2. sys.role = "system" /\ usr.role = "user" /\ sys.covers = {} /\ usr.covers = {}
  BY DEF Message
<1> HIDE DEF sys, usr
<1>3. messages = <<sys, usr>>
  BY DEF Init, sys, usr
<1>4. messages \in Seq(Messages) /\ Len(messages) = 2 /\ messages[1] = sys /\ messages[2] = usr /\ DOMAIN messages = 1 .. 2
  BY <1>1, <1>3
<1>5. \A i \in DOMAIN messages : i = 1 \/ i = 2
  BY <1>4
<1>6. 1 .. 0 = {}
  OBVIOUS
<1>7. Stretch(messages, 1 .. 0)
  BY <1>2, <1>4, <1>5, <1>6 DEF Stretch, Paired
<1>8. round = 0 /\ job = NoJob
  BY DEF Init
<1> QED BY <1>2, <1>4, <1>7, <1>8 DEF Inv, Whole, Pending, NoJob, Jobs

(* A step that leaves the conversation alone, and the job or gives it up. *)
LEMMA Untouched ==
  ASSUME Inv, UNCHANGED <<messages, round>>, job' = job \/ job' = NoJob
  PROVE  Inv'
<1>1. messages' = messages /\ round' = round
  OBVIOUS
<1>2. NoJob \in Jobs /\ NoJob.state = "none"
  BY DEF NoJob, Jobs
<1>3. job' \in Jobs
  BY <1>2 DEF Inv
<1>4. Pending(job', messages, round)
  <2>1. CASE job' = job
    BY <2>1 DEF Inv
  <2>2. CASE job' = NoJob
    BY <1>2, <2>2 DEF Pending
  <2> QED BY <2>1, <2>2
<1> QED BY <1>1, <1>3, <1>4 DEF Inv

(* A response without tool calls adds a round that calls nothing, or no round. *)
LEMMA NoToolCallsKeeps == Inv /\ NoToolCalls => Inv'
<1> SUFFICES ASSUME Inv, NoToolCalls PROVE Inv'
  OBVIOUS
<1>1. round \in Nat /\ messages \in Seq(Messages) /\ job' = job
  BY DEF Inv, NoToolCalls, Whole, Stretch
<1>2. Nudge \in Messages /\ Nudge.role = "user" /\ Nudge.covers = {}
  BY DEF Nudge, Message, Messages, Roles
<1>3. CASE messages' = messages \o <<Assistant(round + 1, 0), Nudge>> /\ round' = round + 1
  <2> DEFINE t == <<Assistant(round + 1, 0), Nudge>>
  <2>1. /\ Assistant(round + 1, 0) \in Messages /\ Assistant(round + 1, 0).role = "assistant"
        /\ Assistant(round + 1, 0).covers = {round + 1} /\ Assistant(round + 1, 0).calls = 0
    BY <1>1 DEF Assistant, Message, Messages, Roles
  <2>2. t \in Seq(Messages) /\ DOMAIN t = 1 .. 2 /\ t[1] = Assistant(round + 1, 0) /\ t[2] = Nudge
    BY <1>2, <2>1
  <2> HIDE DEF t
  <2>3. \A i \in DOMAIN t : i = 1 \/ i = 2
    BY <2>2
  <2>4. Paired(t)
    <3>1. 1 .. 0 = {}
      OBVIOUS
    <3> QED BY <1>2, <2>1, <2>2, <2>3, <3>1 DEF Paired
  <2>5. (round + 1) .. (round + 1) = {round + 1}
    BY <1>1
  <2>6. Once(t, round + 1)
    <3>1. 1 \in DOMAIN t /\ Carries(t[1], round + 1)
      BY <2>1, <2>2 DEF Carries
    <3>2. \A j \in DOMAIN t : Carries(t[j], round + 1) => j = 1
      BY <1>2, <2>2, <2>3 DEF Carries
    <3> QED BY <3>1, <3>2 DEF Once
  <2>7. Stretch(t, (round + 1) .. (round + 1))
    BY <1>2, <2>1, <2>2, <2>3, <2>4, <2>5, <2>6 DEF Stretch
  <2>8. round + 1 \in Nat /\ round <= round + 1
    BY <1>1
  <2>9. Whole(messages \o t, round + 1)
    BY <1>1, <2>7, <2>8, Extended DEF Inv
  <2>10. Pending(job, messages \o t, round + 1)
    BY <1>1, <2>7, <2>8, Grown DEF Inv
  <2>11. messages' = messages \o t
    BY <1>3 DEF t
  <2> QED BY <1>1, <1>3, <2>8, <2>9, <2>10, <2>11 DEF Inv
<1>4. CASE messages' = Append(messages, Nudge) /\ round' = round
  <2> DEFINE t == <<Nudge>>
  <2>1. t \in Seq(Messages) /\ DOMAIN t = 1 .. 1 /\ t[1] = Nudge
    BY <1>2
  <2>2. messages' = messages \o t
    BY <1>1, <1>2, <1>4, AppendIsConcat
  <2> HIDE DEF t
  <2>3. \A i \in DOMAIN t : i = 1
    BY <2>1
  <2>4. (round + 1) .. round = {}
    BY <1>1
  <2>5. Stretch(t, (round + 1) .. round)
    BY <1>2, <2>1, <2>3, <2>4 DEF Stretch, Paired
  <2>6. round <= round
    BY <1>1
  <2>7. Whole(messages \o t, round)
    BY <1>1, <2>5, <2>6, Extended DEF Inv
  <2>8. Pending(job, messages \o t, round)
    BY <1>1, <2>5, <2>6, Grown DEF Inv
  <2> QED BY <1>1, <1>4, <2>2, <2>7, <2>8 DEF Inv
<1> QED BY <1>3, <1>4 DEF NoToolCalls

(* A response with tool calls appends its turn, or ends the conversation. *)
LEMMA ToolCallsKeeps == Inv /\ ToolCalls => Inv'
<1> SUFFICES ASSUME Inv, ToolCalls PROVE Inv'
  OBVIOUS
<1>1. PICK outcome \in (SUBSET {"DONE", "FAILED", "valid", "empty"}) \ {{}},
           calls \in 1 .. MaxCalls, size \in ResultSizes, first \in Outcomes, second \in Outcomes :
        LET turn == <<Assistant(round + 1, calls)>> \o [i \in 1 .. calls |-> ToolResult(round + 1, size)]
            next == Appended(turn, first, second)
            empties == IF "valid" \in outcome THEN 0 ELSE emptyRounds + 1
        IN  \/ /\ "FAILED" \in outcome /\ Return("error")
               /\ UNCHANGED <<messages, round, emptyRounds, stop>>
            \/ /\ "FAILED" \notin outcome /\ "DONE" \in outcome /\ Return("completed")
               /\ UNCHANGED <<messages, round, emptyRounds, stop>>
            \/ /\ outcome \subseteq {"valid", "empty"} /\ TooManyEmpty(empties)
               /\ Break("empty_rounds") /\ emptyRounds' = empties /\ job' = NoJob
               /\ UNCHANGED <<messages, round>>
            \/ /\ outcome \subseteq {"valid", "empty"} /\ ~TooManyEmpty(empties)
               /\ emptyRounds' = empties /\ round' = round + 1 /\ messages' = next.messages
               /\ IF next.succeed
                    THEN phase' = "head" /\ job' = next.job /\ UNCHANGED <<stop, result>>
                    ELSE Break("compression") /\ job' = NoJob
  BY Zenon DEF ToolCalls
<1> DEFINE turn == <<Assistant(round + 1, calls)>> \o [i \in 1 .. calls |-> ToolResult(round + 1, size)]
           next == Appended(turn, first, second)
<1>2. CASE UNCHANGED <<messages, round>> /\ job' = NoJob
  BY <1>2, Untouched
<1>3. CASE round' = round + 1 /\ messages' = next.messages /\ (job' = next.job \/ job' = NoJob)
  <2>1. round \in Nat /\ round + 1 \in Nat \ {0} /\ calls \in 0 .. MaxCalls /\ size \in Nat
    BY SizeAssumption DEF Inv
  <2>2. Stretch(turn, (round + 1) .. (round + 1))
    BY <2>1, TurnStretch
  <2> HIDE DEF turn
  <2>3. Whole(next.messages, round + 1) /\ next.job \in Jobs /\ Pending(next.job, next.messages, round + 1)
    BY <2>2, TurnAppended
  <2>4. NoJob \in Jobs /\ NoJob.state = "none"
    BY DEF NoJob, Jobs
  <2>5. Pending(NoJob, next.messages, round + 1)
    BY <2>4 DEF Pending
  <2> HIDE DEF next
  <2>6. job' \in Jobs /\ Pending(job', messages', round + 1)
    BY <1>3, <2>3, <2>4, <2>5
  <2>7. Whole(messages', round + 1) /\ round' = round + 1
    BY <1>3, <2>3
  <2> QED BY <2>1, <2>6, <2>7 DEF Inv
<1> HIDE DEF next
<1>4. \/ UNCHANGED <<messages, round>> /\ job' = NoJob
      \/ round' = round + 1 /\ messages' = next.messages /\ (job' = next.job \/ job' = NoJob)
  BY <1>1 DEF Return, next, turn
<1> QED BY <1>2, <1>3, <1>4

(* A job ends with a whole conversation in the place of its snapshot. *)
LEMMA JobEndsKeeps == Inv /\ JobEnds => Inv'
<1> SUFFICES ASSUME Inv, JobEnds PROVE Inv'
  OBVIOUS
<1>1. UNCHANGED <<messages, round>> /\ job.state = "running"
  BY DEF JobEnds
<1>2. PICK outcome \in Outcomes :
        job' = IF outcome = "error" THEN NoJob ELSE [job EXCEPT !.state = "done", !.rebuilt = Compress(job.snapshot, outcome)]
  BY DEF JobEnds
<1>3. CASE outcome = "error"
  BY <1>1, <1>2, <1>3, Untouched
<1>4. CASE outcome # "error"
  <2>1. PICK a \in 0 .. round : /\ Whole(job.snapshot, a) /\ messages = job.snapshot \o Since(job, messages)
                                /\ Stretch(Since(job, messages), (a + 1) .. round)
    BY <1>1 DEF Inv, Pending
  <2>2. Whole(Compress(job.snapshot, outcome), a)
    <3>1. a \in Nat
      BY DEF Inv
    <3> QED BY <2>1, <3>1, Compressed
  <2>3. Compress(job.snapshot, outcome) \in Seq(Messages)
    BY <2>2 DEF Whole, Stretch
  <2>4. job'.state = "done" /\ job'.snapshot = job.snapshot /\ job'.rebuilt = Compress(job.snapshot, outcome) /\ job' \in Jobs
    BY <1>2, <1>4, <2>3 DEF Inv, Jobs
  <2>5. Since(job', messages) = Since(job, messages)
    BY <2>4 DEF Since
  <2>6. Pending(job', messages, round)
    BY <2>1, <2>2, <2>4, <2>5 DEF Pending
  <2> QED BY <1>1, <2>4, <2>6 DEF Inv
<1> QED BY <1>3, <1>4

(* The inductive invariant: the conversation is whole and so is what a pending *)
(* job holds of it, whatever the loop does and whenever the job ends.          *)
THEOREM Inductive == Spec => []Inv
<1>1. Inv /\ [Next]_vars => Inv'
  <2> SUFFICES ASSUME Inv, [Next]_vars PROVE Inv'
    OBVIOUS
  <2>1. CASE LoopHead
    BY <2>1, Untouched DEF LoopHead, Return, Break
  <2>2. CASE RequestFails
    BY <2>2, Untouched DEF RequestFails, Return
  <2>3. CASE NoToolCalls
    BY <2>3, NoToolCallsKeeps
  <2>4. CASE ToolCalls
    BY <2>4, ToolCallsKeeps
  <2>5. CASE GraceAnswered
    BY <2>5, Untouched DEF GraceAnswered, Return
  <2>6. CASE GraceSkipped
    BY <2>6, Untouched DEF GraceSkipped, Return
  <2>7. CASE JobEnds
    BY <2>7, JobEndsKeeps
  <2>8. CASE Cancel
    BY <2>8, Untouched DEF Cancel
  <2>9. CASE SpendBudget
    BY <2>9, Untouched DEF SpendBudget
  <2>10. CASE UNCHANGED vars
    BY <2>10, Untouched DEF vars
  <2> QED BY <2>1, <2>2, <2>3, <2>4, <2>5, <2>6, <2>7, <2>8, <2>9, <2>10 DEF Next, Step
<1> QED BY <1>1, InitInv, PTL DEF Spec

(* Every request answers each tool call right behind it, and holds no result    *)
(* without its call, whatever was summarized, replaced or appended before.       *)
THEOREM CallsArePaired == Spec => []WellPaired
<1>1. Inv => WellPaired
  <2> SUFFICES ASSUME Inv, NEW i \in DOMAIN messages
               PROVE  /\ messages[i].role = "assistant" =>
                           \A k \in 1 .. messages[i].calls :
                             i + k <= Len(messages) /\ messages[i + k].role = "tool" /\ messages[i + k].covers = messages[i].covers
                      /\ messages[i].role = "tool" =>
                           \E k \in 1 .. MaxCalls : i - k >= 3 /\ messages[i - k].role = "assistant" /\ messages[i - k].calls >= k
    BY DEF WellPaired
  <2>1. Paired(messages) /\ messages[1].role = "system" /\ messages[2].role = "user"
    BY DEF Inv, Whole, Stretch
  <2>2. ASSUME messages[i].role = "tool"
        PROVE  \E k \in 1 .. MaxCalls : i - k >= 3 /\ messages[i - k].role = "assistant" /\ messages[i - k].calls >= k
    <3>1. PICK k \in 1 .. MaxCalls : i - k >= 1 /\ messages[i - k].role = "assistant" /\ messages[i - k].calls >= k
      BY <2>1, <2>2 DEF Paired
    <3>2. i \in Nat /\ k \in Nat
      BY SizeAssumption, LenProperties DEF Inv, Whole, Stretch
    <3>3. i - k # 1 /\ i - k # 2
      BY <2>1, <3>1
    <3> QED BY <3>1, <3>2, <3>3
  <2> QED BY <2>1, <2>2 DEF Paired
<1> QED BY <1>1, Inductive, PTL

(* Each round is summarized in the prompt or stands in the conversation, once, *)
(* and the snapshot of a pending job is a prefix of the conversation.          *)
THEOREM RoundsAreWhole == Spec => []RoundsWhole
<1>1. Inv => NothingLost
  <2> SUFFICES ASSUME Inv, NEW r \in 1 .. round
               PROVE  Cardinality({i \in DOMAIN messages : messages[i].role \in {"user", "assistant"} /\ r \in messages[i].covers}) = 1
    BY DEF NothingLost
  <2> DEFINE S == {i \in DOMAIN messages : messages[i].role \in {"user", "assistant"} /\ r \in messages[i].covers}
  <2>1. Once(messages, r)
    BY DEF Inv, Whole, Stretch
  <2>2. PICK i \in DOMAIN messages : Carries(messages[i], r) /\ \A j \in DOMAIN messages : Carries(messages[j], r) => j = i
    BY <2>1 DEF Once
  <2>3. S = {i}
    BY <2>2 DEF Carries
  <2> QED BY <2>3, FS_Singleton
<1>2. Inv => SnapshotPrefix
  <2> SUFFICES ASSUME Inv, job.state # "none" PROVE IsPrefix(job.snapshot, messages)
    BY DEF SnapshotPrefix
  <2>1. PICK s \in Seq(Messages), t \in Seq(Messages) : s = job.snapshot /\ messages = s \o t
    BY DEF Inv, Pending, Whole, Stretch
  <2>2. Len(s) \in Nat /\ Len(t) \in Nat /\ Len(messages) = Len(s) + Len(t) /\ messages \in Seq(Messages)
    BY <2>1, LenProperties, ConcatProperties
  <2>3. \A i \in 1 .. Len(s) + Len(t) : messages[i] = IF i <= Len(s) THEN s[i] ELSE t[i - Len(s)]
    BY <2>1, ConcatProperties
  <2>4. \A i \in 1 .. Len(s) : messages[i] = s[i]
    BY <2>2, <2>3
  <2>5. SubSeq(messages, 1, Len(s)) = SubSeq(s, 1, Len(s))
    BY <2>4
  <2>6. Len(s) <= Len(messages)
    BY <2>2
  <2> QED BY <2>1, <2>5, <2>6 DEF IsPrefix
<1> QED BY <1>1, <1>2, Inductive, PTL DEF RoundsWhole
-----------------------------------------------------------------------------
(* The review rounds. *)

(* Where the goroutine of a group is before its conversation, in a round and after. *)
Stages == {"start", "head", "conversation", "drain", "filter", "delta", "settling", "done"}

RoundTypes ==
  /\ pending \in [G -> Nat] /\ stage \in [G -> Stages] /\ reviewRound \in [G -> Nat]
  /\ baseline \in [File -> Nat]
  /\ candidates \in [G -> SUBSET [id : Nat, path : File, idx : Nat]]
  /\ verdict \in [G -> {"none", "done", "stopped", "failed"}]
  /\ confirmed \in [G -> SUBSET (Nat \X Nat)]
  /\ returned \in [G -> {"none", "completed", "stop", "error"}]
  /\ left \in [G -> Seq(File)] /\ (\A g \in G : Range(left[g]) \subseteq Files(g))
  /\ checkpoint \in [File -> SUBSET Nat]

(* A list of comments, each at a place of its own. *)
IsList(S, n) ==
  /\ IsFiniteSet(S) /\ n \in Nat /\ S \subseteq [id : 1 .. n, by : G, path : File]
  /\ \A c, d \in S : c.id = d.id => c = d

(* The comments of a list on a file, the position of one among them, and those *)
(* before the baseline of the file.                                            *)
OnPath(S, f) == {c \in S : c.path = f}
Rank(S, c) == Cardinality({d \in OnPath(S, c.path) : d.id < c.id})
Firsts(S, b, f) == {c \in OnPath(S, f) : Rank(S, c) < b[f]}

(* The comments of a file that its group has accounted for are its first ones. *)
First(f) == Firsts(comments, baseline, f)
AllCounted == \A f \in File : Cardinality(First(f)) = baseline[f]

(* What the filter of g is shown stands where it was read. *)
Shown(g) ==
  /\ stage[g] # "filter" => candidates[g] = {}
  /\ \A k \in candidates[g] :
       /\ k.path \in Files(g) /\ k.idx >= baseline[k.path]
       /\ \E c \in comments : c.id = k.id /\ c.path = k.path /\ Rank(comments, c) = k.idx

(* What g confirmed are comments it accounted for, each once. *)
Confirmed(g) ==
  /\ \A p \in confirmed[g] : \E f \in Files(g) : p[2] \in Ids(First(f))
  /\ \A p, q \in confirmed[g] : p[2] = q[2] => p = q

(* The comments of g that it accounted for are confirmed, and between rounds and *)
(* after the last one these are all it has.                                      *)
Over(g) == stage[g] \in {"settling", "done"} /\ returned[g] # "error" /\ verdict[g] # "failed"
Judged(g) ==
  /\ stage[g] = "start" => pending[g] = 0 /\ \A c \in comments : c.by # g
  /\ stage[g] \in {"filter", "delta"} => pending[g] = 0
  /\ stage[g] = "head" \/ Over(g) =>
       pending[g] = 0 /\ \A f \in Files(g) : \A c \in OnPath(comments, f) : c.by = g => c \in First(f)
  /\ \A f \in Files(g) : \A c \in First(f) : c.by = g => c.id \in ConfirmedIds(g)

(* The checkpoint of a file has what g left on it. *)
Recorded(g) ==
  /\ stage[g] \notin {"settling", "done"} =>
       returned[g] = "none" /\ verdict[g] # "failed" /\ \A f \in Files(g) : checkpoint[f] = NoCheckpoint
  /\ Over(g) => \A f \in Files(g) : checkpoint[f] # NoCheckpoint =>
       OwnOn(g, f) \subseteq checkpoint[f] /\ checkpoint[f] \subseteq Ids(OnPath(comments, f))

OfGroup(g) == Shown(g) /\ Confirmed(g) /\ Judged(g) /\ Recorded(g)
RoundsInv == RoundTypes /\ IsList(comments, landed) /\ AllCounted /\ \A g \in G : OfGroup(g)

(* A set of comments on a file that come before the others has the lowest positions. *)
LEMMA Ranks ==
  ASSUME NEW S, NEW n, IsList(S, n), NEW f, NEW base \in SUBSET OnPath(S, f),
         \A c \in base : \A d \in OnPath(S, f) \ base : c.id < d.id
  PROVE  /\ IsFiniteSet(base) /\ Cardinality(base) \in Nat
         /\ \A c \in OnPath(S, f) : Rank(S, c) \in Nat /\ (Rank(S, c) < Cardinality(base) <=> c \in base)
<1>1. IsFiniteSet(OnPath(S, f)) /\ \A c \in OnPath(S, f) : c.id \in Nat /\ c.path = f
  <2>1. IsFiniteSet(S) /\ OnPath(S, f) \in SUBSET S
    BY DEF IsList, OnPath
  <2> QED BY <2>1, FS_Subset DEF IsList, OnPath
<1>2. IsFiniteSet(base) /\ Cardinality(base) \in Nat
  BY <1>1, FS_Subset, FS_CardinalityType
<1>3. ASSUME NEW c \in OnPath(S, f)
      PROVE  Rank(S, c) \in Nat /\ (Rank(S, c) < Cardinality(base) <=> c \in base)
  <2> DEFINE before == {d \in OnPath(S, f) : d.id < c.id}
  <2>1. Rank(S, c) = Cardinality(before)
    BY <1>1 DEF Rank
  <2>2. IsFiniteSet(before) /\ Cardinality(before) \in Nat
    BY <1>1, FS_Subset, FS_CardinalityType
  <2>3. CASE c \in base
    <3>1. before \in SUBSET base
      BY <1>1, <2>3
    <3>2. c \notin before
      BY <1>1
    <3> HIDE DEF before
    <3>3. Cardinality(before) <= Cardinality(base) /\ Cardinality(before) # Cardinality(base)
      BY <1>2, <2>3, <3>1, <3>2, FS_Subset
    <3> QED BY ONLY <1>2, <2>1, <2>2, <2>3, <3>3
  <2>4. CASE c \notin base
    <3>1. base \in SUBSET before
      BY <2>4
    <3> HIDE DEF before
    <3>2. Cardinality(base) <= Cardinality(before)
      BY <2>2, <3>1, FS_Subset
    <3> QED BY ONLY <1>2, <2>1, <2>2, <2>4, <3>2
  <2> QED BY <2>3, <2>4
<1> QED BY <1>2, <1>3

(* The comments before the baseline come before the others. *)
LEMMA FirstsLower ==
  ASSUME NEW S, NEW n, IsList(S, n), NEW b \in [File -> Nat], NEW f \in File
  PROVE  /\ Firsts(S, b, f) \in SUBSET OnPath(S, f)
         /\ \A c \in Firsts(S, b, f) : \A d \in OnPath(S, f) \ Firsts(S, b, f) : c.id < d.id
<1>1. \A c \in OnPath(S, f) : Rank(S, c) \in Nat
  BY Ranks
<1>2. IsFiniteSet(OnPath(S, f)) /\ \A c \in OnPath(S, f) : c.id \in Nat /\ c.path = f
  <2>1. IsFiniteSet(S) /\ OnPath(S, f) \in SUBSET S
    BY DEF IsList, OnPath
  <2> QED BY <2>1, FS_Subset DEF IsList, OnPath
<1>3. ASSUME NEW c \in Firsts(S, b, f), NEW d \in OnPath(S, f) \ Firsts(S, b, f) PROVE c.id < d.id
  <2> SUFFICES ASSUME ~(c.id < d.id) PROVE FALSE
    OBVIOUS
  <2> DEFINE low == {x \in OnPath(S, f) : x.id < d.id}
             high == {x \in OnPath(S, f) : x.id < c.id}
  <2>1. c \in OnPath(S, f) /\ Rank(S, c) < b[f] /\ ~(Rank(S, d) < b[f])
    BY DEF Firsts
  <2>2. low \in SUBSET high
    BY <1>2, <2>1
  <2>3. Rank(S, c) = Cardinality(high) /\ Rank(S, d) = Cardinality(low)
    BY <1>2, <2>1 DEF Rank
  <2>4. IsFiniteSet(high)
    BY <1>2, FS_Subset
  <2> HIDE DEF low, high
  <2>5. Cardinality(low) <= Cardinality(high)
    BY <2>2, <2>4, FS_Subset
  <2>6. Rank(S, c) \in Nat /\ Rank(S, d) \in Nat /\ b[f] \in Nat
    BY <1>1, <2>1
  <2> QED BY ONLY <2>1, <2>3, <2>5, <2>6
<1> QED BY <1>3 DEF Firsts

(* They stay what they are when only others are removed, or added behind them. *)
LEMMA FirstsKept ==
  ASSUME NEW S, NEW n, IsList(S, n), NEW T, NEW m, IsList(T, m), NEW b \in [File -> Nat], NEW f \in File,
         Cardinality(Firsts(S, b, f)) = b[f], Firsts(S, b, f) \subseteq T,
         \A d \in OnPath(T, f) : d \in S \/ d.id > n
  PROVE  Firsts(T, b, f) = Firsts(S, b, f)
<1> DEFINE base == Firsts(S, b, f)
<1>1. base \in SUBSET OnPath(T, f)
  BY FirstsLower DEF OnPath
<1>2. \A c \in base : \A d \in OnPath(T, f) \ base : c.id < d.id
  <2> SUFFICES ASSUME NEW c \in base, NEW d \in OnPath(T, f) \ base PROVE c.id < d.id
    OBVIOUS
  <2>1. CASE d \in S
    <3>1. d \in OnPath(S, f) \ base
      BY <2>1 DEF OnPath
    <3> QED BY <3>1, FirstsLower
  <2>2. CASE d.id > n
    <3>1. c.id \in 1 .. n /\ n \in Nat /\ d.id \in Nat
      BY FirstsLower DEF IsList, OnPath
    <3> QED BY <2>2, <3>1
  <2> QED BY <2>1, <2>2
<1> HIDE DEF base
<1>3. \A c \in OnPath(T, f) : Rank(T, c) < Cardinality(base) <=> c \in base
  BY <1>1, <1>2, Ranks
<1>4. Cardinality(base) = b[f]
  BY DEF base
<1> QED BY <1>1, <1>3, <1>4 DEF Firsts, base

(* A baseline that counts all of a file's comments has them all before it. *)
LEMMA FirstsAll ==
  ASSUME NEW S, NEW n, IsList(S, n), NEW b, NEW f, b[f] = Cardinality(OnPath(S, f))
  PROVE  Firsts(S, b, f) = OnPath(S, f)
<1>1. \A c \in OnPath(S, f) : Rank(S, c) < Cardinality(OnPath(S, f))
  BY Ranks
<1> QED BY <1>1 DEF Firsts

(* A comment is told by its file and its position. *)
LEMMA RankTells ==
  ASSUME NEW S, NEW n, IsList(S, n), NEW c \in S, NEW d \in S, c.path = d.path, Rank(S, c) = Rank(S, d)
  PROVE  c = d
<1>1. ASSUME NEW x \in S, NEW y \in S, x.path = y.path, x.id < y.id PROVE Rank(S, x) # Rank(S, y)
  <2> DEFINE f == x.path
             base == {z \in OnPath(S, f) : z.id < y.id}
  <2>1. \A z \in S : z.id \in Nat
    BY DEF IsList
  <2>2. x \in base /\ y \in OnPath(S, f) \ base
    BY <1>1, <2>1 DEF OnPath
  <2>3. base \in SUBSET OnPath(S, f) /\ \A z \in base : \A w \in OnPath(S, f) \ base : z.id < w.id
    BY <1>1, <2>1 DEF OnPath
  <2>4. y \in OnPath(S, f) /\ x \in OnPath(S, f)
    BY <2>2
  <2> HIDE DEF base, f
  <2>5. Rank(S, x) < Cardinality(base) /\ ~(Rank(S, y) < Cardinality(base))
    BY <2>2, <2>3, <2>4, Ranks
  <2> QED BY <2>5
<1>2. c.id \in Nat /\ d.id \in Nat
  BY DEF IsList
<1>3. c.id = d.id
  BY <1>1, <1>2
<1> QED BY <1>3 DEF IsList

(* A comment added at the end leaves the others where they are. *)
LEMMA Added ==
  ASSUME NEW S, NEW n, IsList(S, n), NEW x \in [id : {n + 1}, by : G, path : File]
  PROVE  /\ IsList(S \cup {x}, n + 1)
         /\ \A c \in S : Rank(S \cup {x}, c) = Rank(S, c)
<1>1. n \in Nat /\ x.id = n + 1 /\ \A c \in S : c.id \in 1 .. n
  BY DEF IsList
<1>2. IsFiniteSet(S \cup {x})
  BY FS_AddElement DEF IsList
<1>3. S \cup {x} \subseteq [id : 1 .. (n + 1), by : G, path : File]
  <2>1. S \subseteq [id : 1 .. n, by : G, path : File]
    BY DEF IsList
  <2>2. 1 .. n \subseteq 1 .. (n + 1) /\ n + 1 \in 1 .. (n + 1)
    BY <1>1
  <2> QED BY <2>1, <2>2
<1>4. \A c, d \in S \cup {x} : c.id = d.id => c = d
  BY <1>1 DEF IsList
<1>5. ASSUME NEW c \in S PROVE Rank(S \cup {x}, c) = Rank(S, c)
  <2>1. {d \in OnPath(S \cup {x}, c.path) : d.id < c.id} = {d \in OnPath(S, c.path) : d.id < c.id}
    BY <1>1 DEF OnPath
  <2> QED BY <2>1 DEF Rank
<1> QED BY <1>1, <1>2, <1>3, <1>4, <1>5 DEF IsList

(* A list of which some are dropped is one. *)
LEMMA Dropped == ASSUME NEW S, NEW n, IsList(S, n), NEW T \in SUBSET S PROVE IsList(T, n)
<1>1. IsFiniteSet(T)
  BY FS_Subset DEF IsList
<1> QED BY <1>1 DEF IsList

-----------------------------------------------------------------------------
(* What the rest of a group's state is to the other groups. *)
Same(x) ==
  /\ stage'[x] = stage[x] /\ pending'[x] = pending[x] /\ candidates'[x] = candidates[x]
  /\ confirmed'[x] = confirmed[x] /\ verdict'[x] = verdict[x] /\ returned'[x] = returned[x]
  /\ \A f \in Files(x) : checkpoint'[f] = checkpoint[f]

(* What the list is to a group that does not act: its comments stay, in their    *)
(* places, those it accounted for are the same, and it has no new one.           *)
Onward(x) ==
  /\ \A f \in Files(x) : First(f)' = First(f) /\ baseline'[f] = baseline[f]
  /\ \A c \in comments : c.path \in Files(x) => c \in comments' /\ Rank(comments', c) = Rank(comments, c)
  /\ \A c \in comments' : c \in comments \/ c.by # x

(* A group that is left alone keeps what is known of it. *)
LEMMA OthersKept ==
  ASSUME RoundsInv, NEW x \in G, OfGroup(x), Same(x), Onward(x)
  PROVE  OfGroup(x)'
<1>1. \A f \in Files(x) : f \in File
  BY DEF File
<1>2. Shown(x)'
  <2>1. stage'[x] # "filter" => candidates'[x] = {}
    BY DEF OfGroup, Shown, Same
  <2>2. ASSUME NEW k \in candidates'[x]
        PROVE  /\ k.path \in Files(x) /\ k.idx >= baseline'[k.path]
               /\ \E c \in comments' : c.id = k.id /\ c.path = k.path /\ Rank(comments', c) = k.idx
    <3>1. k \in candidates[x]
      BY <2>2 DEF Same
    <3>2. PICK c \in comments : c.id = k.id /\ c.path = k.path /\ Rank(comments, c) = k.idx
      BY <3>1 DEF OfGroup, Shown
    <3>3. k.path \in Files(x) /\ k.idx >= baseline[k.path]
      BY <3>1 DEF OfGroup, Shown
    <3>4. c \in comments' /\ Rank(comments', c) = Rank(comments, c)
      BY <3>2, <3>3 DEF Onward
    <3>5. baseline'[k.path] = baseline[k.path]
      BY <3>3 DEF Onward
    <3> QED BY <3>2, <3>3, <3>4, <3>5
  <2> QED BY <2>1, <2>2 DEF Shown
<1>3. Confirmed(x)'
  <2>1. confirmed'[x] = confirmed[x] /\ \A f \in Files(x) : First(f)' = First(f)
    BY DEF Same, Onward
  <2>2. \A f \in Files(x) : Ids(First(f))' = Ids(First(f))
    BY <2>1 DEF Ids
  <2> QED BY <2>1, <2>2 DEF OfGroup, Confirmed
<1>4. Judged(x)'
  <2>1. stage'[x] = "start" => pending'[x] = 0 /\ \A c \in comments' : c.by # x
    BY DEF OfGroup, Judged, Same, Onward
  <2>2. stage'[x] \in {"filter", "delta"} => pending'[x] = 0
    BY DEF OfGroup, Judged, Same
  <2>3. ASSUME (stage[x] = "head" \/ Over(x))'
        PROVE  pending'[x] = 0 /\ \A f \in Files(x) : \A c \in OnPath(comments', f) : c.by = x => c \in First(f)'
    <3>1. stage[x] = "head" \/ Over(x)
      BY <2>3 DEF Same, Over
    <3>2. ASSUME NEW f \in Files(x), NEW c \in OnPath(comments', f), c.by = x PROVE c \in First(f)'
      <4>1. c \in OnPath(comments, f)
        BY <3>2 DEF Onward, OnPath
      <4> QED BY <3>1, <3>2, <4>1 DEF OfGroup, Judged, Onward
    <3> QED BY <3>1, <3>2 DEF OfGroup, Judged, Same
  <2>4. \A f \in Files(x) : \A c \in First(f)' : c.by = x => c.id \in ConfirmedIds(x)'
    BY DEF OfGroup, Judged, Same, Onward, ConfirmedIds
  <2> QED BY <2>1, <2>2, <2>3, <2>4 DEF Judged
<1>5. Recorded(x)'
  <2>1. stage'[x] \notin {"settling", "done"} =>
          returned'[x] = "none" /\ verdict'[x] # "failed" /\ \A f \in Files(x) : checkpoint'[f] = NoCheckpoint
    BY DEF OfGroup, Recorded, Same
  <2>2. ASSUME Over(x)', NEW f \in Files(x), checkpoint'[f] # NoCheckpoint
        PROVE  OwnOn(x, f)' \subseteq checkpoint'[f] /\ checkpoint'[f] \subseteq Ids(OnPath(comments, f))'
    <3>1. Over(x) /\ checkpoint'[f] = checkpoint[f]
      BY <2>2 DEF Same, Over
    <3>2. OwnOn(x, f) \subseteq checkpoint[f] /\ checkpoint[f] \subseteq Ids(OnPath(comments, f))
      BY <2>2, <3>1 DEF OfGroup, Recorded
    <3>3. OwnOn(x, f)' \subseteq OwnOn(x, f)
      BY DEF OwnOn, Ids, CommentsForPath, Onward
    <3>4. Ids(OnPath(comments, f)) \subseteq Ids(OnPath(comments, f))'
      BY DEF Ids, OnPath, Onward
    <3> QED BY <3>1, <3>2, <3>3, <3>4
  <2> QED BY <2>1, <2>2 DEF Recorded
<1> QED BY <1>2, <1>3, <1>4, <1>5 DEF OfGroup

(* A step that leaves the list and the baselines alone. *)
LEMMA ListAlone ==
  ASSUME UNCHANGED <<comments, baseline>>, NEW x PROVE Onward(x)
BY DEF Onward, First

(* Files of different groups are different. *)
LEMMA Apart == ASSUME NEW x \in G, NEW g \in G, x # g, NEW f \in Files(x) PROVE f \in File /\ f \notin Files(g)
BY PartitionAssumption DEF File

(* A step of g on its own state leaves the others alone. *)
LEMMA OwnStep ==
  ASSUME RoundsInv, NEW g \in G, UNCHANGED <<comments, landed, baseline>>, OfGroup(g)',
         \A x \in G \ {g} : Same(x)
  PROVE  /\ IsList(comments', landed') /\ AllCounted'
         /\ \A x \in G : OfGroup(x)'
<1>1. IsList(comments', landed') /\ AllCounted'
  BY DEF RoundsInv, AllCounted, First
<1>2. ASSUME NEW x \in G \ {g} PROVE OfGroup(x)'
  BY ListAlone, OthersKept DEF RoundsInv
<1> QED BY <1>1, <1>2

(* What leaving executeGroupSubtask, and going on in it, writes. *)
LEMMA LeaveFacts ==
  ASSUME RoundTypes, NEW g \in G, NEW r \in {"completed", "stop", "error"}, Leave(g, r)
  PROVE  /\ stage' \in [G -> Stages] /\ stage'[g] = "settling" /\ \A x \in G \ {g} : stage'[x] = stage[x]
         /\ returned' \in [G -> {"none", "completed", "stop", "error"}] /\ returned'[g] = r
         /\ \A x \in G \ {g} : returned'[x] = returned[x]
         /\ left' \in [G -> Seq(File)] /\ \A x \in G : Range(left'[x]) \subseteq Files(x)
<1>1. Groups[g] \in Seq(File) /\ Range(Groups[g]) = Files(g)
  <2>1. Groups[g] \in Seq(Files(g)) /\ Files(g) \subseteq File
    BY GroupsAssumption DEF File
  <2>2. Range(Groups[g]) = Files(g)
    BY DEF Files
  <2>3. Groups[g] \in [1 .. Len(Groups[g]) -> Files(g)] /\ Len(Groups[g]) \in Nat
    BY <2>1
  <2>4. Groups[g] \in [1 .. Len(Groups[g]) -> File]
    BY <2>1, <2>3
  <2> QED BY <2>2, <2>3, <2>4
<1>2. left' \in [G -> Seq(File)]
  BY <1>1 DEF RoundTypes, Leave
<1>3. \A x \in G : Range(left'[x]) \subseteq Files(x)
  <2> SUFFICES ASSUME NEW x \in G PROVE Range(left'[x]) \subseteq Files(x)
    OBVIOUS
  <2>1. left' = [left EXCEPT ![g] = Groups[g]] /\ left \in [G -> Seq(File)] /\ Range(left[x]) \subseteq Files(x)
    BY DEF RoundTypes, Leave
  <2>2. left'[x] = IF x = g THEN Groups[g] ELSE left[x]
    BY <2>1
  <2> QED BY <1>1, <2>1, <2>2
<1>4. stage' \in [G -> Stages] /\ stage'[g] = "settling" /\ \A x \in G \ {g} : stage'[x] = stage[x]
  BY DEF RoundTypes, Leave, Stages
<1>5. /\ returned' \in [G -> {"none", "completed", "stop", "error"}] /\ returned'[g] = r
      /\ \A x \in G \ {g} : returned'[x] = returned[x]
  BY DEF RoundTypes, Leave
<1> QED BY <1>2, <1>3, <1>4, <1>5

(* Going on to another place of the round writes nothing else. *)
LEMMA GotoFacts ==
  ASSUME RoundTypes, NEW g \in G, NEW p \in Stages, Goto(g, p)
  PROVE  /\ stage' \in [G -> Stages] /\ stage'[g] = p /\ \A x \in G \ {g} : stage'[x] = stage[x]
         /\ returned' = returned /\ left' = left
BY DEF RoundTypes, Goto

(* The head of a round. *)
LEMMA HeadStep == ASSUME RoundsInv, NEW g \in G, RoundHead(g) PROVE RoundsInv'
<1>a. RoundTypes /\ OfGroup(g)
  BY DEF RoundsInv
<1>b. /\ stage[g] = "head"
      /\ UNCHANGED <<comments, landed, filed, pending, reviewRound, baseline, candidates, verdict, confirmed, checkpoint>>
  BY DEF RoundHead, sharedVars
<1>1. \/ \E r \in {"completed", "stop", "error"} : Leave(g, r)
      \/ Goto(g, "conversation")
  BY DEF RoundHead, Breaks
<1>2. /\ stage' \in [G -> Stages] /\ stage'[g] \in {"settling", "conversation"} /\ \A x \in G \ {g} : stage'[x] = stage[x]
      /\ returned' \in [G -> {"none", "completed", "stop", "error"}] /\ \A x \in G \ {g} : returned'[x] = returned[x]
      /\ left' \in [G -> Seq(File)] /\ \A x \in G : Range(left'[x]) \subseteq Files(x)
      /\ stage'[g] = "conversation" => returned'[g] = returned[g]
  <2>1. CASE \E r \in {"completed", "stop", "error"} : Leave(g, r)
    BY <1>a, <2>1, LeaveFacts
  <2>2. CASE Goto(g, "conversation")
    <3>1. /\ stage' \in [G -> Stages] /\ stage'[g] = "conversation" /\ \A x \in G \ {g} : stage'[x] = stage[x]
          /\ returned' = returned /\ left' = left
      BY <1>a, <2>2, GotoFacts DEF Stages
    <3> QED BY <1>a, <3>1 DEF RoundTypes
  <2> QED BY <1>1, <2>1, <2>2
<1>3. RoundTypes'
  BY <1>a, <1>b, <1>2 DEF RoundTypes
<1>4. \A x \in G \ {g} : Same(x)
  BY <1>b, <1>2 DEF Same
<1>5. OfGroup(g)'
  <2>1. Shown(g)'
    <3>1. stage'[g] # "filter" => candidates'[g] = {}
      BY <1>a, <1>b DEF OfGroup, Shown
    <3> QED BY <1>a, <1>b, <3>1 DEF OfGroup, Shown
  <2>2. Confirmed(g)'
    BY <1>a, <1>b DEF OfGroup, Confirmed, First
  <2>3. Judged(g)'
    BY <1>a, <1>b, <1>2 DEF OfGroup, Judged, First, ConfirmedIds
  <2>4. Recorded(g)'
    <3>1. returned[g] = "none" /\ verdict[g] # "failed" /\ \A f \in Files(g) : checkpoint[f] = NoCheckpoint
      BY <1>a, <1>b DEF OfGroup, Recorded
    <3> QED BY <1>b, <1>2, <3>1 DEF Recorded
  <2> QED BY <2>1, <2>2, <2>3, <2>4 DEF OfGroup
<1> QED BY <1>b, <1>3, <1>4, <1>5, OwnStep DEF RoundsInv

(* A comment is filed: one more task of the group, whose conversation goes on. *)
LEMMA FileStep == ASSUME RoundsInv, NEW g \in G, FileComment(g) PROVE RoundsInv'
<1>a. RoundTypes /\ OfGroup(g)
  BY DEF RoundsInv
<1>b. /\ stage[g] = "conversation" /\ pending' = [pending EXCEPT ![g] = @ + 1]
      /\ UNCHANGED <<comments, landed, stage, reviewRound, baseline, candidates, verdict, confirmed, returned, left, checkpoint>>
  BY DEF FileComment, roundVars
<1>1. RoundTypes'
  BY <1>a, <1>b DEF RoundTypes
<1>2. \A x \in G \ {g} : Same(x)
  BY <1>a, <1>b DEF Same, RoundTypes
<1>3. Shown(g)' /\ Confirmed(g)' /\ Recorded(g)'
  BY <1>a, <1>b DEF OfGroup, Shown, Confirmed, Recorded, First, Over, OwnOn, Ids, CommentsForPath
<1>4. Judged(g)'
  BY <1>a, <1>b DEF OfGroup, Judged, First, ConfirmedIds, Over
<1>5. OfGroup(g)'
  BY <1>3, <1>4 DEF OfGroup
<1> QED BY <1>b, <1>1, <1>2, <1>5, OwnStep DEF RoundsInv

(* The conversation ends: the round goes on, or the group is left with what it has. *)
LEMMA EndStep == ASSUME RoundsInv, NEW g \in G, EndConversation(g) PROVE RoundsInv'
<1>a. RoundTypes /\ OfGroup(g)
  BY DEF RoundsInv
<1>b. /\ stage[g] = "conversation"
      /\ UNCHANGED <<comments, landed, filed, pending, reviewRound, baseline, candidates, confirmed, checkpoint>>
  BY DEF EndConversation, sharedVars
<1>1. \/ \E v \in {"done", "stopped"} : verdict' = [verdict EXCEPT ![g] = v] /\ Goto(g, "drain")
      \/ Leave(g, "error") /\ verdict' = verdict
      \/ Leave(g, "completed") /\ verdict' = [verdict EXCEPT ![g] = "failed"]
  BY DEF EndConversation, Breaks
<1> DEFINE ended ==
      /\ stage' \in [G -> Stages] /\ \A x \in G \ {g} : stage'[x] = stage[x]
      /\ returned' \in [G -> {"none", "completed", "stop", "error"}] /\ \A x \in G \ {g} : returned'[x] = returned[x]
      /\ left' \in [G -> Seq(File)] /\ \A x \in G : Range(left'[x]) \subseteq Files(x)
      /\ verdict' \in [G -> {"none", "done", "stopped", "failed"}] /\ \A x \in G \ {g} : verdict'[x] = verdict[x]
      /\ \/ stage'[g] = "drain" /\ verdict'[g] # "failed" /\ returned'[g] = returned[g]
         \/ stage'[g] = "settling" /\ (returned'[g] = "error" \/ verdict'[g] = "failed")
<1>2. ended
  <2>1. ASSUME NEW v \in {"done", "stopped"}, verdict' = [verdict EXCEPT ![g] = v], Goto(g, "drain") PROVE ended
    <3>1. /\ stage' \in [G -> Stages] /\ stage'[g] = "drain" /\ \A x \in G \ {g} : stage'[x] = stage[x]
          /\ returned' = returned /\ left' = left
      BY <1>a, <2>1, GotoFacts DEF Stages
    <3>2. /\ verdict' \in [G -> {"none", "done", "stopped", "failed"}] /\ verdict'[g] = v
          /\ \A x \in G \ {g} : verdict'[x] = verdict[x]
      BY <1>a, <2>1 DEF RoundTypes
    <3> QED BY <1>a, <3>1, <3>2 DEF RoundTypes
  <2>2. CASE Leave(g, "error") /\ verdict' = verdict
    <3>1. verdict \in [G -> {"none", "done", "stopped", "failed"}]
      BY <1>a DEF RoundTypes
    <3> QED BY <1>a, <2>2, <3>1, LeaveFacts
  <2>3. CASE Leave(g, "completed") /\ verdict' = [verdict EXCEPT ![g] = "failed"]
    <3>1. /\ verdict' \in [G -> {"none", "done", "stopped", "failed"}] /\ verdict'[g] = "failed"
          /\ \A x \in G \ {g} : verdict'[x] = verdict[x]
      BY <1>a, <2>3 DEF RoundTypes
    <3> QED BY <1>a, <2>3, <3>1, LeaveFacts
  <2> QED BY <1>1, <2>1, <2>2, <2>3
<1>3. RoundTypes'
  BY <1>a, <1>b, <1>2 DEF RoundTypes
<1>4. \A x \in G \ {g} : Same(x)
  BY <1>b, <1>2 DEF Same
<1>5. OfGroup(g)'
  <2>1. Shown(g)'
    BY <1>a, <1>b DEF OfGroup, Shown
  <2>2. Confirmed(g)'
    BY <1>a, <1>b DEF OfGroup, Confirmed, First
  <2>3. Judged(g)'
    BY <1>a, <1>b, <1>2 DEF OfGroup, Judged, First, ConfirmedIds, Over
  <2>4. Recorded(g)'
    BY <1>a, <1>b, <1>2 DEF OfGroup, Recorded, Over
  <2> QED BY <2>1, <2>2, <2>3, <2>4 DEF OfGroup
<1> QED BY <1>b, <1>3, <1>4, <1>5, OwnStep DEF RoundsInv

(* The filter is shown what is past the baseline, at the positions it has. *)
LEMMA ReadStep == ASSUME RoundsInv, NEW g \in G, ReadCandidates(g) PROVE RoundsInv'
<1>a. RoundTypes /\ OfGroup(g) /\ IsList(comments, landed)
  BY DEF RoundsInv
<1>b. /\ stage[g] = "drain" /\ pending[g] = 0 /\ candidates' = [candidates EXCEPT ![g] = Candidates(g)]
      /\ Goto(g, "filter")
      /\ UNCHANGED <<comments, landed, filed, pending, reviewRound, baseline, verdict, confirmed, checkpoint>>
  BY DEF ReadCandidates, KeyDrained, sharedVars
<1>1. /\ stage' \in [G -> Stages] /\ stage'[g] = "filter" /\ \A x \in G \ {g} : stage'[x] = stage[x]
      /\ returned' = returned /\ left' = left
  BY <1>a, <1>b, GotoFacts DEF Stages
<1>2. ASSUME NEW k \in Candidates(g)
      PROVE  /\ k \in [id : Nat, path : File, idx : Nat] /\ k.path \in Files(g) /\ k.idx >= baseline[k.path]
             /\ \E c \in comments : c.id = k.id /\ c.path = k.path /\ Rank(comments, c) = k.idx
  <2>1. PICK c \in comments : /\ c.path \in Files(g) /\ PathIdx(c) >= baseline[c.path]
                              /\ k = [id |-> c.id, path |-> c.path, idx |-> PathIdx(c)]
    BY DEF Candidates, FilterFrom
  <2>2. PathIdx(c) = Rank(comments, c)
    BY DEF PathIdx, Rank, CommentsForPath, OnPath
  <2>3. Rank(comments, c) \in Nat
    <3>1. c \in OnPath(comments, c.path)
      BY DEF OnPath
    <3> QED BY <1>a, <3>1, Ranks
  <2>4. c.id \in Nat /\ c.path \in File
    BY <1>a DEF IsList
  <2>5. k.id = c.id /\ k.path = c.path /\ k.idx = Rank(comments, c)
    BY <2>1, <2>2
  <2>6. k \in [id : Nat, path : File, idx : Nat]
    BY <2>1, <2>2, <2>3, <2>4
  <2> QED BY <2>1, <2>2, <2>5, <2>6
<1>3. /\ candidates' \in [G -> SUBSET [id : Nat, path : File, idx : Nat]] /\ candidates'[g] = Candidates(g)
      /\ \A x \in G \ {g} : candidates'[x] = candidates[x]
  <2>1. Candidates(g) \in SUBSET [id : Nat, path : File, idx : Nat]
    BY <1>2
  <2> QED BY <1>a, <1>b, <2>1 DEF RoundTypes
<1>4. RoundTypes'
  BY <1>a, <1>b, <1>1, <1>3 DEF RoundTypes
<1>5. \A x \in G \ {g} : Same(x)
  BY <1>b, <1>1, <1>3 DEF Same
<1>6. OfGroup(g)'
  <2>1. Shown(g)'
    BY <1>b, <1>1, <1>2, <1>3 DEF Shown
  <2>2. Confirmed(g)'
    BY <1>a, <1>b DEF OfGroup, Confirmed, First
  <2>3. Judged(g)'
    BY <1>a, <1>b, <1>1 DEF OfGroup, Judged, First, ConfirmedIds, Over
  <2>4. Recorded(g)'
    BY <1>a, <1>b, <1>1 DEF OfGroup, Recorded, Over
  <2> QED BY <2>1, <2>2, <2>3, <2>4 DEF OfGroup
<1> QED BY <1>b, <1>4, <1>5, <1>6, OwnStep DEF RoundsInv

(* The next file of a group gets its checkpoint. *)
LEMMA SettleStep == ASSUME RoundsInv, NEW g \in G, Settle(g) PROVE RoundsInv'
<1>a. RoundTypes /\ OfGroup(g) /\ IsList(comments, landed)
  BY DEF RoundsInv
<1> DEFINE f == Head(left[g])
<1>b. /\ stage[g] = "settling" /\ left[g] # <<>>
      /\ checkpoint' = [checkpoint EXCEPT ![f] = IF Covered(g, f) THEN CheckpointOf(g, f) ELSE NoCheckpoint]
      /\ left' = [left EXCEPT ![g] = Tail(@)]
      /\ stage' = [stage EXCEPT ![g] = IF Len(left[g]) = 1 THEN "done" ELSE @]
      /\ UNCHANGED <<comments, landed, filed, pending, reviewRound, baseline, candidates, verdict, confirmed, returned>>
  BY DEF Settle, sharedVars
<1>1. f \in Files(g) /\ f \in File /\ Tail(left[g]) \in Seq(File) /\ Range(Tail(left[g])) \subseteq Files(g)
  <2>1. left[g] \in Seq(File) /\ Range(left[g]) \subseteq Files(g)
    BY <1>a DEF RoundTypes
  <2>2. Len(left[g]) \in Nat \ {0} /\ f = left[g][1] /\ 1 \in DOMAIN left[g]
    BY <1>b, <2>1
  <2>3. f \in Range(left[g])
    BY <2>2 DEF Range
  <2>4. Tail(left[g]) \in Seq(File)
    BY <1>b, <2>1
  <2>5. ASSUME NEW i \in DOMAIN Tail(left[g]) PROVE Tail(left[g])[i] \in Range(left[g])
    <3>1. i + 1 \in DOMAIN left[g] /\ Tail(left[g])[i] = left[g][i + 1]
      BY <1>b, <2>1
    <3> QED BY <3>1 DEF Range
  <2>6. Range(Tail(left[g])) \subseteq Range(left[g])
    BY <2>5 DEF Range
  <2> QED BY <2>1, <2>3, <2>4, <2>6 DEF File
<1>2. /\ checkpoint' \in [File -> SUBSET Nat] /\ \A x \in File \ {f} : checkpoint'[x] = checkpoint[x]
      /\ checkpoint'[f] \in {NoCheckpoint, Ids(OnPath(comments, f))}
  <2>1. CheckpointOf(g, f) = Ids(OnPath(comments, f))
    BY DEF CheckpointOf, CommentsForPath, OnPath
  <2>2. Ids(OnPath(comments, f)) \in SUBSET Nat /\ NoCheckpoint \in SUBSET Nat
    BY <1>a DEF IsList, Ids, OnPath, NoCheckpoint
  <2> HIDE DEF f
  <2>3. PICK v \in {NoCheckpoint, Ids(OnPath(comments, f))} : checkpoint' = [checkpoint EXCEPT ![f] = v]
    BY <1>b, <2>1
  <2> QED BY <1>a, <1>1, <2>2, <2>3 DEF RoundTypes
<1> HIDE DEF f
<1>3. /\ stage' \in [G -> Stages] /\ stage'[g] \in {"settling", "done"} /\ \A x \in G \ {g} : stage'[x] = stage[x]
      /\ left' \in [G -> Seq(File)] /\ \A x \in G : Range(left'[x]) \subseteq Files(x)
  <2>1. stage' \in [G -> Stages] /\ stage'[g] \in {"settling", "done"} /\ \A x \in G \ {g} : stage'[x] = stage[x]
    BY <1>a, <1>b DEF RoundTypes, Stages
  <2>2. left' \in [G -> Seq(File)] /\ left'[g] = Tail(left[g]) /\ \A x \in G \ {g} : left'[x] = left[x]
    BY <1>a, <1>b, <1>1 DEF RoundTypes
  <2>3. \A x \in G : Range(left[x]) \subseteq Files(x)
    BY <1>a DEF RoundTypes
  <2> QED BY <1>1, <2>1, <2>2, <2>3
<1>4. RoundTypes'
  BY <1>a, <1>b, <1>2, <1>3 DEF RoundTypes
<1>5. \A x \in G \ {g} : Same(x)
  <2> SUFFICES ASSUME NEW x \in G \ {g} PROVE Same(x)
    OBVIOUS
  <2>1. \A h \in Files(x) : h \in File \ {f}
    BY <1>1, Apart
  <2> QED BY <1>b, <1>2, <1>3, <2>1 DEF Same
<1>6. OfGroup(g)'
  <2>1. Shown(g)'
    BY <1>a, <1>b, <1>3 DEF OfGroup, Shown
  <2>2. Confirmed(g)'
    BY <1>a, <1>b DEF OfGroup, Confirmed, First
  <2>3. Judged(g)'
    BY <1>a, <1>b, <1>3 DEF OfGroup, Judged, First, ConfirmedIds, Over
  <2>4. Recorded(g)'
    <3>1. ASSUME Over(g)', NEW h \in Files(g), checkpoint'[h] # NoCheckpoint
          PROVE  OwnOn(g, h)' \subseteq checkpoint'[h] /\ checkpoint'[h] \subseteq Ids(OnPath(comments, h))'
      <4>1. CASE h = f
        <5>1. checkpoint'[f] = Ids(OnPath(comments, f))
          BY <1>2, <3>1, <4>1
        <5> QED BY <1>b, <4>1, <5>1 DEF OwnOn, Ids, CommentsForPath, OnPath
      <4>2. CASE h # f
        <5>1. Over(g) /\ checkpoint'[h] = checkpoint[h]
          BY <1>b, <1>2, <3>1, <4>2 DEF Over, File
        <5> QED BY <1>a, <1>b, <3>1, <5>1 DEF OfGroup, Recorded, OwnOn, Ids, CommentsForPath, OnPath
      <4> QED BY <4>1, <4>2
    <3> QED BY <1>3, <3>1 DEF Recorded
  <2> QED BY <2>1, <2>2, <2>3, <2>4 DEF OfGroup
<1> QED BY <1>b, <1>4, <1>5, <1>6, OwnStep DEF RoundsInv

(* A group takes all comments on its files into its account. *)
LEMMA Advances ==
  ASSUME RoundsInv, NEW g \in G, baseline' = AdvancedBaseline(g), UNCHANGED <<comments, landed>>
  PROVE  /\ baseline' \in [File -> Nat]
         /\ \A f \in Files(g) : First(f)' = OnPath(comments, f)
         /\ \A x \in G \ {g} : Onward(x)
         /\ IsList(comments', landed') /\ AllCounted'
<1>a. RoundTypes /\ IsList(comments, landed) /\ AllCounted
  BY DEF RoundsInv
<1>1. \A f \in File : Cardinality(OnPath(comments, f)) \in Nat
  <2> SUFFICES ASSUME NEW f \in File PROVE Cardinality(OnPath(comments, f)) \in Nat
    OBVIOUS
  <2>1. OnPath(comments, f) \in SUBSET OnPath(comments, f)
    OBVIOUS
  <2> QED BY <1>a, <2>1, Ranks
<1>2. \A f \in File : baseline'[f] = IF f \in Files(g) THEN Cardinality(OnPath(comments, f)) ELSE baseline[f]
  BY DEF AdvancedBaseline, CommentsForPath, OnPath
<1>3. baseline' \in [File -> Nat]
  <2>1. \A f \in File : baseline'[f] \in Nat
    BY <1>a, <1>1, <1>2 DEF RoundTypes
  <2> QED BY <2>1 DEF AdvancedBaseline
<1>4. ASSUME NEW f \in Files(g) PROVE First(f)' = OnPath(comments, f)
  <2>1. baseline'[f] = Cardinality(OnPath(comments, f))
    BY <1>2 DEF File
  <2>2. Firsts(comments, baseline', f) = OnPath(comments, f)
    BY <1>a, <2>1, FirstsAll
  <2> QED BY <2>2 DEF First
<1>5. ASSUME NEW f \in File, f \notin Files(g) PROVE First(f)' = First(f) /\ baseline'[f] = baseline[f]
  BY <1>2, <1>5 DEF First, Firsts
<1>6. ASSUME NEW x \in G \ {g} PROVE Onward(x)
  BY <1>5, Apart DEF Onward
<1>7. AllCounted'
  <2> SUFFICES ASSUME NEW f \in File PROVE Cardinality(First(f)') = baseline'[f]
    BY DEF AllCounted
  <2>1. CASE f \in Files(g)
    BY <1>2, <1>4, <2>1
  <2>2. CASE f \notin Files(g)
    BY <1>5, <1>a, <2>2 DEF AllCounted
  <2> QED BY <2>1, <2>2
<1> QED BY <1>a, <1>3, <1>4, <1>6, <1>7

(* A group starts with what is already on its files in its account. *)
LEMMA StartStep == ASSUME RoundsInv, NEW g \in G, Start(g) PROVE RoundsInv'
<1>a. RoundTypes /\ OfGroup(g) /\ IsList(comments, landed)
  BY DEF RoundsInv
<1>b. /\ stage[g] = "start" /\ baseline' = AdvancedBaseline(g) /\ Goto(g, "head")
      /\ UNCHANGED <<comments, landed, filed, pending, reviewRound, candidates, verdict, confirmed, checkpoint>>
  BY DEF Start, sharedVars
<1>1. /\ stage' \in [G -> Stages] /\ stage'[g] = "head" /\ \A x \in G \ {g} : stage'[x] = stage[x]
      /\ returned' = returned /\ left' = left
  BY <1>a, <1>b, GotoFacts DEF Stages
<1>2. /\ baseline' \in [File -> Nat]
      /\ \A f \in Files(g) : First(f)' = OnPath(comments, f)
      /\ \A x \in G \ {g} : Onward(x)
      /\ IsList(comments', landed') /\ AllCounted'
  BY <1>b, Advances
<1>3. RoundTypes'
  BY <1>a, <1>b, <1>1, <1>2 DEF RoundTypes
<1>4. ASSUME NEW x \in G \ {g} PROVE OfGroup(x)'
  <2>1. Same(x)
    BY <1>b, <1>1 DEF Same
  <2> QED BY <1>2, <2>1, OthersKept DEF RoundsInv
<1>5. OfGroup(g)'
  <2>1. \A f \in Files(g) : First(f) \subseteq OnPath(comments, f)
    BY DEF First, Firsts
  <2>2. Shown(g)'
    BY <1>a, <1>b, <1>1 DEF OfGroup, Shown
  <2>3. Confirmed(g)'
    BY <1>a, <1>b, <1>2, <2>1 DEF OfGroup, Confirmed, Ids
  <2>4. Judged(g)'
    <3>1. pending'[g] = 0 /\ \A c \in comments' : c.by # g
      BY <1>a, <1>b DEF OfGroup, Judged
    <3>2. \A f \in Files(g) : \A c \in OnPath(comments', f) : c.by # g /\ c \in First(f)'
      BY <1>b, <1>2, <3>1 DEF OnPath
    <3>3. \A f \in Files(g) : \A c \in First(f)' : c.by # g
      BY <1>b, <1>2, <3>2
    <3>4. stage'[g] = "head"
      BY <1>1
    <3> QED BY <3>1, <3>2, <3>3, <3>4 DEF Judged
  <2>5. Recorded(g)'
    BY <1>a, <1>b, <1>1 DEF OfGroup, Recorded, Over
  <2> QED BY <2>2, <2>3, <2>4, <2>5 DEF OfGroup
<1>6. \A x \in G : OfGroup(x)'
  BY <1>4, <1>5
<1> QED BY <1>2, <1>3, <1>6 DEF RoundsInv

(* The round's delta: what it added is confirmed, and the account is moved past it. *)
LEMMA ConfirmStep == ASSUME RoundsInv, NEW g \in G, Confirm(g) PROVE RoundsInv'
<1>a. RoundTypes /\ OfGroup(g) /\ IsList(comments, landed)
  BY DEF RoundsInv
<1> DEFINE new == {reviewRound[g]} \X NewlyConfirmed(g)
<1>b. /\ stage[g] = "delta" /\ baseline' = AdvancedBaseline(g)
      /\ confirmed' = [confirmed EXCEPT ![g] = @ \cup new]
      /\ UNCHANGED <<comments, landed, filed, pending, candidates, verdict, checkpoint>>
  BY DEF Confirm, sharedVars
<1>c. \/ \E r \in {"completed", "stop", "error"} : Leave(g, r) /\ reviewRound' = reviewRound
      \/ Goto(g, "head") /\ reviewRound' = [reviewRound EXCEPT ![g] = @ + 1]
  BY DEF Confirm, Breaks
<1>1. /\ stage' \in [G -> Stages] /\ stage'[g] \in {"settling", "head"} /\ \A x \in G \ {g} : stage'[x] = stage[x]
      /\ returned' \in [G -> {"none", "completed", "stop", "error"}] /\ \A x \in G \ {g} : returned'[x] = returned[x]
      /\ left' \in [G -> Seq(File)] /\ \A x \in G : Range(left'[x]) \subseteq Files(x)
      /\ stage'[g] = "head" => returned'[g] = returned[g]
      /\ reviewRound' \in [G -> Nat]
  <2>1. CASE \E r \in {"completed", "stop", "error"} : Leave(g, r) /\ reviewRound' = reviewRound
    <3>1. reviewRound \in [G -> Nat]
      BY <1>a DEF RoundTypes
    <3> QED BY <1>a, <2>1, <3>1, LeaveFacts
  <2>2. CASE Goto(g, "head") /\ reviewRound' = [reviewRound EXCEPT ![g] = @ + 1]
    <3>1. /\ stage' \in [G -> Stages] /\ stage'[g] = "head" /\ \A x \in G \ {g} : stage'[x] = stage[x]
          /\ returned' = returned /\ left' = left
      BY <1>a, <2>2, GotoFacts DEF Stages
    <3>2. reviewRound' \in [G -> Nat]
      BY <1>a, <2>2 DEF RoundTypes
    <3> QED BY <1>a, <3>1, <3>2 DEF RoundTypes
  <2> QED BY <1>c, <2>1, <2>2
<1>2. /\ baseline' \in [File -> Nat]
      /\ \A f \in Files(g) : First(f)' = OnPath(comments, f)
      /\ \A x \in G \ {g} : Onward(x)
      /\ IsList(comments', landed') /\ AllCounted'
  BY <1>b, Advances
<1>3. /\ \A f \in Files(g) : First(f) \subseteq OnPath(comments, f) /\ f \in File
      /\ \A c \in comments : c.path \in Files(g) /\ c \notin First(c.path) <=> c.id \in NewlyConfirmed(g)
      /\ NewlyConfirmed(g) \in SUBSET Nat
  <2>1. \A f \in Files(g) : First(f) \subseteq OnPath(comments, f) /\ f \in File
    BY DEF First, Firsts, File
  <2>2. ASSUME NEW c \in comments, c.path \in Files(g)
        PROVE  PathIdx(c) >= baseline[c.path] <=> c \notin First(c.path)
    <3>1. PathIdx(c) = Rank(comments, c)
      BY DEF PathIdx, Rank, CommentsForPath, OnPath
    <3>2. c \in OnPath(comments, c.path)
      BY DEF OnPath
    <3>3. Rank(comments, c) \in Nat
      BY <1>a, <3>2, Ranks
    <3>4. baseline[c.path] \in Nat
      BY <1>a, <2>1, <2>2 DEF RoundTypes
    <3> QED BY <3>1, <3>2, <3>3, <3>4 DEF First, Firsts
  <2>3. NewlyConfirmed(g) = {c.id : c \in {d \in comments : d.path \in Files(g) /\ d \notin First(d.path)}}
    BY <2>2 DEF NewlyConfirmed, Ids
  <2>4. \A c \in comments : c.id \in Nat /\ \A d \in comments : c.id = d.id => c = d
    BY <1>a DEF IsList
  <2> QED BY <2>1, <2>3, <2>4
<1>4. /\ confirmed' \in [G -> SUBSET (Nat \X Nat)] /\ confirmed'[g] = confirmed[g] \cup new
      /\ \A x \in G \ {g} : confirmed'[x] = confirmed[x]
  <2>1. new \in SUBSET (Nat \X Nat)
    BY <1>a, <1>3 DEF RoundTypes
  <2> HIDE DEF new
  <2> QED BY <1>a, <1>b, <2>1 DEF RoundTypes
<1>5. RoundTypes'
  BY <1>a, <1>b, <1>1, <1>2, <1>4 DEF RoundTypes
<1>6. ASSUME NEW x \in G \ {g} PROVE OfGroup(x)'
  <2>1. Same(x)
    BY <1>b, <1>1, <1>4 DEF Same
  <2> QED BY <1>2, <2>1, OthersKept DEF RoundsInv
<1>7. OfGroup(g)'
  <2>1. Shown(g)'
    BY <1>a, <1>b, <1>1 DEF OfGroup, Shown
  <2>2. Confirmed(g)'
    <3>1. ASSUME NEW p \in new PROVE \E f \in Files(g) : p[2] \in Ids(OnPath(comments, f)) /\ p[2] \notin Ids(First(f))
      <4>1. p[2] \in NewlyConfirmed(g)
        OBVIOUS
      <4>2. PICK c \in comments : c.path \in Files(g) /\ c.id = p[2]
        BY <4>1 DEF NewlyConfirmed, Ids
      <4>3. c \notin First(c.path) /\ c \in OnPath(comments, c.path)
        BY <1>3, <4>1, <4>2 DEF OnPath
      <4>4. \A d \in First(c.path) : d \in comments
        BY <1>3, <4>2 DEF OnPath
      <4>5. c.id \notin Ids(First(c.path))
        BY <1>a, <4>3, <4>4 DEF IsList, Ids
      <4> QED BY <4>2, <4>3, <4>5 DEF Ids
    <3>2. ASSUME NEW p \in new, NEW q \in confirmed[g], p[2] = q[2] PROVE FALSE
      <4>1. p[2] \in NewlyConfirmed(g)
        OBVIOUS
      <4>2. PICK f \in Files(g) : q[2] \in Ids(First(f))
        BY <1>a DEF OfGroup, Confirmed
      <4>3. PICK c \in First(f) : c.id = q[2]
        BY <4>2 DEF Ids
      <4>4. c \in comments /\ c.path = f
        BY <1>3, <4>3 DEF OnPath
      <4> QED BY <1>3, <3>2, <4>1, <4>3, <4>4
    <3>3. \A p, q \in new : p[2] = q[2] => p = q
      OBVIOUS
    <3> HIDE DEF new
    <3>4. \A p \in confirmed'[g] : \E f \in Files(g) : p[2] \in Ids(First(f))'
      <4>1. ASSUME NEW p \in confirmed[g] PROVE \E f \in Files(g) : p[2] \in Ids(OnPath(comments, f))
        BY <1>a, <1>3 DEF OfGroup, Confirmed, Ids
      <4>2. \A f \in Files(g) : Ids(First(f))' = Ids(OnPath(comments, f))
        BY <1>2 DEF Ids
      <4> QED BY <1>4, <3>1, <4>1, <4>2
    <3>5. \A p, q \in confirmed[g] : p[2] = q[2] => p = q
      BY <1>a DEF OfGroup, Confirmed
    <3>6. \A p, q \in confirmed'[g] : p[2] = q[2] => p = q
      BY <1>4, <3>2, <3>3, <3>5
    <3> QED BY <3>4, <3>6 DEF Confirmed
  <2>3. Judged(g)'
    <3>1. pending'[g] = 0
      BY <1>a, <1>b DEF OfGroup, Judged
    <3>2. ASSUME NEW f \in Files(g), NEW c \in First(f)', c.by = g PROVE c.id \in ConfirmedIds(g)'
      <4>1. c \in OnPath(comments, f) /\ c \in comments /\ c.path = f
        BY <1>2 DEF OnPath
      <4>2. CASE c \in First(f)
        <5>1. c.id \in ConfirmedIds(g)
          BY <1>a, <3>2, <4>2 DEF OfGroup, Judged
        <5> HIDE DEF new
        <5> QED BY <1>4, <5>1 DEF ConfirmedIds
      <4>3. CASE c \notin First(f)
        <5>1. c.id \in NewlyConfirmed(g)
          BY <1>3, <4>1, <4>3
        <5>2. <<reviewRound[g], c.id>> \in confirmed'[g]
          BY <1>4, <5>1
        <5> QED BY <5>2 DEF ConfirmedIds
      <4> QED BY <4>2, <4>3
    <3>3. \A f \in Files(g) : \A c \in OnPath(comments', f) : c \in First(f)'
      BY <1>b, <1>2
    <3>4. stage'[g] \in {"settling", "head"}
      BY <1>1
    <3> QED BY <3>1, <3>2, <3>3, <3>4 DEF Judged
  <2>4. Recorded(g)'
    <3>1. returned[g] = "none" /\ verdict[g] # "failed" /\ \A f \in Files(g) : checkpoint[f] = NoCheckpoint
      BY <1>a, <1>b DEF OfGroup, Recorded
    <3> QED BY <1>b, <1>1, <3>1 DEF Recorded
  <2> QED BY <2>1, <2>2, <2>3, <2>4 DEF OfGroup
<1>8. \A x \in G : OfGroup(x)'
  BY <1>6, <1>7
<1> QED BY <1>2, <1>5, <1>8 DEF RoundsInv

(* The filter removes only comments it was shown, all past the baseline of their file. *)
LEMMA FilterFacts ==
  ASSUME RoundsInv, NEW g \in G, ApplyFilter(g)
  PROVE  /\ comments' \in SUBSET comments
         /\ \A c \in comments \ comments' :
              c.path \in Files(g) /\ Rank(comments, c) >= baseline[c.path] /\ c.id \in Ids(candidates[g])
<1>1. PICK rejected \in SUBSET candidates[g] :
        comments' = RemoveByPathAndIndices({[path |-> c.path, idx |-> c.idx] : c \in rejected})
  BY DEF ApplyFilter
<1>2. ASSUME NEW c \in comments \ comments'
      PROVE  c.path \in Files(g) /\ Rank(comments, c) >= baseline[c.path] /\ c.id \in Ids(candidates[g])
  <2>1. PathIdx(c) = Rank(comments, c)
    BY DEF PathIdx, Rank, CommentsForPath, OnPath
  <2>2. [path |-> c.path, idx |-> PathIdx(c)] \in {[path |-> k.path, idx |-> k.idx] : k \in rejected}
    BY <1>1 DEF RemoveByPathAndIndices
  <2>3. PICK k \in rejected : [path |-> c.path, idx |-> PathIdx(c)] = [path |-> k.path, idx |-> k.idx]
    BY <2>2
  <2>4. k \in candidates[g] /\ k.path = c.path /\ k.idx = Rank(comments, c)
    <3>1. [path |-> c.path, idx |-> PathIdx(c)].path = [path |-> k.path, idx |-> k.idx].path
      BY <2>3
    <3>2. [path |-> c.path, idx |-> PathIdx(c)].idx = [path |-> k.path, idx |-> k.idx].idx
      BY <2>3
    <3> QED BY <2>1, <3>1, <3>2
  <2>5. k.path \in Files(g) /\ k.idx >= baseline[k.path]
    BY <2>4 DEF RoundsInv, OfGroup, Shown
  <2>6. PICK d \in comments : d.id = k.id /\ d.path = k.path /\ Rank(comments, d) = k.idx
    BY <2>4 DEF RoundsInv, OfGroup, Shown
  <2>7. c = d
    BY <2>4, <2>6, RankTells DEF RoundsInv
  <2> QED BY <2>4, <2>5, <2>6, <2>7 DEF Ids
<1> QED BY <1>1, <1>2 DEF RemoveByPathAndIndices

(* A list of which comments past a baseline are dropped keeps those before it. *)
LEMMA FilterStep == ASSUME RoundsInv, NEW g \in G, ApplyFilter(g) PROVE RoundsInv'
<1>a. RoundTypes /\ OfGroup(g) /\ IsList(comments, landed) /\ AllCounted
  BY DEF RoundsInv
<1>b. /\ stage[g] = "filter" /\ candidates' = [candidates EXCEPT ![g] = {}] /\ Goto(g, "delta")
      /\ UNCHANGED <<landed, filed, pending, reviewRound, baseline, verdict, confirmed, checkpoint>>
  BY DEF ApplyFilter
<1>1. /\ stage' \in [G -> Stages] /\ stage'[g] = "delta" /\ \A x \in G \ {g} : stage'[x] = stage[x]
      /\ returned' = returned /\ left' = left
  BY <1>a, <1>b, GotoFacts DEF Stages
<1>2. /\ comments' \in SUBSET comments
      /\ \A c \in comments \ comments' : c.path \in Files(g) /\ Rank(comments, c) >= baseline[c.path]
  BY FilterFacts
<1>3. IsList(comments', landed')
  BY <1>a, <1>b, <1>2, Dropped
<1>4. \A f \in File : First(f)' = First(f)
  <2> SUFFICES ASSUME NEW f \in File PROVE First(f)' = First(f)
    OBVIOUS
  <2>1. First(f) \subseteq comments'
    <3> SUFFICES ASSUME NEW c \in First(f), c \notin comments' PROVE FALSE
      OBVIOUS
    <3>1. c \in comments /\ c.path = f /\ Rank(comments, c) < baseline[f] /\ c \in OnPath(comments, f)
      BY DEF First, Firsts, OnPath
    <3>2. Rank(comments, c) >= baseline[f]
      BY <1>2, <3>1
    <3>3. Rank(comments, c) \in Nat /\ baseline[f] \in Nat
      BY <1>a, <3>1, Ranks DEF RoundTypes
    <3> QED BY ONLY <3>1, <3>2, <3>3
  <2>2. baseline \in [File -> Nat] /\ Cardinality(Firsts(comments, baseline, f)) = baseline[f]
    BY <1>a DEF AllCounted, First, RoundTypes
  <2>3. \A d \in OnPath(comments', f) : d \in comments
    BY <1>2 DEF OnPath
  <2>4. IsList(comments', landed)
    BY <1>b, <1>3
  <2>5. Firsts(comments', baseline, f) = Firsts(comments, baseline, f)
    BY <1>a, <2>1, <2>2, <2>3, <2>4, FirstsKept DEF First
  <2> QED BY <1>b, <2>5 DEF First
<1>5. AllCounted'
  BY <1>a, <1>b, <1>4 DEF AllCounted
<1>6. /\ candidates' \in [G -> SUBSET [id : Nat, path : File, idx : Nat]] /\ candidates'[g] = {}
      /\ \A x \in G \ {g} : candidates'[x] = candidates[x]
  BY <1>a, <1>b DEF RoundTypes
<1>7. RoundTypes'
  BY <1>a, <1>b, <1>1, <1>6 DEF RoundTypes
<1>8. ASSUME NEW x \in G \ {g} PROVE OfGroup(x)'
  <2>1. Same(x)
    BY <1>b, <1>1, <1>6 DEF Same
  <2>2. \A f \in Files(x) : f \in File /\ f \notin Files(g)
    BY Apart
  <2>3. \A f \in Files(x) : OnPath(comments', f) = OnPath(comments, f)
    BY <1>2, <2>2 DEF OnPath
  <2>4. \A c \in comments : c.path \in Files(x) => c \in comments' /\ Rank(comments', c) = Rank(comments, c)
    BY <1>2, <2>2, <2>3 DEF Rank
  <2>5. Onward(x)
    BY <1>2, <1>4, <1>b, <2>2, <2>4 DEF Onward
  <2> QED BY <2>1, <2>5, OthersKept DEF RoundsInv
<1>9. OfGroup(g)'
  <2>1. \A f \in Files(g) : f \in File /\ First(f)' = First(f) /\ Ids(First(f))' = Ids(First(f))
    BY <1>4 DEF File, Ids
  <2>2. Shown(g)'
    BY <1>1, <1>6 DEF Shown
  <2>3. Confirmed(g)'
    BY <1>a, <1>b, <2>1 DEF OfGroup, Confirmed
  <2>4. Judged(g)'
    <3>1. pending'[g] = 0 /\ stage'[g] = "delta"
      BY <1>a, <1>b, <1>1 DEF OfGroup, Judged
    <3>2. \A f \in Files(g) : \A c \in First(f)' : c.by = g => c.id \in ConfirmedIds(g)'
      BY <1>a, <1>b, <2>1 DEF OfGroup, Judged, ConfirmedIds
    <3> QED BY <3>1, <3>2 DEF Judged, Over
  <2>5. Recorded(g)'
    BY <1>a, <1>b, <1>1 DEF OfGroup, Recorded, Over
  <2> QED BY <2>2, <2>3, <2>4, <2>5 DEF OfGroup
<1>10. \A x \in G : OfGroup(x)'
  BY <1>8, <1>9
<1> QED BY <1>3, <1>5, <1>7, <1>10 DEF RoundsInv

(* A task of the pool runs: its comment comes behind all others, on files whose *)
(* groups do not own it, and while its own group is in a round.                 *)
LEMMA LandStep == ASSUME RoundsInv, NEW g \in G, Land(g) PROVE RoundsInv'
<1>a. RoundTypes /\ OfGroup(g) /\ IsList(comments, landed) /\ AllCounted
  BY DEF RoundsInv
<1>b. /\ pending[g] > 0 /\ pending' = [pending EXCEPT ![g] = @ - 1]
      /\ UNCHANGED <<filed, stage, reviewRound, baseline, candidates, verdict, confirmed, returned, left, checkpoint>>
  BY DEF Land, roundVars
<1>c. \/ \E x \in [id : {landed + 1}, by : {g}, path : File] : comments' = comments \cup {x} /\ landed' = landed + 1
      \/ UNCHANGED <<comments, landed>>
  <2>1. ASSUME NEW f \in IF Refile THEN File ELSE Files(g)
        PROVE  [id |-> landed + 1, by |-> g, path |-> f] \in [id : {landed + 1}, by : {g}, path : File]
    BY DEF File
  <2> QED BY <2>1 DEF Land
<1>1. /\ pending' \in [G -> Nat] /\ \A x \in G \ {g} : pending'[x] = pending[x]
  BY <1>a, <1>b DEF RoundTypes
<1>2. stage[g] \notin {"start", "filter", "delta", "head"} /\ ~Over(g)
  BY <1>a, <1>b DEF OfGroup, Judged
<1>3. /\ IsList(comments', landed') /\ comments \subseteq comments'
      /\ \A c \in comments : Rank(comments', c) = Rank(comments, c)
      /\ \A c \in comments' : c \in comments \/ (c.by = g /\ c.id > landed)
  <2>1. CASE UNCHANGED <<comments, landed>>
    BY <1>a, <2>1
  <2>2. ASSUME NEW x \in [id : {landed + 1}, by : {g}, path : File],
               comments' = comments \cup {x}, landed' = landed + 1
        PROVE  /\ IsList(comments', landed') /\ comments \subseteq comments'
               /\ \A c \in comments : Rank(comments', c) = Rank(comments, c)
               /\ \A c \in comments' : c \in comments \/ (c.by = g /\ c.id > landed)
    <3>1. x \in [id : {landed + 1}, by : G, path : File] /\ x.by = g /\ x.id = landed + 1 /\ landed \in Nat
      BY <1>a DEF IsList
    <3>2. IsList(comments \cup {x}, landed + 1) /\ \A c \in comments : Rank(comments \cup {x}, c) = Rank(comments, c)
      BY <1>a, <3>1, Added
    <3> QED BY <2>2, <3>1, <3>2
  <2> QED BY <1>c, <2>1, <2>2
<1>4. \A f \in File : First(f)' = First(f)
  <2> SUFFICES ASSUME NEW f \in File PROVE First(f)' = First(f)
    OBVIOUS
  <2>1. baseline \in [File -> Nat] /\ Cardinality(Firsts(comments, baseline, f)) = baseline[f]
    BY <1>a DEF AllCounted, First, RoundTypes
  <2>2. \A d \in OnPath(comments', f) : d \in comments \/ d.id > landed
    BY <1>3 DEF OnPath
  <2>3. Firsts(comments, baseline, f) \subseteq comments'
    BY <1>3 DEF Firsts, OnPath
  <2>4. Firsts(comments', baseline, f) = Firsts(comments, baseline, f)
    BY <1>a, <1>3, <2>1, <2>2, <2>3, FirstsKept
  <2> QED BY <1>b, <2>4 DEF First
<1>5. AllCounted'
  BY <1>a, <1>b, <1>4 DEF AllCounted
<1>6. RoundTypes'
  BY <1>a, <1>b, <1>1 DEF RoundTypes
<1>7. ASSUME NEW x \in G \ {g} PROVE OfGroup(x)'
  <2>1. Same(x)
    BY <1>b, <1>1 DEF Same
  <2>2. \A f \in Files(x) : f \in File
    BY DEF File
  <2>3. Onward(x)
    BY <1>b, <1>3, <1>4, <2>2 DEF Onward
  <2> QED BY <2>1, <2>3, OthersKept DEF RoundsInv
<1>8. OfGroup(g)'
  <2>1. \A f \in Files(g) : f \in File /\ First(f)' = First(f) /\ Ids(First(f))' = Ids(First(f))
    BY <1>4 DEF File, Ids
  <2>2. Shown(g)'
    BY <1>a, <1>b, <1>2 DEF OfGroup, Shown
  <2>3. Confirmed(g)'
    BY <1>a, <1>b, <2>1 DEF OfGroup, Confirmed
  <2>4. Judged(g)'
    <3>1. stage'[g] \notin {"start", "filter", "delta", "head"} /\ ~Over(g)'
      BY <1>b, <1>2 DEF Over
    <3>2. \A f \in Files(g) : \A c \in First(f)' : c.by = g => c.id \in ConfirmedIds(g)'
      BY <1>a, <1>b, <2>1 DEF OfGroup, Judged, ConfirmedIds
    <3> QED BY <3>1, <3>2 DEF Judged
  <2>5. Recorded(g)'
    BY <1>a, <1>b, <1>2 DEF OfGroup, Recorded, Over
  <2> QED BY <2>2, <2>3, <2>4, <2>5 DEF OfGroup
<1>9. \A x \in G : OfGroup(x)'
  BY <1>7, <1>8
<1> QED BY <1>3, <1>5, <1>6, <1>9 DEF RoundsInv

(* It holds when the run starts, with nothing filed. *)
LEMMA RoundsStart == ASSUME RoundsInit PROVE RoundsInv
<1>1. RoundTypes
  <2>1. /\ pending \in [G -> Nat] /\ stage \in [G -> Stages] /\ reviewRound \in [G -> Nat]
        /\ baseline \in [File -> Nat] /\ verdict \in [G -> {"none", "done", "stopped", "failed"}]
        /\ returned \in [G -> {"none", "completed", "stop", "error"}]
    BY DEF RoundsInit, Stages
  <2>2. /\ candidates \in [G -> SUBSET [id : Nat, path : File, idx : Nat]]
        /\ confirmed \in [G -> SUBSET (Nat \X Nat)] /\ checkpoint \in [File -> SUBSET Nat]
    BY DEF RoundsInit, NoCheckpoint
  <2>3. left \in [G -> Seq(File)] /\ \A g \in G : Range(left[g]) \subseteq Files(g)
    BY DEF RoundsInit, Range
  <2> QED BY <2>1, <2>2, <2>3 DEF RoundTypes
<1>2. comments = {} /\ landed = 0 /\ baseline = [f \in File |-> 0]
  BY DEF RoundsInit
<1>3. IsList(comments, landed)
  BY <1>2, FS_EmptySet DEF IsList
<1>4. \A f \in File : First(f) = {}
  BY <1>2 DEF First, Firsts, OnPath
<1>5. AllCounted
  BY <1>2, <1>4, FS_EmptySet DEF AllCounted
<1>6. ASSUME NEW g \in G PROVE OfGroup(g)
  <2>1. \A f \in Files(g) : f \in File
    BY DEF File
  <2>2. Shown(g)
    BY DEF RoundsInit, Shown
  <2>3. Confirmed(g)
    BY DEF RoundsInit, Confirmed
  <2>4. Judged(g)
    BY <1>2, <1>4, <2>1 DEF RoundsInit, Judged, Over
  <2>5. Recorded(g)
    BY <2>1 DEF RoundsInit, Recorded, Over
  <2> QED BY <2>2, <2>3, <2>4, <2>5 DEF OfGroup
<1> QED BY <1>1, <1>3, <1>5, <1>6 DEF RoundsInv

(* A step that changes nothing. *)
LEMMA RoundsStay == ASSUME RoundsInv, UNCHANGED roundsVars PROVE RoundsInv'
<1>a. UNCHANGED <<comments, landed, filed, pending, stage, reviewRound, baseline, candidates, verdict, confirmed,
                  returned, left, checkpoint>>
  BY DEF roundsVars, sharedVars, roundVars
<1>1. RoundTypes'
  BY <1>a DEF RoundsInv, RoundTypes
<1>2. IsList(comments', landed') /\ AllCounted'
  BY <1>a DEF RoundsInv, AllCounted, First
<1>3. ASSUME NEW x \in G PROVE OfGroup(x)'
  <2>1. Same(x)
    BY <1>a DEF Same
  <2> QED BY <1>a, <2>1, ListAlone, OthersKept DEF RoundsInv
<1> QED BY <1>1, <1>2, <1>3 DEF RoundsInv

(* Each action of executeGroupSubtask and of the worker pool keeps the account of    *)
(* the collector: positions read by a filter still name its candidates, and what a   *)
(* group has counted on its files is what it confirmed and what others left there.   *)
LEMMA RoundsStep == ASSUME RoundsInv, [RoundsNext]_roundsVars PROVE RoundsInv'
<1>1. ASSUME NEW g \in G, GroupStep(g) PROVE RoundsInv'
  BY <1>1, StartStep, HeadStep, FileStep, EndStep, ReadStep, FilterStep, ConfirmStep, SettleStep, LandStep
  DEF GroupStep
<1>2. CASE UNCHANGED roundsVars
  BY <1>2, RoundsStay
<1> QED BY <1>1, <1>2 DEF RoundsNext, Stay

(* The account of the collector holds throughout the run. *)
THEOREM RoundsInvariant == RoundsSpec => []RoundsInv
BY RoundsStart, RoundsStep, PTL DEF RoundsSpec

(* What executeGroupSubtask confirmed in a round stays in the collector, and no *)
(* later round confirms it again.                                               *)
THEOREM ConfirmedIsKept == RoundsSpec => []ConfirmedStands
<1>1. ASSUME RoundsInv PROVE ConfirmedStands
  <2> SUFFICES ASSUME NEW g \in G
               PROVE  /\ ConfirmedIds(g) \subseteq Collected
                      /\ \A p, q \in confirmed[g] : p[2] = q[2] => p = q
    BY DEF ConfirmedStands
  <2>1. Confirmed(g)
    BY <1>1 DEF RoundsInv, OfGroup
  <2>2. \A f \in Files(g) : Ids(First(f)) \subseteq Collected
    BY DEF Ids, First, Firsts, OnPath, Collected
  <2> QED BY <2>1, <2>2 DEF Confirmed, ConfirmedIds
<1> QED BY <1>1, RoundsInvariant, PTL

(* The positions removeByPathAndIndices is given were read before the filter was *)
(* asked; the comments it drops are the candidates all the same.                 *)
THEOREM FilterRemovesJudged == RoundsSpec => RemovesOnlyJudged
<1>1. ASSUME RoundsInv, [RoundsNext]_roundsVars
      PROVE  [\E g \in G : Collected \ Collected' \subseteq Ids(candidates[g])]_roundsVars
  <2>1. ASSUME NEW g \in G, GroupStep(g) PROVE \E h \in G : Collected \ Collected' \subseteq Ids(candidates[h])
    <3>1. CASE ApplyFilter(g)
      <4>1. \A c \in comments \ comments' : c.id \in Ids(candidates[g])
        BY <1>1, <3>1, FilterFacts
      <4>2. Collected \ Collected' \subseteq Ids(candidates[g])
        BY <4>1 DEF Collected, Ids
      <4> QED BY <4>2
    <3>2. CASE ~ApplyFilter(g)
      <4>1. comments \subseteq comments'
        BY <2>1, <3>2 DEF GroupStep, Start, RoundHead, FileComment, EndConversation, ReadCandidates, Confirm, Settle, Land,
                          sharedVars
      <4>2. Collected \ Collected' = {}
        BY <4>1 DEF Collected, Ids
      <4> QED BY <4>2
    <3> QED BY <3>1, <3>2
  <2> QED BY <1>1, <2>1 DEF RoundsNext, Stay
<1> QED BY <1>1, RoundsInvariant, PTL DEF RoundsSpec, RemovesOnlyJudged

(* Once a group has settled without failing, each of its findings on its files was  *)
(* confirmed by a round, and the checkpoint a resume reads holds it and no comment  *)
(* the run does not report.                                                         *)
THEOREM NothingUnjudged == RoundsSpec => []FindingsSettled
<1>1. ASSUME RoundsInv PROVE FindingsSettled
  <2>1. \A f \in File : CommentsForPath(f) = OnPath(comments, f) /\ Ids(OnPath(comments, f)) \subseteq Collected
    BY DEF CommentsForPath, OnPath, Ids, Collected
  <2>2. ASSUME NEW g \in G PROVE OfGroup(g) /\ returned[g] \in {"none", "completed", "stop", "error"}
                                 /\ \A f \in Files(g) : f \in File
    BY <1>1 DEF RoundsInv, RoundTypes, File
  <2>3. NothingEscapes
    <3> SUFFICES ASSUME NEW g \in G, returned[g] \in {"completed", "stop"}, verdict[g] # "failed",
                        NEW f \in Files(g), NEW c \in CommentsForPath(f), c.by = g
                 PROVE  c.id \in ConfirmedIds(g)
      BY DEF NothingEscapes, OwnOn, Ids
    <3>1. Over(g)
      BY <2>2 DEF OfGroup, Recorded, Over
    <3>2. c \in First(f)
      BY <2>1, <2>2, <3>1 DEF OfGroup, Judged
    <3> QED BY <2>2, <3>2 DEF OfGroup, Judged
  <2>4. CheckpointComplete
    <3> SUFFICES ASSUME Finished, NEW g \in G, returned[g] # "error", verdict[g] # "failed",
                        NEW f \in Files(g), checkpoint[f] # NoCheckpoint
                 PROVE  OwnOn(g, f) \subseteq checkpoint[f] /\ checkpoint[f] \subseteq Collected
      BY DEF CheckpointComplete
    <3>1. Over(g)
      BY DEF Finished, Over
    <3>2. OwnOn(g, f) \subseteq checkpoint[f] /\ checkpoint[f] \subseteq Ids(OnPath(comments, f))
      BY <2>2, <3>1 DEF OfGroup, Recorded
    <3> QED BY <2>1, <2>2, <3>2
  <2> QED BY <2>3, <2>4 DEF FindingsSettled
<1> QED BY <1>1, RoundsInvariant, PTL
=============================================================================
