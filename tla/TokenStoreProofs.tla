--------------------------- MODULE TokenStoreProofs ---------------------------
(***************************************************************************)
(* For any number of calls, of registrations and of grants, no update of   *)
(* accounts.json is lost and every account stays usable: calls that hold   *)
(* the lock see what is in the file, a sign-in, which does not hold it     *)
(* while the browser is open, knows an account that it saw by its revision,*)
(* and no grant of the issuer is in two accounts.                          *)
(***************************************************************************)
EXTENDS TokenStore, FiniteSetTheorems, TLAPS

Locked == {"ask", "post", "apply", "verify", "final", "revoke", "wipe"}

(* An account, of which only the revision matters here: 0 is an absent one.   *)
Revised(a) == a.rev \in Nat /\ "rev" \in DOMAIN a /\ (a = Absent <=> a.rev = 0)
IsDatabase(d) == "acct" \in DOMAIN d /\ DOMAIN d.acct = Clients /\ \A k \in Clients : Revised(d.acct[k])

(* Revisions only grow, and tell one state of an account from every later one. *)
Follows(now, before) == now = before \/ now.rev > before.rev

StoreTypes ==
  /\ IsDatabase(disk) /\ lock \in Calls \cup {Nobody}
  /\ pc \in [Calls -> Locked \cup {"idle", "again", "browser"}]
  /\ client \in [Calls -> Clients \cup {Nobody}]
  /\ DOMAIN view = Calls /\ DOMAIN answer = Calls /\ DOMAIN again = Calls

(* A call in the critical section holds the lock and saw what is in the file. *)
Holds ==
  \A c \in Calls : pc[c] \in Locked =>
    lock = c /\ view[c] = disk /\ client[c] \in Clients /\ disk.acct[client[c]] # Absent

(* A sign-in saw each account as it is, or as it was at an earlier revision.  *)
Saw ==
  \A c \in Calls : pc[c] = "browser" =>
    \A k \in Clients : Revised(view[c].acct[k]) /\ Follows(disk.acct[k], view[c].acct[k])

SInv == StoreTypes /\ Holds /\ Saw

(* An empty store, or one account signed in earlier, and no call.             *)
LEMMA Starts == Init => SInv
<1> SUFFICES ASSUME Init PROVE SInv
  OBVIOUS
<1>1. IsDatabase(disk)
  BY DEF Init, EmptyDatabase, Absent, IsDatabase, Revised
<1> QED BY <1>1 DEF Init, SInv, StoreTypes, Holds, Saw, Locked

(* A step of one call, whatever it does, keeps what is known of the others as  *)
(* long as it changes the file under the lock and revises what it changes.    *)
LEMMA OneStep ==
  ASSUME SInv, NEW c \in Calls, StoreTypes',
         \A b \in Calls \ {c} : pc'[b] = pc[b] /\ view'[b] = view[b] /\ client'[b] = client[b],
         \A k \in Clients : Follows(disk'.acct[k], disk.acct[k]),
         disk' = disk \/ lock \in {c, Nobody},
         lock' = lock \/ (lock \in {c, Nobody} /\ lock' \in {c, Nobody}),
         pc'[c] \in Locked =>
           lock' = c /\ view'[c] = disk' /\ client'[c] \in Clients /\ disk'.acct[client'[c]] # Absent,
         pc'[c] = "browser" =>
           \A k \in Clients : Revised(view'[c].acct[k]) /\ Follows(disk'.acct[k], view'[c].acct[k])
  PROVE  SInv'
<1>1. Holds'
  BY TokenAssumption DEF SInv, Holds
<1>2. Saw'
  <2> SUFFICES ASSUME NEW b \in Calls, pc'[b] = "browser", NEW k \in Clients
               PROVE  Revised(view'[b].acct[k]) /\ Follows(disk'.acct[k], view'[b].acct[k])
    BY DEF Saw
  <2>1. CASE b = c
    BY <2>1
  <2>2. CASE b # c
    <3>1. Revised(view'[b].acct[k]) /\ Follows(disk.acct[k], view'[b].acct[k])
      BY <2>2 DEF SInv, Saw
    <3>2. disk'.acct[k].rev \in Nat /\ disk.acct[k].rev \in Nat /\ view'[b].acct[k].rev \in Nat
      BY <3>1 DEF SInv, StoreTypes, IsDatabase, Revised
    <3> QED BY <3>1, <3>2 DEF Follows
  <2> QED BY <2>1, <2>2
<1> QED BY <1>1, <1>2 DEF SInv

(* A call that ends holds nothing, whatever it saved before.                  *)
LEMMA CallEnds ==
  ASSUME SInv, NEW c \in Calls, Return(c), IsDatabase(disk'),
         \A k \in Clients : Follows(disk'.acct[k], disk.acct[k]),
         disk' = disk \/ lock \in {c, Nobody}
  PROVE  SInv'
<1>1. /\ pc' = [pc EXCEPT ![c] = "idle"] /\ client' = [client EXCEPT ![c] = Nobody]
      /\ view' = [view EXCEPT ![c] = EmptyDatabase] /\ DOMAIN answer' = DOMAIN answer /\ DOMAIN again' = DOMAIN again
      /\ lock' = IF lock = c THEN Nobody ELSE lock
  BY DEF Return, Idle
<1>2. StoreTypes'
  BY <1>1 DEF SInv, StoreTypes
<1>3. /\ \A b \in Calls \ {c} : pc'[b] = pc[b] /\ view'[b] = view[b] /\ client'[b] = client[b]
      /\ pc'[c] = "idle" /\ (lock' = lock \/ (lock \in {c, Nobody} /\ lock' \in {c, Nobody}))
  BY <1>1 DEF SInv, StoreTypes
<1> QED BY <1>2, <1>3, OneStep DEF Locked

(* What a call that holds the lock saves revises one account.                 *)
LEMMA Saves ==
  ASSUME SInv, NEW c \in Calls, pc[c] \in Locked, NEW a, Revised(a), a.rev = Mine(c).rev + 1, disk' = With(c, a)
  PROVE  /\ IsDatabase(disk') /\ (\A k \in Clients : Follows(disk'.acct[k], disk.acct[k]))
         /\ lock = c /\ client[c] \in Clients /\ disk'.acct[client[c]] = a /\ a # Absent
<1>1. lock = c /\ view[c] = disk /\ client[c] \in Clients /\ IsDatabase(disk)
  BY DEF SInv, StoreTypes, Holds
<1>2. disk' = [disk EXCEPT !.acct[client[c]] = a]
  BY <1>1 DEF With
<1>3. \A k \in Clients : disk'.acct[k] = IF k = client[c] THEN a ELSE disk.acct[k]
  BY <1>1, <1>2 DEF IsDatabase
<1>4. "acct" \in DOMAIN disk' /\ DOMAIN disk'.acct = Clients
  BY <1>1, <1>2 DEF IsDatabase
<1>5. Mine(c) = disk.acct[client[c]] /\ Mine(c).rev \in Nat
  BY <1>1 DEF Mine, IsDatabase, Revised
<1> QED BY <1>1, <1>3, <1>4, <1>5 DEF IsDatabase, Revised, Follows

(* Clearing the tokens is a revision too.                                     *)
LEMMA ClearedRevises ==
  ASSUME NEW a, Revised(a)
  PROVE  Revised(Cleared(a)) /\ Cleared(a).rev = a.rev + 1
BY DEF Revised, Cleared, Absent

(* An account written back under the next revision.                           *)
LEMMA Revising ==
  ASSUME NEW a, NEW r, Revised(a), "rev" \in DOMAIN r, r.rev = a.rev + 1
  PROVE  Revised(r)
BY DEF Revised, Absent

(* What a call replaces in the file, it had seen there.                       *)
Seen == \A k \in Clients : disk'.acct[k] # disk.acct[k] =>
          \E c \in Calls : pc[c] # pc'[c] /\ view[c].acct[k] = disk.acct[k]

(* A call ends and leaves the file alone.                                     *)
LEMMA Quits ==
  ASSUME SInv, NEW c \in Calls, Return(c), disk' = disk
  PROVE  SInv' /\ Seen
<1>1. IsDatabase(disk') /\ \A k \in Clients : Follows(disk'.acct[k], disk.acct[k])
  BY DEF SInv, StoreTypes, Follows
<1> QED BY <1>1, CallEnds DEF Seen

(* A call that holds the lock saves its account and ends.                     *)
LEMMA QuitsSaved ==
  ASSUME SInv, NEW c \in Calls, pc[c] \in Locked, Return(c),
         NEW a, Revised(a), a.rev = Mine(c).rev + 1, disk' = With(c, a)
  PROVE  SInv' /\ Seen
<1>1. /\ IsDatabase(disk') /\ (\A k \in Clients : Follows(disk'.acct[k], disk.acct[k]))
      /\ lock = c
  BY Saves
<1>2. pc'[c] # pc[c] /\ view[c] = disk
  BY DEF Return, Idle, SInv, StoreTypes, Holds, Locked
<1> QED BY <1>1, <1>2, CallEnds DEF Seen

(* A call goes on within the critical section.                                *)
LEMMA Moves ==
  ASSUME SInv, NEW c \in Calls, pc[c] \in Locked, NEW to \in Locked, pc' = [pc EXCEPT ![c] = to],
         UNCHANGED <<saved, client, view>>, DOMAIN answer' = DOMAIN answer, DOMAIN again' = DOMAIN again
  PROVE  SInv' /\ Seen
<1>1. StoreTypes'
  BY DEF SInv, StoreTypes, IsDatabase, saved
<1>2. \A k \in Clients : Follows(disk'.acct[k], disk.acct[k])
  BY DEF saved, Follows
<1>3. pc'[c] = to /\ to # "browser" /\ \A b \in Calls \ {c} : pc'[b] = pc[b] /\ view'[b] = view[b] /\ client'[b] = client[b]
  BY DEF SInv, StoreTypes, Locked
<1>4. lock' = c /\ lock = c /\ view'[c] = disk' /\ client'[c] \in Clients /\ disk'.acct[client'[c]] # Absent
  BY DEF SInv, Holds, saved
<1> QED BY <1>1, <1>2, <1>3, <1>4, OneStep DEF Seen, saved

(* What a call that holds the lock works on.                                  *)
LEMMA Working ==
  ASSUME SInv, NEW c \in Calls, pc[c] \in Locked
  PROVE  lock = c /\ view[c] = disk /\ client[c] \in Clients /\ Revised(Mine(c)) /\ Mine(c) # Absent
BY DEF SInv, Holds, StoreTypes, IsDatabase, Mine

(* A free lock: no call is in the critical section.                           *)
LEMMA NobodyInside ==
  ASSUME SInv, lock = Nobody
  PROVE  \A c \in Calls : pc[c] \notin Locked
BY TokenAssumption DEF SInv, Holds

(* Loading takes the lock and shows what is in the file.                      *)
LEMMA Loads ==
  ASSUME SInv, NEW c \in Calls, NEW k \in Clients, NEW to \in Locked, Load(c, k, to), UNCHANGED <<disk, answer, again>>
  PROVE  SInv' /\ Seen
<1>1. /\ lock = Nobody /\ disk.acct[k] # Absent /\ lock' = c /\ pc' = [pc EXCEPT ![c] = to]
      /\ client' = [client EXCEPT ![c] = k] /\ view' = [view EXCEPT ![c] = disk] /\ disk' = disk
  BY DEF Load, Free, Known
<1>2. StoreTypes'
  BY <1>1 DEF SInv, StoreTypes, IsDatabase
<1>3. /\ \A b \in Calls \ {c} : pc'[b] = pc[b] /\ view'[b] = view[b] /\ client'[b] = client[b]
      /\ pc'[c] = to /\ view'[c] = disk /\ client'[c] = k /\ to # "browser"
  BY <1>1 DEF SInv, StoreTypes, Locked
<1>4. \A j \in Clients : Follows(disk'.acct[j], disk.acct[j])
  BY <1>1 DEF Follows
<1> QED BY <1>1, <1>2, <1>3, <1>4, OneStep DEF Seen

(* A refresh, from its load to the save of its replacement.                   *)
LEMMA CredentialsKeep ==
  ASSUME SInv, NEW c \in Calls, Credentials(c)
  PROVE  SInv' /\ Seen
<1>1. CASE CredentialsRefused(c)
  BY <1>1, Quits DEF CredentialsRefused
<1>2. CASE \E k \in Clients : CredentialsLoad(c, k)
  <2>1. PICK k \in Clients : Load(c, k, "ask") /\ UNCHANGED <<disk, answer, again>>
    BY <1>2 DEF CredentialsLoad
  <2>2. "ask" \in Locked
    BY DEF Locked
  <2> QED BY <2>1, <2>2, Loads
<1>3. CASE CredentialsServe(c)
  BY <1>3, Quits DEF CredentialsServe
<1>4. CASE CredentialsRefresh(c)
  <2> DEFINE to == IF Mine(c).pend # 0 THEN "verify" ELSE "post"
  <2>1. pc[c] \in Locked /\ to \in Locked /\ pc' = [pc EXCEPT ![c] = to] /\ UNCHANGED <<saved, client, view>>
    BY <1>4 DEF CredentialsRefresh, Locked
  <2>2. DOMAIN answer' = DOMAIN answer /\ DOMAIN again' = DOMAIN again
    BY <1>4 DEF CredentialsRefresh
  <2> QED BY <2>1, <2>2, Moves
<1>5. CASE IssuerAnswers(c)
  <2>1. pc[c] \in Locked /\ disk' = disk
    BY <1>5 DEF IssuerAnswers, Locked
  <2>2. \/ Return(c)
        \/ /\ pc' = [pc EXCEPT ![c] = "apply"] /\ UNCHANGED <<lock, client, view, again>>
           /\ DOMAIN answer' = DOMAIN answer
    BY <1>5 DEF IssuerAnswers
  <2>3. CASE Return(c)
    BY <2>1, <2>3, Quits
  <2>4. CASE /\ pc' = [pc EXCEPT ![c] = "apply"] /\ UNCHANGED <<lock, client, view, again>>
             /\ DOMAIN answer' = DOMAIN answer
    <3>1. "apply" \in Locked /\ UNCHANGED <<saved, client, view>> /\ DOMAIN again' = DOMAIN again
      BY <2>1, <2>4 DEF Locked, saved
    <3> QED BY <2>1, <2>4, <3>1, Moves
  <2> QED BY <2>2, <2>3, <2>4
<1>6. CASE RequestFails(c)
  BY <1>6, Quits DEF RequestFails
<1>7. CASE TerminalRefusal(c)
  <2>1. pc[c] \in Locked /\ Return(c)
    BY <1>7 DEF TerminalRefusal, Locked
  <2>2. CASE disk' = With(c, Cleared(Mine(c)))
    <3>1. Revised(Cleared(Mine(c))) /\ Cleared(Mine(c)).rev = Mine(c).rev + 1
      BY <2>1, Working, ClearedRevises
    <3> QED BY <2>1, <2>2, <3>1, QuitsSaved
  <2>3. CASE disk' = disk
    BY <2>1, <2>3, Quits
  <2> QED BY <1>7, <2>2, <2>3 DEF TerminalRefusal, Save
<1>8. CASE CredentialsApply(c)
  <2> DEFINE a == [Mine(c) EXCEPT !.pend = answer[c], !.rev = Mine(c).rev + 1]
  <2>1. pc[c] \in Locked
    BY <1>8 DEF CredentialsApply, Locked
  <2>2. Revised(a) /\ a.rev = Mine(c).rev + 1
    <3>1. Revised(Mine(c)) /\ "rev" \in DOMAIN Mine(c)
      BY <2>1, Working DEF Revised
    <3>2. "rev" \in DOMAIN a /\ a.rev = Mine(c).rev + 1
      BY <3>1
    <3> QED BY <3>1, <3>2, Revising
  <2>3. \/ Abandon(c) /\ disk' = disk
        \/ /\ pc' = [pc EXCEPT ![c] = "final"] /\ UNCHANGED <<saved, client, view, answer, again>>
        \/ /\ disk' = With(c, a) /\ view' = [view EXCEPT ![c] = With(c, a)]
           /\ pc' = [pc EXCEPT ![c] = "verify"] /\ UNCHANGED <<lock, client, answer, again>>
    BY <1>8 DEF CredentialsApply, Save
  <2>4. CASE Abandon(c) /\ disk' = disk
    BY <2>4, Quits DEF Abandon
  <2>5. CASE pc' = [pc EXCEPT ![c] = "final"] /\ UNCHANGED <<saved, client, view, answer, again>>
    <3>1. "final" \in Locked /\ DOMAIN answer' = DOMAIN answer /\ DOMAIN again' = DOMAIN again
      BY <2>5 DEF Locked
    <3> QED BY <2>1, <2>5, <3>1, Moves
  <2>6. CASE /\ disk' = With(c, a) /\ view' = [view EXCEPT ![c] = With(c, a)]
             /\ pc' = [pc EXCEPT ![c] = "verify"] /\ UNCHANGED <<lock, client, answer, again>>
    <3> HIDE DEF a
    <3>1. /\ IsDatabase(disk') /\ (\A k \in Clients : Follows(disk'.acct[k], disk.acct[k]))
          /\ lock = c /\ client[c] \in Clients /\ disk'.acct[client[c]] # Absent
      BY <2>1, <2>2, <2>6, Saves
    <3>2. StoreTypes'
      BY <2>6, <3>1 DEF SInv, StoreTypes, Locked
    <3>3. /\ \A b \in Calls \ {c} : pc'[b] = pc[b] /\ view'[b] = view[b] /\ client'[b] = client[b]
          /\ pc'[c] = "verify" /\ view'[c] = disk' /\ client'[c] = client[c] /\ lock' = c
      BY <2>6, <3>1 DEF SInv, StoreTypes
    <3>4. SInv'
      BY <3>1, <3>2, <3>3, OneStep
    <3>5. pc[c] # pc'[c] /\ view[c] = disk
      BY <1>8, <2>1, <3>3, Working DEF CredentialsApply
    <3> QED BY <3>4, <3>5 DEF Seen
  <2> QED BY <2>3, <2>4, <2>5, <2>6
<1>9. CASE CredentialsVerify(c)
  <2> DEFINE a == [Mine(c) EXCEPT !.rejected = TRUE, !.rev = @ + 1]
  <2>1. pc[c] \in Locked
    BY <1>9 DEF CredentialsVerify, Locked
  <2>2. Revised(a) /\ a.rev = Mine(c).rev + 1
    <3>1. Revised(Mine(c)) /\ "rev" \in DOMAIN Mine(c)
      BY <2>1, Working DEF Revised
    <3>2. "rev" \in DOMAIN a /\ a.rev = Mine(c).rev + 1
      BY <3>1
    <3> QED BY <3>1, <3>2, Revising
  <2>3. \/ Return(c) /\ disk' = disk
        \/ /\ pc' = [pc EXCEPT ![c] = "final"] /\ UNCHANGED <<saved, client, view, answer, again>>
        \/ Return(c) /\ disk' = With(c, a)
    BY <1>9 DEF CredentialsVerify, Save
  <2>4. CASE Return(c) /\ disk' = disk
    BY <2>4, Quits
  <2>5. CASE pc' = [pc EXCEPT ![c] = "final"] /\ UNCHANGED <<saved, client, view, answer, again>>
    <3>1. "final" \in Locked /\ DOMAIN answer' = DOMAIN answer /\ DOMAIN again' = DOMAIN again
      BY <2>5 DEF Locked
    <3> QED BY <2>1, <2>5, <3>1, Moves
  <2>6. CASE Return(c) /\ disk' = With(c, a)
    <3> HIDE DEF a
    <3> QED BY <2>1, <2>2, <2>6, QuitsSaved
  <2> QED BY <2>3, <2>4, <2>5, <2>6
<1>10. CASE CredentialsFinal(c)
  <2> DEFINE a == [Mine(c) EXCEPT !.tok = answer[c], !.plan = told[answer[c]].plan, !.pend = 0, !.rev = @ + 1]
  <2>1. pc[c] = "final" /\ pc[c] \in Locked
    BY <1>10 DEF CredentialsFinal, Locked
  <2>2. Revised(a) /\ a.rev = Mine(c).rev + 1
    <3>1. Revised(Mine(c)) /\ "rev" \in DOMAIN Mine(c)
      BY <2>1, Working DEF Revised
    <3>2. "rev" \in DOMAIN a /\ a.rev = Mine(c).rev + 1
      BY <3>1
    <3> QED BY <3>1, <3>2, Revising
  <2>3. \/ Abandon(c) /\ disk' = disk
        \/ Return(c) /\ disk' = With(c, a)
        \/ /\ disk' = With(c, a) /\ pc' = [pc EXCEPT ![c] = "again"] /\ again' = [again EXCEPT ![c] = TRUE]
           /\ lock' = Nobody /\ answer' = [answer EXCEPT ![c] = 0] /\ UNCHANGED <<client, view>>
    BY <1>10 DEF CredentialsFinal, Save
  <2>4. CASE Abandon(c) /\ disk' = disk
    BY <2>4, Quits DEF Abandon
  <2>5. CASE Return(c) /\ disk' = With(c, a)
    <3> HIDE DEF a
    <3> QED BY <2>1, <2>2, <2>5, QuitsSaved
  <2>6. CASE /\ disk' = With(c, a) /\ pc' = [pc EXCEPT ![c] = "again"] /\ again' = [again EXCEPT ![c] = TRUE]
             /\ lock' = Nobody /\ answer' = [answer EXCEPT ![c] = 0] /\ UNCHANGED <<client, view>>
    <3> HIDE DEF a
    <3>1. /\ IsDatabase(disk') /\ (\A k \in Clients : Follows(disk'.acct[k], disk.acct[k]))
          /\ lock = c
      BY <2>1, <2>2, <2>6, Saves
    <3>2. StoreTypes'
      BY <2>6, <3>1 DEF SInv, StoreTypes
    <3>3. /\ \A b \in Calls \ {c} : pc'[b] = pc[b] /\ view'[b] = view[b] /\ client'[b] = client[b]
          /\ pc'[c] = "again" /\ lock' = Nobody
      BY <2>6 DEF SInv, StoreTypes
    <3>4. SInv'
      BY <3>1, <3>2, <3>3, OneStep DEF Locked
    <3>5. pc[c] # pc'[c] /\ view[c] = disk
      BY <2>1, <3>3, Working
    <3> QED BY <3>4, <3>5 DEF Seen
  <2> QED BY <2>3, <2>4, <2>5, <2>6
<1> QED BY <1>1, <1>2, <1>3, <1>4, <1>5, <1>6, <1>7, <1>8, <1>9, <1>10 DEF Credentials

(* A logout, from its load to the save of the cleared account.                *)
LEMMA LogoutKeeps ==
  ASSUME SInv, NEW c \in Calls, Revoke(c) \/ Wipe(c) \/ Crash(c) \/ LoginFails(c)
  PROVE  SInv' /\ Seen
<1>1. CASE Revoke(c)
  <2>1. /\ pc[c] \in Locked /\ "wipe" \in Locked /\ pc' = [pc EXCEPT ![c] = "wipe"]
        /\ UNCHANGED <<saved, client, view>> /\ DOMAIN answer' = DOMAIN answer /\ DOMAIN again' = DOMAIN again
    BY <1>1 DEF Revoke, Locked
  <2> QED BY <2>1, Moves
<1>2. CASE Wipe(c)
  <2>1. pc[c] \in Locked
    BY <1>2 DEF Wipe, Locked
  <2>2. Revised(Cleared(Mine(c))) /\ Cleared(Mine(c)).rev = Mine(c).rev + 1
    BY <2>1, Working, ClearedRevises
  <2>3. Return(c) /\ (disk' = disk \/ disk' = With(c, Cleared(Mine(c))))
    BY <1>2 DEF Wipe, Save, Abandon
  <2> QED BY <2>1, <2>2, <2>3, Quits, QuitsSaved
<1>3. CASE Crash(c) \/ LoginFails(c)
  BY <1>3, Quits DEF Crash, Abandon, LoginFails
<1> QED BY <1>1, <1>2, <1>3

(* Selecting an account leaves every account as it is, and a free lock means   *)
(* that no call relies on what the file says as a whole.                      *)
LEMMA SelectKeeps ==
  ASSUME SInv, NEW c \in Calls, NEW k \in Clients, Select(c, k)
  PROVE  SInv' /\ Seen
<1>1. disk' = [disk EXCEPT !.active = k] /\ lock = Nobody /\ UNCHANGED <<lock, local>>
  BY DEF Select, Save, Free
<1>2. "acct" \in DOMAIN disk' /\ disk'.acct = disk.acct
  BY <1>1 DEF SInv, StoreTypes, IsDatabase
<1>3. StoreTypes'
  BY <1>1, <1>2 DEF SInv, StoreTypes, IsDatabase, local
<1>4. pc' = pc /\ \A b \in Calls : pc[b] \notin Locked
  BY <1>1, NobodyInside DEF local
<1>5. SInv'
  BY <1>1, <1>2, <1>3, <1>4 DEF SInv, Holds, Saw, local
<1> QED BY <1>2, <1>5 DEF Seen

(* A sign-in begins with what the file says.                                  *)
LEMMA LoginBegins ==
  ASSUME SInv, NEW c \in Calls, NEW k \in Clients \cup {Nobody}, LoginBegin(c, k)
  PROVE  SInv' /\ Seen
<1>1. /\ pc' = [pc EXCEPT ![c] = "browser"] /\ client' = [client EXCEPT ![c] = k]
      /\ view' = [view EXCEPT ![c] = disk] /\ UNCHANGED <<disk, lock, answer, again>>
  BY DEF LoginBegin, saved
<1>2. StoreTypes'
  BY <1>1 DEF SInv, StoreTypes, IsDatabase
<1>3. /\ \A b \in Calls \ {c} : pc'[b] = pc[b] /\ view'[b] = view[b] /\ client'[b] = client[b]
      /\ pc'[c] = "browser" /\ view'[c] = disk /\ pc'[c] \notin Locked
  BY <1>1 DEF SInv, StoreTypes, Locked
<1>4. \A j \in Clients : Revised(disk.acct[j]) /\ Follows(disk'.acct[j], disk.acct[j])
  BY <1>1 DEF SInv, StoreTypes, IsDatabase, Follows
<1> QED BY <1>1, <1>2, <1>3, <1>4, OneStep DEF Seen

(* A sign-in replaces the registration it saw, or one nobody made meanwhile:   *)
(* a revision it saw, and an absent account, tell that nothing happened.       *)
LEMMA LoginCommits ==
  ASSUME SInv, NEW c \in Calls, NEW k \in Clients, LoginCommit(c, k)
  PROVE  SInv' /\ Seen
<1>1. pc[c] = "browser" /\ lock = Nobody /\ client[c] \in {Nobody, k} /\ Return(c)
  BY DEF LoginCommit, Free
<1>2. CASE disk' = disk
  BY <1>1, <1>2, Quits
<1>3. CASE disk' # disk
  <2>1. PICK g : /\ IF client[c] = Nobody THEN ~Known(disk, k) ELSE Unchanged(disk.acct[k], Mine(c))
                 /\ disk' = SignedIn(disk, k, g)
    BY <1>3 DEF LoginCommit, Save
  <2>2. /\ Revised(disk.acct[k]) /\ Revised(view[c].acct[k]) /\ Follows(disk.acct[k], view[c].acct[k])
        /\ DOMAIN disk.acct = Clients
    BY <1>1 DEF SInv, StoreTypes, IsDatabase, Saw
  <2>3. disk.acct[k] = view[c].acct[k]
    <3>1. CASE client[c] = Nobody
      BY <2>1, <2>2, <3>1 DEF Known, Follows, Revised
    <3>2. CASE client[c] # Nobody
      BY <1>1, <2>1, <2>2, <3>2 DEF Unchanged, Mine, Follows, Revised
    <3> QED BY <3>1, <3>2
  <2> DEFINE a == [rev |-> disk.acct[k].rev + 1, tok |-> g, plan |-> told'[g].plan, pend |-> 0, rejected |-> FALSE]
  <2>4. "rev" \in DOMAIN a /\ a.rev = disk.acct[k].rev + 1
    OBVIOUS
  <2>5. disk' = [active |-> k, acct |-> [disk.acct EXCEPT ![k] = a]]
    BY <2>1 DEF SignedIn
  <2>6. Revised(a)
    BY <2>2, <2>4, Revising
  <2> HIDE DEF a
  <2>7. \A j \in Clients : disk'.acct[j] = IF j = k THEN a ELSE disk.acct[j]
    BY <2>2, <2>5
  <2>8. IsDatabase(disk') /\ \A j \in Clients : Follows(disk'.acct[j], disk.acct[j])
    <3>1. "acct" \in DOMAIN disk' /\ DOMAIN disk'.acct = Clients
      BY <2>2, <2>5
    <3>2. \A j \in Clients : Revised(disk.acct[j])
      BY DEF SInv, StoreTypes, IsDatabase
    <3> QED BY <2>2, <2>4, <2>6, <2>7, <3>1, <3>2 DEF IsDatabase, Follows, Revised
  <2>9. SInv'
    BY <1>1, <2>8, CallEnds
  <2>10. pc[c] # pc'[c]
    BY <1>1 DEF Return, Idle, SInv, StoreTypes
  <2> QED BY <2>3, <2>7, <2>9, <2>10 DEF Seen
<1> QED BY <1>2, <1>3

(* Every step keeps the invariant, and replaces only what its call had seen.  *)
LEMMA StepKeeps == SInv /\ [Next]_vars => SInv' /\ (Seen \/ UNCHANGED vars)
<1> SUFFICES ASSUME SInv, [Next]_vars PROVE SInv' /\ (Seen \/ UNCHANGED vars)
  OBVIOUS
<1>1. CASE \E c \in Calls : Credentials(c) \/ Revoke(c) \/ Wipe(c) \/ LoginFails(c) \/ Crash(c)
  BY <1>1, CredentialsKeep, LogoutKeeps
<1>2. CASE \E c \in Calls, k \in Clients : LogoutLoad(c, k) \/ ClearLoad(c, k) \/ Select(c, k) \/ LoginCommit(c, k)
  <2>1. PICK c \in Calls, k \in Clients : LogoutLoad(c, k) \/ ClearLoad(c, k) \/ Select(c, k) \/ LoginCommit(c, k)
    BY <1>2
  <2>2. CASE LogoutLoad(c, k) \/ ClearLoad(c, k)
    <3>1. \E to \in Locked : Load(c, k, to) /\ UNCHANGED <<disk, answer, again>>
      BY <2>2 DEF LogoutLoad, ClearLoad, Locked
    <3> QED BY <3>1, Loads
  <2> QED BY <2>1, <2>2, SelectKeeps, LoginCommits
<1>3. CASE \E c \in Calls, k \in Clients \cup {Nobody} : LoginBegin(c, k)
  BY <1>3, LoginBegins
<1>4. CASE \E g \in Grants : Age(g)
  BY <1>4 DEF Age, saved, local, SInv, StoreTypes, Holds, Saw, IsDatabase, Seen
<1>5. CASE UNCHANGED vars
  BY <1>5 DEF vars, saved, local, SInv, StoreTypes, Holds, Saw, IsDatabase
<1> QED BY <1>1, <1>2, <1>3, <1>4, <1>5 DEF Next

(* Calls that hold the lock work on the file as it is, and a sign-in can tell  *)
(* by the revision whether an account changed.                               *)
THEOREM StoreInvariant == Spec => []SInv
<1>1. Init => SInv
  BY Starts
<1>2. SInv /\ [Next]_vars => SInv'
  BY StepKeeps
<1> QED BY <1>1, <1>2, PTL DEF Spec

(* No update of accounts.json is lost: whatever a call replaces is what it had *)
(* seen there, for any number of calls and registrations.                     *)
THEOREM NoUpdateLost == Spec => NoLostUpdate
<1> DEFINE Replaced == \A k \in Clients : disk'.acct[k] # disk.acct[k] =>
                         \E c \in Calls : pc[c] # pc'[c] /\ view[c].acct[k] = disk.acct[k]
<1>1. SInv /\ [Next]_vars => [Replaced]_vars
  BY StepKeeps DEF Seen
<1>2. Spec => []SInv
  BY StoreInvariant
<1>3. Spec => [][Replaced]_vars
  BY <1>1, <1>2, PTL DEF Spec
<1> QED BY <1>3 DEF NoLostUpdate

------------------------------------------------------------------------------
(* The issuer numbers its grants. *)
Granted == (\E n \in Nat : Issued = 1 .. n) /\ \A g \in Issued : told[g].plan \in BOOLEAN

Accounts == [rev : Nat \ {0}, tok : Issued \cup {0}, plan : BOOLEAN, pend : Issued \cup {0}, rejected : BOOLEAN]

(* An account is absent, or its token names no one else and it is blocked only *)
(* by an answer that does.                                                      *)
Sound(a) ==
  \/ a = Absent
  \/ /\ a \in Accounts
     /\ a.tok # 0 => told[a.tok].id # "other"
     /\ a.rejected => a.pend # 0 /\ told[a.pend].id = "other"

(* The grants an account holds. *)
Tokens(a) == IF a = Absent THEN {} ELSE {a.tok, a.pend} \ {0}

(* No two accounts hold one grant. *)
Apart == \A j, k \in Clients : j # k => Tokens(disk.acct[j]) \cap Tokens(disk.acct[k]) = {}

(* A grant that no account holds yet and the issuer takes. *)
Unsaved(g) == g \in Issued /\ g \in live /\ \A k \in Clients : g \notin Tokens(disk.acct[k])

(* A session is kept, or its call has a grant that is in no account yet, or is *)
(* about to clear it.                                                          *)
Kept(k) ==
  LET a == disk.acct[k] IN
  a # Absent /\ a.tok # 0 =>
    \/ RefreshToken(a) \in live
    \/ k \in spent
    \/ lock # Nobody /\ client[lock] = k /\ ((answer[lock] # 0 /\ a.pend = 0) \/ pc[lock] = "wipe")

(* What a call has in hand at each place. *)
Stage(c) ==
  LET a == disk.acct[client[c]] IN
  /\ pc[c] \notin {"apply", "verify", "final"} => answer[c] = 0
  /\ pc[c] \in {"ask", "post", "apply", "verify", "final"} => ~ a.rejected /\ a.tok # 0
  /\ pc[c] \in {"post", "apply"} => a.pend = 0
  /\ pc[c] = "apply" => Unsaved(answer[c])
  /\ pc[c] = "verify" => answer[c] # 0 /\ answer[c] = a.pend
  /\ pc[c] = "final" => /\ answer[c] \in Issued /\ told[answer[c]].id # "other"
                        /\ a.pend = answer[c] \/ (a.pend = 0 /\ Unsaved(answer[c]))

UInv ==
  /\ Granted /\ Apart
  /\ \A k \in Clients : Sound(disk.acct[k]) /\ Kept(k)
  /\ \A c \in Calls : Stage(c)
  /\ lock # Nobody => pc[lock] \in Locked
  /\ \A g \in shown : g \in Issued /\ told[g].id # "other"

(* A new grant is the next one, and nothing that was told changes. *)
LEMMA NewGrant ==
  ASSUME Granted, NEW g, NEW says, says.plan \in BOOLEAN, Grant(g, says)
  PROVE  /\ Granted' /\ g \notin Issued /\ g # 0 /\ told'[g] = says /\ Issued' = Issued \cup {g}
         /\ \A h \in Issued : told'[h] = told[h]
<1>1. PICK n \in Nat : Issued = 1 .. n
  BY DEF Granted
<1>2. g = n + 1
  <2>1. 1 \in Int /\ n \in Int /\ Cardinality(1 .. n) = IF 1 > n THEN 0 ELSE n - 1 + 1
    BY FS_Interval
  <2>2. Cardinality(1 .. n) = n
    BY <2>1
  <2> QED BY <1>1, <2>2 DEF Grant
<1>3. Issued' = 1 .. g /\ \A h \in 1 .. g : told'[h] = IF h = g THEN says ELSE told[h]
  BY DEF Grant, Issued
<1>4. 1 .. g = (1 .. n) \cup {g} /\ g \notin 1 .. n /\ g \in Nat /\ g # 0 /\ g \in 1 .. g
  BY <1>2
<1>5. \A h \in Issued' : told'[h].plan \in BOOLEAN
  BY <1>1, <1>3, <1>4 DEF Granted
<1> QED BY <1>1, <1>3, <1>4, <1>5 DEF Granted

(* The grants of an account are some the issuer made, and its next refresh token *)
(* is one of them.                                                               *)
LEMMA Held ==
  ASSUME NEW a, Sound(a), a # Absent
  PROVE  /\ a \in Accounts /\ Tokens(a) = {a.tok, a.pend} \ {0} /\ Tokens(a) \subseteq Issued
         /\ a.tok # 0 => RefreshToken(a) # 0 /\ RefreshToken(a) \in Tokens(a)
<1>1. a \in Accounts
  BY DEF Sound
<1>2. Tokens(a) = {a.tok, a.pend} \ {0}
  BY DEF Tokens
<1>3. a.tok \in Issued \cup {0} /\ a.pend \in Issued \cup {0}
  BY <1>1 DEF Accounts
<1>4. RefreshToken(a) = IF a.pend # 0 THEN a.pend ELSE a.tok
  BY DEF RefreshToken
<1> QED BY <1>1, <1>2, <1>3, <1>4

(* A step of a call that has the lock, takes it or finds it free touches one      *)
(* account; it keeps the others when it uses up no grant but of that account.     *)
LEMMA Touches ==
  ASSUME SInv, UInv, NEW c \in Calls, NEW k \in Clients,
         lock \in {c, Nobody}, lock = c => client[c] = k,
         lock' \in {c, Nobody}, lock' = c => pc'[c] \in Locked,
         \A b \in Calls \ {c} : pc'[b] = pc[b] /\ answer'[b] = answer[b],
         Granted', Issued \subseteq Issued', \A g \in Issued : told'[g] = told[g],
         \A j \in Clients \ {k} : /\ disk'.acct[j] = disk.acct[j]
                                  /\ Tokens(disk'.acct[k]) \cap Tokens(disk.acct[j]) = {},
         live \ (Tokens(disk.acct[k]) \cup {0}) \subseteq live',
         spent \ {k} \subseteq spent',
         Sound(disk.acct[k])', Kept(k)', Stage(c)',
         \A g \in shown' : g \in Issued' /\ told'[g].id # "other"
  PROVE  UInv'
<1>1. ASSUME NEW j \in Clients \ {k} PROVE Sound(disk.acct[j])' /\ Kept(j)'
  <2>1. disk'.acct[j] = disk.acct[j] /\ Sound(disk.acct[j]) /\ Kept(j) /\ Sound(disk.acct[k])
    BY DEF UInv
  <2>2. CASE disk.acct[j] = Absent
    BY <2>1, <2>2 DEF Sound, Kept
  <2>3. CASE disk.acct[j] # Absent
    <3> DEFINE a == disk.acct[j]
    <3>1. /\ a \in Accounts /\ Tokens(a) \subseteq Issued
          /\ a.tok # 0 => RefreshToken(a) # 0 /\ RefreshToken(a) \in Tokens(a)
      BY <2>1, <2>3, Held
    <3>2. Sound(disk.acct[j])'
      <4>1. a \in Accounts'
        BY <3>1 DEF Accounts
      <4>2. (a.tok # 0 => told[a.tok].id # "other") /\ (a.rejected => a.pend # 0 /\ told[a.pend].id = "other")
        BY <2>1, <2>3 DEF Sound
      <4>3. a.tok \in Issued \cup {0} /\ a.pend \in Issued \cup {0}
        BY <3>1 DEF Accounts
      <4>4. (a.tok # 0 => told'[a.tok].id # "other") /\ (a.rejected => a.pend # 0 /\ told'[a.pend].id = "other")
        BY <4>2, <4>3
      <4> QED BY <2>1, <4>1, <4>4 DEF Sound
    <3>3. Kept(j)'
      <4> SUFFICES ASSUME a.tok # 0 PROVE RefreshToken(a) \in live' \/ j \in spent'
        BY <2>1 DEF Kept, RefreshToken
      <4>1. RefreshToken(a) \in live \/ j \in spent
        <5>1. ~ (lock # Nobody /\ client[lock] = j)
          OBVIOUS
        <5> QED BY <2>1, <2>3, <5>1 DEF Kept
      <4>2. RefreshToken(a) \notin Tokens(disk.acct[k])
        BY <3>1 DEF UInv, Apart
      <4> QED BY <3>1, <4>1, <4>2
    <3> QED BY <3>2, <3>3
  <2> QED BY <2>2, <2>3
<1>2. ASSUME NEW b \in Calls \ {c} PROVE Stage(b)'
  <2>1. pc[b] \notin Locked
    BY TokenAssumption DEF SInv, Holds
  <2>2. answer[b] = 0
    BY <2>1 DEF UInv, Stage, Locked
  <2>3. pc'[b] = pc[b] /\ answer'[b] = 0
    BY <2>2
  <2> QED BY <2>1, <2>3 DEF Stage, Locked
<1>3. Apart'
  <2> SUFFICES ASSUME NEW i \in Clients, NEW j \in Clients, i # j PROVE Tokens(disk'.acct[i]) \cap Tokens(disk'.acct[j]) = {}
    BY DEF Apart, Tokens, Absent
  <2>1. CASE i # k /\ j # k
    BY <2>1 DEF UInv, Apart
  <2>2. CASE i = k
    BY <2>2
  <2>3. CASE j = k
    BY <2>3
  <2> QED BY <2>1, <2>2, <2>3
<1>4. (lock # Nobody => pc[lock] \in Locked)'
  BY DEF Locked
<1> QED BY <1>1, <1>2, <1>3, <1>4 DEF UInv

(* A call that does not hold the lock, and starts no work on an account. *)
LEMMA Aside ==
  ASSUME SInv, UInv, NEW c \in Calls, lock # c, UNCHANGED <<disk, lock, told, live>>, spent \subseteq spent',
         \A b \in Calls \ {c} : pc'[b] = pc[b] /\ client'[b] = client[b] /\ answer'[b] = answer[b],
         pc'[c] \in {"idle", "again", "browser"}, answer'[c] = 0,
         \A g \in shown' : g \in Issued' /\ told'[g].id # "other"
  PROVE  UInv'
<1>1. lock \in Calls \cup {Nobody} /\ lock' = lock
  BY DEF SInv, StoreTypes
<1>2. ASSUME NEW k \in Clients PROVE Sound(disk.acct[k])' /\ Kept(k)'
  <2>1. Sound(disk.acct[k]) /\ Kept(k)
    BY DEF UInv
  <2>2. Sound(disk.acct[k])'
    BY <2>1 DEF Sound, Accounts, Issued
  <2>3. lock # Nobody => pc'[lock] = pc[lock] /\ client'[lock] = client[lock] /\ answer'[lock] = answer[lock]
    BY <1>1
  <2>4. Kept(k)'
    BY <1>1, <2>1, <2>3 DEF Kept, RefreshToken
  <2> QED BY <2>2, <2>4
<1>3. ASSUME NEW b \in Calls PROVE Stage(b)'
  <2>1. CASE b = c
    BY <2>1 DEF Stage
  <2>2. CASE b # c
    BY <2>2 DEF UInv, Stage, Unsaved, Issued, Tokens, Absent
  <2> QED BY <2>1, <2>2
<1>4. Granted' /\ Apart' /\ (lock # Nobody => pc[lock] \in Locked)'
  BY <1>1 DEF UInv, Granted, Apart, Issued, Tokens, Absent, Locked
<1> QED BY <1>2, <1>3, <1>4 DEF UInv

(* A call that ends without saving gives up no session that it could have kept. *)
LEMMA Leaves ==
  ASSUME SInv, UInv, NEW c \in Calls, Return(c), UNCHANGED <<disk, told, live>>, spent \subseteq spent',
         pc[c] = "wipe" \/ (answer[c] # 0 /\ disk.acct[client[c]].pend = 0) => client[c] \in spent',
         \A g \in shown' : g \in Issued' /\ told'[g].id # "other"
  PROVE  UInv'
<1>1. /\ pc' = [pc EXCEPT ![c] = "idle"] /\ client' = [client EXCEPT ![c] = Nobody] /\ answer' = [answer EXCEPT ![c] = 0]
      /\ lock' = IF lock = c THEN Nobody ELSE lock
  BY DEF Return, Idle
<1>2. /\ \A b \in Calls \ {c} : pc'[b] = pc[b] /\ client'[b] = client[b] /\ answer'[b] = answer[b]
      /\ pc'[c] = "idle" /\ answer'[c] = 0
  BY <1>1 DEF SInv, StoreTypes
<1>3. CASE lock # c
  BY <1>1, <1>2, <1>3, Aside
<1>4. CASE lock = c
  <2>1. pc[c] \in Locked /\ c # Nobody
    BY <1>4, TokenAssumption DEF UInv
  <2>2. PICK k \in Clients : k = client[c]
    BY <2>1 DEF SInv, Holds
  <2>3. Sound(disk.acct[k]) /\ Kept(k) /\ Granted /\ Apart
    BY DEF UInv
  <2>4. Sound(disk.acct[k])' /\ Granted' /\ Issued' = Issued
    BY <2>3 DEF Sound, Accounts, Issued, Granted
  <2>5. Kept(k)'
    BY <1>4, <2>2, <2>3 DEF Kept, RefreshToken
  <2>6. Stage(c)'
    BY <1>2 DEF Stage
  <2>7. \A j \in Clients \ {k} : disk'.acct[j] = disk.acct[j] /\ Tokens(disk'.acct[k]) \cap Tokens(disk.acct[j]) = {}
    BY <2>3 DEF Apart
  <2>8. lock' = Nobody /\ lock' # c
    BY <1>1, <1>4, <2>1
  <2> QED BY <1>2, <1>4, <2>2, <2>4, <2>5, <2>6, <2>7, <2>8, Touches
<1> QED BY <1>3, <1>4

(* What a call that holds the lock saves is one account of the file as it is. *)
LEMMA SavesOne ==
  ASSUME SInv, NEW c \in Calls, pc[c] \in Locked, NEW a, disk' = With(c, a)
  PROVE  disk'.acct[client[c]] = a /\ \A j \in Clients \ {client[c]} : disk'.acct[j] = disk.acct[j]
<1>1. view[c] = disk /\ client[c] \in Clients /\ IsDatabase(disk)
  BY DEF SInv, StoreTypes, Holds
<1>2. disk' = [disk EXCEPT !.acct[client[c]] = a]
  BY <1>1 DEF With
<1> QED BY <1>1, <1>2 DEF IsDatabase

(* A call that saves one account and gives the lock up. *)
LEMMA SavesAndLeaves ==
  ASSUME SInv, UInv, NEW c \in Calls, pc[c] \in Locked, lock' = Nobody, pc'[c] \in {"idle", "again"}, answer'[c] = 0,
         \A b \in Calls \ {c} : pc'[b] = pc[b] /\ answer'[b] = answer[b],
         NEW a, disk' = With(c, a), UNCHANGED <<told, live>>, a # Absent, Sound(a),
         \A g \in Tokens(a) : g \in Tokens(Mine(c)) \/ Unsaved(g),
         a.tok # 0 => RefreshToken(a) \in live \/ client[c] \in spent',
         spent \ {client[c]} \subseteq spent',
         \A g \in shown' : g \in Issued' /\ told'[g].id # "other"
  PROVE  UInv'
<1>1. lock = c /\ Mine(c) = disk.acct[client[c]] /\ c # Nobody
  BY Working, TokenAssumption DEF Mine
<1>2. PICK k \in Clients : k = client[c]
  BY Working
<1>3. disk'.acct[k] = a /\ \A j \in Clients \ {k} : disk'.acct[j] = disk.acct[j]
  BY <1>2, SavesOne
<1>4. Granted' /\ Issued' = Issued
  BY DEF UInv, Granted, Issued
<1>5. Sound(disk.acct[k])'
  BY <1>3 DEF Sound, Accounts, Issued
<1>6. Kept(k)'
  BY <1>2, <1>3 DEF Kept, RefreshToken
<1>7. Stage(c)'
  BY DEF Stage
<1>8. \A j \in Clients \ {k} : Tokens(disk'.acct[k]) \cap Tokens(disk.acct[j]) = {}
  BY <1>1, <1>2, <1>3 DEF UInv, Apart, Unsaved
<1> QED BY <1>1, <1>2, <1>3, <1>4, <1>5, <1>6, <1>7, <1>8, Touches

(* What Return does to the call and to the others. *)
LEMMA Returns ==
  ASSUME SInv, NEW c \in Calls, Return(c)
  PROVE  /\ pc'[c] = "idle" /\ answer'[c] = 0
         /\ \A b \in Calls \ {c} : pc'[b] = pc[b] /\ client'[b] = client[b] /\ answer'[b] = answer[b]
         /\ lock = c => lock' = Nobody
BY DEF Return, Idle, SInv, StoreTypes

(* A call that takes the lock has nothing in hand yet. *)
LEMMA Takes ==
  ASSUME SInv, UInv, NEW c \in Calls, pc[c] \in {"idle", "again"}, NEW k \in Clients, NEW to \in {"ask", "revoke", "wipe"},
         Load(c, k, to), to = "ask" => ~ Refused(disk.acct[k]),
         UNCHANGED <<disk, answer, told, live, shown, spent>>
  PROVE  UInv'
<1>1. /\ lock = Nobody /\ lock' = c /\ c # Nobody
      /\ pc' = [pc EXCEPT ![c] = to] /\ client' = [client EXCEPT ![c] = k]
  BY TokenAssumption DEF Load, Free
<1>2. /\ \A b \in Calls \ {c} : pc'[b] = pc[b] /\ answer'[b] = answer[b]
      /\ pc'[c] = to /\ client'[c] = k
  BY <1>1 DEF SInv, StoreTypes
<1>3. answer'[c] = 0
  BY DEF UInv, Stage
<1>4. Granted' /\ Issued' = Issued /\ Sound(disk.acct[k])'
  BY DEF UInv, Granted, Issued, Sound, Accounts
<1>5. Kept(k)'
  BY <1>1 DEF UInv, Kept, RefreshToken
<1>6. Stage(c)'
  BY <1>2, <1>3 DEF Stage, Refused
<1>7. \A j \in Clients \ {k} : disk'.acct[j] = disk.acct[j] /\ Tokens(disk'.acct[k]) \cap Tokens(disk.acct[j]) = {}
  BY DEF UInv, Apart
<1>8. to \in Locked /\ \A g \in shown' : g \in Issued' /\ told'[g].id # "other"
  BY DEF Locked, UInv, Issued
<1> QED BY <1>1, <1>2, <1>4, <1>5, <1>6, <1>7, <1>8, Touches

(* A call that holds the lock goes on to another place, and changes no account. *)
LEMMA GoesOn ==
  ASSUME SInv, UInv, NEW c \in Calls, pc[c] \in Locked, NEW to \in Locked, pc' = [pc EXCEPT ![c] = to],
         UNCHANGED <<disk, lock, client, shown>>, \A b \in Calls \ {c} : answer'[b] = answer[b],
         Granted', Issued \subseteq Issued', \A g \in Issued : told'[g] = told[g],
         live \ (Tokens(Mine(c)) \cup {0}) \subseteq live', spent \subseteq spent',
         Kept(client[c])', Stage(c)'
  PROVE  UInv'
<1>1. lock = c /\ lock' = c /\ Mine(c) = disk.acct[client[c]]
  BY Working DEF Mine
<1>2. PICK k \in Clients : k = client[c]
  BY Working
<1>3. pc'[c] = to /\ \A b \in Calls \ {c} : pc'[b] = pc[b]
  BY DEF SInv, StoreTypes
<1>4. Sound(disk.acct[k])'
  <2>1. Sound(disk.acct[k])
    BY DEF UInv
  <2>2. CASE disk.acct[k] = Absent
    BY <2>2 DEF Sound
  <2>3. CASE disk.acct[k] # Absent
    <3> DEFINE a == disk.acct[k]
    <3>1. a \in Accounts /\ (a.tok # 0 => told[a.tok].id # "other") /\ (a.rejected => a.pend # 0 /\ told[a.pend].id = "other")
      BY <2>1, <2>3 DEF Sound
    <3>2. a.tok \in Issued \cup {0} /\ a.pend \in Issued \cup {0} /\ a \in Accounts'
      BY <3>1 DEF Accounts
    <3>3. (a.tok # 0 => told'[a.tok].id # "other") /\ (a.rejected => a.pend # 0 /\ told'[a.pend].id = "other")
      BY <3>1, <3>2
    <3> QED BY <3>2, <3>3 DEF Sound
  <2> QED BY <2>2, <2>3
<1>5. \A j \in Clients \ {k} : disk'.acct[j] = disk.acct[j] /\ Tokens(disk'.acct[k]) \cap Tokens(disk.acct[j]) = {}
  BY DEF UInv, Apart
<1>6. \A g \in shown' : g \in Issued' /\ told'[g].id # "other"
  BY DEF UInv
<1>7. Kept(k)'
  <2>1. client'[c] = client[c]
    OBVIOUS
  <2> QED BY <1>2, <2>1 DEF Kept
<1> QED BY <1>1, <1>2, <1>3, <1>4, <1>5, <1>6, <1>7, Touches

(* The account a call works on, as it is in the file. *)
LEMMA Account ==
  ASSUME SInv, UInv, NEW c \in Calls, pc[c] \in Locked
  PROVE  /\ lock = c /\ c # Nobody /\ client[c] \in Clients /\ Mine(c) = disk.acct[client[c]]
         /\ Mine(c) # Absent /\ Mine(c) \in Accounts /\ Sound(Mine(c)) /\ Kept(client[c]) /\ Stage(c)
         /\ Tokens(Mine(c)) = {Mine(c).tok, Mine(c).pend} \ {0}
<1>1. lock = c /\ c # Nobody /\ client[c] \in Clients /\ Mine(c) # Absent
  BY Working, TokenAssumption
<1>2. Mine(c) = disk.acct[client[c]]
  BY Working DEF Mine
<1>3. Sound(Mine(c)) /\ Kept(client[c]) /\ Stage(c)
  BY <1>1, <1>2 DEF UInv
<1> QED BY <1>1, <1>2, <1>3, Held

(* Clearing an account saves one that holds no grant. *)
LEMMA ClearsAndLeaves ==
  ASSUME SInv, UInv, NEW c \in Calls, pc[c] \in Locked, Return(c), disk' = With(c, Cleared(Mine(c))),
         spent' = spent \ {client[c]}, UNCHANGED <<told, live, shown>>
  PROVE  UInv'
<1> DEFINE a == Cleared(Mine(c))
<1>1. lock = c /\ Mine(c) \in Accounts
  BY Account
<1>2. a = [rev |-> Mine(c).rev + 1, tok |-> 0, plan |-> FALSE, pend |-> 0, rejected |-> FALSE] /\ Mine(c).rev + 1 \in Nat \ {0}
  BY <1>1 DEF Cleared, Accounts
<1>3. a \in Accounts /\ a.tok = 0 /\ a.pend = 0 /\ ~ a.rejected
  BY <1>2 DEF Accounts
<1>4. a # Absent
  BY <1>2 DEF Absent
<1> HIDE DEF a
<1>5. Sound(a) /\ Tokens(a) = {}
  BY <1>3, <1>4 DEF Sound, Tokens
<1>6. \A g \in shown' : g \in Issued' /\ told'[g].id # "other"
  BY DEF UInv, Issued
<1>7. lock' = Nobody /\ pc'[c] = "idle" /\ answer'[c] = 0 /\ \A b \in Calls \ {c} : pc'[b] = pc[b] /\ answer'[b] = answer[b]
  BY <1>1, Returns
<1>8. disk' = With(c, a)
  BY DEF a
<1> QED BY <1>3, <1>4, <1>5, <1>6, <1>7, <1>8, SavesAndLeaves

(* Giving up leaves every session that can still be refreshed. *)
LEMMA Abandons ==
  ASSUME SInv, UInv, NEW c \in Calls, Abandon(c), UNCHANGED <<disk, told, live, shown>>
  PROVE  UInv'
<1>1. Return(c) /\ spent \subseteq spent'
  BY DEF Abandon
<1>2. pc[c] = "wipe" \/ (answer[c] # 0 /\ disk.acct[client[c]].pend = 0) => client[c] \in spent'
  <2> SUFFICES ASSUME pc[c] = "wipe" \/ (answer[c] # 0 /\ disk.acct[client[c]].pend = 0) PROVE client[c] \in spent'
    OBVIOUS
  <2>1. pc[c] \in Locked
    BY DEF UInv, Stage, Locked
  <2>2. Mine(c) = disk.acct[client[c]]
    BY <2>1, Account
  <2> QED BY <2>2 DEF Abandon
<1>3. \A g \in shown' : g \in Issued' /\ told'[g].id # "other"
  BY DEF UInv, Issued
<1> QED BY <1>1, <1>2, <1>3, Leaves

(* An answer is saved beside the account before it is verified. *)
LEMMA ApplyUsable ==
  ASSUME SInv, UInv, NEW c \in Calls, CredentialsApply(c)
  PROVE  UInv'
<1> DEFINE a == Mine(c)
           p == [a EXCEPT !.pend = answer[c], !.rev = a.rev + 1]
<1>1. pc[c] = "apply" /\ pc[c] \in Locked /\ UNCHANGED <<told, live, shown>>
  BY DEF CredentialsApply, Locked, issuer
<1>2. /\ lock = c /\ c # Nobody /\ client[c] \in Clients /\ a = disk.acct[client[c]] /\ a # Absent /\ a \in Accounts
      /\ Sound(a) /\ Stage(c) /\ Tokens(a) = {a.tok, a.pend} \ {0}
  BY <1>1, Account
<1>3. ~ a.rejected /\ a.tok # 0 /\ a.pend = 0 /\ Unsaved(answer[c])
  BY <1>1, <1>2 DEF Stage
<1>4. answer[c] \in Issued /\ answer[c] \in live /\ answer[c] # 0
  BY <1>3 DEF Unsaved, UInv, Granted
<1>5. Granted' /\ Issued' = Issued
  BY <1>1 DEF UInv, Granted, Issued
<1>6. \/ Abandon(c) /\ disk' = disk
      \/ /\ told[answer[c]].id = "none" /\ pc' = [pc EXCEPT ![c] = "final"]
         /\ UNCHANGED <<disk, lock, client, answer, spent>>
      \/ /\ disk' = With(c, p) /\ pc' = [pc EXCEPT ![c] = "verify"] /\ UNCHANGED <<lock, client, answer, spent>>
  BY DEF CredentialsApply, Save, saved
<1>7. CASE Abandon(c) /\ disk' = disk
  BY <1>1, <1>7, Abandons
<1>8. CASE /\ told[answer[c]].id = "none" /\ pc' = [pc EXCEPT ![c] = "final"]
           /\ UNCHANGED <<disk, lock, client, answer, spent>>
  <2>1. pc'[c] = "final" /\ answer'[c] = answer[c] /\ "final" \in Locked
    BY <1>8 DEF SInv, StoreTypes, Locked
  <2>2. Unsaved(answer[c])'
    BY <1>1, <1>3, <1>8 DEF Unsaved, Issued, Tokens, Absent
  <2>3. Stage(c)'
    BY <1>1, <1>2, <1>3, <1>4, <1>5, <1>8, <2>1, <2>2 DEF Stage
  <2>4. Kept(client[c])'
    BY <1>2, <1>3, <1>4, <1>8, <2>1 DEF Kept
  <2> QED BY <1>1, <1>5, <1>8, <2>1, <2>3, <2>4, GoesOn
<1>9. CASE /\ disk' = With(c, p) /\ pc' = [pc EXCEPT ![c] = "verify"] /\ UNCHANGED <<lock, client, answer, spent>>
  <2>1. PICK k \in Clients : k = client[c]
    BY <1>2
  <2>2. p \in Accounts /\ p.tok = a.tok /\ p.pend = answer[c] /\ ~ p.rejected /\ p # Absent
    <3>1. a.rev + 1 \in Nat \ {0} /\ answer[c] \in Issued \cup {0}
      BY <1>2, <1>4 DEF Accounts
    <3>2. p \in Accounts /\ p.tok = a.tok /\ p.pend = answer[c] /\ p.rejected = a.rejected /\ p.rev = a.rev + 1
      BY <1>2, <3>1 DEF Accounts
    <3>3. p.rev # 0
      BY <3>1, <3>2
    <3> QED BY <1>3, <3>2, <3>3 DEF Absent
  <2> HIDE DEF p
  <2>3. disk'.acct[k] = p /\ \A j \in Clients \ {k} : disk'.acct[j] = disk.acct[j]
    BY <1>1, <1>9, <2>1, SavesOne
  <2>4. pc'[c] = "verify" /\ "verify" \in Locked /\ \A b \in Calls \ {c} : pc'[b] = pc[b] /\ answer'[b] = answer[b]
    BY <1>9 DEF SInv, StoreTypes, Locked
  <2>5. Sound(p)
    BY <1>2, <1>3, <2>2 DEF Sound
  <2>6. Sound(disk.acct[k])'
    BY <1>1, <1>5, <2>3, <2>5 DEF Sound, Accounts
  <2>7. RefreshToken(p) = answer[c]
    BY <1>4, <2>2 DEF RefreshToken
  <2>8. Kept(k)'
    BY <1>1, <1>4, <2>3, <2>7 DEF Kept, RefreshToken
  <2>9. Stage(c)'
    BY <1>2, <1>3, <1>4, <1>9, <2>1, <2>2, <2>3, <2>4 DEF Stage
  <2>10. \A j \in Clients \ {k} : Tokens(disk'.acct[k]) \cap Tokens(disk.acct[j]) = {}
    <3>1. Tokens(p) = {a.tok, answer[c]} \ {0}
      BY <2>2 DEF Tokens
    <3> QED BY <1>2, <1>3, <2>1, <2>3, <3>1 DEF UInv, Apart, Unsaved
  <2>11. live \ (Tokens(disk.acct[k]) \cup {0}) \subseteq live' /\ spent \ {k} \subseteq spent'
    BY <1>1, <1>9
  <2>12. \A g \in shown' : g \in Issued' /\ told'[g].id # "other"
    BY <1>1, <1>5 DEF UInv
  <2> QED BY <1>1, <1>2, <1>5, <1>9, <2>1, <2>3, <2>4, <2>6, <2>8, <2>9, <2>10, <2>11, <2>12, Touches
<1> QED BY <1>6, <1>7, <1>8, <1>9

(* Only an identity that is another's blocks the account, and only one that is *)
(* its own goes on to replace the tokens.                                       *)
LEMMA VerifyUsable ==
  ASSUME SInv, UInv, NEW c \in Calls, CredentialsVerify(c)
  PROVE  UInv'
<1> DEFINE a == Mine(c)
           r == [a EXCEPT !.rejected = TRUE, !.rev = @ + 1]
<1>1. pc[c] = "verify" /\ pc[c] \in Locked /\ UNCHANGED <<told, live, shown, spent>>
  BY DEF CredentialsVerify, Locked, issuer, ghosts
<1>2. /\ lock = c /\ client[c] \in Clients /\ a = disk.acct[client[c]] /\ a # Absent /\ a \in Accounts
      /\ Sound(a) /\ Kept(client[c]) /\ Stage(c) /\ Tokens(a) = {a.tok, a.pend} \ {0}
  BY <1>1, Account
<1>3. ~ a.rejected /\ a.tok # 0 /\ answer[c] # 0 /\ answer[c] = a.pend /\ a.pend \in Issued
  BY <1>1, <1>2 DEF Stage, Accounts
<1>4. Granted' /\ Issued' = Issued
  BY <1>1 DEF UInv, Granted, Issued
<1>5. \A g \in shown' : g \in Issued' /\ told'[g].id # "other"
  BY <1>1, <1>4 DEF UInv
<1>6. \/ Return(c) /\ disk' = disk
      \/ /\ told[answer[c]].id = "same" /\ pc' = [pc EXCEPT ![c] = "final"] /\ UNCHANGED <<disk, lock, client, answer>>
      \/ told[answer[c]].id = "other" /\ Return(c) /\ disk' = With(c, r)
  BY DEF CredentialsVerify, Save, saved
<1>7. CASE Return(c) /\ disk' = disk
  BY <1>1, <1>2, <1>3, <1>5, <1>7, Leaves
<1>8. CASE /\ told[answer[c]].id = "same" /\ pc' = [pc EXCEPT ![c] = "final"] /\ UNCHANGED <<disk, lock, client, answer>>
  <2>1. pc'[c] = "final" /\ answer'[c] = answer[c] /\ "final" \in Locked
    BY <1>8 DEF SInv, StoreTypes, Locked
  <2>2. Stage(c)'
    BY <1>1, <1>2, <1>3, <1>4, <1>8, <2>1 DEF Stage
  <2>3. Kept(client[c])'
    BY <1>1, <1>2, <1>3, <1>8, <2>1 DEF Kept, RefreshToken
  <2> QED BY <1>1, <1>4, <1>8, <2>1, <2>2, <2>3, GoesOn
<1>9. CASE told[answer[c]].id = "other" /\ Return(c) /\ disk' = With(c, r)
  <2>1. r \in Accounts /\ r.tok = a.tok /\ r.pend = a.pend /\ r # Absent
    <3>1. a.rev + 1 \in Nat \ {0}
      BY <1>2 DEF Accounts
    <3>2. r \in Accounts /\ r.tok = a.tok /\ r.pend = a.pend /\ r.rev = a.rev + 1
      BY <1>2, <3>1 DEF Accounts
    <3>3. r.rev # 0
      BY <3>1, <3>2
    <3> QED BY <3>2, <3>3 DEF Absent
  <2> HIDE DEF r
  <2>2. Sound(r) /\ Tokens(r) = Tokens(a)
    BY <1>2, <1>3, <1>9, <2>1 DEF Sound, Tokens
  <2>3. RefreshToken(r) \in live \/ client[c] \in spent'
    BY <1>1, <1>2, <1>3, <2>1 DEF Kept, RefreshToken
  <2>4. lock' = Nobody /\ pc'[c] = "idle" /\ answer'[c] = 0 /\ \A b \in Calls \ {c} : pc'[b] = pc[b] /\ answer'[b] = answer[b]
    BY <1>2, <1>9, Returns
  <2> QED BY <1>1, <1>5, <1>9, <2>1, <2>2, <2>3, <2>4, SavesAndLeaves
<1> QED BY <1>6, <1>7, <1>8, <1>9

(* The replacement is saved, and only what is saved is given out. *)
LEMMA FinalUsable ==
  ASSUME SInv, UInv, NEW c \in Calls, CredentialsFinal(c)
  PROVE  UInv'
<1> DEFINE a == Mine(c)
           g == answer[c]
           r == [a EXCEPT !.tok = g, !.plan = told[g].plan, !.pend = 0, !.rev = @ + 1]
<1>1. pc[c] = "final" /\ pc[c] \in Locked /\ UNCHANGED <<told, live>>
  BY DEF CredentialsFinal, Locked, issuer
<1>2. /\ lock = c /\ client[c] \in Clients /\ a = disk.acct[client[c]] /\ a # Absent /\ a \in Accounts
      /\ Sound(a) /\ Kept(client[c]) /\ Stage(c) /\ Tokens(a) = {a.tok, a.pend} \ {0}
  BY <1>1, Account
<1>3. /\ ~ a.rejected /\ a.tok # 0 /\ g \in Issued /\ told[g].id # "other"
      /\ a.pend = g \/ (a.pend = 0 /\ Unsaved(g))
  BY <1>1, <1>2 DEF Stage
<1>4. g # 0
  BY <1>3 DEF UInv, Granted
<1>5. \A h \in shown : h \in Issued' /\ told'[h].id # "other"
  BY <1>1 DEF UInv, Issued
<1>6. \/ Abandon(c) /\ UNCHANGED <<disk, shown>>
      \/ /\ disk' = With(c, r) /\ UNCHANGED spent /\ shown' \subseteq shown \cup {g}
         /\ \/ Return(c)
            \/ pc' = [pc EXCEPT ![c] = "again"] /\ lock' = Nobody /\ answer' = [answer EXCEPT ![c] = 0]
  BY DEF CredentialsFinal, Save
<1>7. CASE Abandon(c) /\ UNCHANGED <<disk, shown>>
  BY <1>1, <1>7, Abandons
<1>8. CASE /\ disk' = With(c, r) /\ UNCHANGED spent /\ shown' \subseteq shown \cup {g}
           /\ \/ Return(c)
              \/ pc' = [pc EXCEPT ![c] = "again"] /\ lock' = Nobody /\ answer' = [answer EXCEPT ![c] = 0]
  <2>1. r.tok = g /\ r.pend = 0 /\ r # Absent /\ Sound(r)
    <3>1. r.tok = g /\ r.pend = 0 /\ r.rejected = a.rejected /\ r.rev = a.rev + 1
      BY <1>2 DEF Accounts
    <3>2. a.rev + 1 \in Nat \ {0}
      BY <1>2 DEF Accounts
    <3>3. r.rev # 0
      BY <3>1, <3>2
    <3>4. r # Absent
      BY <3>3 DEF Absent
    <3>5. told[g].plan \in BOOLEAN
      BY <1>3 DEF UInv, Granted
    <3>6. r \in Accounts
      BY <1>2, <1>3, <3>2, <3>5 DEF Accounts
    <3> QED BY <1>3, <3>1, <3>4, <3>6 DEF Sound
  <2> HIDE DEF r
  <2>2. Tokens(r) = {g}
    BY <1>4, <2>1 DEF Tokens
  <2>3. g \in Tokens(a) \/ Unsaved(g)
    BY <1>2, <1>3, <1>4
  <2>4. RefreshToken(r) \in live \/ client[c] \in spent'
    <3>1. RefreshToken(r) = g
      BY <2>1 DEF RefreshToken
    <3>2. CASE a.pend = g
      BY <1>1, <1>2, <1>3, <1>4, <1>8, <3>1, <3>2 DEF Kept, RefreshToken
    <3>3. CASE Unsaved(g)
      BY <3>1, <3>3 DEF Unsaved
    <3> QED BY <1>3, <3>2, <3>3
  <2>5. lock' = Nobody /\ pc'[c] \in {"idle", "again"} /\ answer'[c] = 0 /\ \A b \in Calls \ {c} : pc'[b] = pc[b] /\ answer'[b] = answer[b]
    <3>1. CASE Return(c)
      BY <1>2, <3>1, Returns
    <3>2. CASE pc' = [pc EXCEPT ![c] = "again"] /\ lock' = Nobody /\ answer' = [answer EXCEPT ![c] = 0]
      BY <3>2 DEF SInv, StoreTypes
    <3> QED BY <1>8, <3>1, <3>2
  <2>6. \A h \in shown' : h \in Issued' /\ told'[h].id # "other"
    BY <1>1, <1>3, <1>5, <1>8 DEF Issued
  <2> HIDE DEF g
  <2> QED BY <1>1, <1>8, <2>1, <2>2, <2>3, <2>4, <2>5, <2>6, SavesAndLeaves
<1> QED BY <1>6, <1>7, <1>8
(* A refresh loses no session, takes no other's tokens and gives out none. *)
LEMMA RefreshUsable ==
  ASSUME SInv, UInv, NEW c \in Calls, Credentials(c)
  PROVE  UInv'
<1>1. \A g \in shown : g \in Issued /\ told[g].id # "other"
  BY DEF UInv
<1>2. CASE CredentialsRefused(c)
  <2>1. pc[c] \in {"idle", "again"} /\ Return(c) /\ UNCHANGED <<disk, told, live, shown, spent>>
    BY <1>2 DEF CredentialsRefused, Start, issuer, ghosts
  <2>2. answer[c] = 0
    BY <2>1 DEF UInv, Stage
  <2> QED BY <1>1, <2>1, <2>2, Leaves DEF Issued
<1>3. CASE \E k \in Clients : CredentialsLoad(c, k)
  <2>1. PICK k \in Clients : /\ Load(c, k, "ask") /\ ~ Refused(disk.acct[k]) /\ pc[c] \in {"idle", "again"}
                             /\ UNCHANGED <<disk, answer, told, live, shown, spent>>
    BY <1>3 DEF CredentialsLoad, Start, issuer, ghosts
  <2> QED BY <2>1, Takes
<1>4. CASE CredentialsServe(c)
  <2>1. pc[c] = "ask" /\ Return(c) /\ UNCHANGED <<disk, told, live, spent>> /\ shown' = shown \cup {Mine(c).tok}
    BY <1>4 DEF CredentialsServe, issuer
  <2>2. Mine(c) = disk.acct[client[c]] /\ Mine(c) # Absent /\ Mine(c) \in Accounts /\ Sound(Mine(c)) /\ Stage(c)
    BY <2>1, Account DEF Locked
  <2>3. Mine(c).tok # 0 /\ answer[c] = 0
    BY <2>1, <2>2 DEF Stage
  <2>4. Mine(c).tok \in Issued /\ told[Mine(c).tok].id # "other"
    BY <2>2, <2>3 DEF Sound, Accounts
  <2> QED BY <1>1, <2>1, <2>3, <2>4, Leaves DEF Issued
<1>5. CASE CredentialsRefresh(c)
  <2> DEFINE to == IF Mine(c).pend # 0 THEN "verify" ELSE "post"
  <2>1. /\ pc[c] = "ask" /\ pc[c] \in Locked /\ to \in Locked /\ pc' = [pc EXCEPT ![c] = to]
        /\ answer' = [answer EXCEPT ![c] = Mine(c).pend]
        /\ UNCHANGED <<disk, lock, client, told, live, shown, spent>>
    BY <1>5 DEF CredentialsRefresh, Locked, saved, issuer, ghosts
  <2>2. /\ lock = c /\ Mine(c) = disk.acct[client[c]] /\ Mine(c) # Absent /\ Mine(c) \in Accounts /\ Stage(c) /\ Kept(client[c])
    BY <2>1, Account
  <2>3. pc'[c] = to /\ answer'[c] = Mine(c).pend /\ \A b \in Calls \ {c} : answer'[b] = answer[b]
    BY <2>1 DEF SInv, StoreTypes
  <2>4. Granted' /\ Issued' = Issued
    BY <2>1 DEF UInv, Granted, Issued
  <2>5. answer[c] = 0
    BY <2>1, <2>2 DEF Stage
  <2>6. Kept(client[c])'
    BY <2>1, <2>2, <2>5 DEF Kept, RefreshToken
  <2>7. Stage(c)'
    BY <2>1, <2>2, <2>3 DEF Stage
  <2> HIDE DEF to
  <2> QED BY <2>1, <2>3, <2>4, <2>6, <2>7, GoesOn
<1>6. CASE IssuerAnswers(c)
  <2> DEFINE g == Cardinality(Issued) + 1
  <2>1. pc[c] = "post" /\ pc[c] \in Locked /\ UNCHANGED <<disk, shown>>
    BY <1>6 DEF IssuerAnswers, Locked
  <2>2. PICK says \in [id : Identities, plan : BOOLEAN, valid : BOOLEAN] :
          /\ Grant(g, says) /\ live' = (live \ {Mine(c).tok}) \cup {g}
          /\ \/ /\ pc' = [pc EXCEPT ![c] = "apply"] /\ answer' = [answer EXCEPT ![c] = g]
                /\ UNCHANGED <<lock, client, view, again, spent>>
             \/ Return(c) /\ DropsToken(c)
    BY <1>6 DEF IssuerAnswers
  <2> HIDE DEF g
  <2>3. /\ lock = c /\ c # Nobody /\ client[c] \in Clients /\ Mine(c) = disk.acct[client[c]] /\ Mine(c) # Absent /\ Mine(c) \in Accounts
        /\ Sound(Mine(c)) /\ Stage(c) /\ Tokens(Mine(c)) = {Mine(c).tok, Mine(c).pend} \ {0}
    BY <2>1, Account
  <2>4. Granted' /\ g \notin Issued /\ g # 0 /\ told'[g] = says /\ Issued' = Issued \cup {g} /\ \A h \in Issued : told'[h] = told[h]
    BY <2>2, NewGrant DEF UInv
  <2>5. Mine(c).tok # 0 /\ Mine(c).pend = 0 /\ ~ Mine(c).rejected /\ answer[c] = 0
    BY <2>1, <2>3 DEF Stage
  <2>6. live \ (Tokens(Mine(c)) \cup {0}) \subseteq live' /\ g \in live'
    BY <2>2, <2>3, <2>5
  <2>7. CASE /\ pc' = [pc EXCEPT ![c] = "apply"] /\ answer' = [answer EXCEPT ![c] = g]
             /\ UNCHANGED <<lock, client, view, again, spent>>
    <3>1. /\ pc'[c] = "apply" /\ answer'[c] = g /\ \A b \in Calls \ {c} : answer'[b] = answer[b]
      BY <2>7 DEF SInv, StoreTypes
    <3>2. \A k \in Clients : g \notin Tokens(disk.acct[k])
      <4> SUFFICES ASSUME NEW k \in Clients PROVE g \notin Tokens(disk.acct[k])
        OBVIOUS
      <4>1. CASE disk.acct[k] = Absent
        BY <4>1 DEF Tokens
      <4>2. CASE disk.acct[k] # Absent
        <5>1. Sound(disk.acct[k])
          BY DEF UInv
        <5> QED BY <2>4, <4>2, <5>1, Held
      <4> QED BY <4>1, <4>2
    <3>3. Unsaved(answer[c])'
      BY <2>1, <2>4, <2>6, <3>1, <3>2 DEF Unsaved, Tokens, Absent
    <3>4. Kept(client[c])'
      BY <2>1, <2>3, <2>4, <2>5, <2>7, <3>1 DEF Kept
    <3>5. Stage(c)'
      BY <2>1, <2>3, <2>5, <2>7, <3>1, <3>3 DEF Stage
    <3>6. "apply" \in Locked /\ Issued \subseteq Issued'
      BY <2>4 DEF Locked
    <3> QED BY <2>1, <2>4, <2>6, <2>7, <3>1, <3>4, <3>5, <3>6, GoesOn
  <2>8. CASE Return(c) /\ DropsToken(c)
    <3>1. PICK k \in Clients : k = client[c]
      BY <2>3
    <3>2. /\ pc'[c] = "idle" /\ answer'[c] = 0 /\ lock' = Nobody
          /\ \A b \in Calls \ {c} : pc'[b] = pc[b] /\ answer'[b] = answer[b]
      BY <2>3, <2>8, Returns
    <3>3. spent' = spent \cup {k}
      BY <2>8, <3>1 DEF DropsToken
    <3>4. Sound(disk.acct[k])'
      <4>1. Mine(c) \in Accounts' /\ disk'.acct[k] = Mine(c)
        BY <2>1, <2>3, <2>4, <3>1 DEF Accounts
      <4>2. Mine(c).tok \in Issued /\ told[Mine(c).tok].id # "other"
        BY <2>3, <2>5 DEF Sound, Accounts
      <4> QED BY <2>4, <2>5, <4>1, <4>2 DEF Sound
    <3>5. Kept(k)'
      BY <3>3 DEF Kept
    <3>6. Stage(c)'
      BY <3>2 DEF Stage
    <3>7. \A j \in Clients \ {k} : disk'.acct[j] = disk.acct[j] /\ Tokens(disk'.acct[k]) \cap Tokens(disk.acct[j]) = {}
      BY <2>1 DEF UInv, Apart
    <3>8. \A h \in shown' : h \in Issued' /\ told'[h].id # "other"
      BY <1>1, <2>1, <2>4
    <3>9. live \ (Tokens(disk.acct[k]) \cup {0}) \subseteq live' /\ Issued \subseteq Issued'
      BY <2>3, <2>4, <2>6, <3>1
    <3> QED BY <2>3, <2>4, <3>1, <3>2, <3>3, <3>4, <3>5, <3>6, <3>7, <3>8, <3>9, Touches
  <2> QED BY <2>2, <2>7, <2>8
<1>7. CASE RequestFails(c)
  <2>1. pc[c] = "post" /\ Return(c) /\ UNCHANGED <<disk, told, live, shown, spent>>
    BY <1>7 DEF RequestFails, issuer, ghosts
  <2>2. answer[c] = 0
    BY <2>1 DEF UInv, Stage
  <2> QED BY <1>1, <2>1, <2>2, Leaves DEF Issued
<1>8. CASE TerminalRefusal(c)
  <2>1. pc[c] = "post" /\ pc[c] \in Locked /\ Return(c) /\ UNCHANGED <<told, live, shown>>
    BY <1>8 DEF TerminalRefusal, Locked, issuer
  <2>2. answer[c] = 0
    BY <2>1 DEF UInv, Stage
  <2>3. CASE disk' = With(c, Cleared(Mine(c))) /\ spent' = spent \ {client[c]}
    BY <1>1, <2>1, <2>3, ClearsAndLeaves
  <2>4. CASE UNCHANGED <<disk, spent>>
    BY <1>1, <2>1, <2>2, <2>4, Leaves DEF Issued
  <2> QED BY <1>8, <2>3, <2>4 DEF TerminalRefusal, Save, KeepsToken
<1>9. CASE CredentialsApply(c)
  BY <1>9, ApplyUsable
<1>10. CASE CredentialsVerify(c)
  BY <1>10, VerifyUsable
<1>11. CASE CredentialsFinal(c)
  BY <1>11, FinalUsable
<1> QED BY <1>2, <1>3, <1>4, <1>5, <1>6, <1>7, <1>8, <1>9, <1>10, <1>11 DEF Credentials

(* A logout, a command to clear, a declined sign-in and a death of the process *)
(* lose no session but the one that is being cleared.                           *)
LEMMA LogoutUsable ==
  ASSUME SInv, UInv, NEW c \in Calls, Revoke(c) \/ Wipe(c) \/ Crash(c) \/ LoginFails(c)
  PROVE  UInv'
<1>1. \A g \in shown : g \in Issued /\ told[g].id # "other"
  BY DEF UInv
<1>2. CASE Revoke(c)
  <2>1. /\ pc[c] = "revoke" /\ pc[c] \in Locked /\ pc' = [pc EXCEPT ![c] = "wipe"] /\ "wipe" \in Locked
        /\ UNCHANGED <<disk, lock, client, answer, told, shown, spent>>
    BY <1>2 DEF Revoke, Locked, saved, ghosts
  <2>2. live' = live \/ live' = live \ {RefreshToken(Mine(c))}
    BY <1>2 DEF Revoke
  <2>3. lock = c /\ c # Nobody /\ client[c] \in Clients /\ Mine(c) \in Accounts /\ Stage(c) /\ Tokens(Mine(c)) = {Mine(c).tok, Mine(c).pend} \ {0}
    BY <2>1, Account
  <2>4. RefreshToken(Mine(c)) \in Tokens(Mine(c)) \cup {0}
    BY <2>3 DEF RefreshToken
  <2>5. live \ (Tokens(Mine(c)) \cup {0}) \subseteq live'
    BY <2>2, <2>4
  <2>6. pc'[c] = "wipe" /\ answer'[c] = answer[c]
    BY <2>1 DEF SInv, StoreTypes
  <2>7. Kept(client[c])'
    BY <2>1, <2>3, <2>6 DEF Kept
  <2>8. Stage(c)'
    BY <2>1, <2>3, <2>6 DEF Stage
  <2>9. Granted' /\ Issued' = Issued
    BY <2>1 DEF UInv, Granted, Issued
  <2> QED BY <2>1, <2>5, <2>7, <2>8, <2>9, GoesOn
<1>3. CASE Wipe(c)
  <2>1. pc[c] = "wipe" /\ pc[c] \in Locked /\ UNCHANGED <<told, live, shown>>
    BY <1>3 DEF Wipe, Locked, issuer
  <2>2. CASE disk' = With(c, Cleared(Mine(c))) /\ Return(c) /\ spent' = spent \ {client[c]}
    BY <2>1, <2>2, ClearsAndLeaves
  <2>3. CASE Abandon(c) /\ disk' = disk
    BY <2>1, <2>3, Abandons
  <2> QED BY <1>3, <2>2, <2>3 DEF Wipe, Save, KeepsToken
<1>4. CASE Crash(c)
  <2>1. Abandon(c) /\ UNCHANGED <<disk, told, live, shown>>
    BY <1>4 DEF Crash, issuer
  <2> QED BY <2>1, Abandons
<1>5. CASE LoginFails(c)
  <2>1. pc[c] = "browser" /\ Return(c) /\ UNCHANGED <<disk, told, live, shown, spent>>
    BY <1>5 DEF LoginFails, issuer, ghosts
  <2>2. answer[c] = 0
    BY <2>1 DEF UInv, Stage
  <2> QED BY <1>1, <2>1, <2>2, Leaves DEF Issued
<1> QED BY <1>2, <1>3, <1>4, <1>5

(* Choosing the active registration touches no account. *)
LEMMA SelectUsable ==
  ASSUME SInv, UInv, NEW c \in Calls, NEW k \in Clients, Select(c, k)
  PROVE  UInv'
<1>1. disk' = [disk EXCEPT !.active = k] /\ UNCHANGED <<lock, pc, client, answer, told, live, shown, spent>>
  BY DEF Select, Save, local, issuer, ghosts
<1>2. disk'.acct = disk.acct
  BY <1>1 DEF SInv, StoreTypes, IsDatabase
<1>3. ASSUME NEW j \in Clients PROVE Sound(disk.acct[j])' /\ Kept(j)'
  <2>1. Sound(disk.acct[j]) /\ Kept(j)
    BY DEF UInv
  <2> QED BY <1>1, <1>2, <2>1 DEF Sound, Accounts, Issued, Kept, RefreshToken
<1>4. ASSUME NEW b \in Calls PROVE Stage(b)'
  <2>1. Stage(b)
    BY DEF UInv
  <2> QED BY <1>1, <1>2, <2>1 DEF Stage, Unsaved, Issued, Tokens, Absent
<1>5. Granted' /\ Apart' /\ (lock # Nobody => pc[lock] \in Locked)' /\ \A g \in shown' : g \in Issued' /\ told'[g].id # "other"
  BY <1>1, <1>2 DEF UInv, Granted, Apart, Issued, Tokens, Absent, Locked
<1> QED BY <1>3, <1>4, <1>5 DEF UInv

(* A sign-in that begins has nothing in hand. *)
LEMMA LoginBeginUsable ==
  ASSUME SInv, UInv, NEW c \in Calls, NEW k \in Clients \cup {Nobody}, LoginBegin(c, k)
  PROVE  UInv'
<1>1. /\ pc[c] = "idle" /\ lock = Nobody /\ c # Nobody
      /\ pc' = [pc EXCEPT ![c] = "browser"] /\ client' = [client EXCEPT ![c] = k]
      /\ UNCHANGED <<disk, lock, answer, told, live, shown, spent>>
  BY TokenAssumption DEF LoginBegin, Start, Free, saved, issuer, ghosts
<1>2. /\ \A b \in Calls \ {c} : pc'[b] = pc[b] /\ client'[b] = client[b] /\ answer'[b] = answer[b]
      /\ pc'[c] = "browser"
  BY <1>1 DEF SInv, StoreTypes
<1>3. answer'[c] = 0
  BY <1>1 DEF UInv, Stage
<1>4. \A g \in shown' : g \in Issued' /\ told'[g].id # "other"
  BY <1>1 DEF UInv, Issued
<1> QED BY <1>1, <1>2, <1>3, <1>4, Aside

(* A sign-in that commits puts a verified grant in its account, one that no *)
(* account had; one that comes too late changes nothing.                    *)
LEMMA LoginCommitUsable ==
  ASSUME SInv, UInv, NEW c \in Calls, NEW k \in Clients, LoginCommit(c, k)
  PROVE  UInv'
<1> DEFINE g == Cardinality(Issued) + 1
<1>1. pc[c] = "browser" /\ lock = Nobody /\ c # Nobody /\ Return(c) /\ shown' = shown
  BY TokenAssumption DEF LoginCommit, Free
<1>2. PICK says \in [id : {"same"}, plan : BOOLEAN, valid : {TRUE}] :
        /\ Grant(g, says) /\ live' = live \cup {g}
        /\ \/ disk' = SignedIn(disk, k, g) /\ spent' = spent \ {k}
           \/ UNCHANGED <<disk, spent>>
  BY DEF LoginCommit, Save
<1> HIDE DEF g
<1>3. Granted' /\ g \notin Issued /\ g # 0 /\ told'[g] = says /\ Issued' = Issued \cup {g} /\ \A h \in Issued : told'[h] = told[h]
  BY <1>2, NewGrant DEF UInv
<1>4. pc'[c] = "idle" /\ answer'[c] = 0 /\ \A b \in Calls \ {c} : pc'[b] = pc[b] /\ answer'[b] = answer[b]
  BY Returns, <1>1
<1>5. lock' = Nobody
  BY <1>1 DEF Return
<1>6. Stage(c)'
  BY <1>4 DEF Stage
<1>7. \A h \in shown' : h \in Issued' /\ told'[h].id # "other"
  BY <1>1, <1>3 DEF UInv
<1>8. \A j \in Clients : Tokens(disk.acct[j]) \subseteq Issued
  <2> SUFFICES ASSUME NEW j \in Clients PROVE Tokens(disk.acct[j]) \subseteq Issued
    OBVIOUS
  <2>1. Sound(disk.acct[j])
    BY DEF UInv
  <2>2. CASE disk.acct[j] = Absent
    BY <2>2 DEF Tokens
  <2> QED BY <2>1, <2>2, Held
<1>9. CASE disk' = SignedIn(disk, k, g) /\ spent' = spent \ {k}
  <2> DEFINE a == disk'.acct[k]
  <2>1. /\ a = [rev |-> disk.acct[k].rev + 1, tok |-> g, plan |-> told'[g].plan, pend |-> 0, rejected |-> FALSE]
        /\ \A j \in Clients \ {k} : disk'.acct[j] = disk.acct[j]
    BY <1>9 DEF SignedIn, SInv, StoreTypes, IsDatabase
  <2>2. disk.acct[k].rev \in Nat
    BY DEF SInv, StoreTypes, IsDatabase, Revised
  <2>3. disk.acct[k].rev + 1 \in Nat \ {0} /\ told'[g].plan \in BOOLEAN /\ told'[g].id = "same" /\ g \in Issued'
    BY <1>2, <1>3, <2>2
  <2> HIDE DEF a
  <2>4. a.rev # 0 /\ a.tok = g /\ a.pend = 0 /\ ~ a.rejected /\ a \in Accounts'
    BY <2>1, <2>3 DEF Accounts
  <2>5. a # Absent
    BY <2>4 DEF Absent
  <2>6. Sound(disk.acct[k])'
    BY <2>3, <2>4, <2>5 DEF Sound, a
  <2>7. Kept(k)'
    BY <1>2, <1>3, <2>4 DEF Kept, RefreshToken, a
  <2>8. Tokens(a) = {g}
    BY <1>3, <2>4, <2>5 DEF Tokens
  <2>9. \A j \in Clients \ {k} : Tokens(disk'.acct[k]) \cap Tokens(disk.acct[j]) = {}
    BY <1>3, <1>8, <2>8 DEF a
  <2>10. live \ (Tokens(disk.acct[k]) \cup {0}) \subseteq live' /\ spent \ {k} \subseteq spent' /\ Issued \subseteq Issued'
    BY <1>2, <1>3, <1>9
  <2> QED BY <1>1, <1>3, <1>4, <1>5, <1>6, <1>7, <2>1, <2>6, <2>7, <2>9, <2>10, Touches
<1>10. CASE UNCHANGED <<disk, spent>>
  <2>1. Sound(disk.acct[k]) /\ Kept(k)
    BY DEF UInv
  <2>2. Sound(disk.acct[k])'
    <3>1. CASE disk.acct[k] = Absent
      BY <1>10, <3>1 DEF Sound
    <3>2. CASE disk.acct[k] # Absent
      <4> DEFINE a == disk.acct[k]
      <4>1. a \in Accounts /\ (a.tok # 0 => told[a.tok].id # "other") /\ (a.rejected => a.pend # 0 /\ told[a.pend].id = "other")
        BY <2>1, <3>2 DEF Sound
      <4>2. a.tok \in Issued \cup {0} /\ a.pend \in Issued \cup {0} /\ a \in Accounts'
        BY <1>3, <4>1 DEF Accounts
      <4>3. (a.tok # 0 => told'[a.tok].id # "other") /\ (a.rejected => a.pend # 0 /\ told'[a.pend].id = "other")
        BY <1>3, <4>1, <4>2
      <4> QED BY <1>10, <4>2, <4>3 DEF Sound
    <3> QED BY <3>1, <3>2
  <2>3. Kept(k)'
    BY <1>1, <1>2, <1>10, <2>1 DEF Kept, RefreshToken
  <2>4. \A j \in Clients \ {k} : disk'.acct[j] = disk.acct[j] /\ Tokens(disk'.acct[k]) \cap Tokens(disk.acct[j]) = {}
    BY <1>10 DEF UInv, Apart
  <2>5. live \ (Tokens(disk.acct[k]) \cup {0}) \subseteq live' /\ spent \ {k} \subseteq spent' /\ Issued \subseteq Issued'
    BY <1>2, <1>3, <1>10
  <2> QED BY <1>1, <1>3, <1>4, <1>5, <1>6, <1>7, <2>2, <2>3, <2>4, <2>5, Touches
<1> QED BY <1>2, <1>9, <1>10

(* A token that ages, and a step that changes nothing. *)
LEMMA AgeUsable ==
  ASSUME SInv, UInv, UNCHANGED <<disk, lock, pc, client, answer, told, live, shown, spent>>
  PROVE  UInv'
<1>1. ASSUME NEW j \in Clients PROVE Sound(disk.acct[j])' /\ Kept(j)'
  <2>1. Sound(disk.acct[j]) /\ Kept(j)
    BY DEF UInv
  <2> QED BY <2>1 DEF Sound, Accounts, Issued, Kept, RefreshToken
<1>2. ASSUME NEW b \in Calls PROVE Stage(b)'
  <2>1. Stage(b)
    BY DEF UInv
  <2> QED BY <2>1 DEF Stage, Unsaved, Issued, Tokens, Absent
<1>3. Granted' /\ Apart' /\ (lock # Nobody => pc[lock] \in Locked)' /\ \A g \in shown' : g \in Issued' /\ told'[g].id # "other"
  BY DEF UInv, Granted, Apart, Issued, Tokens, Absent, Locked
<1> QED BY <1>1, <1>2, <1>3 DEF UInv

(* An empty store, or an account with the one grant there is. *)
LEMMA StartsUsable == Init => UInv
<1> SUFFICES ASSUME Init PROVE UInv
  OBVIOUS
<1>1. /\ lock = Nobody /\ shown = {} /\ \A c \in Calls : pc[c] = "idle" /\ answer[c] = 0
  BY DEF Init
<1>2. \A c \in Calls : Stage(c)
  BY <1>1 DEF Stage
<1>3. CASE disk = EmptyDatabase /\ told = <<>>
  <2>1. \A k \in Clients : disk.acct[k] = Absent
    BY <1>3 DEF EmptyDatabase
  <2>2. Issued = {}
    BY <1>3 DEF Issued
  <2>3. Issued = 1 .. 0 /\ 0 \in Nat
    BY <2>2
  <2>4. Granted
    BY <2>2, <2>3 DEF Granted
  <2>5. Apart /\ \A k \in Clients : Sound(disk.acct[k]) /\ Kept(k)
    BY <2>1 DEF Apart, Tokens, Sound, Kept
  <2> QED BY <1>1, <1>2, <2>4, <2>5 DEF UInv
<1>4. CASE \E k \in Clients :
             /\ disk = [active |-> k, acct |-> [EmptyDatabase.acct EXCEPT ![k] =
                          [rev |-> 1, tok |-> 1, plan |-> TRUE, pend |-> 0, rejected |-> FALSE]]]
             /\ told = <<[id |-> "same", plan |-> TRUE, valid |-> TRUE]>> /\ live = {1}
  <2>1. PICK k \in Clients :
             /\ disk = [active |-> k, acct |-> [EmptyDatabase.acct EXCEPT ![k] =
                          [rev |-> 1, tok |-> 1, plan |-> TRUE, pend |-> 0, rejected |-> FALSE]]]
             /\ told = <<[id |-> "same", plan |-> TRUE, valid |-> TRUE]>> /\ live = {1}
    BY <1>4
  <2>2. /\ disk.acct[k] = [rev |-> 1, tok |-> 1, plan |-> TRUE, pend |-> 0, rejected |-> FALSE]
        /\ \A j \in Clients \ {k} : disk.acct[j] = Absent
    BY <2>1 DEF EmptyDatabase
  <2>3. Issued = 1 .. 1 /\ told[1].id = "same" /\ told[1].plan = TRUE
    BY <2>1 DEF Issued
  <2>4. Granted
    <3>1. 1 \in Nat /\ \A g \in 1 .. 1 : g = 1
      OBVIOUS
    <3> QED BY <2>3, <3>1 DEF Granted
  <2>5. disk.acct[k] # Absent
    <3>1. disk.acct[k].rev = 1 /\ disk.acct[k].tok = 1
      BY <2>2
    <3>2. DOMAIN disk.acct[k] = {"rev", "tok", "plan", "pend", "rejected"} /\ DOMAIN Absent = {"rev"}
      BY <2>2 DEF Absent
    <3> QED BY <3>2
  <2>6. Sound(disk.acct[k])
    BY <2>2, <2>3 DEF Sound, Accounts
  <2>7. Kept(k)
    BY <2>1, <2>2 DEF Kept, RefreshToken
  <2>8. \A j \in Clients \ {k} : Sound(disk.acct[j]) /\ Kept(j) /\ Tokens(disk.acct[j]) = {}
    BY <2>2 DEF Sound, Kept, Tokens
  <2>9. Apart
    BY <2>8 DEF Apart
  <2> QED BY <1>1, <1>2, <2>4, <2>6, <2>7, <2>8, <2>9 DEF UInv
<1> QED BY <1>3, <1>4 DEF Init

(* What is known of every account and of every call in the critical section: no  *)
(* grant is in two accounts, only a foreign answer blocks one, and a session is   *)
(* kept or in the hands of the call that holds the lock.                          *)
THEOREM UsableInvariant == Spec => []UInv
<1>1. SInv /\ UInv /\ [Next]_vars => UInv'
  <2> SUFFICES ASSUME SInv, UInv, [Next]_vars PROVE UInv'
    OBVIOUS
  <2>1. CASE \E c \in Calls : Credentials(c)
    BY <2>1, RefreshUsable
  <2>2. CASE \E c \in Calls : Revoke(c) \/ Wipe(c) \/ LoginFails(c) \/ Crash(c)
    BY <2>2, LogoutUsable
  <2>3. CASE \E c \in Calls, k \in Clients : LogoutLoad(c, k) \/ ClearLoad(c, k)
    <3>1. PICK c \in Calls, k \in Clients : LogoutLoad(c, k) \/ ClearLoad(c, k)
      BY <2>3
    <3>2. /\ pc[c] \in {"idle", "again"} /\ UNCHANGED <<disk, answer, told, live, shown, spent>>
          /\ Load(c, k, "revoke") \/ Load(c, k, "wipe")
      BY <3>1 DEF LogoutLoad, ClearLoad, Start, issuer, ghosts
    <3> QED BY <3>2, Takes
  <2>4. CASE \E c \in Calls, k \in Clients : Select(c, k)
    BY <2>4, SelectUsable
  <2>5. CASE \E c \in Calls, k \in Clients : LoginCommit(c, k)
    BY <2>5, LoginCommitUsable
  <2>6. CASE \E c \in Calls, k \in Clients \cup {Nobody} : LoginBegin(c, k)
    BY <2>6, LoginBeginUsable
  <2>7. CASE \E g \in Grants : Age(g)
    BY <2>7, AgeUsable DEF Age, saved, local, ghosts
  <2>8. CASE UNCHANGED vars
    BY <2>8, AgeUsable DEF vars
  <2> QED BY <2>1, <2>2, <2>3, <2>4, <2>5, <2>6, <2>7, <2>8 DEF Next
<1> QED BY <1>1, StartsUsable, StoreInvariant, PTL DEF Spec

(* A signed-in account can always be refreshed, unless no save could have kept   *)
(* its session, and only an ID token that names another blocks it.               *)
THEOREM AccountStaysUsable == Spec => []AccountUsable
<1>1. SInv /\ UInv => SessionKept
  BY DEF UInv, SessionKept, Kept
<1>2. UInv => IdentityJudged
  BY DEF UInv, IdentityJudged, Sound
<1> QED BY <1>1, <1>2, StoreInvariant, UsableInvariant, PTL DEF AccountUsable
=============================================================================
