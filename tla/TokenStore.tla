----------------------------- MODULE TokenStore -----------------------------
(***************************************************************************)
(* The saved ChatGPT registrations (internal/chatgptauth): accounts.json,  *)
(* replaced as a whole under the lock of session.lock, the calls that read *)
(* and rewrite it, and the issuer, whose refresh tokens serve once.        *)
(*                                                                         *)
(* A grant is one answer of the issuer: an access token, the refresh token *)
(* that replaces the one used, and perhaps an ID token.  A call is one     *)
(* command, or one request that needs credentials; several run at once, in *)
(* one process or in many.                                                 *)
(***************************************************************************)
EXTENDS Naturals, FiniteSets

CONSTANTS
  Calls,     \* calls that may be in progress
  Clients,   \* client ids the issuer may register
  Nobody,    \* no call, no client id
  MaxGrants, \* grants the issuer makes; checking only
  MaxCalls   \* calls made; checking only

ASSUME TokenAssumption ==
  /\ Nobody \notin Calls \cup Clients
  /\ MaxGrants \in Nat \ {0} /\ MaxCalls \in Nat

\* What an answer's ID token says: the account's identity, another one, or
\* the answer carries none.
Identities == {"same", "other", "none"}
Grants == 1..MaxGrants

VARIABLES
  disk,    \* accounts.json
  lock,    \* the call that holds session.lock
  pc,      \* where each call is
  client,  \* the registration each call works on
  view,    \* view[c]: the database as c loaded or last saved it
  answer,  \* answer[c]: the grant c was just given
  again,   \* again[c]: Credentials is on its second try
  told,    \* told[g]: what grant g says, [id, plan, valid]
  live,    \* grants whose refresh token the issuer still takes
  due,     \* grants whose access token is to be refreshed
  calls,   \* calls left
  shown,   \* grants whose access token a caller was given
  spent    \* clients whose latest refresh token no save could keep

saved == <<disk, lock>>
local == <<pc, client, view, answer, again>>
issuer == <<told, live, due>>
ghosts == <<shown, spent>>
vars == <<disk, lock, pc, client, view, answer, again, told, live, due, calls, shown, spent>>

\* An account: its revision, the grants of its tokens and of a refresh still to
\* be verified (0 is none), and whether an ID token was rejected.
Absent == [rev |-> 0]
EmptyDatabase == [active |-> Nobody, acct |-> [k \in Clients |-> Absent]]

Known(d, k) == k \in Clients /\ d.acct[k] # Absent
Issued == DOMAIN told

\* The refresh token a logout revokes and a refresh would use next.
RefreshToken(a) == IF a.pend # 0 THEN a.pend ELSE a.tok

(* Mutated: clearing the tokens leaves the revision alone. *)
ClearedQuietly(a) == [rev |-> a.rev, tok |-> 0, plan |-> FALSE, pend |-> 0, rejected |-> FALSE]

\* Signing out keeps the registration.
Cleared(a) == [rev |-> a.rev + 1, tok |-> 0, plan |-> FALSE, pend |-> 0, rejected |-> FALSE]

-----------------------------------------------------------------------------

\* The store is empty, or one registration was signed in earlier.
Init ==
  /\ \/ disk = EmptyDatabase /\ told = <<>> /\ live = {}
     \/ \E k \in Clients :
          /\ disk = [active |-> k, acct |-> [EmptyDatabase.acct EXCEPT ![k] =
                       [rev |-> 1, tok |-> 1, plan |-> TRUE, pend |-> 0, rejected |-> FALSE]]]
          /\ told = <<[id |-> "same", plan |-> TRUE, valid |-> TRUE]>> /\ live = {1}
  /\ lock = Nobody /\ pc = [c \in Calls |-> "idle"] /\ client = [c \in Calls |-> Nobody]
  /\ view = [c \in Calls |-> EmptyDatabase] /\ answer = [c \in Calls |-> 0]
  /\ again = [c \in Calls |-> FALSE] /\ due = {} /\ calls = MaxCalls /\ shown = {} /\ spent = {}

-----------------------------------------------------------------------------
Free == lock = Nobody

\* The call ends, with a result or with an error.
Idle(c) ==
  /\ pc' = [pc EXCEPT ![c] = "idle"] /\ client' = [client EXCEPT ![c] = Nobody]
  /\ answer' = [answer EXCEPT ![c] = 0] /\ again' = [again EXCEPT ![c] = FALSE]
  /\ view' = [view EXCEPT ![c] = EmptyDatabase]
Return(c) == Idle(c) /\ lock' = IF lock = c THEN Nobody ELSE lock

\* A call takes the lock, loads the file and selects k, the client it was
\* given or the active one; it goes on in place to.
Load(c, k, to) ==
  /\ Free /\ Known(disk, k)
  /\ lock' = c /\ pc' = [pc EXCEPT ![c] = to] /\ client' = [client EXCEPT ![c] = k]
  /\ view' = [view EXCEPT ![c] = disk]

Start(c) == pc[c] = "idle" /\ calls > 0 /\ calls' = calls - 1

\* What c would save: its own copy with client[c]'s account changed to a.
With(c, a) == [view[c] EXCEPT !.acct[client[c]] = a]
Mine(c) == view[c].acct[client[c]]

\* save: a new file, synced and renamed over accounts.json; it happens as a
\* whole or fails.
Save(c, d) == disk' = d
KeepsToken(c) == spent' = spent \ {client[c]}
DropsToken(c) == spent' = spent \cup {client[c]}

\* Give up with an unsaved grant in hand: nothing can recover it.
Abandon(c) ==
  /\ Return(c)
  /\ spent' = IF pc[c] = "wipe" \/ (answer[c] # 0 /\ Mine(c).pend = 0) THEN spent \cup {client[c]} ELSE spent

-----------------------------------------------------------------------------
\* credentials: the account as loaded either serves, or is refused, or is to
\* be refreshed.
Refused(a) == a.rejected \/ a.tok = 0 \/ ~a.plan
Usable(g) == told[g].valid
Serves(a) == a.pend = 0 /\ a.tok \notin due

\* No registration is found, the account is refused, or waiting for the lock
\* was cancelled.
CredentialsRefused(c) ==
  /\ \/ Start(c) /\ \E k \in Clients : Free /\ (Known(disk, k) => Refused(disk.acct[k]))
     \/ pc[c] = "again" /\ UNCHANGED calls
  /\ Return(c) /\ UNCHANGED <<disk, issuer, ghosts>>

CredentialsLoad(c, k) ==
  /\ \/ Start(c)
     \/ pc[c] = "again" /\ client[c] = k /\ UNCHANGED calls
  /\ Load(c, k, "ask") /\ ~Refused(disk.acct[k])
  /\ UNCHANGED <<disk, answer, again, issuer, ghosts>>

\* The access token is good for some time: no request is needed.
CredentialsServe(c) ==
  /\ pc[c] = "ask" /\ Serves(Mine(c))
  /\ shown' = shown \cup {Mine(c).tok}
  /\ Return(c) /\ UNCHANGED <<disk, issuer, calls, spent>>

\* A saved answer is taken up again; otherwise the refresh token is sent.
CredentialsRefresh(c) ==
  /\ pc[c] = "ask" /\ ~Serves(Mine(c))
  /\ pc' = [pc EXCEPT ![c] = IF Mine(c).pend # 0 THEN "verify" ELSE "post"]
  /\ answer' = [answer EXCEPT ![c] = Mine(c).pend]
  /\ UNCHANGED <<saved, client, view, again, issuer, calls, ghosts>>

\* The issuer makes a new grant.  It may age at once.
Grant(g, says) ==
  /\ g = Cardinality(Issued) + 1 /\ g <= MaxGrants
  /\ told' = [h \in 1..g |-> IF h = g THEN says ELSE told[h]]

\* The refresh request: the issuer answers and the old token is used up;
\* or the answer is lost on the way; or the request does not arrive.
IssuerAnswers(c) ==
  /\ pc[c] = "post" /\ Mine(c).tok \in live
  /\ \E says \in [id : Identities, plan : BOOLEAN, valid : BOOLEAN] :
       LET g == Cardinality(Issued) + 1 IN
       /\ Grant(g, says) /\ live' = (live \ {Mine(c).tok}) \cup {g}
       /\ \/ /\ pc' = [pc EXCEPT ![c] = "apply"] /\ answer' = [answer EXCEPT ![c] = g]
             /\ UNCHANGED <<lock, client, view, again, spent>>
          \/ Return(c) /\ DropsToken(c)
  /\ UNCHANGED <<disk, due, calls, shown>>

RequestFails(c) ==
  /\ pc[c] = "post" /\ Return(c)
  /\ UNCHANGED <<disk, issuer, calls, ghosts>>

\* The issuer refuses the refresh token for good: the account is signed out.
TerminalRefusal(c) ==
  /\ pc[c] = "post" /\ Mine(c).tok \notin live
  /\ Return(c)
  /\ \/ Save(c, With(c, Cleared(Mine(c)))) /\ KeepsToken(c)
     \/ UNCHANGED <<disk, spent>>
  /\ UNCHANGED <<issuer, calls, shown>>

(* Mutated: the answer is saved only once it is verified. *)
CredentialsApplyLate(c) ==
  /\ pc[c] = "apply" /\ Usable(answer[c])
  /\ pc' = [pc EXCEPT ![c] = IF told[answer[c]].id = "none" THEN "final" ELSE "verify"]
  /\ UNCHANGED <<saved, client, view, answer, again, issuer, calls, ghosts>>

\* An answer that is not usable is an error.  One with an ID token is saved
\* beside the account before the token is verified.
CredentialsApply(c) ==
  /\ pc[c] = "apply"
  /\ LET a == Mine(c)
         pending == [a EXCEPT !.pend = answer[c], !.rev = a.rev + 1]
     IN  \/ ~Usable(answer[c]) /\ Abandon(c) /\ UNCHANGED disk
         \/ /\ Usable(answer[c]) /\ told[answer[c]].id = "none"
            /\ pc' = [pc EXCEPT ![c] = "final"]
            /\ UNCHANGED <<saved, client, view, answer, again, spent>>
         \/ /\ Usable(answer[c]) /\ told[answer[c]].id # "none"
            /\ \/ /\ Save(c, With(c, pending)) /\ view' = [view EXCEPT ![c] = With(c, pending)]
                  /\ pc' = [pc EXCEPT ![c] = "verify"]
                  /\ UNCHANGED <<lock, client, answer, again, spent>>
               \/ Abandon(c) /\ UNCHANGED disk
  /\ UNCHANGED <<issuer, calls, shown>>

\* The identity of the answer, checked as of its receipt: the signing keys
\* may be out of reach, an identity that is not the account's blocks it.
CredentialsVerify(c) ==
  /\ pc[c] = "verify"
  /\ \/ Return(c) /\ UNCHANGED <<disk, ghosts>>
     \/ /\ told[answer[c]].id = "same" /\ pc' = [pc EXCEPT ![c] = "final"]
        /\ UNCHANGED <<saved, client, view, answer, again, ghosts>>
     \/ /\ told[answer[c]].id = "other"
        /\ Return(c) /\ UNCHANGED ghosts
        /\ \/ Save(c, With(c, [Mine(c) EXCEPT !.rejected = TRUE, !.rev = @ + 1]))
           \/ UNCHANGED disk
  /\ UNCHANGED <<issuer, calls>>

\* The replacement is saved whatever became of the call, then given out if
\* the grant still allows it; one that aged meanwhile is refreshed once more.
CredentialsFinal(c) ==
  /\ pc[c] = "final"
  /\ LET g == answer[c]
         rotated == [Mine(c) EXCEPT !.tok = g, !.plan = told[g].plan, !.pend = 0, !.rev = @ + 1]
     IN  \/ Abandon(c) /\ UNCHANGED <<disk, shown>>
         \/ /\ Save(c, With(c, rotated)) /\ UNCHANGED spent
            /\ \/ Return(c) /\ UNCHANGED shown \* cancelled, or refused below
               \/ told[g].plan /\ g \notin due /\ Return(c) /\ shown' = shown \cup {g}
               \/ /\ told[g].plan /\ g \in due /\ ~again[c]
                  /\ pc' = [pc EXCEPT ![c] = "again"] /\ again' = [again EXCEPT ![c] = TRUE]
                  /\ lock' = Nobody /\ answer' = [answer EXCEPT ![c] = 0]
                  /\ UNCHANGED <<client, view, shown>>
  /\ UNCHANGED <<issuer, calls>>

-----------------------------------------------------------------------------
\* Logout: the session is revoked first, in up to three tries, and the tokens
\* are cleared whether or not the issuer confirmed.
LogoutLoad(c, k) == Start(c) /\ Load(c, k, "revoke") /\ UNCHANGED <<disk, answer, again, issuer, ghosts>>

Revoke(c) ==
  /\ pc[c] = "revoke" /\ pc' = [pc EXCEPT ![c] = "wipe"]
  /\ \/ UNCHANGED live
     \/ live' = live \ {RefreshToken(Mine(c))}
  /\ UNCHANGED <<saved, client, view, answer, again, told, due, calls, ghosts>>

\* Clear: what Logout does without a request.
ClearLoad(c, k) == Start(c) /\ Load(c, k, "wipe") /\ UNCHANGED <<disk, answer, again, issuer, ghosts>>

Wipe(c) ==
  /\ pc[c] = "wipe"
  /\ \/ Save(c, With(c, Cleared(Mine(c)))) /\ Return(c) /\ KeepsToken(c)
     \/ Abandon(c) /\ UNCHANGED disk
  /\ UNCHANGED <<issuer, calls, shown>>

\* Select: only the active registration changes.
Select(c, k) ==
  /\ Start(c) /\ Free /\ Known(disk, k) /\ Save(c, [disk EXCEPT !.active = k])
  /\ UNCHANGED <<lock, local, issuer, ghosts>>

-----------------------------------------------------------------------------
\* Login: the host id and the registration to sign in again are read under
\* the lock, which is then given up for as long as the browser takes.
LoginBegin(c, k) ==
  /\ Start(c) /\ Free /\ (k = Nobody \/ Known(disk, k))
  /\ pc' = [pc EXCEPT ![c] = "browser"] /\ client' = [client EXCEPT ![c] = k]
  /\ view' = [view EXCEPT ![c] = disk]
  /\ UNCHANGED <<saved, answer, again, issuer, ghosts>>

\* No session comes of it: declined, refused, timed out, or a verified
\* identity that is not the registration's.
LoginFails(c) ==
  /\ pc[c] = "browser" /\ Return(c)
  /\ UNCHANGED <<disk, issuer, calls, ghosts>>

\* Login replaces a registration only if nobody else did since it began.
Unchanged(now, before) == now.rev = before.rev

\* What a sign-in saves: the client becomes the active one.
SignedIn(d, k, g) ==
  [active |-> k, acct |-> [d.acct EXCEPT ![k] =
     [rev |-> @.rev + 1, tok |-> g, plan |-> told'[g].plan, pend |-> 0, rejected |-> FALSE]]]

\* The code is exchanged for a verified grant, and the lock taken again.
LoginCommit(c, k) ==
  /\ pc[c] = "browser" /\ Free
  /\ client[c] \in {Nobody, k}
  /\ \E says \in [id : {"same"}, plan : BOOLEAN, valid : {TRUE}] :
       LET g == Cardinality(Issued) + 1 IN
       /\ Grant(g, says) /\ live' = live \cup {g}
       /\ LET ok == IF client[c] = Nobody THEN ~Known(disk, k) ELSE Unchanged(disk.acct[k], Mine(c))
          IN  \/ ok /\ Save(c, SignedIn(disk, k, g)) /\ spent' = spent \ {k}
              \/ UNCHANGED <<disk, spent>> \* changed meanwhile, or not saved
  /\ Return(c) /\ UNCHANGED <<due, calls, shown>>

-----------------------------------------------------------------------------
\* The process of the call dies: the lock goes with it.
Crash(c) == pc[c] # "idle" /\ Abandon(c) /\ UNCHANGED <<disk, issuer, calls, shown>>

Age(g) == g \in Issued \ due /\ due' = due \cup {g} /\ UNCHANGED <<saved, local, told, live, calls, ghosts>>

Credentials(c) ==
  \/ CredentialsRefused(c) \/ CredentialsServe(c) \/ CredentialsRefresh(c)
  \/ IssuerAnswers(c) \/ RequestFails(c) \/ TerminalRefusal(c)
  \/ CredentialsApply(c) \/ CredentialsVerify(c) \/ CredentialsFinal(c)
  \/ \E k \in Clients : CredentialsLoad(c, k)

Next ==
  \/ \E c \in Calls : Credentials(c) \/ Revoke(c) \/ Wipe(c) \/ LoginFails(c) \/ Crash(c)
  \/ \E c \in Calls, k \in Clients : LogoutLoad(c, k) \/ ClearLoad(c, k) \/ Select(c, k) \/ LoginCommit(c, k)
  \/ \E c \in Calls, k \in Clients \cup {Nobody} : LoginBegin(c, k)
  \/ \E g \in Grants : Age(g)

Spec == Init /\ [][Next]_vars

-----------------------------------------------------------------------------
(***************************************************************************)
(* Properties                                                              *)
(***************************************************************************)

\* A signed-in account can always be refreshed: the token the next refresh
\* would send is one the issuer takes, or the call that holds the lock is
\* between using it up and saving its replacement.  The only ways to lose a
\* session are the ones no save can prevent: an answer lost on the way, one
\* that is malformed, a crash or a failed save with the answer in hand, and a
\* logout cut short after the revocation.
SessionKept ==
  \A k \in Clients :
    LET a == disk.acct[k] IN
    a # Absent /\ a.tok # 0 =>
      \/ RefreshToken(a) \in live
      \/ k \in spent
      \/ lock # Nobody /\ client[lock] = k /\ (answer[lock] # 0 \/ pc[lock] = "wipe")

\* No caller is given an access token whose ID token names somebody else, and
\* only such an ID token blocks an account until the next sign-in: an outage
\* of the signing keys, however long, does not.
IdentityJudged ==
  /\ \A g \in shown : told[g].id # "other"
  /\ \A k \in Clients : disk.acct[k] # Absent /\ disk.acct[k].rejected =>
       disk.acct[k].pend # 0 /\ told[disk.acct[k].pend].id = "other"

\* Whatever a call replaces in accounts.json is what it had seen there: a sign-in
\* that spent minutes in the browser does not undo the logout, the refresh
\* or the other sign-in that happened meanwhile.
NoLostUpdate ==
  [][\A k \in Clients : disk'.acct[k] # disk.acct[k] =>
       \E c \in Calls : pc[c] # pc'[c] /\ view[c].acct[k] = disk.acct[k]]_vars

\* An account stays usable: its session is kept and only a foreign ID token
\* blocks it.
AccountUsable == SessionKept /\ IdentityJudged
=============================================================================
