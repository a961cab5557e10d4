------------------------------ MODULE Sessions ------------------------------
(***************************************************************************)
(* The sessions of one account: what creates them (password, 2FA, passkey  *)
(* and exchange-code logins share one tail), what rotates them (refresh)   *)
(* and what takes them away (eviction at the cap, logout, revocation,      *)
(* suspension, password reset, the hourly cleanup).  Accounts do not share *)
(* state.  A handler is a sequence of steps, one per awaited query; a      *)
(* request that fails a check is not a step.  The tokens of one session    *)
(* are the subject of RefreshRotation.  A passkey is the row of a public   *)
(* key; whether a signature verifies is left to chance, and its counter,   *)
(* which only tells cloned keys apart, is left out.                        *)
(***************************************************************************)
EXTENDS Integers, Sequences, FiniteSets

CONSTANTS
  Cap,          \* MAX_SESSIONS_PER_USER
  Handlers,     \* bound: requests in flight at once
  MaxSessions,  \* bound: logins
  MaxPasswords, \* bound: password changes and resets
  MaxKeys       \* bound: passkeys registered

ASSUME SessionsAssumption ==
  /\ Cap \in Nat \ {0}
  /\ Handlers # {} /\ IsFiniteSet(Handlers)
  /\ MaxSessions \in Nat
  /\ MaxPasswords \in Nat
  /\ MaxKeys \in Nat

VARIABLES
  status,    \* of the account
  password,  \* which password the account has: the first, the second, ...
  resetTo,   \* the password the last reset set, 0 before any
  created,   \* sessions ever created; they are numbered in createdAt order
  sessions,  \* those that exist
  expired,   \* those past expiresAt
  proved,    \* proved[s]: the password the login of session s presented, or 0
  made,      \* passkeys ever registered; each is a new key of a device
  keys,      \* those registered now
  req        \* the request each handler is serving

account == <<status, password, resetTo>>
rows == <<created, sessions, expired, proved>>
passkeys == <<made, keys>>
vars == <<account, rows, passkeys, req>>

Idle == [at |-> "idle", proof |-> 0, doomed |-> {}, session |-> 0, key |-> 0]

LoginSteps == {"code", "signed", "issue", "list", "evict", "create"}
RefreshSteps == {"status", "rotate"}
Steps == LoginSteps \cup RefreshSteps \cup {"idle", "purge", "reset", "change"}

At(p, step) == req[p].at = step
Goto(p, step) == req' = [req EXCEPT ![p].at = step]
Done(p) == req' = [req EXCEPT ![p] = Idle]
Begin(p, r) == At(p, "idle") /\ req' = [req EXCEPT ![p] = r]

\* The bounds leave room for every request that is under way.
Busy(steps) == Cardinality({p \in Handlers : req[p].at \in steps})
LoginsLeft == created + Busy(LoginSteps) < MaxSessions
PasswordsLeft == password + Busy({"reset", "change"}) < MaxPasswords

\* A query that deletes the sessions S, those of them that exist.
Remove(S) ==
  /\ sessions' = sessions \ S
  /\ expired' = expired \ S
  /\ UNCHANGED <<created, proved>>

Init ==
  /\ status = "active"
  /\ password = 1
  /\ resetTo = 0
  /\ created = 0
  /\ sessions = {}
  /\ expired = {}
  /\ proved = <<>>
  /\ made = 0
  /\ keys = {}
  /\ req = [p \in Handlers |-> Idle]

-----------------------------------------------------------------------------
(* Logging in *)

\* The user row is read, the password and the status are checked; with 2FA,
\* which the account may have or not, the answer is a temporary token.
LoginBegin(p) ==
  /\ LoginsLeft
  /\ status = "active"
  /\ \E next \in {"code", "list"} :
       Begin(p, [Idle EXCEPT !.at = next, !.proof = password])
  /\ UNCHANGED <<account, rows, passkeys>>

\* No password is proved.
OtherLoginBegin(p) ==
  /\ LoginsLeft
  /\ status = "active"
  /\ Begin(p, [Idle EXCEPT !.at = "list"])
  /\ UNCHANGED <<account, rows, passkeys>>

\* Google's callback opens a session to end it at once (Logout, or not if
\* something fails), the exchange of the code it hands out opens the one that
\* is kept.
GoogleLoginBegin(p) == OtherLoginBegin(p)
ExchangeBegin(p) == OtherLoginBegin(p)

\* The code arrives with the temporary token, the user row is read again.
CodeAccepted(p) ==
  /\ At(p, "code")
  /\ status = "active"
  /\ Goto(p, "list")
  /\ UNCHANGED <<account, rows, passkeys>>

\* The token expires, or five wrong codes burn it.
CodeAbandoned(p) ==
  /\ At(p, "code")
  /\ Done(p)
  /\ UNCHANGED <<account, rows, passkeys>>

Oldest(n) == {s \in sessions : Cardinality({t \in sessions : t < s}) < n}

\* Reads the sessions and picks the oldest, so that `keep` stay.
MakeRoom(p, keep) ==
  req' = [req EXCEPT ![p].at = "evict", ![p].key = 0,
                     ![p].doomed = Oldest(Cardinality(sessions) - keep)]

\* Mutant: makes room for nobody, keeping Cap sessions beside the new one.
ListKeepsCap(p) ==
  /\ At(p, "list")
  /\ MakeRoom(p, Cap)
  /\ UNCHANGED <<account, rows, passkeys>>

\* enforceSessionLimit: make room for one session.
ListSessions(p) ==
  /\ At(p, "list")
  /\ MakeRoom(p, Cap - 1)
  /\ UNCHANGED <<account, rows, passkeys>>

EvictSessions(p) ==
  /\ At(p, "evict")
  /\ Remove(req[p].doomed)
  /\ Goto(p, "create")
  /\ UNCHANGED <<account, passkeys>>

CreateSession(p) ==
  /\ At(p, "create")
  /\ created' = created + 1
  /\ sessions' = sessions \cup {created + 1}
  /\ proved' = Append(proved, req[p].proof)
  /\ Done(p)
  /\ UNCHANGED <<account, expired, passkeys>>

-----------------------------------------------------------------------------
(* Passkeys *)

\* A signed-in user's device made a new key, so no other row has its id.
RegisterPasskey ==
  /\ made < MaxKeys
  /\ status = "active"
  /\ made' = made + 1
  /\ keys' = keys \cup {made + 1}
  /\ UNCHANGED <<account, rows, req>>

RemovePasskey(k) ==
  /\ k \in keys
  /\ status = "active"
  /\ keys' = keys \ {k}
  /\ UNCHANGED <<account, rows, made, req>>

\* The key and its user are read, the signature verifies.
PasskeyBegin(p, k) ==
  /\ LoginsLeft
  /\ k \in keys
  /\ status = "active"
  /\ Begin(p, [Idle EXCEPT !.at = "signed", !.key = k])
  /\ UNCHANGED <<account, rows, passkeys>>

\* Mutant: an upsert.
CountUpserts(p) ==
  /\ At(p, "signed")
  /\ keys' = keys \cup {req[p].key}
  /\ Goto(p, "issue")
  /\ UNCHANGED <<account, rows, made>>

\* credential.update: it throws when the key was removed meanwhile.
CountSignature(p) ==
  /\ At(p, "signed")
  /\ IF req[p].key \in keys THEN Goto(p, "issue") ELSE Done(p)
  /\ UNCHANGED <<account, rows, passkeys>>

\* issueSession keeps the policy of the other logins in a copy of its own.
IssueSession(p) ==
  /\ At(p, "issue")
  /\ MakeRoom(p, Cap - 1)
  /\ UNCHANGED <<account, rows, passkeys>>

-----------------------------------------------------------------------------
(* Refreshing *)

\* The session is found, the token matches and has not expired.
RefreshBegin(p, s) ==
  /\ s \in sessions \ expired
  /\ Begin(p, [Idle EXCEPT !.at = "status", !.session = s])
  /\ UNCHANGED <<account, rows, passkeys>>

RefreshStatus(p) ==
  /\ At(p, "status")
  /\ IF status = "active"
     THEN Goto(p, "rotate") /\ UNCHANGED rows
     ELSE Done(p) /\ Remove({req[p].session})
  /\ UNCHANGED <<account, passkeys>>

\* Mutant: an upsert.
RotateUpserts(p) ==
  /\ At(p, "rotate")
  /\ sessions' = sessions \cup {req[p].session}
  /\ expired' = expired \ {req[p].session}
  /\ Done(p)
  /\ UNCHANGED <<account, created, proved, passkeys>>

\* session.update by id gives the session new tokens and a new expiry; it
\* throws when the session has gone.
RefreshRotate(p) ==
  /\ At(p, "rotate")
  /\ expired' = expired \ {req[p].session}
  /\ Done(p)
  /\ UNCHANGED <<account, created, sessions, proved, passkeys>>

-----------------------------------------------------------------------------
(* Ending sessions *)

EndSession(s) ==
  /\ s \in sessions
  /\ Remove({s})
  /\ UNCHANGED <<account, passkeys, req>>

\* The cookie's token, which expires with the session, is all logout asks for.
Logout(s) == s \notin expired /\ EndSession(s)

\* A refresh with a token that is neither the current nor the previous one.
RefreshMismatch(s) == s \notin expired /\ EndSession(s)

\* DELETE /user/sessions/:id, by the user, whose guard checks the status.
RevokeSession(s) == status = "active" /\ EndSession(s)

\* DELETE /admin/sessions/:id.
AdminDeleteSession(s) == EndSession(s)

\* All but the session the caller's cookie names, which may be none.
RevokeOthers(s) ==
  /\ sessions # {}
  /\ status = "active"
  /\ Remove(sessions \ {s})
  /\ UNCHANGED <<account, passkeys, req>>

Expire(s) ==
  /\ s \in sessions
  /\ expired' = expired \cup {s}
  /\ UNCHANGED <<account, created, sessions, proved, req, passkeys>>

Cleanup ==
  /\ expired # {}
  /\ Remove(expired)
  /\ UNCHANGED <<account, req, passkeys>>

-----------------------------------------------------------------------------
(* Suspension, PATCH /admin/users/:id/status *)

\* Mutant: the sessions are left to expire.
SuspendStatusOnly(p) ==
  /\ At(p, "idle")
  /\ status' = "suspended"
  /\ UNCHANGED <<password, resetTo, rows, req, passkeys>>

Suspend(p) ==
  /\ Begin(p, [Idle EXCEPT !.at = "purge"])
  /\ status' = "suspended"
  /\ UNCHANGED <<password, resetTo, rows, passkeys>>

SuspendPurge(p) ==
  /\ At(p, "purge")
  /\ Remove(sessions)
  /\ Done(p)
  /\ UNCHANGED <<account, passkeys>>

Activate ==
  /\ status = "suspended"
  /\ status' = "active"
  /\ UNCHANGED <<password, resetTo, rows, req, passkeys>>

-----------------------------------------------------------------------------
(* Passwords *)

\* The reset token is consumed; hashing follows.
ResetBegin(p) ==
  /\ PasswordsLeft
  /\ Begin(p, [Idle EXCEPT !.at = "reset"])
  /\ UNCHANGED <<account, rows, passkeys>>

\* Mutant: the transaction forgets the password.
ResetKeepsPassword(p) ==
  /\ At(p, "reset")
  /\ resetTo' = password + 1
  /\ Remove(sessions)
  /\ Done(p)
  /\ UNCHANGED <<status, password, passkeys>>

\* Mutant: the sessions stay.
ResetKeepsSessions(p) ==
  /\ At(p, "reset")
  /\ password' = password + 1
  /\ resetTo' = password + 1
  /\ Done(p)
  /\ UNCHANGED <<status, rows, passkeys>>

\* One transaction sets the password and deletes every session.
ResetCommit(p) ==
  /\ At(p, "reset")
  /\ password' = password + 1
  /\ resetTo' = password + 1
  /\ Remove(sessions)
  /\ Done(p)
  /\ UNCHANGED <<status, passkeys>>

\* The access token outlives the session; its guard checks the status.
ChangeBegin(p) ==
  /\ PasswordsLeft
  /\ status = "active"
  /\ Begin(p, [Idle EXCEPT !.at = "change"])
  /\ UNCHANGED <<account, rows, passkeys>>

\* changePassword leaves the sessions alone.
ChangeCommit(p) ==
  /\ At(p, "change")
  /\ password' = password + 1
  /\ Done(p)
  /\ UNCHANGED <<status, resetTo, rows, passkeys>>

-----------------------------------------------------------------------------

Next ==
  \/ \E p \in Handlers :
       \/ LoginBegin(p) \/ CodeAccepted(p) \/ CodeAbandoned(p)
       \/ GoogleLoginBegin(p) \/ ExchangeBegin(p)
       \/ \E k \in keys : PasskeyBegin(p, k)
       \/ CountSignature(p) \/ IssueSession(p)
       \/ ListSessions(p) \/ EvictSessions(p) \/ CreateSession(p)
       \/ \E s \in sessions : RefreshBegin(p, s)
       \/ RefreshStatus(p) \/ RefreshRotate(p)
       \/ Suspend(p) \/ SuspendPurge(p)
       \/ ResetBegin(p) \/ ResetCommit(p)
       \/ ChangeBegin(p) \/ ChangeCommit(p)
  \/ RegisterPasskey
  \/ \E k \in keys : RemovePasskey(k)
  \/ \E s \in sessions :
       \/ Logout(s) \/ RefreshMismatch(s)
       \/ RevokeSession(s) \/ AdminDeleteSession(s)
       \/ Expire(s)
  \/ \E s \in 0..created : RevokeOthers(s)
  \/ Cleanup
  \/ Activate

Spec == Init /\ [][Next]_vars

-----------------------------------------------------------------------------
(* Properties *)

Request == [at : Steps, proof : 0..password, doomed : SUBSET (1..created),
            session : 0..created, key : 0..made]

\* Type invariant; a refresh names the session it found, and a passkey login
\* the key, until it makes room.
TypeOK ==
  /\ status \in {"active", "suspended"}
  /\ password \in Nat \ {0} /\ resetTo \in 0..password
  /\ created \in Nat
  /\ sessions \in SUBSET (1..created) /\ expired \in SUBSET sessions
  /\ proved \in Seq(0..password) /\ Len(proved) = created
  /\ made \in Nat /\ keys \in SUBSET (1..made)
  /\ req \in [Handlers -> Request]
  /\ \A p \in Handlers :
       /\ req[p].at \in RefreshSteps <=> req[p].session # 0
       /\ req[p].at \in {"signed", "issue"} <=> req[p].key # 0

\* However logins interleave with each other and with everything that ends
\* sessions, each login beyond the first adds at most one session to the cap
\* (enforceSessionLimit reads, then deletes, then the caller inserts).
CapNearlyHeld == Cardinality(sessions) < Cap + Cardinality(Handlers)

\* "Reset password (invalidates all sessions)": a session opened with a password
\* that a reset has replaced is that of a login the reset overtook, and there
\* are as many as requests may be under way beside it (resetPassword deletes
\* the sessions there are; with 2FA a login takes minutes).
StaleLoginsBounded ==
  Cardinality({s \in sessions : proved[s] \in 1..(resetTo - 1)})
    < Cardinality(Handlers)

\* A session that is gone stays gone: a refresh that found it before it was
\* logged out, revoked, evicted, suspended or reset does not bring it back; nor
\* does a sign-in that found a passkey before it was removed (both updates are
\* by id).
GoneForGood ==
  [][/\ \A s \in 1..created : s \notin sessions => s \notin sessions'
     /\ \A k \in 1..made : k \notin keys => k \notin keys']_vars

\* A suspended account gets new tokens only while the suspension is still
\* being carried out: the refreshes that passed the status check before lose
\* their session to it (updateUserStatus: status first, sessions second).
SuspensionStopsRefresh ==
  [][\A p \in Handlers :
       /\ At(p, "rotate") /\ req'[p].at = "idle"
       /\ req[p].session \in sessions
       /\ status = "suspended"
       => \E q \in Handlers : At(q, "purge")]_vars
=============================================================================
