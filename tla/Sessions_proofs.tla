--------------------------- MODULE Sessions_proofs ---------------------------
(***************************************************************************)
(* Proofs about Sessions, for any cap, any number of requests at once, of  *)
(* logins, password changes and passkeys; and about the refresh tokens of  *)
(* one session (RefreshRotation), for any number of requests, any grace    *)
(* period and any time.                                                    *)
(***************************************************************************)
EXTENDS Sessions, RefreshRotation, FiniteSetTheorems, WellFoundedInduction, TLAPS

\* The parts of the type invariant: what is not about requests, and what is.
RowsOK ==
  /\ status \in {"active", "suspended"}
  /\ password \in Nat \ {0} /\ resetTo \in 0..password
  /\ created \in Nat
  /\ sessions \in SUBSET (1..created) /\ expired \in SUBSET sessions
  /\ proved \in Seq(0..password) /\ Len(proved) = created
  /\ made \in Nat /\ keys \in SUBSET (1..made)

\* A refresh names a session, a passkey login a key.
Named(r) ==
  /\ r.at \in RefreshSteps <=> r.session # 0
  /\ r.at \in {"signed", "issue"} <=> r.key # 0

RequestsOK ==
  /\ req \in [Handlers -> Request]
  /\ \A p \in Handlers : Named(req[p])

\* What only grows: passwords, sessions and keys are numbered.
Grow ==
  /\ password' \in Nat /\ password <= password'
  /\ created' \in Nat /\ created <= created'
  /\ made' \in Nat /\ made <= made'

\* The type invariant is both parts.
LEMMA TypeParts == TypeOK <=> RowsOK /\ RequestsOK
BY DEF TypeOK, RowsOK, RequestsOK, Named

-----------------------------------------------------------------------------
(* How a request goes on *)

\* A request that could be then can be now.
LEMMA RequestGrows ==
  ASSUME RowsOK, Grow
  PROVE  Request \subseteq Request'
<1>1. 0..password \subseteq 0..password' /\ 1..created \subseteq 1..created'
      /\ 0..created \subseteq 0..created' /\ 0..made \subseteq 0..made'
  BY DEF RowsOK, Grow
<1>2. SUBSET (1..created) \subseteq SUBSET (1..created')
  BY <1>1
<1>3. QED
  BY <1>1, <1>2 DEF Request

\* One request goes on as another that could be.
LEMMA Moves ==
  ASSUME RowsOK, RequestsOK, Grow, NEW p \in Handlers, NEW x \in Request, Named(x),
         req' = [req EXCEPT ![p] = x]
  PROVE  RequestsOK'
<1>1. \A q \in Handlers : req'[q] \in Request'
  BY RequestGrows DEF RequestsOK
<1>2. \A q \in Handlers : Named(req'[q])
  BY DEF RequestsOK
<1>3. req' \in [Handlers -> Request']
  BY <1>1 DEF RequestsOK
<1>4. QED
  BY <1>2, <1>3 DEF RequestsOK, Named

\* The requests are left alone.
LEMMA Stays ==
  ASSUME RowsOK, RequestsOK, Grow, UNCHANGED req
  PROVE  RequestsOK'
BY RequestGrows DEF RequestsOK, Named

\* A handler that serves no request.
LEMMA IdleNamed ==
  ASSUME RowsOK
  PROVE  Idle \in Request /\ Named(Idle)
BY DEF RowsOK, Idle, Request, Steps, LoginSteps, RefreshSteps, Named

\* A request is over.
LEMMA Ends ==
  ASSUME RowsOK, RequestsOK, Grow, NEW p \in Handlers, Done(p)
  PROVE  RequestsOK'
BY IdleNamed, Moves DEF Done

\* A request comes in.
LEMMA Begins ==
  ASSUME RowsOK, RequestsOK, Grow, NEW p \in Handlers,
         NEW x \in Request, Named(x), Begin(p, x)
  PROVE  RequestsOK'
BY Moves DEF Begin

\* A request takes its next step, which needs the session or the key as the last did.
LEMMA GoesOn ==
  ASSUME RowsOK, RequestsOK, Grow, NEW p \in Handlers, NEW step \in Steps,
         Goto(p, step),
         step \in RefreshSteps <=> req[p].at \in RefreshSteps,
         step \in {"signed", "issue"} <=> req[p].at \in {"signed", "issue"}
  PROVE  RequestsOK'
<1> DEFINE x == [req[p] EXCEPT !.at = step]
<1>1. req' = [req EXCEPT ![p] = x]
  BY DEF Goto, RequestsOK
<1>2. req[p] \in Request /\ Named(req[p])
  BY DEF RequestsOK
<1>3. x \in Request
  BY <1>2 DEF Request
<1>4. x.at = step /\ x.session = req[p].session /\ x.key = req[p].key
  BY <1>2 DEF Request
<1> HIDE DEF x
<1>5. Named(x)
  BY <1>2, <1>4 DEF Named
<1>6. QED
  BY <1>1, <1>3, <1>5, Moves

\* What is evicted are sessions.
LEMMA RoomMade ==
  ASSUME RowsOK, RequestsOK, Grow, NEW p \in Handlers, NEW n,
         req[p].at \in {"list", "issue"}, MakeRoom(p, n)
  PROVE  RequestsOK'
<1> DEFINE D == Oldest(Cardinality(sessions) - n)
           x == [req[p] EXCEPT !.at = "evict", !.key = 0, !.doomed = D]
<1>1. D \in SUBSET (1..created)
  BY DEF Oldest, RowsOK
<1>2. req[p] \in Request /\ Named(req[p])
  BY DEF RequestsOK
<1>3. req[p].session = 0
  BY <1>2 DEF Named, RefreshSteps
<1>4. req' = [req EXCEPT ![p] = x]
  BY DEF MakeRoom, RequestsOK
<1> HIDE DEF D
<1>5. x \in Request
  <2>1. "evict" \in Steps /\ 0 \in 0..made
    BY DEF Steps, LoginSteps, RowsOK
  <2>2. [req[p] EXCEPT !.at = "evict", !.key = 0] \in Request
    BY <1>2, <2>1 DEF Request
  <2>3. QED
    BY <1>1, <2>2 DEF Request
<1>6. x.at = "evict" /\ x.session = req[p].session /\ x.key = 0
  BY <1>1, <1>2 DEF Request
<1> HIDE DEF x
<1>7. Named(x)
  BY <1>3, <1>6 DEF Named, RefreshSteps
<1>8. QED
  BY <1>4, <1>5, <1>7, Moves

-----------------------------------------------------------------------------
(* The type invariant *)

\* The initial states are well typed.
LEMMA InitType == Init => TypeOK
<1> SUFFICES ASSUME Init PROVE TypeOK
  OBVIOUS
<1>1. RowsOK
  BY DEF Init, RowsOK
<1>2. RequestsOK
  <2>1. \A p \in Handlers : req[p] = Idle
    BY DEF Init
  <2>2. req \in [Handlers -> Request]
    BY <1>1, IdleNamed DEF Init
  <2>3. QED
    BY <1>1, <2>1, <2>2, IdleNamed DEF RequestsOK
<1>3. QED
  BY <1>1, <1>2, TypeParts

\* A query that deletes sessions keeps the rows' types.
LEMMA Removed ==
  ASSUME RowsOK, NEW S, Remove(S), UNCHANGED <<status, password, resetTo, passkeys>>
  PROVE  RowsOK' /\ Grow
<1>1. sessions' \subseteq sessions /\ expired' \subseteq sessions'
  BY DEF Remove, RowsOK
<1>2. UNCHANGED <<status, password, resetTo, created, proved, made, keys>>
  BY DEF Remove, passkeys
<1>3. QED
  BY <1>1, <1>2 DEF RowsOK, Grow

\* So does a step that writes nothing.
LEMMA NothingWritten ==
  ASSUME RowsOK, UNCHANGED <<account, rows, passkeys>>
  PROVE  RowsOK' /\ Grow
BY DEF RowsOK, Grow, account, rows, passkeys

\* The requests that begin.
LEMMA FirstRequests ==
  ASSUME RowsOK
  PROVE  /\ \A at \in {"code", "list"} :
              LET x == [Idle EXCEPT !.at = at, !.proof = password]
              IN  x \in Request /\ Named(x)
         /\ \A at \in {"list", "purge", "reset", "change"} :
              LET x == [Idle EXCEPT !.at = at]
              IN  x \in Request /\ Named(x)
         /\ \A k \in keys :
              LET x == [Idle EXCEPT !.at = "signed", !.key = k]
              IN  x \in Request /\ Named(x)
         /\ \A s \in sessions :
              LET x == [Idle EXCEPT !.at = "status", !.session = s]
              IN  x \in Request /\ Named(x)
<1>1. ASSUME NEW at \in {"code", "list"}
      PROVE  LET x == [Idle EXCEPT !.at = at, !.proof = password]
             IN  x \in Request /\ Named(x)
  <2> DEFINE y == [Idle EXCEPT !.at = at]
             x == [y EXCEPT !.proof = password]
  <2>1. y \in Request /\ y.at = at /\ y.session = 0 /\ y.key = 0
    BY DEF RowsOK, Idle, Request, Steps, LoginSteps, RefreshSteps
  <2>2. password \in 0..password
    BY DEF RowsOK
  <2> HIDE DEF y
  <2>3. x \in Request
    BY <2>1, <2>2 DEF Request
  <2>4. x.at = y.at /\ x.session = y.session /\ x.key = y.key
    BY <2>1 DEF Request
  <2> HIDE DEF x
  <2>5. x \in Request /\ Named(x)
    BY <2>1, <2>2, <2>3, <2>4 DEF Named, RefreshSteps, RowsOK
  <2>6. QED
    BY <2>5 DEF x, y
<1>2. ASSUME NEW at \in {"list", "purge", "reset", "change"}
      PROVE  LET x == [Idle EXCEPT !.at = at] IN x \in Request /\ Named(x)
  BY DEF RowsOK, Idle, Request, Steps, LoginSteps, RefreshSteps, Named
<1>3. ASSUME NEW k \in keys
      PROVE  LET x == [Idle EXCEPT !.at = "signed", !.key = k]
             IN  x \in Request /\ Named(x)
  <2> DEFINE y == [Idle EXCEPT !.at = "signed"]
             x == [y EXCEPT !.key = k]
  <2>1. y \in Request /\ y.at = "signed" /\ y.session = 0 /\ y.key = 0
    BY DEF RowsOK, Idle, Request, Steps, LoginSteps, RefreshSteps
  <2>2. k \in 1..made
    BY DEF RowsOK
  <2> HIDE DEF y
  <2>3. x \in Request
    BY <2>1, <2>2 DEF Request
  <2>4. x.at = y.at /\ x.session = y.session /\ x.key = k
    BY <2>1 DEF Request
  <2> HIDE DEF x
  <2>5. x \in Request /\ Named(x)
    BY <2>1, <2>2, <2>3, <2>4 DEF Named, RefreshSteps, RowsOK
  <2>6. QED
    BY <2>5 DEF x, y
<1>4. ASSUME NEW s \in sessions
      PROVE  LET x == [Idle EXCEPT !.at = "status", !.session = s]
             IN  x \in Request /\ Named(x)
  <2> DEFINE y == [Idle EXCEPT !.at = "status"]
             x == [y EXCEPT !.session = s]
  <2>1. y \in Request /\ y.at = "status" /\ y.session = 0 /\ y.key = 0
    BY DEF RowsOK, Idle, Request, Steps, LoginSteps, RefreshSteps
  <2>2. s \in 1..created
    BY DEF RowsOK
  <2> HIDE DEF y
  <2>3. x \in Request
    BY <2>1, <2>2 DEF Request
  <2>4. x.at = y.at /\ x.session = s /\ x.key = y.key
    BY <2>1 DEF Request
  <2> HIDE DEF x
  <2>5. x \in Request /\ Named(x)
    BY <2>1, <2>2, <2>3, <2>4 DEF Named, RefreshSteps, RowsOK
  <2>6. QED
    BY <2>5 DEF x, y
<1>5. QED
  BY <1>1, <1>2, <1>3, <1>4

\* The first steps of the logins, and of what else is a request.
LEMMA BeginSteps ==
  ASSUME RowsOK, RequestsOK, NEW p \in Handlers,
         \/ LoginBegin(p) \/ OtherLoginBegin(p)
         \/ \E k \in keys : PasskeyBegin(p, k)
         \/ \E s \in sessions : RefreshBegin(p, s)
         \/ ResetBegin(p) \/ ChangeBegin(p)
  PROVE  RowsOK' /\ RequestsOK'
<1>1. RowsOK' /\ Grow
  BY NothingWritten
     DEF LoginBegin, OtherLoginBegin, PasskeyBegin, RefreshBegin, ResetBegin, ChangeBegin
<1>2. PICK x : Begin(p, x) /\ x \in Request /\ Named(x)
  <2>1. CASE LoginBegin(p)
    BY <2>1, FirstRequests DEF LoginBegin, RowsOK
  <2>2. CASE OtherLoginBegin(p)
    BY <2>2, FirstRequests DEF OtherLoginBegin
  <2>3. CASE \E k \in keys : PasskeyBegin(p, k)
    BY <2>3, FirstRequests DEF PasskeyBegin
  <2>4. CASE \E s \in sessions : RefreshBegin(p, s)
    BY <2>4, FirstRequests DEF RefreshBegin
  <2>5. CASE ResetBegin(p)
    BY <2>5, FirstRequests DEF ResetBegin
  <2>6. CASE ChangeBegin(p)
    BY <2>6, FirstRequests DEF ChangeBegin
  <2>7. QED
    BY <2>1, <2>2, <2>3, <2>4, <2>5, <2>6
<1>3. QED
  BY <1>1, <1>2, Begins

\* The later steps of a login.
LEMMA LoginStepsTyped ==
  ASSUME RowsOK, RequestsOK, NEW p \in Handlers,
         \/ CodeAccepted(p) \/ CodeAbandoned(p) \/ CountSignature(p)
         \/ IssueSession(p) \/ ListSessions(p) \/ EvictSessions(p)
         \/ CreateSession(p)
  PROVE  RowsOK' /\ RequestsOK'
<1> USE DEF At, Steps, LoginSteps, RefreshSteps
<1>1. CASE CodeAccepted(p)
  BY <1>1, NothingWritten, GoesOn DEF CodeAccepted
<1>2. CASE CodeAbandoned(p)
  BY <1>2, NothingWritten, Ends DEF CodeAbandoned
<1>3. CASE CountSignature(p)
  BY <1>3, NothingWritten, Ends, GoesOn DEF CountSignature
<1>4. CASE IssueSession(p)
  BY <1>4, NothingWritten, RoomMade DEF IssueSession
<1>5. CASE ListSessions(p)
  BY <1>5, NothingWritten, RoomMade DEF ListSessions
<1>6. CASE EvictSessions(p)
  BY <1>6, Removed, GoesOn DEF EvictSessions, account
<1>7. CASE CreateSession(p)
  <2>1. req[p].proof \in 0..password
    BY DEF RequestsOK, Request
  <2>2. proved' \in Seq(0..password) /\ Len(proved') = created'
    BY <1>7, <2>1 DEF CreateSession, RowsOK
  <2>3. /\ created' = created + 1 /\ sessions' = sessions \cup {created + 1}
        /\ UNCHANGED <<status, password, resetTo, expired, made, keys>>
    BY <1>7 DEF CreateSession, account, passkeys
  <2>4. RowsOK' /\ Grow
    BY <2>2, <2>3 DEF RowsOK, Grow
  <2>5. QED
    BY <1>7, <2>4, Ends DEF CreateSession
<1>8. QED
  BY <1>1, <1>2, <1>3, <1>4, <1>5, <1>6, <1>7

\* The steps of refreshes, suspensions, resets and changes.
LEMMA OtherStepsTyped ==
  ASSUME RowsOK, RequestsOK, NEW p \in Handlers,
         \/ RefreshStatus(p) \/ RefreshRotate(p) \/ Suspend(p) \/ SuspendPurge(p)
         \/ ResetCommit(p) \/ ChangeCommit(p)
  PROVE  RowsOK' /\ RequestsOK'
<1> USE DEF At, account, passkeys
<1>1. CASE RefreshStatus(p) /\ status = "active"
  <2>1. RowsOK' /\ Grow
    BY <1>1, NothingWritten DEF RefreshStatus
  <2>2. QED
    BY <1>1, <2>1, GoesOn DEF RefreshStatus, Steps, LoginSteps, RefreshSteps
<1>2. CASE RefreshStatus(p) /\ status # "active"
  BY <1>2, Removed, Ends DEF RefreshStatus
<1>3. CASE RefreshRotate(p)
  <2>1. expired' \subseteq sessions
    BY <1>3 DEF RefreshRotate, RowsOK
  <2>2. UNCHANGED <<status, password, resetTo, created, sessions, proved, made, keys>>
    BY <1>3 DEF RefreshRotate
  <2>3. RowsOK' /\ Grow
    BY <2>1, <2>2 DEF RowsOK, Grow
  <2>4. QED
    BY <1>3, <2>3, Ends DEF RefreshRotate
<1>4. CASE Suspend(p)
  <2>1. RowsOK' /\ Grow
    BY <1>4 DEF Suspend, RowsOK, Grow, rows
  <2>2. [Idle EXCEPT !.at = "purge"] \in Request /\ Named([Idle EXCEPT !.at = "purge"])
    BY DEF RowsOK, Idle, Request, Steps, LoginSteps, RefreshSteps, Named
  <2>3. QED
    BY <1>4, <2>1, <2>2, Begins DEF Suspend
<1>5. CASE SuspendPurge(p)
  BY <1>5, Removed, Ends DEF SuspendPurge
<1>6. CASE ResetCommit(p)
  <2>1. Seq(0..password) \subseteq Seq(0..password')
    BY <1>6 DEF ResetCommit, RowsOK
  <2>2. RowsOK' /\ Grow
    BY <1>6, <2>1 DEF ResetCommit, Remove, RowsOK, Grow
  <2>3. QED
    BY <1>6, <2>2, Ends DEF ResetCommit
<1>7. CASE ChangeCommit(p)
  <2>1. Seq(0..password) \subseteq Seq(0..password')
    BY <1>7 DEF ChangeCommit, RowsOK
  <2>2. RowsOK' /\ Grow
    BY <1>7, <2>1 DEF ChangeCommit, RowsOK, Grow, rows
  <2>3. QED
    BY <1>7, <2>2, Ends DEF ChangeCommit
<1>8. QED
  BY <1>1, <1>2, <1>3, <1>4, <1>5, <1>6, <1>7

\* What is one query.
LEMMA SingleStepsTyped ==
  ASSUME RowsOK, RequestsOK,
         \/ RegisterPasskey \/ \E k \in keys : RemovePasskey(k)
         \/ \E s \in sessions : EndSession(s) \/ Expire(s)
         \/ \E s \in 0..created : RevokeOthers(s)
         \/ Cleanup \/ Activate
  PROVE  RowsOK' /\ RequestsOK'
<1> USE DEF account, passkeys
<1>1. CASE RegisterPasskey
  <2>1. RowsOK' /\ Grow
    BY <1>1 DEF RegisterPasskey, RowsOK, Grow, rows
  <2>2. QED
    BY <1>1, <2>1, Stays DEF RegisterPasskey
<1>2. ASSUME NEW k \in keys, RemovePasskey(k) PROVE RowsOK' /\ RequestsOK'
  <2>1. RowsOK' /\ Grow
    BY <1>2 DEF RemovePasskey, RowsOK, Grow, rows
  <2>2. QED
    BY <1>2, <2>1, Stays DEF RemovePasskey
<1>3. ASSUME NEW s \in sessions, EndSession(s) PROVE RowsOK' /\ RequestsOK'
  BY <1>3, Removed, Stays DEF EndSession
<1>4. ASSUME NEW s \in sessions, Expire(s) PROVE RowsOK' /\ RequestsOK'
  <2>1. RowsOK' /\ Grow
    BY <1>4 DEF Expire, RowsOK, Grow
  <2>2. QED
    BY <1>4, <2>1, Stays DEF Expire
<1>5. ASSUME NEW s \in 0..created, RevokeOthers(s) PROVE RowsOK' /\ RequestsOK'
  BY <1>5, Removed, Stays DEF RevokeOthers
<1>6. CASE Cleanup
  BY <1>6, Removed, Stays DEF Cleanup
<1>7. CASE Activate
  <2>1. RowsOK' /\ Grow
    BY <1>7 DEF Activate, RowsOK, Grow, rows
  <2>2. QED
    BY <1>7, <2>1, Stays DEF Activate
<1>8. QED
  BY <1>1, <1>2, <1>3, <1>4, <1>5, <1>6, <1>7

\* The kinds of steps.
LEMMA NextSteps ==
  ASSUME Next
  PROVE  \/ \E p \in Handlers :
              \/ LoginBegin(p) \/ OtherLoginBegin(p)
              \/ \E k \in keys : PasskeyBegin(p, k)
              \/ \E s \in sessions : RefreshBegin(p, s)
              \/ ResetBegin(p) \/ ChangeBegin(p)
         \/ \E p \in Handlers :
              \/ CodeAccepted(p) \/ CodeAbandoned(p) \/ CountSignature(p)
              \/ IssueSession(p) \/ ListSessions(p) \/ EvictSessions(p)
              \/ CreateSession(p)
         \/ \E p \in Handlers :
              \/ RefreshStatus(p) \/ RefreshRotate(p) \/ Suspend(p)
              \/ SuspendPurge(p) \/ ResetCommit(p) \/ ChangeCommit(p)
         \/ RegisterPasskey \/ \E k \in keys : RemovePasskey(k)
         \/ \E s \in sessions : EndSession(s) \/ Expire(s)
         \/ \E s \in 0..created : RevokeOthers(s)
         \/ Cleanup \/ Activate
BY DEF Next, GoogleLoginBegin, ExchangeBegin, Logout, RefreshMismatch, RevokeSession,
       AdminDeleteSession

\* Every step keeps the type invariant.
LEMMA TypeStep == TypeOK /\ [Next]_vars => TypeOK'
<1> SUFFICES ASSUME TypeOK, [Next]_vars PROVE TypeOK'
  OBVIOUS
<1>1. RowsOK /\ RequestsOK
  BY TypeParts
<1>2. ASSUME Next PROVE RowsOK' /\ RequestsOK'
  BY <1>1, <1>2, NextSteps, BeginSteps, LoginStepsTyped, OtherStepsTyped, SingleStepsTyped
<1>3. ASSUME UNCHANGED vars PROVE RowsOK' /\ RequestsOK'
  BY <1>1, <1>3, NothingWritten, Stays DEF vars
<1>4. RowsOK' /\ RequestsOK'
  BY <1>2, <1>3
<1>5. QED
  BY <1>4 DEF TypeOK, RowsOK, RequestsOK, Named

-----------------------------------------------------------------------------
(* What is gone stays gone *)

\* A step adds to the sessions and the keys only what has a new number.
LEMMA StepAdds ==
  ASSUME Next
  PROVE  sessions' \subseteq sessions \cup {created + 1} /\ keys' \subseteq keys \cup {made + 1}
<1> USE DEF rows, passkeys, account, Remove
<1>1. ASSUME NEW p \in Handlers,
             \/ LoginBegin(p) \/ OtherLoginBegin(p)
             \/ \E k \in keys : PasskeyBegin(p, k)
             \/ \E s \in sessions : RefreshBegin(p, s)
             \/ ResetBegin(p) \/ ChangeBegin(p)
      PROVE  sessions' = sessions /\ keys' = keys
  BY <1>1 DEF LoginBegin, OtherLoginBegin, PasskeyBegin, RefreshBegin, ResetBegin,
     ChangeBegin
<1>2. ASSUME NEW p \in Handlers,
             \/ CodeAccepted(p) \/ CodeAbandoned(p) \/ CountSignature(p)
             \/ IssueSession(p) \/ ListSessions(p) \/ EvictSessions(p)
             \/ CreateSession(p)
      PROVE  sessions' \subseteq sessions \cup {created + 1} /\ keys' = keys
  BY <1>2 DEF CodeAccepted, CodeAbandoned, CountSignature, IssueSession, ListSessions,
     EvictSessions, CreateSession
<1>3. ASSUME NEW p \in Handlers,
             \/ RefreshStatus(p) \/ RefreshRotate(p) \/ Suspend(p)
             \/ SuspendPurge(p) \/ ResetCommit(p) \/ ChangeCommit(p)
      PROVE  sessions' \subseteq sessions /\ keys' = keys
  BY <1>3 DEF RefreshStatus, RefreshRotate, Suspend, SuspendPurge, ResetCommit, ChangeCommit
<1>4. ASSUME \/ RegisterPasskey \/ \E k \in keys : RemovePasskey(k)
             \/ \E s \in sessions : EndSession(s) \/ Expire(s)
             \/ \E s \in 0..created : RevokeOthers(s)
             \/ Cleanup \/ Activate
      PROVE  sessions' \subseteq sessions /\ keys' \subseteq keys \cup {made + 1}
  BY <1>4 DEF RegisterPasskey, RemovePasskey, EndSession, Expire, RevokeOthers, Cleanup,
     Activate
<1>5. QED
  BY <1>1, <1>2, <1>3, <1>4, NextSteps

\* No step brings back what has a number already.
LEMMA NothingReturns ==
  ASSUME TypeOK, [Next]_vars
  PROVE  /\ \A s \in 1..created : s \notin sessions => s \notin sessions'
         /\ \A k \in 1..made : k \notin keys => k \notin keys'
<1>1. created + 1 \notin 1..created /\ made + 1 \notin 1..made
  BY DEF TypeOK
<1>2. CASE Next
  BY <1>1, <1>2, StepAdds
<1>3. CASE UNCHANGED vars
  BY <1>3 DEF vars, rows, passkeys
<1>4. QED
  BY <1>2, <1>3

-----------------------------------------------------------------------------
(* A suspension takes the sessions of the refreshes with it *)

\* Once a suspension is carried out, no refresh that passed the check of the
\* status holds a session that exists.
RefreshesLost ==
  status = "suspended" /\ (\A q \in Handlers : ~At(q, "purge")) =>
    \A p \in Handlers : At(p, "rotate") => req[p].session \notin sessions

\* Steps that leave the purging and the rotating requests as they are.
LEMMA QuietStep ==
  ASSUME TypeOK, RefreshesLost, status' = status,
         sessions' \subseteq sessions \cup {created + 1},
         \A q \in Handlers : At(q, "purge") => req'[q] = req[q],
         \A q \in Handlers : req'[q].at = "rotate" => req'[q] = req[q]
  PROVE  RefreshesLost'
<1>1. \A q \in Handlers : req[q].session # created + 1
  BY DEF TypeOK, Request
<1>2. QED
  BY <1>1 DEF RefreshesLost, At

\* Every step keeps the refreshes without a session.
LEMMA RefreshesLostStep ==
  ASSUME TypeOK, RefreshesLost, [Next]_vars
  PROVE  RefreshesLost'
<1> USE DEF At, Begin, Goto, Done, Idle
<1>0. req \in [Handlers -> Request] /\ \A q \in Handlers : req[q] \in Request
  BY DEF TypeOK
<1>1. ASSUME NEW p \in Handlers,
             \/ LoginBegin(p) \/ OtherLoginBegin(p)
             \/ \E k \in keys : PasskeyBegin(p, k)
             \/ \E s \in sessions : RefreshBegin(p, s)
             \/ ResetBegin(p) \/ ChangeBegin(p)
      PROVE  RefreshesLost'
  <2>1. status' = status /\ sessions' = sessions
    BY <1>1 DEF LoginBegin, OtherLoginBegin, PasskeyBegin, RefreshBegin, ResetBegin,
       ChangeBegin, account, rows
  <2>2. /\ At(p, "idle") /\ \A q \in Handlers \ {p} : req'[q] = req[q]
        /\ req'[p].at # "rotate"
    BY <1>0, <1>1 DEF LoginBegin, OtherLoginBegin, PasskeyBegin, RefreshBegin, ResetBegin,
       ChangeBegin
  <2>3. QED
    BY <2>1, <2>2, QuietStep
<1>2. ASSUME NEW p \in Handlers,
             \/ CodeAccepted(p) \/ CodeAbandoned(p) \/ CountSignature(p)
             \/ IssueSession(p) \/ ListSessions(p) \/ EvictSessions(p)
             \/ CreateSession(p)
      PROVE  RefreshesLost'
  <2>1. status' = status /\ sessions' \subseteq sessions \cup {created + 1}
    BY <1>2 DEF CodeAccepted, CodeAbandoned, CountSignature, IssueSession, ListSessions,
       EvictSessions, CreateSession, account, rows, Remove
  <2>2. /\ ~At(p, "purge") /\ \A q \in Handlers \ {p} : req'[q] = req[q]
        /\ req'[p].at # "rotate"
    BY <1>0, <1>2 DEF CodeAccepted, CodeAbandoned, CountSignature, IssueSession, ListSessions,
       EvictSessions, CreateSession, MakeRoom, Request
  <2>3. QED
    BY <2>1, <2>2, QuietStep
<1>3. ASSUME NEW p \in Handlers, RefreshStatus(p), status = "active" PROVE RefreshesLost'
  BY <1>3 DEF RefreshStatus, account, RefreshesLost
<1>4. ASSUME NEW p \in Handlers,
             \/ RefreshStatus(p) /\ status # "active"
             \/ RefreshRotate(p) \/ ResetCommit(p) \/ ChangeCommit(p)
      PROVE  RefreshesLost'
  <2>1. status' = status /\ sessions' \subseteq sessions
    BY <1>4 DEF RefreshStatus, RefreshRotate, ResetCommit, ChangeCommit, account, rows, Remove
  <2>2. /\ ~At(p, "purge") /\ \A q \in Handlers \ {p} : req'[q] = req[q]
        /\ req'[p].at # "rotate"
    BY <1>0, <1>4 DEF RefreshStatus, RefreshRotate, ResetCommit, ChangeCommit
  <2>3. QED
    BY <2>1, <2>2, QuietStep
<1>5. ASSUME NEW p \in Handlers, Suspend(p) PROVE RefreshesLost'
  <2>1. req'[p].at = "purge"
    BY <1>0, <1>5 DEF Suspend
  <2>2. QED
    BY <2>1 DEF RefreshesLost
<1>6. ASSUME NEW p \in Handlers, SuspendPurge(p) PROVE RefreshesLost'
  <2>1. sessions' = {}
    BY <1>6 DEF SuspendPurge, Remove
  <2>2. QED
    BY <2>1 DEF RefreshesLost
<1>7. CASE Activate
  BY <1>7 DEF Activate, RefreshesLost
<1>8. ASSUME \/ RegisterPasskey \/ \E k \in keys : RemovePasskey(k)
             \/ \E s \in sessions : EndSession(s) \/ Expire(s)
             \/ \E s \in 0..created : RevokeOthers(s)
             \/ Cleanup
      PROVE  RefreshesLost'
  <2>1. status' = status /\ sessions' \subseteq sessions /\ req' = req
    BY <1>8 DEF RegisterPasskey, RemovePasskey, EndSession, Expire, RevokeOthers, Cleanup,
       account, rows, Remove
  <2>2. QED
    BY <2>1, QuietStep
<1>9. CASE UNCHANGED vars
  BY <1>9 DEF vars, account, rows, RefreshesLost
<1>10. QED
  BY <1>1, <1>2, <1>3, <1>4, <1>5, <1>6, <1>7, <1>8, <1>9, NextSteps

\* A refresh that finishes under a suspension has lost its session, unless the
\* suspension is being carried out.
LEMMA RotatesUnderPurge ==
  ASSUME RefreshesLost, NEW p \in Handlers, At(p, "rotate"),
         req[p].session \in sessions, status = "suspended"
  PROVE  \E q \in Handlers : At(q, "purge")
BY DEF RefreshesLost

-----------------------------------------------------------------------------
(* The cap *)

\* The least of some numbers.
LEMMA Least ==
  ASSUME NEW T \in SUBSET Nat, T # {}
  PROVE  \E x \in T : \A y \in T : x <= y
<1> DEFINE R == {ss \in Nat \X Nat : ss[1] < ss[2]}
<1>1. IsWellFoundedOn(R, Nat)
  BY NatLessThanWellFounded, Zenon DEF OpToRel
<1> HIDE DEF R
<1>2. PICK x \in T : \A y \in T : ~ (<<y, x>> \in R)
  BY <1>1, WFMin
<1>3. ASSUME NEW y \in T PROVE x <= y
  <2>1. x \in Nat /\ y \in Nat /\ <<y, x>> \in Nat \X Nat
    OBVIOUS
  <2>2. y < x => <<y, x>> \in R
    BY <2>1 DEF R
  <2>3. QED
    BY <1>2, <2>1, <2>2
<1>4. QED
  BY <1>3

\* The sessions are finitely many.
LEMMA SessionsFinite ==
  ASSUME RowsOK
  PROVE  IsFiniteSet(sessions) /\ Cardinality(sessions) \in Nat
         /\ \A S \in SUBSET sessions :
              /\ IsFiniteSet(S) /\ Cardinality(S) \in Nat
              /\ Cardinality(S) <= Cardinality(sessions)
<1>1. IsFiniteSet(1..created)
  BY FS_Interval DEF RowsOK
<1>2. IsFiniteSet(sessions)
  BY <1>1, FS_Subset DEF RowsOK
<1>3. QED
  BY <1>2, FS_Subset, FS_CardinalityType

\* Without the oldest but n, n are left at most: those older than the oldest that
\* stays have all gone.
LEMMA OldestLeave ==
  ASSUME RowsOK, NEW n \in Nat
  PROVE  Cardinality(sessions \ Oldest(Cardinality(sessions) - n)) <= n
<1> DEFINE k == Cardinality(sessions) - n
           U == sessions \ Oldest(k)
<1>1. CASE U = {}
  BY <1>1, FS_EmptySet
<1>2. CASE U # {}
  <2>0. sessions \subseteq Nat
    BY DEF RowsOK
  <2>1. U \subseteq Nat
    BY <2>0
  <2>2. PICK x \in U : \A y \in U : x <= y
    BY <1>2, <2>1, Least
  <2> DEFINE B == {t \in sessions : t < x}
  <2>3. B \subseteq sessions /\ Cardinality(B) \in Nat
    BY SessionsFinite
  <2>4. ~(Cardinality(B) < k)
    BY <2>2 DEF Oldest
  <2>5. U \subseteq sessions \ B
    BY <2>1, <2>2
  <2>6. Cardinality(sessions \ B) = Cardinality(sessions) - Cardinality(B)
    <3>1. sessions \cap B = B
      BY <2>3
    <3>2. QED
      BY <3>1, SessionsFinite, FS_Difference
  <2>7. Cardinality(U) <= Cardinality(sessions \ B)
    BY <2>5, SessionsFinite, FS_Subset
  <2>8. Cardinality(sessions) \in Nat /\ Cardinality(U) \in Nat
    BY SessionsFinite
  <2> HIDE DEF U, B
  <2>9. QED
    BY <2>3, <2>4, <2>6, <2>7, <2>8 DEF k, U
<1>3. QED
  BY <1>1, <1>2

\* The sessions up to a number.
Upto(S, m) == {s \in S : s <= m}

\* Those who have yet to create the one session they may add to those there were
\* when the sessions were m: they listed them by then.
Due(m, Old, L) == Old \cup {p \in Handlers : At(p, "evict") /\ L[p] <= m}

\* The last listing whose eviction is done was made when the sessions were c: it
\* left room for one.  The requests in Old listed them before, the others that
\* evict listed later, when they were L[p], and each will leave room for one.
\* Every session since the m-th is of another request than those due.
Marks(c, Old, L) ==
  /\ c \in 0..created /\ Old \in SUBSET Handlers /\ L \in [Handlers -> 0..created]
  /\ \A p \in Handlers : At(p, "create") => p \in Old
  /\ \A p \in Old : req[p].at \in {"evict", "create"}
  /\ Cardinality(Upto(sessions, c)) < Cap
  /\ \A p \in Handlers \ Old : At(p, "evict") =>
       L[p] >= c /\ Cardinality(Upto(sessions \ req[p].doomed, L[p])) < Cap
  /\ \A m \in c..created :
       (created - m) + Cardinality(Due(m, Old, L)) <= Cardinality(Handlers)

CapIInv == \E c, Old, L : Marks(c, Old, L)

\* Sets of handlers are finite, and counted as sets are.
LEMMA HandlersCounted ==
  /\ Cardinality(Handlers) \in Nat
  /\ \A S \in SUBSET Handlers :
       /\ IsFiniteSet(S) /\ Cardinality(S) \in Nat
       /\ Cardinality(S) <= Cardinality(Handlers)
  /\ \A S, T \in SUBSET Handlers : S \subseteq T => Cardinality(S) <= Cardinality(T)
BY SessionsAssumption, FS_Subset, FS_CardinalityType

\* With fewer sessions there are fewer up to a number.
LEMMA UptoFewer ==
  ASSUME RowsOK, NEW S \in SUBSET sessions, NEW T \in SUBSET S, NEW m,
         Cardinality(Upto(S, m)) < Cap
  PROVE  Cardinality(Upto(T, m)) < Cap
<1>1. Upto(S, m) \subseteq sessions /\ Upto(T, m) \subseteq Upto(S, m)
  BY DEF Upto
<1>2. IsFiniteSet(Upto(S, m)) /\ Cardinality(Upto(S, m)) \in Nat
      /\ Cardinality(Upto(T, m)) \in Nat
  BY <1>1, SessionsFinite
<1>3. Cardinality(Upto(T, m)) <= Cardinality(Upto(S, m))
  BY <1>1, <1>2, FS_Subset
<1>4. QED
  BY <1>2, <1>3, SessionsAssumption

\* The cap follows: since the c-th session no request has created two.
LEMMA MarksBound ==
  ASSUME RowsOK, CapIInv
  PROVE  CapNearlyHeld
<1>1. PICK c, Old, L : Marks(c, Old, L)
  BY DEF CapIInv
<1>2. c \in Nat /\ created \in Nat /\ c <= created /\ Cap \in Nat
  BY <1>1, SessionsAssumption DEF Marks, RowsOK
<1> DEFINE A == Upto(sessions, c)
           B == (c + 1)..created
<1>3. sessions \subseteq A \cup B
  BY <1>2 DEF RowsOK, Upto
<1>4. IsFiniteSet(A) /\ Cardinality(A) \in Nat /\ Cardinality(A) < Cap
  BY <1>1, SessionsFinite DEF Marks, Upto
<1>5. IsFiniteSet(B) /\ Cardinality(B) = created - c
  <2>1. /\ IsFiniteSet(B)
        /\ Cardinality(B) = IF c + 1 > created THEN 0 ELSE created - (c + 1) + 1
    <3>1. PICK a \in Int : a = c + 1
      BY <1>2
    <3>2. created \in Int
      BY <1>2
    <3>3. IsFiniteSet(a..created)
          /\ Cardinality(a..created) = IF a > created THEN 0 ELSE created - a + 1
      BY <3>2, FS_Interval
    <3>4. QED
      BY <3>1, <3>3
  <2> HIDE DEF B
  <2>2. QED
    BY <1>2, <2>1
<1>6. Cardinality(Due(c, Old, L)) \in Nat /\ Cardinality(Handlers) \in Nat
  BY <1>1, HandlersCounted DEF Due, Marks
<1>7. (created - c) + Cardinality(Due(c, Old, L)) <= Cardinality(Handlers)
  BY <1>1, <1>2 DEF Marks
<1> HIDE DEF A, B
<1>8. IsFiniteSet(A \cup B) /\ Cardinality(A \cup B) <= Cardinality(A) + Cardinality(B)
  <2>1. /\ IsFiniteSet(A \cup B)
        /\ Cardinality(A \cup B) = Cardinality(A) + Cardinality(B) - Cardinality(A \cap B)
    BY <1>4, <1>5, FS_Union
  <2>2. Cardinality(A \cap B) \in Nat
    BY <1>4, FS_Subset, FS_CardinalityType
  <2>3. QED
    BY <1>2, <1>4, <1>5, <2>1, <2>2
<1>9. Cardinality(sessions) <= Cardinality(A \cup B) /\ Cardinality(A \cup B) \in Nat
      /\ Cardinality(sessions) \in Nat
  BY <1>3, <1>8, FS_Subset, FS_CardinalityType, SessionsFinite
<1>10. QED
  BY <1>2, <1>4, <1>5, <1>6, <1>7, <1>8, <1>9 DEF CapNearlyHeld

\* What Marks says later, to be shown of some c, Old and L.
LEMMA MarksThen ==
  ASSUME NEW c \in 0..created', NEW Old \in SUBSET Handlers,
         NEW L \in [Handlers -> 0..created'],
         \A p \in Handlers : req'[p].at = "create" => p \in Old,
         \A p \in Old : req'[p].at \in {"evict", "create"},
         Cardinality(Upto(sessions', c)) < Cap,
         \A p \in Handlers \ Old : req'[p].at = "evict" =>
           L[p] >= c /\ Cardinality(Upto(sessions' \ req'[p].doomed, L[p])) < Cap,
         \A m \in c..created' :
           (created' - m)
             + Cardinality(Old \cup {p \in Handlers : req'[p].at = "evict" /\ L[p] <= m})
             <= Cardinality(Handlers)
  PROVE  CapIInv'
<1>1. Marks(c, Old, L)'
  BY DEF Marks, Due, At
<1>2. QED
  BY <1>1 DEF CapIInv

\* Steps that leave those who evict or create alone, or end them, and open no
\* session.
LEMMA CapQuiet ==
  ASSUME RowsOK, RowsOK', CapIInv, created' = created, sessions' \subseteq sessions,
         \A p \in Handlers : req'[p].at \in {"evict", "create"} => req'[p] = req[p]
  PROVE  CapIInv'
<1>1. PICK c, Old, L : Marks(c, Old, L)
  BY DEF CapIInv
<1>2. PICK O : O = {p \in Old : req'[p].at \in {"evict", "create"}}
  OBVIOUS
<1>3. /\ c \in 0..created' /\ O \in SUBSET Handlers /\ L \in [Handlers -> 0..created']
  BY <1>1, <1>2 DEF Marks
<1>4. \A p \in Handlers : req'[p].at = "create" => p \in O
  BY <1>1, <1>2 DEF Marks, At
<1>5. \A p \in O : req'[p].at \in {"evict", "create"}
  BY <1>2
<1>6. Cardinality(Upto(sessions', c)) < Cap
  BY <1>1, UptoFewer DEF Marks
<1>7. ASSUME NEW p \in Handlers \ O, req'[p].at = "evict"
      PROVE  L[p] >= c /\ Cardinality(Upto(sessions' \ req'[p].doomed, L[p])) < Cap
  <2>1. p \notin Old /\ req'[p] = req[p]
    BY <1>2, <1>7
  <2>2. L[p] >= c /\ Cardinality(Upto(sessions \ req[p].doomed, L[p])) < Cap
    BY <1>1, <1>7, <2>1 DEF Marks, At
  <2>3. sessions' \ req[p].doomed \subseteq sessions \ req[p].doomed
    OBVIOUS
  <2>4. QED
    BY <2>1, <2>2, <2>3, UptoFewer
<1>8. ASSUME NEW m \in c..created'
      PROVE  (created' - m)
               + Cardinality(O \cup {p \in Handlers : req'[p].at = "evict" /\ L[p] <= m})
               <= Cardinality(Handlers)
  <2> DEFINE D == O \cup {p \in Handlers : req'[p].at = "evict" /\ L[p] <= m}
  <2>1. D \subseteq Due(m, Old, L) /\ Due(m, Old, L) \subseteq Handlers
    BY <1>1, <1>2 DEF Marks, Due, At
  <2>2. Cardinality(D) <= Cardinality(Due(m, Old, L)) /\ Cardinality(D) \in Nat
        /\ Cardinality(Due(m, Old, L)) \in Nat /\ Cardinality(Handlers) \in Nat
    BY <2>1, HandlersCounted
  <2>3. (created - m) + Cardinality(Due(m, Old, L)) <= Cardinality(Handlers)
    BY <1>1 DEF Marks
  <2>4. m \in Int /\ created \in Int
    BY DEF RowsOK
  <2> HIDE DEF D
  <2>5. (created - m) + Cardinality(D) <= Cardinality(Handlers)
    BY <2>2, <2>3, <2>4
  <2>6. QED
    BY <2>5 DEF D
<1>9. QED
  BY <1>3, <1>4, <1>5, <1>6, <1>7, <1>8, MarksThen

\* A listing: the eviction it asks for would leave room for one now.
LEMMA CapListed ==
  ASSUME RowsOK, RowsOK', CapIInv, NEW q \in Handlers, req[q].at \in {"list", "issue"},
         UNCHANGED <<created, sessions>>, req'[q].at = "evict",
         req'[q].doomed = Oldest(Cardinality(sessions) - (Cap - 1)),
         \A p \in Handlers \ {q} : req'[p] = req[p]
  PROVE  CapIInv'
<1>1. PICK c, Old, L : Marks(c, Old, L)
  BY DEF CapIInv
<1>0. created \in Nat /\ Cap \in Nat /\ Cap - 1 \in Nat
  BY SessionsAssumption DEF RowsOK
<1>2. PICK K : K = [L EXCEPT ![q] = created]
  OBVIOUS
<1>3. /\ c \in 0..created' /\ Old \in SUBSET Handlers /\ K \in [Handlers -> 0..created']
      /\ K[q] = created /\ \A p \in Handlers \ {q} : K[p] = L[p]
  BY <1>0, <1>1, <1>2 DEF Marks
<1>4. q \notin Old
  BY <1>1 DEF Marks
<1>5. \A p \in Handlers : req'[p].at = "create" => p \in Old
  BY <1>1 DEF Marks, At
<1>6. \A p \in Old : req'[p].at \in {"evict", "create"}
  BY <1>1, <1>4 DEF Marks
<1>7. Cardinality(Upto(sessions', c)) < Cap
  BY <1>1 DEF Marks
<1>8. ASSUME NEW p \in Handlers \ Old, req'[p].at = "evict"
      PROVE  K[p] >= c /\ Cardinality(Upto(sessions' \ req'[p].doomed, K[p])) < Cap
  <2>1. CASE p # q
    BY <1>1, <1>3, <1>8, <2>1 DEF Marks, At
  <2>2. CASE p = q
    <3>1. PICK rest : rest = sessions \ Oldest(Cardinality(sessions) - (Cap - 1))
      OBVIOUS
    <3>2. Cardinality(rest) <= Cap - 1 /\ Cardinality(rest) \in Nat
      BY <1>0, <3>1, OldestLeave, SessionsFinite
    <3>3. Cardinality(rest) < Cap
      BY <1>0, <3>2
    <3>4. Upto(rest, created) = rest
      <4>1. \A x \in sessions : x <= created
        BY DEF RowsOK
      <4>2. QED
        BY <3>1, <4>1 DEF Upto
    <3>5. K[p] = created /\ sessions' \ req'[p].doomed = rest /\ created >= c
      BY <1>0, <1>3, <2>2, <3>1
    <3>6. QED
      BY <3>3, <3>4, <3>5
  <2>3. QED
    BY <2>1, <2>2
<1>9. ASSUME NEW m \in c..created'
      PROVE  (created' - m)
               + Cardinality(Old \cup {p \in Handlers : req'[p].at = "evict" /\ K[p] <= m})
               <= Cardinality(Handlers)
  <2> DEFINE D == Old \cup {p \in Handlers : req'[p].at = "evict" /\ K[p] <= m}
  <2>0. m \in Int /\ created' = created /\ m <= created /\ D \subseteq Handlers
    BY <1>0, <1>3
  <2>1. Cardinality(D) \in Nat /\ Cardinality(D) <= Cardinality(Handlers)
        /\ Cardinality(Handlers) \in Nat
    BY <2>0, HandlersCounted
  <2>2. CASE m = created
    <3> HIDE DEF D
    <3>1. (created' - m) + Cardinality(D) <= Cardinality(Handlers)
      BY <1>0, <2>0, <2>1, <2>2
    <3>2. QED
      BY <3>1 DEF D
  <2>3. CASE m < created
    <3>1. ~(K[q] <= m)
      BY <1>0, <1>3, <2>0, <2>3
    <3>2. D \subseteq Due(m, Old, L) /\ Due(m, Old, L) \subseteq Handlers
      BY <1>1, <1>3, <3>1 DEF Marks, Due, At
    <3>3. Cardinality(D) <= Cardinality(Due(m, Old, L)) /\ Cardinality(Due(m, Old, L)) \in Nat
      BY <3>2, HandlersCounted
    <3>4. (created - m) + Cardinality(Due(m, Old, L)) <= Cardinality(Handlers)
      BY <1>1 DEF Marks
    <3> HIDE DEF D
    <3>5. (created' - m) + Cardinality(D) <= Cardinality(Handlers)
      BY <1>0, <2>0, <2>1, <3>3, <3>4
    <3>6. QED
      BY <3>5 DEF D
  <2>4. QED
    BY <1>0, <2>0, <2>2, <2>3
<1>10. /\ c \in 0..created' /\ Old \in SUBSET Handlers /\ K \in [Handlers -> 0..created']
  BY <1>3
<1>11. QED
  BY <1>10, <1>5, <1>6, <1>7, <1>8, <1>9, MarksThen

\* An eviction: if none whose listing was later is done, its own is the last.
LEMMA CapEvicted ==
  ASSUME RowsOK, RowsOK', CapIInv, NEW q \in Handlers, req[q].at = "evict",
         created' = created, sessions' = sessions \ req[q].doomed, req'[q].at = "create",
         \A p \in Handlers \ {q} : req'[p] = req[p]
  PROVE  CapIInv'
<1>1. PICK c, Old, L : Marks(c, Old, L)
  BY DEF CapIInv
<1>0. created \in Nat /\ \A p \in Handlers : L[p] \in 0..created
  BY <1>1 DEF RowsOK, Marks
<1>2. PICK d, O : IF q \in Old THEN d = c /\ O = Old
                  ELSE d = L[q] /\ O = Due(L[q], Old, L)
  OBVIOUS
<1>3. q \notin Old => L[q] >= c /\ Cardinality(Upto(sessions', L[q])) < Cap
  BY <1>1 DEF Marks, At
<1>4. /\ d \in 0..created' /\ O \in SUBSET Handlers /\ L \in [Handlers -> 0..created']
      /\ d >= c /\ Old \subseteq O /\ q \in O
  BY <1>0, <1>1, <1>2, <1>3 DEF Marks, Due, At
<1>5. \A p \in Handlers : req'[p].at = "create" => p \in O
  BY <1>1, <1>4 DEF Marks, At
<1>6. \A p \in O : req'[p].at \in {"evict", "create"}
  BY <1>1, <1>2 DEF Marks, Due, At
<1>7. Cardinality(Upto(sessions', d)) < Cap
  <2>1. CASE q \in Old
    BY <1>1, <1>2, <2>1, UptoFewer DEF Marks
  <2>2. CASE q \notin Old
    BY <1>2, <1>3, <2>2
  <2>3. QED
    BY <2>1, <2>2
<1>8. ASSUME NEW p \in Handlers \ O, req'[p].at = "evict"
      PROVE  L[p] >= d /\ Cardinality(Upto(sessions' \ req'[p].doomed, L[p])) < Cap
  <2>1. p # q /\ req'[p] = req[p] /\ p \notin Old
    BY <1>4, <1>8
  <2>2. L[p] >= c /\ Cardinality(Upto(sessions \ req[p].doomed, L[p])) < Cap
    BY <1>1, <1>8, <2>1 DEF Marks, At
  <2>3. L[p] >= d
    <3>1. CASE q \in Old
      BY <1>2, <2>2, <3>1
    <3>2. CASE q \notin Old
      BY <1>0, <1>2, <1>8, <2>1, <3>2 DEF Due, At
    <3>3. QED
      BY <3>1, <3>2
  <2>4. sessions' \ req[p].doomed \subseteq sessions \ req[p].doomed
    OBVIOUS
  <2>5. QED
    BY <2>1, <2>2, <2>3, <2>4, UptoFewer
<1>9. ASSUME NEW m \in d..created'
      PROVE  (created' - m)
               + Cardinality(O \cup {p \in Handlers : req'[p].at = "evict" /\ L[p] <= m})
               <= Cardinality(Handlers)
  <2> DEFINE D == O \cup {p \in Handlers : req'[p].at = "evict" /\ L[p] <= m}
  <2>0. m \in c..created /\ m \in Int /\ created' = created
    BY <1>0, <1>1, <1>4 DEF Marks
  <2>1. D \subseteq Due(m, Old, L) /\ Due(m, Old, L) \subseteq Handlers
    <3>1. \A p \in Handlers : req'[p].at = "evict" => At(p, "evict")
      BY DEF At
    <3>2. O \subseteq Due(m, Old, L)
      BY <1>0, <1>1, <1>2, <2>0 DEF Due, Marks
    <3>3. QED
      BY <1>1, <3>1, <3>2 DEF Due, Marks
  <2>2. Cardinality(D) <= Cardinality(Due(m, Old, L)) /\ Cardinality(D) \in Nat
        /\ Cardinality(Due(m, Old, L)) \in Nat /\ Cardinality(Handlers) \in Nat
    BY <2>1, HandlersCounted
  <2>3. (created - m) + Cardinality(Due(m, Old, L)) <= Cardinality(Handlers)
    BY <1>1, <2>0 DEF Marks
  <2> HIDE DEF D
  <2>4. (created' - m) + Cardinality(D) <= Cardinality(Handlers)
    BY <1>0, <2>0, <2>2, <2>3
  <2>5. QED
    BY <2>4 DEF D
<1>10. QED
  BY <1>4, <1>5, <1>6, <1>7, <1>8, <1>9, MarksThen

\* A creation, by one that was due.
LEMMA CapCreated ==
  ASSUME RowsOK, RowsOK', CapIInv, NEW q \in Handlers, req[q].at = "create",
         created' = created + 1, sessions' = sessions \cup {created + 1},
         req'[q].at = "idle", \A p \in Handlers \ {q} : req'[p] = req[p]
  PROVE  CapIInv'
<1>1. PICK c, Old, L : Marks(c, Old, L)
  BY DEF CapIInv
<1>0. created \in Nat /\ c \in Nat /\ c <= created
      /\ \A p \in Handlers : L[p] \in 0..created
  BY <1>1 DEF RowsOK, Marks
<1>2. PICK O : O = Old \ {q}
  OBVIOUS
<1>3. /\ c \in 0..created' /\ O \in SUBSET Handlers /\ L \in [Handlers -> 0..created']
  <2>1. 0..created \subseteq 0..created'
    BY <1>0
  <2>2. QED
    BY <1>1, <1>2, <2>1 DEF Marks
<1>4. \A p \in Handlers : req'[p].at = "create" => p \in O
  BY <1>1, <1>2 DEF Marks, At
<1>5. \A p \in O : req'[p].at \in {"evict", "create"}
  BY <1>1, <1>2 DEF Marks
<1>6. \A m \in 0..created : \A S : Upto(sessions' \ S, m) = Upto(sessions \ S, m)
  BY <1>0 DEF Upto
<1>7. Cardinality(Upto(sessions', c)) < Cap
  <2>1. Upto(sessions', c) = Upto(sessions, c)
    BY <1>0 DEF Upto
  <2>2. QED
    BY <1>1, <2>1 DEF Marks
<1>8. ASSUME NEW p \in Handlers \ O, req'[p].at = "evict"
      PROVE  L[p] >= c /\ Cardinality(Upto(sessions' \ req'[p].doomed, L[p])) < Cap
  <2>1. p \notin Old /\ req'[p] = req[p]
    BY <1>2, <1>8
  <2>2. L[p] >= c /\ Cardinality(Upto(sessions \ req[p].doomed, L[p])) < Cap
    BY <1>1, <1>8, <2>1 DEF Marks, At
  <2>3. Upto(sessions' \ req'[p].doomed, L[p]) = Upto(sessions \ req[p].doomed, L[p])
    BY <1>0, <1>6, <2>1
  <2>4. QED
    BY <2>2, <2>3
<1>9. ASSUME NEW m \in c..created'
      PROVE  (created' - m)
               + Cardinality(O \cup {p \in Handlers : req'[p].at = "evict" /\ L[p] <= m})
               <= Cardinality(Handlers)
  <2> DEFINE D == O \cup {p \in Handlers : req'[p].at = "evict" /\ L[p] <= m}
  <2>0. m \in Int /\ D \subseteq Handlers /\ m <= created + 1
    BY <1>0, <1>3
  <2>1. Cardinality(D) \in Nat /\ Cardinality(D) <= Cardinality(Handlers)
        /\ Cardinality(Handlers) \in Nat
    BY <2>0, HandlersCounted
  <2>2. CASE m = created + 1
    <3> HIDE DEF D
    <3>1. (created' - m) + Cardinality(D) <= Cardinality(Handlers)
      BY <1>0, <2>0, <2>1, <2>2
    <3>2. QED
      BY <3>1 DEF D
  <2>3. CASE m <= created
    <3> DEFINE E == Due(m, Old, L)
    <3>1. D = E \ {q} /\ q \in E /\ E \subseteq Handlers
      BY <1>1, <1>2 DEF Marks, Due, At
    <3>2. IsFiniteSet(E) /\ Cardinality(E) \in Nat
      BY <3>1, HandlersCounted
    <3>3. Cardinality(D) = Cardinality(E) - 1
      BY <3>1, <3>2, FS_RemoveElement
    <3>4. (created - m) + Cardinality(E) <= Cardinality(Handlers)
      BY <1>0, <1>1, <2>0, <2>3 DEF Marks
    <3> HIDE DEF D, E
    <3>5. (created' - m) + Cardinality(D) <= Cardinality(Handlers)
      BY <1>0, <2>0, <2>1, <3>2, <3>3, <3>4
    <3>6. QED
      BY <3>5 DEF D
  <2>4. QED
    BY <1>0, <2>0, <2>2, <2>3
<1>10. QED
  BY <1>3, <1>4, <1>5, <1>7, <1>8, <1>9, MarksThen

\* What asks for room goes to evict, with the sessions that are to go.
LEMMA RoomAsked ==
  ASSUME TypeOK, NEW p \in Handlers, NEW n, MakeRoom(p, n)
  PROVE  /\ req'[p].at = "evict" /\ req'[p].doomed = Oldest(Cardinality(sessions) - n)
         /\ req'[p].proof = req[p].proof
         /\ \A q \in Handlers \ {p} : req'[q] = req[q]
<1> DEFINE D == Oldest(Cardinality(sessions) - n)
           a == [req[p] EXCEPT !.at = "evict"]
           b == [a EXCEPT !.key = 0]
           x == [b EXCEPT !.doomed = D]
<1>1. req[p] \in Request /\ req \in [Handlers -> Request]
  BY DEF TypeOK
<1>2. req' = [req EXCEPT ![p] = x]
  BY <1>1 DEF MakeRoom
<1> HIDE DEF D
<1>3. x.at = "evict" /\ x.doomed = D /\ x.proof = req[p].proof
  BY <1>1 DEF Request
<1> HIDE DEF x
<1>4. QED
  BY <1>1, <1>2, <1>3 DEF D

\* Every step keeps it.
LEMMA CapIInvStep ==
  ASSUME TypeOK, TypeOK', CapIInv, [Next]_vars
  PROVE  CapIInv'
<1> USE DEF At, Begin, Goto, Done, Idle
<1>0. req \in [Handlers -> Request] /\ (\A q \in Handlers : req[q] \in Request)
      /\ RowsOK /\ RowsOK'
  BY TypeParts DEF TypeOK, RowsOK
<1>1. ASSUME NEW p \in Handlers,
             \/ LoginBegin(p) \/ OtherLoginBegin(p)
             \/ \E k \in keys : PasskeyBegin(p, k)
             \/ \E s \in sessions : RefreshBegin(p, s)
             \/ ResetBegin(p) \/ ChangeBegin(p)
      PROVE  CapIInv'
  <2>1. created' = created /\ sessions' = sessions
    BY <1>1 DEF LoginBegin, OtherLoginBegin, PasskeyBegin, RefreshBegin, ResetBegin,
       ChangeBegin, account, rows
  <2>2. /\ \A q \in Handlers \ {p} : req'[q] = req[q]
        /\ req'[p].at \notin {"evict", "create"}
    BY <1>0, <1>1 DEF LoginBegin, OtherLoginBegin, PasskeyBegin, RefreshBegin, ResetBegin,
       ChangeBegin
  <2>3. QED
    BY <1>0, <2>1, <2>2, CapQuiet
<1>2. ASSUME NEW p \in Handlers, CodeAccepted(p) \/ CodeAbandoned(p) \/ CountSignature(p)
      PROVE  CapIInv'
  <2>1. created' = created /\ sessions' = sessions
    BY <1>2 DEF CodeAccepted, CodeAbandoned, CountSignature, rows
  <2>2. /\ \A q \in Handlers \ {p} : req'[q] = req[q]
        /\ req'[p].at \notin {"evict", "create"}
    BY <1>0, <1>2 DEF CodeAccepted, CodeAbandoned, CountSignature, Request
  <2>3. QED
    BY <1>0, <2>1, <2>2, CapQuiet
<1>3. ASSUME NEW p \in Handlers, IssueSession(p) \/ ListSessions(p)
      PROVE  CapIInv'
  <2>1. /\ UNCHANGED <<created, sessions>> /\ req[p].at \in {"list", "issue"}
        /\ MakeRoom(p, Cap - 1)
    BY <1>3 DEF IssueSession, ListSessions, rows
  <2>2. QED
    BY <1>0, <2>1, RoomAsked, CapListed
<1>4. ASSUME NEW p \in Handlers, EvictSessions(p)
      PROVE  CapIInv'
  <2>1. /\ req[p].at = "evict" /\ created' = created
        /\ sessions' = sessions \ req[p].doomed
    BY <1>4 DEF EvictSessions, Remove
  <2>2. /\ \A q \in Handlers \ {p} : req'[q] = req[q]
        /\ req'[p].at = "create"
    BY <1>0, <1>4 DEF EvictSessions, Request
  <2>3. QED
    BY <1>0, <2>1, <2>2, CapEvicted
<1>5. ASSUME NEW p \in Handlers, CreateSession(p)
      PROVE  CapIInv'
  <2>1. /\ req[p].at = "create" /\ created' = created + 1
        /\ sessions' = sessions \cup {created + 1}
    BY <1>5 DEF CreateSession
  <2>2. /\ \A q \in Handlers \ {p} : req'[q] = req[q]
        /\ req'[p].at = "idle"
    BY <1>0, <1>5 DEF CreateSession
  <2>3. QED
    BY <1>0, <2>1, <2>2, CapCreated
<1>6. ASSUME NEW p \in Handlers,
             \/ RefreshStatus(p) \/ RefreshRotate(p) \/ Suspend(p)
             \/ SuspendPurge(p) \/ ResetCommit(p) \/ ChangeCommit(p)
      PROVE  CapIInv'
  <2>1. created' = created /\ sessions' \subseteq sessions
    BY <1>6 DEF RefreshStatus, RefreshRotate, Suspend, SuspendPurge, ResetCommit,
       ChangeCommit, rows, Remove
  <2>2. /\ \A q \in Handlers \ {p} : req'[q] = req[q]
        /\ req'[p].at \notin {"evict", "create"}
    BY <1>0, <1>6 DEF RefreshStatus, RefreshRotate, Suspend, SuspendPurge, ResetCommit,
       ChangeCommit, Request
  <2>3. QED
    BY <1>0, <2>1, <2>2, CapQuiet
<1>7. ASSUME \/ RegisterPasskey \/ \E k \in keys : RemovePasskey(k)
             \/ \E s \in sessions : EndSession(s) \/ Expire(s)
             \/ \E s \in 0..created : RevokeOthers(s)
             \/ Cleanup \/ Activate
      PROVE  CapIInv'
  <2>1. created' = created /\ sessions' \subseteq sessions /\ req' = req
    BY <1>7 DEF RegisterPasskey, RemovePasskey, EndSession, Expire, RevokeOthers, Cleanup,
       Activate, rows, Remove
  <2>2. QED
    BY <1>0, <2>1, CapQuiet
<1>8. CASE UNCHANGED vars
  <2>1. created' = created /\ sessions' = sessions /\ req' = req
    BY <1>8 DEF vars, rows
  <2>2. QED
    BY <1>0, <2>1, CapQuiet
<1>9. QED
  BY <1>1, <1>2, <1>3, <1>4, <1>5, <1>6, <1>7, <1>8, NextSteps

\* At first nothing is marked.
LEMMA CapIInvInit == Init => CapIInv
<1> SUFFICES ASSUME Init PROVE CapIInv
  OBVIOUS
<1>1. PICK L : L = [p \in Handlers |-> 0]
  OBVIOUS
<1>2. created = 0 /\ sessions = {} /\ \A p \in Handlers : req[p].at = "idle"
  BY DEF Init, Idle
<1>3. Upto(sessions, 0) = {} /\ Cardinality({}) = 0
  BY <1>2, FS_EmptySet DEF Upto
<1>4. \A m : Due(m, {}, L) = {}
  BY <1>2 DEF Due, At
<1>5. L \in [Handlers -> 0..created]
  BY <1>1, <1>2
<1>6. ASSUME NEW m \in 0..created
      PROVE  (created - m) + Cardinality(Due(m, {}, L)) <= Cardinality(Handlers)
  <2>1. m = 0 /\ Cardinality(Due(m, {}, L)) = 0 /\ Cardinality(Handlers) \in Nat
    BY <1>2, <1>3, <1>4, HandlersCounted
  <2>2. QED
    BY <1>2, <2>1
<1>7. Cardinality(Upto(sessions, 0)) < Cap
  BY <1>3, SessionsAssumption
<1>8. 0 \in 0..created
  BY <1>2
<1>9. \A p \in Handlers : ~At(p, "create") /\ ~At(p, "evict")
  BY <1>2 DEF At
<1>10. Marks(0, {}, L)
  BY <1>5, <1>6, <1>7, <1>8, <1>9 DEF Marks
<1>11. QED
  BY <1>10 DEF CapIInv

-----------------------------------------------------------------------------
(* Logins that a reset overtook *)

\* The sessions opened with a password that a reset has replaced, and the logins
\* under way with one.
Stale == {s \in sessions : proved[s] \in 1..(resetTo - 1)}
Overtaken == {p \in Handlers :
  req[p].at \in LoginSteps /\ req[p].proof \in 1..(resetTo - 1)}

\* A login that was overtaken is under way or has opened its session; the reset
\* itself is a request beside them.
StaleIInv == Cardinality(Stale) + Cardinality(Overtaken) < Cardinality(Handlers)

\* Both are finite.
LEMMA StaleCounted ==
  ASSUME RowsOK
  PROVE  /\ IsFiniteSet(Stale) /\ Cardinality(Stale) \in Nat
         /\ IsFiniteSet(Overtaken) /\ Cardinality(Overtaken) \in Nat
         /\ Cardinality(Handlers) \in Nat
         /\ \A S \in SUBSET Stale : Cardinality(S) \in Nat /\ Cardinality(S) <= Cardinality(Stale)
         /\ \A S \in SUBSET Overtaken :
              Cardinality(S) \in Nat /\ Cardinality(S) <= Cardinality(Overtaken)
<1>1. Stale \subseteq sessions /\ Overtaken \subseteq Handlers
  BY DEF Stale, Overtaken
<1>2. IsFiniteSet(Stale) /\ IsFiniteSet(Overtaken)
  BY <1>1, SessionsFinite, HandlersCounted
<1>3. QED
  BY <1>2, HandlersCounted, FS_Subset, FS_CardinalityType

\* Steps that open no session, and let in only logins with the password there is
\* or with none.
LEMMA StaleQuiet ==
  ASSUME RowsOK, StaleIInv, resetTo' = resetTo, sessions' \subseteq sessions, proved' = proved,
         \A p \in Handlers : req'[p].at \in LoginSteps =>
           \/ req[p].at \in LoginSteps /\ req'[p].proof = req[p].proof
           \/ req'[p].proof \in {0, password}
  PROVE  StaleIInv'
<1>1. 0 \notin 1..(resetTo - 1) /\ password \notin 1..(resetTo - 1)
  BY DEF RowsOK
<1>2. Stale' \subseteq Stale /\ Overtaken' \subseteq Overtaken
  BY <1>1 DEF Stale, Overtaken
<1>3. QED
  BY <1>2, StaleCounted DEF StaleIInv

\* A session is opened: the login has become it.
LEMMA StaleCreated ==
  ASSUME RowsOK, StaleIInv, NEW p \in Handlers, CreateSession(p),
         req \in [Handlers -> Request]
  PROVE  StaleIInv'
<1>1. /\ At(p, "create") /\ sessions' = sessions \cup {created + 1}
      /\ proved' = Append(proved, req[p].proof) /\ resetTo' = resetTo
      /\ req' = [req EXCEPT ![p] = Idle]
  BY DEF CreateSession, account, Done
<1>2. created + 1 \notin Stale
  BY DEF Stale, RowsOK
<1>3. /\ proved'[created + 1] = req[p].proof
      /\ \A s \in sessions : proved'[s] = proved[s]
  <2>1. proved \in Seq(0..password) /\ Len(proved) = created /\ sessions \subseteq 1..created
        /\ created \in Nat
    BY DEF RowsOK
  <2>2. req[p].proof \in 0..password
    BY DEF Request
  <2>3. QED
    BY <1>1, <2>1, <2>2
<1>4. Stale' = Stale \cup (IF req[p].proof \in 1..(resetTo - 1) THEN {created + 1} ELSE {})
  <2>1. Stale' = {s \in sessions \cup {created + 1} : proved'[s] \in 1..(resetTo - 1)}
    BY <1>1 DEF Stale
  <2>2. QED
    BY <1>3, <2>1 DEF Stale
<1>5. Overtaken' = Overtaken \ {p}
  <2>1. \A q \in Handlers \ {p} : req'[q] = req[q]
    BY <1>1
  <2>2. req'[p].at \notin LoginSteps
    BY <1>1 DEF Idle, LoginSteps
  <2>3. QED
    BY <1>1, <2>1, <2>2 DEF Overtaken
<1>6. CASE req[p].proof \in 1..(resetTo - 1)
  <2>1. p \in Overtaken
    BY <1>1, <1>6 DEF Overtaken, At, LoginSteps
  <2>2. Cardinality(Overtaken') = Cardinality(Overtaken) - 1
    BY <1>5, <2>1, StaleCounted, FS_RemoveElement
  <2>3. Stale' = Stale \cup {created + 1}
    BY <1>4, <1>6
  <2>4. Cardinality(Stale') = Cardinality(Stale) + 1
    BY <1>2, <2>3, StaleCounted, FS_AddElement
  <2>5. QED
    BY <2>2, <2>4, StaleCounted DEF StaleIInv
<1>7. CASE req[p].proof \notin 1..(resetTo - 1)
  <2>1. Stale' = Stale /\ Overtaken' \subseteq Overtaken
    BY <1>4, <1>5, <1>7
  <2>2. QED
    BY <2>1, StaleCounted DEF StaleIInv
<1>8. QED
  BY <1>6, <1>7

\* A reset takes every session with it, and is no login.
LEMMA StaleReset ==
  ASSUME RowsOK, NEW p \in Handlers, ResetCommit(p), req \in [Handlers -> Request]
  PROVE  StaleIInv'
<1>1. sessions' = {} /\ req' = [req EXCEPT ![p] = Idle]
  BY DEF ResetCommit, Remove, Done
<1>2. Stale' = {} /\ Cardinality({}) = 0
  BY <1>1, FS_EmptySet DEF Stale
<1>3. req'[p].at \notin LoginSteps
  BY <1>1 DEF Idle, LoginSteps
<1>4. Overtaken' \subseteq Handlers \ {p}
  BY <1>3 DEF Overtaken
<1>5. Cardinality(Handlers \ {p}) = Cardinality(Handlers) - 1
  BY SessionsAssumption, FS_RemoveElement
<1>6. Cardinality(Overtaken') <= Cardinality(Handlers \ {p})
      /\ Cardinality(Overtaken') \in Nat /\ Cardinality(Handlers) \in Nat
  <2>1. Overtaken' \in SUBSET Handlers /\ Handlers \ {p} \in SUBSET Handlers
    BY <1>4
  <2>2. QED
    BY <1>4, <2>1, HandlersCounted
<1>7. QED
  BY <1>2, <1>5, <1>6 DEF StaleIInv

\* Every step keeps it.
LEMMA StaleStep ==
  ASSUME TypeOK, StaleIInv, [Next]_vars
  PROVE  StaleIInv'
<1> USE DEF At, Begin, Goto, Done, Idle
<1>0. req \in [Handlers -> Request] /\ (\A q \in Handlers : req[q] \in Request) /\ RowsOK
  BY TypeParts DEF TypeOK
<1>1. ASSUME NEW p \in Handlers,
             \/ LoginBegin(p) \/ OtherLoginBegin(p)
             \/ \E k \in keys : PasskeyBegin(p, k)
             \/ \E s \in sessions : RefreshBegin(p, s)
             \/ ResetBegin(p) \/ ChangeBegin(p)
      PROVE  StaleIInv'
  <2>1. resetTo' = resetTo /\ sessions' = sessions /\ proved' = proved
    BY <1>1 DEF LoginBegin, OtherLoginBegin, PasskeyBegin, RefreshBegin, ResetBegin,
       ChangeBegin, account, rows
  <2>2. /\ \A q \in Handlers \ {p} : req'[q] = req[q]
        /\ req'[p].proof \in {0, password}
    BY <1>0, <1>1 DEF LoginBegin, OtherLoginBegin, PasskeyBegin, RefreshBegin, ResetBegin,
       ChangeBegin
  <2>3. QED
    BY <1>0, <2>1, <2>2, StaleQuiet
<1>2. ASSUME NEW p \in Handlers,
             \/ CodeAccepted(p) \/ CodeAbandoned(p) \/ CountSignature(p) \/ EvictSessions(p)
      PROVE  StaleIInv'
  <2>1. resetTo' = resetTo /\ sessions' \subseteq sessions /\ proved' = proved
    BY <1>2 DEF CodeAccepted, CodeAbandoned, CountSignature, EvictSessions, account, rows, Remove
  <2>2. /\ \A q \in Handlers \ {p} : req'[q] = req[q]
        /\ req[p].at \in LoginSteps
        /\ req'[p].proof \in {0, req[p].proof}
    BY <1>0, <1>2 DEF CodeAccepted, CodeAbandoned, CountSignature, EvictSessions, Request,
       LoginSteps
  <2>3. QED
    BY <1>0, <2>1, <2>2, StaleQuiet
<1>3. ASSUME NEW p \in Handlers, IssueSession(p) \/ ListSessions(p)
      PROVE  StaleIInv'
  <2>1. /\ resetTo' = resetTo /\ sessions' = sessions /\ proved' = proved
        /\ req[p].at \in LoginSteps /\ MakeRoom(p, Cap - 1)
    BY <1>3 DEF IssueSession, ListSessions, account, rows, LoginSteps
  <2>2. req'[p].proof = req[p].proof /\ \A q \in Handlers \ {p} : req'[q] = req[q]
    BY <2>1, RoomAsked
  <2>3. QED
    BY <1>0, <2>1, <2>2, StaleQuiet
<1>4. ASSUME NEW p \in Handlers,
             \/ RefreshStatus(p) \/ RefreshRotate(p) \/ Suspend(p)
             \/ SuspendPurge(p) \/ ChangeCommit(p)
      PROVE  StaleIInv'
  <2>1. resetTo' = resetTo /\ sessions' \subseteq sessions /\ proved' = proved
    BY <1>4 DEF RefreshStatus, RefreshRotate, Suspend, SuspendPurge, ChangeCommit,
       account, rows, Remove
  <2>2. /\ \A q \in Handlers \ {p} : req'[q] = req[q]
        /\ req'[p].at \notin LoginSteps
    BY <1>0, <1>4 DEF RefreshStatus, RefreshRotate, Suspend, SuspendPurge, ChangeCommit,
       Request, LoginSteps
  <2>3. QED
    BY <1>0, <2>1, <2>2, StaleQuiet
<1>5. ASSUME \/ RegisterPasskey \/ \E k \in keys : RemovePasskey(k)
             \/ \E s \in sessions : EndSession(s) \/ Expire(s)
             \/ \E s \in 0..created : RevokeOthers(s)
             \/ Cleanup \/ Activate
      PROVE  StaleIInv'
  <2>1. resetTo' = resetTo /\ sessions' \subseteq sessions /\ proved' = proved /\ req' = req
    BY <1>5 DEF RegisterPasskey, RemovePasskey, EndSession, Expire, RevokeOthers, Cleanup,
       Activate, account, rows, Remove
  <2>2. QED
    BY <1>0, <2>1, StaleQuiet
<1>6. CASE UNCHANGED vars
  <2>1. resetTo' = resetTo /\ sessions' = sessions /\ proved' = proved /\ req' = req
    BY <1>6 DEF vars, account, rows
  <2>2. QED
    BY <1>0, <2>1, StaleQuiet
<1>7. QED
  BY <1>0, <1>1, <1>2, <1>3, <1>4, <1>5, <1>6, StaleCreated, StaleReset, NextSteps

-----------------------------------------------------------------------------

\* The type invariant of the sessions.
THEOREM SessionsTypeCorrect == Spec => []TypeOK
BY InitType, TypeStep, PTL DEF Spec

\* A session or a passkey that is gone stays gone, whatever refreshes and
\* sign-ins had found it (refresh, verifyAuthentication: updates by id).
THEOREM GoneIsForGood == Spec => GoneForGood
<1>1. TypeOK /\ [Next]_vars =>
        [/\ \A s \in 1..created : s \notin sessions => s \notin sessions'
         /\ \A k \in 1..made : k \notin keys => k \notin keys']_vars
  BY NothingReturns
<1>2. QED
  BY <1>1, SessionsTypeCorrect, PTL DEF Spec, GoneForGood

\* However logins interleave with each other and with everything that ends
\* sessions, each beyond the first adds at most one session to the cap, for any
\* cap and any number of requests at once (enforceSessionLimit reads, then
\* deletes, then the caller inserts).
THEOREM CapIsNearlyHeld == Spec => []CapNearlyHeld
<1>1. TypeOK /\ CapIInv => CapNearlyHeld
  BY TypeParts, MarksBound
<1>2. TypeOK /\ TypeOK' /\ CapIInv /\ [Next]_vars => CapIInv'
  BY CapIInvStep
<1>3. QED
  BY <1>1, <1>2, CapIInvInit, SessionsTypeCorrect, PTL DEF Spec

\* A session opened with a password that a reset has replaced is that of a login
\* the reset overtook, and there are fewer than requests at once (resetPassword
\* deletes the sessions there are).
THEOREM StaleLoginsAreBounded == Spec => []StaleLoginsBounded
<1>1. Init => StaleIInv
  <2> SUFFICES ASSUME Init PROVE StaleIInv
    OBVIOUS
  <2>1. Stale = {} /\ Overtaken = {}
    BY DEF Init, Stale, Overtaken, Idle, LoginSteps
  <2>2. Cardinality({}) = 0 /\ Cardinality(Handlers) \in Nat
    BY FS_EmptySet, HandlersCounted
  <2>3. Cardinality(Handlers) # 0
    BY SessionsAssumption, FS_EmptySet
  <2>4. QED
    BY <2>1, <2>2, <2>3 DEF StaleIInv
<1>2. TypeOK /\ StaleIInv /\ [Next]_vars => StaleIInv'
  BY StaleStep
<1>3. TypeOK /\ StaleIInv => StaleLoginsBounded
  <2> SUFFICES ASSUME TypeOK, StaleIInv PROVE StaleLoginsBounded
    OBVIOUS
  <2>1. RowsOK
    BY TypeParts
  <2>2. Cardinality(Stale) < Cardinality(Handlers)
    BY <2>1, StaleCounted DEF StaleIInv
  <2>3. QED
    BY <2>2 DEF StaleLoginsBounded, Stale
<1>4. QED
  BY <1>1, <1>2, <1>3, SessionsTypeCorrect, PTL DEF Spec

\* A suspended account gets new tokens only while the suspension is still
\* being carried out (updateUserStatus).
THEOREM SuspensionIsFinal == Spec => SuspensionStopsRefresh
<1>1. Init => RefreshesLost
  BY DEF Init, RefreshesLost
<1>2. RefreshesLost /\ [Next]_vars =>
        [\A p \in Handlers :
           /\ At(p, "rotate") /\ req'[p].at = "idle"
           /\ req[p].session \in sessions
           /\ status = "suspended"
           => \E q \in Handlers : At(q, "purge")]_vars
  BY RotatesUnderPurge
<1>3. TypeOK /\ RefreshesLost /\ [Next]_vars => RefreshesLost'
  BY RefreshesLostStep
<1>4. QED
  BY <1>1, <1>2, <1>3, SessionsTypeCorrect, PTL DEF Spec, SuspensionStopsRefresh

-----------------------------------------------------------------------------
(* The refresh tokens of one session *)

\* A logout that is about to be answered has ended the session.
GoodbyeAfterEnd == \A r \in Requests : Is(r, "goodbye") => ~live

Alone ==
  \A q, r \in Requests : ~Is(q, "idle") /\ ~Is(r, "idle") => q = r

\* The browser's token is the current one or the one before, which ceased to
\* be current no later than the last rotation.
JarKnown ==
  \/ jar = row.current
  \/ jar = row.previous /\ replaced[jar] <= row.rotatedAt

\* What the one request under way knows: the token it was sent is the
\* browser's; the rotation will keep it as the previous one; it ends the session
\* only for a token long replaced; and it answers with the current token.
Carries(r) ==
  /\ request[r].at \in {"sent", "delete", "sign"} => request[r].token = jar
  /\ request[r].at \in {"sign", "update"} => request[r].previous = jar
  /\ Is(r, "delete") => LongReplaced(jar)
  /\ Is(r, "reply") => request[r].token = row.current

OneAtATime ==
  ~overlap => /\ Alone
              /\ live => JarKnown /\ \A r \in Requests : Carries(r)

RotationIInv ==
  /\ RotationTypeOK
  /\ GoodbyeAfterEnd
  /\ row.rotatedAt <= now
  /\ OneAtATime

-----------------------------------------------------------------------------

\* The initial states: no request, and the browser holds the current token.
LEMMA RotationInitInv == RotationInit => RotationIInv
<1> SUFFICES ASSUME RotationInit PROVE RotationIInv
  OBVIOUS
<1> USE RotationAssumption DEF RotationInit, NoRequest, Token, NoToken
<1>1. RotationTypeOK
  <2>1. row \in Row /\ replaced \in [Token -> 0..MaxTime]
    BY DEF Row
  <2>2. NoRequest \in RequestType
    BY DEF RequestType
  <2>3. request \in [Requests -> RequestType] /\ \A r \in Requests : request[r] = NoRequest
    BY <2>2
  <2>4. \A r \in Requests : request[r].at = "idle" <=> request[r].token = NoToken
    BY <2>3
  <2>5. now \in Token /\ jar \in Token \cup {NoToken} /\ jar # NoToken
    OBVIOUS
  <2>6. live \in BOOLEAN /\ overlap \in BOOLEAN
    OBVIOUS
  <2>7. QED
    BY <2>1, <2>3, <2>4, <2>5, <2>6, Zenon DEF RotationTypeOK
<1>2. \A r \in Requests : Is(r, "idle")
  BY DEF Is
<1>3. OneAtATime
  BY <1>2 DEF OneAtATime, Alone, JarKnown, Carries, Is
<1>4. QED
  BY <1>1, <1>2, <1>3 DEF RotationIInv, GoodbyeAfterEnd, Is

\* A request that goes on as another well-typed one, and not from a logout,
\* keeps the part of the invariant about requests.
LEMMA RequestMoves ==
  ASSUME RotationTypeOK, GoodbyeAfterEnd, UNCHANGED live,
         NEW r \in Requests, NEW x \in RequestType, request' = [request EXCEPT ![r] = x],
         x.at = "idle" <=> x.token = NoToken, x.at # "goodbye"
  PROVE  /\ request' \in [Requests -> RequestType]
         /\ \A q \in Requests : request'[q].at = "idle" <=> request'[q].token = NoToken
         /\ GoodbyeAfterEnd'
BY DEF RotationTypeOK, GoodbyeAfterEnd, Is

\* What a request holds.
LEMMA RequestFields ==
  ASSUME RotationTypeOK, NEW r \in Requests
  PROVE  /\ request[r].token \in Token \cup {NoToken}
         /\ request[r].previous \in Token \cup {NoToken}
         /\ ~Is(r, "idle") => request[r].token \in Token
BY DEF RotationTypeOK, RequestType, Is

Moving == {"delete", "sign", "update", "reply"}

\* A request with some fields replaced is a request.
LEMMA StepReplaced ==
  ASSUME NEW f \in RequestType, NEW at \in Moving
  PROVE  /\ [f EXCEPT !.at = at] \in RequestType
         /\ [f EXCEPT !.at = at].at = at /\ [f EXCEPT !.at = at].token = f.token
BY DEF RequestType, Moving

\* So is one that holds another token.
LEMMA TokenReplaced ==
  ASSUME NEW f \in RequestType, NEW at \in Moving, NEW t \in Token
  PROVE  /\ [f EXCEPT !.at = at, !.token = t] \in RequestType
         /\ [f EXCEPT !.at = at, !.token = t].at = at
         /\ [f EXCEPT !.at = at, !.token = t].token = t
BY DEF RequestType, Moving

\* No token is not a token.
LEMMA NoTokenNone == NoToken \notin Token
BY RotationAssumption DEF Token, NoToken

\* The token is compared: the request goes on to sign, to delete, or is over.
LEMMA MatchTyped ==
  ASSUME RotationTypeOK, GoodbyeAfterEnd, NEW r \in Requests, Match(r)
  PROVE  /\ request' \in [Requests -> RequestType]
         /\ \A q \in Requests : request'[q].at = "idle" <=> request'[q].token = NoToken
         /\ GoodbyeAfterEnd'
<1> DEFINE t == request[r].token
           k == KeptBy(t)
           x == [request[r] EXCEPT !.at = "sign", !.previous = k]
           y == [request[r] EXCEPT !.at = "delete"]
<1>1. UNCHANGED live /\ t \in Token /\ request[r] \in RequestType
  BY RequestFields DEF Match, Is, RotationTypeOK
<1>2. k \in Token \cup {NoToken}
  BY DEF KeptBy, RotationTypeOK, Row
<1>3. CASE request' = [request EXCEPT ![r].at = "sign", ![r].previous = k]
  <2>1. request' = [request EXCEPT ![r] = x]
    BY <1>3 DEF RotationTypeOK
  <2>2. x \in RequestType /\ x.at = "sign" /\ x.token = t
    <3> HIDE DEF k
    <3>1. QED
      BY <1>1, <1>2 DEF RequestType
  <2> HIDE DEF x
  <2>3. QED
    BY <1>1, <2>1, <2>2, RequestMoves, NoTokenNone
<1>4. CASE request' = [request EXCEPT ![r].at = "delete"]
  <2>1. request' = [request EXCEPT ![r] = y]
    BY <1>4 DEF RotationTypeOK
  <2>2. y \in RequestType /\ y.at = "delete" /\ y.token = t
    BY <1>1, StepReplaced DEF Moving
  <2> HIDE DEF y
  <2>3. QED
    BY <1>1, <2>1, <2>2, RequestMoves, NoTokenNone
<1>5. CASE Over(r)
  <2>1. NoRequest \in RequestType /\ NoRequest.at = "idle" /\ NoRequest.token = NoToken
    BY DEF NoRequest, RequestType
  <2>2. QED
    BY <1>1, <1>5, <2>1, RequestMoves DEF Over
<1>6. QED
  BY <1>3, <1>4, <1>5 DEF Match

\* The new token is signed: the request holds it.
LEMMA SignTyped ==
  ASSUME RotationTypeOK, GoodbyeAfterEnd, NEW r \in Requests, Sign(r)
  PROVE  /\ request' \in [Requests -> RequestType]
         /\ \A q \in Requests : request'[q].at = "idle" <=> request'[q].token = NoToken
         /\ GoodbyeAfterEnd'
<1> DEFINE x == [request[r] EXCEPT !.at = "update", !.token = now]
<1>1. UNCHANGED live /\ now \in Token /\ request[r] \in RequestType
  BY DEF Sign, RotationTypeOK
<1>2. request' = [request EXCEPT ![r] = x]
  BY DEF Sign, RotationTypeOK
<1>3. x \in RequestType /\ x.at = "update" /\ x.token = now
  BY <1>1, TokenReplaced DEF Moving
<1> HIDE DEF x
<1>4. QED
  BY <1>1, <1>2, <1>3, RequestMoves, NoTokenNone

\* The row is updated, or the session has gone.
LEMMA UpdateTyped ==
  ASSUME RotationTypeOK, GoodbyeAfterEnd, NEW r \in Requests, Update(r)
  PROVE  /\ request' \in [Requests -> RequestType]
         /\ \A q \in Requests : request'[q].at = "idle" <=> request'[q].token = NoToken
         /\ GoodbyeAfterEnd'
         /\ row' \in Row /\ replaced' \in [Token -> 0..MaxTime]
         /\ row'.rotatedAt = now \/ UNCHANGED row
<1> DEFINE t == request[r].token
           v == request[r].previous
           x == [request[r] EXCEPT !.at = "reply"]
<1>1. UNCHANGED live /\ t \in Token /\ v \in Token \cup {NoToken} /\ request[r] \in RequestType
  BY RequestFields DEF Update, Is, RotationTypeOK
<1>2. CASE live
  <2>1. /\ row' = [current |-> t, previous |-> v, rotatedAt |-> now]
        /\ replaced' = IF t = row.current THEN replaced
                       ELSE [replaced EXCEPT ![row.current] = now]
        /\ request' = [request EXCEPT ![r].at = "reply"]
    BY <1>2 DEF Update
  <2>2. request' = [request EXCEPT ![r] = x]
    BY <2>1 DEF RotationTypeOK
  <2>3. x \in RequestType /\ x.at = "reply" /\ x.token = t
    BY <1>1, StepReplaced DEF Moving
  <2>4. now \in 0..MaxTime
    BY RotationAssumption DEF RotationTypeOK, Token
  <2>5. row' \in Row /\ row'.rotatedAt = now
    BY <1>1, <2>1, <2>4 DEF Row
  <2>6. replaced' \in [Token -> 0..MaxTime]
    BY <2>1, <2>4 DEF RotationTypeOK
  <2> HIDE DEF x
  <2>7. QED
    BY <1>1, <2>2, <2>3, <2>5, <2>6, RequestMoves, NoTokenNone
<1>3. CASE ~live
  <2>1. Over(r) /\ UNCHANGED <<row, replaced>>
    BY <1>3 DEF Update
  <2>2. NoRequest \in RequestType /\ NoRequest.at = "idle" /\ NoRequest.token = NoToken
    BY DEF NoRequest, RequestType
  <2>3. QED
    BY <1>1, <2>1, <2>2, RequestMoves DEF Over, RotationTypeOK
<1>4. QED
  BY <1>2, <1>3

\* Every step keeps the type invariant, with what a logout has done.
LEMMA RotationTypeStep ==
  ASSUME RotationTypeOK, GoodbyeAfterEnd, row.rotatedAt <= now, [RotationNext]_rotationVars
  PROVE  RotationTypeOK' /\ GoodbyeAfterEnd' /\ row'.rotatedAt <= now'
<1> DEFINE Kept == RotationTypeOK' /\ GoodbyeAfterEnd' /\ row'.rotatedAt <= now'
<1> USE DEF RotationTypeOK, history
<1>1. ASSUME NEW r \in Requests, Match(r) PROVE Kept
  BY <1>1, MatchTyped DEF Match
<1>2. ASSUME NEW r \in Requests, Sign(r) PROVE Kept
  BY <1>2, SignTyped DEF Sign
<1>3. ASSUME NEW r \in Requests, Update(r) PROVE Kept
  <2>1. now \in Nat /\ UNCHANGED <<now, live, jar, overlap>>
    BY <1>3 DEF Update, Token
  <2>2. QED
    BY <1>3, <2>1, UpdateTyped
<1> USE RotationAssumption DEF GoodbyeAfterEnd, Is, Over, NoRequest, RequestType, Row, Token, NoToken
<1>4. CASE UNCHANGED rotationVars
  BY <1>4 DEF rotationVars
<1>5. ASSUME NEW r \in Requests, NEW to \in {"sent", "logout"}, Send(r, to) PROVE Kept
  BY <1>5 DEF Send
<1>6. ASSUME NEW r \in Requests, Delete(r) PROVE Kept
  BY <1>6 DEF Delete
<1>7. ASSUME NEW r \in Requests, LogoutToken(r) PROVE Kept
  BY <1>7 DEF LogoutToken
<1>8. ASSUME NEW r \in Requests, Reply(r) PROVE Kept
  BY <1>8 DEF Reply, SetCookie, ClearCookie
<1>9. ASSUME NEW r \in Requests, LoseReply(r) PROVE Kept
  BY <1>9 DEF LoseReply
<1>10. CASE Tick
  BY <1>10 DEF Tick
<1>11. QED
  BY <1>1, <1>2, <1>3, <1>4, <1>5, <1>6, <1>7, <1>8, <1>9, <1>10 DEF RotationNext

-----------------------------------------------------------------------------

\* Another request than the one that steps is idle, and stays so.
LEMMA OthersIdle ==
  ASSUME RotationIInv, ~overlap, NEW r \in Requests, ~Is(r, "idle"),
         NEW q \in Requests, q # r
  PROVE  request[q].at = "idle"
BY DEF RotationIInv, OneAtATime, Alone, Is

\* A tab sends the browser's token, when nothing else is under way.
LEMMA SendStep ==
  ASSUME RotationIInv, ~overlap', NEW r \in Requests, NEW to \in {"sent", "logout"}, Send(r, to)
  PROVE  OneAtATime'
<1> USE DEF RotationIInv, RotationTypeOK, Is
<1>1. ~overlap /\ \A q \in Requests : Is(q, "idle")
  BY DEF Send
<1>2. /\ request'[r].at = to /\ request'[r].token = jar
      /\ \A q \in Requests : q # r => request'[q] = request[q]
  BY DEF Send, NoRequest
<1>3. Alone'
  BY <1>1, <1>2 DEF Alone
<1>4. ASSUME live' PROVE JarKnown'
  BY <1>1, <1>4 DEF Send, OneAtATime, JarKnown
<1>5. ASSUME NEW q \in Requests PROVE Carries(q)'
  BY <1>1, <1>2 DEF Carries, Send
<1>6. QED
  BY <1>3, <1>4, <1>5 DEF OneAtATime

\* What a single request decides.
LEMMA MatchStep ==
  ASSUME RotationIInv, ~overlap', NEW r \in Requests, Match(r)
  PROVE  OneAtATime'
<1> USE RotationAssumption DEF RotationIInv, RotationTypeOK, Is
<1>1. ~overlap /\ ~Is(r, "idle") /\ Alone
  BY DEF Match, history, OneAtATime
<1>2. UNCHANGED <<now, live, row, jar, replaced>>
  BY DEF Match, history
<1>3. \A q \in Requests : q # r => request[q].at = "idle" /\ request'[q] = request[q]
  BY <1>1, OthersIdle DEF Match, Over
<1>4. Alone'
  BY <1>3 DEF Alone
<1>5. ASSUME live' PROVE JarKnown' /\ Carries(r)'
  <2>1. live /\ JarKnown /\ request[r].token = jar
    BY <1>1, <1>2, <1>5 DEF Match, OneAtATime, Carries
  <2>2. JarKnown'
    BY <2>1, <1>2 DEF JarKnown
  <2>3. CASE jar = row.current \/ InGrace(jar)
    <3>1. KeptBy(jar) = jar
      BY <2>3 DEF KeptBy, InGrace
    <3>2. request' = [request EXCEPT ![r].at = "sign", ![r].previous = jar]
      BY <2>1, <2>3, <3>1 DEF Match
    <3>3. QED
      BY <2>1, <2>2, <3>2, <1>2 DEF Carries
  <2>4. CASE ~(jar = row.current \/ InGrace(jar))
    <3>1. request' = [request EXCEPT ![r].at = "delete"]
      BY <2>1, <2>4 DEF Match
    <3>2. jar # row.current /\ jar = row.previous /\ replaced[jar] <= row.rotatedAt
      BY <2>1, <2>4 DEF JarKnown
    <3>3. now - row.rotatedAt >= Grace
      BY <2>4, <3>2 DEF InGrace, Row, Token
    <3>4. replaced[jar] \in Nat
      BY <2>1 DEF Token, NoToken
    <3>5. now - replaced[jar] >= Grace
      BY <3>2, <3>3, <3>4 DEF Row, Token
    <3>6. LongReplaced(jar)'
      BY <3>2, <3>5, <1>2 DEF LongReplaced
    <3>7. QED
      BY <2>1, <2>2, <3>1, <3>6, <1>2 DEF Carries
  <2>5. QED
    BY <2>3, <2>4
<1>6. ASSUME NEW q \in Requests, q # r PROVE Carries(q)'
  BY <1>3, <1>6 DEF Carries
<1>7. QED
  BY <1>4, <1>5, <1>6 DEF OneAtATime

\* The row keeps the browser's token as the previous one, or as the current one
\* when the new token is signed in the same second.
LEMMA UpdateStep ==
  ASSUME RotationIInv, ~overlap', NEW r \in Requests, Update(r)
  PROVE  OneAtATime'
<1> USE RotationAssumption DEF RotationIInv, RotationTypeOK, Is
<1>1. ~overlap /\ ~Is(r, "idle") /\ Alone /\ UNCHANGED <<now, live, jar>>
  BY DEF Update, OneAtATime
<1>2. \A q \in Requests : q # r => request[q].at = "idle" /\ request'[q] = request[q]
  BY <1>1, OthersIdle DEF Update, Over
<1>3. Alone'
  BY <1>2 DEF Alone
<1>4. ASSUME live' PROVE JarKnown' /\ Carries(r)'
  <2> DEFINE t == request[r].token
  <2>1. live /\ JarKnown /\ request[r].previous = jar
    BY <1>1, <1>4 DEF Update, OneAtATime, Carries
  <2>2. /\ row' = [current |-> t, previous |-> jar, rotatedAt |-> now]
        /\ replaced' = IF t = row.current THEN replaced
                       ELSE [replaced EXCEPT ![row.current] = now]
        /\ request' = [request EXCEPT ![r].at = "reply"]
    BY <2>1 DEF Update
  <2>3. jar \in Token /\ row.current \in Token /\ row.rotatedAt \in Nat /\ now \in Nat
    BY <2>1 DEF Row, Token, NoToken
  <2>4. CASE jar = row.current
    <3>1. CASE t = row.current
      BY <1>1, <2>2, <2>4, <3>1 DEF JarKnown, Carries
    <3>2. CASE t # row.current
      <4>1. replaced'[jar] = now
        BY <2>2, <2>3, <2>4, <3>2
      <4>2. QED
        BY <1>1, <2>2, <2>3, <4>1 DEF JarKnown, Carries
    <3>3. QED
      BY <3>1, <3>2
  <2>5. CASE jar # row.current
    <3>1. replaced[jar] <= row.rotatedAt /\ replaced[jar] \in Nat
      BY <2>1, <2>3, <2>5 DEF JarKnown, Token
    <3>2. replaced'[jar] = replaced[jar]
      BY <2>2, <2>3, <2>5
    <3>3. replaced'[jar] <= now
      BY <2>3, <3>1, <3>2
    <3>4. QED
      BY <1>1, <2>2, <3>3 DEF JarKnown, Carries
  <2>6. QED
    BY <2>4, <2>5
<1>5. ASSUME NEW q \in Requests, q # r PROVE Carries(q)'
  BY <1>2, <1>5 DEF Carries
<1>6. QED
  BY <1>3, <1>4, <1>5 DEF OneAtATime

\* The other steps of a request that is alone.
LEMMA OtherSteps ==
  ASSUME RotationIInv, ~overlap', NEW r \in Requests,
         Delete(r) \/ Sign(r) \/ LogoutToken(r) \/ Reply(r) \/ LoseReply(r)
  PROVE  OneAtATime'
<1> USE RotationAssumption DEF RotationIInv, RotationTypeOK, Is
<1>1. ~overlap /\ ~Is(r, "idle") /\ Alone /\ UNCHANGED <<now, row, replaced>>
  BY DEF Delete, Sign, LogoutToken, Reply, SetCookie, ClearCookie, LoseReply, history,
     OneAtATime
<1>2. \A q \in Requests : q # r => request[q].at = "idle" /\ request'[q] = request[q]
  BY <1>1, OthersIdle DEF Delete, Sign, LogoutToken, Reply, LoseReply, Over
<1>3. Alone'
  BY <1>2 DEF Alone
<1>4. ASSUME live' PROVE JarKnown' /\ Carries(r)'
  <2>1. live /\ JarKnown /\ Carries(r)
    BY <1>1, <1>4 DEF Delete, Sign, LogoutToken, Reply, LoseReply, OneAtATime
  <2>2. CASE Sign(r)
    BY <1>1, <2>1, <2>2 DEF Sign, JarKnown, Carries
  <2>3. CASE LoseReply(r)
    BY <1>1, <2>1, <2>3 DEF LoseReply, Over, NoRequest, JarKnown, Carries
  <2>4. CASE Reply(r)
    <3>1. Is(r, "reply")
      BY <2>1, <2>4 DEF Reply, SetCookie, ClearCookie, GoodbyeAfterEnd
    <3>2. jar' = row.current
      BY <2>1, <2>4, <3>1 DEF Reply, SetCookie, ClearCookie, Carries
    <3>3. QED
      BY <1>1, <2>4, <3>2 DEF Reply, Over, NoRequest, JarKnown, Carries
  <2>5. ~Delete(r) /\ ~LogoutToken(r)
    BY <1>4 DEF Delete, LogoutToken
  <2>6. QED
    BY <2>2, <2>3, <2>4, <2>5
<1>5. ASSUME NEW q \in Requests, q # r PROVE Carries(q)'
  BY <1>2, <1>5 DEF Carries
<1>6. QED
  BY <1>3, <1>4, <1>5 DEF OneAtATime

\* Time passes: a token long replaced stays so.
LEMMA TickStep ==
  ASSUME RotationIInv, ~overlap', Tick
  PROVE  OneAtATime'
<1> USE RotationAssumption DEF RotationIInv, RotationTypeOK, Is
<1>1. UNCHANGED <<live, row, jar, replaced, overlap, request>> /\ now' = now + 1
  BY DEF Tick, history
<1>2. ASSUME live PROVE LongReplaced(jar) => LongReplaced(jar)'
  <2>1. now \in Nat /\ replaced[jar] \in Nat
    BY <1>2 DEF Token, NoToken
  <2>2. QED
    BY <1>1, <2>1 DEF LongReplaced
<1>3. QED
  BY <1>1, <1>2 DEF OneAtATime, Alone, JarKnown, Carries

\* Every step preserves the inductive invariant.
LEMMA RotationInvStep == RotationIInv /\ [RotationNext]_rotationVars => RotationIInv'
<1> SUFFICES ASSUME RotationIInv, [RotationNext]_rotationVars PROVE RotationIInv'
  OBVIOUS
<1>1. RotationTypeOK' /\ GoodbyeAfterEnd' /\ row'.rotatedAt <= now'
  BY RotationTypeStep DEF RotationIInv
<1>2. ASSUME overlap' PROVE OneAtATime'
  BY <1>2 DEF OneAtATime
<1>3. ASSUME ~overlap', RotationNext PROVE OneAtATime'
  BY <1>3, SendStep, MatchStep, UpdateStep, OtherSteps, TickStep DEF RotationNext
<1>4. ASSUME UNCHANGED rotationVars PROVE OneAtATime'
  BY <1>4 DEF rotationVars, history, RotationIInv, OneAtATime, Alone, JarKnown, Carries, LongReplaced, Is
<1>5. OneAtATime'
  BY <1>2, <1>3, <1>4
<1>6. QED
  BY <1>1, <1>5 DEF RotationIInv

\* A step that ends the session is a deletion for the token the request was
\* sent, or the browser's own logout.
LEMMA EndsLongReplaced ==
  ASSUME RotationIInv, [RotationNext]_rotationVars, NEW r \in Requests, EndsSession(r), ~overlap
  PROVE  LongReplaced(request[r].token)
<1>1. live /\ Is(r, "delete")
  BY DEF EndsSession
<1>2. Carries(r)
  BY <1>1 DEF RotationIInv, OneAtATime
<1>3. QED
  BY <1>1, <1>2 DEF Carries, Is

\* The type invariant of the rotation.
THEOREM RotationTypeCorrect == RotationSpec => []RotationTypeOK
<1>1. RotationIInv => RotationTypeOK
  BY DEF RotationIInv
<1>2. QED
  BY <1>1, RotationInitInv, RotationInvStep, PTL DEF RotationSpec

\* A browser that sends one request at a time never loses its session to a
\* token that was current less than a grace period ago (AuthService.refresh).
THEOREM RetryIsHonoured == RotationSpec => RetryHonoured
<1>1. RotationIInv /\ [RotationNext]_rotationVars =>
        [\A r \in Requests : EndsSession(r) /\ ~overlap => LongReplaced(request[r].token)]_rotationVars
  BY EndsLongReplaced
<1>2. QED
  BY <1>1, RotationInitInv, RotationInvStep, PTL DEF RotationSpec, RetryHonoured
=============================================================================
