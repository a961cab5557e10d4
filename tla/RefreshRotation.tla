--------------------------- MODULE RefreshRotation ---------------------------
(***************************************************************************)
(* The refresh tokens of one session, and the browser that holds them in a *)
(* cookie (AuthService.refresh and logout, AuthController).  Rotation      *)
(* happens in place: the row keeps the hash of the current token and, for  *)
(* a grace period, of the previous one.  A token that matches neither ends *)
(* the session.  Status and expiry are in Sessions.                        *)
(***************************************************************************)
EXTENDS Integers

CONSTANTS
  Requests,  \* bound: refreshes and logouts under way at once
  Grace,     \* REFRESH_GRACE_PERIOD_MS, in seconds
  MaxTime    \* bound: the clock stops there

ASSUME RotationAssumption ==
  /\ Grace \in Nat
  /\ MaxTime \in Nat \ {0}

\* A token is known by the second it is signed in: the payload of a session's
\* tokens differs in nothing else (iat and exp are in whole seconds).
Token == 1..MaxTime
NoToken == 0

VARIABLES
  now,       \* the clock, in seconds
  live,      \* whether the session exists
  row,       \* its refreshToken, previousRefreshToken and tokenRotatedAt
  jar,       \* the token in the browser's cookie, if any
  replaced,  \* history: when each token last ceased to be current
  overlap,   \* history: whether two requests were ever under way at once
  request    \* what each request is doing

history == <<replaced, overlap>>
rotationVars == <<now, live, row, jar, history, request>>

RequestType ==
  [at : {"idle", "sent", "delete", "sign", "update", "reply", "logout", "goodbye"},
   token : Token \cup {NoToken}, previous : Token \cup {NoToken}]
Row == [current : Token, previous : Token \cup {NoToken}, rotatedAt : 0..MaxTime]

NoRequest == [at |-> "idle", token |-> NoToken, previous |-> NoToken]

Is(r, step) == request[r].at = step
Over(r) == request' = [request EXCEPT ![r] = NoRequest]

\* The login: its token is signed in the first second.
RotationInit ==
  /\ now = 1
  /\ live = TRUE
  /\ row = [current |-> 1, previous |-> NoToken, rotatedAt |-> 0]
  /\ jar = 1
  /\ replaced = [t \in Token |-> 0]
  /\ overlap = FALSE
  /\ request = [r \in Requests |-> NoRequest]

-----------------------------------------------------------------------------

\* A tab sends the cookie; the request may take any time to be looked at.
Send(r, to) ==
  /\ Is(r, "idle")
  /\ jar # NoToken
  /\ request' = [request EXCEPT ![r] = [NoRequest EXCEPT !.at = to, !.token = jar]]
  /\ overlap' = (overlap \/ \E q \in Requests : ~Is(q, "idle"))
  /\ UNCHANGED <<now, live, row, jar, replaced>>

InGrace(t) ==
  /\ row.previous = t
  /\ now - row.rotatedAt < Grace

\* Mutant: a grace hit rolls the previous token on.
KeptAlways(t) == row.current

\* What the rotation will keep as the previous token.
KeptBy(t) == IF t = row.current THEN row.current ELSE row.previous

\* The row is read and the token compared; 401 when there is no session.
Match(r) ==
  LET t == request[r].token IN
  /\ Is(r, "sent")
  /\ \/ /\ live
        /\ t = row.current \/ InGrace(t)
        /\ request' = [request EXCEPT ![r].at = "sign", ![r].previous = KeptBy(t)]
     \/ /\ live
        /\ ~(t = row.current \/ InGrace(t))
        /\ request' = [request EXCEPT ![r].at = "delete"]
     \/ ~live /\ Over(r)
  /\ UNCHANGED <<now, live, row, jar, history>>

\* session.delete: a token that is neither ends the session.
Delete(r) ==
  /\ Is(r, "delete")
  /\ live' = FALSE
  /\ Over(r)
  /\ UNCHANGED <<now, row, jar, history>>

\* The new token is signed, and hashed before it is stored.
Sign(r) ==
  /\ Is(r, "sign")
  /\ request' = [request EXCEPT ![r].at = "update", ![r].token = now]
  /\ UNCHANGED <<now, live, row, jar, history>>

\* session.update by id, with the previous token as it was when matched;
\* it throws when the session has gone.
Update(r) ==
  LET t == request[r].token IN
  /\ Is(r, "update")
  /\ \/ /\ live
        /\ row' = [current |-> t, previous |-> request[r].previous,
                   rotatedAt |-> now]
        /\ replaced' = IF t = row.current THEN replaced
                       ELSE [replaced EXCEPT ![row.current] = now]
        /\ request' = [request EXCEPT ![r].at = "reply"]
     \/ ~live /\ Over(r) /\ UNCHANGED <<row, replaced>>
  /\ UNCHANGED <<now, live, jar, overlap>>

\* Logout asks only that the token is one of the session, however old; that
\* the session has gone already is no error.
LogoutToken(r) ==
  /\ Is(r, "logout")
  /\ live' = FALSE
  /\ request' = [request EXCEPT ![r].at = "goodbye"]
  /\ UNCHANGED <<now, row, jar, history>>

\* setAuthCookies and clearAuthCookies: replies of concurrent requests arrive
\* in any order, or are lost, and the browser keeps the token it has.
SetCookie(r) ==
  /\ Is(r, "reply")
  /\ jar' = request[r].token

ClearCookie(r) ==
  /\ Is(r, "goodbye")
  /\ jar' = NoToken

\* Mutant: a refresh answers like a logout.
ReplyClears(r) ==
  /\ request[r].at \in {"reply", "goodbye"}
  /\ jar' = NoToken
  /\ Over(r)
  /\ UNCHANGED <<now, live, row, history>>

Reply(r) ==
  /\ SetCookie(r) \/ ClearCookie(r)
  /\ Over(r)
  /\ UNCHANGED <<now, live, row, history>>

LoseReply(r) ==
  /\ request[r].at \in {"reply", "goodbye"}
  /\ Over(r)
  /\ UNCHANGED <<now, live, row, jar, history>>

Tick ==
  /\ now < MaxTime
  /\ now' = now + 1
  /\ UNCHANGED <<live, row, jar, history, request>>

RotationNext ==
  \/ \E r \in Requests :
       \/ Send(r, "sent") \/ Match(r) \/ Delete(r) \/ Sign(r) \/ Update(r)
       \/ Send(r, "logout") \/ LogoutToken(r)
       \/ Reply(r) \/ LoseReply(r)
  \/ Tick

RotationSpec == RotationInit /\ [][RotationNext]_rotationVars

-----------------------------------------------------------------------------
(* Properties *)

\* Type invariant; a request holds a token exactly when it is under way, and
\* the browser loses its cookie only once the session has ended.
RotationTypeOK ==
  /\ now \in Token
  /\ live \in BOOLEAN
  /\ row \in Row
  /\ jar \in Token \cup {NoToken}
  /\ jar = NoToken => ~live
  /\ replaced \in [Token -> 0..MaxTime]
  /\ overlap \in BOOLEAN
  /\ request \in [Requests -> RequestType]
  /\ \A r \in Requests : request[r].at = "idle" <=> request[r].token = NoToken

\* The token ceased to be current at least a grace period ago.
LongReplaced(t) == t # row.current /\ now - replaced[t] >= Grace

EndsSession(r) == Is(r, "delete") /\ live /\ ~live'

\* As long as the browser sends one request at a time, none ends the session
\* with a token that was current less than a grace period ago ("current or
\* grace-period previous"): a token whose reply was lost, however often, can be
\* presented again.
RetryHonoured ==
  [][\A r \in Requests :
       EndsSession(r) /\ ~overlap => LongReplaced(request[r].token)]_rotationVars
=============================================================================
