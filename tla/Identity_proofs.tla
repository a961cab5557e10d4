---------------------------- MODULE Identity_proofs ----------------------------
(***************************************************************************)
(* Proofs about Identity, for any addresses, Google accounts, requests at  *)
(* once, accounts and links.                                               *)
(***************************************************************************)
EXTENDS Identity, FiniteSetTheorems, TLAPS

Steps == {"idle", "create", "vdrop", "vnew", "verify", "drop", "rdrop", "rnew", "consume",
          "reset", "cdrop", "cnew", "taken", "change", "gcreate", "link", "setpw",
          "unlink", "join", "stamp"}

\* A request whatever the bounds.
AnyRequest == [at : Steps, user : Nat, email : Emails, token : Nat,
               subject : SUBSET Subjects]

\* The parts of the type invariant: the accounts and their links to Google;
\* the mailed links; the requests.
PeopleOK ==
  /\ created \in 0..MaxAccounts
  /\ DOMAIN users \subseteq 1..created /\ \A a \in DOMAIN users : users[a] \in User
  /\ \A a, b \in DOMAIN users : users[a].email = users[b].email => a = b
  /\ links \subseteq (DOMAIN users) \X Subjects
  /\ \A k, l \in links : k[2] = l[2] => k = l

LettersOK ==
  /\ mailed \in 0..MaxTokens
  /\ DOMAIN tokens \subseteq 1..mailed
  /\ \A t \in DOMAIN tokens : tokens[t] \in [kind : Kinds, email : Emails, user : 0..created]
  /\ invited \subseteq Emails /\ proven \subseteq Emails

RequestsOK ==
  /\ req \in [Handlers -> AnyRequest]
  /\ \A p \in Handlers : req[p].user \in 0..created /\ req[p].token \in 0..mailed

\* A link that can still be used is not spent; a request that deleted one is
\* the only one to have done so.
ResetsHeld ==
  /\ offered \subseteq 1..mailed /\ spent \subseteq offered /\ uses \in Nat
  /\ DOMAIN tokens \subseteq offered \ spent
  /\ \A p \in Handlers : req[p].at = "reset" =>
       req[p].token \in offered \ spent /\ req[p].token \notin DOMAIN tokens
  /\ \A p, q \in Handlers :
       p # q /\ req[p].at = "reset" /\ req[q].at = "reset" => req[p].token # req[q].token

Typed == PeopleOK /\ LettersOK /\ RequestsOK /\ ResetsHeld

\* The type invariant is its parts.
LEMMA TypedIsType == Typed => TypeOK
<1> SUFFICES ASSUME Typed PROVE TypeOK
  OBVIOUS
<1>1. ASSUME NEW e \in Emails PROVE Cardinality(Named(e)) <= 1
  <2>1. CASE Named(e) = {}
    BY <2>1, FS_EmptySet
  <2>2. CASE Named(e) # {}
    <3>1. PICK a : a \in Named(e)
      BY <2>2
    <3>2. Named(e) = {a}
      BY <3>1 DEF Typed, PeopleOK, Named
    <3>3. QED
      BY <3>2, FS_Singleton
  <2>3. QED
    BY <2>1, <2>2
<1>2. \A p \in Handlers : req[p] \in Request
  <2> SUFFICES ASSUME NEW p \in Handlers PROVE req[p] \in Request
    OBVIOUS
  <2>1. req[p] \in AnyRequest /\ req[p].user \in 0..created /\ req[p].token \in 0..mailed
    BY DEF Typed, RequestsOK
  <2>2. 0..created \subseteq 0..MaxAccounts /\ 0..mailed \subseteq 0..MaxTokens
    BY IdentityAssumption DEF Typed, PeopleOK, LettersOK
  <2>3. QED
    BY <2>1, <2>2 DEF AnyRequest, Request, Steps
<1>3. req \in [Handlers -> Request]
  BY <1>2 DEF Typed, RequestsOK
<1>4. QED
  BY <1>1, <1>3 DEF Typed, PeopleOK, LettersOK, RequestsOK, ResetsHeld, TypeOK

-----------------------------------------------------------------------------
(* How a request moves *)

\* p's request is now that one, the others are what they were.
Moved(p, at, user, email, token) ==
  /\ req' \in [Handlers -> AnyRequest]
  /\ req'[p].at = at /\ req'[p].user = user /\ req'[p].email = email
  /\ req'[p].token = token
  /\ \A q \in Handlers \ {p} : req'[q] = req[q]

\* A request becomes another one.
LEMMA Becomes ==
  ASSUME req \in [Handlers -> AnyRequest], NEW p \in Handlers, NEW x \in AnyRequest,
         req' = [req EXCEPT ![p] = x]
  PROVE  Moved(p, x.at, x.user, x.email, x.token)
BY DEF Moved

\* One field of a request changes.
LEMMA OneField ==
  ASSUME NEW x \in AnyRequest
  PROVE  /\ \A v \in Steps :
              LET y == [x EXCEPT !.at = v]
              IN  /\ y \in AnyRequest /\ y.at = v
                  /\ y.user = x.user /\ y.email = x.email /\ y.token = x.token
         /\ \A v \in Nat :
              LET y == [x EXCEPT !.user = v]
              IN  /\ y \in AnyRequest /\ y.user = v
                  /\ y.at = x.at /\ y.email = x.email /\ y.token = x.token
         /\ \A v \in Emails :
              LET y == [x EXCEPT !.email = v]
              IN  /\ y \in AnyRequest /\ y.email = v
                  /\ y.at = x.at /\ y.user = x.user /\ y.token = x.token
         /\ \A v \in Nat :
              LET y == [x EXCEPT !.token = v]
              IN  /\ y \in AnyRequest /\ y.token = v
                  /\ y.at = x.at /\ y.user = x.user /\ y.email = x.email
         /\ \A v \in SUBSET Subjects :
              LET y == [x EXCEPT !.subject = v]
              IN  /\ y \in AnyRequest
                  /\ y.at = x.at /\ y.user = x.user /\ y.email = x.email
                  /\ y.token = x.token
<1>1. \A v \in Steps :
         LET y == [x EXCEPT !.at = v]
         IN  /\ y \in AnyRequest /\ y.at = v
             /\ y.user = x.user /\ y.email = x.email /\ y.token = x.token
  BY DEF AnyRequest
<1>2. \A v \in Nat :
         LET y == [x EXCEPT !.user = v]
         IN  /\ y \in AnyRequest /\ y.user = v
             /\ y.at = x.at /\ y.email = x.email /\ y.token = x.token
  BY DEF AnyRequest
<1>3. \A v \in Emails :
         LET y == [x EXCEPT !.email = v]
         IN  /\ y \in AnyRequest /\ y.email = v
             /\ y.at = x.at /\ y.user = x.user /\ y.token = x.token
  BY DEF AnyRequest
<1>4. \A v \in Nat :
         LET y == [x EXCEPT !.token = v]
         IN  /\ y \in AnyRequest /\ y.token = v
             /\ y.at = x.at /\ y.user = x.user /\ y.email = x.email
  BY DEF AnyRequest
<1>5. \A v \in SUBSET Subjects :
         LET y == [x EXCEPT !.subject = v]
         IN  /\ y \in AnyRequest
             /\ y.at = x.at /\ y.user = x.user /\ y.email = x.email
             /\ y.token = x.token
  BY DEF AnyRequest
<1>6. QED
  BY <1>1, <1>2, <1>3, <1>4, <1>5

\* The address an idle request is given.
Nobody == Idle.email

\* What an idle request is.
LEMMA IdleFields ==
  /\ Idle \in AnyRequest /\ Nobody \in Emails
  /\ Idle.at = "idle" /\ Idle.user = 0 /\ Idle.email = Nobody /\ Idle.token = 0
<1>1. PICK none \in Emails : Idle = [at |-> "idle", user |-> 0, email |-> none,
                                     token |-> 0, subject |-> {}]
  BY IdentityAssumption DEF Idle
<1>2. QED
  BY <1>1 DEF Nobody, AnyRequest, Steps

\* A request is over.
LEMMA DoneMoves ==
  ASSUME req \in [Handlers -> AnyRequest], NEW p \in Handlers, Done(p)
  PROVE  Moved(p, "idle", 0, Nobody, 0)
<1>1. Moved(p, Idle.at, Idle.user, Idle.email, Idle.token)
  BY IdleFields, Becomes DEF Done
<1>2. QED
  BY <1>1, IdleFields

\* A request takes its next step.
LEMMA GotoMoves ==
  ASSUME req \in [Handlers -> AnyRequest], NEW p \in Handlers, NEW step \in Steps,
         Goto(p, step)
  PROVE  Moved(p, step, req[p].user, req[p].email, req[p].token)
<1>1. PICK r \in AnyRequest : r = req[p]
  OBVIOUS
<1>2. PICK x : x = [r EXCEPT !.at = step]
  OBVIOUS
<1>3. x \in AnyRequest /\ x.at = step /\ x.user = r.user /\ x.email = r.email
      /\ x.token = r.token
  BY <1>2, OneField
<1>4. req' = [req EXCEPT ![p] = x]
  BY <1>1, <1>2 DEF Goto
<1>5. Moved(p, x.at, x.user, x.email, x.token)
  BY <1>3, <1>4, Becomes
<1>6. QED
  BY <1>1, <1>3, <1>5

\* A request comes in.
LEMMA BeginMoves ==
  ASSUME req \in [Handlers -> AnyRequest], NEW p \in Handlers, NEW x \in AnyRequest,
         Begin(p, x)
  PROVE  req[p].at = "idle" /\ Moved(p, x.at, x.user, x.email, x.token)
BY Becomes DEF Begin, At

\* What it comes in with, apart from its step.

\* An address alone.
Addressed(step, e) == [Idle EXCEPT !.at = step, !.email = e]

\* It is a request of those.
LEMMA AddressRequest ==
  ASSUME NEW step \in Steps, NEW e \in Emails
  PROVE  /\ Addressed(step, e) \in AnyRequest
         /\ Addressed(step, e).at = step /\ Addressed(step, e).user = 0
         /\ Addressed(step, e).email = e /\ Addressed(step, e).token = 0
<1> DEFINE x0 == [Idle EXCEPT !.at = step]
           x1 == [x0 EXCEPT !.email = e]
<1>1. x1 = Addressed(step, e)
  BY DEF Addressed
<1>2. x0 \in AnyRequest /\ x0.at = step /\ x0.user = 0 /\ x0.email = Nobody
      /\ x0.token = 0
  BY IdleFields, OneField
<1> HIDE DEF x0
<1>3. x1 \in AnyRequest /\ x1.at = step /\ x1.user = 0 /\ x1.email = e
      /\ x1.token = 0
  BY <1>2, OneField
<1> HIDE DEF x1
<1>4. QED
  BY <1>1, <1>3

\* A link, and the address it was mailed to.
WithLink(step, t, e) == [Idle EXCEPT !.at = step, !.token = t, !.email = e]

\* It is a request of those.
LEMMA LinkRequest ==
  ASSUME NEW step \in Steps, NEW t \in Nat, NEW e \in Emails
  PROVE  /\ WithLink(step, t, e) \in AnyRequest
         /\ WithLink(step, t, e).at = step /\ WithLink(step, t, e).user = 0
         /\ WithLink(step, t, e).email = e /\ WithLink(step, t, e).token = t
<1> DEFINE x0 == [Idle EXCEPT !.at = step]
           x1 == [x0 EXCEPT !.token = t]
           x2 == [x1 EXCEPT !.email = e]
<1>1. x2 = WithLink(step, t, e)
  BY DEF WithLink
<1>2. x0 \in AnyRequest /\ x0.at = step /\ x0.user = 0 /\ x0.email = Nobody
      /\ x0.token = 0
  BY IdleFields, OneField
<1> HIDE DEF x0
<1>3. x1 \in AnyRequest /\ x1.at = step /\ x1.user = 0 /\ x1.email = Nobody
      /\ x1.token = t
  BY <1>2, OneField
<1> HIDE DEF x1
<1>4. x2 \in AnyRequest /\ x2.at = step /\ x2.user = 0 /\ x2.email = e
      /\ x2.token = t
  BY <1>3, OneField
<1> HIDE DEF x2
<1>5. QED
  BY <1>1, <1>4

\* An account and an address.
ToChange(step, a, e) == [Idle EXCEPT !.at = step, !.user = a, !.email = e]

\* It is a request of those.
LEMMA ChangeRequest ==
  ASSUME NEW step \in Steps, NEW a \in Nat, NEW e \in Emails
  PROVE  /\ ToChange(step, a, e) \in AnyRequest
         /\ ToChange(step, a, e).at = step /\ ToChange(step, a, e).user = a
         /\ ToChange(step, a, e).email = e /\ ToChange(step, a, e).token = 0
<1> DEFINE x0 == [Idle EXCEPT !.at = step]
           x1 == [x0 EXCEPT !.user = a]
           x2 == [x1 EXCEPT !.email = e]
<1>1. x2 = ToChange(step, a, e)
  BY DEF ToChange
<1>2. x0 \in AnyRequest /\ x0.at = step /\ x0.user = 0 /\ x0.email = Nobody
      /\ x0.token = 0
  BY IdleFields, OneField
<1> HIDE DEF x0
<1>3. x1 \in AnyRequest /\ x1.at = step /\ x1.user = a /\ x1.email = Nobody
      /\ x1.token = 0
  BY <1>2, OneField
<1> HIDE DEF x1
<1>4. x2 \in AnyRequest /\ x2.at = step /\ x2.user = a /\ x2.email = e
      /\ x2.token = 0
  BY <1>3, OneField
<1> HIDE DEF x2
<1>5. QED
  BY <1>1, <1>4

\* An account alone.
OfAccount(step, a) == [Idle EXCEPT !.at = step, !.user = a]

\* It is a request of those.
LEMMA AccountRequest ==
  ASSUME NEW step \in Steps, NEW a \in Nat
  PROVE  /\ OfAccount(step, a) \in AnyRequest
         /\ OfAccount(step, a).at = step /\ OfAccount(step, a).user = a
         /\ OfAccount(step, a).email = Nobody /\ OfAccount(step, a).token = 0
<1> DEFINE x0 == [Idle EXCEPT !.at = step]
           x1 == [x0 EXCEPT !.user = a]
<1>1. x1 = OfAccount(step, a)
  BY DEF OfAccount
<1>2. x0 \in AnyRequest /\ x0.at = step /\ x0.user = 0 /\ x0.email = Nobody
      /\ x0.token = 0
  BY IdleFields, OneField
<1> HIDE DEF x0
<1>3. x1 \in AnyRequest /\ x1.at = step /\ x1.user = a /\ x1.email = Nobody
      /\ x1.token = 0
  BY <1>2, OneField
<1> HIDE DEF x1
<1>4. QED
  BY <1>1, <1>3

\* A link with the account and the address it is for.
ToConfirm(step, t, a, e) == [Idle EXCEPT !.at = step, !.token = t, !.user = a, !.email = e]

\* It is a request of those.
LEMMA ConfirmRequest ==
  ASSUME NEW step \in Steps, NEW t \in Nat, NEW a \in Nat, NEW e \in Emails
  PROVE  /\ ToConfirm(step, t, a, e) \in AnyRequest
         /\ ToConfirm(step, t, a, e).at = step /\ ToConfirm(step, t, a, e).user = a
         /\ ToConfirm(step, t, a, e).email = e /\ ToConfirm(step, t, a, e).token = t
<1> DEFINE x0 == [Idle EXCEPT !.at = step]
           x1 == [x0 EXCEPT !.token = t]
           x2 == [x1 EXCEPT !.user = a]
           x3 == [x2 EXCEPT !.email = e]
<1>1. x3 = ToConfirm(step, t, a, e)
  BY DEF ToConfirm
<1>2. x0 \in AnyRequest /\ x0.at = step /\ x0.user = 0 /\ x0.email = Nobody
      /\ x0.token = 0
  BY IdleFields, OneField
<1> HIDE DEF x0
<1>3. x1 \in AnyRequest /\ x1.at = step /\ x1.user = 0 /\ x1.email = Nobody
      /\ x1.token = t
  BY <1>2, OneField
<1> HIDE DEF x1
<1>4. x2 \in AnyRequest /\ x2.at = step /\ x2.user = a /\ x2.email = Nobody
      /\ x2.token = t
  BY <1>3, OneField
<1> HIDE DEF x2
<1>5. x3 \in AnyRequest /\ x3.at = step /\ x3.user = a /\ x3.email = e
      /\ x3.token = t
  BY <1>4, OneField
<1> HIDE DEF x3
<1>6. QED
  BY <1>1, <1>5

\* What Google says of who signs in, and the account found.
FromGoogle(step, s, e, a) == [Idle EXCEPT !.at = step, !.subject = s, !.email = e, !.user = a]

\* It is a request of those.
LEMMA GoogleRequest ==
  ASSUME NEW step \in Steps, NEW s \in SUBSET Subjects, NEW e \in Emails, NEW a \in Nat
  PROVE  /\ FromGoogle(step, s, e, a) \in AnyRequest
         /\ FromGoogle(step, s, e, a).at = step /\ FromGoogle(step, s, e, a).user = a
         /\ FromGoogle(step, s, e, a).email = e /\ FromGoogle(step, s, e, a).token = 0
<1> DEFINE x0 == [Idle EXCEPT !.at = step]
           x1 == [x0 EXCEPT !.subject = s]
           x2 == [x1 EXCEPT !.email = e]
           x3 == [x2 EXCEPT !.user = a]
<1>1. x3 = FromGoogle(step, s, e, a)
  BY DEF FromGoogle
<1>2. x0 \in AnyRequest /\ x0.at = step /\ x0.user = 0 /\ x0.email = Nobody
      /\ x0.token = 0
  BY IdleFields, OneField
<1> HIDE DEF x0
<1>3. x1 \in AnyRequest /\ x1.at = step /\ x1.user = 0 /\ x1.email = Nobody
      /\ x1.token = 0
  BY <1>2, OneField
<1> HIDE DEF x1
<1>4. x2 \in AnyRequest /\ x2.at = step /\ x2.user = 0 /\ x2.email = e
      /\ x2.token = 0
  BY <1>3, OneField
<1> HIDE DEF x2
<1>5. x3 \in AnyRequest /\ x3.at = step /\ x3.user = a /\ x3.email = e
      /\ x3.token = 0
  BY <1>4, OneField
<1> HIDE DEF x3
<1>6. QED
  BY <1>1, <1>5

-----------------------------------------------------------------------------
(* How the accounts and the links change *)

\* The addresses a request may act at without having asked about them: their
\* owners answered for them.
Vouching == {"verify", "taken", "change", "gcreate", "join"}

\* A request that verifies an account, or moves one to an address, holds an
\* address that is proven.
ProvenHeld ==
  /\ VerifiedIsProven
  /\ \A p \in Handlers : req[p].at \in Vouching => req[p].email \in proven

Sound == Typed /\ ProvenHeld

\* Links go, none changes.
TokensShrink ==
  /\ DOMAIN tokens' \subseteq DOMAIN tokens
  /\ \A t \in DOMAIN tokens' : tokens'[t] = tokens[t]

\* What a function without some of its arguments still says.
LEMMA WithoutShrinks ==
  ASSUME NEW S, tokens' = Without(tokens, S)
  PROVE  TokensShrink /\ DOMAIN tokens' = DOMAIN tokens \ S
BY DEF Without, TokensShrink

\* An account is written: its columns are as typed, and its address is still
\* nobody else's.
LEMMA KeepTyped ==
  ASSUME Typed, NEW a \in DOMAIN users, UNCHANGED <<created, links>>
  PROVE  /\ \A field \in {"verified", "password"} :
              Keep(a, field, TRUE) =>
                /\ PeopleOK'
                /\ DOMAIN users' = DOMAIN users
                /\ \A b \in DOMAIN users : users'[b].email = users[b].email
                /\ field = "verified" => users'[a].verified
                /\ field = "password" => users'[a].verified = users[a].verified
                /\ \A b \in DOMAIN users \ {a} : users'[b] = users[b]
         /\ \A e \in Emails :
              Keep(a, "email", e) /\ Named(e) \subseteq {a} =>
                /\ PeopleOK'
                /\ DOMAIN users' = DOMAIN users
                /\ users'[a].email = e
                /\ \A b \in DOMAIN users \ {a} : users'[b] = users[b]
<1>0. PeopleOK
  BY DEF Typed
<1>1. users[a] \in User
  BY <1>0 DEF PeopleOK
<1>2. ASSUME NEW field \in {"verified", "password"}, Keep(a, field, TRUE)
      PROVE  /\ PeopleOK'
             /\ DOMAIN users' = DOMAIN users
             /\ \A b \in DOMAIN users : users'[b].email = users[b].email
             /\ field = "verified" => users'[a].verified
             /\ field = "password" => users'[a].verified = users[a].verified
             /\ \A b \in DOMAIN users \ {a} : users'[b] = users[b]
  <2> DEFINE v == [users[a] EXCEPT ![field] = TRUE]
  <2>1. /\ v \in User /\ v.email = users[a].email
        /\ field = "verified" => v.verified
        /\ field = "password" => v.verified = users[a].verified
    <3>1. CASE field = "verified"
      BY <1>1, <3>1 DEF User
    <3>2. CASE field = "password"
      BY <1>1, <3>2 DEF User
    <3>3. QED
      BY <3>1, <3>2
  <2>2. users' = [users EXCEPT ![a] = v]
    BY <1>2 DEF Keep
  <2> HIDE DEF v
  <2>3. DOMAIN users' = DOMAIN users /\ users'[a] = v
        /\ \A b \in DOMAIN users \ {a} : users'[b] = users[b]
    BY <2>2
  <2>4. PeopleOK'
    BY <1>0, <2>1, <2>3 DEF PeopleOK
  <2>5. QED
    BY <2>1, <2>3, <2>4
<1>3. ASSUME NEW e \in Emails, Keep(a, "email", e), Named(e) \subseteq {a}
      PROVE  /\ PeopleOK'
             /\ DOMAIN users' = DOMAIN users
             /\ users'[a].email = e
             /\ \A b \in DOMAIN users \ {a} : users'[b] = users[b]
  <2> DEFINE v == [users[a] EXCEPT !["email"] = e]
  <2>1. v \in User /\ v.email = e
    BY <1>1 DEF User
  <2>2. users' = [users EXCEPT ![a] = v]
    BY <1>3 DEF Keep
  <2> HIDE DEF v
  <2>3. DOMAIN users' = DOMAIN users /\ users'[a] = v
        /\ \A b \in DOMAIN users \ {a} : users'[b] = users[b]
    BY <2>2
  <2>4. PeopleOK'
    BY <1>0, <1>3, <2>1, <2>3 DEF PeopleOK, Named
  <2>5. QED
    BY <2>1, <2>3, <2>4
<1>4. QED
  BY <1>2, <1>3

\* An account is created at a free address.
LEMMA InsertTyped ==
  ASSUME Typed, NEW r \in User, Named(r.email) = {}, created < MaxAccounts, Insert(r),
         UNCHANGED links
  PROVE  /\ PeopleOK'
         /\ created' = created + 1
         /\ \A b \in DOMAIN users' :
              \/ b \in DOMAIN users /\ users'[b] = users[b]
              \/ users'[b] = r
<1>0. PeopleOK /\ created \in Nat /\ MaxAccounts \in Nat
  BY IdentityAssumption DEF Typed, PeopleOK
<1>1. /\ created' = created + 1 /\ created' \in 0..MaxAccounts
      /\ DOMAIN users' = DOMAIN users \cup {created + 1}
      /\ users'[created + 1] = r
      /\ \A b \in DOMAIN users : users'[b] = users[b]
  BY <1>0 DEF Insert, PeopleOK
<1>2. DOMAIN users' \subseteq 1..created'
  BY <1>0, <1>1 DEF PeopleOK
<1>3. \A a, b \in DOMAIN users' : users'[a].email = users'[b].email => a = b
  BY <1>0, <1>1 DEF PeopleOK, Named
<1>4. links' \subseteq (DOMAIN users') \X Subjects
  BY <1>0, <1>1 DEF PeopleOK
<1>5. QED
  BY <1>0, <1>1, <1>2, <1>3, <1>4 DEF PeopleOK

\* The links mailed and the addresses known of, when links only go.
LEMMA LettersStay ==
  ASSUME Typed, PeopleOK', TokensShrink, created <= created', mailed' = mailed,
         invited' \subseteq Emails, proven' \subseteq Emails
  PROVE  LettersOK'
<1>1. created \in Nat /\ created' \in Nat /\ mailed \in Nat /\ MaxTokens \in Nat
  BY IdentityAssumption DEF Typed, PeopleOK, LettersOK
<1>2. ASSUME NEW t \in DOMAIN tokens'
      PROVE  t \in 1..mailed' /\ tokens'[t] \in [kind : Kinds, email : Emails, user : 0..created']
  BY <1>1 DEF Typed, LettersOK, TokensShrink
<1>3. QED
  BY <1>1, <1>2 DEF Typed, LettersOK

\* A link is mailed.
LEMMA NewTokenTyped ==
  ASSUME Typed, NEW kind \in Kinds, NEW e \in Emails, NEW a \in 0..created,
         NewToken(kind, e, a), UNCHANGED <<people, invited, spent, uses, proven>>
  PROVE  /\ LettersOK' /\ PeopleOK'
         /\ mailed' = mailed + 1 /\ offered' = offered \cup {mailed + 1}
         /\ DOMAIN tokens' = DOMAIN tokens \cup {mailed + 1}
<1>0. mailed \in Nat /\ MaxTokens \in Nat /\ DOMAIN tokens \subseteq 1..mailed
  BY IdentityAssumption DEF Typed, LettersOK
<1>1. /\ mailed' = mailed + 1 /\ mailed' \in 0..MaxTokens
      /\ offered' = offered \cup {mailed + 1}
      /\ DOMAIN tokens' = DOMAIN tokens \cup {mailed + 1}
      /\ tokens'[mailed + 1] = [kind |-> kind, email |-> e, user |-> a]
      /\ \A t \in DOMAIN tokens : tokens'[t] = tokens[t]
  BY <1>0 DEF NewToken
<1>2. created' = created /\ users' = users /\ links' = links /\ invited' = invited
      /\ proven' = proven
  BY DEF people
<1>3. PeopleOK'
  BY <1>2 DEF Typed, PeopleOK
<1>4. ASSUME NEW t \in DOMAIN tokens'
      PROVE  t \in 1..mailed' /\ tokens'[t] \in [kind : Kinds, email : Emails, user : 0..created']
  BY <1>0, <1>1, <1>2 DEF Typed, LettersOK
<1>5. QED
  BY <1>1, <1>2, <1>3, <1>4 DEF Typed, LettersOK

-----------------------------------------------------------------------------
(* What a step must show *)

\* The verified accounts stay at proven addresses when what is verified anew,
\* or moved, is.
AccountsProven ==
  \A a \in DOMAIN users' : users'[a].verified =>
    \/ users'[a].email \in proven'
    \/ /\ a \in DOMAIN users
       /\ users'[a].email = users[a].email /\ users'[a].verified = users[a].verified

\* What every step does but the deletion of a reset link and its use: nothing
\* is spent, and a link that appears is new.
Ordinary ==
  /\ PeopleOK' /\ LettersOK' /\ AccountsProven
  /\ created <= created' /\ mailed <= mailed' /\ proven \subseteq proven'
  /\ UNCHANGED <<spent, uses>>
  /\ offered \subseteq offered' /\ offered' \subseteq 1..mailed'
  /\ DOMAIN tokens' \subseteq DOMAIN tokens \cup (offered' \ offered)

\* The others' requests stay what they were.
LEMMA OthersTyped ==
  ASSUME Typed, PeopleOK', LettersOK', created <= created', mailed <= mailed',
         NEW q \in Handlers, req'[q] = req[q]
  PROVE  req'[q].user \in 0..created' /\ req'[q].token \in 0..mailed'
<1>1. req[q].user \in 0..created /\ req[q].token \in 0..mailed
  BY DEF Typed, RequestsOK
<1>2. created \in Nat /\ created' \in Nat /\ mailed \in Nat /\ mailed' \in Nat
  BY DEF Typed, PeopleOK, LettersOK
<1>3. QED
  BY <1>1, <1>2

\* A request moves on but to its use of a reset link.
LEMMA MoveSound ==
  ASSUME Sound, Ordinary, NEW p \in Handlers, NEW at, NEW u \in 0..created', NEW e,
         NEW t \in 0..mailed', Moved(p, at, u, e, t), at # "reset",
         at \in Vouching => e \in proven'
  PROVE  Sound'
<1>0. Typed /\ ProvenHeld
  BY DEF Sound
<1>1. RequestsOK'
  <2>1. ASSUME NEW q \in Handlers PROVE req'[q].user \in 0..created' /\ req'[q].token \in 0..mailed'
    BY <1>0, OthersTyped DEF Moved, Ordinary
  <2>2. QED
    BY <2>1 DEF RequestsOK, Moved
<1>2. ResetsHeld'
  <2>1. \A q \in Handlers : req'[q].at = "reset" => q # p /\ req'[q] = req[q]
    BY DEF Moved
  <2>2. QED
    BY <1>0, <2>1 DEF Ordinary, Typed, ResetsHeld
<1>3. ProvenHeld'
  BY <1>0 DEF Ordinary, AccountsProven, ProvenHeld, VerifiedIsProven, Moved
<1>4. QED
  BY <1>1, <1>2, <1>3 DEF Sound, Typed, Ordinary

\* No request moves.
LEMMA StaySound ==
  ASSUME Sound, Ordinary, UNCHANGED req
  PROVE  Sound'
<1>0. Typed /\ ProvenHeld
  BY DEF Sound
<1>1. RequestsOK'
  <2>1. ASSUME NEW q \in Handlers PROVE req'[q].user \in 0..created' /\ req'[q].token \in 0..mailed'
    BY <1>0, OthersTyped DEF Ordinary
  <2>2. QED
    BY <1>0, <2>1 DEF RequestsOK, Typed
<1>2. ResetsHeld'
  BY <1>0 DEF Ordinary, Typed, ResetsHeld
<1>3. ProvenHeld'
  BY <1>0 DEF Ordinary, AccountsProven, ProvenHeld, VerifiedIsProven
<1>4. QED
  BY <1>1, <1>2, <1>3 DEF Sound, Typed, Ordinary

\* When nothing but the proven addresses and the request changes, or links go.
LEMMA QuietSteps ==
  ASSUME Sound, UNCHANGED <<people, mailed, ledger>>, TokensShrink,
         invited' \subseteq Emails, proven \subseteq proven', proven' \subseteq Emails
  PROVE  Ordinary
<1>0. Typed
  BY DEF Sound
<1>1. /\ created' = created /\ users' = users /\ links' = links /\ mailed' = mailed
      /\ offered' = offered /\ spent' = spent /\ uses' = uses
  BY DEF people, ledger
<1>2. PeopleOK' /\ created <= created' /\ mailed <= mailed'
  BY <1>0, <1>1 DEF Typed, PeopleOK, LettersOK
<1>3. LettersOK'
  BY <1>0, <1>1, <1>2, LettersStay
<1>4. AccountsProven
  BY <1>1 DEF AccountsProven
<1>5. QED
  BY <1>0, <1>1, <1>2, <1>3, <1>4 DEF Ordinary, Typed, ResetsHeld, TokensShrink

\* When only accounts change, and stay well-formed.
LEMMA PeopleSteps ==
  ASSUME Sound, UNCHANGED <<letters, ledger>>, PeopleOK', AccountsProven,
         created <= created', proven \subseteq proven', proven' \subseteq Emails
  PROVE  Ordinary
<1>0. Typed
  BY DEF Sound
<1>1. /\ mailed' = mailed /\ tokens' = tokens /\ invited' = invited
      /\ offered' = offered /\ spent' = spent /\ uses' = uses
  BY DEF letters, ledger
<1>2. TokensShrink /\ invited' \subseteq Emails
  BY <1>0, <1>1 DEF Typed, LettersOK, TokensShrink
<1>3. LettersOK' /\ mailed <= mailed'
  BY <1>0, <1>1, <1>2, LettersStay DEF Typed, LettersOK
<1>4. QED
  BY <1>0, <1>1, <1>2, <1>3 DEF Ordinary, Typed, ResetsHeld, TokensShrink

-----------------------------------------------------------------------------
(* The requests that come in, end, or wait *)

\* What a step may know of the present.
LEMMA Known ==
  ASSUME Sound
  PROVE  /\ Typed /\ PeopleOK /\ LettersOK /\ RequestsOK /\ ResetsHeld /\ ProvenHeld
         /\ created \in Nat /\ mailed \in Nat /\ MaxTokens \in Nat /\ MaxAccounts \in Nat
         /\ req \in [Handlers -> AnyRequest]
         /\ proven \subseteq Emails /\ invited \subseteq Emails
         /\ \A a \in DOMAIN users : a \in 0..created /\ users[a] \in User
         /\ \A t \in DOMAIN tokens :
              t \in 0..mailed /\ tokens[t].email \in Emails /\ tokens[t].user \in 0..created
         /\ \A p \in Handlers : /\ req[p].at \in Steps /\ req[p].email \in Emails
                                /\ req[p].user \in 0..created /\ req[p].token \in 0..mailed
                                /\ req[p].subject \subseteq Subjects
<1>1. Typed /\ PeopleOK /\ LettersOK /\ RequestsOK /\ ResetsHeld /\ ProvenHeld
  BY DEF Sound, Typed
<1>2. /\ created \in Nat /\ mailed \in Nat /\ MaxTokens \in Nat /\ MaxAccounts \in Nat
      /\ req \in [Handlers -> AnyRequest]
      /\ proven \subseteq Emails /\ invited \subseteq Emails
  BY <1>1, IdentityAssumption DEF PeopleOK, LettersOK, RequestsOK
<1>3. \A a \in DOMAIN users : a \in 0..created /\ users[a] \in User
  BY <1>1, <1>2 DEF PeopleOK
<1>4. \A t \in DOMAIN tokens :
        t \in 0..mailed /\ tokens[t].email \in Emails /\ tokens[t].user \in 0..created
  BY <1>1, <1>2 DEF LettersOK
<1>5. \A p \in Handlers : /\ req[p].at \in Steps /\ req[p].email \in Emails
                          /\ req[p].user \in 0..created /\ req[p].token \in 0..mailed
                          /\ req[p].subject \subseteq Subjects
  BY <1>1 DEF RequestsOK, AnyRequest
<1>6. QED
  BY <1>1, <1>2, <1>3, <1>4, <1>5

\* A request that comes in with what there is, at an address that is proven
\* when it is to be vouched for.
LEMMA BeginSound ==
  ASSUME Sound, NEW p \in Handlers, NEW x \in AnyRequest, Begin(p, x),
         UNCHANGED <<people, letters, ledger>>, proven \subseteq proven',
         proven' \subseteq Emails, x.at # "reset", x.user \in 0..created,
         x.token \in 0..mailed, x.at \in Vouching => x.email \in proven'
  PROVE  Sound'
<1>1. created' = created /\ mailed' = mailed /\ tokens' = tokens /\ invited' = invited
  BY DEF people, letters
<1>2. Ordinary
  BY <1>1, Known, QuietSteps DEF letters, TokensShrink
<1>3. Moved(p, x.at, x.user, x.email, x.token)
  BY Known, BeginMoves
<1>4. QED
  BY <1>1, <1>2, <1>3, MoveSound

\* Every request that is let in, for an address, an account or a link.
Asks(p) ==
  \/ \E e \in Emails :
       \/ RegisterBegin(p, e) \/ ResendBegin(p, e) \/ ForgotBegin(p, e)
       \/ AcceptBegin(p, e)
       \/ \E a \in DOMAIN users : RequestChange(p, a, e)
  \/ \E t \in DOMAIN tokens : VerifyBegin(p, t) \/ ResetBegin(p, t) \/ ConfirmBegin(p, t)
  \/ \E g \in Subjects : GoogleBegin(p, g)
  \/ \E a \in DOMAIN users : SetPassword(p, a) \/ DisconnectBegin(p, a)

\* None is let in to write at an address that nobody answered for.
LEMMA AsksSound ==
  ASSUME Sound, NEW p \in Handlers, Asks(p)
  PROVE  Sound'
<1>0. /\ {"create", "vdrop", "rdrop", "join", "cdrop", "verify", "consume", "taken",
          "drop", "gcreate", "link", "setpw", "unlink"} \subseteq Steps
      /\ 0 \in Nat /\ 0 \in 0..created /\ 0 \in 0..mailed /\ {} \in SUBSET Subjects
  BY Known DEF Steps
<1>1. ASSUME NEW e \in Emails, RegisterBegin(p, e) \/ ResendBegin(p, e) \/ ForgotBegin(p, e)
      PROVE  Sound'
  <2>1. PICK step \in {"create", "vdrop", "rdrop"} : Begin(p, Addressed(step, e))
    BY <1>1 DEF RegisterBegin, ResendBegin, ForgotBegin, Addressed
  <2>2. PICK x \in AnyRequest : /\ x = Addressed(step, e)
                                /\ x.at = step /\ x.user = 0 /\ x.token = 0
    BY <1>0, AddressRequest
  <2>3. x.at \notin Vouching /\ x.at # "reset"
    BY <2>2 DEF Vouching
  <2>4. UNCHANGED <<people, letters, ledger, proven>>
    BY <1>1 DEF RegisterBegin, ResendBegin, ForgotBegin
  <2>5. QED
    BY <1>0, <2>1, <2>2, <2>3, <2>4, Known, BeginSound
<1>2. ASSUME NEW e \in Emails, AcceptBegin(p, e)
      PROVE  Sound'
  <2>1. /\ Begin(p, Addressed("join", e))
        /\ UNCHANGED <<people, letters, ledger>> /\ proven' = proven \cup {e}
    BY <1>2 DEF AcceptBegin, Addressed
  <2>2. PICK x \in AnyRequest : /\ x = Addressed("join", e)
                                /\ x.at = "join" /\ x.user = 0 /\ x.email = e /\ x.token = 0
    BY <1>0, AddressRequest
  <2>3. QED
    BY <1>0, <2>1, <2>2, Known, BeginSound
<1>3. ASSUME NEW e \in Emails, NEW a \in DOMAIN users, RequestChange(p, a, e)
      PROVE  Sound'
  <2>0. a \in Nat /\ a \in 0..created
    BY Known
  <2>1. Begin(p, ToChange("cdrop", a, e)) /\ UNCHANGED <<people, letters, ledger, proven>>
    BY <1>3 DEF RequestChange, ToChange
  <2>2. PICK x \in AnyRequest : /\ x = ToChange("cdrop", a, e)
                                /\ x.at = "cdrop" /\ x.user = a /\ x.token = 0
    BY <1>0, <2>0, ChangeRequest
  <2>3. x.at \notin Vouching
    BY <2>2 DEF Vouching
  <2>4. QED
    BY <1>0, <2>0, <2>1, <2>2, <2>3, Known, BeginSound
<1>4. ASSUME NEW t \in DOMAIN tokens, VerifyBegin(p, t) \/ ResetBegin(p, t)
      PROVE  Sound'
  <2>0. t \in Nat /\ t \in 0..mailed /\ tokens[t].email \in Emails
    BY Known
  <2>1. PICK step \in {"verify", "consume"} :
          /\ Begin(p, WithLink(step, t, tokens[t].email))
          /\ step = "verify" => proven' = proven \cup {tokens[t].email}
          /\ step = "consume" => proven' = proven
    <3>1. CASE VerifyBegin(p, t)
      BY <3>1 DEF VerifyBegin, WithLink
    <3>2. CASE ResetBegin(p, t)
      BY <3>2 DEF ResetBegin, WithLink
    <3>3. QED
      BY <1>4, <3>1, <3>2
  <2>2. PICK x \in AnyRequest :
          /\ x = WithLink(step, t, tokens[t].email)
          /\ x.at = step /\ x.user = 0 /\ x.email = tokens[t].email /\ x.token = t
    BY <1>0, <2>0, LinkRequest
  <2>3. UNCHANGED <<people, letters, ledger>>
    BY <1>4 DEF VerifyBegin, ResetBegin
  <2>4. x.at # "reset" /\ (x.at \in Vouching => x.email \in proven')
        /\ proven \subseteq proven' /\ proven' \subseteq Emails
    BY <2>0, <2>1, <2>2, Known DEF Vouching
  <2>5. QED
    BY <1>0, <2>0, <2>1, <2>2, <2>3, <2>4, BeginSound
<1>5. ASSUME NEW t \in DOMAIN tokens, ConfirmBegin(p, t)
      PROVE  Sound'
  <2>0. /\ t \in Nat /\ t \in 0..mailed /\ tokens[t].email \in Emails
        /\ tokens[t].user \in Nat /\ tokens[t].user \in 0..created
    BY Known
  <2>1. PICK step \in {"taken", "drop"} :
          Begin(p, ToConfirm(step, t, tokens[t].user, tokens[t].email))
    BY <1>5 DEF ConfirmBegin, ToConfirm
  <2>2. PICK x \in AnyRequest :
          /\ x = ToConfirm(step, t, tokens[t].user, tokens[t].email)
          /\ x.at = step /\ x.user = tokens[t].user /\ x.email = tokens[t].email
          /\ x.token = t
    BY <1>0, <2>0, ConfirmRequest
  <2>3. UNCHANGED <<people, letters, ledger>> /\ proven' = proven \cup {tokens[t].email}
    BY <1>5 DEF ConfirmBegin
  <2>4. x.at # "reset" /\ x.email \in proven'
        /\ proven \subseteq proven' /\ proven' \subseteq Emails
    BY <2>0, <2>2, <2>3, Known
  <2>5. QED
    BY <2>0, <2>1, <2>2, <2>3, <2>4, BeginSound
<1>6. ASSUME NEW g \in Subjects, GoogleBegin(p, g)
      PROVE  Sound'
  <2>0. EmailOf[g] \in Emails /\ {g} \in SUBSET Subjects
    BY IdentityAssumption
  <2>1. PICK step \in {"gcreate", "link"}, a \in 0..created :
          Begin(p, FromGoogle(step, {g}, EmailOf[g], a))
    <3>1. CASE Named(EmailOf[g]) = {}
      <4>1. Begin(p, FromGoogle("gcreate", {g}, EmailOf[g], 0))
        BY <1>6, <3>1 DEF GoogleBegin, FromGoogle
      <4>2. QED
        BY <1>0, <4>1
    <3>2. CASE Named(EmailOf[g]) # {}
      <4>1. PICK a : a = CHOOSE b \in Named(EmailOf[g]) : TRUE
        OBVIOUS
      <4>2. a \in 0..created
        BY <3>2, <4>1, Known DEF Named
      <4>3. Begin(p, FromGoogle("link", {g}, EmailOf[g], a))
        BY <1>6, <3>2, <4>1 DEF GoogleBegin, FromGoogle
      <4>4. QED
        BY <4>2, <4>3
    <3>3. QED
      BY <3>1, <3>2
  <2>2. a \in Nat
    BY Known
  <2>3. PICK x \in AnyRequest :
          /\ x = FromGoogle(step, {g}, EmailOf[g], a)
          /\ x.at = step /\ x.user = a /\ x.email = EmailOf[g] /\ x.token = 0
    BY <1>0, <2>0, <2>2, GoogleRequest
  <2>4. UNCHANGED <<people, letters, ledger>> /\ proven' = proven \cup {EmailOf[g]}
    BY <1>6 DEF GoogleBegin
  <2>5. x.at # "reset" /\ x.email \in proven'
        /\ proven \subseteq proven' /\ proven' \subseteq Emails
    BY <2>0, <2>3, <2>4, Known
  <2>6. QED
    BY <1>0, <2>1, <2>3, <2>4, <2>5, BeginSound
<1>7. ASSUME NEW a \in DOMAIN users, SetPassword(p, a) \/ DisconnectBegin(p, a)
      PROVE  Sound'
  <2>0. a \in Nat /\ a \in 0..created
    BY Known
  <2>1. PICK step \in {"setpw", "unlink"} : Begin(p, OfAccount(step, a))
    BY <1>7 DEF SetPassword, DisconnectBegin, OfAccount
  <2>2. PICK x \in AnyRequest : /\ x = OfAccount(step, a)
                                /\ x.at = step /\ x.user = a /\ x.token = 0
    BY <1>0, <2>0, AccountRequest
  <2>3. x.at # "reset" /\ x.at \notin Vouching
    BY <2>2 DEF Vouching
  <2>4. UNCHANGED <<people, letters, ledger, proven>>
    BY <1>7 DEF SetPassword, DisconnectBegin
  <2>5. QED
    BY <1>0, <2>0, <2>1, <2>2, <2>3, <2>4, Known, BeginSound
<1>8. QED
  BY <1>1, <1>2, <1>3, <1>4, <1>5, <1>6, <1>7 DEF Asks

\* A request that ends or goes on without acting at an address; its account
\* and link are those it had.
Quits(p) ==
  \/ Done(p)
  \/ \E step \in Steps \ (Vouching \cup {"reset"}) : Goto(p, step)

\* Whatever else such a step does, if that is in order.
LEMMA QuitSound ==
  ASSUME Sound, Ordinary, NEW p \in Handlers, Quits(p)
  PROVE  Sound'
<1>1. PICK at, u, e, t : /\ Moved(p, at, u, e, t) /\ at # "reset" /\ at \notin Vouching
                         /\ u \in 0..created /\ t \in 0..mailed
  <2>1. CASE Done(p)
    <3>1. Moved(p, "idle", 0, Nobody, 0)
      BY <2>1, Known, DoneMoves
    <3>2. "idle" # "reset" /\ "idle" \notin Vouching /\ 0 \in 0..created /\ 0 \in 0..mailed
      BY Known DEF Vouching
    <3>3. QED
      BY <3>1, <3>2
  <2>2. CASE \E step \in Steps \ (Vouching \cup {"reset"}) : Goto(p, step)
    <3>1. PICK step \in Steps \ (Vouching \cup {"reset"}) : Goto(p, step)
      BY <2>2
    <3>2. Moved(p, step, req[p].user, req[p].email, req[p].token)
      BY <3>1, Known, GotoMoves
    <3>3. QED
      BY <3>1, <3>2, Known
  <2>3. QED
    BY <2>1, <2>2 DEF Quits
<1>2. created <= created' /\ created' \in Nat /\ mailed <= mailed' /\ mailed' \in Nat
  BY DEF Ordinary, PeopleOK, LettersOK
<1>3. u \in 0..created' /\ t \in 0..mailed'
  BY <1>1, <1>2, Known
<1>4. QED
  BY <1>1, <1>3, MoveSound

\* The steps that only end a request or change the invite.
LEMMA QuietSound ==
  ASSUME Sound,
         \/ \E p \in Handlers : Throws(p) \/ CheckTaken(p) \/ StampInvite(p)
         \/ InviteGone \/ GenerateLink \/ \E e \in Emails : SendInvite(e)
  PROVE  Sound'
<1>0. "drop" \in Steps \ (Vouching \cup {"reset"}) /\ "change" \in Steps
  BY DEF Steps, Vouching
<1>1. ASSUME NEW p \in Handlers, Throws(p) \/ StampInvite(p)
      PROVE  Sound'
  <2>1. Done(p) /\ UNCHANGED <<people, mailed, tokens, ledger, proven>>
    BY <1>1 DEF Throws, StampInvite, letters
  <2>2. invited' \subseteq Emails
    BY <1>1, Known DEF Throws, StampInvite, letters
  <2>3. Ordinary
    BY <2>1, <2>2, Known, QuietSteps DEF TokensShrink
  <2>4. QED
    BY <2>1, <2>3, QuitSound DEF Quits
<1>2. ASSUME NEW p \in Handlers, CheckTaken(p)
      PROVE  Sound'
  <2>1. UNCHANGED <<people, mailed, tokens, invited, ledger, proven>> /\ At(p, "taken")
    BY <1>2 DEF CheckTaken, letters
  <2>2. Ordinary
    BY <2>1, Known, QuietSteps DEF TokensShrink
  <2>3. CASE Goto(p, "drop")
    BY <1>0, <2>2, <2>3, QuitSound DEF Quits
  <2>4. CASE Goto(p, "change")
    <3>1. Moved(p, "change", req[p].user, req[p].email, req[p].token)
      BY <1>0, <2>4, Known, GotoMoves
    <3>2. req[p].email \in proven'
      BY <2>1, Known DEF At, ProvenHeld, Vouching
    <3>3. req[p].user \in 0..created' /\ req[p].token \in 0..mailed'
      BY <2>1, Known DEF people
    <3>4. QED
      BY <2>2, <3>1, <3>2, <3>3, MoveSound
  <2>5. QED
    BY <1>2, <2>3, <2>4 DEF CheckTaken
<1>3. CASE InviteGone
  <2>1. invited' \subseteq Emails /\ UNCHANGED <<people, mailed, tokens, ledger, proven, req>>
    BY <1>3 DEF InviteGone
  <2>2. Ordinary
    BY <2>1, Known, QuietSteps DEF TokensShrink
  <2>3. QED
    BY <2>1, <2>2, StaySound
<1>4. CASE GenerateLink \/ \E e \in Emails : SendInvite(e)
  <2>1. PICK addresses \in SUBSET Emails : NewInvite(addresses)
    BY <1>4 DEF GenerateLink, SendInvite
  <2>2. /\ mailed' = mailed + 1 /\ mailed < MaxTokens /\ invited' \subseteq Emails
        /\ UNCHANGED <<people, tokens, ledger, proven, req>>
    BY <2>1 DEF NewInvite
  <2>3. /\ created' = created /\ users' = users /\ links' = links /\ offered' = offered
        /\ spent' = spent /\ uses' = uses
    BY <2>2 DEF people, ledger
  <2>4. PeopleOK' /\ AccountsProven /\ created <= created'
    BY <2>3, Known DEF PeopleOK, AccountsProven
  <2>5. mailed' \in 0..MaxTokens /\ mailed <= mailed' /\ 1..mailed \subseteq 1..mailed'
    BY <2>2, Known
  <2>6. LettersOK'
    BY <2>2, <2>3, <2>5, Known DEF LettersOK
  <2>7. Ordinary
    BY <2>2, <2>3, <2>4, <2>5, <2>6, Known DEF Ordinary, ResetsHeld
  <2>8. QED
    BY <2>2, <2>7, StaySound
<1>5. QED
  BY <1>1, <1>2, <1>3, <1>4

\* The steps that only delete links.
LEMMA DropsSound ==
  ASSUME Sound,
         \/ \E p \in Handlers :
              DropVerification(p) \/ DropToken(p) \/ DropReset(p) \/ DropChange(p)
         \/ \E t \in DOMAIN tokens : TokenExpires(t)
         \/ \E a \in DOMAIN users : AdminResetPassword(a)
  PROVE  Sound'
<1>1. PICK S : tokens' = Without(tokens, S)
  BY DEF DropVerification, DropToken, DropReset, DropChange, TokenExpires,
         AdminResetPassword
<1>2. UNCHANGED <<people, mailed, invited, ledger, proven>>
  BY DEF DropVerification, DropToken, DropReset, DropChange, TokenExpires,
         AdminResetPassword
<1>3. Ordinary
  BY <1>1, <1>2, Known, WithoutShrinks, QuietSteps
<1>4. {"vnew", "rnew", "cnew"} \subseteq Steps \ (Vouching \cup {"reset"})
  BY DEF Steps, Vouching
<1>5. (\E p \in Handlers : Quits(p)) \/ UNCHANGED req
  BY <1>4 DEF Quits, DropVerification, DropToken, DropReset, DropChange, TokenExpires,
              AdminResetPassword
<1>6. QED
  BY <1>3, <1>5, QuitSound, StaySound

\* The steps that mail a link.
LEMMA MailsSound ==
  ASSUME Sound, NEW p \in Handlers, NewVerification(p) \/ NewReset(p) \/ NewChange(p)
  PROVE  Sound'
<1>0. {"VERIFICATION", "PASSWORD_RESET", "EMAIL_CHANGE"} \subseteq Kinds
      /\ 0 \in 0..created /\ req[p].user \in 0..created /\ req[p].email \in Emails
  BY Known DEF Kinds
<1>1. PICK kind \in Kinds, a \in 0..created : NewToken(kind, req[p].email, a)
  BY <1>0 DEF NewVerification, NewReset, NewChange
<1>2. Done(p) /\ UNCHANGED <<people, invited, spent, uses, proven>>
  BY DEF NewVerification, NewReset, NewChange
<1>3. /\ LettersOK' /\ PeopleOK'
      /\ mailed' = mailed + 1 /\ offered' = offered \cup {mailed + 1}
      /\ DOMAIN tokens' = DOMAIN tokens \cup {mailed + 1}
  BY <1>0, <1>1, <1>2, Known, NewTokenTyped
<1>4. /\ offered \subseteq 1..mailed /\ mailed <= mailed' /\ offered' \subseteq 1..mailed'
      /\ mailed + 1 \notin offered
  BY <1>3, Known DEF ResetsHeld
<1>5. created' = created /\ users' = users
  BY <1>2 DEF people
<1>6. AccountsProven
  BY <1>5 DEF AccountsProven
<1>7. Ordinary
  BY <1>2, <1>3, <1>4, <1>5, <1>6, Known DEF Ordinary
<1>8. QED
  BY <1>2, <1>7, QuitSound DEF Quits

-----------------------------------------------------------------------------
(* The steps that write accounts *)

\* An account is created: only a vouched-for address starts verified.
LEMMA CreatesSound ==
  ASSUME Sound, NEW p \in Handlers,
         CreateUser(p) \/ CreateInvited(p) \/ CreateGoogleUser(p)
  PROVE  Sound'
<1>1. PICK r \in User :
        /\ Named(r.email) = {} /\ created < MaxAccounts /\ Insert(r)
        /\ r.verified => r.email \in proven
  <2>0. req[p].email \in Emails
    BY Known
  <2>1. CASE CreateUser(p)
    <3>1. PICK r : r = [email |-> req[p].email, verified |-> FALSE, password |-> TRUE,
                        method |-> "CREDENTIALS"]
      OBVIOUS
    <3>2. r \in User /\ r.email = req[p].email /\ r.verified = FALSE
      BY <2>0, <3>1 DEF User
    <3>3. QED
      BY <2>1, <3>1, <3>2 DEF CreateUser
  <2>2. CASE CreateInvited(p)
    <3>1. PICK r : r = [email |-> req[p].email, verified |-> TRUE, password |-> TRUE,
                        method |-> "CREDENTIALS"]
      OBVIOUS
    <3>2. r \in User /\ r.email = req[p].email
      BY <2>0, <3>1 DEF User
    <3>3. req[p].email \in proven
      BY <2>2, Known DEF CreateInvited, At, ProvenHeld, Vouching
    <3>4. QED
      BY <2>2, <3>1, <3>2, <3>3 DEF CreateInvited
  <2>3. CASE CreateGoogleUser(p)
    <3>1. PICK r : r = [email |-> req[p].email, verified |-> TRUE, password |-> FALSE,
                        method |-> "GOOGLE"]
      OBVIOUS
    <3>2. r \in User /\ r.email = req[p].email
      BY <2>0, <3>1 DEF User
    <3>3. req[p].email \in proven
      BY <2>3, Known DEF CreateGoogleUser, At, ProvenHeld, Vouching
    <3>4. QED
      BY <2>3, <3>1, <3>2, <3>3 DEF CreateGoogleUser
  <2>4. QED
    BY <2>1, <2>2, <2>3
<1>2. UNCHANGED <<links, letters, ledger, proven>>
  BY DEF CreateUser, CreateInvited, CreateGoogleUser
<1>3. /\ PeopleOK' /\ created' = created + 1
      /\ \A b \in DOMAIN users' :
           \/ b \in DOMAIN users /\ users'[b] = users[b]
           \/ users'[b] = r
  BY <1>1, <1>2, Known, InsertTyped
<1>4. AccountsProven
  BY <1>1, <1>2, <1>3 DEF AccountsProven
<1>5. created <= created'
  BY <1>3, Known
<1>6. Ordinary
  BY <1>2, <1>3, <1>4, <1>5, Known, PeopleSteps
<1>7. CASE CreateUser(p) \/ CreateInvited(p)
  <2>1. {"vdrop", "stamp"} \subseteq Steps \ (Vouching \cup {"reset"})
    BY DEF Steps, Vouching
  <2>2. Quits(p)
    BY <1>7, <2>1 DEF Quits, CreateUser, CreateInvited
  <2>3. QED
    BY <1>6, <2>2, QuitSound
<1>8. CASE CreateGoogleUser(p)
  <2>1. PICK q : q = req[p]
    OBVIOUS
  <2>2. q \in AnyRequest
    BY <2>1, Known
  <2>3. PICK y : y = [q EXCEPT !.at = "link"]
    OBVIOUS
  <2>4. "link" \in Steps /\ created + 1 \in Nat
    BY Known DEF Steps
  <2>5. y \in AnyRequest /\ y.at = "link" /\ y.user = q.user /\ y.email = q.email
        /\ y.token = q.token
    BY <2>2, <2>3, <2>4, OneField
  <2>6. PICK x : x = [y EXCEPT !.user = created + 1]
    OBVIOUS
  <2>7. x \in AnyRequest /\ x.at = "link" /\ x.user = created + 1 /\ x.token = q.token
    BY <2>4, <2>5, <2>6, OneField
  <2>8. req' = [req EXCEPT ![p].at = "link", ![p].user = created + 1]
    BY <1>8 DEF CreateGoogleUser
  <2>9. req' = [req EXCEPT ![p] = x]
    BY <2>1, <2>3, <2>6, <2>8, Known
  <2>10. Moved(p, x.at, x.user, x.email, x.token)
    BY <2>7, <2>9, Known, Becomes
  <2>11. x.user \in 0..created' /\ x.token \in 0..mailed'
    BY <1>2, <1>3, <2>1, <2>7, Known DEF letters
  <2>12. x.at # "reset" /\ x.at \notin Vouching
    BY <2>7 DEF Vouching
  <2>13. QED
    BY <1>6, <2>10, <2>11, <2>12, MoveSound
<1>9. QED
  BY <1>7, <1>8

\* A verified account is one whose owner followed a link, or was vouched for; a
\* new password changes no address.
LEMMA MarksSound ==
  ASSUME Sound,
         \/ \E p \in Handlers : Verify(p) \/ PasswordSet(p)
         \/ \E a \in DOMAIN users : ForceVerify(a)
  PROVE  Sound'
<1>1. PICK a \in DOMAIN users, field \in {"verified", "password"} :
        /\ Keep(a, field, TRUE) /\ UNCHANGED <<created, links, letters, ledger>>
        /\ proven \subseteq proven' /\ proven' \subseteq Emails
        /\ field = "verified" => users[a].email \in proven'
        /\ (\E p \in Handlers : Quits(p)) \/ UNCHANGED req
  <2>1. CASE \E p \in Handlers : Verify(p)
    <3>0. PICK p \in Handlers : Verify(p)
      BY <2>1
    <3>1. PICK a \in Named(req[p].email) : Keep(a, "verified", TRUE)
      BY <3>0 DEF Verify
    <3>2. a \in DOMAIN users /\ users[a].email = req[p].email
      BY <3>1 DEF Named
    <3>3. req[p].email \in proven
      BY <3>0, Known DEF Verify, At, ProvenHeld, Vouching
    <3>4. Quits(p)
      BY <3>0 DEF Verify, Quits, Steps, Vouching
    <3>5. UNCHANGED <<created, links, letters, ledger, proven>>
      BY <3>0 DEF Verify
    <3>6. QED
      BY <3>1, <3>2, <3>3, <3>4, <3>5, Known
  <2>2. CASE \E p \in Handlers : PasswordSet(p)
    <3>0. PICK p \in Handlers : PasswordSet(p)
      BY <2>2
    <3>1. req[p].user \in DOMAIN users /\ Keep(req[p].user, "password", TRUE)
          /\ Quits(p) /\ UNCHANGED <<created, links, letters, ledger, proven>>
      BY <3>0 DEF PasswordSet, Quits
    <3>2. QED
      BY <3>1, Known
  <2>3. CASE \E a \in DOMAIN users : ForceVerify(a)
    <3>1. PICK a \in DOMAIN users : ForceVerify(a)
      BY <2>3
    <3>2. users[a].email \in Emails
      BY Known DEF User
    <3>3. QED
      BY <3>1, <3>2, Known DEF ForceVerify
  <2>4. QED
    BY <2>1, <2>2, <2>3
<1>2. /\ PeopleOK' /\ DOMAIN users' = DOMAIN users
      /\ \A b \in DOMAIN users : users'[b].email = users[b].email
      /\ field = "password" => users'[a].verified = users[a].verified
      /\ \A b \in DOMAIN users \ {a} : users'[b] = users[b]
  BY <1>1, Known, KeepTyped
<1>3. AccountsProven
  BY <1>1, <1>2 DEF AccountsProven
<1>4. created <= created'
  BY <1>1, Known
<1>5. Ordinary
  BY <1>1, <1>2, <1>3, <1>4, PeopleSteps
<1>6. QED
  BY <1>1, <1>5, QuitSound, StaySound

\* The address changes to one that its owner confirmed and that is free.
LEMMA ChangeSound ==
  ASSUME Sound, NEW p \in Handlers, ChangeEmail(p)
  PROVE  Sound'
<1>1. PICK a \in DOMAIN users, e \in Emails :
        /\ Keep(a, "email", e) /\ Named(e) \subseteq {a} /\ e \in proven
  BY Known DEF ChangeEmail, At, ProvenHeld, Vouching
<1>2. UNCHANGED <<created, links, letters, ledger, proven>> /\ Quits(p)
  BY DEF ChangeEmail, Quits, Steps, Vouching
<1>3. /\ PeopleOK' /\ DOMAIN users' = DOMAIN users /\ users'[a].email = e
      /\ \A b \in DOMAIN users \ {a} : users'[b] = users[b]
  BY <1>1, <1>2, Known, KeepTyped
<1>4. AccountsProven
  BY <1>1, <1>2, <1>3 DEF AccountsProven
<1>5. created <= created'
  BY <1>2, Known
<1>6. Ordinary
  BY <1>2, <1>3, <1>4, <1>5, Known, PeopleSteps
<1>7. QED
  BY <1>2, <1>6, QuitSound

\* A link to Google is one of an account, and the only one of its subject.
LEMMA LinksSound ==
  ASSUME Sound, NEW p \in Handlers, LinkGoogle(p) \/ Disconnect(p)
  PROVE  Sound'
<1>1. /\ UNCHANGED <<created, users, letters, ledger, proven>> /\ Quits(p)
      /\ links' \subseteq (DOMAIN users) \X Subjects
      /\ \A k, l \in links' : k[2] = l[2] => k = l
  <2>1. CASE Disconnect(p)
    BY <2>1, Known DEF Disconnect, Quits, PeopleOK
  <2>2. CASE LinkGoogle(p)
    <3>1. PICK a \in DOMAIN users, S \in SUBSET Subjects :
            /\ a = req[p].user /\ S = req[p].subject
            /\ \A l \in links : l[2] \in S => l[1] = a
            /\ links' = {l \in links : l[1] # a} \cup ({a} \X S)
      BY <2>2, Known DEF LinkGoogle
    <3>2. links' \subseteq (DOMAIN users) \X Subjects
      BY <3>1, Known DEF PeopleOK
    <3>3. \A k, l \in links' : k[2] = l[2] => k = l
      BY <3>1, Known DEF PeopleOK
    <3>4. QED
      BY <2>2, <3>2, <3>3 DEF LinkGoogle, Quits
  <2>3. QED
    BY <2>1, <2>2
<1>2. PeopleOK' /\ AccountsProven /\ created <= created'
  BY <1>1, Known DEF PeopleOK, AccountsProven
<1>3. Ordinary
  BY <1>1, <1>2, Known, PeopleSteps
<1>4. QED
  BY <1>1, <1>3, QuitSound

\* An account goes, with its links to Google; the tokens of its address go or
\* stay.
LEMMA DeletesSound ==
  ASSUME Sound, NEW a \in DOMAIN users, DeleteOwnAccount(a) \/ AdminDeleteUser(a)
  PROVE  Sound'
<1>1. /\ users' = Without(users, {a})
      /\ links' \subseteq links /\ \A l \in links' : l[1] # a
      /\ UNCHANGED <<created, mailed, invited, ledger, proven, req>>
  BY DEF DeleteOwnAccount, AdminDeleteUser, letters
<1>2. DOMAIN users' = DOMAIN users \ {a} /\ \A b \in DOMAIN users' : users'[b] = users[b]
  BY <1>1 DEF Without
<1>3. PeopleOK' /\ AccountsProven /\ created <= created'
  <2>1. links' \subseteq (DOMAIN users') \X Subjects
    BY <1>1, <1>2, Known DEF PeopleOK
  <2>2. AccountsProven
    BY <1>1, <1>2 DEF AccountsProven
  <2>3. \A b, c \in DOMAIN users' : users'[b].email = users'[c].email => b = c
    BY <1>2, Known DEF PeopleOK
  <2>4. \A b \in DOMAIN users' : b \in 1..created /\ users'[b] \in User
    BY <1>2, Known DEF PeopleOK
  <2>5. created' = created /\ created \in 0..MaxAccounts /\ created <= created'
    BY <1>1, Known DEF PeopleOK
  <2>6. \A k, l \in links' : k[2] = l[2] => k = l
    BY <1>1, Known DEF PeopleOK
  <2>7. PeopleOK'
    BY <2>1, <2>3, <2>4, <2>5, <2>6 DEF PeopleOK
  <2>8. QED
    BY <2>2, <2>5, <2>7
<1>4. TokensShrink
  <2>1. CASE DeleteOwnAccount(a)
    BY <2>1, WithoutShrinks DEF DeleteOwnAccount
  <2>2. CASE AdminDeleteUser(a)
    BY <2>2 DEF AdminDeleteUser, letters, TokensShrink
  <2>3. QED
    BY <2>1, <2>2
<1>5. LettersOK'
  BY <1>1, <1>3, <1>4, Known, LettersStay
<1>6. Ordinary
  BY <1>1, <1>3, <1>4, <1>5, Known DEF Ordinary, ResetsHeld, TokensShrink, ledger
<1>7. QED
  BY <1>1, <1>6, StaySound

-----------------------------------------------------------------------------
(* The use of a reset link *)

\* The delete of the link's row lets one request through.
LEMMA ConsumeSound ==
  ASSUME Sound, NEW p \in Handlers, ConsumeToken(p)
  PROVE  Sound'
<1>1. /\ req[p].token \in DOMAIN tokens /\ tokens' = Without(tokens, {req[p].token})
      /\ Goto(p, "reset")
      /\ UNCHANGED <<people, mailed, invited, ledger, proven>>
  BY DEF ConsumeToken
<1>2. TokensShrink /\ DOMAIN tokens' = DOMAIN tokens \ {req[p].token}
  BY <1>1, WithoutShrinks
<1>3. Ordinary
  BY <1>1, <1>2, Known, QuietSteps
<1>4. Moved(p, "reset", req[p].user, req[p].email, req[p].token)
  BY <1>1, Known, GotoMoves DEF Steps
<1>5. RequestsOK'
  <2>1. created' = created /\ mailed' = mailed
    BY <1>1 DEF people
  <2>2. \A q \in Handlers : req'[q].user = req[q].user /\ req'[q].token = req[q].token
    BY <1>4 DEF Moved
  <2>3. QED
    BY <1>4, <2>1, <2>2, Known DEF RequestsOK, Moved
<1>6. ResetsHeld'
  <2>1. mailed' = mailed /\ offered' = offered /\ spent' = spent /\ uses' = uses
    BY <1>1 DEF ledger
  <2>2. req[p].token \in offered \ spent /\ req[p].token \notin DOMAIN tokens'
    BY <1>1, <1>2, Known DEF ResetsHeld
  <2>3. \A q \in Handlers \ {p} : req[q].at = "reset" => req[q].token # req[p].token
    BY <1>1, Known DEF ResetsHeld
  <2>4. QED
    BY <1>2, <1>4, <2>1, <2>2, <2>3, Known DEF ResetsHeld, Moved
<1>7. ProvenHeld'
  <2>1. \A q \in Handlers : req'[q].at \in Vouching => q # p
    BY <1>4 DEF Moved, Vouching
  <2>2. QED
    BY <1>3, <1>4, <2>1, Known DEF Ordinary, AccountsProven, ProvenHeld, VerifiedIsProven, Moved
<1>8. QED
  BY <1>3, <1>5, <1>6, <1>7 DEF Sound, Typed, Ordinary

\* The request that was let through sets the password, and spends its link.
LEMMA ResetSound ==
  ASSUME Sound, NEW p \in Handlers, ResetPassword(p)
  PROVE  Sound'
<1>1. PICK a \in DOMAIN users : Keep(a, "password", TRUE)
  BY DEF ResetPassword, Named
<1>2. /\ At(p, "reset") /\ spent' = spent \cup {req[p].token} /\ uses' = uses + 1
      /\ Done(p) /\ UNCHANGED <<created, links, letters, offered, proven>>
  BY DEF ResetPassword
<1>3. /\ PeopleOK' /\ DOMAIN users' = DOMAIN users
      /\ \A b \in DOMAIN users : users'[b].email = users[b].email
      /\ users'[a].verified = users[a].verified
      /\ \A b \in DOMAIN users \ {a} : users'[b] = users[b]
  BY <1>1, <1>2, Known, KeepTyped
<1>4. mailed' = mailed /\ tokens' = tokens /\ invited' = invited
  BY <1>2 DEF letters
<1>5. LettersOK'
  BY <1>2, <1>4, Known DEF LettersOK
<1>6. Moved(p, "idle", 0, Nobody, 0)
  BY <1>2, Known, DoneMoves
<1>7. RequestsOK'
  <2>1. \A q \in Handlers : req'[q].user \in 0..created /\ req'[q].token \in 0..mailed
    BY <1>6, Known DEF Moved
  <2>2. QED
    BY <1>2, <1>4, <1>6, <2>1 DEF RequestsOK, Moved
<1>8. ResetsHeld'
  <2>1. req[p].token \in offered \ spent /\ req[p].token \notin DOMAIN tokens
    BY <1>2, Known DEF ResetsHeld, At
  <2>2. \A q \in Handlers : req'[q].at = "reset" => q # p /\ req'[q] = req[q]
    BY <1>6 DEF Moved
  <2>3. \A q \in Handlers : req'[q].at = "reset" => req[q].token # req[p].token
    BY <1>2, <2>2, Known DEF ResetsHeld, At
  <2>4. uses' \in Nat
    BY <1>2, Known DEF ResetsHeld
  <2>5. QED
    BY <1>2, <1>4, <2>1, <2>2, <2>3, <2>4, Known DEF ResetsHeld
<1>9. ProvenHeld'
  <2>1. VerifiedIsProven'
    BY <1>2, <1>3, Known DEF ProvenHeld, VerifiedIsProven
  <2>2. \A q \in Handlers : req'[q].at \in Vouching => q # p /\ req'[q] = req[q]
    BY <1>6 DEF Moved, Vouching
  <2>3. QED
    BY <1>2, <2>1, <2>2, Known DEF ProvenHeld
<1>10. QED
  BY <1>3, <1>5, <1>7, <1>8, <1>9 DEF Sound, Typed

-----------------------------------------------------------------------------
(* The theorems *)

\* The initial state is sound.
LEMMA InitSound == Init => Sound
<1> SUFFICES ASSUME Init PROVE Sound
  OBVIOUS
<1>1. DOMAIN users = {} /\ DOMAIN tokens = {}
  BY DEF Init
<1>2. PeopleOK /\ LettersOK
  BY <1>1, IdentityAssumption DEF Init, PeopleOK, LettersOK
<1>3. \A p \in Handlers : req[p] = Idle
  BY DEF Init
<1>4. RequestsOK
  BY <1>3, IdleFields DEF Init, RequestsOK
<1>5. ResetsHeld
  BY <1>1, <1>3, IdleFields DEF Init, ResetsHeld
<1>6. ProvenHeld
  BY <1>1, <1>3, IdleFields DEF ProvenHeld, VerifiedIsProven, Vouching
<1>7. QED
  BY <1>2, <1>4, <1>5, <1>6 DEF Sound, Typed

\* Every step keeps it.
LEMMA NextSound == Sound /\ [Next]_vars => Sound'
<1> SUFFICES ASSUME Sound, [Next]_vars PROVE Sound'
  OBVIOUS
<1>1. ASSUME NEW p \in Handlers,
             \/ Throws(p) \/ Asks(p)
             \/ CreateUser(p) \/ DropVerification(p) \/ NewVerification(p)
             \/ Verify(p) \/ DropToken(p)
             \/ DropReset(p) \/ NewReset(p) \/ ConsumeToken(p) \/ ResetPassword(p)
             \/ DropChange(p) \/ NewChange(p) \/ CheckTaken(p) \/ ChangeEmail(p)
             \/ CreateGoogleUser(p) \/ LinkGoogle(p)
             \/ PasswordSet(p) \/ Disconnect(p) \/ CreateInvited(p) \/ StampInvite(p)
      PROVE  Sound'
  <2>1. CASE Asks(p)
    BY <2>1, AsksSound
  <2>2. CASE Throws(p) \/ CheckTaken(p) \/ StampInvite(p)
    BY <2>2, QuietSound
  <2>3. CASE DropVerification(p) \/ DropToken(p) \/ DropReset(p) \/ DropChange(p)
    BY <2>3, DropsSound
  <2>4. CASE NewVerification(p) \/ NewReset(p) \/ NewChange(p)
    BY <2>4, MailsSound
  <2>5. CASE CreateUser(p) \/ CreateInvited(p) \/ CreateGoogleUser(p)
    BY <2>5, CreatesSound
  <2>6. CASE Verify(p) \/ PasswordSet(p)
    BY <2>6, MarksSound
  <2>7. CASE ChangeEmail(p)
    BY <2>7, ChangeSound
  <2>8. CASE LinkGoogle(p) \/ Disconnect(p)
    BY <2>8, LinksSound
  <2>9. CASE ConsumeToken(p)
    BY <2>9, ConsumeSound
  <2>10. CASE ResetPassword(p)
    BY <2>10, ResetSound
  <2>11. QED
    BY <1>1, <2>1, <2>2, <2>3, <2>4, <2>5, <2>6, <2>7, <2>8, <2>9, <2>10
<1>2. ASSUME \/ \E e \in Emails : SendInvite(e)
             \/ GenerateLink \/ InviteGone
             \/ \E t \in DOMAIN tokens : TokenExpires(t)
             \/ \E a \in DOMAIN users :
                  \/ ForceVerify(a) \/ AdminResetPassword(a)
                  \/ DeleteOwnAccount(a) \/ AdminDeleteUser(a)
      PROVE  Sound'
  <2>1. CASE \E a \in DOMAIN users : DeleteOwnAccount(a) \/ AdminDeleteUser(a)
    BY <2>1, DeletesSound
  <2>2. CASE InviteGone \/ GenerateLink \/ \E e \in Emails : SendInvite(e)
    BY <2>2, QuietSound
  <2>3. CASE \/ \E t \in DOMAIN tokens : TokenExpires(t)
             \/ \E a \in DOMAIN users : AdminResetPassword(a)
    BY <2>3, DropsSound
  <2>4. CASE \E a \in DOMAIN users : ForceVerify(a)
    BY <2>4, MarksSound
  <2>5. QED
    BY <1>2, <2>1, <2>2, <2>3, <2>4
<1>3. CASE UNCHANGED vars
  BY <1>3 DEF vars, people, letters, ledger, Sound, Typed, PeopleOK, LettersOK, RequestsOK,
              ResetsHeld, ProvenHeld, VerifiedIsProven
<1>4. QED
  BY <1>1, <1>2, <1>3 DEF Next, Asks

\* Every reachable state is sound.
LEMMA AlwaysSound == Spec => []Sound
BY InitSound, NextSound, PTL DEF Spec

\* An address names one account at most and a Google subject signs into one at
\* most, whatever requests race (the unique constraints the handlers rely on),
\* and every variable has its type.
THEOREM IdentityTypeCorrect == Spec => []TypeOK
<1>1. Sound => TypeOK
  BY TypedIsType DEF Sound
<1>2. QED
  BY <1>1, AlwaysSound, PTL

\* An account counts as verified only at an address whose owner answered for
\* it, for any number of accounts, links and requests at once.
THEOREM VerifiedOwnerProven == Spec => []VerifiedIsProven
<1>1. Sound => VerifiedIsProven
  BY DEF Sound, ProvenHeld
<1>2. QED
  BY <1>1, AlwaysSound, PTL

\* The count of a set of one, as SingleUse counts it.
LEMMA OnceCounted == \A t : Once!Cardinality({t}) = 1
<1>1. \A S : Once!Cardinality(S) = Cardinality(S)
  BY DEF Once!Cardinality, Cardinality
<1>2. QED
  BY <1>1, FS_Singleton

\* A step offers one link, uses one or does neither.
LEMMA ResetStep == Sound /\ [Next]_vars => [Once!Next]_<<offered, spent, uses>>
<1> SUFFICES ASSUME Sound, [Next]_vars PROVE [Once!Next]_<<offered, spent, uses>>
  OBVIOUS
<1>1. ASSUME NEW p \in Handlers, ResetPassword(p) PROVE Once!Next
  <2>1. PICK t : t = req[p].token
    OBVIOUS
  <2>2. t \in offered \ spent /\ t \in Tokens
    BY <1>1, <2>1, Known DEF ResetPassword, At, ResetsHeld, LettersOK, Tokens
  <2>3. spent' = spent \cup {t} /\ uses' = uses + 1 /\ offered' = offered
    BY <1>1, <2>1 DEF ResetPassword
  <2>4. Once!Use({t})
    BY <2>2, <2>3, OnceCounted DEF Once!Use
  <2>5. {t} \in SUBSET Tokens
    BY <2>2
  <2>6. QED
    BY <2>4, <2>5 DEF Once!Next
<1>2. ASSUME NEW p \in Handlers, NewVerification(p) \/ NewReset(p) \/ NewChange(p)
      PROVE  Once!Next
  <2>1. mailed < MaxTokens /\ offered' = offered \cup {mailed + 1}
        /\ UNCHANGED <<spent, uses>>
    BY <1>2 DEF NewVerification, NewReset, NewChange, NewToken
  <2>2. mailed + 1 \in Tokens
    BY <2>1, Known DEF Tokens
  <2>3. Once!Offer({mailed + 1})
    BY <2>1 DEF Once!Offer
  <2>4. QED
    BY <2>2, <2>3 DEF Once!Next
<1>3. CASE UNCHANGED ledger
  BY <1>3 DEF ledger
<1>4. CASE UNCHANGED vars
  BY <1>4 DEF vars, ledger
<1>5. ASSUME NEW p \in Handlers, Asks(p)
      PROVE  UNCHANGED ledger
  BY <1>5 DEF Asks, RegisterBegin, ResendBegin, ForgotBegin, AcceptBegin, RequestChange,
              VerifyBegin, ResetBegin, ConfirmBegin, GoogleBegin, SetPassword,
              DisconnectBegin
<1>6. ASSUME NEW p \in Handlers,
             \/ Throws(p) \/ CreateUser(p) \/ DropVerification(p)
             \/ Verify(p) \/ DropToken(p) \/ DropReset(p) \/ ConsumeToken(p)
             \/ DropChange(p) \/ CheckTaken(p) \/ ChangeEmail(p)
             \/ CreateGoogleUser(p) \/ LinkGoogle(p)
             \/ PasswordSet(p) \/ Disconnect(p) \/ CreateInvited(p) \/ StampInvite(p)
      PROVE  UNCHANGED ledger
  BY <1>6 DEF Throws, CreateUser, DropVerification, Verify, DropToken, DropReset,
              ConsumeToken, DropChange, CheckTaken, ChangeEmail, CreateGoogleUser,
              LinkGoogle, PasswordSet, Disconnect, CreateInvited, StampInvite
<1>7. ASSUME \/ \E e \in Emails : SendInvite(e)
             \/ GenerateLink \/ InviteGone
             \/ \E t \in DOMAIN tokens : TokenExpires(t)
             \/ \E a \in DOMAIN users :
                  \/ ForceVerify(a) \/ AdminResetPassword(a)
                  \/ DeleteOwnAccount(a) \/ AdminDeleteUser(a)
      PROVE  UNCHANGED ledger
  BY <1>7 DEF SendInvite, GenerateLink, NewInvite, InviteGone, TokenExpires, ForceVerify,
              AdminResetPassword, DeleteOwnAccount, AdminDeleteUser
<1>8. QED
  BY <1>1, <1>2, <1>3, <1>4, <1>5, <1>6, <1>7 DEF Next, Asks

\* However many requests a mailed link starts, it sets a password once at most:
\* the resets implement SingleUse, for any links and requests.
THEOREM ResetsImplementSingleUse == Spec => ResetOnce
<1>1. Init => Once!Init
  BY DEF Init, Once!Init
<1>2. Spec => Init /\ [][Next]_vars
  BY DEF Spec
<1>3. QED
  BY <1>1, <1>2, ResetStep, AlwaysSound, PTL DEF ResetOnce, Once!Spec
=============================================================================
