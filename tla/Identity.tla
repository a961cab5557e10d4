------------------------------ MODULE Identity ------------------------------
(***************************************************************************)
(* Accounts and the addresses they stand for: registration, the links that *)
(* are mailed (verification, password reset, change of address), Google    *)
(* sign-in and its link to an account, invites, the setting of a password  *)
(* and the removal of a sign-in method or of an account.  A handler is a   *)
(* sequence of steps, one per awaited query that what follows depends on;  *)
(* a request that fails a check and writes nothing is not a step.  Login   *)
(* and SecondFactor have what a sign-in goes through, Sessions what it     *)
(* opens.                                                                  *)
(***************************************************************************)
EXTENDS Naturals, FiniteSets

CONSTANTS
  Emails,
  Subjects, EmailOf,  \* Google's accounts, and the addresses it vouches for
  Handlers,           \* bound: requests in flight at once
  MaxAccounts,        \* bound: accounts created
  MaxTokens           \* bound: links given out

ASSUME IdentityAssumption ==
  /\ Emails # {} /\ IsFiniteSet(Emails)
  /\ IsFiniteSet(Subjects) /\ IsFiniteSet(Handlers)
  /\ EmailOf \in [Subjects -> Emails]
  /\ MaxAccounts \in Nat /\ MaxTokens \in Nat

VARIABLES
  created,   \* accounts created so far
  users,     \* those that exist: email, verified, password, method
  links,     \* accounts rows: which Google subject signs into which user
  mailed,    \* links given out so far, those of tokens and of invites
  tokens,    \* those that exist: kind, email, user
  offered, spent, uses,  \* the tokens as one-time credentials: see SingleUse
  invited,   \* the addresses the invite takes: none once it is used or gone
  proven,    \* ghost: addresses whose owner answered for them
  req        \* the request each handler is serving

people == <<created, users, links>>
letters == <<mailed, tokens, invited>>
ledger == <<offered, spent, uses>>
vars == <<people, letters, ledger, proven, req>>

Accounts == 1..MaxAccounts
Tokens == 1..MaxTokens
Kinds == {"VERIFICATION", "PASSWORD_RESET", "EMAIL_CHANGE"}

Idle == [at |-> "idle", user |-> 0, email |-> CHOOSE e \in Emails : TRUE,
         token |-> 0, subject |-> {}]

At(p, step) == req[p].at = step
Goto(p, step) == req' = [req EXCEPT ![p].at = step]
Done(p) == req' = [req EXCEPT ![p] = Idle]
Begin(p, r) == At(p, "idle") /\ req' = [req EXCEPT ![p] = r]

Named(e) == {a \in DOMAIN users : users[a].email = e}
Without(f, S) == [x \in DOMAIN f \ S |-> f[x]]
Keep(a, field, value) ==
  users' = [users EXCEPT ![a] = [@ EXCEPT ![field] = value]]

\* A user row is inserted, whose address must be free.
Insert(r) ==
  /\ created' = created + 1
  /\ users' = [a \in DOMAIN users \cup {created + 1} |->
                 IF a = created + 1 THEN r ELSE users[a]]

\* A token of the kind is mailed; the bound leaves none to be mailed at times.
NewToken(kind, e, a) ==
  /\ mailed < MaxTokens
  /\ mailed' = mailed + 1
  /\ tokens' = [t \in DOMAIN tokens \cup {mailed + 1} |->
       IF t = mailed + 1 THEN [kind |-> kind, email |-> e, user |-> a]
       ELSE tokens[t]]
  /\ offered' = offered \cup {mailed + 1}

Init ==
  /\ created = 0 /\ users = <<>> /\ links = {}
  /\ mailed = 0 /\ tokens = <<>> /\ invited = {}
  /\ offered = {} /\ spent = {} /\ uses = 0
  /\ proven = {}
  /\ req = [p \in Handlers |-> Idle]

\* A query throws, or the request that was let in finds what it needs gone.
Throws(p) ==
  /\ req[p].at # "idle"
  /\ Done(p)
  /\ UNCHANGED <<people, letters, ledger, proven>>

-----------------------------------------------------------------------------
(* Registration and verification *)

RegisterBegin(p, e) ==
  /\ Named(e) = {}
  /\ Begin(p, [Idle EXCEPT !.at = "create", !.email = e])
  /\ UNCHANGED <<people, letters, ledger, proven>>

CreateUser(p) ==
  /\ At(p, "create") /\ created < MaxAccounts
  /\ Named(req[p].email) = {}
  /\ Insert([email |-> req[p].email, verified |-> FALSE, password |-> TRUE,
             method |-> "CREDENTIALS"])
  /\ Goto(p, "vdrop")
  /\ UNCHANGED <<links, letters, ledger, proven>>

ResendBegin(p, e) ==
  /\ \E a \in Named(e) :
       ~users[a].verified /\ users[a].method # "GOOGLE"
  /\ Begin(p, [Idle EXCEPT !.at = "vdrop", !.email = e])
  /\ UNCHANGED <<people, letters, ledger, proven>>

\* createVerificationToken: the older tokens go, then a new one.
DropVerification(p) ==
  /\ At(p, "vdrop")
  /\ tokens' = Without(tokens, {t \in DOMAIN tokens :
       tokens[t].email = req[p].email /\ tokens[t].kind = "VERIFICATION"})
  /\ Goto(p, "vnew")
  /\ UNCHANGED <<people, mailed, invited, ledger, proven>>

NewVerification(p) ==
  /\ At(p, "vnew")
  /\ NewToken("VERIFICATION", req[p].email, 0)
  /\ Done(p)
  /\ UNCHANGED <<people, invited, spent, uses, proven>>

\* The link was followed by whoever reads the address's mail.
VerifyBegin(p, t) ==
  /\ tokens[t].kind = "VERIFICATION"
  /\ Begin(p, [Idle EXCEPT !.at = "verify", !.token = t, !.email = tokens[t].email])
  /\ proven' = proven \cup {tokens[t].email}
  /\ UNCHANGED <<people, letters, ledger>>

Verify(p) ==
  /\ At(p, "verify")
  /\ \E a \in Named(req[p].email) : Keep(a, "verified", TRUE)
  /\ Goto(p, "drop")
  /\ UNCHANGED <<created, links, letters, ledger, proven>>

DropToken(p) ==
  /\ At(p, "drop")
  /\ tokens' = Without(tokens, {req[p].token})
  /\ Done(p)
  /\ UNCHANGED <<people, mailed, invited, ledger, proven>>

\* Past its time a token is refused, and may be deleted then.
TokenExpires(t) ==
  /\ tokens' = Without(tokens, {t})
  /\ UNCHANGED <<people, mailed, invited, ledger, proven, req>>

ForceVerify(a) ==
  /\ Keep(a, "verified", TRUE)
  /\ proven' = proven \cup {users[a].email}
  /\ UNCHANGED <<created, links, letters, ledger, req>>

-----------------------------------------------------------------------------
(* Password reset *)

ForgotBegin(p, e) ==
  /\ \E a \in Named(e) : users[a].verified
  /\ Begin(p, [Idle EXCEPT !.at = "rdrop", !.email = e])
  /\ UNCHANGED <<people, letters, ledger, proven>>

ResetsOf(e) == {t \in DOMAIN tokens : tokens[t].email = e
                                      /\ tokens[t].kind = "PASSWORD_RESET"}

DropReset(p) ==
  /\ At(p, "rdrop")
  /\ tokens' = Without(tokens, ResetsOf(req[p].email))
  /\ Goto(p, "rnew")
  /\ UNCHANGED <<people, mailed, invited, ledger, proven>>

NewReset(p) ==
  /\ At(p, "rnew")
  /\ NewToken("PASSWORD_RESET", req[p].email, 0)
  /\ Done(p)
  /\ UNCHANGED <<people, invited, spent, uses, proven>>

\* The administrator's token is stored as it is mailed, while a link is
\* looked up by its hash: it is never found, and only the older ones go.
AdminResetPassword(a) ==
  /\ tokens' = Without(tokens, ResetsOf(users[a].email))
  /\ UNCHANGED <<people, mailed, invited, ledger, proven, req>>

\* The token is looked up by its hash alone, whatever its kind; the user by
\* the token's address.
ResetBegin(p, t) ==
  /\ Named(tokens[t].email) # {}
  /\ Begin(p, [Idle EXCEPT !.at = "consume", !.token = t, !.email = tokens[t].email])
  /\ UNCHANGED <<people, letters, ledger, proven>>

\* Mutant: deleteMany, which does not throw.
ConsumeMany(p) ==
  /\ At(p, "consume")
  /\ tokens' = Without(tokens, {req[p].token})
  /\ Goto(p, "reset")
  /\ UNCHANGED <<people, mailed, invited, ledger, proven>>

\* The delete throws when another request has deleted the row.
ConsumeToken(p) ==
  /\ At(p, "consume") /\ req[p].token \in DOMAIN tokens
  /\ tokens' = Without(tokens, {req[p].token})
  /\ Goto(p, "reset")
  /\ UNCHANGED <<people, mailed, invited, ledger, proven>>

\* The password by the address, in one transaction with the sessions.
ResetPassword(p) ==
  /\ At(p, "reset")
  /\ \E a \in Named(req[p].email) : Keep(a, "password", TRUE)
  /\ spent' = spent \cup {req[p].token} /\ uses' = uses + 1
  /\ Done(p)
  /\ UNCHANGED <<created, links, letters, offered, proven>>

-----------------------------------------------------------------------------
(* Change of address *)

RequestChange(p, a, e) ==
  /\ users[a].password /\ Named(e) = {}
  /\ Begin(p, [Idle EXCEPT !.at = "cdrop", !.user = a, !.email = e])
  /\ UNCHANGED <<people, letters, ledger, proven>>

\* Mutant: the address changes when it is asked for, not when confirmed.
ChangeAtOnce(p) ==
  /\ At(p, "cdrop")
  /\ req[p].user \in DOMAIN users /\ Named(req[p].email) = {}
  /\ Keep(req[p].user, "email", req[p].email)
  /\ Done(p)
  /\ UNCHANGED <<created, links, letters, ledger, proven>>

DropChange(p) ==
  /\ At(p, "cdrop")
  /\ tokens' = Without(tokens, {t \in DOMAIN tokens :
       tokens[t].user = req[p].user /\ tokens[t].kind = "EMAIL_CHANGE"})
  /\ Goto(p, "cnew")
  /\ UNCHANGED <<people, mailed, invited, ledger, proven>>

NewChange(p) ==
  /\ At(p, "cnew")
  /\ NewToken("EMAIL_CHANGE", req[p].email, req[p].user)
  /\ Done(p)
  /\ UNCHANGED <<people, invited, spent, uses, proven>>

\* Its user has gone: the token goes too.
ConfirmBegin(p, t) ==
  /\ tokens[t].kind = "EMAIL_CHANGE"
  /\ Begin(p, [Idle EXCEPT
       !.at = IF tokens[t].user \in DOMAIN users THEN "taken" ELSE "drop",
       !.token = t, !.user = tokens[t].user, !.email = tokens[t].email])
  /\ proven' = proven \cup {tokens[t].email}
  /\ UNCHANGED <<people, letters, ledger>>

\* The new address may have been taken meanwhile, also by the user himself.
CheckTaken(p) ==
  /\ At(p, "taken")
  /\ Goto(p, IF Named(req[p].email) = {} THEN "change" ELSE "drop")
  /\ UNCHANGED <<people, letters, ledger, proven>>

ChangeEmail(p) ==
  /\ At(p, "change")
  /\ req[p].user \in DOMAIN users /\ Named(req[p].email) \subseteq {req[p].user}
  /\ Keep(req[p].user, "email", req[p].email)
  /\ Goto(p, "drop")
  /\ UNCHANGED <<created, links, letters, ledger, proven>>

-----------------------------------------------------------------------------
(* Google sign-in *)

\* findOrCreateGoogleUser: the subject has no link yet (one that has signs
\* in), so its address is looked up.  An unverified account is not adopted.
GoogleBegin(p, g) ==
  /\ \A l \in links : l[2] # g
  /\ \/ Named(EmailOf[g]) = {}
     \/ \E a \in Named(EmailOf[g]) : users[a].verified
  /\ Begin(p, [Idle EXCEPT
       !.at = IF Named(EmailOf[g]) = {} THEN "gcreate" ELSE "link",
       !.subject = {g}, !.email = EmailOf[g],
       !.user = IF Named(EmailOf[g]) = {} THEN 0
                ELSE CHOOSE a \in Named(EmailOf[g]) : TRUE])
  /\ proven' = proven \cup {EmailOf[g]}
  /\ UNCHANGED <<people, letters, ledger>>

CreateGoogleUser(p) ==
  /\ At(p, "gcreate") /\ created < MaxAccounts
  /\ Named(req[p].email) = {}
  /\ Insert([email |-> req[p].email, verified |-> TRUE, password |-> FALSE,
             method |-> "GOOGLE"])
  /\ req' = [req EXCEPT ![p].at = "link", ![p].user = created + 1]
  /\ UNCHANGED <<links, letters, ledger, proven>>

\* linkGoogleAccount: the user's link takes the new subject.  A subject may
\* be linked once.
LinkGoogle(p) ==
  LET a == req[p].user
  IN  /\ At(p, "link") /\ a \in DOMAIN users
      /\ \A l \in links : l[2] \in req[p].subject => l[1] = a
      /\ links' = {l \in links : l[1] # a} \cup ({a} \X req[p].subject)
      /\ Done(p)
      /\ UNCHANGED <<created, users, letters, ledger, proven>>

\* A Google user sets his first password.
SetPassword(p, a) ==
  /\ ~users[a].password
  /\ Begin(p, [Idle EXCEPT !.at = "setpw", !.user = a])
  /\ UNCHANGED <<people, letters, ledger, proven>>

PasswordSet(p) ==
  /\ At(p, "setpw") /\ req[p].user \in DOMAIN users
  /\ Keep(req[p].user, "password", TRUE)
  /\ Done(p)
  /\ UNCHANGED <<created, links, letters, ledger, proven>>

\* Refused without a password, Google being the only provider.
DisconnectBegin(p, a) ==
  /\ users[a].password /\ \E l \in links : l[1] = a
  /\ Begin(p, [Idle EXCEPT !.at = "unlink", !.user = a])
  /\ UNCHANGED <<people, letters, ledger, proven>>

Disconnect(p) ==
  /\ At(p, "unlink")
  /\ links' = {l \in links : l[1] # req[p].user}
  /\ Done(p)
  /\ UNCHANGED <<created, users, letters, ledger, proven>>

-----------------------------------------------------------------------------
(* Invites and the end of an account *)

\* Of a workspace's owner.  (Bound: one invite is open at a time.)
NewInvite(addresses) ==
  /\ invited = {} /\ mailed < MaxTokens
  /\ mailed' = mailed + 1
  /\ invited' = addresses
  /\ UNCHANGED <<people, tokens, ledger, proven, req>>

SendInvite(e) == NewInvite({e})

\* A link for whoever has it, and any address.
GenerateLink == NewInvite(Emails)

\* The invite was mailed to the address, or the owner vouches for whom he
\* gave the link.
AcceptBegin(p, e) ==
  /\ e \in invited /\ Named(e) = {}
  /\ Begin(p, [Idle EXCEPT !.at = "join", !.email = e])
  /\ proven' = proven \cup {e}
  /\ UNCHANGED <<people, letters, ledger>>

CreateInvited(p) ==
  /\ At(p, "join") /\ created < MaxAccounts
  /\ Named(req[p].email) = {}
  /\ Insert([email |-> req[p].email, verified |-> TRUE, password |-> TRUE,
             method |-> "CREDENTIALS"])
  /\ Goto(p, "stamp")
  /\ UNCHANGED <<links, letters, ledger, proven>>

\* usedAt, after the membership.
StampInvite(p) ==
  /\ At(p, "stamp")
  /\ invited' = {}
  /\ Done(p)
  /\ UNCHANGED <<people, mailed, tokens, ledger, proven>>

\* It expires, or goes with its workspace.
InviteGone ==
  /\ invited # {}
  /\ invited' = {}
  /\ UNCHANGED <<people, mailed, tokens, ledger, proven, req>>

\* Mutant: the links to Google stay.
DeleteUserOnly(a) ==
  /\ users' = Without(users, {a})
  /\ UNCHANGED <<created, links, letters, ledger, proven, req>>

\* One transaction: the tokens by the address.
DeleteOwnAccount(a) ==
  /\ users' = Without(users, {a})
  /\ links' = {l \in links : l[1] # a}
  /\ tokens' = Without(tokens, {t \in DOMAIN tokens :
       tokens[t].email = users[a].email})
  /\ UNCHANGED <<created, mailed, invited, ledger, proven, req>>

\* The foreign key of a link refuses it; the tokens stay.
AdminDeleteUser(a) ==
  /\ \A l \in links : l[1] # a
  /\ users' = Without(users, {a})
  /\ UNCHANGED <<created, links, letters, ledger, proven, req>>

-----------------------------------------------------------------------------

Next ==
  \/ \E p \in Handlers :
       \/ Throws(p)
       \/ \E e \in Emails :
            \/ RegisterBegin(p, e) \/ ResendBegin(p, e) \/ ForgotBegin(p, e)
            \/ AcceptBegin(p, e)
            \/ \E a \in DOMAIN users : RequestChange(p, a, e)
       \/ CreateUser(p) \/ DropVerification(p) \/ NewVerification(p)
       \/ \E t \in DOMAIN tokens :
            VerifyBegin(p, t) \/ ResetBegin(p, t) \/ ConfirmBegin(p, t)
       \/ Verify(p) \/ DropToken(p)
       \/ DropReset(p) \/ NewReset(p) \/ ConsumeToken(p) \/ ResetPassword(p)
       \/ DropChange(p) \/ NewChange(p) \/ CheckTaken(p) \/ ChangeEmail(p)
       \/ \E g \in Subjects : GoogleBegin(p, g)
       \/ CreateGoogleUser(p) \/ LinkGoogle(p)
       \/ \E a \in DOMAIN users : SetPassword(p, a) \/ DisconnectBegin(p, a)
       \/ PasswordSet(p) \/ Disconnect(p) \/ CreateInvited(p) \/ StampInvite(p)
  \/ \E e \in Emails : SendInvite(e)
  \/ GenerateLink \/ InviteGone
  \/ \E t \in DOMAIN tokens : TokenExpires(t)
  \/ \E a \in DOMAIN users :
       ForceVerify(a) \/ AdminResetPassword(a)
       \/ DeleteOwnAccount(a) \/ AdminDeleteUser(a)

Spec == Init /\ [][Next]_vars

-----------------------------------------------------------------------------
(* Properties *)

User == [email : Emails, verified : BOOLEAN, password : BOOLEAN,
         method : {"CREDENTIALS", "GOOGLE"}]

Request == [at : {"idle", "create", "vdrop", "vnew", "verify", "drop", "rdrop",
                  "rnew", "consume", "reset", "cdrop", "cnew", "taken", "change",
                  "gcreate", "link", "setpw", "unlink", "join",
                  "stamp"},
            user : 0..MaxAccounts, email : Emails, token : 0..MaxTokens,
            subject : SUBSET Subjects]

\* Type invariant, with the unique constraints of the schema.
TypeOK ==
  /\ created \in 0..MaxAccounts
  /\ DOMAIN users \subseteq 1..created /\ \A a \in DOMAIN users : users[a] \in User
  /\ \A e \in Emails : Cardinality(Named(e)) <= 1
  /\ links \subseteq (DOMAIN users) \X Subjects
  /\ \A k, l \in links : k[2] = l[2] => k = l
  /\ mailed \in 0..MaxTokens
  /\ DOMAIN tokens \subseteq 1..mailed
  /\ \A t \in DOMAIN tokens :
       tokens[t] \in [kind : Kinds, email : Emails, user : 0..created]
  /\ offered \subseteq 1..mailed /\ spent \subseteq offered /\ uses \in Nat
  /\ invited \subseteq Emails /\ proven \subseteq Emails
  /\ req \in [Handlers -> Request]

Once == INSTANCE SingleUse WITH Credential <- Tokens, offered <- offered,
                                spent <- spent, uses <- uses

\* However many requests a mailed link starts, it sets a password once at
\* most (resetPassword: "exactly one reaches the password write"): the resets
\* implement SingleUse.
ResetOnce == Once!Spec

\* An account counts as verified only at an address whose owner answered for
\* it (followed a link mailed there, or Google, an administrator or the owner
\* who handed out an invite link vouched): whatever changes of address,
\* deletions and registrations come between the reading of a token and the
\* writing of the account.
VerifiedIsProven ==
  \A a \in DOMAIN users : users[a].verified => users[a].email \in proven

\* What a sign-in accepts: loginUser refuses the password of an account that
\* Google created; Google's sign-in takes the link, or the address of a
\* verified account.
WithWayIn == {a \in DOMAIN users :
  \/ users[a].password /\ users[a].method = "CREDENTIALS"
  \/ \E l \in links : l[1] = a
  \/ users[a].verified /\ \E g \in Subjects : EmailOf[g] = users[a].email}

\* disconnectProvider "refuses to remove the user's last remaining way to
\* sign in": the account it unlinks can still be signed into.
NotLockedOut ==
  [][\A p \in Handlers : Disconnect(p) =>
       {req[p].user} \cap WithWayIn \subseteq WithWayIn']_vars
=============================================================================
