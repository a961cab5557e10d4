---------------------------- MODULE SecondFactor ----------------------------
(***************************************************************************)
(* The one-time credentials of one account: the temporary token a login    *)
(* with a second factor is given, the backup codes, the exchange code of a *)
(* Google sign-in; and turning the second factor on and off.  A handler is *)
(* a sequence of steps, one per awaited query; a request that fails a      *)
(* check and writes nothing is not a step.  Sessions has what follows the  *)
(* opening of a session, Login what precedes the temporary token.          *)
(***************************************************************************)
EXTENDS Integers, Sequences, FiniteSets

CONSTANTS
  MaxWrong,  \* MAX_VERIFY_ATTEMPTS_PER_TOKEN
  Handlers,  \* bound: requests in flight at once
  MaxTemps, MaxSets, MaxExchanges  \* bounds: credentials issued

ASSUME SecondFactorAssumption ==
  /\ MaxWrong \in Nat \ {0}
  /\ IsFiniteSet(Handlers)
  /\ MaxTemps \in Nat /\ MaxSets \in Nat /\ MaxExchanges \in Nat

VARIABLES
  enabled,    \* users.isTwoFactorEnabled
  sets,       \* sets of backup codes stored so far; one code stands for a set
  codes,      \* those whose rows exist
  marked,     \* those with usedAt
  temps,      \* TwoFactorAttempt rows in order; wrong (ghost): wrong codes
              \* answered before a right one, while no two requests
              \* presented the token at once
  minted,     \* exchange codes created
  exchanges,  \* those whose rows exist
  offered, spent, uses,  \* one-time credentials: see SingleUse
  raced,      \* ghost: credentials presented by two requests at once
  mixed,      \* ghost: the codes come from changes that overlapped
  req         \* the request each handler is serving

backup == <<sets, codes, marked>>
google == <<minted, exchanges>>
ledger == <<offered, spent, uses, raced, mixed>>
vars == <<enabled, backup, temps, google, ledger, req>>

Temp(n) == [kind |-> "temp", n |-> n]
Code(n) == [kind |-> "code", n |-> n]
Exchange(n) == [kind |-> "exchange", n |-> n]
Credential == {Temp(n) : n \in 1..MaxTemps} \cup {Code(n) : n \in 1..MaxSets}
              \cup {Exchange(n) : n \in 1..MaxExchanges}

\* A token's row that the cleanup has deleted.
Gone == [consumed |-> TRUE, wrong |-> 0]

\* n: the token; code: the backup code, 0 for the authenticator's; tries:
\* what the token's row said when it was read.
Idle == [at |-> "idle", n |-> 0, code |-> 0, tries |-> 0]

At(p, step) == req[p].at = step
Goto(p, step) == req' = [req EXCEPT ![p].at = step]
Done(p) == req' = [req EXCEPT ![p] = Idle]
Begin(p, r) == At(p, "idle") /\ req' = [req EXCEPT ![p] = r]
Busy(steps) == Cardinality({p \in Handlers : req[p].at \in steps})

Presented(p) ==
  {Temp(req[p].n)} \cup {Code(c) : c \in {req[p].code} \ {0}}

Verifying == {"verify", "find", "mark", "burn", "miss", "open"}
Storing == {"promote", "drop", "store", "off", "clear"}

\* The bounds leave room for what is under way.
TempsLeft == Len(temps) + Busy({"temp"}) < MaxTemps
SetsLeft == sets + Busy({"drop", "store"}) < MaxSets

\* A session is opened with the credentials C.
Open(C) ==
  /\ spent' = spent \cup (C \ raced)
  /\ uses' = uses + Cardinality(C \ raced)
  /\ UNCHANGED <<offered, raced, mixed>>

Present(C) ==
  /\ raced' = raced \cup (C \cap
       UNION {Presented(p) : p \in {q \in Handlers : req[q].at \in Verifying}})
  /\ UNCHANGED <<offered, spent, uses, mixed>>

\* A change of the codes begins; overlapped: whether what it will leave is
\* that of several.
Change(overlapped) ==
  /\ mixed' = overlapped
  /\ UNCHANGED <<offered, spent, uses, raced>>

Init ==
  /\ enabled = FALSE
  /\ sets = 0 /\ codes = {} /\ marked = {}
  /\ temps = <<>>
  /\ minted = 0 /\ exchanges = {}
  /\ offered = {} /\ spent = {} /\ uses = 0 /\ raced = {} /\ mixed = FALSE
  /\ req = [p \in Handlers |-> Idle]

-----------------------------------------------------------------------------
(* The temporary token *)

\* loginUser read a row with a second factor and verified the password.
LoginBegin(p) ==
  /\ enabled /\ TempsLeft
  /\ Begin(p, [Idle EXCEPT !.at = "temp"])
  /\ UNCHANGED <<enabled, backup, temps, google, ledger>>

IssueTemp(p) ==
  /\ At(p, "temp")
  /\ temps' = Append(temps, [tries |-> 0, consumed |-> FALSE, wrong |-> 0])
  /\ offered' = offered \cup {Temp(Len(temps) + 1)}
  /\ Done(p)
  /\ UNCHANGED <<enabled, backup, google, spent, uses, raced, mixed>>

\* The token's row is found neither consumed nor expired.  (Of one that has
\* expired no more is heard.)
VerifyBegin(p, t) ==
  /\ temps[t] # Gone /\ ~temps[t].consumed
  /\ \E c \in {0} \cup codes :
       /\ Begin(p, [at |-> "verify", n |-> t, code |-> c, tries |-> temps[t].tries])
       /\ Present({Temp(t)} \cup {Code(d) : d \in {c} \ {0}})
  /\ UNCHANGED <<enabled, backup, temps, google>>

\* The count of wrong codes does not matter any more.
Right(p, step) == req' = [req EXCEPT ![p].at = step, ![p].tries = 0]

\* The user's row is read: without a second factor there is nothing to
\* verify.  The authenticator's code is right or wrong.
VerifyUser(p) ==
  /\ At(p, "verify")
  /\ \/ ~enabled /\ Done(p)
     \/ enabled /\ req[p].code # 0 /\ Goto(p, "find")
     \/ enabled /\ req[p].code = 0 /\ Right(p, "burn")
     \/ enabled /\ req[p].code = 0 /\ Goto(p, "miss")
  /\ UNCHANGED <<enabled, backup, temps, google, ledger>>

\* Mutant: finds a code whatever its usedAt.
FindAnyCode(p) ==
  /\ At(p, "find")
  /\ IF req[p].code \in codes THEN Right(p, "mark") ELSE Goto(p, "miss")
  /\ UNCHANGED <<enabled, backup, temps, google, ledger>>

FindCode(p) ==
  /\ At(p, "find")
  /\ IF req[p].code \in codes \ marked THEN Right(p, "mark") ELSE Goto(p, "miss")
  /\ UNCHANGED <<enabled, backup, temps, google, ledger>>

\* The update by id throws when the row has gone.
MarkCode(p) ==
  /\ At(p, "mark")
  /\ IF req[p].code \in codes
     THEN marked' = marked \cup {req[p].code} /\ Goto(p, "burn")
     ELSE Done(p) /\ UNCHANGED marked
  /\ UNCHANGED <<enabled, sets, codes, temps, google, ledger>>

\* The token has expired meanwhile and the hourly cleanup deleted its row: the
\* update throws.
TempGone(p) ==
  /\ At(p, "burn") \/ At(p, "miss")
  /\ temps' = [temps EXCEPT ![req[p].n] = Gone]
  /\ Done(p)
  /\ UNCHANGED <<enabled, backup, google, ledger>>

BurnTemp(p) ==
  /\ At(p, "burn") /\ temps[req[p].n] # Gone
  /\ temps' = [temps EXCEPT ![req[p].n] = [@ EXCEPT !.consumed = TRUE, !.wrong = 0]]
  /\ Goto(p, "open")
  /\ UNCHANGED <<enabled, backup, google, ledger>>

VerifiedSession(p) ==
  /\ At(p, "open")
  /\ Open(Presented(p))
  /\ Done(p)
  /\ UNCHANGED <<enabled, backup, temps, google>>

\* Mutant: burns the token one wrong code late.
BurnsAfter(tries) == tries > MaxWrong

BurnsAt(tries) == tries >= MaxWrong

\* registerFailedVerifyAttempt: both columns from the count read at first.
Miss(p) ==
  /\ At(p, "miss") /\ temps[req[p].n] # Gone
  /\ LET tries == req[p].tries + 1
     IN  temps' = [temps EXCEPT ![req[p].n] =
           [tries |-> tries, consumed |-> BurnsAt(tries),
            wrong |-> IF Temp(req[p].n) \in raced THEN @.wrong ELSE @.wrong + 1]]
  /\ Done(p)
  /\ UNCHANGED <<enabled, backup, google, ledger>>

-----------------------------------------------------------------------------
(* Turning the second factor on and off, and its backup codes *)

\* A secret is staged, and the code is right.
EnableBegin(p) ==
  /\ Begin(p, [Idle EXCEPT !.at = "promote"])
  /\ Change(mixed \/ Busy(Storing) > 0)
  /\ UNCHANGED <<enabled, backup, temps, google>>

\* One transaction; its delete throws when the staged row has gone, enabled by
\* another request or cleaned up.
Promote(p) ==
  /\ At(p, "promote")
  /\ \/ SetsLeft /\ enabled' = TRUE /\ Goto(p, "drop")
     \/ Done(p) /\ UNCHANGED enabled
  /\ UNCHANGED <<backup, temps, google, ledger>>

RegenerateBegin(p) ==
  /\ SetsLeft
  /\ enabled
  /\ Begin(p, [Idle EXCEPT !.at = "drop"])
  /\ Change(Busy(Storing) > 0)
  /\ UNCHANGED <<enabled, backup, temps, google>>

\* Mutant: only the used codes go.
DropUsed(p) ==
  /\ At(p, "drop")
  /\ codes' = codes \ marked /\ marked' = {}
  /\ Goto(p, "store")
  /\ UNCHANGED <<enabled, sets, temps, google, ledger>>

\* storeBackupCodes deletes the rows, then inserts new ones.
DropCodes(p) ==
  /\ At(p, "drop")
  /\ codes' = {} /\ marked' = {}
  /\ Goto(p, "store")
  /\ UNCHANGED <<enabled, sets, temps, google, ledger>>

StoreCodes(p) ==
  /\ At(p, "store")
  /\ sets' = sets + 1
  /\ codes' = codes \cup {sets + 1}
  /\ offered' = offered \cup {Code(sets + 1)}
  /\ Done(p)
  /\ UNCHANGED <<enabled, marked, temps, google, spent, uses, raced, mixed>>

DisableBegin(p) ==
  /\ enabled
  /\ Begin(p, [Idle EXCEPT !.at = "off"])
  /\ Change(Busy(Storing) > 0)
  /\ UNCHANGED <<enabled, backup, temps, google>>

TurnOff(p) ==
  /\ At(p, "off")
  /\ enabled' = FALSE
  /\ Goto(p, "clear")
  /\ UNCHANGED <<backup, temps, google, ledger>>

ClearCodes(p) ==
  /\ At(p, "clear")
  /\ codes' = {} /\ marked' = {}
  /\ Done(p)
  /\ UNCHANGED <<enabled, sets, temps, google, ledger>>

-----------------------------------------------------------------------------
(* Exchange codes *)

\* Google's callback ends the session it has just opened and mints a code.
MintExchange ==
  /\ minted < MaxExchanges
  /\ minted' = minted + 1
  /\ exchanges' = exchanges \cup {minted + 1}
  /\ offered' = offered \cup {Exchange(minted + 1)}
  /\ UNCHANGED <<enabled, backup, temps, spent, uses, raced, mixed, req>>

ExchangeFind(p, n) ==
  /\ n \in exchanges
  /\ Begin(p, [Idle EXCEPT !.at = "exchange", !.n = n])
  /\ UNCHANGED <<enabled, backup, temps, google, ledger>>

\* Mutant: deleteMany, which does not throw.
ExchangeDeleteMany(p) ==
  /\ At(p, "exchange")
  /\ exchanges' = exchanges \ {req[p].n}
  /\ Goto(p, "exchanged")
  /\ UNCHANGED <<enabled, backup, temps, minted, ledger>>

\* The delete throws when another request has deleted the row; a code past
\* its time is refused after that.
ExchangeDelete(p) ==
  /\ At(p, "exchange")
  /\ exchanges' = exchanges \ {req[p].n}
  /\ (req[p].n \in exchanges /\ Goto(p, "exchanged")) \/ Done(p)
  /\ UNCHANGED <<enabled, backup, temps, minted, ledger>>

ExchangedSession(p) ==
  /\ At(p, "exchanged")
  /\ Open({Exchange(req[p].n)})
  /\ Done(p)
  /\ UNCHANGED <<enabled, backup, temps, google>>

\* The code is past its time, and the hourly cleanup deletes it under a request.
ExchangeCleanup(n) ==
  /\ \E p \in Handlers : At(p, "exchange") /\ req[p].n = n
  /\ exchanges' = exchanges \ {n}
  /\ UNCHANGED <<enabled, backup, temps, minted, ledger, req>>

-----------------------------------------------------------------------------

Next ==
  \/ \E p \in Handlers :
       \/ LoginBegin(p) \/ IssueTemp(p)
       \/ \E t \in 1..Len(temps) : VerifyBegin(p, t)
       \/ VerifyUser(p) \/ FindCode(p) \/ MarkCode(p) \/ BurnTemp(p) \/ TempGone(p)
       \/ VerifiedSession(p) \/ Miss(p)
       \/ EnableBegin(p) \/ Promote(p) \/ RegenerateBegin(p)
       \/ DropCodes(p) \/ StoreCodes(p)
       \/ DisableBegin(p) \/ TurnOff(p) \/ ClearCodes(p)
       \/ \E n \in 1..minted : ExchangeFind(p, n)
       \/ ExchangeDelete(p) \/ ExchangedSession(p)
  \/ MintExchange \/ \E n \in 1..minted : ExchangeCleanup(n)

Spec == Init /\ [][Next]_vars

-----------------------------------------------------------------------------
(* Properties *)

Request == [at : {"idle", "temp", "exchange", "exchanged"} \cup Verifying
                 \cup Storing,
            n : Nat, code : 0..sets, tries : 0..MaxWrong]

\* Type invariant; a code marked used is a row, and a token that took its
\* last wrong code is burned.
TypeOK ==
  /\ enabled \in BOOLEAN
  /\ sets \in Nat /\ codes \in SUBSET (1..sets) /\ marked \in SUBSET codes
  /\ temps \in Seq([tries : 0..MaxWrong, consumed : BOOLEAN, wrong : Nat] \cup {Gone})
  /\ \A t \in 1..Len(temps) :
       temps[t] # Gone /\ temps[t].tries = MaxWrong => temps[t].consumed
  /\ minted \in Nat /\ exchanges \in SUBSET (1..minted)
  /\ offered \in SUBSET Credential /\ spent \in SUBSET offered /\ uses \in Nat
  /\ raced \in SUBSET offered /\ mixed \in BOOLEAN
  /\ req \in [Handlers -> Request]

Once == INSTANCE SingleUse WITH Credential <- Credential, offered <- offered,
                                spent <- spent, uses <- uses

\* A temporary token, a backup code and an exchange code open one session at
\* most, and a session opened with two of them spends both: the sign-ins
\* implement SingleUse, but for a token or code that two verifications present
\* at once (both find it unused).  Exchanges may: the loser's delete throws.
SpentOnce == Once!Spec

\* A temporary token takes no more wrong codes than the limit
\* (registerFailedVerifyAttempt), unless two verifications presented it at
\* once (both write the count they read, and clear the mark of the other).
WrongCodesBounded ==
  \A t \in 1..Len(temps) : temps[t].wrong <= MaxWrong

\* Whatever verifications are under way, the codes left behind by a change
\* that no other overlapped are those of the newest set, and none without a
\* second factor ("old codes (used or not) become invalid the moment a new set
\* is issued").
NewestCodesOnly ==
  Busy(Storing) = 0 /\ ~mixed => codes \subseteq (IF enabled THEN {sets} ELSE {})
=============================================================================
