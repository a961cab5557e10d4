------------------------- MODULE SecondFactor_proofs -------------------------
(***************************************************************************)
(* Proofs about SecondFactor, for any limit of wrong codes, any number of  *)
(* requests at once and of credentials issued.                             *)
(***************************************************************************)
EXTENDS SecondFactor, FiniteSetTheorems, TLAPS

Steps == {"idle", "temp", "exchange", "exchanged"} \cup Verifying \cup Storing

\* A request whatever the codes and the limit.
AnyRequest == [at : Steps, n : Nat, code : Nat, tries : Nat]

TempRow == [tries : 0..MaxWrong, consumed : BOOLEAN, wrong : Nat] \cup {Gone}

\* The parts of the type invariant: the requests, and the rows.
RequestsOK ==
  /\ req \in [Handlers -> AnyRequest]
  /\ \A p \in Handlers : req[p].code \in 0..sets /\ req[p].tries \in 0..MaxWrong

TempsOK ==
  /\ temps \in Seq(TempRow)
  /\ \A t \in 1..Len(temps) :
       temps[t] # Gone /\ temps[t].tries = MaxWrong => temps[t].consumed

CodesOK ==
  /\ enabled \in BOOLEAN /\ mixed \in BOOLEAN
  /\ sets \in Nat /\ codes \in SUBSET (1..sets) /\ marked \in SUBSET codes

ExchangesOK == minted \in Nat /\ exchanges \in SUBSET (1..minted)

LedgerOK == spent \in SUBSET offered /\ uses \in Nat /\ raced \in SUBSET offered

\* What a request holds at each step.
RequestsHold == \A p \in Handlers :
  /\ req[p].at \in Verifying => req[p].n \in 1..Len(temps)
  /\ req[p].at \in {"find", "mark"} => req[p].code # 0
  /\ req[p].at \in {"verify", "find", "miss"} => req[p].tries < MaxWrong
  /\ req[p].at \in {"exchange", "exchanged"} => req[p].n \in 1..minted

\* What was handed out is what the rows were numbered with; the bounds leave
\* room for what is under way.
Offered == {Temp(n) : n \in 1..Len(temps)} \cup {Code(n) : n \in 1..sets}
           \cup {Exchange(n) : n \in 1..minted}

BoundsKept ==
  /\ Len(temps) + Busy({"temp"}) <= MaxTemps
  /\ sets + Busy({"drop", "store"}) <= MaxSets
  /\ minted <= MaxExchanges

Typed == /\ RequestsOK /\ TempsOK /\ CodesOK /\ ExchangesOK /\ LedgerOK
         /\ RequestsHold /\ BoundsKept /\ offered = Offered

-----------------------------------------------------------------------------
(* Credentials and rows *)

\* Credentials of different kinds or numbers are different.
LEMMA CredentialsDiffer ==
  \A m, n : /\ Temp(m) = Temp(n) <=> m = n
            /\ Code(m) = Code(n) <=> m = n
            /\ Exchange(m) = Exchange(n) <=> m = n
            /\ Temp(m) # Code(n) /\ Temp(m) # Exchange(n) /\ Code(m) # Exchange(n)
<1> TAKE m, n
<1>1. /\ Temp(m).n = m /\ Temp(n).n = n /\ Code(m).n = m /\ Code(n).n = n
      /\ Exchange(m).n = m /\ Exchange(n).n = n
      /\ Temp(m).kind = "temp" /\ Code(n).kind = "code" /\ Code(m).kind = "code"
      /\ Exchange(n).kind = "exchange"
  BY DEF Temp, Code, Exchange
<1>2. QED
  BY <1>1

\* Within the bounds what is offered is a credential.
LEMMA OfferedCredential == Typed => Offered \in SUBSET Credential
<1> SUFFICES ASSUME Typed PROVE Offered \in SUBSET Credential
  OBVIOUS
<1>1. \A S : Busy(S) \in Nat
  BY SecondFactorAssumption, FS_Subset, FS_CardinalityType DEF Busy
<1>2. Len(temps) \in Nat /\ sets \in Nat /\ minted \in Nat
  BY DEF Typed, TempsOK, CodesOK, ExchangesOK
<1>3. Len(temps) <= MaxTemps /\ sets <= MaxSets /\ minted <= MaxExchanges
  BY <1>1, <1>2, SecondFactorAssumption DEF Typed, BoundsKept
<1>4. /\ 1..Len(temps) \subseteq 1..MaxTemps /\ 1..sets \subseteq 1..MaxSets
      /\ 1..minted \subseteq 1..MaxExchanges
  BY <1>2, <1>3, SecondFactorAssumption
<1>5. QED
  BY <1>4 DEF Offered, Credential

\* The type invariant is its parts.
LEMMA TypedIsType == Typed => TypeOK
<1> SUFFICES ASSUME Typed PROVE TypeOK
  OBVIOUS
<1>1. req \in [Handlers -> Request]
  <2>1. \A p \in Handlers : req[p] \in AnyRequest
                            /\ req[p].code \in 0..sets /\ req[p].tries \in 0..MaxWrong
    BY DEF Typed, RequestsOK
  <2>2. \A p \in Handlers : req[p] \in Request
    BY <2>1 DEF AnyRequest, Request, Steps
  <2>3. QED
    BY <2>2 DEF Typed, RequestsOK
<1>2. offered \in SUBSET Credential
  BY OfferedCredential DEF Typed
<1>3. QED
  BY <1>1, <1>2 DEF Typed, TempsOK, TempRow, CodesOK, ExchangesOK, LedgerOK, TypeOK

\* A token's row changes, the others stay.
LEMMA TempChanges ==
  ASSUME TempsOK, NEW t \in 1..Len(temps), NEW x \in TempRow,
         temps' = [temps EXCEPT ![t] = x],
         x # Gone /\ x.tries = MaxWrong => x.consumed
  PROVE  /\ TempsOK' /\ Len(temps') = Len(temps)
         /\ \A u \in 1..Len(temps) : temps'[u] = IF u = t THEN x ELSE temps[u]
<1>1. temps' \in Seq(TempRow) /\ Len(temps') = Len(temps)
      /\ \A u \in 1..Len(temps) : temps'[u] = IF u = t THEN x ELSE temps[u]
  BY DEF TempsOK
<1>2. QED
  BY <1>1 DEF TempsOK

-----------------------------------------------------------------------------
(* How a request moves *)

\* p's request is now that one, the others are what they were.
Moved(p, at, n, code, tries) ==
  /\ req' \in [Handlers -> AnyRequest]
  /\ req'[p].at = at /\ req'[p].n = n /\ req'[p].code = code /\ req'[p].tries = tries
  /\ \A q \in Handlers \ {p} : req'[q] = req[q]

\* A request becomes another one.
LEMMA Becomes ==
  ASSUME req \in [Handlers -> AnyRequest], NEW p \in Handlers, NEW x \in AnyRequest,
         req' = [req EXCEPT ![p] = x]
  PROVE  Moved(p, x.at, x.n, x.code, x.tries)
BY DEF Moved

\* A request takes its next step.
LEMMA GotoMoves ==
  ASSUME req \in [Handlers -> AnyRequest], NEW p \in Handlers, NEW step \in Steps,
         Goto(p, step)
  PROVE  Moved(p, step, req[p].n, req[p].code, req[p].tries)
<1> DEFINE x == [req[p] EXCEPT !.at = step]
<1>1. req[p] \in AnyRequest
  OBVIOUS
<1>2. x \in AnyRequest /\ x.at = step /\ x.n = req[p].n /\ x.code = req[p].code
      /\ x.tries = req[p].tries
  BY <1>1 DEF AnyRequest
<1>3. req' = [req EXCEPT ![p] = x]
  BY DEF Goto
<1> HIDE DEF x
<1>4. QED
  BY <1>2, <1>3, Becomes DEF Moved

\* A right code: the count of wrong ones is forgotten.
LEMMA RightMoves ==
  ASSUME req \in [Handlers -> AnyRequest], NEW p \in Handlers, NEW step \in Steps,
         Right(p, step)
  PROVE  Moved(p, step, req[p].n, req[p].code, 0)
<1> DEFINE y == [req[p] EXCEPT !.at = step]
           x == [y EXCEPT !.tries = 0]
<1>1. req[p] \in AnyRequest
  OBVIOUS
<1>2. y \in AnyRequest /\ y.at = step /\ y.n = req[p].n /\ y.code = req[p].code
  BY <1>1 DEF AnyRequest
<1>3. req' = [req EXCEPT ![p] = x]
  BY DEF Right
<1> HIDE DEF y
<1>4. x \in AnyRequest /\ x.at = y.at /\ x.n = y.n /\ x.code = y.code /\ x.tries = 0
  BY <1>2 DEF AnyRequest
<1> HIDE DEF x
<1>5. QED
  BY <1>2, <1>3, <1>4, Becomes DEF Moved

\* A request is over.
LEMMA DoneMoves ==
  ASSUME req \in [Handlers -> AnyRequest], NEW p \in Handlers, Done(p)
  PROVE  Moved(p, "idle", 0, 0, 0)
<1>1. Idle \in AnyRequest /\ Idle.at = "idle" /\ Idle.n = 0 /\ Idle.code = 0
      /\ Idle.tries = 0
  BY DEF Idle, AnyRequest, Steps
<1>2. QED
  BY <1>1, Becomes DEF Done

\* A request comes in.
LEMMA BeginMoves ==
  ASSUME req \in [Handlers -> AnyRequest], NEW p \in Handlers, NEW x \in AnyRequest,
         Begin(p, x)
  PROVE  req[p].at = "idle" /\ Moved(p, x.at, x.n, x.code, x.tries)
BY Becomes DEF Begin, At

\* One that has nothing but its step.
LEMMA BareMoves ==
  ASSUME req \in [Handlers -> AnyRequest], NEW p \in Handlers, NEW step \in Steps,
         Begin(p, [Idle EXCEPT !.at = step])
  PROVE  req[p].at = "idle" /\ Moved(p, step, 0, 0, 0)
<1> DEFINE x == [Idle EXCEPT !.at = step]
<1>1. x \in AnyRequest /\ x.at = step /\ x.n = 0 /\ x.code = 0 /\ x.tries = 0
  BY DEF Idle, AnyRequest
<1>2. Begin(p, x)
  OBVIOUS
<1> HIDE DEF x
<1>3. QED
  BY <1>1, <1>2, BeginMoves

-----------------------------------------------------------------------------
(* How many requests are in some steps *)

Among(S) == {p \in Handlers : req[p].at \in S}

\* They are finitely many, and none exactly when nobody is there.
LEMMA BusyFinite ==
  ASSUME NEW S
  PROVE  /\ IsFiniteSet(Among(S)) /\ Busy(S) \in Nat /\ Busy(S) = Cardinality(Among(S))
         /\ Busy(S) = 0 <=> \A p \in Handlers : req[p].at \notin S
<1>1. IsFiniteSet(Among(S)) /\ Cardinality(Among(S)) \in Nat
  BY SecondFactorAssumption, FS_Subset, FS_CardinalityType DEF Among
<1>2. Cardinality(Among(S)) = 0 <=> Among(S) = {}
  BY <1>1, FS_EmptySet
<1>3. Busy(S) = Cardinality(Among(S))
  BY DEF Busy, Among
<1>4. QED
  BY <1>1, <1>2, <1>3 DEF Among

\* A request moves within the steps or outside them.
LEMMA BusySame ==
  ASSUME NEW S, NEW p \in Handlers, NEW at, NEW n, NEW c, NEW k, Moved(p, at, n, c, k),
         req[p].at \in S <=> at \in S
  PROVE  Busy(S)' = Busy(S)
<1>1. Among(S)' = Among(S)
  BY DEF Among, Moved
<1>2. QED
  BY <1>1 DEF Busy, Among

\* A request enters the steps.
LEMMA BusyMore ==
  ASSUME NEW S, NEW p \in Handlers, NEW at, NEW n, NEW c, NEW k, Moved(p, at, n, c, k),
         req[p].at \notin S, at \in S
  PROVE  Busy(S)' = Busy(S) + 1
<1>1. Among(S)' = Among(S) \cup {p} /\ p \notin Among(S)
  BY DEF Among, Moved
<1>2. Cardinality(Among(S)') = Cardinality(Among(S)) + 1
  BY <1>1, BusyFinite, FS_AddElement
<1>3. QED
  BY <1>2 DEF Busy, Among

\* A request leaves them.
LEMMA BusyLess ==
  ASSUME NEW S, NEW p \in Handlers, NEW at, NEW n, NEW c, NEW k, Moved(p, at, n, c, k),
         req[p].at \in S, at \notin S
  PROVE  Busy(S)' = Busy(S) - 1
<1>1. Among(S)' = Among(S) \ {p} /\ p \in Among(S)
  BY DEF Among, Moved
<1>2. Cardinality(Among(S)') = Cardinality(Among(S)) - 1
  BY <1>1, BusyFinite, FS_RemoveElement
<1>3. QED
  BY <1>2 DEF Busy, Among

-----------------------------------------------------------------------------
(* The type invariant *)

\* A request moves to one that holds what its step needs, while rows are only
\* added.
LEMMA MoveTyped ==
  ASSUME Typed, NEW p \in Handlers, NEW at, NEW n, NEW c, NEW k, Moved(p, at, n, c, k),
         TempsOK', CodesOK', ExchangesOK', LedgerOK', BoundsKept', offered' = Offered',
         sets <= sets', Len(temps) <= Len(temps'), minted <= minted',
         c \in 0..sets', k \in 0..MaxWrong,
         at \in Verifying => n \in 1..Len(temps'),
         at \in {"find", "mark"} => c # 0,
         at \in {"verify", "find", "miss"} => k < MaxWrong,
         at \in {"exchange", "exchanged"} => n \in 1..minted'
  PROVE  Typed'
<1>0. sets \in Nat /\ sets' \in Nat /\ Len(temps) \in Nat /\ Len(temps') \in Nat
      /\ minted \in Nat /\ minted' \in Nat
  BY DEF Typed, TempsOK, CodesOK, ExchangesOK
<1>1. RequestsOK'
  BY <1>0 DEF Typed, RequestsOK, Moved
<1>2. RequestsHold'
  BY <1>0 DEF Typed, RequestsHold, Moved, Verifying
<1>3. QED
  BY <1>1, <1>2 DEF Typed

\* A request moves that takes no room a row will need, before or after.
LEMMA BoundsStay ==
  ASSUME Typed, NEW p \in Handlers, NEW at, NEW n, NEW c, NEW k, Moved(p, at, n, c, k),
         Len(temps') = Len(temps), sets' = sets, minted' = minted,
         req[p].at = "temp" <=> at = "temp",
         req[p].at \in {"drop", "store"} <=> at \in {"drop", "store"}
  PROVE  BoundsKept'
<1>1. Busy({"temp"})' = Busy({"temp"})
  BY BusySame
<1>2. Busy({"drop", "store"})' = Busy({"drop", "store"})
  BY BusySame
<1>3. QED
  BY <1>1, <1>2 DEF Typed, BoundsKept

\* No row is written, nor is a credential handed out or used.
LEMMA RowsStay ==
  ASSUME Typed, UNCHANGED <<temps, google, backup, offered, spent, uses>>,
         enabled' \in BOOLEAN, mixed' \in BOOLEAN, raced' \in SUBSET offered
  PROVE  /\ TempsOK' /\ CodesOK' /\ ExchangesOK' /\ LedgerOK' /\ offered' = Offered'
         /\ sets' = sets /\ Len(temps') = Len(temps) /\ minted' = minted
         /\ sets <= sets' /\ Len(temps) <= Len(temps') /\ minted <= minted'
BY DEF Typed, TempsOK, CodesOK, ExchangesOK, LedgerOK, google, backup, Offered

\* A request that presents a token and a code, presents credentials.
LEMMA PresentedOffered ==
  ASSUME Typed, NEW t \in 1..Len(temps), NEW c \in 0..sets
  PROVE  {Temp(t)} \cup {Code(d) : d \in {c} \ {0}} \subseteq offered
<1>1. Temp(t) \in Offered
  BY DEF Offered
<1>2. ASSUME c # 0 PROVE Code(c) \in Offered
  <2>1. c \in 1..sets
    BY <1>2 DEF Typed, CodesOK
  <2>2. QED
    BY <2>1 DEF Offered
<1>3. QED
  BY <1>1, <1>2 DEF Typed

\* So does one that verifies.
LEMMA HeldOffered ==
  ASSUME Typed, NEW p \in Handlers, req[p].at \in Verifying
  PROVE  Presented(p) \subseteq offered
<1>1. req[p].n \in 1..Len(temps) /\ req[p].code \in 0..sets
  BY DEF Typed, RequestsOK, RequestsHold
<1>2. QED
  BY <1>1, PresentedOffered DEF Presented

\* The credentials presented by two requests at once are offered.
LEMMA RacedOffered ==
  ASSUME Typed, NEW C \in SUBSET offered, Present(C)
  PROVE  raced' \in SUBSET offered
BY DEF Present, Typed, LedgerOK

\* The requests that begin with nothing but their step keep the types.
LEMMA Bare ==
  ASSUME Typed, NEW p \in Handlers,
         \/ LoginBegin(p) \/ EnableBegin(p) \/ RegenerateBegin(p) \/ DisableBegin(p)
  PROVE  Typed'
<1>1. req \in [Handlers -> AnyRequest] /\ CodesOK /\ LedgerOK /\ MaxWrong \in Nat
      /\ enabled \in BOOLEAN /\ mixed \in BOOLEAN
      /\ sets \in Nat /\ Len(temps) \in Nat
  BY SecondFactorAssumption DEF Typed, RequestsOK, CodesOK, TempsOK
<1>2. CASE LoginBegin(p)
  <2>1. req[p].at = "idle" /\ Moved(p, "temp", 0, 0, 0)
    BY <1>1, <1>2, BareMoves DEF LoginBegin, Steps
  <2>2. UNCHANGED <<temps, google, backup, offered, spent, uses, enabled, mixed, raced>>
    BY <1>2 DEF LoginBegin, ledger
  <2>3. Busy({"temp"})' = Busy({"temp"}) + 1
    BY <2>1, BusyMore
  <2>4. Busy({"drop", "store"})' = Busy({"drop", "store"})
    BY <2>1, BusySame
  <2>5. Len(temps) + Busy({"temp"}) < MaxTemps /\ Busy({"temp"}) \in Nat
    BY <1>2, BusyFinite DEF LoginBegin, TempsLeft
  <2>6. BoundsKept'
    BY <1>1, <2>2, <2>3, <2>4, <2>5, SecondFactorAssumption
       DEF Typed, BoundsKept, google, backup
  <2>7. QED
    BY <1>1, <2>1, <2>2, <2>6, RowsStay, MoveTyped DEF LedgerOK, Verifying
<1>3. CASE EnableBegin(p) \/ DisableBegin(p)
  <2>1. PICK step \in {"promote", "off"} : req[p].at = "idle" /\ Moved(p, step, 0, 0, 0)
    BY <1>1, <1>3, BareMoves DEF EnableBegin, DisableBegin, Steps, Storing
  <2>2. UNCHANGED <<temps, google, backup, offered, spent, uses, enabled, raced>>
    BY <1>3 DEF EnableBegin, DisableBegin, Change
  <2>a. mixed' \in BOOLEAN
    <3>1. \/ mixed' = (mixed \/ Busy(Storing) > 0)
          \/ mixed' = (Busy(Storing) > 0)
      BY <1>3 DEF EnableBegin, DisableBegin, Change
    <3>2. (mixed \/ Busy(Storing) > 0) \in BOOLEAN /\ (Busy(Storing) > 0) \in BOOLEAN
      OBVIOUS
    <3>3. QED
      BY <3>1, <3>2
  <2>3. BoundsKept'
    BY <2>1, <2>2, BoundsStay DEF google, backup
  <2>4. QED
    BY <1>1, <2>1, <2>2, <2>a, <2>3, RowsStay, MoveTyped DEF LedgerOK, Verifying
<1>4. CASE RegenerateBegin(p)
  <2>1. req[p].at = "idle" /\ Moved(p, "drop", 0, 0, 0)
    BY <1>1, <1>4, BareMoves DEF RegenerateBegin, Steps, Storing
  <2>2. UNCHANGED <<temps, google, backup, offered, spent, uses, enabled, raced>>
    BY <1>4 DEF RegenerateBegin, Change
  <2>a. mixed' \in BOOLEAN
    <3>1. mixed' = (Busy(Storing) > 0) /\ (Busy(Storing) > 0) \in BOOLEAN
      BY <1>4 DEF RegenerateBegin, Change
    <3>2. QED
      BY <3>1
  <2>3. Busy({"drop", "store"})' = Busy({"drop", "store"}) + 1
    BY <2>1, BusyMore
  <2>4. Busy({"temp"})' = Busy({"temp"})
    BY <2>1, BusySame
  <2>5. sets + Busy({"drop", "store"}) < MaxSets /\ Busy({"drop", "store"}) \in Nat
    BY <1>4, BusyFinite DEF RegenerateBegin, SetsLeft
  <2>6. BoundsKept'
    BY <1>1, <2>2, <2>3, <2>4, <2>5, SecondFactorAssumption
       DEF Typed, BoundsKept, google, backup
  <2>7. QED
    BY <1>1, <2>1, <2>2, <2>a, <2>6, RowsStay, MoveTyped DEF LedgerOK, Verifying
<1>5. QED
  BY <1>2, <1>3, <1>4

\* A request moves and no row is written.
LEMMA Walks ==
  ASSUME Typed, NEW p \in Handlers, NEW at, NEW n, NEW c, NEW k, Moved(p, at, n, c, k),
         UNCHANGED <<temps, google, backup, offered, spent, uses>>,
         enabled' \in BOOLEAN, mixed' \in BOOLEAN, raced' \in SUBSET offered,
         req[p].at = "temp" <=> at = "temp",
         req[p].at \in {"drop", "store"} <=> at \in {"drop", "store"},
         c \in 0..sets, k \in 0..MaxWrong,
         at \in Verifying => n \in 1..Len(temps),
         at \in {"find", "mark"} => c # 0,
         at \in {"verify", "find", "miss"} => k < MaxWrong,
         at \in {"exchange", "exchanged"} => n \in 1..minted
  PROVE  Typed'
<1>1. /\ TempsOK' /\ CodesOK' /\ ExchangesOK' /\ LedgerOK' /\ offered' = Offered'
      /\ sets' = sets /\ Len(temps') = Len(temps) /\ minted' = minted
      /\ sets <= sets' /\ Len(temps) <= Len(temps') /\ minted <= minted'
  BY RowsStay
<1>2. BoundsKept'
  BY <1>1, BoundsStay
<1>3. QED
  BY <1>1, <1>2, MoveTyped

\* Facts of a request that every step starts from.
LEMMA RequestFacts ==
  ASSUME Typed, NEW p \in Handlers
  PROVE  /\ req \in [Handlers -> AnyRequest]
         /\ req[p].code \in 0..sets /\ req[p].tries \in 0..MaxWrong /\ 0 \in 0..sets
         /\ 0 \in 0..MaxWrong /\ 0 < MaxWrong /\ sets \in Nat
         /\ req[p].at \in Verifying => req[p].n \in 1..Len(temps)
         /\ req[p].at \in {"find", "mark"} => req[p].code # 0
         /\ req[p].at \in {"verify", "find", "miss"} => req[p].tries < MaxWrong
         /\ req[p].at \in {"exchange", "exchanged"} => req[p].n \in 1..minted
         /\ enabled \in BOOLEAN /\ mixed \in BOOLEAN /\ raced \in SUBSET offered
BY SecondFactorAssumption DEF Typed, RequestsOK, RequestsHold, CodesOK, LedgerOK

\* The token is presented, found unburned.
LEMMA VerifyBeginTyped ==
  ASSUME Typed, NEW p \in Handlers, NEW t \in 1..Len(temps), VerifyBegin(p, t)
  PROVE  Typed'
<1>1. PICK c \in {0} \cup codes :
        /\ Begin(p, [at |-> "verify", n |-> t, code |-> c, tries |-> temps[t].tries])
        /\ Present({Temp(t)} \cup {Code(d) : d \in {c} \ {0}})
  BY DEF VerifyBegin
<1> DEFINE x == [at |-> "verify", n |-> t, code |-> c, tries |-> temps[t].tries]
<1>2. c \in 0..sets /\ c \in Nat
  BY DEF Typed, CodesOK
<1>3. temps[t].tries \in 0..MaxWrong /\ temps[t].tries < MaxWrong
  <2>1. temps[t] \in TempRow /\ temps[t] # Gone /\ ~temps[t].consumed
    BY DEF VerifyBegin, Typed, TempsOK
  <2>2. temps[t].tries \in 0..MaxWrong /\ temps[t].tries # MaxWrong
    BY <2>1 DEF TempRow, Typed, TempsOK
  <2>3. QED
    BY <2>2, SecondFactorAssumption
<1>4. x \in AnyRequest /\ x.at = "verify" /\ x.n = t /\ x.code = c
      /\ x.tries = temps[t].tries
  BY <1>2, <1>3 DEF AnyRequest, Steps, Verifying
<1>5. req[p].at = "idle" /\ Moved(p, "verify", t, c, temps[t].tries)
  <2> HIDE DEF x
  <2>1. Begin(p, x)
    BY <1>1 DEF x
  <2>2. QED
    BY <1>4, <2>1, BeginMoves, RequestFacts
<1>6. {Temp(t)} \cup {Code(d) : d \in {c} \ {0}} \in SUBSET offered
  BY <1>2, PresentedOffered
<1>7. raced' \in SUBSET offered
  BY <1>1, <1>6, RacedOffered
<1>8. UNCHANGED <<temps, google, backup, offered, spent, uses, enabled, mixed>>
  BY <1>1 DEF VerifyBegin, Present
<1>9. QED
  BY <1>2, <1>3, <1>5, <1>7, <1>8, Walks, RequestFacts

\* A set of one thing at most is finite.
LEMMA OneAtMost == ASSUME NEW x, NEW T \in SUBSET {x} PROVE IsFiniteSet(T)
BY FS_Singleton, FS_Subset

\* The steps of a verification that write no row but the code's or the token's.
LEMMA VerifyTyped ==
  ASSUME Typed, NEW p \in Handlers,
         \/ VerifyUser(p) \/ FindCode(p) \/ MarkCode(p) \/ VerifiedSession(p)
  PROVE  Typed'
<1>0. {"find", "miss", "mark", "burn", "open"} \subseteq Steps
  BY DEF Steps, Verifying
<1>1. CASE VerifyUser(p)
  <2>1. UNCHANGED <<temps, google, backup, offered, spent, uses, enabled, mixed, raced>>
    BY <1>1 DEF VerifyUser, ledger
  <2>2. req[p].at = "verify"
    BY <1>1 DEF VerifyUser, At
  <2>3. \/ Moved(p, "idle", 0, 0, 0)
        \/ req[p].code # 0 /\ Moved(p, "find", req[p].n, req[p].code, req[p].tries)
        \/ Moved(p, "burn", req[p].n, req[p].code, 0)
        \/ Moved(p, "miss", req[p].n, req[p].code, req[p].tries)
    BY <1>0, <1>1, RequestFacts, DoneMoves, GotoMoves, RightMoves DEF VerifyUser
  <2>4. req[p].n \in 1..Len(temps)
    BY <2>2, RequestFacts DEF Verifying
  <2>5. QED
    BY <2>1, <2>2, <2>3, <2>4, Walks, RequestFacts DEF Verifying
<1>2. CASE FindCode(p)
  <2>1. UNCHANGED <<temps, google, backup, offered, spent, uses, enabled, mixed, raced>>
    BY <1>2 DEF FindCode, ledger
  <2>2. req[p].at = "find"
    BY <1>2 DEF FindCode, At
  <2>3. \/ Moved(p, "mark", req[p].n, req[p].code, 0)
        \/ Moved(p, "miss", req[p].n, req[p].code, req[p].tries)
    BY <1>0, <1>2, RequestFacts, GotoMoves, RightMoves DEF FindCode
  <2>4. req[p].n \in 1..Len(temps)
    BY <2>2, RequestFacts DEF Verifying
  <2>5. QED
    BY <2>1, <2>2, <2>3, <2>4, Walks, RequestFacts DEF Verifying
<1>3. CASE MarkCode(p)
  <2>1. UNCHANGED <<temps, google, offered, spent, uses, enabled, mixed, raced, sets, codes>>
    BY <1>3 DEF MarkCode, ledger
  <2>2. req[p].at = "mark" /\ req[p].n \in 1..Len(temps)
    BY <1>3, RequestFacts DEF MarkCode, At, Verifying
  <2>3. marked' \in SUBSET codes
    BY <1>3 DEF MarkCode, Typed, CodesOK
  <2>4. \/ Moved(p, "idle", 0, 0, 0)
        \/ Moved(p, "burn", req[p].n, req[p].code, req[p].tries)
    BY <1>0, <1>3, RequestFacts, GotoMoves, DoneMoves DEF MarkCode
  <2>5. /\ TempsOK' /\ CodesOK' /\ ExchangesOK' /\ LedgerOK' /\ offered' = Offered'
        /\ sets' = sets /\ Len(temps') = Len(temps) /\ minted' = minted
        /\ sets <= sets' /\ Len(temps) <= Len(temps') /\ minted <= minted'
    BY <2>1, <2>3 DEF Typed, TempsOK, CodesOK, ExchangesOK, LedgerOK, google, Offered
  <2>6. BoundsKept'
    BY <2>2, <2>4, <2>5, BoundsStay
  <2>7. QED
    BY <2>2, <2>4, <2>5, <2>6, MoveTyped, RequestFacts DEF Verifying
<1>4. CASE VerifiedSession(p)
  <2>1. UNCHANGED <<temps, google, backup, offered, enabled, mixed, raced>>
    BY <1>4 DEF VerifiedSession, Open
  <2>2. req[p].at = "open"
    BY <1>4 DEF VerifiedSession, At
  <2>3. Moved(p, "idle", 0, 0, 0)
    BY <1>4, RequestFacts, DoneMoves DEF VerifiedSession
  <2>4. LedgerOK'
    <3>1. Presented(p) \subseteq offered
      BY <2>2, HeldOffered DEF Verifying
    <3>2. IsFiniteSet(Presented(p) \ raced)
      <4>1. {Code(c) : c \in {req[p].code} \ {0}} \in SUBSET {Code(req[p].code)}
        <5>1. \A x \in {Code(c) : c \in {req[p].code} \ {0}} : x = Code(req[p].code)
          OBVIOUS
        <5>2. QED
          BY <5>1
      <4>2. IsFiniteSet({Code(c) : c \in {req[p].code} \ {0}})
        BY <4>1, OneAtMost
      <4>3. IsFiniteSet({Temp(req[p].n)})
        BY FS_Singleton
      <4>4. QED
        BY <4>2, <4>3, FS_Union, FS_Difference DEF Presented
    <3>3. uses' \in Nat /\ spent' \subseteq offered
      BY <1>4, <3>1, <3>2, FS_CardinalityType DEF VerifiedSession, Open, Typed, LedgerOK
    <3>4. QED
      BY <2>1, <3>3 DEF Typed, LedgerOK
  <2>5. /\ TempsOK' /\ CodesOK' /\ ExchangesOK' /\ offered' = Offered'
        /\ sets' = sets /\ Len(temps') = Len(temps) /\ minted' = minted
        /\ sets <= sets' /\ Len(temps) <= Len(temps') /\ minted <= minted'
    BY <2>1 DEF Typed, TempsOK, CodesOK, ExchangesOK, google, backup, Offered
  <2>6. BoundsKept'
    BY <2>2, <2>3, <2>5, BoundsStay
  <2>7. QED
    BY <2>3, <2>4, <2>5, <2>6, MoveTyped, RequestFacts DEF Verifying
<1>5. QED
  BY <1>1, <1>2, <1>3, <1>4

\* The steps that write the token's row.
LEMMA TokenTyped ==
  ASSUME Typed, NEW p \in Handlers, BurnTemp(p) \/ TempGone(p) \/ Miss(p)
  PROVE  Typed'
<1> DEFINE t == req[p].n
<1>1. req[p].at \in {"burn", "miss"} /\ t \in 1..Len(temps)
  BY RequestFacts DEF BurnTemp, TempGone, Miss, At, Verifying
<1>2. UNCHANGED <<enabled, backup, google, ledger>>
  BY DEF BurnTemp, TempGone, Miss
<1>3. \/ Moved(p, "idle", 0, 0, 0)
      \/ Moved(p, "open", t, req[p].code, req[p].tries)
  <2>1. "open" \in Steps
    BY DEF Steps, Verifying
  <2>2. QED
    BY <2>1, RequestFacts, GotoMoves, DoneMoves DEF BurnTemp, TempGone, Miss
<1>4. \E x \in TempRow : /\ temps' = [temps EXCEPT ![t] = x]
                         /\ x # Gone /\ x.tries = MaxWrong => x.consumed
  <2>0. temps \in Seq(TempRow) /\ temps[t] \in TempRow
    BY <1>1 DEF Typed, TempsOK
  <2>1. CASE TempGone(p)
    BY <2>1 DEF TempGone, TempRow
  <2>2. CASE BurnTemp(p)
    <3> DEFINE y == [temps[t] EXCEPT !.consumed = TRUE]
               x == [y EXCEPT !.wrong = 0]
    <3>1. temps[t] \in [tries : 0..MaxWrong, consumed : BOOLEAN, wrong : Nat]
      BY <2>0, <2>2 DEF BurnTemp, TempRow
    <3>2. y \in [tries : 0..MaxWrong, consumed : BOOLEAN, wrong : Nat] /\ y.consumed
      BY <3>1
    <3>3. temps' = [temps EXCEPT ![t] = x]
      BY <2>0, <1>1, <2>2 DEF BurnTemp
    <3> HIDE DEF y
    <3>4. x \in [tries : 0..MaxWrong, consumed : BOOLEAN, wrong : Nat] /\ x.consumed
      BY <3>2
    <3> HIDE DEF x
    <3>5. QED
      BY <3>3, <3>4 DEF TempRow
  <2>3. CASE Miss(p)
    <3> DEFINE m == req[p].tries + 1
               w == IF Temp(t) \in raced THEN temps[t].wrong ELSE temps[t].wrong + 1
               x == [tries |-> m, consumed |-> BurnsAt(m), wrong |-> w]
    <3>1. temps[t] \in [tries : 0..MaxWrong, consumed : BOOLEAN, wrong : Nat]
      BY <2>0, <2>3 DEF Miss, TempRow
    <3>2. req[p].at = "miss" /\ req[p].tries \in 0..MaxWrong /\ req[p].tries < MaxWrong
      BY <2>3, RequestFacts DEF Miss, At
    <3>3. m \in 0..MaxWrong /\ w \in Nat
      BY <3>1, <3>2, SecondFactorAssumption
    <3>4. BurnsAt(m) \in BOOLEAN /\ (m = MaxWrong => BurnsAt(m))
      BY <3>3, SecondFactorAssumption DEF BurnsAt
    <3>5. temps' = [temps EXCEPT ![t] = x]
      BY <2>0, <1>1, <2>3 DEF Miss
    <3>6. x \in [tries : 0..MaxWrong, consumed : BOOLEAN, wrong : Nat]
          /\ x.tries = m /\ x.consumed = BurnsAt(m)
      BY <3>3, <3>4
    <3> HIDE DEF x, m
    <3>7. QED
      BY <3>4, <3>5, <3>6 DEF TempRow
  <2>4. QED
    BY <2>1, <2>2, <2>3
<1>5. TempsOK' /\ Len(temps') = Len(temps)
  BY <1>1, <1>4, TempChanges DEF Typed
<1>6. /\ CodesOK' /\ ExchangesOK' /\ LedgerOK' /\ offered' = Offered'
      /\ sets' = sets /\ minted' = minted
      /\ sets <= sets' /\ Len(temps) <= Len(temps') /\ minted <= minted'
  BY <1>2, <1>5 DEF Typed, TempsOK, CodesOK, ExchangesOK, LedgerOK, google, backup, ledger,
     Offered
<1>7. BoundsKept'
  BY <1>1, <1>3, <1>5, <1>6, BoundsStay
<1>8. QED
  BY <1>1, <1>3, <1>5, <1>6, <1>7, MoveTyped, RequestFacts DEF Verifying

\* The steps that issue a token, and that change the codes.
LEMMA StoreTyped ==
  ASSUME Typed, NEW p \in Handlers,
         \/ Promote(p) \/ DropCodes(p) \/ TurnOff(p) \/ ClearCodes(p)
  PROVE  Typed'
<1>0. {"drop", "store", "clear"} \subseteq Steps
  BY DEF Steps, Storing
<1>1. CASE Promote(p)
  <2>1. UNCHANGED <<temps, google, backup, offered, spent, uses, mixed, raced>>
        /\ enabled' \in BOOLEAN /\ req[p].at = "promote"
    BY <1>1, RequestFacts DEF Promote, ledger, At
  <2>2. CASE Moved(p, "idle", 0, 0, 0)
    BY <2>1, <2>2, Walks, RequestFacts DEF Verifying
  <2>3. CASE SetsLeft /\ Moved(p, "drop", req[p].n, req[p].code, req[p].tries)
    <3>1. /\ TempsOK' /\ CodesOK' /\ ExchangesOK' /\ LedgerOK' /\ offered' = Offered'
          /\ sets' = sets /\ Len(temps') = Len(temps) /\ minted' = minted
          /\ sets <= sets' /\ Len(temps) <= Len(temps') /\ minted <= minted'
      BY <2>1, RowsStay, RequestFacts
    <3>2. Busy({"drop", "store"})' = Busy({"drop", "store"}) + 1
      BY <2>1, <2>3, BusyMore
    <3>3. Busy({"temp"})' = Busy({"temp"})
      BY <2>1, <2>3, BusySame
    <3>4. sets + Busy({"drop", "store"}) < MaxSets /\ Busy({"drop", "store"}) \in Nat
      BY <2>3, BusyFinite DEF SetsLeft
    <3>5. BoundsKept'
      BY <3>1, <3>2, <3>3, <3>4, SecondFactorAssumption, RequestFacts
         DEF Typed, BoundsKept
    <3>6. QED
      BY <2>3, <3>1, <3>5, MoveTyped, RequestFacts DEF Verifying
  <2>4. QED
    BY <1>0, <1>1, <2>2, <2>3, GotoMoves, DoneMoves, RequestFacts DEF Promote
<1>2. CASE TurnOff(p)
  <2>1. UNCHANGED <<temps, google, backup, offered, spent, uses, mixed, raced>>
        /\ enabled' \in BOOLEAN /\ req[p].at = "off"
    BY <1>2 DEF TurnOff, ledger, At
  <2>2. Moved(p, "clear", req[p].n, req[p].code, req[p].tries)
    BY <1>0, <1>2, GotoMoves, RequestFacts DEF TurnOff
  <2>3. QED
    BY <2>1, <2>2, Walks, RequestFacts DEF Verifying
<1>3. CASE DropCodes(p) \/ ClearCodes(p)
  <2>1. UNCHANGED <<enabled, sets, temps, google, ledger>> /\ codes' = {} /\ marked' = {}
    BY <1>3 DEF DropCodes, ClearCodes
  <2>2. \/ req[p].at = "drop" /\ Moved(p, "store", req[p].n, req[p].code, req[p].tries)
        \/ req[p].at = "clear" /\ Moved(p, "idle", 0, 0, 0)
    BY <1>0, <1>3, GotoMoves, DoneMoves, RequestFacts DEF DropCodes, ClearCodes, At
  <2>3. /\ TempsOK' /\ CodesOK' /\ ExchangesOK' /\ LedgerOK' /\ offered' = Offered'
        /\ sets' = sets /\ Len(temps') = Len(temps) /\ minted' = minted
        /\ sets <= sets' /\ Len(temps) <= Len(temps') /\ minted <= minted'
    BY <2>1 DEF Typed, TempsOK, CodesOK, ExchangesOK, LedgerOK, google, ledger, Offered
  <2>4. BoundsKept'
    BY <2>2, <2>3, BoundsStay
  <2>5. QED
    BY <2>2, <2>3, <2>4, MoveTyped, RequestFacts DEF Verifying
<1>4. QED
  BY <1>1, <1>2, <1>3

\* The rows that are numbered and handed out.
LEMMA IssueTyped ==
  ASSUME Typed, NEW p \in Handlers, IssueTemp(p) \/ StoreCodes(p)
  PROVE  Typed'
<1>0. Moved(p, "idle", 0, 0, 0)
  BY DoneMoves, RequestFacts DEF IssueTemp, StoreCodes
<1>1. CASE IssueTemp(p)
  <2> DEFINE x == [tries |-> 0, consumed |-> FALSE, wrong |-> 0]
  <2>1. /\ temps' = Append(temps, x) /\ req[p].at = "temp"
        /\ offered' = offered \cup {Temp(Len(temps) + 1)}
        /\ UNCHANGED <<enabled, backup, google, spent, uses, raced, mixed>>
    BY <1>1 DEF IssueTemp, At
  <2>2. temps \in Seq(TempRow) /\ Len(temps) \in Nat
    BY DEF Typed, TempsOK
  <2>3. x \in TempRow /\ x.tries = 0
    BY SecondFactorAssumption DEF TempRow
  <2>4. /\ temps' \in Seq(TempRow) /\ Len(temps') = Len(temps) + 1
        /\ temps'[Len(temps) + 1] = x
        /\ \A t \in 1..Len(temps) : temps'[t] = temps[t]
    BY <2>1, <2>2, <2>3
  <2>5. TempsOK'
    <3>1. \A t \in 1..Len(temps') : t \in 1..Len(temps) \/ t = Len(temps) + 1
      BY <2>2, <2>4
    <3>2. 0 # MaxWrong
      BY SecondFactorAssumption
    <3> HIDE DEF x
    <3>3. QED
      BY <2>3, <2>4, <3>1, <3>2 DEF Typed, TempsOK
  <2>6. offered' = Offered'
    <3>1. 1..Len(temps') = 1..Len(temps) \cup {Len(temps) + 1}
      BY <2>2, <2>4
    <3>2. sets' = sets /\ minted' = minted
      BY <2>1 DEF backup, google
    <3>3. QED
      BY <2>1, <3>1, <3>2 DEF Typed, Offered
  <2>7. /\ CodesOK' /\ ExchangesOK' /\ LedgerOK' /\ sets' = sets /\ minted' = minted
    BY <2>1 DEF Typed, CodesOK, ExchangesOK, LedgerOK, google, backup
  <2>8. BoundsKept'
    <3>1. Busy({"temp"})' = Busy({"temp"}) - 1
      BY <1>0, <2>1, BusyLess
    <3>2. Busy({"drop", "store"})' = Busy({"drop", "store"})
      BY <1>0, <2>1, BusySame
    <3>3. QED
      BY <2>2, <2>4, <2>7, <3>1, <3>2, BusyFinite, SecondFactorAssumption
         DEF Typed, BoundsKept
  <2>9. sets <= sets' /\ Len(temps) <= Len(temps') /\ minted <= minted'
    BY <2>2, <2>4, <2>7 DEF CodesOK, ExchangesOK
  <2>10. QED
    BY <1>0, <2>5, <2>6, <2>7, <2>8, <2>9, MoveTyped, RequestFacts DEF Verifying
<1>2. CASE StoreCodes(p)
  <2>1. /\ sets' = sets + 1 /\ codes' = codes \cup {sets + 1}
        /\ offered' = offered \cup {Code(sets + 1)} /\ req[p].at = "store"
        /\ UNCHANGED <<enabled, marked, temps, google, spent, uses, raced, mixed>>
    BY <1>2 DEF StoreCodes, At
  <2>2. sets \in Nat /\ codes \in SUBSET (1..sets) /\ 1..sets' = 1..sets \cup {sets + 1}
    BY <2>1 DEF Typed, CodesOK
  <2>3. offered' = Offered'
    <3>1. temps' = temps /\ minted' = minted
      BY <2>1 DEF google
    <3>2. QED
      BY <2>1, <2>2, <3>1 DEF Typed, Offered
  <2>4. CodesOK'
    BY <2>1, <2>2 DEF Typed, CodesOK
  <2>5. /\ TempsOK' /\ ExchangesOK' /\ LedgerOK' /\ temps' = temps /\ minted' = minted
    BY <2>1 DEF Typed, TempsOK, ExchangesOK, LedgerOK, google
  <2>6. BoundsKept'
    <3>1. Busy({"temp"})' = Busy({"temp"})
      BY <1>0, <2>1, BusySame
    <3>2. Busy({"drop", "store"})' = Busy({"drop", "store"}) - 1
      BY <1>0, <2>1, BusyLess
    <3>3. QED
      BY <2>1, <2>2, <2>5, <3>1, <3>2, BusyFinite, SecondFactorAssumption
         DEF Typed, BoundsKept
  <2>7. sets <= sets' /\ Len(temps) <= Len(temps') /\ minted <= minted' /\ 0 \in 0..sets'
    BY <2>1, <2>2, <2>5 DEF TempsOK, ExchangesOK
  <2>8. QED
    BY <1>0, <2>3, <2>4, <2>5, <2>6, <2>7, MoveTyped, RequestFacts DEF Verifying
<1>3. QED
  BY <1>1, <1>2

\* The exchange codes.
LEMMA ExchangeTyped ==
  ASSUME Typed, NEW p \in Handlers,
         \/ \E n \in 1..minted : ExchangeFind(p, n)
         \/ ExchangeDelete(p) \/ ExchangedSession(p)
  PROVE  Typed'
<1>0. {"exchange", "exchanged"} \subseteq Steps /\ minted \in Nat
  BY DEF Steps, Typed, ExchangesOK
<1>1. ASSUME NEW n \in 1..minted, ExchangeFind(p, n) PROVE Typed'
  <2> DEFINE y == [Idle EXCEPT !.at = "exchange"]
             x == [y EXCEPT !.n = n]
  <2>1. y \in AnyRequest /\ y.at = "exchange" /\ y.n = 0 /\ y.code = 0 /\ y.tries = 0
    BY <1>0 DEF Idle, AnyRequest
  <2>2. Begin(p, x)
    BY <1>1 DEF ExchangeFind
  <2>3. n \in Nat
    BY <1>0
  <2> HIDE DEF y
  <2>4. x \in AnyRequest /\ x.at = "exchange" /\ x.n = n /\ x.code = 0 /\ x.tries = 0
    BY <2>1, <2>3 DEF AnyRequest
  <2> HIDE DEF x
  <2>5. req[p].at = "idle" /\ Moved(p, "exchange", n, 0, 0)
    BY <2>2, <2>4, BeginMoves, RequestFacts
  <2>6. UNCHANGED <<temps, google, backup, offered, spent, uses, enabled, mixed, raced>>
    BY <1>1 DEF ExchangeFind, ledger
  <2>7. QED
    BY <2>5, <2>6, Walks, RequestFacts DEF Verifying
<1>2. CASE ExchangeDelete(p)
  <2>1. /\ UNCHANGED <<enabled, backup, temps, minted, ledger>>
        /\ exchanges' \subseteq exchanges /\ req[p].at = "exchange"
    BY <1>2 DEF ExchangeDelete, At
  <2>2. \/ Moved(p, "idle", 0, 0, 0)
        \/ Moved(p, "exchanged", req[p].n, req[p].code, req[p].tries)
    BY <1>0, <1>2, GotoMoves, DoneMoves, RequestFacts DEF ExchangeDelete
  <2>3. /\ TempsOK' /\ CodesOK' /\ ExchangesOK' /\ LedgerOK' /\ offered' = Offered'
        /\ sets' = sets /\ Len(temps') = Len(temps) /\ minted' = minted
        /\ sets <= sets' /\ Len(temps) <= Len(temps') /\ minted <= minted'
    BY <2>1 DEF Typed, TempsOK, CodesOK, ExchangesOK, LedgerOK, backup, ledger, Offered
  <2>4. BoundsKept'
    BY <2>1, <2>2, <2>3, BoundsStay
  <2>5. QED
    BY <2>1, <2>2, <2>3, <2>4, MoveTyped, RequestFacts DEF Verifying
<1>3. CASE ExchangedSession(p)
  <2>1. /\ UNCHANGED <<temps, google, backup, offered, enabled, mixed, raced>>
        /\ req[p].at = "exchanged"
    BY <1>3 DEF ExchangedSession, Open, At
  <2>2. Moved(p, "idle", 0, 0, 0)
    BY <1>3, DoneMoves, RequestFacts DEF ExchangedSession
  <2>3. LedgerOK'
    <3>1. Exchange(req[p].n) \in offered
      BY <2>1, RequestFacts DEF Typed, Offered
    <3>2. IsFiniteSet({Exchange(req[p].n)} \ raced)
      BY OneAtMost
    <3>3. uses' \in Nat /\ spent' \subseteq offered
      BY <1>3, <3>1, <3>2, FS_CardinalityType DEF ExchangedSession, Open, Typed, LedgerOK
    <3>4. QED
      BY <2>1, <3>3 DEF Typed, LedgerOK
  <2>4. /\ TempsOK' /\ CodesOK' /\ ExchangesOK' /\ offered' = Offered'
        /\ sets' = sets /\ Len(temps') = Len(temps) /\ minted' = minted
        /\ sets <= sets' /\ Len(temps) <= Len(temps') /\ minted <= minted'
    BY <2>1 DEF Typed, TempsOK, CodesOK, ExchangesOK, google, backup, Offered
  <2>5. BoundsKept'
    BY <2>1, <2>2, <2>4, BoundsStay
  <2>6. QED
    BY <2>2, <2>3, <2>4, <2>5, MoveTyped, RequestFacts DEF Verifying
<1>4. QED
  BY <1>1, <1>2, <1>3

\* No request moves.
LEMMA StillTyped ==
  ASSUME Typed, UNCHANGED <<req, temps, enabled, mixed, backup, spent, uses, raced>>,
         ExchangesOK', offered' = Offered', minted <= minted', minted' <= MaxExchanges
  PROVE  Typed'
<1>1. RequestsOK' /\ TempsOK' /\ CodesOK'
  BY DEF Typed, RequestsOK, TempsOK, CodesOK, backup
<1>2. LedgerOK'
  <2>1. Offered \subseteq Offered'
    <3>1. 1..minted \subseteq 1..minted'
      BY DEF Typed, ExchangesOK
    <3>2. QED
      BY <3>1 DEF Offered, backup
  <2>2. QED
    BY <2>1 DEF Typed, LedgerOK
<1>3. RequestsHold'
  BY DEF Typed, RequestsHold, ExchangesOK
<1>4. BoundsKept'
  BY DEF Typed, BoundsKept, Busy, backup
<1>5. QED
  BY <1>1, <1>2, <1>3, <1>4 DEF Typed

\* Google's callback mints a code, the cleanup deletes one, or nothing happens.
LEMMA OtherTyped ==
  ASSUME Typed, \/ MintExchange \/ UNCHANGED vars
                \/ \E n \in 1..minted : ExchangeCleanup(n)
  PROVE  Typed'
<1>0. minted \in Nat /\ exchanges \in SUBSET (1..minted) /\ minted <= MaxExchanges
  BY DEF Typed, ExchangesOK, BoundsKept
<1>1. CASE MintExchange
  <2>1. /\ minted < MaxExchanges /\ minted' = minted + 1
        /\ exchanges' = exchanges \cup {minted + 1}
        /\ offered' = offered \cup {Exchange(minted + 1)}
        /\ UNCHANGED <<enabled, backup, temps, spent, uses, raced, mixed, req>>
    BY <1>1 DEF MintExchange
  <2>2. 1..minted' = 1..minted \cup {minted + 1} /\ minted <= minted'
        /\ minted' <= MaxExchanges
    BY <1>0, <2>1, SecondFactorAssumption
  <2>3. offered' = Offered'
    BY <2>1, <2>2 DEF Typed, Offered, backup
  <2>4. ExchangesOK'
    BY <1>0, <2>1, <2>2 DEF ExchangesOK
  <2>5. QED
    BY <2>1, <2>2, <2>3, <2>4, StillTyped
<1>2. CASE UNCHANGED vars \/ \E n \in 1..minted : ExchangeCleanup(n)
  <2>1. UNCHANGED <<req, temps, enabled, mixed, backup, spent, uses, raced, offered, minted>>
        /\ exchanges' \subseteq exchanges
    BY <1>2 DEF ExchangeCleanup, vars, google, ledger
  <2>2. offered' = Offered' /\ ExchangesOK' /\ minted <= minted' /\ minted' <= MaxExchanges
    BY <1>0, <2>1 DEF Typed, Offered, ExchangesOK, backup
  <2>3. QED
    BY <2>1, <2>2, StillTyped
<1>3. QED
  BY <1>1, <1>2

\* Every step keeps the types, and what the requests hold.
LEMMA TypedStep == Typed /\ [Next]_vars => Typed'
<1> SUFFICES ASSUME Typed, [Next]_vars PROVE Typed'
  OBVIOUS
<1>1. QED
  BY Bare, VerifyBeginTyped, VerifyTyped, TokenTyped, StoreTyped, IssueTyped,
     ExchangeTyped, OtherTyped DEF Next

\* The initial states are well typed.
LEMMA InitTyped == Init => Typed
<1> SUFFICES ASSUME Init PROVE Typed
  OBVIOUS
<1>1. \A p \in Handlers : req[p].at = "idle" /\ req[p].code = 0 /\ req[p].tries = 0
  BY DEF Init, Idle
<1>2. req \in [Handlers -> AnyRequest]
  BY DEF Init, Idle, AnyRequest, Steps
<1>3. RequestsOK /\ RequestsHold
  BY <1>1, <1>2, SecondFactorAssumption
     DEF RequestsOK, RequestsHold, Init, Verifying
<1>4. TempsOK /\ CodesOK /\ ExchangesOK /\ LedgerOK /\ Len(temps) = 0
  <2>1. temps \in Seq(TempRow) /\ Len(temps) = 0
    BY DEF Init
  <2>2. TempsOK
    BY <2>1 DEF TempsOK
  <2>3. CodesOK /\ ExchangesOK /\ LedgerOK
    BY DEF Init, CodesOK, ExchangesOK, LedgerOK
  <2>4. QED
    BY <2>1, <2>2, <2>3
<1>5. offered = Offered
  BY <1>4 DEF Init, Offered
<1>6. BoundsKept
  <2>1. Busy({"temp"}) = 0 /\ Busy({"drop", "store"}) = 0
    BY <1>1, BusyFinite
  <2>2. QED
    BY <1>4, <2>1, SecondFactorAssumption DEF BoundsKept, Init
<1>7. QED
  BY <1>3, <1>4, <1>5, <1>6 DEF Typed

\* The type invariant of the one-time credentials.
THEOREM CredentialsTypeCorrect == Spec => []TypeOK
BY InitTyped, TypedStep, TypedIsType, PTL DEF Spec

-----------------------------------------------------------------------------
(* Wrong codes, and what is spent *)

\* Two requests that verify the same token or code have raced for it.
RaceSeen == \A p, q \in Handlers :
  p # q /\ req[p].at \in Verifying /\ req[q].at \in Verifying =>
    /\ req[p].n = req[q].n => Temp(req[p].n) \in raced
    /\ req[p].code = req[q].code /\ req[p].code # 0 => Code(req[p].code) \in raced

\* Of a token nobody raced for, the row counts every wrong code, until it is
\* burned; it is not spent before.
TokensHeld == \A t \in 1..Len(temps) :
  /\ temps[t].wrong <= MaxWrong
  /\ Temp(t) \notin raced /\ ~temps[t].consumed =>
       temps[t].wrong = temps[t].tries /\ Temp(t) \notin spent

\* A request alone with its token read what the row says.
VerifiersAlone == \A p \in Handlers :
  req[p].at \in Verifying /\ Temp(req[p].n) \notin raced =>
    /\ temps[req[p].n] # Gone /\ Temp(req[p].n) \notin spent
    /\ temps[req[p].n].consumed <=> req[p].at = "open"
    /\ req[p].at \in {"verify", "find", "miss"} =>
         req[p].tries = temps[req[p].n].wrong

\* A code that was spent is marked or gone, and one that is marked by a request
\* alone with it was not.
CodesHeld ==
  /\ \A c \in codes : Code(c) \in spent => c \in marked \/ Code(c) \in raced
  /\ \A p \in Handlers : req[p].code # 0 =>
       /\ req[p].at \in {"mark", "burn", "open"} =>
            (Code(req[p].code) \in spent => Code(req[p].code) \in raced)
       /\ req[p].at \in {"burn", "open"} =>
            (req[p].code \in codes => req[p].code \in marked)

\* An exchange code is deleted by the one request that spends it.
ExchangesHeld ==
  /\ \A n \in 1..minted : Exchange(n) \notin raced
  /\ \A n \in exchanges : Exchange(n) \notin spent
  /\ \A p \in Handlers : req[p].at = "exchanged" =>
       req[p].n \notin exchanges /\ Exchange(req[p].n) \notin spent
  /\ \A p, q \in Handlers :
       p # q /\ req[p].at = "exchanged" /\ req[q].at = "exchanged" => req[p].n # req[q].n

Held == RaceSeen /\ TokensHeld /\ VerifiersAlone /\ CodesHeld /\ ExchangesHeld

\* A request that moves on with what it presented races with nobody new.
LEMMA KeepRace ==
  ASSUME RaceSeen, NEW p \in Handlers, NEW at, NEW n, NEW c, NEW k, Moved(p, at, n, c, k),
         raced \subseteq raced',
         at \in Verifying => req[p].at \in Verifying /\ n = req[p].n /\ c = req[p].code
  PROVE  RaceSeen'
BY DEF RaceSeen, Moved

\* The tokens' rows stay, and nothing but a burned token is spent.
LEMMA KeepTokens ==
  ASSUME TokensHeld, UNCHANGED temps, raced \subseteq raced',
         \A t \in 1..Len(temps) : Temp(t) \in spent' =>
           Temp(t) \in spent \/ Temp(t) \in raced \/ temps[t].consumed
  PROVE  TokensHeld'
BY DEF TokensHeld

\* A request moves on short of opening a session, or is over.
LEMMA KeepVerifiers ==
  ASSUME VerifiersAlone, NEW p \in Handlers, NEW at, NEW n, NEW c, NEW k,
         Moved(p, at, n, c, k), UNCHANGED temps, raced \subseteq raced',
         \A q \in Handlers \ {p} :
           req[q].at \in Verifying /\ Temp(req[q].n) \in spent' =>
             Temp(req[q].n) \in spent \/ Temp(req[q].n) \in raced,
         at \in Verifying =>
           /\ req[p].at \in Verifying \ {"open"} /\ at # "open" /\ n = req[p].n
           /\ Temp(n) \in spent' => Temp(n) \in spent
           /\ at \in {"verify", "find", "miss"} =>
                req[p].at \in {"verify", "find", "miss"} /\ k = req[p].tries
  PROVE  VerifiersAlone'
BY DEF VerifiersAlone, Moved

\* The codes stay, and nothing but a marked one is spent.
LEMMA KeepCodes ==
  ASSUME CodesHeld, NEW p \in Handlers, NEW at, NEW n, NEW c, NEW k,
         Moved(p, at, n, c, k), UNCHANGED <<codes, marked>>, raced \subseteq raced',
         \A d \in codes : Code(d) \in spent' =>
           Code(d) \in spent \/ Code(d) \in raced \/ d \in marked,
         \A q \in Handlers \ {p} :
           req[q].at \in {"mark", "burn", "open"} /\ req[q].code # 0
             /\ Code(req[q].code) \in spent' =>
               Code(req[q].code) \in spent \/ Code(req[q].code) \in raced,
         c # 0 /\ at \in {"mark", "burn", "open"} =>
           /\ Code(c) \in spent' => Code(c) \in raced'
           /\ at # "mark" /\ c \in codes => c \in marked
  PROVE  CodesHeld'
BY DEF CodesHeld, Moved

\* The exchange codes stay, or one is deleted, and none is spent.
LEMMA KeepExchanges ==
  ASSUME ExchangesHeld, NEW p \in Handlers, NEW at, NEW n, NEW c, NEW k,
         Moved(p, at, n, c, k), exchanges' \subseteq exchanges, UNCHANGED minted,
         \A m \in 1..minted : Exchange(m) \in raced' => Exchange(m) \in raced,
         \A m : Exchange(m) \in spent' => Exchange(m) \in spent,
         at # "exchanged"
  PROVE  ExchangesHeld'
BY DEF ExchangesHeld, Moved

\* The parts a step that does not open a session nor race keeps.
LEMMA KeepHeld ==
  ASSUME Typed, Held, NEW p \in Handlers, NEW at, NEW n, NEW c, NEW k,
         Moved(p, at, n, c, k),
         UNCHANGED <<temps, codes, marked, minted, spent, raced>>, exchanges' \subseteq exchanges,
         at # "exchanged",
         at \in Verifying =>
           /\ req[p].at \in Verifying \ {"open"} /\ at # "open"
           /\ n = req[p].n /\ c = req[p].code
           /\ at \in {"verify", "find", "miss"} =>
                req[p].at \in {"verify", "find", "miss"} /\ k = req[p].tries,
         c # 0 /\ at \in {"mark", "burn", "open"} =>
           /\ Code(c) \in spent => Code(c) \in raced
           /\ at # "mark" /\ c \in codes => c \in marked
  PROVE  Held'
<1>1. RaceSeen'
  BY KeepRace DEF Held
<1>2. TokensHeld'
  BY KeepTokens DEF Held
<1>3. VerifiersAlone'
  BY KeepVerifiers DEF Held
<1>4. CodesHeld'
  BY KeepCodes DEF Held
<1>5. ExchangesHeld'
  BY KeepExchanges DEF Held
<1>6. QED
  BY <1>1, <1>2, <1>3, <1>4, <1>5 DEF Held

\* The steps that have nothing to do with a verification, nor with the codes.
LEMMA AsideHeld ==
  ASSUME Typed, Held, NEW p \in Handlers,
         \/ LoginBegin(p) \/ EnableBegin(p) \/ RegenerateBegin(p) \/ DisableBegin(p)
         \/ Promote(p) \/ TurnOff(p) \/ \E n \in 1..minted : ExchangeFind(p, n)
  PROVE  Held'
<1>0. {"temp", "promote", "drop", "off", "clear", "exchange"} \subseteq Steps
  BY DEF Steps, Storing
<1>1. UNCHANGED <<temps, codes, marked, minted, spent, raced, exchanges>>
  BY DEF LoginBegin, EnableBegin, RegenerateBegin, DisableBegin, Promote, TurnOff,
     ExchangeFind, Change, backup, google, ledger
<1>2. ASSUME \/ LoginBegin(p) \/ EnableBegin(p) \/ RegenerateBegin(p) \/ DisableBegin(p)
      PROVE  Held'
  <2>1. PICK step \in {"temp", "promote", "drop", "off"} : Moved(p, step, 0, 0, 0)
    BY <1>0, <1>2, BareMoves, RequestFacts
       DEF LoginBegin, EnableBegin, RegenerateBegin, DisableBegin
  <2>2. QED
    BY <1>1, <2>1, KeepHeld DEF Verifying
<1>3. ASSUME Promote(p) \/ TurnOff(p) PROVE Held'
  <2>1. \/ Moved(p, "idle", 0, 0, 0)
        \/ \E step \in {"drop", "clear"} :
             Moved(p, step, req[p].n, req[p].code, req[p].tries)
    BY <1>0, <1>3, GotoMoves, DoneMoves, RequestFacts DEF Promote, TurnOff
  <2>2. QED
    BY <1>1, <2>1, KeepHeld DEF Verifying
<1>4. ASSUME NEW n \in 1..minted, ExchangeFind(p, n) PROVE Held'
  <2>1. Moved(p, "exchange", n, 0, 0)
    <3> DEFINE y == [Idle EXCEPT !.at = "exchange"]
               x == [y EXCEPT !.n = n]
    <3>1. y \in AnyRequest /\ y.at = "exchange" /\ y.n = 0 /\ y.code = 0 /\ y.tries = 0
      BY <1>0 DEF Idle, AnyRequest
    <3>2. Begin(p, x)
      BY <1>4 DEF ExchangeFind
    <3>3. n \in Nat
      BY DEF Typed, ExchangesOK
    <3> HIDE DEF y
    <3>4. x \in AnyRequest /\ x.at = "exchange" /\ x.n = n /\ x.code = 0 /\ x.tries = 0
      BY <3>1, <3>3 DEF AnyRequest
    <3> HIDE DEF x
    <3>5. QED
      BY <3>2, <3>4, BeginMoves, RequestFacts
  <2>2. QED
    BY <1>1, <2>1, KeepHeld DEF Verifying
<1>5. QED
  BY <1>2, <1>3, <1>4

\* A verification goes on: a code that is found is not marked, so it was spent
\* by nobody, or by one who raced for it.
LEMMA VerifyHeld ==
  ASSUME Typed, Held, NEW p \in Handlers, VerifyUser(p) \/ FindCode(p)
  PROVE  Held'
<1>0. {"find", "miss", "mark", "burn"} \subseteq Steps
  BY DEF Steps, Verifying
<1>1. UNCHANGED <<temps, codes, marked, minted, spent, raced, exchanges>>
  BY DEF VerifyUser, FindCode, backup, google, ledger
<1>2. CASE VerifyUser(p)
  <2>1. req[p].at = "verify"
    BY <1>2 DEF VerifyUser, At
  <2>2. \/ Moved(p, "idle", 0, 0, 0)
        \/ Moved(p, "find", req[p].n, req[p].code, req[p].tries)
        \/ req[p].code = 0 /\ Moved(p, "burn", req[p].n, req[p].code, 0)
        \/ Moved(p, "miss", req[p].n, req[p].code, req[p].tries)
    BY <1>0, <1>2, RequestFacts, DoneMoves, GotoMoves, RightMoves DEF VerifyUser
  <2>3. QED
    BY <1>1, <2>1, <2>2, KeepHeld DEF Verifying
<1>3. CASE FindCode(p)
  <2>1. req[p].at = "find"
    BY <1>3 DEF FindCode, At
  <2>2. \/ /\ req[p].code \in codes \ marked
           /\ Moved(p, "mark", req[p].n, req[p].code, 0)
        \/ Moved(p, "miss", req[p].n, req[p].code, req[p].tries)
    BY <1>0, <1>3, RequestFacts, GotoMoves, RightMoves DEF FindCode
  <2>3. req[p].code \in codes \ marked =>
          (Code(req[p].code) \in spent => Code(req[p].code) \in raced)
    BY DEF Held, CodesHeld
  <2>4. QED
    BY <1>1, <2>1, <2>2, <2>3, KeepHeld DEF Verifying
<1>4. QED
  BY <1>2, <1>3

\* The code is marked.
LEMMA MarkHeld ==
  ASSUME Typed, Held, NEW p \in Handlers, MarkCode(p)
  PROVE  Held'
<1>0. UNCHANGED <<temps, codes, minted, spent, raced, exchanges>>
  BY DEF MarkCode, google, ledger
<1>1. req[p].at = "mark" /\ req[p].code # 0 /\ "burn" \in Steps
  BY RequestFacts DEF MarkCode, At, Steps, Verifying
<1>2. \/ marked' = marked /\ Moved(p, "idle", 0, 0, 0)
      \/ /\ marked' = marked \cup {req[p].code}
         /\ Moved(p, "burn", req[p].n, req[p].code, req[p].tries)
  BY <1>1, RequestFacts, GotoMoves, DoneMoves DEF MarkCode
<1>3. CASE marked' = marked /\ Moved(p, "idle", 0, 0, 0)
  BY <1>0, <1>3, KeepHeld DEF Verifying
<1>4. CASE /\ marked' = marked \cup {req[p].code}
           /\ Moved(p, "burn", req[p].n, req[p].code, req[p].tries)
  <2>1. RaceSeen'
    BY <1>0, <1>1, <1>4, KeepRace DEF Held, Verifying
  <2>2. TokensHeld'
    BY <1>0, KeepTokens DEF Held
  <2>3. VerifiersAlone'
    BY <1>0, <1>1, <1>4, KeepVerifiers DEF Held, Verifying
  <2>4. CodesHeld'
    BY <1>0, <1>1, <1>4 DEF Held, CodesHeld, Moved
  <2>5. ExchangesHeld'
    BY <1>0, <1>4, KeepExchanges DEF Held
  <2>6. QED
    BY <2>1, <2>2, <2>3, <2>4, <2>5 DEF Held
<1>5. QED
  BY <1>2, <1>3, <1>4

\* The codes are dropped, or new ones stored, or a token issued.
LEMMA StoreHeld ==
  ASSUME Typed, Held, NEW p \in Handlers,
         DropCodes(p) \/ ClearCodes(p) \/ StoreCodes(p) \/ IssueTemp(p)
  PROVE  Held'
<1>0. UNCHANGED <<minted, spent, raced, exchanges>> /\ "store" \in Steps
  BY DEF DropCodes, ClearCodes, StoreCodes, IssueTemp, google, ledger, Steps, Storing
<1>1. \/ Moved(p, "idle", 0, 0, 0)
      \/ Moved(p, "store", req[p].n, req[p].code, req[p].tries)
  BY <1>0, RequestFacts, GotoMoves, DoneMoves
     DEF DropCodes, ClearCodes, StoreCodes, IssueTemp
<1>2. RaceSeen'
  BY <1>0, <1>1, KeepRace DEF Held, Verifying
<1>3. ExchangesHeld'
  BY <1>0, <1>1, KeepExchanges DEF Held
<1>4. CASE DropCodes(p) \/ ClearCodes(p)
  <2>1. UNCHANGED temps /\ codes' = {}
    BY <1>4 DEF DropCodes, ClearCodes
  <2>2. TokensHeld'
    BY <1>0, <2>1, KeepTokens DEF Held
  <2>3. VerifiersAlone'
    BY <1>0, <1>1, <2>1, KeepVerifiers DEF Held, Verifying
  <2>4. CodesHeld'
    BY <1>0, <1>1, <2>1 DEF Held, CodesHeld, Moved
  <2>5. QED
    BY <1>2, <1>3, <2>2, <2>3, <2>4 DEF Held
<1>5. CASE StoreCodes(p)
  <2>1. UNCHANGED <<temps, marked>> /\ codes' = codes \cup {sets + 1}
    BY <1>5 DEF StoreCodes
  <2>2. TokensHeld'
    BY <1>0, <2>1, KeepTokens DEF Held
  <2>3. VerifiersAlone'
    BY <1>0, <1>1, <2>1, KeepVerifiers DEF Held, Verifying
  <2>4. Code(sets + 1) \notin spent
    <3>1. Code(sets + 1) \notin Offered
      <4>1. sets + 1 \notin 1..sets
        BY DEF Typed, CodesOK
      <4>2. QED
        BY <4>1, CredentialsDiffer DEF Offered
    <3>2. QED
      BY <3>1 DEF Typed, LedgerOK
  <2>5. \A q \in Handlers : req[q].code # sets + 1
    BY DEF Typed, RequestsOK, CodesOK
  <2>6. CodesHeld'
    BY <1>0, <1>1, <2>1, <2>4, <2>5 DEF Held, CodesHeld, Moved
  <2>7. QED
    BY <1>2, <1>3, <2>2, <2>3, <2>6 DEF Held
<1>6. CASE IssueTemp(p)
  <2> DEFINE x == [tries |-> 0, consumed |-> FALSE, wrong |-> 0]
  <2>1. temps' = Append(temps, x) /\ UNCHANGED <<codes, marked>> /\ Moved(p, "idle", 0, 0, 0)
    BY <1>6, DoneMoves, RequestFacts DEF IssueTemp, backup
  <2>2. /\ Len(temps) \in Nat /\ Len(temps') = Len(temps) + 1
        /\ temps'[Len(temps) + 1] = x
        /\ \A t \in 1..Len(temps) : temps'[t] = temps[t]
    <3>1. temps \in Seq(TempRow) /\ x \in TempRow
      BY SecondFactorAssumption DEF Typed, TempsOK, TempRow
    <3> HIDE DEF x
    <3>2. QED
      BY <2>1, <3>1
  <2>3. Temp(Len(temps) + 1) \notin spent
    <3>1. Temp(Len(temps) + 1) \notin Offered
      <4>1. Len(temps) + 1 \notin 1..Len(temps)
        BY <2>2
      <4>2. QED
        BY <4>1, CredentialsDiffer DEF Offered
    <3>2. QED
      BY <3>1 DEF Typed, LedgerOK
  <2>4. TokensHeld'
    <3>1. x.wrong = 0 /\ x.tries = 0 /\ 0 <= MaxWrong
      BY SecondFactorAssumption
    <3>2. \A t \in 1..Len(temps') : t \in 1..Len(temps) \/ t = Len(temps) + 1
      BY <2>2
    <3> HIDE DEF x
    <3>3. QED
      BY <1>0, <2>2, <2>3, <3>1, <3>2 DEF Held, TokensHeld
  <2>5. VerifiersAlone'
    <3>1. \A q \in Handlers : req[q].at \in Verifying => req[q].n \in 1..Len(temps)
      BY RequestFacts
    <3>2. QED
      BY <1>0, <2>1, <2>2, <3>1 DEF Held, VerifiersAlone, Moved, Verifying
  <2>6. CodesHeld'
    BY <1>0, <2>1, KeepCodes DEF Held
  <2>7. QED
    BY <1>2, <1>3, <2>4, <2>5, <2>6 DEF Held
<1>7. QED
  BY <1>4, <1>5, <1>6

\* A token and a code are presented: who is verifying them already has company.
LEMMA PresentRaces ==
  ASSUME NEW t, NEW c, Present({Temp(t)} \cup {Code(d) : d \in {c} \ {0}})
  PROVE  /\ raced \subseteq raced'
         /\ \A q \in Handlers : req[q].at \in Verifying =>
              /\ req[q].n = t => Temp(t) \in raced'
              /\ req[q].code = c /\ c # 0 => Code(c) \in raced'
         /\ \A m : Exchange(m) \in raced' => Exchange(m) \in raced
<1> DEFINE C == {Temp(t)} \cup {Code(d) : d \in {c} \ {0}}
           V == UNION {Presented(p) : p \in {q \in Handlers : req[q].at \in Verifying}}
<1>1. raced' = raced \cup (C \cap V)
  BY DEF Present
<1>2. ASSUME NEW q \in Handlers, req[q].at \in Verifying
      PROVE  Presented(q) \subseteq V
  BY <1>2
<1>3. Temp(t) \in C /\ (c # 0 => Code(c) \in C)
  OBVIOUS
<1>4. \A m : Exchange(m) \notin C
  BY CredentialsDiffer
<1> HIDE DEF C, V
<1>5. ASSUME NEW q \in Handlers, req[q].at \in Verifying
      PROVE  /\ req[q].n = t => Temp(t) \in raced'
             /\ req[q].code = c /\ c # 0 => Code(c) \in raced'
  BY <1>1, <1>2, <1>3, <1>5 DEF Presented
<1>6. QED
  BY <1>1, <1>4, <1>5

\* A verification begins.
LEMMA VerifyBeginHeld ==
  ASSUME Typed, Held, NEW p \in Handlers, NEW t \in 1..Len(temps), VerifyBegin(p, t)
  PROVE  Held'
<1>1. PICK c \in {0} \cup codes :
        /\ Begin(p, [at |-> "verify", n |-> t, code |-> c, tries |-> temps[t].tries])
        /\ Present({Temp(t)} \cup {Code(d) : d \in {c} \ {0}})
  BY DEF VerifyBegin
<1>2. UNCHANGED <<temps, codes, marked, minted, spent, exchanges>>
  BY <1>1 DEF VerifyBegin, Present, backup, google
<1>3. temps[t] # Gone /\ ~temps[t].consumed
  BY DEF VerifyBegin
<1>4. req[p].at = "idle" /\ Moved(p, "verify", t, c, temps[t].tries)
  <2> DEFINE x == [at |-> "verify", n |-> t, code |-> c, tries |-> temps[t].tries]
  <2>1. c \in Nat /\ temps[t].tries \in Nat
    BY <1>3, SecondFactorAssumption DEF Typed, CodesOK, TempsOK, TempRow
  <2>2. x \in AnyRequest /\ x.at = "verify" /\ x.n = t /\ x.code = c
        /\ x.tries = temps[t].tries
    BY <2>1 DEF AnyRequest, Steps, Verifying
  <2>3. Begin(p, x)
    BY <1>1
  <2> HIDE DEF x
  <2>4. QED
    BY <2>2, <2>3, BeginMoves, RequestFacts
<1>5. /\ raced \subseteq raced'
      /\ \A q \in Handlers : req[q].at \in Verifying =>
           /\ req[q].n = t => Temp(t) \in raced'
           /\ req[q].code = c /\ c # 0 => Code(c) \in raced'
      /\ \A m : Exchange(m) \in raced' => Exchange(m) \in raced
  BY <1>1, PresentRaces
<1>6. RaceSeen'
  BY <1>4, <1>5 DEF Held, RaceSeen, Moved
<1>7. TokensHeld'
  BY <1>2, <1>5, KeepTokens DEF Held
<1>8. VerifiersAlone'
  <2>1. ASSUME Temp(t) \notin raced'
        PROVE  Temp(t) \notin spent /\ temps[t].wrong = temps[t].tries
    BY <1>3, <1>5, <2>1 DEF Held, TokensHeld
  <2>2. QED
    BY <1>2, <1>3, <1>4, <1>5, <2>1 DEF Held, VerifiersAlone, Moved
<1>9. CodesHeld'
  BY <1>2, <1>4, <1>5, KeepCodes DEF Held
<1>10. ExchangesHeld'
  BY <1>2, <1>4, <1>5, KeepExchanges DEF Held
<1>11. QED
  BY <1>6, <1>7, <1>8, <1>9, <1>10 DEF Held

\* A row of a token is not the mark of one that is gone.
LEMMA RowsDiffer ==
  \A x \in [tries : 0..MaxWrong, consumed : BOOLEAN, wrong : Nat] : x # Gone
<1>1. DOMAIN Gone = {"consumed", "wrong"}
  BY DEF Gone
<1>2. \A x \in [tries : 0..MaxWrong, consumed : BOOLEAN, wrong : Nat] : "tries" \in DOMAIN x
  OBVIOUS
<1>3. QED
  BY <1>1, <1>2

\* The row of the request's token is written, by a request that read it as it
\* is, or has company.
LEMMA TokenHeld ==
  ASSUME Typed, Held, NEW p \in Handlers, BurnTemp(p) \/ TempGone(p) \/ Miss(p)
  PROVE  Held'
<1> DEFINE t == req[p].n
           Row == [tries : 0..MaxWrong, consumed : BOOLEAN, wrong : Nat]
<1>1. req[p].at \in {"burn", "miss"} /\ t \in 1..Len(temps)
  BY RequestFacts DEF BurnTemp, TempGone, Miss, At, Verifying
<1>2. UNCHANGED <<codes, marked, minted, spent, raced, exchanges>>
  BY DEF BurnTemp, TempGone, Miss, backup, google, ledger
<1>3. temps \in Seq(TempRow) /\ temps[t] \in TempRow
  BY <1>1 DEF Typed, TempsOK
<1>4. Temp(t) \notin raced =>
        /\ temps[t] # Gone /\ Temp(t) \notin spent /\ ~temps[t].consumed
        /\ req[p].at = "miss" => req[p].tries = temps[t].wrong
  BY <1>1 DEF Held, VerifiersAlone, Verifying
<1>5. \E x : /\ temps' = [temps EXCEPT ![t] = x]
             /\ \/ /\ Moved(p, "idle", 0, 0, 0)
                   /\ x = Gone \/ /\ x.wrong <= MaxWrong
                                  /\ Temp(t) \notin raced => x.wrong = x.tries
                \/ /\ Moved(p, "open", t, req[p].code, req[p].tries) /\ req[p].at = "burn"
                   /\ x # Gone /\ x.consumed /\ x.wrong = 0
  <2>1. CASE TempGone(p)
    BY <2>1, DoneMoves, RequestFacts DEF TempGone
  <2>2. CASE BurnTemp(p)
    <3> DEFINE y == [temps[t] EXCEPT !.consumed = TRUE]
               x == [y EXCEPT !.wrong = 0]
    <3>1. temps[t] \in Row
      BY <1>3, <2>2 DEF BurnTemp, TempRow
    <3>2. y \in Row /\ y.consumed
      BY <3>1
    <3>3. temps' = [temps EXCEPT ![t] = x]
      BY <1>1, <1>3, <2>2 DEF BurnTemp
    <3> HIDE DEF y
    <3>4. x \in Row /\ x.consumed /\ x.wrong = 0
      BY <3>2
    <3> HIDE DEF x
    <3>5. "open" \in Steps /\ req[p].at = "burn"
      BY <2>2 DEF Steps, Verifying, BurnTemp, At
    <3>6. Moved(p, "open", t, req[p].code, req[p].tries)
      BY <2>2, <3>5, GotoMoves, RequestFacts DEF BurnTemp
    <3>7. QED
      BY <3>3, <3>4, <3>5, <3>6, RowsDiffer
  <2>3. CASE Miss(p)
    <3> DEFINE m == req[p].tries + 1
               w == IF Temp(t) \in raced THEN temps[t].wrong ELSE temps[t].wrong + 1
               x == [tries |-> m, consumed |-> BurnsAt(m), wrong |-> w]
    <3>1. temps[t] \in Row
      BY <1>3, <2>3 DEF Miss, TempRow
    <3>2. req[p].at = "miss" /\ req[p].tries \in 0..MaxWrong /\ req[p].tries < MaxWrong
      BY <2>3, RequestFacts DEF Miss, At
    <3>3. w <= MaxWrong /\ (Temp(t) \notin raced => w = m)
      <4>1. CASE Temp(t) \in raced
        BY <1>1, <4>1 DEF Held, TokensHeld
      <4>2. CASE Temp(t) \notin raced
        BY <1>4, <3>1, <3>2, <4>2, SecondFactorAssumption
      <4>3. QED
        BY <4>1, <4>2
    <3>4. temps' = [temps EXCEPT ![t] = x]
      BY <1>1, <1>3, <2>3 DEF Miss
    <3>5. x.tries = m /\ x.wrong = w
      OBVIOUS
    <3>6. Moved(p, "idle", 0, 0, 0)
      BY <2>3, DoneMoves, RequestFacts DEF Miss
    <3> HIDE DEF x, m, w
    <3>7. QED
      BY <3>3, <3>4, <3>5, <3>6
  <2>4. QED
    BY <2>1, <2>2, <2>3
<1>6. PICK x : /\ temps' = [temps EXCEPT ![t] = x]
               /\ \/ /\ Moved(p, "idle", 0, 0, 0)
                     /\ x = Gone \/ /\ x.wrong <= MaxWrong
                                    /\ Temp(t) \notin raced => x.wrong = x.tries
                  \/ /\ Moved(p, "open", t, req[p].code, req[p].tries) /\ req[p].at = "burn"
                     /\ x # Gone /\ x.consumed /\ x.wrong = 0
  BY <1>5
<1>7. /\ Len(temps') = Len(temps) /\ temps'[t] = x
      /\ \A u \in 1..Len(temps) \ {t} : temps'[u] = temps[u]
  BY <1>1, <1>3, <1>6
<1>8. RaceSeen'
  BY <1>1, <1>2, <1>6, KeepRace DEF Held, Verifying
<1>9. TokensHeld'
  <2>1. Gone.wrong = 0 /\ Gone.consumed /\ 0 <= MaxWrong
    BY SecondFactorAssumption DEF Gone
  <2>2. x.wrong <= MaxWrong
    BY <1>6, <2>1
  <2>3. Temp(t) \notin raced /\ ~x.consumed => x.wrong = x.tries /\ Temp(t) \notin spent
    BY <1>4, <1>6, <2>1
  <2>4. QED
    BY <1>2, <1>7, <2>2, <2>3 DEF Held, TokensHeld
<1>10. VerifiersAlone'
  <2>1. \A q \in Handlers \ {p} : req[q].at \in Verifying /\ Temp(req[q].n) \notin raced =>
          req[q].n \in 1..Len(temps) \ {t}
    BY <1>1, RequestFacts DEF Held, RaceSeen, Verifying
  <2>2. \A q \in Handlers \ {p} : req'[q] = req[q]
    BY <1>6 DEF Moved
  <2>3. ASSUME NEW q \in Handlers \ {p}, req'[q].at \in Verifying, Temp(req'[q].n) \notin raced'
        PROVE  /\ temps'[req'[q].n] # Gone /\ Temp(req'[q].n) \notin spent'
               /\ temps'[req'[q].n].consumed <=> req'[q].at = "open"
               /\ req'[q].at \in {"verify", "find", "miss"} =>
                    req'[q].tries = temps'[req'[q].n].wrong
    BY <1>2, <1>7, <2>1, <2>2, <2>3 DEF Held, VerifiersAlone
  <2>4. ASSUME req'[p].at \in Verifying, Temp(req'[p].n) \notin raced'
        PROVE  /\ temps'[req'[p].n] # Gone /\ Temp(req'[p].n) \notin spent'
               /\ temps'[req'[p].n].consumed <=> req'[p].at = "open"
               /\ req'[p].at = "open"
    BY <1>2, <1>4, <1>6, <1>7, <2>4 DEF Moved, Verifying
  <2>5. QED
    BY <2>3, <2>4 DEF VerifiersAlone
<1>11. CodesHeld'
  BY <1>2, <1>6, KeepCodes DEF Held, CodesHeld
<1>12. ExchangesHeld'
  BY <1>2, <1>6, KeepExchanges DEF Held
<1>13. QED
  BY <1>8, <1>9, <1>10, <1>11, <1>12 DEF Held

\* What a session is opened with: nobody else has spent it, but for what was
\* raced for.
LEMMA PresentedUnspent ==
  ASSUME Typed, Held, NEW p \in Handlers, req[p].at = "open"
  PROVE  Presented(p) \ raced \subseteq offered \ spent
<1>1. Temp(req[p].n) \notin raced => Temp(req[p].n) \notin spent
  BY DEF Held, VerifiersAlone, Verifying
<1>2. req[p].code # 0 /\ Code(req[p].code) \notin raced => Code(req[p].code) \notin spent
  BY DEF Held, CodesHeld
<1>3. Presented(p) \subseteq offered
  BY HeldOffered DEF Verifying
<1>4. QED
  BY <1>1, <1>2, <1>3 DEF Presented

\* A verification opens its session.
LEMMA SessionHeld ==
  ASSUME Typed, Held, NEW p \in Handlers, VerifiedSession(p)
  PROVE  Held'
<1>1. /\ UNCHANGED <<temps, codes, marked, minted, exchanges, raced>>
      /\ spent' = spent \cup (Presented(p) \ raced) /\ req[p].at = "open"
  BY DEF VerifiedSession, Open, backup, google, At
<1>2. Moved(p, "idle", 0, 0, 0)
  BY DoneMoves, RequestFacts DEF VerifiedSession
<1>3. RaceSeen'
  BY <1>1, <1>2, KeepRace DEF Held, Verifying
<1>4. \A t : Temp(t) \in spent' => Temp(t) \in spent \/ (t = req[p].n /\ Temp(t) \notin raced)
  BY <1>1, CredentialsDiffer DEF Presented
<1>5. \A c : Code(c) \in spent' =>
        Code(c) \in spent \/ (c = req[p].code /\ c # 0 /\ Code(c) \notin raced)
  BY <1>1, CredentialsDiffer DEF Presented
<1>6. \A m : Exchange(m) \in spent' => Exchange(m) \in spent
  BY <1>1, CredentialsDiffer DEF Presented
<1>7. TokensHeld'
  <2>1. Temp(req[p].n) \notin raced => temps[req[p].n].consumed
    BY <1>1 DEF Held, VerifiersAlone, Verifying
  <2>2. QED
    BY <1>1, <1>4, <2>1, KeepTokens DEF Held
<1>8. VerifiersAlone'
  <2>1. \A q \in Handlers \ {p} : req[q].at \in Verifying /\ Temp(req[q].n) \in spent' =>
          Temp(req[q].n) \in spent \/ Temp(req[q].n) \in raced
    BY <1>1, <1>4 DEF Held, RaceSeen, Verifying
  <2>2. QED
    BY <1>1, <1>2, <2>1, KeepVerifiers DEF Held, Verifying
<1>9. CodesHeld'
  <2>1. \A d \in codes : Code(d) \in spent' =>
          Code(d) \in spent \/ Code(d) \in raced \/ d \in marked
    BY <1>1, <1>5 DEF Held, CodesHeld
  <2>2. \A q \in Handlers \ {p} :
          req[q].at \in {"mark", "burn", "open"} /\ req[q].code # 0
            /\ Code(req[q].code) \in spent' =>
              Code(req[q].code) \in spent \/ Code(req[q].code) \in raced
    BY <1>1, <1>5 DEF Held, RaceSeen, Verifying
  <2>3. QED
    BY <1>1, <1>2, <2>1, <2>2, KeepCodes DEF Held
<1>10. ExchangesHeld'
  BY <1>1, <1>2, <1>6, KeepExchanges DEF Held
<1>11. QED
  BY <1>3, <1>7, <1>8, <1>9, <1>10 DEF Held

\* An exchange code is deleted by one request, which opens its session.
LEMMA ExchangeHeld ==
  ASSUME Typed, Held, NEW p \in Handlers, ExchangeDelete(p) \/ ExchangedSession(p)
  PROVE  Held'
<1>0. "exchanged" \in Steps
  BY DEF Steps
<1>1. CASE ExchangeDelete(p)
  <2>1. /\ UNCHANGED <<temps, codes, marked, minted, spent, raced>>
        /\ req[p].at = "exchange" /\ exchanges' = exchanges \ {req[p].n}
    BY <1>1 DEF ExchangeDelete, backup, ledger, At
  <2>2. \/ Moved(p, "idle", 0, 0, 0)
        \/ /\ req[p].n \in exchanges
           /\ Moved(p, "exchanged", req[p].n, req[p].code, req[p].tries)
    BY <1>0, <1>1, GotoMoves, DoneMoves, RequestFacts DEF ExchangeDelete
  <2>3. CASE Moved(p, "idle", 0, 0, 0)
    BY <2>1, <2>3, KeepHeld DEF Verifying
  <2>4. CASE /\ req[p].n \in exchanges
             /\ Moved(p, "exchanged", req[p].n, req[p].code, req[p].tries)
    <3>1. RaceSeen'
      BY <2>1, <2>4, KeepRace DEF Held, Verifying
    <3>2. TokensHeld'
      BY <2>1, KeepTokens DEF Held
    <3>3. VerifiersAlone'
      BY <2>1, <2>4, KeepVerifiers DEF Held, Verifying
    <3>4. CodesHeld'
      BY <2>1, <2>4, KeepCodes DEF Held
    <3>5. ExchangesHeld'
      BY <2>1, <2>4 DEF Held, ExchangesHeld, Moved
    <3>6. QED
      BY <3>1, <3>2, <3>3, <3>4, <3>5 DEF Held
  <2>5. QED
    BY <2>2, <2>3, <2>4
<1>2. CASE ExchangedSession(p)
  <2>1. /\ UNCHANGED <<temps, codes, marked, minted, exchanges, raced>>
        /\ spent' = spent \cup ({Exchange(req[p].n)} \ raced) /\ req[p].at = "exchanged"
    BY <1>2 DEF ExchangedSession, Open, backup, google, At
  <2>2. Moved(p, "idle", 0, 0, 0)
    BY <1>2, DoneMoves, RequestFacts DEF ExchangedSession
  <2>3. \A m : /\ Temp(m) \in spent' => Temp(m) \in spent
               /\ Code(m) \in spent' => Code(m) \in spent
               /\ Exchange(m) \in spent' => Exchange(m) \in spent \/ m = req[p].n
    BY <2>1, CredentialsDiffer
  <2>4. RaceSeen'
    BY <2>1, <2>2, KeepRace DEF Held, Verifying
  <2>5. TokensHeld'
    BY <2>1, <2>3, KeepTokens DEF Held
  <2>6. VerifiersAlone'
    BY <2>1, <2>2, <2>3, KeepVerifiers DEF Held, Verifying
  <2>7. CodesHeld'
    BY <2>1, <2>2, <2>3, KeepCodes DEF Held
  <2>8. ExchangesHeld'
    BY <2>1, <2>2, <2>3 DEF Held, ExchangesHeld, Moved
  <2>9. QED
    BY <2>4, <2>5, <2>6, <2>7, <2>8 DEF Held
<1>3. QED
  BY <1>1, <1>2

\* A code is minted, or one cleaned up, or nothing happens.
LEMMA OtherHeld ==
  ASSUME Typed, Held, \/ MintExchange \/ UNCHANGED vars
                      \/ \E n \in 1..minted : ExchangeCleanup(n)
  PROVE  Held'
<1>1. UNCHANGED <<temps, codes, marked, spent, raced, req>>
  BY DEF MintExchange, ExchangeCleanup, vars, backup, ledger
<1>2. RaceSeen' /\ TokensHeld' /\ VerifiersAlone' /\ CodesHeld'
  BY <1>1 DEF Held, RaceSeen, TokensHeld, VerifiersAlone, CodesHeld
<1>3. ExchangesHeld'
  <2>1. CASE MintExchange
    <3>1. /\ minted \in Nat /\ minted + 1 \notin 1..minted
          /\ minted' = minted + 1 /\ exchanges' = exchanges \cup {minted + 1}
          /\ 1..minted' = 1..minted \cup {minted + 1}
      BY <2>1 DEF MintExchange, Typed, ExchangesOK
    <3>2. Exchange(minted + 1) \notin Offered
      BY <3>1, CredentialsDiffer DEF Offered
    <3>3. Exchange(minted + 1) \notin spent /\ Exchange(minted + 1) \notin raced
      BY <3>2 DEF Typed, LedgerOK
    <3>4. \A p \in Handlers : req[p].at = "exchanged" => req[p].n # minted + 1
      BY <3>1, RequestFacts
    <3>5. QED
      BY <1>1, <3>1, <3>3, <3>4 DEF Held, ExchangesHeld
  <2>2. CASE UNCHANGED vars \/ \E n \in 1..minted : ExchangeCleanup(n)
    <3>1. exchanges' \subseteq exchanges /\ minted' = minted
      BY <2>2 DEF ExchangeCleanup, vars, google
    <3>2. QED
      BY <1>1, <3>1 DEF Held, ExchangesHeld
  <2>3. QED
    BY <2>1, <2>2
<1>4. QED
  BY <1>2, <1>3 DEF Held

\* The inductive invariant.
LEMMA HeldStep == Typed /\ Held /\ [Next]_vars => Held'
<1> SUFFICES ASSUME Typed, Held, [Next]_vars PROVE Held'
  OBVIOUS
<1>1. QED
  BY AsideHeld, VerifyBeginHeld, VerifyHeld, MarkHeld, StoreHeld, TokenHeld, SessionHeld,
     ExchangeHeld, OtherHeld DEF Next

\* At first nothing is presented, and nothing spent.
LEMMA InitHeld == Init => Held
<1> SUFFICES ASSUME Init PROVE Held
  OBVIOUS
<1>1. \A p \in Handlers : req[p].at = "idle" /\ req[p].code = 0
  BY DEF Init, Idle
<1>2. Len(temps) = 0 /\ codes = {} /\ minted = 0 /\ exchanges = {}
  BY DEF Init
<1>3. QED
  BY <1>1, <1>2
     DEF Held, RaceSeen, TokensHeld, VerifiersAlone, CodesHeld, ExchangesHeld, Verifying

\* A temporary token takes no more wrong codes than the limit, unless two
\* verifications presented it at once.
THEOREM WrongCodesAreBounded == Spec => []WrongCodesBounded
<1>1. Held => WrongCodesBounded
  BY DEF Held, TokensHeld, WrongCodesBounded
<1>2. QED
  BY <1>1, InitTyped, TypedStep, InitHeld, HeldStep, PTL DEF Spec

\* SingleUse counts as this module does.
LEMMA SameCount == \A S : Once!Cardinality(S) = Cardinality(S)
BY DEF Once!Cardinality, Cardinality

\* A step offers one credential, uses some that are not spent yet, or leaves
\* the three variables alone.
LEMMA StepsOnce ==
  ASSUME Typed, Typed', Held, [Next]_vars
  PROVE  [Once!Next]_<<offered, spent, uses>>
<1>0. offered' \in SUBSET Credential /\ offered \in SUBSET Credential
  <2>1. (Typed => Offered \in SUBSET Credential)'
    BY OfferedCredential, PTL
  <2>2. QED
    BY <2>1, OfferedCredential DEF Typed
<1>1. ASSUME NEW c, offered' = offered \cup {c}, UNCHANGED <<spent, uses>>
      PROVE  Once!Next
  <2>1. c \in Credential
    BY <1>0, <1>1
  <2>2. Once!Offer({c})
    BY <1>1 DEF Once!Offer
  <2>3. QED
    BY <2>1, <2>2 DEF Once!Next
<1>2. ASSUME NEW C, C \ raced \subseteq offered \ spent, Open(C)
      PROVE  Once!Next
  <2>1. C \ raced \in SUBSET Credential
    BY <1>0, <1>2
  <2>2. Once!Use(C \ raced)
    BY <1>2, SameCount DEF Once!Use, Open
  <2>3. QED
    BY <2>1, <2>2 DEF Once!Next
<1>3. ASSUME NEW p \in Handlers, IssueTemp(p) PROVE Once!Next
  BY <1>1, <1>3 DEF IssueTemp
<1>4. ASSUME NEW p \in Handlers, StoreCodes(p) PROVE Once!Next
  BY <1>1, <1>4 DEF StoreCodes
<1>5. CASE MintExchange
  BY <1>1, <1>5 DEF MintExchange
<1>6. ASSUME NEW p \in Handlers, VerifiedSession(p) PROVE Once!Next
  BY <1>2, <1>6, PresentedUnspent DEF VerifiedSession, At
<1>7. ASSUME NEW p \in Handlers, ExchangedSession(p) PROVE Once!Next
  <2>1. req[p].at = "exchanged" /\ req[p].n \in 1..minted
    BY <1>7, RequestFacts DEF ExchangedSession, At
  <2>2. Exchange(req[p].n) \in offered \ spent
    BY <2>1 DEF Held, ExchangesHeld, Typed, Offered
  <2>3. {Exchange(req[p].n)} \ raced \subseteq offered \ spent
    BY <2>2
  <2>4. QED
    BY <1>2, <1>7, <2>3 DEF ExchangedSession
<1>8. CASE UNCHANGED <<offered, spent, uses>>
  BY <1>8
<1>9. ASSUME NEW p \in Handlers,
             \/ LoginBegin(p) \/ \E t \in 1..Len(temps) : VerifyBegin(p, t)
             \/ VerifyUser(p) \/ FindCode(p) \/ MarkCode(p) \/ BurnTemp(p) \/ TempGone(p)
             \/ Miss(p) \/ EnableBegin(p) \/ Promote(p) \/ RegenerateBegin(p)
             \/ DropCodes(p) \/ DisableBegin(p) \/ TurnOff(p) \/ ClearCodes(p)
             \/ (\E n \in 1..minted : ExchangeFind(p, n)) \/ ExchangeDelete(p)
      PROVE  UNCHANGED <<offered, spent, uses>>
  BY <1>9 DEF LoginBegin, VerifyBegin, VerifyUser, FindCode, MarkCode, BurnTemp, TempGone,
     Miss, EnableBegin, Promote, RegenerateBegin, DropCodes, DisableBegin, TurnOff,
     ClearCodes, ExchangeFind, ExchangeDelete, Present, Change, ledger
<1>10. CASE UNCHANGED vars \/ \E n \in 1..minted : ExchangeCleanup(n)
  BY <1>8, <1>10 DEF vars, ExchangeCleanup, ledger
<1>11. QED
  BY <1>3, <1>4, <1>5, <1>6, <1>7, <1>8, <1>9, <1>10 DEF Next

\* A temporary token, a backup code and an exchange code open one session at
\* most, but for what two verifications presented at once: the sign-ins
\* implement SingleUse.
THEOREM CredentialsSpentOnce == Spec => SpentOnce
<1>1. Init => Once!Init
  BY DEF Init, Once!Init
<1>2. Typed /\ Held /\ [Next]_vars => [Once!Next]_<<offered, spent, uses>>
  BY TypedStep, StepsOnce
<1>3. QED
  BY <1>1, <1>2, InitTyped, TypedStep, InitHeld, HeldStep, PTL
     DEF Spec, SpentOnce, Once!Spec

-----------------------------------------------------------------------------
(* The codes a change leaves behind *)

\* The codes there should be: the newest set, or none.
Current == IF enabled THEN {sets} ELSE {}

\* Changes that do not overlap come one at a time, each in order.
Settled == ~mixed =>
  /\ \A p, q \in Handlers : req[p].at \in Storing /\ req[q].at \in Storing => p = q
  /\ \A p \in Handlers :
       /\ req[p].at \in {"drop", "store"} => enabled
       /\ req[p].at = "store" => codes = {}
       /\ req[p].at = "clear" => ~enabled
  /\ (\A p \in Handlers : req[p].at \notin Storing \ {"promote"}) => codes \subseteq Current

\* A request that changes nothing of them moves.
LEMMA KeepSettled ==
  ASSUME Settled, NEW p \in Handlers, NEW at, NEW n, NEW c, NEW k, Moved(p, at, n, c, k),
         UNCHANGED <<enabled, sets, codes, mixed>>,
         req[p].at \notin Storing \ {"promote"}, at \notin Storing
  PROVE  Settled'
<1> SUFFICES ASSUME ~mixed' PROVE Settled'
  BY DEF Settled
<1>1. \A q \in Handlers : req'[q].at \in Storing => req[q].at \in Storing /\ req'[q] = req[q]
  BY DEF Moved
<1>2. (\A q \in Handlers : req'[q].at \notin Storing \ {"promote"})
        => \A q \in Handlers : req[q].at \notin Storing \ {"promote"}
  BY DEF Moved
<1>3. QED
  BY <1>1, <1>2 DEF Settled, Current, Storing

\* A change begins with nobody else changing, or is seen to overlap.
LEMMA ChangeSettled ==
  ASSUME Typed, Settled, NEW p \in Handlers,
         EnableBegin(p) \/ RegenerateBegin(p) \/ DisableBegin(p)
  PROVE  Settled'
<1>0. {"promote", "drop", "off"} \subseteq Steps
  BY DEF Steps, Storing
<1>1. UNCHANGED <<enabled, sets, codes>>
  BY DEF EnableBegin, RegenerateBegin, DisableBegin, backup
<1> SUFFICES ASSUME ~mixed' PROVE Settled'
  BY DEF Settled
<1>2. \A q \in Handlers : req[q].at \notin Storing
  <2>1. ~(Busy(Storing) > 0) /\ Busy(Storing) \in Nat
    BY BusyFinite DEF EnableBegin, RegenerateBegin, DisableBegin, Change
  <2>2. Busy(Storing) = 0
    BY <2>1
  <2>3. QED
    BY <2>2, BusyFinite
<1>3. CASE EnableBegin(p)
  <2>1. Moved(p, "promote", 0, 0, 0) /\ ~mixed
    BY <1>0, <1>3, BareMoves, RequestFacts DEF EnableBegin, Change
  <2>2. \A q \in Handlers : req'[q].at \in Storing => q = p
    BY <1>2, <2>1 DEF Moved
  <2>3. codes \subseteq Current
    BY <1>2, <2>1 DEF Settled
  <2>4. QED
    BY <1>1, <2>1, <2>2, <2>3 DEF Settled, Current, Moved, Storing
<1>4. CASE RegenerateBegin(p) \/ DisableBegin(p)
  <2>1. PICK step \in {"drop", "off"} : Moved(p, step, 0, 0, 0)
    BY <1>0, <1>4, BareMoves, RequestFacts DEF RegenerateBegin, DisableBegin
  <2>2. \A q \in Handlers : req'[q].at \in Storing => q = p
    BY <1>2, <2>1 DEF Moved
  <2>3. enabled /\ step \in Storing \ {"promote"} /\ step \notin {"store", "clear"}
    BY <1>4 DEF RegenerateBegin, DisableBegin, Storing
  <2>4. \A q \in Handlers : req'[q].at \in {"drop", "store", "clear"} => q = p
    BY <2>2 DEF Storing
  <2>5. QED
    BY <1>1, <2>1, <2>2, <2>3, <2>4 DEF Settled, Moved
<1>5. QED
  BY <1>3, <1>4

\* A change goes on.
LEMMA StoringSettled ==
  ASSUME Typed, Settled, NEW p \in Handlers,
         \/ Promote(p) \/ DropCodes(p) \/ StoreCodes(p) \/ TurnOff(p) \/ ClearCodes(p)
  PROVE  Settled'
<1>0. {"drop", "store", "clear"} \subseteq Steps
  BY DEF Steps, Storing
<1>1. mixed' = mixed /\ req[p].at \in Storing
  BY DEF Promote, DropCodes, StoreCodes, TurnOff, ClearCodes, ledger, At, Storing
<1> SUFFICES ASSUME ~mixed PROVE Settled'
  BY <1>1 DEF Settled
<1>2. \A q \in Handlers \ {p} : req[q].at \notin Storing
  BY <1>1 DEF Settled
<1>3. CASE Promote(p)
  <2>1. req[p].at = "promote" /\ sets' = sets /\ codes' = codes
    BY <1>3 DEF Promote, At, backup
  <2>2. CASE enabled' = TRUE /\ Goto(p, "drop")
    <3>1. Moved(p, "drop", req[p].n, req[p].code, req[p].tries)
      BY <1>0, <2>2, GotoMoves, RequestFacts
    <3>2. QED
      BY <1>2, <2>2, <3>1 DEF Settled, Moved, Storing
  <2>3. CASE Done(p) /\ UNCHANGED enabled
    <3>1. Moved(p, "idle", 0, 0, 0)
      BY <2>3, DoneMoves, RequestFacts
    <3>2. QED
      BY <1>1, <2>1, <2>3, <3>1, KeepSettled DEF Storing
  <2>4. QED
    BY <1>3, <2>2, <2>3 DEF Promote
<1>4. CASE DropCodes(p)
  <2>1. Moved(p, "store", req[p].n, req[p].code, req[p].tries)
    BY <1>0, <1>4, GotoMoves, RequestFacts DEF DropCodes
  <2>2. req[p].at = "drop" /\ enabled' = enabled /\ codes' = {}
    BY <1>4 DEF DropCodes, At
  <2>3. QED
    BY <1>2, <2>1, <2>2 DEF Settled, Moved, Storing
<1>5. CASE TurnOff(p)
  <2>1. Moved(p, "clear", req[p].n, req[p].code, req[p].tries)
    BY <1>0, <1>5, GotoMoves, RequestFacts DEF TurnOff
  <2>2. enabled' = FALSE
    BY <1>5 DEF TurnOff
  <2>3. QED
    BY <1>2, <2>1, <2>2 DEF Settled, Moved, Storing
<1>6. CASE StoreCodes(p) \/ ClearCodes(p)
  <2>1. Moved(p, "idle", 0, 0, 0)
    BY <1>6, DoneMoves, RequestFacts DEF StoreCodes, ClearCodes
  <2>2. \A q \in Handlers : req'[q].at \notin Storing
    BY <1>2, <2>1 DEF Moved, Storing
  <2>3. (codes \subseteq Current)'
    <3>1. CASE StoreCodes(p)
      <4>1. enabled' = enabled /\ enabled /\ codes = {}
        BY <3>1, <1>1 DEF StoreCodes, At, Settled
      <4>2. sets' = sets + 1 /\ codes' = codes \cup {sets + 1}
        BY <3>1 DEF StoreCodes
      <4>3. QED
        BY <4>1, <4>2 DEF Current
    <3>2. CASE ClearCodes(p)
      BY <3>2 DEF ClearCodes
    <3>3. QED
      BY <1>6, <3>1, <3>2
  <2>4. QED
    BY <2>2, <2>3 DEF Settled, Storing
<1>7. QED
  BY <1>3, <1>4, <1>5, <1>6

\* Everything else leaves the codes and the changes under way alone.
LEMMA RestSettled ==
  ASSUME Typed, Settled, NEW p \in Handlers,
         \/ LoginBegin(p) \/ IssueTemp(p) \/ (\E t \in 1..Len(temps) : VerifyBegin(p, t))
         \/ VerifyUser(p) \/ FindCode(p) \/ MarkCode(p) \/ BurnTemp(p) \/ TempGone(p)
         \/ VerifiedSession(p) \/ Miss(p)
         \/ (\E n \in 1..minted : ExchangeFind(p, n)) \/ ExchangeDelete(p)
         \/ ExchangedSession(p)
  PROVE  Settled'
<1>1. UNCHANGED <<enabled, sets, codes, mixed>>
  BY DEF LoginBegin, IssueTemp, VerifyBegin, VerifyUser, FindCode, MarkCode, BurnTemp,
     TempGone, VerifiedSession, Miss, ExchangeFind, ExchangeDelete, ExchangedSession,
     Present, Open, backup, ledger
<1>2. req[p].at \notin Storing
  BY DEF LoginBegin, IssueTemp, VerifyBegin, VerifyUser, FindCode, MarkCode, BurnTemp,
     TempGone, VerifiedSession, Miss, ExchangeFind, ExchangeDelete, ExchangedSession,
     Begin, At, Storing
<1>3. req'[p].at \notin Storing
  <2>1. ASSUME NEW n, ExchangeFind(p, n) PROVE req'[p].at = "exchange"
    <3> DEFINE y == [Idle EXCEPT !.at = "exchange"]
               x == [y EXCEPT !.n = n]
    <3>1. y \in AnyRequest /\ y.at = "exchange"
      BY DEF Idle, AnyRequest, Steps
    <3>2. req'[p] = x
      BY <2>1, RequestFacts DEF ExchangeFind, Begin
    <3> HIDE DEF y
    <3>3. x.at = "exchange"
      BY <3>1 DEF AnyRequest
    <3>4. QED
      BY <3>2, <3>3
  <2>2. ASSUME NEW step \in {"burn", "mark"}, Right(p, step) PROVE req'[p].at = step
    BY <2>2, RightMoves, RequestFacts DEF Moved, Steps, Verifying
  <2>3. ASSUME NEW step, Goto(p, step) PROVE req'[p].at = step
    BY <2>3, RequestFacts DEF Goto, AnyRequest
  <2>4. ASSUME Done(p) PROVE req'[p].at = "idle"
    BY <2>4, RequestFacts DEF Done, Idle
  <2>5. ASSUME LoginBegin(p) \/ \E t \in 1..Len(temps) : VerifyBegin(p, t)
        PROVE  req'[p].at \in {"temp", "verify"}
    <3>1. ASSUME LoginBegin(p) PROVE req'[p].at = "temp"
      BY <3>1, BareMoves, RequestFacts DEF LoginBegin, Moved, Steps
    <3>2. ASSUME NEW t \in 1..Len(temps), VerifyBegin(p, t) PROVE req'[p].at = "verify"
      BY <3>2, RequestFacts DEF VerifyBegin, Begin
    <3>3. QED
      BY <2>5, <3>1, <3>2
  <2>6. req'[p].at \in {"idle", "temp", "verify", "find", "mark", "burn", "miss", "open",
                        "exchange", "exchanged"}
    BY <2>1, <2>2, <2>3, <2>4, <2>5
       DEF IssueTemp, VerifyUser, FindCode, MarkCode, BurnTemp,
           TempGone, VerifiedSession, Miss, ExchangeDelete, ExchangedSession
  <2>7. QED
    BY <2>6 DEF Storing
<1>4. \A q \in Handlers \ {p} : req'[q] = req[q]
  BY RequestFacts
     DEF LoginBegin, IssueTemp, VerifyBegin, VerifyUser, FindCode, MarkCode, BurnTemp,
     TempGone, VerifiedSession, Miss, ExchangeFind, ExchangeDelete, ExchangedSession,
     Begin, Goto, Right, Done
<1>5. QED
  BY <1>1, <1>2, <1>3, <1>4 DEF Settled, Current, Storing

\* The codes stay settled.
LEMMA SettledStep == Typed /\ Settled /\ [Next]_vars => Settled'
<1> SUFFICES ASSUME Typed, Settled, [Next]_vars PROVE Settled'
  OBVIOUS
<1>1. ASSUME UNCHANGED <<enabled, sets, codes, mixed, req>> PROVE Settled'
  BY <1>1 DEF Settled, Current
<1>2. CASE UNCHANGED vars \/ MintExchange \/ \E n \in 1..minted : ExchangeCleanup(n)
  BY <1>1, <1>2 DEF vars, MintExchange, ExchangeCleanup, backup, ledger
<1>3. QED
  BY <1>2, ChangeSettled, StoringSettled, RestSettled DEF Next

\* Whatever verifications are under way, a change that no other overlapped
\* leaves the codes of the newest set, and none without a second factor.
THEOREM NewestCodesAlone == Spec => []NewestCodesOnly
<1>1. Init => Settled
  <2> SUFFICES ASSUME Init PROVE Settled
    OBVIOUS
  <2>1. \A p \in Handlers : req[p].at = "idle"
    BY DEF Init, Idle
  <2>2. QED
    BY <2>1 DEF Init, Settled, Storing
<1>2. Settled => NewestCodesOnly
  <2> SUFFICES ASSUME Settled, Busy(Storing) = 0, ~mixed PROVE codes \subseteq Current
    BY DEF NewestCodesOnly, Current
  <2>1. \A p \in Handlers : req[p].at \notin Storing
    BY BusyFinite
  <2>2. QED
    BY <2>1 DEF Settled
<1>3. QED
  BY <1>1, <1>2, InitTyped, TypedStep, SettledStep, PTL DEF Spec
=============================================================================
