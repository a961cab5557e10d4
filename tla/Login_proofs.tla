---------------------------- MODULE Login_proofs ----------------------------
(***************************************************************************)
(* Proofs about Login, for any number of requests at once, any limit and   *)
(* any set of devices.                                                     *)
(***************************************************************************)
EXTENDS Login, FiniteSetTheorems, TLAPS

InStep(step) == {p \in Handlers : At(p, step)}

\* The wrong passwords that were left to the limit when the window opened, and
\* those compared beyond them.
Left == IF base >= MaxFailures THEN 0 ELSE MaxFailures - 1 - base
Excess == IF compared <= Left THEN 0 ELSE compared - Left

\* Until the lock is on, every excess password was compared by a request that
\* is about to set it; from then on no more requests get past its check, and
\* those that did are the only ones to add to the excess.
ExcessCounted ==
  /\ lock # "on" => Excess <= Cardinality(InStep("lock"))
  /\ lock = "on" => Excess + Cardinality(InStep("password")) <= Cardinality(Handlers)

IInv == TypeOK /\ ExcessCounted

-----------------------------------------------------------------------------

\* The requests in one step are finitely many, and no more than all.
LEMMA StepsFinite ==
  ASSUME NEW step
  PROVE  /\ IsFiniteSet(InStep(step)) /\ Cardinality(InStep(step)) \in Nat
         /\ Cardinality(Handlers) \in Nat
         /\ Cardinality(InStep(step)) <= Cardinality(Handlers)
BY LoginAssumption, FS_Subset, FS_CardinalityType DEF InStep

\* No request is about to set the lock and about to compare a password.
LEMMA LockOrPassword ==
  Cardinality(InStep("lock")) + Cardinality(InStep("password")) <= Cardinality(Handlers)
<1> DEFINE L == InStep("lock")
           P == InStep("password")
<1>1. IsFiniteSet(L) /\ IsFiniteSet(P) /\ L \cap P = {}
  BY StepsFinite DEF InStep, At
<1>2. IsFiniteSet(L \cup P) /\ L \cup P \in SUBSET Handlers
  BY <1>1, FS_Union DEF InStep
<1>3. Cardinality(L \cup P) = Cardinality(L) + Cardinality(P) - Cardinality(L \cap P)
  BY <1>1, FS_Union
<1>4. Cardinality(L \cap P) = 0
  BY <1>1, FS_EmptySet
<1>5. Cardinality(L \cup P) <= Cardinality(Handlers)
  BY <1>2, LoginAssumption, FS_Subset
<1>6. QED
  BY <1>3, <1>4, <1>5, StepsFinite

\* A request that leaves a step: one fewer is in it.
LEMMA Leaves ==
  ASSUME NEW p \in Handlers, NEW step, NEW r, req \in [Handlers -> {Idle} \cup
            [at : Steps, dirty : BOOLEAN, device : Devices]],
         req' = [req EXCEPT ![p] = r], At(p, step), r.at # step
  PROVE  Cardinality(InStep(step)') = Cardinality(InStep(step)) - 1
<1>1. InStep(step)' = InStep(step) \ {p}
  BY DEF InStep, At
<1>2. p \in InStep(step)
  BY DEF InStep
<1>3. QED
  BY <1>1, <1>2, StepsFinite, FS_RemoveElement

\* A request that enters a step: one more.
LEMMA Enters ==
  ASSUME NEW p \in Handlers, NEW step, NEW r, req \in [Handlers -> {Idle} \cup
            [at : Steps, dirty : BOOLEAN, device : Devices]],
         req' = [req EXCEPT ![p] = r], ~At(p, step), r.at = step
  PROVE  Cardinality(InStep(step)') = Cardinality(InStep(step)) + 1
<1>1. InStep(step)' = InStep(step) \cup {p}
  BY DEF InStep, At
<1>2. p \notin InStep(step)
  BY DEF InStep
<1>3. QED
  BY <1>1, <1>2, StepsFinite, FS_AddElement

\* A request that neither leaves a step nor enters it: as many.
LEMMA Stays ==
  ASSUME NEW p \in Handlers, NEW step, NEW r, req \in [Handlers -> {Idle} \cup
            [at : Steps, dirty : BOOLEAN, device : Devices]],
         req' = [req EXCEPT ![p] = r], ~At(p, step), r.at # step
  PROVE  InStep(step)' = InStep(step)
BY DEF InStep, At

-----------------------------------------------------------------------------

\* The type invariant holds of the initial states, and every step keeps it.
LEMMA InitType == Init => TypeOK
BY DEF Init, TypeOK

\* Every step keeps the type invariant.
LEMMA TypeStep == TypeOK /\ [Next]_vars => TypeOK'
<1> SUFFICES ASSUME TypeOK, [Next]_vars PROVE TypeOK'
  OBVIOUS
<1> USE LoginAssumption DEF TypeOK, At, Goto, Done, Begin, Idle, Steps, lockout, devices
<1>1. CASE UNCHANGED vars
  BY <1>1 DEF vars
<1>2. ASSUME NEW p \in Handlers, LoginRead(p) PROVE TypeOK'
  BY <1>2 DEF LoginRead
<1>3. ASSUME NEW p \in Handlers, WrongPassword(p) PROVE TypeOK'
  BY <1>3 DEF WrongPassword
<1>4. ASSUME NEW p \in Handlers, SetLock(p) PROVE TypeOK'
  BY <1>4 DEF SetLock
<1>5. ASSUME NEW p \in Handlers, RightPassword(p) PROVE TypeOK'
  BY <1>5 DEF RightPassword, ClearFailures
<1>6. ASSUME NEW p \in Handlers, KnownDevice(p) PROVE TypeOK'
  BY <1>6 DEF KnownDevice
<1>7. ASSUME NEW p \in Handlers, AnyLogin(p) PROVE TypeOK'
  BY <1>7 DEF AnyLogin
<1>8. ASSUME NEW p \in Handlers, CheckThrows(p) PROVE TypeOK'
  BY <1>8 DEF CheckThrows
<1>9. ASSUME NEW p \in Handlers, Audit(p) PROVE TypeOK'
  BY <1>9 DEF Audit
<1>10. CASE LockEnds
  BY <1>10 DEF LockEnds
<1>11. QED
  BY <1>1, <1>2, <1>3, <1>4, <1>5, <1>6, <1>7, <1>8, <1>9, <1>10 DEF Next

-----------------------------------------------------------------------------

\* Before the lock is on the read adds a request to those past its check, which
\* the invariant does not count then.
LEMMA ReadStep ==
  ASSUME IInv, TypeOK', NEW p \in Handlers, LoginRead(p)
  PROVE  ExcessCounted'
<1>1. PICK d \in Devices : req' = [req EXCEPT ![p] =
        [at |-> "password", device |-> d, dirty |-> failures > 0 \/ lock # "none"]]
  BY DEF LoginRead, Begin
<1>2. InStep("lock")' = InStep("lock")
  <2>1. ~At(p, "lock")
    BY DEF LoginRead, Begin, At
  <2>2. QED
    BY <1>1, <2>1, Stays DEF IInv, TypeOK
<1>3. Excess' = Excess /\ lock' = lock /\ lock # "on"
  BY DEF LoginRead, Excess, Left, lockout
<1>4. QED
  BY <1>2, <1>3 DEF ExcessCounted, IInv

\* A wrong password beyond those left takes the counter to the limit, so the
\* request goes on to set the lock.
LEMMA WrongStep ==
  ASSUME IInv, TypeOK', NEW p \in Handlers, WrongPassword(p)
  PROVE  ExcessCounted'
<1> DEFINE r == req'[p]
<1>1. /\ req' = [req EXCEPT ![p] = r] /\ r.at # "password" /\ At(p, "password")
      /\ LocksAt(failures + 1) => r.at = "lock"
      /\ ~LocksAt(failures + 1) => r.at # "lock"
  BY DEF WrongPassword, Goto, Done, Idle, At, IInv, TypeOK
<1>2. Cardinality(InStep("password")') = Cardinality(InStep("password")) - 1
  BY <1>1, Leaves DEF IInv, TypeOK
<1>3. /\ lock' = lock /\ Left' = Left /\ compared' = compared + 1
      /\ Left \in Nat /\ compared \in Nat
  BY LoginAssumption DEF WrongPassword, Left, IInv, TypeOK
<1>4. CASE LocksAt(failures + 1)
  <2>1. ~At(p, "lock") /\ r.at = "lock"
    BY <1>1, <1>4 DEF At
  <2>2. Cardinality(InStep("lock")') = Cardinality(InStep("lock")) + 1
    BY <2>1, <1>1, Enters DEF IInv, TypeOK
  <2>3. Excess' <= Excess + 1
    BY <1>3 DEF Excess
  <2>4. Excess \in Nat /\ Excess' \in Nat
    BY <1>3 DEF Excess
  <2>5. QED
    BY <1>2, <1>3, <2>2, <2>3, <2>4, StepsFinite DEF ExcessCounted, IInv
<1>5. CASE ~LocksAt(failures + 1)
  <2>1. compared + 1 <= Left
    BY <1>5, LoginAssumption DEF LocksAt, Left, IInv, TypeOK
  <2>2. Excess' = 0 /\ Excess = 0
    BY <1>3, <2>1 DEF Excess
  <2>3. InStep("lock")' = InStep("lock")
    BY <1>1, <1>5, Stays DEF At, IInv, TypeOK
  <2>4. QED
    BY <1>2, <1>3, <2>2, <2>3, StepsFinite DEF ExcessCounted, IInv
<1>6. QED
  BY <1>4, <1>5

\* The lock comes on: the excess so far was compared by other requests than
\* those still to compare.
LEMMA SetLockStep ==
  ASSUME IInv, TypeOK', NEW p \in Handlers, SetLock(p)
  PROVE  ExcessCounted'
<1>1. InStep("password")' = InStep("password")
  <2>1. ~At(p, "password") /\ Idle.at # "password"
    BY DEF SetLock, At, Idle
  <2>2. QED
    BY <2>1, Stays DEF SetLock, Done, IInv, TypeOK
<1>2. Excess' = Excess /\ lock' = "on"
  BY DEF SetLock, Excess, Left
<1>3. Excess \in Nat
  BY LoginAssumption DEF Excess, Left, IInv, TypeOK
<1>4. Excess + Cardinality(InStep("password")) <= Cardinality(Handlers)
  BY <1>3, LockOrPassword, StepsFinite DEF ExcessCounted, IInv
<1>5. QED
  BY <1>1, <1>2, <1>4 DEF ExcessCounted

\* The right password opens a new window, unless there was nothing to clear.
LEMMA RightStep ==
  ASSUME IInv, TypeOK', NEW p \in Handlers, RightPassword(p)
  PROVE  ExcessCounted'
<1>1. req' = [req EXCEPT ![p] = req'[p]] /\ req'[p].at = "session" /\ At(p, "password")
  BY DEF RightPassword, Goto, IInv, TypeOK, Idle, At
<1>2. Cardinality(InStep("password")') = Cardinality(InStep("password")) - 1
  BY <1>1, Leaves DEF IInv, TypeOK
<1>3. InStep("lock")' = InStep("lock")
  BY <1>1, Stays DEF At, IInv, TypeOK
<1>4. CASE ClearFailures
  <2>1. Excess' = 0 /\ lock' = "none"
    BY <1>4, LoginAssumption DEF ClearFailures, Excess, Left
  <2>2. Cardinality(InStep("lock")') \in Nat
    BY <1>3, StepsFinite
  <2>3. QED
    BY <2>1, <2>2 DEF ExcessCounted
<1>5. CASE UNCHANGED lockout
  <2>1. Excess' = Excess /\ lock' = lock
    BY <1>5 DEF lockout, Excess, Left
  <2>2. Excess \in Nat
    BY LoginAssumption DEF Excess, Left, IInv, TypeOK
  <2>3. QED
    BY <1>2, <1>3, <2>1, <2>2, StepsFinite DEF ExcessCounted, IInv
<1>6. QED
  BY <1>4, <1>5 DEF RightPassword

\* The steps after the password leave the window alone.
LEMMA TailStep ==
  ASSUME IInv, TypeOK', NEW p \in Handlers,
         KnownDevice(p) \/ AnyLogin(p) \/ CheckThrows(p) \/ Audit(p)
  PROVE  ExcessCounted'
<1>1. /\ req' = [req EXCEPT ![p] = req'[p]]
      /\ ~At(p, "lock") /\ ~At(p, "password")
      /\ req'[p].at # "lock" /\ req'[p].at # "password"
  BY DEF KnownDevice, AnyLogin, CheckThrows, Audit, Goto, Done, Idle, At, IInv, TypeOK
<1>2. InStep("lock")' = InStep("lock") /\ InStep("password")' = InStep("password")
  BY <1>1, Stays DEF IInv, TypeOK
<1>3. Excess' = Excess /\ lock' = lock
  BY DEF KnownDevice, AnyLogin, CheckThrows, Audit, lockout, Excess, Left
<1>4. QED
  BY <1>2, <1>3 DEF ExcessCounted, IInv

\* A lock that ends opens a new window.
LEMMA LockEndsStep ==
  ASSUME IInv, TypeOK', LockEnds
  PROVE  ExcessCounted'
<1>1. Excess' = 0 /\ lock' = "over" /\ InStep("lock")' = InStep("lock")
  BY LoginAssumption DEF LockEnds, Excess, Left, IInv, TypeOK, InStep, At
<1>2. QED
  BY <1>1, StepsFinite DEF ExcessCounted

\* The inductive invariant.
LEMMA InitInv == Init => IInv
<1> SUFFICES ASSUME Init PROVE IInv
  OBVIOUS
<1>1. Excess = 0 /\ lock = "none"
  BY LoginAssumption DEF Init, Excess, Left
<1>2. QED
  BY <1>1, InitType, StepsFinite DEF IInv, ExcessCounted

\* Every step keeps the inductive invariant.
LEMMA InvStep == IInv /\ [Next]_vars => IInv'
<1> SUFFICES ASSUME IInv, [Next]_vars PROVE IInv'
  OBVIOUS
<1>1. TypeOK'
  BY TypeStep DEF IInv
<1>2. CASE UNCHANGED vars
  BY <1>1, <1>2 DEF vars, lockout, IInv, ExcessCounted, Excess, Left, InStep, At
<1>3. CASE Next
  BY <1>1, <1>3, ReadStep, WrongStep, SetLockStep, RightStep, TailStep, LockEndsStep
     DEF Next, IInv
<1>4. QED
  BY <1>2, <1>3

\* An excess that is counted is bounded.
LEMMA InvBounds == IInv => WrongPasswordsBounded
<1> SUFFICES ASSUME IInv PROVE WrongPasswordsBounded
  OBVIOUS
<1>1. Left \in Nat /\ compared \in Nat /\ lock \in {"none", "on", "over"}
  BY LoginAssumption DEF Left, IInv, TypeOK
<1>2. Excess \in Nat /\ compared <= Left + Excess
  BY <1>1 DEF Excess
<1>3. Excess <= Cardinality(Handlers)
  BY <1>1, <1>2, StepsFinite DEF IInv, ExcessCounted
<1>4. compared <= Left + Cardinality(Handlers)
  BY <1>1, <1>2, <1>3, StepsFinite
<1>5. QED
  BY <1>4 DEF WrongPasswordsBounded, Left

\* The type invariant of the logins.
THEOREM LoginTypeCorrect == Spec => []TypeOK
BY InitType, TypeStep, PTL DEF Spec

\* Between two openings of the window no more wrong passwords are compared than
\* were left to the limit, but for one per request at once (loginUser,
\* registerFailedLogin).
THEOREM GuessesAreBounded == Spec => []WrongPasswordsBounded
BY InitInv, InvStep, InvBounds, PTL DEF Spec

-----------------------------------------------------------------------------
(* The alert about a new device *)

Excused == alerted \cup missed
Unannounced == seen \ Excused

\* The requests about to record a device that is neither known nor announced,
\* and whose announcement did not fail either.
Pending == {p \in InStep("audit") : req[p].device \notin seen \cup Excused}

\* Once the log has a login, each such device is that of a request whose check
\* found the log empty, or was; before, no device is counted.
DevicesCounted ==
  /\ IsFiniteSet(seen)
  /\ seen # {} =>
       Cardinality(Unannounced) + Cardinality(Pending) <= Cardinality(Handlers)

DevIInv == TypeOK /\ DevicesCounted

\* The sets that are counted are finite.
LEMMA PendingFinite ==
  IsFiniteSet(Pending) /\ Cardinality(Pending) \in Nat
BY StepsFinite, FS_Subset, FS_CardinalityType DEF Pending

\* Counts of smaller sets are smaller.
LEMMA FewerCounted ==
  ASSUME DevIInv, IsFiniteSet(seen'), seen # {},
         Unannounced' \subseteq Unannounced, Pending' \subseteq Pending
  PROVE  DevicesCounted'
<1>1. IsFiniteSet(Unannounced) /\ Cardinality(Unannounced) \in Nat
  BY FS_Subset, FS_CardinalityType DEF DevIInv, DevicesCounted, Unannounced
<1>2. Cardinality(Unannounced') <= Cardinality(Unannounced) /\ Cardinality(Unannounced') \in Nat
  BY <1>1, FS_Subset, FS_CardinalityType
<1>3. Cardinality(Pending') <= Cardinality(Pending) /\ Cardinality(Pending') \in Nat
  BY PendingFinite, FS_Subset, FS_CardinalityType
<1>4. Cardinality(Handlers) \in Nat
  BY StepsFinite
<1>5. QED
  BY <1>1, <1>2, <1>3, <1>4, PendingFinite DEF DevIInv, DevicesCounted

\* A step that records nothing lets nobody start to record a new device once
\* the log has a login: a known device is recorded as it is, an unknown one is
\* announced first.
LEMMA UnrecordedStep ==
  ASSUME DevIInv, TypeOK', seen' = seen, Excused \subseteq Excused',
         seen # {} => Pending' \subseteq Pending
  PROVE  DevicesCounted'
<1>1. CASE seen = {}
  BY <1>1 DEF DevIInv, DevicesCounted
<1>2. CASE seen # {}
  <2>1. Unannounced' \subseteq Unannounced /\ IsFiniteSet(seen')
    BY DEF Unannounced, DevIInv, DevicesCounted
  <2>2. QED
    BY <1>2, <2>1, FewerCounted
<1>3. QED
  BY <1>1, <1>2

\* A request that does not come to record is none that is counted.
LEMMA NotRecording ==
  ASSUME TypeOK, NEW p \in Handlers, \A q \in Handlers \ {p} : req'[q] = req[q],
         seen' = seen, Excused \subseteq Excused',
         req'[p].at = "audit" => req'[p].device \in seen' \cup Excused'
  PROVE  Pending' \subseteq Pending
BY DEF Pending, InStep, At, TypeOK

\* The first login recorded: the request that recorded it is done, so the others
\* that found the log empty are fewer than all.
LEMMA FirstRecorded ==
  ASSUME DevIInv, TypeOK', NEW p \in Handlers, Audit(p), seen = {}
  PROVE  DevicesCounted'
<1>1. Pending' \subseteq Handlers \ {p}
  BY DEF Pending, InStep, At, Audit, Done, Idle, DevIInv, TypeOK
<1>2. /\ IsFiniteSet(Handlers \ {p})
      /\ Cardinality(Handlers \ {p}) = Cardinality(Handlers) - 1
  BY LoginAssumption, FS_RemoveElement
<1>3. Cardinality(Pending') <= Cardinality(Handlers) - 1 /\ Cardinality(Pending') \in Nat
  BY <1>1, <1>2, FS_Subset, FS_CardinalityType
<1>4. PICK d : seen' \subseteq {d}
  BY DEF Audit
<1>5. IsFiniteSet({d}) /\ Cardinality({d}) = 1
  BY FS_Singleton
<1>6. Unannounced' \subseteq {d}
  BY <1>4 DEF Unannounced
<1>7. IsFiniteSet(seen') /\ Cardinality(Unannounced') <= 1 /\ Cardinality(Unannounced') \in Nat
  BY <1>4, <1>5, <1>6, FS_Subset, FS_CardinalityType
<1>8. QED
  BY <1>3, <1>7, StepsFinite DEF DevicesCounted

\* A login recorded later: a device that is neither known nor announced was
\* counted as about to be recorded, and now is as recorded.
LEMMA LaterRecorded ==
  ASSUME DevIInv, TypeOK', NEW p \in Handlers, Audit(p), seen # {}
  PROVE  DevicesCounted'
<1> DEFINE d == req[p].device
<1>1. /\ req' = [req EXCEPT ![p] = Idle] /\ At(p, "audit")
      /\ seen' = seen \cup {d} \/ seen' = seen
      /\ Excused' = Excused
  BY DEF Audit, Done, Excused
<1>2. IsFiniteSet(seen')
  BY <1>1, FS_AddElement DEF DevIInv, DevicesCounted
<1>3. Pending' \subseteq Pending \ {p}
  BY <1>1 DEF Pending, InStep, At, Idle, DevIInv, TypeOK
<1>4. CASE p \notin Pending \/ seen' = seen
  <2>1. Unannounced' \subseteq Unannounced
    BY <1>1, <1>4 DEF Unannounced, Pending, InStep
  <2>2. QED
    BY <1>2, <1>3, <2>1, FewerCounted
<1>5. CASE p \in Pending
  <2>1. Unannounced' \subseteq Unannounced \cup {d}
    BY <1>1 DEF Unannounced
  <2>2. IsFiniteSet(Unannounced) /\ Cardinality(Unannounced) \in Nat
    BY FS_Subset, FS_CardinalityType DEF DevIInv, DevicesCounted, Unannounced
  <2>3. /\ IsFiniteSet(Unannounced \cup {d})
        /\ Cardinality(Unannounced \cup {d}) <= Cardinality(Unannounced) + 1
    <3>1. CASE d \in Unannounced
      <4>1. Unannounced \cup {d} = Unannounced
        BY <3>1
      <4>2. QED
        BY <2>2, <4>1
    <3>2. CASE d \notin Unannounced
      <4>1. Cardinality(Unannounced \cup {d}) = Cardinality(Unannounced) + 1
        BY <2>2, <3>2, FS_AddElement
      <4>2. IsFiniteSet(Unannounced \cup {d})
        BY <2>2, FS_AddElement
      <4>3. QED
        BY <2>2, <4>1, <4>2
    <3>3. QED
      BY <3>1, <3>2
  <2>4. /\ Cardinality(Unannounced') <= Cardinality(Unannounced) + 1
        /\ Cardinality(Unannounced') \in Nat
    <3>1. Cardinality(Unannounced \cup {d}) \in Nat /\ IsFiniteSet(Unannounced')
      BY <2>1, <2>3, FS_CardinalityType, FS_Subset
    <3>2. /\ Cardinality(Unannounced') <= Cardinality(Unannounced \cup {d})
          /\ Cardinality(Unannounced') \in Nat
      BY <2>1, <2>3, <3>1, FS_Subset, FS_CardinalityType
    <3>3. QED
      BY <2>2, <2>3, <3>1, <3>2
  <2>5. IsFiniteSet(Pending \ {p}) /\ Cardinality(Pending \ {p}) = Cardinality(Pending) - 1
    BY <1>5, PendingFinite, FS_RemoveElement
  <2>6. Cardinality(Pending') <= Cardinality(Pending) - 1 /\ Cardinality(Pending') \in Nat
    BY <1>3, <2>5, FS_Subset, FS_CardinalityType
  <2>7. Cardinality(Unannounced') + Cardinality(Pending') <= Cardinality(Handlers)
    BY <2>2, <2>4, <2>6, PendingFinite, StepsFinite DEF DevIInv, DevicesCounted
  <2>8. QED
    BY <1>2, <2>7 DEF DevicesCounted
<1>6. QED
  BY <1>4, <1>5

\* Every step keeps the count.
LEMMA DevicesStep == DevIInv /\ [Next]_vars => DevIInv'
<1> SUFFICES ASSUME DevIInv, [Next]_vars PROVE DevIInv'
  OBVIOUS
<1>1. TypeOK /\ TypeOK'
  BY TypeStep DEF DevIInv
<1>2. SUFFICES DevicesCounted'
  BY <1>1 DEF DevIInv
<1>3. CASE UNCHANGED vars
  BY <1>3 DEF vars, devices, DevIInv, DevicesCounted, Unannounced, Excused, Pending,
     InStep, At
<1>4. ASSUME NEW p \in Handlers,
             LoginRead(p) \/ WrongPassword(p) \/ SetLock(p) \/ RightPassword(p)
      PROVE  DevicesCounted'
  <2>1. /\ \A q \in Handlers \ {p} : req'[q] = req[q]
        /\ req'[p].at # "audit"
    BY <1>1, <1>4 DEF LoginRead, WrongPassword, SetLock, RightPassword, Begin, Goto, Done,
       Idle, TypeOK
  <2>2. seen' = seen /\ Excused' = Excused
    BY <1>4 DEF LoginRead, WrongPassword, SetLock, RightPassword, devices, Excused
  <2>3. Pending' \subseteq Pending
    BY <1>1, <2>1, <2>2, NotRecording
  <2>4. QED
    BY <1>1, <2>2, <2>3, UnrecordedStep
<1>5. ASSUME NEW p \in Handlers, KnownDevice(p) PROVE DevicesCounted'
  <2>1. /\ \A q \in Handlers \ {p} : req'[q] = req[q]
        /\ req'[p].at = "audit" => req'[p].device \in seen' \cup Excused'
    BY <1>1, <1>5 DEF KnownDevice, Goto, At, Idle, TypeOK, devices, Excused
  <2>2. seen' = seen /\ Excused' = Excused
    BY <1>5 DEF KnownDevice, devices, Excused
  <2>3. Pending' \subseteq Pending
    BY <1>1, <2>1, <2>2, NotRecording
  <2>4. QED
    BY <1>1, <2>2, <2>3, UnrecordedStep
<1>6. ASSUME NEW p \in Handlers, AnyLogin(p) PROVE DevicesCounted'
  <2>1. seen' = seen /\ Excused \subseteq Excused'
    BY <1>6 DEF AnyLogin, Excused
  <2>2. ASSUME seen # {} PROVE Pending' \subseteq Pending
    <3>1. /\ \A q \in Handlers \ {p} : req'[q] = req[q]
          /\ req'[p].device = req[p].device
      BY <1>1, <1>6 DEF AnyLogin, Goto, At, Idle, TypeOK
    <3>2. req'[p].device \in Excused'
      BY <1>6, <2>2, <3>1 DEF AnyLogin, Excused
    <3>3. QED
      BY <1>1, <2>1, <3>1, <3>2, NotRecording
  <2>3. QED
    BY <1>1, <2>1, <2>2, UnrecordedStep
<1>7. ASSUME NEW p \in Handlers, CheckThrows(p) PROVE DevicesCounted'
  <2>1. /\ \A q \in Handlers \ {p} : req'[q] = req[q]
        /\ req'[p].device = req[p].device
    BY <1>1, <1>7 DEF CheckThrows, Goto, At, Idle, TypeOK
  <2>2. seen' = seen /\ Excused \subseteq Excused'
    BY <1>7 DEF CheckThrows, Excused
  <2>3. req'[p].device \in seen' \cup Excused'
    BY <1>7, <2>1 DEF CheckThrows, Excused
  <2>4. Pending' \subseteq Pending
    BY <1>1, <2>1, <2>2, <2>3, NotRecording
  <2>5. QED
    BY <1>1, <2>2, <2>4, UnrecordedStep
<1>8. ASSUME NEW p \in Handlers, Audit(p) PROVE DevicesCounted'
  BY <1>1, <1>8, FirstRecorded, LaterRecorded
<1>9. CASE LockEnds
  BY <1>9 DEF LockEnds, devices, DevIInv, DevicesCounted, Unannounced, Excused, Pending,
     InStep, At
<1>10. QED
  BY <1>3, <1>4, <1>5, <1>6, <1>7, <1>8, <1>9 DEF Next

\* A count that is kept bounds the devices that were not announced.
LEMMA DevicesBounds == DevIInv => NewDevicesAnnounced
<1> SUFFICES ASSUME DevIInv PROVE NewDevicesAnnounced
  OBVIOUS
<1>1. CASE seen = {}
  <2>1. Unannounced = {} /\ Cardinality({}) = 0
    BY <1>1, FS_EmptySet DEF Unannounced
  <2>2. QED
    BY <2>1, StepsFinite DEF NewDevicesAnnounced, Unannounced, Excused
<1>2. CASE seen # {}
  <2>1. Cardinality(Unannounced) \in Nat
    BY FS_Subset, FS_CardinalityType DEF DevIInv, DevicesCounted, Unannounced
  <2>2. QED
    BY <1>2, <2>1, PendingFinite, StepsFinite
       DEF DevIInv, DevicesCounted, NewDevicesAnnounced, Unannounced, Excused
<1>3. QED
  BY <1>1, <1>2

\* But for the devices of which a check or an alert mail failed, no more enter
\* the audit log without an alert than requests were in flight when it was empty
\* (handleSuccessfulLogin: the check and the entry are apart).
THEOREM NewDevicesAreAnnounced == Spec => []NewDevicesAnnounced
<1>1. Init => DevIInv
  BY InitType, FS_EmptySet DEF Init, DevIInv, DevicesCounted
<1>2. QED
  BY <1>1, DevicesStep, DevicesBounds, PTL DEF Spec
=============================================================================
