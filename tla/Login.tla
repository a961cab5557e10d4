-------------------------------- MODULE Login --------------------------------
(***************************************************************************)
(* Signing in to one account with a password, under the lock that too many *)
(* wrong ones set, and the alert about a new device that ends every login. *)
(* A handler is a sequence of steps, one per awaited query; a request that *)
(* fails a check and writes nothing is not a step.  The account is active, *)
(* verified and without a second factor: suspension and the limit on       *)
(* sessions are in Sessions, the address and the other ways to sign in in  *)
(* Identity, the second factor in SecondFactor.                            *)
(***************************************************************************)
EXTENDS Integers, FiniteSets

CONSTANTS
  MaxFailures,    \* MAX_FAILED_LOGIN_ATTEMPTS
  Handlers,       \* bound: requests in flight at once
  Devices,        \* the user agents seen
  FailureBound    \* bound: wrong passwords in a row

ASSUME LoginAssumption ==
  /\ MaxFailures \in Nat \ {0}
  /\ IsFiniteSet(Handlers)
  /\ FailureBound \in Nat

VARIABLES
  failures,  \* users.failedLoginAttempts
  lock,      \* users.lockedUntil: "none", "on" (in the future) or "over"
  compared,  \* wrong passwords since the counter was cleared or a lock ended
  base,      \* what the counter was then
  seen,      \* devices with a login in the audit log
  alerted,   \* devices an alert was mailed about
  missed,    \* devices a failed check or a failed mail left unannounced
  req        \* the request each handler is serving

lockout == <<failures, lock, compared, base>>
devices == <<seen, alerted, missed>>
vars == <<lockout, devices, req>>

\* dirty: the user's row, when it was read, had failures or a lock.
Idle == [at |-> "idle", dirty |-> FALSE]

At(p, step) == req[p].at = step
Goto(p, step) == req' = [req EXCEPT ![p].at = step]
Done(p) == req' = [req EXCEPT ![p] = Idle]
Begin(p, r) == At(p, "idle") /\ req' = [req EXCEPT ![p] = r]

Init ==
  /\ failures = 0 /\ lock = "none" /\ compared = 0 /\ base = 0
  /\ seen = {} /\ alerted = {} /\ missed = {}
  /\ req = [p \in Handlers |-> Idle]

-----------------------------------------------------------------------------
(* The password and the lock *)

\* The user's row is read; while the lock is on, the answer is the refusal.
LoginRead(p) ==
  /\ lock # "on"
  /\ \E d \in Devices :
       Begin(p, [at |-> "password", device |-> d,
                 dirty |-> failures > 0 \/ lock # "none"])
  /\ UNCHANGED <<lockout, devices>>

\* Mutant: the lock is set once, when the counter reaches the limit.
LocksOnceAt(n) == n = MaxFailures

LocksAt(n) == n >= MaxFailures

\* Mutant: the count stops at the limit.
WrongPasswordCapped(p) ==
  /\ At(p, "password")
  /\ failures' = IF failures < MaxFailures THEN failures + 1 ELSE failures
  /\ compared' = compared + 1
  /\ IF LocksAt(failures') THEN Goto(p, "lock") ELSE Done(p)
  /\ UNCHANGED <<lock, base, devices>>

\* registerFailedLogin: the increment is atomic and returns the count.
WrongPassword(p) ==
  /\ At(p, "password")
  /\ failures < FailureBound
  /\ failures' = failures + 1
  /\ compared' = compared + 1
  /\ IF LocksAt(failures + 1)
     THEN Goto(p, "lock")
     ELSE Done(p)
  /\ UNCHANGED <<lock, base, devices>>

SetLock(p) ==
  /\ At(p, "lock")
  /\ lock' = "on"
  /\ Done(p)
  /\ UNCHANGED <<failures, compared, base, devices>>

\* A new window of guesses opens with the counter at zero.
ClearFailures ==
  /\ failures' = 0 /\ lock' = "none"
  /\ compared' = 0 /\ base' = 0

\* The counter and the lock are cleared if the row read at the start had any.
RightPassword(p) ==
  /\ At(p, "password")
  /\ IF req[p].dirty THEN ClearFailures ELSE UNCHANGED lockout
  /\ Goto(p, "session")
  /\ UNCHANGED <<devices>>

LockEnds ==
  /\ lock = "on"
  /\ lock' = "over"
  /\ compared' = 0 /\ base' = failures
  /\ UNCHANGED <<failures, devices, req>>

-----------------------------------------------------------------------------
(* The end of a login *)

\* Mutant: the login is recorded before the check.
RecordedFirst(p) ==
  /\ At(p, "session")
  /\ seen' = seen \cup {req[p].device}
  /\ Done(p)
  /\ UNCHANGED <<lockout, alerted, missed>>

\* The session exists.  Two queries: has this device signed in before, and
\* has any?
KnownDevice(p) ==
  /\ At(p, "session")
  /\ Goto(p, IF req[p].device \in seen THEN "audit" ELSE "any")
  /\ UNCHANGED <<lockout, devices>>

\* The alert is mailed without waiting; a mail that fails is only logged.
AnyLogin(p) ==
  /\ At(p, "any")
  /\ \/ seen = {} /\ UNCHANGED <<alerted, missed>>
     \/ seen # {} /\ alerted' = alerted \cup {req[p].device} /\ UNCHANGED missed
     \/ seen # {} /\ missed' = missed \cup {req[p].device} /\ UNCHANGED alerted
  /\ Goto(p, "audit")
  /\ UNCHANGED <<lockout, seen>>

\* Either query throws: logged, and the login is recorded all the same.  A
\* device the log knows by then is no new one.
CheckThrows(p) ==
  /\ At(p, "session") \/ At(p, "any")
  /\ missed' = missed \cup ({req[p].device} \ seen)
  /\ Goto(p, "audit")
  /\ UNCHANGED <<lockout, seen, alerted>>

\* Not awaited, and dropped when it fails; in flight until then.
Audit(p) ==
  /\ At(p, "audit")
  /\ seen' = seen \cup {req[p].device} \/ UNCHANGED seen
  /\ Done(p)
  /\ UNCHANGED <<lockout, alerted, missed>>

-----------------------------------------------------------------------------

Next ==
  \/ \E p \in Handlers :
       \/ LoginRead(p) \/ WrongPassword(p) \/ SetLock(p) \/ RightPassword(p)
       \/ KnownDevice(p) \/ AnyLogin(p) \/ CheckThrows(p) \/ Audit(p)
  \/ LockEnds

Spec == Init /\ [][Next]_vars

-----------------------------------------------------------------------------
(* Properties *)

Steps == {"password", "lock", "session", "any", "audit"}

\* Type invariant; a window of guesses starts with the counter it found, and
\* a handler setting the lock has counted its failure.
TypeOK ==
  /\ failures \in Nat
  /\ compared \in 0..failures /\ base = failures - compared
  /\ lock \in {"none", "on", "over"}
  /\ seen \in SUBSET Devices /\ alerted \in SUBSET Devices
  /\ missed \in SUBSET Devices
  /\ req \in [Handlers -> {Idle} \cup
                [at : Steps, dirty : BOOLEAN, device : Devices]]

\* From the moment the counter is cleared or a lock ends, no more wrong
\* passwords are compared than were left to the limit, but for the requests
\* that were already past the check of the lock.  After the first lock none
\* are left: one wrong password locks again (registerFailedLogin leaves the
\* counter when it locks).
WrongPasswordsBounded ==
  LET left == IF base >= MaxFailures THEN 0 ELSE MaxFailures - 1 - base
  IN  compared <= left + Cardinality(Handlers)

\* A device that the audit log knows was announced, or the check of one of its
\* logins or the mail about it failed - the log then knows it all the same, so
\* no later login announces it (notifyIfNewDevice) - but for those whose check
\* ran before the log had any login: as many as may sign in at once.
NewDevicesAnnounced ==
  Cardinality(seen \ (alerted \cup missed)) <= Cardinality(Handlers)
=============================================================================
