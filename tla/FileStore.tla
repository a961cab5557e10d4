------------------------------ MODULE FileStore ------------------------------
(***************************************************************************)
(* The life of a workspace file: FileService (upload, restore, purge,      *)
(* remove), FileCleanupService (the daily sweep) and the administrator's   *)
(* deletion, over the "files" table and the R2 bucket.  A handler is a     *)
(* sequence of steps, one per awaited database or storage call, and the    *)
(* steps of all handlers and sweeps interleave.  Requests that fail a      *)
(* check change nothing and are not steps; the requester is always one the *)
(* access checks let through.                                              *)
(***************************************************************************)
EXTENDS FileRows, FiniteSets

CONSTANTS
  MaxFileSize,  \* FILE_SIZE_LIMITS of the owner's plan, per workspace
  Handlers,     \* bound: HTTP requests in flight at once
  Sweepers,     \* server instances, each with its cron job
  BatchSize,    \* BATCH_SIZE of the sweep
  Span,         \* bound: clock ticks a request may last
  Faults,       \* the kinds of failure that may happen, see FaultKinds
  NoFile

FaultKinds == {"put", "undo", "purge", "sweep", "admin", "db", "ack", "crash"}

ASSUME StoreAssumption ==
  /\ MaxFileSize \in [Workspaces -> Nat]
  /\ BatchSize \in Nat \ {0}
  /\ Span \in Nat /\ Span <= Retention
  /\ Faults \subseteq FaultKinds
  /\ NoFile \notin Files

VARIABLES
  objects,  \* the files whose bytes are in R2 (storageKey contains the id)
  req,      \* the request each handler is serving
  sweep     \* the sweep each instance is running

Ledger == INSTANCE FileLedger
            WITH status <- status, deletedAt <- deletedAt,
                 workspaces <- workspaces, now <- now

rows == <<status, deletedAt>>
vars == <<status, deletedAt, workspaces, now, objects, req, sweep>>

Idle == [at |-> "idle", file |-> NoFile, age |-> 0]
NoSweep == [at |-> "idle", asOf |-> 0, batch |-> {}, full |-> FALSE,
            file |-> NoFile]
Querying(t) == [at |-> "query", asOf |-> t, batch |-> {}, full |-> FALSE,
                file |-> NoFile]

UploadSteps == {"put", "check", "commit", "undo"}
Steps == UploadSteps \cup {"idle", "restoreCheck", "restoreCommit",
                           "purgeObject", "purgeRow", "remove",
                           "adminObject", "adminRow"}

Home(f) == WorkspaceOf[f]

At(p, step) == req[p].at = step
Goto(p, step) == req' = [req EXCEPT ![p].at = step]
Done(p) == req' = [req EXCEPT ![p] = Idle]

Uploading(f) == \E p \in Handlers : req[p].at \in UploadSteps /\ req[p].file = f

\* randomUUID: an id nothing refers to.
Fresh(f) == status[f] = "none" /\ f \notin objects /\ ~Uploading(f)

\* Mutant: only uploads take the lock.
UploadLockFree(w) ==
  \A p \in Handlers : ~(At(p, "commit") /\ Home(req[p].file) = w)

\* pg_advisory_xact_lock(workspace), held from the quota check to the commit.
LockFree(w) ==
  \A p \in Handlers :
    ~(req[p].at \in {"commit", "restoreCommit"} /\ Home(req[p].file) = w)

\* Mutant: an upsert.
UpsertRow(f, s, t) ==
  /\ status' = [status EXCEPT ![f] = s]
  /\ deletedAt' = [deletedAt EXCEPT ![f] = t]

\* prisma.file.update and prisma.file.delete by id throw when the row is gone.
UpdateRow(f, s, t) ==
  IF Exists(f)
  THEN /\ status' = [status EXCEPT ![f] = s]
       /\ deletedAt' = [deletedAt EXCEPT ![f] = t]
  ELSE UNCHANGED rows

\* A storage call that throws may still have deleted the object.
DeleteThrows(kind, f) == kind \in Faults /\ objects' \in {objects, objects \ {f}}

Init ==
  /\ status = [f \in Files |-> "none"]
  /\ deletedAt = [f \in Files |-> 0]
  /\ workspaces = Workspaces
  /\ now = 1
  /\ objects = {}
  /\ req = [p \in Handlers |-> Idle]
  /\ sweep = [i \in Sweepers |-> NoSweep]

Begin(p, f, step) ==
  /\ At(p, "idle")
  /\ req' = [req EXCEPT ![p] = [at |-> step, file |-> f, age |-> 0]]
  /\ UNCHANGED <<rows, workspaces, now, objects, sweep>>

-----------------------------------------------------------------------------
(* POST /workspace/:id/files *)

\* Workspace, plan and size checks, and the quota pre-check.
UploadBegin(p, f) ==
  /\ Fresh(f)
  /\ Home(f) \in workspaces
  /\ Bytes[{f}] <= MaxFileSize[Home(f)]
  /\ Usage(Home(f)) + Bytes[{f}] <= Limit[Home(f)]
  /\ Begin(p, f, "put")

UploadPut(p) ==
  /\ At(p, "put")
  /\ objects' = objects \cup {req[p].file}
  /\ Goto(p, "check")
  /\ UNCHANGED <<rows, workspaces, now, sweep>>

\* storage.upload throws outside the try: nothing undoes it.
UploadPutThrows(p) ==
  /\ At(p, "put")
  /\ "put" \in Faults
  /\ objects' \in {objects, objects \cup {req[p].file}}
  /\ Done(p)
  /\ UNCHANGED <<rows, workspaces, now, sweep>>

\* Mutant: trusts the check made before the lock.
UploadNoRecheck(p) ==
  /\ At(p, "check")
  /\ LockFree(Home(req[p].file))
  /\ Goto(p, "commit")
  /\ UNCHANGED <<rows, workspaces, now, objects, sweep>>

\* Mutant: the catch block undoes nothing when the second check refuses.
UploadKeepsRefused(p) ==
  /\ At(p, "check")
  /\ LockFree(Home(req[p].file))
  /\ IF Usage(Home(req[p].file)) + Bytes[{req[p].file}] <= Limit[Home(req[p].file)]
     THEN Goto(p, "commit")
     ELSE Done(p)
  /\ UNCHANGED <<rows, workspaces, now, objects, sweep>>

\* Take the lock (waiting for it), sum again; over the limit rolls back.
\* Between taking the lock and summing nothing else depends on the lock.
UploadCheck(p) ==
  LET f == req[p].file IN
  /\ At(p, "check")
  /\ LockFree(Home(f))
  /\ IF Usage(Home(f)) + Bytes[{f}] <= Limit[Home(f)]
     THEN Goto(p, "commit")
     ELSE Goto(p, "undo")
  /\ UNCHANGED <<rows, workspaces, now, objects, sweep>>

\* file.create and the commit, which releases the lock.  The foreign key
\* makes it throw when the workspace has been deleted meanwhile.
UploadCommit(p) ==
  LET f == req[p].file IN
  /\ At(p, "commit")
  /\ IF Home(f) \in workspaces
     THEN /\ status' = [status EXCEPT ![f] = "active"]
          /\ Done(p) /\ UNCHANGED deletedAt
     ELSE Goto(p, "undo") /\ UNCHANGED rows
  /\ UNCHANGED <<workspaces, now, objects, sweep>>

\* The transaction fails or times out ("db"), or commits and its
\* acknowledgement is lost ("ack"): the handler sees an error either way.
UploadTxThrows(p) ==
  LET f == req[p].file IN
  /\ \/ /\ "db" \in Faults
        /\ req[p].at \in {"check", "commit"}
        /\ UNCHANGED status
     \/ /\ "ack" \in Faults
        /\ At(p, "commit")
        /\ Home(f) \in workspaces
        /\ status' = [status EXCEPT ![f] = "active"]
  /\ Goto(p, "undo")
  /\ UNCHANGED <<deletedAt, workspaces, now, objects, sweep>>

\* The catch block: delete the object, swallow a failure to do so.
UploadUndo(p) ==
  /\ At(p, "undo")
  /\ \/ objects' = objects \ {req[p].file}
     \/ DeleteThrows("undo", req[p].file)
  /\ Done(p)
  /\ UNCHANGED <<rows, workspaces, now, sweep>>

-----------------------------------------------------------------------------
(* POST /files/:id/restore *)

\* Mutant: restores whatever is in the trash, expired or not.
RestoreAnyAge(p, f) ==
  /\ status[f] = "trashed"
  /\ Begin(p, f, "restoreCheck")

RestoreBegin(p, f) ==
  /\ status[f] = "trashed"
  /\ deletedAt[f] + Retention >= now
  /\ Begin(p, f, "restoreCheck")

\* The sum is over what counts now: the file itself may no longer be in it.
RestoreCheck(p) ==
  LET w == Home(req[p].file) IN
  /\ At(p, "restoreCheck")
  /\ LockFree(w)
  /\ IF Usage(w) <= Limit[w] THEN Goto(p, "restoreCommit") ELSE Done(p)
  /\ UNCHANGED <<rows, workspaces, now, objects, sweep>>

RestoreCommit(p) ==
  /\ At(p, "restoreCommit")
  /\ UpdateRow(req[p].file, "active", 0)
  /\ Done(p)
  /\ UNCHANGED <<workspaces, now, objects, sweep>>

-----------------------------------------------------------------------------
(* DELETE /files/:id *)

RemoveBegin(p, f) ==
  /\ status[f] = "active"
  /\ Begin(p, f, "remove")

\* Mutant: the row moves to the trash without a date.
RemoveUndated(p) ==
  /\ At(p, "remove")
  /\ UpdateRow(req[p].file, "trashed", 0)
  /\ Done(p)
  /\ UNCHANGED <<workspaces, now, objects, sweep>>

RemoveCommit(p) ==
  /\ At(p, "remove")
  /\ UpdateRow(req[p].file, "trashed", now)
  /\ Done(p)
  /\ UNCHANGED <<workspaces, now, objects, sweep>>

-----------------------------------------------------------------------------
(* DELETE /files/:id/purge and DELETE /admin/files/:id *)

PurgeBegin(p, f) ==
  /\ status[f] = "trashed"
  /\ Begin(p, f, "purgeObject")

\* R2 first; when R2 throws the row stays.
PurgeObject(p) ==
  /\ At(p, "purgeObject")
  /\ \/ objects' = objects \ {req[p].file} /\ Goto(p, "purgeRow")
     \/ DeleteThrows("purge", req[p].file) /\ Done(p)
  /\ UNCHANGED <<rows, workspaces, now, sweep>>

AdminBegin(p, f) ==
  /\ Exists(f)
  /\ Begin(p, f, "adminObject")

\* Mutant: the row stays.
AdminObjectOnly(p) ==
  /\ At(p, "adminObject")
  /\ objects' = objects \ {req[p].file}
  /\ Done(p)
  /\ UNCHANGED <<rows, workspaces, now, sweep>>

\* The administrator's deletion swallows a failure of R2 and goes on.
AdminObject(p) ==
  /\ At(p, "adminObject")
  /\ \/ objects' = objects \ {req[p].file}
     \/ DeleteThrows("admin", req[p].file)
  /\ Goto(p, "adminRow")
  /\ UNCHANGED <<rows, workspaces, now, sweep>>

\* file.delete by id, whatever has become of the row since it was read.
DeleteRow(p) ==
  /\ req[p].at \in {"purgeRow", "adminRow"}
  /\ UpdateRow(req[p].file, "deleted", 0)
  /\ Done(p)
  /\ UNCHANGED <<workspaces, now, objects, sweep>>

\* The database call that ends a request fails.
RowThrows(p) ==
  /\ "db" \in Faults
  /\ req[p].at \in {"restoreCheck", "restoreCommit", "remove", "purgeRow",
                    "adminRow"}
  /\ Done(p)
  /\ UNCHANGED <<rows, workspaces, now, objects, sweep>>

-----------------------------------------------------------------------------
(* The daily sweep *)

\* pg_try_advisory_lock is to keep instances from sweeping at once; it belongs
\* to a pooled connection and ends with it (SweepLock), so nothing below counts
\* on it.
SweepStart(i) ==
  /\ sweep[i].at = "idle"
  /\ sweep' = [sweep EXCEPT ![i] = Querying(now)]
  /\ UNCHANGED <<rows, workspaces, now, objects, req>>

\* Mutant: a day late.
DueLate(i) == {f \in Files : status[f] = "trashed"
                             /\ deletedAt[f] + Retention + 1 < sweep[i].asOf}

\* The rows the query selects, with the cutoff computed when the sweep began.
Due(i) == {f \in Files : status[f] = "trashed"
                         /\ deletedAt[f] + Retention < sweep[i].asOf}

\* take: BATCH_SIZE, in no particular order.
Batches(due) ==
  {b \in SUBSET due : \/ b = due /\ Cardinality(b) <= BatchSize
                      \/ Cardinality(b) = BatchSize}

\* Mutant: no break on an empty batch, which is asked for again and again.
SweepNoBreak(i) ==
  /\ sweep[i].at = "query"
  /\ \E b \in Batches(Due(i)) :
       sweep' = [sweep EXCEPT ![i] =
                   IF b = {} THEN @
                   ELSE [@ EXCEPT !.at = "object", !.batch = b,
                                  !.full = (Cardinality(b) = BatchSize)]]
  /\ UNCHANGED <<rows, workspaces, now, objects, req>>

SweepQuery(i) ==
  /\ sweep[i].at = "query"
  /\ \E b \in Batches(Due(i)) :
       sweep' = [sweep EXCEPT ![i] =
                   IF b = {} THEN NoSweep
                   ELSE [@ EXCEPT !.at = "object", !.batch = b,
                                  !.full = (Cardinality(b) = BatchSize)]]
  /\ UNCHANGED <<rows, workspaces, now, objects, req>>

\* Go on with the rest of the batch; after a short batch the sweep is over.
AfterFile(i, f) ==
  LET rest == sweep[i].batch \ {f} IN
  sweep' = [sweep EXCEPT ![i] =
              IF rest # {} THEN [@ EXCEPT !.at = "object", !.batch = rest,
                                          !.file = NoFile]
              ELSE IF @.full THEN Querying(sweep[i].asOf)
              ELSE NoSweep]

SweepObject(i, f) ==
  /\ sweep[i].at = "object"
  /\ f \in sweep[i].batch
  /\ objects' = objects \ {f}
  /\ sweep' = [sweep EXCEPT ![i].at = "row", ![i].file = f]
  /\ UNCHANGED <<rows, workspaces, now, req>>

SweepObjectThrows(i, f) ==
  /\ sweep[i].at = "object"
  /\ f \in sweep[i].batch
  /\ DeleteThrows("sweep", f)
  /\ AfterFile(i, f)
  /\ UNCHANGED <<rows, workspaces, now, req>>

SweepRow(i) ==
  /\ sweep[i].at = "row"
  /\ \/ UpdateRow(sweep[i].file, "deleted", 0)
     \/ "db" \in Faults /\ UNCHANGED rows
  /\ AfterFile(i, sweep[i].file)
  /\ UNCHANGED <<workspaces, now, objects, req>>

SweepStep(i) ==
  \/ SweepStart(i)
  \/ SweepQuery(i)
  \/ \E f \in Files : SweepObject(i, f) \/ SweepObjectThrows(i, f)
  \/ SweepRow(i)

-----------------------------------------------------------------------------
(* Surroundings *)

\* WorkspaceService.remove, AdminService.deleteWorkspace, deleteOwnAccount:
\* the rows go by cascade, nobody touches R2.
DeleteWorkspace(w) ==
  /\ w \in workspaces
  /\ workspaces' = workspaces \ {w}
  /\ status' = [f \in Files |-> IF Home(f) = w /\ Exists(f)
                                THEN "deleted" ELSE status[f]]
  /\ deletedAt' = [f \in Files |-> IF Home(f) = w THEN 0 ELSE deletedAt[f]]
  /\ UNCHANGED <<now, objects, req, sweep>>

\* A request lasts at most Span ticks; a sweep may last any number.
Tick ==
  /\ now < MaxTime
  /\ \A p \in Handlers : At(p, "idle") \/ req[p].age < Span
  /\ now' = now + 1
  /\ req' = [p \in Handlers |-> IF At(p, "idle") THEN Idle
                                ELSE [req[p] EXCEPT !.age = @ + 1]]
  /\ UNCHANGED <<rows, workspaces, objects, sweep>>

\* The process dies: the database ends its transactions and its locks.
CrashRequest(p) ==
  /\ "crash" \in Faults
  /\ ~At(p, "idle")
  /\ Done(p)
  /\ UNCHANGED <<rows, workspaces, now, objects, sweep>>

\* A query that fails ends a sweep as well.
CrashSweep(i) ==
  /\ \/ "crash" \in Faults /\ sweep[i].at # "idle"
     \/ "db" \in Faults /\ sweep[i].at = "query"
  /\ sweep' = [sweep EXCEPT ![i] = NoSweep]
  /\ UNCHANGED <<rows, workspaces, now, objects, req>>

RequestStep(p) ==
  \/ \E f \in Files :
       \/ UploadBegin(p, f)
       \/ RestoreBegin(p, f)
       \/ RemoveBegin(p, f)
       \/ PurgeBegin(p, f)
       \/ AdminBegin(p, f)
  \/ UploadPut(p)
  \/ UploadPutThrows(p)
  \/ UploadCheck(p)
  \/ UploadCommit(p)
  \/ UploadTxThrows(p)
  \/ UploadUndo(p)
  \/ RestoreCheck(p)
  \/ RestoreCommit(p)
  \/ RemoveCommit(p)
  \/ PurgeObject(p)
  \/ AdminObject(p)
  \/ DeleteRow(p)
  \/ RowThrows(p)
  \/ CrashRequest(p)

Next ==
  \/ \E p \in Handlers : RequestStep(p)
  \/ \E i \in Sweepers : SweepStep(i) \/ CrashSweep(i)
  \/ \E w \in Workspaces : DeleteWorkspace(w)
  \/ Tick

Spec == Init /\ [][Next]_vars

\* The server keeps running; clients, failures and the clock owe nothing.
FairSpec == Spec /\ \A i \in Sweepers : WF_vars(SweepStep(i))

\* As FairSpec, and R2 recovers: it does not refuse one object for ever.
RecoveringSpec ==
  FairSpec /\ \A i \in Sweepers, f \in Files : SF_vars(SweepObject(i, f))

-----------------------------------------------------------------------------
(* Properties *)

Request == [at : Steps, file : Files \cup {NoFile}, age : 0..Span]

Sweep == [at : {"idle", "query", "object", "row"}, asOf : Nat,
          batch : SUBSET Files, full : BOOLEAN, file : Files \cup {NoFile}]

\* Type invariant; a handler names a file exactly when it serves a request, a
\* sweep exactly when it is about to delete the row of one of its batch.
TypeOK ==
  /\ RowsOK
  /\ objects \in SUBSET Files
  /\ req \in [Handlers -> Request]
  /\ sweep \in [Sweepers -> Sweep]
  /\ \A p \in Handlers : req[p].at = "idle" <=> req[p].file = NoFile
  /\ \A i \in Sweepers : /\ sweep[i].at = "row" <=> sweep[i].file # NoFile
                         /\ sweep[i].at = "row" => sweep[i].file \in sweep[i].batch

\* Part of the inductive invariant: until its commit an upload owns a file id
\* that has no row and that no other upload uses.
UploadsFresh ==
  /\ \A p \in Handlers : req[p].at \in {"put", "check", "commit"}
                         => status[req[p].file] = "none"
  /\ \A p, q \in Handlers : /\ req[p].at \in UploadSteps
                            /\ req[q].at \in UploadSteps
                            /\ req[p].file = req[q].file
                            => p = q

Committing(p) == req[p].at \in {"commit", "restoreCommit"}

\* What the lock protects: the sum a transaction compared with the limit holds
\* until it commits, and no other transaction of the workspace has passed its
\* own check meanwhile.
QuotaHeld ==
  /\ \A p \in Handlers :
       LET w == Home(req[p].file) IN
       /\ At(p, "commit") => Usage(w) + Bytes[{req[p].file}] <= Limit[w]
       /\ At(p, "restoreCommit") => Usage(w) <= Limit[w]
  /\ \A p, q \in Handlers :
       Committing(p) /\ Committing(q) /\ Home(req[p].file) = Home(req[q].file)
         => p = q

\* A row that is trashed between the two steps of a removal was trashed while
\* the request was under way.
RemovesRecent ==
  \A p \in Handlers :
    At(p, "remove") /\ status[req[p].file] = "trashed"
      => deletedAt[req[p].file] + req[p].age >= now

\* The inductive invariant of the proofs.
IInv == TypeOK /\ UploadsFresh /\ QuotaHeld /\ RemovesRecent

\* The handlers implement the atomic ledger: in particular the two quota
\* checks of upload amount to one atomic check-and-insert, and nothing brings
\* a deleted row back (file.service.ts, upload and restore).
LedgerSpec == Ledger!Spec

\* No workspace counts more than its plan allows.
UsageWithinQuota == \A w \in Workspaces : Usage(w) <= Limit[w]

\* No bytes are left in R2 without a row to find them by: upload compensates
\* for a refused transaction, purge and sweep delete the object first.  The
\* objects of a deleted workspace are the exception the code makes.
NoOrphan ==
  \A f \in objects : Exists(f) \/ Uploading(f) \/ Home(f) \notin workspaces

\* Strengthening of NoOrphan: a handler or a sweep about to delete a row has
\* deleted the object, and what deletes a row has read one.
DeletersBehind ==
  /\ \A p \in Handlers :
       /\ req[p].at \notin UploadSteps \cup {"idle"} => status[req[p].file] # "none"
       /\ req[p].at \in {"purgeRow", "adminRow"} => req[p].file \notin objects
  /\ \A i \in Sweepers :
       /\ \A f \in sweep[i].batch : status[f] # "none"
       /\ sweep[i].at = "row" => sweep[i].file \notin objects

BeingDeleted(f) ==
  \/ \E p \in Handlers : req[p].at \in {"purgeRow", "adminRow"} /\ req[p].file = f
  \/ \E i \in Sweepers : sweep[i].file = f

\* GET /workspace/:id/files, .../trash and /files/:id/download.
List(w) == {f \in FilesOf(w) : status[f] = "active"}

ListTrash(w) ==
  {f \in FilesOf(w) : status[f] = "trashed" /\ deletedAt[f] + Retention >= now}

GetDownloadUrl(f) == Exists(f) /\ deletedAt[f] = 0

\* What the list of files or of the trash shows, or a download link names, has
\* its bytes in R2, but for the moment between the two steps of a deletion: a
\* failed purge by the sweep leaves a row without bytes, yet nobody can list,
\* restore or download it.
ListedHasBytes ==
  \A w \in Workspaces :
    \A f \in List(w) \cup ListTrash(w) \cup {g \in FilesOf(w) : GetDownloadUrl(g)} :
      f \in objects \/ BeingDeleted(f)

\* The bound of the atomic ledger, on the handlers: whatever fails, a workspace
\* counts at most one file more than its plan allows (proved, for every size).
OvershootBounded == Ledger!OvershootBounded

\* The sweep destroys bytes only when the row has been in the trash for longer
\* than the retention window at that moment, or has gone already.
RetentionHonoured ==
  [][\A i \in Sweepers, f \in Files :
       sweep[i].at = "object" /\ f \in objects /\ sweep'[i].file = f
         => Expired(f) \/ status[f] = "deleted"]_vars

\* An expired file leaves the trash: a sweep takes it, or a restore that was
\* already under way brings it back.
ExpiredPurged == \A f \in Files : Expired(f) ~> ~Expired(f)

\* Every sweep comes to an end: also one whose full batches make it ask again,
\* with what failed among them, as long as R2 does not refuse an object for
\* ever.  The cutoff is of its start, so what expires meanwhile keeps it busy no
\* longer (processExpired).
SweepEnds == \A i \in Sweepers : sweep[i].at # "idle" ~> sweep[i].at = "idle"
=============================================================================
