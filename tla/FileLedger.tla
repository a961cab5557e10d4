----------------------------- MODULE FileLedger -----------------------------
(***************************************************************************)
(* What the file service promises about the rows of the "files" table,     *)
(* with every operation a single atomic step: an upload is admitted only   *)
(* while it fits the workspace quota, a file in the trash can come back, a *)
(* deleted row never does.  FileStore, the model of the handlers as they   *)
(* run, is shown to implement this specification.                          *)
(***************************************************************************)
EXTENDS FileRows

ledgerVars == <<status, deletedAt, workspaces, now>>

-----------------------------------------------------------------------------

Init ==
  /\ status = [f \in Files |-> "none"]
  /\ deletedAt = [f \in Files |-> 0]
  /\ workspaces = Workspaces
  /\ now = 1

SetRow(f, s, t) ==
  /\ status' = [status EXCEPT ![f] = s]
  /\ deletedAt' = [deletedAt EXCEPT ![f] = t]

Create(f) ==
  /\ status[f] = "none"
  /\ WorkspaceOf[f] \in workspaces
  /\ Usage(WorkspaceOf[f]) + Bytes[{f}] <= Limit[WorkspaceOf[f]]
  /\ SetRow(f, "active", 0)
  /\ UNCHANGED <<workspaces, now>>

\* A request ends long before the retention window does, so a row it read as
\* active has not expired when it writes.
Trash(f) ==
  /\ Exists(f) /\ ~Expired(f)
  /\ SetRow(f, "trashed", now)
  /\ UNCHANGED <<workspaces, now>>

\* The quota may be met without the file: see RestoreCheck in FileStore.
Restore(f) ==
  /\ Exists(f)
  /\ Usage(WorkspaceOf[f]) <= Limit[WorkspaceOf[f]]
  /\ SetRow(f, "active", 0)
  /\ UNCHANGED <<workspaces, now>>

Delete(f) ==
  /\ Exists(f)
  /\ SetRow(f, "deleted", 0)
  /\ UNCHANGED <<workspaces, now>>

DeleteWorkspace(w) ==
  /\ w \in workspaces
  /\ workspaces' = workspaces \ {w}
  /\ status' = [f \in Files |-> IF f \in FilesOf(w) /\ Exists(f)
                                THEN "deleted" ELSE status[f]]
  /\ deletedAt' = [f \in Files |-> IF f \in FilesOf(w) THEN 0 ELSE deletedAt[f]]
  /\ UNCHANGED now

Tick ==
  /\ now < MaxTime
  /\ now' = now + 1
  /\ UNCHANGED <<status, deletedAt, workspaces>>

Next ==
  \/ \E f \in Files : Create(f) \/ Trash(f) \/ Restore(f) \/ Delete(f)
  \/ \E w \in Workspaces : DeleteWorkspace(w)
  \/ Tick

Spec == Init /\ [][Next]_ledgerVars

-----------------------------------------------------------------------------

\* Whatever the interleaving, the quota of a workspace is exceeded by at most
\* one file: a restore that was admitted while its file counted, and landed
\* after it had stopped counting (file.service.ts, restore).
OvershootBounded ==
  \A w \in Workspaces :
    \/ Usage(w) <= Limit[w]
    \/ \E f \in Counted(w) : Bytes[Counted(w) \ {f}] <= Limit[w]
=============================================================================
