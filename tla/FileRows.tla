------------------------------ MODULE FileRows ------------------------------
(***************************************************************************)
(* The "files" table as the quota sees it: one row per file id, the clock  *)
(* that ages the trash, and the sum the upload and restore checks compare  *)
(* with the plan's limit.  Shared by the atomic ledger (FileLedger) and by *)
(* the handlers as they run (FileStore).                                   *)
(***************************************************************************)
EXTENDS Integers

CONSTANTS
  Files,        \* file ids (randomUUID, so an id is used for one upload)
  Workspaces,
  WorkspaceOf,  \* the workspace a file id belongs to (file.workspaceId)
  Bytes,        \* Bytes[S]: what SUM(size) returns for the set S of files
  Limit,        \* STORAGE_LIMITS of the owner's plan, per workspace
  Retention,    \* TRASH_RETENTION_DAYS, in ticks of the clock
  MaxTime       \* bound: the clock stops there

\* SUM(size) ?? 0 over non-negative sizes: additive, hence monotone.
ASSUME BytesAssumption ==
  /\ Bytes \in [SUBSET Files -> Nat]
  /\ Bytes[{}] = 0
  /\ \A S \in SUBSET Files : \A f \in Files \ S :
        Bytes[S \cup {f}] = Bytes[S] + Bytes[{f}]
  /\ \A T \in SUBSET Files : \A S \in SUBSET T : Bytes[S] <= Bytes[T]

ASSUME LedgerAssumption ==
  /\ WorkspaceOf \in [Files -> Workspaces]
  /\ Limit \in [Workspaces -> Nat]
  /\ Retention \in Nat
  /\ MaxTime \in Nat

VARIABLES
  status,      \* of the row of each file id, see Status
  deletedAt,   \* the column deletedAt; 0 stands for NULL
  workspaces,  \* the workspaces that exist
  now          \* the clock, which starts at 1

\* "none": never inserted; "deleted": inserted once, the row is gone.
Status == {"none", "active", "trashed", "deleted"}

Exists(f) == status[f] \in {"active", "trashed"}

FilesOf(w) == {f \in Files : WorkspaceOf[f] = w}

\* An expired row is one the trash no longer lists and the sweep may take.
Expired(f) == status[f] = "trashed" /\ deletedAt[f] + Retention < now

\* The rows the quota counts: active ones and those still in retention.
Counted(w) == {f \in FilesOf(w) : Exists(f) /\ ~Expired(f)}

Usage(w) == Bytes[Counted(w)]

\* Type invariant; a row has a deletedAt exactly when it is in the trash.
RowsOK ==
  /\ status \in [Files -> Status]
  /\ deletedAt \in [Files -> Nat]
  /\ workspaces \in SUBSET Workspaces
  /\ now \in Nat \ {0}
  /\ \A f \in Files : status[f] = "trashed" <=> deletedAt[f] # 0
=============================================================================
