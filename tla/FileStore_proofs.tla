-------------------------- MODULE FileStore_proofs --------------------------
(***************************************************************************)
(* Proofs about the files, for any number of files, workspaces, handlers   *)
(* and server instances and any set of faults: FileStore's type invariant, *)
(* that its interleaved handlers implement the atomic FileLedger, what     *)
(* they leave behind and what they may destroy, and the lock of the sweep  *)
(* (SweepLock).                                                            *)
(***************************************************************************)
EXTENDS FileStore, SweepLock, FiniteSetTheorems, TLAPS

-----------------------------------------------------------------------------
(* How the bytes of a set of rows compare with a limit as the set changes *)

\* Bounded(S, n): the bytes of S are at most n, or are without one file of S.
Bounded(S, n) == Bytes[S] <= n \/ \E f \in S : Bytes[S \ {f}] <= n

\* A set of rows that shrinks stays bounded.
LEMMA BoundedSubset ==
  ASSUME NEW T \in SUBSET Files, NEW S \in SUBSET T, NEW n \in Nat, Bounded(T, n)
  PROVE  Bounded(S, n)
<1>1. Bytes[S] \in Nat /\ Bytes[T] \in Nat /\ Bytes[S] <= Bytes[T]
  BY BytesAssumption
<1>2. CASE Bytes[T] <= n
  BY <1>1, <1>2 DEF Bounded
<1>3. ASSUME NEW f \in T, Bytes[T \ {f}] <= n PROVE Bounded(S, n)
  <2>1. T \ {f} \in SUBSET Files
    OBVIOUS
  <2>2. CASE f \in S
    <3>1. S \ {f} \in SUBSET (T \ {f})
      OBVIOUS
    <3>2. Bytes[S \ {f}] <= Bytes[T \ {f}] /\ Bytes[S \ {f}] \in Nat /\ Bytes[T \ {f}] \in Nat
      BY <2>1, <3>1, BytesAssumption
    <3>3. Bytes[S \ {f}] <= n
      BY <1>3, <3>2
    <3>4. QED
      BY <2>2, <3>3 DEF Bounded
  <2>3. CASE f \notin S
    <3>1. S \in SUBSET (T \ {f})
      BY <2>3
    <3>2. Bytes[S] <= Bytes[T \ {f}] /\ Bytes[T \ {f}] \in Nat
      BY <2>1, <3>1, BytesAssumption
    <3>3. QED
      BY <1>1, <1>3, <3>2 DEF Bounded
  <2>4. QED
    BY <2>2, <2>3
<1>4. QED
  BY <1>2, <1>3 DEF Bounded

\* One file more than a set within the limit is bounded.
LEMMA BoundedAdd ==
  ASSUME NEW T \in SUBSET Files, NEW f \in Files, NEW S \in SUBSET (T \cup {f}),
         NEW n \in Nat, Bytes[T] <= n
  PROVE  Bounded(S, n)
<1>1. (T \cup {f}) \ {f} \in SUBSET T /\ T \cup {f} \in SUBSET Files
  OBVIOUS
<1>2. Bytes[(T \cup {f}) \ {f}] <= Bytes[T] /\ Bytes[T] \in Nat
      /\ Bytes[(T \cup {f}) \ {f}] \in Nat
  BY <1>1, BytesAssumption
<1>3. Bytes[(T \cup {f}) \ {f}] <= n
  BY <1>2
<1>4. Bounded(T \cup {f}, n)
  BY <1>3 DEF Bounded
<1>5. QED
  BY <1>1, <1>4, BoundedSubset

\* What a workspace counts is a set of files.
LEMMA CountedOfFiles == \A w : Counted(w) \in SUBSET Files
BY DEF Counted, FilesOf

-----------------------------------------------------------------------------
(* The atomic ledger *)

\* The ledger counts the rows the handlers count.
LEMMA LedgerReads ==
  /\ \A f \in Files : (Ledger!Exists(f) <=> Exists(f)) /\ (Ledger!Expired(f) <=> Expired(f))
  /\ \A w \in Workspaces : /\ Ledger!FilesOf(w) = FilesOf(w)
                           /\ Ledger!Counted(w) = Counted(w)
                           /\ Ledger!Usage(w) = Usage(w)
BY DEF Ledger!Exists, Ledger!Expired, Ledger!FilesOf, Ledger!Counted, Ledger!Usage,
       Exists, Expired, FilesOf, Counted, Usage

\* The type invariant of the rows, the workspaces and the clock.
THEOREM LedgerTypeCorrect == Ledger!Spec => []RowsOK
<1> USE DEF RowsOK, Status
<1>1. Ledger!Init => RowsOK
  BY LedgerAssumption DEF Ledger!Init
<1>2. RowsOK /\ [Ledger!Next]_(Ledger!ledgerVars) => RowsOK'
  <2> SUFFICES ASSUME RowsOK, [Ledger!Next]_(Ledger!ledgerVars) PROVE RowsOK'
    OBVIOUS
  <2>1. ASSUME NEW f \in Files, Ledger!Create(f) \/ Ledger!Restore(f) PROVE RowsOK'
    BY <2>1 DEF Ledger!Create, Ledger!Restore, Ledger!SetRow
  <2>2. ASSUME NEW f \in Files, Ledger!Trash(f) \/ Ledger!Delete(f) PROVE RowsOK'
    BY <2>2 DEF Ledger!Trash, Ledger!Delete, Ledger!SetRow
  <2>3. ASSUME NEW w \in Workspaces, Ledger!DeleteWorkspace(w) PROVE RowsOK'
    BY <2>3, LedgerReads DEF Ledger!DeleteWorkspace, FilesOf, Exists
  <2>4. CASE Ledger!Tick
    BY <2>4 DEF Ledger!Tick
  <2>5. CASE UNCHANGED Ledger!ledgerVars
    BY <2>5 DEF Ledger!ledgerVars
  <2>6. QED
    BY <2>1, <2>2, <2>3, <2>4, <2>5 DEF Ledger!Next
<1>3. QED
  BY <1>1, <1>2, PTL DEF Ledger!Spec

-----------------------------------------------------------------------------

\* What a workspace counts does not grow but by Create and Restore of its files.
LEMMA CountedShrinks ==
  ASSUME RowsOK, NEW w \in Workspaces,
         \/ UNCHANGED Ledger!ledgerVars
         \/ \E f \in Files : Ledger!Trash(f) \/ Ledger!Delete(f)
         \/ \E f \in Files : (Ledger!Create(f) \/ Ledger!Restore(f)) /\ WorkspaceOf[f] # w
         \/ \E v \in Workspaces : Ledger!DeleteWorkspace(v)
         \/ Ledger!Tick
  PROVE  Counted(w)' \subseteq Counted(w)
<1> USE DEF Counted, FilesOf, Exists, Expired
<1>1. CASE UNCHANGED Ledger!ledgerVars
  BY <1>1 DEF Ledger!ledgerVars
<1>2. ASSUME NEW f \in Files, Ledger!Trash(f) PROVE Counted(w)' \subseteq Counted(w)
  BY <1>2, LedgerReads, LedgerAssumption DEF Ledger!Trash, Ledger!SetRow, RowsOK
<1>3. ASSUME NEW f \in Files, Ledger!Delete(f) PROVE Counted(w)' \subseteq Counted(w)
  BY <1>3, LedgerReads DEF Ledger!Delete, Ledger!SetRow, RowsOK
<1>4. ASSUME NEW f \in Files, Ledger!Create(f) \/ Ledger!Restore(f), WorkspaceOf[f] # w
      PROVE  Counted(w)' \subseteq Counted(w)
  BY <1>4, LedgerReads DEF Ledger!Create, Ledger!Restore, Ledger!SetRow, RowsOK
<1>5. ASSUME NEW v \in Workspaces, Ledger!DeleteWorkspace(v)
      PROVE  Counted(w)' \subseteq Counted(w)
  BY <1>5, LedgerReads DEF Ledger!DeleteWorkspace, RowsOK
<1>6. CASE Ledger!Tick
  BY <1>6, LedgerAssumption DEF Ledger!Tick, RowsOK
<1>7. QED
  BY <1>1, <1>2, <1>3, <1>4, <1>5, <1>6

\* At every step the rows a workspace counts shrink, or gain one file while
\* what was counted before was within the limit.
LEMMA CountedStep ==
  ASSUME RowsOK, Ledger!Next, NEW w \in Workspaces
  PROVE  \/ Counted(w)' \subseteq Counted(w)
         \/ \E f \in Files : /\ Counted(w)' \subseteq Counted(w) \cup {f}
                             /\ Usage(w) <= Limit[w]
<1>1. ASSUME NEW f \in Files, Ledger!Create(f) \/ Ledger!Restore(f), WorkspaceOf[f] = w
      PROVE  Counted(w)' \subseteq Counted(w) \cup {f} /\ Usage(w) <= Limit[w]
  <2>1. Counted(w)' \subseteq Counted(w) \cup {f}
    BY <1>1, LedgerReads DEF Ledger!Create, Ledger!Restore, Ledger!SetRow, RowsOK, Counted,
       FilesOf, Exists, Expired
  <2>2. Usage(w) \in Nat /\ Bytes[{f}] \in Nat /\ Limit[w] \in Nat
    BY CountedOfFiles, BytesAssumption, LedgerAssumption DEF Usage
  <2>3. Usage(w) + Bytes[{f}] <= Limit[w] \/ Usage(w) <= Limit[w]
    BY <1>1, LedgerReads DEF Ledger!Create, Ledger!Restore
  <2>4. QED
    BY <2>1, <2>2, <2>3
<1>2. QED
  BY <1>1, CountedShrinks DEF Ledger!Next

\* The quota of a workspace is exceeded by one restored file at most.
THEOREM OvershootIsBounded == Ledger!Spec => []OvershootBounded
<1> DEFINE Inv == \A w \in Workspaces : Bounded(Counted(w), Limit[w])
<1>1. Ledger!Init => Inv
  <2> SUFFICES ASSUME Ledger!Init, NEW w \in Workspaces PROVE Bounded(Counted(w), Limit[w])
    OBVIOUS
  <2>1. Counted(w) = {}
    BY DEF Ledger!Init, Counted, FilesOf, Exists
  <2>2. Bytes[Counted(w)] <= Limit[w]
    BY <2>1, BytesAssumption, LedgerAssumption
  <2>3. QED
    BY <2>2 DEF Bounded
<1>2. RowsOK /\ Inv /\ [Ledger!Next]_(Ledger!ledgerVars) => Inv'
  <2> SUFFICES ASSUME RowsOK, Inv, [Ledger!Next]_(Ledger!ledgerVars), NEW w \in Workspaces
               PROVE  Bounded(Counted(w)', Limit[w])
    BY DEF Bounded
  <2>0. Limit[w] \in Nat /\ Counted(w) \in SUBSET Files /\ Bounded(Counted(w), Limit[w])
    BY LedgerAssumption, CountedOfFiles
  <2>1. CASE UNCHANGED Ledger!ledgerVars
    <3>1. Counted(w)' = Counted(w)
      BY <2>1 DEF Ledger!ledgerVars, Counted, Exists, Expired
    <3>2. QED
      BY <2>0, <3>1
  <2>2. CASE Ledger!Next
    <3>1. CASE Counted(w)' \subseteq Counted(w)
      BY <2>0, <3>1, BoundedSubset
    <3>2. ASSUME NEW f \in Files, Counted(w)' \subseteq Counted(w) \cup {f},
                 Usage(w) <= Limit[w]
          PROVE  Bounded(Counted(w)', Limit[w])
      BY <2>0, <3>2, BoundedAdd DEF Usage
    <3>3. QED
      BY <2>2, <3>1, <3>2, CountedStep
  <2>3. QED
    BY <2>1, <2>2
<1>3. Inv => OvershootBounded
  BY LedgerReads DEF OvershootBounded, Ledger!OvershootBounded, Bounded, Usage
<1>4. QED
  BY <1>1, <1>2, <1>3, LedgerTypeCorrect, PTL DEF Ledger!Spec

-----------------------------------------------------------------------------
(* The handlers *)

\* A sweep that moves on keeps its shape.
LEMMA SweepMoves ==
  ASSUME TypeOK, NEW i \in Sweepers, NEW s \in Sweep,
         sweep' = [sweep EXCEPT ![i] = s],
         s.at = "row" <=> s.file # NoFile,
         s.at = "row" => s.file \in s.batch
  PROVE  /\ sweep' \in [Sweepers -> Sweep]
         /\ \A j \in Sweepers : /\ sweep'[j].at = "row" <=> sweep'[j].file # NoFile
                                /\ sweep'[j].at = "row" => sweep'[j].file \in sweep'[j].batch
BY DEF TypeOK

\* A sweep goes on to the next file of its batch, or to the next query.
LEMMA AfterFileOK ==
  ASSUME TypeOK, NEW i \in Sweepers, NEW f \in Files, AfterFile(i, f)
  PROVE  /\ sweep' \in [Sweepers -> Sweep]
         /\ \A j \in Sweepers : /\ sweep'[j].at = "row" <=> sweep'[j].file # NoFile
                                /\ sweep'[j].at = "row" => sweep'[j].file \in sweep'[j].batch
<1> DEFINE rest == sweep[i].batch \ {f}
           s == IF rest # {} THEN [sweep[i] EXCEPT !.at = "object", !.batch = rest,
                                                   !.file = NoFile]
                ELSE IF sweep[i].full THEN Querying(sweep[i].asOf)
                ELSE NoSweep
<1>1. sweep[i] \in Sweep
  BY DEF TypeOK
<1>2. s \in Sweep /\ s.at # "row" /\ s.file = NoFile
  BY <1>1 DEF Sweep, NoSweep, Querying
<1>3. sweep' = [sweep EXCEPT ![i] = s]
  BY DEF AfterFile, TypeOK
<1> HIDE DEF s
<1>4. QED
  BY <1>2, <1>3, SweepMoves

\* The type invariant is inductive together with UploadsFresh.
LEMMA TypeStep == TypeOK /\ UploadsFresh /\ [Next]_vars => TypeOK'
<1> SUFFICES ASSUME TypeOK, UploadsFresh, [Next]_vars PROVE TypeOK'
  OBVIOUS
<1> USE StoreAssumption, LedgerAssumption
    DEF RowsOK, Status, Request, Steps, UploadSteps,
        rows, Idle, At, Goto, Done, UpdateRow, Exists, DeleteThrows, Begin
<1>1. ASSUME NEW p \in Handlers, NEW f \in Files,
             UploadBegin(p, f) \/ RestoreBegin(p, f) \/ RemoveBegin(p, f)
             \/ PurgeBegin(p, f) \/ AdminBegin(p, f)
      PROVE  TypeOK'
  BY <1>1 DEF TypeOK, UploadBegin, RestoreBegin, RemoveBegin, PurgeBegin, AdminBegin
<1>2. ASSUME NEW p \in Handlers,
             UploadPut(p) \/ UploadPutThrows(p) \/ UploadCheck(p) \/ UploadUndo(p)
      PROVE  TypeOK'
  BY <1>2 DEF TypeOK, UploadPut, UploadPutThrows, UploadCheck, UploadUndo
<1>3. ASSUME NEW p \in Handlers, UploadCommit(p) \/ UploadTxThrows(p)
      PROVE  TypeOK'
  <2>1. At(p, "commit") => req[p].file \in Files /\ status[req[p].file] = "none"
    BY <1>3 DEF UploadsFresh, TypeOK
  <2>2. status' \in [Files -> Status] /\ UNCHANGED <<deletedAt, workspaces, now>>
    BY <1>3, <2>1 DEF TypeOK, UploadCommit, UploadTxThrows
  <2>3. \A f \in Files : status'[f] = "trashed" <=> status[f] = "trashed"
    BY <1>3, <2>1 DEF TypeOK, UploadCommit, UploadTxThrows
  <2>4. RowsOK'
    BY <2>2, <2>3 DEF TypeOK
  <2>5. /\ req' \in [Handlers -> Request]
        /\ \A q \in Handlers : req'[q].at = "idle" <=> req'[q].file = NoFile
        /\ UNCHANGED <<objects, sweep>>
    BY <1>3 DEF TypeOK, UploadCommit, UploadTxThrows
  <2>6. QED
    BY <2>4, <2>5 DEF TypeOK
<1>4. ASSUME NEW p \in Handlers,
             RestoreCheck(p) \/ PurgeObject(p) \/ AdminObject(p) \/ RowThrows(p)
             \/ CrashRequest(p)
      PROVE  TypeOK'
  BY <1>4 DEF TypeOK, RestoreCheck, PurgeObject, AdminObject, RowThrows, CrashRequest
<1>5. ASSUME NEW p \in Handlers,
             RestoreCommit(p) \/ RemoveCommit(p) \/ DeleteRow(p)
      PROVE  TypeOK'
  <2>1. req[p].file \in Files
    BY <1>5 DEF TypeOK, RestoreCommit, RemoveCommit, DeleteRow
  <2>2. PICK s \in Status, t \in Nat :
          (s = "trashed" <=> t # 0) /\ UpdateRow(req[p].file, s, t)
    BY <1>5 DEF TypeOK, RestoreCommit, RemoveCommit, DeleteRow
  <2>3. RowsOK'
    BY <1>5, <2>1, <2>2 DEF TypeOK, RestoreCommit, RemoveCommit, DeleteRow
  <2>4. QED
    BY <1>5, <2>3 DEF TypeOK, RestoreCommit, RemoveCommit, DeleteRow
<1>6. ASSUME NEW i \in Sweepers, SweepStart(i) \/ CrashSweep(i) PROVE TypeOK'
  <2> DEFINE s == IF SweepStart(i) THEN Querying(now) ELSE NoSweep
  <2>1. s \in Sweep /\ s.at # "row" /\ s.file = NoFile /\ sweep' = [sweep EXCEPT ![i] = s]
    BY <1>6 DEF TypeOK, SweepStart, CrashSweep, Sweep, NoSweep, Querying
  <2>2. UNCHANGED <<rows, workspaces, now, objects, req>>
    BY <1>6 DEF SweepStart, CrashSweep
  <2> HIDE DEF s
  <2>3. QED
    BY <2>1, <2>2, SweepMoves DEF TypeOK
<1>7. ASSUME NEW i \in Sweepers, SweepQuery(i) PROVE TypeOK'
  <2>1. PICK b \in Batches(Due(i)) :
          sweep' = [sweep EXCEPT ![i] =
                      IF b = {} THEN NoSweep
                      ELSE [@ EXCEPT !.at = "object", !.batch = b,
                                     !.full = (Cardinality(b) = BatchSize)]]
    BY <1>7 DEF SweepQuery
  <2> DEFINE s == IF b = {} THEN NoSweep
                  ELSE [sweep[i] EXCEPT !.at = "object", !.batch = b,
                                        !.full = (Cardinality(b) = BatchSize)]
  <2>2. b \in SUBSET Files /\ (Cardinality(b) = BatchSize) \in BOOLEAN
    BY DEF Batches, Due
  <2>3. sweep[i] \in Sweep /\ sweep[i].at = "query" /\ sweep[i].file = NoFile
    BY <1>7 DEF TypeOK, SweepQuery
  <2>4. s \in Sweep /\ s.at # "row" /\ s.file = NoFile
    BY <2>2, <2>3 DEF Sweep, NoSweep
  <2>5. sweep' = [sweep EXCEPT ![i] = s]
    BY <2>1 DEF TypeOK
  <2>6. UNCHANGED <<rows, workspaces, now, objects, req>>
    BY <1>7 DEF SweepQuery
  <2> HIDE DEF s
  <2>7. QED
    BY <2>4, <2>5, <2>6, SweepMoves DEF TypeOK
<1>8. ASSUME NEW i \in Sweepers, NEW f \in Files, SweepObject(i, f) PROVE TypeOK'
  <2> DEFINE s == [sweep[i] EXCEPT !.at = "row", !.file = f]
  <2>1. sweep[i] \in Sweep
    BY DEF TypeOK
  <2>2. s \in Sweep /\ s.at = "row" /\ s.file = f /\ s.batch = sweep[i].batch
    BY <2>1 DEF Sweep
  <2>3. f \in sweep[i].batch /\ objects' = objects \ {f}
        /\ UNCHANGED <<rows, workspaces, now, req>>
    BY <1>8 DEF SweepObject
  <2>4. sweep' = [sweep EXCEPT ![i] = s]
    BY <1>8 DEF SweepObject, TypeOK, Sweep
  <2> HIDE DEF s
  <2>5. QED
    BY <2>2, <2>3, <2>4, SweepMoves DEF TypeOK
<1>9. ASSUME NEW i \in Sweepers, NEW f \in Files, SweepObjectThrows(i, f) PROVE TypeOK'
  <2>1. AfterFile(i, f) /\ objects' \in {objects, objects \ {f}}
        /\ UNCHANGED <<rows, workspaces, now, req>>
    BY <1>9 DEF SweepObjectThrows
  <2>2. QED
    BY <2>1, AfterFileOK DEF TypeOK
<1>10. ASSUME NEW i \in Sweepers, SweepRow(i) PROVE TypeOK'
  <2>1. sweep[i].file \in Files
    BY <1>10 DEF SweepRow, TypeOK, Sweep
  <2>2. AfterFile(i, sweep[i].file) /\ UNCHANGED <<workspaces, now, objects, req>>
    BY <1>10 DEF SweepRow
  <2>3. RowsOK'
    BY <1>10, <2>1 DEF SweepRow, TypeOK
  <2>4. QED
    BY <2>1, <2>2, <2>3, AfterFileOK DEF TypeOK
<1>11. ASSUME NEW w \in Workspaces, DeleteWorkspace(w) PROVE TypeOK'
  BY <1>11 DEF TypeOK, DeleteWorkspace
<1>12. CASE Tick
  BY <1>12 DEF TypeOK, Tick
<1>13. CASE UNCHANGED vars
  BY <1>13 DEF TypeOK, vars
<1>14. QED
  BY <1>1, <1>2, <1>3, <1>4, <1>5, <1>6, <1>7, <1>8, <1>9, <1>10, <1>11, <1>12,
     <1>13 DEF Next, RequestStep, SweepStep

-----------------------------------------------------------------------------

\* Every step that leaves the rows alone, and the others by name.
RowsUntouched == UNCHANGED <<status, deletedAt, workspaces, now>>

\* The steps that touch the rows, by name.
LEMMA NextCases ==
  ASSUME Next
  PROVE  \/ RowsUntouched
         \/ \E p \in Handlers : \/ UploadCommit(p) \/ UploadTxThrows(p)
                                \/ RestoreCommit(p) \/ RemoveCommit(p) \/ DeleteRow(p)
         \/ \E i \in Sweepers : SweepRow(i)
         \/ \E w \in Workspaces : DeleteWorkspace(w)
         \/ Tick
<1> USE DEF RowsUntouched, rows
<1>1. ASSUME NEW p \in Handlers, RequestStep(p)
      PROVE  \/ RowsUntouched
             \/ UploadCommit(p) \/ UploadTxThrows(p)
             \/ RestoreCommit(p) \/ RemoveCommit(p) \/ DeleteRow(p)
  BY <1>1 DEF RequestStep, UploadBegin, RestoreBegin, RemoveBegin, PurgeBegin,
     AdminBegin, Begin, UploadPut, UploadPutThrows, UploadCheck, UploadUndo,
     RestoreCheck, PurgeObject, AdminObject, RowThrows, CrashRequest
<1>2. ASSUME NEW i \in Sweepers, SweepStep(i) \/ CrashSweep(i)
      PROVE  RowsUntouched \/ SweepRow(i)
  BY <1>2 DEF SweepStep, SweepStart, SweepQuery, SweepObject, SweepObjectThrows,
     CrashSweep
<1>3. QED
  BY <1>1, <1>2 DEF Next

\* A busy request and a sweep that deletes a row name a file.
LEMMA Facts ==
  ASSUME TypeOK
  PROVE  /\ \A p \in Handlers : req[p].at # "idle" => req[p].file \in Files
         /\ \A i \in Sweepers : sweep[i].at = "row" => sweep[i].file \in Files
BY DEF TypeOK, Request, Sweep

\* Every step is a step of the ledger or leaves it alone.
LEMMA RowEffect ==
  ASSUME IInv, Next
  PROVE  \/ RowsUntouched
         \/ \E p \in Handlers : /\ Committing(p) /\ ~Committing(p)'
                                /\ Ledger!Create(req[p].file) \/ Ledger!Restore(req[p].file)
         \/ \E f \in Files : Ledger!Trash(f) \/ Ledger!Delete(f)
         \/ \E w \in Workspaces : Ledger!DeleteWorkspace(w)
         \/ Ledger!Tick
<1> USE DEF IInv, RowsUntouched, rows, Exists, Ledger!SetRow, Ledger!Exists, At, Home
<1>1. ASSUME NEW p \in Handlers, UploadCommit(p) \/ UploadTxThrows(p)
      PROVE  RowsUntouched
             \/ (Committing(p) /\ ~Committing(p)' /\ Ledger!Create(req[p].file))
  <2>1. CASE RowsUntouched
    BY <2>1
  <2>2. CASE ~RowsUntouched
    <3> DEFINE f == req[p].file
    <3>1. At(p, "commit") /\ WorkspaceOf[f] \in workspaces
          /\ status' = [status EXCEPT ![f] = "active"]
          /\ UNCHANGED <<deletedAt, workspaces, now>>
      BY <1>1, <2>2 DEF UploadCommit, UploadTxThrows, Goto, Done
    <3>2. f \in Files /\ status[f] = "none"
      BY <3>1, Facts DEF UploadsFresh
    <3>3. deletedAt' = [deletedAt EXCEPT ![f] = 0]
      BY <3>1, <3>2 DEF TypeOK, RowsOK
    <3>4. Ledger!Usage(WorkspaceOf[f]) + Bytes[{f}] <= Limit[WorkspaceOf[f]]
      BY <3>1 DEF QuotaHeld, Usage, Counted, FilesOf, Expired, Ledger!Usage,
                  Ledger!Counted, Ledger!FilesOf, Ledger!Expired
    <3>5. Committing(p) /\ ~Committing(p)'
      <4>1. \/ req' = [req EXCEPT ![p] = Idle]
            \/ req' = [req EXCEPT ![p].at = "undo"]
        BY <1>1 DEF UploadCommit, UploadTxThrows, Goto, Done
      <4>2. req \in [Handlers -> Request]
        BY DEF TypeOK
      <4>3. QED
        BY <3>1, <4>1, <4>2 DEF Idle, Request, Committing
    <3>6. QED
      BY <3>1, <3>2, <3>3, <3>4, <3>5 DEF Ledger!Create
  <2>3. QED
    BY <2>1, <2>2
<1>2. ASSUME NEW p \in Handlers, RestoreCommit(p)
      PROVE  RowsUntouched
             \/ (Committing(p) /\ ~Committing(p)' /\ Ledger!Restore(req[p].file))
  <2>1. At(p, "restoreCommit") /\ UpdateRow(req[p].file, "active", 0)
        /\ UNCHANGED <<workspaces, now>>
    BY <1>2 DEF RestoreCommit
  <2>2. Ledger!Usage(WorkspaceOf[req[p].file]) <= Limit[WorkspaceOf[req[p].file]]
    BY <2>1 DEF QuotaHeld, Usage, Counted, FilesOf, Expired, Ledger!Usage,
                Ledger!Counted, Ledger!FilesOf, Ledger!Expired
  <2>3. Committing(p) /\ ~Committing(p)'
    BY <1>2 DEF RestoreCommit, Done, Idle, TypeOK, Committing
  <2>4. QED
    BY <2>1, <2>2, <2>3 DEF Ledger!Restore, UpdateRow
<1>3. ASSUME NEW p \in Handlers, RemoveCommit(p)
      PROVE  RowsUntouched \/ \E f \in Files : Ledger!Trash(f)
  <2> DEFINE f == req[p].file
  <2>1. At(p, "remove") /\ UpdateRow(f, "trashed", now) /\ UNCHANGED <<workspaces, now>>
    BY <1>3 DEF RemoveCommit
  <2>2. f \in Files
    BY <2>1, Facts
  <2>3. ~Ledger!Expired(f)
    <3>1. status[f] = "trashed" => deletedAt[f] + req[p].age >= now
      BY <2>1 DEF RemovesRecent
    <3>2. req[p].age \in Nat /\ req[p].age <= Retention
      BY StoreAssumption, LedgerAssumption DEF TypeOK, Request
    <3>3. deletedAt[f] \in Nat /\ now \in Nat
      BY <2>2 DEF TypeOK, RowsOK
    <3>4. QED
      BY <3>1, <3>2, <3>3, LedgerAssumption DEF Ledger!Expired
  <2>4. QED
    BY <2>1, <2>2, <2>3 DEF Ledger!Trash, UpdateRow
<1>4. ASSUME NEW p \in Handlers, DeleteRow(p)
      PROVE  RowsUntouched \/ \E f \in Files : Ledger!Delete(f)
  <2>1. req[p].file \in Files
    BY <1>4, Facts DEF DeleteRow
  <2>2. QED
    BY <1>4, <2>1 DEF DeleteRow, UpdateRow, Ledger!Delete
<1>5. ASSUME NEW i \in Sweepers, SweepRow(i)
      PROVE  RowsUntouched \/ \E f \in Files : Ledger!Delete(f)
  <2>1. sweep[i].file \in Files
    BY <1>5, Facts DEF SweepRow
  <2>2. QED
    BY <1>5, <2>1 DEF SweepRow, UpdateRow, Ledger!Delete
<1>6. ASSUME NEW w \in Workspaces, DeleteWorkspace(w) PROVE Ledger!DeleteWorkspace(w)
  BY <1>6 DEF DeleteWorkspace, Ledger!DeleteWorkspace, Ledger!FilesOf
<1>7. CASE Tick
  BY <1>7 DEF Tick, Ledger!Tick
<1>8. QED
  BY <1>1, <1>2, <1>3, <1>4, <1>5, <1>6, <1>7, NextCases

-----------------------------------------------------------------------------

\* What a workspace counts grows only when one of its own transactions commits,
\* and then by the file of that transaction.
LEMMA CountedGrows ==
  ASSUME IInv, Next, NEW w \in Workspaces, ~(Counted(w)' \subseteq Counted(w))
  PROVE  \E p \in Handlers : /\ Committing(p) /\ ~Committing(p)' /\ Home(req[p].file) = w
                             /\ Counted(w)' \subseteq Counted(w) \cup {req[p].file}
                             /\ Ledger!Create(req[p].file) \/ Ledger!Restore(req[p].file)
<1> USE LedgerAssumption
    DEF Counted, FilesOf, Exists, Expired, RowsOK, TypeOK, IInv, Ledger!SetRow, Ledger!Exists
<1>1. CASE RowsUntouched
  BY <1>1 DEF RowsUntouched
<1>2. ASSUME NEW p \in Handlers,
             Ledger!Create(req[p].file) \/ Ledger!Restore(req[p].file)
      PROVE  Home(req[p].file) = w /\ Counted(w)' \subseteq Counted(w) \cup {req[p].file}
  BY <1>2 DEF Ledger!Create, Ledger!Restore, Home
<1>3. ASSUME NEW f \in Files, Ledger!Trash(f) PROVE FALSE
  BY <1>3 DEF Ledger!Trash, Ledger!Expired
<1>4. ASSUME NEW f \in Files, Ledger!Delete(f) PROVE FALSE
  BY <1>4 DEF Ledger!Delete
<1>5. ASSUME NEW v \in Workspaces, Ledger!DeleteWorkspace(v) PROVE FALSE
  BY <1>5 DEF Ledger!DeleteWorkspace, Ledger!FilesOf
<1>6. CASE Ledger!Tick
  BY <1>6 DEF Ledger!Tick
<1>7. QED
  BY <1>1, <1>2, <1>3, <1>4, <1>5, <1>6, RowEffect

\* The rows an upload will create stay free.
LEMMA FreshStep == TypeOK /\ UploadsFresh /\ [Next]_vars => UploadsFresh'
<1> SUFFICES ASSUME TypeOK, UploadsFresh, [Next]_vars PROVE UploadsFresh'
  OBVIOUS
<1> USE DEF UploadsFresh, TypeOK, RowsOK, Request, UploadSteps,
            rows, Idle, At, Goto, Done, UpdateRow, Exists
<1>1. ASSUME NEW p \in Handlers, NEW f \in Files, UploadBegin(p, f)
      PROVE  UploadsFresh'
  BY <1>1 DEF UploadBegin, Begin, Fresh, Uploading
<1>2. ASSUME NEW p \in Handlers, NEW f \in Files,
             RestoreBegin(p, f) \/ RemoveBegin(p, f) \/ PurgeBegin(p, f)
             \/ AdminBegin(p, f)
      PROVE  UploadsFresh'
  BY <1>2 DEF RestoreBegin, RemoveBegin, PurgeBegin, AdminBegin, Begin
<1>3. ASSUME NEW p \in Handlers,
             UploadPut(p) \/ UploadPutThrows(p) \/ UploadCheck(p) \/ UploadUndo(p)
      PROVE  UploadsFresh'
  BY <1>3 DEF UploadPut, UploadPutThrows, UploadCheck, UploadUndo
<1>4. ASSUME NEW p \in Handlers, UploadCommit(p) \/ UploadTxThrows(p)
      PROVE  UploadsFresh'
  BY <1>4 DEF UploadCommit, UploadTxThrows
<1>5. ASSUME NEW p \in Handlers,
             RestoreCheck(p) \/ PurgeObject(p) \/ AdminObject(p) \/ RowThrows(p)
             \/ CrashRequest(p)
      PROVE  UploadsFresh'
  BY <1>5 DEF RestoreCheck, PurgeObject, AdminObject, RowThrows, CrashRequest
<1>6. ASSUME NEW p \in Handlers,
             RestoreCommit(p) \/ RemoveCommit(p) \/ DeleteRow(p)
      PROVE  UploadsFresh'
  BY <1>6 DEF RestoreCommit, RemoveCommit, DeleteRow
<1>7. ASSUME NEW i \in Sweepers, SweepStep(i) \/ CrashSweep(i) PROVE UploadsFresh'
  <2>1. req' = req
    BY <1>7 DEF SweepStep, SweepStart, SweepQuery, SweepObject, SweepObjectThrows,
       SweepRow, CrashSweep
  <2>2. \A f \in Files : status[f] = "none" => status'[f] = "none"
    BY <1>7 DEF SweepStep, SweepStart, SweepQuery, SweepObject, SweepObjectThrows,
       SweepRow, CrashSweep
  <2>3. QED
    BY <2>1, <2>2
<1>8. ASSUME NEW w \in Workspaces, DeleteWorkspace(w) PROVE UploadsFresh'
  BY <1>8 DEF DeleteWorkspace
<1>9. CASE Tick
  BY <1>9 DEF Tick
<1>10. CASE UNCHANGED vars
  BY <1>10 DEF vars
<1>11. QED
  BY <1>1, <1>2, <1>3, <1>4, <1>5, <1>6, <1>7, <1>8, <1>9, <1>10 DEF Next, RequestStep

\* A row trashed under a removal is recent, because the clock ages the request.
LEMMA RecentStep == TypeOK /\ UploadsFresh /\ RemovesRecent /\ [Next]_vars => RemovesRecent'
<1> SUFFICES ASSUME TypeOK, UploadsFresh, RemovesRecent, [Next]_vars PROVE RemovesRecent'
  OBVIOUS
<1> USE DEF RemovesRecent, TypeOK, RowsOK, Request,
            rows, Idle, At, Goto, Done, UpdateRow, Exists
<1>1. ASSUME NEW p \in Handlers, NEW f \in Files,
             UploadBegin(p, f) \/ RestoreBegin(p, f) \/ RemoveBegin(p, f)
             \/ PurgeBegin(p, f) \/ AdminBegin(p, f)
      PROVE  RemovesRecent'
  BY <1>1 DEF UploadBegin, RestoreBegin, RemoveBegin, PurgeBegin, AdminBegin, Begin
<1>2. ASSUME NEW p \in Handlers,
             UploadPut(p) \/ UploadPutThrows(p) \/ UploadCheck(p) \/ UploadUndo(p)
      PROVE  RemovesRecent'
  BY <1>2 DEF UploadPut, UploadPutThrows, UploadCheck, UploadUndo
<1>3. ASSUME NEW p \in Handlers, UploadCommit(p) \/ UploadTxThrows(p)
      PROVE  RemovesRecent'
  BY <1>3 DEF UploadCommit, UploadTxThrows
<1>4. ASSUME NEW p \in Handlers,
             RestoreCheck(p) \/ PurgeObject(p) \/ AdminObject(p) \/ RowThrows(p)
             \/ CrashRequest(p)
      PROVE  RemovesRecent'
  BY <1>4 DEF RestoreCheck, PurgeObject, AdminObject, RowThrows, CrashRequest
<1>5. ASSUME NEW p \in Handlers,
             RestoreCommit(p) \/ RemoveCommit(p) \/ DeleteRow(p)
      PROVE  RemovesRecent'
  <2>1. /\ req' = [req EXCEPT ![p] = Idle]
        /\ req[p].file \in Files
        /\ now' = now
    BY <1>5 DEF RestoreCommit, RemoveCommit, DeleteRow
  <2>2. \A f \in Files : status'[f] = "trashed"
          => \/ status[f] = "trashed" /\ deletedAt'[f] = deletedAt[f]
             \/ deletedAt'[f] = now
    BY <1>5, <2>1 DEF RestoreCommit, RemoveCommit, DeleteRow
  <2>3. QED
    BY <2>1, <2>2
<1>6. ASSUME NEW i \in Sweepers, SweepStep(i) \/ CrashSweep(i) PROVE RemovesRecent'
  <2>1. req' = req /\ now' = now
    BY <1>6 DEF SweepStep, SweepStart, SweepQuery, SweepObject, SweepObjectThrows,
       SweepRow, CrashSweep
  <2>2. \A f \in Files : status'[f] = "trashed"
          => status[f] = "trashed" /\ deletedAt'[f] = deletedAt[f]
    BY <1>6 DEF SweepStep, SweepStart, SweepQuery, SweepObject, SweepObjectThrows,
       SweepRow, CrashSweep
  <2>3. QED
    BY <2>1, <2>2
<1>7. ASSUME NEW w \in Workspaces, DeleteWorkspace(w) PROVE RemovesRecent'
  BY <1>7 DEF DeleteWorkspace
<1>8. CASE Tick
  BY <1>8 DEF Tick
<1>9. CASE UNCHANGED vars
  BY <1>9 DEF vars
<1>10. QED
  BY <1>1, <1>2, <1>3, <1>4, <1>5, <1>6, <1>7, <1>8, <1>9 DEF Next, RequestStep

\* Only a quota check takes the lock, and it finds it free; a handler that
\* stays in its transaction keeps the lock for the same file.
LEMMA LockTaken ==
  ASSUME TypeOK, Next, NEW p \in Handlers, Committing(p)'
  PROVE  \/ Committing(p) /\ req'[p].at = req[p].at /\ req'[p].file = req[p].file
         \/ UploadCheck(p) /\ req'[p].at = "commit" /\ req'[p].file = req[p].file
         \/ RestoreCheck(p) /\ req'[p].at = "restoreCommit" /\ req'[p].file = req[p].file
<1> USE DEF Committing, TypeOK, Request, Idle, At, Goto, Done
<1>1. ASSUME NEW q \in Handlers, NEW f \in Files,
             UploadBegin(q, f) \/ RestoreBegin(q, f) \/ RemoveBegin(q, f)
             \/ PurgeBegin(q, f) \/ AdminBegin(q, f)
      PROVE  Committing(p) /\ req'[p].at = req[p].at /\ req'[p].file = req[p].file
  BY <1>1 DEF UploadBegin, RestoreBegin, RemoveBegin, PurgeBegin, AdminBegin, Begin
<1>2. ASSUME NEW q \in Handlers,
             UploadPut(q) \/ UploadPutThrows(q) \/ UploadUndo(q) \/ UploadCommit(q)
             \/ UploadTxThrows(q) \/ RestoreCommit(q) \/ RemoveCommit(q)
      PROVE  Committing(p) /\ req'[p].at = req[p].at /\ req'[p].file = req[p].file
  BY <1>2 DEF UploadPut, UploadPutThrows, UploadUndo, UploadCommit, UploadTxThrows,
     RestoreCommit, RemoveCommit
<1>3. ASSUME NEW q \in Handlers,
             PurgeObject(q) \/ AdminObject(q) \/ DeleteRow(q) \/ RowThrows(q)
             \/ CrashRequest(q)
      PROVE  Committing(p) /\ req'[p].at = req[p].at /\ req'[p].file = req[p].file
  BY <1>3 DEF PurgeObject, AdminObject, DeleteRow, RowThrows, CrashRequest
<1>4. ASSUME NEW q \in Handlers, UploadCheck(q)
      PROVE  \/ Committing(p) /\ req'[p].at = req[p].at /\ req'[p].file = req[p].file
             \/ UploadCheck(p) /\ req'[p].at = "commit" /\ req'[p].file = req[p].file
  <2>1. \/ req' = [req EXCEPT ![q].at = "commit"]
        \/ req' = [req EXCEPT ![q].at = "undo"]
    BY <1>4 DEF UploadCheck
  <2>2. QED
    BY <1>4, <2>1
<1>5. ASSUME NEW q \in Handlers, RestoreCheck(q)
      PROVE  \/ Committing(p) /\ req'[p].at = req[p].at /\ req'[p].file = req[p].file
             \/ RestoreCheck(p) /\ req'[p].at = "restoreCommit" /\ req'[p].file = req[p].file
  <2>1. \/ req' = [req EXCEPT ![q].at = "restoreCommit"]
        \/ req' = [req EXCEPT ![q] = Idle]
    BY <1>5 DEF RestoreCheck
  <2>2. QED
    BY <1>5, <2>1
<1>6. ASSUME NEW i \in Sweepers, SweepStep(i) \/ CrashSweep(i) PROVE req' = req
  BY <1>6 DEF SweepStep, SweepStart, SweepQuery, SweepObject, SweepObjectThrows,
     SweepRow, CrashSweep
<1>7. ASSUME NEW w \in Workspaces, DeleteWorkspace(w) PROVE req' = req
  BY <1>7 DEF DeleteWorkspace
<1>8. CASE Tick
  BY <1>8 DEF Tick
<1>9. QED
  BY <1>1, <1>2, <1>3, <1>4, <1>5, <1>6, <1>7, <1>8 DEF Next, RequestStep

\* While a transaction has its lock its workspace does not count more.
LEMMA UsageKept ==
  ASSUME IInv, Next, NEW p \in Handlers, NEW f \in Files, req[p].file = f,
         Committing(p), Committing(p)'
  PROVE  Usage(Home(f))' <= Usage(Home(f)) /\ Usage(Home(f))' \in Nat
         /\ Usage(Home(f)) \in Nat
<1>1. Home(f) \in Workspaces
  BY LedgerAssumption DEF Home
<1>2. Counted(Home(f))' \subseteq Counted(Home(f))
  <2>1. SUFFICES ASSUME ~(Counted(Home(f))' \subseteq Counted(Home(f))) PROVE FALSE
    OBVIOUS
  <2>2. PICK q \in Handlers : Committing(q) /\ ~Committing(q)' /\ Home(req[q].file) = Home(f)
    BY <1>1, <2>1, CountedGrows
  <2>3. q = p
    BY <2>2 DEF IInv, QuotaHeld
  <2>4. QED
    BY <2>2, <2>3
<1>3. Counted(Home(f)) \in SUBSET Files
  BY DEF Counted, FilesOf
<1>4. QED
  BY <1>2, <1>3, BytesAssumption DEF Usage

\* The sum a transaction has checked holds until it commits.
LEMMA QuotaStep == IInv /\ [Next]_vars => QuotaHeld'
<1> SUFFICES ASSUME IInv, [Next]_vars PROVE QuotaHeld'
  OBVIOUS
<1>1. CASE UNCHANGED vars
  BY <1>1 DEF IInv, QuotaHeld, vars, Usage, Counted, FilesOf, Exists, Expired, At,
     Committing, Home
<1>2. CASE Next
  <2>0. TypeOK /\ QuotaHeld
    BY DEF IInv
  <2>1. ASSUME NEW p \in Handlers, Committing(p)'
        PROVE  /\ At(p, "commit")' => (Usage(Home(req[p].file)) + Bytes[{req[p].file}]
                                         <= Limit[Home(req[p].file)])'
               /\ At(p, "restoreCommit")' => (Usage(Home(req[p].file))
                                         <= Limit[Home(req[p].file)])'
    <3>1. PICK f \in Files : req[p].file = f /\ req'[p].file = f
      <4>1. req'[p].file = req[p].file /\ req[p].at # "idle"
        BY <1>2, <2>0, <2>1, LockTaken DEF Committing, UploadCheck, RestoreCheck, At
      <4>2. QED
        BY <2>0, <4>1, Facts
    <3>2. Limit[Home(f)] \in Nat /\ Bytes[{f}] \in Nat
      BY LedgerAssumption, BytesAssumption DEF Home
    <3>3. CASE Committing(p) /\ req'[p].at = req[p].at
      <4>1. Usage(Home(f))' <= Usage(Home(f)) /\ Usage(Home(f))' \in Nat
            /\ Usage(Home(f)) \in Nat
        BY <1>2, <2>1, <3>1, <3>3, UsageKept
      <4>2. /\ At(p, "commit") => Usage(Home(f)) + Bytes[{f}] <= Limit[Home(f)]
            /\ At(p, "restoreCommit") => Usage(Home(f)) <= Limit[Home(f)]
        BY <2>0, <3>1 DEF QuotaHeld
      <4>3. /\ At(p, "commit") => Usage(Home(f))' + Bytes[{f}] <= Limit[Home(f)]
            /\ At(p, "restoreCommit") => Usage(Home(f))' <= Limit[Home(f)]
        BY <3>2, <4>1, <4>2
      <4>4. QED
        BY <3>1, <3>3, <4>3 DEF At, Home
    <3>4. CASE UploadCheck(p) /\ req'[p].at = "commit"
      <4>1. Usage(Home(f)) + Bytes[{f}] <= Limit[Home(f)]
        <5>1. \/ Usage(Home(f)) + Bytes[{f}] <= Limit[Home(f)]
              \/ req' = [req EXCEPT ![p].at = "undo"]
          BY <3>1, <3>4 DEF UploadCheck, Goto
        <5>2. req \in [Handlers -> Request]
          BY <2>0 DEF TypeOK
        <5>3. QED
          BY <3>4, <5>1, <5>2 DEF Request
      <4>2. Usage(Home(f))' = Usage(Home(f))
        BY <3>4 DEF UploadCheck, rows, Usage, Counted, FilesOf, Exists, Expired
      <4>3. QED
        BY <3>1, <3>4, <4>1, <4>2 DEF At, Home
    <3>5. CASE RestoreCheck(p) /\ req'[p].at = "restoreCommit"
      <4>1. Usage(Home(f)) <= Limit[Home(f)]
        <5>1. \/ Usage(Home(f)) <= Limit[Home(f)]
              \/ req' = [req EXCEPT ![p] = Idle]
          BY <3>1, <3>5 DEF RestoreCheck, Done
        <5>2. req \in [Handlers -> Request]
          BY <2>0 DEF TypeOK
        <5>3. QED
          BY <3>5, <5>1, <5>2 DEF Idle
      <4>2. Usage(Home(f))' = Usage(Home(f))
        BY <3>5 DEF RestoreCheck, rows, Usage, Counted, FilesOf, Exists, Expired
      <4>3. QED
        BY <3>1, <3>5, <4>1, <4>2 DEF At, Home
    <3>6. QED
      BY <1>2, <2>0, <2>1, <3>3, <3>4, <3>5, LockTaken
  <2>2. ASSUME NEW p \in Handlers, NEW q \in Handlers, Committing(p)', Committing(q)',
               Home(req'[p].file) = Home(req'[q].file)
        PROVE  p = q
    <3>1. req'[p].file = req[p].file /\ req'[q].file = req[q].file
      BY <1>2, <2>0, <2>2, LockTaken
    <3>2. CASE Committing(p) /\ Committing(q)
      BY <2>0, <2>2, <3>1, <3>2 DEF QuotaHeld
    <3>3. ASSUME NEW r \in Handlers, NEW s \in Handlers, r # s,
                 Committing(r)', Committing(s)',
                 req'[r].file = req[r].file, req'[s].file = req[s].file,
                 Home(req'[r].file) = Home(req'[s].file),
                 UploadCheck(r) \/ RestoreCheck(r)
          PROVE  FALSE
      <4>1. req'[s] = req[s]
        BY <2>0, <3>3 DEF UploadCheck, RestoreCheck, Goto, Done, TypeOK
      <4>2. LockFree(Home(req[r].file))
        BY <3>3 DEF UploadCheck, RestoreCheck
      <4>3. QED
        BY <3>3, <4>1, <4>2 DEF LockFree, Committing
    <3>4. QED
      BY <1>2, <2>0, <2>2, <3>1, <3>2, <3>3, LockTaken
  <2>3. QED
    BY <2>1, <2>2 DEF QuotaHeld, At, Committing, Home
<1>3. QED
  BY <1>1, <1>2

\* IInv is inductive.
LEMMA InvInductive == Spec => []IInv
<1>1. Init => IInv
  <2> SUFFICES ASSUME Init PROVE IInv
    OBVIOUS
  <2>1. TypeOK
    BY StoreAssumption DEF Init, TypeOK, RowsOK, Status, Request, Sweep, Steps,
       UploadSteps, Idle, NoSweep
  <2>2. \A p \in Handlers : req[p].at = "idle"
    BY DEF Init, Idle
  <2>3. UploadsFresh /\ QuotaHeld /\ RemovesRecent
    BY <2>2 DEF UploadsFresh, UploadSteps, QuotaHeld, Committing, At, RemovesRecent
  <2>4. QED
    BY <2>1, <2>3 DEF IInv
<1>2. IInv /\ [Next]_vars => IInv'
  BY TypeStep, FreshStep, RecentStep, QuotaStep DEF IInv
<1>3. QED
  BY <1>1, <1>2, PTL DEF Spec

\* The type invariant of the file store.
THEOREM StoreTypeCorrect == Spec => []TypeOK
<1>1. IInv => TypeOK
  BY DEF IInv
<1>2. QED
  BY <1>1, InvInductive, PTL

\* The sum a transaction compared with the limit holds until its commit.
THEOREM QuotaCheckHolds == Spec => []QuotaHeld
<1>1. IInv => QuotaHeld
  BY DEF IInv
<1>2. QED
  BY <1>1, InvInductive, PTL

\* Whatever the interleaving of requests, sweeps, failures and crashes, the
\* rows behave as the atomic ledger says: an upload lands only while it fits
\* the quota, and a deleted row never comes back.
THEOREM StoreImplementsLedger == Spec => LedgerSpec
<1>1. Init => Ledger!Init
  BY DEF Init, Ledger!Init
<1>2. IInv /\ [Next]_vars => [Ledger!Next]_(Ledger!ledgerVars)
  <2> SUFFICES ASSUME IInv, [Next]_vars PROVE [Ledger!Next]_(Ledger!ledgerVars)
    OBVIOUS
  <2>1. CASE UNCHANGED vars
    BY <2>1 DEF vars, Ledger!ledgerVars
  <2>2. CASE RowsUntouched
    BY <2>2 DEF RowsUntouched, Ledger!ledgerVars
  <2>3. ASSUME NEW p \in Handlers, Committing(p),
               Ledger!Create(req[p].file) \/ Ledger!Restore(req[p].file)
        PROVE  Ledger!Next
    <3>1. req[p].file \in Files
      BY <2>3, Facts DEF IInv, Committing
    <3>2. QED
      BY <2>3, <3>1 DEF Ledger!Next
  <2>4. QED
    BY <2>1, <2>2, <2>3, RowEffect DEF Ledger!Next
<1>3. QED
  BY <1>1, <1>2, InvInductive, PTL DEF Spec, LedgerSpec, Ledger!Spec

-----------------------------------------------------------------------------

\* Whatever fails and however requests and sweeps interleave, a workspace counts
\* at most one file more than its plan allows: the handlers of upload and
\* restore keep the bound of the atomic ledger, since they implement it.
THEOREM StoreOvershootIsBounded == Spec => []OvershootBounded
BY StoreImplementsLedger, OvershootIsBounded, PTL DEF LedgerSpec

-----------------------------------------------------------------------------

\* A file id that has a row, or had one, never loses that mark.
LEMMA RowsRemembered ==
  ASSUME IInv, Next, NEW f \in Files, status[f] # "none"
  PROVE  status'[f] # "none"
<1>1. ASSUME NEW g \in Files, Ledger!Create(g) \/ Ledger!Restore(g) \/ Ledger!Trash(g)
                              \/ Ledger!Delete(g)
      PROVE  status'[f] # "none"
  BY <1>1 DEF IInv, TypeOK, RowsOK, Ledger!Create, Ledger!Restore, Ledger!Trash,
     Ledger!Delete, Ledger!SetRow
<1>2. ASSUME NEW w \in Workspaces, Ledger!DeleteWorkspace(w) PROVE status'[f] # "none"
  BY <1>2 DEF Ledger!DeleteWorkspace
<1>3. ASSUME NEW p \in Handlers, Committing(p),
             Ledger!Create(req[p].file) \/ Ledger!Restore(req[p].file)
      PROVE  status'[f] # "none"
  <2>1. req[p].file \in Files
    BY <1>3, Facts DEF IInv, Committing
  <2>2. QED
    BY <1>1, <1>3, <2>1
<1>4. QED
  BY <1>1, <1>2, <1>3, RowEffect DEF RowsUntouched, Ledger!Tick

\* The faults that can leave an object behind do not happen.
NoLeak == Faults \cap {"put", "undo", "admin", "crash"} = {}

\* A sweep's batch only shrinks.
LEMMA AfterFileBatch ==
  ASSUME TypeOK, NEW i \in Sweepers, NEW f \in Files, AfterFile(i, f)
  PROVE  \A j \in Sweepers : /\ sweep'[j].batch \subseteq sweep[j].batch
                             /\ sweep'[j].at = "row" => j # i /\ sweep'[j] = sweep[j]
<1>1. sweep \in [Sweepers -> Sweep]
  BY DEF TypeOK
<1>2. QED
  BY <1>1 DEF AfterFile, NoSweep, Querying, Sweep

\* Every step keeps what the deleters have behind them.
LEMMA DeletersStep ==
  ASSUME NoLeak, IInv, DeletersBehind, [Next]_vars
  PROVE  DeletersBehind'
<1> USE DEF DeletersBehind, Request, UploadSteps, Idle, At, Goto, Done
<1>0. TypeOK /\ UploadsFresh /\ req \in [Handlers -> Request]
      /\ sweep \in [Sweepers -> Sweep] /\ objects \in SUBSET Files
  BY DEF IInv, TypeOK
<1>1. CASE UNCHANGED vars
  BY <1>1 DEF vars
<1>2. CASE Next
  <2>0. \A f \in Files : status[f] # "none" => status'[f] # "none"
    BY <1>2, RowsRemembered
  <2>a. /\ \A p \in Handlers : req[p].at # "idle" => req[p].file \in Files
        /\ \A i \in Sweepers : sweep[i].batch \in SUBSET Files
    BY <1>0, Facts DEF Sweep
  <2>1. ASSUME NEW p \in Handlers, NEW f \in Files,
               UploadBegin(p, f) \/ RestoreBegin(p, f) \/ RemoveBegin(p, f)
               \/ PurgeBegin(p, f) \/ AdminBegin(p, f)
        PROVE  DeletersBehind'
    BY <1>0, <2>1 DEF UploadBegin, RestoreBegin, RemoveBegin, PurgeBegin,
       AdminBegin, Begin, Exists, rows
  <2>2. ASSUME NEW p \in Handlers, UploadPut(p) PROVE DeletersBehind'
    <3>1. status[req[p].file] = "none"
      BY <1>0, <2>2 DEF UploadPut, UploadsFresh
    <3>2. QED
      BY <1>0, <2>2, <3>1 DEF UploadPut, rows, TypeOK
  <2>3. ASSUME NEW p \in Handlers,
               UploadPutThrows(p) \/ UploadCheck(p) \/ UploadCommit(p)
               \/ UploadTxThrows(p) \/ UploadUndo(p)
        PROVE  DeletersBehind'
    <3>1. /\ objects' \subseteq objects /\ sweep' = sweep
          /\ \/ req' = [req EXCEPT ![p] = Idle]
             \/ req' = [req EXCEPT ![p].at = "commit"]
             \/ req' = [req EXCEPT ![p].at = "undo"]
      BY <1>0, <2>3 DEF UploadPutThrows, UploadCheck, UploadCommit, UploadTxThrows,
         UploadUndo, DeleteThrows, NoLeak
    <3>2. QED
      BY <1>0, <2>0, <2>a, <3>1
  <2>4. ASSUME NEW p \in Handlers,
               RestoreCheck(p) \/ RestoreCommit(p) \/ RemoveCommit(p)
               \/ DeleteRow(p) \/ RowThrows(p) \/ CrashRequest(p)
        PROVE  DeletersBehind'
    <3>1. /\ objects' = objects /\ sweep' = sweep
          /\ \/ req' = [req EXCEPT ![p] = Idle]
             \/ req' = [req EXCEPT ![p].at = "restoreCommit"] /\ req[p].at = "restoreCheck"
      BY <2>4 DEF RestoreCheck, RestoreCommit, RemoveCommit, DeleteRow, RowThrows,
         CrashRequest
    <3>2. QED
      BY <1>0, <2>0, <2>a, <3>1
  <2>5. ASSUME NEW p \in Handlers, PurgeObject(p) \/ AdminObject(p)
        PROVE  DeletersBehind'
    <3>1. /\ req[p].at \in {"purgeObject", "adminObject"}
          /\ objects' \subseteq objects /\ sweep' = sweep
          /\ \/ req' = [req EXCEPT ![p] = Idle]
             \/ /\ req[p].file \notin objects'
                /\ \/ req' = [req EXCEPT ![p].at = "purgeRow"]
                   \/ req' = [req EXCEPT ![p].at = "adminRow"]
      BY <2>5 DEF PurgeObject, AdminObject, DeleteThrows, NoLeak
    <3>2. QED
      BY <1>0, <2>0, <2>a, <3>1
  <2>6. ASSUME NEW i \in Sweepers, SweepStart(i) \/ SweepQuery(i) \/ CrashSweep(i)
        PROVE  DeletersBehind'
    <3>1. UNCHANGED <<status, deletedAt, objects, req>>
      BY <2>6 DEF SweepStart, SweepQuery, CrashSweep, rows
    <3>2. /\ \A f \in sweep'[i].batch : status[f] # "none"
          /\ sweep'[i].at # "row"
          /\ \A j \in Sweepers \ {i} : sweep'[j] = sweep[j]
      <4>1. CASE SweepStart(i) \/ CrashSweep(i)
        <5>1. PICK s \in {NoSweep, Querying(now)} : sweep' = [sweep EXCEPT ![i] = s]
          BY <4>1 DEF SweepStart, CrashSweep
        <5>2. s.batch = {} /\ s.at \in {"idle", "query"}
          BY DEF NoSweep, Querying
        <5>3. sweep'[i] = s /\ \A j \in Sweepers \ {i} : sweep'[j] = sweep[j]
          BY <1>0, <5>1
        <5>4. QED
          BY <5>2, <5>3
      <4>2. CASE SweepQuery(i)
        <5>1. PICK b \in Batches(Due(i)) :
                sweep' = [sweep EXCEPT ![i] =
                   IF b = {} THEN NoSweep
                   ELSE [sweep[i] EXCEPT !.at = "object", !.batch = b,
                                         !.full = (Cardinality(b) = BatchSize)]]
          BY <4>2, <1>0 DEF SweepQuery
        <5>2. b \subseteq Due(i)
          BY DEF Batches
        <5>3. \A f \in b : status[f] = "trashed"
          BY <5>2 DEF Due
        <5>4. sweep'[i].batch \in {{}, b} /\ sweep'[i].at \in {"idle", "object"}
          BY <1>0, <5>1 DEF NoSweep, Sweep
        <5>5. \A j \in Sweepers \ {i} : sweep'[j] = sweep[j]
          BY <1>0, <5>1
        <5>6. QED
          BY <5>3, <5>4, <5>5
      <4>3. QED
        BY <2>6, <4>1, <4>2
    <3>3. QED
      BY <1>0, <3>1, <3>2
  <2>7. ASSUME NEW i \in Sweepers, NEW f \in Files, SweepObject(i, f)
        PROVE  DeletersBehind'
    BY <1>0, <2>7 DEF SweepObject, rows, Sweep
  <2>8. ASSUME NEW i \in Sweepers, NEW f \in Files, AfterFile(i, f),
               objects' \subseteq objects, req' = req
        PROVE  DeletersBehind'
    BY <1>0, <2>0, <2>a, <2>8, AfterFileBatch
  <2>9. ASSUME NEW i \in Sweepers, SweepRow(i) PROVE DeletersBehind'
    <3>1. sweep[i].file \in Files
      BY <1>0, <2>9, Facts DEF SweepRow
    <3>2. QED
      BY <2>8, <2>9, <3>1 DEF SweepRow
  <2>10. ASSUME NEW i \in Sweepers, NEW f \in Files, SweepObjectThrows(i, f)
         PROVE  DeletersBehind'
    BY <1>0, <2>8, <2>10 DEF SweepObjectThrows, DeleteThrows
  <2>11. ASSUME NEW w \in Workspaces, DeleteWorkspace(w) PROVE DeletersBehind'
    BY <1>0, <2>0, <2>a, <2>11 DEF DeleteWorkspace
  <2>12. CASE Tick
    BY <1>0, <2>0, <2>a, <2>12 DEF Tick, rows
  <2>13. QED
    BY <1>2, <2>1, <2>2, <2>3, <2>4, <2>5, <2>6, <2>7, <2>9, <2>10, <2>11, <2>12
       DEF Next, RequestStep, SweepStep
<1>3. QED
  BY <1>1, <1>2

\* No step leaves an object behind.
LEMMA OrphanStep ==
  ASSUME NoLeak, IInv, DeletersBehind, NoOrphan, [Next]_vars
  PROVE  NoOrphan'
<1> USE DEF NoOrphan, Uploading, UploadSteps, Request, Idle, At, Goto, Done, Home
<1>0. TypeOK /\ UploadsFresh /\ req \in [Handlers -> Request] /\ objects \in SUBSET Files
      /\ status \in [Files -> Status]
  BY DEF IInv, TypeOK, RowsOK
<1>1. CASE UNCHANGED vars
  BY <1>1 DEF vars, Exists
<1>2. CASE Next
  <2>1. ASSUME NEW p \in Handlers, NEW f \in Files,
               UploadBegin(p, f) \/ RestoreBegin(p, f) \/ RemoveBegin(p, f)
               \/ PurgeBegin(p, f) \/ AdminBegin(p, f)
        PROVE  NoOrphan'
    BY <1>0, <2>1 DEF UploadBegin, RestoreBegin, RemoveBegin, PurgeBegin, AdminBegin,
       Begin, Exists, rows
  <2>2. ASSUME NEW p \in Handlers, UploadPut(p) \/ UploadPutThrows(p) \/ UploadCheck(p)
        PROVE  NoOrphan'
    BY <1>0, <2>2 DEF UploadPut, UploadPutThrows, UploadCheck, Exists, rows, NoLeak
  <2>3. ASSUME NEW p \in Handlers, UploadCommit(p) \/ UploadTxThrows(p) PROVE NoOrphan'
    BY <1>0, <2>3 DEF UploadCommit, UploadTxThrows, Exists, rows
  <2>4. ASSUME NEW p \in Handlers, UploadUndo(p) PROVE NoOrphan'
    BY <1>0, <2>4 DEF UploadUndo, DeleteThrows, NoLeak, Exists, rows
  <2>5. ASSUME NEW p \in Handlers,
               RestoreCheck(p) \/ PurgeObject(p) \/ AdminObject(p) \/ RowThrows(p)
        PROVE  NoOrphan'
    <3>1. /\ UNCHANGED <<status, workspaces>> /\ objects' \subseteq objects
          /\ req[p].at \notin UploadSteps
          /\ \A q \in Handlers \ {p} : req'[q] = req[q]
      BY <1>0, <2>5 DEF RestoreCheck, PurgeObject, AdminObject, RowThrows,
         DeleteThrows, rows
    <3>2. QED
      BY <3>1 DEF Exists
  <2>6. ASSUME NEW p \in Handlers, RestoreCommit(p) \/ RemoveCommit(p) \/ DeleteRow(p)
        PROVE  NoOrphan'
    <3>1. /\ UNCHANGED <<objects, workspaces>>
          /\ req[p].at \notin UploadSteps
          /\ \A q \in Handlers \ {p} : req'[q] = req[q]
      BY <1>0, <2>6 DEF RestoreCommit, RemoveCommit, DeleteRow
    <3>2. \A f \in objects : Exists(f) => Exists(f)'
      BY <1>0, <2>6 DEF RestoreCommit, RemoveCommit, DeleteRow, UpdateRow, rows, Exists,
         DeletersBehind
    <3>3. QED
      BY <3>1, <3>2
  <2>7. ASSUME NEW i \in Sweepers,
               SweepStart(i) \/ SweepQuery(i) \/ CrashSweep(i)
               \/ \E f \in Files : SweepObject(i, f) \/ SweepObjectThrows(i, f)
        PROVE  NoOrphan'
    <3>1. UNCHANGED <<status, workspaces, req>> /\ objects' \subseteq objects
      BY <2>7 DEF SweepStart, SweepQuery, CrashSweep, SweepObject, SweepObjectThrows,
         DeleteThrows, rows
    <3>2. QED
      BY <3>1 DEF Exists
  <2>8. ASSUME NEW i \in Sweepers, SweepRow(i) PROVE NoOrphan'
    <3>1. UNCHANGED <<objects, workspaces, req>>
      BY <2>8 DEF SweepRow
    <3>2. \A f \in objects : Exists(f) => Exists(f)'
      BY <1>0, <2>8 DEF SweepRow, UpdateRow, rows, Exists, DeletersBehind
    <3>3. QED
      BY <3>1, <3>2
  <2>9. ASSUME NEW w \in Workspaces, DeleteWorkspace(w) PROVE NoOrphan'
    BY <1>0, <2>9 DEF DeleteWorkspace, Exists
  <2>10. CASE Tick
    BY <1>0, <2>10 DEF Tick, Exists, rows
  <2>11. ASSUME NEW p \in Handlers, CrashRequest(p) PROVE FALSE
    BY <2>11 DEF CrashRequest, NoLeak
  <2>12. QED
    BY <1>2, <2>1, <2>2, <2>3, <2>4, <2>5, <2>6, <2>7, <2>8, <2>9, <2>10, <2>11
       DEF Next, RequestStep, SweepStep
<1>3. QED
  BY <1>1, <1>2

\* As long as no upload, compensation or administrator's deletion is cut short,
\* whatever purges, sweeps and transactions fail, R2 holds nothing the database
\* has lost track of, except what was in a deleted workspace.
THEOREM NoOrphanLeft ==
  ASSUME NoLeak
  PROVE  Spec => []NoOrphan
<1>1. Init => DeletersBehind /\ NoOrphan
  BY DEF Init, DeletersBehind, NoOrphan, Idle, NoSweep, UploadSteps
<1>2. IInv /\ DeletersBehind /\ NoOrphan /\ [Next]_vars
        => (DeletersBehind /\ NoOrphan)'
  BY NoLeak, DeletersStep, OrphanStep
<1>3. QED
  BY <1>1, <1>2, InvInductive, PTL DEF Spec

-----------------------------------------------------------------------------
(* What the steps leave alone *)

\* The step of a request leaves the other requests alone.
LEMMA RequestMoves ==
  ASSUME TypeOK, NEW p \in Handlers, RequestStep(p)
  PROVE  \A q \in Handlers \ {p} : req'[q] = req[q]
<1> USE DEF TypeOK, Goto, Done
<1>1. ASSUME NEW f \in Files,
             UploadBegin(p, f) \/ RestoreBegin(p, f) \/ RemoveBegin(p, f)
             \/ PurgeBegin(p, f) \/ AdminBegin(p, f)
      PROVE  \A q \in Handlers \ {p} : req'[q] = req[q]
  BY <1>1 DEF UploadBegin, RestoreBegin, RemoveBegin, PurgeBegin, AdminBegin, Begin
<1>2. ASSUME UploadPut(p) \/ UploadPutThrows(p) \/ UploadCheck(p) \/ UploadCommit(p)
             \/ UploadTxThrows(p) \/ UploadUndo(p)
      PROVE  \A q \in Handlers \ {p} : req'[q] = req[q]
  BY <1>2 DEF UploadPut, UploadPutThrows, UploadCheck, UploadCommit, UploadTxThrows, UploadUndo
<1>3. ASSUME RestoreCheck(p) \/ RestoreCommit(p) \/ RemoveCommit(p) \/ PurgeObject(p)
             \/ AdminObject(p) \/ DeleteRow(p) \/ RowThrows(p) \/ CrashRequest(p)
      PROVE  \A q \in Handlers \ {p} : req'[q] = req[q]
  BY <1>3 DEF RestoreCheck, RestoreCommit, RemoveCommit, PurgeObject, AdminObject, DeleteRow,
     RowThrows, CrashRequest
<1>4. QED
  BY <1>1, <1>2, <1>3 DEF RequestStep

\* The steps of the sweeps and of the workspaces leave the requests alone.
LEMMA OthersKeepRequests ==
  ASSUME \/ \E i \in Sweepers : SweepStep(i) \/ CrashSweep(i)
         \/ \E w \in Workspaces : DeleteWorkspace(w)
  PROVE  req' = req
BY DEF SweepStep, SweepStart, SweepQuery, SweepObject, SweepObjectThrows, SweepRow,
   CrashSweep, DeleteWorkspace

\* The steps of the requests leave the sweeps alone.
LEMMA RequestsKeepSweeps ==
  ASSUME NEW p \in Handlers, RequestStep(p)
  PROVE  sweep' = sweep
BY DEF RequestStep, UploadBegin, RestoreBegin, RemoveBegin, PurgeBegin, AdminBegin,
   Begin, UploadPut, UploadPutThrows, UploadCheck, UploadCommit, UploadTxThrows,
   UploadUndo, RestoreCheck, RestoreCommit, RemoveCommit, PurgeObject, AdminObject,
   DeleteRow, RowThrows, CrashRequest

-----------------------------------------------------------------------------
(* When no request lasts over a tick of the clock *)

\* A request reads the clock and writes under the same one: beside a retention
\* of days no request is old enough to matter, and the model can leave its age
\* out (the bound Span).
Prompt == Span = 0

\* A file that a restore is to bring back has not expired, but for the time the
\* restore has taken.
RestoresRecent ==
  \A p \in Handlers :
    req[p].at \in {"restoreCheck", "restoreCommit"} /\ status[req[p].file] = "trashed"
      => deletedAt[req[p].file] + Retention + req[p].age >= now

\* Nobody can list, restore or download it any more.
Gone(f) == Expired(f) \/ status[f] = "deleted"

\* What a sweep has selected is gone for everybody else.
SweptGone ==
  \A i \in Sweepers : /\ sweep[i].asOf <= now
                      /\ \A f \in sweep[i].batch : Gone(f)

\* The clock ages a restore as it ages the trash.
LEMMA RestoreStep ==
  TypeOK /\ UploadsFresh /\ RestoresRecent /\ [Next]_vars => RestoresRecent'
<1> SUFFICES ASSUME TypeOK, UploadsFresh, RestoresRecent, [Next]_vars
             PROVE  RestoresRecent'
  OBVIOUS
<1> USE LedgerAssumption
    DEF RestoresRecent, TypeOK, RowsOK, Request, rows, Idle, At, Goto, Done, UpdateRow, Exists
<1>1. ASSUME NEW p \in Handlers, NEW f \in Files,
             UploadBegin(p, f) \/ RestoreBegin(p, f) \/ RemoveBegin(p, f)
             \/ PurgeBegin(p, f) \/ AdminBegin(p, f)
      PROVE  RestoresRecent'
  BY <1>1 DEF UploadBegin, RestoreBegin, RemoveBegin, PurgeBegin, AdminBegin, Begin
<1>2. ASSUME NEW p \in Handlers,
             UploadPut(p) \/ UploadPutThrows(p) \/ UploadCheck(p) \/ UploadUndo(p)
      PROVE  RestoresRecent'
  BY <1>2 DEF UploadPut, UploadPutThrows, UploadCheck, UploadUndo
<1>3. ASSUME NEW p \in Handlers, UploadCommit(p) \/ UploadTxThrows(p)
      PROVE  RestoresRecent'
  BY <1>3 DEF UploadCommit, UploadTxThrows
<1>4. ASSUME NEW p \in Handlers,
             PurgeObject(p) \/ AdminObject(p) \/ RowThrows(p) \/ CrashRequest(p)
      PROVE  RestoresRecent'
  BY <1>4 DEF PurgeObject, AdminObject, RowThrows, CrashRequest
<1>5. ASSUME NEW p \in Handlers, RestoreCheck(p) PROVE RestoresRecent'
  BY <1>5 DEF RestoreCheck
<1>6. ASSUME NEW p \in Handlers,
             RestoreCommit(p) \/ RemoveCommit(p) \/ DeleteRow(p)
      PROVE  RestoresRecent'
  <2>1. /\ req' = [req EXCEPT ![p] = Idle]
        /\ req[p].file \in Files
        /\ now' = now
    BY <1>6 DEF RestoreCommit, RemoveCommit, DeleteRow
  <2>2. \A f \in Files : status'[f] = "trashed"
          => \/ status[f] = "trashed" /\ deletedAt'[f] = deletedAt[f]
             \/ deletedAt'[f] = now
    BY <1>6, <2>1 DEF RestoreCommit, RemoveCommit, DeleteRow
  <2>3. QED
    BY <2>1, <2>2
<1>7. ASSUME NEW i \in Sweepers, SweepStep(i) \/ CrashSweep(i) PROVE RestoresRecent'
  <2>1. req' = req /\ now' = now
    BY <1>7 DEF SweepStep, SweepStart, SweepQuery, SweepObject, SweepObjectThrows,
       SweepRow, CrashSweep
  <2>2. \A f \in Files : status'[f] = "trashed"
          => status[f] = "trashed" /\ deletedAt'[f] = deletedAt[f]
    BY <1>7 DEF SweepStep, SweepStart, SweepQuery, SweepObject, SweepObjectThrows,
       SweepRow, CrashSweep
  <2>3. QED
    BY <2>1, <2>2
<1>8. ASSUME NEW w \in Workspaces, DeleteWorkspace(w) PROVE RestoresRecent'
  BY <1>8 DEF DeleteWorkspace
<1>9. CASE Tick
  BY <1>9 DEF Tick
<1>10. CASE UNCHANGED vars
  BY <1>10 DEF vars
<1>11. QED
  BY <1>1, <1>2, <1>3, <1>4, <1>5, <1>6, <1>7, <1>8, <1>9, <1>10 DEF Next, RequestStep

\* A prompt restore brings back only what has not expired.
LEMMA RestoresUnexpired ==
  ASSUME Prompt, TypeOK, RestoresRecent, NEW p \in Handlers,
         req[p].at \in {"restoreCheck", "restoreCommit"}
  PROVE  ~Expired(req[p].file)
<1>1. req[p].age = 0 /\ req[p].file \in Files
  BY Facts DEF Prompt, TypeOK, Request
<1>2. QED
  BY <1>1, LedgerAssumption DEF RestoresRecent, Expired, TypeOK, RowsOK

\* What is gone stays gone.
LEMMA GoneStays ==
  ASSUME Prompt, IInv, RestoresRecent, Next, NEW f \in Files, Gone(f)
  PROVE  Gone(f)'
<1> USE LedgerAssumption DEF Gone, Expired, IInv, TypeOK, RowsOK, UpdateRow, rows, Exists
<1>1. CASE RowsUntouched
  BY <1>1 DEF RowsUntouched
<1>2. ASSUME NEW p \in Handlers, UploadCommit(p) \/ UploadTxThrows(p) PROVE Gone(f)'
  <2>1. req[p].at \in {"check", "commit"}
    BY <1>2 DEF UploadCommit, UploadTxThrows, At
  <2>2. req[p].file # f
    BY <2>1 DEF UploadsFresh
  <2>3. QED
    BY <1>2, <2>2 DEF UploadCommit, UploadTxThrows
<1>3. ASSUME NEW p \in Handlers, RestoreCommit(p) PROVE Gone(f)'
  <2>1. ~Expired(req[p].file)
    BY <1>3, RestoresUnexpired DEF RestoreCommit, At
  <2>2. CASE req[p].file = f
    BY <1>3, <2>1, <2>2 DEF RestoreCommit
  <2>3. CASE req[p].file # f
    BY <1>3, <2>3 DEF RestoreCommit
  <2>4. QED
    BY <2>2, <2>3
<1>4. ASSUME NEW p \in Handlers, RemoveCommit(p) PROVE Gone(f)'
  <2>1. CASE req[p].file = f
    <3>1. status[f] = "trashed" => deletedAt[f] >= now
      BY <1>4, <2>1 DEF RemovesRecent, RemoveCommit, At, Request, Prompt
    <3>2. status[f] = "deleted"
      BY <3>1
    <3>3. QED
      BY <1>4, <2>1, <3>2 DEF RemoveCommit
  <2>2. CASE req[p].file # f
    BY <1>4, <2>2 DEF RemoveCommit
  <2>3. QED
    BY <2>1, <2>2
<1>5. ASSUME NEW p \in Handlers, DeleteRow(p) PROVE Gone(f)'
  BY <1>5 DEF DeleteRow
<1>6. ASSUME NEW i \in Sweepers, SweepRow(i) PROVE Gone(f)'
  BY <1>6 DEF SweepRow
<1>7. ASSUME NEW w \in Workspaces, DeleteWorkspace(w) PROVE Gone(f)'
  BY <1>7 DEF DeleteWorkspace
<1>8. CASE Tick
  BY <1>8 DEF Tick
<1>9. QED
  BY <1>1, <1>2, <1>3, <1>4, <1>5, <1>6, <1>7, <1>8, NextCases

\* A sweep selects what has expired by the clock it started with, and what it
\* selected stays gone.
LEMMA SweptStep ==
  ASSUME Prompt, IInv, RestoresRecent, SweptGone, [Next]_vars
  PROVE  SweptGone'
<1>1. /\ TypeOK /\ sweep \in [Sweepers -> Sweep] /\ now \in Nat
      /\ \A i \in Sweepers : sweep[i].batch \in SUBSET Files /\ sweep[i].asOf \in Nat
  BY DEF IInv, TypeOK, RowsOK, Sweep
<1>2. CASE UNCHANGED vars
  BY <1>2 DEF vars, SweptGone, Gone, Expired
<1>3. CASE Next
  <2>1. \A f \in Files : Gone(f) => Gone(f)'
    BY <1>3, GoneStays
  <2>2. now <= now' /\ now' \in Nat
    <3>1. now' = now \/ now' = now + 1
      BY <1>3, NextCases DEF RowsUntouched, UploadCommit, UploadTxThrows, RestoreCommit,
         RemoveCommit, DeleteRow, SweepRow, DeleteWorkspace, Tick
    <3>2. QED
      BY <1>1, <3>1
  <2>3. SUFFICES \A i \in Sweepers : /\ sweep'[i].asOf <= now
                                     /\ \A f \in sweep'[i].batch : f \in Files /\ Gone(f)
    <3>1. \A i \in Sweepers : sweep'[i].asOf \in Nat
      BY TypeStep, <1>3 DEF IInv, TypeOK, Sweep
    <3>2. QED
      BY <2>1, <2>2, <2>3, <1>1, <3>1 DEF SweptGone
  <2>4. CASE sweep' = sweep
    BY <1>1, <2>4 DEF SweptGone
  <2>5. ASSUME NEW i \in Sweepers, NEW s, sweep' = [sweep EXCEPT ![i] = s],
               s.asOf <= now, \A f \in s.batch : f \in Files /\ Gone(f)
        PROVE  \A j \in Sweepers : /\ sweep'[j].asOf <= now
                                   /\ \A f \in sweep'[j].batch : f \in Files /\ Gone(f)
    BY <1>1, <2>5 DEF SweptGone
  <2>6. ASSUME NEW i \in Sweepers, SweepStart(i) \/ CrashSweep(i)
        PROVE  \A j \in Sweepers : /\ sweep'[j].asOf <= now
                                   /\ \A f \in sweep'[j].batch : f \in Files /\ Gone(f)
    <3>1. PICK s \in {NoSweep, Querying(now)} : sweep' = [sweep EXCEPT ![i] = s]
      BY <2>6 DEF SweepStart, CrashSweep
    <3>2. s.batch = {} /\ s.asOf <= now
      BY <1>1 DEF NoSweep, Querying
    <3>3. QED
      BY <2>5, <3>1, <3>2
  <2>7. ASSUME NEW i \in Sweepers, SweepQuery(i)
        PROVE  \A j \in Sweepers : /\ sweep'[j].asOf <= now
                                   /\ \A f \in sweep'[j].batch : f \in Files /\ Gone(f)
    <3>1. PICK b \in Batches(Due(i)) :
            sweep' = [sweep EXCEPT ![i] =
               IF b = {} THEN NoSweep
               ELSE [sweep[i] EXCEPT !.at = "object", !.batch = b,
                                     !.full = (Cardinality(b) = BatchSize)]]
      BY <2>7, <1>1 DEF SweepQuery
    <3>2. \A f \in b : f \in Files /\ Gone(f)
      <4>1. b \subseteq Due(i)
        BY DEF Batches
      <4>2. \A f \in Due(i) : Expired(f)
        BY <1>1, LedgerAssumption DEF Due, Expired, SweptGone, IInv, TypeOK, RowsOK
      <4>3. QED
        BY <4>1, <4>2 DEF Due, Gone
    <3>3. sweep'[i].batch \in {{}, b} /\ sweep'[i].asOf <= now
      BY <1>1, <3>1 DEF NoSweep, Sweep, SweptGone
    <3>4. \A j \in Sweepers \ {i} : sweep'[j] = sweep[j]
      BY <1>1, <3>1
    <3>5. QED
      BY <1>1, <3>2, <3>3, <3>4 DEF SweptGone
  <2>8. ASSUME NEW i \in Sweepers, NEW f \in Files, SweepObject(i, f)
        PROVE  \A j \in Sweepers : /\ sweep'[j].asOf <= now
                                   /\ \A g \in sweep'[j].batch : g \in Files /\ Gone(g)
    BY <1>1, <2>8 DEF SweepObject, SweptGone, Sweep
  <2>9. ASSUME NEW i \in Sweepers, NEW f \in Files, AfterFile(i, f)
        PROVE  \A j \in Sweepers : /\ sweep'[j].asOf <= now
                                   /\ \A g \in sweep'[j].batch : g \in Files /\ Gone(g)
    <3>1. \A j \in Sweepers : sweep'[j].asOf \in {0, sweep[j].asOf}
      BY <1>1, <2>9 DEF AfterFile, NoSweep, Querying, Sweep
    <3>2. QED
      BY <1>1, <2>9, <3>1, AfterFileBatch DEF SweptGone
  <2>10. ASSUME NEW i \in Sweepers, SweepStep(i)
         PROVE  \A j \in Sweepers : /\ sweep'[j].asOf <= now
                                    /\ \A g \in sweep'[j].batch : g \in Files /\ Gone(g)
    <3>1. SweepRow(i) => sweep[i].file \in Files
      BY <1>1, Facts DEF SweepRow
    <3>2. QED
      BY <2>6, <2>7, <2>8, <2>9, <2>10, <3>1 DEF SweepStep, SweepRow, SweepObjectThrows
  <2>11. ASSUME NEW p \in Handlers, RequestStep(p) PROVE sweep' = sweep
    BY <2>11, RequestsKeepSweeps
  <2>12. ASSUME (\E w \in Workspaces : DeleteWorkspace(w)) \/ Tick PROVE sweep' = sweep
    BY <2>12 DEF DeleteWorkspace, Tick
  <2>13. QED
    BY <1>3, <2>4, <2>6, <2>10, <2>11, <2>12 DEF Next
<1>4. QED
  BY <1>2, <1>3

\* Who is to change a row, or an object, has read the row.
ReadersHaveRows ==
  \A p \in Handlers :
    req[p].at \notin UploadSteps \cup {"idle"} => status[req[p].file] # "none"

\* A row that was read may have gone, but it has not become one never inserted.
LEMMA ReadersStep == IInv /\ ReadersHaveRows /\ [Next]_vars => ReadersHaveRows'
<1> SUFFICES ASSUME IInv, ReadersHaveRows, [Next]_vars PROVE ReadersHaveRows'
  OBVIOUS
<1>0. TypeOK /\ req \in [Handlers -> Request]
  BY DEF IInv, TypeOK
<1>1. CASE UNCHANGED vars
  BY <1>1 DEF vars, ReadersHaveRows
<1>2. CASE Next
  <2>0. /\ \A f \in Files : status[f] # "none" => status'[f] # "none"
        /\ \A p \in Handlers : req[p].at # "idle" => req[p].file \in Files
    BY <1>0, <1>2, RowsRemembered, Facts
  <2>1. ASSUME NEW p \in Handlers,
               \A q \in Handlers \ {p} : req'[q] = req[q],
               \/ req'[p].at \in UploadSteps \cup {"idle"}
               \/ req'[p].file = req[p].file /\ req[p].at \notin UploadSteps \cup {"idle"}
               \/ req'[p].file \in Files /\ status[req'[p].file] # "none"
        PROVE  ReadersHaveRows'
    BY <2>0, <2>1 DEF ReadersHaveRows
  <2> USE DEF UploadSteps, Idle, At, Goto, Done, Request
  <2>2. ASSUME NEW p \in Handlers, NEW f \in Files,
               UploadBegin(p, f) \/ RestoreBegin(p, f) \/ RemoveBegin(p, f)
               \/ PurgeBegin(p, f) \/ AdminBegin(p, f)
        PROVE  ReadersHaveRows'
    BY <1>0, <2>1, <2>2 DEF UploadBegin, RestoreBegin, RemoveBegin, PurgeBegin, AdminBegin,
       Begin, Exists
  <2>3. ASSUME NEW p \in Handlers,
               UploadPut(p) \/ UploadPutThrows(p) \/ UploadCheck(p) \/ UploadCommit(p)
               \/ UploadTxThrows(p) \/ UploadUndo(p)
        PROVE  ReadersHaveRows'
    BY <1>0, <2>1, <2>3 DEF UploadPut, UploadPutThrows, UploadCheck, UploadCommit,
       UploadTxThrows, UploadUndo
  <2>4. ASSUME NEW p \in Handlers,
               RestoreCheck(p) \/ RestoreCommit(p) \/ RemoveCommit(p) \/ PurgeObject(p)
               \/ AdminObject(p) \/ DeleteRow(p) \/ RowThrows(p) \/ CrashRequest(p)
        PROVE  ReadersHaveRows'
    BY <1>0, <2>1, <2>4 DEF RestoreCheck, RestoreCommit, RemoveCommit, PurgeObject,
       AdminObject, DeleteRow, RowThrows, CrashRequest
  <2>5. CASE Tick
    BY <1>0, <2>0, <2>5 DEF Tick, ReadersHaveRows
  <2>6. CASE req' = req
    BY <2>0, <2>6 DEF ReadersHaveRows
  <2>7. QED
    BY <1>2, <2>2, <2>3, <2>4, <2>5, <2>6, OthersKeepRequests DEF Next, RequestStep
<1>3. QED
  BY <1>1, <1>2

\* What a prompt request and a sweep rely on, inductive together.
PromptIInv == IInv /\ RestoresRecent /\ SweptGone /\ ReadersHaveRows

\* It is an invariant.
LEMMA PromptInductive ==
  ASSUME Prompt
  PROVE  Spec => []PromptIInv
<1>1. Init => RestoresRecent /\ SweptGone /\ ReadersHaveRows
  BY DEF Init, RestoresRecent, SweptGone, ReadersHaveRows, Idle, NoSweep
<1>2. IInv /\ RestoresRecent /\ SweptGone /\ ReadersHaveRows /\ [Next]_vars
        => (RestoresRecent /\ SweptGone /\ ReadersHaveRows)'
  BY Prompt, RestoreStep, SweptStep, ReadersStep DEF IInv
<1>3. QED
  BY <1>1, <1>2, InvInductive, PTL DEF Spec, PromptIInv

\* Bytes are destroyed by a sweep when the retention window of the file is over,
\* at the moment of the destruction and not only when the sweep chose the file.
THEOREM SweepHonoursRetention ==
  ASSUME Prompt
  PROVE  Spec => RetentionHonoured
<1> DEFINE Honours == \A i \in Sweepers, f \in Files :
      sweep[i].at = "object" /\ f \in objects /\ sweep'[i].file = f
        => Expired(f) \/ status[f] = "deleted"
<1>1. PromptIInv /\ [Next]_vars => [Honours]_vars
  <2> SUFFICES ASSUME PromptIInv, Next, NEW i \in Sweepers, NEW f \in Files,
                      sweep[i].at = "object", sweep'[i].file = f
               PROVE  Gone(f)
    BY DEF Gone
  <2>1. TypeOK /\ sweep \in [Sweepers -> Sweep] /\ sweep[i].file = NoFile /\ f # NoFile
    BY StoreAssumption DEF PromptIInv, IInv, TypeOK, Sweep
  <2>2. SUFFICES f \in sweep[i].batch
    BY <2>2 DEF PromptIInv, SweptGone
  <2>3. ASSUME NEW j \in Sweepers, SweepStart(j) \/ CrashSweep(j) PROVE FALSE
    BY <2>1, <2>3 DEF SweepStart, CrashSweep, NoSweep, Querying
  <2>4. ASSUME NEW j \in Sweepers, SweepQuery(j) PROVE FALSE
    <3>1. sweep[j].at # "object" /\ \E s : sweep' = [sweep EXCEPT ![j] = s]
      BY <2>1, <2>4 DEF SweepQuery
    <3>2. QED
      BY <2>1, <3>1
  <2>5. ASSUME NEW j \in Sweepers, NEW g \in Files, AfterFile(j, g) PROVE FALSE
    BY <2>1, <2>5 DEF AfterFile, NoSweep, Querying, Sweep
  <2>6. ASSUME NEW j \in Sweepers, NEW g \in Files, SweepObject(j, g)
        PROVE  f \in sweep[i].batch
    BY <2>1, <2>6 DEF SweepObject, Sweep
  <2>7. ASSUME NEW j \in Sweepers, SweepStep(j) PROVE f \in sweep[i].batch
    <3>1. SweepRow(j) => sweep[j].file \in Files
      BY <2>1, Facts DEF SweepRow
    <3>2. QED
      BY <2>3, <2>4, <2>5, <2>6, <2>7, <3>1 DEF SweepStep, SweepRow, SweepObjectThrows
  <2>8. sweep' # sweep
    BY <2>1
  <2>9. ASSUME NEW p \in Handlers PROVE ~RequestStep(p)
    BY <2>8, RequestsKeepSweeps
  <2>10. QED
    BY <2>3, <2>7, <2>8, <2>9 DEF Next, DeleteWorkspace, Tick
<1>2. QED
  BY <1>1, PromptInductive, Prompt, PTL DEF Spec, RetentionHonoured

\* What a workspace counts grows by an upload that fits, or not at all: the file
\* that a prompt restore brings back was counted when the sum was checked.
LEMMA UsageStep ==
  ASSUME Prompt, PromptIInv, UsageWithinQuota, [Next]_vars
  PROVE  UsageWithinQuota'
<1>1. SUFFICES ASSUME NEW w \in Workspaces PROVE Usage(w)' <= Limit[w]
  BY DEF UsageWithinQuota
<1>2. /\ Counted(w) \in SUBSET Files /\ Usage(w) \in Nat
      /\ Usage(w) <= Limit[w] /\ Limit[w] \in Nat
  BY LedgerAssumption, BytesAssumption, CountedOfFiles DEF UsageWithinQuota, Usage
<1>3. ASSUME Counted(w)' \subseteq Counted(w) PROVE Usage(w)' <= Limit[w]
  <2>1. Bytes[Counted(w)'] <= Bytes[Counted(w)] /\ Bytes[Counted(w)'] \in Nat
    BY <1>2, <1>3, BytesAssumption
  <2>2. QED
    BY <1>2, <2>1 DEF Usage
<1>4. CASE UNCHANGED vars
  <2>1. Counted(w)' = Counted(w)
    BY <1>4 DEF vars, Counted, FilesOf, Exists, Expired
  <2>2. QED
    BY <1>3, <2>1
<1>5. ASSUME Next, ~(Counted(w)' \subseteq Counted(w)) PROVE Usage(w)' <= Limit[w]
  <2>1. IInv /\ TypeOK /\ QuotaHeld /\ RestoresRecent
    BY DEF PromptIInv, IInv
  <2>2. PICK p \in Handlers :
          /\ Committing(p) /\ Home(req[p].file) = w
          /\ Counted(w)' \subseteq Counted(w) \cup {req[p].file}
          /\ Ledger!Create(req[p].file) \/ Ledger!Restore(req[p].file)
    BY <1>5, <2>1, CountedGrows
  <2> DEFINE f == req[p].file
  <2>3. f \in Files /\ f \notin Counted(w)
    BY <1>5, <2>1, <2>2, Facts DEF Committing
  <2>4. At(p, "commit")
    <3>1. SUFFICES ASSUME At(p, "restoreCommit") PROVE FALSE
      BY <2>2 DEF Committing, At
    <3>2. status[f] # "none"
      BY <2>3, <3>1 DEF PromptIInv, ReadersHaveRows, UploadSteps, At
    <3>3. Exists(f)
      BY <2>2, <2>3, <3>2, LedgerReads DEF Ledger!Create, Ledger!Restore
    <3>4. ~Expired(f)
      BY Prompt, <2>1, <3>1, RestoresUnexpired DEF At
    <3>5. QED
      BY <2>2, <2>3, <3>3, <3>4 DEF Counted, FilesOf, Home
  <2>5. Usage(w) + Bytes[{f}] <= Limit[w]
    BY <2>1, <2>2, <2>4 DEF QuotaHeld
  <2>6. Bytes[Counted(w) \cup {f}] = Bytes[Counted(w)] + Bytes[{f}]
    BY <1>2, <2>3, BytesAssumption
  <2>7. Counted(w) \cup {f} \in SUBSET Files
    BY <1>2, <2>3
  <2>8. Bytes[Counted(w)'] <= Bytes[Counted(w) \cup {f}] /\ Bytes[Counted(w)'] \in Nat
    BY <2>2, <2>7, BytesAssumption
  <2>9. Bytes[{f}] \in Nat
    BY <2>3, BytesAssumption
  <2>10. Bytes[Counted(w) \cup {f}] <= Limit[w] /\ Bytes[Counted(w) \cup {f}] \in Nat
    BY <1>2, <2>5, <2>6, <2>7, <2>9 DEF Usage
  <2>11. Bytes[Counted(w)'] <= Limit[w]
    BY <1>2, <2>8, <2>10
  <2>12. QED
    BY <2>11 DEF Usage
<1>6. QED
  BY <1>3, <1>4, <1>5

\* Whatever fails, no workspace counts more than its plan allows: two uploads, or
\* an upload and a restore, that fit one by one cannot land together. (A request
\* that lasts over the end of a retention window is OvershootBounded's case.)
THEOREM QuotaIsKept ==
  ASSUME Prompt
  PROVE  Spec => []UsageWithinQuota
<1>1. Init => UsageWithinQuota
  <2> SUFFICES ASSUME Init, NEW w \in Workspaces PROVE Usage(w) <= Limit[w]
    BY DEF UsageWithinQuota
  <2>1. Counted(w) = {}
    BY DEF Init, Counted, FilesOf, Exists
  <2>2. QED
    BY <2>1, BytesAssumption, LedgerAssumption DEF Usage
<1>2. PromptIInv /\ UsageWithinQuota /\ [Next]_vars => UsageWithinQuota'
  BY Prompt, UsageStep
<1>3. QED
  BY <1>1, <1>2, PromptInductive, Prompt, PTL DEF Spec

-----------------------------------------------------------------------------

\* A deletion that has begun goes on to the row: a call that fails between the
\* two leaves a row that is listed without its bytes.
DeletionsEnd == Faults \cap {"purge", "db", "ack", "crash"} = {}

\* An upload has stored its bytes before its transaction, and an upload that is
\* undone has no row.
UploadsStored ==
  \A p \in Handlers :
    /\ req[p].at \in {"check", "commit"} => req[p].file \in objects
    /\ At(p, "undo") => status[req[p].file] = "none"

\* What a list may show has its bytes, or is about to go.
BytesKept ==
  \A f \in Files : Exists(f) /\ ~Expired(f) => f \in objects \/ BeingDeleted(f)

\* Bytes are destroyed only of what is gone, is being deleted or is undone.
LEMMA Destroyed ==
  ASSUME DeletionsEnd, PromptIInv, Next, NEW f \in Files, f \in objects, f \notin objects'
  PROVE  \/ Gone(f)
         \/ \E p \in Handlers : req[p].at = "purgeObject" /\ req[p].file = f /\ BeingDeleted(f)'
         \/ \E p \in Handlers : req[p].at = "adminObject" /\ req[p].file = f /\ BeingDeleted(f)'
         \/ \E p \in Handlers : UploadUndo(p) /\ req[p].file = f
<1>0. req \in [Handlers -> Request]
  BY DEF PromptIInv, IInv, TypeOK
<1>1. ASSUME NEW p \in Handlers, RequestStep(p)
      PROVE  \/ UploadUndo(p) /\ req[p].file = f
             \/ /\ req[p].at \in {"purgeObject", "adminObject"} /\ req[p].file = f
                /\ BeingDeleted(f)'
  <2>1. UploadUndo(p) \/ PurgeObject(p) \/ AdminObject(p)
    BY <1>1 DEF RequestStep, UploadBegin, RestoreBegin, RemoveBegin, PurgeBegin, AdminBegin,
       Begin, UploadPut, UploadPutThrows, UploadCheck, UploadCommit, UploadTxThrows,
       RestoreCheck, RestoreCommit, RemoveCommit, DeleteRow, RowThrows, CrashRequest
  <2>2. CASE UploadUndo(p)
    BY <2>2 DEF UploadUndo, DeleteThrows
  <2>3. CASE PurgeObject(p)
    <3>1. objects' = objects \ {req[p].file} /\ Goto(p, "purgeRow") /\ At(p, "purgeObject")
      BY <2>3 DEF PurgeObject, DeleteThrows, DeletionsEnd
    <3>2. req'[p].at = "purgeRow" /\ req'[p].file = req[p].file
      BY <1>0, <3>1 DEF Goto, Request
    <3>3. QED
      BY <3>1, <3>2 DEF At, BeingDeleted
  <2>4. CASE AdminObject(p)
    <3>1. /\ objects \ {req[p].file} \subseteq objects'
          /\ Goto(p, "adminRow") /\ At(p, "adminObject")
      BY <2>4 DEF AdminObject, DeleteThrows
    <3>2. req'[p].at = "adminRow" /\ req'[p].file = req[p].file
      BY <1>0, <3>1 DEF Goto, Request
    <3>3. QED
      BY <3>1, <3>2 DEF At, BeingDeleted
  <2>5. QED
    BY <2>1, <2>2, <2>3, <2>4
<1>2. ASSUME NEW i \in Sweepers, SweepStep(i) \/ CrashSweep(i) PROVE Gone(f)
  <2>1. PICK g \in Files : SweepObject(i, g) \/ SweepObjectThrows(i, g)
    BY <1>2 DEF SweepStep, SweepStart, SweepQuery, SweepRow, CrashSweep
  <2>2. g \in sweep[i].batch /\ objects \ {g} \subseteq objects'
    BY <2>1 DEF SweepObject, SweepObjectThrows, DeleteThrows
  <2>3. QED
    BY <2>2 DEF PromptIInv, SweptGone
<1>3. ~Tick /\ \A w \in Workspaces : ~DeleteWorkspace(w)
  BY DEF Tick, DeleteWorkspace
<1>4. QED
  BY <1>1, <1>2, <1>3 DEF Next

\* A deletion of a row ends with the row.
LEMMA DeletionGoesOn ==
  ASSUME DeletionsEnd, PromptIInv, Next, NEW f \in Files, BeingDeleted(f), ~BeingDeleted(f)'
  PROVE  ~Exists(f)'
<1>0. /\ TypeOK /\ req \in [Handlers -> Request] /\ sweep \in [Sweepers -> Sweep]
      /\ status \in [Files -> Status] /\ f # NoFile
  BY StoreAssumption DEF PromptIInv, IInv, TypeOK, RowsOK
<1>1. ASSUME NEW p \in Handlers, req[p].at \in {"purgeRow", "adminRow"}, req[p].file = f
      PROVE  ~Exists(f)'
  <2>1. ~(req'[p].at \in {"purgeRow", "adminRow"} /\ req'[p].file = f)
    BY DEF BeingDeleted
  <2>2. ASSUME NEW q \in Handlers, RequestStep(q) PROVE q = p
    <3>1. \A r \in Handlers \ {q} : req'[r] = req[r]
      BY <1>0, <2>2, RequestMoves
    <3>2. QED
      BY <1>1, <2>1, <3>1
  <2>3. ASSUME RequestStep(p) PROVE DeleteRow(p)
    BY <1>1, <2>3 DEF RequestStep, UploadBegin, RestoreBegin, RemoveBegin, PurgeBegin,
       AdminBegin, Begin, At, UploadPut, UploadPutThrows, UploadCheck, UploadCommit,
       UploadTxThrows, UploadUndo, RestoreCheck, RestoreCommit, RemoveCommit, PurgeObject,
       AdminObject, RowThrows, CrashRequest, DeletionsEnd
  <2>4. ASSUME DeleteRow(p) PROVE ~Exists(f)'
    BY <1>0, <1>1, <2>4 DEF DeleteRow, UpdateRow, Exists, rows
  <2>5. req' # req
    BY <1>1, <2>1
  <2>6. ~Tick
    BY <1>0, <1>1, <2>1 DEF Tick, At, Request
  <2>7. QED
    BY <2>2, <2>3, <2>4, <2>5, <2>6, OthersKeepRequests DEF Next
<1>2. ASSUME NEW i \in Sweepers, sweep[i].file = f PROVE ~Exists(f)'
  <2>1. sweep'[i].file # f /\ sweep[i].at = "row" /\ sweep' # sweep
    BY <1>0, <1>2 DEF BeingDeleted, TypeOK
  <2>2. ASSUME NEW j \in Sweepers, SweepStep(j) \/ CrashSweep(j) PROVE j = i
    <3>1. \A k \in Sweepers \ {j} : sweep'[k] = sweep[k]
      BY <1>0, <2>2 DEF SweepStep, SweepStart, SweepQuery, SweepObject, SweepObjectThrows,
         SweepRow, CrashSweep, AfterFile
    <3>2. QED
      BY <1>2, <2>1, <3>1
  <2>3. ASSUME SweepStep(i) \/ CrashSweep(i) PROVE SweepRow(i)
    BY <2>1, <2>3 DEF SweepStep, SweepStart, SweepQuery, SweepObject, SweepObjectThrows,
       CrashSweep, DeletionsEnd
  <2>4. ASSUME SweepRow(i) PROVE ~Exists(f)'
    BY <1>0, <1>2, <2>4 DEF SweepRow, UpdateRow, Exists, rows, DeletionsEnd
  <2>5. ASSUME NEW q \in Handlers PROVE ~RequestStep(q)
    BY <2>1, RequestsKeepSweeps
  <2>6. QED
    BY <2>1, <2>2, <2>3, <2>4, <2>5 DEF Next, DeleteWorkspace, Tick
<1>3. QED
  BY <1>1, <1>2 DEF BeingDeleted

\* How an upload comes to have stored its bytes, or to be undone; the insert that
\* sends it to be undone has failed.
LEMMA UploadMoves ==
  ASSUME DeletionsEnd, TypeOK, Next, NEW p \in Handlers,
         req'[p].at \in {"check", "commit", "undo"}
  PROVE  \/ UploadPut(p) /\ req'[p].at = "check"
         \/ /\ req[p].at \in {"check", "commit", "undo"} /\ req'[p].file = req[p].file
            /\ req'[p].at # "undo" => req[p].at # "undo"
            /\ req'[p].at = "undo" /\ req[p].at = "commit" => status' = status
<1> USE DEF TypeOK, Request, At, Goto, Done, Idle
<1>1. ASSUME RequestStep(p)
      PROVE  UploadPut(p) \/ UploadCheck(p) \/ UploadCommit(p)
  <2>1. ASSUME NEW f \in Files,
               UploadBegin(p, f) \/ RestoreBegin(p, f) \/ RemoveBegin(p, f)
               \/ PurgeBegin(p, f) \/ AdminBegin(p, f)
        PROVE  FALSE
    BY <2>1 DEF UploadBegin, RestoreBegin, RemoveBegin, PurgeBegin, AdminBegin, Begin
  <2>2. ~UploadPutThrows(p) /\ ~UploadTxThrows(p) /\ ~UploadUndo(p)
    BY DEF UploadPutThrows, UploadTxThrows, UploadUndo, DeletionsEnd
  <2>3. ~(RestoreCheck(p) \/ RestoreCommit(p) \/ RemoveCommit(p) \/ PurgeObject(p)
          \/ AdminObject(p) \/ DeleteRow(p) \/ RowThrows(p) \/ CrashRequest(p))
    BY DEF RestoreCheck, RestoreCommit, RemoveCommit, PurgeObject, AdminObject, DeleteRow,
       RowThrows, CrashRequest
  <2>4. QED
    BY <1>1, <2>1, <2>2, <2>3 DEF RequestStep
<1>2. CASE UploadPut(p)
  BY <1>2 DEF UploadPut
<1>3. CASE UploadCheck(p)
  BY <1>3 DEF UploadCheck
<1>4. CASE UploadCommit(p)
  BY <1>4 DEF UploadCommit, rows
<1>5. CASE req'[p] = req[p]
  BY <1>5
<1>6. CASE Tick
  BY <1>6 DEF Tick
<1>7. ASSUME NEW q \in Handlers, q # p, RequestStep(q) PROVE req'[p] = req[p]
  BY <1>7, RequestMoves
<1>8. QED
  BY <1>1, <1>2, <1>3, <1>4, <1>5, <1>6, <1>7, OthersKeepRequests DEF Next

\* A row that appears is that of an upload about to commit.
LEMMA RowAppears ==
  ASSUME PromptIInv, Next, NEW f \in Files, status[f] = "none", status'[f] # "none"
  PROVE  \E p \in Handlers : At(p, "commit") /\ req[p].file = f
<1>1. ASSUME NEW g \in Files, Ledger!Trash(g) \/ Ledger!Delete(g) PROVE FALSE
  BY <1>1, LedgerReads DEF Ledger!Trash, Ledger!Delete, Ledger!SetRow, Exists, PromptIInv,
     IInv, TypeOK, RowsOK
<1>2. ASSUME NEW w \in Workspaces, Ledger!DeleteWorkspace(w) PROVE FALSE
  BY <1>2, LedgerReads DEF Ledger!DeleteWorkspace, Exists
<1>3. PICK p \in Handlers : /\ Committing(p)
                            /\ Ledger!Create(req[p].file) \/ Ledger!Restore(req[p].file)
  BY <1>1, <1>2, RowEffect DEF PromptIInv, RowsUntouched, Ledger!Tick
<1>4. req[p].file = f
  BY <1>3 DEF Ledger!Create, Ledger!Restore, Ledger!SetRow, PromptIInv, IInv, TypeOK, RowsOK
<1>5. ~At(p, "restoreCommit")
  BY <1>4 DEF PromptIInv, ReadersHaveRows, UploadSteps, At
<1>6. QED
  BY <1>3, <1>4, <1>5 DEF Committing, At

\* Every step keeps the bytes of uploads under way.
LEMMA UploadsStoredStep ==
  ASSUME DeletionsEnd, PromptIInv, UploadsStored, [Next]_vars
  PROVE  UploadsStored'
<1>0. /\ TypeOK /\ UploadsFresh /\ req \in [Handlers -> Request]
      /\ objects \in SUBSET Files
      /\ \A p \in Handlers : req[p].at # "idle" => req[p].file \in Files
  BY Facts DEF PromptIInv, IInv, TypeOK
<1>1. CASE UNCHANGED vars
  BY <1>1 DEF vars, UploadsStored, At
<1>2. ASSUME Next, NEW p \in Handlers,
             /\ req'[p].at \in {"check", "commit"}
             /\ req[p].at \in {"check", "commit"} /\ req'[p].file = req[p].file
      PROVE  req'[p].file \in objects'
  <2> DEFINE f == req[p].file
  <2>1. f \in Files /\ f \in objects /\ status[f] = "none"
    BY <1>0, <1>2 DEF UploadsStored, UploadsFresh
  <2>2. SUFFICES ASSUME f \notin objects' PROVE FALSE
    BY <1>2
  <2>3. ~Gone(f) /\ \A q \in Handlers : req[q].at \in {"purgeObject", "adminObject"}
                                           => req[q].file # f
    BY <2>1 DEF Gone, Expired, PromptIInv, ReadersHaveRows, UploadSteps
  <2>4. PICK q \in Handlers : UploadUndo(q) /\ req[q].file = f
    BY <1>2, <2>1, <2>2, <2>3, Destroyed
  <2>5. q = p
    BY <1>0, <1>2, <2>4 DEF UploadUndo, At, UploadsFresh, UploadSteps
  <2>6. QED
    BY <1>2, <2>4, <2>5 DEF UploadUndo, At
<1>3. ASSUME Next, NEW p \in Handlers, UploadPut(p)
      PROVE  req'[p].file \in objects'
  BY <1>0, <1>3 DEF UploadPut, Goto, Request
<1>4. ASSUME Next, NEW p \in Handlers, At(p, "undo")', req[p].at \in {"check", "commit", "undo"},
             req'[p].file = req[p].file
      PROVE  status'[req'[p].file] = "none"
  <2> DEFINE f == req[p].file
  <2>1. f \in Files /\ status[f] = "none"
    BY <1>0, <1>4 DEF UploadsStored, UploadsFresh, At
  <2>2. SUFFICES ASSUME status'[f] # "none" PROVE FALSE
    BY <1>4
  <2>3. PICK q \in Handlers : At(q, "commit") /\ req[q].file = f
    BY <1>4, <2>1, <2>2, RowAppears
  <2>4. q = p
    BY <1>0, <1>4, <2>3 DEF UploadsFresh, UploadSteps, At
  <2>5. QED
    BY <1>0, <1>4, <2>1, <2>2, <2>3, <2>4, UploadMoves DEF UploadPut, At
<1>5. CASE Next
  <2>1. ASSUME NEW p \in Handlers, req'[p].at \in {"check", "commit", "undo"}
        PROVE  \/ UploadPut(p) /\ req'[p].at = "check"
               \/ /\ req[p].at \in {"check", "commit", "undo"} /\ req'[p].file = req[p].file
                  /\ req'[p].at # "undo" => req[p].at # "undo"
    BY <1>0, <1>5, <2>1, UploadMoves
  <2>2. QED
    BY <1>2, <1>3, <1>4, <1>5, <2>1 DEF UploadsStored, At
<1>6. QED
  BY <1>1, <1>5

\* Every step keeps the bytes of what a list may show.
LEMMA BytesStep ==
  ASSUME Prompt, DeletionsEnd, PromptIInv, UploadsStored, BytesKept, [Next]_vars
  PROVE  BytesKept'
<1>1. CASE UNCHANGED vars
  BY <1>1 DEF vars, BytesKept, Exists, Expired, BeingDeleted
<1>2. CASE Next
  <2>1. SUFFICES ASSUME NEW f \in Files, Exists(f)', ~Expired(f)',
                        f \notin objects', ~BeingDeleted(f)'
                 PROVE  FALSE
    BY DEF BytesKept
  <2>2. IInv /\ RestoresRecent /\ UploadsFresh /\ status[f] \in Status
    BY DEF PromptIInv, IInv, TypeOK, RowsOK
  <2>3. ~Gone(f)
    <3>1. ~Gone(f)'
      BY <2>1 DEF Gone, Exists
    <3>2. QED
      BY <1>2, <2>2, <3>1, Prompt, GoneStays
  <2>4. ASSUME f \in objects PROVE \E p \in Handlers : At(p, "undo") /\ req[p].file = f
    BY <1>2, <2>1, <2>3, <2>4, Destroyed DEF UploadUndo
  <2>5. CASE status[f] = "none"
    <3>1. PICK p \in Handlers : At(p, "commit") /\ req[p].file = f
      BY <1>2, <2>1, <2>5, RowAppears DEF Exists
    <3>2. f \in objects
      BY <3>1 DEF UploadsStored, At
    <3>3. PICK q \in Handlers : At(q, "undo") /\ req[q].file = f
      BY <2>4, <3>2
    <3>4. p = q
      BY <2>2, <3>1, <3>3 DEF UploadsFresh, UploadSteps, At
    <3>5. QED
      BY <3>1, <3>3, <3>4 DEF At
  <2>6. CASE status[f] # "none"
    <3>1. Exists(f) /\ ~Expired(f)
      BY <2>2, <2>3, <2>6 DEF Gone, Exists, Status
    <3>2. f \notin objects
      BY <2>4, <2>6 DEF UploadsStored
    <3>3. BeingDeleted(f)
      BY <3>1, <3>2 DEF BytesKept
    <3>4. QED
      BY <1>2, <2>1, <3>3, DeletionGoesOn
  <2>7. QED
    BY <2>5, <2>6
<1>3. QED
  BY <1>1, <1>2

\* Nobody can list, restore or download a file without bytes, but while it is
\* being deleted: the sweep may fail on an object or on its row and leave such a
\* row behind, and it can no longer be seen (purge, remove, sweep).
THEOREM ListedFilesHaveBytes ==
  ASSUME Prompt, DeletionsEnd
  PROVE  Spec => []ListedHasBytes
<1>1. Init => UploadsStored /\ BytesKept
  BY DEF Init, UploadsStored, BytesKept, Idle, At, Exists
<1>2. PromptIInv /\ UploadsStored /\ BytesKept /\ [Next]_vars => (UploadsStored /\ BytesKept)'
  BY Prompt, DeletionsEnd, UploadsStoredStep, BytesStep
<1>3. PromptIInv /\ BytesKept => ListedHasBytes
  <2> SUFFICES ASSUME PromptIInv, BytesKept, NEW w \in Workspaces,
                      NEW f \in List(w) \cup ListTrash(w)
                                \cup {g \in FilesOf(w) : GetDownloadUrl(g)}
               PROVE  f \in objects \/ BeingDeleted(f)
    BY DEF ListedHasBytes
  <2>1. RowsOK
    BY DEF PromptIInv, IInv, TypeOK
  <2>2. f \in Files /\ Exists(f) /\ ~Expired(f)
    BY <2>1, LedgerAssumption DEF List, ListTrash, FilesOf, GetDownloadUrl, Exists, Expired, RowsOK
  <2>3. QED
    BY <2>2 DEF BytesKept
<1>4. QED
  BY <1>1, <1>2, <1>3, PromptInductive, Prompt, PTL DEF Spec

-----------------------------------------------------------------------------
(* The lock of the sweep *)

\* The session that holds the lock has taken it at least once for every job
\* that runs, and it is a session of the instance they run on: an unlock that
\* lands on another session only leaves it taken more often.
TakenForAll ==
  /\ Cardinality(Running) <= depth
  /\ \A j \in Running : holder \in Pool(j)

LockIInv == LockTypeOK /\ TakenForAll

-----------------------------------------------------------------------------

\* Whatever jobs run, there are finitely many of them.
LEMMA RunningFinite ==
  IsFiniteSet(Running) /\ Cardinality(Running) \in Nat
BY LockAssumption, FS_Subset, FS_CardinalityType DEF Running

\* Jobs are told apart as running by what they do.
LEMMA RunningSame ==
  ASSUME LockTypeOK, NEW j \in Jobs, NEW what \in {"sweeping", "unlocking"},
         job[j] # "idle", job' = [job EXCEPT ![j] = what]
  PROVE  Running' = Running
BY DEF Running, LockTypeOK

\* Initially nothing holds the lock and no job runs.
LEMMA InitLock == LockInit => LockIInv
<1> SUFFICES ASSUME LockInit PROVE LockIInv
  OBVIOUS
<1>1. Running = {}
  BY DEF LockInit, Running
<1>2. Cardinality(Running) = 0
  BY <1>1, FS_EmptySet
<1>3. LockTypeOK
  BY LockAssumption DEF LockInit, LockTypeOK
<1>4. QED
  BY <1>1, <1>2, <1>3 DEF LockIInv, TakenForAll, LockInit

\* Taking the lock: one job more, and the lock taken once more.
LEMMA TryLockStep ==
  ASSUME LockIInv, NEW j \in Jobs, NEW c \in Conns, TryLock(j, c)
  PROVE  LockIInv'
<1> USE LockAssumption DEF LockIInv, LockTypeOK
<1>1. Running' = Running \cup {j} /\ j \notin Running
  BY DEF TryLock, Running
<1>2. Cardinality(Running') = Cardinality(Running) + 1
  BY <1>1, RunningFinite, FS_AddElement
<1>3. LockTypeOK'
  BY DEF TryLock
<1>4. ASSUME NEW k \in Running' PROVE holder' \in Pool(k)
  <2>1. CASE k = j
    BY <2>1 DEF TryLock
  <2>2. CASE k # j
    <3>1. k \in Running /\ holder \in Pool(k)
      BY <2>2, <1>1 DEF TakenForAll
    <3>2. k \in Jobs /\ Pool(k) \subseteq Conns
      BY <3>1 DEF Running, Pool
    <3>3. QED
      BY <3>1, <3>2 DEF TryLock
  <2>3. QED
    BY <2>1, <2>2
<1>5. Pool(j)' = Pool(j) /\ \A k \in Jobs : Pool(k)' = Pool(k)
  BY DEF Pool
<1>6. Cardinality(Running') <= depth'
  BY <1>2, RunningFinite DEF TryLock, TakenForAll
<1>7. QED
  BY <1>3, <1>4, <1>5, <1>6 DEF TakenForAll, Running

\* Unlocking: one job less, and the lock taken once less at most.
LEMMA UnlockStep ==
  ASSUME LockIInv, NEW j \in Jobs, NEW c \in Conns, Unlock(j, c)
  PROVE  LockIInv'
<1> USE LockAssumption DEF LockIInv, LockTypeOK
<1>1. Running' = Running \ {j} /\ j \in Running
  BY DEF Unlock, Running
<1>2. Cardinality(Running') = Cardinality(Running) - 1
  BY <1>1, RunningFinite, FS_RemoveElement
<1>3. IsFiniteSet(Running') /\ Cardinality(Running') \in Nat
  BY <1>1, RunningFinite, FS_RemoveElement, FS_CardinalityType
<1>4. depth \in Nat /\ depth >= 1 /\ holder # NoConn
  BY <1>2, <1>3, RunningFinite DEF TakenForAll
<1>5. LockTypeOK'
  BY <1>4 DEF Unlock
<1>6. Cardinality(Running') <= depth'
  BY <1>2, <1>3, <1>4, RunningFinite DEF Unlock, TakenForAll
<1>7. ASSUME NEW k \in Running' PROVE holder' \in Pool(k)
  <2>1. depth' # 0
    BY <1>3, <1>5, <1>6, FS_EmptySet
  <2>2. holder' = holder
    BY <2>1, <1>4 DEF Unlock
  <2>3. QED
    BY <2>2, <1>1 DEF TakenForAll
<1>8. QED
  BY <1>5, <1>6, <1>7 DEF TakenForAll, Pool, Running

\* The end of a sweep: the job still runs until it has unlocked.
LEMMA EndSweepStep ==
  ASSUME LockIInv, NEW j \in Jobs, EndSweep(j)
  PROVE  LockIInv'
<1>1. Running' = Running
  BY RunningSame DEF EndSweep, LockIInv
<1>2. LockTypeOK'
  BY DEF EndSweep, LockIInv, LockTypeOK
<1>3. QED
  BY <1>1, <1>2 DEF LockIInv, TakenForAll, EndSweep, Pool

\* A process that dies takes its jobs and its sessions along; the jobs that are
\* left run on another instance, whose sessions are none of its own.
LEMMA CrashStep ==
  ASSUME LockIInv, NEW i \in Instances, Crash(i)
  PROVE  LockIInv'
<1> USE LockAssumption DEF LockIInv, LockTypeOK
<1>1. LockTypeOK'
  BY DEF Crash
<1>2. Running' = {j \in Running : InstanceOf[j] # i}
  BY DEF Crash, Running
<1>3. Running' \in SUBSET Running
  BY <1>2
<1>4. Cardinality(Running') <= Cardinality(Running) /\ Cardinality(Running') \in Nat
  BY <1>3, RunningFinite, FS_Subset, FS_CardinalityType
<1>5. CASE holder \notin PoolOf[i]
  <2>1. UNCHANGED <<holder, depth>>
    BY <1>5 DEF Crash
  <2>2. QED
    BY <1>1, <1>3, <1>4, <2>1, RunningFinite DEF TakenForAll, Pool
<1>6. CASE holder \in PoolOf[i]
  <2>1. ASSUME NEW k \in Running' PROVE FALSE
    <3>1. k \in Jobs /\ InstanceOf[k] # i /\ holder \in PoolOf[InstanceOf[k]]
      BY <1>2 DEF TakenForAll, Pool, Running
    <3>2. QED
      BY <3>1, <1>6
  <2>2. Running' = {}
    BY <2>1
  <2>3. Cardinality(Running') = 0
    BY <2>2, FS_EmptySet
  <2>4. QED
    BY <1>1, <1>6, <2>2, <2>3 DEF TakenForAll, Crash
<1>7. QED
  BY <1>5, <1>6

\* Every step preserves the inductive invariant.
LEMMA LockStep == LockIInv /\ [LockNext]_lockVars => LockIInv'
<1> SUFFICES ASSUME LockIInv, [LockNext]_lockVars PROVE LockIInv'
  OBVIOUS
<1>1. CASE UNCHANGED lockVars
  BY <1>1 DEF lockVars, LockIInv, LockTypeOK, TakenForAll, Running, Pool
<1>2. CASE LockNext
  BY <1>2, TryLockStep, UnlockStep, EndSweepStep, CrashStep DEF LockNext
<1>3. QED
  BY <1>1, <1>2

\* The inductive invariant keeps the instances apart: the holder belongs to
\* one pool only.
LEMMA LockExcludes == LockIInv => InstancesExclude
<1> SUFFICES ASSUME LockIInv, NEW j \in Running, NEW k \in Running
             PROVE  InstanceOf[j] = InstanceOf[k]
  BY DEF InstancesExclude
<1>1. j \in Jobs /\ k \in Jobs
  BY DEF Running
<1>2. holder \in PoolOf[InstanceOf[j]] \cap PoolOf[InstanceOf[k]]
  BY DEF LockIInv, TakenForAll, Pool
<1>3. QED
  BY <1>1, <1>2, LockAssumption

\* The type invariant of the sweep's lock.
THEOREM LockTypeCorrect == LockSpec => []LockTypeOK
<1>1. LockIInv => LockTypeOK
  BY DEF LockIInv
<1>2. QED
  BY <1>1, InitLock, LockStep, PTL DEF LockSpec

\* Two instances never sweep at once, as long as their connections stay open
\* (sweepExpiredTrash).
THEOREM OneInstanceSweeps == LockSpec => []InstancesExclude
BY InitLock, LockStep, LockExcludes, PTL DEF LockSpec
=============================================================================
