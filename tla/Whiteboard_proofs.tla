-------------------------- MODULE Whiteboard_proofs --------------------------
(* Proofs about the whiteboard, and about what is seen of it from its room. *)
EXTENDS WhiteboardRoom, TLAPS

USE DEF BoardPresented

\* The steps of Next, without the history variable.
Step ==
  \/ \E p \in Handlers :
       \/ \E s \in Scenes : UpdateBegin(p, s) \/ SaveBegin(p, s) \/ RestoreBegin(p, s)
       \/ PresentBegin(p) \/ DeleteBegin(p)
       \/ HandlerStep(p)
  \/ \E s \in Scenes : CreateVersion(s)
  \/ \E w \in Writers : WriterStep(w)
  \/ PresentOther
  \/ Tick

\* Every step is one of an operation or the death of the process.
LEMMA NextCases ==
  Next => \/ Step /\ disturbed' = (disturbed \/ Overlap')
          \/ Die /\ disturbed' = TRUE
BY DEF Next, Step, Tracked, Death, Crash, LandRejected

\* Every step preserves the type invariant.
LEMMA TypeStep == TypeOK /\ [Next]_vars => TypeOK'
<1> SUFFICES ASSUME TypeOK, [Next]_vars PROVE TypeOK'
  OBVIOUS
<1> USE BoardAssumption DEF TypeOK, At, Goto, Done, Begin, Idle, SceneSteps, memory, Off, Exists
<1>1. disturbed' \in BOOLEAN
  BY NextCases DEF vars, Overlap
<1>2. ASSUME NEW p \in Handlers, NEW s \in Scenes, UpdateBegin(p, s) PROVE TypeOK'
  BY <1>1, <1>2 DEF UpdateBegin
<1>3. ASSUME NEW p \in Handlers, NEW s \in Scenes, SaveBegin(p, s) PROVE TypeOK'
  BY <1>1, <1>3 DEF SaveBegin
<1>4. ASSUME NEW p \in Handlers, NEW s \in Scenes, RestoreBegin(p, s) PROVE TypeOK'
  BY <1>1, <1>4 DEF RestoreBegin
<1>5. ASSUME NEW p \in Handlers, PresentBegin(p) PROVE TypeOK'
  BY <1>1, <1>5 DEF PresentBegin
<1>6. ASSUME NEW p \in Handlers, DeleteBegin(p) PROVE TypeOK'
  BY <1>1, <1>6 DEF DeleteBegin
<1>7. ASSUME NEW p \in Handlers, Update(p) PROVE TypeOK'
  BY <1>1, <1>7 DEF Update, Schedule
<1>8. ASSUME NEW p \in Handlers, Save(p) PROVE TypeOK'
  BY <1>1, <1>8 DEF Save, Put
<1>9. ASSUME NEW p \in Handlers, ReadCurrent(p) PROVE TypeOK'
  BY <1>1, <1>9 DEF ReadCurrent
<1>10. ASSUME NEW p \in Handlers, Snapshot(p) PROVE TypeOK'
  BY <1>1, <1>10 DEF Snapshot
<1>11. ASSUME NEW p \in Handlers, Restore(p) PROVE TypeOK'
  BY <1>1, <1>11 DEF Restore, Put
<1>12. ASSUME NEW p \in Handlers, Present(p) PROVE TypeOK'
  BY <1>1, <1>12 DEF Present
<1>13. ASSUME NEW p \in Handlers, DeleteRow(p) PROVE TypeOK'
  BY <1>1, <1>13 DEF DeleteRow
<1>14. ASSUME NEW p \in Handlers, ForgetPresented(p) PROVE TypeOK'
  BY <1>1, <1>14 DEF ForgetPresented
<1>15. ASSUME NEW s \in Scenes, CreateVersion(s) PROVE TypeOK'
  BY <1>1, <1>15 DEF CreateVersion
<1>16. ASSUME NEW w \in Writers, WriterStep(w) PROVE TypeOK'
  BY <1>1, <1>16 DEF WriterStep, Fire, Land
<1>17. CASE Tick
  BY <1>1, <1>17 DEF Tick
<1>18. CASE Die
  <2>1. stored' \in Scenes \cup {NoScene}
    BY <1>18 DEF Die, Landing
  <2>2. QED
    BY <1>1, <1>18, <2>1 DEF Die
<1>19. CASE UNCHANGED vars
  BY <1>19 DEF vars
<1>20. CASE PresentOther
  BY <1>1, <1>20 DEF PresentOther
<1>21. QED
  BY <1>2, <1>3, <1>4, <1>5, <1>6, <1>7, <1>8, <1>9, <1>10, <1>11, <1>12, <1>13,
     <1>14, <1>15, <1>16, <1>17, <1>18, <1>19, <1>20, NextCases DEF Step, HandlerStep

\* The initial states are well typed.
LEMMA InitType == Init => TypeOK
<1> SUFFICES ASSUME Init PROVE TypeOK
  OBVIOUS
<1>1. \A p \in Handlers : req[p] = [at |-> "idle", scene |-> NoScene, current |-> NoScene]
  BY DEF Init, Idle
<1>2. \A p \in Handlers : /\ req[p].at \in SceneSteps <=> req[p].scene # NoScene
                         /\ At(p, "snapshot") => req[p].current # NoScene
  BY <1>1 DEF At, SceneSteps
<1>3. pending = NoScene /\ timer = Off
  BY DEF Init
<1>4. req \in [Handlers ->
        [at : {"idle", "update", "save", "current", "snapshot", "restore",
               "present", "delete", "deleted"},
         scene : Scenes \cup {NoScene}, current : Scenes \cup {NoScene}]]
  BY DEF Init, Idle
<1>5. /\ stored \in Scenes \cup {NoScene} /\ versions \in SUBSET Scenes
      /\ writes \in [Writers -> Scenes \cup {NoScene}] /\ presented \in BOOLEAN
      /\ latest \in Scenes /\ disturbed \in BOOLEAN
  BY DEF Init
<1>6. QED
  BY <1>1, <1>2, <1>3, <1>4, <1>5, BoardAssumption DEF TypeOK, At, SceneSteps, Off

\* The type invariant of the whiteboard.
THEOREM BoardTypeCorrect == Spec => []TypeOK
BY InitType, TypeStep, PTL DEF Spec

-----------------------------------------------------------------------------

\* What the history variable stands for between two undisturbed states.
LEMMA Undisturbed ==
  ASSUME [Next]_vars, ~disturbed'
  PROVE  \/ Step /\ ~disturbed /\ ~Overlap'
         \/ UNCHANGED vars
BY NextCases DEF Overlap

\* Every step but a death keeps the undisturbed part of the invariant.
LEMMA SafeStep ==
  ASSUME TypeOK, TypeOK', LatestSomewhere, NoDeadBoard, PresentsLiving,
         Step, ~disturbed, ~disturbed', ~Overlap'
  PROVE  LatestSomewhere' /\ NoDeadBoard' /\ PresentsLiving'
<1> USE BoardAssumption
    DEF TypeOK, LatestSomewhere, NoDeadBoard, PresentsLiving, Overlap, Landing, Storing,
        At, Goto, Done, Begin, Idle, SceneSteps, memory, Off, Exists
<1>2. ASSUME NEW p \in Handlers, NEW s \in Scenes, UpdateBegin(p, s)
      PROVE LatestSomewhere' /\ NoDeadBoard' /\ PresentsLiving'
  BY <1>2 DEF UpdateBegin
<1>3. ASSUME NEW p \in Handlers, NEW s \in Scenes, SaveBegin(p, s)
      PROVE LatestSomewhere' /\ NoDeadBoard' /\ PresentsLiving'
  BY <1>3 DEF SaveBegin
<1>4. ASSUME NEW p \in Handlers, NEW s \in Scenes, RestoreBegin(p, s)
      PROVE LatestSomewhere' /\ NoDeadBoard' /\ PresentsLiving'
  BY <1>4 DEF RestoreBegin
<1>5. ASSUME NEW p \in Handlers, PresentBegin(p)
      PROVE LatestSomewhere' /\ NoDeadBoard' /\ PresentsLiving'
  BY <1>5 DEF PresentBegin
<1>6. ASSUME NEW p \in Handlers, DeleteBegin(p)
      PROVE LatestSomewhere' /\ NoDeadBoard' /\ PresentsLiving'
  BY <1>6 DEF DeleteBegin
<1>7. ASSUME NEW p \in Handlers, Update(p)
      PROVE LatestSomewhere' /\ NoDeadBoard' /\ PresentsLiving'
  BY <1>7 DEF Update, Schedule
<1>8. ASSUME NEW p \in Handlers, Save(p)
      PROVE LatestSomewhere' /\ NoDeadBoard' /\ PresentsLiving'
  BY <1>8 DEF Save, Put
<1>9. ASSUME NEW p \in Handlers, ReadCurrent(p)
      PROVE LatestSomewhere' /\ NoDeadBoard' /\ PresentsLiving'
  BY <1>9 DEF ReadCurrent
<1>10. ASSUME NEW p \in Handlers, Snapshot(p)
      PROVE LatestSomewhere' /\ NoDeadBoard' /\ PresentsLiving'
  BY <1>10 DEF Snapshot
<1>11. ASSUME NEW p \in Handlers, Restore(p)
      PROVE LatestSomewhere' /\ NoDeadBoard' /\ PresentsLiving'
  BY <1>11 DEF Restore, Put
<1>12. ASSUME NEW p \in Handlers, Present(p)
      PROVE LatestSomewhere' /\ NoDeadBoard' /\ PresentsLiving'
  BY <1>12 DEF Present
<1>13. ASSUME NEW p \in Handlers, DeleteRow(p)
      PROVE LatestSomewhere' /\ NoDeadBoard' /\ PresentsLiving'
  BY <1>13 DEF DeleteRow
<1>14. ASSUME NEW p \in Handlers, ForgetPresented(p)
      PROVE LatestSomewhere' /\ NoDeadBoard' /\ PresentsLiving'
  BY <1>14 DEF ForgetPresented
<1>15. ASSUME NEW s \in Scenes, CreateVersion(s)
      PROVE LatestSomewhere' /\ NoDeadBoard' /\ PresentsLiving'
  BY <1>15 DEF CreateVersion
<1>16. ASSUME NEW w \in Writers, Fire(w)
      PROVE LatestSomewhere' /\ NoDeadBoard' /\ PresentsLiving'
  BY <1>16 DEF Fire
<1>17. ASSUME NEW w \in Writers, Land(w)
      PROVE LatestSomewhere' /\ NoDeadBoard' /\ PresentsLiving'
  BY <1>17 DEF Land
<1>18. CASE Tick
  BY <1>18 DEF Tick
<1>19. CASE PresentOther
  BY <1>19 DEF PresentOther
<1>20. QED
  BY <1>2, <1>3, <1>4, <1>5, <1>6, <1>7, <1>8, <1>9, <1>10, <1>11, <1>12, <1>13,
     <1>14, <1>15, <1>16, <1>17, <1>18, <1>19 DEF Step, HandlerStep, WriterStep

\* Every step preserves the inductive invariant; a death leaves it nothing to say.
LEMMA InvStep == IInv /\ [Next]_vars => IInv'
<1> SUFFICES ASSUME IInv, [Next]_vars PROVE IInv'
  OBVIOUS
<1>1. TypeOK /\ TypeOK'
  BY TypeStep DEF IInv
<1>2. CASE disturbed'
  BY <1>1, <1>2 DEF IInv, LatestSomewhere, NoDeadBoard, PresentsLiving
<1>3. CASE ~disturbed' /\ Step /\ ~disturbed /\ ~Overlap'
  BY <1>1, <1>3, SafeStep DEF IInv
<1>4. CASE UNCHANGED vars
  BY <1>1, <1>4 DEF IInv, vars, memory, LatestSomewhere, NoDeadBoard, PresentsLiving,
     Overlap, Landing, Storing, At, Exists
<1>5. QED
  BY <1>2, <1>3, <1>4, Undisturbed

\* The inductive invariant holds of the initial states.
LEMMA InitInv == Init => IInv
<1> SUFFICES ASSUME Init PROVE IInv
  OBVIOUS
<1>1. \A p \in Handlers : req[p].at = "idle"
  BY DEF Init, Idle
<1>2. \A w \in Writers : writes[w] = NoScene
  BY DEF Init
<1>3. ~Overlap
  BY <1>1, <1>2 DEF Overlap, Landing, Storing, At
<1>4. LatestSomewhere
  BY <1>1, <1>2, <1>3 DEF Init, LatestSomewhere, Landing, At
<1>5. NoDeadBoard /\ PresentsLiving
  BY <1>1 DEF Init, NoDeadBoard, PresentsLiving, At
<1>6. QED
  BY <1>4, <1>5, InitType DEF IInv

\* The inductive invariant: which of the pending, the written and the stored scene
\* is the latest, and who may present or restore.
THEOREM BoardInv == Spec => []IInv
BY InitInv, InvStep, PTL DEF Spec

\* Once nothing waits or is being written, the last scene given to the server is
\* the stored one, for any numbers of scenes, handlers, writes under way and any
\* debounce time.
THEOREM LatestIsStored == Spec => []LatestStored
<1>1. IInv => LatestStored
  BY DEF IInv, LatestSomewhere, LatestStored
<1>2. QED
  BY <1>1, BoardInv, PTL

\* Nobody is sent to a deleted board, but while its deletion is still under way.
THEOREM NobodyToDeadBoard == Spec => []NoDeadBoard
<1>1. IInv => NoDeadBoard
  BY DEF IInv
<1>2. QED
  BY <1>1, BoardInv, PTL

\* Only the restore's own last query takes it past that query.
LEMMA OnlyRestoreEnds ==
  ASSUME TypeOK, Step, NEW p \in Handlers, At(p, "restore"), ~At(p, "restore")'
  PROVE  Restore(p)
<1> USE DEF TypeOK, At, Goto, Done, Begin, Idle, memory
<1>1. ASSUME NEW q \in Handlers, req' = [req EXCEPT ![q] = req'[q]], ~At(q, "restore")
      PROVE  FALSE
  BY <1>1
<1>2. req' # req
  OBVIOUS
<1>3. ASSUME NEW q \in Handlers, NEW s \in Scenes,
             UpdateBegin(q, s) \/ SaveBegin(q, s) \/ RestoreBegin(q, s)
      PROVE  FALSE
  BY <1>1, <1>3 DEF UpdateBegin, SaveBegin, RestoreBegin
<1>4. ASSUME NEW q \in Handlers, PresentBegin(q) \/ DeleteBegin(q) PROVE FALSE
  BY <1>1, <1>4 DEF PresentBegin, DeleteBegin
<1>5. ASSUME NEW q \in Handlers, HandlerStep(q) PROVE Restore(p)
  <2>1. CASE Update(q) \/ Save(q)
    BY <1>1, <2>1 DEF Update, Save
  <2>2. CASE ReadCurrent(q) \/ Snapshot(q)
    BY <1>1, <2>2 DEF ReadCurrent, Snapshot
  <2>3. CASE Restore(q)
    BY <2>3 DEF Restore
  <2>4. CASE Present(q) \/ DeleteRow(q) \/ ForgetPresented(q)
    BY <1>1, <2>4 DEF Present, DeleteRow, ForgetPresented
  <2>5. QED
    BY <1>5, <2>1, <2>2, <2>3, <2>4 DEF HandlerStep
<1>6. ASSUME NEW s \in Scenes, CreateVersion(s) PROVE FALSE
  BY <1>2, <1>6 DEF CreateVersion
<1>7. ASSUME NEW w \in Writers, WriterStep(w) PROVE FALSE
  BY <1>2, <1>7 DEF WriterStep, Fire, Land
<1>8. ~Tick /\ ~PresentOther
  BY <1>2 DEF Tick, PresentOther
<1>9. QED
  BY <1>3, <1>4, <1>5, <1>6, <1>7, <1>8 DEF Step

\* A restore replaces only a scene that is in the history.
THEOREM RestoreIsUndoable == Spec => SnapshotFirst
<1> DEFINE Kept == \A p \in Handlers :
      At(p, "restore") /\ ~At(p, "restore")' /\ stored' # stored /\ ~disturbed'
        => stored \in versions'
<1>1. IInv /\ [Next]_vars => [Kept]_vars
  <2> SUFFICES ASSUME IInv, [Next]_vars, NEW p \in Handlers,
                      At(p, "restore"), ~At(p, "restore")', stored' # stored, ~disturbed'
               PROVE  stored \in versions'
    BY DEF Kept
  <2>1. Step /\ ~disturbed
    BY Undisturbed DEF vars
  <2>2. Exists => stored \in versions
    BY <2>1 DEF IInv, LatestSomewhere
  <2>3. Restore(p)
    BY <2>1, OnlyRestoreEnds DEF IInv
  <2>4. QED
    BY <2>2, <2>3 DEF Restore, Put
<1>2. QED
  BY <1>1, BoardInv, PTL DEF Spec, SnapshotFirst

-----------------------------------------------------------------------------
(* The room *)

\* What one person sees while nothing came between him and the latest scene: it
\* is on his screen, or the only one that is still to be announced.
SeesLatest ==
  ~disturbed /\ Exists /\ seat \in {"read", "in"} /\ ~behind =>
    IF restored = {} THEN screen = latest ELSE restored = {latest}

RoomIInv == IInv /\ SeesLatest

\* A step of the room is one of the board, or leaves the board alone.
LEMMA RoomRefines == RoomNext => [Next]_vars
<1> SUFFICES ASSUME RoomNext PROVE [Next]_vars
  OBVIOUS
<1>1. ASSUME NEW p \in Handlers,
             \/ Tracked(Update(p)) \/ Tracked(Save(p)) \/ Tracked(Restore(p))
             \/ Tracked(QuietStep(p))
      PROVE  Next
  BY <1>1 DEF Next, Tracked, QuietStep, HandlerStep
<1>2. ASSUME NEW w \in Writers, Tracked(WriterStep(w)) \/ Death(LandRejected(w))
      PROVE  Next
  BY <1>2 DEF Next
<1>3. ASSUME NEW s \in Scenes, Tracked(CreateVersion(s))
      PROVE  Next
  BY <1>3 DEF Next
<1>4. ASSUME Tracked(PresentOther) \/ Tracked(Tick) \/ Death(Crash)
      PROVE  Next
  BY <1>4 DEF Next
<1>5. QED
  BY <1>1, <1>2, <1>3, <1>4 DEF RoomNext

\* A deleted board does not come back, and what is not an update, a PATCH or a
\* restore leaves the latest scene as it is.
LEMMA OthersKeepLatest ==
  ASSUME \/ \E p \in Handlers : QuietStep(p)
         \/ \E w \in Writers : WriterStep(w)
         \/ \E s \in Scenes : CreateVersion(s)
         \/ PresentOther \/ Tick
  PROVE  latest' = latest /\ (Exists' => Exists)
<1>1. ASSUME NEW p \in Handlers, QuietStep(p)
      PROVE  latest' = latest /\ (Exists' => Exists)
  BY <1>1 DEF QuietStep, UpdateBegin, SaveBegin, RestoreBegin, PresentBegin, DeleteBegin,
     ReadCurrent, Snapshot, Present, DeleteRow, ForgetPresented, Exists
<1>2. ASSUME NEW w \in Writers, WriterStep(w)
      PROVE  latest' = latest /\ (Exists' => Exists)
  BY <1>2 DEF WriterStep, Fire, Land, Exists
<1>3. QED
  BY <1>1, <1>2 DEF CreateVersion, PresentOther, Tick, Exists

\* A step of the board that is sent to nobody and leaves the latest scene alone.
LEMMA UnseenStep ==
  ASSUME SeesLatest, UNCHANGED room, latest' = latest, Exists' => Exists,
         ~disturbed' => ~disturbed
  PROVE  SeesLatest'
BY DEF SeesLatest, room

\* The broadcast of an update puts the latest scene on the screen.
LEMMA UpdateSeen ==
  ASSUME SeesLatest, NEW p \in Handlers, Update(p), BroadcastUpdate(p)
  PROVE  SeesLatest'
BY DEF SeesLatest, Update, BroadcastUpdate

\* Nobody is told of a PATCH.
LEMMA SaveSeen ==
  ASSUME SeesLatest, SaveUnannounced
  PROVE  SeesLatest'
BY DEF SeesLatest, SaveUnannounced

\* The restored scene is the latest, and the one to announce.
LEMMA RestoreSeen ==
  ASSUME SeesLatest, NEW p \in Handlers, Restore(p), RestoreStored(p),
         ~disturbed' => ~disturbed
  PROVE  SeesLatest'
<1>1. CASE Exists
  BY <1>1 DEF SeesLatest, Restore, Put, RestoreStored
<1>2. CASE ~Exists
  BY <1>2 DEF SeesLatest, Restore, Put, RestoreStored, Exists
<1>3. QED
  BY <1>1, <1>2

\* The row is read when nothing is under way, or the reader is behind; and an
\* announcement reaches who is in the room.
LEMMA RoomStepSeen ==
  ASSUME IInv, SeesLatest, RoomStep, UNCHANGED vars
  PROVE  SeesLatest'
<1> USE DEF SeesLatest, vars, Exists
<1>1. CASE JoinBoard
  BY <1>1 DEF JoinBoard
<1>2. CASE ReadBoard
  <2>1. ~disturbed /\ ~Underway => stored = latest
    BY <1>2 DEF IInv, LatestSomewhere, Underway, ReadBoard
  <2>2. QED
    BY <1>2, <2>1 DEF ReadBoard, Underway
<1>3. CASE BoardState \/ HandleDisconnect
  BY <1>3 DEF BoardState, HandleDisconnect
<1>4. ASSUME NEW s \in restored, BroadcastRestored(s) PROVE SeesLatest'
  BY <1>4 DEF BroadcastRestored
<1>5. QED
  BY <1>1, <1>2, <1>3, <1>4 DEF RoomStep

\* Every step of the room keeps its inductive invariant.
LEMMA RoomInvStep == RoomIInv /\ [RoomNext]_roomVars => RoomIInv'
<1> SUFFICES ASSUME RoomIInv, [RoomNext]_roomVars PROVE RoomIInv'
  OBVIOUS
<1>1. IInv /\ SeesLatest
  BY DEF RoomIInv
<1>2. IInv'
  BY <1>1, RoomRefines, InvStep DEF roomVars
<1>3. SeesLatest'
  <2>1. CASE UNCHANGED roomVars
    BY <1>1, <2>1 DEF roomVars, room, vars, SeesLatest, Exists
  <2>2. ASSUME NEW p \in Handlers, Tracked(Update(p)) /\ BroadcastUpdate(p)
        PROVE  SeesLatest'
    BY <1>1, <2>2, UpdateSeen DEF Tracked
  <2>3. ASSUME NEW p \in Handlers, Tracked(Save(p)) /\ SaveUnannounced
        PROVE  SeesLatest'
    BY <1>1, <2>3, SaveSeen
  <2>4. ASSUME NEW p \in Handlers, Tracked(Restore(p)) /\ RestoreStored(p)
        PROVE  SeesLatest'
    BY <1>1, <2>4, RestoreSeen DEF Tracked
  <2>5. ASSUME UNCHANGED room,
               \/ \E p \in Handlers : Tracked(QuietStep(p))
               \/ \E w \in Writers : Tracked(WriterStep(w))
               \/ \E s \in Scenes : Tracked(CreateVersion(s))
               \/ Tracked(PresentOther) \/ Tracked(Tick)
        PROVE  SeesLatest'
    <3>1. latest' = latest /\ (Exists' => Exists)
      BY <2>5, OthersKeepLatest DEF Tracked
    <3>2. ~disturbed' => ~disturbed
      BY <2>5 DEF Tracked
    <3>3. QED
      BY <1>1, <2>5, <3>1, <3>2, UnseenStep
  <2>6. ASSUME \/ \E w \in Writers : Death(LandRejected(w))
               \/ Death(Crash)
        PROVE  SeesLatest'
    BY <2>6 DEF Death, SeesLatest
  <2>7. CASE RoomStep /\ UNCHANGED vars
    BY <1>1, <2>7, RoomStepSeen
  <2>8. QED
    BY <2>1, <2>2, <2>3, <2>4, <2>5, <2>6, <2>7 DEF RoomNext
<1>4. QED
  BY <1>2, <1>3 DEF RoomIInv

\* With a room around it the board behaves as it does alone, so what is proved of
\* the board alone holds of the two together.
THEOREM RoomKeepsBoard == RoomSpec => Spec
<1>1. RoomInit => Init
  BY DEF RoomInit
<1>2. [RoomNext]_roomVars => [Next]_vars
  BY RoomRefines DEF roomVars
<1>3. QED
  BY <1>1, <1>2, PTL DEF RoomSpec, Spec

\* Whoever joins a board sees the latest scene, unless something came between
\* that he is not sent (handleJoinBoard, handleSceneUpdate, restore).
THEOREM JoinerIsCurrent == RoomSpec => []JoinerCatchesUp
<1>1. RoomInit => RoomIInv
  BY InitInv DEF RoomInit, RoomIInv, SeesLatest
<1>2. RoomIInv => JoinerCatchesUp
  BY DEF RoomIInv, SeesLatest, JoinerCatchesUp
<1>3. QED
  BY <1>1, <1>2, RoomInvStep, PTL DEF RoomSpec
=============================================================================
