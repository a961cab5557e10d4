----------------------------- MODULE Whiteboard -----------------------------
(***************************************************************************)
(* One whiteboard: the scene updates that arrive over sockets and are      *)
(* stored after a pause (WhiteboardGateway), and the requests that save,   *)
(* snapshot, restore, present and delete it (WhiteboardService,            *)
(* WhiteboardVersionService).  An update carries the whole scene, so the   *)
(* stored scene is a register with several writers.  The boards of a        *)
(* workspace share the presenter's pointer and nothing else; rooms and     *)
(* screens are not modelled.  A handler is a sequence of steps, one per    *)
(* awaited query; a request that fails a check is not a step.              *)
(***************************************************************************)
EXTENDS Integers

CONSTANTS
  Scenes,    \* what may be on the board
  NoScene,
  Handlers,  \* bound: requests and events being handled at once
  Writers,   \* bound: debounced writes under way at once
  Debounce,  \* PERSIST_DEBOUNCE_MS, in ticks
  Crashes    \* whether the process may die of something outside the model

ASSUME BoardAssumption ==
  /\ NoScene \notin Scenes
  /\ Debounce \in Nat
  /\ Crashes \in BOOLEAN

VARIABLES
  stored,     \* the row's scene, NoScene once the board is deleted
  versions,   \* the scenes in its version history
  pending,    \* pendingPayloads of the board, or NoScene
  timer,      \* pendingTimers of the board: its age, or Off
  writes,     \* debounced writes under way, which nobody awaits
  presented,  \* whether presentedBoards points at the board
  req,        \* what each handler is doing
  latest,     \* history: the scene given to the server last
  disturbed   \* history: operations that disturb each other overlapped

memory == <<pending, timer, presented, writes>>
vars == <<stored, versions, memory, req, latest, disturbed>>

Off == -1

Idle == [at |-> "idle", scene |-> NoScene, current |-> NoScene]

At(p, step) == req[p].at = step
Goto(p, step) == req' = [req EXCEPT ![p].at = step]
Done(p) == req' = [req EXCEPT ![p] = Idle]
Begin(p, step, s) ==
  /\ At(p, "idle")
  /\ req' = [req EXCEPT ![p] = [Idle EXCEPT !.at = step, !.scene = s]]

Exists == stored # NoScene

Landing == {w \in Writers : writes[w] # NoScene}
Storing == {p \in Handlers : req[p].at \in {"save", "current", "snapshot", "restore"}}

\* Two writers of the scene under way, or one beside a scene that waits for its
\* timer; or a presentation beside a deletion.
Overlap ==
  \/ \E v, w \in Landing : v # w
  \/ \E p, q \in Storing : p # q
  \/ Storing # {} /\ (Landing # {} \/ pending # NoScene)
  \/ \E p, q \in Handlers : At(p, "present") /\ req[q].at \in {"delete", "deleted"}

Init ==
  /\ stored \in Scenes
  /\ versions = {}
  /\ pending = NoScene
  /\ timer = Off
  /\ writes = [w \in Writers |-> NoScene]
  /\ presented = FALSE
  /\ req = [p \in Handlers |-> Idle]
  /\ latest = stored
  /\ disturbed = FALSE

-----------------------------------------------------------------------------
(* Scene updates over the socket *)

\* canAccessBoard finds the board and lets the member through.
UpdateBegin(p, s) ==
  /\ Exists
  /\ Begin(p, "update", s)
  /\ UNCHANGED <<stored, versions, memory, latest>>

\* Mutant: the first scene waits, later ones do not replace it.
ScheduleFirst(s) ==
  /\ pending' = IF pending = NoScene THEN s ELSE pending
  /\ timer' = 0

\* Mutant: the timer that runs is cleared, and none is set.
ScheduleOnce(s) ==
  /\ pending' = s
  /\ timer' = IF timer = Off THEN 0 ELSE Off

\* schedulePersist: the newest scene waits, its timer starts again.
Schedule(s) ==
  /\ pending' = s
  /\ timer' = 0

\* Broadcast to the room and schedule, without looking again.
Update(p) ==
  /\ At(p, "update")
  /\ Schedule(req[p].scene)
  /\ latest' = req[p].scene
  /\ Done(p)
  /\ UNCHANGED <<stored, versions, writes, presented>>

Tick ==
  /\ timer # Off
  /\ timer < Debounce
  /\ timer' = timer + 1
  /\ UNCHANGED <<stored, versions, pending, writes, presented, req, latest>>

\* Mutant: the timer goes and leaves the scene behind.
FireKeepsScene(w) ==
  /\ timer = Debounce
  /\ writes[w] = NoScene
  /\ writes' = [writes EXCEPT ![w] = pending]
  /\ timer' = Off
  /\ UNCHANGED <<stored, versions, pending, presented, req, latest>>

\* The timer's callback starts a write that nobody awaits.
Fire(w) ==
  /\ timer = Debounce
  /\ writes[w] = NoScene
  /\ writes' = [writes EXCEPT ![w] = pending]
  /\ pending' = NoScene
  /\ timer' = Off
  /\ UNCHANGED <<stored, versions, presented, req, latest>>

\* whiteboard.update by id.
Land(w) ==
  /\ writes[w] # NoScene
  /\ Exists
  /\ stored' = writes[w]
  /\ writes' = [writes EXCEPT ![w] = NoScene]
  /\ UNCHANGED <<versions, pending, timer, presented, req, latest>>

\* The process is gone and another one starts; nothing calls onModuleDestroy,
\* so what was pending is lost, and what was under way may have been stored.
Die ==
  /\ \/ UNCHANGED stored
     \/ /\ Exists
        /\ stored' \in {writes[w] : w \in Landing}
             \cup {req[p].scene : p \in {q \in Handlers : req[q].at \in {"save", "restore"}}}
  /\ pending' = NoScene
  /\ timer' = Off
  /\ presented' = FALSE
  /\ writes' = [w \in Writers |-> NoScene]
  /\ req' = [p \in Handlers |-> Idle]
  /\ UNCHANGED <<versions, latest>>

\* The update of a deleted board throws; the promise is void, and an unhandled
\* rejection ends the process.
LandRejected(w) ==
  /\ writes[w] # NoScene
  /\ ~Exists
  /\ Die

Crash ==
  /\ Crashes
  /\ Die

-----------------------------------------------------------------------------
(* PATCH /whiteboards/:id *)

SaveBegin(p, s) ==
  /\ Exists
  /\ Begin(p, "save", s)
  /\ UNCHANGED <<stored, versions, memory, latest>>

\* An update by id, which throws when the board has gone.
Put(s) ==
  IF Exists THEN stored' = s /\ latest' = s ELSE UNCHANGED <<stored, latest>>

Save(p) ==
  /\ At(p, "save")
  /\ Put(req[p].scene)
  /\ Done(p)
  /\ UNCHANGED <<versions, memory>>

-----------------------------------------------------------------------------
(* Versions *)

\* POST versions: the client's scene, one insert.
CreateVersion(s) ==
  /\ Exists
  /\ versions' = versions \cup {s}
  /\ UNCHANGED <<stored, memory, req, latest>>

\* POST restore: the version is read and access checked.
RestoreBegin(p, v) ==
  /\ v \in versions
  /\ Begin(p, "current", v)
  /\ UNCHANGED <<stored, versions, memory, latest>>

\* Mutant: no snapshot of the current scene.
CurrentUnsaved(p) ==
  /\ At(p, "current")
  /\ IF Exists THEN Goto(p, "restore") ELSE Done(p)
  /\ UNCHANGED <<stored, versions, memory, latest>>

ReadCurrent(p) ==
  /\ At(p, "current")
  /\ IF Exists
     THEN req' = [req EXCEPT ![p].at = "snapshot", ![p].current = stored]
     ELSE Done(p)
  /\ UNCHANGED <<stored, versions, memory, latest>>

\* The safety snapshot; its foreign key throws when the board has gone.
Snapshot(p) ==
  /\ At(p, "snapshot")
  /\ IF Exists
     THEN versions' = versions \cup {req[p].current} /\ Goto(p, "restore")
     ELSE Done(p) /\ UNCHANGED versions
  /\ UNCHANGED <<stored, memory, latest>>

\* The pending scene, if any, stays pending.
Restore(p) ==
  /\ At(p, "restore")
  /\ Put(req[p].scene)
  /\ Done(p)
  /\ UNCHANGED <<versions, memory>>

-----------------------------------------------------------------------------
(* Presenting and deleting *)

PresentBegin(p) ==
  /\ Exists
  /\ Begin(p, "present", NoScene)
  /\ UNCHANGED <<stored, versions, memory, latest>>

Present(p) ==
  /\ At(p, "present")
  /\ presented' = TRUE
  /\ Done(p)
  /\ UNCHANGED <<stored, versions, pending, timer, writes, latest>>

\* The same handler for another board of the workspace.
PresentOther ==
  /\ presented
  /\ presented' = FALSE
  /\ UNCHANGED <<stored, versions, pending, timer, writes, req, latest>>

\* Whoever joins the list of boards is sent to the presented one.
BoardPresented == presented

DeleteBegin(p) ==
  /\ Exists
  /\ Begin(p, "delete", NoScene)
  /\ UNCHANGED <<stored, versions, memory, latest>>

\* The row goes, its versions by cascade; a second deletion throws.
DeleteRow(p) ==
  /\ At(p, "delete")
  /\ IF Exists THEN Goto(p, "deleted") ELSE Done(p)
  /\ stored' = NoScene
  /\ versions' = {}
  /\ UNCHANGED <<memory, latest>>

\* Mutant: the presenter's pointer stays.
Deleted(p) ==
  /\ At(p, "deleted")
  /\ Done(p)
  /\ UNCHANGED <<stored, versions, memory, latest>>

\* broadcastBoardDeleted.
ForgetPresented(p) ==
  /\ At(p, "deleted")
  /\ presented' = FALSE
  /\ Done(p)
  /\ UNCHANGED <<stored, versions, pending, timer, writes, latest>>

-----------------------------------------------------------------------------

HandlerStep(p) ==
  \/ Update(p) \/ Save(p)
  \/ ReadCurrent(p) \/ Snapshot(p) \/ Restore(p)
  \/ Present(p) \/ DeleteRow(p) \/ ForgetPresented(p)

WriterStep(w) == Fire(w) \/ Land(w)

Tracked(Operation) == Operation /\ disturbed' = (disturbed \/ Overlap')

Death(Cause) == Cause /\ disturbed' = TRUE

Next ==
  \/ \E p \in Handlers :
       \/ \E s \in Scenes :
            Tracked(UpdateBegin(p, s) \/ SaveBegin(p, s) \/ RestoreBegin(p, s))
       \/ Tracked(PresentBegin(p) \/ DeleteBegin(p) \/ HandlerStep(p))
  \/ \E s \in Scenes : Tracked(CreateVersion(s))
  \/ \E w \in Writers : Tracked(WriterStep(w)) \/ Death(LandRejected(w))
  \/ Tracked(PresentOther)
  \/ Tracked(Tick)
  \/ Death(Crash)

Spec == Init /\ [][Next]_vars

\* Timers run and fire, queries and handlers come to an end; users owe nothing.
FairSpec ==
  /\ Spec
  /\ WF_vars(Tracked(Tick))
  /\ \A w \in Writers : WF_vars(Tracked(WriterStep(w)) \/ Death(LandRejected(w)))
  /\ \A p \in Handlers : WF_vars(Tracked(HandlerStep(p)))

-----------------------------------------------------------------------------
(* Properties *)

SceneSteps == {"update", "save", "current", "snapshot", "restore"}

\* Type invariant; a scene waits exactly while its timer runs, and a handler
\* holds one exactly when it is to be stored or restored.
TypeOK ==
  /\ stored \in Scenes \cup {NoScene}
  /\ versions \in SUBSET Scenes
  /\ pending \in Scenes \cup {NoScene}
  /\ timer \in {Off} \cup 0..Debounce
  /\ writes \in [Writers -> Scenes \cup {NoScene}]
  /\ presented \in BOOLEAN
  /\ req \in [Handlers ->
       [at : {"idle", "update", "save", "current", "snapshot", "restore",
              "present", "delete", "deleted"},
        scene : Scenes \cup {NoScene}, current : Scenes \cup {NoScene}]]
  /\ latest \in Scenes
  /\ disturbed \in BOOLEAN
  /\ pending = NoScene <=> timer = Off
  /\ \A p \in Handlers :
       /\ req[p].at \in SceneSteps <=> req[p].scene # NoScene
       /\ At(p, "snapshot") => req[p].current # NoScene

\* Whatever the order of updates, timers and writes, the last scene given to
\* the server is the one that is stored once nothing waits or is being written,
\* as long as no two writers overlapped (sceneUpdate, schedulePersist, save,
\* restore).
LatestStored ==
  ~disturbed /\ Exists /\ pending = NoScene /\ Landing = {} => stored = latest

\* "Restore with automatic safety snapshot of the current state": unless a
\* write landed meanwhile, the scene a restore replaces is in the history.
SnapshotFirst ==
  [][\A p \in Handlers :
       At(p, "restore") /\ ~At(p, "restore")' /\ stored' # stored /\ ~disturbed'
         => stored \in versions']_vars

\* "Late joiners aren't sent to a dead board": once a deletion is over nobody
\* is sent to the board, unless a presentation was under way beside it.
NoDeadBoard ==
  ~disturbed /\ BoardPresented /\ ~Exists => \E p \in Handlers : At(p, "deleted")

\* Part of the inductive invariant: nobody presents a board that is gone.
PresentsLiving == ~disturbed /\ ~Exists => \A p \in Handlers : ~At(p, "present")

\* What undisturbed operation keeps: while a scene waits it is the latest; while
\* one is written and none waits, that one is; otherwise the stored one is.  A
\* restore is about to replace what it has put into the history.
LatestSomewhere ==
  ~disturbed =>
    /\ ~Overlap
    /\ pending # NoScene => pending = latest
    /\ pending = NoScene => \A w \in Landing : writes[w] = latest
    /\ pending = NoScene /\ Landing = {} /\ Exists => stored = latest
    /\ \A p \in Handlers :
         Exists => /\ At(p, "snapshot") => req[p].current = stored
                   /\ At(p, "restore") => stored \in versions

\* The inductive invariant of the proofs.
IInv == TypeOK /\ LatestSomewhere /\ NoDeadBoard /\ PresentsLiving

Scheduled == \E p \in Handlers : At(p, "update") /\ ~At(p, "update")'

\* When people stop drawing, nothing remains to be written: what was drawn has
\* been stored (with LatestStored), or the process has died.
EditsSaved ==
  <>[][~Scheduled]_vars => <>[](pending = NoScene /\ Landing = {})
=============================================================================
