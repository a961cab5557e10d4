--------------------------- MODULE WhiteboardRoom ---------------------------
(***************************************************************************)
(* What one person sees of a whiteboard: his socket joins the board's room *)
(* and is sent the stored board (handleJoinBoard), and the others' updates *)
(* and restores are broadcast to the room.  The board is that of           *)
(* Whiteboard; its steps are taken here together with what they send.  His *)
(* own drawings are not modelled: his screen has them already.             *)
(***************************************************************************)
EXTENDS Whiteboard

VARIABLES
  seat,      \* his socket: out, entered (the room), read (the row), in
  screen,    \* the scene the handler has read for him, then the one he sees
  restored,  \* scenes restored, and not yet announced
  behind     \* ghost: something came between him and the latest scene

room == <<seat, screen, restored, behind>>
roomVars == <<vars, room>>

RoomInit ==
  /\ Init
  /\ seat = "out" /\ screen = NoScene
  /\ restored = {} /\ behind = FALSE

-----------------------------------------------------------------------------
(* Joining *)

\* canAccessBoard lets the connected socket through, and it joins the room.
JoinBoard ==
  /\ seat = "out" /\ Exists
  /\ seat' = "entered"
  /\ UNCHANGED <<screen, restored, behind>>

\* A scene that waits for its timer or its write, or is newly restored.
Underway == pending # NoScene \/ Landing # {} \/ restored # {}

\* getByIdForSocket, after the name was looked up: what is under way is not in
\* the row, or will be announced again.
ReadBoard ==
  /\ seat = "entered" /\ Exists
  /\ seat' = "read" /\ screen' = stored
  /\ behind' = Underway
  /\ UNCHANGED restored

\* What the room was sent meanwhile is overwritten on his screen.
BoardState ==
  /\ seat = "read"
  /\ seat' = "in"
  /\ UNCHANGED <<screen, restored, behind>>

HandleDisconnect ==
  /\ seat # "out"
  /\ seat' = "out" /\ screen' = NoScene /\ behind' = FALSE
  /\ UNCHANGED restored

-----------------------------------------------------------------------------
(* What the board's steps send *)

\* Mutant: the room is sent the scene that waited, not the new one.
BroadcastWaiting(p) ==
  /\ screen' = IF seat = "in" /\ pending # NoScene THEN pending ELSE screen
  /\ behind' = (seat = "read" \/ (seat = "in" /\ restored # {}))
  /\ UNCHANGED <<seat, restored>>

\* The scene of an update reaches who is in the room; it is lost on a screen
\* that is yet to be sent the row, and to an announcement still to come.
BroadcastUpdate(p) ==
  /\ screen' = IF seat = "in" THEN req[p].scene ELSE screen
  /\ behind' = (seat = "read" \/ (seat = "in" /\ restored # {}))
  /\ UNCHANGED <<seat, restored>>

\* A PATCH is announced to nobody.
SaveUnannounced ==
  /\ behind' = (seat \in {"read", "in"})
  /\ UNCHANGED <<seat, screen, restored>>

\* The restored scene is stored, and announced after that.
RestoreStored(p) ==
  /\ restored' = IF Exists THEN restored \cup {req[p].scene} ELSE restored
  /\ behind' = (behind \/ (seat \in {"read", "in"} /\ restored # {}))
  /\ UNCHANGED <<seat, screen>>

BroadcastRestored(s) ==
  /\ s \in restored
  /\ restored' = restored \ {s}
  /\ screen' = IF seat = "in" THEN s ELSE screen
  /\ behind' = (behind \/ seat = "read")
  /\ UNCHANGED seat

\* The sockets die with the process.
Hangup ==
  /\ seat' = "out" /\ screen' = NoScene
  /\ restored' = {} /\ behind' = FALSE

-----------------------------------------------------------------------------

QuietStep(p) ==
  \/ \E s \in Scenes : UpdateBegin(p, s) \/ SaveBegin(p, s) \/ RestoreBegin(p, s)
  \/ PresentBegin(p) \/ DeleteBegin(p) \/ ReadCurrent(p) \/ Snapshot(p)
  \/ Present(p) \/ DeleteRow(p) \/ ForgetPresented(p)

RoomStep ==
  \/ JoinBoard \/ ReadBoard \/ BoardState \/ HandleDisconnect
  \/ \E s \in restored : BroadcastRestored(s)

RoomNext ==
  \/ \E p \in Handlers :
       \/ Tracked(Update(p)) /\ BroadcastUpdate(p)
       \/ Tracked(Save(p)) /\ SaveUnannounced
       \/ Tracked(Restore(p)) /\ RestoreStored(p)
       \/ Tracked(QuietStep(p)) /\ UNCHANGED room
  \/ \E w \in Writers :
       \/ Tracked(WriterStep(w)) /\ UNCHANGED room
       \/ Death(LandRejected(w)) /\ Hangup
  \/ \E s \in Scenes : Tracked(CreateVersion(s)) /\ UNCHANGED room
  \/ Tracked(PresentOther) /\ UNCHANGED room
  \/ Tracked(Tick) /\ UNCHANGED room
  \/ Death(Crash) /\ Hangup
  \/ RoomStep /\ UNCHANGED vars

RoomSpec == RoomInit /\ [][RoomNext]_roomVars

\* The board's fairness; people join and leave as they like.
FairRoomSpec ==
  /\ RoomSpec
  /\ WF_vars(Tracked(Tick))
  /\ \A w \in Writers : WF_vars(Tracked(WriterStep(w)) \/ Death(LandRejected(w)))
  /\ \A p \in Handlers : WF_vars(Tracked(HandlerStep(p)))

-----------------------------------------------------------------------------
(* Properties *)

\* Who joins sees the latest scene and keeps up with it, whatever else goes on,
\* unless (behind) the scene was still to be stored when his copy was read, an
\* update or a restore came between the reading and the sending, a PATCH
\* changed the board, or an update overtook the announcement of a restore
\* (handleJoinBoard enters the room first, and reads the row second).
JoinerCatchesUp ==
  ~disturbed /\ Exists /\ seat = "in" /\ restored = {} /\ ~behind => screen = latest
=============================================================================
