--------------------------- MODULE Workspace_proofs ---------------------------
(***************************************************************************)
(* Proofs about Workspace, for any clients, requests at once, rows and     *)
(* updates.                                                                *)
(***************************************************************************)
EXTENDS Workspace, FiniteSetTheorems, TLAPS

Statuses == {"stranger", "member", "removed", "deleted"}

\* The rows; without the workspace its file has gone too.
RowsOK ==
  /\ issued \in 0..MaxItems
  /\ DOMAIN rows \subseteq 1..issued /\ \A i \in DOMAIN rows : rows[i] \in Row
  /\ OfKind("private") \subseteq By(Owner)
  /\ ~exists => DOMAIN rows = OfKind("private") /\ file = "purged"

OthersOK ==
  /\ exists \in BOOLEAN /\ file \in {"live", "trashed", "purged"}
  /\ status \in [Clients -> Statuses]
  /\ told \in [Items -> 0..Gone]
  /\ late \in [Clients -> Nat] /\ excused \subseteq Items

\* What a request was let in with.
Asked(r) ==
  /\ r.at = "write" /\ r.op = "create" /\ r.kind = "private" => r.user = Owner
  /\ r.at = "write" /\ r.op \in {"update", "delete"} =>
       r.item \in 1..issued /\ (r.item \in DOMAIN rows => rows[r.item].kind = r.kind)
  /\ r.at = "emit" => r.item \in 1..issued /\ r.kind # "private"
  /\ r.at = "write" /\ r.op \in {"scoped", "global"} =>
       /\ r.op = "scoped" => r.item = 1
       /\ r.item \in {0, 1} /\ (r.item = 1 => r.user \notin Now("stranger"))

RequestsOK == req \in [Handlers -> Request] /\ \A p \in Handlers : Asked(req[p])

Typed == RowsOK /\ OthersOK /\ RequestsOK

\* The type invariant is its parts.
LEMMA TypedIsType == Typed => TypeOK
BY DEF Typed, TypeOK, RowsOK, OthersOK, RequestsOK, Statuses

-----------------------------------------------------------------------------
(* How a request moves *)

\* p's request is now r, the others are what they were.
Moved(p, r) ==
  /\ r \in Request
  /\ req' \in [Handlers -> Request] /\ req'[p] = r
  /\ \A q \in Handlers \ {p} : req'[q] = req[q]

\* A request becomes another one.
LEMMA Becomes ==
  ASSUME req \in [Handlers -> Request], NEW p \in Handlers, NEW r \in Request,
         req' = [req EXCEPT ![p] = r]
  PROVE  Moved(p, r)
BY DEF Moved

\* A request is over.
LEMMA DoneMoves ==
  ASSUME req \in [Handlers -> Request], NEW p \in Handlers, Done(p)
  PROVE  Moved(p, Idle) /\ Idle.at = "idle" /\ Idle.user = Owner
<1>1. Idle \in Request /\ Idle.at = "idle" /\ Idle.user = Owner
  BY WorkspaceAssumption DEF Idle, Request, Users, Kinds, Gone
<1>2. QED
  BY <1>1, Becomes DEF Done

\* A request comes in.
LEMMA BeginMoves ==
  ASSUME req \in [Handlers -> Request], NEW p \in Handlers, NEW u \in Users,
         NEW what \in {"create", "update", "delete", "join", "scoped", "global"},
         NEW kind \in Kinds, NEW item \in 0..MaxItems, Begin(p, u, what, kind, item)
  PROVE  /\ req[p].at = "idle" /\ u \notin Now("deleted")
         /\ UNCHANGED <<exists, status, file, issued, rows, told, late, excused>>
         /\ \E r : /\ Moved(p, r) /\ r.at = "write" /\ r.user = u /\ r.op = what
                   /\ r.kind = kind /\ r.item = item
<1> DEFINE a == [req[p] EXCEPT !.at = "write"]
           b == [a EXCEPT !.user = u]
           c == [b EXCEPT !.op = what]
           d == [c EXCEPT !.kind = kind]
           r == [d EXCEPT !.item = item]
<1>1. req[p] \in Request
  OBVIOUS
<1>2. a \in Request /\ a.at = "write"
  BY <1>1 DEF Request
<1>3. req' = [req EXCEPT ![p] = r]
  BY DEF Begin
<1> HIDE DEF a
<1>4. b \in Request /\ b.at = "write" /\ b.user = u
  BY <1>2 DEF Request
<1> HIDE DEF b
<1>5. c \in Request /\ c.at = "write" /\ c.user = u /\ c.op = what
  BY <1>4 DEF Request
<1> HIDE DEF c
<1>6. d \in Request /\ d.at = "write" /\ d.user = u /\ d.op = what /\ d.kind = kind
  BY <1>5 DEF Request
<1> HIDE DEF d
<1>7. r \in Request /\ r.at = "write" /\ r.user = u /\ r.op = what /\ r.kind = kind
      /\ r.item = item
  BY <1>6 DEF Request
<1> HIDE DEF r
<1>8. Moved(p, r)
  BY <1>3, <1>7, Becomes
<1>9. QED
  BY <1>7, <1>8 DEF Begin, At

\* A request has written its row, and announces it unless it is private.
LEMMA WrittenMoves ==
  ASSUME req \in [Handlers -> Request], NEW p \in Handlers, NEW i \in Items,
         NEW version \in 0..Gone, Written(p, i, version)
  PROVE  \/ req[p].kind = "private" /\ Moved(p, Idle) /\ Idle.at = "idle" /\ Idle.user = Owner
         \/ /\ req[p].kind # "private"
            /\ \E r : /\ Moved(p, r) /\ r.at = "emit" /\ r.user = Owner /\ r.item = i
                      /\ r.version = version /\ r.kind = req[p].kind
<1>1. CASE req[p].kind = "private"
  BY <1>1, DoneMoves DEF Written
<1>2. CASE req[p].kind # "private"
  <2> DEFINE a == [req[p] EXCEPT !.at = "emit"]
             b == [a EXCEPT !.user = Owner]
             c == [b EXCEPT !.item = i]
             r == [c EXCEPT !.version = version]
  <2>1. req[p] \in Request /\ i \in 0..MaxItems /\ Owner \in Users
    BY DEF Items, Users
  <2>2. req' = [req EXCEPT ![p] = r]
    BY <1>2 DEF Written
  <2>3. a \in Request /\ a.at = "emit" /\ a.kind = req[p].kind
    BY <2>1 DEF Request
  <2> HIDE DEF a
  <2>4. b \in Request /\ b.at = "emit" /\ b.kind = req[p].kind /\ b.user = Owner
    BY <2>1, <2>3 DEF Request
  <2> HIDE DEF b
  <2>5. c \in Request /\ c.at = "emit" /\ c.kind = req[p].kind /\ c.user = Owner
        /\ c.item = i
    BY <2>1, <2>4 DEF Request
  <2> HIDE DEF c
  <2>6. r \in Request /\ r.at = "emit" /\ r.kind = req[p].kind /\ r.user = Owner
        /\ r.item = i /\ r.version = version
    BY <2>5 DEF Request
  <2> HIDE DEF r
  <2>7. Moved(p, r)
    BY <2>2, <2>6, Becomes
  <2>8. QED
    BY <1>2, <2>6, <2>7
<1>3. QED
  BY <1>1, <1>2

\* Every request that is let in.
Begins(p, u) ==
  \/ CreateTask(p, u) \/ CreateLink(p, u) \/ CommentOnFile(p, u)
  \/ CommentOnBoard(p, u) \/ CreatePrivate(p, u)
  \/ UpdateTask(p, u) \/ UpdatePrivate(p, u)
  \/ DeleteTask(p, u) \/ DeleteLink(p, u) \/ DeleteFileComment(p, u)
  \/ DeleteBoardComment(p, u) \/ DeletePrivate(p, u)
  \/ JoinBegin(p, u) \/ SearchBegin(p, u)

\* What lets a request in.
LetIn(u, what, kind, item) ==
  /\ kind \in Kinds /\ item \in 0..MaxItems
  /\ \/ what = "create" /\ Access(u) /\ (kind = "private" => u = Owner)
     \/ what = "update" /\ Access(u) /\ item \in OfKind(kind)
     \/ what = "update" /\ u = Owner /\ item \in OfKind(kind)
     \/ what = "delete" /\ item \in OfKind(kind)
     \/ what = "join" /\ Access(u)
     \/ what = "scoped" /\ Access(u) /\ item = 1
     \/ what = "global" /\ (item = 0 \/ (Access(u) /\ item = 1))

\* Nobody but the owner has private tasks, so nobody else is let in to them.
LEMMA BeginsLetIn ==
  ASSUME Typed, NEW p \in Handlers, NEW u \in Users, Begins(p, u)
  PROVE  \E what, kind, item : LetIn(u, what, kind, item) /\ Begin(p, u, what, kind, item)
<1>0. /\ {"task", "link", "fileComment", "boardComment", "private"} \subseteq Kinds
      /\ 0 \in 0..MaxItems /\ 1 \in 0..MaxItems
  BY WorkspaceAssumption DEF Kinds
<1>1. \A kind : OfKind(kind) \subseteq 0..MaxItems
  BY WorkspaceAssumption DEF Typed, RowsOK, OfKind
<1>2. CASE \/ CreateTask(p, u) \/ CreateLink(p, u) \/ CommentOnFile(p, u)
           \/ CommentOnBoard(p, u)
  <2>1. PICK kind \in {"task", "link", "fileComment", "boardComment"} :
          Access(u) /\ Begin(p, u, "create", kind, 0)
    BY <1>2 DEF CreateTask, CreateLink, CommentOnFile, CommentOnBoard, FileAccess
  <2>2. LetIn(u, "create", kind, 0)
    BY <1>0, <2>1 DEF LetIn
  <2>3. QED
    BY <2>1, <2>2
<1>3. CASE CreatePrivate(p, u)
  <2>1. Begin(p, u, "create", "private", 0) /\ exists /\ u = Owner
    BY <1>3 DEF CreatePrivate
  <2>2. LetIn(u, "create", "private", 0)
    BY <1>0, <2>1 DEF LetIn, Access
  <2>3. QED
    BY <2>1, <2>2
<1>4. CASE UpdateTask(p, u)
  <2>1. PICK i \in OfKind("task") : Access(u) /\ Begin(p, u, "update", "task", i)
    BY <1>4 DEF UpdateTask
  <2>2. LetIn(u, "update", "task", i)
    BY <1>0, <1>1, <2>1 DEF LetIn
  <2>3. QED
    BY <2>1, <2>2
<1>5. CASE UpdatePrivate(p, u)
  <2>1. PICK i \in OfKind("private") \cap By(u) : Begin(p, u, "update", "private", i)
    BY <1>5 DEF UpdatePrivate
  <2>2. u = Owner
    BY DEF Typed, RowsOK, By
  <2>3. LetIn(u, "update", "private", i)
    BY <1>0, <1>1, <2>2 DEF LetIn
  <2>4. QED
    BY <2>1, <2>3
<1>6. CASE \/ DeleteTask(p, u) \/ DeleteLink(p, u) \/ DeleteFileComment(p, u)
           \/ DeleteBoardComment(p, u) \/ DeletePrivate(p, u)
  <2>1. PICK kind \in Kinds : \E i \in OfKind(kind) : Begin(p, u, "delete", kind, i)
    <3>1. CASE DeleteTask(p, u)
      BY <1>0, <3>1 DEF DeleteTask
    <3>2. CASE DeleteLink(p, u)
      BY <1>0, <3>2 DEF DeleteLink
    <3>3. CASE DeleteFileComment(p, u)
      BY <1>0, <3>3 DEF DeleteFileComment
    <3>4. CASE DeleteBoardComment(p, u)
      BY <1>0, <3>4 DEF DeleteBoardComment
    <3>5. CASE DeletePrivate(p, u)
      BY <1>0, <3>5 DEF DeletePrivate
    <3>6. QED
      BY <1>6, <3>1, <3>2, <3>3, <3>4, <3>5
  <2>2. PICK i \in OfKind(kind) : Begin(p, u, "delete", kind, i)
    BY <2>1
  <2>3. LetIn(u, "delete", kind, i)
    BY <1>1, <2>2 DEF LetIn
  <2>4. QED
    BY <2>2, <2>3
<1>7. CASE JoinBegin(p, u)
  <2>1. Access(u) /\ Begin(p, u, "join", "task", 0)
    BY <1>7 DEF JoinBegin, MayJoin
  <2>2. LetIn(u, "join", "task", 0)
    BY <1>0, <2>1 DEF LetIn
  <2>3. QED
    BY <2>1, <2>2
<1>8. CASE SearchBegin(p, u)
  <2>1. CASE Access(u) /\ Begin(p, u, "scoped", "task", 1)
    <3>1. LetIn(u, "scoped", "task", 1)
      BY <1>0, <2>1 DEF LetIn
    <3>2. QED
      BY <2>1, <3>1
  <2>2. CASE Begin(p, u, "global", "task", IF Access(u) THEN 1 ELSE 0)
    <3>1. CASE Access(u)
      <4>1. LetIn(u, "global", "task", 1)
        BY <1>0, <3>1 DEF LetIn
      <4>2. QED
        BY <2>2, <3>1, <4>1
    <3>2. CASE ~Access(u)
      <4>1. LetIn(u, "global", "task", 0)
        BY <1>0 DEF LetIn
      <4>2. QED
        BY <2>2, <3>2, <4>1
    <3>3. QED
      BY <3>1, <3>2
  <2>3. QED
    BY <1>8, <2>1, <2>2 DEF SearchBegin
<1>9. QED
  BY <1>2, <1>3, <1>4, <1>5, <1>6, <1>7, <1>8 DEF Begins

\* So a request comes in with what it asks for.
LEMMA BeginsMove ==
  ASSUME Typed, NEW p \in Handlers, NEW u \in Users, Begins(p, u)
  PROVE  /\ req[p].at = "idle" /\ u \notin Now("deleted")
         /\ UNCHANGED <<exists, status, file, issued, rows, told, late, excused>>
         /\ \E r : /\ Moved(p, r) /\ r.at = "write" /\ r.user = u
                   /\ LetIn(u, r.op, r.kind, r.item)
<1>1. PICK what, kind, item : LetIn(u, what, kind, item) /\ Begin(p, u, what, kind, item)
  BY BeginsLetIn
<1>2. /\ kind \in Kinds /\ item \in 0..MaxItems
      /\ what \in {"create", "update", "delete", "join", "scoped", "global"}
  BY <1>1 DEF LetIn
<1>3. req \in [Handlers -> Request]
  BY DEF Typed, RequestsOK
<1>4. QED
  BY <1>1, <1>2, <1>3, BeginMoves

-----------------------------------------------------------------------------
(* The type invariant *)

\* A request that is let in asks for what there is.
LEMMA BeginsTyped ==
  ASSUME Typed, NEW p \in Handlers, NEW u \in Users, Begins(p, u)
  PROVE  Typed'
<1>1. PICK r : /\ Moved(p, r) /\ r.at = "write" /\ r.user = u
               /\ LetIn(u, r.op, r.kind, r.item)
  BY BeginsMove
<1>2. UNCHANGED <<exists, status, file, issued, rows, told, late, excused>>
  BY BeginsMove
<1>3. OthersOK' /\ RowsOK'
  BY <1>2 DEF Typed, OthersOK, RowsOK, OfKind, By
<1>4. \A q : Asked(req[q])' <=> Asked(req'[q])
  BY <1>2 DEF Asked, Now
<1>5. Asked(r)
  <2>1. \A i \in OfKind(r.kind) : i \in 1..issued /\ rows[i].kind = r.kind
    BY DEF Typed, RowsOK, OfKind
  <2>2. Access(u) => u \notin Now("stranger")
    BY WorkspaceAssumption DEF Access, Now
  <2>3. QED
    BY <1>1, <2>1, <2>2 DEF Asked, LetIn
<1>6. QED
  BY <1>1, <1>3, <1>4, <1>5 DEF Typed, RequestsOK, Moved

\* The other requests ask for what they asked while rows only go, but for new
\* ones, and nobody becomes a stranger.
LEMMA MoveTyped ==
  ASSUME Typed, NEW p \in Handlers, NEW r, Moved(p, r), RowsOK', OthersOK', Asked(r)',
         issued <= issued', Now("stranger")' \subseteq Now("stranger"),
         \A i \in 1..issued : i \in DOMAIN rows' =>
           i \in DOMAIN rows /\ rows'[i].kind = rows[i].kind
  PROVE  Typed'
<1>1. issued \in Nat /\ issued' \in Nat
  BY DEF Typed, RowsOK
<1>2. ASSUME NEW q \in Handlers \ {p} PROVE Asked(req[q])'
  <2>1. req'[q] = req[q] /\ Asked(req[q])
    BY DEF Moved, Typed, RequestsOK
  <2>2. QED
    BY <1>1, <2>1 DEF Asked
<1>3. QED
  BY <1>2 DEF Typed, RequestsOK, Moved

\* Likewise when no request moves.
LEMMA StayTyped ==
  ASSUME Typed, UNCHANGED <<req, issued>>, RowsOK', OthersOK',
         Now("stranger")' \subseteq Now("stranger"),
         \A i \in DOMAIN rows' : i \in DOMAIN rows /\ rows'[i].kind = rows[i].kind
  PROVE  Typed'
<1>1. ASSUME NEW q \in Handlers PROVE Asked(req[q])'
  BY DEF Asked, Typed, RequestsOK
<1>2. QED
  BY <1>1 DEF Typed, RequestsOK

\* What a client had accepted is counted.
LEMMA LateTyped ==
  ASSUME Typed, NEW p \in Handlers, CountLate(p)
  PROVE  late' \in [Clients -> Nat]
BY DEF Typed, OthersOK, CountLate

\* A row is written: what the request that wrote it then is, and what is
\* excused.
LEMMA WrittenTyped ==
  ASSUME Typed, NEW p \in Handlers, NEW i \in Items, NEW version \in 0..Gone,
         Written(p, i, version), RowsOK', late' \in [Clients -> Nat],
         issued <= issued', i \in 1..issued',
         \A j \in 1..issued : j \in DOMAIN rows' =>
           j \in DOMAIN rows /\ rows'[j].kind = rows[j].kind
  PROVE  Typed'
<1>0. req \in [Handlers -> Request]
  BY DEF Typed, RequestsOK
<1>1. PICK r : /\ Moved(p, r)
               /\ \/ r.at = "idle"
                  \/ r.at = "emit" /\ r.item = i /\ r.kind # "private"
  BY <1>0, WrittenMoves
<1>2. UNCHANGED <<exists, status, file, told>> /\ excused' \subseteq Items
  BY DEF Written, Typed, OthersOK
<1>3. Asked(r)'
  BY <1>1 DEF Asked
<1>4. OthersOK' /\ Now("stranger")' = Now("stranger")
  BY <1>2 DEF Typed, OthersOK, Now
<1>5. QED
  BY <1>1, <1>3, <1>4, MoveTyped

\* A request creates its row.
LEMMA CreateTyped ==
  ASSUME Typed, NEW p \in Handlers, CreateRow(p)
  PROVE  Typed'
<1> DEFINE i == issued + 1
           x == [kind |-> req[p].kind, author |-> req[p].user, version |-> 1]
<1>1. /\ req[p] \in Request /\ Asked(req[p]) /\ issued \in Nat /\ issued < MaxItems
      /\ DOMAIN rows \subseteq 1..issued /\ MaxItems \in Nat /\ exists
      /\ req[p].at = "write" /\ req[p].op = "create"
  BY WorkspaceAssumption DEF Typed, RowsOK, RequestsOK, CreateRow, At
<1>2. i \in Items /\ i \in 1..issued' /\ issued' = i /\ issued <= issued' /\ i \notin 1..issued
  BY <1>1 DEF CreateRow, Items
<1>3. x \in Row /\ x.kind = req[p].kind /\ x.author = req[p].user
  BY <1>1, WorkspaceAssumption DEF Row, Request
<1>4. /\ DOMAIN rows' = DOMAIN rows \cup {i} /\ rows'[i] = x
      /\ \A j \in DOMAIN rows : rows'[j] = rows[j]
  BY <1>1, <1>2 DEF CreateRow
<1>5. exists' = exists /\ Written(p, i, 1) /\ CountLate(p) /\ 1 \in 0..Gone
  BY WorkspaceAssumption DEF CreateRow, Written, Gone
<1> HIDE DEF i, x
<1>6. RowsOK'
  <2>1. DOMAIN rows' \subseteq 1..issued' /\ \A j \in DOMAIN rows' : rows'[j] \in Row
    BY <1>1, <1>2, <1>3, <1>4 DEF Typed, RowsOK
  <2>2. (OfKind("private") \subseteq By(Owner))'
    BY <1>1, <1>3, <1>4 DEF Typed, RowsOK, OfKind, By, Asked
  <2>3. issued' \in 0..MaxItems
    BY <1>2 DEF Items
  <2>4. QED
    BY <1>1, <1>5, <2>1, <2>2, <2>3 DEF RowsOK
<1>7. \A j \in 1..issued : j \in DOMAIN rows' =>
           j \in DOMAIN rows /\ rows'[j].kind = rows[j].kind
  BY <1>2, <1>4
<1>8. QED
  BY <1>2, <1>5, <1>6, <1>7, LateTyped, WrittenTyped

\* It updates a row, or deletes one.
LEMMA ChangeTyped ==
  ASSUME Typed, NEW p \in Handlers, UpdateRow(p) \/ DeleteRow(p)
  PROVE  Typed'
<1> DEFINE i == req[p].item
<1>1. /\ req[p] \in Request /\ Asked(req[p]) /\ issued \in Nat /\ issued \in 0..MaxItems
      /\ i \in DOMAIN rows /\ i \in 1..issued /\ i \in Items /\ MaxItems \in Nat
      /\ rows[i] \in Row
  BY WorkspaceAssumption DEF Typed, RowsOK, RequestsOK, UpdateRow, DeleteRow, At, Items
<1>2. UNCHANGED <<issued, exists, file>>
  BY DEF UpdateRow, DeleteRow, Written
<1>3. CASE UpdateRow(p)
  <2> DEFINE x == [rows[i] EXCEPT !.version = @ + 1]
  <2>1. x \in Row /\ x.kind = rows[i].kind /\ x.author = rows[i].author
    BY <1>1, <1>3, WorkspaceAssumption DEF Row, UpdateRow
  <2>2. rows' = [rows EXCEPT ![i] = x]
    BY <1>3 DEF UpdateRow
  <2> HIDE DEF x
  <2>3. DOMAIN rows' = DOMAIN rows /\ rows'[i] = x
        /\ \A j \in DOMAIN rows : j # i => rows'[j] = rows[j]
    BY <1>1, <2>2
  <2>4. \A j \in DOMAIN rows : /\ rows'[j] \in Row /\ rows'[j].kind = rows[j].kind
                               /\ rows'[j].author = rows[j].author
    BY <2>1, <2>3 DEF Typed, RowsOK
  <2>5. RowsOK'
    BY <1>2, <2>3, <2>4 DEF Typed, RowsOK, OfKind, By
  <2>6. Written(p, i, rows[i].version + 1) /\ rows[i].version + 1 \in 0..Gone
    BY <1>1, <1>3, WorkspaceAssumption DEF UpdateRow, Row, Gone
  <2>7. QED
    BY <1>1, <1>2, <1>3, <2>3, <2>4, <2>5, <2>6, LateTyped, WrittenTyped DEF UpdateRow
<1>4. CASE DeleteRow(p)
  <2>1. DOMAIN rows' = DOMAIN rows \ {i} /\ \A j \in DOMAIN rows' : rows'[j] = rows[j]
    BY <1>4 DEF DeleteRow, Without
  <2>2. RowsOK'
    BY <1>2, <2>1 DEF Typed, RowsOK, OfKind, By
  <2>3. Written(p, i, Gone) /\ Gone \in 0..Gone /\ late' \in [Clients -> Nat]
    BY <1>4, WorkspaceAssumption DEF DeleteRow, Gone, Typed, OthersOK
  <2>4. QED
    BY <1>1, <1>2, <2>1, <2>2, <2>3, WrittenTyped
<1>5. QED
  BY <1>3, <1>4

\* It is over: it threw, entered the room, searched, or announced its row.
LEMMA EndTyped ==
  ASSUME Typed, NEW p \in Handlers,
         \/ WriteThrows(p) \/ EnterRoom(p) \/ Search(p) \/ EmitTask(p) \/ EmitLink(p)
         \/ EmitFileComment(p) \/ BroadcastBoardComment(p)
  PROVE  Typed'
<1>1. UNCHANGED <<exists, status, file, issued, rows, excused>>
  BY DEF WriteThrows, EnterRoom, Search, EmitTask, EmitLink, EmitFileComment,
     BroadcastBoardComment, Emit
<1>2. Moved(p, Idle) /\ Idle.at = "idle"
  BY DoneMoves DEF Typed, RequestsOK, WriteThrows, EnterRoom, Search, EmitTask, EmitLink,
     EmitFileComment, BroadcastBoardComment, Emit
<1>3. late' \in [Clients -> Nat]
  BY LateTyped DEF Typed, OthersOK, WriteThrows, EnterRoom, Search, EmitTask, EmitLink,
     EmitFileComment, BroadcastBoardComment, Emit
<1>4. told' \in [Items -> 0..Gone]
  <2>1. req[p].version \in 0..Gone
    BY DEF Typed, RequestsOK, Request
  <2>2. told' = told \/ told' = [told EXCEPT ![req[p].item] = req[p].version]
    BY DEF WriteThrows, EnterRoom, Search, EmitTask, EmitLink, EmitFileComment,
       BroadcastBoardComment, Emit
  <2>3. QED
    BY <2>1, <2>2 DEF Typed, OthersOK
<1>5. RowsOK' /\ OthersOK'
  BY <1>1, <1>3, <1>4 DEF Typed, RowsOK, OthersOK, OfKind, By
<1>6. Now("stranger")' = Now("stranger") /\ Asked(Idle)' /\ issued <= issued'
  BY <1>1, <1>2 DEF Now, Asked, Typed, RowsOK
<1>7. QED
  BY <1>1, <1>2, <1>5, <1>6, MoveTyped

\* Memberships change, and rows go with the file, the workspace or an account.
LEMMA AroundTyped ==
  ASSUME Typed,
         \/ \E c \in Clients : AcceptInvite(c) \/ RemoveMember(c) \/ DeleteAccount(c)
         \/ DeleteWorkspace \/ TrashOrRestoreFile \/ PurgeFile
  PROVE  Typed'
<1>0. UNCHANGED <<req, issued, told, late>>
  BY DEF AcceptInvite, RemoveMember, DeleteAccount, DeleteWorkspace, TrashOrRestoreFile,
     PurgeFile
<1>1. status' \in [Clients -> Statuses] /\ Now("stranger")' \subseteq Now("stranger")
  BY DEF AcceptInvite, RemoveMember, DeleteAccount, DeleteWorkspace, TrashOrRestoreFile,
     PurgeFile, Typed, OthersOK, Statuses, Now
<1>2. exists' \in BOOLEAN /\ file' \in {"live", "trashed", "purged"}
  BY DEF AcceptInvite, RemoveMember, DeleteAccount, DeleteWorkspace, TrashOrRestoreFile,
     PurgeFile, Typed, OthersOK
<1>3. DOMAIN rows \subseteq Items
  BY WorkspaceAssumption DEF Typed, RowsOK, Items
<1>4. excused' \subseteq Items
  BY <1>3 DEF AcceptInvite, RemoveMember, DeleteAccount, DeleteWorkspace,
     TrashOrRestoreFile, PurgeFile, Typed, OthersOK, OfKind
<1>5. OthersOK'
  BY <1>0, <1>1, <1>2, <1>4 DEF Typed, OthersOK
<1>6. CASE \E c \in Clients : DeleteAccount(c)
  <2> PICK c \in Clients : DeleteAccount(c)
    BY <1>6
  <2> DEFINE lost == By(c) \cap OfKind("boardComment")
             x(i) == [rows[i] EXCEPT !.author = IF @ = c THEN NoAuthor ELSE @]
  <2>1. rows' = [i \in DOMAIN rows \ lost |-> x(i)] /\ exists' = exists /\ file' = file
    BY DEF DeleteAccount
  <2>2. ASSUME NEW i \in DOMAIN rows
        PROVE  /\ x(i) \in Row /\ x(i).kind = rows[i].kind
               /\ rows[i].author = Owner => x(i).author = Owner
    BY WorkspaceAssumption DEF Typed, RowsOK, Row
  <2> HIDE DEF x
  <2>3. \A i \in DOMAIN rows' : /\ i \in DOMAIN rows /\ rows'[i] \in Row
                                /\ rows'[i].kind = rows[i].kind
                                /\ rows[i].author = Owner => rows'[i].author = Owner
    BY <2>1, <2>2
  <2>4. RowsOK'
    BY <1>0, <2>1, <2>3 DEF Typed, RowsOK, OfKind, By
  <2>5. QED
    BY <1>0, <1>1, <1>5, <2>3, <2>4, StayTyped
<1>7. ASSUME NEW S, rows' = Without(rows, S), UNCHANGED <<exists, file>> \/ file' = "purged",
             exists' \/ ~exists \/ S = DOMAIN rows \ OfKind("private")
      PROVE  Typed'
  <2>1. DOMAIN rows' = DOMAIN rows \ S /\ \A i \in DOMAIN rows' : rows'[i] = rows[i]
    BY <1>7 DEF Without
  <2>2. ~exists => ~exists'
    BY DEF AcceptInvite, RemoveMember, DeleteAccount, DeleteWorkspace,
       TrashOrRestoreFile, PurgeFile
  <2>3. RowsOK'
    BY <1>0, <1>7, <2>1, <2>2 DEF Typed, RowsOK, OfKind, By
  <2>4. QED
    BY <1>0, <1>1, <1>5, <2>1, <2>3, StayTyped
<1>8. CASE DeleteWorkspace \/ PurgeFile
  BY <1>7, <1>8 DEF DeleteWorkspace, PurgeFile, Typed, OthersOK
<1>9. CASE TrashOrRestoreFile \/ \E c \in Clients : AcceptInvite(c) \/ RemoveMember(c)
  <2>1. UNCHANGED <<exists, rows>> /\ (~exists => file' = file)
    BY <1>9 DEF TrashOrRestoreFile, AcceptInvite, RemoveMember, Typed, RowsOK
  <2>2. RowsOK'
    BY <1>0, <2>1 DEF Typed, RowsOK, OfKind, By
  <2>3. QED
    BY <1>0, <1>1, <1>5, <2>1, <2>2, StayTyped
<1>10. QED
  BY <1>6, <1>8, <1>9

\* Nothing changes.
LEMMA StillTyped == Typed /\ UNCHANGED vars => Typed'
BY DEF vars, Typed, RowsOK, OthersOK, RequestsOK, OfKind, By, Asked, Now

\* Every step keeps the types.
LEMMA TypedStep == Typed /\ [Next]_vars => Typed'
BY BeginsTyped, CreateTyped, ChangeTyped, EndTyped, AroundTyped, StillTyped
   DEF Next, Begins

\* At first there is a workspace with a file, and no rows.
LEMMA InitTyped == Init => Typed
<1> SUFFICES ASSUME Init PROVE Typed
  OBVIOUS
<1>1. DOMAIN rows = {} /\ issued = 0 /\ exists /\ file = "live"
  BY DEF Init
<1>2. RowsOK
  BY <1>1, WorkspaceAssumption DEF RowsOK, OfKind, By
<1>3. OthersOK
  BY WorkspaceAssumption DEF Init, OthersOK, Statuses, Gone
<1>4. Idle \in Request /\ Idle.at = "idle"
  BY WorkspaceAssumption DEF Idle, Request, Users, Kinds, Gone
<1>5. RequestsOK
  BY <1>4 DEF Init, RequestsOK, Asked
<1>6. QED
  BY <1>2, <1>3, <1>5 DEF Typed

\* Every variable keeps its type; a private task is the owner's, and without
\* the workspace only private tasks are left.
THEOREM WorkspaceTypeCorrect == Spec => []TypeOK
BY InitTyped, TypedStep, TypedIsType, PTL DEF Spec

-----------------------------------------------------------------------------
(* A removal takes hold *)

\* The requests of c that are past their check and will count.
Counting(r) ==
  \/ r.op \in {"create", "update", "join"}
  \/ r.op \in {"scoped", "global"} /\ r.item = 1
Pending(c) ==
  {p \in Handlers : req[p].at = "write" /\ Counting(req[p]) /\ req[p].user = c}

\* Nothing is late before the removal; then what was accepted and what still
\* may be are the requests that were under way.
LatesCounted == \A c \in Clients :
  /\ late[c] + Cardinality(Pending(c)) <= Cardinality(Handlers)
  /\ status[c] \in {"stranger", "member"} => late[c] = 0

\* A handler serves one request.
LEMMA PendingFinite ==
  ASSUME NEW c
  PROVE  /\ IsFiniteSet(Pending(c)) /\ Cardinality(Pending(c)) \in Nat
         /\ Cardinality(Handlers) \in Nat
         /\ Cardinality(Pending(c)) <= Cardinality(Handlers)
BY WorkspaceAssumption, FS_Subset, FS_CardinalityType DEF Pending

\* Fewer requests are pending, or as many.
LEMMA PendingFewer ==
  ASSUME NEW c, Pending(c)' \subseteq Pending(c)
  PROVE  /\ Cardinality(Pending(c)') \in Nat
         /\ Cardinality(Pending(c)') <= Cardinality(Pending(c))
BY PendingFinite, FS_Subset, FS_CardinalityType

\* One fewer.
LEMMA PendingLess ==
  ASSUME NEW c, NEW p \in Pending(c), Pending(c)' \subseteq Pending(c) \ {p}
  PROVE  /\ Cardinality(Pending(c)') \in Nat
         /\ Cardinality(Pending(c)') + 1 <= Cardinality(Pending(c))
<1>1. /\ IsFiniteSet(Pending(c) \ {p})
      /\ Cardinality(Pending(c) \ {p}) = Cardinality(Pending(c)) - 1
  BY PendingFinite, FS_RemoveElement
<1>2. /\ Cardinality(Pending(c)') \in Nat
      /\ Cardinality(Pending(c)') <= Cardinality(Pending(c) \ {p})
  BY <1>1, FS_Subset, FS_CardinalityType
<1>3. QED
  BY <1>1, <1>2, PendingFinite

\* A request that counts ends, or one that does not moves.
LEMMA MoveLates ==
  ASSUME Typed, LatesCounted, NEW p \in Handlers, NEW r, Moved(p, r), UNCHANGED status,
         r.at # "write",
         \/ UNCHANGED late
         \/ CountLate(p) /\ req[p].at = "write" /\ Counting(req[p])
  PROVE  LatesCounted'
<1> SUFFICES ASSUME NEW c \in Clients
             PROVE  /\ late'[c] + Cardinality(Pending(c)') <= Cardinality(Handlers)
                    /\ status[c] \in {"stranger", "member"} => late'[c] = 0
  BY DEF LatesCounted, Pending
<1>0. /\ late[c] \in Nat /\ late[c] + Cardinality(Pending(c)) <= Cardinality(Handlers)
      /\ status[c] \in {"stranger", "member"} => late[c] = 0
      /\ Cardinality(Pending(c)) \in Nat /\ Cardinality(Handlers) \in Nat
  BY PendingFinite DEF Typed, OthersOK, LatesCounted
<1>1. Pending(c)' \subseteq Pending(c) \ {p}
  BY DEF Pending, Moved
<1>2. CASE late'[c] = late[c]
  BY <1>0, <1>1, <1>2, PendingFewer
<1>3. CASE late'[c] # late[c]
  <2>1. late'[c] = late[c] + 1 /\ status[c] = "removed" /\ p \in Pending(c)
    BY <1>3 DEF CountLate, Pending
  <2>2. QED
    BY <1>0, <1>1, <2>1, PendingLess
<1>4. QED
  BY <1>2, <1>3

\* Who was removed begins nothing that counts.
LEMMA BeginsLates ==
  ASSUME Typed, LatesCounted, NEW p \in Handlers, NEW u \in Users, Begins(p, u)
  PROVE  LatesCounted'
<1>1. PICK r : /\ Moved(p, r) /\ r.at = "write" /\ r.user = u
               /\ LetIn(u, r.op, r.kind, r.item)
  BY BeginsMove
<1>2. UNCHANGED <<status, late>>
  BY BeginsMove
<1> SUFFICES ASSUME NEW c \in Clients
             PROVE  late[c] + Cardinality(Pending(c)') <= Cardinality(Handlers)
  BY <1>2 DEF LatesCounted, Pending
<1>0. /\ late[c] \in Nat /\ late[c] + Cardinality(Pending(c)) <= Cardinality(Handlers)
      /\ status[c] \in {"stranger", "member"} => late[c] = 0
      /\ Cardinality(Pending(c)) \in Nat /\ Cardinality(Handlers) \in Nat
  BY PendingFinite DEF Typed, OthersOK, LatesCounted
<1>3. CASE Access(c)
  <2>1. late[c] = 0
    BY <1>0, <1>3, WorkspaceAssumption DEF Access, Now
  <2>2. Pending(c)' \subseteq Handlers
    BY DEF Pending
  <2>3. /\ Cardinality(Pending(c)') \in Nat
        /\ Cardinality(Pending(c)') <= Cardinality(Handlers)
    BY <2>2, WorkspaceAssumption, FS_Subset, FS_CardinalityType
  <2>4. QED
    BY <1>0, <2>1, <2>3
<1>4. CASE ~Access(c)
  <2>1. c # Owner
    BY WorkspaceAssumption
  <2>2. ~(r.user = c /\ Counting(r))
    BY <1>1, <1>4, <2>1 DEF LetIn, Counting
  <2>3. Pending(c)' \subseteq Pending(c)
    BY <1>1, <2>2 DEF Pending, Moved
  <2>4. QED
    BY <1>0, <2>3, PendingFewer
<1>5. QED
  BY <1>3, <1>4

\* The other steps of a request.
LEMMA WorksLates ==
  ASSUME Typed, LatesCounted, NEW p \in Handlers,
         \/ CreateRow(p) \/ UpdateRow(p) \/ DeleteRow(p) \/ WriteThrows(p)
         \/ EmitTask(p) \/ EmitLink(p) \/ EmitFileComment(p)
         \/ BroadcastBoardComment(p) \/ EnterRoom(p) \/ Search(p)
  PROVE  LatesCounted'
<1>0. req \in [Handlers -> Request]
  BY DEF Typed, RequestsOK
<1>1. UNCHANGED status
  BY DEF CreateRow, UpdateRow, DeleteRow, WriteThrows, EmitTask, EmitLink, EmitFileComment,
     BroadcastBoardComment, EnterRoom, Search, Emit, Written
<1>2. \/ UNCHANGED late
      \/ CountLate(p) /\ req[p].at = "write" /\ Counting(req[p])
  BY DEF CreateRow, UpdateRow, DeleteRow, WriteThrows, EmitTask, EmitLink, EmitFileComment,
     BroadcastBoardComment, EnterRoom, Search, Emit, Written, At, Counting
<1>3. \E r : Moved(p, r) /\ r.at # "write"
  <2>1. CASE Done(p)
    BY <1>0, <2>1, DoneMoves
  <2>2. ASSUME NEW i \in Items, NEW version \in 0..Gone, Written(p, i, version)
        PROVE  \E r : Moved(p, r) /\ r.at # "write"
    BY <1>0, <2>2, WrittenMoves
  <2>3. CASE CreateRow(p)
    <3>1. issued + 1 \in Items /\ 1 \in 0..Gone /\ Written(p, issued + 1, 1)
      BY <2>3, WorkspaceAssumption DEF CreateRow, Items, Gone, Typed, RowsOK
    <3>2. QED
      BY <2>2, <3>1
  <2>4. CASE UpdateRow(p) \/ DeleteRow(p)
    <3>1. req[p].item \in Items /\ req[p].item \in DOMAIN rows
      BY <2>4, WorkspaceAssumption DEF UpdateRow, DeleteRow, Items, Typed, RowsOK
    <3>2. rows[req[p].item] \in Row
      BY <3>1 DEF Typed, RowsOK
    <3>3. \E version \in 0..Gone : Written(p, req[p].item, version)
      <4>1. rows[req[p].item].version + 1 \in 0..Gone /\ Gone \in 0..Gone
        BY <3>2, WorkspaceAssumption DEF Row, Gone
      <4>2. QED
        BY <2>4, <4>1 DEF UpdateRow, DeleteRow
    <3>4. QED
      BY <2>2, <3>1, <3>3
  <2>5. QED
    BY <2>1, <2>3, <2>4
       DEF WriteThrows, EmitTask, EmitLink, EmitFileComment, BroadcastBoardComment,
           EnterRoom, Search, Emit
<1>4. QED
  BY <1>1, <1>2, <1>3, MoveLates

\* Every step keeps the count.
LEMMA LatesStep == Typed /\ LatesCounted /\ [Next]_vars => LatesCounted'
<1> SUFFICES ASSUME Typed, LatesCounted, [Next]_vars PROVE LatesCounted'
  OBVIOUS
<1>1. ASSUME UNCHANGED <<req, late>>,
             \A c \in Clients : status'[c] \in {"stranger", "member"} =>
               status[c] \in {"stranger", "member"}
      PROVE  LatesCounted'
  BY <1>1 DEF LatesCounted, Pending
<1>2. CASE \/ \E c \in Clients : AcceptInvite(c) \/ RemoveMember(c) \/ DeleteAccount(c)
           \/ DeleteWorkspace \/ TrashOrRestoreFile \/ PurgeFile \/ UNCHANGED vars
  <2>1. UNCHANGED <<req, late>>
    BY <1>2 DEF AcceptInvite, RemoveMember, DeleteAccount, DeleteWorkspace,
       TrashOrRestoreFile, PurgeFile, vars
  <2>2. \A c \in Clients : status'[c] \in {"stranger", "member"} =>
               status[c] \in {"stranger", "member"}
    BY <1>2 DEF AcceptInvite, RemoveMember, DeleteAccount, DeleteWorkspace,
       TrashOrRestoreFile, PurgeFile, vars, Typed, OthersOK
  <2>3. QED
    BY <1>1, <2>1, <2>2
<1>3. QED
  BY <1>2, BeginsLates, WorksLates DEF Next, Begins

\* A member who was removed has no more accepted of him, and searches no more,
\* than was under way, one request per handler.
THEOREM RemovalIsEffective == Spec => []RemovalTakesHold
<1>1. Init => LatesCounted
  <2> SUFFICES ASSUME Init, NEW c \in Clients
               PROVE  late[c] + Cardinality(Pending(c)) <= Cardinality(Handlers) /\ late[c] = 0
    BY DEF LatesCounted
  <2>1. late[c] = 0
    BY DEF Init
  <2>2. QED
    BY <2>1, PendingFinite
<1>2. Typed /\ LatesCounted => RemovalTakesHold
  <2> SUFFICES ASSUME Typed, LatesCounted, NEW c \in Clients
               PROVE  late[c] <= Cardinality(Handlers)
    BY DEF RemovalTakesHold
  <2>1. late[c] \in Nat /\ late[c] + Cardinality(Pending(c)) <= Cardinality(Handlers)
    BY DEF Typed, OthersOK, LatesCounted
  <2>2. QED
    BY <2>1, PendingFinite
<1>3. QED
  BY <1>1, <1>2, InitTyped, TypedStep, LatesStep, PTL DEF Spec

-----------------------------------------------------------------------------
(* The room knows the rows *)

Announcing(p, i) == req[p].at = "emit" /\ req[p].item = i

\* What the room should hear of a row.
Version(i) == IF i \in DOMAIN rows THEN rows[i].version ELSE Gone

\* One request at most has the row to announce, as it is; when none has, it
\* was announced.
Known(i) ==
  /\ \A p, q \in Handlers : Announcing(p, i) /\ Announcing(q, i) => p = q
  /\ \A p \in Handlers : Announcing(p, i) => req[p].version = Version(i)
  /\ (\A p \in Handlers : ~Announcing(p, i)) =>
       \/ i \in OfKind("private") \/ told[i] = Version(i)
       \/ i \notin DOMAIN rows /\ told[i] = 0

\* Of a private task and of a row there is not yet, the room hears nothing.
RoomTold ==
  /\ \A i \in Items : i > issued => told[i] = 0
  /\ \A i \in OfKind("private") : told[i] = 0 /\ \A p \in Handlers : ~Announcing(p, i)
  /\ \A i \in (1..issued) \ excused : Known(i)

\* Nothing is written or announced, and what goes is excused.
LEMMA AsideTold ==
  ASSUME RoomTold, UNCHANGED <<issued, told>>, excused \subseteq excused',
         \A p \in Handlers : req'[p].at = "emit" <=> req[p].at = "emit",
         \A p \in Handlers : req'[p].at = "emit" => req'[p] = req[p],
         OfKind("private")' \subseteq OfKind("private"),
         \A i \in (1..issued) \ excused' :
           /\ i \in DOMAIN rows' <=> i \in DOMAIN rows
           /\ i \in OfKind("private") => i \in OfKind("private")'
           /\ Version(i)' = Version(i)
  PROVE  RoomTold'
<1>1. \A p \in Handlers : \A i : Announcing(p, i)' <=> Announcing(p, i)
  BY DEF Announcing
<1>2. \A i \in (1..issued) \ excused' : Known(i)'
  <2> SUFFICES ASSUME NEW i \in (1..issued) \ excused' PROVE Known(i)'
    OBVIOUS
  <2>1. Known(i)
    BY DEF RoomTold
  <2>2. \A p \in Handlers : Announcing(p, i) => req'[p].version = req[p].version
    BY DEF Announcing
  <2>3. Version(i)' = Version(i)
    OBVIOUS
  <2>4. QED
    BY <1>1, <2>1, <2>2, <2>3 DEF Known
<1>3. QED
  BY <1>1, <1>2 DEF RoomTold

\* A row is written: the room will hear of it, or another request had not
\* announced it yet, or it is private.
LEMMA WrittenTold ==
  ASSUME Typed, Typed', RoomTold, NEW p \in Handlers, NEW i \in Items,
         NEW version \in 0..Gone,
         req[p].at = "write", Written(p, i, version),
         i \in 1..issued', issued <= issued', i <= issued \/ i = issued + 1,
         issued' = issued \/ issued' = i,
         Version(i)' = version,
         i \in DOMAIN rows => rows[i].kind = req[p].kind,
         i \in DOMAIN rows' => rows'[i].kind = req[p].kind,
         i \in DOMAIN rows \/ i = issued + 1,
         \A j : j # i => /\ j \in DOMAIN rows' <=> j \in DOMAIN rows
                         /\ j \in DOMAIN rows => rows'[j] = rows[j]
  PROVE  RoomTold'
<1>0. /\ issued \in Nat /\ issued' \in Nat /\ i \in Nat /\ DOMAIN rows \subseteq 1..issued
      /\ req \in [Handlers -> Request] /\ told' = told /\ excused \subseteq excused'
      /\ \A q \in Handlers : req[q].at = "emit" => req[q].item \in 1..issued
  BY DEF Typed, RowsOK, RequestsOK, Asked, Written, Items
<1>1. \A j : j # i => /\ Version(j)' = Version(j)
                      /\ j \in OfKind("private")' <=> j \in OfKind("private")
  BY DEF Version, OfKind
<1>2. \A q \in Handlers : \A j : q # p => Announcing(q, j)' <=> Announcing(q, j)
  <2>1. \A q \in Handlers \ {p} : req'[q] = req[q]
    BY <1>0, WrittenMoves DEF Moved
  <2>2. QED
    BY <2>1 DEF Announcing
<1>3. \A q \in Handlers \ {p} : req'[q] = req[q]
  BY <1>0, WrittenMoves DEF Moved
<1>4. \A j : ~Announcing(p, j)
  BY DEF Announcing
<1>5. (\A j \in Items : j > issued => told[j] = 0)'
  BY <1>0, WorkspaceAssumption DEF RoomTold, Items
<1>6. CASE req[p].kind = "private"
  <2>1. \A j : ~Announcing(p, j)'
    BY <1>0, <1>6, WrittenMoves DEF Announcing, Moved
  <2>2. \A q \in Handlers : \A j : Announcing(q, j)' <=> Announcing(q, j)
    BY <1>2, <1>4, <2>1
  <2>3. told[i] = 0 /\ \A q \in Handlers : ~Announcing(q, i)
    <3>1. CASE i \in DOMAIN rows
      BY <1>6, <3>1 DEF RoomTold, OfKind
    <3>2. CASE i = issued + 1
      BY <1>0, <3>2 DEF RoomTold, Announcing
    <3>3. QED
      BY <3>1, <3>2
  <2>4. i \in DOMAIN rows' => i \in OfKind("private")'
    BY <1>6 DEF OfKind
  <2>5. Known(i)'
    BY <1>0, <2>2, <2>3, <2>4 DEF Known
  <2>6. ASSUME NEW j \in (1..issued') \ excused', j # i PROVE Known(j)'
    <3>1. j \in (1..issued) \ excused
      BY <1>0, <2>6
    <3>2. Known(j)
      BY <3>1 DEF RoomTold
    <3>3. \A q \in Handlers : Announcing(q, j) => req'[q] = req[q]
      BY <1>3, <1>4
    <3>4. QED
      BY <1>0, <1>1, <2>2, <2>6, <3>2, <3>3 DEF Known
  <2>7. ASSUME NEW j \in OfKind("private")'
        PROVE  told'[j] = 0 /\ \A q \in Handlers : ~Announcing(q, j)'
    BY <1>0, <1>1, <2>2, <2>3, <2>7 DEF RoomTold
  <2>8. QED
    BY <1>5, <2>5, <2>6, <2>7 DEF RoomTold
<1>7. CASE req[p].kind # "private"
  <2>1. PICK r : Moved(p, r) /\ r.at = "emit" /\ r.item = i /\ r.version = version
    BY <1>0, <1>7, WrittenMoves
  <2>2. \A j : Announcing(p, j)' <=> j = i
    BY <2>1 DEF Announcing, Moved
  <2>3. req'[p].version = version
    BY <2>1 DEF Moved
  <2>4. i \notin OfKind("private") /\ i \notin OfKind("private")'
    BY <1>7 DEF OfKind
  <2>5. ASSUME i \notin excused' PROVE Known(i)'
    <3>1. \A q \in Handlers \ {p} : ~Announcing(q, i)
      BY <2>5 DEF Written, Unannounced, At, Announcing
    <3>2. \A q \in Handlers : Announcing(q, i)' <=> q = p
      BY <1>2, <2>2, <3>1
    <3>3. QED
      BY <2>3, <3>2 DEF Known
  <2>6. ASSUME NEW j \in (1..issued') \ excused', j # i PROVE Known(j)'
    <3>1. j \in (1..issued) \ excused
      BY <1>0, <2>6
    <3>2. Known(j)
      BY <3>1 DEF RoomTold
    <3>3. \A q \in Handlers : Announcing(q, j)' <=> Announcing(q, j)
      BY <1>2, <1>4, <2>2, <2>6
    <3>4. \A q \in Handlers : Announcing(q, j) => req'[q] = req[q]
      BY <1>3, <1>4
    <3>5. QED
      BY <1>0, <1>1, <2>6, <3>2, <3>3, <3>4 DEF Known
  <2>7. ASSUME NEW j \in OfKind("private")'
        PROVE  told'[j] = 0 /\ \A q \in Handlers : ~Announcing(q, j)'
    <3>1. j # i
      BY <2>4
    <3>2. j \in OfKind("private")
      BY <1>1, <3>1
    <3>3. QED
      BY <1>0, <1>2, <2>2, <3>1, <3>2 DEF RoomTold
  <2>8. QED
    BY <1>5, <2>5, <2>6, <2>7 DEF RoomTold
<1>8. QED
  BY <1>6, <1>7

\* A request creates, updates or deletes its row.
LEMMA WriteTold ==
  ASSUME Typed, Typed', RoomTold, NEW p \in Handlers,
         CreateRow(p) \/ UpdateRow(p) \/ DeleteRow(p)
  PROVE  RoomTold'
<1>1. /\ req[p] \in Request /\ Asked(req[p]) /\ issued \in Nat /\ issued \in 0..MaxItems
      /\ DOMAIN rows \subseteq 1..issued /\ MaxItems \in Nat /\ req[p].at = "write"
  BY WorkspaceAssumption
     DEF Typed, RowsOK, RequestsOK, CreateRow, UpdateRow, DeleteRow, At
<1>2. CASE CreateRow(p)
  <2>0. PICK i : i = issued + 1
    OBVIOUS
  <2>1. i \in Items /\ issued' = i /\ i \in 1..issued' /\ issued <= issued' /\ i \notin DOMAIN rows
    BY <1>1, <1>2, <2>0 DEF CreateRow, Items
  <2>2. /\ DOMAIN rows' = DOMAIN rows \cup {i}
        /\ rows'[i] = [kind |-> req[p].kind, author |-> req[p].user, version |-> 1]
        /\ \A j \in DOMAIN rows : rows'[j] = rows[j]
    BY <1>2, <2>0, <2>1 DEF CreateRow
  <2>3. Written(p, i, 1) /\ 1 \in 0..Gone
    BY <1>2, <2>0, WorkspaceAssumption DEF CreateRow, Gone
  <2>4. Version(i)' = 1 /\ rows'[i].kind = req[p].kind
    BY <2>2 DEF Version
  <2>5. QED
    BY <1>1, <2>0, <2>1, <2>2, <2>3, <2>4, WrittenTold
<1>3. CASE UpdateRow(p) \/ DeleteRow(p)
  <2>0. PICK i : i = req[p].item
    OBVIOUS
  <2>1. /\ i \in DOMAIN rows /\ i \in Items /\ i \in 1..issued /\ issued' = issued
        /\ rows[i].kind = req[p].kind /\ rows[i] \in Row
    BY <1>1, <1>3, <2>0 DEF UpdateRow, DeleteRow, At, Items, Asked, Typed, RowsOK
  <2>2. CASE UpdateRow(p)
    <3>0. PICK x, v : x = [rows[i] EXCEPT !.version = @ + 1] /\ v = rows[i].version + 1
      OBVIOUS
    <3>1. x.version = v /\ x.kind = rows[i].kind
      BY <2>1, <3>0 DEF Row
    <3>2. rows' = [rows EXCEPT ![i] = x] /\ Written(p, i, v)
      BY <2>0, <2>2, <3>0 DEF UpdateRow
    <3>3. v \in 0..Gone
      BY <2>1, <3>0, WorkspaceAssumption DEF Row, Gone
    <3>4. /\ DOMAIN rows' = DOMAIN rows /\ rows'[i] = x
          /\ \A j \in DOMAIN rows : j # i => rows'[j] = rows[j]
      BY <2>1, <3>2
    <3>5. Version(i)' = v
      BY <2>1, <3>1, <3>4 DEF Version
    <3>6. QED
      BY <1>1, <2>1, <3>1, <3>2, <3>3, <3>4, <3>5, WrittenTold
  <2>3. CASE DeleteRow(p)
    <3>1. DOMAIN rows' = DOMAIN rows \ {i} /\ \A j \in DOMAIN rows' : rows'[j] = rows[j]
      BY <2>0, <2>3 DEF DeleteRow, Without
    <3>2. Version(i)' = Gone /\ Written(p, i, Gone) /\ Gone \in 0..Gone
      BY <2>0, <2>3, <3>1, WorkspaceAssumption DEF Version, DeleteRow, Gone
    <3>3. QED
      BY <1>1, <2>1, <3>1, <3>2, WrittenTold
  <2>4. QED
    BY <1>3, <2>2, <2>3
<1>4. QED
  BY <1>2, <1>3

\* A row is announced.
LEMMA EmitTold ==
  ASSUME Typed, RoomTold, NEW p \in Handlers, NEW kind, Emit(p, kind)
  PROVE  RoomTold'
<1> DEFINE i == req[p].item
<1>1. /\ req \in [Handlers -> Request] /\ i \in 1..issued /\ i \in Items /\ issued \in Nat
      /\ req[p].at = "emit" /\ told \in [Items -> 0..Gone]
  BY WorkspaceAssumption DEF Typed, RequestsOK, RowsOK, OthersOK, Asked, Emit, At, Items
<1>2. UNCHANGED <<issued, rows, excused>>
  BY DEF Emit
<1>3. told'[i] = req[p].version /\ \A j \in Items : j # i => told'[j] = told[j]
  BY <1>1 DEF Emit
<1>4. Moved(p, Idle) /\ Idle.at = "idle"
  BY <1>1, DoneMoves DEF Emit
<1>5. \A q \in Handlers : \A j : Announcing(q, j)' <=> q # p /\ Announcing(q, j)
  BY <1>4 DEF Announcing, Moved
<1>6. Announcing(p, i) /\ \A j : j # i => ~Announcing(p, j)
  BY <1>1 DEF Announcing
<1>7. \A q \in Handlers : q # p => req'[q] = req[q]
  BY <1>4 DEF Moved
<1>8. \A j : Version(j)' = Version(j) /\ (j \in OfKind("private")' <=> j \in OfKind("private"))
  BY <1>2 DEF Version, OfKind
<1>9. ASSUME NEW j \in (1..issued) \ excused PROVE Known(j)'
  <2>1. Known(j) /\ j \in Items
    BY WorkspaceAssumption DEF RoomTold, Typed, RowsOK, Items
  <2>2. CASE j = i
    <3>1. \A q \in Handlers : ~Announcing(q, j)'
      BY <1>5, <1>6, <2>1, <2>2 DEF Known
    <3>2. told'[j] = Version(j)
      BY <1>3, <1>6, <2>1, <2>2 DEF Known
    <3>3. QED
      BY <1>8, <3>1, <3>2 DEF Known
  <2>3. CASE j # i
    <3>1. \A q \in Handlers : Announcing(q, j)' <=> Announcing(q, j)
      BY <1>5, <1>6, <2>3
    <3>2. \A q \in Handlers : Announcing(q, j) => req'[q] = req[q]
      BY <1>6, <1>7, <2>3
    <3>3. told'[j] = told[j]
      BY <1>3, <2>1, <2>3
    <3>4. QED
      BY <1>2, <1>8, <2>1, <3>1, <3>2, <3>3 DEF Known
  <2>4. QED
    BY <2>2, <2>3
<1>10. ASSUME NEW j \in OfKind("private")
       PROVE  told'[j] = 0 /\ \A q \in Handlers : ~Announcing(q, j)'
  <2>1. told[j] = 0 /\ (\A q \in Handlers : ~Announcing(q, j)) /\ j # i
    BY <1>6 DEF RoomTold
  <2>2. j \in Items
    BY WorkspaceAssumption DEF Typed, RowsOK, OfKind, Items
  <2>3. QED
    BY <1>3, <1>5, <2>1, <2>2
<1>11. ASSUME NEW j \in Items, j > issued PROVE told'[j] = 0
  BY <1>1, <1>3, <1>11 DEF RoomTold
<1>12. QED
  BY <1>2, <1>8, <1>9, <1>10, <1>11 DEF RoomTold

\* The steps that neither write a row nor announce one, and those that take
\* rows with something else.
LEMMA RestTold ==
  ASSUME Typed, RoomTold,
         \/ \E p \in Handlers, u \in Users : Begins(p, u)
         \/ \E p \in Handlers : WriteThrows(p) \/ EnterRoom(p) \/ Search(p)
         \/ \E c \in Clients : AcceptInvite(c) \/ RemoveMember(c) \/ DeleteAccount(c)
         \/ DeleteWorkspace \/ TrashOrRestoreFile \/ PurgeFile
         \/ UNCHANGED vars
  PROVE  RoomTold'
<1>1. CASE \E p \in Handlers, u \in Users : Begins(p, u)
  <2>1. PICK p \in Handlers, u \in Users : Begins(p, u)
    BY <1>1
  <2>2. PICK r : Moved(p, r) /\ r.at = "write" /\ req[p].at = "idle"
    BY <2>1, BeginsMove
  <2>3. UNCHANGED <<issued, told, excused, rows>>
    BY <2>1, BeginsMove
  <2>4. QED
    BY <2>2, <2>3, AsideTold DEF Moved, OfKind, Version
<1>2. CASE \E p \in Handlers : WriteThrows(p) \/ EnterRoom(p) \/ Search(p)
  <2>1. PICK p \in Handlers : WriteThrows(p) \/ EnterRoom(p) \/ Search(p)
    BY <1>2
  <2>2. Moved(p, Idle) /\ Idle.at = "idle" /\ req[p].at = "write"
    BY <2>1, DoneMoves DEF WriteThrows, EnterRoom, Search, At, Typed, RequestsOK
  <2>3. UNCHANGED <<issued, told, excused, rows>>
    BY <2>1 DEF WriteThrows, EnterRoom, Search
  <2>4. QED
    BY <2>2, <2>3, AsideTold DEF Moved, OfKind, Version
<1>3. ASSUME UNCHANGED <<req, issued, told>>, NEW S, DOMAIN rows' = DOMAIN rows \ S,
             excused' = excused \cup S,
             \A i \in DOMAIN rows' : /\ rows'[i].kind = rows[i].kind
                                     /\ rows'[i].version = rows[i].version
      PROVE  RoomTold'
  <2>1. (OfKind("private") \subseteq OfKind("private"))'
        /\ OfKind("private")' \subseteq OfKind("private")
    BY <1>3 DEF OfKind
  <2>2. \A i \in (1..issued) \ excused' :
           /\ i \in DOMAIN rows' <=> i \in DOMAIN rows
           /\ i \in OfKind("private") => i \in OfKind("private")'
           /\ Version(i)' = Version(i)
    BY <1>3 DEF OfKind, Version
  <2>3. QED
    BY <1>3, <2>1, <2>2, AsideTold
<1>4. CASE \E c \in Clients : DeleteAccount(c)
  <2>1. PICK c \in Clients : DeleteAccount(c)
    BY <1>4
  <2> DEFINE lost == By(c) \cap OfKind("boardComment")
             x(i) == [rows[i] EXCEPT !.author = IF @ = c THEN NoAuthor ELSE @]
  <2>2. rows' = [i \in DOMAIN rows \ lost |-> x(i)] /\ excused' = excused \cup lost
        /\ UNCHANGED <<req, issued, told>>
    BY <2>1 DEF DeleteAccount
  <2>3. \A i \in DOMAIN rows : x(i).kind = rows[i].kind /\ x(i).version = rows[i].version
    BY DEF Typed, RowsOK, Row
  <2> HIDE DEF x, lost
  <2>4. QED
    BY <1>3, <2>2, <2>3
<1>5. CASE DeleteWorkspace \/ PurgeFile
  <2>1. PICK S : /\ rows' = Without(rows, S) /\ excused' = excused \cup S
                 /\ UNCHANGED <<req, issued, told>>
    BY <1>5 DEF DeleteWorkspace, PurgeFile
  <2>2. QED
    BY <1>3, <2>1 DEF Without
<1>6. CASE \/ \E c \in Clients : AcceptInvite(c) \/ RemoveMember(c)
           \/ TrashOrRestoreFile \/ UNCHANGED vars
  <2>1. UNCHANGED <<req, issued, told, rows, excused>>
    BY <1>6 DEF AcceptInvite, RemoveMember, TrashOrRestoreFile, vars
  <2>2. QED
    BY <2>1, AsideTold DEF OfKind, Version
<1>7. QED
  BY <1>1, <1>2, <1>4, <1>5, <1>6

\* Every step leaves the room informed.
LEMMA ToldStep == Typed /\ Typed' /\ RoomTold /\ [Next]_vars => RoomTold'
BY RestTold, WriteTold, EmitTold
   DEF Next, Begins, EmitTask, EmitLink, EmitFileComment, BroadcastBoardComment

\* Unless two requests changed a row at once or it went with something else,
\* the last announcement of a row says what the row is.
THEOREM RoomIsInformed == Spec => []RoomKnowsRows
<1>1. Init => RoomTold
  <2> SUFFICES ASSUME Init PROVE RoomTold
    OBVIOUS
  <2>1. DOMAIN rows = {} /\ issued = 0 /\ \A i \in Items : told[i] = 0
    BY DEF Init
  <2>2. QED
    BY <2>1 DEF RoomTold, OfKind
<1>2. Typed /\ RoomTold => RoomKnowsRows
  <2> SUFFICES ASSUME Typed, RoomTold, NEW i \in (1..issued) \ excused,
                      \A p \in Handlers : ~(At(p, "emit") /\ req[p].item = i)
               PROVE  IF i \notin DOMAIN rows THEN told[i] \in {0, Gone}
                      ELSE rows[i].kind # "private" => told[i] = rows[i].version
    BY DEF RoomKnowsRows
  <2>1. Known(i) /\ \A p \in Handlers : ~Announcing(p, i)
    BY DEF RoomTold, Announcing, At
  <2>2. QED
    BY <2>1 DEF Known, Version, OfKind
<1>3. QED
  BY <1>1, <1>2, InitTyped, TypedStep, ToldStep, PTL DEF Spec

-----------------------------------------------------------------------------
(* What a search finds *)

\* Rows, and the numbers of the file, the workspace and the chat beside them.
LEMMA RowsApart ==
  ASSUME Typed
  PROVE  /\ DOMAIN rows \subseteq Items
         /\ TheFile \notin DOMAIN rows /\ TheWorkspace \notin DOMAIN rows
         /\ TheChat \notin DOMAIN rows
BY WorkspaceAssumption DEF Typed, RowsOK, Items, TheFile, TheWorkspace, TheChat

\* With access a search finds what the lists show.
LEMMA FoundWithAccess ==
  ASSUME Typed, NEW p \in Handlers, Access(req[p].user)
  PROVE  Found(p) \subseteq Listed(req[p].user)
<1>1. exists
  BY DEF Access
<1>2. QED
  BY <1>1
     DEF Found, Listed, FileHits, FileCommentHits, TaskHits, LinkHits, BoardCommentHits,
         MessageHits, WorkspaceHits, PrivateHits, ListWorkspaces, FindWorkspace,
         ListMessages, ListFiles, ListFileComments, ListTasks, ListLinks,
         ListBoardComments, ListPrivate, FileAccess

\* Neither a search nor a data export finds what the lists would not show the
\* user then, but for the owner's private tasks without their workspace, and
\* what a member removed in between was let into.
THEOREM SearchShowsLists == Spec => []SearchWithinLists
<1>1. Typed => SearchWithinLists
  <2> SUFFICES ASSUME Typed PROVE SearchWithinLists
    OBVIOUS
  <2> DEFINE orphans(u) == IF exists THEN {} ELSE OfKind("private") \cap By(u)
             before(u) == IF u \in Now("removed") \cup Now("deleted")
                          THEN (WorkspaceHits \cup MessageHits \cup FileHits \cup DOMAIN rows)
                               \ (IF file = "live" THEN {} ELSE OfKind("fileComment"))
                          ELSE {}
  <2>1. ASSUME NEW p \in Handlers, At(p, "write"), req[p].op \in {"scoped", "global"}
        PROVE  LET u == req[p].user
               IN  Found(p) \subseteq Listed(u) \cup orphans(u) \cup before(u)
    <3> DEFINE u == req[p].user
    <3>0. u \in Users /\ req[p].item \in {0, 1}
          /\ (req[p].item = 1 => u \notin Now("stranger"))
      BY <2>1 DEF At, Typed, RequestsOK, Request, Asked
    <3>1. CASE Access(u)
      BY <3>1, FoundWithAccess
    <3>2. CASE ~Access(u) /\ ~exists
      <4>1. file = "purged" /\ DOMAIN rows = OfKind("private")
        BY <3>2 DEF Typed, RowsOK
      <4>2. /\ FileHits = {} /\ FileCommentHits = {} /\ TaskHits = {} /\ LinkHits = {}
            /\ BoardCommentHits = {} /\ MessageHits = {} /\ WorkspaceHits = {}
        BY <3>2, <4>1 DEF FileHits, FileCommentHits, TaskHits, LinkHits, BoardCommentHits,
           MessageHits, WorkspaceHits, OfKind
      <4>3. PrivateHits(u, req[p].op = "scoped") \subseteq orphans(u)
        BY <3>2 DEF PrivateHits
      <4>4. QED
        BY <4>2, <4>3 DEF Found
    <3>3. CASE ~Access(u) /\ exists
      <4>1. u # Owner /\ u \in Clients /\ u \notin Now("member")
        BY <3>0, <3>3 DEF Access, Users
      <4>2. CASE req[p].item = 0
        BY <4>1, <4>2 DEF Found
      <4>3. CASE req[p].item = 1
        <5>1. u \in Now("removed") \cup Now("deleted")
          BY <3>0, <4>1, <4>3 DEF Now, Typed, OthersOK, Statuses
        <5>2. Found(p) \subseteq FileHits \cup FileCommentHits \cup TaskHits \cup LinkHits
                \cup BoardCommentHits \cup MessageHits \cup WorkspaceHits
          BY <4>1 DEF Found
        <5>3. /\ TaskHits \cup LinkHits \cup BoardCommentHits
                   \subseteq DOMAIN rows \ OfKind("fileComment")
              /\ FileCommentHits \subseteq
                   DOMAIN rows \ (IF file = "live" THEN {} ELSE OfKind("fileComment"))
          BY DEF TaskHits, LinkHits, BoardCommentHits, FileCommentHits, OfKind
        <5>4. FileHits \cup MessageHits \cup WorkspaceHits
                \subseteq {TheFile, TheChat, TheWorkspace}
              /\ {TheFile, TheChat, TheWorkspace} \cap OfKind("fileComment") = {}
          BY RowsApart DEF FileHits, MessageHits, WorkspaceHits, OfKind
        <5>5. Found(p) \subseteq before(u)
          BY <5>1, <5>2, <5>3, <5>4
        <5>6. QED
          BY <5>5
      <4>4. QED
        BY <3>0, <4>2, <4>3
    <3>4. QED
      BY <3>1, <3>2, <3>3
  <2>2. ASSUME NEW u \in Users
        PROVE  ExportOwnData(u) \subseteq Listed(u) \cup orphans(u)
    <3>1. (IF Access(u) THEN {TheWorkspace} ELSE {}) \subseteq Listed(u)
      BY DEF Listed, ListWorkspaces, FindWorkspace
    <3>2. OfKind("private") \cap By(u) \subseteq Listed(u) \cup orphans(u)
      BY DEF Typed, RowsOK, By, Listed, ListPrivate
    <3>3. QED
      BY <3>1, <3>2 DEF ExportOwnData
  <2>3. QED
    BY <2>1, <2>2 DEF SearchWithinLists
<1>2. QED
  BY <1>1, InitTyped, TypedStep, PTL DEF Spec
=============================================================================
