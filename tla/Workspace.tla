------------------------------ MODULE Workspace ------------------------------
(***************************************************************************)
(* One workspace and what its people keep in it: shared tasks, shared      *)
(* links, comments on a file and on a board, the owner's private tasks;    *)
(* membership, the room the changes are announced in, and the search.  A   *)
(* change is three steps, since the service awaits between them: what it   *)
(* reads first, the row it writes, the announcement.  A request that fails *)
(* a check is not a step.  FileStore has the files themselves, Whiteboard  *)
(* the boards.                                                             *)
(***************************************************************************)
EXTENDS Naturals, FiniteSets

CONSTANTS
  Owner, Clients,  \* the users
  NoAuthor,        \* an author whose account was deleted
  Handlers,        \* bound: requests in flight at once
  MaxItems,        \* bound: rows created
  MaxVersion       \* bound: updates of a row, plus one

ASSUME WorkspaceAssumption ==
  /\ Owner \notin Clients /\ NoAuthor \notin Clients \cup {Owner}
  /\ IsFiniteSet(Clients) /\ IsFiniteSet(Handlers)
  /\ MaxItems \in Nat \ {0} /\ MaxVersion \in Nat \ {0}

VARIABLES
  exists,   \* whether the workspace's row does
  status,   \* a client's: stranger, member, removed, deleted
  file,     \* a file of the workspace: live, trashed, purged
  issued,   \* rows created so far
  rows,     \* those that exist: kind, author, version
  told,     \* what the room heard last of each row: a version, or Gone
  req,      \* the request each handler is serving
  late,     \* ghost: what each client had accepted, or searched, after his removal
  excused   \* ghost: rows changed by two requests at once, or by a cascade

vars == <<exists, status, file, issued, rows, told, req, late, excused>>

Users == Clients \cup {Owner}
TheFile == 0                   \* the file, the workspace and its chat, where a
TheWorkspace == MaxItems + 1   \* list or a search names them beside the rows
TheChat == MaxItems + 2
Kinds == {"task", "link", "fileComment", "boardComment", "private"}
Items == 1..MaxItems
Gone == MaxVersion + 1

Now(s) == {c \in Clients : status[c] = s}

Idle == [at |-> "idle", user |-> Owner, op |-> "none", kind |-> "task",
         item |-> 0, version |-> 0]

At(p, step) == req[p].at = step
Done(p) == req' = [req EXCEPT ![p] = Idle]
Begin(p, u, what, kind, item) ==
  /\ At(p, "idle")
  /\ u \notin Now("deleted")
  /\ req' = [req EXCEPT ![p] = [@ EXCEPT !.at = "write", !.user = u,
                                !.op = what, !.kind = kind, !.item = item]]
  /\ UNCHANGED <<exists, status, file, issued, rows, told, late, excused>>

Access(u) == exists /\ u \in {Owner} \cup Now("member")
MayJoin(u) == Access(u)
FileAccess(u) == Access(u) /\ file = "live"
OfKind(kind) == {i \in DOMAIN rows : rows[i].kind = kind}
By(u) == {i \in DOMAIN rows : rows[i].author = u}
Without(f, S) == [i \in DOMAIN f \ S |-> f[i]]
AsOwner(u) == IF u = Owner THEN DOMAIN rows ELSE {}

Init ==
  /\ exists = TRUE /\ file = "live"
  /\ status = [c \in Clients |-> "stranger"]
  /\ issued = 0 /\ rows = <<>>
  /\ told = [i \in Items |-> 0]
  /\ req = [p \in Handlers |-> Idle]
  /\ late = [c \in Clients |-> 0] /\ excused = {}

-----------------------------------------------------------------------------
(* What each request checks *)

ListTasks(u) == IF Access(u) THEN OfKind("task") ELSE {}
ListLinks(u) == IF Access(u) THEN OfKind("link") ELSE {}
ListFiles(u) == IF FileAccess(u) THEN {TheFile} ELSE {}
ListFileComments(u) == IF FileAccess(u) THEN OfKind("fileComment") ELSE {}
ListBoardComments(u) == IF Access(u) THEN OfKind("boardComment") ELSE {}
ListPrivate(u) ==
  IF exists /\ u = Owner THEN OfKind("private") \cap By(u) ELSE {}

\* Older messages; the sockets of the room have the newer ones.
ListMessages(u) == IF Access(u) THEN {TheChat} ELSE {}

\* The owner is a freelancer and sees what he owns, a client what he is a
\* member of.
ListWorkspaces(u) == IF Access(u) THEN {TheWorkspace} ELSE {}

\* The page of the workspace.
FindWorkspace(u) == IF Access(u) THEN {TheWorkspace} ELSE {}

CreateTask(p, u) == Access(u) /\ Begin(p, u, "create", "task", 0)
CreateLink(p, u) == Access(u) /\ Begin(p, u, "create", "link", 0)
CommentOnFile(p, u) ==
  FileAccess(u) /\ Begin(p, u, "create", "fileComment", 0)
CommentOnBoard(p, u) == Access(u) /\ Begin(p, u, "create", "boardComment", 0)

\* Mutant: a member may create private tasks.
CreatePrivateAsMember(p, u) == Access(u) /\ Begin(p, u, "create", "private", 0)

CreatePrivate(p, u) ==
  exists /\ u = Owner /\ Begin(p, u, "create", "private", 0)

\* Mutant: its creator may change a task, as he may delete it.
UpdateOwnTask(p, u) ==
  \E i \in OfKind("task") \cap (By(u) \cup AsOwner(u)) :
    Begin(p, u, "update", "task", i)

UpdateTask(p, u) ==
  Access(u) /\ \E i \in OfKind("task") : Begin(p, u, "update", "task", i)

UpdatePrivate(p, u) ==
  \E i \in OfKind("private") \cap By(u) : Begin(p, u, "update", "private", i)

DeleteTask(p, u) ==
  \E i \in OfKind("task") \cap (By(u) \cup AsOwner(u)) :
    Begin(p, u, "delete", "task", i)

DeleteLink(p, u) ==
  \E i \in OfKind("link") \cap (By(u) \cup AsOwner(u)) :
    Begin(p, u, "delete", "link", i)

DeleteFileComment(p, u) ==
  \E i \in OfKind("fileComment") \cap (By(u) \cup AsOwner(u)) :
    Begin(p, u, "delete", "fileComment", i)

DeleteBoardComment(p, u) ==
  \E i \in OfKind("boardComment") \cap By(u) :
    Begin(p, u, "delete", "boardComment", i)

DeletePrivate(p, u) ==
  \E i \in OfKind("private") \cap By(u) : Begin(p, u, "delete", "private", i)

\* The room of the tasks, the links, the files or the boards: each gateway
\* asks the same of its own.
JoinBegin(p, u) == MayJoin(u) /\ Begin(p, u, "join", "task", 0)

-----------------------------------------------------------------------------
(* What it writes, and what it announces *)

\* Another request has written the row and not announced it yet.
Unannounced(p, i) ==
  \E q \in Handlers \ {p} : At(q, "emit") /\ req[q].item = i

CountLate(p) ==
  late' = [c \in Clients |->
    IF req[p].user = c /\ status[c] = "removed" THEN late[c] + 1 ELSE late[c]]

\* Private tasks are announced to nobody; who asked does not matter any more.
Written(p, i, version) ==
  /\ IF req[p].kind = "private"
     THEN Done(p)
     ELSE req' = [req EXCEPT ![p] =
                    [@ EXCEPT !.at = "emit", !.user = Owner, !.item = i,
                              !.version = version]]
  /\ excused' = IF Unannounced(p, i) THEN excused \cup {i} ELSE excused
  /\ UNCHANGED <<exists, status, file, told>>

\* The row refers to the workspace, its author and the file: all must exist.
CreateRow(p) ==
  LET r == req[p]
  IN  /\ At(p, "write") /\ r.op = "create"
      /\ issued < MaxItems
      /\ exists
      /\ r.user \notin Now("deleted")
      /\ r.kind = "fileComment" => file # "purged"
      /\ issued' = issued + 1
      /\ rows' = [i \in DOMAIN rows \cup {issued + 1} |->
           IF i = issued + 1
           THEN [kind |-> r.kind, author |-> r.user, version |-> 1]
           ELSE rows[i]]
      /\ CountLate(p)
      /\ Written(p, issued + 1, 1)

UpdateRow(p) ==
  LET i == req[p].item
  IN  /\ At(p, "write") /\ req[p].op = "update"
      /\ i \in DOMAIN rows
      /\ rows[i].version < MaxVersion
      /\ rows' = [rows EXCEPT ![i].version = @ + 1]
      /\ CountLate(p)
      /\ Written(p, i, rows[i].version + 1)
      /\ UNCHANGED issued

DeleteRow(p) ==
  LET i == req[p].item
  IN  /\ At(p, "write") /\ req[p].op = "delete"
      /\ i \in DOMAIN rows
      /\ rows' = Without(rows, {i})
      /\ Written(p, i, Gone)
      /\ UNCHANGED <<issued, late>>

\* What the row refers to has gone meanwhile, or the row itself, or the
\* database fails: the query throws.
WriteThrows(p) ==
  /\ At(p, "write") /\ req[p].op \in {"create", "update", "delete"}
  /\ Done(p)
  /\ UNCHANGED <<exists, status, file, issued, rows, told, late, excused>>

\* Who is in the room is not kept: a socket stays until it is closed.
EnterRoom(p) ==
  /\ At(p, "write") /\ req[p].op = "join"
  /\ CountLate(p)
  /\ Done(p)
  /\ UNCHANGED <<exists, status, file, issued, rows, told, excused>>

\* Mutant: what is announced is what the request read, not what it wrote.
EmitAsRead(p, kind) ==
  /\ At(p, "emit") /\ req[p].kind = kind
  /\ told' = [told EXCEPT ![req[p].item] =
       IF req[p].op = "update" THEN req[p].version - 1 ELSE req[p].version]
  /\ Done(p)
  /\ UNCHANGED <<exists, status, file, issued, rows, late, excused>>

Emit(p, kind) ==
  /\ At(p, "emit") /\ req[p].kind = kind
  /\ told' = [told EXCEPT ![req[p].item] = req[p].version]
  /\ Done(p)
  /\ UNCHANGED <<exists, status, file, issued, rows, late, excused>>

EmitTask(p) == Emit(p, "task")
EmitLink(p) == Emit(p, "link")
EmitFileComment(p) == Emit(p, "fileComment")
BroadcastBoardComment(p) == Emit(p, "boardComment")

-----------------------------------------------------------------------------
(* Membership, and what takes rows with it *)

\* acceptInvite: the account is a new one.
AcceptInvite(c) ==
  /\ exists /\ status[c] = "stranger"
  /\ status' = [status EXCEPT ![c] = "member"]
  /\ UNCHANGED <<exists, file, issued, rows, told, req, late, excused>>

RemoveMember(c) ==
  /\ exists /\ status[c] = "member"
  /\ status' = [status EXCEPT ![c] = "removed"]
  /\ UNCHANGED <<exists, file, issued, rows, told, req, late, excused>>

\* The client deletes his account: his comments on boards go with it, the
\* rest loses its author.
DeleteAccount(c) ==
  /\ status[c] \in {"member", "removed"}
  /\ status' = [status EXCEPT ![c] = "deleted"]
  /\ LET lost == By(c) \cap OfKind("boardComment")
     IN  /\ rows' = [i \in DOMAIN rows \ lost |->
              [rows[i] EXCEPT !.author = IF @ = c THEN NoAuthor ELSE @]]
         /\ excused' = excused \cup lost
  /\ UNCHANGED <<exists, file, issued, told, req, late>>

\* Everything goes with the workspace but the private tasks.
DeleteWorkspace ==
  /\ exists
  /\ exists' = FALSE /\ file' = "purged"
  /\ rows' = Without(rows, DOMAIN rows \ OfKind("private"))
  /\ excused' = excused \cup (DOMAIN rows \ OfKind("private"))
  /\ UNCHANGED <<status, issued, told, req, late>>

TrashOrRestoreFile ==
  /\ file \in {"live", "trashed"}
  /\ file' = IF file = "live" THEN "trashed" ELSE "live"
  /\ UNCHANGED <<exists, status, issued, rows, told, req, late, excused>>

PurgeFile ==
  /\ file = "trashed"
  /\ file' = "purged"
  /\ rows' = Without(rows, OfKind("fileComment"))
  /\ excused' = excused \cup OfKind("fileComment")
  /\ UNCHANGED <<exists, status, issued, told, req, late>>

-----------------------------------------------------------------------------
(* The search *)

\* Mutant: comments on a trashed file are found.
AnyCommentHits == OfKind("fileComment")

FileCommentHits == IF file = "live" THEN OfKind("fileComment") ELSE {}

FileHits == IF file = "live" THEN {TheFile} ELSE {}
MessageHits == IF exists THEN {TheChat} ELSE {}
WorkspaceHits == IF exists THEN {TheWorkspace} ELSE {}
TaskHits == OfKind("task")
LinkHits == OfKind("link")
BoardCommentHits == OfKind("boardComment")

\* A global search spans the private tasks that lost their workspace.
PrivateHits(u, scoped) ==
  IF scoped /\ ~exists THEN {} ELSE OfKind("private") \cap By(u)

\* The workspaces it may read are resolved first, and a scoped search
\* refused without access.  op: scoped or global; item: 1 with access.
SearchBegin(p, u) ==
  \/ Access(u) /\ Begin(p, u, "scoped", "task", 1)
  \/ Begin(p, u, "global", "task", IF Access(u) THEN 1 ELSE 0)

Found(p) ==
  LET u == req[p].user
      shared == FileHits \cup FileCommentHits \cup TaskHits \cup LinkHits
                \cup BoardCommentHits \cup MessageHits
  IN  (IF req[p].item = 1 THEN shared ELSE {})
      \cup (IF req[p].item = 1 /\ req[p].op = "global" THEN WorkspaceHits ELSE {})
      \cup (IF u = Owner THEN PrivateHits(u, req[p].op = "scoped") ELSE {})

\* The part of a user's data export that comes from here: the workspaces he
\* owns or is a member of, and his private tasks.
ExportOwnData(u) ==
  (IF Access(u) THEN {TheWorkspace} ELSE {}) \cup (OfKind("private") \cap By(u))

Search(p) ==
  /\ At(p, "write") /\ req[p].op \in {"scoped", "global"}
  /\ IF req[p].item = 1 THEN CountLate(p) ELSE UNCHANGED late
  /\ Done(p)
  /\ UNCHANGED <<exists, status, file, issued, rows, told, excused>>

-----------------------------------------------------------------------------

Next ==
  \/ \E p \in Handlers, u \in Users :
       \/ CreateTask(p, u) \/ CreateLink(p, u) \/ CommentOnFile(p, u)
       \/ CommentOnBoard(p, u) \/ CreatePrivate(p, u)
       \/ UpdateTask(p, u) \/ UpdatePrivate(p, u)
       \/ DeleteTask(p, u) \/ DeleteLink(p, u) \/ DeleteFileComment(p, u)
       \/ DeleteBoardComment(p, u) \/ DeletePrivate(p, u)
       \/ JoinBegin(p, u) \/ SearchBegin(p, u)
  \/ \E p \in Handlers :
       \/ CreateRow(p) \/ UpdateRow(p) \/ DeleteRow(p) \/ WriteThrows(p)
       \/ EmitTask(p) \/ EmitLink(p) \/ EmitFileComment(p)
       \/ BroadcastBoardComment(p) \/ EnterRoom(p) \/ Search(p)
  \/ \E c \in Clients : AcceptInvite(c) \/ RemoveMember(c) \/ DeleteAccount(c)
  \/ DeleteWorkspace \/ TrashOrRestoreFile \/ PurgeFile

Spec == Init /\ [][Next]_vars

-----------------------------------------------------------------------------
(* Properties *)

Row == [kind : Kinds, author : Users \cup {NoAuthor}, version : 1..MaxVersion]

Request == [at : {"idle", "write", "emit"}, user : Users,
            op : {"none", "create", "update", "delete", "join", "scoped", "global"},
            kind : Kinds, item : 0..MaxItems, version : 0..Gone]

\* Type invariant; a private task is the owner's, and without the workspace
\* only private tasks are left.
TypeOK ==
  /\ exists \in BOOLEAN /\ file \in {"live", "trashed", "purged"}
  /\ status \in [Clients -> {"stranger", "member", "removed", "deleted"}]
  /\ issued \in 0..MaxItems
  /\ DOMAIN rows \subseteq 1..issued /\ \A i \in DOMAIN rows : rows[i] \in Row
  /\ OfKind("private") \subseteq By(Owner)
  /\ ~exists => DOMAIN rows = OfKind("private")
  /\ told \in [Items -> 0..Gone]
  /\ req \in [Handlers -> Request]
  /\ late \in [Clients -> Nat] /\ excused \subseteq Items

\* A member who was removed creates, changes and joins nothing but what he
\* was let into before, and searches no more of it: one request per handler at
\* most, however long he stays signed in.  (What he created he may still
\* delete.)
RemovalTakesHold == \A c \in Clients : late[c] <= Cardinality(Handlers)

\* Whoever stays in the room knows the row: unless two requests changed it at
\* once or it went with something else, the last announcement of a row says
\* what the row now is ("so the other side updates without a refresh").
RoomKnowsRows ==
  \A i \in (1..issued) \ excused :
    (\A p \in Handlers : ~(At(p, "emit") /\ req[p].item = i)) =>
      IF i \notin DOMAIN rows THEN told[i] \in {0, Gone}
      ELSE rows[i].kind # "private" => told[i] = rows[i].version

Listed(u) ==
  (ListWorkspaces(u) \cap FindWorkspace(u)) \cup ListMessages(u)
  \cup ListFiles(u) \cup ListFileComments(u) \cup ListTasks(u)
  \cup ListLinks(u) \cup ListBoardComments(u) \cup ListPrivate(u)

\* Whatever happens between the resolving of the workspaces and the queries,
\* neither a search nor a data export finds what the lists would not show the
\* user then: except the owner's private tasks once their workspace is gone,
\* which no list shows, and for a search what a member removed in between was
\* let into (RemovalTakesHold bounds such searches).  So a client finds no
\* private task; the workspace he does find, as his list of workspaces shows
\* it, though the README says "`private_task` and `workspace` results are never
\* returned to clients": search asks for his role before the one and not before
\* the other.
SearchWithinLists ==
  LET orphans(u) == IF exists THEN {} ELSE OfKind("private") \cap By(u)
      before(u) == IF u \in Now("removed") \cup Now("deleted")
                   THEN (WorkspaceHits \cup MessageHits \cup FileHits \cup DOMAIN rows)
                        \ (IF file = "live" THEN {} ELSE OfKind("fileComment"))
                   ELSE {}
  IN  /\ \A p \in Handlers :
           At(p, "write") /\ req[p].op \in {"scoped", "global"} =>
             LET u == req[p].user
             IN  Found(p) \subseteq Listed(u) \cup orphans(u) \cup before(u)
      /\ \A u \in Users : ExportOwnData(u) \subseteq Listed(u) \cup orphans(u)
=============================================================================
