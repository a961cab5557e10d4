-------------------------------- MODULE Chat --------------------------------
(***************************************************************************)
(* The chat of one workspace and the notifications: sockets that connect,  *)
(* open and close the Messages tab and go away; messages and comments; the *)
(* in-memory registries that decide who is notified of them, and how.  A   *)
(* handler is a sequence of steps, one per awaited query; what it does     *)
(* between two queries is one step.                                        *)
(***************************************************************************)
EXTENDS Naturals, Sequences, FiniteSets

CONSTANTS
  Owner, Clients,  \* the users of the workspace
  Sockets, UserOf, \* bound: connections at once; whose they are
  Handlers,        \* bound: requests in flight at once
  MaxPosts         \* bound: messages and comments

Users == {Owner} \cup Clients

ASSUME ChatAssumption ==
  /\ Owner \notin Clients
  /\ IsFiniteSet(Clients) /\ IsFiniteSet(Sockets) /\ IsFiniteSet(Handlers)
  /\ UserOf \in [Sockets -> Users]
  /\ MaxPosts \in Nat

VARIABLES
  open,         \* sockets connected
  tab,          \* sockets whose Messages tab is open, as the client sees it
  room,         \* sockets in the room
  online,       \* PresenceService: the sockets it holds
  viewers,      \* messageViewers: the sockets it holds
  hasty,        \* ghost: users a socket of whom left, or left the tab, before
                \* the answer to its connecting or joining
  members,      \* clients with a member row
  accounts,     \* users whose account exists
  posts,        \* messages and comments: author; asked, who was to learn of
                \* it; reached, who did; ghosts: failed, whom his own failing
                \* row or mail cost it, or the end of the process or of the
                \* loop; behind, whom a gone account before him in the loop
  req           \* the request each handler is serving

sockets == <<open, tab, room>>
registries == <<online, viewers, hasty>>
people == <<members, accounts>>
vars == <<sockets, registries, people, posts, req>>

\* post: the one the handler dispatches; todo: whom it is still to notify.
Idle == [at |-> "idle", user |-> Owner, socket |-> {}, post |-> 0,
         todo |-> {}]

At(p, step) == req[p].at = step
Done(p) == req' = [req EXCEPT ![p] = Idle]
Begin(p, step, s) ==
  /\ At(p, "idle")
  /\ req' = [req EXCEPT ![p] =
       [Idle EXCEPT !.at = step, !.user = UserOf[s], !.socket = {s}]]

\* The socket does not wait for the answer to one of the steps.
LeaveEarly(s, steps) ==
  hasty' = IF \E p \in Handlers : req[p].at \in steps /\ s \in req[p].socket
           THEN hasty \cup {UserOf[s]} ELSE hasty
May(u) == u \in {Owner} \cup members
UsersOf(S) == {UserOf[s] : s \in S}

Init ==
  /\ open = {} /\ tab = {} /\ room = {}
  /\ online = {} /\ viewers = {} /\ hasty = {}
  /\ members = Clients /\ accounts = Users
  /\ posts = <<>>
  /\ req = [p \in Handlers |-> Idle]

-----------------------------------------------------------------------------
(* Connections and the Messages tab *)

\* The token is good; the user's status is looked up.  Events of the socket
\* are handled from now on.  (A socket's id is taken again, for a new
\* connection, once nothing holds it.)
HandleConnection(p, s) ==
  /\ s \notin open \cup online \cup viewers
  /\ \A q \in Handlers : s \notin req[q].socket
  /\ open' = open \cup {s}
  /\ Begin(p, "lookup", s)
  /\ UNCHANGED <<tab, room, registries, people, posts>>

\* PresenceService; a user is online with any socket.
PresenceAdd(S) == online' = online \cup S
PresenceRemove(S) == online' = online \ S
IsOnline(u) == u \in UsersOf(online)

\* The user is there and active: whether the socket is still there or not.
AddPresence(p) ==
  /\ At(p, "lookup") /\ req[p].user \in accounts
  /\ PresenceAdd(req[p].socket)
  /\ Done(p)
  /\ UNCHANGED <<sockets, viewers, hasty, people, posts>>

RemoveViewer(s) == viewers' = viewers \ {s}

\* Mutant: the viewer's entry stays.
DisconnectKeepsViewer(s) ==
  /\ s \in open
  /\ LeaveEarly(s, {"lookup", "join"})
  /\ open' = open \ {s} /\ tab' = tab \ {s} /\ room' = room \ {s}
  /\ PresenceRemove({s})
  /\ UNCHANGED <<viewers, people, posts, req>>

Closed(s) ==
  /\ open' = open \ {s} /\ tab' = tab \ {s} /\ room' = room \ {s}
  /\ PresenceRemove({s}) /\ RemoveViewer(s)

\* Also what rejectExpiredSocket does to a socket whose token has expired.
HandleDisconnect(s) ==
  /\ s \in open
  /\ LeaveEarly(s, {"lookup", "join"})
  /\ Closed(s)
  /\ UNCHANGED <<people, posts, req>>

\* The user is gone or suspended, or the lookup fails: the socket is closed.
RefuseConnection(p) ==
  /\ At(p, "lookup")
  /\ \E s \in req[p].socket :
       IF s \in open THEN LeaveEarly(s, {"join"}) /\ Closed(s)
       ELSE UNCHANGED <<sockets, registries>>
  /\ Done(p)
  /\ UNCHANGED <<people, posts>>

JoinRoom(p, s) ==
  /\ s \in open \ tab /\ May(UserOf[s])
  /\ tab' = tab \cup {s}
  /\ Begin(p, "join", s)
  /\ UNCHANGED <<open, room, registries, people, posts>>

AddViewer(p) ==
  /\ At(p, "join")
  /\ room' = room \cup (req[p].socket \cap open)
  /\ viewers' = viewers \cup req[p].socket
  /\ Done(p)
  /\ UNCHANGED <<open, tab, online, hasty, people, posts>>

\* The tab closes; the socket stays in the room.
LeaveRoom(s) ==
  /\ s \in tab
  /\ LeaveEarly(s, {"join"})
  /\ tab' = tab \ {s} /\ RemoveViewer(s)
  /\ UNCHANGED <<open, room, online, people, posts, req>>

GetUnreadCount(p, s) ==
  /\ s \in open \ room /\ May(UserOf[s])
  /\ Begin(p, "unread", s)
  /\ UNCHANGED <<sockets, registries, people, posts>>

\* Mutant: the socket is in the room though it has gone.
JoinAnyway(p) ==
  /\ At(p, "unread")
  /\ room' = room \cup req[p].socket
  /\ Done(p)
  /\ UNCHANGED <<open, tab, registries, people, posts>>

\* The badge's socket joins the room without opening the tab.
JoinForBadge(p) ==
  /\ At(p, "unread")
  /\ room' = room \cup (req[p].socket \cap open)
  /\ Done(p)
  /\ UNCHANGED <<open, tab, registries, people, posts>>

\* A query throws, or the sender is gone: nothing has been written yet.
QueryThrows(p) ==
  /\ req[p].at \in {"join", "unread", "save"}
  /\ Done(p)
  /\ UNCHANGED <<sockets, registries, people, posts>>

-----------------------------------------------------------------------------
(* Messages, comments, and who learns of them *)

\* Room for what is under way.
PostsLeft ==
  Len(posts) + Cardinality({p \in Handlers : At(p, "save")}) < MaxPosts

SendMessage(p, s) ==
  /\ PostsLeft
  /\ s \in open /\ May(UserOf[s])
  /\ Begin(p, "save", s)
  /\ UNCHANGED <<sockets, registries, people, posts>>

Post(author, reached) ==
  posts' = Append(posts, [author |-> author, asked |-> {}, reached |-> reached,
                          failed |-> {}, behind |-> {}])

\* The message is saved and broadcast, and the viewers are read off: in one
\* go.  todo: whom not to notify.
SaveMessage(p) ==
  /\ At(p, "save") /\ req[p].user \in accounts
  /\ Post(req[p].user, UsersOf(room \cap tab))
  /\ req' = [req EXCEPT ![p] = [@ EXCEPT !.at = "resolve", !.socket = {},
                                !.post = Len(posts) + 1, !.todo = UsersOf(viewers)]]
  /\ UNCHANGED <<sockets, registries, people>>

\* A comment on a file or a board: nobody counts as watching.
Comment(p, u) ==
  /\ PostsLeft /\ May(u)
  /\ At(p, "idle")
  /\ Post(u, {})
  /\ req' = [req EXCEPT ![p] = [Idle EXCEPT !.at = "resolve", !.user = u,
                                !.post = Len(posts) + 1]]
  /\ UNCHANGED <<sockets, registries, people>>

Recipients(p) == ({Owner} \cup members) \ {req[p].user}

ResolveRecipients(p) ==
  /\ At(p, "resolve")
  /\ posts' = [posts EXCEPT ![req[p].post].asked = Recipients(p)]
  /\ req' = [req EXCEPT ![p].at = "dispatch",
                        ![p].todo = Recipients(p) \ req[p].todo]
  /\ UNCHANGED <<sockets, registries, people>>

\* The query fails, or the workspace is gone: nobody is asked for.
ResolveThrows(p) ==
  /\ At(p, "resolve")
  /\ Done(p)
  /\ UNCHANGED <<sockets, registries, people, posts>>

\* The next recipient; the owner is the first.
IsNext(p, u) ==
  /\ At(p, "dispatch") /\ u \in req[p].todo
  /\ u = Owner \/ Owner \notin req[p].todo

\* A row for him; whoever is online sees it at once.
Notify(p, u) ==
  /\ IsNext(p, u) /\ u \in accounts
  /\ posts' = [posts EXCEPT ![req[p].post].reached =
       @ \cup ({u} \cap UsersOf(open))]
  /\ req' = [req EXCEPT ![p] =
       IF IsOnline(u) THEN [req[p] EXCEPT !.todo = @ \ {u}]
       ELSE [req[p] EXCEPT !.at = "mail", !.user = u]]
  /\ UNCHANGED <<sockets, registries, people>>

SendMail(p) ==
  /\ At(p, "mail")
  /\ posts' = [posts EXCEPT ![req[p].post].reached = @ \cup {req[p].user}]
  /\ req' = [req EXCEPT ![p].at = "dispatch", ![p].todo = @ \ {req[p].user}]
  /\ UNCHANGED <<sockets, registries, people>>

\* Mutant: the failure of a mail is not caught, and ends the loop.
MailEndsLoop(p) ==
  /\ At(p, "mail")
  /\ posts' = [posts EXCEPT ![req[p].post].failed = @ \cup {req[p].user}]
  /\ Done(p)
  /\ UNCHANGED <<sockets, registries, people>>

\* The failure of a mail is logged, and the loop goes on without it.
MailFails(p) ==
  /\ At(p, "mail")
  /\ posts' = [posts EXCEPT ![req[p].post].failed = @ \cup {req[p].user}]
  /\ req' = [req EXCEPT ![p].at = "dispatch", ![p].todo = @ \ {req[p].user}]
  /\ UNCHANGED <<sockets, registries, people>>

\* The account of the next recipient is gone, and the database refuses his
\* row: the error ends the loop, and is logged.
RowRefused(p, u) ==
  /\ IsNext(p, u) /\ u \notin accounts
  /\ posts' = [posts EXCEPT ![req[p].post] =
       [posts[req[p].post] EXCEPT !.failed = @ \cup {u},
                                  !.behind = @ \cup (req[p].todo \ {u})]]
  /\ Done(p)
  /\ UNCHANGED <<sockets, registries, people>>

\* So does a failure of the database.
DispatchThrows(p) ==
  /\ At(p, "dispatch") /\ req[p].todo # {}
  /\ posts' = [posts EXCEPT ![req[p].post].failed = @ \cup req[p].todo]
  /\ Done(p)
  /\ UNCHANGED <<sockets, registries, people>>

Dispatched(p) ==
  /\ At(p, "dispatch") /\ req[p].todo = {}
  /\ Done(p)
  /\ UNCHANGED <<sockets, registries, people, posts>>

\* Whom the dispatches of the post n are still to notify.
Awaiting(n) ==
  UNION {req[p].todo : p \in {q \in Handlers :
    req[q].post = n /\ (At(q, "dispatch") \/ At(q, "mail"))}}

\* The process ends and starts again: the registries were its memory, and a
\* dispatch under way is lost.
Restart ==
  /\ open' = {} /\ tab' = {} /\ room' = {} /\ online' = {} /\ viewers' = {}
  /\ posts' = [n \in DOMAIN posts |->
       [posts[n] EXCEPT !.failed = @ \cup Awaiting(n)]]
  /\ req' = [p \in Handlers |-> Idle]
  /\ UNCHANGED <<hasty, people>>

RemoveMember(u) ==
  /\ members' = members \ {u}
  /\ UNCHANGED <<sockets, registries, accounts, posts, req>>

\* The member rows go with the account; the sockets stay.
DeleteAccount(u) ==
  /\ accounts' = accounts \ {u} /\ members' = members \ {u}
  /\ UNCHANGED <<sockets, registries, posts, req>>

-----------------------------------------------------------------------------

Next ==
  \/ \E p \in Handlers, s \in Sockets :
       \/ HandleConnection(p, s) \/ JoinRoom(p, s) \/ GetUnreadCount(p, s)
       \/ SendMessage(p, s)
  \/ \E p \in Handlers :
       \/ AddPresence(p) \/ RefuseConnection(p)
       \/ AddViewer(p) \/ JoinForBadge(p) \/ QueryThrows(p)
       \/ SaveMessage(p) \/ ResolveRecipients(p) \/ ResolveThrows(p)
       \/ SendMail(p) \/ MailFails(p) \/ DispatchThrows(p) \/ Dispatched(p)
       \/ \E u \in Users : Comment(p, u) \/ Notify(p, u) \/ RowRefused(p, u)
  \/ \E s \in Sockets : HandleDisconnect(s) \/ LeaveRoom(s)
  \/ \E u \in members : RemoveMember(u)
  \/ \E u \in accounts \cap Clients : DeleteAccount(u)
  \/ Restart

Spec == Init /\ [][Next]_vars

-----------------------------------------------------------------------------
(* Properties *)

Request == [at : {"idle", "lookup", "join", "unread", "save",
                  "resolve", "dispatch", "mail"},
            user : Users, socket : SUBSET Sockets, post : 0..MaxPosts,
            todo : SUBSET Users]

\* Type invariant; a tab is a connected socket's, and so is the room.
TypeOK ==
  /\ open \in SUBSET Sockets
  /\ tab \in SUBSET open /\ room \in SUBSET open
  /\ online \in SUBSET Sockets /\ viewers \in SUBSET Sockets
  /\ hasty \in SUBSET Users
  /\ accounts \in SUBSET Users /\ members \in SUBSET (Clients \cap accounts)
  /\ posts \in Seq([author : Users, asked : SUBSET Users,
                    reached : SUBSET Users, failed : SUBSET Users,
                    behind : SUBSET Users])
  /\ req \in [Handlers -> Request]

Served(n) == \E p \in Handlers : req[p].post = n
Settled(post) == post.reached \cup post.failed \cup post.behind

\* Once the dispatch of a message or a comment is over, everyone it was for
\* had the Messages tab open when it was broadcast, or had a connected socket
\* when notified, or was mailed: the registries suppress a notification for
\* nobody but those who are there, and a mail that fails costs only its own
\* recipient (addViewer, PresenceService, dispatch).  Except for those a failing
\* database, a gone account before them or the end of the process cut off, and
\* for a user whose socket did not wait for an answer: it is added after it was
\* removed, for good.
EveryoneReached ==
  \A n \in 1..Len(posts) :
    Served(n) \/ posts[n].asked \subseteq Settled(posts[n]) \cup hasty
=============================================================================
