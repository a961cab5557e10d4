---------------------------- MODULE Chat_proofs -----------------------------
(***************************************************************************)
(* Proofs about Chat, for any clients, connections, messages and requests  *)
(* at once.                                                                *)
(***************************************************************************)
EXTENDS Chat, FiniteSetTheorems, SequenceTheorems, TLAPS

PostType == [author : Users, asked : SUBSET Users, reached : SUBSET Users,
             failed : SUBSET Users, behind : SUBSET Users]
PostSteps == {"resolve", "dispatch", "mail"}
Saving == {p \in Handlers : At(p, "save")}

\* There is room for the messages about to be saved.
PostsBounded == Len(posts) + Cardinality(Saving) <= MaxPosts

\* A dispatch is of a post there is, and nobody else's.
PostsServed ==
  /\ \A p \in Handlers :
       req[p].post \in IF req[p].at \in PostSteps THEN 1..Len(posts) ELSE {0}
  /\ \A p, q \in Handlers : req[p].post = req[q].post /\ req[p].post # 0 => p = q

TypeIInv == TypeOK /\ PostsBounded /\ PostsServed

\* A registry's entry is true of its socket, unless its user was hasty; and
\* so is the entry a handler is about to make.
Counts(s, S) == s \in S \/ UserOf[s] \in hasty
OnlineTrue == \A s \in online : Counts(s, open)
ViewersTrue == \A s \in viewers : Counts(s, tab \cap room)
EntriesAwaited ==
  \A p \in Handlers : \A s \in req[p].socket :
    /\ At(p, "lookup") => Counts(s, open)
    /\ At(p, "join") => Counts(s, tab)
\* A socket's connection is looked up once.
OneLookup ==
  \A p, q \in Handlers :
    /\ At(p, "lookup") /\ At(q, "lookup")
    /\ req[p].socket \cap req[q].socket # {}
    => p = q
EntriesTrue == OnlineTrue /\ ViewersTrue /\ EntriesAwaited

\* Nobody is asked for before the recipients are known, and whoever is not to
\* be notified then, or no more later, is settled.
Due(r, post, spared) ==
  /\ r.at = "resolve" => post.asked = {} /\ r.todo \subseteq Settled(post) \cup spared
  /\ r.at \in {"dispatch", "mail"} => post.asked \subseteq r.todo \cup Settled(post) \cup spared
SparedReached == \A p \in Handlers : Due(req[p], posts[req[p].post], hasty)

-----------------------------------------------------------------------------
(* What a step does to the handlers *)

\* Only the handler p changes, and what it serves is well formed.
OnlyServes(p) ==
  /\ req' \in [Handlers -> Request]
  /\ \A q \in Handlers \ {p} : req'[q] = req[q]

\* An idle handler serves nothing.
LEMMA IdleServesNothing ==
  /\ Idle \in Request
  /\ Idle.at = "idle" /\ Idle.socket = {} /\ Idle.post = 0 /\ Idle.todo = {}
  /\ Idle.user = Owner
<1>1. Owner \in Users /\ 0 \in 0..MaxPosts
  BY ChatAssumption DEF Users
<1>2. QED
  BY <1>1 DEF Idle, Request

\* A handler that is done is idle.
LEMMA DoneServes ==
  ASSUME TypeOK, NEW p \in Handlers, Done(p)
  PROVE  OnlyServes(p) /\ req'[p] = Idle
BY IdleServesNothing DEF OnlyServes, Done, TypeOK

\* A handler that begins serves the socket.
LEMMA BeginServes ==
  ASSUME TypeOK, NEW p \in Handlers, NEW s \in Sockets,
         NEW step \in {"lookup", "join", "unread", "save"}, Begin(p, step, s)
  PROVE  /\ OnlyServes(p) /\ req[p].at = "idle"
         /\ req'[p].at = step /\ req'[p].socket = {s} /\ req'[p].post = 0
<1> DEFINE r1 == [Idle EXCEPT !.at = step]
           r2 == [r1 EXCEPT !.user = UserOf[s]]
           r == [r2 EXCEPT !.socket = {s}]
<1>1. r1 \in Request /\ r1.at = step /\ r1.post = 0
  BY IdleServesNothing DEF Request
<1>2. UserOf[s] \in Users
  BY ChatAssumption
<1> HIDE DEF r1
<1>3. r2 \in Request /\ r2.at = step /\ r2.post = 0
  BY <1>1, <1>2 DEF Request
<1> HIDE DEF r2
<1>4. r \in Request /\ r.at = step /\ r.post = 0 /\ r.socket = {s}
  BY <1>3 DEF Request
<1>5. r = [Idle EXCEPT !.at = step, !.user = UserOf[s], !.socket = {s}]
  BY DEF r, r1, r2
<1> HIDE DEF r
<1>6. req' = [req EXCEPT ![p] = r] /\ req[p].at = "idle"
  BY <1>5 DEF Begin, At
<1>7. QED
  BY <1>4, <1>6 DEF OnlyServes, TypeOK

\* A saved message is to be dispatched.
LEMMA SaveServes ==
  ASSUME TypeIInv, NEW p \in Handlers, SaveMessage(p), Len(posts) + 1 \in 0..MaxPosts
  PROVE  /\ OnlyServes(p) /\ req'[p].at = "resolve" /\ req'[p].socket = {}
         /\ req'[p].post = Len(posts) + 1 /\ req'[p].todo = UsersOf(viewers)
<1> DEFINE r1 == [req[p] EXCEPT !.at = "resolve"]
           r2 == [r1 EXCEPT !.socket = {}]
           r3 == [r2 EXCEPT !.post = Len(posts) + 1]
           r == [r3 EXCEPT !.todo = UsersOf(viewers)]
<1>1. r1 \in Request /\ r1.at = "resolve"
  BY DEF Request, TypeIInv, TypeOK
<1> HIDE DEF r1
<1>2. r2 \in Request /\ r2.at = "resolve" /\ r2.socket = {}
  BY <1>1 DEF Request
<1> HIDE DEF r2
<1>3. r3 \in Request /\ r3.at = "resolve" /\ r3.socket = {} /\ r3.post = Len(posts) + 1
  BY <1>2 DEF Request
<1>4. UsersOf(viewers) \in SUBSET Users
  BY ChatAssumption DEF UsersOf, TypeIInv, TypeOK
<1> HIDE DEF r3
<1>5. /\ r \in Request /\ r.at = "resolve" /\ r.socket = {} /\ r.post = Len(posts) + 1
      /\ r.todo = UsersOf(viewers)
  BY <1>3, <1>4 DEF Request
<1>6. r = [req[p] EXCEPT !.at = "resolve", !.socket = {}, !.post = Len(posts) + 1,
                         !.todo = UsersOf(viewers)]
  BY DEF r, r1, r2, r3
<1> HIDE DEF r
<1>7. req' = [req EXCEPT ![p] = r]
  BY <1>6 DEF SaveMessage
<1>8. QED
  BY <1>5, <1>7 DEF OnlyServes, TypeIInv, TypeOK

\* So is a comment.
LEMMA CommentServes ==
  ASSUME TypeIInv, NEW p \in Handlers, NEW u \in Users, Comment(p, u),
         Len(posts) + 1 \in 0..MaxPosts
  PROVE  /\ OnlyServes(p) /\ req[p].at = "idle"
         /\ req'[p].at = "resolve" /\ req'[p].socket = {}
         /\ req'[p].post = Len(posts) + 1 /\ req'[p].todo = {}
<1> DEFINE r1 == [Idle EXCEPT !.at = "resolve"]
           r2 == [r1 EXCEPT !.user = u]
           r == [r2 EXCEPT !.post = Len(posts) + 1]
<1>1. r1 \in Request /\ r1.at = "resolve" /\ r1.socket = {} /\ r1.todo = {}
  BY IdleServesNothing DEF Request
<1> HIDE DEF r1
<1>2. r2 \in Request /\ r2.at = "resolve" /\ r2.socket = {} /\ r2.todo = {}
  BY <1>1 DEF Request
<1> HIDE DEF r2
<1>3. /\ r \in Request /\ r.at = "resolve" /\ r.socket = {} /\ r.todo = {}
      /\ r.post = Len(posts) + 1
  BY <1>2 DEF Request
<1>4. r = [Idle EXCEPT !.at = "resolve", !.user = u, !.post = Len(posts) + 1]
  BY DEF r, r1, r2
<1> HIDE DEF r
<1>5. req' = [req EXCEPT ![p] = r] /\ req[p].at = "idle"
  BY <1>4 DEF Comment, At
<1>6. QED
  BY <1>3, <1>5 DEF OnlyServes, TypeIInv, TypeOK

\* The recipients are users.
LEMMA RecipientsAreUsers ==
  ASSUME TypeOK, NEW p \in Handlers
  PROVE  Recipients(p) \in SUBSET Users
BY DEF Recipients, Users, TypeOK

\* The same dispatch, a step on: the handler's step, and whom it is still to
\* notify, may change.
LEMMA DispatchServes ==
  ASSUME TypeOK, NEW p \in Handlers, NEW step \in {"dispatch", "mail"},
         NEW todo \in SUBSET Users, NEW r,
         r = [[req[p] EXCEPT !.at = step] EXCEPT !.todo = todo],
         req' = [req EXCEPT ![p] = r]
  PROVE  /\ OnlyServes(p) /\ req'[p].at = step /\ req'[p].socket = req[p].socket
         /\ req'[p].post = req[p].post /\ req'[p].todo = todo
         /\ req'[p].user = req[p].user
<1> DEFINE r1 == [req[p] EXCEPT !.at = step]
           r2 == [r1 EXCEPT !.todo = todo]
<1>1. /\ r1 \in Request /\ r1.at = step /\ r1.socket = req[p].socket
      /\ r1.post = req[p].post /\ r1.user = req[p].user
  BY DEF Request, TypeOK
<1>2. r = r2
  OBVIOUS
<1> HIDE DEF r1
<1>3. /\ r2 \in Request /\ r2.at = step /\ r2.socket = req[p].socket
      /\ r2.post = req[p].post /\ r2.todo = todo /\ r2.user = req[p].user
  BY <1>1 DEF Request
<1> HIDE DEF r2
<1>4. QED
  BY <1>2, <1>3 DEF OnlyServes, TypeOK

\* The recipients but those spared are to be notified.
LEMMA ResolveServes ==
  ASSUME TypeOK, NEW p \in Handlers, ResolveRecipients(p)
  PROVE  /\ OnlyServes(p) /\ req'[p].at = "dispatch" /\ req'[p].socket = req[p].socket
         /\ req'[p].post = req[p].post /\ req'[p].todo = Recipients(p) \ req[p].todo
<1> DEFINE todo == Recipients(p) \ req[p].todo
           r == [[req[p] EXCEPT !.at = "dispatch"] EXCEPT !.todo = todo]
<1>1. todo \in SUBSET Users
  BY RecipientsAreUsers
<1>2. req' = [req EXCEPT ![p] = r]
  BY DEF ResolveRecipients, TypeOK
<1> HIDE DEF todo
<1>3. QED
  BY <1>1, <1>2, DispatchServes DEF todo

\* A recipient who is online needs no more; another one is mailed.
LEMMA NotifyServes ==
  ASSUME TypeOK, NEW p \in Handlers, NEW u \in Users, Notify(p, u)
  PROVE  /\ OnlyServes(p) /\ req'[p].socket = req[p].socket /\ req'[p].post = req[p].post
         /\ IsOnline(u) => req'[p].at = "dispatch" /\ req'[p].todo = req[p].todo \ {u}
         /\ ~IsOnline(u) => /\ req'[p].at = "mail" /\ req'[p].todo = req[p].todo
                            /\ req'[p].user = u
<1>1. CASE IsOnline(u)
  <2> DEFINE todo == req[p].todo \ {u}
             r == [[req[p] EXCEPT !.at = "dispatch"] EXCEPT !.todo = todo]
  <2>1. todo \in SUBSET Users
    BY DEF TypeOK, Request
  <2>2. [req[p] EXCEPT !.at = "dispatch"] = req[p]
    BY DEF Notify, IsNext, At, TypeOK, Request
  <2>3. req' = [req EXCEPT ![p] = r]
    BY <1>1, <2>2 DEF Notify
  <2> HIDE DEF todo
  <2>4. QED
    BY <1>1, <2>1, <2>3, DispatchServes DEF todo
<1>2. CASE ~IsOnline(u)
  <2> DEFINE r1 == [req[p] EXCEPT !.at = "mail"]
             r == [r1 EXCEPT !.user = u]
  <2>1. /\ r1 \in Request /\ r1.at = "mail" /\ r1.socket = req[p].socket
        /\ r1.post = req[p].post /\ r1.todo = req[p].todo
    BY DEF Request, TypeOK
  <2>2. [req[p] EXCEPT !.at = "mail", !.user = u] = r
    BY DEF r, r1
  <2> HIDE DEF r1
  <2>3. /\ r \in Request /\ r.at = "mail" /\ r.socket = req[p].socket
        /\ r.post = req[p].post /\ r.todo = req[p].todo /\ r.user = u
    BY <2>1 DEF Request
  <2> HIDE DEF r
  <2>4. req' = [req EXCEPT ![p] = r]
    BY <1>2, <2>2 DEF Notify
  <2>5. QED
    BY <1>2, <2>3, <2>4 DEF OnlyServes, TypeOK
<1>3. QED
  BY <1>1, <1>2

\* Whoever has been mailed needs no more, whether the mail failed or not.
LEMMA MailServes ==
  ASSUME TypeOK, NEW p \in Handlers, SendMail(p) \/ MailFails(p)
  PROVE  /\ OnlyServes(p) /\ req'[p].at = "dispatch" /\ req'[p].socket = req[p].socket
         /\ req'[p].post = req[p].post /\ req'[p].todo = req[p].todo \ {req[p].user}
<1> DEFINE todo == req[p].todo \ {req[p].user}
           r == [[req[p] EXCEPT !.at = "dispatch"] EXCEPT !.todo = todo]
<1>1. todo \in SUBSET Users
  BY DEF TypeOK, Request
<1>2. req' = [req EXCEPT ![p] = r]
  BY DEF SendMail, MailFails, TypeOK
<1> HIDE DEF todo
<1>3. QED
  BY <1>1, <1>2, DispatchServes DEF todo

-----------------------------------------------------------------------------
(* What a step does to the posts *)

\* A new post at the end, the others as they were.
LEMMA PostAppends ==
  ASSUME TypeOK, NEW author \in Users, NEW reached \in SUBSET Users, Post(author, reached)
  PROVE  /\ posts' \in Seq(PostType) /\ Len(posts') = Len(posts) + 1 /\ Len(posts) \in Nat
         /\ \A n \in 1..Len(posts) : posts'[n] = posts[n]
         /\ posts'[Len(posts) + 1].asked = {}
         /\ Settled(posts'[Len(posts) + 1]) = reached
<1> DEFINE post == [author |-> author, asked |-> {}, reached |-> reached,
                    failed |-> {}, behind |-> {}]
<1>1. post \in PostType /\ post.asked = {} /\ Settled(post) = reached
  BY DEF PostType, Settled
<1>2. posts \in Seq(PostType)
  BY DEF TypeOK, PostType
<1>3. posts' = Append(posts, post)
  BY DEF Post
<1> HIDE DEF post
<1>4. QED
  BY <1>1, <1>2, <1>3

\* Only the post n changes, and is well formed.
OnlyPost(n) ==
  /\ posts' \in Seq(PostType) /\ Len(posts') = Len(posts)
  /\ \A m \in 1..Len(posts) \ {n} : posts'[m] = posts[m]

\* Every post is one.
LEMMA PostsTyped ==
  ASSUME TypeOK
  PROVE  /\ posts \in Seq(PostType) /\ DOMAIN posts = 1..Len(posts) /\ Len(posts) \in Nat
         /\ \A n \in 1..Len(posts) : posts[n] \in PostType
<1>1. posts \in Seq(PostType)
  BY DEF TypeOK, PostType
<1>2. QED
  BY <1>1

\* One post is replaced by another.
LEMMA PostChanges ==
  ASSUME TypeOK, NEW n \in 1..Len(posts), NEW post \in PostType,
         posts' = [posts EXCEPT ![n] = post]
  PROVE  OnlyPost(n) /\ posts'[n] = post
<1>1. /\ posts \in Seq(PostType) /\ DOMAIN posts = 1..Len(posts)
      /\ Len(posts) \in Nat
  BY PostsTyped
<1>2. posts' \in Seq(PostType) /\ Len(posts') = Len(posts)
  BY <1>1
<1>3. QED
  BY <1>1, <1>2 DEF OnlyPost

\* The recipients of a post are set.
LEMMA AskedChanges ==
  ASSUME TypeOK, NEW n \in 1..Len(posts), NEW v \in SUBSET Users,
         posts' = [posts EXCEPT ![n].asked = v]
  PROVE  OnlyPost(n) /\ posts'[n].asked = v /\ Settled(posts'[n]) = Settled(posts[n])
<1> DEFINE post == [posts[n] EXCEPT !.asked = v]
<1>1. post \in PostType /\ post.asked = v /\ Settled(post) = Settled(posts[n])
  BY PostsTyped DEF PostType, Settled
<1>2. posts' = [posts EXCEPT ![n] = post]
  OBVIOUS
<1> HIDE DEF post
<1>3. QED
  BY <1>1, <1>2, PostChanges

\* More are reached by a post.
LEMMA ReachedChanges ==
  ASSUME TypeOK, NEW n \in 1..Len(posts), NEW v \in SUBSET Users,
         posts' = [posts EXCEPT ![n].reached = @ \cup v]
  PROVE  /\ OnlyPost(n) /\ posts'[n].asked = posts[n].asked
         /\ Settled(posts'[n]) = Settled(posts[n]) \cup v
<1> DEFINE all == posts[n].reached \cup v
           post == [posts[n] EXCEPT !.reached = all]
<1>1. all \in SUBSET Users
  BY PostsTyped DEF PostType
<1>2. posts' = [posts EXCEPT ![n] = post]
  OBVIOUS
<1> HIDE DEF all
<1>3. /\ post \in PostType /\ post.asked = posts[n].asked
      /\ Settled(post) = Settled(posts[n]) \cup all
  <2>1. /\ post.behind = posts[n].behind /\ post.failed = posts[n].failed
        /\ post.reached = all /\ post \in PostType /\ post.asked = posts[n].asked
    BY <1>1, PostsTyped DEF PostType
  <2>2. posts[n].reached \subseteq all
    BY DEF all
  <2> HIDE DEF post
  <2>3. QED
    BY <2>1, <2>2 DEF Settled
<1> HIDE DEF post
<1>4. Settled(posts[n]) \cup all = Settled(posts[n]) \cup v
  BY DEF Settled, all
<1>5. QED
  BY <1>2, <1>3, <1>4, PostChanges

\* A failure costs some of them.
LEMMA FailedChanges ==
  ASSUME TypeOK, NEW n \in 1..Len(posts), NEW v \in SUBSET Users,
         posts' = [posts EXCEPT ![n].failed = @ \cup v]
  PROVE  /\ OnlyPost(n) /\ posts'[n].asked = posts[n].asked
         /\ Settled(posts'[n]) = Settled(posts[n]) \cup v
<1> DEFINE all == posts[n].failed \cup v
           post == [posts[n] EXCEPT !.failed = all]
<1>1. all \in SUBSET Users
  BY PostsTyped DEF PostType
<1>2. posts' = [posts EXCEPT ![n] = post]
  OBVIOUS
<1> HIDE DEF all
<1>3. /\ post \in PostType /\ post.asked = posts[n].asked
      /\ Settled(post) = Settled(posts[n]) \cup all
  <2>1. /\ post.reached = posts[n].reached /\ post.behind = posts[n].behind
        /\ post.failed = all /\ post \in PostType /\ post.asked = posts[n].asked
    BY <1>1, PostsTyped DEF PostType
  <2>2. posts[n].failed \subseteq all
    BY DEF all
  <2> HIDE DEF post
  <2>3. QED
    BY <2>1, <2>2 DEF Settled
<1> HIDE DEF post
<1>4. Settled(posts[n]) \cup all = Settled(posts[n]) \cup v
  BY DEF Settled, all
<1>5. QED
  BY <1>2, <1>3, <1>4, PostChanges

\* A refused row costs its recipient the post, and those behind him.
LEMMA RefusedChanges ==
  ASSUME TypeOK, NEW n \in 1..Len(posts), NEW v \in SUBSET Users, NEW w \in SUBSET Users,
         posts' = [posts EXCEPT ![n] =
           [posts[n] EXCEPT !.failed = @ \cup v, !.behind = @ \cup w]]
  PROVE  /\ OnlyPost(n) /\ posts'[n].asked = posts[n].asked
         /\ Settled(posts'[n]) = Settled(posts[n]) \cup v \cup w
<1> DEFINE p1 == [posts[n] EXCEPT !.failed = posts[n].failed \cup v]
           p2 == [p1 EXCEPT !.behind = posts[n].behind \cup w]
<1>1. /\ posts[n] \in PostType
      /\ posts[n].failed \cup v \in SUBSET Users /\ posts[n].behind \cup w \in SUBSET Users
  BY PostsTyped DEF PostType
<1>2. /\ p1 \in PostType /\ p1.asked = posts[n].asked /\ p1.reached = posts[n].reached
      /\ p1.failed = posts[n].failed \cup v /\ p1.behind = posts[n].behind
  BY <1>1 DEF PostType
<1>3. [posts[n] EXCEPT !.failed = @ \cup v, !.behind = @ \cup w] = p2
  BY <1>1 DEF PostType
<1> HIDE DEF p1
<1>4. /\ p2 \in PostType /\ p2.asked = posts[n].asked /\ p2.reached = posts[n].reached
      /\ p2.failed = posts[n].failed \cup v /\ p2.behind = posts[n].behind \cup w
  BY <1>1, <1>2 DEF PostType
<1> HIDE DEF p2
<1>5. OnlyPost(n) /\ posts'[n] = p2
  BY <1>3, <1>4, PostChanges
<1>6. Settled(p2) = Settled(posts[n]) \cup v \cup w
  BY <1>4 DEF Settled
<1>7. QED
  BY <1>4, <1>5, <1>6

\* Whoever is awaiting a post is a user, and one of its dispatch.
LEMMA AwaitingUsers ==
  ASSUME TypeOK, NEW n
  PROVE  /\ Awaiting(n) \in SUBSET Users
         /\ \A p \in Handlers : req[p].post = n /\ (At(p, "dispatch") \/ At(p, "mail"))
              => req[p].todo \subseteq Awaiting(n)
BY DEF Awaiting, TypeOK, Request

\* A restart loses the dispatches under way, and nothing else of a post.
LEMMA RestartLoses ==
  ASSUME TypeOK, Restart
  PROVE  /\ posts' \in Seq(PostType) /\ Len(posts') = Len(posts)
         /\ \A n \in 1..Len(posts) :
              /\ posts'[n].asked = posts[n].asked
              /\ Settled(posts'[n]) = Settled(posts[n]) \cup Awaiting(n)
         /\ req' \in [Handlers -> Request] /\ \A p \in Handlers : req'[p] = Idle
<1>1. posts \in Seq(PostType)
  BY PostsTyped
<1>2. DOMAIN posts = 1..Len(posts) /\ Len(posts) \in Nat
  BY PostsTyped
<1> DEFINE post(n) == [posts[n] EXCEPT !.failed = @ \cup Awaiting(n)]
<1>3. posts' = [n \in 1..Len(posts) |-> post(n)]
  BY <1>2 DEF Restart
<1>4. ASSUME NEW n \in 1..Len(posts)
      PROVE  /\ post(n) \in PostType /\ post(n).asked = posts[n].asked
             /\ Settled(post(n)) = Settled(posts[n]) \cup Awaiting(n)
  <2>1. posts[n] \in PostType /\ Awaiting(n) \in SUBSET Users
    BY <1>1, AwaitingUsers
  <2> DEFINE lost == Awaiting(n)
             r == post(n)
  <2> HIDE DEF lost
  <2>2. /\ r \in PostType /\ r.asked = posts[n].asked /\ r.reached = posts[n].reached
        /\ r.behind = posts[n].behind /\ r.failed = posts[n].failed \cup Awaiting(n)
    BY <2>1 DEF PostType
  <2> HIDE DEF r
  <2>3. Settled(r) = Settled(posts[n]) \cup Awaiting(n)
    BY <2>2 DEF Settled
  <2>4. QED
    BY <2>2, <2>3 DEF r
<1> HIDE DEF post
<1>5. \A n \in 1..Len(posts) : posts'[n] = post(n)
  BY <1>3
<1>6. posts' \in Seq(PostType) /\ Len(posts') = Len(posts)
  BY <1>2, <1>3, <1>4
<1>7. req' \in [Handlers -> Request] /\ \A p \in Handlers : req'[p] = Idle
  BY IdleServesNothing DEF Restart
<1>8. QED
  BY <1>4, <1>5, <1>6, <1>7

-----------------------------------------------------------------------------
(* The type invariant *)

\* The handlers about to save are finitely many.
LEMMA SavingFinite == IsFiniteSet(Saving) /\ Cardinality(Saving) \in Nat
BY ChatAssumption, FS_Subset, FS_CardinalityType DEF Saving

\* How many are about to save, after a handler's step.
LEMMA SavingMoves ==
  ASSUME NEW p \in Handlers, OnlyServes(p)
  PROVE  /\ (At(p, "save") <=> req'[p].at = "save")
              => Cardinality(Saving') = Cardinality(Saving)
         /\ ~At(p, "save") /\ req'[p].at = "save"
              => Cardinality(Saving') = Cardinality(Saving) + 1
         /\ At(p, "save") /\ req'[p].at # "save"
              => Cardinality(Saving') = Cardinality(Saving) - 1
<1>1. CASE At(p, "save") <=> req'[p].at = "save"
  <2>1. Saving' = Saving
    BY <1>1 DEF Saving, At, OnlyServes
  <2>2. QED
    BY <1>1, <2>1
<1>2. CASE ~At(p, "save") /\ req'[p].at = "save"
  <2>1. Saving' = Saving \cup {p} /\ p \notin Saving
    BY <1>2 DEF Saving, At, OnlyServes
  <2>2. Cardinality(Saving') = Cardinality(Saving) + 1
    BY <2>1, SavingFinite, FS_AddElement
  <2>3. QED
    BY <1>2, <2>2
<1>3. CASE At(p, "save") /\ req'[p].at # "save"
  <2>1. Saving' = Saving \ {p} /\ p \in Saving
    BY <1>3 DEF Saving, At, OnlyServes
  <2>2. Cardinality(Saving') = Cardinality(Saving) - 1
    BY <2>1, SavingFinite, FS_RemoveElement
  <2>3. QED
    BY <1>3, <2>2
<1>4. QED
  BY <1>1, <1>2, <1>3

\* A handler goes on with its own post, takes a new one, or none.
LEMMA ServedKept ==
  ASSUME TypeOK, PostsServed, NEW p \in Handlers, OnlyServes(p),
         Len(posts') \in {Len(posts), Len(posts) + 1},
         req'[p].post \in IF req'[p].at \in PostSteps THEN 1..Len(posts') ELSE {0},
         req'[p].post \in {0, req[p].post, Len(posts) + 1}
  PROVE  PostsServed'
<1>1. Len(posts) \in Nat
  BY PostsTyped
<1>2. \A q \in Handlers \ {p} : req'[q] = req[q]
  BY DEF OnlyServes
<1>3. ASSUME NEW q \in Handlers
      PROVE  req'[q].post \in IF req'[q].at \in PostSteps THEN 1..Len(posts') ELSE {0}
  <2>1. CASE q = p
    BY <2>1
  <2>2. CASE q # p
    <3>1. req[q].post \in IF req[q].at \in PostSteps THEN 1..Len(posts) ELSE {0}
      BY DEF PostsServed
    <3>2. req'[q] = req[q]
      BY <1>2, <2>2
    <3>3. 1..Len(posts) \subseteq 1..Len(posts')
      BY <1>1
    <3>4. QED
      BY <3>1, <3>2, <3>3
  <2>3. QED
    BY <2>1, <2>2
<1>4. ASSUME NEW q \in Handlers \ {p}, req'[p].post = req'[q].post, req'[q].post # 0
      PROVE  FALSE
  <2>1. req[q].post \in 1..Len(posts) /\ req'[q] = req[q]
    BY <1>2, <1>4 DEF PostsServed
  <2>2. req'[p].post = req[p].post
    BY <1>1, <1>4, <2>1
  <2>3. QED
    BY <1>4, <2>1, <2>2 DEF PostsServed
<1>5. ASSUME NEW q \in Handlers, NEW r \in Handlers,
             req'[q].post = req'[r].post, req'[q].post # 0
      PROVE  q = r
  <2>1. CASE q # p /\ r # p
    BY <1>2, <1>5, <2>1 DEF PostsServed
  <2>2. CASE q = p \/ r = p
    BY <1>4, <1>5, <2>2
  <2>3. QED
    BY <2>1, <2>2
<1>6. QED
  BY <1>3, <1>5 DEF PostsServed

\* A step of a handler that leaves the posts alone, and saves nothing.
LEMMA QuietStep ==
  ASSUME TypeIInv, NEW p \in Handlers, OnlyServes(p), posts' = posts,
         ~At(p, "save"), req'[p].at \notin PostSteps \cup {"save"}, req'[p].post = 0
  PROVE  PostsBounded' /\ PostsServed'
<1>1. Cardinality(Saving') = Cardinality(Saving)
  BY SavingMoves
<1>2. PostsServed'
  BY ServedKept DEF TypeIInv
<1>3. QED
  BY <1>1, <1>2 DEF TypeIInv, PostsBounded

\* A step of a dispatch, which changes its own post at most.
LEMMA DispatchStep ==
  ASSUME TypeIInv, NEW p \in Handlers, OnlyServes(p), Len(posts') = Len(posts),
         req[p].at \in PostSteps,
         \/ req'[p].at \in PostSteps /\ req'[p].post = req[p].post
         \/ req'[p] = Idle
  PROVE  PostsBounded' /\ PostsServed'
<1>1. Cardinality(Saving') = Cardinality(Saving)
  <2>1. ~At(p, "save") /\ req'[p].at # "save"
    BY IdleServesNothing DEF At, PostSteps
  <2>2. QED
    BY <2>1, SavingMoves
<1>2. PostsServed'
  <2>1. req[p].post \in 1..Len(posts)
    BY DEF TypeIInv, PostsServed
  <2>2. req'[p].post \in IF req'[p].at \in PostSteps THEN 1..Len(posts') ELSE {0}
    BY <2>1, IdleServesNothing DEF PostSteps
  <2>3. req'[p].post \in {0, req[p].post, Len(posts) + 1}
    BY IdleServesNothing
  <2>4. QED
    BY <2>2, <2>3, ServedKept DEF TypeIInv
<1>3. QED
  BY <1>1, <1>2 DEF TypeIInv, PostsBounded

\* A new post, which its handler dispatches.
LEMMA NewPost ==
  ASSUME TypeIInv, NEW p \in Handlers, OnlyServes(p), Len(posts') = Len(posts) + 1,
         req'[p].at = "resolve", req'[p].post = Len(posts) + 1,
         Len(posts) + Cardinality(Saving') < MaxPosts
  PROVE  PostsBounded' /\ PostsServed'
<1>1. Len(posts) \in Nat
  BY PostsTyped DEF TypeIInv
<1>2. PostsServed'
  <2>1. req'[p].post \in IF req'[p].at \in PostSteps THEN 1..Len(posts') ELSE {0}
    BY <1>1 DEF PostSteps
  <2>2. QED
    BY <2>1, ServedKept DEF TypeIInv
<1>3. PostsBounded'
  <2>1. (IsFiniteSet(Saving) /\ Cardinality(Saving) \in Nat)'
    BY SavingFinite, PTL
  <2>2. QED
    BY <1>1, <2>1, ChatAssumption DEF PostsBounded
<1>4. QED
  BY <1>2, <1>3

\* There is room for a message that is saved now.
LEMMA RoomToSave ==
  ASSUME TypeIInv, NEW p \in Handlers, At(p, "save")
  PROVE  Len(posts) + Cardinality(Saving) - 1 < MaxPosts /\ Len(posts) + 1 \in 0..MaxPosts
<1>1. Cardinality(Saving) # 0
  <2>1. p \in Saving
    BY DEF Saving
  <2>2. QED
    BY <2>1, SavingFinite, FS_EmptySet
<1>2. QED
  BY <1>1, SavingFinite, PostsTyped, ChatAssumption DEF TypeIInv, PostsBounded

\* Requests begin, and end, without a post.
LEMMA ConnectionTyped ==
  ASSUME TypeIInv, NEW p \in Handlers, NEW s \in Sockets,
         HandleConnection(p, s) \/ JoinRoom(p, s) \/ GetUnreadCount(p, s)
  PROVE  TypeIInv'
<1>1. /\ OnlyServes(p) /\ ~At(p, "save") /\ req'[p].post = 0
      /\ req'[p].at \notin PostSteps \cup {"save"}
  <2>1. PICK step \in {"lookup", "join", "unread"} : Begin(p, step, s)
    BY DEF HandleConnection, JoinRoom, GetUnreadCount
  <2>2. /\ OnlyServes(p) /\ req[p].at = "idle" /\ req'[p].at = step
        /\ req'[p].post = 0
    BY <2>1, BeginServes DEF TypeIInv
  <2>3. QED
    BY <2>1, <2>2 DEF At, PostSteps
<1>2. posts' = posts /\ online' = online /\ viewers' = viewers /\ hasty' = hasty
      /\ members' = members /\ accounts' = accounts
  BY DEF HandleConnection, JoinRoom, GetUnreadCount, sockets, registries, people
<1>3. open' \in SUBSET Sockets /\ tab' \in SUBSET open' /\ room' \in SUBSET open'
  BY DEF HandleConnection, JoinRoom, GetUnreadCount, sockets, registries, TypeIInv, TypeOK
<1>4. TypeOK'
  BY <1>1, <1>2, <1>3 DEF TypeIInv, TypeOK, OnlyServes
<1>5. PostsBounded' /\ PostsServed'
  BY <1>1, <1>2, QuietStep
<1>6. QED
  BY <1>4, <1>5 DEF TypeIInv

\* The answers to them.
LEMMA AnswerTyped ==
  ASSUME TypeIInv, NEW p \in Handlers, AddPresence(p) \/ AddViewer(p) \/ JoinForBadge(p)
  PROVE  TypeIInv'
<1>1. Done(p) /\ posts' = posts /\ hasty' = hasty /\ members' = members
      /\ accounts' = accounts /\ open' = open /\ tab' = tab
  BY DEF AddPresence, AddViewer, JoinForBadge, sockets, registries, people
<1>2. OnlyServes(p) /\ req'[p] = Idle
  BY <1>1, DoneServes DEF TypeIInv
<1>3. ~At(p, "save")
  BY DEF AddPresence, AddViewer, JoinForBadge, At
<1>4. req[p].socket \in SUBSET Sockets
  BY DEF TypeIInv, TypeOK, Request
<1>5. online' \in SUBSET Sockets /\ viewers' \in SUBSET Sockets /\ room' \in SUBSET open
  BY <1>4 DEF AddPresence, AddViewer, JoinForBadge, sockets, registries, PresenceAdd,
              TypeIInv, TypeOK
<1>6. TypeOK'
  BY <1>1, <1>2, <1>5 DEF TypeIInv, TypeOK, OnlyServes
<1>7. PostsBounded' /\ PostsServed'
  BY <1>1, <1>2, <1>3, IdleServesNothing, QuietStep DEF PostSteps
<1>8. QED
  BY <1>6, <1>7 DEF TypeIInv

\* A socket that is closed, and whom its early leaving makes hasty.
LEMMA ClosedTyped ==
  ASSUME TypeOK, NEW s \in Sockets, Closed(s)
  PROVE  /\ open' \in SUBSET Sockets /\ tab' \in SUBSET open' /\ room' \in SUBSET open'
         /\ online' \in SUBSET Sockets /\ viewers' \in SUBSET Sockets
BY DEF Closed, PresenceRemove, RemoveViewer, TypeOK

\* Whoever is made hasty is a user.
LEMMA HastyTyped ==
  ASSUME TypeOK, NEW s \in Sockets, NEW steps, LeaveEarly(s, steps)
  PROVE  hasty' \in SUBSET Users
BY ChatAssumption DEF LeaveEarly, TypeOK

\* A connection that is refused.
LEMMA RefuseTyped ==
  ASSUME TypeIInv, NEW p \in Handlers, RefuseConnection(p)
  PROVE  TypeIInv'
<1>1. Done(p) /\ posts' = posts /\ members' = members /\ accounts' = accounts
  BY DEF RefuseConnection, people
<1>2. OnlyServes(p) /\ req'[p] = Idle
  BY <1>1, DoneServes DEF TypeIInv
<1>3. PICK s \in Sockets : \/ LeaveEarly(s, {"join"}) /\ Closed(s)
                         \/ UNCHANGED <<sockets, registries>>
  BY DEF RefuseConnection, TypeIInv, TypeOK, Request
<1>4. /\ open' \in SUBSET Sockets /\ tab' \in SUBSET open' /\ room' \in SUBSET open'
      /\ online' \in SUBSET Sockets /\ viewers' \in SUBSET Sockets /\ hasty' \in SUBSET Users
  <2>1. CASE LeaveEarly(s, {"join"}) /\ Closed(s)
    BY <2>1, ClosedTyped, HastyTyped DEF TypeIInv
  <2>2. CASE UNCHANGED <<sockets, registries>>
    BY <2>2 DEF sockets, registries, TypeIInv, TypeOK
  <2>3. QED
    BY <1>3, <2>1, <2>2
<1>5. TypeOK'
  BY <1>1, <1>2, <1>4 DEF TypeIInv, TypeOK, OnlyServes
<1>6. ~At(p, "save")
  BY DEF RefuseConnection, At
<1>7. PostsBounded' /\ PostsServed'
  BY <1>1, <1>2, <1>6, IdleServesNothing, QuietStep DEF PostSteps
<1>8. QED
  BY <1>5, <1>7 DEF TypeIInv

\* A query that throws: its handler is done, and its message is not saved.
LEMMA QueryThrowsTyped ==
  ASSUME TypeIInv, NEW p \in Handlers, QueryThrows(p)
  PROVE  TypeIInv' /\ OnlyServes(p) /\ req'[p] = Idle
<1>1. OnlyServes(p) /\ req'[p] = Idle
  BY DoneServes DEF QueryThrows, TypeIInv
<1>2. posts' = posts
  BY DEF QueryThrows
<1>3. TypeOK'
  BY <1>1 DEF QueryThrows, sockets, registries, people, TypeIInv, TypeOK, OnlyServes
<1>4. PostsServed'
  BY <1>1, <1>2, ServedKept, IdleServesNothing DEF TypeIInv, PostSteps
<1>5. Cardinality(Saving') <= Cardinality(Saving) /\ Cardinality(Saving') \in Nat
  <2>1. Saving' \subseteq Saving
    BY <1>1, IdleServesNothing DEF Saving, OnlyServes, At
  <2>2. QED
    BY <2>1, SavingFinite, FS_Subset, FS_CardinalityType
<1>6. PostsBounded'
  BY <1>2, <1>5, PostsTyped, SavingFinite, ChatAssumption DEF TypeIInv, PostsBounded
<1>7. QED
  BY <1>1, <1>3, <1>4, <1>6 DEF TypeIInv

\* Sockets that go away, or leave the tab; members who are removed, or delete
\* their account.
LEMMA LeavingTyped ==
  ASSUME TypeIInv,
         \/ \E s \in Sockets : HandleDisconnect(s) \/ LeaveRoom(s)
         \/ \E u \in Users : RemoveMember(u) \/ DeleteAccount(u)
  PROVE  TypeIInv' /\ posts' = posts /\ req' = req
<1>1. posts' = posts /\ req' = req
  BY DEF HandleDisconnect, LeaveRoom, RemoveMember, DeleteAccount
<1>2. ASSUME NEW s \in Sockets, HandleDisconnect(s)
      PROVE  TypeOK'
  <2>1. Closed(s) /\ LeaveEarly(s, {"lookup", "join"}) /\ UNCHANGED people
    BY <1>2 DEF HandleDisconnect
  <2>2. hasty' \in SUBSET Users
    BY <2>1, HastyTyped DEF TypeIInv
  <2>3. QED
    BY <1>1, <2>1, <2>2, ClosedTyped DEF people, TypeIInv, TypeOK
<1>3. ASSUME NEW s \in Sockets, LeaveRoom(s)
      PROVE  TypeOK'
  <2>1. hasty' \in SUBSET Users
    BY <1>3, HastyTyped DEF LeaveRoom, TypeIInv
  <2>2. QED
    BY <1>1, <1>3, <2>1 DEF LeaveRoom, RemoveViewer, people, TypeIInv, TypeOK
<1>4. ASSUME NEW u \in Users, RemoveMember(u) \/ DeleteAccount(u)
      PROVE  TypeOK'
  BY <1>1, <1>4 DEF RemoveMember, DeleteAccount, sockets, registries, TypeIInv, TypeOK
<1>5. Saving' = Saving
  BY <1>1 DEF Saving, At
<1>6. PostsBounded' /\ PostsServed'
  BY <1>1, <1>5 DEF TypeIInv, PostsBounded, PostsServed
<1>7. QED
  BY <1>1, <1>2, <1>3, <1>4, <1>6 DEF TypeIInv

\* A message is about to be saved.
LEMMA SendTyped ==
  ASSUME TypeIInv, NEW p \in Handlers, NEW s \in Sockets, SendMessage(p, s)
  PROVE  TypeIInv'
<1>1. /\ OnlyServes(p) /\ req[p].at = "idle" /\ req'[p].at = "save"
      /\ req'[p].post = 0
  BY BeginServes DEF SendMessage, TypeIInv
<1>2. posts' = posts
  BY DEF SendMessage
<1>3. TypeOK'
  BY <1>1 DEF SendMessage, sockets, registries, people, TypeIInv, TypeOK, OnlyServes
<1>4. PostsServed'
  BY <1>1, <1>2, ServedKept DEF TypeIInv, PostSteps
<1>5. Cardinality(Saving') = Cardinality(Saving) + 1
  BY <1>1, SavingMoves DEF At
<1>6. PostsBounded'
  <2>1. Len(posts) + Cardinality(Saving) < MaxPosts
    BY DEF SendMessage, PostsLeft, Saving
  <2>2. QED
    BY <1>2, <1>5, <2>1, PostsTyped, SavingFinite, ChatAssumption
       DEF PostsBounded, TypeIInv
<1>7. QED
  BY <1>3, <1>4, <1>6 DEF TypeIInv

\* A message is posted, and nothing is in its handler's place.
LEMMA SaveFacts ==
  ASSUME TypeIInv, NEW p \in Handlers, SaveMessage(p)
  PROVE  /\ OnlyServes(p) /\ req[p].at = "save"
         /\ req'[p].at = "resolve" /\ req'[p].socket = {}
         /\ req'[p].post = Len(posts) + 1 /\ req'[p].todo = UsersOf(viewers)
         /\ posts' \in Seq(PostType) /\ Len(posts') = Len(posts) + 1 /\ Len(posts) \in Nat
         /\ \A n \in 1..Len(posts) : posts'[n] = posts[n]
         /\ posts'[Len(posts) + 1].asked = {}
         /\ Settled(posts'[Len(posts) + 1]) = UsersOf(room \cap tab)
<1>1. At(p, "save") /\ Post(req[p].user, UsersOf(room \cap tab))
  BY DEF SaveMessage
<1>2. Len(posts) + 1 \in 0..MaxPosts
  BY <1>1, RoomToSave
<1>3. req[p].user \in Users
  BY DEF TypeIInv, TypeOK, Request
<1>4. UsersOf(room \cap tab) \in SUBSET Users
  BY ChatAssumption DEF UsersOf, TypeIInv, TypeOK
<1> DEFINE reached == UsersOf(room \cap tab)
<1> HIDE DEF reached
<1>5. /\ posts' \in Seq(PostType) /\ Len(posts') = Len(posts) + 1 /\ Len(posts) \in Nat
      /\ \A n \in 1..Len(posts) : posts'[n] = posts[n]
      /\ posts'[Len(posts) + 1].asked = {}
      /\ Settled(posts'[Len(posts) + 1]) = reached
  BY <1>1, <1>3, <1>4, PostAppends DEF reached, TypeIInv
<1>6. QED
  BY <1>1, <1>2, <1>5, SaveServes DEF At, reached

\* A saved message leaves the invariant.
LEMMA SaveTyped ==
  ASSUME TypeIInv, NEW p \in Handlers, SaveMessage(p)
  PROVE  TypeIInv'
<1>1. /\ OnlyServes(p) /\ req[p].at = "save"
      /\ req'[p].at = "resolve" /\ req'[p].post = Len(posts) + 1
      /\ posts' \in Seq(PostType) /\ Len(posts') = Len(posts) + 1
  BY SaveFacts
<1>2. TypeOK'
  BY <1>1 DEF SaveMessage, sockets, registries, people, TypeIInv, TypeOK, OnlyServes, PostType
<1>3. Len(posts) + Cardinality(Saving') < MaxPosts
  BY <1>1, RoomToSave, SavingMoves, SavingFinite, PostsTyped, ChatAssumption
     DEF At, TypeIInv
<1>4. QED
  BY <1>1, <1>2, <1>3, NewPost DEF TypeIInv

\* A comment is posted.
LEMMA CommentFacts ==
  ASSUME TypeIInv, NEW p \in Handlers, NEW u \in Users, Comment(p, u)
  PROVE  /\ OnlyServes(p) /\ req[p].at = "idle"
         /\ req'[p].at = "resolve" /\ req'[p].socket = {}
         /\ req'[p].post = Len(posts) + 1 /\ req'[p].todo = {}
         /\ posts' \in Seq(PostType) /\ Len(posts') = Len(posts) + 1 /\ Len(posts) \in Nat
         /\ \A n \in 1..Len(posts) : posts'[n] = posts[n]
         /\ posts'[Len(posts) + 1].asked = {}
         /\ Len(posts) + Cardinality(Saving) < MaxPosts
<1>1. Len(posts) + Cardinality(Saving) < MaxPosts
  BY DEF Comment, PostsLeft, Saving
<1>2. Len(posts) \in Nat
  BY PostsTyped DEF TypeIInv
<1>3. Len(posts) + 1 \in 0..MaxPosts
  BY <1>1, <1>2, SavingFinite, ChatAssumption
<1>4. /\ posts' \in Seq(PostType) /\ Len(posts') = Len(posts) + 1
      /\ \A n \in 1..Len(posts) : posts'[n] = posts[n]
      /\ posts'[Len(posts) + 1].asked = {}
  BY PostAppends DEF Comment, TypeIInv
<1>5. QED
  BY <1>1, <1>2, <1>3, <1>4, CommentServes

\* It leaves the invariant.
LEMMA CommentTyped ==
  ASSUME TypeIInv, NEW p \in Handlers, NEW u \in Users, Comment(p, u)
  PROVE  TypeIInv'
<1>1. TypeOK'
  BY CommentFacts DEF Comment, sockets, registries, people, TypeIInv, TypeOK, OnlyServes, PostType
<1>2. Cardinality(Saving') = Cardinality(Saving)
  BY CommentFacts, SavingMoves DEF At
<1>3. QED
  BY <1>1, <1>2, CommentFacts, NewPost DEF TypeIInv

\* The steps of a dispatch.
Dispatches(p) ==
  \/ ResolveRecipients(p) \/ ResolveThrows(p)
  \/ SendMail(p) \/ MailFails(p) \/ DispatchThrows(p) \/ Dispatched(p)
  \/ \E u \in Users : Notify(p, u) \/ RowRefused(p, u)

\* What they change of its post.
LEMMA DispatchFacts ==
  ASSUME TypeIInv, NEW p \in Handlers,
         Dispatches(p)
  PROVE  /\ req[p].at \in PostSteps /\ req[p].post \in 1..Len(posts)
         /\ OnlyServes(p) /\ OnlyPost(req[p].post)
         /\ \/ req'[p].at \in PostSteps /\ req'[p].post = req[p].post
            \/ req'[p] = Idle
<1>1. req[p].at \in PostSteps
  BY DEF Dispatches, ResolveRecipients, ResolveThrows, SendMail, MailFails, DispatchThrows,
         Dispatched, Notify, RowRefused, IsNext, At, PostSteps
<1>2. req[p].post \in 1..Len(posts)
  BY <1>1 DEF TypeIInv, PostsServed
<1> DEFINE n == req[p].post
<1>3. CASE ResolveRecipients(p)
  <2>1. OnlyPost(n)
    BY <1>2, <1>3, RecipientsAreUsers, AskedChanges DEF ResolveRecipients, TypeIInv
  <2>2. QED
    BY <1>1, <1>2, <1>3, <2>1, ResolveServes DEF TypeIInv, PostSteps
<1>4. CASE SendMail(p) \/ MailFails(p)
  <2>1. {req[p].user} \in SUBSET Users
    BY DEF TypeIInv, TypeOK, Request
  <2>2. OnlyPost(n)
    BY <1>2, <1>4, <2>1, ReachedChanges, FailedChanges DEF SendMail, MailFails, TypeIInv
  <2>3. QED
    BY <1>1, <1>2, <1>4, <2>2, MailServes DEF TypeIInv, PostSteps
<1>5. CASE DispatchThrows(p)
  <2>1. req[p].todo \in SUBSET Users
    BY DEF TypeIInv, TypeOK, Request
  <2>2. OnlyPost(n)
    BY <1>2, <1>5, <2>1, FailedChanges DEF DispatchThrows, TypeIInv
  <2>3. QED
    BY <1>1, <1>2, <1>5, <2>2, DoneServes DEF DispatchThrows, TypeIInv
<1>6. CASE Dispatched(p) \/ ResolveThrows(p)
  <2>1. OnlyPost(n)
    BY <1>6, PostsTyped DEF Dispatched, ResolveThrows, OnlyPost, TypeIInv
  <2>2. QED
    BY <1>1, <1>2, <1>6, <2>1, DoneServes DEF Dispatched, ResolveThrows, TypeIInv
<1>9. ASSUME NEW u \in Users, RowRefused(p, u)
      PROVE  OnlyServes(p) /\ OnlyPost(n) /\ req'[p] = Idle
  <2>1. {u} \in SUBSET Users /\ req[p].todo \ {u} \in SUBSET Users
    BY DEF TypeIInv, TypeOK, Request
  <2>2. OnlyPost(n)
    BY <1>2, <1>9, <2>1, RefusedChanges DEF RowRefused, TypeIInv
  <2>3. QED
    BY <1>9, <2>2, DoneServes DEF RowRefused, TypeIInv
<1>7. ASSUME NEW u \in Users, Notify(p, u)
      PROVE  OnlyServes(p) /\ OnlyPost(n) /\ req'[p].at \in PostSteps /\ req'[p].post = n
  <2> DEFINE here == {u} \cap UsersOf(open)
  <2>1. here \in SUBSET Users
    OBVIOUS
  <2>2. posts' = [posts EXCEPT ![n].reached = @ \cup here]
    BY <1>7 DEF Notify
  <2> HIDE DEF here
  <2>3. OnlyPost(n)
    BY <1>2, <2>1, <2>2, ReachedChanges DEF TypeIInv
  <2>4. QED
    BY <1>7, <2>3, NotifyServes DEF TypeIInv, PostSteps
<1>8. QED
  BY <1>1, <1>2, <1>3, <1>4, <1>5, <1>6, <1>7, <1>9 DEF Dispatches

\* They leave the invariant.
LEMMA DispatchTyped ==
  ASSUME TypeIInv, NEW p \in Handlers,
         Dispatches(p)
  PROVE  TypeIInv'
<1>1. UNCHANGED <<sockets, registries, people>>
  BY DEF Dispatches, ResolveRecipients, ResolveThrows, SendMail, MailFails, DispatchThrows,
         Dispatched, Notify, RowRefused
<1>2. posts' \in Seq(PostType) /\ Len(posts') = Len(posts)
  BY DispatchFacts DEF OnlyPost
<1>3. TypeOK'
  BY <1>1, <1>2, DispatchFacts DEF sockets, registries, people, TypeIInv, TypeOK, OnlyServes, PostType
<1>4. PostsBounded' /\ PostsServed'
  BY <1>2, DispatchFacts, DispatchStep
<1>5. QED
  BY <1>3, <1>4 DEF TypeIInv

\* A restart leaves it.
LEMMA RestartTyped ==
  ASSUME TypeIInv, Restart
  PROVE  TypeIInv'
<1>1. /\ posts' \in Seq(PostType) /\ Len(posts') = Len(posts)
      /\ req' \in [Handlers -> Request] /\ \A p \in Handlers : req'[p] = Idle
  BY RestartLoses DEF TypeIInv
<1>2. TypeOK'
  BY <1>1 DEF Restart, people, TypeIInv, TypeOK, PostType
<1>3. Saving' = {}
  BY <1>1, IdleServesNothing DEF Saving, At
<1>4. Cardinality(Saving') = 0
  BY <1>3, FS_EmptySet
<1>5. PostsBounded'
  BY <1>1, <1>4, SavingFinite, PostsTyped, ChatAssumption DEF TypeIInv, PostsBounded
<1>6. PostsServed'
  BY <1>1, IdleServesNothing DEF PostsServed, PostSteps
<1>7. QED
  BY <1>2, <1>5, <1>6 DEF TypeIInv

\* Every step leaves it.
LEMMA TypeStep == TypeIInv /\ [Next]_vars => TypeIInv'
<1> SUFFICES ASSUME TypeIInv, [Next]_vars PROVE TypeIInv'
  OBVIOUS
<1>1. CASE UNCHANGED vars
  <2>1. Saving' = Saving
    BY <1>1 DEF vars, Saving, At
  <2>2. QED
    BY <1>1, <2>1 DEF vars, sockets, registries, people, TypeIInv, TypeOK, PostsBounded, PostsServed
<1>2. CASE Next
  <2>1. members \subseteq Users
    BY DEF TypeIInv, TypeOK, Users
  <2>2. QED
    BY <1>2, <2>1, ConnectionTyped, AnswerTyped, RefuseTyped, QueryThrowsTyped, LeavingTyped,
       SendTyped, SaveTyped, CommentTyped, DispatchTyped, RestartTyped DEF Next, Dispatches, Users
<1>3. QED
  BY <1>1, <1>2

\* The initial states satisfy it.
LEMMA TypeInit == Init => TypeIInv
<1> SUFFICES ASSUME Init PROVE TypeIInv
  OBVIOUS
<1>1. TypeOK
  BY IdleServesNothing DEF Init, TypeOK, Request, Users
<1>2. Saving = {} /\ Len(posts) = 0
  BY IdleServesNothing DEF Init, Saving, At
<1>3. PostsBounded
  BY <1>2, FS_EmptySet, ChatAssumption DEF PostsBounded
<1>4. PostsServed
  BY IdleServesNothing DEF Init, PostsServed, PostSteps
<1>5. QED
  BY <1>1, <1>3, <1>4 DEF TypeIInv

\* Type correctness of Chat: a tab is a connected socket's, and a socket in
\* the room is connected, whatever answers arrive after it has gone.
THEOREM ChatTypeCorrect == Spec => []TypeOK
<1>1. TypeIInv => TypeOK
  BY DEF TypeIInv
<1>2. QED
  BY TypeInit, TypeStep, <1>1, PTL DEF Spec

-----------------------------------------------------------------------------
(* The registries *)

\* What a step of a handler needs to leave the awaited entries true: nobody
\* leaves, and the handler's own next entry is true.
LEMMA EntriesKept ==
  ASSUME TypeIInv, EntriesAwaited, NEW p \in Handlers, OnlyServes(p),
         open \subseteq open', tab \subseteq tab', hasty' = hasty,
         \A s \in req'[p].socket :
           /\ req'[p].at = "lookup" => s \in open'
           /\ req'[p].at = "join" => s \in tab'
  PROVE  EntriesAwaited'
<1>1. ASSUME NEW q \in Handlers, NEW s \in req'[q].socket
      PROVE  /\ req'[q].at = "lookup" => s \in open' \/ UserOf[s] \in hasty'
             /\ req'[q].at = "join" => s \in tab' \/ UserOf[s] \in hasty'
  <2>1. CASE q = p
    BY <1>1, <2>1
  <2>2. CASE q # p
    <3>1. req'[q] = req[q]
      BY <2>2 DEF OnlyServes
    <3>2. QED
      BY <1>1, <3>1 DEF EntriesAwaited, Counts, At
  <2>3. QED
    BY <2>1, <2>2
<1>2. QED
  BY <1>1 DEF EntriesAwaited, Counts, At

\* A connection, a tab that opens, a badge that asks.
LEMMA ConnectionKeepsEntries ==
  ASSUME TypeIInv, EntriesTrue, NEW p \in Handlers, NEW s \in Sockets,
         \/ HandleConnection(p, s) \/ JoinRoom(p, s) \/ GetUnreadCount(p, s)
         \/ SendMessage(p, s)
  PROVE  EntriesTrue'
<1>1. /\ online' = online /\ viewers' = viewers /\ hasty' = hasty /\ room' = room
      /\ open \subseteq open' /\ tab \subseteq tab'
  BY DEF HandleConnection, JoinRoom, GetUnreadCount, SendMessage, sockets, registries
<1>2. PICK step \in {"lookup", "join", "unread", "save"} :
        /\ Begin(p, step, s)
        /\ step = "lookup" => s \in open'
        /\ step = "join" => s \in tab'
  BY DEF HandleConnection, JoinRoom, GetUnreadCount, SendMessage
<1>3. OnlyServes(p) /\ req'[p].at = step /\ req'[p].socket = {s}
  BY <1>2, BeginServes DEF TypeIInv
<1>4. EntriesAwaited'
  BY <1>1, <1>2, <1>3, EntriesKept DEF EntriesTrue
<1>5. OnlineTrue' /\ ViewersTrue'
  BY <1>1 DEF EntriesTrue, OnlineTrue, ViewersTrue, Counts
<1>6. QED
  BY <1>4, <1>5 DEF EntriesTrue

\* The entry a handler makes is true: the socket is there, or its user was
\* hasty.
LEMMA AnswerKeepsEntries ==
  ASSUME TypeIInv, EntriesTrue, NEW p \in Handlers,
         AddPresence(p) \/ AddViewer(p) \/ JoinForBadge(p)
  PROVE  EntriesTrue'
<1>1. /\ Done(p) /\ hasty' = hasty /\ open' = open /\ tab' = tab /\ room \subseteq room'
  BY DEF AddPresence, AddViewer, JoinForBadge, sockets, registries
<1>2. OnlyServes(p) /\ req'[p] = Idle
  BY <1>1, DoneServes DEF TypeIInv
<1>3. EntriesAwaited'
  BY <1>1, <1>2, IdleServesNothing, EntriesKept DEF EntriesTrue
<1>4. OnlineTrue'
  <2>1. ASSUME NEW s \in online' PROVE s \in open \/ UserOf[s] \in hasty
    <3>1. s \in online \/ (At(p, "lookup") /\ s \in req[p].socket)
      BY <2>1 DEF AddPresence, AddViewer, JoinForBadge, registries, PresenceAdd
    <3>2. QED
      BY <3>1 DEF EntriesTrue, OnlineTrue, EntriesAwaited, Counts
  <2>2. QED
    BY <1>1, <2>1 DEF OnlineTrue, Counts
<1>5. ViewersTrue'
  <2>1. ASSUME NEW s \in viewers' PROVE s \in tab \cap room' \/ UserOf[s] \in hasty
    <3>1. CASE s \in viewers
      BY <1>1, <3>1 DEF EntriesTrue, ViewersTrue, Counts
    <3>2. CASE s \notin viewers
      <4>1. At(p, "join") /\ s \in req[p].socket /\ AddViewer(p)
        BY <2>1, <3>2 DEF AddPresence, AddViewer, JoinForBadge, registries
      <4>2. s \in tab \/ UserOf[s] \in hasty
        BY <4>1 DEF EntriesTrue, EntriesAwaited, Counts
      <4>3. s \in tab => s \in room'
        BY <4>1 DEF AddViewer, TypeIInv, TypeOK
      <4>4. QED
        BY <4>2, <4>3
    <3>3. QED
      BY <3>1, <3>2
  <2>2. QED
    BY <1>1, <2>1 DEF ViewersTrue, Counts
<1>6. QED
  BY <1>3, <1>4, <1>5 DEF EntriesTrue

\* A socket that goes takes its entries along, and one that did not wait for
\* an answer makes its user hasty.
LEMMA LeavingKeepsEntries ==
  ASSUME TypeIInv, EntriesTrue, NEW s \in Sockets, HandleDisconnect(s) \/ LeaveRoom(s)
  PROVE  EntriesTrue'
<1>1. /\ viewers' = viewers \ {s} /\ tab' = tab \ {s} /\ req' = req
      /\ hasty \subseteq hasty'
      /\ \A p \in Handlers : At(p, "join") /\ s \in req[p].socket => UserOf[s] \in hasty'
  BY DEF HandleDisconnect, LeaveRoom, Closed, RemoveViewer, LeaveEarly, At
<1>2. room \ {s} \subseteq room' /\ open \ {s} \subseteq open'
  BY DEF HandleDisconnect, LeaveRoom, Closed
<1>3. /\ online' \subseteq online
      /\ open' = open
         \/ /\ s \notin online'
            /\ \A p \in Handlers :
                 At(p, "lookup") /\ s \in req[p].socket => UserOf[s] \in hasty'
  BY DEF HandleDisconnect, LeaveRoom, Closed, PresenceRemove, LeaveEarly, At
<1>4. OnlineTrue'
  BY <1>1, <1>2, <1>3 DEF EntriesTrue, OnlineTrue, Counts
<1>5. ViewersTrue'
  BY <1>1, <1>2 DEF EntriesTrue, ViewersTrue, Counts
<1>6. EntriesAwaited'
  <2>1. ASSUME NEW p \in Handlers, NEW t \in req[p].socket
        PROVE  /\ At(p, "lookup") => t \in open' \/ UserOf[t] \in hasty'
               /\ At(p, "join") => t \in tab' \/ UserOf[t] \in hasty'
    <3>1. /\ At(p, "lookup") => t \in open \/ UserOf[t] \in hasty
          /\ At(p, "join") => t \in tab \/ UserOf[t] \in hasty
      BY DEF EntriesTrue, EntriesAwaited, Counts
    <3>2. At(p, "lookup") => t \in open' \/ UserOf[t] \in hasty'
      BY <1>1, <1>2, <1>3, <3>1
    <3>3. At(p, "join") => t \in tab' \/ UserOf[t] \in hasty'
      BY <1>1, <3>1
    <3>4. QED
      BY <3>2, <3>3
  <2>2. QED
    BY <1>1, <2>1 DEF EntriesAwaited, Counts, At
<1>7. QED
  BY <1>4, <1>5, <1>6 DEF EntriesTrue

\* A connection that is refused takes the entries of its socket along, and the
\* entry it was about to make.
LEMMA RefuseKeepsEntries ==
  ASSUME TypeIInv, OneLookup, EntriesTrue, NEW p \in Handlers, RefuseConnection(p)
  PROVE  EntriesTrue'
<1>1. OnlyServes(p) /\ req'[p] = Idle
  BY DoneServes DEF RefuseConnection, TypeIInv
<1>2. PICK s \in req[p].socket : \/ LeaveEarly(s, {"join"}) /\ Closed(s)
                                \/ UNCHANGED <<sockets, registries>>
  BY DEF RefuseConnection
<1>3. CASE UNCHANGED <<sockets, registries>>
  <2>1. EntriesAwaited'
    BY <1>1, <1>3, IdleServesNothing, EntriesKept DEF EntriesTrue, sockets, registries
  <2>2. QED
    BY <1>3, <2>1 DEF EntriesTrue, OnlineTrue, ViewersTrue, Counts, sockets, registries
<1>4. CASE LeaveEarly(s, {"join"}) /\ Closed(s)
  <2>1. /\ online' = online \ {s} /\ viewers' = viewers \ {s} /\ hasty \subseteq hasty'
        /\ open' = open \ {s} /\ tab' = tab \ {s} /\ room' = room \ {s}
        /\ \A q \in Handlers : At(q, "join") /\ s \in req[q].socket => UserOf[s] \in hasty'
    BY <1>4 DEF LeaveEarly, Closed, PresenceRemove, RemoveViewer, At
  <2>2. OnlineTrue' /\ ViewersTrue'
    BY <2>1 DEF EntriesTrue, OnlineTrue, ViewersTrue, Counts
  <2>3. At(p, "lookup") /\ s \in req[p].socket
    BY <1>2, <1>4 DEF RefuseConnection
  <2>4. ASSUME NEW q \in Handlers, NEW t \in req'[q].socket
        PROVE  /\ req'[q].at = "lookup" => t \in open' \/ UserOf[t] \in hasty'
               /\ req'[q].at = "join" => t \in tab' \/ UserOf[t] \in hasty'
    <3>1. q # p /\ req'[q] = req[q]
      BY <1>1, <2>4, IdleServesNothing DEF OnlyServes
    <3>2. /\ At(q, "lookup") => t \in open \/ UserOf[t] \in hasty
          /\ At(q, "join") => t \in tab \/ UserOf[t] \in hasty
      BY <2>4, <3>1 DEF EntriesTrue, EntriesAwaited, Counts
    <3>3. At(q, "lookup") => t # s
      BY <2>3, <2>4, <3>1 DEF OneLookup
    <3>4. At(q, "join") /\ t = s => UserOf[t] \in hasty'
      BY <2>1, <2>4, <3>1
    <3>5. QED
      BY <2>1, <3>1, <3>2, <3>3, <3>4 DEF At
  <2>5. EntriesAwaited'
    BY <2>4 DEF EntriesAwaited, Counts, At
  <2>6. QED
    BY <2>2, <2>5 DEF EntriesTrue
<1>5. QED
  BY <1>2, <1>3, <1>4

\* Messages and comments leave the registries alone.
LEMMA PostingKeepsEntries ==
  ASSUME TypeIInv, EntriesTrue, NEW p \in Handlers,
         \/ QueryThrows(p) \/ SaveMessage(p) \/ Dispatches(p)
         \/ \E u \in Users : Comment(p, u)
  PROVE  EntriesTrue'
<1>1. UNCHANGED <<sockets, registries>>
  BY DEF QueryThrows, SaveMessage, Comment, Dispatches, ResolveRecipients, ResolveThrows,
         SendMail, MailFails, DispatchThrows, Dispatched, Notify, RowRefused
<1>2. OnlyServes(p) /\ req'[p].at \notin {"lookup", "join"}
  <2>1. CASE QueryThrows(p) \/ SaveMessage(p)
    BY <2>1, QueryThrowsTyped, SaveFacts, IdleServesNothing
  <2>2. ASSUME NEW u \in Users, Comment(p, u)
        PROVE  OnlyServes(p) /\ req'[p].at \notin {"lookup", "join"}
    BY <2>2, CommentFacts
  <2>3. CASE Dispatches(p)
    BY <2>3, DispatchFacts, IdleServesNothing DEF PostSteps
  <2>4. QED
    BY <2>1, <2>2, <2>3
<1>3. EntriesAwaited'
  BY <1>1, <1>2, EntriesKept DEF EntriesTrue, sockets, registries
<1>4. QED
  BY <1>1, <1>3 DEF EntriesTrue, OnlineTrue, ViewersTrue, Counts, sockets, registries

\* A restart empties the registries, with everybody gone.
LEMMA RestartKeepsEntries ==
  ASSUME TypeIInv, Restart
  PROVE  EntriesTrue'
<1>1. \A p \in Handlers : req'[p] = Idle
  BY RestartLoses DEF TypeIInv
<1>2. online' = {} /\ viewers' = {}
  BY DEF Restart
<1>3. QED
  BY <1>1, <1>2, IdleServesNothing
     DEF EntriesTrue, OnlineTrue, ViewersTrue, EntriesAwaited

\* Every step leaves the entries true.
LEMMA EntriesStep == TypeIInv /\ OneLookup /\ EntriesTrue /\ [Next]_vars => EntriesTrue'
<1> SUFFICES ASSUME TypeIInv, OneLookup, EntriesTrue, [Next]_vars PROVE EntriesTrue'
  OBVIOUS
<1>1. CASE UNCHANGED vars
  BY <1>1 DEF vars, sockets, registries, EntriesTrue, OnlineTrue, ViewersTrue,
              EntriesAwaited, Counts, At
<1>2. ASSUME NEW u, RemoveMember(u) \/ DeleteAccount(u) PROVE EntriesTrue'
  BY <1>2 DEF RemoveMember, DeleteAccount, sockets, registries, EntriesTrue, OnlineTrue,
              ViewersTrue, EntriesAwaited, Counts, At
<1>3. CASE Next
  BY <1>2, <1>3, ConnectionKeepsEntries, AnswerKeepsEntries, RefuseKeepsEntries,
     LeavingKeepsEntries, PostingKeepsEntries, RestartKeepsEntries DEF Next, Dispatches
<1>4. QED
  BY <1>1, <1>3

\* A handler that looks up no connection, or that of a socket nobody serves.
LEMMA LookupKept ==
  ASSUME OneLookup, NEW p \in Handlers, OnlyServes(p),
         \/ req'[p].at # "lookup"
         \/ \A q \in Handlers : req'[p].socket \cap req[q].socket = {}
  PROVE  OneLookup'
BY DEF OneLookup, OnlyServes, At

\* Every step looks up a connection once.
LEMMA LookupStep == TypeIInv /\ OneLookup /\ [Next]_vars => OneLookup'
<1> SUFFICES ASSUME TypeIInv, OneLookup, [Next]_vars PROVE OneLookup'
  OBVIOUS
<1>1. CASE req' = req
  BY <1>1 DEF OneLookup, At
<1>2. ASSUME NEW p \in Handlers, NEW s \in Sockets, HandleConnection(p, s)
      PROVE  OneLookup'
  <2>1. OnlyServes(p) /\ req'[p].socket = {s}
    BY <1>2, BeginServes DEF HandleConnection, TypeIInv
  <2>2. \A q \in Handlers : s \notin req[q].socket
    BY <1>2 DEF HandleConnection
  <2>3. QED
    BY <2>1, <2>2, LookupKept
<1>3. ASSUME NEW p \in Handlers, NEW s \in Sockets,
             JoinRoom(p, s) \/ GetUnreadCount(p, s) \/ SendMessage(p, s)
      PROVE  OneLookup'
  <2>1. PICK step \in {"join", "unread", "save"} : Begin(p, step, s)
    BY <1>3 DEF JoinRoom, GetUnreadCount, SendMessage
  <2>2. OnlyServes(p) /\ req'[p].at = step
    BY <2>1, BeginServes DEF TypeIInv
  <2>3. QED
    BY <2>2, LookupKept
<1>4. ASSUME NEW p \in Handlers,
             \/ AddPresence(p) \/ RefuseConnection(p) \/ AddViewer(p) \/ JoinForBadge(p)
             \/ QueryThrows(p)
      PROVE  OneLookup'
  <2>1. Done(p)
    BY <1>4 DEF AddPresence, RefuseConnection, AddViewer, JoinForBadge, QueryThrows
  <2>2. QED
    BY <2>1, DoneServes, IdleServesNothing, LookupKept DEF TypeIInv
<1>5. ASSUME NEW p \in Handlers, SaveMessage(p)
      PROVE  OneLookup'
  BY <1>5, SaveFacts, LookupKept
<1>6. ASSUME NEW p \in Handlers, NEW u \in Users, Comment(p, u)
      PROVE  OneLookup'
  BY <1>6, CommentFacts, LookupKept
<1>7. ASSUME NEW p \in Handlers, Dispatches(p)
      PROVE  OneLookup'
  BY <1>7, DispatchFacts, IdleServesNothing, LookupKept DEF PostSteps
<1>8. CASE Restart
  BY <1>8, IdleServesNothing DEF Restart, OneLookup, At
<1>9. CASE UNCHANGED vars
  BY <1>1, <1>9 DEF vars
<1>10. ASSUME NEW s \in Sockets, HandleDisconnect(s) \/ LeaveRoom(s)
       PROVE  OneLookup'
  BY <1>1, <1>10 DEF HandleDisconnect, LeaveRoom
<1>11. ASSUME NEW u, RemoveMember(u) \/ DeleteAccount(u)
       PROVE  OneLookup'
  BY <1>1, <1>11 DEF RemoveMember, DeleteAccount
<1>12. QED
  BY <1>2, <1>3, <1>4, <1>5, <1>6, <1>7, <1>8, <1>9, <1>10, <1>11 DEF Next, Dispatches

-----------------------------------------------------------------------------
(* Who has been reached *)

PostsTrue == SparedReached /\ EveryoneReached

\* A step of a handler leaves the posts of the others true, if its own is.
LEMMA PostsKept ==
  ASSUME TypeIInv, PostsTrue, NEW p \in Handlers, OnlyServes(p), hasty' = hasty,
         Len(posts') \in {Len(posts), Len(posts) + 1},
         \A m \in 1..Len(posts) \ {req[p].post} : posts'[m] = posts[m],
         Due(req'[p], posts'[req'[p].post], hasty),
         \A m \in 1..Len(posts') : m \in {req[p].post, Len(posts) + 1} =>
           \/ req'[p].post = m
           \/ posts'[m].asked \subseteq Settled(posts'[m]) \cup hasty
  PROVE  PostsTrue'
<1>1. Len(posts) \in Nat
  BY PostsTyped DEF TypeIInv
<1>2. SparedReached'
  <2>1. ASSUME NEW q \in Handlers
        PROVE  Due(req'[q], posts'[req'[q].post], hasty)
    <3>1. CASE q = p
      BY <3>1
    <3>2. CASE q # p /\ req[q].at \in PostSteps
      <4>1. req'[q] = req[q]
        BY <3>2 DEF OnlyServes
      <4>2. req[q].post \in 1..Len(posts) /\ req[q].post # 0
        BY <1>1, <3>2 DEF TypeIInv, PostsServed
      <4>3. req[q].post # req[p].post
        BY <3>2, <4>2 DEF TypeIInv, PostsServed
      <4>4. posts'[req[q].post] = posts[req[q].post]
        BY <4>2, <4>3
      <4>5. QED
        BY <4>1, <4>4 DEF PostsTrue, SparedReached
    <3>3. CASE q # p /\ req[q].at \notin PostSteps
      BY <3>3 DEF OnlyServes, PostSteps, Due
    <3>4. QED
      BY <3>1, <3>2, <3>3
  <2>2. QED
    BY <2>1 DEF SparedReached
<1>3. EveryoneReached'
  <2>1. ASSUME NEW m \in 1..Len(posts')
        PROVE  \/ \E q \in Handlers : req'[q].post = m
               \/ posts'[m].asked \subseteq Settled(posts'[m]) \cup hasty'
    <3>1. CASE m \in {req[p].post, Len(posts) + 1}
      BY <3>1
    <3>2. CASE m \notin {req[p].post, Len(posts) + 1}
      <4>1. m \in 1..Len(posts)
        BY <1>1, <3>2
      <4>2. posts'[m] = posts[m]
        BY <3>2, <4>1
      <4>3. \/ \E q \in Handlers \ {p} : req[q].post = m
            \/ posts[m].asked \subseteq Settled(posts[m]) \cup hasty
        BY <3>2, <4>1 DEF PostsTrue, EveryoneReached, Served
      <4>4. (\E q \in Handlers \ {p} : req[q].post = m)
              => \E q \in Handlers : req'[q].post = m
        BY DEF OnlyServes
      <4>5. QED
        BY <4>2, <4>3, <4>4
    <3>3. QED
      BY <3>1, <3>2
  <2>2. QED
    BY <2>1 DEF EveryoneReached, Served
<1>4. QED
  BY <1>2, <1>3 DEF PostsTrue

\* Connections, tabs and badges, and the answers to them, leave the posts
\* alone; so does a message that is yet to be saved.
LEMMA SocketKeepsPosts ==
  ASSUME TypeIInv, PostsTrue, NEW p \in Handlers,
         \/ \E s \in Sockets : \/ HandleConnection(p, s) \/ JoinRoom(p, s)
                               \/ GetUnreadCount(p, s) \/ SendMessage(p, s)
         \/ AddPresence(p) \/ AddViewer(p) \/ JoinForBadge(p) \/ QueryThrows(p)
  PROVE  PostsTrue'
<1>1. posts' = posts /\ hasty' = hasty
  BY DEF HandleConnection, JoinRoom, GetUnreadCount, SendMessage, AddPresence, AddViewer,
         JoinForBadge, QueryThrows, registries
<1>2. req[p].at \notin PostSteps
  BY DEF HandleConnection, JoinRoom, GetUnreadCount, SendMessage, AddPresence, AddViewer,
         JoinForBadge, QueryThrows, Begin, At, PostSteps
<1>3. OnlyServes(p) /\ req'[p].at \notin PostSteps
  <2>1. ASSUME NEW s \in Sockets,
               \/ HandleConnection(p, s) \/ JoinRoom(p, s) \/ GetUnreadCount(p, s)
               \/ SendMessage(p, s)
        PROVE  OnlyServes(p) /\ req'[p].at \notin PostSteps
    <3>1. PICK step \in {"lookup", "join", "unread", "save"} : Begin(p, step, s)
      BY <2>1 DEF HandleConnection, JoinRoom, GetUnreadCount, SendMessage
    <3>2. QED
      BY <3>1, BeginServes DEF PostSteps, TypeIInv
  <2>2. CASE AddPresence(p) \/ AddViewer(p) \/ JoinForBadge(p) \/ QueryThrows(p)
    <3>1. Done(p)
      BY <2>2 DEF AddPresence, AddViewer, JoinForBadge, QueryThrows
    <3>2. QED
      BY <3>1, DoneServes, IdleServesNothing DEF PostSteps, TypeIInv
  <2>3. QED
    BY <2>1, <2>2
<1>4. req[p].post = 0 /\ Len(posts) \in Nat
  BY <1>2, PostsTyped DEF TypeIInv, PostsServed
<1>5. \A m \in 1..Len(posts') : m \notin {req[p].post, Len(posts) + 1}
  BY <1>1, <1>4
<1>6. Due(req'[p], posts'[req'[p].post], hasty)
  BY <1>3 DEF PostSteps, Due
<1>7. QED
  BY <1>1, <1>3, <1>5, <1>6, PostsKept

\* More hasty users leave the posts true.
LEMMA HastyKeepsPosts ==
  ASSUME PostsTrue, posts' = posts, hasty \subseteq hasty',
         \A p \in Handlers : req'[p] = req[p] \/ (req'[p] = Idle /\ req[p].post = 0)
  PROVE  PostsTrue'
<1>1. SparedReached'
  BY IdleServesNothing DEF PostsTrue, SparedReached, Due
<1>2. ASSUME NEW n \in 1..Len(posts')
      PROVE  (Served(n) \/ posts[n].asked \subseteq Settled(posts[n]) \cup hasty)'
  <2>1. CASE Served(n) /\ n # 0
    <3>1. PICK p \in Handlers : req[p].post = n
      BY <2>1 DEF Served
    <3>2. QED
      BY <2>1, <3>1 DEF Served
  <2>2. CASE posts[n].asked \subseteq Settled(posts[n]) \cup hasty
    BY <2>2
  <2>3. QED
    BY <1>2, <2>1, <2>2 DEF PostsTrue, EveryoneReached
<1>3. QED
  BY <1>1, <1>2 DEF PostsTrue, EveryoneReached

\* Of whoever leaves, is refused or is removed, nothing is read but that he was
\* hasty.
LEMMA LeavingKeepsPosts ==
  ASSUME TypeIInv, PostsTrue,
         \/ \E s \in Sockets : HandleDisconnect(s) \/ LeaveRoom(s)
         \/ \E u : RemoveMember(u) \/ DeleteAccount(u)
         \/ \E p \in Handlers : RefuseConnection(p)
  PROVE  PostsTrue'
<1>1. posts' = posts /\ hasty \subseteq hasty'
  BY DEF HandleDisconnect, LeaveRoom, RemoveMember, DeleteAccount, RefuseConnection,
         registries, LeaveEarly
<1>2. ASSUME NEW p \in Handlers, RefuseConnection(p)
      PROVE  PostsTrue'
  <2>1. req[p].post = 0
    BY <1>2 DEF RefuseConnection, At, TypeIInv, PostsServed, PostSteps
  <2>2. OnlyServes(p) /\ req'[p] = Idle
    BY <1>2, DoneServes DEF RefuseConnection, TypeIInv
  <2>3. QED
    BY <1>1, <2>1, <2>2, HastyKeepsPosts DEF OnlyServes
<1>3. ASSUME req' = req
      PROVE  PostsTrue'
  BY <1>1, <1>3, HastyKeepsPosts
<1>4. QED
  BY <1>2, <1>3 DEF HandleDisconnect, LeaveRoom, RemoveMember, DeleteAccount

\* Whoever a message spares has his tab open and receives it, or was hasty.
LEMMA SaveKeepsPosts ==
  ASSUME TypeIInv, EntriesTrue, PostsTrue, NEW p \in Handlers, SaveMessage(p)
  PROVE  PostsTrue'
<1>1. UsersOf(viewers) \subseteq UsersOf(room \cap tab) \cup hasty
  BY DEF UsersOf, EntriesTrue, ViewersTrue, Counts
<1>2. hasty' = hasty
  BY DEF SaveMessage, registries
<1>3. req[p].post = 0 /\ Len(posts) \in Nat
  BY SaveFacts DEF TypeIInv, PostsServed, PostSteps
<1>4. \A m \in 1..Len(posts') : m \in {req[p].post, Len(posts) + 1} => req'[p].post = m
  BY <1>3, SaveFacts
<1>5. Due(req'[p], posts'[req'[p].post], hasty)
  BY <1>1, SaveFacts DEF Due
<1>6. OnlyServes(p) /\ req'[p].at = "resolve"
  BY SaveFacts
<1>7. Len(posts') = Len(posts) + 1 /\ \A n \in 1..Len(posts) : posts'[n] = posts[n]
  BY SaveFacts
<1>8. QED
  BY <1>2, <1>4, <1>5, <1>6, <1>7, PostsKept

\* A comment spares nobody.
LEMMA CommentKeepsPosts ==
  ASSUME TypeIInv, PostsTrue, NEW p \in Handlers, NEW u \in Users, Comment(p, u)
  PROVE  PostsTrue'
<1>1. hasty' = hasty
  BY DEF Comment, registries
<1>2. req[p].post = 0 /\ Len(posts) \in Nat
  BY CommentFacts DEF TypeIInv, PostsServed, PostSteps
<1>3. \A m \in 1..Len(posts') : m \in {req[p].post, Len(posts) + 1} => req'[p].post = m
  BY <1>2, CommentFacts
<1>4. OnlyServes(p) /\ Due(req'[p], posts'[req'[p].post], hasty)
  BY CommentFacts DEF Due
<1>5. Len(posts') = Len(posts) + 1 /\ \A n \in 1..Len(posts) : posts'[n] = posts[n]
  BY CommentFacts
<1>6. QED
  BY <1>1, <1>3, <1>4, <1>5, PostsKept

\* What a dispatch owes its post is all there is to see to.
LEMMA OwnPostKept ==
  ASSUME TypeIInv, PostsTrue, NEW p \in Handlers, OnlyServes(p),
         req[p].post \in 1..Len(posts), OnlyPost(req[p].post), hasty' = hasty,
         \/ /\ req'[p].post = req[p].post /\ req'[p].at \in {"dispatch", "mail"}
            /\ posts'[req[p].post].asked \subseteq
                 req'[p].todo \cup Settled(posts'[req[p].post]) \cup hasty
         \/ /\ req'[p] = Idle
            /\ posts'[req[p].post].asked \subseteq Settled(posts'[req[p].post]) \cup hasty
  PROVE  PostsTrue'
<1> DEFINE n == req[p].post
<1>1. Len(posts') = Len(posts) /\ \A m \in 1..Len(posts) \ {n} : posts'[m] = posts[m]
  BY DEF OnlyPost
<1>2. Len(posts) \in Nat
  BY PostsTyped DEF TypeIInv
<1>4. Due(req'[p], posts'[req'[p].post], hasty)
  BY IdleServesNothing DEF Due
<1>5. \/ req'[p].post = n
      \/ posts'[n].asked \subseteq Settled(posts'[n]) \cup hasty
  OBVIOUS
<1>6. \A m \in 1..Len(posts') : m \in {req[p].post, Len(posts) + 1} =>
        \/ req'[p].post = m
        \/ posts'[m].asked \subseteq Settled(posts'[m]) \cup hasty
  BY <1>1, <1>2, <1>5
<1>7. QED
  BY <1>1, <1>4, <1>6, PostsKept

\* A dispatch passes over nobody but those who are reached, or were hasty.
LEMMA DispatchKeepsPosts ==
  ASSUME TypeIInv, EntriesTrue, PostsTrue, NEW p \in Handlers,
         Dispatches(p)
  PROVE  PostsTrue'
<1> DEFINE n == req[p].post
<1>1. n \in 1..Len(posts) /\ OnlyServes(p) /\ OnlyPost(n)
  BY DispatchFacts
<1>2. hasty' = hasty
  BY DEF Dispatches, ResolveRecipients, ResolveThrows, SendMail, MailFails, DispatchThrows,
         Dispatched, Notify, RowRefused, registries
<1>3. Due(req[p], posts[n], hasty)
  BY DEF PostsTrue, SparedReached
<1> USE DEF At
<1>4. CASE ResolveRecipients(p)
  <2>1. posts'[n].asked = Recipients(p) /\ Settled(posts'[n]) = Settled(posts[n])
    BY <1>1, <1>4, RecipientsAreUsers, AskedChanges DEF ResolveRecipients, TypeIInv
  <2>2. req'[p].at = "dispatch" /\ req'[p].post = n /\ req'[p].todo = Recipients(p) \ req[p].todo
    BY <1>4, ResolveServes DEF TypeIInv
  <2>3. At(p, "resolve")
    BY <1>4 DEF ResolveRecipients
  <2>4. posts'[n].asked \subseteq req'[p].todo \cup Settled(posts'[n]) \cup hasty
    BY <1>3, <2>1, <2>2, <2>3 DEF Due
  <2>5. QED
    BY <1>1, <1>2, <2>2, <2>4, OwnPostKept
<1>5. CASE SendMail(p) \/ MailFails(p)
  <2>1. {req[p].user} \in SUBSET Users
    BY DEF TypeIInv, TypeOK, Request
  <2>2. posts'[n].asked = posts[n].asked /\ Settled(posts'[n]) = Settled(posts[n]) \cup {req[p].user}
    BY <1>1, <1>5, <2>1, ReachedChanges, FailedChanges DEF SendMail, MailFails, TypeIInv
  <2>3. req'[p].at = "dispatch" /\ req'[p].post = n /\ req'[p].todo = req[p].todo \ {req[p].user}
    BY <1>5, MailServes DEF TypeIInv
  <2>4. At(p, "mail")
    BY <1>5 DEF SendMail, MailFails
  <2>5. posts'[n].asked \subseteq req'[p].todo \cup Settled(posts'[n]) \cup hasty
    BY <1>3, <2>2, <2>3, <2>4 DEF Due
  <2>6. QED
    BY <1>1, <1>2, <2>3, <2>5, OwnPostKept
<1>6. CASE DispatchThrows(p)
  <2>1. req[p].todo \in SUBSET Users /\ At(p, "dispatch")
    BY <1>6 DEF DispatchThrows, TypeIInv, TypeOK, Request
  <2>2. /\ posts'[n].asked = posts[n].asked
        /\ Settled(posts'[n]) = Settled(posts[n]) \cup req[p].todo
    BY <1>1, <1>6, <2>1, FailedChanges DEF DispatchThrows, TypeIInv
  <2>3. req'[p] = Idle
    BY <1>6, DoneServes DEF DispatchThrows, TypeIInv
  <2>4. posts'[n].asked \subseteq Settled(posts'[n]) \cup hasty
    BY <1>3, <2>1, <2>2 DEF Due
  <2>5. QED
    BY <1>1, <1>2, <2>3, <2>4, OwnPostKept
<1>7. CASE Dispatched(p) \/ ResolveThrows(p)
  <2>1. /\ posts' = posts
        /\ (At(p, "dispatch") /\ req[p].todo = {}) \/ At(p, "resolve")
    BY <1>7 DEF Dispatched, ResolveThrows
  <2>2. req'[p] = Idle
    BY <1>7, DoneServes DEF Dispatched, ResolveThrows, TypeIInv
  <2>3. posts'[n].asked \subseteq Settled(posts'[n]) \cup hasty
    BY <1>3, <2>1 DEF Due
  <2>4. QED
    BY <1>1, <1>2, <2>2, <2>3, OwnPostKept
<1>8. ASSUME NEW u \in Users, Notify(p, u)
      PROVE  PostsTrue'
  <2> DEFINE here == {u} \cap UsersOf(open)
  <2>1. here \in SUBSET Users
    OBVIOUS
  <2>2. posts' = [posts EXCEPT ![n].reached = @ \cup here]
    BY <1>8 DEF Notify
  <2>3. At(p, "dispatch")
    BY <1>8 DEF Notify, IsNext
  <2>4. IsOnline(u) => u \in here \cup hasty
    BY DEF IsOnline, UsersOf, EntriesTrue, OnlineTrue, Counts
  <2> HIDE DEF here
  <2>5. posts'[n].asked = posts[n].asked /\ Settled(posts'[n]) = Settled(posts[n]) \cup here
    BY <1>1, <2>1, <2>2, ReachedChanges DEF TypeIInv
  <2>6. /\ req'[p].post = n /\ req'[p].at \in {"dispatch", "mail"}
        /\ IsOnline(u) => req'[p].todo = req[p].todo \ {u}
        /\ ~IsOnline(u) => req'[p].todo = req[p].todo
    BY <1>8, NotifyServes DEF TypeIInv
  <2>7. posts'[n].asked \subseteq req'[p].todo \cup Settled(posts'[n]) \cup hasty
    BY <1>3, <2>3, <2>4, <2>5, <2>6 DEF Due
  <2>8. QED
    BY <1>1, <1>2, <2>6, <2>7, OwnPostKept
<1>9. ASSUME NEW u \in Users, RowRefused(p, u)
      PROVE  PostsTrue'
  <2>1. /\ {u} \in SUBSET Users /\ req[p].todo \ {u} \in SUBSET Users
        /\ At(p, "dispatch") /\ u \in req[p].todo
    BY <1>9 DEF RowRefused, IsNext, TypeIInv, TypeOK, Request
  <2> DEFINE rest == req[p].todo \ {u}
  <2>2. /\ posts'[n].asked = posts[n].asked
        /\ Settled(posts'[n]) = Settled(posts[n]) \cup {u} \cup rest
    <3>1. posts' = [posts EXCEPT ![n] =
             [posts[n] EXCEPT !.failed = posts[n].failed \cup {u},
                              !.behind = posts[n].behind \cup rest]]
      BY <1>9 DEF RowRefused
    <3>2. {u} \in SUBSET Users /\ rest \in SUBSET Users
      BY <2>1
    <3> HIDE DEF rest, n
    <3>3. QED
      BY <1>1, <3>1, <3>2, RefusedChanges DEF TypeIInv
  <2>3. req'[p] = Idle
    BY <1>9, DoneServes DEF RowRefused, TypeIInv
  <2>4. posts'[n].asked \subseteq Settled(posts'[n]) \cup hasty
    BY <1>3, <2>1, <2>2 DEF Due
  <2>5. QED
    BY <1>1, <1>2, <2>3, <2>4, OwnPostKept
<1>10. QED
  BY <1>4, <1>5, <1>6, <1>7, <1>8, <1>9 DEF Dispatches

\* Whom a dispatch under way at a restart was still to notify, it has cost the
\* post.
LEMMA RestartKeepsPosts ==
  ASSUME TypeIInv, PostsTrue, Restart
  PROVE  PostsTrue'
<1>1. SparedReached'
  BY RestartLoses, IdleServesNothing DEF SparedReached, Due, TypeIInv
<1>2. hasty' = hasty
  BY DEF Restart
<1>3. EveryoneReached'
  <2>1. ASSUME NEW m \in 1..Len(posts')
        PROVE  posts'[m].asked \subseteq Settled(posts'[m]) \cup hasty
    <3>1. /\ m \in 1..Len(posts) /\ posts'[m].asked = posts[m].asked
          /\ Settled(posts'[m]) = Settled(posts[m]) \cup Awaiting(m)
      BY RestartLoses DEF TypeIInv
    <3>2. CASE posts[m].asked \subseteq Settled(posts[m]) \cup hasty
      BY <3>1, <3>2
    <3>3. ASSUME NEW p \in Handlers, req[p].post = m
          PROVE  posts[m].asked \subseteq Settled(posts[m]) \cup Awaiting(m) \cup hasty
      <4>1. req[p].at \in PostSteps
        BY <3>1, <3>3, PostsTyped DEF TypeIInv, PostsServed
      <4>2. Due(req[p], posts[m], hasty)
        BY <3>3 DEF PostsTrue, SparedReached
      <4>3. req[p].at \in {"dispatch", "mail"} => req[p].todo \subseteq Awaiting(m)
        BY <3>3, AwaitingUsers DEF At, TypeIInv
      <4>4. QED
        BY <4>1, <4>2, <4>3 DEF Due, PostSteps
    <3>4. QED
      BY <3>1, <3>2, <3>3 DEF PostsTrue, EveryoneReached, Served
  <2>2. QED
    BY <1>2, <2>1 DEF EveryoneReached
<1>4. QED
  BY <1>1, <1>3 DEF PostsTrue

\* Every step leaves the posts true.
LEMMA PostsStep == TypeIInv /\ EntriesTrue /\ PostsTrue /\ [Next]_vars => PostsTrue'
<1> SUFFICES ASSUME TypeIInv, EntriesTrue, PostsTrue, [Next]_vars PROVE PostsTrue'
  OBVIOUS
<1>1. CASE UNCHANGED vars
  BY <1>1 DEF vars, registries, PostsTrue, SparedReached, EveryoneReached, Served
<1>2. CASE Next
  BY <1>2, SocketKeepsPosts, LeavingKeepsPosts, SaveKeepsPosts, CommentKeepsPosts,
     DispatchKeepsPosts, RestartKeepsPosts DEF Next, Dispatches
<1>3. QED
  BY <1>1, <1>2

IInv == TypeIInv /\ OneLookup /\ EntriesTrue /\ PostsTrue

\* The initial states: nobody is there, and nothing has been posted.
LEMMA InvInit == Init => IInv
<1> SUFFICES ASSUME Init PROVE IInv
  OBVIOUS
<1>1. TypeIInv
  BY TypeInit
<1>2. EntriesTrue
  BY IdleServesNothing DEF Init, EntriesTrue, OnlineTrue, ViewersTrue, EntriesAwaited, At
<1>3. SparedReached
  BY IdleServesNothing DEF Init, SparedReached, Due
<1>4. EveryoneReached
  BY DEF Init, EveryoneReached
<1>5. OneLookup
  BY IdleServesNothing DEF Init, OneLookup, At
<1>6. QED
  BY <1>1, <1>2, <1>3, <1>4, <1>5 DEF IInv, PostsTrue

\* Once the dispatch of a message or a comment is over, everyone it was for
\* has been reached, whatever sockets came and went meanwhile and whichever
\* mails failed: unless his own mail failed, an account that was gone, the
\* database or the end of the process ended the loop before him, or one of his
\* sockets left before it was let in (dispatch, addViewer, PresenceService).
THEOREM EveryoneIsReached == Spec => []EveryoneReached
<1>1. IInv /\ [Next]_vars => IInv'
  BY TypeStep, LookupStep, EntriesStep, PostsStep DEF IInv
<1>2. IInv => EveryoneReached
  BY DEF IInv, PostsTrue
<1>3. QED
  BY InvInit, <1>1, <1>2, PTL DEF Spec

=============================================================================
