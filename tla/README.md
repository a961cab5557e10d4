# A verification project for the WorkspaceBridge backend

WorkspaceBridge is a NestJS server over PostgreSQL (through Prisma), Cloudflare
R2 for files and Socket.IO for live updates. These TLA+ modules model its
behaviour where concurrency, failure and time make it hard: what several
requests, scheduled jobs, sockets and server instances do to the same rows,
objects and in-memory registries between their awaited calls. Paths below are
relative to the repository's `src/src/`.

A request handler is an `async` function; between two `await`s nothing else runs
in the process, at an `await` anything may. Almost no handler uses a transaction.
So a handler is modelled as a sequence of steps, one per awaited query or storage
call that matters, and the steps of all handlers interleave; the state a handler
read earlier is what it remembers, not what the database holds now. A request that
fails a check changes nothing and is not a step. PostgreSQL runs at its default
READ COMMITTED: each query sees what has been committed when it starts.

## Inventory

| Part | State | Operations | What is hard, and what makes it right | Module |
|---|---|---|---|---|
| `file/file.service.ts` | `files` rows, R2 objects | upload, restore, remove (to trash), purge | two sums around a lock; row and object in two steps. Quota holds, every listed row has its bytes, every object a row | `FileStore` |
| `file/file-cleanup.service.ts` | session lock, batch | daily sweep | fixed cutoff, failing batches, overlapping instances. Expired files go, sweeps end | `FileStore`, `SweepLock` |
| `auth/auth.service.ts` login | `failedLoginAttempts`, `lockedUntil`, audit log | login, failure, new-device alert | the lock is read before it is set; the alert reads a log whose writes nobody awaits | `Login` |
| `auth/two-factor-auth.service.ts`, exchange codes | attempts, backup codes, exchange codes | login with a code, enable, disable, regenerate | find, then mark; read, then write back. Each is spent once | `SecondFactor` |
| ends of all logins, passkeys, suspension, resets | `sessions`, `credentials` | login, evict, refresh, revoke, suspend, reset | read-evict-insert without a transaction. The cap, nothing comes back, a suspension stops refreshes | `Sessions` |
| refresh in `auth.service.ts`, `auth.controller.ts` | current and previous token, cookie | rotate, grace, logout | lost and overlapping replies. A retry is honoured | `RefreshRotation` |
| registration, mailed tokens, Google, invites, sign-in methods, account deletion | `users`, `accounts`, `tokens`, invites | some thirty queries | addresses change hands between check and write. A verified address is proven, a link works once, a way in remains | `Identity` |
| `workspace/`, `shared-task/`, `shared-link/`, `private-task/`, comments, `search/` | rows of a workspace, members, rooms | create, update, delete, announce, remove a member, search | access is checked before it is used; a write is announced after it. Removal takes hold, the room knows the rows, a search shows what the lists show | `Workspace` |
| `message/`, `presence/`, `notification/` | rooms, viewers, online sockets | connect, join, send, dispatch | sockets go while they are awaited; a refused row ends a dispatch, a failed mail does not. Everyone is reached | `Chat` |
| `whiteboard/` | scene, pending payload, timer, presenter, versions | scene update, persist, save, restore, present, delete, join | debounce and overlapping writes, death of the process. The latest scene is stored and seen, a restore can be undone | `Whiteboard`, `WhiteboardRoom` |
| password history, profile, administration's lists, mail, feedback, health, configuration | | | see *Not modelled* | |

Components meet in the database and in the process's maps: deletion of a workspace
takes files and boards with it by cascade; suspension and password reset delete
sessions behind logins and refreshes; services call gateways to announce what they
wrote; the notification service reads the presence that the chat gateway maintains;
a login passes through `Login`, `SecondFactor` and `Sessions`, and what it names
through `Identity`. `PROJECT.json` lists every component with its status, and every
hazard at its line.

## Modules

| Module | Models |
|---|---|
| `FileRows` | the `files` table as the quota sees it, the clock, the sum; shared by the next two |
| `FileLedger` | abstract specification: upload, trash, restore, delete as atomic steps |
| `FileStore` | the handlers, the sweep and the administrator's deletion, step by step, with failures and crashes |
| `SweepLock` | the session-level advisory lock over a pool of connections |
| `SingleUse` | abstract specification of a one-time credential |
| `Login` | lockout and new-device alert |
| `SecondFactor` | temporary tokens, backup codes, exchange codes |
| `Sessions` | one account's sessions and passkeys |
| `RefreshRotation` | the tokens of one session and the browser's cookie |
| `Identity` | accounts, addresses, mailed links, Google, invites |
| `Workspace` | one workspace's rows, members, room and search |
| `Chat` | sockets, presence, viewers, messages, notifications |
| `Whiteboard` | one board's scene, its pending update and timer, its versions, the presenter's pointer |
| `WhiteboardRoom` | `Whiteboard` composed with a socket that joins the room |
| `*_proofs` | lemmas, theorems and proofs |
| `MC*` | values for the constants, for TLC |

Two abstract specifications are implemented, each by `INSTANCE ... WITH`, checked
as a property, and proved: `FileStore` implements `FileLedger` (`LedgerSpec`; the rows
are the same, the requests, the sweep and the objects are hidden), and the credentials
of `SecondFactor` and the password resets of `Identity` implement `SingleUse`
(`SpentOnce`, `ResetOnce`; the history of what was offered and spent is recorded where
the code issues a credential and where one takes effect).

Definitions marked *Mutant* are not part of a specification: each is a plausible
bug, in the form of a definition of the module, that some run must detect when it
takes the definition's place. They show that the properties can fail.

### Files

`status` and `deletedAt` are the row (`deletedAt = 0` is NULL), `objects` is the
bucket, `req[p]` says where a request stands: `at` is the call it makes next, `file`
what it read, `age` how many clock ticks it has lasted. Sizes are abstracted to
`Bytes[S]`, the value of `SUM(size)` for a set of files; the plan's limits are
constants. The upload's transaction has two steps, `UploadCheck` (lock and sum) and
`UploadCommit` (insert, commit, unlock), so another request may remove, purge or
delete between them; what it may not do is add bytes. The restore has the same shape.

A request lasts at most `Span` ticks, at most the retention window. With `Span = 0`
a tick stands for any time a request cannot last; with `Span = 1` a window may end
under a request, which is rare in days and possible in milliseconds.

`Faults` names what may go wrong: the storage put, the undo, the storage delete of
purge, sweep and administrator, a database call, an acknowledgement of a commit that
is lost, a crash. A storage call that throws may have taken effect.

The sweep takes batches of `BatchSize` of the rows `Due` with the cutoff it computed
at the start, deletes object and row of each, and queries again after a full batch.
`SweepStart` does not count on the advisory lock: sweeps may overlap in the model.
`SweepLock` has the lock by itself, taken and released by separate queries on
whichever pooled connection serves them.

### Signing in

`Login` has one user row. A handler reads it (`dirty` is what it remembers: there
were failures or a lock to clear), then compares the password, then counts, locks or
clears. `compared` and `base` count what the property speaks of. The audit log is
the set `seen` of devices; its write is not awaited, so it may land late or never.
`alerted` and `missed` are the devices a mail was sent about, and those for which the
check threw or the mail failed: the server logs that and records the login all the same.

In `SecondFactor` the temporary tokens carry `tries`, the column, and `wrong`, what
really happened; a verification writes `tries` back as it read it. `offered`, `spent`
and `uses` are the credentials as `SingleUse` sees them. `raced` are those that two
verifications presented at once, `mixed` whether two changes of the codes overlapped:
the code does nothing about either, and the properties say what holds besides.

`Sessions` numbers the sessions in the order of `createdAt`. Every login ends alike:
list, evict, create; password, second factor, exchange code, Google's callback and
passkey each have their own beginning. `proof` remembers which password a login
verified. Expiry may happen to any session at any time, which is more than the clock
does. A passkey sign-in writes to the key it read by id.

In `RefreshRotation` a token *is* the second it was signed in: the payload differs in
nothing else, so two refreshes in one second give the same token. The browser's
cookie is set by whichever reply arrives last, or not at all.

### Identity

Accounts and tokens are numbered as they are created; `users`, `tokens` are functions
over those that exist, `links` the Google identities as pairs. A handler remembers
the address, the user and the token it read. `proven` collects the addresses whose
owner answered for them: followed a mailed link, signed in with Google, or was
vouched for by an administrator or by the workspace owner who handed out an open
invite link. The administrator's reset only deletes tokens, for what it stores is
never found (below).

### Workspace

A request checks access when it begins and writes later; `Emit*` is the announcement.
`status` says whether a client is a member; `rows` are tasks, links, comments and
private tasks with a version each; `told` is the last thing the room heard of a row.
`late` counts what a client who was removed still got in, or searched; `excused` marks the rows
that two requests changed at once, whose announcements may go out in either order,
or that a cascade took. A search resolves its workspaces in one step and reads in
another; `Found` is what the eight queries return, `Listed` what the eight lists show.

### Chat

A socket connects, is looked up, and only then entered in the presence registry;
joining a room has an awaited lookup too. Both registries are maps in memory and
die with the process. `hasty` are the users whose socket left before the answer to
its own request: it is added after it was removed, and stays. `posts` records, for
each message and comment, whom it was for (`asked`), whom it reached (`reached`), whose
own row or mail failed or whom the end of the loop or of the process cut off (`failed`),
and who came after a refused row (`behind`). A mail that fails is logged, and the loop
goes on with the next recipient (`MailFails`); a row the database refuses, which is that
of an account deleted meanwhile (`accounts`), ends it (`RowRefused`).

### Whiteboard

An update carries the whole scene, so `stored` is a register. A socket's update checks
access and then replaces `pending` and restarts `timer`; the timer's callback hands the
scene to a write that nobody awaits (`writes`) and forgets it. PATCH, the versions'
restore and the deletion write the row by themselves, past whatever is pending.
`latest` remembers the scene given to the server last: by a scheduled update, or by the
query of a save or restore.

Two of these writers that overlap may end in either order, and the code does nothing
about it: two debounced writes when one lasts longer than the pause, a save or restore
beside another or beside a scene that waits (which later overwrites what was restored,
and is not in the safety snapshot). `disturbed` records that this has happened, or a
death of the process, or a presentation beside a deletion; `LatestStored`,
`SnapshotFirst` and `NoDeadBoard` say what holds until then, so together they say that
nothing else can go wrong. `Die` loses what is pending: `onModuleDestroy` would store
it, but nothing calls it on a signal. `LandRejected` is a death from inside: the write
of a board deleted meanwhile throws into a promise that is `void`ed, and Node ends a
process with an unhandled rejection.

`WhiteboardRoom` takes every step of `Whiteboard` together with what it broadcasts, and
adds a socket: it enters the room first, reads the row second and is sent it third.
`behind` records what came between it and the latest scene.

## Runs

| Run | Instance | Shows |
|---|---|---|
| `files` | 2 files, limit 1, batches of 1, 2 requests, 1 sweep, `Span` 1, all eight faults | types; the lock protects the sum; the handlers implement the ledger |
| `trash` | 2 files, limit 1, batches of 2, 2 requests, 1 sweep, `Span` 0, clock to 5, the sweep's storage failures | the quota holds; no orphan; what is listed or downloadable has its bytes; the sweep destroys only what may not be restored any more; expired files go; sweeps end, also those that ask for a full batch again |
| `sweep_lock` | 2 instances, 4 jobs, 2 connections each | instances exclude each other though unlocks go astray |
| `login` | 2 requests, limit 3, 3 devices, at most 7 failures | wrong passwords in one window stay within the limit plus the requests past the check; a device is announced, or the server has logged that it could not be |
| `second_factor` | 2 requests, limit 2, 2 tokens, 2 sets of codes, 1 exchange code | credentials are spent once; wrong codes are bounded; only the newest codes are left |
| `sessions` | cap 2, 2 requests, 4 sessions, 1 change or reset, 1 passkey | the cap is exceeded by concurrent logins only; sessions with a replaced password are those of logins a reset overtook; what is gone stays gone; suspension stops refreshes |
| `rotation` | 2 requests, lost replies, grace 2 s, 5 s in all | a retry after lost replies is honoured while requests do not overlap; the cookie is lost only with the session |
| `identity` | 2 addresses, 1 Google account, 2 requests, 2 accounts, 2 links | verified addresses are proven; a reset link works once |
| `workspace` | owner and 1 client, 2 requests, 2 rows, 1 update each | a removal takes hold; the room knows each row; search and export stay within the lists |
| `chat` | owner and 2 clients, a socket each for owner and client, 2 handlers, 1 post | everyone a post is for sees it, is notified or is mailed, or his own mail failed; or he was cut off by a refused row, the database or the end of the process |
| `whiteboard` | 2 scenes, 2 handlers, 1 debounced write, pause of 1 tick, crashes, 1 joiner | the latest scene is stored, and seen by a joiner; a restore is undoable; nobody is sent to a dead board; what was drawn is written when people stop |
| `way_in` (violation) | 1 address more than Google's, 1 account, 1 request | refutes "refuses to remove the user's last remaining way to sign in" (`user/user.service.ts:451`): a password counts as a way in, though the sign-in refuses that of an account Google created |

### Bounds

Two requests are enough for every pairwise race the handlers have. Two files let one
fill the quota while the other waits for it, in the trash or being uploaded. In `files`
the clock goes just past the point where one file has been trashed, has expired and has
been swept (`Retention` 1, `MaxTime` 3), and a batch is one file, so every batch is full.
In `trash` batches are of two and the clock goes to 5: a sweep may find both files
expired, which is a full batch, deleted whole, in part or not at all, after which it asks
again at once and finds the files that failed; or it finds one, a short batch, after which
it stops. The quota is one file, but a file that has expired is not counted, so both may
be in the trash, the second filed when the first had expired. `trash` takes `Span` 0 and
only the sweep's failures because its properties are false otherwise, as the divergences
say.

A client with two sockets, of which one leaves, and three logins at once are left to
the proofs of `Chat` and `Login`; two clients beside the owner are needed for one
recipient's mail to fail with another still to come.

Bounds on what is issued (`MaxSessions`, `MaxPasswords`, `MaxKeys`, `MaxTemps`,
`MaxSets`, `MaxExchanges`, `MaxAccounts`, `MaxTokens`, `MaxItems`, `MaxVersion`,
`MaxPosts`, `FailureBound`) stop new requests from beginning or a counter from growing;
nothing already issued is blocked by them but as an error might. Four sessions with a
cap of two include a full table, an eviction and two logins that both see it. A limit
of two wrong codes has a first one that does not lock and a second that does; one of
three wrong passwords lets two requests read the account when one more locks it, and
seven failures reach beyond the bound the property states. Two sets of backup codes let a verification hold a code of the older. Two
accounts and two addresses let an address pass from one to the other between a check
and a write; one link may be in use while another replaces it. Two rows tell a row
from its neighbour, one update a change from a creation. Five seconds with a grace of
two let a token be replaced, kept, and outlive its grace. `MaxDepth` bounds how often a
stuck lock is retaken.

Two scenes tell the latest from an older one. One debounced write and two handlers
beside it give every pair of writers that can overlap but two debounced writes, which
the proofs cover with any number of them; a pause of one tick tells a timer just
restarted from one that is due.

Handlers are interchangeable, and the runs without liveness use that as a symmetry
(`login` also the devices). Only `rotation` turns the deadlock check off: its
browser is signed out in the end, and its clock stops.

### Fairness

In `whiteboard`, timers run and fire, queries and the handlers under way come to an end
(`FairRoomSpec`, weak fairness of each handler and write); people join and leave as
they like. `EditsSaved` is conditional on no update being scheduled any more, for
updates that never pause keep the timer from firing.

In `trash` the server's own steps are weakly fair (`SweepStep`: the event loop runs, the
database answers, the cron job fires every day and finds its lock free, as when no
unlock goes astray). Clients, failures and the clock owe nothing. `RecoveringSpec` adds
strong fairness of the successful storage delete: R2 does not refuse one object for
ever while it is asked again and again. `SweepEnds` needs that, for the loop after a full
batch has no other end. The other runs check safety and need none.

## What is proved

`tlapm` checks every step, and every safety invariant and safety action property that a
passing run checks is a theorem: it holds for any number of files, users, handlers,
sockets, sessions and scenes, any limits, sizes, times and faults that meet the named
assumptions. These give the constants their types and say that handlers, jobs, clients
and addresses are finitely many; beyond that they say that a sum over a set of files is
additive and monotone (`BytesAssumption`), that a request lasts at most the retention
window (`StoreAssumption`), that there is a handler (`SessionsAssumption`) and an address
(`IdentityAssumption`), that a workspace's owner is no client (`ChatAssumption`,
`WorkspaceAssumption`). Runs evaluate all of them.

A property is seldom inductive; what each proof adds to it is named below, and is the
reason why the code works.

Files (`FileStore_proofs`):

- `StoreTypeCorrect`: `TypeOK` of `FileStore`.
- `QuotaCheckHolds`: `QuotaHeld`. While a transaction is between its sum and its
  commit, what it checked remains true. That a commit adds no more than was checked
  needs that the file has no row yet (`UploadsFresh`: file ids are fresh and used by one
  upload), and that the other steps only shrink usage needs that a row trashed under a
  removal is still within retention (`RemovesRecent`, from `Span <= Retention`). `IInv`
  is the conjunction; each step preserves each part.
- `StoreImplementsLedger`: `Spec => LedgerSpec`. Each step of `FileStore` maps, with
  the identity on the rows, to a step of `FileLedger` or a stutter; `IInv` supplies the
  guard of the atomic step from the earlier check.
- `LedgerTypeCorrect`, `OvershootIsBounded`: types of the ledger, and that a workspace
  counts at most one file more than its plan allows, whatever fails.
  `StoreOvershootIsBounded` carries the latter over to the handlers by the refinement.
  It is stated for every number of files; an instance that could refute it needs three
  and is left to the proof.
- `NoOrphanLeft`: `NoOrphan`, also where requests outlast ticks and transactions and
  purges fail, which the run leaves out, under `NoLeak`, which excludes the faults for which the
  code itself leaks (a failed undo or unprotected put, the administrator's swallowed
  failure, a crash). The strengthening is `DeletersBehind`: whoever is about to delete a
  row has deleted the object.
- `QuotaIsKept`, `SweepHonoursRetention`, `ListedFilesHaveBytes`: `UsageWithinQuota`,
  `RetentionHonoured` and `ListedHasBytes`, under `Prompt`: `Span = 0`, no request lasts
  over a tick of the clock, as in the run `trash`. Without it they are false (see
  *Divergences*). A file being restored is then still within retention
  (`RestoresRecent`) and one the sweep has chosen stays over it (`SweptGone`); together
  they keep restores and sweeps apart. `ListedFilesHaveBytes` also assumes
  `DeletionsEnd`: neither the storage call of a purge, nor the database, nor the process
  fails, each of which could leave a row that is listed without its bytes; the storage
  calls of uploads, their undoing, the sweep and the administrator may.
- `LockTypeCorrect`, `OneInstanceSweeps`: `LockTypeOK` and `InstancesExclude` of
  `SweepLock`. `TakenForAll` is the strengthening: the session that holds the lock has
  taken it at least once for every job that runs, and belongs to the instance they run
  on, so an unlock that lands elsewhere only leaves it taken longer.

Signing in (`Login_proofs`, `SecondFactor_proofs`, `Sessions_proofs`):

- `LoginTypeCorrect`, `GuessesAreBounded`: `WrongPasswordsBounded`. `ExcessCounted`
  counts the wrong passwords beyond those left: until the lock is on, each belongs to a
  request that is about to set it; from then on each further one uses up a request that
  was past the check.
- `NewDevicesAreAnnounced`: `NewDevicesAnnounced`. Once the audit log has an entry, the
  devices in it that are neither announced nor missed and the requests that saw it empty
  are together no more than the handlers (`DevicesCounted`).
- `CredentialsTypeCorrect`, `WrongCodesAreBounded`, `CredentialsSpentOnce`,
  `NewestCodesAlone`: all of `SecondFactor`, the last but one its refinement of
  `SingleUse`. What a verification remembers of a token is what the row says, unless
  another one presented it too (`RaceSeen`, `TokensHeld`, `VerifiersAlone`); a backup
  code that has been spent is marked or gone, unless it was raced for, and a stored
  exchange code has not been spent (`CodesHeld`, `ExchangesHeld`). `Settled` says which sets of codes may be
  stored while a change is under way.
- `SessionsTypeCorrect`, `GoneIsForGood`, `SuspensionIsFinal`, `CapIsNearlyHeld`,
  `StaleLoginsAreBounded`: all of `Sessions`. After a suspension no refresh past the
  status check holds a session that exists (`RefreshesLost`). For the cap, there is
  always a mark: fewer than `Cap` of the sessions numbered up to it are left, and the
  later ones, together with the logins that will add to them from a list they read
  before, are no more than the handlers (`Marks`, `CapIInv`). The sessions with a
  replaced password and the logins under way with one are together fewer than the
  handlers, since the change itself was one (`StaleIInv`).
- `RotationTypeCorrect`, `RetryIsHonoured`: the safety of `RefreshRotation`. While
  requests do not overlap, the browser's token is the current one or the previous, which
  ceased to be current no later than the last rotation (`JarKnown`), and `Carries` says
  what the one request under way knows of it.

Identity (`Identity_proofs`):

- `IdentityTypeCorrect`, `VerifiedOwnerProven`, `ResetsImplementSingleUse`: all safety of
  `Identity`, the last its refinement of `SingleUse`. `Sound` is the conjunction of what
  accounts, links and requests look like (`PeopleOK`, `LettersOK`, `RequestsOK`), that a
  reset link that is stored was offered and has not been used (`ResetsHeld`), and that
  what a link, an invite or a Google sign-in is about to verify, its holder has answered
  for already (`ProvenHeld`).

Workspaces and chat (`Workspace_proofs`, `Chat_proofs`):

- `WorkspaceTypeCorrect`, `RemovalIsEffective`, `RoomIsInformed`, `SearchShowsLists`: all
  of `Workspace`. What a removed member had accepted or searched, and what he still has
  under way, is no more than the handlers (`LatesCounted`); a row that the room does not know as it
  is has an announcement under way, or is excused (`RoomTold`).
- `ChatTypeCorrect`, `EveryoneIsReached`: all of `Chat`. Every entry of a registry, and
  every entry that a handler is about to make, is true of its socket, or its user was
  hasty (`EntriesTrue`); so whoever a message spares has been reached by its broadcast,
  and of those a dispatch was to notify it owes the rest, or they are settled: reached,
  failed or behind (`SparedReached`, `Due`, `Settled`). A socket has one lookup at most
  (`OneLookup`), a post one handler (`PostsServed`).

Boards (`Whiteboard_proofs`):

- `BoardTypeCorrect`, `LatestIsStored`, `NobodyToDeadBoard`, `RestoreIsUndoable`: the
  safety of `Whiteboard` (all follow from `BoardInv`). `LatestSomewhere` adds that the
  latest scene is the one that waits, or else the one being written, or else the stored
  one, and that a restore has recorded the stored scene before it replaces it;
  `PresentsLiving` that nobody undisturbed presents a deleted board.
- `RoomKeepsBoard`, `JoinerIsCurrent`: every behaviour of the composition with a joiner
  is one of `Whiteboard`, so the theorems above hold of what the run checks; and
  `JoinerCatchesUp`. `SeesLatest` is the strengthening: from the moment his copy is
  read, he has the latest scene, or it is the one announcement still to come, unless he
  is known to be behind.

Model-checked only: `ExpiredPurged`, `SweepEnds` and `EditsSaved`, which are liveness
under fairness and beyond the prover (so `SweepEnds` is shown for batches of two and no
more). `NotLockedOut` is false.

## Divergences

What the code does against a comment, a doc or a plain reading of its own checks, as
the models have it, unless an entry says that it is not modelled. The comment of each
property names what it excepts; the cases met while modelling are collected here.

Files:

- `file/file.service.ts:310`: a restore takes for granted that its file is in the sum;
  one that expires under the restore is not, and the quota is exceeded by that file
  (`OvershootBounded` says by no more);
- `file/file.service.ts:200`: when only the acknowledgement of an upload's commit is lost,
  the catch block deletes the object of a row that exists;
- `file/file.service.ts:373`: purge deletes a file that a restore made active after
  purge had read it as trashed;
- `file/file.service.ts:372`: a crash between object and row leaves a trashed row that
  is counted and can be restored, without bytes;
- `file/file.service.ts:538`: expired files stay in R2 until the next sweep but are not
  in the sum, so R2 may hold more than the quota;
- `admin/admin.service.ts:490`: the administrator's deletion goes on when R2 fails, and
  the object stays for ever; deleting a workspace never deletes its objects
  (`workspace/workspace.service.ts:92`, `NoOrphan` excepts them);
- `file/file-cleanup.service.ts:72`: when every file of a full batch fails, the same
  batch is selected again at once, and as long as R2 refuses;
- `file/file-cleanup.service.ts:23`: an unlock on another connection does nothing, and
  the lock stays taken by an instance that sweeps no more;
- `file/file-cleanup.service.ts:41`: what expires during a sweep waits for the next one.

Signing in:

- `auth/auth.service.ts:604`: requests past the check of the lock compare their
  passwords although the lock has been set; the counter survives the lock;
- `auth/auth.service.ts:100`: concurrent logins exceed the cap of ten sessions, by as
  many as they are;
- `auth/auth.service.ts:960`: a login in flight that proved the old password opens its
  session after the reset has deleted all;
- `auth/auth.service.ts:843`: a grace hit keeps the previous token and restarts its 30
  seconds; of two tabs that refresh at once, the token one receives was overwritten by
  the other;
- `auth/two-factor-auth.service.ts:428`: two verifications that present one token at
  once count one wrong code instead of two, and a wrong one may clear the mark that a
  right one has set; `:332`: two may spend one backup code;
- `auth/login-alert.service.ts:40`: first logins at once are each taken for the first,
  and none is announced; `:88`, `:76`: a check that throws and a mail that fails are only
  logged, the login is recorded all the same, and its device is known from then on
  without an alert;
- `auth/passkey.service.ts:292`: a passkey removed after this write still opens the
  session that the sign-in goes on to insert.

Identity:

- `user/user.service.ts:475`: see `way_in`;
- `admin/admin.service.ts:266`: the administrator's reset stores the token as it is
  mailed, while `resetPassword` looks up its hash, so its link never works;
- `auth/auth.service.ts:906`: `resetPassword` asks for the token's hash and not for its
  type;
- `auth/auth.service.ts:410`: linking a second Google account replaces the first;
- `invite/invite.service.ts:104`: an invite is read as unused at the start and stamped at
  the end: an open link can be accepted twice, though invites are called single-use
  (`src/README.md:88`, `:435`); a failure after the account's creation
  leaves an account without membership, whose address the invite refuses from then on;
  the accepted address of an open link is not proven by a mail.

Workspaces, chat and boards:

- `workspace/workspace.service.ts:109`: a removed member's sockets stay in the rooms
  they have entered;
- `private-task/private-task.service.ts:23`: private tasks outlive their workspace, and
  only the search and the export show them then;
- two overlapping updates of a row may be announced in the other order; a write whose
  commit stands but whose acknowledgement is lost is announced to nobody (not modelled:
  `WriteThrows` changes nothing);
- `search/search.service.ts:122`: a client's global search returns the workspaces he is a
  member of, though `src/README.md:389` says that `workspace` results are never returned
  to clients; only private tasks are kept from him (`SearchWithinLists` holds, for his
  list of workspaces shows them too);
- `message/message.gateway.ts:111`, `:147`: a socket that closes during the awaited
  lookup is entered in the registries after it was removed: its user counts as online,
  or as watching, until the process restarts;
- `notification/notification.service.ts:233`: a row that cannot be inserted, as that of a
  recipient whose account was deleted meanwhile, ends the loop, and the recipients after
  it get nothing; `:263`: a mail that fails is only logged, and its recipient is not
  reached; `:187`: when the recipients cannot be looked up, nobody is notified;
- `whiteboard/whiteboard-version.service.ts:117`: the safety snapshot "of the current
  state" is of the stored scene, not of one that waits for its timer;
- `whiteboard/whiteboard.gateway.ts:226`: a presentation that passed its check before a
  deletion registers the dead board after it;
- `whiteboard/whiteboard.gateway.ts:166`: who joins while a scene waits is sent the older
  one; a PATCH is announced to nobody.

## Not modelled

- Wiring, rendering, I/O: validation, throttling, cryptography, mail templates, SMTP,
  file-type detection, avatars, feedback, health, configuration.
- One query on one row with nothing to race: create, rename and status of a workspace
  or board, profile and settings, marking notifications, messages and files as read,
  the administrator's lists, figures, roles and plans. A message's text, a task's
  fields, the ranking and snippets of a search are abstracted away.
- Passkeys: whether a signature verifies is left to chance; its counter, the challenge
  cookie and a second submission of one registration are left out.
- A failure of the database between the count of a wrong password and the lock
  (`auth/auth.service.ts:133`), and between a suspension and the deletion of the sessions
  (`admin/admin.service.ts:161`): the one leaves the account open until the next wrong
  password, the other leaves the sessions, which refreshes refuse.
- Two-factor setup: the staging of a secret before it is confirmed (`Promote` chooses
  whether it is still there).
- Password history: it lets a password through or not, which the models leave to
  chance. A change and a reset at once may each miss the other's password.
- Invites: the page that shows one, and the session an acceptance opens (signed and
  inserted without the cap; the new account has no other).
- Socket authentication is one guard; a token that expires under a socket closes it at
  its next event, which is a `HandleDisconnect`.
- Names, pointers and the typing mark: broadcasts that leave no state.
