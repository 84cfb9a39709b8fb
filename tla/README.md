# Formal specification of idtx-core

idtx-core is a server for collaborative editing of USD scenes. Clients open a
session on a USD file, fetch the file over HTTP, and exchange protobuf frames
over a websocket: transform updates, prim creations, soft deletes, acks,
broadcasts, corrections and a join snapshot. This directory holds TLA+ modules
that model the server, TLC configurations that check them on small instances,
and TLAPS proofs that hold for every value of the constants. Paths are relative
to `src/source/`; `PROJECT.json` maps every definition to the lines it models.

## The system and its parts

| part | source | modules |
|---|---|---|
| command mailbox | `session/BoundedMpscMailbox.h` | `BoundedFifo`, `Mailbox`, `MailboxProofs` |
| command scheduler | `session/SessionCommandScheduler.*` | `Scheduler`, `SchedulerProofs` |
| worker pool | `concurrency/WorkerExecutor.*` | `WorkerExecutor`, `ExecutorProofs` |
| version log | `session/SessionVersions.*`, `session/StageNoticeListener.*` | `SessionVersions`, `VersionLog`, `VersionLogProofs` |
| commands, handlers, notices, websocket callbacks | `session/SessionManager.*`, `session/StageNoticeListener.*`, `session/TransformDispatcher.*`, `session/PrimDispatcher.*`, `controller/WebSocketController.*` | `Stage`, `SessionProtocol`, `ProtocolInvariant`, `HandlerProofs`, `AnswerProofs`, `ProtocolProofs` |
| life of sessions | `session/SessionManager.*`, `session/SessionFlusher.*`, `controller/SessionController.*` | `SessionLifecycle`, `LifecycleProofs` |
| files, commits, thumbnails | `controller/FileServingController.*`, `session/StageCommitter.*`, `thumbnails/ThumbnailWorker.*` | `FileSystem`, `FileServing` |
| rate limits and lockouts | `middleware/RateLimiter.h`, `middleware/RateLimitHandler.h`, `controller/AuthController.*` | `RateLimiter`, `Access` |
| paths | `utils/UsdFileLocator.h` | `UsdFileLocator` |
| pictures | `thumbnails/MiniPng.h`, `thumbnails/*Generator.*` | `ThumbnailImage`, `Imaging` |
| settings, keys, tokens, requests | `middleware/JwtAuthHandler.*`, `middleware/OidcConfiguration.*`, `dto/`, `utils/Environment.h` | `Authentication`, `Requests` |
| prims and what a commit writes | `session/PrimDispatcher.*`, `session/StageCommitter.*` | `PrimScene` |
| start and end of the process | `main.cpp`, `app/`, `server/`, `routes/` | `Application` |

A request arrives on an io thread (`WebSocketController::OnMessage`). The
`SessionManager` turns it into a command and submits it to the session's
`SessionCommandScheduler`, which puts it into one of two `BoundedMpscMailbox`es
and makes sure that one drain task is posted to the shared `WorkerExecutor`.
The drain is the only consumer of the session: it handles one command at a
time, authors the stage, and sends frames. `StageNoticeListener` is called by
USD in the course of authoring; it draws a version from `server_seq`, records
it in `SessionVersions`, and broadcasts. `SessionVersions::CheckUpdate` decides
whether a later update was made on an outdated state. Around this, sessions are
created, attached to, flushed, committed, reaped and destroyed; files are
uploaded, downloaded and replaced by commits; and a thread makes thumbnails.

The modules follow this stack from the bottom. Each rests on the promise of the
one below, not on its details:

```
Mailbox  --implements-->  BoundedFifo  <--instances--  Scheduler   (one consumer,
                                                          |         every command once)
WorkerExecutor (runs what is posted) ---------------------+
                                                          v
SessionVersions, Stage  --operators-->  SessionProtocol   (two bounded queues, one consumer)
SessionVersions         --operators-->  VersionLog        (who records versions, in which order)
                                        SessionLifecycle  (one queue per session, its end)
FileSystem              --operators-->  FileServing       (uploads, commits, thumbnails)
RateLimiter             --operators-->  Access            (requests and logins at once)
UsdFileLocator, ThumbnailImage, Imaging, Authentication,
Requests, PrimScene, Application  ----> Formats           (one actor, one input)
```

## Modules

**BoundedFifo** is what a mailbox promises: a queue of at most `Capacity`
entries in the order of reservation; an entry is delivered once it is ready and
all before it were.

**Mailbox** is the lock-free ring, one action per atomic access: `LoadPosition`,
`LoadSequence`, `CompareExchange`, `Construct`, `Publish` for `TryEmplace`;
`PopCheck`, `PopMove`, `PopRelease`, `PopAdvance` for `TryPop`; and the
destructor. A relaxed load of `enqueue_position_` may return an older value,
though never an older one than the same thread saw before. Acquire and release
accesses of a slot's sequence are taken as sequentially consistent, and
`size_t` positions as never wrapping.

**Scheduler** has submitters, workers of the executor and one closer. Every
atomic access of `Submit`, `ScheduleDrainIfRequired`, `DrainBatch`,
`CloseAdmission` and `WaitIdle` is an action, the two mailboxes are instances
of `BoundedFifo` (so a reserved, unpublished head is a state), and the executor
may start to refuse tasks at any time, which makes submitters drain inline.

**WorkerExecutor** has one action per critical section and one per
notification, spurious wakeups, a constructor that can fail half way, and
owners that call `Stop` more than once.

**SessionVersions** is a record with an operator per method. **VersionLog** adds
the threads: one draws a version, then records the prims of its change one by
one. The consumer is one recorder. A second recorder stands for the consumer of
another session that shares the root layer, whose notices are delivered on its
own thread (`SessionManager.h`, "Known limitation").

**Stage** is the composed stage: what the session layer says of a prim (its
definition, active flag, separate ops, matrix op, op order) over the value of
the root layer. USD is external; only the rule that a session-layer opinion
wins is used. A transform is one opaque value.

**SessionProtocol** composes the session with its clients.
- The consumer: `Handle` pops one command and does the part of the handler that
  changes the stage, with the notice it triggers (`OnObjectsChanged`,
  `OnReloaded`) or the explicit broadcast (`BroadcastToAll`); `Continue` does
  the parts that follow and take `clients_mutex` of their own: `SendAck`,
  `SendCorrection`, `SendSnapshot`. Connections come and go in between. Either
  queue may be next, because an unpublished reservation hides the priority
  queue.
- The io threads: `OnOpen`, `OnMessage`, `IoStep` (the rest of a callback),
  `OnClose`. Callbacks of one connection run one at a time.
- The session's end: `Destroy` closes admission, `Teardown` clears the layer
  once the consumer is idle.
- The file: `Upload` renames a new file over the old one, `SubmitReload` asks
  for the reload as a later step. The reload may fail, which the code only logs:
  the session then goes on with the root layer it had.
- The clients are external and follow the rules in `src/README.md` ("Client
  rules"): they keep the highest version, send it as the base, show their own
  updates at once, apply frames in arrival order, send nothing before
  `SnapshotComplete`.

A notice of a reload names at least the prims whose value changed. A transform
can fail to apply for any reason (`CanAuthorOps`, a prim that is not
xformable). Authoring an update always yields one notice that names its prim.

**SessionLifecycle** is the map of sessions and all that comes and goes around
it: create, attach (`OnAccept`, then `AttachClient`), detach, edits, the flusher's
ticks, commits with callers that give up, the reaper, DELETE, and the shutdown.
Two sessions may be open on one file; they share its root layer, so a commit of
one meets the other. A session is torn down in four steps by whichever thread
took it out of the map: close admission, wait until idle, auto-commit, clear.
Saving a sidecar or a file may fail each time, and so may a reload: `stale` says
that the root layer in memory may be behind the file, and `lost` collects what a
commit then took out of the file by writing that layer. What a connection does between
`Get()` and the lock of `AttachClient` is a state, so that it can meet the reaper.

**FileSystem** has links, files of two halves and handles, so that a reader sees
a file that is being written. **FileServing** has uploads, both kinds of commit,
downloads, sessions that are opened and closed, reloads and the thumbnail thread.
Each step that touches the disk may fail, a reload included, and the process may be
killed between any two steps. USD's registry of layers is external: there is one
layer per file, `memory[n]`, for as long as a session or the thumbnail thread has it
open, and whoever opens the file meanwhile gets that layer and not the file. Files
with one stem share a thumbnail and its temporary file. What `UploadFile` does after
its rename only adds to two queues and is one step, `UploadAnswer`.

**RateLimiter** is the two tables with their sweeps, **Access** the threads that
use them: each reads the clock before it waits for the mutex, so times can reach
a table out of order.

**Formats** applies to one input each the code that has one actor: the checks of
a path (**UsdFileLocator**), the placeholder picture and the PNG encoder
(**ThumbnailImage**), the GL context and the camera of a preview (**Imaging**),
settings, keys and tokens (**Authentication**), the two requests with a JSON body
(**Requests**), the objects and threads of the process (**Application**), and
sequences of prim edits, commits and reloads on a hierarchy with references
(**PrimScene**).

## Runs

| run | question | bounds and why they are enough |
|---|---|---|
| `mailbox` | Is the ring a FIFO queue with exclusive slots, does it reject only when full, and does it implement `BoundedFifo`? | 3 producers, 2 slots, 2 pushes each: two race for a position while the third wraps the ring |
| `scheduler` | Is there one consumer, are commands handled in order, is the count exact, does `WaitIdle` mean done and return, is every command handled? | 2 submitters that submit 2 commands in all, 2 workers, mailboxes of 2 and 1, batches of 1, one retry: each limit is met and exceeded |
| `executor` | Are tasks run once and all of them, is no wakeup lost, does `Stop` return? | 3 workers, 2 posters, 4 tasks |
| `versions` | Do three numbers per prim decide like the whole history? | 2 prims, 2 connections, 4 versions: runs of a writer start, continue and are broken |
| `protocol` | Do clients converge, with one ack per request, one correction per prim and versions in order? | 2 clients with 2 updates each, a queue of 1 command: full queues, failed updates, corrections, leaving, late joining and destruction all occur |
| `protocol_reload` | Do clients converge when files are replaced? | 2 uploads, reloads that may fail, 2 clients with 2 updates, a queue that takes every reload |
| `protocol_prims` | Do prims and active flags agree, and is every request answered? | 2 clients, one file prim and one free name, a create and a delete each, destruction |
| `lifecycle` | One editor, one teardown, alone; no edit forgotten, no committed edit taken out again, nobody stuck? | 2 sessions on one file (one single-edit with auto-commit), 2 connections, 1 commit call, 2 edits, queues of 2: two commits, or a commit and an edit, meet in every order, and any save or reload fails |
| `files` | Are files whole at every instant, downloads of one version, sessions and thumbnails up to date, temporary files removed? | 2 names with one stem (a package that is there, a file that is not), 2 uploads, a commit, a download, a session at a time, one crash: two uploads meet each other, the commit, a reload and a thumbnail in every order |
| `access` | Are quotas exact and lockouts sound when times arrive out of order and sweeps interfere? | 2 requests at once, quota 1, 2 failures, windows of 2 and 4 ticks, delays of 1, 4 remembered events: a window ends and a lockout is served within the bound |
| `formats` | Is each part with one actor right on every bounded input? | lists in `MCFormats`, chosen at the edges: empty names, wrapping layouts, missing settings, inactive and referenced prims, reloads that fail |
| `files_overlap` | Is a file whole also when uploads of it overlap? No. | as `files` |

Properties that say several things at once name them in their definitions:
`CommandsKept` (reservation order, exclusive slots, the destructor's part),
`IdleExact` (`PendingCounts`, `IdleMeansDone`), `SchedulerLive`
(`EveryCommandHandled`, `WaitIdleReturns`), `TasksDone` (`EachTaskOnce`,
`StopCompletes`), `AnsweredOnce` (`ExactlyOneAck`, `OneCorrectionQueued`),
`VersionsAgreed` (`VersionsNeverGoDown`, `NeverInvalidBase`), `TornDownAlone`
(`TornDownOnce`, `AloneAtTeardown`), and those of `Access` and `Formats`.

Deadlock is checked in `mailbox`, `scheduler` and `executor`, which have an explicit
last step where everything is over, and in `versions`, which goes on. In the others it
is not: clients stop when their bound is used up, and then the system is at
rest. `NothingStuck` says of the lifecycle what rest may look like. Symmetry is
used where connections, prims, requests or uploads are
interchangeable, never in a run with a liveness property.

### Fairness

`scheduler`, `executor` and `protocol_prims` assume weak fairness of each
thread's next step: the operating system runs every started thread, a waiting
thread is woken when its condition is notified, the worker pool runs a drain
that was posted (which `executor` shows), every task returns, and clients read
their sockets. Nobody has to begin: a call of `Submit`, `Post`, `CloseAdmission`,
`Stop` or `Destroy`, an upload, a client that sends or leaves may never happen.

### Where the code and its documentation disagree

`files_overlap` has one property, and TLC finds it violated. The temporary file
of an upload is named after its target (`FileServingController.cpp:306`), so two
uploads of one file write the same `.part` file, and one renames what the other
has just truncated. The comment above says "Write atomically". In `files` uploads
overlap as well; its properties leave out the names that two of them were writing at
the same time (`overlapped`).

The bounds of the passing runs, or exceptions their properties name, keep out the
following cases. They have no run of their own; TLC shows them with the change
named here.

| change | what happens |
|---|---|
| `MCVersions.cfg`: `Recorders = {consumer, other}` | Two threads record versions out of order; an update made on an outdated state is accepted (`BaseCheck`). |
| `MCProtocol.cfg`: `MaxUpdates = 1`, `MaxActive = 2` | The correction of an update that meets a deleted prim is only the deletion; after the undo its sender still shows the rejected value (`ClientsConverge`). |
| `MCProtocol.cfg`: two file prims, `PriorityCapacity = 1` | A full priority queue drops the correction; 1 stands for the code's 128 (`ClientsConverge`). |
| `MCProtocolReload.cfg`: `Capacity = 1` | A reload that meets a full queue is lost; 1 stands for the code's 1024 (`ClientsConverge`). |
| `MCProtocolReload.cfg`: `Prims` and `FilePrims = {p1, p2}` | The frames of one reload share one version (`StageNoticeListener.cpp:184`). A client that saw the first updates another prim; the update is accepted, and the client then applies the second frame over it (`ClientsConverge`). |
| `MCProtocol.cfg`: `Shapes = {"separate", "matrix"}` | A matrix update stays authored under a later separate update; the snapshot carries the matrix (`TransformDispatcher.cpp:206`, `ClientsConverge`). |
| `MCProtocolPrims.cfg`: `Inactive = {p1}` | A prim shipped inactive and activated by a client is inactive for late joiners (`SessionManager.cpp:1004`, `ActiveStateConverges`). |
| `MCLifecycle.cfg`: invariant `AutoCommitKept` | An auto-commit does not reload the root layer (`SessionManager.cpp:338`), so a later commit of another session on the file writes its older content back. |
| `MCLifecycle.cfg`: invariant `BaselineCommitted` | "once the caller sees success the in-memory baseline matches the file" (`SessionManager.cpp:1079-1081`); the reload after a commit may fail, and the commit still reports success. |
| `MCLifecycle.cfg`: invariant `NothingLost` | After a failed reload the next commit writes the older root layer with its own overrides, and takes out what another session had committed (`NoEditForgotten` and `CommitKept` except these edits). |
| `ClientsConverge` without `root = file` | After a failed reload a late joiner has downloaded the new file, and the session and the other clients have the old one. |
| `MCFiles.cfg`: invariant `ReplacementNoticed` | The file appears between the existence check of an upload (`FileServingController.cpp:273`) and its rename: it is replaced by an upload that did not ask to overwrite, and no session is told. |
| `MCAccess.cfg`: invariant `LockoutFull` | "`retryAfter > 0` seconds when locked out" (`RateLimiter.h:171`); the rest is rounded down, so in its last second a lockout is not seen (`LockoutHeld` says it holds until then). |
| `MCFormats.cfg`: invariant `EditsOutlive` | The last flush is made "so edits made since the last tick are not lost on a clean shutdown" (`SessionFlusher.cpp:38-39`); the session manager, destroyed next, removes the sidecars (`SessionManager.cpp:383-397`). Only `auto_commit` keeps the edits. |
| `MCFormats.cfg`: invariant `SnapshotShapesTrue` | The values of a created prim "are exactly the type's schema fallbacks" (`PrimDispatcher.h:145-147`), until a file that shapes a prim of that name is reloaded below it; a joiner's snapshot then has the fallbacks. |

So the passing protocol runs have one prim per reload, one shape, no file prim
that starts inactive, no update together with a deletion, a priority queue with
room for every correction, and, where files are replaced, a command queue that
takes every reload. The proofs below have no such restrictions.

`ClientSeesScene` and `UndoRestores` name further exceptions, each a behaviour of
the code: a client that downloaded a file the session could not reload; a prim that
the file has as inactive and the session has activated, and a prim created below one
that a reload has taken away, for which the snapshot has no frame; the shapes of the
last row of the table; and the undo of a deletion that a commit has folded into the
file, after which only what the session had defined comes back. A reload checks
nothing, so a replaced file may nest gprims with those of the session;
`NoNestedGprims` is about what the session's own operations do.

Other places where a comment says more than the code does, met while modelling:
- `SessionCommandScheduler.h:41`: the consumer empties the priority mailbox before
  every normal command; but `TryPop` returns nothing while the head is reserved
  and unpublished, and published commands behind it wait. `SessionProtocol`
  therefore takes from either queue.
- `SessionManager.cpp:1424`: "no check-then-act race"; a client past `Get()` can
  still attach to a session that was just reaped. It is closed when its join is
  refused (`NothingStuck`).
- `FileServingController.h:57-61`: an upload reloads every live session on the
  file; `FindByUsdFile` compares paths as clients spelled them, so a session
  opened under another spelling is not found. Nor does the reload reach a session
  that is being created, is closing or has a full queue (`SessionsFollow` leaves
  these out, `behind`).
- A session created while the thumbnail thread has the file open starts with that
  thread's layer, which can be older than the file; and a thumbnail drawn between
  an upload's rename and the reload shows the layer of the session
  (`SessionsFollow`, `ThumbnailCurrent`). A commit makes no new thumbnail.
- `UsdFileLocator.h:159`: the reported relative path is not normalised.
- `JwtAuthHandler.cpp:259-264`: the retry with fresh keys compares with a text
  that `tryVerify` does not produce, so it never happens.
- `JwtAuthHandler.cpp:31`: "Invalid or unsupported keys are silently skipped"; a
  key whose numbers cannot be converted (line 77) makes the loading of the whole
  document fail. The audiences are handed to jwt-cpp in repeated calls (333-336);
  what the library makes of them is left to it.
- `RateLimitHandler` and `AuthController` disagree about trusting a proxy's
  address, and the "sliding window" is a fixed one.
- `UsdImagingThumbnailGenerator.cpp:327-347`: the camera stands about 35 degrees
  above the ground, where comments say 45.
- `PlaceholderThumbnailGenerator.cpp:310`: "Scale so both lines fit horizontally
  regardless of image size"; the scale is at least 1, and a line that is still as
  wide as a small picture is not drawn at all.
- `ThumbnailWorker.h:13-16`: each job is said to write to a distinct path; files
  with the same stem share a thumbnail, which shows the one queued last.

## Proofs

Constants are arbitrary in all theorems, up to the assumptions named in the
modules that declare them: limits are natural numbers (positive where the code's
are), the sets of submitters and workers are disjoint, markers such as `None` are
not values. `ProtocolAssumption` and `LifecycleAssumption` ask that sets of prims
and of sessions have a natural number as cardinality, and prims a numbering, as
finite sets do; this is what `Cardinality` and the listing of prims rest on.

`MailboxProofs`. The inductive invariant is `TypeOK /\ RingInv`: the positions
between the released and the reserved ones form a window of at most `Capacity`;
each slot belongs to one position of the window and its sequence tells whether
that position is free, being filled or published; each position being filled has
exactly one producer. It is needed because the order of reservations alone says
nothing of who may write a slot. Modular arithmetic shows that two positions of
a window never share a slot. From it follow `Commands_Kept`,
`Rejects_OnlyWhenFull` and the refinement `Implements_Fifo`, with one lemma per
kind of abstract step.

`SchedulerProofs`. The invariant is the conjunction of the properties and
`SchedulerInv`: the locals of a drain are within their limits, every command in
flight is in exactly one place (a thread's hands or a mailbox position),
admission is open exactly until the closer starts. Theorems: `Single_Consumer`,
`Idle_Exact`, `Never_Stranded`, `Handled_InOrder`, `Type_Correct`. The last but
one needs, beyond the token of the drain, that what has left a mailbox is what
was handled, and at most one command more, in the hands of the thread that holds
the token.

`VersionLogProofs`: `Base_Check`, under the hypothesis that the consumer is the
only recorder (with two TLC finds a counterexample, see above). The invariant
relates the three numbers to the history: `last_change_seq` is the latest change,
and `foreign_before_run` the latest change that `last_writer` did not make.
Versions in hand are never lower than those recorded.

`ExecutorProofs`: `No_LostWakeup` and `Tasks_Done`, for every number of workers,
posters and tasks. `NoLostWakeup` compares the length of the queue with the number
of threads that are about to look at it or to notify, so the proof is about
cardinalities that change by one. `PoolInv` adds who holds a task and what has
ended for good: without it a worker could leave a task behind, or `Stop` return
while one runs.

`LifecycleProofs`, for every number of sessions, connections, callers and edits:
`One_Editor`, `TornDown_Alone`, `NoEdit_Forgotten`, `Commit_Kept`,
`Type_Correct`. The invariant has five parts beyond the properties. `MapInv`: a
session that admits commands is in the map or in the hands of the one thread that
took it out and has not closed it yet. `QuietInv`: a session in nobody's hands has
no command and no edit. `ConsumerInv`: the mutex of the root layer is held exactly
between the write and the reload of a commit, and a queued commit finds the edits
it was asked for still on the session's layer. `FileInv` is about `Base`, what the
next commit, of whichever session, cannot take away unnoticed: the root layer in
memory, or the file while a failed reload has left that layer behind it, and with
either what was lost already. What is on the root layer is in the file; and,
while the file is open, what was promised is in `Base`. `CommitKept` alone is not
inductive for that reason: nothing in it says what the other session has in memory.
Three lemmas (`BaseStays`, `BaseReloaded`, `BaseWritten`) say what a step may do to
`Base`. `NoEdit_Forgotten` and `Commit_Kept` except exactly the edits in `lost`,
which grows only when a commit writes a stale root layer.

The protocol, for every number of prims, connections and requests, both shapes and
all capacities: `Type_Correct`, `Versions_Agreed` and `Answered_Once`.
`ProtocolInvariant` holds the invariant and the terms in which the proofs speak of a
command; three modules share the work.
- `HandlerProofs` reduces the handlers to what they send (`Tells`, `Acks`): nothing, or
  frames of one version no older than what the connection got. It also shows that every
  step keeps the types.
- `AnswerProofs` follows one request. While it is awaited it is in exactly one of five
  queues (the socket, the mailbox, the rest of a handler, the rest of an io callback,
  the socket back), and once in it; else in none (`AckInv`, `PairInv`). One lemma per
  way of moving (`PairUnmoved`, `PairSubmitted`, `PairSettled`, ...) reduces each action
  to what it does to the five sets of positions.
- `ProtocolProofs` puts the two together. To prove that versions never go down and that
  no honest base is refused, `SeqInv` bounds the client's base by the version recorded
  as sent to it, and that one by `server_seq`, for every frame and update under way;
  `MailInv` does the same for the updates in the mailbox; `OrderInv` orders the frames
  under way above the client's base; `TodoInv` says that a snapshot in hand still holds
  the session's version. The mark `correction_queued` and the queued corrections agree
  by the same counting of positions.

### Only model-checked, and why

- Liveness (`SchedulerLive`, `PoolLive`, `EveryRequestAnswered`) and `NothingStuck`,
  which uses `ENABLED`: out of the prover's reach.
- `ClientsConverge`, `ActiveStateConverges`: not true for every value of the
  constants (table above), so there is no theorem without hypotheses that exclude
  these cases. Their invariant would have to say what each client will show after
  all frames under way, which is a recursion over the queue.
- `FileServing` and `Access`: not proved yet.
- `Formats`: recursive definitions on strings, lists and trees, which need
  induction over data.

## Not modelled

Without state or pure I/O: `HealthController`, `SecurityAuditLog`, the logger, the
HTTP client, UUIDs, the generated protobuf code, the formatting of `UploadDto` and
`ErrorResponse`, `get_env_u64`, `ResolveClientIp`, the patterns of the routes.
External: USD itself, Storm, the verification of signatures, the file system, the
identity provider and the clients; they are modelled from how the code uses them.

Limits of the models: in `SessionProtocol` prims are flat, transforms are opaque
and the root layer belongs to one session (a hierarchy is in `PrimScene`, two
sessions on one file in `SessionLifecycle` and `VersionLog`). Sessions keep plain
pointers to connections; that the server is destroyed before the session manager,
whose executor may still send on its connections (`SessionManager.cpp:1069`), is in
`Application` and excepted in `ThreadsServed`; what a late send would then do is not
modelled. Whether OSMesa lets a context go that is still current
(`UsdImagingThumbnailGenerator.cpp:118-122`) is left to the library. Of a commit,
`SessionLifecycle` has whether it succeeds and `FileServing` its file steps.
