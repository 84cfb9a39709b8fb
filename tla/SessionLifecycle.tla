-------------------------- MODULE SessionLifecycle --------------------------
(***************************************************************************)
(* The life of sessions in SessionManager: created over REST, found by     *)
(* connections, edited, flushed to a sidecar, committed to the USD file,   *)
(* and torn down by a DELETE, by the idle reaper or by the destructor.     *)
(* All sessions here are opened on one USD file, so they share its root    *)
(* layer.  A layer and a file are sets of edits.  An edit stands for any   *)
(* command that authors the stage (SessionProtocol tells them apart).      *)
(* A thread that looks a session up and uses it later does so in two       *)
(* steps, or may still use a session that has just left the map.           *)
(***************************************************************************)
EXTENDS Naturals, Sequences, FiniteSets, Functions

CONSTANTS
  Sessions,           \* session ids; an id is drawn once
  SingleEdit,         \* sessions created in single_edit mode
  AutoCommit,         \* sessions created with auto_commit
  Connections,
  Callers,            \* REST threads that ask for a commit
  Capacity,           \* of a session's command queue
  MaxEdits            \* bound: edits in all

ASSUME LifecycleAssumption ==
  /\ \A S \in SUBSET Sessions : Cardinality(S) \in Nat
  /\ "nobody" \notin Sessions
  /\ SingleEdit \subseteq Sessions /\ AutoCommit \subseteq Sessions
  /\ Capacity \in Nat \ {0} /\ MaxEdits \in Nat

VARIABLES
  m_sessions,         \* the sessions in the map
  used, gone,         \* sessions ever created, and those torn down
  admitting,          \* sessions whose command queue accepts commands
  clients,            \* session -> attached connections
  stamped,            \* session -> whether empty_since is set
  queue,              \* session -> accepted commands
  busy,               \* session -> the commit its consumer is in the middle of
  layer, sidecar,     \* session -> edits on the session layer, and in its file
  dirty,
  root, file,         \* edits on the shared root layer in memory, and in the file
  layer_mutex,        \* the session that holds m_shared_layer_mutex_
  conn,               \* connection -> where its callbacks are
  caller, promise,    \* commit call -> where it is, and its result
  teardown,           \* thread -> the sessions it tears down, and its step
  application,        \* how far the shutdown is
  edits,              \* edits so far
  autoCommitted,      \* edits that were committed at a teardown
  stale,              \* history: the last reload failed and left the root layer behind the file
  lost                \* history: edits that commits on such a root layer took out of the file

stage    == <<layer, sidecar, dirty, root, file, layer_mutex, stale, lost>>
commands == <<queue, busy, promise>>
peers    == <<clients, stamped, conn>>
vars     == <<m_sessions, used, gone, admitting, stage, commands, peers, caller, teardown,
              application, edits, autoCommitted>>

\* The threads that tear sessions down.
Reaper  == "reaper"
Rest    == "rest"
Main    == "main"
Threads == {Reaper, Rest, Main}

Nobody  == "nobody"
Resting == [at |-> "resting", todo |-> <<>>]

Init ==
  /\ m_sessions = {} /\ used = {} /\ gone = {} /\ admitting = {}
  /\ clients = [s \in Sessions |-> {}] /\ stamped = [s \in Sessions |-> TRUE]
  /\ queue = [s \in Sessions |-> <<>>] /\ busy = [s \in Sessions |-> Nobody]
  /\ layer = [s \in Sessions |-> {}] /\ sidecar = [s \in Sessions |-> {}]
  /\ dirty = [s \in Sessions |-> FALSE]
  /\ root = {} /\ file = {} /\ layer_mutex = Nobody
  /\ conn = [c \in Connections |-> [at |-> "new"]]
  /\ caller = [k \in Callers |-> [at |-> "idle"]] /\ promise = [k \in Callers |-> "none"]
  /\ teardown = [t \in Threads |-> Resting]
  /\ application = "running" /\ edits = 0 /\ autoCommitted = {}
  /\ stale = FALSE /\ lost = {}

\* Sessions whose stage is open.
Opened == used \ gone

\* Sessions some thread is tearing down.
Leaving == UNION {Range(teardown[t].todo) : t \in Threads}

Serving == application = "running"

\* What Submit answers for a session.
Admission(s) ==
  IF s \notin admitting THEN "closing" ELSE IF Len(queue[s]) < Capacity THEN "accepted" ELSE "full"

\* Appends a command to the queue of a session that admits it.
Enqueue(q, s, command) == IF Admission(s) = "accepted" THEN [q EXCEPT ![s] = Append(@, command)] ELSE q

\* A session that is in the map, or that a thread looked up before it was removed.
MayFind(s) == s \in m_sessions \/ s \in Leaving
-----------------------------------------------------------------------------
(* The map: creation and removal. *)

\* Create opens the stage.  The layer registry hands out the root layer that is
\* in memory while any stage has it open; otherwise it is read from the file.
Create(s) ==
  /\ Serving /\ s \notin used
  /\ used' = used \cup {s}
  /\ IF Opened = {} THEN root' = file /\ stale' = FALSE ELSE UNCHANGED <<root, stale>>
  /\ UNCHANGED <<m_sessions, gone, admitting, layer, sidecar, dirty, file, layer_mutex, lost,
                 commands, peers, caller, teardown, application, edits, autoCommitted>>

Creating == used \ (gone \cup m_sessions \cup Leaving)

\* Create puts the session into the map, or a layer could not be opened.
Publish(s) ==
  /\ s \in Creating
  /\ \/ m_sessions' = m_sessions \cup {s} /\ admitting' = admitting \cup {s} /\ UNCHANGED gone
     \/ gone' = gone \cup {s} /\ UNCHANGED <<m_sessions, admitting>>
  /\ UNCHANGED <<used, stage, commands, peers, caller, teardown, application, edits,
                 autoCommitted>>

\* Destroy takes the session out of the map and tears it down without the lock.
Destroy(s) ==
  /\ Serving /\ teardown[Rest] = Resting /\ s \in m_sessions
  /\ m_sessions' = m_sessions \ {s}
  /\ teardown' = [teardown EXCEPT ![Rest] = [at |-> "close", todo |-> <<s>>]]
  /\ UNCHANGED <<used, gone, admitting, stage, commands, peers, caller, application, edits,
                 autoCommitted>>

\* Sessions without clients, since a time that is recorded.
Idle == {s \in m_sessions : clients[s] = {} /\ stamped[s]}

\* The map is a hash map: its sessions are visited in any order.
InAnyOrder(S) == Bijection(1 .. Cardinality(S), S)

\* One sweep of the reaper, under m_mutex_.  How long a session has been empty is
\* left open: any of them may have reached the timeout.
ReapIdleSessions(expired) ==
  /\ application \in {"running", "flushing"} /\ teardown[Reaper] = Resting
  /\ expired # {} /\ expired \subseteq Idle
  /\ m_sessions' = m_sessions \ expired
  /\ \E list \in InAnyOrder(expired) :
       teardown' = [teardown EXCEPT ![Reaper] = [at |-> "close", todo |-> list]]
  /\ UNCHANGED <<used, gone, admitting, stage, commands, peers, caller, application, edits,
                 autoCommitted>>
-----------------------------------------------------------------------------
(* TeardownSession, by any of the three threads. *)

CloseAdmission(t) ==
  /\ teardown[t].at = "close"
  /\ admitting' = admitting \ {Head(teardown[t].todo)}
  /\ teardown' = [teardown EXCEPT ![t].at = "wait"]
  /\ UNCHANGED <<m_sessions, used, gone, stage, commands, peers, caller, application, edits,
                 autoCommitted>>

\* Faulty: does not wait for the consumer.
WaitIdle_Not(t) ==
  /\ teardown[t].at = "wait"
  /\ LET s == Head(teardown[t].todo)
     IN  teardown' = [teardown EXCEPT ![t].at =
           IF s \in AutoCommit /\ layer[s] # {} THEN "commit" ELSE "clear"]
  /\ UNCHANGED <<m_sessions, used, gone, admitting, stage, commands, peers, caller, application,
                 edits, autoCommitted>>

\* The consumer has handled every accepted command: the thread has the stage for
\* itself, and revokes the listener.
WaitIdle(t) ==
  /\ teardown[t].at = "wait"
  /\ LET s == Head(teardown[t].todo)
     IN  /\ queue[s] = <<>> /\ busy[s] = Nobody
         /\ teardown' = [teardown EXCEPT ![t].at =
              IF s \in AutoCommit /\ layer[s] # {} THEN "commit" ELSE "clear"]
  /\ UNCHANGED <<m_sessions, used, gone, admitting, stage, commands, peers, caller, application,
                 edits, autoCommitted>>

\* CommitOverrides: the file becomes the root layer in memory with the overrides.
\* The result of saving the sidecar is ignored.
WriteFile(s) ==
  /\ layer_mutex = Nobody
  /\ \/ sidecar' = [sidecar EXCEPT ![s] = layer[s]]
     \/ UNCHANGED sidecar
  /\ file' = root \cup layer[s]
  /\ lost' = IF stale THEN lost \cup (file \ file') ELSE lost
  /\ dirty' = [dirty EXCEPT ![s] = FALSE]

WriteFails(s) ==
  /\ layer_mutex = Nobody
  /\ \/ sidecar' = [sidecar EXCEPT ![s] = layer[s]]
     \/ UNCHANGED sidecar
  /\ UNCHANGED <<file, lost, dirty>>

\* The automatic commit.  Nobody reloads the root layer.
CommitAtTeardown(t) ==
  /\ teardown[t].at = "commit"
  /\ teardown' = [teardown EXCEPT ![t].at = "clear"]
  /\ LET s == Head(teardown[t].todo)
     IN  \/ WriteFile(s) /\ autoCommitted' = autoCommitted \cup layer[s]
         \/ WriteFails(s) /\ UNCHANGED autoCommitted
  /\ UNCHANGED <<m_sessions, used, gone, admitting, layer, root, stale, layer_mutex, commands,
                 peers, caller, application, edits>>

\* The session layer is cleared, the sidecar removed, the session released: the
\* weak pointers to it are empty from now on, and with the last stage the root
\* layer leaves memory.
ClearSession(t) ==
  /\ teardown[t].at = "clear"
  /\ LET s    == Head(teardown[t].todo)
         rest == Tail(teardown[t].todo)
     IN  /\ layer' = [layer EXCEPT ![s] = {}] /\ sidecar' = [sidecar EXCEPT ![s] = {}]
         /\ gone' = gone \cup {s} /\ dirty' = [dirty EXCEPT ![s] = FALSE]
         /\ clients' = [clients EXCEPT ![s] = {}] /\ stamped' = [stamped EXCEPT ![s] = TRUE]
         /\ IF Opened = {s} THEN root' = {} /\ stale' = FALSE ELSE UNCHANGED <<root, stale>>
         /\ teardown' = [teardown EXCEPT ![t] =
              IF rest = <<>> THEN Resting ELSE [at |-> "close", todo |-> rest]]
  /\ UNCHANGED <<m_sessions, used, admitting, file, lost, layer_mutex, commands, conn, caller,
                 application, edits, autoCommitted>>
-----------------------------------------------------------------------------
(* The callbacks of a WebSocket connection. *)

At(c, place) == conn[c].at = place

Goes(c, place) == conn' = [conn EXCEPT ![c].at = place]

\* The connection is closed without having been attached: OnClose has nothing to do.
TurnedAway(c) == conn' = [conn EXCEPT ![c] = [at |-> "closed"]]

SingleEditBusy(s) == s \in SingleEdit /\ clients[s] # {}

\* OnAccept: the upgrade is refused for an unknown or a busy session.
OnAccept(c, s) ==
  /\ Serving /\ At(c, "new") /\ s \in m_sessions /\ ~SingleEditBusy(s)
  /\ conn' = [conn EXCEPT ![c] = [at |-> "accepted", session |-> s]]
  /\ UNCHANGED <<m_sessions, used, gone, admitting, stage, commands, clients, stamped, caller,
                 teardown, application, edits, autoCommitted>>

\* OnOpen and AttachClient look the session up.
LookUp(c) ==
  /\ At(c, "accepted")
  /\ IF conn[c].session \in m_sessions THEN Goes(c, "found") ELSE TurnedAway(c)
  /\ UNCHANGED <<m_sessions, used, gone, admitting, stage, commands, clients, stamped, caller,
                 teardown, application, edits, autoCommitted>>

\* Faulty: relies on the check OnAccept has made.
AttachClient_Unchecked(c) ==
  /\ At(c, "found") /\ Goes(c, "attached")
  /\ clients' = [clients EXCEPT ![conn[c].session] = @ \cup {c}]
  /\ stamped' = [stamped EXCEPT ![conn[c].session] = FALSE]
  /\ UNCHANGED <<m_sessions, used, gone, admitting, stage, commands, caller, teardown,
                 application, edits, autoCommitted>>

\* AttachClient, under the session's clients_mutex only.
AttachClient(c) ==
  /\ At(c, "found")
  /\ LET s == conn[c].session
     IN  IF SingleEditBusy(s)
         THEN TurnedAway(c) /\ UNCHANGED <<clients, stamped>>
         ELSE /\ Goes(c, "attached")
              /\ clients' = [clients EXCEPT ![s] = @ \cup {c}]
              /\ stamped' = [stamped EXCEPT ![s] = FALSE]
  /\ UNCHANGED <<m_sessions, used, gone, admitting, stage, commands, caller, teardown,
                 application, edits, autoCommitted>>

\* SubmitJoinSnapshotCommand looks the session up again; a client that gets no
\* snapshot is closed.
SubmitJoin(c) ==
  /\ At(c, "attached")
  /\ LET s == conn[c].session
     IN  IF MayFind(s) /\ Admission(s) = "accepted"
         THEN Goes(c, "open") /\ queue' = Enqueue(queue, s, [type |-> "join"])
         ELSE Goes(c, "closing") /\ UNCHANGED queue
  /\ UNCHANGED <<m_sessions, used, gone, admitting, stage, busy, promise, clients, stamped,
                 caller, teardown, application, edits, autoCommitted>>

\* OnMessage: the update of a client is queued, or rejected with a reason.
SubmitEdit(c) ==
  /\ Serving /\ At(c, "open") /\ edits < MaxEdits
  /\ LET s == conn[c].session
     IN  /\ MayFind(s) /\ Admission(s) = "accepted"
         /\ queue' = Enqueue(queue, s, [type |-> "edit", edit |-> edits + 1])
  /\ edits' = edits + 1
  /\ UNCHANGED <<m_sessions, used, gone, admitting, stage, busy, promise, peers, caller, teardown,
                 application, autoCommitted>>

\* Faulty: the time the session became empty is not recorded.
OnClose_NoStamp(c) ==
  /\ conn[c].at \in {"closing", "open"} /\ conn' = [conn EXCEPT ![c] = [at |-> "closed"]]
  /\ LET s == conn[c].session
     IN  clients' = [clients EXCEPT ![s] = @ \ {c}]
  /\ UNCHANGED <<m_sessions, used, gone, admitting, stage, commands, stamped, caller,
                 teardown, application, edits, autoCommitted>>

\* OnClose.  Only a connection that was attached has a session to detach from;
\* the weak pointer is empty once the session is released.
OnClose(c) ==
  /\ conn[c].at \in {"closing", "open"} /\ conn' = [conn EXCEPT ![c] = [at |-> "closed"]]
  /\ LET s == conn[c].session
     IN  IF c \in clients[s]
         THEN /\ clients' = [clients EXCEPT ![s] = @ \ {c}]
              /\ stamped' = [stamped EXCEPT ![s] = clients[s] = {c}]
         ELSE UNCHANGED <<clients, stamped>>
  /\ UNCHANGED <<m_sessions, used, gone, admitting, stage, commands, caller, teardown,
                 application, edits, autoCommitted>>
-----------------------------------------------------------------------------
(* The consumer of a session's commands. *)

Ready(s, type) == queue[s] # <<>> /\ busy[s] = Nobody /\ Head(queue[s]).type = type

Done(s) == queue' = [queue EXCEPT ![s] = Tail(@)]

HandleJoin(s) ==
  /\ Ready(s, "join") /\ Done(s)
  /\ UNCHANGED <<m_sessions, used, gone, admitting, stage, busy, promise, peers, caller, teardown,
                 application, edits, autoCommitted>>

\* HandleCommand for an update: it is authored, acknowledged, and marked for the
\* next flush.
HandleEdit(s) ==
  /\ Ready(s, "edit") /\ Done(s)
  /\ layer' = [layer EXCEPT ![s] = @ \cup {Head(queue[s]).edit}]
  /\ dirty' = [dirty EXCEPT ![s] = TRUE]
  /\ UNCHANGED <<m_sessions, used, gone, admitting, sidecar, root, file, layer_mutex, stale, lost,
                 busy, promise, peers, caller, teardown, application, edits, autoCommitted>>

\* Faulty: a failed save is not retried.
HandleFlush_Forgets(s) ==
  /\ Ready(s, "flush") /\ Done(s)
  /\ dirty' = [dirty EXCEPT ![s] = FALSE]
  /\ \/ sidecar' = [sidecar EXCEPT ![s] = IF dirty[s] THEN layer[s] ELSE @]
     \/ UNCHANGED sidecar
  /\ UNCHANGED <<m_sessions, used, gone, admitting, layer, root, file, layer_mutex, stale, lost,
                 busy, promise, peers, caller, teardown, application, edits, autoCommitted>>

\* HandleCommand(FlushCommand): nothing to do, or the save succeeds, or it fails
\* and the mark is set again.
HandleFlush(s) ==
  /\ Ready(s, "flush") /\ Done(s)
  /\ \/ dirty' = [dirty EXCEPT ![s] = FALSE]
        /\ sidecar' = [sidecar EXCEPT ![s] = IF dirty[s] THEN layer[s] ELSE @]
     \/ UNCHANGED <<dirty, sidecar>>
  /\ UNCHANGED <<m_sessions, used, gone, admitting, layer, root, file, layer_mutex, stale, lost,
                 busy, promise, peers, caller, teardown, application, edits, autoCommitted>>

\* ReloadRootLayer: the root layer in memory is read from the file again, or the
\* reload fails, which is only logged: the layer stays as it was.
ReloadRootLayer == root' \in {file, root} /\ stale' = (root' # file)

\* HandleCommand(ReloadCommand), under m_shared_layer_mutex_.
HandleReload(s) ==
  /\ Ready(s, "reload") /\ Done(s)
  /\ layer_mutex = Nobody /\ ReloadRootLayer
  /\ UNCHANGED <<m_sessions, used, gone, admitting, layer, sidecar, dirty, file, lost, layer_mutex,
                 busy, promise, peers, caller, teardown, application, edits, autoCommitted>>

\* HandleCommand(CommitCommand): there is nothing to commit, or writing
\* failed; nothing is owed to the caller any more, who returns if still there.
CommitRefused(s) ==
  /\ Ready(s, "commit") /\ Done(s)
  /\ \/ layer[s] = {} /\ UNCHANGED <<file, lost, dirty, sidecar>>
     \/ layer[s] # {} /\ WriteFails(s)
  /\ promise' = [promise EXCEPT ![Head(queue[s]).caller] = "refused"]
  /\ caller' = [caller EXCEPT ![Head(queue[s]).caller] = [at |-> "returned", owed |-> {}]]
  /\ UNCHANGED <<m_sessions, used, gone, admitting, layer, root, stale, layer_mutex, busy, peers,
                 teardown, application, edits, autoCommitted>>

\* Faulty: the lock is released before the root layer is read back.
CommitWrites_Unlocked(s) ==
  /\ Ready(s, "commit") /\ layer[s] # {} /\ WriteFile(s)
  /\ busy' = [busy EXCEPT ![s] = "reload"] /\ UNCHANGED layer_mutex
  /\ UNCHANGED <<m_sessions, used, gone, admitting, layer, root, stale, queue, promise, peers,
                 caller, teardown, application, edits, autoCommitted>>

\* The file is written and the lock kept,
CommitWrites(s) ==
  /\ Ready(s, "commit") /\ layer[s] # {} /\ WriteFile(s)
  /\ busy' = [busy EXCEPT ![s] = "reload"] /\ layer_mutex' = s
  /\ UNCHANGED <<m_sessions, used, gone, admitting, layer, root, stale, queue, promise, peers,
                 caller, teardown, application, edits, autoCommitted>>

\* the root layer is read back, or that fails, and the lock released,
CommitReloads(s) ==
  /\ busy[s] = "reload" /\ ReloadRootLayer
  /\ busy' = [busy EXCEPT ![s] = "notify"] /\ layer_mutex' = Nobody
  /\ UNCHANGED <<m_sessions, used, gone, admitting, layer, sidecar, dirty, file, lost, queue,
                 promise, peers, caller, teardown, application, edits, autoCommitted>>

\* and the other sessions on the file are asked to reload (a full or closing one
\* is skipped) before the result is reported to the caller.
CommitReports(s) ==
  /\ busy[s] = "notify" /\ busy' = [busy EXCEPT ![s] = Nobody]
  /\ promise' = [promise EXCEPT ![Head(queue[s]).caller] = "Ok"]
  /\ caller' = [caller EXCEPT ![Head(queue[s]).caller].at = "returned"]
  /\ queue' = [r \in Sessions |->
       IF r = s THEN Tail(queue[s])
       ELSE IF r \in m_sessions THEN Enqueue(queue, r, [type |-> "reload"])[r] ELSE queue[r]]
  /\ UNCHANGED <<m_sessions, used, gone, admitting, stage, peers, teardown, application, edits,
                 autoCommitted>>

Consumer(s) ==
  \/ HandleJoin(s) \/ HandleEdit(s) \/ HandleFlush(s) \/ HandleReload(s)
  \/ CommitRefused(s) \/ CommitWrites(s) \/ CommitReloads(s) \/ CommitReports(s)
-----------------------------------------------------------------------------
(* Commit calls, the flusher, and the end of the application. *)

\* SubmitCommitSessionCommand, up to the wait.  The edits on the layer are the
\* ones that have been acknowledged so far.
SubmitCommit(k, s) ==
  /\ Serving /\ caller[k].at = "idle" /\ MayFind(s)
  /\ \/ /\ Admission(s) = "accepted"
        /\ queue' = Enqueue(queue, s, [type |-> "commit", caller |-> k])
        /\ caller' = [caller EXCEPT ![k] = [at |-> "waiting", owed |-> layer[s]]]
     \/ /\ Admission(s) # "accepted"
        /\ caller' = [caller EXCEPT ![k] = [at |-> "rejected", owed |-> {}]]
        /\ UNCHANGED queue
  /\ UNCHANGED <<m_sessions, used, gone, admitting, stage, busy, promise, peers, teardown,
                 application, edits, autoCommitted>>

\* The wait ends with a timeout, while the commit goes on.
CommitAnswer(k) ==
  /\ caller[k].at = "waiting"
  /\ caller' = [caller EXCEPT ![k].at = "returned"]
  /\ UNCHANGED <<m_sessions, used, gone, admitting, stage, commands, peers, teardown, application,
                 edits, autoCommitted>>

\* SubmitFlushDirtySessionsCommand, for one session, on the flusher's timer.
FlushTick(s) ==
  /\ Serving /\ MayFind(s) /\ dirty[s] /\ Admission(s) = "accepted"
  /\ queue' = Enqueue(queue, s, [type |-> "flush"])
  /\ UNCHANGED <<m_sessions, used, gone, admitting, stage, busy, promise, peers, caller, teardown,
                 application, edits, autoCommitted>>

\* The server has stopped: no callback and no request is running.  The flusher's
\* destructor asks for a last flush of every dirty session.
LastFlush ==
  /\ Serving /\ teardown[Rest] = Resting /\ Creating = {}
  /\ \A c \in Connections : conn[c].at \in {"new", "open", "closed"}
  /\ \A k \in Callers : caller[k].at # "waiting"
  /\ application' = "flushing"
  /\ queue' = [s \in Sessions |->
       IF s \in m_sessions /\ dirty[s] THEN Enqueue(queue, s, [type |-> "flush"])[s] ELSE queue[s]]
  /\ UNCHANGED <<m_sessions, used, gone, admitting, stage, busy, promise, peers, caller, teardown,
                 edits, autoCommitted>>

\* ~SessionManager: the reaper is joined, the map emptied, every session torn down,
SwapSessions ==
  /\ application = "flushing" /\ teardown[Reaper] = Resting
  /\ application' = "destroying" /\ m_sessions' = {}
  /\ IF m_sessions = {}
     THEN UNCHANGED teardown
     ELSE \E list \in InAnyOrder(m_sessions) :
            teardown' = [teardown EXCEPT ![Main] = [at |-> "close", todo |-> list]]
  /\ UNCHANGED <<used, gone, admitting, stage, commands, peers, caller, edits, autoCommitted>>

\* and the executor stopped.
StopExecutor ==
  /\ application = "destroying" /\ teardown[Main] = Resting /\ application' = "stopped"
  /\ UNCHANGED <<m_sessions, used, gone, admitting, stage, commands, peers, caller, teardown,
                 edits, autoCommitted>>
-----------------------------------------------------------------------------
Teardown(t) == CloseAdmission(t) \/ WaitIdle(t) \/ CommitAtTeardown(t) \/ ClearSession(t)

Connection(c) == LookUp(c) \/ AttachClient(c) \/ SubmitJoin(c)

\* What the threads do by themselves: they finish the callbacks, requests and
\* teardowns they have begun, and the reaper's sweeps go on.
Background ==
  \/ \E s \in Sessions : Publish(s)
  \/ \E c \in Connections : Connection(c)
  \/ \E k \in Callers : CommitAnswer(k)
  \/ \E t \in Threads : Teardown(t)
  \/ \E expired \in SUBSET Idle : ReapIdleSessions(expired)
  \/ SwapSessions \/ StopExecutor

Next ==
  \/ Background
  \/ \E s \in Sessions :
       \/ Create(s) \/ Destroy(s) \/ Consumer(s) \/ FlushTick(s)
       \/ \E c \in Connections : OnAccept(c, s)
       \/ \E k \in Callers : SubmitCommit(k, s)
  \/ \E c \in Connections : SubmitEdit(c) \/ OnClose(c)
  \/ LastFlush

Spec == Init /\ [][Next]_vars
-----------------------------------------------------------------------------
(* Properties. *)

Edits == 1 .. MaxEdits

Command ==
  [type : {"join", "flush", "reload"}] \cup [type : {"edit"}, edit : Edits]
    \cup [type : {"commit"}, caller : Callers]

Places ==
  [at : {"new", "closed"}]
    \cup [at : {"accepted", "found", "attached", "closing", "open"}, session : Sessions]

Calls == [at : {"idle"}] \cup [at : {"waiting", "returned", "rejected"}, owed : SUBSET Edits]

\* Every variable has its type.
TypeOK ==
  /\ m_sessions \subseteq Sessions /\ used \subseteq Sessions /\ gone \subseteq used
  /\ admitting \subseteq used
  /\ clients \in [Sessions -> SUBSET Connections] /\ stamped \in [Sessions -> BOOLEAN]
  /\ queue \in [Sessions -> Seq(Command)] /\ \A s \in Sessions : Len(queue[s]) <= Capacity
  /\ busy \in [Sessions -> {Nobody, "reload", "notify"}]
  /\ layer \in [Sessions -> SUBSET Edits] /\ sidecar \in [Sessions -> SUBSET Edits]
  /\ dirty \in [Sessions -> BOOLEAN]
  /\ root \subseteq Edits /\ file \subseteq Edits /\ autoCommitted \subseteq Edits
  /\ layer_mutex \in Sessions \cup {Nobody} /\ stale \in BOOLEAN /\ lost \subseteq Edits
  /\ conn \in [Connections -> Places]
  /\ caller \in [Callers -> Calls] /\ promise \in [Callers -> {"none", "Ok", "refused"}]
  /\ teardown \in [Threads -> [at : {"resting", "close", "wait", "commit", "clear"},
                               todo : Seq(Sessions)]]
  /\ application \in {"running", "flushing", "destroying", "stopped"}
  /\ edits \in 0 .. MaxEdits

\* A session in single_edit mode never has two clients, although two upgrades can
\* pass OnAccept together: AttachClient decides under the lock.
OneEditor == \A s \in SingleEdit : \A c, d \in clients[s] : c = d

\* DELETE, the reaper and the destructor share the sessions out: one that is
\* being torn down is out of the map, in one thread's hands once, and not yet
\* released.
TornDownOnce ==
  \A t \in Threads :
    /\ \A u \in Threads \ {t} : Range(teardown[t].todo) \cap Range(teardown[u].todo) = {}
    /\ IsInjective(teardown[t].todo)
    /\ Range(teardown[t].todo) \cap (m_sessions \cup gone) = {}

\* Past WaitIdle the thread that tears a session down is alone with its stage, for
\* good: no accepted command is left, none is running, and none will be accepted.
\* (The command handler keeps a plain pointer to the session.)
AloneAtTeardown ==
  \A s \in Sessions :
    (s \in gone \/ \E t \in Threads :
       teardown[t].at \in {"commit", "clear"} /\ Head(teardown[t].todo) = s)
      => queue[s] = <<>> /\ busy[s] = Nobody /\ s \notin admitting /\ layer_mutex # s

\* An acknowledged edit of a session that is not being torn down is in the sidecar
\* or in the file, or the session is marked for a flush, whatever saves and reloads
\* fail; but for edits that a commit took out of the file because it wrote a root
\* layer which a failed reload had left behind the file.
NoEditForgotten ==
  \A s \in m_sessions : layer[s] \subseteq sidecar[s] \cup file \cup lost \/ dirty[s]

\* A commit answered with success has put every update that had been acknowledged
\* when it was asked for into the file, and no later commit on the file takes one
\* out again, unless the root layer it writes is one that a failed reload has left
\* behind the file.
CommitKept == \A k \in Callers : promise[k] = "Ok" => caller[k].owed \subseteq file \cup lost

\* Nobody waits for ever: when no thread can go on, every accepted command has been
\* handled, every commit that was accepted has a result (also one whose caller gave
\* up), every teardown is complete, no session without clients is left in the map,
\* and a shutdown has come to its end.
NothingStuck ==
  \/ /\ \A s \in Sessions : queue[s] = <<>> /\ busy[s] = Nobody
     /\ \A k \in Callers : caller[k].at = "returned" => promise[k] # "none"
     /\ \A t \in Threads : teardown[t] = Resting
     /\ \A s \in m_sessions : clients[s] # {}
     /\ application = "running" \/ (application = "stopped" /\ used = gone)
  \/ (\E s \in Sessions : ENABLED Consumer(s)) \/ ENABLED Background

\* Edits that auto_commit folded into the file when a session was destroyed stay.
AutoCommitKept == autoCommitted \subseteq file

\* After a commit that was answered with success the root layer in memory, which
\* sessions created from then on start with, has what was committed.
BaselineCommitted ==
  \A k \in Callers : promise[k] = "Ok" /\ Opened # {} => caller[k].owed \subseteq root

\* No commit takes edits out of the file.
NothingLost == lost = {}

\* A session is torn down once, by a thread that is then alone with it.
TornDownAlone == TornDownOnce /\ AloneAtTeardown
=============================================================================
