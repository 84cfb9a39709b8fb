-------------------------- MODULE SessionProtocol --------------------------
(***************************************************************************)
(* One session and its websocket clients: the io threads that receive      *)
(* requests and submit commands, the single consumer that handles them,    *)
(* and clients that follow the rules of the real-time session protocol.    *)
(* The command queue is the abstract one Mailbox and Scheduler implement:  *)
(* two bounded FIFO queues and one consumer.  A handler is split where it  *)
(* releases clients_mutex, so connections come and go between its parts.   *)
(***************************************************************************)
EXTENDS SessionVersions, Stage, Sequences, FiniteSets, Functions

CONSTANTS
  FilePrims,          \* prims the USD file defines; the others can be created
  Inactive,           \* prims the USD file ships inactive
  Shapes,             \* transform shapes clients send: "separate", "matrix"
  Capacity, PriorityCapacity,
  Leavers,            \* connections that may close
  MayDestroy,         \* whether the session may be destroyed
  MaxUpdates, MaxActive, MaxCreates,   \* bounds: requests a client sends
  MaxUploads                           \* bound: replacements of the USD file

\* Transforms: that of a prim without one, those clients set and those of new files.
Values == {Identity} \cup (Connections \cup {"upload"}) \X Nat

ASSUME ProtocolAssumption ==
  /\ FilePrims \subseteq Prims /\ Inactive \subseteq FilePrims
  /\ \A S \in SUBSET Prims : Cardinality(S) \in Nat /\ Bijection(1 .. Cardinality(S), S) # {}
  /\ Shapes \subseteq {"separate", "matrix"}
  /\ None \notin Values /\ None \notin {"separate", "matrix"}
  /\ Capacity \in Nat \ {0} /\ PriorityCapacity \in Nat \ {0}
  /\ MaxUploads \in Nat

VARIABLES
  \* the session
  file,            \* prim -> transform in the USD file on disk
  uploads,         \* replacements of the file so far
  unsubmitted,     \* replacements whose reload is not submitted yet
  root,            \* prim -> transform on the root layer in memory
  layer,           \* prim -> its spec on the session layer
  server_seq, versions,
  clients,         \* attached connections
  admitting,       \* the command queue accepts commands
  mailbox, priority,
  queued,          \* <<connection, prim>> whose PendingCorrection is marked queued
  todo,            \* what is left of the command the consumer handles
  io,              \* connection -> what is left of the callback on its io thread
  \* the network and the clients
  in, out,         \* connection -> frames under way to and from the server
  status,          \* connection -> "new", "open", "closing" or "closed"
  shown, base, ready,
  sent,            \* connection -> requests sent, by kind
  awaiting         \* connection -> request ids without an Ack

disk   == <<file, uploads, unsubmitted>>
stage  == <<root, layer>>
seqs   == <<server_seq, versions>>
queues == <<mailbox, priority, queued>>
server == <<disk, stage, seqs, clients, admitting, queues, todo>>
view   == <<shown, base, ready, sent, awaiting>>
client == <<status, view>>
vars   == <<server, io, in, out, client>>

\* The requests of a client.
Kinds == {"update", "active", "create"}

Absent == [exists |-> FALSE, active |-> FALSE, value |-> Identity]

Init ==
  /\ file = [p \in FilePrims |-> Identity] /\ root = file /\ uploads = 0 /\ unsubmitted = 0
  /\ layer = [p \in Prims |-> NoSpec]
  /\ server_seq = 0 /\ versions = NoVersions
  /\ clients = {} /\ admitting = TRUE
  /\ mailbox = <<>> /\ priority = <<>> /\ queued = {} /\ todo = <<>>
  /\ io = [c \in Connections |-> <<>>]
  /\ in = [c \in Connections |-> <<>>] /\ out = [c \in Connections |-> <<>>]
  /\ status = [c \in Connections |-> "new"]
  /\ shown = [c \in Connections |-> [p \in Prims |-> Absent]]
  /\ base = [c \in Connections |-> 0] /\ ready = [c \in Connections |-> FALSE]
  /\ sent = [c \in Connections |-> [kind \in Kinds |-> 0]]
  /\ awaiting = [c \in Connections |-> {}]
-----------------------------------------------------------------------------
(* The composed stage. *)

Exists(p) == p \in FilePrims \/ layer[p].def

RootValue(p) == IF p \in FilePrims THEN root[p] ELSE Identity

Resolved(p) == ResolvedTransform(layer[p], RootValue(p))

Active(p) == IsActive(layer[p], p \notin Inactive)

(* Frames. *)
Handshake             == [type |-> "handshake", seq |-> 0]
Ack(id, seq, answer)  == [type |-> "ack", id |-> id, seq |-> seq, answer |-> answer]
Xform(p, value, seq)  == [type |-> "xform", prim |-> p, value |-> value, seq |-> seq]
Created(p, seq)       == [type |-> "create", prim |-> p, seq |-> seq]
ActiveIs(p, a, seq)   == [type |-> "active", prim |-> p, active |-> a, seq |-> seq]
SnapshotComplete(seq) == [type |-> "complete", seq |-> seq]

Deliver(to, frames) ==
  out' = [c \in Connections |-> IF c \in to THEN out[c] \o frames ELSE out[c]]

SentTo(v, to, seq) ==
  [v EXCEPT !.max_sent_seq = [c \in Connections |-> IF c \in to THEN Larger(@[c], seq) ELSE @[c]]]
-----------------------------------------------------------------------------
(* The consumer: one command at a time. *)

AckLater(command, answer) ==
  [op |-> "ack", to |-> command.origin, id |-> command.id, answer |-> answer]

\* The notice of a transform: a version of its own, for everybody but the origin.
OnObjectsChanged(p, value, origin) ==
  LET seq    == server_seq + 1
      others == clients \ {origin}
  IN  /\ server_seq' = seq
      /\ versions' = SentTo(RecordChange(versions, p, seq, origin), others, seq)
      /\ Deliver(others, <<Xform(p, value, seq)>>)

\* The update is applied; or it cannot be and the origin gets a correction.
HandleTransform(command) ==
  LET p == command.prim
      checked == CheckUpdate(versions, command.origin, p, command.base)
  IN  \/ /\ checked # "Current"
         /\ todo' = <<AckLater(command, checked)>>
         /\ UNCHANGED <<layer, server_seq, versions, out>>
      \/ /\ checked = "Current" /\ Exists(p)
         /\ layer' = [layer EXCEPT ![p] = Apply(@, command.shape, command.value)]
         /\ OnObjectsChanged(p, command.value, command.origin)
         /\ todo' = <<AckLater(command, "ok")>>
      \/ /\ checked = "Current"
         /\ todo' = <<AckLater(command, "apply_failed"),
                      [op |-> "correct", to |-> command.origin, prim |-> p]>>
         /\ UNCHANGED <<layer, server_seq, versions, out>>

\* A change that is announced explicitly, to everybody, with the listener muted.
BroadcastToAll(p, origin, frame) ==
  /\ server_seq' = frame.seq
  /\ versions' = SentTo(RecordChange(versions, p, frame.seq, origin), clients, frame.seq)
  /\ Deliver(clients, <<frame>>)

\* The new prim gets a free name, and everybody is told of it.
HandleCreate(command) ==
  \/ \E p \in Prims :
       /\ ~Exists(p)
       /\ layer' = [layer EXCEPT ![p] = DefinePrim(@)]
       /\ BroadcastToAll(p, command.origin, Created(p, server_seq + 1))
       /\ todo' = <<AckLater(command, "ok")>>
  \/ /\ todo' = <<AckLater(command, "invalid_parent")>>
     /\ UNCHANGED <<layer, server_seq, versions, out>>

\* Soft delete and its undo.  A prim that has the state already is no change.
HandleSetActive(command) ==
  LET p == command.prim
  IN  \/ /\ Exists(p) /\ Active(p) # command.active
         /\ layer' = [layer EXCEPT ![p] = SetActive(@, command.active)]
         /\ BroadcastToAll(p, command.origin, ActiveIs(p, command.active, server_seq + 1))
         /\ todo' = <<AckLater(command, "ok")>>
      \/ /\ Exists(p) /\ Active(p) = command.active
         /\ todo' = <<AckLater(command, "ok")>>
         /\ UNCHANGED <<layer, server_seq, versions, out>>
      \/ /\ Exists(p) => Active(p) # command.active
         /\ todo' = <<AckLater(command, "failed")>>
         /\ UNCHANGED <<layer, server_seq, versions, out>>

\* The prims of a set in the order of their paths, and in that order the frames
\* of a function from prims to frames.
Listed(S) == CHOOSE list \in Bijection(1 .. Cardinality(S), S) : TRUE

ForEach(frame) == LET S == DOMAIN frame IN [i \in 1 .. Cardinality(S) |-> frame[Listed(S)[i]]]

\* What the session layer says, as frames: created prims, moved prims, soft deletes.
Creates(seq)    == ForEach([p \in {q \in Prims : layer[q].def} |-> Created(p, seq)])
Transforms(seq) == ForEach([p \in {q \in Prims : ReadAuthoredLocalTransform(layer[q]) # None} |->
                              Xform(p, ReadAuthoredLocalTransform(layer[p]), seq)])
Deletes(seq)    == ForEach([p \in {q \in Prims : layer[q].active = FALSE} |-> ActiveIs(p, FALSE, seq)])

\* Faulty: the soft-deleted prims are left out.
SnapshotFrames_NoDeleted(seq) == Transforms(seq) \o <<SnapshotComplete(seq)>>

\* The snapshot is built from the session layer: created prims, then
\* transforms, then the prims that are soft-deleted.
SnapshotFrames(seq) == Creates(seq) \o Transforms(seq) \o Deletes(seq) \o <<SnapshotComplete(seq)>>

HandleJoin(command) ==
  /\ todo' = <<[op |-> "snapshot", to |-> command.origin, seq |-> server_seq,
                frames |-> SnapshotFrames(server_seq)]>>
  /\ UNCHANGED <<layer, server_seq, versions, out>>

\* Prims whose transform the session layer does not override.
Unmasked(S) == {p \in S : ~HasXformOverride(layer[p])}

\* Faulty: the changes are broadcast but not recorded.
OnReloaded_Unrecorded(S) ==
  LET seq  == server_seq + 1
      seen == Unmasked(S)
  IN  /\ server_seq' = seq
      /\ IF seen = {} THEN UNCHANGED <<versions, out>>
         ELSE /\ versions' = SentTo(versions, clients, seq)
              /\ Deliver(clients, ForEach([p \in seen |-> Xform(p, file[p], seq)]))

\* The notice of a reload: one version for all prims it names.  A prim with an
\* override on the session layer is passed over.
OnReloaded(S) ==
  LET seq  == server_seq + 1
      seen == Unmasked(S)
  IN  /\ server_seq' = seq
      /\ IF seen = {} THEN UNCHANGED <<versions, out>>
         ELSE /\ versions' = SentTo(RecordServerChanges(versions, seen, seq), clients, seq)
              /\ Deliver(clients, ForEach([p \in seen |-> Xform(p, file[p], seq)]))

\* The root layer takes over the file, and the notice names at least the prims that
\* changed; or the reload fails, which is only logged.
HandleReload ==
  /\ todo' = <<>>
  /\ UNCHANGED layer
  /\ \/ /\ root' = file
        /\ \E S \in SUBSET FilePrims :
             /\ {p \in FilePrims : root[p] # file[p]} \subseteq S
             /\ IF S = {} THEN UNCHANGED <<server_seq, versions, out>> ELSE OnReloaded(S)
     \/ UNCHANGED <<root, server_seq, versions, out>>

\* The mark is cleared before the state is read.
HandleCorrection(command) ==
  /\ queued' = queued \ {<<command.origin, command.prim>>}
  /\ todo' = <<[op |-> "correct", to |-> command.origin, prim |-> command.prim]>>
  /\ UNCHANGED <<layer, server_seq, versions, out>>

\* ProcessCommand.  The priority queue is normally emptied first, but a
\* reservation that is not published yet hides it, so either queue may be next.
Handle ==
  /\ todo = <<>>
  /\ \/ /\ mailbox # <<>> /\ mailbox' = Tail(mailbox)
        /\ UNCHANGED <<priority, queued>>
        /\ LET command == Head(mailbox)
           IN  \/ command.kind = "update" /\ HandleTransform(command) /\ UNCHANGED root
               \/ command.kind = "create" /\ HandleCreate(command) /\ UNCHANGED root
               \/ command.kind = "active" /\ HandleSetActive(command) /\ UNCHANGED root
               \/ command.kind = "join" /\ HandleJoin(command) /\ UNCHANGED root
               \/ command.kind = "reload" /\ HandleReload
     \/ /\ priority # <<>> /\ priority' = Tail(priority)
        /\ HandleCorrection(Head(priority))
        /\ UNCHANGED <<mailbox, root>>
  /\ UNCHANGED <<disk, clients, admitting, io, in, client>>

(* The rest of the handler: each part takes clients_mutex of its own. *)

SendAck(step) ==
  /\ IF step.to \in clients
       THEN /\ Deliver({step.to}, <<Ack(step.id, server_seq, step.answer)>>)
            /\ versions' = RecordSent(versions, step.to, server_seq)
       ELSE UNCHANGED <<out, versions>>
  /\ UNCHANGED server_seq

\* Faulty: the correction does not make the updates under way stale.
SendCorrection_Unrecorded(step) ==
  IF step.to \in clients /\ Exists(step.prim)
    THEN /\ server_seq' = server_seq + 1
         /\ versions' = RecordSent(versions, step.to, server_seq + 1)
         /\ Deliver({step.to}, <<Xform(step.prim, Resolved(step.prim), server_seq + 1)>>)
    ELSE UNCHANGED <<server_seq, versions, out>>

\* A correction is a version of its own, for one connection.  A soft-deleted
\* prim is corrected by saying that it is deleted.
SendCorrection(step) ==
  IF step.to \in clients /\ Exists(step.prim)
    THEN LET seq == server_seq + 1
         IN  /\ server_seq' = seq
             /\ versions' = RecordCorrection(versions, step.to, step.prim, seq)
             /\ Deliver({step.to}, <<IF Active(step.prim)
                                       THEN Xform(step.prim, Resolved(step.prim), seq)
                                       ELSE ActiveIs(step.prim, FALSE, seq)>>)
    ELSE UNCHANGED <<server_seq, versions, out>>

\* Faulty: the version of the snapshot is not recorded as sent.
SendSnapshot_Unrecorded(step) ==
  /\ IF step.to \in clients THEN Deliver({step.to}, step.frames) ELSE UNCHANGED out
  /\ UNCHANGED <<server_seq, versions>>

SendSnapshot(step) ==
  /\ IF step.to \in clients
       THEN /\ Deliver({step.to}, step.frames)
            /\ versions' = RecordSent(versions, step.to, step.seq)
       ELSE UNCHANGED <<out, versions>>
  /\ UNCHANGED server_seq

Continue ==
  /\ todo # <<>> /\ todo' = Tail(todo)
  /\ LET step == Head(todo)
     IN  \/ step.op = "ack" /\ SendAck(step)
         \/ step.op = "correct" /\ SendCorrection(step)
         \/ step.op = "snapshot" /\ SendSnapshot(step)
  /\ UNCHANGED <<disk, stage, clients, admitting, queues, io, in, client>>
-----------------------------------------------------------------------------
(* The io threads.  The callbacks of one connection run one at a time. *)

\* Faulty: the bound of the queue is not enforced.
Submit_NoLimit == IF admitting THEN "accepted" ELSE "session_closing"

\* The answer of the command queue to a submission.
Submit ==
  IF ~admitting THEN "session_closing"
  ELSE IF Len(mailbox) < Capacity THEN "accepted" ELSE "queue_full"

\* OnOpen: attach, then the Handshake, then the join command.  A session that is
\* gone is refused, unless it went between the look-up and the attach.
OnOpen(c) ==
  /\ status[c] = "new"
  /\ \/ /\ status' = [status EXCEPT ![c] = "open"]
        /\ clients' = clients \cup {c}
        /\ io' = [io EXCEPT ![c] = <<[op |-> "handshake"], [op |-> "join"]>>]
     \/ /\ ~admitting
        /\ status' = [status EXCEPT ![c] = "closing"]
        /\ UNCHANGED <<clients, io>>
  /\ UNCHANGED <<disk, stage, seqs, admitting, queues, todo, in, out, view>>

\* Faulty: a request the queue does not take is dropped without an answer.
OnMessage_Silent(c) ==
  /\ status[c] = "open" /\ io[c] = <<>> /\ in[c] # <<>>
  /\ in' = [in EXCEPT ![c] = Tail(@)]
  /\ mailbox' = IF Submit = "accepted" THEN Append(mailbox, Head(in[c])) ELSE mailbox
  /\ UNCHANGED <<disk, stage, seqs, clients, admitting, priority, queued, todo, io, out, client>>

\* OnMessage: the request becomes a command.  One that is not accepted is
\* answered at once, and a transform that met a full queue is corrected.
OnMessage(c) ==
  /\ status[c] = "open" /\ io[c] = <<>> /\ in[c] # <<>>
  /\ in' = [in EXCEPT ![c] = Tail(@)]
  /\ LET request == Head(in[c])
         result  == Submit
         refusal == [op |-> "answer", id |-> request.id, answer |-> result]
     IN  \/ /\ result = "accepted"
            /\ mailbox' = Append(mailbox, request)
            /\ UNCHANGED io
         \/ /\ result # "accepted"
            /\ io' = [io EXCEPT ![c] =
                 IF request.kind = "update" /\ result = "queue_full"
                   THEN <<refusal, [op |-> "correction", prim |-> request.prim]>>
                   ELSE <<refusal>>]
            /\ UNCHANGED mailbox
  /\ UNCHANGED <<disk, stage, seqs, clients, admitting, priority, queued, todo, out, client>>

\* One correction per connection and prim is queued; with a full priority queue
\* it is dropped.
SubmitCorrection(c, p) ==
  IF <<c, p>> \in queued \/ ~admitting \/ Len(priority) = PriorityCapacity
    THEN UNCHANGED <<priority, queued>>
    ELSE /\ priority' = Append(priority, [kind |-> "correction", origin |-> c, prim |-> p])
         /\ queued' = queued \cup {<<c, p>>}

IoStep(c) ==
  /\ io[c] # <<>> /\ io' = [io EXCEPT ![c] = Tail(@)]
  /\ LET step == Head(io[c])
         join == [kind |-> "join", origin |-> c]
     IN  \/ /\ step.op = "handshake" /\ Deliver({c}, <<Handshake>>)
            /\ UNCHANGED <<mailbox, priority, queued, status>>
         \/ /\ step.op = "join" /\ Submit = "accepted"
            /\ mailbox' = Append(mailbox, join)
            /\ UNCHANGED <<priority, queued, out, status>>
         \/ /\ step.op = "join" /\ Submit # "accepted"
            /\ status' = [status EXCEPT ![c] = "closing"]
            /\ UNCHANGED <<mailbox, priority, queued, out>>
         \/ /\ step.op = "answer" /\ Deliver({c}, <<Ack(step.id, 0, step.answer)>>)
            /\ UNCHANGED <<mailbox, priority, queued, status>>
         \/ /\ step.op = "correction" /\ SubmitCorrection(c, step.prim)
            /\ UNCHANGED <<mailbox, out, status>>
  /\ UNCHANGED <<disk, stage, seqs, clients, admitting, todo, in, view>>

\* OnClose: the connection is gone, with all that was under way on it.
OnClose(c) ==
  /\ status[c] = "closing" \/ (status[c] = "open" /\ c \in Leavers)
  /\ io[c] = <<>>
  /\ status' = [status EXCEPT ![c] = "closed"]
  /\ clients' = clients \ {c}
  /\ in' = [in EXCEPT ![c] = <<>>]
  /\ out' = [out EXCEPT ![c] = <<>>]
  /\ UNCHANGED <<disk, stage, seqs, admitting, queues, todo, io, view>>

\* Destroy closes admission; what was accepted is still handled.
Destroy ==
  /\ MayDestroy /\ admitting /\ admitting' = FALSE
  /\ UNCHANGED <<disk, stage, seqs, clients, queues, todo, io, in, out, client>>

\* The rest of the teardown waits for the consumer; the session layer is cleared
\* with the listener revoked.
Teardown ==
  /\ ~admitting /\ mailbox = <<>> /\ priority = <<>> /\ todo = <<>>
  /\ layer # [p \in Prims |-> NoSpec] /\ layer' = [p \in Prims |-> NoSpec]
  /\ UNCHANGED <<disk, root, seqs, clients, admitting, queues, todo, io, in, out, client>>

\* An upload renames a new file over the old one and then asks for a reload.
Upload ==
  /\ uploads < MaxUploads /\ uploads' = uploads + 1 /\ unsubmitted' = unsubmitted + 1
  /\ \E p \in FilePrims : file' = [file EXCEPT ![p] = <<"upload", uploads + 1>>]
  /\ UNCHANGED <<stage, seqs, clients, admitting, queues, todo, io, in, out, client>>

SubmitReload ==
  /\ unsubmitted > 0 /\ unsubmitted' = unsubmitted - 1
  /\ mailbox' = IF Submit = "accepted" THEN Append(mailbox, [kind |-> "reload"]) ELSE mailbox
  /\ UNCHANGED <<file, uploads, stage, seqs, clients, admitting, priority, queued, todo,
                 io, in, out, client>>
-----------------------------------------------------------------------------

(* Clients, following the rules of the protocol. *)

\* A client shows its update at once, and sends it with the version it has.
SendUpdate(c) ==
  /\ status[c] = "open" /\ ready[c] /\ sent[c]["update"] < MaxUpdates
  /\ \E p \in Prims, shape \in Shapes :
       LET n == sent[c]["update"] + 1
           id == <<"update", n>>
       IN  /\ shown[c][p].exists /\ shown[c][p].active
           /\ shown' = [shown EXCEPT ![c][p].value = <<c, n>>]
           /\ in' = [in EXCEPT ![c] = Append(@, [kind |-> "update", origin |-> c, id |-> id,
                       prim |-> p, shape |-> shape, value |-> <<c, n>>, base |-> base[c]])]
           /\ sent' = [sent EXCEPT ![c]["update"] = n]
           /\ awaiting' = [awaiting EXCEPT ![c] = @ \cup {id}]
  /\ UNCHANGED <<server, io, out, status, base, ready>>

SendSetActive(c) ==
  /\ status[c] = "open" /\ ready[c] /\ sent[c]["active"] < MaxActive
  /\ \E p \in Prims, active \in BOOLEAN :
       LET id == <<"active", sent[c]["active"] + 1>>
       IN  /\ shown[c][p].exists /\ shown[c][p].active # active
           /\ in' = [in EXCEPT ![c] = Append(@, [kind |-> "active", origin |-> c, id |-> id,
                                                 prim |-> p, active |-> active])]
           /\ awaiting' = [awaiting EXCEPT ![c] = @ \cup {id}]
  /\ sent' = [sent EXCEPT ![c]["active"] = @ + 1]
  /\ UNCHANGED <<server, io, out, status, shown, base, ready>>

SendCreate(c) ==
  /\ status[c] = "open" /\ ready[c] /\ sent[c]["create"] < MaxCreates
  /\ LET id == <<"create", sent[c]["create"] + 1>>
     IN  /\ in' = [in EXCEPT ![c] = Append(@, [kind |-> "create", origin |-> c, id |-> id])]
         /\ awaiting' = [awaiting EXCEPT ![c] = @ \cup {id}]
  /\ sent' = [sent EXCEPT ![c]["create"] = @ + 1]
  /\ UNCHANGED <<server, io, out, status, shown, base, ready>>

\* What a frame makes of the prims a client shows.  After the Handshake the
\* client fetches the file; a frame for a prim it does not have is ignored.
Applied(frame, prims) ==
  CASE frame.type = "handshake" ->
         [p \in Prims |-> IF p \in FilePrims
                            THEN [exists |-> TRUE, active |-> p \notin Inactive, value |-> file[p]]
                            ELSE Absent]
    [] frame.type = "xform" /\ prims[frame.prim].exists ->
         [prims EXCEPT ![frame.prim].value = frame.value]
    [] frame.type = "active" /\ prims[frame.prim].exists ->
         [prims EXCEPT ![frame.prim].active = frame.active]
    [] frame.type = "create" /\ ~prims[frame.prim].exists ->
         [prims EXCEPT ![frame.prim] = [exists |-> TRUE, active |-> TRUE, value |-> Identity]]
    [] OTHER -> prims

Receive(c) ==
  /\ status[c] = "open" /\ out[c] # <<>>
  /\ out' = [out EXCEPT ![c] = Tail(@)]
  /\ LET frame == Head(out[c])
     IN  /\ shown' = [shown EXCEPT ![c] = Applied(frame, @)]
         /\ base' = [base EXCEPT ![c] = Larger(@, frame.seq)]
         /\ ready' = [ready EXCEPT ![c] = @ \/ frame.type = "complete"]
         /\ awaiting' = [awaiting EXCEPT ![c] = IF frame.type = "ack" THEN @ \ {frame.id} ELSE @]
  /\ UNCHANGED <<server, io, in, status, sent>>
-----------------------------------------------------------------------------
Next ==
  \/ Handle \/ Continue \/ Upload \/ SubmitReload \/ Destroy \/ Teardown
  \/ \E c \in Connections :
       \/ OnOpen(c) \/ OnMessage(c) \/ IoStep(c) \/ OnClose(c)
       \/ SendUpdate(c) \/ SendSetActive(c) \/ SendCreate(c) \/ Receive(c)

Spec == Init /\ [][Next]_vars

\* The worker pool runs a scheduled consumer, io threads finish their callbacks
\* and clients read their sockets.
Fairness ==
  /\ WF_vars(Handle) /\ WF_vars(Continue) /\ WF_vars(SubmitReload)
  /\ \A c \in Connections : WF_vars(OnMessage(c)) /\ WF_vars(IoStep(c)) /\ WF_vars(Receive(c))

FairSpec == Spec /\ Fairness
-----------------------------------------------------------------------------
\* What the session layer says of a prim; the op order lists ops that have a value.
Specs ==
  {spec \in [def : BOOLEAN, active : BOOLEAN \cup {None}, separate : Values \cup {None},
             matrix : Values \cup {None}, order : {"separate", "matrix", None}] :
     /\ spec.order = "separate" => spec.separate # None
     /\ spec.order = "matrix" => spec.matrix # None}

Ids == Kinds \X Nat

Requests ==
  [kind : {"update"}, origin : Connections, id : Ids, prim : Prims, shape : Shapes,
   value : Values, base : Nat]
  \cup [kind : {"active"}, origin : Connections, id : Ids, prim : Prims, active : BOOLEAN]
  \cup [kind : {"create"}, origin : Connections, id : Ids]

Commands == Requests \cup [kind : {"join"}, origin : Connections] \cup [kind : {"reload"}]

Corrections == [kind : {"correction"}, origin : Connections, prim : Prims]

Answers == {"ok", "Stale", "InvalidBase", "apply_failed", "invalid_parent", "failed",
            "session_closing", "queue_full"}

Frames ==
  [type : {"handshake"}, seq : {0}]
  \cup [type : {"ack"}, id : Ids, seq : Nat, answer : Answers]
  \cup [type : {"xform"}, prim : Prims, value : Values, seq : Nat]
  \cup [type : {"create"}, prim : Prims, seq : Nat]
  \cup [type : {"active"}, prim : Prims, active : BOOLEAN, seq : Nat]
  \cup [type : {"complete"}, seq : Nat]

Steps ==
  [op : {"ack"}, to : Connections, id : Ids, answer : Answers]
  \cup [op : {"correct"}, to : Connections, prim : Prims]
  \cup [op : {"snapshot"}, to : Connections, seq : Nat, frames : Seq(Frames)]

IoSteps ==
  [op : {"handshake", "join"}] \cup [op : {"answer"}, id : Ids, answer : Answers]
  \cup [op : {"correction"}, prim : Prims]

StageTypes ==
  /\ file \in [FilePrims -> Values] /\ root \in [FilePrims -> Values]
  /\ layer \in [Prims -> Specs]
  /\ uploads \in 0 .. MaxUploads /\ unsubmitted \in 0 .. uploads

VersionRecords ==
  [last_change_seq : [Prims -> Nat], last_writer : [Prims -> Connections \cup {Server}],
   foreign_before_run : [Prims -> Nat], max_sent_seq : [Connections -> Nat],
   correction_seq : [Connections -> [Prims -> Nat]]]

SeqTypes == server_seq \in Nat /\ versions \in VersionRecords

\* The two command queues and the rest of a handler are bounded.
QueueTypes ==
  /\ mailbox \in Seq(Commands) /\ Len(mailbox) <= Capacity
  /\ priority \in Seq(Corrections) /\ Len(priority) <= PriorityCapacity
  /\ queued \subseteq Connections \X Prims
  /\ todo \in Seq(Steps) /\ Len(todo) <= 2
  /\ io \in [Connections -> Seq(IoSteps)] /\ \A c \in Connections : Len(io[c]) <= 2

ClientTypes ==
  /\ clients \subseteq Connections /\ admitting \in BOOLEAN
  /\ in \in [Connections -> Seq(Requests)] /\ out \in [Connections -> Seq(Frames)]
  /\ status \in [Connections -> {"new", "open", "closing", "closed"}]
  /\ shown \in [Connections -> [Prims -> [exists : BOOLEAN, active : BOOLEAN, value : Values]]]
  /\ base \in [Connections -> Nat] /\ ready \in [Connections -> BOOLEAN]
  /\ sent \in [Connections -> [Kinds -> Nat]] /\ awaiting \in [Connections -> SUBSET Ids]

\* The types, and the limits of the two command queues and of a handler.
TypeOK == StageTypes /\ SeqTypes /\ QueueTypes /\ ClientTypes

\* Nothing is under way between the server and an open connection.
Quiet ==
  /\ mailbox = <<>> /\ priority = <<>> /\ todo = <<>> /\ unsubmitted = 0
  /\ \A c \in Connections : status[c] = "open" => io[c] = <<>> /\ in[c] = <<>> /\ out[c] = <<>>

\* A client that got its snapshot and is still connected.
InSync(c) == status[c] = "open" /\ ready[c]

\* Prims and active flags agree with the composed stage when nothing is under way,
\* also with soft deletes, their undo, created prims and late joiners: "the client
\* now has the full server state" (HandleCommand for a join).
ActiveStateConverges ==
  Quiet /\ admitting =>
    \A c \in Connections, p \in Prims : InSync(c) =>
      /\ shown[c][p].exists = Exists(p)
      /\ Exists(p) => shown[c][p].active = Active(p)

\* "With these rules the last message a client receives for a prim carries the
\* server state of that prim" (README): when nothing is under way, every client in
\* sync shows the transform of every active prim of the composed stage, whatever
\* was rejected, corrected, reloaded or joined in between; unless the session could
\* not reload the file, which clients that join download.
ClientsConverge ==
  Quiet /\ admitting /\ root = file =>
    \A c \in Connections, p \in Prims :
      InSync(c) /\ Exists(p) /\ Active(p) => shown[c][p].value = Resolved(p)

\* The versions a client receives never go down: frames under way carry
\* versions in order, none below what the client has; 0 stands for no version.
VersionsNeverGoDown ==
  \A c \in Connections : status[c] = "open" =>
    \A i \in DOMAIN out[c] : out[c][i].seq # 0 =>
      /\ out[c][i].seq >= base[c]
      /\ \A j \in i + 1 .. Len(out[c]) : out[c][j].seq # 0 => out[c][i].seq <= out[c][j].seq

\* Where a queue holds one of some messages.
Positions(queue, messages) == {i \in DOMAIN queue : queue[i] \in messages}

Asking(c, id)  == {m \in Requests : m.origin = c /\ m.id = id}
Settling(c, id) == {m \in Steps : m.op = "ack" /\ m.to = c /\ m.id = id}
Refusing(id)   == {m \in IoSteps : m.op = "answer" /\ m.id = id}
Acking(id)     == {m \in Frames : m.type = "ack" /\ m.id = id}

\* The places of a request on its way through the server and back.
Places(c, id) ==
  {"in"} \X Positions(in[c], Asking(c, id)) \cup {"mailbox"} \X Positions(mailbox, Asking(c, id))
  \cup {"todo"} \X Positions(todo, Settling(c, id)) \cup {"io"} \X Positions(io[c], Refusing(id))
  \cup {"out"} \X Positions(out[c], Acking(id))

\* Every request gets exactly one Ack: while a client waits for one, it is in
\* exactly one place on its way through the server and back.
ExactlyOneAck ==
  \A c \in Connections : status[c] = "open" =>
    \A kind \in Kinds : \A n \in 1 .. sent[c][kind] :
      IF <<kind, n>> \in awaiting[c]
        THEN \E place \in Places(c, <<kind, n>>) : Places(c, <<kind, n>>) = {place}
        ELSE Places(c, <<kind, n>>) = {}

\* A client that follows the rules is never told invalid_base: every version it
\* can have received is recorded as sent before one of its updates is checked.
NeverInvalidBase == \A i \in DOMAIN todo : todo[i].op = "ack" => todo[i].answer # "InvalidBase"

Correcting(c, p) == {m \in Corrections : m.origin = c /\ m.prim = p}

\* At most one correction per connection and prim is queued at a time, and the
\* mark says whether there is one.
OneCorrectionQueued ==
  \A c \in Connections, p \in Prims :
    LET found == Positions(priority, Correcting(c, p))
    IN  IF <<c, p>> \in queued THEN \E i \in found : found = {i} ELSE found = {}

\* Every request of a client that stays is answered, whatever the queues hold and
\* also when the session is destroyed meanwhile.
EveryRequestAnswered ==
  \A c \in Connections : awaiting[c] # {} ~> (awaiting[c] = {} \/ status[c] # "open")

\* Neither answers nor corrections get lost or come twice, whoever of the consumer and
\* the io threads deals with them.
AnsweredOnce == ExactlyOneAck /\ OneCorrectionQueued

\* Versions reach a client in order, and no version it may refer to is unknown to the
\* server.
VersionsAgreed == VersionsNeverGoDown /\ NeverInvalidBase
=============================================================================
