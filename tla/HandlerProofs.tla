--------------------------- MODULE HandlerProofs ----------------------------
(***************************************************************************)
(* Proofs about SessionProtocol, for any number of clients, prims and      *)
(* requests and any capacity of the command queues: what the handlers of   *)
(* a command and the rest of them send, and that every step keeps the      *)
(* types.  ProtocolProofs and AnswerProofs go on from here.                *)
(***************************************************************************)
EXTENDS ProtocolInvariant, TLAPS

-----------------------------------------------------------------------------
(* What the messages are made of. *)

\* The Handshake is a frame, with no version.
LEMMA HandshakeFrame ==
  Handshake \in Frames /\ Handshake.type = "handshake" /\ Handshake.seq = 0
BY DEF Handshake, Frames

\* An Ack is a frame.
LEMMA AckFrame ==
  ASSUME NEW id \in Ids, NEW seq \in Nat, NEW answer \in Answers
  PROVE  /\ Ack(id, seq, answer) \in Frames
         /\ Ack(id, seq, answer).type = "ack" /\ Ack(id, seq, answer).id = id /\ Ack(id, seq, answer).seq = seq
BY DEF Ack, Frames

\* A transform is a frame.
LEMMA XformFrame ==
  ASSUME NEW p \in Prims, NEW value \in Values, NEW seq \in Nat
  PROVE  /\ Xform(p, value, seq) \in Frames
         /\ Xform(p, value, seq).type = "xform" /\ Xform(p, value, seq).seq = seq
BY DEF Xform, Frames

\* The announcement of a prim is a frame.
LEMMA CreatedFrame ==
  ASSUME NEW p \in Prims, NEW seq \in Nat
  PROVE  /\ Created(p, seq) \in Frames
         /\ Created(p, seq).type = "create" /\ Created(p, seq).seq = seq
BY DEF Created, Frames

\* So is that of an active state.
LEMMA ActiveFrame ==
  ASSUME NEW p \in Prims, NEW active \in BOOLEAN, NEW seq \in Nat
  PROVE  /\ ActiveIs(p, active, seq) \in Frames
         /\ ActiveIs(p, active, seq).type = "active" /\ ActiveIs(p, active, seq).seq = seq
BY DEF ActiveIs, Frames

\* The end of a snapshot is a frame.
LEMMA CompleteFrame ==
  ASSUME NEW seq \in Nat
  PROVE  /\ SnapshotComplete(seq) \in Frames
         /\ SnapshotComplete(seq).type = "complete" /\ SnapshotComplete(seq).seq = seq
BY DEF SnapshotComplete, Frames

\* What a client may read off a frame.
LEMMA FrameParts ==
  ASSUME NEW f \in Frames
  PROVE  /\ f.seq \in Nat
         /\ f.type = "ack" => f.id \in Ids
         /\ f.type = "xform" => f.prim \in Prims /\ f.value \in Values
         /\ f.type = "create" => f.prim \in Prims
         /\ f.type = "active" => f.prim \in Prims /\ f.active \in BOOLEAN
<1>1. f.seq \in Nat BY DEF Frames
<1>2. f.type = "ack" => f.id \in Ids BY DEF Frames
<1>3. f.type = "xform" => f.prim \in Prims /\ f.value \in Values BY DEF Frames
<1>4. f.type = "create" => f.prim \in Prims BY DEF Frames
<1>5. f.type = "active" => f.prim \in Prims /\ f.active \in BOOLEAN BY DEF Frames
<1> QED BY <1>1, <1>2, <1>3, <1>4, <1>5

\* What the consumer may read off a command.
LEMMA CommandParts ==
  ASSUME NEW m \in Commands
  PROVE  /\ m.kind \in Kinds => /\ m \in Requests /\ m.origin \in Connections /\ m.id \in Ids
         /\ m.kind = "join" => m.origin \in Connections
         /\ m.kind = "update" => /\ m.prim \in Prims /\ m.shape \in Shapes
                                 /\ m.value \in Values /\ m.base \in Nat
         /\ m.kind = "active" => m.prim \in Prims /\ m.active \in BOOLEAN
<1>1. m.kind \in Kinds => m \in Requests BY DEF Commands, Kinds
<1>2. m \in Requests => m.origin \in Connections /\ m.id \in Ids BY DEF Requests
<1>3. m.kind = "join" => m.origin \in Connections BY DEF Commands, Requests
<1>4. m.kind = "update" => /\ m.prim \in Prims /\ m.shape \in Shapes
                           /\ m.value \in Values /\ m.base \in Nat
  BY DEF Commands, Requests
<1>5. m.kind = "active" => m.prim \in Prims /\ m.active \in BOOLEAN BY DEF Commands, Requests
<1> QED BY <1>1, <1>2, <1>3, <1>4, <1>5

\* A request is a command; what the io thread may read off it.
LEMMA RequestParts ==
  ASSUME NEW m \in Requests
  PROVE  /\ m \in Commands /\ m.kind \in Kinds /\ m.origin \in Connections /\ m.id \in Ids
         /\ m.kind = "update" => m.prim \in Prims /\ m.base \in Nat
<1>1. m \in Commands BY DEF Commands
<1>2. m.kind \in Kinds /\ m.origin \in Connections /\ m.id \in Ids BY DEF Requests, Kinds
<1>3. m.kind = "update" => m.prim \in Prims /\ m.base \in Nat BY DEF Requests
<1> QED BY <1>1, <1>2, <1>3

\* What the rest of a handler is made of.
LEMMA StepParts ==
  ASSUME NEW m \in Steps
  PROVE  /\ m.to \in Connections
         /\ m.op = "ack" => m.id \in Ids /\ m.answer \in Answers
         /\ m.op = "correct" => m.prim \in Prims
         /\ m.op = "snapshot" => m.seq \in Nat /\ m.frames \in Seq(Frames)
<1>1. m.to \in Connections BY DEF Steps
<1>2. m.op = "ack" => m.id \in Ids /\ m.answer \in Answers BY DEF Steps
<1>3. m.op = "correct" => m.prim \in Prims BY DEF Steps
<1>4. m.op = "snapshot" => m.seq \in Nat /\ m.frames \in Seq(Frames) BY DEF Steps
<1> QED BY <1>1, <1>2, <1>3, <1>4

\* What the rest of a callback is made of.
LEMMA IoStepParts ==
  ASSUME NEW m \in IoSteps
  PROVE  /\ m.op = "answer" => m.id \in Ids /\ m.answer \in Answers
         /\ m.op = "correction" => m.prim \in Prims
<1>1. m.op = "answer" => m.id \in Ids /\ m.answer \in Answers BY DEF IoSteps
<1>2. m.op = "correction" => m.prim \in Prims BY DEF IoSteps
<1> QED BY <1>1, <1>2
-----------------------------------------------------------------------------
(* The stage. *)

\* Authoring keeps the specs of the session layer well formed.
LEMMA SpecsKept ==
  /\ NoSpec \in Specs
  /\ \A spec \in Specs : DefinePrim(spec) \in Specs
  /\ \A spec \in Specs, active \in BOOLEAN : SetActive(spec, active) \in Specs
  /\ \A spec \in Specs, shape \in Shapes, value \in Values : Apply(spec, shape, value) \in Specs
<1>1. NoSpec \in Specs BY ProtocolAssumption DEF NoSpec, Specs
<1>2. \A spec \in Specs : DefinePrim(spec) \in Specs BY Zenon DEF DefinePrim, Specs
<1>3. \A spec \in Specs, active \in BOOLEAN : SetActive(spec, active) \in Specs
  BY DEF SetActive, Specs
<1>4. \A spec \in Specs, shape \in Shapes, value \in Values : Apply(spec, shape, value) \in Specs
  BY ProtocolAssumption, Zenon DEF Apply, Specs
<1> QED BY <1>1, <1>2, <1>3, <1>4

\* The stage composes a transform for every prim.
LEMMA ResolvedValue ==
  ASSUME StageTypes, NEW p \in Prims
  PROVE  Resolved(p) \in Values
<1>1. Identity \in Values BY DEF Values
<1>2. RootValue(p) \in Values BY <1>1 DEF RootValue, StageTypes
<1>3. layer[p] \in Specs BY DEF StageTypes
<1> QED BY <1>2, <1>3 DEF Resolved, ResolvedTransform, Specs

\* A set of prims is listed without anything else.
LEMMA ListedIn ==
  ASSUME NEW S \in SUBSET Prims
  PROVE  Listed(S) \in [1 .. Cardinality(S) -> S] /\ Cardinality(S) \in Nat
<1>1. Cardinality(S) \in Nat /\ Bijection(1 .. Cardinality(S), S) # {} BY ProtocolAssumption
<1>2. Listed(S) \in Bijection(1 .. Cardinality(S), S) BY <1>1 DEF Listed
<1> QED BY <1>1, <1>2 DEF Bijection, Injection

\* News after other news of the same version.
LEMMA NewsJoined ==
  ASSUME NEW seq \in Nat, NEW q \in News(seq), NEW r \in News(seq)
  PROVE  q \o r \in News(seq)
<1>1. q \o r \in Seq(Frames) BY DEF News, FramesOf
<1>2. \A i \in DOMAIN (q \o r) : (q \o r)[i].seq = seq /\ (q \o r)[i].type # "ack"
  BY DEF News, FramesOf
<1> QED BY <1>1, <1>2, Zenon DEF News, FramesOf

\* A frame alone.
LEMMA OneFrame ==
  ASSUME NEW seq \in Nat, NEW f \in Frames, f.seq = seq
  PROVE  <<f>> \in FramesOf(seq) /\ (f.type # "ack" => <<f>> \in News(seq))
BY DEF FramesOf, News

\* The notice of a reload: a frame of the same version for each prim it names.
LEMMA ReloadFrames ==
  ASSUME NEW S \in SUBSET FilePrims, NEW seq \in Nat, StageTypes
  PROVE  ForEach([p \in S |-> Xform(p, file[p], seq)]) \in News(seq)
<1>1. Listed(S) \in [1 .. Cardinality(S) -> S] /\ Cardinality(S) \in Nat
  BY ListedIn, ProtocolAssumption
<1>2. \A p \in S : /\ Xform(p, file[p], seq) \in Frames
                   /\ Xform(p, file[p], seq).seq = seq /\ Xform(p, file[p], seq).type # "ack"
  <2>1. \A p \in S : p \in Prims /\ file[p] \in Values BY ProtocolAssumption DEF StageTypes
  <2> QED BY <2>1, XformFrame, Zenon
<1> DEFINE Moved(p) == Xform(p, file[p], seq)
<1>3. ForEach([p \in S |-> Moved(p)]) = [i \in 1 .. Cardinality(S) |-> Moved(Listed(S)[i])]
  <2> HIDE DEF Moved
  <2> QED BY <1>1 DEF ForEach
<1>4. [i \in 1 .. Cardinality(S) |-> Moved(Listed(S)[i])] \in News(seq)
  <2>1. \A p \in S : Moved(p) \in Frames /\ Moved(p).seq = seq /\ Moved(p).type # "ack" BY <1>2
  <2> HIDE DEF Moved
  <2> QED BY <1>1, <2>1 DEF FramesOf, News
<1> QED BY <1>3, <1>4

\* A snapshot is made of frames that all carry its version.
LEMMA SnapshotVersion ==
  ASSUME NEW seq \in Nat, StageTypes
  PROVE  SnapshotFrames(seq) \in News(seq)
<1>1. Creates(seq) \in News(seq)
  <2> DEFINE S == {p \in Prims : layer[p].def}
  <2>1. Listed(S) \in [1 .. Cardinality(S) -> S] /\ Cardinality(S) \in Nat
    BY ListedIn, Zenon
  <2>2. \A p \in S : /\ Created(p, seq) \in Frames
                     /\ Created(p, seq).seq = seq /\ Created(p, seq).type # "ack"
    BY CreatedFrame, Zenon
  <2>3. Creates(seq) = [i \in 1 .. Cardinality(S) |-> Created(Listed(S)[i], seq)]
    BY <2>1 DEF Creates, ForEach
  <2> HIDE DEF S
  <2> QED BY <2>1, <2>2, <2>3 DEF FramesOf, News
<1>2. Transforms(seq) \in News(seq)
  <2> DEFINE Read(p) == ReadAuthoredLocalTransform(layer[p])
             S == {p \in Prims : Read(p) # None}
  <2>1. Listed(S) \in [1 .. Cardinality(S) -> S] /\ Cardinality(S) \in Nat
    BY ListedIn, Zenon
  <2>2. \A p \in S : Read(p) \in Values
    BY DEF ReadAuthoredLocalTransform, StageTypes, Specs
  <2>3. \A p \in S : /\ Xform(p, Read(p), seq) \in Frames
                     /\ Xform(p, Read(p), seq).seq = seq /\ Xform(p, Read(p), seq).type # "ack"
    <3> HIDE DEF Read
    <3> QED BY <2>2, XformFrame, Zenon
  <2>4. Transforms(seq) = [i \in 1 .. Cardinality(S) |-> Xform(Listed(S)[i], Read(Listed(S)[i]), seq)]
    BY <2>1 DEF Transforms, ForEach
  <2> HIDE DEF S
  <2> QED BY <2>1, <2>3, <2>4 DEF FramesOf, News
<1>3. Deletes(seq) \in News(seq)
  <2> DEFINE S == {p \in Prims : layer[p].active = FALSE}
  <2>1. Listed(S) \in [1 .. Cardinality(S) -> S] /\ Cardinality(S) \in Nat
    BY ListedIn, Zenon
  <2> DEFINE Deleted(p) == ActiveIs(p, FALSE, seq)
  <2>2. \A p \in S : /\ Deleted(p) \in Frames
                     /\ Deleted(p).seq = seq /\ Deleted(p).type # "ack" BY ActiveFrame, Zenon
  <2>3. Deletes(seq) = [i \in 1 .. Cardinality(S) |-> Deleted(Listed(S)[i])]
    BY <2>1 DEF Deletes, ForEach
  <2> HIDE DEF S, Deleted
  <2> QED BY <2>1, <2>2, <2>3 DEF FramesOf, News
<1>4. <<SnapshotComplete(seq)>> \in News(seq) BY OneFrame, CompleteFrame
<1> QED BY <1>1, <1>2, <1>3, <1>4, NewsJoined DEF SnapshotFrames
-----------------------------------------------------------------------------
(* The versions. *)

\* A change leaves what was sent alone.
LEMMA ChangeRecorded ==
  ASSUME NEW v \in VersionRecords, NEW p \in Prims, NEW seq \in Nat,
         NEW writer \in Connections \cup {Server}
  PROVE  /\ RecordChange(v, p, seq, writer) \in VersionRecords
         /\ RecordChange(v, p, seq, writer).max_sent_seq = v.max_sent_seq
<1>1. CASE StartsRun(v, p, writer) BY <1>1, Zenon DEF RecordChange, VersionRecords
<1>2. CASE ~StartsRun(v, p, writer) BY <1>2, Zenon DEF RecordChange, VersionRecords
<1> QED BY <1>1, <1>2

\* So do the changes of a reload.
LEMMA ChangesRecorded ==
  ASSUME NEW v \in VersionRecords, NEW S \in SUBSET Prims, NEW seq \in Nat
  PROVE  /\ RecordServerChanges(v, S, seq) \in VersionRecords
         /\ RecordServerChanges(v, S, seq).max_sent_seq = v.max_sent_seq
<1>1. RecordServerChanges(v, S, seq) \in VersionRecords BY Zenon DEF RecordServerChanges, VersionRecords
<1>2. RecordServerChanges(v, S, seq).max_sent_seq = v.max_sent_seq
  BY DEF RecordServerChanges, VersionRecords
<1> QED BY <1>1, <1>2

\* What is sent raises the newest version of those it is sent to, and only theirs.
LEMMA SendingRecorded ==
  ASSUME NEW v \in VersionRecords, NEW to \in SUBSET Connections, NEW seq \in Nat
  PROVE  /\ SentTo(v, to, seq) \in VersionRecords
         /\ \A c \in Connections : SentTo(v, to, seq).max_sent_seq[c] =
              IF c \in to THEN Larger(v.max_sent_seq[c], seq) ELSE v.max_sent_seq[c]
BY DEF SentTo, VersionRecords, Larger

\* The same for a message to one connection.
LEMMA OneRecorded ==
  ASSUME NEW v \in VersionRecords, NEW d \in Connections, NEW seq \in Nat
  PROVE  /\ RecordSent(v, d, seq) \in VersionRecords
         /\ \A c \in Connections : RecordSent(v, d, seq).max_sent_seq[c] =
              IF c = d THEN Larger(v.max_sent_seq[c], seq) ELSE v.max_sent_seq[c]
BY Zenon DEF RecordSent, VersionRecords, Larger

\* The same for a correction.
LEMMA CorrectionRecorded ==
  ASSUME NEW v \in VersionRecords, NEW d \in Connections, NEW p \in Prims, NEW seq \in Nat
  PROVE  /\ RecordCorrection(v, d, p, seq) \in VersionRecords
         /\ \A c \in Connections : RecordCorrection(v, d, p, seq).max_sent_seq[c] =
              IF c = d THEN Larger(v.max_sent_seq[c], seq) ELSE v.max_sent_seq[c]
BY Zenon DEF RecordCorrection, VersionRecords, Larger
-----------------------------------------------------------------------------
(* What the consumer sends. *)

\* Frames of a version no older than the session's, delivered and recorded.
LEMMA Delivered ==
  ASSUME TypeOK, SeqInv, server_seq' \in Nat,
         NEW seq \in Nat, server_seq <= seq, seq <= server_seq',
         NEW to \in SUBSET Connections, NEW frames \in FramesOf(seq), Deliver(to, frames),
         \A c \in Connections :
           MaxSent(c)' = IF c \in to THEN Larger(MaxSent(c), seq) ELSE MaxSent(c)
  PROVE  /\ Sent
         /\ \A c \in Connections : Keeps(c) \/ (c \in to /\ Gets(c, frames, seq))
<1>1. out \in [Connections -> Seq(Frames)] BY DEF TypeOK, ClientTypes
<1>2. frames \in Seq(Frames) BY DEF FramesOf
<1>3. Sent BY <1>1, <1>2 DEF Deliver, Sent
<1>4. ASSUME NEW c \in Connections PROVE Keeps(c) \/ (c \in to /\ Gets(c, frames, seq))
  <2>1. out'[c] = IF c \in to THEN out[c] \o frames ELSE out[c] BY <1>1 DEF Deliver
  <2>2. MaxSent(c) \in Nat BY DEF TypeOK, SeqTypes, VersionRecords, MaxSent
  <2>3. MaxSent(c) <= server_seq /\ server_seq \in Nat BY DEF SeqInv, TypeOK, SeqTypes
  <2>4. MaxSent(c) <= seq BY <2>2, <2>3
  <2>5. Larger(MaxSent(c), seq) = seq BY <2>2, <2>4 DEF Larger
  <2>6. CASE c \in to BY <2>1, <2>4, <2>5, <2>6 DEF Gets
  <2>7. CASE c \notin to BY <2>1, <2>7 DEF Keeps
  <2> QED BY <2>6, <2>7
<1> QED BY <1>3, <1>4

\* A part of a handler that leaves versions and connections alone.
LEMMA NothingTold ==
  ASSUME TypeOK, UNCHANGED <<server_seq, versions, out>>
  PROVE  Tells
<1>1. SeqTypes' BY DEF TypeOK, SeqTypes
<1>2. Sent BY DEF TypeOK, ClientTypes, Sent
<1>3. server_seq <= server_seq' BY DEF TypeOK, SeqTypes
<1>4. \A c \in Connections : Keeps(c) BY DEF Keeps, MaxSent
<1> QED BY <1>1, <1>2, <1>3, <1>4 DEF Tells

\* The next version, recorded and told to some connections.
LEMMA NextVersionTold ==
  ASSUME TypeOK, SeqInv, server_seq' = server_seq + 1,
         NEW v \in VersionRecords, v.max_sent_seq = versions.max_sent_seq,
         NEW to \in SUBSET Connections, versions' = SentTo(v, to, server_seq + 1),
         NEW frames \in News(server_seq + 1), Deliver(to, frames)
  PROVE  Tells
<1>1. server_seq \in Nat /\ server_seq + 1 \in Nat /\ server_seq <= server_seq + 1
  BY DEF TypeOK, SeqTypes
<1>2. /\ versions' \in VersionRecords
      /\ \A c \in Connections : versions'.max_sent_seq[c] =
           IF c \in to THEN Larger(v.max_sent_seq[c], server_seq + 1) ELSE v.max_sent_seq[c]
  BY <1>1, SendingRecorded
<1>3. \A c \in Connections :
        MaxSent(c)' = IF c \in to THEN Larger(MaxSent(c), server_seq + 1) ELSE MaxSent(c)
  BY <1>2 DEF MaxSent
<1>4. frames \in FramesOf(server_seq + 1) BY DEF News
<1>5. /\ Sent
      /\ \A c \in Connections : Keeps(c) \/ (c \in to /\ Gets(c, frames, server_seq + 1))
  BY <1>1, <1>3, <1>4, Delivered
<1>6. SeqTypes' BY <1>1, <1>2 DEF SeqTypes
<1> QED BY <1>1, <1>5, <1>6 DEF Tells

\* The notice of a transform.
LEMMA NoticeTold ==
  ASSUME TypeOK, SeqInv, NEW p \in Prims, NEW value \in Values, NEW origin \in Connections,
         OnObjectsChanged(p, value, origin)
  PROVE  Tells
<1> DEFINE seq == server_seq + 1
           v == RecordChange(versions, p, seq, origin)
<1>1. seq \in Nat /\ versions \in VersionRecords /\ clients \in SUBSET Connections
  BY DEF TypeOK, SeqTypes, ClientTypes
<1>2. v \in VersionRecords /\ v.max_sent_seq = versions.max_sent_seq
  BY <1>1, ChangeRecorded
<1>3. <<Xform(p, value, seq)>> \in News(seq) BY <1>1, XformFrame, OneFrame
<1>4. /\ server_seq' = seq /\ versions' = SentTo(v, clients \ {origin}, seq)
      /\ Deliver(clients \ {origin}, <<Xform(p, value, seq)>>)
  BY DEF OnObjectsChanged
<1>5. clients \ {origin} \in SUBSET Connections BY <1>1
<1> HIDE DEF v
<1> QED BY <1>2, <1>3, <1>4, <1>5, NextVersionTold, Zenon

\* A change that is announced to everybody.
LEMMA AnnouncementTold ==
  ASSUME TypeOK, SeqInv, NEW p \in Prims, NEW origin \in Connections,
         NEW frame \in Frames, frame.seq = server_seq + 1, frame.type # "ack",
         BroadcastToAll(p, origin, frame)
  PROVE  Tells
<1> DEFINE seq == server_seq + 1
           v == RecordChange(versions, p, seq, origin)
<1>1. seq \in Nat /\ versions \in VersionRecords /\ clients \in SUBSET Connections
  BY DEF TypeOK, SeqTypes, ClientTypes
<1>2. v \in VersionRecords /\ v.max_sent_seq = versions.max_sent_seq
  BY <1>1, ChangeRecorded
<1>3. <<frame>> \in News(seq) BY <1>1, OneFrame
<1>4. server_seq' = seq /\ versions' = SentTo(v, clients, seq) /\ Deliver(clients, <<frame>>)
  BY DEF BroadcastToAll
<1> HIDE DEF v
<1> QED BY <1>1, <1>2, <1>3, <1>4, NextVersionTold

\* The notice of a reload.
LEMMA ReloadTold ==
  ASSUME TypeOK, SeqInv, NEW S \in SUBSET FilePrims, OnReloaded(S)
  PROVE  Tells
<1> DEFINE seq == server_seq + 1
           v == RecordServerChanges(versions, Unmasked(S), seq)
           frames == ForEach([p \in Unmasked(S) |-> Xform(p, file[p], seq)])
<1>1. seq \in Nat /\ versions \in VersionRecords /\ clients \in SUBSET Connections
  BY DEF TypeOK, SeqTypes, ClientTypes
<1>2. Unmasked(S) \in SUBSET FilePrims /\ Unmasked(S) \in SUBSET Prims
  BY ProtocolAssumption DEF Unmasked
<1>3. server_seq' = seq BY DEF OnReloaded
<1>4. CASE UNCHANGED <<versions, out>>
  <2>1. SeqTypes' BY <1>1, <1>3, <1>4 DEF SeqTypes
  <2>2. Sent BY <1>4 DEF TypeOK, ClientTypes, Sent
  <2>3. server_seq <= server_seq' BY <1>3 DEF TypeOK, SeqTypes
  <2>4. \A c \in Connections : Keeps(c) BY <1>4 DEF Keeps, MaxSent
  <2> QED BY <2>1, <2>2, <2>3, <2>4 DEF Tells
<1>5. CASE versions' = SentTo(v, clients, seq) /\ Deliver(clients, frames)
  <2>1. v \in VersionRecords /\ v.max_sent_seq = versions.max_sent_seq
    BY <1>1, <1>2, ChangesRecorded
  <2>2. frames \in News(seq) BY <1>1, <1>2, ReloadFrames, Zenon DEF TypeOK
  <2> HIDE DEF v, frames
  <2> QED BY <1>1, <1>3, <1>5, <2>1, <2>2, NextVersionTold
<1> QED BY <1>4, <1>5 DEF OnReloaded
-----------------------------------------------------------------------------
(* The three ways a command is handled. *)

\* The answers of the check of a base version.
LEMMA Checked ==
  ASSUME TypeOK, NEW c \in Connections, NEW p \in Prims, NEW b \in Nat
  PROVE  /\ CheckUpdate(versions, c, p, b) \in Answers \cup {"Current"}
         /\ CheckUpdate(versions, c, p, b) = "InvalidBase" => b > MaxSent(c)
BY DEF CheckUpdate, MaxSent, Answers

\* A transform is answered, and tells of the stage.
LEMMA TransformHandled ==
  ASSUME TypeOK, SeqInv, NEW m \in Commands, m.kind = "update", HandleTransform(m)
  PROVE  /\ Tells /\ layer' \in [Prims -> Specs]
         /\ \E answer \in Answers :
              /\ answer = "InvalidBase" => m.base > MaxSent(m.origin)
              /\ \/ todo' = <<AckLater(m, answer)>>
                 \/ \E p \in Prims : todo' = <<AckLater(m, answer), Correct(m.origin, p)>>
<1>1. /\ m.origin \in Connections /\ m.prim \in Prims /\ m.shape \in Shapes
      /\ m.value \in Values /\ m.base \in Nat
  BY CommandParts DEF Kinds
<1>2. layer \in [Prims -> Specs] BY DEF TypeOK, StageTypes
<1> DEFINE checked == CheckUpdate(versions, m.origin, m.prim, m.base)
<1>3. checked \in Answers \cup {"Current"} /\ (checked = "InvalidBase" => m.base > MaxSent(m.origin))
  BY <1>1, Checked
<1>4. CASE /\ checked # "Current" /\ todo' = <<AckLater(m, checked)>>
           /\ UNCHANGED <<layer, server_seq, versions, out>>
  <2> HIDE DEF checked
  <2>1. Tells BY <1>4, NothingTold
  <2> QED BY <1>2, <1>3, <1>4, <2>1
<1>5. CASE /\ layer' = [layer EXCEPT ![m.prim] = Apply(@, m.shape, m.value)]
           /\ OnObjectsChanged(m.prim, m.value, m.origin)
           /\ todo' = <<AckLater(m, "ok")>>
  <2>1. Tells BY <1>1, <1>5, NoticeTold
  <2>2. layer' \in [Prims -> Specs] BY <1>1, <1>2, <1>5, SpecsKept
  <2>3. "ok" \in Answers /\ "ok" # "InvalidBase" BY DEF Answers
  <2> QED BY <1>5, <2>1, <2>2, <2>3
<1>6. CASE /\ todo' = <<AckLater(m, "apply_failed"), Correct(m.origin, m.prim)>>
           /\ UNCHANGED <<layer, server_seq, versions, out>>
  <2>1. Tells BY <1>6, NothingTold
  <2>2. "apply_failed" \in Answers /\ "apply_failed" # "InvalidBase" BY DEF Answers
  <2> QED BY <1>1, <1>2, <1>6, <2>1, <2>2
<1> QED BY <1>4, <1>5, <1>6 DEF HandleTransform, Correct

\* So is the creation of a prim.
LEMMA CreateHandled ==
  ASSUME TypeOK, SeqInv, NEW m \in Commands, m.kind = "create", HandleCreate(m)
  PROVE  /\ Tells /\ layer' \in [Prims -> Specs]
         /\ \E answer \in Answers \ {"InvalidBase"} : todo' = <<AckLater(m, answer)>>
<1>1. m.origin \in Connections BY CommandParts DEF Kinds
<1>2. layer \in [Prims -> Specs] BY DEF TypeOK, StageTypes
<1>3. CASE \E p \in Prims : /\ layer' = [layer EXCEPT ![p] = DefinePrim(@)]
                            /\ BroadcastToAll(p, m.origin, Created(p, server_seq + 1))
                            /\ todo' = <<AckLater(m, "ok")>>
  <2>1. PICK p \in Prims : /\ layer' = [layer EXCEPT ![p] = DefinePrim(@)]
                           /\ BroadcastToAll(p, m.origin, Created(p, server_seq + 1))
                           /\ todo' = <<AckLater(m, "ok")>>
    BY <1>3, Zenon
  <2>2. server_seq + 1 \in Nat BY DEF TypeOK, SeqTypes
  <2>3. Tells BY <1>1, <2>1, <2>2, CreatedFrame, AnnouncementTold
  <2>4. layer' \in [Prims -> Specs] BY <1>2, <2>1, SpecsKept
  <2>5. "ok" \in Answers \ {"InvalidBase"} BY DEF Answers
  <2> QED BY <2>1, <2>3, <2>4, <2>5
<1>4. CASE /\ todo' = <<AckLater(m, "invalid_parent")>>
           /\ UNCHANGED <<layer, server_seq, versions, out>>
  <2>1. Tells BY <1>4, NothingTold
  <2>2. "invalid_parent" \in Answers \ {"InvalidBase"} BY DEF Answers
  <2> QED BY <1>2, <1>4, <2>1, <2>2
<1> QED BY <1>3, <1>4 DEF HandleCreate

\* So is a soft delete or its undo.
LEMMA SetActiveHandled ==
  ASSUME TypeOK, SeqInv, NEW m \in Commands, m.kind = "active", HandleSetActive(m)
  PROVE  /\ Tells /\ layer' \in [Prims -> Specs]
         /\ \E answer \in Answers \ {"InvalidBase"} : todo' = <<AckLater(m, answer)>>
<1>1. m.origin \in Connections /\ m.prim \in Prims /\ m.active \in BOOLEAN
  BY CommandParts DEF Kinds
<1>2. layer \in [Prims -> Specs] BY DEF TypeOK, StageTypes
<1>3. "ok" \in Answers \ {"InvalidBase"} /\ "failed" \in Answers \ {"InvalidBase"} BY DEF Answers
<1>4. CASE /\ layer' = [layer EXCEPT ![m.prim] = SetActive(@, m.active)]
           /\ BroadcastToAll(m.prim, m.origin, ActiveIs(m.prim, m.active, server_seq + 1))
           /\ todo' = <<AckLater(m, "ok")>>
  <2> DEFINE frame == ActiveIs(m.prim, m.active, server_seq + 1)
  <2>1. server_seq + 1 \in Nat BY DEF TypeOK, SeqTypes
  <2>2. frame \in Frames /\ frame.seq = server_seq + 1 /\ frame.type = "active"
    BY <1>1, <2>1, ActiveFrame, Zenon
  <2>3. BroadcastToAll(m.prim, m.origin, frame) BY <1>4
  <2> HIDE DEF frame
  <2>4. Tells BY <1>1, <2>2, <2>3, AnnouncementTold
  <2>5. SetActive(layer[m.prim], m.active) \in Specs BY <1>1, <1>2, SpecsKept, Zenon
  <2>6. layer' \in [Prims -> Specs] BY <1>1, <1>2, <1>4, <2>5
  <2> QED BY <1>3, <1>4, <2>4, <2>6
<1>5. CASE /\ \E answer \in {"ok", "failed"} : todo' = <<AckLater(m, answer)>>
           /\ UNCHANGED <<layer, server_seq, versions, out>>
  <2>1. Tells BY <1>5, NothingTold
  <2> QED BY <1>2, <1>3, <1>5, <2>1
<1> QED BY <1>4, <1>5 DEF HandleSetActive

\* A command is handled in one of the three ways, and tells of the stage.
LEMMA Handling ==
  ASSUME TypeOK, SeqInv, Handle
  PROVE  /\ Tells /\ StageTypes'
         /\ HandlesRequest \/ HandlesOther \/ HandlesCorrection
<1>1. /\ root \in [FilePrims -> Values] /\ file \in [FilePrims -> Values]
      /\ layer \in [Prims -> Specs] /\ mailbox \in Seq(Commands) /\ priority \in Seq(Corrections)
  BY DEF TypeOK, StageTypes, QueueTypes
<1>2. UNCHANGED disk BY DEF Handle
<1>3. ASSUME layer' \in [Prims -> Specs], root' \in [FilePrims -> Values] PROVE StageTypes'
  BY <1>2, <1>3 DEF TypeOK, StageTypes, disk
<1>4. CASE mailbox # <<>> /\ mailbox' = Tail(mailbox) /\ UNCHANGED <<priority, queued>>
  <2> DEFINE m == Head(mailbox)
  <2>1. m \in Commands BY <1>1, <1>4
  <2>2. CASE m.kind = "update" /\ HandleTransform(m) /\ UNCHANGED root
    <3>1. m \in Requests BY <2>1, <2>2, CommandParts DEF Kinds
    <3>2. /\ Tells /\ layer' \in [Prims -> Specs]
          /\ \E answer \in Answers :
              /\ answer = "InvalidBase" => m.base > MaxSent(m.origin)
              /\ \/ todo' = <<AckLater(m, answer)>>
                 \/ \E p \in Prims : todo' = <<AckLater(m, answer), Correct(m.origin, p)>>
      BY <2>1, <2>2, TransformHandled
    <3>3. HandlesRequest BY <1>4, <2>2, <3>1, <3>2 DEF HandlesRequest
    <3> QED BY <1>1, <1>3, <2>2, <3>2, <3>3
  <2>3. CASE m.kind = "create" /\ HandleCreate(m) /\ UNCHANGED root
    <3>1. m \in Requests BY <2>1, <2>3, CommandParts DEF Kinds
    <3>2. /\ Tells /\ layer' \in [Prims -> Specs]
          /\ \E answer \in Answers \ {"InvalidBase"} : todo' = <<AckLater(m, answer)>>
      BY <2>1, <2>3, CreateHandled
    <3>3. HandlesRequest BY <1>4, <3>1, <3>2 DEF HandlesRequest
    <3> QED BY <1>1, <1>3, <2>3, <3>2, <3>3
  <2>4. CASE m.kind = "active" /\ HandleSetActive(m) /\ UNCHANGED root
    <3>1. m \in Requests BY <2>1, <2>4, CommandParts DEF Kinds
    <3>2. /\ Tells /\ layer' \in [Prims -> Specs]
          /\ \E answer \in Answers \ {"InvalidBase"} : todo' = <<AckLater(m, answer)>>
      BY <2>1, <2>4, SetActiveHandled
    <3>3. HandlesRequest BY <1>4, <3>1, <3>2 DEF HandlesRequest
    <3> QED BY <1>1, <1>3, <2>4, <3>2, <3>3
  <2>5. CASE m.kind = "join" /\ HandleJoin(m) /\ UNCHANGED root
    <3>1. m.origin \in Connections BY <2>1, <2>5, CommandParts
    <3>2. m \notin Requests BY <2>5, RequestParts DEF Kinds
    <3>3. todo' = <<Snapshot(m.origin)>> /\ UNCHANGED <<layer, server_seq, versions, out>>
      BY <2>5 DEF HandleJoin, Snapshot
    <3>4. Tells BY <3>3, NothingTold
    <3>5. HandlesOther BY <1>4, <3>1, <3>2, <3>3 DEF HandlesOther
    <3> QED BY <1>1, <1>3, <2>5, <3>3, <3>4, <3>5
  <2>6. CASE m.kind = "reload" /\ HandleReload
    <3>1. m \notin Requests BY <2>6, RequestParts DEF Kinds
    <3>2. todo' = <<>> /\ root' \in {root, file} /\ layer' = layer BY <2>6 DEF HandleReload
    <3>3. \/ UNCHANGED <<server_seq, versions, out>>
          \/ \E S \in SUBSET FilePrims : S # {} /\ OnReloaded(S)
      BY <2>6 DEF HandleReload
    <3>4. Tells BY <3>3, NothingTold, ReloadTold
    <3>5. HandlesOther BY <1>4, <3>1, <3>2 DEF HandlesOther
    <3> QED BY <1>1, <1>3, <3>2, <3>4, <3>5
  <2>7. \/ m.kind = "update" /\ HandleTransform(m) /\ UNCHANGED root
        \/ m.kind = "create" /\ HandleCreate(m) /\ UNCHANGED root
        \/ m.kind = "active" /\ HandleSetActive(m) /\ UNCHANGED root
        \/ m.kind = "join" /\ HandleJoin(m) /\ UNCHANGED root
        \/ m.kind = "reload" /\ HandleReload
        \/ priority # <<>> /\ priority' = Tail(priority)
    BY DEF Handle
  <2>8. ~(priority # <<>> /\ priority' = Tail(priority)) BY <1>1, <1>4
  <2> QED BY <2>2, <2>3, <2>4, <2>5, <2>6, <2>7, <2>8
<1>5. CASE /\ priority # <<>> /\ priority' = Tail(priority)
           /\ HandleCorrection(Head(priority)) /\ UNCHANGED <<mailbox, root>>
  <2>1. /\ UNCHANGED <<layer, server_seq, versions, out>>
        /\ queued' = queued \ {<<Head(priority).origin, Head(priority).prim>>}
        /\ todo' = <<Correct(Head(priority).origin, Head(priority).prim)>>
    BY <1>5 DEF HandleCorrection, Correct
  <2>2. HandlesCorrection BY <1>5, <2>1 DEF HandlesCorrection
  <2>3. Tells BY <2>1, NothingTold
  <2> QED BY <1>1, <1>3, <1>5, <2>1, <2>2, <2>3
<1> QED BY <1>4, <1>5 DEF Handle
-----------------------------------------------------------------------------
(* The rest of a handler. *)

\* The rest of a handler sends an Ack or tells of the stage.
LEMMA Continuing ==
  ASSUME TypeOK, SeqInv, TodoInv, Continue
  PROVE  /\ todo # <<>> /\ Head(todo) \in Steps /\ todo' = Tail(todo)
         /\ Acks \/ (Head(todo).op # "ack" /\ Tells)
<1> DEFINE step == Head(todo)
           d == step.to
<1>1. todo \in Seq(Steps) /\ todo # <<>> /\ todo' = Tail(todo)
  BY DEF TypeOK, QueueTypes, Continue
<1>2. step \in Steps /\ 1 \in DOMAIN todo /\ step = todo[1] BY <1>1
<1>3. d \in Connections BY <1>2, StepParts
<1>4. server_seq \in Nat /\ versions \in VersionRecords /\ {d} \in SUBSET Connections
  BY <1>3 DEF TypeOK, SeqTypes
<1>5. CASE step.op = "ack" /\ SendAck(step)
  <2> DEFINE frame == Ack(step.id, server_seq, step.answer)
  <2>1. step.id \in Ids /\ step.answer \in Answers BY <1>2, <1>5, StepParts
  <2>2. frame \in Frames /\ frame.seq = server_seq BY <1>4, <2>1, AckFrame
  <2>3. <<frame>> \in FramesOf(server_seq) BY <1>4, <2>2, OneFrame
  <2>4. CASE d \in clients
    <3>1. Deliver({d}, <<frame>>) /\ versions' = RecordSent(versions, d, server_seq)
          /\ server_seq' = server_seq
      BY <1>5, <2>4 DEF SendAck
    <3> HIDE DEF frame
    <3>2. /\ versions' \in VersionRecords
          /\ \A c \in Connections : versions'.max_sent_seq[c] =
               IF c = d THEN Larger(versions.max_sent_seq[c], server_seq) ELSE versions.max_sent_seq[c]
      BY <1>3, <1>4, <3>1, OneRecorded
    <3>3. \A c \in Connections :
            MaxSent(c)' = IF c \in {d} THEN Larger(MaxSent(c), server_seq) ELSE MaxSent(c)
      BY <3>2 DEF MaxSent
    <3>4. server_seq <= server_seq /\ server_seq <= server_seq' /\ server_seq' \in Nat BY <1>4, <3>1
    <3>5. /\ Sent
          /\ \A c \in Connections : Keeps(c) \/ (c \in {d} /\ Gets(c, <<frame>>, server_seq))
      BY <1>4, <2>3, <3>1, <3>3, <3>4, Delivered
    <3>6. SeqTypes' BY <1>4, <3>1, <3>2 DEF SeqTypes
    <3>7. Gets(d, <<frame>>, server_seq)
      <4>1. out[d] \in Seq(Frames) BY <1>3 DEF TypeOK, ClientTypes
      <4>2. out'[d] = out[d] \o <<frame>> BY <1>3, <3>1, Zenon DEF Deliver, TypeOK, ClientTypes
      <4>3. out'[d] # out[d] BY <4>1, <4>2, <2>2
      <4> QED BY <1>3, <3>5, <4>3 DEF Keeps
    <3> QED BY <1>1, <1>2, <1>3, <1>5, <2>4, <3>1, <3>5, <3>6, <3>7 DEF Acks, frame
  <2>5. CASE d \notin clients
    <3>1. UNCHANGED <<server_seq, versions, out>> BY <1>5, <2>5 DEF SendAck
    <3>2. SeqTypes' /\ Sent BY <3>1 DEF TypeOK, SeqTypes, ClientTypes, Sent
    <3>3. \A c \in Connections : Keeps(c) BY <3>1 DEF Keeps, MaxSent
    <3> QED BY <1>1, <1>2, <1>3, <1>5, <2>5, <3>1, <3>2, <3>3 DEF Acks
  <2> QED BY <2>4, <2>5
<1>6. CASE step.op = "correct" /\ SendCorrection(step)
  <2> DEFINE seq == server_seq + 1
             frame == IF Active(step.prim) THEN Xform(step.prim, Resolved(step.prim), seq)
                                           ELSE ActiveIs(step.prim, FALSE, seq)
  <2>1. step.prim \in Prims /\ seq \in Nat /\ server_seq <= seq /\ seq <= seq
    BY <1>2, <1>4, <1>6, StepParts
  <2>2. frame \in Frames /\ frame.seq = seq /\ frame.type # "ack"
    <3>1. Resolved(step.prim) \in Values BY <2>1, ResolvedValue DEF TypeOK
    <3>2. CASE Active(step.prim) BY <2>1, <3>1, <3>2, XformFrame
    <3>3. CASE ~Active(step.prim) BY <2>1, <3>3, ActiveFrame, Zenon
    <3> QED BY <3>2, <3>3, Zenon
  <2> HIDE DEF frame
  <2>3. <<frame>> \in News(seq) /\ <<frame>> \in FramesOf(seq) BY <2>1, <2>2, OneFrame
  <2>4. CASE UNCHANGED <<server_seq, versions, out>>
    BY <1>1, <1>2, <1>6, <2>4, NothingTold
  <2>5. CASE /\ server_seq' = seq /\ versions' = RecordCorrection(versions, d, step.prim, seq)
             /\ Deliver({d}, <<frame>>)
    <3>1. /\ versions' \in VersionRecords
          /\ \A c \in Connections : versions'.max_sent_seq[c] =
               IF c = d THEN Larger(versions.max_sent_seq[c], seq) ELSE versions.max_sent_seq[c]
      BY <1>3, <1>4, <2>1, <2>5, CorrectionRecorded
    <3>2. \A c \in Connections :
            MaxSent(c)' = IF c \in {d} THEN Larger(MaxSent(c), seq) ELSE MaxSent(c)
      BY <3>1 DEF MaxSent
    <3>3. /\ Sent
          /\ \A c \in Connections : Keeps(c) \/ (c \in {d} /\ Gets(c, <<frame>>, seq))
      BY <1>4, <2>1, <2>3, <2>5, <3>2, Delivered
    <3>4. SeqTypes' /\ server_seq <= server_seq' BY <1>4, <2>1, <2>5, <3>1 DEF SeqTypes
    <3>5. Tells BY <2>1, <2>3, <3>3, <3>4 DEF Tells
    <3> QED BY <1>1, <1>2, <1>6, <3>5
  <2> QED BY <1>6, <2>4, <2>5 DEF SendCorrection, frame
<1>7. CASE step.op = "snapshot" /\ SendSnapshot(step)
  <2>1. step.seq = server_seq /\ step.frames \in News(server_seq) BY <1>2, <1>7 DEF TodoInv
  <2>2. step.frames \in FramesOf(server_seq) BY <2>1 DEF News
  <2>3. CASE d \in clients
    <3>1. Deliver({d}, step.frames) /\ versions' = RecordSent(versions, d, server_seq)
          /\ server_seq' = server_seq
      BY <1>7, <2>1, <2>3 DEF SendSnapshot
    <3>2. /\ versions' \in VersionRecords
          /\ \A c \in Connections : versions'.max_sent_seq[c] =
               IF c = d THEN Larger(versions.max_sent_seq[c], server_seq) ELSE versions.max_sent_seq[c]
      BY <1>3, <1>4, <3>1, OneRecorded
    <3>3. \A c \in Connections :
            MaxSent(c)' = IF c \in {d} THEN Larger(MaxSent(c), server_seq) ELSE MaxSent(c)
      BY <3>2 DEF MaxSent
    <3>4. server_seq <= server_seq /\ server_seq <= server_seq' /\ server_seq' \in Nat BY <1>4, <3>1
    <3>5. /\ Sent
          /\ \A c \in Connections : Keeps(c) \/ (c \in {d} /\ Gets(c, step.frames, server_seq))
      BY <1>4, <2>2, <3>1, <3>3, <3>4, Delivered
    <3>6. SeqTypes' BY <1>4, <3>1, <3>2 DEF SeqTypes
    <3>7. Tells BY <1>4, <2>1, <3>4, <3>5, <3>6 DEF Tells
    <3> QED BY <1>1, <1>2, <1>7, <3>7
  <2>4. CASE d \notin clients
    <3>1. UNCHANGED <<server_seq, versions, out>> BY <1>7, <2>4 DEF SendSnapshot
    <3> QED BY <1>1, <1>2, <1>7, <3>1, NothingTold
  <2> QED BY <2>3, <2>4
<1> QED BY <1>5, <1>6, <1>7 DEF Continue
-----------------------------------------------------------------------------
(* The types. *)

\* Which actions change what.
LEMMA Framed ==
  ASSUME [Next]_vars
  PROVE  /\ Handle \/ Upload \/ SubmitReload \/ Teardown \/ UNCHANGED <<disk, stage>>
         /\ Handle \/ Continue \/ UNCHANGED <<seqs, todo>>
         /\ \/ Handle \/ SubmitReload \/ UNCHANGED mailbox
            \/ \E c \in Connections : OnMessage(c) \/ IoStep(c)
         /\ Handle \/ UNCHANGED <<priority, queued>> \/ \E c \in Connections : IoStep(c)
         /\ UNCHANGED io \/ \E c \in Connections : OnOpen(c) \/ OnMessage(c) \/ IoStep(c)
         /\ UNCHANGED clients \/ \E c \in Connections : OnOpen(c) \/ OnClose(c)
         /\ UNCHANGED admitting \/ Destroy
         /\ UNCHANGED status \/ \E c \in Connections : OnOpen(c) \/ IoStep(c) \/ OnClose(c)
         /\ \/ Handle \/ Continue \/ UNCHANGED out
            \/ \E c \in Connections : IoStep(c) \/ OnClose(c) \/ Receive(c)
         /\ \/ UNCHANGED in
            \/ \E c \in Connections :
                 OnMessage(c) \/ OnClose(c) \/ SendUpdate(c) \/ SendSetActive(c) \/ SendCreate(c)
         /\ \/ UNCHANGED <<sent, shown, awaiting>>
            \/ \E c \in Connections :
                 SendUpdate(c) \/ SendSetActive(c) \/ SendCreate(c) \/ Receive(c)
         /\ UNCHANGED <<base, ready>> \/ \E c \in Connections : Receive(c)
<1>1. CASE Handle BY <1>1, Zenon DEF Handle, client, view
<1>2. CASE Continue BY <1>2, Zenon DEF Continue, client, view, queues
<1>3. CASE Upload BY <1>3, Zenon DEF Upload, client, view, queues
<1>4. CASE SubmitReload BY <1>4, Zenon DEF SubmitReload, client, view
<1>5. CASE Destroy BY <1>5, Zenon DEF Destroy, client, view, queues
<1>6. CASE Teardown BY <1>6, Zenon DEF Teardown, client, view, queues
<1>7. ASSUME NEW c \in Connections, OnOpen(c) \/ OnMessage(c) \/ IoStep(c) \/ OnClose(c)
      PROVE  /\ UNCHANGED <<disk, stage, seqs, todo, admitting, sent, shown, awaiting, base, ready>>
             /\ OnOpen(c) \/ OnClose(c) \/ UNCHANGED clients
             /\ OnMessage(c) \/ IoStep(c) \/ UNCHANGED mailbox
             /\ IoStep(c) \/ UNCHANGED <<priority, queued>>
             /\ OnOpen(c) \/ OnMessage(c) \/ IoStep(c) \/ UNCHANGED io
             /\ OnOpen(c) \/ IoStep(c) \/ OnClose(c) \/ UNCHANGED status
             /\ IoStep(c) \/ OnClose(c) \/ UNCHANGED out
             /\ OnMessage(c) \/ OnClose(c) \/ UNCHANGED in
  <2>1. CASE OnOpen(c) BY <2>1, Zenon DEF OnOpen, queues, view
  <2>2. CASE OnMessage(c) BY <2>2, Zenon DEF OnMessage, client, view
  <2>3. CASE IoStep(c) BY <2>3, Zenon DEF IoStep, view
  <2>4. CASE OnClose(c) BY <2>4, Zenon DEF OnClose, queues, view
  <2> QED BY <1>7, <2>1, <2>2, <2>3, <2>4
<1>8. ASSUME NEW c \in Connections,
             SendUpdate(c) \/ SendSetActive(c) \/ SendCreate(c) \/ Receive(c)
      PROVE  /\ UNCHANGED <<server, io, status>>
             /\ Receive(c) \/ UNCHANGED <<out, base, ready>>
             /\ SendUpdate(c) \/ SendSetActive(c) \/ SendCreate(c) \/ UNCHANGED in
  <2>1. CASE SendUpdate(c) BY <2>1, Zenon DEF SendUpdate
  <2>2. CASE SendSetActive(c) BY <2>2, Zenon DEF SendSetActive
  <2>3. CASE SendCreate(c) BY <2>3, Zenon DEF SendCreate
  <2>4. CASE Receive(c) BY <2>4, Zenon DEF Receive
  <2> QED BY <1>8, <2>1, <2>2, <2>3, <2>4
<1>9. CASE \E c \in Connections : OnOpen(c) \/ OnMessage(c) \/ IoStep(c) \/ OnClose(c)
  BY <1>7, <1>9, Zenon
<1>10. CASE \E c \in Connections : SendUpdate(c) \/ SendSetActive(c) \/ SendCreate(c) \/ Receive(c)
  BY <1>8, <1>10, Zenon DEF server, queues
<1>11. CASE UNCHANGED vars BY <1>11, Zenon DEF vars, server, client, view, queues
<1> QED BY <1>1, <1>2, <1>3, <1>4, <1>5, <1>6, <1>9, <1>10, <1>11, Zenon DEF Next

\* Every step keeps the types of the stage.
LEMMA StageStep ==
  ASSUME TypeOK, SeqInv, [Next]_vars
  PROVE  StageTypes'
<1>1. StageTypes BY DEF TypeOK
<1>2. CASE Handle BY <1>2, Handling
<1>3. CASE Upload
  <2>1. PICK p \in FilePrims : file' = [file EXCEPT ![p] = <<"upload", uploads + 1>>]
    BY <1>3, Zenon DEF Upload
  <2>2. <<"upload", uploads + 1>> \in Values BY <1>1 DEF StageTypes, Values
  <2>3. file' \in [FilePrims -> Values] BY <1>1, <2>1, <2>2 DEF StageTypes
  <2>4. uploads' \in 0 .. MaxUploads /\ unsubmitted' \in 0 .. uploads'
    BY <1>1, <1>3, ProtocolAssumption DEF Upload, StageTypes
  <2>5. UNCHANGED <<root, layer>> BY <1>3 DEF Upload, stage
  <2> QED BY <1>1, <2>3, <2>4, <2>5 DEF StageTypes
<1>4. CASE SubmitReload
  <2>1. UNCHANGED <<file, uploads, root, layer>> BY <1>4 DEF SubmitReload, stage
  <2>2. unsubmitted' \in 0 .. uploads' BY <1>1, <1>4, <2>1, ProtocolAssumption DEF SubmitReload, StageTypes
  <2> QED BY <1>1, <2>1, <2>2 DEF StageTypes
<1>5. CASE Teardown
  <2>1. UNCHANGED <<file, uploads, unsubmitted, root>> BY <1>5 DEF Teardown, disk
  <2>2. layer' \in [Prims -> Specs] BY <1>5, SpecsKept DEF Teardown
  <2> QED BY <1>1, <2>1, <2>2 DEF StageTypes
<1>6. CASE UNCHANGED <<disk, stage>> BY <1>1, <1>6 DEF StageTypes, disk, stage
<1> QED BY <1>2, <1>3, <1>4, <1>5, <1>6, Framed

\* Every step keeps the types of the versions and of the frames under way, and versions
\* only go up.
LEMMA SeqStep ==
  ASSUME TypeOK, SeqInv, TodoInv, [Next]_vars
  PROVE  SeqTypes' /\ Sent /\ server_seq <= server_seq'
<1>1. SeqTypes /\ out \in [Connections -> Seq(Frames)] BY DEF TypeOK, ClientTypes
<1>2. CASE Handle BY <1>2, Handling DEF Tells
<1>3. CASE Continue
  <2>1. CASE Acks BY <1>1, <2>1 DEF Acks, SeqTypes
  <2>2. CASE Tells BY <2>2 DEF Tells
  <2> QED BY <1>3, <2>1, <2>2, Continuing
<1>4. CASE UNCHANGED seqs
  <2>1. SeqTypes' /\ server_seq <= server_seq' BY <1>1, <1>4 DEF seqs, SeqTypes
  <2>2. ASSUME NEW c \in Connections, IoStep(c) PROVE Sent
    <3>1. io[c] \in Seq(IoSteps) /\ io[c] # <<>> BY <2>2 DEF IoStep, TypeOK, QueueTypes
    <3>2. Head(io[c]) \in IoSteps BY <3>1
    <3>3. CASE Deliver({c}, <<Handshake>>) BY <1>1, <3>3, HandshakeFrame DEF Deliver, Sent
    <3>4. CASE /\ Head(io[c]).op = "answer"
               /\ Deliver({c}, <<Ack(Head(io[c]).id, 0, Head(io[c]).answer)>>)
      <4>1. Ack(Head(io[c]).id, 0, Head(io[c]).answer) \in Frames
        BY <3>2, <3>4, IoStepParts, AckFrame
      <4> QED BY <1>1, <3>4, <4>1 DEF Deliver, Sent
    <3>5. CASE UNCHANGED out BY <1>1, <3>5 DEF Sent
    <3> QED BY <2>2, <3>3, <3>4, <3>5 DEF IoStep
  <2>3. ASSUME NEW c \in Connections, OnClose(c) PROVE Sent BY <1>1, <2>3 DEF OnClose, Sent
  <2>4. ASSUME NEW c \in Connections, Receive(c) PROVE Sent
    <3>1. out[c] \in Seq(Frames) /\ out[c] # <<>> BY <1>1, <2>4 DEF Receive
    <3>2. Tail(out[c]) \in Seq(Frames) BY <3>1
    <3>3. out' = [out EXCEPT ![c] = Tail(@)] BY <2>4 DEF Receive
    <3> QED BY <1>1, <3>2, <3>3 DEF Sent
  <2>5. CASE UNCHANGED out BY <1>1, <2>1, <2>5 DEF Sent
  <2> QED BY <1>2, <1>3, <2>1, <2>2, <2>3, <2>4, <2>5, Framed
<1> QED BY <1>2, <1>3, <1>4, Framed

\* What is left of a handler is made of steps.
LEMMA StepsBuilt ==
  ASSUME TypeOK
  PROVE  /\ \A m \in Requests, answer \in Answers : AckLater(m, answer) \in Steps
         /\ \A c \in Connections, p \in Prims : Correct(c, p) \in Steps
         /\ \A c \in Connections : Snapshot(c) \in Steps
<1>1. ASSUME NEW m \in Requests, NEW answer \in Answers PROVE AckLater(m, answer) \in Steps
  BY RequestParts DEF AckLater, Steps
<1>2. ASSUME NEW c \in Connections, NEW p \in Prims PROVE Correct(c, p) \in Steps
  BY DEF Correct, Steps
<1>3. ASSUME NEW c \in Connections PROVE Snapshot(c) \in Steps
  <2>1. server_seq \in Nat BY DEF TypeOK, SeqTypes
  <2>2. SnapshotFrames(server_seq) \in News(server_seq) BY <2>1, SnapshotVersion DEF TypeOK
  <2>3. SnapshotFrames(server_seq) \in Seq(Frames) BY <2>2 DEF News, FramesOf
  <2> QED BY <2>1, <2>3 DEF Snapshot, Steps
<1> QED BY <1>1, <1>2, <1>3

\* Every step keeps the types and the limits of the command queues.
LEMMA CommandsStep ==
  ASSUME TypeOK, SeqInv, [Next]_vars
  PROVE  /\ mailbox' \in Seq(Commands) /\ Len(mailbox') <= Capacity
         /\ priority' \in Seq(Corrections) /\ Len(priority') <= PriorityCapacity
         /\ queued' \subseteq Connections \X Prims
<1>1. /\ mailbox \in Seq(Commands) /\ Len(mailbox) <= Capacity /\ Capacity \in Nat
      /\ priority \in Seq(Corrections) /\ Len(priority) <= PriorityCapacity
      /\ PriorityCapacity \in Nat /\ queued \subseteq Connections \X Prims
  BY ProtocolAssumption DEF TypeOK, QueueTypes
<1> DEFINE MailOK == mailbox' \in Seq(Commands) /\ Len(mailbox') <= Capacity
           PriorityOK == /\ priority' \in Seq(Corrections) /\ Len(priority') <= PriorityCapacity
                         /\ queued' \subseteq Connections \X Prims
<1>2. ASSUME UNCHANGED mailbox \/ (mailbox # <<>> /\ mailbox' = Tail(mailbox)) PROVE MailOK
  BY <1>1, <1>2
<1>3. ASSUME NEW m \in Commands, mailbox' = Append(mailbox, m), Submit = "accepted" PROVE MailOK
  <2>1. Len(mailbox) < Capacity BY <1>3 DEF Submit
  <2> QED BY <1>1, <1>3, <2>1
<1>4. ASSUME UNCHANGED <<priority, queued>> PROVE PriorityOK BY <1>1, <1>4
<1>5. CASE Handle
  <2>1. PriorityOK
    <3>1. CASE HandlesCorrection BY <1>1, <3>1 DEF HandlesCorrection
    <3>2. CASE UNCHANGED <<priority, queued>> BY <1>1, <3>2
    <3> QED BY <1>5, <3>1, <3>2, Handling DEF HandlesRequest, HandlesOther
  <2>2. UNCHANGED mailbox \/ (mailbox # <<>> /\ mailbox' = Tail(mailbox)) BY <1>5 DEF Handle
  <2> QED BY <1>2, <2>1, <2>2
<1>6. CASE SubmitReload
  <2>1. [kind |-> "reload"] \in Commands BY DEF Commands
  <2>2. MailOK BY <1>1, <1>3, <1>6, <2>1 DEF SubmitReload
  <2>3. UNCHANGED <<priority, queued>> BY <1>6 DEF SubmitReload
  <2> QED BY <1>4, <2>2, <2>3
<1>7. ASSUME NEW c \in Connections, OnMessage(c) PROVE MailOK /\ PriorityOK
  <2>1. in[c] \in Seq(Requests) /\ in[c] # <<>> BY <1>7 DEF OnMessage, TypeOK, ClientTypes
  <2>2. Head(in[c]) \in Commands BY <2>1, RequestParts
  <2>3. MailOK BY <1>1, <1>3, <1>7, <2>2 DEF OnMessage
  <2>4. UNCHANGED <<priority, queued>> BY <1>7 DEF OnMessage
  <2> QED BY <1>1, <2>3, <2>4
<1>8. ASSUME NEW c \in Connections, IoStep(c) PROVE MailOK /\ PriorityOK
  <2>1. io[c] \in Seq(IoSteps) /\ io[c] # <<>> BY <1>8 DEF IoStep, TypeOK, QueueTypes
  <2>2. Head(io[c]) \in IoSteps BY <2>1
  <2>3. [kind |-> "join", origin |-> c] \in Commands BY DEF Commands
  <2>4. MailOK BY <1>1, <1>3, <1>8, <2>3 DEF IoStep
  <2>5. CASE UNCHANGED <<priority, queued>> BY <1>1, <2>4, <2>5
  <2>6. CASE Head(io[c]).op = "correction" /\ SubmitCorrection(c, Head(io[c]).prim)
    <3> DEFINE p == Head(io[c]).prim
               m == [kind |-> "correction", origin |-> c, prim |-> p]
    <3>1. p \in Prims BY <2>2, <2>6, IoStepParts
    <3>2. m \in Corrections BY <3>1 DEF Corrections
    <3>3. CASE UNCHANGED <<priority, queued>> BY <1>1, <2>4, <3>3
    <3>4. CASE /\ Len(priority) # PriorityCapacity /\ priority' = Append(priority, m)
               /\ queued' = queued \cup {<<c, p>>}
      <4> HIDE DEF m
      <4>1. priority' \in Seq(Corrections) /\ Len(priority') <= PriorityCapacity
        BY <1>1, <3>2, <3>4
      <4>2. queued' \subseteq Connections \X Prims BY <1>1, <3>1, <3>4
      <4> QED BY <2>4, <4>1, <4>2
    <3> QED BY <2>6, <3>3, <3>4 DEF SubmitCorrection
  <2> QED BY <1>8, <2>5, <2>6 DEF IoStep
<1> QED BY <1>2, <1>4, <1>5, <1>6, <1>7, <1>8, Framed

\* Every step keeps the types of what the threads have left to do.
LEMMA TodoStep ==
  ASSUME TypeOK, SeqInv, TodoInv, [Next]_vars
  PROVE  todo' \in Seq(Steps) /\ Len(todo') <= 2
<1>1. todo \in Seq(Steps) /\ Len(todo) <= 2 BY DEF TypeOK, QueueTypes
<1>2. CASE Handle
  <2>1. CASE HandlesRequest
    <3>1. Head(mailbox) \in Requests /\ Head(mailbox).origin \in Connections
      BY <2>1, RequestParts DEF HandlesRequest
    <3>2. PICK answer \in Answers :
            \/ todo' = <<AckLater(Head(mailbox), answer)>>
            \/ \E p \in Prims :
                 todo' = <<AckLater(Head(mailbox), answer), Correct(Head(mailbox).origin, p)>>
      BY <2>1 DEF HandlesRequest
    <3>3. AckLater(Head(mailbox), answer) \in Steps BY <3>1, StepsBuilt
    <3>4. \A p \in Prims : Correct(Head(mailbox).origin, p) \in Steps BY <3>1, StepsBuilt
    <3>5. CASE todo' = <<AckLater(Head(mailbox), answer)>> BY <3>3, <3>5
    <3>6. ASSUME NEW p \in Prims,
                 todo' = <<AckLater(Head(mailbox), answer), Correct(Head(mailbox).origin, p)>>
          PROVE  todo' \in Seq(Steps) /\ Len(todo') <= 2
      <4>1. Correct(Head(mailbox).origin, p) \in Steps BY <3>4
      <4> QED BY <3>3, <3>6, <4>1
    <3> QED BY <3>2, <3>5, <3>6
  <2>2. CASE HandlesOther
    <3>1. CASE todo' = <<>> BY <3>1
    <3>2. ASSUME NEW c \in Connections, todo' = <<Snapshot(c)>>
          PROVE  todo' \in Seq(Steps) /\ Len(todo') <= 2
      <4>1. Snapshot(c) \in Steps BY StepsBuilt
      <4> QED BY <3>2, <4>1
    <3> QED BY <2>2, <3>1, <3>2 DEF HandlesOther
  <2>3. CASE HandlesCorrection
    <3>1. Head(priority) \in Corrections BY <2>3 DEF HandlesCorrection, TypeOK, QueueTypes
    <3>2. Head(priority).origin \in Connections /\ Head(priority).prim \in Prims
      BY <3>1 DEF Corrections
    <3> QED BY <2>3, <3>2, StepsBuilt DEF HandlesCorrection
  <2> QED BY <1>2, <2>1, <2>2, <2>3, Handling
<1>3. CASE Continue
  <2>1. todo # <<>> /\ todo' = Tail(todo) BY <1>3 DEF Continue
  <2> QED BY <1>1, <2>1
<1>4. CASE UNCHANGED todo BY <1>1, <1>4
<1> QED BY <1>2, <1>3, <1>4, Framed

\* The same for the io threads.
LEMMA IoTypesStep ==
  ASSUME TypeOK, [Next]_vars
  PROVE  io' \in [Connections -> Seq(IoSteps)] /\ \A c \in Connections : Len(io'[c]) <= 2
<1>1. io \in [Connections -> Seq(IoSteps)] /\ \A c \in Connections : Len(io[c]) <= 2
  BY DEF TypeOK, QueueTypes
<1>2. ASSUME NEW c \in Connections, NEW steps \in Seq(IoSteps), Len(steps) <= 2,
             io' = [io EXCEPT ![c] = steps]
      PROVE  io' \in [Connections -> Seq(IoSteps)] /\ \A d \in Connections : Len(io'[d]) <= 2
  BY <1>1, <1>2
<1>3. ASSUME NEW c \in Connections, OnOpen(c), ~UNCHANGED io
      PROVE  io' \in [Connections -> Seq(IoSteps)] /\ \A d \in Connections : Len(io'[d]) <= 2
  <2>1. io' = [io EXCEPT ![c] = <<[op |-> "handshake"], [op |-> "join"]>>] BY <1>3 DEF OnOpen
  <2>2. [op |-> "handshake"] \in IoSteps /\ [op |-> "join"] \in IoSteps BY DEF IoSteps
  <2> DEFINE steps == <<[op |-> "handshake"], [op |-> "join"]>>
  <2>3. steps \in Seq(IoSteps) /\ Len(steps) <= 2 BY <2>2
  <2> QED BY <1>2, <2>1, <2>3, Zenon
<1>4. ASSUME NEW c \in Connections, OnMessage(c), ~UNCHANGED io
      PROVE  io' \in [Connections -> Seq(IoSteps)] /\ \A d \in Connections : Len(io'[d]) <= 2
  <2> DEFINE m == Head(in[c])
             refusal == [op |-> "answer", id |-> m.id, answer |-> Submit]
             correction == [op |-> "correction", prim |-> m.prim]
             steps == IF m.kind = "update" /\ Submit = "queue_full"
                        THEN <<refusal, correction>> ELSE <<refusal>>
  <2>1. in[c] \in Seq(Requests) /\ in[c] # <<>> BY <1>4 DEF OnMessage, TypeOK, ClientTypes
  <2>2. m \in Requests BY <2>1
  <2>3. io' = [io EXCEPT ![c] = steps] /\ Submit # "accepted" BY <1>4 DEF OnMessage
  <2>4. Submit \in Answers BY <2>3 DEF Submit, Answers
  <2>5. refusal \in IoSteps BY <2>2, <2>4, RequestParts DEF IoSteps
  <2>6. m.kind = "update" => correction \in IoSteps
    <3>1. m.kind = "update" => m.prim \in Prims BY <2>2, RequestParts
    <3> QED BY <3>1 DEF IoSteps
  <2>7. steps \in Seq(IoSteps) /\ Len(steps) <= 2
    <3> HIDE DEF refusal, correction
    <3>1. CASE m.kind = "update" /\ Submit = "queue_full" BY <2>5, <2>6, <3>1
    <3>2. CASE ~(m.kind = "update" /\ Submit = "queue_full") BY <2>5, <3>2
    <3> QED BY <3>1, <3>2
  <2> HIDE DEF steps
  <2> QED BY <1>2, <2>3, <2>7, Zenon
<1>5. ASSUME NEW c \in Connections, IoStep(c)
      PROVE  io' \in [Connections -> Seq(IoSteps)] /\ \A d \in Connections : Len(io'[d]) <= 2
  <2>1. io[c] \in Seq(IoSteps) /\ Len(io[c]) <= 2 /\ io[c] # <<>> BY <1>1, <1>5 DEF IoStep
  <2>2. Tail(io[c]) \in Seq(IoSteps) /\ Len(Tail(io[c])) <= 2 BY <2>1
  <2>3. io' = [io EXCEPT ![c] = Tail(io[c])] BY <1>5 DEF IoStep
  <2> QED BY <1>2, <2>2, <2>3, Zenon
<1>6. CASE UNCHANGED io BY <1>1, <1>6
<1> QED BY <1>3, <1>4, <1>5, <1>6, Framed

\* Every step keeps the types of the requests under way.
LEMMA RequestsStep ==
  ASSUME TypeOK, [Next]_vars
  PROVE  in' \in [Connections -> Seq(Requests)]
<1>1. /\ in \in [Connections -> Seq(Requests)] /\ base \in [Connections -> Nat]
      /\ sent \in [Connections -> [Kinds -> Nat]]
  BY DEF TypeOK, ClientTypes
<1>2. ASSUME NEW c \in Connections, NEW requests \in Seq(Requests),
             in' = [in EXCEPT ![c] = requests]
      PROVE  in' \in [Connections -> Seq(Requests)]
  BY <1>1, <1>2
<1>3. ASSUME NEW c \in Connections, OnMessage(c) PROVE in' \in [Connections -> Seq(Requests)]
  <2>1. in[c] \in Seq(Requests) /\ in[c] # <<>> BY <1>1, <1>3 DEF OnMessage
  <2>2. Tail(in[c]) \in Seq(Requests) BY <2>1
  <2>3. in' = [in EXCEPT ![c] = Tail(in[c])] BY <1>3 DEF OnMessage
  <2> QED BY <1>2, <2>2, <2>3, Zenon
<1>4. ASSUME NEW c \in Connections, OnClose(c) PROVE in' \in [Connections -> Seq(Requests)]
  BY <1>1, <1>4 DEF OnClose
<1>5. ASSUME NEW c \in Connections, SendUpdate(c) PROVE in' \in [Connections -> Seq(Requests)]
  <2>1. PICK p \in Prims, shape \in Shapes :
          LET n == sent[c]["update"] + 1
          IN  in' = [in EXCEPT ![c] = Append(@,
                [kind |-> "update", origin |-> c, id |-> <<"update", n>>, prim |-> p,
                 shape |-> shape, value |-> <<c, n>>, base |-> base[c]])]
    BY <1>5, Zenon DEF SendUpdate
  <2> DEFINE n == sent[c]["update"] + 1
             m == [kind |-> "update", origin |-> c, id |-> <<"update", n>>, prim |-> p,
                   shape |-> shape, value |-> <<c, n>>, base |-> base[c]]
  <2>2. n \in Nat BY <1>1 DEF Kinds
  <2>3. <<"update", n>> \in Ids /\ <<c, n>> \in Values /\ base[c] \in Nat
    BY <1>1, <2>2 DEF Ids, Kinds, Values
  <2>4. m \in Requests BY <2>3 DEF Requests
  <2>5. in' = [in EXCEPT ![c] = Append(in[c], m)] BY <2>1
  <2> HIDE DEF m
  <2> QED BY <1>1, <1>2, <2>4, <2>5
<1>6. ASSUME NEW c \in Connections, SendSetActive(c) PROVE in' \in [Connections -> Seq(Requests)]
  <2>1. PICK p \in Prims, active \in BOOLEAN :
          in' = [in EXCEPT ![c] = Append(@,
            [kind |-> "active", origin |-> c, id |-> <<"active", sent[c]["active"] + 1>>,
             prim |-> p, active |-> active])]
    BY <1>6, Zenon DEF SendSetActive
  <2> DEFINE m == [kind |-> "active", origin |-> c, id |-> <<"active", sent[c]["active"] + 1>>,
                   prim |-> p, active |-> active]
  <2>2. <<"active", sent[c]["active"] + 1>> \in Ids BY <1>1 DEF Ids, Kinds
  <2>3. m \in Requests BY <2>2 DEF Requests
  <2>4. in' = [in EXCEPT ![c] = Append(in[c], m)] BY <2>1
  <2> HIDE DEF m
  <2> QED BY <1>1, <1>2, <2>3, <2>4
<1>7. ASSUME NEW c \in Connections, SendCreate(c) PROVE in' \in [Connections -> Seq(Requests)]
  <2> DEFINE m == [kind |-> "create", origin |-> c, id |-> <<"create", sent[c]["create"] + 1>>]
  <2>1. in' = [in EXCEPT ![c] = Append(in[c], m)] BY <1>7 DEF SendCreate
  <2>2. <<"create", sent[c]["create"] + 1>> \in Ids BY <1>1 DEF Ids, Kinds
  <2>3. m \in Requests BY <2>2 DEF Requests
  <2> HIDE DEF m
  <2> QED BY <1>1, <1>2, <2>1, <2>3
<1>8. CASE UNCHANGED in BY <1>1, <1>8
<1> QED BY <1>3, <1>4, <1>5, <1>6, <1>7, <1>8, Framed

\* Every step keeps the types of what the clients keep.
LEMMA ViewStep ==
  ASSUME TypeOK, [Next]_vars
  PROVE  /\ shown' \in [Connections -> [Prims -> [exists : BOOLEAN, active : BOOLEAN, value : Values]]]
         /\ base' \in [Connections -> Nat] /\ ready' \in [Connections -> BOOLEAN]
         /\ sent' \in [Connections -> [Kinds -> Nat]] /\ awaiting' \in [Connections -> SUBSET Ids]
<1> DEFINE Shown == [exists : BOOLEAN, active : BOOLEAN, value : Values]
           ViewOK == /\ shown' \in [Connections -> [Prims -> Shown]]
                     /\ base' \in [Connections -> Nat] /\ ready' \in [Connections -> BOOLEAN]
                     /\ sent' \in [Connections -> [Kinds -> Nat]]
                     /\ awaiting' \in [Connections -> SUBSET Ids]
<1>1. /\ shown \in [Connections -> [Prims -> Shown]]
      /\ base \in [Connections -> Nat] /\ ready \in [Connections -> BOOLEAN]
      /\ sent \in [Connections -> [Kinds -> Nat]] /\ awaiting \in [Connections -> SUBSET Ids]
      /\ out \in [Connections -> Seq(Frames)]
  BY DEF TypeOK, ClientTypes
<1>2. ASSUME NEW c \in Connections, SendUpdate(c) PROVE ViewOK
  <2> DEFINE n == sent[c]["update"] + 1
  <2>1. PICK p \in Prims : shown' = [shown EXCEPT ![c][p].value = <<c, n>>]
    BY <1>2, Zenon DEF SendUpdate
  <2>2. n \in Nat /\ <<c, n>> \in Values /\ <<"update", n>> \in Ids
    BY <1>1 DEF Values, Ids, Kinds
  <2>3. shown' \in [Connections -> [Prims -> Shown]]
    <3> DEFINE moved == [shown[c][p] EXCEPT !.value = <<c, n>>]
    <3>1. shown[c][p] \in Shown BY <1>1
    <3>2. moved \in Shown BY <2>2, <3>1
    <3>3. shown' = [shown EXCEPT ![c] = [shown[c] EXCEPT ![p] = moved]] BY <2>1
    <3> HIDE DEF Shown, moved
    <3> QED BY <1>1, <3>2, <3>3
  <2>4. sent' = [sent EXCEPT ![c]["update"] = n]
        /\ awaiting' = [awaiting EXCEPT ![c] = @ \cup {<<"update", n>>}]
        /\ UNCHANGED <<base, ready>>
    BY <1>2 DEF SendUpdate
  <2> HIDE DEF n
  <2>5. sent' \in [Connections -> [Kinds -> Nat]] BY <1>1, <2>2, <2>4 DEF Kinds
  <2>6. awaiting' \in [Connections -> SUBSET Ids] BY <1>1, <2>2, <2>4, Zenon
  <2> QED BY <1>1, <2>3, <2>4, <2>5, <2>6
<1>3. ASSUME NEW c \in Connections, NEW kind \in Kinds, UNCHANGED <<shown, base, ready>>,
             sent' = [sent EXCEPT ![c][kind] = @ + 1],
             awaiting' = [awaiting EXCEPT ![c] = @ \cup {<<kind, sent[c][kind] + 1>>}]
      PROVE  ViewOK
  <2>1. sent[c][kind] + 1 \in Nat /\ <<kind, sent[c][kind] + 1>> \in Ids BY <1>1 DEF Ids
  <2>2. sent' \in [Connections -> [Kinds -> Nat]] BY <1>1, <1>3, <2>1
  <2>3. awaiting' \in [Connections -> SUBSET Ids] BY <1>1, <1>3, <2>1, Zenon
  <2> QED BY <1>1, <1>3, <2>2, <2>3
<1>4. ASSUME NEW c \in Connections, SendSetActive(c) PROVE ViewOK
  BY <1>3, <1>4, Zenon DEF SendSetActive, Kinds
<1>5. ASSUME NEW c \in Connections, SendCreate(c) PROVE ViewOK
  BY <1>3, <1>5, Zenon DEF SendCreate, Kinds
<1>6. ASSUME NEW c \in Connections, Receive(c) PROVE ViewOK
  <2> DEFINE frame == Head(out[c])
  <2>1. out[c] \in Seq(Frames) /\ out[c] # <<>> BY <1>1, <1>6 DEF Receive
  <2>2. frame \in Frames BY <2>1
  <2>3. /\ shown' = [shown EXCEPT ![c] = Applied(frame, @)]
        /\ base' = [base EXCEPT ![c] = Larger(@, frame.seq)]
        /\ ready' = [ready EXCEPT ![c] = @ \/ frame.type = "complete"]
        /\ awaiting' = [awaiting EXCEPT ![c] = IF frame.type = "ack" THEN @ \ {frame.id} ELSE @]
        /\ sent' = sent
    BY <1>6 DEF Receive
  <2> HIDE DEF frame
  <2>4. base' \in [Connections -> Nat]
    <3>1. frame.seq \in Nat BY <2>2, FrameParts
    <3>2. Larger(base[c], frame.seq) \in Nat BY <1>1, <3>1 DEF Larger
    <3> QED BY <1>1, <2>3, <3>2
  <2>5. ready' \in [Connections -> BOOLEAN] BY <1>1, <2>3
  <2>6. awaiting' \in [Connections -> SUBSET Ids] BY <1>1, <2>3
  <2>7. Applied(frame, shown[c]) \in [Prims -> Shown]
    <3> DEFINE prims == shown[c]
    <3>1. prims \in [Prims -> Shown] BY <1>1
    <3>2. file \in [FilePrims -> Values] /\ Identity \in Values
      BY DEF TypeOK, StageTypes, Values
    <3> SUFFICES Applied(frame, prims) \in [Prims -> Shown] OBVIOUS
    <3> HIDE DEF prims
    <3>3. CASE frame.type = "handshake" BY <3>2, <3>3 DEF Applied, Absent
    <3>4. CASE frame.type = "xform"
      <4>1. frame.prim \in Prims /\ frame.value \in Values BY <2>2, <3>4, FrameParts
      <4>2. \/ Applied(frame, prims) = prims
            \/ Applied(frame, prims) = [prims EXCEPT ![frame.prim] = [prims[frame.prim] EXCEPT !.value = frame.value]]
        BY <3>4 DEF Applied
      <4>3. prims[frame.prim] \in Shown BY <3>1, <4>1
      <4>4. [prims[frame.prim] EXCEPT !.value = frame.value] \in Shown BY <3>2, <4>1, <4>3
      <4> HIDE DEF Shown
      <4> QED BY <3>1, <4>2, <4>4
    <3>5. CASE frame.type = "active"
      <4>1. frame.prim \in Prims /\ frame.active \in BOOLEAN BY <2>2, <3>5, FrameParts
      <4>2. \/ Applied(frame, prims) = prims
            \/ Applied(frame, prims) = [prims EXCEPT ![frame.prim] = [prims[frame.prim] EXCEPT !.active = frame.active]]
        BY <3>5 DEF Applied
      <4>3. prims[frame.prim] \in Shown BY <3>1, <4>1
      <4>4. [prims[frame.prim] EXCEPT !.active = frame.active] \in Shown BY <3>2, <4>1, <4>3
      <4> HIDE DEF Shown
      <4> QED BY <3>1, <4>2, <4>4
    <3>6. CASE frame.type = "create"
      <4>1. frame.prim \in Prims BY <2>2, <3>6, FrameParts
      <4>2. \/ Applied(frame, prims) = prims
            \/ Applied(frame, prims) = [prims EXCEPT ![frame.prim] = [exists |-> TRUE, active |-> TRUE, value |-> Identity]]
        BY <3>6 DEF Applied
      <4>3. prims[frame.prim] \in Shown BY <3>1, <4>1
      <4>4. [exists |-> TRUE, active |-> TRUE, value |-> Identity] \in Shown BY <3>2, <4>1, <4>3
      <4> HIDE DEF Shown
      <4> QED BY <3>1, <4>2, <4>4
    <3>7. CASE frame.type \notin {"handshake", "xform", "active", "create"}
      <4>1. Applied(frame, prims) = prims BY <3>7 DEF Applied
      <4> QED BY <3>1, <4>1
    <3> QED BY <3>3, <3>4, <3>5, <3>6, <3>7
  <2>8. shown' \in [Connections -> [Prims -> Shown]]
    <3> HIDE DEF Shown
    <3> QED BY <1>1, <2>3, <2>7
  <2> QED BY <1>1, <2>3, <2>4, <2>5, <2>6, <2>8
<1>7. CASE UNCHANGED <<sent, shown, awaiting, base, ready>> BY <1>1, <1>7
<1> QED BY <1>2, <1>4, <1>5, <1>6, <1>7, Framed

\* Every step keeps all types.
LEMMA TypeStep ==
  ASSUME TypeOK, SeqInv, TodoInv, [Next]_vars
  PROVE  TypeOK'
<1>1. StageTypes' BY StageStep
<1>2. SeqTypes' /\ out' \in [Connections -> Seq(Frames)] BY SeqStep DEF Sent
<1>3. QueueTypes' BY CommandsStep, TodoStep, IoTypesStep DEF QueueTypes
<1>4. clients' \subseteq Connections
  <2>1. clients \subseteq Connections BY DEF TypeOK, ClientTypes
  <2> QED BY <2>1, Framed DEF OnOpen, OnClose
<1>5. admitting' \in BOOLEAN BY Framed, Zenon DEF TypeOK, ClientTypes, Destroy
<1>6. status' \in [Connections -> {"new", "open", "closing", "closed"}]
  <2>1. status \in [Connections -> {"new", "open", "closing", "closed"}] BY DEF TypeOK, ClientTypes
  <2>2. ASSUME NEW c \in Connections, OnOpen(c) \/ IoStep(c) \/ OnClose(c)
        PROVE  UNCHANGED status \/ \E s \in {"open", "closing", "closed"} : status' = [status EXCEPT ![c] = s]
    BY <2>2 DEF OnOpen, IoStep, OnClose
  <2> QED BY <2>1, <2>2, Framed
<1>7. ClientTypes' BY <1>2, <1>4, <1>5, <1>6, RequestsStep, ViewStep DEF ClientTypes
<1> QED BY <1>1, <1>2, <1>3, <1>7 DEF TypeOK
=============================================================================
