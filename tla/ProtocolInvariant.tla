------------------------- MODULE ProtocolInvariant --------------------------
(***************************************************************************)
(* The inductive invariant of SessionProtocol and the effect of a command  *)
(* on the clients, in the terms the proofs share: HandlerProofs shows that *)
(* the handlers have that effect, AnswerProofs what becomes of the Acks    *)
(* because of it, and ProtocolProofs puts the two together.                *)
(***************************************************************************)
EXTENDS SessionProtocol

-----------------------------------------------------------------------------
(* What the consumer sends. *)

\* Frames of one version, and those that tell of the stage.
FramesOf(seq) == {frames \in Seq(Frames) : \A i \in DOMAIN frames : frames[i].seq = seq}
News(seq) == {frames \in FramesOf(seq) : \A i \in DOMAIN frames : frames[i].type # "ack"}

MaxSent(c) == versions.max_sent_seq[c]

\* A connection never refers to a version that was not sent to it, and never gets
\* one the session does not have.
SeqInv ==
  \A c \in Connections :
    /\ base[c] <= MaxSent(c) /\ MaxSent(c) <= server_seq
    /\ \A i \in DOMAIN out[c] : out[c][i].seq <= MaxSent(c)
    /\ \A i \in DOMAIN in[c] : /\ in[c][i].origin = c
                               /\ in[c][i].kind = "update" => in[c][i].base <= MaxSent(c)

Sent == out' \in [Connections -> Seq(Frames)]

\* A connection gets nothing, or frames of a version it may get.
Keeps(c) == out'[c] = out[c] /\ MaxSent(c)' = MaxSent(c)
Gets(c, frames, seq) ==
  /\ out'[c] = out[c] \o frames
  /\ MaxSent(c) <= seq /\ seq <= server_seq' /\ MaxSent(c)' = seq

\* A part of a handler that tells of the stage.
Tells ==
  /\ SeqTypes' /\ Sent /\ server_seq <= server_seq'
  /\ \A c \in Connections :
       Keeps(c) \/ \E seq \in Nat : \E frames \in News(seq) : Gets(c, frames, seq)
-----------------------------------------------------------------------------
(* The three ways a command is handled. *)

Correct(c, p) == [op |-> "correct", to |-> c, prim |-> p]
Snapshot(c)   == [op |-> "snapshot", to |-> c, seq |-> server_seq, frames |-> SnapshotFrames(server_seq)]

\* A request of a client: what is left to do is its Ack, and perhaps a correction.
HandlesRequest ==
  /\ mailbox # <<>> /\ mailbox' = Tail(mailbox) /\ UNCHANGED <<priority, queued>>
  /\ Head(mailbox) \in Requests
  /\ \E answer \in Answers :
       /\ answer = "InvalidBase" =>
            Head(mailbox).kind = "update" /\ Head(mailbox).base > MaxSent(Head(mailbox).origin)
       /\ \/ todo' = <<AckLater(Head(mailbox), answer)>>
          \/ \E p \in Prims :
               todo' = <<AckLater(Head(mailbox), answer), Correct(Head(mailbox).origin, p)>>

\* A join or a reload: what is left to do is a snapshot, or nothing.
HandlesOther ==
  /\ mailbox # <<>> /\ mailbox' = Tail(mailbox) /\ UNCHANGED <<priority, queued>>
  /\ Head(mailbox) \notin Requests
  /\ \/ todo' = <<>>
     \/ \E c \in Connections : todo' = <<Snapshot(c)>> /\ UNCHANGED server_seq

\* A correction: its mark is cleared, and the correction is left to do.
HandlesCorrection ==
  /\ priority # <<>> /\ priority' = Tail(priority) /\ UNCHANGED mailbox
  /\ queued' = queued \ {<<Head(priority).origin, Head(priority).prim>>}
  /\ todo' = <<Correct(Head(priority).origin, Head(priority).prim)>>

\* A command is handled, and the clients are told.
Handled == Tells /\ (HandlesRequest \/ HandlesOther \/ HandlesCorrection)
-----------------------------------------------------------------------------
(* The rest of a handler. *)

\* Nothing of a handler names a version the client cannot have, and a snapshot still
\* holds what the session has.
TodoInv ==
  /\ NeverInvalidBase
  /\ \A i \in DOMAIN todo : todo[i].op = "snapshot" =>
       Len(todo) = 1 /\ todo[i].seq = server_seq /\ todo[i].frames \in News(server_seq)

\* An Ack leaves for a connection that is still attached.
Acks ==
  LET step == Head(todo)
  IN  /\ step.op = "ack" /\ SeqTypes' /\ Sent /\ UNCHANGED server_seq
      /\ \A c \in Connections : c # step.to => Keeps(c)
      /\ IF step.to \in clients
           THEN Gets(step.to, <<Ack(step.id, server_seq, step.answer)>>, server_seq)
           ELSE Keeps(step.to)

\* One step of the rest of a handler.
Continued ==
  /\ todo # <<>> /\ Head(todo) \in Steps /\ todo' = Tail(todo)
  /\ Acks \/ (Head(todo).op # "ack" /\ Tells)
-----------------------------------------------------------------------------
(* The versions. *)

\* An update in the mailbox refers to a version that was sent to its origin.
MailInv ==
  \A i \in DOMAIN mailbox :
    mailbox[i].kind = "update" => mailbox[i].base <= MaxSent(mailbox[i].origin)

\* Versions are in order, and none is below the one the client has.
InOrder(b, frames) ==
  \A i \in DOMAIN frames : frames[i].seq # 0 =>
    /\ b <= frames[i].seq
    /\ \A j \in i + 1 .. Len(frames) : frames[j].seq # 0 => frames[i].seq <= frames[j].seq

OrderInv == \A c \in Connections : InOrder(base[c], out[c])
-----------------------------------------------------------------------------
(* The answers. *)

One(positions) == \E i : positions = {i}

\* Positions go on being none, or one.
Same(before, after) == (before = {} => after = {}) /\ (One(before) => One(after))

Spots == {"in", "mailbox", "todo", "io", "out"}

\* The positions of the messages of a request, by queue.
Found(c, id) ==
  [spot \in Spots |->
     CASE spot = "in"      -> Positions(in[c], Asking(c, id))
       [] spot = "mailbox" -> Positions(mailbox, Asking(c, id))
       [] spot = "todo"    -> Positions(todo, Settling(c, id))
       [] spot = "io"      -> Positions(io[c], Refusing(id))
       [] spot = "out"     -> Positions(out[c], Acking(id))]

Nowhere(found) == \A spot \in Spots : found[spot] = {}
AtOne(found) ==
  \E spot \in Spots : One(found[spot]) /\ \A other \in Spots \ {spot} : found[other] = {}

PairInv(c, id) ==
  IF id \in awaiting[c] THEN AtOne(Found(c, id)) ELSE Nowhere(Found(c, id))

\* A client that is not connected yet has asked for nothing.  What a connected one waits
\* for is in one place, and nothing else of it is anywhere; a new request has a new id.
AckInv ==
  \A c \in Connections :
    /\ status[c] = "new" => io[c] = <<>> /\ awaiting[c] = {}
    /\ status[c] = "open" => c \in clients
    /\ status[c] \in {"new", "open"} => \A id \in Ids : PairInv(c, id)
    /\ \A id \in awaiting[c] : id[2] <= sent[c][id[1]]
-----------------------------------------------------------------------------
(* The invariant. *)

\* The inductive invariant: what is under way to a client is in order and recorded as sent,
\* and so is what the updates under way from it refer to.
Inv == TypeOK /\ SeqInv /\ MailInv /\ OrderInv /\ TodoInv
=============================================================================
