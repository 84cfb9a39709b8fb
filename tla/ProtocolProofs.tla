--------------------------- MODULE ProtocolProofs ---------------------------
(***************************************************************************)
(* Proofs about SessionProtocol, continued: the versions that a client     *)
(* sees, the marks of the queued corrections, and with them the theorems   *)
(* about the protocol.                                                     *)
(***************************************************************************)
EXTENDS HandlerProofs, AnswerProofs

-----------------------------------------------------------------------------
(* The initial states. *)

\* The types of the initial states.
LEMMA InitTypes == Init => TypeOK
<1> SUFFICES ASSUME Init PROVE TypeOK OBVIOUS
<1>1. Identity \in Values /\ Absent \in [exists : BOOLEAN, active : BOOLEAN, value : Values]
  BY DEF Values, Absent
<1>2. NoSpec \in Specs BY SpecsKept
<1>3. StageTypes
  BY <1>1, <1>2, ProtocolAssumption DEF Init, StageTypes
<1>4. NoVersions \in VersionRecords BY DEF NoVersions, VersionRecords
<1>5. SeqTypes BY <1>4 DEF Init, SeqTypes
<1>6. QueueTypes BY ProtocolAssumption DEF Init, QueueTypes
<1>7. shown \in [Connections -> [Prims -> [exists : BOOLEAN, active : BOOLEAN, value : Values]]]
  BY <1>1 DEF Init
<1>8. ClientTypes BY <1>7 DEF Init, ClientTypes
<1> QED BY <1>3, <1>5, <1>6, <1>8 DEF TypeOK

\* The invariant holds initially.
LEMMA InitInv == Init => Inv
<1> SUFFICES ASSUME Init PROVE Inv OBVIOUS
<1>1. TypeOK BY InitTypes
<1>2. /\ server_seq = 0 /\ mailbox = <<>> /\ todo = <<>>
      /\ \A c \in Connections : in[c] = <<>> /\ out[c] = <<>> /\ base[c] = 0
  BY DEF Init
<1>3. \A c \in Connections : MaxSent(c) = 0 BY DEF Init, NoVersions, MaxSent
<1>4. SeqInv BY <1>2, <1>3 DEF SeqInv
<1>5. MailInv /\ OrderInv /\ TodoInv
  BY <1>2 DEF MailInv, OrderInv, InOrder, TodoInv, NeverInvalidBase
<1> QED BY <1>1, <1>4, <1>5 DEF Inv
-----------------------------------------------------------------------------
(* Versions. *)

\* Frames of one version after frames of no newer one.
LEMMA OrderAppended ==
  ASSUME NEW b \in Nat, NEW q \in Seq(Frames), InOrder(b, q),
         NEW seq \in Nat, NEW frames \in FramesOf(seq),
         seq = 0 \/ (b <= seq /\ \A i \in DOMAIN q : q[i].seq <= seq)
  PROVE  InOrder(b, q \o frames)
<1> DEFINE r == q \o frames
<1>1. frames \in Seq(Frames) /\ \A i \in DOMAIN frames : frames[i].seq = seq BY DEF FramesOf
<1>2. r \in Seq(Frames) /\ Len(r) = Len(q) + Len(frames) BY <1>1
<1>3. \A i \in DOMAIN r : \/ i \in DOMAIN q /\ r[i] = q[i]
                          \/ i > Len(q) /\ r[i].seq = seq
  BY <1>1
<1>4. \A i \in DOMAIN q : q[i].seq \in Nat BY FrameParts
<1>5. ASSUME NEW i \in DOMAIN r, r[i].seq # 0
      PROVE  /\ b <= r[i].seq
             /\ \A j \in i + 1 .. Len(r) : r[j].seq # 0 => r[i].seq <= r[j].seq
  <2>1. i \in Nat /\ \A j \in i + 1 .. Len(r) : j \in DOMAIN r /\ j > i BY <1>2
  <2> HIDE DEF r
  <2>2. CASE i \in DOMAIN q /\ r[i] = q[i]
    <3>1. b <= q[i].seq BY <1>5, <2>2 DEF InOrder
    <3>2. ASSUME NEW j \in i + 1 .. Len(r), r[j].seq # 0 PROVE r[i].seq <= r[j].seq
      <4>1. CASE j \in DOMAIN q /\ r[j] = q[j]
        <5>1. j \in i + 1 .. Len(q) BY <2>1, <4>1
        <5> QED BY <1>5, <2>2, <3>2, <4>1, <5>1 DEF InOrder
      <4>2. CASE j > Len(q) /\ r[j].seq = seq BY <2>2, <3>2, <4>2
      <4> QED BY <1>3, <2>1, <4>1, <4>2
    <3> QED BY <2>2, <3>1, <3>2
  <2>3. CASE i > Len(q) /\ r[i].seq = seq
    <3>1. \A j \in i + 1 .. Len(r) : r[j].seq = seq BY <1>3, <2>1, <2>3
    <3> QED BY <1>5, <2>3, <3>1
  <2> QED BY <1>3, <2>2, <2>3
<1> QED BY <1>5 DEF InOrder

\* The first frame is received: the client takes its version over.
LEMMA OrderReceived ==
  ASSUME NEW b \in Nat, NEW q \in Seq(Frames), q # <<>>, InOrder(b, q)
  PROVE  InOrder(Larger(b, q[1].seq), Tail(q))
<1> DEFINE r == Tail(q)
<1>1. r \in Seq(Frames) /\ Len(r) + 1 = Len(q) /\ \A i \in DOMAIN r : r[i] = q[i + 1] /\ i + 1 \in DOMAIN q
  OBVIOUS
<1>2. 1 \in DOMAIN q /\ q[1].seq \in Nat BY FrameParts
<1>3. ASSUME NEW i \in DOMAIN r, r[i].seq # 0
      PROVE  /\ Larger(b, q[1].seq) <= r[i].seq
             /\ \A j \in i + 1 .. Len(r) : r[j].seq # 0 => r[i].seq <= r[j].seq
  <2>1. i \in Nat /\ i + 1 \in 2 .. Len(q) /\ r[i] = q[i + 1] BY <1>1
  <2>2. b <= q[i + 1].seq BY <1>3, <2>1 DEF InOrder
  <2>3. q[1].seq # 0 => q[1].seq <= q[i + 1].seq BY <1>2, <1>3, <2>1 DEF InOrder
  <2>4. q[i + 1].seq \in Nat BY <2>1, FrameParts
  <2>5. Larger(b, q[1].seq) <= r[i].seq BY <1>2, <2>1, <2>2, <2>3, <2>4 DEF Larger
  <2>6. \A j \in i + 1 .. Len(r) : j \in DOMAIN r /\ j + 1 \in i + 2 .. Len(q) BY <1>1, <2>1
  <2>7. \A j \in i + 1 .. Len(r) : r[j].seq # 0 => r[i].seq <= r[j].seq
    BY <1>1, <1>3, <2>1, <2>6 DEF InOrder
  <2> QED BY <2>5, <2>7
<1> QED BY <1>3 DEF InOrder

\* What a step does with the frames of a connection.
FramesMove(c) ==
  \/ base'[c] = base[c] /\ out'[c] \in {out[c], <<>>}
  \/ /\ base'[c] = base[c]
     /\ \E seq \in Nat : \E frames \in FramesOf(seq) :
          /\ out'[c] = out[c] \o frames
          /\ seq = 0 \/ (MaxSent(c) <= seq /\ seq <= MaxSent(c)')
  \/ out[c] # <<>> /\ out'[c] = Tail(out[c]) /\ base'[c] = Larger(base[c], out[c][1].seq)

\* Every step does one of these, and the newest version sent to a connection only goes up.
LEMMA FramesMoved ==
  ASSUME TypeOK, SeqInv, TodoInv, [Next]_vars, NEW c \in Connections
  PROVE  /\ FramesMove(c)
         /\ MaxSent(c) <= MaxSent(c)' /\ MaxSent(c)' <= server_seq'
<1>1. /\ server_seq \in Nat /\ server_seq' \in Nat /\ server_seq <= server_seq'
      /\ MaxSent(c) \in Nat /\ MaxSent(c)' \in Nat /\ MaxSent(c) <= server_seq
  BY SeqStep DEF TypeOK, SeqTypes, VersionRecords, SeqInv, MaxSent
<1>2. base \in [Connections -> Nat] /\ out \in [Connections -> Seq(Frames)]
  BY DEF TypeOK, ClientTypes
<1>3. ASSUME Keeps(c), base'[c] = base[c]
      PROVE  FramesMove(c) /\ MaxSent(c) <= MaxSent(c)' /\ MaxSent(c)' <= server_seq'
  BY <1>1, <1>3 DEF Keeps, FramesMove
<1>4. ASSUME NEW seq \in Nat, NEW frames \in FramesOf(seq), Gets(c, frames, seq), base'[c] = base[c]
      PROVE  FramesMove(c) /\ MaxSent(c) <= MaxSent(c)' /\ MaxSent(c)' <= server_seq'
  <2>1. /\ out'[c] = out[c] \o frames
        /\ MaxSent(c) <= seq /\ seq <= server_seq' /\ MaxSent(c)' = seq
    BY <1>4 DEF Gets
  <2>2. seq <= MaxSent(c)' BY <2>1
  <2>3. FramesMove(c) BY <1>4, <2>1, <2>2, Zenon DEF FramesMove
  <2> QED BY <2>1, <2>3
<1>5. CASE Handle
  <2>1. base'[c] = base[c] BY <1>5 DEF Handle, client, view
  <2>2. Keeps(c) \/ \E seq \in Nat : \E frames \in News(seq) : Gets(c, frames, seq)
    BY <1>5, Handling DEF Tells
  <2>3. \A seq \in Nat : News(seq) \subseteq FramesOf(seq) BY DEF News
  <2> QED BY <1>3, <1>4, <2>1, <2>2, <2>3
<1>6. CASE Continue
  <2>1. base'[c] = base[c] BY <1>6 DEF Continue, client, view
  <2>2. CASE Tells
    <3>1. Keeps(c) \/ \E seq \in Nat : \E frames \in News(seq) : Gets(c, frames, seq)
      BY <2>2 DEF Tells
    <3>2. \A seq \in Nat : News(seq) \subseteq FramesOf(seq) BY DEF News
    <3> QED BY <1>3, <1>4, <2>1, <3>1, <3>2
  <2>3. CASE Acks
    <3> DEFINE step == Head(todo)
               frame == Ack(step.id, server_seq, step.answer)
    <3>1. step \in Steps /\ step.op = "ack" BY <1>6, <2>3, Continuing DEF Acks
    <3>2. step.id \in Ids /\ step.answer \in Answers BY <3>1, StepParts
    <3>3. frame \in Frames /\ frame.seq = server_seq BY <1>1, <3>2, AckFrame
    <3>4. <<frame>> \in FramesOf(server_seq) BY <1>1, <3>3, OneFrame
    <3>5. Keeps(c) \/ Gets(c, <<frame>>, server_seq) BY <2>3 DEF Acks
    <3> HIDE DEF frame
    <3> QED BY <1>1, <1>3, <1>4, <2>1, <3>4, <3>5
  <2> QED BY <1>6, <2>2, <2>3, Continuing
<1>7. CASE UNCHANGED seqs
  <2>1. MaxSent(c) <= MaxSent(c)' /\ MaxSent(c)' <= server_seq' BY <1>1, <1>7 DEF seqs, MaxSent
  <2>2. ASSUME NEW d \in Connections, IoStep(d) PROVE FramesMove(c)
    <3>1. base'[c] = base[c] BY <2>2 DEF IoStep, view
    <3>2. io[d] \in Seq(IoSteps) /\ io[d] # <<>> BY <2>2 DEF IoStep, TypeOK, QueueTypes
    <3>3. Head(io[d]) \in IoSteps BY <3>2
    <3>4. CASE UNCHANGED out BY <3>1, <3>4 DEF FramesMove
    <3>5. ASSUME NEW f \in Frames, f.seq = 0, Deliver({d}, <<f>>) PROVE FramesMove(c)
      <4>1. <<f>> \in FramesOf(0) BY <3>5, OneFrame
      <4>2. out'[c] = out[c] \/ out'[c] = out[c] \o <<f>> BY <1>2, <3>5 DEF Deliver
      <4> QED BY <3>1, <4>1, <4>2, Zenon DEF FramesMove
    <3>6. CASE Deliver({d}, <<Handshake>>) BY <3>5, <3>6, HandshakeFrame
    <3>7. CASE /\ Head(io[d]).op = "answer"
               /\ Deliver({d}, <<Ack(Head(io[d]).id, 0, Head(io[d]).answer)>>)
      <4>1. Head(io[d]).id \in Ids /\ Head(io[d]).answer \in Answers BY <3>3, <3>7, IoStepParts
      <4> QED BY <3>5, <3>7, <4>1, AckFrame
    <3> QED BY <2>2, <3>4, <3>6, <3>7 DEF IoStep
  <2>3. ASSUME NEW d \in Connections, OnClose(d) PROVE FramesMove(c)
    <3>1. base'[c] = base[c] BY <2>3 DEF OnClose, view
    <3>2. out'[c] = out[c] \/ out'[c] = <<>> BY <1>2, <2>3 DEF OnClose
    <3> QED BY <3>1, <3>2 DEF FramesMove
  <2>4. ASSUME NEW d \in Connections, Receive(d) PROVE FramesMove(c)
    <3>1. CASE d = c
      <4>1. out[c] # <<>> /\ out'[c] = Tail(out[c]) BY <1>2, <2>4, <3>1 DEF Receive
      <4>2. base'[c] = Larger(base[c], Head(out[c]).seq) BY <1>2, <2>4, <3>1 DEF Receive
      <4>3. Head(out[c]) = out[c][1] BY <1>2, <4>1
      <4> QED BY <4>1, <4>2, <4>3 DEF FramesMove
    <3>2. CASE d # c
      <4>1. base'[c] = base[c] /\ out'[c] = out[c] BY <1>2, <2>4, <3>2 DEF Receive
      <4> QED BY <4>1 DEF FramesMove
    <3> QED BY <3>1, <3>2
  <2>5. CASE UNCHANGED <<out, base>> BY <2>1, <2>5 DEF FramesMove
  <2> QED BY <1>5, <1>6, <2>1, <2>2, <2>3, <2>4, <2>5, Framed
<1> QED BY <1>5, <1>6, <1>7, Framed

\* Frames stay in order, and none is of a version that was not sent.
LEMMA OrderStep ==
  ASSUME TypeOK, SeqInv, TodoInv, OrderInv, [Next]_vars, NEW c \in Connections
  PROVE  /\ InOrder(base'[c], out'[c]) /\ base'[c] <= MaxSent(c)'
         /\ \A i \in DOMAIN out'[c] : out'[c][i].seq <= MaxSent(c)'
<1>1. /\ base[c] \in Nat /\ out[c] \in Seq(Frames) /\ out' \in [Connections -> Seq(Frames)]
      /\ MaxSent(c) \in Nat /\ MaxSent(c)' \in Nat
  BY SeqStep DEF TypeOK, ClientTypes, Sent, SeqTypes, VersionRecords, MaxSent
<1>2. /\ InOrder(base[c], out[c]) /\ base[c] <= MaxSent(c)
      /\ \A i \in DOMAIN out[c] : out[c][i].seq \in Nat /\ out[c][i].seq <= MaxSent(c)
  BY <1>1, FrameParts DEF OrderInv, SeqInv
<1>3. FramesMove(c) /\ MaxSent(c) <= MaxSent(c)' BY FramesMoved
<1>4. CASE base'[c] = base[c] /\ out'[c] = out[c] BY <1>1, <1>2, <1>3, <1>4
<1>5. CASE base'[c] = base[c] /\ out'[c] = <<>> BY <1>1, <1>2, <1>3, <1>5 DEF InOrder
<1>6. ASSUME base'[c] = base[c], NEW seq \in Nat, NEW frames \in FramesOf(seq),
             out'[c] = out[c] \o frames, seq = 0 \/ (MaxSent(c) <= seq /\ seq <= MaxSent(c)')
      PROVE  /\ InOrder(base'[c], out'[c]) /\ base'[c] <= MaxSent(c)'
             /\ \A i \in DOMAIN out'[c] : out'[c][i].seq <= MaxSent(c)'
  <2>1. seq = 0 \/ (base[c] <= seq /\ \A i \in DOMAIN out[c] : out[c][i].seq <= seq)
    BY <1>1, <1>2, <1>6
  <2>2. InOrder(base'[c], out'[c]) BY <1>1, <1>2, <1>6, <2>1, OrderAppended, Zenon
  <2>3. base'[c] <= MaxSent(c)' BY <1>1, <1>2, <1>3, <1>6
  <2>4. frames \in Seq(Frames) /\ \A i \in DOMAIN frames : frames[i].seq = seq BY DEF FramesOf
  <2>5. \A i \in DOMAIN out'[c] : (i \in DOMAIN out[c] /\ out'[c][i] = out[c][i]) \/ out'[c][i].seq = seq
    BY <1>1, <1>6, <2>4
  <2>6. seq <= MaxSent(c)' BY <1>1, <1>6
  <2>7. \A i \in DOMAIN out'[c] : out'[c][i].seq <= MaxSent(c)' BY <1>1, <1>2, <1>3, <2>5, <2>6
  <2> QED BY <2>2, <2>3, <2>7
<1>7. CASE out[c] # <<>> /\ out'[c] = Tail(out[c]) /\ base'[c] = Larger(base[c], out[c][1].seq)
  <2>1. InOrder(base'[c], out'[c]) BY <1>1, <1>2, <1>7, OrderReceived
  <2>2. 1 \in DOMAIN out[c] BY <1>1, <1>7
  <2>3. base'[c] <= MaxSent(c)' BY <1>1, <1>2, <1>3, <1>7, <2>2 DEF Larger
  <2>4. \A i \in DOMAIN out'[c] : i + 1 \in DOMAIN out[c] /\ out'[c][i] = out[c][i + 1]
    BY <1>1, <1>7
  <2>5. \A i \in DOMAIN out'[c] : out'[c][i].seq <= MaxSent(c)' BY <1>1, <1>2, <1>3, <2>4
  <2> QED BY <2>1, <2>3, <2>5
<1> QED BY <1>3, <1>4, <1>5, <1>6, <1>7, Zenon DEF FramesMove

\* What a step puts under way to the server: requests that were under way, or a new one of
\* this client with the version it has.
LEMMA RequestsMoved ==
  ASSUME TypeOK, [Next]_vars, NEW c \in Connections
  PROVE  \A i \in DOMAIN in'[c] :
           \/ \E j \in DOMAIN in[c] : in'[c][i] = in[c][j]
           \/ in'[c][i].origin = c /\ (in'[c][i].kind = "update" => in'[c][i].base = base[c])
<1> DEFINE Moved == \A i \in DOMAIN in'[c] :
             \/ \E j \in DOMAIN in[c] : in'[c][i] = in[c][j]
             \/ in'[c][i].origin = c /\ (in'[c][i].kind = "update" => in'[c][i].base = base[c])
<1> SUFFICES Moved OBVIOUS
<1>1. in \in [Connections -> Seq(Requests)] BY DEF TypeOK, ClientTypes
<1>2. in[c] \in Seq(Requests) BY <1>1
<1>3. CASE in'[c] = in[c] BY <1>3
<1>4. CASE in'[c] = <<>> BY <1>4
<1>5. CASE in[c] # <<>> /\ in'[c] = Tail(in[c])
  <2>1. \A i \in DOMAIN in'[c] : i + 1 \in DOMAIN in[c] /\ in'[c][i] = in[c][i + 1] BY <1>2, <1>5
  <2> QED BY <2>1
<1>6. ASSUME NEW m, in'[c] = Append(in[c], m), m.origin = c, m.kind = "update" => m.base = base[c]
      PROVE  Moved
  <2>1. \A i \in DOMAIN in'[c] : (i \in DOMAIN in[c] /\ in'[c][i] = in[c][i]) \/ in'[c][i] = m
    BY <1>2, <1>6
  <2> QED BY <1>6, <2>1
<1> HIDE DEF Moved
<1>7. ASSUME NEW d \in Connections, NEW requests, in' = [in EXCEPT ![d] = requests]
      PROVE  in'[c] = IF d = c THEN requests ELSE in[c]
  BY <1>1, <1>7
<1>8. ASSUME NEW d \in Connections, OnMessage(d) PROVE Moved
  BY <1>1, <1>3, <1>5, <1>8 DEF OnMessage
<1>9. ASSUME NEW d \in Connections, OnClose(d) PROVE Moved
  BY <1>1, <1>3, <1>4, <1>9 DEF OnClose
<1>10. ASSUME NEW d \in Connections, SendUpdate(d) PROVE Moved
  <2>1. PICK p \in Prims, shape \in Shapes :
          LET n == sent[d]["update"] + 1
          IN  in' = [in EXCEPT ![d] = Append(@,
                [kind |-> "update", origin |-> d, id |-> <<"update", n>>, prim |-> p,
                 shape |-> shape, value |-> <<d, n>>, base |-> base[d]])]
    BY <1>10, Zenon DEF SendUpdate
  <2> DEFINE m == [kind |-> "update", origin |-> d, id |-> <<"update", sent[d]["update"] + 1>>,
                   prim |-> p, shape |-> shape, value |-> <<d, sent[d]["update"] + 1>>,
                   base |-> base[d]]
  <2>2. in' = [in EXCEPT ![d] = Append(in[d], m)] BY <2>1
  <2>3. m.origin = d /\ m.base = base[d] OBVIOUS
  <2> HIDE DEF m
  <2> QED BY <1>3, <1>6, <1>7, <2>2, <2>3
<1>11. ASSUME NEW d \in Connections, SendSetActive(d) PROVE Moved
  <2>1. PICK p \in Prims, active \in BOOLEAN :
          in' = [in EXCEPT ![d] = Append(@,
            [kind |-> "active", origin |-> d, id |-> <<"active", sent[d]["active"] + 1>>,
             prim |-> p, active |-> active])]
    BY <1>11, Zenon DEF SendSetActive
  <2> DEFINE m == [kind |-> "active", origin |-> d, id |-> <<"active", sent[d]["active"] + 1>>,
                   prim |-> p, active |-> active]
  <2>2. in' = [in EXCEPT ![d] = Append(in[d], m)] BY <2>1
  <2>3. m.origin = d /\ m.kind # "update" OBVIOUS
  <2> HIDE DEF m
  <2> QED BY <1>3, <1>6, <1>7, <2>2, <2>3
<1>12. ASSUME NEW d \in Connections, SendCreate(d) PROVE Moved
  <2> DEFINE m == [kind |-> "create", origin |-> d, id |-> <<"create", sent[d]["create"] + 1>>]
  <2>1. in' = [in EXCEPT ![d] = Append(in[d], m)] BY <1>12 DEF SendCreate
  <2>2. m.origin = d /\ m.kind # "update" OBVIOUS
  <2> HIDE DEF m
  <2> QED BY <1>3, <1>6, <1>7, <2>1, <2>2
<1>13. CASE UNCHANGED in BY <1>3, <1>13
<1> QED BY <1>8, <1>9, <1>10, <1>11, <1>12, <1>13, Framed

\* What a step leaves in the mailbox: what was in it, a request that was under way, or
\* something else than an update.
LEMMA MailMoved ==
  ASSUME TypeOK, [Next]_vars
  PROVE  \A i \in DOMAIN mailbox' :
           \/ \E j \in DOMAIN mailbox : mailbox'[i] = mailbox[j]
           \/ \E c \in Connections : \E j \in DOMAIN in[c] : mailbox'[i] = in[c][j]
           \/ mailbox'[i].kind # "update"
<1> DEFINE Old(m) == \/ \E j \in DOMAIN mailbox : m = mailbox[j]
                     \/ \E c \in Connections : \E j \in DOMAIN in[c] : m = in[c][j]
                     \/ m.kind # "update"
<1> SUFFICES \A i \in DOMAIN mailbox' : Old(mailbox'[i]) OBVIOUS
<1>1. mailbox \in Seq(Commands) BY DEF TypeOK, QueueTypes
<1>2. \A i \in DOMAIN mailbox : Old(mailbox[i]) OBVIOUS
<1>3. ASSUME NEW c \in Connections, NEW j \in DOMAIN in[c] PROVE Old(in[c][j]) OBVIOUS
<1>4. ASSUME NEW m, m.kind # "update" PROVE Old(m) BY <1>4
<1> HIDE DEF Old
<1>5. CASE UNCHANGED mailbox BY <1>2, <1>5
<1>6. CASE mailbox # <<>> /\ mailbox' = Tail(mailbox)
  <2>1. \A i \in DOMAIN mailbox' : i + 1 \in DOMAIN mailbox /\ mailbox'[i] = mailbox[i + 1]
    BY <1>1, <1>6
  <2> QED BY <1>2, <2>1
<1>7. ASSUME NEW m, mailbox' = Append(mailbox, m), Old(m)
      PROVE  \A i \in DOMAIN mailbox' : Old(mailbox'[i])
  <2>1. \A i \in DOMAIN mailbox' : (i \in DOMAIN mailbox /\ mailbox'[i] = mailbox[i]) \/ mailbox'[i] = m
    BY <1>1, <1>7
  <2> QED BY <1>2, <1>7, <2>1
<1>8. CASE Handle BY <1>5, <1>6, <1>8 DEF Handle
<1>9. CASE SubmitReload
  <2> DEFINE m == [kind |-> "reload"]
  <2>1. UNCHANGED mailbox \/ mailbox' = Append(mailbox, m) BY <1>9 DEF SubmitReload
  <2>2. Old(m) BY <1>4
  <2> HIDE DEF m
  <2> QED BY <1>5, <1>7, <2>1, <2>2
<1>10. ASSUME NEW c \in Connections, OnMessage(c) PROVE \A i \in DOMAIN mailbox' : Old(mailbox'[i])
  <2>1. UNCHANGED mailbox \/ mailbox' = Append(mailbox, Head(in[c])) BY <1>10 DEF OnMessage
  <2>2. in[c] \in Seq(Requests) /\ in[c] # <<>> BY <1>10 DEF OnMessage, TypeOK, ClientTypes
  <2>3. 1 \in DOMAIN in[c] /\ Head(in[c]) = in[c][1] BY <2>2
  <2>4. Old(Head(in[c])) BY <1>3, <2>3
  <2> QED BY <1>5, <1>7, <2>1, <2>4
<1>11. ASSUME NEW c \in Connections, IoStep(c) PROVE \A i \in DOMAIN mailbox' : Old(mailbox'[i])
  <2> DEFINE m == [kind |-> "join", origin |-> c]
  <2>1. UNCHANGED mailbox \/ mailbox' = Append(mailbox, m) BY <1>11 DEF IoStep
  <2>2. Old(m) BY <1>4
  <2> HIDE DEF m
  <2> QED BY <1>5, <1>7, <2>1, <2>2
<1> QED BY <1>5, <1>8, <1>9, <1>10, <1>11, Framed

\* Every step keeps versions, requests and frames in step with each other.
LEMMA SeqInvStep ==
  ASSUME TypeOK, SeqInv, MailInv, OrderInv, TodoInv, [Next]_vars
  PROVE  SeqInv' /\ MailInv' /\ OrderInv'
<1>1. TypeOK' BY TypeStep
<1>2. \A c \in Connections :
        /\ MaxSent(c) \in Nat /\ MaxSent(c)' \in Nat /\ base[c] \in Nat
        /\ MaxSent(c) <= MaxSent(c)' /\ MaxSent(c)' <= server_seq'
  BY <1>1, FramesMoved DEF TypeOK, SeqTypes, ClientTypes, VersionRecords, MaxSent
<1>3. ASSUME NEW c \in Connections
      PROVE  /\ base'[c] <= MaxSent(c)'
             /\ \A i \in DOMAIN out'[c] : out'[c][i].seq <= MaxSent(c)'
             /\ InOrder(base'[c], out'[c])
  BY OrderStep
<1>4. ASSUME NEW c \in Connections, NEW j \in DOMAIN in[c]
      PROVE  /\ in[c][j].origin = c
             /\ in[c][j].kind = "update" => in[c][j].base \in Nat /\ in[c][j].base <= MaxSent(c)'
  <2>1. in[c][j] \in Requests BY DEF TypeOK, ClientTypes
  <2>2. in[c][j].origin = c /\ (in[c][j].kind = "update" => in[c][j].base <= MaxSent(c))
    BY DEF SeqInv
  <2>3. in[c][j].kind = "update" => in[c][j].base \in Nat BY <2>1, RequestParts
  <2> QED BY <1>2, <2>2, <2>3
<1>5. ASSUME NEW c \in Connections, NEW i \in DOMAIN in'[c]
      PROVE  in'[c][i].origin = c /\ (in'[c][i].kind = "update" => in'[c][i].base <= MaxSent(c)')
  <2>1. CASE \E j \in DOMAIN in[c] : in'[c][i] = in[c][j] BY <1>4, <2>1
  <2>2. CASE in'[c][i].origin = c /\ (in'[c][i].kind = "update" => in'[c][i].base = base[c])
    <3>1. base[c] <= MaxSent(c) BY DEF SeqInv
    <3> QED BY <1>2, <2>2, <3>1
  <2> QED BY <2>1, <2>2, RequestsMoved
<1>6. SeqInv' BY <1>2, <1>3, <1>5 DEF SeqInv
<1>7. OrderInv' BY <1>3 DEF OrderInv
<1>8. ASSUME NEW i \in DOMAIN mailbox', mailbox'[i].kind = "update"
      PROVE  mailbox'[i].base <= versions'.max_sent_seq[mailbox'[i].origin]
  <2>1. ASSUME NEW j \in DOMAIN mailbox, mailbox'[i] = mailbox[j]
        PROVE  mailbox'[i].base <= versions'.max_sent_seq[mailbox'[i].origin]
    <3>1. mailbox[j] \in Commands BY DEF TypeOK, QueueTypes
    <3>2. mailbox[j].base \in Nat /\ mailbox[j].origin \in Connections
      BY <1>8, <2>1, <3>1, CommandParts DEF Kinds
    <3>3. mailbox[j].base <= MaxSent(mailbox[j].origin) BY <1>8, <2>1 DEF MailInv
    <3>4. /\ MaxSent(mailbox[j].origin) \in Nat
          /\ versions'.max_sent_seq[mailbox[j].origin] \in Nat
          /\ MaxSent(mailbox[j].origin) <= versions'.max_sent_seq[mailbox[j].origin]
      BY <1>2, <3>2 DEF MaxSent
    <3> QED BY <2>1, <3>2, <3>3, <3>4
  <2>2. ASSUME NEW c \in Connections, NEW j \in DOMAIN in[c], mailbox'[i] = in[c][j]
        PROVE  mailbox'[i].base <= versions'.max_sent_seq[mailbox'[i].origin]
    BY <1>4, <1>8, <2>2 DEF MaxSent
  <2> QED BY <1>8, <2>1, <2>2, MailMoved
<1>9. MailInv' BY <1>8 DEF MailInv, MaxSent
<1> QED BY <1>6, <1>7, <1>9

\* Every step keeps what is left of a handler in step with the session.
LEMMA TodoInvStep ==
  ASSUME TypeOK, SeqInv, MailInv, TodoInv, [Next]_vars
  PROVE  TodoInv'
<1>1. todo \in Seq(Steps) /\ mailbox \in Seq(Commands) BY DEF TypeOK, QueueTypes
<1>2. CASE UNCHANGED <<seqs, todo>> BY <1>2 DEF TodoInv, NeverInvalidBase, seqs
<1>3. ASSUME \A i \in DOMAIN todo' : /\ todo'[i].op = "ack" => todo'[i].answer # "InvalidBase"
                                     /\ todo'[i].op # "snapshot"
      PROVE  TodoInv'
  BY <1>3 DEF TodoInv, NeverInvalidBase
<1>4. CASE Continue
  <2>1. todo # <<>> /\ todo' = Tail(todo) BY <1>4 DEF Continue
  <2>2. \A i \in DOMAIN todo' : i + 1 \in DOMAIN todo /\ todo'[i] = todo[i + 1] /\ Len(todo) # 1
    BY <1>1, <2>1
  <2> QED BY <1>3, <2>2 DEF TodoInv, NeverInvalidBase
<1>5. CASE Handle
  <2>1. CASE HandlesRequest
    <3> DEFINE m == Head(mailbox)
    <3>1. m = mailbox[1] /\ 1 \in DOMAIN mailbox BY <1>1, <2>1 DEF HandlesRequest
    <3>2. m \in Requests BY <2>1 DEF HandlesRequest
    <3>3. m.kind = "update" => m.base <= MaxSent(m.origin) BY <3>1 DEF MailInv
    <3>4. PICK answer \in Answers :
            /\ answer = "InvalidBase" => m.kind = "update" /\ m.base > MaxSent(m.origin)
            /\ \/ todo' = <<AckLater(m, answer)>>
               \/ \E p \in Prims : todo' = <<AckLater(m, answer), Correct(m.origin, p)>>
      BY <2>1 DEF HandlesRequest
    <3>5. m.kind = "update" => MaxSent(m.origin) \in Nat /\ m.base \in Nat
      BY <3>2, RequestParts DEF TypeOK, SeqTypes, VersionRecords, MaxSent
    <3>6. answer # "InvalidBase" BY <3>3, <3>4, <3>5
    <3>7. AckLater(m, answer).op = "ack" /\ AckLater(m, answer).answer = answer BY DEF AckLater
    <3>8. \A p \in Prims : Correct(m.origin, p).op = "correct" BY DEF Correct
    <3> HIDE DEF m
    <3>9. CASE todo' = <<AckLater(m, answer)>> BY <1>3, <3>6, <3>7, <3>9
    <3>10. ASSUME NEW p \in Prims, todo' = <<AckLater(m, answer), Correct(m.origin, p)>>
           PROVE  TodoInv'
      <4>1. \A i \in DOMAIN todo' : todo'[i] = AckLater(m, answer) \/ todo'[i] = Correct(m.origin, p)
        BY <3>10
      <4> QED BY <1>3, <3>6, <3>7, <3>8, <4>1
    <3> QED BY <3>4, <3>9, <3>10
  <2>2. CASE HandlesOther
    <3>1. CASE todo' = <<>> BY <1>3, <3>1
    <3>2. ASSUME NEW c \in Connections, todo' = <<Snapshot(c)>>, UNCHANGED server_seq
          PROVE  TodoInv'
      <4>1. server_seq \in Nat BY DEF TypeOK, SeqTypes
      <4>2. SnapshotFrames(server_seq) \in News(server_seq) BY <4>1, SnapshotVersion DEF TypeOK
      <4>3. /\ Snapshot(c).op = "snapshot" /\ Snapshot(c).seq = server_seq
            /\ Snapshot(c).frames = SnapshotFrames(server_seq)
        BY DEF Snapshot
      <4>4. Len(todo') = 1 /\ \A i \in DOMAIN todo' : todo'[i] = Snapshot(c) BY <3>2
      <4> QED BY <3>2, <4>2, <4>3, <4>4 DEF TodoInv, NeverInvalidBase
    <3> QED BY <2>2, <3>1, <3>2 DEF HandlesOther
  <2>3. CASE HandlesCorrection
    <3>1. \A i \in DOMAIN todo' : todo'[i].op = "correct" BY <2>3 DEF HandlesCorrection, Correct
    <3> QED BY <1>3, <3>1
  <2> QED BY <1>5, <2>1, <2>2, <2>3, Handling
<1> QED BY <1>2, <1>4, <1>5, Framed
-----------------------------------------------------------------------------
(* Corrections. *)

\* A mark says whether a correction is queued.
Marked(c, p) ==
  IF <<c, p>> \in queued THEN One(Positions(priority, Correcting(c, p)))
                         ELSE Positions(priority, Correcting(c, p)) = {}

\* The property, mark by mark.
LEMMA AllMarked ==
  /\ OneCorrectionQueued <=> \A c \in Connections, p \in Prims : Marked(c, p)
  /\ OneCorrectionQueued' <=> \A c \in Connections, p \in Prims : Marked(c, p)'
<1>1. ASSUME NEW found PROVE (\E i \in found : found = {i}) <=> One(found)
  BY DEF One
<1>2. OneCorrectionQueued <=> \A c \in Connections, p \in Prims : Marked(c, p)
  BY <1>1 DEF OneCorrectionQueued, Marked
<1>3. OneCorrectionQueued' <=> \A c \in Connections, p \in Prims : Marked(c, p)'
  BY <1>1, Zenon DEF OneCorrectionQueued, Marked, Positions, Correcting
<1> QED BY <1>2, <1>3

\* Positions after a step.
LEMMA MarkedAfter ==
  ASSUME NEW c, NEW p
  PROVE  Marked(c, p)' <=> IF <<c, p>> \in queued'
                             THEN One(Positions(priority', Correcting(c, p)))
                             ELSE Positions(priority', Correcting(c, p)) = {}
BY DEF Marked, Positions, Correcting, One

\* The queue of corrections and the marks stay as they are.
LEMMA MarksKept ==
  ASSUME OneCorrectionQueued, UNCHANGED <<priority, queued>>
  PROVE  OneCorrectionQueued'
<1>1. ASSUME NEW c \in Connections, NEW p \in Prims PROVE Marked(c, p)'
  <2>1. Marked(c, p) BY AllMarked
  <2> QED BY <2>1, MarkedAfter DEF Marked
<1> QED BY <1>1, AllMarked

\* A correction is queued, and marked.
LEMMA MarkSet ==
  ASSUME TypeOK, OneCorrectionQueued, NEW d \in Connections, NEW q \in Prims,
         <<d, q>> \notin queued,
         priority' = Append(priority, [kind |-> "correction", origin |-> d, prim |-> q]),
         queued' = queued \cup {<<d, q>>}
  PROVE  OneCorrectionQueued'
<1> DEFINE m == [kind |-> "correction", origin |-> d, prim |-> q]
<1> SUFFICES ASSUME NEW c \in Connections, NEW p \in Prims PROVE Marked(c, p)'
  BY AllMarked
<1>1. Marked(c, p) BY AllMarked
<1>2. priority \in Seq(Corrections) BY DEF TypeOK, QueueTypes
<1>3. m \in Corrections BY DEF Corrections
<1>4. m \in Correcting(c, p) <=> <<c, p>> = <<d, q>> BY <1>3 DEF Correcting
<1>5. priority' = Append(priority, m) OBVIOUS
<1> HIDE DEF m
<1>6. CASE <<c, p>> = <<d, q>>
  <2>1. m \in Correcting(c, p) BY <1>4, <1>6
  <2>2. <<c, p>> \notin queued /\ <<c, p>> \in queued' BY <1>6
  <2>3. Positions(priority, Correcting(c, p)) = {} BY <1>1, <2>2 DEF Marked
  <2>4. One(Positions(Append(priority, m), Correcting(c, p)))
    BY <1>2, <1>3, <2>1, <2>3, OneAppended, Zenon
  <2>5. One(Positions(priority', Correcting(c, p))) BY <1>5, <2>4
  <2> QED BY <2>2, <2>5, MarkedAfter
<1>7. CASE <<c, p>> # <<d, q>>
  <2>1. m \notin Correcting(c, p) BY <1>4, <1>7
  <2>2. <<c, p>> \in queued' <=> <<c, p>> \in queued BY <1>7
  <2>3. Positions(Append(priority, m), Correcting(c, p)) = Positions(priority, Correcting(c, p))
    BY <1>2, <1>3, <2>1, OneAppended, Zenon
  <2>4. Positions(priority', Correcting(c, p)) = Positions(priority, Correcting(c, p))
    BY <1>5, <2>3
  <2> QED BY <1>1, <2>2, <2>4, MarkedAfter DEF Marked
<1> QED BY <1>6, <1>7

\* A correction is taken, and its mark cleared.
LEMMA MarkCleared ==
  ASSUME TypeOK, OneCorrectionQueued, HandlesCorrection
  PROVE  OneCorrectionQueued'
<1> DEFINE m == Head(priority)
<1> SUFFICES ASSUME NEW c \in Connections, NEW p \in Prims PROVE Marked(c, p)'
  BY AllMarked
<1>1. Marked(c, p) BY AllMarked
<1>2. /\ priority \in Seq(Corrections) /\ priority # <<>> /\ priority' = Tail(priority)
      /\ queued' = queued \ {<<m.origin, m.prim>>}
  BY DEF TypeOK, QueueTypes, HandlesCorrection
<1>3. m \in Corrections BY <1>2
<1>4. m \in Correcting(c, p) <=> m.origin = c /\ m.prim = p BY <1>3 DEF Correcting
<1>5. /\ m \notin Correcting(c, p) =>
           Same(Positions(priority, Correcting(c, p)), Positions(priority', Correcting(c, p)))
      /\ m \in Correcting(c, p) =>
           /\ Positions(priority, Correcting(c, p)) # {}
           /\ One(Positions(priority, Correcting(c, p))) => Positions(priority', Correcting(c, p)) = {}
  BY <1>2, FirstGone
<1> HIDE DEF m
<1>6. CASE m \in Correcting(c, p)
  <2>1. One(Positions(priority, Correcting(c, p))) BY <1>1, <1>5, <1>6 DEF Marked
  <2>2. Positions(priority', Correcting(c, p)) = {} BY <1>5, <1>6, <2>1
  <2>3. <<c, p>> \notin queued' BY <1>2, <1>4, <1>6
  <2> QED BY <2>2, <2>3, MarkedAfter
<1>7. CASE m \notin Correcting(c, p)
  <2>1. <<m.origin, m.prim>> # <<c, p>> BY <1>4, <1>7
  <2>2. <<c, p>> \in queued' <=> <<c, p>> \in queued BY <1>2, <2>1
  <2>3. Same(Positions(priority, Correcting(c, p)), Positions(priority', Correcting(c, p)))
    BY <1>5, <1>7
  <2> QED BY <1>1, <2>2, <2>3, MarkedAfter DEF Marked, Same
<1> QED BY <1>6, <1>7

\* Marks and corrections agree after every step.
LEMMA CorrectionStep ==
  ASSUME TypeOK, SeqInv, OneCorrectionQueued, [Next]_vars
  PROVE  OneCorrectionQueued'
<1>1. CASE UNCHANGED <<priority, queued>> BY <1>1, MarksKept
<1>2. CASE Handle
  <2>1. CASE HandlesRequest \/ HandlesOther BY <1>1, <2>1 DEF HandlesRequest, HandlesOther
  <2>2. CASE HandlesCorrection BY <2>2, MarkCleared
  <2> QED BY <1>2, <2>1, <2>2, Handling
<1>3. CASE Continue BY <1>1, <1>3 DEF Continue, queues
<1>4. CASE Upload \/ SubmitReload \/ Destroy \/ Teardown
  BY <1>1, <1>4 DEF Upload, SubmitReload, Destroy, Teardown, queues
<1>5. ASSUME NEW c \in Connections, OnOpen(c) \/ OnMessage(c) \/ OnClose(c)
      PROVE  UNCHANGED <<priority, queued>>
  BY <1>5 DEF OnOpen, OnMessage, OnClose, queues
<1>6. ASSUME NEW c \in Connections, IoStep(c) PROVE OneCorrectionQueued'
  <2> DEFINE step == Head(io[c])
  <2>1. step \in IoSteps BY <1>6 DEF IoStep, TypeOK, QueueTypes
  <2>2. UNCHANGED <<priority, queued>> \/ (step.op = "correction" /\ SubmitCorrection(c, step.prim))
    BY <1>6 DEF IoStep
  <2>3. CASE step.op = "correction" /\ SubmitCorrection(c, step.prim)
    <3>1. step.prim \in Prims BY <2>1, <2>3, IoStepParts
    <3> HIDE DEF step
    <3>2. \/ UNCHANGED <<priority, queued>>
          \/ /\ <<c, step.prim>> \notin queued
             /\ priority' = Append(priority, [kind |-> "correction", origin |-> c, prim |-> step.prim])
             /\ queued' = queued \cup {<<c, step.prim>>}
      BY <2>3 DEF SubmitCorrection
    <3> QED BY <1>1, <3>1, <3>2, MarkSet
  <2> QED BY <1>1, <2>2, <2>3
<1>7. ASSUME NEW c \in Connections, SendUpdate(c) \/ SendSetActive(c) \/ SendCreate(c) \/ Receive(c)
      PROVE  UNCHANGED <<priority, queued>>
  BY <1>7, Zenon DEF SendUpdate, SendSetActive, SendCreate, Receive, server, queues
<1>8. CASE UNCHANGED vars BY <1>1, <1>8 DEF vars, server, queues
<1> QED BY <1>1, <1>2, <1>3, <1>4, <1>5, <1>6, <1>7, <1>8, Zenon DEF Next
-----------------------------------------------------------------------------
(* The theorems. *)

\* Every step preserves the invariant.
LEMMA InvStep == Inv /\ [Next]_vars => Inv'
<1> SUFFICES ASSUME Inv, [Next]_vars PROVE Inv' OBVIOUS
<1>1. TypeOK /\ SeqInv /\ MailInv /\ OrderInv /\ TodoInv BY DEF Inv
<1>2. TypeOK' BY <1>1, TypeStep
<1>3. SeqInv' /\ MailInv' /\ OrderInv' BY <1>1, SeqInvStep
<1>4. TodoInv' BY <1>1, TodoInvStep
<1> QED BY <1>2, <1>3, <1>4 DEF Inv

\* The inductive invariant holds, for any prims, connections, queue bounds and numbers of
\* requests and uploads.
THEOREM Inv_Always == Spec => []Inv
<1> QED BY InitInv, InvStep, PTL DEF Spec

\* Types, and the limits of the two command queues and of a handler.
THEOREM Type_Correct == Spec => []TypeOK
<1>1. Inv => TypeOK BY DEF Inv
<1> QED BY <1>1, Inv_Always, PTL

\* Versions reach every client in order, and no client that follows the rules is told
\* invalid_base.
THEOREM Versions_Agreed == Spec => []VersionsAgreed
<1>1. ASSUME Inv PROVE VersionsAgreed
  <2>1. NeverInvalidBase BY <1>1 DEF Inv, TodoInv
  <2>2. ASSUME NEW c \in Connections, NEW i \in DOMAIN out[c], out[c][i].seq # 0
        PROVE  /\ out[c][i].seq >= base[c]
               /\ \A j \in i + 1 .. Len(out[c]) : out[c][j].seq # 0 => out[c][i].seq <= out[c][j].seq
    <3>1. InOrder(base[c], out[c]) BY <1>1 DEF Inv, OrderInv
    <3> QED BY <2>2, <3>1 DEF InOrder
  <2>3. VersionsNeverGoDown BY <2>2 DEF VersionsNeverGoDown
  <2> QED BY <2>1, <2>3 DEF VersionsAgreed
<1> QED BY <1>1, Inv_Always, PTL

\* Every step keeps the answers and the corrections.
LEMMA AnswersStep ==
  Inv /\ AckInv /\ OneCorrectionQueued /\ [Next]_vars => AckInv' /\ OneCorrectionQueued'
<1> SUFFICES ASSUME Inv, AckInv, OneCorrectionQueued, [Next]_vars
             PROVE  AckInv' /\ OneCorrectionQueued'
  OBVIOUS
<1>1. TypeOK /\ SeqInv /\ TodoInv BY DEF Inv
<1>2. AckInv' BY <1>1, Handling, Continuing, AckInvStep DEF Handled, Continued
<1>3. OneCorrectionQueued' BY <1>1, CorrectionStep
<1> QED BY <1>2, <1>3

\* Every request of a connected client is answered by exactly one Ack, and at most one
\* correction per connection and prim is queued.
THEOREM Answered_Once == Spec => []AnsweredOnce
<1>1. ASSUME Inv, AckInv, OneCorrectionQueued PROVE AnsweredOnce
  <2>1. ASSUME NEW c \in Connections, status[c] = "open", NEW kind \in Kinds,
               NEW n \in 1 .. sent[c][kind]
        PROVE  IF <<kind, n>> \in awaiting[c]
                 THEN \E place \in Places(c, <<kind, n>>) : Places(c, <<kind, n>>) = {place}
                 ELSE Places(c, <<kind, n>>) = {}
    <3> DEFINE id == <<kind, n>>
    <3>1. sent[c][kind] \in Nat BY <1>1 DEF Inv, TypeOK, ClientTypes
    <3>2. id \in Ids BY <3>1 DEF Ids
    <3> HIDE DEF id
    <3>3. PairInv(c, id) BY <1>1, <2>1, <3>2 DEF AckInv
    <3>4. IF id \in awaiting[c] THEN \E place \in Places(c, id) : Places(c, id) = {place}
                                ELSE Places(c, id) = {}
      BY <3>2, <3>3, PlacesFound DEF PairInv
    <3> QED BY <3>4 DEF id
  <2>2. ExactlyOneAck BY <2>1 DEF ExactlyOneAck
  <2> QED BY <1>1, <2>2 DEF AnsweredOnce
<1>2. Init => Inv /\ AckInv /\ OneCorrectionQueued BY InitInv, InitAnswers
<1>3. Inv /\ AckInv /\ OneCorrectionQueued /\ [Next]_vars
      => (Inv /\ AckInv /\ OneCorrectionQueued)'
  BY InvStep, AnswersStep
<1> QED BY <1>1, <1>2, <1>3, PTL DEF Spec
=============================================================================
