---------------------------- MODULE AnswerProofs ----------------------------
(***************************************************************************)
(* Proofs about SessionProtocol, for any number of clients, prims and      *)
(* requests: every step that handles and continues commands as             *)
(* ProtocolInvariant says keeps the Ack of a request in one place.         *)
(***************************************************************************)
EXTENDS ProtocolInvariant, TLAPS

-----------------------------------------------------------------------------
(* Positions in a queue. *)

\* Other messages at the end of a queue.
LEMMA OtherAppended ==
  ASSUME NEW S, NEW q \in Seq(S), NEW messages, NEW r \in Seq(S),
         \A i \in DOMAIN r : r[i] \notin messages
  PROVE  Positions(q \o r, messages) = Positions(q, messages)
<1>1. DOMAIN q \subseteq DOMAIN (q \o r) /\ \A i \in DOMAIN q : (q \o r)[i] = q[i] OBVIOUS
<1>2. \A i \in DOMAIN (q \o r) : i \in DOMAIN q \/ (q \o r)[i] \notin messages
  <2>1. \A i \in DOMAIN (q \o r) :
          i \in DOMAIN q \/ (i - Len(q) \in DOMAIN r /\ (q \o r)[i] = r[i - Len(q)])
    OBVIOUS
  <2> QED BY <2>1
<1> QED BY <1>1, <1>2 DEF Positions

\* One such message.
LEMMA OneAppended ==
  ASSUME NEW S, NEW q \in Seq(S), NEW messages, NEW m \in S
  PROVE  /\ m \notin messages => Positions(Append(q, m), messages) = Positions(q, messages)
         /\ m \in messages /\ Positions(q, messages) = {} => One(Positions(Append(q, m), messages))
<1> DEFINE r == Append(q, m)
<1>1. /\ DOMAIN r = DOMAIN q \cup {Len(q) + 1} /\ r[Len(q) + 1] = m
      /\ \A i \in DOMAIN q : r[i] = q[i]
  OBVIOUS
<1> HIDE DEF r
<1>2. m \notin messages => Positions(r, messages) = Positions(q, messages)
  BY <1>1 DEF Positions
<1>3. m \in messages /\ Positions(q, messages) = {} => Positions(r, messages) = {Len(q) + 1}
  BY <1>1 DEF Positions
<1> QED BY <1>2, <1>3, Zenon DEF One, r

\* The first message leaves.
LEMMA FirstGone ==
  ASSUME NEW S, NEW q \in Seq(S), q # <<>>, NEW messages
  PROVE  /\ Head(q) \notin messages => Same(Positions(q, messages), Positions(Tail(q), messages))
         /\ Head(q) \in messages =>
              /\ Positions(q, messages) # {}
              /\ One(Positions(q, messages)) => Positions(Tail(q), messages) = {}
<1> DEFINE r == Tail(q)
           first == Head(q)
<1>1. /\ 1 \in DOMAIN q /\ q[1] = first /\ DOMAIN q \subseteq Int /\ DOMAIN r \subseteq Int
      /\ \A i \in DOMAIN r : i + 1 \in DOMAIN q /\ r[i] = q[i + 1] /\ i + 1 # 1
      /\ \A i \in DOMAIN q : i # 1 => i - 1 \in DOMAIN r /\ r[i - 1] = q[i]
  OBVIOUS
<1> HIDE DEF r, first
<1>2. \A i \in Positions(r, messages) : i \in Int /\ i + 1 \in Positions(q, messages) /\ i + 1 # 1
  BY <1>1 DEF Positions
<1>3. \A i \in Positions(q, messages) : i \in Int /\ (i # 1 => i - 1 \in Positions(r, messages))
  BY <1>1 DEF Positions
<1>4. first \in messages <=> 1 \in Positions(q, messages) BY <1>1 DEF Positions
<1>5. ASSUME first \notin messages
      PROVE  Same(Positions(q, messages), Positions(r, messages))
  <2>1. Positions(q, messages) = {} => Positions(r, messages) = {} BY <1>2
  <2>2. ASSUME NEW i, Positions(q, messages) = {i} PROVE Positions(r, messages) = {i - 1}
    <3>1. i \in Int /\ i - 1 \in Positions(r, messages) BY <1>3, <1>4, <1>5, <2>2
    <3>2. \A j \in Positions(r, messages) : j = i - 1 BY <1>2, <2>2, <3>1
    <3> QED BY <3>1, <3>2
  <2> QED BY <2>1, <2>2, Zenon DEF Same, One
<1>6. ASSUME first \in messages, NEW i, Positions(q, messages) = {i}
      PROVE  Positions(r, messages) = {}
  BY <1>2, <1>4, <1>6
<1> QED BY <1>4, <1>5, <1>6 DEF One, r, first
-----------------------------------------------------------------------------
(* Where the messages of a request are. *)

\* The same, queue by queue, before and after a step.
LEMMA FoundAt ==
  ASSUME NEW c, NEW id
  PROVE  /\ Found(c, id)["in"] = Positions(in[c], Asking(c, id))
         /\ Found(c, id)["mailbox"] = Positions(mailbox, Asking(c, id))
         /\ Found(c, id)["todo"] = Positions(todo, Settling(c, id))
         /\ Found(c, id)["io"] = Positions(io[c], Refusing(id))
         /\ Found(c, id)["out"] = Positions(out[c], Acking(id))
         /\ Found(c, id)'["in"] = Positions(in'[c], Asking(c, id))
         /\ Found(c, id)'["mailbox"] = Positions(mailbox', Asking(c, id))
         /\ Found(c, id)'["todo"] = Positions(todo', Settling(c, id))
         /\ Found(c, id)'["io"] = Positions(io'[c], Refusing(id))
         /\ Found(c, id)'["out"] = Positions(out'[c], Acking(id))
<1>1. /\ Found(c, id)["in"] = Positions(in[c], Asking(c, id))
      /\ Found(c, id)["mailbox"] = Positions(mailbox, Asking(c, id))
      /\ Found(c, id)["todo"] = Positions(todo, Settling(c, id))
      /\ Found(c, id)["io"] = Positions(io[c], Refusing(id))
      /\ Found(c, id)["out"] = Positions(out[c], Acking(id))
  BY DEF Found, Spots
<1>2. /\ Found(c, id)'["in"] = Positions(in'[c], Asking(c, id))
      /\ Found(c, id)'["mailbox"] = Positions(mailbox', Asking(c, id))
      /\ Found(c, id)'["todo"] = Positions(todo', Settling(c, id))
      /\ Found(c, id)'["io"] = Positions(io'[c], Refusing(id))
      /\ Found(c, id)'["out"] = Positions(out'[c], Acking(id))
  BY DEF Found, Spots, Positions, Asking, Settling, Refusing, Acking
<1> QED BY <1>1, <1>2

\* One message in one place.
LEMMA PlacesFound ==
  ASSUME NEW c \in Connections, NEW id \in Ids
  PROVE  /\ Nowhere(Found(c, id)) => Places(c, id) = {}
         /\ AtOne(Found(c, id)) => \E place \in Places(c, id) : Places(c, id) = {place}
<1>1. \A place : place \in Places(c, id) <=>
        \E spot \in Spots : \E i \in Found(c, id)[spot] : place = <<spot, i>>
  BY FoundAt DEF Places, Spots
<1>2. Nowhere(Found(c, id)) => Places(c, id) = {} BY <1>1 DEF Nowhere
<1>3. ASSUME NEW spot \in Spots, NEW i, Found(c, id)[spot] = {i},
             \A other \in Spots \ {spot} : Found(c, id)[other] = {}
      PROVE  Places(c, id) = {<<spot, i>>}
  <2>1. <<spot, i>> \in Places(c, id) BY <1>1, <1>3
  <2>2. \A place \in Places(c, id) : place = <<spot, i>> BY <1>1, <1>3
  <2> QED BY <2>1, <2>2
<1> QED BY <1>2, <1>3, Zenon DEF AtOne, One

\* Messages that do not move.
LEMMA NotMoved ==
  ASSUME NEW f, NEW g, \A spot \in Spots : Same(f[spot], g[spot])
  PROVE  (Nowhere(f) => Nowhere(g)) /\ (AtOne(f) => AtOne(g))
BY DEF Nowhere, AtOne, Same

\* A message that goes from one queue to another.
LEMMA PassedOn ==
  ASSUME NEW f, NEW g, NEW from \in Spots, NEW to \in Spots, from # to,
         f[from] # {}, One(f[from]) => g[from] = {}, f[to] = {} => One(g[to]),
         \A spot \in Spots \ {from, to} : Same(f[spot], g[spot])
  PROVE  ~Nowhere(f) /\ (AtOne(f) => AtOne(g))
<1>1. ~Nowhere(f) BY DEF Nowhere
<1>2. ASSUME NEW spot \in Spots, One(f[spot]), \A other \in Spots \ {spot} : f[other] = {}
      PROVE  AtOne(g)
  <2>1. spot = from BY <1>2
  <2>2. f[to] = {} /\ \A other \in Spots \ {from, to} : f[other] = {} BY <1>2, <2>1
  <2>3. One(g[to]) /\ g[from] = {} BY <1>2, <2>1, <2>2
  <2>4. \A other \in Spots \ {from, to} : g[other] = {} BY <2>2 DEF Same
  <2> QED BY <2>3, <2>4 DEF AtOne
<1> QED BY <1>1, <1>2 DEF AtOne

\* A message that is new in a queue.
LEMMA Entered ==
  ASSUME NEW f, NEW g, NEW to \in Spots, Nowhere(f), f[to] = {} => One(g[to]),
         \A spot \in Spots \ {to} : Same(f[spot], g[spot])
  PROVE  AtOne(g)
BY DEF Nowhere, AtOne, Same

\* A message that is gone.
LEMMA Left ==
  ASSUME NEW f, NEW g, NEW from \in Spots, f[from] # {}, One(f[from]) => g[from] = {},
         \A spot \in Spots \ {from} : Same(f[spot], g[spot])
  PROVE  ~Nowhere(f) /\ (AtOne(f) => Nowhere(g))
<1>1. ~Nowhere(f) BY DEF Nowhere
<1>2. ASSUME NEW spot \in Spots, One(f[spot]), \A other \in Spots \ {spot} : f[other] = {}
      PROVE  Nowhere(g)
  <2>1. spot = from BY <1>2
  <2> QED BY <1>2, <2>1 DEF Nowhere, Same
<1> QED BY <1>1, <1>2 DEF AtOne
-----------------------------------------------------------------------------
(* Every request is answered once. *)

\* Nothing is asked or corrected initially.
LEMMA InitAnswers == Init => AckInv /\ OneCorrectionQueued
<1> SUFFICES ASSUME Init PROVE AckInv /\ OneCorrectionQueued OBVIOUS
<1>1. /\ mailbox = <<>> /\ priority = <<>> /\ queued = {} /\ todo = <<>>
      /\ \A c \in Connections : /\ io[c] = <<>> /\ in[c] = <<>> /\ out[c] = <<>>
                                /\ status[c] = "new" /\ awaiting[c] = {}
  BY DEF Init
<1>2. \A messages : Positions(<<>>, messages) = {} BY DEF Positions
<1>3. OneCorrectionQueued BY <1>1, <1>2 DEF OneCorrectionQueued
<1>4. ASSUME NEW c \in Connections, NEW id \in Ids PROVE PairInv(c, id)
  <2>1. \A spot \in Spots : Found(c, id)[spot] = {} BY <1>1, <1>2, FoundAt DEF Spots
  <2> QED BY <1>1, <2>1 DEF PairInv, Nowhere
<1>5. AckInv BY <1>1, <1>4 DEF AckInv
<1> QED BY <1>3, <1>5

\* Nothing of a request moves.
LEMMA PairUnmoved ==
  ASSUME NEW c, NEW id, PairInv(c, id), id \in awaiting'[c] <=> id \in awaiting[c],
         Same(Positions(in[c], Asking(c, id)), Positions(in'[c], Asking(c, id))),
         Same(Positions(mailbox, Asking(c, id)), Positions(mailbox', Asking(c, id))),
         Same(Positions(todo, Settling(c, id)), Positions(todo', Settling(c, id))),
         Same(Positions(io[c], Refusing(id)), Positions(io'[c], Refusing(id))),
         Same(Positions(out[c], Acking(id)), Positions(out'[c], Acking(id)))
  PROVE  PairInv(c, id)'
<1>1. \A spot \in Spots : Same(Found(c, id)[spot], Found(c, id)'[spot])
  BY FoundAt DEF Spots
<1>2. /\ Nowhere(Found(c, id)) => Nowhere(Found(c, id)')
      /\ AtOne(Found(c, id)) => AtOne(Found(c, id)')
  BY <1>1, NotMoved
<1> QED BY <1>2 DEF PairInv

\* Something of a request goes from one queue to another.
LEMMA PairMoved ==
  ASSUME NEW c, NEW id, PairInv(c, id), id \in awaiting'[c] <=> id \in awaiting[c],
         NEW from \in Spots, NEW to \in Spots, from # to,
         Found(c, id)[from] # {}, One(Found(c, id)[from]) => Found(c, id)'[from] = {},
         Found(c, id)[to] = {} => One(Found(c, id)'[to]),
         \A spot \in Spots \ {from, to} : Same(Found(c, id)[spot], Found(c, id)'[spot])
  PROVE  PairInv(c, id)'
<1>1. ~Nowhere(Found(c, id)) /\ (AtOne(Found(c, id)) => AtOne(Found(c, id)'))
  BY PassedOn
<1> QED BY <1>1 DEF PairInv

\* A request goes from its connection to the mailbox.
LEMMA PairSubmitted ==
  ASSUME NEW c, NEW id, PairInv(c, id), id \in awaiting'[c] <=> id \in awaiting[c],
         Positions(in[c], Asking(c, id)) # {},
         One(Positions(in[c], Asking(c, id))) => Positions(in'[c], Asking(c, id)) = {},
         Positions(mailbox, Asking(c, id)) = {} => One(Positions(mailbox', Asking(c, id))),
         Same(Positions(todo, Settling(c, id)), Positions(todo', Settling(c, id))),
         Same(Positions(io[c], Refusing(id)), Positions(io'[c], Refusing(id))),
         Same(Positions(out[c], Acking(id)), Positions(out'[c], Acking(id)))
  PROVE  PairInv(c, id)'
<1>1. \A spot \in Spots \ {"in", "mailbox"} : Same(Found(c, id)[spot], Found(c, id)'[spot])
  BY FoundAt DEF Spots
<1>2. /\ Found(c, id)["in"] # {} /\ (One(Found(c, id)["in"]) => Found(c, id)'["in"] = {})
      /\ Found(c, id)["mailbox"] = {} => One(Found(c, id)'["mailbox"])
  BY FoundAt
<1>3. "in" \in Spots /\ "mailbox" \in Spots /\ "in" # "mailbox" BY DEF Spots
<1> QED BY <1>1, <1>2, <1>3, PairMoved, Zenon

\* The refusal of a request takes its place.
LEMMA PairRefused ==
  ASSUME NEW c, NEW id, PairInv(c, id), id \in awaiting'[c] <=> id \in awaiting[c],
         Positions(in[c], Asking(c, id)) # {},
         One(Positions(in[c], Asking(c, id))) => Positions(in'[c], Asking(c, id)) = {},
         Positions(io[c], Refusing(id)) = {} => One(Positions(io'[c], Refusing(id))),
         Same(Positions(mailbox, Asking(c, id)), Positions(mailbox', Asking(c, id))),
         Same(Positions(todo, Settling(c, id)), Positions(todo', Settling(c, id))),
         Same(Positions(out[c], Acking(id)), Positions(out'[c], Acking(id)))
  PROVE  PairInv(c, id)'
<1>1. \A spot \in Spots \ {"in", "io"} : Same(Found(c, id)[spot], Found(c, id)'[spot])
  BY FoundAt DEF Spots
<1>2. /\ Found(c, id)["in"] # {} /\ (One(Found(c, id)["in"]) => Found(c, id)'["in"] = {})
      /\ Found(c, id)["io"] = {} => One(Found(c, id)'["io"])
  BY FoundAt
<1>3. "in" \in Spots /\ "io" \in Spots /\ "in" # "io" BY DEF Spots
<1> QED BY <1>1, <1>2, <1>3, PairMoved, Zenon

\* The Ack of a handled request takes its place.
LEMMA PairSettled ==
  ASSUME NEW c, NEW id, PairInv(c, id), id \in awaiting'[c] <=> id \in awaiting[c],
         Positions(mailbox, Asking(c, id)) # {},
         One(Positions(mailbox, Asking(c, id))) => Positions(mailbox', Asking(c, id)) = {},
         Positions(todo, Settling(c, id)) = {} => One(Positions(todo', Settling(c, id))),
         Same(Positions(in[c], Asking(c, id)), Positions(in'[c], Asking(c, id))),
         Same(Positions(io[c], Refusing(id)), Positions(io'[c], Refusing(id))),
         Same(Positions(out[c], Acking(id)), Positions(out'[c], Acking(id)))
  PROVE  PairInv(c, id)'
<1>1. \A spot \in Spots \ {"mailbox", "todo"} : Same(Found(c, id)[spot], Found(c, id)'[spot])
  BY FoundAt DEF Spots
<1>2. /\ Found(c, id)["mailbox"] # {} /\ (One(Found(c, id)["mailbox"]) => Found(c, id)'["mailbox"] = {})
      /\ Found(c, id)["todo"] = {} => One(Found(c, id)'["todo"])
  BY FoundAt
<1>3. "mailbox" \in Spots /\ "todo" \in Spots /\ "mailbox" # "todo" BY DEF Spots
<1> QED BY <1>1, <1>2, <1>3, PairMoved, Zenon

\* The Ack of a handled request is sent.
LEMMA PairSent ==
  ASSUME NEW c, NEW id, PairInv(c, id), id \in awaiting'[c] <=> id \in awaiting[c],
         Positions(todo, Settling(c, id)) # {},
         One(Positions(todo, Settling(c, id))) => Positions(todo', Settling(c, id)) = {},
         Positions(out[c], Acking(id)) = {} => One(Positions(out'[c], Acking(id))),
         Same(Positions(in[c], Asking(c, id)), Positions(in'[c], Asking(c, id))),
         Same(Positions(mailbox, Asking(c, id)), Positions(mailbox', Asking(c, id))),
         Same(Positions(io[c], Refusing(id)), Positions(io'[c], Refusing(id)))
  PROVE  PairInv(c, id)'
<1>1. \A spot \in Spots \ {"todo", "out"} : Same(Found(c, id)[spot], Found(c, id)'[spot])
  BY FoundAt DEF Spots
<1>2. /\ Found(c, id)["todo"] # {} /\ (One(Found(c, id)["todo"]) => Found(c, id)'["todo"] = {})
      /\ Found(c, id)["out"] = {} => One(Found(c, id)'["out"])
  BY FoundAt
<1>3. "todo" \in Spots /\ "out" \in Spots /\ "todo" # "out" BY DEF Spots
<1> QED BY <1>1, <1>2, <1>3, PairMoved, Zenon

\* The refusal of a request is sent.
LEMMA PairReplied ==
  ASSUME NEW c, NEW id, PairInv(c, id), id \in awaiting'[c] <=> id \in awaiting[c],
         Positions(io[c], Refusing(id)) # {},
         One(Positions(io[c], Refusing(id))) => Positions(io'[c], Refusing(id)) = {},
         Positions(out[c], Acking(id)) = {} => One(Positions(out'[c], Acking(id))),
         Same(Positions(in[c], Asking(c, id)), Positions(in'[c], Asking(c, id))),
         Same(Positions(mailbox, Asking(c, id)), Positions(mailbox', Asking(c, id))),
         Same(Positions(todo, Settling(c, id)), Positions(todo', Settling(c, id)))
  PROVE  PairInv(c, id)'
<1>1. \A spot \in Spots \ {"io", "out"} : Same(Found(c, id)[spot], Found(c, id)'[spot])
  BY FoundAt DEF Spots
<1>2. /\ Found(c, id)["io"] # {} /\ (One(Found(c, id)["io"]) => Found(c, id)'["io"] = {})
      /\ Found(c, id)["out"] = {} => One(Found(c, id)'["out"])
  BY FoundAt
<1>3. "io" \in Spots /\ "out" \in Spots /\ "io" # "out" BY DEF Spots
<1> QED BY <1>1, <1>2, <1>3, PairMoved, Zenon

\* A client asks.
LEMMA PairEntered ==
  ASSUME NEW c, NEW id, PairInv(c, id), id \notin awaiting[c], id \in awaiting'[c],
         Positions(in[c], Asking(c, id)) = {} => One(Positions(in'[c], Asking(c, id))),
         Same(Positions(mailbox, Asking(c, id)), Positions(mailbox', Asking(c, id))),
         Same(Positions(todo, Settling(c, id)), Positions(todo', Settling(c, id))),
         Same(Positions(io[c], Refusing(id)), Positions(io'[c], Refusing(id))),
         Same(Positions(out[c], Acking(id)), Positions(out'[c], Acking(id)))
  PROVE  PairInv(c, id)'
<1>1. Found(c, id)["in"] = {} => One(Found(c, id)'["in"]) BY FoundAt
<1>2. \A spot \in Spots \ {"in"} : Same(Found(c, id)[spot], Found(c, id)'[spot])
  BY FoundAt DEF Spots
<1>3. Nowhere(Found(c, id)) BY DEF PairInv
<1>4. "in" \in Spots BY DEF Spots
<1>5. AtOne(Found(c, id)') BY <1>1, <1>2, <1>3, <1>4, Entered
<1> QED BY <1>5 DEF PairInv

\* A client reads the Ack.
LEMMA PairLeft ==
  ASSUME NEW c, NEW id, PairInv(c, id), id \notin awaiting'[c],
         Positions(out[c], Acking(id)) # {},
         One(Positions(out[c], Acking(id))) => Positions(out'[c], Acking(id)) = {},
         Same(Positions(in[c], Asking(c, id)), Positions(in'[c], Asking(c, id))),
         Same(Positions(mailbox, Asking(c, id)), Positions(mailbox', Asking(c, id))),
         Same(Positions(todo, Settling(c, id)), Positions(todo', Settling(c, id))),
         Same(Positions(io[c], Refusing(id)), Positions(io'[c], Refusing(id)))
  PROVE  PairInv(c, id)'
<1>1. Found(c, id)["out"] # {} /\ (One(Found(c, id)["out"]) => Found(c, id)'["out"] = {})
  BY FoundAt
<1>2. \A spot \in Spots \ {"out"} : Same(Found(c, id)[spot], Found(c, id)'[spot])
  BY FoundAt DEF Spots
<1>3. "out" \in Spots BY DEF Spots
<1>4. ~Nowhere(Found(c, id)) /\ (AtOne(Found(c, id)) => Nowhere(Found(c, id)'))
  BY <1>1, <1>2, <1>3, Left, Zenon
<1> QED BY <1>4 DEF PairInv

\* Positions that are the same.
LEMMA SameItself ==
  ASSUME NEW positions
  PROVE  Same(positions, positions)
BY DEF Same

\* Another message goes to the mailbox.
LEMMA MailboxOther ==
  ASSUME TypeOK, NEW c, NEW id, NEW m \in Commands, m \notin Asking(c, id),
         mailbox' = mailbox \/ mailbox' = Append(mailbox, m)
  PROVE  Same(Positions(mailbox, Asking(c, id)), Positions(mailbox', Asking(c, id)))
<1>1. mailbox \in Seq(Commands) BY DEF TypeOK, QueueTypes
<1>2. Positions(Append(mailbox, m), Asking(c, id)) = Positions(mailbox, Asking(c, id))
  BY <1>1, OneAppended, Zenon
<1> QED BY <1>2, SameItself, Zenon

\* Which messages belong to a request.
LEMMA Belonging ==
  ASSUME TypeOK, NEW c \in Connections, NEW id \in Ids
  PROVE  /\ \A m : m \in Asking(c, id) <=> m \in Requests /\ m.origin = c /\ m.id = id
         /\ \A m \in Requests, answer \in Answers :
              AckLater(m, answer) \in Settling(c, id) <=> m \in Asking(c, id)
         /\ \A d \in Connections, p \in Prims : Correct(d, p) \notin Settling(c, id)
         /\ \A d \in Connections : Snapshot(d) \notin Settling(c, id)
<1>1. \A m : m \in Asking(c, id) <=> m \in Requests /\ m.origin = c /\ m.id = id BY DEF Asking
<1>2. ASSUME NEW m \in Requests, NEW answer \in Answers
      PROVE  AckLater(m, answer) \in Settling(c, id) <=> m \in Asking(c, id)
  <2>1. AckLater(m, answer) \in Steps BY DEF AckLater, Steps, Requests
  <2>2. /\ AckLater(m, answer).op = "ack" /\ AckLater(m, answer).to = m.origin
        /\ AckLater(m, answer).id = m.id
    BY DEF AckLater
  <2> QED BY <1>1, <2>1, <2>2 DEF Settling
<1>3. \A d \in Connections, p \in Prims : Correct(d, p) \notin Settling(c, id)
  BY DEF Correct, Settling
<1>4. \A d \in Connections : Snapshot(d) \notin Settling(c, id) BY DEF Snapshot, Settling
<1> QED BY <1>1, <1>2, <1>3, <1>4

\* News are no Acks.
LEMMA NewsUnmoved ==
  ASSUME TypeOK, NEW c \in Connections, NEW id \in Ids,
         Keeps(c) \/ \E seq \in Nat : \E frames \in News(seq) : Gets(c, frames, seq)
  PROVE  Same(Positions(out[c], Acking(id)), Positions(out'[c], Acking(id)))
<1>1. CASE Keeps(c) BY <1>1, SameItself, Zenon DEF Keeps
<1>2. ASSUME NEW seq \in Nat, NEW frames \in News(seq), Gets(c, frames, seq)
      PROVE  Same(Positions(out[c], Acking(id)), Positions(out'[c], Acking(id)))
  <2>1. out'[c] = out[c] \o frames BY <1>2 DEF Gets
  <2>2. frames \in Seq(Frames) /\ \A i \in DOMAIN frames : frames[i].type # "ack"
    BY DEF News, FramesOf
  <2>3. \A i \in DOMAIN frames : frames[i] \notin Acking(id) BY <2>2 DEF Acking
  <2>4. out[c] \in Seq(Frames) BY DEF TypeOK, ClientTypes
  <2>5. Positions(out'[c], Acking(id)) = Positions(out[c], Acking(id))
    BY <2>1, <2>2, <2>3, <2>4, OtherAppended
  <2> QED BY <2>5, SameItself, Zenon
<1> QED BY <1>1, <1>2

\* A command is handled: a request leaves the mailbox, and its Ack is to be sent.
LEMMA PairHandled ==
  ASSUME TypeOK, SeqInv, Handle, Handled, NEW c \in Connections, NEW id \in Ids, PairInv(c, id)
  PROVE  PairInv(c, id)'
<1>1. /\ awaiting' = awaiting /\ in' = in /\ io' = io /\ todo = <<>>
  BY DEF Handle, client, view
<1>2. /\ Same(Positions(in[c], Asking(c, id)), Positions(in'[c], Asking(c, id)))
      /\ Same(Positions(io[c], Refusing(id)), Positions(io'[c], Refusing(id)))
  BY <1>1, SameItself, Zenon
<1>3. Same(Positions(out[c], Acking(id)), Positions(out'[c], Acking(id)))
  BY NewsUnmoved, Zenon DEF Handled, Tells
<1>4. Positions(todo, Settling(c, id)) = {} BY <1>1 DEF Positions
<1>5. mailbox \in Seq(Commands) BY DEF TypeOK, QueueTypes
<1>6. ASSUME Same(Positions(mailbox, Asking(c, id)), Positions(mailbox', Asking(c, id))),
             Positions(todo', Settling(c, id)) = {}
      PROVE  PairInv(c, id)'
  <2>1. Same(Positions(todo, Settling(c, id)), Positions(todo', Settling(c, id)))
    BY <1>4, <1>6, SameItself, Zenon
  <2> QED BY <1>1, <1>2, <1>3, <1>6, <2>1, PairUnmoved, Zenon
<1>7. CASE HandlesRequest
  <2> DEFINE m == Head(mailbox)
  <2>1. mailbox # <<>> /\ mailbox' = Tail(mailbox) /\ m \in Requests BY <1>7 DEF HandlesRequest
  <2>2. PICK answer \in Answers :
          \/ todo' = <<AckLater(m, answer)>>
          \/ \E p \in Prims : todo' = <<AckLater(m, answer), Correct(m.origin, p)>>
    BY <1>7 DEF HandlesRequest
  <2>3. DOMAIN todo' \subseteq {1, 2} /\ 1 \in DOMAIN todo' /\ todo'[1] = AckLater(m, answer)
    BY <2>2
  <2>4. 2 \in DOMAIN todo' => todo'[2] \notin Settling(c, id)
    <3>1. m.origin \in Connections BY <2>1 DEF Requests
    <3>2. \A p \in Prims : Correct(m.origin, p) \notin Settling(c, id) BY <3>1, Belonging
    <3>3. CASE todo' = <<AckLater(m, answer)>> BY <3>3
    <3>4. ASSUME NEW p \in Prims, todo' = <<AckLater(m, answer), Correct(m.origin, p)>>
          PROVE  todo'[2] \notin Settling(c, id)
      BY <3>2, <3>4
    <3> QED BY <2>2, <3>3, <3>4
  <2>5. AckLater(m, answer) \in Settling(c, id) <=> m \in Asking(c, id) BY <2>1, Belonging
  <2>6. CASE m \in Asking(c, id)
    <3>1. Positions(todo', Settling(c, id)) = {1} BY <2>3, <2>4, <2>5, <2>6 DEF Positions
    <3>2. One(Positions(todo', Settling(c, id))) BY <3>1 DEF One
    <3>3. /\ Positions(mailbox, Asking(c, id)) # {}
          /\ One(Positions(mailbox, Asking(c, id))) => Positions(mailbox', Asking(c, id)) = {}
      BY <1>5, <2>1, <2>6, FirstGone, Zenon
    <3> QED BY <1>1, <1>2, <1>3, <3>2, <3>3, PairSettled, Zenon
  <2>7. CASE m \notin Asking(c, id)
    <3>1. Positions(todo', Settling(c, id)) = {} BY <2>3, <2>4, <2>5, <2>7 DEF Positions
    <3>2. Same(Positions(mailbox, Asking(c, id)), Positions(mailbox', Asking(c, id)))
      BY <1>5, <2>1, <2>7, FirstGone, Zenon
    <3> QED BY <1>6, <3>1, <3>2
  <2> QED BY <2>6, <2>7
<1>8. CASE HandlesOther
  <2>1. mailbox # <<>> /\ mailbox' = Tail(mailbox) /\ Head(mailbox) \notin Requests
    BY <1>8 DEF HandlesOther
  <2>2. Head(mailbox) \notin Asking(c, id) BY <2>1, Belonging
  <2>3. Same(Positions(mailbox, Asking(c, id)), Positions(mailbox', Asking(c, id)))
    BY <1>5, <2>1, <2>2, FirstGone, Zenon
  <2>4. CASE todo' = <<>> BY <1>6, <2>3, <2>4 DEF Positions
  <2>5. ASSUME NEW d \in Connections, todo' = <<Snapshot(d)>> PROVE PairInv(c, id)'
    <3>1. Snapshot(d) \notin Settling(c, id) BY Belonging
    <3>2. Positions(todo', Settling(c, id)) = {} BY <2>5, <3>1 DEF Positions
    <3> QED BY <1>6, <2>3, <3>2
  <2> QED BY <1>8, <2>4, <2>5 DEF HandlesOther
<1>9. CASE HandlesCorrection
  <2>1. Head(priority) \in Corrections BY <1>9 DEF HandlesCorrection, TypeOK, QueueTypes
  <2>2. Head(priority).origin \in Connections /\ Head(priority).prim \in Prims
    BY <2>1 DEF Corrections
  <2>3. Correct(Head(priority).origin, Head(priority).prim) \notin Settling(c, id)
    BY <2>2, Belonging
  <2>4. Positions(todo', Settling(c, id)) = {} BY <1>9, <2>3 DEF HandlesCorrection, Positions
  <2>5. Same(Positions(mailbox, Asking(c, id)), Positions(mailbox', Asking(c, id)))
    BY <1>9, SameItself, Zenon DEF HandlesCorrection
  <2> QED BY <1>6, <2>4, <2>5
<1> QED BY <1>7, <1>8, <1>9 DEF Handled

\* The rest of a handler: an Ack leaves for a client that is still there.
LEMMA PairContinued ==
  ASSUME TypeOK, SeqInv, TodoInv, Continue, Continued, NEW c \in Connections, NEW id \in Ids, PairInv(c, id),
         c \in clients \/ awaiting[c] = {}
  PROVE  PairInv(c, id)'
<1>1. awaiting' = awaiting /\ in' = in /\ io' = io /\ mailbox' = mailbox
  BY DEF Continue, client, view, queues
<1>2. /\ Same(Positions(in[c], Asking(c, id)), Positions(in'[c], Asking(c, id)))
      /\ Same(Positions(io[c], Refusing(id)), Positions(io'[c], Refusing(id)))
      /\ Same(Positions(mailbox, Asking(c, id)), Positions(mailbox', Asking(c, id)))
  BY <1>1, SameItself, Zenon
<1> DEFINE step == Head(todo)
<1>3. todo \in Seq(Steps) /\ todo # <<>> /\ todo' = Tail(todo) /\ step \in Steps
  BY DEF Continued, TypeOK, QueueTypes
<1>4. ASSUME step \notin Settling(c, id),
             Same(Positions(out[c], Acking(id)), Positions(out'[c], Acking(id)))
      PROVE  PairInv(c, id)'
  <2>1. Same(Positions(todo, Settling(c, id)), Positions(todo', Settling(c, id)))
    BY <1>3, <1>4, FirstGone, Zenon
  <2> QED BY <1>1, <1>2, <1>4, <2>1, PairUnmoved, Zenon
<1>5. CASE step.op # "ack" /\ Tells
  <2>1. step \notin Settling(c, id) BY <1>5 DEF Settling
  <2>2. Same(Positions(out[c], Acking(id)), Positions(out'[c], Acking(id)))
    BY <1>5, NewsUnmoved, Zenon DEF Tells
  <2> QED BY <1>4, <2>1, <2>2
<1>6. CASE Acks
  <2> DEFINE frame == Ack(step.id, server_seq, step.answer)
  <2>1. step.op = "ack" BY <1>6 DEF Acks
  <2>2. step.id \in Ids /\ step.answer \in Answers /\ server_seq \in Nat
    BY <1>3, <2>1 DEF Steps, TypeOK, SeqTypes
  <2>3. frame \in Frames /\ frame.type = "ack" /\ frame.id = step.id BY <2>2 DEF Ack, Frames
  <2>4. step \in Settling(c, id) <=> step.to = c /\ step.id = id BY <1>3, <2>1 DEF Settling
  <2>5. frame \in Acking(id) <=> step.id = id BY <2>3 DEF Acking
  <2>6. out[c] \in Seq(Frames) BY DEF TypeOK, ClientTypes
  <2>7. CASE step \notin Settling(c, id)
    <3>1. CASE step.to # c
      <4>1. Keeps(c) BY <1>6, <3>1 DEF Acks
      <4>2. Same(Positions(out[c], Acking(id)), Positions(out'[c], Acking(id)))
        BY <4>1, SameItself, Zenon DEF Keeps
      <4> QED BY <1>4, <2>7, <4>2
    <3>2. CASE step.to = c /\ step.id # id
      <4>1. out'[c] = out[c] \/ out'[c] = out[c] \o <<frame>>
        BY <1>6, <3>2, Zenon DEF Acks, Keeps, Gets
      <4>2. frame \notin Acking(id) BY <2>5, <3>2
      <4> HIDE DEF frame
      <4>3. out[c] \o <<frame>> = Append(out[c], frame) BY <2>3, <2>6
      <4>4. Positions(Append(out[c], frame), Acking(id)) = Positions(out[c], Acking(id))
        <5>1. frame \in Frames BY <2>3
        <5> QED BY <2>6, <4>2, <5>1, OneAppended, ZenonT(30)
      <4>5. Same(Positions(out[c], Acking(id)), Positions(out'[c], Acking(id)))
        BY <4>1, <4>3, <4>4, SameItself, Zenon
      <4> QED BY <1>4, <2>7, <4>5
    <3> QED BY <2>4, <2>7, <3>1, <3>2
  <2>8. CASE step \in Settling(c, id)
    <3>1. /\ Positions(todo, Settling(c, id)) # {}
          /\ One(Positions(todo, Settling(c, id))) => Positions(todo', Settling(c, id)) = {}
      BY <1>3, <2>8, FirstGone, Zenon
    <3>2. c \in clients
      <4>1. ASSUME id \notin awaiting[c] PROVE FALSE
        BY <3>1, <4>1, FoundAt, Zenon DEF PairInv, Nowhere, Spots
      <4> QED BY <4>1
    <3>3. out'[c] = out[c] \o <<frame>> BY <1>6, <2>4, <2>8, <3>2, Zenon DEF Acks, Gets
    <3>4. frame \in Acking(id) BY <2>4, <2>5, <2>8
    <3> HIDE DEF frame
    <3>5. out[c] \o <<frame>> = Append(out[c], frame) BY <2>3, <2>6
    <3>6. Positions(out[c], Acking(id)) = {} => One(Positions(out'[c], Acking(id)))
      <4>1. Positions(out[c], Acking(id)) = {} => One(Positions(Append(out[c], frame), Acking(id)))
        BY <2>3, <2>6, <3>4, OneAppended, Zenon
      <4> QED BY <3>3, <3>5, <4>1, Zenon
    <3> QED BY <1>1, <1>2, <3>1, <3>6, PairSent, Zenon
  <2> QED BY <2>7, <2>8
<1> QED BY <1>5, <1>6 DEF Continued

\* A request arrives: it goes to the mailbox, or its refusal is to be sent.
LEMMA PairReceived ==
  ASSUME TypeOK, SeqInv, NEW d \in Connections, OnMessage(d),
         NEW c \in Connections, NEW id \in Ids, PairInv(c, id)
  PROVE  PairInv(c, id)'
<1>1. awaiting' = awaiting /\ out' = out /\ todo' = todo BY Zenon DEF OnMessage, client, view
<1>2. /\ Same(Positions(todo, Settling(c, id)), Positions(todo', Settling(c, id)))
      /\ Same(Positions(out[c], Acking(id)), Positions(out'[c], Acking(id)))
  BY <1>1, SameItself, Zenon
<1>3. /\ in \in [Connections -> Seq(Requests)] /\ io \in [Connections -> Seq(IoSteps)]
      /\ mailbox \in Seq(Commands)
  BY DEF TypeOK, ClientTypes, QueueTypes
<1> DEFINE m == Head(in[d])
           refusal == [op |-> "answer", id |-> m.id, answer |-> Submit]
<1>4. in[d] # <<>> /\ io[d] = <<>> /\ in' = [in EXCEPT ![d] = Tail(@)] BY Zenon DEF OnMessage
<1>5. m \in Requests /\ m.origin = d
  <2>1. 1 \in DOMAIN in[d] /\ m = in[d][1] BY <1>3, <1>4
  <2> QED BY <1>3, <2>1 DEF SeqInv
<1>6. m \in Asking(c, id) <=> c = d /\ m.id = id BY <1>5, Belonging
<1>7. m \in Commands BY <1>5 DEF Commands
<1>8. in'[d] = Tail(in[d]) /\ (c # d => in'[c] = in[c]) BY <1>3, <1>4
<1>9. \/ mailbox' = Append(mailbox, m) /\ io' = io
      \/ /\ mailbox' = mailbox
         /\ c # d => io'[c] = io[c]
         /\ Submit \in Answers
         /\ \/ io'[d] = <<refusal>>
            \/ \E p \in Prims : io'[d] = <<refusal, [op |-> "correction", prim |-> p]>>
  <2>1. CASE mailbox' = Append(mailbox, m) /\ io' = io BY <2>1
  <2>2. CASE /\ Submit # "accepted" /\ mailbox' = mailbox
             /\ io' = [io EXCEPT ![d] =
                         IF m.kind = "update" /\ Submit = "queue_full"
                           THEN <<refusal, [op |-> "correction", prim |-> m.prim]>>
                           ELSE <<refusal>>]
    <3>1. Submit \in Answers BY <2>2 DEF Submit, Answers
    <3>2. c # d => io'[c] = io[c] BY <1>3, <2>2
    <3> HIDE DEF refusal
    <3>3. CASE m.kind = "update" /\ Submit = "queue_full"
      <4>1. m.prim \in Prims BY <1>5, <3>3 DEF Requests
      <4>2. io'[d] = <<refusal, [op |-> "correction", prim |-> m.prim]>> BY <1>3, <2>2, <3>3
      <4> QED BY <2>2, <3>1, <3>2, <4>1, <4>2
    <3>4. CASE ~(m.kind = "update" /\ Submit = "queue_full")
      <4>1. io'[d] = <<refusal>> BY <1>3, <2>2, <3>4
      <4> QED BY <2>2, <3>1, <3>2, <4>1
    <3> QED BY <3>3, <3>4, Zenon
  <2> QED BY <2>1, <2>2, Zenon DEF OnMessage
<1>10. CASE m \notin Asking(c, id)
  <2>1. Same(Positions(in[c], Asking(c, id)), Positions(in'[c], Asking(c, id)))
    <3>1. CASE c = d BY <1>3, <1>4, <1>8, <1>10, <3>1, FirstGone, Zenon
    <3>2. CASE c # d BY <1>8, <3>2, SameItself, Zenon
    <3> QED BY <3>1, <3>2
  <2>2. Same(Positions(mailbox, Asking(c, id)), Positions(mailbox', Asking(c, id)))
    <3>1. mailbox' = mailbox \/ mailbox' = Append(mailbox, m) BY <1>9
    <3> HIDE DEF m
    <3> QED BY <1>7, <1>10, <3>1, MailboxOther, Zenon
  <2>3. Same(Positions(io[c], Refusing(id)), Positions(io'[c], Refusing(id)))
    <3>1. CASE io'[c] = io[c] BY <3>1, SameItself, Zenon
    <3>2. CASE /\ c = d
               /\ \/ io'[d] = <<refusal>>
                  \/ \E p \in Prims : io'[d] = <<refusal, [op |-> "correction", prim |-> p]>>
      <4>1. refusal \notin Refusing(id) BY <1>6, <1>10, <3>2 DEF Refusing
      <4>2. \A p \in Prims : [op |-> "correction", prim |-> p] \notin Refusing(id) BY DEF Refusing
      <4> HIDE DEF refusal
      <4>3. Positions(io'[c], Refusing(id)) = {}
        <5>1. CASE io'[c] = <<refusal>> BY <4>1, <5>1 DEF Positions
        <5>2. ASSUME NEW p \in Prims, io'[c] = <<refusal, [op |-> "correction", prim |-> p]>>
              PROVE  Positions(io'[c], Refusing(id)) = {}
          <6> DEFINE correction == [op |-> "correction", prim |-> p]
          <6>1. correction \notin Refusing(id) BY <4>2
          <6>2. io'[c] = <<refusal, correction>> BY <5>2
          <6> HIDE DEF correction
          <6> QED BY <4>1, <6>1, <6>2 DEF Positions
        <5> QED BY <3>2, <5>1, <5>2, Zenon
      <4>4. Positions(io[c], Refusing(id)) = {} BY <1>4, <3>2 DEF Positions
      <4> QED BY <4>3, <4>4, SameItself, Zenon
    <3> QED BY <1>9, <3>1, <3>2, Zenon
  <2> QED BY <1>1, <1>2, <2>1, <2>2, <2>3, PairUnmoved, Zenon
<1>11. CASE m \in Asking(c, id)
  <2>1. c = d /\ m.id = id BY <1>6, <1>11
  <2>2. /\ Positions(in[c], Asking(c, id)) # {}
        /\ One(Positions(in[c], Asking(c, id))) => Positions(in'[c], Asking(c, id)) = {}
    <3>1. in[c] \in Seq(Requests) /\ in[c] # <<>> /\ in'[c] = Tail(in[c]) /\ Head(in[c]) \in Asking(c, id)
      BY <1>3, <1>4, <1>8, <1>11, <2>1, Zenon
    <3> QED BY <3>1, FirstGone, Zenon
  <2>3. CASE mailbox' = Append(mailbox, m) /\ io' = io
    <3>1. Positions(mailbox, Asking(c, id)) = {} => One(Positions(mailbox', Asking(c, id)))
      BY <1>3, <1>7, <1>11, <2>3, OneAppended, Zenon
    <3>2. Same(Positions(io[c], Refusing(id)), Positions(io'[c], Refusing(id)))
      BY <2>3, SameItself, Zenon
    <3> QED BY <1>1, <1>2, <2>2, <3>1, <3>2, PairSubmitted, Zenon
  <2>4. CASE /\ mailbox' = mailbox /\ Submit \in Answers
             /\ \/ io'[d] = <<refusal>>
                \/ \E p \in Prims : io'[d] = <<refusal, [op |-> "correction", prim |-> p]>>
    <3>1. refusal \in Refusing(id) BY <2>1, <2>4, Zenon DEF Refusing, IoSteps
    <3>2. \A p \in Prims : [op |-> "correction", prim |-> p] \notin Refusing(id) BY DEF Refusing
    <3> HIDE DEF refusal
    <3>3. Positions(io'[c], Refusing(id)) = {1}
      <4>1. CASE io'[c] = <<refusal>> BY <3>1, <4>1 DEF Positions
      <4>2. ASSUME NEW p \in Prims, io'[c] = <<refusal, [op |-> "correction", prim |-> p]>>
            PROVE  Positions(io'[c], Refusing(id)) = {1}
        <5> DEFINE correction == [op |-> "correction", prim |-> p]
        <5>1. correction \notin Refusing(id) BY <3>2
        <5>2. io'[c] = <<refusal, correction>> BY <4>2
        <5> HIDE DEF correction
        <5> QED BY <3>1, <5>1, <5>2 DEF Positions
      <4> QED BY <2>1, <2>4, <4>1, <4>2, Zenon
    <3>4. One(Positions(io'[c], Refusing(id))) BY <3>3 DEF One
    <3>5. Same(Positions(mailbox, Asking(c, id)), Positions(mailbox', Asking(c, id)))
      BY <2>4, SameItself, Zenon
    <3> QED BY <1>1, <1>2, <2>2, <3>4, <3>5, PairRefused, Zenon
  <2> QED BY <1>9, <2>3, <2>4, Zenon
<1> QED BY <1>10, <1>11

\* A callback goes on: a refusal leaves for the client.
LEMMA PairAnswered ==
  ASSUME TypeOK, NEW d \in Connections, IoStep(d),
         NEW c \in Connections, NEW id \in Ids, PairInv(c, id)
  PROVE  PairInv(c, id)'
<1>1. awaiting' = awaiting /\ in' = in /\ todo' = todo BY DEF IoStep, view
<1>2. /\ Same(Positions(in[c], Asking(c, id)), Positions(in'[c], Asking(c, id)))
      /\ Same(Positions(todo, Settling(c, id)), Positions(todo', Settling(c, id)))
  BY <1>1, SameItself, Zenon
<1>3. /\ io \in [Connections -> Seq(IoSteps)] /\ out \in [Connections -> Seq(Frames)]
      /\ mailbox \in Seq(Commands)
  BY DEF TypeOK, ClientTypes, QueueTypes
<1>4. io[d] # <<>> /\ io' = [io EXCEPT ![d] = Tail(@)] BY DEF IoStep
<1> DEFINE step == Head(io[d])
<1>5. step \in IoSteps BY <1>3, <1>4
<1>6. io'[d] = Tail(io[d]) /\ (c # d => io'[c] = io[c]) BY <1>3, <1>4
<1>7. Same(Positions(mailbox, Asking(c, id)), Positions(mailbox', Asking(c, id)))
  <2> DEFINE join == [kind |-> "join", origin |-> d]
  <2>1. join \in Commands /\ join.kind \notin Kinds BY DEF Commands, Kinds
  <2>2. join \notin Asking(c, id) BY <2>1 DEF Asking, Requests
  <2>3. mailbox' = mailbox \/ mailbox' = Append(mailbox, join) BY DEF IoStep
  <2> HIDE DEF join
  <2> QED BY <2>1, <2>2, <2>3, MailboxOther, Zenon
<1>8. ASSUME c # d \/ step \notin Refusing(id),
             Same(Positions(out[c], Acking(id)), Positions(out'[c], Acking(id)))
      PROVE  PairInv(c, id)'
  <2>1. Same(Positions(io[c], Refusing(id)), Positions(io'[c], Refusing(id)))
    <3>1. CASE c # d BY <1>6, <3>1, SameItself, Zenon
    <3>2. CASE c = d /\ step \notin Refusing(id) BY <1>3, <1>4, <1>6, <3>2, FirstGone, Zenon
    <3> QED BY <1>8, <3>1, <3>2, Zenon
  <2> QED BY <1>1, <1>2, <1>7, <1>8, <2>1, PairUnmoved, Zenon
<1>9. ASSUME NEW frame \in Frames, Deliver({d}, <<frame>>)
      PROVE  /\ c # d => out'[c] = out[c]
             /\ c = d => out'[c] = Append(out[c], frame)
  <2>1. out[d] \o <<frame>> = Append(out[d], frame) BY <1>3
  <2> QED BY <1>3, <1>9, <2>1 DEF Deliver
<1>10. CASE out' = out /\ step.op # "answer"
  <2>1. step \notin Refusing(id) BY <1>10 DEF Refusing
  <2>2. Same(Positions(out[c], Acking(id)), Positions(out'[c], Acking(id))) BY <1>10, SameItself, Zenon
  <2> QED BY <1>8, <2>1, <2>2
<1>11. CASE step.op = "handshake" /\ Deliver({d}, <<Handshake>>)
  <2>1. step \notin Refusing(id) BY <1>11 DEF Refusing
  <2>2. Handshake \in Frames /\ Handshake \notin Acking(id) BY DEF Acking, Handshake, Frames
  <2>3. Positions(Append(out[c], Handshake), Acking(id)) = Positions(out[c], Acking(id))
    <3>1. out[c] \in Seq(Frames) BY <1>3
    <3> QED BY <2>2, <3>1, OneAppended, Zenon
  <2>4. Same(Positions(out[c], Acking(id)), Positions(out'[c], Acking(id)))
    BY <1>9, <1>11, <2>2, <2>3, SameItself, Zenon
  <2> QED BY <1>8, <2>1, <2>4
<1>12. CASE step.op = "answer" /\ Deliver({d}, <<Ack(step.id, 0, step.answer)>>)
  <2> DEFINE frame == Ack(step.id, 0, step.answer)
  <2>1. step.id \in Ids /\ step.answer \in Answers BY <1>5, <1>12 DEF IoSteps
  <2>2. frame \in Frames /\ frame.type = "ack" /\ frame.id = step.id BY <2>1 DEF Ack, Frames
  <2>3. frame \in Acking(id) <=> step.id = id BY <2>2 DEF Acking
  <2>4. step \in Refusing(id) <=> step.id = id BY <1>5, <1>12 DEF Refusing
  <2>5. frame \in Frames /\ out[c] \in Seq(Frames) BY <1>3, <2>2
  <2>6. /\ c # d => out'[c] = out[c]
        /\ c = d => out'[c] = Append(out[c], frame)
    BY <1>9, <1>12, <2>5
  <2> HIDE DEF frame
  <2>7. CASE c # d
    <3>1. Same(Positions(out[c], Acking(id)), Positions(out'[c], Acking(id)))
      BY <2>6, <2>7, SameItself, Zenon
    <3> QED BY <1>8, <2>7, <3>1
  <2>8. CASE c = d /\ step.id # id
    <3>1. frame \notin Acking(id) BY <2>3, <2>8
    <3>2. Positions(Append(out[c], frame), Acking(id)) = Positions(out[c], Acking(id))
      BY <2>5, <3>1, OneAppended, Zenon
    <3>3. Same(Positions(out[c], Acking(id)), Positions(out'[c], Acking(id)))
      BY <2>6, <2>8, <3>2, SameItself, Zenon
    <3> QED BY <1>8, <2>4, <2>8, <3>3
  <2>9. CASE c = d /\ step.id = id
    <3>1. frame \in Acking(id) BY <2>3, <2>9
    <3>2. Positions(out[c], Acking(id)) = {} => One(Positions(Append(out[c], frame), Acking(id)))
      BY <2>5, <3>1, OneAppended, Zenon
    <3>3. Positions(out[c], Acking(id)) = {} => One(Positions(out'[c], Acking(id)))
      BY <2>6, <2>9, <3>2, Zenon
    <3>4. /\ Positions(io[c], Refusing(id)) # {}
          /\ One(Positions(io[c], Refusing(id))) => Positions(io'[c], Refusing(id)) = {}
      <4>1. /\ io[c] \in Seq(IoSteps) /\ io[c] # <<>> /\ io'[c] = Tail(io[c])
            /\ Head(io[c]) \in Refusing(id)
        BY <1>3, <1>4, <1>6, <2>4, <2>9
      <4> QED BY <4>1, FirstGone, Zenon
    <3> QED BY <1>1, <1>2, <1>7, <3>3, <3>4, PairReplied, Zenon
  <2> QED BY <2>7, <2>8, <2>9
<1> QED BY <1>10, <1>11, <1>12 DEF IoStep

\* A client asks for something new, under an id it has not used.
LEMMA PairAsked ==
  ASSUME TypeOK, NEW d \in Connections, NEW m \in Requests, m.origin = d, m.id \notin awaiting[d],
         in' = [in EXCEPT ![d] = Append(@, m)],
         awaiting' = [awaiting EXCEPT ![d] = @ \cup {m.id}],
         UNCHANGED <<mailbox, todo, io, out>>,
         NEW c \in Connections, NEW id \in Ids, PairInv(c, id)
  PROVE  PairInv(c, id)'
<1>1. in \in [Connections -> Seq(Requests)] /\ awaiting \in [Connections -> SUBSET Ids]
  BY DEF TypeOK, ClientTypes
<1>2. /\ c # d => in'[c] = in[c] /\ awaiting'[c] = awaiting[c]
      /\ c = d => in'[c] = Append(in[c], m) /\ awaiting'[c] = awaiting[c] \cup {m.id}
  BY <1>1
<1>3. /\ Same(Positions(mailbox, Asking(c, id)), Positions(mailbox', Asking(c, id)))
      /\ Same(Positions(todo, Settling(c, id)), Positions(todo', Settling(c, id)))
      /\ Same(Positions(io[c], Refusing(id)), Positions(io'[c], Refusing(id)))
      /\ Same(Positions(out[c], Acking(id)), Positions(out'[c], Acking(id)))
  BY SameItself, Zenon
<1>4. in[c] \in Seq(Requests) BY <1>1
<1>5. m \in Asking(c, id) <=> c = d /\ m.id = id BY Belonging
<1>6. CASE c # d
  <2>1. Same(Positions(in[c], Asking(c, id)), Positions(in'[c], Asking(c, id)))
    BY <1>2, <1>6, SameItself, Zenon
  <2> QED BY <1>2, <1>3, <1>6, <2>1, PairUnmoved, Zenon
<1>7. CASE c = d /\ m.id # id
  <2>1. Positions(Append(in[c], m), Asking(c, id)) = Positions(in[c], Asking(c, id))
    <3>1. m \notin Asking(c, id) BY <1>5, <1>7
    <3> QED BY <1>4, <3>1, OneAppended, Zenon
  <2>2. Same(Positions(in[c], Asking(c, id)), Positions(in'[c], Asking(c, id)))
    BY <1>2, <1>7, <2>1, SameItself, Zenon
  <2>3. id \in awaiting'[c] <=> id \in awaiting[c] BY <1>2, <1>7
  <2> QED BY <1>3, <2>2, <2>3, PairUnmoved, Zenon
<1>8. CASE c = d /\ m.id = id
  <2>1. m \in Asking(c, id) BY <1>5, <1>8
  <2>2. Positions(in[c], Asking(c, id)) = {} => One(Positions(Append(in[c], m), Asking(c, id)))
    BY <1>4, <2>1, OneAppended, Zenon
  <2>3. Positions(in[c], Asking(c, id)) = {} => One(Positions(in'[c], Asking(c, id)))
    BY <1>2, <1>8, <2>2, Zenon
  <2>4. id \notin awaiting[c] /\ id \in awaiting'[c] BY <1>2, <1>8
  <2> QED BY <1>3, <2>3, <2>4, PairEntered, Zenon
<1> QED BY <1>6, <1>7, <1>8

\* A client reads a frame: with an Ack it stops waiting.
LEMMA PairRead ==
  ASSUME TypeOK, NEW d \in Connections, Receive(d),
         NEW c \in Connections, NEW id \in Ids, PairInv(c, id)
  PROVE  PairInv(c, id)'
<1> DEFINE frame == Head(out[d])
<1>1. /\ out \in [Connections -> Seq(Frames)] /\ awaiting \in [Connections -> SUBSET Ids]
  BY DEF TypeOK, ClientTypes
<1>2. /\ out[d] # <<>> /\ out' = [out EXCEPT ![d] = Tail(@)] /\ in' = in /\ io' = io
      /\ mailbox' = mailbox /\ todo' = todo
      /\ awaiting' = [awaiting EXCEPT ![d] = IF frame.type = "ack" THEN @ \ {frame.id} ELSE @]
  BY Zenon DEF Receive, server, queues
<1>3. /\ Same(Positions(in[c], Asking(c, id)), Positions(in'[c], Asking(c, id)))
      /\ Same(Positions(mailbox, Asking(c, id)), Positions(mailbox', Asking(c, id)))
      /\ Same(Positions(todo, Settling(c, id)), Positions(todo', Settling(c, id)))
      /\ Same(Positions(io[c], Refusing(id)), Positions(io'[c], Refusing(id)))
  BY <1>2, SameItself, Zenon
<1>4. out[d] \in Seq(Frames) /\ frame \in Frames BY <1>1, <1>2
<1>5. /\ c # d => out'[c] = out[c] /\ awaiting'[c] = awaiting[c]
      /\ c = d => /\ out'[c] = Tail(out[c])
                  /\ awaiting'[c] = IF frame.type = "ack" THEN awaiting[c] \ {frame.id} ELSE awaiting[c]
  BY <1>1, <1>2, Zenon
<1>6. frame \in Acking(id) <=> frame.type = "ack" /\ frame.id = id BY <1>4 DEF Acking
<1>7. CASE c # d
  <2>1. Same(Positions(out[c], Acking(id)), Positions(out'[c], Acking(id)))
    BY <1>5, <1>7, SameItself, Zenon
  <2> QED BY <1>3, <1>5, <1>7, <2>1, PairUnmoved, Zenon
<1>8. CASE c = d /\ frame \notin Acking(id)
  <2>1. Same(Positions(out[c], Acking(id)), Positions(out'[c], Acking(id)))
    BY <1>2, <1>4, <1>5, <1>8, FirstGone, Zenon
  <2>2. id \in awaiting'[c] <=> id \in awaiting[c] BY <1>5, <1>6, <1>8
  <2> QED BY <1>3, <2>1, <2>2, PairUnmoved, Zenon
<1>9. CASE c = d /\ frame \in Acking(id)
  <2>1. /\ Positions(out[c], Acking(id)) # {}
        /\ One(Positions(out[c], Acking(id))) => Positions(out'[c], Acking(id)) = {}
    <3>1. out[c] \in Seq(Frames) /\ out[c] # <<>> /\ out'[c] = Tail(out[c]) /\ Head(out[c]) \in Acking(id)
      BY <1>2, <1>4, <1>5, <1>9
    <3> QED BY <3>1, FirstGone, Zenon
  <2>2. id \notin awaiting'[c] BY <1>5, <1>6, <1>9, Zenon
  <2> QED BY <1>3, <2>1, <2>2, PairLeft, Zenon
<1> QED BY <1>7, <1>8, <1>9

\* The queues of a request stay as they are.
LEMMA PairKept ==
  ASSUME NEW c \in Connections, NEW id \in Ids, PairInv(c, id), awaiting'[c] = awaiting[c],
         in'[c] = in[c], mailbox' = mailbox, todo' = todo, io'[c] = io[c], out'[c] = out[c]
  PROVE  PairInv(c, id)'
<1>1. /\ Same(Positions(in[c], Asking(c, id)), Positions(in'[c], Asking(c, id)))
      /\ Same(Positions(mailbox, Asking(c, id)), Positions(mailbox', Asking(c, id)))
      /\ Same(Positions(todo, Settling(c, id)), Positions(todo', Settling(c, id)))
      /\ Same(Positions(io[c], Refusing(id)), Positions(io'[c], Refusing(id)))
      /\ Same(Positions(out[c], Acking(id)), Positions(out'[c], Acking(id)))
  BY SameItself, Zenon
<1> QED BY <1>1, PairUnmoved, Zenon

\* A connection opens: its callback answers nothing.
LEMMA PairOpened ==
  ASSUME TypeOK, AckInv, NEW d \in Connections, OnOpen(d),
         NEW c \in Connections, NEW id \in Ids, PairInv(c, id)
  PROVE  PairInv(c, id)'
<1>1. awaiting' = awaiting /\ in' = in /\ mailbox' = mailbox /\ todo' = todo /\ out' = out
  BY DEF OnOpen, queues, view
<1>2. io \in [Connections -> Seq(IoSteps)] BY DEF TypeOK, QueueTypes
<1>3. CASE io'[c] = io[c] BY <1>1, <1>3, PairKept, Zenon
<1>4. CASE c = d /\ io'[c] = <<[op |-> "handshake"], [op |-> "join"]>>
  <2>1. io[c] = <<>> BY <1>4, Zenon DEF OnOpen, AckInv
  <2>2. Positions(io[c], Refusing(id)) = {} BY <2>1 DEF Positions
  <2>3. \A i \in DOMAIN io'[c] : io'[c][i].op \in {"handshake", "join"} BY <1>4
  <2>4. Positions(io'[c], Refusing(id)) = {} BY <2>3 DEF Positions, Refusing
  <2>5. /\ Same(Positions(in[c], Asking(c, id)), Positions(in'[c], Asking(c, id)))
        /\ Same(Positions(mailbox, Asking(c, id)), Positions(mailbox', Asking(c, id)))
        /\ Same(Positions(todo, Settling(c, id)), Positions(todo', Settling(c, id)))
        /\ Same(Positions(io[c], Refusing(id)), Positions(io'[c], Refusing(id)))
        /\ Same(Positions(out[c], Acking(id)), Positions(out'[c], Acking(id)))
    BY <1>1, <2>2, <2>4, SameItself, Zenon
  <2> QED BY <1>1, <2>5, PairUnmoved, Zenon
<1>5. io'[c] = io[c] \/ (c = d /\ io'[c] = <<[op |-> "handshake"], [op |-> "join"]>>)
  <2>1. CASE io' = io BY <2>1
  <2>2. CASE io' = [io EXCEPT ![d] = <<[op |-> "handshake"], [op |-> "join"]>>] BY <1>2, <2>2
  <2> QED BY <2>1, <2>2 DEF OnOpen
<1> QED BY <1>3, <1>4, <1>5, Zenon

\* A reload is submitted: it is no request.
LEMMA PairReload ==
  ASSUME TypeOK, SubmitReload, NEW c \in Connections, NEW id \in Ids, PairInv(c, id)
  PROVE  PairInv(c, id)'
<1> DEFINE reload == [kind |-> "reload"]
<1>1. /\ awaiting' = awaiting /\ in' = in /\ todo' = todo /\ io' = io /\ out' = out
      /\ mailbox' = mailbox \/ mailbox' = Append(mailbox, reload)
  BY DEF SubmitReload, client, view
<1>2. reload \in Commands /\ reload.kind \notin Kinds BY DEF Commands, Kinds
<1>3. reload \notin Asking(c, id) BY <1>2, Zenon DEF Asking, Requests
<1> HIDE DEF reload
<1>4. /\ Same(Positions(in[c], Asking(c, id)), Positions(in'[c], Asking(c, id)))
      /\ Same(Positions(todo, Settling(c, id)), Positions(todo', Settling(c, id)))
      /\ Same(Positions(io[c], Refusing(id)), Positions(io'[c], Refusing(id)))
      /\ Same(Positions(out[c], Acking(id)), Positions(out'[c], Acking(id)))
  BY <1>1, SameItself, Zenon
<1>5. Same(Positions(mailbox, Asking(c, id)), Positions(mailbox', Asking(c, id)))
  BY <1>1, <1>2, <1>3, MailboxOther, Zenon
<1> QED BY <1>1, <1>4, <1>5, PairUnmoved, Zenon

\* A client sends a request under the next id of its kind.
Asks(d) ==
  \E kind \in Kinds, m \in Requests :
    /\ m.origin = d /\ m.id = <<kind, sent[d][kind] + 1>>
    /\ in' = [in EXCEPT ![d] = Append(@, m)]
    /\ awaiting' = [awaiting EXCEPT ![d] = @ \cup {m.id}]
    /\ sent' = [sent EXCEPT ![d][kind] = @ + 1]
    /\ UNCHANGED <<mailbox, todo, io, out, status, clients>>

\* The three requests of a client are such.
LEMMA Asked ==
  ASSUME TypeOK, NEW d \in Connections, SendUpdate(d) \/ SendSetActive(d) \/ SendCreate(d)
  PROVE  Asks(d)
<1>1. sent \in [Connections -> [Kinds -> Nat]] /\ base \in [Connections -> Nat]
  BY DEF TypeOK, ClientTypes
<1>2. \A kind \in Kinds : sent[d][kind] \in Nat /\ <<kind, sent[d][kind] + 1>> \in Ids
  BY <1>1 DEF Ids
<1>3. CASE SendUpdate(d)
  <2> DEFINE n == sent[d]["update"] + 1
             M(p, shape) == [kind |-> "update", origin |-> d, id |-> <<"update", n>>,
                             prim |-> p, shape |-> shape, value |-> <<d, n>>, base |-> base[d]]
  <2>1. PICK p \in Prims, shape \in Shapes :
          /\ in' = [in EXCEPT ![d] = Append(@, M(p, shape))]
          /\ sent' = [sent EXCEPT ![d]["update"] = n]
          /\ awaiting' = [awaiting EXCEPT ![d] = @ \cup {<<"update", n>>}]
    BY <1>3, Zenon DEF SendUpdate
  <2>2. "update" \in Kinds BY DEF Kinds
  <2>3. <<d, n>> \in Values
    <3>1. sent[d]["update"] \in Nat BY <1>1, <2>2
    <3>2. n \in Nat BY <3>1
    <3> HIDE DEF n
    <3> QED BY <3>2 DEF Values
  <2>4. M(p, shape) \in Requests BY <1>1, <1>2, <2>2, <2>3 DEF Requests
  <2>5. M(p, shape).origin = d /\ M(p, shape).id = <<"update", n>> OBVIOUS
  <2>6. UNCHANGED <<mailbox, todo, io, out, status, clients>> BY <1>3 DEF SendUpdate, server, queues
  <2> HIDE DEF M
  <2>7. sent' = [sent EXCEPT ![d]["update"] = @ + 1] BY <1>1, <2>1
  <2>8. awaiting' = [awaiting EXCEPT ![d] = @ \cup {M(p, shape).id}] BY <2>1, <2>5
  <2> QED BY <2>1, <2>2, <2>4, <2>5, <2>6, <2>7, <2>8, Zenon DEF Asks
<1>4. CASE SendSetActive(d)
  <2> DEFINE n == sent[d]["active"] + 1
             M(p, active) == [kind |-> "active", origin |-> d, id |-> <<"active", n>>,
                              prim |-> p, active |-> active]
  <2>1. PICK p \in Prims, active \in BOOLEAN :
          /\ in' = [in EXCEPT ![d] = Append(@, M(p, active))]
          /\ awaiting' = [awaiting EXCEPT ![d] = @ \cup {<<"active", n>>}]
    BY <1>4, Zenon DEF SendSetActive
  <2>2. "active" \in Kinds BY DEF Kinds
  <2>3. M(p, active) \in Requests BY <1>2, <2>2 DEF Requests
  <2>4. M(p, active).origin = d /\ M(p, active).id = <<"active", n>> OBVIOUS
  <2>5. /\ sent' = [sent EXCEPT ![d]["active"] = @ + 1]
        /\ UNCHANGED <<mailbox, todo, io, out, status, clients>>
    BY <1>4 DEF SendSetActive, server, queues
  <2> DEFINE m == M(p, active)
  <2>6. m \in Requests /\ m.origin = d /\ m.id = <<"active", n>> BY <2>3, <2>4, Zenon
  <2>7. in' = [in EXCEPT ![d] = Append(@, m)] BY <2>1, Zenon
  <2> HIDE DEF M, m
  <2>8. awaiting' = [awaiting EXCEPT ![d] = @ \cup {m.id}] BY <2>1, <2>6, Zenon
  <2> QED BY <2>2, <2>5, <2>6, <2>7, <2>8, Zenon DEF Asks
<1>5. CASE SendCreate(d)
  <2> DEFINE n == sent[d]["create"] + 1
             m == [kind |-> "create", origin |-> d, id |-> <<"create", n>>]
  <2>1. /\ in' = [in EXCEPT ![d] = Append(@, m)]
        /\ awaiting' = [awaiting EXCEPT ![d] = @ \cup {<<"create", n>>}]
        /\ sent' = [sent EXCEPT ![d]["create"] = @ + 1]
        /\ UNCHANGED <<mailbox, todo, io, out, status, clients>>
    BY <1>5 DEF SendCreate, server, queues
  <2>2. "create" \in Kinds BY DEF Kinds
  <2>3. m \in Requests BY <1>2, <2>2, Zenon DEF Requests
  <2>4. m.origin = d /\ m.id = <<"create", n>> OBVIOUS
  <2> HIDE DEF m
  <2>5. awaiting' = [awaiting EXCEPT ![d] = @ \cup {m.id}] BY <2>1, <2>4
  <2> QED BY <2>1, <2>2, <2>3, <2>4, <2>5, Zenon DEF Asks
<1> QED BY <1>3, <1>4, <1>5

\* What a step may do to the state of a connection.
LEMMA StatusStep ==
  ASSUME TypeOK, AckInv, [Next]_vars, NEW c \in Connections
  PROVE  /\ status'[c] = "new" => status[c] = "new" /\ io'[c] = io[c]
         /\ status'[c] = "open" => c \in clients' /\ status[c] \in {"new", "open"}
<1>1. /\ status \in [Connections -> {"new", "open", "closing", "closed"}]
      /\ io \in [Connections -> Seq(IoSteps)] /\ clients \subseteq Connections
  BY DEF TypeOK, ClientTypes, QueueTypes
<1>2. status[c] = "new" => io[c] = <<>> BY DEF AckInv
<1>3. status[c] = "open" => c \in clients BY DEF AckInv
<1>4. CASE UNCHANGED <<status, clients>> /\ io'[c] = io[c] BY <1>3, <1>4
<1>5. ASSUME NEW d \in Connections, OnOpen(d)
      PROVE  /\ status'[c] = "new" => status[c] = "new" /\ io'[c] = io[c]
             /\ status'[c] = "open" => c \in clients' /\ status[c] \in {"new", "open"}
  BY <1>1, <1>3, <1>5 DEF OnOpen
<1>6. ASSUME NEW d \in Connections, OnMessage(d)
      PROVE  /\ status'[c] = "new" => status[c] = "new" /\ io'[c] = io[c]
             /\ status'[c] = "open" => c \in clients' /\ status[c] \in {"new", "open"}
  <2>1. UNCHANGED <<status, clients>> /\ status[d] = "open" BY <1>6 DEF OnMessage, client
  <2>2. c # d => io'[c] = io[c] BY <1>1, <1>6 DEF OnMessage
  <2> QED BY <1>3, <2>1, <2>2
<1>7. ASSUME NEW d \in Connections, IoStep(d)
      PROVE  /\ status'[c] = "new" => status[c] = "new" /\ io'[c] = io[c]
             /\ status'[c] = "open" => c \in clients' /\ status[c] \in {"new", "open"}
  <2>1. clients' = clients /\ io[d] # <<>> /\ (c # d => io'[c] = io[c]) BY <1>1, <1>7 DEF IoStep
  <2>2. status' = status \/ status' = [status EXCEPT ![d] = "closing"] BY <1>7 DEF IoStep
  <2>3. status'[c] \in {"new", "open"} => status'[c] = status[c] BY <1>1, <2>2
  <2> QED BY <1>2, <1>3, <2>1, <2>3
<1>8. ASSUME NEW d \in Connections, OnClose(d)
      PROVE  /\ status'[c] = "new" => status[c] = "new" /\ io'[c] = io[c]
             /\ status'[c] = "open" => c \in clients' /\ status[c] \in {"new", "open"}
  BY <1>1, <1>3, <1>8 DEF OnClose
<1>9. CASE Handle BY <1>4, <1>9 DEF Handle, client
<1>10. CASE Continue BY <1>4, <1>10 DEF Continue, client
<1>11. CASE Upload \/ SubmitReload \/ Destroy \/ Teardown
  BY <1>4, <1>11, Zenon DEF Upload, SubmitReload, Destroy, Teardown, client
<1>12. ASSUME NEW d \in Connections,
              SendUpdate(d) \/ SendSetActive(d) \/ SendCreate(d) \/ Receive(d)
       PROVE  UNCHANGED <<status, clients>> /\ io'[c] = io[c]
  BY <1>12, Zenon DEF SendUpdate, SendSetActive, SendCreate, Receive, server
<1>13. CASE UNCHANGED vars BY <1>4, <1>13 DEF vars, server, client
<1> QED BY <1>4, <1>5, <1>6, <1>7, <1>8, <1>9, <1>10, <1>11, <1>12, <1>13, Zenon DEF Next

\* The next id of a kind is new.
LEMMA NewId ==
  ASSUME TypeOK, AckInv, NEW d \in Connections, NEW kind \in Kinds
  PROVE  <<kind, sent[d][kind] + 1>> \notin awaiting[d]
<1>1. sent[d][kind] \in Nat BY DEF TypeOK, ClientTypes
<1>2. ASSUME <<kind, sent[d][kind] + 1>> \in awaiting[d] PROVE FALSE
  <2>1. <<kind, sent[d][kind] + 1>>[2] <= sent[d][<<kind, sent[d][kind] + 1>>[1]]
    BY <1>2 DEF AckInv
  <2>2. sent[d][kind] + 1 <= sent[d][kind] BY <2>1
  <2> QED BY <1>1, <2>2
<1> QED BY <1>2

\* The Ack of a connected client's request stays in one place, whoever takes a step.
LEMMA PairStep ==
  ASSUME TypeOK, SeqInv, TodoInv, AckInv, Handle => Handled, Continue => Continued,
         [Next]_vars,
         NEW c \in Connections, status'[c] \in {"new", "open"}, NEW id \in Ids
  PROVE  PairInv(c, id)'
<1>1. status[c] \in {"new", "open"} BY StatusStep
<1>2. PairInv(c, id) BY <1>1 DEF AckInv
<1>3. c \in clients \/ awaiting[c] = {} BY <1>1 DEF AckInv
<1>4. CASE Handle BY <1>2, <1>4, PairHandled, Zenon
<1>5. CASE Continue BY <1>2, <1>3, <1>5, PairContinued, Zenon
<1>6. CASE Upload BY <1>2, <1>6, PairKept, Zenon DEF Upload, queues, client, view
<1>7. CASE SubmitReload BY <1>2, <1>7, PairReload, Zenon
<1>8. CASE Destroy BY <1>2, <1>8, PairKept, Zenon DEF Destroy, queues, client, view
<1>9. CASE Teardown BY <1>2, <1>9, PairKept, Zenon DEF Teardown, queues, client, view
<1>10. ASSUME NEW d \in Connections, OnOpen(d) PROVE PairInv(c, id)' BY <1>2, <1>10, PairOpened, Zenon
<1>11. ASSUME NEW d \in Connections, OnMessage(d) PROVE PairInv(c, id)' BY <1>2, <1>11, PairReceived, Zenon
<1>12. ASSUME NEW d \in Connections, IoStep(d) PROVE PairInv(c, id)' BY <1>2, <1>12, PairAnswered, Zenon
<1>13. ASSUME NEW d \in Connections, OnClose(d) PROVE PairInv(c, id)'
  <2>1. status'[d] = "closed" BY <1>13 DEF OnClose, TypeOK, ClientTypes
  <2>2. c # d BY <2>1
  <2>3. /\ awaiting' = awaiting /\ mailbox' = mailbox /\ todo' = todo /\ io' = io
        /\ in' = [in EXCEPT ![d] = <<>>] /\ out' = [out EXCEPT ![d] = <<>>]
    BY <1>13 DEF OnClose, queues, view
  <2>4. in'[c] = in[c] /\ out'[c] = out[c] BY <2>2, <2>3 DEF TypeOK, ClientTypes
  <2> QED BY <1>2, <2>3, <2>4, PairKept, Zenon
<1>14. ASSUME NEW d \in Connections, SendUpdate(d) \/ SendSetActive(d) \/ SendCreate(d)
       PROVE  PairInv(c, id)'
  <2>1. PICK kind \in Kinds, m \in Requests :
          /\ m.origin = d /\ m.id = <<kind, sent[d][kind] + 1>>
          /\ in' = [in EXCEPT ![d] = Append(@, m)]
          /\ awaiting' = [awaiting EXCEPT ![d] = @ \cup {m.id}]
          /\ UNCHANGED <<mailbox, todo, io, out>>
    BY <1>14, Asked, ZenonT(30) DEF Asks
  <2>2. m.id \notin awaiting[d] BY <2>1, NewId, Zenon
  <2> QED BY <1>2, <2>1, <2>2, PairAsked, Zenon
<1>15. ASSUME NEW d \in Connections, Receive(d) PROVE PairInv(c, id)' BY <1>2, <1>15, PairRead, Zenon
<1>16. CASE UNCHANGED vars BY <1>2, <1>16, PairKept, Zenon DEF vars, server, queues, client, view
<1> QED
  BY <1>4, <1>5, <1>6, <1>7, <1>8, <1>9, <1>10, <1>11, <1>12, <1>13, <1>14, <1>15, <1>16 DEF Next

\* What a client waits for it has asked for.
LEMMA AwaitedStep ==
  ASSUME TypeOK, AckInv, [Next]_vars, NEW c \in Connections
  PROVE  /\ status'[c] = "new" => awaiting'[c] = {}
         /\ \A id \in awaiting'[c] : id[2] <= sent'[c][id[1]]
<1>1. /\ awaiting \in [Connections -> SUBSET Ids] /\ sent \in [Connections -> [Kinds -> Nat]]
      /\ status \in [Connections -> {"new", "open", "closing", "closed"}]
  BY DEF TypeOK, ClientTypes
<1>2. /\ status'[c] = "new" => awaiting[c] = {}
      /\ \A id \in awaiting[c] : id[2] <= sent[c][id[1]]
  BY StatusStep DEF AckInv
<1>3. CASE awaiting'[c] \subseteq awaiting[c] /\ sent' = sent BY <1>2, <1>3
<1>4. CASE Handle BY <1>3, <1>4, Zenon DEF Handle, client, view
<1>5. CASE Continue BY <1>3, <1>5, Zenon DEF Continue, client, view
<1>6. CASE Upload \/ SubmitReload \/ Destroy \/ Teardown
  BY <1>3, <1>6, Zenon DEF Upload, SubmitReload, Destroy, Teardown, client, view
<1>7. ASSUME NEW d \in Connections, OnOpen(d) \/ OnMessage(d) \/ IoStep(d) \/ OnClose(d)
      PROVE  awaiting'[c] \subseteq awaiting[c] /\ sent' = sent
  BY <1>7, Zenon DEF OnOpen, OnMessage, IoStep, OnClose, client, view
<1>8. ASSUME NEW d \in Connections, SendUpdate(d) \/ SendSetActive(d) \/ SendCreate(d)
      PROVE  /\ status'[c] = "new" => awaiting'[c] = {}
             /\ \A id \in awaiting'[c] : id[2] <= sent'[c][id[1]]
  <2>1. status[d] = "open" BY <1>8 DEF SendUpdate, SendSetActive, SendCreate
  <2>2. PICK kind \in Kinds, m \in Requests :
          /\ m.id = <<kind, sent[d][kind] + 1>>
          /\ awaiting' = [awaiting EXCEPT ![d] = @ \cup {m.id}]
          /\ sent' = [sent EXCEPT ![d][kind] = @ + 1]
          /\ status' = status
    BY <1>8, Asked, ZenonT(30) DEF Asks
  <2>3. CASE c # d
    <3>1. awaiting'[c] = awaiting[c] /\ sent'[c] = sent[c] BY <1>1, <2>2, <2>3
    <3> QED BY <1>2, <3>1, Zenon
  <2>4. CASE c = d
    <3>1. awaiting'[c] = awaiting[c] \cup {<<kind, sent[c][kind] + 1>>} BY <1>1, <2>2, <2>4
    <3>2. \A k \in Kinds : sent[c][k] \in Nat BY <1>1
    <3>3. \A k \in Kinds : sent'[c][k] = IF k = kind THEN sent[c][k] + 1 ELSE sent[c][k]
      BY <1>1, <2>2, <2>4
    <3>4. ASSUME NEW id \in awaiting[c] PROVE id[2] <= sent'[c][id[1]]
      <4>1. id \in Ids BY <1>1
      <4>2. id[1] \in Kinds /\ id[2] \in Nat BY <4>1 DEF Ids
      <4>3. id[2] <= sent[c][id[1]] BY <1>2
      <4>4. sent[c][id[1]] \in Nat BY <3>2, <4>2
      <4>5. sent'[c][id[1]] = sent[c][id[1]] \/ sent'[c][id[1]] = sent[c][id[1]] + 1 BY <3>3, <4>2
      <4> QED BY <4>2, <4>3, <4>4, <4>5
    <3>5. sent[c][kind] + 1 <= sent'[c][kind] BY <3>2, <3>3
    <3>6. ASSUME NEW id, id = <<kind, sent[c][kind] + 1>> PROVE id[2] <= sent'[c][id[1]]
      BY <3>5, <3>6
    <3>7. status'[c] # "new" BY <2>1, <2>2, <2>4
    <3> QED BY <3>1, <3>4, <3>6, <3>7
  <2> QED BY <2>3, <2>4
<1>9. ASSUME NEW d \in Connections, Receive(d)
      PROVE  awaiting'[c] \subseteq awaiting[c] /\ sent' = sent
  <2> DEFINE frame == Head(out[d])
  <2>1. /\ awaiting' = [awaiting EXCEPT ![d] = IF frame.type = "ack" THEN @ \ {frame.id} ELSE @]
        /\ sent' = sent
    BY <1>9 DEF Receive
  <2> QED BY <1>1, <2>1
<1>10. CASE UNCHANGED vars BY <1>3, <1>10, Zenon DEF vars, client, view
<1> QED BY <1>3, <1>4, <1>5, <1>6, <1>7, <1>8, <1>9, <1>10, Zenon DEF Next

\* The Acks of all connected clients.
LEMMA AckInvStep ==
  ASSUME TypeOK, SeqInv, TodoInv, AckInv, Handle => Handled, Continue => Continued,
         [Next]_vars
  PROVE  AckInv'
<1> SUFFICES ASSUME NEW c \in Connections
             PROVE  /\ status'[c] = "new" => io'[c] = <<>> /\ awaiting'[c] = {}
                    /\ status'[c] = "open" => c \in clients'
                    /\ status'[c] \in {"new", "open"} => \A id \in Ids : PairInv(c, id)'
                    /\ \A id \in awaiting'[c] : id[2] <= sent'[c][id[1]]
  BY DEF AckInv, Ids
<1>1. status[c] = "new" => io[c] = <<>> BY DEF AckInv
<1>2. /\ status'[c] = "new" => io'[c] = <<>>
      /\ status'[c] = "open" => c \in clients'
  BY <1>1, StatusStep
<1>3. status'[c] \in {"new", "open"} => \A id \in Ids : PairInv(c, id)' BY PairStep
<1>4. /\ status'[c] = "new" => awaiting'[c] = {}
      /\ \A id \in awaiting'[c] : id[2] <= sent'[c][id[1]]
  BY AwaitedStep
<1> QED BY <1>2, <1>3, <1>4
=============================================================================
