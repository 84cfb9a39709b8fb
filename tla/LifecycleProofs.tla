--------------------------- MODULE LifecycleProofs ---------------------------
(* Theorems about SessionLifecycle, for every number of sessions,          *)
(* connections, commit calls and edits, and every queue capacity.          *)
EXTENDS SessionLifecycle, TLAPS

-----------------------------------------------------------------------------
(* The inductive invariant.  TLC checks its parts, and so does every step.   *)

Hands(t) == Range(teardown[t].todo)

InHand == m_sessions \cup Leaving

Errands == [at : {"resting", "close", "wait", "commit", "clear"}, todo : Seq(Sessions)]

\* The types, by the threads that change the variables.
MapTypes ==
  /\ m_sessions \subseteq Sessions /\ used \subseteq Sessions /\ gone \subseteq used
  /\ admitting \subseteq used /\ teardown \in [Threads -> Errands]
  /\ application \in {"running", "flushing", "destroying", "stopped"}

QueueTypes == queue \in [Sessions -> Seq(Command)] /\ \A s \in Sessions : Len(queue[s]) <= Capacity

StageTypes ==
  /\ busy \in [Sessions -> {Nobody, "reload", "notify"}]
  /\ layer \in [Sessions -> SUBSET Edits] /\ sidecar \in [Sessions -> SUBSET Edits]
  /\ dirty \in [Sessions -> BOOLEAN]
  /\ root \subseteq Edits /\ file \subseteq Edits /\ autoCommitted \subseteq Edits
  /\ layer_mutex \in Sessions \cup {Nobody} /\ stale \in BOOLEAN /\ lost \subseteq Edits

CallTypes ==
  /\ caller \in [Callers -> Calls] /\ promise \in [Callers -> {"none", "Ok", "refused"}]
  /\ edits \in 0 .. MaxEdits

PeerTypes ==
  /\ clients \in [Sessions -> SUBSET Connections] /\ stamped \in [Sessions -> BOOLEAN]
  /\ conn \in [Connections -> Places]

\* A session that admits commands is in the map or in the hands of a thread, which
\* closes its queue before it goes on.  The destructor has none before it has
\* emptied the map.
MapInv ==
  /\ InHand \subseteq used /\ m_sessions \cap gone = {} /\ admitting \subseteq InHand
  /\ \A t \in Threads :
       /\ teardown[t].todo = <<>> <=> teardown[t].at = "resting"
       /\ teardown[t].at \in {"wait", "commit", "clear"} => Head(teardown[t].todo) \notin admitting
  /\ application \in {"running", "flushing"} => teardown[Main] = Resting

\* A session in nobody's hands has no command and no edit, and one past WaitIdle no
\* command.
QuietInv ==
  /\ \A s \in Sessions \ InHand : queue[s] = <<>> /\ busy[s] = Nobody /\ layer[s] = {}
  /\ \A t \in Threads : teardown[t].at \in {"commit", "clear"} =>
       queue[Head(teardown[t].todo)] = <<>> /\ busy[Head(teardown[t].todo)] = Nobody

\* The mutex of the root layer is held exactly between the write and the reload of a
\* commit, and a commit in the queue finds the edits it was asked for on the layer.
ConsumerInv ==
  /\ \A s \in Sessions :
       /\ layer_mutex = s <=> busy[s] = "reload"
       /\ busy[s] # Nobody => queue[s] # <<>> /\ Head(queue[s]).type = "commit"
       /\ \A i \in DOMAIN queue[s] : queue[s][i].type = "commit" =>
            /\ caller[queue[s][i].caller].at # "idle"
            /\ caller[queue[s][i].caller].owed \subseteq layer[s]
  /\ \A k \in Callers : caller[k].at = "idle" => promise[k] = "none"

\* What no commit takes out unnoticed: what every commit writes again because it is on
\* the root layer, and once a reload has failed, what is in the file, since what a commit
\* takes out of it then counts as lost.
Base == (IF stale THEN file ELSE root) \cup lost

\* The edits that are relied upon are in the base, or on the layer of the commit that is
\* about to put them there.
FileInv ==
  /\ root \subseteq file
  /\ \A s \in m_sessions : \/ dirty[s] \/ layer[s] \subseteq sidecar[s] \cup Base
                           \/ layer_mutex = s /\ layer[s] \subseteq file
  /\ \A s \in Sessions : /\ busy[s] = "reload" => layer[s] \subseteq file
                         /\ busy[s] = "notify" => layer[s] \subseteq Base
  /\ Opened # {} => \A k \in Callers : promise[k] = "Ok" => caller[k].owed \subseteq Base

Inv ==
  /\ TypeOK /\ TornDownOnce /\ MapInv /\ QuietInv /\ ConsumerInv /\ FileInv /\ CommitKept
  /\ OneEditor

\* The types of the groups are the types of the specification.
LEMMA Types == TypeOK <=> MapTypes /\ QueueTypes /\ StageTypes /\ CallTypes /\ PeerTypes
BY DEF TypeOK, MapTypes, QueueTypes, StageTypes, CallTypes, PeerTypes, Errands
-----------------------------------------------------------------------------
(* The lists of sessions a thread tears down. *)

\* The first session of a list without repetitions is not in the rest.
LEMMA FirstAndRest ==
  ASSUME NEW S, NEW q \in Seq(S), q # <<>>, IsInjective(q)
  PROVE  /\ Head(q) \in S /\ Head(q) \in Range(q)
         /\ Tail(q) \in Seq(S) /\ IsInjective(Tail(q))
         /\ Range(Tail(q)) = Range(q) \ {Head(q)}
<1>1. /\ Len(q) \in Nat \ {0} /\ DOMAIN q = 1 .. Len(q) /\ Head(q) = q[1] /\ Tail(q) \in Seq(S)
      /\ Len(Tail(q)) = Len(q) - 1 /\ DOMAIN Tail(q) = 1 .. Len(q) - 1
      /\ \A i \in 1 .. Len(q) - 1 : Tail(q)[i] = q[i + 1]
  OBVIOUS
<1>2. \A i, j \in 1 .. Len(q) : q[i] = q[j] => i = j
  BY <1>1 DEF IsInjective
<1>3. IsInjective(Tail(q))
  <2>1. \A i, j \in 1 .. Len(q) - 1 : q[i + 1] = q[j + 1] => i = j
    BY <1>1, <1>2
  <2> QED BY <1>1, <2>1 DEF IsInjective
<1>4. Range(Tail(q)) = Range(q) \ {Head(q)}
  <2>1. ASSUME NEW x \in Range(Tail(q)) PROVE x \in Range(q) \ {Head(q)}
    <3>1. PICK i \in 1 .. Len(q) - 1 : x = q[i + 1]
      BY <1>1, <2>1 DEF Range
    <3>2. i + 1 \in 1 .. Len(q) /\ i + 1 # 1 /\ 1 \in 1 .. Len(q)
      BY <1>1, <3>1
    <3> QED BY <1>1, <1>2, <3>1, <3>2 DEF Range
  <2>2. ASSUME NEW x \in Range(q), x # Head(q) PROVE x \in Range(Tail(q))
    <3>1. PICK i \in 1 .. Len(q) : x = q[i]
      BY <1>1, <2>2 DEF Range
    <3>2. i - 1 \in 1 .. Len(q) - 1 /\ (i - 1) + 1 = i
      BY <1>1, <2>2, <3>1
    <3>3. Tail(q)[i - 1] = x
      BY <1>1, <3>1, <3>2
    <3> QED BY <1>1, <3>2, <3>3 DEF Range
  <2> QED BY <2>1, <2>2
<1>5. Head(q) \in Range(q) /\ Head(q) \in S
  BY <1>1 DEF Range
<1> QED BY <1>1, <1>3, <1>4, <1>5

\* The list DELETE makes has one session.
LEMMA Alone ==
  ASSUME NEW S, NEW s \in S
  PROVE  /\ <<s>> \in Seq(S) /\ <<s>> # <<>> /\ Head(<<s>>) = s
         /\ IsInjective(<<s>>) /\ Range(<<s>>) = {s}
BY DEF IsInjective, Range

\* The list the reaper and the destructor make of a set of sessions has each once.
LEMMA Listing ==
  ASSUME NEW U \in SUBSET Sessions, U # {}, NEW list \in InAnyOrder(U)
  PROVE  list \in Seq(Sessions) /\ list # <<>> /\ IsInjective(list) /\ Range(list) = U
<1> DEFINE n == Cardinality(U)
<1>1. n \in Nat
  BY LifecycleAssumption
<1>2. /\ list \in [1 .. n -> U] /\ IsInjective(list) /\ \A u \in U : \E i \in 1 .. n : list[i] = u
  BY DEF InAnyOrder, Bijection, Injection, Surjection
<1>3. list \in Seq(Sessions) /\ Len(list) = n
  BY <1>1, <1>2
<1>4. list # <<>>
  BY <1>2, <1>3
<1>5. Range(list) = U
  BY <1>2 DEF Range
<1> QED BY <1>2, <1>3, <1>4, <1>5
-----------------------------------------------------------------------------
(* The map and the teardowns. *)

\* A session that leaves is in the hands of a thread.
LEMMA InLeaving == \A s : s \in Leaving <=> \E t \in Threads : s \in Hands(t)
BY DEF Leaving, Hands

\* The same of the sessions that are leaving after a step.
LEMMA InLeavingNext == \A s : s \in Leaving' <=> \E t \in Threads : s \in Hands(t)'
BY DEF Leaving, Hands

\* An empty list holds no session.
LEMMA NoHands == Range(<<>>) = {} /\ DOMAIN <<>> = {}
BY DEF Range

\* What all the ways to begin a teardown have in common: a thread that rests takes
\* sessions out of the map.
LEMMA Taken ==
  ASSUME MapTypes, TornDownOnce, MapInv, NEW t \in Threads, teardown[t] = Resting,
         NEW U \in SUBSET m_sessions, NEW q \in Seq(Sessions),
         q # <<>>, IsInjective(q), Range(q) = U, m_sessions' = m_sessions \ U,
         teardown' = [teardown EXCEPT ![t] = [at |-> "close", todo |-> q]],
         UNCHANGED <<used, gone, admitting>>
  PROVE  /\ TornDownOnce' /\ InHand' = InHand /\ teardown' \in [Threads -> Errands]
         /\ \A u \in Threads :
              /\ teardown'[u].todo = <<>> <=> teardown'[u].at = "resting"
              /\ teardown'[u].at \in {"wait", "commit", "clear"} =>
                   teardown'[u] = teardown[u]
<1>1. /\ teardown'[t] = [at |-> "close", todo |-> q]
      /\ \A u \in Threads \ {t} : teardown'[u] = teardown[u]
  BY DEF MapTypes
<1>2. Hands(t) = {} /\ Hands(t)' = U /\ \A u \in Threads \ {t} : Hands(u)' = Hands(u)
  BY <1>1, NoHands DEF Hands, Resting
<1>3. InHand' = InHand
  BY <1>2, InLeaving, InLeavingNext DEF InHand
<1>4. TornDownOnce'
  <2>1. \A u, v \in Threads : u # v => Hands(u)' \cap Hands(v)' = {}
    BY <1>2 DEF TornDownOnce, Hands
  <2>2. \A u \in Threads : IsInjective(teardown'[u].todo)
    BY <1>1 DEF TornDownOnce
  <2>3. \A u \in Threads : Hands(u)' \cap (m_sessions' \cup gone') = {}
    BY <1>2 DEF TornDownOnce, Hands, MapInv
  <2> QED BY <2>1, <2>2, <2>3, Zenon DEF TornDownOnce, Hands
<1>5. teardown' \in [Threads -> Errands]
  BY DEF MapTypes, Errands
<1> QED BY <1>1, <1>3, <1>4, <1>5 DEF MapInv

\* A step of a teardown that keeps the list.
LEMMA Going ==
  ASSUME MapTypes, TornDownOnce, MapInv, NEW t \in Threads, teardown[t].at # "resting",
         NEW step \in {"wait", "commit", "clear"},
         teardown' = [teardown EXCEPT ![t].at = step], UNCHANGED <<m_sessions, used, gone>>
  PROVE  /\ TornDownOnce' /\ InHand' = InHand /\ teardown' \in [Threads -> Errands]
         /\ teardown'[t].at = step /\ \A u \in Threads : teardown'[u].todo = teardown[u].todo
         /\ \A u \in Threads \ {t} : teardown'[u] = teardown[u]
<1>1. /\ teardown' \in [Threads -> Errands] /\ teardown'[t].at = step
      /\ \A u \in Threads : teardown'[u].todo = teardown[u].todo
      /\ \A u \in Threads \ {t} : teardown'[u] = teardown[u]
  BY DEF MapTypes, Errands
<1>2. \A u \in Threads : Hands(u)' = Hands(u)
  BY <1>1 DEF Hands
<1>3. InHand' = InHand
  BY <1>2, InLeaving, InLeavingNext DEF InHand
<1>4. TornDownOnce'
  BY <1>1 DEF TornDownOnce
<1> QED BY <1>1, <1>3, <1>4

\* The end of a teardown: the session is in nobody's hands any more.
LEMMA Cleared ==
  ASSUME MapTypes, TornDownOnce, MapInv, NEW t \in Threads, ClearSession(t)
  PROVE  LET s == Head(teardown[t].todo)
         IN  /\ s \in Sessions /\ s \in Leaving /\ s \notin m_sessions /\ s \notin gone
             /\ TornDownOnce' /\ InHand' = InHand \ {s} /\ teardown' \in [Threads -> Errands]
             /\ teardown'[t].at \in {"resting", "close"}
             /\ teardown'[t].todo = <<>> <=> teardown'[t].at = "resting"
             /\ \A u \in Threads \ {t} : teardown'[u] = teardown[u]
<1> DEFINE s    == Head(teardown[t].todo)
           rest == Tail(teardown[t].todo)
<1>1. /\ teardown[t].todo \in Seq(Sessions) /\ teardown[t].todo # <<>>
      /\ IsInjective(teardown[t].todo)
  BY DEF ClearSession, MapTypes, Errands, MapInv, TornDownOnce
<1>2. /\ s \in Sessions /\ s \in Hands(t) /\ rest \in Seq(Sessions) /\ IsInjective(rest)
      /\ Range(rest) = Hands(t) \ {s}
  BY <1>1, FirstAndRest DEF Hands
<1>3. /\ teardown'[t] = IF rest = <<>> THEN Resting ELSE [at |-> "close", todo |-> rest]
      /\ \A u \in Threads \ {t} : teardown'[u] = teardown[u]
      /\ m_sessions' = m_sessions /\ gone' = gone \cup {s}
  BY DEF ClearSession, MapTypes
<1>4. /\ teardown'[t].todo = rest /\ teardown'[t].at \in {"resting", "close"}
      /\ teardown'[t].todo = <<>> <=> teardown'[t].at = "resting"
  <2>1. CASE rest = <<>>
    BY <1>3, <2>1 DEF Resting
  <2>2. CASE rest # <<>>
    BY <1>3, <2>2
  <2> QED BY <2>1, <2>2
<1>5. teardown' \in [Threads -> Errands]
  BY <1>2 DEF ClearSession, MapTypes, Errands, Resting
<1>6. Hands(t)' = Hands(t) \ {s} /\ \A u \in Threads \ {t} : Hands(u)' = Hands(u)
  BY <1>2, <1>3, <1>4, Zenon DEF Hands
<1>7. \A u, v \in Threads : u # v => Hands(u) \cap Hands(v) = {}
  BY DEF TornDownOnce, Hands
<1>8. s \in Leaving /\ s \notin m_sessions /\ s \notin gone
  BY <1>2, InLeaving DEF TornDownOnce, Hands
<1>9. InHand' = InHand \ {s}
  <2>1. \A u \in Threads : Hands(u)' = Hands(u) \ {s}
    BY <1>2, <1>6, <1>7
  <2>2. \A x : x \in Leaving' <=> x \in Leaving /\ x # s
    BY <2>1, InLeaving, InLeavingNext, Zenon
  <2>3. m_sessions' = m_sessions
    BY <1>2 DEF ClearSession
  <2> QED BY <1>8, <2>2, <2>3 DEF InHand
<1>10. TornDownOnce'
  <2>1. \A u, v \in Threads : u # v => Hands(u)' \cap Hands(v)' = {}
    BY <1>6, <1>7
  <2>2. \A u \in Threads : IsInjective(teardown'[u].todo)
    BY <1>2, <1>3, <1>4, Zenon DEF TornDownOnce
  <2>3. \A u \in Threads : Hands(u)' \cap (m_sessions' \cup gone') = {}
    <3>1. \A u \in Threads : Hands(u) \cap (m_sessions \cup gone) = {}
      BY DEF TornDownOnce, Hands
    <3>2. \A u \in Threads : s \notin Hands(u)'
      BY <1>2, <1>6, <1>7
    <3>3. \A u \in Threads : Hands(u)' \subseteq Hands(u)
      BY <1>6
    <3> QED BY <1>3, <3>1, <3>2, <3>3
  <2> QED BY <2>1, <2>2, <2>3 DEF TornDownOnce, Hands
<1> QED BY <1>2, <1>3, <1>4, <1>5, <1>8, <1>9, <1>10, Zenon

MapVars == <<m_sessions, used, gone, admitting, teardown, application>>

\* The steps that change the map or a teardown.
MapAction ==
  \/ \E s \in Sessions : Create(s) \/ Publish(s) \/ Destroy(s)
  \/ \E expired \in SUBSET Idle : ReapIdleSessions(expired)
  \/ \E t \in Threads : Teardown(t)
  \/ LastFlush \/ SwapSessions \/ StopExecutor

\* Callbacks, commit calls, consumers and the flusher leave the map alone.
LEMMA MapFrame == [Next]_vars => MapAction \/ UNCHANGED MapVars
<1> SUFFICES ASSUME [Next]_vars, ~MapAction PROVE UNCHANGED MapVars
  OBVIOUS
<1> USE DEF MapVars
<1>1. ASSUME NEW c \in Connections, Connection(c) \/ SubmitEdit(c) \/ OnClose(c)
      PROVE  UNCHANGED MapVars
  BY <1>1 DEF Connection, LookUp, AttachClient, SubmitJoin, SubmitEdit, OnClose
<1>2. ASSUME NEW s \in Sessions, NEW c \in Connections, OnAccept(c, s) PROVE UNCHANGED MapVars
  BY <1>2 DEF OnAccept
<1>3. ASSUME NEW s \in Sessions, NEW k \in Callers, SubmitCommit(k, s) PROVE UNCHANGED MapVars
  BY <1>3 DEF SubmitCommit
<1>4. ASSUME NEW k \in Callers, CommitAnswer(k) PROVE UNCHANGED MapVars
  BY <1>4 DEF CommitAnswer
<1>5. ASSUME NEW s \in Sessions, Consumer(s) \/ FlushTick(s) PROVE UNCHANGED MapVars
  BY <1>5 DEF Consumer, HandleJoin, HandleEdit, HandleFlush, HandleReload, CommitRefused,
       CommitWrites, CommitReloads, CommitReports, FlushTick
<1>6. CASE UNCHANGED vars
  BY <1>6 DEF vars
<1> QED BY <1>1, <1>2, <1>3, <1>4, <1>5, <1>6 DEF Next, Background, MapAction

MapOK == MapTypes /\ TornDownOnce /\ MapInv

\* A session gets out of hand only by the end of its teardown, and a teardown past the
\* consumer's last command only by way of WaitIdle.
MapMove ==
  /\ \/ InHand \subseteq InHand'
     \/ \E t \in Threads : ClearSession(t) /\ InHand' = InHand \ {Head(teardown[t].todo)}
  /\ \A t \in Threads : teardown'[t].at \in {"commit", "clear"} =>
       /\ teardown'[t].todo = teardown[t].todo
       /\ teardown[t].at \in {"commit", "clear"} \/ WaitIdle(t)

\* The sessions are shared out in every step.
LEMMA MapStep == MapOK /\ [Next]_vars => MapOK' /\ MapMove
<1> SUFFICES ASSUME MapOK, [Next]_vars PROVE MapOK' /\ MapMove
  OBVIOUS
<1> USE DEF MapOK
<1> USE LifecycleAssumption
<1>1. ASSUME NEW s \in Sessions, Create(s) PROVE MapOK' /\ MapMove
  <2>1. InHand' = InHand /\ TornDownOnce'
    BY <1>1 DEF Create, InHand, Leaving, TornDownOnce
  <2>2. MapTypes'
    BY <1>1 DEF Create, MapTypes
  <2>3. MapInv'
    BY <1>1, <2>1 DEF Create, MapInv
  <2>4. MapMove
    BY <1>1, <2>1 DEF Create, MapMove
  <2> QED BY <2>1, <2>2, <2>3, <2>4
<1>2. ASSUME NEW s \in Sessions, Publish(s) PROVE MapOK' /\ MapMove
  <2>1. s \in used /\ s \notin gone /\ s \notin InHand
    BY <1>2 DEF Publish, Creating, InHand
  <2>2. \A t \in Threads : s \notin Hands(t)
    BY <2>1, InLeaving DEF InHand
  <2>3. MapTypes'
    BY <1>2, <2>1 DEF Publish, MapTypes
  <2>4. TornDownOnce'
    BY <1>2, <2>2 DEF Publish, TornDownOnce, Hands
  <2>5. UNCHANGED <<Leaving, used, teardown, application>>
    BY <1>2 DEF Publish, Leaving
  <2>6. MapInv'
    <3>1. CASE m_sessions' = m_sessions \cup {s} /\ admitting' = admitting \cup {s} /\ gone' = gone
      <4>1. InHand' = InHand \cup {s}
        BY <2>5, <3>1 DEF InHand
      <4>2. \A t \in Threads : teardown[t].at # "resting" => Head(teardown[t].todo) # s
        <5>1. \A t \in Threads : teardown[t].at # "resting" => Head(teardown[t].todo) \in Hands(t)
          BY FirstAndRest DEF MapInv, MapTypes, Errands, TornDownOnce, Hands
        <5> QED BY <5>1, <2>2
      <4> QED BY <2>1, <2>5, <3>1, <4>1, <4>2 DEF MapInv
    <3>2. CASE gone' = gone \cup {s} /\ UNCHANGED <<m_sessions, admitting>>
      <4>1. InHand' = InHand
        BY <2>5, <3>2 DEF InHand
      <4> QED BY <2>1, <2>5, <3>2, <4>1 DEF MapInv, InHand
    <3> QED BY <1>2, <3>1, <3>2 DEF Publish
  <2>7. MapMove
    BY <1>2, <2>5 DEF Publish, MapMove, InHand
  <2> QED BY <2>3, <2>4, <2>6, <2>7
<1>3. ASSUME NEW s \in Sessions, Destroy(s) PROVE MapOK' /\ MapMove
  <2>1. /\ <<s>> \in Seq(Sessions) /\ <<s>> # <<>> /\ IsInjective(<<s>>) /\ Range(<<s>>) = {s}
        /\ Rest \in Threads /\ teardown[Rest] = Resting /\ {s} \in SUBSET m_sessions
        /\ m_sessions' = m_sessions \ {s} /\ UNCHANGED <<used, gone, admitting, application>>
        /\ teardown' = [teardown EXCEPT ![Rest] = [at |-> "close", todo |-> <<s>>]]
    BY <1>3, Alone DEF Destroy, Threads
  <2>2. /\ TornDownOnce' /\ InHand' = InHand /\ teardown' \in [Threads -> Errands]
        /\ \A u \in Threads :
             /\ teardown'[u].todo = <<>> <=> teardown'[u].at = "resting"
             /\ teardown'[u].at \in {"wait", "commit", "clear"} => teardown'[u] = teardown[u]
    BY <2>1, Taken, Zenon
  <2>3. teardown'[Main] = teardown[Main]
    BY <2>1 DEF Main, Rest, Threads, MapTypes
  <2>4. MapTypes'
    BY <2>1, <2>2 DEF MapTypes
  <2>5. MapInv'
    BY <2>1, <2>2, <2>3 DEF MapInv
  <2>6. MapMove
    BY <2>2 DEF MapMove
  <2> QED BY <2>2, <2>4, <2>5, <2>6
<1>4. ASSUME NEW expired \in SUBSET Idle, ReapIdleSessions(expired) PROVE MapOK' /\ MapMove
  <2>1. /\ expired \in SUBSET m_sessions /\ expired \in SUBSET Sessions /\ expired # {}
    BY <1>4 DEF ReapIdleSessions, Idle, MapTypes
  <2>0. PICK list \in InAnyOrder(expired) :
          teardown' = [teardown EXCEPT ![Reaper] = [at |-> "close", todo |-> list]]
    BY <1>4, Zenon DEF ReapIdleSessions
  <2>2. list \in Seq(Sessions) /\ list # <<>> /\ IsInjective(list) /\ Range(list) = expired
    BY <2>1, Listing
  <2>3. /\ Reaper \in Threads /\ teardown[Reaper] = Resting /\ m_sessions' = m_sessions \ expired
        /\ UNCHANGED <<used, gone, admitting, application>>
    BY <1>4 DEF ReapIdleSessions, Threads
  <2>4. /\ TornDownOnce' /\ InHand' = InHand /\ teardown' \in [Threads -> Errands]
        /\ \A u \in Threads :
             /\ teardown'[u].todo = <<>> <=> teardown'[u].at = "resting"
             /\ teardown'[u].at \in {"wait", "commit", "clear"} => teardown'[u] = teardown[u]
    BY <2>0, <2>1, <2>2, <2>3, Taken, Zenon
  <2>5. teardown'[Main] = teardown[Main]
    BY <2>0 DEF Main, Reaper, Threads, MapTypes
  <2>6. MapTypes'
    BY <2>3, <2>4 DEF MapTypes
  <2>7. MapInv'
    BY <2>3, <2>4, <2>5 DEF MapInv
  <2>8. MapMove
    BY <2>4 DEF MapMove
  <2> QED BY <2>4, <2>6, <2>7, <2>8
<1>5. ASSUME NEW t \in Threads, CloseAdmission(t) \/ WaitIdle(t) \/ CommitAtTeardown(t)
      PROVE  MapOK' /\ MapMove
  <2>1. PICK step \in {"wait", "commit", "clear"} :
          /\ teardown' = [teardown EXCEPT ![t].at = step]
          /\ UNCHANGED <<m_sessions, used, gone, application>>
          /\ \/ admitting' = admitting \ {Head(teardown[t].todo)}
             \/ admitting' = admitting /\ teardown[t].at \in {"wait", "commit"}
          /\ teardown[t].at # "resting"
    <3>1. CASE CloseAdmission(t)
      BY <3>1 DEF CloseAdmission
    <3>2. CASE WaitIdle(t)
      BY <3>2, Zenon DEF WaitIdle
    <3>3. CASE CommitAtTeardown(t)
      BY <3>3 DEF CommitAtTeardown
    <3> QED BY <1>5, <3>1, <3>2, <3>3
  <2>2. /\ TornDownOnce' /\ InHand' = InHand /\ teardown' \in [Threads -> Errands]
        /\ teardown'[t].at = step /\ \A u \in Threads : teardown'[u].todo = teardown[u].todo
        /\ \A u \in Threads \ {t} : teardown'[u] = teardown[u]
    BY <2>1, Going, Zenon
  <2>3. MapTypes'
    BY <2>1, <2>2 DEF MapTypes
  <2>4. admitting' \subseteq admitting /\ Head(teardown[t].todo) \notin admitting'
    BY <2>1 DEF MapInv
  <2>5. \A u \in Threads :
          /\ teardown'[u].todo = <<>> <=> teardown'[u].at = "resting"
          /\ teardown'[u].at \in {"wait", "commit", "clear"} =>
               Head(teardown'[u].todo) \notin admitting'
    BY <2>1, <2>2, <2>4 DEF MapInv
  <2>6. application' \in {"running", "flushing"} => teardown'[Main] = Resting
    BY <2>1, <2>2 DEF MapInv, Resting
  <2>7. MapInv'
    BY <2>1, <2>2, <2>4, <2>5, <2>6 DEF MapInv
  <2>8. teardown[t].at \in {"commit", "clear"} \/ WaitIdle(t) \/ step = "wait"
    <3>1. CASE CloseAdmission(t)
      BY <2>2, <3>1 DEF CloseAdmission, MapTypes, Errands
    <3>2. CASE CommitAtTeardown(t)
      BY <3>2 DEF CommitAtTeardown
    <3> QED BY <1>5, <3>1, <3>2
  <2>9. MapMove
    BY <2>2, <2>8 DEF MapMove
  <2> QED BY <2>2, <2>3, <2>7, <2>9
<1>6. ASSUME NEW t \in Threads, ClearSession(t) PROVE MapOK' /\ MapMove
  <2> DEFINE s == Head(teardown[t].todo)
  <2>1. /\ s \in Sessions /\ s \in Leaving /\ s \notin m_sessions /\ s \notin gone
        /\ TornDownOnce' /\ InHand' = InHand \ {s} /\ teardown' \in [Threads -> Errands]
        /\ teardown'[t].at \in {"resting", "close"}
        /\ teardown'[t].todo = <<>> <=> teardown'[t].at = "resting"
        /\ \A u \in Threads \ {t} : teardown'[u] = teardown[u]
    BY <1>6, Cleared
  <2>2. /\ gone' = gone \cup {s} /\ UNCHANGED <<m_sessions, used, admitting, application>>
        /\ teardown[t].at = "clear"
    BY <1>6 DEF ClearSession
  <2>3. s \in used /\ s \notin admitting
    BY <2>1, <2>2 DEF MapInv, InHand
  <2>4. MapTypes'
    BY <2>1, <2>2, <2>3 DEF MapTypes
  <2>5. application \in {"running", "flushing"} => t # Main
    BY <2>2 DEF MapInv, Resting
  <2>6. InHand' \subseteq used' /\ m_sessions' \cap gone' = {} /\ admitting' \subseteq InHand'
    BY <2>1, <2>2, <2>3 DEF MapInv
  <2>7. \A u \in Threads :
          /\ teardown'[u].todo = <<>> <=> teardown'[u].at = "resting"
          /\ teardown'[u].at \in {"wait", "commit", "clear"} =>
               Head(teardown'[u].todo) \notin admitting'
    BY <2>1, <2>2 DEF MapInv
  <2>8. application' \in {"running", "flushing"} => teardown'[Main] = Resting
    BY <2>1, <2>2, <2>5 DEF MapInv, Threads
  <2>9. MapInv'
    BY <2>6, <2>7, <2>8 DEF MapInv
  <2>10. MapMove
    BY <1>6, <2>1 DEF MapMove
  <2> QED BY <2>1, <2>4, <2>9, <2>10
<1>7. ASSUME SwapSessions PROVE MapOK' /\ MapMove
  <2>1. /\ Main \in Threads /\ teardown[Main] = Resting /\ m_sessions' = {}
        /\ application' = "destroying" /\ UNCHANGED <<used, gone, admitting>>
    BY <1>7 DEF SwapSessions, Threads, MapInv
  <2>2. CASE m_sessions = {}
    <3>1. teardown' = teardown
      BY <1>7, <2>2 DEF SwapSessions
    <3>2. InHand' = InHand /\ TornDownOnce'
      BY <2>1, <2>2, <3>1 DEF InHand, Leaving, TornDownOnce
    <3>3. MapTypes'
      BY <2>1, <3>1 DEF MapTypes
    <3>4. MapInv'
      BY <2>1, <3>1, <3>2 DEF MapInv
    <3>5. MapMove
      BY <3>1, <3>2 DEF MapMove
    <3> QED BY <3>2, <3>3, <3>4, <3>5
  <2>3. CASE m_sessions # {}
    <3>1. m_sessions \in SUBSET Sessions
      BY DEF MapTypes
    <3>2. PICK list \in InAnyOrder(m_sessions) :
            teardown' = [teardown EXCEPT ![Main] = [at |-> "close", todo |-> list]]
      BY <1>7, <2>3 DEF SwapSessions
    <3>3. list \in Seq(Sessions) /\ list # <<>> /\ IsInjective(list) /\ Range(list) = m_sessions
      BY <2>3, <3>1, Listing
    <3>4. m_sessions' = m_sessions \ m_sessions /\ m_sessions \in SUBSET m_sessions
      BY <2>1
    <3>5. /\ TornDownOnce' /\ InHand' = InHand /\ teardown' \in [Threads -> Errands]
          /\ \A u \in Threads :
               /\ teardown'[u].todo = <<>> <=> teardown'[u].at = "resting"
               /\ teardown'[u].at \in {"wait", "commit", "clear"} => teardown'[u] = teardown[u]
      BY <2>1, <3>2, <3>3, <3>4, Taken, Zenon
    <3>6. MapTypes'
      BY <2>1, <3>5 DEF MapTypes
    <3>7. MapInv'
      BY <2>1, <3>5 DEF MapInv
    <3>8. MapMove
      BY <3>5 DEF MapMove
    <3> QED BY <3>5, <3>6, <3>7, <3>8
  <2> QED BY <2>2, <2>3
<1>8. ASSUME LastFlush \/ StopExecutor PROVE MapOK' /\ MapMove
  <2>1. /\ UNCHANGED <<m_sessions, used, gone, admitting, teardown>>
        /\ \/ application = "running" /\ application' = "flushing"
           \/ application' = "stopped"
    BY <1>8 DEF LastFlush, StopExecutor, Serving
  <2>2. InHand' = InHand /\ TornDownOnce'
    BY <2>1 DEF InHand, Leaving, TornDownOnce
  <2>3. MapTypes'
    BY <2>1 DEF MapTypes
  <2>4. MapInv'
    BY <2>1, <2>2 DEF MapInv
  <2>5. MapMove
    BY <2>1, <2>2 DEF MapMove
  <2> QED BY <2>2, <2>3, <2>4, <2>5
<1>9. CASE UNCHANGED MapVars
  <2>1. MapOK'
    BY <1>9 DEF MapVars, MapTypes, TornDownOnce, MapInv, InHand, Leaving
  <2>2. MapMove
    BY <1>9 DEF MapVars, MapMove, InHand, Leaving
  <2> QED BY <2>1, <2>2
<1> QED BY <1>1, <1>2, <1>3, <1>4, <1>5, <1>6, <1>7, <1>8, <1>9, MapFrame DEF MapAction, Teardown
-----------------------------------------------------------------------------
(* Commands, the stage, commit calls and connections. *)

QueueAction ==
  \/ \E s \in Sessions : Consumer(s) \/ FlushTick(s) \/ \E k \in Callers : SubmitCommit(k, s)
  \/ \E c \in Connections : SubmitJoin(c) \/ SubmitEdit(c)
  \/ LastFlush

StageAction ==
  \/ \E s \in Sessions : Create(s) \/ Consumer(s)
  \/ \E t \in Threads : CommitAtTeardown(t) \/ ClearSession(t)

CallAction ==
  \/ \E s \in Sessions : Consumer(s) \/ \E k \in Callers : SubmitCommit(k, s)
  \/ \E k \in Callers : CommitAnswer(k)
  \/ \E c \in Connections : SubmitEdit(c)

PeerAction ==
  \/ \E c \in Connections :
       \/ LookUp(c) \/ AttachClient(c) \/ SubmitJoin(c) \/ OnClose(c)
       \/ \E s \in Sessions : OnAccept(c, s)
  \/ \E t \in Threads : ClearSession(t)

Frames ==
  /\ QueueAction \/ UNCHANGED <<queue, busy>>
  /\ StageAction \/ UNCHANGED <<stage, autoCommitted>>
  /\ CallAction \/ UNCHANGED <<caller, promise, edits>>
  /\ PeerAction \/ UNCHANGED peers

\* Which steps change what.
LEMMA FramesStep == [Next]_vars => Frames
<1> SUFFICES ASSUME [Next]_vars PROVE Frames
  OBVIOUS
<1> USE DEF Frames
<1>1. ASSUME NEW s \in Sessions, Create(s) PROVE Frames
  BY <1>1 DEF Create, StageAction, commands, peers
<1>2. ASSUME NEW s \in Sessions, Publish(s) \/ Destroy(s) PROVE Frames
  BY <1>2 DEF Publish, Destroy, stage, commands, peers
<1>3. ASSUME NEW expired \in SUBSET Idle, ReapIdleSessions(expired) PROVE Frames
  BY <1>3 DEF ReapIdleSessions, stage, commands, peers
<1>4. ASSUME NEW t \in Threads, CloseAdmission(t) \/ WaitIdle(t) PROVE Frames
  BY <1>4 DEF CloseAdmission, WaitIdle, stage, commands, peers
<1>5. ASSUME NEW t \in Threads, CommitAtTeardown(t) PROVE Frames
  BY <1>5, Zenon DEF CommitAtTeardown, StageAction, commands, peers
<1>6. ASSUME NEW t \in Threads, ClearSession(t) PROVE Frames
  BY <1>6, Zenon DEF ClearSession, StageAction, PeerAction, commands
<1>7. ASSUME NEW c \in Connections, LookUp(c) \/ AttachClient(c) \/ OnClose(c) PROVE Frames
  BY <1>7, Zenon DEF LookUp, AttachClient, OnClose, PeerAction, commands, stage
<1>8. ASSUME NEW c \in Connections, NEW s \in Sessions, OnAccept(c, s) PROVE Frames
  BY <1>8, Zenon DEF OnAccept, PeerAction, commands, stage
<1>9. ASSUME NEW c \in Connections, SubmitJoin(c) PROVE Frames
  BY <1>9 DEF SubmitJoin, PeerAction, QueueAction, stage
<1>10. ASSUME NEW c \in Connections, SubmitEdit(c) PROVE Frames
  BY <1>10 DEF SubmitEdit, QueueAction, CallAction, stage, peers
<1>11. ASSUME NEW s \in Sessions, Consumer(s) PROVE Frames
  <2>1. UNCHANGED peers
    BY <1>11 DEF Consumer, HandleJoin, HandleEdit, HandleFlush, HandleReload, CommitRefused,
         CommitWrites, CommitReloads, CommitReports, peers
  <2> QED BY <1>11, <2>1 DEF QueueAction, StageAction, CallAction
<1>12. ASSUME NEW k \in Callers, NEW s \in Sessions, SubmitCommit(k, s) PROVE Frames
  BY <1>12, Zenon DEF SubmitCommit, QueueAction, CallAction, stage, peers
<1>13. ASSUME NEW k \in Callers, CommitAnswer(k) PROVE Frames
  BY <1>13, Zenon DEF CommitAnswer, CallAction, commands, stage, peers
<1>14. ASSUME NEW s \in Sessions, FlushTick(s) PROVE Frames
  BY <1>14 DEF FlushTick, QueueAction, stage, peers
<1>15. CASE LastFlush
  BY <1>15, Zenon DEF LastFlush, QueueAction, stage, peers
<1>16. CASE SwapSessions \/ StopExecutor
  BY <1>16 DEF SwapSessions, StopExecutor, stage, commands, peers
<1>17. CASE UNCHANGED vars
  BY <1>17 DEF vars, stage, commands, peers
<1> QED BY <1>1, <1>2, <1>3, <1>4, <1>5, <1>6, <1>7, <1>8, <1>9, <1>10, <1>11, <1>12, <1>13,
           <1>14, <1>15, <1>16, <1>17, Zenon DEF Next, Background, Teardown, Connection

\* What a step may do to a queue: a command is added to one that admits it, and the
\* caller of a commit has then been told to wait for the edits on the layer; or the
\* first command is removed, by a consumer that has done with it.
Grows(s) ==
  \E c \in Command :
    /\ s \in admitting /\ Len(queue[s]) < Capacity /\ queue'[s] = Append(queue[s], c)
    /\ c.type = "commit" => caller'[c.caller] = [at |-> "waiting", owed |-> layer[s]]

Shrinks(s) == queue[s] # <<>> /\ queue'[s] = Tail(queue[s]) /\ busy'[s] = Nobody

QueueMove(s) == queue'[s] = queue[s] \/ Grows(s) \/ Shrinks(s)

BusyMove(s) ==
  \/ busy'[s] = busy[s]
  \/ queue[s] # <<>> /\ busy'[s] = Nobody
  \/ queue[s] # <<>> /\ queue'[s] = queue[s] /\ Head(queue[s]).type = "commit"

\* Enqueue appends, or does nothing.
LEMMA Enqueued ==
  ASSUME QueueTypes, NEW s \in Sessions, NEW c \in Command
  PROVE  /\ Enqueue(queue, s, c) \in [Sessions -> Seq(Command)]
         /\ \A r \in Sessions \ {s} : Enqueue(queue, s, c)[r] = queue[r]
         /\ \/ Enqueue(queue, s, c)[s] = queue[s]
            \/ /\ s \in admitting /\ Len(queue[s]) < Capacity
               /\ Enqueue(queue, s, c)[s] = Append(queue[s], c)
<1>1. CASE Admission(s) = "accepted"
  <2>1. s \in admitting /\ Len(queue[s]) < Capacity
    BY <1>1 DEF Admission
  <2>2. Enqueue(queue, s, c) = [queue EXCEPT ![s] = Append(@, c)]
    BY <1>1 DEF Enqueue
  <2>3. queue[s] \in Seq(Command) /\ Append(queue[s], c) \in Seq(Command)
    BY DEF QueueTypes
  <2> QED BY <2>1, <2>2, <2>3 DEF QueueTypes
<1>2. CASE Admission(s) # "accepted"
  BY <1>2 DEF Enqueue, QueueTypes
<1> QED BY <1>1, <1>2

\* The kinds of commands.
LEMMA Commands ==
  /\ \A type \in {"join", "flush", "reload"} : [type |-> type] \in Command
  /\ \A e \in Edits : [type |-> "edit", edit |-> e] \in Command
  /\ \A k \in Callers : [type |-> "commit", caller |-> k] \in Command
  /\ \A c \in Command : c.type = "commit" => c.caller \in Callers
  /\ \A c \in Command : c.type = "edit" => c.edit \in Edits
BY DEF Command

\* A command that is not a commit, appended to one queue.
LEMMA OneGrows ==
  ASSUME QueueTypes, NEW s \in Sessions, NEW c \in Command, c.type # "commit",
         queue' = Enqueue(queue, s, c), busy' = busy
  PROVE  queue' \in [Sessions -> Seq(Command)] /\ \A r \in Sessions : QueueMove(r) /\ BusyMove(r)
<1>1. /\ queue' \in [Sessions -> Seq(Command)] /\ \A r \in Sessions \ {s} : queue'[r] = queue[r]
      /\ \/ queue'[s] = queue[s]
         \/ s \in admitting /\ Len(queue[s]) < Capacity /\ queue'[s] = Append(queue[s], c)
  BY Enqueued
<1>2. QueueMove(s)
  BY <1>1 DEF QueueMove, Grows
<1> QED BY <1>1, <1>2 DEF QueueMove, BusyMove

\* The first command of one queue, done with.
LEMMA OneShrinks ==
  ASSUME QueueTypes, StageTypes, NEW s \in Sessions, queue[s] # <<>>, Done(s), busy[s] = Nobody,
         busy' = busy
  PROVE  queue' \in [Sessions -> Seq(Command)] /\ \A r \in Sessions : QueueMove(r) /\ BusyMove(r)
<1>1. queue[s] \in Seq(Command) /\ Tail(queue[s]) \in Seq(Command)
  BY DEF QueueTypes
<1>2. /\ queue' \in [Sessions -> Seq(Command)] /\ queue'[s] = Tail(queue[s])
      /\ \A r \in Sessions \ {s} : queue'[r] = queue[r]
  BY <1>1 DEF Done, QueueTypes
<1> QED BY <1>2 DEF QueueMove, Shrinks, BusyMove

\* Every step moves queues and consumers this way only.
LEMMA Moves ==
  ASSUME TypeOK, ConsumerInv, [Next]_vars
  PROVE  queue' \in [Sessions -> Seq(Command)] /\ \A r \in Sessions : QueueMove(r) /\ BusyMove(r)
<1> DEFINE Goal == /\ queue' \in [Sessions -> Seq(Command)]
                   /\ \A r \in Sessions : QueueMove(r) /\ BusyMove(r)
<1>0. MapTypes /\ QueueTypes /\ StageTypes /\ CallTypes /\ PeerTypes
  BY Types
<1>1. ASSUME NEW s \in Sessions,
             HandleJoin(s) \/ HandleEdit(s) \/ HandleFlush(s) \/ HandleReload(s) \/ CommitRefused(s)
      PROVE  Goal
  <2>1. queue[s] # <<>> /\ Done(s) /\ busy[s] = Nobody /\ busy' = busy
    BY <1>1 DEF HandleJoin, HandleEdit, HandleFlush, HandleReload, CommitRefused, Ready
  <2> QED BY <1>0, <2>1, OneShrinks
<1>2. ASSUME NEW s \in Sessions, CommitWrites(s) \/ CommitReloads(s) PROVE Goal
  <2>1. /\ queue' = queue /\ queue[s] # <<>> /\ Head(queue[s]).type = "commit"
        /\ busy' = [busy EXCEPT ![s] = "reload"] \/ busy' = [busy EXCEPT ![s] = "notify"]
    BY <1>2 DEF CommitWrites, CommitReloads, Ready, ConsumerInv, Nobody
  <2>2. \A r \in Sessions \ {s} : busy'[r] = busy[r]
    BY <1>0, <2>1 DEF StageTypes
  <2> QED BY <1>0, <2>1, <2>2 DEF QueueMove, BusyMove, QueueTypes
<1>3. ASSUME NEW s \in Sessions, CommitReports(s) PROVE Goal
  <2>1. /\ queue[s] # <<>> /\ busy' = [busy EXCEPT ![s] = Nobody] /\ [type |-> "reload"] \in Command
        /\ queue' = [r \in Sessions |->
             IF r = s THEN Tail(queue[s])
             ELSE IF r \in m_sessions THEN Enqueue(queue, r, [type |-> "reload"])[r] ELSE queue[r]]
    BY <1>3, Commands, Zenon DEF CommitReports, ConsumerInv, Nobody
  <2>2. queue[s] \in Seq(Command) /\ Tail(queue[s]) \in Seq(Command)
    <3>1. queue[s] # <<>>
      BY <2>1, Zenon
    <3>2. queue[s] \in Seq(Command)
      BY <1>0 DEF QueueTypes
    <3> QED BY <3>1, <3>2
  <2>3. busy'[s] = Nobody /\ queue'[s] = Tail(queue[s]) /\ \A r \in Sessions \ {s} : busy'[r] = busy[r]
    BY <1>0, <2>1 DEF StageTypes
  <2>4. ASSUME NEW r \in Sessions \ {s}
        PROVE  queue'[r] \in Seq(Command) /\ QueueMove(r) /\ BusyMove(r)
    <3>1. CASE r \in m_sessions
      <4>1. queue'[r] = Enqueue(queue, r, [type |-> "reload"])[r]
        BY <2>1, <3>1
      <4>2. /\ queue'[r] \in Seq(Command)
            /\ \/ queue'[r] = queue[r]
               \/ /\ r \in admitting /\ Len(queue[r]) < Capacity
                  /\ queue'[r] = Append(queue[r], [type |-> "reload"])
        BY <1>0, <2>1, <4>1, Enqueued
      <4> QED BY <2>1, <2>3, <4>2 DEF QueueMove, Grows, BusyMove
    <3>2. CASE r \notin m_sessions
      BY <1>0, <2>1, <2>3, <3>2 DEF QueueMove, BusyMove, QueueTypes
    <3> QED BY <3>1, <3>2
  <2>5. queue' \in [Sessions -> Seq(Command)]
    <3>1. \A r \in Sessions : queue'[r] \in Seq(Command)
      BY <2>2, <2>3, <2>4, Zenon
    <3> QED BY <2>1, <3>1
  <2>6. QueueMove(s) /\ BusyMove(s)
    BY <2>1, <2>3 DEF QueueMove, Shrinks, BusyMove
  <2> QED BY <2>4, <2>5, <2>6
<1>4. ASSUME NEW s \in Sessions, NEW k \in Callers, SubmitCommit(k, s) PROVE Goal
  <2>1. busy' = busy /\ [type |-> "commit", caller |-> k] \in Command
    BY <1>4, Commands DEF SubmitCommit
  <2>2. CASE queue' = queue
    BY <1>0, <2>1, <2>2 DEF QueueMove, BusyMove, QueueTypes
  <2>3. CASE /\ queue' = Enqueue(queue, s, [type |-> "commit", caller |-> k])
             /\ caller' = [caller EXCEPT ![k] = [at |-> "waiting", owed |-> layer[s]]]
    <3>1. caller'[k] = [at |-> "waiting", owed |-> layer[s]]
      BY <1>0, <2>3 DEF CallTypes
    <3> DEFINE new == [type |-> "commit", caller |-> k]
    <3>2. new \in Command /\ new.type = "commit" /\ new.caller = k
      BY <2>1
    <3> HIDE DEF new
    <3>3. /\ queue' \in [Sessions -> Seq(Command)] /\ \A r \in Sessions \ {s} : queue'[r] = queue[r]
          /\ \/ queue'[s] = queue[s]
             \/ s \in admitting /\ Len(queue[s]) < Capacity /\ queue'[s] = Append(queue[s], new)
      BY <1>0, <2>3, <3>2, Enqueued DEF new
    <3>4. QueueMove(s)
      BY <3>1, <3>2, <3>3, Zenon DEF QueueMove, Grows
    <3>5. \A r \in Sessions : QueueMove(r)
      BY <3>3, <3>4, Zenon DEF QueueMove
    <3>6. \A r \in Sessions : BusyMove(r)
      BY <2>1, Zenon DEF BusyMove
    <3> QED BY <3>3, <3>5, <3>6
  <2> QED BY <1>4, <2>2, <2>3 DEF SubmitCommit
<1>5. ASSUME NEW s \in Sessions, FlushTick(s) PROVE Goal
  <2>1. queue' = Enqueue(queue, s, [type |-> "flush"]) /\ busy' = busy /\ [type |-> "flush"] \in Command
    BY <1>5, Commands DEF FlushTick
  <2> QED BY <1>0, <2>1, OneGrows
<1>6. ASSUME NEW c \in Connections, SubmitJoin(c) PROVE Goal
  <2>1. conn[c].session \in Sessions
    BY <1>0, <1>6 DEF SubmitJoin, At, PeerTypes, Places
  <2>2. /\ queue' = queue \/ queue' = Enqueue(queue, conn[c].session, [type |-> "join"])
        /\ busy' = busy /\ [type |-> "join"] \in Command
    BY <1>6, Commands DEF SubmitJoin
  <2>3. CASE queue' = queue
    BY <1>0, <2>2, <2>3 DEF QueueMove, BusyMove, QueueTypes
  <2> QED BY <1>0, <2>1, <2>2, <2>3, OneGrows
<1>7. ASSUME NEW c \in Connections, SubmitEdit(c) PROVE Goal
  <2>1. conn[c].session \in Sessions /\ edits + 1 \in Edits
    <3>1. At(c, "open") /\ edits < MaxEdits
      BY <1>7 DEF SubmitEdit
    <3>2. conn[c].session \in Sessions
      BY <1>0, <3>1 DEF At, PeerTypes, Places
    <3>3. edits + 1 \in Edits
      BY <1>0, <3>1, LifecycleAssumption DEF CallTypes, Edits
    <3> QED BY <3>2, <3>3
  <2>2. /\ queue' = Enqueue(queue, conn[c].session, [type |-> "edit", edit |-> edits + 1])
        /\ busy' = busy
    BY <1>7 DEF SubmitEdit
  <2>3. [type |-> "edit", edit |-> edits + 1] \in Command
    BY <2>1, Commands
  <2> QED BY <1>0, <2>1, <2>2, <2>3, OneGrows
<1>8. ASSUME LastFlush PROVE Goal
  <2>1. /\ busy' = busy /\ [type |-> "flush"] \in Command
        /\ queue' = [s \in Sessions |-> IF s \in m_sessions /\ dirty[s]
                       THEN Enqueue(queue, s, [type |-> "flush"])[s] ELSE queue[s]]
    BY <1>8, Commands, Zenon DEF LastFlush
  <2>2. ASSUME NEW r \in Sessions PROVE queue'[r] \in Seq(Command) /\ QueueMove(r)
    <3>1. CASE r \in m_sessions /\ dirty[r]
      <4>1. queue'[r] = Enqueue(queue, r, [type |-> "flush"])[r]
        BY <2>1, <3>1, Zenon
      <4>2. /\ queue'[r] \in Seq(Command)
            /\ \/ queue'[r] = queue[r]
               \/ /\ r \in admitting /\ Len(queue[r]) < Capacity
                  /\ queue'[r] = Append(queue[r], [type |-> "flush"])
        BY <1>0, <2>1, <4>1, Enqueued
      <4> QED BY <2>1, <4>2, Zenon DEF QueueMove, Grows
    <3>2. CASE ~(r \in m_sessions /\ dirty[r])
      BY <1>0, <2>1, <3>2, Zenon DEF QueueMove, QueueTypes
    <3> QED BY <3>1, <3>2
  <2>3. queue' \in [Sessions -> Seq(Command)]
    BY <2>1, <2>2
  <2> QED BY <2>1, <2>2, <2>3 DEF BusyMove
<1>9. CASE UNCHANGED <<queue, busy>>
  BY <1>0, <1>9 DEF QueueMove, BusyMove, QueueTypes
<1> QED BY <1>1, <1>2, <1>3, <1>4, <1>5, <1>6, <1>7, <1>8, <1>9, FramesStep
        DEF Frames, QueueAction, Consumer

\* The caller of a commit that is next has been told to wait.
LEMMA NextCommit ==
  ASSUME TypeOK, ConsumerInv, NEW s \in Sessions, queue[s] # <<>>, Head(queue[s]).type = "commit"
  PROVE  LET k == Head(queue[s]).caller
         IN  k \in Callers /\ caller[k].at # "idle" /\ caller[k].owed \subseteq layer[s]
<1>1. queue[s] \in Seq(Command)
  BY DEF TypeOK
<1>2. Head(queue[s]) \in Command /\ 1 \in DOMAIN queue[s] /\ queue[s][1] = Head(queue[s])
  BY <1>1
<1> QED BY <1>2, Commands DEF ConsumerInv

\* The edits on a layer stay until the session is torn down.
LayerMove(s) ==
  \/ layer'[s] = layer[s]
  \/ queue[s] # <<>> /\ layer[s] \subseteq layer'[s]
  \/ \E t \in Threads : ClearSession(t) /\ s = Head(teardown[t].todo) /\ layer'[s] = {}

\* What is owed to a caller that waits does not grow, and results are for those who wait.
CallMove(k) ==
  /\ caller[k].at # "idle" => caller'[k].at # "idle" /\ caller'[k].owed \subseteq caller[k].owed
  /\ promise'[k] = promise[k] \/ caller'[k].at # "idle"

\* Every step moves each session layer only in those ways.
LEMMA LayerMoves ==
  ASSUME TypeOK, MapOK, [Next]_vars
  PROVE  StageTypes' /\ \A r \in Sessions : LayerMove(r)
<1> DEFINE Goal == StageTypes' /\ \A r \in Sessions : LayerMove(r)
<1>0. StageTypes /\ QueueTypes
  BY Types
<1> USE <1>0
<1>1. ASSUME NEW s \in Sessions, Create(s) PROVE Goal
  <2>1. root' \subseteq Edits /\ stale' \in BOOLEAN
    BY <1>1 DEF Create, StageTypes
  <2> QED BY <1>1, <2>1 DEF Create, StageTypes, LayerMove, commands
<1>2. ASSUME NEW s \in Sessions, HandleJoin(s) PROVE Goal
  BY <1>2 DEF HandleJoin, StageTypes, LayerMove, stage
<1>3. ASSUME NEW s \in Sessions, HandleEdit(s) PROVE Goal
  <2>1. queue[s] # <<>> /\ Head(queue[s]).type = "edit" /\ queue[s] \in Seq(Command)
    BY <1>3 DEF HandleEdit, Ready, QueueTypes
  <2>2. Head(queue[s]).edit \in Edits
    BY <2>1, Commands
  <2>3. /\ layer' \in [Sessions -> SUBSET Edits] /\ layer'[s] = layer[s] \cup {Head(queue[s]).edit}
        /\ \A r \in Sessions \ {s} : layer'[r] = layer[r]
    BY <1>3, <2>2 DEF HandleEdit, StageTypes
  <2>4. StageTypes'
    BY <1>3, <2>3 DEF HandleEdit, StageTypes
  <2> QED BY <2>1, <2>3, <2>4 DEF LayerMove
<1>4. ASSUME NEW s \in Sessions, HandleFlush(s) PROVE Goal
  <2>1. sidecar' \in [Sessions -> SUBSET Edits] /\ dirty' \in [Sessions -> BOOLEAN]
    BY <1>4, Zenon DEF HandleFlush, StageTypes
  <2> QED BY <1>4, <2>1 DEF HandleFlush, StageTypes, LayerMove
<1>5. ASSUME NEW s \in Sessions, HandleReload(s) PROVE Goal
  BY <1>5 DEF HandleReload, ReloadRootLayer, StageTypes, LayerMove
<1>6. ASSUME NEW s \in Sessions, CommitRefused(s) PROVE Goal
  <2>1. sidecar' \in [Sessions -> SUBSET Edits] /\ UNCHANGED <<file, lost, dirty>>
    BY <1>6 DEF CommitRefused, WriteFails, StageTypes
  <2> QED BY <1>6, <2>1 DEF CommitRefused, StageTypes, LayerMove
<1>7. ASSUME NEW s \in Sessions, WriteFile(s)
      PROVE  /\ sidecar' \in [Sessions -> SUBSET Edits] /\ dirty' \in [Sessions -> BOOLEAN]
             /\ file' \subseteq Edits /\ lost' \subseteq Edits
  BY <1>7 DEF WriteFile, StageTypes
<1>8. ASSUME NEW s \in Sessions, CommitWrites(s) PROVE Goal
  BY <1>7, <1>8 DEF CommitWrites, StageTypes, LayerMove
<1>9. ASSUME NEW s \in Sessions, CommitReloads(s) PROVE Goal
  <2>1. root' \subseteq Edits /\ stale' \in BOOLEAN
    BY <1>9 DEF CommitReloads, ReloadRootLayer, StageTypes
  <2> QED BY <1>9, <2>1, Zenon DEF CommitReloads, StageTypes, LayerMove
<1>10. ASSUME NEW s \in Sessions, CommitReports(s) PROVE Goal
  BY <1>10 DEF CommitReports, StageTypes, LayerMove, stage
<1>11. ASSUME NEW t \in Threads, CommitAtTeardown(t) PROVE Goal
  <2> DEFINE s == Head(teardown[t].todo)
  <2>1. s \in Sessions
    BY <1>11, FirstAndRest DEF CommitAtTeardown, MapOK, MapTypes, MapInv, TornDownOnce, Errands
  <2>2. UNCHANGED <<layer, root, stale, layer_mutex, busy>>
    BY <1>11 DEF CommitAtTeardown, commands
  <2>3. CASE WriteFile(s) /\ autoCommitted' = autoCommitted \cup layer[s]
    BY <1>7, <2>1, <2>2, <2>3 DEF StageTypes, LayerMove
  <2>4. CASE WriteFails(s) /\ UNCHANGED autoCommitted
    <3>1. sidecar' \in [Sessions -> SUBSET Edits] /\ UNCHANGED <<file, lost, dirty>>
      BY <2>1, <2>4 DEF WriteFails, StageTypes
    <3> QED BY <2>2, <2>4, <3>1 DEF StageTypes, LayerMove
  <2> QED BY <1>11, <2>3, <2>4 DEF CommitAtTeardown
<1>12. ASSUME NEW t \in Threads, ClearSession(t) PROVE Goal
  <2> DEFINE s == Head(teardown[t].todo)
  <2>1. s \in Sessions
    BY <1>12, Cleared DEF MapOK
  <2>2. /\ layer' \in [Sessions -> SUBSET Edits] /\ sidecar' \in [Sessions -> SUBSET Edits]
        /\ dirty' \in [Sessions -> BOOLEAN] /\ root' \subseteq Edits /\ stale' \in BOOLEAN
        /\ layer'[s] = {} /\ \A r \in Sessions \ {s} : layer'[r] = layer[r]
    BY <1>12, <2>1 DEF ClearSession, StageTypes
  <2>3. UNCHANGED <<busy, file, lost, autoCommitted, layer_mutex>>
    BY <1>12 DEF ClearSession, commands
  <2> QED BY <1>12, <2>2, <2>3 DEF StageTypes, LayerMove
<1>13. CASE UNCHANGED <<stage, autoCommitted>> /\ UNCHANGED busy
  BY <1>13 DEF StageTypes, LayerMove, stage
<1>14. ASSUME UNCHANGED <<stage, autoCommitted>>, QueueAction PROVE Goal
  <2>1. CASE \E s \in Sessions : Consumer(s)
    BY <1>2, <1>3, <1>4, <1>5, <1>6, <1>8, <1>9, <1>10, <2>1 DEF Consumer
  <2>2. CASE ~ \E s \in Sessions : Consumer(s)
    <3>1. UNCHANGED busy
      BY <1>14, <2>2, Zenon DEF QueueAction, FlushTick, SubmitCommit, SubmitJoin, SubmitEdit, LastFlush
    <3> QED BY <1>13, <1>14, <3>1
  <2> QED BY <2>1, <2>2
<1> QED BY <1>1, <1>2, <1>3, <1>4, <1>5, <1>6, <1>8, <1>9, <1>10, <1>11, <1>12, <1>13, <1>14,
           FramesStep DEF Frames, StageAction, Consumer

\* Every step moves each commit call only in those ways.
LEMMA CallMoves ==
  ASSUME TypeOK, ConsumerInv, [Next]_vars
  PROVE  CallTypes' /\ \A k \in Callers : CallMove(k)
<1> DEFINE Goal == CallTypes' /\ \A k \in Callers : CallMove(k)
<1>0. CallTypes /\ StageTypes
  BY Types
<1> USE <1>0
<1>1. ASSUME NEW s \in Sessions,
             \/ HandleJoin(s) \/ HandleEdit(s) \/ HandleFlush(s) \/ HandleReload(s)
             \/ CommitWrites(s) \/ CommitReloads(s)
      PROVE  Goal
  <2>1. UNCHANGED <<caller, promise, edits>>
    BY <1>1 DEF HandleJoin, HandleEdit, HandleFlush, HandleReload, CommitWrites, CommitReloads
  <2> QED BY <2>1 DEF CallTypes, CallMove
<1>2. ASSUME NEW s \in Sessions, CommitRefused(s) PROVE Goal
  <2> DEFINE k == Head(queue[s]).caller
  <2>1. k \in Callers /\ caller[k].at # "idle"
    BY <1>2, NextCommit DEF CommitRefused, Ready
  <2>2. /\ promise' = [promise EXCEPT ![k] = "refused"] /\ edits' = edits
        /\ caller' = [caller EXCEPT ![k] = [at |-> "returned", owed |-> {}]]
    BY <1>2 DEF CommitRefused
  <2>3. /\ caller'[k] = [at |-> "returned", owed |-> {}]
        /\ \A j \in Callers \ {k} : caller'[j] = caller[j] /\ promise'[j] = promise[j]
    BY <2>1, <2>2 DEF CallTypes
  <2>4. caller'[k] \in Calls /\ caller'[k].at = "returned" /\ caller'[k].owed = {}
    BY <2>3 DEF Calls
  <2>5. CallTypes'
    BY <2>1, <2>2, <2>3, <2>4 DEF CallTypes
  <2> QED BY <2>1, <2>3, <2>4, <2>5, Zenon DEF CallMove
<1>3. ASSUME NEW s \in Sessions, CommitReports(s) PROVE Goal
  <2> DEFINE k == Head(queue[s]).caller
  <2>1. k \in Callers /\ caller[k].at # "idle"
    BY <1>3, NextCommit, Zenon DEF CommitReports, ConsumerInv, Nobody
  <2>2. /\ promise' = [promise EXCEPT ![k] = "Ok"] /\ edits' = edits
        /\ caller' = [caller EXCEPT ![k].at = "returned"]
    BY <1>3, Zenon DEF CommitReports
  <2>3. /\ caller[k] \in Calls /\ caller'[k] = [caller[k] EXCEPT !.at = "returned"]
        /\ promise'[k] = "Ok"
        /\ \A j \in Callers \ {k} : caller'[j] = caller[j] /\ promise'[j] = promise[j]
    BY <2>1, <2>2 DEF CallTypes
  <2>4. caller'[k] \in Calls /\ caller'[k].owed = caller[k].owed /\ caller'[k].at = "returned"
    BY <2>1, <2>3 DEF Calls
  <2>5. CallTypes'
    BY <2>1, <2>2, <2>3, <2>4 DEF CallTypes
  <2> QED BY <2>1, <2>3, <2>4, <2>5, Zenon DEF CallMove
<1>4. ASSUME NEW k \in Callers, NEW s \in Sessions, SubmitCommit(k, s) PROVE Goal
  <2>1. PICK call \in [at : {"waiting", "rejected"}, owed : SUBSET Edits] :
          caller' = [caller EXCEPT ![k] = call]
    BY <1>4, Zenon DEF SubmitCommit, StageTypes
  <2>2. call \in Calls /\ caller[k].at = "idle" /\ UNCHANGED <<promise, edits>> /\ call.at # "idle"
    BY <1>4, <2>1, Zenon DEF SubmitCommit, Calls
  <2> QED BY <2>1, <2>2 DEF CallTypes, CallMove
<1>5. ASSUME NEW k \in Callers, CommitAnswer(k) PROVE Goal
  <2>1. /\ caller[k] \in Calls /\ caller[k].at = "waiting" /\ UNCHANGED <<promise, edits>>
        /\ caller'[k] = [caller[k] EXCEPT !.at = "returned"]
        /\ \A j \in Callers \ {k} : caller'[j] = caller[j]
    BY <1>5 DEF CommitAnswer, CallTypes, commands
  <2>2. caller'[k] \in Calls /\ caller'[k].owed = caller[k].owed /\ caller'[k].at = "returned"
    BY <2>1 DEF Calls
  <2>3. CallTypes'
    BY <1>5, <2>1, <2>2 DEF CommitAnswer, CallTypes
  <2> QED BY <2>1, <2>2, <2>3, Zenon DEF CallMove
<1>6. ASSUME NEW c \in Connections, SubmitEdit(c) PROVE Goal
  <2>1. caller' = caller /\ promise' = promise /\ edits < MaxEdits /\ edits' = edits + 1
    BY <1>6 DEF SubmitEdit
  <2>2. edits' \in 0 .. MaxEdits
    BY <2>1, LifecycleAssumption DEF CallTypes
  <2> QED BY <2>1, <2>2 DEF CallTypes, CallMove
<1>7. CASE UNCHANGED <<caller, promise, edits>>
  BY <1>7, Zenon DEF CallTypes, CallMove
<1> QED BY <1>1, <1>2, <1>3, <1>4, <1>5, <1>6, <1>7, FramesStep DEF Frames, CallAction, Consumer

\* A queue that is empty and closed stays so, and its consumer rests.
LEMMA StaysEmpty ==
  ASSUME NEW s \in Sessions, queue[s] = <<>>, s \notin admitting, QueueMove(s), BusyMove(s)
  PROVE  queue'[s] = <<>> /\ busy'[s] = busy[s]
BY Zenon DEF QueueMove, Grows, Shrinks, BusyMove

\* The queues stay sequences of commands, no longer than the capacity.
LEMMA QueueTypesStep ==
  ASSUME TypeOK, queue' \in [Sessions -> Seq(Command)], \A s \in Sessions : QueueMove(s)
  PROVE  QueueTypes'
<1> SUFFICES ASSUME NEW s \in Sessions PROVE Len(queue'[s]) <= Capacity
  BY DEF QueueTypes
<1>1. queue[s] \in Seq(Command) /\ Len(queue[s]) <= Capacity /\ Capacity \in Nat
  BY LifecycleAssumption DEF TypeOK
<1>2. CASE queue'[s] = queue[s]
  BY <1>1, <1>2
<1>3. CASE Grows(s)
  BY <1>1, <1>3 DEF Grows
<1>4. CASE Shrinks(s)
  <2>1. Len(Tail(queue[s])) = Len(queue[s]) - 1 /\ Len(queue[s]) \in Nat
    BY <1>1, <1>4 DEF Shrinks
  <2> QED BY <1>1, <1>4, <2>1 DEF Shrinks
<1> QED BY <1>2, <1>3, <1>4 DEF QueueMove

\* The thread at the head of its list has that session in hand.
LEMMA AtHead ==
  ASSUME MapOK, NEW t \in Threads, teardown[t].at # "resting"
  PROVE  /\ Head(teardown[t].todo) \in Sessions /\ Head(teardown[t].todo) \in InHand
         /\ Head(teardown[t].todo) \notin m_sessions /\ Head(teardown[t].todo) \notin gone
<1>1. /\ teardown[t].todo \in Seq(Sessions) /\ teardown[t].todo # <<>>
      /\ IsInjective(teardown[t].todo)
  BY DEF MapOK, MapTypes, Errands, MapInv, TornDownOnce
<1>2. Head(teardown[t].todo) \in Sessions /\ Head(teardown[t].todo) \in Hands(t)
  BY <1>1, FirstAndRest DEF Hands
<1> QED BY <1>2, InLeaving DEF InHand, MapOK, TornDownOnce, Hands

\* Nothing starts in a session that is in nobody's hands, or past WaitIdle.
LEMMA QuietStep ==
  ASSUME TypeOK, MapOK, QuietInv, ConsumerInv, [Next]_vars
  PROVE  QuietInv'
<1>1. \A s \in Sessions : QueueMove(s) /\ BusyMove(s) /\ LayerMove(s)
  BY Moves, LayerMoves
<1>2. MapMove
  BY MapStep
<1>3. ASSUME NEW t \in Threads, teardown[t].at \in {"commit", "clear"}
      PROVE  LET s == Head(teardown[t].todo)
             IN  s \in Sessions /\ queue'[s] = <<>> /\ busy'[s] = Nobody
  <2> DEFINE s == Head(teardown[t].todo)
  <2>1. s \in Sessions /\ s \notin admitting /\ queue[s] = <<>> /\ busy[s] = Nobody
    BY <1>3, AtHead DEF MapOK, MapInv, QuietInv
  <2> QED BY <1>1, <2>1, StaysEmpty
<1>4. ASSUME NEW s \in Sessions \ InHand PROVE queue'[s] = <<>> /\ busy'[s] = Nobody /\ layer'[s] = {}
  <2>1. s \notin admitting /\ queue[s] = <<>> /\ busy[s] = Nobody /\ layer[s] = {}
    BY DEF MapOK, MapInv, QuietInv
  <2> QED BY <1>1, <2>1, StaysEmpty DEF LayerMove
<1>5. ASSUME NEW t \in Threads, ClearSession(t)
      PROVE  LET s == Head(teardown[t].todo)
             IN  queue'[s] = <<>> /\ busy'[s] = Nobody /\ layer'[s] = {}
  <2> DEFINE s == Head(teardown[t].todo)
  <2>1. s \in Sessions /\ queue'[s] = <<>> /\ busy'[s] = Nobody
    BY <1>3, <1>5 DEF ClearSession
  <2>2. layer'[s] = {}
    BY <1>5, <2>1, Zenon DEF ClearSession, TypeOK
  <2> QED BY <2>1, <2>2
<1>6. ASSUME NEW s \in Sessions, s \notin InHand'
      PROVE  queue'[s] = <<>> /\ busy'[s] = Nobody /\ layer'[s] = {}
  BY <1>2, <1>4, <1>5, <1>6, Zenon DEF MapMove
<1>7. ASSUME NEW t \in Threads, teardown'[t].at \in {"commit", "clear"}
      PROVE  queue'[Head(teardown'[t].todo)] = <<>> /\ busy'[Head(teardown'[t].todo)] = Nobody
  <2>1. teardown'[t].todo = teardown[t].todo
    BY <1>2, <1>7 DEF MapMove
  <2>2. CASE teardown[t].at \in {"commit", "clear"}
    BY <1>3, <2>1, <2>2
  <2>3. CASE WaitIdle(t)
    BY <2>1, <2>3 DEF WaitIdle, commands
  <2> QED BY <1>2, <1>7, <2>2, <2>3, Zenon DEF MapMove
<1> QED BY <1>6, <1>7 DEF QuietInv

\* A consumer past the write of a commit holds the mutex, and nobody else does.
LEMMA MutexStep ==
  ASSUME TypeOK, ConsumerInv, [Next]_vars, NEW r \in Sessions
  PROVE  layer_mutex' = r <=> busy'[r] = "reload"
<1>0. (layer_mutex = r <=> busy[r] = "reload") /\ Nobody \notin Sessions
  BY LifecycleAssumption DEF ConsumerInv, Nobody
<1>1. ASSUME NEW s \in Sessions, CommitWrites(s) PROVE layer_mutex' = r <=> busy'[r] = "reload"
  BY <1>0, <1>1 DEF CommitWrites, WriteFile, TypeOK
<1>2. ASSUME NEW s \in Sessions, CommitReloads(s) PROVE layer_mutex' = r <=> busy'[r] = "reload"
  <2>1. layer_mutex = s
    BY <1>2 DEF CommitReloads, ConsumerInv
  <2> QED BY <1>0, <1>2, <2>1 DEF CommitReloads, TypeOK
<1>3. ASSUME NEW s \in Sessions, CommitReports(s) PROVE layer_mutex' = r <=> busy'[r] = "reload"
  BY <1>0, <1>3 DEF CommitReports, TypeOK, stage, Nobody
<1>4. ASSUME NEW s \in Sessions,
             HandleJoin(s) \/ HandleEdit(s) \/ HandleFlush(s) \/ HandleReload(s) \/ CommitRefused(s)
      PROVE  UNCHANGED <<busy, layer_mutex>>
  BY <1>4 DEF HandleJoin, HandleEdit, HandleFlush, HandleReload, CommitRefused, stage
<1>5. ASSUME ~ \E s \in Sessions : Consumer(s) PROVE UNCHANGED <<busy, layer_mutex>>
  <2>1. UNCHANGED busy
    BY <1>5, FramesStep, Zenon DEF Frames, QueueAction, FlushTick, SubmitCommit, SubmitJoin, SubmitEdit,
         LastFlush
  <2>2. UNCHANGED layer_mutex
    BY <1>5, FramesStep DEF Frames, StageAction, Create, CommitAtTeardown, ClearSession, stage
  <2> QED BY <2>1, <2>2
<1> QED BY <1>0, <1>1, <1>2, <1>3, <1>4, <1>5 DEF Consumer

\* A commit finds on the layer what it was asked for.
LEMMA ConsumerStep ==
  ASSUME TypeOK, MapOK, QuietInv, ConsumerInv, [Next]_vars
  PROVE  ConsumerInv'
<1>1. \A s \in Sessions : QueueMove(s) /\ BusyMove(s) /\ LayerMove(s)
  BY Moves, LayerMoves
<1>2. \A k \in Callers : CallMove(k)
  BY CallMoves
<1>3. ASSUME NEW s \in Sessions, busy'[s] # Nobody
      PROVE  queue'[s] # <<>> /\ Head(queue'[s]).type = "commit"
  <2>0. queue[s] \in Seq(Command)
    BY DEF TypeOK
  <2>1. queue[s] # <<>> /\ Head(queue[s]).type = "commit"
    BY <1>1, <1>3, Zenon DEF BusyMove, ConsumerInv
  <2>2. CASE queue'[s] = queue[s]
    BY <2>1, <2>2
  <2>3. CASE Grows(s)
    <3>1. PICK c \in Command : queue'[s] = Append(queue[s], c)
      BY <2>3 DEF Grows
    <3> QED BY <2>0, <2>1, <3>1
  <2> QED BY <1>1, <1>3, <2>2, <2>3, Zenon DEF QueueMove, Shrinks
<1>4. ASSUME NEW s \in Sessions, NEW i \in DOMAIN queue'[s], queue'[s][i].type = "commit"
      PROVE  /\ caller'[queue'[s][i].caller].at # "idle"
             /\ caller'[queue'[s][i].caller].owed \subseteq layer'[s]
  <2>0. queue[s] \in Seq(Command)
    BY DEF TypeOK
  <2>1. ASSUME NEW j \in DOMAIN queue[s], queue'[s][i] = queue[s][j]
        PROVE  /\ caller'[queue'[s][i].caller].at # "idle"
               /\ caller'[queue'[s][i].caller].owed \subseteq layer'[s]
    <3> DEFINE k == queue[s][j].caller
    <3>1. k \in Callers /\ caller[k].at # "idle" /\ caller[k].owed \subseteq layer[s]
      <4>1. queue[s][j] \in Command /\ queue[s][j].type = "commit"
        BY <1>4, <2>0, <2>1
      <4> QED BY <4>1, Commands, Zenon DEF ConsumerInv
    <3>2. caller'[k].at # "idle" /\ caller'[k].owed \subseteq layer[s]
      BY <1>2, <3>1 DEF CallMove
    <3>3. layer[s] \subseteq layer'[s]
      <4>1. queue[s] # <<>>
        BY <2>0, <2>1
      <4>2. ~ \E t \in Threads : ClearSession(t) /\ s = Head(teardown[t].todo)
        BY <4>1, Zenon DEF ClearSession, QuietInv
      <4> QED BY <1>1, <4>2 DEF LayerMove
    <3> QED BY <2>1, <3>2, <3>3, Zenon
  <2>2. CASE queue'[s] = queue[s]
    BY <2>1, <2>2, Zenon
  <2>3. CASE Grows(s)
    <3>1. PICK c \in Command :
            /\ s \in admitting /\ queue'[s] = Append(queue[s], c)
            /\ c.type = "commit" => caller'[c.caller] = [at |-> "waiting", owed |-> layer[s]]
      BY <2>3 DEF Grows
    <3>a. /\ DOMAIN queue[s] = 1 .. Len(queue[s]) /\ Len(queue[s]) \in Nat
          /\ i \in 1 .. Len(queue[s]) + 1
          /\ queue'[s][i] = IF i \in 1 .. Len(queue[s]) THEN queue[s][i] ELSE c
      <4> DEFINE q == queue[s]
      <4>1. q \in Seq(Command) /\ i \in DOMAIN Append(q, c)
        BY <1>4, <2>0, <3>1, Zenon
      <4>2. /\ DOMAIN q = 1 .. Len(q) /\ Len(q) \in Nat /\ i \in 1 .. Len(q) + 1
            /\ Append(q, c)[i] = IF i \in 1 .. Len(q) THEN q[i] ELSE c
        <5> HIDE DEF q
        <5> QED BY <4>1
      <4> QED BY <3>1, <4>2, Zenon
    <3>2. CASE i \in DOMAIN queue[s]
      BY <2>1, <3>a, <3>2
    <3>3. CASE i \notin DOMAIN queue[s]
      <4>1. queue'[s][i] = c
        BY <3>a, <3>3
      <4>2. ~ \E t \in Threads : ClearSession(t) /\ s = Head(teardown[t].todo)
        BY <3>1 DEF ClearSession, MapOK, MapInv
      <4>3. layer[s] \subseteq layer'[s]
        BY <1>1, <4>2 DEF LayerMove
      <4> QED BY <1>4, <3>1, <4>1, <4>3
    <3> QED BY <3>2, <3>3
  <2>4. CASE Shrinks(s)
    <3>1. i + 1 \in DOMAIN queue[s] /\ queue'[s][i] = queue[s][i + 1]
      BY <2>0, <2>4 DEF Shrinks
    <3> QED BY <2>1, <3>1, Zenon
  <2> QED BY <1>1, <2>2, <2>3, <2>4, Zenon DEF QueueMove
<1>5. ASSUME NEW k \in Callers, caller'[k].at = "idle" PROVE promise'[k] = "none"
  BY <1>2, <1>5, Zenon DEF CallMove, ConsumerInv
<1> QED BY <1>3, <1>4, <1>5, MutexStep, Zenon DEF ConsumerInv
-----------------------------------------------------------------------------
(* The file, and who is attached. *)

FileOK == FileInv /\ CommitKept

\* Nothing that was in the base leaves it: not when the root layer and the file stay as
\* they are,
LEMMA BaseStays == UNCHANGED <<root, file, stale, lost>> => Base' = Base
BY DEF Base

\* nor when a reload of the root layer succeeds or fails,
LEMMA BaseReloaded ==
  ASSUME root \subseteq file, ReloadRootLayer, UNCHANGED <<file, lost>>
  PROVE  root' \subseteq file' /\ Base' = file \cup lost /\ Base \subseteq Base'
BY DEF Base, ReloadRootLayer

\* nor when a commit writes the file.
LEMMA BaseWritten ==
  ASSUME root \subseteq file, NEW s \in Sessions, WriteFile(s), UNCHANGED <<root, stale>>
  PROVE  Base \subseteq Base' /\ Base' \subseteq file' \cup lost'
BY DEF Base, WriteFile

\* The writes of a commit, while a session is open: what was promised is in the base, so
\* in the file again, or lost.
LEMMA Writes ==
  ASSUME TypeOK, ConsumerInv, FileOK, Opened # {}, NEW s \in Sessions, WriteFile(s),
         UNCHANGED <<caller, promise, root, stale>>
  PROVE  /\ root' \subseteq file' /\ layer[s] \subseteq file' /\ CommitKept' /\ Base \subseteq Base'
         /\ \A r \in Sessions : busy[r] # "reload"
         /\ \A r \in Sessions \ {s} : UNCHANGED <<sidecar[r], dirty[r]>>
         /\ \A r \in m_sessions : dirty[r] \/ layer[r] \subseteq sidecar[r] \cup Base
<1>1. file' = root \cup layer[s] /\ layer_mutex = Nobody
  BY DEF WriteFile
<1>2. \A r \in Sessions : busy[r] # "reload" /\ layer_mutex # r
  BY <1>1, LifecycleAssumption DEF ConsumerInv, Nobody
<1>3. Base \subseteq Base' /\ Base' \subseteq file' \cup lost'
  BY BaseWritten DEF FileOK, FileInv
<1>4. CommitKept'
  BY <1>3 DEF FileOK, FileInv, CommitKept
<1>5. \A r \in Sessions \ {s} : UNCHANGED <<sidecar[r], dirty[r]>>
  BY DEF WriteFile, TypeOK
<1>6. \A r \in m_sessions : dirty[r] \/ layer[r] \subseteq sidecar[r] \cup Base
  BY <1>2, Zenon DEF FileOK, FileInv, TypeOK
<1> QED BY <1>1, <1>2, <1>3, <1>4, <1>5, <1>6, Zenon

\* Consumers keep what was promised.
LEMMA FileByConsumer ==
  ASSUME TypeOK, MapOK, QuietInv, ConsumerInv, FileOK, NEW s \in Sessions, Consumer(s)
  PROVE  FileOK'
<1>0. UNCHANGED <<m_sessions, used, gone>>
  BY DEF Consumer, HandleJoin, HandleEdit, HandleFlush, HandleReload, CommitRefused, CommitWrites,
     CommitReloads, CommitReports
<1>1. Opened' = Opened
  BY <1>0 DEF Opened
<1>2. CASE HandleJoin(s)
  <2>1. Base' = Base
    BY <1>2, BaseStays DEF HandleJoin, stage
  <2> QED BY <1>0, <1>1, <1>2, <2>1 DEF HandleJoin, FileOK, FileInv, CommitKept, stage
<1>3. CASE HandleEdit(s)
  <2>1. /\ busy[s] = Nobody /\ dirty'[s] = TRUE
        /\ \A r \in Sessions \ {s} : layer'[r] = layer[r] /\ dirty'[r] = dirty[r]
        /\ UNCHANGED <<sidecar, root, file, lost, layer_mutex, busy, promise, caller>>
    BY <1>3 DEF HandleEdit, Ready, TypeOK
  <2>a. Base' = Base
    BY <1>3, BaseStays DEF HandleEdit
  <2>2. \A r \in m_sessions : \/ dirty'[r] \/ layer'[r] \subseteq sidecar'[r] \cup Base'
                              \/ layer_mutex' = r /\ layer'[r] \subseteq file'
    BY <2>1, <2>a, Zenon DEF FileOK, FileInv, TypeOK
  <2>3. \A r \in Sessions : /\ busy'[r] = "reload" => layer'[r] \subseteq file'
                            /\ busy'[r] = "notify" => layer'[r] \subseteq Base'
    BY <2>1, <2>a, Zenon DEF FileOK, FileInv, Nobody
  <2> QED BY <1>0, <1>1, <2>1, <2>2, <2>3, <2>a, Zenon DEF FileOK, FileInv, CommitKept
<1>4. CASE HandleFlush(s)
  <2>1. UNCHANGED <<layer, root, file, lost, layer_mutex, busy, promise, caller>>
    BY <1>4 DEF HandleFlush
  <2>a. Base' = Base
    BY <1>4, BaseStays DEF HandleFlush
  <2>2. \A r \in m_sessions : \/ dirty'[r] \/ layer'[r] \subseteq sidecar'[r] \cup Base'
                              \/ layer_mutex' = r /\ layer'[r] \subseteq file'
    <3>1. CASE UNCHANGED <<dirty, sidecar>>
      BY <2>1, <2>a, <3>1, Zenon DEF FileOK, FileInv
    <3>2. CASE /\ dirty' = [dirty EXCEPT ![s] = FALSE]
               /\ sidecar' = [sidecar EXCEPT ![s] = IF dirty[s] THEN layer[s] ELSE @]
      <4>1. \A r \in Sessions \ {s} : dirty'[r] = dirty[r] /\ sidecar'[r] = sidecar[r]
        BY <3>2 DEF TypeOK
      <4>2. dirty[s] => sidecar'[s] = layer[s]
        BY <3>2 DEF TypeOK
      <4>3. ~dirty[s] => sidecar'[s] = sidecar[s]
        BY <3>2 DEF TypeOK
      <4> QED BY <2>1, <2>a, <4>1, <4>2, <4>3, Zenon DEF FileOK, FileInv, TypeOK
    <3> QED BY <1>4, <3>1, <3>2, Zenon DEF HandleFlush
  <2> QED BY <1>0, <1>1, <2>1, <2>2, <2>a, Zenon DEF FileOK, FileInv, CommitKept
<1>5. CASE HandleReload(s)
  <2>1. /\ ReloadRootLayer
        /\ UNCHANGED <<layer, sidecar, dirty, file, lost, layer_mutex, busy, promise, caller>>
    BY <1>5 DEF HandleReload
  <2>2. root' \subseteq file' /\ Base \subseteq Base'
    BY <2>1, BaseReloaded DEF FileOK, FileInv
  <2> QED BY <1>0, <1>1, <2>1, <2>2, Zenon DEF FileOK, FileInv, CommitKept
<1>6. CASE CommitRefused(s)
  <2> DEFINE k == Head(queue[s]).caller
  <2>1. k \in Callers /\ caller[k] \in Calls /\ caller[k].at # "idle"
    BY <1>6, NextCommit DEF CommitRefused, Ready, TypeOK
  <2>2. /\ promise' = [promise EXCEPT ![k] = "refused"]
        /\ UNCHANGED <<layer, root, stale, file, lost, dirty, layer_mutex, busy>>
        /\ \A j \in Callers \ {k} : caller'[j] = caller[j]
        /\ sidecar' = sidecar \/ sidecar' = [sidecar EXCEPT ![s] = layer[s]]
    BY <1>6 DEF CommitRefused, WriteFails, TypeOK
  <2>a. Base' = Base
    BY <2>2, BaseStays
  <2>3. \A j \in Callers : promise'[j] = "Ok" => promise[j] = "Ok" /\ caller'[j] = caller[j]
    <3>1. promise'[k] = "refused" /\ \A j \in Callers \ {k} : promise'[j] = promise[j]
      BY <2>1, <2>2 DEF TypeOK
    <3> QED BY <2>2, <3>1
  <2>4. \A r \in Sessions : sidecar'[r] = sidecar[r] \/ sidecar'[r] = layer[r]
    <3>1. sidecar \in [Sessions -> SUBSET Edits]
      BY DEF TypeOK
    <3>2. CASE sidecar' = [sidecar EXCEPT ![s] = layer[s]]
      BY <3>1, <3>2
    <3> QED BY <2>2, <3>2
  <2>5. \A r \in m_sessions : \/ dirty'[r] \/ layer'[r] \subseteq sidecar'[r] \cup Base'
                              \/ layer_mutex' = r /\ layer'[r] \subseteq file'
    BY <2>2, <2>4, <2>a, Zenon DEF FileOK, FileInv, TypeOK
  <2> QED BY <1>0, <1>1, <2>2, <2>3, <2>5, <2>a DEF FileOK, FileInv, CommitKept
<1>7. CASE CommitWrites(s)
  <2>1. queue[s] # <<>>
    BY <1>7 DEF CommitWrites, Ready
  <2>2. Opened # {}
    BY <2>1 DEF QuietInv, InHand, MapOK, MapInv, TornDownOnce, Opened, Leaving
  <2>3. /\ WriteFile(s) /\ UNCHANGED <<caller, promise, root, stale, layer>>
        /\ busy' = [busy EXCEPT ![s] = "reload"] /\ layer_mutex' = s
    BY <1>7, Zenon DEF CommitWrites
  <2>4. /\ root' \subseteq file' /\ layer[s] \subseteq file' /\ CommitKept' /\ Base \subseteq Base'
        /\ \A r \in Sessions : busy[r] # "reload"
        /\ \A r \in Sessions \ {s} : UNCHANGED <<sidecar[r], dirty[r]>>
        /\ \A r \in m_sessions : dirty[r] \/ layer[r] \subseteq sidecar[r] \cup Base
    BY <2>2, <2>3, Writes, Zenon
  <2>5. \A r \in m_sessions : \/ dirty'[r] \/ layer'[r] \subseteq sidecar'[r] \cup Base'
                              \/ layer_mutex' = r /\ layer'[r] \subseteq file'
    BY <2>3, <2>4 DEF TypeOK
  <2>6. \A r \in Sessions : /\ busy'[r] = "reload" => layer'[r] \subseteq file'
                            /\ busy'[r] = "notify" => layer'[r] \subseteq Base'
    BY <2>3, <2>4, Zenon DEF FileOK, FileInv, TypeOK
  <2> QED BY <1>0, <1>1, <2>3, <2>4, <2>5, <2>6, Zenon DEF FileOK, FileInv
<1>8. CASE CommitReloads(s)
  <2>1. /\ ReloadRootLayer /\ busy' = [busy EXCEPT ![s] = "notify"] /\ layer_mutex' = Nobody
        /\ busy[s] = "reload" /\ UNCHANGED <<layer, sidecar, dirty, file, lost, promise, caller>>
    BY <1>8 DEF CommitReloads
  <2>a. root' \subseteq file' /\ Base \subseteq Base' /\ file \subseteq Base'
    BY <2>1, BaseReloaded DEF FileOK, FileInv
  <2>2. \A r \in Sessions \ {s} : busy'[r] = busy[r] /\ busy[r] # "reload" /\ layer_mutex # r
    BY <2>1, Zenon DEF TypeOK, ConsumerInv
  <2>3. busy'[s] = "notify" /\ layer[s] \subseteq file
    BY <2>1, Zenon DEF TypeOK, FileOK, FileInv
  <2>4. \A r \in m_sessions : dirty'[r] \/ layer'[r] \subseteq sidecar'[r] \cup Base'
    BY <2>1, <2>2, <2>3, <2>a, Zenon DEF FileOK, FileInv, TypeOK
  <2>5. \A r \in Sessions : /\ busy'[r] = "reload" => layer'[r] \subseteq file'
                            /\ busy'[r] = "notify" => layer'[r] \subseteq Base'
    BY <2>1, <2>2, <2>3, <2>a, Zenon DEF FileOK, FileInv
  <2> QED BY <1>0, <1>1, <2>1, <2>4, <2>5, <2>a, Zenon DEF FileOK, FileInv, CommitKept
<1>9. CASE CommitReports(s)
  <2> DEFINE k == Head(queue[s]).caller
  <2>1. k \in Callers /\ caller[k].owed \subseteq layer[s]
    BY <1>9, NextCommit, Zenon DEF CommitReports, ConsumerInv, Nobody
  <2>2. /\ busy[s] = "notify" /\ busy' = [busy EXCEPT ![s] = Nobody]
        /\ promise' = [promise EXCEPT ![k] = "Ok"]
        /\ caller' = [caller EXCEPT ![k].at = "returned"]
        /\ UNCHANGED <<layer, sidecar, dirty, root, file, stale, lost, layer_mutex>>
    BY <1>9, Zenon DEF CommitReports, stage
  <2>a. \A j \in Callers : promise[j] = "Ok" \/ j = k => caller'[j].owed = caller[j].owed
    <3>1. CASE caller[k].at # "idle"
      <4>1. caller[k] \in [at : {"waiting", "returned", "rejected"}, owed : SUBSET Edits]
        BY <2>1, <3>1 DEF TypeOK, Calls
      <4> QED BY <2>1, <2>2, <4>1 DEF TypeOK
    <3>2. caller[k].at # "idle"
      BY <1>9, NextCommit, Zenon DEF CommitReports, ConsumerInv, Nobody
    <3> QED BY <3>1, <3>2
  <2>3. Base' = Base /\ layer[s] \subseteq Base /\ Base \subseteq file \cup lost
    BY <2>2 DEF FileOK, FileInv, Base
  <2>4. \A j \in Callers \ {k} : promise'[j] = promise[j]
    BY <2>2 DEF TypeOK
  <2>5. \A r \in Sessions : busy'[r] = busy[r] \/ busy'[r] = Nobody
    BY <2>2 DEF TypeOK
  <2>6. \A r \in Sessions : /\ busy'[r] = "reload" => layer'[r] \subseteq file'
                            /\ busy'[r] = "notify" => layer'[r] \subseteq Base'
    BY <2>2, <2>3, <2>5, Zenon DEF FileOK, FileInv, Nobody
  <2> QED BY <1>0, <1>1, <2>1, <2>2, <2>3, <2>4, <2>6, <2>a, Zenon DEF FileOK, FileInv, CommitKept
<1> QED BY <1>2, <1>3, <1>4, <1>5, <1>6, <1>7, <1>8, <1>9 DEF Consumer

\* So does every other step.
LEMMA FileStep ==
  ASSUME TypeOK, MapOK, QuietInv, ConsumerInv, FileOK, [Next]_vars
  PROVE  FileOK'
<1>0. m_sessions \cup Leaving \subseteq Opened
  BY InLeaving DEF MapOK, MapInv, InHand, TornDownOnce, Opened, Hands
<1>1. ASSUME NEW s \in Sessions, Create(s) PROVE FileOK'
  <2>1. /\ Opened' # {}
        /\ IF Opened = {} THEN root' = file /\ stale' = FALSE ELSE UNCHANGED <<root, stale>>
        /\ UNCHANGED <<m_sessions, layer, sidecar, dirty, file, lost, layer_mutex, busy, promise,
                       caller>>
    BY <1>1 DEF Create, Opened, commands, MapOK, MapTypes
  <2>2. CASE Opened # {}
    <3>1. Base' = Base
      BY <2>1, <2>2, BaseStays
    <3> QED BY <2>1, <2>2, <3>1, Zenon DEF FileOK, FileInv, CommitKept
  <2>3. CASE Opened = {}
    <3>1. m_sessions = {} /\ root' = file /\ Base' = file \cup lost /\ \A r \in Sessions : busy[r] = Nobody
      BY <1>0, <2>1, <2>3 DEF QuietInv, InHand, Base
    <3> QED BY <2>1, <3>1 DEF FileOK, FileInv, CommitKept, Nobody
  <2> QED BY <2>2, <2>3
<1>2. ASSUME NEW s \in Sessions, Publish(s) PROVE FileOK'
  <2>1. layer[s] = {}
    BY <1>2, Zenon DEF Publish, Creating, QuietInv, InHand
  <2>2. /\ m_sessions' \subseteq m_sessions \cup {s} /\ Opened' \subseteq Opened
        /\ UNCHANGED <<layer, sidecar, dirty, root, file, stale, lost, layer_mutex, busy, promise,
                       caller>>
    BY <1>2 DEF Publish, Opened, stage, commands
  <2>3. Base' = Base
    BY <2>2, BaseStays
  <2> QED BY <2>1, <2>2, <2>3 DEF FileOK, FileInv, CommitKept
<1>3. ASSUME NEW t \in Threads, CommitAtTeardown(t) PROVE FileOK'
  <2> DEFINE s == Head(teardown[t].todo)
  <2>1. s \in Sessions /\ s \in Opened /\ s \notin m_sessions
    BY <1>0, <1>3, AtHead DEF CommitAtTeardown, InHand
  <2>2. /\ Opened' = Opened
        /\ UNCHANGED <<m_sessions, layer, root, stale, layer_mutex, busy, promise, caller>>
    BY <1>3 DEF CommitAtTeardown, Opened, commands
  <2>3. CASE WriteFile(s)
    <3>1. /\ root' \subseteq file' /\ CommitKept' /\ Base \subseteq Base'
          /\ \A r \in Sessions : busy[r] # "reload"
          /\ \A r \in Sessions \ {s} : UNCHANGED <<sidecar[r], dirty[r]>>
          /\ \A r \in m_sessions : dirty[r] \/ layer[r] \subseteq sidecar[r] \cup Base
      BY <2>1, <2>2, <2>3, Writes
    <3>2. \A r \in m_sessions : dirty'[r] \/ layer'[r] \subseteq sidecar'[r] \cup Base'
      BY <2>1, <2>2, <3>1, Zenon DEF TypeOK
    <3> QED BY <2>2, <3>1, <3>2 DEF FileOK, FileInv
  <2>4. CASE WriteFails(s)
    <3>1. /\ UNCHANGED <<file, lost, dirty>>
          /\ \A r \in Sessions \ {s} : sidecar'[r] = sidecar[r]
      BY <2>4 DEF WriteFails, TypeOK
    <3>a. Base' = Base
      BY <2>2, <3>1, BaseStays
    <3>2. \A r \in m_sessions : \/ dirty'[r] \/ layer'[r] \subseteq sidecar'[r] \cup Base'
                                \/ layer_mutex' = r /\ layer'[r] \subseteq file'
      BY <2>1, <2>2, <3>1, <3>a, Zenon DEF FileOK, FileInv, TypeOK
    <3> QED BY <2>2, <3>1, <3>2, <3>a DEF FileOK, FileInv, CommitKept
  <2> QED BY <1>3, <2>3, <2>4 DEF CommitAtTeardown
<1>4. ASSUME NEW t \in Threads, ClearSession(t) PROVE FileOK'
  <2> DEFINE s == Head(teardown[t].todo)
  <2>1. s \in Sessions /\ s \notin m_sessions /\ busy[s] = Nobody
    BY <1>4, AtHead, Zenon DEF ClearSession, QuietInv
  <2>2. /\ \A r \in Sessions \ {s} : UNCHANGED <<layer[r], sidecar[r], dirty[r]>>
        /\ Opened' = Opened \ {s}
        /\ IF Opened = {s} THEN root' = {} /\ stale' = FALSE ELSE UNCHANGED <<root, stale>>
        /\ UNCHANGED <<m_sessions, file, lost, layer_mutex, busy, promise, caller>>
    BY <1>4, Zenon DEF ClearSession, TypeOK, Opened, commands
  <2>3. CASE Opened # {s}
    <3>1. root' = root /\ Base' = Base
      BY <2>2, <2>3, BaseStays, Zenon
    <3>2. \A r \in m_sessions : \/ dirty'[r] \/ layer'[r] \subseteq sidecar'[r] \cup Base'
                                \/ layer_mutex' = r /\ layer'[r] \subseteq file'
      BY <2>1, <2>2, <3>1, Zenon DEF FileOK, FileInv, TypeOK
    <3>3. \A r \in Sessions : /\ busy'[r] = "reload" => layer'[r] \subseteq file'
                              /\ busy'[r] = "notify" => layer'[r] \subseteq Base'
      BY <2>1, <2>2, <3>1, Zenon DEF FileOK, FileInv, Nobody
    <3> QED BY <2>2, <3>1, <3>2, <3>3, Zenon DEF FileOK, FileInv, CommitKept
  <2>4. CASE Opened = {s}
    <3>1. Opened' = {} /\ root' = {} /\ m_sessions = {}
      BY <1>0, <2>1, <2>2, <2>4
    <3>2. \A r \in Sessions : busy[r] = Nobody
      BY <1>0, <2>1, <2>4 DEF QuietInv, InHand
    <3> QED BY <2>2, <3>1, <3>2 DEF FileOK, FileInv, CommitKept, Nobody
  <2> QED BY <2>3, <2>4
<1>5. ASSUME NEW k \in Callers, NEW s \in Sessions, SubmitCommit(k, s) PROVE FileOK'
  <2>1. promise[k] # "Ok"
    BY <1>5, Zenon DEF SubmitCommit, ConsumerInv
  <2>2. /\ \A j \in Callers \ {k} : caller'[j] = caller[j]
        /\ UNCHANGED <<m_sessions, used, gone, layer, sidecar, dirty, root, file, stale, lost,
                       layer_mutex, busy, promise>>
    BY <1>5, Zenon DEF SubmitCommit, TypeOK, stage
  <2>3. Base' = Base
    BY <2>2, BaseStays
  <2> QED BY <2>1, <2>2, <2>3 DEF FileOK, FileInv, CommitKept, Opened
<1>6. ASSUME NEW k \in Callers, CommitAnswer(k) PROVE FileOK'
  <2>1. /\ caller[k] \in Calls /\ caller'[k] = [caller[k] EXCEPT !.at = "returned"]
        /\ caller[k].at = "waiting" /\ \A j \in Callers \ {k} : caller'[j] = caller[j]
        /\ UNCHANGED <<m_sessions, used, gone, layer, sidecar, dirty, root, file, stale, lost,
                       layer_mutex, busy, promise>>
    BY <1>6 DEF CommitAnswer, TypeOK, stage, commands
  <2>2. \A j \in Callers : caller[j].at # "idle" => caller'[j].owed = caller[j].owed
    BY <2>1 DEF Calls
  <2>3. \A j \in Callers : promise[j] = "Ok" => caller[j].at # "idle"
    BY Zenon DEF ConsumerInv
  <2>4. Base' = Base
    BY <2>1, BaseStays
  <2> QED BY <2>1, <2>2, <2>3, <2>4 DEF FileOK, FileInv, CommitKept, Opened
<1>7. ASSUME m_sessions' \subseteq m_sessions, UNCHANGED <<used, gone>>,
             UNCHANGED <<stage, busy, caller, promise>>
      PROVE  FileOK'
  <2>1. Base' = Base
    BY <1>7, BaseStays DEF stage
  <2> QED BY <1>7, <2>1 DEF FileOK, FileInv, CommitKept, Opened, stage
<1>8. ASSUME NEW s \in Sessions, Destroy(s) \/ FlushTick(s) PROVE FileOK'
  BY <1>7, <1>8, Zenon DEF Destroy, FlushTick, commands
<1>9. ASSUME NEW expired \in SUBSET Idle, ReapIdleSessions(expired) PROVE FileOK'
  BY <1>7, <1>9 DEF ReapIdleSessions, commands
<1>10. ASSUME NEW t \in Threads, CloseAdmission(t) \/ WaitIdle(t) PROVE FileOK'
  BY <1>7, <1>10 DEF CloseAdmission, WaitIdle, commands
<1>11. ASSUME NEW c \in Connections, Connection(c) \/ SubmitEdit(c) \/ OnClose(c) PROVE FileOK'
  BY <1>7, <1>11, Zenon DEF Connection, LookUp, AttachClient, SubmitJoin, SubmitEdit, OnClose, commands
<1>12. ASSUME NEW c \in Connections, NEW s \in Sessions, OnAccept(c, s) PROVE FileOK'
  BY <1>7, <1>12 DEF OnAccept, commands
<1>13. CASE LastFlush \/ SwapSessions \/ StopExecutor
  BY <1>7, <1>13, Zenon DEF LastFlush, SwapSessions, StopExecutor, commands
<1>14. CASE UNCHANGED vars
  BY <1>7, <1>14 DEF vars, commands
<1> QED BY <1>1, <1>2, <1>3, <1>4, <1>5, <1>6, <1>8, <1>9, <1>10, <1>11, <1>12, <1>13, <1>14,
           FileByConsumer DEF Next, Background, Teardown, Connection

\* AttachClient decides who edits.
LEMMA PeerStep ==
  ASSUME TypeOK, MapOK, OneEditor, [Next]_vars
  PROVE  PeerTypes' /\ OneEditor'
<1> USE LifecycleAssumption
<1>0. PeerTypes
  BY Types
<1>1. ASSUME NEW c \in Connections, LookUp(c) \/ SubmitJoin(c) PROVE PeerTypes' /\ OneEditor'
  <2>1. /\ conn[c] \in [at : {"accepted", "attached"}, session : Sessions]
        /\ UNCHANGED <<clients, stamped>>
    BY <1>0, <1>1, Zenon DEF LookUp, SubmitJoin, At, PeerTypes, Places
  <2>2. \/ TurnedAway(c)
        \/ \E place \in {"found", "closing", "open"} : conn' = [conn EXCEPT ![c].at = place]
    BY <1>1 DEF LookUp, SubmitJoin, Goes
  <2>3. conn' \in [Connections -> Places]
    BY <1>0, <2>1, <2>2 DEF PeerTypes, Places, TurnedAway
  <2> QED BY <1>0, <2>1, <2>3 DEF PeerTypes, OneEditor
<1>2. ASSUME NEW c \in Connections, AttachClient(c) PROVE PeerTypes' /\ OneEditor'
  <2> DEFINE s == conn[c].session
  <2>1. conn[c] \in [at : {"found"}, session : Sessions] /\ s \in Sessions
    BY <1>0, <1>2 DEF AttachClient, At, PeerTypes, Places
  <2>2. TurnedAway(c) \/ conn' = [conn EXCEPT ![c].at = "attached"]
    BY <1>2 DEF AttachClient, Goes
  <2>3. conn' \in [Connections -> Places]
    BY <1>0, <2>1, <2>2 DEF PeerTypes, Places, TurnedAway
  <2>4. CASE UNCHANGED <<clients, stamped>>
    BY <1>0, <2>3, <2>4 DEF PeerTypes, OneEditor
  <2>5. CASE /\ ~SingleEditBusy(s)
             /\ clients' = [clients EXCEPT ![s] = @ \cup {c}]
             /\ stamped' = [stamped EXCEPT ![s] = FALSE]
    <3>1. /\ clients' \in [Sessions -> SUBSET Connections] /\ stamped' \in [Sessions -> BOOLEAN]
          /\ clients'[s] = clients[s] \cup {c} /\ \A r \in Sessions \ {s} : clients'[r] = clients[r]
      BY <1>0, <2>1, <2>5 DEF PeerTypes
    <3>2. s \in SingleEdit => clients'[s] = {c}
      BY <2>5, <3>1 DEF SingleEditBusy
    <3>3. OneEditor'
      BY <1>0, <3>1, <3>2 DEF OneEditor
    <3> QED BY <2>3, <3>1, <3>3 DEF PeerTypes
  <2> QED BY <1>2, <2>4, <2>5 DEF AttachClient
<1>3. ASSUME NEW c \in Connections, OnClose(c) PROVE PeerTypes' /\ OneEditor'
  <2> DEFINE s == conn[c].session
  <2>1. s \in Sessions /\ conn' \in [Connections -> Places]
    BY <1>0, <1>3, Zenon DEF OnClose, PeerTypes, Places
  <2>2. CASE UNCHANGED <<clients, stamped>>
    BY <1>0, <2>1, <2>2 DEF PeerTypes, OneEditor
  <2>3. CASE /\ clients' = [clients EXCEPT ![s] = @ \ {c}]
             /\ stamped' = [stamped EXCEPT ![s] = clients[s] = {c}]
    <3>1. /\ clients' \in [Sessions -> SUBSET Connections] /\ stamped' \in [Sessions -> BOOLEAN]
          /\ clients'[s] = clients[s] \ {c} /\ \A r \in Sessions \ {s} : clients'[r] = clients[r]
      BY <1>0, <2>1, <2>3 DEF PeerTypes
    <3> QED BY <2>1, <3>1 DEF PeerTypes, OneEditor
  <2> QED BY <1>3, <2>2, <2>3 DEF OnClose
<1>4. ASSUME NEW c \in Connections, NEW s \in Sessions, OnAccept(c, s) PROVE PeerTypes' /\ OneEditor'
  BY <1>0, <1>4, Zenon DEF OnAccept, PeerTypes, OneEditor, Places
<1>5. ASSUME NEW t \in Threads, ClearSession(t) PROVE PeerTypes' /\ OneEditor'
  <2> DEFINE s == Head(teardown[t].todo)
  <2>1. s \in Sessions
    BY <1>5, Cleared DEF MapOK
  <2>2. /\ clients' \in [Sessions -> SUBSET Connections] /\ stamped' \in [Sessions -> BOOLEAN]
        /\ clients'[s] = {} /\ \A r \in Sessions \ {s} : clients'[r] = clients[r] /\ conn' = conn
    BY <1>0, <1>5, <2>1 DEF ClearSession, PeerTypes
  <2>3. conn' = conn
    BY <1>5 DEF ClearSession
  <2> QED BY <1>0, <2>2, <2>3 DEF PeerTypes, OneEditor
<1>6. CASE UNCHANGED peers
  BY <1>0, <1>6 DEF peers, PeerTypes, OneEditor
<1> QED BY <1>1, <1>2, <1>3, <1>4, <1>5, <1>6, FramesStep DEF Frames, PeerAction
-----------------------------------------------------------------------------
(* The theorems. *)

\* The server starts in the invariant.
LEMMA Inv_Init == Init => Inv
<1> SUFFICES ASSUME Init PROVE Inv
  OBVIOUS
<1> USE LifecycleAssumption
<1>1. \A t \in Threads : teardown[t] = Resting /\ Hands(t) = {}
  BY NoHands DEF Init, Hands, Resting
<1>2. Leaving = {} /\ InHand = {}
  BY <1>1, InLeaving DEF InHand, Init
<1>3. TypeOK
  <2>1. Resting \in Errands /\ [at |-> "new"] \in Places /\ [at |-> "idle"] \in Calls
    BY DEF Resting, Errands, Places, Calls
  <2>2. MapTypes /\ CallTypes /\ PeerTypes
    BY <2>1 DEF Init, MapTypes, CallTypes, PeerTypes
  <2>3. QueueTypes
    BY DEF Init, QueueTypes
  <2>4. StageTypes
    BY DEF Init, StageTypes
  <2> QED BY <2>2, <2>3, <2>4, Types
<1>4. TornDownOnce
  <2>1. \A t \in Threads : DOMAIN teardown[t].todo = {}
    BY <1>1, NoHands DEF Resting
  <2>2. \A t \in Threads : IsInjective(teardown[t].todo)
    BY <2>1 DEF IsInjective
  <2>3. m_sessions = {} /\ gone = {}
    BY DEF Init
  <2> QED BY <1>1, <2>2, <2>3, Zenon DEF TornDownOnce, Hands
<1>5. MapInv
  BY <1>1, <1>2 DEF Init, MapInv, Resting, Threads
<1>6. QuietInv
  BY <1>1 DEF Init, QuietInv, Resting
<1>7. ConsumerInv
  <2>1. \A s \in Sessions : busy[s] = Nobody /\ queue[s] = <<>> /\ layer_mutex # s
    BY DEF Init, Nobody
  <2>2. \A k \in Callers : promise[k] = "none"
    BY DEF Init
  <2>3. \A s \in Sessions : DOMAIN queue[s] = {}
    BY <2>1, NoHands, Zenon
  <2>4. Nobody # "reload"
    BY DEF Nobody
  <2> QED BY <2>1, <2>2, <2>3, <2>4, Zenon DEF ConsumerInv
<1>8. FileInv /\ CommitKept
  BY DEF Init, FileInv, CommitKept, Nobody, Opened, Base
<1>9. OneEditor
  BY DEF Init, OneEditor
<1> QED BY <1>3, <1>4, <1>5, <1>6, <1>7, <1>8, <1>9 DEF Inv

\* Every step of every thread keeps the invariant.
LEMMA Inv_Step == Inv /\ [Next]_vars => Inv'
<1> SUFFICES ASSUME Inv, [Next]_vars PROVE Inv'
  OBVIOUS
<1>1. /\ TypeOK /\ MapOK /\ QuietInv /\ ConsumerInv /\ FileOK /\ OneEditor
  BY Types DEF Inv, MapOK, FileOK
<1>2. MapOK'
  BY <1>1, MapStep
<1>3. QueueTypes'
  BY <1>1, Moves, QueueTypesStep
<1>4. StageTypes' /\ CallTypes' /\ PeerTypes' /\ OneEditor'
  BY <1>1, LayerMoves, CallMoves, PeerStep
<1>5. TypeOK'
  BY <1>2, <1>3, <1>4, Zenon
     DEF MapOK, TypeOK, MapTypes, QueueTypes, StageTypes, CallTypes, PeerTypes, Errands
<1>6. QuietInv' /\ ConsumerInv' /\ FileOK'
  BY <1>1, QuietStep, ConsumerStep, FileStep
<1> QED BY <1>2, <1>4, <1>5, <1>6 DEF Inv, MapOK, FileOK

\* The inductive invariant holds in every reachable state.
THEOREM Inv_Always == Spec => []Inv
BY Inv_Init, Inv_Step, PTL DEF Spec

\* Every variable has its type in every reachable state.
THEOREM Type_Correct == Spec => []TypeOK
<1>1. Inv => TypeOK
  BY DEF Inv
<1> QED BY <1>1, Inv_Always, PTL

\* However many upgrades pass OnAccept together, AttachClient lets one client edit a
\* session in single_edit mode.
THEOREM One_Editor == Spec => []OneEditor
<1>1. Inv => OneEditor
  BY DEF Inv
<1> QED BY <1>1, Inv_Always, PTL

\* DELETE, the reaper and the destructor tear each session down once, and past WaitIdle
\* the thread that does so is alone with the stage.
THEOREM TornDown_Alone == Spec => []TornDownAlone
<1>1. Inv => AloneAtTeardown
  <2> SUFFICES ASSUME Inv, NEW s \in Sessions,
                      \/ s \in gone
                      \/ \E t \in Threads :
                           teardown[t].at \in {"commit", "clear"} /\ Head(teardown[t].todo) = s
               PROVE  queue[s] = <<>> /\ busy[s] = Nobody /\ s \notin admitting /\ layer_mutex # s
    BY DEF AloneAtTeardown
  <2>1. queue[s] = <<>> /\ busy[s] = Nobody /\ s \notin admitting
    <3>1. CASE s \in gone
      <4>1. s \notin InHand
        BY <3>1, InLeaving DEF Inv, InHand, MapInv, TornDownOnce, Hands
      <4> QED BY <4>1 DEF Inv, QuietInv, MapInv
    <3>2. CASE s \notin gone
      BY <3>2 DEF Inv, QuietInv, MapInv
    <3> QED BY <3>1, <3>2
  <2> QED BY <2>1, Zenon DEF Inv, ConsumerInv, Nobody
<1>2. Inv => TornDownAlone
  BY <1>1 DEF Inv, TornDownAlone
<1> QED BY <1>2, Inv_Always, PTL

\* Whatever saves and reloads fail, an acknowledged edit is in the sidecar or in the file,
\* or marked for the next flush, or a commit on a root layer that a failed reload had left
\* behind the file has taken it out.
THEOREM NoEdit_Forgotten == Spec => []NoEditForgotten
<1>1. Inv => NoEditForgotten
  BY DEF Inv, FileInv, NoEditForgotten, Base
<1> QED BY <1>1, Inv_Always, PTL

\* What a successful commit put into the file no later commit takes out again, unless it
\* writes a root layer that a failed reload has left behind the file.
THEOREM Commit_Kept == Spec => []CommitKept
<1>1. Inv => CommitKept
  BY DEF Inv
<1> QED BY <1>1, Inv_Always, PTL
=============================================================================
