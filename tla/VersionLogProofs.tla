------------------------- MODULE VersionLogProofs -------------------------
(***************************************************************************)
(* The numbers SessionVersions keeps stand for the whole history of        *)
(* changes and corrections, for any number of prims, connections and       *)
(* versions, as long as one thread records the changes.  That assumption   *)
(* cannot be dropped: with a second recorder in MCVersions.cfg, BaseCheck  *)
(* fails.                                                                  *)
(***************************************************************************)
EXTENDS VersionLog, TLAPS

\* Recorded versions were drawn, and a change being recorded has the newest.
SeqInv ==
  /\ \A d \in changes : d.seq <= server_seq
  /\ \A d \in corrections : d.seq <= server_seq
  /\ recording[Consumer] # Nothing => recording[Consumer].seq = server_seq

LastChange(p) ==
  /\ \A d \in changes : d.prim = p => d.seq <= versions.last_change_seq[p]
  /\ \/ versions.last_change_seq[p] = 0
     \/ \E d \in changes : /\ d.prim = p
                           /\ d.seq = versions.last_change_seq[p]
                           /\ d.writer = versions.last_writer[p]

BeforeRun(p) ==
  versions.last_writer[p] # Server =>
    /\ \A d \in changes :
         d.prim = p /\ d.writer # versions.last_writer[p] => d.seq <= versions.foreign_before_run[p]
    /\ \/ versions.foreign_before_run[p] = 0
       \/ \E d \in changes : /\ d.prim = p
                             /\ d.seq = versions.foreign_before_run[p]
                             /\ d.writer # versions.last_writer[p]

LastCorrection(c, p) ==
  /\ \A d \in corrections :
       d.connection = c /\ d.prim = p => d.seq <= versions.correction_seq[c][p]
  /\ \/ versions.correction_seq[c][p] = 0
     \/ \E d \in corrections : /\ d.connection = c /\ d.prim = p
                               /\ d.seq = versions.correction_seq[c][p]

Inv ==
  /\ TypeOK
  /\ SeqInv
  /\ \A p \in Prims : LastChange(p) /\ BeforeRun(p)
  /\ \A c \in Connections, p \in Prims : LastCorrection(c, p)
-----------------------------------------------------------------------------
\* Nothing is recorded at first.
LEMMA InitInv == Init => Inv
<1> SUFFICES ASSUME Init PROVE Inv OBVIOUS
<1>1. TypeOK BY DEF Init, TypeOK, NoVersions, Writers
<1>2. SeqInv BY RecordersAssumption DEF Init, SeqInv
<1>3. \A p \in Prims : LastChange(p) /\ BeforeRun(p)
  BY DEF Init, NoVersions, LastChange, BeforeRun
<1>4. \A c \in Connections, p \in Prims : LastCorrection(c, p)
  BY DEF Init, NoVersions, LastCorrection
<1> QED BY <1>1, <1>2, <1>3, <1>4 DEF Inv

\* Larger is the maximum, so a base is below it iff it is below one of the two.
LEMMA LargerFacts ==
  ASSUME NEW a \in Nat, NEW b \in Nat
  PROVE  /\ Larger(a, b) \in Nat
         /\ \A x \in Nat : x < Larger(a, b) <=> x < a \/ x < b
BY DEF Larger

\* The invariant is what makes CheckUpdate agree with the history.
LEMMA InvImpliesBaseCheck == Inv => BaseCheck
<1> SUFFICES ASSUME Inv, NEW c \in Connections, NEW p \in Prims,
                    NEW base \in 0 .. versions.max_sent_seq[c]
             PROVE  CheckUpdate(versions, c, p, base) = "Stale" <=>
                      \/ \E d \in changes : d.prim = p /\ d.writer # c /\ d.seq > base
                      \/ \E d \in corrections : d.connection = c /\ d.prim = p /\ d.seq > base
  BY DEF BaseCheck
<1> DEFINE F == LatestForeign(versions, c, p)
           K == versions.correction_seq[c][p]
<1>1. base \in Nat /\ ~(base > versions.max_sent_seq[c]) /\ F \in Nat /\ K \in Nat
  BY DEF Inv, TypeOK, LatestForeign
<1>2. CheckUpdate(versions, c, p, base) = "Stale" <=> base < F \/ base < K
  <2>1. CheckUpdate(versions, c, p, base) = "Stale" <=> base < Larger(F, K)
    BY <1>1 DEF CheckUpdate
  <2> QED BY <2>1, <1>1, LargerFacts
<1>3. base < F <=> \E d \in changes : d.prim = p /\ d.writer # c /\ d.seq > base
  <2>0. /\ LastChange(p) /\ BeforeRun(p)
        /\ \A d \in changes : d.seq \in Nat
        /\ c # Server
    BY ServerAssumption DEF Inv, TypeOK
  <2>1. CASE versions.last_writer[p] = c
    <3>1. F = versions.foreign_before_run[p] BY <2>1 DEF LatestForeign
    <3> QED BY <3>1, <2>1, <2>0, <1>1 DEF BeforeRun
  <2>2. CASE versions.last_writer[p] # c
    <3>1. F = versions.last_change_seq[p] BY <2>2 DEF LatestForeign
    <3> QED BY <3>1, <2>2, <2>0, <1>1 DEF LastChange
  <2> QED BY <2>1, <2>2
<1>4. base < K <=> \E d \in corrections : d.connection = c /\ d.prim = p /\ d.seq > base
  <2>1. LastCorrection(c, p) /\ \A d \in corrections : d.seq \in Nat
    BY DEF Inv, TypeOK
  <2> QED BY <2>1, <1>1 DEF LastCorrection
<1> QED BY <1>2, <1>3, <1>4
-----------------------------------------------------------------------------
\* What one call of RecordChange does to the entry of a prim.
LEMMA RecordedEntry ==
  ASSUME TypeOK, NEW p \in Prims, NEW q \in Prims, NEW s \in Nat, NEW w \in Writers
  PROVE  LET v == RecordChange(versions, p, s, w)
         IN  /\ v.correction_seq = versions.correction_seq
             /\ v.max_sent_seq = versions.max_sent_seq
             /\ v.last_change_seq[q] = IF q = p THEN s ELSE versions.last_change_seq[q]
             /\ v.last_writer[q] = IF q = p THEN w ELSE versions.last_writer[q]
             /\ v.foreign_before_run[q] =
                  IF q = p /\ StartsRun(versions, p, w)
                    THEN versions.last_change_seq[p] ELSE versions.foreign_before_run[q]
BY DEF TypeOK, RecordChange, StartsRun

VersionsType ==
  [last_change_seq : [Prims -> Nat], last_writer : [Prims -> Writers],
   foreign_before_run : [Prims -> Nat], max_sent_seq : [Connections -> Nat],
   correction_seq : [Connections -> [Prims -> Nat]]]

\* The operations keep the types.
LEMMA OperationTypes ==
  ASSUME versions \in VersionsType, NEW s \in Nat
  PROVE  /\ \A p \in Prims, w \in Writers : RecordChange(versions, p, s, w) \in VersionsType
         /\ \A c \in Connections : RecordSent(versions, c, s) \in VersionsType
         /\ \A c \in Connections, p \in Prims :
              RecordCorrection(versions, c, p, s) \in VersionsType
<1>1. ASSUME NEW p \in Prims, NEW w \in Writers
      PROVE  RecordChange(versions, p, s, w) \in VersionsType
  BY DEF VersionsType, RecordChange
<1>2. ASSUME NEW c \in Connections PROVE Larger(versions.max_sent_seq[c], s) \in Nat
  BY DEF VersionsType, Larger
<1>3. ASSUME NEW c \in Connections PROVE RecordSent(versions, c, s) \in VersionsType
  BY <1>2 DEF VersionsType, RecordSent
<1>4. ASSUME NEW c \in Connections, NEW p \in Prims
      PROVE  RecordCorrection(versions, c, p, s) \in VersionsType
  BY <1>2 DEF VersionsType, RecordCorrection
<1> QED BY <1>1, <1>3, <1>4

\* Every step keeps the types.
LEMMA TypeStep == TypeOK /\ [Next]_vars => TypeOK'
<1> SUFFICES ASSUME TypeOK, [Next]_vars PROVE TypeOK' OBVIOUS
<1> USE DEF TypeOK
<1>0. versions \in VersionsType BY DEF VersionsType
<1>1. ASSUME NEW r \in Recorders, DrawChange(r) PROVE TypeOK' BY <1>1 DEF DrawChange
<1>2. ASSUME NEW r \in Recorders, Record(r) PROVE TypeOK'
  <2>0. PICK p \in recording[r].left :
        /\ versions' = RecordChange(versions, p, recording[r].seq, recording[r].writer)
        /\ changes' = changes \cup
             {[prim |-> p, seq |-> recording[r].seq, writer |-> recording[r].writer]}
        /\ recording' = [recording EXCEPT ![r].left = @ \ {p}]
    BY <1>2 DEF Record
  <2>1. recording[r] \in [seq : Nat, writer : Writers, left : SUBSET Prims] BY <1>2 DEF Record
  <2>2. p \in Prims /\ recording[r].seq \in Nat /\ recording[r].writer \in Writers BY <2>1
  <2>3. versions' \in VersionsType BY <1>0, <2>0, <2>2, OperationTypes
  <2>4. changes' \subseteq [prim : Prims, seq : Nat, writer : Writers] BY <2>0, <2>2
  <2>5. recording' \in
          [Recorders -> [seq : Nat, writer : Writers, left : SUBSET Prims] \cup {Nothing}]
    <3> DEFINE T == [seq : Nat, writer : Writers, left : SUBSET Prims]
               e == [recording[r] EXCEPT !.left = @ \ {p}]
    <3>1. e \in T BY <2>0, <2>1
    <3>2. recording \in [Recorders -> T \cup {Nothing}] OBVIOUS
    <3>3. recording' = [recording EXCEPT ![r] = e] BY <2>0
    <3> HIDE DEF T, e
    <3>4. recording' \in [Recorders -> T \cup {Nothing}] BY <3>1, <3>2, <3>3
    <3> QED BY <3>4 DEF T
  <2> QED BY <1>2, <2>3, <2>4, <2>5 DEF Record, VersionsType
<1>3. ASSUME NEW r \in Recorders, Recorded(r) PROVE TypeOK' BY <1>3 DEF Recorded
<1>4. ASSUME NEW r \in Recorders, Broadcast(r) PROVE TypeOK'
  <2>1. recording[r].seq \in Nat BY <1>4 DEF Broadcast
  <2>2. versions' \in VersionsType BY <1>0, <1>4, <2>1, OperationTypes DEF Broadcast
  <2> QED BY <1>4, <2>2 DEF Broadcast, VersionsType
<1>5. ASSUME Correct PROVE TypeOK'
  <2>1. versions' \in VersionsType BY <1>0, <1>5, OperationTypes DEF Correct
  <2> QED BY <1>5, <2>1 DEF Correct, VersionsType
<1>6. ASSUME Answer PROVE TypeOK'
  <2>1. versions' \in VersionsType BY <1>0, <1>6, OperationTypes DEF Answer
  <2> QED BY <1>6, <2>1 DEF Answer, VersionsType
<1>7. ASSUME UNCHANGED vars PROVE TypeOK' BY <1>7 DEF vars
<1> QED BY <1>1, <1>2, <1>3, <1>4, <1>5, <1>6, <1>7 DEF Next
-----------------------------------------------------------------------------
\* With one recording thread a version is drawn only when the previous one is
\* completely recorded.
LEMMA SeqStep ==
  ASSUME Recorders = {Consumer}
  PROVE  TypeOK /\ SeqInv /\ [Next]_vars => SeqInv'
<1> SUFFICES ASSUME TypeOK, SeqInv, [Next]_vars PROVE SeqInv' OBVIOUS
<1>0. /\ server_seq \in Nat
      /\ \A d \in changes : d.seq \in Nat
      /\ \A d \in corrections : d.seq \in Nat
      /\ recording = [r \in {Consumer} |-> recording[r]]
  BY DEF TypeOK
<1> USE DEF SeqInv
<1>1. CASE DrawChange(Consumer) BY <1>0, <1>1 DEF DrawChange
<1>2. CASE Record(Consumer)
  <2>1. PICK p \in recording[Consumer].left :
          /\ changes' = changes \cup {[prim |-> p, seq |-> recording[Consumer].seq,
                                       writer |-> recording[Consumer].writer]}
          /\ recording' = [recording EXCEPT ![Consumer].left = @ \ {p}]
    BY <1>2 DEF Record
  <2>2. recording[Consumer].seq = server_seq BY <1>2 DEF Record
  <2>3. recording[Consumer] \in [seq : Nat, writer : Writers, left : SUBSET Prims]
    BY <1>2 DEF Record, TypeOK
  <2>4. recording'[Consumer].seq = server_seq BY <1>0, <2>1, <2>2, <2>3
  <2>5. \A d \in changes' : d.seq <= server_seq BY <1>0, <2>1, <2>2
  <2> QED BY <1>2, <2>4, <2>5 DEF Record
<1>3. CASE Recorded(Consumer) BY <1>0, <1>3 DEF Recorded
<1>4. CASE Broadcast(Consumer) BY <1>0, <1>4 DEF Broadcast
<1>5. CASE Correct BY <1>0, <1>5 DEF Correct
<1>6. CASE Answer BY <1>0, <1>6 DEF Answer
<1>7. CASE UNCHANGED vars BY <1>7 DEF vars
<1> QED BY <1>1, <1>2, <1>3, <1>4, <1>5, <1>6, <1>7 DEF Next

\* Actions that do not record a change leave the entries of the prims alone.
LEMMA EntriesFrame ==
  ASSUME TypeOK, [Next]_vars, ~ \E r \in Recorders : Record(r)
  PROVE  /\ changes' = changes
         /\ versions'.last_change_seq = versions.last_change_seq
         /\ versions'.last_writer = versions.last_writer
         /\ versions'.foreign_before_run = versions.foreign_before_run
<1>1. ASSUME NEW r \in Recorders, DrawChange(r) \/ Recorded(r) \/ Broadcast(r)
      PROVE  /\ changes' = changes
             /\ \/ versions' = versions
                \/ \E c \in Connections, s \in Nat : versions' = RecordSent(versions, c, s)
  BY <1>1 DEF DrawChange, Recorded, Broadcast, TypeOK
<1>2. ASSUME Correct \/ Answer \/ UNCHANGED vars
      PROVE  /\ changes' = changes
             /\ \/ versions' = versions
                \/ \E c \in Connections, s \in Nat : versions' = RecordSent(versions, c, s)
                \/ \E c \in Connections, p \in Prims, s \in Nat :
                     versions' = RecordCorrection(versions, c, p, s)
  BY <1>2 DEF Correct, Answer, vars, TypeOK
<1>3. \/ versions' = versions
      \/ \E c \in Connections, s \in Nat : versions' = RecordSent(versions, c, s)
      \/ \E c \in Connections, p \in Prims, s \in Nat :
           versions' = RecordCorrection(versions, c, p, s)
  BY <1>1, <1>2, Zenon DEF Next
<1>4. changes' = changes BY <1>1, <1>2, Zenon DEF Next
<1> QED BY <1>3, <1>4 DEF TypeOK, RecordSent, RecordCorrection

\* Recording a change keeps the entry of every prim exact.
LEMMA ChangesStep ==
  ASSUME Recorders = {Consumer}, Inv, [Next]_vars, NEW q \in Prims
  PROVE  LastChange(q)' /\ BeforeRun(q)'
<1>0. LastChange(q) /\ BeforeRun(q) /\ TypeOK /\ SeqInv BY DEF Inv
<1>1. CASE ~ \E r \in Recorders : Record(r)
  BY <1>0, <1>1, EntriesFrame DEF LastChange, BeforeRun
<1>2. CASE Record(Consumer)
  <2> DEFINE s == recording[Consumer].seq
             w == recording[Consumer].writer
  <2>1. PICK p \in recording[Consumer].left :
          /\ versions' = RecordChange(versions, p, s, w)
          /\ changes' = changes \cup {[prim |-> p, seq |-> s, writer |-> w]}
    BY <1>2 DEF Record
  <2>2. p \in Prims /\ s \in Nat /\ w \in Writers BY <1>0, <1>2 DEF TypeOK, Record
  <2>3. \A d \in changes : d.seq \in Nat /\ d.seq <= s BY <1>0, <1>2 DEF SeqInv, TypeOK, Record
  <2>4. /\ versions'.last_change_seq[q] = IF q = p THEN s ELSE versions.last_change_seq[q]
        /\ versions'.last_writer[q] = IF q = p THEN w ELSE versions.last_writer[q]
        /\ versions'.foreign_before_run[q] =
             IF q = p /\ StartsRun(versions, p, w)
               THEN versions.last_change_seq[p] ELSE versions.foreign_before_run[q]
    BY <1>0, <2>1, <2>2, RecordedEntry
  <2> HIDE DEF s, w
  <2>5. LastChange(q)'
    <3>1. CASE q # p BY <1>0, <2>1, <2>4, <3>1 DEF LastChange
    <3>2. CASE q = p
      <4>1. \A d \in changes' : d.seq <= s BY <2>1, <2>2, <2>3
      <4>2. [prim |-> p, seq |-> s, writer |-> w] \in changes' BY <2>1
      <4> QED BY <2>4, <3>2, <4>1, <4>2 DEF LastChange
    <3> QED BY <3>1, <3>2
  <2>6. CASE q # p BY <1>0, <2>1, <2>4, <2>5, <2>6 DEF BeforeRun
  <2>7. CASE q = p /\ StartsRun(versions, p, w)
    <3>1. w = Server \/ versions.last_writer[p] # w BY <2>7 DEF StartsRun
    <3> QED BY <1>0, <2>1, <2>2, <2>4, <2>5, <2>7, <3>1 DEF BeforeRun, LastChange
  <2>8. CASE q = p /\ ~StartsRun(versions, p, w)
    <3>1. w # Server /\ versions.last_writer[p] = w BY <2>8 DEF StartsRun
    <3> QED BY <1>0, <2>1, <2>2, <2>4, <2>5, <2>8, <3>1 DEF BeforeRun
  <2> QED BY <2>5, <2>6, <2>7, <2>8
<1> QED BY <1>1, <1>2

\* The last correction is the newest, because only the consumer corrects.
LEMMA CorrectionsStep ==
  ASSUME Inv, [Next]_vars, NEW c \in Connections, NEW q \in Prims
  PROVE  LastCorrection(c, q)'
<1>0. LastCorrection(c, q) /\ TypeOK /\ SeqInv BY DEF Inv
<1>1. CASE Correct
  <2>1. PICK k \in Connections, p \in Prims :
          /\ versions' = RecordCorrection(versions, k, p, server_seq + 1)
          /\ corrections' = corrections \cup
               {[connection |-> k, prim |-> p, seq |-> server_seq + 1]}
    BY <1>1 DEF Correct
  <2>2. versions'.correction_seq[c][q] =
          IF c = k /\ q = p THEN server_seq + 1 ELSE versions.correction_seq[c][q]
    BY <1>0, <2>1 DEF TypeOK, RecordCorrection
  <2>3. /\ server_seq \in Nat
        /\ \A d \in corrections : d.seq \in Nat /\ d.seq <= server_seq
    BY <1>0 DEF TypeOK, SeqInv
  <2>4. CASE c = k /\ q = p
    <3>1. \A d \in corrections' : d.seq <= server_seq + 1 BY <2>1, <2>3
    <3>2. [connection |-> k, prim |-> p, seq |-> server_seq + 1] \in corrections' BY <2>1
    <3> QED BY <2>2, <2>4, <3>1, <3>2 DEF LastCorrection
  <2>5. CASE ~(c = k /\ q = p) BY <1>0, <2>1, <2>2, <2>5 DEF LastCorrection
  <2> QED BY <2>4, <2>5
<1>2. CASE ~Correct
  <2>1. ASSUME NEW r \in Recorders, DrawChange(r) \/ Record(r) \/ Recorded(r) \/ Broadcast(r)
        PROVE  corrections' = corrections /\ versions'.correction_seq = versions.correction_seq
    BY <1>0, <2>1 DEF DrawChange, Record, Recorded, Broadcast, RecordChange, RecordSent, TypeOK
  <2>2. ASSUME Answer \/ UNCHANGED vars
        PROVE  corrections' = corrections /\ versions'.correction_seq = versions.correction_seq
    BY <1>0, <2>2 DEF Answer, vars, RecordSent, TypeOK
  <2>3. corrections' = corrections /\ versions'.correction_seq = versions.correction_seq
    BY <1>2, <2>1, <2>2 DEF Next
  <2> QED BY <1>0, <2>3 DEF LastCorrection
<1> QED BY <1>1, <1>2
-----------------------------------------------------------------------------
\* The types hold however many threads record changes.
THEOREM Type_Correct == Spec => []TypeOK
<1>1. Init => TypeOK BY InitInv DEF Inv
<1> QED BY <1>1, TypeStep, PTL DEF Spec

\* With one recording thread CheckUpdate rejects an update as stale exactly when
\* somebody else changed the prim, or the sender got a correction for it, after
\* the base the update was made on.
THEOREM Base_Check == (Recorders = {Consumer}) => (Spec => []BaseCheck)
<1> SUFFICES ASSUME Recorders = {Consumer} PROVE Spec => []BaseCheck OBVIOUS
<1>1. Inv /\ [Next]_vars => Inv'
  <2> SUFFICES ASSUME Inv, [Next]_vars PROVE Inv' OBVIOUS
  <2>1. TypeOK' BY TypeStep DEF Inv
  <2>2. SeqInv' BY SeqStep DEF Inv
  <2>3. \A p \in Prims : LastChange(p)' /\ BeforeRun(p)' BY ChangesStep
  <2>4. \A c \in Connections, p \in Prims : LastCorrection(c, p)' BY CorrectionsStep
  <2> QED BY <2>1, <2>2, <2>3, <2>4 DEF Inv
<1> QED BY <1>1, InitInv, InvImpliesBaseCheck, PTL DEF Spec
=============================================================================
