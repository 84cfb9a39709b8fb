---------------------------- MODULE VersionLog ----------------------------
(***************************************************************************)
(* The threads that draw versions from server_seq and record them.  A      *)
(* thread first increments the counter and then records the prims its      *)
(* change touched, one by one.  The consumer of the session is one such    *)
(* thread; the consumer of another session is a second one when both       *)
(* sessions share a root layer, because its notice is delivered there.     *)
(***************************************************************************)
EXTENDS SessionVersions

CONSTANTS Recorders, Consumer,  \* threads that record; the session's own consumer
          MaxSeq,               \* bound: versions drawn
          Nothing               \* no change being recorded

ASSUME RecordersAssumption == Consumer \in Recorders

VARIABLES
  server_seq, versions,
  recording,     \* thread -> the change it records: its version, writer and the prims left
  changes,       \* history: recorded changes
  corrections    \* history: recorded corrections

vars == <<server_seq, versions, recording, changes, corrections>>

Writers == Connections \cup {Server}

Init ==
  /\ server_seq = 0
  /\ versions = NoVersions
  /\ recording = [r \in Recorders |-> Nothing]
  /\ changes = {} /\ corrections = {}

\* server_seq.fetch_add for a stage change of some prims.  The writer is
\* current_origin, the client whose update the consumer applies.  A reload may
\* touch no prim that clients see.
DrawChange(r) ==
  /\ recording[r] = Nothing /\ server_seq < MaxSeq
  /\ server_seq' = server_seq + 1
  /\ \E w \in Writers, S \in SUBSET Prims :
       /\ S # {} \/ w = Server
       /\ recording' = [recording EXCEPT ![r] = [seq |-> server_seq + 1, writer |-> w, left |-> S]]
  /\ UNCHANGED <<versions, changes, corrections>>

\* RecordChange for the next prim of the change.
Record(r) ==
  /\ recording[r] # Nothing
  /\ \E p \in recording[r].left :
       /\ versions' = RecordChange(versions, p, recording[r].seq, recording[r].writer)
       /\ changes' = changes \cup
            {[prim |-> p, seq |-> recording[r].seq, writer |-> recording[r].writer]}
       /\ recording' = [recording EXCEPT ![r].left = @ \ {p}]
  /\ UNCHANGED <<server_seq, corrections>>

Recorded(r) ==
  /\ recording[r] # Nothing /\ recording[r].left = {}
  /\ recording' = [recording EXCEPT ![r] = Nothing]
  /\ UNCHANGED <<server_seq, versions, changes, corrections>>

\* SendCorrection draws a version and records it for one connection and prim.
Correct ==
  /\ recording[Consumer] = Nothing /\ server_seq < MaxSeq
  /\ server_seq' = server_seq + 1
  /\ \E c \in Connections, p \in Prims :
       /\ versions' = RecordCorrection(versions, c, p, server_seq + 1)
       /\ corrections' = corrections \cup {[connection |-> c, prim |-> p, seq |-> server_seq + 1]}
  /\ UNCHANGED <<recording, changes>>

\* A broadcast of the change being recorded.
Broadcast(r) ==
  /\ recording[r] # Nothing
  /\ \E d \in changes : d.seq = recording[r].seq
  /\ \E c \in Connections : versions' = RecordSent(versions, c, recording[r].seq)
  /\ UNCHANGED <<server_seq, recording, changes, corrections>>

\* An Ack or a snapshot carries the current version.
Answer ==
  /\ recording[Consumer] = Nothing
  /\ \E c \in Connections : versions' = RecordSent(versions, c, server_seq)
  /\ UNCHANGED <<server_seq, recording, changes, corrections>>

Next ==
  \/ \E r \in Recorders : DrawChange(r) \/ Record(r) \/ Recorded(r) \/ Broadcast(r)
  \/ Correct \/ Answer

Spec == Init /\ [][Next]_vars
-----------------------------------------------------------------------------
\* The types; versions and writers, both integers in the code, are told apart.
TypeOK ==
  /\ server_seq \in Nat
  /\ versions \in [last_change_seq : [Prims -> Nat], last_writer : [Prims -> Writers],
                   foreign_before_run : [Prims -> Nat], max_sent_seq : [Connections -> Nat],
                   correction_seq : [Connections -> [Prims -> Nat]]]
  /\ recording \in [Recorders -> [seq : Nat, writer : Writers, left : SUBSET Prims] \cup {Nothing}]
  /\ changes \subseteq [prim : Prims, seq : Nat, writer : Writers]
  /\ corrections \subseteq [connection : Connections, prim : Prims, seq : Nat]

\* CheckUpdate calls an update outdated exactly when somebody else changed the
\* prim after the base, or the sender got a correction for it after the base:
\* the three numbers kept per prim stand for the whole history.
BaseCheck ==
  \A c \in Connections, p \in Prims : \A base \in 0 .. versions.max_sent_seq[c] :
    CheckUpdate(versions, c, p, base) = "Stale" <=>
      \/ \E d \in changes : d.prim = p /\ d.writer # c /\ d.seq > base
      \/ \E d \in corrections : d.connection = c /\ d.prim = p /\ d.seq > base
=============================================================================
