-------------------------- MODULE SessionVersions --------------------------
(***************************************************************************)
(* SessionVersions: which versions (server_seq values) changed which prim  *)
(* and which were sent to which connection.  Its state is one record; its  *)
(* methods are operators on it.  The maps of the code hold an entry with   *)
(* these zero values from the first access on.                             *)
(***************************************************************************)
EXTENDS Naturals

CONSTANTS Prims, Connections,
          Server          \* connection 0: the writer of a server-side change

ASSUME ServerAssumption == Server \notin Connections

NoVersions ==
  [last_change_seq    |-> [p \in Prims |-> 0],
   last_writer        |-> [p \in Prims |-> Server],
   foreign_before_run |-> [p \in Prims |-> 0],
   max_sent_seq       |-> [c \in Connections |-> 0],
   correction_seq     |-> [c \in Connections |-> [p \in Prims |-> 0]]]

Larger(a, b) == IF a < b THEN b ELSE a

\* A change by the server, or by another writer than the last, starts a new run.
StartsRun(v, p, writer) == writer = Server \/ v.last_writer[p] # writer

\* Faulty: remembers the change before the run only when the server made it.
RecordChange_Overwrite(v, p, seq, writer) ==
  [v EXCEPT !.foreign_before_run[p] = IF writer = Server THEN v.last_change_seq[p] ELSE @,
            !.last_writer[p] = writer,
            !.last_change_seq[p] = seq]

RecordChange(v, p, seq, writer) ==
  IF StartsRun(v, p, writer)
    THEN [v EXCEPT !.foreign_before_run[p] = v.last_change_seq[p],
                   !.last_writer[p] = writer,
                   !.last_change_seq[p] = seq]
    ELSE [v EXCEPT !.last_change_seq[p] = seq]

\* RecordChange by the server for each of a set of prims.
RecordServerChanges(v, S, seq) ==
  [v EXCEPT !.foreign_before_run = [p \in Prims |-> IF p \in S THEN v.last_change_seq[p] ELSE @[p]],
            !.last_writer        = [p \in Prims |-> IF p \in S THEN Server ELSE @[p]],
            !.last_change_seq    = [p \in Prims |-> IF p \in S THEN seq ELSE @[p]]]

RecordSent(v, c, seq) == [v EXCEPT !.max_sent_seq[c] = Larger(@, seq)]

RecordCorrection(v, c, p, seq) ==
  [v EXCEPT !.max_sent_seq[c] = Larger(@, seq), !.correction_seq[c][p] = seq]

LatestForeign(v, c, p) ==
  IF v.last_writer[p] = c THEN v.foreign_before_run[p] ELSE v.last_change_seq[p]

CheckUpdate(v, c, p, base) ==
  IF base > v.max_sent_seq[c] THEN "InvalidBase"
  ELSE IF base < Larger(LatestForeign(v, c, p), v.correction_seq[c][p]) THEN "Stale"
  ELSE "Current"
=============================================================================
