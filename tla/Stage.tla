------------------------------- MODULE Stage -------------------------------
(***************************************************************************)
(* The composed stage of a session: the root layer, read from the USD file *)
(* on disk, under the session layer that holds every edit of a client.     *)
(* A prim's opinions on the session layer are a record; the operators are  *)
(* the authoring and reading functions of TransformDispatcher and          *)
(* PrimDispatcher.  USD itself is external: composition is the rule that a *)
(* session-layer opinion wins over one of the root layer.                  *)
(***************************************************************************)
EXTENDS Naturals

CONSTANTS None,          \* no opinion
          Identity       \* the transform of a prim that authors none

\* What the session layer says of a prim: whether it defines it, its active
\* flag, the values of the separate ops and of the matrix op, and the op order.
NoSpec == [def |-> FALSE, active |-> None, separate |-> None, matrix |-> None, order |-> None]

\* ApplySeparate and ApplyMatrix rewrite the op order and set their own ops.
\* The ops of the other shape stay authored.
Apply(spec, shape, value) ==
  IF shape = "separate" THEN [spec EXCEPT !.order = "separate", !.separate = value]
                        ELSE [spec EXCEPT !.order = "matrix", !.matrix = value]

\* The local transform the stage composes: the ops the order lists.
ResolvedTransform(spec, rootValue) ==
  CASE spec.order = "separate" -> spec.separate
    [] spec.order = "matrix"   -> spec.matrix
    [] OTHER                   -> rootValue

\* What the join snapshot reads from the session layer: the matrix op if there
\* is one, whatever the op order says.
ReadAuthoredLocalTransform(spec) == IF spec.matrix # None THEN spec.matrix ELSE spec.separate

\* Some op or the op order is authored on the session layer.
HasXformOverride(spec) == spec.order # None \/ spec.separate # None \/ spec.matrix # None

IsActive(spec, rootActive) == IF spec.active # None THEN spec.active ELSE rootActive

DefinePrim(spec) == [spec EXCEPT !.def = TRUE]

SetActive(spec, active) == [spec EXCEPT !.active = active]
=============================================================================
