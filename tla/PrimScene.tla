----------------------------- MODULE PrimScene -----------------------------
(***************************************************************************)
(* The prims of a stage: which of them the layers define, which are        *)
(* active, and what creating, deleting, restoring and committing them      *)
(* does.  A path is the sequence of the names on it, a name the base name  *)
(* with its number.  A layer is a function from the paths it has a spec    *)
(* for; a spec says whether it defines the prim, its type ("" for none),   *)
(* its active flag ("" for no opinion), the attributes of its shape that   *)
(* are authored, and the prims it brings in from elsewhere by reference.   *)
(* USD is external: a stage s has the root layer s.root under the session  *)
(* layer s.session.                                                        *)
(***************************************************************************)
EXTENDS Naturals, FiniteSets, Sequences, SequencesExt, TLC

CONSTANT Gprims             \* the types that derive from UsdGeomGprim

Over == [def |-> FALSE, type |-> "", active |-> "", shape |-> [a \in {} |-> ""], refers |-> {}]

NoLayer == [p \in {} |-> Over]

ParentPath(p) == Front(p)

\* The proper ancestors of a prim, and the prim itself.
Upwards(p) == {SubSeq(p, 1, n) : n \in 1..Len(p)}

Under(p, q) == IsPrefix(q, p)

SpecOf(layer, p) == IF p \in DOMAIN layer THEN layer[p] ELSE Over

\* What references bring in: a prim and its type.
Foreign(root) ==
  UNION {{<<Append(p, r[1]), r[2]>> : r \in root[p].refers} : p \in DOMAIN root}

\* The attributes the schema of a type has; one that is not authored has its fallback.
Attributes(type) ==
  CASE type = "Cube"   -> {"size"}
    [] type = "Sphere" -> {"radius"}
    [] type \in {"Cone", "Cylinder", "Capsule"} -> {"height", "radius", "axis"}
    [] OTHER -> {}

\* The composed prim: the session's opinion is stronger than the root's, which is
\* stronger than a referenced one.
Composed(root, session, foreign, p) ==
  LET above == SpecOf(session, p)
      below == SpecOf(root, p)
      type  == CASE above.type # "" -> above.type
                 [] below.type # "" -> below.type
                 [] OTHER -> IF foreign = {} THEN "" ELSE CHOOSE t \in foreign : TRUE
      shape == above.shape @@ below.shape
  IN  [active |-> IF above.active # "" THEN above.active = "yes" ELSE below.active # "no",
       def    |-> above.def \/ below.def \/ foreign # {},
       local  |-> foreign = {} /\ below.refers = {},
       type   |-> type,
       shape  |-> [a \in Attributes(type) |-> IF a \in DOMAIN shape THEN shape[a] ELSE "fallback"]]

\* A stage keeps the prims it has composed; below an inactive prim there are none.
Stage(root, session) ==
  LET foreign  == Foreign(root)
      authored == DOMAIN root \cup DOMAIN session \cup {f[1] : f \in foreign}
      active(p) == IF SpecOf(session, p).active # "" THEN SpecOf(session, p).active = "yes"
                                                     ELSE SpecOf(root, p).active # "no"
      there    == {p \in authored : \A q \in Upwards(p) \ {p} : q \in authored /\ active(q)}
  IN  [root |-> root, session |-> session,
       prims |-> [p \in there |->
                    Composed(root, session, {f[2] : f \in {f \in foreign : f[1] = p}}, p)]]

\* GetPrimAtPath finds an inactive prim too.
Found(s, p) == p \in DOMAIN s.prims

IsDefined(s, p) == \A q \in Upwards(p) : s.prims[q].def

\* What a reader of the stage sees.
Scene(s) ==
  [p \in {p \in DOMAIN s.prims : s.prims[p].active /\ IsDefined(s, p)} |->
     [type |-> s.prims[p].type, shape |-> s.prims[p].shape]]

\* Authoring on the session layer; a missing spec and those above it become overs.
Author(layer, p, spec) ==
  [q \in DOMAIN layer \cup Upwards(p) |-> IF q = p THEN spec ELSE SpecOf(layer, q)]

\* DefinePrim also defines the ancestors that nothing defines.
DefinePrim(s, p, type) ==
  LET above == {q \in Upwards(p) \ {p} : ~s.prims[q].def}
      layer == Author(s.session, p, [SpecOf(s.session, p) EXCEPT !.def = TRUE, !.type = type])
  IN  [q \in DOMAIN layer |-> IF q \in above THEN [layer[q] EXCEPT !.def = TRUE] ELSE layer[q]]
-----------------------------------------------------------------------------
UsdSchemaType == {"Cube", "Sphere", "Cone", "Cylinder", "Capsule", "Xform"}

IsGprimType(type) == type \in Gprims

HasGprimAncestor(s, p) == \E q \in Upwards(p) : s.prims[q].type \in Gprims

UniqueChildPath(s, parent, base) ==
  LET child(n) == Append(parent, <<base, n>>)
  IN  child(CHOOSE n \in 0..Cardinality(DOMAIN s.prims) :
              ~Found(s, child(n)) /\ \A m \in 0..(n - 1) : Found(s, child(m)))

\* Faulty: a deleted prim accepts children.
MayParent_Deleted(s, parent, type) ==
  /\ parent = <<>> \/ Found(s, parent)
  /\ ~(IsGprimType(type) /\ HasGprimAncestor(s, parent))

\* The checks of PrimDispatcher::Create.
MayParent(s, parent, type) ==
  /\ type \in UsdSchemaType
  /\ parent = <<>> \/ (Found(s, parent) /\ s.prims[parent].active)
  /\ ~(IsGprimType(type) /\ HasGprimAncestor(s, parent))

ReadAttributes(s, p, type) ==
  [a \in (IF Found(s, p) THEN Attributes(type) ELSE {}) |-> s.prims[p].shape[a]]

ReadSchemaDefaults(type) == [a \in Attributes(type) |-> "fallback"]

\* Every opinion is one of the root layer or of the session layer.
IsLocallyDeletable(s, p) == s.prims[p].local

\* SetActive: whether it goes through, and what it answers if it does not.
SetActiveStatus(s, p, active) ==
  CASE ~(Found(s, p) /\ IsDefined(s, p))        -> "unknown_prim"
    [] s.prims[p].active = active               -> "already"
    [] ~active /\ ~IsLocallyDeletable(s, p)     -> "not_deletable"
    [] OTHER                                    -> "ok"

SetActive(s, p, active) ==
  Author(s.session, p, [SpecOf(s.session, p) EXCEPT !.active = IF active THEN "yes" ELSE "no"])
-----------------------------------------------------------------------------
\* UsdUtilsFlattenLayerStack: the session layer over the root layer, references kept.
FlattenLayerStack(s) ==
  [p \in DOMAIN s.root \cup DOMAIN s.session |->
     LET above == SpecOf(s.session, p)
         below == SpecOf(s.root, p)
     IN  [def |-> above.def \/ below.def, refers |-> below.refers,
          shape  |-> above.shape @@ below.shape,
          type   |-> IF above.type # "" THEN above.type ELSE below.type,
          active |-> IF above.active # "" THEN above.active ELSE below.active]]

Deleted(layer) == {p \in DOMAIN layer : layer[p].active = "no"}

Without(layer, S) == [p \in {p \in DOMAIN layer : ~\E q \in S : Under(p, q)} |-> layer[p]]

\* Faulty: also takes away what the file itself has as inactive.
RemoveSoftDeletedPrims_Inactive(s, merged) == Without(merged, Deleted(merged))

RemoveSoftDeletedPrims(s, merged) == Without(merged, Deleted(s.session))

\* What a commit writes into the file.
Commit(s) == RemoveSoftDeletedPrims(s, FlattenLayerStack(s))
-----------------------------------------------------------------------------
CreateFrame(p, type, shape) ==
  [is |-> "create", prim |-> p, spec |-> [Over EXCEPT !.def = TRUE, !.type = type, !.shape = shape]]

ActiveFrame(p, active) == [is |-> "active", prim |-> p, spec |-> [Over EXCEPT !.active = active]]

Creations(layer) == {p \in DOMAIN layer : layer[p].def /\ layer[p].type \in UsdSchemaType}

\* Faulty: a deleted prim need not be created.
SnapshotPrims_Alive(layer) ==
  SetToSortSeq(Creations(layer) \ Deleted(layer), LAMBDA p, q : Len(p) < Len(q))

\* The prims a joiner creates, those higher up first.
SnapshotPrims(layer) == SetToSortSeq(Creations(layer), LAMBDA p, q : Len(p) < Len(q))

Announced(layer, p) == CreateFrame(p, layer[p].type, ReadSchemaDefaults(layer[p].type))

\* The frames of a join snapshot about prims and their active flags.
Snapshot(layer) ==
  LET created == SnapshotPrims(layer)
      deleted == SetToSeq(Deleted(layer))
  IN  [i \in DOMAIN created |-> Announced(layer, created[i])]
        \o [i \in DOMAIN deleted |-> ActiveFrame(deleted[i], "no")]

\* A client has the file it has downloaded and, over it, what the frames say.  It
\* authors them on its layer, also below an inactive prim, and leaves out a frame
\* about a prim, or below a prim, that it has not got.
Receive(s, f) ==
  LET old == SpecOf(s.session, f.prim)
      new == IF f.is = "create" THEN [f.spec EXCEPT !.active = old.active]
                                ELSE [old EXCEPT !.active = f.spec.active]
      on  == IF f.is = "create" THEN ParentPath(f.prim) ELSE f.prim
  IN  IF on \in {<<>>} \cup DOMAIN s.root \cup DOMAIN s.session \cup {g[1] : g \in Foreign(s.root)}
        THEN Stage(s.root, Author(s.session, f.prim, new)) ELSE s

Joined(s) == FoldLeft(Receive, Stage(s.root, NoLayer), Snapshot(s.session))
=============================================================================
