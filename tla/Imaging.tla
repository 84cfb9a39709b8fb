------------------------------ MODULE Imaging ------------------------------
(***************************************************************************)
(* UsdImagingThumbnailGenerator: the off-screen GL context a preview is    *)
(* rendered in, with EGL or with OSMesa, what is acquired and released on  *)
(* the way, and the camera.  `fails' is the set of calls that fail.  What  *)
(* is done is a sequence of things made and dropped.                       *)
(***************************************************************************)
EXTENDS Integers, Sequences, SequencesExt

Makes(what) == [does |-> "make", what |-> what]
Drops(what) == [does |-> "drop", what |-> what]

MakesAll(things) == [i \in DOMAIN things |-> Makes(things[i])]
DropsAll(things) == [i \in DOMAIN things |-> Drops(things[i])]

\* The calls up to the first one that fails.
Succeeding(calls, fails) ==
  LET bad == {i \in DOMAIN calls : calls[i] \in fails}
  IN  IF bad = {} THEN calls ELSE SubSeq(calls, 1, Min(bad) - 1)

\* The displays that are asked for, in this order, until there is one.
EglPlatforms(fails) ==
  IF "platforms" \in fails THEN <<"default">>
  ELSE <<"surfaceless">> \o (IF "devices" \in fails THEN <<>> ELSE <<"device 1", "device 2">>)
         \o <<"default">>

EglCalls == <<"display", "bind", "config", "surface", "context", "current">>

\* What the constructor has made when it returns, and whether there was no error.
EglContext(fails) ==
  LET display == \E i \in DOMAIN EglPlatforms(fails) : EglPlatforms(fails)[i] \notin fails
      done    == Succeeding(EglCalls, fails)
      owned   == SelectSeq(done, LAMBDA c : c \notin {"bind", "config"})
  IN  [owns |-> IF display THEN owned ELSE <<>>, valid |-> display /\ done = EglCalls]

\* Faulty: releases nothing when the constructor has not come to its end.
EglRelease_Valid(egl) ==
  IF egl.valid THEN DropsAll(<<"current", "context", "surface", "display">>) ELSE <<>>

\* The destructor: the context is taken off the thread before it is destroyed, and the
\* display goes last.
EglRelease(egl) ==
  DropsAll(SelectSeq(<<"current", "context", "surface", "display">>, LAMBDA r : Contains(egl.owns, r)))

\* The pixels, the library under one of its names, its entry points, the context.
OsMesaContext(fails) ==
  LET library == ~({"lib.so.8", "lib.so"} \subseteq fails)
      done    == Succeeding(<<"entries", "context", "current">>, fails)
      owned   == SelectSeq(done, LAMBDA c : c # "entries")
  IN  [owns |-> <<"pixels">> \o (IF library THEN <<"library">> \o owned ELSE <<>>),
       valid |-> library /\ Len(done) = 3]

\* The destructor: the context is destroyed while it is current, and the library closed;
\* nothing takes the context off the thread.  The pixels go last, as a member.
OsMesaRelease(gl) ==
  DropsAll(SelectSeq(<<"context", "library", "pixels">>, LAMBDA r : Contains(gl.owns, r)))

\* Generate: everything it makes and drops, and what the thumbnail is in the end.  A
\* call that throws is one that fails: the locals are destroyed in the same order.
Generate(build, fails) ==
  LET gl       == IF build = "egl" THEN EglContext(fails) ELSE OsMesaContext(fails)
      opened   == gl.valid /\ "open" \notin fails
      filmed   == opened /\ "camera" \notin fails
      recorded == filmed /\ "record" \notin fails
      moved    == recorded /\ ~({"rename", "copy"} \subseteq fails)
      stage    == IF opened THEN <<"stage">> ELSE <<>>
      recorder == IF filmed THEN <<"recorder">> ELSE <<>>
  IN  [calls |-> MakesAll(gl.owns \o stage \o recorder) \o DropsAll(recorder \o stage)
                   \o (IF build = "egl" THEN EglRelease(gl) ELSE OsMesaRelease(gl)),
       shows |-> IF moved THEN "frame" ELSE IF "placeholder" \in fails THEN "nothing" ELSE "placeholder"]
-----------------------------------------------------------------------------
(* The camera.  Lengths are in units of 1/100000. *)

Unit    == 100000
Nearest == 100        \* 0.001

kFit == 115           \* percent
Tan  == 414           \* 1000 tan(22.5 degrees)

FindAuthoredCamera(prims) == SelectSeq(prims, LAMBDA p : p = "camera")

\* How far from the middle of the bounds the camera is, and what it sees between.
\* `half' is half the diagonal of the bounds.
AuthorSyntheticCamera(bounds) ==
  LET radius == IF bounds.empty \/ bounds.half = 0 THEN Unit ELSE bounds.half
      dist   == (radius * kFit * 10) \div Tan
  IN  [radius |-> radius, dist |-> dist, near |-> Max({Nearest, dist - radius * 2}),
       far |-> dist + radius * 2]
=============================================================================
