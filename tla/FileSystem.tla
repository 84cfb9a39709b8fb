----------------------------- MODULE FileSystem -----------------------------
(***************************************************************************)
(* The file system under the uploads directory, as far as the server uses  *)
(* it.  A path is linked to a file or to nothing.  A file has two halves,  *)
(* because writing takes time: opening for writing truncates the file a    *)
(* path is linked to, a handle keeps its file when the path is renamed or  *)
(* removed, and a rename replaces its target in one step.                  *)
(***************************************************************************)
EXTENDS Naturals

Absent  == <<"no", "file">>
Missing == "missing"
Nothing == <<Missing, Missing>>

Exists(fs, path) == fs.link[path] # Absent

\* std::ofstream(path, trunc): the handle is the file `path` is linked to, or a
\* fresh one.
Handle(fs, path, fresh) == IF Exists(fs, path) THEN fs.link[path] ELSE fresh

OpenTrunc(fs, path, fresh) ==
  [fs EXCEPT !.link[path] = Handle(fs, path, fresh), !.data[Handle(fs, path, fresh)] = Nothing]

WriteHalf(fs, handle, half, value) == [fs EXCEPT !.data[handle][half] = value]

\* A file that is written from beginning to end with nobody to see it.
WriteWhole(fs, path, fresh, value) ==
  [OpenTrunc(fs, path, fresh) EXCEPT !.data[Handle(fs, path, fresh)] = value]

\* A file lives as long as a path is linked to it or a reader holds it.
Forget(fs, file) ==
  IF file = Absent \/ file \in fs.held \/ \E p \in DOMAIN fs.link : fs.link[p] = file
    THEN fs ELSE [fs EXCEPT !.data[file] = Nothing]

Remove(fs, path) == Forget([fs EXCEPT !.link[path] = Absent], fs.link[path])

Rename(fs, from, to) ==
  Forget([fs EXCEPT !.link[to] = fs.link[from], !.link[from] = Absent], fs.link[to])

Hold(fs, file) == [fs EXCEPT !.held = @ \cup {file}]

Close(fs, file) == Forget([fs EXCEPT !.held = @ \ {file}], file)

\* The process ends: nothing is held any more.
CloseAll(fs) ==
  LET linked == {fs.link[p] : p \in DOMAIN fs.link}
  IN  [fs EXCEPT !.held = {},
                 !.data = [f \in DOMAIN fs.data |-> IF f \in linked THEN fs.data[f] ELSE Nothing]]

Content(fs, path) == IF Exists(fs, path) THEN fs.data[fs.link[path]] ELSE Nothing
=============================================================================
