---------------------------- MODULE FileServing ----------------------------
(***************************************************************************)
(* The USD files under the uploads directory and their thumbnails: uploads *)
(* and downloads (FileServingController), commits of sessions              *)
(* (StageCommitter), and the thread that makes thumbnails (ThumbnailWorker *)
(* with its generators), all on one file system.  The process may be       *)
(* killed between any two steps and started again.                         *)
(***************************************************************************)
EXTENDS FileSystem, Sequences, FiniteSets, Functions, TLC

CONSTANTS
  Names,              \* the USD files
  Stem,               \* name -> its stem: the name without the extension
  Packages,           \* the names of .usdz packages
  Existing,           \* the files that were there before the server
  Uploads, Commits,   \* requests, each made at most once
  Downloads,          \* readers
  Imaging,            \* whether thumbnails are rendered
  MaxSessions,        \* bound: how many files are open in sessions at a time
  MaxCrashes          \* bound: how often the process is killed

ASSUME FilesAssumption ==
  /\ Existing \subseteq Names /\ Packages \subseteq Names /\ Names # {} /\ DOMAIN Stem = Names

VARIABLES
  fs,                 \* the file system
  sessions,           \* names that sessions are open on
  memory,             \* name -> version of the layer in memory, if somebody has it open
  reload,             \* names with a reload command that is not handled yet
  upload, commit, download,      \* requests -> how far they are ("over": answered)
  queue, worker,      \* of the thumbnail thread
  running, crashes,
  overlapped,         \* history: names that two uploads were writing at the same time
  behind,             \* history: names whose sessions were not told of a replacement, or
                      \* could not follow it
  shown               \* history: stem -> the name whose thumbnail was queued last, unless it
                      \* could not be made of the file

stage   == <<sessions, memory, reload, behind>>
thumbs  == <<queue, worker, shown>>
process == <<running, crashes>>
vars    == <<fs, stage, upload, commit, download, overlapped, thumbs, process>>

Stems == Range(Stem)

\* The temporary files are beside the file; the thumbnails, and their temporary files,
\* are named after the stem.
File(n)   == <<n, "file">>
Part(n)   == <<n, "part">>
CTemp(n)  == <<n, "commit">>
CDir(n)   == <<n, "dir">>
Thumb(n)  == <<Stem[n], "thumb">>
TTemp(n)  == <<Stem[n], "tmp">>
Paths == Names \X {"file", "part", "commit", "dir"} \cup Stems \X {"thumb", "tmp"}

\* The files that can come to exist, each named after what creates it, and the
\* version that was there before the server.
Uploaded(u)  == <<u, "upload">>
Committed(c) == <<c, "merged">>
Files ==
  {File(n) : n \in Existing} \cup {CDir(n) : n \in Packages} \cup Stems \X {"thumb", "tmp"}
    \cup Uploads \X {"upload"} \cup Commits \X {"merged"}
Installed == "installed"

\* The bytes an unnoticed error has cut off.
Lost == "lost"

\* The version of a layer nobody has open.
Closed == "closed"

Idle == [at |-> "idle", name |-> "none", source |-> "none"]

Init ==
  /\ fs = [link |-> [p \in Paths |-> IF p[2] = "file" /\ p[1] \in Existing THEN p ELSE Absent],
           data |-> [f \in Files |-> IF f \in {File(n) : n \in Existing}
                                      THEN <<Installed, Installed>> ELSE Nothing],
           held |-> {}]
  /\ sessions = {} /\ memory = [n \in Names |-> Closed] /\ reload = {} /\ behind = {}
  /\ upload = [u \in Uploads |-> [at |-> "new"]] /\ overlapped = {}
  /\ commit = [c \in Commits |-> [at |-> "new"]]
  /\ download = [d \in Downloads |-> [at |-> "new"]]
  /\ queue = <<>> /\ worker = Idle
  /\ shown = [s \in Stems |-> "none"]
  /\ running = TRUE /\ crashes = 0

Waiting == {"new", "over"}

Underway(u) == upload[u].at \notin Waiting

\* The version of a file on disk.
OnDisk(n) == Content(fs, File(n))[1]
-----------------------------------------------------------------------------
(* UploadFile. *)

Step(u, r) == upload' = [upload EXCEPT ![u] = r]

Fails(u) == Step(u, [at |-> "over"])

UploadFrame == UNCHANGED <<sessions, memory, commit, download, worker, process>>

\* The uploads that write to the temporary file of a name, and have not renamed it yet.
Writing(n) ==
  {u \in Uploads : upload[u].at \in {"open", "half", "written"} /\ upload[u].name = n}

\* The request is valid or not; the file may exist only if it is to be overwritten;
\* its directory can be made or not.
UploadBegin(u, n, overwrite) ==
  /\ running /\ upload[u].at = "new"
  /\ LET existed == Exists(fs, File(n))
     IN  \/ Fails(u)
         \/ /\ existed => overwrite
            /\ Step(u, [at |-> "checked", name |-> n, asks |-> existed /\ overwrite])
  /\ UNCHANGED <<fs, reload, behind, queue, shown, overlapped>> /\ UploadFrame

\* Faulty: writes to the file itself.
UploadOpen_InPlace(u) ==
  /\ upload[u].at = "checked"
  /\ LET path == File(upload[u].name)
     IN  /\ fs' = OpenTrunc(fs, path, Uploaded(u))
         /\ Step(u, [at |-> "open", handle |-> Handle(fs, path, Uploaded(u))] @@ upload[u])
  /\ UNCHANGED <<reload, behind, queue, shown, overlapped>> /\ UploadFrame

UploadOpen(u) ==
  /\ upload[u].at = "checked"
  /\ LET n    == upload[u].name
         path == Part(n)
     IN  \/ /\ fs' = OpenTrunc(fs, path, Uploaded(u))
            /\ Step(u, [at |-> "open", handle |-> Handle(fs, path, Uploaded(u))] @@ upload[u])
            /\ overlapped' = IF Writing(n) = {} THEN overlapped ELSE overlapped \cup {n}
         \/ Fails(u) /\ UNCHANGED <<fs, overlapped>>
  /\ UNCHANGED <<reload, behind, queue, shown>> /\ UploadFrame

\* The bytes are written, in two halves.  An error is noticed and the temporary
\* file removed, unless it comes when the stream is closed and the last bytes leave it.
UploadWrite(u) ==
  /\ upload[u].at \in {"open", "half"}
  /\ LET half == IF upload[u].at = "open" THEN 1 ELSE 2
         next == IF half = 1 THEN "half" ELSE "written"
     IN  \/ /\ fs' = WriteHalf(fs, upload[u].handle, half, u)
            /\ Step(u, [upload[u] EXCEPT !.at = next])
         \/ fs' = Remove(fs, Part(upload[u].name)) /\ Fails(u)
         \/ /\ half = 2 /\ fs' = WriteHalf(fs, upload[u].handle, half, Lost)
            /\ Step(u, [upload[u] EXCEPT !.at = next])
  /\ UNCHANGED <<reload, behind, queue, shown, overlapped>> /\ UploadFrame

\* Faulty: leaves the temporary file when it cannot be renamed.
UploadRename_Leaves(u) ==
  /\ upload[u].at = "written" /\ Fails(u)
  /\ UNCHANGED <<fs, reload, behind, queue, shown, overlapped>> /\ UploadFrame

\* The rename fails when the temporary file is gone, and may fail otherwise.
UploadRename(u) ==
  /\ upload[u].at = "written"
  /\ LET n == upload[u].name
     IN  \/ /\ Exists(fs, Part(n)) /\ fs' = Rename(fs, Part(n), File(n))
            /\ Step(u, [at |-> "renamed", name |-> n, asks |-> upload[u].asks])
         \/ fs' = Remove(fs, Part(n)) /\ Fails(u)
  /\ UNCHANGED <<reload, behind, queue, shown, overlapped>> /\ UploadFrame

\* Faulty: the sessions are not told.
UploadReload_Silent(u) == UNCHANGED <<reload, behind>>

\* Live sessions are asked to reload, if the file had been there when the request was
\* looked at.  The reload does not reach a session that is closing, whose queue is full,
\* that is only being created, or that was opened under another spelling of the name.
UploadReload(u) ==
  LET n == upload[u].name
  IN  \/ upload[u].asks /\ n \in sessions /\ reload' = reload \cup {n} /\ UNCHANGED behind
      \/ /\ UNCHANGED reload
         /\ behind' = IF n \in sessions /\ memory[n] # OnDisk(n) THEN behind \cup {n} ELSE behind

\* Faulty: queues the thumbnail twice.
UploadThumbnail_Twice(u) ==
  queue' = queue \o <<upload[u].name, upload[u].name>> /\ UNCHANGED shown

Shows(n, name) == shown' = [shown EXCEPT ![Stem[n]] = name]

\* The thumbnail is queued, unless its directory cannot be made.
UploadThumbnail(u) ==
  LET n == upload[u].name
  IN  \/ queue' = Append(queue, n) /\ Shows(n, n)
      \/ UNCHANGED queue /\ Shows(n, "none")

\* What follows the rename only adds to two queues, and is one step.
UploadAnswer(u) ==
  /\ upload[u].at = "renamed" /\ Step(u, [at |-> "over"])
  /\ UploadReload(u) /\ UploadThumbnail(u)
  /\ UNCHANGED <<fs, overlapped>> /\ UploadFrame
-----------------------------------------------------------------------------
(* ServeFile: opens the file, then reads it. *)

Holders(file) ==
  {d \in Downloads : download[d].at = "open" /\ download[d].handle = file}

\* The reader may come again; without a file it is answered at once.
Download(d) ==
  /\ \/ /\ running /\ download[d].at = "new"
        /\ \E n \in Names :
             LET path == File(n)
             IN  /\ Exists(fs, path) /\ fs' = Hold(fs, fs.link[path])
                 /\ download' = [download EXCEPT ![d] =
                      [at |-> "open", name |-> n, handle |-> fs.link[path], was |-> Content(fs, path)]]
     \/ /\ download[d].at = "open" /\ download' = [download EXCEPT ![d] = [at |-> "new"]]
        /\ LET h == download[d].handle
           IN  fs' = IF Holders(h) = {d} THEN Close(fs, h) ELSE fs
  /\ UNCHANGED <<stage, upload, commit, overlapped, thumbs, process>>
-----------------------------------------------------------------------------
(* StageCommitter, on the session's consumer; the mutex lets one commit in. *)

Committing == \E c \in Commits : commit[c].at \notin Waiting

Goes(c, r) == commit' = [commit EXCEPT ![c] = r]

CommitFrame == UNCHANGED <<sessions, upload, download, overlapped, thumbs, process>>

CommitsOn(n) == {c \in Commits : commit[c].at \notin Waiting /\ commit[c].name = n}

\* The thumbnail thread has the layer open from its rendering to the end of the job.
DrawnFrom(n) == worker.at \in {"rendered", "placeholder"} /\ worker.name = n

\* Create: the layer registry hands out the layer that is open already, be it older than
\* the file, or it is read.
OpenSession(n) ==
  /\ running /\ n \notin sessions /\ Exists(fs, File(n))
  /\ Cardinality(sessions) < MaxSessions
  /\ LET layer == IF memory[n] = Closed THEN OnDisk(n) ELSE memory[n]
     IN  /\ layer # Missing /\ memory' = [memory EXCEPT ![n] = layer]
         /\ behind' = IF layer = OnDisk(n) THEN behind ELSE behind \cup {n}
  /\ sessions' = sessions \cup {n}
  /\ UNCHANGED <<fs, reload, upload, commit, download, overlapped, thumbs, process>>

\* The last session on the file is torn down, its commands having been handled.
CloseSession(n) ==
  /\ n \in sessions \ reload /\ CommitsOn(n) = {}
  /\ sessions' = sessions \ {n} /\ behind' = behind \ {n}
  /\ memory' = IF DrawnFrom(n) THEN memory ELSE [memory EXCEPT ![n] = Closed]
  /\ UNCHANGED <<fs, reload, upload, commit, download, overlapped, thumbs, process>>

\* The early returns: the guard removes the directory, and once the temporary file
\* is begun it is removed too.
GivesUp(c, begun) ==
  LET n == commit[c].name
  IN  /\ fs' = Remove(IF begun THEN Remove(fs, CTemp(n)) ELSE fs, CDir(n))
      /\ Goes(c, [at |-> "over"])

\* The layers are flattened, and what an earlier attempt left is removed; a package
\* gets a new directory.
CommitBegin(c, n) ==
  /\ running /\ commit[c].at = "new" /\ ~Committing
  /\ \/ /\ n \notin Packages /\ fs' = Remove(fs, CTemp(n))
        /\ Goes(c, [at |-> "export", name |-> n, assets |-> c])
     \/ /\ n \in Packages /\ fs' = [fs EXCEPT !.link[CDir(n)] = CDir(n)]
        /\ Goes(c, [at |-> "extract", name |-> n])
     \/ Goes(c, [at |-> "over"]) /\ UNCHANGED fs
  /\ UNCHANGED <<memory, reload, behind>> /\ CommitFrame

\* The entries of the package as it is on disk now go to the directory.  That they
\* were written is not looked at.
CommitExtract(c) ==
  /\ commit[c].at = "extract"
  /\ LET n == commit[c].name
         extracted(assets) == /\ Goes(c, [at |-> "export", name |-> n, assets |-> assets])
                              /\ UNCHANGED fs
     IN  \/ extracted(Content(fs, File(n))[2])
         \/ extracted(Lost)
         \/ GivesUp(c, FALSE)
  /\ UNCHANGED <<memory, reload, behind>> /\ CommitFrame

\* Faulty: exports over the original instead of beside it.
CommitExport_InPlace(c) ==
  /\ commit[c].at \in {"export", "rest"}
  /\ LET path  == File(commit[c].name)
         fresh == Committed(c)
     IN  \/ /\ commit[c].at = "export"
            /\ fs' = WriteHalf(OpenTrunc(fs, path, fresh), Handle(fs, path, fresh), 1, c)
            /\ Goes(c, [commit[c] EXCEPT !.at = "rest"])
         \/ /\ commit[c].at = "rest"
            /\ fs' = WriteHalf(fs, fs.link[path], 2, commit[c].assets)
            /\ Goes(c, [at |-> "over"])
  /\ UNCHANGED <<memory, reload, behind>> /\ CommitFrame

\* The merged layer, or the archive with it as first entry, is written to the
\* temporary file.
CommitExport(c) ==
  /\ commit[c].at \in {"export", "rest"}
  /\ LET path  == CTemp(commit[c].name)
         fresh == Committed(c)
     IN  \/ /\ commit[c].at = "export"
            /\ fs' = WriteHalf(OpenTrunc(fs, path, fresh), Handle(fs, path, fresh), 1, c)
            /\ Goes(c, [commit[c] EXCEPT !.at = "rest"])
         \/ /\ commit[c].at = "rest"
            /\ fs' = WriteHalf(fs, fs.link[path], 2, commit[c].assets)
            /\ Goes(c, [at |-> "exported", name |-> commit[c].name])
         \/ commit[c].at = "export" /\ GivesUp(c, FALSE)
         \/ commit[c].at = "rest" /\ GivesUp(c, TRUE)
  /\ UNCHANGED <<memory, reload, behind>> /\ CommitFrame

CommitRename(c) ==
  /\ commit[c].at = "exported"
  /\ LET n == commit[c].name
     IN  \/ /\ fs' = Remove(Rename(fs, CTemp(n), File(n)), CDir(n))
            /\ Goes(c, [at |-> "renamed", name |-> n])
         \/ GivesUp(c, TRUE)
  /\ UNCHANGED <<memory, reload, behind>> /\ CommitFrame

\* A successful commit reloads the root layer, and a reload command does the same.  A
\* reload may fail, which is only logged, and a commit at the teardown of a session does
\* without.
Reload(n) ==
  /\ \/ \E c \in Commits : /\ commit[c].at = "renamed" /\ commit[c].name = n
                           /\ Goes(c, [at |-> "over"]) /\ UNCHANGED reload
     \/ /\ n \in reload /\ reload' = reload \ {n} /\ CommitsOn(n) = {} /\ UNCHANGED commit
  /\ \E layer \in {memory[n], OnDisk(n)} \ {Missing} :
       /\ memory' = [memory EXCEPT ![n] = layer]
       /\ behind' = IF layer = OnDisk(n) THEN behind \ {n} ELSE behind \cup {n}
  /\ UNCHANGED fs /\ CommitFrame
-----------------------------------------------------------------------------
(* ThumbnailWorker::Run, and Generate of its generators. *)

WorkerFrame ==
  UNCHANGED <<sessions, reload, behind, upload, commit, download, overlapped, process>>

\* The stage is opened: a root layer that is in memory is not read again, although the
\* file may be newer.  The frame goes to a temporary file; without imaging, or when
\* anything fails, a placeholder is painted.
Render(n) ==
  LET seen == IF memory[n] = Closed THEN OnDisk(n) ELSE memory[n]
  IN  /\ memory' = IF seen = Missing THEN memory ELSE [memory EXCEPT ![n] = seen]
      /\ Shows(n, IF seen = OnDisk(n) THEN n ELSE "none")
      /\ \/ /\ Imaging /\ seen # Missing
            /\ fs' = WriteWhole(fs, TTemp(n), TTemp(n), <<seen, seen>>)
            /\ worker' = [at |-> "rendered", name |-> n, source |-> seen]
         \/ /\ worker' = [at |-> "placeholder", name |-> n, source |-> seen]
            /\ fs' = Remove(fs, TTemp(n))

Leave == worker' = [Idle EXCEPT !.at = "exited"] /\ UNCHANGED <<fs, memory, queue, shown>>

\* Faulty: leaves as soon as it is told to stop.
TakeJob_Leaves ==
  /\ worker.at = "idle" /\ WorkerFrame
  /\ \/ running /\ queue # <<>> /\ queue' = Tail(queue) /\ Render(Head(queue))
     \/ ~running /\ Leave

\* The thread leaves when it is told to stop and its queue is empty.
TakeJob ==
  /\ worker.at = "idle" /\ WorkerFrame
  /\ \/ queue # <<>> /\ queue' = Tail(queue) /\ Render(Head(queue))
     \/ ~running /\ queue = <<>> /\ Leave

\* The end of a job: the worker lets go of the layer.
JobDone ==
  /\ worker' = Idle
  /\ memory' = IF worker.name \in sessions THEN memory ELSE [memory EXCEPT ![worker.name] = Closed]

\* The placeholder is written in place; the thumbnail is then whole, or cut short, or it
\* stays what it was.
Painted(disk, n) ==
  \/ /\ fs' = WriteWhole(disk, Thumb(n), Thumb(n), <<worker.source, worker.source>>)
     /\ UNCHANGED shown
  \/ fs' \in {disk, OpenTrunc(disk, Thumb(n), Thumb(n))} /\ Shows(n, "none")

\* The frame is moved into place, or else copied, which comes to the same as nobody has
\* a thumbnail open; when that fails too, a placeholder takes its place.  The temporary
\* file goes in any case.
Publish ==
  /\ worker.at = "rendered" /\ JobDone /\ UNCHANGED queue /\ WorkerFrame
  /\ LET n    == worker.name
         copy == WriteWhole(fs, Thumb(n), Thumb(n), Content(fs, TTemp(n)))
     IN  \/ fs' = Remove(copy, TTemp(n)) /\ UNCHANGED shown
         \/ Painted(Remove(fs, TTemp(n)), n)

Placeholder ==
  /\ worker.at = "placeholder" /\ JobDone /\ UNCHANGED queue /\ WorkerFrame
  /\ Painted(fs, worker.name)
-----------------------------------------------------------------------------
(* The end of the process, in order or not. *)

Busy == Committing \/ (\E u \in Uploads : Underway(u))
                   \/ \E d \in Downloads : download[d].at \notin Waiting

\* The server has stopped and the worker is told to.
Shutdown ==
  /\ running /\ ~Busy /\ reload = {} /\ running' = FALSE
  /\ UNCHANGED <<fs, stage, upload, commit, download, overlapped, thumbs, crashes>>

Dropped(requests) == [r \in DOMAIN requests |->
                     IF requests[r].at \in Waiting THEN requests[r] ELSE [at |-> "over"]]

\* The process is killed and started again: the disk is all that is left.
Crash ==
  /\ crashes < MaxCrashes /\ worker.at # "exited" /\ crashes' = crashes + 1
  /\ upload' = Dropped(upload) /\ commit' = Dropped(commit) /\ download' = [d \in Downloads |-> [at |-> "new"]]
  /\ sessions' = {} /\ memory' = [n \in Names |-> Closed] /\ reload' = {} /\ behind' = {}
  /\ queue' = <<>> /\ worker' = Idle /\ running' = TRUE
  /\ fs' = CloseAll(fs) /\ shown' = [s \in Stems |-> "none"] /\ UNCHANGED overlapped

Upload(u) == UploadOpen(u) \/ UploadWrite(u) \/ UploadRename(u)
             \/ UploadAnswer(u)

Commit(c) == CommitExtract(c) \/ CommitExport(c) \/ CommitRename(c)

Worker == TakeJob \/ Publish \/ Placeholder

Next ==
  \/ \E u \in Uploads, n \in Names, overwrite \in BOOLEAN : UploadBegin(u, n, overwrite)
  \/ \E u \in Uploads : Upload(u)
  \/ \E n \in Names : OpenSession(n) \/ CloseSession(n) \/ Reload(n)
  \/ \E c \in Commits, n \in sessions : CommitBegin(c, n)
  \/ \E c \in Commits : Commit(c)
  \/ \E d \in Downloads : Download(d)
  \/ Worker \/ Shutdown \/ Crash

Spec == Init /\ [][Next]_vars
-----------------------------------------------------------------------------
Versions == {Installed, Missing, Lost} \cup Uploads \cup Commits

TypeOK ==
  /\ fs.link \in [Paths -> Files \cup {Absent}]
  /\ fs.data \in [Files -> Versions \X Versions]
  /\ fs.held \subseteq Files
  /\ sessions \subseteq Names /\ reload \subseteq sessions /\ behind \subseteq sessions
  /\ memory \in [Names -> (Versions \ {Missing, Lost}) \cup {Closed}]
  /\ \A n \in Names : memory[n] # Closed => n \in sessions \/ DrawnFrom(n)
  /\ overlapped \subseteq Names
  /\ shown \in [Stems -> Names \cup {"none"}]
  /\ queue \in Seq(Names) /\ Len(queue) <= Cardinality(Uploads)
  /\ running \in BOOLEAN /\ crashes \in 0 .. MaxCrashes

Whole(n, content) ==
  /\ content[1] # Missing /\ content[2] # Missing
  /\ n \notin Packages => content[2] \in {content[1], Lost}

OnDiskWhole(n) == Exists(fs, File(n)) => Whole(n, Content(fs, File(n)))

\* A USD file on disk is whole at every instant, so also after a crash: an upload or
\* a commit that fails or is cut short never truncates or removes the file it was to
\* replace (CommitFlat: "so a failed/partial export can never truncate the source").
\* The exceptions are the errors nobody looks for: when the stream of an upload is
\* closed, and when the entries of a package are extracted; and a file that two
\* uploads were writing at the same time.
TargetWhole ==
  /\ \A n \in Names \ overlapped : OnDiskWhole(n)
  /\ \A n \in Existing : Exists(fs, File(n))

\* What UploadFile says of every file it writes ("Write atomically"), also when two
\* uploads write one at the same time.
WrittenAtomically == \A n \in Names : OnDiskWhole(n)

\* What a download reads is the file as it was when it was opened, whatever uploads and
\* commits replace it meanwhile, unless two uploads wrote that file at the same time.
ReadsOneVersion ==
  \A d \in Downloads :
    download[d].at = "open" /\ download[d].name \notin overlapped
      => fs.data[download[d].handle] = download[d].was

\* An upload that found a file to replace had asked to overwrite: what UploadFile looked
\* at before writing still holds when it renames.
ReplacementNoticed ==
  [][\A u \in Uploads : upload[u].at = "written" /\ upload'[u].at = "renamed"
       /\ Exists(fs, File(upload[u].name)) => upload[u].asks]_vars

\* Once uploads, commits and reloads are through, the root layer of every session is
\* the file on disk, in whatever order uploads and commits renamed and reloaded, and
\* whenever sessions were opened; but for sessions that a reload did not reach, whose
\* last reload failed, or that began with a layer the thumbnail thread still had open.
SessionsFollow ==
  ~Busy /\ reload = {} => \A n \in sessions \ (behind \cup overlapped) : memory[n] = OnDisk(n)

Resting == ~Busy /\ worker.at \in {"idle", "exited"}

\* No failure leaves a temporary file or directory behind; only a crash does.
NoLitter ==
  Resting /\ crashes = 0 =>
    \A n \in Names : \A p \in {Part(n), CTemp(n), CDir(n), TTemp(n)} : ~Exists(fs, p)

\* When the worker has nothing to do, and also when it has left at a shutdown, a
\* thumbnail shows, of the files that share its stem, the one that was queued last, as
\* it is on disk; unless the file was committed since (a commit makes no thumbnail), or
\* the attempt failed, or a root layer in memory was drawn that was not the file.
ThumbnailCurrent ==
  Resting /\ (queue = <<>> \/ worker.at = "exited") =>
    \A n \in Names \ overlapped :
      shown[Stem[n]] = n /\ OnDisk(n) \in Uploads
        => Content(fs, Thumb(n)) = <<OnDisk(n), OnDisk(n)>>
=============================================================================
