------------------------------ MODULE Formats ------------------------------
(***************************************************************************)
(* The code of the server that has one actor, each part applied to one     *)
(* input: a path to upload to; the labels and the size of a placeholder    *)
(* picture; the calls that fail while a preview is rendered, and what its  *)
(* camera sees; the pixels of an image; a list of audiences; the settings  *)
(* and the keys a server starts with and a request to it; the settings of  *)
(* a process; a request to create a session; a login with the provider's   *)
(* answer; and the file a session is opened on, with the edits that follow.*)
(***************************************************************************)
EXTENDS UsdFileLocator, ThumbnailImage, Authentication, PrimScene,
        Imaging, Application, Requests

CONSTANTS
  Targets,                  \* of uploads: a directory, a name, and the disk before
  Sizes, MaxLabel,          \* of placeholder pictures and their lines
  Labels,                   \* the stem of a file, its layer, and how much is drawn
  Renders,                  \* how a preview is rendered, and the calls that fail
  Previews,                 \* the prims of a stage and its bounds
  Pixels, MaxSide,          \* of images
  Fields,                   \* of a list of audiences: a name with the blanks around it
  Processes,                \* the settings a process starts with
  Bodies,                   \* a request to create a session, and the disk
  Logins,                   \* a request to log in, and the provider's answer
  Servers,                  \* settings, keys and a request
  Files,                    \* a session's file, its replacement, how many prims of
                            \* which types are created, how many are deleted and how
                            \* many reloads fail
  MaxDepth                  \* bound: depth of a prim that is created

VARIABLE input, output

vars == <<input, output>>

None == [of |-> "none"]

Init ==
  /\ output = None
  /\ \/ input \in [of : {"path"}, is : Targets]
     \/ input \in [of : {"picture"}, size : Sizes, n1 : 0..MaxLabel, n2 : 0..MaxLabel]
     \/ input \in [of : {"label"}, is : Labels]
     \/ input \in [of : {"render"}, is : Renders]
     \/ input \in [of : {"camera"}, is : Previews]
     \/ \E w, h \in 1..MaxSide :
          input \in [of : {"image"}, width : {w}, pixels : [1..h -> [1..w -> Pixels]]]
     \/ \E n \in 0..3 : input \in [of : {"audiences"}, fields : [1..n -> Fields]]
     \/ input \in [of : {"process"}, is : Processes]
     \/ input \in [of : {"session"}, is : Bodies]
     \/ input \in [of : {"login"}, is : Logins]
     \/ input \in [of : {"server"}, is : Servers]
     \/ input \in [of : {"scene"}, is : Files]

\* An upload is accepted and the file is there: what it is called, where downloads
\* and thumbnails look for it under that name, and how it is listed.
Upload ==
  /\ input.of = "path" /\ output = None /\ UNCHANGED input
  /\ LET v      == ValidateUploadTarget(input.is.dir, input.is.name)
         file   == Normal(v.relative)
         thumb  == ThumbnailOfUpload(v.relative)
         made   == EnsureDirectoryInsideRoot(input.is.disk, Front(file))
         thumbs == EnsureDirectoryInsideRoot(input.is.disk, Front(thumb))
         disk   == [input.is.disk EXCEPT !.files = {file} \cup (IF thumbs = "Ok" THEN {thumb} ELSE {})]
     IN  output' = IF v.status # "Ok" THEN v
           ELSE IF made # "Ok" THEN Refused(made)
           ELSE [status |-> "Ok", relative |-> v.relative, file |-> file, disk |-> disk,
                 thumbnail |-> IF thumbs = "Ok" THEN thumb ELSE <<>>]

Paint ==
  /\ input.of = "picture" /\ output = None /\ UNCHANGED input
  /\ output' = [border |-> Border(input.size), layout |-> Layout(input.size, input.n1, input.n2),
                lines |-> Lines(input.size, input.n1, input.n2)]

Label ==
  /\ input.of = "label" /\ output = None /\ UNCHANGED input
  /\ output' = [stem  |-> PrepareLabel(input.is.stem, input.is.max),
                label |-> PrepareLabel(DescribeUsdFile(input.is.layer), input.is.max)]

Render ==
  /\ input.of = "render" /\ output = None /\ UNCHANGED input
  /\ output' = Generate(input.is.build, input.is.fails)

Preview ==
  /\ input.of = "camera" /\ output = None /\ UNCHANGED input
  /\ output' = IF FindAuthoredCamera(input.is.prims) # <<>> THEN [authored |-> TRUE]
               ELSE [authored |-> FALSE, camera |-> AuthorSyntheticCamera(input.is.bounds)]

Rows == [y \in 1..Len(input.pixels) |-> FlattenSeq(input.pixels[y])]

\* Write: `todo' are the chunks that are not in the file yet; `crc' is the CRC of the
\* first i bytes of the first of them, `serial' what it should be.
Encode ==
  /\ input.of = "image" /\ output = None /\ UNCHANGED input
  /\ output' = [file |-> Signature, todo |-> Chunks(input.width, Rows), i |-> 0,
                crc |-> AllOnes, serial |-> AllOnes]

Encoding == input.of = "image" /\ output # None

Crc32 ==
  /\ Encoding /\ output.todo # <<>> /\ output.i < Len(Head(output.todo)) /\ UNCHANGED input
  /\ LET byte == Head(output.todo)[output.i + 1]
     IN  output' = [output EXCEPT !.i = @ + 1, !.crc = TableStep(@, byte),
                                  !.serial = SerialStep(@, byte)]

WriteChunk ==
  /\ Encoding /\ output.todo # <<>> /\ output.i = Len(Head(output.todo)) /\ UNCHANGED input
  /\ output' = [file |-> output.file \o Chunk(Head(output.todo), output.crc),
                todo |-> Tail(output.todo), i |-> 0, crc |-> AllOnes, serial |-> AllOnes]

Split ==
  /\ input.of = "audiences" /\ output = None /\ UNCHANGED input
  /\ LET padded(f) == f.before \o f.name \o f.after
         text == FoldLeft(LAMBDA s, f : s \o (IF s = <<>> THEN <<>> ELSE <<",">>) \o padded(f),
                          <<>>, input.fields)
     IN  output' = [audiences |-> SplitEnv(text)]

Start ==
  /\ input.of = "server" /\ output = None /\ UNCHANGED input
  /\ LET oidc == Create(LoadDotenv(input.is.env, input.is.dotenv))
     IN  output' = IF oidc.starts
                     THEN [at |-> "started", auth |-> Configure(oidc, input.is.wellKnown, input.is.doc)]
                     ELSE [at |-> "exited"]

Request ==
  /\ input.of = "server" /\ output # None /\ output.at = "started" /\ UNCHANGED input
  /\ output' = [at |-> BeforeHandle(output.auth, input.is.request, input.is.doc)]

Main ==
  /\ input.of = "process" /\ output = None /\ UNCHANGED input
  /\ output' = Started

ProcessAt(at) == input.of = "process" /\ output # None /\ output.at = at

CreateContext == ProcessAt("create") /\ UNCHANGED input /\ output' \in CreateSteps(output, input.is)

Initialize == ProcessAt("initialize") /\ UNCHANGED input /\ output' \in InitializeSteps(output)

Run == ProcessAt("run") /\ UNCHANGED input /\ output' \in RunSteps(output)

Unwind == ProcessAt("unwind") /\ UNCHANGED input /\ output' \in UnwindSteps(output)

PostSession ==
  /\ input.of = "session" /\ output = None /\ UNCHANGED input
  /\ output' = CreateSession(input.is.body, input.is.disk, input.is.opens)

PostLogin ==
  /\ input.of = "login" /\ output = None /\ UNCHANGED input
  /\ output' = Login(input.is.configured, input.is.body, input.is.provider)

\* The gprims below gprims, also where a prim is inactive and could be restored.
NestedGprims(s) ==
  LET revived(layer) == [p \in DOMAIN layer |-> [layer[p] EXCEPT !.active = "yes"]]
      prims  == Stage(revived(s.root), revived(s.session)).prims
      gprims == {p \in DOMAIN prims : IsGprimType(prims[p].type)}
  IN  {pair \in gprims \X gprims : pair[1] # pair[2] /\ Under(pair[1], pair[2])}

\* A session is opened on the file and a client joins.  `trash' is what the deletions
\* took away, the last one of each prim, `folded' once a commit has taken the prim from
\* the file too, and `nested' the gprims the file had nested or came to nest when it was
\* reloaded.  The client is `ahead' when it has downloaded a file that the session could
\* not reload.
Open ==
  /\ input.of = "scene" /\ output = None /\ UNCHANGED input
  /\ LET s == Stage(input.is.file, NoLayer)
     IN  output' = [stage |-> s, client |-> s, file |-> input.is.file, trash |-> [p \in {} |-> None],
                    replaced |-> FALSE, nested |-> NestedGprims(s), ahead |-> FALSE,
                    failed |-> 0]

Editing == input.of = "scene" /\ output # None

CreatePrim ==
  /\ Editing /\ UNCHANGED input
  /\ LET s == output.stage IN
     /\ Cardinality(Creations(s.session)) < input.is.prims
     /\ \E parent \in {<<>>} \cup DOMAIN s.prims, type \in input.is.types :
          /\ Len(parent) < MaxDepth /\ MayParent(s, parent, type)
          /\ LET p == UniqueChildPath(s, parent, type)
                 new == Stage(s.root, DefinePrim(s, p, type))
             IN  output' = [output EXCEPT !.stage = new,
                              !.client = Receive(@, CreateFrame(p, type, ReadAttributes(new, p, type)))]

Subtree(s, p) == LET scene == Scene(s) IN [q \in {q \in DOMAIN scene : Under(q, p)} |-> scene[q]]

SetPrimActive ==
  /\ Editing /\ UNCHANGED input
  /\ \E p \in DOMAIN output.stage.prims, active \in BOOLEAN :
       LET s == output.stage IN
       /\ active \/ Cardinality(DOMAIN output.trash \cup {p}) <= input.is.deleted
       /\ SetActiveStatus(s, p, active) = "ok"
       /\ output' = [output EXCEPT !.stage = Stage(s.root, SetActive(s, p, active)),
                       !.client = Receive(@, ActiveFrame(p, IF active THEN "yes" ELSE "no")),
                       !.trash = IF active THEN @
                                 ELSE (p :> [was |-> Subtree(s, p), later |-> output.replaced, folded |-> FALSE]) @@ @]

\* The commit of a session, and the reload that belongs to it: when it fails, the stage
\* is left as it is.
CommitSession ==
  /\ Editing /\ output.stage.session # NoLayer /\ UNCHANGED input
  /\ LET written == [output EXCEPT !.file = Commit(output.stage)]
         folded(t) == [p \in DOMAIN t |-> [t[p] EXCEPT !.folded = @ \/ p \in Deleted(output.stage.session)]]
     IN  \/ output' = [written EXCEPT !.stage = Stage(written.file, @.session), !.trash = folded(@)]
         \/ output.failed < input.is.fails /\ output' = [written EXCEPT !.failed = @ + 1]

\* A client downloads the file and joins, in the place of the one before.
JoinSession ==
  /\ Editing /\ UNCHANGED input
  /\ output' = [output EXCEPT !.client = Joined([output.stage EXCEPT !.root = output.file]),
                              !.ahead = output.file # output.stage.root]

\* The file is replaced, and reloaded unless that fails; what is in it is not checked.
\* Clients are told of no prim that is new in it, so the client here is one that joins
\* afterwards.
Replace ==
  /\ Editing /\ ~output.replaced /\ UNCHANGED input
  /\ LET s == Stage(input.is.later, output.stage.session)
     IN  \/ output' = [output EXCEPT !.stage = s, !.client = Joined(s), !.file = input.is.later,
                          !.replaced = TRUE, !.ahead = FALSE,
                          !.nested = @ \cup NestedGprims(s)]
         \/ /\ output.failed < input.is.fails
            /\ output' = [output EXCEPT !.file = input.is.later, !.failed = @ + 1]

Next ==
  \/ Upload \/ Paint \/ Label \/ Render \/ Preview \/ Encode \/ Crc32 \/ WriteChunk
  \/ Split \/ Start \/ Request
  \/ Main \/ CreateContext \/ Initialize \/ Run \/ Unwind \/ PostSession \/ PostLogin
  \/ Open \/ CreatePrim \/ SetPrimActive \/ CommitSession \/ JoinSession \/ Replace

Spec == Init /\ [][Next]_vars
-----------------------------------------------------------------------------
Accepted == input.of = "path" /\ output # None /\ output.status = "Ok"

\* An uploaded file is found again: it is listed, and downloads under the path the
\* response reports and the path it is listed under get the file that was written,
\* however the client had spelled the directory and whatever links are in the way.
UploadFound ==
  Accepted =>
    /\ GetFileList(output.disk) # {}
    /\ \A path \in {output.relative} \cup GetFileList(output.disk) :
         /\ ServeFile(path, output.disk) = [code |-> 200, file |-> output.file]
         /\ FileExists(path, output.disk).code = 200

\* A thumbnail is looked for, under the path the upload reported and under the path
\* it is listed under, where the upload has had it written.
ThumbnailFound ==
  Accepted /\ output.thumbnail # <<>> =>
    \A path \in {output.relative} \cup GetFileList(output.disk) :
      /\ ServeThumbnail(path, output.disk) = [code |-> 200, file |-> output.thumbnail]
      /\ ThumbnailExists(path, output.disk).code = 200

Painted == input.of = "picture" /\ output # None

\* Whatever the size and the labels, nothing is painted outside the image: where the
\* unsigned arithmetic of the layout wraps round, the rectangles become empty.
PaintsInside ==
  Painted => \A r \in output.border \cup output.lines[1] \cup output.lines[2] :
               Empty(r) \/ (r.x1 <= input.size /\ r.y1 <= input.size)

\* When the two lines with their gap are not higher than the picture, no cell of a
\* line is cut off, the first line ends above the second, and they are centred.
LinesLaidOut ==
  Painted /\ output.layout.height <= input.size =>
    LET l == output.layout
        whole(r, scale) == r.x1 - r.x0 = scale /\ r.y1 - r.y0 = scale
    IN  /\ \A r \in output.lines[1] : whole(r, l.s1)
        /\ \A r \in output.lines[2] : whole(r, l.s2)
        /\ \A r \in output.lines[1], q \in output.lines[2] : r.y1 <= q.y0
        /\ input.size - (l.y1 + l.height) - l.y1 \in {0, 1}

\* Behind the text, the gradient stays darker than the text on it, from corner to
\* corner: no sum leaves the tint's range (HashToTint: "stays legible").
TextStandsOut ==
  Painted => \A tint \in Tints, t \in 0..(2 * input.size - 2) :
               Gradient(input.size, tint, t) \in 0..tint /\ tint < 220

\* The two lines say as much of the file's name and of its first prim as can be drawn
\* and fits: no character is a solid block, and what cannot be drawn takes the room of
\* nothing that can.
LabelsReadable ==
  input.of = "label" /\ output # None =>
    LET drawn(text, line) ==
          /\ \A i \in DOMAIN line : Solid \notin GlyphFor(line[i])
          /\ IsPrefix(line, SelectSeq(text, LAMBDA c : Solid \notin GlyphFor(c)))
          /\ Len(line) = Least(input.is.max, Cardinality({i \in DOMAIN text : Solid \notin GlyphFor(text[i])}))
    IN  drawn(input.is.stem, output.stem) /\ drawn(DescribeUsdFile(input.is.layer), output.label)

\* What is in the hands of the thumbnail thread after some calls.
Owned(calls) ==
  FoldLeft(LAMBDA held, c : IF c.does = "make" THEN held \cup {c.what} ELSE held \ {c.what}, {}, calls)

\* Whichever calls fail, the thread ends up with no GL context, library, display or
\* pixels of its own; the display (or the library) goes after everything that lives in
\* it, and the renderer lives and dies with a current context.  With EGL no context or
\* surface is destroyed that is still current; OSMesa destroys the current context, and
\* what the thread's binding is then is left to the library.  A thumbnail is missing
\* only if the placeholder fails too.
ContextReleased ==
  input.of = "render" /\ output # None =>
    LET bound == IF input.is.build = "osmesa" THEN {"current"} ELSE {} IN
    /\ Owned(output.calls) \subseteq bound
    /\ \A i \in DOMAIN output.calls :
         LET c == output.calls[i]
             held == Owned(SubSeq(output.calls, 1, i - 1))
         IN  /\ c.does = "drop" => c.what \in held
             /\ c.does = "drop" /\ c.what \in {"context", "surface"} => "current" \notin held \ bound
             /\ c.does = "drop" /\ c.what \in {"display", "library"} => held \subseteq {c.what, "pixels"} \cup bound
             /\ c.what = "recorder" => "current" \in held
    /\ output.shows = "nothing" => "placeholder" \in input.is.fails

\* The preview of a stage that has no camera shows all of it: the sphere around the
\* bounds is inside the angle of view (sin(22.5 degrees) = 0.3827) and between the
\* clipping planes.  Left out are bounds so small that they fall before the nearest
\* plane the camera allows, at 0.001.
PreviewFramed ==
  input.of = "camera" /\ output # None /\ ~output.authored =>
    LET c == output.camera
    IN  /\ c.dist * 3827 >= c.radius * 10000
        /\ c.dist + c.radius <= c.far
        /\ c.dist - c.radius >= Nearest => c.near <= c.dist - c.radius

\* The table-driven CRC is the one the format defines, after every byte.
ChecksumRight == Encoding => output.crc = output.serial

\* A reader of PNG files gets the image back: the chunks, the stored blocks at their
\* boundaries, the sum over the data and the scanlines are as the formats demand.
ImageReadBack == Encoding /\ output.todo = <<>> => Decode(output.file) = Rows

\* The audiences that were written into the setting are the ones that are handed to the
\* verifier, one after the other, whatever blanks and empty fields are between them.
\* Which of several the verifier then asks for is up to the library.
AudiencesRead ==
  input.of = "audiences" /\ output # None =>
    output.audiences = [i \in DOMAIN SelectSeq(input.fields, LAMBDA f : f.name # <<>>) |->
                          SelectSeq(input.fields, LAMBDA f : f.name # <<>>)[i].name]

Handled == input.of = "server" /\ output # None /\ output.at = "handled"

\* What the first place that sets it says of the switch: the process's environment
\* (even with nothing in it), then the lines of the .env file.
Switch ==
  LET lines == [i \in DOMAIN input.is.dotenv |-> LineEntry(input.is.dotenv[i])]
      said  == SelectSeq(<<[key |-> DisableAuth, value |-> input.is.env[DisableAuth]]>> \o lines,
                         LAMBDA l : l.key = DisableAuth /\ l.value # Unset)
  IN  IF said = <<>> THEN <<>> ELSE Head(said).value

Published(k, token) == Usable(k) /\ k.kid = token.kid /\ k.pem = token.signer

\* A request that needs a token reaches its handler only when authentication has been
\* switched off, or the token is signed with a key the provider published to sign
\* with under the token's key id: not when a setting is missing or the provider fails.
TokenNeeded ==
  Handled /\ input.is.request.url = "other" /\ input.is.request.method # "options" =>
    \/ Switch \in {<<"true">>, <<"1">>}
    \/ /\ input.is.wellKnown = "ok" /\ input.is.doc.is = "keys"
       /\ \E i \in DOMAIN input.is.doc.keys : Published(input.is.doc.keys[i], input.is.request.token)
       /\ input.is.request.token.claims

Judged == input.of = "server" /\ output # None /\ output.at \in {"handled", "refused", "error"}

\* A token the provider has issued is accepted by a server that has loaded its keys:
\* other keys in the document do not get in its way, be they of another kind, for another
\* use or incomplete.  Left out is a document with a signing key whose numbers are no
\* key: none of its keys is loaded.
IssuedAccepted ==
  LET s == input.is
      t == s.request.token
  IN  /\ Judged /\ s.wellKnown = "ok" /\ s.doc.is = "keys"
      /\ t.form = "jwt" /\ t.sub /\ t.claims /\ t.alg \in AllowedAlgs
      /\ \E i \in DOMAIN s.doc.keys :
           /\ Published(s.doc.keys[i], t) /\ s.doc.keys[i].alg \in {"", t.alg}
           /\ \A j \in DOMAIN s.doc.keys \ {i} : s.doc.keys[j].kid # t.kid \/ ~Usable(s.doc.keys[j])
      /\ \A j \in DOMAIN s.doc.keys : Usable(s.doc.keys[j]) => s.doc.keys[j].pem # "invalid"
      => output.at = "handled"

Process == input.of = "process" /\ output # None

\* At every moment of the start and of the end, what a running thread may touch is
\* there: the requests find every service, the flusher its manager, and no thread is
\* left of an object that is gone.  Only the executor's threads may find the server
\* gone, on whose connections they send what a command broadcasts.
ThreadsServed ==
  Process => \A t \in output.threads :
    Touches(t, input.is) \ output.alive \subseteq (IF t = <<"manager", "executor">> THEN {"server"} ELSE {})

\* However main ends, nothing is left: every object is destroyed and every thread
\* joined.  The server is initialised and run only with every service, the manager is
\* destroyed after the flusher, and main returns 0 only when the flusher has made its
\* last flush and the sidecars it wrote have been removed, in this order: no flush
\* brings back the sidecar of a session that has ended.
EndsClean ==
  Process =>
    /\ output.at = "exited" => output.alive = {} /\ output.threads = {}
    /\ output.at \in {"initialize", "run"} => Range(Wanted(input.is)) \subseteq output.alive
    /\ output.at = "exited" /\ output.status = 0 => output.sidecars = <<"flush", "remove">>
    /\ "manager" \notin output.alive => "flusher" \notin output.alive

\* What SessionFlusher says of its last flush ("so edits made since the last tick are not
\* lost on a clean shutdown"): the sidecars are still there when the process has ended.
EditsOutlive ==
  Process /\ output.at = "exited" /\ output.status = 0 =>
    output.sidecars # <<>> /\ Last(output.sidecars) = "flush"

\* A session that is created is the one the client has asked for, whatever types it
\* has written the fields with: its file, whether it commits when it ends, and its
\* mode, unless the mode is none of the four.  What is not created is refused for the
\* reason there is: 400 exactly for a body that does not name a file or has a field of
\* the wrong type, 404 exactly for a file that is not served, 409 only if a layer or the
\* stage does not open, and 500 only if a call throws.
SessionAsAsked ==
  input.of = "session" /\ output # None =>
    LET said(key, default) ==
          IF key \in DOMAIN input.is.body.fields THEN input.is.body.fields[key].is ELSE default
        typed(key, type) ==
          key \in DOMAIN input.is.body.fields => input.is.body.fields[key].type = type
        formed == /\ input.is.body.is = "object" /\ said("usd_file", <<>>) # <<>>
                  /\ typed("usd_file", "string") /\ typed("auto_commit", "bool")
        served == formed /\ ServeFile(said("usd_file", <<>>), input.is.disk).code = 200
    IN  CASE output.code = 400 -> ~formed
          [] output.code = 404 -> formed /\ ~served
          [] output.code = 409 -> served /\ input.is.opens = "fails"
          [] output.code = 500 -> served /\ input.is.opens = "throws"
          [] output.code = 201 ->
             /\ served /\ input.is.opens = "ok"
             /\ output.session.file = Normal(said("usd_file", <<>>))
             /\ output.session.auto_commit = said("auto_commit", <<"false">>)
             /\ output.session.mode = said("mode", output.session.mode) \/ said("mode", <<>>) \notin Modes
             /\ ServeFile(output.session.usd_file, input.is.disk).code = 200

\* A client gets a token exactly when the provider has answered with one, and sees of
\* the answer only what it may: no id token, and no expiry that is not a number.  The
\* login counts as failed only if the provider has refused it, and clears the record
\* only if there is a token: an outage of the provider locks nobody out.
LoginAnswered ==
  input.of = "login" /\ output # None =>
    LET p == input.is.provider
        token == p.transferred /\ p.code \in 200..299 /\ p.body.is = "object"
                   /\ "access_token" \in DOMAIN p.body.fields
                   /\ p.body.fields["access_token"].type = "string"
    IN  /\ output.code = 200 => token
        /\ token => output.code \in {200, 400, 503}
        /\ output.code = 200 =>
             /\ output.shows["access_token"] = p.body.fields["access_token"].is
             /\ "id_token" \notin DOMAIN output.shows
             /\ "expires_in" \in DOMAIN output.shows => p.body.fields["expires_in"].type = "int"
        /\ (output.throttler = "RecordSuccess") = (output.code = 200)
        /\ output.throttler = "RecordFailure" => p.code \in 400..499 /\ output.code = 401

\* No sequence of creations, deletions, undos and commits nests a gprim under a gprim,
\* at any depth (usdchecker rejects such a scene): only a file that has such prims, or
\* that is reloaded under prims of the session, does.
NoNestedGprims == Editing => NestedGprims(output.stage) \subseteq output.nested

\* A client sees the scene of the server, prim by prim with its type and its shape:
\* one that was there all along and one that has joined late, which has only the
\* file and the snapshot, and follows the deletions and the undos after it too.
\* Left out are a client whose file the session could not reload; what the client's file
\* has as inactive and the session has activated, and what is created below a prim that
\* is gone from the file, for which the snapshot has no frame; and the shape of a prim
\* that the session has created and the file gives a shape too, for which the snapshot
\* has the values of the schema.
ClientSeesScene ==
  Editing /\ ~output.ahead =>
    LET s == output.stage
        lost == {p \in DOMAIN output.client.root :
                   output.client.root[p].active = "no" /\ SpecOf(s.session, p).active = "yes"}
        file == output.client.root
        gone == {p \in DOMAIN s.session \ Creations(s.session) :
                   ~SpecOf(file, p).def /\ p \notin {f[1] : f \in Foreign(file)}}
        bare == {p \in Creations(s.session) : DOMAIN SpecOf(s.root, p).shape # {}}
        seen(scene) == [p \in {p \in DOMAIN scene : \A q \in lost \cup gone : ~Under(p, q)} |->
                          [type |-> scene[p].type, shape |-> IF p \in bare THEN None ELSE scene[p].shape]]
    IN  seen(Scene(output.client)) = seen(Scene(s))

\* What ReadSchemaDefaults is said to give a joiner, the fallbacks a prim was created
\* with, stays true of the prims of the session.
SnapshotShapesTrue ==
  Editing =>
    \A p \in Creations(output.stage.session) \cap DOMAIN Scene(output.stage) :
      Scene(output.stage)[p].shape = ReadSchemaDefaults(Scene(output.stage)[p].type)

\* Undoing a deletion gives back exactly what the deletion took away: nothing below a
\* deleted prim is created, deleted or renamed in the meantime.  Once a commit has taken
\* the prim from the file too, what the session had defined comes back, with the shape
\* of its schema.
UndoRestores ==
  Editing => LET s == output.stage IN
    \A p \in DOMAIN output.trash :
      LET t       == output.trash[p]
          defined == {q \in DOMAIN t.was : SpecOf(s.session, q).def}
          due     == IF t.folded
                       THEN [q \in defined |-> [t.was[q] EXCEPT !.shape = ReadSchemaDefaults(t.was[q].type)]]
                       ELSE t.was
      IN  t.later = output.replaced /\ SetActiveStatus(s, p, TRUE) = "ok" =>
            Subtree(Stage(s.root, SetActive(s, p, TRUE)), p) = due

\* What a commit writes is the scene the clients see: a session that is opened on the
\* file afterwards starts with it, no deleted prim comes back from a referenced file.
CommitFolds ==
  Editing => Scene(Stage(Commit(output.stage), NoLayer)) = Scene(output.stage)

\* A commit takes from the file only what a client has deleted: a prim the file has
\* as inactive, or brings in by reference, is still in it.
SourceKept ==
  Editing => \A p \in DOMAIN (IF output.replaced THEN input.is.later ELSE input.is.file) :
               (\A q \in DOMAIN output.trash : ~Under(p, q)) => p \in DOMAIN output.stage.root

\* What was uploaded, and its thumbnail, are found again.
FilesFound == UploadFound /\ ThumbnailFound

\* A placeholder is a picture one can read: of what is painted, line by line, and of
\* the file it becomes.
PlaceholderRight ==
  /\ PaintsInside /\ LinesLaidOut /\ TextStandsOut /\ LabelsReadable
  /\ ChecksumRight /\ ImageReadBack

\* A preview shows the whole stage, and its rendering leaves nothing behind.
PreviewMade == ContextReleased /\ PreviewFramed

\* Authentication lets in whom the settings and the provider say, and nobody else.
TokensJudged == AudiencesRead /\ TokenNeeded /\ IssuedAccepted

\* The answer to a request is the one its fields and the provider call for.
RequestsAnswered == SessionAsAsked /\ LoginAnswered

\* No thread of the process outlives what it uses, and nothing outlives the process.
ProcessSound == ThreadsServed /\ EndsClean

\* Edits that are each allowed lead to a scene that is allowed, and can be taken back.
EditsSound == NoNestedGprims /\ UndoRestores

\* A commit writes the scene, neither more nor less.
CommitExact == CommitFolds /\ SourceKept
=============================================================================
