--------------------------- MODULE UsdFileLocator ---------------------------
(***************************************************************************)
(* How client-supplied paths become files: UsdFileLocator, and the uses    *)
(* FileServingController makes of it for uploads, downloads, listings and  *)
(* thumbnails.  A string is a sequence of symbols; "%2E" stands for an     *)
(* escape, a lone "%" for one that is malformed, "#" for a character that  *)
(* is not allowed in paths, "usd" for the letters of the extensions.       *)
(***************************************************************************)
EXTENDS Naturals, Sequences, SequencesExt

Unescaped == [s \in {"%2E", "%2F", "%20"} |->
                CASE s = "%2E" -> "." [] s = "%2F" -> "/" [] OTHER -> " "]

Malformed == <<"malformed">>

\* PercentDecode: every escape at once, or nothing.
PercentDecode(in, rejectSlash) ==
  IF "%" \in Range(in) \/ (rejectSlash /\ "%2F" \in Range(in)) THEN Malformed
  ELSE [i \in 1..Len(in) |-> IF in[i] \in DOMAIN Unescaped THEN Unescaped[in[i]] ELSE in[i]]

HasDotDot(s) == \E i \in 1..(Len(s) - 1) : s[i] = "." /\ s[i + 1] = "."

NameSymbols == {" ", "a", "usd", "."}
PathSymbols == NameSymbols \cup {"/"}

IsUsdFilename(s) == Len(s) >= 2 /\ SubSeq(s, Len(s) - 1, Len(s)) = <<".", "usd">>

\* std::filesystem::path: the components of a string, and what lexically_normal and
\* canonical leave of them.
Components(s) ==
  LET cuts == {0, Len(s) + 1} \cup {i \in 1..Len(s) : s[i] = "/"}
      ends == SetToSortSeq(cuts, <)
  IN  [i \in 1..(Len(ends) - 1) |-> SubSeq(s, ends[i] + 1, ends[i + 1] - 1)]

Normal(s) == SelectSeq(Components(s), LAMBDA c : c # <<>> /\ c # <<".">>)

Join(components) ==
  FoldLeft(LAMBDA s, c : IF s = <<>> THEN c ELSE s \o <<"/">> \o c, <<>>, components)

Filename(s) == Last(Components(s))

Parent(s) == SubSeq(s, 1, Len(s) - Len(Filename(s)))

\* A leading dot does not begin an extension.
Stem(name) ==
  LET dots == {i \in 2..Len(name) : name[i] = "."}
  IN  IF dots = {} THEN name ELSE SubSeq(name, 1, Max(dots) - 1)
-----------------------------------------------------------------------------
Refused(status) == [status |-> status]

ValidatePath(path) ==
  LET decoded == PercentDecode(path, FALSE)
  IN  IF decoded = Malformed THEN Refused("InvalidEncoding")
      ELSE IF HasDotDot(decoded) \/ decoded = <<>> \/ ~(Range(decoded) \subseteq PathSymbols)
      THEN Refused("InvalidPath")
      ELSE [status |-> "Ok", decoded |-> decoded]

\* Appended to the root, an absolute path replaces it.
IsAbsolute(s) == s # <<>> /\ Head(s) = "/"

\* A disk has files and directories under the root, named by their components; some
\* directories are links that lead out of the root.  What canonical finds of a name
\* is outside if a link is on the way.
Escapes(disk, components) ==
  \E i \in 1..Len(components) : SubSeq(components, 1, i) \in disk.links

Resolve(path, disk) ==
  LET v == ValidatePath(path)
  IN  IF v.status # "Ok" THEN v
      ELSE IF IsAbsolute(v.decoded) \/ Normal(v.decoded) \notin disk.files THEN Refused("NotFound")
      ELSE IF Escapes(disk, Normal(v.decoded)) THEN Refused("OutsideRoot")
      ELSE IF ~IsUsdFilename(Filename(v.decoded)) THEN Refused("NotAUsdFile")
      ELSE [status |-> "Ok", file |-> Normal(v.decoded)]

ClassifyFilesystemError(error) ==
  IF error \in {"permission_denied", "operation_not_permitted", "read_only_file_system"}
    THEN "PermissionDenied" ELSE "NotFound"

\* The directory is made, with the ones above it, and then looked at.  Any of the calls
\* may fail with the disk's error.
EnsureDirectoryInsideRoot(disk, dir) ==
  IF disk.error # "none" THEN ClassifyFilesystemError(disk.error)
  ELSE IF Escapes(disk, dir) THEN "OutsideRoot" ELSE "Ok"

\* The root is made and a file written to it.
EnsureRootExists(error, writable) ==
  IF error # "none" THEN ClassifyFilesystemError(error)
  ELSE IF writable THEN "Ok" ELSE "PermissionDenied"

IsSeparator(c) == c \in {"/", "\\"}

\* The separators at both ends of the directory go.
Strip(s) ==
  LET kept == {i \in 1..Len(s) : ~IsSeparator(s[i])}
  IN  IF kept = {} THEN <<>> ELSE SubSeq(s, Min(kept), Max(kept))

\* Faulty: composes the path from the filename as it was received.
ValidateUploadTarget_Raw(dir, filename) ==
  LET name == PercentDecode(filename, TRUE)
      full == PercentDecode(dir, FALSE)
      d    == Strip(full)
  IN  IF name = Malformed \/ full = Malformed THEN Refused("InvalidEncoding")
      ELSE IF \/ name = <<>> \/ HasDotDot(name) \/ HasDotDot(d)
              \/ ~(Range(name) \subseteq NameSymbols) \/ ~(Range(d) \subseteq PathSymbols)
      THEN Refused("InvalidPath")
      ELSE IF ~IsUsdFilename(name) THEN Refused("NotAUsdFile")
      ELSE [status |-> "Ok", relative |-> IF d = <<>> THEN filename ELSE d \o <<"/">> \o filename]

ValidateUploadTarget(dir, filename) ==
  LET name == PercentDecode(filename, TRUE)
      full == PercentDecode(dir, FALSE)
      d    == Strip(full)
  IN  IF name = Malformed THEN Refused("InvalidEncoding")
      ELSE IF \/ name = <<>> \/ HasDotDot(name) \/ HasDotDot(filename)
              \/ ~(Range(name) \subseteq NameSymbols)
      THEN Refused("InvalidPath")
      ELSE IF ~IsUsdFilename(name) THEN Refused("NotAUsdFile")
      ELSE IF full = Malformed THEN Refused("InvalidEncoding")
      ELSE IF HasDotDot(d) \/ HasDotDot(dir) \/ ~(Range(d) \subseteq PathSymbols)
      THEN Refused("InvalidPath")
      ELSE [status |-> "Ok", relative |-> IF d = <<>> THEN name ELSE d \o <<"/">> \o name]
-----------------------------------------------------------------------------
(* FileServingController. *)

Thumbs == <<"thumbs">>

ThumbnailIn(path, name) == Normal(Parent(path)) \o <<Thumbs, name \o <<"png">>>>

\* Where UploadFile has the thumbnail of an accepted target written.
ThumbnailOfUpload(relative) == ThumbnailIn(relative, Stem(Filename(relative)))

\* Where a client's request for a thumbnail looks.
ResolveThumbnailPath(path) ==
  LET v == ValidatePath(path)
  IN  IF v.status # "Ok" THEN v
      ELSE IF ~IsUsdFilename(Filename(v.decoded)) THEN Refused("NotAUsdFile")
      ELSE IF IsAbsolute(v.decoded) THEN Refused("OutsideRoot")
      ELSE [status |-> "Ok", file |-> ThumbnailIn(v.decoded, Stem(Filename(v.decoded)))]

\* GetFileList, without filters: the files with a USD name, relative to the root.  Links
\* are not followed.
GetFileList(disk) ==
  {Join(f) : f \in {g \in disk.files : IsUsdFilename(Last(g)) /\ ~Escapes(disk, g)}}

Response(code) == [code |-> code]

\* GET and HEAD of a file that USD can open.
ServeFile(path, disk) ==
  LET r == Resolve(path, disk)
  IN  IF r.status # "Ok" THEN Response(404) ELSE [code |-> 200, file |-> r.file]

FileExists(path, disk) == Response(IF Resolve(path, disk).status = "Ok" THEN 200 ELSE 404)

\* GET and HEAD of a thumbnail.
ServeThumbnail(path, disk) ==
  LET r == ResolveThumbnailPath(path)
  IN  IF r.status # "Ok" \/ r.file \notin disk.files THEN Response(404)
      ELSE [code |-> 200, file |-> r.file]

ThumbnailExists(path, disk) == Response(ServeThumbnail(path, disk).code)
=============================================================================
