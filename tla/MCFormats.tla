----------------------------- MODULE MCFormats -----------------------------
EXTENDS Formats, TLC

UpTo(S, n) == UNION {[1..k -> S] : k \in 0..n}

Directories == UpTo({"a", "/", ".", "\\", "%2F", "%2E", "%"}, 3)

Filenames ==
  {p \o e : p \in UpTo({"a", ".", "%20", "%2E", "%2F", "#"}, 2), e \in {<<>>, <<".", "usd">>}}

Disk == [files |-> {}, error |-> "none", links |-> {}]

Disks ==
  {[Disk EXCEPT !.error = x] : x \in {"read_only_file_system", "no_space_on_device"}}
    \cup {[Disk EXCEPT !.links = x] : x \in SUBSET {<<<<"a">>>>, <<Thumbs>>, <<<<"a">>, Thumbs>>}}

MCTargets ==
  [dir : Directories, name : Filenames, disk : {Disk}]
  \cup [dir : UpTo({"a", "/"}, 3), name : {<<"a", ".", "usd">>, <<"%2E", "usd">>}, disk : Disks]

MCPixels == {<<0, 0, 0>>, <<255, 1, 128>>}

Texts == UpTo({"a", "7", " ", "#"}, 4)

MCLabels ==
  [stem : Texts, max : {2, 3}, layer : [opens : {FALSE}]]
  \cup [stem : {<<"a">>}, max : {2, 3}, layer : [opens : {TRUE}, defaultPrim : Texts, roots : {<<>>, <<<<"_">>>>}]]

Body == {"current", "context", "open", "camera", "record", "rename", "copy", "placeholder"}

MCRenders ==
  [build : {"egl"}, fails : SUBSET ({"platforms", "devices", "surfaceless", "device 1", "device 2",
                                     "default", "display", "surface", "config", "context", "current"})]
  \cup [build : {"osmesa"}, fails : SUBSET ({"lib.so.8", "lib.so", "entries"} \cup Body)]

MCPreviews ==
  [prims : UpTo({"mesh", "camera"}, 2),
   bounds : [empty : BOOLEAN, half : {0, 50, 57, 58, 100, 1000, 100000}]]

MCFields == [before : UpTo({" "}, 1), name : {<<>>, <<"a">>, <<"a", " ", "b">>}, after : UpTo({" "}, 2)]

Key == [kid |-> "k", kty |-> "RSA", use |-> "sig", alg |-> "", complete |-> TRUE, pem |-> "p"]

Keys ==
  {Key} \cup {[Key EXCEPT !.kid = x] : x \in {"", "l"}} \cup {[Key EXCEPT !.alg = x] : x \in {"RS256", "PS256"}}
    \cup {[Key EXCEPT !.kty = "EC"], [Key EXCEPT !.use = "enc"], [Key EXCEPT !.complete = FALSE]}
    \cup {[k EXCEPT !.pem = x] : k \in {Key, [Key EXCEPT !.use = "enc"]}, x \in {"q", "invalid"}}

Token == [form |-> "jwt", sub |-> TRUE, kid |-> "k", alg |-> "RS256", signer |-> "p", claims |-> TRUE]

Tokens ==
  {Token} \cup {[Token EXCEPT !.form = x] : x \in {"none", "garbled"}}
    \cup {[Token EXCEPT !.kid = x] : x \in {"", "l"}} \cup {[Token EXCEPT !.alg = x] : x \in {"", "RS384", "HS256"}}
    \cup {[Token EXCEPT !.sub = FALSE], [Token EXCEPT !.claims = FALSE], [Token EXCEPT !.signer = "q"]}

Requests == [method : {"get", "options"}, url : {"health", "login", "other"}, token : Tokens]

Docs == [is : {"nothing", "no keys"}] \cup [is : {"keys"}, keys : UpTo(Keys, 2)]

On == (DisableAuth :> Unset) @@ (WellKnown :> <<"u">>) @@ (Audiences :> <<"a">>)

Environments ==
  {[On EXCEPT ![DisableAuth] = d, ![WellKnown] = w, ![Audiences] = a] :
     d \in {Unset, <<>>, <<"true">>, <<"1">>, <<"false">>}, w \in {Unset, <<>>, <<"u">>},
     a \in {Unset, <<" ", ",">>, <<"a">>}}

DotenvLines == {<<>>, <<"#", "D", "=", "1">>, <<"D">>, <<"D", "=", "1">>, <<"D", "=", "true", "\r">>,
          <<"W", "=", "u">>, <<"A", "=", "a">>}

MCServers ==
  [env : Environments, dotenv : UpTo(DotenvLines, 2), wellKnown : {"ok", "failed"},
   doc : [is : {"keys"}, keys : {<<Key>>}],
   request : [method : {"get"}, url : {"other"}, token : {Token, [Token EXCEPT !.form = "none"]}]]
  \cup
  [env : {On}, dotenv : {<<>>}, wellKnown : {"ok", "failed"}, doc : Docs, request : Requests]

MCProcesses ==
  [thumbnails : {"unset", "false", "0"}, error : {"none", "permission_denied"}, writable : BOOLEAN, idle : {0, 300}]

Typed(type, is) == [type |-> type, is |-> is]

\* Objects with some of the fields, each with one of its values.
Objects(values) ==
  [is : {"object"},
   fields : UNION {{f \in [keys -> UNION {values[k] : k \in keys}] : \A k \in keys : f[k] \in values[k]} :
                     keys \in SUBSET DOMAIN values}]

OtherBodies == [is : {"garbled", "array"}, fields : {[key \in {} |-> <<>>]}]

MCBodies ==
  [body : OtherBodies \cup Objects(
     ("usd_file" :> {Typed("string", p) : p \in {<<>>, <<"a", ".", "usd">>, <<".", "/", "a", ".", "usd">>, <<"a">>}}
                      \cup {Typed("null", <<>>)})
     @@ ("mode" :> {Typed("string", <<"collaborative_edit">>), Typed("string", <<"shared">>), Typed("int", <<"2">>)})
     @@ ("auto_commit" :> {Typed("bool", <<"true">>), Typed("bool", <<"false">>), Typed("string", <<"true">>)})),
   disk : {[Disk EXCEPT !.files = {<<<<"a", ".", "usd">>>>, <<<<"a">>>>}]}, opens : {"ok", "fails", "throws"}]

StringOrNull(key) == {Typed("string", <<key>>), Typed("null", <<>>)}

MCLogins ==
  [configured : BOOLEAN,
   body : OtherBodies \cup Objects(("username" :> {Typed("string", <<>>), Typed("string", <<"u">>), Typed("int", <<"1">>)})
                                  @@ ("password" :> {Typed("string", <<"p">>)})),
   provider : [transferred : BOOLEAN, code : {0, 200, 302, 401, 503},
               body : OtherBodies \cup Objects(("access_token" :> StringOrNull("t")) @@ ("token_type" :> StringOrNull("MAC"))
                 @@ ("expires_in" :> {Typed("int", <<"1">>), Typed("string", <<"1">>)}) @@ ("id_token" :> StringOrNull("i")))]]

Prim(type) == [Over EXCEPT !.def = TRUE, !.type = type]

\* A group with a prim that refers to another file, and a prim that is inactive and
\* has a shape of its own; later the group has one more, of a name a session may give,
\* or is a gprim itself.
Desk == <<<<"Desk", 0>>>>

MCFile ==
  (Desk :> Prim("Xform"))
    @@ (Append(Desk, <<"Rack", 0>>) :> [Prim("Xform") EXCEPT !.refers = {<<<<"Unit", 0>>, "Cube">>}])
    @@ (<<<<"Spare", 0>>>> :> [Prim("Cube") EXCEPT !.active = "no", !.shape = ("size" :> "own")])

MoreGroups == (Append(Desk, <<"Xform", 0>>) :> Prim("Xform")) @@ MCFile

MoreCubes == (Append(Desk, <<"Cube", 0>>) :> [Prim("Cube") EXCEPT !.shape = ("size" :> "own")]) @@ MCFile

MCScenes ==
  LET scenes(later, types, prims, deleted, fails) ==
        [file : {MCFile}, later : later, types : {types}, prims : {prims}, deleted : {deleted}, fails : {fails}]
  IN  scenes({MoreGroups}, {"Cube", "Xform"}, 1, 2, 0)
        \cup scenes({MoreCubes, Desk :> Prim("Cube")}, {"Cube", "Xform"}, 1, 1, 0)
        \cup scenes({MoreGroups}, {"Cube"}, 1, 1, 1)
        \cup scenes({MCFile}, {"Cube", "Xform"}, 2, 1, 0)
=============================================================================
