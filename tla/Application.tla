---------------------------- MODULE Application ----------------------------
(***************************************************************************)
(* The life of the process (main.cpp, app/, server/, routes/): which       *)
(* objects it makes in which order, who holds whom, which threads they     *)
(* start, and how everything is taken down again when the server stops or  *)
(* when a step of the start throws.                                        *)
(*                                                                         *)
(* A process is a record: `at' where main is, `alive' the objects there    *)
(* are, `holds' the pairs of a holder and what it keeps alive by a shared  *)
(* pointer, `threads' the pairs of an object and a thread of its own that  *)
(* runs, `sidecars' what the end does to the sessions' files, and `status' *)
(* what main returns.                                                      *)
(***************************************************************************)
EXTENDS UsdFileLocator, FiniteSets

\* The members of ApplicationContext, in the order of their declaration.
Members == <<"locator", "thumbnails", "health", "auth", "files", "manager", "flusher", "sessions", "websocket">>

\* The order in which ApplicationContext::create makes them.
CreateOrder == <<"locator", "thumbnails", "health", "auth", "manager", "flusher", "files", "sessions", "websocket">>

\* The file controller has the manager by a weak pointer, and the manager a copy of
\* the locator.  The server has the controllers through its routes.
Holds(o) ==
  CASE o = "flusher" -> {"manager"}
    [] o = "files" -> {"locator", "thumbnails"}
    [] o \in {"sessions", "websocket"} -> {"manager"}
    [] o = "server" -> {"health", "auth", "files", "sessions", "websocket"}
    [] OTHER -> {}

\* The threads an object starts when it is made.
Threads(o, settings) ==
  CASE o = "thumbnails" -> {"worker"}
    [] o = "manager" -> {"executor"} \cup (IF settings.idle > 0 THEN {"reaper"} ELSE {})
    [] o = "flusher" -> {"ticks"}
    [] OTHER -> {}

Started == [at |-> "create", alive |-> {}, holds |-> {}, threads |-> {}, sidecars |-> <<>>, status |-> 0]

\* IDTX_THUMBNAIL_ENABLED.
Wanted(settings) ==
  SelectSeq(CreateOrder, LAMBDA o : o = "thumbnails" => settings.thumbnails \notin {"false", "0"})

\* What a thread of an object touches.  The executor's threads send on the connections
\* of the server.
Touches(thread, settings) ==
  CASE thread = <<"flusher", "ticks">> -> {"flusher", "manager"}
    [] thread = <<"manager", "executor">> -> {"manager", "server"}
    [] thread[1] = "server" -> (Range(Wanted(settings)) \ {"flusher"}) \cup {"server", "throttler"}
    [] OTHER -> {thread[1]}

Make(p, holder, o, settings) ==
  [p EXCEPT !.alive = @ \cup {o},
            !.holds = @ \cup {<<holder, o>>} \cup {<<o, h>> : h \in Holds(o)},
            !.threads = @ \cup {<<o, t>> : t \in Threads(o, settings)}]

Throw(p) == [p EXCEPT !.at = "unwind", !.status = 1]

\* One more object of ApplicationContext::create; the root is looked at as soon as
\* there is a locator, and any constructor may run out of memory or threads.
CreateSteps(p, settings) ==
  LET made == Make(p, "context", Wanted(settings)[Cardinality(p.alive) + 1], settings)
  IN  IF Cardinality(p.alive) = Len(Wanted(settings))
        THEN {Throw(p), [Make(p, "main", "server", settings) EXCEPT !.at = "initialize"]}
      ELSE IF p.alive = {} /\ EnsureRootExists(settings.error, settings.writable) # "Ok"
        THEN {Throw(made)}
      ELSE {Throw(p), made}

\* Application::Initialize: the middleware makes the login throttler, and the
\* authentication controller gets it too; then the OIDC settings are read.
InitializeSteps(p) ==
  LET configured == [p EXCEPT !.alive = @ \cup {"throttler"},
                              !.holds = @ \cup {<<"server", "throttler">>, <<"auth", "throttler">>}]
  IN  {Throw(configured), [configured EXCEPT !.at = "run"]}

\* Server::Run: the io threads serve requests until a signal ends them; the port may
\* be taken.
RunSteps(p) ==
  IF p.threads \cap {<<"server", "io">>} = {}
    THEN {Throw(p), [p EXCEPT !.threads = @ \cup {<<"server", "io">>}]}
    ELSE {[p EXCEPT !.at = "unwind", !.threads = @ \ {<<"server", "io">>}]}

\* What a destructor does to the sidecars: the last flush of the flusher writes them,
\* the teardown of the manager's sessions removes them.
Saves(p, o) ==
  CASE o = "flusher" /\ "manager" \in p.alive -> <<"flush">>
    [] o = "manager" -> <<"remove">>
    [] OTHER -> <<>>

\* Faulty: the flusher is told to stop and not waited for.
Destroy_Detached(p, o) ==
  [p EXCEPT !.alive = @ \ {o},
            !.holds = {h \in @ : h[1] # o},
            !.threads = {t \in @ : t[1] # o \/ o = "flusher"},
            !.sidecars = @ \o Saves(p, o)]

\* A destructor: the threads of the object are told to stop and joined, the flusher
\* flushes once more, the manager tears down its sessions, and what the object holds it
\* lets go.
Destroy(p, o) ==
  [p EXCEPT !.alive = @ \ {o},
            !.holds = {h \in @ : h[1] # o},
            !.threads = {t \in @ : t[1] # o},
            !.sidecars = @ \o Saves(p, o)]

\* The server goes first, then the members of the context from the last to the first;
\* an object is destroyed when its last holder lets go of it.
UnwindSteps(p) ==
  LET held(o)  == \E h \in p.holds : h[2] = o
      unheld   == {o \in p.alive : ~held(o)}
      members  == SelectSeq(Members, LAMBDA o : <<"context", o>> \in p.holds)
  IN  IF unheld # {} THEN {Destroy(p, o) : o \in unheld}
      ELSE IF <<"main", "server">> \in p.holds THEN {[p EXCEPT !.holds = @ \ {<<"main", "server">>}]}
      ELSE IF members # <<>> THEN {[p EXCEPT !.holds = @ \ {<<"context", Last(members)>>}]}
      ELSE {[p EXCEPT !.at = "exited"]}
=============================================================================
