------------------------------- MODULE Access -------------------------------
(***************************************************************************)
(* What a request passes before its handler runs (RateLimitHandler::       *)
(* before_handle) and what a login does (AuthController::Login), by the    *)
(* threads of the server at once.                                          *)
(*                                                                         *)
(* Every call of a table reads the clock for its default argument before   *)
(* it waits for the table's mutex.  A thread may lose the processor in     *)
(* between, so the table may see times out of order: a step of a request   *)
(* uses any time since its previous step, at most MaxDelay ticks ago.      *)
(*                                                                         *)
(* The three tables share nothing, so a behaviour follows one of them; the *)
(* other two may answer anything.  Its entries share nothing either, but   *)
(* for the sweeps, so the behaviour follows one client, with the sweeps    *)
(* the requests of others cause.                                           *)
(*                                                                         *)
(* `history' and `answer' record what the table was told and what it said: *)
(* the requests a limiter has seen, the failures the throttler has seen    *)
(* since the last success, and the last answer to a request.               *)
(***************************************************************************)
EXTENDS RateLimiter, FiniteSets, TLC

CONSTANTS
  Requests,                                 \* the requests in progress at once
  globalMaxRequests, globalWindow,          \* Config, windows in ticks
  loginMaxRequests, loginWindow,
  loginMaxFailures, loginFailureWindow, loginLockout,
  MaxDelay, MaxHistory                      \* bounds

ASSUME AccessAssumption ==
  /\ Second \in Nat \ {0}
  /\ {globalMaxRequests, loginMaxRequests, loginMaxFailures} \subseteq Nat \ {0}
  /\ \A d \in {globalWindow, loginWindow, loginFailureWindow, loginLockout} :
       d \in Nat \ {0} /\ d % Second = 0
  /\ {MaxDelay, MaxHistory} \subseteq Nat

Limiters == {"login", "global"}

Max(l) == IF l = "login" THEN loginMaxRequests ELSE globalMaxRequests
Window(l) == IF l = "login" THEN loginWindow ELSE globalWindow

VARIABLES
  watched,    \* the table this behaviour follows
  table,      \* its state
  history,    \* requests or failures: what came of each, the time used, when it was
  answer,     \* the last answer, and the time it used; until when it said to wait
  request     \* where each request is, and since when

vars == <<watched, table, history, answer, request>>

Over == [at |-> "over", login |-> FALSE, since |-> 0]

None == [what |-> "none", time |-> 0, waited |-> FALSE, due |-> {}]

\* The tables are made when the server starts, which may be soon after the epoch of
\* the clock: the zero time point of a new entry is then less than a window ago.
Init ==
  /\ watched \in Limiters \cup {"throttler"}
  /\ \E epoch \in {-1, -2 * globalWindow} : table = NewTable(epoch, 0)
  /\ history = <<>>
  /\ answer = None
  /\ request = [r \in Requests |-> Over]

\* Times are relative to the present; a time is not told apart from an earlier one
\* when both are older than anything they are compared with.
Earlier(t, horizon) == IF t > -(horizon + MaxDelay) THEN t - 1 ELSE t

AgedBuckets(window) ==
  [entries   |-> [c \in DOMAIN table.entries |->
                    [table.entries[c] EXCEPT !.windowStart = Earlier(@, 2 * window)]],
   lastSweep |-> Earlier(table.lastSweep, window),
   epoch     |-> Earlier(table.epoch, window)]

AgedStreaks ==
  [entries   |-> [c \in DOMAIN table.entries |->
                    [table.entries[c] EXCEPT !.firstFailure = Earlier(@, loginFailureWindow),
                                             !.lockedUntil = Earlier(@, 0)]],
   lastSweep |-> Earlier(table.lastSweep, loginFailureWindow),
   epoch     |-> Earlier(table.epoch, 0)]

\* What is older than this is forgotten.
Horizon(what) == CASE what \in {"passed", "refused"} -> Window(watched)
                   [] what = "failed" -> loginFailureWindow
                   [] what = "locked" -> loginLockout

\* Where a request uses the table, and the clock.
Uses == IF watched = "throttler" THEN {"lockout", "provider"} ELSE {watched}

\* An answer is looked at when it is given.
Settled == answer' = [None EXCEPT !.due = answer.due]

Tick ==
  /\ table' = IF watched = "throttler" THEN AgedStreaks ELSE AgedBuckets(Window(watched))
  /\ history' = LET recent == SelectSeq(history, LAMBDA e : e.at > -(Horizon(e.what) + MaxDelay))
                IN  [i \in DOMAIN recent |-> [recent[i] EXCEPT !.time = @ - 1, !.at = @ - 1]]
  /\ answer' = [None EXCEPT !.due = {Earlier(d, 0) : d \in answer.due}]
  /\ request' = [r \in Requests |-> IF request[r].at \in Uses
                                     THEN [request[r] EXCEPT !.since = Earlier(@, 0)]
                                     ELSE request[r]]
  /\ UNCHANGED watched

\* The times a step of request r may use.
Stamps(r) == request[r].since..0

Goes(r, at) == request' = [request EXCEPT ![r].at = at, ![r].since = 0]

Ends(r) == request' = [request EXCEPT ![r] = Over]

Remember(what, t) ==
  /\ Len(history) < MaxHistory
  /\ history' = Append(history, [what |-> what, time |-> t, at |-> 0])

\* An answer that refuses says how many seconds to wait; `waited' tells of the next
\* request whether it comes no sooner.
Answer(what, t, retryAfter) ==
  answer' = [what |-> what, time |-> t, waited |-> \E d \in answer.due : t >= d,
             due |-> IF what = "refused" THEN {retryAfter * Second} ELSE {}]

\* before_handle, before any table is asked: preflight requests and bodies above the
\* cap of their route end here, and leave nothing behind.
Arrive(r, login) ==
  /\ request[r] = Over
  /\ request' = [request EXCEPT ![r] = [at |-> IF login THEN "lockout" ELSE "global",
                                        login |-> login, since |-> 0]]
  /\ Settled
  /\ UNCHANGED <<watched, table, history>>

\* 2) Login lockout.
CheckLockout(r) ==
  /\ request[r].at = "lockout"
  /\ IF watched = "throttler"
       THEN \E t \in Stamps(r) :
              LET s == LockedFor(table, "client", t)
              IN  /\ Answer(IF s > 0 THEN "refused" ELSE "passed", t, s)
                  /\ IF s > 0 THEN Ends(r) ELSE Goes(r, "login")
       ELSE Settled /\ (Ends(r) \/ Goes(r, "login"))
  /\ UNCHANGED <<watched, table, history>>

\* After a limiter: the login limiter, then the global one, then the handler.
Proceeds(r, l) ==
  CASE l = "login" -> Goes(r, "global")
    [] l = "global" /\ request[r].login -> Goes(r, "provider")
    [] OTHER -> Ends(r)

\* 3) Rate limiting.  A count above the quota is not told apart from the first such.
CheckRate(r, l) ==
  /\ request[r].at = l
  /\ IF watched = l
       THEN \E t \in Stamps(r) :
              LET d    == Allow(table, Max(l), Window(l), "client", t)
                  what == IF d.allowed THEN "passed" ELSE "refused"
              IN  /\ table' = [d.table EXCEPT !.entries["client"].count =
                                 IF @ > Max(l) THEN Max(l) + 1 ELSE @]
                  /\ Remember(what, t)
                  /\ Answer(what, t, d.retryAfter)
                  /\ IF d.allowed THEN Proceeds(r, l) ELSE Ends(r)
       ELSE Settled /\ UNCHANGED <<table, history>> /\ (Proceeds(r, l) \/ Ends(r))
  /\ UNCHANGED watched

\* Login, where no credentials reach the identity provider, where it does not answer
\* or answers something else than a token: the throttler is not told.
LoginUnsettled(r) ==
  /\ request[r].at = "provider"
  /\ Ends(r)
  /\ Settled
  /\ UNCHANGED <<watched, table, history>>

\* Login, where the provider refuses the credentials.  A new lockout is one the client
\* has not been told of.
LoginFails(r) ==
  /\ request[r].at = "provider"
  /\ IF watched = "throttler"
       THEN \E t \in Stamps(r) :
              LET f == RecordFailure(table, loginMaxFailures, loginFailureWindow, loginLockout,
                                     "client", t)
              IN  /\ table' = f.table
                  /\ Remember(IF f.locked THEN "locked" ELSE "failed", t)
                  /\ answer' = IF f.locked THEN None ELSE [None EXCEPT !.due = answer.due]
       ELSE Settled /\ UNCHANGED <<table, history>>
  /\ Ends(r)
  /\ UNCHANGED watched

\* Login, where the provider returns a token.
LoginSucceeds(r) ==
  /\ request[r].at = "provider"
  /\ IF watched = "throttler"
       THEN table' = RecordSuccess(table, "client") /\ history' = <<>>
       ELSE UNCHANGED <<table, history>>
  /\ Ends(r)
  /\ Settled
  /\ UNCHANGED watched

\* A request of another client, at the watched table: its own entry is forgotten.
Other ==
  /\ \E t \in -MaxDelay..0 :
       LET asked == IF watched = "throttler"
                      THEN RecordFailure(table, loginMaxFailures, loginFailureWindow,
                                         loginLockout, "other", t)
                      ELSE Allow(table, Max(watched), Window(watched), "other", t)
       IN  table' = RecordSuccess(asked.table, "other")
  /\ Settled
  /\ UNCHANGED <<watched, history, request>>

Next ==
  \/ Tick \/ Other
  \/ \E r \in Requests :
       \/ \E login \in BOOLEAN : Arrive(r, login)
       \/ CheckLockout(r)
       \/ \E l \in Limiters : CheckRate(r, l)
       \/ LoginUnsettled(r) \/ LoginFails(r) \/ LoginSucceeds(r)

Spec == Init /\ [][Next]_vars
-----------------------------------------------------------------------------
Was(what) == {i \in DOMAIN history : history[i].what \in what}

\* A time as long as a window meets at most two windows; when times arrive out of
\* order, three: the first step of the second may be held up until the last of the first.
Windows == IF MaxDelay = 0 THEN 2 ELSE 3

\* The requests a limiter lets pass within a window's length are at most those of the
\* windows it meets, however the windows lie and whenever the table is swept.
QuotaKept ==
  \A l \in Limiters : watched = l =>
    Cardinality({i \in Was({"passed"}) : history[i].at > -Window(l)})
      <= Windows * Max(l)

\* Who stays within the quota is served: a limiter refuses a request only when it has
\* seen more than the quota from the same client in the window that ends with it.
QuotaServed ==
  \A l \in Limiters : watched = l /\ answer.what = "refused" =>
    Cardinality({i \in DOMAIN history : history[i].at > answer.time - Window(l)}) > Max(l)

\* Retry-After is true: the next request of the client, when it is made no sooner
\* than it was told to (counted from the answer), is not refused by the same table.
RetryTrue == answer.what = "refused" => ~answer.waited

\* No one is locked out without cause: a lockout has as many failures of that client
\* behind it as the policy asks for, in one window, with no success among them; and a
\* login is refused only while a lockout is in force that no success has lifted.
LockedForCause ==
  watched = "throttler" =>
    /\ \A j \in Was({"locked"}) : history[j].at = 0 =>
         Cardinality({i \in 1..j : history[i].at > history[j].time - loginFailureWindow})
           >= loginMaxFailures
    /\ answer.what = "refused" =>
         \E j \in Was({"locked"}) : answer.time < history[j].time + loginLockout

\* When the latest lockout of the client, unless a success has lifted it, is over.
LockoutEnd ==
  LET last == CHOOSE i \in Was({"locked"}) : \A j \in Was({"locked"}) : j <= i
  IN  history[last].time + loginLockout

\* A lockout holds until its last second, which LockedFor rounds down to 0: no login
\* passes the check before, whatever other requests and sweeps happen meanwhile, unless
\* one of the client's logins succeeds.
LockoutHeld ==
  watched = "throttler" /\ answer.what = "passed" /\ Was({"locked"}) # {} =>
    answer.time > LockoutEnd - Second

\* What LockedFor is said to tell ("retryAfter > 0 seconds when locked out"): no login
\* passes the check during a lockout, its last second included.
LockoutFull ==
  watched = "throttler" /\ answer.what = "passed" /\ Was({"locked"}) # {} =>
    answer.time >= LockoutEnd

\* Failures do not go on unnoticed: when more come in a row, within a window's length,
\* than the windows it meets tolerate, the client has been locked out.
FailuresNoticed ==
  watched = "throttler" =>
    \A i \in DOMAIN history :
      LET run == {j \in i..Len(history) : history[j].time - history[i].time < loginFailureWindow}
      IN  Cardinality(run) > Windows * (loginMaxFailures - 1) => run \cap Was({"locked"}) # {}

\* The limiters refuse what is above the quota and only that, and the time they tell a
\* client to wait is enough.
QuotaExact == QuotaKept /\ QuotaServed /\ RetryTrue

\* The throttler locks out after the failures of the policy and only then, and for as
\* long as the policy says but for the last second, in which logins pass again.
LockoutSound == LockedForCause /\ FailuresNoticed /\ LockoutHeld
=============================================================================
