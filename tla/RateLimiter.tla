---------------------------- MODULE RateLimiter ----------------------------
(***************************************************************************)
(* The two tables that throttle requests: SlidingWindowLimiter, which      *)
(* counts the requests of a key in a window, and LoginThrottler, which     *)
(* locks a key out after repeated failures.  Every method holds its        *)
(* table's mutex from start to end, so it is one function of the table.    *)
(*                                                                         *)
(* A time is a number of ticks, of which Second make a second.  A table is *)
(* a function on the keys that have an entry, with the time of its last    *)
(* sweep and, for the zero time points of a new entry, the epoch of the    *)
(* steady clock.                                                           *)
(***************************************************************************)
EXTENDS Integers, Sequences, Functions

CONSTANT Second

\* duration_cast<seconds>: truncates towards zero.
Seconds(d) == IF d < 0 THEN -((-d) \div Second) ELSE d \div Second

NewTable(epoch, now) == [entries |-> <<>>, lastSweep |-> now, epoch |-> epoch]

Entry(table, key, new) == IF key \in DOMAIN table.entries THEN table.entries[key] ELSE new

Put(table, key, e) ==
  [table EXCEPT !.entries = [k \in DOMAIN @ \cup {key} |-> IF k = key THEN e ELSE @[k]]]

Keep(table, keys, now) ==
  [table EXCEPT !.entries = Restrict(@, keys), !.lastSweep = now]
-----------------------------------------------------------------------------
(* SlidingWindowLimiter *)

Bucket(table) == [windowStart |-> table.epoch, count |-> 0]

SweepBuckets(table, window, now) ==
  IF now - table.lastSweep < window THEN table
  ELSE Keep(table, {k \in DOMAIN table.entries :
                      now - table.entries[k].windowStart < 2 * window}, now)

\* Faulty: lets one more pass than the quota.
Allow_Late(table, max, window, key, now) ==
  LET swept == SweepBuckets(table, window, now)
      old   == Entry(swept, key, Bucket(swept))
      b     == IF now - old.windowStart >= window THEN [windowStart |-> now, count |-> 0]
               ELSE old
      ok    == b.count <= max
      retry == IF ok THEN 0 ELSE window \div Second - Seconds(now - b.windowStart)
  IN  [table |-> Put(swept, key, [b EXCEPT !.count = @ + 1]), allowed |-> ok,
       retryAfter |-> IF retry > 0 THEN retry ELSE 1]

\* Allow: one more request of the key; retryAfter is in seconds.
Allow(table, max, window, key, now) ==
  LET swept == SweepBuckets(table, window, now)
      old   == Entry(swept, key, Bucket(swept))
      b     == IF now - old.windowStart >= window THEN [windowStart |-> now, count |-> 1]
               ELSE [old EXCEPT !.count = @ + 1]
      retry == IF b.count <= max THEN 0
               ELSE window \div Second - Seconds(now - b.windowStart)
  IN  [table |-> Put(swept, key, b), allowed |-> b.count <= max,
       retryAfter |-> IF retry > 0 THEN retry ELSE 1]
-----------------------------------------------------------------------------
(* LoginThrottler *)

Streak(table) == [firstFailure |-> table.epoch, failures |-> 0, lockedUntil |-> table.epoch]

\* LockedFor: the whole seconds left, so 0 in the last second of a lockout.
LockedFor(table, key, now) ==
  IF key \in DOMAIN table.entries /\ table.entries[key].lockedUntil > now
    THEN Seconds(table.entries[key].lockedUntil - now)
    ELSE 0

\* Faulty: forgets lockouts.
SweepStreaks_Locked(table, window, now) ==
  IF now - table.lastSweep < window THEN table
  ELSE Keep(table, {k \in DOMAIN table.entries :
                      LET e == table.entries[k]
                      IN  e.failures > 0 /\ now - e.firstFailure < window}, now)

SweepStreaks(table, window, now) ==
  IF now - table.lastSweep < window THEN table
  ELSE Keep(table, {k \in DOMAIN table.entries :
                      LET e == table.entries[k]
                      IN  \/ e.lockedUntil > now
                          \/ e.failures > 0 /\ now - e.firstFailure < window}, now)

\* RecordFailure: one more failure; a streak starts over when its window has passed.
RecordFailure(table, max, window, lockout, key, now) ==
  LET swept  == SweepStreaks(table, window, now)
      old    == Entry(swept, key, Streak(swept))
      first  == old.failures = 0 \/ now - old.firstFailure >= window
      n      == IF first THEN 1 ELSE old.failures + 1
      locked == n >= max
  IN  [table |-> Put(swept, key,
         [firstFailure |-> IF first THEN now ELSE old.firstFailure,
          failures |-> IF locked THEN 0 ELSE n,
          lockedUntil |-> IF locked THEN now + lockout ELSE old.lockedUntil]), locked |-> locked]

RecordSuccess(table, key) ==
  [table EXCEPT !.entries = Restrict(@, DOMAIN @ \ {key})]
=============================================================================
