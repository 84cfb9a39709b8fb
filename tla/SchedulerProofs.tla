-------------------------- MODULE SchedulerProofs --------------------------
(* Theorems about Scheduler, for every number of threads, every capacity   *)
(* and every limit of a drain.                                             *)
EXTENDS Scheduler, FiniteSetTheorems, TLAPS

Inv ==
  /\ TypeOK /\ SchedulerInv
  /\ SingleConsumer /\ PendingCounts /\ NeverStranded /\ IdleMeansDone /\ HandledInOrder

USE DEF Goto

\* The parts of a command.
LEMMA CommandParts ==
  /\ \A c \in Commands : c[1] \in Boxes /\ c[2] \in 1 .. MaxSubmits
  /\ None \notin Commands
BY ThreadsAssumption DEF Commands

\* What a mailbox holds are commands.
LEMMA EntryTypes ==
  ASSUME NEW q \in Seq(Entries)
  PROVE  /\ \A i \in DOMAIN q : q[i].value \in Commands /\ q[i].value # None
         /\ ValuesIn(q) \subseteq Commands
<1>1. \A i \in DOMAIN q : q[i] \in Entries
  OBVIOUS
<1>2. \A i \in DOMAIN q : q[i].value \in Commands
  BY <1>1 DEF Entries
<1> QED BY <1>2, CommandParts DEF ValuesIn

\* Reserving a position adds the command to what the mailbox holds.
LEMMA ReservedQueue ==
  ASSUME NEW q \in Seq(Entries), NEW c \in Commands
  PROVE  LET r == Append(q, [value |-> c, ready |-> FALSE]) IN
         /\ r \in Seq(Entries)
         /\ ValuesIn(r) = ValuesIn(q) \cup {c}
         /\ r # <<>>
         /\ DOMAIN r = DOMAIN q \cup {Len(q) + 1}
         /\ \A i \in DOMAIN q : r[i] = q[i]
         /\ r[Len(q) + 1] = [value |-> c, ready |-> FALSE]
<1> DEFINE r == Append(q, [value |-> c, ready |-> FALSE])
<1>1. [value |-> c, ready |-> FALSE] \in Entries
  BY DEF Entries
<1>2. r \in Seq(Entries) /\ Len(r) = Len(q) + 1 /\ Len(q) \in Nat
  BY <1>1
<1>3. /\ DOMAIN r = DOMAIN q \cup {Len(q) + 1}
      /\ \A i \in DOMAIN q : r[i] = q[i]
      /\ r[Len(q) + 1] = [value |-> c, ready |-> FALSE]
  BY <1>1, <1>2
<1>4. r[Len(q) + 1].value = c
  BY <1>3
<1> HIDE DEF r
<1>5. ValuesIn(r) = ValuesIn(q) \cup {c}
  BY <1>3, <1>4 DEF ValuesIn
<1>6. r # <<>>
  BY <1>2
<1> QED BY <1>2, <1>3, <1>5, <1>6 DEF r

\* Publishing changes nothing but the flag of one entry.
LEMMA PublishedQueue ==
  ASSUME NEW q \in Seq(Entries), NEW i \in DOMAIN q
  PROVE  LET r == Normal!Published(q, i) IN
         /\ r \in Seq(Entries)
         /\ ValuesIn(r) = ValuesIn(q)
         /\ r # <<>> /\ q # <<>>
         /\ DOMAIN r = DOMAIN q
         /\ \A j \in DOMAIN q : r[j].value = q[j].value
         /\ \A j \in DOMAIN q : j # i => r[j] = q[j]
<1> DEFINE r == Normal!Published(q, i)
<1>0. q[i] \in Entries
  OBVIOUS
<1>1. q[i].value \in Commands
  BY <1>0 DEF Entries
<1>2. [value |-> q[i].value, ready |-> TRUE] \in Entries
  BY <1>1 DEF Entries
<1>3. /\ r \in Seq(Entries) /\ Len(r) = Len(q) /\ DOMAIN r = DOMAIN q
      /\ \A j \in DOMAIN q : j # i => r[j] = q[j]
      /\ r[i] = [value |-> q[i].value, ready |-> TRUE]
  BY <1>2 DEF Normal!Published
<1>4. r[i].value = q[i].value
  BY <1>3
<1>5. r # <<>> /\ q # <<>>
  BY <1>3
<1> HIDE DEF r
<1>6. \A j \in DOMAIN q : r[j].value = q[j].value
  BY <1>3, <1>4
<1>7. ValuesIn(r) = ValuesIn(q)
  BY <1>3, <1>6 DEF ValuesIn
<1> QED BY <1>3, <1>5, <1>6, <1>7 DEF r

\* Taking the head removes its command from what the mailbox holds.
LEMMA PoppedQueue ==
  ASSUME NEW q \in Seq(Entries), q # <<>>,
         \A i, j \in DOMAIN q : q[i].value = q[j].value => i = j
  PROVE  LET r == Tail(q) IN
         /\ r \in Seq(Entries)
         /\ Head(q) = q[1] /\ 1 \in DOMAIN q
         /\ Head(q).value \in Commands /\ Head(q).value \in ValuesIn(q)
         /\ ValuesIn(r) = ValuesIn(q) \ {Head(q).value}
         /\ \A i \in DOMAIN r : i + 1 \in DOMAIN q /\ r[i] = q[i + 1]
<1> DEFINE r == Tail(q)
<1>1. /\ r \in Seq(Entries) /\ Len(r) = Len(q) - 1 /\ Len(q) \in Nat \ {0}
      /\ Head(q) = q[1] /\ 1 \in DOMAIN q /\ q[1] \in Entries
      /\ DOMAIN q = 1 .. Len(q) /\ DOMAIN r = 1 .. Len(q) - 1
      /\ \A i \in DOMAIN r : i + 1 \in DOMAIN q /\ r[i] = q[i + 1]
  OBVIOUS
<1>2. Head(q).value \in Commands /\ Head(q).value \in ValuesIn(q)
  BY <1>1 DEF Entries, ValuesIn
<1> HIDE DEF r
<1>3. ASSUME NEW c \in ValuesIn(r) PROVE c \in ValuesIn(q) \ {Head(q).value}
  <2>1. PICK i \in DOMAIN r : c = r[i].value
    BY DEF ValuesIn
  <2>2. c = q[i + 1].value /\ i + 1 \in DOMAIN q /\ i + 1 # 1
    BY <1>1, <2>1
  <2> QED BY <1>1, <2>2 DEF ValuesIn
<1>4. ASSUME NEW c \in ValuesIn(q), c # Head(q).value PROVE c \in ValuesIn(r)
  <2>1. PICK i \in DOMAIN q : c = q[i].value
    BY DEF ValuesIn
  <2>2. i # 1 /\ i - 1 \in DOMAIN r /\ (i - 1) + 1 = i
    BY <1>1, <1>4, <2>1
  <2>3. c = r[i - 1].value
    BY <1>1, <2>1, <2>2
  <2> QED BY <2>2, <2>3 DEF ValuesIn
<1>5. ValuesIn(r) = ValuesIn(q) \ {Head(q).value}
  BY <1>3, <1>4
<1> QED BY <1>1, <1>2, <1>5 DEF r

\* A reserved entry is not published.
LEMMA UnownedReserved ==
  ASSUME NEW q \in Seq(Entries), NEW c \in Commands, NEW f, Unowned(q, f)
  PROVE  Unowned(Append(q, [value |-> c, ready |-> FALSE]), f)
<1> DEFINE r == Append(q, [value |-> c, ready |-> FALSE])
<1>1. /\ DOMAIN r = DOMAIN q \cup {Len(q) + 1}
      /\ \A i \in DOMAIN q : r[i] = q[i]
      /\ r[Len(q) + 1] = [value |-> c, ready |-> FALSE]
  BY ReservedQueue
<1>2. r[Len(q) + 1].ready = FALSE
  BY <1>1
<1> HIDE DEF r
<1>3. Unowned(r, f)
  BY <1>1, <1>2 DEF Unowned
<1> QED BY <1>3 DEF r

\* An entry is published once its command was given away.
LEMMA UnownedPublished ==
  ASSUME NEW q \in Seq(Entries), NEW i \in DOMAIN q, NEW f, Unowned(q, f),
         \A u \in Threads : f[u] # q[i].value
  PROVE  Unowned(Normal!Published(q, i), f)
<1> DEFINE r == Normal!Published(q, i)
<1>1. /\ DOMAIN r = DOMAIN q
      /\ \A j \in DOMAIN q : r[j].value = q[j].value
      /\ \A j \in DOMAIN q : j # i => r[j] = q[j]
  BY PublishedQueue
<1> HIDE DEF r
<1>2. Unowned(r, f)
  BY <1>1 DEF Unowned
<1> QED BY <1>2 DEF r

\* The entries behind the head keep their flags.
LEMMA UnownedPopped ==
  ASSUME NEW q \in Seq(Entries), q # <<>>, NEW f, Unowned(q, f)
  PROVE  Unowned(Tail(q), f)
<1> DEFINE r == Tail(q)
<1>1. \A i \in DOMAIN r : i + 1 \in DOMAIN q /\ r[i] = q[i + 1]
  OBVIOUS
<1> HIDE DEF r
<1>2. Unowned(r, f)
  BY <1>1 DEF Unowned
<1> QED BY <1>2 DEF r
-----------------------------------------------------------------------------
(* The steps, one lemma for each conjunct of the inductive invariant.      *)

\* No step leaves the drain with two threads, or with a thread and a task.
LEMMA TokenStep == Inv /\ [Next]_vars => SingleConsumer'
<1> SUFFICES ASSUME Inv, [Next]_vars PROVE SingleConsumer'
  OBVIOUS
<1>0. TypeOK /\ SingleConsumer
  BY DEF Inv
<1>1. ASSUME NEW t \in Submitters, Announce(t) PROVE SingleConsumer'
  BY <1>1, <1>0 DEF TypeOK, SingleConsumer, Holds, Threads, gate, boxes, locals, closing, Announce
<1>2. ASSUME NEW t \in Submitters, CheckAdmission(t) PROVE SingleConsumer'
  BY <1>2, <1>0 DEF TypeOK, SingleConsumer, Holds, Threads, gate, boxes, locals, closing, CheckAdmission
<1>3. ASSUME NEW t \in Submitters, Reserve(t) PROVE SingleConsumer'
  <2>1. /\ pc[t] = "push" /\ t \in Threads /\ tasks' = tasks /\ drain_scheduled' = drain_scheduled
        /\ \E label \in {"publish", "reject"} : pc' = [pc EXCEPT ![t] = label]
    BY <1>3 DEF Reserve, Goto, Threads, gate
  <2>2. \A u \in Threads : pc'[u] = IF u = t THEN pc'[t] ELSE pc[u]
    BY <1>0, <2>1 DEF TypeOK
  <2>3. pc'[t] \in {"publish", "reject"}
    BY <1>0, <2>1 DEF TypeOK
  <2>4. \A u \in Threads : Holds(u)' <=> Holds(u)
    BY <2>1, <2>2, <2>3 DEF Holds
  <2> QED BY <1>0, <2>1, <2>4 DEF SingleConsumer
<1>4. ASSUME NEW t \in Submitters, Publish(t) PROVE SingleConsumer'
  BY <1>4, <1>0 DEF TypeOK, SingleConsumer, Holds, Threads, gate, boxes, locals, closing, Publish
<1>5. ASSUME NEW t \in Submitters, Reject(t) PROVE SingleConsumer'
  BY <1>5, <1>0 DEF TypeOK, SingleConsumer, Holds, Threads, gate, boxes, locals, closing, Reject, ReleasePending
<1>6. ASSUME NEW t \in Workers, RunDrainTask(t) PROVE SingleConsumer'
  BY <1>6, <1>0 DEF TypeOK, SingleConsumer, Holds, Threads, gate, boxes, locals, closing, RunDrainTask
<1>7. ASSUME NEW t \in Threads, Exchange(t) PROVE SingleConsumer'
  BY <1>7, <1>0 DEF TypeOK, SingleConsumer, Holds, Threads, gate, boxes, locals, closing, Exchange
<1>8. ASSUME NEW t \in Threads, Post(t) PROVE SingleConsumer'
  <2>1. CASE stopped
    BY <1>8, <2>1, <1>0 DEF TypeOK, SingleConsumer, Holds, Threads, gate, boxes, Post
  <2>2. CASE ~stopped
    <3>1. /\ pc' = [pc EXCEPT ![t] = "idle"] /\ tasks' = tasks + 1
          /\ UNCHANGED drain_scheduled /\ Holds(t)
      BY <1>8, <2>2 DEF Post, gate, Holds
    <3>2. tasks = 0 /\ drain_scheduled /\ \A u \in Threads : Holds(u) => u = t
      BY <1>0, <3>1 DEF SingleConsumer
    <3>3. \A u \in Threads : ~Holds(u)'
      BY <1>0, <3>1, <3>2 DEF Holds, TypeOK
    <3> QED BY <3>1, <3>2, <3>3 DEF SingleConsumer
  <2> QED BY <2>1, <2>2
<1>9. ASSUME NEW t \in Threads, PopPriority(t) PROVE SingleConsumer'
  BY <1>9, <1>0 DEF TypeOK, SingleConsumer, Holds, Threads, gate, boxes, locals, closing, PopPriority
<1>10. ASSUME NEW t \in Threads, PopNormal(t) PROVE SingleConsumer'
  BY <1>10, <1>0 DEF TypeOK, SingleConsumer, Holds, Threads, gate, boxes, locals, closing, PopNormal
<1>11. ASSUME NEW t \in Threads, CheckPending(t) PROVE SingleConsumer'
  BY <1>11, <1>0 DEF TypeOK, SingleConsumer, Holds, Threads, gate, boxes, locals, closing, CheckPending
<1>12. ASSUME NEW t \in Threads, Handle(t) PROVE SingleConsumer'
  BY <1>12, <1>0 DEF TypeOK, SingleConsumer, Holds, Threads, gate, boxes, locals, closing, Handle
<1>13. ASSUME NEW t \in Threads, Finish(t) PROVE SingleConsumer'
  BY <1>13, <1>0 DEF TypeOK, SingleConsumer, Holds, Threads, gate, boxes, locals, closing, Finish, Continue, ReleasePending
<1>14. ASSUME NEW t \in Threads, Clear(t) PROVE SingleConsumer'
  BY <1>14, <1>0 DEF TypeOK, SingleConsumer, Holds, Threads, gate, boxes, locals, closing, Clear
<1>15. ASSUME NEW t \in Threads, Recheck(t) PROVE SingleConsumer'
  BY <1>15, <1>0 DEF TypeOK, SingleConsumer, Holds, Threads, gate, boxes, locals, closing, Recheck
<1>16. ASSUME NEW t \in Threads, NotifyPending(t) PROVE SingleConsumer'
  BY <1>16, <1>0 DEF TypeOK, SingleConsumer, Holds, Threads, gate, boxes, locals, closing, NotifyPending, Continue
<1>17. ASSUME NEW t \in Threads, NotifyDrain(t) PROVE SingleConsumer'
  BY <1>17, <1>0 DEF TypeOK, SingleConsumer, Holds, Threads, gate, boxes, locals, closing, NotifyDrain
<1>18. CASE CloseAdmission
  BY <1>18, <1>0 DEF TypeOK, SingleConsumer, Holds, Threads, gate, boxes, locals, closing, CloseAdmission
<1>19. CASE WaitPending
  BY <1>19, <1>0 DEF TypeOK, SingleConsumer, Holds, Threads, gate, boxes, locals, closing, WaitPending
<1>20. CASE WaitDrain
  BY <1>20, <1>0 DEF TypeOK, SingleConsumer, Holds, Threads, gate, boxes, locals, closing, WaitDrain
<1>21. CASE StopExecutor
  BY <1>21, <1>0 DEF TypeOK, SingleConsumer, Holds, Threads, gate, boxes, locals, closing, StopExecutor
<1>22. CASE Quiet
  BY <1>22, <1>0 DEF TypeOK, SingleConsumer, Holds, Threads, gate, boxes, locals, closing, Quiet, vars
<1>23. CASE UNCHANGED vars
  BY <1>23, <1>0 DEF vars, TypeOK, SingleConsumer, Holds, Threads, gate, boxes, locals, closing
<1> QED BY <1>1, <1>2, <1>3, <1>4, <1>5, <1>6, <1>7, <1>8, <1>9, <1>10, <1>11, <1>12, <1>13,
       <1>14, <1>15, <1>16, <1>17, <1>18, <1>19, <1>20, <1>21, <1>22, <1>23, Zenon DEF Next,
       Submitting, Draining, Waiting

\* The batch limits hold at every step of the drain.
LEMMA LocalsStep == Inv /\ [Next]_vars => LocalsInv'
<1> SUFFICES ASSUME Inv, [Next]_vars PROVE LocalsInv'
  OBVIOUS
<1>0. TypeOK /\ LocalsInv /\ kMaxCommandsPerDrain \in Nat \ {0} /\ kHeadPublicationRetries \in Nat
  BY LimitsAssumption DEF Inv, SchedulerInv
<1>1. ASSUME NEW t \in Submitters, Announce(t) PROVE LocalsInv'
  BY <1>1, <1>0 DEF TypeOK, LocalsInv, Holds, Threads, gate, boxes, locals, closing, Announce
<1>2. ASSUME NEW t \in Submitters, CheckAdmission(t) PROVE LocalsInv'
  BY <1>2, <1>0 DEF TypeOK, LocalsInv, Holds, Threads, gate, boxes, locals, closing, CheckAdmission
<1>3. ASSUME NEW t \in Submitters, Reserve(t) PROVE LocalsInv'
  BY <1>3, <1>0 DEF TypeOK, LocalsInv, Holds, Threads, gate, boxes, locals, closing, Reserve
<1>4. ASSUME NEW t \in Submitters, Publish(t) PROVE LocalsInv'
  BY <1>4, <1>0 DEF TypeOK, LocalsInv, Holds, Threads, gate, boxes, locals, closing, Publish
<1>5. ASSUME NEW t \in Submitters, Reject(t) PROVE LocalsInv'
  BY <1>5, <1>0 DEF TypeOK, LocalsInv, Holds, Threads, gate, boxes, locals, closing, Reject, ReleasePending
<1>6. ASSUME NEW t \in Workers, RunDrainTask(t) PROVE LocalsInv'
  BY <1>6, <1>0 DEF TypeOK, LocalsInv, Holds, Threads, gate, boxes, locals, closing, RunDrainTask
<1>7. ASSUME NEW t \in Threads, Exchange(t) PROVE LocalsInv'
  BY <1>7, <1>0 DEF TypeOK, LocalsInv, Holds, Threads, gate, boxes, locals, closing, Exchange
<1>8. ASSUME NEW t \in Threads, Post(t) PROVE LocalsInv'
  BY <1>8, <1>0 DEF TypeOK, LocalsInv, Holds, Threads, gate, boxes, locals, closing, Post
<1>9. ASSUME NEW t \in Threads, PopPriority(t) PROVE LocalsInv'
  BY <1>9, <1>0 DEF TypeOK, LocalsInv, Holds, Threads, gate, boxes, locals, closing, PopPriority
<1>10. ASSUME NEW t \in Threads, PopNormal(t) PROVE LocalsInv'
  BY <1>10, <1>0 DEF TypeOK, LocalsInv, Holds, Threads, gate, boxes, locals, closing, PopNormal
<1>11. ASSUME NEW t \in Threads, CheckPending(t) PROVE LocalsInv'
  <2>1. CASE pending_count = 0
    BY <1>11, <2>1, <1>0 DEF TypeOK, LocalsInv, Holds, CheckPending
  <2>2. CASE pending_count # 0
    <3>1. /\ retries' = [retries EXCEPT ![t] = retries[t] + 1] /\ UNCHANGED processed
          /\ retries[t] \in Nat /\ processed[t] < kMaxCommandsPerDrain
      BY <1>11, <2>2, <1>0 DEF TypeOK, LocalsInv, CheckPending
    <3>2. CASE retries[t] + 1 > kHeadPublicationRetries
      <4>1. pc' = [pc EXCEPT ![t] = "clear"]
        BY <1>11, <2>2, <3>2 DEF CheckPending
      <4> QED BY <1>0, <3>1, <4>1 DEF TypeOK, LocalsInv, Holds
    <3>3. CASE retries[t] + 1 <= kHeadPublicationRetries
      <4>1. pc' = [pc EXCEPT ![t] = "pop_priority"]
        BY <1>11, <2>2, <3>1, <3>3, <1>0 DEF CheckPending
      <4> QED BY <1>0, <3>1, <3>3, <4>1 DEF TypeOK, LocalsInv, Holds
    <3> QED BY <1>0, <3>1, <3>2, <3>3
  <2> QED BY <2>1, <2>2
<1>12. ASSUME NEW t \in Threads, Handle(t) PROVE LocalsInv'
  BY <1>12, <1>0 DEF TypeOK, LocalsInv, Holds, Threads, gate, boxes, locals, closing, Handle
<1>13. ASSUME NEW t \in Threads, Finish(t) PROVE LocalsInv'
  BY <1>13, <1>0 DEF TypeOK, LocalsInv, Holds, Threads, gate, boxes, locals, closing, Finish, Continue, ReleasePending
<1>14. ASSUME NEW t \in Threads, Clear(t) PROVE LocalsInv'
  BY <1>14, <1>0 DEF TypeOK, LocalsInv, Holds, Threads, gate, boxes, locals, closing, Clear
<1>15. ASSUME NEW t \in Threads, Recheck(t) PROVE LocalsInv'
  BY <1>15, <1>0 DEF TypeOK, LocalsInv, Holds, Threads, gate, boxes, locals, closing, Recheck
<1>16. ASSUME NEW t \in Threads, NotifyPending(t) PROVE LocalsInv'
  BY <1>16, <1>0, SMTT(30) DEF TypeOK, LocalsInv, Holds, Threads, gate, boxes, locals, closing, NotifyPending, Continue
<1>17. ASSUME NEW t \in Threads, NotifyDrain(t) PROVE LocalsInv'
  BY <1>17, <1>0 DEF TypeOK, LocalsInv, Holds, Threads, gate, boxes, locals, closing, NotifyDrain
<1>18. CASE CloseAdmission
  BY <1>18, <1>0 DEF TypeOK, LocalsInv, Holds, Threads, gate, boxes, locals, closing, CloseAdmission
<1>19. CASE WaitPending
  BY <1>19, <1>0 DEF TypeOK, LocalsInv, Holds, Threads, gate, boxes, locals, closing, WaitPending
<1>20. CASE WaitDrain
  BY <1>20, <1>0 DEF TypeOK, LocalsInv, Holds, Threads, gate, boxes, locals, closing, WaitDrain
<1>21. CASE StopExecutor
  BY <1>21, <1>0 DEF TypeOK, LocalsInv, Holds, Threads, gate, boxes, locals, closing, StopExecutor
<1>22. CASE Quiet
  BY <1>22, <1>0 DEF TypeOK, LocalsInv, Holds, Threads, gate, boxes, locals, closing, Quiet, vars
<1>23. CASE UNCHANGED vars
  BY <1>23, <1>0 DEF vars, TypeOK, LocalsInv, Holds, Threads, gate, boxes, locals, closing
<1> QED BY <1>1, <1>2, <1>3, <1>4, <1>5, <1>6, <1>7, <1>8, <1>9, <1>10, <1>11, <1>12, <1>13,
       <1>14, <1>15, <1>16, <1>17, <1>18, <1>19, <1>20, <1>21, <1>22, <1>23, Zenon DEF Next,
       Submitting, Draining, Waiting

\* Every command is in one place, and pending_count_ counts them.
Accounts ==
  /\ QueueInv(mailbox, "normal") /\ QueueInv(priority_mailbox, "priority")
  /\ OwnersInv
  /\ IsFiniteSet(inflight)
  /\ PendingCounts

Carrying == {"admit", "push", "publish", "reject", "handle", "finish"}

\* What OwnersInv says, with the states of a thread that has a command named.
LEMMA OwnersFacts ==
  ASSUME Accounts
  PROVE  /\ \A u \in Threads :
            /\ command[u] # None <=> pc[u] \in Carrying
            /\ command[u] # None => command[u][2] <= submits
            /\ pc[u] \in Carrying \ {"publish"} =>
                 command[u] \notin ValuesIn(mailbox) /\ command[u] \notin ValuesIn(priority_mailbox)
         /\ Distinct(command) /\ Unowned(mailbox, command) /\ Unowned(priority_mailbox, command)
BY DEF Accounts, OwnersInv, Carrying

\* The same, to conclude with.
LEMMA OwnersFrom ==
  ASSUME \A u \in Threads :
          /\ command'[u] # None <=> pc'[u] \in Carrying
          /\ command'[u] # None => command'[u][2] <= submits'
          /\ pc'[u] \in Carrying \ {"publish"} =>
               command'[u] \notin ValuesIn(mailbox') /\ command'[u] \notin ValuesIn(priority_mailbox'),
         Distinct(command'), Unowned(mailbox', command'), Unowned(priority_mailbox', command')
  PROVE  OwnersInv'
BY DEF OwnersInv, Carrying

\* Steps that move no command keep the accounts.
LEMMA AccountsFrame ==
  ASSUME Accounts,
         UNCHANGED <<mailbox, priority_mailbox, command, submits, inflight, pending_count>>,
         \A t \in Threads : pc'[t] \in Carrying <=> pc[t] \in Carrying,
         \A t \in Threads : pc'[t] \in Carrying \ {"publish"} => pc[t] \in Carrying \ {"publish"}
  PROVE  Accounts'
<1>1. QueueInv(mailbox, "normal")' /\ QueueInv(priority_mailbox, "priority")'
  BY DEF Accounts, QueueInv, ValuesIn
<1>2. IsFiniteSet(inflight)' /\ PendingCounts'
  BY DEF Accounts, PendingCounts, ValuesIn
<1>3. OwnersInv'
  BY OwnersFacts, OwnersFrom
<1> QED BY <1>1, <1>2, <1>3 DEF Accounts

\* Announcing a submission creates a command that was nowhere before.
LEMMA AnnounceAccounts ==
  ASSUME TypeOK, Accounts, NEW t \in Threads, Announce(t)
  PROVE  Accounts'
<1>1. PICK b \in Boxes :
        /\ command' = [command EXCEPT ![t] = <<b, submits + 1>>]
        /\ inflight' = inflight \cup {<<b, submits + 1>>}
  BY DEF Announce
<1> DEFINE c == <<b, submits + 1>>
<1>2. /\ pc[t] = "idle" /\ pc' = [pc EXCEPT ![t] = "admit"]
      /\ submits' = submits + 1 /\ submits \in Nat /\ submits < MaxSubmits
      /\ pending_count' = pending_count + 1
      /\ mailbox' = mailbox /\ priority_mailbox' = priority_mailbox
      /\ command[t] = None
  <2>1. submits \in Nat
    BY LimitsAssumption DEF TypeOK
  <2>2. pc[t] = "idle" => command[t] = None
    BY DEF Accounts, OwnersInv
  <2> QED BY <2>1, <2>2 DEF Announce, boxes
<1>3. c \in Commands /\ c # None /\ c[2] = submits + 1 /\ c[1] \in Boxes
  BY <1>2, LimitsAssumption, CommandParts DEF Commands
<1> HIDE DEF c
<1>4. \A d \in inflight : d[2] <= submits
  BY DEF Accounts, PendingCounts, OwnersInv, QueueInv
<1>5. c \notin inflight
  BY <1>2, <1>3, <1>4
<1>6. \A d \in ValuesIn(mailbox) \cup ValuesIn(priority_mailbox) : d[2] \in Nat /\ d \in inflight
  <2>1. ValuesIn(mailbox) \subseteq Commands /\ ValuesIn(priority_mailbox) \subseteq Commands
    BY EntryTypes DEF TypeOK
  <2> QED BY <2>1, CommandParts, LimitsAssumption DEF Accounts, PendingCounts
<1>7. \A u \in Threads : command[u] # None => command[u][2] \in Nat /\ command[u] \in inflight
  <2>1. \A u \in Threads : command[u] # None => command[u] \in Commands
    BY DEF TypeOK
  <2>2. \A u \in Threads : command[u] # None => command[u][2] \in Nat
    BY <2>1, CommandParts, LimitsAssumption
  <2> QED BY <2>2 DEF Accounts, PendingCounts
<1>8. QueueInv(mailbox, "normal")' /\ QueueInv(priority_mailbox, "priority")'
  BY <1>2, <1>6 DEF Accounts, QueueInv
<1>9. /\ command' = [command EXCEPT ![t] = c] /\ inflight' = inflight \cup {c}
      /\ \A u \in Threads : command'[u] = IF u = t THEN c ELSE command[u]
      /\ \A u \in Threads : pc'[u] = IF u = t THEN "admit" ELSE pc[u]
  BY <1>1, <1>2 DEF c, TypeOK
<1>10. OwnersInv'
  <2>1. \A u \in Threads :
          /\ command'[u] # None <=> pc'[u] \in Carrying
          /\ command'[u] # None => command'[u][2] <= submits'
          /\ pc'[u] \in Carrying \ {"publish"} =>
               command'[u] \notin ValuesIn(mailbox') /\ command'[u] \notin ValuesIn(priority_mailbox')
    <3>1. SUFFICES ASSUME NEW u \in Threads
                   PROVE  /\ command'[u] # None <=> pc'[u] \in Carrying
                          /\ command'[u] # None => command'[u][2] <= submits'
                          /\ pc'[u] \in Carrying \ {"publish"} =>
                               command'[u] \notin ValuesIn(mailbox') /\ command'[u] \notin ValuesIn(priority_mailbox')
      OBVIOUS
    <3>2. CASE u = t
      BY <1>2, <1>3, <1>5, <1>6, <1>9, <3>2 DEF Carrying
    <3>3. CASE u # t
      <4>1. /\ command'[u] = command[u] /\ pc'[u] = pc[u]
            /\ mailbox' = mailbox /\ priority_mailbox' = priority_mailbox
        BY <1>2, <1>9, <3>3
      <4>2. command[u] # None => command[u][2] <= submits'
        BY <1>2, <1>7, OwnersFacts
      <4> QED BY <4>1, <4>2, OwnersFacts
    <3> QED BY <3>2, <3>3
  <2>a. Distinct(command) /\ Unowned(mailbox, command) /\ Unowned(priority_mailbox, command)
    BY OwnersFacts
  <2>b. \A u \in Threads : u # t => command'[u] = command[u]
    BY <1>9
  <2>2. \A u \in Threads : u # t => command'[u] # command'[t] \/ command'[t] = None
    BY <1>3, <1>5, <1>7, <1>9
  <2>3. Distinct(command')
    BY <2>a, <2>b, <2>2 DEF Distinct
  <2>4. /\ \A i \in DOMAIN mailbox : mailbox[i].value # command'[t]
        /\ \A i \in DOMAIN priority_mailbox : priority_mailbox[i].value # command'[t]
    BY <1>5, <1>6, <1>9 DEF ValuesIn
  <2>5. Unowned(mailbox, command') /\ Unowned(priority_mailbox, command')
    BY <2>a, <2>b, <2>4 DEF Unowned
  <2> QED BY <1>2, <2>1, <2>3, <2>5, OwnersFrom
<1>11. IsFiniteSet(inflight)' /\ pending_count' = Cardinality(inflight')
  BY <1>2, <1>5, <1>9, FS_AddElement DEF Accounts, PendingCounts
<1>12. inflight' = ValuesIn(mailbox') \cup ValuesIn(priority_mailbox')
                     \cup ({command'[u] : u \in Threads} \ {None})
  <2>1. {command'[u] : u \in Threads} \ {None} = ({command[u] : u \in Threads} \ {None}) \cup {c}
    BY <1>2, <1>3, <1>9
  <2> QED BY <1>2, <1>9, <2>1 DEF Accounts, PendingCounts
<1> QED BY <1>8, <1>10, <1>11, <1>12 DEF Accounts, PendingCounts

\* Rejecting or finishing a command takes it out of the accounts.
LEMMA ReleaseAccounts ==
  ASSUME TypeOK, Accounts, NEW t \in Threads, pc[t] \in {"reject", "finish"}, ReleasePending(t),
         UNCHANGED <<mailbox, priority_mailbox, submits>>,
         NEW label, pc' = [pc EXCEPT ![t] = label], label \notin Carrying
  PROVE  Accounts' /\ pending_count > 0
<1> DEFINE c == command[t]
<1>1. /\ c # None /\ c \in Commands
      /\ c \notin ValuesIn(mailbox) /\ c \notin ValuesIn(priority_mailbox)
      /\ \A u \in Threads : command[u] = c => u = t
  <2>1. pc[t] \in Carrying /\ pc[t] \in Carrying \ {"publish"}
    BY DEF Carrying
  <2>2. c # None /\ c \notin ValuesIn(mailbox) /\ c \notin ValuesIn(priority_mailbox)
    BY <2>1, OwnersFacts
  <2>3. c \in Commands
    BY <2>2 DEF TypeOK
  <2>4. \A u \in Threads : command[u] = c => u = t
    BY <2>2, OwnersFacts DEF Distinct
  <2> QED BY <2>2, <2>3, <2>4
<1>2. c \in inflight
  BY <1>1 DEF Accounts, PendingCounts
<1>3. /\ \A u \in Threads : command'[u] = IF u = t THEN None ELSE command[u]
      /\ \A u \in Threads : pc'[u] = IF u = t THEN label ELSE pc[u]
      /\ inflight' = inflight \ {c} /\ pending_count' = pending_count - 1
  BY DEF ReleasePending, TypeOK
<1> HIDE DEF c
<1>4. IsFiniteSet(inflight)' /\ pending_count' = Cardinality(inflight') /\ pending_count > 0
  <2>1. IsFiniteSet(inflight) /\ pending_count = Cardinality(inflight) /\ pending_count \in Nat
    BY DEF Accounts, PendingCounts, TypeOK
  <2>2. Cardinality(inflight) # 0
    BY <1>2, <2>1, FS_EmptySet
  <2>3. IsFiniteSet(inflight \ {c}) /\ Cardinality(inflight \ {c}) = Cardinality(inflight) - 1
    BY <1>2, <2>1, FS_RemoveElement
  <2> QED BY <1>3, <2>1, <2>2, <2>3
<1>5. QueueInv(mailbox, "normal")' /\ QueueInv(priority_mailbox, "priority")'
  BY DEF Accounts, QueueInv
<1>6. OwnersInv'
  <2>1. \A u \in Threads :
          /\ command'[u] # None <=> pc'[u] \in Carrying
          /\ command'[u] # None => command'[u][2] <= submits'
          /\ pc'[u] \in Carrying \ {"publish"} =>
               command'[u] \notin ValuesIn(mailbox') /\ command'[u] \notin ValuesIn(priority_mailbox')
    BY <1>3, OwnersFacts
  <2>a. Distinct(command) /\ Unowned(mailbox, command) /\ Unowned(priority_mailbox, command)
    BY OwnersFacts
  <2>b. command'[t] = None /\ \A u \in Threads : u # t => command'[u] = command[u]
    BY <1>3
  <2>2. Distinct(command')
    BY <2>a, <2>b DEF Distinct
  <2>3. /\ \A i \in DOMAIN mailbox : mailbox[i].value # None
        /\ \A i \in DOMAIN priority_mailbox : priority_mailbox[i].value # None
    BY EntryTypes DEF TypeOK
  <2>4. Unowned(mailbox, command') /\ Unowned(priority_mailbox, command')
    BY <2>a, <2>b, <2>3 DEF Unowned
  <2> QED BY <2>1, <2>2, <2>4, OwnersFrom
<1>7. inflight' = ValuesIn(mailbox') \cup ValuesIn(priority_mailbox')
                    \cup ({command'[u] : u \in Threads} \ {None})
  <2>a. command[t] = c /\ command'[t] = None
    BY <1>3 DEF c
  <2>b. \A u \in Threads : u # t => command'[u] = command[u] /\ command[u] # c
    BY <1>1, <1>3
  <2>1. {command'[u] : u \in Threads} \ {None} = ({command[u] : u \in Threads} \ {None}) \ {c}
    BY <2>a, <2>b
  <2> QED BY <1>1, <1>3, <2>1 DEF Accounts, PendingCounts
<1> QED BY <1>4, <1>5, <1>6, <1>7 DEF Accounts, PendingCounts

\* A reserved command is in its mailbox and still with its thread.
LEMMA ReserveAccounts ==
  ASSUME TypeOK, Accounts, NEW t \in Threads, Reserve(t)
  PROVE  Accounts'
<1> DEFINE c == command[t]
<1>1. /\ pc[t] = "push" /\ c \in Commands /\ c # None /\ c[2] <= submits
      /\ c \notin ValuesIn(mailbox) /\ c \notin ValuesIn(priority_mailbox)
      /\ c \in inflight
  <2>1. pc[t] = "push"
    BY DEF Reserve
  <2>2. /\ c # None /\ c[2] <= submits
        /\ c \notin ValuesIn(mailbox) /\ c \notin ValuesIn(priority_mailbox)
    BY <2>1 DEF Accounts, OwnersInv
  <2>3. c \in Commands
    BY <2>2 DEF TypeOK
  <2> QED BY <2>1, <2>2, <2>3 DEF Accounts, PendingCounts
<1>2. /\ command' = command /\ submits' = submits /\ inflight' = inflight
      /\ pending_count' = pending_count
  BY DEF Reserve, gate, locals
<1>3. /\ mailbox \in Seq(Entries) /\ priority_mailbox \in Seq(Entries)
  BY DEF TypeOK
<1>4. CASE /\ BoxOf(c) = "normal" /\ mailbox' = Append(mailbox, [value |-> c, ready |-> FALSE])
            /\ pc' = [pc EXCEPT ![t] = "publish"] /\ priority_mailbox' = priority_mailbox
  <2> HIDE DEF c
  <2>1. /\ mailbox' \in Seq(Entries) /\ ValuesIn(mailbox') = ValuesIn(mailbox) \cup {c}
        /\ DOMAIN mailbox' = DOMAIN mailbox \cup {Len(mailbox) + 1} /\ Len(mailbox) + 1 \notin DOMAIN mailbox
        /\ \A i \in DOMAIN mailbox : mailbox'[i] = mailbox[i]
        /\ mailbox'[Len(mailbox) + 1] = [value |-> c, ready |-> FALSE]
    <3>1. Len(mailbox) + 1 \notin DOMAIN mailbox
      BY <1>3
    <3>2. c \in Commands /\ mailbox \in Seq(Entries) /\ mailbox' = Append(mailbox, [value |-> c, ready |-> FALSE])
      BY <1>1, <1>3, <1>4
    <3> QED BY <3>1, <3>2, ReservedQueue, Zenon
  <2>2. mailbox'[Len(mailbox) + 1].value = c /\ (mailbox'[Len(mailbox) + 1].ready <=> FALSE)
    BY <2>1
  <2>3. QueueInv(mailbox, "normal")' /\ QueueInv(priority_mailbox, "priority")'
    <3>1. \A i \in DOMAIN mailbox : mailbox[i].value # c
      BY <1>1 DEF ValuesIn
    <3>2. \A i, j \in DOMAIN mailbox' : mailbox'[i].value = mailbox'[j].value => i = j
      BY <2>1, <2>2, <3>1 DEF Accounts, QueueInv
    <3>3. \A d \in ValuesIn(mailbox') : BoxOf(d) = "normal" /\ d[2] <= submits'
      BY <1>1, <1>2, <1>4, <2>1 DEF Accounts, QueueInv
    <3> QED BY <1>2, <1>4, <3>2, <3>3 DEF Accounts, QueueInv
  <2>4. OwnersInv'
    <3>1. \A u \in Threads : pc'[u] = IF u = t THEN "publish" ELSE pc[u]
      BY <1>4 DEF TypeOK
    <3>2. \A u \in Threads : u # t => command[u] # c
      BY <1>1, OwnersFacts DEF Distinct, c
    <3>3. \A u \in Threads :
            /\ command'[u] # None <=> pc'[u] \in Carrying
            /\ command'[u] # None => command'[u][2] <= submits'
            /\ pc'[u] \in Carrying \ {"publish"} =>
                 command'[u] \notin ValuesIn(mailbox') /\ command'[u] \notin ValuesIn(priority_mailbox')
      <4>1. pc[t] \in Carrying /\ "publish" \in Carrying
        BY <1>1 DEF Carrying
      <4> QED BY <1>1, <1>2, <1>4, <2>1, <3>1, <3>2, <4>1, OwnersFacts
    <3>4. Unowned(mailbox', command')
      BY <1>1, <1>2, <1>3, <1>4, OwnersFacts, UnownedReserved
    <3> QED BY <1>2, <1>4, <3>3, <3>4, OwnersFacts, OwnersFrom
  <2>5. IsFiniteSet(inflight)' /\ PendingCounts'
    <3>1. /\ inflight = ValuesIn(mailbox) \cup ValuesIn(priority_mailbox)
                          \cup ({command[u] : u \in Threads} \ {None})
          /\ pending_count = Cardinality(inflight) /\ IsFiniteSet(inflight)
      BY DEF Accounts, PendingCounts
    <3>2. ValuesIn(mailbox') \cup ValuesIn(priority_mailbox')
            = (ValuesIn(mailbox) \cup ValuesIn(priority_mailbox)) \cup {c}
      BY <1>4, <2>1
    <3> QED BY <1>1, <1>2, <3>1, <3>2 DEF PendingCounts
  <2> QED BY <2>3, <2>4, <2>5 DEF Accounts
<1>5. CASE /\ BoxOf(c) = "priority" /\ priority_mailbox' = Append(priority_mailbox, [value |-> c, ready |-> FALSE])
            /\ pc' = [pc EXCEPT ![t] = "publish"] /\ mailbox' = mailbox
  <2> HIDE DEF c
  <2>1. /\ priority_mailbox' \in Seq(Entries) /\ ValuesIn(priority_mailbox') = ValuesIn(priority_mailbox) \cup {c}
        /\ DOMAIN priority_mailbox' = DOMAIN priority_mailbox \cup {Len(priority_mailbox) + 1} /\ Len(priority_mailbox) + 1 \notin DOMAIN priority_mailbox
        /\ \A i \in DOMAIN priority_mailbox : priority_mailbox'[i] = priority_mailbox[i]
        /\ priority_mailbox'[Len(priority_mailbox) + 1] = [value |-> c, ready |-> FALSE]
    <3>1. Len(priority_mailbox) + 1 \notin DOMAIN priority_mailbox
      BY <1>3
    <3>2. c \in Commands /\ priority_mailbox \in Seq(Entries) /\ priority_mailbox' = Append(priority_mailbox, [value |-> c, ready |-> FALSE])
      BY <1>1, <1>3, <1>5
    <3> QED BY <3>1, <3>2, ReservedQueue, Zenon
  <2>2. priority_mailbox'[Len(priority_mailbox) + 1].value = c /\ (priority_mailbox'[Len(priority_mailbox) + 1].ready <=> FALSE)
    BY <2>1
  <2>3. QueueInv(priority_mailbox, "priority")' /\ QueueInv(mailbox, "normal")'
    <3>1. \A i \in DOMAIN priority_mailbox : priority_mailbox[i].value # c
      BY <1>1 DEF ValuesIn
    <3>2. \A i, j \in DOMAIN priority_mailbox' : priority_mailbox'[i].value = priority_mailbox'[j].value => i = j
      BY <2>1, <2>2, <3>1 DEF Accounts, QueueInv
    <3>3. \A d \in ValuesIn(priority_mailbox') : BoxOf(d) = "priority" /\ d[2] <= submits'
      BY <1>1, <1>2, <1>5, <2>1 DEF Accounts, QueueInv
    <3> QED BY <1>2, <1>5, <3>2, <3>3 DEF Accounts, QueueInv
  <2>4. OwnersInv'
    <3>1. \A u \in Threads : pc'[u] = IF u = t THEN "publish" ELSE pc[u]
      BY <1>5 DEF TypeOK
    <3>2. \A u \in Threads : u # t => command[u] # c
      BY <1>1, OwnersFacts DEF Distinct, c
    <3>3. \A u \in Threads :
            /\ command'[u] # None <=> pc'[u] \in Carrying
            /\ command'[u] # None => command'[u][2] <= submits'
            /\ pc'[u] \in Carrying \ {"publish"} =>
                 command'[u] \notin ValuesIn(mailbox') /\ command'[u] \notin ValuesIn(priority_mailbox')
      <4>1. pc[t] \in Carrying /\ "publish" \in Carrying
        BY <1>1 DEF Carrying
      <4> QED BY <1>1, <1>2, <1>5, <2>1, <3>1, <3>2, <4>1, OwnersFacts
    <3>4. Unowned(priority_mailbox', command')
      BY <1>1, <1>2, <1>3, <1>5, OwnersFacts, UnownedReserved
    <3> QED BY <1>2, <1>5, <3>3, <3>4, OwnersFacts, OwnersFrom
  <2>5. IsFiniteSet(inflight)' /\ PendingCounts'
    <3>1. /\ inflight = ValuesIn(mailbox) \cup ValuesIn(priority_mailbox)
                          \cup ({command[u] : u \in Threads} \ {None})
          /\ pending_count = Cardinality(inflight) /\ IsFiniteSet(inflight)
      BY DEF Accounts, PendingCounts
    <3>2. ValuesIn(mailbox') \cup ValuesIn(priority_mailbox')
            = (ValuesIn(mailbox) \cup ValuesIn(priority_mailbox)) \cup {c}
      BY <1>5, <2>1
    <3> QED BY <1>1, <1>2, <3>1, <3>2 DEF PendingCounts
  <2> QED BY <2>3, <2>4, <2>5 DEF Accounts
<1>6. CASE /\ pc' = [pc EXCEPT ![t] = "reject"]
           /\ mailbox' = mailbox /\ priority_mailbox' = priority_mailbox
  <2>1. \A u \in Threads : pc'[u] = IF u = t THEN "reject" ELSE pc[u]
    BY <1>6 DEF TypeOK
  <2>2. /\ \A u \in Threads : pc'[u] \in Carrying <=> pc[u] \in Carrying
        /\ \A u \in Threads : pc'[u] \in Carrying \ {"publish"} => pc[u] \in Carrying \ {"publish"}
    BY <1>1, <2>1 DEF Carrying
  <2> QED BY <1>2, <1>6, <2>2, AccountsFrame
<1> QED BY <1>4, <1>5, <1>6
        DEF Reserve, Normal!Reserve, Normal!Reserved, Priority!Reserve, Priority!Reserved

\* A published command is in its mailbox only.
LEMMA PublishAccounts ==
  ASSUME TypeOK, Accounts, NEW t \in Threads, Publish(t)
  PROVE  Accounts'
<1> DEFINE c == command[t]
<1>1. /\ pc[t] = "publish" /\ pc' = [pc EXCEPT ![t] = "exchange"]
      /\ command' = [command EXCEPT ![t] = None]
      /\ submits' = submits /\ inflight' = inflight /\ pending_count' = pending_count
  BY DEF Publish, gate, locals
<1>2. /\ mailbox \in Seq(Entries) /\ priority_mailbox \in Seq(Entries)
      /\ \A u \in Threads : pc'[u] = IF u = t THEN "exchange" ELSE pc[u]
      /\ \A u \in Threads : command'[u] = IF u = t THEN None ELSE command[u]
  BY <1>1 DEF TypeOK
<1>3. c # None /\ \A u \in Threads : command[u] = c => u = t
  <2>1. pc[t] \in Carrying
    BY <1>1 DEF Carrying
  <2> QED BY <2>1, OwnersFacts DEF Distinct
<1>4. {command'[u] : u \in Threads} \ {None} = ({command[u] : u \in Threads} \ {None}) \ {c}
  BY <1>2, <1>3
<1>5. /\ \A i \in DOMAIN mailbox : mailbox[i].value # None
      /\ \A i \in DOMAIN priority_mailbox : priority_mailbox[i].value # None
  BY <1>2, EntryTypes
<1> HIDE DEF c
<1>6. ASSUME NEW i \in DOMAIN mailbox, mailbox[i].value = c, mailbox' = Normal!Published(mailbox, i), priority_mailbox' = priority_mailbox
      PROVE  Accounts'
  <2>1. /\ mailbox' \in Seq(Entries) /\ ValuesIn(mailbox') = ValuesIn(mailbox) /\ DOMAIN mailbox' = DOMAIN mailbox
        /\ \A j \in DOMAIN mailbox : mailbox'[j].value = mailbox[j].value
        /\ \A j \in DOMAIN mailbox : j # i => mailbox'[j] = mailbox[j]
    BY <1>2, <1>6, PublishedQueue
  <2>2. c \in ValuesIn(mailbox)
    BY <1>6 DEF ValuesIn
  <2>3. QueueInv(mailbox, "normal")' /\ QueueInv(priority_mailbox, "priority")'
    BY <1>1, <1>6, <2>1 DEF Accounts, QueueInv
  <2>4. OwnersInv'
    <3>1. \A u \in Threads :
            /\ command'[u] # None <=> pc'[u] \in Carrying
            /\ command'[u] # None => command'[u][2] <= submits'
            /\ pc'[u] \in Carrying \ {"publish"} =>
                 command'[u] \notin ValuesIn(mailbox') /\ command'[u] \notin ValuesIn(priority_mailbox')
      <4>1. "exchange" \notin Carrying
        BY DEF Carrying
      <4> QED BY <1>1, <1>2, <1>6, <2>1, <4>1, OwnersFacts
    <3>a. Distinct(command) /\ Unowned(mailbox, command) /\ Unowned(priority_mailbox, command)
      BY OwnersFacts
    <3>b. command'[t] = None /\ \A u \in Threads : u # t => command'[u] = command[u]
      BY <1>2
    <3>2. Distinct(command')
      BY <3>a, <3>b DEF Distinct
    <3>3. Unowned(mailbox, command') /\ Unowned(priority_mailbox, command')
      BY <3>a, <3>b, <1>5 DEF Unowned
    <3>4. \A u \in Threads : command'[u] # mailbox[i].value
      BY <1>2, <1>3, <1>6
    <3>5. Unowned(mailbox', command')
      BY <1>2, <1>6, <3>3, <3>4, UnownedPublished
    <3> QED BY <1>6, <3>1, <3>2, <3>3, <3>5, OwnersFrom
  <2>5. IsFiniteSet(inflight)' /\ PendingCounts'
    <3>1. inflight' = ValuesIn(mailbox') \cup ValuesIn(priority_mailbox')
                        \cup ({command'[u] : u \in Threads} \ {None})
      BY <1>1, <1>4, <1>6, <2>1, <2>2 DEF Accounts, PendingCounts
    <3> QED BY <1>1, <3>1 DEF Accounts, PendingCounts
  <2> QED BY <2>3, <2>4, <2>5 DEF Accounts
<1>7. ASSUME NEW i \in DOMAIN priority_mailbox, priority_mailbox[i].value = c, priority_mailbox' = Normal!Published(priority_mailbox, i), mailbox' = mailbox
      PROVE  Accounts'
  <2>1. /\ priority_mailbox' \in Seq(Entries) /\ ValuesIn(priority_mailbox') = ValuesIn(priority_mailbox) /\ DOMAIN priority_mailbox' = DOMAIN priority_mailbox
        /\ \A j \in DOMAIN priority_mailbox : priority_mailbox'[j].value = priority_mailbox[j].value
        /\ \A j \in DOMAIN priority_mailbox : j # i => priority_mailbox'[j] = priority_mailbox[j]
    BY <1>2, <1>7, PublishedQueue
  <2>2. c \in ValuesIn(priority_mailbox)
    BY <1>7 DEF ValuesIn
  <2>3. QueueInv(priority_mailbox, "priority")' /\ QueueInv(mailbox, "normal")'
    BY <1>1, <1>7, <2>1 DEF Accounts, QueueInv
  <2>4. OwnersInv'
    <3>1. \A u \in Threads :
            /\ command'[u] # None <=> pc'[u] \in Carrying
            /\ command'[u] # None => command'[u][2] <= submits'
            /\ pc'[u] \in Carrying \ {"publish"} =>
                 command'[u] \notin ValuesIn(mailbox') /\ command'[u] \notin ValuesIn(priority_mailbox')
      <4>1. "exchange" \notin Carrying
        BY DEF Carrying
      <4> QED BY <1>1, <1>2, <1>7, <2>1, <4>1, OwnersFacts
    <3>a. Distinct(command) /\ Unowned(mailbox, command) /\ Unowned(priority_mailbox, command)
      BY OwnersFacts
    <3>b. command'[t] = None /\ \A u \in Threads : u # t => command'[u] = command[u]
      BY <1>2
    <3>2. Distinct(command')
      BY <3>a, <3>b DEF Distinct
    <3>3. Unowned(mailbox, command') /\ Unowned(priority_mailbox, command')
      BY <3>a, <3>b, <1>5 DEF Unowned
    <3>4. \A u \in Threads : command'[u] # priority_mailbox[i].value
      BY <1>2, <1>3, <1>7
    <3>5. Unowned(priority_mailbox', command')
      BY <1>2, <1>7, <3>3, <3>4, UnownedPublished
    <3> QED BY <1>7, <3>1, <3>2, <3>3, <3>5, OwnersFrom
  <2>5. IsFiniteSet(inflight)' /\ PendingCounts'
    <3>1. inflight' = ValuesIn(mailbox') \cup ValuesIn(priority_mailbox')
                        \cup ({command'[u] : u \in Threads} \ {None})
      BY <1>1, <1>4, <1>7, <2>1, <2>2 DEF Accounts, PendingCounts
    <3> QED BY <1>1, <3>1 DEF Accounts, PendingCounts
  <2> QED BY <2>3, <2>4, <2>5 DEF Accounts
<1>8. CASE Normal!Publish(c) /\ priority_mailbox' = priority_mailbox
  <2>1. PICK i \in DOMAIN mailbox :
          mailbox[i] = [value |-> c, ready |-> FALSE] /\ mailbox' = Normal!Published(mailbox, i)
    BY <1>8 DEF Normal!Publish
  <2>2. mailbox[i].value = c
    BY <2>1
  <2> QED BY <1>6, <1>8, <2>1, <2>2
<1>9. CASE Priority!Publish(c) /\ mailbox' = mailbox
  <2>1. PICK i \in DOMAIN priority_mailbox :
          /\ priority_mailbox[i] = [value |-> c, ready |-> FALSE]
          /\ priority_mailbox' = Normal!Published(priority_mailbox, i)
    BY <1>9 DEF Priority!Publish, Priority!Published, Normal!Published
  <2>2. priority_mailbox[i].value = c
    BY <2>1
  <2> QED BY <1>7, <1>9, <2>1, <2>2
<1> QED BY <1>8, <1>9 DEF Publish, c

\* A popped command is with the consumer only (normal mailbox).
LEMMA NormalPopAccounts ==
  ASSUME TypeOK, Accounts, NEW t \in Threads, command[t] = None,
         Normal!Pop, command' = [command EXCEPT ![t] = Head(mailbox).value],
         pc' = [pc EXCEPT ![t] = "handle"],
         UNCHANGED <<priority_mailbox, submits, inflight, pending_count>>
  PROVE  Accounts'
<1> DEFINE c == Head(mailbox).value
<1>1. /\ mailbox \in Seq(Entries) /\ mailbox # <<>> /\ mailbox' = Tail(mailbox) /\ Head(mailbox).ready
      /\ \A i, j \in DOMAIN mailbox : mailbox[i].value = mailbox[j].value => i = j
  BY DEF TypeOK, Accounts, QueueInv, Normal!Pop, Normal!HeadReady
<1>2. /\ Head(mailbox) = mailbox[1] /\ 1 \in DOMAIN mailbox
      /\ c \in Commands /\ c \in ValuesIn(mailbox)
      /\ mailbox' \in Seq(Entries) /\ ValuesIn(mailbox') = ValuesIn(mailbox) \ {c}
      /\ \A i \in DOMAIN mailbox' : i + 1 \in DOMAIN mailbox /\ mailbox'[i] = mailbox[i + 1] /\ i \in Nat
  <2>1. /\ Head(mailbox) = mailbox[1] /\ 1 \in DOMAIN mailbox
        /\ c \in Commands /\ c \in ValuesIn(mailbox)
        /\ mailbox' \in Seq(Entries) /\ ValuesIn(mailbox') = ValuesIn(mailbox) \ {c}
        /\ \A i \in DOMAIN mailbox' : i + 1 \in DOMAIN mailbox /\ mailbox'[i] = mailbox[i + 1]
    BY <1>1, PoppedQueue, Zenon
  <2>2. \A i \in DOMAIN mailbox' : i \in Nat
    BY <2>1
  <2> QED BY <2>1, <2>2
<1>v. ValuesIn(mailbox') \subseteq ValuesIn(mailbox)
  BY <1>2
<1>w. c \notin ValuesIn(mailbox')
  BY <1>2
<1>3. /\ \A u \in Threads : command'[u] = IF u = t THEN c ELSE command[u]
      /\ \A u \in Threads : pc'[u] = IF u = t THEN "handle" ELSE pc[u]
  BY DEF TypeOK
<1>4. c # None /\ \A u \in Threads : command[u] # c
  <2>1. c # None
    BY <1>2, CommandParts
  <2>2. mailbox[1].ready /\ mailbox[1].value = c /\ 1 \in DOMAIN mailbox
    BY <1>1, <1>2
  <2>3. Unowned(mailbox, command)
    BY OwnersFacts
  <2> QED BY <2>1, <2>2, <2>3 DEF Unowned
<1>5. /\ c \notin ValuesIn(priority_mailbox) /\ c[2] <= submits
      /\ \A i \in DOMAIN priority_mailbox : priority_mailbox[i].value # c
  <2>1. c \notin ValuesIn(priority_mailbox) /\ c[2] <= submits
    BY <1>2 DEF Accounts, QueueInv
  <2> QED BY <2>1 DEF ValuesIn
<1>6. \A i \in DOMAIN mailbox' : mailbox'[i].value # c
  BY <1>1, <1>2
<1> HIDE DEF c
<1>7. QueueInv(mailbox, "normal")' /\ QueueInv(priority_mailbox, "priority")'
  <2>1. \A i, j \in DOMAIN mailbox' : mailbox'[i].value = mailbox'[j].value => i = j
    BY <1>1, <1>2
  <2> QED BY <1>2, <2>1 DEF Accounts, QueueInv
<1>8. OwnersInv'
  <2>1. pc[t] \notin Carrying /\ "handle" \in Carrying
    BY OwnersFacts DEF Carrying
  <2>2. \A u \in Threads :
          /\ command'[u] # None <=> pc'[u] \in Carrying
          /\ command'[u] # None => command'[u][2] <= submits'
          /\ pc'[u] \in Carrying \ {"publish"} =>
               command'[u] \notin ValuesIn(mailbox') /\ command'[u] \notin ValuesIn(priority_mailbox')
    <3>1. SUFFICES ASSUME NEW u \in Threads
                   PROVE  /\ command'[u] # None <=> pc'[u] \in Carrying
                          /\ command'[u] # None => command'[u][2] <= submits'
                          /\ pc'[u] \in Carrying \ {"publish"} =>
                               command'[u] \notin ValuesIn(mailbox') /\ command'[u] \notin ValuesIn(priority_mailbox')
      OBVIOUS
    <3>2. CASE u = t
      <4>1. command'[u] = c /\ pc'[u] = "handle"
        BY <1>3, <3>2
      <4> QED BY <1>4, <1>5, <1>w, <2>1, <4>1
    <3>3. CASE u # t
      <4>1. command'[u] = command[u] /\ pc'[u] = pc[u]
        BY <1>3, <3>3
      <4>2. /\ command[u] # None <=> pc[u] \in Carrying
            /\ command[u] # None => command[u][2] <= submits
            /\ pc[u] \in Carrying \ {"publish"} =>
                 command[u] \notin ValuesIn(mailbox) /\ command[u] \notin ValuesIn(priority_mailbox)
        BY OwnersFacts
      <4> QED BY <1>v, <4>1, <4>2
    <3> QED BY <3>2, <3>3
  <2>a. Distinct(command) /\ Unowned(mailbox, command) /\ Unowned(priority_mailbox, command)
    BY OwnersFacts
  <2>b. /\ command'[t] = c
        /\ \A u \in Threads : u # t => command'[u] = command[u]
        /\ \A u \in Threads : u # t => command'[u] # c
    BY <1>3, <1>4
  <2>3. Distinct(command')
    BY <2>a, <2>b DEF Distinct
  <2>4. Unowned(mailbox', command)
    BY <1>1, <2>a, UnownedPopped
  <2>5. Unowned(mailbox', command')
    BY <2>b, <1>6, <2>4 DEF Unowned
  <2>6. Unowned(priority_mailbox, command')
    BY <2>a, <2>b, <1>5 DEF Unowned
  <2> QED BY <2>2, <2>3, <2>5, <2>6, OwnersFrom
<1>9. IsFiniteSet(inflight)' /\ PendingCounts'
  <2>1. {command'[u] : u \in Threads} \ {None} = ({command[u] : u \in Threads} \ {None}) \cup {c}
    BY <1>3, <1>4
  <2>2. ValuesIn(mailbox) = ValuesIn(mailbox') \cup {c}
    BY <1>2
  <2> QED BY <2>1, <2>2 DEF Accounts, PendingCounts
<1> QED BY <1>7, <1>8, <1>9 DEF Accounts

\* The same, of the priority mailbox: the command is with the consumer only.
LEMMA PriorityPopAccounts ==
  ASSUME TypeOK, Accounts, NEW t \in Threads, command[t] = None,
         Priority!Pop, command' = [command EXCEPT ![t] = Head(priority_mailbox).value],
         pc' = [pc EXCEPT ![t] = "handle"],
         UNCHANGED <<mailbox, submits, inflight, pending_count>>
  PROVE  Accounts'
<1> DEFINE c == Head(priority_mailbox).value
<1>1. /\ priority_mailbox \in Seq(Entries) /\ priority_mailbox # <<>> /\ priority_mailbox' = Tail(priority_mailbox) /\ Head(priority_mailbox).ready
      /\ \A i, j \in DOMAIN priority_mailbox : priority_mailbox[i].value = priority_mailbox[j].value => i = j
  BY DEF TypeOK, Accounts, QueueInv, Priority!Pop, Priority!HeadReady
<1>2. /\ Head(priority_mailbox) = priority_mailbox[1] /\ 1 \in DOMAIN priority_mailbox
      /\ c \in Commands /\ c \in ValuesIn(priority_mailbox)
      /\ priority_mailbox' \in Seq(Entries) /\ ValuesIn(priority_mailbox') = ValuesIn(priority_mailbox) \ {c}
      /\ \A i \in DOMAIN priority_mailbox' : i + 1 \in DOMAIN priority_mailbox /\ priority_mailbox'[i] = priority_mailbox[i + 1] /\ i \in Nat
  <2>1. /\ Head(priority_mailbox) = priority_mailbox[1] /\ 1 \in DOMAIN priority_mailbox
        /\ c \in Commands /\ c \in ValuesIn(priority_mailbox)
        /\ priority_mailbox' \in Seq(Entries) /\ ValuesIn(priority_mailbox') = ValuesIn(priority_mailbox) \ {c}
        /\ \A i \in DOMAIN priority_mailbox' : i + 1 \in DOMAIN priority_mailbox /\ priority_mailbox'[i] = priority_mailbox[i + 1]
    BY <1>1, PoppedQueue, Zenon
  <2>2. \A i \in DOMAIN priority_mailbox' : i \in Nat
    BY <2>1
  <2> QED BY <2>1, <2>2
<1>v. ValuesIn(priority_mailbox') \subseteq ValuesIn(priority_mailbox)
  BY <1>2
<1>w. c \notin ValuesIn(priority_mailbox')
  BY <1>2
<1>3. /\ \A u \in Threads : command'[u] = IF u = t THEN c ELSE command[u]
      /\ \A u \in Threads : pc'[u] = IF u = t THEN "handle" ELSE pc[u]
  BY DEF TypeOK
<1>4. c # None /\ \A u \in Threads : command[u] # c
  <2>1. c # None
    BY <1>2, CommandParts
  <2>2. priority_mailbox[1].ready /\ priority_mailbox[1].value = c /\ 1 \in DOMAIN priority_mailbox
    BY <1>1, <1>2
  <2>3. Unowned(priority_mailbox, command)
    BY OwnersFacts
  <2> QED BY <2>1, <2>2, <2>3 DEF Unowned
<1>5. /\ c \notin ValuesIn(mailbox) /\ c[2] <= submits
      /\ \A i \in DOMAIN mailbox : mailbox[i].value # c
  <2>1. c \notin ValuesIn(mailbox) /\ c[2] <= submits
    BY <1>2 DEF Accounts, QueueInv
  <2> QED BY <2>1 DEF ValuesIn
<1>6. \A i \in DOMAIN priority_mailbox' : priority_mailbox'[i].value # c
  BY <1>1, <1>2
<1> HIDE DEF c
<1>7. QueueInv(priority_mailbox, "priority")' /\ QueueInv(mailbox, "normal")'
  <2>1. \A i, j \in DOMAIN priority_mailbox' : priority_mailbox'[i].value = priority_mailbox'[j].value => i = j
    BY <1>1, <1>2
  <2> QED BY <1>2, <2>1 DEF Accounts, QueueInv
<1>8. OwnersInv'
  <2>1. pc[t] \notin Carrying /\ "handle" \in Carrying
    BY OwnersFacts DEF Carrying
  <2>2. \A u \in Threads :
          /\ command'[u] # None <=> pc'[u] \in Carrying
          /\ command'[u] # None => command'[u][2] <= submits'
          /\ pc'[u] \in Carrying \ {"publish"} =>
               command'[u] \notin ValuesIn(mailbox') /\ command'[u] \notin ValuesIn(priority_mailbox')
    <3>1. SUFFICES ASSUME NEW u \in Threads
                   PROVE  /\ command'[u] # None <=> pc'[u] \in Carrying
                          /\ command'[u] # None => command'[u][2] <= submits'
                          /\ pc'[u] \in Carrying \ {"publish"} =>
                               command'[u] \notin ValuesIn(mailbox') /\ command'[u] \notin ValuesIn(priority_mailbox')
      OBVIOUS
    <3>2. CASE u = t
      <4>1. command'[u] = c /\ pc'[u] = "handle"
        BY <1>3, <3>2
      <4> QED BY <1>4, <1>5, <1>w, <2>1, <4>1
    <3>3. CASE u # t
      <4>1. command'[u] = command[u] /\ pc'[u] = pc[u]
        BY <1>3, <3>3
      <4>2. /\ command[u] # None <=> pc[u] \in Carrying
            /\ command[u] # None => command[u][2] <= submits
            /\ pc[u] \in Carrying \ {"publish"} =>
                 command[u] \notin ValuesIn(mailbox) /\ command[u] \notin ValuesIn(priority_mailbox)
        BY OwnersFacts
      <4> QED BY <1>v, <4>1, <4>2
    <3> QED BY <3>2, <3>3
  <2>a. Distinct(command) /\ Unowned(mailbox, command) /\ Unowned(priority_mailbox, command)
    BY OwnersFacts
  <2>b. /\ command'[t] = c
        /\ \A u \in Threads : u # t => command'[u] = command[u]
        /\ \A u \in Threads : u # t => command'[u] # c
    BY <1>3, <1>4
  <2>3. Distinct(command')
    BY <2>a, <2>b DEF Distinct
  <2>4. Unowned(priority_mailbox', command)
    BY <1>1, <2>a, UnownedPopped
  <2>5. Unowned(priority_mailbox', command')
    BY <2>b, <1>6, <2>4 DEF Unowned
  <2>6. Unowned(mailbox, command')
    BY <2>a, <2>b, <1>5 DEF Unowned
  <2> QED BY <2>2, <2>3, <2>5, <2>6, OwnersFrom
<1>9. IsFiniteSet(inflight)' /\ PendingCounts'
  <2>1. {command'[u] : u \in Threads} \ {None} = ({command[u] : u \in Threads} \ {None}) \cup {c}
    BY <1>3, <1>4
  <2>2. ValuesIn(priority_mailbox) = ValuesIn(priority_mailbox') \cup {c}
    BY <1>2
  <2> QED BY <2>1, <2>2 DEF Accounts, PendingCounts
<1> QED BY <1>7, <1>8, <1>9 DEF Accounts

\* Every step keeps every command in one place.
LEMMA AccountsStep == Inv /\ [Next]_vars => Accounts'
<1> SUFFICES ASSUME Inv, [Next]_vars PROVE Accounts'
  OBVIOUS
<1>0. TypeOK /\ Accounts
  BY DEF Inv, SchedulerInv, Accounts
<1>1. ASSUME NEW t \in Submitters, Announce(t) PROVE Accounts'
  BY <1>1, <1>0, AnnounceAccounts DEF Threads
<1>2. ASSUME NEW t \in Submitters, CheckAdmission(t) PROVE Accounts'
  <2>1. /\ UNCHANGED <<mailbox, priority_mailbox, command, submits, inflight, pending_count>>
        /\ \A u \in Threads : pc'[u] \in Carrying <=> pc[u] \in Carrying
        /\ \A u \in Threads : pc'[u] \in Carrying \ {"publish"} => pc[u] \in Carrying \ {"publish"}
    BY <1>2, <1>0 DEF CheckAdmission, Carrying, Threads, TypeOK, gate, boxes, locals
  <2> QED BY <1>0, <2>1, AccountsFrame
<1>3. ASSUME NEW t \in Submitters, Reserve(t) PROVE Accounts'
  BY <1>3, <1>0, ReserveAccounts DEF Threads
<1>4. ASSUME NEW t \in Submitters, Publish(t) PROVE Accounts'
  BY <1>4, <1>0, PublishAccounts DEF Threads
<1>5. ASSUME NEW t \in Submitters, Reject(t) PROVE Accounts'
  <2>1. PICK label \in {"reject_notify", "idle"} : pc' = [pc EXCEPT ![t] = label]
    BY <1>5 DEF Reject
  <2>2. /\ pc[t] \in {"reject", "finish"} /\ ReleasePending(t) /\ t \in Threads /\ label \notin Carrying
        /\ UNCHANGED <<mailbox, priority_mailbox, submits>>
    BY <1>5 DEF Reject, boxes, locals, Carrying, Threads
  <2> QED BY <1>0, <2>1, <2>2, ReleaseAccounts
<1>6. ASSUME NEW t \in Workers, RunDrainTask(t) PROVE Accounts'
  <2>1. /\ UNCHANGED <<mailbox, priority_mailbox, command, submits, inflight, pending_count>>
        /\ \A u \in Threads : pc'[u] \in Carrying <=> pc[u] \in Carrying
        /\ \A u \in Threads : pc'[u] \in Carrying \ {"publish"} => pc[u] \in Carrying \ {"publish"}
    BY <1>6, <1>0 DEF RunDrainTask, Carrying, Threads, TypeOK, gate, boxes, locals
  <2> QED BY <1>0, <2>1, AccountsFrame
<1>7. ASSUME NEW t \in Threads, Exchange(t) PROVE Accounts'
  <2>1. /\ UNCHANGED <<mailbox, priority_mailbox, command, submits, inflight, pending_count>>
        /\ \A u \in Threads : pc'[u] \in Carrying <=> pc[u] \in Carrying
        /\ \A u \in Threads : pc'[u] \in Carrying \ {"publish"} => pc[u] \in Carrying \ {"publish"}
    BY <1>7, <1>0 DEF Exchange, Carrying, Threads, TypeOK, gate, boxes, locals
  <2> QED BY <1>0, <2>1, AccountsFrame
<1>8. ASSUME NEW t \in Threads, Post(t) PROVE Accounts'
  <2>1. /\ UNCHANGED <<mailbox, priority_mailbox, command, submits, inflight, pending_count>>
        /\ \A u \in Threads : pc'[u] \in Carrying <=> pc[u] \in Carrying
        /\ \A u \in Threads : pc'[u] \in Carrying \ {"publish"} => pc[u] \in Carrying \ {"publish"}
    BY <1>8, <1>0 DEF Post, Carrying, Threads, TypeOK, gate, boxes, locals
  <2> QED BY <1>0, <2>1, AccountsFrame
<1>9. ASSUME NEW t \in Threads, PopPriority(t) PROVE Accounts'
  <2>1. CASE pc' = [pc EXCEPT ![t] = "pop_normal"] /\ UNCHANGED <<priority_mailbox, command>>
    <3>1. /\ UNCHANGED <<mailbox, priority_mailbox, command, submits, inflight, pending_count>>
          /\ \A u \in Threads : pc'[u] \in Carrying <=> pc[u] \in Carrying
          /\ \A u \in Threads : pc'[u] \in Carrying \ {"publish"} => pc[u] \in Carrying \ {"publish"}
      BY <1>9, <2>1, <1>0 DEF PopPriority, Carrying, TypeOK, gate, locals
    <3> QED BY <1>0, <3>1, AccountsFrame
  <2>2. CASE /\ Priority!Pop /\ pc' = [pc EXCEPT ![t] = "handle"]
             /\ command' = [command EXCEPT ![t] = Head(priority_mailbox).value]
    <3>1. /\ command[t] = None
          /\ UNCHANGED <<mailbox, submits, inflight, pending_count>>
      BY <1>9, <1>0 DEF PopPriority, Accounts, OwnersInv, gate, locals
    <3> QED BY <1>0, <2>2, <3>1, PriorityPopAccounts
  <2> QED BY <1>9, <2>1, <2>2 DEF PopPriority
<1>10. ASSUME NEW t \in Threads, PopNormal(t) PROVE Accounts'
  <2>1. CASE pc' = [pc EXCEPT ![t] = "check"] /\ UNCHANGED <<mailbox, command>>
    <3>1. /\ UNCHANGED <<mailbox, priority_mailbox, command, submits, inflight, pending_count>>
          /\ \A u \in Threads : pc'[u] \in Carrying <=> pc[u] \in Carrying
          /\ \A u \in Threads : pc'[u] \in Carrying \ {"publish"} => pc[u] \in Carrying \ {"publish"}
      BY <1>10, <2>1, <1>0 DEF PopNormal, Carrying, TypeOK, gate, locals
    <3> QED BY <1>0, <3>1, AccountsFrame
  <2>2. CASE /\ Normal!Pop /\ pc' = [pc EXCEPT ![t] = "handle"]
             /\ command' = [command EXCEPT ![t] = Head(mailbox).value]
    <3>1. /\ command[t] = None
          /\ UNCHANGED <<priority_mailbox, submits, inflight, pending_count>>
      BY <1>10, <1>0 DEF PopNormal, Accounts, OwnersInv, gate, locals
    <3> QED BY <1>0, <2>2, <3>1, NormalPopAccounts
  <2> QED BY <1>10, <2>1, <2>2 DEF PopNormal
<1>11. ASSUME NEW t \in Threads, CheckPending(t) PROVE Accounts'
  <2>1. /\ UNCHANGED <<mailbox, priority_mailbox, command, submits, inflight, pending_count>>
        /\ \A u \in Threads : pc'[u] \in Carrying <=> pc[u] \in Carrying
        /\ \A u \in Threads : pc'[u] \in Carrying \ {"publish"} => pc[u] \in Carrying \ {"publish"}
    BY <1>11, <1>0 DEF CheckPending, Carrying, Threads, TypeOK, gate, boxes, locals
  <2> QED BY <1>0, <2>1, AccountsFrame
<1>12. ASSUME NEW t \in Threads, Handle(t) PROVE Accounts'
  <2>1. /\ UNCHANGED <<mailbox, priority_mailbox, command, submits, inflight, pending_count>>
        /\ \A u \in Threads : pc'[u] \in Carrying <=> pc[u] \in Carrying
        /\ \A u \in Threads : pc'[u] \in Carrying \ {"publish"} => pc[u] \in Carrying \ {"publish"}
    BY <1>12, <1>0 DEF Handle, Carrying, Threads, TypeOK, gate, boxes, locals
  <2> QED BY <1>0, <2>1, AccountsFrame
<1>13. ASSUME NEW t \in Threads, Finish(t) PROVE Accounts'
  <2>1. PICK label \in {"finish_notify", "pop_priority", "clear"} : pc' = [pc EXCEPT ![t] = label]
    BY <1>13 DEF Finish, Continue
  <2>2. /\ pc[t] \in {"reject", "finish"} /\ ReleasePending(t) /\ label \notin Carrying
        /\ UNCHANGED <<mailbox, priority_mailbox, submits>>
    BY <1>13 DEF Finish, boxes, Carrying
  <2> QED BY <1>0, <2>1, <2>2, ReleaseAccounts
<1>14. ASSUME NEW t \in Threads, Clear(t) PROVE Accounts'
  <2>1. /\ UNCHANGED <<mailbox, priority_mailbox, command, submits, inflight, pending_count>>
        /\ \A u \in Threads : pc'[u] \in Carrying <=> pc[u] \in Carrying
        /\ \A u \in Threads : pc'[u] \in Carrying \ {"publish"} => pc[u] \in Carrying \ {"publish"}
    BY <1>14, <1>0 DEF Clear, Carrying, Threads, TypeOK, gate, boxes, locals
  <2> QED BY <1>0, <2>1, AccountsFrame
<1>15. ASSUME NEW t \in Threads, Recheck(t) PROVE Accounts'
  <2>1. /\ UNCHANGED <<mailbox, priority_mailbox, command, submits, inflight, pending_count>>
        /\ \A u \in Threads : pc'[u] \in Carrying <=> pc[u] \in Carrying
        /\ \A u \in Threads : pc'[u] \in Carrying \ {"publish"} => pc[u] \in Carrying \ {"publish"}
    BY <1>15, <1>0 DEF Recheck, Carrying, Threads, TypeOK, gate, boxes, locals
  <2> QED BY <1>0, <2>1, AccountsFrame
<1>16. ASSUME NEW t \in Threads, NotifyPending(t) PROVE Accounts'
  <2>1. /\ UNCHANGED <<mailbox, priority_mailbox, command, submits, inflight, pending_count>>
        /\ \A u \in Threads : pc'[u] \in Carrying <=> pc[u] \in Carrying
        /\ \A u \in Threads : pc'[u] \in Carrying \ {"publish"} => pc[u] \in Carrying \ {"publish"}
    BY <1>16, <1>0 DEF NotifyPending, Carrying, Threads, TypeOK, gate, boxes, locals, Continue
  <2> QED BY <1>0, <2>1, AccountsFrame
<1>17. ASSUME NEW t \in Threads, NotifyDrain(t) PROVE Accounts'
  <2>1. /\ UNCHANGED <<mailbox, priority_mailbox, command, submits, inflight, pending_count>>
        /\ \A u \in Threads : pc'[u] \in Carrying <=> pc[u] \in Carrying
        /\ \A u \in Threads : pc'[u] \in Carrying \ {"publish"} => pc[u] \in Carrying \ {"publish"}
    BY <1>17, <1>0 DEF NotifyDrain, Carrying, Threads, TypeOK, gate, boxes, locals
  <2> QED BY <1>0, <2>1, AccountsFrame
<1>18. CASE CloseAdmission
  <2>1. /\ UNCHANGED <<mailbox, priority_mailbox, command, submits, inflight, pending_count>>
        /\ \A u \in Threads : pc'[u] \in Carrying <=> pc[u] \in Carrying
        /\ \A u \in Threads : pc'[u] \in Carrying \ {"publish"} => pc[u] \in Carrying \ {"publish"}
    BY <1>18, <1>0 DEF CloseAdmission, Carrying, Threads, TypeOK, gate, boxes, locals
  <2> QED BY <1>0, <2>1, AccountsFrame
<1>19. CASE WaitPending
  <2>1. /\ UNCHANGED <<mailbox, priority_mailbox, command, submits, inflight, pending_count>>
        /\ \A u \in Threads : pc'[u] \in Carrying <=> pc[u] \in Carrying
        /\ \A u \in Threads : pc'[u] \in Carrying \ {"publish"} => pc[u] \in Carrying \ {"publish"}
    BY <1>19, <1>0 DEF WaitPending, Carrying, Threads, TypeOK, gate, boxes, locals
  <2> QED BY <1>0, <2>1, AccountsFrame
<1>20. CASE WaitDrain
  <2>1. /\ UNCHANGED <<mailbox, priority_mailbox, command, submits, inflight, pending_count>>
        /\ \A u \in Threads : pc'[u] \in Carrying <=> pc[u] \in Carrying
        /\ \A u \in Threads : pc'[u] \in Carrying \ {"publish"} => pc[u] \in Carrying \ {"publish"}
    BY <1>20, <1>0 DEF WaitDrain, Carrying, Threads, TypeOK, gate, boxes, locals
  <2> QED BY <1>0, <2>1, AccountsFrame
<1>21. CASE StopExecutor
  <2>1. /\ UNCHANGED <<mailbox, priority_mailbox, command, submits, inflight, pending_count>>
        /\ \A u \in Threads : pc'[u] \in Carrying <=> pc[u] \in Carrying
        /\ \A u \in Threads : pc'[u] \in Carrying \ {"publish"} => pc[u] \in Carrying \ {"publish"}
    BY <1>21, <1>0 DEF StopExecutor, Carrying, Threads, TypeOK, gate, boxes, locals
  <2> QED BY <1>0, <2>1, AccountsFrame
<1>22. CASE Quiet
  <2>1. /\ UNCHANGED <<mailbox, priority_mailbox, command, submits, inflight, pending_count>>
        /\ \A u \in Threads : pc'[u] \in Carrying <=> pc[u] \in Carrying
        /\ \A u \in Threads : pc'[u] \in Carrying \ {"publish"} => pc[u] \in Carrying \ {"publish"}
    BY <1>22, <1>0 DEF Quiet, Carrying, Threads, TypeOK, gate, boxes, locals, vars
  <2> QED BY <1>0, <2>1, AccountsFrame
<1>23. CASE UNCHANGED vars
  <2>1. /\ UNCHANGED <<mailbox, priority_mailbox, command, submits, inflight, pending_count>>
        /\ \A u \in Threads : pc'[u] \in Carrying <=> pc[u] \in Carrying
        /\ \A u \in Threads : pc'[u] \in Carrying \ {"publish"} => pc[u] \in Carrying \ {"publish"}
    BY <1>23, <1>0 DEF vars, Carrying, Threads, TypeOK, gate, boxes, locals
  <2> QED BY <1>0, <2>1, AccountsFrame
<1> QED BY <1>1, <1>2, <1>3, <1>4, <1>5, <1>6, <1>7, <1>8, <1>9, <1>10, <1>11, <1>12, <1>13,
       <1>14, <1>15, <1>16, <1>17, <1>18, <1>19, <1>20, <1>21, <1>22, <1>23, Zenon DEF Next,
       Submitting, Draining, Waiting

\* Nothing is pending only when no mailbox and no thread has a command.
LEMMA NothingPending ==
  ASSUME TypeOK, Accounts, pending_count = 0
  PROVE  /\ mailbox = <<>> /\ priority_mailbox = <<>>
         /\ \A t \in Threads : pc[t] \notin Carrying
<1>1. inflight = {}
  BY FS_EmptySet DEF Accounts, PendingCounts
<1>2. ASSUME NEW q \in Seq(Entries), ValuesIn(q) = {} PROVE q = <<>>
  <2>1. \A i \in DOMAIN q : FALSE
    BY <1>2 DEF ValuesIn
  <2>2. Len(q) = 0
    BY <2>1
  <2> QED BY <2>2
<1>3. mailbox = <<>> /\ priority_mailbox = <<>>
  BY <1>1, <1>2 DEF TypeOK, Accounts, PendingCounts
<1>4. \A t \in Threads : pc[t] \notin Carrying
  <2>1. \A t \in Threads : command[t] = None
    BY <1>1 DEF Accounts, PendingCounts
  <2> QED BY <2>1, OwnersFacts
<1> QED BY <1>3, <1>4

\* A step never leaves a command in a mailbox without somebody to drain it.
LEMMA StrandedStep == Inv /\ [Next]_vars => NeverStranded'
<1> SUFFICES ASSUME Inv, [Next]_vars PROVE NeverStranded'
  OBVIOUS
<1>0. TypeOK /\ NeverStranded /\ SingleConsumer
  BY DEF Inv
<1>a. pending_count = 0 => mailbox = <<>> /\ priority_mailbox = <<>>
  BY NothingPending DEF Inv, SchedulerInv, Accounts
<1>1. ASSUME NEW t \in Submitters, Announce(t) PROVE NeverStranded'
  BY <1>1, <1>0 DEF TypeOK, NeverStranded, Threads, gate, boxes, Announce
<1>2. ASSUME NEW t \in Submitters, CheckAdmission(t) PROVE NeverStranded'
  BY <1>2, <1>0 DEF TypeOK, NeverStranded, Threads, gate, boxes, CheckAdmission
<1>3. ASSUME NEW t \in Submitters, Reserve(t) PROVE NeverStranded'
  BY <1>3, <1>0 DEF TypeOK, NeverStranded, Threads, gate, boxes, Reserve
<1>4. ASSUME NEW t \in Submitters, Publish(t) PROVE NeverStranded'
  BY <1>4, <1>0 DEF TypeOK, NeverStranded, Threads, gate, boxes, Publish
<1>5. ASSUME NEW t \in Submitters, Reject(t) PROVE NeverStranded'
  BY <1>5, <1>0 DEF TypeOK, NeverStranded, Threads, gate, boxes, Reject, ReleasePending
<1>6. ASSUME NEW t \in Workers, RunDrainTask(t) PROVE NeverStranded'
  BY <1>6, <1>0 DEF TypeOK, NeverStranded, Threads, gate, boxes, RunDrainTask
<1>7. ASSUME NEW t \in Threads, Exchange(t) PROVE NeverStranded'
  BY <1>7, <1>0 DEF TypeOK, NeverStranded, Threads, gate, boxes, Exchange
<1>8. ASSUME NEW t \in Threads, Post(t) PROVE NeverStranded'
  BY <1>8, <1>0 DEF TypeOK, NeverStranded, Threads, gate, boxes, Post
<1>9. ASSUME NEW t \in Threads, PopPriority(t) PROVE NeverStranded'
  <2>1. drain_scheduled /\ UNCHANGED drain_scheduled
    BY <1>9, <1>0 DEF PopPriority, SingleConsumer, Holds, gate
  <2> QED BY <2>1 DEF NeverStranded
<1>10. ASSUME NEW t \in Threads, PopNormal(t) PROVE NeverStranded'
  <2>1. drain_scheduled /\ UNCHANGED drain_scheduled
    BY <1>10, <1>0 DEF PopNormal, SingleConsumer, Holds, gate
  <2> QED BY <2>1 DEF NeverStranded
<1>11. ASSUME NEW t \in Threads, CheckPending(t) PROVE NeverStranded'
  BY <1>11, <1>0 DEF TypeOK, NeverStranded, Threads, gate, boxes, CheckPending
<1>12. ASSUME NEW t \in Threads, Handle(t) PROVE NeverStranded'
  BY <1>12, <1>0 DEF TypeOK, NeverStranded, Threads, gate, boxes, Handle
<1>13. ASSUME NEW t \in Threads, Finish(t) PROVE NeverStranded'
  BY <1>13, <1>0 DEF TypeOK, NeverStranded, Threads, gate, boxes, Finish, Continue, ReleasePending
<1>14. ASSUME NEW t \in Threads, Clear(t) PROVE NeverStranded'
  BY <1>14, <1>0 DEF TypeOK, NeverStranded, Threads, gate, boxes, Clear
<1>15. ASSUME NEW t \in Threads, Recheck(t) PROVE NeverStranded'
  BY <1>15, <1>0, <1>a DEF TypeOK, NeverStranded, gate, boxes, Recheck
<1>16. ASSUME NEW t \in Threads, NotifyPending(t) PROVE NeverStranded'
  BY <1>16, <1>0 DEF TypeOK, NeverStranded, Threads, gate, boxes, NotifyPending, Continue
<1>17. ASSUME NEW t \in Threads, NotifyDrain(t) PROVE NeverStranded'
  BY <1>17, <1>0 DEF TypeOK, NeverStranded, Threads, gate, boxes, NotifyDrain
<1>18. CASE CloseAdmission
  BY <1>18, <1>0 DEF TypeOK, NeverStranded, Threads, gate, boxes, CloseAdmission
<1>19. CASE WaitPending
  BY <1>19, <1>0 DEF TypeOK, NeverStranded, Threads, gate, boxes, WaitPending
<1>20. CASE WaitDrain
  BY <1>20, <1>0 DEF TypeOK, NeverStranded, Threads, gate, boxes, WaitDrain
<1>21. CASE StopExecutor
  BY <1>21, <1>0 DEF TypeOK, NeverStranded, Threads, gate, boxes, StopExecutor
<1>22. CASE Quiet
  BY <1>22, <1>0 DEF TypeOK, NeverStranded, Threads, gate, boxes, Quiet, vars
<1>23. CASE UNCHANGED vars
  BY <1>23, <1>0 DEF vars, TypeOK, NeverStranded, Threads, gate, boxes
<1> QED BY <1>1, <1>2, <1>3, <1>4, <1>5, <1>6, <1>7, <1>8, <1>9, <1>10, <1>11, <1>12, <1>13,
       <1>14, <1>15, <1>16, <1>17, <1>18, <1>19, <1>20, <1>21, <1>22, <1>23, Zenon DEF Next,
       Submitting, Draining, Waiting

\* Once the closer has seen nothing pending, no command enters or runs.
Closed == IdleMeansDone /\ (accepting <=> closer = "open")

LEMMA ClosedStep == Inv /\ [Next]_vars => Closed'
<1> SUFFICES ASSUME Inv, [Next]_vars PROVE Closed'
  OBVIOUS
<1>0. TypeOK /\ Closed
  BY DEF Inv, SchedulerInv, Closed
<1>a. pending_count = 0 =>
        /\ mailbox = <<>> /\ priority_mailbox = <<>>
        /\ \A t \in Threads : pc[t] \notin Carrying
  BY NothingPending DEF Inv, SchedulerInv, Accounts
<1>1. ASSUME NEW t \in Submitters, Announce(t) PROVE Closed'
  BY <1>1, <1>0 DEF TypeOK, Closed, IdleMeansDone, Threads, gate, boxes, closing, Announce
<1>2. ASSUME NEW t \in Submitters, CheckAdmission(t) PROVE Closed'
  BY <1>2, <1>0 DEF TypeOK, Closed, IdleMeansDone, Threads, gate, boxes, closing, CheckAdmission
<1>3. ASSUME NEW t \in Submitters, Reserve(t) PROVE Closed'
  BY <1>3, <1>0 DEF TypeOK, Closed, IdleMeansDone, Threads, gate, boxes, closing, Reserve
<1>4. ASSUME NEW t \in Submitters, Publish(t) PROVE Closed'
  BY <1>4, <1>0 DEF TypeOK, Closed, IdleMeansDone, Threads, gate, boxes, closing, Publish
<1>5. ASSUME NEW t \in Submitters, Reject(t) PROVE Closed'
  BY <1>5, <1>0 DEF TypeOK, Closed, IdleMeansDone, Threads, gate, boxes, closing, Reject, ReleasePending
<1>6. ASSUME NEW t \in Workers, RunDrainTask(t) PROVE Closed'
  BY <1>6, <1>0 DEF TypeOK, Closed, IdleMeansDone, Threads, gate, boxes, closing, RunDrainTask
<1>7. ASSUME NEW t \in Threads, Exchange(t) PROVE Closed'
  BY <1>7, <1>0 DEF TypeOK, Closed, IdleMeansDone, Threads, gate, boxes, closing, Exchange
<1>8. ASSUME NEW t \in Threads, Post(t) PROVE Closed'
  BY <1>8, <1>0 DEF TypeOK, Closed, IdleMeansDone, Threads, gate, boxes, closing, Post
<1>9. ASSUME NEW t \in Threads, PopPriority(t) PROVE Closed'
  BY <1>9, <1>0 DEF TypeOK, Closed, IdleMeansDone, Threads, gate, closing, PopPriority, Priority!Pop,
                 Priority!HeadReady
<1>10. ASSUME NEW t \in Threads, PopNormal(t) PROVE Closed'
  BY <1>10, <1>0 DEF TypeOK, Closed, IdleMeansDone, Threads, gate, closing, PopNormal, Normal!Pop,
                 Normal!HeadReady
<1>11. ASSUME NEW t \in Threads, CheckPending(t) PROVE Closed'
  BY <1>11, <1>0 DEF TypeOK, Closed, IdleMeansDone, Threads, gate, boxes, closing, CheckPending
<1>12. ASSUME NEW t \in Threads, Handle(t) PROVE Closed'
  BY <1>12, <1>0 DEF TypeOK, Closed, IdleMeansDone, Threads, gate, boxes, closing, Handle
<1>13. ASSUME NEW t \in Threads, Finish(t) PROVE Closed'
  BY <1>13, <1>0 DEF TypeOK, Closed, IdleMeansDone, Threads, gate, boxes, closing, Finish, Continue, ReleasePending
<1>14. ASSUME NEW t \in Threads, Clear(t) PROVE Closed'
  BY <1>14, <1>0 DEF TypeOK, Closed, IdleMeansDone, Threads, gate, boxes, closing, Clear
<1>15. ASSUME NEW t \in Threads, Recheck(t) PROVE Closed'
  BY <1>15, <1>0 DEF TypeOK, Closed, IdleMeansDone, Threads, gate, boxes, closing, Recheck
<1>16. ASSUME NEW t \in Threads, NotifyPending(t) PROVE Closed'
  BY <1>16, <1>0 DEF TypeOK, Closed, IdleMeansDone, Threads, gate, boxes, closing, NotifyPending, Continue
<1>17. ASSUME NEW t \in Threads, NotifyDrain(t) PROVE Closed'
  BY <1>17, <1>0 DEF TypeOK, Closed, IdleMeansDone, Threads, gate, boxes, closing, NotifyDrain
<1>18. CASE CloseAdmission
  BY <1>18, <1>0 DEF TypeOK, Closed, IdleMeansDone, Closing, boxes, CloseAdmission
<1>19. CASE WaitPending
  BY <1>19, <1>0, <1>a DEF TypeOK, Closed, IdleMeansDone, Closing, Carrying, gate, boxes, WaitPending
<1>20. CASE WaitDrain
  BY <1>20, <1>0 DEF TypeOK, Closed, IdleMeansDone, Closing, gate, boxes, WaitDrain
<1>21. CASE StopExecutor
  BY <1>21, <1>0 DEF TypeOK, Closed, IdleMeansDone, Threads, gate, boxes, closing, StopExecutor
<1>22. CASE Quiet
  BY <1>22, <1>0 DEF TypeOK, Closed, IdleMeansDone, Threads, gate, boxes, closing, Quiet, vars
<1>23. CASE UNCHANGED vars
  BY <1>23, <1>0 DEF vars, TypeOK, Closed, IdleMeansDone, Threads, gate, boxes, closing
<1> QED BY <1>1, <1>2, <1>3, <1>4, <1>5, <1>6, <1>7, <1>8, <1>9, <1>10, <1>11, <1>12, <1>13,
       <1>14, <1>15, <1>16, <1>17, <1>18, <1>19, <1>20, <1>21, <1>22, <1>23, Zenon DEF Next,
       Submitting, Draining, Waiting

\* A thread that releases a submission finds it counted.
LEMMA ReleasedPending ==
  ASSUME TypeOK, SchedulerInv, PendingCounts,
         NEW t \in Threads, pc[t] \in {"reject", "finish"}
  PROVE  pending_count > 0
<1>1. command[t] \in inflight
  BY DEF SchedulerInv, OwnersInv, PendingCounts
<1>2. Cardinality(inflight) # 0
  BY <1>1, FS_EmptySet DEF SchedulerInv
<1> QED BY <1>2 DEF PendingCounts, TypeOK

\* The thread goes to another label.
LEMMA GotoType ==
  ASSUME TypeOK, NEW t \in Threads, NEW label \in Labels, pc' = [pc EXCEPT ![t] = label]
  PROVE  pc' \in [Threads -> Labels]
BY DEF TypeOK

\* Every variable keeps its type.
LEMMA TypeStep == Inv /\ [Next]_vars => TypeOK'
<1> SUFFICES ASSUME Inv, [Next]_vars PROVE TypeOK'
  OBVIOUS
<1>0. /\ TypeOK /\ SchedulerInv /\ PendingCounts
      /\ kMaxCommandsPerDrain \in Nat \ {0} /\ kHeadPublicationRetries \in Nat /\ MaxSubmits \in Nat
  BY LimitsAssumption DEF Inv
<1>1. ASSUME NEW t \in Submitters, Announce(t) PROVE TypeOK'
  <2>1. PICK b \in Boxes :
          /\ command' = [command EXCEPT ![t] = <<b, submits + 1>>]
          /\ inflight' = inflight \cup {<<b, submits + 1>>}
    BY <1>1 DEF Announce
  <2>2. <<b, submits + 1>> \in Commands /\ submits + 1 \in 0 .. MaxSubmits
    BY <1>1, <1>0 DEF Announce, TypeOK, Commands
  <2>3. /\ command' \in [Threads -> Commands \cup {None}] /\ inflight' \in SUBSET Commands
        /\ submits' \in 0 .. MaxSubmits
    BY <1>1, <1>0, <2>1, <2>2 DEF TypeOK, Announce
  <2>4. pc' \in [Threads -> Labels]
    <3>1. t \in Threads /\ "admit" \in Labels /\ pc' = [pc EXCEPT ![t] = "admit"]
      BY <1>1 DEF Announce, Threads, Labels
    <3> QED BY <1>0, <3>1, GotoType
  <2>5. /\ pending_count' = pending_count + 1
        /\ UNCHANGED <<accepting, drain_scheduled, boxes, tasks, stopped, processed, retries, closing,
                       handled>>
    BY <1>1 DEF Announce
  <2> QED BY <1>0, <2>3, <2>4, <2>5 DEF TypeOK, boxes, closing
<1>2. ASSUME NEW t \in Submitters, CheckAdmission(t) PROVE TypeOK'
  BY <1>2, <1>0 DEF TypeOK, Labels, Threads, gate, boxes, locals, closing, CheckAdmission
<1>3. ASSUME NEW t \in Submitters, Reserve(t) PROVE TypeOK'
  <2>1. command[t] \in Commands
    BY <1>3, <1>0 DEF Reserve, TypeOK, SchedulerInv, OwnersInv, Threads
  <2>2. mailbox' \in Seq(Entries) /\ priority_mailbox' \in Seq(Entries)
    <3>1. /\ mailbox \in Seq(Entries) /\ priority_mailbox \in Seq(Entries)
          /\ \/ mailbox' = mailbox
             \/ mailbox' = Append(mailbox, [value |-> command[t], ready |-> FALSE])
          /\ \/ priority_mailbox' = priority_mailbox
             \/ priority_mailbox' = Append(priority_mailbox, [value |-> command[t], ready |-> FALSE])
      BY <1>3, <1>0
         DEF TypeOK, Labels, Reserve, Normal!Reserve, Normal!Reserved, Priority!Reserve, Priority!Reserved
    <3> QED BY <2>1, <3>1, ReservedQueue
  <2>3. UNCHANGED <<popped, priority_popped>>
    BY <1>3 DEF Reserve, Normal!Reserve, Priority!Reserve
  <2> QED BY <1>3, <1>0, <2>2, <2>3 DEF TypeOK, Labels, Threads, gate, locals, closing, Reserve
<1>4. ASSUME NEW t \in Submitters, Publish(t) PROVE TypeOK'
  <2>1. CASE Normal!Publish(command[t]) /\ UNCHANGED <<priority_mailbox, priority_popped>>
    <3>1. mailbox' \in Seq(Entries) /\ UNCHANGED popped
      BY <1>0, <2>1, PublishedQueue DEF TypeOK, Labels, Normal!Publish
    <3> QED BY <1>4, <1>0, <2>1, <3>1 DEF TypeOK, Labels, Threads, gate, locals, closing, Publish
  <2>2. CASE Priority!Publish(command[t]) /\ UNCHANGED <<mailbox, popped>>
    <3>1. priority_mailbox' \in Seq(Entries) /\ UNCHANGED priority_popped
      <4>1. PICK i \in DOMAIN priority_mailbox :
              priority_mailbox' = Normal!Published(priority_mailbox, i) /\ UNCHANGED priority_popped
        BY <2>2 DEF Priority!Publish, Priority!Published, Normal!Published
      <4>2. priority_mailbox \in Seq(Entries)
        BY <1>0 DEF TypeOK
      <4> QED BY <4>1, <4>2, PublishedQueue
    <3> QED BY <1>4, <1>0, <2>2, <3>1 DEF TypeOK, Labels, Threads, gate, locals, closing, Publish
  <2> QED BY <1>4, <2>1, <2>2 DEF Publish
<1>5. ASSUME NEW t \in Submitters, Reject(t) PROVE TypeOK'
  <2>1. pending_count > 0
    BY <1>5, <1>0, ReleasedPending DEF Reject, Threads
  <2>2. pc' \in [Threads -> Labels]
    <3>1. t \in Threads /\ "reject_notify" \in Labels /\ "idle" \in Labels
      BY DEF Threads, Labels
    <3>2. pc' = [pc EXCEPT ![t] = "reject_notify"] \/ pc' = [pc EXCEPT ![t] = "idle"]
      BY <1>5 DEF Reject
    <3> QED BY <1>0, <3>1, <3>2, GotoType
  <2>3. /\ pending_count' = pending_count - 1 /\ inflight' = inflight \ {command[t]}
        /\ command' = [command EXCEPT ![t] = None]
        /\ UNCHANGED <<accepting, drain_scheduled, boxes, tasks, stopped, locals, closing, handled>>
    BY <1>5 DEF Reject, ReleasePending
  <2>4. command' \in [Threads -> Commands \cup {None}]
    BY <1>0, <2>3 DEF TypeOK
  <2>5. pending_count' \in Nat
    BY <1>0, <2>1, <2>3 DEF TypeOK
  <2> QED BY <1>0, <2>2, <2>3, <2>4, <2>5 DEF TypeOK, boxes, locals, closing
<1>6. ASSUME NEW t \in Workers, RunDrainTask(t) PROVE TypeOK'
  <2>1. pc' \in [Threads -> Labels]
    <3>1. t \in Threads /\ "pop_priority" \in Labels /\ pc' = [pc EXCEPT ![t] = "pop_priority"]
      BY <1>6 DEF RunDrainTask, Threads, Labels
    <3> QED BY <1>0, <3>1, GotoType
  <2>2. tasks' \in Nat
    BY <1>6, <1>0 DEF TypeOK, RunDrainTask
  <2>3. UNCHANGED <<gate, boxes, stopped, command, locals, closing, inflight, handled>>
    BY <1>6 DEF RunDrainTask
  <2> QED BY <1>0, <2>1, <2>2, <2>3 DEF TypeOK, gate, boxes, locals, closing
<1>7. ASSUME NEW t \in Threads, Exchange(t) PROVE TypeOK'
  BY <1>7, <1>0 DEF TypeOK, Labels, Threads, gate, boxes, locals, closing, Exchange
<1>8. ASSUME NEW t \in Threads, Post(t) PROVE TypeOK'
  <2>1. tasks' \in Nat
    BY <1>8, <1>0 DEF TypeOK, Labels, Post
  <2> QED BY <1>8, <1>0, <2>1 DEF TypeOK, Labels, gate, boxes, locals, closing, Post
<1>9. ASSUME NEW t \in Threads, PopPriority(t) PROVE TypeOK'
  <2>1. CASE /\ Priority!Pop /\ pc' = [pc EXCEPT ![t] = "handle"]
             /\ command' = [command EXCEPT ![t] = Head(priority_mailbox).value]
    <3>1. priority_mailbox # <<>> /\ priority_mailbox' = Tail(priority_mailbox) /\ priority_popped' = Append(priority_popped, Head(priority_mailbox).value)
      BY <2>1 DEF Priority!Pop, Priority!HeadReady
    <3>2. priority_mailbox' \in Seq(Entries) /\ Head(priority_mailbox).value \in Commands
      BY <1>0, <3>1, PoppedQueue DEF TypeOK, Labels, SchedulerInv, QueueInv
    <3>3. priority_popped' \in Seq(Commands)
      BY <1>0, <3>1, <3>2 DEF TypeOK
    <3> QED BY <1>9, <1>0, <2>1, <3>2, <3>3 DEF TypeOK, Labels, gate, locals, closing, PopPriority
  <2>2. CASE UNCHANGED <<priority_mailbox, priority_popped, command>>
    BY <1>9, <1>0, <2>2 DEF TypeOK, Labels, gate, locals, closing, PopPriority
  <2> QED BY <1>9, <2>1, <2>2 DEF PopPriority
<1>10. ASSUME NEW t \in Threads, PopNormal(t) PROVE TypeOK'
  <2>1. CASE /\ Normal!Pop /\ pc' = [pc EXCEPT ![t] = "handle"]
             /\ command' = [command EXCEPT ![t] = Head(mailbox).value]
    <3>1. mailbox # <<>> /\ mailbox' = Tail(mailbox) /\ popped' = Append(popped, Head(mailbox).value)
      BY <2>1 DEF Normal!Pop, Normal!HeadReady
    <3>2. mailbox' \in Seq(Entries) /\ Head(mailbox).value \in Commands
      BY <1>0, <3>1, PoppedQueue DEF TypeOK, Labels, SchedulerInv, QueueInv
    <3>3. popped' \in Seq(Commands)
      BY <1>0, <3>1, <3>2 DEF TypeOK
    <3> QED BY <1>10, <1>0, <2>1, <3>2, <3>3 DEF TypeOK, Labels, gate, locals, closing, PopNormal
  <2>2. CASE UNCHANGED <<mailbox, popped, command>>
    BY <1>10, <1>0, <2>2 DEF TypeOK, Labels, gate, locals, closing, PopNormal
  <2> QED BY <1>10, <2>1, <2>2 DEF PopNormal
<1>11. ASSUME NEW t \in Threads, CheckPending(t) PROVE TypeOK'
  <2>1. retries[t] <= kHeadPublicationRetries /\ retries[t] \in 0 .. kHeadPublicationRetries + 1
    BY <1>11, <1>0 DEF CheckPending, TypeOK, SchedulerInv, LocalsInv
  <2>2. retries' \in [Threads -> 0 .. kHeadPublicationRetries + 1]
    <3>1. retries' = retries \/ retries' = [retries EXCEPT ![t] = retries[t] + 1]
      BY <1>11 DEF CheckPending
    <3>2. retries[t] + 1 \in 0 .. kHeadPublicationRetries + 1
      BY <1>0, <2>1
    <3> QED BY <1>0, <3>1, <3>2 DEF TypeOK
  <2> QED BY <1>11, <1>0, <2>2 DEF TypeOK, Labels, gate, boxes, closing, CheckPending
<1>12. ASSUME NEW t \in Threads, Handle(t) PROVE TypeOK'
  <2>1. command[t] \in Commands
    BY <1>12, <1>0 DEF Handle, TypeOK, SchedulerInv, OwnersInv
  <2>2. pc' \in [Threads -> Labels]
    <3>1. "finish" \in Labels /\ pc' = [pc EXCEPT ![t] = "finish"]
      BY <1>12 DEF Handle, Labels
    <3> QED BY <1>0, <3>1, GotoType
  <2>3. handled' \in [Boxes -> Seq(Commands)]
    <3>1. BoxOf(command[t]) \in Boxes
      BY <2>1, CommandParts DEF BoxOf
    <3>2. Append(handled[BoxOf(command[t])], command[t]) \in Seq(Commands)
      BY <1>0, <2>1, <3>1 DEF TypeOK
    <3> QED BY <1>12, <1>0, <3>1, <3>2 DEF TypeOK, Handle
  <2>5. retries' \in [Threads -> 0 .. kHeadPublicationRetries + 1]
    BY <1>12, <1>0 DEF TypeOK, Handle
  <2>4. UNCHANGED <<gate, boxes, tasks, stopped, command, submits, processed, closing, inflight>>
    BY <1>12 DEF Handle
  <2> QED BY <1>0, <2>2, <2>3, <2>4, <2>5 DEF TypeOK, gate, boxes, closing
<1>13. ASSUME NEW t \in Threads, Finish(t) PROVE TypeOK'
  <2>1. pending_count > 0
    BY <1>13, <1>0, ReleasedPending DEF Finish
  <2>2. processed[t] < kMaxCommandsPerDrain /\ processed[t] \in 0 .. kMaxCommandsPerDrain
    BY <1>13, <1>0 DEF Finish, TypeOK, SchedulerInv, LocalsInv
  <2>3. pc' \in [Threads -> Labels]
    <3>1. PICK label \in {"finish_notify", "pop_priority", "clear"} : pc' = [pc EXCEPT ![t] = label]
      BY <1>13 DEF Finish, Continue
    <3>2. label \in Labels
      BY DEF Labels
    <3> QED BY <1>0, <3>1, <3>2, GotoType
  <2>4. /\ pending_count' = pending_count - 1 /\ inflight' = inflight \ {command[t]}
        /\ command' = [command EXCEPT ![t] = None]
        /\ processed' = [processed EXCEPT ![t] = processed[t] + 1]
        /\ UNCHANGED <<accepting, drain_scheduled, boxes, tasks, stopped, submits, retries, closing,
                       handled>>
    BY <1>13 DEF Finish, ReleasePending
  <2>5. command' \in [Threads -> Commands \cup {None}]
    BY <1>0, <2>4 DEF TypeOK
  <2>6. pending_count' \in Nat
    BY <1>0, <2>1, <2>4 DEF TypeOK
  <2>7. processed' \in [Threads -> 0 .. kMaxCommandsPerDrain]
    <3>1. processed[t] + 1 \in 0 .. kMaxCommandsPerDrain
      BY <1>0, <2>2
    <3> QED BY <1>0, <2>4, <3>1 DEF TypeOK
  <2> QED BY <1>0, <2>3, <2>4, <2>5, <2>6, <2>7 DEF TypeOK, boxes, closing
<1>14. ASSUME NEW t \in Threads, Clear(t) PROVE TypeOK'
  <2>1. /\ processed' \in [Threads -> 0 .. kMaxCommandsPerDrain]
        /\ retries' \in [Threads -> 0 .. kHeadPublicationRetries + 1]
    BY <1>14, <1>0 DEF TypeOK, Clear
  <2> QED BY <1>14, <1>0, <2>1 DEF TypeOK, Labels, boxes, closing, Clear
<1>15. ASSUME NEW t \in Threads, Recheck(t) PROVE TypeOK'
  BY <1>15, <1>0 DEF TypeOK, Labels, Threads, gate, boxes, locals, closing, Recheck
<1>16. ASSUME NEW t \in Threads, NotifyPending(t) PROVE TypeOK'
  BY <1>16, <1>0 DEF TypeOK, Labels, Threads, gate, boxes, locals, closing, NotifyPending, Continue
<1>17. ASSUME NEW t \in Threads, NotifyDrain(t) PROVE TypeOK'
  BY <1>17, <1>0 DEF TypeOK, Labels, Threads, gate, boxes, locals, closing, NotifyDrain
<1>18. CASE CloseAdmission
  BY <1>18, <1>0 DEF TypeOK, Threads, gate, boxes, locals, closing, CloseAdmission, Closing
<1>19. CASE WaitPending
  <2>1. /\ pending' \in Nat
        /\ closer' \in {"load", "wait", "blocked", "drain"}
    BY <1>19, <1>0 DEF TypeOK, WaitPending, Closing
  <2>2. UNCHANGED <<gate, boxes, tasks, stopped, pc, command, locals, inflight, handled>>
    BY <1>19 DEF WaitPending
  <2> QED BY <1>0, <2>1, <2>2 DEF TypeOK, gate, boxes, locals
<1>20. CASE WaitDrain
  BY <1>20, <1>0 DEF TypeOK, Threads, gate, boxes, locals, closing, WaitDrain, Closing
<1>21. CASE StopExecutor
  BY <1>21, <1>0 DEF TypeOK, Threads, gate, boxes, locals, closing, StopExecutor
<1>22. CASE Quiet
  BY <1>22, <1>0 DEF TypeOK, Threads, gate, boxes, locals, closing, Quiet, vars
<1>23. CASE UNCHANGED vars
  BY <1>23, <1>0 DEF vars, TypeOK, Threads, gate, boxes, locals, closing
<1> QED BY <1>1, <1>2, <1>3, <1>4, <1>5, <1>6, <1>7, <1>8, <1>9, <1>10, <1>11, <1>12, <1>13,
       <1>14, <1>15, <1>16, <1>17, <1>18, <1>19, <1>20, <1>21, <1>22, <1>23, Zenon DEF Next,
       Submitting, Draining, Waiting
-----------------------------------------------------------------------------
\* Steps that neither take a command out of a mailbox nor run the handler.
LEMMA OrderFrame ==
  ASSUME HandledInOrder, UNCHANGED <<popped, priority_popped, handled>>,
         \A t \in Threads : /\ pc'[t] = "handle" <=> pc[t] = "handle"
                            /\ pc[t] = "handle" => command'[t] = command[t]
  PROVE  HandledInOrder'
<1>1. \A b \in Boxes : Handling(b)' = Handling(b) /\ Out(b)' = Out(b)
  BY DEF Handling, Out
<1>2. ASSUME NEW b \in Boxes, NEW t \in Threads, Handling(b) = {t} PROVE command'[t] = command[t]
  BY <1>2 DEF Handling
<1> QED BY <1>1, <1>2 DEF HandledInOrder

\* A thread that may drain is the only one that may have a command for the handler.
LEMMA OnlyHandler ==
  ASSUME SingleConsumer, NEW t \in Threads, Holds(t), NEW u \in Threads, pc[u] = "handle"
  PROVE  u = t
BY DEF SingleConsumer, Holds

\* The first command of a mailbox is of its kind.
LEMMA FirstCommand ==
  ASSUME NEW q \in Seq(Entries), q # <<>>, NEW b, QueueInv(q, b)
  PROVE  Head(q).value \in Commands /\ BoxOf(Head(q).value) = b
<1>1. 1 \in DOMAIN q /\ Head(q) = q[1]
  OBVIOUS
<1> QED BY <1>1, EntryTypes DEF QueueInv, ValuesIn

\* A thread takes the next command of a mailbox.
LEMMA OrderPop ==
  ASSUME TypeOK, SingleConsumer, HandledInOrder, UNCHANGED handled,
         NEW t \in Threads, pc[t] \in {"pop_priority", "pop_normal"}, NEW c \in Commands,
         pc' = [pc EXCEPT ![t] = "handle"], command' = [command EXCEPT ![t] = c],
         Out(BoxOf(c))' = Append(Out(BoxOf(c)), c),
         \A b \in Boxes \ {BoxOf(c)} : Out(b)' = Out(b)
  PROVE  HandledInOrder'
<1>1. \A u \in Threads : pc[u] # "handle"
  BY OnlyHandler DEF Holds
<1>2. \A b \in Boxes : Handling(b) = {} /\ Out(b) = handled[b]
  BY <1>1 DEF Handling, HandledInOrder
<1>3. /\ pc'[t] = "handle" /\ command'[t] = c
      /\ \A u \in Threads \ {t} : pc'[u] # "handle"
  BY <1>1 DEF TypeOK
<1>4. Handling(BoxOf(c))' = {t} /\ \A b \in Boxes \ {BoxOf(c)} : Handling(b)' = {}
  BY <1>3 DEF Handling
<1>5. BoxOf(c) \in Boxes
  BY CommandParts DEF BoxOf
<1> QED BY <1>2, <1>3, <1>4, <1>5 DEF HandledInOrder

\* Each mailbox is handled in order.
LEMMA OrderStep == Inv /\ [Next]_vars => HandledInOrder'
<1> SUFFICES ASSUME Inv, [Next]_vars PROVE HandledInOrder'
  OBVIOUS
<1>0. TypeOK /\ SingleConsumer /\ SchedulerInv /\ HandledInOrder
  BY DEF Inv
<1> DEFINE Stays == \A t \in Threads : /\ pc'[t] = "handle" <=> pc[t] = "handle"
                                       /\ pc[t] = "handle" => command'[t] = command[t]
<1>1. ASSUME NEW t \in Submitters, Announce(t) \/ Submitting(t) PROVE HandledInOrder'
  <2>1. t \in Threads /\ pc[t] # "handle"
    BY <1>1 DEF Threads, Announce, Submitting, CheckAdmission, Reserve, Publish, Reject
  <2>2. UNCHANGED <<popped, priority_popped, handled>>
    BY <1>1 DEF Announce, Submitting, CheckAdmission, Reserve, Publish, Reject, boxes,
         Normal!Reserve, Normal!Publish, Priority!Reserve, Priority!Publish
  <2>3. \E label \in Labels \ {"handle"} : pc' = [pc EXCEPT ![t] = label]
    BY <1>1 DEF Announce, Submitting, CheckAdmission, Reserve, Publish, Reject, Labels
  <2>4. \E c : command' = [command EXCEPT ![t] = c] \/ command' = command
    BY <1>1 DEF Announce, Submitting, CheckAdmission, Reserve, Publish, Reject, ReleasePending
  <2>5. Stays
    BY <1>0, <2>1, <2>3, <2>4 DEF TypeOK
  <2> QED BY <1>0, <2>2, <2>5, OrderFrame
<1>2. ASSUME NEW t \in Threads, pc[t] # "handle",
             \/ RunDrainTask(t) \/ Exchange(t) \/ Post(t) \/ CheckPending(t) \/ Finish(t)
             \/ Clear(t) \/ Recheck(t) \/ NotifyPending(t) \/ NotifyDrain(t)
      PROVE  HandledInOrder'
  <2>2. UNCHANGED <<popped, priority_popped, handled>>
    BY <1>2 DEF RunDrainTask, Exchange, Post, CheckPending, Finish, Clear, Recheck, NotifyPending,
         NotifyDrain, boxes
  <2>3. \E label \in Labels \ {"handle"} : pc' = [pc EXCEPT ![t] = label]
    BY <1>2 DEF RunDrainTask, Exchange, Post, CheckPending, Finish, Clear, Recheck, NotifyPending,
         NotifyDrain, Continue, Labels
  <2>4. command' = [command EXCEPT ![t] = None] \/ command' = command
    BY <1>2 DEF RunDrainTask, Exchange, Post, CheckPending, Finish, Clear, Recheck, NotifyPending,
         NotifyDrain, ReleasePending
  <2>5. Stays
    BY <1>0, <1>2, <2>3, <2>4 DEF TypeOK
  <2> QED BY <1>0, <2>2, <2>5, OrderFrame
<1>3. ASSUME NEW t \in Threads, PopPriority(t) PROVE HandledInOrder'
  <2>1. CASE /\ Priority!Pop /\ pc' = [pc EXCEPT ![t] = "handle"]
             /\ command' = [command EXCEPT ![t] = Head(priority_mailbox).value]
    <3> DEFINE c == Head(priority_mailbox).value
    <3>1. /\ priority_mailbox # <<>> /\ priority_popped' = Append(priority_popped, c)
          /\ UNCHANGED <<popped, handled>> /\ pc[t] = "pop_priority"
      BY <1>3, <2>1 DEF Priority!Pop, Priority!HeadReady, PopPriority
    <3>2. c \in Commands /\ BoxOf(c) = "priority"
      BY <1>0, <3>1, FirstCommand DEF TypeOK, SchedulerInv
    <3>3. /\ Out("priority")' = Append(Out("priority"), c)
          /\ \A b \in Boxes \ {"priority"} : Out(b)' = Out(b)
      BY <3>1 DEF Out, Boxes
    <3> HIDE DEF c
    <3> QED BY <1>0, <2>1, <3>1, <3>2, <3>3, OrderPop DEF c
  <2>2. CASE UNCHANGED <<priority_mailbox, priority_popped, command>> /\ Goto(t, "pop_normal")
    BY <1>0, <1>3, <2>2, OrderFrame DEF PopPriority, TypeOK
  <2> QED BY <1>3, <2>1, <2>2 DEF PopPriority
<1>4. ASSUME NEW t \in Threads, PopNormal(t) PROVE HandledInOrder'
  <2>1. CASE /\ Normal!Pop /\ pc' = [pc EXCEPT ![t] = "handle"]
             /\ command' = [command EXCEPT ![t] = Head(mailbox).value]
    <3> DEFINE c == Head(mailbox).value
    <3>1. /\ mailbox # <<>> /\ popped' = Append(popped, c)
          /\ UNCHANGED <<priority_popped, handled>> /\ pc[t] = "pop_normal"
      BY <1>4, <2>1 DEF Normal!Pop, Normal!HeadReady, PopNormal
    <3>2. c \in Commands /\ BoxOf(c) = "normal"
      BY <1>0, <3>1, FirstCommand DEF TypeOK, SchedulerInv
    <3>3. /\ Out("normal")' = Append(Out("normal"), c)
          /\ \A b \in Boxes \ {"normal"} : Out(b)' = Out(b)
      BY <3>1 DEF Out, Boxes
    <3> HIDE DEF c
    <3> QED BY <1>0, <2>1, <3>1, <3>2, <3>3, OrderPop DEF c
  <2>2. CASE UNCHANGED <<mailbox, popped, command>> /\ Goto(t, "check")
    BY <1>0, <1>4, <2>2, OrderFrame DEF PopNormal, TypeOK
  <2> QED BY <1>4, <2>1, <2>2 DEF PopNormal
<1>5. ASSUME NEW t \in Threads, Handle(t) PROVE HandledInOrder'
  <2> DEFINE c == command[t]
  <2>1. /\ pc[t] = "handle" /\ pc' = [pc EXCEPT ![t] = "finish"] /\ c \in Commands
        /\ handled' = [handled EXCEPT ![BoxOf(c)] = Append(@, c)]
        /\ UNCHANGED <<popped, priority_popped, command>>
    BY <1>0, <1>5 DEF Handle, TypeOK, SchedulerInv, OwnersInv, boxes
  <2>2. BoxOf(c) \in Boxes
    BY <2>1, CommandParts DEF BoxOf
  <2>3. \A u \in Threads : pc[u] = "handle" <=> u = t
    BY <1>0, <2>1, OnlyHandler DEF Holds
  <2>4. \A b \in Boxes : Handling(b) = IF b = BoxOf(c) THEN {t} ELSE {}
    BY <2>3 DEF Handling
  <2>5. \A b \in Boxes : Out(b) = IF b = BoxOf(c) THEN Append(handled[b], c) ELSE handled[b]
    BY <1>0, <2>4 DEF HandledInOrder
  <2>6. \A u \in Threads : pc'[u] # "handle"
    BY <1>0, <2>1, <2>3 DEF TypeOK
  <2>7. \A b \in Boxes : Handling(b)' = {} /\ Out(b)' = Out(b)
    BY <2>1, <2>6 DEF Handling, Out
  <2>8. \A b \in Boxes : handled'[b] = IF b = BoxOf(c) THEN Append(handled[b], c) ELSE handled[b]
    BY <1>0, <2>1, <2>2 DEF TypeOK
  <2> QED BY <2>5, <2>7, <2>8 DEF HandledInOrder
<1>6. CASE CloseAdmission \/ Waiting \/ StopExecutor \/ Quiet \/ UNCHANGED vars
  <2>1. UNCHANGED <<popped, priority_popped, handled, pc, command>>
    BY <1>6 DEF CloseAdmission, Waiting, WaitPending, WaitDrain, StopExecutor, Quiet, vars, boxes
  <2> QED BY <1>0, <2>1, OrderFrame
<1>7. ASSUME NEW t \in Threads,
             \/ RunDrainTask(t) \/ Exchange(t) \/ Post(t) \/ CheckPending(t) \/ Finish(t)
             \/ Clear(t) \/ Recheck(t) \/ NotifyPending(t) \/ NotifyDrain(t)
      PROVE  pc[t] # "handle"
  BY <1>7 DEF RunDrainTask, Exchange, Post, CheckPending, Finish, Clear, Recheck, NotifyPending,
       NotifyDrain
<1> QED BY <1>1, <1>2, <1>3, <1>4, <1>5, <1>6, <1>7 DEF Next, Draining, Threads
-----------------------------------------------------------------------------
\* A new scheduler.
LEMMA InitInv == Init => Inv
<1> SUFFICES ASSUME Init PROVE Inv
  OBVIOUS
<1> USE DEF Init
<1>1. TypeOK
  <2>1. /\ submits \in 0 .. MaxSubmits
        /\ processed \in [Threads -> 0 .. kMaxCommandsPerDrain]
        /\ retries \in [Threads -> 0 .. kHeadPublicationRetries + 1]
    BY LimitsAssumption
  <2>2. /\ mailbox \in Seq(Entries) /\ priority_mailbox \in Seq(Entries)
        /\ popped \in Seq(Commands) /\ priority_popped \in Seq(Commands)
        /\ handled \in [Boxes -> Seq(Commands)]
    OBVIOUS
  <2>3. /\ pc \in [Threads -> {"idle"}]
        /\ command \in [Threads -> Commands \cup {None}]
    OBVIOUS
  <2>4. /\ accepting \in BOOLEAN /\ drain_scheduled \in BOOLEAN /\ stopped \in BOOLEAN
        /\ pending_count \in Nat /\ tasks \in Nat /\ pending \in Nat
        /\ closer = "open" /\ inflight \in SUBSET Commands
    OBVIOUS
  <2> HIDE DEF Init
  <2> QED BY <2>1, <2>2, <2>3, <2>4 DEF TypeOK, Labels
<1>2. ValuesIn(mailbox) = {} /\ ValuesIn(priority_mailbox) = {}
  <2>1. mailbox = <<>> /\ priority_mailbox = <<>>
    OBVIOUS
  <2> HIDE DEF Init
  <2> QED BY <2>1 DEF ValuesIn
<1>3. SchedulerInv
  <2>1. LocalsInv
    BY LimitsAssumption DEF LocalsInv
  <2>2. QueueInv(mailbox, "normal") /\ QueueInv(priority_mailbox, "priority")
    <3>1. mailbox = <<>> /\ priority_mailbox = <<>>
      OBVIOUS
    <3> HIDE DEF Init
    <3> QED BY <1>2, <3>1 DEF QueueInv
  <2>3. OwnersInv
    <3>1. /\ mailbox = <<>> /\ priority_mailbox = <<>>
          /\ \A t \in Threads : command[t] = None /\ pc[t] = "idle"
      OBVIOUS
    <3> HIDE DEF Init
    <3>2. Distinct(command)
      BY <3>1 DEF Distinct
    <3>3. Unowned(mailbox, command) /\ Unowned(priority_mailbox, command)
      BY <3>1 DEF Unowned
    <3> QED BY <3>1, <3>2, <3>3 DEF OwnersInv
  <2> QED BY <2>1, <2>2, <2>3, FS_EmptySet DEF SchedulerInv
<1>4. SingleConsumer
  BY DEF SingleConsumer, Holds
<1>5. PendingCounts
  BY <1>2, FS_EmptySet DEF PendingCounts
<1>6. NeverStranded /\ IdleMeansDone
  BY DEF NeverStranded, IdleMeansDone
<1>7. HandledInOrder
  <2>1. \A b \in Boxes : Handling(b) = {} /\ handled[b] = <<>> /\ Out(b) = <<>>
    BY DEF Handling, Out
  <2> QED BY <2>1 DEF HandledInOrder
<1> QED BY <1>1, <1>3, <1>4, <1>5, <1>6, <1>7 DEF Inv

\* Inv holds in every state of every behaviour of the scheduler.
THEOREM Scheduler_Inv == Spec => []Inv
<1>1. Inv /\ [Next]_vars => Inv'
  BY TypeStep, TokenStep, LocalsStep, AccountsStep, StrandedStep, ClosedStep, OrderStep
     DEF Inv, SchedulerInv, Accounts, Closed
<1> QED BY InitInv, <1>1, PTL DEF Spec

\* The commands of each mailbox reach the handler in the order of their reservation,
\* none twice and none skipped, whichever threads drain.
THEOREM Handled_InOrder == Spec => []HandledInOrder
BY Scheduler_Inv, PTL DEF Inv

\* DrainBatch never runs on two threads: the right to drain is with one thread
\* or one queued task, whatever submitters, workers and the stopping executor do.
THEOREM Single_Consumer == Spec => []SingleConsumer
BY Scheduler_Inv, PTL DEF Inv

\* pending_count_ is exactly the number of submissions neither processed nor
\* rejected, each of them in one mailbox or with one thread.
THEOREM Pending_Counts == Spec => []PendingCounts
BY Scheduler_Inv, PTL DEF Inv

\* A queued command always has a drain, or a thread about to schedule one.
THEOREM Never_Stranded == Spec => []NeverStranded
BY Scheduler_Inv, PTL DEF Inv

\* After WaitIdle has seen the count at zero no command is queued, being
\* handled or still to be accepted.
THEOREM Idle_MeansDone == Spec => []IdleMeansDone
BY Scheduler_Inv, PTL DEF Inv

\* The two together: the count is exact, and WaitIdle keeps its promise.
THEOREM Idle_Exact == Spec => []IdleExact
BY Pending_Counts, Idle_MeansDone, PTL DEF IdleExact

\* Types, and the limits on the locals of DrainBatch.
THEOREM Type_Correct == Spec => []TypeOK
BY Scheduler_Inv, PTL DEF Inv
=============================================================================
