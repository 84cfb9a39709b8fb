----------------------------- MODULE Scheduler -----------------------------
(***************************************************************************)
(* SessionCommandScheduler: any thread submits commands into one of two    *)
(* mailboxes; at most one drain task empties them, on a worker of the      *)
(* executor or, once the executor is stopped, on the submitting thread.    *)
(* Every atomic access is an action.  A closer thread tears the session    *)
(* down with CloseAdmission and WaitIdle.                                  *)
(*                                                                         *)
(* The mailboxes are instances of BoundedFifo, which Mailbox implements.   *)
(***************************************************************************)
EXTENDS Naturals, Sequences, FiniteSets

CONSTANTS Submitters, Workers,       \* threads that submit, threads of the executor
          kMailboxCapacity, kPriorityMailboxCapacity,
          kMaxCommandsPerDrain, kHeadPublicationRetries,
          MaxSubmits,                \* bound: submissions
          None                       \* no command

Threads == Submitters \cup Workers
Boxes == {"normal", "priority"}
Commands == Boxes \X (1 .. MaxSubmits)

ASSUME ThreadsAssumption == Submitters \cap Workers = {} /\ None \notin Commands
ASSUME LimitsAssumption ==
  /\ kMaxCommandsPerDrain \in Nat \ {0}
  /\ kHeadPublicationRetries \in Nat
  /\ MaxSubmits \in Nat

VARIABLES
  accepting, pending_count, drain_scheduled,
  mailbox, popped, priority_mailbox, priority_popped,
  tasks,               \* drain tasks queued in the executor
  stopped,             \* the executor refuses new tasks
  pc,                  \* thread -> next access
  submits,             \* submissions started
  command,             \* thread -> command it submits or handles
  processed, retries,  \* thread -> locals of DrainBatch
  closer, pending,     \* the thread in CloseAdmission and WaitIdle, its local
  inflight,            \* history: submissions neither processed nor rejected
  handled              \* history: mailbox -> its commands in the order their handler ran

gate == <<accepting, pending_count, drain_scheduled>>
boxes == <<mailbox, popped, priority_mailbox, priority_popped>>
locals == <<submits, processed, retries>>
closing == <<closer, pending>>
vars == <<gate, boxes, tasks, stopped, pc, command, locals, closing, inflight, handled>>

Normal == INSTANCE BoundedFifo
  WITH Values <- Commands, Capacity <- kMailboxCapacity, queue <- mailbox, delivered <- popped

Priority == INSTANCE BoundedFifo
  WITH Values <- Commands, Capacity <- kPriorityMailboxCapacity,
       queue <- priority_mailbox, delivered <- priority_popped

BoxOf(c) == c[1]

Init ==
  /\ accepting = TRUE /\ pending_count = 0 /\ drain_scheduled = FALSE
  /\ mailbox = <<>> /\ popped = <<>>
  /\ priority_mailbox = <<>> /\ priority_popped = <<>>
  /\ tasks = 0
  /\ stopped = FALSE
  /\ pc = [t \in Threads |-> "idle"]
  /\ submits = 0
  /\ command = [t \in Threads |-> None]
  /\ processed = [t \in Threads |-> 0]
  /\ retries = [t \in Threads |-> 0]
  /\ closer = "open" /\ pending = 0
  /\ inflight = {}
  /\ handled = [b \in Boxes |-> <<>>]

Goto(t, label) == pc' = [pc EXCEPT ![t] = label]
-----------------------------------------------------------------------------
(* Submit *)

\* TrySubmit or TrySubmitPriority: announce the submission.
Announce(s) ==
  /\ pc[s] = "idle"
  /\ submits < MaxSubmits
  /\ submits' = submits + 1
  /\ \E b \in Boxes :
       /\ command' = [command EXCEPT ![s] = <<b, submits'>>]
       /\ inflight' = inflight \cup {<<b, submits'>>}
  /\ pending_count' = pending_count + 1
  /\ Goto(s, "admit")
  /\ UNCHANGED <<accepting, drain_scheduled, boxes, tasks, stopped, processed, retries, closing,
                 handled>>

\* Faulty: does not look at the gate.
CheckAdmission_Ignore(s) ==
  /\ pc[s] = "admit"
  /\ Goto(s, "push")
  /\ UNCHANGED <<gate, boxes, tasks, stopped, command, locals, closing, inflight, handled>>

CheckAdmission(s) ==
  /\ pc[s] = "admit"
  /\ Goto(s, IF accepting THEN "push" ELSE "reject")
  /\ UNCHANGED <<gate, boxes, tasks, stopped, command, locals, closing, inflight, handled>>

\* TryPush, first half: a position is reserved, or the mailbox is full.
Reserve(s) ==
  /\ pc[s] = "push"
  /\ \/ /\ BoxOf(command[s]) = "normal"
        /\ \/ Normal!Reserve(command[s]) /\ Goto(s, "publish")
           \/ Len(mailbox) = kMailboxCapacity /\ Goto(s, "reject") /\ UNCHANGED <<mailbox, popped>>
        /\ UNCHANGED <<priority_mailbox, priority_popped>>
     \/ /\ BoxOf(command[s]) = "priority"
        /\ \/ Priority!Reserve(command[s]) /\ Goto(s, "publish")
           \/ /\ Len(priority_mailbox) = kPriorityMailboxCapacity
              /\ Goto(s, "reject")
              /\ UNCHANGED <<priority_mailbox, priority_popped>>
        /\ UNCHANGED <<mailbox, popped>>
  /\ UNCHANGED <<gate, tasks, stopped, command, locals, closing, inflight, handled>>

\* TryPush, second half.
Publish(s) ==
  /\ pc[s] = "publish"
  /\ \/ Normal!Publish(command[s]) /\ UNCHANGED <<priority_mailbox, priority_popped>>
     \/ Priority!Publish(command[s]) /\ UNCHANGED <<mailbox, popped>>
  /\ command' = [command EXCEPT ![s] = None]
  /\ Goto(s, "exchange")
  /\ UNCHANGED <<gate, tasks, stopped, locals, closing, inflight, handled>>

\* ReleasePending: the decrement that reaches zero is followed by notify_all.
ReleasePending(t) ==
  /\ pending_count' = pending_count - 1
  /\ inflight' = inflight \ {command[t]}
  /\ command' = [command EXCEPT ![t] = None]

Reject(s) ==
  /\ pc[s] = "reject"
  /\ ReleasePending(s)
  /\ Goto(s, IF pending_count = 1 THEN "reject_notify" ELSE "idle")
  /\ UNCHANGED <<accepting, drain_scheduled, boxes, tasks, stopped, locals, closing, handled>>
-----------------------------------------------------------------------------
(* ScheduleDrainIfRequired *)

\* Faulty: schedules a drain whatever the exchange returned.
Exchange_Always(t) ==
  /\ pc[t] = "exchange"
  /\ drain_scheduled' = TRUE
  /\ Goto(t, "post")
  /\ UNCHANGED <<accepting, pending_count, boxes, tasks, stopped, command, locals, closing,
                 inflight, handled>>

\* drain_scheduled.exchange(true): TRUE means somebody else drains.
Exchange(t) ==
  /\ pc[t] = "exchange"
  /\ drain_scheduled' = TRUE
  /\ Goto(t, IF drain_scheduled THEN "idle" ELSE "post")
  /\ UNCHANGED <<accepting, pending_count, boxes, tasks, stopped, command, locals, closing,
                 inflight, handled>>

\* Faulty: drains inline after the executor took the task.
Post_NoReturn(t) ==
  /\ pc[t] = "post"
  /\ Goto(t, "pop_priority")
  /\ tasks' = IF stopped THEN tasks ELSE tasks + 1
  /\ UNCHANGED <<gate, boxes, stopped, command, locals, closing, inflight, handled>>

\* Post a drain task, or drain inline when the executor refuses it.
Post(t) ==
  /\ pc[t] = "post"
  /\ IF stopped THEN Goto(t, "pop_priority") /\ UNCHANGED tasks
                ELSE Goto(t, "idle") /\ tasks' = tasks + 1
  /\ UNCHANGED <<gate, boxes, stopped, command, locals, closing, inflight, handled>>

\* A worker runs a queued drain task (RunDrainTask); queued tasks run even
\* after the executor was stopped.
RunDrainTask(w) ==
  /\ pc[w] = "idle"
  /\ tasks > 0
  /\ tasks' = tasks - 1
  /\ Goto(w, "pop_priority")
  /\ UNCHANGED <<gate, boxes, stopped, command, locals, closing, inflight, handled>>
-----------------------------------------------------------------------------
(* DrainBatch *)

PopPriority(t) ==
  /\ pc[t] = "pop_priority"
  /\ \/ /\ Priority!Pop
        /\ command' = [command EXCEPT ![t] = Head(priority_mailbox).value]
        /\ Goto(t, "handle")
     \/ /\ ~Priority!HeadReady(priority_mailbox)
        /\ Goto(t, "pop_normal")
        /\ UNCHANGED <<priority_mailbox, priority_popped, command>>
  /\ UNCHANGED <<gate, mailbox, popped, tasks, stopped, locals, closing, inflight, handled>>

PopNormal(t) ==
  /\ pc[t] = "pop_normal"
  /\ \/ /\ Normal!Pop
        /\ command' = [command EXCEPT ![t] = Head(mailbox).value]
        /\ Goto(t, "handle")
     \/ /\ ~Normal!HeadReady(mailbox)
        /\ Goto(t, "check")
        /\ UNCHANGED <<mailbox, popped, command>>
  /\ UNCHANGED <<gate, priority_mailbox, priority_popped, tasks, stopped, locals, closing,
                 inflight, handled>>

\* Nothing visible: stop when nothing is pending or after enough retries.
CheckPending(t) ==
  /\ pc[t] = "check"
  /\ IF pending_count = 0
       THEN Goto(t, "clear") /\ UNCHANGED retries
       ELSE /\ retries' = [retries EXCEPT ![t] = @ + 1]
            /\ Goto(t, IF retries[t] + 1 > kHeadPublicationRetries THEN "clear" ELSE "pop_priority")
  /\ UNCHANGED <<gate, boxes, tasks, stopped, command, submits, processed, closing, inflight,
                 handled>>

\* The command handler; an exception it throws is caught and dropped.
Handle(t) ==
  /\ pc[t] = "handle"
  /\ retries' = [retries EXCEPT ![t] = 0]
  /\ handled' = [handled EXCEPT ![BoxOf(command[t])] = Append(@, command[t])]
  /\ Goto(t, "finish")
  /\ UNCHANGED <<gate, boxes, tasks, stopped, command, submits, processed, closing, inflight>>

\* The loop condition, after n commands of this batch.
Continue(n) == IF n < kMaxCommandsPerDrain THEN "pop_priority" ELSE "clear"

Finish(t) ==
  /\ pc[t] = "finish"
  /\ ReleasePending(t)
  /\ processed' = [processed EXCEPT ![t] = @ + 1]
  /\ Goto(t, IF pending_count = 1 THEN "finish_notify" ELSE Continue(processed[t] + 1))
  /\ UNCHANGED <<accepting, drain_scheduled, boxes, tasks, stopped, submits, retries, closing,
                 handled>>

\* The batch ends, and its locals with it.
Clear(t) ==
  /\ pc[t] = "clear"
  /\ drain_scheduled' = FALSE
  /\ processed' = [processed EXCEPT ![t] = 0]
  /\ retries' = [retries EXCEPT ![t] = 0]
  /\ Goto(t, "clear_notify")
  /\ UNCHANGED <<accepting, pending_count, boxes, tasks, stopped, command, submits, closing,
                 inflight, handled>>

\* Faulty: the drain does not look again after it cleared the flag.
Recheck_Skip(t) ==
  /\ pc[t] = "recheck"
  /\ Goto(t, "idle")
  /\ UNCHANGED <<gate, boxes, tasks, stopped, command, locals, closing, inflight, handled>>

\* What arrived while drain_scheduled was still set needs another drain.
Recheck(t) ==
  /\ pc[t] = "recheck"
  /\ Goto(t, IF pending_count > 0 THEN "exchange" ELSE "idle")
  /\ UNCHANGED <<gate, boxes, tasks, stopped, command, locals, closing, inflight, handled>>
-----------------------------------------------------------------------------
(* notify_all wakes the closer if it is blocked on the same variable; it   *)
(* compares the value again before it goes on.                             *)

\* Faulty: no notify_all when the count reaches zero.
NotifyPending_Silent(t) ==
  /\ \/ pc[t] = "reject_notify" /\ Goto(t, "idle")
     \/ pc[t] = "finish_notify" /\ Goto(t, Continue(processed[t]))
  /\ UNCHANGED <<gate, boxes, tasks, stopped, command, locals, closing, inflight, handled>>

NotifyPending(t) ==
  /\ \/ pc[t] = "reject_notify" /\ Goto(t, "idle")
     \/ pc[t] = "finish_notify" /\ Goto(t, Continue(processed[t]))
  /\ closer' = IF closer = "blocked" THEN "wait" ELSE closer
  /\ UNCHANGED <<gate, boxes, tasks, stopped, command, locals, pending, inflight, handled>>

NotifyDrain(t) ==
  /\ pc[t] = "clear_notify"
  /\ Goto(t, "recheck")
  /\ closer' = IF closer = "drain_blocked" THEN "drain_wait" ELSE closer
  /\ UNCHANGED <<gate, boxes, tasks, stopped, command, locals, pending, inflight, handled>>

Closing(label) == closer' = label

CloseAdmission ==
  /\ closer = "open"
  /\ accepting' = FALSE
  /\ Closing("load")
  /\ UNCHANGED <<pending_count, drain_scheduled, boxes, tasks, stopped, pc, command, locals,
                 pending, inflight, handled>>

\* WaitIdle, first loop: pending_count.wait(pending) blocks while the counter
\* still has the value that was loaded.
WaitPending ==
  /\ \/ /\ closer = "load"
        /\ pending' = pending_count
        /\ Closing(IF pending_count = 0 THEN "drain" ELSE "wait")
     \/ /\ closer = "wait"
        /\ IF pending_count = pending THEN Closing("blocked") /\ UNCHANGED pending
                                       ELSE Closing("load") /\ pending' = 0
  /\ UNCHANGED <<gate, boxes, tasks, stopped, pc, command, locals, inflight, handled>>

\* WaitIdle, second loop.
WaitDrain ==
  /\ \/ closer = "drain" /\ Closing(IF drain_scheduled THEN "drain_wait" ELSE "done")
     \/ closer = "drain_wait" /\ Closing(IF drain_scheduled THEN "drain_blocked" ELSE "drain")
  /\ UNCHANGED <<gate, boxes, tasks, stopped, pc, command, locals, pending, inflight, handled>>

StopExecutor ==
  /\ ~stopped
  /\ stopped' = TRUE
  /\ UNCHANGED <<gate, boxes, tasks, pc, command, locals, closing, inflight, handled>>
-----------------------------------------------------------------------------
Submitting(s) == CheckAdmission(s) \/ Reserve(s) \/ Publish(s) \/ Reject(s)

Draining(t) ==
  \/ Exchange(t) \/ Post(t)
  \/ PopPriority(t) \/ PopNormal(t) \/ CheckPending(t) \/ Handle(t) \/ Finish(t)
  \/ Clear(t) \/ Recheck(t)
  \/ NotifyPending(t) \/ NotifyDrain(t)

Waiting == WaitPending \/ WaitDrain

\* Everybody has returned.
Quiet ==
  /\ closer = "done" /\ stopped /\ tasks = 0
  /\ \A t \in Threads : pc[t] = "idle"
  /\ UNCHANGED vars

Next ==
  \/ \E s \in Submitters : Announce(s) \/ Submitting(s)
  \/ \E w \in Workers : RunDrainTask(w)
  \/ \E t \in Threads : Draining(t)
  \/ CloseAdmission \/ Waiting \/ StopExecutor \/ Quiet

Spec == Init /\ [][Next]_vars

\* Every thread that has something to do eventually does its next step; nobody
\* has to submit, to close or to stop.
FairSpec ==
  /\ Spec
  /\ \A s \in Submitters : WF_vars(Submitting(s))
  /\ \A t \in Threads : WF_vars(Draining(t))
  /\ WF_vars(\E w \in Workers : RunDrainTask(w))
  /\ WF_vars(Waiting)
-----------------------------------------------------------------------------
(* Properties *)

Entries == [value : Commands, ready : BOOLEAN]

Labels ==
  {"idle", "admit", "push", "publish", "reject", "reject_notify", "exchange", "post",
   "pop_priority", "pop_normal", "check", "handle", "finish", "finish_notify", "clear",
   "clear_notify", "recheck"}

TypeOK ==
  /\ accepting \in BOOLEAN /\ drain_scheduled \in BOOLEAN /\ stopped \in BOOLEAN
  /\ pending_count \in Nat /\ tasks \in Nat /\ pending \in Nat
  /\ mailbox \in Seq(Entries) /\ priority_mailbox \in Seq(Entries)
  /\ popped \in Seq(Commands) /\ priority_popped \in Seq(Commands)
  /\ pc \in [Threads -> Labels]
  /\ submits \in 0 .. MaxSubmits
  /\ command \in [Threads -> Commands \cup {None}]
  /\ processed \in [Threads -> 0 .. kMaxCommandsPerDrain]
  /\ retries \in [Threads -> 0 .. kHeadPublicationRetries + 1]
  /\ closer \in {"open", "load", "wait", "blocked", "drain", "drain_wait", "drain_blocked", "done"}
  /\ inflight \in SUBSET Commands
  /\ handled \in [Boxes -> Seq(Commands)]

\* The thread holds the right to drain: it won the exchange and has neither
\* posted nor cleared yet.
Holds(t) ==
  pc[t] \in {"post", "pop_priority", "pop_normal", "check", "handle", "finish", "finish_notify",
             "clear"}

\* The consumer is single: the right to drain is with one thread or with one
\* queued task, and drain_scheduled says whether it is with anybody.
SingleConsumer ==
  /\ \A t, u \in Threads : Holds(t) /\ Holds(u) => t = u
  /\ tasks \in {0, 1}
  /\ tasks = 1 => \A t \in Threads : ~Holds(t)
  /\ drain_scheduled <=> (tasks = 1 \/ \E t \in Threads : Holds(t))

ValuesIn(q) == {q[i].value : i \in DOMAIN q}

\* pending_count_ counts exactly the submissions that have entered TrySubmit
\* and were neither processed nor rejected.
PendingCounts ==
  /\ pending_count = Cardinality(inflight)
  /\ inflight = ValuesIn(mailbox) \cup ValuesIn(priority_mailbox)
                  \cup ({command[t] : t \in Threads} \ {None})

Out(b) == IF b = "normal" THEN popped ELSE priority_popped

\* The threads about to run the handler on a command of a mailbox.
Handling(b) == {t \in Threads : pc[t] = "handle" /\ BoxOf(command[t]) = b}

\* Commands of each mailbox reach the handler in reservation order, none
\* twice, none skipped; at most the one being handled is missing.
HandledInOrder ==
  \A b \in Boxes :
    \/ Handling(b) = {} /\ Out(b) = handled[b]
    \/ \E t \in Threads : Handling(b) = {t} /\ Out(b) = Append(handled[b], command[t])

\* A command in a mailbox always has somebody who will drain it: a scheduled
\* drain, a submitter about to schedule one, or a drain about to look again.
NeverStranded ==
  mailbox # <<>> \/ priority_mailbox # <<>> =>
    \/ drain_scheduled
    \/ \E t \in Threads : pc[t] \in {"publish", "exchange", "clear_notify", "recheck"}

\* Once WaitIdle has seen the counter at zero the handler never runs again: no
\* command is queued, being handled or still to be accepted, although late
\* submissions and empty drains go on.
IdleMeansDone ==
  closer \in {"drain", "drain_wait", "drain_blocked", "done"} =>
    /\ mailbox = <<>> /\ priority_mailbox = <<>>
    /\ \A t \in Threads : pc[t] \notin {"push", "publish", "handle", "finish"}

\* The locals of DrainBatch stay within the limits of its loop and are reset
\* when the batch ends.
LocalsInv ==
  \A t \in Threads :
    /\ ~Holds(t) \/ pc[t] = "post" => processed[t] = 0 /\ retries[t] = 0
    /\ pc[t] \in {"pop_priority", "pop_normal", "check"} => retries[t] <= kHeadPublicationRetries
    /\ pc[t] \in {"finish", "finish_notify"} => retries[t] = 0
    /\ pc[t] \in {"pop_priority", "pop_normal", "check", "handle", "finish"} =>
         processed[t] < kMaxCommandsPerDrain

\* Each mailbox holds commands of its own kind that were announced, none twice.
QueueInv(q, b) ==
  /\ \A i, j \in DOMAIN q : q[i].value = q[j].value => i = j
  /\ \A c \in ValuesIn(q) : BoxOf(c) = b /\ c[2] <= submits

\* No two threads hold the same command.
Distinct(held) == \A t, u \in Threads : held[t] # None /\ held[t] = held[u] => t = u

\* Nobody holds a published command.
Unowned(q, held) == \A i \in DOMAIN q : q[i].ready => \A t \in Threads : held[t] # q[i].value

\* A command is with one thread or in a mailbox, and with both only between its
\* reservation and its publication.
OwnersInv ==
  /\ \A t \in Threads :
       /\ command[t] # None <=>
            pc[t] \in {"admit", "push", "publish", "reject", "handle", "finish"}
       /\ command[t] # None => command[t][2] <= submits
       /\ pc[t] \in {"admit", "push", "reject", "handle", "finish"} =>
            command[t] \notin ValuesIn(mailbox) /\ command[t] \notin ValuesIn(priority_mailbox)
  /\ Distinct(command)
  /\ Unowned(mailbox, command) /\ Unowned(priority_mailbox, command)

\* What makes the properties above inductive: locals within their limits, every
\* command in one place, and the gate closed once the closer started.
SchedulerInv ==
  /\ LocalsInv
  /\ QueueInv(mailbox, "normal") /\ QueueInv(priority_mailbox, "priority")
  /\ OwnersInv
  /\ IsFiniteSet(inflight)
  /\ accepting <=> closer = "open"

\* Every accepted command is eventually handled, whatever the drains, retries,
\* inline drains and a stopping executor do.
EveryCommandHandled ==
  \A c \in Commands :
    c \in ValuesIn(mailbox) \cup ValuesIn(priority_mailbox) ~>
      \E i \in DOMAIN handled[BoxOf(c)] : handled[BoxOf(c)][i] = c

\* WaitIdle returns: the closer is never left blocked by a missed notify_all.
WaitIdleReturns == closer = "load" ~> closer = "done"

\* What WaitIdle stands on and what it promises: the count is the number of commands
\* under way, and after it has returned no command is handled or still to come.
IdleExact == PendingCounts /\ IdleMeansDone

\* Neither a submitted command nor a thread in WaitIdle waits for ever.
SchedulerLive == EveryCommandHandled /\ WaitIdleReturns
=============================================================================
