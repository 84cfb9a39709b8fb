-------------------------- MODULE WorkerExecutor --------------------------
(***************************************************************************)
(* WorkerExecutor: a fixed pool of worker threads over one task queue,     *)
(* guarded by a mutex and a condition variable.  A critical section is one *)
(* action; a notification is sent after the mutex was released and is an   *)
(* action of its own.  The owner constructs the pool, and stops it         *)
(* explicitly or from the destructor.                                      *)
(***************************************************************************)
EXTENDS Naturals, Sequences, FiniteSets

CONSTANTS Workers, Posters,
          MaxPosts          \* bound: tasks posted

\* The constructor refuses a pool without workers.
ASSUME ExecutorAssumption ==
  /\ MaxPosts \in Nat
  /\ Workers # {} /\ Workers \cap Posters = {} /\ IsFiniteSet(Workers \cup Posters)

Tasks == 1 .. MaxPosts
NoTask == 0

VARIABLES
  tasks_, stopping_,
  pc,          \* worker or poster -> where it is
  task,        \* worker -> task it runs
  owner,       \* the thread that constructs and stops the executor
  posts,       \* calls of Post so far
  accepted,    \* history: tasks Post accepted, in order
  taken,       \* history: tasks handed to a worker, in order
  finished     \* history: tasks that returned

vars == <<tasks_, stopping_, pc, task, owner, posts, accepted, taken, finished>>
histories == <<accepted, taken, finished>>

Init ==
  /\ tasks_ = <<>> /\ stopping_ = FALSE
  /\ pc = [t \in Workers \cup Posters |-> IF t \in Workers THEN "unstarted" ELSE "idle"]
  /\ task = [w \in Workers |-> NoTask]
  /\ owner = "constructing"
  /\ posts = 0
  /\ accepted = <<>> /\ taken = <<>> /\ finished = {}

Goto(t, label) == pc' = [pc EXCEPT ![t] = label]
At(label) == {w \in Workers : pc[w] = label}
-----------------------------------------------------------------------------
(* Construction.  The workers run as soon as they are created.             *)

StartWorker(w) ==
  /\ owner = "constructing" /\ pc[w] = "unstarted"
  /\ Goto(w, "lock")
  /\ UNCHANGED <<tasks_, stopping_, task, owner, posts, histories>>

Constructed ==
  /\ owner = "constructing" /\ At("unstarted") = {}
  /\ owner' = "open"
  /\ UNCHANGED <<tasks_, stopping_, pc, task, posts, histories>>

\* A thread cannot be created: the constructor stops the pool and rethrows.
ConstructionFails ==
  /\ owner = "constructing" /\ At("unstarted") # {}
  /\ owner' = "stop"
  /\ UNCHANGED <<tasks_, stopping_, pc, task, posts, histories>>
-----------------------------------------------------------------------------
(* Post, from a thread of the server or from a task that is running.       *)

\* Faulty: no notification.
Post_Silent(p) ==
  /\ owner # "constructing" /\ At("unstarted") = {}
  /\ posts < MaxPosts
  /\ posts' = posts + 1
  /\ pc[p] \in {"idle", "run"}
  /\ IF stopping_ THEN UNCHANGED <<tasks_, accepted>>
                  ELSE tasks_' = Append(tasks_, posts') /\ accepted' = Append(accepted, posts')
  /\ UNCHANGED <<pc, stopping_, task, owner, taken, finished>>

Post(p) ==
  /\ owner # "constructing" /\ At("unstarted") = {}
  /\ posts < MaxPosts
  /\ posts' = posts + 1
  /\ \/ pc[p] = "idle" /\ Goto(p, IF stopping_ THEN "idle" ELSE "notify")
     \/ pc[p] = "run" /\ Goto(p, IF stopping_ THEN "run" ELSE "run_notify")
  /\ IF stopping_ THEN UNCHANGED <<tasks_, accepted>>
                  ELSE tasks_' = Append(tasks_, posts') /\ accepted' = Append(accepted, posts')
  /\ UNCHANGED <<stopping_, task, owner, taken, finished>>

\* notify_one wakes one waiting worker, if there is one.
NotifyOne(p) ==
  /\ pc[p] \in {"notify", "run_notify"}
  /\ LET after == [pc EXCEPT ![p] = IF pc[p] = "notify" THEN "idle" ELSE "run"] IN
     IF At("wait") = {} THEN pc' = after
                        ELSE \E w \in At("wait") : pc' = [after EXCEPT ![w] = "lock"]
  /\ UNCHANGED <<tasks_, stopping_, task, owner, posts, histories>>
-----------------------------------------------------------------------------
(* WorkerLoop *)

\* Faulty: a stopping worker leaves although tasks are queued.
Take_Leaves(w) ==
  /\ pc[w] = "lock"
  /\ IF tasks_ = <<>> \/ stopping_
       THEN /\ Goto(w, IF stopping_ THEN "exited" ELSE "wait")
            /\ UNCHANGED <<tasks_, task, taken>>
       ELSE /\ Goto(w, "run")
            /\ task' = [task EXCEPT ![w] = Head(tasks_)]
            /\ tasks_' = Tail(tasks_)
            /\ taken' = Append(taken, Head(tasks_))
  /\ UNCHANGED <<stopping_, owner, posts, accepted, finished>>

\* The critical section: wait, leave, or take the first task.
Take(w) ==
  /\ pc[w] = "lock"
  /\ IF tasks_ = <<>>
       THEN /\ Goto(w, IF stopping_ THEN "exited" ELSE "wait")
            /\ UNCHANGED <<tasks_, task, taken>>
       ELSE /\ Goto(w, "run")
            /\ task' = [task EXCEPT ![w] = Head(tasks_)]
            /\ tasks_' = Tail(tasks_)
            /\ taken' = Append(taken, Head(tasks_))
  /\ UNCHANGED <<stopping_, owner, posts, accepted, finished>>

\* A condition variable may wake up without a notification.
SpuriousWakeup(w) ==
  /\ pc[w] = "wait"
  /\ Goto(w, "lock")
  /\ UNCHANGED <<tasks_, stopping_, task, owner, posts, histories>>

\* The task returns, or throws an exception that is dropped.
TaskReturns(w) ==
  /\ pc[w] = "run"
  /\ Goto(w, "lock")
  /\ task' = [task EXCEPT ![w] = NoTask]
  /\ finished' = finished \cup {task[w]}
  /\ UNCHANGED <<tasks_, stopping_, owner, posts, accepted, taken>>
-----------------------------------------------------------------------------
(* Stop.  A later call, as the destructor's, finds stopping_ set.          *)

CallStop ==
  /\ owner \in {"open", "stopped"} /\ At("unstarted") = {}
  /\ owner' = "stop"
  /\ UNCHANGED <<tasks_, stopping_, pc, task, posts, histories>>

SetStopping ==
  /\ owner = "stop"
  /\ stopping_' = TRUE
  /\ owner' = IF stopping_ THEN "stopped" ELSE "notify_all"
  /\ UNCHANGED <<tasks_, pc, task, posts, histories>>

\* Faulty: notify_one instead of notify_all.
NotifyAll_One ==
  /\ owner = "notify_all"
  /\ IF At("wait") = {} THEN UNCHANGED pc ELSE \E w \in At("wait") : Goto(w, "lock")
  /\ owner' = "join"
  /\ UNCHANGED <<tasks_, stopping_, task, posts, histories>>

NotifyAll ==
  /\ owner = "notify_all"
  /\ pc' = [t \in DOMAIN pc |-> IF pc[t] = "wait" THEN "lock" ELSE pc[t]]
  /\ owner' = "join"
  /\ UNCHANGED <<tasks_, stopping_, task, posts, histories>>

\* The joins, in the order of workers_, return when the last worker left.
Join ==
  /\ owner = "join"
  /\ \A w \in Workers : pc[w] \in {"unstarted", "exited"}
  /\ owner' = "stopped"
  /\ UNCHANGED <<tasks_, stopping_, pc, task, posts, histories>>
-----------------------------------------------------------------------------
Working(w) == Take(w) \/ TaskReturns(w) \/ NotifyOne(w)
Stopping == SetStopping \/ NotifyAll \/ Join

\* The constructor has thrown.
NotConstructed ==
  /\ owner = "stopped" /\ At("unstarted") # {}
  /\ UNCHANGED vars

Next ==
  \/ \E w \in Workers : StartWorker(w) \/ Working(w) \/ SpuriousWakeup(w) \/ Post(w)
  \/ \E p \in Posters : Post(p) \/ NotifyOne(p)
  \/ Constructed \/ ConstructionFails \/ CallStop \/ Stopping \/ NotConstructed

Spec == Init /\ [][Next]_vars

\* Every thread keeps running and every task returns; spurious wakeups, posts
\* and the decision to stop are nobody's duty.
FairSpec ==
  /\ Spec
  /\ \A w \in Workers : WF_vars(Working(w))
  /\ \A p \in Posters : WF_vars(NotifyOne(p))
  /\ WF_vars(Stopping)
-----------------------------------------------------------------------------
(* Properties *)

TypeOK ==
  /\ tasks_ \in Seq(Tasks) /\ accepted \in Seq(Tasks) /\ taken \in Seq(Tasks)
  /\ stopping_ \in BOOLEAN
  /\ pc \in [Workers \cup Posters ->
              {"unstarted", "lock", "wait", "run", "run_notify", "exited", "idle", "notify"}]
  /\ task \in [Workers -> Tasks \cup {NoTask}]
  /\ owner \in {"constructing", "open", "stop", "notify_all", "join", "stopped"}
  /\ posts \in 0 .. MaxPosts
  /\ finished \subseteq Tasks

\* Tasks are handed out in the order Post accepted them, each exactly once, and
\* a task is queued, running at one worker, or finished.
EachTaskOnce ==
  /\ accepted = taken \o tasks_
  /\ \A i, j \in DOMAIN accepted : accepted[i] = accepted[j] => i = j
  /\ {taken[i] : i \in DOMAIN taken} = finished \cup ({task[w] : w \in Workers} \ {NoTask})
  /\ \A w \in Workers : task[w] \notin finished
  /\ \A v, w \in Workers : task[v] = task[w] /\ task[v] # NoTask => v = w

\* A queued task never waits for a worker while another worker sleeps: for
\* every queued task somebody is about to look at the queue or to notify.
NoLostWakeup ==
  /\ At("wait") # {} =>
       Len(tasks_) <= Cardinality(At("lock"))
                        + Cardinality({t \in DOMAIN pc : pc[t] \in {"notify", "run_notify"}})
  /\ stopping_ /\ owner # "notify_all" => At("wait") = {}

\* When Stop returns every accepted task has finished and no worker runs.
StopCompletes ==
  owner = "stopped" =>
    /\ \A i \in DOMAIN accepted : accepted[i] \in finished
    /\ \A w \in Workers : pc[w] \in {"unstarted", "exited"}

\* Every accepted task is run once, and is over when Stop returns.
TasksDone == EachTaskOnce /\ StopCompletes

\* Who has a task, and what has ended for good: a worker holds a task exactly while
\* it runs it; tasks are numbered as they are posted; only a complete pool accepts
\* tasks; a worker leaves an empty queue behind, which nobody fills again; and Stop
\* has nothing left to do when it is called again.
PoolInv ==
  /\ \A w \in Workers : /\ pc[w] \notin {"idle", "notify"}
                        /\ task[w] # NoTask <=> pc[w] \in {"run", "run_notify"}
                        /\ pc[w] = "exited" => stopping_ /\ tasks_ = <<>>
  /\ \A p \in Posters : pc[p] \in {"idle", "notify"}
  /\ \A i \in DOMAIN accepted : accepted[i] <= posts
  /\ accepted # <<>> => owner # "constructing" /\ At("unstarted") = {}
  /\ owner \in {"constructing", "open"} => ~stopping_
  /\ owner \in {"notify_all", "join"} => stopping_
  /\ owner = "stopped" \/ (owner = "stop" /\ stopping_) =>
       stopping_ /\ \A w \in Workers : pc[w] \in {"unstarted", "exited"}

\* Every accepted task runs to its end.
EveryTaskFinishes ==
  \A k \in Tasks : (\E i \in DOMAIN accepted : accepted[i] = k) ~> k \in finished

\* Stop returns.
StopReturns == owner = "stop" ~> owner = "stopped"

\* Neither a task nor a thread in Stop waits for ever.
PoolLive == EveryTaskFinishes /\ StopReturns
=============================================================================
