--------------------------- MODULE ExecutorProofs ---------------------------
(* Theorems about WorkerExecutor, for every number of workers and posters  *)
(* and every number of tasks.                                              *)
EXTENDS WorkerExecutor, FiniteSetTheorems, TLAPS

Inv == TypeOK /\ PoolInv /\ EachTaskOnce /\ NoLostWakeup

USE DEF Goto

\* Tasks are moved, not copied, from the queue to those handed out.
LEMMA TakenQueue ==
  ASSUME NEW S, NEW s \in Seq(S), NEW t \in Seq(S), t # <<>>
  PROVE  /\ Head(t) \in S /\ Tail(t) \in Seq(S) /\ Append(s, Head(t)) \in Seq(S)
         /\ Append(s, Head(t)) \o Tail(t) = s \o t
         /\ Len(Tail(t)) = Len(t) - 1
OBVIOUS

\* A task that is queued last is accepted last.
LEMMA AppendedQueue ==
  ASSUME NEW S, NEW s \in Seq(S), NEW t \in Seq(S), NEW x \in S
  PROVE  /\ Append(t, x) \in Seq(S)
         /\ Append(s \o t, x) = s \o Append(t, x)
         /\ Len(Append(t, x)) = Len(t) + 1
OBVIOUS

\* Every step keeps the types; only a worker that holds a task finishes one.
LEMMA TypeStep == TypeOK /\ PoolInv /\ [Next]_vars => TypeOK'
<1> SUFFICES ASSUME TypeOK, PoolInv, [Next]_vars PROVE TypeOK'
  OBVIOUS
<1> USE ExecutorAssumption DEF Tasks, NoTask
<1>1. ASSUME NEW w \in Workers, StartWorker(w) PROVE TypeOK'
  BY <1>1 DEF StartWorker, TypeOK, histories
<1>2. ASSUME Constructed PROVE TypeOK'
  BY <1>2 DEF Constructed, TypeOK, histories
<1>3. ASSUME ConstructionFails PROVE TypeOK'
  BY <1>3 DEF ConstructionFails, TypeOK, histories
<1>4. ASSUME NEW t \in Workers \cup Posters, Post(t) PROVE TypeOK'
  <2>1. posts' \in Tasks /\ posts' \in 0 .. MaxPosts
    BY <1>4 DEF Post, TypeOK
  <2>2. tasks_' \in Seq(Tasks) /\ accepted' \in Seq(Tasks)
    <3>1. CASE stopping_
      BY <1>4, <3>1 DEF Post, TypeOK
    <3>2. CASE ~stopping_
      <4>1. tasks_' = Append(tasks_, posts') /\ accepted' = Append(accepted, posts')
        BY <1>4, <3>2 DEF Post
      <4> QED BY <4>1, <2>1 DEF TypeOK
    <3> QED BY <3>1, <3>2
  <2>3. pc' \in [Workers \cup Posters ->
              {"unstarted", "lock", "wait", "run", "run_notify", "exited", "idle", "notify"}]
    BY <1>4 DEF Post, TypeOK
  <2> QED BY <1>4, <2>1, <2>2, <2>3 DEF Post, TypeOK
<1>5. ASSUME NEW t \in Workers \cup Posters, NotifyOne(t) PROVE TypeOK'
  <2>1. pc' \in [Workers \cup Posters ->
              {"unstarted", "lock", "wait", "run", "run_notify", "exited", "idle", "notify"}]
    BY <1>5 DEF NotifyOne, TypeOK, At
  <2> QED BY <1>5, <2>1 DEF NotifyOne, TypeOK, histories
<1>6. ASSUME NEW w \in Workers, Take(w) PROVE TypeOK'
  <2>1. CASE tasks_ = <<>>
    BY <1>6, <2>1 DEF Take, TypeOK
  <2>2. CASE tasks_ # <<>>
    <3>1. /\ tasks_' = Tail(tasks_) /\ taken' = Append(taken, Head(tasks_))
          /\ task' = [task EXCEPT ![w] = Head(tasks_)] /\ pc' = [pc EXCEPT ![w] = "run"]
          /\ UNCHANGED <<stopping_, owner, posts, accepted, finished>>
      BY <1>6, <2>2 DEF Take
    <3>2. /\ Head(tasks_) \in Tasks /\ Tail(tasks_) \in Seq(Tasks)
          /\ Append(taken, Head(tasks_)) \in Seq(Tasks)
      BY <2>2, TakenQueue DEF TypeOK
    <3> QED BY <3>1, <3>2 DEF TypeOK
  <2> QED BY <2>1, <2>2
<1>7. ASSUME NEW w \in Workers, SpuriousWakeup(w) PROVE TypeOK'
  BY <1>7 DEF SpuriousWakeup, TypeOK, histories
<1>8. ASSUME NEW w \in Workers, TaskReturns(w) PROVE TypeOK'
  <2>1. task[w] \in Tasks
    BY <1>8 DEF TaskReturns, TypeOK, PoolInv
  <2> QED BY <1>8, <2>1 DEF TaskReturns, TypeOK
<1>9. ASSUME CallStop PROVE TypeOK'
  BY <1>9 DEF CallStop, TypeOK, histories
<1>10. ASSUME SetStopping PROVE TypeOK'
  BY <1>10 DEF SetStopping, TypeOK, histories
<1>11. ASSUME NotifyAll PROVE TypeOK'
  BY <1>11 DEF NotifyAll, TypeOK, histories
<1>12. ASSUME Join PROVE TypeOK'
  BY <1>12 DEF Join, TypeOK, histories
<1>13. ASSUME UNCHANGED vars PROVE TypeOK'
  BY <1>13 DEF vars, histories, TypeOK
<1> QED BY <1>1, <1>2, <1>3, <1>4, <1>5, <1>6, <1>7, <1>8, <1>9, <1>10, <1>11, <1>12, <1>13
        DEF Next, Working, Stopping, NotConstructed

\* Every step keeps what PoolInv says.
LEMMA PoolStep == TypeOK /\ PoolInv /\ [Next]_vars => PoolInv'
<1> SUFFICES ASSUME TypeOK, PoolInv, [Next]_vars PROVE PoolInv'
  OBVIOUS
<1> USE ExecutorAssumption DEF NoTask
<1>1. ASSUME NEW w \in Workers, StartWorker(w) PROVE PoolInv'
  BY <1>1 DEF StartWorker, TypeOK, PoolInv, histories, At
<1>2. ASSUME Constructed PROVE PoolInv'
  BY <1>2 DEF Constructed, TypeOK, PoolInv, histories, At
<1>3. ASSUME ConstructionFails PROVE PoolInv'
  BY <1>3 DEF ConstructionFails, TypeOK, PoolInv, histories, At
<1>4. ASSUME NEW t \in Workers \cup Posters, Post(t) PROVE PoolInv'
  <2>1. CASE stopping_
    <3>1. UNCHANGED <<tasks_, stopping_, pc, task, owner, accepted>> /\ posts' = posts + 1
      BY <1>4, <2>1 DEF Post, TypeOK
    <3>2. \A i \in DOMAIN accepted : accepted[i] <= posts + 1
      BY DEF TypeOK, PoolInv, Tasks
    <3> QED BY <3>1, <3>2 DEF PoolInv, At
  <2>2. CASE ~stopping_
    <3>1. /\ tasks_' = Append(tasks_, posts + 1) /\ accepted' = Append(accepted, posts + 1)
          /\ posts' = posts + 1 /\ owner # "constructing" /\ At("unstarted") = {}
          /\ UNCHANGED <<stopping_, task, owner>>
      BY <1>4, <2>2 DEF Post
    <3>2. \A i \in DOMAIN accepted' : accepted'[i] <= posts'
      <4>1. accepted \in Seq(Tasks) /\ posts \in Nat
        BY DEF TypeOK
      <4>2. /\ DOMAIN accepted' = 1 .. Len(accepted) + 1
            /\ accepted'[Len(accepted) + 1] = posts + 1
            /\ \A i \in 1 .. Len(accepted) : accepted'[i] = accepted[i] /\ accepted[i] \in Nat
        BY <3>1, <4>1 DEF Tasks
      <4>3. \A i \in 1 .. Len(accepted) : accepted[i] <= posts
        BY <4>1 DEF PoolInv
      <4> QED BY <3>1, <4>1, <4>2, <4>3
    <3>3. /\ pc' = [pc EXCEPT ![t] = IF pc[t] = "idle" THEN "notify" ELSE "run_notify"]
          /\ pc[t] \in {"idle", "run"}
      BY <1>4, <2>2 DEF Post, TypeOK
    <3>4. At("unstarted")' = {}
      BY <3>1, <3>3 DEF At, TypeOK
    <3>5. \A w \in Workers : /\ pc'[w] \notin {"idle", "notify"}
                             /\ task'[w] # NoTask <=> pc'[w] \in {"run", "run_notify"}
                             /\ pc'[w] # "exited"
      BY <3>1, <3>3, <2>2 DEF TypeOK, PoolInv
    <3>6. \A p \in Posters : pc'[p] \in {"idle", "notify"}
      BY <3>3 DEF TypeOK, PoolInv
    <3> QED BY <3>1, <3>2, <3>4, <3>5, <3>6, <2>2 DEF PoolInv
  <2> QED BY <2>1, <2>2
<1>5. ASSUME NEW t \in Workers \cup Posters, NotifyOne(t) PROVE PoolInv'
  <2>1. /\ \A w \in Workers :
             /\ pc'[w] \notin {"idle", "notify"}
             /\ pc'[w] \in {"run", "run_notify"} <=> pc[w] \in {"run", "run_notify"}
             /\ pc'[w] = "exited" <=> pc[w] = "exited"
             /\ pc'[w] = "unstarted" <=> pc[w] = "unstarted"
        /\ \A p \in Posters : pc'[p] \in {"idle", "notify"}
    BY <1>5 DEF NotifyOne, TypeOK, PoolInv, At
  <2>2. UNCHANGED <<tasks_, stopping_, task, owner, posts, accepted>>
    BY <1>5 DEF NotifyOne, histories
  <2> QED BY <2>1, <2>2 DEF PoolInv, At, TypeOK
<1>6. ASSUME NEW w \in Workers, Take(w) PROVE PoolInv'
  <2>1. CASE tasks_ = <<>>
    BY <1>6, <2>1 DEF Take, TypeOK, PoolInv, At
  <2>2. CASE tasks_ # <<>>
    <3>1. /\ tasks_' = Tail(tasks_) /\ task' = [task EXCEPT ![w] = Head(tasks_)]
          /\ pc' = [pc EXCEPT ![w] = "run"] /\ pc[w] = "lock"
          /\ UNCHANGED <<stopping_, owner, posts, accepted>>
      BY <1>6, <2>2 DEF Take
    <3>2. Head(tasks_) \in Tasks /\ Head(tasks_) # NoTask
      BY <2>2, TakenQueue DEF TypeOK, Tasks
    <3>3. \A v \in Workers : pc[v] # "exited"
      BY <2>2 DEF PoolInv
    <3> QED BY <3>1, <3>2, <3>3 DEF TypeOK, PoolInv, At
  <2> QED BY <2>1, <2>2
<1>7. ASSUME NEW w \in Workers, SpuriousWakeup(w) PROVE PoolInv'
  BY <1>7 DEF SpuriousWakeup, TypeOK, PoolInv, histories, At
<1>8. ASSUME NEW w \in Workers, TaskReturns(w) PROVE PoolInv'
  BY <1>8 DEF TaskReturns, TypeOK, PoolInv, At
<1>9. ASSUME CallStop PROVE PoolInv'
  BY <1>9 DEF CallStop, TypeOK, PoolInv, histories, At
<1>10. ASSUME SetStopping PROVE PoolInv'
  BY <1>10 DEF SetStopping, TypeOK, PoolInv, histories, At
<1>11. ASSUME NotifyAll PROVE PoolInv'
  BY <1>11 DEF NotifyAll, TypeOK, PoolInv, histories, At
<1>12. ASSUME Join PROVE PoolInv'
  BY <1>12 DEF Join, TypeOK, PoolInv, histories, At
<1>13. ASSUME UNCHANGED vars PROVE PoolInv'
  BY <1>13 DEF vars, histories, PoolInv, At
<1> QED BY <1>1, <1>2, <1>3, <1>4, <1>5, <1>6, <1>7, <1>8, <1>9, <1>10, <1>11, <1>12, <1>13
        DEF Next, Working, Stopping, NotConstructed

Handed == {taken[i] : i \in DOMAIN taken}
Held == {task[w] : w \in Workers} \ {NoTask}

\* Every step keeps the tasks in order and apart.
LEMMA OnceStep == TypeOK /\ PoolInv /\ EachTaskOnce /\ [Next]_vars => EachTaskOnce'
<1> SUFFICES ASSUME TypeOK, PoolInv, EachTaskOnce, [Next]_vars PROVE EachTaskOnce'
  OBVIOUS
<1> USE ExecutorAssumption DEF NoTask
<1>0. ASSUME UNCHANGED <<accepted, taken, tasks_, finished, task>> PROVE EachTaskOnce'
  <2>1. accepted' = accepted /\ taken' = taken /\ tasks_' = tasks_ /\ finished' = finished /\ task' = task
    BY <1>0
  <2>2. Handed' = finished' \cup Held'
    <3>1. Handed' = Handed /\ Held' = Held
      BY <2>1 DEF Handed, Held
    <3>2. Handed = finished \cup Held
      BY DEF EachTaskOnce, Handed, Held
    <3> QED BY <2>1, <3>1, <3>2
  <2>3. /\ accepted' = taken' \o tasks_'
        /\ \A i, j \in DOMAIN accepted' : accepted'[i] = accepted'[j] => i = j
        /\ \A w \in Workers : task'[w] \notin finished'
        /\ \A v, w \in Workers : task'[v] = task'[w] /\ task'[v] # NoTask => v = w
    BY <2>1 DEF EachTaskOnce
  <2> QED BY <2>2, <2>3 DEF EachTaskOnce, Handed, Held
<1>1. ASSUME NEW t \in Workers \cup Posters, Post(t) PROVE EachTaskOnce'
  <2>1. CASE stopping_
    BY <1>0, <1>1, <2>1 DEF Post
  <2>2. CASE ~stopping_
    <3>1. /\ tasks_' = Append(tasks_, posts + 1) /\ accepted' = Append(accepted, posts + 1)
          /\ posts' = posts + 1 /\ UNCHANGED <<taken, finished, task>> /\ posts + 1 \in Tasks
      BY <1>1, <2>2 DEF Post, TypeOK, Tasks
    <3>2. accepted' = taken' \o tasks_'
      <4>1. taken \in Seq(Tasks) /\ tasks_ \in Seq(Tasks) /\ accepted = taken \o tasks_
        BY DEF TypeOK, EachTaskOnce
      <4>2. Append(taken \o tasks_, posts + 1) = taken \o Append(tasks_, posts + 1)
        <5>1. posts + 1 \in Tasks
          BY <3>1
        <5> QED BY <4>1, <5>1, AppendedQueue
      <4> QED BY <3>1, <4>1, <4>2
    <3>3. \A i, j \in DOMAIN accepted' : accepted'[i] = accepted'[j] => i = j
      <4>1. accepted \in Seq(Tasks) /\ posts \in Nat
        BY DEF TypeOK
      <4>2. /\ DOMAIN accepted' = 1 .. Len(accepted) + 1 /\ DOMAIN accepted = 1 .. Len(accepted)
            /\ accepted'[Len(accepted) + 1] = posts + 1
            /\ \A i \in 1 .. Len(accepted) : accepted'[i] = accepted[i] /\ accepted[i] \in Nat
        BY <3>1, <4>1 DEF Tasks
      <4>3. \A i \in 1 .. Len(accepted) : accepted[i] <= posts
        BY <4>1 DEF PoolInv
      <4>4. \A i, j \in 1 .. Len(accepted) : accepted[i] = accepted[j] => i = j
        BY <4>1 DEF EachTaskOnce
      <4> QED BY <4>1, <4>2, <4>3, <4>4
    <3>4. taken' = taken /\ finished' = finished /\ task' = task
      BY <3>1
    <3>5. Handed' = finished' \cup Held'
      <4>1. Handed' = Handed /\ Held' = Held
        BY <3>4 DEF Handed, Held
      <4>2. Handed = finished \cup Held
        BY DEF EachTaskOnce, Handed, Held
      <4> QED BY <3>4, <4>1, <4>2
    <3>6. /\ \A w \in Workers : task'[w] \notin finished'
          /\ \A v, w \in Workers : task'[v] = task'[w] /\ task'[v] # NoTask => v = w
      BY <3>4 DEF EachTaskOnce
    <3> QED BY <3>2, <3>3, <3>5, <3>6 DEF EachTaskOnce, Handed, Held
  <2> QED BY <2>1, <2>2
<1>2. ASSUME NEW w \in Workers, Take(w), tasks_ # <<>> PROVE EachTaskOnce'
  <2>1. /\ tasks_' = Tail(tasks_) /\ task' = [task EXCEPT ![w] = Head(tasks_)]
        /\ taken' = Append(taken, Head(tasks_)) /\ pc[w] = "lock"
        /\ UNCHANGED <<accepted, finished>>
    BY <1>2 DEF Take
  <2>2. /\ taken \in Seq(Tasks) /\ tasks_ \in Seq(Tasks) /\ task \in [Workers -> Tasks \cup {NoTask}]
        /\ Head(tasks_) \in Tasks /\ Head(tasks_) # NoTask /\ task[w] = NoTask
    <3>1. taken \in Seq(Tasks) /\ tasks_ \in Seq(Tasks) /\ task \in [Workers -> Tasks \cup {NoTask}]
      BY DEF TypeOK
    <3>2. Head(tasks_) \in Tasks
      BY <1>2, <3>1, TakenQueue
    <3>3. Head(tasks_) # NoTask
      BY <3>2 DEF Tasks
    <3>4. task[w] = NoTask
      BY <2>1 DEF PoolInv
    <3> QED BY <3>1, <3>2, <3>3, <3>4
  <2>3. accepted' = taken' \o tasks_'
    BY <1>2, <2>1, <2>2, TakenQueue DEF EachTaskOnce
  <2>4. Head(tasks_) \notin Handed
    <3>1. /\ DOMAIN taken = 1 .. Len(taken) /\ Len(taken) \in Nat
          /\ Len(taken) + 1 \in DOMAIN accepted /\ accepted[Len(taken) + 1] = Head(tasks_)
          /\ \A i \in 1 .. Len(taken) : i \in DOMAIN accepted /\ accepted[i] = taken[i]
      BY <1>2, <2>2 DEF EachTaskOnce
    <3>2. ASSUME NEW i \in DOMAIN taken, taken[i] = Head(tasks_) PROVE FALSE
      BY <3>1, <3>2 DEF EachTaskOnce
    <3> QED BY <3>2 DEF Handed
  <2>5. Handed' = Handed \cup {Head(tasks_)}
    <3>1. /\ DOMAIN taken' = DOMAIN taken \cup {Len(taken) + 1} /\ taken'[Len(taken) + 1] = Head(tasks_)
          /\ \A i \in DOMAIN taken : taken'[i] = taken[i]
      BY <2>1, <2>2
    <3> QED BY <3>1 DEF Handed
  <2>6. Handed = finished \cup Held
    BY DEF EachTaskOnce, Handed, Held
  <2>7. Held' = Held \cup {Head(tasks_)}
    BY <2>1, <2>2 DEF Held
  <2>8. Handed' = finished' \cup Held'
    BY <2>1, <2>5, <2>6, <2>7
  <2>9. \A v \in Workers : task'[v] \notin finished'
    BY <2>1, <2>2, <2>4, <2>6 DEF EachTaskOnce
  <2>10. ASSUME NEW u \in Workers, NEW v \in Workers, task'[u] = task'[v], task'[u] # NoTask PROVE u = v
    <3>1. \A x \in Workers \ {w} : task'[x] = task[x] /\ task[x] # Head(tasks_)
      BY <2>1, <2>2, <2>4, <2>6 DEF Held
    <3>2. task'[w] = Head(tasks_)
      BY <2>1, <2>2
    <3> QED BY <2>10, <3>1, <3>2 DEF EachTaskOnce
  <2>11. \A i, j \in DOMAIN accepted' : accepted'[i] = accepted'[j] => i = j
    BY <2>1 DEF EachTaskOnce
  <2> QED BY <2>3, <2>8, <2>9, <2>10, <2>11 DEF EachTaskOnce, Handed, Held
<1>3. ASSUME NEW w \in Workers, TaskReturns(w) PROVE EachTaskOnce'
  <2>1. /\ task' = [task EXCEPT ![w] = NoTask] /\ finished' = finished \cup {task[w]}
        /\ UNCHANGED <<accepted, taken, tasks_>> /\ task[w] # NoTask
        /\ task \in [Workers -> Tasks \cup {NoTask}]
    BY <1>3 DEF TaskReturns, PoolInv, TypeOK
  <2>2. Held = Held' \cup {task[w]}
    BY <2>1 DEF Held
  <2>3. {taken'[i] : i \in DOMAIN taken'} = finished' \cup Held'
    BY <2>1, <2>2 DEF EachTaskOnce, Held
  <2>4. \A v \in Workers : task'[v] \notin finished'
    <3>1. NoTask \notin finished'
      BY <2>1 DEF TypeOK, Tasks
    <3> QED BY <2>1, <3>1 DEF EachTaskOnce
  <2>5. \A u, v \in Workers : task'[u] = task'[v] /\ task'[u] # NoTask => u = v
    BY <2>1 DEF EachTaskOnce
  <2> QED BY <2>1, <2>3, <2>4, <2>5 DEF EachTaskOnce, Held
<1>4. ASSUME NEW w \in Workers, Take(w), tasks_ = <<>> PROVE EachTaskOnce'
  BY <1>0, <1>4 DEF Take
<1>5. ASSUME NEW w \in Workers, StartWorker(w) \/ NotifyOne(w) \/ SpuriousWakeup(w) PROVE EachTaskOnce'
  BY <1>0, <1>5 DEF StartWorker, NotifyOne, SpuriousWakeup, histories
<1>6. ASSUME NEW p \in Posters, NotifyOne(p) PROVE EachTaskOnce'
  BY <1>0, <1>6 DEF NotifyOne, histories
<1>7. ASSUME Constructed \/ ConstructionFails \/ CallStop \/ Stopping \/ UNCHANGED vars
      PROVE  EachTaskOnce'
  BY <1>0, <1>7 DEF Constructed, ConstructionFails, CallStop, Stopping, SetStopping, NotifyAll, Join,
                    vars, histories
<1> QED BY <1>1, <1>2, <1>3, <1>4, <1>5, <1>6, <1>7 DEF Next, Working, NotConstructed
-----------------------------------------------------------------------------
(* Wakeups *)

\* Those about to look at the queue, and those about to notify.
Looking == At("lock")
Notifying == {t \in DOMAIN pc : pc[t] \in {"notify", "run_notify"}}

\* Somebody for every queued task, while a worker sleeps.
Covered == At("wait") # {} => Len(tasks_) <= Cardinality(Looking) + Cardinality(Notifying)

\* Nobody sleeps any more once Stop has notified.
Awake == stopping_ /\ owner # "notify_all" => At("wait") = {}

\* There are finitely many threads.
LEMMA Counts ==
  ASSUME TypeOK
  PROVE  /\ IsFiniteSet(Looking) /\ IsFiniteSet(Notifying)
         /\ Cardinality(Looking) \in Nat /\ Cardinality(Notifying) \in Nat
         /\ Len(tasks_) \in Nat
<1>1. Looking \subseteq Workers \cup Posters /\ Notifying \subseteq Workers \cup Posters
  BY DEF Looking, Notifying, At, TypeOK
<1>2. IsFiniteSet(Looking) /\ IsFiniteSet(Notifying)
  BY <1>1, ExecutorAssumption, FS_Subset
<1>3. Len(tasks_) \in Nat
  BY DEF TypeOK
<1> QED BY <1>2, <1>3, FS_CardinalityType

\* One element more, or one less.
LEMMA OneMore ==
  ASSUME NEW S, NEW x, IsFiniteSet(S), x \notin S
  PROVE  Cardinality(S \cup {x}) = Cardinality(S) + 1
BY FS_AddElement

\* The same for an element that goes.
LEMMA OneLess ==
  ASSUME NEW S, NEW x \in S, IsFiniteSet(S)
  PROVE  Cardinality(S \ {x}) = Cardinality(S) - 1
BY FS_RemoveElement

\* Every step keeps a waker for every queued task.
LEMMA CoveredStep == TypeOK /\ PoolInv /\ Covered /\ [Next]_vars => Covered'
<1> SUFFICES ASSUME TypeOK, PoolInv, Covered, [Next]_vars PROVE Covered'
  OBVIOUS
<1> USE ExecutorAssumption, Counts
<1>a. pc \in [Workers \cup Posters ->
              {"unstarted", "lock", "wait", "run", "run_notify", "exited", "idle", "notify"}]
  BY DEF TypeOK
<1>1. ASSUME NEW w \in Workers, StartWorker(w) \/ SpuriousWakeup(w) \/ TaskReturns(w)
      PROVE  Covered'
  <2>1. /\ pc' = [pc EXCEPT ![w] = "lock"] /\ tasks_' = tasks_
        /\ pc[w] \in {"unstarted", "wait", "run"}
    BY <1>1 DEF StartWorker, SpuriousWakeup, TaskReturns
  <2>2. /\ Looking' = Looking \cup {w} /\ w \notin Looking /\ Notifying' = Notifying
        /\ At("wait")' \subseteq At("wait")
    BY <1>a, <2>1 DEF Looking, Notifying, At
  <2>3. Cardinality(Looking') = Cardinality(Looking) + 1
    BY <2>2, OneMore
  <2> QED BY <2>1, <2>2, <2>3 DEF Covered
<1>2. ASSUME NEW t \in Workers \cup Posters, Post(t) PROVE Covered'
  <2>1. CASE stopping_
    <3>1. pc' = pc /\ tasks_' = tasks_
      BY <1>a, <1>2, <2>1 DEF Post
    <3> QED BY <3>1 DEF Covered, Looking, Notifying, At
  <2>2. CASE ~stopping_
    <3>1. /\ pc' = [pc EXCEPT ![t] = IF pc[t] = "idle" THEN "notify" ELSE "run_notify"]
          /\ pc[t] \in {"idle", "run"} /\ tasks_' = Append(tasks_, posts')
      BY <1>a, <1>2, <2>2 DEF Post
    <3>2. /\ Notifying' = Notifying \cup {t} /\ t \notin Notifying
          /\ Looking' = Looking /\ At("wait")' = At("wait")
      BY <1>a, <3>1 DEF Looking, Notifying, At
    <3>3. Cardinality(Notifying') = Cardinality(Notifying) + 1
      BY <3>2, OneMore
    <3>4. Len(tasks_') = Len(tasks_) + 1
      BY <3>1 DEF TypeOK
    <3> QED BY <3>2, <3>3, <3>4 DEF Covered
  <2> QED BY <2>1, <2>2
<1>3. ASSUME NEW t \in Workers \cup Posters, NotifyOne(t) PROVE Covered'
  <2>1. CASE At("wait") = {}
    <3>1. At("wait")' = {}
      BY <1>a, <1>3, <2>1 DEF NotifyOne, At
    <3> QED BY <3>1 DEF Covered
  <2>2. CASE At("wait") # {}
    <3>1. PICK w \in At("wait") :
            pc' = [[pc EXCEPT ![t] = IF pc[t] = "notify" THEN "idle" ELSE "run"] EXCEPT ![w] = "lock"]
      BY <1>3, <2>2 DEF NotifyOne
    <3>2. pc[t] \in {"notify", "run_notify"} /\ tasks_' = tasks_
      BY <1>3 DEF NotifyOne
    <3>3. Notifying' = Notifying \ {t} /\ t \in Notifying
      BY <1>a, <3>1, <3>2 DEF Notifying, At
    <3>4. Looking' = Looking \cup {w} /\ w \notin Looking
      BY <1>a, <3>1, <3>2 DEF Looking, At
    <3>5. Cardinality(Notifying') = Cardinality(Notifying) - 1
      BY <3>3, OneLess
    <3>6. Cardinality(Looking') = Cardinality(Looking) + 1
      BY <3>4, OneMore
    <3> QED BY <2>2, <3>2, <3>5, <3>6 DEF Covered
  <2> QED BY <2>1, <2>2
<1>4. ASSUME NEW w \in Workers, Take(w), tasks_ # <<>> PROVE Covered'
  <2>1. pc' = [pc EXCEPT ![w] = "run"] /\ pc[w] = "lock" /\ tasks_' = Tail(tasks_)
    BY <1>4 DEF Take
  <2>2. /\ Looking' = Looking \ {w} /\ w \in Looking /\ Notifying' = Notifying
        /\ At("wait")' = At("wait")
    BY <1>a, <2>1 DEF Looking, Notifying, At
  <2>3. Cardinality(Looking') = Cardinality(Looking) - 1
    BY <2>2, OneLess
  <2>4. Len(tasks_') = Len(tasks_) - 1
    BY <1>4, <2>1 DEF TypeOK
  <2> QED BY <2>2, <2>3, <2>4 DEF Covered
<1>5. ASSUME NEW w \in Workers, Take(w), tasks_ = <<>> PROVE Covered'
  <2>1. Len(tasks_') = 0
    BY <1>5 DEF Take
  <2>2. TypeOK'
    BY TypeStep
  <2>3. Cardinality(Looking)' \in Nat /\ Cardinality(Notifying)' \in Nat
    <3>1. Looking' \subseteq Workers \cup Posters /\ Notifying' \subseteq Workers \cup Posters
      BY <2>2 DEF Looking, Notifying, At, TypeOK
    <3>2. IsFiniteSet(Looking') /\ IsFiniteSet(Notifying')
      BY <3>1, FS_Subset
    <3> QED BY <3>2, FS_CardinalityType
  <2> QED BY <2>1, <2>3 DEF Covered
<1>6. ASSUME NotifyAll PROVE Covered'
  <2>1. At("wait")' = {}
    BY <1>a, <1>6 DEF NotifyAll, At
  <2> QED BY <2>1 DEF Covered
<1>7. ASSUME \/ Constructed \/ ConstructionFails \/ CallStop \/ SetStopping \/ Join
             \/ UNCHANGED vars
      PROVE  Covered'
  <2>1. pc' = pc /\ tasks_' = tasks_
    BY <1>7 DEF Constructed, ConstructionFails, CallStop, SetStopping, Join, vars, histories
  <2> QED BY <2>1 DEF Covered, Looking, Notifying, At
<1> QED BY <1>1, <1>2, <1>3, <1>4, <1>5, <1>6, <1>7
        DEF Next, Working, Stopping, NotConstructed

\* No worker goes to sleep after Stop has notified.
LEMMA AwakeStep == TypeOK /\ PoolInv /\ Awake /\ [Next]_vars => Awake'
<1> SUFFICES ASSUME TypeOK, PoolInv, Awake, [Next]_vars PROVE Awake'
  OBVIOUS
<1>a. pc \in [Workers \cup Posters ->
              {"unstarted", "lock", "wait", "run", "run_notify", "exited", "idle", "notify"}]
  BY DEF TypeOK
<1>1. ASSUME NEW w \in Workers, StartWorker(w) \/ SpuriousWakeup(w) \/ TaskReturns(w) \/ Take(w)
      PROVE  Awake'
  BY <1>a, <1>1 DEF StartWorker, SpuriousWakeup, TaskReturns, Take, Awake, At
<1>2. ASSUME NEW t \in Workers \cup Posters, Post(t) PROVE Awake'
  BY <1>a, <1>2 DEF Post, Awake, At
<1>3. ASSUME NEW t \in Workers \cup Posters, NotifyOne(t) PROVE Awake'
  BY <1>a, <1>3 DEF NotifyOne, Awake, At
<1>4. ASSUME NotifyAll PROVE Awake'
  BY <1>a, <1>4 DEF NotifyAll, Awake, At
<1>5. ASSUME \/ Constructed \/ ConstructionFails \/ CallStop \/ SetStopping \/ Join
             \/ UNCHANGED vars
      PROVE  Awake'
  BY <1>5 DEF Constructed, ConstructionFails, CallStop, SetStopping, Join, vars, histories, Awake,
              PoolInv, At
<1> QED BY <1>1, <1>2, <1>3, <1>4, <1>5 DEF Next, Working, Stopping, NotConstructed
-----------------------------------------------------------------------------
\* The inductive invariant: what a worker holds and what has ended (PoolInv) is what
\* the order of the tasks and the wakeups rest on.
LEMMA Pool_Inv == Spec => []Inv
<1>1. Init => Inv
  <2> SUFFICES ASSUME Init PROVE Inv
    OBVIOUS
  <2> USE ExecutorAssumption DEF Init, NoTask
  <2>1. TypeOK
    <3>1. /\ tasks_ \in Seq(Tasks) /\ accepted \in Seq(Tasks) /\ taken \in Seq(Tasks)
          /\ posts \in 0 .. MaxPosts /\ finished \subseteq Tasks /\ stopping_ \in BOOLEAN
          /\ task \in [Workers -> Tasks \cup {NoTask}]
      <4>1. tasks_ \in Seq(Tasks) /\ accepted \in Seq(Tasks) /\ taken \in Seq(Tasks)
        OBVIOUS
      <4>2. posts \in 0 .. MaxPosts
        OBVIOUS
      <4>3. finished \subseteq Tasks /\ stopping_ \in BOOLEAN
        OBVIOUS
      <4>4. task \in [Workers -> Tasks \cup {NoTask}]
        OBVIOUS
      <4> QED BY <4>1, <4>2, <4>3, <4>4
    <3>2. pc \in [Workers \cup Posters ->
              {"unstarted", "lock", "wait", "run", "run_notify", "exited", "idle", "notify"}]
      OBVIOUS
    <3> QED BY <3>1, <3>2 DEF TypeOK
  <2>2. PoolInv
    BY DEF PoolInv, At
  <2>3. EachTaskOnce
    BY DEF EachTaskOnce
  <2>4. NoLostWakeup
    <3>1. At("wait") = {}
      BY DEF At
    <3> QED BY <3>1 DEF NoLostWakeup
  <2> QED BY <2>1, <2>2, <2>3, <2>4 DEF Inv
<1>2. Inv /\ [Next]_vars => Inv'
  <2>1. NoLostWakeup = (Covered /\ Awake)
    BY DEF NoLostWakeup, Covered, Awake, Looking, Notifying
  <2>2. NoLostWakeup' = (Covered' /\ Awake')
    BY DEF NoLostWakeup, Covered, Awake, Looking, Notifying
  <2> QED BY <2>1, <2>2, TypeStep, PoolStep, OnceStep, CoveredStep, AwakeStep DEF Inv
<1> QED BY <1>1, <1>2, PTL DEF Spec

\* No worker sleeps through a task, however posts, wakeups and stealing workers
\* interleave (Post, WorkerLoop).
THEOREM No_LostWakeup == Spec => []NoLostWakeup
BY Pool_Inv, PTL DEF Inv

\* Every accepted task is handed out once, in order, and has returned when Stop has;
\* then no worker is left (Stop, WorkerLoop).
THEOREM Tasks_Done == Spec => []TasksDone
<1>1. Inv => TasksDone
  <2> SUFFICES ASSUME Inv, owner = "stopped" PROVE StopCompletes
    BY DEF Inv, TasksDone, StopCompletes
  <2>1. stopping_ /\ \A w \in Workers : pc[w] \in {"unstarted", "exited"}
    BY DEF Inv, PoolInv
  <2>2. ASSUME NEW i \in DOMAIN accepted PROVE accepted[i] \in finished
    <3>1. accepted # <<>> /\ At("unstarted") = {}
      BY <2>2 DEF Inv, PoolInv, TypeOK
    <3>2. \A w \in Workers : pc[w] = "exited"
      BY <2>1, <3>1 DEF At
    <3>3. tasks_ = <<>> /\ \A w \in Workers : task[w] = NoTask
      BY <3>2, ExecutorAssumption DEF Inv, PoolInv
    <3>4. accepted = taken
      BY <3>3 DEF Inv, EachTaskOnce, TypeOK
    <3> QED BY <2>2, <3>3, <3>4 DEF Inv, EachTaskOnce
  <2> QED BY <2>1, <2>2 DEF StopCompletes
<1> QED BY <1>1, Pool_Inv, PTL

\* Types, and what every thread may be doing.
THEOREM Type_Correct == Spec => [](TypeOK /\ PoolInv)
BY Pool_Inv, PTL DEF Inv
=============================================================================
