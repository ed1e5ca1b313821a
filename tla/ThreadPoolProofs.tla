--------------------------- MODULE ThreadPoolProofs ---------------------------
(***************************************************************************)
(* Proofs about ThreadPool, for every set of calls and workers and every   *)
(* capacity.  The inductive invariant is StructInv, CounterExact and       *)
(* NoLostWakeup, in this order: each is inductive relative to the ones     *)
(* before it.                                                              *)
(***************************************************************************)
EXTENDS ThreadPool, FiniteSetTheorems, SequenceTheorems, TLAPS

\* TypeOK but for the sign of the counter, which only CounterExact gives.
TypeCore ==
    /\ task \in [Tasks -> TaskState]
    /\ queue \in Seq(Tasks)
    /\ unfinished \in Int
    /\ owing \subseteq Tasks
    /\ stopped \in BOOLEAN
    /\ wpc \in [Workers -> WorkerState]
    /\ held \in [Workers -> Tasks \cup {NoTask}]
    /\ stopPc \in {"no", "flagged", "notified", "joined"}

StructInv == TypeCore /\ OneHolderEach /\ LifeCycle

-----------------------------------------------------------------------------
(* Sequences *)

\* Append keeps what was there and puts the new element last.
LEMMA AppendFacts ==
    ASSUME NEW S, NEW s \in Seq(S), NEW e \in S
    PROVE  /\ Append(s, e) \in Seq(S)
           /\ Len(Append(s, e)) = Len(s) + 1
           /\ \A i \in 1..Len(s) : Append(s, e)[i] = s[i]
           /\ Append(s, e)[Len(s) + 1] = e
  OBVIOUS

\* Head and Tail split a sequence that is not empty.
LEMMA HeadTailFacts ==
    ASSUME NEW S, NEW s \in Seq(S), s # <<>>
    PROVE  /\ Len(s) \in Nat /\ Len(s) >= 1
           /\ Head(s) = s[1] /\ Head(s) \in S
           /\ Tail(s) \in Seq(S)
           /\ Len(Tail(s)) = Len(s) - 1
           /\ \A i \in 1..(Len(s) - 1) : Tail(s)[i] = s[i + 1]
  OBVIOUS

-----------------------------------------------------------------------------
(* StructInv *)

LEMMA StructInit == Init => StructInv
<1> SUFFICES ASSUME Init PROVE StructInv
    OBVIOUS
<1> USE DEF Init
<1>1. TypeCore
  <2>1. queue \in Seq(Tasks)
    BY EmptySeq
  <2>2. task \in [Tasks -> TaskState]
    BY DEF TaskState
  <2>3. wpc \in [Workers -> WorkerState]
    BY DEF WorkerState
  <2>4. held \in [Workers -> Tasks \cup {NoTask}]
    OBVIOUS
  <2>5. unfinished \in Int /\ owing \subseteq Tasks
        /\ stopPc \in {"no", "flagged", "notified", "joined"}
    OBVIOUS
  <2>6. stopped \in BOOLEAN
    OBVIOUS
  <2> QED BY <2>1, <2>2, <2>3, <2>4, <2>5, <2>6 DEF TypeCore
<1>2. OneHolderEach
  <2>1. Len(queue) = 0
    OBVIOUS
  <2> QED BY <2>1 DEF OneHolderEach
<1>3. LifeCycle
    BY DEF LifeCycle
<1> QED BY <1>1, <1>2, <1>3 DEF StructInv

LEMMA StructStep == StructInv /\ [Next]_vars => StructInv'
<1> SUFFICES ASSUME StructInv, [Next]_vars PROVE StructInv'
    OBVIOUS
<1> USE TasksAssumption, WorkersAssumption
    DEF StructInv, TypeCore, OneHolderEach, LifeCycle, TaskState, WorkerState
<1>1. CASE StartPool
    BY <1>1 DEF StartPool
<1>2. ASSUME NEW t \in Tasks, Count(t) PROVE StructInv'
    BY <1>2 DEF Count, Started
<1>3. ASSUME NEW t \in Tasks, Enqueue(t) PROVE StructInv'
  <2>1. queue' = Append(queue, t) /\ task[t] = "counted" /\ owing' = owing \cup {t}
        /\ task' = [task EXCEPT ![t] = IF stopped THEN "late" ELSE "queued"]
        /\ UNCHANGED <<unfinished, stopped, wpc, held, stopPc>>
    BY <1>3 DEF Enqueue
  <2>2. TypeCore'
    BY <2>1, AppendFacts
  <2>3. \A i \in 1..Len(queue) : queue[i] # t
    BY <2>1
  <2>4. OneHolderEach'
    BY <2>1, <2>2, <2>3, AppendFacts
  <2>5. LifeCycle'
    BY <2>1
  <2> QED BY <2>2, <2>4, <2>5
<1>4. ASSUME NEW t \in Tasks, Notify(t) PROVE StructInv'
  <2>1. CASE Waiting = {}
    BY <1>4, <2>1 DEF Notify
  <2>2. CASE Waiting # {}
    <3>1. PICK w \in Workers : wpc[w] = "waiting" /\ wpc' = [wpc EXCEPT ![w] = "ready"]
      BY <1>4, <2>2 DEF Notify, Waiting
    <3> QED BY <1>4, <3>1 DEF Notify
  <2> QED BY <2>1, <2>2
<1>5. ASSUME NEW t \in Tasks, Refuse(t) PROVE StructInv'
    BY <1>5 DEF Refuse
<1>6. ASSUME NEW t \in Tasks, Uncount(t) PROVE StructInv'
    BY <1>6 DEF Uncount
<1>7. ASSUME NEW w \in Workers, Pop(w) PROVE StructInv'
  <2> DEFINE t == Head(queue)
  <2>1. /\ t \in Tasks /\ Len(queue) \in Nat /\ Len(queue) >= 1 /\ t = queue[1]
        /\ queue' \in Seq(Tasks) /\ Len(queue') = Len(queue) - 1
        /\ \A i \in 1..(Len(queue) - 1) : queue'[i] = queue[i + 1]
    BY <1>7, HeadTailFacts DEF Pop
  <2>2. /\ wpc[w] = "ready" /\ wpc' = [wpc EXCEPT ![w] = "running"]
        /\ held' = [held EXCEPT ![w] = t] /\ task' = [task EXCEPT ![t] = "running"]
        /\ UNCHANGED <<unfinished, owing, stopped, stopPc>>
    BY <1>7 DEF Pop
  <2>3. task[t] \in {"queued", "late"}
    BY <2>1
  <2> HIDE DEF t
  <2>4. TypeCore'
    BY <2>1, <2>2
  <2>5. \A u \in Tasks : task'[u] \in {"queued", "late"} <=> \E i \in 1..Len(queue') : queue'[i] = u
    <3> SUFFICES ASSUME NEW u \in Tasks
                 PROVE  task'[u] \in {"queued", "late"} <=> \E i \in 1..Len(queue') : queue'[i] = u
        OBVIOUS
    <3>1. ASSUME NEW i \in 1..Len(queue'), queue'[i] = u PROVE task'[u] \in {"queued", "late"}
      BY <3>1, <2>1, <2>2
    <3>2. ASSUME task'[u] \in {"queued", "late"} PROVE \E i \in 1..Len(queue') : queue'[i] = u
      <4>1. u # t /\ task[u] \in {"queued", "late"}
        BY <3>2, <2>1, <2>2
      <4>2. PICK j \in 1..Len(queue) : queue[j] = u
        BY <4>1
      <4>3. j # 1 /\ (j - 1) \in 1..Len(queue') /\ queue'[j - 1] = u
        BY <4>1, <4>2, <2>1
      <4> QED BY <4>3
    <3> QED BY <3>1, <3>2
  <2>6. \A i, j \in 1..Len(queue') : queue'[i] = queue'[j] => i = j
    BY <2>1
  <2>7. \A v \in Workers : held[v] # t
    BY <2>1, <2>3
  <2>8. OneHolderEach'
    BY <2>1, <2>2, <2>3, <2>5, <2>6, <2>7
  <2>9. LifeCycle'
    BY <2>1, <2>2, <2>3
  <2> QED BY <2>4, <2>8, <2>9
<1>8. ASSUME NEW w \in Workers, Wait(w) PROVE StructInv'
    BY <1>8 DEF Wait
<1>9. ASSUME NEW w \in Workers, Exit(w) PROVE StructInv'
  <2>1. \A t \in Tasks : task[t] # "queued"
    BY <1>9 DEF Exit
  <2> QED BY <1>9, <2>1 DEF Exit
<1>10. ASSUME NEW w \in Workers, Run(w) PROVE StructInv'
    BY <1>10 DEF Run
<1>11. ASSUME NEW w \in Workers, Decrement(w) PROVE StructInv'
    BY <1>11 DEF Decrement
<1>12. ASSUME NEW w \in Workers, SpuriousWakeup(w) PROVE StructInv'
    BY <1>12 DEF SpuriousWakeup
<1>13. CASE StopQueue
    BY <1>13 DEF StopQueue
<1>14. CASE NotifyAll
    BY <1>14 DEF NotifyAll
<1>15. CASE Join
    BY <1>15 DEF Join
<1>16. CASE Terminated \/ UNCHANGED vars
    BY <1>16 DEF Terminated, vars
<1> QED
    BY <1>1, <1>2, <1>3, <1>4, <1>5, <1>6, <1>7, <1>8, <1>9, <1>10, <1>11, <1>12, <1>13,
       <1>14, <1>15, <1>16 DEF Next, PushStep, WorkerStep

\* The structure of the pool is kept by every behaviour.
THEOREM StructCorrect == Safety => []StructInv
  BY StructInit, StructStep, PTL DEF Safety

\* Each accepted task is in the queue or with one worker, and nowhere twice.
THEOREM HoldersCorrect == Safety => []OneHolderEach
<1>1. StructInv => OneHolderEach
    BY DEF StructInv
<1> QED BY <1>1, StructCorrect, PTL

\* The order of start, push, stop and join in the life of a pool.
THEOREM LifeCycleCorrect == Safety => []LifeCycle
<1>1. StructInv => LifeCycle
    BY DEF StructInv
<1> QED BY <1>1, StructCorrect, PTL

-----------------------------------------------------------------------------
(* The counter *)

\* Counted is a finite set, so its cardinality is a natural number.
LEMMA CountedFinite == IsFiniteSet(Counted) /\ Cardinality(Counted) \in Nat
  BY TasksAssumption, FS_Subset, FS_CardinalityType, Counted \in SUBSET Tasks DEF Counted

LEMMA CounterInit == Init => CounterExact
<1> SUFFICES ASSUME Init PROVE CounterExact
    OBVIOUS
<1>1. Counted = {}
    BY DEF Init, Counted
<1> QED BY <1>1, FS_EmptySet DEF Init, CounterExact

LEMMA CounterStep == StructInv /\ CounterExact /\ [Next]_vars => CounterExact'
<1> SUFFICES ASSUME StructInv, CounterExact, [Next]_vars PROVE CounterExact'
    OBVIOUS
<1> USE DEF StructInv, TypeCore, TaskState
\* The counter moves with the set: one call or task enters it, or leaves it.
<1>1. ASSUME NEW t \in Tasks, Count(t) PROVE CounterExact'
  <2>1. t \notin Counted /\ Counted' = Counted \cup {t} /\ unfinished' = unfinished + 1
    BY <1>1 DEF Count, Counted
  <2> QED BY <2>1, CountedFinite, FS_AddElement DEF CounterExact
<1>2. ASSUME NEW t \in Tasks, Uncount(t) PROVE CounterExact'
  <2>1. t \in Counted /\ Counted' = Counted \ {t} /\ unfinished' = unfinished - 1
    BY <1>2 DEF Uncount, Counted
  <2> QED BY <2>1, CountedFinite, FS_RemoveElement DEF CounterExact
<1>3. ASSUME NEW w \in Workers, Decrement(w) PROVE CounterExact'
  <2>1. held[w] \in Counted /\ Counted' = Counted \ {held[w]} /\ unfinished' = unfinished - 1
    BY <1>3 DEF Decrement, OneHolderEach, Counted
  <2> QED BY <2>1, CountedFinite, FS_RemoveElement DEF CounterExact
\* The other steps change neither.
<1>4. ASSUME NEW t \in Tasks, Enqueue(t) \/ Refuse(t) PROVE CounterExact'
  <2>1. Counted' = Counted /\ unfinished' = unfinished
    BY <1>4 DEF Enqueue, Refuse, Counted
  <2> QED BY <2>1 DEF CounterExact
<1>5. ASSUME NEW w \in Workers, Pop(w) PROVE CounterExact'
  <2>1. Head(queue) \in Tasks /\ task[Head(queue)] \in {"queued", "late"}
    <3>1. Head(queue) = queue[1] /\ 1 \in 1..Len(queue) /\ Head(queue) \in Tasks
      BY <1>5, HeadTailFacts DEF Pop
    <3> QED BY <3>1 DEF OneHolderEach
  <2>2. Counted' = Counted /\ unfinished' = unfinished
    BY <1>5, <2>1 DEF Pop, Counted
  <2> QED BY <2>2 DEF CounterExact
<1>6. ASSUME NEW w \in Workers, Run(w) PROVE CounterExact'
  <2>1. Counted' = Counted /\ unfinished' = unfinished
    BY <1>6 DEF Run, OneHolderEach, Counted
  <2> QED BY <2>1 DEF CounterExact
<1>7. ASSUME task' = task, unfinished' = unfinished PROVE CounterExact'
    BY <1>7 DEF CounterExact, Counted
<1>8. ASSUME NEW t \in Tasks, Notify(t) PROVE CounterExact'
    BY <1>7, <1>8 DEF Notify
<1>9. ASSUME NEW w \in Workers, Wait(w) \/ Exit(w) \/ SpuriousWakeup(w) PROVE CounterExact'
    BY <1>7, <1>9 DEF Wait, Exit, SpuriousWakeup
<1>10. CASE StartPool \/ StopQueue \/ NotifyAll \/ Join \/ Terminated \/ UNCHANGED vars
    BY <1>7, <1>10 DEF StartPool, StopQueue, NotifyAll, Join, Terminated, vars
<1> QED
    BY <1>1, <1>2, <1>3, <1>4, <1>5, <1>6, <1>8, <1>9, <1>10 DEF Next, PushStep, WorkerStep

\* m_unfinished_tasks is exact in every state: it counts the calls and tasks
\* between the increment in push_task and the decrement that pairs with it.
THEOREM CounterCorrect == Safety => []CounterExact
<1>1. Init => StructInv /\ CounterExact
    BY StructInit, CounterInit
<1>2. StructInv /\ CounterExact /\ [Next]_vars => (StructInv /\ CounterExact)'
    BY StructStep, CounterStep
<1> QED BY <1>1, <1>2, PTL DEF Safety

\* Type correctness. The counter is a natural number because it is exact: the
\* size_t m_unfinished_tasks never wraps around below zero.
THEOREM TypeCorrect == Safety => []TypeOK
<1>1. StructInv /\ CounterExact => TypeOK
    BY CountedFinite DEF StructInv, TypeCore, CounterExact, TypeOK
<1> QED BY <1>1, StructCorrect, CounterCorrect, PTL

\* A counter that reads zero leaves no task waiting or executing, which is what
\* the shutdown of an I/O thread relies on.
THEOREM ZeroMeansIdleCorrect == Safety => []ZeroMeansIdle
<1>1. CounterExact => ZeroMeansIdle
  <2> SUFFICES ASSUME CounterExact, unfinished = 0
               PROVE  \A t \in Tasks : task[t] \notin {"queued", "late", "running", "ran"}
      BY DEF ZeroMeansIdle
  <2>1. Counted = {}
    BY CountedFinite, FS_EmptySet DEF CounterExact
  <2> QED BY <2>1 DEF Counted
<1> QED BY <1>1, CounterCorrect, PTL

-----------------------------------------------------------------------------
(* Wakeups *)

\* The sets of threads and pushes NoLostWakeup counts are finite.
LEMMA WakeupSetsFinite ==
    ASSUME TypeCore
    PROVE  /\ IsFiniteSet(Awake) /\ Cardinality(Awake) \in Nat
           /\ IsFiniteSet(owing) /\ Cardinality(owing) \in Nat
<1>1. Awake \in SUBSET Workers /\ owing \in SUBSET Tasks
    BY DEF Awake, TypeCore
<1> QED BY <1>1, TasksAssumption, WorkersAssumption, FS_Subset, FS_CardinalityType

LEMMA WakeupStep == StructInv /\ NoLostWakeup /\ [Next]_vars => NoLostWakeup'
<1> SUFFICES ASSUME StructInv, NoLostWakeup, [Next]_vars, Waiting' # {}
             PROVE  Len(queue') <= Cardinality(Awake') + Cardinality(owing')
    BY DEF NoLostWakeup
<1> DEFINE Goal == Len(queue') <= Cardinality(Awake') + Cardinality(owing')
<1>0. TypeCore /\ Len(queue) \in Nat /\ TypeCore'
    BY StructStep DEF StructInv, TypeCore
<1>00. /\ IsFiniteSet(Awake) /\ Cardinality(Awake) \in Nat
       /\ IsFiniteSet(owing) /\ Cardinality(owing) \in Nat
    BY <1>0, WakeupSetsFinite
\* A push brings the task and the promise to notify together.
<1>1. ASSUME NEW t \in Tasks, Enqueue(t) PROVE Goal
  <2>1. t \notin owing /\ owing' = owing \cup {t} /\ Awake' = Awake /\ Waiting' = Waiting
    BY <1>1 DEF Enqueue, Awake, Waiting, StructInv, LifeCycle
  <2>2. Len(queue') = Len(queue) + 1
    BY <1>0, <1>1, AppendFacts DEF Enqueue, TypeCore
  <2>3. Cardinality(owing') = Cardinality(owing) + 1
    BY <1>00, <2>1, FS_AddElement
  <2> QED BY <1>0, <1>00, <2>1, <2>2, <2>3 DEF NoLostWakeup
\* A notification turns the promise into a worker that is awake.
<1>2. ASSUME NEW t \in Tasks, Notify(t) PROVE Goal
  <2>1. Waiting # {}
    BY <1>2 DEF Notify, Waiting
  <2>2. PICK w \in Waiting : wpc' = [wpc EXCEPT ![w] = "ready"]
    BY <1>2, <2>1 DEF Notify
  <2>3. w \notin Awake /\ Awake' = Awake \cup {w}
    BY <1>0, <2>2 DEF Awake, Waiting, TypeCore
  <2>4. t \in owing /\ owing' = owing \ {t} /\ queue' = queue
    BY <1>2 DEF Notify
  <2>5. Cardinality(Awake') = Cardinality(Awake) + 1
    BY <1>00, <2>3, FS_AddElement
  <2>6. Cardinality(owing') = Cardinality(owing) - 1
    BY <1>00, <2>4, FS_RemoveElement
  <2> QED BY <1>0, <1>00, <2>1, <2>4, <2>5, <2>6 DEF NoLostWakeup
\* A worker that pops leaves the awake ones and takes a task with it.
<1>3. ASSUME NEW w \in Workers, Pop(w) PROVE Goal
  <2>1. w \in Awake /\ Awake' = Awake \ {w} /\ Waiting' = Waiting /\ owing' = owing
    BY <1>0, <1>3 DEF Pop, Awake, Waiting, TypeCore
  <2>2. Len(queue') = Len(queue) - 1
    BY <1>0, <1>3, HeadTailFacts DEF Pop, TypeCore
  <2>3. Cardinality(Awake') = Cardinality(Awake) - 1
    BY <1>00, <2>1, FS_RemoveElement
  <2> QED BY <1>0, <1>00, <2>1, <2>2, <2>3 DEF NoLostWakeup
\* A worker goes to sleep, or leaves, only when the queue is empty.
<1>4. ASSUME NEW w \in Workers, Wait(w) \/ Exit(w) PROVE Goal
  <2>1. Len(queue') = 0
    BY <1>4 DEF Wait, Exit
  <2>2. Cardinality(Awake') \in Nat /\ Cardinality(owing') \in Nat
    <3>1. Awake' \in SUBSET Workers /\ owing' \in SUBSET Tasks
      BY <1>0 DEF Awake, TypeCore
    <3> QED BY <3>1, TasksAssumption, WorkersAssumption, FS_Subset, FS_CardinalityType
  <2> QED BY <2>1, <2>2
\* The workers that come back or wake up by themselves only add to the awake.
<1>5. ASSUME NEW w \in Workers, Decrement(w) \/ SpuriousWakeup(w) PROVE Goal
  <2>1. w \notin Awake /\ Awake' = Awake \cup {w}
    BY <1>0, <1>5 DEF Decrement, SpuriousWakeup, Awake, TypeCore
  <2>2. Waiting # {} /\ queue' = queue /\ owing' = owing
    BY <1>0, <1>5 DEF Decrement, SpuriousWakeup, Waiting, TypeCore
  <2>3. Cardinality(Awake') = Cardinality(Awake) + 1
    BY <1>00, <2>1, FS_AddElement
  <2> QED BY <1>0, <1>00, <2>2, <2>3 DEF NoLostWakeup
<1>6. ASSUME NEW w \in Workers, Run(w) PROVE Goal
  <2>1. Awake' = Awake /\ Waiting' = Waiting /\ queue' = queue /\ owing' = owing
    BY <1>0, <1>6 DEF Run, Awake, Waiting, TypeCore
  <2> QED BY <2>1 DEF NoLostWakeup
<1>7. ASSUME queue' = queue, owing' = owing, wpc' = wpc PROVE Goal
    BY <1>7 DEF NoLostWakeup, Awake, Waiting
<1>8. ASSUME NEW t \in Tasks, Count(t) \/ Refuse(t) \/ Uncount(t) PROVE Goal
    BY <1>7, <1>8 DEF Count, Refuse, Uncount
\* Nobody sleeps after the pool has started, or after notify_all.
<1>9. CASE StartPool \/ NotifyAll
    BY <1>9 DEF StartPool, NotifyAll, Waiting
<1>10. CASE StopQueue \/ Join \/ Terminated \/ UNCHANGED vars
    BY <1>7, <1>10 DEF StopQueue, Join, Terminated, vars
<1> QED
    BY <1>1, <1>2, <1>3, <1>4, <1>5, <1>6, <1>8, <1>9, <1>10 DEF Next, PushStep, WorkerStep

\* No wakeup is lost: while a worker sleeps, each queued task has a worker that
\* is awake or a notification that is still to come.
THEOREM WakeupCorrect == Safety => []NoLostWakeup
<1>1. Init => NoLostWakeup
    BY DEF Init, NoLostWakeup, Waiting
<1>2. StructInv /\ NoLostWakeup /\ [Next]_vars => NoLostWakeup'
    BY WakeupStep
<1> QED BY <1>1, <1>2, StructCorrect, PTL DEF Safety

-----------------------------------------------------------------------------
(* Refinement *)

LEMMA RefineInit == Init => Service!ServiceInit
<1> SUFFICES ASSUME Init PROVE Service!ServiceInit
    OBVIOUS
<1>1. [t \in Tasks |-> ServiceStatusOf(task[t])] = [t \in Tasks |-> "new"]
    BY DEF Init, ServiceStatusOf
<1>2. queue = <<>> /\ ServicePhase = "open"
    BY DEF Init, ServicePhase
<1> QED BY <1>1, <1>2 DEF Service!ServiceInit

\* Updating one task updates its status in the service and no other.
LEMMA StatusUpdate ==
    ASSUME StructInv, NEW t \in Tasks, NEW s, task' = [task EXCEPT ![t] = s]
    PROVE  [u \in Tasks |-> ServiceStatusOf(task'[u])] =
               [[u \in Tasks |-> ServiceStatusOf(task[u])] EXCEPT ![t] = ServiceStatusOf(s)]
  BY DEF StructInv, TypeCore

LEMMA RefineStep ==
    StructInv /\ StructInv' /\ [Next]_vars => [Service!ServiceNext]_(Service!svcVars)
<1> SUFFICES ASSUME StructInv, StructInv', [Next]_vars
             PROVE  [Service!ServiceNext]_(Service!svcVars)
    OBVIOUS
<1> DEFINE st == [u \in Tasks |-> ServiceStatusOf(task[u])]
<1> USE DEF Service!ServiceNext, Service!svcVars
<1>1. ASSUME NEW t \in Tasks, Enqueue(t) PROVE Service!Accept(t)
  <2>1. st[t] = "new"
    BY <1>1 DEF Enqueue, ServiceStatusOf
  <2>2. ServicePhase = "open" <=> ~stopped
    BY DEF ServicePhase, StructInv, TypeCore, LifeCycle
  <2>3. ServicePhase' = ServicePhase
    BY <1>1 DEF Enqueue, ServicePhase
  <2>4. st' = [st EXCEPT ![t] = IF ServicePhase = "open" THEN "pending" ELSE "late"]
    <3>1. st' = [st EXCEPT ![t] = ServiceStatusOf(IF stopped THEN "late" ELSE "queued")]
      BY <1>1, StatusUpdate DEF Enqueue
    <3> QED BY <2>2, <3>1 DEF ServiceStatusOf
  <2> QED BY <1>1, <2>1, <2>3, <2>4 DEF Service!Accept, Service!Full, Enqueue, Full
<1>2. ASSUME NEW t \in Tasks, Refuse(t) PROVE Service!Refuse(t)
  <2>1. st[t] = "new" /\ ServicePhase' = ServicePhase
    BY <1>2 DEF Refuse, ServiceStatusOf, ServicePhase
  <2>2. st' = [st EXCEPT ![t] = "refused"]
    <3>1. st' = [st EXCEPT ![t] = ServiceStatusOf("refusing")]
      BY <1>2, StatusUpdate DEF Refuse
    <3> QED BY <3>1 DEF ServiceStatusOf
  <2> QED BY <1>2, <2>1, <2>2 DEF Service!Refuse, Service!Full, Refuse, Full
<1>3. ASSUME NEW w \in Workers, Pop(w) PROVE Service!Start
  <2>1. Head(queue) \in Tasks
    BY <1>3, HeadTailFacts DEF Pop, StructInv, TypeCore
  <2>2. ServicePhase # "down" /\ ServicePhase' = ServicePhase
    BY <1>3 DEF Pop, ServicePhase, StructInv, TypeCore, LifeCycle
  <2>3. st' = [st EXCEPT ![Head(queue)] = "running"]
    <3>1. st' = [st EXCEPT ![Head(queue)] = ServiceStatusOf("running")]
      BY <1>3, <2>1, StatusUpdate DEF Pop
    <3> QED BY <3>1 DEF ServiceStatusOf
  <2> QED BY <1>3, <2>2, <2>3 DEF Service!Start, Pop
<1>4. ASSUME NEW w \in Workers, Run(w) PROVE Service!Finish(held[w]) /\ held[w] \in Tasks
  <2>1. held[w] \in Tasks /\ task[held[w]] = "running"
    BY <1>4 DEF Run, StructInv, OneHolderEach
  <2>2. st[held[w]] = "running" /\ ServicePhase' = ServicePhase
    BY <1>4, <2>1 DEF Run, ServiceStatusOf, ServicePhase
  <2>3. st' = [st EXCEPT ![held[w]] = "ran"]
    <3>1. st' = [st EXCEPT ![held[w]] = ServiceStatusOf("ran")]
      BY <1>4, <2>1, StatusUpdate DEF Run
    <3> QED BY <3>1 DEF ServiceStatusOf
  <2> QED BY <1>4, <2>1, <2>2, <2>3 DEF Service!Finish, Run
<1>5. ASSUME NEW w \in Workers, Decrement(w) PROVE Service!Settle(held[w]) /\ held[w] \in Tasks
  <2>1. held[w] \in Tasks /\ task[held[w]] = "ran"
    BY <1>5 DEF Decrement, StructInv, OneHolderEach
  <2>2. st[held[w]] = "ran" /\ ServicePhase' = ServicePhase
    BY <1>5, <2>1 DEF Decrement, ServiceStatusOf, ServicePhase
  <2>3. st' = [st EXCEPT ![held[w]] = "done"]
    <3>1. st' = [st EXCEPT ![held[w]] = ServiceStatusOf("done")]
      BY <1>5, <2>1, StatusUpdate DEF Decrement
    <3> QED BY <3>1 DEF ServiceStatusOf
  <2> QED BY <1>5, <2>1, <2>2, <2>3 DEF Service!Settle, Decrement
<1>6. CASE StopQueue
  <2>1. ServicePhase = "open" /\ ServicePhase' = "closed"
    BY <1>6 DEF StopQueue, ServicePhase
  <2> QED BY <1>6, <2>1 DEF Service!Close, StopQueue
\* join returns: the workers have left, so nothing accepted before the stop is
\* in the queue, and no worker holds a task.
<1>7. CASE Join
  <2>1. ServicePhase = "closed" /\ ServicePhase' = "down"
    BY <1>7 DEF Join, ServicePhase
  <2>2. \A t \in Tasks : task[t] \notin {"queued", "running", "ran"}
    <3>1. \A w \in Workers : wpc[w] \in {"absent", "exited"} /\ held[w] = NoTask
      BY <1>7 DEF Join, StructInv, OneHolderEach
    <3>2. \A t \in Tasks : task[t] \notin {"running", "ran"}
      BY <3>1, TasksAssumption DEF StructInv, OneHolderEach
    <3>3. \A t \in Tasks : task[t] # "queued"
      BY <3>1, WorkersAssumption DEF StructInv, LifeCycle
    <3> QED BY <3>2, <3>3
  <2>3. \A t \in Tasks : st[t] \notin {"pending", "running", "ran"}
    BY <2>2 DEF ServiceStatusOf, StructInv, TypeCore, TaskState
  <2> QED BY <1>7, <2>1, <2>3 DEF Service!GoDown, Join
\* The steps the service does not see.
<1>8. ASSUME st' = st, queue' = queue, ServicePhase' = ServicePhase
      PROVE  UNCHANGED Service!svcVars
    BY <1>8
<1>9. ASSUME NEW t \in Tasks, Count(t) PROVE UNCHANGED Service!svcVars
  <2>1. st' = [st EXCEPT ![t] = ServiceStatusOf("counted")]
    BY <1>9, StatusUpdate DEF Count
  <2>2. st' = st
    BY <1>9, <2>1 DEF Count, ServiceStatusOf
  <2> QED BY <1>8, <1>9, <2>2 DEF Count, ServicePhase
<1>10. ASSUME NEW t \in Tasks, Uncount(t) PROVE UNCHANGED Service!svcVars
  <2>1. st' = [st EXCEPT ![t] = ServiceStatusOf("refused")]
    BY <1>10, StatusUpdate DEF Uncount
  <2>2. st' = st
    BY <1>10, <2>1 DEF Uncount, ServiceStatusOf
  <2> QED BY <1>8, <1>10, <2>2 DEF Uncount, ServicePhase
<1>11. ASSUME task' = task, queue' = queue, ServicePhase' = ServicePhase
       PROVE  UNCHANGED Service!svcVars
    BY <1>8, <1>11
<1>12. ASSUME NEW t \in Tasks, Notify(t) PROVE UNCHANGED Service!svcVars
    BY <1>11, <1>12 DEF Notify, ServicePhase
<1>13. ASSUME NEW w \in Workers, Wait(w) \/ Exit(w) \/ SpuriousWakeup(w)
       PROVE  UNCHANGED Service!svcVars
    BY <1>11, <1>13 DEF Wait, Exit, SpuriousWakeup, ServicePhase
<1>14. CASE StartPool \/ NotifyAll \/ Terminated \/ UNCHANGED vars
    BY <1>11, <1>14 DEF StartPool, NotifyAll, Terminated, vars, ServicePhase
<1> QED
    BY <1>1, <1>2, <1>3, <1>4, <1>5, <1>6, <1>7, <1>9, <1>10, <1>12, <1>13, <1>14
    DEF Next, PushStep, WorkerStep

\* The pool implements the abstract task service.
THEOREM RefinesTaskService == Safety => ImplementsTaskService
<1>1. Safety => Service!ServiceInit /\ [][Service!ServiceNext]_(Service!svcVars)
    BY RefineInit, RefineStep, StructCorrect, PTL DEF Safety
<1> QED BY <1>1 DEF ImplementsTaskService, Service!ServiceSafety
=============================================================================
