----------------------------- MODULE ServerProofs -----------------------------
(***************************************************************************)
(* Proofs about Server, for every IO_THREADS but zero, every POOL_SIZE and *)
(* any number of requests.  StructInv says where everybody can be while    *)
(* the main thread is where it is; it is inductive, and the other          *)
(* invariants are inductive relative to it.                                *)
(***************************************************************************)
EXTENDS Server, FiniteSetTheorems, TLAPS

\* Where the main thread is, and what it has done by then.
MainPlaced ==
    /\ main = "building" => made < IoThreads /\ launched = 0
    /\ main = "launching" => made = IoThreads /\ launched < IoThreads
    /\ main \in {"building", "launching", "waiting"} => told = 0
    /\ main = "stopping" => told < IoThreads
    /\ launched > 0 => made = IoThreads
    /\ main \notin {"destroying", "ended"} => \A i \in Ios : open[i]

\* Where an I/O thread is, as far as the main thread knows.
IosPlaced ==
    /\ \A i \in Ios : io[i] # "absent" => i <= launched
    /\ main \in {"destroying", "ended"} => \A i \in Ios : io[i] \in {"absent", "ended"}

\* A pool works only for an I/O thread that serves or drains.
PoolsPlaced ==
    /\ \A i \in Ios : io[i] \in {"absent", "setup", "event", "pool", "ended"} => pending[i] = 0
    /\ \A w \in Workers : io[w[1]] \in {"absent", "setup", "event", "pool"} => worker[w] = "absent"
    /\ \A w \in Workers : io[w[1]] = "ended" => worker[w] \in {"absent", "idle", "ended"}

StructInv == TypeOK /\ MainPlaced /\ IosPlaced /\ PoolsPlaced

InsideSet == {w \in Workers : worker[w] \in Inside}
BetweenCounts == {w \in Workers : worker[w] = "counted"}

-----------------------------------------------------------------------------
(* Arithmetic and sets *)

\* Every pool gets at least one worker.
LEMMA ShareFacts == IoThreads \in Nat /\ IoThreads >= 1 /\ Share \in Nat /\ Share >= 1
  BY IoThreadsAssumption, PoolSizeAssumption DEF Share

\* A worker belongs to one I/O thread, and there are finitely many.
LEMMA WorkerFacts ==
    /\ \A w \in Workers : w[1] \in Ios
    /\ IsFiniteSet(Workers) /\ Cardinality(Workers) \in Nat
<1>1. IsFiniteSet(Ios) /\ IsFiniteSet(1..Share)
  BY ShareFacts, FS_Interval DEF Ios
<1>2. IsFiniteSet(Workers)
  BY <1>1, FS_Product DEF Workers
<1> QED
  BY <1>2, FS_CardinalityType DEF Workers

\* What a pool still has to do is nothing only if nobody in it has a task.
LEMMA UnfinishedFacts ==
    ASSUME TypeOK, NEW i \in Ios, Unfinished(i) = 0
    PROVE  pending[i] = 0 /\ \A w \in Workers : w[1] = i => worker[w] \in {"absent", "idle", "ended"}
<1>1. Executing(i) \subseteq Workers
  BY DEF Executing, PoolOf
<1>2. IsFiniteSet(Executing(i)) /\ Cardinality(Executing(i)) \in Nat
  BY <1>1, WorkerFacts, FS_Subset, FS_CardinalityType
<1>3. pending[i] \in Nat
  BY DEF TypeOK
<1>4. pending[i] = 0 /\ Cardinality(Executing(i)) = 0
  BY <1>2, <1>3 DEF Unfinished
<1>5. Executing(i) = {}
  BY <1>2, <1>4, FS_EmptySet
<1> QED
  BY <1>4, <1>5 DEF Executing, PoolOf

\* What a snapshot reads keeps it a snapshot.
LEMMA SnapshotFacts ==
    ASSUME NEW s \in Snapshots, NEW n \in Nat
    PROVE  /\ [s EXCEPT !.requests = n] \in Snapshots
           /\ [s EXCEPT !.time = n] \in Snapshots
  BY DEF Snapshots

LEMMA NoSnapshotFacts == NoSnapshot \in Snapshots
  BY DEF NoSnapshot, Snapshots

-----------------------------------------------------------------------------
(* StructInv *)

LEMMA StructInit == Init => StructInv
<1> SUFFICES ASSUME Init PROVE StructInv
    OBVIOUS
<1>1. TypeOK
  <2>1. snap \in [Ios -> Snapshots]
    BY DEF Init, NoSnapshot, Snapshots
  <2>2. worker \in [Workers -> WorkerPlaces] /\ io \in [Ios -> IoPlaces] /\ main \in MainPlaces
    BY DEF Init, MainPlaces, IoPlaces, WorkerPlaces
  <2>3. 0 \in 0..IoThreads
    BY ShareFacts
  <2>4. /\ hasFd \in [Ios -> BOOLEAN] /\ open \in [Ios -> BOOLEAN]
        /\ event \in [Ios -> BOOLEAN] /\ queued \in [Ios -> BOOLEAN]
        /\ broken \in BOOLEAN /\ running \in BOOLEAN
    BY DEF Init
  <2>5. /\ pending \in [Ios -> Nat]
        /\ active \in Int /\ requests \in Nat /\ time \in Nat
        /\ leaked \in Nat /\ sent \in Nat /\ asked \in Nat
    BY DEF Init
  <2> QED
    BY <2>1, <2>2, <2>3, <2>4, <2>5 DEF Init, TypeOK
<1>2. MainPlaced /\ IosPlaced /\ PoolsPlaced
  BY ShareFacts, WorkerFacts DEF Init, MainPlaced, IosPlaced, PoolsPlaced, Ios
<1> QED
  BY <1>1, <1>2 DEF StructInv

LEMMA StructStep == StructInv /\ [Next]_vars => StructInv'
<1> SUFFICES ASSUME StructInv, [Next]_vars PROVE StructInv'
    OBVIOUS
<1> USE ShareFacts, WorkerFacts DEF StructInv, vars, mainVars, ioVars, queueVars, metrics,
        others, othersThanMain, othersThanIo, othersThanWorkers, Goes, At, Snapshot, MainPlaces,
        IoPlaces, WorkerPlaces, Inside, Ios
<1>1. ASSUME Build PROVE StructInv'
  <2>1. TypeOK'
    BY <1>1 DEF TypeOK, MainPlaced, Build
  <2>2. MainPlaced'
    BY <1>1 DEF TypeOK, MainPlaced, IosPlaced, Build
  <2>3. IosPlaced'
    BY <1>1 DEF TypeOK, MainPlaced, IosPlaced, Build
  <2>4. PoolsPlaced'
    BY <1>1 DEF TypeOK, IosPlaced, PoolsPlaced, Build, PoolOf
  <2> QED
    BY <2>1, <2>2, <2>3, <2>4
<1>2. ASSUME Launch PROVE StructInv'
  <2>1. TypeOK'
    BY <1>2 DEF TypeOK, MainPlaced, Launch
  <2>2. MainPlaced'
    BY <1>2 DEF TypeOK, MainPlaced, IosPlaced, Launch
  <2>3. IosPlaced'
    BY <1>2 DEF TypeOK, MainPlaced, IosPlaced, Launch
  <2>4. PoolsPlaced'
    BY <1>2 DEF TypeOK, IosPlaced, PoolsPlaced, Launch, PoolOf
  <2> QED
    BY <2>1, <2>2, <2>3, <2>4
<1>3. ASSUME StartThrows PROVE StructInv'
  <2>1. TypeOK'
    BY <1>3 DEF TypeOK, MainPlaced, StartThrows
  <2>2. MainPlaced'
    BY <1>3 DEF TypeOK, MainPlaced, IosPlaced, StartThrows
  <2>3. IosPlaced'
    BY <1>3 DEF TypeOK, MainPlaced, IosPlaced, StartThrows
  <2>4. PoolsPlaced'
    BY <1>3 DEF TypeOK, IosPlaced, PoolsPlaced, StartThrows, PoolOf
  <2> QED
    BY <2>1, <2>2, <2>3, <2>4
<1>4. ASSUME Signal PROVE StructInv'
  <2>1. TypeOK'
    BY <1>4 DEF TypeOK, MainPlaced, Signal
  <2>2. MainPlaced'
    BY <1>4 DEF TypeOK, MainPlaced, IosPlaced, Signal
  <2>3. IosPlaced'
    BY <1>4 DEF TypeOK, MainPlaced, IosPlaced, Signal
  <2>4. PoolsPlaced'
    BY <1>4 DEF TypeOK, IosPlaced, PoolsPlaced, Signal, PoolOf
  <2> QED
    BY <2>1, <2>2, <2>3, <2>4
<1>5. ASSUME StopQueue PROVE StructInv'
  <2>1. TypeOK'
    BY <1>5 DEF TypeOK, MainPlaced, StopQueue
  <2>2. MainPlaced'
    BY <1>5 DEF TypeOK, MainPlaced, IosPlaced, StopQueue
  <2>3. IosPlaced'
    BY <1>5 DEF TypeOK, MainPlaced, IosPlaced, StopQueue
  <2>4. PoolsPlaced'
    BY <1>5 DEF TypeOK, IosPlaced, PoolsPlaced, StopQueue, PoolOf
  <2> QED
    BY <2>1, <2>2, <2>3, <2>4
<1>6. ASSUME Join PROVE StructInv'
  <2>1. TypeOK'
    BY <1>6 DEF TypeOK, MainPlaced, Join
  <2>2. MainPlaced'
    BY <1>6 DEF TypeOK, MainPlaced, IosPlaced, Join
  <2>3. IosPlaced'
    BY <1>6 DEF TypeOK, MainPlaced, IosPlaced, Join
  <2>4. PoolsPlaced'
    BY <1>6 DEF TypeOK, IosPlaced, PoolsPlaced, Join, PoolOf
  <2> QED
    BY <2>1, <2>2, <2>3, <2>4
<1>7. ASSUME CloseDescriptors PROVE StructInv'
  <2>1. TypeOK'
    BY <1>7 DEF TypeOK, MainPlaced, CloseDescriptors
  <2>2. MainPlaced'
    BY <1>7 DEF TypeOK, MainPlaced, IosPlaced, CloseDescriptors
  <2>3. IosPlaced'
    BY <1>7 DEF TypeOK, MainPlaced, IosPlaced, CloseDescriptors
  <2>4. PoolsPlaced'
    BY <1>7 DEF TypeOK, IosPlaced, PoolsPlaced, CloseDescriptors, PoolOf
  <2> QED
    BY <2>1, <2>2, <2>3, <2>4
<1>8. ASSUME StopPool PROVE StructInv'
  <2>1. TypeOK'
    <3>1. torn' \in 0..IoThreads
      BY <1>8 DEF TypeOK, StopPool
    <3> QED
      BY <1>8, <3>1 DEF TypeOK, StopPool
  <2>2. MainPlaced'
    BY <1>8 DEF TypeOK, MainPlaced, IosPlaced, StopPool
  <2>3. IosPlaced'
    BY <1>8 DEF TypeOK, MainPlaced, IosPlaced, StopPool
  <2>4. PoolsPlaced'
    BY <1>8 DEF TypeOK, IosPlaced, PoolsPlaced, StopPool, PoolOf
  <2> QED
    BY <2>1, <2>2, <2>3, <2>4
<1>9. ASSUME End PROVE StructInv'
  <2>1. TypeOK'
    BY <1>9 DEF TypeOK, MainPlaced, End
  <2>2. MainPlaced'
    BY <1>9 DEF TypeOK, MainPlaced, IosPlaced, End
  <2>3. IosPlaced'
    BY <1>9 DEF TypeOK, MainPlaced, IosPlaced, End
  <2>4. PoolsPlaced'
    BY <1>9 DEF TypeOK, IosPlaced, PoolsPlaced, End, PoolOf
  <2> QED
    BY <2>1, <2>2, <2>3, <2>4
<1>10. ASSUME NEW i \in Ios, Setup(i) PROVE StructInv'
  <2>1. TypeOK'
    BY <1>10 DEF TypeOK, MainPlaced, Setup
  <2>2. MainPlaced'
    BY <1>10 DEF TypeOK, MainPlaced, IosPlaced, Setup
  <2>3. IosPlaced'
    BY <1>10 DEF TypeOK, MainPlaced, IosPlaced, Setup
  <2>4. PoolsPlaced'
    BY <1>10 DEF TypeOK, IosPlaced, PoolsPlaced, Setup, PoolOf
  <2> QED
    BY <2>1, <2>2, <2>3, <2>4
<1>11. ASSUME NEW i \in Ios, SetupEventFd(i) PROVE StructInv'
  <2>1. TypeOK'
    <3>1. io' \in [Ios -> IoPlaces]
      BY <1>11 DEF TypeOK, SetupEventFd, Goes, IoPlaces
    <3>2. hasFd' \in [Ios -> BOOLEAN]
      BY <1>11 DEF TypeOK, SetupEventFd
    <3> QED
      BY <1>11, <3>1, <3>2 DEF TypeOK, SetupEventFd
  <2>2. MainPlaced'
    BY <1>11 DEF TypeOK, MainPlaced, IosPlaced, SetupEventFd
  <2>3. IosPlaced'
    BY <1>11 DEF TypeOK, MainPlaced, IosPlaced, SetupEventFd
  <2>4. PoolsPlaced'
    BY <1>11 DEF TypeOK, IosPlaced, PoolsPlaced, SetupEventFd, PoolOf
  <2> QED
    BY <2>1, <2>2, <2>3, <2>4
<1>12. ASSUME NEW i \in Ios, StartPool(i) PROVE StructInv'
  <2>1. TypeOK'
    BY <1>12 DEF TypeOK, MainPlaced, StartPool
  <2>2. MainPlaced'
    BY <1>12 DEF TypeOK, MainPlaced, IosPlaced, StartPool
  <2>3. IosPlaced'
    BY <1>12 DEF TypeOK, MainPlaced, IosPlaced, StartPool
  <2>4. PoolsPlaced'
    BY <1>12 DEF TypeOK, IosPlaced, PoolsPlaced, StartPool, PoolOf
  <2> QED
    BY <2>1, <2>2, <2>3, <2>4
<1>13. ASSUME NEW i \in Ios, Test(i) PROVE StructInv'
  <2>1. TypeOK'
    BY <1>13 DEF TypeOK, MainPlaced, Test
  <2>2. MainPlaced'
    BY <1>13 DEF TypeOK, MainPlaced, IosPlaced, Test
  <2>3. IosPlaced'
    BY <1>13 DEF TypeOK, MainPlaced, IosPlaced, Test
  <2>4. PoolsPlaced'
    BY <1>13 DEF TypeOK, IosPlaced, PoolsPlaced, Test, PoolOf
  <2> QED
    BY <2>1, <2>2, <2>3, <2>4
<1>14. ASSUME NEW i \in Ios, Respond(i) PROVE StructInv'
  <2>1. TypeOK'
    BY <1>14 DEF TypeOK, MainPlaced, Respond
  <2>2. MainPlaced'
    BY <1>14 DEF TypeOK, MainPlaced, IosPlaced, Respond
  <2>3. IosPlaced'
    BY <1>14 DEF TypeOK, MainPlaced, IosPlaced, Respond
  <2>4. PoolsPlaced'
    BY <1>14 DEF TypeOK, IosPlaced, PoolsPlaced, Respond, PoolOf
  <2> QED
    BY <2>1, <2>2, <2>3, <2>4
<1>15. ASSUME NEW i \in Ios, Wake(i) PROVE StructInv'
  <2>1. TypeOK'
    BY <1>15 DEF TypeOK, MainPlaced, Wake
  <2>2. MainPlaced'
    BY <1>15 DEF TypeOK, MainPlaced, IosPlaced, Wake
  <2>3. IosPlaced'
    BY <1>15 DEF TypeOK, MainPlaced, IosPlaced, Wake
  <2>4. PoolsPlaced'
    BY <1>15 DEF TypeOK, IosPlaced, PoolsPlaced, Wake, PoolOf
  <2> QED
    BY <2>1, <2>2, <2>3, <2>4
<1>16. ASSUME NEW i \in Ios, Dispatch(i) PROVE StructInv'
  <2>1. TypeOK'
    <3>1. pending' \in [Ios -> Nat] /\ sent' \in Nat
      BY <1>16 DEF TypeOK, Dispatch
    <3>2. io' \in [Ios -> IoPlaces]
      BY <1>16 DEF TypeOK, Dispatch
    <3> QED
      BY <1>16, <3>1, <3>2 DEF TypeOK, Dispatch
  <2>2. MainPlaced'
    BY <1>16 DEF TypeOK, MainPlaced, IosPlaced, Dispatch
  <2>3. IosPlaced'
    BY <1>16 DEF TypeOK, MainPlaced, IosPlaced, Dispatch
  <2>4. PoolsPlaced'
    BY <1>16 DEF TypeOK, IosPlaced, PoolsPlaced, Dispatch, PoolOf
  <2> QED
    BY <2>1, <2>2, <2>3, <2>4
<1>17. ASSUME NEW i \in Ios, ReadRequests(i) PROVE StructInv'
  <2>1. TypeOK'
    <3>1. [NoSnapshot EXCEPT !.requests = requests] \in Snapshots
      BY <1>17, SnapshotFacts, NoSnapshotFacts DEF TypeOK, ReadRequests
    <3>2. snap' \in [Ios -> Snapshots]
      BY <1>17, <3>1 DEF TypeOK, ReadRequests
    <3>3. io' \in [Ios -> IoPlaces]
      <4>1. io' = [io EXCEPT ![i] = "time"]
        BY <1>17 DEF ReadRequests
      <4> QED
        BY <4>1 DEF TypeOK
    <3>4. asked' \in Nat
      BY <1>17 DEF TypeOK, ReadRequests
    <3>5. UNCHANGED <<main, made, launched, told, torn, broken, running, hasFd, open, event, queued,
                      pending, worker, active, requests, time, leaked, sent>>
      BY <1>17 DEF ReadRequests
    <3> QED
      BY <3>2, <3>3, <3>4, <3>5 DEF TypeOK
  <2>2. MainPlaced'
    BY <1>17 DEF TypeOK, MainPlaced, IosPlaced, ReadRequests
  <2>3. IosPlaced'
    BY <1>17 DEF TypeOK, MainPlaced, IosPlaced, ReadRequests
  <2>4. PoolsPlaced'
    BY <1>17 DEF TypeOK, IosPlaced, PoolsPlaced, ReadRequests, PoolOf
  <2> QED
    BY <2>1, <2>2, <2>3, <2>4
<1>18. ASSUME NEW i \in Ios, ReadTime(i) PROVE StructInv'
  <2>1. TypeOK'
    <3>1. [snap[i] EXCEPT !.time = time] \in Snapshots
      BY <1>18, SnapshotFacts, NoSnapshotFacts DEF TypeOK, ReadTime
    <3>2. snap' \in [Ios -> Snapshots]
      BY <1>18, <3>1 DEF TypeOK, ReadTime
    <3> QED
      BY <1>18, <3>2 DEF TypeOK, ReadTime
  <2>2. MainPlaced'
    BY <1>18 DEF TypeOK, MainPlaced, IosPlaced, ReadTime
  <2>3. IosPlaced'
    BY <1>18 DEF TypeOK, MainPlaced, IosPlaced, ReadTime
  <2>4. PoolsPlaced'
    BY <1>18 DEF TypeOK, IosPlaced, PoolsPlaced, ReadTime, PoolOf
  <2> QED
    BY <2>1, <2>2, <2>3, <2>4
<1>19. ASSUME NEW i \in Ios, Poll(i) PROVE StructInv'
  <2>0. UNCHANGED <<io, main, launched, made, open, pending, worker>>
    BY <1>19 DEF Poll
  <2>1. TypeOK'
    <3>1. PICK j \in 1..made :
             snap' = [snap EXCEPT ![i] = [snap[i] EXCEPT !.polled = @ \cup {j}]]
      BY <1>19 DEF Poll
    <3>2. j \in Ios
      BY DEF TypeOK
    <3>3. [snap[i] EXCEPT !.polled = @ \cup {j}] \in Snapshots
      <4>1. snap[i] \in Snapshots
        BY DEF TypeOK
      <4>2. snap[i].polled \cup {j} \in SUBSET Ios
        BY <3>2, <4>1 DEF Snapshots
      <4> QED
        BY <4>1, <4>2 DEF Snapshots
    <3>4. snap' \in [Ios -> Snapshots]
      BY <3>1, <3>3 DEF TypeOK
    <3> QED
      BY <1>19, <3>4 DEF TypeOK, Poll
  <2>2. MainPlaced'
    BY <1>19 DEF TypeOK, MainPlaced, IosPlaced, Poll
  <2>3. IosPlaced'
    BY <2>0 DEF IosPlaced
  <2>4. PoolsPlaced'
    BY <1>19 DEF TypeOK, IosPlaced, PoolsPlaced, Poll, PoolOf
  <2> QED
    BY <2>1, <2>2, <2>3, <2>4
<1>20. ASSUME NEW i \in Ios, Report(i) PROVE StructInv'
  <2>1. TypeOK'
    <3>1. NoSnapshot \in Snapshots
      BY <1>20, SnapshotFacts, NoSnapshotFacts DEF TypeOK, Report
    <3>2. snap' \in [Ios -> Snapshots]
      BY <1>20, <3>1 DEF TypeOK, Report
    <3> QED
      BY <1>20, <3>2 DEF TypeOK, Report
  <2>2. MainPlaced'
    BY <1>20 DEF TypeOK, MainPlaced, IosPlaced, Report
  <2>3. IosPlaced'
    BY <1>20 DEF TypeOK, MainPlaced, IosPlaced, Report
  <2>4. PoolsPlaced'
    BY <1>20 DEF TypeOK, IosPlaced, PoolsPlaced, Report, PoolOf
  <2> QED
    BY <2>1, <2>2, <2>3, <2>4
<1>21. ASSUME NEW i \in Ios, DrainRound(i) PROVE StructInv'
  <2>1. TypeOK'
    BY <1>21 DEF TypeOK, MainPlaced, DrainRound
  <2>2. MainPlaced'
    BY <1>21 DEF TypeOK, MainPlaced, IosPlaced, DrainRound
  <2>3. IosPlaced'
    BY <1>21 DEF TypeOK, MainPlaced, IosPlaced, DrainRound
  <2>4. PoolsPlaced'
    BY <1>21 DEF TypeOK, IosPlaced, PoolsPlaced, DrainRound, PoolOf
  <2> QED
    BY <2>1, <2>2, <2>3, <2>4
<1>22. ASSUME NEW i \in Ios, DrainEnd(i) PROVE StructInv'
  <2>0. pending[i] = 0 /\ \A w \in Workers : w[1] = i => worker[w] \in {"absent", "idle", "ended"}
    BY <1>22, UnfinishedFacts DEF DrainEnd
  <2>1. TypeOK'
    BY <1>22 DEF TypeOK, MainPlaced, DrainEnd
  <2>2. MainPlaced'
    BY <1>22 DEF TypeOK, MainPlaced, IosPlaced, DrainEnd
  <2>3. IosPlaced'
    BY <1>22 DEF TypeOK, MainPlaced, IosPlaced, DrainEnd
  <2>4. PoolsPlaced'
    BY <1>22, <2>0 DEF TypeOK, IosPlaced, PoolsPlaced, DrainEnd, PoolOf
  <2> QED
    BY <2>1, <2>2, <2>3, <2>4
<1>23. ASSUME NEW w \in Workers, Take(w) PROVE StructInv'
  <2>0. w[1] \in Ios
    OBVIOUS
  <2>1. TypeOK'
    <3>1. pending[w[1]] - 1 \in Nat
      BY <1>23, <2>0 DEF TypeOK, Take
    <3>2. pending' \in [Ios -> Nat]
      BY <1>23, <3>1 DEF TypeOK, Take
    <3>3. worker' \in [Workers -> WorkerPlaces]
      BY <1>23 DEF TypeOK, Take
    <3> QED
      BY <1>23, <3>2, <3>3 DEF TypeOK, Take
  <2>2. MainPlaced'
    BY <1>23 DEF TypeOK, MainPlaced, IosPlaced, Take
  <2>3. IosPlaced'
    BY <1>23 DEF TypeOK, MainPlaced, IosPlaced, Take
  <2>4. PoolsPlaced'
    <3>1. io[w[1]] \notin {"absent", "setup", "event", "pool", "ended"}
      BY <1>23, <2>0 DEF TypeOK, PoolsPlaced, Take
    <3>2. io' = io /\ \A v \in Workers : v # w => worker'[v] = worker[v]
      BY <1>23 DEF TypeOK, Take
    <3>3. \A i \in Ios : pending[i] = 0 => pending'[i] = 0
      BY <1>23, <2>0 DEF TypeOK, Take
    <3> QED
      BY <3>1, <3>2, <3>3 DEF PoolsPlaced
  <2> QED
    BY <2>1, <2>2, <2>3, <2>4
<1>24. ASSUME NEW w \in Workers, Enter(w) PROVE StructInv'
  <2>1. TypeOK'
    BY <1>24 DEF TypeOK, MainPlaced, Enter
  <2>2. MainPlaced'
    BY <1>24 DEF TypeOK, MainPlaced, IosPlaced, Enter
  <2>3. IosPlaced'
    BY <1>24 DEF TypeOK, MainPlaced, IosPlaced, Enter
  <2>4. PoolsPlaced'
    BY <1>24 DEF TypeOK, IosPlaced, PoolsPlaced, Enter, PoolOf
  <2> QED
    BY <2>1, <2>2, <2>3, <2>4
<1>25. ASSUME NEW w \in Workers, PushResponse(w) PROVE StructInv'
  <2>1. TypeOK'
    BY <1>25 DEF TypeOK, MainPlaced, PushResponse
  <2>2. MainPlaced'
    BY <1>25 DEF TypeOK, MainPlaced, IosPlaced, PushResponse
  <2>3. IosPlaced'
    BY <1>25 DEF TypeOK, MainPlaced, IosPlaced, PushResponse
  <2>4. PoolsPlaced'
    BY <1>25 DEF TypeOK, IosPlaced, PoolsPlaced, PushResponse, PoolOf
  <2> QED
    BY <2>1, <2>2, <2>3, <2>4
<1>26. ASSUME NEW w \in Workers, Throw(w) PROVE StructInv'
  <2>1. TypeOK'
    BY <1>26 DEF TypeOK, MainPlaced, Throw
  <2>2. MainPlaced'
    BY <1>26 DEF TypeOK, MainPlaced, IosPlaced, Throw
  <2>3. IosPlaced'
    BY <1>26 DEF TypeOK, MainPlaced, IosPlaced, Throw
  <2>4. PoolsPlaced'
    BY <1>26 DEF TypeOK, IosPlaced, PoolsPlaced, Throw, PoolOf
  <2> QED
    BY <2>1, <2>2, <2>3, <2>4
<1>27. ASSUME NEW w \in Workers, CountRequest(w) PROVE StructInv'
  <2>1. TypeOK'
    BY <1>27 DEF TypeOK, MainPlaced, CountRequest
  <2>2. MainPlaced'
    BY <1>27 DEF TypeOK, MainPlaced, IosPlaced, CountRequest
  <2>3. IosPlaced'
    BY <1>27 DEF TypeOK, MainPlaced, IosPlaced, CountRequest
  <2>4. PoolsPlaced'
    BY <1>27 DEF TypeOK, IosPlaced, PoolsPlaced, CountRequest, PoolOf
  <2> QED
    BY <2>1, <2>2, <2>3, <2>4
<1>28. ASSUME NEW w \in Workers, AddTime(w) PROVE StructInv'
  <2>1. TypeOK'
    BY <1>28 DEF TypeOK, MainPlaced, AddTime
  <2>2. MainPlaced'
    BY <1>28 DEF TypeOK, MainPlaced, IosPlaced, AddTime
  <2>3. IosPlaced'
    BY <1>28 DEF TypeOK, MainPlaced, IosPlaced, AddTime
  <2>4. PoolsPlaced'
    BY <1>28 DEF TypeOK, IosPlaced, PoolsPlaced, AddTime, PoolOf
  <2> QED
    BY <2>1, <2>2, <2>3, <2>4
<1>29. ASSUME NEW w \in Workers, Leave(w) PROVE StructInv'
  <2>1. TypeOK'
    BY <1>29 DEF TypeOK, MainPlaced, Leave
  <2>2. MainPlaced'
    BY <1>29 DEF TypeOK, MainPlaced, IosPlaced, Leave
  <2>3. IosPlaced'
    BY <1>29 DEF TypeOK, MainPlaced, IosPlaced, Leave
  <2>4. PoolsPlaced'
    BY <1>29 DEF TypeOK, IosPlaced, PoolsPlaced, Leave, PoolOf
  <2> QED
    BY <2>1, <2>2, <2>3, <2>4
<1>30. ASSUME NEW w \in Workers, Quit(w) PROVE StructInv'
  <2>1. TypeOK'
    BY <1>30 DEF TypeOK, MainPlaced, Quit
  <2>2. MainPlaced'
    BY <1>30 DEF TypeOK, MainPlaced, IosPlaced, Quit
  <2>3. IosPlaced'
    BY <1>30 DEF TypeOK, MainPlaced, IosPlaced, Quit
  <2>4. PoolsPlaced'
    BY <1>30 DEF TypeOK, IosPlaced, PoolsPlaced, Quit, PoolOf
  <2> QED
    BY <2>1, <2>2, <2>3, <2>4
<1>31. ASSUME UNCHANGED vars PROVE StructInv'
  <2>1. TypeOK'
    BY <1>31 DEF TypeOK, MainPlaced
  <2>2. MainPlaced'
    BY <1>31 DEF TypeOK, MainPlaced, IosPlaced
  <2>3. IosPlaced'
    BY <1>31 DEF TypeOK, MainPlaced, IosPlaced
  <2>4. PoolsPlaced'
    BY <1>31 DEF TypeOK, IosPlaced, PoolsPlaced, PoolOf
  <2> QED
    BY <2>1, <2>2, <2>3, <2>4
<1> QED
  BY <1>1, <1>2, <1>3, <1>4, <1>5, <1>6, <1>7, <1>8, <1>9, <1>10, <1>11, <1>12, <1>13, <1>14,
     <1>15, <1>16, <1>17, <1>18, <1>19, <1>20, <1>21, <1>22, <1>23, <1>24, <1>25, <1>26,
     <1>27, <1>28, <1>29, <1>30, <1>31 DEF Next, MainStep, IoStep, TaskStep, Terminated

THEOREM StructCorrect == Safety => []StructInv
  BY StructInit, StructStep, PTL DEF Safety

\* Every variable has its type, for any number of I/O threads, workers and requests.
THEOREM TypeCorrect == Safety => []TypeOK
<1>1. StructInv => TypeOK
  BY DEF StructInv
<1> QED
  BY <1>1, StructCorrect, PTL

\* While a pool is polled all of them exist, and while a worker may push a response
\* the eventfd is open: ~io_worker, which closes it first, runs only when the drain
\* loops have left no task behind.
THEOREM NothingOutlivedCorrect == Safety => []NothingOutlived
<1>1. ASSUME StructInv PROVE NothingOutlived
  <2> USE <1>1, ShareFacts, WorkerFacts DEF StructInv, TypeOK
  <2>1. \A i \in Ios : io[i] = "poll" => made = IoThreads /\ \A j \in Ios : open[j]
    <3> SUFFICES ASSUME NEW i \in Ios, io[i] = "poll"
                 PROVE  made = IoThreads /\ \A j \in Ios : open[j]
        OBVIOUS
    <3>1. launched > 0
      BY DEF IosPlaced, Ios
    <3>2. main \notin {"destroying", "ended"}
      BY DEF IosPlaced
    <3> QED
      BY <3>1, <3>2 DEF MainPlaced
  <2>2. \A w \in Workers : worker[w] \in {"taken", "executing"} => open[w[1]]
    <3> SUFFICES ASSUME NEW w \in Workers, worker[w] \in {"taken", "executing"}
                 PROVE  open[w[1]]
        OBVIOUS
    <3>1. io[w[1]] \notin {"absent", "ended"}
      BY DEF PoolsPlaced
    <3>2. main \notin {"destroying", "ended"}
      BY <3>1 DEF IosPlaced
    <3> QED
      BY <3>2 DEF MainPlaced
  <2>3. \A i \in Ios : ~open[i] => io[i] \in {"absent", "ended"}
    BY DEF MainPlaced, IosPlaced
  <2> QED
    BY <2>1, <2>2, <2>3 DEF NothingOutlived
<1> QED
  BY <1>1, StructCorrect, PTL

-----------------------------------------------------------------------------
(* ActiveExact *)

LEMMA InsideFinite == IsFiniteSet(InsideSet) /\ Cardinality(InsideSet) \in Nat
  BY WorkerFacts, FS_Subset, FS_CardinalityType DEF InsideSet

LEMMA ActiveInit == Init => ActiveExact
<1> SUFFICES ASSUME Init PROVE ActiveExact
    OBVIOUS
<1>1. {w \in Workers : worker[w] \in Inside} = {}
  BY DEF Init, Inside
<1> QED
  BY <1>1, FS_EmptySet DEF Init, ActiveExact

\* Each step moves at most one task across the border of Inside, and the gauge with it.
LEMMA ActiveStep == StructInv /\ ActiveExact /\ [Next]_vars => ActiveExact'
<1> SUFFICES ASSUME StructInv, ActiveExact, [Next]_vars PROVE ActiveExact'
    OBVIOUS
<1>a. active = Cardinality(InsideSet) + leaked /\ Cardinality(InsideSet) \in Nat /\ leaked \in Nat
  BY InsideFinite DEF ActiveExact, InsideSet, StructInv, TypeOK
<1>b. ASSUME active' = Cardinality(InsideSet') + leaked' PROVE ActiveExact'
  BY <1>b DEF ActiveExact, InsideSet
<1>c. ASSUME InsideSet' = InsideSet, UNCHANGED <<active, leaked>> PROVE ActiveExact'
  BY <1>a, <1>b, <1>c
<1> USE DEF vars, mainVars, ioVars, queueVars, metrics, others, othersThanMain, othersThanIo,
            othersThanWorkers, Goes, At, Snapshot
<1>1. ASSUME UNCHANGED <<worker, active, leaked>> PROVE ActiveExact'
  BY <1>1, <1>c DEF InsideSet
<1>2. ASSUME NEW i \in Ios, StartPool(i) PROVE ActiveExact'
  <2>1. \A w \in Workers : worker'[w] # worker[w] => worker[w] = "absent" /\ worker'[w] = "idle"
    BY <1>2, WorkerFacts DEF StartPool, PoolOf, StructInv, TypeOK, PoolsPlaced
  <2>2. InsideSet' = InsideSet
    BY <2>1 DEF InsideSet, Inside
  <2> QED
    BY <1>2, <1>c, <2>2 DEF StartPool
<1>3. ASSUME NEW w \in Workers, Take(w) \/ PushResponse(w) \/ CountRequest(w) \/ AddTime(w) \/ Quit(w)
      PROVE ActiveExact'
  <2>1. InsideSet' = InsideSet
    BY <1>3 DEF InsideSet, Inside, StructInv, TypeOK, Take, PushResponse, CountRequest, AddTime,
       Quit
  <2>2. UNCHANGED <<active, leaked>>
    BY <1>3 DEF Take, PushResponse, CountRequest, AddTime, Quit
  <2> QED
    BY <2>1, <2>2, <1>c
<1>4. ASSUME NEW w \in Workers, Enter(w) PROVE ActiveExact'
  <2>1. w \notin InsideSet /\ InsideSet' = InsideSet \cup {w}
    BY <1>4 DEF InsideSet, Inside, StructInv, TypeOK, Enter
  <2>2. Cardinality(InsideSet') = Cardinality(InsideSet) + 1
    BY <2>1, InsideFinite, FS_AddElement
  <2> QED
    BY <1>4, <1>a, <1>b, <2>2 DEF Enter
<1>5. ASSUME NEW w \in Workers, Throw(w) \/ Leave(w) PROVE ActiveExact'
  <2>1. w \in InsideSet /\ InsideSet' = InsideSet \ {w}
    BY <1>5 DEF InsideSet, Inside, StructInv, TypeOK, Throw, Leave
  <2>2. Cardinality(InsideSet') = Cardinality(InsideSet) - 1
    BY <2>1, InsideFinite, FS_RemoveElement
  <2>3. active' - leaked' = active - leaked - 1 /\ active' \in Int /\ leaked' \in Nat
    BY <1>5, <1>a DEF Throw, Leave, StructInv, TypeOK
  <2> QED
    BY <1>a, <1>b, <2>2, <2>3
<1>6. ASSUME MainStep \/ StartThrows \/ Signal PROVE UNCHANGED <<worker, active, leaked>>
  BY <1>6 DEF MainStep, Build, Launch, StartThrows, Signal, StopQueue, Join, CloseDescriptors,
       StopPool, End
<1>7. ASSUME NEW i \in Ios, IoStep(i) \/ Dispatch(i) \/ ReadRequests(i), ~StartPool(i)
      PROVE UNCHANGED <<worker, active, leaked>>
  BY <1>7 DEF IoStep, Setup, SetupEventFd, Test, Respond, Wake, Dispatch, ReadRequests, ReadTime,
       Poll, Report, DrainRound, DrainEnd
<1> QED
  BY <1>1, <1>2, <1>3, <1>4, <1>5, <1>6, <1>7 DEF Next, TaskStep, Terminated

\* The gauge is exact at every instant, but for the tasks that threw.
THEOREM ActiveCorrect == Safety => []ActiveExact
  BY StructCorrect, ActiveInit, ActiveStep, PTL DEF Safety

-----------------------------------------------------------------------------
(* SnapshotLag *)

\* The two counters differ by the tasks between the two writes, and a snapshot that
\* has read the first is not further from the second than that allows.
LagInv ==
    /\ requests - time = Cardinality(BetweenCounts)
    /\ \A i \in Ios : io[i] = "time" => snap[i].requests - time <= Cardinality(Workers)
    /\ SnapshotLag

LEMMA BetweenFinite ==
    /\ IsFiniteSet(BetweenCounts) /\ Cardinality(BetweenCounts) \in Nat
    /\ Cardinality(BetweenCounts) <= Cardinality(Workers)
  BY WorkerFacts, FS_Subset, FS_CardinalityType DEF BetweenCounts

LEMMA LagInit == Init => LagInv
<1> SUFFICES ASSUME Init PROVE LagInv
    OBVIOUS
<1>1. BetweenCounts = {}
  BY DEF Init, BetweenCounts
<1> QED
  BY <1>1, FS_EmptySet DEF Init, LagInv, SnapshotLag

LEMMA LagStep == StructInv /\ LagInv /\ [Next]_vars => LagInv'
<1> SUFFICES ASSUME StructInv, LagInv, [Next]_vars PROVE LagInv'
    OBVIOUS
<1>a. /\ requests \in Nat /\ time \in Nat /\ Cardinality(Workers) \in Nat
      /\ \A i \in Ios : snap[i] \in Snapshots
      /\ \A i \in Ios : snap[i].requests \in Nat /\ snap[i].time \in Nat
  BY WorkerFacts DEF StructInv, TypeOK, Snapshots
<1> USE DEF vars, mainVars, ioVars, queueVars, metrics, others, othersThanMain, othersThanIo,
            othersThanWorkers, Goes, At, Snapshot
<1>1. requests' - time' = Cardinality(BetweenCounts')
  <2>1. ASSUME BetweenCounts' = BetweenCounts, UNCHANGED <<requests, time>>
        PROVE  requests' - time' = Cardinality(BetweenCounts')
    BY <2>1 DEF LagInv
  <2>2. ASSUME NEW w \in Workers, CountRequest(w)
        PROVE  requests' - time' = Cardinality(BetweenCounts')
    <3>1. w \notin BetweenCounts /\ BetweenCounts' = BetweenCounts \cup {w}
      BY <2>2 DEF BetweenCounts, StructInv, TypeOK, CountRequest
    <3>2. Cardinality(BetweenCounts') = Cardinality(BetweenCounts) + 1
      BY <3>1, BetweenFinite, FS_AddElement
    <3> QED
      BY <2>2, <1>a, <3>2, BetweenFinite DEF CountRequest, LagInv
  <2>3. ASSUME NEW w \in Workers, AddTime(w)
        PROVE  requests' - time' = Cardinality(BetweenCounts')
    <3>1. w \in BetweenCounts /\ BetweenCounts' = BetweenCounts \ {w}
      BY <2>3 DEF BetweenCounts, StructInv, TypeOK, AddTime
    <3>2. Cardinality(BetweenCounts') = Cardinality(BetweenCounts) - 1
      BY <3>1, BetweenFinite, FS_RemoveElement
    <3> QED
      BY <2>3, <1>a, <3>2, BetweenFinite DEF AddTime, LagInv
  <2>4. ASSUME NEW w \in Workers, Take(w) \/ Enter(w) \/ PushResponse(w) \/ Throw(w) \/ Leave(w) \/ Quit(w)
        PROVE  BetweenCounts' = BetweenCounts /\ UNCHANGED <<requests, time>>
    BY <2>4 DEF BetweenCounts, StructInv, TypeOK, Take, Enter, PushResponse, Throw, Leave, Quit
  <2>5. ASSUME NEW i \in Ios, StartPool(i)
        PROVE  BetweenCounts' = BetweenCounts /\ UNCHANGED <<requests, time>>
    <3>1. \A w \in Workers : worker'[w] # worker[w] => worker[w] = "absent" /\ worker'[w] = "idle"
      BY <2>5, WorkerFacts DEF StartPool, PoolOf, StructInv, TypeOK, PoolsPlaced
    <3> QED
      BY <2>5, <3>1 DEF BetweenCounts, StartPool
  <2>6. ASSUME MainStep \/ StartThrows \/ Signal PROVE UNCHANGED <<worker, requests, time>>
    BY <2>6 DEF MainStep, Build, Launch, StartThrows, Signal, StopQueue, Join, CloseDescriptors,
       StopPool, End
  <2>7. ASSUME NEW i \in Ios, IoStep(i) \/ Dispatch(i) \/ ReadRequests(i), ~StartPool(i)
        PROVE UNCHANGED <<worker, requests, time>>
    BY <2>7 DEF IoStep, Setup, SetupEventFd, Test, Respond, Wake, Dispatch, ReadRequests, ReadTime,
       Poll, Report, DrainRound, DrainEnd
  <2>8. ASSUME UNCHANGED <<worker, requests, time>>
        PROVE  requests' - time' = Cardinality(BetweenCounts')
    BY <2>8, <2>1 DEF BetweenCounts
  <2> QED
    BY <2>1, <2>2, <2>3, <2>4, <2>5, <2>6, <2>7, <2>8 DEF Next, TaskStep, Terminated
<1>2. requests' >= requests /\ time' >= time /\ requests' \in Nat /\ time' \in Nat
  <2>1. ASSUME NEW w \in Workers, TaskStep(w)
        PROVE  requests' \in {requests, requests + 1} /\ time' \in {time, time + 1}
    BY <2>1 DEF TaskStep, Take, Enter, PushResponse, Throw, CountRequest, AddTime, Leave, Quit
  <2>2. ASSUME MainStep \/ StartThrows \/ Signal PROVE UNCHANGED <<requests, time>>
    BY <2>2 DEF MainStep, Build, Launch, StartThrows, Signal, StopQueue, Join, CloseDescriptors,
       StopPool, End
  <2>3. ASSUME NEW i \in Ios, IoStep(i) \/ Dispatch(i) \/ ReadRequests(i)
        PROVE UNCHANGED <<requests, time>>
    BY <2>3 DEF IoStep, StartPool, Setup, SetupEventFd, Test, Respond, Wake, Dispatch, ReadRequests, ReadTime,
       Poll, Report, DrainRound, DrainEnd
  <2> QED
    BY <1>a, <2>1, <2>2, <2>3 DEF Next, Terminated
<1>3. requests - time <= Cardinality(Workers) /\ time <= requests
  BY <1>a, BetweenFinite DEF LagInv
<1> DEFINE Fits(i) ==
        /\ io[i] = "time" => snap[i].requests - time <= Cardinality(Workers)
        /\ io[i] = "poll" => snap[i].requests - snap[i].time <= Cardinality(Workers)
<1>4. ASSUME NEW i \in Ios PROVE Fits(i)
  BY DEF LagInv, SnapshotLag
<1>5. ASSUME NEW i \in Ios, io'[i] = io[i], snap'[i] = snap[i] PROVE Fits(i)'
  BY <1>a, <1>2, <1>4, <1>5
<1>6. ASSUME NEW i \in Ios, io'[i] \notin {"time", "poll"} PROVE Fits(i)'
  BY <1>6
<1>7. ASSUME NEW i \in Ios PROVE Fits(i)'
  <2>1. CASE UNCHANGED <<io, snap>>
    BY <2>1, <1>5
  <2>2. CASE Launch
    BY <2>2, <1>5, <1>6 DEF Launch, StructInv, TypeOK, MainPlaced, Ios
  <2>3. ASSUME NEW j \in Ios, IoStep(j) \/ Dispatch(j) \/ ReadRequests(j) PROVE Fits(i)'
    <3>1. CASE i # j
      <4>1. io'[i] = io[i] /\ snap'[i] = snap[i]
        BY <2>3, <3>1 DEF IoStep, StartPool, Setup, SetupEventFd, Test, Respond, Wake, Dispatch, ReadRequests, ReadTime,
       Poll, Report, DrainRound, DrainEnd, StructInv, TypeOK
      <4> QED
        BY <4>1, <1>5
    <3>2. CASE i = j
      <4> USE <3>2
      <4>1. CASE ReadRequests(i)
        <5>1. io'[i] = "time" /\ snap'[i] = [NoSnapshot EXCEPT !.requests = requests]
          BY <4>1 DEF ReadRequests, StructInv, TypeOK
        <5>2. snap'[i].requests = requests
          BY <5>1 DEF NoSnapshot
        <5> QED
          BY <5>1, <5>2, <1>a, <1>2, <1>3
      <4>2. CASE ReadTime(i)
        <5>1. io[i] = "time" /\ io'[i] = "poll" /\ snap'[i] = [snap[i] EXCEPT !.time = time]
          BY <4>2 DEF ReadTime, StructInv, TypeOK
        <5>2. snap'[i].requests = snap[i].requests /\ snap'[i].time = time
          BY <5>1, <1>a DEF Snapshots
        <5> QED
          BY <5>1, <5>2, <1>a, <1>2, <1>3, <1>4
      <4>3. CASE Poll(i)
        <5>1. PICK k \in 1..made :
                 snap' = [snap EXCEPT ![i] = [snap[i] EXCEPT !.polled = @ \cup {k}]]
          BY <4>3 DEF Poll
        <5>2. io'[i] = io[i]
          BY <4>3 DEF Poll
        <5>3. snap'[i] = [snap[i] EXCEPT !.polled = @ \cup {k}]
          BY <5>1 DEF StructInv, TypeOK
        <5>4. snap'[i].requests = snap[i].requests /\ snap'[i].time = snap[i].time
          BY <5>3, <1>a DEF Snapshots
        <5> QED
          BY <5>2, <5>4, <1>a, <1>2, <1>4
      <4>4. CASE ~(ReadRequests(i) \/ ReadTime(i) \/ Poll(i))
        <5>1. io'[i] \notin {"time", "poll"}
          BY <2>3, <4>4 DEF IoStep, StartPool, Setup, SetupEventFd, Test, Respond, Wake, Dispatch,
                            Report, DrainRound, DrainEnd, StructInv, TypeOK
        <5> QED
          BY <5>1, <1>6
      <4> QED
        BY <4>1, <4>2, <4>3, <4>4
    <3> QED
      BY <3>1, <3>2
  <2>4. ASSUME NEW w \in Workers, TaskStep(w) PROVE UNCHANGED <<io, snap>>
    BY <2>4 DEF TaskStep, Take, Enter, PushResponse, Throw, CountRequest, AddTime, Leave, Quit
  <2>5. ASSUME MainStep \/ StartThrows \/ Signal, ~Launch PROVE UNCHANGED <<io, snap>>
    BY <2>5 DEF MainStep, Build, Launch, StartThrows, Signal, StopQueue, Join, CloseDescriptors,
       StopPool, End
  <2> QED
    BY <2>1, <2>2, <2>3, <2>4, <2>5 DEF Next, Terminated
<1> QED
  BY <1>1, <1>7 DEF LagInv, SnapshotLag

\* The times in a snapshot lag behind its requests by one for each worker at the most.
THEOREM SnapshotLagCorrect == Safety => []SnapshotLag
<1>1. LagInv => SnapshotLag
  BY DEF LagInv
<1> QED
  BY <1>1, StructCorrect, LagInit, LagStep, PTL DEF Safety

-----------------------------------------------------------------------------
(* NoneSleepsOn *)

\* Between the signal and the last eventfd, the I/O threads up to told are awake.
WakeInv ==
    /\ ~broken /\ main \in {"stopping", "joining"} => ~running
    /\ broken => main \notin {"building", "launching", "waiting", "stopping"}
    /\ \A i \in Ios : io[i] \in {"pool", "test", "wait", "drain", "time", "poll"} => hasFd[i]
    /\ main = "stopping" => \A i \in Ios : i <= told /\ io[i] = "wait" => event[i]
    /\ NoneSleepsOn

LEMMA WakeInit == Init => WakeInv
  BY DEF Init, WakeInv, NoneSleepsOn

LEMMA WakeStep == StructInv /\ WakeInv /\ [Next]_vars => WakeInv'
<1> SUFFICES ASSUME StructInv, WakeInv, [Next]_vars PROVE WakeInv'
    OBVIOUS
<1> USE DEF vars, mainVars, ioVars, queueVars, metrics, others, othersThanMain, othersThanIo,
            othersThanWorkers, Goes, At, Snapshot
<1>1. CASE Build
  BY <1>1, ShareFacts DEF WakeInv, NoneSleepsOn, StructInv, TypeOK, Ios, Build
<1>2. CASE Launch
  BY <1>2, ShareFacts DEF WakeInv, NoneSleepsOn, StructInv, TypeOK, Ios, Launch
<1>3. CASE StartThrows
  BY <1>3, ShareFacts DEF WakeInv, NoneSleepsOn, StructInv, TypeOK, Ios, StartThrows
<1>4. CASE Signal
  BY <1>4, ShareFacts DEF WakeInv, NoneSleepsOn, StructInv, TypeOK, MainPlaced, Ios, Signal
<1>5. CASE StopQueue
  BY <1>5, ShareFacts DEF WakeInv, NoneSleepsOn, StructInv, TypeOK, MainPlaced, Ios, StopQueue
<1>6. CASE Join
  BY <1>6, ShareFacts DEF WakeInv, NoneSleepsOn, StructInv, TypeOK, Ios, Join
<1>7. CASE CloseDescriptors
  BY <1>7, ShareFacts DEF WakeInv, NoneSleepsOn, StructInv, TypeOK, Ios, CloseDescriptors
<1>8. CASE StopPool
  BY <1>8, ShareFacts DEF WakeInv, NoneSleepsOn, StructInv, TypeOK, Ios, StopPool
<1>9. CASE End
  BY <1>9, ShareFacts DEF WakeInv, NoneSleepsOn, StructInv, TypeOK, Ios, End
<1>10. ASSUME NEW i \in Ios, Setup(i) PROVE WakeInv'
  BY <1>10 DEF WakeInv, NoneSleepsOn, StructInv, TypeOK, Setup
<1>11. ASSUME NEW i \in Ios, SetupEventFd(i) PROVE WakeInv'
  BY <1>11 DEF WakeInv, NoneSleepsOn, StructInv, TypeOK, SetupEventFd
<1>12. ASSUME NEW i \in Ios, StartPool(i) PROVE WakeInv'
  BY <1>12 DEF WakeInv, NoneSleepsOn, StructInv, TypeOK, StartPool
<1>13. ASSUME NEW i \in Ios, Test(i) PROVE WakeInv'
  BY <1>13 DEF WakeInv, NoneSleepsOn, StructInv, TypeOK, Test
<1>14. ASSUME NEW i \in Ios, Respond(i) PROVE WakeInv'
  BY <1>14 DEF WakeInv, NoneSleepsOn, StructInv, TypeOK, Respond
<1>15. ASSUME NEW i \in Ios, Wake(i) PROVE WakeInv'
  BY <1>15 DEF WakeInv, NoneSleepsOn, StructInv, TypeOK, Wake
<1>16. ASSUME NEW i \in Ios, Dispatch(i) PROVE WakeInv'
  BY <1>16 DEF WakeInv, NoneSleepsOn, StructInv, TypeOK, Dispatch
<1>17. ASSUME NEW i \in Ios, ReadRequests(i) PROVE WakeInv'
  BY <1>17 DEF WakeInv, NoneSleepsOn, StructInv, TypeOK, ReadRequests
<1>18. ASSUME NEW i \in Ios, ReadTime(i) PROVE WakeInv'
  BY <1>18 DEF WakeInv, NoneSleepsOn, StructInv, TypeOK, ReadTime
<1>19. ASSUME NEW i \in Ios, Poll(i) PROVE WakeInv'
  <2>1. UNCHANGED <<mainVars, running, io, hasFd, event>>
    BY <1>19 DEF Poll
  <2> QED
    BY <2>1 DEF WakeInv, NoneSleepsOn
<1>20. ASSUME NEW i \in Ios, Report(i) PROVE WakeInv'
  BY <1>20 DEF WakeInv, NoneSleepsOn, StructInv, TypeOK, Report
<1>21. ASSUME NEW i \in Ios, DrainRound(i) PROVE WakeInv'
  BY <1>21 DEF WakeInv, NoneSleepsOn, StructInv, TypeOK, DrainRound
<1>22. ASSUME NEW i \in Ios, DrainEnd(i) PROVE WakeInv'
  BY <1>22 DEF WakeInv, NoneSleepsOn, StructInv, TypeOK, DrainEnd
<1>23. ASSUME NEW w \in Workers, TaskStep(w) PROVE WakeInv'
  <2>1. UNCHANGED <<mainVars, running, io, hasFd>>
    BY <1>23 DEF TaskStep, Take, Enter, PushResponse, Throw, CountRequest, AddTime, Leave, Quit
  <2>2. \A i \in Ios : event[i] => event'[i]
    BY <1>23 DEF TaskStep, Take, Enter, PushResponse, Throw, CountRequest, AddTime, Leave, Quit,
              StructInv, TypeOK
  <2> QED
    BY <2>1, <2>2 DEF WakeInv, NoneSleepsOn
<1>24. CASE UNCHANGED vars
  BY <1>24 DEF WakeInv, NoneSleepsOn
<1> QED
  BY <1>1, <1>2, <1>3, <1>4, <1>5, <1>6, <1>7, <1>8, <1>9, <1>10, <1>11, <1>12, <1>13,
     <1>14, <1>15, <1>16, <1>17, <1>18, <1>19, <1>20, <1>21, <1>22, <1>23, <1>24
     DEF Next, MainStep, IoStep, Terminated

\* After a signal no I/O thread sleeps on, whatever it was doing when it came.
THEOREM NoneSleepsOnCorrect == Safety => []NoneSleepsOn
<1>1. WakeInv => NoneSleepsOn
  BY DEF WakeInv
<1> QED
  BY <1>1, StructCorrect, WakeInit, WakeStep, PTL DEF Safety

-----------------------------------------------------------------------------
(* worker_threads_per_io *)

\* The pools get all of POOL_SIZE but a remainder smaller than their number; only a
\* POOL_SIZE below IO_THREADS is exceeded, and then by one worker for each pool.
THEOREM SharesFit ==
    IF PoolSize >= IoThreads
    THEN Share * IoThreads <= PoolSize /\ Share * IoThreads > PoolSize - IoThreads
    ELSE Share = 1
<1> USE IoThreadsAssumption, PoolSizeAssumption
<1>1. /\ IoThreads * (PoolSize \div IoThreads) <= PoolSize
      /\ PoolSize < IoThreads * (PoolSize \div IoThreads) + IoThreads
      /\ PoolSize \div IoThreads \in Nat
  BY SMTT(30)
<1>2. CASE PoolSize >= IoThreads
  <2>1. PoolSize \div IoThreads >= 1
    BY <1>2, SMTT(30)
  <2>2. Share = PoolSize \div IoThreads
    BY <1>1, <2>1 DEF Share
  <2>3. Share * IoThreads = IoThreads * (PoolSize \div IoThreads)
    BY <1>1, <2>2
  <2> QED
    BY <1>1, <1>2, <2>3
<1>3. CASE PoolSize < IoThreads
  <2>1. PoolSize \div IoThreads = 0
    BY <1>3, SMTT(30)
  <2> QED
    BY <1>3, <2>1 DEF Share
<1> QED
  BY <1>2, <1>3

=============================================================================
