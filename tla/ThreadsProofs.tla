---------------------------- MODULE ThreadsProofs ----------------------------
(***************************************************************************)
(* Proofs about the two programs with threads: progress_watcher in the use *)
(* of its example, and latch and thread_set in the use they are made for.  *)
(***************************************************************************)
EXTENDS Threads, SumTheorems

-----------------------------------------------------------------------------
(* Proofs, for a problem of any size, any number of cores and any stride: the watcher      *)
(* outlives the workers that refer to it, a loop that ends after every worker has attached *)
(* ends with all the work published, and the progress shown is honest and never goes back. *)

\* The workers that have attached and not yet detached.
Active == {w \in Worker : state[w] \in {"attached", "published"}}

\* The number of attached workers is what the main thread polls.
ActiveCounted == nactive = Cardinality(Active)

\* A worker that has published has left its whole chunk in its counter.
PublishedWhole ==
  \A w \in Worker : state[w] \in {"published", "returned"} =>
    done[w] = Chunk[w] /\ counters[w] = Chunk[w]

\* Workers are launched in order, and all of them before the loop.
LaunchedInOrder ==
  /\ pc = "launch" => idx < NThreads
  /\ pc \in {"check", "collect", "final"} => \A w \in Worker : state[w] # "absent"

\* The joins proceed in order and wait for each worker that was launched.
JoinedInOrder ==
  /\ pc = "join" =>
       /\ idx < NThreads
       /\ \A w \in Worker : w < idx => state[w] \in {"returned", "absent"}
  /\ pc = "launch" => \A w \in Worker : w < idx => state[w] # "absent"
  /\ WatcherOutlivesWorkers

\* TypeOK without the bound on nactive, which follows from ActiveCounted.
Typed ==
  /\ nactive \in Int
  /\ counters \in [Worker -> Nat]
  /\ state \in [Worker -> {"absent", "started", "attached", "published", "returned"}]
  /\ done \in [Worker -> Nat]
  /\ pc \in {"launch", "check", "collect", "final", "join", "over"}
  /\ idx \in 0..NThreads
  /\ sum \in Nat
  /\ shown \in Nat

IInv == Typed /\ ActiveCounted /\ PublishedWhole /\ LaunchedInOrder /\ JoinedInOrder

-----------------------------------------------------------------------------
\* The chunks of the example: at least one worker, and no chunk runs backwards.
LEMMA ChunksSound == NThreads \in Nat \ {0} /\ Chunk \in [Worker -> Nat]
<1>1. ChunkSize \in Nat /\ Cores * ChunkSize <= Upper
  BY UpperAssumption, CoresAssumption DEF ChunkSize
<1>2. NThreads \in Nat \ {0}
  BY CoresAssumption DEF NThreads
<1>3. ASSUME NEW w \in Worker PROVE LastItem(w) - FirstItem(w) \in Nat
  <2>1. w \in Nat /\ w <= Cores
    BY <1>2, CoresAssumption DEF Worker, NThreads
  <2>2. CASE w < Cores
    BY <1>1, <2>1, <2>2, CoresAssumption DEF FirstItem, LastItem
  <2>3. CASE w = Cores
    BY <1>1, <2>3, UpperAssumption, CoresAssumption DEF FirstItem, LastItem
  <2> QED
    BY <2>1, <2>2, <2>3, CoresAssumption
<1> QED
  BY <1>2, <1>3 DEF Chunk

\* The workers are NThreads many.
LEMMA WorkerCount == IsFiniteSet(Worker) /\ Cardinality(Worker) = NThreads
<1>1. 0 \in Int /\ NThreads - 1 \in Int
  BY ChunksSound
<1> QED
  BY <1>1, FS_Interval, ChunksSound DEF Worker

\* The attached workers are finitely many, and no more than there are workers.
LEMMA ActiveBounded ==
  IsFiniteSet(Active) /\ Cardinality(Active) \in 0..NThreads
<1>1. Active \subseteq Worker
  BY DEF Active
<1>2. IsFiniteSet(Active) /\ Cardinality(Active) <= Cardinality(Worker)
  BY <1>1, WorkerCount, FS_Subset
<1>3. Cardinality(Active) \in Nat
  BY <1>2, FS_CardinalityType
<1> QED
  BY <1>2, <1>3, WorkerCount, ChunksSound

\* The inductive invariant implies type correctness.
LEMMA InvTypeOK == IInv => TypeOK
BY ActiveBounded DEF IInv, Typed, ActiveCounted, TypeOK

\* Every initial state satisfies the invariant.
LEMMA InvInit == Init => IInv
<1> SUFFICES ASSUME Init PROVE IInv
  OBVIOUS
<1>1. Active = {}
  BY DEF Init, Active
<1>2. ActiveCounted
  BY <1>1, FS_EmptySet DEF ActiveCounted, Init
<1>3. Typed
  BY ChunksSound DEF Init, Typed
<1>4. PublishedWhole /\ LaunchedInOrder /\ JoinedInOrder
  BY ChunksSound
  DEF Init, PublishedWhole, LaunchedInOrder, JoinedInOrder, WatcherOutlivesWorkers, Worker
<1> QED
  BY <1>2, <1>3, <1>4 DEF IInv

-----------------------------------------------------------------------------
\* Attaching a worker keeps the invariant: the counter follows the set.
LEMMA AttachKeepsInv ==
  ASSUME IInv, NEW w \in Worker, Attach(w)
  PROVE  IInv'
<1> USE DEF Attach, Moves, mainVars
<1>1. state[w] = "started" /\ state' = [state EXCEPT ![w] = "attached"]
  OBVIOUS
<1>2. Active' = Active \cup {w} /\ w \notin Active
  BY <1>1 DEF IInv, Typed, Active
<1>3. Cardinality(Active') = Cardinality(Active) + 1
  BY <1>2, ActiveBounded, FS_AddElement
<1>4. ActiveCounted'
  BY <1>3 DEF IInv, ActiveCounted
<1>5. Typed'
  BY <1>1 DEF IInv, Typed
<1>6. PublishedWhole' /\ LaunchedInOrder' /\ JoinedInOrder'
  BY <1>1 DEF IInv, Typed, PublishedWhole, LaunchedInOrder, JoinedInOrder,
              WatcherOutlivesWorkers
<1> QED
  BY <1>4, <1>5, <1>6 DEF IInv

\* Processing an item keeps the invariant: only a worker that has not yet
\* published does it.
LEMMA ProcessKeepsInv ==
  ASSUME IInv, NEW w \in Worker, Process(w)
  PROVE  IInv'
<1> USE DEF Process, mainVars
<1>1. Active' = Active
  BY DEF Active
<1>2. ActiveCounted'
  BY <1>1 DEF IInv, ActiveCounted
<1>3. Typed'
  BY DEF IInv, Typed
<1>4. PublishedWhole' /\ LaunchedInOrder' /\ JoinedInOrder'
  BY DEF IInv, Typed, PublishedWhole, LaunchedInOrder, JoinedInOrder,
         WatcherOutlivesWorkers
<1> QED
  BY <1>2, <1>3, <1>4 DEF IInv

\* The last publication keeps the invariant.
LEMMA PublishKeepsInv ==
  ASSUME IInv, NEW w \in Worker, Publish(w)
  PROVE  IInv'
<1> USE DEF Publish, Moves, mainVars
<1>1. state[w] = "attached" /\ state' = [state EXCEPT ![w] = "published"]
  OBVIOUS
<1>2. Active' = Active
  BY <1>1 DEF IInv, Typed, Active
<1>3. ActiveCounted'
  BY <1>2 DEF IInv, ActiveCounted
<1>4. Typed'
  BY <1>1 DEF IInv, Typed
<1>5. PublishedWhole'
  BY <1>1 DEF IInv, Typed, PublishedWhole
<1>6. LaunchedInOrder' /\ JoinedInOrder'
  BY <1>1 DEF IInv, Typed, LaunchedInOrder, JoinedInOrder, WatcherOutlivesWorkers
<1> QED
  BY <1>3, <1>4, <1>5, <1>6 DEF IInv

\* Detaching a worker keeps the invariant: the counter follows the set.
LEMMA DetachKeepsInv ==
  ASSUME IInv, NEW w \in Worker, Detach(w)
  PROVE  IInv'
<1> USE DEF Detach, Moves, mainVars
<1>1. state[w] = "published" /\ state' = [state EXCEPT ![w] = "returned"]
  OBVIOUS
<1>2. Active' = Active \ {w} /\ w \in Active
  BY <1>1 DEF IInv, Typed, Active
<1>3. Cardinality(Active') = Cardinality(Active) - 1
  BY <1>2, ActiveBounded, FS_RemoveElement
<1>4. ActiveCounted'
  BY <1>3 DEF IInv, ActiveCounted
<1>5. Typed'
  BY <1>1 DEF IInv, Typed
<1>6. PublishedWhole' /\ LaunchedInOrder' /\ JoinedInOrder'
  BY <1>1 DEF IInv, Typed, PublishedWhole, LaunchedInOrder, JoinedInOrder,
              WatcherOutlivesWorkers
<1> QED
  BY <1>4, <1>5, <1>6 DEF IInv

\* Launching the next worker keeps the invariant.
LEMMA LaunchKeepsInv ==
  ASSUME IInv, Launch
  PROVE  IInv'
<1> USE DEF Launch, Moves, Goto
<1>1. idx \in Worker /\ idx + 1 \in 0..NThreads
  BY ChunksSound DEF IInv, Typed, LaunchedInOrder, Worker
<1>2. state[idx] = "absent" /\ state' = [state EXCEPT ![idx] = "started"]
  OBVIOUS
<1>3. Active' = Active
  BY <1>1, <1>2 DEF IInv, Typed, Active
<1>4. ActiveCounted'
  BY <1>3 DEF IInv, ActiveCounted
<1>5. Typed'
  BY <1>1, <1>2, ChunksSound DEF IInv, Typed
<1>6. PublishedWhole'
  BY <1>1, <1>2 DEF IInv, Typed, PublishedWhole
<1>7. \A w \in Worker : w < idx + 1 => state'[w] # "absent"
  BY <1>1, <1>2 DEF IInv, Typed, JoinedInOrder, Worker
<1>8. CASE idx + 1 = NThreads
  <2>1. \A w \in Worker : state'[w] # "absent"
    BY <1>7, <1>8, ChunksSound DEF Worker
  <2>2. LaunchedInOrder' /\ JoinedInOrder'
    BY <1>8, <2>1 DEF LaunchedInOrder, JoinedInOrder, WatcherOutlivesWorkers
  <2> QED
    BY <1>4, <1>5, <1>6, <2>2 DEF IInv
<1>9. CASE idx + 1 # NThreads
  <2>1. pc' = "launch" /\ idx' = idx + 1 /\ idx' < NThreads
    BY <1>1, <1>9, ChunksSound
  <2>2. LaunchedInOrder' /\ JoinedInOrder'
    BY <1>7, <2>1 DEF LaunchedInOrder, JoinedInOrder, WatcherOutlivesWorkers
  <2> QED
    BY <1>4, <1>5, <1>6, <2>2 DEF IInv
<1> QED
  BY <1>8, <1>9

\* The other steps of the main thread up to the joins keep the invariant.
LEMMA WatchKeepsInv ==
  ASSUME IInv, LaunchFails \/ Check \/ Collect \/ Show
  PROVE  IInv'
<1> USE DEF LaunchFails, Check, Collect, Show, Goto, workerVars
<1>1. UNCHANGED workerVars
  OBVIOUS
<1>2. ActiveCounted' /\ PublishedWhole'
  BY <1>1 DEF IInv, ActiveCounted, Active, PublishedWhole
<1>3. Typed'
  <2>1. pc' \in {"launch", "check", "collect", "final", "join", "over"}
    BY DEF IInv, Typed
  <2>2. idx' \in 0..NThreads
    BY ChunksSound DEF IInv, Typed
  <2>3. sum' \in Nat
    BY ChunksSound DEF IInv, Typed, Worker
  <2>4. shown' \in Nat
    BY DEF IInv, Typed
  <2> QED
    BY <1>1, <2>1, <2>2, <2>3, <2>4 DEF IInv, Typed
<1>4. LaunchedInOrder'
  <2>1. pc' # "launch" /\ (pc' \in {"check", "collect", "final"} =>
                            pc \in {"check", "collect", "final"})
    OBVIOUS
  <2> QED
    BY <1>1, <2>1 DEF IInv, LaunchedInOrder
<1>5. JoinedInOrder'
  <2>1. pc' \notin {"launch", "over"} /\ (pc' = "join" => idx' = 0)
    OBVIOUS
  <2>2. 0 < NThreads /\ \A w \in Worker : ~ (w < 0)
    BY ChunksSound DEF Worker
  <2> QED
    BY <2>1, <2>2 DEF JoinedInOrder, WatcherOutlivesWorkers
<1> QED
  BY <1>2, <1>3, <1>4, <1>5 DEF IInv

\* Joining the next worker keeps the invariant.
LEMMA JoinKeepsInv ==
  ASSUME IInv, Join
  PROVE  IInv'
<1> USE DEF Join, Goto, workerVars
<1>1. UNCHANGED workerVars /\ idx \in Nat /\ idx < NThreads
  BY ChunksSound DEF IInv, Typed, JoinedInOrder
<1>2. ActiveCounted' /\ PublishedWhole' /\ LaunchedInOrder'
  BY <1>1 DEF IInv, ActiveCounted, Active, PublishedWhole, LaunchedInOrder
<1>3. Typed'
  BY <1>1, ChunksSound DEF IInv, Typed
<1>4. \A w \in Worker : w < idx + 1 => state[w] \in {"returned", "absent"}
  BY <1>1 DEF IInv, JoinedInOrder, Worker
<1>5. CASE idx + 1 = NThreads
  <2>1. \A w \in Worker : state[w] \in {"returned", "absent"}
    BY <1>4, <1>5, ChunksSound DEF Worker
  <2>2. JoinedInOrder'
    BY <1>1, <1>5, <2>1 DEF JoinedInOrder, WatcherOutlivesWorkers
  <2> QED
    BY <1>2, <1>3, <2>2 DEF IInv
<1>6. CASE idx + 1 # NThreads
  <2>1. idx' = idx + 1 /\ pc' = "join" /\ idx' < NThreads
    BY <1>1, <1>6, ChunksSound
  <2>2. JoinedInOrder'
    BY <1>1, <1>4, <2>1 DEF JoinedInOrder, WatcherOutlivesWorkers
  <2> QED
    BY <1>2, <1>3, <2>2 DEF IInv
<1> QED
  BY <1>5, <1>6

\* Every step keeps the invariant.
LEMMA InvStep == IInv /\ [Next]_vars => IInv'
<1> SUFFICES ASSUME IInv, [Next]_vars PROVE IInv'
  OBVIOUS
<1>1. CASE \E w \in Worker : WorkerStep(w)
  BY <1>1, AttachKeepsInv, ProcessKeepsInv, PublishKeepsInv, DetachKeepsInv
  DEF WorkerStep
<1>2. CASE MainStep
  BY <1>2, LaunchKeepsInv, WatchKeepsInv, JoinKeepsInv DEF MainStep
<1>3. CASE UNCHANGED vars
  BY <1>3 DEF vars, workerVars, mainVars, IInv, Typed, ActiveCounted, Active,
              PublishedWhole, LaunchedInOrder, JoinedInOrder, WatcherOutlivesWorkers
<1> QED
  BY <1>1, <1>2, <1>3 DEF Next, Over

\* A loop that ends with every launched worker past attach() has all counters
\* complete: nobody is attached any more, so everybody has published.
LEMMA LoopEndStep ==
  ASSUME IInv, Check, pc' = "final", \A w \in Worker : state[w] # "started"
  PROVE  counters = Chunk
<1>1. pc = "check" /\ nactive = 0
  BY ActiveBounded DEF Check, Goto, IInv, ActiveCounted
<1>2. Active = {}
  BY <1>1, ActiveBounded, FS_EmptySet DEF IInv, ActiveCounted
<1>3. \A w \in Worker : state[w] = "returned"
  BY <1>1, <1>2 DEF IInv, Typed, LaunchedInOrder, Active
<1>4. \A w \in Worker : counters[w] = Chunk[w]
  BY <1>3 DEF IInv, PublishedWhole
<1> QED
  BY <1>4, ChunksSound DEF IInv, Typed

-----------------------------------------------------------------------------
(* The reports *)

\* A counter never runs ahead of the items its worker has processed.
CountersHonest == \A w \in Worker : counters[w] <= done[w] /\ done[w] <= Chunk[w]

\* What has been added up so far was read from counters that have only grown since.
SumHonest == pc \in {"collect", "final"} => sum <= SumOn(counters, 0..(idx - 1))

\* The last report is covered by what has been added up since and what is still to be read.
ShownCovered ==
  IF pc \in {"collect", "final"} THEN shown <= sum + SumOn(counters, idx..(NThreads - 1))
                                 ELSE shown <= SumOn(counters, Worker)

RInv == CountersHonest /\ SumHonest /\ ShownCovered

\* The chunks of the first n workers together reach from the first item to the n-th chunk.
LEMMA ChunksAddUp == SumOn(Chunk, Worker) = Upper
<1> DEFINE S == {n \in Nat : n <= Cores => SumOn(Chunk, 0..(n - 1)) = n * ChunkSize}
<1>1. /\ NThreads \in Nat \ {0} /\ Chunk \in [Worker -> Nat]
      /\ ChunkSize \in Nat /\ Cores \in Nat \ {0} /\ Upper \in Nat
      /\ NThreads = IF Upper % Cores = 0 THEN Cores ELSE Cores + 1
  BY ChunksSound, UpperAssumption, CoresAssumption DEF NThreads, ChunkSize
<1>2. ASSUME NEW n \in 0..NThreads PROVE IsFiniteSet(0..(n - 1)) /\ Terms(Chunk, 0..(n - 1))
  <2>1. 0 \in Int /\ n - 1 \in Int
    BY <1>1
  <2>2. IsFiniteSet(0..(n - 1))
    BY <2>1, FS_Interval
  <2>3. \A w \in 0..(n - 1) : w \in Worker
    BY <1>1 DEF Worker
  <2> QED BY <1>1, <2>2, <2>3 DEF Terms
<1>3. 0 \in S
  <2>1. 0..(0 - 1) = {}
    OBVIOUS
  <2>2. SumOn(Chunk, {}) = 0
    BY <1>1, <1>2, SumType
  <2> QED BY <1>1, <2>1, <2>2
<1>4. ASSUME NEW n \in Nat, n \in S PROVE n + 1 \in S
  <2> SUFFICES ASSUME n + 1 <= Cores
               PROVE  SumOn(Chunk, 0..((n + 1) - 1)) = (n + 1) * ChunkSize
    OBVIOUS
  <2>1. 0..((n + 1) - 1) = (0..(n - 1)) \cup {n} /\ n \notin 0..(n - 1)
    OBVIOUS
  <2>2. n \in Worker /\ n \in 0..NThreads /\ n + 1 \in 0..NThreads
    BY <1>1 DEF Worker
  <2>3. SumOn(Chunk, (0..(n - 1)) \cup {n}) = Chunk[n] + SumOn(Chunk, 0..(n - 1))
    BY <1>2, <2>1, <2>2, SumAdd
  <2>4. Chunk[n] = (n + 1) * ChunkSize - n * ChunkSize
    BY <1>1, <2>2 DEF Chunk, FirstItem, LastItem
  <2>5. (n + 1) * ChunkSize = n * ChunkSize + ChunkSize /\ n * ChunkSize \in Nat
    BY <1>1
  <2>6. SumOn(Chunk, 0..(n - 1)) = n * ChunkSize
    BY <1>1, <1>4
  <2>7. SumOn(Chunk, 0..((n + 1) - 1)) = Chunk[n] + n * ChunkSize
    BY <2>1, <2>3, <2>6
  <2> QED BY <1>1, <2>4, <2>5, <2>7
<1> HIDE DEF S
<1>5. Cores \in S
  BY <1>1, <1>3, <1>4, SetInduction
<1>6. SumOn(Chunk, 0..(Cores - 1)) = Cores * ChunkSize
  BY <1>1, <1>5 DEF S
<1>7. CASE Upper % Cores = 0
  <2>1. Worker = 0..(Cores - 1)
    BY <1>1, <1>7 DEF Worker
  <2>2. Cores * ChunkSize = Upper
    BY <1>1, <1>7 DEF ChunkSize
  <2> QED BY <1>6, <2>1, <2>2
<1>8. CASE Upper % Cores # 0
  <2>1. Worker = (0..(Cores - 1)) \cup {Cores} /\ Cores \notin 0..(Cores - 1)
    BY <1>1, <1>8 DEF Worker
  <2>2. SumOn(Chunk, Worker) = Chunk[Cores] + SumOn(Chunk, 0..(Cores - 1))
    <3>1. NThreads - 1 = Cores /\ NThreads \in 0..NThreads /\ Cores \in 0..NThreads
      BY <1>1, <1>8
    <3>2. Terms(Chunk, (0..(Cores - 1)) \cup {Cores})
      BY <1>1, <2>1 DEF Terms
    <3> QED BY <1>2, <2>1, <3>1, <3>2, SumAdd
  <2>3. Chunk[Cores] = Upper - Cores * ChunkSize
    BY <1>1, <2>1 DEF Chunk, FirstItem, LastItem
  <2>4. Cores * ChunkSize \in Nat
    BY <1>1
  <2> QED BY <1>1, <1>6, <2>2, <2>3, <2>4
<1> QED BY <1>7, <1>8

\* The sums that the invariant is about.
LEMMA CountersSum ==
  ASSUME IInv
  PROVE  /\ Terms(counters, Worker) /\ IsFiniteSet(Worker)
         /\ \A W \in SUBSET Worker :
              IsFiniteSet(W) /\ Terms(counters, W) /\ SumOn(counters, W) \in Nat
         /\ idx \in 0..NThreads => 0..(idx - 1) \in SUBSET Worker /\ idx..(NThreads - 1) \in SUBSET Worker
<1>1. Terms(counters, Worker) /\ \A w \in Worker : counters[w] \in Nat
  BY DEF IInv, Typed, Terms
<1>2. \A W \in SUBSET Worker : IsFiniteSet(W) /\ Terms(counters, W)
  BY <1>1, WorkerCount, FS_Subset DEF Terms
<1>3. \A W \in SUBSET Worker : SumOn(counters, W) \in Nat
  BY <1>1, WorkerCount, SumSubset
<1>4. idx \in 0..NThreads => 0..(idx - 1) \in SUBSET Worker /\ idx..(NThreads - 1) \in SUBSET Worker
  BY ChunksSound DEF Worker
<1> QED BY <1>1, <1>2, <1>3, <1>4, WorkerCount

\* A worker's counter only grows, and with it every sum of counters.
LEMMA WorkerKeepsReports ==
  ASSUME IInv, RInv, NEW w \in Worker, WorkerStep(w)
  PROVE  RInv'
<1>1. UNCHANGED <<pc, idx, sum, shown>>
  BY DEF WorkerStep, Attach, Process, Publish, Detach, mainVars
<1>2. /\ counters \in [Worker -> Nat] /\ done \in [Worker -> Nat]
      /\ \A u \in Worker : counters[u] <= done[u] /\ done[u] <= Chunk[u]
      /\ Chunk \in [Worker -> Nat]
  BY ChunksSound DEF IInv, Typed, RInv, CountersHonest
<1>3. /\ counters' \in [Worker -> Nat]
      /\ \A u \in Worker : counters[u] <= counters'[u]
      /\ \A u \in Worker : counters'[u] <= done'[u] /\ done'[u] <= Chunk[u]
  <2>1. CASE Attach(w) \/ Detach(w)
    BY <1>2, <2>1 DEF Attach, Detach
  <2>2. CASE Process(w)
    <3>1. /\ done[w] < Chunk[w] /\ done' = [done EXCEPT ![w] = @ + 1]
          /\ counters' = IF (FirstItem(w) + done[w]) % Stride = 0
                         THEN [counters EXCEPT ![w] = done[w]] ELSE counters
      BY <2>2 DEF Process
    <3>2. done[w] \in Nat /\ Chunk[w] \in Nat /\ counters[w] <= done[w]
      BY <1>2
    <3>3. done'[w] = done[w] + 1 /\ \A u \in Worker : u # w => done'[u] = done[u]
      BY <1>2, <3>1
    <3>4. counters'[w] \in {counters[w], done[w]} /\ \A u \in Worker : u # w => counters'[u] = counters[u]
      BY <1>2, <3>1
    <3>5. counters' \in [Worker -> Nat]
      BY <1>2, <3>1
    <3> QED BY <1>2, <3>1, <3>2, <3>3, <3>4, <3>5
  <2>3. CASE Publish(w)
    <3>1. done' = done /\ counters' = [counters EXCEPT ![w] = done[w]]
      BY <2>3 DEF Publish
    <3> QED BY <1>2, <3>1
  <2> QED BY <2>1, <2>2, <2>3 DEF WorkerStep
<1>4. ASSUME NEW W \in SUBSET Worker
      PROVE  SumOn(counters, W) <= SumOn(counters', W) /\ SumOn(counters', W) \in Nat
  <2>1. IsFiniteSet(W) /\ Terms(counters, W) /\ Terms(counters', W)
    BY <1>3, CountersSum DEF Terms
  <2>2. \A u \in W : counters[u] <= counters'[u]
    BY <1>3
  <2>3. SumOn(counters, W) <= SumOn(counters', W)
    BY <2>1, <2>2, SumMonotone
  <2>4. SumOn(counters, W) \in Nat /\ SumOn(counters', W) \in Int
    BY <2>1, CountersSum, SumType
  <2> QED BY <2>3, <2>4
<1>5. /\ 0..(idx - 1) \in SUBSET Worker /\ idx..(NThreads - 1) \in SUBSET Worker
      /\ sum \in Nat /\ shown \in Nat /\ Worker \in SUBSET Worker
      /\ \A W \in SUBSET Worker : SumOn(counters, W) \in Nat
  BY CountersSum DEF IInv, Typed
<1>6. CountersHonest'
  BY <1>3 DEF CountersHonest
<1>7. SumHonest'
  <2> DEFINE a == SumOn(counters, 0..(idx - 1))
             b == SumOn(counters', 0..(idx - 1))
  <2>1. a <= b /\ a \in Nat /\ b \in Nat
    BY <1>4, <1>5
  <2>2. pc \in {"collect", "final"} => sum <= a
    BY DEF SumHonest, RInv
  <2> HIDE DEF a
  <2>3. pc \in {"collect", "final"} => sum <= b
    BY <1>5, <2>1, <2>2
  <2> QED BY <1>1, <2>3 DEF SumHonest
<1>8. ShownCovered'
  <2> DEFINE a == SumOn(counters, idx..(NThreads - 1))
             b == SumOn(counters', idx..(NThreads - 1))
             c == SumOn(counters, Worker)
             d == SumOn(counters', Worker)
  <2>1. a <= b /\ a \in Nat /\ b \in Nat /\ c <= d /\ c \in Nat /\ d \in Nat
    BY <1>4, <1>5
  <2>2. IF pc \in {"collect", "final"} THEN shown <= sum + a ELSE shown <= c
    BY DEF ShownCovered, RInv
  <2> HIDE DEF a, b, c, d
  <2>3. IF pc \in {"collect", "final"} THEN shown <= sum + b ELSE shown <= d
    BY <1>5, <2>1, <2>2
  <2> QED BY <1>1, <2>3 DEF ShownCovered, b, d
<1> QED BY <1>6, <1>7, <1>8 DEF RInv

\* The main thread reads the counters one after the other.
LEMMA MainKeepsReports ==
  ASSUME IInv, RInv, MainStep
  PROVE  RInv' /\ shown <= shown'
<1>1. UNCHANGED <<counters, done>>
  BY DEF MainStep, Launch, LaunchFails, Check, Collect, Show, Join, workerVars
<1>2. /\ sum \in Nat /\ shown \in Nat /\ idx \in 0..NThreads /\ NThreads \in Nat \ {0}
      /\ pc \in {"launch", "check", "collect", "final", "join", "over"}
      /\ \A w \in Worker : counters[w] \in Nat
  BY ChunksSound DEF IInv, Typed
<1>3. /\ SumOn(counters, 0..(idx - 1)) \in Nat /\ SumOn(counters, idx..(NThreads - 1)) \in Nat
      /\ SumOn(counters, Worker) \in Nat /\ SumOn(counters, {}) = 0
  BY <1>2, CountersSum, SumType
<1>4. CountersHonest'
  BY <1>1 DEF RInv, CountersHonest
<1>5. SumHonest /\ ShownCovered
  BY DEF RInv
<1>6. CASE Launch \/ LaunchFails \/ Join
  <2>1. /\ pc \notin {"collect", "final"} /\ pc' \notin {"collect", "final"}
        /\ UNCHANGED <<counters, shown>>
    BY <1>6 DEF Launch, LaunchFails, Join, Goto, Moves, workerVars
  <2> QED BY <1>2, <1>4, <1>5, <2>1 DEF RInv, SumHonest, ShownCovered
<1>7. CASE Check
  <2>1. pc = "check" /\ pc' \in {"collect", "final"} /\ idx' = 0 /\ sum' = 0
        /\ UNCHANGED <<counters, shown>>
    BY <1>7 DEF Check, Goto, workerVars
  <2>2. 0..(0 - 1) = {} /\ 0..(NThreads - 1) = Worker
    BY <1>2 DEF Worker
  <2>3. SumHonest'
    BY <1>3, <2>1, <2>2 DEF SumHonest
  <2>4. shown <= 0 + SumOn(counters, Worker)
    BY <1>2, <1>3, <1>5, <2>1 DEF ShownCovered
  <2>5. ShownCovered'
    BY <2>1, <2>2, <2>4 DEF ShownCovered
  <2> QED BY <1>2, <1>4, <2>1, <2>3, <2>5 DEF RInv
<1>8. CASE Collect
  <2>1. pc \in {"collect", "final"} /\ pc' = pc /\ idx < NThreads /\ idx' = idx + 1
        /\ sum' = sum + counters[idx] /\ UNCHANGED <<counters, shown>>
    BY <1>8 DEF Collect, workerVars
  <2>2. /\ idx \in Worker
        /\ 0..((idx + 1) - 1) = (0..(idx - 1)) \cup {idx} /\ idx \notin 0..(idx - 1)
        /\ (idx..(NThreads - 1)) \ {idx} = (idx + 1)..(NThreads - 1) /\ idx \in idx..(NThreads - 1)
    BY <1>2, <2>1 DEF Worker
  <2> DEFINE a == SumOn(counters, 0..(idx - 1))
             b == SumOn(counters, idx..(NThreads - 1))
             c == SumOn(counters, (idx + 1)..(NThreads - 1))
             x == counters[idx]
  <2>3. SumOn(counters, 0..((idx + 1) - 1)) = x + a
    <3>1. /\ IsFiniteSet(0..(idx - 1)) /\ 0..(idx - 1) \in SUBSET Worker
          /\ Terms(counters, (0..(idx - 1)) \cup {idx})
      BY <1>2, <2>2, CountersSum DEF Terms
    <3>2. SumOn(counters, (0..(idx - 1)) \cup {idx}) = x + a
      BY <2>2, <3>1, SumAdd
    <3> QED BY <2>2, <3>2
  <2>4. b = x + c /\ c \in Int
    <3> DEFINE R == idx..(NThreads - 1)
               Q == (idx + 1)..(NThreads - 1)
    <3>1. R \in SUBSET Worker /\ Q \in SUBSET Worker /\ idx \in R /\ R \ {idx} = Q
      BY <1>2, <2>2, CountersSum
    <3> HIDE DEF R, Q
    <3>2. IsFiniteSet(R) /\ Terms(counters, R) /\ SumOn(counters, Q) \in Nat
      BY <3>1, CountersSum
    <3>3. SumOn(counters, R) = counters[idx] + SumOn(counters, Q)
      BY <3>1, <3>2, SumRemove
    <3> QED BY <3>2, <3>3 DEF R, Q
  <2>5. sum <= a /\ shown <= sum + b /\ a \in Nat /\ b \in Nat /\ x \in Nat
    BY <1>2, <1>3, <1>5, <2>1, <2>2 DEF SumHonest, ShownCovered
  <2> HIDE DEF a, b, c, x
  <2>6. sum + x <= x + a /\ shown <= (sum + x) + c /\ sum' = sum + x
    BY <1>2, <2>1, <2>4, <2>5 DEF x
  <2>7. SumHonest'
    BY <2>1, <2>3, <2>6 DEF SumHonest
  <2>8. ShownCovered'
    BY <2>1, <2>6 DEF ShownCovered, c
  <2> QED BY <1>2, <1>4, <2>1, <2>7, <2>8 DEF RInv
<1>9. CASE Show
  <2>1. pc \in {"collect", "final"} /\ pc' \in {"check", "join"} /\ idx = NThreads
        /\ shown' = sum /\ UNCHANGED counters
    BY <1>9 DEF Show, Goto, workerVars
  <2>2. NThreads..(NThreads - 1) = {} /\ 0..(NThreads - 1) = Worker
    BY <1>2 DEF Worker
  <2>3. sum <= SumOn(counters, Worker) /\ shown <= sum
    BY <1>2, <1>3, <1>5, <2>1, <2>2 DEF SumHonest, ShownCovered
  <2>4. SumHonest' /\ ShownCovered'
    BY <2>1, <2>3 DEF SumHonest, ShownCovered
  <2> QED BY <1>4, <2>1, <2>3, <2>4 DEF RInv
<1> QED BY <1>6, <1>7, <1>8, <1>9 DEF MainStep

LEMMA ReportsInit == Init => RInv
<1> SUFFICES ASSUME Init PROVE RInv
  OBVIOUS
<1>1. IInv /\ counters = [w \in Worker |-> 0] /\ pc = "launch" /\ shown = 0
  BY InvInit DEF Init
<1>2. SumOn(counters, Worker) \in Nat
  BY <1>1, CountersSum
<1>3. CountersHonest
  BY ChunksSound DEF Init, CountersHonest
<1> QED BY <1>1, <1>2, <1>3 DEF RInv, SumHonest, ShownCovered

LEMMA ReportsStep == IInv /\ RInv /\ [Next]_vars => RInv' /\ shown <= shown'
<1> SUFFICES ASSUME IInv, RInv, [Next]_vars PROVE RInv' /\ shown <= shown'
  OBVIOUS
<1>1. CASE \E w \in Worker : WorkerStep(w)
  <2>1. shown' = shown /\ shown \in Nat
    BY <1>1 DEF WorkerStep, Attach, Process, Publish, Detach, mainVars, IInv, Typed
  <2> QED BY <1>1, <2>1, WorkerKeepsReports
<1>2. CASE MainStep
  BY <1>2, MainKeepsReports
<1>3. CASE UNCHANGED vars
  BY <1>3 DEF vars, workerVars, mainVars, RInv, CountersHonest, SumHonest, ShownCovered, IInv, Typed
<1> QED BY <1>1, <1>2, <1>3 DEF Next, Over

\* What is shown is covered by the counters, they by the items processed, and these by the problem.
LEMMA ReportsCovered == IInv /\ RInv => ReportsHonest
<1> SUFFICES ASSUME IInv, RInv PROVE ReportsHonest
  OBVIOUS
<1> DEFINE c == SumOn(counters, Worker)
           d == SumOn(done, Worker)
           u == SumOn(Chunk, Worker)
<1>1. /\ IsFiniteSet(Worker) /\ Terms(counters, Worker) /\ Terms(done, Worker) /\ Terms(Chunk, Worker)
      /\ Worker \in SUBSET Worker
  BY WorkerCount, ChunksSound DEF IInv, Typed, Terms
<1>2. c <= d /\ d <= u
  BY <1>1, SumMonotone DEF RInv, CountersHonest
<1>3. c \in Int /\ d \in Int /\ u \in Int
  BY <1>1, SumType
<1>4. u = Upper
  BY ChunksAddUp
<1>5. Total(done) = d
  BY DEF Total, SumOn
<1>6. shown <= c
  <2>1. shown \in Nat /\ sum \in Nat /\ idx \in 0..NThreads /\ NThreads \in Nat \ {0}
    BY ChunksSound DEF IInv, Typed
  <2>2. CASE pc \in {"collect", "final"}
    <3> DEFINE a == SumOn(counters, 0..(idx - 1))
               b == SumOn(counters, idx..(NThreads - 1))
    <3>1. shown <= sum + b /\ sum <= a
      BY <2>2 DEF RInv, SumHonest, ShownCovered
    <3>2. c = a + b /\ a \in Nat /\ b \in Nat
      <4> DEFINE A == 0..(idx - 1)
                 B == idx..(NThreads - 1)
      <4>1. A \in SUBSET Worker /\ B \in SUBSET Worker
        BY <2>1, CountersSum
      <4>2. A \cup B = Worker /\ A \cap B = {}
        BY <2>1 DEF Worker
      <4> HIDE DEF A, B
      <4>3. SumOn(counters, Worker) = SumOn(counters, A) + SumOn(counters, B)
        BY <1>1, <4>1, <4>2, SumUnion
      <4>4. SumOn(counters, A) \in Nat /\ SumOn(counters, B) \in Nat
        BY <4>1, CountersSum
      <4> QED BY <4>3, <4>4 DEF A, B
    <3> HIDE DEF a, b, c
    <3> QED BY <1>3, <2>1, <3>1, <3>2
  <2>3. CASE pc \notin {"collect", "final"}
    BY <2>3 DEF RInv, ShownCovered
  <2> QED BY <2>2, <2>3
<1> HIDE DEF c, d, u
<1>7. shown \in Nat
  BY DEF IInv, Typed
<1> QED BY <1>2, <1>3, <1>4, <1>5, <1>6, <1>7 DEF ReportsHonest

-----------------------------------------------------------------------------
\* Whatever the interleaving, and whether or not a launch fails, the members
\* stay well typed and the function that owns the watcher is not left while a
\* worker can still use it.
THEOREM WatcherSafety == Spec => [](TypeOK /\ WatcherOutlivesWorkers)
<1>1. IInv => TypeOK /\ WatcherOutlivesWorkers
  BY InvTypeOK DEF IInv, JoinedInOrder
<1> QED
  BY <1>1, InvInit, InvStep, PTL DEF Spec

\* When operator() stops polling after every worker has attached, the counters
\* hold all the work.
THEOREM LoopEndComplete == Spec => LoopEndMeansDone
<1>1. IInv /\ [Next]_vars =>
        [Check /\ pc' = "final" /\ (\A w \in Worker : state[w] # "started")
           => counters = Chunk]_vars
  BY LoopEndStep
<1> QED
  BY <1>1, InvInit, InvStep, PTL DEF Spec, LoopEndMeansDone
\* The progress shown never exceeds the work done, nor the work done the problem, although
\* the counters are added up one by one while their workers go on.
THEOREM ReportsAreHonest == Spec => []ReportsHonest
BY InvInit, InvStep, ReportsInit, ReportsStep, ReportsCovered, PTL DEF Spec

\* The progress shown never goes back: every counter is read at least as high as the time before.
THEOREM ReportsAreMonotone == Spec => ReportsMonotone
<1>1. IInv /\ RInv /\ [Next]_vars => [shown' >= shown]_vars
  <2> SUFFICES ASSUME IInv, RInv, [Next]_vars PROVE shown' >= shown
    OBVIOUS
  <2>1. shown \in Nat /\ shown' \in Nat
    BY InvStep DEF IInv, Typed
  <2> QED BY <2>1, ReportsStep
<1> QED BY <1>1, InvInit, InvStep, ReportsInit, ReportsStep, PTL DEF Spec, ReportsMonotone

-----------------------------------------------------------------------------
(* Proofs, for any number of workers, any amounts counted down and any     *)
(* modulus that holds their total: nobody passes the latch before every    *)
(* worker has counted down, main does not leave while a worker it started  *)
(* still runs, and only more threads than were reserved room for can bring *)
(* the program down.                                                       *)

\* The workers that have not counted down yet.
Pending == {w \in Thread : worker[w] \in {"absent", "started"}}

SetTyped ==
  /\ share \in [Thread -> Amounts] /\ barrier \in BOOLEAN
  /\ threads \in Seq(Thread)
  /\ capacity \in Nat
  /\ worker \in [Thread -> {"absent", "started", "waiting", "returned"}]
  /\ main \in {"start", "wait", "join", "over", "terminated"}
  /\ at \in Nat

\* The latch counts what the workers have still to count down: it never wraps around.
LatchExact == count = SumOn(share, Pending)

\* The vector holds the handles of the workers started so far, in order, until
\* main has joined them all.
HandlesInOrder ==
  /\ \A i \in 1..Len(threads) : threads[i] = i
  /\ main \in {"start", "wait", "join"} =>
       \A w \in Thread : worker[w] = "absent" <=> w > Len(threads)
  /\ main = "start" => Len(threads) < Tasks

\* The joins proceed in order, each past a worker that has returned.
HandlesJoined ==
  /\ main \in {"start", "wait"} => at = 1
  /\ main = "join" =>
       at \in 1..(Len(threads) + 1) /\ \A w \in 1..(at - 1) : worker[w] = "returned"

\* The vector never has less room than the constructor reserved.
RoomReserved == capacity >= Reserve

SetInv == SetTyped /\ LatchExact /\ HandlesInOrder /\ HandlesJoined /\ RoomReserved /\ NoThreadOutlivesSet

USE TasksAssumption, AmountsAssumption, ReserveAssumption, ModulusAssumption

-----------------------------------------------------------------------------
(* The latch *)

LEMMA WorkersFinite == IsFiniteSet(Thread) /\ Cardinality(Thread) = Tasks
BY FS_Interval DEF Thread

\* Sum is the sum of the theorems about sums.
LEMMA SumIs ==
  ASSUME share \in [Thread -> Amounts]
  PROVE  /\ Terms(share, Thread) /\ \A w \in Thread : share[w] \in Nat \ {0}
         /\ \A W \in SUBSET Thread : IsFiniteSet(W) /\ Terms(share, W) /\ Sum(W) = SumOn(share, W)
<1>1. \A W \in SUBSET Thread : IsFiniteSet(W)
  BY WorkersFinite, FS_Subset
<1>2. \A w \in Thread : share[w] \in Nat \ {0}
  OBVIOUS
<1>3. \A W : Sum(W) = SumOn(share, W)
  BY DEF Sum, SumOn
<1> QED BY <1>1, <1>2, <1>3 DEF Terms

\* What all workers count down together stays below the modulus of the latch.
LEMMA SumBelowModulus ==
  ASSUME share \in [Thread -> Amounts], NEW W \in SUBSET Thread
  PROVE  SumOn(share, W) \in Nat /\ SumOn(share, W) < Modulus
<1>1. PICK m \in Thread : \A w \in Thread : share[w] <= share[m]
  <2> DEFINE S == {n \in Nat : n + 1 <= Tasks =>
                     \E m \in 1..(n + 1) : \A w \in 1..(n + 1) : share[w] <= share[m]}
  <2>1. \A w \in 1..Tasks : share[w] \in Nat
    BY DEF Thread
  <2>2. 0 \in S
    BY <2>1
  <2>3. ASSUME NEW n \in Nat, n \in S PROVE n + 1 \in S
    <3> SUFFICES ASSUME (n + 1) + 1 <= Tasks
                 PROVE  \E m \in 1..((n + 1) + 1) :
                          \A w \in 1..((n + 1) + 1) : share[w] <= share[m]
      OBVIOUS
    <3>1. PICK m \in 1..(n + 1) : \A w \in 1..(n + 1) : share[w] <= share[m]
      BY <2>3
    <3>2. m \in 1..Tasks /\ (n + 1) + 1 \in 1..Tasks /\ 1..(n + 1) \subseteq 1..Tasks
      OBVIOUS
    <3>3. CASE share[m] <= share[(n + 1) + 1]
      <4>1. \A w \in 1..((n + 1) + 1) : share[w] <= share[(n + 1) + 1]
        BY <2>1, <3>1, <3>2, <3>3
      <4> QED BY <4>1
    <3>4. CASE ~(share[m] <= share[(n + 1) + 1])
      <4>1. \A w \in 1..((n + 1) + 1) : share[w] <= share[m]
        BY <2>1, <3>1, <3>2, <3>4
      <4> QED BY <4>1
    <3> QED BY <3>3, <3>4
  <2> HIDE DEF S
  <2>4. Tasks - 1 \in S
    BY <2>2, <2>3, SetInduction
  <2> QED BY <2>4 DEF S, Thread
<1>2. SumOn(share, W) \in Nat /\ SumOn(share, W) <= SumOn(share, Thread)
      /\ SumOn(share, Thread) \in Nat
  BY WorkersFinite, SumIs, SumSubset
<1>3. share[m] \in Nat /\ share[m] \in Amounts
  BY SumIs
<1>4. SumOn(share, Thread) <= Tasks * share[m]
  BY <1>1, <1>3, SumIs, SumBound, WorkersFinite
<1>5. Tasks * share[m] < Modulus /\ Tasks * share[m] \in Nat
  BY <1>3
<1> QED BY <1>2, <1>4, <1>5, SumIs

\* A number below the modulus is what is left of it and of the modulus together.
LEMMA Wraps == ASSUME NEW x \in Nat, x < Modulus PROVE (x + Modulus) % Modulus = x
OBVIOUS

\* Taking off the share of a worker that is still pending leaves the sum over the others.
LEMMA CountedDown ==
  ASSUME share \in [Thread -> Amounts], NEW W \in SUBSET Thread, NEW w \in W, count = SumOn(share, W)
  PROVE  (count + Modulus - share[w]) % Modulus = SumOn(share, W \ {w})
<1> DEFINE rest == SumOn(share, W \ {w})
<1>1. SumOn(share, W) = share[w] + rest
  BY SumIs, SumRemove
<1>2. rest \in Nat /\ rest < Modulus /\ share[w] \in Nat
  BY SumBelowModulus, SumIs
<1> HIDE DEF rest
<1>3. count + Modulus - share[w] = rest + Modulus
  BY <1>1, <1>2
<1> QED BY <1>2, <1>3, Wraps DEF rest

\* A latch that has reached zero has nobody to wait for.
LEMMA ReadyIsDone ==
  ASSUME SetTyped, LatchExact, IsReady
  PROVE  Pending = {}
<1> SUFFICES ASSUME NEW w \in Pending PROVE FALSE
  OBVIOUS
<1>1. Pending \in SUBSET Thread /\ share \in [Thread -> Amounts]
  BY DEF Pending, SetTyped
<1>2. SumOn(share, Pending) = share[w] + SumOn(share, Pending \ {w})
  BY <1>1, SumIs, SumRemove
<1>3. SumOn(share, Pending \ {w}) \in Nat /\ share[w] \in Nat \ {0}
  BY <1>1, SumIs, SumBelowModulus
<1>4. SumOn(share, Pending) = 0
  BY DEF LatchExact, IsReady
<1> QED BY <1>2, <1>3, <1>4

-----------------------------------------------------------------------------
(* The invariant *)

LEMMA SetInvInit == SetInit => SetInv
<1> SUFFICES ASSUME SetInit PROVE SetInv
  OBVIOUS
<1>1. threads = <<>> /\ threads \in Seq(Thread) /\ Len(threads) = 0
  BY DEF SetInit
<1>2. Pending = Thread
  BY DEF SetInit, Pending
<1>3. LatchExact
  BY <1>2, SumIs DEF SetInit, LatchExact, Announced
<1>4. SetTyped /\ RoomReserved /\ HandlesJoined /\ NoThreadOutlivesSet
  BY <1>1 DEF SetInit, SetTyped, RoomReserved, HandlesJoined, NoThreadOutlivesSet
<1>5. HandlesInOrder
  BY <1>1 DEF SetInit, HandlesInOrder, Thread
<1> QED BY <1>3, <1>4, <1>5 DEF SetInv

\* Starting a thread: the next worker, and what is pending stays so.
LEMMA NextStarts ==
  ASSUME SetInv, main = "start", Started
  PROVE  /\ NextWorker \in Thread /\ worker[NextWorker] = "absent"
         /\ worker' \in [Thread -> {"absent", "started", "waiting", "returned"}]
         /\ \A w \in Thread : worker'[w] = IF w = NextWorker THEN "started" ELSE worker[w]
         /\ Pending' = Pending
<1>1. Len(threads) \in Nat /\ Len(threads) < Tasks
  BY DEF SetInv, SetTyped, HandlesInOrder
<1>2. NextWorker \in Thread
  BY <1>1 DEF NextWorker, Thread
<1>3. worker[NextWorker] = "absent"
  BY <1>1, <1>2 DEF NextWorker, SetInv, HandlesInOrder
<1>4. /\ worker' \in [Thread -> {"absent", "started", "waiting", "returned"}]
      /\ \A w \in Thread : worker'[w] = IF w = NextWorker THEN "started" ELSE worker[w]
  BY <1>2 DEF Started, SetInv, SetTyped
<1> QED BY <1>2, <1>3, <1>4 DEF Pending

LEMMA StartKeepsInv == ASSUME SetInv, Start PROVE SetInv'
<1>1. /\ main = "start" /\ Started
      /\ threads' = Append(threads, NextWorker)
      /\ capacity' = IF Len(threads) < capacity THEN capacity
                     ELSE IF capacity = 0 THEN 1 ELSE 2 * capacity
      /\ main' = IF NextWorker = Tasks THEN "wait" ELSE "start"
      /\ UNCHANGED <<count, at, failed, share, barrier>>
  BY DEF Start, Emplace, client
<1>2. /\ NextWorker \in Thread
      /\ worker' \in [Thread -> {"absent", "started", "waiting", "returned"}]
      /\ \A w \in Thread : worker'[w] = IF w = NextWorker THEN "started" ELSE worker[w]
      /\ Pending' = Pending
  BY <1>1, NextStarts
<1>3. threads \in Seq(Thread) /\ Len(threads) \in Nat /\ capacity \in Nat /\ capacity >= Reserve
  BY DEF SetInv, SetTyped, RoomReserved
<1>4. /\ threads' \in Seq(Thread) /\ Len(threads') = Len(threads) + 1
      /\ \A i \in 1..Len(threads) : threads'[i] = threads[i]
      /\ threads'[Len(threads) + 1] = NextWorker
  BY <1>1, <1>2, <1>3
<1>5. capacity' \in Nat /\ capacity' >= Reserve
  BY <1>1, <1>3
<1>6. SetTyped'
  BY <1>1, <1>2, <1>4, <1>5 DEF SetInv, SetTyped
<1>7. LatchExact'
  BY <1>1, <1>2 DEF SetInv, LatchExact
<1>8. HandlesInOrder'
  <2>1. \A i \in 1..Len(threads') : threads'[i] = i
    BY <1>3, <1>4 DEF SetInv, HandlesInOrder, NextWorker
  <2>2. \A w \in Thread : worker'[w] = "absent" <=> w > Len(threads')
    <3> SUFFICES ASSUME NEW w \in Thread
                 PROVE  worker'[w] = "absent" <=> w > Len(threads')
      OBVIOUS
    <3>1. w \in Nat /\ (worker[w] = "absent" <=> w > Len(threads))
      BY <1>1 DEF SetInv, HandlesInOrder, Thread
    <3>2. w > Len(threads') <=> w > Len(threads) /\ w # NextWorker
      BY <1>3, <1>4, <3>1 DEF NextWorker
    <3> QED BY <1>2, <3>1, <3>2
  <2>3. main' = "start" => Len(threads') < Tasks
    BY <1>1, <1>2, <1>3, <1>4 DEF NextWorker, Thread
  <2> QED BY <2>1, <2>2, <2>3 DEF HandlesInOrder
<1>9. HandlesJoined' /\ RoomReserved' /\ NoThreadOutlivesSet'
  BY <1>1, <1>5 DEF SetInv, HandlesJoined, RoomReserved, NoThreadOutlivesSet
<1> QED BY <1>6, <1>7, <1>8, <1>9 DEF SetInv

\* The program ends in std::terminate only when the vector, which has at least
\* the room reserved, is full.
LEMMA GrowthFailsKeepsInv == ASSUME SetInv, GrowthFails PROVE SetInv'
<1>1. /\ main = "start" /\ Started /\ Len(threads) = capacity /\ main' = "terminated"
      /\ UNCHANGED <<count, threads, capacity, at, failed, share, barrier>>
  BY DEF GrowthFails, client
<1>2. /\ worker' \in [Thread -> {"absent", "started", "waiting", "returned"}]
      /\ Pending' = Pending
  BY <1>1, NextStarts
<1>3. SetTyped'
  BY <1>1, <1>2 DEF SetInv, SetTyped
<1>4. LatchExact'
  BY <1>1, <1>2 DEF SetInv, LatchExact
<1>5. HandlesInOrder' /\ HandlesJoined' /\ RoomReserved' /\ NoThreadOutlivesSet'
  BY <1>1 DEF SetInv, HandlesInOrder, HandlesJoined, RoomReserved, NoThreadOutlivesSet
<1> QED BY <1>3, <1>4, <1>5 DEF SetInv

\* Main's steps that leave the workers and the vector alone.
LEMMA MainKeepsInv == ASSUME SetInv, StartFails \/ MainPasses PROVE SetInv'
<1>1. /\ main \in {"start", "wait"} /\ main' = "join"
      /\ UNCHANGED <<count, threads, capacity, worker, at, share, barrier>>
  BY DEF StartFails, MainPasses, client
<1>2. LatchExact'
  BY <1>1 DEF SetInv, LatchExact, Pending
<1>3. SetTyped' /\ HandlesInOrder' /\ RoomReserved' /\ NoThreadOutlivesSet'
  BY <1>1 DEF SetInv, SetTyped, HandlesInOrder, RoomReserved, NoThreadOutlivesSet
<1>4. HandlesJoined'
  BY <1>1 DEF SetInv, SetTyped, HandlesJoined
<1> QED BY <1>2, <1>3, <1>4 DEF SetInv

LEMMA JoinNextKeepsInv == ASSUME SetInv, JoinNext PROVE SetInv'
<1>1. /\ main = "join" /\ at <= Len(threads) /\ worker[threads[at]] = "returned" /\ at' = at + 1
      /\ UNCHANGED <<count, threads, capacity, worker, main, share, barrier>>
  BY DEF JoinNext, client
<1>2. LatchExact'
  BY <1>1 DEF SetInv, LatchExact, Pending
<1>3. SetTyped' /\ HandlesInOrder' /\ RoomReserved' /\ NoThreadOutlivesSet'
  BY <1>1 DEF SetInv, SetTyped, HandlesInOrder, RoomReserved, NoThreadOutlivesSet
<1>4. HandlesJoined'
  <2>1. at \in 1..Len(threads) /\ Len(threads) \in Nat /\ threads[at] = at
        /\ \A w \in 1..(at - 1) : worker[w] = "returned"
    BY <1>1 DEF SetInv, SetTyped, HandlesJoined, HandlesInOrder
  <2> QED BY <1>1, <2>1 DEF HandlesJoined
<1> QED BY <1>2, <1>3, <1>4 DEF SetInv

\* Main leaves when it has joined every worker that it started.
LEMMA ClearKeepsInv == ASSUME SetInv, Clear PROVE SetInv'
<1>1. /\ main = "join" /\ at = Len(threads) + 1 /\ threads' = <<>> /\ at' = 1 /\ main' = "over"
      /\ UNCHANGED <<count, capacity, worker, share, barrier>>
  BY DEF Clear, client
<1>2. threads' \in Seq(Thread) /\ Len(threads') = 0
  BY <1>1
<1>3. LatchExact'
  BY <1>1 DEF SetInv, LatchExact, Pending
<1>4. SetTyped' /\ HandlesInOrder' /\ RoomReserved' /\ HandlesJoined'
  BY <1>1, <1>2 DEF SetInv, SetTyped, HandlesInOrder, RoomReserved, HandlesJoined
<1>5. NoThreadOutlivesSet'
  <2>1. Len(threads) \in Nat /\ \A w \in 1..Len(threads) : worker[w] = "returned"
    BY <1>1 DEF SetInv, SetTyped, HandlesJoined
  <2>2. ASSUME NEW w \in Thread PROVE worker[w] \in {"absent", "returned"}
    BY <1>1, <2>1 DEF SetInv, HandlesInOrder, Thread
  <2> QED BY <1>1, <2>2 DEF NoThreadOutlivesSet
<1> QED BY <1>3, <1>4, <1>5 DEF SetInv

\* Counting down takes the worker's share off the latch, and the worker off those pending.
LEMMA CountdownKeepsInv ==
  ASSUME SetInv, main # "terminated", NEW w \in Thread, Countdown(w)
  PROVE  SetInv'
<1>1. /\ worker[w] = "started"
      /\ count' = (count + Modulus - share[w]) % Modulus
      /\ worker' = [worker EXCEPT ![w] = IF barrier THEN "waiting" ELSE "returned"]
      /\ UNCHANGED <<threads, capacity, main, at, share, barrier>>
  BY DEF Countdown, client
<1>2. /\ worker' \in [Thread -> {"absent", "started", "waiting", "returned"}]
      /\ worker'[w] \in {"waiting", "returned"}
      /\ \A u \in Thread : u # w => worker'[u] = worker[u]
  BY <1>1 DEF SetInv, SetTyped
<1>3. Pending' = Pending \ {w} /\ w \in Pending /\ Pending \in SUBSET Thread
  BY <1>1, <1>2 DEF Pending
<1>4. LatchExact'
  <2>1. count' = SumOn(share, Pending \ {w})
    BY <1>1, <1>3, CountedDown DEF SetInv, SetTyped, LatchExact
  <2> QED BY <1>1, <1>3, <2>1 DEF LatchExact
<1>5. SetTyped' /\ RoomReserved'
  BY <1>1, <1>2 DEF SetInv, SetTyped, RoomReserved
<1>6. HandlesInOrder'
  BY <1>1, <1>2 DEF SetInv, HandlesInOrder
<1>7. HandlesJoined'
  <2>1. main = "join" => \A u \in 1..(at - 1) : u \in Thread /\ u # w
    BY <1>1 DEF SetInv, SetTyped, HandlesJoined, HandlesInOrder, Thread
  <2> QED BY <1>1, <1>2, <2>1 DEF SetInv, HandlesJoined
<1>8. NoThreadOutlivesSet'
  BY <1>1, <1>2 DEF SetInv, NoThreadOutlivesSet
<1> QED BY <1>4, <1>5, <1>6, <1>7, <1>8 DEF SetInv

LEMMA PassesKeepsInv ==
  ASSUME SetInv, main # "terminated", NEW w \in Thread, WorkerPasses(w)
  PROVE  SetInv'
<1>1. /\ worker[w] = "waiting" /\ worker' = [worker EXCEPT ![w] = "returned"]
      /\ UNCHANGED <<count, threads, capacity, main, at, share, barrier>>
  BY DEF WorkerPasses, client
<1>2. /\ worker' \in [Thread -> {"absent", "started", "waiting", "returned"}]
      /\ worker'[w] = "returned"
      /\ \A u \in Thread : u # w => worker'[u] = worker[u]
  BY <1>1 DEF SetInv, SetTyped
<1>3. Pending' = Pending
  BY <1>1, <1>2 DEF Pending
<1>4. LatchExact'
  BY <1>1, <1>3 DEF SetInv, LatchExact
<1>5. SetTyped' /\ RoomReserved'
  BY <1>1, <1>2 DEF SetInv, SetTyped, RoomReserved
<1>6. HandlesInOrder'
  BY <1>1, <1>2 DEF SetInv, HandlesInOrder
<1>7. HandlesJoined'
  <2>1. main = "join" => \A u \in 1..(at - 1) : u \in Thread
    BY DEF SetInv, SetTyped, HandlesJoined, HandlesInOrder, Thread
  <2> QED BY <1>1, <1>2, <2>1 DEF SetInv, HandlesJoined
<1>8. NoThreadOutlivesSet'
  BY <1>1, <1>2 DEF SetInv, NoThreadOutlivesSet
<1> QED BY <1>4, <1>5, <1>6, <1>7, <1>8 DEF SetInv

LEMMA SetInvStep == SetInv /\ [SetNext]_setVars => SetInv'
<1> SUFFICES ASSUME SetInv, [SetNext]_setVars PROVE SetInv'
  OBVIOUS
<1>1. CASE SetMainStep
  BY <1>1, StartKeepsInv, GrowthFailsKeepsInv, MainKeepsInv, JoinNextKeepsInv, ClearKeepsInv DEF SetMainStep
<1>2. CASE \E w \in Thread : main # "terminated" /\ ThreadStep(w)
  BY <1>2, CountdownKeepsInv, PassesKeepsInv DEF ThreadStep
<1>3. CASE UNCHANGED setVars
  BY <1>3 DEF setVars, client, SetInv, SetTyped, LatchExact, Pending, HandlesInOrder, HandlesJoined,
              RoomReserved, NoThreadOutlivesSet
<1> QED BY <1>1, <1>2, <1>3 DEF SetNext, Stop

-----------------------------------------------------------------------------
(* Theorems *)

\* Whatever the interleaving and whichever start fails, the members of the latch and of the
\* thread_set stay well typed, the latch counts what is still to be counted down, and main
\* does not leave, nor the program end unless more threads than reserved are started, while
\* a started worker can still refer to the latch.
THEOREM ThreadSetSafety == SetSpec => [](SetTyped /\ LatchExact /\ NoThreadOutlivesSet)
BY SetInvInit, SetInvStep, PTL DEF SetSpec, SetInv

\* Nobody, main or worker, gets through latch::wait before every worker has counted down.
THEOREM LatchHolds == SetSpec => NonePassesEarly
<1>1. SetInv /\ [SetNext]_setVars => [NoneEarly]_setVars
  <2> SUFFICES ASSUME SetInv, MainPasses \/ \E w \in Thread : WorkerPasses(w)
               PROVE  \A w \in Thread : worker[w] \notin {"absent", "started"}
    BY DEF NoneEarly
  <2>1. IsReady
    BY DEF MainPasses, WorkerPasses
  <2> QED BY <2>1, ReadyIsDone DEF SetInv, Pending
<1> QED BY <1>1, SetInvInit, SetInvStep, PTL DEF SetSpec, NonePassesEarly

-----------------------------------------------------------------------------
(* What is proved of the two holds in a program that has either. *)

\* The program takes the steps of the watcher and its workers, or those of the threads that
\* the latch and the set are for, and no other: the theorems above are about it.
THEOREM ProgramImplements == FairProgram => Spec /\ SetSpec
<1>1. ProgramInit => Init /\ SetInit
  BY DEF ProgramInit
<1>2. [ProgramNext]_programVars => [Next]_vars
  BY DEF ProgramNext, Watching, Joining, programVars
<1>3. [ProgramNext]_programVars => [SetNext]_setVars
  BY DEF ProgramNext, Watching, Joining, programVars
<1> QED
  BY <1>1, <1>2, <1>3, PTL DEF FairProgram, Spec, SetSpec
=============================================================================
