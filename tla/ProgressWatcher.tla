--------------------------- MODULE ProgressWatcher ---------------------------
(***************************************************************************)
(* basic_progress_watcher of src/stlext/cui/progress_watcher.hpp, used the *)
(* way src/examples/cui/cui_samples.h uses it: the main thread launches    *)
(* workers with std::async, watches them and joins them.  A worker         *)
(* attaches, publishes how many items it has processed in a counter of its *)
(* own, and detaches; the main thread polls the number of attached workers *)
(* and adds the counters up, one by one, without any lock.                 *)
(*                                                                         *)
(* The counters are plain integers read while they are written; as every   *)
(* build for a 64-bit machine does, a read returns the old or the new      *)
(* value.  The sleeps order nothing and are left out.                      *)
(***************************************************************************)
EXTENDS Integers, FiniteSetsExt

CONSTANTS
  Upper,  \* the items of the problem (10000)
  Cores,  \* nthreads, one less than hardware_concurrency()
  Stride  \* progress is published at the items divisible by Stride (16)

ASSUME UpperAssumption  == Upper \in Nat
ASSUME CoresAssumption  == Cores \in Nat \ {0}
ASSUME StrideAssumption == Stride \in Nat \ {0}

ChunkSize == Upper \div Cores

\* One worker for each core, and one more for the remainder.
NThreads == IF Upper % Cores = 0 THEN Cores ELSE Cores + 1

Worker == 0..(NThreads - 1)

FirstItem(w) == w * ChunkSize

LastItem(w) == IF w < Cores THEN (w + 1) * ChunkSize ELSE Upper

\* The number of items of each worker.
Chunk == [w \in Worker |-> LastItem(w) - FirstItem(w)]

VARIABLES
  nactive,  \* __m_nactive
  counters, \* __m_counters
  state,    \* where each worker is
  done,     \* items each worker has processed
  pc,       \* where the main thread is
  idx,      \* the worker its launch, collection or join is about
  sum,      \* what collect() has added up so far
  shown     \* the value last passed to the viewer

workerVars == <<nactive, counters, state, done>>
mainVars   == <<pc, idx, sum, shown>>
vars       == <<workerVars, mainVars>>

Total(f) == MapThenSumSet(LAMBDA w : f[w], Worker)

-----------------------------------------------------------------------------
Init ==
  /\ nactive = 0
  /\ counters = [w \in Worker |-> 0]
  /\ state = [w \in Worker |-> "absent"]
  /\ done = [w \in Worker |-> 0]
  /\ pc = "launch"
  /\ idx = 0
  /\ sum = 0
  /\ shown = 0

Moves(w, from, to) == state[w] = from /\ state' = [state EXCEPT ![w] = to]

-----------------------------------------------------------------------------
(* A worker *)

\* A slip: the number of attached workers is not counted up.
AttachUncounted(w) ==
  /\ Moves(w, "started", "attached")
  /\ UNCHANGED <<nactive, counters, done, mainVars>>

Attach(w) ==
  /\ Moves(w, "started", "attached")
  /\ nactive' = nactive + 1
  /\ UNCHANGED <<counters, done, mainVars>>

\* An iteration: progress is published now and then, and an item processed.
Process(w) ==
  /\ state[w] = "attached"
  /\ done[w] < Chunk[w]
  /\ counters' = IF (FirstItem(w) + done[w]) % Stride = 0
                 THEN [counters EXCEPT ![w] = done[w]] ELSE counters
  /\ done' = [done EXCEPT ![w] = @ + 1]
  /\ UNCHANGED <<nactive, state, mainVars>>

\* A slip: the worker clears its counter when its chunk is done.
PublishCleared(w) ==
  /\ done[w] = Chunk[w]
  /\ Moves(w, "attached", "published")
  /\ counters' = [counters EXCEPT ![w] = 0]
  /\ UNCHANGED <<nactive, done, mainVars>>

Publish(w) ==
  /\ done[w] = Chunk[w]
  /\ Moves(w, "attached", "published")
  /\ counters' = [counters EXCEPT ![w] = done[w]]
  /\ UNCHANGED <<nactive, done, mainVars>>

\* A slip: the worker returns without detaching.
DetachForgotten(w) ==
  /\ Moves(w, "published", "returned")
  /\ UNCHANGED <<nactive, counters, done, mainVars>>

\* The last thing a worker does before it returns.
Detach(w) ==
  /\ Moves(w, "published", "returned")
  /\ nactive' = nactive - 1
  /\ UNCHANGED <<counters, done, mainVars>>

WorkerStep(w) == Attach(w) \/ Process(w) \/ Publish(w) \/ Detach(w)

-----------------------------------------------------------------------------
(* The main thread *)

Goto(to) == pc' = to /\ idx' = 0

Launch ==
  /\ pc = "launch"
  /\ Moves(idx, "absent", "started")
  /\ IF idx + 1 = NThreads THEN Goto("check") ELSE pc' = pc /\ idx' = idx + 1
  /\ UNCHANGED <<nactive, counters, done, sum, shown>>

\* std::async throws: the futures launched so far are destroyed, and the
\* destructor of each waits for its worker.
LaunchFails ==
  /\ pc = "launch"
  /\ Goto("join")
  /\ UNCHANGED <<workerVars, sum, shown>>

\* A slip: collect() goes on with the sum of the last time.
CheckKeepingSum ==
  /\ pc = "check"
  /\ Goto(IF nactive > 0 THEN "collect" ELSE "final")
  /\ UNCHANGED <<workerVars, sum, shown>>

\* The loop condition of operator().
Check ==
  /\ pc = "check"
  /\ Goto(IF nactive > 0 THEN "collect" ELSE "final")
  /\ sum' = 0
  /\ UNCHANGED <<workerVars, shown>>

\* One step of the std::accumulate of collect().
Collect ==
  /\ pc \in {"collect", "final"}
  /\ idx < NThreads
  /\ sum' = sum + counters[idx]
  /\ idx' = idx + 1
  /\ UNCHANGED <<workerVars, pc, shown>>

\* The sum is handed to the viewer; the last one is shown after the loop.
Show ==
  /\ pc \in {"collect", "final"}
  /\ idx = NThreads
  /\ shown' = sum
  /\ Goto(IF pc = "collect" THEN "check" ELSE "join")
  /\ UNCHANGED <<workerVars, sum>>

\* A slip: the last future is not waited for.
JoinAllButLast ==
  /\ pc = "join"
  /\ idx + 1 < NThreads => state[idx] \in {"returned", "absent"}
  /\ IF idx + 1 = NThreads THEN Goto("over") ELSE pc' = pc /\ idx' = idx + 1
  /\ UNCHANGED <<workerVars, sum, shown>>

\* get() or the destructor of a future blocks until its worker has returned; a
\* worker that was never launched has none.
Join ==
  /\ pc = "join"
  /\ state[idx] \in {"returned", "absent"}
  /\ IF idx + 1 = NThreads THEN Goto("over") ELSE pc' = pc /\ idx' = idx + 1
  /\ UNCHANGED <<workerVars, sum, shown>>

MainStep == Launch \/ LaunchFails \/ Check \/ Collect \/ Show \/ Join

Over == pc = "over" /\ UNCHANGED vars

Next == MainStep \/ (\E w \in Worker : WorkerStep(w)) \/ Over

Spec == Init /\ [][Next]_vars

-----------------------------------------------------------------------------
(* Properties *)

\* Type correctness of the watcher's members and of the threads' positions
\* (the members of basic_progress_watcher and the locals of the example).
TypeOK ==
  /\ nactive \in 0..NThreads
  /\ counters \in [Worker -> Nat]
  /\ state \in [Worker -> {"absent", "started", "attached", "published", "returned"}]
  /\ done \in [Worker -> Nat]
  /\ pc \in {"launch", "check", "collect", "final", "join", "over"}
  /\ idx \in 0..NThreads
  /\ sum \in Nat
  /\ shown \in Nat

\* The watcher lives on the main thread's stack and the workers hold it by
\* reference: the function is not left before every launched worker is done
\* with it, also when a launch fails half-way.
WatcherOutlivesWorkers ==
  pc = "over" => \A w \in Worker : state[w] \in {"returned", "absent"}

\* Progress shown never exceeds the work done, although the counters are added
\* up one by one while they change; the work done never exceeds the problem,
\* beyond whose size the viewer would ignore the report.
ReportsHonest == shown <= Total(done) /\ Total(done) <= Upper

\* Progress shown never goes back from one report to the next.
ReportsMonotone == [][shown' >= shown]_vars

\* When the loop of operator() ends after every worker has attached, all the
\* work is done and published, so that the last report shows all of it.
LoopEndMeansDone ==
  [][Check /\ pc' = "final" /\ (\A w \in Worker : state[w] # "started")
       => counters = Chunk]_vars

\* The watching loop and the joins come to an end: std::async launches each worker with a
\* thread of its own, and every thread is scheduled again and again.
WatchingEnds == <>(pc = "over")

=============================================================================
