------------------------------- MODULE Threads -------------------------------
(***************************************************************************)
(* latch of src/stlext/threads/latch.hpp and thread_set of                 *)
(* src/stlext/threads/thread_set.hpp, in the use they are made for: a main *)
(* thread owns a latch and, declared after it, a thread_set; it starts a   *)
(* worker for each task, waits for the latch, joins the set and leaves.    *)
(* Every worker counts the latch down once; at a barrier it then waits for *)
(* the others at the latch before it returns.                              *)
(*                                                                         *)
(* Starting a thread may fail, and so may growing the vector of threads,   *)
(* after the thread to be stored in it has been started.                   *)
(*                                                                         *)
(* The specification at the end is of a program that has either these or   *)
(* the watcher of ProgressWatcher; what it does not have stays as it is.   *)
(***************************************************************************)
EXTENDS ProgressWatcher, Sequences, SequencesExt

CONSTANTS
  Tasks,    \* how many workers main wants
  Amounts,  \* by which workers count down
  Reserve,  \* hardware_concurrency(), which may be 0
  Modulus   \* 2^32: the latch counts in an atomic unsigned int

ASSUME TasksAssumption   == Tasks \in Nat \ {0}
ASSUME AmountsAssumption == Amounts \subseteq Nat \ {0}
ASSUME ReserveAssumption == Reserve \in Nat

ASSUME ModulusAssumption == Modulus \in Nat /\ \A a \in Amounts : Modulus > Tasks * a

Thread == 1..Tasks

VARIABLES
  count,     \* __m_count
  threads,   \* __m_threads: the workers whose handles the vector holds
  capacity,  \* of the vector
  worker,    \* where each worker is
  main,      \* where main is
  at,        \* the handle join() is about
  failed,    \* has a start failed?
  share,     \* the amount by which each worker counts down
  barrier    \* do the workers wait at the latch as well?

client  == <<share, barrier>>
setVars == <<count, threads, capacity, worker, main, at, failed, client>>

Sum(W) == MapThenSumSet(LAMBDA w : share[w], W)

\* latch(n): the client announces what its workers will count down.
Announced == Sum(Thread)

-----------------------------------------------------------------------------
SetInit ==
  /\ share \in [Thread -> Amounts] /\ barrier \in BOOLEAN
  /\ count = Announced
  /\ threads = <<>>
  /\ capacity = Reserve
  /\ worker = [w \in Thread |-> "absent"]
  /\ main = "start"
  /\ at = 1
  /\ failed = FALSE

NextWorker == Len(threads) + 1

\* emplace_back(thread(target)): the thread runs before the vector has room.
Started == worker' = [worker EXCEPT ![NextWorker] = "started"]

Emplace ==
  /\ Started
  /\ threads' = Append(threads, NextWorker)
  /\ capacity' = IF Len(threads) < capacity THEN capacity
                 ELSE IF capacity = 0 THEN 1 ELSE 2 * capacity
  /\ main' = IF NextWorker = Tasks THEN "wait" ELSE "start"
  /\ UNCHANGED <<count, at, failed, client>>

Start == main = "start" /\ Emplace

\* The constructor of std::thread throws; main is unwound, and ~thread_set()
\* joins the threads that were started before.
StartFails ==
  /\ main = "start"
  /\ main' = "join"
  /\ failed' = TRUE
  /\ UNCHANGED <<count, threads, capacity, worker, at, client>>

\* The vector cannot grow: the temporary std::thread is destroyed while it is
\* joinable, which calls std::terminate.
GrowthFails ==
  /\ main = "start"
  /\ Len(threads) = capacity
  /\ Started
  /\ main' = "terminated"
  /\ UNCHANGED <<count, threads, capacity, at, failed, client>>

-----------------------------------------------------------------------------
(* The latch *)

\* A slip: countdown(n) takes one off whatever n is.
CountdownOne(w) ==
  /\ worker[w] = "started"
  /\ count' = (count + Modulus - 1) % Modulus
  /\ worker' = [worker EXCEPT ![w] = IF barrier THEN "waiting" ELSE "returned"]
  /\ UNCHANGED <<threads, capacity, main, at, failed, client>>

\* A slip: the last unit is counted down by whoever finds it.
CountdownAhead(w) ==
  /\ worker[w] = "started"
  /\ count' = IF count - share[w] = 1 THEN 0 ELSE (count + Modulus - share[w]) % Modulus
  /\ worker' = [worker EXCEPT ![w] = IF barrier THEN "waiting" ELSE "returned"]
  /\ UNCHANGED <<threads, capacity, main, at, failed, client>>

Countdown(w) ==
  /\ worker[w] = "started"
  /\ count' = (count + Modulus - share[w]) % Modulus
  /\ worker' = [worker EXCEPT ![w] = IF barrier THEN "waiting" ELSE "returned"]
  /\ UNCHANGED <<threads, capacity, main, at, failed, client>>

IsReady == count = 0

\* The poll of wait() that finds zero; one that does not changes nothing.
WorkerPasses(w) ==
  /\ worker[w] = "waiting"
  /\ IsReady
  /\ worker' = [worker EXCEPT ![w] = "returned"]
  /\ UNCHANGED <<count, threads, capacity, main, at, failed, client>>

MainPasses ==
  /\ main = "wait"
  /\ IsReady
  /\ main' = "join"
  /\ UNCHANGED <<count, threads, capacity, worker, at, failed, client>>

-----------------------------------------------------------------------------
(* join(), called by main and by ~thread_set() *)

JoinNext ==
  /\ main = "join"
  /\ at <= Len(threads)
  /\ worker[threads[at]] = "returned"
  /\ at' = at + 1
  /\ UNCHANGED <<count, threads, capacity, worker, main, failed, client>>

\* A slip: the vector is cleared without a join, which destroys joinable threads.
ClearAtOnce ==
  /\ main = "join"
  /\ threads' = <<>>
  /\ at' = 1
  /\ main' = "over"
  /\ UNCHANGED <<count, capacity, worker, failed, client>>

\* The set is empty; ~thread_set() finds nothing more to join, and the latch
\* goes after the set.
Clear ==
  /\ main = "join"
  /\ at = Len(threads) + 1
  /\ threads' = <<>>
  /\ at' = 1
  /\ main' = "over"
  /\ UNCHANGED <<count, capacity, worker, failed, client>>

-----------------------------------------------------------------------------
SetMainStep == Start \/ StartFails \/ GrowthFails \/ MainPasses \/ JoinNext \/ Clear

ThreadStep(w) == Countdown(w) \/ WorkerPasses(w)

Stranded == failed /\ \E w \in Thread : worker[w] = "waiting"

Polling == main = "wait" \/ \E w \in Thread : worker[w] = "waiting"

\* An unsuccessful poll, which yields, or the end.
Stop == (main \in {"over", "terminated"} \/ (Polling /\ ~IsReady)) /\ UNCHANGED setVars

\* After std::terminate no thread runs.
SetNext ==
  \/ SetMainStep
  \/ \E w \in Thread : main # "terminated" /\ ThreadStep(w)
  \/ Stop

SetSpec == SetInit /\ [][SetNext]_setVars

-----------------------------------------------------------------------------
(* A program with one of the two *)

VARIABLE used

programVars == <<used, vars, setVars>>

ProgramInit ==
  /\ Init /\ SetInit
  /\ \/ used = "set"
     \/ used = "watcher" /\ ~barrier /\ share = [w \in Thread |-> CHOOSE a \in Amounts : TRUE]

Watching(step) == used = "watcher" /\ step /\ UNCHANGED <<used, setVars>>
Joining(step)  == used = "set" /\ step /\ UNCHANGED <<used, vars>>

ProgramNext == Watching(Next) \/ Joining(SetNext)

\* The scheduler runs every thread again and again; polls yield.
FairProgram ==
  /\ ProgramInit /\ [][ProgramNext]_programVars
  /\ WF_programVars(Watching(MainStep))
  /\ \A w \in Worker : WF_programVars(Watching(WorkerStep(w)))
  /\ WF_programVars(Joining(SetMainStep))
  /\ \A w \in Thread : WF_programVars(Joining(main # "terminated" /\ ThreadStep(w)))

-----------------------------------------------------------------------------
(* Properties *)

\* latch::wait lets no one through, main or worker, before every task has
\* counted down, also when only some of the workers were started.
NoneEarly ==
  (MainPasses \/ \E w \in Thread : WorkerPasses(w)) => \A w \in Thread : worker[w] \notin {"absent", "started"}

NonePassesEarly == [][NoneEarly]_setVars

\* A worker refers to the latch on main's stack: main does not leave, by return
\* or by exception, while a worker that was started has not returned; and the program is
\* not terminated under them, unless more threads are started than the machine has
\* processors: that is what the constructor's reserve() is for.
NoThreadOutlivesSet ==
  /\ main = "over" => \A w \in Thread : worker[w] \in {"absent", "returned"}
  /\ main = "terminated" => Len(threads) >= Reserve

\* Main ends: always where the workers only count down; at a barrier unless a failed
\* start leaves workers waiting there for those that never came, which ~thread_set() then
\* joins for ever.
MainEnds == used = "set" => <>(main \in {"over", "terminated"} \/ (barrier /\ Stranded))

\* The watching loop of progress_watcher and the joins after it come to an end.
WatcherEnds == used = "watcher" => WatchingEnds

=============================================================================
