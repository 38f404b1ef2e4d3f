---------------------------- MODULE PriorityQueue ----------------------------
(***************************************************************************)
(* What priority_set promises: a queue of distinct keys ordered by         *)
(* priority, where a key that is given a priority goes behind the keys     *)
(* that have the same one.                                                 *)
(***************************************************************************)
EXTENDS Naturals, SequencesExt

CONSTANTS Key, Priority

VARIABLE queue  \* of records of a key and its priority

Keys == {queue[i].key : i \in DOMAIN queue}

Without(k) ==
  IF k \in Keys THEN RemoveAt(queue, CHOOSE i \in DOMAIN queue : queue[i].key = k) ELSE queue

Inserted(q, k, p) ==
  LET upto == Cardinality({i \in DOMAIN q : q[i].priority <= p})
  IN  InsertAt(q, upto + 1, [key |-> k, priority |-> p])

Holds(k, p) == \E i \in DOMAIN queue : queue[i] = [key |-> k, priority |-> p]

Init == queue = <<>>

Insert(k, p) == queue' = IF Holds(k, p) THEN queue ELSE Inserted(Without(k), k, p)

Update(k, p) == k \in Keys /\ Insert(k, p)

Erase(k) == queue' = Without(k)

PopFront == queue # <<>> /\ queue' = Tail(queue)

PopBack == queue # <<>> /\ queue' = Front(queue)

Clear == queue' = <<>>

\* A call that changes nothing is a step as well.
Next ==
  \/ \E k \in Key : Erase(k) \/ \E p \in Priority : Insert(k, p) \/ Update(k, p)
  \/ PopFront \/ PopBack \/ Clear
  \/ UNCHANGED queue

Spec == Init /\ [][Next]_queue
=============================================================================
