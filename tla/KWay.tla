-------------------------------- MODULE KWay --------------------------------
(***************************************************************************)
(* kway_merge, kway_union and kway_intersect of                            *)
(* src/stlext/algorithm/ext with std::less: the heads of all ranges are    *)
(* kept in a queue, a small one sorted again after each turn, a larger one *)
(* a heap.  One call, a step for each turn of its loop.  The sorts of      *)
(* small ranges of kway_utility.hpp come first.                            *)
(***************************************************************************)
EXTENDS Integers, Sequences, FiniteSetsExt, SequencesExt

CONSTANTS
  Inputs, \* the sequences of sorted ranges to be called with
  Small   \* how many ranges are too many for the small version: 10

VARIABLES
  op,     \* which of the three functions is called
  inputs, \* its argument
  pc,     \* "start", "loop" or "done"
  queue,  \* the entries, each a range and a position in it
  out     \* what has been written

vars == <<op, inputs, pc, queue, out>>

-----------------------------------------------------------------------------
(* Sorting of at most five elements by a fixed tree of comparisons and swaps, *)
(* of records by their keys                                                   *)

Before(a, b) == a.key < b.key

Swap(q, i, j) == [q EXCEPT ![i] = q[j], ![j] = q[i]]

\* __sort3
Sort3(q) ==
  IF ~Before(q[2], q[1])
  THEN IF ~Before(q[3], q[2]) THEN q
       ELSE LET r == Swap(q, 2, 3) IN IF Before(r[2], r[1]) THEN Swap(r, 1, 2) ELSE r
  ELSE IF Before(q[3], q[2]) THEN Swap(q, 1, 3)
  ELSE LET r == Swap(q, 1, 2) IN IF Before(r[3], r[2]) THEN Swap(r, 2, 3) ELSE r

\* The swaps with which __sort4 and __sort5 bring their last element down to its
\* place.
Sink(q, k) ==
  LET p == Min({i \in 1..k : \A j \in i..(k - 1) : Before(q[k], q[j])}) IN
  SubSeq(q, 1, p - 1) \o <<q[k]>> \o SubSeq(q, p, k - 1) \o SubSeq(q, k + 1, Len(q))

\* __small_sort; more than five elements go to std::sort, which is not modelled.
SmallSorted(q) ==
  CASE Len(q) < 2 -> q
    [] Len(q) = 2 -> IF Before(q[2], q[1]) THEN Swap(q, 1, 2) ELSE q
    [] Len(q) = 3 -> Sort3(q)
    [] Len(q) = 4 -> Sink(Sort3(q), 4)
    [] Len(q) = 5 -> Sink(Sink(Sort3(q), 4), 5)

-----------------------------------------------------------------------------
(* The queue of the heads *)

Data(e) == inputs[e.of][e.at]             \* *e
Live(e) == e.at <= Len(inputs[e.of])      \* operator bool
Advance(e) == [e EXCEPT !.at = @ + 1]     \* ++e

\* entry::operator<, with the mirrored comparator: the least comes last.
Keyed(q) == [i \in DOMAIN q |-> [key |-> -Data(q[i]), entry |-> q[i]]]

NonEmpty == {i \in DOMAIN inputs : inputs[i] # <<>>}

\* kway_intersect counts the ranges that are not empty, the others all of them.
IsSmall == (IF op = "intersect" THEN Cardinality(NonEmpty) ELSE Len(inputs)) < Small

\* The queue after utility::__small_sort; a heap has no order that matters.
Arranged(q) ==
  LET sorted == SmallSorted(Keyed(q)) IN
  IF IsSmall THEN [i \in DOMAIN q |-> sorted[i].entry] ELSE q

\* The places that the top of the queue may be at: with equals in a heap, any.
Top(q) ==
  IF IsSmall THEN {Len(q)}
  ELSE {i \in DOMAIN q : \A j \in DOMAIN q : Data(q[i]) <= Data(q[j])}

Entries ==
  LET e == [i \in DOMAIN inputs |-> [of |-> i, at |-> 1]] IN
  SelectSeq(e, LAMBDA x : x.of \in NonEmpty)

\* empty || comp(cached, x)
Fresh(x) == out = <<>> \/ Last(out) < x

-----------------------------------------------------------------------------
Init ==
  /\ op \in {"merge", "union", "intersect"}
  /\ inputs \in Inputs
  /\ pc = "start" /\ queue = <<>> /\ out = <<>>

\* The functions for small numbers of ranges copy a single one, and leave two to
\* std::merge.
Copied == IsSmall /\ Len(inputs) = 1 /\ op \in {"merge", "union"}
Merged == IsSmall /\ Len(inputs) = 2 /\ op = "merge"

Start ==
  /\ pc = "start"
  /\ IF Copied \/ Merged
     THEN /\ out' = SortSeq(FlattenSeq(inputs), <)
          /\ pc' = "done" /\ UNCHANGED queue
     ELSE /\ pc' = IF op = "intersect" /\ Cardinality(NonEmpty) < 2 THEN "done" ELSE "loop"
          /\ queue' = Arranged(Entries)
          /\ UNCHANGED out
  /\ UNCHANGED <<op, inputs>>

Write(x) ==
  out' = IF op = "merge" \/ Fresh(x) THEN Append(out, x) ELSE out

\* One turn of kway_merge and kway_union.
Turn ==
  /\ pc = "loop" /\ op # "intersect"
  /\ queue # <<>>
  /\ \E i \in Top(queue) :
       LET e == Advance(queue[i])
           rest == RemoveAt(queue, i) IN
       /\ Write(Data(queue[i]))
       /\ queue' = Arranged(IF Live(e) THEN Append(rest, e) ELSE rest)
  /\ UNCHANGED <<op, inputs, pc>>

TurnsOver ==
  /\ pc = "loop" /\ op # "intersect" /\ queue = <<>>
  /\ pc' = "done"
  /\ UNCHANGED <<op, inputs, queue, out>>

\* A slip: the other ranges move by one element.
SkippedOne(e, x) == Advance(e)

\* The loop that moves a range past everything that is not greater than x.
Skipped(e, x) ==
  [e EXCEPT !.at = Min({i \in e.at..(Len(inputs[e.of]) + 1) :
                          i > Len(inputs[e.of]) \/ x < inputs[e.of][i]})]

\* One turn of kway_intersect: if all heads equal the least one it is written;
\* then every range is moved past it, except that the one it came from moves by
\* one.  The first range to be exhausted ends the loop.
IntersectTurn ==
  /\ pc = "loop" /\ op = "intersect"
  /\ \E i \in Top(queue) :
       LET x == Data(queue[i])
           after == [j \in DOMAIN queue |->
                       IF j = i THEN Advance(queue[j]) ELSE Skipped(queue[j], x)] IN
       /\ IF \A j \in DOMAIN queue : Data(queue[j]) = x THEN Write(x) ELSE UNCHANGED out
       /\ IF \E j \in DOMAIN queue : ~Live(after[j])
          THEN pc' = "done" /\ queue' = <<>>
          ELSE queue' = Arranged(after) /\ UNCHANGED pc
  /\ UNCHANGED <<op, inputs>>

Next == Start \/ Turn \/ TurnsOver \/ IntersectTurn

\* A call runs to its end.
Spec == Init /\ [][Next]_vars /\ WF_vars(Next)

-----------------------------------------------------------------------------
(* Properties *)

Values(i) == ToSet(inputs[i])

Count(s, x) == Cardinality({i \in DOMAIN s : s[i] = x})

\* Ranges in the queue are not exhausted, and each is there once.
QueueLive ==
  /\ \A i \in DOMAIN queue : queue[i].of \in NonEmpty /\ Live(queue[i])
  /\ \A i, j \in DOMAIN queue : i # j => queue[i].of # queue[j].of

\* A merge writes every element of every range, in order.
MergeExact ==
  pc = "done" /\ op = "merge" =>
    /\ \A i \in 1..(Len(out) - 1) : out[i] <= out[i + 1]
    /\ \A x \in ToSet(FlattenSeq(inputs)) \union ToSet(out) :
         Count(out, x) = Count(FlattenSeq(inputs), x)

Increasing == \A i \in 1..(Len(out) - 1) : out[i] < out[i + 1]

\* A union writes the elements of any range, in order, and each once; except that a single
\* range is copied, with what it has several times (kway_union.hpp:124).
UnionExact ==
  pc = "done" /\ op = "union" =>
    /\ ToSet(out) = UNION {Values(i) : i \in NonEmpty}
    /\ \A i \in 1..(Len(out) - 1) : out[i] <= out[i + 1]
    /\ ~Copied => Increasing

\* An intersection writes the elements that all ranges with elements have, each
\* once and in order, although it stops at the first range that ends.
IntersectExact ==
  pc = "done" /\ op = "intersect" =>
    /\ Increasing
    /\ ToSet(out) = IF Cardinality(NonEmpty) < 2 THEN {}
                    ELSE {x \in UNION {Values(i) : i \in NonEmpty} :
                            \A i \in NonEmpty : x \in Values(i)}

\* Every call returns.
CallEnds == <>(pc = "done")
=============================================================================
