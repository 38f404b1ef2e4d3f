---------------------------- MODULE CountingSort ----------------------------
(***************************************************************************)
(* counting_sort of src/stlext/algorithm/sorting/counting_sort.hpp: by a   *)
(* projection, in place, by cycles of swaps that a histogram directs; and  *)
(* of integers, which are written anew from the histogram.  And            *)
(* bucket_sort of bucket_sort.hpp for integers, where a bucket is a heap.  *)
(*                                                                         *)
(* Left out: bucket_sort of integers that are all equal, which divides by  *)
(* zero.                                                                   *)
(***************************************************************************)
EXTENDS Integers, Sequences, FiniteSetsExt, SequencesExt

CONSTANTS
  Key,       \* the projections of elements
  MaxLength  \* the bound on the length of the range

VARIABLES
  input,  \* the range as it was: each element a key and where it was
  sort,   \* "by key", the version with a projection, "integers" or "buckets"
  data,   \* the range
  count,  \* counter_buffer, or the places of the input whose elements are in each bucket
  i,      \* the place to be filled next, from the last one down, or from the first one up
  pc

vars == <<input, sort, data, count, i, pc>>

Place == 0..(Len(input) - 1)
KeyAt(p) == data[p].key
Minimum == Min({input[p].key : p \in DOMAIN input})
Maximum == Max({input[p].key : p \in DOMAIN input})

\* The size of the histogram: the one for places has a leading zero.
Buckets == (Maximum - Minimum) + (IF sort = "by key" THEN 2 ELSE 1)

Occurrences(v) == Cardinality({p \in DOMAIN input : input[p].key - Minimum = v})

\* The histogram after partial_sum: where the elements of each key begin.
Starts == [v \in 0..(Buckets - 1) |-> MapThenSumSet(Occurrences, 0..(v - 1))]

Histogram == [v \in 0..(Buckets - 1) |-> Occurrences(v)]

Sorted(d) == \A p, q \in Place : p < q => d[p].key <= d[q].key

Elements(d) == {d[p] : p \in Place}

-----------------------------------------------------------------------------
Init ==
  /\ \E keys \in SeqOf(Key, MaxLength) :
       input = [p \in DOMAIN keys |-> [key |-> keys[p], from |-> p]]
  /\ sort \in {"by key", "integers", "buckets"}
  /\ sort = "buckets" => Cardinality({input[p].key : p \in DOMAIN input}) # 1
  /\ data = [p \in Place |-> input[p + 1]]
  /\ count = <<>> /\ i = Len(input) - 1 /\ pc = "start"

\* With fewer elements than buckets std::sort does it, which may leave equal
\* elements in any order.
Start ==
  /\ pc = "start"
  /\ IF input = <<>>
     THEN pc' = "done" /\ UNCHANGED <<data, count>>
     ELSE IF sort = "buckets" THEN pc' = "scatter" /\ UNCHANGED <<data, count>>
     ELSE IF Buckets >= Len(input)
     THEN /\ pc' = "done" /\ UNCHANGED count
          /\ LET order == SortSeq(input, LAMBDA x, y : x.key < y.key) IN
             data' = [p \in Place |-> order[p + 1]]
     ELSE /\ pc' = IF sort = "by key" THEN "move" ELSE "fill"
          /\ count' = IF sort = "by key" THEN Starts ELSE Histogram
          /\ UNCHANGED data
  /\ UNCHANGED <<input, sort, i>>

\* The version for integers: every key as often as it was counted.
Fill ==
  /\ pc = "fill"
  /\ data' = [p \in Place |->
                [key |-> Minimum + Min({v \in DOMAIN count : p < MapThenSumSet(LAMBDA w : count[w], 0..v)}),
                 from |-> 0]]
  /\ pc' = "done"
  /\ UNCHANGED <<input, sort, count, i>>

Target(p) == count[KeyAt(p) - Minimum]

\* The place is filled already, or its element has to go down: then a cycle begins.
Move ==
  /\ pc = "move"
  /\ IF i < 0 THEN pc' = "done" /\ UNCHANGED i
     ELSE IF Target(i) < i THEN pc' = "cycle" /\ UNCHANGED i
     ELSE i' = i - 1 /\ UNCHANGED pc
  /\ UNCHANGED <<input, sort, data, count>>

\* A slip: the place that was filled is not counted.
CycleUncounted ==
  /\ pc = "cycle"
  /\ IF Target(i) < i
     THEN /\ data' = [data EXCEPT ![i] = data[Target(i)], ![Target(i)] = data[i]]
          /\ UNCHANGED <<i, pc, count>>
     ELSE /\ data' = [data EXCEPT ![i] = data[Target(i)]]
          /\ i' = i - 1 /\ pc' = "move" /\ UNCHANGED count
  /\ UNCHANGED <<input, sort>>

\* One turn of the loop that swaps the element at i to its place, or the copy
\* after the loop.
Cycle ==
  /\ pc = "cycle"
  /\ IF Target(i) < i
     THEN /\ data' = [data EXCEPT ![i] = data[Target(i)], ![Target(i)] = data[i]]
          /\ count' = [count EXCEPT ![KeyAt(i) - Minimum] = @ + 1]
          /\ UNCHANGED <<i, pc>>
     ELSE /\ data' = [data EXCEPT ![i] = data[Target(i)]]
          /\ i' = i - 1 /\ pc' = "move" /\ UNCHANGED count
  /\ UNCHANGED <<input, sort>>

\* bucketizer<int>: with one bucket more than elements.
Bucket(key) == ((key - Minimum) * Len(input)) \div (Maximum - Minimum)

\* The loop that puts the elements into their buckets.
Scatter ==
  /\ pc = "scatter"
  /\ count' = [b \in 0..Len(input) |-> {p \in DOMAIN input : Bucket(input[p].key) = b}]
  /\ i' = 0 /\ pc' = "gather"
  /\ UNCHANGED <<input, sort, data>>

\* One turn of the loops that take the least element from the first bucket that has one.
Gather ==
  /\ pc = "gather"
  /\ LET filled == {b \in DOMAIN count : count[b] # {}} IN
     IF filled = {} THEN pc' = "done" /\ UNCHANGED <<data, count, i>>
     ELSE LET b   == Min(filled)
              top == CHOOSE p \in count[b] : \A q \in count[b] : input[p].key <= input[q].key IN
          /\ data' = [data EXCEPT ![i] = [key |-> input[top].key, from |-> 0]]
          /\ count' = [count EXCEPT ![b] = @ \ {top}]
          /\ i' = i + 1 /\ UNCHANGED pc
  /\ UNCHANGED <<input, sort>>

Next == Start \/ Fill \/ Move \/ Cycle \/ Scatter \/ Gather

Spec == Init /\ [][Next]_vars /\ WF_vars(Next)

-----------------------------------------------------------------------------
(* Properties *)

\* No element is lost by a swap or by the copy that ends a cycle.
NothingLost == sort = "by key" => Elements(data) = {input[p] : p \in DOMAIN input}

\* "It is guaranteed that a value is never moved twice": the places that are counted
\* as filled hold elements of their key, and keep them, as do those above i.
PlacedStay ==
  pc \in {"move", "cycle"} =>
    /\ \A v \in DOMAIN count : \A p \in Starts[v]..(count[v] - 1) : KeyAt(p) - Minimum = v
    /\ \A p, q \in Place : p < q /\ i < q => KeyAt(p) <= KeyAt(q)

\* The result is sorted and has the keys of the input: the buckets are in the order of the
\* elements they hold, whatever is between these.
SortsAll ==
  pc = "done" =>
    /\ Sorted(data)
    /\ \A v \in Key : Cardinality({p \in Place : KeyAt(p) = v})
                        = Cardinality({p \in DOMAIN input : input[p].key = v})

\* Every cycle closes.
CallEnds == <>(pc = "done")
=============================================================================
