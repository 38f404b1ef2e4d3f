------------------------------ MODULE Algorithms ------------------------------
(***************************************************************************)
(* Algorithms of src/stlext/algorithm, and the conversions of              *)
(* src/stlext/iostreams: each behaviour is one call of one of them, with   *)
(* any of the arguments up to a bound, or texts that go through a codec.   *)
(* They share variables for the range and for their local variables, under *)
(* other names; one that the algorithm in use does not have keeps its      *)
(* first value.                                                            *)
(***************************************************************************)
EXTENDS Integers, FiniteSetsExt, SequencesExt

CONSTANTS
  Gain, Loss,   \* values of elements, and values that are subtracted
  SearchLength, \* the bounds on the lengths of the ranges searched ...
  SortLength,   \* ... sorted ...
  SplitLength,  \* ... split ...
  SumLength,    \* ... summed up ...
  MergeLength,  \* ... and merged,
  MaxInputs,    \* and on how many are merged
  MaxTuple,     \* the bound on the size of a tuple that is read
  Behind,       \* the bound on how far a scan that passed the end goes on
  Byte,         \* bytes of a text that is encoded
  MaxBytes,     \* the bound on its length
  Base,         \* bases an integer is written in
  Width         \* its bits

ASSUME ValueAssumption == Gain \subseteq Nat /\ Loss \subseteq Nat
ASSUME BoundAssumption ==
  /\ {SearchLength, SortLength, SplitLength, MergeLength, MaxInputs, MaxTuple} \subseteq Nat
  /\ {SumLength, Behind} \subseteq Nat \ {0}
\* Base 8 is not implemented.
ASSUME ConversionAssumption ==
  /\ Byte \subseteq 0..255 /\ MaxBytes \in Nat
  /\ Base \subseteq (2..36) \ {8} /\ Width \in {8, 16}

VARIABLES used, op, data, End, pc, result, first, last, mid, n, m

vars == <<used, op, data, End, pc, result, first, last, mid, n, m>>

Unused == "unused"

Value == Gain \cup {-v : v \in Loss}

Ascending(S, max) == {s \in SeqOf(S, max) : \A i \in 1..(Len(s) - 1) : s[i] <= s[i + 1]}

Positive == {v \in Value : v > 0}

Inputs == SeqOf(Ascending(Positive, MergeLength), MaxInputs)

KWay     == INSTANCE KWay WITH Small <- 10, inputs <- data, queue <- first, out <- result
KWayHeap == INSTANCE KWay WITH Small <- 2, inputs <- data, queue <- first, out <- result
Counting == INSTANCE CountingSort WITH
              Key <- Positive, MaxLength <- SortLength, input <- End, sort <- op, count <- n, i <- first
Search   == INSTANCE Searching WITH
              MaxLength <- SearchLength, key <- End, method <- op, low <- first, high <- last, bound <- n
Majority == INSTANCE Majority WITH
              MaxLength <- SearchLength, Value <- Positive,
              it <- first, candidate <- mid, confidence <- n, nmatches <- m
Kadane   == INSTANCE Kadane WITH
              MaxLength <- SumLength, maximum <- op, begin <- n, endingValue <- m
Conversion == INSTANCE Conversions WITH
                kind <- op, input <- data, coder <- first, wire <- result, decoder <- last, output <- mid

\* utility::__small_sort of a sequence of entries that remember where they were.
SmallInit ==
  /\ \E keys \in SeqOf(Value, 5) : data = [i \in DOMAIN keys |-> [key |-> keys[i], from |-> i]]
  /\ result = <<>> /\ pc = "sort"

SmallNext ==
  /\ pc = "sort" /\ pc' = "done"
  /\ result' = KWay!SmallSorted(data)
  /\ UNCHANGED data

-----------------------------------------------------------------------------
(* src/stlext/algorithm/ext/split.hpp: split and split_copy, which pass every part between *)
(* delimiters on to result, and tuple_split, which reads one part after the other into op   *)
(* elements of a tuple; op is zero when the call is split.  A step is a turn of the loop,   *)
(* or one element.  A place of the range holds TRUE when it is a delimiter.                *)

SplitInit ==
  /\ End \in 0..SplitLength
  /\ data \in [0..(End - 1) -> BOOLEAN]
  /\ op \in 0..MaxTuple
  /\ first = 0 /\ result = <<>> /\ pc = "run"

\* std::find_if and std::find_if_not from a place on.  For a place behind the end the
\* library's loop for random access iterators makes no turn and returns the end.
FirstFrom(p, delimiter) ==
  Min({q \in p..End : q = End \/ data[q] = delimiter} \cup (IF p > End THEN {End} ELSE {}))

\* One turn: a part from the next place without delimiter up to the next delimiter,
\* and the cursor behind it, also when it is the end.
Turn ==
  /\ pc = "run" /\ op = 0
  /\ LET begin == FirstFrom(first, FALSE)
         it == FirstFrom(begin + 1, TRUE) IN
     IF begin = End THEN pc' = "done" /\ first' = begin /\ UNCHANGED result
     ELSE result' = Append(result, <<begin, it>>) /\ first' = it + 1 /\ UNCHANGED pc

\* __split_element when there is something to read.
Element ==
  /\ pc = "run" /\ Len(result) < op
  /\ first < End /\ FirstFrom(first, FALSE) < End
  /\ LET begin == FirstFrom(first, FALSE)
         it == FirstFrom(begin + 1, TRUE) IN
     result' = Append(result, <<begin, it>>) /\ first' = it
  /\ UNCHANGED pc

\* When only delimiters are left the first loop ends with first where it was, the
\* test that follows fails, and the second loop starts one behind the end and reads
\* on there, for as far as it takes.
ElementPast ==
  /\ pc = "run" /\ Len(result) < op
  /\ first < End /\ FirstFrom(first, FALSE) = End
  /\ \E it \in (End + 1)..(End + Behind) :
       result' = Append(result, <<first, it>>) /\ first' = it
  /\ pc' = "lost"

\* All elements are read, or the others are left as they were.
ElementsEnd ==
  /\ pc = "run" /\ op > 0
  /\ Len(result) = op \/ first = End
  /\ pc' = "done"
  /\ UNCHANGED <<first, result>>

SplitNext ==
  /\ Turn \/ Element \/ ElementPast \/ ElementsEnd
  /\ UNCHANGED <<data, End, op>>

-----------------------------------------------------------------------------
None(a, b, c, d, e) == a = Unused /\ b = Unused /\ c = Unused /\ d = Unused /\ e = Unused

Init ==
  \/ used = "small"    /\ SmallInit     /\ None(op, End, first, last, mid) /\ n = Unused /\ m = Unused
  \/ used = "kway"     /\ KWay!Init     /\ None(End, last, mid, n, m)
  \/ used = "heap"     /\ KWayHeap!Init /\ None(End, last, mid, n, m)
  \/ used = "counting" /\ Counting!Init /\ None(result, last, mid, m, m)
  \/ used = "search"   /\ Search!Init   /\ None(mid, m, m, m, m)
  \/ used = "majority" /\ Majority!Init /\ None(op, last, last, last, last)
  \/ used = "split"    /\ SplitInit     /\ None(last, mid, n, m, m)
  \/ used = "kadane"   /\ Kadane!Init   /\ pc = Unused
  \/ used = "convert"  /\ Conversion!Init /\ None(End, n, m, m, m)

Next ==
  \/ used = "small"    /\ SmallNext     /\ UNCHANGED <<used, op, End, first, last, mid, n, m>>
  \/ used = "kway"     /\ KWay!Next     /\ UNCHANGED <<used, End, last, mid, n, m>>
  \/ used = "heap"     /\ KWayHeap!Next /\ UNCHANGED <<used, End, last, mid, n, m>>
  \/ used = "counting" /\ Counting!Next /\ UNCHANGED <<used, result, last, mid, m>>
  \/ used = "search"   /\ Search!Next   /\ UNCHANGED <<used, mid, m>>
  \/ used = "majority" /\ Majority!Next /\ UNCHANGED <<used, op, last>>
  \/ used = "split"    /\ SplitNext     /\ UNCHANGED <<used, last, mid, n, m>>
  \/ used = "kadane"   /\ Kadane!Next   /\ UNCHANGED <<used, pc>>
  \/ used = "convert"  /\ Conversion!Next /\ UNCHANGED <<used, End, n, m>>

\* A call runs to its end.
Spec == Init /\ [][Next]_vars /\ WF_vars(Next)

-----------------------------------------------------------------------------
(* Properties *)

\* The small sorts sort, and stably, as their comments promise.
SortedStably ==
  pc = "done" =>
    /\ Len(result) = Len(data) /\ ToSet(result) = ToSet(data)
    /\ \A i, j \in DOMAIN result :
         i < j => \/ KWay!Before(result[i], result[j])
                  \/ result[i].key = result[j].key /\ result[i].from < result[j].from

\* The longest ranges without a delimiter.
LongestParts ==
  {r \in (0..End) \X (0..End) :
    /\ r[1] < r[2] /\ \A q \in r[1]..(r[2] - 1) : ~ data[q]
    /\ r[1] = 0 \/ data[r[1] - 1]
    /\ r[2] = End \/ data[r[2]]}

InOrder == SetToSortSeq(LongestParts, LAMBDA r, s : r[1] < s[1])

\* split passes on exactly the longest ranges without delimiters, in order, each once.
SplitExact == pc = "done" /\ op = 0 => result = InOrder

\* The tuple gets the first of them, in order, and no more than there are.
TupleExact ==
  pc = "done" /\ op > 0 =>
    result = SubSeq(InOrder, 1, Min({op, Cardinality(LongestParts)}))

\* When a call returns its answer is what the function is for, for every argument: sorted,
\* merged, united or intersected ranges, the place of a key that is there or of a majority
\* element, the parts between delimiters, a sum that no subarray exceeds, a text that reads
\* back as the integer, and the text an encoder was given.  Three functions promise more than
\* the code keeps, and the property says only what it keeps: a union of a single range has
\* its duplicates, the interpolation search returns the end for a key that is not there and
\* any of several equal elements, and the sum is that of a subarray only where nothing is
\* gained with the first element.
AnswersExact ==
  /\ used = "small"    => SortedStably
  /\ used = "kway"     => KWay!MergeExact /\ KWay!UnionExact /\ KWay!IntersectExact
  /\ used = "heap"     => KWayHeap!MergeExact /\ KWayHeap!UnionExact /\ KWayHeap!IntersectExact
  /\ used = "counting" => Counting!SortsAll
  /\ used = "search"   => Search!ExponentialExact /\ Search!InterpolationFinds
  /\ used = "majority" => Majority!MajorityExact
  /\ used = "split"    => SplitExact /\ TupleExact
  /\ used = "kadane"   => Kadane!NoneBetter
  /\ used = "convert"  => Conversion!RoundTrip /\ Conversion!ReadsBack

\* What holds at every turn of a loop: the queue of a merge has no exhausted range, a cycle
\* of counting_sort loses no element and what it has placed stays, the searches look only at
\* places of the range, the guess of majority_element satisfies the lemma of its header, the
\* places kept by kadane_range are those of the sums it compares, and no digit is written
\* outside the buffer.
LoopsKept ==
  /\ used = "kway"     => KWay!QueueLive
  /\ used = "heap"     => KWayHeap!QueueLive
  /\ used = "counting" => Counting!NothingLost /\ Counting!PlacedStay
  /\ used = "search"   => Search!StaysInRange
  /\ used = "majority" => Majority!Lemma1
  /\ used = "kadane"   => Kadane!PlacesOrdered /\ Kadane!RangesSound
  /\ used = "convert"  => Conversion!WithinRoom

\* Every call returns; only reading a tuple from a text of nothing but delimiters runs past
\* the end of it, where nothing is known.
CallsReturn ==
  <>IF used = "kadane" THEN n = End ELSE pc \in {"done", "lost"}
=============================================================================
