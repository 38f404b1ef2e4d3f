------------------------------- MODULE Kadane -------------------------------
(***************************************************************************)
(* kadane_range of src/stlext/algorithm/ext/kadane.hpp, whose first result *)
(* is also that of kadane_sum: one call on a range that is not empty, a    *)
(* step for each element.  The comparator is less, for the maximum, or     *)
(* greater, for the minimum.                                               *)
(***************************************************************************)
EXTENDS Integers, FiniteSetsExt

CONSTANTS
  Value,     \* of elements
  MaxLength  \* the bound on the length of the range

VARIABLES
  data,         \* the range, from zero on
  End,          \* its length
  maximum,      \* is the comparator less?
  begin,        \* the cursor
  result,       \* the first element of the tuple
  endingValue,
  first, last,  \* the other elements of the tuple
  mid           \* where the subarray with endingValue begins

vars == <<data, End, maximum, begin, result, endingValue, first, last, mid>>

comp(x, y) == IF maximum THEN x < y ELSE x > y

Init ==
  /\ End \in 1..MaxLength
  /\ data \in [0..(End - 1) -> Value]
  /\ maximum \in BOOLEAN
  /\ begin = 0
  /\ result = data[0] /\ endingValue = data[0]
  /\ first = 0 /\ last = End /\ mid = 0

\* The subarray that ends at the cursor goes on or begins anew.
Extend ==
  LET x == data[begin]
      extended == endingValue + x IN
  IF comp(extended, x) THEN endingValue' = x /\ mid' = begin
  ELSE endingValue' = extended /\ UNCHANGED mid

\* The turn of the loop for the element at the cursor, the first one included.
Step ==
  /\ begin < End
  /\ Extend
  /\ IF comp(result, endingValue')
     THEN result' = endingValue' /\ last' = begin /\ first' = mid'
     ELSE UNCHANGED <<result, first, last>>
  /\ begin' = begin + 1
  /\ UNCHANGED <<data, End, maximum>>

Next == Step

Spec == Init /\ [][Next]_vars

-----------------------------------------------------------------------------
(* Properties *)

Sum(a, b) == MapThenSumSet(LAMBDA p : data[p], a..b)

Weights == {Sum(r[1], r[2]) : r \in {s \in (0..(End - 1)) \X (0..(End - 1)) : s[1] <= s[2]}}

Best == IF maximum THEN Max(Weights) ELSE Min(Weights)

\* Nothing is gained with the first element.
FirstIsNoGain == ~ comp(0, data[0])

\* The subarrays lie within the range and before the cursor.
PlacesOrdered ==
  /\ begin \in 0..End /\ first \in 0..(End - 1) /\ mid \in 0..(End - 1) /\ last \in 0..End
  /\ mid <= begin /\ first <= last

\* No subarray is better than what is returned; and a subarray is as good, where nothing is
\* gained with the first element.  Otherwise there need be none: the first turn of the loop
\* adds the first element to itself (kadane.hpp:139 and 243).
NoneBetter == begin = End => ~ comp(result, Best) /\ (FirstIsNoGain => result = Best)

\* Where nothing is gained with the first element, the subarray from first to last has the
\* best sum so far, and the one from mid up to the cursor the current one, at every turn.
\* last is the place of the last element, where the header has the place behind it
\* (kadane.hpp:206-209); it is the end of the range only while no subarray is better than
\* the first element.
RangesSound ==
  FirstIsNoGain =>
    /\ IF last = End THEN result = data[0] /\ first = 0 ELSE last < begin /\ Sum(first, last) = result
    /\ begin > 0 => Sum(mid, begin - 1) = endingValue
=============================================================================
