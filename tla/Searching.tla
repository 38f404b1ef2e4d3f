------------------------------ MODULE Searching ------------------------------
(***************************************************************************)
(* exponential_search and interpolation_search of                          *)
(* src/stlext/algorithm/searching on a sorted range of integers: one call, *)
(* a step for each turn of its loop.  Places are counted from zero.        *)
(***************************************************************************)
EXTENDS Integers, Sequences, FiniteSetsExt, SequencesExt

CONSTANTS
  Value,     \* of elements and keys
  MaxLength  \* the bound on the length of the range

VARIABLES
  data,   \* the range
  key,    \* what to look for
  method, \* which of the two searches is called
  low,    \* first, or lowIt
  high,   \* curr, or highIt
  bound,  \* of the exponential search
  result, \* the place that is returned
  pc

vars == <<data, key, method, low, high, bound, result, pc>>

Size == Len(data)
At(p) == data[p + 1]

SortedRanges == {s \in SeqOf(Value, MaxLength) : \A p \in 1..(Len(s) - 1) : s[p] <= s[p + 1]}

\* std::lower_bound on the places from a up to, not including, b.
LowerBound(a, b) == Min({p \in a..b : p = b \/ At(p) >= key})

Init ==
  /\ data \in SortedRanges
  /\ key \in Value
  /\ method \in {"exponential", "interpolation"}
  /\ low = 0
  /\ high = IF method = "exponential" THEN 1 ELSE Size - 1
  /\ bound = 1 /\ result = -1
  /\ pc = "search"

Return(p) ==
  /\ result' = p /\ pc' = "done"
  /\ UNCHANGED <<low, high, bound>>

\* The cursor advances by half the bound, which doubles, while its element is too
\* small; then the part before it is searched.
Exponential ==
  /\ method = "exponential"
  /\ IF Size = 0 THEN Return(0)
     ELSE IF bound < Size /\ At(high) < key
     THEN /\ low' = high
          /\ high' = high + (bound + 1) \div 2
          /\ bound' = bound * 2
          /\ UNCHANGED <<result, pc>>
     ELSE Return(LowerBound(low, IF bound >= Size THEN Size ELSE high))

\* Where a straight line between the ends would have the key.
Guess == low + ((key - At(low)) * (high - low)) \div (At(high) - At(low))

\* One turn, or the return, of the interpolation search.
Interpolation ==
  /\ method = "interpolation"
  /\ IF Size = 0 THEN Return(0)
     ELSE IF At(high) # At(low) /\ key >= At(low) /\ key <= At(high)
     THEN IF At(Guess) = key THEN Return(Guess)
          ELSE /\ IF At(Guess) < key THEN low' = Guess + 1 /\ UNCHANGED high
                  ELSE high' = Guess - 1 /\ UNCHANGED low
               /\ UNCHANGED <<bound, result, pc>>
     ELSE Return(IF key = At(low) THEN low ELSE Size)

Next ==
  /\ pc = "search"
  /\ Exponential \/ Interpolation
  /\ UNCHANGED <<data, key, method>>

Spec == Init /\ [][Next]_vars /\ WF_vars(Next)

-----------------------------------------------------------------------------
(* Properties *)

\* Whatever is dereferenced in the next turn is in the range: the cursor of the
\* exponential search while the bound is, and both ends of the interpolation.
StaysInRange ==
  pc = "search" /\ Size > 0 =>
    IF method = "exponential" THEN bound < Size => high < Size
    ELSE low \in 0..(Size - 1) /\ high \in 0..(Size - 1)

\* The exponential search returns the lower bound, as std::lower_bound does.
ExponentialExact ==
  pc = "done" /\ method = "exponential" => result = LowerBound(0, Size)

\* The interpolation search finds the key wherever it is, and never a smaller element.  Its
\* header promises the first element that is not less (interpolation_search.hpp:46-63): of
\* several equal ones the code returns any, and for a key that is not there it returns the
\* end where the promise is a place, so the property leaves both open.
InterpolationFinds ==
  pc = "done" /\ method = "interpolation" =>
    /\ result \in 0..Size
    /\ IF key \in ToSet(data) THEN result < Size /\ At(result) = key
       ELSE result < Size => At(result) > key

\* Both searches return.
CallEnds == <>(pc = "done")
=============================================================================
