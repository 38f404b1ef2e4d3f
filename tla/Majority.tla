------------------------------ MODULE Majority ------------------------------
(***************************************************************************)
(* majority_element of src/stlext/algorithm/ext/majority_element.hpp: one  *)
(* call, a step for each turn of its two loops.  Places count from zero,   *)
(* as the iterators do; End is the end of the range.                       *)
(***************************************************************************)
EXTENDS Integers, FiniteSets

CONSTANTS
  Value,     \* of elements
  MaxLength  \* the bound on the length of the range

VARIABLES
  data,       \* the range
  End,        \* its length
  it,         \* the cursor of both loops
  candidate,  \* the place of the guess
  confidence,
  nmatches,
  result,     \* what is returned
  pc

vars == <<data, End, it, candidate, confidence, nmatches, result, pc>>

Occurrences(v, n) == Cardinality({p \in 0..(n - 1) : data[p] = v})

\* It occurs strictly more often than all others together.
IsMajority(v) == 2 * Occurrences(v, End) > End

-----------------------------------------------------------------------------
Init ==
  /\ End \in 0..MaxLength
  /\ data \in [0..(End - 1) -> Value]
  /\ it = 0 /\ candidate = End /\ confidence = 0
  /\ nmatches = 0 /\ result = End /\ pc = "scan"

\* A slip: a guess is not replaced when its count is exhausted.
ScanStubborn ==
  /\ pc = "scan" /\ it < End
  /\ IF candidate = End
     THEN candidate' = it /\ confidence' = 1
     ELSE /\ UNCHANGED candidate
          /\ confidence' = IF data[candidate] = data[it] THEN confidence + 1
                           ELSE IF confidence = 0 THEN 0 ELSE confidence - 1
  /\ it' = it + 1
  /\ UNCHANGED <<nmatches, result, pc>>

\* The rules of Boyer and Moore.
Scan ==
  /\ pc = "scan" /\ it < End
  /\ IF confidence = 0
     THEN candidate' = it /\ confidence' = 1
     ELSE /\ UNCHANGED candidate
          /\ confidence' = IF data[candidate] = data[it] THEN confidence + 1 ELSE confidence - 1
  /\ it' = it + 1
  /\ UNCHANGED <<nmatches, result, pc>>

Rewind ==
  /\ pc = "scan" /\ it = End
  /\ it' = 0 /\ pc' = "confirm"
  /\ UNCHANGED <<candidate, confidence, nmatches, result>>

\* A second pass counts what is equal to the guess; of an empty range nothing is.
Confirm ==
  /\ pc = "confirm" /\ it < End
  /\ nmatches' = IF data[candidate] = data[it] THEN nmatches + 1 ELSE nmatches
  /\ it' = it + 1
  /\ UNCHANGED <<candidate, confidence, result, pc>>

Answer ==
  /\ pc = "confirm" /\ it = End
  /\ result' = IF End \div 2 < nmatches THEN candidate ELSE End
  /\ pc' = "done"
  /\ UNCHANGED <<it, candidate, confidence, nmatches>>

Next ==
  /\ Scan \/ Rewind \/ Confirm \/ Answer
  /\ UNCHANGED <<data, End>>

Spec == Init /\ [][Next]_vars /\ WF_vars(Next)

-----------------------------------------------------------------------------
(* Properties *)

TypeOK ==
  /\ End \in 0..MaxLength
  /\ data \in [0..(End - 1) -> Value]
  /\ it \in 0..End /\ candidate \in 0..End
  /\ confidence \in 0..End /\ nmatches \in 0..End
  /\ result \in 0..End /\ pc \in {"scan", "confirm", "done"}

\* "Lemma 1" of the header: the elements seen so far are confidence copies of the
\* guess, and others of which no value makes up more than half.
Lemma1 ==
  pc = "scan" =>
    \A v \in Value :
      2 * Occurrences(v, it) <=
        IF candidate # End /\ data[candidate] = v THEN it + confidence ELSE it - confidence

\* The answer is a place that holds the majority element, or the end when there is
\* none; in particular the guess survives when there is one.
MajorityExact ==
  pc = "done" =>
    IF \E v \in Value : IsMajority(v)
    THEN result # End /\ IsMajority(data[result])
    ELSE result = End
=============================================================================
