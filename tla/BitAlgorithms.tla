---------------------------- MODULE BitAlgorithms ----------------------------
(***************************************************************************)
(* The iterators and algorithms of src/stlext/bitvector: each behaviour is *)
(* one call of one of them, or one life of two iterators.  They share the  *)
(* memory they work on, and their local variables are those of this module *)
(* under other names; a variable that the algorithm in use does not have   *)
(* keeps its first value.                                                  *)
(***************************************************************************)
EXTENDS BitWords

CONSTANTS
  Register,  \* the words of a SIMD register
  MaxPlace,  \* the bound on the places of the iterators
  Length,    \* the number of bits of the memory that is rotated
  Capacity   \* the number of bits of the buffer of rotate

ASSUME RotateAssumption == Length \in Nat \ {0} /\ Capacity \in Nat

VARIABLES used, call, memory, first, result, n, m, pc

vars == <<used, call, memory, first, result, n, m, pc>>

Unused == "unused"

Runs    == INSTANCE BitRuns
Move    == INSTANCE BitMove
Swap    == INSTANCE BitSwap
Reverse == INSTANCE BitReverse WITH it <- first
Rotate  == INSTANCE BitRotate WITH middle <- result, d1 <- n, d2 <- m, misuse <- pc

-----------------------------------------------------------------------------
(* bit_iterator: a cursor into an array of words, first, that its user moves, and another *)
(* one, result, with __m_blk as a distance from the begin of the array.  How far each was *)
(* moved in all is m, which no code knows.                                                *)

Cursors ==
  /\ first = At(0) /\ result = At(0) /\ m = <<0, 0>>
  /\ call = Unused /\ memory = Unused /\ n = Unused /\ pc = Unused

MovedTo(x, k) == first' = x /\ m' = [m EXCEPT ![1] = @ + k] /\ UNCHANGED result

\* operator++
Advance == m[1] < MaxPlace /\ MovedTo(Succ(first), 1)

\* operator--
Retreat == m[1] > 0 /\ MovedTo(Pred(first), -1)

Jump ==
  \E k \in (-MaxPlace)..MaxPlace :
    m[1] + k \in 0..MaxPlace /\ (MovedTo(Plus(first, k), k) \/ MovedTo(Minus(first, -k), k))

Exchange == first' = result /\ result' = first /\ m' = <<m[2], m[1]>>

MoveCursors == Advance \/ Retreat \/ Jump \/ Exchange

Distance(x, y) == (x.blk - y.blk) * W + x.ctz - y.ctz

Equal(x, y) == x.blk = y.blk /\ x.ctz = y.ctz

Less(x, y) == x.blk < y.blk \/ (x.blk = y.blk /\ x.ctz < y.ctz)

\* After any jumps and steps, forward and backward, a cursor has a bit of its word and is
\* as far from the begin as its moves add up to.
MovesAddUp ==
  /\ first.ctz \in Bits /\ result.ctz \in Bits
  /\ Place(first) = m[1] /\ Place(result) = m[2]

\* The order of the cursors and their difference are those of their places.
OrderExact ==
  /\ Distance(first, result) = m[1] - m[2]
  /\ Less(first, result) <=> m[1] < m[2]
  /\ Equal(first, result) <=> m[1] = m[2]

-----------------------------------------------------------------------------
Init ==
  \/ used = "iterator" /\ Cursors
  \/ used = "runs"     /\ Runs!Init     /\ m = Unused
  \/ used = "move"     /\ Move!Init     /\ m = Unused
  \/ used = "swap"     /\ Swap!Init     /\ m = Unused
  \/ used = "reverse"  /\ Reverse!Init  /\ result = Unused /\ n = Unused /\ m = Unused
  \/ used = "rotate"   /\ Rotate!Init

Next ==
  \/ used = "iterator" /\ MoveCursors   /\ UNCHANGED <<used, call, memory, n, pc>>
  \/ used = "runs"     /\ Runs!Next     /\ UNCHANGED <<used, m>>
  \/ used = "move"     /\ Move!Next     /\ UNCHANGED <<used, m>>
  \/ used = "swap"     /\ Swap!Next     /\ UNCHANGED <<used, m>>
  \/ used = "reverse"  /\ Reverse!Next  /\ UNCHANGED <<used, result, n, m>>
  \/ used = "rotate"   /\ Rotate!Next   /\ UNCHANGED used

\* A thread that runs a function goes on with it; a client need not move its iterators.
Spec == Init /\ [][Next]_vars /\ WF_vars(used # "iterator" /\ Next)

-----------------------------------------------------------------------------
(* Properties *)

\* At every step of a call the bits outside of its target are as they were, and no word
\* outside of the memory is touched; an exchange never loses a bit, and the bits around a
\* reversed range are back when the call ends.  A flip of a range onto another one that
\* begins at the same bit of its word is covered for whole words only (Move!Calls), since
\* otherwise the code inverts bits around the range (bitalgo.hxx:1317 and 1326).
OutsideKept ==
  /\ used = "runs" => Runs!OutsideKept
  /\ used = "move" => Move!OutsideKept /\ Move!StaysInMemory
  /\ used = "swap" => Swap!NoBitLost
  /\ used = "reverse" => Reverse!OutsideKept

\* At the end of a call the bits of the target are what the function is for: of one value,
\* inverted, moved also where the ranges overlap, exchanged, reversed or rotated, for every
\* memory and all ranges and positions of both in their words, with the exception that
\* OutsideKept names.  For find it holds of its loop over words, the only one for ranges of
\* fewer than four registers; the loop over registers of the SSE2 build skips ones
\* (bitalgo.hxx:187).
ResultExact ==
  /\ used = "runs" => Runs!FillExact /\ Runs!FindExact /\ Runs!QueryExact
  /\ used = "move" => Move!MoveExact
  /\ used = "swap" => Swap!SwapExact
  /\ used = "reverse" => Reverse!ReverseExact
  /\ used = "rotate" => Rotate!RotateExact

\* Cursors arrive where they should: a function returns the place behind what it wrote, and
\* an iterator is as far from the begin as its jumps and steps, forward and backward, add up
\* to, and is ordered as its place is.
CursorsExact ==
  /\ used = "iterator" => MovesAddUp /\ OrderExact
  /\ used = "move" => Move!TypeOK /\ Move!ReturnsEnd
  /\ used = "swap" => Swap!ReturnsEnd

\* After every turn of the loop of rotate, to rotate what is left is to rotate the whole,
\* and it copies and exchanges only ranges for which these functions are made.
RotationKept == used = "rotate" => Rotate!RestRotates /\ Rotate!NoMisuse

\* Every call ends.
CallEnds ==
  used # "iterator" ~> IF used = "rotate" THEN Rotate!Rotated ELSE pc \in {"done", Unused}
=============================================================================
