------------------------------ MODULE BitRotate -----------------------------
(***************************************************************************)
(* rotate of src/stlext/bitvector/bitalgo.hpp: one call, a step for each   *)
(* turn of its loop.  Bits are moved as BitMove and BitSwap show that copy,*)
(* copy_backward and swap_ranges move them, where they may be called.      *)
(***************************************************************************)
EXTENDS Integers

CONSTANTS
  Length,   \* the number of bits of the memory
  Capacity  \* the number of bits of the buffer, __bit_array::capacity()

VARIABLES
  call,           \* [first, middle, last]
  memory,         \* a bit for each place, by the name of the place it comes from
  first, middle,  \* what is left to be rotated
  d1, d2,         \* the distances first to middle and middle to last
  misuse          \* was a function called on ranges it is not made for?

vars == <<call, memory, first, middle, d1, d2, misuse>>

Init ==
  /\ call \in {c \in [first : 0..Length, middle : 0..Length, last : 0..Length] :
                 c.first <= c.middle /\ c.middle <= c.last}
  /\ memory = [p \in 0..(Length - 1) |-> p]
  /\ first = call.first /\ middle = call.middle
  /\ d1 = middle - first /\ d2 = call.last - middle
  /\ misuse = FALSE

Last == middle + d2

\* The memory after n bits at from, of the memory source, are put at to.
Copied(target, source, from, n, to) ==
  [p \in DOMAIN target |-> IF p - to \in 0..(n - 1) THEN source[from + p - to] ELSE target[p]]

\* swap_ranges(a, a + n, b)
Swapped(a, n, b) ==
  [p \in DOMAIN memory |-> IF p - a \in 0..(n - 1) THEN memory[b + p - a]
                           ELSE IF p - b \in 0..(n - 1) THEN memory[a + p - b] ELSE memory[p]]

Disjoint(a, n, b) == a + n <= b \/ b + n <= a

\* copy needs a target that is not behind the source where they overlap, copy_backward one
\* that is not before it.
Finish(written, allowed) ==
  /\ memory' = written
  /\ d1' = 0 /\ d2' = 0
  /\ misuse' = ~ allowed
  /\ UNCHANGED <<call, first, middle>>

\* The first part fits into the buffer: copy the second one forward.
BufferFirst ==
  /\ d1 # 0 /\ d2 # 0 /\ d1 <= d2 /\ d1 <= Capacity
  /\ Finish(Copied(Copied(memory, memory, middle, d2, first), memory, first, d1, first + d2),
            first <= middle)

\* The first part is exchanged with the begin of the second one, and is still before the rest.
SwapFirst ==
  /\ d1 # 0 /\ d2 # 0 /\ d1 <= d2 /\ d1 > Capacity
  /\ memory' = Swapped(first, d1, middle)
  /\ misuse' = ~ Disjoint(first, d1, middle)
  /\ first' = middle /\ middle' = middle + d1
  /\ d2' = d2 - d1
  /\ UNCHANGED <<call, d1>>

\* The second part fits: copy the first one backward, to the end.
BufferSecond ==
  /\ d1 # 0 /\ d2 # 0 /\ d1 > d2 /\ d2 <= Capacity
  /\ Finish(Copied(Copied(memory, memory, first, d1, Last - d1), memory, middle, d2, first),
            Last - d1 >= first)

\* A slip: the first part is not cut.
SwapSecondStill ==
  /\ d1 # 0 /\ d2 # 0 /\ d1 > d2 /\ d2 > Capacity
  /\ memory' = Swapped(first, d2, middle)
  /\ misuse' = ~ Disjoint(first, d2, middle)
  /\ UNCHANGED <<call, first, middle, d1, d2>>

\* A slip: the cut is not at the begin.
SwapSecondStay ==
  /\ d1 # 0 /\ d2 # 0 /\ d1 > d2 /\ d2 > Capacity
  /\ memory' = Swapped(first, d2, middle)
  /\ misuse' = ~ Disjoint(first, d2, middle)
  /\ d1' = d1 - d2
  /\ UNCHANGED <<call, first, middle, d2>>

\* The second part is exchanged with the begin of the first one, which then is done.
SwapSecond ==
  /\ d1 # 0 /\ d2 # 0 /\ d1 > d2 /\ d2 > Capacity
  /\ memory' = Swapped(first, d2, middle)
  /\ misuse' = ~ Disjoint(first, d2, middle)
  /\ first' = first + d2
  /\ d1' = d1 - d2
  /\ UNCHANGED <<call, middle, d2>>

Next == BufferFirst \/ SwapFirst \/ BufferSecond \/ SwapSecond

Spec == Init /\ [][Next]_vars /\ WF_vars(Next)

-----------------------------------------------------------------------------
(* Properties *)

Rotated == d1 = 0 \/ d2 = 0

\* The place in the old memory of the bit that is to be at p.
Goal(p) ==
  IF p < call.first \/ p >= call.last THEN p
  ELSE IF p < call.first + call.last - call.middle THEN p + call.middle - call.first
  ELSE p - (call.last - call.middle)

\* The bit at p once what is left is rotated.
Rest(p) ==
  IF p < first \/ p >= Last THEN memory[p]
  ELSE IF p < first + d2 THEN memory[p + d1] ELSE memory[p - d2]

\* After every turn of the loop, to rotate what is left is to rotate the whole.
RestRotates == \A p \in DOMAIN memory : Rest(p) = Goal(p)

\* When the loop ends, the parts have changed places and the rest is as it was.
RotateExact == Rotated => \A p \in DOMAIN memory : memory[p] = Goal(p)

\* copy, copy_backward and swap_ranges are called only on ranges they are made for.
NoMisuse == ~ misuse

\* The loop ends.
CallEnds == <>Rotated
=============================================================================
