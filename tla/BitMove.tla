------------------------------ MODULE BitMove -------------------------------
(***************************************************************************)
(* copy and copy_backward of src/stlext/bitvector/bitalgo.hpp, also as     *)
(* move and move_backward, and flip_range, in place as the flip of a       *)
(* vector or as a copy: one call on a memory that holds both ranges, which *)
(* may overlap as the direction allows, a step for each word.              *)
(***************************************************************************)
EXTENDS BitWords

VARIABLES
  call,           \* [op, from, to, n]: n bits at from are to be at to
  memory,
  first, result,  \* the cursors; those at the end of the ranges for copy_backward
  n,              \* the bits left, an unsigned number
  pc              \* the part of the function to come, "done", or "outside" when it touches
                  \* a word outside of the memory

vars == <<call, memory, first, result, n, pc>>

Ops == {"copy", "flip", "copy_backward"}

\* The ranges of an aligned flip are the same or apart, and if apart made of whole words.
Calls ==
  {c \in [op : Ops, from : Places, to : Places, n : 0..(W * Words)] :
     LET apart == c.from + c.n <= c.to \/ c.to + c.n <= c.from
         aligned == (c.from - c.to) % W = 0 IN
     /\ c.from + c.n <= W * Words /\ c.to + c.n <= W * Words
     /\ CASE c.op = "copy_backward" -> apart \/ c.from <= c.to
          [] c.op = "flip" /\ aligned -> c.from = c.to \/ (apart /\ c.from % W = 0 /\ c.n % W = 0)
          [] OTHER -> apart \/ c.to <= c.from}

Backward == call.op = "copy_backward"

Init ==
  /\ call \in Calls
  /\ memory = Fresh
  /\ first = At(IF Backward THEN call.from + call.n ELSE call.from)
  /\ result = At(IF Backward THEN call.to + call.n ELSE call.to)
  /\ n = call.n
  /\ pc = IF n > 0 THEN "first" ELSE "done"

Aligned == (call.from - call.to) % W = 0

\* A slip: what is left of the last word is not inverted.
SourceRaw(blk) == IF call.op = "flip" /\ pc # "last" THEN Not(memory[blk]) ELSE memory[blk]

\* The word of the source at blk, as it is copied.
Source(blk) == IF call.op = "flip" THEN Not(memory[blk]) ELSE memory[blk]

Become(written, cursor, source, copied, next) ==
  /\ memory' = written /\ result' = cursor /\ first' = source
  /\ n' = n - copied
  /\ pc' = next
  /\ UNCHANGED call

-----------------------------------------------------------------------------
(* Forward: the source from its bit at first, the target from its bit at result *)

\* Put k bits of w, from its bit c on, where result points, and those for which that word
\* has no place into the next one.
Deposit(w, c, k) ==
  LET near == Least(k, W - result.ctz)
      shifted == IF result.ctz > c THEN Shl(w, result.ctz - c) ELSE Shr(w, c - result.ctz)
      memory1 == Merge(memory, result.blk, Window(result.ctz, near), shifted)
      rest == k - near IN
  IF rest = 0 THEN [memory |-> memory1, result |-> Past(result, near)]
  ELSE [memory |-> Merge(memory1, result.blk + 1, Lower(W - rest), Shr(w, c + near)),
        result |-> [blk |-> result.blk + 1, ctz |-> rest]]

First ==
  /\ pc = "first"
  /\ IF first.ctz = 0 THEN Become(memory, result, first, 0, "middle")
     ELSE LET k == Least(W - first.ctz, n)
              out == Deposit(And(Source(first.blk), Window(first.ctz, k)), first.ctz, k) IN
          Become(out.memory, out.result, At((first.blk + 1) * W), k, "middle")

\* All whole words of a source whose words are those of the target, by memmove.
MiddleWords ==
  /\ pc = "middle" /\ Aligned
  /\ LET count == n \div W IN
     Become([k \in 0..(Words - 1) |-> IF k - result.blk \in 0..(count - 1)
                                       THEN memory[first.blk + k - result.blk] ELSE memory[k]],
            [result EXCEPT !.blk = @ + count], [first EXCEPT !.blk = @ + count], count * W, "last")

\* A whole word of the source, over two words of the target.
MiddleWord ==
  /\ pc = "middle" /\ ~ Aligned
  /\ IF n < W THEN Become(memory, result, first, 0, "last")
     ELSE LET w == Source(first.blk)
              high == Upper(result.ctz)
              memory1 == Merge(memory, result.blk, high, Shl(w, result.ctz)) IN
          Become(Merge(memory1, result.blk + 1, Bits \ high, Shr(w, W - result.ctz)),
                 [result EXCEPT !.blk = @ + 1], [first EXCEPT !.blk = @ + 1], W, "middle")

Last ==
  /\ pc = "last"
  /\ IF n = 0 THEN Become(memory, result, first, 0, "done")
     ELSE LET out == Deposit(And(Source(first.blk), Lower(W - n)), 0, n) IN
          Become(out.memory, out.result, first, n, "done")

copy_aligned == call.op = "copy" /\ Aligned /\ (First \/ MiddleWords \/ Last)
copy_unaligned == call.op = "copy" /\ ~ Aligned /\ (First \/ MiddleWord \/ Last)
flip_copy_unaligned == call.op = "flip" /\ ~ Aligned /\ (First \/ MiddleWord \/ Last)

-----------------------------------------------------------------------------
(* Backward: the source below its bit at first, the target below its bit at result *)

\* Put k bits of w, below its bit c, below result, and those for which that word has no
\* place into the one before.
DepositBack(w, c, k) ==
  LET near == Least(k, result.ctz)
      shifted == IF result.ctz > c THEN Shl(w, result.ctz - c) ELSE Shr(w, c - result.ctz)
      memory1 == IF near = 0 THEN memory
                 ELSE Merge(memory, result.blk, Window(result.ctz - near, near), shifted)
      rest == k - near IN
  IF rest = 0 THEN [memory |-> memory1, result |-> [result EXCEPT !.ctz = @ - near]]
  ELSE [memory |-> Merge(memory1, result.blk - 1, Upper(W - rest), Shl(w, (W - rest) - (c - k))),
        result |-> [blk |-> result.blk - 1, ctz |-> W - rest]]

FirstBack ==
  /\ pc = "first"
  /\ IF first.ctz = 0 THEN Become(memory, result, first, 0, "middle")
     ELSE LET k == Least(first.ctz, n)
              out == DepositBack(And(memory[first.blk], Window(first.ctz - k, k)), first.ctz, k) IN
          Become(out.memory, out.result, [first EXCEPT !.ctz = 0], k, "middle")

MiddleWordsBack ==
  /\ pc = "middle" /\ Aligned
  /\ LET count == n \div W
         source == first.blk - count
         target == result.blk - count IN
     Become([k \in 0..(Words - 1) |-> IF k - target \in 0..(count - 1)
                                       THEN memory[source + k - target] ELSE memory[k]],
            [result EXCEPT !.blk = target], [first EXCEPT !.blk = source], count * W, "last")

MiddleWordBack ==
  /\ pc = "middle" /\ ~ Aligned
  /\ IF n < W THEN Become(memory, result, first, 0, "last")
     ELSE LET w == memory[first.blk - 1]
              low == Lower(W - result.ctz)
              memory1 == Merge(memory, result.blk, low, Shr(w, W - result.ctz)) IN
          Become(Merge(memory1, result.blk - 1, Bits \ low, Shl(w, result.ctz)),
                 [result EXCEPT !.blk = @ - 1], [first EXCEPT !.blk = @ - 1], W, "middle")

LastBack ==
  /\ pc = "last"
  /\ IF n = 0 THEN Become(memory, result, first, 0, "done")
     ELSE LET out == DepositBack(And(memory[first.blk - 1], Upper(W - n)), W, n) IN
          Become(out.memory, out.result, [first EXCEPT !.blk = @ - 1], n, "done")

copy_backward_aligned == Backward /\ Aligned /\ (FirstBack \/ MiddleWordsBack \/ LastBack)
copy_backward_unaligned == Backward /\ ~ Aligned /\ (FirstBack \/ MiddleWordBack \/ LastBack)

-----------------------------------------------------------------------------
(* Flip, from the words at first into those at result, which begin at the same bits *)

InPlace == call.from = call.to

\* Beyond the number of bits of the memory, as 2 ^ 64 is.
Modulus == 2 * W * (Words + 1)

\* w ^ mask
Flip(w, mask) == Or(And(w, Bits \ mask), And(Not(w), mask))

\* Put the word at first, its bits in mask flipped, where it belongs, with k bits left.
Write(mask, k, next) ==
  IF {first.blk, result.blk} \subseteq 0..(Words - 1)
  THEN Become([memory EXCEPT ![result.blk] = Flip(memory[first.blk], mask)],
              [result EXCEPT !.blk = @ + 1], [first EXCEPT !.blk = @ + 1], n - k, next)
  ELSE Become(memory, result, first, 0, "outside")

\* The bits of the first word.
FlipFirst ==
  /\ pc = "first"
  /\ LET k == Least(n, W - first.ctz) IN
     Write(Window(first.ctz, k), n - k, IF n = k THEN "done" ELSE "words")

\* All bits of a word, but only those left of the last one.
FlipWord ==
  /\ pc = "words"
  /\ IF n <= W THEN Write(Lower(W - n), 0, "done") ELSE Write(Bits, n - W, "words")

\* All bits of a word, until the unsigned number of those left is zero.
FlipCopyWord ==
  /\ pc = "words"
  /\ IF n = 0 THEN Become(memory, result, first, 0, "done")
     ELSE Write(Bits, (n - W) % Modulus, "words")

flip_inplace == call.op = "flip" /\ InPlace /\ (FlipFirst \/ FlipWord)
flip_copy_aligned == call.op = "flip" /\ ~ InPlace /\ Aligned /\ (FlipFirst \/ FlipCopyWord)

-----------------------------------------------------------------------------
Next ==
  \/ copy_aligned \/ copy_unaligned
  \/ flip_inplace \/ flip_copy_aligned \/ flip_copy_unaligned
  \/ copy_backward_aligned \/ copy_backward_unaligned

Spec == Init /\ [][Next]_vars

-----------------------------------------------------------------------------
(* Properties *)

Target == call.to..(call.to + call.n - 1)

TypeOK == first.ctz \in Bits /\ result.ctz \in Bits /\ n \in 0..call.n

\* At every step a bit outside the target is as it was.
OutsideKept == \A p \in Places \ Target : BitAt(memory, p) = {p}

\* At the end each bit of the target is the one of the source as it was before the call,
\* or its inverse, also where the ranges overlap and share words.
MoveExact ==
  pc = "done" =>
    \A p \in Target : LET from == call.from + p - call.to IN
      BitAt(memory, p) = {IF call.op = "flip" THEN -1 - from ELSE from}

\* No word outside of the memory is touched.
StaysInMemory == pc # "outside"

\* The function returns where the next bit would go.  The caller of flip gets no cursor.
ReturnsEnd ==
  pc = "done" /\ call.op # "flip" => Place(result) = IF Backward THEN call.to ELSE call.to + call.n
=============================================================================
