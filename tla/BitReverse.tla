----------------------------- MODULE BitReverse -----------------------------
(***************************************************************************)
(* reverse of src/stlext/bitvector/bitalgo.hpp, with the word operations   *)
(* of src/stlext/platform/bits.h it is made of: one call on a memory.  A   *)
(* range with bits in two words is reversed word by word together with     *)
(* what else these words hold, shifted to its place, reversed within the   *)
(* words, and then the bits outside are put back.                          *)
(***************************************************************************)
EXTENDS BitWords

VARIABLES
  call,    \* [from, n]: the range
  memory,
  it,      \* the word a loop is at
  pc       \* the part of the function to come

vars == <<call, memory, it, pc>>

first == At(call.from)
last == At(call.from + call.n)
is_last_aligned == last.ctz = 0
Final == IF is_last_aligned THEN last.blk - 1 ELSE last.blk
gap == IF is_last_aligned THEN 0 ELSE W - last.ctz

\* The bits of a word exchanged in blocks of k, the lower with the higher half of each 2 k.
Exchanged(w, k) ==
  LET low == {b \in Bits : (b \div k) % 2 = 0} IN
  Or(Shr(And(w, Bits \ low), k), Shl(And(w, low), k))

\* __bit_swap: halves, quarters and so on are exchanged, for the width that is checked.
BitSwap(w) == Exchanged(Exchanged(w, 2), 1)

\* __bit_blend
Blend(src0, src1, start, len) ==
  LET mask == {b \in Bits : start <= b /\ b < start + len} IN
  Or(And(src0, Bits \ mask), And(src1, mask))

\* __shld and __shrd
Shld(dst, src, count) ==
  IF count < W THEN Or(Shl(dst, count), Shr(src, W - count)) ELSE Shl(src, count - W)
Shrd(dst, src, count) ==
  IF count < W THEN Or(Shr(dst, count), Shl(src, W - count)) ELSE Shr(src, count - W)

Init ==
  /\ call \in {c \in [from : Places, n : 0..(W * Words)] : c.from + c.n <= W * Words}
  /\ memory = Fresh
  /\ it = call.from \div W
  /\ pc = "reverse"

\* std::reverse of the words from first to the one at k
ReversedWords(k) ==
  [j \in 0..(Words - 1) |-> IF j \in first.blk..k THEN memory[first.blk + k - j] ELSE memory[j]]

\* __reverse_inplace: all in one word.
ReverseInPlace ==
  /\ pc = "reverse" /\ first.blk = last.blk
  /\ memory' = [memory EXCEPT ![first.blk] =
       Blend(@, Shr(BitSwap(Shr(@, first.ctz)), gap), first.ctz, last.ctz - first.ctz)]
  /\ pc' = "done"
  /\ UNCHANGED <<call, it>>

\* __reverse_aligned, or the begin of __reverse_unaligned.
ReverseWords ==
  /\ pc = "reverse" /\ first.blk # last.blk
  /\ memory' = ReversedWords(Final)
  /\ IF first.ctz = 0 /\ is_last_aligned THEN pc' = "swap" /\ it' = first.blk
     ELSE CASE first.ctz < gap -> pc' = "left" /\ it' = first.blk
            [] first.ctz > gap -> pc' = "right" /\ it' = Final
            [] OTHER -> pc' = "swap" /\ it' = first.blk
  /\ UNCHANGED call

ShiftLeft ==
  /\ pc = "left"
  /\ LET count == gap - first.ctz IN
     IF it # last.blk
     THEN memory' = [memory EXCEPT ![it] = Shld(@, memory[it + 1], count)] /\ it' = it + 1 /\ UNCHANGED pc
     ELSE memory' = [memory EXCEPT ![it] = Shl(@, count)] /\ it' = first.blk /\ pc' = "swap"
  /\ UNCHANGED call

ShiftRight ==
  /\ pc = "right"
  /\ LET count == first.ctz - gap IN
     IF it # first.blk
     THEN memory' = [memory EXCEPT ![it] = Shrd(@, memory[it - 1], count)] /\ it' = it - 1 /\ UNCHANGED pc
     ELSE memory' = [memory EXCEPT ![it] = Shr(@, count)] /\ it' = first.blk /\ pc' = "swap"
  /\ UNCHANGED call

SwapBits ==
  /\ pc = "swap"
  /\ IF it <= Final THEN memory' = [memory EXCEPT ![it] = BitSwap(@)] /\ it' = it + 1 /\ UNCHANGED pc
     ELSE pc' = "blend" /\ UNCHANGED <<memory, it>>
  /\ UNCHANGED call

\* The first and the last word were saved before they were changed.
PutBack ==
  /\ pc = "blend"
  /\ LET memory1 == IF first.ctz = 0 THEN memory
                    ELSE [memory EXCEPT ![first.blk] = Blend(Fresh[first.blk], @, first.ctz, W - first.ctz)] IN
     memory' = IF is_last_aligned THEN memory1
               ELSE [memory1 EXCEPT ![last.blk] = Blend(@, Fresh[last.blk], last.ctz, W - last.ctz)]
  /\ pc' = "done"
  /\ UNCHANGED <<call, it>>

Next == ReverseInPlace \/ ReverseWords \/ ShiftLeft \/ ShiftRight \/ SwapBits \/ PutBack

Spec == Init /\ [][Next]_vars

-----------------------------------------------------------------------------
(* Properties *)

\* At the end the range is reversed.
ReverseExact ==
  pc = "done" =>
    \A p \in call.from..(call.from + call.n - 1) : BitAt(memory, p) = {2 * call.from + call.n - 1 - p}

\* At the end every bit before and behind the range, also one in a word with bits of the
\* range, is as it was.
OutsideKept ==
  pc = "done" => \A p \in Places \ (call.from..(call.from + call.n - 1)) : BitAt(memory, p) = {p}
=============================================================================
