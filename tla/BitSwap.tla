------------------------------- MODULE BitSwap ------------------------------
(***************************************************************************)
(* swap_ranges of src/stlext/bitvector/bitalgo.hpp: one call on a memory   *)
(* that holds both ranges, which have no bit in common but may share a     *)
(* word, a step for each word of the first range.                          *)
(***************************************************************************)
EXTENDS BitWords

VARIABLES
  call,           \* [from, to, n]: n bits at from and at to change places
  memory,
  first, result,  \* the cursors
  n,              \* the bits left
  pc              \* the part of the function to come

vars == <<call, memory, first, result, n, pc>>

Calls ==
  {c \in [from : Places, to : Places, n : 0..(W * Words)] :
     /\ c.from + c.n <= W * Words /\ c.to + c.n <= W * Words
     /\ c.from + c.n <= c.to \/ c.to + c.n <= c.from}

Init ==
  /\ call \in Calls
  /\ memory = Fresh
  /\ first = At(call.from) /\ result = At(call.to)
  /\ n = call.n
  /\ pc = IF n > 0 THEN "first" ELSE "done"

Aligned == (call.from - call.to) % W = 0

Nothing == [b \in Bits |-> {}]

\* "*blk |= w;"
Add(memory1, blk, w) == Merge(memory1, blk, {}, w)

\* Shift by s, to the left when s is positive.
Shift(w, s) == IF s > 0 THEN Shl(w, s) ELSE Shr(w, -s)

\* Exchange k bits of the word at first, from its bit c on, with those where result points,
\* and, when that word ends, with those of the next one.
Trade(c, k) ==
  LET near == Least(k, W - result.ctz)
      w1 == And(memory[first.blk], Window(c, k))
      memory1 == Merge(memory, first.blk, Window(c, k), Nothing)
      w2 == And(memory1[result.blk], Window(result.ctz, near))
      memory2 == Merge(memory1, result.blk, Window(result.ctz, near), Shift(w1, result.ctz - c))
      memory3 == Add(memory2, first.blk, Shift(w2, c - result.ctz))
      rest == k - near
      w3 == And(memory3[result.blk + 1], Lower(W - rest))
      memory4 == Merge(memory3, result.blk + 1, Lower(W - rest), Shr(w1, c + near)) IN
  IF rest = 0 THEN [memory |-> memory3, result |-> Past(result, near)]
  ELSE [memory |-> Add(memory4, first.blk, Shl(w3, c + near)),
        result |-> [blk |-> result.blk + 1, ctz |-> rest]]

Become(out, source, traded, next) ==
  /\ memory' = out.memory /\ result' = out.result /\ first' = source
  /\ n' = n - traded
  /\ pc' = next
  /\ UNCHANGED call

Unchanged == [memory |-> memory, result |-> result]

NextWord == At((first.blk + 1) * W)

First ==
  /\ pc = "first"
  /\ IF first.ctz = 0 THEN Become(Unchanged, first, 0, "middle")
     ELSE LET k == Least(W - first.ctz, n) IN Become(Trade(first.ctz, k), NextWord, k, "middle")

MiddleAligned ==
  /\ pc = "middle" /\ Aligned
  /\ IF n < W THEN Become(Unchanged, first, 0, "last")
     ELSE Become([memory |-> [memory EXCEPT ![first.blk] = memory[result.blk], ![result.blk] = memory[first.blk]],
                  result |-> [result EXCEPT !.blk = @ + 1]], NextWord, W, "middle")

\* A whole word of the first range, with parts of two words of the other.
MiddleUnaligned ==
  /\ pc = "middle" /\ ~ Aligned
  /\ IF n < W THEN Become(Unchanged, first, 0, "last")
     ELSE LET w1 == memory[first.blk]
              high == Upper(result.ctz)
              w2 == And(memory[result.blk], high)
              memory1 == Merge(memory, result.blk, high, Shl(w1, result.ctz))
              memory2 == Merge(memory1, first.blk, Bits, Shr(w2, result.ctz))
              w3 == And(memory2[result.blk + 1], Bits \ high)
              memory3 == Merge(memory2, result.blk + 1, Bits \ high, Shr(w1, W - result.ctz)) IN
          Become([memory |-> Add(memory3, first.blk, Shl(w3, W - result.ctz)),
                  result |-> [result EXCEPT !.blk = @ + 1]], NextWord, W, "middle")

Last ==
  /\ pc = "last"
  /\ IF n = 0 THEN Become(Unchanged, first, 0, "done") ELSE Become(Trade(0, n), first, n, "done")

swap_ranges_aligned == Aligned /\ (First \/ MiddleAligned \/ Last)
swap_ranges_unaligned == ~ Aligned /\ (First \/ MiddleUnaligned \/ Last)

Next == swap_ranges_aligned \/ swap_ranges_unaligned

Spec == Init /\ [][Next]_vars

-----------------------------------------------------------------------------
(* Properties *)

\* A swap loses no bit and invents none, after the first word, the last word and every one
\* between: as many bits are set as before the call, whatever the memory held.
NoBitLost ==
  \A x \in Places : \E p \in Places : BitAt(memory, p) = {x}

\* At the end the ranges have changed places and all other bits are as they were.
SwapExact ==
  pc = "done" =>
    \A p \in Places :
      BitAt(memory, p) = {IF p \in call.from..(call.from + call.n - 1) THEN call.to + p - call.from
                          ELSE IF p \in call.to..(call.to + call.n - 1) THEN call.from + p - call.to
                          ELSE p}

\* The function returns the end of the second range.
ReturnsEnd == pc = "done" => Place(result) = call.to + call.n
=============================================================================
