------------------------------ MODULE BitWords ------------------------------
(***************************************************************************)
(* The words of the bit algorithms of src/stlext/bitvector/bitalgo.hxx,    *)
(* their masks, and the iterators into them: a word and a bit of it.       *)
(*                                                                         *)
(* Words whose bits are named.  The algorithms that move bits only mask,   *)
(* shift and merge words, and each of these gives a union for a union: it  *)
(* is enough to know which bits of the old memory can have set a bit of    *)
(* the new one.  A bit is the set of their names, a word gives each of its *)
(* places a bit, and one memory stands for all memories.  A word of the    *)
(* memory has one name at each place, and can be inverted: the inverse of  *)
(* x is -1 - x.                                                            *)
(***************************************************************************)
EXTENDS Integers

CONSTANTS
  W,     \* bpw, the bits of a word, which is not narrower than int
  Words  \* the number of words of a memory

ASSUME WordAssumption == W \in Nat \ {0} /\ Words \in Nat \ {0}

Bits == 0..(W - 1)

\* ~word_type(0) << c
Upper(c) == {b \in Bits : b >= c}

\* ~word_type(0) >> k
Lower(k) == {b \in Bits : b < W - k}

\* A slip: up to the bit at c + n.
WindowLong(c, n) == Upper(c) \cap Lower(W - c - n - 1)

\* The bits of a word from the one at c on, n of them.
Window(c, n) == Upper(c) \cap Lower(W - c - n)

Least(a, b) == IF a <= b THEN a ELSE b

\* An iterator to a bit of a memory, and the bit it points to.
At(p) == [blk |-> p \div W, ctz |-> p % W]
Place(it) == it.blk * W + it.ctz

\* What the algorithms do to an iterator when they have filled n bits from it on.
Past(it, n) == [blk |-> it.blk + (n + it.ctz) \div W, ctz |-> (n + it.ctz) % W]

-----------------------------------------------------------------------------
(* The operations of iterators *)

\* Division of integers truncates.
Quotient(n, d) == IF n >= 0 THEN n \div d ELSE -((-n) \div d)

\* A slip: the word of a negative distance is that of a positive one.
PlusTruncated(x, n) ==
  [blk |-> x.blk + Quotient(n + x.ctz, W), ctz |-> ((n % W) + x.ctz) % W]

\* operator+=
Plus(x, n) ==
  [blk |-> IF n >= 0 THEN x.blk + (n + x.ctz) \div W
                     ELSE x.blk + Quotient((n - W) + x.ctz + 1, W),
   ctz |-> ((n % W) + x.ctz) % W]

Minus(x, n) == Plus(x, -n)

\* operator++ and operator--
Succ(x) == IF x.ctz # W - 1 THEN [x EXCEPT !.ctz = @ + 1] ELSE [blk |-> x.blk + 1, ctz |-> 0]
Pred(x) == IF x.ctz # 0 THEN [x EXCEPT !.ctz = @ - 1] ELSE [blk |-> x.blk - 1, ctz |-> W - 1]

-----------------------------------------------------------------------------
(* Words and memories whose bits are named *)

Places == 0..(W * Words - 1)

\* A memory before it is changed: each bit has the name of its place.
Fresh == [k \in 0..(Words - 1) |-> [b \in Bits |-> {k * W + b}]]

And(w, mask) == [b \in Bits |-> IF b \in mask THEN w[b] ELSE {}]
Not(w) == [b \in Bits |-> {-1 - x : x \in w[b]}]
Or(v, w) == [b \in Bits |-> v[b] \cup w[b]]
Shl(w, s) == [b \in Bits |-> IF b >= s THEN w[b - s] ELSE {}]
Shr(w, s) == [b \in Bits |-> IF b + s < W THEN w[b + s] ELSE {}]

\* "*blk &= ~mask; *blk |= w;"
Merge(memory, blk, mask, w) == [memory EXCEPT ![blk] = Or(And(@, Bits \ mask), w)]

\* The bit of a memory at a place.
BitAt(memory, p) == memory[p \div W][p % W]
=============================================================================
