----------------------------- MODULE BitVector ------------------------------
(***************************************************************************)
(* bitvector of src/stlext/bitvector/bitvector.hpp over the storage of     *)
(* bitstorage.hpp for small vectors: the bits are in two words of the      *)
(* vector, below a control block that holds their number, or in a block    *)
(* of words on the heap.  A call that changes the size may move them from  *)
(* one to the other, and leaves in the words behind the bits whatever was  *)
(* there.                                                                  *)
(*                                                                         *)
(* Left out: insertion before the end of copies of a bit, and of a list    *)
(* shorter than what is behind it, which write over bits that are still to *)
(* be moved; and >>= where the last word holds more than the bits, all of  *)
(* which it would move into them, or where there are none and it would     *)
(* shift the word before the vector.  A constructor is Init and one of the *)
(* calls; the words of a copy are those of the original.  Where the bits   *)
(* fill their block, sanitizing reads and writes back a word behind it.    *)
(***************************************************************************)
EXTENDS Integers

CONSTANTS
  WordBits,   \* bpw, that is bpp: words are as wide as pointers
  ByteBits,   \* CHAR_BIT, the width of the control block too
  Unknown,    \* a bit that is not one of the vector and was not cleared
  BitsOf,     \* the patterns given to calls, as the sets of their ones
  MaxBits     \* the bound on the size

VARIABLES
  cells,     \* the bits in the storage, those of whole words
  size,
  expected   \* the bits that the calls until now should have given, an observer

vars == <<cells, size, expected>>

Bit == {0, 1}

\* max_local_bits
MaxLocal == 2 * WordBits - ByteBits
FitLocal(n) == n < MaxLocal

\* bit_traits::bit_space, in bits.
BitSpace(n) == WordBits * ((n + WordBits - 1) \div WordBits)

Now == [cells |-> cells, size |-> size]

\* The two words of a vector; its control block is no part of the bits.
InWords(bits) ==
  [p \in 0..(2 * WordBits - 1) |->
     IF p < MaxLocal /\ p \in DOMAIN bits THEN bits[p] ELSE Unknown]

Cleared == [cells |-> InWords([p \in 0..(MaxLocal - 1) |-> 0]), size |-> 0]

Init == cells = Cleared.cells /\ size = 0 /\ expected = [p \in {} |-> 0]

\* bits written from a place on.
Put(cs, at, bits) ==
  [p \in DOMAIN cs |-> IF p - at \in DOMAIN bits THEN bits[p - at] ELSE cs[p]]

All(n, b) == [p \in 0..(n - 1) |-> b]
Pattern(ones, n) == [p \in 0..(n - 1) |-> IF p \in ones THEN 1 ELSE 0]

-----------------------------------------------------------------------------
(* The storage *)

\* __sanitize_bits: the last word above its bits, but for the control block.
Sanitize(v) ==
  [v EXCEPT !.cells = [p \in DOMAIN @ |->
     IF p >= v.size /\ p < BitSpace(v.size) /\ ~ (FitLocal(v.size) /\ p >= MaxLocal) THEN 0 ELSE @[p]]]

\* A new block with the words of the vector in front.
Block(v, n) ==
  [p \in 0..(BitSpace(n) - 1) |-> IF p < BitSpace(v.size) THEN v.cells[p] ELSE Unknown]

\* __expand: within the two words it is the number of the bits that changes and nothing else.
Expand(v, n) ==
  IF FitLocal(n) THEN [v EXCEPT !.size = n] ELSE Sanitize([cells |-> Block(v, n), size |-> n])

\* __shrink: a block of a vector that is local now goes into the words that held its address
\* and its size, of which it may leave the latter.
Shrink(v, n) ==
  Sanitize([cells |-> IF ~ FitLocal(n) THEN Block(v, n)
                      ELSE IF FitLocal(v.size) THEN v.cells
                      ELSE InWords([p \in 0..(BitSpace(n) - 1) |-> v.cells[p]]),
            size |-> n])

\* __resize
Resized(v, n) ==
  IF n = 0 THEN Cleared ELSE IF n < v.size THEN Shrink(v, n) ELSE Expand(v, n)

-----------------------------------------------------------------------------
(* Calls that change the size *)

Become(v, bits) == cells' = v.cells /\ size' = v.size /\ expected' = bits

\* The vector v with these bits written from a place on.
With(v, at, bits) == [v EXCEPT !.cells = Put(@, at, bits)]

\* The bits that should be there, the first k of them, with others behind.
Joined(k, bits, n) == [p \in 0..(k + n - 1) |-> IF p < k THEN expected[p] ELSE bits[p - k]]

\* resize and assign(n, on), which keeps the bits that there are.
Resize ==
  \E n \in 0..MaxBits, on \in Bit :
    LET v == Resized(Now, n) IN
    IF n > size THEN Become(With(v, size, All(n - size, on)), Joined(size, All(n - size, on), n - size))
                ELSE Become(v, Joined(n, All(0, on), 0))

\* assign(p, pn, nbits) of an array of words, whole ones where nbits is zero.
AssignWords ==
  \E n \in 0..MaxBits, ones \in BitsOf :
    Become(With(Resized(Now, n), 0, Pattern(ones, n)), Pattern(ones, n))

\* assign of a list, from its last value on; an empty one leaves the vector alone.
AssignList ==
  \E n \in 1..MaxBits, ones \in BitsOf :
    LET reversed == [p \in 0..(n - 1) |-> Pattern(ones, n)[n - 1 - p]] IN
    Become(Sanitize(With(Resized(Now, n), 0, reversed)), reversed)

\* assign of a range of bits, and of another vector: byte for byte, so that the last byte is
\* written above the bits as well.
AssignRange ==
  \E n \in 0..MaxBits, ones \in BitsOf :
    LET v == Resized(Now, n)
        written == ByteBits * ((n + ByteBits - 1) \div ByteBits) IN
    Become(With(With(v, n, [p \in 0..(written - n - 1) |-> Unknown]), 0, Pattern(ones, n)),
           Pattern(ones, n))

\* insert(end(), count, value)
InsertCopies ==
  \E n \in 1..MaxBits, b \in Bit :
    /\ size + n <= MaxBits
    /\ Become(With(Resized(Now, size + n), size, All(n, b)), Joined(size, All(n, b), n))

\* insert(pos, ilist): what is behind the place is copied from its first bit on.
InsertList ==
  \E at \in 0..size, n \in 1..MaxBits, ones \in BitsOf :
    LET tail     == [p \in 0..(size - at - 1) |-> cells[at + p]]
        reversed == [p \in 0..(n - 1) |-> Pattern(ones, n)[n - 1 - p]] IN
    /\ size - at <= n /\ size + n <= MaxBits
    /\ Become(With(With(Resized(Now, size + n), at + n, tail), at, reversed),
              [p \in 0..(size + n - 1) |-> IF p < at THEN expected[p]
                                           ELSE IF p < at + n THEN reversed[p - at]
                                           ELSE expected[p - n]])

\* erase: what is behind goes down, and then the vector shrinks.
Erase ==
  \E at \in 0..size, n \in 0..size :
    /\ at + n <= size
    /\ Become(Resized(With(Now, at, [p \in 0..(size - at - n - 1) |-> cells[at + n + p]]), size - n),
              [p \in 0..(size - n - 1) |-> IF p < at THEN expected[p] ELSE expected[p + n]])

Clear == Become(Cleared, All(0, 0))

-----------------------------------------------------------------------------
(* Calls that do not *)

Inverse(b) == IF b \in Bit THEN 1 - b ELSE Unknown

SetBit ==
  \E at \in 0..(size - 1), b \in Bit :
    Become(With(Now, at, All(1, b)), [expected EXCEPT ![at] = b])

FlipBit ==
  \E at \in 0..(size - 1) :
    Become(With(Now, at, All(1, Inverse(cells[at]))), [expected EXCEPT ![at] = Inverse(@)])

SetAll == \E b \in Bit : Become(With(Now, 0, All(size, b)), All(size, b))

FlipAll ==
  Become(With(Now, 0, [p \in 0..(size - 1) |-> Inverse(cells[p])]),
         [p \in DOMAIN expected |-> Inverse(expected[p])])

\* &=, |= and ^= with another vector of the same size.
Combine ==
  \E op \in {"and", "or", "xor"}, ones \in BitsOf :
    LET Combined(f) == [p \in 0..(size - 1) |->
                          IF op = "and" THEN (IF p \in ones THEN f[p] ELSE 0)
                          ELSE IF p \notin ones THEN f[p]
                          ELSE IF op = "or" THEN 1 ELSE Inverse(f[p])] IN
    Become(With(Now, 0, Combined(cells)), Combined(expected))

\* The words of the vector after a shift, their bits moved by k; the loops run from the end
\* that is overwritten last, and the control block is put back.
Shifted(k) ==
  LET moved == [p \in 0..(BitSpace(size) - 1) |->
                  IF p - k \in 0..(BitSpace(size) - 1) THEN cells[p - k] ELSE 0]
      words == With(Now, 0, moved) IN
  Sanitize(IF FitLocal(size) THEN [words EXCEPT !.cells = InWords(@)] ELSE words)

Clipped(k) == [p \in 0..(size - 1) |-> IF p - k \in 0..(size - 1) THEN expected[p - k] ELSE 0]

ShiftLeft == \E k \in 0..(MaxBits + 1) : Become(Shifted(k), Clipped(k))

ShiftRight ==
  \E k \in 0..(MaxBits + 1) :
    /\ size > 0 /\ \A p \in size..(BitSpace(size) - 1) : cells[p] = 0
    /\ Become(Shifted(-k), Clipped(-k))

Next ==
  \/ Resize \/ AssignWords \/ AssignList \/ AssignRange \/ InsertCopies \/ InsertList \/ Erase \/ Clear
  \/ SetBit \/ FlipBit \/ SetAll \/ FlipAll \/ Combine \/ ShiftLeft \/ ShiftRight

Spec == Init /\ [][Next]_vars

-----------------------------------------------------------------------------
(* Properties *)

\* The bits are what the calls should have made of them: none of them is a bit of the control
\* block, of an address or a size, or of memory that was never written.
ContentsExact == [p \in 0..(size - 1) |-> cells[p]] = expected

\* The storage has the words for its bits, no more and no fewer.
BlockExact == DOMAIN cells = 0..((IF FitLocal(size) THEN 2 * WordBits ELSE BitSpace(size)) - 1)
=============================================================================
