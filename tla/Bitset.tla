------------------------------- MODULE Bitset -------------------------------
(***************************************************************************)
(* bitset of src/stlext/bitvector/bitset.hpp: a fixed number of bits in    *)
(* whole words.  Calls work on the words, and comparison and hash look at  *)
(* all that the words hold, so that the bits above the last one must be    *)
(* zero after each call.                                                   *)
(***************************************************************************)
EXTENDS Integers

CONSTANTS
  WordBits,  \* bpw
  Size,      \* nbits
  BitsOf     \* the operands given to calls, as the sets of their ones

VARIABLES
  words,     \* __m_words, the set of the places of their ones
  expected   \* the set of the bits that should be set, an observer

vars == <<words, expected>>

Bits   == 0..(Size - 1)
nwords == (Size + WordBits - 1) \div WordBits
Places == 0..(WordBits * nwords - 1)

\* Without this after it, an operation on whole words may leave ones above the last bit.
Sanitize(ws) == {p \in ws : p < Size}

Init == \E b \in BOOLEAN : words = Sanitize(IF b THEN Places ELSE {}) /\ expected = IF b THEN Bits ELSE {}

Become(ws, bits) == words' = ws /\ expected' = bits

-----------------------------------------------------------------------------
\* set() and reset()
SetAll == Become(Sanitize(Places), Bits)
ResetAll == Become({}, {})

SetBit == \E at \in Bits : Become(words \cup {at}, expected \cup {at})
ResetBit == \E at \in Bits : Become(words \ {at}, expected \ {at})

Toggled(ws, ones) == (ws \ ones) \cup (ones \ ws)

FlipBit == \E at \in Bits : Become(Toggled(words, {at}), Toggled(expected, {at}))

\* flip() inverts a range of bits, ~ whole words.
FlipAll == Become(Toggled(words, Bits), Bits \ expected)
Invert == Become(Sanitize(Places \ words), Bits \ expected)

\* |=, &= and ^= with another set, itself one that these calls can make.
Combine ==
  \E ones \in BitsOf :
    \/ Become(Sanitize(words \cup ones), expected \cup ones)
    \/ Become(Sanitize(words \cap ones), expected \cap ones)
    \/ Become(Sanitize(Toggled(words, ones)), Toggled(expected, ones))

\* The word that begins at w, as the set of its ones from zero on, and the words made of such.
WordAt(k) == {p \in 0..(WordBits - 1) : k * WordBits + p \in words}
Joined(word) == UNION {{k * WordBits + p : p \in word[k]} : k \in 0..(nwords - 1)}

Shl(w, s) == {p + s : p \in w} \cap 0..(WordBits - 1)
Shr(w, s) == {p - s : p \in w} \cap 0..(WordBits - 1)

\* __bitwise_shl: words move up by whole words, and take in bits of the word below.
ShlWords(k) ==
  LET wshift == k \div WordBits
      offset == k % WordBits IN
  Joined([i \in 0..(nwords - 1) |->
            IF i < wshift THEN {}
            ELSE IF offset = 0 THEN WordAt(i - wshift)
            ELSE IF i = wshift THEN Shl(WordAt(0), offset)
            ELSE Shl(WordAt(i - wshift), offset) \cup Shr(WordAt(i - wshift - 1), WordBits - offset)])

\* __bitwise_shr: the same downwards.
ShrWords(k) ==
  LET wshift == k \div WordBits
      offset == k % WordBits
      wlimit == nwords - wshift - 1 IN
  Joined([i \in 0..(nwords - 1) |->
            IF i > wlimit THEN {}
            ELSE IF offset = 0 THEN WordAt(i + wshift)
            ELSE IF i = wlimit THEN Shr(WordAt(nwords - 1), offset)
            ELSE Shr(WordAt(i + wshift), offset) \cup Shl(WordAt(i + wshift + 1), WordBits - offset)])

\* A shift by all bits or more resets the set, and one by none changes nothing.
ShiftLeft ==
  \E k \in 0..(Size + 1) :
    Become(IF k >= Size THEN {} ELSE Sanitize(ShlWords(k)), {p \in Bits : p - k \in expected})

ShiftRight ==
  \E k \in 0..(Size + 1) :
    Become(IF k >= Size THEN {} ELSE Sanitize(ShrWords(k)), {p \in Bits : p + k \in expected})

Next ==
  \/ SetAll \/ ResetAll \/ SetBit \/ ResetBit \/ FlipBit \/ FlipAll \/ Invert
  \/ Combine \/ ShiftLeft \/ ShiftRight

Spec == Init /\ [][Next]_vars

-----------------------------------------------------------------------------
(* Properties *)

\* The words hold the bits that the calls should have made and nothing above them: two sets
\* of the same bits are equal word for word, and have one hash.
WordsExact == words = expected
=============================================================================
