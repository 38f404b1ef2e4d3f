----------------------------- MODULE BitmapArena -----------------------------
(***************************************************************************)
(* bitmap_arena of src/stlext/allocators/bitmap_arena.hpp: blocks of one   *)
(* size, a bitmap with a bit for each free block, and a word-wise search   *)
(* for a run of free ones.  A word is the set of its bits that are set;    *)
(* the search is a step for each turn of its loops.                        *)
(***************************************************************************)
EXTENDS Integers, FiniteSetsExt

CONSTANTS
  BitsPerWord, \* BITSPERWORD
  BitmapSize,  \* BITMAPSIZE, in words
  Request,     \* how many blocks clients ask for
  CtzOfZero    \* what the build's __ctz(0) may yield

VARIABLES
  free,   \* __m_bitmap: the blocks whose bit is set
  nfree,  \* __m_nfree_blocks
  live,   \* how many blocks a client has from each block on, or 0
  pc,     \* where in __locate and __ffs_word the search is
  want,   \* __nblocks
  index,  \* __pfbb - bitmap
  word,   \* __word of __ffs_word
  offset, \* offset of __ffs_word, and of the search for more than a word
  count   \* bcnt

scan == <<pc, want, index, word, offset, count>>
vars == <<free, nfree, live, scan>>

BlockCount == BitsPerWord * BitmapSize
Block == 0..(BlockCount - 1)
Bits == 0..(BitsPerWord - 1)

Word(k) == {i \in Bits : k * BitsPerWord + i \in free}

Shr(w, s) == {i - s : i \in {j \in w : j >= s}}

\* __clz(~w): how many of the highest bits of w are set.
LeadingOnes(w) == BitsPerWord - 1 - Max((Bits \ w) \union {-1})

\* __ctz(~w): how many of the lowest bits of w are set.  A word with all bits
\* set breaks the precondition of __ctz: one instruction for it yields the width,
\* the other leaves the zero that was in the register.
TrailingOnes(w) == IF w = Bits THEN CtzOfZero ELSE {Min(Bits \ w)}

\* The word after the bitmap is __m_memblk, an aligned pointer: its lowest bits
\* are clear.
TrailingOnesAt(k) == IF k < BitmapSize THEN TrailingOnes(Word(k)) ELSE {0}

Mask(n) == 0..(n - 1)

\* A slip: the shift stops short of the highest used block.
NextShiftLess(w, n) == Max(Mask(n) \ w)

\* The highest used block among the lowest n decides how far to shift; but a
\* request for one block takes a branch that masks the shift with 2^32, which is
\* always zero.
NextShift(w, n) ==
  IF n = 1 /\ w \intersect Mask(n) = {} THEN 0 ELSE Max(Mask(n) \ w) + 1

\* A search for one block in a word whose lowest block is in use shifts by nothing for ever.
Spinning == pc = "shift" /\ want = 1 /\ 0 \notin word

-----------------------------------------------------------------------------
Init ==
  /\ free = Block
  /\ nfree = BlockCount
  /\ live = [b \in Block |-> 0]
  /\ pc = "idle" /\ want = 0 /\ index = 0 /\ word = {} /\ offset = 0 /\ count = 0

\* The bits that __mark_segments fills: the rest of the first word, then whole
\* words and the beginning of the last one.
Segments(pos, n) ==
  LET first == Min({n, BitsPerWord - (pos % BitsPerWord)})
      next(k) == (pos + first + k * BitsPerWord)
      left(k) == n - first - k * BitsPerWord IN
  (pos..(pos + first - 1))
    \union UNION {next(k)..(next(k) + Min({left(k), BitsPerWord}) - 1) :
                    k \in {j \in 0..BitmapSize : left(j) > 0}}

Idle == /\ pc' = "idle" /\ want' = 0 /\ index' = 0 /\ word' = {} /\ offset' = 0 /\ count' = 0

\* __mark_segments(pos, USED, n)
MarkUsed(pos, n) ==
  /\ free' = free \ Segments(pos, n)
  /\ nfree' = nfree - n

Found(pos) ==
  /\ IF pos < BlockCount
     THEN MarkUsed(pos, want) /\ live' = [live EXCEPT ![pos] = want]
     ELSE UNCHANGED <<free, nfree, live>>
  /\ Idle

NotFound == Idle /\ UNCHANGED <<free, nfree, live>>

\* allocate(): a request that is more than all free blocks is refused at once.
Allocate(n) ==
  /\ pc = "idle"
  /\ n <= nfree
  /\ pc' = IF n < BitsPerWord THEN "word" ELSE "first"
  /\ want' = n
  /\ UNCHANGED <<free, nfree, live, index, word, offset, count>>

Move(k, at) == index' = k /\ pc' = at

\* The bound that __locate is given lies far behind the bitmap; past its end
\* no position is one of a block.
PastEnd ==
  /\ pc \in {"word", "first"} /\ index >= BitmapSize
  /\ NotFound

\* A word for a run that begins in it.
EnterWord ==
  /\ pc = "word" /\ index < BitmapSize
  /\ IF Word(index) = {}
     THEN Move(index + 1, "word") /\ UNCHANGED <<word, offset>>
     ELSE Move(index, "shift") /\ word' = Word(index) /\ offset' = 0
  /\ UNCHANGED <<free, nfree, live, want, count>>

\* One turn of the loop of __ffs_word.
ShiftWord ==
  LET s == NextShift(word, want)
      rest == Shr(word, s) IN
  /\ pc = "shift"
  /\ IF Mask(want) \subseteq word
     THEN Found(index * BitsPerWord + offset)
     ELSE /\ word' = rest
          /\ IF rest = {} THEN Move(index, "gap") /\ UNCHANGED offset
             ELSE offset' = offset + s /\ UNCHANGED <<pc, index>>
          /\ UNCHANGED <<free, nfree, live, want, count>>

\* A slip: the blocks after the boundary are not needed.
JoinWordsLoose ==
  LET high == LeadingOnes(Word(index)) IN
  /\ pc = "gap"
  /\ IF high + 1 >= want
     THEN Found((index + 1) * BitsPerWord - high)
     ELSE Move(index + 1, "word") /\ UNCHANGED <<free, nfree, live, want, word, offset, count>>

\* The run may lie across the boundary to the next word.
JoinWords ==
  LET high == LeadingOnes(Word(index)) IN
  /\ pc = "gap"
  /\ \E low \in TrailingOnesAt(index + 1) :
       IF high + low >= want
       THEN Found((index + 1) * BitsPerWord - high)
       ELSE Move(index + 1, "word") /\ UNCHANGED <<free, nfree, live, want, word, offset, count>>

\* The first word of a run of at least a word's length ...
FirstWord ==
  LET high == LeadingOnes(Word(index)) IN
  /\ pc = "first" /\ index < BitmapSize
  /\ IF Word(index) = {}
     THEN Move(index + 1, "first") /\ UNCHANGED <<offset, count>>
     ELSE /\ Move(index + 1, "more")
          /\ count' = high
          /\ offset' = (index + 1) * BitsPerWord - high
  /\ UNCHANGED <<free, nfree, live, want, word>>

\* ... and the words after it; the word that ends a run is not looked at again.
MoreWords ==
  /\ pc = "more"
  /\ \E low \in TrailingOnesAt(index) :
       IF count + low >= want THEN Found(offset)
       ELSE /\ Move(index + 1, IF low < BitsPerWord THEN "first" ELSE "more")
            /\ count' = count + low
            /\ UNCHANGED <<free, nfree, live, want, word, offset>>

\* The client gives back what it has from block b on.
Deallocate(b) ==
  /\ pc = "idle" /\ live[b] > 0
  /\ free' = free \union Segments(b, live[b])
  /\ nfree' = nfree + live[b]
  /\ live' = [live EXCEPT ![b] = 0]
  /\ UNCHANGED scan

Search == PastEnd \/ EnterWord \/ ShiftWord \/ JoinWords \/ FirstWord \/ MoreWords

Next ==
  \/ \E n \in Request : Allocate(n)
  \/ Search
  \/ \E b \in Block : Deallocate(b)

\* A call runs to its end.
Spec == Init /\ [][Next]_vars /\ WF_vars(Search)

-----------------------------------------------------------------------------
(* Properties *)

Extent(b) == b..(b + live[b] - 1)

InUse == {b \in Block : live[b] > 0}

\* The bitmap and its counter say exactly which blocks no client has, whatever
\* runs across words have been taken and given back.
BitmapExact ==
  /\ free = Block \ UNION {Extent(b) : b \in InUse}
  /\ nfree = Cardinality(free)

Run(n) == \E b \in Block : b..(b + n - 1) \subseteq free

\* A request for less than a word is refused only when no run of so many free blocks
\* exists, in a word or across two: fragmentation is the only reason to fail.
RefusedOnlyWhenNone ==
  (pc # "idle" /\ pc' = "idle" /\ live' = live /\ want < BitsPerWord) => ~Run(want)

Promise == INSTANCE Arena WITH
             Cell <- Block,
             Bytes <- Request,
             blocks <- {[cells |-> Extent(b), size |-> live[b]] : b \in InUse}
=============================================================================
