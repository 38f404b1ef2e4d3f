-------------------------- MODULE AlgorithmsProofs --------------------------
(***************************************************************************)
(* Proofs about the iterators and algorithms of src/stlext/bitvector, for  *)
(* words of any width, memories of any length and ranges of any size; and  *)
(* about majority_element of src/stlext/algorithm/ext, for ranges of any   *)
(* length and any values.                                                  *)
(***************************************************************************)
EXTENDS BitAlgorithms, FiniteSetTheorems, TLAPS

-----------------------------------------------------------------------------
(* Words and places *)

\* A place is in one word, at one bit of it.
LEMMA WordSwap ==
  ASSUME NEW p, NEW q \in Int, NEW r \in Int, p = W * q + r
  PROVE  p = q * W + r
BY WordAssumption

LEMMA PlaceNamed ==
  ASSUME NEW p \in Int
  PROVE  \E q \in Int, r \in Bits : p = q * W + r /\ p \div W = q /\ p % W = r
<1> DEFINE q == p \div W
           r == p % W
<1>1. p = W * q + r
  BY WordAssumption
<1>2. q \in Int /\ r \in Bits /\ r \in Int
  BY WordAssumption DEF Bits
<1>3. p \div W = q /\ p % W = r
  OBVIOUS
<1> HIDE DEF q, r
<1>4. p = q * W + r
  BY <1>1, <1>2, WordSwap
<1> QED
  BY <1>2, <1>3, <1>4

LEMMA PlaceIs ==
  ASSUME NEW k \in Int, NEW b \in Bits
  PROVE  (k * W + b) \div W = k /\ (k * W + b) % W = b
BY WordAssumption DEF Bits

\* The bits of a word come before those of the next.
LEMMA WordBefore ==
  ASSUME NEW i \in Int, NEW j \in Int, i < j
  PROVE  i * W + W <= j * W
BY WordAssumption

LEMMA WordProduct ==
  ASSUME NEW i \in Int
  PROVE  i * W \in Int /\ (i + 1) * W = i * W + W /\ (i - 1) * W = i * W - W
BY WordAssumption

LEMMA WordSum ==
  ASSUME NEW i \in Int, NEW j \in Int
  PROVE  (i + j) * W = i * W + j * W /\ (i - j) * W = i * W - j * W
BY WordAssumption

-----------------------------------------------------------------------------
(* Iterators: wherever one is, += moves it by the distance it is given, forward and backward. *)

Iterator(x) == x = [blk |-> x.blk, ctz |-> x.ctz] /\ x.blk \in Int /\ x.ctz \in Bits

LEMMA PlaceInt ==
  ASSUME NEW x, Iterator(x) PROVE Place(x) \in Int
BY WordAssumption DEF Iterator, Place, Bits

LEMMA AtIs ==
  ASSUME NEW p \in Int PROVE Iterator(At(p)) /\ Place(At(p)) = p
<1>1. PICK q \in Int, r \in Bits : p = q * W + r /\ p \div W = q /\ p % W = r
  BY PlaceNamed
<1>2. At(p) = [blk |-> q, ctz |-> r]
  BY <1>1 DEF At
<1> QED
  BY <1>1, <1>2 DEF Iterator, Place

\* Division as C++ does it, of the numerator that operator+= gives it, rounds down.
LEMMA QuotientIs ==
  ASSUME NEW k \in Int, NEW c \in Bits, k < 0
  PROVE  Quotient((k - W) + c + 1, W) = (k + c) \div W
<1>0. k + c \in Int
  BY DEF Bits
<1>1. PICK q \in Int, r \in Bits : k + c = q * W + r /\ (k + c) \div W = q /\ (k + c) % W = r
  BY <1>0, PlaceNamed
<1>2. q * W \in Int /\ (-q) * W = -(q * W)
  BY WordAssumption
<1>3. -((k - W) + c + 1) = (-q) * W + (W - 1 - r)
  BY <1>1, <1>2, WordAssumption DEF Bits
<1>4. (-((k - W) + c + 1)) \div W = -q
  <2>1. -q \in Int /\ W - 1 - r \in Bits
    BY WordAssumption DEF Bits
  <2> QED
    BY <1>3, <2>1, PlaceIs
<1>5. (k - W) + c + 1 < 0
  BY WordAssumption DEF Bits
<1>6. Quotient((k - W) + c + 1, W) = -((-((k - W) + c + 1)) \div W)
  BY <1>5, WordAssumption DEF Quotient, Bits
<1> QED
  BY <1>1, <1>4, <1>6

LEMMA PlusMoves ==
  ASSUME NEW x, Iterator(x), NEW k \in Int
  PROVE  Iterator(Plus(x, k)) /\ Place(Plus(x, k)) = Place(x) + k
<1> DEFINE c == x.ctz
<1>1. x.blk \in Int /\ c \in Bits /\ c \in Int /\ k + c \in Int
  BY DEF Iterator, Bits
<1>2. Plus(x, k).blk = x.blk + (k + c) \div W
  <2>1. CASE k >= 0
    BY <2>1 DEF Plus
  <2>2. CASE k < 0
    <3>1. Plus(x, k).blk = x.blk + Quotient((k - W) + c + 1, W)
      BY <2>2 DEF Plus
    <3> QED
      BY <1>1, <2>2, <3>1, QuotientIs
  <2> QED
    BY <2>1, <2>2
<1>3. Plus(x, k).ctz = (k + c) % W
  <2>1. PICK q \in Int, r \in Bits : k = q * W + r /\ k % W = r
    BY PlaceNamed
  <2>0. r + c \in Int
    BY <1>1 DEF Bits
  <2>2. PICK q1 \in Int, r1 \in Bits : r + c = q1 * W + r1 /\ (r + c) % W = r1
    BY <2>0, PlaceNamed
  <2>3. (q + q1) * W = q * W + q1 * W /\ q * W \in Int /\ q1 * W \in Int
    BY WordSum, WordProduct
  <2>4. k + c = (q + q1) * W + r1
    BY <1>1, <2>1, <2>2, <2>3 DEF Bits
  <2>5. (k + c) % W = r1
    BY <2>4, PlaceIs
  <2> QED
    BY <2>1, <2>2, <2>5 DEF Plus
<1>4. PICK q \in Int, r \in Bits : k + c = q * W + r /\ (k + c) \div W = q /\ (k + c) % W = r
  BY <1>1, PlaceNamed
<1>5. Plus(x, k).blk = x.blk + q /\ Plus(x, k).ctz = r /\ Plus(x, k) = [blk |-> Plus(x, k).blk, ctz |-> Plus(x, k).ctz]
  BY <1>2, <1>3, <1>4 DEF Plus
<1>6. (x.blk + q) * W = x.blk * W + q * W /\ x.blk * W \in Int /\ q * W \in Int
  BY <1>1, WordSum, WordProduct
<1>7. Iterator(Plus(x, k))
  BY <1>1, <1>5 DEF Iterator
<1>8. Place(Plus(x, k)) = x.blk * W + q * W + r
  BY <1>5, <1>6 DEF Place, Bits
<1> HIDE DEF c
<1> QED
  BY <1>1, <1>4, <1>6, <1>7, <1>8 DEF Place, Bits, c

LEMMA SuccMoves ==
  ASSUME NEW x, Iterator(x)
  PROVE  Iterator(Succ(x)) /\ Place(Succ(x)) = Place(x) + 1
<1>1. x.blk \in Int /\ x.ctz \in Bits /\ x = [blk |-> x.blk, ctz |-> x.ctz]
  BY DEF Iterator
<1>2. x.blk * W \in Int /\ (x.blk + 1) * W = x.blk * W + W
  BY <1>1, WordProduct
<1>3. CASE x.ctz # W - 1
  <2>1. Succ(x) = [blk |-> x.blk, ctz |-> x.ctz + 1]
    BY <1>1, <1>3 DEF Succ
  <2> QED
    BY <1>1, <1>2, <1>3, <2>1, WordAssumption DEF Iterator, Place, Bits
<1>4. CASE x.ctz = W - 1
  <2>1. Succ(x) = [blk |-> x.blk + 1, ctz |-> 0]
    BY <1>4 DEF Succ
  <2> QED
    BY <1>1, <1>2, <1>4, <2>1, WordAssumption DEF Iterator, Place, Bits
<1> QED
  BY <1>3, <1>4

LEMMA PredMoves ==
  ASSUME NEW x, Iterator(x)
  PROVE  Iterator(Pred(x)) /\ Place(Pred(x)) = Place(x) - 1
<1>1. x.blk \in Int /\ x.ctz \in Bits /\ x = [blk |-> x.blk, ctz |-> x.ctz]
  BY DEF Iterator
<1>2. x.blk * W \in Int /\ (x.blk - 1) * W = x.blk * W - W
  BY <1>1, WordProduct
<1>3. CASE x.ctz # 0
  <2>1. Pred(x) = [blk |-> x.blk, ctz |-> x.ctz - 1]
    BY <1>1, <1>3 DEF Pred
  <2>2. x.ctz - 1 \in Bits
    BY <1>1, <1>3, WordAssumption DEF Bits
  <2> QED
    BY <1>1, <1>2, <2>1, <2>2 DEF Iterator, Place, Bits
<1>4. CASE x.ctz = 0
  <2>1. Pred(x) = [blk |-> x.blk - 1, ctz |-> W - 1]
    BY <1>4 DEF Pred
  <2> QED
    BY <1>1, <1>2, <1>4, <2>1, WordAssumption DEF Iterator, Place, Bits
<1> QED
  BY <1>3, <1>4

\* Two iterators are in the order of their places.
LEMMA PlacesOrder ==
  ASSUME NEW x, NEW y, Iterator(x), Iterator(y)
  PROVE  /\ Distance(x, y) = Place(x) - Place(y)
         /\ Less(x, y) <=> Place(x) < Place(y)
         /\ Equal(x, y) <=> Place(x) = Place(y)
<1>1. x.blk \in Int /\ x.ctz \in Bits /\ y.blk \in Int /\ y.ctz \in Bits
  BY DEF Iterator
<1>2. x.blk * W \in Int /\ y.blk * W \in Int /\ (x.blk - y.blk) * W = x.blk * W - y.blk * W
  BY <1>1, WordProduct, WordSum
<1>3. Distance(x, y) = Place(x) - Place(y)
  BY <1>1, <1>2 DEF Distance, Place, Bits
<1>4. CASE x.blk = y.blk
  BY <1>1, <1>2, <1>3, <1>4 DEF Less, Equal, Place, Bits
<1>5. CASE x.blk < y.blk
  <2>1. x.blk * W + W <= y.blk * W
    BY <1>1, <1>5, WordBefore
  <2> QED
    BY <1>1, <1>2, <1>3, <1>5, <2>1, WordAssumption DEF Less, Equal, Place, Bits
<1>6. CASE y.blk < x.blk
  <2>1. y.blk * W + W <= x.blk * W
    BY <1>1, <1>6, WordBefore
  <2> QED
    BY <1>1, <1>2, <1>3, <1>6, <2>1, WordAssumption DEF Less, Equal, Place, Bits
<1> QED
  BY <1>1, <1>4, <1>5, <1>6

CursorsKept ==
  /\ Iterator(first) /\ Iterator(result)
  /\ m = <<m[1], m[2]>> /\ m[1] = Place(first) /\ m[2] = Place(result)

LEMMA CursorsInit ==
  ASSUME Cursors PROVE CursorsKept
BY AtIs DEF Cursors, CursorsKept

LEMMA CursorsMove ==
  ASSUME CursorsKept, MoveCursors PROVE CursorsKept'
<1>1. Iterator(first) /\ Iterator(result) /\ Place(first) \in Int /\ Place(result) \in Int
  BY PlaceInt DEF CursorsKept
<1>2. ASSUME NEW x, NEW k \in Int, Iterator(x), Place(x) = Place(first) + k, MovedTo(x, k)
      PROVE  CursorsKept'
  <2>1. m' = <<m[1] + k, m[2]>>
    BY <1>2 DEF MovedTo, CursorsKept
  <2> QED
    BY <1>2, <2>1 DEF MovedTo, CursorsKept, Place, Iterator
<1>3. CASE Advance
  BY <1>1, <1>2, <1>3, SuccMoves DEF Advance
<1>4. CASE Retreat
  <2>1. Place(Pred(first)) = Place(first) + (-1)
    BY <1>1, PredMoves
  <2> QED
    BY <1>1, <1>2, <1>4, <2>1, PredMoves DEF Retreat
<1>5. CASE Jump
  <2>1. PICK k \in (-MaxPlace)..MaxPlace : MovedTo(Plus(first, k), k) \/ MovedTo(Minus(first, -k), k)
    BY <1>5 DEF Jump
  <2>2. k \in Int /\ -(-k) = k
    OBVIOUS
  <2>3. Minus(first, -k) = Plus(first, k)
    BY <2>2 DEF Minus
  <2> QED
    BY <1>1, <1>2, <2>1, <2>2, <2>3, PlusMoves
<1>6. CASE Exchange
  BY <1>6 DEF Exchange, CursorsKept, Place, Iterator
<1> QED
  BY <1>3, <1>4, <1>5, <1>6 DEF MoveCursors

LEMMA CursorsGood ==
  ASSUME CursorsKept PROVE MovesAddUp /\ OrderExact
<1>1. MovesAddUp
  BY DEF CursorsKept, MovesAddUp, Iterator
<1>2. OrderExact
  BY PlacesOrder DEF CursorsKept, OrderExact
<1> QED
  BY <1>1, <1>2

-----------------------------------------------------------------------------
(* Memories *)

Word == 0..(Words - 1)

\* The places of the memory are those of its words.
LEMMA PlaceInMemory ==
  ASSUME NEW j \in Int, NEW b \in Bits
  PROVE  (0 <= j * W + b /\ j * W + b < W * Words) <=> j \in Word
<1>1. j * W \in Int /\ Words * W = W * Words /\ 0 * W = 0 /\ b \in Int
  BY WordAssumption DEF Bits
<1>2. CASE j < 0
  BY <1>1, <1>2, WordBefore, WordAssumption DEF Bits, Word
<1>3. CASE j >= Words
  <2>1. Words * W <= j * W
    BY <1>1, <1>3, WordBefore, WordAssumption
  <2> QED
    BY <1>1, <1>3, <2>1, WordAssumption DEF Bits, Word
<1>4. CASE j \in Word
  <2>1. j * W + W <= Words * W
    BY <1>4, WordBefore, WordAssumption DEF Word
  <2>2. 0 <= j * W
    BY <1>4, WordAssumption DEF Word
  <2> QED
    BY <1>1, <1>4, <2>1, <2>2, WordAssumption DEF Bits
<1> QED
  BY <1>2, <1>3, <1>4, WordAssumption DEF Word

\* The place of a bit of a word: its name in a fresh memory.
Spot(j, b) == j * W + b

LEMMA SpotInt ==
  ASSUME NEW j \in Word, NEW b \in Bits
  PROVE  Spot(j, b) \in Int /\ Spot(j, b) \in Places
<1>1. j \in Int /\ j * W \in Int /\ b \in Int
  BY WordProduct DEF Word, Bits
<1>2. 0 <= j * W + b /\ j * W + b < W * Words
  BY <1>1, PlaceInMemory
<1> QED
  BY <1>1, <1>2, WordAssumption DEF Spot, Places

\* The words of memory2 are those of memory1, but for the n bits at p, which are those of w
\* from c on.
Deposited(memory1, memory2, p, w, c, k) ==
  /\ DOMAIN memory2 = Word
  /\ \A j \in Word, b \in Bits :
       memory2[j][b] = IF Spot(j, b) - p \in 0..(k - 1) THEN w[c + (Spot(j, b) - p)] ELSE memory1[j][b]

LEMMA MergeIs ==
  ASSUME NEW M, DOMAIN M = Word, NEW k, NEW mask, NEW w,
         \A b \in Bits : b \notin mask => w[b] = {}
  PROVE  /\ DOMAIN Merge(M, k, mask, w) = Word
         /\ \A j \in Word, b \in Bits :
              Merge(M, k, mask, w)[j][b] = IF j = k /\ b \in mask THEN w[b] ELSE M[j][b]
<1>1. DOMAIN Merge(M, k, mask, w) = Word
  BY DEF Merge
<1>2. ASSUME NEW j \in Word, NEW b \in Bits
      PROVE  Merge(M, k, mask, w)[j][b] = IF j = k /\ b \in mask THEN w[b] ELSE M[j][b]
  <2>1. CASE j # k
    BY <1>2, <2>1 DEF Merge
  <2>2. CASE j = k
    <3>1. Merge(M, k, mask, w)[j] = Or(And(M[k], Bits \ mask), w)
      BY <1>2, <2>2 DEF Merge
    <3>2. Or(And(M[k], Bits \ mask), w)[b] = And(M[k], Bits \ mask)[b] \cup w[b]
      BY DEF Or
    <3>3. And(M[k], Bits \ mask)[b] = IF b \in Bits \ mask THEN M[k][b] ELSE {}
      BY DEF And
    <3>4. CASE b \in mask
      <4>1. Merge(M, k, mask, w)[j][b] = {} \cup w[b]
        BY <3>1, <3>2, <3>3, <3>4
      <4> QED
        BY <2>2, <3>4, <4>1
    <3>5. CASE b \notin mask
      <4>1. Merge(M, k, mask, w)[j][b] = M[k][b] \cup {}
        BY <3>1, <3>2, <3>3, <3>5
      <4> QED
        BY <2>2, <3>5, <4>1
    <3> QED
      BY <3>4, <3>5
  <2> QED
    BY <2>1, <2>2
<1> QED
  BY <1>1, <1>2

\* Bits that are put into one word.
LEMMA PutNear ==
  ASSUME NEW M, NEW M2, NEW B \in Int, NEW r \in Bits, NEW w, NEW c \in Int, NEW k \in Nat, r + k <= W,
         DOMAIN M2 = Word,
         \A j \in Word, b \in Bits :
           M2[j][b] = IF j = B /\ r <= b /\ b < r + k THEN w[b - r + c] ELSE M[j][b]
  PROVE  Deposited(M, M2, B * W + r, w, c, k)
<1> SUFFICES ASSUME NEW j \in Word, NEW b \in Bits
             PROVE  M2[j][b] = IF Spot(j, b) - (B * W + r) \in 0..(k - 1)
                               THEN w[c + (Spot(j, b) - (B * W + r))] ELSE M[j][b]
  BY DEF Deposited
<1>1. j \in Int /\ j * W \in Int /\ B * W \in Int /\ b \in Int /\ r \in Int /\ W \in Int
      /\ Spot(j, b) = j * W + b
  BY WordProduct, WordAssumption DEF Word, Bits, Spot
<1>2. CASE j = B
  <2>1. Spot(j, b) - (B * W + r) = b - r
    BY <1>1, <1>2
  <2>2. c + (b - r) = b - r + c
    BY <1>1
  <2> QED
    BY <1>1, <1>2, <2>1, <2>2
<1>3. CASE j < B
  <2>1. j * W + W <= B * W
    BY <1>1, <1>3, WordBefore
  <2>2. Spot(j, b) - (B * W + r) \notin 0..(k - 1)
    BY <1>1, <2>1 DEF Bits
  <2> QED
    BY <1>1, <1>3, <2>2
<1>4. CASE B < j
  <2>1. B * W + W <= j * W
    BY <1>1, <1>4, WordBefore
  <2>2. Spot(j, b) - (B * W + r) \notin 0..(k - 1)
    BY <1>1, <2>1 DEF Bits
  <2> QED
    BY <1>1, <1>4, <2>2
<1> QED
  BY <1>1, <1>2, <1>3, <1>4

\* Bits that are put into two words.
LEMMA PutBoth ==
  ASSUME NEW M, NEW M2, NEW B \in Int, NEW r \in Bits, NEW w, NEW c \in Int,
         NEW k \in Nat, W <= r + k, k <= W,
         DOMAIN M2 = Word,
         \A j \in Word, b \in Bits :
           M2[j][b] = IF j = B /\ r <= b THEN w[b - r + c]
                      ELSE IF j = B + 1 /\ b < r + k - W THEN w[b + (W - r) + c] ELSE M[j][b]
  PROVE  Deposited(M, M2, B * W + r, w, c, k)
<1> SUFFICES ASSUME NEW j \in Word, NEW b \in Bits
             PROVE  M2[j][b] = IF Spot(j, b) - (B * W + r) \in 0..(k - 1)
                               THEN w[c + (Spot(j, b) - (B * W + r))] ELSE M[j][b]
  BY DEF Deposited
<1>1. j \in Int /\ j * W \in Int /\ B * W \in Int /\ b \in Int /\ r \in Int /\ W \in Int
      /\ Spot(j, b) = j * W + b
  BY WordProduct, WordAssumption DEF Word, Bits, Spot
<1>2. CASE j = B
  <2>1. Spot(j, b) - (B * W + r) = b - r
    BY <1>1, <1>2
  <2>2. c + (b - r) = b - r + c
    BY <1>1
  <2>3. b < W
    BY <1>1 DEF Bits
  <2> QED
    BY <1>1, <1>2, <2>1, <2>2, <2>3
<1>3. CASE j = B + 1
  <2>1. (B + 1) * W = B * W + W
    BY WordProduct
  <2>2. Spot(j, b) - (B * W + r) = b + (W - r)
    BY <1>1, <1>3, <2>1
  <2>3. c + (b + (W - r)) = b + (W - r) + c
    BY <1>1
  <2>4. b + (W - r) \in 0..(k - 1) <=> b < r + k - W
    BY <1>1 DEF Bits
  <2>5. j # B
    BY <1>3
  <2> QED
    BY <1>3, <2>2, <2>3, <2>4, <2>5
<1>4. CASE j < B
  <2>1. j * W + W <= B * W
    BY <1>1, <1>4, WordBefore
  <2>2. Spot(j, b) - (B * W + r) \notin 0..(k - 1)
    BY <1>1, <2>1 DEF Bits
  <2> QED
    BY <1>1, <1>4, <2>2
<1>5. CASE B + 1 < j
  <2>1. (B + 1) * W + W <= j * W /\ (B + 1) * W = B * W + W
    BY <1>1, <1>5, WordBefore, WordProduct
  <2>2. Spot(j, b) - (B * W + r) \notin 0..(k - 1)
    BY <1>1, <2>1 DEF Bits
  <2> QED
    BY <1>1, <1>5, <2>2
<1> QED
  BY <1>1, <1>2, <1>3, <1>4, <1>5

\* A word shifted by the difference of two places in a word.
LEMMA ShiftedIs ==
  ASSUME NEW w, NEW r \in Bits \cup {W}, NEW c \in Bits \cup {W}, NEW b \in Bits
  PROVE  /\ r > c => Shl(w, r - c)[b] = IF b - r + c \in Bits THEN w[b - r + c] ELSE {}
         /\ r <= c => Shr(w, c - r)[b] = IF b - r + c \in Bits THEN w[b - r + c] ELSE {}
<1>1. b \in Int /\ r \in Int /\ c \in Int /\ W \in Int
  BY WordAssumption DEF Bits
<1>2. b - (r - c) = b - r + c /\ b + (c - r) = b - r + c
  BY <1>1
<1>3. ASSUME r > c PROVE b >= r - c <=> b - r + c \in Bits
  BY <1>1, <1>3 DEF Bits
<1>4. ASSUME r <= c PROVE b + (c - r) < W <=> b - r + c \in Bits
  BY <1>1, <1>4 DEF Bits
<1> QED
  BY <1>2, <1>3, <1>4 DEF Shl, Shr

-----------------------------------------------------------------------------
(* rotate.  The invariant: what is left to be rotated are two parts that follow one another,
   up to the end of the call, and to rotate them is to rotate the whole; or the call is over. *)

RotateTyped ==
  /\ call.first \in Nat /\ call.middle \in Nat /\ call.last \in Nat /\ call.last <= Length
  /\ call.first <= call.middle /\ call.middle <= call.last
  /\ DOMAIN memory = 0..(Length - 1)
  /\ first \in Nat /\ result \in Nat /\ n \in Nat /\ m \in Nat

PartsFollow == result = first + n /\ result + m = call.last /\ call.first <= first

RotateKept ==
  /\ RotateTyped
  /\ PartsFollow \/ (n = 0 /\ m = 0)
  /\ Rotate!RestRotates
  /\ pc = FALSE

LEMMA RotateInit ==
  ASSUME Rotate!Init PROVE RotateKept
<1>1. RotateTyped /\ PartsFollow /\ pc = FALSE
  <2>1. /\ call.first \in 0..Length /\ call.middle \in 0..Length /\ call.last \in 0..Length
        /\ call.first <= call.middle /\ call.middle <= call.last
    BY DEF Rotate!Init
  <2>2. DOMAIN memory = 0..(Length - 1)
    BY DEF Rotate!Init
  <2>3. first = call.first /\ result = call.middle /\ n = result - first /\ m = call.last - result /\ pc = FALSE
    BY DEF Rotate!Init
  <2> QED
    BY RotateAssumption, <2>1, <2>2, <2>3 DEF RotateTyped, PartsFollow
<1>2. Rotate!RestRotates
  <2> SUFFICES ASSUME NEW p \in 0..(Length - 1) PROVE Rotate!Rest(p) = Rotate!Goal(p)
    BY <1>1 DEF Rotate!RestRotates, RotateTyped
  <2>1. \A q \in 0..(Length - 1) : memory[q] = q
    BY DEF Rotate!Init
  <2>2. first = call.first /\ result = call.middle
    BY DEF Rotate!Init
  <2>3. /\ n \in Nat /\ m \in Nat /\ first \in Nat /\ result = first + n /\ call.last = result + m
        /\ call.last <= Length /\ Length \in Nat
    BY <1>1, RotateAssumption DEF RotateTyped, PartsFollow
  <2>4. Rotate!Goal(p) = IF p < first \/ p >= result + m THEN p ELSE IF p < first + m THEN p + n ELSE p - m
    BY <2>2, <2>3 DEF Rotate!Goal
  <2>5. CASE p < first \/ p >= result + m
    BY <2>1, <2>4, <2>5 DEF Rotate!Rest, Rotate!Last
  <2>6. CASE ~ (p < first \/ p >= result + m) /\ p < first + m
    <3>1. p + n \in 0..(Length - 1)
      BY <2>3, <2>6
    <3> QED
      BY <2>1, <2>4, <2>6, <3>1 DEF Rotate!Rest, Rotate!Last
  <2>7. CASE ~ (p < first \/ p >= result + m) /\ ~ (p < first + m)
    <3>1. p - m \in 0..(Length - 1)
      BY <2>3, <2>7
    <3> QED
      BY <2>1, <2>4, <2>7, <3>1 DEF Rotate!Rest, Rotate!Last
  <2> QED
    BY <2>5, <2>6, <2>7
<1> QED
  BY <1>1, <1>2 DEF RotateKept

LEMMA RotateSwapFirst ==
  ASSUME RotateKept, Rotate!SwapFirst PROVE RotateKept'
<1> USE RotateAssumption
<1>1. RotateTyped /\ PartsFollow /\ n # 0 /\ m # 0 /\ n <= m
  BY DEF RotateKept, Rotate!SwapFirst
<1>2. /\ memory' = Rotate!Swapped(first, n, result) /\ first' = result /\ result' = result + n
      /\ m' = m - n /\ n' = n /\ call' = call /\ pc' = ~ Rotate!Disjoint(first, n, result)
  BY DEF Rotate!SwapFirst
<1>3. pc' = FALSE
  <2>1. result = first + n /\ first \in Int /\ n \in Int /\ m \in Int /\ m <= m
    BY <1>1 DEF PartsFollow, RotateTyped
  <2>2. Rotate!Disjoint(first, n, result)
    BY <1>1, <2>1 DEF Rotate!Disjoint
  <2> QED
    BY <1>2, <2>2
<1>4. \A p \in 0..(Length - 1) :
        memory'[p] = IF p - first \in 0..(n - 1) THEN memory[result + p - first]
                     ELSE IF p - result \in 0..(n - 1) THEN memory[first + p - result] ELSE memory[p]
  BY <1>1, <1>2 DEF Rotate!Swapped, RotateTyped
<1>5. DOMAIN memory' = 0..(Length - 1)
  BY <1>1, <1>2 DEF Rotate!Swapped, RotateTyped, PartsFollow
<1>6. RotateTyped' /\ PartsFollow'
  BY <1>1, <1>2, <1>5 DEF RotateTyped, PartsFollow
<1>7. Rotate!RestRotates'
  <2> SUFFICES ASSUME NEW p \in 0..(Length - 1) PROVE Rotate!Rest(p)' = Rotate!Goal(p)'
    BY <1>5 DEF Rotate!RestRotates
  <2>1. Rotate!Goal(p)' = Rotate!Goal(p)
    BY <1>2 DEF Rotate!Goal
  <2>2. Rotate!Rest(p) = Rotate!Goal(p)
    BY <1>1 DEF RotateKept, Rotate!RestRotates, RotateTyped
  <2>3. Rotate!Rest(p)' = Rotate!Rest(p)
    <3>1. /\ n \in Nat /\ m \in Nat /\ first \in Nat /\ result = first + n /\ result + m <= Length
          /\ n # 0 /\ n <= m /\ Length \in Nat
      BY <1>1 DEF RotateTyped, PartsFollow
    <3>2. Rotate!Rest(p)' = IF p < result \/ p >= result + m THEN memory'[p]
                            ELSE IF p < result + (m - n) THEN memory'[p + n] ELSE memory'[p - (m - n)]
      BY <1>2, <3>1 DEF Rotate!Rest, Rotate!Last
    <3>3. Rotate!Rest(p) = IF p < first \/ p >= result + m THEN memory[p]
                           ELSE IF p < first + m THEN memory[p + n] ELSE memory[p - m]
      BY DEF Rotate!Rest, Rotate!Last
    <3>4. CASE p < result \/ p >= result + m
      BY <1>4, <3>1, <3>2, <3>3, <3>4
    <3>5. CASE ~ (p < result \/ p >= result + m) /\ p < result + (m - n)
      <4>1. p + n \in 0..(Length - 1)
        BY <3>1, <3>5
      <4> QED
        BY <1>4, <3>1, <3>2, <3>3, <3>5, <4>1
    <3>6. CASE ~ (p < result \/ p >= result + m) /\ ~ (p < result + (m - n))
      <4>1. p - (m - n) \in 0..(Length - 1)
        BY <3>1, <3>6
      <4> QED
        BY <1>4, <3>1, <3>2, <3>3, <3>6, <4>1
    <3> QED
      BY <3>4, <3>5, <3>6
  <2> QED
    BY <2>1, <2>2, <2>3
<1> QED
  BY <1>3, <1>6, <1>7 DEF RotateKept

LEMMA RotateSwapSecond ==
  ASSUME RotateKept, Rotate!SwapSecond PROVE RotateKept'
<1> USE RotateAssumption
<1>1. RotateTyped /\ PartsFollow /\ n # 0 /\ m # 0 /\ m < n
  BY DEF RotateKept, Rotate!SwapSecond, RotateTyped
<1>2. /\ memory' = Rotate!Swapped(first, m, result) /\ first' = first + m /\ result' = result
      /\ m' = m /\ n' = n - m /\ call' = call /\ pc' = ~ Rotate!Disjoint(first, m, result)
  BY DEF Rotate!SwapSecond
<1>3. pc' = FALSE
  <2>1. result = first + n /\ first \in Int /\ n \in Int /\ m \in Int /\ m <= m
    BY <1>1 DEF PartsFollow, RotateTyped
  <2>2. Rotate!Disjoint(first, m, result)
    BY <1>1, <2>1 DEF Rotate!Disjoint
  <2> QED
    BY <1>2, <2>2
<1>4. \A p \in 0..(Length - 1) :
        memory'[p] = IF p - first \in 0..(m - 1) THEN memory[result + p - first]
                     ELSE IF p - result \in 0..(m - 1) THEN memory[first + p - result] ELSE memory[p]
  BY <1>1, <1>2 DEF Rotate!Swapped, RotateTyped
<1>5. DOMAIN memory' = 0..(Length - 1)
  BY <1>1, <1>2 DEF Rotate!Swapped, RotateTyped, PartsFollow
<1>6. RotateTyped' /\ PartsFollow'
  BY <1>1, <1>2, <1>5 DEF RotateTyped, PartsFollow
<1>7. Rotate!RestRotates'
  <2> SUFFICES ASSUME NEW p \in 0..(Length - 1) PROVE Rotate!Rest(p)' = Rotate!Goal(p)'
    BY <1>5 DEF Rotate!RestRotates
  <2>1. Rotate!Goal(p)' = Rotate!Goal(p)
    BY <1>2 DEF Rotate!Goal
  <2>2. Rotate!Rest(p) = Rotate!Goal(p)
    BY <1>1 DEF RotateKept, Rotate!RestRotates, RotateTyped
  <2>3. Rotate!Rest(p)' = Rotate!Rest(p)
    BY <1>1, <1>2, <1>4 DEF Rotate!Rest, Rotate!Last, RotateTyped, PartsFollow
  <2> QED
    BY <2>1, <2>2, <2>3
<1> QED
  BY <1>3, <1>6, <1>7 DEF RotateKept

LEMMA RotateBufferFirst ==
  ASSUME RotateKept, Rotate!BufferFirst PROVE RotateKept'
<1> USE RotateAssumption
<1>1. RotateTyped /\ PartsFollow /\ n # 0 /\ m # 0 /\ n <= m
  BY DEF RotateKept, Rotate!BufferFirst
<1>2. /\ memory' = Rotate!Copied(Rotate!Copied(memory, memory, result, m, first), memory, first, n, first + m)
      /\ first' = first /\ result' = result /\ m' = 0 /\ n' = 0 /\ call' = call
      /\ pc' = ~ (first <= result)
  BY DEF Rotate!BufferFirst, Rotate!Finish
<1>3. pc' = FALSE
  <2>1. first <= result
    BY <1>1 DEF PartsFollow, RotateTyped
  <2> QED
    BY <1>2, <2>1
<1>4. \A p \in 0..(Length - 1) :
        memory'[p] = IF p - (first + m) \in 0..(n - 1) THEN memory[first + p - (first + m)]
                     ELSE IF p - first \in 0..(m - 1) THEN memory[result + p - first] ELSE memory[p]
  BY <1>1, <1>2 DEF Rotate!Copied, RotateTyped
<1>5. DOMAIN memory' = 0..(Length - 1)
  BY <1>1, <1>2 DEF Rotate!Copied, RotateTyped, PartsFollow
<1>6. RotateTyped'
  BY <1>1, <1>2, <1>5 DEF RotateTyped
<1>7. Rotate!RestRotates'
  <2> SUFFICES ASSUME NEW p \in 0..(Length - 1) PROVE Rotate!Rest(p)' = Rotate!Goal(p)'
    BY <1>5 DEF Rotate!RestRotates
  <2>1. Rotate!Goal(p)' = Rotate!Goal(p)
    BY <1>2 DEF Rotate!Goal
  <2>2. Rotate!Rest(p) = Rotate!Goal(p)
    BY <1>1 DEF RotateKept, Rotate!RestRotates, RotateTyped
  <2>3. Rotate!Rest(p)' = Rotate!Rest(p)
    BY <1>1, <1>2, <1>4 DEF Rotate!Rest, Rotate!Last, RotateTyped, PartsFollow
  <2> QED
    BY <2>1, <2>2, <2>3
<1> QED
  BY <1>2, <1>3, <1>6, <1>7 DEF RotateKept

LEMMA RotateBufferSecond ==
  ASSUME RotateKept, Rotate!BufferSecond PROVE RotateKept'
<1> USE RotateAssumption
<1>1. RotateTyped /\ PartsFollow /\ n # 0 /\ m # 0 /\ m < n
  BY DEF RotateKept, Rotate!BufferSecond, RotateTyped
<1>2. /\ memory' = Rotate!Copied(Rotate!Copied(memory, memory, first, n, Rotate!Last - n), memory, result, m, first)
      /\ first' = first /\ result' = result /\ m' = 0 /\ n' = 0 /\ call' = call
      /\ pc' = ~ (Rotate!Last - n >= first)
  BY DEF Rotate!BufferSecond, Rotate!Finish
<1>3. pc' = FALSE
  <2>1. Rotate!Last - n >= first
    BY <1>1 DEF PartsFollow, RotateTyped, Rotate!Last
  <2> QED
    BY <1>2, <2>1
<1>4. \A p \in 0..(Length - 1) :
        memory'[p] = IF p - first \in 0..(m - 1) THEN memory[result + p - first]
                     ELSE IF p - (result + m - n) \in 0..(n - 1) THEN memory[first + p - (result + m - n)] ELSE memory[p]
  BY <1>1, <1>2 DEF Rotate!Copied, RotateTyped, Rotate!Last
<1>5. DOMAIN memory' = 0..(Length - 1)
  BY <1>1, <1>2 DEF Rotate!Copied, RotateTyped, PartsFollow
<1>6. RotateTyped'
  BY <1>1, <1>2, <1>5 DEF RotateTyped
<1>7. Rotate!RestRotates'
  <2> SUFFICES ASSUME NEW p \in 0..(Length - 1) PROVE Rotate!Rest(p)' = Rotate!Goal(p)'
    BY <1>5 DEF Rotate!RestRotates
  <2>1. Rotate!Goal(p)' = Rotate!Goal(p)
    BY <1>2 DEF Rotate!Goal
  <2>2. Rotate!Rest(p) = Rotate!Goal(p)
    BY <1>1 DEF RotateKept, Rotate!RestRotates, RotateTyped
  <2>3. Rotate!Rest(p)' = Rotate!Rest(p)
    BY <1>1, <1>2, <1>4 DEF Rotate!Rest, Rotate!Last, RotateTyped, PartsFollow
  <2> QED
    BY <2>1, <2>2, <2>3
<1> QED
  BY <1>2, <1>3, <1>6, <1>7 DEF RotateKept

LEMMA RotateDone ==
  ASSUME RotateKept PROVE Rotate!RotateExact
<1>1. RotateTyped /\ Rotate!RestRotates
  BY DEF RotateKept
<1>2. CASE PartsFollow
  BY <1>1, <1>2 DEF Rotate!RotateExact, Rotate!Rotated, Rotate!RestRotates, Rotate!Rest, Rotate!Last,
       RotateTyped, PartsFollow
<1>3. CASE n = 0 /\ m = 0
  BY <1>1, <1>3 DEF Rotate!RotateExact, Rotate!Rotated, Rotate!RestRotates, Rotate!Rest, Rotate!Last, RotateTyped
<1> QED
  BY <1>2, <1>3 DEF RotateKept
-----------------------------------------------------------------------------
(* copy, copy_backward and flip_range.  The invariant: the bits of the target that are done
   are those of the source before the call, all other bits of the memory are as they were,
   and the cursors are at the places that come next. *)

FlipsAligned == call.op = "flip" /\ Move!Aligned

Apart == call.from + call.n <= call.to \/ call.to + call.n <= call.from

MoveCalled ==
  /\ call.op \in {"copy", "flip", "copy_backward"}
  /\ call.from \in Nat /\ call.to \in Nat /\ call.n \in Nat
  /\ call.from + call.n <= W * Words /\ call.to + call.n <= W * Words
  /\ Apart \/ IF Move!Backward THEN call.from <= call.to ELSE call.to <= call.from
  /\ FlipsAligned => call.from = call.to \/ (Apart /\ call.from % W = 0 /\ call.n % W = 0)

Done == call.n - n

\* The begin of the bits that are done, in the target.
DoneFrom == IF Move!Backward THEN call.to + n ELSE call.to

\* What is to be at a place of the target.
Moved(p) == LET from == call.from + (p - call.to) IN {IF call.op = "flip" THEN -1 - from ELSE from}

MemoryMoved ==
  /\ DOMAIN memory = Word
  /\ \A j \in Word, b \in Bits :
       memory[j][b] = IF Spot(j, b) - DoneFrom \in 0..(Done - 1) THEN Moved(Spot(j, b)) ELSE {Spot(j, b)}

\* How far a cursor is from where it began in a range.
Way == IF Move!Backward THEN n ELSE Done

CursorsMoved ==
  /\ Iterator(first) /\ Iterator(result)
  /\ ~ FlipsAligned \/ pc = "first" => Place(result) = call.to + Way
  /\ (~ FlipsAligned \/ pc = "first") /\ n > 0 => Place(first) = call.from + Way
  /\ FlipsAligned /\ pc = "words" => result.blk * W = call.to + Done /\ first.blk * W = call.from + Done
  /\ FlipsAligned /\ ~ Move!InPlace => n % W = 0

MovePhase ==
  /\ n \in 0..call.n
  /\ pc \in {"first", "middle", "last", "words", "done"}
  /\ pc = "first" => n = call.n /\ n > 0
  /\ pc \in {"middle", "last"} => ~ FlipsAligned /\ first.ctz = 0
  /\ pc = "words" => FlipsAligned /\ (Move!InPlace => n > 0)
  /\ pc = "last" => n < W
  /\ pc = "done" => n = 0

MoveKept == MoveCalled /\ MemoryMoved /\ CursorsMoved /\ MovePhase

\* The words of the instance are those of this module.
LEMMA MoveWords ==
  /\ Move!Bits = Bits
  /\ \A c : Move!Upper(c) = Upper(c) /\ Move!Lower(c) = Lower(c) /\ Move!At(c) = At(c)
  /\ \A c, k : Move!Window(c, k) = Window(c, k) /\ Move!Least(c, k) = Least(c, k) /\ Move!Past(c, k) = Past(c, k)
  /\ \A w : Move!Not(w) = Not(w)
  /\ \A w, x : /\ Move!And(w, x) = And(w, x) /\ Move!Or(w, x) = Or(w, x)
               /\ Move!Shl(w, x) = Shl(w, x) /\ Move!Shr(w, x) = Shr(w, x)
  /\ \A M, k, x, w : Move!Merge(M, k, x, w) = Merge(M, k, x, w)
<1>1. Move!Bits = Bits
  BY DEF Move!Bits, Bits
<1>2. \A c : Move!Upper(c) = Upper(c) /\ Move!Lower(c) = Lower(c) /\ Move!At(c) = At(c)
  BY <1>1 DEF Move!Upper, Upper, Move!Lower, Lower, Move!At, At
<1>3. \A c, k : Move!Window(c, k) = Window(c, k) /\ Move!Least(c, k) = Least(c, k) /\ Move!Past(c, k) = Past(c, k)
  BY <1>2 DEF Move!Window, Window, Move!Least, Least, Move!Past, Past
<1>4. \A w : Move!Not(w) = Not(w)
  BY <1>1 DEF Move!Not, Not
<1>5. \A w, x : /\ Move!And(w, x) = And(w, x) /\ Move!Or(w, x) = Or(w, x)
               /\ Move!Shl(w, x) = Shl(w, x) /\ Move!Shr(w, x) = Shr(w, x)
  BY <1>1, Zenon DEF Move!And, And, Move!Or, Or, Move!Shl, Shl, Move!Shr, Shr
<1>6. \A M, k, x, w : Move!Merge(M, k, x, w) = Merge(M, k, x, w)
  BY <1>1, <1>5, Zenon DEF Move!Merge, Merge
<1> QED
  BY <1>1, <1>2, <1>3, <1>4, <1>5, <1>6

\* The bits of a mask.
LEMMA MaskIs ==
  ASSUME NEW b \in Bits, NEW c \in Int, NEW k \in Int
  PROVE  /\ b \in Upper(c) <=> c <= b
         /\ b \in Lower(W - k) <=> b < k
         /\ b \in Window(c, k) <=> c <= b /\ b < c + k
BY WordAssumption DEF Upper, Lower, Window, Bits

\* No bit of a word is set but k bits from c on.
Only(w, c, k) == \A b \in Bits : ~ (c <= b /\ b < c + k) => w[b] = {}

LEMMA MaskedOnly ==
  ASSUME NEW w, NEW mask, NEW c, NEW k, \A b \in Bits : b \in mask <=> c <= b /\ b < c + k
  PROVE  /\ Only(And(w, mask), c, k)
         /\ \A b \in Bits : c <= b /\ b < c + k => And(w, mask)[b] = w[b]
BY DEF Only, And

\* Where a cursor is after k bits that do not fill its word and go on into the next.
LEMMA PastIs ==
  ASSUME NEW x, Iterator(x), NEW k \in Nat
  PROVE  Iterator(Past(x, k)) /\ Place(Past(x, k)) = Place(x) + k
<1>1. k + x.ctz \in Int /\ x.blk \in Int /\ x.blk * W \in Int /\ x.ctz \in Int
  BY WordProduct DEF Iterator, Bits
<1>2. PICK q \in Int, r \in Bits : k + x.ctz = q * W + r /\ (k + x.ctz) \div W = q /\ (k + x.ctz) % W = r
  BY <1>1, PlaceNamed
<1>3. Past(x, k) = [blk |-> x.blk + q, ctz |-> r]
  BY <1>2 DEF Past
<1>4. (x.blk + q) * W = x.blk * W + q * W /\ q * W \in Int
  BY <1>1, WordSum, WordProduct
<1>5. Place(Past(x, k)) = x.blk * W + q * W + r
  BY <1>3, <1>4 DEF Place
<1>6. Place(x) = x.blk * W + x.ctz
  BY DEF Place
<1> QED
  BY <1>1, <1>2, <1>3, <1>4, <1>5, <1>6 DEF Iterator, Bits

\* Deposit: bits of a word come to be at the cursor, over the border of its word.
LEMMA DepositPuts ==
  ASSUME DOMAIN memory = Word, Iterator(result), NEW w, NEW c \in Bits, NEW k \in 1..W, c + k <= W,
         Only(w, c, k)
  PROVE  /\ Deposited(memory, Move!Deposit(w, c, k).memory, Place(result), w, c, k)
         /\ Iterator(Move!Deposit(w, c, k).result)
         /\ Place(Move!Deposit(w, c, k).result) = Place(result) + k
<1> DEFINE B == result.blk
           r == result.ctz
           near == Least(k, W - r)
           rest == k - near
           shifted == IF r > c THEN Shl(w, r - c) ELSE Shr(w, c - r)
           memory1 == Merge(memory, B, Window(r, near), shifted)
           memory2 == Merge(memory1, B + 1, Lower(W - rest), Shr(w, c + near))
<1>1. B \in Int /\ r \in Bits /\ r \in Int /\ c \in Int /\ k \in Int /\ W \in Int /\ r < W /\ 0 <= r /\ 0 <= c
      /\ 1 <= k /\ k <= W /\ c + k <= W
  BY WordAssumption DEF Iterator, Bits
<1>2. Move!Deposit(w, c, k) = IF rest = 0 THEN [memory |-> memory1, result |-> Past(result, near)]
                              ELSE [memory |-> memory2, result |-> [blk |-> B + 1, ctz |-> rest]]
  BY MoveWords DEF Move!Deposit
<1>3. near \in Int /\ near = IF k <= W - r THEN k ELSE W - r
  BY <1>1 DEF Least
<1>4. ASSUME NEW b \in Bits PROVE shifted[b] = IF b - r + c \in Bits THEN w[b - r + c] ELSE {}
  <2>1. r \in Bits \cup {W} /\ c \in Bits \cup {W}
    BY <1>1
  <2>2. CASE r > c
    BY <2>1, <2>2, ShiftedIs
  <2>3. CASE ~ (r > c)
    <3>1. r <= c
      BY <1>1, <2>3
    <3> QED
      BY <2>1, <2>3, <3>1, ShiftedIs
  <2> QED
    BY <2>2, <2>3
<1> HIDE DEF shifted
<1>5. ASSUME NEW b \in Bits PROVE shifted[b] = IF r <= b /\ b < r + near THEN w[b - r + c] ELSE {}
  <2>1. b \in Int /\ 0 <= b /\ b < W
    BY <1>1 DEF Bits
  <2>2. CASE r <= b /\ b < r + near
    <3>1. b - r + c \in Bits
      BY <1>1, <1>3, <2>1, <2>2 DEF Bits
    <3> QED
      BY <1>4, <2>2, <3>1
  <2>3. CASE ~ (r <= b /\ b < r + near)
    <3>1. ~ (c <= b - r + c /\ b - r + c < c + k)
      BY <1>1, <1>3, <2>1, <2>3
    <3>2. shifted[b] = {}
      BY <1>4, <3>1 DEF Only
    <3> QED
      BY <2>3, <3>2
  <2> QED
    BY <2>2, <2>3
<1>6. \A b \in Bits : b \in Window(r, near) <=> r <= b /\ b < r + near
  BY <1>1, <1>3, MaskIs
<1>7. /\ DOMAIN memory1 = Word
      /\ \A j \in Word, b \in Bits :
           memory1[j][b] = IF j = B /\ r <= b /\ b < r + near THEN w[b - r + c] ELSE memory[j][b]
  BY <1>5, <1>6, MergeIs
<1> HIDE DEF memory1
<1>8. Place(result) = B * W + r
  BY DEF Place
<1>9. CASE k <= W - r
  <2>1. near = k /\ rest = 0 /\ r + k <= W /\ k \in Nat
    BY <1>1, <1>3, <1>9
  <2>2. Deposited(memory, memory1, B * W + r, w, c, k)
    BY <1>1, <1>7, <2>1, PutNear
  <2>3. Move!Deposit(w, c, k).memory = memory1 /\ Move!Deposit(w, c, k).result = Past(result, k)
    BY <1>2, <2>1
  <2> QED
    BY <1>8, <2>1, <2>2, <2>3, PastIs
<1>10. CASE k > W - r
  <2>1. near = W - r /\ rest = r + k - W /\ rest # 0 /\ rest \in Bits /\ rest \in Int /\ W <= r + k /\ k \in Nat
    BY <1>1, <1>3, <1>10 DEF Bits
  <2>2. ASSUME NEW b \in Bits
        PROVE  Shr(w, c + near)[b] = IF b < rest THEN w[b + (W - r) + c] ELSE {}
    <3>1. b \in Int /\ 0 <= b /\ b < W
      BY <1>1 DEF Bits
    <3>2. b + (c + near) = b + (W - r) + c
      BY <1>1, <2>1, <3>1
    <3>3. Shr(w, c + near)[b] = IF b + (W - r) + c < W THEN w[b + (W - r) + c] ELSE {}
      BY <3>2 DEF Shr
    <3>4. CASE b < rest
      <4>1. b + (W - r) + c < W
        BY <1>1, <2>1, <3>1, <3>4
      <4> QED
        BY <3>3, <3>4, <4>1
    <3>5. CASE ~ (b < rest)
      <4>1. b + (W - r) + c >= c + k
        BY <1>1, <2>1, <3>1, <3>5
      <4>2. b + (W - r) + c < W => b + (W - r) + c \in Bits /\ w[b + (W - r) + c] = {}
        BY <1>1, <3>1, <4>1 DEF Only, Bits
      <4> QED
        BY <3>3, <3>5, <4>2
    <3> QED
      BY <3>4, <3>5
  <2>3. \A b \in Bits : b \in Lower(W - rest) <=> b < rest
    BY <2>1, MaskIs
  <2>4. /\ DOMAIN memory2 = Word
        /\ \A j \in Word, b \in Bits :
             memory2[j][b] = IF j = B + 1 /\ b < rest THEN w[b + (W - r) + c] ELSE memory1[j][b]
    BY <1>7, <2>2, <2>3, MergeIs
  <2> HIDE DEF memory2
  <2>5. \A j \in Word, b \in Bits :
          memory2[j][b] = IF j = B /\ r <= b THEN w[b - r + c]
                          ELSE IF j = B + 1 /\ b < r + k - W THEN w[b + (W - r) + c] ELSE memory[j][b]
    <3> SUFFICES ASSUME NEW j \in Word, NEW b \in Bits
                 PROVE  memory2[j][b] = IF j = B /\ r <= b THEN w[b - r + c]
                          ELSE IF j = B + 1 /\ b < r + k - W THEN w[b + (W - r) + c] ELSE memory[j][b]
      OBVIOUS
    <3>1. b \in Int /\ b < r + near /\ B # B + 1
      BY <1>1, <2>1 DEF Bits
    <3> QED
      BY <1>7, <2>1, <2>4, <3>1
  <2>6. Deposited(memory, memory2, B * W + r, w, c, k)
    BY <1>1, <2>1, <2>4, <2>5, PutBoth
  <2>7. Move!Deposit(w, c, k).memory = memory2 /\ Move!Deposit(w, c, k).result = [blk |-> B + 1, ctz |-> rest]
    BY <1>2, <2>1
  <2>8. Place([blk |-> B + 1, ctz |-> rest]) = B * W + r + k
    <3>1. (B + 1) * W = B * W + W /\ B * W \in Int
      BY <1>1, WordProduct
    <3> QED
      BY <1>1, <2>1, <3>1 DEF Place
  <2> QED
    BY <1>1, <1>8, <2>1, <2>6, <2>7, <2>8 DEF Iterator
<1> QED
  BY <1>1, <1>9, <1>10

MoveTyped ==
  /\ call.from \in Int /\ call.to \in Int /\ call.n \in Int /\ n \in Int /\ 0 <= n /\ n <= call.n
  /\ 0 <= call.from /\ 0 <= call.to

LEMMA MoveTypes == MoveKept => MoveTyped
BY DEF MoveKept, MoveCalled, MovePhase, MoveTyped

\* What is still to be read is as it was.
LEMMA SourceFresh ==
  ASSUME MoveKept, NEW j \in Word, NEW b \in Bits,
         LET i == Spot(j, b) - call.from IN
         IF Move!Backward THEN i \in 0..(n - 1) ELSE i \in Done..(call.n - 1)
  PROVE  memory[j][b] = {Spot(j, b)}
<1>1. MoveTyped
  BY MoveTypes
<1>2. Spot(j, b) \in Int
  BY SpotInt
<1>3. memory[j][b] = IF Spot(j, b) - DoneFrom \in 0..(Done - 1) THEN Moved(Spot(j, b)) ELSE {Spot(j, b)}
  BY DEF MoveKept, MemoryMoved
<1>4. Apart \/ IF Move!Backward THEN call.from <= call.to ELSE call.to <= call.from
  BY DEF MoveKept, MoveCalled
<1>5. Spot(j, b) - DoneFrom \notin 0..(Done - 1)
  <2>1. CASE Move!Backward
    BY <1>1, <1>2, <1>4, <2>1 DEF MoveTyped, Apart, DoneFrom, Done
  <2>2. CASE ~ Move!Backward
    BY <1>1, <1>2, <1>4, <2>2 DEF MoveTyped, Apart, DoneFrom, Done
  <2> QED
    BY <2>1, <2>2
<1> QED
  BY <1>3, <1>5

LEMMA SourceIs ==
  ASSUME MoveKept, NEW j \in Word, NEW b \in Bits, NEW i \in Int, Spot(j, b) = call.from + i,
         IF Move!Backward THEN i \in 0..(n - 1) ELSE i \in Done..(call.n - 1)
  PROVE  Move!Source(j)[b] = Moved(call.to + i)
<1>1. call.to \in Int /\ call.from \in Int /\ Spot(j, b) - call.from = i
  BY MoveTypes DEF MoveTyped
<1>2. memory[j][b] = {Spot(j, b)}
  BY <1>1, SourceFresh
<1>3. call.from + ((call.to + i) - call.to) = Spot(j, b)
  BY <1>1
<1>4. Moved(call.to + i) = {IF call.op = "flip" THEN -1 - Spot(j, b) ELSE Spot(j, b)}
  BY <1>3, Zenon DEF Moved
<1>5. CASE call.op = "flip"
  <2>1. Move!Source(j)[b] = {-1 - x : x \in memory[j][b]}
    BY <1>5, MoveWords DEF Move!Source, Not
  <2> QED
    BY <1>2, <1>4, <1>5, <2>1
<1>6. CASE call.op # "flip"
  BY <1>2, <1>4, <1>6 DEF Move!Source
<1> QED
  BY <1>5, <1>6

\* Where the next k bits of the target are, or the last ones backward.
NextAt(k) == IF Move!Backward THEN call.to + (n - k) ELSE call.to + Done

\* A step that puts k bits where they belong and leaves the others alone.
MovesNext(k) ==
  /\ k \in Int /\ 0 <= k /\ k <= n /\ n' = n - k /\ call' = call
  /\ DOMAIN memory' = Word
  /\ \A j \in Word, b \in Bits :
       memory'[j][b] = IF Spot(j, b) - NextAt(k) \in 0..(k - 1) THEN Moved(Spot(j, b)) ELSE memory[j][b]

LEMMA MemoryStep ==
  ASSUME MoveKept, NEW k, MovesNext(k)
  PROVE  MemoryMoved'
<1>1. MoveTyped
  BY MoveTypes
<1>2. k \in Int /\ 0 <= k /\ k <= n /\ n' = n - k /\ call' = call /\ DOMAIN memory' = Word
  BY DEF MovesNext
<1>3. ASSUME NEW j \in Word, NEW b \in Bits
      PROVE  memory'[j][b] = IF Spot(j, b) - DoneFrom' \in 0..(Done' - 1) THEN Moved(Spot(j, b)) ELSE {Spot(j, b)}
  <2>1. Spot(j, b) \in Int
    BY SpotInt
  <2>2. memory'[j][b] = IF Spot(j, b) - NextAt(k) \in 0..(k - 1) THEN Moved(Spot(j, b)) ELSE memory[j][b]
    BY <1>3 DEF MovesNext
  <2>3. memory[j][b] = IF Spot(j, b) - DoneFrom \in 0..(Done - 1) THEN Moved(Spot(j, b)) ELSE {Spot(j, b)}
    BY <1>3 DEF MoveKept, MemoryMoved
  <2>4. Spot(j, b) - DoneFrom' \in 0..(Done' - 1)
          <=> Spot(j, b) - NextAt(k) \in 0..(k - 1) \/ Spot(j, b) - DoneFrom \in 0..(Done - 1)
    <3>1. Move!Backward' <=> Move!Backward
      BY <1>2 DEF Move!Backward
    <3>2. CASE Move!Backward
      BY <1>1, <1>2, <2>1, <3>1, <3>2 DEF DoneFrom, Done, MoveTyped, NextAt
    <3>3. CASE ~ Move!Backward
      BY <1>1, <1>2, <2>1, <3>1, <3>3 DEF DoneFrom, Done, MoveTyped, NextAt
    <3> QED
      BY <3>2, <3>3
  <2> QED
    BY <2>2, <2>3, <2>4
<1>4. \A p : Moved(p)' = Moved(p)
  BY <1>2 DEF Moved
<1> QED
  BY <1>2, <1>3, <1>4 DEF MemoryMoved, Word, Bits, Spot

\* A step that only goes on to the next part of the function.
LEMMA MovesNothing ==
  ASSUME MoveKept, memory' = memory, n' = n, call' = call PROVE MovesNext(0)
<1>1. n \in Int /\ 0 <= n /\ n - 0 = n /\ DOMAIN memory = Word
  BY MoveTypes DEF MoveTyped, MoveKept, MemoryMoved
<1>2. ASSUME NEW j \in Word, NEW b \in Bits PROVE Spot(j, b) - NextAt(0) \notin 0..(0 - 1)
  OBVIOUS
<1> QED
  BY <1>1, <1>2 DEF MovesNext

\* So does one that puts bits of a word of the source there, from the one at c on.
LEMMA MovesWord ==
  ASSUME MoveKept, NEW k \in 1..W, k <= n, n' = n - k, call' = call,
         NEW j \in Word, NEW c \in Bits, c + k <= W, Spot(j, c) = call.from + (NextAt(k) - call.to),
         NEW w, \A i \in 0..(k - 1) : w[c + i] = Move!Source(j)[c + i],
         Deposited(memory, memory', NextAt(k), w, c, k)
  PROVE  MovesNext(k)
<1>1. MoveTyped /\ k \in Int /\ 1 <= k /\ NextAt(k) \in Int /\ c \in Int /\ 0 <= c /\ W \in Int
  BY MoveTypes, WordAssumption DEF MoveTyped, NextAt, Done, Bits
<1>2. ASSUME NEW i \in 0..(k - 1) PROVE w[c + i] = Moved(NextAt(k) + i)
  <2>1. c + i \in Bits /\ Spot(j, c + i) = Spot(j, c) + i
    <3>1. j * W \in Int
      BY WordProduct DEF Word
    <3> QED
      BY <1>1, <3>1 DEF Bits, Spot
  <2> DEFINE o == (NextAt(k) - call.to) + i
  <2>2. o \in Int /\ Spot(j, c + i) = call.from + o /\ call.to + o = NextAt(k) + i
    BY <1>1, <2>1 DEF MoveTyped
  <2>3. IF Move!Backward THEN o \in 0..(n - 1) ELSE o \in Done..(call.n - 1)
    BY <1>1 DEF MoveTyped, NextAt, Done
  <2> HIDE DEF o
  <2> QED
    BY <2>1, <2>2, <2>3, SourceIs
<1>3. ASSUME NEW i \in Word, NEW b \in Bits
      PROVE  memory'[i][b] = IF Spot(i, b) - NextAt(k) \in 0..(k - 1) THEN Moved(Spot(i, b)) ELSE memory[i][b]
  <2>1. memory'[i][b] = IF Spot(i, b) - NextAt(k) \in 0..(k - 1) THEN w[c + (Spot(i, b) - NextAt(k))] ELSE memory[i][b]
    BY DEF Deposited
  <2>2. Spot(i, b) \in Int
    BY SpotInt
  <2>3. NextAt(k) + (Spot(i, b) - NextAt(k)) = Spot(i, b)
    BY <1>1, <2>2
  <2> QED
    BY <1>2, <2>1, <2>3
<1>4. 0 <= k /\ DOMAIN memory' = Word
  BY <1>1 DEF Deposited
<1> QED
  BY <1>1, <1>3, <1>4, Zenon DEF MovesNext

LEMMA MoveCallKept ==
  ASSUME call' = call
  PROVE  /\ MoveCalled' <=> MoveCalled
         /\ Move!Backward' <=> Move!Backward
         /\ FlipsAligned' <=> FlipsAligned
         /\ Move!InPlace' <=> Move!InPlace
BY DEF MoveCalled, Move!Backward, FlipsAligned, Apart, Move!Aligned, Move!InPlace

\* A step that copies, for whole words or parts of them, but in flips of aligned ranges.
LEMMA CopyStep ==
  ASSUME MoveKept, ~ FlipsAligned, pc \in {"first", "middle", "last"},
         NEW k, MovesNext(k),
         Iterator(first'), Iterator(result'),
         Place(result') = IF Move!Backward THEN Place(result) - k ELSE Place(result) + k,
         n' > 0 => Place(first') = IF Move!Backward THEN Place(first) - k ELSE Place(first) + k,
         \/ pc' = "middle" /\ first'.ctz = 0
         \/ pc' = "last" /\ first'.ctz = 0 /\ n' < W
         \/ pc' = "done" /\ n' = 0
  PROVE  MoveKept'
<1>1. MoveTyped /\ MemoryMoved' /\ k \in Int /\ 0 <= k /\ k <= n /\ n' = n - k /\ call' = call
  BY MoveTypes, MemoryStep DEF MovesNext
<1>2. /\ MoveCalled' /\ (Move!Backward' <=> Move!Backward) /\ ~ FlipsAligned'
  BY <1>1, MoveCallKept DEF MoveKept
<1>3. MovePhase'
  BY <1>1, <1>2 DEF MovePhase, MoveTyped
<1>4. Place(result) = call.to + Way /\ (n > 0 => Place(first) = call.from + Way)
  BY DEF MoveKept, CursorsMoved
<1>5. /\ Place(result)' = call'.to + Way'
      /\ n' > 0 => Place(first)' = call'.from + Way'
  <2>1. Place(result)' = Place(result') /\ Place(first)' = Place(first')
    BY DEF Place
  <2>2. n' > 0 => n > 0
    BY <1>1 DEF MoveTyped
  <2>3. CASE Move!Backward
    BY <1>1, <1>2, <1>4, <2>1, <2>2, <2>3 DEF Way, MoveTyped
  <2>4. CASE ~ Move!Backward
    BY <1>1, <1>2, <1>4, <2>1, <2>2, <2>4 DEF Way, Done, MoveTyped
  <2> QED
    BY <2>3, <2>4
<1>6. Iterator(first)' /\ Iterator(result)'
  BY DEF Iterator, Bits
<1>7. CursorsMoved'
  BY <1>2, <1>5, <1>6 DEF CursorsMoved
<1> QED
  BY <1>1, <1>2, <1>3, <1>7 DEF MoveKept

\* A word with a bit of the memory is one of the memory.
LEMMA SpotWord ==
  ASSUME NEW j \in Int, NEW b \in Bits, 0 <= Spot(j, b), Spot(j, b) < W * Words PROVE j \in Word
BY PlaceInMemory DEF Spot

LEMMA AtWord ==
  ASSUME NEW k \in Int PROVE At(k * W) = [blk |-> k, ctz |-> 0]
<1>1. k * W + 0 = k * W /\ 0 \in Bits
  BY WordProduct, WordAssumption DEF Bits
<1> QED
  BY <1>1, PlaceIs DEF At

\* What is known before a step of copy, or of flip_range on ranges that are not aligned.
CopyBegins ==
  /\ MoveTyped /\ Iterator(first) /\ Iterator(result) /\ DOMAIN memory = Word
  /\ first.blk \in Int /\ first.ctz \in Int /\ first.ctz \in Bits /\ 0 <= first.ctz /\ first.ctz < W
  /\ result.blk \in Int /\ result.ctz \in Int /\ result.ctz \in Bits /\ 0 <= result.ctz /\ result.ctz < W
  /\ Place(result) = call.to + Way /\ (n > 0 => Place(first) = call.from + Way)
  /\ W \in Int /\ 0 < W /\ W * Words \in Int
  /\ call.from + call.n <= W * Words /\ call.to + call.n <= W * Words
  /\ pc \in {"middle", "last"} => first.ctz = 0
  /\ pc = "last" => n < W

LEMMA CopyBegin ==
  ASSUME MoveKept, ~ FlipsAligned PROVE CopyBegins
<1>1. MoveTyped /\ MoveCalled /\ CursorsMoved /\ MovePhase /\ DOMAIN memory = Word
  BY MoveTypes DEF MoveKept, MemoryMoved
<1>2. Iterator(first) /\ Iterator(result) /\ Place(result) = call.to + Way /\ (n > 0 => Place(first) = call.from + Way)
  BY <1>1 DEF CursorsMoved
<1>3. W \in Int /\ 0 < W /\ W * Words \in Int
  BY WordAssumption
<1>4. first.blk \in Int /\ first.ctz \in Bits /\ result.blk \in Int /\ result.ctz \in Bits
  BY <1>2 DEF Iterator
<1>5. /\ first.ctz \in Int /\ 0 <= first.ctz /\ first.ctz < W
      /\ result.ctz \in Int /\ 0 <= result.ctz /\ result.ctz < W
  BY <1>3, <1>4 DEF Bits
<1>6. call.from + call.n <= W * Words /\ call.to + call.n <= W * Words
  BY <1>1 DEF MoveCalled
<1> QED
  BY <1>1, <1>2, <1>3, <1>4, <1>5, <1>6 DEF CopyBegins, MovePhase

LEMMA CopyFirst ==
  ASSUME MoveKept, ~ FlipsAligned, ~ Move!Backward, Move!First PROVE MoveKept'
<1>1. CopyBegins /\ pc = "first" /\ n = call.n /\ n > 0 /\ Way = Done
  BY CopyBegin DEF MoveKept, MovePhase, Move!First, Way
<1>2. CASE first.ctz = 0
  <2>1. /\ memory' = memory /\ result' = result /\ first' = first /\ n' = n - 0 /\ pc' = "middle" /\ call' = call
    BY <1>2 DEF Move!First, Move!Become
  <2>2. MovesNext(0)
    <3>1. n' = n
      BY <1>1, <2>1 DEF CopyBegins, MoveTyped
    <3> QED
      BY <2>1, <3>1, MovesNothing
  <2>3. Place(first) \in Int /\ Place(result) \in Int
    BY <1>1, PlaceInt DEF CopyBegins
  <2> QED
    BY <1>1, <1>2, <2>1, <2>2, <2>3, CopyStep DEF CopyBegins
<1>3. CASE first.ctz # 0
  <2> DEFINE c == first.ctz
             k == Least(W - c, n)
             w == And(Move!Source(first.blk), Window(c, k))
             out == Move!Deposit(w, c, k)
  <2>1. /\ memory' = out.memory /\ result' = out.result /\ first' = At((first.blk + 1) * W) /\ n' = n - k
        /\ pc' = "middle" /\ call' = call
    BY <1>3, MoveWords, Zenon DEF Move!First, Move!Become
  <2>2. k \in Int /\ 1 <= k /\ k <= W /\ k <= n /\ c + k <= W /\ (k < n => k = W - c) /\ c \in Bits /\ c \in Int /\ k \in 1..W
    BY <1>1, <1>3 DEF Least, CopyBegins, MoveTyped
  <2> HIDE DEF c, k
  <2>3. \A b \in Bits : b \in Window(c, k) <=> c <= b /\ b < c + k
    BY <2>2, MaskIs
  <2>4. /\ Only(w, c, k)
        /\ \A b \in Bits : c <= b /\ b < c + k => w[b] = Move!Source(first.blk)[b]
    BY <2>3, MaskedOnly
  <2> HIDE DEF w
  <2>5. /\ Deposited(memory, out.memory, Place(result), w, c, k)
        /\ Iterator(out.result) /\ Place(out.result) = Place(result) + k
    BY <1>1, <2>2, <2>4, DepositPuts DEF CopyBegins
  <2> HIDE DEF out
  <2>6. NextAt(k) = Place(result)
    BY <1>1 DEF NextAt, CopyBegins
  <2>7. Spot(first.blk, c) = Place(first) /\ Place(first) = call.from + Done
    BY <1>1 DEF Spot, Place, c, CopyBegins
  <2>8. first.blk \in Word
    <3>1. 0 <= Spot(first.blk, c) /\ Spot(first.blk, c) < W * Words
      BY <1>1, <2>7 DEF CopyBegins, MoveTyped, Done
    <3> QED
      BY <1>1, <2>2, <3>1, SpotWord DEF CopyBegins
  <2>9. MovesNext(k)
    <3>1. Spot(first.blk, c) = call.from + (NextAt(k) - call.to)
      BY <1>1, <2>6, <2>7 DEF CopyBegins, MoveTyped, Done
    <3>2. ASSUME NEW i \in 0..(k - 1) PROVE w[c + i] = Move!Source(first.blk)[c + i]
      <4>1. c + i \in Bits /\ c <= c + i /\ c + i < c + k
        BY <1>1, <2>2 DEF Bits, CopyBegins
      <4> QED
        BY <2>4, <4>1
    <3> QED
      BY <2>1, <2>2, <2>5, <2>6, <2>8, <3>1, <3>2, MovesWord
  <2>10. Iterator(first') /\ first'.ctz = 0 /\ (n' > 0 => Place(first') = Place(first) + k)
    <3>1. first' = [blk |-> first.blk + 1, ctz |-> 0] /\ first.blk + 1 \in Int
      BY <1>1, <2>1, AtWord DEF CopyBegins
    <3>2. (first.blk + 1) * W = first.blk * W + W /\ first.blk * W \in Int
      BY <1>1, WordProduct DEF CopyBegins
    <3>3. n' > 0 => k = W - c
      BY <1>1, <2>1, <2>2 DEF CopyBegins, MoveTyped
    <3>4. 0 \in Bits
      BY WordAssumption DEF Bits
    <3>5. Place(first') = first.blk * W + W /\ Place(first) = first.blk * W + c
      <4>1. Place(first') = (first.blk + 1) * W + 0
        BY <3>1 DEF Place
      <4>2. Place(first) = first.blk * W + c
        BY DEF Place, c
      <4> QED
        BY <1>1, <3>2, <4>1, <4>2 DEF CopyBegins
    <3> QED
      BY <1>1, <2>2, <3>1, <3>2, <3>3, <3>4, <3>5 DEF Iterator, CopyBegins
  <2> QED
    BY <1>1, <2>1, <2>5, <2>9, <2>10, CopyStep
<1> QED
  BY <1>2, <1>3

LEMMA CopyLast ==
  ASSUME MoveKept, ~ FlipsAligned, ~ Move!Backward, Move!Last PROVE MoveKept'
<1>1. CopyBegins /\ pc = "last" /\ first.ctz = 0 /\ n < W /\ Way = Done
  BY CopyBegin DEF MoveKept, MovePhase, Move!Last, Way
<1>2. CASE n = 0
  <2>1. /\ memory' = memory /\ result' = result /\ first' = first /\ n' = n - 0 /\ pc' = "done" /\ call' = call
    BY <1>1, <1>2 DEF Move!Last, Move!Become
  <2>2. n' = 0 /\ n' = n
    BY <1>2, <2>1
  <2>3. MovesNext(0)
    BY <2>1, <2>2, MovesNothing
  <2>4. Place(first) \in Int /\ Place(result) \in Int
    BY <1>1, PlaceInt DEF CopyBegins
  <2> QED
    BY <1>1, <2>1, <2>2, <2>3, <2>4, CopyStep DEF CopyBegins
<1>3. CASE n # 0
  <2> DEFINE w == And(Move!Source(first.blk), Lower(W - n))
             out == Move!Deposit(w, 0, n)
  <2>1. /\ memory' = out.memory /\ result' = out.result /\ first' = first /\ n' = n - n
        /\ pc' = "done" /\ call' = call
    BY <1>3, MoveWords, Zenon DEF Move!Last, Move!Become
  <2>2. n \in Int /\ 1 <= n /\ n <= W /\ n <= n /\ 0 + n <= W /\ n \in 1..W /\ 0 \in Bits /\ n - n = 0
    BY <1>1, <1>3 DEF CopyBegins, MoveTyped, Bits
  <2>3. \A b \in Bits : b \in Lower(W - n) <=> 0 <= b /\ b < 0 + n
    BY <1>1, <2>2, MaskIs DEF Bits, CopyBegins
  <2>4. /\ Only(w, 0, n)
        /\ \A b \in Bits : 0 <= b /\ b < 0 + n => w[b] = Move!Source(first.blk)[b]
    BY <2>3, MaskedOnly
  <2> HIDE DEF w
  <2>5. /\ Deposited(memory, out.memory, Place(result), w, 0, n)
        /\ Iterator(out.result) /\ Place(out.result) = Place(result) + n
    BY <1>1, <2>2, <2>4, DepositPuts DEF CopyBegins
  <2> HIDE DEF out
  <2>6. NextAt(n) = Place(result)
    BY <1>1 DEF NextAt, CopyBegins
  <2>7. Spot(first.blk, 0) = Place(first) /\ Place(first) = call.from + Done
    BY <1>1, <2>2 DEF Spot, Place, CopyBegins
  <2>8. first.blk \in Word
    <3>1. 0 <= Spot(first.blk, 0) /\ Spot(first.blk, 0) < W * Words
      BY <1>1, <2>2, <2>7 DEF CopyBegins, MoveTyped, Done
    <3> QED
      BY <1>1, <2>2, <3>1, SpotWord DEF CopyBegins
  <2>9. MovesNext(n)
    <3>1. Spot(first.blk, 0) = call.from + (NextAt(n) - call.to)
      BY <1>1, <2>6, <2>7 DEF CopyBegins, MoveTyped, Done
    <3>2. ASSUME NEW i \in 0..(n - 1) PROVE w[0 + i] = Move!Source(first.blk)[0 + i]
      <4>1. 0 + i \in Bits /\ 0 <= 0 + i /\ 0 + i < 0 + n
        BY <1>1, <2>2 DEF Bits, CopyBegins
      <4> QED
        BY <2>4, <4>1
    <3> QED
      BY <2>1, <2>2, <2>5, <2>6, <2>8, <3>1, <3>2, MovesWord
  <2>10. n' = 0
    BY <2>1, <2>2
  <2> QED
    BY <1>1, <2>1, <2>2, <2>5, <2>9, <2>10, CopyStep DEF CopyBegins
<1> QED
  BY <1>2, <1>3

\* A whole word, of which the bits before r of the word behind B come to be in that one.
LEMMA TwoWords ==
  ASSUME NEW M, DOMAIN M = Word, NEW B \in Int, NEW r \in Bits, NEW w, NEW M2,
         \/ M2 = Merge(Merge(M, B, Upper(r), Shl(w, r)), B + 1, Bits \ Upper(r), Shr(w, W - r))
         \/ M2 = Merge(Merge(M, B + 1, Lower(W - r), Shr(w, W - r)), B, Bits \ Lower(W - r), Shl(w, r))
  PROVE  Deposited(M, M2, B * W + r, w, 0, W)
<1> DEFINE low == Shr(w, W - r)
           high == Shl(w, r)
<1>1. r \in Int /\ 0 <= r /\ r < W /\ W \in Int /\ B + 1 # B /\ B + 1 \in Int
  BY WordAssumption DEF Bits
<1>2. ASSUME NEW b \in Bits
      PROVE  /\ b \in Upper(r) <=> r <= b
             /\ b \in Bits \ Upper(r) <=> b < r
             /\ b \in Lower(W - r) <=> b < r
             /\ b \in Bits \ Lower(W - r) <=> r <= b
             /\ high[b] = IF r <= b THEN w[b - r + 0] ELSE {}
             /\ low[b] = IF b < r THEN w[b + (W - r) + 0] ELSE {}
  <2>1. b \in Int /\ (b \in Upper(r) <=> r <= b) /\ (b \in Lower(W - r) <=> b < r) /\ (b < r <=> ~ (r <= b))
    BY <1>1, MaskIs DEF Bits
  <2>2. b - r = b - r + 0 /\ b + (W - r) = b + (W - r) + 0 /\ (b >= r <=> r <= b) /\ (b + (W - r) < W <=> b < r)
    BY <1>1, <2>1
  <2>3. high[b] = IF b >= r THEN w[b - r] ELSE {}
    BY DEF Shl
  <2>4. low[b] = IF b + (W - r) < W THEN w[b + (W - r)] ELSE {}
    BY DEF Shr
  <2> QED
    BY <2>1, <2>2, <2>3, <2>4
<1> HIDE DEF low, high
<1>3. /\ DOMAIN M2 = Word
      /\ \A j \in Word, b \in Bits :
           M2[j][b] = IF j = B /\ r <= b THEN high[b] ELSE IF j = B + 1 /\ b < r THEN low[b] ELSE M[j][b]
  <2>1. CASE M2 = Merge(Merge(M, B, Upper(r), high), B + 1, Bits \ Upper(r), low)
    <3> DEFINE M1 == Merge(M, B, Upper(r), high)
    <3>1. /\ DOMAIN M1 = Word
          /\ \A j \in Word, b \in Bits : M1[j][b] = IF j = B /\ b \in Upper(r) THEN high[b] ELSE M[j][b]
      BY <1>2, MergeIs
    <3> HIDE DEF M1
    <3>2. /\ DOMAIN M2 = Word
          /\ \A j \in Word, b \in Bits : M2[j][b] = IF j = B + 1 /\ b \in Bits \ Upper(r) THEN low[b] ELSE M1[j][b]
      BY <1>2, <2>1, <3>1, MergeIs DEF M1
    <3> QED
      BY <1>1, <1>2, <3>1, <3>2
  <2>2. CASE M2 = Merge(Merge(M, B + 1, Lower(W - r), low), B, Bits \ Lower(W - r), high)
    <3> DEFINE M1 == Merge(M, B + 1, Lower(W - r), low)
    <3>1. /\ DOMAIN M1 = Word
          /\ \A j \in Word, b \in Bits : M1[j][b] = IF j = B + 1 /\ b \in Lower(W - r) THEN low[b] ELSE M[j][b]
      BY <1>2, MergeIs
    <3> HIDE DEF M1
    <3>2. /\ DOMAIN M2 = Word
          /\ \A j \in Word, b \in Bits : M2[j][b] = IF j = B /\ b \in Bits \ Lower(W - r) THEN high[b] ELSE M1[j][b]
      BY <1>2, <2>2, <3>1, MergeIs DEF M1
    <3> QED
      BY <1>1, <1>2, <3>1, <3>2
  <2> QED
    BY <2>1, <2>2 DEF low, high
<1>4. ASSUME NEW j \in Word, NEW b \in Bits
      PROVE  M2[j][b] = IF j = B /\ r <= b THEN w[b - r + 0]
                        ELSE IF j = B + 1 /\ b < r + W - W THEN w[b + (W - r) + 0] ELSE M[j][b]
  <2>1. r + W - W = r
    BY <1>1
  <2> QED
    BY <1>2, <1>3, <2>1
<1>5. W \in Nat /\ W <= r + W /\ W <= W /\ 0 \in Int
  BY <1>1
<1> QED
  BY <1>3, <1>4, <1>5, PutBoth

LEMMA CopyWord ==
  ASSUME MoveKept, ~ FlipsAligned, ~ Move!Backward, Move!MiddleWord PROVE MoveKept'
<1>1. CopyBegins /\ pc = "middle" /\ first.ctz = 0 /\ Way = Done
  BY CopyBegin DEF MoveKept, MovePhase, Move!MiddleWord, Way
<1>2. CASE n < W
  <2>1. /\ memory' = memory /\ result' = result /\ first' = first /\ n' = n - 0 /\ pc' = "last" /\ call' = call
    BY <1>1, <1>2 DEF Move!MiddleWord, Move!Become
  <2>2. n' < W /\ n' = n
    BY <1>1, <1>2, <2>1 DEF CopyBegins, MoveTyped
  <2>3. MovesNext(0)
    BY <2>1, <2>2, MovesNothing
  <2>4. Place(first) \in Int /\ Place(result) \in Int
    BY <1>1, PlaceInt DEF CopyBegins
  <2> QED
    BY <1>1, <2>1, <2>2, <2>3, <2>4, CopyStep DEF CopyBegins
<1>3. CASE ~ (n < W)
  <2> DEFINE w == Move!Source(first.blk)
             r == result.ctz
             B == result.blk
  <2>1. /\ memory' = Merge(Merge(memory, B, Upper(r), Shl(w, r)), B + 1, Bits \ Upper(r), Shr(w, W - r))
        /\ result' = [result EXCEPT !.blk = @ + 1] /\ first' = [first EXCEPT !.blk = @ + 1] /\ n' = n - W
        /\ pc' = "middle" /\ call' = call
    BY <1>3, MoveWords, Zenon DEF Move!MiddleWord, Move!Become
  <2>2. W \in 1..W /\ W <= n /\ n > 0 /\ 0 + W <= W /\ 0 \in Bits /\ 0 <= W
    BY <1>1, <1>3 DEF CopyBegins, MoveTyped, Bits
  <2> HIDE DEF w
  <2>3. Deposited(memory, memory', Place(result), w, 0, W)
    <3>1. Deposited(memory, memory', B * W + r, w, 0, W)
      BY <1>1, <2>1, TwoWords DEF CopyBegins
    <3> QED
      BY <3>1 DEF Place
  <2>4. NextAt(W) = Place(result)
    BY <1>1 DEF NextAt, CopyBegins
  <2>5. Spot(first.blk, 0) = Place(first) /\ Place(first) = call.from + Done
    BY <1>1, <2>2 DEF Spot, Place, CopyBegins
  <2>6. first.blk \in Word
    <3>1. 0 <= Spot(first.blk, 0) /\ Spot(first.blk, 0) < W * Words
      BY <1>1, <2>2, <2>5 DEF CopyBegins, MoveTyped, Done
    <3> QED
      BY <1>1, <2>2, <3>1, SpotWord DEF CopyBegins
  <2>7. MovesNext(W)
    <3>1. Spot(first.blk, 0) = call.from + (NextAt(W) - call.to)
      BY <1>1, <2>4, <2>5 DEF CopyBegins, MoveTyped, Done
    <3>2. \A i \in 0..(W - 1) : w[0 + i] = Move!Source(first.blk)[0 + i]
      BY DEF w
    <3> QED
      BY <2>1, <2>2, <2>3, <2>4, <2>6, <3>1, <3>2, MovesWord
  <2>8. /\ Iterator(result') /\ Place(result') = Place(result) + W
        /\ Iterator(first') /\ Place(first') = Place(first) + W /\ first'.ctz = 0
    <3>1. /\ result' = [blk |-> result.blk + 1, ctz |-> result.ctz] /\ result.blk + 1 \in Int
          /\ first' = [blk |-> first.blk + 1, ctz |-> first.ctz] /\ first.blk + 1 \in Int
      BY <1>1, <2>1 DEF CopyBegins, Iterator
    <3>2. /\ (result.blk + 1) * W = result.blk * W + W /\ result.blk * W \in Int
          /\ (first.blk + 1) * W = first.blk * W + W /\ first.blk * W \in Int
      BY <1>1, WordProduct DEF CopyBegins
    <3>3. Place(result') = (result.blk + 1) * W + result.ctz /\ Place(first') = (first.blk + 1) * W + first.ctz
      BY <3>1 DEF Place
    <3>4. Place(result) = result.blk * W + result.ctz /\ Place(first) = first.blk * W + first.ctz
      BY DEF Place
    <3>5. Place(result') = Place(result) + W /\ Place(first') = Place(first) + W
      BY <1>1, <3>2, <3>3, <3>4 DEF CopyBegins
    <3> QED
      BY <1>1, <3>1, <3>5 DEF CopyBegins, Iterator
  <2> QED
    BY <1>1, <2>1, <2>7, <2>8, CopyStep
<1> QED
  BY <1>2, <1>3

\* A bit of whole words is one of as many bits as they have.
LEMMA WholeWords ==
  ASSUME NEW d \in Int, NEW b \in Bits, NEW k \in Nat
  PROVE  d \in 0..(k - 1) <=> d * W + b \in 0..(k * W - 1)
<1>1. d * W \in Int /\ k * W \in Int /\ 0 * W = 0 /\ b \in Int /\ 0 <= b /\ b < W /\ W \in Int
  BY WordProduct, WordAssumption DEF Bits
<1>2. CASE d < 0
  <2>1. d * W + W <= 0
    BY <1>1, <1>2, WordBefore
  <2> QED
    BY <1>1, <1>2, <2>1
<1>3. CASE d >= k
  <2>1. k * W <= d * W
    BY <1>1, <1>3, WordBefore
  <2> QED
    BY <1>1, <1>3, <2>1
<1>4. CASE d \in 0..(k - 1)
  <2>1. d * W + W <= k * W
    BY <1>4, WordBefore
  <2>2. 0 <= d * W
    BY <1>1, <1>4, WordAssumption
  <2> QED
    BY <1>1, <1>4, <2>1, <2>2
<1> QED
  BY <1>2, <1>3, <1>4

\* Ranges of whole words, count of them from the word at source on to that at target.
WordsMoved(source, target, count) ==
  memory' = [k \in Word |-> IF k - target \in 0..(count - 1) THEN memory[source + k - target] ELSE memory[k]]

LEMMA MovesWords ==
  ASSUME MoveKept, call.op # "flip", DOMAIN memory = Word,
         NEW source \in Int, NEW target \in Int, NEW count \in Nat,
         WordsMoved(source, target, count), count * W <= n, n' = n - count * W, call' = call,
         count > 0 => target * W = NextAt(count * W) /\ source * W = call.from + (NextAt(count * W) - call.to),
         call.from + call.n <= W * Words
  PROVE  MovesNext(count * W)
<1> DEFINE k == count * W
           at == NextAt(k)
<1>1. MoveTyped /\ k \in Int /\ 0 <= k /\ at \in Int
  BY MoveTypes, WordAssumption DEF MoveTyped, NextAt, Done
<1>2. source * W \in Int /\ target * W \in Int /\ W * Words \in Int
  BY WordProduct, WordAssumption
<1>3. ASSUME NEW j \in Word, NEW b \in Bits
      PROVE  memory'[j][b] = IF Spot(j, b) - at \in 0..(k - 1) THEN Moved(Spot(j, b)) ELSE memory[j][b]
  <2>1. memory'[j] = IF j - target \in 0..(count - 1) THEN memory[source + j - target] ELSE memory[j]
    BY <1>3 DEF WordsMoved
  <2>2. j \in Int /\ b \in Int /\ j - target \in Int
    BY <1>3 DEF Word, Bits
  <2>3. (j - target) * W = j * W - target * W /\ j * W \in Int
    BY <2>2, WordSum, WordProduct
  <2>4. j - target \in 0..(count - 1) <=> (j - target) * W + b \in 0..(k - 1)
    BY <1>3, <2>2, WholeWords
  <2>5. CASE count = 0
    <3>1. k = 0
      BY <2>5, WordAssumption
    <3>2. j - target \notin 0..(count - 1) /\ Spot(j, b) - at \notin 0..(k - 1)
      BY <2>5, <3>1
    <3> HIDE DEF k, at
    <3> QED
      BY <2>1, <3>2
  <2>6. CASE count > 0
    <3>1. target * W = at /\ source * W = call.from + (at - call.to)
      BY <2>6
    <3> HIDE DEF k
    <3>2. Spot(j, b) - at = (j - target) * W + b
      BY <1>1, <1>2, <2>2, <2>3, <3>1 DEF Spot
    <3>3. CASE j - target \notin 0..(count - 1)
      BY <2>1, <2>4, <3>2, <3>3
    <3>4. CASE j - target \in 0..(count - 1)
      <4> DEFINE i == source + (j - target)
                 o == Spot(j, b) - call.to
      <4>1. i \in Int /\ i * W = source * W + (j - target) * W /\ o \in Int
        <5>1. i \in Int /\ i * W = source * W + (j - target) * W
          BY <2>2, WordSum
        <5>2. o \in Int
          BY <1>1, SpotInt DEF MoveTyped
        <5> QED
          BY <5>1, <5>2
      <4>2. Spot(i, b) = call.from + o
        <5>1. Spot(i, b) = source * W + (j - target) * W + b
          BY <4>1 DEF Spot
        <5> QED
          BY <1>1, <1>2, <2>2, <2>3, <3>1, <3>2, <5>1 DEF Spot, MoveTyped
      <4>3. o = (at - call.to) + (Spot(j, b) - at) /\ Spot(j, b) - at \in 0..(k - 1)
        BY <1>1, <2>2, <2>3, <2>4, <3>2, <3>4 DEF Spot, MoveTyped
      <4> HIDE DEF i, o
      <4>4. IF Move!Backward THEN o \in 0..(n - 1) ELSE o \in Done..(call.n - 1)
        <5>1. k <= n
          BY DEF k
        <5>2. Spot(j, b) \in Int
          BY SpotInt
        <5>3. CASE Move!Backward
          BY <1>1, <4>3, <5>1, <5>2, <5>3 DEF MoveTyped, NextAt, Done
        <5>4. CASE ~ Move!Backward
          BY <1>1, <4>3, <5>1, <5>2, <5>4 DEF MoveTyped, NextAt, Done
        <5> QED
          BY <5>3, <5>4
      <4>5. i \in Word
        <5>1. 0 <= Spot(i, b) /\ Spot(i, b) < W * Words
          BY <1>1, <1>2, <4>1, <4>2, <4>4 DEF MoveTyped, Done
        <5> QED
          BY <4>1, <5>1, SpotWord
      <4>6. Move!Source(i)[b] = Moved(call.to + o)
        BY <4>1, <4>2, <4>4, <4>5, SourceIs
      <4>7. call.to + o = Spot(j, b)
        BY <1>1, SpotInt DEF o, MoveTyped
      <4>8. memory'[j] = memory[i] /\ Move!Source(i) = memory[i]
        BY <2>1, <3>4 DEF i, Move!Source
      <4> QED
        BY <4>3, <4>6, <4>7, <4>8
    <3> QED
      BY <3>3, <3>4
  <2> QED
    BY <2>5, <2>6
<1>4. DOMAIN memory' = Word
  BY DEF WordsMoved
<1> QED
  BY <1>1, <1>3, <1>4 DEF MovesNext

\* The whole words of a number of bits.
LEMMA CountIs ==
  ASSUME NEW k \in Nat
  PROVE  /\ k \div W \in Nat /\ (k \div W) * W \in Nat
         /\ (k \div W) * W <= k /\ k - (k \div W) * W < W /\ (k \div W > 0 => k > 0)
<1>1. PICK q \in Int, r \in Bits : k = q * W + r /\ k \div W = q
  BY PlaceNamed
<1>2. q * W \in Int /\ r \in Int /\ 0 <= r /\ r < W /\ W \in Int /\ 0 * W = 0
  BY WordProduct, WordAssumption DEF Bits
<1>3. q >= 0
  <2>1. CASE q < 0
    <3>1. q * W + W <= 0
      BY <1>2, <2>1, WordBefore
    <3> QED
      BY <1>1, <1>2, <3>1
  <2> QED
    BY <2>1
<1>4. q * W >= 0 /\ (q > 0 => q * W >= W)
  <2>1. q > 0 => 0 * W + W <= q * W
    BY WordBefore
  <2> QED
    BY <1>2, <1>3, <2>1
<1> QED
  BY <1>1, <1>2, <1>3, <1>4

\* Places that differ by whole words are at the same bit of theirs.
LEMMA SameBit ==
  ASSUME NEW x, NEW y, Iterator(x), Iterator(y), (Place(x) - Place(y)) % W = 0
  PROVE  x.ctz = y.ctz
<1>1. /\ x.blk \in Int /\ y.blk \in Int /\ x.ctz \in Bits /\ y.ctz \in Bits
      /\ x.blk * W \in Int /\ y.blk * W \in Int /\ Place(x) \in Int /\ Place(y) \in Int
  BY WordProduct, PlaceInt DEF Iterator
<1>2. PICK q \in Int, r \in Bits : Place(x) - Place(y) = q * W + r /\ (Place(x) - Place(y)) % W = r
  BY <1>1, PlaceNamed
<1>3. Place(x) = x.blk * W + x.ctz /\ Place(y) = y.blk * W + y.ctz
  BY DEF Place
<1>4. (q + y.blk) * W = q * W + y.blk * W /\ q * W \in Int /\ q + y.blk \in Int
  <2>1. (q + y.blk) * W = q * W + y.blk * W
    BY <1>1, WordSum
  <2>2. q * W \in Int
    BY WordProduct
  <2> QED
    BY <1>1, <2>1, <2>2
<1>5. x.blk * W + x.ctz = (q + y.blk) * W + y.ctz
  BY <1>1, <1>2, <1>3, <1>4 DEF Bits
<1>6. (x.blk * W + x.ctz) % W = x.ctz /\ ((q + y.blk) * W + y.ctz) % W = y.ctz
  BY <1>1, <1>4, PlaceIs
<1> QED
  BY <1>5, <1>6

LEMMA CopyWords ==
  ASSUME MoveKept, ~ FlipsAligned, ~ Move!Backward, Move!MiddleWords PROVE MoveKept'
<1>1. CopyBegins /\ pc = "middle" /\ first.ctz = 0 /\ Way = Done /\ Move!Aligned /\ call.op # "flip"
  BY CopyBegin DEF MoveKept, MovePhase, Move!MiddleWords, Way, FlipsAligned
<1> DEFINE count == n \div W
           k == count * W
<1>2. /\ WordsMoved(first.blk, result.blk, count)
      /\ result' = [result EXCEPT !.blk = @ + count] /\ first' = [first EXCEPT !.blk = @ + count]
      /\ n' = n - k /\ pc' = "last" /\ call' = call
  BY Zenon DEF Move!MiddleWords, Move!Become, WordsMoved, Word
<1>3. count \in Nat /\ k \in Nat /\ k <= n /\ n - k < W /\ (count > 0 => n > 0) /\ count \in Int /\ k \in Int
  BY <1>1, CountIs DEF CopyBegins, MoveTyped
<1>4. /\ first.blk * W \in Int /\ result.blk * W \in Int
      /\ (first.blk + count) * W = first.blk * W + k /\ (result.blk + count) * W = result.blk * W + k
  BY <1>1, <1>3, WordProduct, WordSum DEF CopyBegins
<1> HIDE DEF count
<1>5. Place(first) = first.blk * W + first.ctz /\ Place(result) = result.blk * W + result.ctz
  BY DEF Place
<1>6. ASSUME count > 0
      PROVE  result.blk * W = NextAt(k) /\ first.blk * W = call.from + (NextAt(k) - call.to)
  <2>1. Place(first) = call.from + Done /\ Place(result) = call.to + Done /\ NextAt(k) = call.to + Done
    BY <1>1, <1>3, <1>6 DEF CopyBegins, NextAt
  <2>2. (Place(first) - Place(result)) % W = 0
    <3>1. Place(first) - Place(result) = call.from - call.to
      BY <1>1, <2>1 DEF CopyBegins, MoveTyped, Done
    <3> QED
      BY <1>1, <3>1 DEF Move!Aligned
  <2>3. result.ctz = 0
    BY <1>1, <2>2, SameBit DEF CopyBegins
  <2> QED
    BY <1>1, <1>4, <1>5, <2>1, <2>3 DEF CopyBegins, MoveTyped, Done
<1>7. MovesNext(k)
  BY <1>1, <1>2, <1>3, <1>6, MovesWords DEF CopyBegins
<1>8. /\ Iterator(result') /\ Place(result') = Place(result) + k
      /\ Iterator(first') /\ Place(first') = Place(first) + k /\ first'.ctz = 0
  <2>1. /\ result' = [blk |-> result.blk + count, ctz |-> result.ctz] /\ result.blk + count \in Int
        /\ first' = [blk |-> first.blk + count, ctz |-> first.ctz] /\ first.blk + count \in Int
    BY <1>1, <1>2, <1>3 DEF CopyBegins, Iterator
  <2>2. Place(result') = (result.blk + count) * W + result.ctz /\ Place(first') = (first.blk + count) * W + first.ctz
    BY <2>1 DEF Place
  <2> HIDE DEF k
  <2>3. Place(result') = Place(result) + k /\ Place(first') = Place(first) + k
    BY <1>1, <1>3, <1>4, <1>5, <2>2 DEF CopyBegins
  <2> QED
    BY <1>1, <2>1, <2>3 DEF CopyBegins, Iterator
<1> HIDE DEF k
<1>9. n' < W
  BY <1>2, <1>3
<1> QED
  BY <1>1, <1>2, <1>7, <1>8, <1>9, CopyStep

-----------------------------------------------------------------------------
(* copy_backward *)

\* DepositBack: bits of a word come to be before the cursor, over the border of its word.
LEMMA DepositBackPuts ==
  ASSUME DOMAIN memory = Word, Iterator(result), NEW w, NEW c \in Bits \cup {W}, NEW k \in 1..W, k <= c,
         Only(w, c - k, k)
  PROVE  /\ Deposited(memory, Move!DepositBack(w, c, k).memory, Place(result) - k, w, c - k, k)
         /\ Iterator(Move!DepositBack(w, c, k).result)
         /\ Place(Move!DepositBack(w, c, k).result) = Place(result) - k
<1> DEFINE B == result.blk
           r == result.ctz
           near == Least(k, r)
           rest == k - near
           shifted == IF r > c THEN Shl(w, r - c) ELSE Shr(w, c - r)
           memory1 == IF near = 0 THEN memory ELSE Merge(memory, B, Window(r - near, near), shifted)
           memory2 == Merge(memory1, B - 1, Upper(W - rest), Shl(w, (W - rest) - (c - k)))
<1>1. B \in Int /\ r \in Bits /\ r \in Int /\ c \in Int /\ k \in Int /\ W \in Int /\ r < W /\ 0 <= r /\ 0 <= c
      /\ 1 <= k /\ k <= W /\ k <= c /\ c <= W
  BY WordAssumption DEF Iterator, Bits
<1>2. Move!DepositBack(w, c, k) = IF rest = 0 THEN [memory |-> memory1, result |-> [result EXCEPT !.ctz = @ - near]]
                                  ELSE [memory |-> memory2, result |-> [blk |-> B - 1, ctz |-> W - rest]]
  BY MoveWords DEF Move!DepositBack
<1>3. near \in Int /\ near = (IF k <= r THEN k ELSE r) /\ 0 <= near /\ near <= r
  BY <1>1 DEF Least
<1>4. ASSUME NEW b \in Bits PROVE shifted[b] = IF b - r + c \in Bits THEN w[b - r + c] ELSE {}
  <2>1. r \in Bits \cup {W} /\ c \in Bits \cup {W}
    BY <1>1
  <2>2. CASE r > c
    BY <2>1, <2>2, ShiftedIs
  <2>3. CASE ~ (r > c)
    <3>1. r <= c
      BY <1>1, <2>3
    <3> QED
      BY <2>1, <2>3, <3>1, ShiftedIs
  <2> QED
    BY <2>2, <2>3
<1> HIDE DEF shifted
<1>5. ASSUME NEW b \in Bits PROVE shifted[b] = IF r - near <= b /\ b < r THEN w[b - r + c] ELSE {}
  <2>1. b \in Int /\ 0 <= b /\ b < W
    BY <1>1 DEF Bits
  <2>2. CASE r - near <= b /\ b < r
    <3>1. b - r + c \in Bits
      BY <1>1, <1>3, <2>1, <2>2 DEF Bits
    <3> QED
      BY <1>4, <2>2, <3>1
  <2>3. CASE ~ (r - near <= b /\ b < r)
    <3>1. ~ (c - k <= b - r + c /\ b - r + c < (c - k) + k)
      BY <1>1, <1>3, <2>1, <2>3
    <3>2. shifted[b] = {}
      BY <1>4, <3>1 DEF Only
    <3> QED
      BY <2>3, <3>2
  <2> QED
    BY <2>2, <2>3
<1>6. \A b \in Bits : b \in Window(r - near, near) <=> r - near <= b /\ b < r
  <2>1. r - near \in Int /\ (r - near) + near = r
    BY <1>1, <1>3
  <2> QED
    BY <1>3, <2>1, MaskIs
<1>7. /\ DOMAIN memory1 = Word
      /\ \A j \in Word, b \in Bits :
           memory1[j][b] = IF j = B /\ r - near <= b /\ b < r THEN w[b - r + c] ELSE memory[j][b]
  <2>1. CASE near = 0
    BY <1>1, <2>1 DEF Bits
  <2>2. CASE near # 0
    BY <1>5, <1>6, <2>2, MergeIs
  <2> QED
    BY <2>1, <2>2
<1> HIDE DEF memory1
<1>8. Place(result) = B * W + r /\ B * W \in Int
  BY <1>1, WordProduct DEF Place
<1>9. CASE k <= r
  <2>1. near = k /\ rest = 0 /\ r - k \in Bits /\ (r - k) + k <= W /\ k \in Nat /\ c - k \in Int
    BY <1>1, <1>3, <1>9 DEF Bits
  <2>2. ASSUME NEW j \in Word, NEW b \in Bits
        PROVE  memory1[j][b] = IF j = B /\ r - k <= b /\ b < (r - k) + k THEN w[b - (r - k) + (c - k)] ELSE memory[j][b]
    <3>1. (r - k) + k = r /\ b - (r - k) + (c - k) = b - r + c
      BY <1>1 DEF Bits
    <3> QED
      BY <1>7, <2>1, <3>1
  <2>3. Deposited(memory, memory1, B * W + (r - k), w, c - k, k)
    BY <1>1, <1>7, <2>1, <2>2, PutNear
  <2>4. Move!DepositBack(w, c, k).memory = memory1 /\ Move!DepositBack(w, c, k).result = [result EXCEPT !.ctz = @ - near]
    BY <1>2, <2>1
  <2>5. Move!DepositBack(w, c, k).result = [blk |-> B, ctz |-> r - k]
    BY <2>1, <2>4 DEF Iterator
  <2>6. B * W + (r - k) = Place(result) - k
    BY <1>1, <1>8
  <2> HIDE DEF B, r
  <2> QED
    BY <1>1, <2>1, <2>3, <2>4, <2>5, <2>6 DEF Iterator, Place
<1>10. CASE k > r
  <2>1. near = r /\ rest = k - r /\ rest # 0 /\ W - rest \in Bits /\ rest \in Int /\ W <= (W - rest) + k
        /\ k \in Nat /\ c - k \in Int /\ W - rest \in Int /\ B - 1 \in Int
    BY <1>1, <1>3, <1>10 DEF Bits
  <2>2. ASSUME NEW b \in Bits
        PROVE  Shl(w, (W - rest) - (c - k))[b] = IF b >= W - rest THEN w[b - (W - rest) + (c - k)] ELSE {}
    <3>1. b \in Int /\ 0 <= b /\ b < W
      BY <1>1 DEF Bits
    <3>2. b - ((W - rest) - (c - k)) = b - (W - rest) + (c - k)
      BY <1>1, <2>1, <3>1
    <3>3. Shl(w, (W - rest) - (c - k))[b] = IF b >= (W - rest) - (c - k) THEN w[b - (W - rest) + (c - k)] ELSE {}
      BY <3>2 DEF Shl
    <3>4. CASE b >= W - rest
      <4>1. b >= (W - rest) - (c - k)
        BY <1>1, <2>1, <3>1, <3>4
      <4> QED
        BY <3>3, <3>4, <4>1
    <3>5. CASE ~ (b >= W - rest)
      <4>1. b - (W - rest) + (c - k) < c - k
        BY <1>1, <2>1, <3>1, <3>5
      <4>2. b >= (W - rest) - (c - k) => b - (W - rest) + (c - k) \in Bits /\ w[b - (W - rest) + (c - k)] = {}
        BY <1>1, <2>1, <3>1, <4>1 DEF Only, Bits
      <4> QED
        BY <3>3, <3>5, <4>2
    <3> QED
      BY <3>4, <3>5
  <2>3. \A b \in Bits : b \in Upper(W - rest) <=> b >= W - rest
    BY DEF Upper
  <2>4. /\ DOMAIN memory2 = Word
        /\ \A j \in Word, b \in Bits :
             memory2[j][b] = IF j = B - 1 /\ b >= W - rest THEN w[b - (W - rest) + (c - k)] ELSE memory1[j][b]
    BY <1>7, <2>2, <2>3, MergeIs
  <2> HIDE DEF memory2
  <2>5. ASSUME NEW j \in Word, NEW b \in Bits
        PROVE  memory2[j][b] = IF j = B - 1 /\ W - rest <= b THEN w[b - (W - rest) + (c - k)]
                          ELSE IF j = (B - 1) + 1 /\ b < (W - rest) + k - W
                          THEN w[b + (W - (W - rest)) + (c - k)] ELSE memory[j][b]
    <3>1. b \in Int /\ 0 <= b /\ B # B - 1 /\ (B - 1) + 1 = B /\ (W - rest <= b <=> b >= W - rest)
      BY <1>1, <2>1 DEF Bits
    <3>2. (W - rest) + k - W = r /\ b + (W - (W - rest)) + (c - k) = b - r + c
      BY <1>1, <2>1, <3>1
    <3>3. r - near <= b
      BY <1>1, <2>1, <3>1
    <3> HIDE DEF near, rest, B, r
    <3> QED
      BY <1>7, <2>4, <3>1, <3>2, <3>3
  <2>6. Deposited(memory, memory2, (B - 1) * W + (W - rest), w, c - k, k)
    BY <1>1, <2>1, <2>4, <2>5, PutBoth
  <2>7. Move!DepositBack(w, c, k).memory = memory2 /\ Move!DepositBack(w, c, k).result = [blk |-> B - 1, ctz |-> W - rest]
    BY <1>2, <2>1
  <2>8. (B - 1) * W + (W - rest) = Place(result) - k
    <3>1. (B - 1) * W = B * W - W
      BY <1>1, WordProduct
    <3> QED
      BY <1>1, <1>8, <2>1, <3>1
  <2> HIDE DEF B, rest
  <2> QED
    BY <2>1, <2>6, <2>7, <2>8 DEF Iterator, Place
<1> QED
  BY <1>1, <1>9, <1>10

LEMMA BackAligned == Move!Backward => ~ FlipsAligned
BY DEF Move!Backward, FlipsAligned

LEMMA BackFirst ==
  ASSUME MoveKept, Move!Backward, Move!FirstBack PROVE MoveKept'
<1>1. CopyBegins /\ pc = "first" /\ n = call.n /\ n > 0 /\ Way = n
  BY CopyBegin, BackAligned DEF MoveKept, MovePhase, Move!FirstBack, Way
<1>2. CASE first.ctz = 0
  <2>1. /\ memory' = memory /\ result' = result /\ first' = first /\ n' = n - 0 /\ pc' = "middle" /\ call' = call
    BY <1>2 DEF Move!FirstBack, Move!Become
  <2>2. MovesNext(0)
    <3>1. n' = n
      BY <1>1, <2>1 DEF CopyBegins, MoveTyped
    <3> QED
      BY <2>1, <3>1, MovesNothing
  <2>3. Place(first) \in Int /\ Place(result) \in Int
    BY <1>1, PlaceInt DEF CopyBegins
  <2> QED
    BY <1>1, <1>2, <2>1, <2>2, <2>3, BackAligned, CopyStep DEF CopyBegins
<1>3. CASE first.ctz # 0
  <2> DEFINE c == first.ctz
             k == Least(c, n)
             w == And(memory[first.blk], Window(c - k, k))
             out == Move!DepositBack(w, c, k)
  <2>1. /\ memory' = out.memory /\ result' = out.result /\ first' = [first EXCEPT !.ctz = 0] /\ n' = n - k
        /\ pc' = "middle" /\ call' = call
    BY <1>3, MoveWords, Zenon DEF Move!FirstBack, Move!Become
  <2>2. k \in Int /\ 1 <= k /\ k <= W /\ k <= n /\ k <= c /\ (k < n => k = c) /\ c \in Bits /\ c - k \in Bits /\ c - k \in Int /\ (c - k) + k = c /\ (c - k) + k <= W /\ c \in Int /\ k \in 1..W
    BY <1>1, <1>3 DEF Least, CopyBegins, MoveTyped, Bits
  <2> HIDE DEF c, k
  <2>3. \A b \in Bits : b \in Window(c - k, k) <=> c - k <= b /\ b < (c - k) + k
    BY <2>2, MaskIs
  <2>4. /\ Only(w, c - k, k)
        /\ \A b \in Bits : c - k <= b /\ b < (c - k) + k => w[b] = memory[first.blk][b]
    BY <2>3, MaskedOnly
  <2> HIDE DEF w
  <2>5. /\ Deposited(memory, out.memory, Place(result) - k, w, c - k, k)
        /\ Iterator(out.result) /\ Place(out.result) = Place(result) - k
    BY <1>1, <2>2, <2>4, DepositBackPuts DEF CopyBegins
  <2> HIDE DEF out
  <2>6. NextAt(k) = Place(result) - k
    BY <1>1, <2>2 DEF NextAt, CopyBegins, MoveTyped
  <2>7. Spot(first.blk, c - k) = call.from + (n - k)
    <3>1. Place(first) = first.blk * W + c /\ Place(first) = call.from + n /\ first.blk * W \in Int
      BY <1>1, WordProduct DEF Place, c, CopyBegins
    <3>2. Spot(first.blk, c - k) = first.blk * W + (c - k)
      BY DEF Spot
    <3>3. n \in Int /\ call.from \in Int
      BY <1>1 DEF CopyBegins, MoveTyped
    <3> QED
      BY <2>2, <3>1, <3>2, <3>3
  <2>8. first.blk \in Word
    <3>1. 0 <= Spot(first.blk, c - k) /\ Spot(first.blk, c - k) < W * Words
      BY <1>1, <2>2, <2>7 DEF CopyBegins, MoveTyped
    <3> QED
      BY <1>1, <2>2, <3>1, SpotWord DEF CopyBegins
  <2>9. MovesNext(k)
    <3>1. Spot(first.blk, c - k) = call.from + (NextAt(k) - call.to)
      BY <1>1, <2>2, <2>6, <2>7 DEF CopyBegins, MoveTyped
    <3>2. ASSUME NEW i \in 0..(k - 1) PROVE w[(c - k) + i] = Move!Source(first.blk)[(c - k) + i]
      <4>1. (c - k) + i \in Bits /\ c - k <= (c - k) + i /\ (c - k) + i < (c - k) + k
        BY <1>1, <2>2 DEF Bits, CopyBegins
      <4> QED
        BY <1>1, <2>4, <4>1 DEF Move!Source, Move!Backward
    <3> QED
      BY <2>1, <2>2, <2>5, <2>6, <2>8, <3>1, <3>2, MovesWord
  <2>10. Iterator(first') /\ first'.ctz = 0 /\ (n' > 0 => Place(first') = Place(first) - k)
    <3>1. first' = [blk |-> first.blk, ctz |-> 0]
      BY <1>1, <2>1 DEF CopyBegins, Iterator
    <3>2. n' > 0 => k = c
      BY <1>1, <2>1, <2>2 DEF CopyBegins, MoveTyped
    <3>3. 0 \in Bits /\ first.blk * W \in Int
      BY <1>1, WordProduct, WordAssumption DEF Bits, CopyBegins
    <3>4. Place(first') = first.blk * W + 0 /\ Place(first) = first.blk * W + c
      BY <3>1 DEF Place, c
    <3> QED
      BY <1>1, <2>2, <3>1, <3>2, <3>3, <3>4 DEF Iterator, CopyBegins
  <2> QED
    BY <1>1, <2>1, <2>5, <2>9, <2>10, BackAligned, CopyStep
<1> QED
  BY <1>2, <1>3

LEMMA BackLast ==
  ASSUME MoveKept, Move!Backward, Move!LastBack PROVE MoveKept'
<1>1. CopyBegins /\ pc = "last" /\ first.ctz = 0 /\ n < W /\ Way = n
  BY CopyBegin, BackAligned DEF MoveKept, MovePhase, Move!LastBack, Way
<1>2. CASE n = 0
  <2>1. /\ memory' = memory /\ result' = result /\ first' = first /\ n' = n - 0 /\ pc' = "done" /\ call' = call
    BY <1>1, <1>2 DEF Move!LastBack, Move!Become
  <2>2. n' = 0 /\ n' = n
    BY <1>2, <2>1
  <2>3. MovesNext(0)
    BY <2>1, <2>2, MovesNothing
  <2>4. Place(first) \in Int /\ Place(result) \in Int
    BY <1>1, PlaceInt DEF CopyBegins
  <2> QED
    BY <1>1, <2>1, <2>2, <2>3, <2>4, BackAligned, CopyStep DEF CopyBegins
<1>3. CASE n # 0
  <2> DEFINE w == And(memory[first.blk - 1], Upper(W - n))
             out == Move!DepositBack(w, W, n)
  <2>1. /\ memory' = out.memory /\ result' = out.result /\ first' = [first EXCEPT !.blk = @ - 1] /\ n' = n - n
        /\ pc' = "done" /\ call' = call
    BY <1>3, MoveWords, Zenon DEF Move!LastBack, Move!Become
  <2>2. n \in Int /\ 1 <= n /\ n <= W /\ n <= n /\ n \in 1..W /\ W - n \in Bits /\ W - n \in Int /\ (W - n) + n = W /\ n - n = 0 /\ W \in Bits \cup {W}
    BY <1>1, <1>3 DEF CopyBegins, MoveTyped, Bits
  <2>3. \A b \in Bits : b \in Upper(W - n) <=> W - n <= b /\ b < (W - n) + n
    BY <1>1, <2>2, MaskIs DEF Bits, CopyBegins
  <2>4. /\ Only(w, W - n, n)
        /\ \A b \in Bits : W - n <= b /\ b < (W - n) + n => w[b] = memory[first.blk - 1][b]
    BY <2>3, MaskedOnly
  <2> HIDE DEF w
  <2>5. /\ Deposited(memory, out.memory, Place(result) - n, w, W - n, n)
        /\ Iterator(out.result) /\ Place(out.result) = Place(result) - n
    BY <1>1, <2>2, <2>4, DepositBackPuts DEF CopyBegins
  <2> HIDE DEF out
  <2>6. NextAt(n) = Place(result) - n
    BY <1>1, <2>2 DEF NextAt, CopyBegins, MoveTyped
  <2>7. Spot(first.blk - 1, W - n) = call.from + (n - n) /\ first.blk - 1 \in Int
    <3>1. Place(first) = first.blk * W + 0 /\ Place(first) = call.from + n
      BY <1>1, <2>2 DEF Place, CopyBegins
    <3>2. (first.blk - 1) * W = first.blk * W - W /\ first.blk * W \in Int
      BY <1>1, WordProduct DEF CopyBegins
    <3> QED
      BY <1>1, <2>2, <3>1, <3>2 DEF Spot, CopyBegins, MoveTyped
  <2>8. first.blk - 1 \in Word
    <3>1. 0 <= Spot(first.blk - 1, W - n) /\ Spot(first.blk - 1, W - n) < W * Words
      BY <1>1, <2>2, <2>7 DEF CopyBegins, MoveTyped
    <3> QED
      BY <2>2, <2>7, <3>1, SpotWord DEF CopyBegins
  <2>9. MovesNext(n)
    <3>1. Spot(first.blk - 1, W - n) = call.from + (NextAt(n) - call.to)
      BY <1>1, <2>2, <2>6, <2>7 DEF CopyBegins, MoveTyped
    <3>2. ASSUME NEW i \in 0..(n - 1) PROVE w[(W - n) + i] = Move!Source(first.blk - 1)[(W - n) + i]
      <4>1. (W - n) + i \in Bits /\ W - n <= (W - n) + i /\ (W - n) + i < (W - n) + n
        BY <1>1, <2>2 DEF Bits, CopyBegins
      <4> QED
        BY <1>1, <2>4, <4>1 DEF Move!Source, Move!Backward
    <3> QED
      BY <2>1, <2>2, <2>5, <2>6, <2>8, <3>1, <3>2, MovesWord
  <2>10. n' = 0 /\ Iterator(first')
    <3>1. first' = [blk |-> first.blk - 1, ctz |-> first.ctz]
      BY <1>1, <2>1 DEF CopyBegins, Iterator
    <3> QED
      BY <1>1, <2>1, <2>2, <3>1 DEF CopyBegins, Iterator
  <2> QED
    BY <1>1, <2>1, <2>2, <2>5, <2>9, <2>10, BackAligned, CopyStep DEF CopyBegins
<1> QED
  BY <1>2, <1>3

LEMMA BackWord ==
  ASSUME MoveKept, Move!Backward, Move!MiddleWordBack PROVE MoveKept'
<1>1. CopyBegins /\ pc = "middle" /\ first.ctz = 0 /\ Way = n
  BY CopyBegin, BackAligned DEF MoveKept, MovePhase, Move!MiddleWordBack, Way
<1>2. CASE n < W
  <2>1. /\ memory' = memory /\ result' = result /\ first' = first /\ n' = n - 0 /\ pc' = "last" /\ call' = call
    BY <1>1, <1>2 DEF Move!MiddleWordBack, Move!Become
  <2>2. n' < W /\ n' = n
    BY <1>1, <1>2, <2>1 DEF CopyBegins, MoveTyped
  <2>3. MovesNext(0)
    BY <2>1, <2>2, MovesNothing
  <2>4. Place(first) \in Int /\ Place(result) \in Int
    BY <1>1, PlaceInt DEF CopyBegins
  <2> QED
    BY <1>1, <2>1, <2>2, <2>3, <2>4, BackAligned, CopyStep DEF CopyBegins
<1>3. CASE ~ (n < W)
  <2> DEFINE w == memory[first.blk - 1]
             r == result.ctz
             B == result.blk - 1
  <2>1. /\ memory' = Merge(Merge(memory, result.blk, Lower(W - r), Shr(w, W - r)), B, Bits \ Lower(W - r), Shl(w, r))
        /\ result' = [result EXCEPT !.blk = @ - 1] /\ first' = [first EXCEPT !.blk = @ - 1] /\ n' = n - W
        /\ pc' = "middle" /\ call' = call
    BY <1>3, MoveWords, Zenon DEF Move!MiddleWordBack, Move!Become
  <2>2. W \in 1..W /\ W <= n /\ n > 0 /\ 0 + W <= W /\ 0 \in Bits /\ 0 <= W
    BY <1>1, <1>3 DEF CopyBegins, MoveTyped, Bits
  <2> HIDE DEF w
  <2>3. Deposited(memory, memory', Place(result) - W, w, 0, W)
    <3>1. Deposited(memory, memory', B * W + r, w, 0, W)
      <4>1. B \in Int /\ B + 1 = result.blk
        BY <1>1 DEF CopyBegins
      <4> HIDE DEF B
      <4> QED
        BY <1>1, <2>1, <4>1, TwoWords DEF CopyBegins
    <3>2. Place(result) - W = B * W + r
      <4>1. B * W = result.blk * W - W /\ result.blk * W \in Int
        BY <1>1, WordProduct DEF CopyBegins
      <4> QED
        BY <1>1, <4>1 DEF Place, CopyBegins
    <3> QED
      BY <3>1, <3>2
  <2>4. NextAt(W) = Place(result) - W
    BY <1>1 DEF NextAt, CopyBegins, MoveTyped
  <2>5. Spot(first.blk - 1, 0) = call.from + (n - W) /\ first.blk - 1 \in Int
    <3>1. Place(first) = first.blk * W + 0 /\ Place(first) = call.from + n
      BY <1>1, <2>2 DEF Place, CopyBegins
    <3>2. (first.blk - 1) * W = first.blk * W - W /\ first.blk * W \in Int
      BY <1>1, WordProduct DEF CopyBegins
    <3> QED
      BY <1>1, <2>2, <3>1, <3>2 DEF Spot, CopyBegins, MoveTyped
  <2>6. first.blk - 1 \in Word
    <3>1. 0 <= Spot(first.blk - 1, 0) /\ Spot(first.blk - 1, 0) < W * Words
      BY <1>1, <2>2, <2>5 DEF CopyBegins, MoveTyped
    <3> QED
      BY <2>2, <2>5, <3>1, SpotWord DEF CopyBegins
  <2>7. MovesNext(W)
    <3>1. Spot(first.blk - 1, 0) = call.from + (NextAt(W) - call.to)
      BY <1>1, <2>4, <2>5 DEF CopyBegins, MoveTyped
    <3>2. \A i \in 0..(W - 1) : w[0 + i] = Move!Source(first.blk - 1)[0 + i]
      BY DEF w, Move!Source, Move!Backward
    <3> QED
      BY <2>1, <2>2, <2>3, <2>4, <2>6, <3>1, <3>2, MovesWord
  <2>8. /\ Iterator(result') /\ Place(result') = Place(result) - W
        /\ Iterator(first') /\ Place(first') = Place(first) - W /\ first'.ctz = 0
    <3>1. /\ result' = [blk |-> result.blk - 1, ctz |-> result.ctz] /\ result.blk - 1 \in Int
          /\ first' = [blk |-> first.blk - 1, ctz |-> first.ctz] /\ first.blk - 1 \in Int
      BY <1>1, <2>1 DEF CopyBegins, Iterator
    <3>2. /\ (result.blk - 1) * W = result.blk * W - W /\ result.blk * W \in Int
          /\ (first.blk - 1) * W = first.blk * W - W /\ first.blk * W \in Int
      BY <1>1, WordProduct DEF CopyBegins
    <3>3. Place(result') = (result.blk - 1) * W + result.ctz /\ Place(first') = (first.blk - 1) * W + first.ctz
      BY <3>1 DEF Place
    <3>4. Place(result) = result.blk * W + result.ctz /\ Place(first) = first.blk * W + first.ctz
      BY DEF Place
    <3>5. Place(result') = Place(result) - W /\ Place(first') = Place(first) - W
      BY <1>1, <3>2, <3>3, <3>4 DEF CopyBegins
    <3> QED
      BY <1>1, <3>1, <3>5 DEF CopyBegins, Iterator
  <2> QED
    BY <1>1, <2>1, <2>7, <2>8, BackAligned, CopyStep
<1> QED
  BY <1>2, <1>3

LEMMA BackWords ==
  ASSUME MoveKept, Move!Backward, Move!MiddleWordsBack PROVE MoveKept'
<1>1. CopyBegins /\ pc = "middle" /\ first.ctz = 0 /\ Way = n /\ Move!Aligned /\ call.op # "flip"
  BY CopyBegin, BackAligned DEF MoveKept, MovePhase, Move!MiddleWordsBack, Way, FlipsAligned
<1> DEFINE count == n \div W
           k == count * W
<1>2. /\ WordsMoved(first.blk - count, result.blk - count, count)
      /\ result' = [result EXCEPT !.blk = result.blk - count] /\ first' = [first EXCEPT !.blk = first.blk - count]
      /\ n' = n - k /\ pc' = "last" /\ call' = call
  BY Zenon DEF Move!MiddleWordsBack, Move!Become, WordsMoved, Word
<1>3. count \in Nat /\ k \in Nat /\ k <= n /\ n - k < W /\ (count > 0 => n > 0) /\ count \in Int /\ k \in Int
  BY <1>1, CountIs DEF CopyBegins, MoveTyped
<1>4. /\ first.blk * W \in Int /\ result.blk * W \in Int
      /\ (first.blk - count) * W = first.blk * W - k /\ (result.blk - count) * W = result.blk * W - k
  BY <1>1, <1>3, WordProduct, WordSum DEF CopyBegins
<1> HIDE DEF count
<1>5. Place(first) = first.blk * W + first.ctz /\ Place(result) = result.blk * W + result.ctz
  BY DEF Place
<1>6. ASSUME count > 0
      PROVE  (result.blk - count) * W = NextAt(k) /\ (first.blk - count) * W = call.from + (NextAt(k) - call.to)
  <2>1. Place(first) = call.from + n /\ Place(result) = call.to + n /\ NextAt(k) = call.to + (n - k)
    BY <1>1, <1>3, <1>6 DEF CopyBegins, NextAt
  <2>2. (Place(first) - Place(result)) % W = 0
    <3>1. Place(first) - Place(result) = call.from - call.to
      BY <1>1, <2>1 DEF CopyBegins, MoveTyped
    <3> QED
      BY <1>1, <3>1 DEF Move!Aligned
  <2>3. result.ctz = 0
    BY <1>1, <2>2, SameBit DEF CopyBegins
  <2> QED
    BY <1>1, <1>3, <1>4, <1>5, <2>1, <2>3 DEF CopyBegins, MoveTyped
<1>7. MovesNext(k)
  <2>1. first.blk - count \in Int /\ result.blk - count \in Int
    BY <1>1, <1>3 DEF CopyBegins
  <2> QED
    BY <1>1, <1>2, <1>3, <1>6, <2>1, MovesWords DEF CopyBegins
<1>8. /\ Iterator(result') /\ Place(result') = Place(result) - k
      /\ Iterator(first') /\ Place(first') = Place(first) - k /\ first'.ctz = 0
  <2>1. /\ result' = [blk |-> result.blk - count, ctz |-> result.ctz] /\ result.blk - count \in Int
        /\ first' = [blk |-> first.blk - count, ctz |-> first.ctz] /\ first.blk - count \in Int
    BY <1>1, <1>2, <1>3 DEF CopyBegins, Iterator
  <2>2. Place(result') = (result.blk - count) * W + result.ctz /\ Place(first') = (first.blk - count) * W + first.ctz
    BY <2>1 DEF Place
  <2> HIDE DEF k
  <2>3. Place(result') = Place(result) - k /\ Place(first') = Place(first) - k
    BY <1>1, <1>3, <1>4, <1>5, <2>2 DEF CopyBegins
  <2> QED
    BY <1>1, <2>1, <2>3 DEF CopyBegins, Iterator
<1> HIDE DEF k
<1>9. n' < W
  BY <1>2, <1>3
<1> QED
  BY <1>1, <1>2, <1>7, <1>8, <1>9, BackAligned, CopyStep

-----------------------------------------------------------------------------
(* flip_range on ranges that are aligned *)

\* w ^ mask
LEMMA FlipIs ==
  ASSUME NEW w, NEW mask, NEW b \in Bits
  PROVE  Move!Flip(w, mask)[b] = IF b \in mask THEN Not(w)[b] ELSE w[b]
<1>1. Move!Flip(w, mask)[b] = And(w, Bits \ mask)[b] \cup And(Not(w), mask)[b]
  BY MoveWords DEF Move!Flip, Or
<1>2. And(w, Bits \ mask)[b] = (IF b \in Bits \ mask THEN w[b] ELSE {}) /\ And(Not(w), mask)[b] = (IF b \in mask THEN Not(w)[b] ELSE {})
  BY DEF And
<1>3. CASE b \in mask
  <2>1. Move!Flip(w, mask)[b] = {} \cup Not(w)[b]
    BY <1>1, <1>2, <1>3
  <2> QED
    BY <1>3, <2>1
<1>4. CASE b \notin mask
  <2>1. Move!Flip(w, mask)[b] = w[b] \cup {}
    BY <1>1, <1>2, <1>4
  <2> QED
    BY <1>4, <2>1
<1> QED
  BY <1>3, <1>4

\* A word of the source, of which k bits from c on are flipped, is put where it belongs.
LEMMA MovesFlip ==
  ASSUME MoveKept, call.op = "flip", DOMAIN memory = Word,
         NEW i \in Word, NEW j \in Word, NEW c \in Bits, NEW k \in 1..W, c + k <= W, k <= n,
         NEW mask, \A b \in Bits : b \in mask <=> c <= b /\ b < c + k,
         Spot(i, c) = call.from + Done, Spot(j, c) = call.to + Done,
         i = j \/ (c = 0 /\ k = W),
         memory' = [memory EXCEPT ![j] = Move!Flip(memory[i], mask)], n' = n - k, call' = call
  PROVE  MovesNext(k)
<1>1. /\ MoveTyped /\ k \in Int /\ c \in Int /\ k \in Nat /\ j \in Int /\ ~ Move!Backward /\ W \in Int /\ 0 <= c
  BY MoveTypes, WordAssumption DEF Bits, Word, Move!Backward
<1>2. NextAt(k) = call.to + Done /\ NextAt(k) = j * W + c
  BY <1>1 DEF NextAt, Spot
<1>3. Move!Source(i) = Not(memory[i])
  BY MoveWords DEF Move!Source
<1>4. ASSUME NEW q \in Word, NEW b \in Bits
      PROVE  memory'[q][b] = IF q = j /\ c <= b /\ b < c + k THEN Move!Source(i)[b - c + c] ELSE memory[q][b]
  <2>1. CASE q # j
    BY <1>4, <2>1
  <2>2. CASE q = j
    <3>1. memory'[q][b] = IF b \in mask THEN Not(memory[i])[b] ELSE memory[i][b]
      BY <2>2, FlipIs
    <3>2. b - c + c = b /\ 0 <= b /\ b < W
      BY <1>1 DEF Bits
    <3>3. CASE b \in mask
      <4>1. c <= b /\ b < c + k
        BY <3>3
      <4> QED
        BY <1>3, <2>2, <3>1, <3>2, <3>3, <4>1
    <3>4. CASE b \notin mask
      <4>1. ~ (c <= b /\ b < c + k)
        BY <3>4
      <4>2. i = j
        BY <1>1, <3>2, <4>1
      <4> QED
        BY <2>2, <3>1, <3>4, <4>1, <4>2
    <3> QED
      BY <3>3, <3>4
  <2> QED
    BY <2>1, <2>2
<1>5. DOMAIN memory' = Word
  OBVIOUS
<1>6. Deposited(memory, memory', NextAt(k), Move!Source(i), c, k)
  <2>1. Deposited(memory, memory', j * W + c, Move!Source(i), c, k)
    BY <1>1, <1>4, <1>5, PutNear
  <2> QED
    BY <1>2, <2>1
<1>7. Spot(i, c) = call.from + (NextAt(k) - call.to)
  BY <1>1, <1>2 DEF MoveTyped, Done
<1> QED
  BY <1>6, <1>7, MovesWord

FlipBegins ==
  /\ MoveTyped /\ MoveCalled /\ Iterator(first) /\ Iterator(result) /\ DOMAIN memory = Word
  /\ first.blk \in Int /\ result.blk \in Int
  /\ call.op = "flip" /\ ~ Move!Backward /\ Move!Aligned
  /\ W \in Int /\ 0 < W /\ W * Words \in Int
  /\ call.from + call.n <= W * Words /\ call.to + call.n <= W * Words
  /\ Move!InPlace <=> call.from = call.to
  /\ ~ Move!InPlace => n % W = 0

LEMMA FlipBegin ==
  ASSUME MoveKept, FlipsAligned PROVE FlipBegins
<1>1. MoveTyped /\ MoveCalled /\ CursorsMoved /\ DOMAIN memory = Word
  BY MoveTypes DEF MoveKept, MemoryMoved
<1>2. Iterator(first) /\ Iterator(result)
  BY <1>1 DEF CursorsMoved
<1>3. W \in Int /\ 0 < W /\ W * Words \in Int
  BY WordAssumption
<1>4. first.blk \in Int /\ result.blk \in Int
  BY <1>2 DEF Iterator
<1>5. call.from + call.n <= W * Words /\ call.to + call.n <= W * Words
  BY <1>1 DEF MoveCalled
<1>6. call.op = "flip" /\ ~ Move!Backward /\ Move!Aligned
  BY DEF FlipsAligned, Move!Backward
<1>7. ~ Move!InPlace => n % W = 0
  BY <1>1 DEF CursorsMoved
<1> QED
  BY <1>1, <1>2, <1>3, <1>4, <1>5, <1>6, <1>7 DEF FlipBegins, Move!InPlace

LEMMA FlipStep ==
  ASSUME MoveKept, FlipsAligned, NEW c \in Bits, NEW k \in 1..W, c + k <= W, k <= n,
         NEW mask, \A b \in Bits : b \in mask <=> c <= b /\ b < c + k,
         Spot(first.blk, c) = call.from + Done, Spot(result.blk, c) = call.to + Done,
         Move!InPlace \/ (c = 0 /\ k = W),
         NEW next, Move!Write(mask, n - k, next),
         \/ next = "done" /\ n - k = 0
         \/ next = "words" /\ k = W - c /\ (Move!InPlace => n - k > 0)
  PROVE  MoveKept'
<1>1. FlipBegins /\ k \in Int /\ 1 <= k /\ c \in Int /\ 0 <= c /\ k <= W
  BY FlipBegin, WordAssumption DEF Bits
<1>2. first.blk \in Word /\ result.blk \in Word
  <2>1. /\ 0 <= Spot(first.blk, c) /\ Spot(first.blk, c) < W * Words
        /\ 0 <= Spot(result.blk, c) /\ Spot(result.blk, c) < W * Words
    BY <1>1 DEF FlipBegins, MoveTyped, Done
  <2> QED
    BY <1>1, <2>1, SpotWord DEF FlipBegins
<1>3. /\ memory' = [memory EXCEPT ![result.blk] = Move!Flip(memory[first.blk], mask)]
      /\ result' = [result EXCEPT !.blk = @ + 1] /\ first' = [first EXCEPT !.blk = @ + 1]
      /\ n' = n - (n - (n - k)) /\ pc' = next /\ call' = call
  BY <1>2 DEF Move!Write, Move!Become, Word
<1>4. n' = n - k /\ n' >= 0 /\ n' <= call.n
  BY <1>1, <1>3 DEF FlipBegins, MoveTyped
<1>5. first.blk = result.blk \/ (c = 0 /\ k = W)
  <2>1. CASE Move!InPlace
    <3>1. first.blk * W = result.blk * W /\ first.blk * W \in Int
      <4>1. first.blk * W \in Int /\ result.blk * W \in Int
        BY <1>1, WordProduct DEF FlipBegins
      <4> QED
        BY <1>1, <2>1, <4>1 DEF FlipBegins, Spot, MoveTyped, Done
    <3>2. ~ (first.blk < result.blk) /\ ~ (result.blk < first.blk)
      BY <1>1, <3>1, WordBefore DEF FlipBegins
    <3> QED
      BY <1>1, <3>2 DEF FlipBegins
  <2> QED
    BY <2>1
<1>6. MovesNext(k)
  <2>1. call.op = "flip" /\ DOMAIN memory = Word
    BY <1>1 DEF FlipBegins
  <2>2. /\ memory' = [memory EXCEPT ![result.blk] = Move!Flip(memory[first.blk], mask)]
        /\ n' = n - k /\ call' = call
    BY <1>3, <1>4
  <2> QED
    BY <1>2, <1>5, <2>1, <2>2, MovesFlip
<1>7. /\ first' = [blk |-> first.blk + 1, ctz |-> first.ctz] /\ first.blk + 1 \in Int
      /\ result' = [blk |-> result.blk + 1, ctz |-> result.ctz] /\ result.blk + 1 \in Int
  BY <1>1, <1>3 DEF FlipBegins, Iterator
<1>8. Iterator(first)' /\ Iterator(result)'
  BY <1>1, <1>7 DEF FlipBegins, Iterator, Bits
<1>9. MoveCalled' /\ FlipsAligned' /\ ~ Move!Backward' /\ (Move!InPlace' <=> Move!InPlace)
  BY <1>1, <1>3, MoveCallKept DEF FlipBegins
<1>10. ~ Move!InPlace => n' % W = 0
  <2> SUFFICES ASSUME ~ Move!InPlace PROVE n' % W = 0
    OBVIOUS
  <2>1. PICK q \in Int, r \in Bits : n = q * W + r /\ n % W = r
    BY <1>1, PlaceNamed DEF FlipBegins, MoveTyped
  <2>2. (q - 1) * W = q * W - W /\ q * W \in Int /\ q - 1 \in Int /\ 0 \in Bits
    BY WordProduct, WordAssumption DEF Bits
  <2>3. n' = (q - 1) * W + 0
    BY <1>1, <1>4, <2>1, <2>2 DEF FlipBegins
  <2> QED
    BY <2>2, <2>3, PlaceIs
<1>11. next = "words" => result'.blk * W = call.to + (call.n - n') /\ first'.blk * W = call.from + (call.n - n')
  <2> SUFFICES ASSUME next = "words"
               PROVE  result'.blk * W = call.to + (call.n - n') /\ first'.blk * W = call.from + (call.n - n')
    OBVIOUS
  <2>1. /\ (result.blk + 1) * W = result.blk * W + W /\ result.blk * W \in Int
        /\ (first.blk + 1) * W = first.blk * W + W /\ first.blk * W \in Int
    BY <1>1, WordProduct DEF FlipBegins
  <2>2. result'.blk * W = result.blk * W + W /\ first'.blk * W = first.blk * W + W
    BY <1>7, <2>1
  <2>3. first.blk * W + c = call.from + Done /\ result.blk * W + c = call.to + Done
    BY DEF Spot
  <2>4. k = W - c
    OBVIOUS
  <2>5. call.n - n' = Done + k /\ Done \in Int /\ call.to \in Int /\ call.from \in Int
    BY <1>1, <1>4 DEF FlipBegins, MoveTyped, Done
  <2>6. result.blk * W \in Int /\ first.blk * W \in Int /\ W \in Int
    BY <1>1, <2>1 DEF FlipBegins
  <2> QED
    BY <1>1, <2>2, <2>3, <2>4, <2>5, <2>6
<1>12. CursorsMoved'
  <2>1. pc' # "first"
    BY <1>3
  <2>2. ~ (~ FlipsAligned' \/ pc' = "first")
    BY <1>9, <2>1
  <2>3. pc' = "words" => result'.blk * W = call'.to + (call'.n - n') /\ first'.blk * W = call'.from + (call'.n - n')
    BY <1>3, <1>11
  <2>4. ~ Move!InPlace' => n' % W = 0
    BY <1>9, <1>10
  <2>5. (FlipsAligned /\ pc = "words" => result.blk * W = call.to + Done /\ first.blk * W = call.from + Done)'
    BY <2>3 DEF Done
  <2>6. (~ FlipsAligned \/ pc = "first" => Place(result) = call.to + Way)'
    BY <2>2
  <2>7. ((~ FlipsAligned \/ pc = "first") /\ n > 0 => Place(first) = call.from + Way)'
    BY <2>2
  <2>8. (FlipsAligned /\ ~ Move!InPlace => n % W = 0)'
    BY <2>4
  <2> QED
    BY <1>8, <2>5, <2>6, <2>7, <2>8, Zenon DEF CursorsMoved
<1>13. MovePhase'
  <2>1. n' \in 0..call'.n
    BY <1>1, <1>3, <1>4 DEF FlipBegins, MoveTyped
  <2>2. (pc' = "done" /\ n' = 0) \/ (pc' = "words" /\ (Move!InPlace => n' > 0))
    BY <1>3, <1>4
  <2> QED
    BY <1>9, <2>1, <2>2 DEF MovePhase
<1> QED
  BY <1>6, <1>9, <1>12, <1>13, MemoryStep DEF MoveKept

LEMMA FlipsFirst ==
  ASSUME MoveKept, FlipsAligned, Move!FlipFirst PROVE MoveKept'
<1>1. FlipBegins /\ pc = "first" /\ n = call.n /\ n > 0 /\ Way = Done /\ Done = 0
  <2>1. FlipBegins /\ MovePhase /\ pc = "first"
    BY FlipBegin DEF MoveKept, Move!FlipFirst
  <2> QED
    BY <2>1 DEF MovePhase, Way, Done, FlipBegins, MoveTyped
<1>2. Place(result) = call.to + Done /\ Place(first) = call.from + Done
  BY <1>1 DEF MoveKept, CursorsMoved
<1> DEFINE c == first.ctz
           k == Least(n, W - c)
<1>3. c \in Bits /\ c \in Int /\ 0 <= c /\ c < W
  BY <1>1 DEF FlipBegins, Iterator, Bits
<1>4. result.ctz = c
  <2>1. Place(first) - Place(result) = call.from - call.to
    BY <1>1, <1>2 DEF FlipBegins, MoveTyped
  <2>2. (Place(first) - Place(result)) % W = 0
    BY <1>1, <2>1 DEF FlipBegins, Move!Aligned
  <2> QED
    BY <1>1, <2>2, SameBit DEF FlipBegins
<1>5. Spot(first.blk, c) = call.from + Done /\ Spot(result.blk, c) = call.to + Done
  BY <1>2, <1>4 DEF Spot, Place
<1> HIDE DEF c
<1>6. k \in 1..W /\ k \in Int /\ k <= n /\ c + k <= W /\ (n # k => k = W - c /\ n - k > 0)
  BY <1>1, <1>3 DEF Least, FlipBegins, MoveTyped
<1>7. Move!InPlace \/ (c = 0 /\ k = W)
  <2> SUFFICES ASSUME ~ Move!InPlace PROVE c = 0 /\ k = W
    OBVIOUS
  <2>1. n % W = 0 /\ call.from % W = 0
    BY <1>1 DEF FlipBegins, MoveCalled, FlipsAligned
  <2>2. c = 0
    <3>1. first.blk * W + c = call.from
      BY <1>1, <1>5 DEF Spot, FlipBegins, MoveTyped
    <3>2. (first.blk * W + c) % W = c
      BY <1>1, <1>3, PlaceIs DEF FlipBegins
    <3> QED
      BY <2>1, <3>1, <3>2
  <2>3. n >= W
    <3>1. PICK q \in Int, r \in Bits : n = q * W + r /\ n % W = r
      BY <1>1, PlaceNamed DEF FlipBegins, MoveTyped
    <3>2. q * W \in Int /\ 0 * W = 0 /\ n = q * W + 0
      BY <2>1, <3>1, WordProduct, WordAssumption
    <3>3. n = q * W
      BY <3>2
    <3>4. q <= 0 \/ W <= q * W
      <4>1. 0 < q => 0 * W + W <= q * W
        BY WordBefore
      <4> QED
        BY <1>1, <3>2, <4>1 DEF FlipBegins
    <3>5. q < 0 => q * W + W <= 0
      BY <3>2, WordBefore
    <3> QED
      BY <1>1, <3>2, <3>3, <3>4, <3>5 DEF FlipBegins
  <2> QED
    BY <1>1, <2>2, <2>3 DEF Least, FlipBegins, MoveTyped
<1> DEFINE next == IF n = k THEN "done" ELSE "words"
<1>8. Move!Write(Window(c, k), n - k, next)
  BY MoveWords, Zenon DEF Move!FlipFirst, c
<1> HIDE DEF k
<1>9. \A b \in Bits : b \in Window(c, k) <=> c <= b /\ b < c + k
  BY <1>3, <1>6, MaskIs
<1>10. \/ next = "done" /\ n - k = 0
       \/ next = "words" /\ k = W - c /\ (Move!InPlace => n - k > 0)
  BY <1>6
<1> HIDE DEF next
<1> QED
  BY <1>3, <1>5, <1>6, <1>7, <1>8, <1>9, <1>10, FlipStep

\* Before a step of the loop the cursors are at the begin of their words.
LEMMA FlipLoop ==
  ASSUME MoveKept, FlipsAligned, pc = "words"
  PROVE  /\ FlipBegins /\ 0 \in Bits /\ W \in 1..W
         /\ Spot(first.blk, 0) = call.from + Done /\ Spot(result.blk, 0) = call.to + Done
<1>1. FlipBegins /\ 0 \in Bits /\ W \in 1..W
  BY FlipBegin, WordAssumption DEF Bits
<1>2. result.blk * W = call.to + Done /\ first.blk * W = call.from + Done
  BY DEF MoveKept, CursorsMoved
<1>3. result.blk * W \in Int /\ first.blk * W \in Int
  BY <1>1, WordProduct DEF FlipBegins
<1>4. result.blk * W + 0 = result.blk * W /\ first.blk * W + 0 = first.blk * W
  BY <1>3
<1> QED
  BY <1>1, <1>2, <1>4 DEF Spot

LEMMA FlipsWord ==
  ASSUME MoveKept, FlipsAligned, Move!InPlace, Move!FlipWord PROVE MoveKept'
<1>1. pc = "words" /\ n > 0
  BY DEF Move!FlipWord, MoveKept, MovePhase
<1>2. FlipBegins /\ 0 \in Bits /\ W \in 1..W /\ n \in Int /\ W \in Int /\ 0 \in Int
  BY <1>1, FlipLoop DEF FlipBegins, MoveTyped
<1>3. CASE n <= W
  <2>1. n \in 1..W /\ 0 + n <= W /\ n <= n /\ n - n = 0
    BY <1>1, <1>2, <1>3
  <2>2. Move!Write(Lower(W - n), n - n, "done")
    BY <1>3, <2>1, MoveWords DEF Move!FlipWord
  <2>3. \A b \in Bits : b \in Lower(W - n) <=> 0 <= b /\ b < 0 + n
    BY <1>2, MaskIs DEF Bits
  <2> QED
    BY <1>1, <1>2, <2>1, <2>2, <2>3, FlipLoop, FlipStep
<1>4. CASE ~ (n <= W)
  <2>1. 0 + W <= W /\ W <= n /\ W = W - 0 /\ n - W > 0
    BY <1>2, <1>4
  <2>2. Move!Write(Bits, n - W, "words")
    BY <1>4, MoveWords DEF Move!FlipWord
  <2>3. \A b \in Bits : b \in Bits <=> 0 <= b /\ b < 0 + W
    BY <1>2 DEF Bits
  <2> QED
    BY <1>1, <1>2, <2>1, <2>2, <2>3, FlipLoop, FlipStep
<1> QED
  BY <1>3, <1>4

LEMMA SmallRemainder ==
  ASSUME NEW x \in Nat, NEW y \in Nat, x < y PROVE x % y = x
OBVIOUS

LEMMA FlipsCopyWord ==
  ASSUME MoveKept, FlipsAligned, ~ Move!InPlace, Move!FlipCopyWord PROVE MoveKept'
<1>1. pc = "words"
  BY DEF Move!FlipCopyWord
<1>2. FlipBegins /\ 0 \in Bits /\ W \in 1..W /\ n \in Int /\ W \in Int /\ 0 \in Int /\ 0 <= n /\ 0 < W
  BY <1>1, FlipLoop DEF FlipBegins, MoveTyped
<1>3. CASE n = 0
  <2>1. /\ memory' = memory /\ result' = result /\ first' = first /\ n' = n - 0 /\ pc' = "done" /\ call' = call
    BY <1>1, <1>3 DEF Move!FlipCopyWord, Move!Become
  <2>2. n' = n
    BY <1>3, <2>1
  <2>3. MemoryMoved'
    BY <2>1, <2>2, MovesNothing, MemoryStep
  <2>4. MoveCalled' /\ FlipsAligned' /\ ~ Move!InPlace'
    BY <1>2, <2>1, MoveCallKept DEF FlipBegins
  <2>5. MovePhase'
    BY <1>2, <1>3, <2>1, <2>2, <2>4 DEF MovePhase, FlipBegins, MoveTyped
  <2>6. CursorsMoved'
    <3>1. Iterator(first)' /\ Iterator(result)'
      BY <1>2, <2>1 DEF FlipBegins, Iterator, Bits
    <3>2. n' % W = 0
      BY <1>2, <2>2 DEF FlipBegins
    <3> QED
      BY <2>1, <2>4, <3>1, <3>2 DEF CursorsMoved
  <2> QED
    BY <2>3, <2>4, <2>5, <2>6 DEF MoveKept
<1>4. CASE n # 0
  <2>1. W <= n
    <3>1. PICK q \in Int, r \in Bits : n = q * W + r /\ n % W = r
      BY <1>2, PlaceNamed
    <3>2. q * W \in Int /\ n = q * W + 0
      BY <1>2, <3>1, WordProduct DEF FlipBegins
    <3>3. 0 * W = 0 /\ (0 < q => 0 * W + W <= q * W) /\ (q < 0 => q * W + W <= 0 * W)
      BY WordBefore, WordAssumption
    <3>4. q = 0 => q * W = 0
      BY WordAssumption
    <3> QED
      BY <1>2, <1>4, <3>2, <3>3, <3>4
  <2>2. (n - W) % Move!Modulus = n - W
    <3>1. n <= W * Words /\ W * Words \in Int
      BY <1>2 DEF FlipBegins, MoveTyped
    <3>2. Move!Modulus = 2 * (W * Words) + 2 * W
      BY WordAssumption DEF Move!Modulus
    <3>3. n - W \in Nat /\ Move!Modulus \in Nat /\ n - W < Move!Modulus
      BY <1>2, <2>1, <3>1, <3>2
    <3> QED
      BY <3>3, SmallRemainder
  <2>3. Move!Write(Bits, n - W, "words")
    BY <1>4, <2>2, MoveWords DEF Move!FlipCopyWord
  <2>4. \A b \in Bits : b \in Bits <=> 0 <= b /\ b < 0 + W
    BY <1>2 DEF Bits
  <2>5. 0 + W <= W /\ W = W - 0
    BY <1>2
  <2> QED
    BY <1>1, <1>2, <2>1, <2>3, <2>4, <2>5, FlipLoop, FlipStep
<1> QED
  BY <1>3, <1>4

-----------------------------------------------------------------------------
(* The calls of copy, copy_backward and flip_range *)

LEMMA MoveInit ==
  ASSUME Move!Init PROVE MoveKept
<1>1. call \in Move!Calls /\ n = call.n /\ memory = Move!Fresh /\ pc = IF n > 0 THEN "first" ELSE "done"
  BY DEF Move!Init
<1>2. /\ call.op \in {"copy", "flip", "copy_backward"}
      /\ call.from \in 0..(W * Words - 1) /\ call.to \in 0..(W * Words - 1) /\ call.n \in 0..(W * Words)
  BY <1>1 DEF Move!Calls, Move!Ops, Move!Places
<1>3. call.from \in Nat /\ call.to \in Nat /\ call.n \in Nat
  BY <1>2
<1>4. MoveCalled
  <2>1. call.from + call.n <= W * Words /\ call.to + call.n <= W * Words
    BY <1>1 DEF Move!Calls
  <2>2. CASE call.op = "copy_backward"
    <3>1. Apart \/ call.from <= call.to
      BY <1>1, <2>2 DEF Move!Calls, Apart
    <3> QED
      BY <1>2, <1>3, <2>1, <2>2, <3>1 DEF MoveCalled, Move!Backward, FlipsAligned
  <2>3. CASE FlipsAligned
    <3>1. call.op = "flip" /\ (call.from - call.to) % W = 0
      BY <2>3 DEF FlipsAligned, Move!Aligned
    <3>2. call.from = call.to \/ (Apart /\ call.from % W = 0 /\ call.n % W = 0)
      BY <1>1, <3>1 DEF Move!Calls, Apart
    <3> QED
      BY <1>2, <1>3, <2>1, <3>1, <3>2 DEF MoveCalled, Move!Backward
  <2>4. CASE ~ FlipsAligned /\ call.op # "copy_backward"
    <3>1. ~ (call.op = "flip" /\ (call.from - call.to) % W = 0)
      BY <2>4 DEF FlipsAligned, Move!Aligned
    <3>2. Apart \/ call.to <= call.from
      BY <1>1, <2>4, <3>1 DEF Move!Calls, Apart
    <3> QED
      BY <1>2, <1>3, <2>1, <2>4, <3>2 DEF MoveCalled, Move!Backward
  <2> QED
    BY <2>2, <2>3, <2>4
<1>5. Done = 0 /\ n \in Int /\ 0 <= n
  BY <1>1, <1>3 DEF Done
<1>6. MemoryMoved
  <2>1. DOMAIN memory = Word
    BY <1>1 DEF Move!Fresh, Word
  <2>2. ASSUME NEW j \in Word, NEW b \in Bits PROVE memory[j][b] = {Spot(j, b)}
    BY <1>1, MoveWords DEF Move!Fresh, Word, Spot
  <2>3. ASSUME NEW p PROVE p \notin 0..(Done - 1)
    BY <1>5
  <2> QED
    BY <2>1, <2>2, <2>3 DEF MemoryMoved
<1>7. CursorsMoved
  <2>1. first = At(call.from + Way) /\ result = At(call.to + Way)
    <3>1. CASE Move!Backward
      BY <1>1, <3>1, MoveWords DEF Move!Init, Way
    <3>2. CASE ~ Move!Backward
      <4>1. call.from + 0 = call.from /\ call.to + 0 = call.to
        BY <1>3
      <4>2. first = At(call.from) /\ result = At(call.to) /\ Way = 0
        BY <1>5, <3>2, MoveWords DEF Move!Init, Way
      <4> QED
        BY <4>1, <4>2
    <3> QED
      BY <3>1, <3>2
  <2>2. call.from + Way \in Int /\ call.to + Way \in Int
    BY <1>3, <1>5 DEF Way
  <2>3. /\ Iterator(first) /\ Place(first) = call.from + Way
        /\ Iterator(result) /\ Place(result) = call.to + Way
    BY <2>1, <2>2, AtIs
  <2>4. pc # "words"
    BY <1>1
  <2>5. FlipsAligned /\ ~ Move!InPlace => n % W = 0
    BY <1>1, <1>4 DEF MoveCalled, Move!InPlace
  <2> QED
    BY <2>3, <2>4, <2>5 DEF CursorsMoved
<1>8. MovePhase
  BY <1>1, <1>3 DEF MovePhase
<1> QED
  BY <1>4, <1>6, <1>7, <1>8 DEF MoveKept

LEMMA MoveNext ==
  ASSUME MoveKept, Move!Next PROVE MoveKept'
<1>1. CASE Move!copy_aligned
  <2>1. ~ FlipsAligned /\ ~ Move!Backward
    BY <1>1 DEF Move!copy_aligned, FlipsAligned, Move!Backward
  <2> QED
    BY <1>1, <2>1, CopyFirst, CopyWords, CopyLast DEF Move!copy_aligned
<1>2. CASE Move!copy_unaligned
  <2>1. ~ FlipsAligned /\ ~ Move!Backward
    BY <1>2 DEF Move!copy_unaligned, FlipsAligned, Move!Backward
  <2> QED
    BY <1>2, <2>1, CopyFirst, CopyWord, CopyLast DEF Move!copy_unaligned
<1>3. CASE Move!flip_copy_unaligned
  <2>1. ~ FlipsAligned /\ ~ Move!Backward
    BY <1>3 DEF Move!flip_copy_unaligned, FlipsAligned, Move!Backward
  <2> QED
    BY <1>3, <2>1, CopyFirst, CopyWord, CopyLast DEF Move!flip_copy_unaligned
<1>4. CASE Move!flip_inplace
  <2>1. FlipsAligned
    <3>1. call.from - call.to = 0
      BY <1>4, MoveTypes DEF Move!flip_inplace, Move!InPlace, MoveTyped
    <3>2. 0 % W = 0
      BY WordAssumption
    <3> QED
      BY <1>4, <3>1, <3>2 DEF Move!flip_inplace, FlipsAligned, Move!Aligned
  <2> QED
    BY <1>4, <2>1, FlipsFirst, FlipsWord DEF Move!flip_inplace
<1>5. CASE Move!flip_copy_aligned
  <2>1. FlipsAligned
    BY <1>5 DEF Move!flip_copy_aligned, FlipsAligned
  <2> QED
    BY <1>5, <2>1, FlipsFirst, FlipsCopyWord DEF Move!flip_copy_aligned
<1>6. CASE Move!copy_backward_aligned
  BY <1>6, BackFirst, BackWords, BackLast DEF Move!copy_backward_aligned
<1>7. CASE Move!copy_backward_unaligned
  BY <1>7, BackFirst, BackWord, BackLast DEF Move!copy_backward_unaligned
<1> QED
  BY <1>1, <1>2, <1>3, <1>4, <1>5, <1>6, <1>7 DEF Move!Next

\* The bit at a place of the memory.
LEMMA BitAtIs ==
  ASSUME NEW p \in Places
  PROVE  \E j \in Word, b \in Bits : Spot(j, b) = p /\ \A M : BitAt(M, p) = M[j][b]
<1>1. p \in Int /\ 0 <= p /\ p < W * Words
  BY WordAssumption DEF Places
<1>2. PICK j \in Int, b \in Bits : p = j * W + b /\ p \div W = j /\ p % W = b
  BY <1>1, PlaceNamed
<1>3. j \in Word /\ Spot(j, b) = p
  BY <1>1, <1>2, SpotWord DEF Spot
<1>4. \A M : BitAt(M, p) = M[j][b]
  BY <1>2 DEF BitAt
<1> QED
  BY <1>3, <1>4

LEMMA MoveGood ==
  ASSUME MoveKept
  PROVE  Move!OutsideKept /\ Move!StaysInMemory /\ Move!MoveExact /\ Move!TypeOK /\ Move!ReturnsEnd
<1>1. MoveTyped /\ MoveCalled /\ MemoryMoved /\ CursorsMoved /\ MovePhase
  BY MoveTypes DEF MoveKept
<1>2. Move!Places = Places /\ \A p : Move!BitAt(memory, p) = BitAt(memory, p) /\ W * Words \in Int
  BY WordAssumption DEF Move!Places, Places, Move!BitAt, BitAt
<1>3. ASSUME NEW p \in Places
      PROVE  BitAt(memory, p) = IF p - DoneFrom \in 0..(Done - 1) THEN Moved(p) ELSE {p}
  <2>1. PICK j \in Word, b \in Bits : Spot(j, b) = p /\ BitAt(memory, p) = memory[j][b]
    BY BitAtIs
  <2> QED
    BY <1>1, <2>1 DEF MemoryMoved
<1>4. Move!OutsideKept
  <2> SUFFICES ASSUME NEW p \in Places, p \notin Move!Target PROVE BitAt(memory, p) = {p}
    BY <1>2 DEF Move!OutsideKept
  <2>1. p \in Int
    BY WordAssumption DEF Places
  <2>2. p - DoneFrom \notin 0..(Done - 1)
    BY <1>1, <2>1 DEF Move!Target, DoneFrom, Done, MoveTyped
  <2> QED
    BY <1>3, <2>2
<1>5. Move!MoveExact
  <2> SUFFICES ASSUME pc = "done", NEW p \in Move!Target PROVE BitAt(memory, p) = Moved(p)
    BY <1>2 DEF Move!MoveExact, Moved
  <2>1. n = 0
    BY <1>1 DEF MovePhase
  <2>2. p \in Int /\ call.to <= p /\ p <= call.to + call.n - 1
    BY <1>1 DEF Move!Target, MoveTyped
  <2>3. p \in Places
    BY <1>1, <1>2, <2>2 DEF Places, MoveCalled
  <2>4. p - DoneFrom \in 0..(Done - 1)
    BY <1>1, <2>1, <2>2 DEF DoneFrom, Done, MoveTyped
  <2> QED
    BY <1>3, <2>3, <2>4
<1>6. Move!TypeOK
  BY <1>1, MoveWords DEF Move!TypeOK, CursorsMoved, Iterator, MovePhase
<1>7. Move!StaysInMemory
  BY <1>1 DEF Move!StaysInMemory, MovePhase
<1>8. Move!ReturnsEnd
  <2> SUFFICES ASSUME pc = "done", call.op # "flip"
               PROVE  Place(result) = IF Move!Backward THEN call.to ELSE call.to + call.n
    BY DEF Move!ReturnsEnd, Move!Place, Place
  <2>1. n = 0 /\ Place(result) = call.to + Way
    BY <1>1 DEF MovePhase, CursorsMoved, FlipsAligned
  <2> QED
    BY <1>1, <2>1 DEF Way, Done, MoveTyped
<1> QED
  BY <1>4, <1>5, <1>6, <1>7, <1>8

-----------------------------------------------------------------------------
(* swap_ranges.  The invariant: the bits that are done have changed places, all others are
   as they were, and the cursors are at the places that come next. *)

LEMMA SwapWords ==
  /\ Swap!Bits = Bits
  /\ \A c : Swap!Upper(c) = Upper(c) /\ Swap!Lower(c) = Lower(c) /\ Swap!At(c) = At(c)
  /\ \A c, k : Swap!Window(c, k) = Window(c, k) /\ Swap!Least(c, k) = Least(c, k) /\ Swap!Past(c, k) = Past(c, k)
  /\ \A w, x : /\ Swap!And(w, x) = And(w, x) /\ Swap!Shl(w, x) = Shl(w, x) /\ Swap!Shr(w, x) = Shr(w, x)
  /\ \A M, k, x, w : Swap!Merge(M, k, x, w) = Merge(M, k, x, w)
<1>1. Swap!Bits = Bits
  BY DEF Swap!Bits, Bits
<1>2. \A c : Swap!Upper(c) = Upper(c) /\ Swap!Lower(c) = Lower(c) /\ Swap!At(c) = At(c)
  BY <1>1 DEF Swap!Upper, Upper, Swap!Lower, Lower, Swap!At, At
<1>3. \A c, k : Swap!Window(c, k) = Window(c, k) /\ Swap!Least(c, k) = Least(c, k) /\ Swap!Past(c, k) = Past(c, k)
  BY <1>2 DEF Swap!Window, Window, Swap!Least, Least, Swap!Past, Past
<1>4. \A w, x : /\ Swap!And(w, x) = And(w, x) /\ Swap!Or(w, x) = Or(w, x)
               /\ Swap!Shl(w, x) = Shl(w, x) /\ Swap!Shr(w, x) = Shr(w, x)
  BY <1>1, Zenon DEF Swap!And, And, Swap!Or, Or, Swap!Shl, Shl, Swap!Shr, Shr
<1>5. \A M, k, x, w : Swap!Merge(M, k, x, w) = Merge(M, k, x, w)
  BY <1>1, <1>4, Zenon DEF Swap!Merge, Merge
<1> QED
  BY <1>1, <1>2, <1>3, <1>4, <1>5

\* Bits are added to those of a word.
Joined(v, w) == v \cup w

LEMMA AddIs ==
  ASSUME NEW M, DOMAIN M = Word, NEW k, NEW w
  PROVE  /\ DOMAIN Swap!Add(M, k, w) = Word
         /\ \A j \in Word, b \in Bits : Swap!Add(M, k, w)[j][b] = IF j = k THEN Joined(M[j][b], w[b]) ELSE M[j][b]
<1>1. Swap!Add(M, k, w) = Merge(M, k, {}, w)
  BY SwapWords DEF Swap!Add
<1>2. DOMAIN Merge(M, k, {}, w) = Word
  BY DEF Merge
<1>3. ASSUME NEW j \in Word, NEW b \in Bits
      PROVE  Merge(M, k, {}, w)[j][b] = IF j = k THEN Joined(M[j][b], w[b]) ELSE M[j][b]
  <2>1. CASE j # k
    BY <1>3, <2>1 DEF Merge
  <2>2. CASE j = k
    <3>1. Merge(M, k, {}, w)[j] = Or(And(M[k], Bits \ {}), w)
      BY <1>3, <2>2 DEF Merge
    <3>2. Or(And(M[k], Bits \ {}), w)[b] = And(M[k], Bits \ {})[b] \cup w[b]
      BY DEF Or
    <3>3. And(M[k], Bits \ {})[b] = M[k][b]
      BY DEF And
    <3> QED
      BY <2>2, <3>1, <3>2, <3>3 DEF Joined
  <2> QED
    BY <2>1, <2>2
<1> QED
  BY <1>1, <1>2, <1>3

\* The bits of a word that have been moved into another, from c on there, from r on here.
LEMMA ShiftIs ==
  ASSUME NEW w, NEW r \in Bits, NEW c \in Bits, NEW k \in Int, 0 <= k, c + k <= W, Only(w, c, k), NEW b \in Bits
  PROVE  Swap!Shift(w, r - c)[b] = IF r <= b /\ b < r + k THEN w[b - r + c] ELSE {}
<1>1. r \in Int /\ c \in Int /\ b \in Int /\ W \in Int /\ r < W /\ c < W /\ b < W /\ 0 <= r /\ 0 <= c /\ 0 <= b
  BY WordAssumption DEF Bits
<1>2. Swap!Shift(w, r - c)[b] = IF b - r + c \in Bits THEN w[b - r + c] ELSE {}
  <2>1. r \in Bits \cup {W} /\ c \in Bits \cup {W}
    BY <1>1
  <2>2. CASE r > c
    <3>1. r - c > 0
      BY <1>1, <2>2
    <3>2. Swap!Shift(w, r - c) = Shl(w, r - c)
      BY <3>1, SwapWords DEF Swap!Shift
    <3> QED
      BY <2>1, <2>2, <3>2, ShiftedIs
  <2>3. CASE ~ (r > c)
    <3>1. ~ (r - c > 0) /\ -(r - c) = c - r /\ r <= c
      BY <1>1, <2>3
    <3>2. Swap!Shift(w, r - c) = Shr(w, c - r)
      BY <3>1, SwapWords DEF Swap!Shift
    <3> QED
      BY <2>1, <3>1, <3>2, ShiftedIs
  <2> QED
    BY <2>2, <2>3
<1>3. CASE b - r + c \in Bits
  <2>1. c <= b - r + c /\ b - r + c < c + k <=> r <= b /\ b < r + k
    BY <1>1
  <2> QED
    BY <1>2, <1>3, <2>1 DEF Only
<1>4. CASE b - r + c \notin Bits
  <2>1. CASE r <= b /\ b < r + k
    <3>1. b - r + c \in Bits
      BY <1>1, <2>1 DEF Bits
    <3> QED
      BY <1>4, <3>1
  <2> QED
    BY <1>2, <1>4, <2>1
<1> QED
  BY <1>3, <1>4

\* After an exchange of k bits, those from the bit c of the word F on, whose places are x and
\* those that follow, with those at the places y and those that follow, which are from the bit
\* r of the word B on and go on in the next one.
Traded(M, F, c, x, B, r, y, k) ==
  /\ DOMAIN M = Word
  /\ \A j \in Word, b \in Bits :
       M[j][b] = IF j = F /\ c <= b /\ b < c + k THEN {y + (b - c)}
                 ELSE IF j = B /\ r <= b /\ b < r + k THEN {x + (b - r)}
                 ELSE IF j = B + 1 /\ b < r + k - W THEN {x + (b + (W - r))} ELSE memory[j][b]

\* Before it, the bits at these places have their names, and no bit is exchanged twice.
TradeBegins(F, c, x, B, r, y, k) ==
  /\ DOMAIN memory = Word /\ F \in Word /\ B \in Word /\ (r + k > W => B + 1 \in Word)
  /\ x \in Int /\ y \in Int
  /\ \A b \in Bits : c <= b /\ b < c + k => memory[F][b] = {x + (b - c)}
  /\ \A b \in Bits : r <= b /\ b < r + k => memory[B][b] = {y + (b - r)}
  /\ \A b \in Bits : b < r + k - W => memory[B + 1][b] = {y + (b + (W - r))}
  /\ F = B => \A b \in Bits : ~ (c <= b /\ b < c + k /\ r <= b /\ b < r + k)
  /\ F = B + 1 => \A b \in Bits : ~ (c <= b /\ b < c + k /\ b < r + k - W)

LEMMA TradeIs ==
  ASSUME NEW c \in Bits, NEW k \in 1..W, c + k <= W, NEW x, NEW y, Iterator(result),
         TradeBegins(first.blk, c, x, result.blk, result.ctz, y, k)
  PROVE  /\ Traded(Swap!Trade(c, k).memory, first.blk, c, x, result.blk, result.ctz, y, k)
         /\ Iterator(Swap!Trade(c, k).result)
         /\ Place(Swap!Trade(c, k).result) = Place(result) + k
<1> DEFINE F == first.blk
           B == result.blk
           r == result.ctz
           near == Least(k, W - r)
           rest == k - near
           w1 == And(memory[F], Window(c, k))
           memory1 == Merge(memory, F, Window(c, k), Swap!Nothing)
           w2 == And(memory1[B], Window(r, near))
           memory2 == Merge(memory1, B, Window(r, near), Swap!Shift(w1, r - c))
           memory3 == Swap!Add(memory2, F, Swap!Shift(w2, c - r))
           w3 == And(memory3[B + 1], Lower(W - rest))
           memory4 == Merge(memory3, B + 1, Lower(W - rest), Shr(w1, c + near))
           memory5 == Swap!Add(memory4, F, Shl(w3, c + near))
<1>1. /\ F \in Int /\ B \in Int /\ r \in Bits /\ r \in Int /\ c \in Int /\ k \in Int /\ W \in Int
      /\ r < W /\ 0 <= r /\ 0 <= c /\ 1 <= k /\ k <= W /\ c + k <= W /\ B + 1 # B
  BY WordAssumption DEF Iterator, Bits, TradeBegins, Word
<1>2. near \in Int /\ near = (IF k <= W - r THEN k ELSE W - r) /\ 1 <= near /\ near <= k /\ rest \in Int /\ 0 <= rest /\ r + near <= W
  BY <1>1 DEF Least
<1>2a. rest = k - near
  OBVIOUS
<1>3. Swap!Trade(c, k) = IF rest = 0 THEN [memory |-> memory3, result |-> Past(result, near)]
                         ELSE [memory |-> memory5, result |-> [blk |-> B + 1, ctz |-> rest]]
  BY SwapWords, Zenon DEF Swap!Trade
<1>4. ASSUME NEW b \in Bits
      PROVE  /\ b \in Int /\ 0 <= b /\ b < W
             /\ b \in Window(c, k) <=> c <= b /\ b < c + k
             /\ b \in Window(r, near) <=> r <= b /\ b < r + near
             /\ b \in Lower(W - rest) <=> b < rest
             /\ b < r + near <=> b < r + k
             /\ Swap!Nothing[b] = {}
  <2> HIDE DEF near, rest, r
  <2>1. b \in Int /\ 0 <= b /\ b < W
    BY <1>1 DEF Bits
  <2>2. (b \in Window(c, k) <=> c <= b /\ b < c + k) /\ (b \in Lower(W - rest) <=> b < rest)
    BY <1>1, <1>2, MaskIs
  <2>3. b \in Window(r, near) <=> r <= b /\ b < r + near
    BY <1>1, <1>2, MaskIs
  <2>4. b < r + near <=> b < r + k
    BY <1>1, <1>2, <2>1
  <2>5. Swap!Nothing[b] = {}
    BY SwapWords DEF Swap!Nothing
  <2> QED
    BY <2>1, <2>2, <2>3, <2>4, <2>5
<1> HIDE DEF near, rest
<1>5. Only(w1, c, k) /\ \A b \in Bits : c <= b /\ b < c + k => w1[b] = {x + (b - c)}
  BY <1>4, MaskedOnly DEF TradeBegins
<1> HIDE DEF w1
<1>6. /\ DOMAIN memory1 = Word
      /\ \A j \in Word, b \in Bits : memory1[j][b] = IF j = F /\ c <= b /\ b < c + k THEN {} ELSE memory[j][b]
  <2>1. DOMAIN memory = Word /\ \A b \in Bits : b \notin Window(c, k) => Swap!Nothing[b] = {}
    BY <1>4 DEF TradeBegins
  <2>2. /\ DOMAIN memory1 = Word
        /\ \A j \in Word, b \in Bits :
             memory1[j][b] = IF j = F /\ b \in Window(c, k) THEN Swap!Nothing[b] ELSE memory[j][b]
    BY <2>1, MergeIs
  <2> HIDE DEF memory1
  <2> QED
    BY <1>4, <2>2
<1> HIDE DEF memory1
<1>7. Only(w2, r, near) /\ \A b \in Bits : r <= b /\ b < r + near => w2[b] = {y + (b - r)}
  <2>1. ASSUME NEW b \in Bits, r <= b, b < r + near PROVE memory1[B][b] = {y + (b - r)}
    <3>1. b < r + k
      BY <1>4, <2>1
    <3>2. ~ (B = F /\ c <= b /\ b < c + k) /\ memory[B][b] = {y + (b - r)} /\ B \in Word
      BY <2>1, <3>1 DEF TradeBegins
    <3> QED
      BY <1>6, <3>2
  <2>2. \A b \in Bits : b \in Window(r, near) <=> r <= b /\ b < r + near
    BY <1>4
  <2>3. Only(w2, r, near) /\ \A b \in Bits : r <= b /\ b < r + near => w2[b] = memory1[B][b]
    BY <2>2, MaskedOnly
  <2> HIDE DEF w2
  <2> QED
    BY <2>1, <2>3
<1> HIDE DEF w2
<1>8. ASSUME NEW b \in Bits
      PROVE  Swap!Shift(w1, r - c)[b] = IF r <= b /\ b < r + near THEN {x + (b - r)} ELSE {}
  <2>1. Swap!Shift(w1, r - c)[b] = IF r <= b /\ b < r + k THEN w1[b - r + c] ELSE {}
    <3>1. 0 <= k
      BY <1>1
    <3> HIDE DEF r
    <3> QED
      BY <1>1, <1>5, <3>1, ShiftIs
  <2>2. CASE r <= b /\ b < r + near
    <3>1. b - r + c \in Bits /\ c <= b - r + c /\ b - r + c < c + k /\ (b - r + c) - c = b - r
      BY <1>1, <1>4, <2>2 DEF Bits
    <3> QED
      BY <1>4, <1>5, <2>1, <2>2, <3>1
  <2>3. CASE ~ (r <= b /\ b < r + near)
    BY <1>4, <2>1, <2>3
  <2> QED
    BY <2>2, <2>3
<1>9. /\ DOMAIN memory2 = Word
      /\ \A j \in Word, b \in Bits :
           memory2[j][b] = IF j = B /\ r <= b /\ b < r + near THEN {x + (b - r)} ELSE memory1[j][b]
  <2>1. \A b \in Bits : b \notin Window(r, near) => Swap!Shift(w1, r - c)[b] = {}
    BY <1>4, <1>8
  <2>2. /\ DOMAIN memory2 = Word
        /\ \A j \in Word, b \in Bits :
             memory2[j][b] = IF j = B /\ b \in Window(r, near) THEN Swap!Shift(w1, r - c)[b] ELSE memory1[j][b]
    BY <1>6, <2>1, MergeIs
  <2> QED
    BY <1>4, <1>8, <2>2
<1> HIDE DEF memory2
<1>10. ASSUME NEW b \in Bits
       PROVE  Swap!Shift(w2, c - r)[b] = IF c <= b /\ b < c + near THEN {y + (b - c)} ELSE {}
  <2>1. Swap!Shift(w2, c - r)[b] = IF c <= b /\ b < c + near THEN w2[b - c + r] ELSE {}
    BY <1>1, <1>2, <1>7, ShiftIs
  <2>2. CASE c <= b /\ b < c + near
    <3>1. b - c + r \in Bits /\ r <= b - c + r /\ b - c + r < r + near /\ (b - c + r) - r = b - c
      BY <1>1, <1>2, <1>4, <2>2 DEF Bits
    <3> QED
      BY <1>7, <2>1, <2>2, <3>1
  <2> QED
    BY <2>1, <2>2
<1>11. /\ DOMAIN memory3 = Word
       /\ \A j \in Word, b \in Bits :
            memory3[j][b] = IF j = F /\ c <= b /\ b < c + near THEN {y + (b - c)}
                            ELSE IF j = F /\ c <= b /\ b < c + k THEN {}
                            ELSE IF j = B /\ r <= b /\ b < r + near THEN {x + (b - r)} ELSE memory[j][b]
  <2>1. /\ DOMAIN memory3 = Word
        /\ \A j \in Word, b \in Bits :
             memory3[j][b] = IF j = F THEN Joined(memory2[j][b], Swap!Shift(w2, c - r)[b]) ELSE memory2[j][b]
    BY <1>9, AddIs
  <2> HIDE DEF memory3
  <2>2. ASSUME NEW j \in Word, NEW b \in Bits
        PROVE  memory3[j][b] = IF j = F /\ c <= b /\ b < c + near THEN {y + (b - c)}
                               ELSE IF j = F /\ c <= b /\ b < c + k THEN {}
                               ELSE IF j = B /\ r <= b /\ b < r + near THEN {x + (b - r)} ELSE memory[j][b]
    <3>1. CASE j = F /\ c <= b /\ b < c + k
      <4>1. ~ (j = B /\ r <= b /\ b < r + near)
        BY <1>4, <3>1 DEF TradeBegins
      <4>2. memory2[j][b] = {}
        BY <1>6, <1>9, <3>1, <4>1
      <4> HIDE DEF F, B, r
      <4> QED
        BY <1>10, <2>1, <3>1, <4>1, <4>2 DEF Joined
    <3>2. CASE ~ (j = F /\ c <= b /\ b < c + k)
      <4>1. ~ (j = F /\ c <= b /\ b < c + near)
        BY <1>1, <1>2, <1>4, <3>2
      <4>2. memory3[j][b] = memory2[j][b]
        <5>1. CASE j = F
          <6>1. Swap!Shift(w2, c - r)[b] = {}
            BY <1>10, <4>1, <5>1
          <6>2. memory3[j][b] = Joined(memory2[j][b], Swap!Shift(w2, c - r)[b])
            BY <2>1, <5>1
          <6> QED
            BY <6>1, <6>2 DEF Joined
        <5>2. CASE j # F
          BY <2>1, <5>2
        <5> QED
          BY <5>1, <5>2
      <4> QED
        BY <1>6, <1>9, <3>2, <4>1, <4>2
    <3> QED
      BY <3>1, <3>2
  <2> QED
    BY <2>1, <2>2
<1> HIDE DEF memory3
<1>12. CASE rest = 0
  <2>1. near = k /\ r + k <= W
    BY <1>1, <1>2, <1>2a, <1>12
  <2>2. Traded(memory3, F, c, x, B, r, y, k)
    <3> SUFFICES ASSUME NEW j \in Word, NEW b \in Bits
                 PROVE  memory3[j][b] = IF j = F /\ c <= b /\ b < c + k THEN {y + (b - c)}
                          ELSE IF j = B /\ r <= b /\ b < r + k THEN {x + (b - r)}
                          ELSE IF j = B + 1 /\ b < r + k - W THEN {x + (b + (W - r))} ELSE memory[j][b]
      BY <1>11 DEF Traded
    <3>1. ~ (b < r + k - W)
      BY <1>1, <1>4, <2>1
    <3> QED
      BY <1>11, <2>1, <3>1
  <2>3. Swap!Trade(c, k).memory = memory3 /\ Swap!Trade(c, k).result = Past(result, k)
    BY <1>3, <1>12, <2>1
  <2>4. k \in Nat
    BY <1>1
  <2> QED
    BY <2>2, <2>3, <2>4, PastIs
<1>13. CASE rest # 0
  <2>1. near = W - r /\ rest = r + k - W /\ rest \in Bits /\ r + k > W
    BY <1>1, <1>2, <1>13 DEF Bits, rest
  <2>2. B + 1 \in Word /\ B + 1 \in Int
    BY <1>1, <2>1 DEF TradeBegins
  <2>3. ASSUME NEW b \in Bits
        PROVE  Shr(w1, c + near)[b] = IF b < rest THEN {x + (b + (W - r))} ELSE {}
    <3> HIDE DEF r
    <3>1. Shr(w1, c + near)[b] = IF b + (c + near) < W THEN w1[b + (c + near)] ELSE {}
      BY DEF Shr
    <3>2. CASE b < rest
      <4>1. /\ b + (c + near) < W /\ b + (c + near) \in Bits /\ c <= b + (c + near) /\ b + (c + near) < c + k
            /\ (b + (c + near)) - c = b + (W - r)
        BY <1>1, <1>4, <2>1, <3>2 DEF Bits
      <4> QED
        BY <1>5, <3>1, <3>2, <4>1
    <3>3. CASE ~ (b < rest)
      <4>1. ~ (b + (c + near) < c + k) /\ (b + (c + near) < W => b + (c + near) \in Bits)
        BY <1>1, <1>4, <2>1, <3>3 DEF Bits
      <4> QED
        BY <1>5, <3>1, <3>3, <4>1 DEF Only
    <3> QED
      BY <3>2, <3>3
  <2>4. ASSUME NEW b \in Bits, b < rest PROVE memory3[B + 1][b] = {y + (b + (W - r))}
    <3>1. b < r + k - W
      BY <2>1, <2>4
    <3>2. memory[B + 1][b] = {y + (b + (W - r))} /\ ~ (B + 1 = F /\ c <= b /\ b < c + k)
      BY <3>1 DEF TradeBegins
    <3>3. ~ (B + 1 = F /\ c <= b /\ b < c + near) /\ B + 1 # B
      BY <1>1, <1>2, <1>4, <3>2
    <3> QED
      BY <1>11, <2>2, <3>2, <3>3
  <2>5. Only(w3, 0, rest) /\ \A b \in Bits : 0 <= b /\ b < 0 + rest => w3[b] = {y + (b + (W - r))}
    <3>1. \A b \in Bits : b \in Lower(W - rest) <=> 0 <= b /\ b < 0 + rest
      BY <1>1, <1>2, <1>4
    <3>2. Only(w3, 0, rest) /\ \A b \in Bits : 0 <= b /\ b < 0 + rest => w3[b] = memory3[B + 1][b]
      BY <3>1, MaskedOnly
    <3>3. ASSUME NEW b \in Bits, 0 <= b, b < 0 + rest PROVE b < rest
      BY <1>2, <3>3
    <3> HIDE DEF w3
    <3> QED
      BY <2>4, <3>2, <3>3
  <2> HIDE DEF w3
  <2>6. /\ DOMAIN memory4 = Word
        /\ \A j \in Word, b \in Bits :
             memory4[j][b] = IF j = B + 1 /\ b < rest THEN {x + (b + (W - r))} ELSE memory3[j][b]
    <3>1. \A b \in Bits : b \notin Lower(W - rest) => Shr(w1, c + near)[b] = {}
      BY <1>4, <2>3
    <3>2. /\ DOMAIN memory4 = Word
          /\ \A j \in Word, b \in Bits :
               memory4[j][b] = IF j = B + 1 /\ b \in Lower(W - rest) THEN Shr(w1, c + near)[b] ELSE memory3[j][b]
      BY <1>11, <3>1, MergeIs
    <3> HIDE DEF memory4
    <3> QED
      BY <1>4, <2>3, <3>2
  <2> HIDE DEF memory4
  <2>7. ASSUME NEW b \in Bits
        PROVE  Shl(w3, c + near)[b] = IF c + near <= b /\ b < c + k THEN {y + (b - c)} ELSE {}
    <3> HIDE DEF r
    <3>1. Shl(w3, c + near)[b] = IF b >= c + near THEN w3[b - (c + near)] ELSE {}
      BY DEF Shl
    <3>2. CASE c + near <= b /\ b < c + k
      <4>1. /\ b - (c + near) \in Bits /\ 0 <= b - (c + near) /\ b - (c + near) < 0 + rest /\ b >= c + near
            /\ b - (c + near) + (W - r) = b - c
        BY <1>1, <1>2, <1>4, <2>1, <3>2 DEF Bits
      <4> QED
        BY <2>5, <3>1, <3>2, <4>1
    <3>3. CASE ~ (c + near <= b /\ b < c + k)
      <4>1. b >= c + near => b - (c + near) \in Bits /\ ~ (b - (c + near) < 0 + rest)
        BY <1>1, <1>2, <1>4, <2>1, <3>3 DEF Bits
      <4> QED
        BY <2>5, <3>1, <3>3, <4>1 DEF Only
    <3> QED
      BY <3>2, <3>3
  <2>8. /\ DOMAIN memory5 = Word
        /\ \A j \in Word, b \in Bits :
             memory5[j][b] = IF j = F THEN Joined(memory4[j][b], Shl(w3, c + near)[b]) ELSE memory4[j][b]
    <3>1. DOMAIN memory4 = Word
      BY <2>6
    <3> QED
      BY <3>1, AddIs
  <2> HIDE DEF memory5
  <2>9. Traded(memory5, F, c, x, B, r, y, k)
    <3> SUFFICES ASSUME NEW j \in Word, NEW b \in Bits
                 PROVE  memory5[j][b] = IF j = F /\ c <= b /\ b < c + k THEN {y + (b - c)}
                          ELSE IF j = B /\ r <= b /\ b < r + k THEN {x + (b - r)}
                          ELSE IF j = B + 1 /\ b < r + k - W THEN {x + (b + (W - r))} ELSE memory[j][b]
      BY <2>8 DEF Traded
    <3> HIDE DEF F, B, r
    <3>0. (b < rest <=> b < r + k - W) /\ (b < r + near <=> b < r + k)
      BY <1>4, <2>1
    <3>1. CASE j = F /\ c <= b /\ b < c + k
      <4>1. ~ (j = B + 1 /\ b < rest)
        BY <3>0, <3>1 DEF TradeBegins, F, B, r
      <4>2. memory5[j][b] = Joined(memory3[j][b], Shl(w3, c + near)[b])
        BY <2>6, <2>8, <3>1, <4>1
      <4>3. CASE b < c + near
        <5>0. ~ (c + near <= b)
          BY <1>1, <1>2, <1>4, <4>3
        <5>1. Shl(w3, c + near)[b] = {} /\ memory3[j][b] = {y + (b - c)}
          BY <1>11, <2>7, <3>1, <4>3, <5>0
        <5>2. memory5[j][b] = {y + (b - c)} \cup {}
          BY <4>2, <5>1 DEF Joined
        <5> QED
          BY <3>1, <5>2
      <4>4. CASE ~ (b < c + near)
        <5>0. c + near <= b
          BY <1>1, <1>2, <1>4, <4>4
        <5>1. Shl(w3, c + near)[b] = {y + (b - c)} /\ memory3[j][b] = {}
          BY <1>11, <2>7, <3>1, <4>4, <5>0
        <5>2. memory5[j][b] = {} \cup {y + (b - c)}
          BY <4>2, <5>1 DEF Joined
        <5> QED
          BY <3>1, <5>2
      <4> QED
        BY <4>3, <4>4
    <3>2. CASE ~ (j = F /\ c <= b /\ b < c + k)
      <4>1. ~ (j = F /\ c <= b /\ b < c + near)
        BY <1>1, <1>2, <1>4, <3>2
      <4>2. memory5[j][b] = memory4[j][b]
        <5>1. CASE j = F
          <6>1. Shl(w3, c + near)[b] = {}
            <7>1. ~ (c + near <= b /\ b < c + k)
              BY <1>1, <1>2, <1>4, <3>2, <5>1
            <7> QED
              BY <2>7, <7>1
          <6>2. memory5[j][b] = Joined(memory4[j][b], Shl(w3, c + near)[b])
            BY <2>8, <5>1
          <6> QED
            BY <6>1, <6>2 DEF Joined
        <5>2. CASE j # F
          BY <2>8, <5>2
        <5> QED
          BY <5>1, <5>2
      <4>3. memory3[j][b] = IF j = B /\ r <= b /\ b < r + k THEN {x + (b - r)} ELSE memory[j][b]
        BY <1>11, <3>0, <3>2, <4>1
      <4>4. B + 1 # B
        BY <1>1
      <4> HIDE DEF F, B, r
      <4> QED
        BY <2>6, <3>0, <3>2, <4>2, <4>3, <4>4
    <3> QED
      BY <3>1, <3>2
  <2>10. Swap!Trade(c, k).memory = memory5 /\ Swap!Trade(c, k).result = [blk |-> B + 1, ctz |-> rest]
    BY <1>3, <1>13
  <2>11. Place([blk |-> B + 1, ctz |-> rest]) = Place(result) + k
    <3>1. (B + 1) * W = B * W + W /\ B * W \in Int
      BY <1>1, WordProduct
    <3>2. Place(result) = B * W + r
      BY DEF Place
    <3> HIDE DEF B, r
    <3> QED
      BY <1>1, <2>1, <3>1, <3>2 DEF Place
  <2>12. Iterator([blk |-> B + 1, ctz |-> rest])
    BY <2>1, <2>2 DEF Iterator
  <2> QED
    BY <2>9, <2>10, <2>11, <2>12
<1> QED
  BY <1>12, <1>13

\* The loop over whole words exchanges them as Trade would.
TradeWord(F, B, r) ==
  LET w1 == memory[F]
      w2 == And(memory[B], Upper(r))
      M1 == Merge(memory, B, Upper(r), Shl(w1, r))
      M2 == Merge(M1, F, Bits, Shr(w2, r))
      w3 == And(M2[B + 1], Bits \ Upper(r))
      M3 == Merge(M2, B + 1, Bits \ Upper(r), Shr(w1, W - r)) IN
  Swap!Add(M3, F, Shl(w3, W - r))

LEMMA TradeWordIs ==
  ASSUME NEW F, NEW B \in Int, NEW r \in Bits, NEW x, NEW y, TradeBegins(F, 0, x, B, r, y, W)
  PROVE  Traded(TradeWord(F, B, r), F, 0, x, B, r, y, W)
<1> DEFINE w1 == memory[F]
           w2 == And(memory[B], Upper(r))
           M1 == Merge(memory, B, Upper(r), Shl(w1, r))
           M2 == Merge(M1, F, Bits, Shr(w2, r))
           w3 == And(M2[B + 1], Bits \ Upper(r))
           M3 == Merge(M2, B + 1, Bits \ Upper(r), Shr(w1, W - r))
           M4 == Swap!Add(M3, F, Shl(w3, W - r))
<1>0. TradeWord(F, B, r) = M4
  BY DEF TradeWord
<1>1. r \in Int /\ 0 <= r /\ r < W /\ W \in Int /\ B + 1 # B /\ B + 1 \in Int /\ 0 \in Bits /\ x \in Int /\ y \in Int
      /\ F \in Word /\ B \in Word /\ DOMAIN memory = Word
  BY WordAssumption DEF Bits, TradeBegins
<1>2. ASSUME NEW b \in Bits
      PROVE  /\ b \in Int /\ 0 <= b /\ b < W /\ b < 0 + W /\ b - 0 = b
             /\ b < r + W /\ (b < r + W - W <=> b < r)
             /\ b \in Upper(r) <=> r <= b
             /\ b \in Bits \ Upper(r) <=> b < r
  <2>1. b \in Int /\ 0 <= b /\ b < W
    BY <1>1 DEF Bits
  <2>2. b \in Upper(r) <=> r <= b
    BY <1>1, MaskIs
  <2> QED
    BY <1>1, <2>1, <2>2
<1>3. F # B /\ (F = B + 1 => \A b \in Bits : ~ (b < r))
  BY <1>2 DEF TradeBegins
<1>4. ASSUME NEW b \in Bits
      PROVE  /\ w1[b] = {x + b}
             /\ r <= b => memory[B][b] = {y + (b - r)}
             /\ b < r => memory[B + 1][b] = {y + (b + (W - r))} /\ B + 1 \in Word
  <2>1. b < r => r + W > W
    BY <1>1, <1>2
  <2> QED
    BY <1>2, <2>1 DEF TradeBegins
<1> HIDE DEF M1, M2, M3, M4, w3
<1>5. ASSUME NEW b \in Bits
      PROVE  /\ Shl(w1, r)[b] = IF r <= b THEN {x + (b - r)} ELSE {}
             /\ Shr(w1, W - r)[b] = IF b < r THEN {x + (b + (W - r))} ELSE {}
             /\ Shr(w2, r)[b] = IF b + r < W THEN {y + b} ELSE {}
  <2>1. Shl(w1, r)[b] = IF r <= b THEN {x + (b - r)} ELSE {}
    <3>1. Shl(w1, r)[b] = IF b >= r THEN w1[b - r] ELSE {}
      BY DEF Shl
    <3>2. r <= b => b - r \in Bits /\ b >= r
      BY <1>1, <1>2 DEF Bits
    <3>3. ~ (r <= b) => ~ (b >= r)
      BY <1>1, <1>2
    <3> QED
      BY <1>4, <3>1, <3>2, <3>3
  <2>2. Shr(w1, W - r)[b] = IF b < r THEN {x + (b + (W - r))} ELSE {}
    <3>1. Shr(w1, W - r)[b] = IF b + (W - r) < W THEN w1[b + (W - r)] ELSE {}
      BY DEF Shr
    <3>2. b < r => b + (W - r) \in Bits /\ b + (W - r) < W
      BY <1>1, <1>2 DEF Bits
    <3>3. ~ (b < r) => ~ (b + (W - r) < W)
      BY <1>1, <1>2
    <3> QED
      BY <1>4, <3>1, <3>2, <3>3
  <2>3. Shr(w2, r)[b] = IF b + r < W THEN {y + b} ELSE {}
    <3>1. Shr(w2, r)[b] = IF b + r < W THEN w2[b + r] ELSE {}
      BY DEF Shr
    <3>2. b + r < W => b + r \in Bits /\ r <= b + r /\ (b + r) - r = b
      BY <1>1, <1>2 DEF Bits
    <3>3. ASSUME NEW d \in Bits, r <= d PROVE w2[d] = {y + (d - r)}
      BY <1>2, <1>4, <3>3 DEF And
    <3>4. b + r < W => w2[b + r] = {y + b}
      BY <3>2, <3>3
    <3> QED
      BY <3>1, <3>4
  <2> QED
    BY <2>1, <2>2, <2>3
<1> HIDE DEF w1, w2
<1>6. /\ DOMAIN M1 = Word
      /\ \A j \in Word, b \in Bits : M1[j][b] = IF j = B /\ r <= b THEN {x + (b - r)} ELSE memory[j][b]
  <2>1. \A b \in Bits : b \notin Upper(r) => Shl(w1, r)[b] = {}
    BY <1>2, <1>5
  <2>2. /\ DOMAIN M1 = Word
        /\ \A j \in Word, b \in Bits : M1[j][b] = IF j = B /\ b \in Upper(r) THEN Shl(w1, r)[b] ELSE memory[j][b]
    BY <1>1, <2>1, MergeIs DEF M1
  <2> QED
    BY <1>2, <1>5, <2>2
<1>7. /\ DOMAIN M2 = Word
      /\ \A j \in Word, b \in Bits : M2[j][b] = IF j = F THEN (IF b + r < W THEN {y + b} ELSE {}) ELSE M1[j][b]
  <2>1. /\ DOMAIN M2 = Word
        /\ \A j \in Word, b \in Bits : M2[j][b] = IF j = F /\ b \in Bits THEN Shr(w2, r)[b] ELSE M1[j][b]
    BY <1>6, MergeIs DEF M2
  <2> QED
    BY <1>5, <2>1
<1>8. ASSUME NEW b \in Bits PROVE w3[b] = IF b < r THEN {y + (b + (W - r))} ELSE {}
  <2>1. CASE b < r
    <3>1. B + 1 # F /\ B + 1 \in Word /\ B + 1 # B /\ memory[B + 1][b] = {y + (b + (W - r))}
      BY <1>1, <1>3, <1>4, <2>1
    <3>2. M2[B + 1][b] = {y + (b + (W - r))}
      BY <1>6, <1>7, <3>1
    <3> QED
      BY <1>2, <2>1, <3>2 DEF And, w3
  <2>2. CASE ~ (b < r)
    BY <1>2, <2>2 DEF And, w3
  <2> QED
    BY <2>1, <2>2
<1>9. /\ DOMAIN M3 = Word
      /\ \A j \in Word, b \in Bits : M3[j][b] = IF j = B + 1 /\ b < r THEN {x + (b + (W - r))} ELSE M2[j][b]
  <2>1. \A b \in Bits : b \notin Bits \ Upper(r) => Shr(w1, W - r)[b] = {}
    BY <1>2, <1>5
  <2>2. /\ DOMAIN M3 = Word
        /\ \A j \in Word, b \in Bits :
             M3[j][b] = IF j = B + 1 /\ b \in Bits \ Upper(r) THEN Shr(w1, W - r)[b] ELSE M2[j][b]
    BY <1>7, <2>1, MergeIs DEF M3
  <2>3. ASSUME NEW j \in Word, NEW b \in Bits
        PROVE  M3[j][b] = IF j = B + 1 /\ b < r THEN {x + (b + (W - r))} ELSE M2[j][b]
    <3>1. CASE b < r
      <4>1. b \in Bits \ Upper(r) /\ Shr(w1, W - r)[b] = {x + (b + (W - r))}
        BY <1>2, <1>5, <3>1
      <4> QED
        BY <2>2, <3>1, <4>1
    <3>2. CASE ~ (b < r)
      <4>1. b \notin Bits \ Upper(r)
        BY <1>2, <3>2
      <4> QED
        BY <2>2, <3>2, <4>1
    <3> QED
      BY <3>1, <3>2
  <2> QED
    BY <2>2, <2>3
<1>10. ASSUME NEW b \in Bits PROVE Shl(w3, W - r)[b] = IF b + r < W THEN {} ELSE {y + b}
  <2>1. Shl(w3, W - r)[b] = IF b >= W - r THEN w3[b - (W - r)] ELSE {}
    BY DEF Shl
  <2>2. CASE b + r < W
    BY <1>1, <1>2, <2>1, <2>2
  <2>3. CASE ~ (b + r < W)
    <3>1. b >= W - r /\ b - (W - r) \in Bits /\ b - (W - r) < r /\ (b - (W - r)) + (W - r) = b
      BY <1>1, <1>2, <2>3 DEF Bits
    <3>2. w3[b - (W - r)] = {y + b}
      BY <1>8, <3>1
    <3> QED
      BY <2>1, <2>3, <3>1, <3>2
  <2> QED
    BY <2>2, <2>3
<1>11. /\ DOMAIN M4 = Word
       /\ \A j \in Word, b \in Bits : M4[j][b] = IF j = F THEN Joined(M3[j][b], Shl(w3, W - r)[b]) ELSE M3[j][b]
  <2>1. DOMAIN M3 = Word
    BY <1>9
  <2> QED
    BY <2>1, AddIs DEF M4
<1>12. ASSUME NEW j \in Word, NEW b \in Bits
       PROVE  M4[j][b] = IF j = F THEN {y + b}
                         ELSE IF j = B /\ r <= b THEN {x + (b - r)}
                         ELSE IF j = B + 1 /\ b < r THEN {x + (b + (W - r))} ELSE memory[j][b]
  <2>1. CASE j = F
    <3>1. ~ (j = B + 1 /\ b < r)
      BY <1>3, <2>1
    <3>2. M3[j][b] = IF b + r < W THEN {y + b} ELSE {}
      BY <1>7, <1>9, <2>1, <3>1
    <3>3. M4[j][b] = Joined(M3[j][b], Shl(w3, W - r)[b])
      BY <1>11, <2>1
    <3>4. M4[j][b] = {y + b}
      BY <1>10, <3>2, <3>3 DEF Joined
    <3> QED
      BY <2>1, <3>4
  <2>2. CASE j # F
    <3>1. M4[j][b] = IF j = B + 1 /\ b < r THEN {x + (b + (W - r))} ELSE M2[j][b]
      BY <1>9, <1>11, <2>2
    <3>2. M2[j][b] = IF j = B /\ r <= b THEN {x + (b - r)} ELSE memory[j][b]
      BY <1>6, <1>7, <2>2
    <3>3. B + 1 # B
      BY <1>1
    <3> QED
      BY <2>2, <3>1, <3>2, <3>3
  <2> QED
    BY <2>1, <2>2
<1>13. ASSUME NEW j \in Word, NEW b \in Bits
       PROVE  M4[j][b] = IF j = F /\ 0 <= b /\ b < 0 + W THEN {y + (b - 0)}
                 ELSE IF j = B /\ r <= b /\ b < r + W THEN {x + (b - r)}
                 ELSE IF j = B + 1 /\ b < r + W - W THEN {x + (b + (W - r))} ELSE memory[j][b]
  BY <1>2, <1>12
<1> QED
  BY <1>0, <1>11, <1>13 DEF Traded

-----------------------------------------------------------------------------
(* The steps of swap_ranges *)

SwapCalled ==
  /\ call.from \in Nat /\ call.to \in Nat /\ call.n \in Nat
  /\ call.from + call.n <= W * Words /\ call.to + call.n <= W * Words
  /\ Apart

\* The place in the old memory of the bit that is at p.
Swapped(p) ==
  IF p - call.from \in 0..(Done - 1) THEN call.to + (p - call.from)
  ELSE IF p - call.to \in 0..(Done - 1) THEN call.from + (p - call.to) ELSE p

MemorySwapped ==
  /\ DOMAIN memory = Word
  /\ \A j \in Word, b \in Bits : memory[j][b] = {Swapped(Spot(j, b))}

CursorsSwapped ==
  /\ Iterator(first) /\ Iterator(result)
  /\ Place(result) = call.to + Done
  /\ n > 0 => Place(first) = call.from + Done

SwapPhase ==
  /\ n \in 0..call.n
  /\ pc \in {"first", "middle", "last", "done"}
  /\ pc = "first" => n > 0
  /\ pc \in {"middle", "last"} => first.ctz = 0
  /\ pc = "last" => n < W
  /\ pc = "done" => n = 0

SwapKept == SwapCalled /\ MemorySwapped /\ CursorsSwapped /\ SwapPhase

SwapTyped ==
  /\ call.from \in Int /\ call.to \in Int /\ call.n \in Int /\ n \in Int /\ 0 <= n /\ n <= call.n
  /\ 0 <= call.from /\ 0 <= call.to /\ Done \in Int /\ Done = call.n - n
  /\ call.from + call.n <= W * Words /\ call.to + call.n <= W * Words /\ W * Words \in Int
  /\ W \in Int /\ 0 < W
  /\ Apart

LEMMA SwapTypes == SwapKept => SwapTyped
<1> SUFFICES ASSUME SwapKept PROVE SwapTyped
  OBVIOUS
<1>1. call.from \in Int /\ call.to \in Int /\ call.n \in Int /\ 0 <= call.from /\ 0 <= call.to /\ 0 <= call.n
  BY DEF SwapKept, SwapCalled
<1>2. n \in Int /\ 0 <= n /\ n <= call.n
  BY <1>1 DEF SwapKept, SwapPhase
<1>3. W \in Int /\ 0 < W /\ W * Words \in Int
  BY WordAssumption
<1>4. Done \in Int /\ Done = call.n - n
  BY <1>1, <1>2 DEF Done
<1> QED
  BY <1>1, <1>2, <1>3, <1>4 DEF SwapTyped, SwapKept, SwapCalled

\* The distance of places in a word and the next one.
LEMMA SpotsApart ==
  ASSUME NEW j \in Int, NEW b \in Bits, NEW B \in Int, NEW r \in Bits
  PROVE  /\ Spot(j, b) \in Int /\ Spot(B, r) \in Int
         /\ j = B => Spot(j, b) - Spot(B, r) = b - r
         /\ j = B + 1 => Spot(j, b) - Spot(B, r) = b + (W - r)
<1>1. /\ b \in Int /\ r \in Int /\ W \in Int /\ j * W \in Int /\ B * W \in Int
      /\ (B + 1) * W = B * W + W /\ (B + 1) * W \in Int
  BY WordProduct, WordAssumption DEF Bits
<1>2. Spot(j, b) = j * W + b /\ Spot(B, r) = B * W + r
  BY DEF Spot
<1> QED
  BY <1>1, <1>2

\* The places of some bits of a word, and of some bits of a word and the next one.
LEMMA SpotNear ==
  ASSUME NEW j \in Int, NEW b \in Bits, NEW F \in Int, NEW c \in Bits, NEW k \in Int, c + k <= W
  PROVE  j = F /\ c <= b /\ b < c + k <=> Spot(j, b) - Spot(F, c) \in 0..(k - 1)
<1>1. b \in Int /\ c \in Int /\ W \in Int /\ 0 <= b /\ b < W /\ 0 <= c /\ c < W /\ j * W \in Int /\ F * W \in Int
  BY WordProduct, WordAssumption DEF Bits
<1>2. Spot(j, b) = j * W + b /\ Spot(F, c) = F * W + c
  BY DEF Spot
<1>3. CASE j = F
  BY <1>1, <1>2, <1>3
<1>4. CASE j < F
  <2>1. j * W + W <= F * W
    BY <1>4, WordBefore
  <2> QED
    BY <1>1, <1>2, <1>4, <2>1
<1>5. CASE j > F
  <2>1. F * W + W <= j * W
    BY <1>5, WordBefore
  <2> QED
    BY <1>1, <1>2, <1>5, <2>1
<1> QED
  BY <1>3, <1>4, <1>5

LEMMA SpotBoth ==
  ASSUME NEW j \in Int, NEW b \in Bits, NEW B \in Int, NEW r \in Bits, NEW k \in Int, k <= W
  PROVE  (j = B /\ r <= b /\ b < r + k) \/ (j = B + 1 /\ b < r + k - W)
            <=> Spot(j, b) - Spot(B, r) \in 0..(k - 1)
<1>1. /\ b \in Int /\ r \in Int /\ W \in Int /\ 0 <= b /\ b < W /\ 0 <= r /\ r < W /\ j * W \in Int /\ B * W \in Int
      /\ (B + 1) * W = B * W + W /\ (B + 1) * W \in Int
  BY WordProduct, WordAssumption DEF Bits
<1>2. Spot(j, b) = j * W + b /\ Spot(B, r) = B * W + r
  BY DEF Spot
<1>3. CASE j = B
  BY <1>1, <1>2, <1>3
<1>4. CASE j = B + 1
  <2>1. Spot(j, b) - Spot(B, r) = b + (W - r)
    BY <1>1, <1>2, <1>4
  <2> QED
    BY <1>1, <1>2, <1>4, <2>1
<1>5. CASE j < B
  <2>1. j * W + W <= B * W
    BY <1>5, WordBefore
  <2> QED
    BY <1>1, <1>2, <1>5, <2>1
<1>6. CASE j > B + 1
  <2>1. (B + 1) * W + W <= j * W
    BY <1>6, WordBefore
  <2> QED
    BY <1>1, <1>2, <1>6, <2>1
<1> QED
  BY <1>3, <1>4, <1>5, <1>6

\* What has not been exchanged yet is as it was.
LEMMA SwapFresh ==
  ASSUME SwapKept, NEW j \in Word, NEW b \in Bits,
         \/ Spot(j, b) - (call.from + Done) \in 0..(n - 1)
         \/ Spot(j, b) - (call.to + Done) \in 0..(n - 1)
  PROVE  memory[j][b] = {Spot(j, b)}
<1>1. SwapTyped /\ Spot(j, b) \in Int
  BY SwapTypes, SpotInt
<1>2. memory[j][b] = {Swapped(Spot(j, b))}
  BY DEF SwapKept, MemorySwapped
<1>3. Spot(j, b) - call.from \notin 0..(Done - 1) /\ Spot(j, b) - call.to \notin 0..(Done - 1)
  BY <1>1 DEF SwapTyped, Apart
<1> QED
  BY <1>2, <1>3, Zenon DEF Swapped

\* Before a step that exchanges k bits.
LEMMA SwapBegins ==
  ASSUME SwapKept, NEW F \in Int, NEW c \in Bits, NEW B \in Int, NEW r \in Bits, NEW k \in 1..W, k <= n, c + k <= W,
         Spot(F, c) = call.from + Done, Spot(B, r) = call.to + Done
  PROVE  TradeBegins(F, c, call.from + Done, B, r, call.to + Done, k)
<1> DEFINE x == call.from + Done
           y == call.to + Done
<1>1. SwapTyped /\ k \in Int /\ 1 <= k /\ k <= W /\ x \in Int /\ y \in Int /\ B + 1 \in Int
  BY SwapTypes DEF SwapTyped
<1>2. /\ 0 <= x /\ x + k <= W * Words /\ 0 <= y /\ y + k <= W * Words /\ (x + k <= y \/ y + k <= x)
      /\ W * Words \in Int
  BY <1>1 DEF SwapTyped, Apart
<1>3. F \in Word /\ B \in Word
  <2>1. 0 <= x /\ x < W * Words /\ 0 <= y /\ y < W * Words
    BY <1>1, <1>2
  <2> QED
    BY <2>1, SpotWord
<1>4. ASSUME r + k > W PROVE B + 1 \in Word
  <2>1. 0 \in Bits
    BY <1>1, WordAssumption DEF Bits
  <2>2. Spot(B + 1, 0) - Spot(B, r) = 0 + (W - r) /\ Spot(B + 1, 0) \in Int
    BY <1>1, <2>1, SpotsApart
  <2> HIDE DEF x, y
  <2>3. Spot(B, r) = y
    BY DEF y
  <2>4. W \in Int /\ r < W /\ r \in Int
    BY WordAssumption DEF Bits
  <2>5. 0 <= Spot(B + 1, 0) /\ Spot(B + 1, 0) < W * Words
    BY <1>1, <1>2, <1>4, <2>2, <2>3, <2>4
  <2> QED
    BY <1>1, <2>1, <2>5, SpotWord
<1> HIDE DEF x, y
<1>5. Spot(F, c) = x /\ Spot(B, r) = y
  BY DEF x, y
<1>6. ASSUME NEW b \in Bits, c <= b, b < c + k
      PROVE  Spot(F, b) - x \in 0..(k - 1) /\ Spot(F, b) = x + (b - c) /\ Spot(F, b) \in Int
  <2>1. Spot(F, b) - x \in 0..(k - 1)
    BY <1>1, <1>5, <1>6, SpotNear
  <2>2. Spot(F, b) - x = b - c /\ Spot(F, b) \in Int
    BY <1>5, SpotsApart
  <2>3. b \in Int /\ c \in Int
    BY DEF Bits
  <2> QED
    BY <1>1, <2>1, <2>2, <2>3
<1>7. ASSUME NEW b \in Bits, r <= b, b < r + k
      PROVE  Spot(B, b) - y \in 0..(k - 1) /\ Spot(B, b) = y + (b - r) /\ Spot(B, b) \in Int
  <2>1. Spot(B, b) - y \in 0..(k - 1)
    BY <1>1, <1>5, <1>7, SpotBoth
  <2>2. Spot(B, b) - y = b - r /\ Spot(B, b) \in Int
    BY <1>5, SpotsApart
  <2>3. b \in Int /\ r \in Int
    BY DEF Bits
  <2> QED
    BY <1>1, <2>1, <2>2, <2>3
<1>8. ASSUME NEW b \in Bits, b < r + k - W
      PROVE  Spot(B + 1, b) - y \in 0..(k - 1) /\ Spot(B + 1, b) = y + (b + (W - r)) /\ Spot(B + 1, b) \in Int /\ B + 1 \in Word
  <2>1. Spot(B + 1, b) - y \in 0..(k - 1)
    <3>1. Spot(B + 1, b) - Spot(B, r) \in 0..(k - 1)
      BY <1>1, <1>8, SpotBoth
    <3> QED
      BY <1>5, <3>1
  <2>2. Spot(B + 1, b) - y = b + (W - r) /\ Spot(B + 1, b) \in Int
    BY <1>1, <1>5, SpotsApart
  <2>3. b \in Int /\ r \in Int /\ 0 <= b /\ W \in Int
    BY WordAssumption DEF Bits
  <2>4. r + k > W
    BY <1>1, <1>8, <2>3
  <2> QED
    BY <1>1, <1>4, <2>1, <2>2, <2>3, <2>4
<1>9. \A j \in Word, b \in Bits : Spot(j, b) - x \in 0..(k - 1) \/ Spot(j, b) - y \in 0..(k - 1) => memory[j][b] = {Spot(j, b)}
  <2> SUFFICES ASSUME NEW j \in Word, NEW b \in Bits, Spot(j, b) - x \in 0..(k - 1) \/ Spot(j, b) - y \in 0..(k - 1)
               PROVE  memory[j][b] = {Spot(j, b)}
    OBVIOUS
  <2>1. n \in Int /\ Spot(j, b) \in Int
    BY <1>1, SpotInt DEF SwapTyped
  <2>2. Spot(j, b) - x \in 0..(n - 1) \/ Spot(j, b) - y \in 0..(n - 1)
    BY <1>1, <2>1
  <2> QED
    BY <2>2, SwapFresh DEF x, y
<1>10. \A b \in Bits : c <= b /\ b < c + k => memory[F][b] = {x + (b - c)}
  BY <1>3, <1>6, <1>9
<1>11. \A b \in Bits : r <= b /\ b < r + k => memory[B][b] = {y + (b - r)}
  BY <1>3, <1>7, <1>9
<1>12. \A b \in Bits : b < r + k - W => memory[B + 1][b] = {y + (b + (W - r))}
  BY <1>8, <1>9
<1>13. \A i \in Int : ~ (i - x \in 0..(k - 1) /\ i - y \in 0..(k - 1))
  BY <1>1, <1>2
<1>14. F = B => \A b \in Bits : ~ (c <= b /\ b < c + k /\ r <= b /\ b < r + k)
  BY <1>6, <1>7, <1>13
<1>15. F = B + 1 => \A b \in Bits : ~ (c <= b /\ b < c + k /\ b < r + k - W)
  BY <1>6, <1>8, <1>13
<1>16. DOMAIN memory = Word
  BY DEF SwapKept, MemorySwapped
<1>17. TradeBegins(F, c, x, B, r, y, k)
  BY <1>1, <1>3, <1>4, <1>10, <1>11, <1>12, <1>14, <1>15, <1>16 DEF TradeBegins
<1> QED
  BY <1>17 DEF x, y

\* A step that exchanges the next k bits of the ranges and leaves the others alone.
TradesNext(k) ==
  /\ k \in Int /\ 0 <= k /\ k <= n /\ n' = n - k /\ call' = call
  /\ DOMAIN memory' = Word
  /\ \A j \in Word, b \in Bits :
       memory'[j][b] = IF Spot(j, b) - (call.from + Done) \in 0..(k - 1) THEN {call.to + (Spot(j, b) - call.from)}
                       ELSE IF Spot(j, b) - (call.to + Done) \in 0..(k - 1) THEN {call.from + (Spot(j, b) - call.to)}
                       ELSE memory[j][b]

LEMMA TradedNext ==
  ASSUME SwapKept, NEW F \in Int, NEW c \in Bits, NEW B \in Int, NEW r \in Bits, NEW k \in 1..W, k <= n, c + k <= W,
         Spot(F, c) = call.from + Done, Spot(B, r) = call.to + Done,
         Traded(memory', F, c, call.from + Done, B, r, call.to + Done, k), n' = n - k, call' = call
  PROVE  TradesNext(k)
<1> DEFINE x == call.from + Done
           y == call.to + Done
<1>1. SwapTyped /\ k \in Int /\ 1 <= k /\ k <= W /\ 0 <= k /\ x \in Int /\ y \in Int
  BY SwapTypes DEF SwapTyped
<1>2. ASSUME NEW j \in Word, NEW b \in Bits
      PROVE  memory'[j][b] = IF Spot(j, b) - x \in 0..(k - 1) THEN {call.to + (Spot(j, b) - call.from)}
                             ELSE IF Spot(j, b) - y \in 0..(k - 1) THEN {call.from + (Spot(j, b) - call.to)}
                             ELSE memory[j][b]
  <2>1. memory'[j][b] = IF j = F /\ c <= b /\ b < c + k THEN {y + (b - c)}
                        ELSE IF j = B /\ r <= b /\ b < r + k THEN {x + (b - r)}
                        ELSE IF j = B + 1 /\ b < r + k - W THEN {x + (b + (W - r))} ELSE memory[j][b]
    BY DEF Traded
  <2>2. j \in Int /\ b \in Int /\ c \in Int /\ r \in Int /\ W \in Int
    BY WordAssumption DEF Word, Bits
  <2>3. /\ Spot(j, b) \in Int
        /\ j = F /\ c <= b /\ b < c + k <=> Spot(j, b) - x \in 0..(k - 1)
        /\ j = F => Spot(j, b) - x = b - c
    <3> HIDE DEF x
    <3>1. Spot(F, c) = x
      BY DEF x
    <3>2. j = F /\ c <= b /\ b < c + k <=> Spot(j, b) - Spot(F, c) \in 0..(k - 1)
      BY <1>1, <2>2, SpotNear
    <3>3. Spot(j, b) \in Int /\ (j = F => Spot(j, b) - Spot(F, c) = b - c)
      <4>1. j \in Int
        BY <2>2
      <4> QED
        BY <4>1, SpotsApart
    <3> QED
      BY <3>1, <3>2, <3>3, Zenon
  <2>4. /\ (j = B /\ r <= b /\ b < r + k) \/ (j = B + 1 /\ b < r + k - W) <=> Spot(j, b) - y \in 0..(k - 1)
        /\ j = B => Spot(j, b) - y = b - r
        /\ j = B + 1 => Spot(j, b) - y = b + (W - r)
    <3> HIDE DEF y
    <3>1. Spot(B, r) = y
      BY DEF y
    <3>2. (j = B /\ r <= b /\ b < r + k) \/ (j = B + 1 /\ b < r + k - W) <=> Spot(j, b) - Spot(B, r) \in 0..(k - 1)
      BY <1>1, <2>2, SpotBoth
    <3>3. /\ j = B => Spot(j, b) - Spot(B, r) = b - r
          /\ j = B + 1 => Spot(j, b) - Spot(B, r) = b + (W - r)
      <4>1. j \in Int
        BY <2>2
      <4> QED
        BY <4>1, SpotsApart
    <3> QED
      BY <3>1, <3>2, <3>3, Zenon
  <2>5. /\ j = F => y + (b - c) = call.to + (Spot(j, b) - call.from)
        /\ j = B => x + (b - r) = call.from + (Spot(j, b) - call.to)
        /\ j = B + 1 => x + (b + (W - r)) = call.from + (Spot(j, b) - call.to)
    <3>1. Spot(j, b) - x = b - c => y + (b - c) = call.to + (Spot(j, b) - call.from)
      BY <1>1, <2>2, <2>3 DEF SwapTyped
    <3>2. Spot(j, b) - y = b - r => x + (b - r) = call.from + (Spot(j, b) - call.to)
      BY <1>1, <2>2, <2>3 DEF SwapTyped
    <3>3. Spot(j, b) - y = b + (W - r) => x + (b + (W - r)) = call.from + (Spot(j, b) - call.to)
      BY <1>1, <2>2, <2>3 DEF SwapTyped
    <3> QED
      BY <2>3, <2>4, <3>1, <3>2, <3>3
  <2> HIDE DEF x, y
  <2>6. CASE Spot(j, b) - x \in 0..(k - 1)
    BY <2>1, <2>3, <2>5, <2>6
  <2>7. CASE Spot(j, b) - x \notin 0..(k - 1)
    <3>1. memory'[j][b] = IF j = B /\ r <= b /\ b < r + k THEN {x + (b - r)}
                          ELSE IF j = B + 1 /\ b < r + k - W THEN {x + (b + (W - r))} ELSE memory[j][b]
      BY <2>1, <2>3, <2>7
    <3>2. CASE j = B /\ r <= b /\ b < r + k
      BY <2>4, <2>5, <2>7, <3>1, <3>2
    <3>3. CASE ~ (j = B /\ r <= b /\ b < r + k)
      BY <2>4, <2>5, <2>7, <3>1, <3>3
    <3> QED
      BY <3>2, <3>3
  <2> QED
    BY <2>6, <2>7
<1>3. DOMAIN memory' = Word
  BY DEF Traded
<1> QED
  BY <1>1, <1>2, <1>3, Zenon DEF TradesNext

LEMMA SwapsNothing ==
  ASSUME SwapKept, memory' = memory, n' = n, call' = call PROVE TradesNext(0)
<1>1. n \in Int /\ 0 <= n /\ n - 0 = n /\ DOMAIN memory = Word
  BY SwapTypes DEF SwapTyped, SwapKept, MemorySwapped
<1>2. ASSUME NEW i PROVE i \notin 0..(0 - 1)
  OBVIOUS
<1> QED
  BY <1>1, <1>2 DEF TradesNext

\* Every step of swap_ranges.
LEMMA SwapStep ==
  ASSUME SwapKept, NEW k, TradesNext(k),
         Iterator(first'), Iterator(result'), Place(result') = Place(result) + k,
         n' > 0 => Place(first') = Place(first) + k,
         \/ pc' = "middle" /\ first'.ctz = 0
         \/ pc' = "last" /\ first'.ctz = 0 /\ n' < W
         \/ pc' = "done" /\ n' = 0
  PROVE  SwapKept'
<1>1. SwapTyped /\ k \in Int /\ 0 <= k /\ k <= n /\ n' = n - k /\ call' = call /\ DOMAIN memory' = Word
  BY SwapTypes DEF TradesNext
<1>2. SwapCalled'
  BY <1>1 DEF SwapKept, SwapCalled, Apart
<1>3. Done' = Done + k /\ Done \in Int /\ 0 <= Done /\ Done + k <= call.n
  BY <1>1 DEF Done, SwapTyped
<1>4. MemorySwapped'
  <2>1. ASSUME NEW j \in Word, NEW b \in Bits PROVE memory'[j][b] = {Swapped(Spot(j, b))'}
    <3> DEFINE p == Spot(j, b)
    <3>1. p \in Int
      BY SpotInt
    <3>2. memory'[j][b] = IF p - (call.from + Done) \in 0..(k - 1) THEN {call.to + (p - call.from)}
                          ELSE IF p - (call.to + Done) \in 0..(k - 1) THEN {call.from + (p - call.to)}
                          ELSE memory[j][b]
      BY DEF TradesNext
    <3>3. memory[j][b] = {Swapped(p)}
      BY DEF SwapKept, MemorySwapped
    <3> HIDE DEF p
    <3>4. /\ p - call.from \in 0..(Done + k - 1) <=> p - call.from \in 0..(Done - 1) \/ p - (call.from + Done) \in 0..(k - 1)
          /\ p - call.to \in 0..(Done + k - 1) <=> p - call.to \in 0..(Done - 1) \/ p - (call.to + Done) \in 0..(k - 1)
          /\ ~ (p - call.from \in 0..(Done + k - 1) /\ p - call.to \in 0..(Done + k - 1))
      BY <1>1, <1>3, <3>1 DEF SwapTyped, Apart
    <3>5. Swapped(p)' = IF p - call.from \in 0..(Done + k - 1) THEN call.to + (p - call.from)
                        ELSE IF p - call.to \in 0..(Done + k - 1) THEN call.from + (p - call.to) ELSE p
      <4>1. p' = p
        BY DEF p, Spot
      <4> QED
        BY <1>1, <1>3, <4>1 DEF Swapped
    <3>6. Swapped(p) = IF p - call.from \in 0..(Done - 1) THEN call.to + (p - call.from)
                       ELSE IF p - call.to \in 0..(Done - 1) THEN call.from + (p - call.to) ELSE p
      BY DEF Swapped
    <3>7. memory'[j][b] = {Swapped(p)'}
      BY <3>2, <3>3, <3>4, <3>5, <3>6
    <3> QED
      BY <3>7 DEF p
  <2> QED
    BY <1>1, <2>1 DEF MemorySwapped, Word, Bits
<1>5. CursorsSwapped'
  <2>1. Iterator(first)' /\ Iterator(result)'
    BY DEF Iterator, Bits
  <2>2. Place(result) = call.to + Done /\ (n > 0 => Place(first) = call.from + Done)
    BY DEF SwapKept, CursorsSwapped
  <2>3. Place(result)' = Place(result') /\ Place(first)' = Place(first') /\ (n' > 0 => n > 0)
    BY <1>1 DEF Place, SwapTyped
  <2>4. Place(result)' = call.to + Done'
    BY <1>1, <1>3, <2>2, <2>3 DEF SwapTyped
  <2>5. n' > 0 => Place(first)' = call.from + Done'
    BY <1>1, <1>3, <2>2, <2>3 DEF SwapTyped
  <2> QED
    BY <1>1, <2>1, <2>4, <2>5 DEF CursorsSwapped
<1>6. SwapPhase'
  <2>1. n' \in 0..call.n
    BY <1>1 DEF SwapTyped
  <2> QED
    BY <1>1, <2>1 DEF SwapPhase
<1> QED
  BY <1>2, <1>4, <1>5, <1>6 DEF SwapKept

\* What is known before a step.
SwapGoes ==
  /\ SwapTyped /\ Iterator(first) /\ Iterator(result) /\ DOMAIN memory = Word
  /\ first.blk \in Int /\ first.ctz \in Bits /\ first.ctz \in Int /\ 0 <= first.ctz /\ first.ctz < W
  /\ result.blk \in Int /\ result.ctz \in Bits
  /\ Spot(first.blk, first.ctz) = Place(first) /\ Spot(result.blk, result.ctz) = Place(result)
  /\ Place(first) \in Int /\ Place(result) \in Int
  /\ Place(result) = call.to + Done /\ (n > 0 => Place(first) = call.from + Done)
  /\ pc \in {"middle", "last"} => first.ctz = 0
  /\ pc = "last" => n < W
  /\ pc = "first" => n > 0

LEMMA SwapGoesOn ==
  ASSUME SwapKept PROVE SwapGoes
<1>1. SwapTyped /\ CursorsSwapped /\ SwapPhase /\ DOMAIN memory = Word
  BY SwapTypes DEF SwapKept, MemorySwapped
<1>2. first.blk \in Int /\ first.ctz \in Bits /\ result.blk \in Int /\ result.ctz \in Bits
  BY <1>1 DEF CursorsSwapped, Iterator
<1>3. first.ctz \in Int /\ 0 <= first.ctz /\ first.ctz < W
  BY <1>1, <1>2 DEF Bits, SwapTyped
<1>4. Place(first) \in Int /\ Place(result) \in Int
  BY <1>1, PlaceInt DEF CursorsSwapped
<1>5. Spot(first.blk, first.ctz) = Place(first) /\ Spot(result.blk, result.ctz) = Place(result)
  BY DEF Spot, Place
<1> QED
  BY <1>1, <1>2, <1>3, <1>4, <1>5 DEF SwapGoes, CursorsSwapped, SwapPhase

\* A part of the function that finds nothing to do.
LEMMA SwapIdle ==
  ASSUME SwapKept, NEW next, Swap!Become(Swap!Unchanged, first, 0, next),
         \/ next = "middle" /\ first.ctz = 0
         \/ next = "last" /\ first.ctz = 0 /\ n < W
         \/ next = "done" /\ n = 0
  PROVE  SwapKept'
<1>1. /\ memory' = memory /\ result' = result /\ first' = first /\ n' = n - 0 /\ pc' = next /\ call' = call
  BY DEF Swap!Become, Swap!Unchanged
<1>2. SwapGoes
  BY SwapGoesOn
<1>3. n' = n
  BY <1>1, <1>2 DEF SwapGoes, SwapTyped
<1>4. TradesNext(0)
  BY <1>1, <1>3, SwapsNothing
<1>5. Iterator(first') /\ Iterator(result') /\ Place(result') = Place(result) + 0 /\ Place(first') = Place(first) + 0
  BY <1>1, <1>2 DEF SwapGoes
<1> QED
  BY <1>1, <1>3, <1>4, <1>5, SwapStep

\* The next word of the first range.
LEMMA NextWordIs ==
  ASSUME SwapGoes
  PROVE  /\ Iterator(Swap!NextWord) /\ Swap!NextWord.ctz = 0
         /\ Place(Swap!NextWord) = Place(first) + (W - first.ctz)
<1>1. first.blk \in Int /\ first.blk + 1 \in Int /\ first.ctz \in Int /\ W \in Int
  BY DEF SwapGoes, SwapTyped
<1>2. Swap!NextWord = [blk |-> first.blk + 1, ctz |-> 0]
  BY <1>1, SwapWords, AtWord DEF Swap!NextWord
<1>3. 0 \in Bits
  BY WordAssumption DEF Bits
<1>4. Place(Swap!NextWord) = (first.blk + 1) * W + 0 /\ Place(first) = first.blk * W + first.ctz
  BY <1>2 DEF Place
<1>5. (first.blk + 1) * W = first.blk * W + W /\ first.blk * W \in Int
  BY <1>1, WordProduct
<1> QED
  BY <1>1, <1>2, <1>3, <1>4, <1>5 DEF Iterator

\* A step that exchanges a part of a word.
LEMMA SwapTrade ==
  ASSUME SwapKept, NEW c \in Bits, c = first.ctz, NEW k \in 1..W, k <= n, c + k <= W,
         NEW source, NEW next, Swap!Become(Swap!Trade(c, k), source, k, next), Iterator(source),
         n - k > 0 => Place(source) = Place(first) + k,
         \/ next = "middle" /\ source.ctz = 0
         \/ next = "done" /\ n - k = 0
  PROVE  SwapKept'
<1>1. /\ memory' = Swap!Trade(c, k).memory /\ result' = Swap!Trade(c, k).result /\ first' = source
      /\ n' = n - k /\ pc' = next /\ call' = call
  BY DEF Swap!Become
<1>2. SwapGoes /\ k \in Int /\ 1 <= k
  BY SwapGoesOn
<1>3. n > 0
  BY <1>2 DEF SwapGoes, SwapTyped
<1>4. Spot(first.blk, c) = call.from + Done /\ Spot(result.blk, result.ctz) = call.to + Done
  BY <1>2, <1>3 DEF SwapGoes
<1>5. TradeBegins(first.blk, c, call.from + Done, result.blk, result.ctz, call.to + Done, k)
  BY <1>2, <1>4, SwapBegins DEF SwapGoes
<1>6. /\ Traded(memory', first.blk, c, call.from + Done, result.blk, result.ctz, call.to + Done, k)
      /\ Iterator(result') /\ Place(result') = Place(result) + k
  <2>1. Iterator(result)
    BY <1>2 DEF SwapGoes
  <2> QED
    BY <1>1, <1>5, <2>1, TradeIs
<1>7. TradesNext(k)
  BY <1>1, <1>2, <1>4, <1>6, TradedNext DEF SwapGoes
<1> QED
  BY <1>1, <1>6, <1>7, SwapStep

LEMMA SwapFirst ==
  ASSUME SwapKept, Swap!First PROVE SwapKept'
<1>1. SwapGoes /\ pc = "first" /\ n > 0
  BY SwapGoesOn DEF Swap!First, SwapGoes
<1>2. CASE first.ctz = 0
  BY <1>2, SwapIdle DEF Swap!First
<1>3. CASE first.ctz # 0
  <2> DEFINE c == first.ctz
             k == Least(W - c, n)
  <2>1. Swap!Become(Swap!Trade(c, k), Swap!NextWord, k, "middle")
    BY <1>3, SwapWords DEF Swap!First
  <2>2. k \in Int /\ 1 <= k /\ k <= W /\ k \in 1..W /\ k <= n /\ c + k <= W /\ c \in Bits /\ (n - k > 0 => k = W - c)
    BY <1>1, <1>3 DEF Least, SwapGoes, SwapTyped
  <2> HIDE DEF k
  <2>3. Iterator(Swap!NextWord) /\ Swap!NextWord.ctz = 0 /\ (n - k > 0 => Place(Swap!NextWord) = Place(first) + k)
    BY <1>1, <2>2, NextWordIs
  <2> HIDE DEF c
  <2>4. c = first.ctz
    BY DEF c
  <2> QED
    BY <2>1, <2>2, <2>3, <2>4, SwapTrade
<1> QED
  BY <1>2, <1>3

LEMMA SwapLast ==
  ASSUME SwapKept, Swap!Last PROVE SwapKept'
<1>1. SwapGoes /\ pc = "last" /\ first.ctz = 0 /\ n < W
  BY SwapGoesOn DEF Swap!Last, SwapGoes
<1>2. CASE n = 0
  BY <1>2, SwapIdle DEF Swap!Last
<1>3. CASE n # 0
  <2>1. Swap!Become(Swap!Trade(0, n), first, n, "done")
    BY <1>3 DEF Swap!Last
  <2>2. n \in 1..W /\ n <= n /\ 0 + n <= W /\ 0 \in Bits /\ ~ (n - n > 0) /\ n - n = 0 /\ Iterator(first)
    BY <1>1, <1>3 DEF SwapGoes, SwapTyped, Bits
  <2> QED
    BY <1>1, <2>1, <2>2, SwapTrade
<1> QED
  BY <1>2, <1>3

\* A step that exchanges a whole word.
LEMMA SwapWord ==
  ASSUME SwapKept, pc = "middle", ~ (n < W), first' = Swap!NextWord, n' = n - W, pc' = "middle", call' = call,
         result' = [result EXCEPT !.blk = @ + 1],
         TradeBegins(first.blk, 0, call.from + Done, result.blk, result.ctz, call.to + Done, W)
           => Traded(memory', first.blk, 0, call.from + Done, result.blk, result.ctz, call.to + Done, W)
  PROVE  SwapKept'
<1>1. SwapGoes /\ first.ctz = 0 /\ W \in 1..W /\ W \in Int /\ 0 < W /\ W <= n /\ 0 + W <= W /\ 0 \in Bits /\ n > 0
  <2>1. SwapGoes /\ first.ctz = 0
    BY SwapGoesOn DEF SwapGoes
  <2> QED
    BY <2>1 DEF SwapGoes, SwapTyped, Bits
<1>2. Spot(first.blk, 0) = call.from + Done /\ Spot(result.blk, result.ctz) = call.to + Done
  BY <1>1 DEF SwapGoes
<1>3. TradeBegins(first.blk, 0, call.from + Done, result.blk, result.ctz, call.to + Done, W)
  BY <1>1, <1>2, SwapBegins DEF SwapGoes
<1>4. TradesNext(W)
  BY <1>1, <1>2, <1>3, TradedNext DEF SwapGoes
<1>5. Iterator(result') /\ Place(result') = Place(result) + W
  <2>1. result' = [blk |-> result.blk + 1, ctz |-> result.ctz] /\ result.blk + 1 \in Int
    BY <1>1 DEF SwapGoes, Iterator
  <2>2. (result.blk + 1) * W = result.blk * W + W /\ result.blk * W \in Int
    BY <1>1, WordProduct DEF SwapGoes
  <2>3. Place(result') = (result.blk + 1) * W + result.ctz /\ Place(result) = result.blk * W + result.ctz
    BY <2>1 DEF Place
  <2>4. result.ctz \in Int
    BY <1>1 DEF SwapGoes, Bits
  <2>5. Place(result') = Place(result) + W
    BY <1>1, <2>2, <2>3, <2>4
  <2> QED
    BY <1>1, <2>1, <2>5 DEF Iterator, SwapGoes
<1>6. Iterator(first') /\ first'.ctz = 0 /\ Place(first') = Place(first) + W
  <2>1. Iterator(Swap!NextWord) /\ Swap!NextWord.ctz = 0 /\ Place(Swap!NextWord) = Place(first) + (W - first.ctz)
    BY <1>1, NextWordIs
  <2>2. W - first.ctz = W
    BY <1>1
  <2> QED
    BY <2>1, <2>2
<1> QED
  BY <1>4, <1>5, <1>6, SwapStep

LEMMA SwapMiddleUnaligned ==
  ASSUME SwapKept, Swap!MiddleUnaligned PROVE SwapKept'
<1>1. SwapGoes /\ pc = "middle" /\ first.ctz = 0
  BY SwapGoesOn DEF Swap!MiddleUnaligned, SwapGoes
<1>2. CASE n < W
  BY <1>1, <1>2, SwapIdle DEF Swap!MiddleUnaligned
<1>3. CASE ~ (n < W)
  <2>1. /\ memory' = TradeWord(first.blk, result.blk, result.ctz) /\ result' = [result EXCEPT !.blk = @ + 1]
        /\ first' = Swap!NextWord /\ n' = n - W /\ pc' = "middle" /\ call' = call
    BY <1>3, SwapWords, Zenon DEF Swap!MiddleUnaligned, Swap!Become, TradeWord
  <2>2. TradeBegins(first.blk, 0, call.from + Done, result.blk, result.ctz, call.to + Done, W)
          => Traded(memory', first.blk, 0, call.from + Done, result.blk, result.ctz, call.to + Done, W)
    BY <1>1, <2>1, TradeWordIs DEF SwapGoes
  <2> QED
    BY <1>1, <1>3, <2>1, <2>2, SwapWord
<1> QED
  BY <1>2, <1>3

LEMMA SwapMiddleAligned ==
  ASSUME SwapKept, Swap!MiddleAligned PROVE SwapKept'
<1>1. SwapGoes /\ pc = "middle" /\ first.ctz = 0 /\ Swap!Aligned
  BY SwapGoesOn DEF Swap!MiddleAligned, SwapGoes
<1>2. CASE n < W
  BY <1>1, <1>2, SwapIdle DEF Swap!MiddleAligned
<1>3. CASE ~ (n < W)
  <2> DEFINE F == first.blk
             B == result.blk
             x == call.from + Done
             y == call.to + Done
  <2>1. /\ memory' = [memory EXCEPT ![F] = memory[B], ![B] = memory[F]] /\ result' = [result EXCEPT !.blk = @ + 1]
        /\ first' = Swap!NextWord /\ n' = n - W /\ pc' = "middle" /\ call' = call
    BY <1>3, Zenon DEF Swap!MiddleAligned, Swap!Become
  <2>2. result.ctz = 0
    <3>1. Place(first) - Place(result) = call.from - call.to
      BY <1>1, <1>3 DEF SwapGoes, SwapTyped
    <3>2. (Place(first) - Place(result)) % W = 0
      BY <1>1, <3>1 DEF Swap!Aligned
    <3> QED
      BY <1>1, <3>2, SameBit DEF SwapGoes
  <2>3. ASSUME TradeBegins(F, 0, x, B, result.ctz, y, W)
        PROVE  Traded(memory', F, 0, x, B, result.ctz, y, W)
    <3>1. ASSUME NEW b \in Bits
          PROVE  0 <= b /\ b < 0 + W /\ b - 0 = b /\ ~ (b < 0 + W - W)
      BY WordAssumption DEF Bits
    <3>2. TradeBegins(F, 0, x, B, 0, y, W)
      BY <2>2, <2>3
    <3> HIDE DEF F, B, x, y
    <3>3. F \in Word /\ B \in Word /\ \A b \in Bits : memory[F][b] = {x + b} /\ memory[B][b] = {y + b}
      BY <3>1, <3>2 DEF TradeBegins
    <3>4. F # B
      <4>1. 0 \in Bits
        BY WordAssumption DEF Bits
      <4> QED
        BY <3>1, <3>2, <4>1 DEF TradeBegins
    <3>5. DOMAIN memory' = Word
      BY <2>1, <3>2 DEF TradeBegins
    <3>6. ASSUME NEW j \in Word, NEW b \in Bits
          PROVE  memory'[j][b] = IF j = F THEN {y + b} ELSE IF j = B THEN {x + b} ELSE memory[j][b]
      BY <2>1, <3>2, <3>3, <3>4 DEF TradeBegins
    <3>7. ASSUME NEW j \in Word, NEW b \in Bits
          PROVE  memory'[j][b] = IF j = F /\ 0 <= b /\ b < 0 + W THEN {y + (b - 0)}
                                 ELSE IF j = B /\ 0 <= b /\ b < 0 + W THEN {x + (b - 0)}
                                 ELSE IF j = B + 1 /\ b < 0 + W - W THEN {x + (b + (W - 0))} ELSE memory[j][b]
      BY <3>1, <3>6
    <3> QED
      BY <2>2, <3>5, <3>7 DEF Traded
  <2> QED
    BY <1>1, <1>3, <2>1, <2>3, SwapWord
<1> QED
  BY <1>2, <1>3

LEMMA SwapInit ==
  ASSUME Swap!Init PROVE SwapKept
<1>1. /\ call \in Swap!Calls /\ n = call.n /\ memory = Swap!Fresh /\ pc = IF n > 0 THEN "first" ELSE "done"
      /\ first = At(call.from) /\ result = At(call.to)
  BY SwapWords DEF Swap!Init
<1>2. /\ call.from \in 0..(W * Words - 1) /\ call.to \in 0..(W * Words - 1) /\ call.n \in 0..(W * Words)
      /\ call.from + call.n <= W * Words /\ call.to + call.n <= W * Words /\ Apart
  BY <1>1 DEF Swap!Calls, Swap!Places, Apart
<1>3. call.from \in Nat /\ call.to \in Nat /\ call.n \in Nat
  BY <1>2
<1>4. SwapCalled
  BY <1>2, <1>3 DEF SwapCalled
<1>5. Done = 0 /\ n \in Int /\ 0 <= n
  BY <1>1, <1>3 DEF Done
<1>6. MemorySwapped
  <2>1. DOMAIN memory = Word
    BY <1>1 DEF Swap!Fresh, Word
  <2>2. ASSUME NEW j \in Word, NEW b \in Bits PROVE memory[j][b] = {Spot(j, b)}
    BY <1>1, SwapWords DEF Swap!Fresh, Word, Spot
  <2>3. ASSUME NEW p PROVE p \notin 0..(Done - 1)
    BY <1>5
  <2>4. ASSUME NEW p PROVE Swapped(p) = p
    BY <2>3, Zenon DEF Swapped
  <2> QED
    BY <2>1, <2>2, <2>4 DEF MemorySwapped
<1>7. CursorsSwapped
  <2>1. call.from + Done = call.from /\ call.to + Done = call.to /\ call.from \in Int /\ call.to \in Int
    BY <1>3, <1>5
  <2>2. Iterator(first) /\ Place(first) = call.from /\ Iterator(result) /\ Place(result) = call.to
    BY <1>1, <2>1, AtIs
  <2> QED
    BY <2>1, <2>2 DEF CursorsSwapped
<1>8. SwapPhase
  BY <1>1, <1>3 DEF SwapPhase
<1> QED
  BY <1>4, <1>6, <1>7, <1>8 DEF SwapKept

LEMMA SwapNext ==
  ASSUME SwapKept, Swap!Next PROVE SwapKept'
BY SwapFirst, SwapLast, SwapMiddleAligned, SwapMiddleUnaligned
   DEF Swap!Next, Swap!swap_ranges_aligned, Swap!swap_ranges_unaligned

LEMMA SwapGood ==
  ASSUME SwapKept PROVE Swap!NoBitLost /\ Swap!SwapExact /\ Swap!ReturnsEnd
<1>1. SwapTyped /\ MemorySwapped /\ CursorsSwapped /\ SwapPhase
  BY SwapTypes DEF SwapKept
<1>2. Swap!Places = Places /\ \A p : Swap!BitAt(memory, p) = BitAt(memory, p)
  BY DEF Swap!Places, Places, Swap!BitAt, BitAt
<1>3. ASSUME NEW p \in Places PROVE BitAt(memory, p) = {Swapped(p)}
  <2>1. PICK j \in Word, b \in Bits : Spot(j, b) = p /\ BitAt(memory, p) = memory[j][b]
    BY BitAtIs
  <2> QED
    BY <1>1, <2>1 DEF MemorySwapped
<1>4. ASSUME NEW p \in Places PROVE p \in Int /\ 0 <= p /\ p < W * Words
  BY <1>1 DEF Places, SwapTyped
<1>5. Swap!NoBitLost
  <2>1. ASSUME NEW x \in Places PROVE \E p \in Places : Swapped(p) = x
    <3>1. x \in Int /\ 0 <= x /\ x < W * Words
      BY <1>4
    <3>2. CASE x - call.from \in 0..(Done - 1)
      <4> DEFINE p == call.to + (x - call.from)
      <4>1. p \in Int /\ 0 <= p /\ p < W * Words /\ p - call.to \in 0..(Done - 1) /\ p - call.from \notin 0..(Done - 1)
            /\ call.from + (p - call.to) = x
        BY <1>1, <3>1, <3>2 DEF SwapTyped, Apart
      <4>2. p \in Places
        BY <1>1, <4>1 DEF Places, SwapTyped
      <4> HIDE DEF p
      <4> QED
        BY <4>1, <4>2 DEF Swapped
    <3>3. CASE x - call.from \notin 0..(Done - 1) /\ x - call.to \in 0..(Done - 1)
      <4> DEFINE p == call.from + (x - call.to)
      <4>1. p \in Int /\ 0 <= p /\ p < W * Words /\ p - call.from \in 0..(Done - 1) /\ call.to + (p - call.from) = x
        BY <1>1, <3>1, <3>3 DEF SwapTyped, Apart
      <4>2. p \in Places
        BY <1>1, <4>1 DEF Places, SwapTyped
      <4> HIDE DEF p
      <4> QED
        BY <4>1, <4>2 DEF Swapped
    <3>4. CASE x - call.from \notin 0..(Done - 1) /\ x - call.to \notin 0..(Done - 1)
      BY <3>4 DEF Swapped
    <3> QED
      BY <3>2, <3>3, <3>4
  <2> QED
    BY <1>2, <1>3, <2>1 DEF Swap!NoBitLost
<1>6. Swap!SwapExact
  <2> SUFFICES ASSUME pc = "done", NEW p \in Places
               PROVE  BitAt(memory, p) = {IF p \in call.from..(call.from + call.n - 1) THEN call.to + p - call.from
                                          ELSE IF p \in call.to..(call.to + call.n - 1) THEN call.from + p - call.to
                                          ELSE p}
    BY <1>2 DEF Swap!SwapExact
  <2>1. Done = call.n
    BY <1>1 DEF SwapPhase, SwapTyped
  <2>2. /\ p \in call.from..(call.from + call.n - 1) <=> p - call.from \in 0..(Done - 1)
        /\ p \in call.to..(call.to + call.n - 1) <=> p - call.to \in 0..(Done - 1)
    <3>1. p \in Int /\ Done = call.n
      BY <1>4, <2>1
    <3> QED
      BY <1>1, <3>1 DEF SwapTyped
  <2>3. call.to + p - call.from = call.to + (p - call.from) /\ call.from + p - call.to = call.from + (p - call.to)
    BY <1>1, <1>4 DEF SwapTyped
  <2> QED
    BY <1>3, <2>2, <2>3 DEF Swapped
<1>7. Swap!ReturnsEnd
  <2> SUFFICES ASSUME pc = "done" PROVE Place(result) = call.to + call.n
    BY DEF Swap!ReturnsEnd, Swap!Place, Place
  <2>1. Done = call.n
    BY <1>1 DEF SwapPhase, SwapTyped
  <2> QED
    BY <1>1, <2>1 DEF CursorsSwapped
<1> QED
  BY <1>5, <1>6, <1>7

-----------------------------------------------------------------------------
(* fill_n, and the functions that only look at bits.  The invariant: the bits that are done
   have their value, all others are as they were, and the cursor is at those that come next. *)

LEMMA RunWords ==
  /\ Runs!Bits = Bits
  /\ \A c : Runs!Lower(c) = Lower(c) /\ Runs!At(c) = At(c)
  /\ \A c, k : Runs!Window(c, k) = Window(c, k) /\ Runs!Least(c, k) = Least(c, k)
<1>1. Runs!Bits = Bits
  BY DEF Runs!Bits, Bits
<1>2. \A c : Runs!Upper(c) = Upper(c) /\ Runs!Lower(c) = Lower(c) /\ Runs!At(c) = At(c)
  BY <1>1 DEF Runs!Upper, Upper, Runs!Lower, Lower, Runs!At, At
<1>3. \A c, k : Runs!Window(c, k) = Window(c, k) /\ Runs!Least(c, k) = Least(c, k)
  BY <1>2 DEF Runs!Window, Window, Runs!Least, Least
<1> QED
  BY <1>1, <1>2, <1>3

Fills == call.op = "fill_n"

RunsCalled ==
  /\ call.from \in Nat /\ call.n \in Nat /\ call.x \in BOOLEAN
  /\ call.from + call.n <= W * Words

\* The bits that are done.
IsFilled(p) == Fills /\ p - call.from \in 0..(Done - 1)

MemoryFilled ==
  /\ DOMAIN memory = Word
  /\ \A j \in Word, b \in Bits :
       IF IsFilled(Spot(j, b)) THEN b \in memory[j] <=> call.x = TRUE
       ELSE b \in memory[j] <=> Spot(j, b) \in call.old

CursorFills ==
  /\ n \in 0..call.n
  /\ pc \in {"first", "middle", "last", "done"}
  /\ Iterator(first)
  /\ n > 0 => Place(first) = call.from + Done
  /\ pc = "first" => n > 0
  /\ pc \in {"middle", "last"} => first.ctz = 0
  /\ pc = "last" => n < W
  /\ pc = "done" => n = 0

RunsKept ==
  /\ RunsCalled /\ MemoryFilled
  /\ Fills => CursorFills
  /\ ~ Fills => pc \in {"query", "run", "done"}

\* What is known before a step of fill_n.
FillGoes ==
  /\ call.from \in Int /\ call.n \in Int /\ 0 <= call.from /\ call.from + call.n <= W * Words /\ W * Words \in Int
  /\ n \in Int /\ 0 <= n /\ n <= call.n /\ Done \in Int /\ Done = call.n - n
  /\ W \in Int /\ 0 < W /\ DOMAIN memory = Word /\ Iterator(first)
  /\ first.blk \in Int /\ first.ctz \in Bits /\ first.ctz \in Int /\ 0 <= first.ctz /\ first.ctz < W
  /\ Place(first) \in Int /\ Spot(first.blk, first.ctz) = Place(first)
  /\ n > 0 => Place(first) = call.from + Done /\ first.blk \in Word

LEMMA FillGoesOn ==
  ASSUME RunsKept, Fills PROVE FillGoes
<1>1. RunsCalled /\ CursorFills /\ DOMAIN memory = Word
  BY DEF RunsKept, MemoryFilled
<1>2. W \in Int /\ 0 < W /\ W * Words \in Int
  BY WordAssumption
<1>3. /\ call.from \in Int /\ call.n \in Int /\ 0 <= call.from /\ call.from + call.n <= W * Words
      /\ n \in Int /\ 0 <= n /\ n <= call.n /\ Done \in Int /\ Done = call.n - n
  BY <1>1 DEF RunsCalled, CursorFills, Done
<1>4. first.blk \in Int /\ first.ctz \in Bits /\ Iterator(first) /\ Place(first) \in Int
  BY <1>1, PlaceInt DEF CursorFills, Iterator
<1>5. first.ctz \in Int /\ 0 <= first.ctz /\ first.ctz < W
  BY <1>2, <1>4 DEF Bits
<1>6. Spot(first.blk, first.ctz) = Place(first)
  BY DEF Spot, Place
<1>7. ASSUME n > 0 PROVE Place(first) = call.from + Done /\ first.blk \in Word
  <2>1. Place(first) = call.from + Done
    BY <1>1, <1>7 DEF CursorFills
  <2>2. 0 <= Place(first) /\ Place(first) < W * Words
    BY <1>2, <1>3, <1>4, <1>7, <2>1
  <2> QED
    BY <1>4, <1>6, <2>1, <2>2, SpotWord
<1> QED
  BY <1>1, <1>2, <1>3, <1>4, <1>5, <1>6, <1>7 DEF FillGoes

\* A step that gives the next k bits their value and leaves the others alone.
FillsNext(k) ==
  /\ k \in Int /\ 0 <= k /\ k <= n /\ n' = n - k /\ call' = call
  /\ DOMAIN memory' = Word
  /\ \A j \in Word, b \in Bits :
       IF Spot(j, b) - (call.from + Done) \in 0..(k - 1) THEN b \in memory'[j] <=> call.x = TRUE
       ELSE b \in memory'[j] <=> b \in memory[j]

LEMMA FillStep ==
  ASSUME RunsKept, Fills, NEW k, FillsNext(k), Iterator(first'),
         n' > 0 => Place(first') = Place(first) + k,
         \/ pc' = "middle" /\ first'.ctz = 0
         \/ pc' = "last" /\ first'.ctz = 0 /\ n' < W
         \/ pc' = "done" /\ n' = 0
  PROVE  RunsKept'
<1>1. FillGoes /\ k \in Int /\ 0 <= k /\ k <= n /\ n' = n - k /\ call' = call /\ DOMAIN memory' = Word
  BY FillGoesOn DEF FillsNext
<1>2. RunsCalled' /\ Fills'
  BY <1>1 DEF RunsKept, RunsCalled, Fills
<1>3. Done' = Done + k
  BY <1>1 DEF Done, FillGoes
<1>4. MemoryFilled'
  <2>1. ASSUME NEW j \in Word, NEW b \in Bits
        PROVE  IF IsFilled(Spot(j, b))' THEN b \in memory'[j] <=> call.x = TRUE
               ELSE b \in memory'[j] <=> Spot(j, b) \in call.old
    <3> DEFINE p == Spot(j, b)
    <3>1. p \in Int
      BY SpotInt
    <3>2. IF p - (call.from + Done) \in 0..(k - 1) THEN b \in memory'[j] <=> call.x = TRUE
          ELSE b \in memory'[j] <=> b \in memory[j]
      BY DEF FillsNext
    <3>3. IF IsFilled(p) THEN b \in memory[j] <=> call.x = TRUE
          ELSE b \in memory[j] <=> p \in call.old
      BY DEF RunsKept, MemoryFilled
    <3> HIDE DEF p
    <3>4. p - call.from \in 0..(Done + k - 1) <=> p - call.from \in 0..(Done - 1) \/ p - (call.from + Done) \in 0..(k - 1)
      BY <1>1, <3>1 DEF FillGoes
    <3>5. IsFilled(p)' <=> p - call.from \in 0..(Done + k - 1)
      <4>1. p' = p
        BY DEF p, Spot
      <4> QED
        BY <1>1, <1>2, <1>3, <4>1 DEF IsFilled, FillGoes
    <3>6. IsFilled(p) <=> p - call.from \in 0..(Done - 1)
      BY DEF IsFilled
    <3>7. IF IsFilled(p)' THEN b \in memory'[j] <=> call.x = TRUE ELSE b \in memory'[j] <=> p \in call.old
      BY <3>2, <3>3, <3>4, <3>5, <3>6
    <3> QED
      BY <3>7 DEF p
  <2> QED
    BY <1>1, <2>1 DEF MemoryFilled, Word, Bits, Spot
<1>5. CursorFills'
  <2>1. n' \in 0..call.n /\ (n' > 0 => n > 0)
    BY <1>1 DEF FillGoes
  <2>2. n' > 0 => Place(first)' = call.from + Done'
    <3>1. Place(first)' = Place(first')
      BY DEF Place
    <3> QED
      BY <1>1, <1>3, <2>1, <3>1 DEF FillGoes
  <2>3. Iterator(first)'
    BY DEF Iterator, Bits
  <2> QED
    BY <1>1, <2>1, <2>2, <2>3 DEF CursorFills
<1> QED
  BY <1>1, <1>2, <1>4, <1>5 DEF RunsKept

LEMMA FillsNothing ==
  ASSUME RunsKept, Fills, memory' = memory, n' = n, call' = call PROVE FillsNext(0)
<1>1. n \in Int /\ 0 <= n /\ n - 0 = n /\ DOMAIN memory = Word
  BY FillGoesOn DEF FillGoes
<1>2. ASSUME NEW i PROVE i \notin 0..(0 - 1)
  OBVIOUS
<1> QED
  BY <1>1, <1>2 DEF FillsNext

\* The bits of a mask get their value.
LEMMA PutIs ==
  ASSUME RunsKept, NEW w, NEW mask, NEW b
  PROVE  /\ b \in mask => (b \in Runs!Put(w, mask) <=> call.x = TRUE)
         /\ b \notin mask => (b \in Runs!Put(w, mask) <=> b \in w)
<1>1. call.x \in BOOLEAN
  BY DEF RunsKept, RunsCalled
<1>2. CASE call.x = TRUE
  BY <1>2 DEF Runs!Put
<1>3. CASE call.x = FALSE
  BY <1>3 DEF Runs!Put
<1> QED
  BY <1>1, <1>2, <1>3

\* A step that fills a part of a word.
LEMMA FillsWord ==
  ASSUME RunsKept, Fills, NEW c \in Bits, NEW k \in 1..W, k <= n, c + k <= W, first.ctz = c,
         NEW mask, \A b \in Bits : b \in mask <=> c <= b /\ b < c + k,
         memory' = [memory EXCEPT ![first.blk] = Runs!Put(@, mask)], n' = n - k, call' = call
  PROVE  FillsNext(k)
<1>1. FillGoes /\ k \in Int /\ 1 <= k /\ 0 <= k
  BY FillGoesOn
<1>2. n > 0
  BY <1>1 DEF FillGoes
<1>3. first.blk \in Word /\ first.blk \in Int /\ Spot(first.blk, c) = call.from + Done /\ DOMAIN memory = Word
  BY <1>1, <1>2 DEF FillGoes
<1>4. ASSUME NEW j \in Word, NEW b \in Bits
      PROVE  IF Spot(j, b) - (call.from + Done) \in 0..(k - 1) THEN b \in memory'[j] <=> call.x = TRUE
             ELSE b \in memory'[j] <=> b \in memory[j]
  <2>1. j = first.blk /\ c <= b /\ b < c + k <=> Spot(j, b) - Spot(first.blk, c) \in 0..(k - 1)
    <3>1. j \in Int
      BY DEF Word
    <3> QED
      BY <1>1, <1>3, <3>1, SpotNear
  <2>2. Spot(j, b) - (call.from + Done) \in 0..(k - 1) <=> j = first.blk /\ b \in mask
    BY <1>3, <2>1
  <2>3. CASE j = first.blk
    <3>1. memory'[j] = Runs!Put(memory[j], mask)
      BY <1>3, <2>3
    <3>2. /\ b \in mask => (b \in Runs!Put(memory[j], mask) <=> call.x = TRUE)
          /\ b \notin mask => (b \in Runs!Put(memory[j], mask) <=> b \in memory[j])
      BY PutIs
    <3> QED
      BY <2>2, <2>3, <3>1, <3>2
  <2>4. CASE j # first.blk
    <3>1. memory'[j] = memory[j]
      BY <1>3, <2>4
    <3> QED
      BY <2>2, <2>4, <3>1
  <2> QED
    BY <2>3, <2>4
<1>5. DOMAIN memory' = Word
  BY <1>3
<1> QED
  BY <1>1, <1>4, <1>5, Zenon DEF FillsNext

LEMMA FillFirst ==
  ASSUME RunsKept, Fills, Runs!FillFirst PROVE RunsKept'
<1>1. FillGoes /\ pc = "first"
  BY FillGoesOn DEF Runs!FillFirst
<1>2. n > 0
  BY <1>1 DEF RunsKept, CursorFills
<1>3. CASE first.ctz = 0
  <2>1. memory' = memory /\ first' = first /\ n' = n /\ pc' = "middle" /\ call' = call
    BY <1>3 DEF Runs!FillFirst, Runs!Go
  <2>2. FillsNext(0)
    BY <2>1, FillsNothing
  <2>3. Iterator(first') /\ Place(first') = Place(first) + 0
    BY <1>1, <2>1 DEF FillGoes
  <2> QED
    BY <1>3, <2>1, <2>2, <2>3, FillStep
<1>4. CASE first.ctz # 0
  <2> DEFINE c == first.ctz
             k == Least(W - c, n)
  <2>1. /\ memory' = [memory EXCEPT ![first.blk] = Runs!Put(@, Window(c, k))] /\ first' = Runs!NextWord(first)
        /\ n' = n - k /\ pc' = "middle" /\ call' = call
    BY <1>4, RunWords, Zenon DEF Runs!FillFirst, Runs!Go
  <2>2. k \in Int /\ k \in 1..W /\ k <= n /\ c + k <= W /\ c \in Bits /\ c \in Int /\ (n - k > 0 => k = W - c)
    BY <1>1, <1>2, <1>4 DEF Least, FillGoes
  <2> HIDE DEF k, c
  <2>3. \A b \in Bits : b \in Window(c, k) <=> c <= b /\ b < c + k
    BY <2>2, MaskIs
  <2>4. first.ctz = c
    BY DEF c
  <2>5. FillsNext(k)
    BY <2>1, <2>2, <2>3, <2>4, FillsWord
  <2>6. Iterator(first') /\ first'.ctz = 0 /\ Place(first') = Place(first) + (W - c)
    <3>1. first' = [blk |-> first.blk + 1, ctz |-> 0] /\ first.blk + 1 \in Int /\ 0 \in Bits
      BY <1>1, <2>1 DEF Runs!NextWord, FillGoes, Bits
    <3>2. Place(first') = (first.blk + 1) * W + 0 /\ Place(first) = first.blk * W + c
      BY <2>4, <3>1 DEF Place
    <3>3. (first.blk + 1) * W = first.blk * W + W /\ first.blk * W \in Int
      BY <1>1, WordProduct DEF FillGoes
    <3>4. Place(first') = Place(first) + (W - c)
      BY <1>1, <2>2, <3>2, <3>3 DEF FillGoes
    <3> QED
      BY <3>1, <3>4 DEF Iterator
  <2> QED
    BY <2>1, <2>2, <2>5, <2>6, FillStep
<1> QED
  BY <1>3, <1>4

LEMMA FillLast ==
  ASSUME RunsKept, Fills, Runs!FillLast PROVE RunsKept'
<1>1. FillGoes /\ pc = "last" /\ first' = first /\ n' = 0 /\ pc' = "done" /\ call' = call
  BY FillGoesOn DEF Runs!FillLast, Runs!Go
<1>2. first.ctz = 0 /\ n < W
  BY <1>1 DEF RunsKept, CursorFills
<1>3. CASE n > 0
  <2>1. memory' = [memory EXCEPT ![first.blk] = Runs!Put(@, Lower(W - n))]
    BY <1>3, RunWords DEF Runs!FillLast, Runs!Go
  <2>2. n \in 1..W /\ n <= n /\ 0 + n <= W /\ 0 \in Bits /\ n - n = 0 /\ n \in Int
    BY <1>1, <1>2, <1>3 DEF FillGoes, Bits
  <2>3. \A b \in Bits : b \in Lower(W - n) <=> 0 <= b /\ b < 0 + n
    BY <1>1, <2>2, MaskIs DEF Bits, FillGoes
  <2>4. FillsNext(n)
    BY <1>1, <1>2, <2>1, <2>2, <2>3, FillsWord
  <2>5. Iterator(first') /\ ~ (n' > 0)
    BY <1>1 DEF FillGoes
  <2> QED
    BY <1>1, <2>4, <2>5, FillStep
<1>4. CASE ~ (n > 0)
  <2>1. memory' = memory /\ n' = n
    BY <1>1, <1>4 DEF Runs!FillLast, Runs!Go, FillGoes
  <2>2. FillsNext(0)
    BY <1>1, <2>1, FillsNothing
  <2>3. Iterator(first') /\ ~ (n' > 0)
    BY <1>1 DEF FillGoes
  <2> QED
    BY <1>1, <2>2, <2>3, FillStep
<1> QED
  BY <1>3, <1>4

LEMMA FillMiddle ==
  ASSUME RunsKept, Fills, Runs!FillMiddle PROVE RunsKept'
<1>1. FillGoes /\ pc = "middle"
  BY FillGoesOn DEF Runs!FillMiddle
<1>2. first.ctz = 0
  BY <1>1 DEF RunsKept, CursorFills
<1> DEFINE F == first.blk
           count == n \div W
           k == count * W
<1>3. /\ memory' = [j \in Word |-> IF j - F \in 0..(count - 1) THEN Runs!Put(memory[j], Bits) ELSE memory[j]]
      /\ first' = [first EXCEPT !.blk = @ + count] /\ n' = n - k /\ pc' = "last" /\ call' = call
  <2>1. DOMAIN memory = Word
    BY <1>1 DEF FillGoes
  <2> QED
    BY <2>1, RunWords, Zenon DEF Runs!FillMiddle, Runs!Go
<1>4. count \in Nat /\ k \in Nat /\ k <= n /\ n - k < W /\ (count > 0 => n > 0) /\ count \in Int /\ k \in Int
  BY <1>1, CountIs DEF FillGoes
<1>5. F \in Int /\ F * W \in Int /\ (F + count) * W = F * W + k
  BY <1>1, <1>4, WordProduct, WordSum DEF FillGoes
<1> HIDE DEF count, F
<1>6. ASSUME NEW j \in Word, NEW b \in Bits
      PROVE  IF Spot(j, b) - (call.from + Done) \in 0..(k - 1) THEN b \in memory'[j] <=> call.x = TRUE
             ELSE b \in memory'[j] <=> b \in memory[j]
  <2>1. j \in Int /\ j - F \in Int /\ b \in Int
    BY <1>5 DEF Word, Bits
  <2>2. j - F \in 0..(count - 1) <=> (j - F) * W + b \in 0..(k - 1)
    BY <1>4, <2>1, WholeWords
  <2>3. CASE count = 0
    <3>1. k = 0
      BY <2>3, WordAssumption
    <3>2. j - F \notin 0..(count - 1) /\ Spot(j, b) - (call.from + Done) \notin 0..(k - 1)
      BY <2>3, <3>1
    <3> HIDE DEF k
    <3> QED
      BY <1>3, <3>2
  <2>4. CASE count # 0
    <3>1. Spot(F, 0) = call.from + Done
      BY <1>1, <1>2, <1>4, <2>4 DEF FillGoes, F
    <3>2. Spot(j, b) - (call.from + Done) = (j - F) * W + b
      <4>1. (j - F) * W = j * W - F * W /\ j * W \in Int
        BY <1>5, <2>1, WordSum, WordProduct
      <4>2. Spot(j, b) = j * W + b /\ Spot(F, 0) = F * W + 0
        BY DEF Spot
      <4> QED
        BY <1>5, <2>1, <3>1, <4>1, <4>2
    <3> HIDE DEF k
    <3>3. CASE j - F \in 0..(count - 1)
      <4>1. memory'[j] = Runs!Put(memory[j], Bits) /\ Spot(j, b) - (call.from + Done) \in 0..(k - 1)
        BY <1>3, <2>2, <3>2, <3>3
      <4>2. b \in Runs!Put(memory[j], Bits) <=> call.x = TRUE
        BY PutIs
      <4> QED
        BY <4>1, <4>2
    <3>4. CASE j - F \notin 0..(count - 1)
      <4>1. memory'[j] = memory[j] /\ Spot(j, b) - (call.from + Done) \notin 0..(k - 1)
        BY <1>3, <2>2, <3>2, <3>4
      <4> QED
        BY <4>1
    <3> QED
      BY <3>3, <3>4
  <2> QED
    BY <2>3, <2>4
<1> HIDE DEF k
<1>7. FillsNext(k)
  <2>1. DOMAIN memory' = Word /\ k \in Int /\ 0 <= k
    BY <1>3, <1>4
  <2> QED
    BY <1>3, <1>4, <1>6, <2>1, Zenon DEF FillsNext
<1>8. Iterator(first') /\ first'.ctz = 0 /\ Place(first') = Place(first) + k
  <2>1. first' = [blk |-> F + count, ctz |-> first.ctz] /\ F + count \in Int
    BY <1>1, <1>3, <1>4 DEF FillGoes, Iterator, F
  <2>2. Place(first') = (F + count) * W + first.ctz /\ Place(first) = F * W + first.ctz
    BY <2>1 DEF Place, F
  <2>3. Place(first') = Place(first) + k
    BY <1>2, <1>4, <1>5, <2>2
  <2> QED
    BY <1>1, <1>2, <2>1, <2>3 DEF FillGoes, Iterator
<1>9. n' < W
  BY <1>3, <1>4
<1> QED
  BY <1>3, <1>7, <1>8, <1>9, FillStep

LEMMA RunsInit ==
  ASSUME Runs!Init PROVE RunsKept
<1>1. /\ call \in Runs!Calls /\ n = call.n /\ first = At(call.from)
      /\ memory = [k \in Word |-> {b \in Bits : Spot(k, b) \in call.old}]
      /\ pc = IF ~ Fills THEN "query" ELSE IF n > 0 THEN "first" ELSE "done"
  BY RunWords DEF Runs!Init, Word, Spot, Fills
<1>2. RunsCalled
  <2> DEFINE fills == {c \in [op : {"fill_n"}, x : BOOLEAN, from : Runs!Places, n : 0..(W * Words), old : {{}, Runs!Places}] :
                         c.from + c.n <= W * Words}
             looks == UNION {Runs!Queries(op, {0}, Runs!OneRun) : op \in {"find", "count", "equal_range"}}
             searches == Runs!Queries("search_n", {0, 1, W + 1}, Runs!OneRun)
             compares == {c \in Runs!Queries("equal", Runs!Bits, Runs!OneRun) : c.x /\ c.arg + c.n <= W * Words}
  <2>1. ASSUME NEW op, NEW args, NEW old, call \in Runs!Queries(op, args, old) PROVE RunsCalled
    BY <2>1, RunWords, WordAssumption DEF RunsCalled, Runs!Queries, Bits
  <2>2. CASE call \in fills
    BY <2>2, WordAssumption DEF RunsCalled, Runs!Places
  <2>3. CASE call \in looks
    BY <2>1, <2>3
  <2>4. CASE call \in searches
    BY <2>1, <2>4
  <2>5. CASE call \in compares
    <3>1. call \in Runs!Queries("equal", Runs!Bits, Runs!OneRun)
      BY <2>5
    <3> QED
      BY <2>1, <3>1
  <2>6. Runs!Calls = fills \cup looks \cup searches \cup compares
    BY DEF Runs!Calls
  <2> HIDE DEF fills, looks, searches, compares
  <2> QED
    BY <1>1, <2>2, <2>3, <2>4, <2>5, <2>6
<1>3. Done = 0 /\ n \in Int /\ 0 <= n
  BY <1>1, <1>2 DEF Done, RunsCalled
<1>4. MemoryFilled
  <2>1. ASSUME NEW p PROVE ~ IsFilled(p)
    BY <1>3 DEF IsFilled
  <2> QED
    BY <1>1, <2>1 DEF MemoryFilled
<1>5. CursorFills \/ ~ Fills
  <2>1. call.from \in Int /\ call.from + Done = call.from
    BY <1>2, <1>3 DEF RunsCalled
  <2>2. Iterator(first) /\ Place(first) = call.from
    BY <1>1, <2>1, AtIs
  <2> QED
    BY <1>1, <1>2, <1>3, <2>1, <2>2 DEF CursorFills, RunsCalled
<1> QED
  BY <1>1, <1>2, <1>4, <1>5 DEF RunsKept

LEMMA RunsNext ==
  ASSUME RunsKept, Runs!Next PROVE RunsKept'
<1>1. CASE Runs!FillFirst \/ Runs!FillMiddle \/ Runs!FillLast
  <2>1. Fills
    BY <1>1 DEF RunsKept, Runs!FillFirst, Runs!FillMiddle, Runs!FillLast
  <2> QED
    BY <1>1, <2>1, FillFirst, FillMiddle, FillLast
<1>2. CASE Runs!Query \/ Runs!Search \/ Runs!SearchRun
  <2>1. ~ Fills
    BY <1>2 DEF RunsKept, CursorFills, Runs!Query, Runs!Search, Runs!SearchRun
  <2>2. call' = call /\ memory' = memory /\ n' = n /\ pc' \in {"query", "run", "done"}
    BY <1>2 DEF Runs!Query, Runs!Search, Runs!SearchRun, Runs!Return, Runs!Turn
  <2>3. RunsCalled' /\ ~ Fills'
    BY <2>1, <2>2 DEF RunsKept, RunsCalled, Fills
  <2>4. MemoryFilled'
    BY <2>1, <2>2 DEF RunsKept, MemoryFilled, IsFilled, Fills, Word, Bits, Spot
  <2> QED
    BY <2>2, <2>3, <2>4 DEF RunsKept
<1> QED
  BY <1>1, <1>2 DEF Runs!Next

LEMMA RunsGood ==
  ASSUME RunsKept PROVE Runs!FillExact /\ Runs!OutsideKept
<1>1. RunsCalled /\ MemoryFilled /\ W * Words \in Int /\ (Fills => CursorFills)
  BY WordAssumption DEF RunsKept
<1>2. ASSUME NEW p \in Places
      PROVE  /\ IsFilled(p) => (Runs!IsSet(p) <=> call.x = TRUE)
             /\ ~ IsFilled(p) => (Runs!IsSet(p) <=> p \in call.old)
  <2>1. PICK j \in Word, b \in Bits : Spot(j, b) = p /\ p \div W = j /\ p % W = b
    <3>1. p \in Int /\ 0 <= p /\ p < W * Words
      BY <1>1 DEF Places
    <3>2. PICK j \in Int, b \in Bits : p = j * W + b /\ p \div W = j /\ p % W = b
      BY <3>1, PlaceNamed
    <3> QED
      BY <3>1, <3>2, SpotWord DEF Spot
  <2>2. Runs!IsSet(p) <=> b \in memory[j]
    BY <2>1 DEF Runs!IsSet
  <2> QED
    BY <1>1, <2>1, <2>2 DEF MemoryFilled
<1>3. call.from \in Int /\ call.n \in Int /\ 0 <= call.from /\ call.from + call.n <= W * Words /\ call.x \in BOOLEAN
  BY <1>1 DEF RunsCalled
<1>4. Runs!FillExact
  <2> SUFFICES ASSUME pc = "done", Fills, NEW p \in Runs!Asked PROVE Runs!IsSet(p) = call.x
    BY DEF Runs!FillExact, Fills
  <2>1. Done = call.n
    BY <1>1, <1>3 DEF CursorFills, Done
  <2>2. p \in Int /\ call.from <= p /\ p <= call.from + call.n - 1
    BY <1>3 DEF Runs!Asked
  <2>3. p \in Places /\ IsFilled(p)
    BY <1>1, <1>3, <2>1, <2>2 DEF Places, IsFilled
  <2>4. Runs!IsSet(p) \in BOOLEAN
    BY DEF Runs!IsSet
  <2> QED
    BY <1>2, <1>3, <2>3, <2>4, Zenon
<1>5. Runs!OutsideKept
  <2> SUFFICES ASSUME NEW p \in Places, ~ (p \in Runs!Asked /\ Fills) PROVE Runs!IsSet(p) <=> p \in call.old
    BY DEF Runs!OutsideKept, Fills, Runs!Places, Places, Runs!IsSet
  <2>1. p \in Int
    BY <1>1 DEF Places
  <2>2. ~ IsFilled(p)
    <3>1. Fills => n \in Int /\ 0 <= n /\ Done = call.n - n
      BY <1>1, <1>3 DEF CursorFills, Done
    <3> QED
      BY <1>3, <2>1, <3>1 DEF IsFilled, Runs!Asked
  <2> QED
    BY <1>2, <2>2
<1> QED
  BY <1>4, <1>5

-----------------------------------------------------------------------------
(* reverse.  The invariant: only the words from the first to the final one change, and at the
   end the bits around the range are back in them. *)

RFirst == Reverse!first.blk
RSkip == Reverse!first.ctz
RLast == Reverse!last.blk
REnd == Reverse!last.ctz

ReverseCalled == call.from \in Nat /\ call.n \in Nat /\ call.from < W * Words /\ call.from + call.n <= W * Words

\* The words of the range.
ReverseRange ==
  /\ call.from \in Int /\ call.n \in Int /\ 0 <= call.n /\ W \in Int /\ 0 < W
  /\ RFirst \in Word /\ RFirst \in Int /\ RSkip \in Bits /\ RSkip \in Int /\ 0 <= RSkip /\ RSkip < W
  /\ RLast \in Int /\ REnd \in Bits /\ REnd \in Int /\ 0 <= REnd /\ REnd < W
  /\ Spot(RFirst, RSkip) = call.from /\ Spot(RLast, REnd) = call.from + call.n
  /\ RFirst <= RLast /\ (RFirst = RLast => RSkip <= REnd)
  /\ REnd # 0 => RLast \in Word
  /\ Reverse!is_last_aligned <=> REnd = 0
  /\ Reverse!Final = (IF REnd = 0 THEN RLast - 1 ELSE RLast) /\ Reverse!Final \in Int
  /\ Reverse!gap = (IF REnd = 0 THEN 0 ELSE W - REnd) /\ Reverse!gap \in Int

LEMMA ReverseRangeIs ==
  ASSUME ReverseCalled PROVE ReverseRange
<1>1. call.from \in Int /\ call.n \in Int /\ 0 <= call.from /\ 0 <= call.n /\ W \in Int /\ 0 < W /\ W * Words \in Int
      /\ call.from < W * Words /\ call.from + call.n <= W * Words /\ call.from + call.n \in Int
  BY WordAssumption DEF ReverseCalled
<1>2. Reverse!first = At(call.from) /\ Reverse!last = At(call.from + call.n)
  BY DEF Reverse!first, Reverse!last, Reverse!At, At
<1>3. /\ Iterator(Reverse!first) /\ Place(Reverse!first) = call.from
      /\ Iterator(Reverse!last) /\ Place(Reverse!last) = call.from + call.n
  BY <1>1, <1>2, AtIs
<1>4. RFirst \in Int /\ RSkip \in Bits /\ RLast \in Int /\ REnd \in Bits
  BY <1>3 DEF Iterator, RFirst, RSkip, RLast, REnd
<1>5. RSkip \in Int /\ 0 <= RSkip /\ RSkip < W /\ REnd \in Int /\ 0 <= REnd /\ REnd < W
  BY <1>1, <1>4 DEF Bits
<1>6. Spot(RFirst, RSkip) = call.from /\ Spot(RLast, REnd) = call.from + call.n
  BY <1>3 DEF Spot, Place, RFirst, RSkip, RLast, REnd
<1>7. RFirst \in Word
  BY <1>1, <1>4, <1>6, SpotWord
<1>8. RFirst <= RLast /\ (RFirst = RLast => RSkip <= REnd)
  <2>1. ~ Less(Reverse!last, Reverse!first)
    BY <1>1, <1>3, PlacesOrder
  <2> QED
    BY <1>4, <1>5, <2>1 DEF Less, RFirst, RSkip, RLast, REnd
<1>9. REnd # 0 => RLast \in Word
  <2> SUFFICES ASSUME REnd # 0 PROVE RLast \in Word
    OBVIOUS
  <2>1. 0 \in Bits
    BY <1>1 DEF Bits
  <2>2. Spot(RLast, REnd) - Spot(RLast, 0) = REnd - 0 /\ Spot(RLast, 0) \in Int
    BY <1>4, <2>1, SpotsApart
  <2>3. Spot(RLast, 0) < W * Words
    BY <1>1, <1>5, <1>6, <2>2
  <2>4. 0 <= Spot(RLast, REnd)
    BY <1>1, <1>6
  <2>5. CASE call.from + call.n < W * Words
    BY <1>1, <1>4, <1>6, <2>4, <2>5, SpotWord
  <2>6. CASE call.from + call.n = W * Words
    <3>1. RLast * W \in Int /\ Spot(RLast, 0) = RLast * W + 0 /\ Spot(RLast, REnd) = RLast * W + REnd
      BY <1>4, WordProduct DEF Spot
    <3>2. Words \in Int /\ Words * W = W * Words
      BY WordAssumption
    <3>3. (RLast * W + REnd) % W = REnd /\ (Words * W + 0) % W = 0
      BY <1>4, <2>1, <3>2, PlaceIs
    <3>4. RLast * W + REnd = Words * W + 0
      BY <1>1, <1>6, <2>6, <3>1, <3>2
    <3> QED
      BY <3>3, <3>4
  <2> QED
    BY <1>1, <2>5, <2>6
<1>10. Reverse!is_last_aligned <=> REnd = 0
  BY DEF Reverse!is_last_aligned, REnd
<1>11. Reverse!Final = (IF REnd = 0 THEN RLast - 1 ELSE RLast) /\ Reverse!gap = (IF REnd = 0 THEN 0 ELSE W - REnd)
  BY <1>10 DEF Reverse!Final, Reverse!gap, RLast, REnd
<1> QED
  BY <1>1, <1>4, <1>5, <1>6, <1>7, <1>8, <1>9, <1>10, <1>11 DEF ReverseRange

\* The words outside have kept their bits.
OthersKept ==
  /\ DOMAIN memory = Word
  /\ \A j \in Word, b \in Bits : j \notin RFirst..Reverse!Final => memory[j][b] = {Spot(j, b)}

\* So have the bits of the words of the range that are not of the range.
AroundKept ==
  \A b \in Bits :
    /\ b < RSkip => memory[RFirst][b] = {Spot(RFirst, b)}
    /\ REnd # 0 /\ REnd <= b => memory[RLast][b] = {Spot(RLast, b)}

ReverseKept ==
  /\ ReverseCalled /\ OthersKept
  /\ pc \in {"reverse", "left", "right", "swap", "blend", "done"}
  /\ pc = "reverse" => AroundKept
  /\ pc \in {"left", "right", "swap", "blend"} => RFirst # RLast
  /\ pc \in {"left", "right"} => first \in RFirst..Reverse!Final
  /\ pc = "left" => REnd # 0
  /\ pc = "swap" => first \in Int /\ RFirst <= first
  /\ pc = "done" => AroundKept

\* __bit_blend
LEMMA BlendIs ==
  ASSUME NEW v, NEW w, NEW from, NEW len, NEW b \in Bits
  PROVE  /\ from <= b /\ b < from + len => Reverse!Blend(v, w, from, len)[b] = w[b]
         /\ ~ (from <= b /\ b < from + len) => Reverse!Blend(v, w, from, len)[b] = v[b]
<1> DEFINE mask == {i \in Bits : from <= i /\ i < from + len}
<1>1. Reverse!Blend(v, w, from, len) = Reverse!Or(Reverse!And(v, Bits \ mask), Reverse!And(w, mask)) /\ Reverse!Bits = Bits
  BY DEF Reverse!Blend, Reverse!Bits, Bits
<1>2. b \in mask <=> from <= b /\ b < from + len
  OBVIOUS
<1> HIDE DEF mask
<1>3. /\ Reverse!And(v, Bits \ mask)[b] = IF b \in Bits \ mask THEN v[b] ELSE {}
      /\ Reverse!And(w, mask)[b] = IF b \in mask THEN w[b] ELSE {}
  BY <1>1, Zenon DEF Reverse!And
<1>4. Reverse!Blend(v, w, from, len)[b] = Reverse!And(v, Bits \ mask)[b] \cup Reverse!And(w, mask)[b]
  BY <1>1 DEF Reverse!Or
<1> QED
  BY <1>2, <1>3, <1>4

LEMMA ReverseInit ==
  ASSUME Reverse!Init PROVE ReverseKept
<1>1. ReverseCalled
  BY WordAssumption DEF Reverse!Init, Reverse!Places, ReverseCalled
<1>2. DOMAIN memory = Word /\ \A j \in Word, b \in Bits : memory[j][b] = {Spot(j, b)}
  BY DEF Reverse!Init, Reverse!Fresh, Reverse!Bits, Bits, Word, Spot
<1>3. AroundKept
  BY <1>1, <1>2, ReverseRangeIs DEF ReverseRange, AroundKept
<1> QED
  BY <1>1, <1>2, <1>3 DEF Reverse!Init, ReverseKept, OthersKept

\* The range does not change.
LEMMA ReverseSame ==
  ASSUME call' = call
  PROVE  /\ RFirst' = RFirst /\ RSkip' = RSkip /\ RLast' = RLast /\ REnd' = REnd
         /\ Reverse!Final' = Reverse!Final /\ Reverse!gap' = Reverse!gap
         /\ ReverseCalled' <=> ReverseCalled
BY DEF RFirst, RSkip, RLast, REnd, Reverse!Final, Reverse!gap, Reverse!is_last_aligned, Reverse!first, Reverse!last,
       Reverse!At, ReverseCalled

\* A step that changes one word of the range, or none.
LEMMA OthersStep ==
  ASSUME OthersKept, call' = call, NEW k, k \in RFirst..Reverse!Final, NEW w, memory' = [memory EXCEPT ![k] = w]
  PROVE  OthersKept'
<1>1. RFirst' = RFirst /\ Reverse!Final' = Reverse!Final
  BY ReverseSame
<1>2. DOMAIN memory' = Word
  BY DEF OthersKept
<1>3. ASSUME NEW j \in Word, NEW b \in Bits, j \notin RFirst..Reverse!Final PROVE memory'[j][b] = {Spot(j, b)}
  <2>1. memory'[j] = memory[j]
    BY <1>3 DEF OthersKept
  <2> QED
    BY <1>3, <2>1 DEF OthersKept
<1> QED
  BY <1>1, <1>2, <1>3 DEF OthersKept, Word, Bits, Spot

LEMMA ReverseStays ==
  ASSUME OthersKept, call' = call, memory' = memory PROVE OthersKept'
BY ReverseSame DEF OthersKept, Word, Bits, Spot

LEMMA ReverseInOne ==
  ASSUME ReverseKept, Reverse!ReverseInPlace PROVE ReverseKept'
<1>1. ReverseRange /\ ReverseCalled /\ OthersKept /\ AroundKept /\ RFirst = RLast
  BY ReverseRangeIs DEF ReverseKept, Reverse!ReverseInPlace, RFirst, RLast
<1>2. PICK w : memory' = [memory EXCEPT ![RFirst] = Reverse!Blend(@, w, RSkip, REnd - RSkip)]
  BY Zenon DEF Reverse!ReverseInPlace, RFirst, RSkip, REnd
<1>3. call' = call /\ pc' = "done"
  BY DEF Reverse!ReverseInPlace
<1>4. /\ RFirst' = RFirst /\ RSkip' = RSkip /\ RLast' = RLast /\ REnd' = REnd /\ Reverse!Final' = Reverse!Final
      /\ ReverseCalled'
  BY <1>1, <1>3, ReverseSame
<1>5. DOMAIN memory' = Word /\ DOMAIN memory = Word
  BY <1>1, <1>2 DEF OthersKept
<1>6. ASSUME NEW b \in Bits, ~ (RSkip <= b /\ b < REnd)
      PROVE  memory'[RFirst][b] = memory[RFirst][b]
  <2>1. ~ (RSkip <= b /\ b < RSkip + (REnd - RSkip))
    BY <1>1, <1>6 DEF ReverseRange, Bits
  <2>2. memory'[RFirst] = Reverse!Blend(memory[RFirst], w, RSkip, REnd - RSkip)
    BY <1>1, <1>2, <1>5 DEF ReverseRange
  <2> QED
    BY <2>1, <2>2, BlendIs
<1>7. ASSUME NEW j \in Word, NEW b \in Bits, j \notin RFirst..Reverse!Final PROVE memory'[j][b] = {Spot(j, b)}
  <2>1. memory[j][b] = {Spot(j, b)}
    BY <1>1, <1>7 DEF OthersKept
  <2>2. CASE j # RFirst
    BY <1>2, <1>5, <2>1, <2>2
  <2>3. CASE j = RFirst
    <3>1. REnd = 0
      BY <1>1, <1>7, <2>3 DEF ReverseRange
    <3>2. ~ (RSkip <= b /\ b < REnd)
      BY <1>1, <3>1 DEF ReverseRange, Bits
    <3> QED
      BY <1>6, <2>1, <2>3, <3>2
  <2> QED
    BY <2>2, <2>3
<1>8. OthersKept'
  BY <1>4, <1>5, <1>7 DEF OthersKept, Word, Bits, Spot
<1>9. ASSUME NEW b \in Bits
      PROVE  /\ b < RSkip => memory'[RFirst][b] = {Spot(RFirst, b)}
             /\ REnd # 0 /\ REnd <= b => memory'[RLast][b] = {Spot(RLast, b)}
  <2>1. b \in Int
    BY <1>1 DEF Bits, ReverseRange
  <2>2. b < RSkip \/ REnd <= b => ~ (RSkip <= b /\ b < REnd)
    BY <1>1, <2>1 DEF ReverseRange
  <2> QED
    BY <1>1, <1>6, <2>2 DEF AroundKept
<1>10. AroundKept'
  BY <1>4, <1>9 DEF AroundKept, Bits, Spot
<1> QED
  BY <1>3, <1>4, <1>8, <1>10 DEF ReverseKept

LEMMA ReverseBegins ==
  ASSUME ReverseKept, Reverse!ReverseWords PROVE ReverseKept'
<1>1. ReverseRange /\ ReverseCalled /\ OthersKept /\ RFirst # RLast /\ call' = call
  BY ReverseRangeIs DEF ReverseKept, Reverse!ReverseWords, RFirst, RLast
<1>2. /\ RFirst' = RFirst /\ RLast' = RLast /\ REnd' = REnd /\ Reverse!Final' = Reverse!Final /\ ReverseCalled'
  BY <1>1, ReverseSame
<1>3. OthersKept'
  <2>1. DOMAIN memory' = Word
    BY DEF Reverse!ReverseWords, Reverse!ReversedWords, Word
  <2>2. ASSUME NEW j \in Word, NEW b \in Bits, j \notin RFirst..Reverse!Final PROVE memory'[j][b] = {Spot(j, b)}
    <3>1. memory'[j] = memory[j]
      BY <2>2 DEF Reverse!ReverseWords, Reverse!ReversedWords, Word, RFirst
    <3> QED
      BY <1>1, <2>2, <3>1 DEF OthersKept
  <2> QED
    BY <1>2, <2>1, <2>2 DEF OthersKept, Word, Bits, Spot
<1>4. RFirst \in RFirst..Reverse!Final /\ Reverse!Final \in RFirst..Reverse!Final /\ RFirst \in Int /\ RFirst <= RFirst
  BY <1>1 DEF ReverseRange
<1>5. \/ pc' = "swap" /\ first' = RFirst
      \/ pc' = "left" /\ first' = RFirst /\ RSkip < Reverse!gap
      \/ pc' = "right" /\ first' = Reverse!Final
  BY DEF Reverse!ReverseWords, RFirst, RSkip
<1>6. RSkip < Reverse!gap => REnd # 0
  BY <1>1 DEF ReverseRange
<1> QED
  BY <1>1, <1>2, <1>3, <1>4, <1>5, <1>6 DEF ReverseKept

LEMMA ReverseShifts ==
  ASSUME ReverseKept, Reverse!ShiftLeft \/ Reverse!ShiftRight PROVE ReverseKept'
<1>1. /\ ReverseRange /\ ReverseCalled /\ OthersKept /\ RFirst # RLast /\ call' = call /\ first \in RFirst..Reverse!Final
      /\ pc = "left" => REnd # 0
  BY ReverseRangeIs DEF ReverseKept, Reverse!ShiftLeft, Reverse!ShiftRight
<1>2. /\ RFirst' = RFirst /\ RLast' = RLast /\ REnd' = REnd /\ Reverse!Final' = Reverse!Final /\ ReverseCalled'
  BY <1>1, ReverseSame
<1>3. \E w : memory' = [memory EXCEPT ![first] = w]
  BY DEF Reverse!ShiftLeft, Reverse!ShiftRight
<1>4. OthersKept'
  BY <1>1, <1>3, OthersStep
<1>5. \/ pc = "left" /\ pc' = "left" /\ first' = first + 1 /\ first # RLast
      \/ pc = "right" /\ pc' = "right" /\ first' = first - 1 /\ first # RFirst
      \/ pc' = "swap" /\ first' = RFirst
  BY DEF Reverse!ShiftLeft, Reverse!ShiftRight, RFirst, RLast
<1>6. pc' \in {"left", "right"} => first' \in RFirst..Reverse!Final
  BY <1>1, <1>5 DEF ReverseRange
<1>7. RFirst \in Int /\ RFirst <= RFirst
  BY <1>1 DEF ReverseRange
<1> QED
  BY <1>1, <1>2, <1>4, <1>5, <1>6, <1>7 DEF ReverseKept

LEMMA ReverseSwaps ==
  ASSUME ReverseKept, Reverse!SwapBits PROVE ReverseKept'
<1>1. ReverseRange /\ ReverseCalled /\ OthersKept /\ RFirst # RLast /\ call' = call /\ first \in Int /\ RFirst <= first
  BY ReverseRangeIs DEF ReverseKept, Reverse!SwapBits
<1>2. /\ RFirst' = RFirst /\ RLast' = RLast /\ REnd' = REnd /\ Reverse!Final' = Reverse!Final /\ ReverseCalled'
  BY <1>1, ReverseSame
<1>3. CASE first <= Reverse!Final
  <2>1. memory' = [memory EXCEPT ![first] = Reverse!BitSwap(memory[first])] /\ first' = first + 1 /\ pc' = "swap"
    BY <1>3 DEF Reverse!SwapBits
  <2>2. OthersKept'
    <3>1. first \in RFirst..Reverse!Final
      BY <1>1, <1>3 DEF ReverseRange
    <3> QED
      BY <1>1, <2>1, <3>1, OthersStep
  <2>3. first' \in Int /\ RFirst <= first'
    BY <1>1, <2>1 DEF ReverseRange
  <2> QED
    BY <1>1, <1>2, <2>1, <2>2, <2>3 DEF ReverseKept
<1>4. CASE ~ (first <= Reverse!Final)
  <2>1. memory' = memory /\ pc' = "blend"
    BY <1>4 DEF Reverse!SwapBits
  <2>2. OthersKept'
    BY <1>1, <2>1, ReverseStays
  <2> QED
    BY <1>1, <1>2, <2>1, <2>2 DEF ReverseKept
<1> QED
  BY <1>3, <1>4

LEMMA ReversePuts ==
  ASSUME ReverseKept, Reverse!PutBack PROVE ReverseKept'
<1>1. ReverseRange /\ ReverseCalled /\ OthersKept /\ RFirst # RLast /\ call' = call /\ pc' = "done"
  BY ReverseRangeIs DEF ReverseKept, Reverse!PutBack
<1>2. /\ RFirst' = RFirst /\ RSkip' = RSkip /\ RLast' = RLast /\ REnd' = REnd /\ Reverse!Final' = Reverse!Final
      /\ ReverseCalled'
  BY <1>1, ReverseSame
<1> DEFINE fresh == Reverse!Fresh
           memory1 == IF RSkip = 0 THEN memory
                      ELSE [memory EXCEPT ![RFirst] = Reverse!Blend(fresh[RFirst], @, RSkip, W - RSkip)]
<1>3. memory' = IF REnd = 0 THEN memory1 ELSE [memory1 EXCEPT ![RLast] = Reverse!Blend(@, fresh[RLast], REnd, W - REnd)]
  BY Zenon DEF Reverse!PutBack, Reverse!is_last_aligned, RFirst, RSkip, RLast, REnd
<1>4. \A j \in Word, b \in Bits : fresh[j][b] = {Spot(j, b)}
  BY DEF Reverse!Fresh, Reverse!Bits, Bits, Word, Spot
<1>5. RFirst \in Word /\ (REnd # 0 => RLast \in Word) /\ DOMAIN memory = Word
  BY <1>1 DEF ReverseRange, OthersKept
<1> HIDE DEF fresh
<1>6. /\ DOMAIN memory1 = Word
      /\ \A j \in Word : j # RFirst => memory1[j] = memory[j]
      /\ \A b \in Bits : b < RSkip => memory1[RFirst][b] = {Spot(RFirst, b)}
  <2>1. CASE RSkip = 0
    <3>1. memory1 = memory
      BY <2>1
    <3>2. \A b \in Bits : ~ (b < RSkip)
      BY <1>1, <2>1 DEF Bits, ReverseRange
    <3> QED
      BY <1>5, <3>1, <3>2
  <2>2. CASE RSkip # 0
    <3> DEFINE w == Reverse!Blend(fresh[RFirst], memory[RFirst], RSkip, W - RSkip)
    <3>1. memory1 = [memory EXCEPT ![RFirst] = w]
      BY <2>2
    <3>2. ASSUME NEW b \in Bits, b < RSkip PROVE w[b] = {Spot(RFirst, b)}
      <4>1. ~ (RSkip <= b /\ b < RSkip + (W - RSkip))
        BY <1>1, <3>2 DEF Bits, ReverseRange
      <4>2. w[b] = fresh[RFirst][b]
        BY <4>1, BlendIs
      <4> QED
        BY <1>4, <1>5, <4>2
    <3> HIDE DEF w, memory1
    <3> QED
      BY <1>5, <3>1, <3>2
  <2> QED
    BY <2>1, <2>2
<1> HIDE DEF memory1
<1>7. /\ DOMAIN memory' = Word
      /\ \A j \in Word : (j # RLast \/ REnd = 0) => memory'[j] = memory1[j]
      /\ \A b \in Bits : REnd # 0 /\ REnd <= b => memory'[RLast][b] = {Spot(RLast, b)}
  <2>1. CASE REnd = 0
    BY <1>3, <1>6, <2>1
  <2>2. CASE REnd # 0
    <3> DEFINE w == Reverse!Blend(memory1[RLast], fresh[RLast], REnd, W - REnd)
    <3>1. memory' = [memory1 EXCEPT ![RLast] = w]
      BY <1>3, <2>2
    <3>2. ASSUME NEW b \in Bits, REnd <= b PROVE w[b] = {Spot(RLast, b)}
      <4>1. REnd <= b /\ b < REnd + (W - REnd)
        BY <1>1, <3>2 DEF Bits, ReverseRange
      <4>2. w[b] = fresh[RLast][b]
        BY <4>1, BlendIs
      <4> QED
        BY <1>4, <1>5, <2>2, <4>2
    <3> HIDE DEF w
    <3> QED
      BY <1>5, <1>6, <2>2, <3>1, <3>2
  <2> QED
    BY <2>1, <2>2
<1>8. ASSUME NEW j \in Word, NEW b \in Bits, j \notin RFirst..Reverse!Final PROVE memory'[j][b] = {Spot(j, b)}
  <2>1. j # RFirst /\ (j # RLast \/ REnd = 0)
    BY <1>1, <1>8 DEF ReverseRange
  <2> QED
    BY <1>1, <1>6, <1>7, <1>8, <2>1 DEF OthersKept
<1>9. OthersKept'
  BY <1>2, <1>7, <1>8 DEF OthersKept, Word, Bits, Spot
<1>10. ASSUME NEW b \in Bits
       PROVE  /\ b < RSkip => memory'[RFirst][b] = {Spot(RFirst, b)}
              /\ REnd # 0 /\ REnd <= b => memory'[RLast][b] = {Spot(RLast, b)}
  BY <1>1, <1>5, <1>6, <1>7
<1>11. AroundKept'
  BY <1>2, <1>10 DEF AroundKept, Bits, Spot
<1> QED
  BY <1>1, <1>2, <1>9, <1>11 DEF ReverseKept

LEMMA ReverseNext ==
  ASSUME ReverseKept, Reverse!Next PROVE ReverseKept'
BY ReverseInOne, ReverseBegins, ReverseShifts, ReverseSwaps, ReversePuts DEF Reverse!Next

LEMMA ReverseGood ==
  ASSUME ReverseKept PROVE Reverse!OutsideKept
<1>1. ReverseRange /\ OthersKept /\ (pc = "done" => AroundKept)
  BY ReverseRangeIs DEF ReverseKept
<1> SUFFICES ASSUME pc = "done", NEW p \in Places, p \notin call.from..(call.from + call.n - 1)
             PROVE  BitAt(memory, p) = {p}
  BY DEF Reverse!OutsideKept, Reverse!Places, Places, Reverse!BitAt, BitAt
<1>2. PICK j \in Word, b \in Bits : Spot(j, b) = p /\ BitAt(memory, p) = memory[j][b]
  BY BitAtIs
<1>3. j \in Int /\ b \in Int /\ p \in Int
  <2>1. p \in Int
    BY <1>2, SpotInt
  <2> QED
    BY <1>1, <2>1 DEF Word, Bits, ReverseRange
<1> DEFINE x == [blk |-> j, ctz |-> b]
           y == [blk |-> RFirst, ctz |-> RSkip]
           z == [blk |-> RLast, ctz |-> REnd]
<1>4. Iterator(x) /\ Iterator(y) /\ Iterator(z)
  BY <1>1, <1>3 DEF Iterator, ReverseRange
<1>5. Place(x) = p /\ Place(y) = call.from /\ Place(z) = call.from + call.n
  BY <1>1, <1>2 DEF Place, Spot, ReverseRange
<1>6. p < call.from \/ ~ (p < call.from + call.n)
  BY <1>1, <1>3 DEF ReverseRange
<1>7. CASE p < call.from
  <2>1. Less(x, y)
    BY <1>4, <1>5, <1>7, PlacesOrder
  <2>2. j < RFirst \/ (j = RFirst /\ b < RSkip)
    BY <2>1 DEF Less
  <2>3. CASE j < RFirst
    <3>1. j \notin RFirst..Reverse!Final
      BY <1>1, <1>3, <2>3 DEF ReverseRange
    <3> QED
      BY <1>1, <1>2, <3>1 DEF OthersKept
  <2>4. CASE j = RFirst /\ b < RSkip
    BY <1>1, <1>2, <2>4 DEF AroundKept
  <2> QED
    BY <2>2, <2>3, <2>4
<1>8. CASE ~ (p < call.from + call.n)
  <2>1. ~ Less(x, z)
    BY <1>4, <1>5, <1>8, PlacesOrder
  <2>2. ~ (j < RLast) /\ ~ (j = RLast /\ b < REnd)
    BY <2>1 DEF Less
  <2>3. CASE j = RLast /\ REnd # 0
    <3>1. REnd <= b
      BY <1>1, <1>3, <2>2, <2>3 DEF ReverseRange
    <3> QED
      BY <1>1, <1>2, <2>3, <3>1 DEF AroundKept
  <2>4. CASE ~ (j = RLast /\ REnd # 0)
    <3>1. j \notin RFirst..Reverse!Final
      BY <1>1, <1>3, <2>2, <2>4 DEF ReverseRange
    <3> QED
      BY <1>1, <1>2, <3>1 DEF OthersKept
  <2> QED
    BY <2>3, <2>4
<1> QED
  BY <1>6, <1>7, <1>8

-----------------------------------------------------------------------------
(* Every behaviour is a call of one of the algorithms, or a life of two iterators.  *)

CallKept ==
  /\ used = "iterator" => CursorsKept
  /\ used = "runs"     => RunsKept
  /\ used = "move"     => MoveKept
  /\ used = "swap"     => SwapKept
  /\ used = "reverse"  => ReverseKept
  /\ used = "rotate"   => RotateKept

LEMMA CallInit == Init => CallKept
BY CursorsInit, RunsInit, MoveInit, SwapInit, ReverseInit, RotateInit DEF Init, CallKept

LEMMA RotateNext ==
  ASSUME RotateKept, Rotate!Next PROVE RotateKept'
BY RotateBufferFirst, RotateSwapFirst, RotateBufferSecond, RotateSwapSecond DEF Rotate!Next

LEMMA CallNext == CallKept /\ Next => CallKept'
<1> SUFFICES ASSUME CallKept, Next PROVE CallKept'
  OBVIOUS
<1>1. CASE used = "iterator" /\ MoveCursors /\ used' = used
  <2>1. CursorsKept'
    BY <1>1, CursorsMove DEF CallKept
  <2> QED
    BY <1>1, <2>1 DEF CallKept
<1>2. CASE used = "runs" /\ Runs!Next /\ used' = used
  <2>1. RunsKept'
    BY <1>2, RunsNext DEF CallKept
  <2> QED
    BY <1>2, <2>1 DEF CallKept
<1>3. CASE used = "move" /\ Move!Next /\ used' = used
  <2>1. MoveKept'
    BY <1>3, MoveNext DEF CallKept
  <2> QED
    BY <1>3, <2>1 DEF CallKept
<1>4. CASE used = "swap" /\ Swap!Next /\ used' = used
  <2>1. SwapKept'
    BY <1>4, SwapNext DEF CallKept
  <2> QED
    BY <1>4, <2>1 DEF CallKept
<1>5. CASE used = "reverse" /\ Reverse!Next /\ used' = used
  <2>1. ReverseKept'
    BY <1>5, ReverseNext DEF CallKept
  <2> QED
    BY <1>5, <2>1 DEF CallKept
<1>6. CASE used = "rotate" /\ Rotate!Next /\ used' = used
  <2>1. RotateKept'
    BY <1>6, RotateNext DEF CallKept
  <2> QED
    BY <1>6, <2>1 DEF CallKept
<1> QED
  BY <1>1, <1>2, <1>3, <1>4, <1>5, <1>6 DEF Next

LEMMA CallStays == CallKept /\ UNCHANGED vars => CallKept'
<1> SUFFICES ASSUME CallKept, UNCHANGED vars PROVE CallKept'
  OBVIOUS
<1>1. /\ used' = used /\ call' = call /\ memory' = memory /\ first' = first /\ result' = result
      /\ n' = n /\ m' = m /\ pc' = pc
  BY DEF vars
<1>2. CursorsKept => CursorsKept'
  BY <1>1 DEF CursorsKept, Iterator, Place, Bits
<1>3. RunsKept => RunsKept'
  BY <1>1 DEF RunsKept, RunsCalled, MemoryFilled, IsFilled, Fills, CursorFills, Done, Iterator, Place, Bits, Word, Spot
<1>4. MoveKept => MoveKept'
  <2>1. MoveCalled' <=> MoveCalled
    BY <1>1, MoveCallKept
  <2>2. MemoryMoved => MemoryMoved'
    <3>1. \A p : Moved(p)' = Moved(p)
      BY <1>1 DEF Moved
    <3>2. DoneFrom' = DoneFrom /\ Done' = Done
      BY <1>1 DEF DoneFrom, Done, Move!Backward
    <3> QED
      BY <1>1, <3>1, <3>2 DEF MemoryMoved, Word, Bits, Spot
  <2>3. CursorsMoved => CursorsMoved'
    BY <1>1, MoveCallKept DEF CursorsMoved, Way, Done, Iterator, Place, Bits
  <2>4. MovePhase => MovePhase'
    BY <1>1, MoveCallKept DEF MovePhase
  <2> QED
    BY <2>1, <2>2, <2>3, <2>4 DEF MoveKept
<1>5. SwapKept => SwapKept'
  <2>1. \A p : Swapped(p)' = Swapped(p)
    BY <1>1 DEF Swapped, Done
  <2> QED
    BY <1>1, <2>1 DEF SwapKept, SwapCalled, Apart, MemorySwapped, CursorsSwapped, SwapPhase, Done, Iterator, Place, Bits,
         Word, Spot
<1>6. ReverseKept => ReverseKept'
  BY <1>1, ReverseSame, ReverseStays DEF ReverseKept, AroundKept, Bits, Spot
<1>7. RotateKept => RotateKept'
  <2>1. Rotate!RestRotates => Rotate!RestRotates'
    BY <1>1 DEF Rotate!RestRotates, Rotate!Rest, Rotate!Last, Rotate!Goal
  <2> QED
    BY <1>1, <2>1 DEF RotateKept, RotateTyped, PartsFollow
<1> QED
  BY <1>1, <1>2, <1>3, <1>4, <1>5, <1>6, <1>7 DEF CallKept

LEMMA CallAlwaysKept == Spec => []CallKept
<1>1. CallKept /\ [Next]_vars => CallKept'
  BY CallNext, CallStays
<1> QED
  BY <1>1, CallInit, PTL DEF Spec

\* Of fill_n, copy, copy_backward, flip_range, swap_ranges and reverse, for every word width,
\* memory, range and position of both ranges in their words: at every step, the bits outside
\* of the target are as they were, no word outside of the memory is touched, and an exchange
\* loses no bit, also where two ranges share a word; at the end of a call of reverse the bits
\* around the range are back.  Not covered is flip_range onto another range that begins at
\* the same bit of its word, but for whole words (bitalgo.hxx:1317 and 1326).
THEOREM OutsideAlwaysKept == Spec => []OutsideKept
<1>1. CallKept => OutsideKept
  BY RunsGood, MoveGood, SwapGood, ReverseGood DEF CallKept, OutsideKept
<1> QED
  BY <1>1, CallAlwaysKept, PTL

\* The operators of the iterators go as far as they say and compare as the places do, for
\* every sequence of jumps and steps forward and backward, and the functions that move bits
\* return the place behind those they wrote, or the first one backward.
THEOREM CursorsAlwaysExact == Spec => []CursorsExact
<1>1. CallKept => CursorsExact
  BY CursorsGood, MoveGood, SwapGood DEF CallKept, CursorsExact
<1> QED
  BY <1>1, CallAlwaysKept, PTL

\* The loop of rotate: after each of its turns, to rotate the two parts that are left is to
\* rotate the whole, whichever of them is the longer one and whether it fits into the buffer;
\* and each of its calls is one that the called function is made for.
THEOREM RotationAlwaysKept == Spec => []RotationKept
<1>1. CallKept => RotationKept
  BY DEF CallKept, RotationKept, RotateKept, Rotate!NoMisuse
<1> QED
  BY <1>1, CallAlwaysKept, PTL

\* What fill_n, copy, copy_backward, flip_range, swap_ranges and rotate leave when they end is
\* what they are for, also where the source overlaps the target: the part of ResultExact that
\* is about the functions that write, but for reverse.  The flips not covered are those
\* that OutsideAlwaysKept names.
THEOREM WritesExact ==
  Spec => [](/\ used = "runs" => Runs!FillExact
             /\ used = "move" => Move!MoveExact
             /\ used = "swap" => Swap!SwapExact
             /\ used = "rotate" => Rotate!RotateExact)
<1>1. CallKept => /\ used = "runs" => Runs!FillExact
                  /\ used = "move" => Move!MoveExact
                  /\ used = "swap" => Swap!SwapExact
                  /\ used = "rotate" => Rotate!RotateExact
  BY RunsGood, MoveGood, SwapGood, RotateDone DEF CallKept
<1> QED
  BY <1>1, CallAlwaysKept, PTL

-----------------------------------------------------------------------------
(* majority_element returns the majority element of every range, of any length and over any
   values.  The invariant is the lemma in the header of the source (Lemma1), what is left of
   it when the first loop is over (Survivor) and what the second loop has counted
   (MatchesCounted). *)

CONSTANTS Value, MaxLength

VARIABLES data, End, it, candidate, confidence, nmatches, found, at

Majority == INSTANCE Majority WITH result <- found, pc <- at

\* The guess is a place that was visited, or there was none.
MajorityGuess ==
  /\ at = "scan" => IF it = 0 THEN candidate = End /\ confidence = 0 ELSE candidate < it
  /\ at # "scan" => IF End = 0 THEN candidate = End ELSE candidate < End
  /\ at = "scan" => confidence <= it

\* After the first loop no value but the guess can be the majority element.
Survivor ==
  at # "scan" =>
    \A v \in Value : (candidate # End /\ data[candidate] = v) \/ 2 * Majority!Occurrences(v, End) <= End

MatchesCounted ==
  /\ at = "scan" => nmatches = 0
  /\ at \in {"confirm", "done"} =>
       nmatches = IF candidate = End THEN 0 ELSE Majority!Occurrences(data[candidate], it)
  /\ at = "done" => it = End

AnswerDecided == at = "done" => found = IF End \div 2 < nmatches THEN candidate ELSE End

MajorityKept == Majority!TypeOK /\ MajorityGuess /\ Majority!Lemma1 /\ Survivor /\ MatchesCounted /\ AnswerDecided

\* The operator that the instance brings along.
LEMMA MajorityCounts ==
  ASSUME NEW S
  PROVE  Majority!Cardinality(S) = Cardinality(S)
BY DEF Majority!Cardinality, Cardinality

LEMMA OccurrencesNat ==
  ASSUME NEW v, NEW k \in Nat
  PROVE  Majority!Occurrences(v, k) \in Nat /\ Majority!Occurrences(v, k) <= k
<1> DEFINE S == {p \in 0..(k - 1) : data[p] = v}
<1>1. IsFiniteSet(0..(k - 1)) /\ Cardinality(0..(k - 1)) = k
  BY FS_Interval
<1>2. S \subseteq 0..(k - 1)
  OBVIOUS
<1>3. IsFiniteSet(S) /\ Cardinality(S) <= Cardinality(0..(k - 1))
  BY <1>1, <1>2, FS_Subset, ZenonT(30)
<1>4. Cardinality(S) \in Nat
  BY <1>3, FS_CardinalityType
<1>5. Majority!Cardinality(S) = Cardinality(S)
  BY MajorityCounts
<1> QED
  BY <1>1, <1>3, <1>4, <1>5 DEF Majority!Occurrences

LEMMA OccurrencesNone ==
  ASSUME NEW v
  PROVE  Majority!Occurrences(v, 0) = 0
BY OccurrencesNat

LEMMA OccurrencesStep ==
  ASSUME NEW v, NEW k \in Nat
  PROVE  Majority!Occurrences(v, k + 1) = IF data[k] = v THEN Majority!Occurrences(v, k) + 1 ELSE Majority!Occurrences(v, k)
<1> DEFINE S == {p \in 0..(k - 1) : data[p] = v}
           T == {p \in 0..((k + 1) - 1) : data[p] = v}
<1>1. IsFiniteSet(0..(k - 1))
  BY FS_Interval
<1>2. IsFiniteSet(S)
  BY <1>1, FS_Subset
<1>3. CASE data[k] = v
  <2>1. T = S \cup {k} /\ k \notin S
    BY <1>3
  <2>2. Cardinality(T) = Cardinality(S) + 1
    BY <1>2, <2>1, FS_AddElement
  <2>3. /\ Cardinality(S) \in Nat
        /\ Majority!Cardinality(S) = Cardinality(S) /\ Majority!Cardinality(T) = Cardinality(T)
    BY <1>2, FS_CardinalityType, MajorityCounts
  <2> QED
    BY <1>3, <2>2, <2>3 DEF Majority!Occurrences
<1>4. CASE data[k] # v
  <2>1. T = S
    BY <1>4
  <2> QED
    BY <1>4, <2>1 DEF Majority!Occurrences
<1> QED
  BY <1>3, <1>4

LEMMA MajorityInit == Majority!Init => MajorityKept
<1> SUFFICES ASSUME Majority!Init PROVE MajorityKept
  OBVIOUS
<1>1. Majority!TypeOK /\ MajorityGuess /\ Survivor /\ MatchesCounted /\ AnswerDecided
  BY DEF Majority!Init, Majority!TypeOK, MajorityGuess, Survivor, MatchesCounted, AnswerDecided
<1>2. Majority!Lemma1
  BY OccurrencesNone DEF Majority!Init, Majority!Lemma1
<1> QED
  BY <1>1, <1>2 DEF MajorityKept

LEMMA MajorityScan ==
  ASSUME MajorityKept, Majority!Scan, UNCHANGED <<data, End>>
  PROVE  MajorityKept'
<1> USE DEF MajorityKept
<1>1. Majority!TypeOK' /\ MajorityGuess'
  BY DEF Majority!TypeOK, MajorityGuess, Majority!Scan
<1>2. Survivor' /\ MatchesCounted' /\ AnswerDecided'
  BY DEF Majority!TypeOK, Majority!Scan, Survivor, MatchesCounted, AnswerDecided
<1>3. Majority!Lemma1'
  <2> SUFFICES ASSUME NEW v \in Value
               PROVE  2 * Majority!Occurrences(v, it + 1) <=
                        IF candidate' # End /\ data[candidate'] = v
                        THEN it + 1 + confidence' ELSE it + 1 - confidence'
    BY DEF Majority!Scan, Majority!Lemma1, Majority!Occurrences, Majority!TypeOK
  <2> DEFINE c == Majority!Occurrences(v, it)
  <2>1. it \in Nat /\ it < End /\ End \in Nat /\ confidence \in Nat /\ candidate \in Nat
    BY DEF Majority!TypeOK, Majority!Scan
  <2>2. c \in Nat
    BY <2>1, OccurrencesNat
  <2>3. Majority!Occurrences(v, it + 1) = IF data[it] = v THEN c + 1 ELSE c
    BY <2>1, OccurrencesStep
  <2>4. 2 * c <= IF candidate # End /\ data[candidate] = v THEN it + confidence ELSE it - confidence
    BY DEF Majority!Lemma1, Majority!Scan
  <2>5. confidence # 0 => candidate # End
    BY <2>1 DEF MajorityGuess, Majority!Scan
  <2>6. IF confidence = 0 THEN candidate' = it /\ confidence' = 1
        ELSE /\ candidate' = candidate
             /\ confidence' = IF data[candidate] = data[it] THEN confidence + 1 ELSE confidence - 1
    BY DEF Majority!Scan
  <2> HIDE DEF c
  <2> QED
    BY <2>1, <2>2, <2>3, <2>4, <2>5, <2>6
<1> QED
  BY <1>1, <1>2, <1>3

LEMMA MajorityRewind ==
  ASSUME MajorityKept, Majority!Rewind, UNCHANGED <<data, End>>
  PROVE  MajorityKept'
<1> USE DEF MajorityKept
<1>1. Majority!TypeOK' /\ MajorityGuess'
  BY DEF Majority!TypeOK, MajorityGuess, Majority!Rewind
<1>2. Majority!Lemma1' /\ AnswerDecided'
  BY DEF Majority!Rewind, Majority!Lemma1, AnswerDecided
<1>3. Survivor'
  <2> SUFFICES ASSUME NEW v \in Value
               PROVE  (candidate # End /\ data[candidate] = v) \/ 2 * Majority!Occurrences(v, End) <= End
    BY DEF Majority!Rewind, Survivor, Majority!Occurrences
  <2>1. Majority!Occurrences(v, End) \in Nat /\ End \in Nat /\ confidence \in Nat
    BY OccurrencesNat DEF Majority!TypeOK
  <2>2. 2 * Majority!Occurrences(v, End) <=
          IF candidate # End /\ data[candidate] = v THEN End + confidence ELSE End - confidence
    BY DEF Majority!Rewind, Majority!Lemma1
  <2> QED
    BY <2>1, <2>2
<1>4. MatchesCounted'
  <2>1. Majority!Occurrences(data[candidate], 0) = 0
    BY OccurrencesNone
  <2> QED
    BY <2>1 DEF Majority!Rewind, MatchesCounted, Majority!Occurrences
<1> QED
  BY <1>1, <1>2, <1>3, <1>4

LEMMA MajorityConfirm ==
  ASSUME MajorityKept, Majority!Confirm, UNCHANGED <<data, End>>
  PROVE  MajorityKept'
<1> USE DEF MajorityKept
<1>1. candidate < End /\ candidate' = candidate /\ it \in Nat /\ it < End
  BY DEF Majority!Confirm, MajorityGuess, Majority!TypeOK
<1>2. nmatches = Majority!Occurrences(data[candidate], it) /\ candidate # End
  BY <1>1 DEF MatchesCounted, Majority!Confirm, Majority!TypeOK
<1>3. nmatches' = Majority!Occurrences(data[candidate], it + 1)
  BY <1>1, <1>2, OccurrencesStep DEF Majority!Confirm
<1>4. Majority!Occurrences(data[candidate], it + 1) \in 0..(it + 1)
  BY <1>1, OccurrencesNat
<1>5. Majority!TypeOK' /\ MajorityGuess'
  BY <1>1, <1>3, <1>4 DEF Majority!TypeOK, MajorityGuess, Majority!Confirm
<1>6. Majority!Lemma1' /\ AnswerDecided' /\ Survivor'
  BY DEF Majority!Confirm, Majority!Lemma1, AnswerDecided, Survivor, Majority!Occurrences
<1>7. MatchesCounted'
  <2>1. at' = "confirm" /\ it' = it + 1 /\ data' = data /\ End' = End
    BY DEF Majority!Confirm
  <2>2. Majority!Occurrences(data[candidate], it)' = Majority!Occurrences(data[candidate], it + 1)
    BY <1>1, <2>1 DEF Majority!Occurrences
  <2> QED
    BY <1>1, <1>2, <1>3, <2>1, <2>2 DEF MatchesCounted
<1> QED
  BY <1>5, <1>6, <1>7

LEMMA MajorityAnswer ==
  ASSUME MajorityKept, Majority!Answer, UNCHANGED <<data, End>>
  PROVE  MajorityKept'
<1> USE DEF MajorityKept
<1>1. Majority!TypeOK' /\ MajorityGuess'
  BY DEF Majority!TypeOK, MajorityGuess, Majority!Answer
<1>2. Majority!Lemma1' /\ AnswerDecided' /\ Survivor'
  BY DEF Majority!Answer, Majority!Lemma1, AnswerDecided, Survivor, Majority!Occurrences
<1>3. MatchesCounted'
  BY DEF Majority!Answer, MatchesCounted, Majority!Occurrences
<1> QED
  BY <1>1, <1>2, <1>3

LEMMA MajorityNext == MajorityKept /\ [Majority!Next]_(Majority!vars) => MajorityKept'
<1> SUFFICES ASSUME MajorityKept, [Majority!Next]_(Majority!vars) PROVE MajorityKept'
  OBVIOUS
<1>1. CASE Majority!Scan /\ UNCHANGED <<data, End>>
  BY <1>1, MajorityScan
<1>2. CASE Majority!Rewind /\ UNCHANGED <<data, End>>
  BY <1>2, MajorityRewind
<1>3. CASE Majority!Confirm /\ UNCHANGED <<data, End>>
  BY <1>3, MajorityConfirm
<1>4. CASE Majority!Answer /\ UNCHANGED <<data, End>>
  BY <1>4, MajorityAnswer
<1>5. CASE UNCHANGED Majority!vars
  BY <1>5 DEF Majority!vars, MajorityKept, Majority!TypeOK, MajorityGuess, Majority!Lemma1, Survivor, MatchesCounted, AnswerDecided, Majority!Occurrences
<1> QED
  BY <1>1, <1>2, <1>3, <1>4, <1>5 DEF Majority!Next

LEMMA MajorityGood == MajorityKept => Majority!MajorityExact
<1> SUFFICES ASSUME MajorityKept, at = "done"
             PROVE  IF \E v \in Value : Majority!IsMajority(v)
                    THEN found # End /\ Majority!IsMajority(data[found])
                    ELSE found = End
  BY DEF Majority!MajorityExact
<1> USE DEF MajorityKept
<1>1. End \in Nat /\ nmatches \in Nat /\ candidate \in 0..End
  BY DEF Majority!TypeOK
<1>2. found = IF 2 * nmatches > End THEN candidate ELSE End
  BY <1>1 DEF AnswerDecided
<1>3. nmatches = IF candidate = End THEN 0 ELSE Majority!Occurrences(data[candidate], End)
  BY DEF MatchesCounted
<1>4. ASSUME NEW v \in Value, Majority!IsMajority(v)
      PROVE  candidate # End /\ data[candidate] = v
  <2>1. Majority!Occurrences(v, End) \in Nat
    BY <1>1, OccurrencesNat
  <2> QED
    BY <1>1, <1>4, <2>1 DEF Survivor, Majority!IsMajority
<1>5. CASE \E v \in Value : Majority!IsMajority(v)
  <2>1. PICK v \in Value : Majority!IsMajority(v)
    BY <1>5
  <2>2. candidate # End /\ data[candidate] = v
    BY <1>4, <2>1
  <2>3. 2 * nmatches > End
    BY <1>3, <2>1, <2>2 DEF Majority!IsMajority
  <2> QED
    BY <1>2, <1>5, <2>1, <2>2, <2>3
<1>6. CASE ~ \E v \in Value : Majority!IsMajority(v)
  <2>1. CASE candidate = End
    BY <1>2, <1>6, <2>1
  <2>2. CASE candidate # End
    <3>1. data[candidate] \in Value
      BY <1>1, <2>2 DEF Majority!TypeOK
    <3>2. ~ (2 * nmatches > End)
      BY <1>3, <1>6, <2>2, <3>1 DEF Majority!IsMajority
    <3> QED
      BY <1>2, <1>6, <3>2
  <2> QED
    BY <2>1, <2>2
<1> QED
  BY <1>5, <1>6

-----------------------------------------------------------------------------
\* The variables stay within their types: the cursor does not pass the end, and the
\* unsigned count of the guess does not go below zero.
THEOREM MajorityTypes == Majority!Spec => []Majority!TypeOK
<1>1. MajorityKept => Majority!TypeOK
  BY DEF MajorityKept
<1> QED
  BY <1>1, MajorityInit, MajorityNext, PTL DEF Majority!Spec

\* The lemma that the header of the source states, after every step of the scan.
THEOREM HeaderLemma == Majority!Spec => []Majority!Lemma1
<1>1. MajorityKept => Majority!Lemma1
  BY DEF MajorityKept
<1> QED
  BY <1>1, MajorityInit, MajorityNext, PTL DEF Majority!Spec

\* The call returns a majority element when there is one, and else the end.
THEOREM MajorityCorrect == Majority!Spec => []Majority!MajorityExact
BY MajorityInit, MajorityNext, MajorityGood, PTL DEF Majority!Spec
=============================================================================
