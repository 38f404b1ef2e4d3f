----------------------------- MODULE BinexpArena -----------------------------
(***************************************************************************)
(* binexp_arena of src/stlext/allocators/binexp_arena.hpp, with the free   *)
(* lists of freelist.hpp: blocks are rounded up to a power of two and kept *)
(* in bins, one for each power, when they are given back; the target arena *)
(* makes new ones, and takes those that are too small to be linked, too    *)
(* large for a bin, or more than a bin holds.                              *)
(***************************************************************************)
EXTENDS Naturals, Sequences, FiniteSetsExt, SequencesExt

CONSTANTS
  Address,  \* of the blocks that the target arena can make
  Request,  \* the sizes that clients ask for
  LinkSize, \* sizeof(void*): a free block holds a link
  BinCount, \* BINCOUNT
  MaxSizes  \* for _MaxSize: how many blocks a bin holds, or 0 for any number

VARIABLES
  bins,   \* __m_bins, each a list of addresses, the head first
  target, \* the size of each block that the target arena has in use, or 0
  live,   \* the size that clients have asked for at each address, or 0
  open,   \* has the arena not been destroyed yet?
  max     \* _MaxSize of this arena

vars == <<bins, target, live, open, max>>

Bin == 0..(BinCount - 1)

\* 64 - __clz(n): one more than the position of the highest bit of n.
Index(n) == CHOOSE i \in 0..n : 2^i > n /\ \A j \in 0..(i - 1) : 2^j <= n

\* Is a request passed on to the target arena as it is?
Direct(n) == Index(n) >= BinCount \/ n < LinkSize

-----------------------------------------------------------------------------
Init ==
  /\ bins = [i \in Bin |-> <<>>]
  /\ target = [a \in Address |-> 0]
  /\ live = [a \in Address |-> 0]
  /\ open = TRUE
  /\ max \in MaxSizes

\* The target arena makes a block of n bytes, or none and nothing changes.
TargetAllocate(a, n) == target[a] = 0 /\ target' = [target EXCEPT ![a] = n]

\* The target arena is given a block back, with the size it had.
TargetDeallocate(a) == target' = [target EXCEPT ![a] = 0]

BlockSize(n) == IF Direct(n) THEN n ELSE 2 ^ Index(n)

Allocate(n) ==
  /\ open
  /\ \E a \in Address :
       /\ live' = [live EXCEPT ![a] = n]
       /\ IF ~Direct(n) /\ bins[Index(n)] # <<>>
          THEN /\ a = Head(bins[Index(n)])
               /\ bins' = [bins EXCEPT ![Index(n)] = Tail(@)]
               /\ UNCHANGED target
          ELSE TargetAllocate(a, BlockSize(n)) /\ UNCHANGED bins
  /\ UNCHANGED <<open, max>>

\* freelist::full; the list without a maximum is a specialisation of its own.
Full(i) == max > 0 /\ max <= Len(bins[i])

\* A slip: a block that does not fit into its bin is both linked and returned.
DeallocateBoth(a) ==
  LET n == live[a] IN
  /\ open /\ n > 0
  /\ live' = [live EXCEPT ![a] = 0]
  /\ IF Direct(n) THEN TargetDeallocate(a) /\ UNCHANGED bins
     ELSE /\ bins' = [bins EXCEPT ![Index(n)] = <<a>> \o @]
          /\ IF Full(Index(n)) THEN TargetDeallocate(a) ELSE UNCHANGED target
  /\ UNCHANGED <<open, max>>

\* The client gives back a block with the size it asked for.
Deallocate(a) ==
  LET n == live[a] IN
  /\ open /\ n > 0
  /\ live' = [live EXCEPT ![a] = 0]
  /\ IF Direct(n) \/ Full(Index(n))
     THEN TargetDeallocate(a) /\ UNCHANGED bins
     ELSE bins' = [bins EXCEPT ![Index(n)] = <<a>> \o @] /\ UNCHANGED target
  /\ UNCHANGED <<open, max>>

\* The destructor empties every bin into the target arena.
Dispose ==
  /\ open
  /\ open' = FALSE
  /\ target' = [a \in Address |-> IF \E i \in Bin : a \in ToSet(bins[i]) THEN 0 ELSE target[a]]
  /\ bins' = [i \in Bin |-> <<>>]
  /\ UNCHANGED <<live, max>>

Next ==
  \/ \E n \in Request : Allocate(n)
  \/ \E a \in Address : Deallocate(a)
  \/ Dispose

Spec == Init /\ [][Next]_vars

-----------------------------------------------------------------------------
(* Properties *)

Binned == UNION {ToSet(bins[i]) : i \in Bin}

\* No bin is longer than its maximum.
BinsBounded == max > 0 => \A i \in Bin : Len(bins[i]) <= max

\* A block is in one place: in use, in one bin, once, or with the target arena;
\* no sequence of requests hands one out twice or loses one.
OnePlace ==
  /\ \A i \in Bin : IsInjective(bins[i])
  /\ \A i, j \in Bin : i # j => ToSet(bins[i]) \intersect ToSet(bins[j]) = {}
  /\ \A a \in Address : target[a] > 0 <=> (live[a] > 0 \/ a \in Binned)
  /\ \A a \in Binned : live[a] = 0

\* A block is as large as the target arena made it: large enough for whoever has
\* it, and of exactly the size with which deallocate() and the destructor will
\* give it back.
SizesAgree ==
  /\ \A a \in Address : live[a] > 0 => live[a] <= target[a] /\ target[a] = BlockSize(live[a])
  /\ \A i \in Bin : \A a \in ToSet(bins[i]) : target[a] = 2 ^ i /\ LinkSize <= 2 ^ i

\* Once the arena is destroyed the target arena has in use only what clients
\* still have.
DisposeReturnsAll == ~open => \A a \in Address : target[a] > 0 => live[a] > 0

Promise == INSTANCE Arena WITH
             Cell <- Address,
             Bytes <- Request,
             blocks <- {[cells |-> {a}, size |-> live[a]] : a \in {b \in Address : live[b] > 0}}
=============================================================================
