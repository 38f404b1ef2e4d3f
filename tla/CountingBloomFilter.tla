------------------------ MODULE CountingBloomFilter ------------------------
(***************************************************************************)
(* counting_bloom_filter of src/stlext/bfc/counting_bloom_filter.hpp: a    *)
(* row of narrow counters; inserting a key counts up each of its cells,    *)
(* erasing it counts down those that are not zero, and the number of       *)
(* occurrences of a key is the least of its cells.                         *)
(***************************************************************************)
EXTENDS Integers, FiniteSetsExt, SequencesExt

CONSTANTS
  Key,      \* the keys
  Cells(_, _), \* the cells of a key in so many, in order; one may come up twice
  Capacity, \* the number of cells
  CellMod,  \* 2^8: a cell is a uint8_t
  MaxSize   \* bound on the number of insertions

VARIABLES
  storage, \* __m_storage
  size,    \* __m_size
  net,     \* insertions less erasures of each key, an observer
  exact    \* no counter has wrapped and no absent key been erased, an observer

vars == <<storage, size, net, exact>>

Cell == 0..(Capacity - 1)

-----------------------------------------------------------------------------
Zeros == [c \in Cell |-> 0]

Init ==
  /\ storage = Zeros
  /\ size = 0
  /\ net = [k \in Key |-> 0]
  /\ exact = TRUE

\* A slip: a repeated cell is counted up only once.
CountedUpOnce(k) ==
  [c \in Cell |-> IF c \in ToSet(Cells(k, Capacity)) THEN (storage[c] + 1) % CellMod ELSE storage[c]]

\* The cells are visited one after the other, a repeated one each time.
CountedUp(k) ==
  FoldLeft(LAMBDA s, c : [s EXCEPT ![c] = (@ + 1) % CellMod], storage, Cells(k, Capacity))

CountedDown(k) ==
  FoldLeft(LAMBDA s, c : IF s[c] > 0 THEN [s EXCEPT ![c] = @ - 1] ELSE s,
           storage, Cells(k, Capacity))

\* What erase() takes off the size: it starts its minimum at zero, so that the
\* minimum is zero whatever the cells hold.
Erased(k) ==
  LET least == FoldLeft(LAMBDA m, c : IF storage[c] > 0 THEN Min({storage[c], m}) ELSE m,
                        0, Cells(k, Capacity))
  IN  IF least > 0 THEN 1 ELSE 0

Count(k) == Min({storage[c] : c \in ToSet(Cells(k, Capacity))})

\* How often a cell comes up for a key.
Times(k, c) == Cardinality({i \in DOMAIN Cells(k, Capacity) : Cells(k, Capacity)[i] = c})

\* What insertions and erasures leave in a cell.
Load(c) ==
  LET part == [k \in Key |-> net[k] * Times(k, c)]
  IN  MapThenSumSet(LAMBDA k : part[k], Key)

-----------------------------------------------------------------------------
Insert(k) ==
  /\ size < MaxSize
  /\ storage' = CountedUp(k)
  /\ size' = size + 1
  /\ net' = [net EXCEPT ![k] = @ + 1]
  /\ exact' = (exact /\ \A c \in Cell : storage[c] + Times(k, c) < CellMod)

Erase(k) ==
  /\ storage' = CountedDown(k)
  /\ size' = size - Erased(k)
  /\ net' = [net EXCEPT ![k] = Max({0, @ - 1})]
  /\ exact' = (exact /\ net[k] > 0)

Clear ==
  /\ storage' = Zeros
  /\ size' = 0
  /\ net' = [k \in Key |-> 0]
  /\ exact' = TRUE

Next == Clear \/ \E k \in Key : Insert(k) \/ Erase(k)

Spec == Init /\ [][Next]_vars

-----------------------------------------------------------------------------
(* Properties *)

\* As long as no counter wraps and only members are erased, erase() undoes
\* insert() exactly, whatever the order, and however keys share cells.
StorageExact == exact => \A c \in Cell : storage[c] = Load(c)

\* Under the same condition no member is missed: count() is never less than the
\* number of times a key was inserted and not erased.
NoFalseNegatives == exact => \A k \in Key : Count(k) >= net[k]

\* Erasing never makes a cell grow, not even for keys that were never inserted:
\* a counter at zero stays there instead of wrapping round.
ErasureOnlyLowers ==
  (\E k \in Key : Erase(k)) => \A c \in Cell : storage'[c] <= storage[c]
=============================================================================
