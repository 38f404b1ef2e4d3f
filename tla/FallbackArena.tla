---------------------------- MODULE FallbackArena ----------------------------
(***************************************************************************)
(* fallback_arena of src/stlext/allocators/fallback_arena.hpp in the       *)
(* composition it is written for: an ordered_arena (ordered_arena.hpp,     *)
(* memory_storage.hpp), which moves a boundary through a storage of fixed  *)
(* size, and the heap (heap_arena.hpp) for what does not fit.              *)
(***************************************************************************)
EXTENDS Naturals, FiniteSetsExt

CONSTANTS
  Size,    \* of the storage, in bytes
  Heap,    \* addresses of blocks that the heap can make
  Request  \* the sizes that clients ask for

VARIABLES
  boundary, \* __m_free_block, as a distance from the storage's begin
  heap,     \* the addresses the heap has in use
  live      \* the size of the block that a client has at each address, or 0

vars == <<boundary, heap, live>>

Storage == 0..(Size - 1)
Address == Storage \union Heap
InUse == {a \in Address : live[a] > 0}

Init ==
  /\ boundary = 0
  /\ heap = {}
  /\ live = [a \in Address |-> 0]

\* The test of ordered_arena::allocate.
Fits(n) == n <= Size - boundary

OrderedAllocate(n) ==
  /\ Fits(n)
  /\ live' = [live EXCEPT ![boundary] = n]
  /\ boundary' = boundary + n
  /\ UNCHANGED heap

\* The heap may be exhausted; then the call returns null and nothing changes.
HeapAllocate(n) ==
  /\ \E a \in Heap \ heap :
       /\ heap' = heap \union {a}
       /\ live' = [live EXCEPT ![a] = n]
  /\ UNCHANGED boundary

\* reallocate() is the same with newdel_arena as the heap: neither arena looks at
\* the old block.
Allocate(n) == OrderedAllocate(n) \/ (~Fits(n) /\ HeapAllocate(n))

\* Blocks of the storage are given back in the reverse of the order in which they
\* were made, as the class is named for: the arena does not check.
MayRelease(a) == live[a] > 0 /\ (a \in Storage => a = Max(InUse \intersect Storage))

\* memory_storage_base::contains
Contains(a) == a \in Storage

Deallocate(a) ==
  /\ MayRelease(a)
  /\ IF Contains(a)
     THEN boundary' = boundary - live[a] /\ UNCHANGED heap
     ELSE heap' = heap \ {a} /\ UNCHANGED boundary
  /\ live' = [live EXCEPT ![a] = 0]

Next ==
  \/ \E n \in Request : Allocate(n)
  \/ \E a \in Address : Deallocate(a)

Spec == Init /\ [][Next]_vars

-----------------------------------------------------------------------------
(* Properties *)

\* The two arenas have in use exactly what clients have from them: each block
\* goes back to the arena it came from, and the blocks of the storage fill it
\* without gap up to the boundary.
RoutedHome ==
  /\ heap = InUse \intersect Heap
  /\ boundary = MapThenSumSet(LAMBDA a : live[a], InUse \intersect Storage)

\* The heap makes a block only when the storage has no room for it.
HeapOnlyWhenFull == \A a \in heap' \ heap : boundary + live'[a] > Size

Cells(a) == IF a \in Heap THEN {a} ELSE a..(a + live[a] - 1)

Promise == INSTANCE Arena WITH
             Cell <- Address,
             Bytes <- Request,
             blocks <- {[cells |-> Cells(a), size |-> live[a]] : a \in InUse}
=============================================================================
