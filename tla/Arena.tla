-------------------------------- MODULE Arena --------------------------------
(***************************************************************************)
(* What every arena of src/stlext/allocators promises its clients: the     *)
(* blocks it has handed out and not been given back do not overlap, and    *)
(* stay what they are until then.  A block is a record of the cells it     *)
(* covers and of the size that was asked for; an arena may refuse.         *)
(***************************************************************************)
EXTENDS FiniteSets

CONSTANTS
  Cell, \* the memory that blocks are made of
  Bytes \* the sizes that clients ask for

VARIABLE blocks  \* the blocks in use

Init == blocks = {}

Allocate ==
  \E b \in blocks' \ blocks :
    /\ b.cells # {} /\ b.cells \subseteq Cell
    /\ b.size \in Bytes
    /\ \A c \in blocks : b.cells \intersect c.cells = {}
    /\ blocks' = blocks \union {b}

Deallocate == \E b \in blocks : blocks' = blocks \ {b}

\* A call that changes nothing is a step as well.
Next == Allocate \/ Deallocate \/ UNCHANGED blocks

Spec == Init /\ [][Next]_blocks
=============================================================================
