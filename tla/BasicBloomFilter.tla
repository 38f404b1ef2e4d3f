-------------------------- MODULE BasicBloomFilter --------------------------
(***************************************************************************)
(* basic_bloom_filter of src/stlext/bfc/basic_bloom_filter.hpp: several    *)
(* filters, each a row of bits of which a key sets its cells, that may be  *)
(* united with and intersected with one another.  A filter is modelled by  *)
(* the set of its bits that are set.                                       *)
(***************************************************************************)
EXTENDS Naturals, Functions

CONSTANTS
  Key,        \* the keys
  Cells(_, _), \* the cells of a key in so many, in order; one may come up twice
  Filter,     \* the filters
  Capacity,   \* the number of bits of each
  Assertions, \* is __stdx_assert compiled in, as in debug builds?
  MaxSize     \* bound on the number of insertions into a filter

VARIABLES
  storage, \* __m_storage
  size,    \* __m_size
  members, \* the keys each filter has been given, an observer
  taken,   \* the keys whose bits it may hold, an observer
  refused  \* did the last operation throw std::logic_error? an observer

vars == <<storage, size, members, taken, refused>>

CellSet(k, f) == Range(Cells(k, Capacity[f]))

-----------------------------------------------------------------------------
Init ==
  /\ storage = [f \in Filter |-> {}]
  /\ size = [f \in Filter |-> 0]
  /\ members = [f \in Filter |-> {}]
  /\ taken = [f \in Filter |-> {}]
  /\ refused = FALSE

Insert(f, k) ==
  /\ size[f] < MaxSize
  /\ storage' = [storage EXCEPT ![f] = @ \union CellSet(k, f)]
  /\ size' = [size EXCEPT ![f] = @ + 1]
  /\ members' = [members EXCEPT ![f] = @ \union {k}]
  /\ taken' = [taken EXCEPT ![f] = @ \union {k}]
  /\ refused' = FALSE

\* count(): stops at the first cell that is not set.
Count(f, k) == IF CellSet(k, f) \subseteq storage[f] THEN 1 ELSE 0

Clear(f) ==
  /\ storage' = [storage EXCEPT ![f] = {}]
  /\ size' = [size EXCEPT ![f] = 0]
  /\ members' = [members EXCEPT ![f] = {}]
  /\ taken' = [taken EXCEPT ![f] = {}]
  /\ refused' = FALSE

\* The assertion of an operator throws before anything is changed.
Refuse == refused' = TRUE /\ UNCHANGED <<storage, size, members, taken>>

\* operator|= and operator&=; operator| and operator& are these on a copy.  The
\* size is left alone.  Without assertions the bit vectors themselves decide
\* what happens to filters of different capacities: clients do not do that.
Unite(f, g) ==
  IF Assertions /\ Capacity[f] # Capacity[g] THEN Refuse
  ELSE /\ Capacity[f] = Capacity[g]
       /\ storage' = [storage EXCEPT ![f] = @ \union storage[g]]
       /\ members' = [members EXCEPT ![f] = @ \union members[g]]
       /\ taken' = [taken EXCEPT ![f] = @ \union taken[g]]
       /\ refused' = FALSE
       /\ UNCHANGED size

\* The assertion asks for different capacities.
Intersect(f, g) ==
  IF Assertions /\ Capacity[f] = Capacity[g] THEN Refuse
  ELSE /\ Capacity[f] = Capacity[g]
       /\ storage' = [storage EXCEPT ![f] = @ \intersect storage[g]]
       /\ members' = [members EXCEPT ![f] = @ \intersect members[g]]
       /\ refused' = FALSE
       /\ UNCHANGED <<size, taken>>

Next ==
  \/ \E f \in Filter : Clear(f) \/ \E k \in Key : Insert(f, k)
  \/ \E f, g \in Filter : Unite(f, g) \/ Intersect(f, g)

Spec == Init /\ [][Next]_vars

-----------------------------------------------------------------------------
(* Properties *)

\* No member is missed, through any mixture of insertions, unions and
\* intersections: an intersection keeps every key that both filters were given.
NoFalseNegatives == \A f \in Filter : \A k \in members[f] : Count(f, k) = 1

\* A false positive comes from keys that filter itself has taken over since it
\* was cleared: no bit is set without such a key, whatever the other filters hold.
BitsJustified ==
  \A f \in Filter : storage[f] \subseteq UNION {CellSet(k, f) : k \in taken[f]}
=============================================================================
