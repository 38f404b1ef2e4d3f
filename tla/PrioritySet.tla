----------------------------- MODULE PrioritySet -----------------------------
(***************************************************************************)
(* priority_set of src/stlext/containers/priority_map.hpp: a multiset of   *)
(* nodes ordered by priority, and a hash table from pointers to the keys   *)
(* inside the nodes to iterators of the multiset.  A new priority replaces *)
(* the node of a key by another one, while the table's entry still points  *)
(* into the node that was freed.                                           *)
(*                                                                         *)
(* Nodes live at addresses.  The table keeps the hash code of each entry   *)
(* (as libstdc++ does for a hasher that may throw), and compares keys only *)
(* behind equal codes; comparing a key in a freed node gives any result.   *)
(* The allocator is a parameter: a new node may be at any free address,    *)
(* that of the node it replaces included.                                  *)
(***************************************************************************)
EXTENDS Naturals, Sequences, FiniteSets, SequencesExt

CONSTANTS
  Key,
  Priority,
  Address,  \* of the blocks the allocator has for nodes
  Hash      \* the hash code of each key

VARIABLES
  heap,      \* what is at each address
  nodes,     \* __m_nodes: the addresses of its nodes, in order
  lookup,    \* __m_lookup: entries of a key pointer, an iterator and a hash code
  undefined, \* has a freed node been used?
  moved      \* since the last clear(), has a key's new node been at another address?

vars == <<heap, nodes, lookup, undefined, moved>>

Free == [key |-> "free"]
Missing == [hash |-> "none"]

Live(a) == heap[a] # Free

-----------------------------------------------------------------------------
Init ==
  /\ heap = [a \in Address |-> Free]
  /\ nodes = <<>>
  /\ lookup = {}
  /\ undefined = FALSE
  /\ moved = FALSE

\* The entries that a search for k may return: it compares the keys behind the
\* entries that have k's hash code, one after the other.
Found(h, k) ==
  LET Code     == {e \in lookup : e.hash = Hash[k]}
      Equal    == {e \in Code : h[e.ptr] # Free /\ h[e.ptr].key = k}
      Dangling == {e \in Code : h[e.ptr] = Free}
  IN  Equal \union Dangling \union (IF Equal = {} THEN {Missing} ELSE {})

\* __m_lookup[key_pointer(*it)] = it, for the node of k at address a.
Enter(h, k, a) ==
  \E e \in Found(h, k) :
    lookup' = IF e = Missing
              THEN lookup \union {[ptr |-> a, node |-> a, hash |-> Hash[k]]}
              ELSE (lookup \ {e}) \union {[e EXCEPT !.node = a]}

\* The nodes without the one at a.
Without(a) == RemoveAt(nodes, CHOOSE i \in DOMAIN nodes : nodes[i] = a)

\* A slip: a node goes before the others of its priority.
PlacedFirst(h, order, a) ==
  InsertAt(order, Cardinality({i \in DOMAIN order : h[order[i]].priority < h[a].priority}) + 1, a)

\* emplace() into the multiset: behind the nodes that are not greater.
Placed(h, order, a) ==
  InsertAt(order, Cardinality({i \in DOMAIN order : h[order[i]].priority <= h[a].priority}) + 1, a)

\* A new node for a new key.
Create(k, p) ==
  \E a \in {b \in Address : ~Live(b)} :
    LET h == [heap EXCEPT ![a] = [key |-> k, priority |-> p]]
    IN  /\ heap' = h
        /\ nodes' = Placed(h, nodes, a)
        /\ Enter(h, k, a)
        /\ UNCHANGED <<undefined, moved>>

Undefined == undefined' = TRUE /\ UNCHANGED <<heap, nodes, lookup, moved>>

\* The node of an entry is erased and a copy with the new priority emplaced.
Replace(e, p) ==
  IF ~Live(e.node) THEN Undefined
  ELSE IF heap[e.node].priority = p THEN UNCHANGED vars
  ELSE \E a \in {b \in Address : ~Live(b)} \union {e.node} :
         LET k == heap[e.node].key
             h == [heap EXCEPT ![e.node] = Free, ![a] = [key |-> k, priority |-> p]]
         IN  /\ heap' = h
             /\ nodes' = Placed(h, Without(e.node), a)
             /\ Enter(h, k, a)
             /\ moved' = (moved \/ a # e.node)
             /\ UNCHANGED undefined

-----------------------------------------------------------------------------
Insert(k, p) == \E e \in Found(heap, k) : IF e = Missing THEN Create(k, p) ELSE Replace(e, p)

Update(k, p) == \E e \in Found(heap, k) \ {Missing} : Replace(e, p)

Deleted(a) ==
  /\ heap' = [heap EXCEPT ![a] = Free]
  /\ nodes' = Without(a)

\* A slip: the node is erased and its entry left behind.
EraseNode(k) ==
  \E e \in Found(heap, k) \ {Missing} :
    IF Live(e.node) THEN Deleted(e.node) /\ UNCHANGED <<lookup, undefined, moved>> ELSE Undefined

Erase(k) ==
  \E e \in Found(heap, k) \ {Missing} :
    IF Live(e.node) THEN Deleted(e.node) /\ lookup' = lookup \ {e} /\ UNCHANGED <<undefined, moved>>
    ELSE Undefined

\* The entry is erased by the key of the node, then the node.
Pop(a) ==
  \E e \in Found(heap, heap[a].key) :
    /\ lookup' = lookup \ {e}
    /\ Deleted(a)
    /\ UNCHANGED <<undefined, moved>>

PopFront == nodes # <<>> /\ Pop(Head(nodes))

PopBack == nodes # <<>> /\ Pop(Last(nodes))

Clear ==
  /\ heap' = [a \in Address |-> Free]
  /\ nodes' = <<>>
  /\ lookup' = {}
  /\ moved' = FALSE
  /\ UNCHANGED undefined

\* Nothing is said of a program that has used a freed node.
Next ==
  /\ ~undefined
  /\ \/ \E k \in Key : Erase(k) \/ \E p \in Priority : Insert(k, p) \/ Update(k, p)
     \/ PopFront \/ PopBack \/ Clear

Spec == Init /\ [][Next]_vars

-----------------------------------------------------------------------------
(* Properties *)

\* Every entry of the table points into a live node and is that node's; every node has its
\* entry, by its own key: "insert into lookup" (priority_map.hpp:294).
LookupExact ==
  lookup = {[ptr |-> a, node |-> a, hash |-> Hash[heap[a].key]] : a \in ToSet(nodes)}

\* After any mixture of calls the two containers agree, and with them find(), and no freed
\* node has been used; until the allocator puts the new node of a key whose priority changes
\* at another address than the old one, where clear() alone makes things good again.
LookupKept == ~moved => LookupExact /\ ~undefined

Queue == INSTANCE PriorityQueue WITH queue <- [i \in DOMAIN nodes |-> heap[nodes[i]]]

\* Until then each call does what it does to a queue of distinct keys.
CallsKept == ~moved' => Queue!Next
=============================================================================
