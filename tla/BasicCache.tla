----------------------------- MODULE BasicCache -----------------------------
(***************************************************************************)
(* basic_cache of src/stlext/containers/cache.hpp and its cachemap front   *)
(* end: a cache bounded by the total cost of its nodes.  A doubly linked   *)
(* list holds the nodes in eviction order, a hash map leads from a key to  *)
(* the node that holds it, and a counter caches the total cost.            *)
(*                                                                         *)
(* The policy class decides at which end of the list a node is placed when *)
(* it is inserted or used; the victim is the last node under both.         *)
(***************************************************************************)
EXTENDS Integers, Sequences, SequencesExt

CONSTANTS
  Key,        \* keys
  Val,        \* mapped values; a cacheset has a single one
  Addr,       \* addresses std::list may give to a node
  MaxCost,    \* __m_maxcost
  Cost,       \* costs callers pass to insert
  DefaultVal, \* mapped_type()
  NoKey,      \* the key of "no element": end()
  Policy      \* "lru" (lru_traits) or "mru" (mru_traits)

ASSUME MaxCostAssumption == MaxCost \in Nat \ {0}
ASSUME CostAssumption    == Cost \subseteq Nat \ {0}
ASSUME ValAssumption     == DefaultVal \in Val
ASSUME KeyAssumption     == NoKey \notin Key
ASSUME PolicyAssumption  == Policy \in {"lru", "mru"}

VARIABLES
  list,     \* __m_list, the nodes from begin() to the victim
  lookup,   \* __m_lookup, a function from the cached keys to node addresses
  cost,     \* __m_cost
  ret,      \* the key of the element the last call gave access to, or NoKey
  spinning  \* the trimming loop of insert runs forever

vars == <<list, lookup, cost, ret, spinning>>

Node == [id : Addr, key : Key, val : Val, cost : Nat \ {0}]

-----------------------------------------------------------------------------
(* The list *)

\* PrefixCost(l)[n] is the total cost of the first n nodes of l.
PrefixCost(l) ==
  LET total[n \in 0..Len(l)] ==
        IF n = 0 THEN 0 ELSE total[n - 1] + l[n].cost
  IN  total

\* What __m_cost is meant to hold.
Weight(l) == PrefixCost(l)[Len(l)]

\* The list with nd placed where the policy puts a new or a used node.
AtTop(l, nd) == IF Policy = "lru" THEN <<nd>> \o l ELSE Append(l, nd)

\* A slip: a used node keeps its place.
ReorderNowhere(l, i) == l

\* reorder(it): the i-th node is spliced to the policy's end of the list.
Reorder(l, i) == AtTop(RemoveAt(l, i), l[i])

\* __update_node: the i-th node gets the value and the cost, then is reordered.
UpdateNode(l, i, v, c) ==
  Reorder([l EXCEPT ![i].val = v, ![i].cost = c], i)

\* Addresses that no node of l occupies.
FreeAddr(l) == Addr \ {l[i].id : i \in DOMAIN l}

\* The position in l of the node at address a.
Position(l, a) == CHOOSE i \in DOMAIN l : l[i].id = a

\* A slip: the entry of an erased node is left behind.
ForgetNothing(table, K) == table

\* The lookup table without the keys of K.
Forget(table, K) == [k \in DOMAIN table \ K |-> table[k]]

\* The lookup table with k leading to the node at address a.
Remember(table, k, a) ==
  [x \in DOMAIN table \cup {k} |-> IF x = k THEN a ELSE table[x]]

\* A slip: insert returns the victim's position.
BackKey(l) == IF l = <<>> THEN NoKey ELSE l[Len(l)].key

\* The key of the element begin() refers to.
TopKey(l) == IF l = <<>> THEN NoKey ELSE l[1].key

-----------------------------------------------------------------------------
Init ==
  /\ list = <<>>
  /\ lookup = <<>>
  /\ cost = 0
  /\ ret = NoKey
  /\ spinning = FALSE

\* A slip: clear() leaves the cost as it was, as packed_lru_cache does.
ClearAllButCost ==
  /\ list' = <<>>
  /\ lookup' = <<>>
  /\ cost' = cost

ClearAll ==
  /\ list' = <<>>
  /\ lookup' = <<>>
  /\ cost' = 0

\* insert of an element that can never fit: the cache is emptied and the call
\* returns end().
InsertTooCostly(c) ==
  /\ c > MaxCost
  /\ ClearAll
  /\ ret' = NoKey

\* insert of a cached key with the whole budget: the node is updated, and all
\* nodes but the first one of the list are dropped.
InsertWholeHit(k, v, c) ==
  /\ c = MaxCost
  /\ k \in DOMAIN lookup
  /\ LET front == UpdateNode(list, Position(list, lookup[k]), v, c)[1]
     IN  /\ list' = <<front>>
         /\ lookup' = [x \in {front.key} |-> front.id]
         /\ ret' = front.key
  /\ cost' = c

\* insert of a new key with the whole budget: it replaces everything.
InsertWholeMiss(k, v, c) ==
  /\ c = MaxCost
  /\ k \notin DOMAIN lookup
  /\ \E a \in Addr :
       /\ list' = <<[id |-> a, key |-> k, val |-> v, cost |-> c]>>
       /\ lookup' = [x \in {k} |-> a]
  /\ cost' = c
  /\ ret' = k

\* __m_cost once the loop of insert has evicted all but the first n nodes.
CostAfterTrim(n) == cost - (Weight(list) - PrefixCost(list)[n])

\* A slip: overflow(c) tolerates one unit too many.
FittingOneOver(c) == {n \in 0..Len(list) : c + CostAfterTrim(n) <= MaxCost + 1}

\* The numbers of nodes with which the loop condition overflow(c) is false.
Fitting(c) == {n \in 0..Len(list) : c + CostAfterTrim(n) <= MaxCost}

\* The loop pops victims until the condition is false: it keeps the largest
\* fitting number of nodes.
StopsAt(c, n) == n \in Fitting(c) /\ \A m \in Fitting(c) : m <= n

\* insert with room made first.  Whether the key is cached is decided after
\* trimming, which may have evicted that very key.
InsertTrimmed(k, v, c) ==
  /\ c < MaxCost
  /\ \E n \in 0..Len(list) :
       /\ StopsAt(c, n)
       /\ LET kept  == SubSeq(list, 1, n)
              table == Forget(lookup, {list[i].key : i \in (n + 1)..Len(list)})
          IN  \/ /\ k \in DOMAIN table
                 /\ LET i == Position(kept, table[k])
                    IN  /\ list' = UpdateNode(kept, i, v, c)
                        /\ cost' = CostAfterTrim(n) - kept[i].cost + c
                 /\ lookup' = table
              \/ /\ k \notin DOMAIN table
                 /\ \E a \in FreeAddr(kept) :
                      /\ list' = AtTop(kept, [id |-> a, key |-> k, val |-> v, cost |-> c])
                      /\ lookup' = Remember(table, k, a)
                 /\ cost' = CostAfterTrim(n) + c
  /\ ret' = TopKey(list')

\* With a cost counter that exceeds the nodes' costs the loop ends up popping
\* from an empty list, which changes nothing: it never ends.
InsertSpins(c) ==
  /\ c < MaxCost
  /\ Fitting(c) = {}
  /\ list' = <<>>
  /\ lookup' = <<>>
  /\ cost' = CostAfterTrim(0)
  /\ ret' = NoKey
  /\ spinning' = TRUE

InsertReturns(k, v, c) ==
  /\ \/ InsertTooCostly(c)
     \/ InsertWholeHit(k, v, c)
     \/ InsertWholeMiss(k, v, c)
     \/ InsertTrimmed(k, v, c)
  /\ UNCHANGED spinning

Insert(k, v, c) == InsertReturns(k, v, c) \/ InsertSpins(c)

\* A slip: the node's cost is not given back.
EraseAtUncharged(i) ==
  /\ cost' = cost
  /\ lookup' = Forget(lookup, {list[i].key})
  /\ list' = RemoveAt(list, i)
  /\ ret' = NoKey
  /\ UNCHANGED spinning

\* erase(it) and erase(key) remove the node at position i; where the iterator
\* that erase(it) returns points to is not recorded.
EraseAt(i) ==
  /\ cost' = cost - list[i].cost
  /\ lookup' = Forget(lookup, {list[i].key})
  /\ list' = RemoveAt(list, i)
  /\ ret' = NoKey
  /\ UNCHANGED spinning

\* erase(key); a key that is not cached leaves the cache alone.
Erase(k) == k \in DOMAIN lookup /\ EraseAt(Position(list, lookup[k]))

\* pop(): the victim is erased.
Pop == list # <<>> /\ EraseAt(Len(list))

\* touch(key) on a hit; the node at begin() is left where it is.
Touch(k) ==
  /\ k \in DOMAIN lookup
  /\ LET i == Position(list, lookup[k])
     IN  list' = IF i = 1 THEN list ELSE Reorder(list, i)
  /\ ret' = k
  /\ UNCHANGED <<lookup, cost, spinning>>

\* cachemap::operator[]: a hit is touched, a miss emplaces a default value
\* with cost 1, and the result is what the iterator of either refers to.
Index(k) ==
  \/ Touch(k)
  \/ k \notin DOMAIN lookup /\ Insert(k, DefaultVal, 1)

Clear ==
  /\ ClearAll
  /\ ret' = NoKey
  /\ UNCHANGED spinning

Next ==
  /\ ~spinning
  /\ \/ \E k \in Key, v \in Val, c \in Cost : Insert(k, v, c)
     \/ \E k \in Key : Erase(k)
     \/ Pop
     \/ \E k \in Key : Touch(k)
     \/ \E k \in Key : Index(k)
     \/ Clear

Spec == Init /\ [][Next]_vars

\* An address is only compared with others.
Symmetry == Permutations(Addr)

-----------------------------------------------------------------------------
(* Properties *)

\* Type correctness of the list, the lookup table and the cost counter
\* (the members of cachemap_traits and basic_cache).
TypeOK ==
  /\ list \in Seq(Node)
  /\ DOMAIN lookup \subseteq Key
  /\ \A k \in DOMAIN lookup : lookup[k] \in Addr
  /\ cost \in Nat
  /\ ret \in Key \cup {NoKey}
  /\ spinning \in BOOLEAN

\* No two nodes of the list l share an address.
DistinctNodes(l) == \A i, j \in DOMAIN l : l[i].id = l[j].id => i = j

\* Every node of l is found under its key in the table t.
NodesIndexed(l, t) ==
  \A i \in DOMAIN l : l[i].key \in DOMAIN t /\ t[l[i].key] = l[i].id

\* Every entry of t leads to a node of l that holds the entry's key.
NoDanglingEntry(l, t) ==
  \A k \in DOMAIN t : \E i \in DOMAIN l : l[i].id = t[k] /\ l[i].key = k

\* The list and the table describe the same set of elements.
Linked(l, t) == DistinctNodes(l) /\ NodesIndexed(l, t) /\ NoDanglingEntry(l, t)

\* The two containers of basic_cache describe the same elements: after any mix
\* of evictions, erasures and updates no lookup entry points to a freed node,
\* none is missing and no key is listed twice.
Coherent == Linked(list, lookup)

\* The cost counter, maintained incrementally by insert, erase and pop and
\* overwritten by the whole-budget shortcut, is the sum of the nodes' costs.
CostExact == cost = Weight(list)

\* The nodes never cost more than the budget, and the counter never claims
\* less than they cost (available() does not promise room that is taken).
WithinBudget == Weight(list) <= cost /\ cost <= MaxCost

\* The trimming loop of insert always comes to an end.
TrimmingEnds == ~spinning

\* operator[] gives access to the element with the key it was called with.
IndexYieldsKey == [][\A k \in Key : Index(k) => ret' = k]_vars

\* What the table t finds in the list l, and the keys of the list.
Stored(l, t) ==
  [k \in DOMAIN t |-> [val |-> l[Position(l, t[k])].val, cost |-> l[Position(l, t[k])].cost]]

KeysIn(l) == [i \in DOMAIN l |-> l[i].key]

\* The abstract cache: the map is read through the lookup table, the order off
\* the list.
Abstract == INSTANCE RecencyCache WITH
  content <- Stored(list, lookup),
  order   <- KeysIn(list)

\* Every call of the least-recently-used cache does what RecencyCache says of
\* it: values are never mixed up between keys, eviction follows the order of use,
\* and each call is the abstract one of the same purpose.
ImplementsRecencyCache ==
  /\ Abstract!Spec
  /\ [][\A k \in Key :
          /\ Erase(k) => Abstract!Drop(k)
          /\ Touch(k) => Abstract!Use(k)
          /\ \A v \in Val, c \in Cost :
               Insert(k, v, c) => IF c > MaxCost THEN Abstract!Clear
                                                 ELSE Abstract!Put(k, v, c)]_vars
=============================================================================
