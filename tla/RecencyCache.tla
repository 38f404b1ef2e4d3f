---------------------------- MODULE RecencyCache ----------------------------
(***************************************************************************)
(* What the least-recently-used cache promises its callers, without nodes, *)
(* addresses or counters: a partial map from keys to values with costs and *)
(* the order in which its keys were last used.  Only the keys used longest *)
(* ago are ever given up, a new element gives up no more of them than its  *)
(* cost requires, and the retained costs stay within the budget.           *)
(***************************************************************************)
EXTENDS Integers, Sequences, FiniteSetsExt, SequencesExt

CONSTANTS Key, Val, MaxCost, Cost, DefaultVal

VARIABLES
  content,  \* a function from the cached keys to [val, cost]
  order     \* the cached keys, the most recently used one first

vars == <<content, order>>

Init == content = <<>> /\ order = <<>>

\* What each cached key costs, and what the keys K cost together.
Costs == [x \in DOMAIN content |-> content[x].cost]
CostOf(costs, K) == MapThenSumSet(LAMBDA x : costs[x], K)

\* The keys of s but k, in their order.
Without(s, k) ==
  IF \E i \in DOMAIN s : s[i] = k THEN RemoveAt(s, CHOOSE i \in DOMAIN s : s[i] = k) ELSE s

\* A new element is stored, or a cached one replaced, after the keys that were
\* used longest ago are given up.
Put(k, v, c) ==
  /\ c <= MaxCost
  /\ \E n \in 0..Len(order) :
       LET kept == {order[i] : i \in 1..n} \ {k}
       IN  /\ CostOf(Costs, kept) + c <= MaxCost
           /\ k \notin DOMAIN content /\ n < Len(order)
                => CostOf(Costs, kept \cup {order[n + 1]}) + c > MaxCost
           /\ content' = [x \in kept \cup {k} |->
                            IF x = k THEN [val |-> v, cost |-> c] ELSE content[x]]
           /\ order' = <<k>> \o Without(SubSeq(order, 1, n), k)

\* An element is used.
Use(k) ==
  /\ k \in DOMAIN content
  /\ order' = <<k>> \o Without(order, k)
  /\ UNCHANGED content

\* An element is removed on request.
Drop(k) ==
  /\ k \in DOMAIN content
  /\ content' = [x \in DOMAIN content \ {k} |-> content[x]]
  /\ order' = Without(order, k)

Clear == content' = <<>> /\ order' = <<>>

Next ==
  \/ \E k \in Key, v \in Val, c \in Cost \cup {1} : Put(k, v, c)
  \/ \E k \in Key : Use(k)
  \/ \E k \in Key : Drop(k)
  \/ Clear

Spec == Init /\ [][Next]_vars
=============================================================================
