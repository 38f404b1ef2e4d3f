-------------------------- MODULE BasicCacheProofs --------------------------
(***************************************************************************)
(* Safety of BasicCache for all keys, values, addresses and budgets: the   *)
(* list and the lookup table agree and the budget holds under both         *)
(* policies.  Under the least-recently-used one the cost counter is exact, *)
(* so that the trimming loop ends, and the cache implements RecencyCache.  *)
(***************************************************************************)
EXTENDS BasicCache, SumTheorems

-----------------------------------------------------------------------------
(* Sequences of nodes *)

\* The position at which the policy places a node in the list l.
TopPos(l) == IF Policy = "lru" THEN 1 ELSE Len(l) + 1

\* What AtTop returns, under either policy.
LEMMA AtTopIs ==
  ASSUME NEW l \in Seq(Node), NEW nd \in Node
  PROVE  /\ AtTop(l, nd) \in Seq(Node)
         /\ Len(AtTop(l, nd)) = Len(l) + 1
         /\ TopPos(l) \in 1..(Len(l) + 1)
         /\ AtTop(l, nd)[TopPos(l)] = nd
         /\ \A j \in 1..(Len(l) + 1) :
              /\ j < TopPos(l) => AtTop(l, nd)[j] = l[j]
              /\ j > TopPos(l) => AtTop(l, nd)[j] = l[j - 1]
<1>1. CASE Policy = "lru"
  BY <1>1 DEF AtTop, TopPos
<1>2. CASE Policy # "lru"
  BY <1>2 DEF AtTop, TopPos
<1> QED BY <1>1, <1>2

\* What the first n elements of a sequence are.
LEMMA PrefixIs ==
  ASSUME NEW S, NEW l \in Seq(S), NEW n \in 0..Len(l)
  PROVE  /\ SubSeq(l, 1, n) \in Seq(S)
         /\ Len(SubSeq(l, 1, n)) = n
         /\ \A j \in 1..n : SubSeq(l, 1, n)[j] = l[j]
OBVIOUS

-----------------------------------------------------------------------------
(* Costs *)

\* f holds the running total of the costs of l up to position n.
RunningTotal(f, l, n) ==
  /\ f \in [0..n -> Nat]
  /\ f[0] = 0
  /\ \A m \in 1..n : f[m] = f[m - 1] + l[m].cost

\* A running total exists for every list.
LEMMA RunningTotalExists ==
  ASSUME NEW l \in Seq(Node)
  PROVE  \A n \in Nat : n <= Len(l) => \E f : RunningTotal(f, l, n)
<1> DEFINE S == {n \in Nat : n <= Len(l) => \E f : RunningTotal(f, l, n)}
<1>1. 0 \in S
  <2>1. RunningTotal([m \in 0..0 |-> 0], l, 0)
    BY DEF RunningTotal
  <2> QED BY <2>1
<1>2. ASSUME NEW n \in Nat, n \in S PROVE n + 1 \in S
  <2>1. SUFFICES ASSUME n + 1 <= Len(l)
                 PROVE  \E f : RunningTotal(f, l, n + 1)
    OBVIOUS
  <2>2. PICK f : RunningTotal(f, l, n)
    BY <1>2, <2>1
  <2>3. l[n + 1].cost \in Nat
    <3>1. n + 1 \in 1..Len(l)
      BY <2>1
    <3>2. l[n + 1] \in Node
      BY <3>1
    <3> QED BY <3>2 DEF Node
  <2> DEFINE g == [m \in 0..(n + 1) |-> IF m = n + 1 THEN f[n] + l[n + 1].cost ELSE f[m]]
  <2>4. g \in [0..(n + 1) -> Nat] /\ g[0] = 0
    BY <2>2, <2>3 DEF RunningTotal
  <2>5. ASSUME NEW m \in 1..(n + 1) PROVE g[m] = g[m - 1] + l[m].cost
    <3>1. CASE m = n + 1
      BY <3>1
    <3>2. CASE m # n + 1
      BY <2>2, <3>2 DEF RunningTotal
    <3> QED BY <3>1, <3>2
  <2>6. RunningTotal(g, l, n + 1)
    BY <2>4, <2>5 DEF RunningTotal
  <2> QED BY <2>6
<1> HIDE DEF S
<1>3. \A n \in Nat : n \in S
  BY <1>1, <1>2, SetInduction
<1> QED BY <1>3 DEF S

\* PrefixCost satisfies its recursive definition.
LEMMA PrefixCostIs ==
  ASSUME NEW l \in Seq(Node)
  PROVE  RunningTotal(PrefixCost(l), l, Len(l))
<1> DEFINE D(f) == [n \in 0..Len(l) |-> IF n = 0 THEN 0 ELSE f[n - 1] + l[n].cost]
<1>1. PICK f : RunningTotal(f, l, Len(l))
  BY RunningTotalExists
<1>2. f = D(f)
  BY <1>1 DEF RunningTotal
<1>3. PrefixCost(l) = CHOOSE g : g = D(g)
  BY DEF PrefixCost
<1>4. PrefixCost(l) = D(PrefixCost(l))
  BY <1>2, <1>3
<1> HIDE DEF D
<1> DEFINE p == PrefixCost(l)
<1>5. /\ DOMAIN p = 0..Len(l)
      /\ p[0] = 0
      /\ \A n \in 1..Len(l) : p[n] = p[n - 1] + l[n].cost
  BY <1>4 DEF D
<1> DEFINE S == {n \in Nat : n <= Len(l) => p[n] \in Nat}
<1>6. ASSUME NEW n \in Nat, n \in S PROVE n + 1 \in S
  <2>1. n + 1 <= Len(l) => l[n + 1].cost \in Nat
    <3>1. n + 1 <= Len(l) => l[n + 1] \in Node
      OBVIOUS
    <3> QED BY <3>1 DEF Node
  <2>2. n + 1 <= Len(l) => p[n + 1] = p[n] + l[n + 1].cost
    BY <1>5
  <2> QED BY <1>6, <2>1, <2>2
<1>7. 0 \in S
  BY <1>5
<1> HIDE DEF S
<1>8. \A n \in Nat : n \in S
  BY <1>6, <1>7, SetInduction
<1>9. \A n \in 0..Len(l) : p[n] \in Nat
  BY <1>8 DEF S
<1>10. p = [n \in 0..Len(l) |-> p[n]]
  BY <1>4 DEF D
<1> QED BY <1>5, <1>9, <1>10 DEF RunningTotal

\* Whatever sums up the costs of l from 0 is PrefixCost.
LEMMA PrefixCostUnique ==
  ASSUME NEW l \in Seq(Node), NEW f,
         f[0] = 0,
         \A n \in 1..Len(l) : f[n] = f[n - 1] + l[n].cost
  PROVE  \A n \in 0..Len(l) : f[n] = PrefixCost(l)[n]
<1> DEFINE S == {n \in Nat : n <= Len(l) => f[n] = PrefixCost(l)[n]}
<1>1. RunningTotal(PrefixCost(l), l, Len(l))
  BY PrefixCostIs
<1>2. 0 \in S
  BY <1>1 DEF RunningTotal
<1>3. ASSUME NEW n \in Nat, n \in S PROVE n + 1 \in S
  <2>1. SUFFICES ASSUME n + 1 <= Len(l) PROVE f[n + 1] = PrefixCost(l)[n + 1]
    OBVIOUS
  <2>2. n + 1 \in 1..Len(l) /\ (n + 1) - 1 = n
    BY <2>1
  <2>3. f[n + 1] = f[n] + l[n + 1].cost
    BY <2>2
  <2>4. PrefixCost(l)[n + 1] = PrefixCost(l)[n] + l[n + 1].cost
    BY <1>1, <2>2 DEF RunningTotal
  <2> QED BY <1>3, <2>1, <2>3, <2>4
<1> HIDE DEF S
<1>4. \A n \in Nat : n \in S
  BY <1>2, <1>3, SetInduction
<1> QED BY <1>4 DEF S

\* The total cost of a list is a natural number, 0 for the empty one.
LEMMA WeightIs ==
  ASSUME NEW l \in Seq(Node)
  PROVE  Weight(l) \in Nat /\ (l = <<>> => Weight(l) = 0)
<1>1. Len(l) \in Nat /\ (l = <<>> => Len(l) = 0)
  OBVIOUS
<1> QED BY <1>1, PrefixCostIs DEF RunningTotal, Weight

\* Placing a node adds its cost.
LEMMA WeightAtTop ==
  ASSUME NEW l \in Seq(Node), NEW nd \in Node
  PROVE  Weight(AtTop(l, nd)) = Weight(l) + nd.cost
<1> DEFINE q == AtTop(l, nd)
           t == TopPos(l)
           p == PrefixCost(l)
           f == [n \in 0..(Len(l) + 1) |-> IF n < t THEN p[n] ELSE p[n - 1] + nd.cost]
<1>0. Len(l) \in Nat
  OBVIOUS
<1>1. /\ q \in Seq(Node) /\ Len(q) = Len(l) + 1 /\ Len(l) \in Nat
      /\ t \in 1..(Len(l) + 1)
      /\ q[t] = nd
      /\ \A j \in 1..(Len(l) + 1) : (j < t => q[j] = l[j]) /\ (j > t => q[j] = l[j - 1])
  BY <1>0, AtTopIs, ZenonT(30)
<1>2. /\ p \in [0..Len(l) -> Nat] /\ p[0] = 0
      /\ \A n \in 1..Len(l) : p[n] = p[n - 1] + l[n].cost
  BY PrefixCostIs DEF RunningTotal
<1>3. nd.cost \in Nat
  BY DEF Node
<1> HIDE DEF q, t, p
<1>4. f[0] = 0
  BY <1>1, <1>2
<1>5. ASSUME NEW n \in 1..Len(q) PROVE f[n] = f[n - 1] + q[n].cost
  <2>1. CASE n < t
    <3>1. f[n] = p[n] /\ f[n - 1] = p[n - 1] /\ n \in 1..Len(l)
      BY <1>1, <2>1
    <3>2. q[n] = l[n]
      BY <1>1, <2>1
    <3> QED BY <1>2, <3>1, <3>2
  <2>2. CASE n = t
    <3>1. f[n] = p[n - 1] + nd.cost /\ f[n - 1] = p[n - 1]
      BY <1>1, <2>2
    <3> QED BY <1>1, <2>2, <3>1
  <2>3. CASE n > t
    <3>1. f[n] = p[n - 1] + nd.cost /\ f[n - 1] = p[n - 2] + nd.cost
      BY <1>1, <2>3
    <3>2. n - 1 \in 1..Len(l) /\ (n - 1) - 1 = n - 2 /\ n - 2 \in 0..Len(l)
      BY <1>1, <2>3
    <3>3. p[n - 1] = p[n - 2] + l[n - 1].cost
      BY <1>2, <3>2
    <3>4. q[n] = l[n - 1]
      BY <1>1, <2>3
    <3>5. l[n - 1] \in Node
      BY <3>2
    <3>6. l[n - 1].cost \in Nat
      BY <3>5 DEF Node
    <3>7. p[n - 2] \in Nat
      BY <1>2, <3>2
    <3> QED BY <1>3, <3>1, <3>3, <3>4, <3>6, <3>7
  <2> QED BY <1>1, <2>1, <2>2, <2>3
<1> HIDE DEF f
<1>6. \A n \in 0..Len(q) : f[n] = PrefixCost(q)[n]
  BY <1>1, <1>4, <1>5, PrefixCostUnique
<1>7. f[Len(l) + 1] = p[Len(l)] + nd.cost
  BY <1>1, <1>2 DEF f
<1> QED BY <1>1, <1>6, <1>7 DEF q, p, Weight

\* Removing a node subtracts its cost.
LEMMA WeightRemoveAt ==
  ASSUME NEW l \in Seq(Node), NEW i \in DOMAIN l
  PROVE  Weight(RemoveAt(l, i)) = Weight(l) - l[i].cost
<1> DEFINE q == RemoveAt(l, i)
           p == PrefixCost(l)
           f == [n \in 0..(Len(l) - 1) |-> IF n < i THEN p[n] ELSE p[n + 1] - l[i].cost]
<1>1. /\ q \in Seq(Node) /\ Len(q) = Len(l) - 1 /\ Len(l) \in Nat
      /\ i \in 1..Len(l)
      /\ \A j \in 1..(Len(l) - 1) : q[j] = l[IF j < i THEN j ELSE j + 1]
  BY RemoveAtIs
<1>2. /\ p \in [0..Len(l) -> Nat] /\ p[0] = 0
      /\ \A n \in 1..Len(l) : p[n] = p[n - 1] + l[n].cost
  BY PrefixCostIs DEF RunningTotal
<1>3. \A n \in 1..Len(l) : l[n].cost \in Nat
  <2>1. \A n \in 1..Len(l) : l[n] \in Node
    OBVIOUS
  <2> QED BY <2>1 DEF Node
<1> HIDE DEF q, p
<1>4. f[0] = 0
  BY <1>1, <1>2
<1>5. ASSUME NEW n \in 1..Len(q) PROVE f[n] = f[n - 1] + q[n].cost
  <2>1. CASE n < i
    <3>1. n \in 1..(Len(l) - 1) /\ n \in 0..(Len(l) - 1) /\ n - 1 \in 0..(Len(l) - 1)
      BY <1>1
    <3>2. f[n] = p[n] /\ f[n - 1] = p[n - 1]
      BY <2>1, <3>1, <1>1
    <3>3. q[n] = l[n]
      BY <1>1, <2>1, <3>1
    <3>4. n \in 1..Len(l)
      BY <1>1, <3>1
    <3> QED BY <1>2, <3>2, <3>3, <3>4
  <2>2. CASE n >= i
    <3>1. f[n] = p[n + 1] - l[i].cost /\ q[n] = l[n + 1]
      <4>1. n \in 1..(Len(l) - 1) /\ ~(n < i) /\ n \in 0..(Len(l) - 1)
        BY <1>1, <2>2
      <4>2. f[n] = p[n + 1] - l[i].cost
        BY <4>1
      <4>3. q[n] = l[n + 1]
        BY <1>1, <4>1
      <4> QED BY <4>2, <4>3
    <3>2. n + 1 \in 1..Len(l) /\ (n + 1) - 1 = n /\ n \in 1..Len(l)
      BY <1>1
    <3>3. p[n + 1] = p[n] + l[n + 1].cost
      BY <1>2, <3>2
    <3>4. f[n - 1] = p[n] - l[i].cost
      <4>1. CASE n = i
        <5>1. f[n - 1] = p[n - 1]
          BY <1>1, <4>1
        <5>2. p[n] = p[n - 1] + l[n].cost
          BY <1>2, <3>2
        <5> QED BY <1>1, <1>2, <1>3, <4>1, <5>1, <5>2
      <4>2. CASE n > i
        BY <1>1, <4>2
      <4> QED BY <2>2, <4>1, <4>2
    <3>5. p[n] \in Nat /\ l[i].cost \in Nat /\ l[n + 1].cost \in Nat
      <4>1. n + 1 \in 1..Len(l) /\ i \in 1..Len(l) /\ n \in 0..Len(l)
        BY <1>1, <3>2
      <4>2. l[i].cost \in Nat
        BY <1>3, <4>1
      <4>3. l[n + 1].cost \in Nat
        BY <1>3, <4>1
      <4> QED BY <1>2, <4>1, <4>2, <4>3
    <3>6. q[n].cost = l[n + 1].cost
      BY <3>1
    <3> QED BY <3>1, <3>3, <3>4, <3>5, <3>6
  <2> QED BY <1>1, <2>1, <2>2
<1>6. f[Len(l) - 1] = p[Len(l)] - l[i].cost
  <2>1. CASE i = Len(l)
    <3>1. f[Len(l) - 1] = p[Len(l) - 1]
      BY <1>1, <2>1
    <3>2. p[Len(l)] = p[Len(l) - 1] + l[Len(l)].cost
      BY <1>1, <1>2
    <3>3. p[Len(l) - 1] \in Nat /\ l[Len(l)].cost \in Nat
      <4>1. Len(l) \in 1..Len(l) /\ Len(l) - 1 \in 0..Len(l)
        BY <1>1
      <4>2. l[Len(l)].cost \in Nat
        BY <1>3, <4>1
      <4> QED BY <1>2, <4>1, <4>2
    <3> QED BY <2>1, <3>1, <3>2, <3>3
  <2>2. CASE i < Len(l)
    BY <1>1, <2>2
  <2> QED BY <1>1, <2>1, <2>2
<1> HIDE DEF f
<1>7. \A n \in 0..Len(q) : f[n] = PrefixCost(q)[n]
  BY <1>1, <1>4, <1>5, PrefixCostUnique
<1>8. Len(q) \in 0..Len(q)
  BY <1>1
<1> QED BY <1>1, <1>6, <1>7, <1>8 DEF q, p, Weight

\* The weight of a prefix is the running total at its end.
LEMMA WeightPrefix ==
  ASSUME NEW l \in Seq(Node), NEW n \in 0..Len(l)
  PROVE  Weight(SubSeq(l, 1, n)) = PrefixCost(l)[n]
<1> DEFINE q == SubSeq(l, 1, n)
           p == PrefixCost(l)
<1>1. q \in Seq(Node) /\ Len(q) = n /\ \A j \in 1..n : q[j] = l[j]
  BY PrefixIs
<1>2. /\ p[0] = 0
      /\ \A m \in 1..Len(l) : p[m] = p[m - 1] + l[m].cost
  BY PrefixCostIs DEF RunningTotal
<1> HIDE DEF q, p
<1>3. Len(l) \in Nat
  OBVIOUS
<1>4. \A m \in 1..Len(q) : p[m] = p[m - 1] + q[m].cost
  BY <1>1, <1>2, <1>3
<1>5. \A m \in 0..Len(q) : p[m] = PrefixCost(q)[m]
  BY <1>1, <1>2, <1>4, PrefixCostUnique
<1> QED BY <1>1, <1>5 DEF q, p, Weight

\* A node costs no more than the list it is in.
LEMMA NodeWithinWeight ==
  ASSUME NEW l \in Seq(Node), NEW i \in DOMAIN l
  PROVE  l[i].cost <= Weight(l)
<1>1. RemoveAt(l, i) \in Seq(Node)
  BY RemoveAtIs
<1>2. Weight(RemoveAt(l, i)) \in Nat /\ Weight(l) \in Nat
  BY <1>1, WeightIs
<1>3. l[i].cost \in Nat
  <2>1. l[i] \in Node
    OBVIOUS
  <2> QED BY <2>1 DEF Node
<1> QED BY <1>2, <1>3, WeightRemoveAt

-----------------------------------------------------------------------------
(* The list and the lookup table *)

\* Linked over positions 1..Len(l).
LinkedAt(l, t) ==
  /\ \A a, b \in 1..Len(l) : l[a].id = l[b].id => a = b
  /\ \A a \in 1..Len(l) : l[a].key \in DOMAIN t /\ t[l[a].key] = l[a].id
  /\ \A k \in DOMAIN t : \E a \in 1..Len(l) : l[a].id = t[k] /\ l[a].key = k

\* The domain of a list is made of its positions.
LEMMA LinkedIs ==
  ASSUME NEW l \in Seq(Node), NEW t
  PROVE  Linked(l, t) <=> LinkedAt(l, t)
<1>1. DOMAIN l = 1..Len(l)
  OBVIOUS
<1> QED BY <1>1 DEF Linked, LinkedAt, DistinctNodes, NodesIndexed, NoDanglingEntry

\* erase keeps the list and the table linked.
LEMMA LinkedRemoveAt ==
  ASSUME NEW l \in Seq(Node), NEW t, Linked(l, t), NEW i \in DOMAIN l
  PROVE  Linked(RemoveAt(l, i), Forget(t, {l[i].key}))
<1> DEFINE q == RemoveAt(l, i)
           u == Forget(t, {l[i].key})
           old(j) == IF j < i THEN j ELSE j + 1
<1>0. i \in 1..Len(l) /\ Len(l) \in Nat
  OBVIOUS
<1>1. /\ q \in Seq(Node) /\ Len(q) = Len(l) - 1 /\ i \in 1..Len(l) /\ Len(l) \in Nat
      /\ \A j \in 1..(Len(l) - 1) : q[j] = l[old(j)]
  BY <1>0, RemoveAtIs, ZenonT(30)
<1>2. /\ DOMAIN u = DOMAIN t \ {l[i].key}
      /\ \A k \in DOMAIN u : u[k] = t[k]
  BY DEF Forget
<1>3. /\ \A a, b \in 1..Len(l) : l[a].id = l[b].id => a = b
      /\ \A a \in 1..Len(l) : l[a].key \in DOMAIN t /\ t[l[a].key] = l[a].id
      /\ \A k \in DOMAIN t : \E a \in 1..Len(l) : l[a].id = t[k] /\ l[a].key = k
  <2>1. LinkedAt(l, t)
    BY LinkedIs
  <2> QED BY <2>1 DEF LinkedAt
<1> HIDE DEF q, u
<1>4. \A j \in 1..Len(q) : old(j) \in 1..Len(l) /\ old(j) # i /\ q[j] = l[old(j)]
  BY <1>1
<1>5. \A j, m \in 1..Len(q) : old(j) = old(m) => j = m
  BY <1>1
<1>6. \A a \in 1..Len(l) : a # i => \E j \in 1..Len(q) : old(j) = a
  <2>0. Len(q) = Len(l) - 1 /\ i \in 1..Len(l) /\ Len(l) \in Nat
    BY <1>1
  <2>1. TAKE a \in 1..Len(l)
  <2>2. CASE a < i
    <3>1. a \in 1..Len(q) /\ old(a) = a
      BY <2>0, <2>2
    <3> QED BY <3>1
  <2>3. CASE a > i
    <3>1. a - 1 \in 1..Len(q) /\ old(a - 1) = a
      BY <2>0, <2>3
    <3> QED BY <3>1
  <2> QED BY <2>0, <2>2, <2>3
<1> HIDE DEF old
<1>7. ASSUME NEW j \in 1..Len(q), NEW m \in 1..Len(q), q[j].id = q[m].id PROVE j = m
  <2>1. l[old(j)].id = l[old(m)].id /\ old(j) \in 1..Len(l) /\ old(m) \in 1..Len(l)
    BY <1>4, <1>7
  <2>2. old(j) = old(m)
    BY <1>3, <2>1
  <2> QED BY <1>5, <2>2
<1>8. \A j \in 1..Len(q) : q[j].key \in DOMAIN u /\ u[q[j].key] = q[j].id
  <2>1. TAKE j \in 1..Len(q)
  <2>2. old(j) \in 1..Len(l) /\ old(j) # i /\ q[j] = l[old(j)]
    BY <1>4
  <2>3. l[old(j)].key # l[i].key
    BY <1>1, <1>3, <2>2
  <2> QED BY <1>2, <1>3, <2>2, <2>3
<1>9. \A k \in DOMAIN u : \E j \in 1..Len(q) : q[j].id = u[k] /\ q[j].key = k
  <2>1. TAKE k \in DOMAIN u
  <2>2. PICK a \in 1..Len(l) : l[a].id = t[k] /\ l[a].key = k
    BY <1>2, <1>3
  <2>3. a # i
    BY <1>2, <2>2
  <2>4. PICK j \in 1..Len(q) : old(j) = a
    BY <1>6, <2>3
  <2> QED BY <1>2, <1>4, <2>2, <2>4
<1>10. LinkedAt(q, u)
  BY <1>7, <1>8, <1>9 DEF LinkedAt
<1> QED BY <1>1, <1>10, LinkedIs DEF q, u

\* A new node at a free address, entered under a key that was not cached,
\* keeps the list and the table linked.
LEMMA LinkedAtTop ==
  ASSUME NEW l \in Seq(Node), NEW t, Linked(l, t), NEW nd \in Node,
         nd.key \notin DOMAIN t, nd.id \in FreeAddr(l)
  PROVE  Linked(AtTop(l, nd), Remember(t, nd.key, nd.id))
<1> DEFINE q == AtTop(l, nd)
           u == Remember(t, nd.key, nd.id)
           p == TopPos(l)
           old(j) == IF j < p THEN j ELSE j - 1
<1>0. Len(l) \in Nat
  OBVIOUS
<1>1. /\ q \in Seq(Node) /\ Len(q) = Len(l) + 1
      /\ p \in 1..(Len(l) + 1)
      /\ q[p] = nd
      /\ \A j \in 1..(Len(l) + 1) : (j < p => q[j] = l[j]) /\ (j > p => q[j] = l[j - 1])
  BY <1>0, AtTopIs, ZenonT(30)
<1>2. /\ DOMAIN u = DOMAIN t \cup {nd.key}
      /\ \A k \in DOMAIN u : u[k] = IF k = nd.key THEN nd.id ELSE t[k]
  BY DEF Remember
<1>3. /\ \A a, b \in 1..Len(l) : l[a].id = l[b].id => a = b
      /\ \A a \in 1..Len(l) : l[a].key \in DOMAIN t /\ t[l[a].key] = l[a].id
      /\ \A k \in DOMAIN t : \E a \in 1..Len(l) : l[a].id = t[k] /\ l[a].key = k
  <2>1. LinkedAt(l, t)
    BY LinkedIs
  <2> QED BY <2>1 DEF LinkedAt
<1>4. \A a \in 1..Len(l) : l[a].id # nd.id /\ l[a].key # nd.key
  BY <1>3 DEF FreeAddr
<1> HIDE DEF q, u, p
<1>5. \A j \in 1..Len(q) : j # p => old(j) \in 1..Len(l) /\ q[j] = l[old(j)]
  BY <1>0, <1>1
<1>6. \A j, m \in 1..Len(q) : j # p /\ m # p /\ old(j) = old(m) => j = m
  BY <1>0, <1>1
<1>7. \A a \in 1..Len(l) : \E j \in 1..Len(q) : j # p /\ old(j) = a
  <2>1. TAKE a \in 1..Len(l)
  <2>2. CASE a < p
    <3>1. a \in 1..Len(q) /\ old(a) = a /\ a # p
      BY <1>0, <1>1, <2>2
    <3> QED BY <3>1
  <2>3. CASE a >= p
    <3>1. a + 1 \in 1..Len(q) /\ old(a + 1) = a /\ a + 1 # p
      BY <1>0, <1>1, <2>3
    <3> QED BY <3>1
  <2> QED BY <1>0, <1>1, <2>2, <2>3
<1> HIDE DEF old
<1>8. ASSUME NEW j \in 1..Len(q), NEW m \in 1..Len(q), q[j].id = q[m].id PROVE j = m
  <2>1. CASE j # p /\ m # p
    <3>1. l[old(j)].id = l[old(m)].id /\ old(j) \in 1..Len(l) /\ old(m) \in 1..Len(l)
      BY <1>5, <1>8, <2>1
    <3>2. old(j) = old(m)
      BY <1>3, <3>1
    <3> QED BY <1>6, <2>1, <3>2
  <2>2. CASE j = p /\ m # p
    BY <1>1, <1>4, <1>5, <1>8, <2>2
  <2>3. CASE j # p /\ m = p
    BY <1>1, <1>4, <1>5, <1>8, <2>3
  <2> QED BY <2>1, <2>2, <2>3
<1>9. \A j \in 1..Len(q) : q[j].key \in DOMAIN u /\ u[q[j].key] = q[j].id
  <2>1. TAKE j \in 1..Len(q)
  <2>2. CASE j = p
    BY <1>1, <1>2, <2>2
  <2>3. CASE j # p
    BY <1>2, <1>3, <1>4, <1>5, <2>3
  <2> QED BY <2>2, <2>3
<1>10. \A k \in DOMAIN u : \E j \in 1..Len(q) : q[j].id = u[k] /\ q[j].key = k
  <2>1. TAKE k \in DOMAIN u
  <2>2. CASE k = nd.key
    <3>1. p \in 1..Len(q)
      BY <1>0, <1>1
    <3> QED BY <1>1, <1>2, <2>2, <3>1
  <2>3. CASE k # nd.key
    <3>1. PICK a \in 1..Len(l) : l[a].id = t[k] /\ l[a].key = k
      BY <1>2, <1>3, <2>3
    <3>2. PICK j \in 1..Len(q) : j # p /\ old(j) = a
      BY <1>7
    <3> QED BY <1>2, <1>5, <2>3, <3>1, <3>2
  <2> QED BY <2>2, <2>3
<1>11. LinkedAt(q, u)
  BY <1>8, <1>9, <1>10 DEF LinkedAt
<1> QED BY <1>1, <1>11, LinkedIs DEF q, u

\* Evicting all but the first n nodes keeps the list and the table linked.
LEMMA LinkedPrefix ==
  ASSUME NEW l \in Seq(Node), NEW t, Linked(l, t), NEW n \in 0..Len(l)
  PROVE  Linked(SubSeq(l, 1, n), Forget(t, {l[i].key : i \in (n + 1)..Len(l)}))
<1> DEFINE q == SubSeq(l, 1, n)
           K == {l[i].key : i \in (n + 1)..Len(l)}
           u == Forget(t, K)
<1>0. Len(l) \in Nat /\ n \in Nat /\ n <= Len(l)
  OBVIOUS
<1>1. q \in Seq(Node) /\ Len(q) = n /\ \A j \in 1..n : q[j] = l[j]
  BY PrefixIs
<1>2. /\ DOMAIN u = DOMAIN t \ K
      /\ \A k \in DOMAIN u : u[k] = t[k]
  BY DEF Forget
<1>3. /\ \A a, b \in 1..Len(l) : l[a].id = l[b].id => a = b
      /\ \A a \in 1..Len(l) : l[a].key \in DOMAIN t /\ t[l[a].key] = l[a].id
      /\ \A k \in DOMAIN t : \E a \in 1..Len(l) : l[a].id = t[k] /\ l[a].key = k
  <2>1. LinkedAt(l, t)
    BY LinkedIs
  <2> QED BY <2>1 DEF LinkedAt
<1> HIDE DEF q, u
<1>4. \A j \in 1..n : j \in 1..Len(l) /\ l[j].key \notin K
  <2>1. TAKE j \in 1..n
  <2>2. ASSUME NEW i \in (n + 1)..Len(l) PROVE l[i].key # l[j].key
    <3>1. i \in 1..Len(l) /\ j \in 1..Len(l) /\ i # j
      BY <1>0
    <3>2. t[l[i].key] = l[i].id /\ t[l[j].key] = l[j].id
      BY <1>3, <3>1
    <3>3. l[i].id # l[j].id
      BY <1>3, <3>1
    <3> QED BY <3>2, <3>3
  <2> QED BY <1>0, <2>2
<1>5. ASSUME NEW j \in 1..n, NEW m \in 1..n, q[j].id = q[m].id PROVE j = m
  <2>1. l[j].id = l[m].id /\ j \in 1..Len(l) /\ m \in 1..Len(l)
    BY <1>1, <1>4, <1>5
  <2> QED BY <1>3, <2>1
<1>6. \A j \in 1..n : q[j].key \in DOMAIN u /\ u[q[j].key] = q[j].id
  <2>1. TAKE j \in 1..n
  <2>2. q[j] = l[j] /\ l[j].key \in DOMAIN t /\ t[l[j].key] = l[j].id
    BY <1>1, <1>3, <1>4
  <2>3. l[j].key \in DOMAIN u
    BY <1>2, <1>4, <2>2
  <2> QED BY <1>2, <2>2, <2>3
<1>7. \A k \in DOMAIN u : \E j \in 1..n : q[j].id = u[k] /\ q[j].key = k
  <2>1. TAKE k \in DOMAIN u
  <2>2. PICK a \in 1..Len(l) : l[a].id = t[k] /\ l[a].key = k
    BY <1>2, <1>3
  <2>3. a \notin (n + 1)..Len(l)
    BY <1>2, <2>2
  <2>4. a \in 1..n
    BY <1>0, <2>3
  <2> QED BY <1>1, <1>2, <2>2, <2>4
<1> HIDE DEF K
<1>8. LinkedAt(q, u)
  BY <1>1, <1>5, <1>6, <1>7 DEF LinkedAt
<1>9. Linked(q, u)
  BY <1>1, <1>8, LinkedIs
<1> QED BY <1>9 DEF q, u, K

\* A cached key leads to the node that holds it.
LEMMA PositionIs ==
  ASSUME NEW l \in Seq(Node), NEW t, Linked(l, t), NEW k \in DOMAIN t
  PROVE  /\ Position(l, t[k]) \in 1..Len(l)
         /\ l[Position(l, t[k])].id = t[k]
         /\ l[Position(l, t[k])].key = k
<1> DEFINE i == Position(l, t[k])
<1>0. /\ \A a, b \in 1..Len(l) : l[a].id = l[b].id => a = b
      /\ \E a \in 1..Len(l) : l[a].id = t[k] /\ l[a].key = k
  <2>1. LinkedAt(l, t)
    BY LinkedIs
  <2> QED BY <2>1 DEF LinkedAt
<1>1. PICK j \in 1..Len(l) : l[j].id = t[k] /\ l[j].key = k
  BY <1>0
<1>2. DOMAIN l = 1..Len(l)
  OBVIOUS
<1>3. i \in 1..Len(l) /\ l[i].id = t[k]
  BY <1>1, <1>2 DEF Position
<1> HIDE DEF i
<1>4. i = j
  BY <1>0, <1>1, <1>3
<1> QED BY <1>1, <1>3, <1>4 DEF i

\* Reordering keeps the nodes, their total cost and their table entries.
LEMMA ReorderIs ==
  ASSUME NEW l \in Seq(Node), NEW t, Linked(l, t), NEW i \in DOMAIN l
  PROVE  /\ Reorder(l, i) \in Seq(Node)
         /\ Len(Reorder(l, i)) = Len(l)
         /\ Weight(Reorder(l, i)) = Weight(RemoveAt(l, i)) + l[i].cost
         /\ Linked(Reorder(l, i), t)
         /\ \A j \in 1..Len(l) : \E a \in 1..Len(l) : Reorder(l, i)[j] = l[a]
         /\ Policy = "lru" => Reorder(l, i)[1] = l[i]
<1> DEFINE r == RemoveAt(l, i)
           u == Forget(t, {l[i].key})
           nd == l[i]
           q == AtTop(r, nd)
           w == Remember(u, nd.key, nd.id)
<1>1. /\ r \in Seq(Node) /\ Len(r) = Len(l) - 1
      /\ \A j \in 1..(Len(l) - 1) : r[j] = l[IF j < i THEN j ELSE j + 1]
  BY RemoveAtIs
<1>2. nd \in Node /\ i \in 1..Len(l) /\ Len(l) \in Nat
  OBVIOUS
<1>3. Linked(r, u)
  BY LinkedRemoveAt
<1>4. nd.key \notin DOMAIN u
  BY DEF Forget
<1>5. /\ \A a, b \in 1..Len(l) : l[a].id = l[b].id => a = b
      /\ nd.key \in DOMAIN t /\ t[nd.key] = nd.id
  <2>1. LinkedAt(l, t)
    BY LinkedIs
  <2> QED BY <1>2, <2>1 DEF LinkedAt
<1>0. ASSUME NEW j \in 1..(Len(l) - 1)
       PROVE  \E a \in 1..Len(l) : a # i /\ r[j] = l[a]
  <2>1. CASE j < i
    BY <1>1, <1>2, <2>1
  <2>2. CASE ~(j < i)
    <3>1. r[j] = l[j + 1] /\ j + 1 \in 1..Len(l) /\ j + 1 # i
      BY <1>1, <1>2, <2>2
    <3> QED BY <3>1
  <2> QED BY <2>1, <2>2
<1>6. nd.id \in FreeAddr(r)
  <2>1. nd.id \in Addr
    BY <1>2 DEF Node
  <2>2. ASSUME NEW j \in DOMAIN r, r[j].id = nd.id PROVE FALSE
    <3>1. j \in 1..(Len(l) - 1)
      BY <1>1
    <3>2. PICK a \in 1..Len(l) : a # i /\ r[j] = l[a]
      BY <1>0, <3>1
    <3> QED BY <1>2, <1>5, <2>2, <3>2
  <2> QED BY <2>1, <2>2 DEF FreeAddr
<1>7. DOMAIN w = DOMAIN t /\ \A k \in DOMAIN t : w[k] = t[k]
  BY <1>5 DEF Forget, Remember
<1>8. Reorder(l, i) = q
  BY DEF Reorder
<1> HIDE DEF r, u, nd
<1>9. Linked(q, w)
  BY <1>1, <1>2, <1>3, <1>4, <1>6, LinkedAtTop
<1>10. q \in Seq(Node) /\ Len(q) = Len(r) + 1
  BY <1>1, <1>2, AtTopIs
<1>11. Weight(q) = Weight(r) + nd.cost
  BY <1>1, <1>2, WeightAtTop
<1> HIDE DEF q, w
<1>12. Linked(q, t)
  <2>1. LinkedAt(q, w)
    BY <1>9, <1>10, LinkedIs
  <2>2. LinkedAt(q, t)
    BY <1>7, <2>1 DEF LinkedAt
  <2> QED BY <1>10, <2>2, LinkedIs
<1>13. Len(q) = Len(l)
  BY <1>1, <1>2, <1>10
<1>14. ASSUME NEW j \in 1..Len(l) PROVE \E a \in 1..Len(l) : q[j] = l[a]
  <2>1. /\ TopPos(r) \in 1..(Len(r) + 1)
        /\ q[TopPos(r)] = nd
        /\ \A h \in 1..(Len(r) + 1) :
             (h < TopPos(r) => q[h] = r[h]) /\ (h > TopPos(r) => q[h] = r[h - 1])
    BY <1>1, <1>2, AtTopIs, ZenonT(30) DEF q
  <2>2. CASE j = TopPos(r)
    BY <1>2, <2>1, <2>2 DEF nd
  <2>3. CASE j < TopPos(r)
    <3>1. q[j] = r[j] /\ j \in 1..(Len(l) - 1)
      BY <1>1, <1>2, <2>1, <2>3
    <3> QED BY <1>0, <3>1
  <2>4. CASE j > TopPos(r)
    <3>1. q[j] = r[j - 1] /\ j - 1 \in 1..(Len(l) - 1)
      BY <1>1, <1>2, <2>1, <2>4
    <3> QED BY <1>0, <3>1
  <2> QED BY <1>1, <1>2, <2>1, <2>2, <2>3, <2>4
<1>15. Policy = "lru" => q[1] = nd
  BY <1>1, <1>2, AtTopIs, ZenonT(30) DEF q, TopPos
<1> QED BY <1>8, <1>10, <1>11, <1>12, <1>13, <1>14, <1>15 DEF r, nd

\* Updating a node changes the total cost by the difference of its costs.
LEMMA UpdateNodeIs ==
  ASSUME NEW l \in Seq(Node), NEW t, Linked(l, t), NEW i \in DOMAIN l,
         NEW v \in Val, NEW c \in Nat \ {0}
  PROVE  /\ UpdateNode(l, i, v, c) \in Seq(Node)
         /\ Len(UpdateNode(l, i, v, c)) = Len(l)
         /\ Weight(UpdateNode(l, i, v, c)) = Weight(l) - l[i].cost + c
         /\ Linked(UpdateNode(l, i, v, c), t)
         /\ \A j \in 1..Len(l) :
              \/ UpdateNode(l, i, v, c)[j].cost = c
              \/ \E a \in 1..Len(l) : UpdateNode(l, i, v, c)[j].cost = l[a].cost
         /\ Policy = "lru" => UpdateNode(l, i, v, c)[1].cost = c
<1> DEFINE m == [l EXCEPT ![i].val = v, ![i].cost = c]
<1>1. i \in 1..Len(l) /\ Len(l) \in Nat /\ l[i] \in Node
  OBVIOUS
<1>2. /\ DOMAIN m = DOMAIN l
      /\ m[i] = [l[i] EXCEPT !.val = v, !.cost = c]
      /\ \A j \in DOMAIN l : j # i => m[j] = l[j]
  OBVIOUS
<1>3. m[i] \in Node /\ m[i].id = l[i].id /\ m[i].key = l[i].key /\ m[i].cost = c
  BY <1>1, <1>2 DEF Node
<1>4. m \in Seq(Node) /\ Len(m) = Len(l)
  <2>1. \A j \in 1..Len(l) : m[j] \in Node
    <3>1. \A j \in 1..Len(l) : l[j] \in Node
      OBVIOUS
    <3> QED BY <1>2, <1>3, <3>1
  <2>2. m \in [1..Len(l) -> Node]
    BY <1>1, <1>2, <2>1
  <2> HIDE DEF m
  <2> QED BY <1>1, <2>2
<1>5. UpdateNode(l, i, v, c) = Reorder(m, i)
  BY DEF UpdateNode
<1> HIDE DEF m
<1>6. Linked(m, t)
  <2>1. \A j \in 1..Len(l) : m[j].id = l[j].id /\ m[j].key = l[j].key
    <3>1. DOMAIN l = 1..Len(l)
      OBVIOUS
    <3> QED BY <1>2, <1>3, <3>1
  <2>2. LinkedAt(l, t)
    BY LinkedIs
  <2>3. LinkedAt(m, t)
    <3>1. Len(m) = Len(l)
      BY <1>4
    <3>2. \A a, b \in 1..Len(m) : m[a].id = m[b].id => a = b
      BY <2>1, <2>2, <3>1 DEF LinkedAt
    <3>3. \A a \in 1..Len(m) : m[a].key \in DOMAIN t /\ t[m[a].key] = m[a].id
      BY <2>1, <2>2, <3>1 DEF LinkedAt
    <3>4. \A k \in DOMAIN t : \E a \in 1..Len(m) : m[a].id = t[k] /\ m[a].key = k
      <4>1. TAKE k \in DOMAIN t
      <4>2. PICK a \in 1..Len(l) : l[a].id = t[k] /\ l[a].key = k
        BY <2>2 DEF LinkedAt
      <4> QED BY <2>1, <3>1, <4>2
    <3> QED BY <3>2, <3>3, <3>4 DEF LinkedAt
  <2> QED BY <1>4, <2>3, LinkedIs
<1>7. RemoveAt(m, i) = RemoveAt(l, i)
  <2> DEFINE a == RemoveAt(m, i)
             b == RemoveAt(l, i)
  <2>1. /\ a \in Seq(Node) /\ Len(a) = Len(l) - 1
        /\ \A j \in 1..(Len(l) - 1) : a[j] = m[IF j < i THEN j ELSE j + 1]
    <3>1. i \in DOMAIN m
      BY <1>2
    <3> QED BY <1>4, <3>1, RemoveAtIs, ZenonT(30)
  <2>2. /\ b \in Seq(Node) /\ Len(b) = Len(l) - 1
        /\ \A j \in 1..(Len(l) - 1) : b[j] = l[IF j < i THEN j ELSE j + 1]
    BY RemoveAtIs
  <2> HIDE DEF a, b
  <2>3. ASSUME NEW j \in 1..(Len(l) - 1) PROVE a[j] = b[j]
    <3>1. CASE j < i
      BY <1>1, <1>2, <2>1, <2>2, <3>1
    <3>2. CASE ~(j < i)
      <4>1. j + 1 \in 1..Len(l) /\ j + 1 # i
        BY <1>1, <3>2
      <4> QED BY <1>1, <1>2, <2>1, <2>2, <3>2, <4>1
    <3> QED BY <3>1, <3>2
  <2>4. a \in [1..(Len(l) - 1) -> Node] /\ b \in [1..(Len(l) - 1) -> Node]
    BY <2>1, <2>2
  <2>5. a = b
    BY <2>3, <2>4
  <2> QED BY <2>5 DEF a, b
<1>8. /\ Reorder(m, i) \in Seq(Node)
      /\ Len(Reorder(m, i)) = Len(m)
      /\ Weight(Reorder(m, i)) = Weight(RemoveAt(m, i)) + m[i].cost
      /\ Linked(Reorder(m, i), t)
      /\ \A j \in 1..Len(m) : \E a \in 1..Len(m) : Reorder(m, i)[j] = m[a]
      /\ Policy = "lru" => Reorder(m, i)[1] = m[i]
  BY <1>2, <1>4, <1>6, ReorderIs
<1>9. Weight(RemoveAt(l, i)) = Weight(l) - l[i].cost
  BY WeightRemoveAt
<1>10. ASSUME NEW j \in 1..Len(l)
       PROVE  \/ Reorder(m, i)[j].cost = c
              \/ \E a \in 1..Len(l) : Reorder(m, i)[j].cost = l[a].cost
  <2>1. PICK a \in 1..Len(l) : Reorder(m, i)[j] = m[a]
    BY <1>4, <1>8
  <2>2. DOMAIN l = 1..Len(l)
    OBVIOUS
  <2> QED BY <1>2, <1>3, <2>1, <2>2
<1> QED BY <1>3, <1>4, <1>5, <1>7, <1>8, <1>9, <1>10

\* A list of one node.
LEMMA SingleIs ==
  ASSUME NEW nd \in Node
  PROVE  /\ <<nd>> \in Seq(Node)
         /\ Weight(<<nd>>) = nd.cost
         /\ Linked(<<nd>>, [x \in {nd.key} |-> nd.id])
<1>1. <<>> \in Seq(Node) /\ AtTop(<<>>, nd) = <<nd>>
  BY DEF AtTop
<1>2. Weight(<<nd>>) = 0 + nd.cost
  BY <1>1, WeightAtTop, WeightIs
<1>3. nd.cost \in Nat
  BY DEF Node
<1>4. Linked(<<nd>>, [x \in {nd.key} |-> nd.id])
  BY DEF Linked, DistinctNodes, NodesIndexed, NoDanglingEntry
<1> QED BY <1>1, <1>2, <1>3, <1>4

-----------------------------------------------------------------------------
(* The invariant *)

\* What holds under both policies.  WithinBudget rests on the running totals
\* of a well-typed list, Coherent on the table's domain and range.
Inv == TypeOK /\ Coherent /\ WithinBudget

\* The least-recently-used cache also knows the exact cost of its nodes, which
\* is why its trimming loop ends.
LruInv == Inv /\ CostExact /\ TrimmingEnds

USE MaxCostAssumption, CostAssumption, ValAssumption, KeyAssumption, PolicyAssumption

\* The empty cache satisfies the invariant.
LEMMA InitInv == Init => LruInv
<1> SUFFICES ASSUME Init PROVE LruInv
  OBVIOUS
<1>1. <<>> \in Seq(Node) /\ DOMAIN <<>> = {}
  OBVIOUS
<1>2. Weight(list) = 0
  BY <1>1, WeightIs DEF Init
<1>3. TypeOK
  BY <1>1 DEF Init, TypeOK
<1>4. Coherent
  BY <1>1 DEF Init, Coherent, Linked, DistinctNodes, NodesIndexed, NoDanglingEntry
<1>5. WithinBudget /\ CostExact /\ TrimmingEnds
  BY <1>2 DEF Init, WithinBudget, CostExact, TrimmingEnds
<1> QED BY <1>3, <1>4, <1>5 DEF LruInv, Inv

\* An emptied cache satisfies all but what depends on the result of the call.
LEMMA EmptyInv ==
  ASSUME ClearAll, ret' \in Key \cup {NoKey}, spinning' \in BOOLEAN
  PROVE  Inv' /\ CostExact'
<1>1. <<>> \in Seq(Node) /\ DOMAIN <<>> = {}
  OBVIOUS
<1>2. list' = <<>> /\ lookup' = <<>> /\ cost' = 0
  BY DEF ClearAll
<1>3. Weight(list') = 0
  BY <1>1, <1>2, WeightIs
<1>4. TypeOK'
  BY <1>1, <1>2 DEF TypeOK
<1>5. Coherent'
  BY <1>1, <1>2 DEF Coherent, Linked, DistinctNodes, NodesIndexed, NoDanglingEntry
<1>6. WithinBudget' /\ CostExact'
  BY <1>2, <1>3 DEF WithinBudget, CostExact
<1> QED BY <1>4, <1>5, <1>6 DEF Inv

\* The invariant gives the lemmas above their hypotheses.
LEMMA InvIs ==
  ASSUME Inv
  PROVE  /\ list \in Seq(Node) /\ Len(list) \in Nat /\ DOMAIN list = 1..Len(list)
         /\ Linked(list, lookup)
         /\ Weight(list) \in Nat /\ cost \in Nat /\ MaxCost \in Nat
         /\ Weight(list) <= cost /\ cost <= MaxCost
         /\ DOMAIN lookup \subseteq Key
         /\ \A k \in DOMAIN lookup : lookup[k] \in Addr
<1>1. list \in Seq(Node)
  BY DEF Inv, TypeOK
<1>2. Weight(list) \in Nat
  BY <1>1, WeightIs
<1> QED BY <1>1, <1>2 DEF Inv, TypeOK, Coherent, WithinBudget

\* A cached key is at its position.
LEMMA CachedIs ==
  ASSUME Inv, NEW k \in DOMAIN lookup
  PROVE  /\ Position(list, lookup[k]) \in DOMAIN list
         /\ list[Position(list, lookup[k])].key = k
BY InvIs, PositionIs

\* An update to the whole budget.
LEMMA WholeHitInv ==
  ASSUME Inv, NEW k \in Key, NEW v \in Val, NEW c \in Nat \ {0},
         InsertWholeHit(k, v, c), spinning' = spinning
  PROVE  Inv' /\ (Policy = "lru" => CostExact')
<1> DEFINE i == Position(list, lookup[k])
           u == UpdateNode(list, i, v, c)
           front == u[1]
<1>1. k \in DOMAIN lookup /\ c = MaxCost
  BY DEF InsertWholeHit
<1>2. i \in DOMAIN list /\ list[i].key = k
  BY <1>1, CachedIs
<1>3. /\ u \in Seq(Node) /\ Len(u) = Len(list)
      /\ \A j \in 1..Len(list) :
           u[j].cost = c \/ \E a \in 1..Len(list) : u[j].cost = list[a].cost
      /\ Policy = "lru" => u[1].cost = c
  <2>1. list \in Seq(Node) /\ Linked(list, lookup)
    BY InvIs
  <2> HIDE DEF i
  <2> QED BY <1>2, <2>1, UpdateNodeIs
<1>4. 1 \in 1..Len(list)
  BY <1>2, InvIs
<1>5. /\ list' = <<front>> /\ lookup' = [x \in {front.key} |-> front.id]
      /\ ret' = front.key /\ cost' = c
  BY DEF InsertWholeHit
<1> HIDE DEF u
<1>6. front \in Node
  BY <1>3, <1>4
<1>7. front.cost <= MaxCost
  <2>1. CASE front.cost = c
    BY <1>1, <2>1
  <2>2. CASE \E a \in 1..Len(list) : front.cost = list[a].cost
    <3>1. PICK a \in 1..Len(list) : front.cost = list[a].cost
      BY <2>2
    <3>2. list[a].cost <= Weight(list)
      BY InvIs, NodeWithinWeight
    <3>3. list[a].cost \in Nat
      BY <1>6, <3>1 DEF Node
    <3> QED BY <3>1, <3>2, <3>3, InvIs
  <2> QED BY <1>3, <1>4, <2>1, <2>2
<1>8. list' \in Seq(Node) /\ Weight(list') = front.cost /\ Linked(list', lookup')
  BY <1>5, <1>6, SingleIs
<1>9. front.id \in Addr /\ front.key \in Key /\ front.cost \in Nat
  BY <1>6 DEF Node
<1> HIDE DEF front
<1>10. TypeOK'
  BY <1>5, <1>8, <1>9 DEF TypeOK, Inv
<1>11. WithinBudget'
  BY <1>1, <1>5, <1>7, <1>8 DEF WithinBudget
<1>12. Policy = "lru" => CostExact'
  BY <1>3, <1>5, <1>8 DEF CostExact, front
<1> QED BY <1>8, <1>10, <1>11, <1>12 DEF Inv, Coherent

\* A new element with the whole budget.
LEMMA WholeMissInv ==
  ASSUME Inv, NEW k \in Key, NEW v \in Val, NEW c \in Nat \ {0},
         InsertWholeMiss(k, v, c), spinning' = spinning
  PROVE  Inv' /\ CostExact'
<1>1. PICK a \in Addr :
        /\ list' = <<[id |-> a, key |-> k, val |-> v, cost |-> c]>>
        /\ lookup' = [x \in {k} |-> a]
  BY DEF InsertWholeMiss
<1> DEFINE nd == [id |-> a, key |-> k, val |-> v, cost |-> c]
<1>2. nd \in Node /\ nd.key = k /\ nd.id = a /\ nd.cost = c
  BY DEF Node
<1>3. cost' = c /\ ret' = k /\ c = MaxCost
  BY DEF InsertWholeMiss
<1> HIDE DEF nd
<1>4. list' = <<nd>> /\ lookup' = [x \in {nd.key} |-> nd.id]
  BY <1>1, <1>2 DEF nd
<1>5. list' \in Seq(Node) /\ Weight(list') = c /\ Linked(list', lookup')
  BY <1>2, <1>4, SingleIs
<1>6. TypeOK'
  BY <1>1, <1>3, <1>5 DEF TypeOK, Inv
<1>7. WithinBudget' /\ CostExact'
  BY <1>3, <1>5 DEF WithinBudget, CostExact
<1> QED BY <1>5, <1>6, <1>7 DEF Inv, Coherent

\* Erasing a node.
LEMMA EraseInv ==
  ASSUME Inv, NEW i \in DOMAIN list, EraseAt(i)
  PROVE  Inv' /\ (CostExact => CostExact')
<1>1. /\ list' \in Seq(Node) /\ Linked(list', lookup')
      /\ Weight(list') = Weight(list) - list[i].cost
      /\ Weight(list') \in Nat
  <2>1. RemoveAt(list, i) \in Seq(Node)
    BY InvIs, RemoveAtIs
  <2>2. Linked(RemoveAt(list, i), Forget(lookup, {list[i].key}))
    BY InvIs, LinkedRemoveAt
  <2>3. Weight(RemoveAt(list, i)) = Weight(list) - list[i].cost
    BY InvIs, WeightRemoveAt
  <2>4. Weight(RemoveAt(list, i)) \in Nat
    BY <2>1, WeightIs
  <2> QED BY <2>1, <2>2, <2>3, <2>4 DEF EraseAt
<1>2. list[i].cost \in Nat
  <2>1. list[i] \in Node
    BY InvIs
  <2> QED BY <2>1 DEF Node
<1>3. cost' = cost - list[i].cost /\ ret' = NoKey /\ spinning' = spinning
  BY DEF EraseAt
<1>4. cost' \in Nat /\ Weight(list') <= cost' /\ cost' <= MaxCost
  BY <1>1, <1>2, <1>3, InvIs
<1>5. DOMAIN lookup' \subseteq Key /\ \A k \in DOMAIN lookup' : lookup'[k] \in Addr
  BY InvIs DEF EraseAt, Forget
<1>6. TypeOK'
  BY <1>1, <1>3, <1>4, <1>5 DEF TypeOK, Inv
<1>7. CostExact => CostExact'
  BY <1>1, <1>3 DEF CostExact
<1> QED BY <1>1, <1>4, <1>6, <1>7 DEF Inv, Coherent, WithinBudget

\* Touching an element.
LEMMA TouchInv ==
  ASSUME Inv, NEW k \in Key, Touch(k)
  PROVE  Inv' /\ (CostExact => CostExact')
<1> DEFINE i == Position(list, lookup[k])
<1>1. k \in DOMAIN lookup
  BY DEF Touch
<1>2. i \in DOMAIN list
  BY <1>1, CachedIs
<1>3. list' = (IF i = 1 THEN list ELSE Reorder(list, i)) /\ ret' = k
      /\ lookup' = lookup /\ cost' = cost /\ spinning' = spinning
  BY DEF Touch
<1> HIDE DEF i
<1>4. /\ Reorder(list, i) \in Seq(Node)
      /\ Linked(Reorder(list, i), lookup)
      /\ Weight(Reorder(list, i)) = Weight(RemoveAt(list, i)) + list[i].cost
  BY <1>2, InvIs, ReorderIs
<1>5. Weight(RemoveAt(list, i)) = Weight(list) - list[i].cost
  BY <1>2, InvIs, WeightRemoveAt
<1>6. list[i].cost \in Nat
  <2>1. list[i] \in Node
    BY <1>2, InvIs
  <2> QED BY <2>1 DEF Node
<1>7. list' \in Seq(Node) /\ Linked(list', lookup') /\ Weight(list') = Weight(list)
  BY <1>3, <1>4, <1>5, <1>6, InvIs
<1>8. TypeOK'
  BY <1>3, <1>7 DEF TypeOK, Inv
<1>9. WithinBudget' /\ (CostExact => CostExact')
  BY <1>3, <1>7, InvIs DEF WithinBudget, CostExact
<1> QED BY <1>7, <1>8, <1>9 DEF Inv, Coherent

\* Trimming to n nodes.
LEMMA TrimIs ==
  ASSUME Inv, NEW n \in 0..Len(list)
  PROVE  LET kept  == SubSeq(list, 1, n)
             table == Forget(lookup, {list[i].key : i \in (n + 1)..Len(list)})
         IN  /\ kept \in Seq(Node)
             /\ Linked(kept, table)
             /\ Weight(kept) \in Nat
             /\ CostAfterTrim(n) = cost - Weight(list) + Weight(kept)
             /\ DOMAIN table \subseteq Key
             /\ \A k \in DOMAIN table : table[k] \in Addr
<1> DEFINE kept == SubSeq(list, 1, n)
           table == Forget(lookup, {list[i].key : i \in (n + 1)..Len(list)})
<1>1. kept \in Seq(Node)
  BY InvIs, PrefixIs
<1>2. Linked(kept, table)
  BY InvIs, LinkedPrefix
<1>3. Weight(kept) = PrefixCost(list)[n]
  BY InvIs, WeightPrefix
<1>4. Weight(kept) \in Nat
  BY <1>1, WeightIs
<1>5. CostAfterTrim(n) = cost - Weight(list) + Weight(kept)
  BY <1>3, <1>4, InvIs DEF CostAfterTrim
<1>6. DOMAIN table \subseteq Key /\ \A k \in DOMAIN table : table[k] \in Addr
  BY InvIs DEF Forget
<1> QED BY <1>1, <1>2, <1>4, <1>5, <1>6

\* insert after trimming.
LEMMA TrimmedInv ==
  ASSUME Inv, NEW k \in Key, NEW v \in Val, NEW c \in Nat \ {0},
         InsertTrimmed(k, v, c), spinning' = spinning
  PROVE  Inv' /\ (CostExact => CostExact')
<1>1. PICK n \in 0..Len(list) :
        /\ StopsAt(c, n)
        /\ LET kept  == SubSeq(list, 1, n)
               table == Forget(lookup, {list[i].key : i \in (n + 1)..Len(list)})
           IN  \/ /\ k \in DOMAIN table
                  /\ LET i == Position(kept, table[k])
                     IN  /\ list' = UpdateNode(kept, i, v, c)
                         /\ cost' = CostAfterTrim(n) - kept[i].cost + c
                  /\ lookup' = table
               \/ /\ k \notin DOMAIN table
                  /\ \E a \in FreeAddr(kept) :
                       /\ list' = AtTop(kept, [id |-> a, key |-> k, val |-> v, cost |-> c])
                       /\ lookup' = Remember(table, k, a)
                  /\ cost' = CostAfterTrim(n) + c
  BY DEF InsertTrimmed
<1> DEFINE kept == SubSeq(list, 1, n)
           table == Forget(lookup, {list[i].key : i \in (n + 1)..Len(list)})
           i == Position(kept, table[k])
<1>2. /\ kept \in Seq(Node) /\ Linked(kept, table) /\ Weight(kept) \in Nat
      /\ CostAfterTrim(n) = cost - Weight(list) + Weight(kept)
      /\ DOMAIN table \subseteq Key /\ \A x \in DOMAIN table : table[x] \in Addr
  BY TrimIs
<1>3. c + CostAfterTrim(n) <= MaxCost
  BY <1>1 DEF StopsAt, Fitting
<1>4. \/ /\ k \in DOMAIN table
         /\ list' = UpdateNode(kept, i, v, c)
         /\ cost' = CostAfterTrim(n) - kept[i].cost + c
         /\ lookup' = table
      \/ /\ k \notin DOMAIN table
         /\ \E a \in FreeAddr(kept) :
              /\ list' = AtTop(kept, [id |-> a, key |-> k, val |-> v, cost |-> c])
              /\ lookup' = Remember(table, k, a)
         /\ cost' = CostAfterTrim(n) + c
  BY <1>1
<1> HIDE DEF kept, table
<1> SUFFICES /\ list' \in Seq(Node) /\ Linked(list', lookup')
             /\ cost' - Weight(list') = cost - Weight(list)
             /\ cost' \in Int /\ cost' <= MaxCost
             /\ DOMAIN lookup' \subseteq Key
             /\ \A x \in DOMAIN lookup' : lookup'[x] \in Addr
  <2>1. Weight(list') \in Nat
    BY WeightIs
  <2>2. cost' \in Nat /\ Weight(list') <= cost' /\ (CostExact => CostExact')
    BY <2>1, InvIs DEF CostExact
  <2>3. ret' \in Key \cup {NoKey}
    <3>1. list' # <<>> => list'[1] \in Node
      OBVIOUS
    <3> QED BY <3>1 DEF InsertTrimmed, TopKey, Node
  <2>4. TypeOK'
    BY <2>2, <2>3 DEF TypeOK, Inv
  <2> QED BY <2>2, <2>4 DEF Inv, Coherent, WithinBudget
<1>5. CASE k \in DOMAIN table
  <2>1. i \in DOMAIN kept
    BY <1>2, <1>5, PositionIs
  <2>2. list' = UpdateNode(kept, i, v, c) /\ lookup' = table
        /\ cost' = CostAfterTrim(n) - kept[i].cost + c
    BY <1>4, <1>5
  <2> HIDE DEF i
  <2>3. /\ list' \in Seq(Node) /\ Linked(list', lookup')
        /\ Weight(list') = Weight(kept) - kept[i].cost + c
    BY <1>2, <2>1, <2>2, UpdateNodeIs
  <2>4. kept[i].cost \in Nat
    <3>1. kept[i] \in Node
      BY <1>2, <2>1
    <3> QED BY <3>1 DEF Node
  <2>5. cost' - Weight(list') = cost - Weight(list) /\ cost' \in Int /\ cost' <= MaxCost
    <3>1. cost \in Nat /\ Weight(list) \in Nat /\ Weight(kept) \in Nat /\ MaxCost \in Nat
      BY <1>2, InvIs
    <3>2. CostAfterTrim(n) \in Int /\ CostAfterTrim(n) = cost - Weight(list) + Weight(kept)
      BY <1>2, <3>1
    <3>3. cost' = CostAfterTrim(n) - kept[i].cost + c
      BY <2>2
    <3>4. Weight(list') = Weight(kept) - kept[i].cost + c
      BY <2>3
    <3>5. c \in Nat
      OBVIOUS
    <3> HIDE DEF kept
    <3> DEFINE x == CostAfterTrim(n)
               y == kept[i].cost
               w == Weight(list)
               wk == Weight(kept)
               ww == Weight(list')
    <3>6. x \in Int /\ y \in Nat /\ c + x <= MaxCost /\ cost' = x - y + c
      BY <1>3, <2>4, <3>2, <3>3
    <3>9. /\ w \in Nat /\ wk \in Nat /\ cost \in Nat
           /\ x = cost - w + wk
           /\ ww = wk - y + c
      BY <3>1, <3>2, <3>4
    <3> HIDE DEF x, y, w, wk, ww
    <3>7. cost' \in Int /\ cost' <= MaxCost
      BY <3>1, <3>5, <3>6
    <3>8. cost' - ww = cost - w
      BY <3>5, <3>6, <3>9
    <3> QED BY <3>7, <3>8 DEF w, ww
  <2> QED BY <1>2, <2>2, <2>3, <2>5
<1>6. CASE k \notin DOMAIN table
  <2>1. PICK a \in FreeAddr(kept) :
          /\ list' = AtTop(kept, [id |-> a, key |-> k, val |-> v, cost |-> c])
          /\ lookup' = Remember(table, k, a)
    BY <1>4, <1>6
  <2> DEFINE nd == [id |-> a, key |-> k, val |-> v, cost |-> c]
  <2>2. a \in Addr
    BY DEF FreeAddr
  <2>3. nd \in Node /\ nd.key = k /\ nd.id = a /\ nd.cost = c
    BY <2>2 DEF Node
  <2>4. list' = AtTop(kept, nd) /\ lookup' = Remember(table, nd.key, nd.id)
    BY <2>1, <2>3
  <2>5. cost' = CostAfterTrim(n) + c
    BY <1>4, <1>6
  <2> HIDE DEF nd
  <2>6. list' \in Seq(Node) /\ Weight(list') = Weight(kept) + c
    BY <1>2, <2>3, <2>4, AtTopIs, WeightAtTop
  <2>7. Linked(list', lookup')
    BY <1>2, <1>6, <2>3, <2>4, LinkedAtTop
  <2>8. cost' - Weight(list') = cost - Weight(list) /\ cost' \in Int /\ cost' <= MaxCost
    BY <1>2, <1>3, <2>5, <2>6, InvIs
  <2>9. DOMAIN lookup' \subseteq Key /\ \A x \in DOMAIN lookup' : lookup'[x] \in Addr
    BY <1>2, <2>1, <2>2 DEF Remember
  <2> QED BY <2>6, <2>7, <2>8, <2>9
<1> QED BY <1>5, <1>6

\* The trimming loop runs forever only when the counter claims more than the
\* nodes cost.
LEMMA SpinsInv ==
  ASSUME Inv, NEW c \in Nat \ {0}, InsertSpins(c)
  PROVE  Inv' /\ ~CostExact
<1> DEFINE e == SubSeq(list, 1, 0)
<1>1. 0 \in 0..Len(list)
  BY InvIs
<1>2. e \in Seq(Node) /\ Weight(e) \in Nat /\ CostAfterTrim(0) = cost - Weight(list) + Weight(e)
  BY <1>1, TrimIs
<1>3. e = <<>>
  BY InvIs
<1>4. Weight(e) = 0
  BY <1>2, <1>3, WeightIs
<1>5. CostAfterTrim(0) = cost - Weight(list)
  BY <1>2, <1>4, InvIs
<1>6. c < MaxCost /\ Fitting(c) = {}
  BY DEF InsertSpins
<1>7. ~(c + CostAfterTrim(0) <= MaxCost)
  BY <1>1, <1>6 DEF Fitting
<1>8. ~CostExact
  BY <1>5, <1>6, <1>7, InvIs DEF CostExact
<1>9. list' = <<>> /\ lookup' = <<>> /\ cost' = CostAfterTrim(0) /\ ret' = NoKey /\ spinning' = TRUE
  BY DEF InsertSpins
<1>10. <<>> \in Seq(Node) /\ DOMAIN <<>> = {}
  OBVIOUS
<1>11. Weight(list') = 0
  BY <1>9, <1>10, WeightIs
<1>12. cost' \in Nat /\ cost' <= MaxCost
  BY <1>5, <1>9, InvIs
<1>13. TypeOK'
  BY <1>9, <1>10, <1>12 DEF TypeOK
<1>14. Coherent'
  BY <1>9, <1>10 DEF Coherent, Linked, DistinctNodes, NodesIndexed, NoDanglingEntry
<1>15. WithinBudget'
  BY <1>11, <1>12 DEF WithinBudget
<1> QED BY <1>8, <1>13, <1>14, <1>15 DEF Inv

\* insert, whichever way it goes.
LEMMA InsertInv ==
  ASSUME Inv, NEW k \in Key, NEW v \in Val, NEW c \in Nat \ {0}, Insert(k, v, c)
  PROVE  /\ Inv'
         /\ Policy = "lru" /\ CostExact => CostExact' /\ spinning' = spinning
<1>1. CASE InsertSpins(c)
  BY <1>1, SpinsInv
<1>2. CASE InsertReturns(k, v, c)
  <2>0. spinning' = spinning /\ spinning' \in BOOLEAN
    BY <1>2 DEF InsertReturns, Inv, TypeOK
  <2>1. CASE InsertTooCostly(c)
    BY <2>0, <2>1, EmptyInv DEF InsertTooCostly
  <2>2. CASE InsertWholeHit(k, v, c)
    BY <2>0, <2>2, WholeHitInv
  <2>3. CASE InsertWholeMiss(k, v, c)
    BY <2>0, <2>3, WholeMissInv
  <2>4. CASE InsertTrimmed(k, v, c)
    BY <2>0, <2>4, TrimmedInv
  <2> QED BY <1>2, <2>1, <2>2, <2>3, <2>4 DEF InsertReturns
<1> QED BY <1>1, <1>2 DEF Insert

\* Every step preserves the invariant, and under the least-recently-used policy
\* the exactness of the counter.
LEMMA NextInv ==
  ASSUME Inv, [Next]_vars
  PROVE  /\ Inv'
         /\ Policy = "lru" /\ CostExact => CostExact' /\ spinning' = spinning
<1>1. CASE \E k \in Key, v \in Val, c \in Cost : Insert(k, v, c)
  BY <1>1, InsertInv
<1>2. CASE \E k \in Key : Erase(k)
  <2>1. PICK k \in Key : Erase(k)
    BY <1>2
  <2>2. Position(list, lookup[k]) \in DOMAIN list
    BY <2>1, CachedIs DEF Erase
  <2>3. EraseAt(Position(list, lookup[k])) /\ spinning' = spinning
    BY <2>1 DEF Erase, EraseAt
  <2> QED BY <2>2, <2>3, EraseInv
<1>3. CASE Pop
  <2>1. Len(list) \in DOMAIN list
    BY <1>3, InvIs DEF Pop
  <2>2. EraseAt(Len(list)) /\ spinning' = spinning
    BY <1>3 DEF Pop, EraseAt
  <2> QED BY <2>1, <2>2, EraseInv
<1>4. CASE \E k \in Key : Touch(k)
  BY <1>4, TouchInv DEF Touch
<1>5. CASE \E k \in Key : Index(k)
  <2>1. PICK k \in Key : Touch(k) \/ Insert(k, DefaultVal, 1)
    BY <1>5 DEF Index
  <2>2. CASE Touch(k)
    BY <2>2, TouchInv DEF Touch
  <2>3. CASE Insert(k, DefaultVal, 1)
    BY <2>3, InsertInv
  <2> QED BY <2>1, <2>2, <2>3
<1>6. CASE Clear
  <2>1. spinning' = spinning /\ ret' = NoKey /\ ClearAll /\ spinning \in BOOLEAN
    BY <1>6 DEF Clear, Inv, TypeOK
  <2> QED BY <2>1, EmptyInv
<1>7. CASE UNCHANGED vars
  BY <1>7 DEF vars, Inv, TypeOK, Coherent, WithinBudget, CostExact
<1> QED BY <1>1, <1>2, <1>3, <1>4, <1>5, <1>6, <1>7 DEF Next

-----------------------------------------------------------------------------
(* Theorems *)

\* Under either policy, whatever sequence of calls is made: the cache is well
\* typed, the list and the lookup table describe the same elements, and the
\* elements never cost more than the counter says nor that more than the budget.
THEOREM CacheSafety == Spec => [](TypeOK /\ Coherent /\ WithinBudget)
<1>1. Init => Inv
  BY InitInv DEF LruInv
<1>2. Inv /\ [Next]_vars => Inv'
  BY NextInv
<1> QED BY <1>1, <1>2, PTL DEF Spec, Inv

\* Under the least-recently-used policy the cost counter is always the exact
\* total, hence no insert trims forever.
THEOREM LruCostExact ==
  ASSUME Policy = "lru"
  PROVE  Spec => [](CostExact /\ TrimmingEnds)
<1>1. Init => LruInv
  BY InitInv
<1>2. LruInv /\ [Next]_vars => LruInv'
  BY NextInv DEF LruInv, TrimmingEnds
<1>3. LruInv => CostExact /\ TrimmingEnds
  BY DEF LruInv
<1> QED BY <1>1, <1>2, <1>3, PTL DEF Spec

\* The first part by itself: after any mix of calls, and under both policies, the list and
\* the lookup table of basic_cache describe the same elements.
THEOREM CacheCoherent == Spec => []Coherent
BY CacheSafety, PTL

\* The second part of the theorem before it: the trimming loop of insert comes to an end.
THEOREM LruTrimmingEnds ==
  ASSUME Policy = "lru"
  PROVE  Spec => []TrimmingEnds
BY LruCostExact, PTL

\* A miss of operator[] inserts a node that the policy places first, so that what begin()
\* refers to is the element asked for.
LEMMA InsertYieldsKey ==
  ASSUME LruInv, Policy = "lru", NEW k \in Key, k \notin DOMAIN lookup,
         NEW v \in Val, NEW c \in Nat \ {0}, c <= MaxCost, Insert(k, v, c)
  PROVE  ret' = k
<1>1. ~InsertSpins(c)
  BY SpinsInv DEF LruInv
<1>2. ~InsertTooCostly(c)
  BY InvIs DEF InsertTooCostly, LruInv
<1>3. ~InsertWholeHit(k, v, c)
  BY DEF InsertWholeHit
<1>4. CASE InsertWholeMiss(k, v, c)
  BY <1>4 DEF InsertWholeMiss
<1>5. CASE InsertTrimmed(k, v, c)
  <2>1. PICK n \in 0..Len(list) :
          LET kept  == SubSeq(list, 1, n)
              table == Forget(lookup, {list[i].key : i \in (n + 1)..Len(list)})
          IN  k \notin DOMAIN table =>
                \E a \in FreeAddr(kept) :
                  list' = AtTop(kept, [id |-> a, key |-> k, val |-> v, cost |-> c])
    BY <1>5 DEF InsertTrimmed
  <2>2. k \notin DOMAIN Forget(lookup, {list[i].key : i \in (n + 1)..Len(list)})
    BY DEF Forget
  <2> DEFINE kept == SubSeq(list, 1, n)
  <2>3. PICK a \in FreeAddr(kept) :
          list' = AtTop(kept, [id |-> a, key |-> k, val |-> v, cost |-> c])
    BY <2>1, <2>2
  <2> DEFINE nd == [id |-> a, key |-> k, val |-> v, cost |-> c]
  <2>4. kept \in Seq(Node)
    BY InvIs, PrefixIs DEF LruInv
  <2>5. nd \in Node /\ nd.key = k
    BY DEF FreeAddr, Node
  <2>6. list' = AtTop(kept, nd)
    BY <2>3
  <2> HIDE DEF kept, nd
  <2>7. list'[1] = nd /\ list' # <<>>
    BY <2>4, <2>5, <2>6 DEF AtTop
  <2>8. ret' = TopKey(list')
    BY <1>5 DEF InsertTrimmed
  <2> QED BY <2>5, <2>7, <2>8 DEF TopKey
<1> QED BY <1>1, <1>2, <1>3, <1>4, <1>5 DEF Insert, InsertReturns

\* Under the least-recently-used policy operator[] gives access to the element with the key
\* it was called with, however much room its insert had to make.
THEOREM LruIndexYieldsKey ==
  ASSUME Policy = "lru"
  PROVE  Spec => IndexYieldsKey
<1>1. Init => LruInv
  BY InitInv
<1>2. LruInv /\ [Next]_vars => LruInv'
  BY NextInv DEF LruInv, TrimmingEnds
<1>3. LruInv /\ [Next]_vars => [\A k \in Key : Index(k) => ret' = k]_vars
  <2> SUFFICES ASSUME LruInv, NEW k \in Key, Index(k) PROVE ret' = k
    OBVIOUS
  <2>1. CASE Touch(k)
    BY <2>1 DEF Touch
  <2>2. CASE k \notin DOMAIN lookup /\ Insert(k, DefaultVal, 1)
    BY <2>2, InsertYieldsKey
  <2> QED BY <2>1, <2>2 DEF Index
<1> QED BY <1>1, <1>2, <1>3, PTL DEF Spec, IndexYieldsKey

-----------------------------------------------------------------------------
(* The refinement of RecencyCache *)

\* No two nodes of l have a key in common.
DistinctKeys(l) == \A i, j \in 1..Len(l) : l[i].key = l[j].key => i = j

\* The keys of the first n nodes of l.
FirstKeys(l, n) == {l[i].key : i \in 1..n}

\* m is what t finds in l, the keys of which are distinct.
ReadOff(l, t, m) ==
  /\ DistinctKeys(l)
  /\ DOMAIN t = FirstKeys(l, Len(l)) /\ DOMAIN m = DOMAIN t
  /\ \A i \in 1..Len(l) : m[l[i].key] = [val |-> l[i].val, cost |-> l[i].cost]

\* f has the costs of l by their keys.
Costed(l, f) == \A i \in 1..Len(l) : f[l[i].key] = l[i].cost

\* The costs that the map m holds.
CostsIn(m) == [x \in DOMAIN m |-> m[x].cost]

\* The keys of a list, position by position.
LEMMA KeysInIs ==
  ASSUME NEW l \in Seq(Node)
  PROVE  /\ KeysIn(l) \in Seq(Key) /\ Len(KeysIn(l)) = Len(l) /\ DOMAIN KeysIn(l) = 1..Len(l)
         /\ \A i \in 1..Len(l) : KeysIn(l)[i] = l[i].key
<1>1. Len(l) \in Nat /\ DOMAIN l = 1..Len(l) /\ \A i \in 1..Len(l) : l[i].key \in Key
  <2>1. Len(l) \in Nat /\ DOMAIN l = 1..Len(l) /\ \A i \in 1..Len(l) : l[i] \in Node
    OBVIOUS
  <2> QED BY <2>1 DEF Node
<1> DEFINE s == [i \in 1..Len(l) |-> l[i].key]
<1>2. s \in Seq(Key) /\ Len(s) = Len(l) /\ DOMAIN s = 1..Len(l)
  BY <1>1
<1>3. KeysIn(l) = s
  BY <1>1 DEF KeysIn
<1> QED BY <1>2, <1>3

\* In a list that is linked to the table t each key is in one place, which t leads to.
LEMMA KeysPlaced ==
  ASSUME NEW l \in Seq(Node), NEW t, Linked(l, t)
  PROVE  ReadOff(l, t, Stored(l, t))
<1>1. /\ \A a, b \in 1..Len(l) : l[a].id = l[b].id => a = b
      /\ \A a \in 1..Len(l) : l[a].key \in DOMAIN t /\ t[l[a].key] = l[a].id
      /\ \A k \in DOMAIN t : \E a \in 1..Len(l) : l[a].id = t[k] /\ l[a].key = k
  <2>1. LinkedAt(l, t)
    BY LinkedIs
  <2> QED BY <2>1 DEF LinkedAt
<1>2. ASSUME NEW i \in 1..Len(l) PROVE Position(l, t[l[i].key]) = i
  <2>1. l[i].key \in DOMAIN t /\ t[l[i].key] = l[i].id
    BY <1>1
  <2>2. /\ Position(l, t[l[i].key]) \in 1..Len(l)
        /\ l[Position(l, t[l[i].key])].id = t[l[i].key]
    BY <2>1, PositionIs
  <2> QED BY <1>1, <2>1, <2>2
<1>3. ASSUME NEW i \in 1..Len(l)
      PROVE  Stored(l, t)[l[i].key] = [val |-> l[i].val, cost |-> l[i].cost]
  BY <1>1, <1>2 DEF Stored
<1>4. DOMAIN t = FirstKeys(l, Len(l))
  <2> DEFINE D == DOMAIN t
  <2>1. \A a \in 1..Len(l) : l[a].key \in D
    BY <1>1
  <2>2. \A k \in D : \E a \in 1..Len(l) : l[a].key = k
    BY <1>1
  <2> HIDE DEF D
  <2>3. D = FirstKeys(l, Len(l))
    BY <2>1, <2>2 DEF FirstKeys
  <2> QED BY <2>3 DEF D
<1>5. DOMAIN Stored(l, t) = DOMAIN t
  BY DEF Stored
<1>6. DistinctKeys(l)
  BY <1>1 DEF DistinctKeys
<1> QED BY <1>3, <1>4, <1>5, <1>6 DEF ReadOff

\* What the table finds in a list has the costs of the list.
LEMMA ReadCosts ==
  ASSUME NEW l, NEW t, NEW m, ReadOff(l, t, m)
  PROVE  Costed(l, CostsIn(m))
<1> SUFFICES ASSUME NEW i \in 1..Len(l) PROVE CostsIn(m)[l[i].key] = l[i].cost
  BY DEF Costed
<1>1. l[i].key \in DOMAIN m
  BY DEF ReadOff, FirstKeys
<1>2. m[l[i].key] = [val |-> l[i].val, cost |-> l[i].cost]
  BY DEF ReadOff
<1> QED BY <1>1, <1>2 DEF CostsIn

\* The first n elements of a list cost together what their keys cost.
LEMMA KeysCost ==
  ASSUME NEW l \in Seq(Node), DistinctKeys(l), NEW f, Costed(l, f), NEW m \in 0..Len(l)
  PROVE  SumOn(f, FirstKeys(l, m)) = PrefixCost(l)[m] /\ IsFiniteSet(FirstKeys(l, m))
<1> USE DEF DistinctKeys, Costed
<1> DEFINE K(n) == {l[i].key : i \in 1..n}
           P(n) == n <= Len(l) => SumOn(f, K(n)) = PrefixCost(l)[n] /\ IsFiniteSet(K(n))
           S == {n \in Nat : P(n)}
<1>0. /\ Len(l) \in Nat /\ \A i \in 1..Len(l) : l[i].cost \in Int
      /\ PrefixCost(l)[0] = 0
      /\ \A n \in 1..Len(l) : PrefixCost(l)[n] = PrefixCost(l)[n - 1] + l[n].cost
      /\ \A n \in 0..Len(l) : PrefixCost(l)[n] \in Nat
  <2>1. Len(l) \in Nat /\ \A i \in 1..Len(l) : l[i] \in Node
    OBVIOUS
  <2>2. \A i \in 1..Len(l) : l[i].cost \in Int
    BY <2>1 DEF Node
  <2>3. RunningTotal(PrefixCost(l), l, Len(l))
    BY PrefixCostIs
  <2> QED BY <2>1, <2>2, <2>3 DEF RunningTotal
<1>1. 0 \in S
  <2>1. K(0) = {} /\ IsFiniteSet({})
    BY FS_EmptySet
  <2>2. SumOn(f, {}) = 0
    BY <2>1, SumType DEF Terms
  <2> QED BY <1>0, <2>1, <2>2
<1>2. ASSUME NEW n \in S PROVE n + 1 \in S
  <2> SUFFICES ASSUME n + 1 <= Len(l) PROVE P(n + 1)
    OBVIOUS
  <2>1. n \in Nat /\ n + 1 \in 1..Len(l) /\ SumOn(f, K(n)) = PrefixCost(l)[n] /\ IsFiniteSet(K(n))
    BY <1>0
  <2>2. K(n + 1) = K(n) \cup {l[n + 1].key} /\ l[n + 1].key \notin K(n)
    BY <2>1, <1>0
  <2>4. Terms(f, K(n + 1))
    BY <1>0, <2>1 DEF Terms
  <2> HIDE DEF K
  <2>3. IsFiniteSet(K(n + 1))
    <3> DEFINE A == K(n)
               B == K(n + 1)
    <3>1. IsFiniteSet(A) /\ B = A \cup {l[n + 1].key}
      BY <2>1, <2>2
    <3> HIDE DEF A, B
    <3>2. IsFiniteSet(B)
      BY <3>1, FS_AddElement
    <3> QED BY <3>2 DEF B
  <2>5. SumOn(f, K(n + 1)) = f[l[n + 1].key] + SumOn(f, K(n))
    BY <2>1, <2>2, <2>4, SumAdd
  <2>6. f[l[n + 1].key] = l[n + 1].cost /\ l[n + 1].cost \in Int
    BY <1>0, <2>1
  <2>7. PrefixCost(l)[n + 1] = PrefixCost(l)[n] + l[n + 1].cost
    BY <1>0, <2>1
  <2>8. PrefixCost(l)[n] \in Int
    BY <1>0, <2>1
  <2> QED BY <2>1, <2>3, <2>5, <2>6, <2>7, <2>8
<1>3. S \in SUBSET Nat
  OBVIOUS
<1> HIDE DEF S
<1>4. \A n \in Nat : n \in S
  BY <1>1, <1>2, <1>3, SetInduction
<1>6. K(m) = FirstKeys(l, m)
  BY DEF FirstKeys
<1> HIDE DEF K
<1>5. P(m) /\ m <= Len(l)
  BY <1>0, <1>4 DEF S
<1> QED BY <1>5, <1>6

\* Without leaves out the one place of a key.
LEMMA WithoutIs ==
  ASSUME NEW S, NEW s \in Seq(S), \A i, j \in 1..Len(s) : s[i] = s[j] => i = j, NEW k
  PROVE  /\ \A i \in 1..Len(s) : s[i] = k => Abstract!Without(s, k) = RemoveAt(s, i)
         /\ (\A i \in 1..Len(s) : s[i] # k) => Abstract!Without(s, k) = s
<1>1. DOMAIN s = 1..Len(s)
  OBVIOUS
<1>2. ASSUME NEW i \in 1..Len(s), s[i] = k PROVE Abstract!Without(s, k) = RemoveAt(s, i)
  <2>1. (CHOOSE j \in DOMAIN s : s[j] = k) = i
    BY <1>1, <1>2
  <2>2. Abstract!Without(s, k) = Abstract!RemoveAt(s, CHOOSE j \in DOMAIN s : s[j] = k)
    BY <1>1, <1>2 DEF Abstract!Without
  <2> QED BY <2>1, <2>2 DEF Abstract!RemoveAt, RemoveAt
<1> QED BY <1>1, <1>2 DEF Abstract!Without


\* Two sequences with the same elements are equal.
LEMMA SeqsEqual ==
  ASSUME NEW S, NEW s \in Seq(S), NEW u \in Seq(S), Len(s) = Len(u),
         \A i \in 1..Len(s) : s[i] = u[i]
  PROVE  s = u
OBVIOUS

\* A node placed in front.
LEMMA ConsIs ==
  ASSUME NEW S, NEW x \in S, NEW s \in Seq(S)
  PROVE  /\ <<x>> \o s \in Seq(S) /\ Len(<<x>> \o s) = Len(s) + 1
         /\ (<<x>> \o s)[1] = x
         /\ \A j \in 1..Len(s) : (<<x>> \o s)[j + 1] = s[j]
OBVIOUS

\* The keys of a list that is put together, cut off, or has a node removed.
LEMMA KeysInParts ==
  ASSUME NEW l \in Seq(Node)
  PROVE  /\ \A nd \in Node : KeysIn(<<nd>> \o l) = <<nd.key>> \o KeysIn(l)
         /\ \A n \in 0..Len(l) : KeysIn(SubSeq(l, 1, n)) = SubSeq(KeysIn(l), 1, n)
         /\ \A i \in 1..Len(l) : KeysIn(RemoveAt(l, i)) = RemoveAt(KeysIn(l), i)
<1> DEFINE o == KeysIn(l)
<1>1. o \in Seq(Key) /\ Len(o) = Len(l) /\ \A i \in 1..Len(l) : o[i] = l[i].key
  BY KeysInIs
<1>2. Len(l) \in Nat /\ DOMAIN l = 1..Len(l) /\ DOMAIN o = 1..Len(o)
  BY <1>1
<1> HIDE DEF o
<1>3. ASSUME NEW nd \in Node PROVE KeysIn(<<nd>> \o l) = <<nd.key>> \o o
  <2>1. nd.key \in Key
    BY DEF Node
  <2>2. /\ <<nd>> \o l \in Seq(Node) /\ Len(<<nd>> \o l) = Len(l) + 1 /\ (<<nd>> \o l)[1] = nd
        /\ \A j \in 1..Len(l) : (<<nd>> \o l)[j + 1] = l[j]
    BY ConsIs
  <2>3. /\ <<nd.key>> \o o \in Seq(Key) /\ Len(<<nd.key>> \o o) = Len(l) + 1
        /\ (<<nd.key>> \o o)[1] = nd.key
        /\ \A j \in 1..Len(l) : (<<nd.key>> \o o)[j + 1] = o[j]
    BY <1>1, <2>1, ConsIs
  <2> DEFINE q == <<nd>> \o l
             r == <<nd.key>> \o o
  <2> HIDE DEF q, r
  <2>4. /\ q \in Seq(Node) /\ Len(q) = Len(l) + 1 /\ q[1] = nd
        /\ r \in Seq(Key) /\ Len(r) = Len(l) + 1 /\ r[1] = nd.key
        /\ \A j \in 1..Len(l) : q[j + 1] = l[j] /\ r[j + 1] = o[j]
    BY <2>2, <2>3 DEF q, r
  <2>5. KeysIn(q) \in Seq(Key) /\ Len(KeysIn(q)) = Len(q) /\ \A i \in 1..Len(q) : KeysIn(q)[i] = q[i].key
    BY <2>4, KeysInIs
  <2>6. ASSUME NEW i \in 1..Len(q) PROVE KeysIn(q)[i] = r[i]
    <3>1. CASE i = 1
      BY <2>4, <2>5, <3>1
    <3>2. CASE i # 1
      <4>1. PICK j \in 1..Len(l) : i = j + 1
        <5>1. i - 1 \in 1..Len(l) /\ i = (i - 1) + 1
          BY <1>2, <2>4, <3>2
        <5> QED BY <5>1
      <4>2. q[i] = l[j] /\ r[i] = o[j] /\ o[j] = l[j].key
        BY <1>1, <2>4, <4>1
      <4> QED BY <2>5, <4>2
    <3> QED BY <3>1, <3>2
  <2>7. KeysIn(q) = r
    BY <2>4, <2>5, <2>6, SeqsEqual
  <2> QED BY <2>7 DEF q, r
<1>4. ASSUME NEW n \in 0..Len(l) PROVE KeysIn(SubSeq(l, 1, n)) = SubSeq(o, 1, n)
  <2> DEFINE q == SubSeq(l, 1, n)
             r == SubSeq(o, 1, n)
  <2>1. q \in Seq(Node) /\ Len(q) = n /\ \A j \in 1..n : q[j] = l[j]
    BY PrefixIs
  <2>2. r \in Seq(Key) /\ Len(r) = n /\ \A j \in 1..n : r[j] = o[j]
    BY <1>1, PrefixIs
  <2> HIDE DEF q, r
  <2>3. KeysIn(q) \in Seq(Key) /\ Len(KeysIn(q)) = n /\ \A i \in 1..n : KeysIn(q)[i] = q[i].key
    BY <2>1, KeysInIs
  <2>4. \A i \in 1..n : KeysIn(q)[i] = r[i]
    BY <1>1, <1>2, <2>1, <2>2, <2>3
  <2>5. KeysIn(q) = r
    BY <2>2, <2>3, <2>4, SeqsEqual
  <2> QED BY <2>5 DEF q, r
<1>5. ASSUME NEW i \in 1..Len(l) PROVE KeysIn(RemoveAt(l, i)) = RemoveAt(o, i)
  <2> DEFINE q == RemoveAt(l, i)
             r == RemoveAt(o, i)
             from(j) == IF j < i THEN j ELSE j + 1
  <2>1. q \in Seq(Node) /\ Len(q) = Len(l) - 1 /\ \A j \in 1..(Len(l) - 1) : q[j] = l[from(j)]
    BY <1>2, RemoveAtIs
  <2>2. r \in Seq(Key) /\ Len(r) = Len(l) - 1 /\ \A j \in 1..(Len(l) - 1) : r[j] = o[from(j)]
    <3>1. /\ r \in Seq(Key) /\ Len(r) = Len(o) - 1
          /\ \A j \in 1..(Len(o) - 1) : r[j] = o[from(j)]
      BY <1>1, <1>2, RemoveAtIs
    <3> QED BY <1>1, <3>1
  <2> HIDE DEF q, r
  <2>3. KeysIn(q) \in Seq(Key) /\ Len(KeysIn(q)) = Len(q) /\ \A j \in 1..Len(q) : KeysIn(q)[j] = q[j].key
    BY <2>1, KeysInIs
  <2>4. ASSUME NEW j \in 1..(Len(l) - 1) PROVE KeysIn(q)[j] = r[j]
    <3>1. from(j) \in 1..Len(l)
      BY <1>2
    <3> HIDE DEF from
    <3>2. KeysIn(q)[j] = q[j].key /\ q[j] = l[from(j)] /\ r[j] = o[from(j)] /\ o[from(j)] = l[from(j)].key
      BY <1>1, <2>1, <2>2, <2>3, <3>1
    <3> QED BY <3>2
  <2>5. KeysIn(q) = r
    BY <2>1, <2>2, <2>3, <2>4, SeqsEqual
  <2> QED BY <2>5 DEF q, r
<1> QED BY <1>3, <1>4, <1>5 DEF o

\* The two namings of the sum of costs.
LEMMA CostsAgree == \A costs, K : Abstract!CostOf(costs, K) = SumOn(costs, K)
BY DEF Abstract!CostOf, Abstract!MapThenSumSet, Abstract!MapThenFoldSet, SumOn, MapThenSumSet,
       MapThenFoldSet

\* A Put of which the first n keys are kept.
Puts(k, v, c, n, kept) ==
  /\ c <= MaxCost /\ n \in 0..Len(KeysIn(list))
  /\ kept = {KeysIn(list)[i] : i \in 1..n} \ {k}
  /\ SumOn(CostsIn(Stored(list, lookup)), kept) + c <= MaxCost
  /\ k \notin DOMAIN lookup /\ n < Len(KeysIn(list)) =>
       SumOn(CostsIn(Stored(list, lookup)), kept \cup {KeysIn(list)[n + 1]}) + c > MaxCost
  /\ Stored(list', lookup') =
       [x \in kept \cup {k} |->
          IF x = k THEN [val |-> v, cost |-> c] ELSE Stored(list, lookup)[x]]
  /\ KeysIn(list') = <<k>> \o Abstract!Without(SubSeq(KeysIn(list), 1, n), k)

\* Such a step is the abstract Put.
LEMMA PutIs ==
  ASSUME NEW k, NEW v, NEW c, NEW n, NEW kept, Puts(k, v, c, n, kept)
  PROVE  Abstract!Put(k, v, c)
<1>1. DOMAIN Stored(list, lookup) = DOMAIN lookup
  BY DEF Stored
<1> QED BY <1>1, CostsAgree DEF Puts, Abstract!Put, Abstract!Costs, CostsIn


\* What insert keeps of the first n nodes when it stores k: those with other keys.
KeptOf(l, n, k, rest) ==
  \/ rest = SubSeq(l, 1, n) /\ \A i \in 1..n : l[i].key # k
  \/ \E i \in 1..n : l[i].key = k /\ rest = RemoveAt(SubSeq(l, 1, n), i)

\* Such a rest holds the nodes of l, in their order.
KeptAre(l, n, k, rest) ==
  /\ rest \in Seq(Node)
  /\ \A j \in 1..Len(rest) : \E a \in 1..n : rest[j] = l[a] /\ l[a].key # k
  /\ \A a \in 1..n : l[a].key # k => \E j \in 1..Len(rest) : rest[j] = l[a]
  /\ KeysIn(rest) = Abstract!Without(SubSeq(KeysIn(l), 1, n), k)

\* Whichever way insert keeps them, these are the nodes that Put keeps.
LEMMA KeptIs ==
  ASSUME NEW l \in Seq(Node), DistinctKeys(l), NEW n \in 0..Len(l), NEW k, NEW rest,
         KeptOf(l, n, k, rest)
  PROVE  KeptAre(l, n, k, rest)
<1> USE DEF DistinctKeys, KeptAre
<1> DEFINE p == SubSeq(l, 1, n)
           o == SubSeq(KeysIn(l), 1, n)
<1>1. p \in Seq(Node) /\ Len(p) = n /\ \A j \in 1..n : p[j] = l[j]
  BY PrefixIs
<1>2. KeysIn(l) \in Seq(Key) /\ Len(KeysIn(l)) = Len(l) /\ \A i \in 1..Len(l) : KeysIn(l)[i] = l[i].key
  BY KeysInIs
<1>3. o \in Seq(Key) /\ Len(o) = n /\ \A j \in 1..n : o[j] = KeysIn(l)[j]
  BY <1>2, PrefixIs
<1>4. n \in Nat /\ \A j \in 1..n : j \in 1..Len(l)
  OBVIOUS
<1>5. KeysIn(p) = o
  BY KeysInParts
<1> HIDE DEF p, o
<1>6. \A j \in 1..n : o[j] = l[j].key
  BY <1>2, <1>3, <1>4
<1>7. \A i, j \in 1..Len(o) : o[i] = o[j] => i = j
  BY <1>3, <1>4, <1>6
<1>8. CASE rest = p /\ \A i \in 1..n : l[i].key # k
  <2>1. Abstract!Without(o, k) = o
    BY <1>3, <1>6, <1>7, <1>8, WithoutIs
  <2>2. KeysIn(rest) = Abstract!Without(o, k)
    BY <1>5, <1>8, <2>1
  <2>3. rest \in Seq(Node) /\ Len(rest) = n /\ \A j \in 1..n : rest[j] = l[j] /\ l[j].key # k
    BY <1>1, <1>8
  <2> QED BY <2>2, <2>3 DEF o
<1>9. CASE \E i \in 1..n : l[i].key = k /\ rest = RemoveAt(p, i)
  <2>1. PICK i \in 1..n : l[i].key = k /\ rest = RemoveAt(p, i)
    BY <1>9
  <2>2. /\ rest \in Seq(Node) /\ Len(rest) = n - 1
        /\ \A j \in 1..(n - 1) : rest[j] = p[IF j < i THEN j ELSE j + 1]
    <3>1. i \in DOMAIN p
      BY <1>1
    <3>2. /\ RemoveAt(p, i) \in Seq(Node) /\ Len(RemoveAt(p, i)) = Len(p) - 1
          /\ \A j \in 1..(Len(p) - 1) : RemoveAt(p, i)[j] = p[IF j < i THEN j ELSE j + 1]
      BY <1>1, <3>1, RemoveAtIs
    <3> QED BY <1>1, <2>1, <3>2
  <2>3. Abstract!Without(o, k) = RemoveAt(o, i)
    BY <1>3, <1>6, <1>7, <2>1, WithoutIs
  <2>4. KeysIn(RemoveAt(p, i)) = RemoveAt(KeysIn(p), i)
    BY <1>1, KeysInParts
  <2>5. KeysIn(rest) = Abstract!Without(o, k)
    BY <1>5, <2>1, <2>3, <2>4
  <2>6. ASSUME NEW j \in 1..Len(rest) PROVE \E a \in 1..n : rest[j] = l[a] /\ l[a].key # k
    <3> DEFINE a == IF j < i THEN j ELSE j + 1
    <3>1. a \in 1..n /\ a # i /\ j \in 1..(n - 1)
      BY <1>4, <2>2
    <3>2. rest[j] = p[a]
      BY <2>2, <3>1
    <3> HIDE DEF a
    <3>3. rest[j] = l[a] /\ l[a].key # k
      BY <1>1, <1>4, <2>1, <3>1, <3>2
    <3> QED BY <3>1, <3>3
  <2>7. ASSUME NEW a \in 1..n, l[a].key # k PROVE \E j \in 1..Len(rest) : rest[j] = l[a]
    <3> DEFINE j == IF a < i THEN a ELSE a - 1
    <3>1. j \in 1..(n - 1) /\ a = IF j < i THEN j ELSE j + 1
      BY <1>4, <2>1, <2>7
    <3> HIDE DEF j
    <3>2. rest[j] = p[a] /\ p[a] = l[a] /\ j \in 1..Len(rest)
      BY <1>1, <2>2, <3>1
    <3> QED BY <3>2
  <2> QED BY <2>2, <2>5, <2>6, <2>7 DEF o
<1> QED BY <1>8, <1>9 DEF KeptOf, p

\* An insert that keeps the most recent n nodes, but for one with its key, and puts its own
\* node in front of them is a Put.
LEMMA PutBy ==
  ASSUME LruInv, LruInv', NEW k \in Key, NEW v \in Val, NEW c \in Nat \ {0}, c <= MaxCost,
         NEW n \in 0..Len(list), NEW nd \in Node, nd.key = k, nd.val = v, nd.cost = c,
         NEW rest, KeptOf(list, n, k, rest), list' = <<nd>> \o rest,
         k \notin DOMAIN lookup /\ n < Len(list) => c + PrefixCost(list)[n + 1] > MaxCost
  PROVE  Abstract!Put(k, v, c)
<1> DEFINE o == KeysIn(list)
           kept == {o[i] : i \in 1..n} \ {k}
           old == Stored(list, lookup)
           new == Stored(list', lookup')
<1>1. /\ list \in Seq(Node) /\ Len(list) \in Nat /\ Linked(list, lookup) /\ MaxCost \in Nat
      /\ DOMAIN lookup \subseteq Key
  BY InvIs DEF LruInv
<1>2. list' \in Seq(Node) /\ Len(list') \in Nat /\ Linked(list', lookup')
      /\ Weight(list') <= cost' /\ cost' <= MaxCost /\ Weight(list') \in Nat /\ cost' \in Nat
  <2>1. TypeOK' /\ Coherent' /\ WithinBudget'
    BY DEF LruInv, Inv
  <2>2. list' \in Seq(Node) /\ Linked(list', lookup') /\ Weight(list') <= cost' /\ cost' <= MaxCost
        /\ cost' \in Nat
    BY <2>1 DEF TypeOK, Coherent, WithinBudget, Linked, DistinctNodes, NodesIndexed, NoDanglingEntry,
                Weight, PrefixCost
  <2>3. \A l \in Seq(Node) : Weight(l) \in Nat
    BY WeightIs
  <2>4. Len(list') \in Nat
    BY <2>2
  <2> QED BY <2>2, <2>3, <2>4
<1>old. ReadOff(list, lookup, old)
  BY <1>1, KeysPlaced
<1>new. ReadOff(list', lookup', new)
  BY <1>2, KeysPlaced
<1>kept. KeptAre(list, n, k, rest)
  BY <1>1, <1>old, KeptIs DEF ReadOff
<1> HIDE DEF old, new
<1>3. /\ \A x : x \in DOMAIN lookup <=> \E i \in 1..Len(list) : x = list[i].key
      /\ \A i \in 1..Len(list) : old[list[i].key] = [val |-> list[i].val, cost |-> list[i].cost]
  BY <1>old DEF ReadOff, FirstKeys
<1>4. /\ \A i, j \in 1..Len(list') : list'[i].key = list'[j].key => i = j
      /\ \A x : x \in DOMAIN lookup' <=> \E i \in 1..Len(list') : x = list'[i].key
      /\ \A i \in 1..Len(list') : new[list'[i].key] = [val |-> list'[i].val, cost |-> list'[i].cost]
  BY <1>new DEF ReadOff, FirstKeys, DistinctKeys
<1>5. /\ rest \in Seq(Node)
      /\ \A j \in 1..Len(rest) : \E a \in 1..n : rest[j] = list[a] /\ list[a].key # k
      /\ \A a \in 1..n : list[a].key # k => \E j \in 1..Len(rest) : rest[j] = list[a]
      /\ KeysIn(rest) = Abstract!Without(SubSeq(KeysIn(list), 1, n), k)
  BY <1>kept DEF KeptAre
<1>6. /\ Len(rest) \in Nat /\ Len(list') = Len(rest) + 1 /\ list'[1] = nd
      /\ \A j \in 1..Len(rest) : list'[j + 1] = rest[j]
  BY <1>5, ConsIs
<1>7. o = KeysIn(list) /\ Len(o) = Len(list) /\ \A i \in 1..Len(list) : o[i] = list[i].key
  BY <1>1, KeysInIs
<1>8. \A x : x \in kept <=> \E a \in 1..n : x = list[a].key /\ x # k
  <2>1. \A a \in 1..n : a \in 1..Len(list) /\ o[a] = list[a].key
    BY <1>1, <1>7
  <2> HIDE DEF o
  <2> QED BY <2>1
<1> HIDE DEF kept, o
<1>9. \A i \in 1..Len(list') : i = 1 \/ \E j \in 1..Len(rest) : i = j + 1
  <2> SUFFICES ASSUME NEW i \in 1..Len(list'), i # 1 PROVE \E j \in 1..Len(rest) : i = j + 1
    OBVIOUS
  <2>1. i - 1 \in 1..Len(rest) /\ i = (i - 1) + 1
    BY <1>6
  <2> QED BY <2>1
<1>10. ASSUME NEW x \in kept
       PROVE  x \in DOMAIN lookup' /\ x \in DOMAIN lookup /\ new[x] = old[x]
  <2>1. PICK a \in 1..n : x = list[a].key /\ x # k
    BY <1>8, <1>10
  <2>2. PICK j \in 1..Len(rest) : rest[j] = list[a]
    BY <1>5, <2>1
  <2>3. j + 1 \in 1..Len(list') /\ list'[j + 1] = list[a] /\ a \in 1..Len(list)
    BY <1>1, <1>6, <2>2
  <2>4. list'[j + 1].key = x /\ list'[j + 1].val = list[a].val /\ list'[j + 1].cost = list[a].cost
    BY <2>1, <2>3
  <2>5. new[list'[j + 1].key] = [val |-> list'[j + 1].val, cost |-> list'[j + 1].cost]
    BY <1>4, <2>3
  <2>6. new[x] = [val |-> list[a].val, cost |-> list[a].cost]
    BY <2>4, <2>5
  <2> QED BY <1>3, <1>4, <2>1, <2>3, <2>4, <2>6
<1>11. k \in DOMAIN lookup' /\ new[k] = [val |-> v, cost |-> c]
  <2>1. 1 \in 1..Len(list') /\ list'[1].key = k /\ list'[1].val = v /\ list'[1].cost = c
    BY <1>6
  <2>2. new[list'[1].key] = [val |-> list'[1].val, cost |-> list'[1].cost]
    BY <1>4, <2>1
  <2> QED BY <1>4, <2>1, <2>2
<1>12. ASSUME NEW x \in DOMAIN lookup', x # k PROVE x \in kept
  <2>1. PICK i \in 1..Len(list') : list'[i].key = x
    BY <1>4
  <2>2. i # 1
    BY <1>6, <1>12, <2>1
  <2>3. PICK j \in 1..Len(rest) : i = j + 1
    BY <1>9, <2>2
  <2>4. PICK a \in 1..n : rest[j] = list[a] /\ list[a].key # k
    BY <1>5
  <2>5. x = list[a].key
    BY <1>6, <2>1, <2>3, <2>4
  <2> QED BY <1>8, <2>4, <2>5
<1>13. DOMAIN lookup' = kept \cup {k} /\ k \notin kept
  BY <1>8, <1>10, <1>11, <1>12
<1>14. new = [x \in kept \cup {k} |-> IF x = k THEN [val |-> v, cost |-> c] ELSE old[x]]
  <2>1. new = [x \in DOMAIN lookup' |-> new[x]]
    BY DEF new, Stored
  <2> QED BY <1>10, <1>11, <1>13, <2>1
<1> DEFINE f == CostsIn(old)
           g == CostsIn(new)
<1>15. Costed(list, f)
  BY <1>old, ReadCosts
<1>16. Costed(list', g)
  BY <1>new, ReadCosts
<1>17. \A x \in kept : f[x] = g[x]
  <2>1. DOMAIN old = DOMAIN lookup /\ DOMAIN new = DOMAIN lookup'
    BY <1>old, <1>new DEF ReadOff
  <2> QED BY <1>10, <2>1 DEF CostsIn
<1> HIDE DEF f, g
<1>18. SumOn(g, kept \cup {k}) = Weight(list') /\ IsFiniteSet(kept \cup {k})
  <2>1. Len(list') \in 0..Len(list') /\ DistinctKeys(list')
    BY <1>2, <1>new DEF ReadOff
  <2>2. /\ SumOn(g, FirstKeys(list', Len(list'))) = PrefixCost(list')[Len(list')]
        /\ IsFiniteSet(FirstKeys(list', Len(list')))
    BY <1>2, <1>16, <2>1, KeysCost
  <2>3. FirstKeys(list', Len(list')) = kept \cup {k}
    BY <1>13, <1>new DEF ReadOff
  <2> QED BY <2>2, <2>3 DEF Weight
<1>19. SumOn(f, kept) + c <= MaxCost
  <2>1. Terms(g, kept \cup {k}) /\ g[k] = c
    <3>1. \A i \in 1..Len(list') : list'[i].cost \in Int
      <4>1. \A i \in 1..Len(list') : list'[i] \in Node
        BY <1>2
      <4> QED BY <4>1 DEF Node
    <3>2. \A x \in DOMAIN lookup' : g[x] \in Int
      <4>1. \A i \in 1..Len(list') : g[list'[i].key] = list'[i].cost
        BY <1>16 DEF Costed
      <4> SUFFICES ASSUME NEW x \in DOMAIN lookup' PROVE g[x] \in Int
        OBVIOUS
      <4>2. PICK i \in 1..Len(list') : x = list'[i].key
        BY <1>4
      <4> QED BY <3>1, <4>1, <4>2
    <3>3. g[k] = c
      <4>1. 1 \in 1..Len(list') /\ list'[1].key = k /\ list'[1].cost = c
        BY <1>6
      <4> QED BY <1>16, <4>1 DEF Costed
    <3> QED BY <1>13, <3>2, <3>3 DEF Terms
  <2>2. IsFiniteSet(kept)
    BY <1>18, FS_Subset
  <2>3. SumOn(g, kept \cup {k}) = c + SumOn(g, kept)
    BY <1>13, <2>1, <2>2, SumAdd
  <2>4. SumOn(f, kept) = SumOn(g, kept) /\ SumOn(g, kept) \in Int
    <3>1. Terms(g, kept) /\ Terms(f, kept)
      BY <1>17, <2>1 DEF Terms
    <3> QED BY <1>17, <2>2, <3>1, SumSame, SumType
  <2> QED BY <1>1, <1>2, <1>18, <2>3, <2>4
<1>20. ASSUME k \notin DOMAIN lookup, n < Len(o)
       PROVE  SumOn(f, kept \cup {o[n + 1]}) + c > MaxCost
  <2>1. n + 1 \in 0..Len(list) /\ n + 1 \in 1..Len(list)
    BY <1>1, <1>7, <1>20
  <2>2. SumOn(f, FirstKeys(list, n + 1)) = PrefixCost(list)[n + 1]
    BY <1>1, <1>old, <1>15, <2>1, KeysCost DEF ReadOff
  <2>3. FirstKeys(list, n + 1) = kept \cup {o[n + 1]}
    <3>1. \A i \in 1..Len(list) : list[i].key # k
      BY <1>3, <1>20
    <3>2. \A i \in 1..(n + 1) : i = n + 1 \/ i \in 1..n
      OBVIOUS
    <3>3. o[n + 1] = list[n + 1].key
      BY <1>7, <2>1
    <3>4. \A i \in 1..n : i \in 1..(n + 1) /\ i \in 1..Len(list)
      BY <1>1, <2>1
    <3>5. \A x : x \in FirstKeys(list, n + 1) <=> \E i \in 1..(n + 1) : x = list[i].key
      BY DEF FirstKeys
    <3>6. ASSUME NEW i \in 1..(n + 1) PROVE list[i].key \in kept \cup {o[n + 1]}
      <4>1. CASE i = n + 1
        BY <3>3, <4>1
      <4>2. CASE i \in 1..n
        BY <1>8, <3>1, <3>4, <4>2
      <4> QED BY <3>2, <4>1, <4>2
    <3>7. ASSUME NEW x \in kept PROVE \E i \in 1..(n + 1) : x = list[i].key
      <4>1. PICK a \in 1..n : x = list[a].key
        BY <1>8
      <4> QED BY <3>4, <4>1
    <3>8. n + 1 \in 1..(n + 1)
      BY <2>1
    <3>9. FirstKeys(list, n + 1) \subseteq kept \cup {o[n + 1]}
      BY <3>5, <3>6
    <3>10. kept \cup {o[n + 1]} \subseteq FirstKeys(list, n + 1)
      BY <3>3, <3>5, <3>7, <3>8
    <3> QED BY <3>9, <3>10
  <2>4. PrefixCost(list)[n + 1] \in Nat
    BY <1>1, <2>1, PrefixCostIs DEF RunningTotal
  <2>5. c + PrefixCost(list)[n + 1] > MaxCost
    BY <1>7, <1>20
  <2>6. SumOn(f, kept \cup {o[n + 1]}) = PrefixCost(list)[n + 1]
    BY <2>2, <2>3
  <2> QED BY <1>1, <2>4, <2>5, <2>6
<1>21. KeysIn(list') = <<k>> \o Abstract!Without(SubSeq(o, 1, n), k)
  BY <1>5, KeysInParts DEF o
<1> QED
  <2>1. kept = {o[i] : i \in 1..n} \ {k}
    BY DEF kept
  <2>2. n \in 0..Len(o)
    BY <1>7
  <2>3. Puts(k, v, c, n, kept)
    BY <1>14, <1>19, <1>20, <1>21, <2>1, <2>2 DEF Puts, o, old, new, f, g
  <2> QED BY <2>3, PutIs


\* The empty list and table have no keys.
LEMMA EmptyIs == Stored(<<>>, <<>>) = <<>> /\ KeysIn(<<>>) = <<>>
BY DEF Stored, KeysIn

\* The list q is l with its i-th node given a value and a cost and moved to the front.
Updated(q, l, i, v, c) ==
  \E nd \in Node : nd.key = l[i].key /\ nd.val = v /\ nd.cost = c /\ q = <<nd>> \o RemoveAt(l, i)

\* A use or an update makes a node the first one.
LEMMA UpdateIs ==
  ASSUME Policy = "lru", NEW l \in Seq(Node), NEW i \in 1..Len(l),
         NEW v \in Val, NEW c \in Nat \ {0}
  PROVE  /\ Reorder(l, i) = <<l[i]>> \o RemoveAt(l, i)
         /\ Updated(UpdateNode(l, i, v, c), l, i, v, c)
<1> DEFINE u == [l EXCEPT ![i].val = v, ![i].cost = c]
           nd == [l[i] EXCEPT !.val = v, !.cost = c]
<1>1. l[i] \in Node /\ Len(l) \in Nat /\ DOMAIN l = 1..Len(l)
  OBVIOUS
<1>2. nd \in Node /\ nd.key = l[i].key /\ nd.val = v /\ nd.cost = c
  BY <1>1 DEF Node
<1>3. u \in Seq(Node) /\ Len(u) = Len(l) /\ DOMAIN u = 1..Len(l)
      /\ \A j \in 1..Len(l) : u[j] = IF j = i THEN nd ELSE l[j]
  <2>1. u = [l EXCEPT ![i] = nd]
    BY <1>1 DEF Node
  <2> HIDE DEF u, nd
  <2> QED BY <1>1, <1>2, <2>1
<1> HIDE DEF u, nd
<1>4. RemoveAt(u, i) = RemoveAt(l, i)
  <2> DEFINE q == RemoveAt(u, i)
             r == RemoveAt(l, i)
             from(j) == IF j < i THEN j ELSE j + 1
  <2>1. q \in Seq(Node) /\ Len(q) = Len(u) - 1 /\ \A j \in 1..(Len(u) - 1) : q[j] = u[from(j)]
    BY <1>3, RemoveAtIs
  <2>2. r \in Seq(Node) /\ Len(r) = Len(l) - 1 /\ \A j \in 1..(Len(l) - 1) : r[j] = l[from(j)]
    BY <1>1, RemoveAtIs
  <2>3. \A j \in 1..(Len(l) - 1) : from(j) \in 1..Len(l) /\ from(j) # i
    BY <1>1
  <2> HIDE DEF q, r, from
  <2>4. \A j \in 1..Len(q) : q[j] = r[j]
    BY <1>3, <2>1, <2>2, <2>3
  <2>5. q = r
    BY <1>3, <2>1, <2>2, <2>4, SeqsEqual
  <2> QED BY <2>5 DEF q, r
<1>5. Reorder(l, i) = <<l[i]>> \o RemoveAt(l, i)
  BY DEF Reorder, AtTop
<1>6. UpdateNode(l, i, v, c) = <<nd>> \o RemoveAt(l, i)
  <2>1. UpdateNode(l, i, v, c) = <<u[i]>> \o RemoveAt(u, i)
    BY DEF UpdateNode, Reorder, AtTop, u
  <2> QED BY <1>3, <1>4, <2>1
<1>7. Updated(UpdateNode(l, i, v, c), l, i, v, c)
  BY <1>2, <1>6 DEF Updated
<1> QED BY <1>5, <1>7

\* The invariant before and after a step, as the simulation uses it.
LEMMA ReadsOff ==
  ASSUME LruInv, LruInv'
  PROVE  /\ list \in Seq(Node) /\ Len(list) \in Nat /\ MaxCost \in Nat
         /\ Linked(list, lookup) /\ ReadOff(list, lookup, Stored(list, lookup))
         /\ list' \in Seq(Node) /\ ReadOff(list', lookup', Stored(list', lookup'))
<1>1. list \in Seq(Node) /\ Len(list) \in Nat /\ Linked(list, lookup) /\ MaxCost \in Nat
  BY InvIs DEF LruInv
<1>2. list' \in Seq(Node) /\ Linked(list', lookup')
  <2>1. TypeOK' /\ Coherent'
    BY DEF LruInv, Inv
  <2> QED BY <2>1 DEF TypeOK, Coherent, Linked, DistinctNodes, NodesIndexed, NoDanglingEntry
<1> QED BY <1>1, <1>2, KeysPlaced

\* The keys of the list, as Abstract has them, are distinct.
LEMMA OrderIs ==
  ASSUME NEW l \in Seq(Node), DistinctKeys(l)
  PROVE  /\ \A i \in 1..Len(l) : Abstract!Without(KeysIn(l), l[i].key) = RemoveAt(KeysIn(l), i)
         /\ \A i \in 1..Len(l) : Abstract!Without(KeysIn(l), l[i].key) = KeysIn(RemoveAt(l, i))
<1> DEFINE o == KeysIn(l)
<1>1. o \in Seq(Key) /\ Len(o) = Len(l) /\ \A i \in 1..Len(l) : o[i] = l[i].key
  BY KeysInIs
<1> HIDE DEF o
<1>2. \A i, j \in 1..Len(o) : o[i] = o[j] => i = j
  BY <1>1 DEF DistinctKeys
<1>3. ASSUME NEW i \in 1..Len(l) PROVE Abstract!Without(o, l[i].key) = RemoveAt(o, i)
  BY <1>1, <1>2, WithoutIs
<1>4. \A i \in 1..Len(l) : KeysIn(RemoveAt(l, i)) = RemoveAt(o, i)
  BY KeysInParts DEF o
<1> QED BY <1>3, <1>4 DEF o

\* Erasing a node is the abstract Drop of its key.
LEMMA DropBy ==
  ASSUME LruInv, LruInv', NEW i \in 1..Len(list), EraseAt(i)
  PROVE  Abstract!Drop(list[i].key)
<1> DEFINE k == list[i].key
           old == Stored(list, lookup)
           new == Stored(list', lookup')
           from(j) == IF j < i THEN j ELSE j + 1
<1>1. list' = RemoveAt(list, i) /\ lookup' = Forget(lookup, {k})
  BY DEF EraseAt
<1>2. list \in Seq(Node) /\ Len(list) \in Nat /\ ReadOff(list, lookup, old)
      /\ list' \in Seq(Node) /\ ReadOff(list', lookup', new)
  BY ReadsOff
<1>3. /\ Len(list') = Len(list) - 1
      /\ \A j \in 1..(Len(list) - 1) : list'[j] = list[from(j)]
  BY <1>1, <1>2, RemoveAtIs
<1>4. DOMAIN lookup' = DOMAIN lookup \ {k}
  BY <1>1 DEF Forget
<1>5. DOMAIN old = DOMAIN lookup /\ DOMAIN new = DOMAIN lookup' /\ k \in DOMAIN lookup
  BY <1>2 DEF ReadOff, FirstKeys
<1> HIDE DEF old, new
<1>6. ASSUME NEW x \in DOMAIN lookup' PROVE new[x] = old[x]
  <2>1. PICK j \in 1..Len(list') : x = list'[j].key
    BY <1>2 DEF ReadOff, FirstKeys
  <2>2. from(j) \in 1..Len(list) /\ list'[j] = list[from(j)]
    BY <1>2, <1>3
  <2> HIDE DEF from
  <2>3. new[list'[j].key] = [val |-> list'[j].val, cost |-> list'[j].cost]
    BY <1>2 DEF ReadOff
  <2>4. old[list[from(j)].key] = [val |-> list[from(j)].val, cost |-> list[from(j)].cost]
    BY <1>2, <2>2 DEF ReadOff
  <2> QED BY <2>1, <2>2, <2>3, <2>4
<1>7. new = [x \in DOMAIN old \ {k} |-> old[x]]
  <2>1. new = [x \in DOMAIN lookup' |-> new[x]]
    BY DEF new, Stored
  <2> QED BY <1>4, <1>5, <1>6, <2>1
<1>8. KeysIn(list') = Abstract!Without(KeysIn(list), k)
  BY <1>1, <1>2, OrderIs DEF ReadOff
<1> QED BY <1>5, <1>7, <1>8 DEF Abstract!Drop, old, new

\* Touching a node is the abstract Use of its key.
LEMMA UseBy ==
  ASSUME LruInv, LruInv', Policy = "lru", NEW k \in Key, Touch(k)
  PROVE  Abstract!Use(k)
<1> DEFINE i == Position(list, lookup[k])
           old == Stored(list, lookup)
           new == Stored(list', lookup')
<1>1. /\ k \in DOMAIN lookup /\ lookup' = lookup
      /\ list' = IF i = 1 THEN list ELSE Reorder(list, i)
  BY DEF Touch
<1>2. list \in Seq(Node) /\ Len(list) \in Nat /\ ReadOff(list, lookup, old)
      /\ list' \in Seq(Node) /\ ReadOff(list', lookup', new)
  BY ReadsOff
<1>3. i \in 1..Len(list) /\ list[i].key = k
  BY <1>1, ReadsOff, PositionIs
<1> HIDE DEF i
<1> DEFINE r == RemoveAt(list, i)
<1>4. list' = <<list[i]>> \o r
  <2>1. CASE i # 1
    BY <1>1, <1>2, <1>3, <2>1, UpdateIs, ValAssumption
  <2>2. CASE i = 1
    BY <1>1, <1>2, <1>3, <2>2 DEF RemoveAt
  <2> QED BY <2>1, <2>2
<1>5. /\ r \in Seq(Node) /\ Len(r) = Len(list) - 1
      /\ \A j \in 1..(Len(list) - 1) : r[j] = list[IF j < i THEN j ELSE j + 1]
  BY <1>2, <1>3, RemoveAtIs
<1>6. list[i] \in Node
  BY <1>2, <1>3
<1> HIDE DEF r
<1>7. /\ Len(list') = Len(list) /\ list'[1] = list[i]
      /\ \A j \in 1..Len(r) : list'[j + 1] = r[j]
  BY <1>2, <1>3, <1>4, <1>5, <1>6, ConsIs
<1>8. ASSUME NEW j \in 1..Len(list') PROVE \E a \in 1..Len(list) : list'[j] = list[a]
  <2>1. CASE j = 1
    BY <1>3, <1>7, <2>1
  <2>2. CASE j # 1
    <3>1. PICK b \in 1..Len(r) : j = b + 1
      <4>1. j - 1 \in 1..Len(r) /\ j = (j - 1) + 1
        BY <1>2, <1>5, <1>7, <2>2
      <4> QED BY <4>1
    <3> DEFINE a == IF b < i THEN b ELSE b + 1
    <3>2. a \in 1..Len(list) /\ r[b] = list[a]
      BY <1>2, <1>3, <1>5
    <3> HIDE DEF a
    <3> QED BY <1>7, <3>1, <3>2
  <2> QED BY <2>1, <2>2
<1>9. DOMAIN old = DOMAIN lookup /\ DOMAIN new = DOMAIN lookup
  BY <1>1, <1>2 DEF ReadOff
<1> HIDE DEF old, new
<1>10. ASSUME NEW x \in DOMAIN lookup PROVE new[x] = old[x]
  <2>0. x \in DOMAIN lookup'
    BY <1>1
  <2>1. PICK j \in 1..Len(list') : x = list'[j].key
    BY <1>2, <2>0 DEF ReadOff, FirstKeys
  <2>2. PICK a \in 1..Len(list) : list'[j] = list[a]
    BY <1>8
  <2>3. new[list'[j].key] = [val |-> list'[j].val, cost |-> list'[j].cost]
    BY <1>2 DEF ReadOff
  <2>4. old[list[a].key] = [val |-> list[a].val, cost |-> list[a].cost]
    BY <1>2 DEF ReadOff
  <2> QED BY <2>1, <2>2, <2>3, <2>4
<1>11. new = old
  <2>1. new = [x \in DOMAIN lookup |-> new[x]] /\ old = [x \in DOMAIN lookup |-> old[x]]
    BY <1>1 DEF new, old, Stored
  <2> QED BY <1>10, <2>1
<1>12. KeysIn(list') = <<k>> \o Abstract!Without(KeysIn(list), k)
  <2>1. KeysIn(<<list[i]>> \o r) = <<list[i].key>> \o KeysIn(r)
    BY <1>5, <1>6, KeysInParts
  <2>2. Abstract!Without(KeysIn(list), list[i].key) = KeysIn(r)
    BY <1>2, <1>3, OrderIs DEF ReadOff, r
  <2> QED BY <1>3, <1>4, <2>1, <2>2
<1> QED BY <1>1, <1>9, <1>11, <1>12 DEF Abstract!Use, old, new


\* Emptying the cache is the abstract Clear.
LEMMA ClearBy ==
  ASSUME ClearAll
  PROVE  Abstract!Clear
<1>1. list' = <<>> /\ lookup' = <<>>
  BY DEF ClearAll
<1>2. Stored(list', lookup') = <<>> /\ KeysIn(list') = <<>>
  BY <1>1, EmptyIs
<1> QED BY <1>2 DEF Abstract!Clear

\* No nodes are kept of any list.
LEMMA NoneKept ==
  ASSUME NEW l \in Seq(Node), NEW k, NEW nd \in Node
  PROVE  KeptOf(l, 0, k, <<>>) /\ <<nd>> \o <<>> = <<nd>>
<1>1. SubSeq(l, 1, 0) = <<>> /\ 1..0 = {}
  OBVIOUS
<1>2. <<nd>> \o <<>> = <<nd>>
  OBVIOUS
<1> QED BY <1>1, <1>2 DEF KeptOf

\* An insert with the whole budget keeps nothing.
LEMMA WholeBy ==
  ASSUME LruInv, LruInv', NEW k \in Key, NEW v \in Val, NEW c \in Nat \ {0}, c = MaxCost,
         NEW nd \in Node, nd.key = k, nd.val = v, nd.cost = c, list' = <<nd>>
  PROVE  Abstract!Put(k, v, c)
<1>1. list \in Seq(Node) /\ Len(list) \in Nat /\ MaxCost \in Nat
  BY InvIs DEF LruInv
<1>2. KeptOf(list, 0, k, <<>>) /\ list' = <<nd>> \o <<>>
  BY <1>1, NoneKept
<1>3. 0 < Len(list) => c + PrefixCost(list)[1] > MaxCost
  <2> SUFFICES ASSUME 0 < Len(list) PROVE c + PrefixCost(list)[1] > MaxCost
    OBVIOUS
  <2>1. 1 \in 1..Len(list) /\ list[1] \in Node
    BY <1>1
  <2>2. list[1].cost \in Nat \ {0}
    BY <2>1 DEF Node
  <2>3. RunningTotal(PrefixCost(list), list, Len(list))
    BY <1>1, PrefixCostIs
  <2>4. PrefixCost(list)[1] = PrefixCost(list)[1 - 1] + list[1].cost
    BY <2>1, <2>3 DEF RunningTotal
  <2>5. PrefixCost(list)[0] = 0
    BY <2>3 DEF RunningTotal
  <2>6. PrefixCost(list)[1] = list[1].cost
    BY <2>2, <2>4, <2>5
  <2> QED BY <1>1, <2>2, <2>6
<1>4. 0 \in 0..Len(list) /\ c <= MaxCost /\ 0 + 1 = 1
  BY <1>1
<1> QED BY <1>2, <1>3, <1>4, PutBy

\* An update with the whole budget.
LEMMA WholeHitBy ==
  ASSUME LruInv, LruInv', Policy = "lru", NEW k \in Key, NEW v \in Val, NEW c \in Nat \ {0},
         InsertWholeHit(k, v, c)
  PROVE  Abstract!Put(k, v, c)
<1> DEFINE i == Position(list, lookup[k])
<1>1. k \in DOMAIN lookup /\ c = MaxCost /\ list' = <<UpdateNode(list, i, v, c)[1]>>
  BY DEF InsertWholeHit
<1>2. list \in Seq(Node) /\ i \in 1..Len(list) /\ list[i].key = k
  BY <1>1, ReadsOff, PositionIs
<1> HIDE DEF i
<1> DEFINE r == RemoveAt(list, i)
<1>3. PICK nd \in Node : /\ nd.key = list[i].key /\ nd.val = v /\ nd.cost = c
                         /\ UpdateNode(list, i, v, c) = <<nd>> \o r
  <2>1. Updated(UpdateNode(list, i, v, c), list, i, v, c)
    BY <1>2, UpdateIs
  <2> QED BY <2>1 DEF Updated
<1>4. r \in Seq(Node)
  BY <1>2, RemoveAtIs
<1> HIDE DEF r
<1>5. UpdateNode(list, i, v, c)[1] = nd
  BY <1>3, <1>4, ConsIs
<1> QED BY <1>1, <1>2, <1>3, <1>5, WholeBy

\* The entry of a new node with the whole budget.
LEMMA WholeMissBy ==
  ASSUME LruInv, LruInv', NEW k \in Key, NEW v \in Val, NEW c \in Nat \ {0},
         InsertWholeMiss(k, v, c)
  PROVE  Abstract!Put(k, v, c)
<1>1. PICK a \in Addr : list' = <<[id |-> a, key |-> k, val |-> v, cost |-> c]>>
  BY DEF InsertWholeMiss
<1> DEFINE nd == [id |-> a, key |-> k, val |-> v, cost |-> c]
<1>2. nd \in Node /\ nd.key = k /\ nd.val = v /\ nd.cost = c /\ list' = <<nd>>
  BY <1>1 DEF Node
<1>3. c = MaxCost
  BY DEF InsertWholeMiss
<1> HIDE DEF nd
<1> QED BY <1>2, <1>3, WholeBy

\* With an exact counter the loop stops at the first node that leaves no room.
LEMMA StopIs ==
  ASSUME LruInv, NEW c \in Nat \ {0}, NEW n \in 0..Len(list), StopsAt(c, n), n < Len(list)
  PROVE  c + PrefixCost(list)[n + 1] > MaxCost
<1>1. /\ list \in Seq(Node) /\ Len(list) \in Nat /\ MaxCost \in Nat
      /\ Weight(list) \in Nat /\ cost = Weight(list)
  BY InvIs DEF LruInv, CostExact
<1>2. n + 1 \in 0..Len(list)
  BY <1>1
<1>3. PrefixCost(list)[n + 1] \in Nat
  BY <1>1, <1>2, PrefixCostIs DEF RunningTotal
<1>4. CostAfterTrim(n + 1) = PrefixCost(list)[n + 1]
  BY <1>1, <1>3 DEF CostAfterTrim
<1>5. n + 1 \notin Fitting(c)
  BY DEF StopsAt
<1>6. ~(c + CostAfterTrim(n + 1) <= MaxCost)
  BY <1>2, <1>5 DEF Fitting
<1> QED BY <1>1, <1>3, <1>4, <1>6

\* An insert that makes room first.
LEMMA TrimmedBy ==
  ASSUME LruInv, LruInv', Policy = "lru", NEW k \in Key, NEW v \in Val, NEW c \in Nat \ {0},
         InsertTrimmed(k, v, c)
  PROVE  Abstract!Put(k, v, c)
<1>0. c <= MaxCost /\ list \in Seq(Node) /\ Len(list) \in Nat
  BY InvIs DEF InsertTrimmed, LruInv
<1>1. PICK n \in 0..Len(list) :
        /\ StopsAt(c, n)
        /\ LET kept  == SubSeq(list, 1, n)
               table == Forget(lookup, {list[i].key : i \in (n + 1)..Len(list)})
           IN  \/ /\ k \in DOMAIN table
                  /\ list' = UpdateNode(kept, Position(kept, table[k]), v, c)
               \/ /\ k \notin DOMAIN table
                  /\ \E a \in FreeAddr(kept) :
                       list' = AtTop(kept, [id |-> a, key |-> k, val |-> v, cost |-> c])
  BY DEF InsertTrimmed
<1> DEFINE kept == SubSeq(list, 1, n)
           table == Forget(lookup, {list[i].key : i \in (n + 1)..Len(list)})
           i == Position(kept, table[k])
<1>2. kept \in Seq(Node) /\ Linked(kept, table)
  BY TrimIs DEF LruInv
<1>3. Len(kept) = n /\ \A j \in 1..n : kept[j] = list[j]
  BY <1>0, PrefixIs
<1>4. k \in DOMAIN table => k \in DOMAIN lookup
  BY DEF Forget
<1>5. k \notin DOMAIN lookup /\ n < Len(list) => c + PrefixCost(list)[n + 1] > MaxCost
  BY <1>1, StopIs
<1>6. \/ k \in DOMAIN table /\ list' = UpdateNode(kept, i, v, c)
      \/ /\ k \notin DOMAIN table
         /\ \E a \in FreeAddr(kept) :
              list' = AtTop(kept, [id |-> a, key |-> k, val |-> v, cost |-> c])
  BY <1>1
<1>7. kept = SubSeq(list, 1, n)
  OBVIOUS
<1> HIDE DEF kept, table
<1>8. CASE k \in DOMAIN table
  <2>1. i \in 1..Len(kept) /\ kept[i].key = k /\ list' = UpdateNode(kept, i, v, c)
    BY <1>2, <1>6, <1>8, PositionIs
  <2> HIDE DEF i
  <2>2. PICK nd \in Node : /\ nd.key = kept[i].key /\ nd.val = v /\ nd.cost = c
                           /\ UpdateNode(kept, i, v, c) = <<nd>> \o RemoveAt(kept, i)
    <3>1. Updated(UpdateNode(kept, i, v, c), kept, i, v, c)
      BY <1>2, <2>1, UpdateIs
    <3> QED BY <3>1 DEF Updated
  <2>3. KeptOf(list, n, k, RemoveAt(kept, i))
    BY <1>3, <1>7, <2>1 DEF KeptOf
  <2>4. nd.key = k /\ list' = <<nd>> \o RemoveAt(kept, i) /\ k \in DOMAIN lookup
    BY <1>4, <1>8, <2>1, <2>2
  <2> DEFINE rest == RemoveAt(kept, i)
  <2> HIDE DEF rest
  <2>5. KeptOf(list, n, k, rest) /\ list' = <<nd>> \o rest
    BY <2>3, <2>4 DEF rest
  <2> QED BY <1>0, <2>2, <2>4, <2>5, PutBy
<1>9. CASE k \notin DOMAIN table
  <2>1. PICK a \in FreeAddr(kept) :
          list' = AtTop(kept, [id |-> a, key |-> k, val |-> v, cost |-> c])
    BY <1>6, <1>9
  <2> DEFINE nd == [id |-> a, key |-> k, val |-> v, cost |-> c]
  <2>2. nd \in Node /\ nd.key = k /\ nd.val = v /\ nd.cost = c
    BY DEF FreeAddr, Node
  <2>3. list' = <<nd>> \o kept
    BY <2>1 DEF AtTop
  <2> HIDE DEF nd
  <2>4. \A j \in 1..n : list[j].key # k
    <3>1. LinkedAt(kept, table)
      BY <1>2, LinkedIs
    <3>2. \A j \in 1..n : kept[j].key \in DOMAIN table
      BY <1>3, <3>1 DEF LinkedAt
    <3> QED BY <1>3, <1>9, <3>2
  <2>5. KeptOf(list, n, k, kept)
    BY <1>7, <2>4 DEF KeptOf
  <2> QED BY <1>0, <1>5, <2>2, <2>3, <2>5, PutBy
<1> QED BY <1>8, <1>9

\* insert is a Put, or empties the cache.
LEMMA InsertBy ==
  ASSUME LruInv, LruInv', Policy = "lru", NEW k \in Key, NEW v \in Val, NEW c \in Nat \ {0},
         Insert(k, v, c)
  PROVE  IF c > MaxCost THEN Abstract!Clear ELSE Abstract!Put(k, v, c)
<1>1. MaxCost \in Nat
  BY InvIs DEF LruInv
<1>2. ~InsertSpins(c)
  BY SpinsInv DEF LruInv
<1>3. CASE InsertTooCostly(c)
  BY <1>3, ClearBy DEF InsertTooCostly
<1>4. CASE InsertWholeHit(k, v, c)
  <2>1. c = MaxCost
    BY <1>4 DEF InsertWholeHit
  <2> QED BY <1>1, <1>4, <2>1, WholeHitBy
<1>5. CASE InsertWholeMiss(k, v, c)
  <2>1. c = MaxCost
    BY <1>5 DEF InsertWholeMiss
  <2> QED BY <1>1, <1>5, <2>1, WholeMissBy
<1>6. CASE InsertTrimmed(k, v, c)
  <2>1. c < MaxCost
    BY <1>6 DEF InsertTrimmed
  <2> QED BY <1>1, <1>6, <2>1, TrimmedBy
<1> QED BY <1>2, <1>3, <1>4, <1>5, <1>6 DEF Insert, InsertReturns

\* erase(key) is the abstract Drop of the key.
LEMMA EraseBy ==
  ASSUME LruInv, LruInv', NEW k \in Key, Erase(k)
  PROVE  Abstract!Drop(k)
<1> DEFINE i == Position(list, lookup[k])
<1>1. k \in DOMAIN lookup /\ EraseAt(i)
  BY DEF Erase
<1>2. i \in 1..Len(list) /\ list[i].key = k
  BY <1>1, ReadsOff, PositionIs
<1> HIDE DEF i
<1> QED BY <1>1, <1>2, DropBy

\* Every step of the cache is a step of RecencyCache, or changes nothing it has.
LEMMA StepBy ==
  ASSUME LruInv, LruInv', Policy = "lru", [Next]_vars
  PROVE  [Abstract!Next]_(Abstract!vars)
<1>1. ASSUME NEW k \in Key, NEW v \in Val, NEW c \in Cost \cup {1}, Insert(k, v, c)
      PROVE  Abstract!Next
  <2>1. c \in Nat \ {0}
    OBVIOUS
  <2>2. Abstract!Clear \/ Abstract!Put(k, v, c)
    BY <1>1, <2>1, InsertBy
  <2> QED BY <2>2 DEF Abstract!Next
<1>2. ASSUME NEW k \in Key, Erase(k) PROVE Abstract!Next
  <2>1. Abstract!Drop(k)
    BY <1>2, EraseBy
  <2> QED BY <2>1 DEF Abstract!Next
<1>3. ASSUME Pop PROVE Abstract!Next
  <2>1. list \in Seq(Node) /\ list # <<>> /\ EraseAt(Len(list))
    BY <1>3, ReadsOff DEF Pop
  <2>2. Len(list) \in 1..Len(list) /\ list[Len(list)] \in Node
    BY <2>1
  <2>3. Abstract!Drop(list[Len(list)].key) /\ list[Len(list)].key \in Key
    BY <2>1, <2>2, DropBy DEF Node
  <2> QED BY <2>3 DEF Abstract!Next
<1>4. ASSUME NEW k \in Key, Touch(k) PROVE Abstract!Next
  <2>1. Abstract!Use(k)
    BY <1>4, UseBy
  <2> QED BY <2>1 DEF Abstract!Next
<1>5. ASSUME NEW k \in Key, Index(k) PROVE Abstract!Next
  <2>1. CASE Touch(k)
    BY <1>4, <2>1
  <2>2. CASE Insert(k, DefaultVal, 1)
    BY <1>1, <2>2
  <2> QED BY <1>5, <2>1, <2>2 DEF Index
<1>6. ASSUME Clear PROVE Abstract!Next
  <2>1. Abstract!Clear
    BY <1>6, ClearBy DEF Clear
  <2> QED BY <2>1 DEF Abstract!Next
<1>7. ASSUME UNCHANGED vars PROVE UNCHANGED Abstract!vars
  <2>1. list' = list /\ lookup' = lookup
    BY <1>7 DEF vars
  <2>2. Stored(list', lookup') = Stored(list, lookup) /\ KeysIn(list') = KeysIn(list)
    BY <2>1
  <2> QED BY <2>2 DEF Abstract!vars
<1> QED BY <1>1, <1>2, <1>3, <1>4, <1>5, <1>6, <1>7 DEF Next

\* The least-recently-used cache does what RecencyCache promises: the values are those the
\* callers stored under their keys, only the keys used longest ago are given up, no more of them
\* than the new element's cost requires, and each call is the abstract one of the same purpose.
THEOREM RecencyCacheImplemented ==
  ASSUME Policy = "lru"
  PROVE  Spec => ImplementsRecencyCache
<1>1. Init => LruInv
  BY InitInv
<1>2. LruInv /\ [Next]_vars => LruInv'
  BY NextInv DEF LruInv, TrimmingEnds
<1>3. Init => Abstract!Init
  BY EmptyIs DEF Init, Abstract!Init
<1>4. LruInv /\ LruInv' /\ [Next]_vars => [Abstract!Next]_(Abstract!vars)
  BY StepBy
<1>5. LruInv /\ LruInv' /\ [Next]_vars =>
      [\A k \in Key :
          /\ Erase(k) => Abstract!Drop(k)
          /\ Touch(k) => Abstract!Use(k)
          /\ \A v \in Val, c \in Cost :
               Insert(k, v, c) => IF c > MaxCost THEN Abstract!Clear
                                                 ELSE Abstract!Put(k, v, c)]_vars
  BY EraseBy, UseBy, InsertBy
<1>6. Spec => Abstract!Spec
  BY <1>1, <1>2, <1>3, <1>4, PTL DEF Spec, Abstract!Spec
<1>7. Spec =>
      [][\A k \in Key :
          /\ Erase(k) => Abstract!Drop(k)
          /\ Touch(k) => Abstract!Use(k)
          /\ \A v \in Val, c \in Cost :
               Insert(k, v, c) => IF c > MaxCost THEN Abstract!Clear
                                                 ELSE Abstract!Put(k, v, c)]_vars
  BY <1>1, <1>2, <1>5, PTL DEF Spec
<1> QED BY <1>6, <1>7 DEF ImplementsRecencyCache

=============================================================================
