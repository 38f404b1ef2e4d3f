------------------------- MODULE PackedHashtblProofs -------------------------
(***************************************************************************)
(* Safety of PackedHashtbl for every set of keys, every capacity and every *)
(* hash function.                                                          *)
(*                                                                         *)
(* That chains and the free list use the same link field without ever      *)
(* mixing up is an invariant once each slot is given its place: the bucket *)
(* in whose chain it is, or the free list, and its position there.         *)
(***************************************************************************)
EXTENDS PackedHashtbl, SumTheorems

-----------------------------------------------------------------------------
(* Walks along the links *)

\* Null is the link of no slot, and itself where a chain has ended.
Link == Slot \cup {Null}

\* A table with values of the right types.
Table ==
  [next : [Slot -> Link], key : [Slot -> Key],
   bucket : [Bucket -> Link], free : Link, size : 0..N]

\* The constants as the proofs use them.
LEMMA SlotIs ==
  /\ N \in Nat \ {0}
  /\ N \in Slot /\ 1 \in Slot /\ \A s \in Slot : s \in Nat /\ s # Null
  /\ \A b \in Bucket : b \in Nat /\ b # N /\ b < N
  /\ \A k \in Key : Hash[k] \in Bucket
BY CapacityAssumption, NullAssumption, HashAssumption DEF Slot, Bucket

\* The capacity is finite.
LEMMA SlotsFinite == IsFiniteSet(Slot) /\ Cardinality(Slot) = N
<1>1. IsFiniteSet(1..N) /\ Cardinality(1..N) = IF 1 > N THEN 0 ELSE N - 1 + 1
  BY SlotIs, FS_Interval
<1> QED BY <1>1, SlotIs DEF Slot

\* Reached satisfies its recursive definition.
LEMMA ReachedIs ==
  ASSUME NEW h \in Table, NEW p \in Link
  PROVE  /\ Reached(h, p) \in [0..N -> Link]
         /\ Reached(h, p)[0] = p
         /\ \A i \in 1..N : Reached(h, p)[i] =
              IF Reached(h, p)[i - 1] = Null THEN Null ELSE h.next[Reached(h, p)[i - 1]]
<1> DEFINE go == [x \in Link |-> IF x = Null THEN Null ELSE h.next[x]]
           step == [i \in 1..N |-> go]
           D(f) == [i \in 0..N |-> IF i = 0 THEN p
                                   ELSE IF f[i - 1] = Null THEN Null ELSE h.next[f[i - 1]]]
<1>1. go \in [Link -> Link]
  BY SlotIs DEF Table, Link
<1>2. step \in Steps(N, Link)
  BY <1>1 DEF Steps
<1>3. \A i \in 1..N : step[i] = go
  OBVIOUS
<1>4. \A x \in Link : go[x] = IF x = Null THEN Null ELSE h.next[x]
  OBVIOUS
<1> HIDE DEF step, go
<1>0. N \in Nat
  BY SlotIs
<1>5. PICK f \in [0..N -> Link] : f[0] = p /\ \A i \in 1..N : f[i] = step[i][f[i - 1]]
  <2>1. PICK f : Follows(f, N, Link, p, step)
    BY <1>0, <1>2, RecursionExists
  <2> QED BY <2>1 DEF Follows
<1>6. \A i \in 1..N : f[i] = IF f[i - 1] = Null THEN Null ELSE h.next[f[i - 1]]
  <2> SUFFICES ASSUME NEW i \in 1..N
               PROVE  f[i] = IF f[i - 1] = Null THEN Null ELSE h.next[f[i - 1]]
    OBVIOUS
  <2>1. f[i - 1] \in Link
    <3>1. i - 1 \in 0..N
      BY SlotIs
    <3> QED BY <3>1
  <2> QED BY <1>3, <1>4, <1>5, <2>1
<1>7. f = D(f)
  <2>1. \A i \in 0..N : f[i] = IF i = 0 THEN p
                               ELSE IF f[i - 1] = Null THEN Null ELSE h.next[f[i - 1]]
    BY <1>5, <1>6, SlotIs
  <2> QED BY <2>1
<1>8. Reached(h, p) = CHOOSE g : g = D(g)
  BY DEF Reached
<1>9. Reached(h, p) = D(Reached(h, p))
  <2> HIDE DEF D
  <2> QED BY <1>7, <1>8
<1> DEFINE r == Reached(h, p)
<1>10. /\ DOMAIN r = 0..N /\ r[0] = p
       /\ \A i \in 1..N : r[i] = IF r[i - 1] = Null THEN Null ELSE h.next[r[i - 1]]
  BY <1>9, SlotIs
<1>11. r = [i \in 0..N |-> r[i]]
  BY <1>9
<1> HIDE DEF r, D
<1> DEFINE S == {i \in Nat : i <= N => r[i] \in Link}
<1>12. 0 \in S
  BY <1>10
<1>13. ASSUME NEW i \in Nat, i \in S PROVE i + 1 \in S
  <2> SUFFICES ASSUME i + 1 <= N PROVE r[i + 1] \in Link
    OBVIOUS
  <2>1. r[i] \in Link /\ i + 1 \in 1..N /\ (i + 1) - 1 = i
    BY <1>13, SlotIs
  <2>2. r[i + 1] = IF r[i] = Null THEN Null ELSE h.next[r[i]]
    BY <1>10, <2>1
  <2>3. h.next \in [Slot -> Link]
    BY DEF Table
  <2> QED BY <2>1, <2>2, <2>3 DEF Link
<1> HIDE DEF S
<1>14. \A i \in Nat : i \in S
  BY <1>12, <1>13, SetInduction
<1>15. \A i \in 0..N : r[i] \in Link
  BY <1>14, SlotIs DEF S
<1> QED BY <1>10, <1>11, <1>15 DEF r

-----------------------------------------------------------------------------
(* The places of the slots *)

\* home gives each slot the bucket of its chain, or N for the free list, pos its position
\* there.
Homes == [Slot -> Bucket \cup {N}]
Positions == [Slot -> Nat \ {0}]

\* No two slots have the same place.
PlacesApart(home, pos) ==
  \A s, t \in Slot : home[s] = home[t] /\ pos[s] = pos[t] => s = t

\* A bucket leads to the first slot of its chain.
HeadsFirst(h, home, pos) ==
  \A b \in Bucket :
    IF h.bucket[b] = Null THEN \A s \in Slot : home[s] # b
    ELSE home[h.bucket[b]] = b /\ pos[h.bucket[b]] = 1

\* A slot of a chain leads to the one behind it, and the last one to none.
ChainsLinked(h, home, pos) ==
  \A s \in Slot : home[s] # N =>
    IF h.next[s] = Null THEN \A t \in Slot : home[t] = home[s] => pos[t] <= pos[s]
    ELSE home[h.next[s]] = home[s] /\ pos[h.next[s]] = pos[s] + 1

\* The first N - size entries of the free list are at the positions up to N - size; where
\* the last of them leads does not matter.
FreeLinked(h, home, pos) ==
  /\ h.size < N => h.free # Null /\ home[h.free] = N /\ pos[h.free] = 1
  /\ \A s \in Slot : home[s] = N =>
       /\ pos[s] <= N - h.size
       /\ pos[s] < N - h.size =>
            h.next[s] # Null /\ home[h.next[s]] = N /\ pos[h.next[s]] = pos[s] + 1

Placed(h, home, pos) ==
  /\ PlacesApart(home, pos) /\ HeadsFirst(h, home, pos)
  /\ ChainsLinked(h, home, pos) /\ FreeLinked(h, home, pos)

\* Each key is in the chain of its bucket, once.
Keyed(h, home) ==
  /\ \A s \in Slot : home[s] # N => Hash[h.key[s]] = home[s]
  /\ \A s, t \in Slot : home[s] # N /\ home[t] # N /\ h.key[s] = h.key[t] => s = t

\* The inductive invariant of a table.
Sound(h) ==
  /\ h \in Table
  /\ \E home \in Homes, pos \in Positions : Placed(h, home, pos) /\ Keyed(h, home)

\* Where p is the first of a place and the i-th slot reached from it is a slot of that
\* place at position i + 1, as long as there are slots.
LEMMA ChainWalk ==
  ASSUME NEW h \in Table, NEW home \in Homes, NEW pos \in Positions,
         Placed(h, home, pos), NEW b \in Bucket
  PROVE  /\ \A i \in 0..N : LET x == Reached(h, h.bucket[b])[i] IN
              x # Null => x \in Slot /\ home[x] = b /\ pos[x] = i + 1
         /\ \A i \in 0..N, s \in Slot :
              home[s] = b /\ pos[s] > i => Reached(h, h.bucket[b])[i] # Null
<1> DEFINE r == Reached(h, h.bucket[b])
<1>1. h.bucket[b] \in Link
  BY DEF Table
<1>2. /\ r \in [0..N -> Link] /\ r[0] = h.bucket[b]
      /\ \A i \in 1..N : r[i] = IF r[i - 1] = Null THEN Null ELSE h.next[r[i - 1]]
  BY <1>1, ReachedIs
<1> HIDE DEF r
<1> DEFINE S == {i \in Nat : i <= N =>
                   /\ r[i] # Null => home[r[i]] = b /\ pos[r[i]] = i + 1
                   /\ r[i] = Null => \A s \in Slot : home[s] = b => pos[s] <= i}
<1>3. 0 \in S
  <2>1. HeadsFirst(h, home, pos)
    BY DEF Placed
  <2> QED BY <1>2, <2>1 DEF HeadsFirst
<1>4. ASSUME NEW i \in Nat, i \in S PROVE i + 1 \in S
  <2> SUFFICES ASSUME i + 1 <= N
               PROVE  /\ r[i + 1] # Null => home[r[i + 1]] = b /\ pos[r[i + 1]] = (i + 1) + 1
                      /\ r[i + 1] = Null => \A s \in Slot : home[s] = b => pos[s] <= i + 1
    OBVIOUS
  <2>1. /\ i + 1 \in 1..N /\ i \in 0..N /\ (i + 1) - 1 = i
    BY SlotIs
  <2>2. r[i + 1] = IF r[i] = Null THEN Null ELSE h.next[r[i]]
    BY <1>2, <2>1
  <2>3. CASE r[i] = Null
    <3>1. \A s \in Slot : home[s] = b => pos[s] <= i
      BY <1>4, <2>1, <2>3
    <3>2. \A s \in Slot : pos[s] \in Nat
      BY DEF Positions
    <3> QED BY <2>2, <2>3, <3>1, <3>2
  <2>4. CASE r[i] # Null
    <3>1. r[i] \in Slot /\ home[r[i]] = b /\ pos[r[i]] = i + 1
      BY <1>2, <1>4, <2>1, <2>4 DEF Link
    <3>2. home[r[i]] # N
      BY <3>1, SlotIs
    <3>3. IF h.next[r[i]] = Null THEN \A t \in Slot : home[t] = home[r[i]] => pos[t] <= pos[r[i]]
          ELSE home[h.next[r[i]]] = home[r[i]] /\ pos[h.next[r[i]]] = pos[r[i]] + 1
      BY <3>1, <3>2 DEF Placed, ChainsLinked
    <3> QED BY <2>2, <2>4, <3>1, <3>3
  <2> QED BY <2>3, <2>4
<1> HIDE DEF S
<1>5. \A i \in Nat : i \in S
  BY <1>3, <1>4, SetInduction
<1>6. ASSUME NEW i \in 0..N
      PROVE  /\ r[i] # Null => r[i] \in Slot /\ home[r[i]] = b /\ pos[r[i]] = i + 1
             /\ r[i] = Null => \A s \in Slot : home[s] = b => pos[s] <= i
  <2>1. i \in S /\ i \in Nat /\ i <= N
    BY <1>5, SlotIs
  <2> QED BY <1>2, <2>1 DEF S, Link
<1>7. \A s \in Slot : pos[s] \in Nat
  BY DEF Positions
<1> QED BY <1>6, <1>7 DEF r

\* The same of the free list, as far as it is made of free slots.
LEMMA FreeWalk ==
  ASSUME NEW h \in Table, NEW home \in Homes, NEW pos \in Positions,
         Placed(h, home, pos)
  PROVE  \A i \in 0..(N - h.size - 1) : LET x == Reached(h, h.free)[i] IN
           x \in Slot /\ home[x] = N /\ pos[x] = i + 1
<1> DEFINE r == Reached(h, h.free)
<1>0. h.size \in 0..N /\ h.free \in Link
  BY DEF Table
<1>2. /\ r \in [0..N -> Link] /\ r[0] = h.free
      /\ \A i \in 1..N : r[i] = IF r[i - 1] = Null THEN Null ELSE h.next[r[i - 1]]
  BY <1>0, ReachedIs
<1> HIDE DEF r
<1> DEFINE S == {i \in Nat : i <= N - h.size - 1 => r[i] \in Slot /\ home[r[i]] = N /\ pos[r[i]] = i + 1}
<1>3. 0 \in S
  <2>1. FreeLinked(h, home, pos)
    BY DEF Placed
  <2> QED BY <1>0, <1>2, <2>1, SlotIs DEF FreeLinked, Link
<1>4. ASSUME NEW i \in Nat, i \in S PROVE i + 1 \in S
  <2> SUFFICES ASSUME i + 1 <= N - h.size - 1
               PROVE  r[i + 1] \in Slot /\ home[r[i + 1]] = N /\ pos[r[i + 1]] = (i + 1) + 1
    OBVIOUS
  <2>1. i + 1 \in 1..N /\ i \in 0..N /\ (i + 1) - 1 = i /\ i <= N - h.size - 1
    BY <1>0, SlotIs
  <2>2. r[i] \in Slot /\ home[r[i]] = N /\ pos[r[i]] = i + 1
    BY <1>4, <2>1
  <2>3. r[i + 1] = h.next[r[i]] /\ r[i + 1] \in Link
    <3>1. r[i] # Null
      BY <2>2, SlotIs
    <3>2. r[i + 1] = h.next[r[i]]
      BY <1>2, <2>1, <3>1
    <3> QED BY <1>2, <2>1, <3>2
  <2>4. pos[r[i]] < N - h.size
    BY <1>0, <2>1, <2>2, SlotIs
  <2>5. h.next[r[i]] # Null /\ home[h.next[r[i]]] = N /\ pos[h.next[r[i]]] = pos[r[i]] + 1
    BY <2>2, <2>4 DEF Placed, FreeLinked
  <2> QED BY <2>2, <2>3, <2>5 DEF Link
<1> HIDE DEF S
<1>5. \A i \in Nat : i \in S
  BY <1>3, <1>4, SetInduction
<1> QED BY <1>0, <1>5, SlotIs DEF r, S

-----------------------------------------------------------------------------
(* What the chains and the free list hold *)

\* A chain has at most N slots.
LEMMA PositionBound ==
  ASSUME NEW h \in Table, NEW home \in Homes, NEW pos \in Positions,
         Placed(h, home, pos), NEW s \in Slot, home[s] # N
  PROVE  pos[s] \in 1..N
<1> SUFFICES ASSUME ~(pos[s] <= N) PROVE FALSE
  BY SlotIs DEF Positions
<1> DEFINE b == home[s]
           r == Reached(h, h.bucket[b])
<1>1. b \in Bucket /\ pos[s] \in Nat /\ pos[s] > N
  BY SlotIs DEF Homes, Positions
<1>2. \A i \in 0..N : r[i] \in Slot /\ pos[r[i]] = i + 1
  <2> SUFFICES ASSUME NEW i \in 0..N PROVE r[i] \in Slot /\ pos[r[i]] = i + 1
    OBVIOUS
  <2>1. pos[s] > i
    BY <1>1, SlotIs
  <2>2. r[i] # Null
    BY <1>1, <2>1, ChainWalk
  <2> QED BY <1>1, <2>2, ChainWalk
<1> HIDE DEF r, b
<1> DEFINE f == [i \in 0..N |-> r[i]]
<1>3. f \in [0..N -> Slot]
  BY <1>2
<1>4. \A i, j \in 0..N : f[i] = f[j] => i = j
  <2>1. \A i, j \in 0..N : f[i] = f[j] => i + 1 = j + 1
    BY <1>2
  <2> QED BY <2>1, SlotIs
<1>5. IsFiniteSet(0..N) /\ Cardinality(0..N) = N + 1
  <2>1. IsFiniteSet(0..N) /\ Cardinality(0..N) = IF 0 > N THEN 0 ELSE N - 0 + 1
    BY SlotIs, FS_Interval
  <2> QED BY <2>1, SlotIs
<1> HIDE DEF f
<1>6. Cardinality(Slot) < Cardinality(0..N)
  BY <1>5, SlotsFinite, SlotIs
<1> DEFINE I == 0..N
<1>7. IsFiniteSet(I) /\ f \in [I -> Slot] /\ Cardinality(Slot) < Cardinality(I)
  BY <1>3, <1>5, <1>6
<1>8. \A i, j \in I : f[i] = f[j] => i = j
  BY <1>4
<1> HIDE DEF I
<1>9. \E i, j \in I : i # j /\ f[i] = f[j]
  BY <1>7, SlotsFinite, FS_PigeonHole, Zenon
<1> QED BY <1>8, <1>9

\* A chain is made of the slots of its bucket, and has ended after N links.
LEMMA ChainIs ==
  ASSUME NEW h \in Table, NEW home \in Homes, NEW pos \in Positions,
         Placed(h, home, pos), NEW b \in Bucket
  PROVE  /\ Chain(h, b) = {s \in Slot : home[s] = b}
         /\ Reached(h, h.bucket[b])[N] = Null
<1> DEFINE r == Reached(h, h.bucket[b])
<1>1. /\ \A i \in 0..N : r[i] # Null => r[i] \in Slot /\ home[r[i]] = b /\ pos[r[i]] = i + 1
      /\ \A i \in 0..N, s \in Slot : home[s] = b /\ pos[s] > i => r[i] # Null
  BY ChainWalk
<1>2. Chain(h, b) = {r[i] : i \in 0..N} \ {Null}
  BY DEF Chain
<1> HIDE DEF r
<1>3. b # N
  BY SlotIs
<1>4. ASSUME NEW s \in Slot, home[s] = b PROVE \E i \in 0..N : r[i] = s
  <2>1. pos[s] \in 1..N
    BY <1>3, <1>4, PositionBound
  <2> DEFINE i == pos[s] - 1
  <2>2. i \in 0..N /\ pos[s] > i /\ i + 1 = pos[s]
    BY <2>1, SlotIs
  <2>3. r[i] \in Slot /\ home[r[i]] = b /\ pos[r[i]] = i + 1
    BY <1>1, <1>4, <2>2
  <2>4. r[i] = s
    BY <1>4, <2>2, <2>3 DEF Placed, PlacesApart
  <2> QED BY <2>2, <2>4
<1>5. \A s \in Slot : s # Null
  BY SlotIs
<1>6. r[N] = Null
  <2> SUFFICES ASSUME r[N] # Null PROVE FALSE
    OBVIOUS
  <2>1. r[N] \in Slot /\ home[r[N]] = b /\ pos[r[N]] = N + 1
    BY <1>1, SlotIs
  <2>2. pos[r[N]] \in 1..N
    BY <1>3, <2>1, PositionBound
  <2> QED BY <2>1, <2>2, SlotIs
<1>7. Chain(h, b) = {s \in Slot : home[s] = b}
  BY <1>1, <1>2, <1>4, <1>5
<1> QED BY <1>6, <1>7 DEF r

\* The elements are in the slots that have a bucket.
LEMMA LiveIs ==
  ASSUME NEW h \in Table, NEW home \in Homes, NEW pos \in Positions,
         Placed(h, home, pos)
  PROVE  Live(h) = {s \in Slot : home[s] # N}
<1>1. \A b \in Bucket : Chain(h, b) = {s \in Slot : home[s] = b}
  BY ChainIs
<1>2. Live(h) = UNION {Chain(h, b) : b \in Bucket}
  BY DEF Live
<1>3. \A s \in Slot : home[s] # N <=> home[s] \in Bucket
  BY SlotIs DEF Homes
<1> QED BY <1>1, <1>2, <1>3

\* The first N - size entries of the free list are the other slots, each once.
LEMMA FreeIs ==
  ASSUME NEW h \in Table, NEW home \in Homes, NEW pos \in Positions,
         Placed(h, home, pos)
  PROVE  /\ {Reached(h, h.free)[i] : i \in 0..(N - h.size - 1)} = {s \in Slot : home[s] = N}
         /\ IsFiniteSet({s \in Slot : home[s] = N})
         /\ Cardinality({s \in Slot : home[s] = N}) = N - h.size
<1> DEFINE r == Reached(h, h.free)
           I == 0..(N - h.size - 1)
           F == {s \in Slot : home[s] = N}
<1>0. h.size \in 0..N /\ N \in Nat
  BY SlotIs DEF Table
<1>1. \A i \in I : r[i] \in Slot /\ home[r[i]] = N /\ pos[r[i]] = i + 1
  BY FreeWalk
<1> HIDE DEF r
<1>2. ASSUME NEW s \in F PROVE \E i \in I : r[i] = s
  <2>1. pos[s] \in Nat \ {0} /\ pos[s] <= N - h.size
    BY DEF Placed, FreeLinked, Positions
  <2> DEFINE i == pos[s] - 1
  <2>2. i \in I /\ i + 1 = pos[s]
    BY <1>0, <2>1
  <2>3. r[i] = s
    BY <1>1, <2>2 DEF Placed, PlacesApart
  <2> QED BY <2>2, <2>3
<1>3. {r[i] : i \in I} = F
  BY <1>1, <1>2
<1> DEFINE f == [i \in I |-> r[i]]
<1>4. IsFiniteSet(I) /\ Cardinality(I) = N - h.size
  <2>0. N - h.size - 1 \in Int
    BY <1>0
  <2>1. IsFiniteSet(I) /\ Cardinality(I) = IF 0 > N - h.size - 1 THEN 0 ELSE (N - h.size - 1) - 0 + 1
    BY <2>0, FS_Interval
  <2> QED BY <1>0, <2>1
<1>5. \A i \in I : i \in Nat
  BY <1>0
<1> HIDE DEF I
<1>6. f \in [I -> F] /\ \A t \in F : \E i \in I : f[i] = t
  BY <1>1, <1>2
<1>7. \A i, j \in I : f[i] = f[j] => i = j
  <2>1. \A i, j \in I : f[i] = f[j] => i + 1 = j + 1
    BY <1>1
  <2> QED BY <1>5, <2>1
<1> HIDE DEF f, F
<1>8. IsFiniteSet(F) /\ Cardinality(F) = Cardinality(I)
  BY <1>4, <1>6, <1>7, SameSize
<1> QED BY <1>3, <1>4, <1>8 DEF r, I, F

\* There are size elements.
LEMMA CountIs ==
  ASSUME NEW h \in Table, NEW home \in Homes, NEW pos \in Positions,
         Placed(h, home, pos)
  PROVE  IsFiniteSet(Live(h)) /\ Cardinality(Live(h)) = h.size
<1> DEFINE F == {s \in Slot : home[s] = N}
<1>1. IsFiniteSet(F) /\ Cardinality(F) = N - h.size
  BY FreeIs
<1>2. Live(h) = {s \in Slot : home[s] # N}
  BY LiveIs
<1>3. Slot = F \cup Live(h) /\ F \cap Live(h) = {} /\ Live(h) \in SUBSET Slot
  BY <1>2
<1> HIDE DEF F
<1>4. IsFiniteSet(Live(h))
  BY <1>3, SlotsFinite, FS_Subset
<1>5. Cardinality(Slot) = Cardinality(F) + Cardinality(Live(h)) - Cardinality({})
  BY <1>1, <1>3, <1>4, FS_Union
<1>6. Cardinality(Live(h)) \in Nat
  BY <1>4, FS_CardinalityType
<1>7. h.size \in Nat
  BY SlotIs DEF Table
<1> QED BY <1>1, <1>4, <1>5, <1>6, <1>7, SlotsFinite, SlotIs, FS_EmptySet

-----------------------------------------------------------------------------
(* The operations *)

\* After the constructor and clear every slot is free, from the last to the first, whatever
\* the free list held before.
LEMMA EmptiedSound ==
  ASSUME NEW h \in Table
  PROVE  Sound(Emptied(h)) /\ Live(Emptied(h)) = {}
<1> DEFINE g == Emptied(h)
           home == [s \in Slot |-> N]
           pos == [s \in Slot |-> N + 1 - s]
<1>1. /\ g.next = [s \in Slot |-> IF s = 1 THEN h.free ELSE s - 1]
      /\ g.key = h.key /\ g.free = N /\ g.size = 0
      /\ g.bucket = [b \in Bucket |-> Null]
  BY DEF Emptied, Table
<1>2. g \in Table
  <2>1. \A s \in Slot : s # 1 => s - 1 \in Slot
    BY SlotIs DEF Slot
  <2> DEFINE pushed == [s \in Slot |-> IF s = 1 THEN h.free ELSE s - 1]
             none == [b \in Bucket |-> Null]
  <2>2. g = [h EXCEPT !.next = pushed, !.free = N, !.size = 0, !.bucket = none]
    BY DEF Emptied
  <2>3. pushed \in [Slot -> Link]
    BY <2>1 DEF Link, Table
  <2>4. none \in [Bucket -> Link] /\ N \in Link /\ 0 \in 0..N
    BY SlotIs DEF Link
  <2> HIDE DEF g, pushed, none
  <2> QED BY <2>2, <2>3, <2>4 DEF Table
<1>3. home \in Homes /\ pos \in Positions
  BY SlotIs DEF Homes, Positions, Slot
<1> HIDE DEF g
<1>4. PlacesApart(home, pos)
  BY SlotIs DEF PlacesApart
<1>5. HeadsFirst(g, home, pos) /\ ChainsLinked(g, home, pos)
  BY <1>1, SlotIs DEF HeadsFirst, ChainsLinked
<1>6. FreeLinked(g, home, pos)
  <2>1. g.free # Null /\ home[g.free] = N /\ pos[g.free] = 1
    BY <1>1, SlotIs
  <2>2. ASSUME NEW s \in Slot
        PROVE  /\ pos[s] <= N - g.size
               /\ pos[s] < N - g.size =>
                    g.next[s] # Null /\ home[g.next[s]] = N /\ pos[g.next[s]] = pos[s] + 1
    <3>1. s \in 1..N /\ pos[s] = N + 1 - s /\ g.size = 0
      BY <1>1 DEF Slot
    <3>2. CASE s = 1
      BY <3>1, <3>2, SlotIs
    <3>3. CASE s # 1
      <4>1. g.next[s] = s - 1 /\ s - 1 \in Slot
        BY <1>1, <3>1, <3>3, SlotIs DEF Slot
      <4>2. home[s - 1] = N /\ pos[s - 1] = N + 1 - (s - 1) /\ s - 1 # Null
        BY <4>1, SlotIs
      <4> QED BY <3>1, <4>1, <4>2, SlotIs
    <3> QED BY <3>2, <3>3
  <2> QED BY <2>1, <2>2 DEF FreeLinked
<1>7. Placed(g, home, pos)
  BY <1>4, <1>5, <1>6 DEF Placed
<1>8. Keyed(g, home)
  BY DEF Keyed
<1>9. Live(g) = {}
  <2>1. Live(g) = {s \in Slot : home[s] # N}
    BY <1>2, <1>3, <1>7, LiveIs
  <2> QED BY <2>1
<1>10. Sound(g)
  <2> HIDE DEF home, pos
  <2> QED BY <1>2, <1>3, <1>7, <1>8 DEF Sound
<1> QED BY <1>9, <1>10 DEF g

\* A chain that has slots has a last one.
LEMMA LastExists ==
  ASSUME NEW h \in Table, NEW home \in Homes, NEW pos \in Positions,
         Placed(h, home, pos), NEW b \in Bucket, h.bucket[b] # Null
  PROVE  \E e \in Slot : home[e] = b /\ h.next[e] = Null
<1> DEFINE T == {pos[s] : s \in {x \in Slot : home[x] = b}}
<1>1. b # N /\ N \in Int
  BY SlotIs
<1>2. T \in SUBSET Int /\ \A x \in T : x <= N
  <2>1. ASSUME NEW s \in Slot, home[s] = b PROVE pos[s] \in Int /\ pos[s] <= N
    <3>1. pos[s] \in 1..N
      BY <1>1, <2>1, PositionBound
    <3> QED BY <3>1, SlotIs
  <2> QED BY <2>1
<1>3. T # {}
  <2>1. h.bucket[b] \in Slot /\ home[h.bucket[b]] = b
    BY DEF Table, Link, Placed, HeadsFirst
  <2> QED BY <2>1
<1> HIDE DEF T
<1>4. PICK m \in T : \A y \in T : m >= y
  BY <1>1, <1>2, <1>3, GreatestElement
<1>5. PICK e \in Slot : home[e] = b /\ m = pos[e]
  BY <1>4 DEF T
<1>6. \A s \in Slot : home[s] = b => pos[s] <= pos[e]
  <2>1. \A s \in Slot : home[s] = b => pos[s] \in T
    BY DEF T
  <2> QED BY <1>2, <1>4, <1>5, <2>1
<1>7. h.next[e] = Null
  <2> SUFFICES ASSUME h.next[e] # Null PROVE FALSE
    OBVIOUS
  <2>1. h.next[e] \in Slot /\ home[h.next[e]] = b /\ pos[h.next[e]] = pos[e] + 1
    BY <1>1, <1>5 DEF Placed, ChainsLinked, Table, Link
  <2>2. pos[e] \in Nat
    BY DEF Positions
  <2> QED BY <1>6, <2>1, <2>2
<1> QED BY <1>5, <1>7

\* The slot that the free list gives to a new element is free, and goes behind the last one
\* of its chain.
LEMMA InsertedPlaced ==
  ASSUME NEW h \in Table, NEW home \in Homes, NEW pos \in Positions,
         Placed(h, home, pos), NEW k \in Key, h.size < N
  PROVE  LET g == Inserted(h, k) IN
         /\ g \in Table
         /\ h.free \in Slot /\ home[h.free] = N
         /\ \E pos2 \in Positions : Placed(g, [home EXCEPT ![h.free] = Hash[k]], pos2)
<1> DEFINE g == Inserted(h, k)
           s == h.free
           b == Hash[k]
           ends == {e \in Chain(h, b) : h.next[e] = Null}
<1>1. /\ PlacesApart(home, pos) /\ HeadsFirst(h, home, pos)
      /\ ChainsLinked(h, home, pos) /\ FreeLinked(h, home, pos)
  BY DEF Placed
<1>2. b \in Bucket /\ b # N /\ N \in Nat /\ h.size \in Nat /\ Null \notin Slot
  <2>1. b \in Bucket
    BY SlotIs
  <2>2. h.size \in 0..N
    BY DEF Table
  <2>3. b # N
    BY <2>1, SlotIs
  <2>4. N \in Nat
    BY SlotIs
  <2> QED BY <2>1, <2>2, <2>3, <2>4, NullAssumption
<1>3. s \in Slot /\ home[s] = N /\ pos[s] = 1
  BY <1>1 DEF FreeLinked, Table, Link
<1>4. \A x \in Slot : pos[x] \in Nat \ {0} /\ home[x] \in Bucket \cup {N} /\ h.next[x] \in Link
  BY DEF Positions, Homes, Table
<1>5. \A e : e \in ends <=> e \in Slot /\ home[e] = b /\ h.next[e] = Null
  BY <1>2, ChainIs
<1>6. /\ DOMAIN g.next = Slot
      /\ \A x \in Slot : g.next[x] = IF x = s THEN Null ELSE IF x \in ends THEN s ELSE h.next[x]
      /\ g.bucket = IF h.bucket[b] = Null THEN [h.bucket EXCEPT ![b] = s] ELSE h.bucket
      /\ g.free = h.next[s] /\ g.size = h.size + 1
  BY DEF Inserted
<1>7. g \in Table
  <2> DEFINE next == [x \in Slot |-> IF x = s THEN Null ELSE IF x \in ends THEN s ELSE h.next[x]]
             key == [h.key EXCEPT ![s] = k]
             bucket == IF h.bucket[b] = Null THEN [h.bucket EXCEPT ![b] = s] ELSE h.bucket
  <2>1. g = [next |-> next, key |-> key, bucket |-> bucket, free |-> h.next[s], size |-> h.size + 1]
    BY DEF Inserted
  <2>2. next \in [Slot -> Link]
    BY <1>3, <1>4 DEF Link
  <2>3. key \in [Slot -> Key] /\ bucket \in [Bucket -> Link]
    BY <1>3 DEF Table, Link
  <2>4. h.next[s] \in Link /\ h.size + 1 \in 0..N
    BY <1>2, <1>3, <1>4
  <2> HIDE DEF g, next, key, bucket
  <2> QED BY <2>1, <2>2, <2>3, <2>4 DEF Table
<1> HIDE DEF g, s, b, ends
\* The position of the new slot.
<1>8. PICK q \in Nat \ {0} :
        /\ \A x \in Slot : home[x] = b => pos[x] < q
        /\ h.bucket[b] = Null => q = 1
        /\ \A e \in ends : q = pos[e] + 1
  <2>1. CASE h.bucket[b] = Null
    <3>1. \A x \in Slot : home[x] # b
      BY <1>1, <1>2, <2>1 DEF HeadsFirst
    <3> QED BY <1>5, <3>1
  <2>2. CASE h.bucket[b] # Null
    <3>1. PICK e \in Slot : home[e] = b /\ h.next[e] = Null
      BY <1>2, <2>2, LastExists
    <3>2. ASSUME NEW d \in Slot, home[d] = b, h.next[d] = Null
          PROVE  \A x \in Slot : home[x] = b => pos[x] <= pos[d]
      BY <1>1, <1>2, <3>2 DEF ChainsLinked
    <3>3. \A d \in ends : pos[d] = pos[e]
      <4> SUFFICES ASSUME NEW d \in ends PROVE pos[d] = pos[e]
        OBVIOUS
      <4>1. d \in Slot /\ home[d] = b /\ h.next[d] = Null
        BY <1>5
      <4>2. pos[d] <= pos[e] /\ pos[e] <= pos[d]
        BY <3>1, <3>2, <4>1
      <4> QED BY <1>4, <3>1, <4>1, <4>2
    <3>4. \A x \in Slot : home[x] = b => pos[x] < pos[e] + 1
      <4>1. \A x \in Slot : home[x] = b => pos[x] <= pos[e]
        BY <3>1, <3>2
      <4> QED BY <1>4, <3>1, <4>1
    <3>5. pos[e] + 1 \in Nat \ {0}
      BY <1>4, <3>1
    <3> QED BY <2>2, <3>3, <3>4, <3>5
  <2> QED BY <2>1, <2>2
<1> DEFINE home2 == [home EXCEPT ![s] = b]
           pos2 == [x \in Slot |-> IF x = s THEN q ELSE IF home[x] = N THEN pos[x] - 1 ELSE pos[x]]
<1>9. home2[s] = b /\ pos2[s] = q
  BY <1>3 DEF Homes
<1>10. \A x \in Slot : x # s =>
         /\ home2[x] = home[x]
         /\ home[x] = N => pos[x] > 1 /\ pos2[x] = pos[x] - 1
         /\ home[x] # N => pos2[x] = pos[x]
  <2> SUFFICES ASSUME NEW x \in Slot, x # s
               PROVE  /\ home2[x] = home[x]
                      /\ home[x] = N => pos[x] > 1 /\ pos2[x] = pos[x] - 1
                      /\ home[x] # N => pos2[x] = pos[x]
    OBVIOUS
  <2>1. home[x] = N => pos[x] # 1
    BY <1>1, <1>3 DEF PlacesApart
  <2>2. home2[x] = home[x]
    BY DEF Homes
  <2> QED BY <1>4, <2>1, <2>2
<1>11. pos2 \in Positions
  BY <1>4, <1>8, <1>10 DEF Positions
<1>12. \A x \in Slot : pos2[x] \in Nat \ {0} /\ home2[x] \in Bucket \cup {N}
  BY <1>2, <1>4, <1>9, <1>10, <1>11 DEF Positions
<1> HIDE DEF home2, pos2
<1>13. PlacesApart(home2, pos2)
  <2> SUFFICES ASSUME NEW x \in Slot, NEW y \in Slot, home2[x] = home2[y], pos2[x] = pos2[y]
               PROVE  x = y
    BY DEF PlacesApart
  <2>1. CASE x = s \/ y = s
    BY <1>2, <1>8, <1>9, <1>10, <2>1, <1>4
  <2>2. CASE x # s /\ y # s
    <3>1. home[x] = home[y] /\ pos[x] = pos[y]
      BY <1>4, <1>10, <2>2
    <3> QED BY <1>1, <3>1 DEF PlacesApart
  <2> QED BY <2>1, <2>2
<1>14. HeadsFirst(g, home2, pos2)
  <2> SUFFICES ASSUME NEW c \in Bucket
               PROVE  IF g.bucket[c] = Null THEN \A x \in Slot : home2[x] # c
                      ELSE home2[g.bucket[c]] = c /\ pos2[g.bucket[c]] = 1
    BY DEF HeadsFirst
  <2>1. IF h.bucket[c] = Null THEN \A x \in Slot : home[x] # c
        ELSE home[h.bucket[c]] = c /\ pos[h.bucket[c]] = 1
    BY <1>1 DEF HeadsFirst
  <2>2. c # N /\ h.bucket[c] \in Link
    BY SlotIs DEF Table
  <2>3. CASE c = b /\ h.bucket[b] = Null
    <3>1. g.bucket[c] = s
      BY <1>6, <2>3 DEF Table
    <3> QED BY <1>3, <1>2, <1>8, <1>9, <2>3, <3>1
  <2>4. CASE ~(c = b /\ h.bucket[b] = Null)
    <3>1. g.bucket[c] = h.bucket[c]
      BY <1>6, <2>4 DEF Table
    <3>2. CASE h.bucket[c] = Null
      <4>1. c # b
        BY <2>4, <3>2
      <4> QED BY <1>9, <1>10, <2>1, <3>1, <3>2, <4>1
    <3>3. CASE h.bucket[c] # Null
      <4>1. h.bucket[c] \in Slot /\ home[h.bucket[c]] = c /\ pos[h.bucket[c]] = 1
        BY <2>1, <2>2, <3>3 DEF Link
      <4>2. h.bucket[c] # s
        BY <1>3, <2>2, <4>1
      <4> QED BY <1>10, <2>2, <3>1, <3>3, <4>1, <4>2
    <3> QED BY <3>2, <3>3
  <2> QED BY <2>3, <2>4
<1>15. ChainsLinked(g, home2, pos2)
  <2> SUFFICES ASSUME NEW x \in Slot, home2[x] # N
               PROVE  IF g.next[x] = Null
                      THEN \A t \in Slot : home2[t] = home2[x] => pos2[t] <= pos2[x]
                      ELSE home2[g.next[x]] = home2[x] /\ pos2[g.next[x]] = pos2[x] + 1
    BY DEF ChainsLinked
  <2>1. CASE x = s
    <3>1. g.next[x] = Null /\ home2[x] = b /\ pos2[x] = q
      BY <1>3, <1>6, <1>9, <2>1
    <3>2. ASSUME NEW t \in Slot, home2[t] = b PROVE pos2[t] <= q
      BY <1>2, <1>4, <1>8, <1>9, <1>10, <3>2
    <3> QED BY <3>1, <3>2
  <2>2. CASE x # s /\ x \in ends
    <3>1. g.next[x] = s /\ home2[x] = b /\ pos2[x] = pos[x]
      BY <1>2, <1>5, <1>6, <1>10, <2>2
    <3>2. q = pos[x] + 1
      BY <1>8, <2>2
    <3> QED BY <1>2, <1>3, <1>9, <3>1, <3>2
  <2>3. CASE x # s /\ x \notin ends
    <3>1. g.next[x] = h.next[x] /\ home2[x] = home[x] /\ pos2[x] = pos[x] /\ home[x] # N
      BY <1>6, <1>10, <2>3
    <3>2. CASE h.next[x] = Null
      <4>1. home[x] # b
        BY <1>5, <2>3, <3>2
      <4>2. \A t \in Slot : home[t] = home[x] => pos[t] <= pos[x]
        BY <1>1, <3>1, <3>2 DEF ChainsLinked
      <4>3. \A t \in Slot : home2[t] = home2[x] => pos2[t] <= pos2[x]
        BY <1>9, <1>10, <3>1, <4>1, <4>2
      <4> QED BY <3>1, <3>2, <4>3
    <3>3. CASE h.next[x] # Null
      <4>1. h.next[x] \in Slot /\ home[h.next[x]] = home[x] /\ pos[h.next[x]] = pos[x] + 1
        BY <1>1, <1>4, <3>1, <3>3 DEF ChainsLinked, Link
      <4>2. h.next[x] # s
        BY <1>3, <3>1, <4>1
      <4>3. home2[h.next[x]] = home[x] /\ pos2[h.next[x]] = pos[x] + 1
        BY <1>10, <3>1, <4>1, <4>2
      <4> QED BY <3>1, <3>3, <4>3
    <3> QED BY <3>2, <3>3
  <2> QED BY <2>1, <2>2, <2>3
<1>16. FreeLinked(g, home2, pos2)
  <2>1. /\ \A x \in Slot : home[x] = N =>
             /\ pos[x] <= N - h.size
             /\ pos[x] < N - h.size =>
                  h.next[x] # Null /\ home[h.next[x]] = N /\ pos[h.next[x]] = pos[x] + 1
      /\ g.size = h.size + 1
    BY <1>1, <1>6 DEF FreeLinked
  <2>2. ASSUME g.size < N
        PROVE  g.free # Null /\ home2[g.free] = N /\ pos2[g.free] = 1
    <3>1. pos[s] < N - h.size
      BY <1>2, <1>3, <2>1, <2>2
    <3>2. g.free \in Slot /\ home[g.free] = N /\ pos[g.free] = 2
      BY <1>3, <1>4, <1>6, <2>1, <3>1 DEF Link
    <3>3. g.free # s
      BY <1>3, <3>2
    <3> QED BY <1>2, <1>10, <3>2, <3>3
  <2>3. ASSUME NEW x \in Slot, home2[x] = N
        PROVE  /\ pos2[x] <= N - g.size
               /\ pos2[x] < N - g.size =>
                    g.next[x] # Null /\ home2[g.next[x]] = N /\ pos2[g.next[x]] = pos2[x] + 1
    <3>1. x # s
      BY <1>2, <1>9, <2>3
    <3>2. home[x] = N /\ pos[x] > 1 /\ pos2[x] = pos[x] - 1
      BY <1>10, <2>3, <3>1
    <3>3. x \notin ends
      BY <1>2, <1>5, <3>2
    <3>4. g.next[x] = h.next[x]
      BY <1>6, <3>1, <3>3
    <3>5. pos2[x] <= N - g.size
      BY <1>2, <1>4, <2>1, <3>2
    <3>6. ASSUME pos2[x] < N - g.size
          PROVE  h.next[x] # Null /\ home2[h.next[x]] = N /\ pos2[h.next[x]] = pos2[x] + 1
      <4>1. pos[x] < N - h.size
        BY <1>2, <1>4, <2>1, <3>2, <3>6
      <4>2. h.next[x] \in Slot /\ home[h.next[x]] = N /\ pos[h.next[x]] = pos[x] + 1
        BY <1>4, <2>1, <3>2, <4>1 DEF Link
      <4>3. h.next[x] # s
        BY <1>3, <1>4, <3>2, <4>2
      <4>4. home2[h.next[x]] = N /\ pos2[h.next[x]] = (pos[x] + 1) - 1
        BY <1>10, <4>2, <4>3
      <4> QED BY <1>2, <1>4, <3>2, <4>2, <4>4
    <3> QED BY <3>4, <3>5, <3>6
  <2> QED BY <2>2, <2>3 DEF FreeLinked
<1>17. Placed(g, home2, pos2)
  BY <1>13, <1>14, <1>15, <1>16 DEF Placed
<1> QED BY <1>3, <1>7, <1>11, <1>17 DEF g, s, b, home2

\* A key is found if and only if an element has it, in the slot of that element.
LEMMA LookupIs ==
  ASSUME NEW h \in Table, NEW home \in Homes, NEW pos \in Positions,
         Placed(h, home, pos), Keyed(h, home), NEW k \in Key
  PROVE  /\ Lookup(h, k) = Null => \A s \in Slot : home[s] # N => h.key[s] # k
         /\ LET s == Lookup(h, k) IN
              s # Null => s \in Slot /\ home[s] = Hash[k] /\ h.key[s] = k
<1> DEFINE holders == {s \in Chain(h, Hash[k]) : h.key[s] = k}
<1>1. Hash[k] \in Bucket
  BY SlotIs
<1>2. \A s : s \in holders <=> s \in Slot /\ home[s] = Hash[k] /\ h.key[s] = k
  BY <1>1, ChainIs
<1>3. Lookup(h, k) = IF holders = {} THEN Null ELSE CHOOSE s \in holders : TRUE
  BY DEF Lookup
<1> HIDE DEF holders
<1>4. \A s \in holders : s # Null
  BY <1>2, SlotIs
<1>5. holders # {} => Lookup(h, k) \in holders
  BY <1>3
<1>6. ASSUME holders = {}, NEW s \in Slot, home[s] # N PROVE h.key[s] # k
  <2>1. Hash[h.key[s]] = home[s]
    BY <1>6 DEF Keyed
  <2> QED BY <1>2, <1>6, <2>1
<1> QED BY <1>2, <1>3, <1>4, <1>5, <1>6

\* insert of a new key adds it, in a slot that held no element, and keeps the others in
\* theirs.
LEMMA InsertedSound ==
  ASSUME NEW h, Sound(h), NEW k \in Key, Insertable(h, k)
  PROVE  LET g == Inserted(h, k) IN
         /\ Sound(g) /\ h \in Table
         /\ h.free \in Slot \ Live(h)
         /\ Live(g) = Live(h) \cup {h.free}
         /\ g.key = [h.key EXCEPT ![h.free] = k]
         /\ \A s \in Live(h) : s \in Slot /\ h.key[s] # k
<1> DEFINE g == Inserted(h, k)
           s == h.free
<1>1. h \in Table
  BY DEF Sound
<1>2. PICK home \in Homes, pos \in Positions : Placed(h, home, pos) /\ Keyed(h, home)
  BY DEF Sound
<1>3. h.size < N /\ Lookup(h, k) = Null
  BY DEF Insertable
<1>4. \A x \in Slot : home[x] # N => h.key[x] # k
  BY <1>1, <1>2, <1>3, LookupIs
<1> DEFINE home2 == [home EXCEPT ![s] = Hash[k]]
<1>5. /\ g \in Table /\ s \in Slot /\ home[s] = N
      /\ \E pos2 \in Positions : Placed(g, home2, pos2)
  BY <1>1, <1>2, <1>3, InsertedPlaced
<1>6. g.key = [h.key EXCEPT ![s] = k] /\ h.key \in [Slot -> Key]
  BY <1>1 DEF Inserted, Table
<1>7. Hash[k] \in Bucket /\ Hash[k] # N
  BY SlotIs
<1>8. home2 \in Homes /\ home2[s] = Hash[k] /\ \A x \in Slot : x # s => home2[x] = home[x]
  BY <1>5, <1>7 DEF Homes
<1>9. /\ g.key[s] = k
      /\ \A x \in Slot : x # s => g.key[x] = h.key[x]
  BY <1>5, <1>6
<1> HIDE DEF home2, g
<1>10. Keyed(g, home2)
  <2>1. ASSUME NEW x \in Slot, home2[x] # N PROVE Hash[g.key[x]] = home2[x]
    BY <1>2, <1>8, <1>9, <2>1 DEF Keyed
  <2>2. ASSUME NEW x \in Slot, NEW y \in Slot, home2[x] # N, home2[y] # N, g.key[x] = g.key[y]
        PROVE  x = y
    <3>1. CASE x = s \/ y = s
      BY <1>4, <1>8, <1>9, <2>2, <3>1
    <3>2. CASE x # s /\ y # s
      BY <1>2, <1>8, <1>9, <2>2, <3>2 DEF Keyed
    <3> QED BY <3>1, <3>2
  <2> QED BY <2>1, <2>2 DEF Keyed
<1>11. Sound(g)
  BY <1>5, <1>8, <1>10 DEF Sound
<1>12. Live(h) = {x \in Slot : home[x] # N}
  BY <1>1, <1>2, LiveIs
<1>13. Live(g) = {x \in Slot : home2[x] # N}
  BY <1>5, <1>8, LiveIs
<1>14. Live(g) = Live(h) \cup {s}
  BY <1>5, <1>7, <1>8, <1>12, <1>13
<1> QED BY <1>1, <1>4, <1>5, <1>6, <1>11, <1>12, <1>14 DEF g

\* An element that is erased leaves its chain to the others and its slot to the free list.
LEMMA UnlinkedPlaced ==
  ASSUME NEW h \in Table, NEW home \in Homes, NEW pos \in Positions,
         Placed(h, home, pos), NEW b \in Bucket, NEW s \in Slot, home[s] = b
  PROVE  LET g == Unlinked(h, s, b) IN
         /\ g \in Table
         /\ \E pos2 \in Positions : Placed(g, [home EXCEPT ![s] = N], pos2)
<1> DEFINE g == Unlinked(h, s, b)
           d == Detached(h, s, b)
<1>1. /\ PlacesApart(home, pos) /\ HeadsFirst(h, home, pos)
      /\ ChainsLinked(h, home, pos) /\ FreeLinked(h, home, pos)
  BY DEF Placed
<1>2. b # N /\ N \in Nat /\ h.size \in Nat /\ Null \notin Slot /\ h.size <= N
  <2>1. b # N /\ N \in Nat
    BY SlotIs
  <2>2. h.size \in 0..N
    BY DEF Table
  <2> QED BY <2>1, <2>2, NullAssumption
<1>3. \A x \in Slot : pos[x] \in Nat \ {0} /\ home[x] \in Bucket \cup {N} /\ h.next[x] \in Link
  BY DEF Positions, Homes, Table
<1>4. h.size > 0
  <2>1. IsFiniteSet(Live(h)) /\ Cardinality(Live(h)) = h.size
    BY CountIs
  <2>2. s \in Live(h)
    BY <1>2, LiveIs
  <2>3. h.size # 0
    BY <2>1, <2>2, FS_EmptySet
  <2> QED BY <1>2, <2>3
<1>5. Chain(h, b) = {x \in Slot : home[x] = b}
  BY ChainIs
<1> DEFINE nextd == [x \in Slot |-> IF x \in Chain(h, b) /\ h.next[x] = s THEN h.next[s] ELSE h.next[x]]
           bucketd == [h.bucket EXCEPT ![b] = IF @ = s THEN h.next[s] ELSE @]
<1>6. d = [h EXCEPT !.next = nextd, !.bucket = bucketd]
  BY DEF Detached
<1>7. nextd \in [Slot -> Link] /\ bucketd \in [Bucket -> Link]
  BY <1>3 DEF Table
<1>8. \A x \in Slot : nextd[x] = IF home[x] = b /\ h.next[x] = s THEN h.next[s] ELSE h.next[x]
  BY <1>5
<1>9. \A c \in Bucket : bucketd[c] = IF c = b /\ h.bucket[c] = s THEN h.next[s] ELSE h.bucket[c]
  BY DEF Table
<1> HIDE DEF nextd, bucketd
<1>10. /\ d \in Table /\ d.next = nextd /\ d.bucket = bucketd
       /\ d.free = h.free /\ d.size = h.size
  BY <1>6, <1>7 DEF Table
<1>11. g = [d EXCEPT !.next[s] = d.free, !.free = s, !.size = @ - 1]
  BY DEF Unlinked, Destroyed, Push
<1> HIDE DEF d, g
<1>12. /\ g \in Table
       /\ g.next = [nextd EXCEPT ![s] = h.free]
       /\ g.free = s /\ g.size = h.size - 1 /\ g.bucket = bucketd
  <2>1. h.size - 1 \in 0..N /\ s \in Link /\ h.free \in Link
    BY <1>2, <1>4 DEF Link, Table
  <2>2. [nextd EXCEPT ![s] = h.free] \in [Slot -> Link]
    BY <1>7, <2>1
  <2>3. /\ g.next = [nextd EXCEPT ![s] = h.free]
        /\ g.free = s /\ g.size = h.size - 1 /\ g.bucket = bucketd /\ g.key = d.key
    BY <1>10, <1>11 DEF Table
  <2>4. g = [next |-> g.next, key |-> g.key, bucket |-> g.bucket, free |-> g.free, size |-> g.size]
    BY <1>10, <1>11 DEF Table
  <2>5. d.key \in [Slot -> Key]
    BY <1>10 DEF Table
  <2> QED BY <1>7, <2>1, <2>2, <2>3, <2>4, <2>5 DEF Table
<1>13. /\ g.next[s] = h.free
       /\ \A x \in Slot : x # s => g.next[x] = nextd[x]
  BY <1>7, <1>12
<1> DEFINE home2 == [home EXCEPT ![s] = N]
           pos2 == [x \in Slot |-> IF x = s THEN 1
                                   ELSE IF home[x] = N THEN pos[x] + 1
                                   ELSE IF home[x] = b /\ pos[x] > pos[s] THEN pos[x] - 1 ELSE pos[x]]
<1>14. home2[s] = N /\ pos2[s] = 1
  BY DEF Homes
<1>15. \A x \in Slot : x # s => home2[x] = home[x]
  BY DEF Homes
<1>16. \A x \in Slot : x # s =>
         /\ home[x] = N => pos2[x] = pos[x] + 1
         /\ home[x] # N /\ home[x] # b => pos2[x] = pos[x]
         /\ home[x] = b => pos[x] # pos[s]
         /\ home[x] = b /\ pos[x] > pos[s] => pos2[x] = pos[x] - 1
         /\ home[x] = b /\ pos[x] < pos[s] => pos2[x] = pos[x]
  <2> SUFFICES ASSUME NEW x \in Slot, x # s
               PROVE  /\ home[x] = N => pos2[x] = pos[x] + 1
                      /\ home[x] # N /\ home[x] # b => pos2[x] = pos[x]
                      /\ home[x] = b => pos[x] # pos[s]
                      /\ home[x] = b /\ pos[x] > pos[s] => pos2[x] = pos[x] - 1
                      /\ home[x] = b /\ pos[x] < pos[s] => pos2[x] = pos[x]
    OBVIOUS
  <2>1. home[x] = b => pos[x] # pos[s]
    BY <1>1 DEF PlacesApart
  <2> QED BY <1>2, <1>3, <2>1
<1>17. pos2 \in Positions
  BY <1>3 DEF Positions
<1> HIDE DEF home2, pos2
<1>18. \A x \in Slot : pos2[x] \in Nat \ {0}
  BY <1>17 DEF Positions
<1>19. PlacesApart(home2, pos2)
  <2> SUFFICES ASSUME NEW x \in Slot, NEW y \in Slot, home2[x] = home2[y], pos2[x] = pos2[y]
               PROVE  x = y
    BY DEF PlacesApart
  <2>1. ASSUME NEW z \in Slot, z # s, home2[z] = N PROVE pos2[z] # 1
    BY <1>3, <1>15, <1>16, <2>1
  <2>2. CASE x = s \/ y = s
    BY <1>14, <2>1, <2>2
  <2>3. CASE x # s /\ y # s
    <3>1. home[x] = home[y]
      BY <1>15, <2>3
    <3>2. pos[x] = pos[y]
      <4>0. pos[x] \in Nat /\ pos[y] \in Nat /\ pos[s] \in Nat
        BY <1>3
      <4>1. CASE home[x] = N
        <5>1. pos2[x] = pos[x] + 1 /\ pos2[y] = pos[y] + 1
          BY <1>16, <2>3, <3>1, <4>1
        <5>2. pos[x] + 1 = pos[y] + 1
          BY <5>1
        <5> QED BY <4>0, <5>2
      <4>2. CASE home[x] # N /\ home[x] # b
        BY <1>16, <2>3, <3>1, <4>2
      <4>3. CASE home[x] = b
        <5>1. home[y] = b /\ pos[x] # pos[s] /\ pos[y] # pos[s]
          BY <1>16, <2>3, <3>1, <4>3
        <5>2. pos2[x] = IF pos[x] > pos[s] THEN pos[x] - 1 ELSE pos[x]
          BY <1>16, <2>3, <4>0, <4>3, <5>1
        <5>3. pos2[y] = IF pos[y] > pos[s] THEN pos[y] - 1 ELSE pos[y]
          BY <1>16, <2>3, <4>0, <5>1
        <5>4. (IF pos[x] > pos[s] THEN pos[x] - 1 ELSE pos[x])
                = (IF pos[y] > pos[s] THEN pos[y] - 1 ELSE pos[y])
          BY <5>2, <5>3
        <5> QED BY <4>0, <5>1, <5>4
      <4> QED BY <4>1, <4>2, <4>3
    <3> QED BY <1>1, <3>1, <3>2 DEF PlacesApart
  <2> QED BY <2>2, <2>3
\* The slot before s in the chain is the one that leads to it.
<1>20. ASSUME NEW x \in Slot, home[x] = b
       PROVE  /\ h.next[x] = s <=> pos[s] = pos[x] + 1
              /\ h.next[x] = Null => \A t \in Slot : home[t] = b => pos[t] <= pos[x]
              /\ h.next[x] # Null =>
                   h.next[x] \in Slot /\ home[h.next[x]] = b /\ pos[h.next[x]] = pos[x] + 1
  <2>1. IF h.next[x] = Null THEN \A t \in Slot : home[t] = home[x] => pos[t] <= pos[x]
        ELSE home[h.next[x]] = home[x] /\ pos[h.next[x]] = pos[x] + 1
    BY <1>1, <1>2, <1>20 DEF ChainsLinked
  <2>2. h.next[x] # Null => h.next[x] \in Slot
    BY <1>3 DEF Link
  <2>3. pos[x] \in Nat /\ pos[s] \in Nat
    BY <1>3
  <2>4. ASSUME pos[s] = pos[x] + 1 PROVE h.next[x] = s
    <3>1. h.next[x] # Null
      BY <1>20, <2>1, <2>3, <2>4
    <3> QED BY <1>1, <1>20, <2>1, <2>2, <2>4, <3>1 DEF PlacesApart
  <2>5. s # Null
    BY <1>2
  <2> QED BY <1>20, <2>1, <2>2, <2>4, <2>5
<1>21. HeadsFirst(g, home2, pos2)
  <2> SUFFICES ASSUME NEW c \in Bucket
               PROVE  IF g.bucket[c] = Null THEN \A x \in Slot : home2[x] # c
                      ELSE home2[g.bucket[c]] = c /\ pos2[g.bucket[c]] = 1
    BY DEF HeadsFirst
  <2>1. IF h.bucket[c] = Null THEN \A x \in Slot : home[x] # c
        ELSE h.bucket[c] \in Slot /\ home[h.bucket[c]] = c /\ pos[h.bucket[c]] = 1
    BY <1>1 DEF HeadsFirst, Table, Link
  <2>2. c # N
    BY SlotIs
  <2>3. g.bucket[c] = IF c = b /\ h.bucket[c] = s THEN h.next[s] ELSE h.bucket[c]
    BY <1>9, <1>12
  <2>4. CASE c = b /\ h.bucket[c] = s
    <3>1. pos[s] = 1 /\ g.bucket[c] = h.next[s]
      BY <1>2, <2>1, <2>3, <2>4
    <3>2. CASE h.next[s] = Null
      <4>1. ASSUME NEW x \in Slot, x # s PROVE home[x] # b
        <5> SUFFICES ASSUME home[x] = b PROVE FALSE
          OBVIOUS
        <5>1. pos[x] <= 1
          BY <1>20, <3>1, <3>2
        <5> QED BY <1>3, <1>16, <3>1, <4>1, <5>1
      <4> QED BY <1>14, <1>15, <2>2, <2>4, <3>1, <3>2, <4>1
    <3>3. CASE h.next[s] # Null
      <4>1. h.next[s] \in Slot /\ home[h.next[s]] = b /\ pos[h.next[s]] = 2
        BY <1>20, <3>1, <3>3
      <4>2. h.next[s] # s
        BY <3>1, <4>1
      <4>3. home2[h.next[s]] = b /\ pos2[h.next[s]] = 1
        BY <1>15, <1>16, <3>1, <4>1, <4>2
      <4> QED BY <2>4, <3>1, <3>3, <4>3
    <3> QED BY <3>2, <3>3
  <2>5. CASE ~(c = b /\ h.bucket[c] = s)
    <3>1. g.bucket[c] = h.bucket[c]
      BY <2>3, <2>5
    <3>2. CASE h.bucket[c] = Null
      BY <1>14, <1>15, <2>1, <2>2, <3>1, <3>2
    <3>3. CASE h.bucket[c] # Null
      <4> DEFINE x == h.bucket[c]
      <4>1. x \in Slot /\ home[x] = c /\ pos[x] = 1
        BY <2>1, <3>3
      <4>2. x # s
        BY <2>5, <4>1
      <4> HIDE DEF x
      <4>3. pos2[x] = 1 /\ home2[x] = c
        BY <1>3, <1>15, <1>16, <2>2, <4>1, <4>2
      <4> QED BY <3>1, <3>3, <4>3 DEF x
    <3> QED BY <3>2, <3>3
  <2> QED BY <2>4, <2>5
<1>22. ChainsLinked(g, home2, pos2)
  <2> SUFFICES ASSUME NEW x \in Slot, home2[x] # N
               PROVE  IF g.next[x] = Null
                      THEN \A t \in Slot : home2[t] = home2[x] => pos2[t] <= pos2[x]
                      ELSE home2[g.next[x]] = home2[x] /\ pos2[g.next[x]] = pos2[x] + 1
    BY DEF ChainsLinked
  <2>1. x # s /\ home2[x] = home[x] /\ home[x] # N
    BY <1>14, <1>15
  <2>2. g.next[x] = IF home[x] = b /\ h.next[x] = s THEN h.next[s] ELSE h.next[x]
    BY <1>8, <1>13, <2>1
  <2>3. CASE home[x] # b
    <3>1. IF h.next[x] = Null THEN \A t \in Slot : home[t] = home[x] => pos[t] <= pos[x]
          ELSE h.next[x] \in Slot /\ home[h.next[x]] = home[x] /\ pos[h.next[x]] = pos[x] + 1
      BY <1>1, <1>3, <2>1 DEF ChainsLinked, Link
    <3>2. \A t \in Slot : home[t] = home[x] => t # s /\ pos2[t] = pos[t] /\ home2[t] = home[x]
      BY <1>15, <1>16, <2>1, <2>3
    <3>3. \A t \in Slot : home2[t] = home[x] => home[t] = home[x]
      BY <1>14, <1>15, <2>1
    <3> QED BY <2>1, <2>2, <2>3, <3>1, <3>2, <3>3
  <2>4. CASE home[x] = b
    <3>0. pos[x] \in Nat /\ pos[s] \in Nat /\ pos[x] # pos[s]
      BY <1>3, <1>16, <2>1, <2>4
    <3>1. \A t \in Slot : home2[t] = b <=> t # s /\ home[t] = b
      BY <1>2, <1>14, <1>15
    <3>2. ASSUME NEW t \in Slot, t # s, home[t] = b
          PROVE  /\ pos[t] \in Nat /\ pos[t] # pos[s]
                 /\ pos2[t] = IF pos[t] > pos[s] THEN pos[t] - 1 ELSE pos[t]
      BY <1>3, <1>16, <3>2
    <3>3. CASE h.next[x] = s
      <4>1. pos[s] = pos[x] + 1 /\ g.next[x] = h.next[s] /\ pos2[x] = pos[x]
        BY <1>20, <2>1, <2>2, <2>4, <3>0, <3>2, <3>3
      <4>2. CASE h.next[s] = Null
        <5>1. ASSUME NEW t \in Slot, t # s, home[t] = b PROVE pos2[t] <= pos2[x]
          <6>1. pos[t] <= pos[s]
            BY <1>20, <4>2, <5>1
          <6> QED BY <3>0, <3>2, <4>1, <5>1, <6>1
        <5> QED BY <2>1, <2>4, <3>1, <4>1, <4>2, <5>1
      <4>3. CASE h.next[s] # Null
        <5>1. h.next[s] \in Slot /\ home[h.next[s]] = b /\ pos[h.next[s]] = pos[s] + 1
          BY <1>20, <4>3
        <5>2. h.next[s] # s
          BY <3>0, <5>1
        <5>3. pos2[h.next[s]] = (pos[s] + 1) - 1 /\ home2[h.next[s]] = b
          BY <3>0, <3>1, <3>2, <5>1, <5>2
        <5> QED BY <2>1, <2>4, <3>0, <4>1, <4>3, <5>3
      <4> QED BY <4>2, <4>3
    <3>4. CASE h.next[x] # s
      <4>1. pos[s] # pos[x] + 1 /\ g.next[x] = h.next[x]
        BY <1>20, <2>2, <2>4, <3>4
      <4>2. CASE h.next[x] = Null
        <5>1. pos[s] <= pos[x]
          BY <1>20, <2>4, <4>2
        <5>2. pos2[x] = pos[x] - 1
          BY <2>1, <2>4, <3>0, <3>2, <5>1
        <5>3. ASSUME NEW t \in Slot, t # s, home[t] = b PROVE pos2[t] <= pos2[x]
          <6>1. pos[t] <= pos[x]
            BY <1>20, <2>4, <4>2, <5>3
          <6> QED BY <3>0, <3>2, <5>1, <5>2, <5>3, <6>1
        <5> QED BY <2>1, <2>4, <3>1, <4>1, <4>2, <5>3
      <4>3. CASE h.next[x] # Null
        <5>1. h.next[x] \in Slot /\ home[h.next[x]] = b /\ pos[h.next[x]] = pos[x] + 1
          BY <1>20, <2>4, <4>3
        <5>2. home2[h.next[x]] = b /\ pos2[h.next[x]] = pos2[x] + 1
          BY <2>1, <2>4, <3>0, <3>1, <3>2, <3>4, <4>1, <5>1
        <5> QED BY <2>1, <2>4, <4>1, <4>3, <5>2
      <4> QED BY <4>2, <4>3
    <3> QED BY <3>3, <3>4
  <2> QED BY <2>3, <2>4
<1>23. FreeLinked(g, home2, pos2)
  <2>1. g.free # Null /\ home2[g.free] = N /\ pos2[g.free] = 1
    BY <1>2, <1>12, <1>14
  <2>2. ASSUME NEW x \in Slot, home2[x] = N
        PROVE  /\ pos2[x] <= N - g.size
               /\ pos2[x] < N - g.size =>
                    g.next[x] # Null /\ home2[g.next[x]] = N /\ pos2[g.next[x]] = pos2[x] + 1
    <3>1. N - g.size = N - h.size + 1
      BY <1>2, <1>12
    <3>2. CASE x = s
      <4>1. pos2[x] = 1 /\ g.next[x] = h.free
        BY <1>13, <1>14, <3>2
      <4>2. ASSUME h.size < N PROVE h.free # Null /\ home2[h.free] = N /\ pos2[h.free] = 2
        <5>1. h.free \in Slot /\ home[h.free] = N /\ pos[h.free] = 1
          BY <1>1, <4>2 DEF FreeLinked, Table, Link
        <5>2. h.free # s
          BY <1>2, <5>1
        <5> QED BY <1>2, <1>15, <1>16, <5>1, <5>2
      <4> QED BY <1>2, <3>1, <4>1, <4>2
    <3>3. CASE x # s
      <4>1. home[x] = N /\ pos2[x] = pos[x] + 1 /\ pos[x] \in Nat
        BY <1>3, <1>15, <1>16, <2>2, <3>3
      <4>2. /\ pos[x] <= N - h.size
            /\ pos[x] < N - h.size =>
                 h.next[x] # Null /\ home[h.next[x]] = N /\ pos[h.next[x]] = pos[x] + 1
        BY <1>1, <4>1 DEF FreeLinked
      <4>3. g.next[x] = h.next[x]
        BY <1>2, <1>8, <1>13, <3>3, <4>1
      <4>4. ASSUME pos[x] < N - h.size
            PROVE  h.next[x] # Null /\ home2[h.next[x]] = N /\ pos2[h.next[x]] = pos[x] + 2
        <5>1. h.next[x] \in Slot /\ home[h.next[x]] = N /\ pos[h.next[x]] = pos[x] + 1
          BY <1>3, <4>2, <4>4 DEF Link
        <5>2. h.next[x] # s
          BY <1>2, <5>1
        <5>3. pos2[h.next[x]] = (pos[x] + 1) + 1
          BY <1>16, <5>1, <5>2
        <5> QED BY <1>2, <1>15, <4>1, <5>1, <5>2, <5>3
      <4> QED BY <1>2, <3>1, <4>1, <4>2, <4>3, <4>4
    <3> QED BY <3>2, <3>3
  <2> QED BY <2>1, <2>2 DEF FreeLinked
<1>24. Placed(g, home2, pos2)
  BY <1>19, <1>21, <1>22, <1>23 DEF Placed
<1> QED BY <1>12, <1>17, <1>24 DEF g, home2

\* erase of an element removes it and no other, and keeps the others in their slots.
LEMMA UnlinkedSound ==
  ASSUME NEW h, Sound(h), NEW k \in Key, Lookup(h, k) # Null
  PROVE  LET s == Lookup(h, k)
             g == Unlinked(h, s, Hash[k]) IN
         /\ Sound(g) /\ h \in Table
         /\ s \in Live(h) /\ h.key[s] = k
         /\ Live(g) = Live(h) \ {s}
         /\ g.key = h.key
         /\ \A x \in Live(h) : x \in Slot /\ (h.key[x] = k => x = s)
<1> DEFINE s == Lookup(h, k)
           g == Unlinked(h, s, Hash[k])
<1>1. h \in Table
  BY DEF Sound
<1>2. PICK home \in Homes, pos \in Positions : Placed(h, home, pos) /\ Keyed(h, home)
  BY DEF Sound
<1>3. s \in Slot /\ home[s] = Hash[k] /\ h.key[s] = k
  BY <1>1, <1>2, LookupIs
<1>4. Hash[k] \in Bucket /\ Hash[k] # N
  BY SlotIs
<1> HIDE DEF s
<1> DEFINE home2 == [home EXCEPT ![s] = N]
<1>5. g \in Table /\ \E pos2 \in Positions : Placed(g, home2, pos2)
  BY <1>1, <1>2, <1>3, <1>4, UnlinkedPlaced
<1>6. g.key = h.key
  BY <1>1 DEF Unlinked, Destroyed, Push, Detached, Table
<1>7. home2 \in Homes /\ home2[s] = N /\ \A x \in Slot : x # s => home2[x] = home[x]
  BY <1>3, SlotIs DEF Homes
<1> HIDE DEF home2, g
<1>8. Keyed(g, home2)
  BY <1>2, <1>6, <1>7 DEF Keyed
<1>9. Sound(g)
  BY <1>5, <1>7, <1>8 DEF Sound
<1>10. Live(h) = {x \in Slot : home[x] # N}
  BY <1>1, <1>2, LiveIs
<1>11. Live(g) = {x \in Slot : home2[x] # N}
  BY <1>5, <1>7, LiveIs
<1>12. Live(g) = Live(h) \ {s} /\ s \in Live(h)
  BY <1>3, <1>4, <1>7, <1>10, <1>11
<1>13. \A x \in Live(h) : x \in Slot /\ (h.key[x] = k => x = s)
  BY <1>2, <1>3, <1>4, <1>10 DEF Keyed
<1> QED BY <1>1, <1>3, <1>6, <1>9, <1>12, <1>13 DEF g, s

\* Elements inserted one by one.
LEMMA FilledSound ==
  ASSUME NEW h, Sound(h), NEW ks \in Seq(Key)
  PROVE  Sound(Filled(h, ks)[Len(ks)])
<1> DEFINE T == {x \in Table : Sound(x)}
           n == Len(ks)
           step == [i \in 1..n |-> [x \in T |-> InsertInto(x, ks[i])]]
           D(f) == [i \in 0..n |-> IF i = 0 THEN h ELSE InsertInto(f[i - 1], ks[i])]
<1>1. n \in Nat /\ \A i \in 1..n : ks[i] \in Key
  OBVIOUS
<1>2. \A x \in T, k \in Key : InsertInto(x, k) \in T
  <2>1. \A x : Sound(x) => x \in Table
    BY DEF Sound
  <2> QED BY <2>1, InsertedSound DEF InsertInto
<1>3. h \in T
  BY DEF Sound
<1>4. \A i \in 1..n : \A x \in T : step[i][x] = InsertInto(x, ks[i])
  OBVIOUS
<1>5. step \in Steps(n, T)
  BY <1>1, <1>2 DEF Steps
<1> HIDE DEF T, n, step, D
<1>6. PICK f : Follows(f, n, T, h, step)
  BY <1>1, <1>3, <1>5, RecursionExists
<1>7. f \in [0..n -> T] /\ f[0] = h /\ \A i \in 1..n : f[i] = InsertInto(f[i - 1], ks[i])
  <2>1. f \in [0..n -> T] /\ f[0] = h /\ \A i \in 1..n : f[i] = step[i][f[i - 1]]
    BY <1>6 DEF Follows
  <2>2. ASSUME NEW i \in 1..n PROVE f[i] = InsertInto(f[i - 1], ks[i])
    <3>1. i - 1 \in 0..n
      BY <1>1
    <3>2. f[i - 1] \in T
      BY <2>1, <3>1
    <3> QED BY <1>4, <2>1, <3>2
  <2> QED BY <2>1, <2>2
<1>8. f = D(f)
  <2>1. \A i \in 0..n : f[i] = IF i = 0 THEN h ELSE InsertInto(f[i - 1], ks[i])
    BY <1>1, <1>7
  <2> QED BY <1>7, <2>1 DEF D
<1>9. Filled(h, ks) = CHOOSE g : g = D(g)
  BY DEF Filled, D, n
<1>10. Filled(h, ks) = D(Filled(h, ks))
  BY <1>8, <1>9
<1> DEFINE r == Filled(h, ks)
<1>11. r[0] = h /\ \A i \in 1..n : r[i] = InsertInto(r[i - 1], ks[i])
  BY <1>1, <1>10 DEF D
<1> HIDE DEF r
<1> DEFINE S == {i \in Nat : i <= n => r[i] \in T}
<1>12. 0 \in S
  BY <1>3, <1>11
<1>13. ASSUME NEW i \in Nat, i \in S PROVE i + 1 \in S
  <2> SUFFICES ASSUME i + 1 <= n PROVE r[i + 1] \in T
    OBVIOUS
  <2>1. r[i] \in T /\ i + 1 \in 1..n /\ (i + 1) - 1 = i
    BY <1>1, <1>13
  <2>2. r[i + 1] = InsertInto(r[i], ks[i + 1])
    BY <1>11, <2>1
  <2> QED BY <1>1, <1>2, <2>1, <2>2
<1> HIDE DEF S
<1>14. \A i \in Nat : i \in S
  BY <1>12, <1>13, SetInduction
<1>15. r[n] \in T
  BY <1>1, <1>14 DEF S
<1> QED BY <1>15 DEF T, r, n

-----------------------------------------------------------------------------
(* Every state *)

\* The initial table, and every step, are sound.
LEMMA InitSound == ASSUME Init PROVE Sound(tbl)
<1>1. Unset \in Table
  BY SlotIs, KeyAssumption DEF Unset, Table, Link
<1> QED BY <1>1, EmptiedSound DEF Init

LEMMA AssignSound ==
  ASSUME NEW h, Sound(h), NEW ks \in Iterations
  PROVE  Sound(Filled(Emptied(h), ks)[Len(ks)])
<1>1. ks \in Seq(Key)
  BY DEF Iterations, SeqOf
<1>2. Sound(Emptied(h))
  BY EmptiedSound DEF Sound
<1> QED BY <1>1, <1>2, FilledSound

LEMMA NextSound == ASSUME Sound(tbl), [Next]_tbl PROVE Sound(tbl')
<1>1. CASE \E k \in Key : Insert(k)
  <2>1. PICK k \in Key : Insertable(tbl, k) /\ tbl' = Inserted(tbl, k)
    BY <1>1 DEF Insert
  <2>2. Sound(Inserted(tbl, k))
    BY <2>1, InsertedSound
  <2> QED BY <2>1, <2>2
<1>2. CASE \E k \in Key : Erase(k)
  BY <1>2, UnlinkedSound DEF Erase
<1>3. CASE Clear
  BY <1>3, EmptiedSound DEF Clear, Sound
<1>4. CASE \E ks \in Iterations : Assign(ks)
  BY <1>4, AssignSound DEF Assign
<1>5. CASE UNCHANGED tbl
  BY <1>5
<1> QED BY <1>1, <1>2, <1>3, <1>4, <1>5 DEF Next

\* What a sound table is to those who read it.
LEMMA SoundIs ==
  ASSUME Sound(tbl)
  PROVE  ChainsSound /\ FreeSlotsReady
<1>1. tbl \in Table
  BY DEF Sound
<1>2. PICK home \in Homes, pos \in Positions : Placed(tbl, home, pos) /\ Keyed(tbl, home)
  BY DEF Sound
<1>3. TypeOK
  BY <1>1 DEF TypeOK, Table, Link
<1>4. \A b \in Bucket : Chain(tbl, b) = {s \in Slot : home[s] = b} /\ Reached(tbl, tbl.bucket[b])[N] = Null
  BY <1>1, <1>2, ChainIs
<1>5. Live(tbl) = {s \in Slot : home[s] # N}
  BY <1>1, <1>2, LiveIs
<1>6. \A b \in Bucket : \A s \in Chain(tbl, b) : Hash[tbl.key[s]] = b
  <2> SUFFICES ASSUME NEW b \in Bucket, NEW s \in Chain(tbl, b) PROVE Hash[tbl.key[s]] = b
    OBVIOUS
  <2>1. s \in Slot /\ home[s] = b /\ b # N
    BY <1>4, SlotIs
  <2> QED BY <1>2, <2>1 DEF Keyed
<1>7. \A s, t \in Live(tbl) : tbl.key[s] = tbl.key[t] => s = t
  BY <1>2, <1>5 DEF Keyed
<1>8. Cardinality(Live(tbl)) = tbl.size
  BY <1>1, <1>2, CountIs
<1>9. {Reached(tbl, tbl.free)[i] : i \in 0..(N - tbl.size - 1)} = Slot \ Live(tbl)
  <2>1. {Reached(tbl, tbl.free)[i] : i \in 0..(N - tbl.size - 1)} = {s \in Slot : home[s] = N}
    BY <1>1, <1>2, FreeIs
  <2> QED BY <1>5, <2>1
<1>10. ChainsSound
  BY <1>3, <1>4, <1>6, <1>7, <1>8 DEF ChainsSound
<1> QED BY <1>9, <1>10 DEF FreeSlotsReady

LEMMA AlwaysSound == Spec => []Sound(tbl)
<1>1. Init => Sound(tbl)
  BY InitSound
<1>2. Sound(tbl) /\ [Next]_tbl => Sound(tbl)'
  BY NextSound
<1> QED BY <1>1, <1>2, PTL DEF Spec

\* After any sequence of calls, assignments included, the chains of packed_hashtbl end,
\* share no slot with each other or with the free list, hold as many elements as size()
\* says, and hold each key once, in the bucket it hashes to.
THEOREM ChainsAreSound == Spec => []ChainsSound
<1>1. Sound(tbl) => ChainsSound
  BY SoundIs
<1> QED BY <1>1, AlwaysSound, PTL

\* The first N - size entries of the free list are always the slots without an element, so
\* that no insert is given a null pointer or an occupied slot, although clear leaves the
\* list cyclic.
THEOREM FreeSlotsAreReady == Spec => []FreeSlotsReady
<1>1. Sound(tbl) => FreeSlotsReady
  BY SoundIs
<1> QED BY <1>1, AlwaysSound, PTL

\* insert and erase move no other element to another slot.
THEOREM SlotsAreStable == Spec => SlotsStable
<1>1. Sound(tbl) => [\A k \in Key : Insert(k) \/ Erase(k) =>
                       \A s \in Live(tbl) : tbl.key[s] # k =>
                         s \in Live(tbl') /\ tbl'.key[s] = tbl.key[s]]_tbl
  <2> SUFFICES ASSUME Sound(tbl), NEW k \in Key, Insert(k) \/ Erase(k),
                      NEW s \in Live(tbl), tbl.key[s] # k
               PROVE  s \in Live(tbl') /\ tbl'.key[s] = tbl.key[s]
    OBVIOUS
  <2>1. CASE Insert(k)
    <3>1. Insertable(tbl, k) /\ tbl' = Inserted(tbl, k)
      BY <2>1 DEF Insert
    <3>2. /\ Live(tbl') = Live(tbl) \cup {tbl.free} /\ tbl.free \notin Live(tbl)
          /\ tbl'.key = [tbl.key EXCEPT ![tbl.free] = k]
          /\ s \in Slot /\ tbl \in Table
      BY <3>1, InsertedSound
    <3> QED BY <3>2 DEF Table
  <2>2. CASE Erase(k)
    <3>1. Lookup(tbl, k) # Null /\ tbl' = Unlinked(tbl, Lookup(tbl, k), Hash[k])
      BY <2>2 DEF Erase
    <3>2. /\ Live(tbl') = Live(tbl) \ {Lookup(tbl, k)} /\ tbl.key[Lookup(tbl, k)] = k
          /\ tbl'.key = tbl.key
      BY <3>1, UnlinkedSound
    <3> QED BY <3>2
  <2> QED BY <2>1, <2>2
<1> QED BY <1>1, AlwaysSound, PTL DEF Spec, SlotsStable

-----------------------------------------------------------------------------
(* Iteration *)

\* ++ of an iterator.
After(h, it) ==
  IF it[1] = Null THEN it
  ELSE IF h.next[it[1]] # Null THEN <<h.next[it[1]], it[2]>>
  ELSE FirstFrom(h, it[2] + 1)

\* it is the iterator to the first slot of the first chain from bucket b on, or the end.
FirstPlace(home, pos, b, it) ==
  \/ it = <<Null, N>> /\ \A s \in Slot : home[s] # N => home[s] < b
  \/ \E s \in Slot : /\ it = <<s, home[s]>> /\ home[s] # N /\ home[s] >= b /\ pos[s] = 1
                     /\ \A t \in Slot : home[t] # N => home[t] < b \/ home[t] >= home[s]

\* The order of iteration: by bucket, and by position in its chain.
Ahead(home, pos, t, s) == home[t] < home[s] \/ (home[t] = home[s] /\ pos[t] < pos[s])

\* The iterator it has the slots of S behind it.
Passed(home, pos, S, it) ==
  \/ it = <<Null, N>> /\ S = {s \in Slot : home[s] # N}
  \/ \E s \in Slot : /\ it = <<s, home[s]>> /\ home[s] # N
                     /\ S = {t \in Slot : home[t] # N /\ Ahead(home, pos, t, s)}

\* The places as numbers.
LEMMA PlaceIs ==
  ASSUME NEW home \in Homes, NEW pos \in Positions, NEW s \in Slot
  PROVE  /\ home[s] \in 0..N /\ home[s] \in Nat /\ pos[s] \in Nat \ {0}
         /\ home[s] # N => home[s] \in Bucket /\ home[s] < N
BY SlotIs DEF Homes, Positions, Bucket

\* What FirstFrom finds: chains are empty exactly where buckets are.
LEMMA FirstFromIs ==
  ASSUME NEW h \in Table, NEW home \in Homes, NEW pos \in Positions,
         Placed(h, home, pos), NEW b \in Nat
  PROVE  FirstPlace(home, pos, b, FirstFrom(h, b))
<1> DEFINE filled == {c \in b..(N - 1) : h.bucket[c] # Null}
           first == CHOOSE x \in filled : \A y \in filled : x <= y
<1>1. N \in Nat /\ \A c : c \in b..(N - 1) <=> c \in Bucket /\ c >= b
  BY SlotIs DEF Bucket
<1>2. /\ \A c \in Bucket : h.bucket[c] \in Link
      /\ \A c \in Bucket : h.bucket[c] = Null => \A s \in Slot : home[s] # c
      /\ \A c \in Bucket : h.bucket[c] # Null => home[h.bucket[c]] = c /\ pos[h.bucket[c]] = 1
  BY DEF Placed, HeadsFirst, Table
<1>3. \A c : c \in filled <=> c \in Bucket /\ c >= b /\ h.bucket[c] # Null
  BY <1>1
<1>4. FirstFrom(h, b) = IF filled = {} THEN <<Null, N>> ELSE <<h.bucket[first], first>>
  BY DEF FirstFrom
<1>5. ASSUME NEW s \in Slot, home[s] # N, ~(home[s] < b) PROVE home[s] \in filled
  <2>1. home[s] \in Bucket /\ home[s] \in Nat
    BY <1>5, PlaceIs
  <2>2. home[s] >= b
    BY <1>5, <2>1
  <2> QED BY <1>2, <1>3, <2>1, <2>2
<1> HIDE DEF filled
<1>6. CASE filled = {}
  BY <1>4, <1>5, <1>6 DEF FirstPlace
<1>7. CASE filled # {}
  <2>1. filled \in SUBSET Nat
    BY <1>3, SlotIs
  <2>2. PICK x \in filled : \A y \in filled : x <= y
    BY <1>7, <2>1, LeastElement
  <2>3. first \in filled /\ \A y \in filled : first <= y
    BY <2>2
  <2> HIDE DEF first
  <2> DEFINE s == h.bucket[first]
  <2>4. s \in Slot /\ home[s] = first /\ pos[s] = 1 /\ first \in Bucket /\ first >= b
    BY <1>2, <1>3, <2>3 DEF Link
  <2>5. FirstFrom(h, b) = <<s, home[s]>>
    BY <1>4, <1>7, <2>4
  <2>6. home[s] # N
    BY <2>4, SlotIs
  <2>7. ASSUME NEW t \in Slot, home[t] # N PROVE home[t] < b \/ home[t] >= home[s]
    <3>1. home[t] \in Nat /\ first \in Nat
      BY <2>4, PlaceIs, SlotIs
    <3>2. ~(home[t] < b) => first <= home[t]
      BY <1>5, <2>3, <2>7
    <3> QED BY <2>4, <3>1, <3>2
  <2> HIDE DEF s
  <2> QED BY <2>4, <2>5, <2>6, <2>7 DEF FirstPlace
<1> QED BY <1>6, <1>7

\* The slots behind an iterator after ++ are those before it and the one it left.
LEMMA AfterIs ==
  ASSUME NEW h \in Table, NEW home \in Homes, NEW pos \in Positions,
         Placed(h, home, pos), NEW S, NEW it, Passed(home, pos, S, it), it[1] # Null
  PROVE  /\ it[1] \in {s \in Slot : home[s] # N} \ S
         /\ Passed(home, pos, S \cup {it[1]}, After(h, it))
<1>1. PICK s \in Slot : /\ it = <<s, home[s]>> /\ home[s] # N
                        /\ S = {t \in Slot : home[t] # N /\ Ahead(home, pos, t, s)}
  <2>1. <<Null, N>>[1] = Null
    OBVIOUS
  <2> QED BY <2>1 DEF Passed
<1>2. it[1] = s /\ it[2] = home[s]
  BY <1>1
<1>3. \A t \in Slot : home[t] \in Nat /\ pos[t] \in Nat \ {0}
  BY PlaceIs
<1>4. \A t \in Slot : home[t] = home[s] /\ pos[t] = pos[s] => t = s
  BY DEF Placed, PlacesApart
<1>5. ~Ahead(home, pos, s, s)
  BY <1>3 DEF Ahead
<1>6. \A t : t \in S \cup {s} <=> t \in Slot /\ home[t] # N
                                  /\ (home[t] < home[s] \/ (home[t] = home[s] /\ pos[t] <= pos[s]))
  <2> SUFFICES ASSUME NEW t \in Slot, home[t] # N
               PROVE  t \in S \cup {s} <=> home[t] < home[s] \/ (home[t] = home[s] /\ pos[t] <= pos[s])
    BY <1>1
  <2>1. t \in S <=> home[t] < home[s] \/ (home[t] = home[s] /\ pos[t] < pos[s])
    BY <1>1 DEF Ahead
  <2>2. pos[t] <= pos[s] <=> pos[t] < pos[s] \/ pos[t] = pos[s]
    BY <1>3
  <2>3. t = s <=> home[t] = home[s] /\ pos[t] = pos[s]
    BY <1>4
  <2> QED BY <2>1, <2>2, <2>3
<1>7. CASE h.next[s] # Null
  <2> DEFINE n == h.next[s]
  <2>1. n \in Slot /\ home[n] = home[s] /\ pos[n] = pos[s] + 1
    BY <1>1, <1>7 DEF Placed, ChainsLinked, Table, Link
  <2>2. After(h, it) = <<n, home[n]>>
    BY <1>2, <1>7, <2>1, SlotIs DEF After
  <2> HIDE DEF n
  <2>3. S \cup {s} = {t \in Slot : home[t] # N /\ Ahead(home, pos, t, n)}
    <3>1. \A t \in Slot : pos[t] <= pos[s] <=> pos[t] < pos[n]
      BY <1>3, <2>1
    <3> QED BY <1>6, <2>1, <3>1 DEF Ahead
  <2> QED BY <1>1, <1>2, <1>5, <2>1, <2>2, <2>3 DEF Passed
<1>8. CASE h.next[s] = Null
  <2> DEFINE b == home[s] + 1
             to == FirstFrom(h, b)
  <2>1. After(h, it) = to
    BY <1>2, <1>8, SlotIs DEF After
  <2>2. b \in Nat /\ \A t \in Slot : home[t] < b <=> home[t] < home[s] \/ home[t] = home[s]
    BY <1>3
  <2>3. FirstPlace(home, pos, b, to)
    BY <2>2, FirstFromIs
  <2>4. \A t \in Slot : home[t] = home[s] => pos[t] <= pos[s]
    BY <1>1, <1>8 DEF Placed, ChainsLinked
  <2>5. \A t : t \in S \cup {s} <=> t \in Slot /\ home[t] # N /\ home[t] < b
    BY <1>6, <2>2, <2>4
  <2> HIDE DEF b, to
  <2>6. CASE to = <<Null, N>> /\ \A t \in Slot : home[t] # N => home[t] < b
    <3>1. S \cup {s} = {t \in Slot : home[t] # N}
      BY <2>5, <2>6
    <3> QED BY <1>1, <1>2, <1>5, <2>1, <2>6, <3>1 DEF Passed
  <2>7. CASE \E x \in Slot : /\ to = <<x, home[x]>> /\ home[x] # N /\ home[x] >= b /\ pos[x] = 1
                             /\ \A t \in Slot : home[t] # N => home[t] < b \/ home[t] >= home[x]
    <3>1. PICK x \in Slot : /\ to = <<x, home[x]>> /\ home[x] # N /\ home[x] >= b /\ pos[x] = 1
                            /\ \A t \in Slot : home[t] # N => home[t] < b \/ home[t] >= home[x]
      BY <2>7
    <3>2. ASSUME NEW t \in Slot, home[t] # N PROVE home[t] < b <=> Ahead(home, pos, t, x)
      <4>1. home[t] < b \/ home[t] >= home[x]
        BY <3>1, <3>2
      <4>2. ~(pos[t] < pos[x])
        BY <1>3, <3>1
      <4>3. home[t] < b <=> home[t] < home[x]
        BY <1>3, <2>2, <3>1, <4>1
      <4> QED BY <4>2, <4>3 DEF Ahead
    <3>3. S \cup {s} = {t \in Slot : home[t] # N /\ Ahead(home, pos, t, x)}
      BY <2>5, <3>2
    <3> QED BY <1>1, <1>2, <1>5, <2>1, <3>1, <3>3 DEF Passed
  <2> QED BY <2>3, <2>6, <2>7 DEF FirstPlace
<1> QED BY <1>7, <1>8

\* Visited satisfies its recursive definition.
LEMMA VisitedIs ==
  ASSUME NEW h \in Table, NEW home \in Homes, NEW pos \in Positions, Placed(h, home, pos)
  PROVE  /\ Visited(h)[0] = FirstFrom(h, 0)
         /\ \A i \in 1..N : Visited(h)[i] = After(h, Visited(h)[i - 1])
<1> DEFINE T == Link \X (Bucket \cup {N})
           go == [x \in T |-> After(h, x)]
           step == [i \in 1..N |-> go]
           D(f) == [i \in 0..N |->
                     IF i = 0 THEN FirstFrom(h, 0)
                     ELSE LET it == f[i - 1]
                          IN  IF it[1] = Null THEN it
                              ELSE IF h.next[it[1]] # Null THEN <<h.next[it[1]], it[2]>>
                              ELSE FirstFrom(h, it[2] + 1)]
<1>0. N \in Nat
  BY SlotIs
<1>1. \A b \in Nat : FirstFrom(h, b) \in T
  <2> SUFFICES ASSUME NEW b \in Nat PROVE FirstFrom(h, b) \in T
    OBVIOUS
  <2>1. FirstPlace(home, pos, b, FirstFrom(h, b))
    BY FirstFromIs
  <2>2. \A s \in Slot : s \in Link /\ home[s] \in Bucket \cup {N}
    BY DEF Link, Homes
  <2>3. Null \in Link
    BY DEF Link
  <2> QED BY <2>1, <2>2, <2>3 DEF FirstPlace
<1>2. go \in [T -> T]
  <2> SUFFICES ASSUME NEW x \in T PROVE After(h, x) \in T
    OBVIOUS
  <2>1. x[1] \in Link /\ x[2] \in Bucket \cup {N} /\ x[2] \in Nat
    BY SlotIs
  <2>2. x[1] # Null => h.next[x[1]] \in Link
    BY <2>1 DEF Table, Link
  <2> HIDE DEF go
  <2> QED BY <1>1, <2>1, <2>2 DEF After
<1>3. step \in Steps(N, T)
  BY <1>2 DEF Steps
<1>4. FirstFrom(h, 0) \in T
  BY <1>1
<1>5. (\A i \in 1..N : step[i] = go) /\ (\A x \in T : go[x] = After(h, x))
  OBVIOUS
<1> HIDE DEF step, go, T
<1>6. PICK f \in [0..N -> T] : f[0] = FirstFrom(h, 0) /\ \A i \in 1..N : f[i] = step[i][f[i - 1]]
  <2>1. PICK f : Follows(f, N, T, FirstFrom(h, 0), step)
    BY <1>0, <1>3, <1>4, RecursionExists
  <2> QED BY <2>1 DEF Follows
<1>7. \A i \in 1..N : f[i] = After(h, f[i - 1])
  <2> SUFFICES ASSUME NEW i \in 1..N PROVE f[i] = After(h, f[i - 1])
    OBVIOUS
  <2>1. f[i - 1] \in T
    <3>1. i - 1 \in 0..N
      BY <1>0
    <3> QED BY <1>6, <3>1
  <2> QED BY <1>5, <1>6, <2>1
<1>8. f = D(f)
  <2>1. \A i \in 0..N : f[i] = IF i = 0 THEN FirstFrom(h, 0) ELSE After(h, f[i - 1])
    BY <1>0, <1>6, <1>7
  <2> QED BY <1>6, <2>1 DEF After
<1>9. Visited(h) = CHOOSE g : g = D(g)
  BY DEF Visited
<1>10. Visited(h) = D(Visited(h))
  <2> HIDE DEF D
  <2> QED BY <1>8, <1>9
<1> DEFINE v == Visited(h)
<1> HIDE DEF v
<1>11. v = D(v)
  BY <1>10 DEF v
<1>12. v[0] = FirstFrom(h, 0)
  BY <1>0, <1>11
<1>13. ASSUME NEW i \in 1..N PROVE v[i] = After(h, v[i - 1])
  <2>1. i \in 0..N /\ i # 0
    BY <1>0
  <2>2. D(v)[i] = After(h, v[i - 1])
    BY <2>1 DEF After
  <2> HIDE DEF D
  <2> QED BY <1>11, <2>2
<1> QED BY <1>12, <1>13 DEF v

\* The iterator after i steps, with the i slots it has passed.
LEMMA IterationIs ==
  ASSUME NEW h \in Table, NEW home \in Homes, NEW pos \in Positions, Placed(h, home, pos)
  PROVE  /\ {Visited(h)[i][1] : i \in 0..(h.size - 1)} = Live(h)
         /\ Visited(h)[h.size] = <<Null, N>>
<1> DEFINE v == Visited(h)
           seen(i) == {v[j][1] : j \in 0..(i - 1)}
           L == {s \in Slot : home[s] # N}
           P(i) == /\ Passed(home, pos, seen(i), v[i]) /\ seen(i) \in SUBSET L
                   /\ IsFiniteSet(seen(i)) /\ Cardinality(seen(i)) = i
           S == {i \in Nat : i <= h.size => P(i)}
<1>1. IsFiniteSet(L) /\ Cardinality(L) = h.size /\ L = Live(h)
  BY CountIs, LiveIs
<1>2. N \in Nat /\ h.size \in Nat /\ h.size <= N
  BY SlotIs DEF Table
<1>3. v[0] = FirstFrom(h, 0) /\ \A i \in 1..N : v[i] = After(h, v[i - 1])
  BY VisitedIs
<1> HIDE DEF v, L
<1>4. 0 \in S
  <2>1. seen(0) = {}
    OBVIOUS
  <2>2. FirstPlace(home, pos, 0, v[0])
    BY <1>3, FirstFromIs
  <2>3. \A s \in Slot : home[s] \in Nat /\ pos[s] \in Nat \ {0}
    BY PlaceIs
  <2>4. Passed(home, pos, {}, v[0])
    <3>1. CASE v[0] = <<Null, N>> /\ \A s \in Slot : home[s] # N => home[s] < 0
      <4>1. {} = {s \in Slot : home[s] # N}
        BY <2>3, <3>1
      <4> QED BY <3>1, <4>1 DEF Passed
    <3>2. CASE \E s \in Slot : /\ v[0] = <<s, home[s]>> /\ home[s] # N /\ home[s] >= 0 /\ pos[s] = 1
                               /\ \A t \in Slot : home[t] # N => home[t] < 0 \/ home[t] >= home[s]
      <4>1. PICK s \in Slot : /\ v[0] = <<s, home[s]>> /\ home[s] # N /\ pos[s] = 1
                              /\ \A t \in Slot : home[t] # N => home[t] < 0 \/ home[t] >= home[s]
        BY <3>2
      <4>2. ASSUME NEW t \in Slot, home[t] # N PROVE ~Ahead(home, pos, t, s)
        BY <2>3, <4>1, <4>2 DEF Ahead
      <4>3. {} = {t \in Slot : home[t] # N /\ Ahead(home, pos, t, s)}
        BY <4>2
      <4> QED BY <4>1, <4>3 DEF Passed
    <3> QED BY <2>2, <3>1, <3>2 DEF FirstPlace
  <2> HIDE DEF seen
  <2>5. IsFiniteSet({}) /\ Cardinality({}) = 0
    BY FS_EmptySet
  <2> QED BY <2>1, <2>4, <2>5
<1>5. ASSUME NEW i \in Nat, i \in S PROVE i + 1 \in S
  <2> SUFFICES ASSUME i + 1 <= h.size PROVE P(i + 1)
    OBVIOUS
  <2>1. P(i) /\ i < h.size
    BY <1>2, <1>5
  <2>2. seen(i + 1) = seen(i) \cup {v[i][1]}
    <3>1. \A j : j \in 0..((i + 1) - 1) <=> j \in 0..(i - 1) \/ j = i
      OBVIOUS
    <3> QED BY <3>1
  <2> HIDE DEF seen
  <2>3. seen(i) # L
    BY <1>1, <2>1
  <2>4. v[i][1] # Null
    <3>1. PICK s \in Slot : v[i] = <<s, home[s]>>
      BY <2>1, <2>3 DEF Passed, L
    <3>2. v[i][1] = s
      BY <3>1
    <3>3. s # Null
      BY SlotIs
    <3> QED BY <3>2, <3>3
  <2>5. v[i][1] \in L \ seen(i) /\ Passed(home, pos, seen(i) \cup {v[i][1]}, After(h, v[i]))
    BY <2>1, <2>4, AfterIs DEF L
  <2>6. v[i + 1] = After(h, v[i])
    <3>1. i + 1 \in 1..N /\ (i + 1) - 1 = i
      BY <1>2
    <3> QED BY <1>3, <3>1
  <2>7. IsFiniteSet(seen(i + 1)) /\ Cardinality(seen(i + 1)) = i + 1
    <3> DEFINE A == seen(i)
               x == v[i][1]
    <3>1. IsFiniteSet(A) /\ Cardinality(A) = i /\ x \notin A
      BY <2>1, <2>5
    <3> HIDE DEF A, x
    <3>2. IsFiniteSet(A \cup {x}) /\ Cardinality(A \cup {x}) = i + 1
      BY <3>1, FS_AddElement
    <3> QED BY <2>2, <3>2 DEF A, x
  <2> QED BY <2>1, <2>2, <2>5, <2>6, <2>7
<1> HIDE DEF S
<1>6. \A i \in Nat : i \in S
  BY <1>4, <1>5, SetInduction
<1> HIDE DEF seen
<1>7. P(h.size)
  <2>1. h.size \in S /\ h.size <= h.size
    BY <1>2, <1>6
  <2> QED BY <2>1 DEF S
<1>8. seen(h.size) = L
  BY <1>1, <1>7, FS_Subset
<1>9. v[h.size] = <<Null, N>>
  <2> SUFFICES ASSUME v[h.size] # <<Null, N>> PROVE FALSE
    OBVIOUS
  <2>1. PICK s \in Slot : v[h.size] = <<s, home[s]>>
    BY <1>7 DEF Passed
  <2>2. v[h.size][1] # Null
    BY <2>1, SlotIs
  <2>3. v[h.size][1] \in L \ seen(h.size)
    BY <1>7, <2>2, AfterIs DEF L
  <2> QED BY <1>8, <2>3
<1> QED BY <1>1, <1>8, <1>9 DEF v, seen

\* Iteration over a packed_hashtbl reaches every element once and then the end, whatever
\* calls were made before: begin() and ++ skip empty buckets, and none that is filled.
THEOREM IterationIsExact == Spec => []IterationExact
<1>1. Sound(tbl) => IterationExact
  BY IterationIs DEF Sound, IterationExact
<1> QED BY <1>1, AlwaysSound, PTL

-----------------------------------------------------------------------------
(* The bounded set *)

KeysOf(h) == {h.key[s] : s \in Live(h)}

\* A table has as many keys as size() says.
LEMMA KeysCounted ==
  ASSUME NEW h, Sound(h)
  PROVE  KeysOf(h) \in SUBSET Key /\ Cardinality(KeysOf(h)) = h.size /\ h.size \in 0..N
<1>1. h \in Table
  BY DEF Sound
<1>2. PICK home \in Homes, pos \in Positions : Placed(h, home, pos) /\ Keyed(h, home)
  BY DEF Sound
<1>3. Live(h) = {s \in Slot : home[s] # N}
  BY <1>1, <1>2, LiveIs
<1>4. IsFiniteSet(Live(h)) /\ Cardinality(Live(h)) = h.size
  BY <1>1, <1>2, CountIs
<1> DEFINE f == [s \in Live(h) |-> h.key[s]]
           K == KeysOf(h)
<1>5. f \in [Live(h) -> K] /\ \A t \in K : \E s \in Live(h) : f[s] = t
  BY DEF KeysOf
<1>6. \A s, t \in Live(h) : f[s] = f[t] => s = t
  BY <1>2, <1>3 DEF Keyed
<1>7. K \in SUBSET Key /\ h.size \in 0..N
  BY <1>1, <1>3 DEF Table, KeysOf
<1> HIDE DEF f, K
<1>8. Cardinality(K) = Cardinality(Live(h))
  BY <1>4, <1>5, <1>6, SameSize
<1> QED BY <1>4, <1>7, <1>8 DEF K

\* insert and erase do to the set of keys what they are for.
LEMMA InsertedKeys ==
  ASSUME NEW h, Sound(h), NEW k \in Key, Insertable(h, k)
  PROVE  KeysOf(Inserted(h, k)) = KeysOf(h) \cup {k}
<1> DEFINE g == Inserted(h, k)
<1>1. /\ h.free \in Slot \ Live(h) /\ Live(g) = Live(h) \cup {h.free}
      /\ g.key = [h.key EXCEPT ![h.free] = k]
      /\ \A s \in Live(h) : s \in Slot
      /\ h \in Table
  BY InsertedSound
<1> HIDE DEF g
<1>2. g.key[h.free] = k /\ \A s \in Live(h) : g.key[s] = h.key[s]
  BY <1>1 DEF Table
<1> QED BY <1>1, <1>2 DEF KeysOf, g

LEMMA UnlinkedKeys ==
  ASSUME NEW h, Sound(h), NEW k \in Key, Lookup(h, k) # Null
  PROVE  KeysOf(Unlinked(h, Lookup(h, k), Hash[k])) = KeysOf(h) \ {k}
<1> DEFINE s == Lookup(h, k)
           g == Unlinked(h, s, Hash[k])
<1>1. /\ s \in Live(h) /\ h.key[s] = k
      /\ Live(g) = Live(h) \ {s} /\ g.key = h.key
      /\ \A x \in Live(h) : h.key[x] = k => x = s
  BY UnlinkedSound
<1> HIDE DEF g, s
<1> QED BY <1>1 DEF KeysOf, g, s

\* The two namings of the operator that counts.
LEMMA CountsAgree == \A S : Abstract!Cardinality(S) = Cardinality(S)
BY DEF Abstract!Cardinality, Cardinality

\* No operation of packed_hashtbl loses, duplicates or invents an element: the table
\* implements a set of at most N keys, with insert and erase for insert and erase.
THEOREM BoundedSetImplemented == Spec => ImplementsBoundedSet
<1> DEFINE members == {tbl.key[s] : s \in Live(tbl)}
<1>1. members = KeysOf(tbl) /\ members' = KeysOf(tbl')
  BY DEF KeysOf
<1>2. Init => Abstract!Init
  <2> SUFFICES ASSUME Init PROVE members = {}
    BY DEF Abstract!Init
  <2>1. Unset \in Table
    BY SlotIs, KeyAssumption DEF Unset, Table, Link
  <2>2. Live(tbl) = {}
    BY <2>1, EmptiedSound DEF Init
  <2> QED BY <2>2
<1>3. ASSUME Sound(tbl), NEW k \in Key, Insert(k) PROVE Abstract!Insert(k)
  <2>1. Insertable(tbl, k) /\ tbl' = Inserted(tbl, k)
    BY <1>3 DEF Insert
  <2>2. members' = members \cup {k}
    BY <1>1, <1>3, <2>1, InsertedKeys
  <2>3. Cardinality(members) < N
    BY <1>1, <1>3, <2>1, KeysCounted DEF Insertable
  <2> HIDE DEF members
  <2>4. Abstract!Cardinality(members) < N
    BY <2>3, CountsAgree
  <2> QED BY <2>2, <2>4 DEF Abstract!Insert, members
<1>4. ASSUME Sound(tbl), NEW k \in Key, Erase(k) PROVE Abstract!Erase(k)
  <2>1. Lookup(tbl, k) # Null /\ tbl' = Unlinked(tbl, Lookup(tbl, k), Hash[k])
    BY <1>4 DEF Erase
  <2>2. members' = members \ {k}
    BY <1>1, <1>4, <2>1, UnlinkedKeys
  <2> QED BY <2>2 DEF Abstract!Erase
<1>5. ASSUME Sound(tbl), [Next]_tbl PROVE [Abstract!Next]_members
  <2>1. CASE \E k \in Key : Insert(k) \/ Erase(k)
    BY <1>3, <1>4, <1>5, <2>1 DEF Abstract!Next
  <2>2. CASE ~ \E k \in Key : Insert(k) \/ Erase(k)
    <3>1. CASE UNCHANGED tbl
      BY <1>1, <3>1
    <3>2. CASE Next
      <4>1. Sound(tbl')
        BY <1>5, NextSound
      <4>2. members' \in SUBSET Key /\ Cardinality(members') <= N
        <5>1. KeysOf(tbl') \in SUBSET Key /\ Cardinality(KeysOf(tbl')) = tbl'.size /\ tbl'.size \in 0..N
          BY <4>1, KeysCounted
        <5> QED BY <1>1, <5>1
      <4>3. PICK T : T = members'
        OBVIOUS
      <4>4. T \in SUBSET Key /\ members' = T
        BY <4>2, <4>3
      <4>5. Cardinality(T) <= N
        BY <4>2, <4>3
      <4>6. Abstract!Cardinality(T) <= N
        BY <4>5, CountsAgree
      <4>7. Abstract!Replace(T)
        BY <4>4, <4>6 DEF Abstract!Replace
      <4>8. \E S \in SUBSET Key : Abstract!Replace(S)
        <5> HIDE DEF members
        <5> QED BY <4>4, <4>7
      <4> QED BY <4>8 DEF Abstract!Next
    <3> QED BY <1>5, <3>1, <3>2
  <2> QED BY <2>1, <2>2
<1>6. Sound(tbl) => [\A k \in Key : /\ Insert(k) => Abstract!Insert(k)
                                    /\ Erase(k) => Abstract!Erase(k)]_tbl
  BY <1>3, <1>4
<1>7. Spec => Abstract!Spec
  BY <1>2, <1>5, AlwaysSound, PTL DEF Spec, Abstract!Spec
<1>8. Spec => [][\A k \in Key : /\ Insert(k) => Abstract!Insert(k)
                                /\ Erase(k) => Abstract!Erase(k)]_tbl
  BY <1>6, AlwaysSound, PTL
<1> QED BY <1>7, <1>8 DEF ImplementsBoundedSet

=============================================================================
