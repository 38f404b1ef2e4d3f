--------------------------- MODULE ContainersProofs ---------------------------
(***************************************************************************)
(* Proofs about the small containers: each holds what the calls gave it    *)
(* (ContentsExact), no filter misses a member (NoFalseNegatives), and what *)
(* a call may do (CallsExact), priority_set as a refinement.               *)
(***************************************************************************)
EXTENDS Containers, SumTheorems, SequenceTheorems
-----------------------------------------------------------------------------
(* circular_queue: the invariant is HoldsLatest with the types. *)

Item == Value \cup {Rubbish}

QueueKept == buffer \in Seq(Item) /\ given \in Seq(Item) /\ HoldsLatest

LEMMA QueueStarts == ASSUME QueueInit PROVE QueueKept
<1>1. buffer \in Seq(Item) /\ Len(buffer) <= QueueCapacity /\ Len(buffer) \in Nat
  <2>1. QueueCapacity \in Nat
    BY QueueAssumption
  <2>2. CASE buffer = <<>>
    BY <2>1, <2>2
  <2>3. CASE buffer \in [1..QueueCapacity -> Value]
    BY <2>1, <2>3 DEF Item
  <2> QED
    BY <2>2, <2>3 DEF QueueInit
<1>2. given = buffer
  BY DEF QueueInit
<1>3. \A i \in 1..Len(buffer) : Len(buffer) - Len(buffer) + i = i
  BY <1>1
<1> QED
  BY <1>1, <1>2, <1>3 DEF QueueKept, HoldsLatest

\* What is left of the queue where a value is pushed has room for it and is still the latest.
LEMMA RoomMade ==
  ASSUME QueueKept
  PROVE  /\ Evicted \in Seq(Item) /\ Len(Evicted) < QueueCapacity /\ Len(Evicted) <= Len(given)
         /\ Len(Evicted) = IF Len(buffer) < QueueCapacity THEN Len(buffer) ELSE QueueCapacity - 1
         /\ \A i \in 1..Len(Evicted) : Evicted[i] \in {given[Len(given) - Len(Evicted) + i], Rubbish}
<1>1. /\ buffer \in Seq(Item) /\ Len(buffer) \in Nat /\ Len(given) \in Nat
      /\ QueueCapacity \in Nat \ {0} /\ Len(buffer) <= Len(given) /\ Len(buffer) <= QueueCapacity
      /\ \A i \in 1..Len(buffer) : buffer[i] \in {given[Len(given) - Len(buffer) + i], Rubbish}
  BY QueueAssumption DEF QueueKept, HoldsLatest
<1>2. CASE Full
  <2>1. buffer # <<>> /\ Len(buffer) = QueueCapacity
    BY <1>1, <1>2 DEF Full
  <2>2. /\ Tail(buffer) \in Seq(Item) /\ Len(Tail(buffer)) = Len(buffer) - 1
        /\ \A i \in 1..(Len(buffer) - 1) : Tail(buffer)[i] = buffer[i + 1]
    BY <1>1, <2>1
  <2>3. \A i \in 1..(Len(buffer) - 1) :
          Len(given) - (Len(buffer) - 1) + i = Len(given) - Len(buffer) + (i + 1) /\ i + 1 \in 1..Len(buffer)
    BY <1>1
  <2> QED
    BY <1>1, <1>2, <2>1, <2>2, <2>3 DEF Evicted
<1>3. CASE ~ Full
  BY <1>1, <1>3 DEF Full, Evicted
<1> QED
  BY <1>2, <1>3

LEMMA QueuePush ==
  ASSUME QueueKept, NEW x \in Item, NEW y \in {x, Rubbish},
         buffer' = Append(Evicted, y), given' = Append(given, x)
  PROVE  QueueKept'
<1>1. /\ Evicted \in Seq(Item) /\ Len(Evicted) < QueueCapacity /\ Len(Evicted) <= Len(given)
      /\ \A i \in 1..Len(Evicted) : Evicted[i] \in {given[Len(given) - Len(Evicted) + i], Rubbish}
  BY RoomMade
<1>2. given \in Seq(Item) /\ Len(given) \in Nat /\ Len(Evicted) \in Nat /\ QueueCapacity \in Nat
  BY <1>1, QueueAssumption DEF QueueKept
<1>3. /\ buffer' \in Seq(Item) /\ Len(buffer') = Len(Evicted) + 1 /\ y \in Item
      /\ \A i \in 1..Len(Evicted) : buffer'[i] = Evicted[i]
      /\ buffer'[Len(Evicted) + 1] = y
  BY <1>1 DEF Item
<1>4. /\ given' \in Seq(Item) /\ Len(given') = Len(given) + 1
      /\ \A i \in 1..Len(given) : given'[i] = given[i]
      /\ given'[Len(given) + 1] = x
  BY <1>2
<1>5. \A i \in 1..Len(buffer') : buffer'[i] \in {given'[Len(given') - Len(buffer') + i], Rubbish}
  <2> TAKE i \in 1..Len(buffer')
  <2>3. i = Len(Evicted) + 1 \/ i \in 1..Len(Evicted)
    BY <1>2, <1>3
  <2>1. CASE i = Len(Evicted) + 1
    <3>1. Len(given') - Len(buffer') + i = Len(given) + 1
      BY <1>2, <1>3, <1>4, <2>1
    <3> QED
      BY <1>3, <1>4, <2>1, <3>1
  <2>2. CASE i \in 1..Len(Evicted)
    <3>1. /\ Len(given') - Len(buffer') + i = Len(given) - Len(Evicted) + i
          /\ Len(given) - Len(Evicted) + i \in 1..Len(given)
      BY <1>1, <1>2, <1>3, <1>4, <2>2
    <3> QED
      BY <1>1, <1>3, <1>4, <2>2, <3>1
  <2> QED
    BY <2>1, <2>2, <2>3
<1>6. Len(buffer') <= Len(given') /\ Len(buffer') <= QueueCapacity
  BY <1>1, <1>2, <1>3, <1>4
<1> QED
  BY <1>3, <1>4, <1>5, <1>6 DEF QueueKept, HoldsLatest

LEMMA QueueStays == ASSUME QueueKept, QueueNext PROVE QueueKept'
<1>1. ASSUME NEW v \in Value, PushBack(v) PROVE QueueKept'
  BY <1>1, QueuePush DEF PushBack, Item
<1>2. ASSUME NEW i \in DOMAIN buffer, PushElement(i) PROVE QueueKept'
  <2> DEFINE x == buffer[i]
             y == IF Full /\ i = 1 THEN Rubbish ELSE buffer[i]
  <2>1. x \in Item /\ y \in {x, Rubbish}
    BY <1>2 DEF QueueKept
  <2>2. buffer' = Append(Evicted, y) /\ given' = Append(given, x)
    BY <1>2 DEF PushElement
  <2> HIDE DEF x, y
  <2> QED
    BY <2>1, <2>2, QueuePush
<1>3. ASSUME PopFront PROVE QueueKept'
  <2>1. /\ buffer' = Tail(buffer) /\ given' = given /\ buffer # <<>> /\ buffer \in Seq(Item)
        /\ Len(buffer) \in Nat /\ Len(given) \in Nat /\ QueueCapacity \in Nat
        /\ Len(buffer) <= Len(given) /\ Len(buffer) <= QueueCapacity
        /\ \A i \in 1..Len(buffer) : buffer[i] \in {given[Len(given) - Len(buffer) + i], Rubbish}
    BY <1>3, QueueAssumption DEF PopFront, QueueKept, HoldsLatest
  <2>2. /\ buffer' \in Seq(Item) /\ Len(buffer') = Len(buffer) - 1
        /\ \A i \in 1..(Len(buffer) - 1) : buffer'[i] = buffer[i + 1]
    BY <2>1
  <2>3. \A i \in 1..(Len(buffer) - 1) :
          Len(given) - (Len(buffer) - 1) + i = Len(given) - Len(buffer) + (i + 1) /\ i + 1 \in 1..Len(buffer)
    BY <2>1
  <2> QED
    BY <2>1, <2>2, <2>3 DEF QueueKept, HoldsLatest
<1>4. ASSUME ClearQueue PROVE QueueKept'
  BY <1>4, QueueAssumption DEF ClearQueue, QueueKept, HoldsLatest
<1> QED
  BY <1>1, <1>2, <1>3, <1>4 DEF QueueNext

\* A push evicts no more than it must.
LEMMA QueueEvicts == ASSUME QueueKept, QueueNext PROVE EvictsOnlyWhenFull
<1>1. /\ buffer \in Seq(Item) /\ given \in Seq(Item) /\ Len(buffer) \in Nat /\ Len(given) \in Nat
      /\ Evicted \in Seq(Item) /\ QueueCapacity \in Nat
      /\ Len(Evicted) = IF Len(buffer) < QueueCapacity THEN Len(buffer) ELSE QueueCapacity - 1
  BY RoomMade, QueueAssumption DEF QueueKept
<1>2. ASSUME NEW x, NEW y, buffer' = Append(Evicted, y), given' = Append(given, x)
      PROVE  EvictsOnlyWhenFull
  <2>1. Len(buffer') = Len(Evicted) + 1
    BY <1>1, <1>2
  <2> QED
    BY <1>1, <2>1 DEF EvictsOnlyWhenFull
<1>3. ASSUME Len(given') <= Len(given) PROVE EvictsOnlyWhenFull
  <2>1. Len(given') \in Nat
    BY <1>1, <1>3, QueueStays DEF QueueKept
  <2> QED
    BY <1>1, <1>3, <2>1 DEF EvictsOnlyWhenFull
<1>4. CASE PopFront \/ ClearQueue
  BY <1>1, <1>3, <1>4 DEF PopFront, ClearQueue
<1>5. CASE \E v \in Value : PushBack(v)
  BY <1>2, <1>5 DEF PushBack
<1>6. CASE \E i \in DOMAIN buffer : PushElement(i)
  BY <1>2, <1>6 DEF PushElement
<1> QED
  BY <1>4, <1>5, <1>6 DEF QueueNext

-----------------------------------------------------------------------------
(* ordered_stack: the invariant is TracksOrder with the types. *)

StackKept == buffer \in Seq(Item) /\ track \in Seq(Value) /\ given \in Seq(Value) /\ TracksOrder

LEMMA RankIs == \A v \in Value : Rank[v] \in Nat
BY DEF Rank

LEMMA StackPush ==
  ASSUME StackKept, NEW x \in Value, NEW y \in {x, Rubbish},
         track' = Tracked(x), buffer' = Append(buffer, y), given' = Append(given, x)
  PROVE  StackKept'
<1> DEFINE L == Len(given)
           z == IF buffer = <<>> THEN x ELSE Least(Last(track), x)
<1>1. /\ L \in Nat /\ Len(track) = L /\ Len(buffer) = L
      /\ buffer \in Seq(Item) /\ track \in Seq(Value) /\ given \in Seq(Value) /\ y \in Item
      /\ \A n \in 1..L : buffer[n] \in {given[n], Rubbish}
      /\ \A n \in 1..L :
           /\ \E i \in 1..n :
                /\ track[n] = given[i]
                /\ \A j \in 1..(i - 1) : Rank[given[j]] # Rank[given[i]]
           /\ \A j \in 1..n : ~Precedes(given[j], track[n])
  BY DEF StackKept, TracksOrder, Item
<1>2. buffer = <<>> <=> L = 0
  BY <1>1
<1>3. L > 0 => Last(track) = track[L] /\ track[L] \in Value
  BY <1>1 DEF Last
<1>4. z \in Value
  BY <1>2, <1>3, <1>1 DEF Least
<1>5. /\ buffer' \in Seq(Item) /\ track' \in Seq(Value) /\ given' \in Seq(Value)
      /\ Len(buffer') = L + 1 /\ Len(track') = L + 1 /\ Len(given') = L + 1
      /\ \A i \in 1..L : given'[i] = given[i] /\ track'[i] = track[i] /\ buffer'[i] = buffer[i]
      /\ given'[L + 1] = x /\ track'[L + 1] = z /\ buffer'[L + 1] = y
  <2> HIDE DEF z
  <2>1. track' = Append(track, z)
    BY DEF Tracked, z
  <2> QED
    BY <1>1, <1>4, <2>1
<1>6. ASSUME NEW n \in 1..L
      PROVE  /\ \E i \in 1..n :
                  /\ track'[n] = given'[i]
                  /\ \A j \in 1..(i - 1) : Rank[given'[j]] # Rank[given'[i]]
             /\ \A j \in 1..n : ~Precedes(given'[j], track'[n])
  <2>1. \A i \in 1..n : i \in 1..L /\ \A j \in 1..(i - 1) : j \in 1..L
    BY <1>1
  <2> HIDE DEF L, z
  <2>2. PICK i \in 1..n : track[n] = given[i] /\ \A j \in 1..(i - 1) : Rank[given[j]] # Rank[given[i]]
    BY <1>1
  <2>3. track'[n] = given'[i] /\ \A j \in 1..(i - 1) : Rank[given'[j]] # Rank[given'[i]]
    BY <1>5, <2>1, <2>2
  <2>4. \A j \in 1..n : ~Precedes(given'[j], track'[n])
    BY <1>1, <1>5, <2>1
  <2> QED
    BY <2>3, <2>4
<1>7. /\ \E i \in 1..(L + 1) :
           /\ z = given'[i]
           /\ \A j \in 1..(i - 1) : Rank[given'[j]] # Rank[given'[i]]
      /\ \A j \in 1..(L + 1) : ~Precedes(given'[j], z)
  <2>0. Rank[x] \in Nat /\ \A j \in 1..(L + 1) : Rank[given'[j]] \in Nat
    BY <1>5, RankIs
  <2>1. CASE L = 0
    BY <1>2, <1>5, <2>0, <2>1 DEF Precedes
  <2>2. CASE L > 0
    <3> DEFINE t == track[L]
    <3>1. z = IF Rank[x] < Rank[t] THEN x ELSE t
      BY <1>2, <1>3, <2>2 DEF Least, Precedes
    <3> HIDE DEF z, L, t
    <3>a. /\ \E i \in 1..L :
               /\ track[L] = given[i]
               /\ \A j \in 1..(i - 1) : Rank[given[j]] # Rank[given[i]]
          /\ \A j \in 1..L : ~Precedes(given[j], track[L])
      <4>1. L \in 1..L
        BY <1>1, <2>2
      <4> QED
        BY <1>1, <4>1, Zenon
    <3>2. PICK i \in 1..L : t = given[i] /\ \A j \in 1..(i - 1) : Rank[given[j]] # Rank[given[i]]
      BY <3>a, Zenon DEF t
    <3>3. \A j \in 1..L : ~ (Rank[given[j]] < Rank[t])
      BY <3>a DEF Precedes, t
    <3>4. \A j \in 1..L : Rank[given[j]] \in Nat /\ given'[j] = given[j]
      BY <1>1, <1>5, RankIs
    <3>5. Rank[t] \in Nat
      BY <3>2, <3>4
    <3>6. CASE Rank[x] < Rank[t]
      <4>1. \A j \in 1..((L + 1) - 1) : Rank[given'[j]] # Rank[given'[L + 1]]
        BY <1>1, <1>5, <2>0, <3>3, <3>4, <3>5, <3>6
      <4>2. z = given'[L + 1]
        BY <1>5, <3>1, <3>6
      <4>3. \A j \in 1..(L + 1) : ~ (Rank[given'[j]] < Rank[z])
        BY <1>1, <1>5, <2>0, <3>1, <3>3, <3>4, <3>5, <3>6
      <4>4. L + 1 \in 1..(L + 1)
        BY <1>1 DEF L
      <4> QED
        BY <4>1, <4>2, <4>3, <4>4 DEF Precedes
    <3>7. CASE ~ (Rank[x] < Rank[t])
      <4>1. \A j \in 1..(i - 1) : Rank[given'[j]] # Rank[given'[i]]
        <5>1. \A j \in 1..(i - 1) : j \in 1..L
          BY <1>1, <3>2 DEF L
        <5> QED
          BY <3>2, <3>4, <5>1
      <4>2. z = given'[i]
        BY <3>1, <3>2, <3>4, <3>7
      <4>3. \A j \in 1..(L + 1) : ~ (Rank[given'[j]] < Rank[z])
        BY <1>1, <1>5, <2>0, <3>1, <3>3, <3>4, <3>5, <3>7
      <4>4. i \in 1..(L + 1)
        BY <1>1, <3>2 DEF L
      <4> QED
        BY <4>1, <4>2, <4>3, <4>4 DEF Precedes
    <3> QED
      BY <3>6, <3>7
  <2>3. L = 0 \/ L > 0
    BY <1>1
  <2> QED
    BY <2>1, <2>2, <2>3
<1> HIDE DEF L, z
<1>8. DOMAIN given' = 1..(L + 1) /\ \A n \in 1..(L + 1) : n \in 1..L \/ n = L + 1
  BY <1>1, <1>5
<1>9. ASSUME NEW n \in 1..(L + 1)
      PROVE  /\ \E i \in 1..n :
                  /\ track'[n] = given'[i]
                  /\ \A j \in 1..(i - 1) : Rank[given'[j]] # Rank[given'[i]]
             /\ \A j \in 1..n : ~Precedes(given'[j], track'[n])
  <2>1. CASE n = L + 1
    <3>1. track'[n] = z
      BY <1>5, <2>1
    <3> QED
      BY <1>7, <2>1, <3>1
  <2>2. CASE n \in 1..L
    BY <1>6, <2>2
  <2> QED
    BY <1>8, <2>1, <2>2
<1>10. \A n \in 1..(L + 1) : buffer'[n] \in {given'[n], Rubbish}
  BY <1>1, <1>5, <1>8
<1> QED
  BY <1>5, <1>8, <1>9, <1>10 DEF StackKept, TracksOrder

LEMMA StackPop == ASSUME StackKept, PopTop PROVE StackKept'
<1> DEFINE L == Len(given)
<1>1. /\ L \in Nat /\ Len(track) = L /\ Len(buffer) = L /\ L > 0
      /\ buffer \in Seq(Item) /\ track \in Seq(Value) /\ given \in Seq(Value)
      /\ \A n \in 1..L : buffer[n] \in {given[n], Rubbish}
      /\ \A n \in 1..L :
           /\ \E i \in 1..n :
                /\ track[n] = given[i]
                /\ \A j \in 1..(i - 1) : Rank[given[j]] # Rank[given[i]]
           /\ \A j \in 1..n : ~Precedes(given[j], track[n])
  <2>1. /\ buffer \in Seq(Item) /\ track \in Seq(Value) /\ given \in Seq(Value)
        /\ Len(track) = Len(buffer) /\ Len(given) = Len(buffer) /\ buffer # <<>>
    BY DEF StackKept, TracksOrder, PopTop
  <2>2. L \in Nat /\ L > 0 /\ DOMAIN given = 1..L
    BY <2>1
  <2> QED
    BY <2>1, <2>2 DEF StackKept, TracksOrder
<1>2. /\ buffer' \in Seq(Item) /\ track' \in Seq(Value) /\ given' \in Seq(Value)
      /\ Len(buffer') = L - 1 /\ Len(track') = L - 1 /\ Len(given') = L - 1
      /\ \A i \in 1..(L - 1) : given'[i] = given[i] /\ track'[i] = track[i] /\ buffer'[i] = buffer[i]
  BY <1>1 DEF PopTop, Front
<1> HIDE DEF L
<1>3. ASSUME NEW n \in 1..(L - 1)
      PROVE  /\ \E i \in 1..n :
                  /\ track'[n] = given'[i]
                  /\ \A j \in 1..(i - 1) : Rank[given'[j]] # Rank[given'[i]]
             /\ \A j \in 1..n : ~Precedes(given'[j], track'[n])
  <2>1. n \in 1..L /\ \A i \in 1..n : i \in 1..(L - 1) /\ \A j \in 1..(i - 1) : j \in 1..(L - 1)
    BY <1>1
  <2>2. PICK i \in 1..n : track[n] = given[i] /\ \A j \in 1..(i - 1) : Rank[given[j]] # Rank[given[i]]
    BY <1>1, <2>1
  <2>3. track'[n] = given'[i] /\ \A j \in 1..(i - 1) : Rank[given'[j]] # Rank[given'[i]]
    BY <1>2, <2>1, <2>2
  <2>4. \A j \in 1..n : ~Precedes(given'[j], track'[n])
    BY <1>1, <1>2, <2>1
  <2> QED
    BY <2>3, <2>4
<1>4. DOMAIN given' = 1..(L - 1)
  BY <1>2
<1>5. \A n \in 1..(L - 1) : buffer'[n] \in {given'[n], Rubbish}
  <2>1. \A n \in 1..(L - 1) : n \in 1..L
    BY <1>1
  <2> QED
    BY <1>1, <1>2, <2>1
<1> QED
  BY <1>2, <1>3, <1>4, <1>5 DEF StackKept, TracksOrder

LEMMA StackStarts == ASSUME StackInit PROVE StackKept
<1>1. buffer = <<>> /\ track = <<>> /\ given = <<>> /\ DOMAIN given = {}
  BY DEF StackInit
<1> QED
  BY <1>1 DEF StackKept, TracksOrder

LEMMA StackStays == ASSUME StackKept, StackNext PROVE StackKept'
<1>1. ASSUME NEW v \in Value, PushOn(v) PROVE StackKept'
  BY <1>1, StackPush DEF PushOn, Item
<1>2. ASSUME PushOrderElement PROVE StackKept'
  <2>1. track \in Seq(Value) /\ Len(track) = Len(buffer) /\ buffer \in Seq(Item) /\ buffer # <<>>
    BY <1>2 DEF StackKept, TracksOrder, PushOrderElement
  <2>2. Last(track) \in Value
    BY <2>1 DEF Last
  <2> QED
    BY <1>2, <2>2, StackPush DEF PushOrderElement, Item
<1> QED
  BY <1>1, <1>2, StackPop DEF StackNext

-----------------------------------------------------------------------------
(* compact::vector: the buffer holds what it should, from the first element to the last one  *)
(* that was written, also while a range is read, when the buffer has the size of the loop.   *)

Plain == {key_a, key_b}
Element == {key_a, key_b, Raw, Rubbish}

\* b holds e, but for elements that were released before they were read.
Alike(b, e) ==
  /\ b \in Seq(Element) /\ e \in Seq(Plain)
  /\ Len(b) = Len(e) /\ \A i \in 1..Len(e) : b[i] \in {e[i], Rubbish}

VectorKept ==
  /\ buffer \in Seq(Element) /\ given \in Seq(Plain)
  /\ size = Len(buffer) /\ size <= MaxSize
  /\ \/ track = Vector!Idle /\ Len(given) = Len(buffer)
     \/ track = <<size>> /\ size > 0 /\ Len(given) <= Len(buffer)
  /\ \A i \in 1..Len(given) : buffer[i] \in {given[i], Rubbish}

LEMMA PartIs ==
  ASSUME NEW S, NEW s \in Seq(S), NEW m \in Nat, NEW n \in Nat, m <= n, n <= Len(s)
  PROVE  /\ SubSeq(s, m + 1, n) \in Seq(S) /\ Len(SubSeq(s, m + 1, n)) = n - m
         /\ \A i \in 1..(n - m) : SubSeq(s, m + 1, n)[i] = s[m + i]
<1>1. \A i \in (m + 1)..n : s[i] \in S
  BY ElementOfSeq
<1>2. /\ SubSeq(s, m + 1, n) \in Seq(S)
      /\ Len(SubSeq(s, m + 1, n)) = IF m + 1 <= n THEN n - (m + 1) + 1 ELSE 0
      /\ \A i \in 1..(n - (m + 1) + 1) : SubSeq(s, m + 1, n)[i] = s[(m + 1) + i - 1]
  BY <1>1, SubSeqProperties
<1>3. n - (m + 1) + 1 = n - m /\ (m + 1 <= n \/ n - m = 0)
  OBVIOUS
<1>4. \A i \in 1..(n - m) : (m + 1) + i - 1 = m + i
  OBVIOUS
<1> QED
  BY <1>2, <1>3, <1>4

LEMMA SplicedIs ==
  ASSUME NEW S, NEW s \in Seq(S), NEW t \in Seq(S), NEW pos \in Nat, NEW n \in Nat, pos + n <= Len(s)
  PROVE  /\ Vector!Splice(s, pos, n, t) \in Seq(S)
         /\ Len(Vector!Splice(s, pos, n, t)) = Len(s) - n + Len(t)
         /\ \A i \in 1..(Len(s) - n + Len(t)) :
              Vector!Splice(s, pos, n, t)[i] =
                IF i <= pos THEN s[i] ELSE IF i <= pos + Len(t) THEN t[i - pos] ELSE s[i - Len(t) + n]
<1> DEFINE L == Len(s)
           T == Len(t)
           a == SubSeq(s, 1, pos)
           c == SubSeq(s, pos + n + 1, L)
           all == (a \o t) \o c
<1>0. L \in Nat /\ T \in Nat /\ pos + n \in Nat /\ pos + n <= L
  OBVIOUS
<1>1. a \in Seq(S) /\ Len(a) = pos /\ \A i \in 1..pos : a[i] = s[i]
  <2>1. SubSeq(s, 0 + 1, pos) \in Seq(S) /\ Len(SubSeq(s, 0 + 1, pos)) = pos - 0
        /\ \A i \in 1..(pos - 0) : SubSeq(s, 0 + 1, pos)[i] = s[0 + i]
    BY <1>0, PartIs
  <2>2. 0 + 1 = 1 /\ pos - 0 = pos /\ \A i \in 1..pos : 0 + i = i
    OBVIOUS
  <2> QED
    BY <2>1, <2>2
<1>2. c \in Seq(S) /\ Len(c) = L - (pos + n) /\ \A i \in 1..(L - (pos + n)) : c[i] = s[pos + n + i]
  BY <1>0, PartIs
<1>3. /\ a \o t \in Seq(S) /\ Len(a \o t) = pos + T
      /\ \A i \in 1..(pos + T) : (a \o t)[i] = IF i <= pos THEN a[i] ELSE t[i - pos]
  <2> HIDE DEF a
  <2> QED
    BY <1>1, ConcatProperties
<1>4. /\ all \in Seq(S) /\ Len(all) = pos + T + (L - (pos + n))
      /\ \A i \in 1..(pos + T + (L - (pos + n))) :
           all[i] = IF i <= pos + T THEN (a \o t)[i] ELSE c[i - (pos + T)]
  <2> DEFINE b == a \o t
  <2>1. b \in Seq(S) /\ Len(b) = pos + T
    BY <1>3
  <2>2. all = b \o c
    OBVIOUS
  <2> HIDE DEF b, c, all, L, T
  <2>3. b \o c \in Seq(S) /\ Len(b \o c) = Len(b) + Len(c)
        /\ \A i \in 1..(Len(b) + Len(c)) : (b \o c)[i] = IF i <= Len(b) THEN b[i] ELSE c[i - Len(b)]
    BY <1>2, <2>1, ConcatProperties
  <2> QED
    BY <1>2, <2>1, <2>2, <2>3 DEF b
<1>5. Vector!Splice(s, pos, n, t) = all
  BY DEF Vector!Splice
<1> HIDE DEF a, c, all, L, T
<1>6. pos + T + (L - (pos + n)) = L - n + T
  BY <1>0
<1>7. ASSUME NEW i \in 1..(L - n + T)
      PROVE  all[i] = IF i <= pos THEN s[i] ELSE IF i <= pos + T THEN t[i - pos] ELSE s[i - T + n]
  <2>0. i \in Int /\ 1 <= i /\ i <= L - n + T
    BY <1>0
  <2>a. all[i] = IF i <= pos + T THEN (a \o t)[i] ELSE c[i - (pos + T)]
    BY <1>4, <1>6
  <2>1. CASE i <= pos
    BY <1>0, <1>1, <1>3, <2>a, <2>0, <2>1
  <2>2. CASE i > pos /\ i <= pos + T
    <3>1. i \in 1..(pos + T) /\ ~ (i <= pos)
      BY <1>0, <2>0, <2>2
    <3>2. (a \o t)[i] = t[i - pos]
      BY <1>3, <3>1
    <3> QED
      BY <2>a, <2>2, <3>1, <3>2
  <2>3. CASE i > pos + T
    <3>1. i - (pos + T) \in 1..(L - (pos + n))
      BY <1>0, <2>0, <2>3
    <3>2. pos + n + (i - (pos + T)) = i - T + n
      BY <1>0, <2>0
    <3>3. all[i] = s[i - T + n]
      BY <1>0, <1>2, <2>a, <2>0, <2>3, <3>1, <3>2
    <3> QED
      BY <1>0, <2>0, <2>3, <3>3
  <2> QED
    BY <1>0, <2>0, <2>1, <2>2, <2>3
<1> QED
  BY <1>4, <1>5, <1>6, <1>7 DEF L, T

\* The two agree after each of the operations on sequences that the calls make of them.
LEMMA SplicedAlike ==
  ASSUME NEW b, NEW e, NEW t, NEW u, Alike(b, e), Alike(t, u),
         NEW pos \in Nat, NEW n \in Nat, pos + n <= Len(b)
  PROVE  /\ Alike(Vector!Splice(b, pos, n, t), Vector!Splice(e, pos, n, u))
         /\ Len(Vector!Splice(b, pos, n, t)) = Len(b) - n + Len(t)
<1> DEFINE L == Len(b)
           T == Len(t)
           bs == Vector!Splice(b, pos, n, t)
           es == Vector!Splice(e, pos, n, u)
<1>1. /\ b \in Seq(Element) /\ t \in Seq(Element) /\ L \in Nat /\ T \in Nat
      /\ e \in Seq(Plain) /\ u \in Seq(Plain) /\ Len(e) = L /\ Len(u) = T
      /\ \A i \in 1..L : b[i] \in {e[i], Rubbish}
      /\ \A i \in 1..T : t[i] \in {u[i], Rubbish}
  BY DEF Alike
<1>2. /\ bs \in Seq(Element) /\ Len(bs) = L - n + T
      /\ \A i \in 1..(L - n + T) :
           bs[i] = IF i <= pos THEN b[i] ELSE IF i <= pos + T THEN t[i - pos] ELSE b[i - T + n]
  <2>1. pos + n <= Len(b) /\ b \in Seq(Element) /\ t \in Seq(Element)
    BY <1>1
  <2> HIDE DEF Vector!Splice
  <2> QED
    BY <2>1, SplicedIs
<1>3. /\ es \in Seq(Plain) /\ Len(es) = L - n + T
      /\ \A i \in 1..(L - n + T) :
           es[i] = IF i <= pos THEN e[i] ELSE IF i <= pos + T THEN u[i - pos] ELSE e[i - T + n]
  <2>1. pos + n <= Len(e) /\ e \in Seq(Plain) /\ u \in Seq(Plain) /\ Len(e) = L /\ Len(u) = T
    BY <1>1
  <2> DEFINE s == Vector!Splice(e, pos, n, u)
  <2>2. /\ s \in Seq(Plain) /\ Len(s) = Len(e) - n + Len(u)
        /\ \A i \in 1..(Len(e) - n + Len(u)) :
             s[i] = IF i <= pos THEN e[i] ELSE IF i <= pos + Len(u) THEN u[i - pos] ELSE e[i - Len(u) + n]
    <3>1. pos + n <= Len(e) /\ e \in Seq(Plain) /\ u \in Seq(Plain)
      BY <2>1
    <3> QED
      BY <3>1, SplicedIs
  <2> HIDE DEF L, T, s
  <2> QED
    BY <2>1, <2>2 DEF s
<1> HIDE DEF bs, es, L, T
<1>4. ASSUME NEW i \in 1..(L - n + T) PROVE bs[i] \in {es[i], Rubbish}
  <2>0. i \in Int /\ 1 <= i /\ i <= L - n + T /\ pos + n <= L
    BY <1>1 DEF L
  <2>1. CASE i <= pos
    <3>1. i \in 1..L
      BY <1>1, <2>0, <2>1
    <3> QED
      BY <1>1, <1>2, <1>3, <2>1, <3>1
  <2>2. CASE ~ (i <= pos) /\ i <= pos + T
    <3>1. i - pos \in 1..T
      BY <1>1, <2>0, <2>2
    <3> QED
      BY <1>1, <1>2, <1>3, <2>2, <3>1
  <2>3. CASE ~ (i <= pos) /\ ~ (i <= pos + T)
    <3>1. i - T + n \in 1..L
      BY <1>1, <2>0, <2>3
    <3> QED
      BY <1>1, <1>2, <1>3, <2>3, <3>1
  <2> QED
    BY <2>1, <2>2, <2>3
<1> QED
  BY <1>2, <1>3, <1>4 DEF Alike, L, T, bs, es

LEMMA PartAlike ==
  ASSUME NEW b, NEW e, Alike(b, e), NEW m \in Nat, NEW n \in Nat, m + n <= Len(b)
  PROVE  /\ Alike(SubSeq(b, m + 1, m + n), SubSeq(e, m + 1, m + n))
         /\ Len(SubSeq(b, m + 1, m + n)) = n
<1>1. /\ b \in Seq(Element) /\ e \in Seq(Plain) /\ Len(b) \in Nat /\ Len(e) = Len(b)
      /\ \A i \in 1..Len(b) : b[i] \in {e[i], Rubbish}
  BY DEF Alike
<1>2. m + n \in Nat /\ m <= m + n /\ m + n - m = n
  OBVIOUS
<1>3. /\ SubSeq(b, m + 1, m + n) \in Seq(Element) /\ Len(SubSeq(b, m + 1, m + n)) = n
      /\ \A i \in 1..n : SubSeq(b, m + 1, m + n)[i] = b[m + i]
  BY <1>1, <1>2, PartIs
<1>4. /\ SubSeq(e, m + 1, m + n) \in Seq(Plain) /\ Len(SubSeq(e, m + 1, m + n)) = n
      /\ \A i \in 1..n : SubSeq(e, m + 1, m + n)[i] = e[m + i]
  BY <1>1, <1>2, PartIs
<1>5. \A i \in 1..n : m + i \in 1..Len(b)
  BY <1>1
<1> QED
  BY <1>1, <1>3, <1>4, <1>5 DEF Alike

LEMMA CopiesAre ==
  ASSUME NEW S, NEW x \in S, NEW n \in Nat
  PROVE  /\ Vector!Copies(n, x) \in Seq(S) /\ Len(Vector!Copies(n, x)) = n
         /\ \A i \in 1..n : Vector!Copies(n, x)[i] = x
BY DEF Vector!Copies

LEMMA CopiesAlike ==
  ASSUME NEW y \in Plain, NEW x \in {y, Rubbish}, NEW n \in Nat
  PROVE  Alike(Vector!Copies(n, x), Vector!Copies(n, y)) /\ Len(Vector!Copies(n, x)) = n
<1>1. x \in Element
  BY DEF Element, Plain
<1> QED
  BY <1>1, CopiesAre DEF Alike

LEMMA TextAlike ==
  ASSUME NEW t \in Vector!Texts
  PROVE  Alike(t, t) /\ Len(t) \in 0..MaxText
<1>1. MaxText \in Nat
  BY CompactAssumption
<1>2. PICK m \in 0..MaxText : t \in [1..m -> Plain]
  BY <1>1 DEF Plain, Vector!Texts
<1>3. t \in Seq(Plain) /\ Len(t) = m
  BY <1>1, <1>2
<1>4. t \in Seq(Element)
  BY <1>3, SeqMonotonic DEF Element, Plain
<1> QED
  BY <1>1, <1>3, <1>4 DEF Alike

\* An argument is read before the block goes, or its place holds rubbish.
LEMMA GivenAlike ==
  ASSUME NEW b, NEW e, Alike(b, e), NEW arg \in Plain \cup DOMAIN e
  PROVE  /\ Vector!Given(arg, e) \in Plain
         /\ Vector!Given(arg, b) \in {Vector!Given(arg, e), Rubbish}
<1>1. /\ b \in Seq(Element) /\ e \in Seq(Plain) /\ Len(e) \in Nat
      /\ DOMAIN b = 1..Len(e) /\ DOMAIN e = 1..Len(e)
      /\ \A i \in 1..Len(e) : b[i] \in {e[i], Rubbish}
  BY DEF Alike
<1>2. \A i \in 1..Len(e) : e[i] \in Plain
  BY <1>1
<1> QED
  BY <1>1, <1>2 DEF Vector!Given

LEMMA VectorStarts == ASSUME Vector!Init PROVE VectorKept
<1>1. MaxSize \in Nat
  BY CompactAssumption
<1>2. <<>> \in Seq(Element) /\ <<>> \in Seq(Plain) /\ Len(<<>>) = 0
  BY EmptySeq
<1> QED
  BY <1>1, <1>2 DEF Vector!Init, VectorKept

LEMMA VectorBecomes ==
  ASSUME NEW b, NEW e, Alike(b, e), Len(b) <= MaxSize,
         Vector!Become(b), given' = e, track' = Vector!Idle
  PROVE  VectorKept'
<1>1. MaxSize \in Nat /\ Len(b) \in Nat
  BY CompactAssumption DEF Alike
<1>2. Len(b) % (MaxSize + 1) = Len(b)
  BY <1>1
<1>3. buffer' = b /\ size' = Len(b)
  BY <1>2 DEF Vector!Become
<1>4. Vector!Idle = <<>>
  BY DEF Vector!Idle
<1> QED
  BY <1>3, <1>4 DEF Alike, VectorKept, Vector!Idle

LEMMA VectorNow ==
  ASSUME VectorKept, track = Vector!Idle
  PROVE  Alike(buffer, given) /\ size = Len(buffer) /\ size \in Nat /\ MaxSize \in Nat /\ size <= MaxSize
BY CompactAssumption DEF VectorKept, Alike, Vector!Idle

LEMMA VectorSame ==
  ASSUME VectorKept, UNCHANGED <<buffer, size, given, track>>
  PROVE  VectorKept'
BY DEF VectorKept, Vector!Idle

LEMMA VectorInserts ==
  ASSUME VectorKept, Vector!InsertCopies \/ Vector!InsertRange \/ Vector!InsertOwn
  PROVE  VectorKept'
<1>0. Alike(buffer, given) /\ size = Len(buffer) /\ size \in Nat /\ MaxSize \in Nat /\ MaxText \in Nat /\ size <= MaxSize
      /\ track = Vector!Idle /\ track' = Vector!Idle
  BY VectorNow, CompactAssumption DEF Vector!InsertCopies, Vector!InsertRange, Vector!InsertOwn
<1>1. ASSUME NEW pos \in 0..size, NEW n \in Nat, NEW t, NEW u, Alike(t, u), Len(t) = n, ~ Vector!TooMany(n),
             Vector!Become(Vector!Splice(buffer, pos, 0, t)), given' = Vector!Splice(given, pos, 0, u)
      PROVE  VectorKept'
  <2>1. pos \in Nat /\ pos + 0 <= Len(buffer)
    BY <1>0
  <2>2. /\ Alike(Vector!Splice(buffer, pos, 0, t), Vector!Splice(given, pos, 0, u))
        /\ Len(Vector!Splice(buffer, pos, 0, t)) = Len(buffer) - 0 + Len(t)
    <3>1. Alike(buffer, given) /\ Alike(t, u) /\ 0 \in Nat
      BY <1>0, <1>1
    <3> QED
      BY <2>1, <3>1, SplicedAlike
  <2>3. Len(buffer) - 0 + Len(t) <= MaxSize
    BY <1>0, <1>1 DEF Vector!TooMany
  <2> QED
    BY <1>0, <1>1, <2>2, <2>3, VectorBecomes
<1>2. CASE Vector!InsertCopies
  <2>1. PICK pos \in 0..size, n \in 0..MaxText, arg \in Vector!Args :
          IF n = 0 \/ Vector!TooMany(n) THEN UNCHANGED <<buffer, size, given>>
          ELSE /\ Vector!Become(Vector!Splice(buffer, pos, 0, Vector!Copies(n, Vector!Given(arg, buffer))))
               /\ given' = Vector!Splice(given, pos, 0, Vector!Copies(n, Vector!Given(arg, given)))
    BY <1>2 DEF Vector!InsertCopies
  <2>2. CASE n = 0 \/ Vector!TooMany(n)
    BY <1>0, <2>1, <2>2, VectorSame
  <2>3. CASE ~ (n = 0 \/ Vector!TooMany(n))
    <3>1. arg \in Plain \cup DOMAIN given /\ n \in Nat
      BY <1>0 DEF Vector!Args, Plain
    <3>2. Vector!Given(arg, given) \in Plain /\ Vector!Given(arg, buffer) \in {Vector!Given(arg, given), Rubbish}
      BY <1>0, <3>1, GivenAlike
    <3>3. /\ Alike(Vector!Copies(n, Vector!Given(arg, buffer)), Vector!Copies(n, Vector!Given(arg, given)))
          /\ Len(Vector!Copies(n, Vector!Given(arg, buffer))) = n
      BY <3>1, <3>2, CopiesAlike
    <3> QED
      BY <1>1, <2>1, <2>3, <3>1, <3>3
  <2> QED
    BY <2>2, <2>3
<1>3. CASE Vector!InsertRange
  <2>1. PICK pos \in 0..size, text \in Vector!Texts :
          IF text = <<>> \/ Vector!TooMany(Len(text)) THEN UNCHANGED <<buffer, size, given>>
          ELSE Vector!Become(Vector!Splice(buffer, pos, 0, text)) /\ given' = Vector!Splice(given, pos, 0, text)
    BY <1>3 DEF Vector!InsertRange
  <2>2. Alike(text, text) /\ Len(text) \in Nat
    BY <1>0, TextAlike
  <2> QED
    BY <1>0, <1>1, <2>1, <2>2, VectorSame
<1>4. CASE Vector!InsertOwn
  <2>1. PICK pos \in 0..size, from \in 0..size, n \in 1..size :
          /\ from + n <= size
          /\ IF Vector!TooMany(n) THEN UNCHANGED <<buffer, size, given>>
             ELSE /\ Vector!Become(Vector!Splice(buffer, pos, 0, SubSeq(buffer, from + 1, from + n)))
                  /\ given' = Vector!Splice(given, pos, 0, SubSeq(given, from + 1, from + n))
    BY <1>4 DEF Vector!InsertOwn
  <2>2. from \in Nat /\ n \in Nat /\ from + n <= Len(buffer)
    BY <1>0, <2>1
  <2>3. /\ Alike(SubSeq(buffer, from + 1, from + n), SubSeq(given, from + 1, from + n))
        /\ Len(SubSeq(buffer, from + 1, from + n)) = n
    BY <1>0, <2>2, PartAlike
  <2> QED
    BY <1>0, <1>1, <2>1, <2>2, <2>3, VectorSame
<1> QED
  BY <1>2, <1>3, <1>4

LEMMA VectorAssigns ==
  ASSUME VectorKept, Vector!AssignCopies \/ Vector!AssignText \/ Vector!AssignRange
  PROVE  VectorKept'
<1>0. Alike(buffer, given) /\ size = Len(buffer) /\ size \in Nat /\ MaxSize \in Nat /\ MaxText \in Nat
      /\ MaxText <= MaxSize /\ size <= MaxSize /\ track = Vector!Idle /\ track' = Vector!Idle
  BY VectorNow, CompactAssumption DEF Vector!AssignCopies, Vector!AssignText, Vector!AssignRange
<1>1. ASSUME NEW t, NEW u, Alike(t, u), Len(t) <= MaxText, Vector!Assign(t), given' = u
      PROVE  VectorKept'
  <2>0. Len(t) \in Nat /\ Len(t) <= MaxSize
    BY <1>0, <1>1 DEF Alike
  <2>1. CASE Len(t) = size
    <3>1. buffer' = t /\ size' = Len(t)
      BY <1>1, <2>1 DEF Vector!Assign
    <3> QED
      BY <1>0, <1>1, <2>0, <3>1 DEF Alike, VectorKept
  <2>2. CASE Len(t) # size
    <3>1. Vector!Become(t)
      BY <1>1, <2>2 DEF Vector!Assign
    <3> QED
      BY <1>0, <1>1, <2>0, <3>1, VectorBecomes
  <2> QED
    BY <2>1, <2>2
<1>2. CASE Vector!AssignCopies
  <2>1. PICK n \in 0..MaxText, arg \in Vector!Args :
          /\ Vector!Assign(Vector!Copies(n, Vector!Given(arg, buffer)))
          /\ given' = Vector!Copies(n, Vector!Given(arg, given))
    BY <1>2 DEF Vector!AssignCopies
  <2>2. arg \in Plain \cup DOMAIN given /\ n \in Nat
    BY <1>0 DEF Vector!Args, Plain
  <2>3. Vector!Given(arg, given) \in Plain /\ Vector!Given(arg, buffer) \in {Vector!Given(arg, given), Rubbish}
    BY <1>0, <2>2, GivenAlike
  <2>4. /\ Alike(Vector!Copies(n, Vector!Given(arg, buffer)), Vector!Copies(n, Vector!Given(arg, given)))
        /\ Len(Vector!Copies(n, Vector!Given(arg, buffer))) = n
    BY <2>2, <2>3, CopiesAlike
  <2>5. n <= MaxText
    BY <1>0
  <2> QED
    BY <1>1, <2>1, <2>4, <2>5
<1>3. CASE Vector!AssignText
  <2>1. PICK text \in Vector!Texts : Vector!Assign(text) /\ given' = text
    BY <1>3 DEF Vector!AssignText
  <2>2. Alike(text, text) /\ Len(text) <= MaxText
    BY <1>0, TextAlike
  <2> QED
    BY <1>1, <2>1, <2>2
<1>4. CASE Vector!AssignRange
  <2>1. PICK text \in Vector!Texts : Vector!Become(text) /\ given' = text
    BY <1>4 DEF Vector!AssignRange
  <2>2. Alike(text, text) /\ Len(text) \in 0..MaxText
    BY TextAlike
  <2>3. Len(text) <= MaxSize
    BY <1>0, <2>2
  <2> QED
    BY <1>0, <2>1, <2>2, <2>3, VectorBecomes
<1> QED
  BY <1>2, <1>3, <1>4

LEMMA ExpandedIs ==
  ASSUME buffer \in Seq(Element), NEW n \in Nat
  PROVE  /\ Vector!Expanded(n) \in Seq(Element) /\ Len(Vector!Expanded(n)) = Len(buffer) + n
         /\ \A i \in 1..Len(buffer) : Vector!Expanded(n)[i] = buffer[i]
<1> DEFINE raw == Vector!Copies(n, Raw)
<1>1. Raw \in Element
  BY DEF Element
<1>2. raw \in Seq(Element) /\ Len(raw) = n
  BY <1>1, CopiesAre
<1>3. Vector!Expanded(n) = buffer \o raw
  BY DEF Vector!Expanded
<1> HIDE DEF raw
<1>4. /\ buffer \o raw \in Seq(Element) /\ Len(buffer \o raw) = Len(buffer) + Len(raw)
      /\ \A i \in 1..(Len(buffer) + Len(raw)) :
           (buffer \o raw)[i] = IF i <= Len(buffer) THEN buffer[i] ELSE raw[i - Len(buffer)]
  BY <1>2, ConcatProperties
<1>5. Len(buffer) \in Nat
  OBVIOUS
<1> QED
  BY <1>2, <1>3, <1>4, <1>5

LEMMA VectorErases == ASSUME VectorKept, Vector!Erase PROVE VectorKept'
<1>0. Alike(buffer, given) /\ size = Len(buffer) /\ size \in Nat /\ MaxSize \in Nat /\ size <= MaxSize
      /\ track = Vector!Idle /\ track' = Vector!Idle
  BY VectorNow DEF Vector!Erase
<1>1. PICK pos \in 0..size, n \in 1..size :
        /\ pos + n <= size
        /\ Vector!Become(Vector!Splice(buffer, pos, n, <<>>))
        /\ given' = Vector!Splice(given, pos, n, <<>>)
  BY DEF Vector!Erase
<1>2. Alike(<<>>, <<>>) /\ Len(<<>>) = 0
  BY EmptySeq DEF Alike
<1>3. pos \in Nat /\ n \in Nat /\ pos + n <= Len(buffer)
  BY <1>0, <1>1
<1>4. Alike(buffer, given)
  BY <1>0
<1> DEFINE none == <<>>
<1>5. Alike(none, none) /\ Len(none) = 0
  BY <1>2
<1> HIDE DEF none
<1>6. /\ Alike(Vector!Splice(buffer, pos, n, none), Vector!Splice(given, pos, n, none))
      /\ Len(Vector!Splice(buffer, pos, n, none)) = Len(buffer) - n + Len(none)
  <2>1. Alike(none, none)
    BY <1>5
  <2> QED
    BY <1>3, <1>4, <2>1, SplicedAlike, SMTT(60)
<1>7. Len(buffer) - n + Len(none) <= MaxSize
  BY <1>0, <1>3, <1>5
<1>8. Vector!Become(Vector!Splice(buffer, pos, n, none)) /\ given' = Vector!Splice(given, pos, n, none)
  BY <1>1 DEF none
<1> QED
  BY <1>0, <1>6, <1>7, <1>8, VectorBecomes

LEMMA VectorEmplaces == ASSUME VectorKept, Vector!EmplaceBack PROVE VectorKept'
<1>0. Alike(buffer, given) /\ size = Len(buffer) /\ size \in Nat /\ MaxSize \in Nat /\ size <= MaxSize
      /\ track = Vector!Idle /\ track' = Vector!Idle
  BY VectorNow DEF Vector!EmplaceBack
<1> DEFINE last(arg) == IF arg \in DOMAIN buffer THEN Rubbish ELSE arg
           b(arg) == [Vector!Expanded(1) EXCEPT ![size + 1] = last(arg)]
           e(arg) == Append(given, Vector!Given(arg, given))
<1>1. PICK arg \in Vector!Args :
        IF Vector!TooMany(1) THEN UNCHANGED <<buffer, size, given>>
        ELSE Vector!Become(b(arg)) /\ given' = e(arg)
  BY DEF Vector!EmplaceBack
<1>2. CASE Vector!TooMany(1)
  BY <1>0, <1>1, <1>2, VectorSame
<1>3. CASE ~ Vector!TooMany(1)
  <2>1. arg \in Plain \cup DOMAIN given
    BY DEF Vector!Args, Plain
  <2>2. Vector!Given(arg, given) \in Plain
    BY <1>0, <2>1, GivenAlike
  <2>3. buffer \in Seq(Element) /\ given \in Seq(Plain) /\ Len(given) = Len(buffer)
        /\ \A i \in 1..Len(given) : buffer[i] \in {given[i], Rubbish}
    BY <1>0 DEF Alike
  <2>4. last(arg) \in {Vector!Given(arg, given), Rubbish} /\ last(arg) \in Element
    <3>1. DOMAIN buffer = DOMAIN given
      BY <2>3
    <3>2. last(arg) \in {Vector!Given(arg, given), Rubbish}
      BY <3>1 DEF Vector!Given
    <3> QED
      BY <2>2, <3>2 DEF Element, Plain
  <2>5. /\ Vector!Expanded(1) \in Seq(Element) /\ Len(Vector!Expanded(1)) = Len(buffer) + 1
        /\ \A i \in 1..Len(buffer) : Vector!Expanded(1)[i] = buffer[i]
    BY <2>3, ExpandedIs
  <2> DEFINE x == Vector!Expanded(1)
             y == last(arg)
  <2>6. [x EXCEPT ![size + 1] = y] \in Seq(Element) /\ Len([x EXCEPT ![size + 1] = y]) = size + 1
        /\ [x EXCEPT ![size + 1] = y][size + 1] = y
        /\ \A i \in 1..size : [x EXCEPT ![size + 1] = y][i] = buffer[i]
    <3> HIDE DEF x, y
    <3>1. x \in Seq(Element) /\ Len(x) = size + 1 /\ y \in Element
      BY <1>0, <2>4, <2>5 DEF x, y
    <3>2. \A i \in 1..size : x[i] = buffer[i] /\ i # size + 1 /\ i \in 1..(size + 1)
      BY <1>0, <2>5 DEF x
    <3> QED
      BY <1>0, <3>1, <3>2
  <2>7. /\ e(arg) \in Seq(Plain) /\ Len(e(arg)) = size + 1
        /\ e(arg)[size + 1] = Vector!Given(arg, given) /\ \A i \in 1..size : e(arg)[i] = given[i]
    BY <1>0, <2>2, <2>3, AppendProperties
  <2>8. \A i \in 1..(size + 1) : i \in 1..size \/ i = size + 1
    BY <1>0
  <2>9. b(arg) = [x EXCEPT ![size + 1] = y]
    OBVIOUS
  <2> HIDE DEF b, e, last, x, y
  <2>10. \A i \in 1..(size + 1) : b(arg)[i] \in {e(arg)[i], Rubbish}
    <3>1. \A i \in 1..size : b(arg)[i] \in {e(arg)[i], Rubbish}
      BY <1>0, <2>3, <2>6, <2>7, <2>9
    <3>2. b(arg)[size + 1] \in {e(arg)[size + 1], Rubbish}
      BY <2>4, <2>6, <2>7, <2>9 DEF y
    <3> QED
      BY <2>8, <3>1, <3>2
  <2>11. Alike(b(arg), e(arg)) /\ Len(b(arg)) <= MaxSize
    <3>1. size + 1 <= MaxSize
      BY <1>0, <1>3 DEF Vector!TooMany
    <3> QED
      BY <2>6, <2>7, <2>9, <2>10, <3>1 DEF Alike
  <2> QED
    BY <1>0, <1>1, <1>3, <2>11, VectorBecomes
<1> QED
  BY <1>2, <1>3

LEMMA VectorReads ==
  ASSUME VectorKept, Vector!ReadFirst \/ Vector!ReadElement \/ Vector!ReadExpand \/ Vector!ReadEnd
  PROVE  VectorKept'
<1>0. /\ MaxSize \in Nat /\ Initial \in Nat \ {0} /\ Initial <= MaxSize
      /\ buffer \in Seq(Element) /\ given \in Seq(Plain) /\ size = Len(buffer) /\ size \in Nat /\ size <= MaxSize
      /\ \A i \in 1..Len(given) : buffer[i] \in {given[i], Rubbish}
      /\ Vector!Idle = <<>> /\ Len(given) \in Nat
  BY CompactAssumption DEF VectorKept, Vector!Idle
<1>1. ASSUME track # Vector!Idle PROVE track = <<size>> /\ track[1] = size /\ size > 0 /\ Len(given) <= size
  BY <1>1 DEF VectorKept
<1>2. CASE Vector!ReadFirst
  <2>1. Raw \in Element
    BY DEF Element
  <2> DEFINE raw == Vector!Copies(Initial, Raw)
  <2>2. raw \in Seq(Element) /\ Len(raw) = Initial
    BY <1>0, <2>1, CopiesAre
  <2>3. Vector!Become(raw) /\ given' = <<>> /\ track' = <<Initial>>
    BY <1>2 DEF Vector!ReadFirst
  <2> HIDE DEF raw
  <2>4. Initial % (MaxSize + 1) = Initial
    BY <1>0
  <2>5. buffer' = raw /\ size' = Initial
    BY <2>2, <2>3, <2>4 DEF Vector!Become
  <2>6. <<>> \in Seq(Plain) /\ Len(<<>>) = 0
    BY EmptySeq
  <2> QED
    BY <1>0, <2>2, <2>3, <2>5, <2>6 DEF VectorKept, Vector!Idle
<1>3. CASE Vector!ReadElement
  <2>1. PICK v \in Plain :
          /\ track # Vector!Idle /\ Len(given) < size
          /\ buffer' = [buffer EXCEPT ![Len(given) + 1] = v]
          /\ given' = Append(given, v)
          /\ size' = size /\ track' = track
    BY <1>3 DEF Vector!ReadElement, Plain
  <2> DEFINE k == Len(given) + 1
  <2>2. k \in 1..Len(buffer) /\ k \in Nat /\ v \in Element
    BY <1>0, <2>1 DEF Element, Plain
  <2>3. /\ given' \in Seq(Plain) /\ Len(given') = k
        /\ given'[k] = v /\ \A i \in 1..Len(given) : given'[i] = given[i]
    BY <1>0, <2>1, AppendProperties
  <2>4. /\ buffer' \in Seq(Element) /\ Len(buffer') = Len(buffer) /\ buffer'[k] = v
        /\ \A i \in 1..Len(buffer) : i # k => buffer'[i] = buffer[i]
    <3> HIDE DEF k
    <3>1. buffer' = [buffer EXCEPT ![k] = v]
      BY <2>1 DEF k
    <3> QED
      BY <1>0, <2>2, <3>1
  <2>5. ASSUME NEW i \in 1..Len(given') PROVE buffer'[i] \in {given'[i], Rubbish}
    <3>1. CASE i = k
      BY <2>3, <2>4, <3>1
    <3>2. CASE i # k
      <4>1. i \in 1..Len(given) /\ i \in 1..Len(buffer)
        BY <1>0, <2>1, <2>3, <3>2
      <4> QED
        BY <1>0, <2>3, <2>4, <3>2, <4>1
    <3> QED
      BY <3>1, <3>2
  <2>6. track' = <<size'>> /\ size' > 0 /\ Len(given') <= Len(buffer') /\ size' = Len(buffer') /\ size' <= MaxSize
    <3>1. Len(given') <= Len(buffer')
      BY <1>0, <2>2, <2>3, <2>4
    <3> QED
      BY <1>0, <1>1, <2>1, <2>4, <3>1
  <2> HIDE DEF k
  <2> QED
    BY <2>3, <2>4, <2>5, <2>6 DEF VectorKept
<1>4. CASE Vector!ReadExpand
  <2>1. track # Vector!Idle /\ Len(given) = size /\ given' = given
    BY <1>4 DEF Vector!ReadExpand
  <2>2. track = <<size>> /\ track[1] = size /\ size > 0
    BY <1>1, <2>1
  <2>3. CASE Vector!TooMany(size)
    <3>1. track' = Vector!Idle /\ buffer' = buffer /\ size' = size
      BY <1>4, <2>2, <2>3 DEF Vector!ReadExpand
    <3> QED
      BY <1>0, <2>1, <3>1 DEF VectorKept, Vector!Idle
  <2>4. CASE ~ Vector!TooMany(size)
    <3>1. Vector!Become(Vector!Expanded(size)) /\ track' = <<2 * size>>
      BY <1>4, <2>2, <2>4 DEF Vector!ReadExpand
    <3>2. /\ Vector!Expanded(size) \in Seq(Element) /\ Len(Vector!Expanded(size)) = Len(buffer) + size
          /\ \A i \in 1..Len(buffer) : Vector!Expanded(size)[i] = buffer[i]
      BY <1>0, ExpandedIs
    <3>3. Len(buffer) + size = 2 * size /\ 2 * size <= MaxSize /\ 2 * size \in Nat
      BY <1>0, <2>4 DEF Vector!TooMany
    <3>4. (2 * size) % (MaxSize + 1) = 2 * size
      BY <1>0, <3>3
    <3>5. buffer' = Vector!Expanded(size) /\ size' = 2 * size
      BY <3>1, <3>2, <3>3, <3>4 DEF Vector!Become
    <3>6. buffer' \in Seq(Element) /\ size' = Len(buffer') /\ Len(given') = size /\ size' <= MaxSize
          /\ track' = <<size'>> /\ size' > 0 /\ Len(given') <= Len(buffer')
      BY <1>0, <2>1, <2>2, <3>1, <3>2, <3>3, <3>5
    <3>7. \A i \in 1..Len(given') : buffer'[i] \in {given'[i], Rubbish}
      BY <1>0, <2>1, <3>2, <3>5
    <3> QED
      BY <1>0, <2>1, <3>6, <3>7 DEF VectorKept
  <2> QED
    BY <2>3, <2>4
<1>5. CASE Vector!ReadEnd
  <2>1. /\ track # Vector!Idle /\ given # <<>>
        /\ Vector!Become(Vector!Splice(buffer, Len(given), track[1] - Len(given), <<>>))
        /\ track' = Vector!Idle /\ given' = given
    BY <1>5 DEF Vector!ReadEnd
  <2>2. track[1] = size /\ Len(given) <= size
    BY <1>1, <2>1
  <2> DEFINE n == size - Len(given)
             none == <<>>
             b == Vector!Splice(buffer, Len(given), n, none)
  <2>3. n \in Nat /\ Len(given) + n <= Len(buffer) /\ Len(buffer) - n = Len(given)
    BY <1>0, <2>2
  <2>4. none \in Seq(Element) /\ Len(none) = 0
    BY EmptySeq
  <2>5. Vector!Become(b)
    BY <2>1, <2>2
  <2> HIDE DEF none, n
  <2>6. /\ b \in Seq(Element) /\ Len(b) = Len(buffer) - n + Len(none)
        /\ \A i \in 1..(Len(buffer) - n + Len(none)) :
             b[i] = IF i <= Len(given) THEN buffer[i]
                    ELSE IF i <= Len(given) + Len(none) THEN none[i - Len(given)] ELSE buffer[i - Len(none) + n]
    <3> DEFINE g == Len(given)
               c == Vector!Splice(buffer, g, n, none)
    <3>1. buffer \in Seq(Element) /\ none \in Seq(Element) /\ g \in Nat /\ n \in Nat /\ g + n <= Len(buffer)
      BY <1>0, <2>3, <2>4
    <3>2. b = c
      OBVIOUS
    <3> HIDE DEF g, b
    <3>3. /\ c \in Seq(Element) /\ Len(c) = Len(buffer) - n + Len(none)
          /\ \A i \in 1..(Len(buffer) - n + Len(none)) :
               c[i] = IF i <= g THEN buffer[i]
                      ELSE IF i <= g + Len(none) THEN none[i - g] ELSE buffer[i - Len(none) + n]
      BY <3>1, SplicedIs
    <3> HIDE DEF c
    <3> QED
      BY <3>2, <3>3 DEF g
  <2> HIDE DEF b
  <2>7. Len(b) = Len(given) /\ \A i \in 1..Len(given) : b[i] = buffer[i]
    <3>1. Len(buffer) - n + Len(none) = Len(given)
      BY <1>0, <2>3, <2>4
    <3>2. \A i \in 1..Len(given) : i <= Len(given)
      BY <1>0
    <3> QED
      BY <2>6, <3>1, <3>2
  <2>8. Alike(b, given)
    BY <1>0, <2>6, <2>7 DEF Alike
  <2> QED
    BY <1>0, <2>1, <2>2, <2>5, <2>7, <2>8, VectorBecomes
<1> QED
  BY <1>2, <1>3, <1>4, <1>5

LEMMA VectorStays == ASSUME VectorKept, Vector!Next PROVE VectorKept'
<1>1. CASE Vector!Clear
  <2>1. /\ Vector!Become(<<>>) /\ given' = <<>> /\ track' = Vector!Idle
    BY <1>1 DEF Vector!Clear
  <2>2. Alike(<<>>, <<>>) /\ Len(<<>>) = 0 /\ 0 <= MaxSize
    BY EmptySeq, CompactAssumption DEF Alike
  <2> QED
    BY <2>1, <2>2, VectorBecomes
<1> QED
  BY <1>1, VectorInserts, VectorAssigns, VectorErases, VectorEmplaces, VectorReads DEF Vector!Next

LEMMA VectorGood == ASSUME VectorKept PROVE Vector!ContentsExact /\ Vector!BlockExact
<1>1. ASSUME track = Vector!Idle
      PROVE  Len(buffer) = Len(given) /\ \A i \in DOMAIN buffer : buffer[i] \in {given[i], Rubbish}
  <2>1. Alike(buffer, given)
    BY <1>1, VectorNow
  <2> QED
    BY <2>1 DEF Alike
<1> QED
  BY <1>1 DEF VectorKept, Vector!ContentsExact, Vector!BlockExact

-----------------------------------------------------------------------------
(* compact::string: the cells, in the word or in a block with one place more than the       *)
(* characters, hold what they should, and the terminator unless a range left none; while a  *)
(* range is read there is a block, of the size of the loop.                                 *)

Glyph == {key_a, key_b, Nul, Raw}

\* The last place of the cells of a string of n characters.
Room(n) == IF n + 1 <= Local THEN Local - 1 ELSE n

StringKept ==
  /\ size \in Nat /\ size <= MaxSize /\ given \in Seq(Plain)
  /\ IF size + 1 <= Local THEN buffer = <<>> /\ storage \in [0..(Local - 1) -> Glyph]
                          ELSE storage = <<>> /\ buffer \in [0..size -> Glyph]
  /\ \/ track \in {String!Idle, String!Open} /\ Len(given) = size
     \/ track = <<size>> /\ size >= Local /\ Len(given) <= size
  /\ \A i \in 0..(Len(given) - 1) : String!Data[i] = given[i + 1]
  /\ track = String!Idle => String!Data[size] = Nul

LEMMA StringTypes ==
  /\ Local \in Nat \ {0} /\ MaxSize \in Nat /\ MaxText \in Nat /\ Local + 1 <= MaxSize
  /\ \A n \in Nat : Room(n) \in Nat /\ n <= Room(n)
  /\ Plain \subseteq Glyph /\ Nul \in Glyph /\ Raw \in Glyph
BY CompactAssumption DEF Room, Glyph, Plain

LEMMA StringCells ==
  ASSUME StringKept
  PROVE  /\ String!Data \in [0..Room(size) -> Glyph]
         /\ String!Chars \in [0..(Local - 1) -> Glyph]
         /\ size + 1 <= Local => String!Chars = String!Data
<1>1. Local \in Nat \ {0} /\ Raw \in Glyph /\ size \in Nat
  BY StringTypes DEF StringKept
<1>2. String!Fresh(Local) \in [0..(Local - 1) -> Glyph]
  BY <1>1 DEF String!Fresh
<1>3. CASE size + 1 <= Local
  <2>1. storage \in [0..(Local - 1) -> Glyph]
    BY <1>3 DEF StringKept
  <2>2. storage # <<>>
    <3>1. 0 \in DOMAIN storage
      BY <1>1, <2>1
    <3>2. DOMAIN <<>> = {}
      OBVIOUS
    <3> QED
      BY <3>1, <3>2
  <2> QED
    BY <1>1, <1>3, <2>1, <2>2 DEF String!Data, String!Chars, String!FitLocal, String!Address, Room
<1>4. CASE ~ (size + 1 <= Local)
  <2>1. storage = <<>> /\ buffer \in [0..size -> Glyph]
    BY <1>4 DEF StringKept
  <2> QED
    BY <1>1, <1>2, <1>4, <2>1 DEF String!Data, String!Chars, String!FitLocal, String!Address, Room
<1> QED
  BY <1>3, <1>4

LEMMA SpaceIs ==
  ASSUME StringKept, NEW n \in Nat
  PROVE  String!Space(n + 1) \in [0..Room(n) -> Glyph]
<1>1. Local \in Nat \ {0} /\ Raw \in Glyph
  BY StringTypes
<1>2. CASE n + 1 <= Local
  BY <1>2, StringCells DEF String!Space, String!FitLocal, Room
<1>3. CASE ~ (n + 1 <= Local)
  <2>1. String!Fresh(n + 1) \in [0..n -> Glyph]
    <3>1. (n + 1) - 1 = n
      OBVIOUS
    <3> QED
      BY <1>1, <3>1 DEF String!Fresh
  <2> QED
    BY <1>3, <2>1 DEF String!Space, String!FitLocal, Room
<1> QED
  BY <1>2, <1>3

\* n cells from one on.
LEMMA CutIs ==
  ASSUME NEW cells, NEW from \in Nat, NEW n \in Nat, \A i \in 1..n : cells[from + i - 1] \in Glyph
  PROVE  /\ String!Cut(cells, from, n) \in Seq(Glyph) /\ Len(String!Cut(cells, from, n)) = n
         /\ \A i \in 1..n : String!Cut(cells, from, n)[i] = cells[from + i - 1]
<1>1. String!Cut(cells, from, n) \in [1..n -> Glyph]
  BY DEF String!Cut
<1>2. \A i \in 1..n : String!Cut(cells, from, n)[i] = cells[from + i - 1]
  BY DEF String!Cut
<1> QED
  BY <1>1, <1>2

\* Cells with others written over them.
LEMMA WriteIs ==
  ASSUME NEW last \in Nat, NEW cells \in [0..last -> Glyph], NEW at \in Nat, NEW text \in Seq(Glyph)
  PROVE  /\ String!Write(cells, at, text) \in [0..last -> Glyph]
         /\ \A i \in 0..last : String!Write(cells, at, text)[i] =
              IF at <= i /\ i < at + Len(text) THEN text[(i - at) + 1] ELSE cells[i]
<1>1. Len(text) \in Nat /\ DOMAIN cells = 0..last
  OBVIOUS
<1>2. ASSUME NEW i \in 0..last
      PROVE  /\ (i - at \in 0..(Len(text) - 1) /\ i >= at) <=> (at <= i /\ i < at + Len(text))
             /\ at <= i /\ i < at + Len(text) => (i - at) + 1 \in 1..Len(text)
  BY <1>1
<1>3. \A i \in 1..Len(text) : text[i] \in Glyph
  BY ElementOfSeq
<1>4. ASSUME NEW i \in 0..last
      PROVE  String!Write(cells, at, text)[i] =
               IF at <= i /\ i < at + Len(text) THEN text[(i - at) + 1] ELSE cells[i]
  BY <1>1, <1>2 DEF String!Write
<1>5. \A i \in 0..last : String!Write(cells, at, text)[i] \in Glyph
  BY <1>2, <1>3, <1>4
<1>6. String!Write(cells, at, text) \in [0..last -> Glyph]
  BY <1>1, <1>5 DEF String!Write
<1> QED
  BY <1>4, <1>6

LEMMA StringBecomes ==
  ASSUME NEW n \in Nat, n <= MaxSize, NEW cells \in [0..Room(n) -> Glyph], NEW e \in Seq(Plain), Len(e) = n,
         \A i \in 0..(n - 1) : cells[i] = e[i + 1],
         String!Become(cells, n), given' = e
  PROVE  StringKept'
<1>1. Room(n) \in Nat /\ n <= Room(n) /\ n \in 0..Room(n) /\ Nul \in Glyph /\ Local \in Nat \ {0}
  BY StringTypes
<1> DEFINE ended == [cells EXCEPT ![n] = Nul]
<1>2. ended \in [0..Room(n) -> Glyph] /\ ended[n] = Nul /\ \A i \in 0..(n - 1) : ended[i] = cells[i]
  <2>1. \A i \in 0..(n - 1) : i \in 0..Room(n) /\ i # n
    BY <1>1
  <2> QED
    BY <1>1, <2>1
<1>3. /\ IF n + 1 <= Local THEN storage' = ended /\ buffer' = <<>> ELSE storage' = <<>> /\ buffer' = ended
      /\ size' = n /\ track' = String!Idle /\ given' = e
  BY DEF String!Become, String!FitLocal, String!NoBlock, String!Address
<1> HIDE DEF ended
<1>4. ended # <<>>
  <2>1. 0 \in DOMAIN ended
    BY <1>1, <1>2
  <2>2. DOMAIN <<>> = {}
    OBVIOUS
  <2> QED
    BY <2>1, <2>2
<1>5. String!Data' = ended
  <2>1. CASE n + 1 <= Local
    BY <1>3, <1>4, <2>1 DEF String!Data, String!Chars, String!FitLocal, String!Address
  <2>2. CASE ~ (n + 1 <= Local)
    BY <1>3, <2>2 DEF String!Data, String!FitLocal
  <2> QED
    BY <2>1, <2>2
<1>6. \A i \in 0..(Len(given') - 1) : String!Data'[i] = given'[i + 1]
  BY <1>2, <1>3, <1>5
<1>7. track' = String!Idle => String!Data'[size'] = Nul
  BY <1>2, <1>3, <1>5
<1>8. IF size' + 1 <= Local THEN buffer' = <<>> /\ storage' \in [0..(Local - 1) -> Glyph]
                            ELSE storage' = <<>> /\ buffer' \in [0..size' -> Glyph]
  BY <1>2, <1>3 DEF Room
<1> QED
  BY <1>3, <1>6, <1>7, <1>8 DEF StringKept, String!Idle

LEMMA StringClears == ASSUME String!Clear, given' = <<>> PROVE StringKept'
<1>1. Local \in Nat \ {0} /\ MaxSize \in Nat /\ Nul \in Glyph
  BY StringTypes
<1>2. storage' = String!Empty /\ buffer' = <<>> /\ size' = 0 /\ track' = String!Idle
  BY DEF String!Clear, String!NoBlock
<1>3. String!Empty \in [0..(Local - 1) -> Glyph] /\ String!Empty[0] = Nul
  BY <1>1 DEF String!Empty
<1>4. String!Empty # <<>>
  <2>1. 0 \in DOMAIN String!Empty
    BY <1>1, <1>3
  <2>2. DOMAIN <<>> = {}
    OBVIOUS
  <2> QED
    BY <2>1, <2>2
<1>5. String!Data' = String!Empty
  BY <1>1, <1>2, <1>4 DEF String!Data, String!Chars, String!FitLocal, String!Address
<1>6. <<>> \in Seq(Plain) /\ Len(<<>>) = 0
  BY EmptySeq
<1> QED
  BY <1>1, <1>2, <1>3, <1>5, <1>6 DEF StringKept, String!Idle

LEMMA StringStarts == ASSUME String!Init PROVE StringKept
<1>1. Local \in Nat \ {0} /\ MaxSize \in Nat /\ Nul \in Glyph
  BY StringTypes
<1>2. storage = String!Empty /\ buffer = <<>> /\ size = 0 /\ track = String!Idle /\ given = <<>>
  BY DEF String!Init, String!NoBlock
<1>3. String!Empty \in [0..(Local - 1) -> Glyph] /\ String!Empty[0] = Nul
  BY <1>1 DEF String!Empty
<1>4. String!Empty # <<>>
  <2>1. 0 \in DOMAIN String!Empty
    BY <1>1, <1>3
  <2>2. DOMAIN <<>> = {}
    OBVIOUS
  <2> QED
    BY <2>1, <2>2
<1>5. String!Data = String!Empty
  BY <1>1, <1>2, <1>4 DEF String!Data, String!Chars, String!FitLocal, String!Address
<1>6. <<>> \in Seq(Plain) /\ Len(<<>>) = 0
  BY EmptySeq
<1> QED
  BY <1>1, <1>2, <1>3, <1>5, <1>6 DEF StringKept, String!Idle

LEMMA StringIdle ==
  ASSUME StringKept, String!NotReading
  PROVE  /\ Len(given) = size /\ size \in Nat /\ given \in Seq(Plain) /\ track \in {String!Idle, String!Open}
         /\ \A i \in 0..(size - 1) : String!Data[i] = given[i + 1]
<1>1. Local \in Nat \ {0}
  BY StringTypes
<1>2. track \in {String!Idle, String!Open}
  BY DEF String!NotReading
<1>3. ~ (track = <<size>> /\ size >= Local)
  <2> SUFFICES ASSUME track = <<size>>, size >= Local PROVE FALSE
    OBVIOUS
  <2>1. Len(track) = 1 /\ track[1] = size
    OBVIOUS
  <2>2. track # String!Idle
    BY <2>1 DEF String!Idle
  <2>3. track # String!Open
    BY <1>1, <2>1 DEF String!Open, StringKept
  <2> QED
    BY <1>2, <2>2, <2>3
<1> QED
  BY <1>2, <1>3 DEF StringKept

LEMMA StringSame ==
  ASSUME StringKept, UNCHANGED <<storage, buffer, size, given, track>>
  PROVE  StringKept'
BY DEF StringKept, String!Idle, String!Open, String!Data, String!Chars, String!FitLocal, String!Address, String!Fresh

\* __insert at the end of the string.
LEMMA StringAppends ==
  ASSUME StringKept, String!NotReading, NEW text \in Seq(Plain), String!Insert(size, text),
         given' = IF size + Len(text) > MaxSize THEN given ELSE given \o text
  PROVE  StringKept'
<1> DEFINE n == Len(text)
           total == size + n
           local == String!FitLocal(total + 1)
           space == String!Space(total + 1)
           begun == IF local THEN space ELSE String!Write(space, 0, String!Cut(String!Data, 0, size))
           moved == String!Write(begun, size, text)
           rest  == String!Cut(IF local THEN moved ELSE String!Data, size, size - size)
           all   == String!Write(moved, n, rest)
<1>0. /\ Len(given) = size /\ size \in Nat /\ given \in Seq(Plain)
      /\ \A i \in 0..(size - 1) : String!Data[i] = given[i + 1]
      /\ n \in Nat /\ MaxSize \in Nat /\ Local \in Nat \ {0} /\ text \in Seq(Glyph)
  BY StringIdle, StringTypes, SeqMonotonic
<1>1. CASE n = 0 \/ total > MaxSize
  <2>1. UNCHANGED <<storage, buffer, size, track>>
    BY <1>1 DEF String!Insert
  <2>2. given' = given
    <3>1. n = 0 => text = <<>>
      BY EmptySeq
    <3>2. given \o <<>> = given
      BY <1>0, ConcatEmptySeq
    <3> QED
      BY <1>1, <3>1, <3>2
  <2> QED
    BY <2>1, <2>2, StringSame
<1>2. CASE ~ (n = 0 \/ total > MaxSize)
  <2>1. String!Become(all, total)
    BY <1>2 DEF String!Insert
  <2> HIDE DEF n
  <2>2. total \in Nat /\ total <= MaxSize /\ size <= total /\ Room(total) \in Nat /\ total <= Room(total)
    BY <1>0, <1>2, StringTypes
  <2> HIDE DEF total
  <2>3. space \in [0..Room(total) -> Glyph]
    BY <2>2, SpaceIs
  <2>4. String!Data \in [0..Room(size) -> Glyph] /\ Room(size) \in Nat /\ size <= Room(size)
    BY <1>0, StringCells, StringTypes
  <2> HIDE DEF space
  <2>5. begun \in [0..Room(total) -> Glyph] /\ \A i \in 0..(size - 1) : begun[i] = String!Data[i]
    <3>1. CASE local
      <4>1. total + 1 <= Local /\ size + 1 <= Local
        BY <1>0, <2>2, <3>1 DEF String!FitLocal
      <4>2. space = String!Data
        BY <4>1, StringCells DEF space, String!Space, String!FitLocal
      <4> QED
        BY <2>3, <3>1, <4>2
    <3>2. CASE ~ local
      <4> DEFINE cut == String!Cut(String!Data, 0, size)
      <4>1. cut \in Seq(Glyph) /\ Len(cut) = size /\ \A i \in 1..size : cut[i] = String!Data[0 + i - 1]
        <5>1. 0 \in Nat /\ size \in Nat /\ \A i \in 1..size : 0 + i - 1 \in 0..Room(size)
          BY <1>0, <2>4
        <5>2. \A i \in 1..size : String!Data[0 + i - 1] \in Glyph
          BY <2>4, <5>1
        <5> QED
          BY ONLY <5>1, <5>2, CutIs
      <4>2. begun = String!Write(space, 0, cut)
        BY <3>2
      <4> HIDE DEF cut, begun
      <4>3. /\ begun \in [0..Room(total) -> Glyph]
            /\ \A i \in 0..Room(total) : begun[i] = IF 0 <= i /\ i < 0 + Len(cut) THEN cut[(i - 0) + 1] ELSE space[i]
        <5>1. Room(total) \in Nat /\ space \in [0..Room(total) -> Glyph] /\ 0 \in Nat /\ cut \in Seq(Glyph)
          BY <2>2, <2>3, <4>1
        <5> QED
          BY ONLY <5>1, <4>2, WriteIs
      <4>4. ASSUME NEW i \in 0..(size - 1) PROVE begun[i] = String!Data[i]
        <5>1. i \in 0..Room(total) /\ 0 <= i /\ i < 0 + size /\ (i - 0) + 1 \in 1..size /\ 0 + ((i - 0) + 1) - 1 = i
          BY <1>0, <2>2
        <5>2. begun[i] = cut[(i - 0) + 1]
          BY <4>1, <4>3, <5>1
        <5>3. cut[(i - 0) + 1] = String!Data[0 + ((i - 0) + 1) - 1]
          BY <4>1, <5>1
        <5> QED
          BY <5>1, <5>2, <5>3
      <4> QED
        BY <4>3, <4>4
    <3> QED
      BY <3>1, <3>2
  <2> HIDE DEF begun
  <2>6. /\ moved \in [0..Room(total) -> Glyph]
        /\ \A i \in 0..Room(total) :
             moved[i] = IF size <= i /\ i < size + n THEN text[(i - size) + 1] ELSE begun[i]
    <3>1. /\ Room(total) \in Nat /\ begun \in [0..Room(total) -> Glyph] /\ size \in Nat /\ text \in Seq(Glyph)
      BY <1>0, <2>2, <2>5
    <3> QED
      BY ONLY <3>1, WriteIs DEF n, moved
  <2> HIDE DEF moved
  <2>7. rest \in Seq(Glyph) /\ Len(rest) = 0
    <3> DEFINE cells == IF local THEN moved ELSE String!Data
    <3>1. rest = String!Cut(cells, size, 0)
      <4>1. size - size = 0
        BY <1>0
      <4> QED
        BY <4>1
    <3> HIDE DEF cells, rest
    <3>2. size \in Nat /\ 0 \in Nat /\ \A i \in 1..0 : cells[size + i - 1] \in Glyph
      BY <1>0
    <3> QED
      BY ONLY <3>1, <3>2, CutIs
  <2> HIDE DEF rest, local
  <2>8. /\ all \in [0..Room(total) -> Glyph]
        /\ \A i \in 0..Room(total) : all[i] = IF n <= i /\ i < n + Len(rest) THEN rest[(i - n) + 1] ELSE moved[i]
    <3>1. Room(total) \in Nat /\ moved \in [0..Room(total) -> Glyph] /\ n \in Nat /\ rest \in Seq(Glyph)
      BY <1>0, <2>2, <2>6, <2>7 DEF n
    <3> QED
      BY ONLY <3>1, WriteIs DEF all
  <2>9. \A i \in 0..Room(total) : all[i] = moved[i]
    <3>1. \A i \in 0..Room(total) : ~ (n <= i /\ i < n + Len(rest))
      BY <1>0, <2>2, <2>7
    <3> QED
      BY <2>8, <3>1
  <2> HIDE DEF all
  <2> DEFINE e == given \o text
  <2>10. e \in Seq(Plain) /\ Len(e) = size + n
         /\ \A i \in 1..(size + n) : e[i] = IF i <= size THEN given[i] ELSE text[i - size]
    BY <1>0, ConcatProperties DEF n
  <2>11. given' = e
    BY <1>2 DEF n, total
  <2> HIDE DEF e
  <2>12. ASSUME NEW i \in 0..(total - 1) PROVE all[i] = e[i + 1]
    <3>1. i \in 0..Room(total) /\ i + 1 \in 1..(size + n) /\ total = size + n
      BY <1>0, <2>2 DEF total
    <3>2. CASE i < size
      <4>1. i \in 0..(size - 1) /\ i + 1 <= size /\ ~ (size <= i)
        BY <1>0, <3>1, <3>2
      <4>2. all[i] = given[i + 1]
        BY <1>0, <2>5, <2>6, <2>9, <3>1, <4>1
      <4> QED
        BY <2>10, <3>1, <4>1, <4>2
    <3>3. CASE ~ (i < size)
      <4>1. size <= i /\ i < size + n /\ ~ (i + 1 <= size) /\ (i - size) + 1 = (i + 1) - size
        BY <1>0, <3>1, <3>3
      <4>2. all[i] = text[(i - size) + 1]
        BY <2>6, <2>9, <3>1, <4>1
      <4> QED
        BY <2>10, <3>1, <4>1, <4>2
    <3> QED
      BY <3>2, <3>3
  <2>13. Len(e) = total
    BY <2>10 DEF total
  <2> QED
    BY <2>1, <2>2, <2>8, <2>10, <2>11, <2>12, <2>13, StringBecomes
<1> QED
  BY <1>1, <1>2

\* __erase, of what is there, at the end of which is the terminator.
LEMMA StringErases ==
  ASSUME StringKept, NEW pos \in Nat, NEW n \in Nat \ {0}, NEW e \in Seq(Plain),
         String!Erase(pos, n), given' = e, pos <= size, pos + n <= size + 1, n <= size, Len(e) = size - n,
         \A i \in 0..((size - n) - 1) : e[i + 1] = String!Data[IF i < pos THEN i ELSE i + n]
  PROVE  StringKept'
<1> DEFINE kept == size - n
           space == String!Space(kept + 1)
           front == String!Cut(String!Data, 0, pos)
           back  == String!Cut(String!Data, pos + n, size + 1 - pos - n)
           begun == String!Write(space, 0, front)
           all   == String!Write(begun, pos, back)
<1>0. /\ size \in Nat /\ size <= MaxSize /\ kept \in Nat /\ kept <= MaxSize /\ MaxSize \in Nat
      /\ Room(kept) \in Nat /\ kept <= Room(kept) /\ Room(size) \in Nat /\ size <= Room(size)
      /\ String!Data \in [0..Room(size) -> Glyph]
  <2>1. size \in Nat /\ size <= MaxSize /\ MaxSize \in Nat
    BY StringTypes DEF StringKept
  <2>2. kept \in Nat /\ kept <= MaxSize
    BY <2>1
  <2> HIDE DEF kept
  <2> QED
    BY <2>1, <2>2, StringTypes, StringCells
<1>1. CASE kept = 0
  <2>1. String!Clear
    <3>1. ~ (n = 0 \/ pos + n > size + 1)
      BY <1>0
    <3> QED
      BY <1>1, <3>1 DEF String!Erase
  <2>2. given' = <<>>
    BY <1>1, EmptySeq
  <2> QED
    BY <2>1, <2>2, StringClears
<1>2. CASE kept # 0
  <2>1. String!Become(all, kept)
    <3>1. ~ (n = 0 \/ pos + n > size + 1)
      BY <1>0
    <3> QED
      BY <1>2, <3>1 DEF String!Erase
  <2>2. space \in [0..Room(kept) -> Glyph]
    BY <1>0, SpaceIs
  <2>3. front \in Seq(Glyph) /\ Len(front) = pos /\ \A i \in 1..pos : front[i] = String!Data[0 + i - 1]
    <3>1. 0 \in Nat /\ pos \in Nat /\ \A i \in 1..pos : 0 + i - 1 \in 0..Room(size)
      BY <1>0
    <3>2. \A i \in 1..pos : String!Data[0 + i - 1] \in Glyph
      BY <1>0, <3>1
    <3> QED
      BY ONLY <3>1, <3>2, CutIs
  <2> DEFINE m == size + 1 - pos - n
  <2>4. m \in Nat /\ m = (kept + 1) - pos /\ pos + n \in Nat /\ pos + n + m <= Room(size) + 1
    BY <1>0
  <2> HIDE DEF m
  <2>5. back \in Seq(Glyph) /\ Len(back) = m /\ \A i \in 1..m : back[i] = String!Data[pos + n + i - 1]
    <3> DEFINE from == pos + n
    <3>1. back = String!Cut(String!Data, from, m)
      BY DEF m
    <3>2. m \in Nat /\ from \in Nat /\ \A i \in 1..m : from + i - 1 \in 0..Room(size)
      BY <1>0, <2>4
    <3> HIDE DEF back, from
    <3>a. \A i \in 1..m : String!Data[from + i - 1] \in Glyph
      BY <1>0, <3>2
    <3>3. /\ String!Cut(String!Data, from, m) \in Seq(Glyph) /\ Len(String!Cut(String!Data, from, m)) = m
          /\ \A i \in 1..m : String!Cut(String!Data, from, m)[i] = String!Data[from + i - 1]
      BY ONLY <3>2, <3>a, CutIs
    <3> QED
      BY <3>1, <3>3 DEF from
  <2> HIDE DEF space, front, back, kept
  <2>6. /\ begun \in [0..Room(kept) -> Glyph]
        /\ \A i \in 0..Room(kept) : begun[i] = IF 0 <= i /\ i < 0 + Len(front) THEN front[(i - 0) + 1] ELSE space[i]
    <3>1. Room(kept) \in Nat /\ space \in [0..Room(kept) -> Glyph] /\ 0 \in Nat /\ front \in Seq(Glyph)
      BY <1>0, <2>2, <2>3 DEF kept
    <3> QED
      BY ONLY <3>1, WriteIs DEF begun
  <2> HIDE DEF begun
  <2>7. /\ all \in [0..Room(kept) -> Glyph]
        /\ \A i \in 0..Room(kept) : all[i] = IF pos <= i /\ i < pos + Len(back) THEN back[(i - pos) + 1] ELSE begun[i]
    <3>1. Room(kept) \in Nat /\ begun \in [0..Room(kept) -> Glyph] /\ pos \in Nat /\ back \in Seq(Glyph)
      BY <1>0, <2>5, <2>6 DEF kept
    <3> QED
      BY ONLY <3>1, WriteIs, SMTT(30) DEF all
  <2> HIDE DEF all
  <2>8. ASSUME NEW i \in 0..(kept - 1) PROVE all[i] = e[i + 1]
    <3>1. i \in 0..Room(kept) /\ i \in Nat /\ i < kept
      BY <1>0
    <3>a. e[i + 1] = String!Data[IF i < pos THEN i ELSE i + n]
      BY DEF kept
    <3>2. CASE i < pos
      <4>1. 0 <= i /\ i < 0 + pos /\ (i - 0) + 1 \in 1..pos /\ 0 + ((i - 0) + 1) - 1 = i /\ ~ (pos <= i)
        BY <3>1, <3>2
      <4>2. all[i] = begun[i]
        BY <2>7, <3>1, <4>1
      <4>3. begun[i] = String!Data[i]
        BY <2>3, <2>6, <3>1, <4>1
      <4> QED
        BY <3>2, <3>a, <4>2, <4>3
    <3>3. CASE ~ (i < pos)
      <4>1. pos <= i /\ i < pos + m /\ (i - pos) + 1 \in 1..m /\ pos + n + ((i - pos) + 1) - 1 = i + n
        BY <1>0, <2>4, <3>1, <3>3
      <4>2. all[i] = back[(i - pos) + 1]
        BY <2>5, <2>7, <3>1, <4>1
      <4>3. back[(i - pos) + 1] = String!Data[i + n]
        BY <2>5, <4>1
      <4> QED
        BY <3>3, <3>a, <4>2, <4>3
    <3> QED
      BY <3>2, <3>3
  <2>9. Len(e) = kept
    BY DEF kept
  <2> QED
    BY <1>0, <2>1, <2>7, <2>8, <2>9, StringBecomes
<1> QED
  BY <1>1, <1>2

\* The cells after a step that writes them.
LEMMA DataIs ==
  ASSUME NEW n \in Nat, NEW cells \in [0..Room(n) -> Glyph], size' = n,
         IF n + 1 <= Local THEN storage' = cells /\ buffer' = <<>> ELSE storage' = <<>> /\ buffer' = cells
  PROVE  /\ String!Data' = cells
         /\ IF size' + 1 <= Local THEN buffer' = <<>> /\ storage' \in [0..(Local - 1) -> Glyph]
                                  ELSE storage' = <<>> /\ buffer' \in [0..size' -> Glyph]
<1>1. Room(n) \in Nat /\ Local \in Nat \ {0}
  BY StringTypes
<1>2. cells # <<>>
  <2>1. 0 \in DOMAIN cells
    BY <1>1
  <2>2. DOMAIN <<>> = {}
    OBVIOUS
  <2> QED
    BY <2>1, <2>2
<1>3. CASE n + 1 <= Local
  BY <1>2, <1>3 DEF String!Data, String!Chars, String!FitLocal, String!Address, Room
<1>4. CASE ~ (n + 1 <= Local)
  BY <1>4 DEF String!Data, String!FitLocal, Room
<1> QED
  BY <1>3, <1>4

LEMMA StringInserts == ASSUME StringKept, String!InsertText \/ String!AppendOwn PROVE StringKept'
<1>0. /\ String!NotReading /\ Len(given) = size /\ size \in Nat /\ given \in Seq(Plain)
      /\ \A i \in 0..(size - 1) : String!Data[i] = given[i + 1]
  BY StringIdle DEF String!InsertText, String!AppendOwn
<1>1. CASE String!InsertText
  <2>1. PICK text \in String!Texts :
          /\ String!Insert(size, text)
          /\ given' = IF size + Len(text) > MaxSize THEN given ELSE String!Splice(size, 0, text)
    BY <1>1 DEF String!InsertText
  <2>2. text \in Seq(Plain)
    <3>1. MaxText \in Nat
      BY StringTypes
    <3>2. PICK m \in 0..MaxText : text \in [1..m -> Plain]
      BY <3>1 DEF Plain, String!Texts
    <3> QED
      BY <3>1, <3>2
  <2>3. String!Splice(size, 0, text) = given \o text
    <3>1. SubSeq(given, 1, size) = given
      BY <1>0, SubSeqFull
    <3>2. SubSeq(given, size + 0 + 1, Len(given)) = <<>>
      BY <1>0, SubSeqEmpty
    <3>3. (given \o text) \o <<>> = given \o text
      BY <1>0, <2>2, ConcatProperties, ConcatEmptySeq
    <3> QED
      BY <3>1, <3>2, <3>3 DEF String!Splice
  <2> QED
    BY <1>0, <2>1, <2>2, <2>3, StringAppends
<1>2. CASE String!AppendOwn
  <2>1. PICK from \in 0..size, n \in 0..size :
          /\ from + n <= size
          /\ String!Insert(size, String!Cut(String!Data, from, n))
          /\ given' = IF size + n > MaxSize THEN given ELSE given \o SubSeq(given, from + 1, from + n)
    BY <1>2 DEF String!AppendOwn
  <2>2. from \in Nat /\ n \in Nat /\ from + n \in Nat /\ from <= from + n /\ from + n <= Len(given)
        /\ (from + n) - from = n
    BY <1>0, <2>1
  <2> DEFINE part == SubSeq(given, from + 1, from + n)
             cut  == String!Cut(String!Data, from, n)
  <2>3. part \in Seq(Plain) /\ Len(part) = n /\ \A i \in 1..n : part[i] = given[from + i]
    BY <1>0, <2>2, PartIs
  <2> HIDE DEF part, cut
  <2>4. \A i \in 1..n : String!Data[from + i - 1] = part[i]
    <3> TAKE i \in 1..n
    <3>1. from + i - 1 \in 0..(size - 1) /\ (from + i - 1) + 1 = from + i
      BY <1>0, <2>2
    <3>2. String!Data[from + i - 1] = given[(from + i - 1) + 1]
      BY <1>0, <3>1
    <3> QED
      BY <2>3, <3>1, <3>2
  <2>5. cut = part
    <3>1. \A i \in 1..n : String!Data[from + i - 1] \in Glyph
      <4>1. \A i \in 1..n : part[i] \in Plain
        BY <2>3, ElementOfSeq
      <4> QED
        BY <2>4, <4>1, StringTypes
    <3>2. /\ String!Cut(String!Data, from, n) \in Seq(Glyph) /\ Len(String!Cut(String!Data, from, n)) = n
          /\ \A i \in 1..n : String!Cut(String!Data, from, n)[i] = String!Data[from + i - 1]
      BY ONLY <2>2, <3>1, CutIs
    <3>3. cut \in Seq(Glyph) /\ Len(cut) = n /\ \A i \in 1..n : cut[i] = part[i]
      BY <2>4, <3>2 DEF cut
    <3> QED
      BY <2>3, <3>3, SeqEqual, StringTypes, SeqMonotonic
  <2> QED
    BY <1>0, <2>1, <2>3, <2>5, StringAppends DEF part, cut
<1> QED
  BY <1>1, <1>2

LEMMA StringCuts == ASSUME StringKept, String!EraseChars \/ String!PopBack PROVE StringKept'
<1>0. /\ String!NotReading /\ Len(given) = size /\ size \in Nat /\ given \in Seq(Plain)
      /\ \A i \in 0..(size - 1) : String!Data[i] = given[i + 1]
  BY StringIdle DEF String!EraseChars, String!PopBack
<1>1. CASE String!EraseChars
  <2>1. PICK pos \in 0..size, n \in 0..size :
          pos + n <= size /\ String!Erase(pos, n) /\ given' = String!Splice(pos, n, <<>>)
    BY <1>1 DEF String!EraseChars
  <2> DEFINE none == <<>>
             e == String!Splice(pos, n, none)
  <2>2. none \in Seq(Plain) /\ Len(none) = 0
    BY EmptySeq
  <2>3. pos \in Nat /\ n \in Nat /\ pos + n <= Len(given)
    BY <1>0, <2>1
  <2> HIDE DEF none
  <2>4. /\ e \in Seq(Plain) /\ Len(e) = Len(given) - n + Len(none)
        /\ \A i \in 1..(Len(given) - n + Len(none)) :
             e[i] = IF i <= pos THEN given[i] ELSE IF i <= pos + Len(none) THEN none[i - pos]
                                                ELSE given[i - Len(none) + n]
    <3> DEFINE c == Vector!Splice(given, pos, n, none)
    <3>1. given \in Seq(Plain) /\ none \in Seq(Plain) /\ pos \in Nat /\ n \in Nat /\ pos + n <= Len(given)
      BY <1>0, <2>2, <2>3
    <3>2. /\ c \in Seq(Plain) /\ Len(c) = Len(given) - n + Len(none)
          /\ \A i \in 1..(Len(given) - n + Len(none)) :
               c[i] = IF i <= pos THEN given[i] ELSE IF i <= pos + Len(none) THEN none[i - pos]
                                                ELSE given[i - Len(none) + n]
      BY ONLY <3>1, SplicedIs
    <3>3. e = c
      BY DEF String!Splice, Vector!Splice
    <3> HIDE DEF e, c
    <3> QED
      BY <3>2, <3>3
  <2>5. given' = e
    BY <2>1 DEF none
  <2> HIDE DEF e
  <2>6. Len(e) = size - n /\ \A i \in 1..(size - n) : e[i] = IF i <= pos THEN given[i] ELSE given[i + n]
    <3>1. Len(given) - n + Len(none) = size - n
      BY <1>0, <2>2, <2>3
    <3>2. \A i \in 1..(size - n) : (i <= pos + Len(none) <=> i <= pos) /\ i - Len(none) + n = i + n
      BY <1>0, <2>2, <2>3
    <3> QED
      BY <2>4, <3>1, <3>2
  <2>7. CASE n = 0
    <3>1. UNCHANGED <<storage, buffer, size, track>>
      BY <2>1, <2>7 DEF String!Erase
    <3>2. e = given
      <4>1. Len(e) = Len(given)
        BY <1>0, <2>6, <2>7
      <4>2. \A i \in 1..Len(e) : e[i] = given[i]
        BY <1>0, <2>6, <2>7, <4>1
      <4> QED
        BY <1>0, <2>4, <4>1, <4>2, SeqEqual
    <3> QED
      BY <2>5, <3>1, <3>2, StringSame
  <2>8. CASE n # 0
    <3>1. ASSUME NEW i \in 0..((size - n) - 1)
          PROVE  e[i + 1] = String!Data[IF i < pos THEN i ELSE i + n]
      <4>1. i \in Nat /\ i + 1 \in 1..(size - n) /\ i \in 0..(size - 1) /\ i + n \in 0..(size - 1)
            /\ (i + 1 <= pos <=> i < pos) /\ (i + 1) + n = (i + n) + 1
        BY <1>0, <2>3
      <4>2. e[i + 1] = IF i < pos THEN given[i + 1] ELSE given[(i + n) + 1]
        BY <2>6, <4>1
      <4>3. String!Data[i] = given[i + 1] /\ String!Data[i + n] = given[(i + n) + 1]
        BY <1>0, <4>1
      <4> QED
        BY <4>2, <4>3
    <3>2. n \in Nat \ {0} /\ pos <= size /\ pos + n <= size + 1 /\ n <= size
      BY <1>0, <2>3, <2>8
    <3> QED
      BY <2>1, <2>3, <2>4, <2>5, <2>6, <3>1, <3>2, StringErases
  <2> QED
    BY <2>7, <2>8
<1>2. CASE String!PopBack
  <2>1. size > 0 /\ String!Erase(size, 1) /\ given' = SubSeq(given, 1, Len(given) - 1)
    BY <1>2 DEF String!PopBack
  <2> DEFINE e == SubSeq(given, 1, size - 1)
  <2>2. e \in Seq(Plain) /\ Len(e) = size - 1 /\ \A i \in 1..(size - 1) : e[i] = given[i]
    <3>1. 0 \in Nat /\ size - 1 \in Nat /\ 0 <= size - 1 /\ size - 1 <= Len(given)
      BY <1>0, <2>1
    <3> DEFINE c == SubSeq(given, 0 + 1, size - 1)
    <3>2. c \in Seq(Plain) /\ Len(c) = (size - 1) - 0 /\ \A i \in 1..((size - 1) - 0) : c[i] = given[0 + i]
      BY <1>0, <3>1, PartIs
    <3>3. (size - 1) - 0 = size - 1 /\ (\A i \in 1..(size - 1) : 0 + i = i) /\ e = c
      BY <1>0
    <3> HIDE DEF e, c
    <3> QED
      BY <3>2, <3>3
  <2> HIDE DEF e
  <2>3. ASSUME NEW i \in 0..((size - 1) - 1)
        PROVE  e[i + 1] = String!Data[IF i < size THEN i ELSE i + 1]
    <3>1. i + 1 \in 1..(size - 1) /\ i \in 0..(size - 1) /\ i < size
      BY <1>0
    <3> QED
      BY <1>0, <2>2, <3>1
  <2>4. given' = e
    BY <1>0, <2>1 DEF e
  <2>5. 1 \in Nat \ {0} /\ size <= size /\ size + 1 <= size + 1 /\ 1 <= size
    BY <1>0, <2>1
  <2> QED
    BY <1>0, <2>1, <2>2, <2>3, <2>4, <2>5, StringErases
<1> QED
  BY <1>1, <1>2

LEMMA StringAssigns == ASSUME StringKept, String!AssignText PROVE StringKept'
<1>0. /\ String!NotReading /\ Len(given) = size /\ size \in Nat /\ given \in Seq(Plain)
      /\ size <= MaxSize /\ MaxSize \in Nat /\ track \in {String!Idle, String!Open}
      /\ \A i \in 0..(size - 1) : String!Data[i] = given[i + 1]
  BY StringIdle, StringTypes DEF String!AssignText, StringKept
<1>1. PICK text \in String!Texts :
        String!Assign(text) /\ given' = IF Len(text) >= MaxSize THEN given ELSE text
  BY DEF String!AssignText
<1> DEFINE n == Len(text)
<1>2. text \in Seq(Plain) /\ text \in Seq(Glyph) /\ n \in Nat
  <2>1. MaxText \in Nat
    BY StringTypes
  <2>2. PICK m \in 0..MaxText : text \in [1..m -> Plain]
    BY <2>1 DEF Plain, String!Texts
  <2>3. text \in Seq(Plain)
    BY <2>1, <2>2
  <2> QED
    BY <2>3, SeqMonotonic, StringTypes
\* The text written over cells.
<1>3. ASSUME NEW last \in Nat, NEW cells \in [0..last -> Glyph], n <= last + 1
      PROVE  /\ String!Write(cells, 0, text) \in [0..last -> Glyph]
             /\ \A i \in 0..(n - 1) : String!Write(cells, 0, text)[i] = text[i + 1]
             /\ \A i \in n..last : String!Write(cells, 0, text)[i] = cells[i]
  <2> DEFINE all == String!Write(cells, 0, text)
  <2>1. /\ all \in [0..last -> Glyph]
        /\ \A i \in 0..last : all[i] = IF 0 <= i /\ i < 0 + Len(text) THEN text[(i - 0) + 1] ELSE cells[i]
    <3>1. 0 \in Nat /\ text \in Seq(Glyph) /\ last \in Nat /\ cells \in [0..last -> Glyph]
      BY <1>2
    <3> QED
      BY ONLY <3>1, WriteIs
  <2> HIDE DEF all
  <2>2. \A i \in 0..(n - 1) : i \in 0..last /\ 0 <= i /\ i < 0 + Len(text) /\ (i - 0) + 1 = i + 1
    BY <1>2, <1>3
  <2>3. \A i \in n..last : i \in 0..last /\ ~ (i < 0 + Len(text))
    BY <1>2
  <2>4. (\A i \in 0..(n - 1) : all[i] = text[i + 1]) /\ \A i \in n..last : all[i] = cells[i]
    BY <2>1, <2>2, <2>3
  <2> QED
    BY <2>1, <2>4 DEF all
<1>4. CASE n >= MaxSize
  <2>1. UNCHANGED <<storage, buffer, size, given, track>>
    BY <1>1, <1>4 DEF String!Assign
  <2> QED
    BY <2>1, StringSame
<1>5. CASE n < MaxSize /\ n = 0
  <2>1. String!Clear
    BY <1>0, <1>1, <1>5 DEF String!Assign
  <2>2. given' = <<>>
    BY <1>0, <1>1, <1>2, <1>5, EmptySeq
  <2> QED
    BY <2>1, <2>2, StringClears
<1>6. CASE n < MaxSize /\ n # 0 /\ n = size
  <2> DEFINE cells == String!Write(String!Data, 0, text)
  <2>0. ~ (n >= MaxSize)
    BY <1>0, <1>2, <1>6
  <2>1. /\ IF n + 1 <= Local THEN storage' = cells /\ UNCHANGED buffer ELSE buffer' = cells /\ UNCHANGED storage
        /\ size' = n /\ track' = track /\ given' = text
    BY <1>1, <1>6, <2>0 DEF String!Assign, String!FitLocal
  <2>2. String!Data \in [0..Room(n) -> Glyph] /\ Room(n) \in Nat /\ n <= Room(n)
    BY <1>0, <1>6, StringCells, StringTypes
  <2>3. /\ cells \in [0..Room(n) -> Glyph] /\ \A i \in 0..(n - 1) : cells[i] = text[i + 1]
        /\ \A i \in n..Room(n) : cells[i] = String!Data[i]
    BY <1>2, <1>3, <2>2
  <2> HIDE DEF cells
  <2>4. IF n + 1 <= Local THEN storage' = cells /\ buffer' = <<>> ELSE storage' = <<>> /\ buffer' = cells
    BY <1>6, <2>1 DEF StringKept
  <2>5. /\ String!Data' = cells
        /\ IF size' + 1 <= Local THEN buffer' = <<>> /\ storage' \in [0..(Local - 1) -> Glyph]
                                 ELSE storage' = <<>> /\ buffer' \in [0..size' -> Glyph]
    BY <1>2, <2>1, <2>3, <2>4, DataIs
  <2>6. track' = String!Idle => String!Data'[size'] = Nul
    <3>1. n \in n..Room(n)
      BY <1>2, <2>2
    <3>2. track = String!Idle => String!Data[size] = Nul
      BY DEF StringKept
    <3> QED
      BY <1>6, <2>1, <2>3, <2>5, <3>1, <3>2
  <2>7. \A i \in 0..(Len(given') - 1) : String!Data'[i] = given'[i + 1]
    BY <2>1, <2>3, <2>5
  <2>8. track' \in {String!Idle, String!Open} /\ Len(given') = size'
    BY <1>0, <2>1
  <2> QED
    BY <1>0, <1>2, <1>6, <2>1, <2>5, <2>6, <2>7, <2>8 DEF StringKept, String!Idle, String!Open
<1>7. CASE n < MaxSize /\ n # 0 /\ n # size
  <2> DEFINE space == String!Space(n + 1)
             cells == String!Write(space, 0, text)
  <2>0. ~ (n >= MaxSize)
    BY <1>0, <1>2, <1>7
  <2>1. String!Become(cells, n) /\ given' = text
    BY <1>1, <1>7, <2>0 DEF String!Assign
  <2>2. space \in [0..Room(n) -> Glyph] /\ Room(n) \in Nat /\ n <= Room(n)
    BY <1>2, SpaceIs, StringTypes
  <2> HIDE DEF space
  <2>3. cells \in [0..Room(n) -> Glyph] /\ \A i \in 0..(n - 1) : cells[i] = text[i + 1]
    BY <1>2, <1>3, <2>2
  <2> HIDE DEF cells
  <2>4. n <= MaxSize
    BY <1>0, <1>2, <1>7
  <2> QED
    BY <1>2, <2>1, <2>3, <2>4, StringBecomes
<1>8. n >= MaxSize \/ n < MaxSize
  BY <1>0, <1>2
<1> QED
  BY <1>4, <1>5, <1>6, <1>7, <1>8

LEMMA StringReads ==
  ASSUME StringKept, String!ReadFirst \/ String!ReadChar \/ String!ReadExpand \/ String!ReadEnd
  PROVE  StringKept'
<1>0. /\ Local \in Nat \ {0} /\ MaxSize \in Nat /\ Local + 1 <= MaxSize /\ Raw \in Glyph
      /\ size \in Nat /\ size <= MaxSize /\ given \in Seq(Plain) /\ Len(given) \in Nat
      /\ \A i \in 0..(Len(given) - 1) : String!Data[i] = given[i + 1]
  BY StringTypes DEF StringKept
<1>1. ASSUME ~ String!NotReading
      PROVE  /\ track = <<size>> /\ track[1] = size /\ size >= Local /\ Len(given) <= size
             /\ storage = <<>> /\ buffer \in [0..size -> Glyph] /\ String!Data = buffer
             /\ ~ (size + 1 <= Local) /\ Room(size) = size
  <2>1. track = <<size>> /\ size >= Local /\ Len(given) <= size
    BY <1>1 DEF StringKept, String!NotReading
  <2>2. ~ (size + 1 <= Local)
    BY <1>0, <2>1
  <2> QED
    BY <2>1, <2>2 DEF StringKept, String!Data, String!FitLocal, Room
<1>2. ASSUME NEW n \in Nat, track' = <<n>>, n >= Local
      PROVE  track' # String!Idle /\ ~ (n + 1 <= Local) /\ Room(n) = n
  <2>1. Len(track') = 1
    BY <1>2
  <2> QED
    BY <1>0, <1>2, <2>1 DEF String!Idle, Room
<1>3. CASE String!ReadFirst
  <2> DEFINE cells == String!Fresh(Local + 1)
  <2>1. buffer' = cells /\ storage' = <<>> /\ size' = Local /\ track' = <<Local>> /\ given' = <<>>
    BY <1>3 DEF String!ReadFirst, String!Address
  <2>2. cells \in [0..Local -> Glyph]
    <3>1. (Local + 1) - 1 = Local
      BY <1>0
    <3> QED
      BY <1>0, <3>1 DEF String!Fresh
  <2> HIDE DEF cells
  <2>3. Local \in Nat /\ Local >= Local
    BY <1>0
  <2>4. track' # String!Idle /\ ~ (Local + 1 <= Local) /\ Room(Local) = Local
    BY <1>2, <2>1, <2>3
  <2>5. IF size' + 1 <= Local THEN buffer' = <<>> /\ storage' \in [0..(Local - 1) -> Glyph]
                              ELSE storage' = <<>> /\ buffer' \in [0..size' -> Glyph]
    BY <2>1, <2>2, <2>4
  <2>6. <<>> \in Seq(Plain) /\ Len(<<>>) = 0
    BY EmptySeq
  <2>7. track' = <<size'>> /\ size' >= Local /\ Len(given') <= size' /\ size' \in Nat /\ size' <= MaxSize
        /\ given' \in Seq(Plain) /\ Len(given') = 0
    BY <1>0, <2>1, <2>6
  <2>8. \A i \in 0..(Len(given') - 1) : String!Data'[i] = given'[i + 1]
    BY <2>7
  <2> QED
    BY <2>4, <2>5, <2>7, <2>8 DEF StringKept, String!Idle
<1>4. CASE String!ReadChar
  <2>1. PICK c \in Plain :
          /\ ~ String!NotReading /\ Len(given) < size
          /\ buffer' = [buffer EXCEPT ![Len(given)] = c]
          /\ given' = Append(given, c)
          /\ storage' = storage /\ size' = size /\ track' = track
    BY <1>4 DEF String!ReadChar, Plain
  <2>2. /\ track = <<size>> /\ size >= Local /\ storage = <<>> /\ buffer \in [0..size -> Glyph] /\ String!Data = buffer
        /\ ~ (size + 1 <= Local) /\ Room(size) = size
    BY <1>1, <2>1
  <2> DEFINE k == Len(given)
  <2>3. k \in 0..size /\ c \in Glyph
    BY <1>0, <2>1, StringTypes
  <2>4. /\ given' \in Seq(Plain) /\ Len(given') = k + 1
        /\ given'[k + 1] = c /\ \A i \in 1..k : given'[i] = given[i]
    BY <1>0, <2>1, AppendProperties
  <2>a. buffer' = [buffer EXCEPT ![k] = c]
    BY <2>1
  <2>b. k \in Nat /\ k < size
    BY <1>0, <2>1
  <2>c. \A i \in 0..(k - 1) : String!Data[i] = given[i + 1]
    BY <1>0
  <2> HIDE DEF k
  <2>5. buffer' \in [0..size -> Glyph] /\ buffer'[k] = c /\ \A i \in 0..(k - 1) : buffer'[i] = buffer[i]
    <3>1. \A i \in 0..(k - 1) : i \in 0..size /\ i # k
      BY <1>0, <2>b
    <3> QED
      BY <2>2, <2>3, <2>a, <3>1
  <2>6. String!Data' = buffer'
    BY <2>1, <2>2 DEF String!Data, String!FitLocal
  <2>7. ASSUME NEW i \in 0..(Len(given') - 1) PROVE String!Data'[i] = given'[i + 1]
    <3>1. CASE i = k
      BY <2>4, <2>5, <2>6, <3>1
    <3>2. CASE i # k
      <4>1. i \in 0..(k - 1) /\ i + 1 \in 1..k
        BY <2>4, <2>b, <3>2
      <4> QED
        BY <2>2, <2>4, <2>5, <2>6, <2>c, <4>1
    <3> QED
      BY <3>1, <3>2
  <2>8. track' = <<size'>> /\ size' >= Local /\ Len(given') <= size' /\ track' # String!Idle
    <3>1. Len(given') <= size'
      BY <1>0, <2>1, <2>4, <2>b
    <3> QED
      BY <1>0, <1>2, <2>1, <2>2, <3>1
  <2>9. IF size' + 1 <= Local THEN buffer' = <<>> /\ storage' \in [0..(Local - 1) -> Glyph]
                              ELSE storage' = <<>> /\ buffer' \in [0..size' -> Glyph]
    BY <2>1, <2>2, <2>5
  <2> QED
    BY <1>0, <2>1, <2>4, <2>7, <2>8, <2>9 DEF StringKept, String!Idle
<1>5. CASE String!ReadExpand
  <2>1. ~ String!NotReading /\ Len(given) = size /\ given' = given /\ String!Expand(track[1], <<2 * track[1]>>)
    BY <1>5 DEF String!ReadExpand
  <2>2. /\ track = <<size>> /\ track[1] = size /\ size >= Local /\ storage = <<>> /\ buffer \in [0..size -> Glyph]
        /\ String!Data = buffer /\ ~ (size + 1 <= Local) /\ Room(size) = size
    BY <1>1, <2>1
  <2> DEFINE total == size + size + 1
             cut == String!Cut(String!Data, 0, size)
             cells == String!Write(String!Fresh(total), 0, cut)
  <2>3. total \in Nat /\ total - 1 = 2 * size /\ 2 * size \in Nat
    BY <1>0
  <2>4. CASE total > MaxSize
    <3>1. track' = String!Open /\ UNCHANGED <<storage, buffer, size>>
      BY <2>1, <2>2, <2>4 DEF String!Expand
    <3>2. String!Open # String!Idle
      <4>1. Len(<<0>>) = 1
        OBVIOUS
      <4> QED
        BY <4>1 DEF String!Open, String!Idle
    <3>3. String!Data' = String!Data
      BY <3>1 DEF String!Data, String!Chars, String!FitLocal, String!Address, String!Fresh
    <3> QED
      BY <1>0, <2>1, <2>2, <3>1, <3>2, <3>3 DEF StringKept, String!Idle, String!Open
  <2>5. CASE ~ (total > MaxSize)
    <3>1. buffer' = cells /\ storage' = <<>> /\ size' = 2 * size /\ track' = <<2 * size>>
      BY <2>1, <2>2, <2>3, <2>5 DEF String!Expand, String!Address
    <3>2. String!Fresh(total) \in [0..(2 * size) -> Glyph]
      BY <1>0, <2>3 DEF String!Fresh
    <3>3. cut \in Seq(Glyph) /\ Len(cut) = size /\ \A i \in 1..size : cut[i] = String!Data[0 + i - 1]
      <4>1. 0 \in Nat /\ size \in Nat /\ \A i \in 1..size : 0 + i - 1 \in 0..size
        BY <1>0
      <4>2. \A i \in 1..size : String!Data[0 + i - 1] \in Glyph
        BY <2>2, <4>1
      <4> QED
        BY ONLY <4>1, <4>2, CutIs
    <3> DEFINE fresh == String!Fresh(total)
    <3> HIDE DEF cut
    <3>4. /\ cells \in [0..(2 * size) -> Glyph]
          /\ \A i \in 0..(2 * size) : cells[i] = IF 0 <= i /\ i < 0 + Len(cut) THEN cut[(i - 0) + 1] ELSE fresh[i]
      <4> DEFINE last == 2 * size
      <4>1. fresh \in [0..last -> Glyph] /\ last \in Nat /\ cut \in Seq(Glyph) /\ 0 \in Nat
        BY <2>3, <3>2, <3>3
      <4>2. cells = String!Write(fresh, 0, cut)
        OBVIOUS
      <4> HIDE DEF last, fresh, cells
      <4>3. /\ String!Write(fresh, 0, cut) \in [0..last -> Glyph]
            /\ \A i \in 0..last : String!Write(fresh, 0, cut)[i] =
                 IF 0 <= i /\ i < 0 + Len(cut) THEN cut[(i - 0) + 1] ELSE fresh[i]
        BY ONLY <4>1, WriteIs
      <4> QED
        BY <4>2, <4>3 DEF last
    <3> HIDE DEF cells, fresh
    <3>5. 2 * size >= Local /\ 2 * size <= MaxSize /\ size <= 2 * size
      BY <1>0, <2>2, <2>3, <2>5
    <3>6. track' # String!Idle /\ ~ (2 * size + 1 <= Local) /\ Room(2 * size) = 2 * size
      BY <1>2, <2>3, <3>1, <3>5
    <3>7. /\ String!Data' = cells
          /\ IF size' + 1 <= Local THEN buffer' = <<>> /\ storage' \in [0..(Local - 1) -> Glyph]
                                   ELSE storage' = <<>> /\ buffer' \in [0..size' -> Glyph]
      <4> DEFINE m == 2 * size
      <4>1. m \in Nat /\ cells \in [0..Room(m) -> Glyph] /\ size' = m
        BY <2>3, <3>1, <3>4, <3>6
      <4>2. IF m + 1 <= Local THEN storage' = cells /\ buffer' = <<>> ELSE storage' = <<>> /\ buffer' = cells
        BY <3>1, <3>6
      <4> HIDE DEF m
      <4> QED
        BY <4>1, <4>2, DataIs
    <3>8. ASSUME NEW i \in 0..(Len(given') - 1) PROVE String!Data'[i] = given'[i + 1]
      <4>1. /\ i \in 0..(size - 1) /\ i \in 0..(2 * size) /\ 0 <= i /\ i < 0 + size
            /\ (i - 0) + 1 \in 1..size /\ 0 + ((i - 0) + 1) - 1 = i /\ i \in 0..(Len(given) - 1)
        BY <1>0, <2>1, <3>5
      <4>2. cells[i] = cut[(i - 0) + 1]
        BY <3>3, <3>4, <4>1
      <4>3. cut[(i - 0) + 1] = String!Data[i]
        <5>1. cut[(i - 0) + 1] = String!Data[0 + ((i - 0) + 1) - 1]
          BY <3>3, <4>1
        <5> QED
          BY <4>1, <5>1
      <4>4. String!Data[i] = given[i + 1]
        BY <1>0, <4>1
      <4> QED
        BY <2>1, <3>7, <4>2, <4>3, <4>4
    <3>9. track' = <<size'>> /\ size' >= Local /\ Len(given') <= size' /\ size' \in Nat /\ size' <= MaxSize
      BY <2>1, <2>3, <3>1, <3>5
    <3> QED
      BY <1>0, <2>1, <3>6, <3>7, <3>8, <3>9 DEF StringKept, String!Idle
  <2> QED
    BY <2>4, <2>5
<1>6. CASE String!ReadEnd
  <2> DEFINE n == size - Len(given)
  <2>1. ~ String!NotReading /\ given # <<>> /\ given' = given
    BY <1>6 DEF String!ReadEnd
  <2>2. /\ track = <<size>> /\ track[1] = size /\ size >= Local /\ Len(given) <= size
        /\ String!Data = buffer
    BY <1>1, <2>1
  <2>3. IF n = 0 THEN track' = String!Open /\ UNCHANGED <<storage, buffer, size>> ELSE String!Erase(Len(given), n)
    BY <1>6, <2>2 DEF String!ReadEnd
  <2>4. CASE n = 0
    <3>1. track' = String!Open /\ UNCHANGED <<storage, buffer, size>> /\ Len(given) = size
      BY <1>0, <2>2, <2>3, <2>4
    <3>2. String!Open # String!Idle
      <4>1. Len(<<0>>) = 1
        OBVIOUS
      <4> QED
        BY <4>1 DEF String!Open, String!Idle
    <3>3. String!Data' = String!Data
      BY <3>1 DEF String!Data, String!Chars, String!FitLocal, String!Address, String!Fresh
    <3> QED
      BY <1>0, <2>1, <2>2, <3>1, <3>2, <3>3 DEF StringKept, String!Idle, String!Open
  <2>5. CASE n # 0
    <3> DEFINE pos == Len(given)
    <3>1. pos \in Nat /\ n \in Nat \ {0} /\ pos <= size /\ pos + n <= size + 1 /\ n <= size /\ Len(given) = size - n
      BY <1>0, <2>2, <2>5
    <3>2. String!Erase(pos, n)
      BY <2>3, <2>5
    <3>3. \A i \in 0..((size - n) - 1) : given[i + 1] = String!Data[IF i < pos THEN i ELSE i + n]
      <4> TAKE i \in 0..((size - n) - 1)
      <4> HIDE DEF n
      <4>a. (size - n) - 1 = Len(given) - 1
        BY <3>1
      <4>1. i \in 0..(Len(given) - 1) /\ i < pos
        BY <1>0, <4>a
      <4> QED
        BY <1>0, <4>1
    <3> HIDE DEF n, pos
    <3> QED
      BY <1>0, <2>1, <3>1, <3>2, <3>3, StringErases
  <2> QED
    BY <2>4, <2>5
<1> QED
  BY <1>3, <1>4, <1>5, <1>6

LEMMA StringStays == ASSUME StringKept, String!Next PROVE StringKept'
<1>1. CASE String!ClearAll
  BY <1>1, StringClears DEF String!ClearAll
<1> QED
  BY <1>1, StringInserts, StringCuts, StringAssigns, StringReads DEF String!Next

LEMMA StringGood ==
  ASSUME StringKept
  PROVE  String!ContentsExact /\ String!BlockExact /\ String!Terminated
<1>0. size \in Nat /\ Local \in Nat \ {0}
  BY StringTypes DEF StringKept
<1>1. ASSUME String!NotReading PROVE size = Len(given) /\ String!Cut(String!Data, 0, size) = given
  <2>1. /\ Len(given) = size /\ given \in Seq(Plain)
        /\ \A i \in 0..(size - 1) : String!Data[i] = given[i + 1]
    BY <1>1, StringIdle
  <2> DEFINE cut == String!Cut(String!Data, 0, size)
  <2>2. \A i \in 1..size : String!Data[0 + i - 1] = given[i]
    <3> TAKE i \in 1..size
    <3>1. 0 + i - 1 = i - 1 /\ i - 1 \in 0..(size - 1) /\ (i - 1) + 1 = i
      BY <1>0
    <3>2. String!Data[i - 1] = given[(i - 1) + 1]
      BY <2>1, <3>1
    <3> QED
      BY <3>1, <3>2
  <2>3. \A i \in 1..size : given[i] \in Plain
    BY <2>1, ElementOfSeq
  <2>4. \A i \in 1..size : String!Data[0 + i - 1] \in Glyph
    BY <2>2, <2>3, StringTypes
  <2>5. cut \in Seq(Glyph) /\ Len(cut) = size /\ \A i \in 1..size : cut[i] = String!Data[0 + i - 1]
    <3>1. 0 \in Nat /\ size \in Nat
      BY <1>0
    <3> QED
      BY ONLY <2>4, <3>1, CutIs
  <2> HIDE DEF cut
  <2>6. given \in Seq(Glyph)
    BY <2>1, SeqMonotonic, StringTypes
  <2>7. cut = given
    BY <2>1, <2>2, <2>5, <2>6, SeqEqual
  <2> QED
    BY <2>1, <2>7 DEF cut
<1>2. String!BlockExact
  <2>1. CASE size + 1 <= Local
    <3>1. storage \in [0..(Local - 1) -> Glyph] /\ buffer = <<>>
      BY <2>1 DEF StringKept
    <3>2. storage # <<>>
      <4>1. 0 \in DOMAIN storage
        BY <1>0, <3>1
      <4>2. DOMAIN <<>> = {}
        OBVIOUS
      <4> QED
        BY <4>1, <4>2
    <3> QED
      BY <2>1, <3>1, <3>2 DEF String!BlockExact, String!FitLocal, String!NoBlock, String!Address
  <2>2. CASE ~ (size + 1 <= Local)
    BY <2>2 DEF StringKept, String!BlockExact, String!FitLocal, String!NoBlock, String!Address
  <2> QED
    BY <2>1, <2>2
<1>3. String!Terminated
  BY DEF StringKept, String!Terminated
<1> QED
  BY <1>1, <1>2, <1>3 DEF String!ContentsExact

-----------------------------------------------------------------------------
(* priority_set: every node is at an address of its own and has a key of its own, what is   *)
(* not a node is free, and the table has an entry for each node.                            *)

Node == [key : Key, priority : Priority]

\* An entry of the node at a, and the sequence of the nodes themselves.
Entry(h, a) == [ptr |-> a, node |-> a, hash |-> Hash[h[a].key]]
Table(s, h) == {Entry(h, s[i]) : i \in 1..Len(s)}
Line(s, h) == [i \in 1..Len(s) |-> h[s[i]]]

NodesKept(s, h) ==
  /\ s \in Seq(NodeAddress) /\ h \in [NodeAddress -> Node \cup {Priorities!Free}]
  /\ \A a \in NodeAddress : h[a] \in Node <=> \E i \in 1..Len(s) : s[i] = a
  /\ \A i, j \in 1..Len(s) : h[s[i]].key = h[s[j]].key => i = j

\* No node has the key.
Keyless(s, h, k) == \A i \in 1..Len(s) : h[s[i]].key # k

PriorityKept == NodesKept(buffer, storage) /\ members = Table(buffer, storage) /\ refused = FALSE

\* That is so until a change of a priority moves a node, and again after a clear().
PriorityInv == taken \in BOOLEAN /\ refused \in BOOLEAN /\ (~taken => PriorityKept)

LEMMA InsertAtIs ==
  ASSUME NEW S, NEW s \in Seq(S), NEW i \in 1..(Len(s) + 1), NEW x \in S
  PROVE  /\ InsertAt(s, i, x) \in Seq(S) /\ Len(InsertAt(s, i, x)) = Len(s) + 1
         /\ \A j \in 1..(Len(s) + 1) :
              InsertAt(s, i, x)[j] = IF j < i THEN s[j] ELSE IF j = i THEN x ELSE s[j - 1]
<1> DEFINE L == Len(s)
           k == i - 1
           a == SubSeq(s, 1, k)
           c == SubSeq(s, i, L)
           all == (a \o <<x>>) \o c
<1>0. L \in Nat /\ i \in Nat /\ k \in Nat /\ k <= L /\ i = k + 1
  OBVIOUS
<1>1. a \in Seq(S) /\ Len(a) = k /\ \A j \in 1..k : a[j] = s[j]
  <2>1. SubSeq(s, 0 + 1, k) \in Seq(S) /\ Len(SubSeq(s, 0 + 1, k)) = k - 0
        /\ \A j \in 1..(k - 0) : SubSeq(s, 0 + 1, k)[j] = s[0 + j]
    BY <1>0, PartIs
  <2>2. 0 + 1 = 1 /\ k - 0 = k /\ \A j \in 1..k : 0 + j = j
    BY <1>0
  <2> QED
    BY <2>1, <2>2
<1>2. c \in Seq(S) /\ Len(c) = L - k /\ \A j \in 1..(L - k) : c[j] = s[k + j]
  <2>1. SubSeq(s, k + 1, L) \in Seq(S) /\ Len(SubSeq(s, k + 1, L)) = L - k
        /\ \A j \in 1..(L - k) : SubSeq(s, k + 1, L)[j] = s[k + j]
    BY <1>0, PartIs
  <2> QED
    BY <1>0, <2>1
<1>3. InsertAt(s, i, x) = all
  BY DEF InsertAt
<1> DEFINE b == a \o <<x>>
<1> HIDE DEF L, k, a, c
<1>4. b \in Seq(S) /\ Len(b) = k + 1 /\ \A j \in 1..(k + 1) : b[j] = IF j <= k THEN a[j] ELSE x
  <2>1. <<x>> \in Seq(S) /\ Len(<<x>>) = 1 /\ <<x>>[1] = x
    OBVIOUS
  <2>2. /\ b \in Seq(S) /\ Len(b) = Len(a) + Len(<<x>>)
        /\ \A j \in 1..(Len(a) + Len(<<x>>)) : b[j] = IF j <= Len(a) THEN a[j] ELSE <<x>>[j - Len(a)]
    BY <1>1, <2>1, ConcatProperties
  <2>3. \A j \in 1..(k + 1) : j <= k \/ j - k = 1
    BY <1>0
  <2> QED
    BY <1>1, <2>1, <2>2, <2>3
<1> HIDE DEF b
<1>5. /\ b \o c \in Seq(S) /\ Len(b \o c) = Len(b) + Len(c)
      /\ \A j \in 1..(Len(b) + Len(c)) : (b \o c)[j] = IF j <= Len(b) THEN b[j] ELSE c[j - Len(b)]
  BY <1>2, <1>4, ConcatProperties
<1>6. all = b \o c
  BY DEF b
<1> HIDE DEF all
<1>7. Len(b) + Len(c) = L + 1 /\ Len(b) = k + 1 /\ Len(c) = L - k
  BY <1>0, <1>2, <1>4
<1>8. ASSUME NEW j \in 1..(L + 1)
      PROVE  all[j] = IF j < i THEN s[j] ELSE IF j = i THEN x ELSE s[j - 1]
  <2>0. j \in Nat /\ 1 <= j /\ j <= L + 1
    BY <1>0
  <2>a. all[j] = IF j <= k + 1 THEN b[j] ELSE c[j - (k + 1)]
    BY <1>5, <1>6, <1>7
  <2>1. CASE j <= k
    <3>1. j \in 1..(k + 1) /\ j \in 1..k /\ j < i /\ j <= k + 1
      BY <1>0, <2>0, <2>1
    <3> QED
      BY <1>1, <1>4, <2>a, <2>1, <3>1
  <2>2. CASE j = k + 1
    <3>1. j \in 1..(k + 1) /\ ~ (j <= k) /\ ~ (j < i) /\ j = i /\ j <= k + 1
      BY <1>0, <2>0, <2>2
    <3> QED
      BY <1>4, <2>a, <3>1
  <2>3. CASE j > k + 1
    <3>1. j - (k + 1) \in 1..(L - k) /\ k + (j - (k + 1)) = j - 1 /\ ~ (j < i) /\ j # i /\ ~ (j <= k + 1)
      BY <1>0, <2>0, <2>3
    <3>2. c[j - (k + 1)] = s[j - 1]
      BY <1>2, <3>1
    <3> QED
      BY <2>a, <3>1, <3>2
  <2>4. j <= k \/ j = k + 1 \/ j > k + 1
    BY <1>0, <2>0
  <2> QED
    BY <2>1, <2>2, <2>3, <2>4
<1> QED
  BY <1>3, <1>5, <1>6, <1>7, <1>8 DEF L

LEMMA NodesInserted ==
  ASSUME NEW s \in Seq(Node), NEW i \in 1..(Len(s) + 1), NEW x \in Node
  PROVE  /\ InsertAt(s, i, x) \in Seq(Node) /\ Len(InsertAt(s, i, x)) = Len(s) + 1
         /\ \A j \in 1..(Len(s) + 1) :
              InsertAt(s, i, x)[j] = IF j < i THEN s[j] ELSE IF j = i THEN x ELSE s[j - 1]
BY InsertAtIs

\* How many places there are of some kind.
LEMMA CountIn ==
  ASSUME NEW n \in Nat, NEW T \in SUBSET (1..n)
  PROVE  Cardinality(T) + 1 \in 1..(n + 1)
<1>1. IsFiniteSet(1..n) /\ Cardinality(1..n) = n
  BY FS_Interval
<1>2. IsFiniteSet(T) /\ Cardinality(T) <= n /\ Cardinality(T) \in Nat
  BY <1>1, FS_Subset, FS_CardinalityType
<1> QED
  BY <1>2

LEMMA PriorityLibrary ==
  ASSUME NEW s, NEW i, NEW x, NEW T
  PROVE  /\ Priorities!InsertAt(s, i, x) = InsertAt(s, i, x)
         /\ Priorities!RemoveAt(s, i) = RemoveAt(s, i)
         /\ Priorities!Queue!InsertAt(s, i, x) = InsertAt(s, i, x)
         /\ Priorities!Queue!RemoveAt(s, i) = RemoveAt(s, i)
         /\ Priorities!Cardinality(T) = Cardinality(T)
         /\ Priorities!Queue!Cardinality(T) = Cardinality(T)
BY DEF Priorities!InsertAt, InsertAt, Priorities!RemoveAt, RemoveAt, Priorities!Queue!InsertAt,
       Priorities!Queue!RemoveAt, Priorities!Cardinality, Cardinality, Priorities!Queue!Cardinality

LEMMA FreeIs == Priorities!Free \notin Node
<1>1. \A x \in Node : x.key \in Key /\ x.priority \in Priority /\ DOMAIN x = {"key", "priority"}
  BY DEF Node
<1>2. DOMAIN Priorities!Free = {"key"}
  BY DEF Priorities!Free
<1>3. "priority" \notin {"key"}
  OBVIOUS
<1> QED
  BY <1>1, <1>2, <1>3

LEMMA NodesAre ==
  ASSUME NEW s, NEW h, NodesKept(s, h)
  PROVE  /\ Len(s) \in Nat /\ DOMAIN s = 1..Len(s) /\ DOMAIN h = NodeAddress
         /\ \A i \in 1..Len(s) : s[i] \in NodeAddress /\ h[s[i]] \in Node /\ h[s[i]].key \in Key
         /\ \A i, j \in 1..Len(s) : s[i] = s[j] => i = j
         /\ Line(s, h) \in Seq(Node) /\ Len(Line(s, h)) = Len(s) /\ DOMAIN Line(s, h) = 1..Len(s)
<1>1. Len(s) \in Nat /\ DOMAIN s = 1..Len(s) /\ \A i \in 1..Len(s) : s[i] \in NodeAddress
  BY DEF NodesKept
<1>2. \A i \in 1..Len(s) : h[s[i]] \in Node
  BY <1>1 DEF NodesKept
<1>3. \A i \in 1..Len(s) : h[s[i]].key \in Key
  BY <1>2 DEF Node
<1>4. \A i, j \in 1..Len(s) : s[i] = s[j] => i = j
  BY DEF NodesKept
<1>5. Line(s, h) \in Seq(Node) /\ Len(Line(s, h)) = Len(s) /\ DOMAIN Line(s, h) = 1..Len(s)
  BY <1>1, <1>2 DEF Line
<1>6. DOMAIN h = NodeAddress
  BY DEF NodesKept
<1> QED
  BY <1>1, <1>2, <1>3, <1>4, <1>5, <1>6

LEMMA RemovedNode ==
  ASSUME NEW s, NEW h, NodesKept(s, h), NEW j \in 1..Len(s)
  PROVE  /\ NodesKept(RemoveAt(s, j), [h EXCEPT ![s[j]] = Priorities!Free])
         /\ Line(RemoveAt(s, j), [h EXCEPT ![s[j]] = Priorities!Free]) = RemoveAt(Line(s, h), j)
         /\ Table(RemoveAt(s, j), [h EXCEPT ![s[j]] = Priorities!Free]) = Table(s, h) \ {Entry(h, s[j])}
<1> DEFINE L == Len(s)
           r == RemoveAt(s, j)
           g == [h EXCEPT ![s[j]] = Priorities!Free]
           at(i) == IF i < j THEN i ELSE i + 1
<1>0. /\ L \in Nat /\ DOMAIN s = 1..L /\ j \in 1..L /\ s \in Seq(NodeAddress)
      /\ \A i \in 1..L : s[i] \in NodeAddress /\ h[s[i]] \in Node
      /\ \A i, k \in 1..L : s[i] = s[k] => i = k
      /\ \A i, k \in 1..L : h[s[i]].key = h[s[k]].key => i = k
      /\ \A a \in NodeAddress : h[a] \in Node <=> \E i \in 1..L : s[i] = a
      /\ h \in [NodeAddress -> Node \cup {Priorities!Free}]
  BY NodesAre DEF NodesKept
<1>1. r \in Seq(NodeAddress) /\ Len(r) = L - 1 /\ \A i \in 1..(L - 1) : r[i] = s[at(i)]
  <2>1. s \in Seq(NodeAddress) /\ j \in 1..Len(s)
    BY <1>0
  <2>2. RemoveAt(s, j) \in Seq(NodeAddress) /\ Len(RemoveAt(s, j)) = Len(s) - 1
        /\ \A i \in 1..(Len(s) - 1) : RemoveAt(s, j)[i] = IF i < j THEN s[i] ELSE s[i + 1]
    BY ONLY <2>1, RemoveAtIs
  <2> QED
    BY <2>2
<1> HIDE DEF r, g
<1>2. g \in [NodeAddress -> Node \cup {Priorities!Free}] /\ g[s[j]] = Priorities!Free
      /\ \A a \in NodeAddress : a # s[j] => g[a] = h[a]
  BY <1>0 DEF g
<1> HIDE DEF L
<1>3. ASSUME NEW i \in 1..(L - 1)
      PROVE  at(i) \in 1..L /\ at(i) # j /\ r[i] = s[at(i)] /\ s[at(i)] # s[j] /\ g[r[i]] = h[s[at(i)]]
             /\ r[i] \in NodeAddress
  <2>1. at(i) \in 1..L /\ at(i) # j
    BY <1>0
  <2> HIDE DEF at
  <2>2. r[i] = s[at(i)] /\ s[at(i)] # s[j] /\ s[at(i)] \in NodeAddress
    BY <1>0, <1>1, <2>1
  <2> QED
    BY <1>2, <2>1, <2>2
<1>4. ASSUME NEW k \in 1..L, k # j PROVE \E i \in 1..(L - 1) : at(i) = k
  <2> DEFINE i == IF k < j THEN k ELSE k - 1
  <2>1. i \in 1..(L - 1) /\ at(i) = k
    BY <1>0, <1>4
  <2> QED
    BY <2>1
<1>5. \A i, k \in 1..(L - 1) : at(i) = at(k) => i = k
  BY <1>0
<1> HIDE DEF at
<1>6. ASSUME NEW a \in NodeAddress PROVE g[a] \in Node <=> \E i \in 1..Len(r) : r[i] = a
  <2>1. CASE a = s[j]
    <3>1. g[a] \notin Node
      BY <1>2, <2>1, FreeIs
    <3>2. \A i \in 1..Len(r) : r[i] # a
      BY <1>1, <1>3, <2>1
    <3> QED
      BY <3>1, <3>2
  <2>2. CASE a # s[j]
    <3>1. g[a] \in Node <=> \E k \in 1..L : s[k] = a
      BY <1>0, <1>2, <2>2
    <3>2. ASSUME NEW k \in 1..L, s[k] = a PROVE \E i \in 1..Len(r) : r[i] = a
      <4>1. k # j
        BY <2>2, <3>2
      <4>2. PICK i \in 1..(L - 1) : at(i) = k
        BY <1>4, <4>1
      <4> QED
        BY <1>1, <3>2, <4>2
    <3>3. ASSUME NEW i \in 1..Len(r), r[i] = a PROVE \E k \in 1..L : s[k] = a
      BY <1>1, <1>3, <3>3
    <3> QED
      BY <3>1, <3>2, <3>3
  <2> QED
    BY <2>1, <2>2
<1>7. ASSUME NEW i \in 1..Len(r), NEW k \in 1..Len(r), g[r[i]].key = g[r[k]].key PROVE i = k
  <2>1. i \in 1..(L - 1) /\ k \in 1..(L - 1)
    BY <1>1
  <2>2. h[s[at(i)]].key = h[s[at(k)]].key /\ at(i) \in 1..L /\ at(k) \in 1..L
    BY <1>3, <1>7, <2>1
  <2>3. at(i) = at(k)
    BY <1>0, <2>2
  <2> QED
    BY <1>5, <2>1, <2>3
<1>8. NodesKept(r, g)
  BY <1>1, <1>2, <1>6, <1>7 DEF NodesKept
<1>9. Line(r, g) = RemoveAt(Line(s, h), j)
  <2> DEFINE q == Line(s, h)
  <2>1. q \in Seq(Node) /\ Len(q) = L /\ DOMAIN q = 1..L /\ \A i \in 1..L : q[i] = h[s[i]]
    BY NodesAre DEF L, Line
  <2> HIDE DEF q
  <2>2. /\ RemoveAt(q, j) \in Seq(Node) /\ Len(RemoveAt(q, j)) = L - 1
        /\ \A i \in 1..(L - 1) : RemoveAt(q, j)[i] = q[at(i)]
    <3>1. q \in Seq(Node) /\ j \in DOMAIN q
      BY <1>0, <2>1
    <3>2. RemoveAt(q, j) \in Seq(Node) /\ Len(RemoveAt(q, j)) = Len(q) - 1
          /\ \A i \in 1..(Len(q) - 1) : RemoveAt(q, j)[i] = q[IF i < j THEN i ELSE i + 1]
      BY ONLY <3>1, RemoveAtIs
    <3> QED
      BY <2>1, <3>2 DEF at
  <2>3. Line(r, g) \in Seq(Node) /\ Len(Line(r, g)) = L - 1 /\ \A i \in 1..(L - 1) : Line(r, g)[i] = g[r[i]]
    <3>1. Line(r, g) \in Seq(Node) /\ Len(Line(r, g)) = Len(r)
      BY <1>8, NodesAre
    <3> QED
      BY <1>1, <3>1 DEF Line
  <2>4. ASSUME NEW i \in 1..(L - 1) PROVE Line(r, g)[i] = RemoveAt(q, j)[i]
    <3>1. Line(r, g)[i] = h[s[at(i)]]
      BY <1>3, <2>3
    <3>2. RemoveAt(q, j)[i] = h[s[at(i)]]
      BY <1>3, <2>1, <2>2
    <3> QED
      BY <3>1, <3>2
  <2>5. Line(r, g) = RemoveAt(q, j)
    BY <2>2, <2>3, <2>4, SeqEqual
  <2> QED
    BY <2>5 DEF q
<1>10. Table(r, g) = Table(s, h) \ {Entry(h, s[j])}
  <2>1. \A i \in 1..(L - 1) : Entry(g, r[i]) = Entry(h, s[at(i)])
    BY <1>3 DEF Entry
  <2>2. \A k \in 1..L : Entry(h, s[k]) = Entry(h, s[j]) <=> k = j
    <3>1. \A k \in 1..L : Entry(h, s[k]).ptr = s[k]
      BY DEF Entry
    <3> QED
      BY <1>0, <3>1
  <2>3. ASSUME NEW e \in Table(r, g) PROVE e \in Table(s, h) \ {Entry(h, s[j])}
    <3>1. PICK i \in 1..(L - 1) : e = Entry(g, r[i])
      BY <1>1 DEF Table
    <3>2. e = Entry(h, s[at(i)]) /\ at(i) \in 1..L /\ at(i) # j
      BY <1>3, <2>1, <3>1
    <3> QED
      BY <2>2, <3>2 DEF Table, L
  <2>4. ASSUME NEW e \in Table(s, h), e # Entry(h, s[j]) PROVE e \in Table(r, g)
    <3>1. PICK k \in 1..L : e = Entry(h, s[k])
      BY DEF Table, L
    <3>2. PICK i \in 1..(L - 1) : at(i) = k
      BY <1>4, <2>4, <3>1
    <3>3. e = Entry(g, r[i]) /\ i \in 1..Len(r)
      BY <1>1, <2>1, <3>1, <3>2
    <3> QED
      BY <3>3 DEF Table
  <2> QED
    BY <2>3, <2>4
<1> QED
  BY <1>8, <1>9, <1>10 DEF r, g

\* The nodes s at h become those r at g by a new one, x, at a, in place c.
Grows(s, h, c, a, x, r, g) ==
  /\ NodesKept(s, h) /\ c \in 1..(Len(s) + 1) /\ a \in NodeAddress /\ x \in Node
  /\ h[a] = Priorities!Free /\ Keyless(s, h, x.key)
  /\ r = InsertAt(s, c, a) /\ g = [h EXCEPT ![a] = x]

LEMMA InsertedNode ==
  ASSUME NEW s, NEW h, NEW c, NEW a, NEW x, NEW r, NEW g, Grows(s, h, c, a, x, r, g)
  PROVE  /\ NodesKept(r, g)
         /\ Line(r, g) = InsertAt(Line(s, h), c, x)
         /\ Table(r, g) = Table(s, h) \cup {[ptr |-> a, node |-> a, hash |-> Hash[x.key]]}
<1> DEFINE L == Len(s)
           new == [ptr |-> a, node |-> a, hash |-> Hash[x.key]]
           to(i) == IF i < c THEN i ELSE i + 1
<1>a. /\ NodesKept(s, h) /\ c \in 1..(Len(s) + 1) /\ a \in NodeAddress /\ x \in Node
      /\ h[a] = Priorities!Free /\ Keyless(s, h, x.key)
      /\ r = InsertAt(s, c, a) /\ g = [h EXCEPT ![a] = x]
  BY DEF Grows
<1>0. /\ L \in Nat /\ DOMAIN s = 1..L /\ c \in 1..(L + 1) /\ s \in Seq(NodeAddress)
      /\ \A i \in 1..L : s[i] \in NodeAddress /\ h[s[i]] \in Node
      /\ \A i, k \in 1..L : h[s[i]].key = h[s[k]].key => i = k
      /\ \A b \in NodeAddress : h[b] \in Node <=> \E i \in 1..L : s[i] = b
      /\ h \in [NodeAddress -> Node \cup {Priorities!Free}]
  BY <1>a, NodesAre DEF NodesKept
<1>1. /\ r \in Seq(NodeAddress) /\ Len(r) = L + 1
      /\ \A i \in 1..(L + 1) : r[i] = IF i < c THEN s[i] ELSE IF i = c THEN a ELSE s[i - 1]
  <2>1. s \in Seq(NodeAddress) /\ c \in 1..(Len(s) + 1) /\ a \in NodeAddress
    BY <1>0, <1>a
  <2>2. /\ InsertAt(s, c, a) \in Seq(NodeAddress) /\ Len(InsertAt(s, c, a)) = Len(s) + 1
        /\ \A i \in 1..(Len(s) + 1) :
             InsertAt(s, c, a)[i] = IF i < c THEN s[i] ELSE IF i = c THEN a ELSE s[i - 1]
    BY ONLY <2>1, InsertAtIs
  <2> QED
    BY <1>a, <2>2
<1>2. \A i \in 1..L : s[i] # a
  BY <1>0, <1>a, FreeIs
<1> HIDE DEF new, L
<1>3. g \in [NodeAddress -> Node \cup {Priorities!Free}] /\ g[a] = x
      /\ \A b \in NodeAddress : b # a => g[b] = h[b]
  BY <1>0, <1>a
<1>4. ASSUME NEW i \in 1..L
      PROVE  to(i) \in 1..(L + 1) /\ to(i) # c /\ r[to(i)] = s[i] /\ g[s[i]] = h[s[i]]
  <2>1. to(i) \in 1..(L + 1) /\ to(i) # c
    BY <1>0
  <2>2. CASE i < c
    BY <1>0, <1>1, <1>2, <1>3, <2>1, <2>2
  <2>3. CASE ~ (i < c)
    <3>1. to(i) = i + 1 /\ ~ (i + 1 < c) /\ i + 1 # c /\ (i + 1) - 1 = i
      BY <1>0, <2>3
    <3> QED
      BY <1>0, <1>1, <1>2, <1>3, <2>1, <3>1
  <2> QED
    BY <2>2, <2>3
<1>5. ASSUME NEW k \in 1..(L + 1), k # c PROVE \E i \in 1..L : to(i) = k
  <2> DEFINE i == IF k < c THEN k ELSE k - 1
  <2>1. i \in 1..L /\ to(i) = k
    BY <1>0, <1>5
  <2> QED
    BY <2>1
<1>6. r[c] = a /\ c \in 1..(L + 1)
  BY <1>0, <1>1
<1> HIDE DEF to
<1>7. ASSUME NEW k \in 1..(L + 1) PROVE k = c \/ \E i \in 1..L : k = to(i) /\ r[k] = s[i] /\ g[r[k]] = h[s[i]]
  BY <1>4, <1>5
<1>8. ASSUME NEW b \in NodeAddress PROVE g[b] \in Node <=> \E i \in 1..Len(r) : r[i] = b
  <2>1. CASE b = a
    BY <1>1, <1>3, <1>6, <1>a, <2>1
  <2>2. CASE b # a
    <3>1. g[b] \in Node <=> \E k \in 1..L : s[k] = b
      BY <1>0, <1>3, <2>2
    <3>2. ASSUME NEW k \in 1..L, s[k] = b PROVE \E i \in 1..Len(r) : r[i] = b
      BY <1>1, <1>4, <3>2
    <3>3. ASSUME NEW k \in 1..Len(r), r[k] = b PROVE \E i \in 1..L : s[i] = b
      <4>1. k \in 1..(L + 1) /\ k # c
        BY <1>1, <1>6, <2>2, <3>3
      <4>2. \E i \in 1..L : k = to(i) /\ r[k] = s[i]
        BY <1>7, <4>1
      <4> QED
        BY <3>3, <4>2
    <3> QED
      BY <3>1, <3>2, <3>3
  <2> QED
    BY <2>1, <2>2
<1>9. ASSUME NEW i \in 1..Len(r), NEW k \in 1..Len(r), g[r[i]].key = g[r[k]].key PROVE i = k
  <2>1. i \in 1..(L + 1) /\ k \in 1..(L + 1)
    BY <1>1
  <2>2. g[r[c]].key = x.key
    BY <1>3, <1>6
  <2>3. \A m \in 1..L : h[s[m]].key # x.key
    BY <1>a DEF L, Keyless
  <2>4. CASE i = c \/ k = c
    BY <1>7, <1>9, <2>1, <2>2, <2>3, <2>4
  <2>5. CASE i # c /\ k # c
    <3>1. PICK m \in 1..L : i = to(m) /\ g[r[i]] = h[s[m]]
      BY <1>7, <2>1, <2>5
    <3>2. PICK l \in 1..L : k = to(l) /\ g[r[k]] = h[s[l]]
      BY <1>7, <2>1, <2>5
    <3>3. m = l
      BY <1>0, <1>9, <3>1, <3>2
    <3> QED
      BY <3>1, <3>2, <3>3
  <2> QED
    BY <2>4, <2>5
<1>10. NodesKept(r, g)
  BY <1>1, <1>3, <1>8, <1>9 DEF NodesKept
<1>11. Line(r, g) = InsertAt(Line(s, h), c, x)
  <2>0. PICK q : q = Line(s, h)
    OBVIOUS
  <2> DEFINE p == InsertAt(q, c, x)
  <2>1. q \in Seq(Node) /\ Len(q) = L /\ \A i \in 1..L : q[i] = h[s[i]]
    BY <1>a, <2>0, NodesAre DEF L, Line
  <2>2. /\ p \in Seq(Node) /\ Len(p) = L + 1
        /\ \A i \in 1..(L + 1) : p[i] = IF i < c THEN q[i] ELSE IF i = c THEN x ELSE q[i - 1]
    <3>1. q \in Seq(Node) /\ c \in 1..(Len(q) + 1) /\ x \in Node
      BY <1>0, <1>a, <2>1
    <3>2. /\ InsertAt(q, c, x) \in Seq(Node) /\ Len(InsertAt(q, c, x)) = Len(q) + 1
          /\ \A i \in 1..(Len(q) + 1) :
               InsertAt(q, c, x)[i] = IF i < c THEN q[i] ELSE IF i = c THEN x ELSE q[i - 1]
      BY ONLY <3>1, NodesInserted, ZenonT(60)
    <3> QED
      BY <2>1, <3>2
  <2> HIDE DEF p
  <2>3. Line(r, g) \in Seq(Node) /\ Len(Line(r, g)) = L + 1 /\ \A i \in 1..(L + 1) : Line(r, g)[i] = g[r[i]]
    <3>1. Line(r, g) \in Seq(Node) /\ Len(Line(r, g)) = Len(r)
      BY <1>10, NodesAre
    <3> QED
      BY <1>1, <3>1 DEF Line
  <2>4. ASSUME NEW i \in 1..(L + 1) PROVE Line(r, g)[i] = p[i]
    <3>0. i \in Nat /\ 1 <= i /\ i <= L + 1 /\ c \in Nat
      BY <1>0
    <3>1. CASE i < c
      <4>1. i \in 1..L
        BY <1>0, <3>0, <3>1
      <4>2. r[i] = s[i]
        BY <1>1, <3>1
      <4>3. g[s[i]] = h[s[i]]
        BY <1>4, <4>1
      <4> QED
        BY <2>1, <2>2, <2>3, <3>1, <4>1, <4>2, <4>3
    <3>2. CASE i = c
      <4>1. Line(r, g)[i] = x
        BY <1>3, <1>6, <2>3, <3>2
      <4>2. p[i] = x
        BY <1>6, <2>2, <3>0, <3>2
      <4> QED
        BY <4>1, <4>2
    <3>3. CASE ~ (i < c) /\ i # c
      <4>1. i - 1 \in 1..L
        BY <1>0, <3>0, <3>3
      <4>2. r[i] = s[i - 1]
        BY <1>1, <3>3
      <4>3. g[s[i - 1]] = h[s[i - 1]]
        BY <1>4, <4>1
      <4> QED
        BY <2>1, <2>2, <2>3, <3>3, <4>1, <4>2, <4>3
    <3> QED
      BY <3>1, <3>2, <3>3
  <2>5. Line(r, g) = p
    BY <2>2, <2>3, <2>4, SeqEqual
  <2> QED
    BY <2>0, <2>5 DEF p
<1>12. Table(r, g) = Table(s, h) \cup {new}
  <2>1. Entry(g, a) = new /\ \A i \in 1..L : Entry(g, s[i]) = Entry(h, s[i])
    BY <1>3, <1>4 DEF Entry, new
  <2>2. ASSUME NEW e \in Table(r, g) PROVE e \in Table(s, h) \cup {new}
    <3>1. PICK k \in 1..(L + 1) : e = Entry(g, r[k])
      BY <1>1 DEF Table
    <3>2. CASE k = c
      BY <1>6, <2>1, <3>1, <3>2
    <3>3. CASE k # c
      <4>1. PICK i \in 1..L : r[k] = s[i]
        BY <1>7, <3>3
      <4> QED
        BY <2>1, <3>1, <4>1 DEF Table, L
    <3> QED
      BY <3>2, <3>3
  <2>3. ASSUME NEW e \in Table(s, h) PROVE e \in Table(r, g)
    <3>1. PICK i \in 1..L : e = Entry(h, s[i])
      BY DEF Table, L
    <3>2. e = Entry(g, r[to(i)]) /\ to(i) \in 1..Len(r)
      BY <1>1, <1>4, <2>1, <3>1
    <3> QED
      BY <3>2 DEF Table
  <2>4. new \in Table(r, g)
    <3>1. new = Entry(g, r[c]) /\ c \in 1..Len(r)
      BY <1>1, <1>6, <2>1
    <3> QED
      BY <3>1 DEF Table
  <2> QED
    BY <2>2, <2>3, <2>4
<1> QED
  BY <1>10, <1>11, <1>12 DEF new

\* A search finds the entry of the node that has the key, or that there is none.
LEMMA FoundIs ==
  ASSUME NEW s, NEW h, NodesKept(s, h), members = Table(s, h), NEW g,
         \A i \in 1..Len(s) : g[s[i]] \in Node /\ g[s[i]].key = h[s[i]].key,
         NEW k \in Key, NEW e \in Priorities!Found(g, k)
  PROVE  \/ e = Priorities!Missing /\ Keyless(s, h, k)
         \/ e # Priorities!Missing /\ \E i \in 1..Len(s) : e = Entry(h, s[i]) /\ h[s[i]].key = k
<1> DEFINE Code == {d \in members : d.hash = Hash[k]}
           Equal == {d \in Code : g[d.ptr] # Priorities!Free /\ g[d.ptr].key = k}
           Dangling == {d \in Code : g[d.ptr] = Priorities!Free}
<1>1. e \in Equal \cup Dangling \cup (IF Equal = {} THEN {Priorities!Missing} ELSE {})
  BY DEF Priorities!Found
<1> HIDE DEF Code, Equal, Dangling
<1>2. \A i \in 1..Len(s) : Entry(h, s[i]).ptr = s[i] /\ Entry(h, s[i]).hash = Hash[h[s[i]].key]
  BY DEF Entry
<1>3. \A i \in 1..Len(s) : g[s[i]] # Priorities!Free
  BY FreeIs
<1>4. Dangling = {}
  <2>1. ASSUME NEW d \in Dangling PROVE FALSE
    <3>1. d \in members /\ g[d.ptr] = Priorities!Free
      BY DEF Dangling, Code
    <3>2. PICK i \in 1..Len(s) : d = Entry(h, s[i])
      BY <3>1 DEF Table
    <3> QED
      BY <1>2, <1>3, <3>1, <3>2
  <2> QED
    BY <2>1
<1>5. ASSUME NEW d \in Equal PROVE \E i \in 1..Len(s) : d = Entry(h, s[i]) /\ h[s[i]].key = k
  <2>1. d \in members /\ g[d.ptr].key = k
    BY DEF Equal, Code
  <2>2. PICK i \in 1..Len(s) : d = Entry(h, s[i])
    BY <2>1 DEF Table
  <2> QED
    BY <1>2, <2>1, <2>2
<1>6. ASSUME NEW i \in 1..Len(s), h[s[i]].key = k PROVE Entry(h, s[i]) \in Equal
  <2>1. Entry(h, s[i]) \in members
    BY DEF Table
  <2> QED
    BY <1>2, <1>3, <1>6, <2>1 DEF Equal, Code
<1>7. \A a : Entry(h, a) # Priorities!Missing
  <2>1. \A a : DOMAIN Entry(h, a) = {"ptr", "node", "hash"}
    BY DEF Entry
  <2>2. DOMAIN Priorities!Missing = {"hash"}
    BY DEF Priorities!Missing
  <2>3. "ptr" \notin {"hash"}
    OBVIOUS
  <2> QED
    BY <2>1, <2>2, <2>3
<1>8. CASE e \in Equal
  BY <1>5, <1>7, <1>8
<1>9. CASE e \notin Equal
  <2>1. Equal = {} /\ e = Priorities!Missing
    BY <1>1, <1>4, <1>9
  <2> QED
    BY <1>6, <2>1 DEF Keyless
<1> QED
  BY <1>8, <1>9

\* The node of a key is taken out.
LEMMA WithoutIs ==
  ASSUME PriorityKept, NEW j \in 1..Len(buffer)
  PROVE  /\ Priorities!Without(buffer[j]) = RemoveAt(buffer, j)
         /\ Priorities!Queue!Without(storage[buffer[j]].key) = RemoveAt(Line(buffer, storage), j)
<1> DEFINE q == [i \in DOMAIN buffer |-> storage[buffer[i]]]
           k == storage[buffer[j]].key
<1>0. /\ DOMAIN buffer = 1..Len(buffer)
      /\ \A i, l \in 1..Len(buffer) : buffer[i] = buffer[l] => i = l
      /\ \A i, l \in 1..Len(buffer) : storage[buffer[i]].key = storage[buffer[l]].key => i = l
  BY NodesAre DEF PriorityKept, NodesKept
<1>1. (CHOOSE i \in DOMAIN buffer : buffer[i] = buffer[j]) = j
  BY <1>0
<1>2. Priorities!Without(buffer[j]) = RemoveAt(buffer, j)
  BY <1>1, PriorityLibrary DEF Priorities!Without
<1>3. q = Line(buffer, storage) /\ DOMAIN q = 1..Len(buffer) /\ \A i \in 1..Len(buffer) : q[i] = storage[buffer[i]]
  BY <1>0 DEF Line
<1>4. k \in Priorities!Queue!Keys
  BY <1>3 DEF Priorities!Queue!Keys
<1>5. Priorities!Queue!Without(k) = RemoveAt(q, CHOOSE i \in DOMAIN q : q[i].key = k)
  BY <1>4, PriorityLibrary DEF Priorities!Queue!Without
<1> HIDE DEF q
<1>6. (CHOOSE i \in DOMAIN q : q[i].key = k) = j
  BY <1>0, <1>3
<1> QED
  BY <1>2, <1>3, <1>5, <1>6

LEMMA ErasedNode ==
  ASSUME PriorityKept, NEW j \in 1..Len(buffer), NEW r, NEW g, r = Priorities!Without(buffer[j]),
         g = [storage EXCEPT ![buffer[j]] = Priorities!Free]
  PROVE  /\ NodesKept(r, g)
         /\ Line(r, g) = Priorities!Queue!Without(storage[buffer[j]].key)
         /\ Table(r, g) = members \ {Entry(storage, buffer[j])}
         /\ Keyless(r, g, storage[buffer[j]].key)
<1>0. NodesKept(buffer, storage) /\ j \in 1..Len(buffer) /\ members = Table(buffer, storage)
      /\ r = RemoveAt(buffer, j) /\ RemoveAt(Line(buffer, storage), j) = Priorities!Queue!Without(storage[buffer[j]].key)
  BY WithoutIs DEF PriorityKept
<1>1. NodesKept(buffer, storage) /\ j \in 1..Len(buffer)
  BY <1>0
<1>2. /\ NodesKept(RemoveAt(buffer, j), [storage EXCEPT ![buffer[j]] = Priorities!Free])
      /\ Line(RemoveAt(buffer, j), [storage EXCEPT ![buffer[j]] = Priorities!Free]) = RemoveAt(Line(buffer, storage), j)
      /\ Table(RemoveAt(buffer, j), [storage EXCEPT ![buffer[j]] = Priorities!Free])
           = Table(buffer, storage) \ {Entry(storage, buffer[j])}
  BY ONLY <1>1, RemovedNode
<1>3. NodesKept(r, g) /\ Line(r, g) = RemoveAt(Line(buffer, storage), j)
      /\ Table(r, g) = members \ {Entry(storage, buffer[j])}
  BY <1>0, <1>2
<1>4. ASSUME NEW m \in 1..Len(r) PROVE g[r[m]].key # storage[buffer[j]].key
  <2> DEFINE b == buffer[j]
  <2>1. r[m] \in NodeAddress /\ g[r[m]] \in Node /\ storage \in [NodeAddress -> Node \cup {Priorities!Free}]
        /\ b \in NodeAddress
    BY <1>1, <1>3, NodesAre DEF NodesKept
  <2> HIDE DEF b
  <2>2. r[m] # b /\ g[r[m]] = storage[r[m]]
    BY <2>1, FreeIs DEF b
  <2>3. PICK i \in 1..Len(buffer) : buffer[i] = r[m]
    BY <1>1, <2>1, <2>2 DEF NodesKept
  <2>4. i # j
    BY <2>2, <2>3 DEF b
  <2> QED
    BY <1>1, <2>2, <2>3, <2>4 DEF NodesKept
<1> QED
  BY <1>0, <1>3, <1>4 DEF Keyless

\* A node is put behind those that are not greater.
Places(s, h, a, k, p, r, g) ==
  /\ NodesKept(s, h) /\ a \in NodeAddress /\ h[a] = Priorities!Free
  /\ k \in Key /\ p \in Priority /\ Keyless(s, h, k)
  /\ g = [h EXCEPT ![a] = [key |-> k, priority |-> p]] /\ r = Priorities!Placed(g, s, a)

LEMMA PlacedNode ==
  ASSUME NEW s, NEW h, NEW a, NEW k, NEW p, NEW r, NEW g, Places(s, h, a, k, p, r, g)
  PROVE  /\ NodesKept(r, g)
         /\ Line(r, g) = Priorities!Queue!Inserted(Line(s, h), k, p)
         /\ Table(r, g) = Table(s, h) \cup {[ptr |-> a, node |-> a, hash |-> Hash[k]]}
<1> DEFINE x == [key |-> k, priority |-> p]
           T == {i \in 1..Len(s) : h[s[i]].priority <= p}
           c == Cardinality(T) + 1
           q == Line(s, h)
<1>a. /\ NodesKept(s, h) /\ a \in NodeAddress /\ h[a] = Priorities!Free
      /\ k \in Key /\ p \in Priority /\ Keyless(s, h, k)
      /\ g = [h EXCEPT ![a] = [key |-> k, priority |-> p]] /\ r = Priorities!Placed(g, s, a)
  BY DEF Places
<1>0. /\ Len(s) \in Nat /\ DOMAIN s = 1..Len(s) /\ DOMAIN h = NodeAddress
      /\ \A i \in 1..Len(s) : s[i] \in NodeAddress /\ h[s[i]] \in Node
      /\ DOMAIN q = 1..Len(s) /\ \A i \in 1..Len(s) : q[i] = h[s[i]]
  BY <1>a, NodesAre DEF Line
<1>1. x \in Node /\ x.key = k /\ x.priority = p
  BY <1>a DEF Node
<1>2. c \in 1..(Len(s) + 1)
  BY <1>0, CountIn
<1> HIDE DEF x, q
<1>3. g[a] = x /\ \A i \in 1..Len(s) : g[s[i]] = h[s[i]]
  BY <1>0, <1>a, FreeIs DEF x
<1>4. Priorities!Placed(g, s, a) = InsertAt(s, c, a)
  <2>1. {i \in DOMAIN s : g[s[i]].priority <= g[a].priority} = T
    BY <1>0, <1>1, <1>3
  <2>2. Priorities!Placed(g, s, a)
          = InsertAt(s, Cardinality({i \in DOMAIN s : g[s[i]].priority <= g[a].priority}) + 1, a)
    BY PriorityLibrary DEF Priorities!Placed
  <2> QED
    BY <2>1, <2>2
<1>5. Priorities!Queue!Inserted(q, k, p) = InsertAt(q, c, x)
  <2>1. {i \in DOMAIN q : q[i].priority <= p} = T
    BY <1>0
  <2>2. Priorities!Queue!Inserted(q, k, p)
          = InsertAt(q, Cardinality({i \in DOMAIN q : q[i].priority <= p}) + 1, x)
    BY PriorityLibrary DEF Priorities!Queue!Inserted, x
  <2> QED
    BY <2>1, <2>2
<1> HIDE DEF c
<1>6. Grows(s, h, c, a, x, r, g)
  <2>1. r = InsertAt(s, c, a) /\ g = [h EXCEPT ![a] = x]
    BY <1>4, <1>a DEF x
  <2> QED
    BY <1>1, <1>2, <1>a, <2>1 DEF Grows
<1>7. /\ NodesKept(r, g)
      /\ Line(r, g) = InsertAt(Line(s, h), c, x)
      /\ Table(r, g) = Table(s, h) \cup {[ptr |-> a, node |-> a, hash |-> Hash[x.key]]}
  BY ONLY <1>6, InsertedNode
<1>9. Line(r, g) = Priorities!Queue!Inserted(q, k, p)
  BY <1>5, <1>7 DEF q
<1> QED
  BY <1>1, <1>7, <1>9 DEF q

\* What Priorities!Queue calls queue, and its other operators on it.
LEMMA QueueIs ==
  ASSUME PriorityKept
  PROVE  /\ [i \in DOMAIN buffer |-> storage[buffer[i]]] = Line(buffer, storage)
         /\ \A k, p : Priorities!Queue!Holds(k, p) <=>
              \E i \in 1..Len(buffer) : storage[buffer[i]] = [key |-> k, priority |-> p]
         /\ \A k : Keyless(buffer, storage, k) =>
              Priorities!Queue!Without(k) = Line(buffer, storage)
<1>0. /\ DOMAIN buffer = 1..Len(buffer) /\ DOMAIN Line(buffer, storage) = 1..Len(buffer)
      /\ \A i \in 1..Len(buffer) : Line(buffer, storage)[i] = storage[buffer[i]]
  BY NodesAre DEF PriorityKept, Line
<1>1. [i \in DOMAIN buffer |-> storage[buffer[i]]] = Line(buffer, storage)
  BY <1>0 DEF Line
<1>2. ASSUME NEW k, NEW p
      PROVE  Priorities!Queue!Holds(k, p) <=>
               \E i \in 1..Len(buffer) : storage[buffer[i]] = [key |-> k, priority |-> p]
  <2>1. Priorities!Queue!Holds(k, p) <=>
          \E i \in DOMAIN Line(buffer, storage) : Line(buffer, storage)[i] = [key |-> k, priority |-> p]
    BY <1>1 DEF Priorities!Queue!Holds
  <2> QED
    BY <1>0, <2>1
<1>3. ASSUME NEW k, Keyless(buffer, storage, k)
      PROVE  Priorities!Queue!Without(k) = Line(buffer, storage)
  <2>1. Priorities!Queue!Keys = {Line(buffer, storage)[i].key : i \in DOMAIN Line(buffer, storage)}
    BY <1>1 DEF Priorities!Queue!Keys
  <2>2. k \notin Priorities!Queue!Keys
    BY <1>0, <1>3, <2>1 DEF Keyless
  <2> QED
    BY <1>1, <2>2 DEF Priorities!Queue!Without
<1> QED
  BY <1>1, <1>2, <1>3

\* Outcome of a step: the invariant again, and the new queue.
Becomes(q) == PriorityKept' /\ Line(buffer, storage)' = q

LEMMA CreateStays ==
  ASSUME PriorityKept, NEW k \in Key, NEW p \in Priority, Keyless(buffer, storage, k), Priorities!Create(k, p)
  PROVE  Becomes(Priorities!Queue!Inserted(Priorities!Queue!Without(k), k, p))
<1>1. PICK a \in {b \in NodeAddress : ~ Priorities!Live(b)} :
        LET h == [storage EXCEPT ![a] = [key |-> k, priority |-> p]]
        IN  /\ storage' = h /\ buffer' = Priorities!Placed(h, buffer, a)
            /\ Priorities!Enter(h, k, a) /\ UNCHANGED <<refused, taken>>
  BY DEF Priorities!Create
<1>2. /\ a \in NodeAddress /\ storage[a] = Priorities!Free
      /\ storage' = [storage EXCEPT ![a] = [key |-> k, priority |-> p]]
      /\ buffer' = Priorities!Placed(storage', buffer, a) /\ Priorities!Enter(storage', k, a) /\ refused' = refused
  BY <1>1 DEF Priorities!Live
<1> DEFINE h == storage'
           s == buffer'
<1>3. NodesKept(buffer, storage) /\ members = Table(buffer, storage) /\ refused = FALSE
  BY DEF PriorityKept
<1>4. /\ NodesKept(s, h)
      /\ Line(s, h) = Priorities!Queue!Inserted(Line(buffer, storage), k, p)
      /\ Table(s, h) = Table(buffer, storage) \cup {[ptr |-> a, node |-> a, hash |-> Hash[k]]}
  <2>1. Places(buffer, storage, a, k, p, s, h)
    BY <1>2, <1>3 DEF Places
  <2> QED
    BY ONLY <2>1, PlacedNode
<1> HIDE DEF h
<1>5. ASSUME NEW i \in 1..Len(buffer) PROVE h[buffer[i]] \in Node /\ h[buffer[i]].key = storage[buffer[i]].key
  <2>1. buffer[i] \in NodeAddress /\ storage[buffer[i]] \in Node /\ DOMAIN storage = NodeAddress
    BY <1>3, NodesAre
  <2>2. buffer[i] # a
    BY <1>2, <2>1, FreeIs
  <2> QED
    BY <1>2, <2>1, <2>2 DEF h
<1>6. PICK e \in Priorities!Found(h, k) :
        members' = IF e = Priorities!Missing THEN members \cup {[ptr |-> a, node |-> a, hash |-> Hash[k]]}
                   ELSE (members \ {e}) \cup {[e EXCEPT !.node = a]}
  BY <1>2 DEF Priorities!Enter, h
<1>7. e = Priorities!Missing
  BY <1>3, <1>5, FoundIs DEF Keyless
<1>8. members' = Table(s, h)
  BY <1>3, <1>4, <1>6, <1>7
<1>9. Priorities!Queue!Without(k) = Line(buffer, storage)
  BY QueueIs
<1> QED
  BY <1>2, <1>3, <1>4, <1>8, <1>9 DEF h, Becomes, PriorityKept, NodesKept, Line, Table, Entry, Node

\* Replacing a node in the same place.
LEMMA ReplaceStays ==
  ASSUME PriorityAssumption, ~taken', PriorityKept, NEW k \in Key, NEW p \in Priority,
         NEW i \in 1..Len(buffer), storage[buffer[i]].key = k, NEW e, e = Entry(storage, buffer[i]),
         Priorities!Replace(e, p)
  PROVE  \/ UNCHANGED <<buffer, storage, members, refused>>
         \/ ~ Priorities!Queue!Holds(k, p) /\
            Becomes(Priorities!Queue!Inserted(Priorities!Queue!Without(k), k, p))
<1> DEFINE a == buffer[i]
           free == [storage EXCEPT ![a] = Priorities!Free]
           rest == Priorities!Without(a)
<1>3. NodesKept(buffer, storage) /\ members = Table(buffer, storage) /\ refused = FALSE
  BY DEF PriorityKept
<1>0. /\ a \in NodeAddress /\ storage[a] \in Node /\ DOMAIN storage = NodeAddress /\ storage[a].key = k
      /\ Priorities!Live(a) /\ e.node = a /\ e.ptr = a /\ e.hash = Hash[k] /\ e \in members
      /\ e = [ptr |-> a, node |-> a, hash |-> Hash[k]]
  BY <1>3, NodesAre, FreeIs DEF Entry, Priorities!Live, Table
<1>1. CASE storage[a].priority = p
  BY <1>0, <1>1 DEF Priorities!Replace, Priorities!vars
<1>2. CASE storage[a].priority # p
  <2>1. /\ storage' = [storage EXCEPT ![a] = Priorities!Free, ![a] = [key |-> k, priority |-> p]]
        /\ buffer' = Priorities!Placed(storage', rest, a) /\ Priorities!Enter(storage', k, a) /\ refused' = refused
    <3>1. PICK b \in {b \in NodeAddress : ~ Priorities!Live(b)} \cup {a} :
            LET h == [storage EXCEPT ![a] = Priorities!Free, ![b] = [key |-> k, priority |-> p]]
            IN  /\ storage' = h /\ buffer' = Priorities!Placed(h, rest, b) /\ Priorities!Enter(h, k, b)
                /\ taken' = (taken \/ b # a) /\ refused' = refused
      BY <1>0, <1>2 DEF Priorities!Replace
    <3>2. b = a
      <4> HIDE DEF a
      <4> QED
        BY <3>1
    <3> QED
      BY <3>1, <3>2
  <2>2. storage' = [free EXCEPT ![a] = [key |-> k, priority |-> p]]
    BY <1>0, <2>1
  <2>3. /\ NodesKept(rest, free) /\ Line(rest, free) = Priorities!Queue!Without(k)
        /\ Table(rest, free) = members \ {e} /\ Keyless(rest, free, k)
    BY ErasedNode
  <2>4. free[a] = Priorities!Free
    BY <1>0
  <2> HIDE DEF rest, free
  <2> DEFINE h == storage'
             s == buffer'
  <2>5. /\ NodesKept(s, h)
        /\ Line(s, h) = Priorities!Queue!Inserted(Line(rest, free), k, p)
        /\ Table(s, h) = Table(rest, free) \cup {[ptr |-> a, node |-> a, hash |-> Hash[k]]}
    <3>1. Places(rest, free, a, k, p, s, h)
      BY <1>0, <2>1, <2>2, <2>3, <2>4 DEF Places
    <3> QED
      BY ONLY <3>1, PlacedNode
  <2>6. h[a] = [key |-> k, priority |-> p] /\ \A b \in NodeAddress : b # a => h[b] = storage[b]
    BY <1>0, <2>2 DEF free
  <2> HIDE DEF h, s
  <2>7. ASSUME NEW m \in 1..Len(buffer) PROVE h[buffer[m]] \in Node /\ h[buffer[m]].key = storage[buffer[m]].key
    <3>1. buffer[m] \in NodeAddress /\ storage[buffer[m]] \in Node
      BY <1>3, NodesAre
    <3>2. CASE buffer[m] = a
      <4>1. h[buffer[m]] = [key |-> k, priority |-> p]
        BY <2>6, <3>2
      <4> QED
        BY <1>0, <3>2, <4>1 DEF Node
    <3>3. CASE buffer[m] # a
      BY <2>6, <3>1, <3>3
    <3> QED
      BY <3>2, <3>3
  <2>8. PICK d \in Priorities!Found(h, k) :
          members' = IF d = Priorities!Missing THEN members \cup {[ptr |-> a, node |-> a, hash |-> Hash[k]]}
                     ELSE (members \ {d}) \cup {[d EXCEPT !.node = a]}
    BY <2>1 DEF Priorities!Enter, h
  <2>9. d # Priorities!Missing /\ d = e
    <3>1. \/ d = Priorities!Missing /\ Keyless(buffer, storage, k)
          \/ d # Priorities!Missing /\ \E m \in 1..Len(buffer) : d = Entry(storage, buffer[m]) /\ storage[buffer[m]].key = k
      BY <1>3, <2>7, FoundIs
    <3>2. ~ Keyless(buffer, storage, k)
      BY DEF Keyless
    <3>3. PICK m \in 1..Len(buffer) : d = Entry(storage, buffer[m]) /\ storage[buffer[m]].key = k
      BY <3>1, <3>2
    <3>4. m = i
      BY <1>3, <3>3 DEF NodesKept
    <3> QED
      BY <3>1, <3>2, <3>3, <3>4
  <2>10. members' = Table(s, h)
    <3>1. [e EXCEPT !.node = a] = e
      BY <1>0
    <3>2. members' = (members \ {e}) \cup {e}
      BY <2>8, <2>9, <3>1
    <3>3. Table(s, h) = (members \ {e}) \cup {e}
      BY <1>0, <2>3, <2>5
    <3> QED
      BY <3>2, <3>3
  <2>11. ~ Priorities!Queue!Holds(k, p)
    <3>1. ASSUME NEW m \in 1..Len(buffer), storage[buffer[m]] = [key |-> k, priority |-> p] PROVE FALSE
      <4>1. storage[buffer[m]].key = k /\ storage[buffer[m]].priority = p
        BY <3>1
      <4>2. m = i
        BY <1>3, <4>1 DEF NodesKept
      <4> QED
        BY <1>2, <4>1, <4>2
    <3> QED
      BY <3>1, QueueIs
  <2>12. Line(s, h) = Priorities!Queue!Inserted(Priorities!Queue!Without(k), k, p)
    BY <2>3, <2>5
  <2> QED
    BY <1>3, <2>1, <2>5, <2>10, <2>11, <2>12 DEF h, s, Becomes, PriorityKept, NodesKept, Line, Table, Entry, Node
<1> QED
  BY <1>1, <1>2

LEMMA EraseStays ==
  ASSUME PriorityKept, NEW j \in 1..Len(buffer), storage' = [storage EXCEPT ![buffer[j]] = Priorities!Free],
         buffer' = Priorities!Without(buffer[j]), members' = members \ {Entry(storage, buffer[j])}, refused' = refused
  PROVE  Becomes(Priorities!Queue!Without(storage[buffer[j]].key))
<1> DEFINE h == storage'
           s == buffer'
<1>1. s = Priorities!Without(buffer[j]) /\ h = [storage EXCEPT ![buffer[j]] = Priorities!Free]
  OBVIOUS
<1>2. /\ NodesKept(s, h) /\ Line(s, h) = Priorities!Queue!Without(storage[buffer[j]].key)
      /\ Table(s, h) = members \ {Entry(storage, buffer[j])}
  <2> HIDE DEF s, h
  <2> QED
    BY <1>1, ErasedNode
<1> QED
  BY <1>2 DEF h, s, Becomes, PriorityKept, NodesKept, Line, Table, Entry, Node

LEMMA EmptyKept ==
  ASSUME NEW s, NEW h, s = <<>>, h = [a \in NodeAddress |-> Priorities!Free]
  PROVE  NodesKept(s, h) /\ Line(s, h) = <<>> /\ Table(s, h) = {} /\ [i \in DOMAIN s |-> h[s[i]]] = <<>>
<1>1. s \in Seq(NodeAddress) /\ Len(s) = 0 /\ DOMAIN s = 1..0 /\ 1..0 = {}
  OBVIOUS
<1>2. h \in [NodeAddress -> Node \cup {Priorities!Free}]
  OBVIOUS
<1>3. \A a \in NodeAddress : h[a] \notin Node
  BY FreeIs
<1>4. NodesKept(s, h)
  BY <1>1, <1>2, <1>3 DEF NodesKept
<1>5. Table(s, h) = {}
  BY <1>1 DEF Table
<1>6. Line(s, h) \in Seq(Node) /\ Len(Line(s, h)) = 0 /\ [i \in DOMAIN s |-> h[s[i]]] = Line(s, h)
  BY <1>1, <1>4, NodesAre DEF Line
<1>7. Line(s, h) = <<>>
  BY <1>6
<1> QED
  BY <1>4, <1>5, <1>6, <1>7

LEMMA PriorityStarts == ASSUME Priorities!Init PROVE PriorityInv /\ Priorities!Queue!Init
<1>1. /\ buffer = <<>> /\ storage = [a \in NodeAddress |-> Priorities!Free] /\ members = {}
      /\ refused = FALSE /\ taken = FALSE
  BY DEF Priorities!Init
<1>2. NodesKept(buffer, storage) /\ Table(buffer, storage) = {} /\ [i \in DOMAIN buffer |-> storage[buffer[i]]] = <<>>
  BY <1>1, EmptyKept
<1> QED
  BY <1>1, <1>2 DEF PriorityInv, PriorityKept, Priorities!Queue!Init

\* The ends of a queue are the nodes that a pop takes.
LEMMA EndsAre ==
  ASSUME NEW S, NEW q \in Seq(S), q # <<>>
  PROVE  RemoveAt(q, 1) = Tail(q) /\ RemoveAt(q, Len(q)) = Front(q)
<1>0. Len(q) \in Nat /\ Len(q) >= 1 /\ 1 \in DOMAIN q /\ Len(q) \in DOMAIN q /\ DOMAIN q = 1..Len(q)
  BY EmptySeq
<1>1. /\ RemoveAt(q, 1) \in Seq(S) /\ Len(RemoveAt(q, 1)) = Len(q) - 1
      /\ \A i \in 1..(Len(q) - 1) : RemoveAt(q, 1)[i] = q[IF i < 1 THEN i ELSE i + 1]
  BY ONLY <1>0, q \in Seq(S), RemoveAtIs
<1>2. /\ RemoveAt(q, Len(q)) \in Seq(S) /\ Len(RemoveAt(q, Len(q))) = Len(q) - 1
      /\ \A i \in 1..(Len(q) - 1) : RemoveAt(q, Len(q))[i] = q[IF i < Len(q) THEN i ELSE i + 1]
  BY ONLY <1>0, q \in Seq(S), RemoveAtIs
<1>3. Tail(q) \in Seq(S) /\ Len(Tail(q)) = Len(q) - 1 /\ \A i \in 1..(Len(q) - 1) : Tail(q)[i] = q[i + 1]
  BY <1>0, HeadTailProperties
<1>4. Front(q) \in Seq(S) /\ Len(Front(q)) = Len(q) - 1 /\ \A i \in 1..(Len(q) - 1) : Front(q)[i] = q[i]
  BY <1>0 DEF Front
<1>5. \A i \in 1..(Len(q) - 1) : RemoveAt(q, 1)[i] = Tail(q)[i]
  BY <1>1, <1>3
<1>6. \A i \in 1..(Len(q) - 1) : RemoveAt(q, Len(q))[i] = Front(q)[i]
  BY <1>0, <1>2, <1>4
<1>7. RemoveAt(q, 1) = Tail(q)
  BY <1>1, <1>3, <1>5, SeqEqual
<1>8. RemoveAt(q, Len(q)) = Front(q)
  BY <1>2, <1>4, <1>6, SeqEqual
<1> QED
  BY <1>7, <1>8

\* The entry of a search for the key of a node is the entry of the node.
LEMMA FindsNode ==
  ASSUME PriorityKept, NEW k \in Key, NEW e \in Priorities!Found(storage, k)
  PROVE  \/ e = Priorities!Missing /\ Keyless(buffer, storage, k)
         \/ e # Priorities!Missing /\ \E i \in 1..Len(buffer) : e = Entry(storage, buffer[i]) /\ storage[buffer[i]].key = k
<1>1. NodesKept(buffer, storage) /\ members = Table(buffer, storage)
  BY DEF PriorityKept
<1>2. \A i \in 1..Len(buffer) : storage[buffer[i]] \in Node
  BY <1>1, NodesAre
<1> QED
  BY <1>1, <1>2, FoundIs

LEMMA PopStays ==
  ASSUME PriorityKept, NEW j \in 1..Len(buffer), Priorities!Pop(buffer[j])
  PROVE  Becomes(Priorities!Queue!Without(storage[buffer[j]].key))
<1>1. NodesKept(buffer, storage) /\ storage[buffer[j]].key \in Key
  BY NodesAre DEF PriorityKept
<1>2. PICK e \in Priorities!Found(storage, storage[buffer[j]].key) :
        /\ members' = members \ {e} /\ Priorities!Deleted(buffer[j]) /\ UNCHANGED <<refused, taken>>
  BY DEF Priorities!Pop
<1>3. ~ Keyless(buffer, storage, storage[buffer[j]].key)
  BY DEF Keyless
<1>4. PICK i \in 1..Len(buffer) : e = Entry(storage, buffer[i]) /\ storage[buffer[i]].key = storage[buffer[j]].key
  BY <1>1, <1>3, FindsNode
<1>5. i = j
  BY <1>1, <1>4 DEF NodesKept
<1> QED
  BY <1>2, <1>4, <1>5, EraseStays DEF Priorities!Deleted

\* clear() makes the table exact, whatever was before it.
LEMMA ClearMakesGood ==
  ASSUME Priorities!Clear, refused = FALSE
  PROVE  PriorityKept' /\ Priorities!Queue!Clear
<1>1. /\ buffer' = <<>> /\ storage' = [a \in NodeAddress |-> Priorities!Free] /\ members' = {} /\ refused' = refused
  BY DEF Priorities!Clear
<1>2. NodesKept(buffer', storage') /\ Table(buffer', storage') = {} /\ [i \in DOMAIN buffer' |-> storage'[buffer'[i]]] = <<>>
  BY <1>1, EmptyKept
<1>3. PriorityKept'
  BY <1>1, <1>2 DEF PriorityKept, NodesKept, Table, Entry, Node
<1>4. Priorities!Queue!Clear
  BY <1>2 DEF Priorities!Queue!Clear
<1> QED
  BY <1>3, <1>4

\* A step that leaves the new node of a key where the old one was keeps the table exact and is
\* a step of the abstract queue.
LEMMA PriorityStays ==
  ASSUME PriorityAssumption, PriorityKept, ~taken', Priorities!Next
  PROVE  PriorityKept' /\ Priorities!Queue!Next
<1> DEFINE q == [i \in DOMAIN buffer |-> storage[buffer[i]]]
           Same == q' = q
<1>0. q = Line(buffer, storage) /\ (PriorityKept' => q' = Line(buffer, storage)')
  <2>1. PriorityKept' => DOMAIN buffer' = 1..Len(buffer')
    BY DEF PriorityKept, NodesKept
  <2> QED
    BY <2>1, QueueIs DEF Line
<1>1. NodesKept(buffer, storage) /\ DOMAIN buffer = 1..Len(buffer)
      /\ \A i \in 1..Len(buffer) : storage[buffer[i]].key \in Key
  BY NodesAre DEF PriorityKept
<1>2. ASSUME UNCHANGED <<buffer, storage, members, refused>> PROVE PriorityKept' /\ Priorities!Queue!Next
  BY <1>2 DEF PriorityKept, NodesKept, Table, Entry, Node, Priorities!Queue!Next
<1>3. ASSUME NEW k \in Key, NEW p \in Priority, ~ Priorities!Queue!Holds(k, p),
             Becomes(Priorities!Queue!Inserted(Priorities!Queue!Without(k), k, p))
      PROVE  PriorityKept' /\ Priorities!Queue!Next /\ (k \in Priorities!Queue!Keys => Priorities!Queue!Update(k, p))
  <2>1. PriorityKept' /\ Line(buffer, storage)' = Priorities!Queue!Inserted(Priorities!Queue!Without(k), k, p)
    BY <1>3 DEF Becomes
  <2>2. Priorities!Queue!Insert(k, p)
    BY <1>0, <1>3, <2>1 DEF Priorities!Queue!Insert
  <2> QED
    BY <2>1, <2>2 DEF Priorities!Queue!Next, Priorities!Queue!Update
<1>4. ASSUME NEW k \in Key, Becomes(Priorities!Queue!Without(k))
      PROVE  PriorityKept' /\ Priorities!Queue!Next
  <2>1. PriorityKept' /\ Line(buffer, storage)' = Priorities!Queue!Without(k)
    BY <1>4 DEF Becomes
  <2>2. Priorities!Queue!Erase(k)
    BY <1>0, <2>1 DEF Priorities!Queue!Erase
  <2> QED
    BY <2>1, <2>2 DEF Priorities!Queue!Next
<1>5. ASSUME NEW k \in Key, NEW p \in Priority, Priorities!Insert(k, p) PROVE PriorityKept' /\ Priorities!Queue!Next
  <2>1. PICK e \in Priorities!Found(storage, k) :
          IF e = Priorities!Missing THEN Priorities!Create(k, p) ELSE Priorities!Replace(e, p)
    BY <1>5 DEF Priorities!Insert
  <2>2. CASE e = Priorities!Missing
    <3>1. Keyless(buffer, storage, k) /\ Priorities!Create(k, p)
      BY <2>1, <2>2, FindsNode
    <3>2. Becomes(Priorities!Queue!Inserted(Priorities!Queue!Without(k), k, p))
      BY <3>1, CreateStays
    <3>3. ~ Priorities!Queue!Holds(k, p)
      <4>1. ASSUME NEW i \in 1..Len(buffer), storage[buffer[i]] = [key |-> k, priority |-> p] PROVE FALSE
        BY <3>1, <4>1 DEF Keyless
      <4> QED
        BY <4>1, QueueIs
    <3> QED
      BY <1>3, <3>2, <3>3
  <2>3. CASE e # Priorities!Missing
    <3>1. PICK i \in 1..Len(buffer) : e = Entry(storage, buffer[i]) /\ storage[buffer[i]].key = k
      BY <2>1, <2>3, FindsNode
    <3>2. Priorities!Replace(e, p)
      BY <2>1, <2>3
    <3>3. \/ UNCHANGED <<buffer, storage, members, refused>>
          \/ ~ Priorities!Queue!Holds(k, p) /\ Becomes(Priorities!Queue!Inserted(Priorities!Queue!Without(k), k, p))
      BY <3>1, <3>2, ReplaceStays
    <3> QED
      BY <1>2, <1>3, <3>3
  <2> QED
    BY <2>2, <2>3
<1>6. ASSUME NEW k \in Key, NEW p \in Priority, Priorities!Update(k, p) PROVE PriorityKept' /\ Priorities!Queue!Next
  <2>1. PICK e \in Priorities!Found(storage, k) \ {Priorities!Missing} : Priorities!Replace(e, p)
    BY <1>6 DEF Priorities!Update
  <2>2. PICK i \in 1..Len(buffer) : e = Entry(storage, buffer[i]) /\ storage[buffer[i]].key = k
    BY <2>1, FindsNode
  <2>3. \/ UNCHANGED <<buffer, storage, members, refused>>
        \/ ~ Priorities!Queue!Holds(k, p) /\ Becomes(Priorities!Queue!Inserted(Priorities!Queue!Without(k), k, p))
    BY <2>1, <2>2, ReplaceStays
  <2> QED
    BY <1>2, <1>3, <2>3
<1>7. ASSUME NEW k \in Key, Priorities!Erase(k) PROVE PriorityKept' /\ Priorities!Queue!Next
  <2>1. PICK e \in Priorities!Found(storage, k) \ {Priorities!Missing} :
          IF Priorities!Live(e.node)
          THEN Priorities!Deleted(e.node) /\ members' = members \ {e} /\ UNCHANGED <<refused, taken>>
          ELSE Priorities!Undefined
    BY <1>7 DEF Priorities!Erase
  <2>2. PICK i \in 1..Len(buffer) : e = Entry(storage, buffer[i]) /\ storage[buffer[i]].key = k
    BY <2>1, FindsNode
  <2>3. e.node = buffer[i] /\ Priorities!Live(e.node)
    BY <1>1, <2>2, NodesAre, FreeIs DEF Entry, Priorities!Live
  <2>4. Becomes(Priorities!Queue!Without(k))
    BY <2>1, <2>2, <2>3, EraseStays DEF Priorities!Deleted
  <2> QED
    BY <1>4, <2>4
<1>8. CASE Priorities!PopFront
  <2>1. buffer # <<>> /\ Priorities!Pop(Head(buffer))
    BY <1>8 DEF Priorities!PopFront
  <2>2. 1 \in 1..Len(buffer) /\ Head(buffer) = buffer[1]
    BY <1>1, <2>1, EmptySeq DEF NodesKept
  <2>3. Becomes(Priorities!Queue!Without(storage[buffer[1]].key))
    BY <2>1, <2>2, PopStays
  <2>4. Line(buffer, storage) \in Seq(Node) /\ Line(buffer, storage) # <<>>
    BY <1>1, <2>2, NodesAre
  <2>5. Priorities!Queue!Without(storage[buffer[1]].key) = Tail(q)
    BY <1>0, <2>2, <2>4, WithoutIs, EndsAre
  <2>6. PriorityKept' /\ Priorities!Queue!PopFront
    BY <1>0, <2>3, <2>4, <2>5 DEF Becomes, Priorities!Queue!PopFront
  <2> QED
    BY <2>6 DEF Priorities!Queue!Next
<1>9. CASE Priorities!PopBack
  <2>1. buffer # <<>> /\ Priorities!Pop(Priorities!Last(buffer))
    BY <1>9 DEF Priorities!PopBack
  <2>2. Len(buffer) \in 1..Len(buffer) /\ Priorities!Last(buffer) = buffer[Len(buffer)]
    BY <1>1, <2>1, EmptySeq DEF NodesKept, Priorities!Last
  <2>3. Becomes(Priorities!Queue!Without(storage[buffer[Len(buffer)]].key))
    BY <2>1, <2>2, PopStays
  <2>4. Line(buffer, storage) \in Seq(Node) /\ Line(buffer, storage) # <<>> /\ Len(Line(buffer, storage)) = Len(buffer)
    BY <1>1, <2>2, NodesAre
  <2>5. Priorities!Queue!Without(storage[buffer[Len(buffer)]].key) = Front(q)
    BY <1>0, <2>2, <2>4, WithoutIs, EndsAre
  <2>6. PriorityKept' /\ Priorities!Queue!PopBack
    BY <1>0, <2>3, <2>4, <2>5 DEF Becomes, Priorities!Queue!PopBack, Priorities!Queue!Front, Front
  <2> QED
    BY <2>6 DEF Priorities!Queue!Next
<1>10. CASE Priorities!Clear
  <2>1. refused = FALSE
    BY DEF PriorityKept
  <2> QED
    BY <1>10, <2>1, ClearMakesGood DEF Priorities!Queue!Next
<1> QED
  BY <1>5, <1>6, <1>7, <1>8, <1>9, <1>10 DEF Priorities!Next

\* Only clear() makes good what a node that moved has spoilt.
LEMMA MovedStays ==
  ASSUME taken \in BOOLEAN, refused \in BOOLEAN, Priorities!Next
  PROVE  taken' \in BOOLEAN /\ refused' \in BOOLEAN /\ (taken => taken' \/ Priorities!Clear)
<1> DEFINE Good == taken' \in BOOLEAN /\ refused' \in BOOLEAN /\ (taken => taken')
<1>1. ASSUME Priorities!Undefined PROVE Good
  BY <1>1 DEF Priorities!Undefined
<1>2. ASSUME NEW e, NEW p, Priorities!Replace(e, p) PROVE Good
  <2>1. CASE ~ Priorities!Live(e.node)
    BY <1>1, <1>2, <2>1 DEF Priorities!Replace
  <2>2. CASE Priorities!Live(e.node) /\ storage[e.node].priority = p
    BY <1>2, <2>2 DEF Priorities!Replace, Priorities!vars
  <2>3. CASE Priorities!Live(e.node) /\ storage[e.node].priority # p
    <3>1. \E b : taken' = (taken \/ b # e.node) /\ refused' = refused
      BY <1>2, <2>3 DEF Priorities!Replace
    <3> QED
      BY <3>1
  <2> QED
    BY <2>1, <2>2, <2>3
<1>3. ASSUME NEW k, NEW p, Priorities!Create(k, p) PROVE Good
  BY <1>3 DEF Priorities!Create
<1>4. ASSUME NEW k, NEW p, Priorities!Insert(k, p) PROVE Good
  BY <1>2, <1>3, <1>4 DEF Priorities!Insert
<1>5. ASSUME NEW k, NEW p, Priorities!Update(k, p) PROVE Good
  BY <1>2, <1>5 DEF Priorities!Update
<1>6. ASSUME NEW k, Priorities!Erase(k) PROVE Good
  BY <1>1, <1>6 DEF Priorities!Erase
<1>7. ASSUME NEW a, Priorities!Pop(a) PROVE Good
  BY <1>7 DEF Priorities!Pop
<1>8. ASSUME Priorities!Clear PROVE taken' \in BOOLEAN /\ refused' \in BOOLEAN
  BY <1>8 DEF Priorities!Clear
<1> HIDE DEF Good
<1>9. Good \/ Priorities!Clear
  BY <1>4, <1>5, <1>6, <1>7 DEF Priorities!Next, Priorities!PopFront, Priorities!PopBack
<1> QED
  BY <1>8, <1>9 DEF Good

\* Whatever the allocator does: the table is exact as long as every new node is where the old
\* one was, and the step is then one of the abstract queue.
LEMMA PriorityKeeps ==
  ASSUME PriorityAssumption, PriorityInv, Priorities!Next
  PROVE  PriorityInv' /\ Priorities!CallsKept
<1>1. taken' \in BOOLEAN /\ refused' \in BOOLEAN /\ (taken => taken' \/ Priorities!Clear)
  BY MovedStays DEF PriorityInv
<1>2. refused = FALSE
  BY DEF PriorityInv, Priorities!Next
<1>3. ASSUME ~taken' PROVE PriorityKept' /\ Priorities!Queue!Next
  <2>1. CASE Priorities!Clear
    BY <1>2, <2>1, ClearMakesGood DEF Priorities!Queue!Next
  <2>2. CASE ~ Priorities!Clear
    <3>1. PriorityKept
      BY <1>1, <1>3, <2>2 DEF PriorityInv
    <3> QED
      BY <1>3, <3>1, PriorityStays
  <2> QED
    BY <2>1, <2>2
<1> QED
  BY <1>1, <1>3 DEF PriorityInv, Priorities!CallsKept

\* The theorem's property from the invariant.
LEMMA PriorityGood == ASSUME PriorityInv PROVE Priorities!LookupKept
<1> SUFFICES ASSUME ~taken PROVE Priorities!LookupExact /\ ~refused
  BY DEF Priorities!LookupKept
<1>1. NodesKept(buffer, storage) /\ members = Table(buffer, storage) /\ DOMAIN buffer = 1..Len(buffer) /\ refused = FALSE
  BY NodesAre DEF PriorityInv, PriorityKept
<1>2. Priorities!ToSet(buffer) = {buffer[i] : i \in 1..Len(buffer)}
  BY <1>1 DEF Priorities!ToSet
<1> QED
  BY <1>1, <1>2 DEF Priorities!LookupExact, Table, Entry

-----------------------------------------------------------------------------
(* bitvector: the invariant is ContentsExact and BlockExact.  A vector in the course of a     *)
(* call is a record of its cells and its size.                                                *)

BitvecKept == size \in Nat /\ Bitvec!ContentsExact /\ Bitvec!BlockExact

\* How many cells a vector of n bits has.
RoomOf(n) == IF Bitvec!FitLocal(n) THEN 2 * WordBits ELSE Bitvec!BitSpace(n)

\* A vector of n bits.
Vec(v, n) == v = [cells |-> v.cells, size |-> n] /\ DOMAIN v.cells = 0..(RoomOf(n) - 1)

\* The bits of v below n are those of w.
Agree(v, w, n) == \A p \in 0..(n - 1) : v.cells[p] = w.cells[p]

LEMMA BitSpaceIs ==
  ASSUME NEW n \in Nat
  PROVE  /\ Bitvec!BitSpace(n) \in Nat /\ n <= Bitvec!BitSpace(n)
         /\ RoomOf(n) \in Nat /\ n <= RoomOf(n)
         /\ Bitvec!MaxLocal \in Nat /\ 0 < Bitvec!MaxLocal /\ Bitvec!MaxLocal <= 2 * WordBits
<1>1. WordBits \in Nat \ {0} /\ ByteBits \in 1..WordBits
  BY BitAssumption
<1> DEFINE a == n + WordBits - 1
           q == a \div WordBits
           r == a % WordBits
<1>2. a = WordBits * q + r /\ q \in Int /\ r \in 0..(WordBits - 1)
  BY <1>1
<1>3. Bitvec!BitSpace(n) = WordBits * q
  BY DEF Bitvec!BitSpace
<1> HIDE DEF q, r
<1>4. WordBits * q \in Int /\ WordBits * q >= n
  BY <1>1, <1>2
<1>5. Bitvec!MaxLocal \in Nat /\ 0 < Bitvec!MaxLocal /\ Bitvec!MaxLocal <= 2 * WordBits
  BY <1>1 DEF Bitvec!MaxLocal
<1>6. Bitvec!FitLocal(n) => n < Bitvec!MaxLocal
  BY DEF Bitvec!FitLocal
<1>7. CASE Bitvec!FitLocal(n)
  <2>1. RoomOf(n) = 2 * WordBits /\ n < Bitvec!MaxLocal
    BY <1>6, <1>7 DEF RoomOf
  <2> QED
    BY <1>1, <1>3, <1>4, <1>5, <2>1
<1>8. CASE ~ Bitvec!FitLocal(n)
  <2>1. RoomOf(n) = WordBits * q
    BY <1>3, <1>8 DEF RoomOf
  <2> QED
    BY <1>3, <1>4, <1>5, <2>1
<1> QED
  BY <1>7, <1>8

LEMMA WithIs ==
  ASSUME NEW n \in Nat, NEW v, Vec(v, n), NEW at, NEW bits
  PROVE  /\ Vec(Bitvec!With(v, at, bits), n)
         /\ \A p \in 0..(n - 1) : Bitvec!With(v, at, bits).cells[p]
              = IF p - at \in DOMAIN bits THEN bits[p - at] ELSE v.cells[p]
<1> DEFINE c == v.cells
           w == Bitvec!With(v, at, bits)
           put == Bitvec!Put(c, at, bits)
<1>1. v = [cells |-> c, size |-> n] /\ DOMAIN c = 0..(RoomOf(n) - 1) /\ n <= RoomOf(n) /\ RoomOf(n) \in Nat
  BY BitSpaceIs DEF Vec
<1> HIDE DEF c
<1>2. w = [v EXCEPT !.cells = Bitvec!Put(v.cells, at, bits)]
  BY DEF Bitvec!With
<1>3. w = [cells |-> put, size |-> n] /\ w.cells = put
  BY <1>1, <1>2
<1>4. DOMAIN put = 0..(RoomOf(n) - 1)
      /\ \A p \in 0..(RoomOf(n) - 1) : put[p] = IF p - at \in DOMAIN bits THEN bits[p - at] ELSE c[p]
  BY <1>1 DEF Bitvec!Put
<1> HIDE DEF w, put
<1>5. Vec(w, n)
  BY <1>3, <1>4 DEF Vec
<1>6. \A p \in 0..(n - 1) : p \in 0..(RoomOf(n) - 1)
  BY <1>1
<1>7. \A p \in 0..(n - 1) : w.cells[p] = IF p - at \in DOMAIN bits THEN bits[p - at] ELSE c[p]
  BY <1>3, <1>4, <1>6
<1> QED
  BY <1>5, <1>7 DEF w, c

LEMMA SanitizeIs ==
  ASSUME NEW n \in Nat, NEW v, Vec(v, n)
  PROVE  Vec(Bitvec!Sanitize(v), n) /\ Agree(Bitvec!Sanitize(v), v, n)
<1> DEFINE c == v.cells
           w == Bitvec!Sanitize(v)
           d == [p \in DOMAIN c |->
                   IF p >= n /\ p < Bitvec!BitSpace(n) /\ ~ (Bitvec!FitLocal(n) /\ p >= Bitvec!MaxLocal) THEN 0 ELSE c[p]]
<1>1. v = [cells |-> c, size |-> n] /\ DOMAIN c = 0..(RoomOf(n) - 1) /\ n <= RoomOf(n) /\ RoomOf(n) \in Nat
  BY BitSpaceIs DEF Vec
<1>2. v.size = n
  BY <1>1
<1>3. w = [v EXCEPT !.cells = d]
  BY <1>2 DEF Bitvec!Sanitize
<1>4. DOMAIN d = DOMAIN c /\ \A p \in DOMAIN c : p < n => (d[p] = c[p] \/ p >= n)
  OBVIOUS
<1> HIDE DEF c, d
<1>5. w = [cells |-> d, size |-> n] /\ w.cells = d
  BY <1>1, <1>3
<1> HIDE DEF w
<1>6. \A p \in 0..(n - 1) : w.cells[p] = c[p]
  BY <1>1, <1>4, <1>5
<1> QED
  BY <1>1, <1>4, <1>5, <1>6 DEF Vec, Agree, c, w

LEMMA ClearedIs == Vec(Bitvec!Cleared, 0)
<1>1. Bitvec!FitLocal(0)
  BY BitSpaceIs DEF Bitvec!FitLocal
<1>2. RoomOf(0) = 2 * WordBits
  BY <1>1 DEF RoomOf
<1> DEFINE zeros == [p \in 0..(Bitvec!MaxLocal - 1) |-> 0]
<1>3. DOMAIN Bitvec!InWords(zeros) = 0..(2 * WordBits - 1)
  BY DEF Bitvec!InWords
<1>4. Bitvec!Cleared = [cells |-> Bitvec!InWords(zeros), size |-> 0]
  BY DEF Bitvec!Cleared
<1> HIDE DEF zeros
<1> QED
  BY <1>2, <1>3, <1>4 DEF Vec

\* What is in the block of a vector that gets another size.
LEMMA BlockIs ==
  ASSUME NEW m \in Nat, NEW v, Vec(v, m), NEW n \in Nat, ~ Bitvec!FitLocal(n)
  PROVE  /\ Vec([cells |-> Bitvec!Block(v, n), size |-> n], n)
         /\ \A p \in 0..(n - 1) : p < m => Bitvec!Block(v, n)[p] = v.cells[p]
<1>1. RoomOf(n) = Bitvec!BitSpace(n) /\ n <= Bitvec!BitSpace(n) /\ m <= Bitvec!BitSpace(m)
      /\ Bitvec!BitSpace(n) \in Nat /\ Bitvec!BitSpace(m) \in Nat
  BY BitSpaceIs DEF RoomOf
<1>2. v.size = m
  BY DEF Vec
<1> DEFINE b == Bitvec!Block(v, n)
<1>3. DOMAIN b = 0..(Bitvec!BitSpace(n) - 1)
      /\ \A p \in 0..(Bitvec!BitSpace(n) - 1) : b[p] = IF p < Bitvec!BitSpace(m) THEN v.cells[p] ELSE Raw
  BY <1>2 DEF Bitvec!Block
<1> HIDE DEF b
<1>4. Vec([cells |-> b, size |-> n], n)
  BY <1>1, <1>3 DEF Vec
<1>5. ASSUME NEW p \in 0..(n - 1), p < m PROVE b[p] = v.cells[p]
  <2>1. p \in 0..(Bitvec!BitSpace(n) - 1) /\ p < Bitvec!BitSpace(m)
    BY <1>1, <1>5
  <2> QED
    BY <1>3, <2>1
<1> QED
  BY <1>4, <1>5 DEF b

LEMMA ResizedIs ==
  ASSUME NEW m \in Nat, NEW v, Vec(v, m), NEW n \in Nat
  PROVE  /\ Vec(Bitvec!Resized(v, n), n)
         /\ \A p \in 0..(n - 1) : p < m => Bitvec!Resized(v, n).cells[p] = v.cells[p]
<1> DEFINE w == Bitvec!Resized(v, n)
           block == [cells |-> Bitvec!Block(v, n), size |-> n]
<1>0. v = [cells |-> v.cells, size |-> m] /\ v.size = m /\ DOMAIN v.cells = 0..(RoomOf(m) - 1)
  BY DEF Vec
<1>1. CASE n = 0
  <2>1. w = Bitvec!Cleared /\ \A p \in 0..(n - 1) : FALSE
    BY <1>1 DEF Bitvec!Resized
  <2> QED
    BY <1>1, <2>1, ClearedIs
<1>2. CASE n # 0 /\ ~ Bitvec!FitLocal(n)
  <2>1. w = Bitvec!Sanitize(block)
    BY <1>0, <1>2 DEF Bitvec!Resized, Bitvec!Shrink, Bitvec!Expand
  <2>2. Vec(block, n) /\ \A p \in 0..(n - 1) : p < m => block.cells[p] = v.cells[p]
    BY <1>2, BlockIs
  <2> HIDE DEF block
  <2> QED
    BY <2>1, <2>2, SanitizeIs DEF Agree
<1>3. CASE Bitvec!FitLocal(n) /\ n >= m /\ n # 0
  <2>1. w = [v EXCEPT !.size = n]
    BY <1>0, <1>3 DEF Bitvec!Resized, Bitvec!Expand
  <2>2. w = [cells |-> v.cells, size |-> n] /\ w.cells = v.cells
    BY <1>0, <2>1
  <2>3. Bitvec!FitLocal(m)
    BY <1>3, BitSpaceIs DEF Bitvec!FitLocal
  <2>4. RoomOf(m) = RoomOf(n)
    BY <1>3, <2>3 DEF RoomOf
  <2> QED
    BY <1>0, <2>2, <2>4 DEF Vec
<1>4. CASE Bitvec!FitLocal(n) /\ n < m /\ n # 0
  <2> DEFINE c == IF Bitvec!FitLocal(m) THEN v.cells
                  ELSE Bitvec!InWords([p \in 0..(Bitvec!BitSpace(n) - 1) |-> v.cells[p]])
             u == [cells |-> c, size |-> n]
  <2>1. w = Bitvec!Sanitize(u)
    BY <1>0, <1>4 DEF Bitvec!Resized, Bitvec!Shrink
  <2>2. RoomOf(n) = 2 * WordBits
    BY <1>4 DEF RoomOf
  <2>3. DOMAIN c = 0..(2 * WordBits - 1) /\ \A p \in 0..(n - 1) : c[p] = v.cells[p]
    <3>1. CASE Bitvec!FitLocal(m)
      BY <1>0, <3>1 DEF RoomOf
    <3>2. CASE ~ Bitvec!FitLocal(m)
      <4> DEFINE f == [p \in 0..(Bitvec!BitSpace(n) - 1) |-> v.cells[p]]
      <4>1. DOMAIN f = 0..(Bitvec!BitSpace(n) - 1) /\ \A p \in 0..(Bitvec!BitSpace(n) - 1) : f[p] = v.cells[p]
        OBVIOUS
      <4> HIDE DEF f
      <4>2. DOMAIN Bitvec!InWords(f) = 0..(2 * WordBits - 1)
            /\ \A p \in 0..(2 * WordBits - 1) : Bitvec!InWords(f)[p]
                 = IF p < Bitvec!MaxLocal /\ p \in DOMAIN f THEN f[p] ELSE Raw
        BY DEF Bitvec!InWords
      <4>3. c = Bitvec!InWords(f)
        BY <3>2 DEF f
      <4>4. n < Bitvec!MaxLocal /\ n <= Bitvec!BitSpace(n) /\ Bitvec!BitSpace(n) \in Nat
            /\ Bitvec!MaxLocal <= 2 * WordBits /\ Bitvec!MaxLocal \in Nat /\ WordBits \in Nat
        BY <1>4, BitSpaceIs, BitAssumption DEF Bitvec!FitLocal
      <4>5. ASSUME NEW p \in 0..(n - 1) PROVE Bitvec!InWords(f)[p] = v.cells[p]
        <5>1. p \in 0..(2 * WordBits - 1) /\ p < Bitvec!MaxLocal /\ p \in 0..(Bitvec!BitSpace(n) - 1)
          BY <4>4
        <5> QED
          BY <4>1, <4>2, <5>1
      <4> QED
        BY <4>2, <4>3, <4>5
    <3> QED
      BY <3>1, <3>2
  <2> HIDE DEF c
  <2>4. Vec(u, n) /\ u.cells = c
    BY <2>2, <2>3 DEF Vec
  <2> HIDE DEF u
  <2> QED
    BY <2>1, <2>3, <2>4, SanitizeIs DEF Agree
<1> QED
  BY <1>1, <1>2, <1>3, <1>4

\* The bits of a vector of n are these.
Exact(v, n, bits) ==
  /\ Vec(v, n) /\ bits = [p \in 0..(n - 1) |-> bits[p]]
  /\ \A p \in 0..(n - 1) : v.cells[p] = bits[p]

LEMMA BecomeGood ==
  ASSUME NEW n \in Nat, NEW v, NEW bits, Exact(v, n, bits), Bitvec!Become(v, bits)
  PROVE  BitvecKept'
<1>1. v = [cells |-> v.cells, size |-> n] /\ DOMAIN v.cells = 0..(RoomOf(n) - 1)
      /\ bits = [p \in 0..(n - 1) |-> bits[p]] /\ \A p \in 0..(n - 1) : v.cells[p] = bits[p]
  BY DEF Exact, Vec
<1>2. buffer' = v.cells /\ size' = n /\ given' = bits
  BY <1>1 DEF Bitvec!Become
<1>3. [p \in 0..(size' - 1) |-> buffer'[p]] = bits
  BY <1>1, <1>2
<1>4. DOMAIN buffer' = 0..((IF Bitvec!FitLocal(size') THEN 2 * WordBits ELSE Bitvec!BitSpace(size')) - 1)
  BY <1>1, <1>2 DEF RoomOf
<1> QED
  BY <1>2, <1>3, <1>4 DEF BitvecKept, Bitvec!ContentsExact, Bitvec!BlockExact, Bitvec!FitLocal, Bitvec!BitSpace,
                          Bitvec!MaxLocal

LEMMA NowIs ==
  ASSUME BitvecKept
  PROVE  /\ size \in Nat /\ Vec(Bitvec!Now, size) /\ Bitvec!Now.cells = buffer
         /\ DOMAIN given = 0..(size - 1) /\ given = [p \in 0..(size - 1) |-> given[p]]
         /\ \A p \in 0..(size - 1) : buffer[p] = given[p]
         /\ MaxBits \in Nat /\ ByteBits \in Nat \ {0}
<1>1. size \in Nat /\ [p \in 0..(size - 1) |-> buffer[p]] = given /\ DOMAIN buffer = 0..(RoomOf(size) - 1)
  BY DEF BitvecKept, Bitvec!ContentsExact, Bitvec!BlockExact, RoomOf
<1>2. DOMAIN given = 0..(size - 1) /\ \A p \in 0..(size - 1) : buffer[p] = given[p]
  BY <1>1
<1>3. given = [p \in 0..(size - 1) |-> given[p]]
  BY <1>1, <1>2
<1>4. Bitvec!Now = [cells |-> buffer, size |-> size] /\ Bitvec!Now.cells = buffer
  BY DEF Bitvec!Now
<1>5. Vec(Bitvec!Now, size)
  BY <1>1, <1>4 DEF Vec
<1>6. MaxBits \in Nat /\ ByteBits \in Nat \ {0}
  BY BitAssumption
<1> QED
  BY <1>1, <1>2, <1>3, <1>4, <1>5, <1>6

\* The functions that the calls write.
LEMMA BitsAre ==
  ASSUME NEW n \in Nat
  PROVE  /\ \A b : DOMAIN Bitvec!All(n, b) = 0..(n - 1) /\ Bitvec!All(n, b) = [p \in 0..(n - 1) |-> Bitvec!All(n, b)[p]]
         /\ \A ones : DOMAIN Bitvec!Pattern(ones, n) = 0..(n - 1)
                      /\ Bitvec!Pattern(ones, n) = [p \in 0..(n - 1) |-> Bitvec!Pattern(ones, n)[p]]
BY DEF Bitvec!All, Bitvec!Pattern

\* The vector resized to n, its old bits as before.
LEMMA GrownIs ==
  ASSUME BitvecKept, NEW n \in Nat
  PROVE  /\ Vec(Bitvec!Resized(Bitvec!Now, n), n)
         /\ \A p \in 0..(n - 1) : p < size => Bitvec!Resized(Bitvec!Now, n).cells[p] = given[p]
<1>1. size \in Nat /\ Vec(Bitvec!Now, size) /\ Bitvec!Now.cells = buffer /\ \A p \in 0..(size - 1) : buffer[p] = given[p]
  BY NowIs
<1>2. /\ Vec(Bitvec!Resized(Bitvec!Now, n), n)
      /\ \A p \in 0..(n - 1) : p < size => Bitvec!Resized(Bitvec!Now, n).cells[p] = Bitvec!Now.cells[p]
  BY <1>1, ResizedIs
<1>3. \A p \in 0..(n - 1) : p < size => p \in 0..(size - 1)
  BY <1>1
<1> QED
  BY <1>1, <1>2, <1>3

LEMMA ResizeStays == ASSUME BitvecKept, Bitvec!Resize PROVE BitvecKept'
<1>0. /\ size \in Nat /\ Vec(Bitvec!Now, size) /\ Bitvec!Now.cells = buffer /\ DOMAIN given = 0..(size - 1)
      /\ \A p \in 0..(size - 1) : buffer[p] = given[p]
      /\ MaxBits \in Nat
  BY NowIs
<1>1. PICK n \in 0..MaxBits, on \in Bitvec!Bit :
        IF n > size
        THEN Bitvec!Become(Bitvec!With(Bitvec!Resized(Bitvec!Now, n), size, Bitvec!All(n - size, on)),
                           Bitvec!Joined(size, Bitvec!All(n - size, on), n - size))
        ELSE Bitvec!Become(Bitvec!Resized(Bitvec!Now, n), Bitvec!Joined(n, Bitvec!All(0, on), 0))
  BY DEF Bitvec!Resize
<1> DEFINE v == Bitvec!Resized(Bitvec!Now, n)
<1>2. n \in Nat /\ Vec(v, n) /\ \A p \in 0..(n - 1) : p < size => v.cells[p] = given[p]
  BY <1>0, GrownIs
<1> HIDE DEF v
<1>3. CASE n > size
  <2> DEFINE k == n - size
             new == Bitvec!All(k, on)
             w == Bitvec!With(v, size, new)
             bits == Bitvec!Joined(size, new, k)
  <2>1. k \in Nat /\ size + k = n /\ DOMAIN new = 0..(k - 1)
    BY <1>0, <1>2, <1>3, BitsAre
  <2>2. Bitvec!Become(w, bits)
    BY <1>1, <1>3 DEF v
  <2> HIDE DEF k, new
  <2>3. Vec(w, n) /\ \A p \in 0..(n - 1) : w.cells[p] = IF p - size \in DOMAIN new THEN new[p - size] ELSE v.cells[p]
    BY <1>2, WithIs
  <2>4. bits = [p \in 0..(n - 1) |-> IF p < size THEN given[p] ELSE new[p - size]]
    <3>1. 0..(size + k - 1) = 0..(n - 1)
      BY <1>0, <1>2, <2>1
    <3> QED
      BY <3>1 DEF Bitvec!Joined
  <2> HIDE DEF w, bits
  <2>5. ASSUME NEW p \in 0..(n - 1) PROVE w.cells[p] = bits[p]
    <3>1. CASE p < size
      <4>1. ~ (p - size \in DOMAIN new)
        BY <1>0, <2>1, <3>1
      <4> QED
        BY <1>2, <2>3, <2>4, <3>1, <4>1
    <3>2. CASE ~ (p < size)
      <4>1. p - size \in DOMAIN new
        BY <1>0, <2>1, <3>2
      <4> QED
        BY <2>3, <2>4, <3>2, <4>1
    <3> QED
      BY <3>1, <3>2
  <2>6. Exact(w, n, bits)
    BY <2>3, <2>4, <2>5 DEF Exact
  <2> QED
    BY <1>2, <2>2, <2>6, BecomeGood
<1>4. CASE ~ (n > size)
  <2> DEFINE bits == Bitvec!Joined(n, Bitvec!All(0, on), 0)
  <2>1. Bitvec!Become(v, bits)
    BY <1>1, <1>4 DEF v
  <2>2. n + 0 = n /\ \A p \in 0..(n - 1) : p < n
    BY <1>2
  <2>3. bits = [p \in 0..(n - 1) |-> given[p]]
    BY <2>2 DEF Bitvec!Joined
  <2>4. Exact(v, n, bits)
    BY <1>0, <1>2, <1>4, <2>3 DEF Exact
  <2> QED
    BY <1>2, <2>1, <2>4, BecomeGood
<1> QED
  BY <1>3, <1>4

\* Writing bits over the whole of a vector.
LEMMA OverIs ==
  ASSUME NEW n \in Nat, NEW v, Vec(v, n), NEW bits, bits = [p \in 0..(n - 1) |-> bits[p]]
  PROVE  Exact(Bitvec!With(v, 0, bits), n, bits)
<1> DEFINE w == Bitvec!With(v, 0, bits)
<1>1. Vec(w, n) /\ \A p \in 0..(n - 1) : w.cells[p] = IF p - 0 \in DOMAIN bits THEN bits[p - 0] ELSE v.cells[p]
  BY WithIs
<1>2. DOMAIN bits = 0..(n - 1) /\ \A p \in 0..(n - 1) : p - 0 = p
  <2>1. DOMAIN [p \in 0..(n - 1) |-> bits[p]] = 0..(n - 1)
    OBVIOUS
  <2> QED
    BY <2>1
<1> HIDE DEF w
<1>3. \A p \in 0..(n - 1) : w.cells[p] = bits[p]
  BY <1>1, <1>2
<1> QED
  BY <1>1, <1>3 DEF Exact, w

LEMMA SanitizedExact ==
  ASSUME NEW n \in Nat, NEW v, NEW bits, Exact(v, n, bits)
  PROVE  Exact(Bitvec!Sanitize(v), n, bits)
BY SanitizeIs DEF Exact, Agree

LEMMA AssignStays ==
  ASSUME BitvecKept, Bitvec!AssignWords \/ Bitvec!AssignList \/ Bitvec!AssignRange
  PROVE  BitvecKept'
<1>0. size \in Nat /\ MaxBits \in Nat
  BY NowIs
<1>1. CASE Bitvec!AssignWords
  <2>1. PICK n \in 0..MaxBits, ones \in BitsOf :
          Bitvec!Become(Bitvec!With(Bitvec!Resized(Bitvec!Now, n), 0, Bitvec!Pattern(ones, n)), Bitvec!Pattern(ones, n))
    BY <1>1 DEF Bitvec!AssignWords
  <2>2. n \in Nat /\ Vec(Bitvec!Resized(Bitvec!Now, n), n)
        /\ Bitvec!Pattern(ones, n) = [p \in 0..(n - 1) |-> Bitvec!Pattern(ones, n)[p]]
    BY <1>0, GrownIs, BitsAre
  <2> QED
    BY <2>1, <2>2, OverIs, BecomeGood
<1>2. CASE Bitvec!AssignList
  <2>1. PICK n \in 1..MaxBits, ones \in BitsOf :
          LET reversed == [p \in 0..(n - 1) |-> Bitvec!Pattern(ones, n)[n - 1 - p]] IN
          Bitvec!Become(Bitvec!Sanitize(Bitvec!With(Bitvec!Resized(Bitvec!Now, n), 0, reversed)), reversed)
    BY <1>2 DEF Bitvec!AssignList
  <2> DEFINE reversed == [p \in 0..(n - 1) |-> Bitvec!Pattern(ones, n)[n - 1 - p]]
  <2>2. Bitvec!Become(Bitvec!Sanitize(Bitvec!With(Bitvec!Resized(Bitvec!Now, n), 0, reversed)), reversed)
    BY <2>1
  <2>3. n \in Nat /\ Vec(Bitvec!Resized(Bitvec!Now, n), n) /\ reversed = [p \in 0..(n - 1) |-> reversed[p]]
    BY <1>0, GrownIs
  <2> HIDE DEF reversed
  <2> QED
    BY <2>2, <2>3, OverIs, SanitizedExact, BecomeGood
<1>3. CASE Bitvec!AssignRange
  <2>1. PICK n \in 0..MaxBits, ones \in BitsOf :
          LET v == Bitvec!Resized(Bitvec!Now, n)
              written == ByteBits * ((n + ByteBits - 1) \div ByteBits) IN
          Bitvec!Become(Bitvec!With(Bitvec!With(v, n, [p \in 0..(written - n - 1) |-> Raw]), 0, Bitvec!Pattern(ones, n)),
                        Bitvec!Pattern(ones, n))
    BY <1>3 DEF Bitvec!AssignRange
  <2> DEFINE written == ByteBits * ((n + ByteBits - 1) \div ByteBits)
             above == [p \in 0..(written - n - 1) |-> Raw]
             v == Bitvec!With(Bitvec!Resized(Bitvec!Now, n), n, above)
  <2>2. Bitvec!Become(Bitvec!With(v, 0, Bitvec!Pattern(ones, n)), Bitvec!Pattern(ones, n))
    BY <2>1
  <2> HIDE DEF above
  <2>3. n \in Nat /\ Vec(v, n)
        /\ Bitvec!Pattern(ones, n) = [p \in 0..(n - 1) |-> Bitvec!Pattern(ones, n)[p]]
    BY <1>0, GrownIs, BitsAre, WithIs
  <2> HIDE DEF v
  <2> QED
    BY <2>2, <2>3, OverIs, BecomeGood
<1> QED
  BY <1>1, <1>2, <1>3

LEMMA InsertCopiesStays == ASSUME BitvecKept, Bitvec!InsertCopies PROVE BitvecKept'
<1>0. size \in Nat /\ MaxBits \in Nat
  BY NowIs
<1>1. PICK k \in 1..MaxBits, b \in Bitvec!Bit :
        Bitvec!Become(Bitvec!With(Bitvec!Resized(Bitvec!Now, size + k), size, Bitvec!All(k, b)),
                      Bitvec!Joined(size, Bitvec!All(k, b), k))
  BY DEF Bitvec!InsertCopies
<1> DEFINE n == size + k
           v == Bitvec!Resized(Bitvec!Now, n)
           new == Bitvec!All(k, b)
           w == Bitvec!With(v, size, new)
           bits == Bitvec!Joined(size, new, k)
<1>2. n \in Nat /\ k \in Nat /\ DOMAIN new = 0..(k - 1) /\ 0..(size + k - 1) = 0..(n - 1)
  BY <1>0, BitsAre
<1> HIDE DEF new
<1>3. bits = [p \in 0..(n - 1) |-> IF p < size THEN given[p] ELSE new[p - size]]
  BY <1>2 DEF Bitvec!Joined
<1>4. Bitvec!Become(w, bits)
  BY <1>1 DEF new
<1>5. \A p \in 0..(n - 1) : p - size \in 0..(k - 1) <=> ~ (p < size)
  BY <1>0, <1>2
<1> HIDE DEF n
<1>6. Vec(v, n) /\ \A p \in 0..(n - 1) : p < size => v.cells[p] = given[p]
  BY <1>2, GrownIs
<1> HIDE DEF v
<1>7. Vec(w, n) /\ \A p \in 0..(n - 1) : w.cells[p] = IF p - size \in DOMAIN new THEN new[p - size] ELSE v.cells[p]
  BY <1>2, <1>6, WithIs
<1> HIDE DEF w, bits
<1>8. \A p \in 0..(n - 1) : w.cells[p] = bits[p]
  BY <1>2, <1>3, <1>5, <1>6, <1>7
<1>9. Exact(w, n, bits)
  BY <1>3, <1>7, <1>8 DEF Exact
<1> QED
  BY <1>2, <1>4, <1>9, BecomeGood

LEMMA InsertListStays == ASSUME BitvecKept, Bitvec!InsertList PROVE BitvecKept'
<1>0. size \in Nat /\ MaxBits \in Nat /\ \A p \in 0..(size - 1) : buffer[p] = given[p]
  BY NowIs
<1>1. PICK at \in 0..size, k \in 1..MaxBits, ones \in BitsOf :
        LET tail     == [p \in 0..(size - at - 1) |-> buffer[at + p]]
            reversed == [p \in 0..(k - 1) |-> Bitvec!Pattern(ones, k)[k - 1 - p]] IN
        Bitvec!Become(Bitvec!With(Bitvec!With(Bitvec!Resized(Bitvec!Now, size + k), at + k, tail), at, reversed),
                      [p \in 0..(size + k - 1) |-> IF p < at THEN given[p]
                                                   ELSE IF p < at + k THEN reversed[p - at]
                                                   ELSE given[p - k]])
  BY DEF Bitvec!InsertList
<1> DEFINE n == size + k
           tail == [p \in 0..(size - at - 1) |-> buffer[at + p]]
           reversed == [p \in 0..(k - 1) |-> Bitvec!Pattern(ones, k)[k - 1 - p]]
           v == Bitvec!Resized(Bitvec!Now, n)
           u == Bitvec!With(v, at + k, tail)
           w == Bitvec!With(u, at, reversed)
           bits == [p \in 0..(n - 1) |-> IF p < at THEN given[p]
                                         ELSE IF p < at + k THEN reversed[p - at] ELSE given[p - k]]
<1>2. n \in Nat /\ k \in Nat /\ at \in Nat /\ at <= size /\ 0..(size + k - 1) = 0..(n - 1)
  BY <1>0
<1>3. Bitvec!Become(w, bits)
  BY <1>1, <1>2
<1>4. DOMAIN tail = 0..(size - at - 1) /\ DOMAIN reversed = 0..(k - 1)
      /\ \A p \in 0..(size - at - 1) : tail[p] = buffer[at + p]
  OBVIOUS
<1>5. DOMAIN bits = 0..(n - 1) /\ bits = [p \in 0..(n - 1) |-> bits[p]]
      /\ \A p \in 0..(n - 1) : bits[p] = IF p < at THEN given[p]
                                         ELSE IF p < at + k THEN reversed[p - at] ELSE given[p - k]
  OBVIOUS
<1> HIDE DEF bits, tail, reversed
<1>6. Vec(v, n) /\ \A p \in 0..(n - 1) : p < size => v.cells[p] = given[p]
  BY <1>2, GrownIs
<1> HIDE DEF v
<1>7. Vec(u, n) /\ \A p \in 0..(n - 1) : u.cells[p] = IF p - (at + k) \in DOMAIN tail THEN tail[p - (at + k)] ELSE v.cells[p]
  BY <1>2, <1>6, WithIs
<1> HIDE DEF u
<1>8. Vec(w, n) /\ \A p \in 0..(n - 1) : w.cells[p] = IF p - at \in DOMAIN reversed THEN reversed[p - at] ELSE u.cells[p]
  BY <1>2, <1>7, WithIs
<1> HIDE DEF w
<1>9. ASSUME NEW p \in 0..(n - 1) PROVE w.cells[p] = bits[p]
  <2>0. p \in Nat /\ p < size + k
    BY <1>0, <1>2
  <2>1. CASE p < at
    <3>1. p - at \notin 0..(k - 1) /\ p - (at + k) \notin 0..(size - at - 1) /\ p < size
      BY <1>0, <1>2, <2>0, <2>1
    <3> QED
      BY <1>4, <1>5, <1>6, <1>7, <1>8, <2>1, <3>1
  <2>2. CASE ~ (p < at) /\ p < at + k
    <3>1. p - at \in 0..(k - 1)
      BY <1>0, <1>2, <2>0, <2>2
    <3> QED
      BY <1>4, <1>5, <1>8, <2>2, <3>1
  <2>3. CASE ~ (p < at) /\ ~ (p < at + k)
    <3>1. p - at \notin 0..(k - 1) /\ p - (at + k) \in 0..(size - at - 1) /\ at + (p - (at + k)) = p - k
          /\ p - k \in 0..(size - 1)
      BY <1>0, <1>2, <2>0, <2>3
    <3>2. u.cells[p] = given[p - k]
      BY <1>0, <1>4, <1>7, <3>1
    <3>3. bits[p] = given[p - k]
      BY <1>5, <2>3
    <3> QED
      BY <1>4, <1>8, <3>1, <3>2, <3>3
  <2> QED
    BY <2>1, <2>2, <2>3
<1>10. Exact(w, n, bits)
  BY <1>5, <1>8, <1>9 DEF Exact
<1> QED
  BY <1>2, <1>3, <1>10, BecomeGood

LEMMA EraseBitsStays == ASSUME BitvecKept, Bitvec!Erase PROVE BitvecKept'
<1>0. /\ size \in Nat /\ \A p \in 0..(size - 1) : buffer[p] = given[p]
      /\ Vec(Bitvec!Now, size) /\ Bitvec!Now.cells = buffer
  BY NowIs
<1>1. PICK at \in 0..size, k \in 0..size :
        /\ at + k <= size
        /\ Bitvec!Become(Bitvec!Resized(Bitvec!With(Bitvec!Now, at, [p \in 0..(size - at - k - 1) |-> buffer[at + k + p]]), size - k),
                         [p \in 0..(size - k - 1) |-> IF p < at THEN given[p] ELSE given[p + k]])
  BY DEF Bitvec!Erase
<1> DEFINE n == size - k
           tail == [p \in 0..(size - at - k - 1) |-> buffer[at + k + p]]
           v == Bitvec!With(Bitvec!Now, at, tail)
           w == Bitvec!Resized(v, n)
           bits == [p \in 0..(n - 1) |-> IF p < at THEN given[p] ELSE given[p + k]]
<1>2. n \in Nat /\ k \in Nat /\ at \in Nat /\ at + k <= size /\ n <= size
  BY <1>0, <1>1
<1>3. Bitvec!Become(w, bits)
  BY <1>1, <1>2
<1>4. DOMAIN tail = 0..(size - at - k - 1) /\ \A p \in 0..(size - at - k - 1) : tail[p] = buffer[at + k + p]
  OBVIOUS
<1>5. DOMAIN bits = 0..(n - 1) /\ bits = [p \in 0..(n - 1) |-> bits[p]]
      /\ \A p \in 0..(n - 1) : bits[p] = IF p < at THEN given[p] ELSE given[p + k]
  OBVIOUS
<1> HIDE DEF bits, tail
<1>6. Vec(v, size) /\ \A p \in 0..(size - 1) : v.cells[p] = IF p - at \in DOMAIN tail THEN tail[p - at] ELSE Bitvec!Now.cells[p]
  BY <1>0, WithIs
<1> HIDE DEF v
<1>7. Vec(w, n) /\ \A p \in 0..(n - 1) : p < size => w.cells[p] = v.cells[p]
  BY <1>0, <1>2, <1>6, ResizedIs
<1> HIDE DEF w
<1>8. ASSUME NEW p \in 0..(n - 1) PROVE w.cells[p] = bits[p]
  <2>0. p \in Nat /\ p < size - k /\ p \in 0..(size - 1) /\ p < size
    BY <1>0, <1>2
  <2>1. CASE p < at
    <3>1. p - at \notin 0..(size - at - k - 1)
      BY <1>0, <1>2, <2>0, <2>1
    <3> QED
      BY <1>0, <1>4, <1>5, <1>6, <1>7, <2>0, <2>1, <3>1
  <2>2. CASE ~ (p < at)
    <3>1. p - at \in 0..(size - at - k - 1) /\ at + k + (p - at) = p + k /\ p + k \in 0..(size - 1)
      BY <1>0, <1>2, <2>0, <2>2
    <3>2. v.cells[p] = given[p + k]
      BY <1>0, <1>4, <1>6, <2>0, <3>1
    <3> QED
      BY <1>5, <1>7, <2>0, <2>2, <3>2
  <2> QED
    BY <2>1, <2>2
<1>9. Exact(w, n, bits)
  BY <1>5, <1>7, <1>8 DEF Exact
<1> QED
  BY <1>2, <1>3, <1>9, BecomeGood

LEMMA ClearBitsStays == ASSUME BitvecKept, Bitvec!Clear PROVE BitvecKept'
<1>1. Bitvec!Become(Bitvec!Cleared, Bitvec!All(0, 0))
  BY DEF Bitvec!Clear
<1>2. \A p \in 0..(0 - 1) : FALSE
  OBVIOUS
<1>3. Exact(Bitvec!Cleared, 0, Bitvec!All(0, 0))
  BY <1>2, ClearedIs, BitsAre DEF Exact
<1> QED
  BY <1>1, <1>3, BecomeGood

\* Calls that write the bits of the vector, as many as there are.
LEMMA OverStays ==
  ASSUME BitvecKept, NEW bits, bits = [p \in 0..(size - 1) |-> bits[p]],
         Bitvec!Become(Bitvec!With(Bitvec!Now, 0, bits), bits)
  PROVE  BitvecKept'
<1>1. size \in Nat /\ Vec(Bitvec!Now, size)
  BY NowIs
<1> QED
  BY <1>1, OverIs, BecomeGood

LEMMA OneBitStays ==
  ASSUME BitvecKept, NEW at \in 0..(size - 1), NEW b,
         Bitvec!Become(Bitvec!With(Bitvec!Now, at, Bitvec!All(1, b)), [given EXCEPT ![at] = b])
  PROVE  BitvecKept'
<1>0. /\ size \in Nat /\ \A p \in 0..(size - 1) : buffer[p] = given[p]
      /\ Vec(Bitvec!Now, size) /\ Bitvec!Now.cells = buffer
      /\ DOMAIN given = 0..(size - 1) /\ given = [p \in 0..(size - 1) |-> given[p]]
  BY NowIs
<1> DEFINE one == Bitvec!All(1, b)
           w == Bitvec!With(Bitvec!Now, at, one)
           bits == [given EXCEPT ![at] = b]
<1>1. DOMAIN one = 0..0 /\ one[0] = b
  BY DEF Bitvec!All
<1> HIDE DEF one
<1>2. Vec(w, size) /\ \A p \in 0..(size - 1) : w.cells[p] = IF p - at \in DOMAIN one THEN one[p - at] ELSE Bitvec!Now.cells[p]
  BY <1>0, WithIs
<1>3. Bitvec!Become(w, bits)
  BY DEF one
<1> HIDE DEF w
<1>4. \A p \in 0..(size - 1) : bits[p] = IF p = at THEN b ELSE given[p]
  BY <1>0
<1>5. bits = [p \in 0..(size - 1) |-> bits[p]]
  BY <1>0
<1> HIDE DEF bits
<1>6. \A p \in 0..(size - 1) : (p - at \in 0..0 <=> p = at) /\ (p = at => p - at = 0)
  BY <1>0
<1>7. \A p \in 0..(size - 1) : w.cells[p] = bits[p]
  BY <1>0, <1>1, <1>2, <1>4, <1>6
<1>8. Exact(w, size, bits)
  BY <1>2, <1>5, <1>7 DEF Exact
<1> QED
  BY <1>0, <1>3, <1>8, BecomeGood

LEMMA SetStays ==
  ASSUME BitvecKept, Bitvec!SetBit \/ Bitvec!FlipBit \/ Bitvec!SetAll \/ Bitvec!FlipAll \/ Bitvec!Combine
  PROVE  BitvecKept'
<1>0. /\ size \in Nat /\ \A p \in 0..(size - 1) : buffer[p] = given[p]
      /\ DOMAIN given = 0..(size - 1)
  BY NowIs
<1>1. CASE Bitvec!SetBit
  BY <1>1, OneBitStays DEF Bitvec!SetBit
<1>2. CASE Bitvec!FlipBit
  <2>1. PICK at \in 0..(size - 1) :
          Bitvec!Become(Bitvec!With(Bitvec!Now, at, Bitvec!All(1, Bitvec!Inverse(buffer[at]))),
                        [given EXCEPT ![at] = Bitvec!Inverse(given[at])])
    BY <1>2 DEF Bitvec!FlipBit
  <2>2. buffer[at] = given[at]
    BY <1>0
  <2> QED
    BY <2>1, <2>2, OneBitStays
<1>3. CASE Bitvec!SetAll
  <2>1. PICK b : Bitvec!Become(Bitvec!With(Bitvec!Now, 0, Bitvec!All(size, b)), Bitvec!All(size, b))
    BY <1>3 DEF Bitvec!SetAll
  <2> QED
    BY <1>0, <2>1, BitsAre, OverStays
<1>4. CASE Bitvec!FlipAll
  <2> DEFINE bits == [p \in 0..(size - 1) |-> Bitvec!Inverse(buffer[p])]
  <2>1. bits = [p \in DOMAIN given |-> Bitvec!Inverse(given[p])]
    BY <1>0
  <2>2. Bitvec!Become(Bitvec!With(Bitvec!Now, 0, bits), bits)
    BY <1>4, <2>1 DEF Bitvec!FlipAll
  <2>3. bits = [p \in 0..(size - 1) |-> bits[p]]
    OBVIOUS
  <2> HIDE DEF bits
  <2> QED
    BY <2>2, <2>3, OverStays
<1>5. CASE Bitvec!Combine
  <2>1. PICK op \in {"and", "or", "xor"}, ones \in BitsOf :
          LET Combined(f) == [p \in 0..(size - 1) |->
                                IF op = "and" THEN (IF p \in ones THEN f[p] ELSE 0)
                                ELSE IF p \notin ones THEN f[p]
                                ELSE IF op = "or" THEN 1 ELSE Bitvec!Inverse(f[p])] IN
          Bitvec!Become(Bitvec!With(Bitvec!Now, 0, Combined(buffer)), Combined(given))
    BY <1>5 DEF Bitvec!Combine
  <2> DEFINE Combined(f) == [p \in 0..(size - 1) |->
                               IF op = "and" THEN (IF p \in ones THEN f[p] ELSE 0)
                               ELSE IF p \notin ones THEN f[p]
                               ELSE IF op = "or" THEN 1 ELSE Bitvec!Inverse(f[p])]
             bits == Combined(buffer)
  <2>2. bits = Combined(given)
    BY <1>0
  <2>3. Bitvec!Become(Bitvec!With(Bitvec!Now, 0, bits), bits)
    BY <2>1, <2>2
  <2>4. bits = [p \in 0..(size - 1) |-> bits[p]]
    OBVIOUS
  <2> HIDE DEF bits
  <2> QED
    BY <2>3, <2>4, OverStays
<1> QED
  BY <1>1, <1>2, <1>3, <1>4, <1>5

\* The words moved by k, sanitized: below the size, each bit is the cell k places before it.
LEMMA ShiftedIs ==
  ASSUME BitvecKept, NEW k \in Int
  PROVE  /\ Vec(Bitvec!Shifted(k), size)
         /\ \A p \in 0..(size - 1) : Bitvec!Shifted(k).cells[p]
              = IF p - k \in 0..(Bitvec!BitSpace(size) - 1) THEN buffer[p - k] ELSE 0
<1> DEFINE m == Bitvec!BitSpace(size)
           moved == [p \in 0..(m - 1) |-> IF p - k \in 0..(m - 1) THEN buffer[p - k] ELSE 0]
           words == Bitvec!With(Bitvec!Now, 0, moved)
           inner == [words EXCEPT !.cells = Bitvec!InWords(@)]
           v == IF Bitvec!FitLocal(size) THEN inner ELSE words
<1>0. /\ size \in Nat /\ Vec(Bitvec!Now, size) /\ m \in Nat /\ size <= m
      /\ Bitvec!MaxLocal \in Nat /\ Bitvec!MaxLocal <= 2 * WordBits /\ WordBits \in Nat
  BY NowIs, BitSpaceIs, BitAssumption
<1>1. Bitvec!Shifted(k) = Bitvec!Sanitize(v)
  BY DEF Bitvec!Shifted
<1>2. DOMAIN moved = 0..(m - 1)
      /\ \A p \in 0..(m - 1) : moved[p] = IF p - k \in 0..(m - 1) THEN buffer[p - k] ELSE 0
  OBVIOUS
<1> HIDE DEF m, moved
<1>3. Vec(words, size) /\ \A p \in 0..(size - 1) : words.cells[p]
        = IF p - 0 \in DOMAIN moved THEN moved[p - 0] ELSE Bitvec!Now.cells[p]
  BY <1>0, WithIs
<1> HIDE DEF words
<1>4. \A p \in 0..(size - 1) : p - 0 = p /\ p \in 0..(m - 1)
  BY <1>0
<1>5. \A p \in 0..(size - 1) : words.cells[p] = IF p - k \in 0..(m - 1) THEN buffer[p - k] ELSE 0
  BY <1>2, <1>3, <1>4
<1>6. ASSUME Bitvec!FitLocal(size) PROVE Vec(inner, size) /\ Agree(inner, words, size)
  <2> DEFINE c == words.cells
             d == Bitvec!InWords(c)
  <2>1. words = [cells |-> c, size |-> size] /\ DOMAIN c = 0..(2 * WordBits - 1) /\ RoomOf(size) = 2 * WordBits
    BY <1>3, <1>6 DEF Vec, RoomOf
  <2>2. inner = [cells |-> d, size |-> size] /\ inner.cells = d
    BY <2>1
  <2> HIDE DEF c
  <2>3. DOMAIN d = 0..(2 * WordBits - 1)
        /\ \A p \in 0..(2 * WordBits - 1) : d[p] = IF p < Bitvec!MaxLocal /\ p \in DOMAIN c THEN c[p] ELSE Raw
    BY DEF Bitvec!InWords
  <2> HIDE DEF d, inner
  <2>4. size < Bitvec!MaxLocal
    BY <1>6 DEF Bitvec!FitLocal
  <2>5. \A p \in 0..(size - 1) : p \in 0..(2 * WordBits - 1) /\ p < Bitvec!MaxLocal
    BY <1>0, <2>4
  <2>6. \A p \in 0..(size - 1) : inner.cells[p] = c[p]
    BY <2>1, <2>2, <2>3, <2>5
  <2> QED
    BY <2>1, <2>2, <2>3, <2>6 DEF Vec, Agree, c
<1>7. Vec(v, size) /\ Agree(v, words, size)
  <2> HIDE DEF inner
  <2> QED
    BY <1>3, <1>6 DEF Agree
<1> HIDE DEF v
<1>8. Vec(Bitvec!Sanitize(v), size) /\ Agree(Bitvec!Sanitize(v), v, size)
  BY <1>0, <1>7, SanitizeIs
<1> DEFINE u == Bitvec!Sanitize(v)
<1> HIDE DEF u
<1>9. \A p \in 0..(size - 1) : u.cells[p] = IF p - k \in 0..(m - 1) THEN buffer[p - k] ELSE 0
  BY <1>5, <1>7, <1>8 DEF Agree, u
<1> QED
  BY <1>1, <1>8, <1>9 DEF u, m

LEMMA ShiftStays == ASSUME BitvecKept, Bitvec!ShiftLeft \/ Bitvec!ShiftRight PROVE BitvecKept'
<1>0. size \in Nat /\ (\A p \in 0..(size - 1) : buffer[p] = given[p]) /\ MaxBits \in Nat
      /\ Bitvec!BitSpace(size) \in Nat /\ size <= Bitvec!BitSpace(size)
  BY NowIs, BitSpaceIs
<1>1. ASSUME NEW k \in Int, Bitvec!Become(Bitvec!Shifted(k), Bitvec!Clipped(k)),
             \A p \in 0..(size - 1) : p - k \in 0..(Bitvec!BitSpace(size) - 1) /\ p - k \notin 0..(size - 1)
                                        => buffer[p - k] = 0
      PROVE  BitvecKept'
  <2> DEFINE v == Bitvec!Shifted(k)
             bits == Bitvec!Clipped(k)
  <2>1. Vec(v, size)
        /\ \A p \in 0..(size - 1) : v.cells[p] = IF p - k \in 0..(Bitvec!BitSpace(size) - 1) THEN buffer[p - k] ELSE 0
    BY ShiftedIs
  <2>2. bits = [p \in 0..(size - 1) |-> bits[p]]
        /\ \A p \in 0..(size - 1) : bits[p] = IF p - k \in 0..(size - 1) THEN given[p - k] ELSE 0
    BY DEF Bitvec!Clipped
  <2> HIDE DEF v, bits
  <2>3. ASSUME NEW p \in 0..(size - 1) PROVE v.cells[p] = bits[p]
    <3>1. CASE p - k \in 0..(size - 1)
      <4>1. p - k \in 0..(Bitvec!BitSpace(size) - 1)
        BY <1>0, <3>1
      <4> QED
        BY <1>0, <2>1, <2>2, <3>1, <4>1
    <3>2. CASE p - k \notin 0..(size - 1)
      BY <1>1, <2>1, <2>2, <3>2
    <3> QED
      BY <3>1, <3>2
  <2>4. Exact(v, size, bits)
    BY <2>1, <2>2, <2>3 DEF Exact
  <2> QED
    BY <1>0, <1>1, <2>4, BecomeGood DEF v, bits
<1>2. CASE Bitvec!ShiftLeft
  <2>1. PICK k \in 0..(MaxBits + 1) : Bitvec!Become(Bitvec!Shifted(k), Bitvec!Clipped(k))
    BY <1>2 DEF Bitvec!ShiftLeft
  <2>2. k \in Int
    OBVIOUS
  <2>3. \A p \in 0..(size - 1) : ~ (p - k \in 0..(Bitvec!BitSpace(size) - 1) /\ p - k \notin 0..(size - 1))
    BY <1>0
  <2> QED
    BY <1>1, <2>1, <2>2, <2>3
<1>3. CASE Bitvec!ShiftRight
  <2>1. PICK k \in 0..(MaxBits + 1) : Bitvec!Become(Bitvec!Shifted(-k), Bitvec!Clipped(-k))
    BY <1>3 DEF Bitvec!ShiftRight
  <2>2. \A p \in size..(Bitvec!BitSpace(size) - 1) : buffer[p] = 0
    BY <1>3 DEF Bitvec!ShiftRight
  <2>3. -k \in Int
    OBVIOUS
  <2> DEFINE j == -k
  <2>4. ASSUME NEW p \in 0..(size - 1), p - j \in 0..(Bitvec!BitSpace(size) - 1), p - j \notin 0..(size - 1)
        PROVE  buffer[p - j] = 0
    <3>1. p - j \in size..(Bitvec!BitSpace(size) - 1)
      BY <1>0, <2>3, <2>4
    <3> QED
      BY <2>2, <3>1
  <2>5. Bitvec!Become(Bitvec!Shifted(j), Bitvec!Clipped(j)) /\ j \in Int
    BY <2>1, <2>3
  <2> HIDE DEF j
  <2> QED
    BY <1>1, <2>4, <2>5
<1> QED
  BY <1>2, <1>3

LEMMA BitvecStarts == ASSUME Bitvec!Init PROVE BitvecKept
<1>1. buffer = Bitvec!Cleared.cells /\ size = 0 /\ given = [p \in {} |-> 0]
  BY DEF Bitvec!Init
<1>2. DOMAIN buffer = 0..(RoomOf(0) - 1)
  BY <1>1, ClearedIs DEF Vec
<1>3. 0..(0 - 1) = {}
  OBVIOUS
<1>4. [p \in 0..(size - 1) |-> buffer[p]] = given
  BY <1>1, <1>3
<1> QED
  BY <1>1, <1>2, <1>4 DEF BitvecKept, Bitvec!ContentsExact, Bitvec!BlockExact, RoomOf

LEMMA BitvecStays == ASSUME BitvecKept, Bitvec!Next PROVE BitvecKept'
BY ResizeStays, AssignStays, InsertCopiesStays, InsertListStays, EraseBitsStays, ClearBitsStays, SetStays,
   ShiftStays DEF Bitvec!Next

-----------------------------------------------------------------------------
(* bitset: the invariant is WordsExact, and that no bit is set above the last one. *)

BitsetKept == Bitset!WordsExact /\ buffer \in SUBSET Bitset!Bits

\* The words hold the bits, and a place is in one word.
LEMMA WordsHold ==
  /\ Bitset!nwords \in Nat \ {0} /\ SetSize <= Bitset!nwords * WordBits
  /\ Bitset!Places = 0..(Bitset!nwords * WordBits - 1) /\ Bitset!Bits \subseteq Bitset!Places
<1>1. WordBits \in Nat \ {0} /\ SetSize \in Nat \ {0}
  BY BitAssumption
<1> DEFINE a == SetSize + WordBits - 1
           q == a \div WordBits
           r == a % WordBits
<1>2. a = WordBits * q + r /\ q \in Int /\ r \in 0..(WordBits - 1)
  BY <1>1
<1>3. q = Bitset!nwords
  BY DEF Bitset!nwords
<1> HIDE DEF q, r
<1>4. WordBits * q >= SetSize
  BY <1>1, <1>2
<1>5. q > 0
  BY <1>1, <1>2, <1>4
<1>6. WordBits * q = q * WordBits
  BY <1>1, <1>2
<1> QED
  BY <1>1, <1>2, <1>3, <1>4, <1>5, <1>6 DEF Bitset!Places, Bitset!Bits

LEMMA WordOf ==
  ASSUME NEW p \in Bitset!Places
  PROVE  \E i \in 0..(Bitset!nwords - 1), q \in 0..(WordBits - 1) : p = i * WordBits + q
<1>1. WordBits \in Nat \ {0} /\ Bitset!nwords \in Nat \ {0} /\ p \in 0..(Bitset!nwords * WordBits - 1)
  BY BitAssumption, WordsHold
<1> DEFINE i == p \div WordBits
           q == p % WordBits
<1>2. p = WordBits * i + q /\ i \in Int /\ q \in 0..(WordBits - 1)
  BY <1>1
<1> HIDE DEF i, q
<1>3. p = i * WordBits + q
  BY <1>1, <1>2
<1>4. i >= 0
  <2> SUFFICES ASSUME i <= -1 PROVE FALSE
    BY <1>2
  <2>1. i * WordBits <= -WordBits
    BY <1>1, <1>2
  <2> QED
    BY <1>1, <1>2, <1>3, <2>1
<1>5. i < Bitset!nwords
  <2> SUFFICES ASSUME i >= Bitset!nwords PROVE FALSE
    BY <1>1, <1>2
  <2>1. i * WordBits >= Bitset!nwords * WordBits
    BY <1>1, <1>2
  <2> QED
    BY <1>1, <1>2, <1>3, <2>1
<1>6. i \in 0..(Bitset!nwords - 1)
  BY <1>1, <1>2, <1>4, <1>5
<1> QED
  BY <1>2, <1>3, <1>6

LEMMA OneWord ==
  ASSUME NEW i \in Int, NEW q \in 0..(WordBits - 1), NEW j \in Int, NEW r \in 0..(WordBits - 1),
         i * WordBits + q = j * WordBits + r
  PROVE  i = j /\ q = r
<1>1. WordBits \in Nat \ {0}
  BY BitAssumption
<1>2. ASSUME NEW m \in Int, NEW n \in Int, m < n PROVE m * WordBits + WordBits <= n * WordBits
  BY <1>1, <1>2
<1>3. i * WordBits \in Int /\ j * WordBits \in Int
  BY <1>1
<1>4. ~ (i < j)
  BY <1>1, <1>2, <1>3
<1>5. ~ (j < i)
  BY <1>1, <1>2, <1>3
<1>6. i = j
  BY <1>4, <1>5
<1> QED
  BY <1>3, <1>6

\* The bit at a place of a set made of words.
LEMMA JoinedIs ==
  ASSUME NEW word \in [0..(Bitset!nwords - 1) -> SUBSET (0..(WordBits - 1))],
         NEW i \in 0..(Bitset!nwords - 1), NEW q \in 0..(WordBits - 1)
  PROVE  i * WordBits + q \in Bitset!Joined(word) <=> q \in word[i]
<1>1. ASSUME q \in word[i] PROVE i * WordBits + q \in Bitset!Joined(word)
  BY <1>1 DEF Bitset!Joined
<1>2. ASSUME i * WordBits + q \in Bitset!Joined(word) PROVE q \in word[i]
  <2>1. PICK j \in 0..(Bitset!nwords - 1) : \E r \in word[j] : i * WordBits + q = j * WordBits + r
    BY <1>2 DEF Bitset!Joined
  <2>2. PICK r \in word[j] : i * WordBits + q = j * WordBits + r
    BY <2>1
  <2>3. r \in 0..(WordBits - 1) /\ i \in Int /\ j \in Int
    BY WordsHold
  <2>4. i = j /\ q = r
    BY <2>2, <2>3, OneWord
  <2> QED
    BY <2>2, <2>4
<1> QED
  BY <1>1, <1>2

LEMMA JoinedPlaces ==
  ASSUME NEW word \in [0..(Bitset!nwords - 1) -> SUBSET (0..(WordBits - 1))]
  PROVE  Bitset!Joined(word) \subseteq Nat
<1>1. WordBits \in Nat \ {0} /\ Bitset!nwords \in Nat
  BY BitAssumption, WordsHold
<1>2. \A k \in 0..(Bitset!nwords - 1) : k * WordBits \in Nat
  BY <1>1
<1> QED
  BY <1>1, <1>2 DEF Bitset!Joined

\* A shift by whole words and by some bits.
LEMMA ShiftIs ==
  ASSUME NEW k \in Nat
  PROVE  /\ k \div WordBits \in Nat /\ k % WordBits \in 0..(WordBits - 1)
         /\ k = (k \div WordBits) * WordBits + (k % WordBits)
<1>1. WordBits \in Nat \ {0}
  BY BitAssumption
<1> DEFINE q == k \div WordBits
           r == k % WordBits
<1>2. k = WordBits * q + r /\ q \in Nat /\ r \in 0..(WordBits - 1)
  BY <1>1
<1> HIDE DEF q, r
<1>3. k = q * WordBits + r
  BY <1>1, <1>2
<1> QED
  BY <1>2, <1>3 DEF q, r

\* What a shift makes are words.
LEMMA ShlPlaces ==
  ASSUME NEW k \in Nat
  PROVE  \A p \in Bitset!ShlWords(k) : p \in Nat
<1> DEFINE s == k \div WordBits
           o == k % WordBits
           word == [i \in 0..(Bitset!nwords - 1) |->
                      IF i < s THEN {}
                      ELSE IF o = 0 THEN Bitset!WordAt(i - s)
                      ELSE IF i = s THEN Bitset!Shl(Bitset!WordAt(0), o)
                      ELSE Bitset!Shl(Bitset!WordAt(i - s), o)
                             \cup Bitset!Shr(Bitset!WordAt(i - s - 1), WordBits - o)]
<1>1. Bitset!ShlWords(k) = Bitset!Joined(word)
  BY DEF Bitset!ShlWords
<1>2. word \in [0..(Bitset!nwords - 1) -> SUBSET (0..(WordBits - 1))]
  <2> HIDE DEF s, o
  <2> QED
    BY DEF Bitset!WordAt, Bitset!Shl, Bitset!Shr
<1> HIDE DEF word
<1> QED
  BY <1>1, <1>2, JoinedPlaces

LEMMA ShrPlaces ==
  ASSUME NEW k \in Nat
  PROVE  \A p \in Bitset!ShrWords(k) : p \in Nat
<1> DEFINE s == k \div WordBits
           o == k % WordBits
           limit == Bitset!nwords - s - 1
           word == [i \in 0..(Bitset!nwords - 1) |->
                      IF i > limit THEN {}
                      ELSE IF o = 0 THEN Bitset!WordAt(i + s)
                      ELSE IF i = limit THEN Bitset!Shr(Bitset!WordAt(Bitset!nwords - 1), o)
                      ELSE Bitset!Shr(Bitset!WordAt(i + s), o)
                             \cup Bitset!Shl(Bitset!WordAt(i + s + 1), WordBits - o)]
<1>1. Bitset!ShrWords(k) = Bitset!Joined(word)
  BY DEF Bitset!ShrWords
<1>2. word \in [0..(Bitset!nwords - 1) -> SUBSET (0..(WordBits - 1))]
  <2> HIDE DEF s, o, limit
  <2> QED
    BY DEF Bitset!WordAt, Bitset!Shl, Bitset!Shr
<1> HIDE DEF word
<1> QED
  BY <1>1, <1>2, JoinedPlaces

\* __bitwise_shl moves every bit up by the count.
LEMMA ShlWordsIs ==
  ASSUME NEW k \in 0..(SetSize - 1), buffer \in SUBSET Bitset!Bits, NEW p \in Bitset!Bits
  PROVE  p \in Bitset!ShlWords(k) <=> p - k \in buffer
<1>0. WordBits \in Nat \ {0} /\ k \in Nat /\ Bitset!nwords \in Nat \ {0}
  BY BitAssumption, WordsHold
<1> DEFINE s == k \div WordBits
           o == k % WordBits
           word == [i \in 0..(Bitset!nwords - 1) |->
                      IF i < s THEN {}
                      ELSE IF o = 0 THEN Bitset!WordAt(i - s)
                      ELSE IF i = s THEN Bitset!Shl(Bitset!WordAt(0), o)
                      ELSE Bitset!Shl(Bitset!WordAt(i - s), o)
                             \cup Bitset!Shr(Bitset!WordAt(i - s - 1), WordBits - o)]
<1>1. Bitset!ShlWords(k) = Bitset!Joined(word)
  BY DEF Bitset!ShlWords
<1>2. s \in Nat /\ o \in 0..(WordBits - 1) /\ k = s * WordBits + o
  BY <1>0, ShiftIs
<1> HIDE DEF s, o
<1>3. word \in [0..(Bitset!nwords - 1) -> SUBSET (0..(WordBits - 1))]
  BY DEF Bitset!WordAt, Bitset!Shl, Bitset!Shr
<1>4. PICK i \in 0..(Bitset!nwords - 1), q \in 0..(WordBits - 1) : p = i * WordBits + q
  BY WordsHold, WordOf
<1>5. p \in Bitset!ShlWords(k) <=> q \in word[i]
  <2> HIDE DEF word
  <2> QED
    BY <1>1, <1>3, <1>4, JoinedIs
<1>6. i \in Int /\ i * WordBits \in Int /\ s * WordBits \in Int /\ p \in Int /\ q \in Int /\ o \in Int
  BY <1>0, <1>2, <1>4
<1>7. (i - s) * WordBits = i * WordBits - s * WordBits
      /\ (i - s - 1) * WordBits = i * WordBits - s * WordBits - WordBits
  BY <1>0, <1>2, <1>6
<1>8. p - k = (i - s) * WordBits + (q - o)
  BY <1>2, <1>4, <1>6, <1>7
<1>9. \A x \in buffer : x \in Nat
  BY DEF Bitset!Bits
<1>10. \A m \in Int : m <= -1 => m * WordBits <= -WordBits
  BY <1>0
<1>11. CASE i < s
  <2>1. (i - s) * WordBits <= -WordBits
    BY <1>2, <1>6, <1>10, <1>11
  <2>2. p - k < 0
    BY <1>0, <1>2, <1>4, <1>6, <1>8, <2>1
  <2> QED
    BY <1>5, <1>9, <1>11, <2>2
<1>12. CASE i >= s /\ o = 0
  <2>1. q \in word[i] <=> (i - s) * WordBits + q \in buffer
    BY <1>12, <1>2, <1>6 DEF Bitset!WordAt
  <2>2. p - k = (i - s) * WordBits + q
    BY <1>8, <1>12, <1>6
  <2> QED
    BY <1>5, <2>1, <2>2
<1>13. CASE i = s /\ o # 0
  <2>1. q \in word[i] <=> \E b \in 0..(WordBits - 1) : 0 * WordBits + b \in buffer /\ q = b + o
    BY <1>13, <1>2 DEF Bitset!WordAt, Bitset!Shl
  <2>2. p - k = q - o
    BY <1>8, <1>13, <1>6, <1>0
  <2>3. \A b \in 0..(WordBits - 1) : 0 * WordBits + b = b
    BY <1>0
  <2>4. q \in word[i] <=> q - o \in buffer
    BY <1>0, <1>2, <1>4, <1>6, <1>9, <2>1, <2>3
  <2> QED
    BY <1>5, <2>2, <2>4
<1>14. CASE i > s /\ o # 0
  <2> DEFINE m == i - s
             lo == m * WordBits
  <2>0. m \in Int /\ lo \in Int /\ (m - 1) * WordBits = lo - WordBits
    BY <1>0, <1>2, <1>6
  <2>1. q \in word[i] <=> \/ \E b \in 0..(WordBits - 1) : lo + b \in buffer /\ q = b + o
                          \/ \E b \in 0..(WordBits - 1) : (m - 1) * WordBits + b \in buffer /\ q = b - (WordBits - o)
    <3>1. word[i] = Bitset!Shl(Bitset!WordAt(m), o) \cup Bitset!Shr(Bitset!WordAt(m - 1), WordBits - o)
      BY <1>14, <1>2, <1>6
    <3> HIDE DEF word, m
    <3> QED
      BY <1>4, <3>1 DEF Bitset!WordAt, Bitset!Shl, Bitset!Shr
  <2> HIDE DEF word
  <2>2. p - k = lo + (q - o)
    BY <1>8
  <2> HIDE DEF lo, m
  <2>3. CASE q >= o
    <3>1. q - o \in 0..(WordBits - 1)
      BY <1>0, <1>2, <1>4, <1>6, <2>3
    <3>2. \A b \in 0..(WordBits - 1) : q = b + o <=> b = q - o
      BY <1>2, <1>6
    <3>3. \A b \in 0..(WordBits - 1) : q # b - (WordBits - o)
      BY <1>0, <1>2, <1>4, <1>6, <2>3
    <3> QED
      BY <1>5, <2>1, <2>2, <3>1, <3>2, <3>3
  <2>4. CASE q < o
    <3>1. q - o + WordBits \in 0..(WordBits - 1)
      BY <1>0, <1>2, <1>4, <1>6, <2>4
    <3>2. \A b \in 0..(WordBits - 1) : q = b - (WordBits - o) <=> b = q - o + WordBits
      BY <1>0, <1>2, <1>6
    <3>3. \A b \in 0..(WordBits - 1) : q # b + o
      BY <1>0, <1>2, <1>4, <1>6, <2>4
    <3>4. (m - 1) * WordBits + (q - o + WordBits) = lo + (q - o)
      BY <1>0, <1>6, <2>0
    <3> QED
      BY <1>5, <2>1, <2>2, <3>1, <3>2, <3>3, <3>4
  <2> QED
    BY <1>6, <2>3, <2>4
<1> QED
  BY <1>2, <1>6, <1>11, <1>12, <1>13, <1>14

\* __bitwise_shr moves every bit down.
LEMMA ShrWordsIs ==
  ASSUME NEW k \in 0..(SetSize - 1), buffer \in SUBSET Bitset!Bits, NEW p \in Bitset!Bits
  PROVE  p \in Bitset!ShrWords(k) <=> p + k \in buffer
<1>0. WordBits \in Nat \ {0} /\ k \in Nat /\ Bitset!nwords \in Nat \ {0}
  BY BitAssumption, WordsHold
<1> DEFINE s == k \div WordBits
           o == k % WordBits
           N == Bitset!nwords
           limit == N - s - 1
           word == [i \in 0..(N - 1) |->
                      IF i > limit THEN {}
                      ELSE IF o = 0 THEN Bitset!WordAt(i + s)
                      ELSE IF i = limit THEN Bitset!Shr(Bitset!WordAt(N - 1), o)
                      ELSE Bitset!Shr(Bitset!WordAt(i + s), o)
                             \cup Bitset!Shl(Bitset!WordAt(i + s + 1), WordBits - o)]
<1>1. Bitset!ShrWords(k) = Bitset!Joined(word)
  BY DEF Bitset!ShrWords
<1>2. s \in Nat /\ o \in 0..(WordBits - 1) /\ k = s * WordBits + o
  BY <1>0, ShiftIs
<1> HIDE DEF s, o
<1>3. word \in [0..(Bitset!nwords - 1) -> SUBSET (0..(WordBits - 1))]
  BY DEF Bitset!WordAt, Bitset!Shl, Bitset!Shr
<1>4. PICK i \in 0..(Bitset!nwords - 1), q \in 0..(WordBits - 1) : p = i * WordBits + q
  BY WordsHold, WordOf
<1>5. p \in Bitset!ShrWords(k) <=> q \in word[i]
  <2> HIDE DEF word, N
  <2> QED
    BY <1>1, <1>3, <1>4, JoinedIs
<1>6. /\ i \in Int /\ i * WordBits \in Int /\ s * WordBits \in Int /\ p \in Int /\ q \in Int /\ o \in Int
      /\ N \in Int /\ N * WordBits \in Int
  BY <1>0, <1>2, <1>4
<1>7. (i + s) * WordBits = i * WordBits + s * WordBits
      /\ (i + s + 1) * WordBits = i * WordBits + s * WordBits + WordBits
  BY <1>0, <1>2, <1>6
<1>8. p + k = (i + s) * WordBits + (q + o)
  BY <1>2, <1>4, <1>6, <1>7
<1>9. \A x \in buffer : x \in Nat /\ x < N * WordBits
  BY WordsHold, <1>0 DEF Bitset!Bits
<1>10. \A m \in Int : m >= N => m * WordBits >= N * WordBits
  BY <1>0
<1>11. CASE i > limit
  <2>1. (i + s) * WordBits >= N * WordBits
    BY <1>2, <1>6, <1>10, <1>11
  <2>2. p + k >= N * WordBits
    BY <1>0, <1>2, <1>4, <1>6, <1>7, <1>8, <2>1
  <2>3. p + k \notin buffer
    BY <1>0, <1>6, <1>9, <2>2
  <2> QED
    BY <1>5, <1>11, <2>3
<1>12. CASE i <= limit /\ o = 0
  <2>1. q \in word[i] <=> (i + s) * WordBits + q \in buffer
    BY <1>12, <1>2, <1>6 DEF Bitset!WordAt
  <2>2. p + k = (i + s) * WordBits + q
    BY <1>8, <1>12, <1>6
  <2> QED
    BY <1>5, <2>1, <2>2
<1>13. CASE i = limit /\ o # 0
  <2> DEFINE m == i + s
             lo == m * WordBits
  <2>0. m = N - 1 /\ lo = N * WordBits - WordBits /\ lo \in Int
    BY <1>0, <1>2, <1>6, <1>13
  <2>1. q \in word[i] <=> \E b \in 0..(WordBits - 1) : lo + b \in buffer /\ q = b - o
    <3>1. word[i] = Bitset!Shr(Bitset!WordAt(m), o)
      BY <1>13, <1>2, <1>6, <2>0
    <3> HIDE DEF word, m
    <3> QED
      BY <1>4, <3>1 DEF Bitset!WordAt, Bitset!Shr
  <2> HIDE DEF word
  <2>2. p + k = lo + (q + o)
    BY <1>8
  <2> HIDE DEF lo, m
  <2>3. \A b \in 0..(WordBits - 1) : q = b - o <=> b = q + o
    BY <1>2, <1>6
  <2>4. CASE q + o < WordBits
    <3>1. q + o \in 0..(WordBits - 1)
      BY <1>0, <1>2, <1>4, <1>6, <2>4
    <3> QED
      BY <1>5, <2>1, <2>2, <2>3, <3>1
  <2>5. CASE q + o >= WordBits
    <3>1. \A b \in 0..(WordBits - 1) : q # b - o
      BY <1>0, <1>2, <1>6, <2>5
    <3>2. p + k >= N * WordBits
      BY <1>0, <1>6, <2>0, <2>2, <2>5
    <3>3. p + k \notin buffer
      BY <1>0, <1>6, <1>9, <3>2
    <3> QED
      BY <1>5, <2>1, <3>1, <3>3
  <2> QED
    BY <1>0, <1>6, <2>4, <2>5
<1>14. CASE i < limit /\ o # 0
  <2> DEFINE m == i + s
             lo == m * WordBits
  <2>0. m \in Int /\ lo \in Int /\ (m + 1) * WordBits = lo + WordBits
    BY <1>0, <1>2, <1>6
  <2>1. q \in word[i] <=> \/ \E b \in 0..(WordBits - 1) : lo + b \in buffer /\ q = b - o
                          \/ \E b \in 0..(WordBits - 1) : (m + 1) * WordBits + b \in buffer /\ q = b + (WordBits - o)
    <3>1. word[i] = Bitset!Shr(Bitset!WordAt(m), o) \cup Bitset!Shl(Bitset!WordAt(m + 1), WordBits - o)
      BY <1>14, <1>2, <1>6
    <3> HIDE DEF word, m
    <3> QED
      BY <1>4, <3>1 DEF Bitset!WordAt, Bitset!Shl, Bitset!Shr
  <2> HIDE DEF word
  <2>2. p + k = lo + (q + o)
    BY <1>8
  <2> HIDE DEF lo, m
  <2>3. CASE q + o < WordBits
    <3>1. q + o \in 0..(WordBits - 1)
      BY <1>0, <1>2, <1>4, <1>6, <2>3
    <3>2. \A b \in 0..(WordBits - 1) : q = b - o <=> b = q + o
      BY <1>2, <1>6
    <3>3. \A b \in 0..(WordBits - 1) : q # b + (WordBits - o)
      BY <1>0, <1>2, <1>4, <1>6, <2>3
    <3> QED
      BY <1>5, <2>1, <2>2, <3>1, <3>2, <3>3
  <2>4. CASE q + o >= WordBits
    <3>1. q + o - WordBits \in 0..(WordBits - 1)
      BY <1>0, <1>2, <1>4, <1>6, <2>4
    <3>2. \A b \in 0..(WordBits - 1) : q = b + (WordBits - o) <=> b = q + o - WordBits
      BY <1>0, <1>2, <1>6
    <3>3. \A b \in 0..(WordBits - 1) : q # b - o
      BY <1>0, <1>2, <1>4, <1>6, <2>4
    <3>4. (m + 1) * WordBits + (q + o - WordBits) = lo + (q + o)
      BY <1>0, <1>6, <2>0
    <3> QED
      BY <1>5, <2>1, <2>2, <3>1, <3>2, <3>3, <3>4
  <2> QED
    BY <1>0, <1>6, <2>3, <2>4
<1> QED
  BY <1>2, <1>6, <1>11, <1>12, <1>13, <1>14

LEMMA SanitizedIs ==
  ASSUME NEW ws
  PROVE  \A p : p \in Bitset!Sanitize(ws) <=> p \in ws /\ p < SetSize
BY DEF Bitset!Sanitize

LEMMA BitsetStarts == ASSUME Bitset!Init PROVE BitsetKept
BY WordsHold, BitAssumption DEF Bitset!Init, BitsetKept, Bitset!WordsExact, Bitset!Sanitize, Bitset!Bits, Bitset!Places

LEMMA BitsetStays == ASSUME BitsetKept, Bitset!Next PROVE BitsetKept'
<1> DEFINE B == Bitset!Bits
<1>0. /\ buffer = given /\ buffer \in SUBSET B
      /\ SetSize \in Nat \ {0} /\ B = 0..(SetSize - 1) /\ B \subseteq Bitset!Places
      /\ Bitset!Places \subseteq Nat
  BY WordsHold, BitAssumption DEF BitsetKept, Bitset!WordsExact, Bitset!Bits
<1>1. ASSUME NEW ws, NEW bits, Bitset!Become(ws, bits), ws = bits, ws \in SUBSET B PROVE BitsetKept'
  <2>1. buffer' = ws /\ given' = bits
    BY <1>1 DEF Bitset!Become
  <2>2. Bitset!WordsExact'
    BY <1>1, <2>1 DEF Bitset!WordsExact
  <2>3. buffer' \in SUBSET Bitset!Bits
    BY <1>1, <2>1
  <2> QED
    BY <2>2, <2>3 DEF BitsetKept, Bitset!Bits
<1> HIDE DEF B
<1>2. Bitset!Sanitize(Bitset!Places) = B
  <2>1. \A p \in Bitset!Places : p < SetSize <=> p \in B
    BY <1>0
  <2> QED
    BY <1>0, <2>1 DEF Bitset!Sanitize
<1>a. ASSUME NEW ws \in SUBSET B PROVE Bitset!Sanitize(ws) = ws
  <2>1. \A p \in ws : p \in 0..(SetSize - 1)
    BY <1>0
  <2>2. \A p \in ws : p < SetSize
    BY <1>0, <2>1
  <2> QED
    BY <2>2 DEF Bitset!Sanitize
<1>3. CASE Bitset!SetAll
  BY <1>1, <1>2, <1>3 DEF Bitset!SetAll, B
<1>4. CASE Bitset!ResetAll
  BY <1>1, <1>4 DEF Bitset!ResetAll
<1>5. CASE Bitset!SetBit
  BY <1>0, <1>1, <1>5 DEF Bitset!SetBit, B
<1>6. CASE Bitset!ResetBit
  BY <1>0, <1>1, <1>6 DEF Bitset!ResetBit
<1>7. CASE Bitset!FlipBit
  <2>1. PICK at \in B : Bitset!Become(Bitset!Toggled(buffer, {at}), Bitset!Toggled(given, {at}))
    BY <1>7 DEF Bitset!FlipBit, B
  <2>2. Bitset!Toggled(buffer, {at}) = Bitset!Toggled(given, {at}) /\ Bitset!Toggled(buffer, {at}) \in SUBSET B
    BY <1>0 DEF Bitset!Toggled
  <2> QED
    BY <1>1, <2>1, <2>2
<1>8. CASE Bitset!FlipAll
  <2>1. Bitset!Toggled(buffer, B) = B \ given
    BY <1>0 DEF Bitset!Toggled
  <2> QED
    BY <1>1, <1>8, <2>1 DEF Bitset!FlipAll, B
<1>9. CASE Bitset!Invert
  <2>1. Bitset!Sanitize(Bitset!Places \ buffer) = B \ given
    <3>1. \A p : p \in B <=> p \in Bitset!Places /\ p < SetSize
      BY <1>2 DEF Bitset!Sanitize
    <3> QED
      BY <1>0, <3>1 DEF Bitset!Sanitize
  <2> QED
    BY <1>1, <1>9, <2>1 DEF Bitset!Invert, B
<1>10. CASE Bitset!Combine
  <2>1. PICK ones \in BitsOf :
          \/ Bitset!Become(Bitset!Sanitize(buffer \cup ones), given \cup ones)
          \/ Bitset!Become(Bitset!Sanitize(buffer \cap ones), given \cap ones)
          \/ Bitset!Become(Bitset!Sanitize(Bitset!Toggled(buffer, ones)), Bitset!Toggled(given, ones))
    BY <1>10 DEF Bitset!Combine
  <2>2. ones \in SUBSET B
    BY <1>0, BitAssumption
  <2>4. Bitset!Toggled(buffer, ones) = Bitset!Toggled(given, ones) /\ Bitset!Toggled(given, ones) \in SUBSET B
    BY <1>0, <2>2 DEF Bitset!Toggled
  <2>5. CASE Bitset!Become(Bitset!Sanitize(buffer \cup ones), given \cup ones)
    <3>1. buffer \cup ones \in SUBSET B
      BY <1>0, <2>2
    <3> QED
      BY <1>0, <1>1, <1>a, <2>5, <3>1
  <2>6. CASE Bitset!Become(Bitset!Sanitize(buffer \cap ones), given \cap ones)
    <3>1. buffer \cap ones \in SUBSET B
      BY <1>0, <2>2
    <3> QED
      BY <1>0, <1>1, <1>a, <2>6, <3>1
  <2>7. CASE Bitset!Become(Bitset!Sanitize(Bitset!Toggled(buffer, ones)), Bitset!Toggled(given, ones))
    BY <1>1, <1>a, <2>4, <2>7
  <2> QED
    BY <2>1, <2>5, <2>6, <2>7
<1>11. CASE Bitset!ShiftLeft
  <2>1. PICK k \in 0..(SetSize + 1) :
          Bitset!Become(IF k >= SetSize THEN {} ELSE Bitset!Sanitize(Bitset!ShlWords(k)), {p \in B : p - k \in given})
    BY <1>11 DEF Bitset!ShiftLeft, B
  <2> DEFINE ws == IF k >= SetSize THEN {} ELSE Bitset!Sanitize(Bitset!ShlWords(k))
  <2>2. ws = {p \in B : p - k \in given}
    <3>1. CASE k >= SetSize
      <4>1. \A p \in B : p - k < 0
        BY <1>0, <3>1
      <4> QED
        BY <1>0, <3>1, <4>1
    <3>2. CASE k < SetSize
      <4>1. k \in 0..(SetSize - 1)
        BY <3>2, <1>0
      <4>2. \A p \in B : p \in Bitset!ShlWords(k) <=> p - k \in buffer
        BY <1>0, <4>1, ShlWordsIs DEF B
      <4>3. \A p \in Bitset!ShlWords(k) : p \in Nat
        BY ShlPlaces, <4>1
      <4> QED
        BY <1>0, <3>2, <4>2, <4>3, SanitizedIs
    <3> QED
      BY <1>0, <3>1, <3>2
  <2> QED
    BY <1>1, <2>1, <2>2
<1>12. CASE Bitset!ShiftRight
  <2>1. PICK k \in 0..(SetSize + 1) :
          Bitset!Become(IF k >= SetSize THEN {} ELSE Bitset!Sanitize(Bitset!ShrWords(k)), {p \in B : p + k \in given})
    BY <1>12 DEF Bitset!ShiftRight, B
  <2> DEFINE ws == IF k >= SetSize THEN {} ELSE Bitset!Sanitize(Bitset!ShrWords(k))
  <2>2. ws = {p \in B : p + k \in given}
    <3>1. CASE k >= SetSize
      <4>1. \A p \in B : p + k \notin B
        BY <1>0, <3>1
      <4> QED
        BY <1>0, <3>1, <4>1
    <3>2. CASE k < SetSize
      <4>1. k \in 0..(SetSize - 1)
        BY <3>2, <1>0
      <4>2. \A p \in B : p \in Bitset!ShrWords(k) <=> p + k \in buffer
        BY <1>0, <4>1, ShrWordsIs DEF B
      <4>3. \A p \in Bitset!ShrWords(k) : p \in Nat
        BY ShrPlaces, <4>1
      <4> QED
        BY <1>0, <3>2, <4>2, <4>3, SanitizedIs
    <3> QED
      BY <1>0, <3>1, <3>2
  <2> QED
    BY <1>1, <2>1, <2>2
<1> QED
  BY <1>3, <1>4, <1>5, <1>6, <1>7, <1>8, <1>9, <1>10, <1>11, <1>12 DEF Bitset!Next

-----------------------------------------------------------------------------
(* The filters *)

Cell == Counting!Cell

LEMMA FilterCardinality ==
  ASSUME NEW S
  PROVE  Counting!Cardinality(S) = Cardinality(S)
BY DEF Counting!Cardinality, Cardinality

LEMMA CountMod ==
  ASSUME NEW a \in Nat
  PROVE  ((a % CellMod) + 1) % CellMod = (a + 1) % CellMod
<1>1. CellMod \in Nat /\ CellMod > 1
  BY BloomAssumption
<1> DEFINE q == a \div CellMod
           r == a % CellMod
<1>2. a = CellMod * q + r /\ q \in Nat /\ r \in 0..(CellMod - 1)
  BY <1>1
<1> HIDE DEF q, r
<1>3. CASE r + 1 < CellMod
  <2>1. (r + 1) % CellMod = r + 1
    BY <1>1, <1>2, <1>3
  <2>2. (CellMod * q + (r + 1)) % CellMod = r + 1
    BY <1>1, <1>2, <1>3
  <2> QED
    BY <1>1, <1>2, <2>1, <2>2 DEF r
<1>4. CASE r + 1 = CellMod
  <2>1. (r + 1) % CellMod = 0
    BY <1>1, <1>2, <1>4
  <2>2. (CellMod * (q + 1)) % CellMod = 0
    BY <1>1, <1>2
  <2>3. a + 1 = CellMod * (q + 1)
    BY <1>1, <1>2, <1>4
  <2> QED
    BY <2>1, <2>2, <2>3 DEF r
<1> QED
  BY <1>1, <1>2, <1>3, <1>4

LEMMA FastRangeIn ==
  ASSUME NEW w \in 0..(Word - 1), NEW p \in Nat \ {0}
  PROVE  FastRange(w, p) \in 0..(p - 1)
<1>1. Word \in Nat /\ Word > 0 /\ w \in Nat /\ w < Word
  BY BloomAssumption
<1> DEFINE q == (w * p) \div Word
           r == (w * p) % Word
<1>2. w * p \in Nat /\ w * p < Word * p
  BY <1>1
<1>3. w * p = Word * q + r /\ q \in Nat /\ r \in Nat
  BY <1>1, <1>2
<1> HIDE DEF q, r
<1>4. Word * q < Word * p
  BY <1>1, <1>2, <1>3
<1>5. q < p
  BY <1>1, <1>3, <1>4
<1> QED
  BY <1>3, <1>5 DEF q, FastRange

LEMMA CellsAre ==
  ASSUME NEW k \in Key, NEW p \in Nat \ {0}
  PROVE  /\ DOMAIN Cells(k, p) = 1..HashCount
         /\ \A i \in 1..HashCount : Cells(k, p)[i] \in 0..(p - 1)
<1>1. \A i \in 1..HashCount : HashCode(k, i) \in 0..(Word - 1)
  BY BloomAssumption DEF HashCode
<1> QED
  BY <1>1, FastRangeIn DEF Cells

-----------------------------------------------------------------------------
(* Folds over the cells of a key *)

\* How many of the places in t hold c.
Hits(s, t, c) == Cardinality({i \in t : s[i] = c})

LEMMA HitsIs ==
  ASSUME NEW s, NEW t, IsFiniteSet(t), NEW x \in t, NEW c
  PROVE  /\ Hits(s, t, c) \in Nat /\ Hits(s, t \ {x}, c) \in Nat
         /\ s[x] = c => Hits(s, t, c) = Hits(s, t \ {x}, c) + 1
         /\ s[x] # c => Hits(s, t, c) = Hits(s, t \ {x}, c)
<1> DEFINE A == {i \in t : s[i] = c}
           B == {i \in t \ {x} : s[i] = c}
<1>1. IsFiniteSet(A) /\ IsFiniteSet(B)
  BY FS_Subset
<1>2. Cardinality(A) \in Nat /\ Cardinality(B) \in Nat
  BY <1>1, FS_CardinalityType
<1>3. CASE s[x] = c
  <2>1. A = B \cup {x} /\ x \notin B
    BY <1>3
  <2>2. Cardinality(A) = Cardinality(B) + 1
    BY <1>1, <2>1, FS_AddElement
  <2> QED
    BY <1>2, <1>3, <2>2 DEF Hits
<1>4. CASE s[x] # c
  <2>1. A = B
    BY <1>4
  <2> QED
    BY <1>2, <1>4, <2>1 DEF Hits
<1> QED
  BY <1>3, <1>4

LEMMA NoHits ==
  ASSUME NEW s, NEW c
  PROVE  Hits(s, {}, c) = 0
<1>1. {i \in {} : s[i] = c} = {}
  OBVIOUS
<1> QED
  BY <1>1, FS_EmptySet DEF Hits

\* The last place, which a fold takes out first.
LEMMA LastPlace ==
  ASSUME NEW k \in Nat, NEW t \in SUBSET (1..k), t # {}
  PROVE  Counting!Max(t) \in t
<1>1. t \in SUBSET Int /\ \A x \in t : x <= k
  OBVIOUS
<1>2. \E x \in t : \A y \in t : x >= y
  BY <1>1, GreatestElement, k \in Int
<1> QED
  BY <1>2 DEF Counting!Max

Counters == [Cell -> 0..(CellMod - 1)]

LEMMA CountedUpIs ==
  ASSUME NEW k \in Key, storage \in Counters
  PROVE  Counting!CountedUp(k) = [c \in Cell |-> (storage[c] + Counting!Times(k, c)) % CellMod]
<1> DEFINE s == Cells(k, CellCount)
           D == 1..HashCount
           x(t) == Counting!Max(t)
           Up(h) == h = [t \in SUBSET DOMAIN s |->
                           IF t = {} THEN storage
                           ELSE [h[t \ {x(t)}] EXCEPT ![s[x(t)]] = (@ + 1) % CellMod]]
           g == [t \in SUBSET D |-> [c \in Cell |-> (storage[c] + Hits(s, t, c)) % CellMod]]
<1>1. Counting!CountedUp(k) = (CHOOSE h : Up(h))[DOMAIN s]
  BY DEF Counting!CountedUp, Counting!FoldLeft, Counting!MapThenFoldSet
<1>2. DOMAIN s = D /\ \A i \in D : s[i] \in Cell
  BY CellsAre, BloomAssumption DEF Cell, Counting!Cell
<1>3. IsFiniteSet(D) /\ D \in SUBSET D /\ HashCount \in Nat
  BY FS_Interval, BloomAssumption
<1>4. CellMod \in Nat /\ CellMod > 1
  BY BloomAssumption
<1>5. \A t \in SUBSET D : IsFiniteSet(t)
  BY <1>3, FS_Subset
<1>6. g[{}] = storage
  <2>1. \A c \in Cell : storage[c] \in Nat /\ storage[c] < CellMod
    BY <1>4 DEF Counters
  <2>2. \A c \in Cell : (storage[c] + Hits(s, {}, c)) % CellMod = storage[c]
    <3> TAKE c \in Cell
    <3>1. Hits(s, {}, c) = 0
      BY NoHits
    <3> QED
      BY <1>4, <2>1, <3>1
  <2>3. g[{}] = [c \in Cell |-> storage[c]]
    BY <2>2
  <2> QED
    BY <2>3 DEF Counters
<1>7. ASSUME NEW t \in SUBSET D, t # {}
      PROVE  g[t] = [g[t \ {x(t)}] EXCEPT ![s[x(t)]] = (@ + 1) % CellMod]
  <2>1. x(t) \in t
    BY <1>3, <1>7, LastPlace
  <2>2. s[x(t)] \in Cell
    BY <1>2, <2>1
  <2>3. ASSUME NEW c \in Cell
        PROVE  g[t][c] = [g[t \ {x(t)}] EXCEPT ![s[x(t)]] = (@ + 1) % CellMod][c]
    <3>1. storage[c] \in Nat
      BY <1>4 DEF Counters
    <3>2. /\ Hits(s, t, c) \in Nat /\ Hits(s, t \ {x(t)}, c) \in Nat
          /\ s[x(t)] = c => Hits(s, t, c) = Hits(s, t \ {x(t)}, c) + 1
          /\ s[x(t)] # c => Hits(s, t, c) = Hits(s, t \ {x(t)}, c)
      <4>1. IsFiniteSet(t)
        BY <1>5
      <4> HIDE DEF s, x
      <4> QED
        BY <2>1, <4>1, HitsIs
    <3> DEFINE y == x(t)
               a == storage[c] + Hits(s, t \ {y}, c)
    <3>3. g[t][c] = (storage[c] + Hits(s, t, c)) % CellMod /\ g[t \ {y}][c] = a % CellMod
      BY <1>7
    <3>4. a \in Nat
      BY <3>1, <3>2
    <3>5. ((a % CellMod) + 1) % CellMod = (a + 1) % CellMod
      BY <3>4, CountMod
    <3>6. [g[t \ {y}] EXCEPT ![s[y]] = (@ + 1) % CellMod][c]
            = IF c = s[y] THEN (g[t \ {y}][c] + 1) % CellMod ELSE g[t \ {y}][c]
      BY <2>2
    <3> HIDE DEF g, s
    <3>7. CASE s[y] = c
      <4>1. storage[c] + Hits(s, t, c) = a + 1
        BY <3>1, <3>2, <3>7
      <4> QED
        BY <3>3, <3>5, <3>6, <3>7, <4>1
    <3>8. CASE s[y] # c
      <4>1. storage[c] + Hits(s, t, c) = a
        BY <3>1, <3>2, <3>8
      <4> QED
        BY <3>3, <3>6, <3>8, <4>1
    <3> QED
      BY <3>7, <3>8
  <2>4. DOMAIN g[t] = Cell /\ DOMAIN g[t \ {x(t)}] = Cell
    OBVIOUS
  <2> QED
    BY <2>3, <2>4
<1>8. Up(g)
  BY <1>2, <1>6, <1>7
<1>9. ASSUME NEW h, Up(h) PROVE h[D] = g[D]
  <2> DEFINE F == {t \in SUBSET D : h[t] = g[t]}
  <2>1. ASSUME NEW t \in SUBSET D, \A y \in t : t \ {y} \in F PROVE t \in F
    <3>1. h[t] = IF t = {} THEN storage ELSE [h[t \ {x(t)}] EXCEPT ![s[x(t)]] = (@ + 1) % CellMod]
      BY <1>2, <1>9
    <3>2. CASE t = {}
      BY <1>6, <3>1, <3>2
    <3>3. CASE t # {}
      <4>1. h[t \ {x(t)}] = g[t \ {x(t)}]
        BY <1>3, <2>1, <3>3, LastPlace
      <4> QED
        BY <1>7, <3>1, <3>3, <4>1
    <3> QED
      BY <3>2, <3>3
  <2> HIDE DEF F, g
  <2>2. \A t \in SUBSET D : t \in F
    BY <1>3, <2>1, SubsetInduction
  <2> QED
    BY <1>3, <2>2 DEF F
<1>10. Counting!CountedUp(k) = g[D]
  <2> HIDE DEF Up, g
  <2> QED
    BY <1>1, <1>2, <1>8, <1>9
<1>11. \A c \in Cell : Hits(s, D, c) = Counting!Times(k, c)
  BY <1>2, FilterCardinality DEF Hits, Counting!Times
<1> QED
  BY <1>3, <1>10, <1>11

\* A counter that is counted down k times stops at zero.
Less(a, k) == IF a > k THEN a - k ELSE 0

LEMMA CountedDownIs ==
  ASSUME NEW k \in Key, storage \in Counters
  PROVE  Counting!CountedDown(k) = [c \in Cell |-> Less(storage[c], Counting!Times(k, c))]
<1> DEFINE s == Cells(k, CellCount)
           D == 1..HashCount
           x(t) == Counting!Max(t)
           One(v, c) == IF v[c] > 0 THEN [v EXCEPT ![c] = @ - 1] ELSE v
           Down(h) == h = [t \in SUBSET DOMAIN s |->
                             IF t = {} THEN storage
                             ELSE IF h[t \ {x(t)}][s[x(t)]] > 0
                                  THEN [h[t \ {x(t)}] EXCEPT ![s[x(t)]] = @ - 1]
                                  ELSE h[t \ {x(t)}]]
           g == [t \in SUBSET D |-> [c \in Cell |-> Less(storage[c], Hits(s, t, c))]]
<1>1. Counting!CountedDown(k) = (CHOOSE h : Down(h))[DOMAIN s]
  BY DEF Counting!CountedDown, Counting!FoldLeft, Counting!MapThenFoldSet
<1>2. DOMAIN s = D /\ \A i \in D : s[i] \in Cell
  BY CellsAre, BloomAssumption DEF Cell, Counting!Cell
<1>3. IsFiniteSet(D) /\ D \in SUBSET D /\ HashCount \in Nat
  BY FS_Interval, BloomAssumption
<1>4. \A c \in Cell : storage[c] \in Nat
  BY BloomAssumption DEF Counters
<1>5. \A t \in SUBSET D : IsFiniteSet(t)
  BY <1>3, FS_Subset
<1>6. g[{}] = storage
  <2>1. \A c \in Cell : Less(storage[c], Hits(s, {}, c)) = storage[c]
    BY <1>4, NoHits DEF Less
  <2>2. g[{}] = [c \in Cell |-> storage[c]]
    BY <2>1
  <2> QED
    BY <2>2 DEF Counters
<1>7. ASSUME NEW t \in SUBSET D, t # {}
      PROVE  g[t] = One(g[t \ {x(t)}], s[x(t)])
  <2> DEFINE y == x(t)
             v == g[t \ {y}]
             d == s[y]
  <2>1. y \in t
    BY <1>3, <1>7, LastPlace
  <2>2. d \in Cell
    BY <1>2, <2>1
  <2>3. v = [c \in Cell |-> Less(storage[c], Hits(s, t \ {y}, c))]
        /\ g[t] = [c \in Cell |-> Less(storage[c], Hits(s, t, c))]
    BY <1>7
  <2>4. ASSUME NEW c \in Cell
        PROVE  g[t][c] = IF c = d /\ v[d] > 0 THEN v[c] - 1 ELSE v[c]
    <3>1. storage[c] \in Nat
      BY <1>4
    <3>2. /\ Hits(s, t, c) \in Nat /\ Hits(s, t \ {y}, c) \in Nat
          /\ d = c => Hits(s, t, c) = Hits(s, t \ {y}, c) + 1
          /\ d # c => Hits(s, t, c) = Hits(s, t \ {y}, c)
      <4>1. IsFiniteSet(t)
        BY <1>5
      <4> HIDE DEF s, y
      <4> QED
        BY <2>1, <4>1, HitsIs
    <3> HIDE DEF s, y, v, d, g
    <3> QED
      BY <2>3, <3>1, <3>2 DEF Less
  <2> HIDE DEF y, d, v, g, s
  <2>5. v = [c \in Cell |-> v[c]] /\ g[t] = [c \in Cell |-> g[t][c]]
    BY <2>3
  <2>6. One(v, d) = [c \in Cell |-> IF c = d /\ v[d] > 0 THEN v[c] - 1 ELSE v[c]]
    <3>1. CASE v[d] > 0
      BY <2>2, <2>5, <3>1
    <3>2. CASE ~ (v[d] > 0)
      BY <2>2, <2>5, <3>2
    <3> QED
      BY <3>1, <3>2
  <2>7. g[t] = One(v, d)
    BY <2>4, <2>5, <2>6
  <2> QED
    BY <2>7 DEF v, d, y
<1>8. Down(g)
  BY <1>2, <1>6, <1>7
<1>9. ASSUME NEW h, Down(h) PROVE h[D] = g[D]
  <2> DEFINE F == {t \in SUBSET D : h[t] = g[t]}
  <2>1. ASSUME NEW t \in SUBSET D, \A y \in t : t \ {y} \in F PROVE t \in F
    <3>1. h[t] = IF t = {} THEN storage ELSE One(h[t \ {x(t)}], s[x(t)])
      BY <1>2, <1>9
    <3>2. CASE t = {}
      BY <1>6, <3>1, <3>2
    <3>3. CASE t # {}
      <4>1. h[t \ {x(t)}] = g[t \ {x(t)}]
        BY <1>3, <2>1, <3>3, LastPlace
      <4> HIDE DEF g, s, x, One
      <4> QED
        BY <1>7, <3>1, <3>3, <4>1
    <3> QED
      BY <3>2, <3>3
  <2> HIDE DEF F, g
  <2>2. \A t \in SUBSET D : t \in F
    BY <1>3, <2>1, SubsetInduction
  <2> QED
    BY <1>3, <2>2 DEF F
<1>10. Counting!CountedDown(k) = g[D]
  <2> HIDE DEF Down, g
  <2> QED
    BY <1>1, <1>2, <1>8, <1>9
<1>11. \A c \in Cell : Hits(s, D, c) = Counting!Times(k, c)
  BY <1>2, FilterCardinality DEF Hits, Counting!Times
<1> QED
  BY <1>3, <1>10, <1>11

-----------------------------------------------------------------------------
(* What insertions and erasures leave in a cell *)

Parts(f, c) == [k \in Key |-> f[k] * Counting!Times(k, c)]

LoadOf(f, c) == SumOn(Parts(f, c), Key)

LEMMA KeysFinite == IsFiniteSet(Key)
<1>1. IsFiniteSet({key_a}) /\ IsFiniteSet({key_b}) /\ IsFiniteSet({key_c})
  BY FS_Singleton
<1>2. Key = ({key_a} \cup {key_b}) \cup {key_c}
  BY DEF Key
<1> QED
  BY <1>1, <1>2, FS_Union

LEMMA TimesIs ==
  ASSUME NEW k \in Key, NEW c
  PROVE  /\ Counting!Times(k, c) \in Nat
         /\ \A i \in 1..HashCount : Cells(k, CellCount)[i] = c => Counting!Times(k, c) > 0
<1> DEFINE T == {i \in 1..HashCount : Cells(k, CellCount)[i] = c}
<1>1. DOMAIN Cells(k, CellCount) = 1..HashCount
  BY CellsAre, BloomAssumption
<1>2. Counting!Times(k, c) = Cardinality(T)
  BY <1>1, FilterCardinality DEF Counting!Times
<1>3. IsFiniteSet(T)
  <2>1. 1 \in Int /\ HashCount \in Int
    BY BloomAssumption
  <2>2. IsFiniteSet(1..HashCount) /\ T \in SUBSET (1..HashCount)
    BY <2>1, FS_Interval
  <2> QED
    BY <2>2, FS_Subset
<1>4. Cardinality(T) \in Nat /\ (Cardinality(T) = 0 <=> T = {})
  BY <1>3, FS_CardinalityType, FS_EmptySet
<1> QED
  BY <1>2, <1>4

LEMMA PartsAre ==
  ASSUME NEW f \in [Key -> Nat], NEW c
  PROVE  Terms(Parts(f, c), Key) /\ \A k \in Key : Parts(f, c)[k] \in Nat
BY TimesIs DEF Parts, Terms

LEMMA LoadIs ==
  ASSUME NEW c
  PROVE  Counting!Load(c) = LoadOf(members, c)
BY DEF Counting!Load, Counting!MapThenSumSet, Counting!MapThenFoldSet, LoadOf, Parts, SumOn, MapThenSumSet,
       MapThenFoldSet

LEMMA LoadAtLeast ==
  ASSUME NEW f \in [Key -> Nat], NEW k \in Key, NEW c
  PROVE  LoadOf(f, c) \in Nat /\ f[k] * Counting!Times(k, c) <= LoadOf(f, c)
<1>1. IsFiniteSet(Key) /\ Terms(Parts(f, c), Key) /\ \A j \in Key : Parts(f, c)[j] \in Nat
  BY KeysFinite, PartsAre
<1>2. {k} \in SUBSET Key /\ IsFiniteSet({k}) /\ IsFiniteSet({})
  BY FS_Singleton, FS_EmptySet
<1>3. SumOn(Parts(f, c), {k}) = Parts(f, c)[k] + SumOn(Parts(f, c), {k} \ {k})
  BY <1>1, <1>2, SumRemove DEF Terms
<1>4. {k} \ {k} = {} /\ SumOn(Parts(f, c), {}) = 0
  BY <1>1, SumType
<1>5. SumOn(Parts(f, c), Key) \in Nat /\ SumOn(Parts(f, c), {k}) <= SumOn(Parts(f, c), Key)
  BY <1>1, <1>2, SumSubset
<1>6. Parts(f, c)[k] = f[k] * Counting!Times(k, c) /\ Parts(f, c)[k] \in Nat
  BY <1>1 DEF Parts
<1> QED
  BY <1>3, <1>4, <1>5, <1>6 DEF LoadOf

LEMMA LoadNone ==
  ASSUME NEW c
  PROVE  LoadOf([k \in Key |-> 0], c) = 0
<1> DEFINE f == [k \in Key |-> 0]
<1>1. f \in [Key -> Nat] /\ IsFiniteSet(Key)
  BY KeysFinite
<1>2. \A k \in Key : Parts(f, c)[k] = 0
  BY TimesIs DEF Parts
<1>3. Terms(Parts(f, c), Key) /\ Cardinality(Key) \in Nat
  BY <1>1, <1>2, FS_CardinalityType DEF Terms
<1>4. SumOn(Parts(f, c), Key) <= Cardinality(Key) * 0
  BY <1>1, <1>2, SumBound
<1>5. SumOn(Parts(f, c), Key) \in Nat
  BY <1>1, <1>2, <1>3, SumSubset
<1> QED
  BY <1>3, <1>4, <1>5 DEF LoadOf

LEMMA LoadChange ==
  ASSUME NEW f \in [Key -> Nat], NEW k \in Key, NEW v \in Nat, NEW c
  PROVE  LoadOf([f EXCEPT ![k] = v], c)
           = LoadOf(f, c) - f[k] * Counting!Times(k, c) + v * Counting!Times(k, c)
<1> DEFINE g == [f EXCEPT ![k] = v]
<1>1. IsFiniteSet(Key) /\ Terms(Parts(f, c), Key) /\ g \in [Key -> Nat]
  BY KeysFinite, PartsAre
<1>2. \A j \in Key : Parts(g, c)[j] \in Int
  <2> HIDE DEF g
  <2>1. \A j \in Key : Parts(g, c)[j] \in Nat
    BY <1>1, PartsAre
  <2> QED
    BY <2>1
<1>3. \A j \in Key : j # k => Parts(g, c)[j] = Parts(f, c)[j]
  BY DEF Parts
<1>4. SumOn(Parts(g, c), Key) = SumOn(Parts(f, c), Key) - Parts(f, c)[k] + Parts(g, c)[k]
  <2> HIDE DEF g
  <2> QED
    BY <1>1, <1>2, <1>3, SumUpdate
<1>5. Parts(f, c)[k] = f[k] * Counting!Times(k, c) /\ Parts(g, c)[k] = v * Counting!Times(k, c)
  BY DEF Parts
<1> QED
  BY <1>4, <1>5 DEF LoadOf

-----------------------------------------------------------------------------
(* counting_bloom_filter.  The invariant: its counters are what insertions and erasures leave
   in their cells, until one wraps or an absent key is erased. *)

CountsKept ==
  /\ storage \in Counters /\ members \in [Key -> Nat] /\ refused \in BOOLEAN
  /\ refused => \A c \in Cell : storage[c] = LoadOf(members, c)

LEMMA CountsInit == Counting!Init => CountsKept
<1> SUFFICES ASSUME Counting!Init PROVE CountsKept
  OBVIOUS
<1>1. storage = [c \in Cell |-> 0] /\ members = [k \in Key |-> 0] /\ refused = TRUE
  BY DEF Counting!Init, Counting!Zeros, Cell
<1> QED
  BY <1>1, LoadNone, BloomAssumption DEF CountsKept, Counters

LEMMA CountsInsert ==
  ASSUME CountsKept, NEW k \in Key, Counting!Insert(k)
  PROVE  CountsKept'
<1>1. /\ storage' = [c \in Cell |-> (storage[c] + Counting!Times(k, c)) % CellMod]
      /\ members' = [members EXCEPT ![k] = members[k] + 1]
      /\ refused' = (refused /\ \A c \in Cell : storage[c] + Counting!Times(k, c) < CellMod)
  BY CountedUpIs DEF CountsKept, Counting!Insert, Cell
<1>2. CellMod \in Nat \ {0} /\ members[k] \in Nat /\ members \in [Key -> Nat] /\ \A c \in Cell : storage[c] \in Nat
  BY BloomAssumption DEF CountsKept, Counters
<1>3. \A c \in Cell : Counting!Times(k, c) \in Nat
  BY TimesIs
<1>4. storage' \in Counters /\ members' \in [Key -> Nat] /\ refused' \in BOOLEAN
  <2>1. \A c \in Cell : (storage[c] + Counting!Times(k, c)) % CellMod \in 0..(CellMod - 1)
    BY <1>2, <1>3
  <2> QED
    BY <1>1, <1>2, <2>1 DEF CountsKept, Counters
<1>5. ASSUME refused', NEW c \in Cell PROVE storage'[c] = LoadOf(members', c)
  <2>1. storage[c] = LoadOf(members, c) /\ storage[c] + Counting!Times(k, c) < CellMod
    BY <1>1, <1>5 DEF CountsKept
  <2>2. storage'[c] = storage[c] + Counting!Times(k, c)
    <3> DEFINE r == Counting!Times(k, c)
    <3>1. storage'[c] = (storage[c] + r) % CellMod
      BY <1>1
    <3>2. storage[c] \in Nat /\ r \in Nat /\ CellMod \in Nat \ {0} /\ storage[c] + r < CellMod
      BY <1>2, <1>3, <2>1
    <3> HIDE DEF r
    <3>3. (storage[c] + r) % CellMod = storage[c] + r
      BY <3>2
    <3> QED
      BY <3>1, <3>3 DEF r
  <2>3. LoadOf(members', c)
          = LoadOf(members, c) - members[k] * Counting!Times(k, c) + (members[k] + 1) * Counting!Times(k, c)
    <3>1. members' = [members EXCEPT ![k] = members[k] + 1] /\ members[k] + 1 \in Nat
      BY <1>1, <1>2
    <3> QED
      BY <1>2, <3>1, LoadChange
  <2>4. (members[k] + 1) * Counting!Times(k, c) = members[k] * Counting!Times(k, c) + Counting!Times(k, c)
        /\ members[k] * Counting!Times(k, c) \in Nat
    BY <1>2, <1>3
  <2> QED
    BY <1>2, <1>3, <2>1, <2>2, <2>3, <2>4
<1> QED
  BY <1>4, <1>5 DEF CountsKept

LEMMA CountsErase ==
  ASSUME CountsKept, NEW k \in Key, Counting!Erase(k)
  PROVE  CountsKept'
<1> DEFINE less == Counting!Max({0, members[k] - 1})
<1>1. /\ storage' = [c \in Cell |-> Less(storage[c], Counting!Times(k, c))]
      /\ members' = [members EXCEPT ![k] = less]
      /\ refused' = (refused /\ members[k] > 0)
  BY CountedDownIs DEF CountsKept, Counting!Erase
<1>2. /\ CellMod \in Nat \ {0} /\ members[k] \in Nat /\ members \in [Key -> Nat]
      /\ \A c \in Cell : storage[c] \in 0..(CellMod - 1)
  BY BloomAssumption DEF CountsKept, Counters
<1>3. \A c \in Cell : Counting!Times(k, c) \in Nat
  BY TimesIs
<1>4. less \in Nat /\ (members[k] > 0 => less = members[k] - 1)
  <2>1. {0, members[k] - 1} \in SUBSET Int /\ \A x \in {0, members[k] - 1} : x <= members[k]
    BY <1>2
  <2>2. \E x \in {0, members[k] - 1} : \A y \in {0, members[k] - 1} : x >= y
    BY <1>2, <2>1, GreatestElement
  <2>3. less \in {0, members[k] - 1} /\ \A y \in {0, members[k] - 1} : less >= y
    BY <2>2 DEF Counting!Max
  <2> HIDE DEF less
  <2> QED
    BY <1>2, <2>3
<1> HIDE DEF less
<1>5. storage' \in Counters /\ members' \in [Key -> Nat] /\ refused' \in BOOLEAN
  <2>1. \A c \in Cell : Less(storage[c], Counting!Times(k, c)) \in 0..(CellMod - 1)
    BY <1>2, <1>3 DEF Less
  <2> QED
    BY <1>1, <1>2, <1>4, <2>1 DEF CountsKept, Counters
<1>6. ASSUME refused', NEW c \in Cell PROVE storage'[c] = LoadOf(members', c)
  <2>1. storage[c] = LoadOf(members, c) /\ members[k] > 0 /\ less = members[k] - 1
    BY <1>1, <1>4, <1>6 DEF CountsKept
  <2>2. members[k] * Counting!Times(k, c) <= LoadOf(members, c) /\ LoadOf(members, c) \in Nat
    BY <1>2, LoadAtLeast
  <2>3. LoadOf(members', c)
          = LoadOf(members, c) - members[k] * Counting!Times(k, c) + less * Counting!Times(k, c)
    BY <1>1, <1>2, <1>4, LoadChange
  <2>4. members[k] * Counting!Times(k, c) = less * Counting!Times(k, c) + Counting!Times(k, c)
        /\ less * Counting!Times(k, c) \in Nat
    BY <1>2, <1>3, <1>4, <2>1
  <2>5. storage'[c] = storage[c] - Counting!Times(k, c)
    <3> DEFINE q == less * Counting!Times(k, c)
               r == Counting!Times(k, c)
    <3>1. q \in Nat /\ r \in Nat /\ storage[c] \in Nat /\ q + r <= storage[c]
      BY <1>3, <2>1, <2>2, <2>4
    <3>2. storage'[c] = Less(storage[c], r)
      BY <1>1
    <3> HIDE DEF q, r
    <3>3. Less(storage[c], r) = storage[c] - r
      BY <3>1 DEF Less
    <3> QED
      BY <3>2, <3>3 DEF r
  <2> QED
    BY <1>3, <2>1, <2>2, <2>3, <2>4, <2>5
<1> QED
  BY <1>5, <1>6 DEF CountsKept

LEMMA CountsClear ==
  ASSUME Counting!Clear
  PROVE  CountsKept'
<1>1. storage' = [c \in Cell |-> 0] /\ members' = [k \in Key |-> 0] /\ refused' = TRUE
  BY DEF Counting!Clear, Counting!Zeros, Cell
<1> QED
  BY <1>1, LoadNone, BloomAssumption DEF CountsKept, Counters

LEMMA CountsGood ==
  ASSUME CountsKept
  PROVE  Counting!StorageExact /\ Counting!NoFalseNegatives
<1>1. Counting!StorageExact
  BY LoadIs DEF CountsKept, Counting!StorageExact, Cell
<1>2. ASSUME refused, NEW k \in Key
      PROVE  Counting!Count(k) >= members[k]
  <2> DEFINE S == {storage[c] : c \in Counting!ToSet(Cells(k, CellCount))}
             s == Cells(k, CellCount)
  <2>1. DOMAIN s = 1..HashCount /\ HashCount \in Nat \ {0} /\ \A i \in 1..HashCount : s[i] \in Cell
    BY CellsAre, BloomAssumption DEF Cell, Counting!Cell
  <2>2. Counting!ToSet(s) = {s[i] : i \in 1..HashCount}
    BY <2>1 DEF Counting!ToSet
  <2>3. \A c \in Cell : storage[c] \in Nat
    BY BloomAssumption DEF CountsKept, Counters
  <2>4. S # {} /\ S \in SUBSET Nat
    <3> HIDE DEF s
    <3> QED
      BY <2>1, <2>2, <2>3 DEF s
  <2>5. Counting!Count(k) \in S
    <3>1. Counting!Count(k) = Counting!Min(S)
      BY DEF Counting!Count
    <3>2. \E x \in S : \A y \in S : x <= y
      BY <2>4, LeastElement
    <3> HIDE DEF S
    <3> QED
      BY <3>1, <3>2 DEF Counting!Min
  <2>6. PICK i \in 1..HashCount : Counting!Count(k) = storage[s[i]]
    <3> HIDE DEF s
    <3> QED
      BY <2>2, <2>5 DEF s
  <2> DEFINE c == s[i]
             r == Counting!Times(k, c)
  <2>7. c \in Cell /\ r \in Nat /\ r > 0 /\ members[k] \in Nat /\ members \in [Key -> Nat]
    BY <2>1, TimesIs DEF CountsKept
  <2>8. storage[c] = LoadOf(members, c) /\ members[k] * r <= LoadOf(members, c) /\ LoadOf(members, c) \in Nat
    BY <1>2, <2>7, LoadAtLeast DEF CountsKept
  <2> HIDE DEF r, c, s
  <2>9. members[k] <= members[k] * r /\ members[k] * r \in Nat
    BY <2>7
  <2> QED
    BY <2>6, <2>7, <2>8, <2>9 DEF c
<1> QED
  BY <1>1, <1>2 DEF Counting!NoFalseNegatives

-----------------------------------------------------------------------------
(* basic_bloom_filter.  The invariant: every key given to a filter has its cells set, and
   every cell that is set belongs to a key whose bits the filter has taken over. *)

CellsOf(k, f) == Filters!CellSet(k, f)

FiltersKept ==
  /\ storage \in [Filter -> SUBSET Nat]
  /\ members \in [Filter -> SUBSET Key] /\ taken \in [Filter -> SUBSET Key]
  /\ \A f \in Filter : \A k \in members[f] : CellsOf(k, f) \subseteq storage[f]
  /\ \A f \in Filter : storage[f] \subseteq UNION {CellsOf(k, f) : k \in taken[f]}

\* What one call does to the filters, whether assertions are compiled in or not: one filter
\* gets a key, loses all, takes over what another one of its size has, or keeps what another
\* one of its size has as well.
Given(f, k) ==
  /\ storage' = [storage EXCEPT ![f] = @ \union CellsOf(k, f)]
  /\ members' = [members EXCEPT ![f] = @ \union {k}]
  /\ taken' = [taken EXCEPT ![f] = @ \union {k}]

Emptied(f) ==
  /\ storage' = [storage EXCEPT ![f] = {}]
  /\ members' = [members EXCEPT ![f] = {}]
  /\ taken' = [taken EXCEPT ![f] = {}]

United(f, g) ==
  /\ storage' = [storage EXCEPT ![f] = @ \union storage[g]]
  /\ members' = [members EXCEPT ![f] = @ \union members[g]]
  /\ taken' = [taken EXCEPT ![f] = @ \union taken[g]]

Intersected(f, g) ==
  /\ storage' = [storage EXCEPT ![f] = @ \intersect storage[g]]
  /\ members' = [members EXCEPT ![f] = @ \intersect members[g]]
  /\ taken' = taken

FilterStep ==
  \/ \E f \in Filter : Emptied(f) \/ \E k \in Key : Given(f, k)
  \/ \E f, g \in Filter : United(f, g) \/ Intersected(f, g)
  \/ UNCHANGED <<storage, members, taken>>

LEMMA FiltersStep == Filters!Next => FilterStep
BY DEF Filters!Next, Filters!Clear, Filters!Insert, Filters!Unite, Filters!Intersect, Filters!Refuse,
       FilterStep, Emptied, Given, United, Intersected, CellsOf

LEMMA DebugFiltersStep == DebugFilters!Next => FilterStep
<1>1. \A k, f : DebugFilters!CellSet(k, f) = CellsOf(k, f)
  BY DEF DebugFilters!CellSet, DebugFilters!Range, CellsOf, Filters!CellSet, Filters!Range
<1> QED
  BY <1>1 DEF DebugFilters!Next, DebugFilters!Clear, DebugFilters!Insert, DebugFilters!Unite,
              DebugFilters!Intersect, DebugFilters!Refuse, FilterStep, Emptied, Given, United, Intersected

\* All filters of this program have the same number of bits, so that a key has the same cells
\* in each.
LEMMA SameCells ==
  ASSUME NEW k \in Key, NEW f \in Filter, NEW g \in Filter
  PROVE  CellsOf(k, f) = CellsOf(k, g) /\ CellsOf(k, f) \in SUBSET Nat
<1>1. Bits[f] = 5 /\ Bits[g] = 5
  BY DEF Bits
<1>2. DOMAIN Cells(k, 5) = 1..HashCount /\ \A i \in 1..HashCount : Cells(k, 5)[i] \in Nat
  BY CellsAre
<1> QED
  BY <1>1, <1>2 DEF CellsOf, Filters!CellSet, Filters!Range

LEMMA FiltersInit ==
  ASSUME \/ Filters!Init \/ DebugFilters!Init
  PROVE  FiltersKept
<1>1. /\ storage = [f \in Filter |-> {}] /\ members = [f \in Filter |-> {}]
      /\ taken = [f \in Filter |-> {}]
  BY DEF Filters!Init, DebugFilters!Init
<1> QED
  BY <1>1 DEF FiltersKept

LEMMA FiltersNext ==
  ASSUME FiltersKept, FilterStep
  PROVE  FiltersKept'
<1>1. ASSUME NEW f \in Filter, Emptied(f) PROVE FiltersKept'
  BY <1>1 DEF FiltersKept, Emptied
<1>2. ASSUME NEW f \in Filter, NEW k \in Key, Given(f, k) PROVE FiltersKept'
  BY <1>2, SameCells DEF FiltersKept, Given
<1>3. ASSUME NEW f \in Filter, NEW g \in Filter, United(f, g) PROVE FiltersKept'
  BY <1>3, SameCells DEF FiltersKept, United
<1>4. ASSUME NEW f \in Filter, NEW g \in Filter, Intersected(f, g) PROVE FiltersKept'
  BY <1>4, SameCells DEF FiltersKept, Intersected
<1>5. ASSUME UNCHANGED <<storage, members, taken>> PROVE FiltersKept'
  BY <1>5 DEF FiltersKept
<1> QED
  BY <1>1, <1>2, <1>3, <1>4, <1>5 DEF FilterStep

LEMMA FiltersGood ==
  ASSUME FiltersKept
  PROVE  /\ Filters!NoFalseNegatives /\ Filters!BitsJustified
         /\ DebugFilters!NoFalseNegatives /\ DebugFilters!BitsJustified
<1>1. \A k, f : DebugFilters!CellSet(k, f) = CellsOf(k, f)
  BY DEF DebugFilters!CellSet, DebugFilters!Range, CellsOf, Filters!CellSet, Filters!Range
<1>2. \A k, f : Filters!CellSet(k, f) = CellsOf(k, f)
  BY DEF CellsOf
<1> QED
  BY <1>1, <1>2 DEF FiltersKept, Filters!NoFalseNegatives, Filters!BitsJustified, Filters!Count,
                    DebugFilters!NoFalseNegatives, DebugFilters!BitsJustified, DebugFilters!Count

\* A cell that is counted down does not grow.
LEMMA ErasureLowers == ASSUME CountsKept PROVE Counting!ErasureOnlyLowers
<1>1. SUFFICES ASSUME NEW k \in Key, Counting!Erase(k), NEW c \in Counting!Cell
               PROVE  storage'[c] <= storage[c]
  BY DEF Counting!ErasureOnlyLowers
<1>2. storage' = [d \in Cell |-> Less(storage[d], Counting!Times(k, d))]
  BY <1>1, CountedDownIs DEF CountsKept, Counting!Erase
<1>3. c \in Cell /\ storage[c] \in Nat /\ Counting!Times(k, c) \in Nat
  BY <1>1, TimesIs, BloomAssumption DEF CountsKept, Counters, Cell, Counting!Cell
<1> QED
  BY <1>2, <1>3 DEF Less

-----------------------------------------------------------------------------
(* The containers as parts of Containers *)

FilterInv ==
  /\ used = "counting" => CountsKept
  /\ used \in {"filters", "debug"} => FiltersKept

\* Each container keeps its own invariant; that of a priority set says nothing of a table
\* from which a key's node has moved.
ContentsInv ==
  /\ used = "queue"     => QueueKept
  /\ used = "stack"     => StackKept
  /\ used = "string"    => StringKept
  /\ used = "vector"    => VectorKept
  /\ used = "bitvector" => BitvecKept
  /\ used = "bitset"    => BitsetKept
  /\ used = "priority"  => PriorityInv
  /\ FilterInv

LEMMA ContentsStart == Init => ContentsInv
<1> SUFFICES ASSUME Init PROVE ContentsInv
  OBVIOUS
<1>1. CASE used = "queue"
  BY <1>1, QueueStarts DEF Init, ContentsInv, FilterInv
<1>2. CASE used = "stack"
  BY <1>2, StackStarts DEF Init, ContentsInv, FilterInv
<1>3. CASE used = "priority"
  BY <1>3, PriorityStarts DEF Init, ContentsInv, FilterInv
<1>4. CASE used = "string"
  BY <1>4, StringStarts DEF Init, ContentsInv, FilterInv
<1>5. CASE used = "vector"
  BY <1>5, VectorStarts DEF Init, ContentsInv, FilterInv
<1>6. CASE used = "bitvector"
  BY <1>6, BitvecStarts DEF Init, ContentsInv, FilterInv
<1>7. CASE used = "bitset"
  BY <1>7, BitsetStarts DEF Init, ContentsInv, FilterInv
<1>8. CASE used = "counting"
  BY <1>8, CountsInit DEF Init, ContentsInv, FilterInv
<1>9. CASE used \in {"filters", "debug"}
  BY <1>9, FiltersInit DEF Init, ContentsInv, FilterInv
<1>10. used \in {"queue", "stack", "priority", "string", "vector", "bitvector", "bitset", "counting", "filters", "debug"}
  BY DEF Init
<1> QED
  BY <1>1, <1>2, <1>3, <1>4, <1>5, <1>6, <1>7, <1>8, <1>9, <1>10

LEMMA ContentsUnchanged == ContentsInv /\ UNCHANGED vars => ContentsInv'
<1> SUFFICES ASSUME ContentsInv, UNCHANGED vars PROVE ContentsInv'
  OBVIOUS
<1>0. /\ used' = used /\ buffer' = buffer /\ given' = given /\ track' = track /\ storage' = storage
      /\ size' = size /\ members' = members /\ taken' = taken /\ refused' = refused
  BY DEF vars
<1>1. QueueKept' <=> QueueKept
  BY <1>0 DEF QueueKept, HoldsLatest
<1>2. StackKept' <=> StackKept
  BY <1>0 DEF StackKept, TracksOrder, Precedes
<1>3. StringKept' <=> StringKept
  BY <1>0 DEF StringKept, String!Data, String!Chars, String!FitLocal, String!Idle, String!Open
<1>4. VectorKept' <=> VectorKept
  BY <1>0 DEF VectorKept, Vector!Idle
<1>5. BitvecKept' <=> BitvecKept
  BY <1>0 DEF BitvecKept, Bitvec!ContentsExact, Bitvec!BlockExact, Bitvec!FitLocal, Bitvec!MaxLocal, Bitvec!BitSpace
<1>6. BitsetKept' <=> BitsetKept
  BY <1>0 DEF BitsetKept, Bitset!WordsExact, Bitset!Bits
<1>7. PriorityInv' <=> PriorityInv
  BY <1>0 DEF PriorityInv, PriorityKept, NodesKept, Table, Entry, Node
<1>8. CountsKept' <=> CountsKept
  BY <1>0 DEF CountsKept
<1>9. FiltersKept' <=> FiltersKept
  BY <1>0 DEF FiltersKept
<1> QED
  BY <1>0, <1>1, <1>2, <1>3, <1>4, <1>5, <1>6, <1>7, <1>8, <1>9 DEF ContentsInv, FilterInv

LEMMA ContentsStep == ContentsInv /\ [Next]_vars => ContentsInv'
<1> SUFFICES ASSUME ContentsInv, Next PROVE ContentsInv'
  BY ContentsUnchanged
<1>0. used' = used
  BY DEF Next
<1>1. CASE used = "queue"
  BY <1>0, <1>1, QueueStays DEF Next, ContentsInv, FilterInv
<1>2. CASE used = "stack"
  BY <1>0, <1>2, StackStays DEF Next, ContentsInv, FilterInv
<1>3. CASE used = "priority"
  BY <1>0, <1>3, PriorityKeeps, PriorityAssumption DEF Next, ContentsInv, FilterInv
<1>4. CASE used = "string"
  BY <1>0, <1>4, StringStays DEF Next, ContentsInv, FilterInv
<1>5. CASE used = "vector"
  BY <1>0, <1>5, VectorStays DEF Next, ContentsInv, FilterInv
<1>6. CASE used = "bitvector"
  BY <1>0, <1>6, BitvecStays DEF Next, ContentsInv, FilterInv
<1>7. CASE used = "bitset"
  BY <1>0, <1>7, BitsetStays DEF Next, ContentsInv, FilterInv
<1>8. CASE used = "counting"
  <2>1. Counting!Next /\ CountsKept
    BY <1>8 DEF Next, ContentsInv, FilterInv
  <2>2. CountsKept'
    BY <2>1, CountsInsert, CountsErase, CountsClear DEF Counting!Next
  <2> QED
    BY <1>0, <1>8, <2>2 DEF ContentsInv, FilterInv
<1>9. CASE used \in {"filters", "debug"}
  <2>1. FilterStep /\ FiltersKept
    BY <1>9, FiltersStep, DebugFiltersStep DEF Next, ContentsInv, FilterInv
  <2> QED
    BY <1>0, <1>9, <2>1, FiltersNext DEF ContentsInv, FilterInv
<1>10. used \in {"queue", "stack", "priority", "string", "vector", "bitvector", "bitset", "counting", "filters", "debug"}
  BY DEF Next
<1> QED
  BY <1>1, <1>2, <1>3, <1>4, <1>5, <1>6, <1>7, <1>8, <1>9, <1>10

LEMMA ContentsGood == ContentsInv => ContentsExact
<1> SUFFICES ASSUME ContentsInv PROVE ContentsExact
  OBVIOUS
<1>1. used = "queue" => HoldsLatest
  BY DEF ContentsInv, QueueKept
<1>2. used = "stack" => TracksOrder
  BY DEF ContentsInv, StackKept
<1>3. used = "priority" => Priorities!LookupKept
  BY PriorityGood DEF ContentsInv
<1>4. used = "string" => String!ContentsExact /\ String!BlockExact /\ String!Terminated
  BY StringGood DEF ContentsInv
<1>5. used = "vector" => Vector!ContentsExact /\ Vector!BlockExact
  BY VectorGood DEF ContentsInv
<1>6. used = "bitvector" => Bitvec!ContentsExact /\ Bitvec!BlockExact
  BY DEF ContentsInv, BitvecKept
<1>7. used = "bitset" => Bitset!WordsExact
  BY DEF ContentsInv, BitsetKept
<1>8. used = "counting" => Counting!StorageExact
  BY CountsGood DEF ContentsInv, FilterInv
<1>9. (used = "filters" => Filters!BitsJustified) /\ (used = "debug" => DebugFilters!BitsJustified)
  BY FiltersGood DEF ContentsInv, FilterInv
<1> QED
  BY <1>1, <1>2, <1>3, <1>4, <1>5, <1>6, <1>7, <1>8, <1>9 DEF ContentsExact

\* A filter never misses a member: the counting filter before one of its counters wraps or an
\* absent key is erased, whatever the order of the calls and however keys share cells; the
\* filter of bits through unions and intersections, with and without assertions.
THEOREM NoMemberMissed == Spec => []NoFalseNegatives
<1>1. ContentsInv => NoFalseNegatives
  BY CountsGood, FiltersGood DEF ContentsInv, FilterInv, NoFalseNegatives
<1> QED
  BY <1>1, ContentsStart, ContentsStep, PTL DEF Spec

\* Through any mixture of calls, a queue, a stack, a string, a vector, a vector of bits, a
\* bit set and the filters hold what they were given, in the representation that the code
\* keeps: in the word or in a block, up to the limits of both, with the terminator, in whole
\* words whose spare bits are zero, as counters or bits that keys share.  The table of a
\* priority set agrees with its nodes until a change of a priority puts the new node at
\* another address than the old one (priority_map.hpp:265 and 291), and after a clear();
\* of the time between the two nothing is said.
THEOREM ContentsAlwaysExact == Spec => []ContentsExact
<1>1. ContentsInv => ContentsExact
  BY ContentsGood
<1> QED
  BY <1>1, ContentsStart, ContentsStep, PTL DEF Spec

\* Each call does what it is for: until a node moves in that way a priority_set implements a
\* queue of distinct keys ordered by priority; a full circular_queue alone evicts; and
\* erasing from a counting filter makes no counter grow.
THEOREM CallsAlwaysExact == Spec => CallsExact
<1> DEFINE Starts == used = "priority" => Priorities!Queue!Init
           Does == /\ used = "priority" => Priorities!CallsKept
                   /\ used = "queue" => EvictsOnlyWhenFull
                   /\ used = "counting" => Counting!ErasureOnlyLowers
<1>1. Init => Starts
  BY PriorityStarts DEF Init
<1>2. ContentsInv /\ [Next]_vars => [Does]_vars
  <2> SUFFICES ASSUME ContentsInv, Next PROVE Does
    OBVIOUS
  <2>1. ASSUME used = "priority" PROVE Priorities!CallsKept
    BY <2>1, PriorityKeeps, PriorityAssumption DEF Next, ContentsInv
  <2>2. ASSUME used = "queue" PROVE EvictsOnlyWhenFull
    BY <2>2, QueueEvicts DEF Next, ContentsInv
  <2>3. ASSUME used = "counting" PROVE Counting!ErasureOnlyLowers
    BY <2>3, ErasureLowers DEF ContentsInv, FilterInv
  <2> QED
    BY <2>1, <2>2, <2>3
<1>3. CallsExact <=> Starts /\ [][Does]_vars
  BY DEF CallsExact
<1> HIDE DEF Starts, Does
<1> QED
  BY <1>1, <1>2, <1>3, ContentsStart, ContentsStep, PTL DEF Spec
===============================================================================
