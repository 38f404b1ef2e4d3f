--------------------------- MODULE StringSetProofs ---------------------------
(***************************************************************************)
(* Correctness of StringSet for all strings, lengths and hashes: buffer    *)
(* and table describe the same strings, insert and erase do what they are  *)
(* for, and without erasures find() finds what is there.                   *)
(*                                                                         *)
(* The argument forgets the offsets early: an assignment of places in the  *)
(* buffer to buckets (at) says which string a node belongs to, and what    *)
(* the operations do to nodes is followed on it.                           *)
(***************************************************************************)
EXTENDS StringSet, SumTheorems

-----------------------------------------------------------------------------
(* Offsets *)

\* Where the i-th string of the buffer begins.
Start(buf, i) == End(buf, i - 1)

\* e has the positions behind the first strings of buf.
EndsOf(e, buf) ==
  /\ e \in [0..Len(buf) -> Nat] /\ e[0] = 0
  /\ \A i \in 1..Len(buf) : e[i] = e[i - 1] + EntrySize(buf[i])

\* An entry takes at least three bytes.
LEMMA EntryIs == \A s \in String : EntrySize(s) \in Nat /\ EntrySize(s) >= 3
<1> SUFFICES ASSUME NEW s \in String PROVE EntrySize(s) \in Nat /\ EntrySize(s) >= 3
  OBVIOUS
<1>1. Length[s] \in 1..MaxLength
  BY LengthAssumption
<1> QED BY <1>1 DEF EntrySize, PrefixSize

\* End satisfies its recursive definition.
LEMMA EndIs ==
  ASSUME NEW buf \in Seq(String)
  PROVE  EndsOf([i \in 0..Len(buf) |-> End(buf, i)], buf)
<1> DEFINE n == Len(buf)
           D(f) == [j \in 0..n |-> IF j = 0 THEN 0 ELSE f[j - 1] + EntrySize(buf[j])]
           go == [i \in 1..n |-> [x \in Nat |-> x + EntrySize(buf[i])]]
           e == CHOOSE g : g = D(g)
<1>1. n \in Nat /\ \A i \in 1..n : buf[i] \in String
  OBVIOUS
<1> HIDE DEF n
<1>2. \A i \in 1..n : EntrySize(buf[i]) \in Nat
  BY <1>1, EntryIs
<1>3. go \in Steps(n, Nat)
  BY <1>2 DEF Steps
<1>4. \A i \in 1..n, x \in Nat : go[i][x] = x + EntrySize(buf[i])
  OBVIOUS
<1> HIDE DEF go
<1>5. PICK f \in [0..n -> Nat] : f[0] = 0 /\ \A i \in 1..n : f[i] = go[i][f[i - 1]]
  <2>1. PICK f : Follows(f, n, Nat, 0, go)
    BY <1>1, <1>3, RecursionExists
  <2> QED BY <2>1 DEF Follows
<1>6. \A i \in 1..n : f[i] = f[i - 1] + EntrySize(buf[i])
  <2> SUFFICES ASSUME NEW i \in 1..n PROVE f[i] = f[i - 1] + EntrySize(buf[i])
    OBVIOUS
  <2>1. f[i - 1] \in Nat
    <3>1. i - 1 \in 0..n
      BY <1>1
    <3> QED BY <1>5, <3>1
  <2> QED BY <1>4, <1>5, <2>1
<1>7. f = D(f)
  BY <1>1, <1>5, <1>6
<1>8. e = D(e)
  <2> HIDE DEF D
  <2> QED BY <1>7
<1>9. \A i : End(buf, i) = e[i]
  BY DEF End, n
<1> HIDE DEF e
<1> DEFINE S == {i \in Nat : i <= n => e[i] = f[i]}
<1>10. 0 \in S
  BY <1>1, <1>5, <1>8
<1>11. ASSUME NEW i \in Nat, i \in S PROVE i + 1 \in S
  <2> SUFFICES ASSUME i + 1 <= n PROVE e[i + 1] = f[i + 1]
    OBVIOUS
  <2>1. i + 1 \in 1..n /\ (i + 1) - 1 = i /\ i + 1 # 0 /\ i + 1 \in 0..n
    BY <1>1
  <2>2. e[i + 1] = e[i] + EntrySize(buf[i + 1])
    BY <1>8, <2>1
  <2>3. f[i + 1] = f[i] + EntrySize(buf[i + 1])
    BY <1>6, <2>1
  <2>4. e[i] = f[i]
    BY <1>1, <1>11
  <2> QED BY <2>2, <2>3, <2>4
<1> HIDE DEF S
<1>12. \A i \in Nat : i \in S
  BY <1>10, <1>11, SetInduction
<1>13. \A i \in 0..n : End(buf, i) = f[i]
  BY <1>1, <1>9, <1>12 DEF S
<1>14. [i \in 0..n |-> End(buf, i)] = f
  BY <1>13
<1> QED BY <1>5, <1>6, <1>14 DEF EndsOf, n

\* Whatever adds up the entries of buf is End.
LEMMA EndUnique ==
  ASSUME NEW buf \in Seq(String), NEW f, f[0] = 0,
         \A i \in 1..Len(buf) : f[i] = f[i - 1] + EntrySize(buf[i])
  PROVE  \A i \in 0..Len(buf) : End(buf, i) = f[i]
<1> DEFINE e == [i \in 0..Len(buf) |-> End(buf, i)]
           S == {i \in Nat : i <= Len(buf) => e[i] = f[i]}
<1>0. Len(buf) \in Nat
  OBVIOUS
<1>1. EndsOf(e, buf)
  BY EndIs
<1>2. \A i \in 0..Len(buf) : e[i] = End(buf, i)
  OBVIOUS
<1> HIDE DEF e
<1>3. 0 \in S
  BY <1>1 DEF EndsOf
<1>4. ASSUME NEW i \in Nat, i \in S PROVE i + 1 \in S
  <2> SUFFICES ASSUME i + 1 <= Len(buf) PROVE e[i + 1] = f[i + 1]
    OBVIOUS
  <2>1. i + 1 \in 1..Len(buf) /\ (i + 1) - 1 = i
    BY <1>0
  <2>2. e[i + 1] = e[i] + EntrySize(buf[i + 1])
    BY <1>1, <2>1 DEF EndsOf
  <2>3. f[i + 1] = f[i] + EntrySize(buf[i + 1])
    BY <2>1
  <2> QED BY <1>4, <2>2, <2>3
<1> HIDE DEF S
<1>5. \A i \in Nat : i \in S
  BY <1>3, <1>4, SetInduction
<1> QED BY <1>0, <1>2, <1>5 DEF S

\* Strings begin at different offsets, in their order.
LEMMA StartIs ==
  ASSUME NEW buf \in Seq(String)
  PROVE  /\ \A i \in 1..Len(buf) : Start(buf, i) \in Nat
         /\ \A i, j \in 1..Len(buf) : i < j => Start(buf, i) < Start(buf, j)
<1> DEFINE e == [i \in 0..Len(buf) |-> End(buf, i)]
<1>0. Len(buf) \in Nat /\ \A i \in 1..Len(buf) : buf[i] \in String
  OBVIOUS
<1>1. EndsOf(e, buf)
  BY EndIs
<1>2. \A i \in 1..Len(buf) : Start(buf, i) = e[i - 1] /\ i - 1 \in 0..Len(buf)
  BY <1>0 DEF Start
<1> HIDE DEF e
<1>3. \A i \in 1..Len(buf) : Start(buf, i) \in Nat
  BY <1>1, <1>2 DEF EndsOf
<1>4. ASSUME NEW i \in 1..Len(buf) PROVE \A j \in 1..Len(buf) : i < j => Start(buf, i) < Start(buf, j)
  <2> DEFINE S == {j \in Nat : j < Len(buf) /\ i <= j => e[i - 1] < e[j]}
  <2>1. 0 \in S
    BY <1>0
  <2>2. ASSUME NEW j \in Nat, j \in S PROVE j + 1 \in S
    <3> SUFFICES ASSUME j + 1 < Len(buf), i <= j + 1 PROVE e[i - 1] < e[j + 1]
      OBVIOUS
    <3>1. j + 1 \in 1..Len(buf) /\ (j + 1) - 1 = j /\ j \in 0..Len(buf) /\ i - 1 \in 0..Len(buf)
      BY <1>0
    <3>2. e[j + 1] = e[j] + EntrySize(buf[j + 1]) /\ e[j] \in Nat /\ e[i - 1] \in Nat
      BY <1>1, <3>1 DEF EndsOf
    <3>3. EntrySize(buf[j + 1]) \in Nat /\ EntrySize(buf[j + 1]) >= 3
      BY <1>0, <3>1, EntryIs
    <3>4. CASE i = j + 1
      BY <3>1, <3>2, <3>3, <3>4
    <3>5. CASE i <= j
      BY <2>2, <3>2, <3>3, <3>5
    <3> QED BY <3>4, <3>5
  <2> HIDE DEF S
  <2>3. \A j \in Nat : j \in S
    BY <2>1, <2>2, SetInduction
  <2> SUFFICES ASSUME NEW j \in 1..Len(buf), i < j PROVE e[i - 1] < e[j - 1]
    BY <1>2
  <2>4. j - 1 \in S /\ j - 1 < Len(buf) /\ i <= j - 1
    BY <1>0, <2>3
  <2> QED BY <2>4 DEF S
<1> QED BY <1>3, <1>4

LEMMA StartDiffers ==
  ASSUME NEW buf \in Seq(String), NEW i \in 1..Len(buf), NEW j \in 1..Len(buf),
         Start(buf, i) = Start(buf, j)
  PROVE  i = j
<1>1. Start(buf, i) \in Nat /\ Start(buf, j) \in Nat
  BY StartIs
<1>2. i < j => Start(buf, i) < Start(buf, j)
  BY StartIs
<1>3. j < i => Start(buf, j) < Start(buf, i)
  BY StartIs
<1>4. i < j \/ j < i \/ i = j
  OBVIOUS
<1> QED BY <1>1, <1>2, <1>3, <1>4

\* A string appended leaves the others where they are.
LEMMA StartAppend ==
  ASSUME NEW buf \in Seq(String), NEW s \in String
  PROVE  /\ \A i \in 1..Len(buf) : Start(Append(buf, s), i) = Start(buf, i)
         /\ Start(Append(buf, s), Len(buf) + 1) = End(buf, Len(buf))
<1> DEFINE q == Append(buf, s)
           e == [i \in 0..Len(q) |-> End(q, i)]
<1>0. Len(buf) \in Nat /\ q \in Seq(String) /\ Len(q) = Len(buf) + 1
      /\ \A i \in 1..Len(buf) : q[i] = buf[i]
  OBVIOUS
<1>1. EndsOf(e, q)
  BY <1>0, EndIs
<1>2. \A i \in 0..Len(buf) : e[i] = End(q, i)
  BY <1>0
<1> HIDE DEF e, q
<1>3. \A i \in 1..Len(buf) : e[i] = e[i - 1] + EntrySize(buf[i])
  BY <1>0, <1>1 DEF EndsOf
<1>4. e[0] = 0
  BY <1>1 DEF EndsOf
<1>5. \A i \in 0..Len(buf) : End(buf, i) = e[i]
  BY <1>3, <1>4, EndUnique
<1>6. \A i \in 1..Len(buf) : i - 1 \in 0..Len(buf)
  BY <1>0
<1>7. Len(buf) \in 0..Len(buf) /\ (Len(buf) + 1) - 1 = Len(buf)
  BY <1>0
<1> QED BY <1>2, <1>5, <1>6, <1>7 DEF Start, q

\* The strings behind one that is removed move up by its entry.
LEMMA StartRemove ==
  ASSUME NEW buf \in Seq(String), NEW i \in 1..Len(buf)
  PROVE  /\ \A j \in 1..Len(buf) : j < i => Start(RemoveAt(buf, i), j) = Start(buf, j)
         /\ \A j \in 1..Len(buf) : j > i =>
              Start(RemoveAt(buf, i), j - 1) = Start(buf, j) - EntrySize(buf[i])
<1> DEFINE q == RemoveAt(buf, i)
           e == [j \in 0..Len(buf) |-> End(buf, j)]
           n == Len(buf)
           f == [j \in 0..(n - 1) |-> IF j < i THEN e[j] ELSE e[j + 1] - EntrySize(buf[i])]
<1>0. n \in Nat /\ i \in 1..n /\ i \in DOMAIN buf /\ \A j \in 1..n : buf[j] \in String
  OBVIOUS
<1>1. EndsOf(e, buf)
  BY EndIs
<1>2. q \in Seq(String) /\ Len(q) = n - 1 /\ \A j \in 1..(n - 1) : q[j] = buf[IF j < i THEN j ELSE j + 1]
  BY <1>0, RemoveAtIs
<1>3. /\ e \in [0..n -> Nat] /\ e[0] = 0
      /\ \A j \in 1..n : e[j] = e[j - 1] + EntrySize(buf[j]) /\ EntrySize(buf[j]) \in Nat
  BY <1>0, <1>1, EntryIs DEF EndsOf
<1>4. \A j \in 0..n : e[j] = End(buf, j)
  OBVIOUS
<1> HIDE DEF q, e, n
<1>5. f[0] = 0
  BY <1>0, <1>3
<1>6. ASSUME NEW j \in 1..Len(q) PROVE f[j] = f[j - 1] + EntrySize(q[j])
  <2>0. j \in 1..(n - 1) /\ j - 1 \in 0..(n - 1) /\ j \in 0..(n - 1) /\ j \in 1..n /\ j + 1 \in 1..n
    BY <1>0, <1>2
  <2>1. CASE j < i
    <3>1. f[j] = e[j] /\ f[j - 1] = e[j - 1] /\ q[j] = buf[j]
      BY <1>2, <2>0, <2>1
    <3> QED BY <1>3, <2>0, <3>1
  <2>2. CASE ~(j < i)
    <3>1. f[j] = e[j + 1] - EntrySize(buf[i]) /\ q[j] = buf[j + 1]
      BY <1>2, <2>0, <2>2
    <3>2. e[j + 1] = e[j] + EntrySize(buf[j + 1])
      <4>1. (j + 1) - 1 = j
        BY <2>0
      <4> QED BY <1>3, <2>0, <4>1
    <3>3. e[j] \in Nat /\ e[j - 1] \in Nat /\ EntrySize(buf[j + 1]) \in Nat /\ EntrySize(buf[i]) \in Nat
      <4>1. j \in 0..n /\ j - 1 \in 0..n /\ i \in 1..n
        BY <1>0, <2>0
      <4> QED BY <1>3, <2>0, <4>1
    <3>4. f[j - 1] = e[j] - EntrySize(buf[i])
      <4>1. CASE j = i
        <5>1. f[j - 1] = e[j - 1]
          BY <2>0, <4>1
        <5>2. e[j] = e[j - 1] + EntrySize(buf[j])
          BY <1>3, <2>0
        <5> QED BY <3>3, <4>1, <5>1, <5>2
      <4>2. CASE j # i
        <5>1. ~(j - 1 < i) /\ (j - 1) + 1 = j
          BY <1>0, <2>0, <2>2, <4>2
        <5> QED BY <2>0, <5>1
      <4> QED BY <4>1, <4>2
    <3> QED BY <3>1, <3>2, <3>3, <3>4
  <2> QED BY <2>1, <2>2
<1> HIDE DEF f
<1>7. \A j \in 0..Len(q) : End(q, j) = f[j]
  BY <1>2, <1>5, <1>6, EndUnique
<1>8. ASSUME NEW j \in 1..n, j < i PROVE End(q, j - 1) = e[j - 1] /\ e[j - 1] = End(buf, j - 1)
  <2>1. j - 1 \in 0..Len(q) /\ j - 1 < i /\ j - 1 \in 0..(n - 1) /\ j - 1 \in 0..n
    BY <1>0, <1>2, <1>8
  <2>2. f[j - 1] = e[j - 1]
    BY <2>1 DEF f
  <2> QED BY <1>4, <1>7, <2>1, <2>2
<1>9. ASSUME NEW j \in 1..n, j > i
      PROVE  End(q, (j - 1) - 1) = e[j - 1] - EntrySize(buf[i]) /\ e[j - 1] = End(buf, j - 1)
  <2> DEFINE m == (j - 1) - 1
  <2>1. m \in 0..Len(q) /\ m \in 0..(n - 1) /\ m + 1 = j - 1 /\ j - 1 \in 0..n /\ m \in Nat
    BY <1>0, <1>2, <1>9
  <2>2. CASE m < i
    <3>1. m = i - 1 /\ j - 1 = i
      BY <1>0, <1>9, <2>2
    <3>2. f[m] = e[m]
      BY <2>1, <2>2 DEF f
    <3>3. e[i] = e[i - 1] + EntrySize(buf[i]) /\ e[i - 1] \in Nat /\ EntrySize(buf[i]) \in Nat
      <4>1. i - 1 \in 0..n
        BY <1>0
      <4> QED BY <1>0, <1>3, <4>1
    <3> HIDE DEF m
    <3>4. f[m] = e[j - 1] - EntrySize(buf[i])
      BY <3>1, <3>2, <3>3
    <3> QED BY <1>4, <1>7, <2>1, <3>4 DEF m
  <2>3. CASE ~(m < i)
    <3>1. f[m] = e[m + 1] - EntrySize(buf[i])
      BY <2>1, <2>3 DEF f
    <3> HIDE DEF m
    <3>2. End(q, m) = e[j - 1] - EntrySize(buf[i])
      BY <1>7, <2>1, <3>1
    <3> QED BY <1>4, <2>1, <3>2 DEF m
  <2> QED BY <2>2, <2>3
<1> QED BY <1>8, <1>9 DEF Start, q, n


-----------------------------------------------------------------------------
(* Probing *)

\* b comes in the probe sequence of h before all of stops, or is the first of them.
Probed(h, n, b, stops) ==
  \E j \in 0..(n - 1) : b = (h + j) % n /\ \A k \in 0..(j - 1) : (h + k) % n \notin stops

\* Division with remainder, as far as it is needed.
Divided(h, n) == \E q \in Nat, r \in 0..(n - 1) : h = n * q + r

LEMMA Division ==
  ASSUME NEW n \in Nat \ {0}
  PROVE  \A h \in Nat : Divided(h, n)
<1> DEFINE S == {h \in Nat : Divided(h, n)}
<1>1. 0 \in S
  <2>1. 0 = n * 0 + 0 /\ 0 \in 0..(n - 1) /\ 0 \in Nat
    OBVIOUS
  <2> QED BY <2>1 DEF Divided
<1>2. ASSUME NEW h \in Nat, h \in S PROVE h + 1 \in S
  <2>1. PICK q \in Nat, r \in 0..(n - 1) : h = n * q + r
    BY <1>2 DEF Divided
  <2>2. CASE r + 1 \in 0..(n - 1)
    <3>1. h + 1 = n * q + (r + 1)
      BY <2>1
    <3>2. Divided(h + 1, n)
      BY <2>2, <3>1 DEF Divided
    <3> QED BY <3>2
  <2>3. CASE r + 1 \notin 0..(n - 1)
    <3>1. r + 1 = n
      BY <2>3
    <3>2. n * (q + 1) = n * q + n
      OBVIOUS
    <3>3. n * q \in Nat
      OBVIOUS
    <3>4. h + 1 = n * (q + 1) + 0
      BY <2>1, <3>1, <3>2, <3>3
    <3>5. Divided(h + 1, n)
      <4>1. q + 1 \in Nat /\ 0 \in 0..(n - 1)
        OBVIOUS
      <4> QED BY <3>4, <4>1 DEF Divided
    <3> QED BY <3>5
  <2> QED BY <2>2, <2>3
<1> HIDE DEF S
<1>3. \A h \in Nat : h \in S
  BY <1>1, <1>2, SetInduction
<1> QED BY <1>3 DEF S

LEMMA Remainder ==
  ASSUME NEW n \in Nat \ {0}, NEW q \in Nat, NEW r \in 0..(n - 1)
  PROVE  (n * q + r) % n = r
OBVIOUS

\* A probe sequence comes to every bucket.
LEMMA ProbesAll ==
  ASSUME NEW n \in Nat \ {0}, NEW h \in Nat, NEW b \in 0..(n - 1)
  PROVE  \E j \in 0..(n - 1) : (h + j) % n = b
<1>1. PICK q \in Nat, r \in 0..(n - 1) : h = n * q + r
  BY Division DEF Divided
<1>2. n * q \in Nat /\ n * (q + 1) = n * q + n
  OBVIOUS
<1>3. CASE r <= b
  <2>1. b - r \in 0..(n - 1) /\ h + (b - r) = n * q + b
    BY <1>1, <1>2, <1>3
  <2>2. (n * q + b) % n = b
    BY Remainder
  <2> QED BY <2>1, <2>2
<1>4. CASE b < r
  <2>1. (b - r) + n \in 0..(n - 1) /\ h + ((b - r) + n) = n * (q + 1) + b
    BY <1>1, <1>2, <1>4
  <2>2. (n * (q + 1) + b) % n = b
    <3>1. q + 1 \in Nat
      OBVIOUS
    <3> QED BY <3>1, Remainder
  <2> QED BY <2>1, <2>2
<1> QED BY <1>3, <1>4

\* A search ends at a bucket of the table; at a stop before all others when there is one.
LEMMA ProbeIs ==
  ASSUME NEW n \in Nat \ {0}, NEW h \in Nat, NEW stops \in SUBSET (0..(n - 1))
  PROVE  /\ Probe(h, n, stops) \in 0..(n - 1)
         /\ stops # {} => /\ Probe(h, n, stops) \in stops
                          /\ Probed(h, n, Probe(h, n, stops), stops)
<1> DEFINE steps == {j \in 0..(n - 1) : (h + j) % n \in stops}
<1>1. Probe(h, n, stops) = (h + (IF steps = {} THEN 0 ELSE Min(steps))) % n
  BY DEF Probe
<1>2. \A j \in 0..(n - 1) : (h + j) % n \in 0..(n - 1)
  OBVIOUS
<1>3. ASSUME steps # {}
      PROVE  Min(steps) \in steps /\ \A j \in steps : Min(steps) <= j
  <2>1. steps \in SUBSET Nat
    OBVIOUS
  <2> HIDE DEF steps
  <2>2. PICK x \in steps : \A y \in steps : x <= y
    BY <1>3, <2>1, LeastElement
  <2> QED BY <2>2 DEF Min
<1>4. CASE steps = {}
  <2>1. Probe(h, n, stops) \in 0..(n - 1)
    <3>1. 0 \in 0..(n - 1)
      OBVIOUS
    <3> HIDE DEF steps
    <3> QED BY <1>1, <1>2, <1>4, <3>1
  <2>2. stops = {}
    <3> SUFFICES ASSUME NEW b \in stops PROVE FALSE
      OBVIOUS
    <3>1. PICK j \in 0..(n - 1) : (h + j) % n = b
      BY ProbesAll
    <3> QED BY <1>4, <3>1
  <2> QED BY <2>1, <2>2
<1>5. CASE steps # {}
  <2> DEFINE j == Min(steps)
  <2>1. j \in 0..(n - 1) /\ (h + j) % n \in stops
    BY <1>3, <1>5
  <2>2. Probe(h, n, stops) = (h + j) % n
    BY <1>1, <1>5
  <2>3. \A k \in 0..(j - 1) : (h + k) % n \notin stops
    <3> SUFFICES ASSUME NEW k \in 0..(j - 1), (h + k) % n \in stops PROVE FALSE
      OBVIOUS
    <3> HIDE DEF j
    <3>1. k \in 0..(n - 1) /\ k < j
      BY <2>1
    <3>2. k \in steps
      BY <3>1
    <3>3. j <= k
      BY <1>3, <1>5, <3>2 DEF j
    <3> QED BY <2>1, <3>1, <3>3
  <2> HIDE DEF j
  <2> QED BY <1>2, <2>1, <2>2, <2>3 DEF Probed
<1> QED BY <1>4, <1>5

\* What is met before a free bucket is found: a search for one of some buckets that would
\* stop at a free bucket as well stops at one of them.
LEMMA ProbedFound ==
  ASSUME NEW n \in Nat \ {0}, NEW h \in Nat, NEW free \in SUBSET (0..(n - 1)),
         NEW held \in SUBSET (0..(n - 1)), NEW b \in held, b \notin free,
         Probed(h, n, b, free)
  PROVE  Probe(h, n, free \cup held) \in held
<1> DEFINE stops == free \cup held
           p == Probe(h, n, stops)
<1>1. PICK j \in 0..(n - 1) : b = (h + j) % n /\ \A k \in 0..(j - 1) : (h + k) % n \notin free
  BY DEF Probed
<1>2. stops \in SUBSET (0..(n - 1)) /\ stops # {}
  OBVIOUS
<1> HIDE DEF stops
<1>3. p \in stops /\ Probed(h, n, p, stops)
  BY <1>2, ProbeIs
<1> HIDE DEF p
<1>4. PICK i \in 0..(n - 1) : p = (h + i) % n /\ \A k \in 0..(i - 1) : (h + k) % n \notin stops
  BY <1>3 DEF Probed
<1>5. SUFFICES ASSUME p \in free PROVE FALSE
  BY <1>3 DEF stops, p
<1>6. ~(i < j)
  <2> SUFFICES ASSUME i < j PROVE FALSE
    OBVIOUS
  <2>1. i \in 0..(j - 1)
    OBVIOUS
  <2> QED BY <1>1, <1>4, <1>5, <2>1
<1>7. ~(j < i)
  <2> SUFFICES ASSUME j < i PROVE FALSE
    OBVIOUS
  <2>1. j \in 0..(i - 1)
    OBVIOUS
  <2>2. b \in stops
    BY DEF stops
  <2> QED BY <1>1, <1>4, <2>1, <2>2
<1>8. i = j
  BY <1>6, <1>7
<1> QED BY <1>1, <1>4, <1>5, <1>8

\* Fewer stops hide nothing.
LEMMA ProbedMore ==
  ASSUME NEW n \in Nat, NEW h, NEW b, NEW stops, NEW fewer \in SUBSET stops, Probed(h, n, b, stops)
  PROVE  Probed(h, n, b, fewer)
BY DEF Probed

-----------------------------------------------------------------------------
(* Tables *)

Node == [offset : Int, hash : Nat]

\* A table of n buckets.
Table(bks, n) == n \in Nat /\ bks \in [0..(n - 1) -> Node]

NodeOf(buf, i) == [offset |-> Start(buf, i), hash |-> Hash[buf[i]]]

FreeOf(bks, n) == {b \in 0..(n - 1) : bks[b].offset = -1}

\* at assigns each bucket the place of its string in the buffer, or 0 when it is free; the
\* strings at the places of I have one bucket each, and others have none.
Paired(bks, n, buf, at, I) ==
  /\ Table(bks, n) /\ buf \in Seq(String) /\ I \in SUBSET (1..Len(buf))
  /\ at \in [0..(n - 1) -> I \cup {0}]
  /\ \A b \in 0..(n - 1) : bks[b] = IF at[b] = 0 THEN FreeNode ELSE NodeOf(buf, at[b])
  /\ \A b, c \in 0..(n - 1) : at[b] # 0 /\ at[b] = at[c] => b = c
  /\ \A i \in I : \E b \in 0..(n - 1) : at[b] = i

LEMMA FreeNodeIs == FreeNode \in Node /\ FreeNode.offset = -1
BY DEF FreeNode, Node

LEMMA NodeOfIs ==
  ASSUME NEW buf \in Seq(String), NEW i \in 1..Len(buf)
  PROVE  /\ NodeOf(buf, i) \in Node
         /\ NodeOf(buf, i).offset = Start(buf, i) /\ Start(buf, i) \in Nat
         /\ NodeOf(buf, i).hash = Hash[buf[i]] /\ Hash[buf[i]] \in Nat
<1>1. Start(buf, i) \in Nat
  BY StartIs
<1>2. buf[i] \in String
  OBVIOUS
<1>3. Hash[buf[i]] \in Nat
  BY <1>2, HashAssumption
<1> QED BY <1>1, <1>3 DEF NodeOf, Node

LEMMA CountIs ==
  ASSUME NEW bks, NEW n, Table(bks, n)
  PROVE  Count(bks) = n /\ DOMAIN bks = 0..(n - 1) /\ DOMAIN bks \ Used(bks) = FreeOf(bks, n)
<1>1. n \in Nat /\ DOMAIN bks = 0..(n - 1)
  BY DEF Table
<1>2. Cardinality(0..(n - 1)) = n
  <2>1. Cardinality(0..(n - 1)) = IF 0 > n - 1 THEN 0 ELSE (n - 1) - 0 + 1
    <3>1. 0 \in Int /\ n - 1 \in Int
      BY <1>1
    <3> QED BY <3>1, FS_Interval
  <2> QED BY <1>1, <2>1
<1> QED BY <1>1, <1>2 DEF Count, Used, FreeOf

\* What a node tells of the bucket.
LEMMA PairedIs ==
  ASSUME NEW bks, NEW n, NEW buf, NEW I, NEW at, Paired(bks, n, buf, at, I)
  PROVE  \A b \in 0..(n - 1) :
           /\ at[b] = 0 => bks[b] = FreeNode
           /\ at[b] # 0 => at[b] \in I /\ at[b] \in 1..Len(buf) /\ bks[b] = NodeOf(buf, at[b])
           /\ bks[b].offset = -1 <=> at[b] = 0
<1> SUFFICES ASSUME NEW b \in 0..(n - 1)
    PROVE  /\ at[b] = 0 => bks[b] = FreeNode
           /\ at[b] # 0 => at[b] \in I /\ at[b] \in 1..Len(buf) /\ bks[b] = NodeOf(buf, at[b])
           /\ bks[b].offset = -1 <=> at[b] = 0
  OBVIOUS
<1>0. Table(bks, n) /\ n \in Nat /\ buf \in Seq(String) /\ I \in SUBSET (1..Len(buf))
  BY DEF Paired, Table
<1>1. at[b] \in I \cup {0} /\ bks[b] = IF at[b] = 0 THEN FreeNode ELSE NodeOf(buf, at[b])
  BY DEF Paired
<1>2. CASE at[b] = 0
  BY <1>1, <1>2, FreeNodeIs
<1>3. CASE at[b] # 0
  <2>1. at[b] \in I /\ at[b] \in 1..Len(buf) /\ bks[b] = NodeOf(buf, at[b])
    BY <1>0, <1>1, <1>3
  <2>2. bks[b].offset \in Nat
    BY <1>0, <2>1, NodeOfIs
  <2>3. bks[b].offset # -1
    BY <2>2
  <2> QED BY <1>3, <2>1, <2>3
<1> QED BY <1>2, <1>3

\* A comparison at the offset of a bucket finds its string.
LEMMA AtIs ==
  ASSUME NEW bks, NEW n, NEW buf, NEW I, NEW at, Paired(bks, n, buf, at, I), NEW s
  PROVE  \A b \in 0..(n - 1) : s \in At(buf, bks[b].offset) <=> at[b] # 0 /\ s = buf[at[b]]
<1> SUFFICES ASSUME NEW b \in 0..(n - 1)
    PROVE  s \in At(buf, bks[b].offset) <=> at[b] # 0 /\ s = buf[at[b]]
  OBVIOUS
<1>0. Table(bks, n) /\ n \in Nat /\ buf \in Seq(String) /\ I \in SUBSET (1..Len(buf))
  BY DEF Paired, Table
<1>1. s \in At(buf, bks[b].offset) <=> \E i \in 1..Len(buf) : Start(buf, i) = bks[b].offset /\ s = buf[i]
  <2>1. DOMAIN buf = 1..Len(buf)
    BY <1>0
  <2> QED BY <2>1 DEF At, Start
<1>2. CASE at[b] = 0
  <2>1. bks[b].offset = -1
    BY <1>2, PairedIs
  <2>2. \A i \in 1..Len(buf) : Start(buf, i) # -1
    <3> SUFFICES ASSUME NEW i \in 1..Len(buf) PROVE Start(buf, i) # -1
      OBVIOUS
    <3>1. Start(buf, i) \in Nat
      BY <1>0, StartIs
    <3> QED BY <3>1
  <2> QED BY <1>1, <1>2, <2>1, <2>2
<1>3. CASE at[b] # 0
  <2>1. at[b] \in 1..Len(buf) /\ bks[b].offset = Start(buf, at[b])
    <3>1. at[b] \in 1..Len(buf) /\ bks[b] = NodeOf(buf, at[b])
      BY <1>3, PairedIs
    <3>2. NodeOf(buf, at[b]).offset = Start(buf, at[b])
      BY <1>0, <3>1, NodeOfIs
    <3> QED BY <3>1, <3>2
  <2>2. \A i \in 1..Len(buf) : Start(buf, i) = Start(buf, at[b]) => i = at[b]
    BY <1>0, <2>1, StartDiffers
  <2> QED BY <1>1, <1>3, <2>1, <2>2
<1> QED BY <1>2, <1>3

\* Where a search for s stops.
StopsOf(n, buf, at, s) == {b \in 0..(n - 1) : at[b] = 0 \/ s = buf[at[b]]}

LEMMA StopForIs ==
  ASSUME NEW bks, NEW n, NEW buf, NEW I, NEW at, Paired(bks, n, buf, at, I), NEW s
  PROVE  StopFor(bks, buf, s) = Probe(Hash[s], n, StopsOf(n, buf, at, s))
<1>0. Table(bks, n) /\ n \in Nat /\ buf \in Seq(String) /\ I \in SUBSET (1..Len(buf))
  BY DEF Paired, Table
<1>1. {b \in DOMAIN bks : bks[b].offset = -1 \/ s \in At(buf, bks[b].offset)} = StopsOf(n, buf, at, s)
  <2>1. DOMAIN bks = 0..(n - 1)
    BY <1>0, CountIs
  <2>2. \A b \in 0..(n - 1) : bks[b].offset = -1 <=> at[b] = 0
    BY PairedIs
  <2>3. \A b \in 0..(n - 1) : s \in At(buf, bks[b].offset) <=> at[b] # 0 /\ s = buf[at[b]]
    BY AtIs
  <2> QED BY <2>1, <2>2, <2>3 DEF StopsOf
<1>2. Count(bks) = n
  BY <1>0, CountIs
<1> QED BY <1>1, <1>2 DEF StopFor

\* As many buckets are in use as there are strings.
LEMMA UsedIs ==
  ASSUME NEW bks, NEW n, NEW buf, NEW I, NEW at, Paired(bks, n, buf, at, I)
  PROVE  /\ Used(bks) = {b \in 0..(n - 1) : at[b] # 0}
         /\ IsFiniteSet(I) /\ Cardinality(I) \in Nat
         /\ Cardinality(Used(bks)) = Cardinality(I) /\ Cardinality(I) <= n
         /\ Cardinality(I) < n => \E b \in 0..(n - 1) : at[b] = 0
<1> DEFINE U == {b \in 0..(n - 1) : at[b] # 0}
           g == [b \in U |-> at[b]]
<1>0. Table(bks, n) /\ n \in Nat /\ buf \in Seq(String) /\ I \in SUBSET (1..Len(buf))
  BY DEF Paired, Table
<1>1. n \in Nat /\ IsFiniteSet(0..(n - 1)) /\ Cardinality(0..(n - 1)) = n
  <2>1. 0 \in Int /\ n - 1 \in Int
    BY <1>0
  <2>2. IsFiniteSet(0..(n - 1))
    BY <2>1, FS_Interval
  <2>3. Count(bks) = n /\ DOMAIN bks = 0..(n - 1)
    BY <1>0, CountIs
  <2> QED BY <1>0, <2>2, <2>3 DEF Count
<1>2. Used(bks) = U
  <2>1. DOMAIN bks = 0..(n - 1)
    BY <1>0, CountIs
  <2>2. \A b \in 0..(n - 1) : bks[b].offset = -1 <=> at[b] = 0
    BY PairedIs
  <2> QED BY <2>1, <2>2 DEF Used
<1>3. IsFiniteSet(U) /\ Cardinality(U) \in Nat /\ Cardinality(U) <= n
  <2>1. U \in SUBSET (0..(n - 1))
    OBVIOUS
  <2> HIDE DEF U
  <2> QED BY <1>1, <2>1, FS_Subset, FS_CardinalityType
<1>4. g \in [U -> I]
  <2> SUFFICES ASSUME NEW b \in U PROVE at[b] \in I
    OBVIOUS
  <2> QED BY PairedIs
<1>5. \A a, b \in U : g[a] = g[b] => a = b
  BY DEF Paired
<1>6. \A i \in I : \E b \in U : g[b] = i
  <2> SUFFICES ASSUME NEW i \in I PROVE \E b \in U : g[b] = i
    OBVIOUS
  <2>1. PICK b \in 0..(n - 1) : at[b] = i
    BY DEF Paired
  <2>2. b \in U
    BY <1>0, <2>1
  <2> QED BY <2>1, <2>2
<1> HIDE DEF g
<1>7. IsFiniteSet(I) /\ Cardinality(I) = Cardinality(U)
  <2> HIDE DEF U
  <2> QED BY <1>3, <1>4, <1>5, <1>6, SameSize
<1>8. Cardinality(U) < n => \E b \in 0..(n - 1) : at[b] = 0
  <2> SUFFICES ASSUME \A b \in 0..(n - 1) : at[b] # 0 PROVE ~(Cardinality(U) < n)
    OBVIOUS
  <2>1. U = 0..(n - 1)
    OBVIOUS
  <2> HIDE DEF U
  <2> QED BY <1>1, <2>1
<1> HIDE DEF U
<1> QED BY <1>2, <1>3, <1>7, <1>8 DEF U

-----------------------------------------------------------------------------
(* What the operations do to tables *)

\* A node is put into a free bucket.
Put(bks, b, node) == [bks EXCEPT ![b] = node]

LEMMA PutIs ==
  ASSUME NEW bks, NEW n, Table(bks, n), NEW b \in 0..(n - 1), NEW node \in Node
  PROVE  /\ Table(Put(bks, b, node), n)
         /\ Put(bks, b, node)[b] = node
         /\ \A c \in 0..(n - 1) : c # b => Put(bks, b, node)[c] = bks[c]
BY DEF Table, Put

LEMMA PutPaired ==
  ASSUME NEW bks, NEW n, NEW buf, NEW I, NEW at, Paired(bks, n, buf, at, I),
         NEW b \in 0..(n - 1), at[b] = 0, NEW i \in 1..Len(buf), i \notin I
  PROVE  Paired(Put(bks, b, NodeOf(buf, i)), n, buf, Put(at, b, i), I \cup {i})
<1> DEFINE bks2 == Put(bks, b, NodeOf(buf, i))
           at2 == Put(at, b, i)
           J == I \cup {i}
<1>0. Table(bks, n) /\ n \in Nat /\ buf \in Seq(String) /\ I \in SUBSET (1..Len(buf)) /\ at \in [0..(n - 1) -> I \cup {0}]
  BY DEF Paired, Table
<1>1. i # 0
  BY <1>0
<1>2. NodeOf(buf, i) \in Node
  BY <1>0, NodeOfIs
<1>3. Table(bks2, n) /\ bks2[b] = NodeOf(buf, i) /\ \A c \in 0..(n - 1) : c # b => bks2[c] = bks[c]
  BY <1>0, <1>2, PutIs
<1>4. at2 \in [0..(n - 1) -> J \cup {0}] /\ at2[b] = i /\ \A c \in 0..(n - 1) : c # b => at2[c] = at[c]
  BY <1>0 DEF Put
<1>5. /\ \A c \in 0..(n - 1) : bks[c] = IF at[c] = 0 THEN FreeNode ELSE NodeOf(buf, at[c])
      /\ \A c, d \in 0..(n - 1) : at[c] # 0 /\ at[c] = at[d] => c = d
      /\ \A j \in I : \E c \in 0..(n - 1) : at[c] = j
  BY DEF Paired
<1> HIDE DEF bks2, at2
<1>6. \A c \in 0..(n - 1) : bks2[c] = IF at2[c] = 0 THEN FreeNode ELSE NodeOf(buf, at2[c])
  BY <1>1, <1>3, <1>4, <1>5
<1>7. ASSUME NEW c \in 0..(n - 1), NEW d \in 0..(n - 1), at2[c] # 0, at2[c] = at2[d]
      PROVE  c = d
  <2>1. at[c] # i /\ at[d] # i
    BY <1>0, <1>1
  <2> QED BY <1>4, <1>5, <1>7, <2>1
<1>8. ASSUME NEW j \in J PROVE \E c \in 0..(n - 1) : at2[c] = j
  <2>1. CASE j = i
    BY <1>4, <2>1
  <2>2. CASE j # i
    <3>1. j \in I /\ j # 0
      BY <1>0, <2>2
    <3>2. PICK c \in 0..(n - 1) : at[c] = j
      BY <1>5, <3>1
    <3>3. c # b
      BY <3>1, <3>2
    <3> QED BY <1>4, <3>2, <3>3
  <2> QED BY <2>1, <2>2
<1>9. J \in SUBSET (1..Len(buf))
  BY <1>0
<1> HIDE DEF J
<1>10. Paired(bks2, n, buf, at2, J)
  BY <1>0, <1>3, <1>4, <1>6, <1>7, <1>8, <1>9 DEF Paired
<1> QED BY <1>10 DEF bks2, at2, J

\* A string appended to the buffer leaves the nodes of the others right.
LEMMA AppendPaired ==
  ASSUME NEW bks, NEW n, NEW buf, NEW at, Paired(bks, n, buf, at, 1..Len(buf)), NEW s \in String
  PROVE  /\ Paired(bks, n, Append(buf, s), at, 1..Len(buf))
         /\ NodeOf(Append(buf, s), Len(buf) + 1) = [offset |-> End(buf, Len(buf)), hash |-> Hash[s]]
<1> DEFINE q == Append(buf, s)
           I == 1..Len(buf)
<1>0. buf \in Seq(String)
  BY DEF Paired
<1>1. /\ Len(buf) \in Nat /\ q \in Seq(String) /\ Len(q) = Len(buf) + 1
      /\ q[Len(buf) + 1] = s /\ \A i \in I : q[i] = buf[i]
  BY <1>0
<1>2. \A i \in I : Start(q, i) = Start(buf, i)
  BY <1>0, StartAppend
<1>3. Start(q, Len(buf) + 1) = End(buf, Len(buf))
  BY <1>0, StartAppend
<1> HIDE DEF q
<1>4. \A i \in I : NodeOf(q, i) = NodeOf(buf, i)
  BY <1>1, <1>2 DEF NodeOf
<1>5. NodeOf(q, Len(buf) + 1) = [offset |-> End(buf, Len(buf)), hash |-> Hash[s]]
  BY <1>1, <1>3 DEF NodeOf
<1>6. I \in SUBSET (1..Len(q))
  BY <1>1
<1> HIDE DEF I
<1>7. Paired(bks, n, buf, at, I)
  BY DEF I
<1>8. Paired(bks, n, q, at, I)
  <2>1. /\ Table(bks, n) /\ at \in [0..(n - 1) -> I \cup {0}]
        /\ \A b \in 0..(n - 1) : bks[b] = IF at[b] = 0 THEN FreeNode ELSE NodeOf(buf, at[b])
        /\ \A b, c \in 0..(n - 1) : at[b] # 0 /\ at[b] = at[c] => b = c
        /\ \A i \in I : \E b \in 0..(n - 1) : at[b] = i
    BY <1>7 DEF Paired
  <2>2. \A b \in 0..(n - 1) : bks[b] = IF at[b] = 0 THEN FreeNode ELSE NodeOf(q, at[b])
    <3> SUFFICES ASSUME NEW b \in 0..(n - 1) PROVE bks[b] = IF at[b] = 0 THEN FreeNode ELSE NodeOf(q, at[b])
      OBVIOUS
    <3>1. at[b] # 0 => at[b] \in I
      BY <2>1
    <3> QED BY <1>4, <2>1, <3>1
  <2> QED BY <1>1, <1>6, <2>1, <2>2 DEF Paired
<1> QED BY <1>5, <1>8 DEF q, I

\* A string removed from the buffer takes its node with it.
LEMMA ErasePaired ==
  ASSUME NEW bks, NEW n, NEW buf, NEW at, Paired(bks, n, buf, at, 1..Len(buf)), NEW i \in 1..Len(buf)
  PROVE  Paired(Shifted(bks, Start(buf, i), buf[i]), n, RemoveAt(buf, i),
                [b \in 0..(n - 1) |-> IF at[b] = i THEN 0 ELSE IF at[b] > i THEN at[b] - 1 ELSE at[b]],
                1..Len(RemoveAt(buf, i)))
<1> DEFINE q == RemoveAt(buf, i)
           bks2 == Shifted(bks, Start(buf, i), buf[i])
           at2 == [b \in 0..(n - 1) |-> IF at[b] = i THEN 0 ELSE IF at[b] > i THEN at[b] - 1 ELSE at[b]]
           I == 1..Len(buf)
           J == 1..Len(q)
<1>0. /\ Table(bks, n) /\ n \in Nat /\ DOMAIN bks = 0..(n - 1) /\ buf \in Seq(String)
      /\ at \in [0..(n - 1) -> I \cup {0}]
  <2>1. Table(bks, n) /\ buf \in Seq(String) /\ at \in [0..(n - 1) -> I \cup {0}]
    BY DEF Paired
  <2> QED BY <2>1 DEF Table
<1>1. /\ \A b \in 0..(n - 1) : bks[b] = IF at[b] = 0 THEN FreeNode ELSE NodeOf(buf, at[b])
      /\ \A b, c \in 0..(n - 1) : at[b] # 0 /\ at[b] = at[c] => b = c
      /\ \A j \in I : \E b \in 0..(n - 1) : at[b] = j
  BY DEF Paired
<1>2. /\ Len(buf) \in Nat /\ q \in Seq(String) /\ Len(q) = Len(buf) - 1
      /\ \A j \in 1..(Len(buf) - 1) : q[j] = buf[IF j < i THEN j ELSE j + 1]
  <2>1. i \in DOMAIN buf /\ Len(buf) \in Nat
    BY <1>0
  <2> QED BY <1>0, <2>1, RemoveAtIs
<1>3. /\ \A j \in I : j < i => Start(q, j) = Start(buf, j)
      /\ \A j \in I : j > i => Start(q, j - 1) = Start(buf, j) - EntrySize(buf[i])
  BY <1>0, StartRemove
<1>4. /\ \A j \in I : Start(buf, j) \in Nat
      /\ \A j, k \in I : j < k => Start(buf, j) < Start(buf, k)
  BY <1>0, StartIs
<1>5. Table(bks2, n) /\ \A b \in 0..(n - 1) :
        bks2[b] = IF bks[b].offset = Start(buf, i) THEN FreeNode
                  ELSE [bks[b] EXCEPT !.offset = IF @ > Start(buf, i) THEN @ - EntrySize(buf[i]) ELSE @]
  <2>1. DOMAIN bks2 = 0..(n - 1) /\ \A b \in 0..(n - 1) :
        bks2[b] = IF bks[b].offset = Start(buf, i) THEN FreeNode
                  ELSE [bks[b] EXCEPT !.offset = IF @ > Start(buf, i) THEN @ - EntrySize(buf[i]) ELSE @]
    BY <1>0 DEF Shifted
  <2>2. bks2 = [b \in 0..(n - 1) |-> bks2[b]]
    BY <1>0 DEF Shifted
  <2> HIDE DEF bks2
  <2>3. ASSUME NEW b \in 0..(n - 1) PROVE bks2[b] \in Node
    <3>1. bks[b] \in Node
      BY <1>0 DEF Table
    <3>2. EntrySize(buf[i]) \in Nat /\ Start(buf, i) \in Nat
      <4>1. buf[i] \in String
        BY <1>0
      <4> QED BY <1>4, <4>1, EntryIs
    <3>3. FreeNode \in Node
      BY FreeNodeIs
    <3>4. bks2[b] = IF bks[b].offset = Start(buf, i) THEN FreeNode
                  ELSE [bks[b] EXCEPT !.offset = IF @ > Start(buf, i) THEN @ - EntrySize(buf[i]) ELSE @]
      BY <2>1
    <3> HIDE DEF I
    <3> QED BY <3>1, <3>2, <3>3, <3>4 DEF Node
  <2> QED BY <1>0, <2>1, <2>2, <2>3 DEF Table
<1> HIDE DEF bks2, q, I, J
<1>13. ASSUME NEW b \in 0..(n - 1)
       PROVE  bks2[b] = IF bks[b].offset = Start(buf, i) THEN FreeNode
                        ELSE [offset |-> IF bks[b].offset > Start(buf, i)
                                         THEN bks[b].offset - EntrySize(buf[i]) ELSE bks[b].offset,
                              hash |-> bks[b].hash]
  <2>1. bks[b] \in [offset : Int, hash : Nat]
    BY <1>0 DEF Table, Node
  <2>2. \A x : [bks[b] EXCEPT !.offset = x] = [offset |-> x, hash |-> bks[b].hash]
    BY <2>1
  <2>3. bks2[b] = IF bks[b].offset = Start(buf, i) THEN FreeNode
                  ELSE [bks[b] EXCEPT !.offset = IF bks[b].offset > Start(buf, i)
                                                 THEN bks[b].offset - EntrySize(buf[i]) ELSE bks[b].offset]
    BY <1>5
  <2> QED BY <2>2, <2>3
<1>6. at2 \in [0..(n - 1) -> J \cup {0}]
  <2> SUFFICES ASSUME NEW b \in 0..(n - 1)
               PROVE  (IF at[b] = i THEN 0 ELSE IF at[b] > i THEN at[b] - 1 ELSE at[b]) \in J \cup {0}
    OBVIOUS
  <2>1. at[b] \in I \cup {0}
    BY <1>0
  <2> QED BY <1>2, <2>1 DEF I, J
<1>7. \A b \in 0..(n - 1) : at2[b] = IF at[b] = i THEN 0 ELSE IF at[b] > i THEN at[b] - 1 ELSE at[b]
  OBVIOUS
<1> HIDE DEF at2
<1>8. ASSUME NEW b \in 0..(n - 1)
      PROVE  bks2[b] = IF at2[b] = 0 THEN FreeNode ELSE NodeOf(q, at2[b])
  <2>0. at[b] \in I \cup {0}
    BY <1>0
  <2>1. CASE at[b] = 0
    <3>1. bks[b] = FreeNode /\ bks[b].offset = -1
      BY <1>1, <2>1, FreeNodeIs
    <3>2. Start(buf, i) \in Nat
      BY <1>4 DEF I
    <3>3. bks2[b] = [offset |-> -1, hash |-> FreeNode.hash]
      BY <1>13, <3>1, <3>2
    <3>4. bks2[b] = FreeNode
      BY <3>3 DEF FreeNode
    <3>5. at2[b] = 0
      BY <1>7, <2>1
    <3> QED BY <3>4, <3>5
  <2>2. CASE at[b] # 0
    <3>1. at[b] \in I /\ bks[b] = NodeOf(buf, at[b])
      BY <1>1, <2>0, <2>2
    <3>2. bks[b] = [offset |-> Start(buf, at[b]), hash |-> Hash[buf[at[b]]]]
      BY <3>1 DEF NodeOf
    <3>3. Start(buf, at[b]) \in Nat /\ Start(buf, i) \in Nat
      BY <1>4, <3>1 DEF I
    <3>4. CASE at[b] = i
      <4>3. bks[b].offset = Start(buf, at[b])
        BY <3>2
      <4>1. bks2[b] = FreeNode
        BY <1>13, <3>4, <4>3
      <4>2. at2[b] = 0
        BY <1>7, <3>4
      <4> QED BY <4>1, <4>2
    <3>5. CASE at[b] < i
      <4>1. Start(buf, at[b]) < Start(buf, i)
        BY <1>4, <3>1, <3>5 DEF I
      <4>2. bks2[b] = [offset |-> Start(buf, at[b]), hash |-> Hash[buf[at[b]]]]
        BY <1>13, <3>2, <3>3, <4>1
      <4>3. at2[b] = at[b]
        BY <1>7, <3>1, <3>5 DEF I
      <4>4. Start(q, at[b]) = Start(buf, at[b])
        BY <1>3, <3>1, <3>5
      <4>5. q[at[b]] = buf[at[b]]
        BY <1>2, <3>1, <3>5 DEF I
      <4> QED BY <2>2, <4>2, <4>3, <4>4, <4>5 DEF NodeOf
    <3>6. CASE at[b] > i
      <4>1. Start(buf, i) < Start(buf, at[b])
        BY <1>4, <3>1, <3>6 DEF I
      <4>2. bks2[b] = [offset |-> Start(buf, at[b]) - EntrySize(buf[i]), hash |-> Hash[buf[at[b]]]]
        BY <1>13, <3>2, <3>3, <4>1
      <4>3. at2[b] = at[b] - 1 /\ at[b] - 1 # 0 /\ at[b] - 1 \in 1..(Len(buf) - 1)
            /\ ~(at[b] - 1 < i) /\ (at[b] - 1) + 1 = at[b]
        <5>1. Len(buf) \in Nat /\ at[b] \in 1..Len(buf) /\ i \in 1..Len(buf)
          BY <1>2, <3>1 DEF I
        <5>2. at[b] # i
          BY <3>6, <5>1
        <5>3. at2[b] = at[b] - 1
          BY <1>7, <3>6, <5>2
        <5> QED BY <3>6, <5>1, <5>3
      <4>4. Start(q, at[b] - 1) = Start(buf, at[b]) - EntrySize(buf[i])
        BY <1>3, <3>1, <3>6
      <4>5. q[at[b] - 1] = buf[at[b]]
        BY <1>2, <4>3
      <4> QED BY <4>2, <4>3, <4>4, <4>5 DEF NodeOf
    <3> QED BY <3>1, <3>4, <3>5, <3>6 DEF I
  <2> QED BY <2>1, <2>2
<1>9. ASSUME NEW b \in 0..(n - 1), NEW c \in 0..(n - 1), at2[b] # 0, at2[b] = at2[c]
      PROVE  b = c
  <2>1. at[b] \in I \cup {0} /\ at[c] \in I \cup {0}
    BY <1>0
  <2>2. at[b] # 0 /\ at[b] = at[c]
    BY <1>2, <1>7, <1>9, <2>1 DEF I
  <2> QED BY <1>1, <2>2
<1>10. ASSUME NEW j \in J PROVE \E b \in 0..(n - 1) : at2[b] = j
  <2> DEFINE k == IF j < i THEN j ELSE j + 1
  <2>1. k \in I /\ k # i /\ k # 0 /\ (IF k = i THEN 0 ELSE IF k > i THEN k - 1 ELSE k) = j
    BY <1>2 DEF I, J
  <2> HIDE DEF k
  <2>2. PICK b \in 0..(n - 1) : at[b] = k
    BY <1>1, <2>1
  <2> QED BY <1>7, <2>1, <2>2
<1>11. J \in SUBSET (1..Len(q))
  BY DEF J
<1>12. Paired(bks2, n, q, at2, J)
  BY <1>2, <1>5, <1>6, <1>8, <1>9, <1>10, <1>11 DEF Paired
<1> QED BY <1>12 DEF bks2, q, at2, J

-----------------------------------------------------------------------------
(* What can be reached *)

\* Each string is met by the search for it before a free bucket.
Reachable(bks, n) ==
  \A b \in 0..(n - 1) :
    bks[b].offset # -1 => Probed(bks[b].hash, n, b, FreeOf(bks, n))

\* A node put where a search that stops at every free bucket arrived can be reached, and the
\* others still can.
LEMMA PutReachable ==
  ASSUME NEW bks, NEW n, Table(bks, n), Reachable(bks, n), NEW node \in Node, node.offset # -1,
         NEW b \in 0..(n - 1), NEW stops, FreeOf(bks, n) \in SUBSET stops, Probed(node.hash, n, b, stops)
  PROVE  Reachable(Put(bks, b, node), n)
<1> DEFINE bks2 == Put(bks, b, node)
<1>1. n \in Nat /\ bks2[b] = node /\ \A c \in 0..(n - 1) : c # b => bks2[c] = bks[c]
  <2>1. n \in Nat
    BY DEF Table
  <2> QED BY <2>1, PutIs
<1> HIDE DEF bks2
<1>2. FreeOf(bks2, n) \in SUBSET FreeOf(bks, n)
  BY <1>1 DEF FreeOf
<1>3. FreeOf(bks2, n) \in SUBSET stops
  BY <1>2
<1> SUFFICES ASSUME NEW c \in 0..(n - 1), bks2[c].offset # -1
             PROVE  Probed(bks2[c].hash, n, c, FreeOf(bks2, n))
  BY DEF Reachable, bks2
<1>4. CASE c = b
  BY <1>1, <1>3, <1>4, ProbedMore
<1>5. CASE c # b
  <2>1. bks2[c] = bks[c]
    BY <1>1, <1>5
  <2>2. Probed(bks[c].hash, n, c, FreeOf(bks, n))
    BY <2>1 DEF Reachable
  <2> QED BY <1>1, <1>2, <2>1, <2>2, ProbedMore
<1> QED BY <1>4, <1>5

\* A table of free buckets.
LEMMA ResizedIs ==
  ASSUME NEW bks, NEW n \in Nat, \A b \in 0..(n - 1) : b \in DOMAIN bks => bks[b] = FreeNode,
         NEW buf \in Seq(String)
  PROVE  /\ Paired(Resized(bks, n), n, buf, [b \in 0..(n - 1) |-> 0], {})
         /\ Reachable(Resized(bks, n), n)
<1> DEFINE new == Resized(bks, n)
           at == [b \in 0..(n - 1) |-> 0]
<1>1. new = [b \in 0..(n - 1) |-> FreeNode]
  BY DEF Resized
<1> HIDE DEF new
<1>2. Table(new, n)
  BY <1>1, FreeNodeIs DEF Table
<1>3. at \in [0..(n - 1) -> {} \cup {0}] /\ \A b \in 0..(n - 1) : at[b] = 0
  OBVIOUS
<1> HIDE DEF at
<1>4. \A b \in 0..(n - 1) : new[b] = FreeNode
  BY <1>1
<1>5. Paired(new, n, buf, at, {})
  BY <1>2, <1>3, <1>4 DEF Paired
<1>6. Reachable(new, n)
  BY <1>4, FreeNodeIs DEF Reachable
<1> QED BY <1>5, <1>6 DEF new, at

-----------------------------------------------------------------------------
(* Rehashing *)

\* new has the nodes of the first k buckets of a table that at assigns, and all can be
\* reached.
Places(at, k) == {at[c] : c \in 0..(k - 1)} \ {0}

Filled(new, m, buf, at, k) ==
  Reachable(new, m) /\ \E at2 : Paired(new, m, buf, at2, Places(at, k))

\* One more bucket is copied.
LEMMA CopiedIs ==
  ASSUME NEW bks, NEW n, NEW buf, NEW at, Paired(bks, n, buf, at, 1..Len(buf)),
         NEW k \in 0..(n - 1),
         NEW m \in Nat, Len(buf) <= m, NEW new, Filled(new, m, buf, at, k)
  PROVE  Filled(Copied(new, bks[k], m), m, buf, at, k + 1)
<1> DEFINE I == Places(at, k)
           J == Places(at, k + 1)
<1>0. Table(bks, n) /\ n \in Nat /\ buf \in Seq(String) /\ Len(buf) \in Nat
      /\ at \in [0..(n - 1) -> (1..Len(buf)) \cup {0}]
  <2>1. Table(bks, n) /\ buf \in Seq(String) /\ at \in [0..(n - 1) -> (1..Len(buf)) \cup {0}]
    BY DEF Paired
  <2> QED BY <2>1 DEF Table
<1>1. PICK at2 : Paired(new, m, buf, at2, I)
  BY DEF Filled
<1>2. Reachable(new, m) /\ Table(new, m)
  BY <1>1 DEF Filled, Paired
<1>3. J = (I \cup {at[k]}) \ {0}
  BY <1>0 DEF Places
<1>4. CASE at[k] = 0
  <2>1. bks[k].offset = -1
    BY <1>4, FreeNodeIs DEF Paired
  <2>2. Copied(new, bks[k], m) = new
    BY <2>1 DEF Copied
  <2>3. J = I
    BY <1>3, <1>4 DEF Places
  <2> HIDE DEF I, J
  <2>4. Paired(new, m, buf, at2, J)
    BY <1>1, <2>3
  <2> QED BY <1>2, <2>2, <2>4 DEF Filled, J
<1>5. CASE at[k] # 0
  <2> DEFINE i == at[k]
             free == FreeOf(new, m)
  <2>1. i \in 1..Len(buf) /\ bks[k] = NodeOf(buf, i)
    BY <1>0, <1>5, PairedIs
  <2>2. NodeOf(buf, i) \in Node /\ NodeOf(buf, i).offset # -1 /\ NodeOf(buf, i).hash \in Nat
    <3>1. NodeOf(buf, i) \in Node /\ NodeOf(buf, i).offset \in Nat
      BY <1>0, <2>1, NodeOfIs
    <3> QED BY <3>1 DEF Node
  <2>3. i \notin I
    <3> SUFFICES ASSUME NEW c \in 0..(k - 1), at[c] = i PROVE FALSE
      BY DEF Places
    <3>1. c \in 0..(n - 1) /\ c # k
      BY <1>0
    <3> QED BY <1>5, <3>1 DEF Paired
  <2>4. J = I \cup {i}
    BY <1>3, <1>5 DEF Places
  <2> HIDE DEF i, I, J
  <2>5. IsFiniteSet(I) /\ Cardinality(I) < m
    <3>1. IsFiniteSet(I) /\ Cardinality(I) \in Nat
      BY <1>1, UsedIs
    <3>2. I \cup {i} \in SUBSET (1..Len(buf))
      BY <1>1, <2>1 DEF Paired
    <3>3. IsFiniteSet(1..Len(buf)) /\ Cardinality(1..Len(buf)) = Len(buf)
      <4>0. 1 \in Int /\ Len(buf) \in Int
        BY <1>0
      <4>1. Cardinality(1..Len(buf)) = IF 1 > Len(buf) THEN 0 ELSE Len(buf) - 1 + 1
        BY <4>0, FS_Interval
      <4>2. IsFiniteSet(1..Len(buf))
        BY <4>0, FS_Interval
      <4> QED BY <1>0, <4>1, <4>2
    <3>4. Cardinality(I \cup {i}) = Cardinality(I) + 1
      BY <2>3, <3>1, FS_AddElement
    <3>5. Cardinality(I \cup {i}) <= Len(buf)
      BY <3>2, <3>3, FS_Subset
    <3> QED BY <1>0, <3>1, <3>4, <3>5
  <2>6. free \in SUBSET (0..(m - 1)) /\ free # {} /\ m # 0
    <3>1. PICK b \in 0..(m - 1) : at2[b] = 0
      BY <1>1, <2>5, UsedIs
    <3>2. new[b].offset = -1
      BY <1>1, <3>1, PairedIs
    <3> QED BY <3>1, <3>2 DEF FreeOf
  <2> DEFINE b == Probe(NodeOf(buf, i).hash, m, free)
  <2>7. b \in free /\ Probed(NodeOf(buf, i).hash, m, b, free)
    <3> HIDE DEF free
    <3>1. m \in Nat \ {0}
      BY <2>6
    <3> QED BY <2>2, <2>6, <3>1, ProbeIs
  <2>8. Copied(new, bks[k], m) = Put(new, b, NodeOf(buf, i))
    BY <1>2, <2>1, <2>2, CountIs DEF Copied, Put
  <2> HIDE DEF b
  <2>9. b \in 0..(m - 1) /\ at2[b] = 0
    <3>1. b \in 0..(m - 1) /\ new[b].offset = -1
      BY <2>7 DEF FreeOf
    <3> QED BY <1>1, <3>1, PairedIs
  <2>10. Paired(Put(new, b, NodeOf(buf, i)), m, buf, Put(at2, b, i), I \cup {i})
    BY <1>1, <2>1, <2>3, <2>9, PutPaired
  <2>11. Reachable(Put(new, b, NodeOf(buf, i)), m)
    BY <1>2, <2>2, <2>7, <2>9, PutReachable
  <2> QED BY <2>4, <2>8, <2>10, <2>11 DEF Filled, J
<1> QED BY <1>4, <1>5

\* Rehashed satisfies its recursive definition.
LEMMA RehashedSteps ==
  ASSUME NEW bks, NEW n, Table(bks, n), NEW m \in Nat
  PROVE  \E f : /\ f[0] = Resized(<<>>, m)
                /\ \A k \in 0..(n - 1) : f[k + 1] = Copied(f[k], bks[k], m)
                /\ Rehashed(bks, m) = f[n]
<1> DEFINE T == [0..(m - 1) -> Node]
           a == Resized(<<>>, m)
           go == [i \in 1..n |-> [x \in T |-> Copied(x, bks[i - 1], m)]]
           D(f) == [b \in 0..n |-> IF b = 0 THEN a ELSE Copied(f[b - 1], bks[b - 1], m)]
           e == CHOOSE f : f = D(f)
<1>1. n \in Nat /\ Count(bks) = n /\ \A b \in 0..(n - 1) : bks[b] \in Node
  BY CountIs DEF Table
<1>2. a \in T
  <2>1. a = [b \in 0..(m - 1) |-> FreeNode]
    BY DEF Resized
  <2> QED BY <2>1, FreeNodeIs
<1>3. \A x \in T, node \in Node : Copied(x, node, m) \in T
  BY DEF Copied
<1> HIDE DEF T, a
<1>4. go \in Steps(n, T) /\ \A i \in 1..n : \A x \in T : go[i][x] = Copied(x, bks[i - 1], m)
  <2>1. \A i \in 1..n : bks[i - 1] \in Node
    BY <1>1
  <2> QED BY <1>3, <2>1 DEF Steps
<1> HIDE DEF go
<1>5. PICK f : f \in [0..n -> T] /\ f[0] = a /\ \A i \in 1..n : f[i] = go[i][f[i - 1]]
  <2>1. PICK f : Follows(f, n, T, a, go)
    BY <1>1, <1>2, <1>4, RecursionExists
  <2> QED BY <2>1 DEF Follows
<1>6. \A i \in 1..n : f[i] = Copied(f[i - 1], bks[i - 1], m)
  <2> SUFFICES ASSUME NEW i \in 1..n PROVE f[i] = Copied(f[i - 1], bks[i - 1], m)
    OBVIOUS
  <2>1. f[i - 1] \in T
    <3>1. i - 1 \in 0..n
      BY <1>1
    <3> QED BY <1>5, <3>1
  <2> QED BY <1>4, <1>5, <2>1
<1>7. f = D(f)
  BY <1>1, <1>5, <1>6
<1>8. e = D(e)
  <2> HIDE DEF D
  <2> QED BY <1>7
<1>9. Rehashed(bks, m) = e[n]
  BY <1>1 DEF Rehashed, a
<1> HIDE DEF e
<1>10. e[0] = a
  BY <1>1, <1>8
<1>11. ASSUME NEW k \in 0..(n - 1) PROVE e[k + 1] = Copied(e[k], bks[k], m)
  <2>1. k + 1 \in 0..n /\ k + 1 # 0 /\ (k + 1) - 1 = k
    BY <1>1
  <2> QED BY <1>8, <2>1
<1> QED BY <1>9, <1>10, <1>11 DEF a

\* Rehashing into a table with room for all strings keeps them, and all can be reached.
LEMMA RehashedIs ==
  ASSUME NEW bks, NEW n, NEW buf, NEW at, Paired(bks, n, buf, at, 1..Len(buf)),
         NEW m \in Nat, Len(buf) <= m
  PROVE  /\ \E at2 : Paired(Rehashed(bks, m), m, buf, at2, 1..Len(buf))
         /\ Reachable(Rehashed(bks, m), m)
<1>0. Table(bks, n) /\ n \in Nat /\ buf \in Seq(String) /\ at \in [0..(n - 1) -> (1..Len(buf)) \cup {0}]
  BY DEF Paired, Table
<1>1. PICK f : /\ f[0] = Resized(<<>>, m)
               /\ \A k \in 0..(n - 1) : f[k + 1] = Copied(f[k], bks[k], m)
               /\ Rehashed(bks, m) = f[n]
  BY <1>0, RehashedSteps
<1> DEFINE S == {k \in Nat : k <= n => Filled(f[k], m, buf, at, k)}
<1>2. 0 \in S
  <2>1. \A b \in 0..(m - 1) : b \in DOMAIN <<>> => <<>>[b] = FreeNode
    OBVIOUS
  <2>2. Paired(f[0], m, buf, [b \in 0..(m - 1) |-> 0], {}) /\ Reachable(f[0], m)
    BY <1>0, <1>1, <2>1, ResizedIs
  <2>3. Places(at, 0) = {}
    BY DEF Places
  <2> QED BY <2>2, <2>3 DEF Filled
<1>3. ASSUME NEW k \in Nat, k \in S PROVE k + 1 \in S
  <2> SUFFICES ASSUME k + 1 <= n PROVE Filled(f[k + 1], m, buf, at, k + 1)
    OBVIOUS
  <2>1. k \in 0..(n - 1) /\ k <= n
    BY <1>0
  <2>2. Filled(f[k], m, buf, at, k)
    <3>1. k <= n => Filled(f[k], m, buf, at, k)
      BY <1>3
    <3> QED BY <2>1, <3>1
  <2> QED BY <1>1, <2>1, <2>2, CopiedIs
<1> HIDE DEF S
<1>4. \A k \in Nat : k \in S
  BY <1>2, <1>3, SetInduction
<1>5. Filled(Rehashed(bks, m), m, buf, at, n)
  BY <1>0, <1>1, <1>4 DEF S
<1>6. Places(at, n) = 1..Len(buf)
  <2>1. Places(at, n) \in SUBSET (1..Len(buf))
    BY <1>0 DEF Places
  <2>2. \A i \in 1..Len(buf) : i # 0 /\ \E c \in 0..(n - 1) : at[c] = i
    BY DEF Paired
  <2>3. \A i \in 1..Len(buf) : i \in Places(at, n)
    BY <2>2 DEF Places
  <2> QED BY <2>1, <2>3
<1> QED BY <1>5, <1>6 DEF Filled

-----------------------------------------------------------------------------
(* What the operations do to searches *)

Sound(bks, n, buf) == \E at : Paired(bks, n, buf, at, 1..Len(buf))

Distinct(buf) == \A i, j \in 1..Len(buf) : buf[i] = buf[j] => i = j

\* The search for s arrives at it.
Finds(bks, buf, s) == s \in At(buf, bks[StopFor(bks, buf, s)].offset)

LEMMA SoundIs ==
  ASSUME NEW bks, NEW n, NEW buf, Sound(bks, n, buf)
  PROVE  /\ Table(bks, n) /\ n \in Nat /\ Count(bks) = n
         /\ buf \in Seq(String) /\ Len(buf) \in Nat /\ DOMAIN buf = 1..Len(buf)
         /\ Cardinality(Used(bks)) = Len(buf) /\ Len(buf) <= n
<1>1. PICK at : Paired(bks, n, buf, at, 1..Len(buf))
  BY DEF Sound
<1>2. Table(bks, n) /\ n \in Nat /\ buf \in Seq(String) /\ Len(buf) \in Nat /\ DOMAIN buf = 1..Len(buf)
  <2>1. Table(bks, n) /\ buf \in Seq(String)
    BY <1>1 DEF Paired
  <2> QED BY <2>1 DEF Table
<1>3. Cardinality(1..Len(buf)) = Len(buf)
  <2>1. 1 \in Int /\ Len(buf) \in Int
    BY <1>2
  <2>2. Cardinality(1..Len(buf)) = IF 1 > Len(buf) THEN 0 ELSE Len(buf) - 1 + 1
    BY <2>1, FS_Interval
  <2> QED BY <1>2, <2>2
<1>4. Cardinality(Used(bks)) = Cardinality(1..Len(buf)) /\ Cardinality(1..Len(buf)) <= n
  BY <1>1, UsedIs
<1>5. Count(bks) = n
  BY <1>2, CountIs
<1> QED BY <1>2, <1>3, <1>4, <1>5

\* A search for s that ends at b.
Searched(bks, n, buf, at, s, b) ==
  LET stops == StopsOf(n, buf, at, s)
  IN  /\ b = Probe(Hash[s], n, stops) /\ b \in 0..(n - 1)
      /\ stops # {} => b \in stops /\ Probed(Hash[s], n, b, stops)
      /\ Finds(bks, buf, s) <=> at[b] # 0 /\ s = buf[at[b]]

LEMMA SearchIs ==
  ASSUME NEW bks, NEW n, n # 0, NEW buf, NEW at, Paired(bks, n, buf, at, 1..Len(buf)), NEW s \in String
  PROVE  Searched(bks, n, buf, at, s, StopFor(bks, buf, s))
<1>1. n \in Nat \ {0}
  BY DEF Paired, Table
<1>2. \A b \in 0..(n - 1) : s \in At(buf, bks[b].offset) <=> at[b] # 0 /\ s = buf[at[b]]
  <2> DEFINE I == 1..Len(buf)
  <2>1. Paired(bks, n, buf, at, I)
    OBVIOUS
  <2> HIDE DEF I
  <2> QED BY ONLY <2>1, AtIs
<1> DEFINE p == StopFor(bks, buf, s)
           stops == StopsOf(n, buf, at, s)
<1>3. p = Probe(Hash[s], n, stops)
  BY StopForIs
<1>4. Hash[s] \in Nat /\ stops \in SUBSET (0..(n - 1))
  BY HashAssumption DEF StopsOf
<1>5. Finds(bks, buf, s) <=> s \in At(buf, bks[p].offset)
  BY DEF Finds
<1> HIDE DEF p, stops
<1>6. p \in 0..(n - 1) /\ (stops # {} => p \in stops /\ Probed(Hash[s], n, p, stops))
  BY <1>1, <1>3, <1>4, ProbeIs
<1>7. s \in At(buf, bks[p].offset) <=> at[p] # 0 /\ s = buf[at[p]]
  BY <1>2, <1>6
<1> QED BY <1>3, <1>5, <1>6, <1>7 DEF Searched, p, stops

\* What can be reached is found.
LEMMA ReachableFound ==
  ASSUME NEW bks, NEW n, NEW buf, Sound(bks, n, buf), Reachable(bks, n), NEW i \in 1..Len(buf)
  PROVE  Finds(bks, buf, buf[i])
<1>1. PICK at : Paired(bks, n, buf, at, 1..Len(buf))
  BY DEF Sound
<1> DEFINE s == buf[i]
           free == FreeOf(bks, n)
           held == {b \in 0..(n - 1) : at[b] # 0 /\ s = buf[at[b]]}
<1>2. /\ n \in Nat /\ Table(bks, n) /\ buf \in Seq(String) /\ Len(buf) \in Nat
      /\ s \in String /\ Hash[s] \in Nat
  <2>1. n \in Nat /\ Table(bks, n) /\ buf \in Seq(String) /\ Len(buf) \in Nat
    BY SoundIs
  <2>2. s \in String
    BY <2>1
  <2> QED BY <2>1, <2>2, HashAssumption
<1>3. PICK b \in 0..(n - 1) : at[b] = i
  BY <1>1 DEF Paired
<1>4. n \in Nat \ {0} /\ i # 0
  BY <1>2
<1>5. \A c \in 0..(n - 1) : bks[c].offset = -1 <=> at[c] = 0
  BY <1>1, PairedIs
<1>6. bks[b].hash = Hash[s] /\ bks[b].offset # -1
  <2>1. bks[b] = NodeOf(buf, i)
    BY <1>1, <1>3, <1>4, PairedIs
  <2> QED BY <1>2, <1>3, <1>4, <1>5, <2>1, NodeOfIs
<1>7. free \in SUBSET (0..(n - 1)) /\ held \in SUBSET (0..(n - 1)) /\ b \in held /\ b \notin free
  BY <1>3, <1>4, <1>6 DEF FreeOf
<1>8. Probed(Hash[s], n, b, free)
  BY <1>6 DEF Reachable
<1>9. free \cup held = StopsOf(n, buf, at, s)
  BY <1>5 DEF FreeOf, StopsOf
<1> HIDE DEF free, held
<1>10. Probe(Hash[s], n, free \cup held) \in held
  BY <1>2, <1>4, <1>7, <1>8, ProbedFound
<1> HIDE DEF s
<1>11. Finds(bks, buf, s)
  <2>1. StopFor(bks, buf, s) = Probe(Hash[s], n, free \cup held)
    <3>1. StopFor(bks, buf, s) = Probe(Hash[s], n, StopsOf(n, buf, at, s))
      BY <1>1, StopForIs
    <3> QED BY <1>9, <3>1
  <2>2. at[StopFor(bks, buf, s)] # 0 /\ s = buf[at[StopFor(bks, buf, s)]]
    BY <1>10, <2>1 DEF held
  <2>3. Searched(bks, n, buf, at, s, StopFor(bks, buf, s))
    BY <1>1, <1>2, <1>4, SearchIs
  <2> QED BY <2>2, <2>3 DEF Searched
<1> QED BY <1>11 DEF s

\* What insert() does to a table with room, when the string is not found.
LEMMA PlacedIs ==
  ASSUME NEW bks, NEW n, NEW buf, Sound(bks, n, buf), Len(buf) < n, NEW s \in String,
         bks[StopFor(bks, buf, s)].offset = -1
  PROVE  LET b == StopFor(bks, buf, s)
             new == Put(bks, b, [offset |-> End(buf, Len(buf)), hash |-> Hash[s]])
             q == Append(buf, s)
         IN  /\ Sound(new, n, q) /\ Finds(new, q, s)
             /\ Reachable(bks, n) => Reachable(new, n)
             /\ Reachable(bks, n) /\ Distinct(buf) => Distinct(q)
<1> DEFINE b == StopFor(bks, buf, s)
           q == Append(buf, s)
           i == Len(buf) + 1
           new == Put(bks, b, [offset |-> End(buf, Len(buf)), hash |-> Hash[s]])
<1>1. PICK at : Paired(bks, n, buf, at, 1..Len(buf))
  BY DEF Sound
<1> DEFINE at2 == Put(at, b, i)
           stops == StopsOf(n, buf, at, s)
<1>2. /\ Table(bks, n) /\ n \in Nat /\ n # 0 /\ buf \in Seq(String) /\ Len(buf) \in Nat
      /\ at \in [0..(n - 1) -> (1..Len(buf)) \cup {0}]
  <2>1. Table(bks, n) /\ n \in Nat /\ buf \in Seq(String) /\ Len(buf) \in Nat
    BY SoundIs
  <2>2. at \in [0..(n - 1) -> (1..Len(buf)) \cup {0}]
    BY <1>1 DEF Paired
  <2> QED BY <2>1, <2>2
<1>3. /\ b = Probe(Hash[s], n, stops) /\ b \in 0..(n - 1)
      /\ stops # {} => b \in stops /\ Probed(Hash[s], n, b, stops)
      /\ Finds(bks, buf, s) <=> at[b] # 0 /\ s = buf[at[b]]
  <2>1. Searched(bks, n, buf, at, s, b)
    BY <1>1, <1>2, SearchIs
  <2> QED BY <2>1 DEF Searched
<1>4. bks[b].offset = -1
  OBVIOUS
<1>5. /\ q \in Seq(String) /\ Len(q) = i /\ i \in 1..Len(q) /\ i \notin 1..Len(buf) /\ i # 0
      /\ q[i] = s /\ \A j \in 1..Len(buf) : q[j] = buf[j]
      /\ 1..Len(q) = (1..Len(buf)) \cup {i}
  BY <1>2
<1> HIDE DEF b
<1>6. at[b] = 0
  BY <1>1, <1>3, <1>4, PairedIs
<1>7. Paired(bks, n, q, at, 1..Len(buf)) /\ new = Put(bks, b, NodeOf(q, i))
  BY <1>1, AppendPaired
<1> HIDE DEF q, i, new
<1>8. Paired(new, n, q, at2, 1..Len(q))
  <2>1. Paired(Put(bks, b, NodeOf(q, i)), n, q, Put(at, b, i), (1..Len(buf)) \cup {i})
    BY <1>3, <1>5, <1>6, <1>7, PutPaired
  <2> QED BY <1>5, <1>7, <2>1
<1>9. Sound(new, n, q)
  BY <1>8 DEF Sound
<1>10. at2[b] = i /\ \A c \in 0..(n - 1) : c # b => at2[c] = at[c]
  BY <1>2, <1>3 DEF Put
<1> HIDE DEF at2
<1>11. StopsOf(n, q, at2, s) = stops
  <2> SUFFICES ASSUME NEW c \in 0..(n - 1)
               PROVE  at2[c] = 0 \/ s = q[at2[c]] <=> at[c] = 0 \/ s = buf[at[c]]
    BY DEF StopsOf
  <2>1. CASE c = b
    BY <1>5, <1>6, <1>10, <2>1
  <2>2. CASE c # b
    <3>1. at[c] = 0 \/ q[at[c]] = buf[at[c]]
      BY <1>2, <1>5
    <3> QED BY <1>10, <2>2, <3>1
  <2> QED BY <2>1, <2>2
<1>12. Finds(new, q, s)
  <2>1. StopFor(new, q, s) = b
    BY <1>3, <1>8, <1>11, StopForIs
  <2>2. Searched(new, n, q, at2, s, b)
    BY <1>2, <1>8, <2>1, SearchIs
  <2> QED BY <1>5, <1>10, <2>2 DEF Searched
<1>13. ASSUME Reachable(bks, n) PROVE Reachable(new, n)
  <2>1. FreeOf(bks, n) \in SUBSET stops /\ stops # {}
    <3>1. \A c \in 0..(n - 1) : bks[c].offset = -1 <=> at[c] = 0
      BY <1>1, PairedIs
    <3> QED BY <1>3, <1>6, <3>1 DEF FreeOf, StopsOf
  <2>2. NodeOf(q, i) \in Node /\ NodeOf(q, i).offset # -1 /\ NodeOf(q, i).hash = Hash[s]
    <3>1. NodeOf(q, i) \in Node /\ NodeOf(q, i).offset \in Nat /\ NodeOf(q, i).hash = Hash[s]
      BY <1>5, NodeOfIs
    <3> QED BY <3>1
  <2>3. Probed(NodeOf(q, i).hash, n, b, stops)
    BY <1>3, <2>1, <2>2
  <2> QED BY <1>2, <1>3, <1>7, <1>13, <2>1, <2>2, <2>3, PutReachable
<1>14. ASSUME Reachable(bks, n), Distinct(buf) PROVE Distinct(q)
  <2>1. \A j \in 1..Len(buf) : buf[j] # s
    <3> SUFFICES ASSUME NEW j \in 1..Len(buf), buf[j] = s PROVE FALSE
      OBVIOUS
    <3>1. Finds(bks, buf, buf[j])
      BY <1>14, ReachableFound
    <3> QED BY <1>3, <1>6, <3>1
  <2> SUFFICES ASSUME NEW j \in 1..Len(q), NEW k \in 1..Len(q), q[j] = q[k] PROVE j = k
    BY DEF Distinct
  <2>2. CASE j \in 1..Len(buf) /\ k \in 1..Len(buf)
    BY <1>5, <1>14, <2>2 DEF Distinct
  <2>3. CASE j = i /\ k \in 1..Len(buf)
    BY <1>5, <2>1, <2>3
  <2>4. CASE k = i /\ j \in 1..Len(buf)
    BY <1>5, <2>1, <2>4
  <2> QED BY <1>5, <2>2, <2>3, <2>4
<1> QED BY <1>9, <1>12, <1>13, <1>14 DEF b, new, q

\* What erase() does to a table.
LEMMA ErasedIs ==
  ASSUME NEW bks, NEW n, NEW buf, Sound(bks, n, buf), NEW i \in 1..Len(buf)
  PROVE  LET new == Shifted(bks, Start(buf, i), buf[i])
             q == RemoveAt(buf, i)
         IN  /\ Sound(new, n, q) /\ Len(q) = Len(buf) - 1
             /\ \A s \in String :
                  /\ Finds(bks, buf, s)
                  /\ Start(buf, i) = bks[StopFor(bks, buf, s)].offset
                  => ~Finds(new, q, s)
<1> DEFINE new == Shifted(bks, Start(buf, i), buf[i])
           q == RemoveAt(buf, i)
<1>1. PICK at : Paired(bks, n, buf, at, 1..Len(buf))
  BY DEF Sound
<1> DEFINE at2 == [b \in 0..(n - 1) |-> IF at[b] = i THEN 0 ELSE IF at[b] > i THEN at[b] - 1 ELSE at[b]]
<1>2. /\ Table(bks, n) /\ n \in Nat /\ n # 0 /\ buf \in Seq(String) /\ Len(buf) \in Nat
      /\ i \in DOMAIN buf /\ at \in [0..(n - 1) -> (1..Len(buf)) \cup {0}]
  <2>1. Table(bks, n) /\ n \in Nat /\ buf \in Seq(String) /\ Len(buf) \in Nat /\ Len(buf) <= n
    BY SoundIs
  <2>2. at \in [0..(n - 1) -> (1..Len(buf)) \cup {0}]
    BY <1>1 DEF Paired
  <2> QED BY <2>1, <2>2
<1>3. Paired(new, n, q, at2, 1..Len(q))
  BY <1>1, ErasePaired
<1>4. Len(q) = Len(buf) - 1 /\ \A j \in 1..(Len(buf) - 1) : q[j] = buf[IF j < i THEN j ELSE j + 1]
  BY <1>2, RemoveAtIs
<1>5. \A b \in 0..(n - 1) : at2[b] = IF at[b] = i THEN 0 ELSE IF at[b] > i THEN at[b] - 1 ELSE at[b]
  OBVIOUS
<1> HIDE DEF new, q, at2
<1>6. ASSUME NEW s \in String, Finds(bks, buf, s), Start(buf, i) = bks[StopFor(bks, buf, s)].offset
      PROVE  ~Finds(new, q, s)
  <2> DEFINE b == StopFor(bks, buf, s)
             stops == StopsOf(n, buf, at, s)
  <2>1. b = Probe(Hash[s], n, stops) /\ b \in 0..(n - 1) /\ at[b] # 0 /\ s = buf[at[b]]
    <3>1. Searched(bks, n, buf, at, s, b)
      BY <1>1, <1>2, SearchIs
    <3> QED BY <1>6, <3>1 DEF Searched
  <2>2. Start(buf, i) = bks[b].offset
    BY <1>6
  <2> HIDE DEF b
  <2>3. at[b] = i
    <3>1. at[b] \in 1..Len(buf) /\ bks[b] = NodeOf(buf, at[b])
      BY <1>1, <2>1, PairedIs
    <3>2. bks[b].offset = Start(buf, at[b])
      BY <1>2, <3>1, NodeOfIs
    <3> QED BY <1>2, <2>2, <3>1, <3>2, StartDiffers
  <2>4. StopsOf(n, q, at2, s) = stops
    <3> SUFFICES ASSUME NEW c \in 0..(n - 1)
                 PROVE  at2[c] = 0 \/ s = q[at2[c]] <=> at[c] = 0 \/ s = buf[at[c]]
      BY DEF StopsOf
    <3>0. at[c] \in (1..Len(buf)) \cup {0} /\ i \in 1..Len(buf)
      BY <1>2
    <3>1. CASE at[c] = i
      BY <1>5, <2>1, <2>3, <3>1
    <3>2. CASE at[c] < i
      <4>1. at2[c] = at[c] /\ (at[c] = 0 \/ at[c] \in 1..(Len(buf) - 1))
        BY <1>2, <1>5, <3>0, <3>2
      <4>2. at[c] = 0 \/ q[at[c]] = buf[at[c]]
        BY <1>4, <3>2, <4>1
      <4> QED BY <4>1, <4>2
    <3>3. CASE at[c] > i
      <4>1. at[c] \in 1..Len(buf) /\ at[c] # i
        BY <3>0, <3>3
      <4>2. at2[c] = at[c] - 1
        BY <1>5, <3>3, <4>1
      <4>3. at[c] - 1 \in 1..(Len(buf) - 1) /\ ~(at[c] - 1 < i) /\ (at[c] - 1) + 1 = at[c]
            /\ at[c] - 1 # 0 /\ at[c] # 0
        BY <1>2, <3>0, <3>3, <4>1
      <4>4. q[at[c] - 1] = buf[at[c]]
        BY <1>4, <4>3
      <4> QED BY <4>2, <4>3, <4>4
    <3> QED BY <3>0, <3>1, <3>2, <3>3
  <2>5. StopFor(new, q, s) = b
    BY <1>3, <2>1, <2>4, StopForIs
  <2>6. at2[b] = 0
    BY <1>5, <2>1, <2>3
  <2>7. Searched(new, n, q, at2, s, b)
    BY <1>2, <1>3, <2>5, SearchIs
  <2> QED BY <2>6, <2>7 DEF Searched
<1>7. Sound(new, n, q)
  BY <1>3 DEF Sound
<1> QED BY <1>4, <1>6, <1>7 DEF new, q

-----------------------------------------------------------------------------
(* The invariant *)

\* Buffer and table describe the same strings; without erasures each can be reached, and
\* none is there twice.
IInv ==
  /\ size = Len(buffer) /\ erases \in BOOLEAN
  /\ Sound(buckets, Count(buckets), buffer)
  /\ ~erases => Reachable(buckets, Count(buckets)) /\ Distinct(buffer)

\* What an operation does to the table of n buckets: strings that can be reached still can,
\* all of them in a table that has grown.
Kept(bks, n, new, m) ==
  /\ Reachable(bks, n) => Reachable(new, m)
  /\ m > n /\ size > 0 => Reachable(new, m)

\* A table that find() is called on.
LEMMA FoundIs == \A s : Found(s) <=> size > 0 /\ Finds(buckets, buffer, s)
BY DEF Found, Finds

LEMMA EmptyIs ==
  ASSUME NEW bks, NEW n, NEW buf, Sound(bks, n, buf), Len(buf) = 0, NEW m \in Nat
  PROVE  Sound(Resized(bks, m), m, buf) /\ Reachable(Resized(bks, m), m)
<1>1. PICK at : Paired(bks, n, buf, at, 1..Len(buf))
  BY DEF Sound
<1>2. buf \in Seq(String) /\ Table(bks, n) /\ 1..Len(buf) = {} /\ DOMAIN bks = 0..(n - 1)
  <2>1. buf \in Seq(String) /\ Table(bks, n)
    BY SoundIs
  <2> QED BY <2>1, CountIs
<1>3. \A b \in 0..(m - 1) : b \in DOMAIN bks => bks[b] = FreeNode
  <2>1. \A b \in 0..(n - 1) : at[b] = 0
    BY <1>1, <1>2 DEF Paired
  <2>2. \A b \in 0..(n - 1) : bks[b] = FreeNode
    BY <1>1, <2>1 DEF Paired
  <2> QED BY <1>2, <2>2
<1>4. Paired(Resized(bks, m), m, buf, [b \in 0..(m - 1) |-> 0], {}) /\ Reachable(Resized(bks, m), m)
  BY <1>2, <1>3, ResizedIs
<1> QED BY <1>2, <1>4 DEF Sound

LEMMA RehashedSound ==
  ASSUME NEW bks, NEW n, NEW buf, Sound(bks, n, buf), NEW m \in Nat, Len(buf) <= m
  PROVE  Sound(Rehashed(bks, m), m, buf) /\ Reachable(Rehashed(bks, m), m)
<1>1. PICK at : Paired(bks, n, buf, at, 1..Len(buf))
  BY DEF Sound
<1>2. /\ \E at2 : Paired(Rehashed(bks, m), m, buf, at2, 1..Len(buf))
      /\ Reachable(Rehashed(bks, m), m)
  BY <1>1, RehashedIs
<1> QED BY <1>2 DEF Sound

\* The table in which insert() looks has room.
LEMMA RoomyIs ==
  ASSUME IInv
  PROVE  LET m == Count(Roomy)
         IN  /\ Sound(Roomy, m, buffer) /\ Len(buffer) < m
             /\ Kept(buckets, Count(buckets), Roomy, m)
<1> DEFINE n == Count(buckets)
<1>1. Sound(buckets, n, buffer) /\ size = Len(buffer)
  BY DEF IInv
<1> HIDE DEF n
<1>2. n \in Nat /\ Len(buffer) \in Nat /\ Len(buffer) <= n
  BY <1>1, SoundIs
<1>3. CASE n = 0
  <2>1. Roomy = Resized(buckets, 16)
    BY <1>3 DEF Roomy, DefaultBuckets, n
  <2>2. Len(buffer) = 0
    BY <1>2, <1>3
  <2>3. Sound(Roomy, 16, buffer) /\ Reachable(Roomy, 16)
    BY <1>1, <2>1, <2>2, EmptyIs
  <2>4. Count(Roomy) = 16
    BY <2>3, SoundIs
  <2> QED BY <2>2, <2>3, <2>4 DEF Kept
<1>4. CASE n # 0 /\ Overloaded
  <2>1. Roomy = Rehashed(buckets, 2 * n)
    BY <1>4 DEF Roomy, n
  <2>2. 2 * n \in Nat /\ Len(buffer) <= 2 * n /\ Len(buffer) < 2 * n
    BY <1>2, <1>4
  <2>3. Sound(Roomy, 2 * n, buffer) /\ Reachable(Roomy, 2 * n)
    BY <1>1, <2>1, <2>2, RehashedSound
  <2>4. Count(Roomy) = 2 * n
    BY <2>3, SoundIs
  <2> QED BY <2>2, <2>3, <2>4 DEF Kept
<1>5. CASE n # 0 /\ ~Overloaded
  <2>1. Roomy = buckets
    BY <1>5 DEF Roomy, n
  <2>2. Len(buffer) < n
    <3>1. ~(5 * Len(buffer) > 4 * n)
      BY <1>1, <1>5 DEF Overloaded, n
    <3> QED BY <1>2, <1>5, <3>1
  <2>3. Count(Roomy) = n /\ ~(n > n)
    BY <1>2, <2>1 DEF n
  <2> QED BY <1>1, <2>1, <2>2, <2>3 DEF Kept, n
<1> QED BY <1>3, <1>4, <1>5 DEF n

\* An insert: the string is found, what was kept is kept, and the invariant holds.
LEMMA InsertIs ==
  ASSUME IInv, NEW s \in String, Insert(s)
  PROVE  /\ size' = Len(buffer') /\ size' > 0
         /\ Sound(buckets', Count(buckets'), buffer') /\ Finds(buckets', buffer', s)
         /\ Kept(buckets, Count(buckets), buckets', Count(buckets'))
         /\ Reachable(buckets, Count(buckets)) /\ Distinct(buffer) => Distinct(buffer')
<1> DEFINE bks == Roomy
           n == Count(buckets)
           m == Count(bks)
           b == StopFor(bks, buffer, s)
           node == [offset |-> End(buffer, Len(buffer)), hash |-> Hash[s]]
<1>1. /\ Sound(bks, m, buffer) /\ Len(buffer) < m /\ Kept(buckets, n, bks, m)
      /\ size = Len(buffer)
  BY RoomyIs DEF IInv
<1>2. buffer \in Seq(String) /\ Len(buffer) \in Nat /\ m \in Nat /\ m # 0
  <2>1. buffer \in Seq(String) /\ Len(buffer) \in Nat /\ m \in Nat
    BY <1>1, SoundIs
  <2> QED BY <1>1, <2>1
<1>3. \/ /\ bks[b].offset = -1
         /\ buckets' = Put(bks, b, node) /\ buffer' = Append(buffer, s) /\ size' = size + 1
      \/ /\ bks[b].offset # -1
         /\ buckets' = bks /\ buffer' = buffer /\ size' = size
  BY DEF Insert, Put
<1> HIDE DEF bks, n, m, b
<1>4. CASE bks[b].offset = -1
  <2>1. buckets' = Put(bks, b, node) /\ buffer' = Append(buffer, s) /\ size' = size + 1
    BY <1>3, <1>4
  <2>2. bks[StopFor(bks, buffer, s)].offset = -1
    BY <1>4 DEF b
  <2>3. /\ Sound(buckets', m, buffer') /\ Finds(buckets', buffer', s)
        /\ Reachable(bks, m) => Reachable(buckets', m)
        /\ Reachable(bks, m) /\ Distinct(buffer) => Distinct(buffer')
    BY <1>1, <2>1, <2>2, PlacedIs DEF b
  <2>4. Count(buckets') = m
    BY <2>3, SoundIs
  <2>5. size' = Len(buffer') /\ size' > 0
    BY <1>1, <1>2, <2>1
  <2> HIDE DEF node
  <2>6. Kept(buckets, n, buckets', m)
    BY <1>1, <2>3 DEF Kept
  <2>7. Reachable(buckets, n) /\ Distinct(buffer) => Distinct(buffer')
    BY <1>1, <2>3 DEF Kept
  <2> QED BY <2>3, <2>4, <2>5, <2>6, <2>7 DEF n
<1>5. CASE bks[b].offset # -1
  <2>1. buckets' = bks /\ buffer' = buffer /\ size' = size
    BY <1>3, <1>5
  <2>2. PICK at : Paired(bks, m, buffer, at, 1..Len(buffer))
    BY <1>1 DEF Sound
  <2>3. Searched(bks, m, buffer, at, s, b)
    BY <1>2, <2>2, SearchIs DEF b
  <2>4. b \in 0..(m - 1) /\ at[b] # 0
    <3>1. b \in 0..(m - 1)
      BY <2>3 DEF Searched
    <3> QED BY <1>5, <2>2, <3>1, PairedIs
  <2>5. s = buffer[at[b]]
    <3>1. b \in StopsOf(m, buffer, at, s)
      <4>1. PICK c \in 0..(m - 1) : at[c] = 0
        <5>1. Cardinality(Used(bks)) < m
          BY <1>1, SoundIs
        <5> QED BY <2>2, <5>1, UsedIs
      <4>2. c \in StopsOf(m, buffer, at, s)
        BY <4>1 DEF StopsOf
      <4> QED BY <2>3, <4>2 DEF Searched
    <3> QED BY <2>4, <3>1 DEF StopsOf
  <2>6. Finds(bks, buffer, s)
    BY <2>3, <2>4, <2>5 DEF Searched
  <2>7. size > 0
    <3>1. at[b] \in 1..Len(buffer)
      BY <2>2, <2>4, PairedIs
    <3> QED BY <1>1, <1>2, <3>1
  <2>8. Count(buckets') = m
    BY <2>1 DEF m
  <2> QED BY <1>1, <2>1, <2>6, <2>7, <2>8 DEF n
<1> QED BY <1>4, <1>5

\* The place that a search arrives at is in the buffer, and erasing it is not found again.
LEMMA EraseIs ==
  ASSUME IInv, NEW i \in DOMAIN buffer, EraseAt(i)
  PROVE  /\ erases /\ size' = Len(buffer')
         /\ Sound(buckets', Count(buckets), buffer') /\ Count(buckets') = Count(buckets)
         /\ \A s \in String :
              /\ Finds(buckets, buffer, s)
              /\ End(buffer, i - 1) = buckets[StopFor(buckets, buffer, s)].offset
              => ~Finds(buckets', buffer', s)
<1> DEFINE n == Count(buckets)
<1>1. Sound(buckets, n, buffer) /\ size = Len(buffer)
  BY DEF IInv
<1>2. buffer \in Seq(String) /\ Len(buffer) \in Nat /\ i \in 1..Len(buffer)
  BY <1>1, SoundIs
<1> HIDE DEF n
<1>3. /\ erases /\ size' = size - 1
      /\ buckets' = Shifted(buckets, Start(buffer, i), buffer[i])
      /\ buffer' = RemoveAt(buffer, i)
  BY DEF EraseAt, Start
<1>4. /\ Sound(buckets', n, buffer') /\ Len(buffer') = Len(buffer) - 1
      /\ \A s \in String :
           /\ Finds(buckets, buffer, s)
           /\ Start(buffer, i) = buckets[StopFor(buckets, buffer, s)].offset
           => ~Finds(buckets', buffer', s)
  BY <1>1, <1>2, <1>3, ErasedIs
<1>5. Count(buckets') = n
  BY <1>4, SoundIs
<1> QED BY <1>1, <1>3, <1>4, <1>5 DEF Start, n

LEMMA ReserveIs ==
  ASSUME IInv, NEW n \in Nat, Reserve(n)
  PROVE  /\ size' = size /\ buffer' = buffer
         /\ Sound(buckets', Count(buckets'), buffer')
         /\ Kept(buckets, Count(buckets), buckets', Count(buckets'))
<1>1. Sound(buckets, Count(buckets), buffer) /\ size = Len(buffer) /\ size' = size /\ buffer' = buffer
  BY DEF IInv, Reserve
<1>2. Count(buckets) \in Nat /\ Len(buffer) \in Nat /\ Len(buffer) <= Count(buckets)
  BY <1>1, SoundIs
<1>3. Sound(buckets', n, buffer) /\ Reachable(buckets', n)
  <2>1. CASE size = 0 /\ buckets' = Resized(buckets, n)
    <3>1. Len(buffer) = 0
      BY <1>1, <2>1
    <3> QED BY <1>1, <2>1, <3>1, EmptyIs
  <2>2. CASE 4 * n > 5 * Count(buckets) /\ buckets' = Rehashed(buckets, n)
    <3>1. Len(buffer) <= n
      BY <1>2, <2>2
    <3> QED BY <1>1, <2>2, <3>1, RehashedSound
  <2> QED BY <2>1, <2>2 DEF Reserve
<1>4. Count(buckets') = n
  BY <1>3, SoundIs
<1> QED BY <1>1, <1>3, <1>4 DEF Kept

\* No buckets for no strings.
LEMMA EmptySound == Sound(<<>>, 0, <<>>) /\ Reachable(<<>>, 0) /\ Distinct(<<>>)
<1> DEFINE at == [b \in 0..(0 - 1) |-> 0]
<1>1. 0..(0 - 1) = {} /\ 1..Len(<<>>) = {} /\ <<>> \in Seq(String)
  OBVIOUS
<1>2. Table(<<>>, 0)
  BY DEF Table
<1>3. Paired(<<>>, 0, <<>>, at, 1..Len(<<>>))
  BY <1>1, <1>2 DEF Paired
<1> QED BY <1>1, <1>3 DEF Sound, Reachable, Distinct

LEMMA InitIInv == Init => IInv
<1> SUFFICES ASSUME Init PROVE IInv
  OBVIOUS
<1>1. buffer = <<>> /\ buckets = <<>> /\ size = 0 /\ erases \in BOOLEAN
  BY DEF Init
<1>2. Sound(<<>>, 0, <<>>) /\ Reachable(<<>>, 0) /\ Distinct(<<>>)
  BY EmptySound
<1>3. Count(<<>>) = 0
  BY <1>2, SoundIs
<1> QED BY <1>1, <1>2, <1>3 DEF IInv

LEMMA NextIInv == IInv /\ [Next]_vars => IInv'
<1> SUFFICES ASSUME IInv, [Next]_vars PROVE IInv'
  OBVIOUS
<1>1. ASSUME NEW s \in String, Insert(s), erases' = erases PROVE IInv'
  <2>1. /\ size' = Len(buffer')
        /\ Sound(buckets', Count(buckets'), buffer')
        /\ Kept(buckets, Count(buckets), buckets', Count(buckets'))
        /\ Reachable(buckets, Count(buckets)) /\ Distinct(buffer) => Distinct(buffer')
    BY <1>1, InsertIs
  <2> QED BY <1>1, <2>1 DEF IInv, Kept
<1>2. ASSUME NEW i \in DOMAIN buffer, EraseAt(i), erases' = erases PROVE IInv'
  <2>1. erases /\ size' = Len(buffer') /\ Sound(buckets', Count(buckets), buffer') /\ Count(buckets') = Count(buckets)
    BY <1>2, EraseIs
  <2> QED BY <1>2, <2>1 DEF IInv
<1>3. ASSUME Clear, erases' = erases PROVE IInv'
  <2>1. buffer' = <<>> /\ buckets' = <<>> /\ size' = 0
    BY <1>3 DEF Clear
  <2>2. Sound(<<>>, 0, <<>>) /\ Reachable(<<>>, 0) /\ Distinct(<<>>)
    BY EmptySound
  <2>3. Count(<<>>) = 0
    BY <2>2, SoundIs
  <2> QED BY <1>3, <2>1, <2>2, <2>3 DEF IInv
<1>4. ASSUME NEW n \in 0..MaxReserve, Reserve(n), erases' = erases PROVE IInv'
  <2>1. n \in Nat
    BY BoundAssumption
  <2>2. /\ size' = size /\ buffer' = buffer
        /\ Sound(buckets', Count(buckets'), buffer')
        /\ Kept(buckets, Count(buckets), buckets', Count(buckets'))
    BY <1>4, <2>1, ReserveIs
  <2> QED BY <1>4, <2>2 DEF IInv, Kept
<1>5. CASE UNCHANGED vars
  BY <1>5 DEF vars, IInv
<1>6. ASSUME NEW s \in String, Erase(s), erases' = erases PROVE IInv'
  BY <1>2, <1>6 DEF Erase
<1> QED BY <1>1, <1>2, <1>3, <1>4, <1>5, <1>6 DEF Next

-----------------------------------------------------------------------------
(* The properties *)

LEMMA Invariance == Spec => []IInv
BY InitIInv, NextIInv, PTL DEF Spec

\* Buffer and table always describe the same strings: each node points to the start of one
\* string and has its hash, each string has one node, and size() counts them.
THEOREM BufferAndTableAgree == Spec => []NodesExact
<1>1. IInv => NodesExact
  <2> SUFFICES ASSUME IInv PROVE NodesExact
    OBVIOUS
  <2> DEFINE n == Count(buckets)
  <2>1. Sound(buckets, n, buffer) /\ size = Len(buffer)
    BY DEF IInv
  <2> HIDE DEF n
  <2>2. /\ Table(buckets, n) /\ DOMAIN buffer = 1..Len(buffer) /\ buffer \in Seq(String)
        /\ Cardinality(Used(buckets)) = Len(buffer)
    BY <2>1, SoundIs
  <2>3. PICK at : Paired(buckets, n, buffer, at, 1..Len(buffer))
    BY <2>1 DEF Sound
  <2>4. Used(buckets) = {b \in 0..(n - 1) : at[b] # 0}
    BY <2>3, UsedIs
  <2>5. ASSUME NEW i \in 1..Len(buffer)
        PROVE  \E b \in Used(buckets) :
                 /\ buckets[b] = [offset |-> End(buffer, i - 1), hash |-> Hash[buffer[i]]]
                 /\ \A c \in Used(buckets) : buckets[c].offset = buckets[b].offset => c = b
    <3>1. PICK b \in 0..(n - 1) : at[b] = i
      BY <2>3 DEF Paired
    <3>2. b \in Used(buckets) /\ i # 0
      BY <2>4, <3>1
    <3>3. buckets[b] = NodeOf(buffer, i) /\ buckets[b].offset = Start(buffer, i)
      <4>1. buckets[b] = NodeOf(buffer, i)
        BY <2>3, <3>1, <3>2, PairedIs
      <4> QED BY <2>2, <4>1, NodeOfIs
    <3>4. ASSUME NEW c \in Used(buckets), buckets[c].offset = buckets[b].offset PROVE c = b
      <4>1. c \in 0..(n - 1) /\ at[c] # 0
        BY <2>4
      <4>2. at[c] \in 1..Len(buffer) /\ buckets[c] = NodeOf(buffer, at[c])
        BY <2>3, <4>1, PairedIs
      <4>3. Start(buffer, at[c]) = Start(buffer, i)
        BY <2>2, <3>3, <3>4, <4>2, NodeOfIs
      <4>4. at[c] = i
        BY <2>2, <4>2, <4>3, StartDiffers
      <4> QED BY <2>3, <3>1, <4>1, <4>4 DEF Paired
    <3> QED BY <3>2, <3>3, <3>4 DEF NodeOf, Start
  <2> QED BY <2>1, <2>2, <2>5 DEF NodesExact
<1> QED BY <1>1, Invariance, PTL

\* Without erasures the strings found are those in the buffer, which holds each once.
THEOREM FoundIsThere == Spec => []FoundExactly
<1>1. IInv => FoundExactly
  <2> SUFFICES ASSUME IInv, ~erases
               PROVE  /\ \A s \in String : Found(s) <=> s \in ToSet(buffer)
                      /\ Cardinality(ToSet(buffer)) = Len(buffer)
    BY DEF FoundExactly
  <2> DEFINE n == Count(buckets)
  <2>1. Sound(buckets, n, buffer) /\ size = Len(buffer) /\ Reachable(buckets, n) /\ Distinct(buffer)
    BY DEF IInv
  <2> HIDE DEF n
  <2>2. DOMAIN buffer = 1..Len(buffer) /\ Len(buffer) \in Nat /\ ToSet(buffer) = {buffer[i] : i \in 1..Len(buffer)}
    <3>1. DOMAIN buffer = 1..Len(buffer) /\ Len(buffer) \in Nat
      BY <2>1, SoundIs
    <3> QED BY <3>1 DEF ToSet
  <2>3. ASSUME NEW s \in String, Found(s) PROVE s \in ToSet(buffer)
    <3>1. s \in At(buffer, buckets[StopFor(buckets, buffer, s)].offset)
      BY <2>3 DEF Found
    <3> QED BY <2>2, <3>1 DEF At
  <2>4. ASSUME NEW i \in 1..Len(buffer) PROVE Found(buffer[i])
    <3>1. Finds(buckets, buffer, buffer[i])
      BY <2>1, ReachableFound
    <3>2. size > 0
      BY <2>1, <2>2
    <3> QED BY <3>1, <3>2, FoundIs
  <2>5. Cardinality(ToSet(buffer)) = Len(buffer)
    <3> DEFINE f == [i \in 1..Len(buffer) |-> buffer[i]]
    <3>1. IsFiniteSet(1..Len(buffer)) /\ Cardinality(1..Len(buffer)) = Len(buffer)
      <4>1. 1 \in Int /\ Len(buffer) \in Int
        BY <2>2
      <4>2. Cardinality(1..Len(buffer)) = IF 1 > Len(buffer) THEN 0 ELSE Len(buffer) - 1 + 1
        BY <4>1, FS_Interval
      <4>3. IsFiniteSet(1..Len(buffer))
        BY <4>1, FS_Interval
      <4> QED BY <2>2, <4>2, <4>3
    <3>2. f \in [1..Len(buffer) -> ToSet(buffer)]
      BY <2>2
    <3>3. \A a, b \in 1..Len(buffer) : f[a] = f[b] => a = b
      BY <2>1 DEF Distinct
    <3>4. \A t \in ToSet(buffer) : \E s \in 1..Len(buffer) : f[s] = t
      BY <2>2
    <3> HIDE DEF f
    <3> QED BY <3>1, <3>2, <3>3, <3>4, SameSize
  <2> QED BY <2>2, <2>3, <2>4, <2>5
<1> QED BY <1>1, Invariance, PTL

\* Whatever insert() was called with is found afterwards, whether it was new or not, also
\* when the table was rehashed or has buckets freed by erase().
THEOREM InsertMakesFound == Spec => InsertedFound
<1>1. IInv /\ [Next]_vars => \A s \in String : Insert(s) => Found(s)'
  <2> SUFFICES ASSUME IInv, NEW s \in String, Insert(s) PROVE Found(s)'
    OBVIOUS
  <2>1. size' > 0 /\ Finds(buckets', buffer', s)
    BY InsertIs
  <2> QED BY <2>1 DEF Found, Finds
<1> QED BY <1>1, Invariance, PTL DEF Spec, InsertedFound

\* A string erased by its key is not found afterwards.
THEOREM EraseMakesNotFound == Spec => ErasedNotFound
<1>1. IInv /\ [Next]_vars => \A s \in String : Erase(s) => ~Found(s)'
  <2> SUFFICES ASSUME IInv, NEW s \in String, Erase(s) PROVE ~Found(s)'
    OBVIOUS
  <2>1. Finds(buckets, buffer, s)
    BY FoundIs DEF Erase
  <2>2. PICK i \in DOMAIN buffer :
          End(buffer, i - 1) = buckets[StopFor(buckets, buffer, s)].offset /\ EraseAt(i)
    BY DEF Erase
  <2>3. ~Finds(buckets', buffer', s)
    BY <2>1, <2>2, EraseIs
  <2> QED BY <2>3 DEF Found, Finds
<1> QED BY <1>1, Invariance, PTL DEF Spec, ErasedNotFound

\* Rehashing, by insert() or reserve(), makes every string found, those hidden behind a freed
\* bucket before included.
THEOREM RehashMakesFound == Spec => RehashRestores
<1>1. IInv /\ [Next]_vars =>
        (size > 0 /\ Count(buckets') > Count(buckets) => \A i \in DOMAIN buffer : Found(buffer[i])')
  <2> SUFFICES ASSUME IInv, [Next]_vars, size > 0, Count(buckets') > Count(buckets),
                      NEW i \in DOMAIN buffer
               PROVE  Found(buffer[i])'
    OBVIOUS
  <2> DEFINE n == Count(buckets')
  <2>0. Sound(buckets, Count(buckets), buffer) /\ size = Len(buffer)
    BY DEF IInv
  <2>1. i \in 1..Len(buffer) /\ buffer \in Seq(String) /\ Len(buffer) \in Nat /\ Count(buckets) \in Nat
    BY <2>0, SoundIs
  <2>2. SUFFICES Sound(buckets', n, buffer') /\ Reachable(buckets', n) /\ i \in 1..Len(buffer') /\ size' > 0
    <3>1. Finds(buckets', buffer', buffer'[i])
      BY <2>2, ReachableFound
    <3> QED BY <2>2, <3>1 DEF Found, Finds
  <2>3. ASSUME NEW s \in String, Insert(s)
        PROVE  Sound(buckets', n, buffer') /\ Reachable(buckets', n) /\ i \in 1..Len(buffer') /\ size' > 0
    <3>1. Sound(buckets', n, buffer') /\ Kept(buckets, Count(buckets), buckets', n) /\ size' > 0
      BY <2>3, InsertIs
    <3>2. buffer' = Append(buffer, s) \/ buffer' = buffer
      BY <2>3 DEF Insert
    <3>3. i \in 1..Len(buffer')
      BY <2>1, <3>2
    <3> QED BY <3>1, <3>3 DEF Kept
  <2>4. ASSUME NEW m \in 0..MaxReserve, Reserve(m)
        PROVE  Sound(buckets', n, buffer') /\ Reachable(buckets', n) /\ i \in 1..Len(buffer') /\ size' > 0
    <3>1. m \in Nat
      BY BoundAssumption
    <3>2. /\ size' = size /\ buffer' = buffer
          /\ Sound(buckets', n, buffer') /\ Kept(buckets, Count(buckets), buckets', n)
      BY <2>4, <3>1, ReserveIs
    <3> QED BY <2>1, <3>2 DEF Kept
  <2>5. ASSUME NEW j \in DOMAIN buffer, EraseAt(j) PROVE FALSE
    <3>1. Count(buckets') = Count(buckets)
      BY <2>5, EraseIs
    <3> QED BY <2>1, <3>1
  <2>6. ASSUME Clear PROVE FALSE
    <3>1. Count(<<>>) = 0
      BY EmptySound, SoundIs
    <3>2. buckets' = <<>>
      BY <2>6 DEF Clear
    <3> QED BY <2>1, <3>1, <3>2
  <2>7. ASSUME UNCHANGED vars PROVE FALSE
    BY <2>1, <2>7 DEF vars
  <2>8. ASSUME NEW s \in String, Erase(s) PROVE FALSE
    BY <2>5, <2>8 DEF Erase
  <2> QED BY <2>3, <2>4, <2>5, <2>6, <2>7, <2>8 DEF Next
<1> QED BY <1>1, Invariance, PTL DEF Spec, RehashRestores

=============================================================================
