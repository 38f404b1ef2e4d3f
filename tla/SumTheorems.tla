----------------------------- MODULE SumTheorems -----------------------------
(***************************************************************************)
(* Induction in a form without operator parameters, what RemoveAt of       *)
(* SequencesExt returns, and what the sums that MapThenSumSet of           *)
(* FiniteSetsExt takes over finite sets are.                               *)
(*                                                                         *)
(* An induction predicate is given as the set of what satisfies it.  A sum *)
(* is a recursive function over the subsets of a set, which leaves out an  *)
(* element of its choice at a time; that any element may be left out first *)
(* is what the lemmas on adding, removing and changing a term rest on.     *)
(***************************************************************************)
EXTENDS Integers, Sequences, SequencesExt, FiniteSetsExt, FiniteSetTheorems, WellFoundedInduction, TLAPS

-----------------------------------------------------------------------------
(* Induction *)

\* A non-empty set of natural numbers has a least element.
LEMMA LeastElement ==
  ASSUME NEW T \in SUBSET Nat, T # {}
  PROVE  \E x \in T : \A y \in T : x <= y
<1>1. IsWellFoundedOn(OpToRel(<, Nat), Nat)
  BY NatLessThanWellFounded
<1>2. PICK x \in T : \A y \in T : ~ (<<y, x>> \in OpToRel(<, Nat))
  BY <1>1, WFMin
<1>3. \A y \in T : ~(y < x)
  BY <1>2 DEF OpToRel
<1> QED BY <1>3

\* A non-empty set of integers that is bounded has a greatest element.
LEMMA GreatestElement ==
  ASSUME NEW T \in SUBSET Int, T # {}, NEW b \in Int, \A x \in T : x <= b
  PROVE  \E x \in T : \A y \in T : x >= y
<1> DEFINE D == {b - x : x \in T}
<1>1. D \in SUBSET Nat /\ D # {}
  <2>1. \A x \in T : b - x \in Nat
    OBVIOUS
  <2>2. PICK x \in T : TRUE
    OBVIOUS
  <2>3. b - x \in D
    OBVIOUS
  <2> QED BY <2>1, <2>3
<1>2. PICK d \in D : \A y \in D : d <= y
  BY <1>1, LeastElement
<1>3. PICK x \in T : d = b - x
  BY <1>2
<1>4. \A y \in T : b - x <= b - y
  BY <1>2, <1>3
<1> QED BY <1>4

\* A set that holds 0 and the successor of each of its members holds every
\* natural number.
THEOREM SetInduction ==
  ASSUME NEW S, 0 \in S, \A n \in Nat : n \in S => n + 1 \in S
  PROVE  \A n \in Nat : n \in S
<1> DEFINE T == {n \in Nat : n \notin S}
<1>1. SUFFICES ASSUME T # {} PROVE FALSE
  OBVIOUS
<1>2. PICK x \in T : \A y \in T : x <= y
  BY <1>1, LeastElement
<1>3. x # 0 /\ x - 1 \in Nat /\ x - 1 \notin T
  BY <1>2
<1>4. x - 1 \in S
  BY <1>3
<1>5. (x - 1) + 1 \in S
  BY <1>3, <1>4
<1> QED BY <1>5

\* n steps within T, and the function that takes them from a on.
Steps(n, T) == [1..n -> [T -> T]]

Follows(f, n, T, a, step) ==
  f \in [0..n -> T] /\ f[0] = a /\ \A i \in 1..n : f[i] = step[i][f[i - 1]]

\* What starts at a and goes on by a step at a time, the i-th of them step[i], is a function.
THEOREM RecursionExists ==
  ASSUME NEW T, NEW a \in T, NEW n \in Nat, NEW step \in Steps(n, T)
  PROVE  \E f : Follows(f, n, T, a, step)
<1> USE DEF Steps
<1> DEFINE P(m) == \E f \in [0..m -> T] : f[0] = a /\ \A i \in 1..m : f[i] = step[i][f[i - 1]]
           S == {m \in Nat : m <= n => P(m)}
<1>1. 0 \in S
  <2> DEFINE f == [i \in 0..0 |-> a]
  <2>1. f \in [0..0 -> T] /\ f[0] = a /\ \A i \in 1..0 : f[i] = step[i][f[i - 1]]
    OBVIOUS
  <2> QED BY <2>1
<1>2. ASSUME NEW m \in Nat, m \in S PROVE m + 1 \in S
  <2> SUFFICES ASSUME m + 1 <= n PROVE P(m + 1)
    OBVIOUS
  <2>1. PICK f \in [0..m -> T] : f[0] = a /\ \A i \in 1..m : f[i] = step[i][f[i - 1]]
    BY <1>2
  <2>2. m + 1 \in 1..n /\ f[m] \in T
    OBVIOUS
  <2>3. step[m + 1][f[m]] \in T
    BY <2>2
  <2> DEFINE g == [i \in 0..(m + 1) |-> IF i = m + 1 THEN step[m + 1][f[m]] ELSE f[i]]
  <2>4. g \in [0..(m + 1) -> T] /\ g[0] = a
    BY <2>1, <2>3
  <2>5. ASSUME NEW i \in 1..(m + 1) PROVE g[i] = step[i][g[i - 1]]
    <3>1. CASE i = m + 1
      <4>1. g[i] = step[m + 1][f[m]] /\ g[i - 1] = f[m]
        BY <3>1
      <4> QED BY <3>1, <4>1
    <3>2. CASE i # m + 1
      <4>1. g[i] = f[i] /\ g[i - 1] = f[i - 1] /\ i \in 1..m
        BY <3>2
      <4> QED BY <2>1, <4>1
    <3> QED BY <3>1, <3>2
  <2> QED BY <2>4, <2>5
<1> HIDE DEF S
<1>3. \A m \in Nat : m \in S
  BY <1>1, <1>2, SetInduction
<1>4. P(n)
  BY <1>3 DEF S
<1> QED BY <1>4 DEF Follows

\* What RemoveAt returns.
LEMMA RemoveAtIs ==
  ASSUME NEW S, NEW l \in Seq(S), NEW i \in DOMAIN l
  PROVE  /\ RemoveAt(l, i) \in Seq(S)
         /\ Len(RemoveAt(l, i)) = Len(l) - 1
         /\ \A j \in 1..(Len(l) - 1) :
              RemoveAt(l, i)[j] = l[IF j < i THEN j ELSE j + 1]
<1> DEFINE a == SubSeq(l, 1, i - 1)
           b == SubSeq(l, i + 1, Len(l))
<1>1. Len(l) \in Nat /\ i \in 1..Len(l)
  OBVIOUS
<1>2. a \in Seq(S) /\ Len(a) = i - 1 /\ \A j \in 1..(i - 1) : a[j] = l[j]
  BY <1>1
<1>3. b \in Seq(S) /\ Len(b) = Len(l) - i /\ \A j \in 1..(Len(l) - i) : b[j] = l[j + i]
  BY <1>1
<1>4. RemoveAt(l, i) = a \o b
  BY DEF RemoveAt
<1> HIDE DEF a, b
<1> DEFINE c == a \o b
<1>5. /\ c \in Seq(S)
      /\ Len(c) = Len(a) + Len(b)
      /\ \A j \in 1..(Len(a) + Len(b)) : c[j] = IF j <= Len(a) THEN a[j] ELSE b[j - Len(a)]
  BY <1>2, <1>3
<1> HIDE DEF c
<1>6. /\ c \in Seq(S)
      /\ Len(c) = Len(l) - 1
      /\ \A j \in 1..(Len(l) - 1) : c[j] = IF j <= i - 1 THEN a[j] ELSE b[j - (i - 1)]
  <2>1. Len(a) = i - 1 /\ Len(a) + Len(b) = Len(l) - 1
    BY <1>1, <1>2, <1>3
  <2> QED BY <1>5, <2>1
<1>7. ASSUME NEW j \in 1..(Len(l) - 1)
      PROVE  c[j] = l[IF j < i THEN j ELSE j + 1]
  <2>1. CASE j < i
    <3>1. j \in 1..(i - 1)
      BY <1>1, <2>1
    <3> QED BY <1>2, <1>6, <2>1, <3>1
  <2>2. CASE ~(j < i)
    <3>1. j - (i - 1) \in 1..(Len(l) - i)
      BY <1>1, <2>2
    <3>2. c[j] = b[j - (i - 1)]
      BY <1>1, <1>6, <2>2
    <3>3. b[j - (i - 1)] = l[(j - (i - 1)) + i]
      BY <1>3, <3>1
    <3>4. (j - (i - 1)) + i = j + 1
      BY <1>1
    <3> QED BY <2>2, <3>2, <3>3, <3>4
  <2> QED BY <2>1, <2>2
<1> QED BY <1>4, <1>6, <1>7 DEF c

\* A function that takes the elements of a finite set to those of another, each to one and
\* each from one, shows that there are as many of these.
LEMMA SameSize ==
  ASSUME NEW S, IsFiniteSet(S), NEW T, NEW f, f \in [S -> T],
         \A a, b \in S : f[a] = f[b] => a = b,
         \A t \in T : \E s \in S : f[s] = t
  PROVE  IsFiniteSet(T) /\ Cardinality(T) = Cardinality(S)
<1>1. f \in Injection(S, T) /\ f \in Surjection(S, T)
  BY DEF Injection, Surjection, IsInjective
<1> QED BY <1>1, FS_Surjection

\* A family F that holds every subset of T from which each element can be taken away
\* within F holds every subset of the finite set T.
THEOREM SubsetInduction ==
  ASSUME NEW T, IsFiniteSet(T), NEW F,
         \A s \in SUBSET T : (\A x \in s : s \ {x} \in F) => s \in F
  PROVE  \A s \in SUBSET T : s \in F
<1> DEFINE S == {n \in Nat : \A s \in SUBSET T : Cardinality(s) = n => s \in F}
<1>1. \A s \in SUBSET T : IsFiniteSet(s) /\ Cardinality(s) \in Nat
  BY FS_Subset, FS_CardinalityType
<1>2. 0 \in S
  <2> SUFFICES ASSUME NEW s \in SUBSET T, Cardinality(s) = 0 PROVE s \in F
    OBVIOUS
  <2>1. s = {}
    BY <1>1, FS_EmptySet
  <2> QED BY <2>1
<1>3. ASSUME NEW n \in Nat, n \in S PROVE n + 1 \in S
  <2> SUFFICES ASSUME NEW s \in SUBSET T, Cardinality(s) = n + 1 PROVE s \in F
    OBVIOUS
  <2> SUFFICES ASSUME NEW x \in s PROVE s \ {x} \in F
    OBVIOUS
  <2>1. Cardinality(s \ {x}) = (n + 1) - 1
    BY <1>1, FS_RemoveElement
  <2> QED BY <1>3, <2>1
<1> HIDE DEF S
<1>4. \A n \in Nat : n \in S
  BY <1>2, <1>3, SetInduction
<1> QED BY <1>1, <1>4 DEF S

-----------------------------------------------------------------------------
(* Sums *)

\* Where the terms of f are integers.
Terms(f, S) == \A x \in S : f[x] \in Int

Chosen(s) == CHOOSE x \in s : TRUE

\* The sum of the terms of f in S.
SumOn(f, S) == MapThenSumSet(LAMBDA x : f[x], S)

\* h sums up the terms of f over the subsets of S that D holds, leaving out the chosen
\* element first.
Sums(h, f, D) ==
  h = [s \in D |-> IF s = {} THEN 0 ELSE f[Chosen(s)] + h[s \ {Chosen(s)}]]

\* The function that the definition of MapThenSumSet chooses.
SumsOf(f, S) == CHOOSE h : Sums(h, f, SUBSET S)

LEMMA SumOnIs == ASSUME NEW f, NEW S PROVE SumOn(f, S) = SumsOf(f, S)[S]
BY DEF SumOn, SumsOf, Sums, Chosen, MapThenSumSet, MapThenFoldSet

\* The subsets of S with at most n elements.
UpTo(S, n) == {s \in SUBSET S : Cardinality(s) <= n}

LEMMA ChosenIs ==
  ASSUME NEW S, IsFiniteSet(S), NEW s \in SUBSET S, s # {}
  PROVE  /\ Chosen(s) \in s
         /\ s \ {Chosen(s)} \in SUBSET S
         /\ Cardinality(s) \in Nat /\ Cardinality(s) # 0
         /\ Cardinality(s \ {Chosen(s)}) = Cardinality(s) - 1
<1>1. Chosen(s) \in s
  BY DEF Chosen
<1>2. IsFiniteSet(s)
  BY FS_Subset
<1>3. Cardinality(s) \in Nat /\ Cardinality(s) # 0
  BY <1>2, FS_CardinalityType, FS_EmptySet
<1> QED BY <1>1, <1>2, <1>3, FS_RemoveElement

\* A function as the definition asks for exists, one size of subsets after another.
LEMMA SumsExist ==
  ASSUME NEW f, NEW S, IsFiniteSet(S)
  PROVE  \E h : Sums(h, f, SUBSET S)
<1> DEFINE N == {n \in Nat : \E h : Sums(h, f, UpTo(S, n))}
<1>1. \A s \in SUBSET S : IsFiniteSet(s) /\ Cardinality(s) \in Nat
  BY FS_Subset, FS_CardinalityType
<1>2. 0 \in N
  <2> DEFINE h == [s \in UpTo(S, 0) |-> 0]
  <2>1. \A s \in UpTo(S, 0) : s = {}
    BY <1>1, FS_EmptySet DEF UpTo
  <2>2. Sums(h, f, UpTo(S, 0))
    BY <2>1 DEF Sums
  <2> QED BY <2>2
<1>3. ASSUME NEW n \in Nat, n \in N PROVE n + 1 \in N
  <2>1. PICK g : Sums(g, f, UpTo(S, n))
    BY <1>3
  <2> DEFINE h == [s \in UpTo(S, n + 1) |->
                     IF s = {} THEN 0 ELSE f[Chosen(s)] + g[s \ {Chosen(s)}]]
  <2>2. ASSUME NEW s \in UpTo(S, n) PROVE s \in UpTo(S, n + 1) /\ h[s] = g[s]
    <3>1. s \in UpTo(S, n + 1)
      BY <1>1 DEF UpTo
    <3> QED BY <2>1, <3>1 DEF Sums
  <2>3. ASSUME NEW s \in UpTo(S, n + 1), s # {} PROVE s \ {Chosen(s)} \in UpTo(S, n)
    BY <2>3, ChosenIs DEF UpTo
  <2>4. h = [s \in UpTo(S, n + 1) |-> h[s]]
    OBVIOUS
  <2>5. ASSUME NEW s \in UpTo(S, n + 1)
        PROVE  h[s] = IF s = {} THEN 0 ELSE f[Chosen(s)] + h[s \ {Chosen(s)}]
    <3>1. CASE s = {}
      BY <3>1
    <3>2. CASE s # {}
      <4>1. h[s] = f[Chosen(s)] + g[s \ {Chosen(s)}]
        BY <3>2
      <4>2. h[s \ {Chosen(s)}] = g[s \ {Chosen(s)}]
        BY <2>2, <2>3, <3>2
      <4> HIDE DEF h
      <4> QED BY <3>2, <4>1, <4>2
    <3> QED BY <3>1, <3>2
  <2> HIDE DEF h
  <2>6. Sums(h, f, UpTo(S, n + 1))
    BY <2>4, <2>5 DEF Sums
  <2> QED BY <2>6
<1> HIDE DEF N
<1>4. Cardinality(S) \in N
  BY <1>1, <1>2, <1>3, SetInduction
<1>5. UpTo(S, Cardinality(S)) = SUBSET S
  BY FS_Subset DEF UpTo
<1> QED BY <1>4, <1>5 DEF N

\* Hence the function that MapThenSumSet chooses is one.
LEMMA SumsOfIs ==
  ASSUME NEW f, NEW S, IsFiniteSet(S)
  PROVE  Sums(SumsOf(f, S), f, SUBSET S)
BY SumsExist DEF SumsOf

\* A sum is an integer, and 0 over no terms; of the subsets the same is true.
LEMMA SumsType ==
  ASSUME NEW f, NEW S, IsFiniteSet(S), Terms(f, S)
  PROVE  SumsOf(f, S)[{}] = 0 /\ \A s \in SUBSET S : SumsOf(f, S)[s] \in Int
<1> DEFINE h == SumsOf(f, S)
           F == {s \in SUBSET S : h[s] \in Int}
<1>1. Sums(h, f, SUBSET S)
  BY SumsOfIs
<1> HIDE DEF h
<1>2. \A s \in SUBSET S : h[s] = IF s = {} THEN 0 ELSE f[Chosen(s)] + h[s \ {Chosen(s)}]
  BY <1>1 DEF Sums
<1>3. ASSUME NEW s \in SUBSET S, \A x \in s : s \ {x} \in F PROVE s \in F
  <2>1. CASE s = {}
    BY <1>2, <2>1
  <2>2. CASE s # {}
    <3>1. Chosen(s) \in s /\ f[Chosen(s)] \in Int
      BY <2>2, ChosenIs DEF Terms
    <3>2. h[s \ {Chosen(s)}] \in Int
      BY <1>3, <3>1
    <3> QED BY <1>2, <2>2, <3>1, <3>2
  <2> QED BY <2>1, <2>2
<1> HIDE DEF F
<1>4. \A s \in SUBSET S : s \in F
  BY <1>3, SubsetInduction
<1> QED BY <1>2, <1>4 DEF F, h

\* Any element may be left out first.
LEMMA SumsAnyOrder ==
  ASSUME NEW f, NEW S, IsFiniteSet(S), Terms(f, S)
  PROVE  \A s \in SUBSET S : \A x \in s : SumsOf(f, S)[s] = f[x] + SumsOf(f, S)[s \ {x}]
<1> DEFINE h == SumsOf(f, S)
           F == {s \in SUBSET S : \A x \in s : h[s] = f[x] + h[s \ {x}]}
<1>1. Sums(h, f, SUBSET S) /\ \A s \in SUBSET S : h[s] \in Int
  BY SumsOfIs, SumsType
<1> HIDE DEF h
<1>2. \A s \in SUBSET S : s # {} => h[s] = f[Chosen(s)] + h[s \ {Chosen(s)}]
  BY <1>1 DEF Sums
<1>3. ASSUME NEW s \in SUBSET S, \A x \in s : s \ {x} \in F PROVE s \in F
  <2> SUFFICES ASSUME NEW x \in s PROVE h[s] = f[x] + h[s \ {x}]
    OBVIOUS
  <2> DEFINE c == Chosen(s)
  <2>1. c \in s /\ s \ {c} \in SUBSET S /\ h[s] = f[c] + h[s \ {c}]
    BY <1>2, ChosenIs
  <2> HIDE DEF c
  <2>2. CASE x = c
    BY <2>1, <2>2
  <2>3. CASE x # c
    <3>1. x \in s \ {c} /\ c \in s \ {x}
      BY <2>1, <2>3
    <3>2. h[s \ {c}] = f[x] + h[(s \ {c}) \ {x}]
      BY <1>3, <2>1, <3>1
    <3>3. h[s \ {x}] = f[c] + h[(s \ {x}) \ {c}]
      BY <1>3, <3>1
    <3>4. (s \ {c}) \ {x} = (s \ {x}) \ {c}
      OBVIOUS
    <3>5. (s \ {x}) \ {c} \in SUBSET S /\ c \in S /\ x \in S
      BY <2>1
    <3>6. h[(s \ {x}) \ {c}] \in Int /\ f[c] \in Int /\ f[x] \in Int
      BY <1>1, <3>5 DEF Terms
    <3>7. h[s] = f[c] + (f[x] + h[(s \ {x}) \ {c}]) /\ h[s \ {x}] = f[c] + h[(s \ {x}) \ {c}]
      BY <2>1, <3>2, <3>3, <3>4
    <3> QED BY <3>6, <3>7
  <2> QED BY <2>2, <2>3
<1> HIDE DEF F
<1>4. \A s \in SUBSET S : s \in F
  BY <1>3, SubsetInduction
<1> QED BY <1>4 DEF F, h

\* What the definition chooses for S agrees with what it chooses for a subset.
LEMMA SumsAgree ==
  ASSUME NEW f, NEW S, IsFiniteSet(S), NEW T \in SUBSET S
  PROVE  SumsOf(f, S)[T] = SumOn(f, T)
<1> DEFINE h == SumsOf(f, S)
           g == SumsOf(f, T)
           F == {s \in SUBSET T : h[s] = g[s]}
<1>1. IsFiniteSet(T)
  BY FS_Subset
<1>2. Sums(h, f, SUBSET S) /\ Sums(g, f, SUBSET T)
  BY <1>1, SumsOfIs
<1> HIDE DEF h, g
<1>3. /\ \A s \in SUBSET S : h[s] = IF s = {} THEN 0 ELSE f[Chosen(s)] + h[s \ {Chosen(s)}]
      /\ \A s \in SUBSET T : g[s] = IF s = {} THEN 0 ELSE f[Chosen(s)] + g[s \ {Chosen(s)}]
  BY <1>2 DEF Sums
<1>4. ASSUME NEW s \in SUBSET T, \A x \in s : s \ {x} \in F PROVE s \in F
  <2>1. s # {} => h[s \ {Chosen(s)}] = g[s \ {Chosen(s)}]
    BY <1>1, <1>4, ChosenIs
  <2> QED BY <1>3, <2>1
<1> HIDE DEF F
<1>5. \A s \in SUBSET T : s \in F
  BY <1>1, <1>4, SubsetInduction
<1> QED BY <1>5, SumOnIs DEF F, h, g

-----------------------------------------------------------------------------
(* The rules for sums *)

\* A sum of integers is an integer, 0 without terms.
THEOREM SumType ==
  ASSUME NEW f, NEW S, IsFiniteSet(S), Terms(f, S)
  PROVE  SumOn(f, S) \in Int /\ SumOn(f, {}) = 0
BY SumsType, SumsAgree

\* A term taken out is subtracted.
THEOREM SumRemove ==
  ASSUME NEW f, NEW S, IsFiniteSet(S), Terms(f, S), NEW x \in S
  PROVE  SumOn(f, S) = f[x] + SumOn(f, S \ {x})
<1>1. S \ {x} \in SUBSET S /\ S \in SUBSET S
  OBVIOUS
<1> QED BY <1>1, SumsAnyOrder, SumsAgree

\* A term put in is added.
THEOREM SumAdd ==
  ASSUME NEW f, NEW S, IsFiniteSet(S), NEW x, x \notin S, Terms(f, S \cup {x})
  PROVE  SumOn(f, S \cup {x}) = f[x] + SumOn(f, S)
<1>1. IsFiniteSet(S \cup {x}) /\ x \in S \cup {x} /\ (S \cup {x}) \ {x} = S
  BY FS_AddElement
<1> QED BY <1>1, SumRemove

\* Terms that are nowhere greater have no greater sum.
THEOREM SumMonotone ==
  ASSUME NEW f, NEW g, NEW S, IsFiniteSet(S), Terms(f, S), Terms(g, S),
         \A x \in S : f[x] <= g[x]
  PROVE  SumOn(f, S) <= SumOn(g, S)
<1> DEFINE F == {s \in SUBSET S : SumOn(f, s) <= SumOn(g, s)}
<1>1. ASSUME NEW s \in SUBSET S, \A x \in s : s \ {x} \in F PROVE s \in F
  <2>1. IsFiniteSet(s) /\ Terms(f, s) /\ Terms(g, s)
    BY FS_Subset DEF Terms
  <2>2. CASE s = {}
    BY <2>1, <2>2, SumType
  <2>3. CASE s # {}
    <3>1. PICK x \in s : TRUE
      BY <2>3
    <3>2. IsFiniteSet(s \ {x}) /\ Terms(f, s \ {x}) /\ Terms(g, s \ {x})
      BY <2>1, FS_RemoveElement DEF Terms
    <3>3. /\ SumOn(f, s) = f[x] + SumOn(f, s \ {x})
          /\ SumOn(g, s) = g[x] + SumOn(g, s \ {x})
      BY <2>1, SumRemove
    <3>4. SumOn(f, s \ {x}) \in Int /\ SumOn(g, s \ {x}) \in Int
      BY <3>2, SumType
    <3>5. f[x] \in Int /\ g[x] \in Int /\ f[x] <= g[x]
      BY DEF Terms
    <3>6. SumOn(f, s \ {x}) <= SumOn(g, s \ {x})
      BY <1>1
    <3> QED BY <3>3, <3>4, <3>5, <3>6
  <2> QED BY <2>2, <2>3
<1> HIDE DEF F
<1>2. \A s \in SUBSET S : s \in F
  BY <1>1, SubsetInduction
<1> QED BY <1>2 DEF F

\* Terms that are the same have the same sum.
THEOREM SumSame ==
  ASSUME NEW f, NEW g, NEW S, IsFiniteSet(S), Terms(f, S), \A x \in S : f[x] = g[x]
  PROVE  SumOn(f, S) = SumOn(g, S)
<1>1. Terms(g, S) /\ \A x \in S : f[x] <= g[x] /\ g[x] <= f[x]
  BY DEF Terms
<1>2. SumOn(f, S) <= SumOn(g, S) /\ SumOn(g, S) <= SumOn(f, S)
  BY <1>1, SumMonotone
<1>3. SumOn(f, S) \in Int /\ SumOn(g, S) \in Int
  BY <1>1, SumType
<1> QED BY <1>2, <1>3

\* A term that changes changes the sum by as much.
THEOREM SumUpdate ==
  ASSUME NEW f, NEW g, NEW S, IsFiniteSet(S), Terms(f, S), NEW x \in S, g[x] \in Int,
         \A y \in S : y # x => g[y] = f[y]
  PROVE  SumOn(g, S) = SumOn(f, S) - f[x] + g[x]
<1>1. IsFiniteSet(S \ {x}) /\ Terms(f, S \ {x}) /\ Terms(g, S)
  BY FS_RemoveElement DEF Terms
<1>2. SumOn(g, S \ {x}) = SumOn(f, S \ {x})
  BY <1>1, SumSame
<1>3. SumOn(f, S) = f[x] + SumOn(f, S \ {x}) /\ SumOn(g, S) = g[x] + SumOn(g, S \ {x})
  BY <1>1, SumRemove
<1>4. SumOn(f, S \ {x}) \in Int /\ f[x] \in Int
  BY <1>1, SumType DEF Terms
<1> QED BY <1>2, <1>3, <1>4

\* Of natural numbers, some have no greater a sum than all.
THEOREM SumSubset ==
  ASSUME NEW f, NEW S, IsFiniteSet(S), \A x \in S : f[x] \in Nat, NEW T \in SUBSET S
  PROVE  /\ SumOn(f, S) \in Nat /\ SumOn(f, T) \in Nat
         /\ SumOn(f, T) <= SumOn(f, S)
<1> DEFINE F == {s \in SUBSET S : \A t \in SUBSET s : SumOn(f, t) <= SumOn(f, s)}
<1>1. \A s \in SUBSET S : IsFiniteSet(s) /\ Terms(f, s)
  BY FS_Subset DEF Terms
<1>2. \A s \in SUBSET S : SumOn(f, s) \in Int
  BY <1>1, SumType
<1>3. ASSUME NEW s \in SUBSET S, \A x \in s : s \ {x} \in F PROVE s \in F
  <2> SUFFICES ASSUME NEW t \in SUBSET s PROVE SumOn(f, t) <= SumOn(f, s)
    OBVIOUS
  <2>1. CASE t = s
    BY <1>2, <2>1
  <2>2. CASE t # s
    <3>1. PICK x \in s : x \notin t
      BY <2>2
    <3>2. t \in SUBSET (s \ {x}) /\ s \ {x} \in SUBSET S
      BY <3>1
    <3>3. SumOn(f, t) <= SumOn(f, s \ {x})
      BY <1>3, <3>2
    <3>4. SumOn(f, s) = f[x] + SumOn(f, s \ {x})
      BY <1>1, SumRemove
    <3>5. SumOn(f, t) \in Int /\ SumOn(f, s \ {x}) \in Int /\ f[x] \in Nat
      BY <1>2, <3>2
    <3> QED BY <3>3, <3>4, <3>5
  <2> QED BY <2>1, <2>2
<1> HIDE DEF F
<1>4. \A s \in SUBSET S : s \in F
  BY <1>3, SubsetInduction
<1>5. \A s \in SUBSET S : \A t \in SUBSET s : SumOn(f, t) <= SumOn(f, s)
  BY <1>4 DEF F
<1>6. \A s \in SUBSET S : SumOn(f, s) \in Nat
  <2> SUFFICES ASSUME NEW s \in SUBSET S PROVE SumOn(f, s) \in Nat
    OBVIOUS
  <2>1. SumOn(f, {}) <= SumOn(f, s) /\ SumOn(f, {}) = 0
    BY <1>1, <1>5, SumType
  <2> QED BY <1>2, <2>1
<1> QED BY <1>5, <1>6

\* A sum is no more than its number of terms times a bound of theirs.
THEOREM SumBound ==
  ASSUME NEW f, NEW S, IsFiniteSet(S), NEW b \in Nat,
         \A x \in S : f[x] \in Nat /\ f[x] <= b
  PROVE  SumOn(f, S) <= Cardinality(S) * b
<1> DEFINE F == {s \in SUBSET S : SumOn(f, s) <= Cardinality(s) * b}
<1>1. \A s \in SUBSET S : IsFiniteSet(s) /\ Terms(f, s) /\ Cardinality(s) \in Nat
  BY FS_Subset, FS_CardinalityType DEF Terms
<1>2. \A s \in SUBSET S : SumOn(f, s) \in Int
  BY <1>1, SumType
<1>3. ASSUME NEW s \in SUBSET S, \A x \in s : s \ {x} \in F PROVE s \in F
  <2>1. CASE s = {}
    <3>1. SumOn(f, s) = 0 /\ Cardinality(s) = 0
      BY <1>1, <2>1, SumType, FS_EmptySet
    <3> QED BY <3>1
  <2>2. CASE s # {}
    <3>1. PICK x \in s : TRUE
      BY <2>2
    <3>2. SumOn(f, s) = f[x] + SumOn(f, s \ {x})
      BY <1>1, SumRemove
    <3>3. Cardinality(s \ {x}) = Cardinality(s) - 1
      BY <1>1, FS_RemoveElement
    <3>4. SumOn(f, s \ {x}) <= (Cardinality(s) - 1) * b
      BY <1>3, <3>3
    <3>5. SumOn(f, s \ {x}) \in Int /\ f[x] \in Nat /\ f[x] <= b
      BY <1>2
    <3>6. (Cardinality(s) - 1) * b = Cardinality(s) * b - b /\ Cardinality(s) * b \in Int
      BY <1>1
    <3> QED BY <3>2, <3>4, <3>5, <3>6
  <2> QED BY <2>1, <2>2
<1> HIDE DEF F
<1>4. \A s \in SUBSET S : s \in F
  BY <1>3, SubsetInduction
<1> QED BY <1>4 DEF F

\* The sums over two sets without common elements add up.
THEOREM SumUnion ==
  ASSUME NEW f, NEW S, IsFiniteSet(S), Terms(f, S),
         NEW A \in SUBSET S, NEW B \in SUBSET S, A \cup B = S, A \cap B = {}
  PROVE  SumOn(f, S) = SumOn(f, A) + SumOn(f, B)
<1> DEFINE F == {s \in SUBSET A : SumOn(f, s \cup B) = SumOn(f, s) + SumOn(f, B)}
<1>1. \A s \in SUBSET S : IsFiniteSet(s) /\ Terms(f, s) /\ SumOn(f, s) \in Int
  BY FS_Subset, SumType DEF Terms
<1>2. ASSUME NEW s \in SUBSET A, \A x \in s : s \ {x} \in F PROVE s \in F
  <2>1. CASE s = {}
    <3>1. SumOn(f, {}) = 0 /\ {} \cup B = B /\ SumOn(f, B) \in Int
      BY <1>1, SumType
    <3> QED BY <2>1, <3>1
  <2>2. CASE s # {}
    <3>1. PICK x \in s : TRUE
      BY <2>2
    <3>2. s \cup B \in SUBSET S /\ x \in s \cup B /\ (s \cup B) \ {x} = (s \ {x}) \cup B
      BY <3>1
    <3>3. SumOn(f, s \cup B) = f[x] + SumOn(f, (s \ {x}) \cup B)
      BY <1>1, <3>2, SumRemove
    <3>4. SumOn(f, s) = f[x] + SumOn(f, s \ {x})
      BY <1>1, <3>1, SumRemove
    <3>5. SumOn(f, (s \ {x}) \cup B) = SumOn(f, s \ {x}) + SumOn(f, B)
      BY <1>2, <3>1
    <3>6. f[x] \in Int /\ SumOn(f, s \ {x}) \in Int /\ SumOn(f, B) \in Int
      <4>1. x \in S /\ s \ {x} \in SUBSET S
        BY <3>1
      <4> QED BY <1>1, <4>1 DEF Terms
    <3> QED BY <3>3, <3>4, <3>5, <3>6
  <2> QED BY <2>1, <2>2
<1> HIDE DEF F
<1>3. \A s \in SUBSET A : s \in F
  <2>1. IsFiniteSet(A)
    BY <1>1
  <2> QED BY <1>2, <2>1, SubsetInduction
<1> QED BY <1>3 DEF F
=============================================================================
