--------------------------- MODULE AllocatorsProofs ---------------------------
(***************************************************************************)
(* Proofs about Allocators for any sizes, requests, addresses, threads and *)
(* objects.  Each part is about one of the systems that Allocators         *)
(* composes, whose definitions carry its prefix.                           *)
(***************************************************************************)
EXTENDS Allocators, Sequences, SumTheorems

-----------------------------------------------------------------------------
(* intrusive_ptr *)

\* How often f has the value y on S.
Count(f, S, y) == Cardinality({x \in S : f[x] = y})

\* 1 where x is y.
Is(x, y) == IF x = y THEN 1 ELSE 0

\* f and g differ at s at most.
SameBut(f, g, S, s) == \A x \in S : x # s => g[x] = f[x]

Counted(o)   == [object |-> o, counted |-> TRUE]
Fresh(o)     == [object |-> o, counted |-> FALSE]
Releasing(o) == [step |-> "release", object |-> o]
Deleting(o)  == [step |-> "delete", object |-> o]

PointersTyped ==
  /\ px \in [OwnedVariable -> Object \union {Null}]
  /\ count \in [Object -> Nat]
  /\ life \in [Object -> {"unborn", "alive", "deleted"}]
  /\ raw \in [Thread -> [object : Object \union {Null}, counted : BOOLEAN]]
  /\ gives \in [Thread -> {Pointer!Nothing} \union [step : {"release", "delete"}, object : Object]]

\* What is counted is alive, and nobody deletes it.
CountedAlive ==
  \A o \in Object : count[o] > 0 => life[o] = "alive" /\ \A t \in Thread : gives[t] # Deleting(o)

\* A new object that no pointer has adopted yet is known to its maker only.
FreshAlone ==
  \A t \in Thread :
    (raw[t].object \in Object /\ ~raw[t].counted) =>
      /\ life[raw[t].object] = "alive" /\ count[raw[t].object] = 0
      /\ \A u \in Thread : gives[u] # Deleting(raw[t].object)
      /\ \A u \in Thread : raw[u].object = raw[t].object => u = t

PointersInv ==
  PointersTyped /\ Pointer!CountExact /\ CountedAlive /\ Pointer!DeletedOnce /\ FreshAlone

\* Where one value of a function changes, so does how often the function has a value, by
\* one at most.
LEMMA CountChange ==
  ASSUME NEW S, IsFiniteSet(S), NEW f, NEW g, NEW s \in S, NEW y, SameBut(f, g, S, s)
  PROVE  /\ Count(f, S, y) \in Nat /\ Count(g, S, y) \in Nat
         /\ Count(g, S, y) = Count(f, S, y) - Is(f[s], y) + Is(g[s], y)
<1> DEFINE F == {x \in S : f[x] = y}
           G == {x \in S : g[x] = y}
           R == {x \in S : x # s /\ f[x] = y}
<1>0. Is(f[s], y) \in {0, 1} /\ Is(g[s], y) \in {0, 1}
  BY DEF Is
<1>1. IsFiniteSet(R) /\ IsFiniteSet(F) /\ IsFiniteSet(G) /\ s \notin R
  BY FS_Subset
<1>2. F = IF f[s] = y THEN R \union {s} ELSE R
  OBVIOUS
<1>3. G = IF g[s] = y THEN R \union {s} ELSE R
  BY DEF SameBut
<1> HIDE DEF F, G, R
<1>4. /\ Cardinality(R) \in Nat /\ Cardinality(F) \in Nat /\ Cardinality(G) \in Nat
      /\ Cardinality(R \union {s}) = Cardinality(R) + 1
  BY <1>1, FS_CardinalityType, FS_AddElement
<1>5. Cardinality(F) = Cardinality(R) + Is(f[s], y)
  BY <1>2, <1>4 DEF Is
<1>6. Cardinality(G) = Cardinality(R) + Is(g[s], y)
  BY <1>3, <1>4 DEF Is
<1> QED BY <1>0, <1>4, <1>5, <1>6 DEF Count, F, G

\* A value that a function has, it has at least once; a value that it has not, never.
LEMMA CountZero ==
  ASSUME NEW S, IsFiniteSet(S), NEW f, NEW y
  PROVE  /\ Count(f, S, y) \in Nat
         /\ Count(f, S, y) = 0 <=> \A x \in S : f[x] # y
<1> DEFINE F == {x \in S : f[x] = y}
<1>1. IsFiniteSet(F)
  BY FS_Subset
<1>2. F = {} <=> \A x \in S : f[x] # y
  OBVIOUS
<1> HIDE DEF F
<1>3. Cardinality(F) \in Nat /\ (Cardinality(F) = 0 <=> F = {})
  BY <1>1, FS_CardinalityType, FS_EmptySet
<1> QED BY <1>2, <1>3 DEF Count, F

LEMMA PointersFinite == IsFiniteSet(Thread) /\ IsFiniteSet(OwnedVariable)
<1>1. IsFiniteSet(Thread) /\ IsFiniteSet(1..Variables)
  BY PointerAssumption, FS_Interval
<1> QED BY <1>1, FS_Product DEF OwnedVariable

\* The references to an object, in the terms of the lemmas on counting.
LEMMA ReferencesAre ==
  ASSUME NEW o
  PROVE  Pointer!References(o) = Count(px, OwnedVariable, o) + Count(raw, Thread, Counted(o))
                                   + Count(gives, Thread, Releasing(o))
BY DEF Pointer!References, Pointer!Cardinality, Cardinality, Count, Counted, Releasing

LEMMA ReferencesAreNext ==
  ASSUME NEW o
  PROVE  Pointer!References(o)' = Count(px', OwnedVariable, o) + Count(raw', Thread, Counted(o))
                                   + Count(gives', Thread, Releasing(o))
BY DEF Pointer!References, Pointer!Cardinality, Cardinality, Count, Counted, Releasing

\* Whoever refers to an object is counted.
LEMMA ReferenceCounts ==
  ASSUME PointersTyped, Pointer!CountExact
  PROVE  /\ \A v \in OwnedVariable : px[v] \in Object => count[px[v]] > 0
         /\ \A t \in Thread : raw[t].object \in Object /\ raw[t].counted => count[raw[t].object] > 0
         /\ \A t \in Thread : gives[t].step = "release" => count[gives[t].object] > 0
         /\ \A o \in Object : count[o] = Pointer!References(o)
<1>1. \A o \in Object : count[o] = Count(px, OwnedVariable, o) + Count(raw, Thread, Counted(o))
                                   + Count(gives, Thread, Releasing(o))
  BY ReferencesAre DEF Pointer!CountExact
<1>2. \A o \in Object :
        /\ Count(px, OwnedVariable, o) \in Nat
        /\ Count(raw, Thread, Counted(o)) \in Nat
        /\ Count(gives, Thread, Releasing(o)) \in Nat
        /\ \A v \in OwnedVariable : px[v] = o => Count(px, OwnedVariable, o) # 0
        /\ \A t \in Thread : raw[t] = Counted(o) => Count(raw, Thread, Counted(o)) # 0
        /\ \A t \in Thread : gives[t] = Releasing(o) => Count(gives, Thread, Releasing(o)) # 0
  BY CountZero, PointersFinite
<1>3. \A t \in Thread : raw[t].counted => raw[t] = Counted(raw[t].object)
  BY DEF PointersTyped, Counted
<1>4. \A t \in Thread :
        gives[t].step = "release" => gives[t].object \in Object /\ gives[t] = Releasing(gives[t].object)
  BY DEF PointersTyped, Releasing, Pointer!Nothing
<1>5. ASSUME NEW v \in OwnedVariable, px[v] \in Object PROVE count[px[v]] > 0
  BY <1>1, <1>2, <1>5
<1>6. ASSUME NEW t \in Thread, raw[t].object \in Object, raw[t].counted
      PROVE  count[raw[t].object] > 0
  BY <1>1, <1>2, <1>3, <1>6
<1>7. ASSUME NEW t \in Thread, gives[t].step = "release" PROVE count[gives[t].object] > 0
  BY <1>1, <1>2, <1>4, <1>7
<1> QED BY <1>5, <1>6, <1>7 DEF Pointer!CountExact

\* The count stays exact in a step after which no object has more or fewer references than
\* it has counted.
LEMMA CountStaysExact ==
  ASSUME \A o \in Object :
           count'[o] = Count(px', OwnedVariable, o) + Count(raw', Thread, Counted(o))
                         + Count(gives', Thread, Releasing(o))
  PROVE  Pointer!CountExact'
BY ReferencesAreNext DEF Pointer!CountExact

\* What the count of each object is made of.
LEMMA CountIs ==
  ASSUME Pointer!CountExact
  PROVE  \A o \in Object :
           /\ count[o] = Count(px, OwnedVariable, o) + Count(raw, Thread, Counted(o))
                           + Count(gives, Thread, Releasing(o))
           /\ Count(px, OwnedVariable, o) \in Nat
           /\ Count(raw, Thread, Counted(o)) \in Nat
           /\ Count(gives, Thread, Releasing(o)) \in Nat
BY ReferencesAre, CountZero, PointersFinite DEF Pointer!CountExact

\* How the parts of the count change where one variable or one thread does.
LEMMA PartsChange ==
  /\ \A v \in OwnedVariable : \A p : SameBut(px, px', OwnedVariable, v) =>
       Count(px', OwnedVariable, p) = Count(px, OwnedVariable, p) - Is(px[v], p) + Is(px'[v], p)
  /\ \A t \in Thread : \A p : SameBut(raw, raw', Thread, t) =>
       Count(raw', Thread, Counted(p)) = Count(raw, Thread, Counted(p))
         - Is(raw[t], Counted(p)) + Is(raw'[t], Counted(p))
  /\ \A t \in Thread : \A p : SameBut(gives, gives', Thread, t) =>
       Count(gives', Thread, Releasing(p)) = Count(gives, Thread, Releasing(p))
         - Is(gives[t], Releasing(p)) + Is(gives'[t], Releasing(p))
BY CountChange, PointersFinite

\* What one thread changes of what it keeps, and of one variable, its step has counted.
LEMMA CountedStep ==
  ASSUME Pointer!CountExact, NEW t \in Thread,
         SameBut(raw, raw', Thread, t), SameBut(gives, gives', Thread, t),
         \A p \in Object :
           \/ /\ Count(px', OwnedVariable, p) = Count(px, OwnedVariable, p)
              /\ count'[p] = count[p] - Is(raw[t], Counted(p)) + Is(raw'[t], Counted(p))
                               - Is(gives[t], Releasing(p)) + Is(gives'[t], Releasing(p))
           \/ \E v \in OwnedVariable :
                /\ SameBut(px, px', OwnedVariable, v)
                /\ count'[p] = count[p] - Is(px[v], p) + Is(px'[v], p)
                                 - Is(raw[t], Counted(p)) + Is(raw'[t], Counted(p))
                                 - Is(gives[t], Releasing(p)) + Is(gives'[t], Releasing(p))
  PROVE  Pointer!CountExact'
<1> SUFFICES ASSUME NEW p \in Object
             PROVE  count'[p] = Count(px', OwnedVariable, p) + Count(raw', Thread, Counted(p))
                                  + Count(gives', Thread, Releasing(p))
  BY CountStaysExact
<1>1. /\ Count(raw', Thread, Counted(p)) = Count(raw, Thread, Counted(p))
           - Is(raw[t], Counted(p)) + Is(raw'[t], Counted(p))
      /\ Count(gives', Thread, Releasing(p)) = Count(gives, Thread, Releasing(p))
           - Is(gives[t], Releasing(p)) + Is(gives'[t], Releasing(p))
  BY PartsChange
<1>2. /\ count[p] = Count(px, OwnedVariable, p) + Count(raw, Thread, Counted(p))
                      + Count(gives, Thread, Releasing(p))
      /\ Count(px, OwnedVariable, p) \in Nat
      /\ Count(raw, Thread, Counted(p)) \in Nat
      /\ Count(gives, Thread, Releasing(p)) \in Nat
  BY CountIs
<1>3. \A x, y : Is(x, y) \in {0, 1}
  BY DEF Is
<1>4. CASE /\ Count(px', OwnedVariable, p) = Count(px, OwnedVariable, p)
           /\ count'[p] = count[p] - Is(raw[t], Counted(p)) + Is(raw'[t], Counted(p))
                            - Is(gives[t], Releasing(p)) + Is(gives'[t], Releasing(p))
  BY <1>1, <1>2, <1>3, <1>4
<1>5. ASSUME NEW v \in OwnedVariable, SameBut(px, px', OwnedVariable, v),
             count'[p] = count[p] - Is(px[v], p) + Is(px'[v], p)
                           - Is(raw[t], Counted(p)) + Is(raw'[t], Counted(p))
                           - Is(gives[t], Releasing(p)) + Is(gives'[t], Releasing(p))
      PROVE  count'[p] = Count(px', OwnedVariable, p) + Count(raw', Thread, Counted(p))
                           + Count(gives', Thread, Releasing(p))
  <2>1. Count(px', OwnedVariable, p) = Count(px, OwnedVariable, p) - Is(px[v], p) + Is(px'[v], p)
    BY <1>5, PartsChange
  <2> QED BY <1>1, <1>2, <1>3, <1>5, <2>1
<1> QED BY <1>4, <1>5

LEMMA PointersInit == Pointer!Init => PointersInv
<1> SUFFICES ASSUME Pointer!Init PROVE PointersInv
  OBVIOUS
<1> USE DEF Pointer!Init
<1>1. PointersTyped
  BY DEF PointersTyped
<1>2. ASSUME NEW o \in Object PROVE count[o] = Pointer!References(o)
  <2>1. \A v \in OwnedVariable : px[v] # o
    BY PointerAssumption
  <2>2. \A t \in Thread : raw[t] # Counted(o) /\ gives[t] # Releasing(o)
    BY DEF Counted, Releasing, Pointer!Nothing
  <2>3. /\ Count(px, OwnedVariable, o) = 0 /\ Count(raw, Thread, Counted(o)) = 0
        /\ Count(gives, Thread, Releasing(o)) = 0
    BY <2>1, <2>2, CountZero, PointersFinite
  <2>4. Pointer!References(o) = Count(px, OwnedVariable, o) + Count(raw, Thread, Counted(o))
                                  + Count(gives, Thread, Releasing(o))
    BY ReferencesAre
  <2> QED BY <2>3, <2>4
<1>3. CountedAlive /\ FreshAlone
  BY PointerAssumption DEF CountedAlive, FreshAlone
<1>4. Pointer!DeletedOnce
  BY DEF Pointer!DeletedOnce, Pointer!Nothing
<1> QED BY <1>1, <1>2, <1>3, <1>4 DEF PointersInv, Pointer!CountExact

\* A new object.
LEMMA NewKeeps ==
  ASSUME PointersInv, NEW t \in Thread, NEW o \in Object, Pointer!New(t, o)
  PROVE  PointersInv'
<1> USE DEF PointersInv
<1>1. /\ px' = px /\ count' = count /\ gives' = gives
      /\ raw[t].object = Null /\ life[o] = "unborn" /\ life' = [life EXCEPT ![o] = "alive"]
      /\ raw' = [raw EXCEPT ![t] = [object |-> o, counted |-> FALSE]]
  BY DEF Pointer!New
<1>2. PointersTyped'
  BY <1>1 DEF PointersTyped
<1>3. count[o] = 0 /\ \A u \in Thread : gives[u] # Deleting(o) /\ raw[u].object # o
  <2>1. count[o] = 0
    BY <1>1 DEF CountedAlive, PointersTyped
  <2>2. \A u \in Thread : gives[u] # Deleting(o)
    BY <1>1 DEF Pointer!DeletedOnce, Deleting
  <2>3. ASSUME NEW u \in Thread, raw[u].object = o PROVE FALSE
    <3>1. raw[u].counted \in BOOLEAN
      BY DEF PointersTyped
    <3>2. CASE raw[u].counted
      BY <2>1, <2>3, <3>2, ReferenceCounts
    <3>3. CASE ~raw[u].counted
      BY <1>1, <2>3, <3>3 DEF FreshAlone
    <3> QED BY <3>1, <3>2, <3>3
  <2> QED BY <2>1, <2>2, <2>3
<1>4. Pointer!CountExact'
  <2>1. SameBut(raw, raw', Thread, t) /\ SameBut(gives, gives', Thread, t)
    BY <1>1 DEF SameBut, PointersTyped
  <2>2. \A p \in Object : Count(px', OwnedVariable, p) = Count(px, OwnedVariable, p)
    BY <1>1
  <2>3. ASSUME NEW p \in Object
        PROVE  count'[p] = count[p] - Is(raw[t], Counted(p)) + Is(raw'[t], Counted(p))
                             - Is(gives[t], Releasing(p)) + Is(gives'[t], Releasing(p))
    <3>1. /\ raw[t] # Counted(p) /\ raw'[t] # Counted(p)
          /\ gives'[t] = gives[t] /\ count'[p] = count[p] /\ count[p] \in Nat
      BY <1>1, PointerAssumption DEF Counted, PointersTyped
    <3> QED BY <3>1 DEF Is
  <2> QED BY <2>1, <2>2, <2>3, CountedStep
<1>5. CountedAlive'
  BY <1>1, <1>3 DEF CountedAlive, PointersTyped
<1>6. Pointer!DeletedOnce'
  BY <1>1, <1>3 DEF Pointer!DeletedOnce, PointersTyped
<1>7. FreshAlone'
  BY <1>1, <1>3, PointerAssumption DEF FreshAlone, PointersTyped
<1> QED BY <1>2, <1>4, <1>5, <1>6, <1>7

\* What the operations on pointers have in common: they leave what a thread is about to
\* delete alone, and count only what is counted already or what their thread has made.
LEMMA OperationKeeps ==
  ASSUME PointersInv, PointersTyped', NEW t \in Thread, gives[t] = Pointer!Nothing, life' = life,
         \A u \in Thread : u # t => gives'[u] = gives[u] /\ raw'[u] = raw[u],
         gives'[t].step # "delete",
         \A o \in Object :
           \/ count'[o] = count[o] \/ count[o] > 0
           \/ raw[t] = Fresh(o) /\ raw'[t].object = Null,
         \/ raw'[t] = raw[t] \/ raw'[t].object = Null
         \/ raw'[t].counted /\ count[raw'[t].object] > 0
  PROVE  CountedAlive' /\ Pointer!DeletedOnce' /\ FreshAlone'
<1> USE DEF PointersInv
<1>1. \A u \in Thread : gives'[u].step = "delete" =>
        /\ u # t /\ gives'[u] = gives[u] /\ gives[u].object \in Object
        /\ gives[u] = Deleting(gives[u].object)
  BY DEF PointersTyped, Deleting, Pointer!Nothing
<1>2. \A o \in Object : raw[t] = Fresh(o) =>
        /\ life[o] = "alive" /\ count[o] = 0
        /\ \A u \in Thread : gives[u] # Deleting(o)
        /\ \A u \in Thread : raw[u].object = o => u = t
  BY DEF FreshAlone, Fresh
<1>3. CountedAlive'
  <2> SUFFICES ASSUME NEW o \in Object, count'[o] > 0
               PROVE  life[o] = "alive" /\ \A u \in Thread : gives'[u] # Deleting(o)
    BY DEF CountedAlive, Deleting
  <2>1. life[o] = "alive" /\ \A u \in Thread : gives[u] # Deleting(o)
    BY <1>2 DEF CountedAlive, PointersTyped
  <2> QED BY <1>1, <2>1 DEF Deleting
<1>4. Pointer!DeletedOnce'
  <2> SUFFICES ASSUME NEW u \in Thread, NEW w \in Thread, gives'[u].step = "delete"
               PROVE  /\ life[gives[u].object] = "alive" /\ count'[gives[u].object] = 0
                      /\ gives'[w] = gives'[u] => w = u
    BY <1>1 DEF Pointer!DeletedOnce
  <2>1. gives'[u] = gives[u] /\ gives[u].object \in Object /\ gives[u] = Deleting(gives[u].object)
    BY <1>1
  <2>2. life[gives[u].object] = "alive" /\ count[gives[u].object] = 0
    BY <2>1 DEF Pointer!DeletedOnce
  <2>3. count'[gives[u].object] = 0
    BY <1>2, <2>1, <2>2
  <2>4. ASSUME gives'[w] = gives'[u] PROVE w = u
    BY <1>1, <2>1, <2>4 DEF Pointer!DeletedOnce
  <2> QED BY <2>2, <2>3, <2>4
<1>5. FreshAlone'
  <2> SUFFICES ASSUME NEW u \in Thread, raw'[u].object \in Object, ~raw'[u].counted
               PROVE  /\ life[raw'[u].object] = "alive" /\ count'[raw'[u].object] = 0
                      /\ \A w \in Thread : gives'[w] # Deleting(raw'[u].object)
                      /\ \A w \in Thread : raw'[w].object = raw'[u].object => w = u
    BY DEF FreshAlone, Deleting
  <2>1. raw'[u] = raw[u]
    BY PointerAssumption
  <2> DEFINE o == raw[u].object
  <2>2. /\ life[o] = "alive" /\ count[o] = 0
        /\ \A w \in Thread : gives[w] # Deleting(o)
        /\ \A w \in Thread : raw[w].object = o => w = u
    BY <2>1 DEF FreshAlone
  <2>3. count'[o] = 0
    <3>1. raw[t] # Fresh(o) \/ raw'[t].object # Null
      BY <2>1, <2>2, PointerAssumption DEF Fresh
    <3>2. count'[o] = count[o] \/ count[o] > 0
      BY <2>1, <3>1
    <3> QED BY <2>2, <3>2
  <2>4. \A w \in Thread : gives'[w] # Deleting(o)
    BY <1>1, <2>2 DEF Deleting
  <2>5. ASSUME NEW w \in Thread, raw'[w].object = o PROVE w = u
    <3>1. raw'[w] = raw[w]
      BY <2>1, <2>2, <2>5, PointerAssumption
    <3> QED BY <2>2, <2>5, <3>1
  <2> QED BY <2>1, <2>2, <2>3, <2>4, <2>5
<1> QED BY <1>3, <1>4, <1>5

\* reset(p, add_ref)
LEMMA AdoptKeeps ==
  ASSUME PointersInv, NEW t \in Thread, NEW v \in OwnedVariable, Pointer!Adopt(t, v)
  PROVE  PointersInv'
<1> USE DEF PointersInv
<1> DEFINE o == raw[t].object
           old == px[v]
<1>1. /\ gives[t] = Pointer!Nothing /\ life' = life /\ o \in Object
      /\ px' = [px EXCEPT ![v] = o]
      /\ raw' = [raw EXCEPT ![t] = [object |-> Null, counted |-> FALSE]]
      /\ count' = IF raw[t].counted THEN count ELSE [count EXCEPT ![o] = @ + 1]
      /\ gives' = IF old = Null THEN gives ELSE [gives EXCEPT ![t] = Releasing(old)]
  BY DEF Pointer!Adopt, Pointer!Idle, Pointer!Acquire, Pointer!GiveUp, Releasing, PointersTyped
<1>2. PointersTyped'
  BY <1>1 DEF PointersTyped, Releasing
<1>3. Pointer!CountExact'
  <2>1. SameBut(px, px', OwnedVariable, v) /\ SameBut(raw, raw', Thread, t)
        /\ SameBut(gives, gives', Thread, t)
    BY <1>1 DEF SameBut, PointersTyped
  <2>2. ASSUME NEW p \in Object
        PROVE  count'[p] = count[p] - Is(px[v], p) + Is(px'[v], p)
                             - Is(raw[t], Counted(p)) + Is(raw'[t], Counted(p))
                             - Is(gives[t], Releasing(p)) + Is(gives'[t], Releasing(p))
    <3>1. /\ px'[v] = o
          /\ raw[t] = Counted(p) <=> raw[t].counted /\ o = p
          /\ raw'[t] # Counted(p)
          /\ gives[t] # Releasing(p)
          /\ gives'[t] = Releasing(p) <=> old = p
          /\ count'[p] = count[p] + IF ~raw[t].counted /\ o = p THEN 1 ELSE 0
          /\ count[p] \in Nat
      BY <1>1, PointerAssumption DEF PointersTyped, Counted, Releasing, Pointer!Nothing
    <3> QED BY <3>1 DEF Is
  <2> QED BY <2>1, <2>2, CountedStep
<1>4. CountedAlive' /\ Pointer!DeletedOnce' /\ FreshAlone'
  <2>1. gives'[t].step # "delete" /\ raw'[t].object = Null
    BY <1>1 DEF PointersTyped, Releasing, Pointer!Nothing
  <2>2. ~raw[t].counted => raw[t] = Fresh(o)
    BY DEF PointersTyped, Fresh
  <2>3. \A p \in Object : count'[p] = count[p] \/ raw[t] = Fresh(p)
    BY <1>1, <2>2 DEF PointersTyped
  <2>4. \A u \in Thread : u # t => gives'[u] = gives[u] /\ raw'[u] = raw[u]
    BY <1>1 DEF PointersTyped
  <2> QED BY <1>1, <1>2, <2>1, <2>3, <2>4, OperationKeeps
<1> QED BY <1>2, <1>3, <1>4

\* v = w
LEMMA CopyKeeps ==
  ASSUME PointersInv, NEW t \in Thread, NEW v \in OwnedVariable, NEW w \in OwnedVariable,
         Pointer!Copy(t, v, w)
  PROVE  PointersInv'
<1> USE DEF PointersInv
<1>0. /\ \A x \in OwnedVariable : px[x] \in Object => count[px[x]] > 0
      /\ \A x \in OwnedVariable : px[x] \in Object \union {Null}
  BY ReferenceCounts DEF PointersTyped
<1>1. /\ gives[t] = Pointer!Nothing /\ life' = life /\ raw' = raw
      /\ px' = [px EXCEPT ![v] = px[w]]
      /\ count' = IF px[w] = Null THEN count ELSE [count EXCEPT ![px[w]] = @ + 1]
      /\ gives' = IF px[v] = Null THEN gives ELSE [gives EXCEPT ![t] = Releasing(px[v])]
  BY DEF Pointer!Copy, Pointer!Owned, Pointer!Idle, Pointer!Acquire, Pointer!GiveUp, Releasing, Counted,
         PointersTyped
<1>2. PointersTyped'
  BY <1>0, <1>1 DEF PointersTyped, Releasing, Counted
<1>3. Pointer!CountExact'
  <2>1. SameBut(px, px', OwnedVariable, v) /\ SameBut(raw, raw', Thread, t)
        /\ SameBut(gives, gives', Thread, t)
    BY <1>1 DEF SameBut, PointersTyped
  <2>2. ASSUME NEW p \in Object
        PROVE  count'[p] = count[p] - Is(px[v], p) + Is(px'[v], p)
                             - Is(raw[t], Counted(p)) + Is(raw'[t], Counted(p))
                             - Is(gives[t], Releasing(p)) + Is(gives'[t], Releasing(p))
    <3>1. /\ px'[v] = px[w] /\ raw'[t] = raw[t]
          /\ gives[t] # Releasing(p) /\ (gives'[t] = Releasing(p) <=> px[v] = p)
          /\ count'[p] = count[p] + IF px[w] = p THEN 1 ELSE 0
          /\ count[p] \in Nat
      BY <1>0, <1>1, PointerAssumption DEF PointersTyped, Counted, Releasing, Pointer!Nothing
    <3> QED BY <3>1 DEF Is
  <2> QED BY <2>1, <2>2, CountedStep
<1>4. CountedAlive' /\ Pointer!DeletedOnce' /\ FreshAlone'
  <2>1. gives'[t].step # "delete"
    BY <1>1 DEF PointersTyped, Releasing, Pointer!Nothing
  <2>2. \A p \in Object : count'[p] = count[p] \/ count[p] > 0
    BY <1>0, <1>1 DEF PointersTyped
  <2>3. raw'[t] = raw[t] \/ (raw'[t].counted /\ count[raw'[t].object] > 0)
    BY <1>0, <1>1 DEF PointersTyped, Counted
  <2>4. \A u \in Thread : u # t => gives'[u] = gives[u] /\ raw'[u] = raw[u]
    BY <1>1 DEF PointersTyped
  <2> QED BY <1>1, <1>2, <2>1, <2>2, <2>3, <2>4, OperationKeeps
<1> QED BY <1>2, <1>3, <1>4

\* A copy into a variable of another thread.
LEMMA HandOverKeeps ==
  ASSUME PointersInv, NEW t \in Thread, NEW v \in OwnedVariable, NEW w \in OwnedVariable,
         Pointer!HandOver(t, v, w)
  PROVE  PointersInv'
<1> USE DEF PointersInv
<1>0. /\ \A x \in OwnedVariable : px[x] \in Object => count[px[x]] > 0
      /\ \A x \in OwnedVariable : px[x] \in Object \union {Null}
  BY ReferenceCounts DEF PointersTyped
<1>1. /\ gives[t] = Pointer!Nothing /\ life' = life /\ raw' = raw /\ gives' = gives
      /\ px[v] = Null /\ px[w] # Null
      /\ px' = [px EXCEPT ![v] = px[w]]
      /\ count' = [count EXCEPT ![px[w]] = @ + 1]
  BY DEF Pointer!HandOver, Pointer!Owned, Pointer!Idle, Pointer!Acquire, Pointer!GiveUp, Releasing, Counted,
         PointersTyped
<1>2. PointersTyped'
  BY <1>0, <1>1 DEF PointersTyped, Releasing, Counted
<1>3. Pointer!CountExact'
  <2>1. SameBut(px, px', OwnedVariable, v) /\ SameBut(raw, raw', Thread, t)
        /\ SameBut(gives, gives', Thread, t)
    BY <1>1 DEF SameBut, PointersTyped
  <2>2. ASSUME NEW p \in Object
        PROVE  count'[p] = count[p] - Is(px[v], p) + Is(px'[v], p)
                             - Is(raw[t], Counted(p)) + Is(raw'[t], Counted(p))
                             - Is(gives[t], Releasing(p)) + Is(gives'[t], Releasing(p))
    <3>1. /\ px'[v] = px[w] /\ raw'[t] = raw[t] /\ gives'[t] = gives[t] /\ px[v] # p
          /\ count'[p] = count[p] + IF px[w] = p THEN 1 ELSE 0
          /\ count[p] \in Nat
      BY <1>0, <1>1, PointerAssumption DEF PointersTyped, Counted, Releasing, Pointer!Nothing
    <3> QED BY <3>1 DEF Is
  <2> QED BY <2>1, <2>2, CountedStep
<1>4. CountedAlive' /\ Pointer!DeletedOnce' /\ FreshAlone'
  <2>1. gives'[t].step # "delete"
    BY <1>1 DEF PointersTyped, Releasing, Pointer!Nothing
  <2>2. \A p \in Object : count'[p] = count[p] \/ count[p] > 0
    BY <1>0, <1>1 DEF PointersTyped
  <2>3. raw'[t] = raw[t] \/ (raw'[t].counted /\ count[raw'[t].object] > 0)
    BY <1>0, <1>1 DEF PointersTyped, Counted
  <2>4. \A u \in Thread : u # t => gives'[u] = gives[u] /\ raw'[u] = raw[u]
    BY <1>1 DEF PointersTyped
  <2> QED BY <1>1, <1>2, <2>1, <2>2, <2>3, <2>4, OperationKeeps
<1> QED BY <1>2, <1>3, <1>4

\* reset()
LEMMA ResetKeeps ==
  ASSUME PointersInv, NEW t \in Thread, NEW v \in OwnedVariable, Pointer!Reset(t, v)
  PROVE  PointersInv'
<1> USE DEF PointersInv
<1>0. /\ \A x \in OwnedVariable : px[x] \in Object => count[px[x]] > 0
      /\ \A x \in OwnedVariable : px[x] \in Object \union {Null}
  BY ReferenceCounts DEF PointersTyped
<1>1. /\ gives[t] = Pointer!Nothing /\ life' = life /\ raw' = raw /\ count' = count
      /\ px' = [px EXCEPT ![v] = Null]
      /\ gives' = IF px[v] = Null THEN gives ELSE [gives EXCEPT ![t] = Releasing(px[v])]
  BY DEF Pointer!Reset, Pointer!Owned, Pointer!Idle, Pointer!Acquire, Pointer!GiveUp, Releasing, Counted,
         PointersTyped
<1>2. PointersTyped'
  BY <1>0, <1>1 DEF PointersTyped, Releasing, Counted
<1>3. Pointer!CountExact'
  <2>1. SameBut(px, px', OwnedVariable, v) /\ SameBut(raw, raw', Thread, t)
        /\ SameBut(gives, gives', Thread, t)
    BY <1>1 DEF SameBut, PointersTyped
  <2>2. ASSUME NEW p \in Object
        PROVE  count'[p] = count[p] - Is(px[v], p) + Is(px'[v], p)
                             - Is(raw[t], Counted(p)) + Is(raw'[t], Counted(p))
                             - Is(gives[t], Releasing(p)) + Is(gives'[t], Releasing(p))
    <3>1. /\ px'[v] # p /\ raw'[t] = raw[t] /\ count'[p] = count[p]
          /\ gives[t] # Releasing(p) /\ (gives'[t] = Releasing(p) <=> px[v] = p)
          /\ count[p] \in Nat
      BY <1>0, <1>1, PointerAssumption DEF PointersTyped, Counted, Releasing, Pointer!Nothing
    <3> QED BY <3>1 DEF Is
  <2> QED BY <2>1, <2>2, CountedStep
<1>4. CountedAlive' /\ Pointer!DeletedOnce' /\ FreshAlone'
  <2>1. gives'[t].step # "delete"
    BY <1>1 DEF PointersTyped, Releasing, Pointer!Nothing
  <2>2. \A p \in Object : count'[p] = count[p] \/ count[p] > 0
    BY <1>0, <1>1 DEF PointersTyped
  <2>3. raw'[t] = raw[t] \/ (raw'[t].counted /\ count[raw'[t].object] > 0)
    BY <1>0, <1>1 DEF PointersTyped, Counted
  <2>4. \A u \in Thread : u # t => gives'[u] = gives[u] /\ raw'[u] = raw[u]
    BY <1>1 DEF PointersTyped
  <2> QED BY <1>1, <1>2, <2>1, <2>2, <2>3, <2>4, OperationKeeps
<1> QED BY <1>2, <1>3, <1>4

\* detach()
LEMMA DetachKeeps ==
  ASSUME PointersInv, NEW t \in Thread, NEW v \in OwnedVariable, Pointer!Detach(t, v)
  PROVE  PointersInv'
<1> USE DEF PointersInv
<1>0. /\ \A x \in OwnedVariable : px[x] \in Object => count[px[x]] > 0
      /\ \A x \in OwnedVariable : px[x] \in Object \union {Null}
  BY ReferenceCounts DEF PointersTyped
<1>1. /\ gives[t] = Pointer!Nothing /\ life' = life /\ gives' = gives /\ count' = count
      /\ raw[t].object = Null /\ px[v] \in Object
      /\ px' = [px EXCEPT ![v] = Null]
      /\ raw' = [raw EXCEPT ![t] = Counted(px[v])]
  BY DEF Pointer!Detach, Pointer!Owned, Pointer!Idle, Pointer!Acquire, Pointer!GiveUp, Releasing, Counted,
         PointersTyped
<1>2. PointersTyped'
  BY <1>0, <1>1 DEF PointersTyped, Releasing, Counted
<1>3. Pointer!CountExact'
  <2>1. SameBut(px, px', OwnedVariable, v) /\ SameBut(raw, raw', Thread, t)
        /\ SameBut(gives, gives', Thread, t)
    BY <1>1 DEF SameBut, PointersTyped
  <2>2. ASSUME NEW p \in Object
        PROVE  count'[p] = count[p] - Is(px[v], p) + Is(px'[v], p)
                             - Is(raw[t], Counted(p)) + Is(raw'[t], Counted(p))
                             - Is(gives[t], Releasing(p)) + Is(gives'[t], Releasing(p))
    <3>1. /\ px'[v] # p /\ gives'[t] = gives[t] /\ count'[p] = count[p]
          /\ raw'[t] = Counted(px[v]) /\ count[p] \in Nat
      BY <1>1, PointerAssumption DEF PointersTyped
    <3>2. raw[t] # Counted(p)
      BY <1>1, PointerAssumption DEF Counted
    <3>3. Counted(px[v]) = Counted(p) <=> px[v] = p
      BY DEF Counted
    <3> QED BY <3>1, <3>2, <3>3 DEF Is
  <2> QED BY <2>1, <2>2, CountedStep
<1>4. CountedAlive' /\ Pointer!DeletedOnce' /\ FreshAlone'
  <2>1. gives'[t].step # "delete"
    BY <1>1 DEF PointersTyped, Releasing, Pointer!Nothing
  <2>2. \A p \in Object : count'[p] = count[p] \/ count[p] > 0
    BY <1>0, <1>1 DEF PointersTyped
  <2>3. raw'[t] = raw[t] \/ (raw'[t].counted /\ count[raw'[t].object] > 0)
    BY <1>0, <1>1 DEF PointersTyped, Counted
  <2>4. \A u \in Thread : u # t => gives'[u] = gives[u] /\ raw'[u] = raw[u]
    BY <1>1 DEF PointersTyped
  <2> QED BY <1>1, <1>2, <2>1, <2>2, <2>3, <2>4, OperationKeeps
<1> QED BY <1>2, <1>3, <1>4

\* v = std::move(w), for two variables or one.
LEMMA MoveKeeps ==
  ASSUME PointersInv, NEW t \in Thread, NEW v \in OwnedVariable, NEW w \in OwnedVariable,
         Pointer!Move(t, v, w)
  PROVE  PointersInv'
<1> USE DEF PointersInv
<1> DEFINE old == IF v = w THEN Null ELSE px[v]
           h == [px EXCEPT ![w] = Null]
<1>1. /\ gives[t] = Pointer!Nothing /\ life' = life /\ raw' = raw /\ count' = count
      /\ px' = [h EXCEPT ![v] = px[w]]
      /\ gives' = IF old = Null THEN gives ELSE [gives EXCEPT ![t] = Releasing(old)]
  BY DEF Pointer!Move, Pointer!Idle, Pointer!GiveUp, Releasing
<1>2. PointersTyped'
  BY <1>1 DEF PointersTyped, Releasing
<1>3. Pointer!CountExact'
  <2> SUFFICES ASSUME NEW p \in Object
               PROVE  count'[p] = Count(px', OwnedVariable, p) + Count(raw', Thread, Counted(p))
                                    + Count(gives', Thread, Releasing(p))
    BY CountStaysExact
  <2>1. /\ SameBut(px, h, OwnedVariable, w) /\ SameBut(h, px', OwnedVariable, v)
        /\ SameBut(gives, gives', Thread, t)
    BY <1>1 DEF SameBut, PointersTyped
  <2>2. /\ h[w] = Null /\ (v # w => h[v] = px[v]) /\ px'[v] = px[w]
    BY <1>1 DEF PointersTyped
  <2> HIDE DEF h
  <2>3. Count(px', OwnedVariable, p) = Count(h, OwnedVariable, p) - Is(h[v], p) + Is(px'[v], p)
    BY <2>1, CountChange, PointersFinite
  <2>4. Count(h, OwnedVariable, p) = Count(px, OwnedVariable, p) - Is(px[w], p) + Is(h[w], p)
    BY <2>1, CountChange, PointersFinite
  <2>5. Count(gives', Thread, Releasing(p)) = Count(gives, Thread, Releasing(p))
          - Is(gives[t], Releasing(p)) + Is(gives'[t], Releasing(p))
    BY <2>1, PartsChange
  <2>6. /\ gives[t] # Releasing(p) /\ (gives'[t] = Releasing(p) <=> v # w /\ px[v] = p)
        /\ Null # p
    BY <1>1, PointerAssumption DEF PointersTyped, Releasing, Pointer!Nothing
  <2>7. Count(raw', Thread, Counted(p)) = Count(raw, Thread, Counted(p)) /\ count'[p] = count[p]
    BY <1>1
  <2>8. Is(h[v], p) = IF v = w THEN 0 ELSE Is(px[v], p)
    BY <2>2, <2>6 DEF Is
  <2>9. /\ Is(px'[v], p) = Is(px[w], p) /\ Is(h[w], p) = 0 /\ Is(gives[t], Releasing(p)) = 0
        /\ Is(gives'[t], Releasing(p)) = IF v = w THEN 0 ELSE Is(px[v], p)
    BY <2>2, <2>6 DEF Is
  <2>10. Is(px[v], p) \in Nat /\ Is(px[w], p) \in Nat
    BY DEF Is
  <2>11. /\ count[p] = Count(px, OwnedVariable, p) + Count(raw, Thread, Counted(p))
                         + Count(gives, Thread, Releasing(p))
         /\ Count(px, OwnedVariable, p) \in Nat /\ Count(raw, Thread, Counted(p)) \in Nat
         /\ Count(gives, Thread, Releasing(p)) \in Nat
    BY CountIs
  <2> HIDE DEF old
  <2>12. Count(px', OwnedVariable, p) =
           Count(px, OwnedVariable, p) - IF v = w THEN 0 ELSE Is(px[v], p)
    BY <2>3, <2>4, <2>8, <2>9, <2>10, <2>11
  <2>13. Count(gives', Thread, Releasing(p)) =
           Count(gives, Thread, Releasing(p)) + IF v = w THEN 0 ELSE Is(px[v], p)
    BY <2>5, <2>9, <2>10, <2>11
  <2> QED BY <2>7, <2>10, <2>11, <2>12, <2>13
<1>4. CountedAlive' /\ Pointer!DeletedOnce' /\ FreshAlone'
  <2>1. gives'[t].step # "delete"
    BY <1>1 DEF PointersTyped, Releasing, Pointer!Nothing
  <2>2. \A u \in Thread : u # t => gives'[u] = gives[u] /\ raw'[u] = raw[u]
    BY <1>1 DEF PointersTyped
  <2>3. \A p \in Object : count'[p] = count[p]
    BY <1>1
  <2>4. raw'[t] = raw[t]
    BY <1>1
  <2> HIDE DEF old, h
  <2> QED BY <1>1, <1>2, <2>1, <2>2, <2>3, <2>4, OperationKeeps
<1> QED BY <1>2, <1>3, <1>4

\* The decrement: who gives up the last reference is the one who deletes the object.
LEMMA DecrementKeeps ==
  ASSUME PointersInv, NEW t \in Thread, Pointer!Decrement(t)
  PROVE  PointersInv'
<1> USE DEF PointersInv
<1> DEFINE o == gives[t].object
<1>1. /\ o \in Object /\ gives[t] = Releasing(o)
      /\ px' = px /\ life' = life /\ raw' = raw
      /\ count' = [count EXCEPT ![o] = @ - 1]
      /\ gives' = [gives EXCEPT ![t] = IF count'[o] = 0 THEN Deleting(o) ELSE Pointer!Nothing]
  BY DEF Pointer!Decrement, PointersTyped, Releasing, Deleting, Pointer!Nothing
<1>2. /\ count[o] \in Nat \ {0} /\ life[o] = "alive"
      /\ \A u \in Thread : gives[u] # Deleting(o)
      /\ \A u \in Thread : raw[u].object = o => raw[u].counted
  <2>1. count[o] > 0
    BY <1>1, ReferenceCounts DEF Releasing
  <2> QED BY <1>1, <2>1 DEF PointersTyped, CountedAlive, FreshAlone
<1>3. /\ count'[o] = count[o] - 1
      /\ \A p \in Object : p # o => count'[p] = count[p]
      /\ gives'[t] = IF count[o] = 1 THEN Deleting(o) ELSE Pointer!Nothing
      /\ \A u \in Thread : u # t => gives'[u] = gives[u]
  BY <1>1, <1>2 DEF PointersTyped
<1>4. PointersTyped'
  <2>1. count' \in [Object -> Nat]
    <3>1. count \in [Object -> Nat]
      BY DEF PointersTyped
    <3> HIDE DEF o
    <3>2. count[o] - 1 \in Nat
      BY <1>2
    <3> QED BY <1>1, <3>1, <3>2
  <2>2. Deleting(o) \in [step : {"release", "delete"}, object : Object]
    BY <1>1 DEF Deleting
  <2>3. gives' \in [Thread -> {Pointer!Nothing} \union [step : {"release", "delete"}, object : Object]]
    BY <1>1, <2>2 DEF PointersTyped
  <2> QED BY <1>1, <2>1, <2>3 DEF PointersTyped
<1>5. Pointer!CountExact'
  <2>1. SameBut(raw, raw', Thread, t) /\ SameBut(gives, gives', Thread, t)
    BY <1>1, <1>3 DEF SameBut
  <2>2. \A p \in Object : Count(px', OwnedVariable, p) = Count(px, OwnedVariable, p)
    BY <1>1
  <2>3. ASSUME NEW p \in Object
        PROVE  count'[p] = count[p] - Is(raw[t], Counted(p)) + Is(raw'[t], Counted(p))
                             - Is(gives[t], Releasing(p)) + Is(gives'[t], Releasing(p))
    <3>1. /\ raw'[t] = raw[t] /\ count[p] \in Nat
          /\ gives[t] = Releasing(p) <=> p = o
          /\ gives'[t] # Releasing(p)
      BY <1>1, <1>3 DEF PointersTyped, Releasing, Deleting, Pointer!Nothing
    <3>2. count'[p] = count[p] - IF p = o THEN 1 ELSE 0
      BY <1>3, <3>1
    <3> QED BY <3>1, <3>2 DEF Is
  <2> QED BY <2>1, <2>2, <2>3, CountedStep
<1>6. CountedAlive'
  <2> SUFFICES ASSUME NEW p \in Object, count'[p] > 0
               PROVE  life[p] = "alive" /\ \A u \in Thread : gives'[u] # Deleting(p)
    BY <1>1 DEF CountedAlive, Deleting
  <2>1. count[p] > 0 /\ (p = o => count[o] # 1)
    BY <1>2, <1>3
  <2>2. life[p] = "alive" /\ \A u \in Thread : gives[u] # Deleting(p)
    BY <2>1 DEF CountedAlive
  <2> QED BY <1>3, <2>1, <2>2 DEF Deleting, Pointer!Nothing
<1>7. Pointer!DeletedOnce'
  <2> SUFFICES ASSUME NEW u \in Thread, NEW w \in Thread, gives'[u].step = "delete"
               PROVE  /\ life[gives'[u].object] = "alive" /\ count'[gives'[u].object] = 0
                      /\ gives'[w] = gives'[u] => w = u
    BY <1>1 DEF Pointer!DeletedOnce
  <2>1. CASE u = t
    <3>1. count[o] = 1 /\ gives'[u] = Deleting(o) /\ gives'[u].object = o
      BY <1>3, <2>1 DEF Deleting, Pointer!Nothing
    <3> QED BY <1>2, <1>3, <2>1, <3>1
  <2>2. CASE u # t
    <3>1. /\ gives'[u] = gives[u] /\ gives[u].object \in Object
          /\ gives[u] = Deleting(gives[u].object)
      BY <1>3, <2>2 DEF PointersTyped, Deleting, Pointer!Nothing
    <3>2. gives[u].object # o
      BY <1>2, <3>1
    <3>3. life[gives[u].object] = "alive" /\ count[gives[u].object] = 0
      BY <3>1 DEF Pointer!DeletedOnce
    <3>4. gives'[w] = gives'[u] => w = u
      BY <1>3, <3>1, <3>2 DEF Pointer!DeletedOnce, Deleting, Pointer!Nothing
    <3> QED BY <1>3, <3>1, <3>2, <3>3, <3>4
  <2> QED BY <2>1, <2>2
<1>8. FreshAlone'
  <2> SUFFICES ASSUME NEW u \in Thread, raw[u].object \in Object, ~raw[u].counted
               PROVE  /\ life[raw[u].object] = "alive" /\ count'[raw[u].object] = 0
                      /\ \A w \in Thread : gives'[w] # Deleting(raw[u].object)
                      /\ \A w \in Thread : raw[w].object = raw[u].object => w = u
    BY <1>1 DEF FreshAlone, Deleting
  <2>1. raw[u].object # o
    BY <1>2
  <2>2. /\ life[raw[u].object] = "alive" /\ count[raw[u].object] = 0
        /\ \A w \in Thread : gives[w] # Deleting(raw[u].object)
        /\ \A w \in Thread : raw[w].object = raw[u].object => w = u
    BY DEF FreshAlone
  <2> QED BY <1>3, <2>1, <2>2 DEF Deleting, Pointer!Nothing
<1> QED BY <1>4, <1>5, <1>6, <1>7, <1>8

\* The object is deleted.
LEMMA DeleteKeeps ==
  ASSUME PointersInv, NEW t \in Thread, Pointer!Delete(t)
  PROVE  PointersInv'
<1> USE DEF PointersInv
<1> DEFINE o == gives[t].object
<1>1. /\ gives[t].step = "delete" /\ o \in Object /\ gives[t] = Deleting(o)
      /\ px' = px /\ count' = count /\ raw' = raw
      /\ life' = [life EXCEPT ![o] = "deleted"] /\ gives' = [gives EXCEPT ![t] = Pointer!Nothing]
  BY DEF Pointer!Delete, PointersTyped, Deleting, Pointer!Nothing
<1>2. /\ count[o] = 0
      /\ \A u \in Thread : gives[u] = Deleting(o) => u = t
      /\ \A u \in Thread : raw[u].object = o => raw[u].counted
  BY <1>1 DEF Pointer!DeletedOnce, FreshAlone, PointersTyped
<1>3. /\ \A p \in Object : p # o => life'[p] = life[p]
      /\ gives'[t] = Pointer!Nothing
      /\ \A u \in Thread : u # t => gives'[u] = gives[u]
  BY <1>1 DEF PointersTyped
<1>4. PointersTyped'
  BY <1>1 DEF PointersTyped
<1>5. Pointer!CountExact'
  <2>1. SameBut(raw, raw', Thread, t) /\ SameBut(gives, gives', Thread, t)
    BY <1>1, <1>3 DEF SameBut
  <2>2. \A p \in Object : Count(px', OwnedVariable, p) = Count(px, OwnedVariable, p)
    BY <1>1
  <2>3. ASSUME NEW p \in Object
        PROVE  count'[p] = count[p] - Is(raw[t], Counted(p)) + Is(raw'[t], Counted(p))
                             - Is(gives[t], Releasing(p)) + Is(gives'[t], Releasing(p))
    <3>1. /\ raw'[t] = raw[t] /\ count[p] \in Nat /\ count'[p] = count[p]
          /\ gives[t] # Releasing(p) /\ gives'[t] # Releasing(p)
      BY <1>1, <1>3 DEF PointersTyped, Releasing, Deleting, Pointer!Nothing
    <3> QED BY <3>1 DEF Is
  <2> QED BY <2>1, <2>2, <2>3, CountedStep
<1>6. CountedAlive'
  <2> SUFFICES ASSUME NEW p \in Object, count[p] > 0
               PROVE  life'[p] = "alive" /\ \A u \in Thread : gives'[u] # Deleting(p)
    BY <1>1 DEF CountedAlive, Deleting
  <2>1. life[p] = "alive" /\ \A u \in Thread : gives[u] # Deleting(p)
    BY DEF CountedAlive
  <2>2. p # o
    BY <1>2
  <2> QED BY <1>3, <2>1, <2>2 DEF Deleting, Pointer!Nothing
<1>7. Pointer!DeletedOnce'
  <2> SUFFICES ASSUME NEW u \in Thread, NEW w \in Thread, gives'[u].step = "delete"
               PROVE  /\ life'[gives'[u].object] = "alive" /\ count[gives'[u].object] = 0
                      /\ gives'[w] = gives'[u] => w = u
    BY <1>1 DEF Pointer!DeletedOnce
  <2>1. /\ u # t /\ gives'[u] = gives[u] /\ gives[u].object \in Object
        /\ gives[u] = Deleting(gives[u].object)
    BY <1>3 DEF PointersTyped, Deleting, Pointer!Nothing
  <2>2. gives[u].object # o
    BY <1>2, <2>1
  <2>3. life[gives[u].object] = "alive" /\ count[gives[u].object] = 0
    BY <2>1 DEF Pointer!DeletedOnce
  <2>4. gives'[w] = gives'[u] => w = u
    BY <1>3, <2>1 DEF Pointer!DeletedOnce, Deleting, Pointer!Nothing
  <2> QED BY <1>3, <2>1, <2>2, <2>3, <2>4
<1>8. FreshAlone'
  <2> SUFFICES ASSUME NEW u \in Thread, raw[u].object \in Object, ~raw[u].counted
               PROVE  /\ life'[raw[u].object] = "alive" /\ count[raw[u].object] = 0
                      /\ \A w \in Thread : gives'[w] # Deleting(raw[u].object)
                      /\ \A w \in Thread : raw[w].object = raw[u].object => w = u
    BY <1>1 DEF FreshAlone, Deleting
  <2>1. raw[u].object # o
    BY <1>2
  <2>2. /\ life[raw[u].object] = "alive" /\ count[raw[u].object] = 0
        /\ \A w \in Thread : gives[w] # Deleting(raw[u].object)
        /\ \A w \in Thread : raw[w].object = raw[u].object => w = u
    BY DEF FreshAlone
  <2> QED BY <1>3, <2>1, <2>2 DEF Deleting, Pointer!Nothing
<1> QED BY <1>4, <1>5, <1>6, <1>7, <1>8

LEMMA PointersNext ==
  ASSUME PointersInv, Pointer!Next
  PROVE  PointersInv'
<1>1. PICK t \in Thread : Pointer!Operate(t) \/ Pointer!Release(t)
  BY DEF Pointer!Next
<1>2. CASE Pointer!Operate(t)
  BY <1>2, NewKeeps, AdoptKeeps, ResetKeeps, DetachKeeps, CopyKeeps, MoveKeeps, HandOverKeeps
  DEF Pointer!Operate
<1>3. CASE Pointer!Release(t)
  BY <1>3, DecrementKeeps, DeleteKeeps DEF Pointer!Release
<1> QED BY <1>1, <1>2, <1>3

\* The count of an object is that of the references to it, nothing refers to a deleted
\* object, and one thread deletes it, for any number of threads, variables and objects
\* (intrusive_ptr.hpp).
THEOREM ReferencesAreCounted == Spec => []ReferencesExact
<1> DEFINE Inv == used = "pointer" => PointersInv
<1>1. Init => Inv
  BY PointersInit DEF Init
<1>2. Inv /\ [Next]_vars => Inv'
  <2> SUFFICES ASSUME Inv, [Next]_vars, used' = "pointer" PROVE PointersInv'
    OBVIOUS
  <2>1. CASE used = "pointer" /\ Pointer!Next
    BY <2>1, PointersNext
  <2>2. CASE UNCHANGED vars
    <3>1. used = "pointer" /\ px' = px /\ count' = count /\ life' = life /\ raw' = raw /\ gives' = gives
      BY <2>2 DEF vars, pointers
    <3> QED BY <3>1 DEF PointersInv, PointersTyped, Pointer!CountExact, Pointer!References, CountedAlive,
              Pointer!DeletedOnce, FreshAlone
  <2> QED BY <2>1, <2>2 DEF Next
<1>3. Inv => ReferencesExact
  <2> SUFFICES ASSUME PointersInv, used = "pointer" PROVE Pointer!NoDangling
    BY DEF ReferencesExact, PointersInv
  <2>1. \A o \in Object : count[o] = Pointer!References(o)
    BY DEF PointersInv, Pointer!CountExact
  <2> QED BY <2>1 DEF PointersInv, CountedAlive, Deleting, Pointer!NoDangling
<1> HIDE DEF Inv
<1> QED BY <1>1, <1>2, <1>3, PTL DEF Spec

-----------------------------------------------------------------------------
(* fallback_arena *)

\* The blocks of the storage in use.
Stacked == Fallback!InUse \intersect Fallback!Storage

FallbackTyped ==
  /\ live \in [Fallback!Address -> Nat]
  /\ nfree \in 0..Size /\ free \in SUBSET Heap

\* Each block of the storage ends where the next one begins, the last one at the boundary.
BlocksContiguous ==
  \A a \in Stacked :
    /\ a + live[a] = nfree \/ a + live[a] \in Stacked
    /\ a + live[a] <= nfree
    /\ \A b \in Stacked : a < b => a + live[a] <= b

\* RoutedHome, with the sum that the theorems on sums are about.
BlocksFill == free = Fallback!InUse \intersect Heap /\ nfree = SumOn(live, Stacked)

FallbackInv == FallbackTyped /\ BlocksContiguous /\ BlocksFill

LEMMA FillIsRoutedHome == BlocksFill <=> Fallback!RoutedHome
BY DEF BlocksFill, Stacked, Fallback!RoutedHome, Fallback!MapThenSumSet, Fallback!MapThenFoldSet,
       SumOn, MapThenSumSet, MapThenFoldSet

LEMMA StackedFinite ==
  ASSUME FallbackTyped
  PROVE  /\ Stacked \in SUBSET Nat /\ IsFiniteSet(Stacked) /\ Terms(live, Stacked)
         /\ \A a \in Stacked : a < Size /\ live[a] \in Nat \ {0}
<1>1. IsFiniteSet(Fallback!Storage)
  BY FallbackAssumption, FS_Interval DEF Fallback!Storage
<1>2. IsFiniteSet(Stacked)
  BY <1>1, FS_Subset DEF Stacked
<1>3. \A a \in Stacked : a \in Nat /\ a < Size /\ live[a] \in Nat \ {0}
  BY FallbackAssumption DEF Stacked, Fallback!InUse, Fallback!Storage, Fallback!Address, FallbackTyped
<1> QED BY <1>2, <1>3 DEF Terms

LEMMA FallbackInit == Fallback!Init => FallbackInv
<1> SUFFICES ASSUME Fallback!Init PROVE FallbackInv
  OBVIOUS
<1>1. FallbackTyped
  BY FallbackAssumption DEF Fallback!Init, FallbackTyped
<1>2. Fallback!InUse = {} /\ Stacked = {}
  BY DEF Fallback!Init, Fallback!InUse, Stacked
<1>3. SumOn(live, Stacked) = 0
  BY <1>1, <1>2, StackedFinite, SumType
<1> QED BY <1>1, <1>2, <1>3 DEF FallbackInv, BlocksContiguous, BlocksFill, Fallback!Init

\* A request that fits moves the boundary over a new block.
LEMMA OrderedAllocateKeeps ==
  ASSUME FallbackInv, NEW n \in HeapRequest, Fallback!OrderedAllocate(n)
  PROVE  FallbackInv'
<1> USE DEF FallbackInv
<1>1. /\ n \in Nat \ {0} /\ nfree \in Nat /\ nfree + n <= Size
      /\ live' = [live EXCEPT ![nfree] = n] /\ nfree' = nfree + n /\ free' = free
  BY FallbackAssumption DEF Fallback!OrderedAllocate, Fallback!Fits, FallbackTyped
<1>2. nfree \in Fallback!Storage /\ nfree \notin Stacked /\ nfree \notin Heap
  <2>1. nfree \in Fallback!Storage /\ nfree \notin Heap
    BY <1>1, FallbackAssumption DEF Fallback!Storage
  <2>2. nfree \notin Stacked
    BY <1>1, StackedFinite DEF BlocksContiguous
  <2> QED BY <2>1, <2>2
<1>3. FallbackTyped'
  BY <1>1, <1>2 DEF FallbackTyped, Fallback!Address
<1>4. /\ live'[nfree] = n /\ \A a \in Fallback!Address : a # nfree => live'[a] = live[a]
      /\ nfree \in Fallback!Address
  BY <1>1, <1>2 DEF FallbackTyped, Fallback!Address
<1>5. Stacked' = Stacked \cup {nfree} /\ (Fallback!InUse \intersect Heap)' = Fallback!InUse \intersect Heap
  BY <1>1, <1>2, <1>4 DEF Stacked, Fallback!InUse
<1>6. BlocksContiguous'
  <2> SUFFICES ASSUME NEW a \in Stacked'
               PROVE  /\ a + live'[a] = nfree' \/ a + live'[a] \in Stacked'
                      /\ a + live'[a] <= nfree'
                      /\ \A b \in Stacked' : a < b => a + live'[a] <= b
    BY DEF BlocksContiguous
  <2>1. CASE a = nfree
    BY <1>1, <1>4, <1>5, <2>1, StackedFinite DEF BlocksContiguous
  <2>2. CASE a # nfree
    <3>1. a \in Stacked /\ live'[a] = live[a]
      BY <1>4, <1>5, <2>2 DEF Stacked, Fallback!InUse
    <3>2. a \in Nat /\ live[a] \in Nat
      BY <3>1, StackedFinite
    <3> QED BY <1>1, <1>5, <3>1, <3>2, StackedFinite DEF BlocksContiguous
  <2> QED BY <2>1, <2>2
<1>7. BlocksFill'
  <2>1. Terms(live', Stacked \cup {nfree}) /\ \A a \in Stacked : live'[a] = live[a]
    BY <1>1, <1>2, <1>4, StackedFinite DEF Terms, Stacked, Fallback!InUse
  <2>2. SumOn(live', Stacked \cup {nfree}) = live'[nfree] + SumOn(live', Stacked)
    BY <1>2, <2>1, StackedFinite, SumAdd
  <2>3. SumOn(live', Stacked) = SumOn(live, Stacked)
    BY <2>1, StackedFinite, SumSame
  <2>4. SumOn(live', Stacked \cup {nfree}) = nfree + n
    BY <1>1, <1>4, <2>2, <2>3 DEF BlocksFill
  <2> QED BY <1>1, <1>5, <2>4 DEF BlocksFill
<1> QED BY <1>3, <1>6, <1>7

\* What changes no block of the storage.
LEMMA HeapKeeps ==
  ASSUME FallbackInv, FallbackTyped', nfree' = nfree,
         \A a \in Fallback!Storage : live'[a] = live[a], free' = Fallback!InUse' \intersect Heap
  PROVE  FallbackInv'
<1> USE DEF FallbackInv
<1>1. Stacked' = Stacked /\ \A a \in Stacked : live'[a] = live[a]
  BY DEF Stacked, Fallback!InUse, Fallback!Address
<1>2. BlocksContiguous'
  BY <1>1 DEF BlocksContiguous
<1>3. SumOn(live', Stacked) = SumOn(live, Stacked)
  BY <1>1, StackedFinite, SumSame
<1>4. BlocksFill'
  BY <1>1, <1>3 DEF BlocksFill
<1> QED BY <1>2, <1>4

LEMMA HeapAllocateKeeps ==
  ASSUME FallbackInv, NEW n \in HeapRequest, Fallback!HeapAllocate(n)
  PROVE  FallbackInv'
<1> USE DEF FallbackInv
<1>1. PICK a \in Heap \ free :
        free' = free \union {a} /\ live' = [live EXCEPT ![a] = n] /\ nfree' = nfree
  BY DEF Fallback!HeapAllocate
<1>2. a \notin Fallback!Storage /\ n \in Nat \ {0} /\ a \in Fallback!Address
  BY FallbackAssumption DEF Fallback!Storage, Fallback!Address
<1>3. FallbackTyped'
  BY <1>1, <1>2 DEF FallbackTyped
<1>4. live'[a] = n /\ \A b \in Fallback!Address : b # a => live'[b] = live[b]
  BY <1>1, <1>2 DEF FallbackTyped
<1>5. free' = Fallback!InUse' \intersect Heap
  BY <1>1, <1>2, <1>4 DEF BlocksFill, Fallback!InUse, Fallback!Address
<1>6. \A b \in Fallback!Storage : live'[b] = live[b]
  BY <1>2, <1>4 DEF Fallback!Address
<1> QED BY <1>1, <1>3, <1>5, <1>6, HeapKeeps

\* A block given back: the highest one of the storage, or one of the heap's.
LEMMA FallbackDeallocateKeeps ==
  ASSUME FallbackInv, NEW a \in Fallback!Address, Fallback!Deallocate(a)
  PROVE  FallbackInv'
<1> USE DEF FallbackInv
<1>1. live[a] > 0 /\ live' = [live EXCEPT ![a] = 0] /\ a \in Fallback!InUse
  BY DEF Fallback!Deallocate, Fallback!MayRelease, Fallback!InUse
<1>2. live'[a] = 0 /\ \A b \in Fallback!Address : b # a => live'[b] = live[b]
  BY <1>1 DEF FallbackTyped
<1>3. CASE a \in Fallback!Storage
  <2>1. nfree' = nfree - live[a] /\ free' = free /\ a \notin Heap /\ a \in Stacked
    BY <1>1, <1>3, FallbackAssumption
    DEF Fallback!Deallocate, Fallback!Contains, Fallback!Storage, Stacked
  <2>2. \A b \in Stacked : b <= a
    <3>1. a = Fallback!Max(Stacked)
      BY <1>3 DEF Fallback!Deallocate, Fallback!MayRelease, Stacked
    <3>2. \E x \in Stacked : \A y \in Stacked : x >= y
      <4>1. Stacked \in SUBSET Int /\ Stacked # {} /\ \A x \in Stacked : x <= Size
        BY <2>1, StackedFinite, FallbackAssumption
      <4>2. Size \in Int
        BY FallbackAssumption
      <4> QED BY <4>1, <4>2, GreatestElement
    <3> QED BY <3>1, <3>2, StackedFinite DEF Fallback!Max
  <2>3. /\ a \in Nat /\ live[a] \in Nat \ {0} /\ a + live[a] = nfree /\ nfree' = a
        /\ nfree \in Nat /\ nfree <= Size
    BY <2>1, <2>2, StackedFinite DEF BlocksContiguous, FallbackTyped
  <2>4. FallbackTyped'
    <3>1. nfree' \in 0..Size
      BY <2>3, FallbackAssumption
    <3> QED BY <1>1, <2>1, <3>1 DEF FallbackTyped
  <2>5. Stacked' = Stacked \ {a} /\ (Fallback!InUse \intersect Heap)' = Fallback!InUse \intersect Heap
    BY <1>2, <2>1 DEF Stacked, Fallback!InUse
  <2>6. BlocksContiguous'
    <3> SUFFICES ASSUME NEW b \in Stacked'
                 PROVE  /\ b + live'[b] = nfree' \/ b + live'[b] \in Stacked'
                        /\ b + live'[b] <= nfree'
                        /\ \A c \in Stacked' : b < c => b + live'[b] <= c
      BY DEF BlocksContiguous
    <3>1. b \in Stacked /\ b # a /\ live'[b] = live[b] /\ b \in Nat /\ live[b] \in Nat
      BY <1>2, <2>5, StackedFinite DEF Stacked, Fallback!InUse
    <3>2. b < a /\ b + live[b] <= a
      BY <2>1, <2>2, <2>3, <3>1 DEF BlocksContiguous
    <3>3. b + live[b] = a \/ b + live[b] \in Stacked \ {a}
      BY <2>3, <3>1, <3>2 DEF BlocksContiguous
    <3> QED BY <2>1, <2>3, <2>5, <3>1, <3>2, <3>3 DEF BlocksContiguous
  <2>7. BlocksFill'
    <3>1. IsFiniteSet(Stacked \ {a}) /\ Terms(live, Stacked \ {a})
      BY StackedFinite, FS_RemoveElement DEF Terms
    <3>2. \A b \in Stacked \ {a} : live[b] = live'[b]
      BY <1>2 DEF Stacked, Fallback!InUse
    <3>3. SumOn(live, Stacked) = live[a] + SumOn(live, Stacked \ {a})
      BY <2>1, StackedFinite, SumRemove
    <3>4. SumOn(live, Stacked \ {a}) = SumOn(live', Stacked \ {a})
      BY <3>1, <3>2, SumSame
    <3>5. SumOn(live, Stacked \ {a}) \in Int
      BY <3>1, SumType
    <3>6. SumOn(live', Stacked \ {a}) = nfree'
      BY <2>1, <2>3, <3>3, <3>4, <3>5 DEF BlocksFill
    <3> QED BY <2>1, <2>5, <3>6 DEF BlocksFill
  <2> QED BY <2>4, <2>6, <2>7
<1>4. CASE a \notin Fallback!Storage
  <2>1. nfree' = nfree /\ free' = free \ {a} /\ a \in Heap
    BY <1>4 DEF Fallback!Deallocate, Fallback!Contains, Fallback!Address
  <2>2. FallbackTyped'
    BY <1>1, <2>1 DEF FallbackTyped
  <2>3. \A b \in Fallback!Storage : live'[b] = live[b]
    BY <1>2, <1>4 DEF Fallback!Address
  <2>4. free' = Fallback!InUse' \intersect Heap
    BY <1>1, <1>2, <2>1 DEF BlocksFill, Fallback!InUse
  <2> QED BY <2>1, <2>2, <2>3, <2>4, HeapKeeps
<1> QED BY <1>3, <1>4

LEMMA FallbackNext ==
  ASSUME FallbackInv, Fallback!Next
  PROVE  FallbackInv'
BY OrderedAllocateKeeps, HeapAllocateKeeps, FallbackDeallocateKeeps
DEF Fallback!Next, Fallback!Allocate

-----------------------------------------------------------------------------
(* binexp_arena *)

\* What a list holds, and that it holds nothing twice.
In(s) == {s[i] : i \in 1..Len(s)}
Distinct(s) == \A i, j \in 1..Len(s) : s[i] = s[j] => i = j

\* Is a on one of the free lists?
Binned(a) == \E i \in Binexp!Bin : a \in In(free[i])

BinexpTyped ==
  /\ free \in [Binexp!Bin -> Seq(BlockAddress)]
  /\ nfree \in [BlockAddress -> Nat]
  /\ live \in [BlockAddress -> {0} \union BinRequest]
  /\ pc \in BOOLEAN /\ want \in Nat

\* OnePlace, in the terms of lists.
BlocksPlaced ==
  /\ \A i \in Binexp!Bin : Distinct(free[i])
  /\ \A i, j \in Binexp!Bin, a \in BlockAddress : a \in In(free[i]) /\ a \in In(free[j]) => i = j
  /\ \A a \in BlockAddress : nfree[a] > 0 <=> (live[a] > 0 \/ Binned(a))
  /\ \A a \in BlockAddress : Binned(a) => live[a] = 0

\* SizesAgree, in the terms of lists.
BlocksSized ==
  /\ \A a \in BlockAddress :
       live[a] > 0 => live[a] <= nfree[a] /\ nfree[a] = Binexp!BlockSize(live[a])
  /\ \A i \in Binexp!Bin, a \in BlockAddress :
       a \in In(free[i]) => nfree[a] = 2 ^ i /\ LinkSize <= 2 ^ i

DisposedEmpty == ~pc => \A i \in Binexp!Bin : free[i] = <<>>

BinexpInv == BinexpTyped /\ Binexp!BinsBounded /\ BlocksPlaced /\ BlocksSized /\ DisposedEmpty

LEMMA EmptyList == In(<<>>) = {} /\ Distinct(<<>>)
BY DEF In, Distinct

\* A list without its head.
LEMMA TailOf ==
  ASSUME NEW S, NEW s \in Seq(S), s # <<>>, Distinct(s)
  PROVE  /\ Head(s) \in S /\ Head(s) \in In(s) /\ Tail(s) \in Seq(S) /\ Len(Tail(s)) = Len(s) - 1
         /\ In(Tail(s)) = In(s) \ {Head(s)} /\ Distinct(Tail(s))
<1>1. /\ Len(s) \in Nat \ {0} /\ Head(s) = s[1] /\ s[1] \in S /\ Tail(s) \in Seq(S)
      /\ Len(Tail(s)) = Len(s) - 1
      /\ \A i \in 1..(Len(s) - 1) : Tail(s)[i] = s[i + 1]
  OBVIOUS
<1>2. Head(s) \in In(s)
  BY <1>1 DEF In
<1>3. Distinct(Tail(s))
  <2> SUFFICES ASSUME NEW i \in 1..Len(Tail(s)), NEW j \in 1..Len(Tail(s)), Tail(s)[i] = Tail(s)[j]
               PROVE  i = j
    BY DEF Distinct
  <2>1. i + 1 \in 1..Len(s) /\ j + 1 \in 1..Len(s) /\ s[i + 1] = s[j + 1]
    BY <1>1
  <2>2. i + 1 = j + 1
    BY <2>1 DEF Distinct
  <2> QED BY <1>1, <2>2
<1>4. ASSUME NEW x \in In(Tail(s)) PROVE x \in In(s) \ {Head(s)}
  <2>1. PICK i \in 1..Len(Tail(s)) : x = Tail(s)[i]
    BY DEF In
  <2>2. i + 1 \in 1..Len(s) /\ x = s[i + 1] /\ i + 1 # 1 /\ 1 \in 1..Len(s)
    BY <1>1, <2>1
  <2>3. x # s[1]
    BY <2>2 DEF Distinct
  <2> QED BY <1>1, <2>2, <2>3 DEF In
<1>5. ASSUME NEW x \in In(s), x # Head(s) PROVE x \in In(Tail(s))
  <2>1. PICK i \in 1..Len(s) : x = s[i]
    BY DEF In
  <2>2. i - 1 \in 1..Len(Tail(s)) /\ Tail(s)[i - 1] = x
    BY <1>1, <1>5, <2>1
  <2> QED BY <2>2 DEF In
<1> QED BY <1>1, <1>2, <1>3, <1>4, <1>5

\* A list with a new head.
LEMMA ListWith ==
  ASSUME NEW S, NEW s \in Seq(S), NEW a \in S, a \notin In(s), Distinct(s)
  PROVE  /\ <<a>> \o s \in Seq(S) /\ Len(<<a>> \o s) = Len(s) + 1
         /\ In(<<a>> \o s) = In(s) \union {a} /\ Distinct(<<a>> \o s)
<1> DEFINE t == <<a>> \o s
<1>1. /\ t \in Seq(S) /\ Len(s) \in Nat /\ Len(t) = Len(s) + 1
      /\ t[1] = a /\ \A i \in 2..(Len(s) + 1) : t[i] = s[i - 1]
  OBVIOUS
<1> HIDE DEF t
<1>2. \A i \in 2..(Len(s) + 1) : i - 1 \in 1..Len(s)
  BY <1>1
<1>3. \A i \in 1..Len(s) : s[i] # a
  BY DEF In
<1>4. Distinct(t)
  <2> SUFFICES ASSUME NEW i \in 1..Len(t), NEW j \in 1..Len(t), t[i] = t[j] PROVE i = j
    BY DEF Distinct
  <2>1. CASE i = 1
    BY <1>1, <1>2, <1>3, <2>1
  <2>2. CASE j = 1
    BY <1>1, <1>2, <1>3, <2>2
  <2>3. CASE i # 1 /\ j # 1
    <3>1. i \in 2..(Len(s) + 1) /\ j \in 2..(Len(s) + 1)
      BY <1>1, <2>3
    <3>2. s[i - 1] = s[j - 1]
      BY <1>1, <3>1
    <3>3. i - 1 = j - 1
      BY <1>2, <3>1, <3>2 DEF Distinct
    <3> QED BY <3>1, <3>3
  <2> QED BY <2>1, <2>2, <2>3
<1>5. ASSUME NEW x \in In(t) PROVE x \in In(s) \union {a}
  <2>1. PICK i \in 1..Len(t) : x = t[i]
    BY DEF In
  <2>2. i = 1 \/ i \in 2..(Len(s) + 1)
    BY <1>1
  <2> QED BY <1>1, <1>2, <2>1, <2>2 DEF In
<1>6. a \in In(t)
  BY <1>1 DEF In
<1>7. ASSUME NEW x \in In(s) PROVE x \in In(t)
  <2>1. PICK i \in 1..Len(s) : x = s[i]
    BY DEF In
  <2>2. i + 1 \in 1..Len(t) /\ i + 1 \in 2..(Len(s) + 1) /\ (i + 1) - 1 = i
    BY <1>1
  <2>3. x = t[i + 1]
    BY <1>1, <2>1, <2>2
  <2> QED BY <2>2, <2>3 DEF In
<1> QED BY <1>1, <1>4, <1>5, <1>6, <1>7 DEF t

\* The bin of a size: its blocks are larger than the size.
LEMMA IndexIs ==
  ASSUME NEW n \in BinRequest
  PROVE  /\ Binexp!Index(n) \in Nat /\ 2 ^ Binexp!Index(n) \in Nat /\ n < 2 ^ Binexp!Index(n)
         /\ n \in Nat \ {0}
<1> DEFINE P(i) == 2^i > n /\ \A j \in 0..(i - 1) : 2^j <= n
<1>1. n \in Nat \ {0} /\ (\A i \in 0..n : 2^i \in Nat) /\ \E i \in 0..n : P(i)
  BY BinexpAssumption, ExponentAssumption
<1>2. Binexp!Index(n) = CHOOSE i \in 0..n : P(i)
  BY DEF Binexp!Index
<1>3. Binexp!Index(n) \in 0..n /\ 2 ^ Binexp!Index(n) > n
  <2> HIDE DEF P
  <2>1. Binexp!Index(n) \in 0..n /\ P(Binexp!Index(n))
    BY <1>1, <1>2
  <2> QED BY <2>1 DEF P
<1> QED BY <1>1, <1>3

\* The size of the block for a request.
LEMMA BlockSizeIs ==
  ASSUME NEW n \in BinRequest
  PROVE  /\ n \in Nat \ {0} /\ Binexp!BlockSize(n) \in Nat /\ n <= Binexp!BlockSize(n)
         /\ ~Binexp!Direct(n) =>
              /\ Binexp!Index(n) \in Binexp!Bin
              /\ Binexp!BlockSize(n) = 2 ^ Binexp!Index(n) /\ LinkSize <= 2 ^ Binexp!Index(n)
BY IndexIs, BinexpAssumption DEF Binexp!BlockSize, Binexp!Direct, Binexp!Bin

LEMMA BinexpInit == Binexp!Init => BinexpInv
<1> SUFFICES ASSUME Binexp!Init PROVE BinexpInv
  OBVIOUS
<1>1. BinexpTyped
  BY BinexpAssumption DEF Binexp!Init, BinexpTyped
<1>2. \A i \in Binexp!Bin : free[i] = <<>>
  BY DEF Binexp!Init
<1>3. \A a : ~Binned(a)
  BY <1>2, EmptyList DEF Binned
<1>4. Binexp!BinsBounded
  BY <1>1, <1>2 DEF Binexp!BinsBounded, BinexpTyped
<1>5. BlocksPlaced
  BY <1>2, <1>3, EmptyList DEF BlocksPlaced, Binexp!Init
<1>6. BlocksSized
  BY <1>2, EmptyList DEF BlocksSized, Binexp!Init
<1> QED BY <1>1, <1>2, <1>4, <1>5, <1>6 DEF BinexpInv, DisposedEmpty

\* A request met from the bin of its size.
LEMMA AllocateBinnedKeeps ==
  ASSUME BinexpInv, NEW n \in BinRequest, ~Binexp!Direct(n), free[Binexp!Index(n)] # <<>>,
         live' = [live EXCEPT ![Head(free[Binexp!Index(n)])] = n],
         free' = [free EXCEPT ![Binexp!Index(n)] = Tail(@)], nfree' = nfree, pc' = pc, want' = want, pc
  PROVE  BinexpInv'
<1> USE DEF BinexpInv
<1> DEFINE k == Binexp!Index(n)
           a == Head(free[k])
<1>1. /\ k \in Binexp!Bin /\ n \in Nat \ {0} /\ n <= 2 ^ k /\ 2 ^ k \in Nat /\ LinkSize <= 2 ^ k
      /\ Binexp!BlockSize(n) = 2 ^ k
  BY BlockSizeIs
<1>2. free[k] \in Seq(BlockAddress) /\ Distinct(free[k])
  BY <1>1 DEF BinexpTyped, BlocksPlaced
<1>3. /\ a \in BlockAddress /\ a \in In(free[k]) /\ Tail(free[k]) \in Seq(BlockAddress)
      /\ Len(Tail(free[k])) = Len(free[k]) - 1
      /\ In(Tail(free[k])) = In(free[k]) \ {a} /\ Distinct(Tail(free[k]))
  BY <1>2, TailOf
<1>4. /\ live'[a] = n /\ \A b \in BlockAddress : b # a => live'[b] = live[b]
      /\ free'[k] = Tail(free[k]) /\ \A i \in Binexp!Bin : i # k => free'[i] = free[i]
  BY <1>1, <1>3 DEF BinexpTyped
<1>5. BinexpTyped'
  BY <1>1, <1>3 DEF BinexpTyped
<1> HIDE DEF k, a
<1>6. Binexp!BinsBounded'
  <2> SUFFICES ASSUME want > 0, NEW i \in Binexp!Bin PROVE Len(free'[i]) <= want
    BY DEF Binexp!BinsBounded
  <2>1. Len(free[i]) \in Nat /\ Len(free[k]) \in Nat /\ want \in Nat
    BY <1>1 DEF BinexpTyped
  <2>2. Len(free[i]) <= want
    BY DEF Binexp!BinsBounded
  <2> QED BY <1>3, <1>4, <2>1, <2>2
<1>7. \A i \in Binexp!Bin, b \in BlockAddress : b \in In(free'[i]) <=> b \in In(free[i]) /\ b # a
  BY <1>1, <1>3, <1>4 DEF BlocksPlaced
<1>8. \A b \in BlockAddress : Binned(b)' <=> Binned(b) /\ b # a
  BY <1>7 DEF Binned
<1>9. Binned(a) /\ nfree[a] > 0 /\ live[a] = 0 /\ nfree[a] = 2 ^ k
  BY <1>1, <1>3 DEF Binned, BlocksPlaced, BlocksSized
<1>10. BlocksPlaced'
  <2>1. \A i \in Binexp!Bin : Distinct(free'[i])
    BY <1>3, <1>4 DEF BlocksPlaced
  <2>2. \A i, j \in Binexp!Bin, b \in BlockAddress :
          b \in In(free'[i]) /\ b \in In(free'[j]) => i = j
    BY <1>7 DEF BlocksPlaced
  <2>3. ASSUME NEW b \in BlockAddress
        PROVE  /\ nfree'[b] > 0 <=> (live'[b] > 0 \/ Binned(b)')
               /\ Binned(b)' => live'[b] = 0
    BY <1>1, <1>4, <1>8, <1>9 DEF BlocksPlaced
  <2> QED BY <2>1, <2>2, <2>3 DEF BlocksPlaced
<1>11. BlocksSized'
  BY <1>1, <1>3, <1>4, <1>7, <1>9 DEF BlocksSized
<1>12. DisposedEmpty'
  BY DEF DisposedEmpty
<1> QED BY <1>5, <1>6, <1>10, <1>11, <1>12

\* A request passed on to the target arena.
LEMMA AllocateNewKeeps ==
  ASSUME BinexpInv, NEW n \in BinRequest, NEW a \in BlockAddress, nfree[a] = 0,
         live' = [live EXCEPT ![a] = n], nfree' = [nfree EXCEPT ![a] = Binexp!BlockSize(n)],
         free' = free, pc' = pc, want' = want
  PROVE  BinexpInv'
<1> USE DEF BinexpInv
<1>1. n \in Nat \ {0} /\ Binexp!BlockSize(n) \in Nat /\ n <= Binexp!BlockSize(n)
  BY BlockSizeIs
<1>2. /\ live'[a] = n /\ nfree'[a] = Binexp!BlockSize(n)
      /\ \A b \in BlockAddress : b # a => live'[b] = live[b] /\ nfree'[b] = nfree[b]
  BY DEF BinexpTyped
<1>3. BinexpTyped'
  BY <1>1 DEF BinexpTyped
<1>4. \A b : Binned(b)' <=> Binned(b)
  BY DEF Binned
<1>5. ~Binned(a)
  BY DEF BlocksPlaced
<1>6. BlocksPlaced'
  <2>1. ASSUME NEW b \in BlockAddress
        PROVE  /\ nfree'[b] > 0 <=> (live'[b] > 0 \/ Binned(b)')
               /\ Binned(b)' => live'[b] = 0
    BY <1>1, <1>2, <1>4, <1>5 DEF BlocksPlaced
  <2> QED BY <2>1 DEF BlocksPlaced
<1>7. BlocksSized'
  <2>1. \A i \in Binexp!Bin, b \in BlockAddress : b \in In(free[i]) => b # a
    BY <1>5 DEF Binned
  <2> QED BY <1>1, <1>2, <2>1 DEF BlocksSized
<1>8. Binexp!BinsBounded' /\ DisposedEmpty'
  BY DEF Binexp!BinsBounded, DisposedEmpty
<1> QED BY <1>3, <1>6, <1>7, <1>8

LEMMA AllocateKeeps ==
  ASSUME BinexpInv, NEW n \in BinRequest, Binexp!Allocate(n)
  PROVE  BinexpInv'
<1>1. PICK a \in BlockAddress :
        /\ live' = [live EXCEPT ![a] = n]
        /\ IF ~Binexp!Direct(n) /\ free[Binexp!Index(n)] # <<>>
           THEN /\ a = Head(free[Binexp!Index(n)])
                /\ free' = [free EXCEPT ![Binexp!Index(n)] = Tail(@)]
                /\ nfree' = nfree
           ELSE Binexp!TargetAllocate(a, Binexp!BlockSize(n)) /\ free' = free
  BY DEF Binexp!Allocate
<1>2. pc' = pc /\ want' = want /\ pc
  BY DEF Binexp!Allocate
<1>3. CASE ~Binexp!Direct(n) /\ free[Binexp!Index(n)] # <<>>
  BY <1>1, <1>2, <1>3, AllocateBinnedKeeps
<1>4. CASE ~(~Binexp!Direct(n) /\ free[Binexp!Index(n)] # <<>>)
  BY <1>1, <1>2, <1>4, AllocateNewKeeps DEF Binexp!TargetAllocate
<1> QED BY <1>3, <1>4

\* A block given back.
LEMMA BinexpDeallocateKeeps ==
  ASSUME BinexpInv, NEW a \in BlockAddress, Binexp!Deallocate(a)
  PROVE  BinexpInv'
<1> USE DEF BinexpInv
<1> DEFINE n == live[a]
           k == Binexp!Index(n)
<1>1. n \in BinRequest /\ n > 0 /\ live' = [live EXCEPT ![a] = 0] /\ pc /\ pc' = pc /\ want' = want
  BY DEF Binexp!Deallocate, BinexpTyped
<1>2. live'[a] = 0 /\ \A b \in BlockAddress : b # a => live'[b] = live[b]
  BY <1>1 DEF BinexpTyped
<1>3. nfree[a] > 0 /\ nfree[a] = Binexp!BlockSize(n) /\ ~Binned(a)
  BY <1>1 DEF BlocksPlaced, BlocksSized
<1>4. CASE Binexp!Direct(n) \/ Binexp!Full(k)
  <2>1. nfree' = [nfree EXCEPT ![a] = 0] /\ free' = free
    BY <1>4 DEF Binexp!Deallocate, Binexp!TargetDeallocate
  <2>2. nfree'[a] = 0 /\ \A b \in BlockAddress : b # a => nfree'[b] = nfree[b]
    BY <2>1 DEF BinexpTyped
  <2>3. BinexpTyped'
    BY <1>1, <2>1 DEF BinexpTyped
  <2>4. \A b : Binned(b)' <=> Binned(b)
    BY <2>1 DEF Binned
  <2>5. BlocksPlaced'
    <3>1. ASSUME NEW b \in BlockAddress
          PROVE  /\ nfree'[b] > 0 <=> (live'[b] > 0 \/ Binned(b)')
                 /\ Binned(b)' => live'[b] = 0
      BY <1>2, <1>3, <2>2, <2>4 DEF BlocksPlaced
    <3> QED BY <2>1, <3>1 DEF BlocksPlaced
  <2>6. BlocksSized'
    <3>1. \A i \in Binexp!Bin, b \in BlockAddress : b \in In(free[i]) => b # a
      BY <1>3 DEF Binned
    <3> QED BY <1>2, <2>1, <2>2, <3>1 DEF BlocksSized
  <2>7. Binexp!BinsBounded' /\ DisposedEmpty'
    BY <1>1, <2>1 DEF Binexp!BinsBounded, DisposedEmpty
  <2> QED BY <2>3, <2>5, <2>6, <2>7
<1>5. CASE ~Binexp!Direct(n) /\ ~Binexp!Full(k)
  <2>1. nfree' = nfree /\ free' = [free EXCEPT ![k] = <<a>> \o @]
    BY <1>5 DEF Binexp!Deallocate
  <2>2. k \in Binexp!Bin /\ nfree[a] = 2 ^ k /\ LinkSize <= 2 ^ k
    BY <1>1, <1>3, <1>5, BlockSizeIs
  <2>3. free[k] \in Seq(BlockAddress) /\ Distinct(free[k]) /\ a \notin In(free[k])
    BY <1>3, <2>2 DEF BinexpTyped, BlocksPlaced, Binned
  <2>4. /\ <<a>> \o free[k] \in Seq(BlockAddress) /\ Len(<<a>> \o free[k]) = Len(free[k]) + 1
        /\ In(<<a>> \o free[k]) = In(free[k]) \union {a} /\ Distinct(<<a>> \o free[k])
    BY <2>3, ListWith
  <2>5. want > 0 => Len(free[k]) < want
    BY <1>5, <2>3 DEF Binexp!Full, BinexpTyped
  <2> HIDE DEF n, k
  <2>6. free'[k] = <<a>> \o free[k] /\ \A i \in Binexp!Bin : i # k => free'[i] = free[i]
    BY <2>1, <2>2 DEF BinexpTyped
  <2>7. BinexpTyped'
    BY <1>1, <2>1, <2>2, <2>4 DEF BinexpTyped
  <2>8. Binexp!BinsBounded'
    <3> SUFFICES ASSUME want > 0, NEW i \in Binexp!Bin PROVE Len(free'[i]) <= want
      BY <1>1 DEF Binexp!BinsBounded
    <3>1. Len(free[i]) \in Nat /\ Len(free[k]) \in Nat /\ want \in Nat
      BY <2>2 DEF BinexpTyped
    <3>2. Len(free[i]) <= want
      BY DEF Binexp!BinsBounded
    <3> QED BY <2>4, <2>5, <2>6, <3>1, <3>2
  <2>9. \A i \in Binexp!Bin, b \in BlockAddress :
          b \in In(free'[i]) <=> b \in In(free[i]) \/ (i = k /\ b = a)
    BY <2>2, <2>4, <2>6
  <2>10. \A b \in BlockAddress : Binned(b)' <=> Binned(b) \/ b = a
    BY <2>2, <2>9 DEF Binned
  <2>11. BlocksPlaced'
    <3>1. \A i \in Binexp!Bin : Distinct(free'[i])
      BY <2>4, <2>6 DEF BlocksPlaced
    <3>2. \A i, j \in Binexp!Bin, b \in BlockAddress :
            b \in In(free'[i]) /\ b \in In(free'[j]) => i = j
      BY <1>3, <2>2, <2>9 DEF BlocksPlaced, Binned
    <3>3. ASSUME NEW b \in BlockAddress
          PROVE  /\ nfree'[b] > 0 <=> (live'[b] > 0 \/ Binned(b)')
                 /\ Binned(b)' => live'[b] = 0
      BY <1>2, <1>3, <2>1, <2>10 DEF BlocksPlaced
    <3> QED BY <3>1, <3>2, <3>3 DEF BlocksPlaced
  <2>12. BlocksSized'
    BY <1>2, <2>1, <2>2, <2>9 DEF BlocksSized
  <2>13. DisposedEmpty'
    BY <1>1 DEF DisposedEmpty
  <2> QED BY <2>7, <2>8, <2>11, <2>12, <2>13
<1> QED BY <1>4, <1>5

\* The destructor.
LEMMA DisposeKeeps ==
  ASSUME BinexpInv, Binexp!Dispose
  PROVE  BinexpInv'
<1> USE DEF BinexpInv
<1>1. /\ pc' = FALSE /\ live' = live /\ want' = want
      /\ free' = [i \in Binexp!Bin |-> <<>>]
      /\ nfree' = [a \in BlockAddress |-> IF Binned(a) THEN 0 ELSE nfree[a]]
  BY DEF Binexp!Dispose, Binned, In, Binexp!ToSet, BinexpTyped
<1>2. \A i \in Binexp!Bin : free'[i] = <<>>
  BY <1>1
<1>3. \A a : ~Binned(a)'
  BY <1>2, EmptyList DEF Binned
<1>4. BinexpTyped'
  <2>1. nfree' \in [BlockAddress -> Nat]
    BY <1>1 DEF BinexpTyped
  <2>2. free' \in [Binexp!Bin -> Seq(BlockAddress)]
    BY <1>1
  <2> QED BY <1>1, <2>1, <2>2 DEF BinexpTyped
<1>5. Binexp!BinsBounded' /\ DisposedEmpty'
  BY <1>2, <1>4 DEF Binexp!BinsBounded, DisposedEmpty, BinexpTyped
<1>6. BlocksPlaced'
  <2>1. ASSUME NEW b \in BlockAddress PROVE nfree'[b] > 0 <=> live'[b] > 0
    BY <1>1 DEF BlocksPlaced
  <2> QED BY <1>2, <1>3, <2>1, EmptyList DEF BlocksPlaced
<1>7. BlocksSized'
  BY <1>1, <1>2, EmptyList DEF BlocksSized, BlocksPlaced
<1> QED BY <1>4, <1>5, <1>6, <1>7

LEMMA BinexpNext ==
  ASSUME BinexpInv, Binexp!Next
  PROVE  BinexpInv'
BY AllocateKeeps, BinexpDeallocateKeeps, DisposeKeeps DEF Binexp!Next

\* What BinexpInv says in the terms of the component.
LEMMA BinexpInvImplies ==
  ASSUME BinexpInv
  PROVE  Binexp!BinsBounded /\ Binexp!OnePlace /\ Binexp!SizesAgree /\ Binexp!DisposeReturnsAll
<1> USE DEF BinexpInv
<1>1. \A i \in Binexp!Bin : /\ free[i] \in Seq(BlockAddress)
                            /\ Binexp!ToSet(free[i]) = In(free[i]) /\ In(free[i]) \subseteq BlockAddress
  BY DEF BinexpTyped, Binexp!ToSet, In
<1>2. \A i \in Binexp!Bin : Binexp!IsInjective(free[i])
  BY <1>1 DEF BlocksPlaced, Distinct, Binexp!IsInjective
<1>3. ASSUME NEW a PROVE a \in Binexp!Binned <=> Binned(a)
  <2>1. a \in Binexp!Binned <=> \E i \in Binexp!Bin : a \in Binexp!ToSet(free[i])
    BY DEF Binexp!Binned
  <2> QED BY <1>1, <2>1 DEF Binned
<1>4. Binexp!OnePlace
  <2>1. \A i, j \in Binexp!Bin : i # j => Binexp!ToSet(free[i]) \intersect Binexp!ToSet(free[j]) = {}
    BY <1>1 DEF BlocksPlaced
  <2>2. \A a \in BlockAddress : nfree[a] > 0 <=> (live[a] > 0 \/ a \in Binexp!Binned)
    BY <1>3 DEF BlocksPlaced
  <2>3. \A a \in Binexp!Binned : live[a] = 0
    BY <1>1, <1>3 DEF BlocksPlaced, Binned
  <2> QED BY <1>2, <2>1, <2>2, <2>3 DEF Binexp!OnePlace
<1>5. Binexp!SizesAgree
  BY <1>1 DEF Binexp!SizesAgree, BlocksSized
<1>6. Binexp!DisposeReturnsAll
  BY EmptyList DEF Binexp!DisposeReturnsAll, DisposedEmpty, BlocksPlaced, Binned
<1> QED BY <1>4, <1>5, <1>6

-----------------------------------------------------------------------------
(* bitmap_arena *)

\* The place of the first block of word k.
Begin(k) == k * BitsPerWord

\* The n blocks from a on are free.
FreeRun(a, n) == \A j \in 0..(n - 1) : a + j \in free

BitmapTyped ==
  /\ live \in [Bitmap!Block -> Nat] /\ free \in SUBSET Bitmap!Block /\ nfree \in Nat
  /\ want \in Nat /\ index \in Nat /\ offset \in Nat

\* Blocks in use are disjoint parts of the storage.
ExtentsApart ==
  /\ \A b \in Bitmap!InUse : Bitmap!Extent(b) \subseteq Bitmap!Block
  /\ \A b, c \in Bitmap!InUse : b # c => Bitmap!Extent(b) \intersect Bitmap!Extent(c) = {}

\* BitmapExact, block by block.
FreeIsRest ==
  /\ \A x \in Bitmap!Block : x \in free <=> \A b \in Bitmap!InUse : x \notin Bitmap!Extent(b)
  /\ nfree = Cardinality(free)

\* What a search has found out so far is true of the bitmap.
SearchSound ==
  /\ pc \in {"idle", "word", "shift", "gap", "first", "more"}
  /\ pc # "idle" => want \in RunRequest /\ want \in 1..Bitmap!BlockCount
  /\ pc \in {"shift", "gap"} => index < BitmapSize
  /\ pc = "shift" =>
       word \subseteq Bitmap!Bits /\ \A i \in word : Begin(index) + offset + i \in free
  /\ pc = "more" => count \in Nat /\ offset + count = Begin(index) /\ FreeRun(offset, count)

BitmapInv == BitmapTyped /\ ExtentsApart /\ FreeIsRest /\ SearchSound

LEMMA WordPlaces ==
  /\ Bitmap!BlockCount \in Nat \ {0}
  /\ \A k \in Nat :
       /\ Begin(k) \in Nat /\ Begin(k + 1) = Begin(k) + BitsPerWord
       /\ k < BitmapSize => Begin(k) + BitsPerWord <= Bitmap!BlockCount
       /\ k >= BitmapSize => Begin(k) >= Bitmap!BlockCount
<1>1. \A a, b, w \in Nat : a <= b => a * w <= b * w
  <2> SUFFICES ASSUME NEW a \in Nat, NEW b \in Nat, NEW w \in Nat, a <= b PROVE a * w <= b * w
    OBVIOUS
  <2>1. b - a \in Nat /\ (b - a) * w \in Nat
    OBVIOUS
  <2>2. (b - a) * w = b * w - a * w /\ a * w \in Nat /\ b * w \in Nat
    OBVIOUS
  <2> QED BY <2>1, <2>2
<1>2. BitsPerWord \in Nat \ {0} /\ BitmapSize \in Nat \ {0}
  BY BitmapAssumption
<1>3. Bitmap!BlockCount = BitmapSize * BitsPerWord /\ Bitmap!BlockCount \in Nat \ {0}
  <2>1. BitsPerWord * BitmapSize = BitmapSize * BitsPerWord
    BY <1>2
  <2>2. 1 * BitsPerWord <= BitmapSize * BitsPerWord /\ BitmapSize * BitsPerWord \in Nat
    BY <1>1, <1>2
  <2> QED BY <1>2, <2>1, <2>2 DEF Bitmap!BlockCount
<1>4. \A k \in Nat : k * BitsPerWord \in Nat /\ (k + 1) * BitsPerWord = k * BitsPerWord + BitsPerWord
  BY <1>2
<1>5. \A k \in Nat : k < BitmapSize => (k + 1) * BitsPerWord <= BitmapSize * BitsPerWord
  <2> SUFFICES ASSUME NEW k \in Nat, k < BitmapSize
               PROVE  (k + 1) * BitsPerWord <= BitmapSize * BitsPerWord
    OBVIOUS
  <2>1. k + 1 \in Nat /\ k + 1 <= BitmapSize
    BY <1>2
  <2> QED BY <1>1, <1>2, <2>1
<1>6. \A k \in Nat : k >= BitmapSize => k * BitsPerWord >= BitmapSize * BitsPerWord
  <2> SUFFICES ASSUME NEW k \in Nat, k >= BitmapSize
               PROVE  k * BitsPerWord >= BitmapSize * BitsPerWord
    OBVIOUS
  <2>1. BitmapSize * BitsPerWord <= k * BitsPerWord
    BY <1>1, <1>2
  <2> QED BY <1>2, <1>4, <2>1
<1> QED BY <1>3, <1>4, <1>5, <1>6 DEF Begin

\* Every number is so many words and less than one more.
LEMMA Division ==
  \A x \in Nat : \E q \in Nat : Begin(q) <= x /\ x < Begin(q) + BitsPerWord
<1> DEFINE S == {x \in Nat : \E q \in Nat : Begin(q) <= x /\ x < Begin(q) + BitsPerWord}
<1>1. 0 \in S
  BY WordPlaces, BitmapAssumption DEF Begin
<1>2. ASSUME NEW x \in Nat, x \in S PROVE x + 1 \in S
  <2>1. PICK q \in Nat : Begin(q) <= x /\ x < Begin(q) + BitsPerWord
    BY <1>2
  <2>2. CASE x + 1 < Begin(q) + BitsPerWord
    BY <2>1, <2>2, WordPlaces, BitmapAssumption
  <2>3. CASE ~(x + 1 < Begin(q) + BitsPerWord)
    <3>0. Begin(q) \in Nat /\ Begin(q + 1) = Begin(q) + BitsPerWord /\ BitsPerWord \in Nat \ {0}
      BY WordPlaces, BitmapAssumption
    <3>1. x + 1 = Begin(q + 1) /\ q + 1 \in Nat
      BY <2>1, <2>3, <3>0
    <3> QED BY <3>1, BitmapAssumption
  <2> QED BY <2>2, <2>3
<1> HIDE DEF S
<1>3. \A x \in Nat : x \in S
  BY <1>1, <1>2, SetInduction
<1> QED BY <1>3 DEF S

LEMMA MinOfTwo ==
  ASSUME NEW a \in Int, NEW b \in Int
  PROVE  Bitmap!Min({a, b}) = IF a <= b THEN a ELSE b
BY DEF Bitmap!Min

\* The parts that __mark_segments fills are the whole.
LEMMA SegmentsAre ==
  ASSUME NEW pos \in Nat, NEW n \in 1..Bitmap!BlockCount
  PROVE  Bitmap!Segments(pos, n) = pos..(pos + n - 1)
<1> DEFINE first == Bitmap!Min({n, BitsPerWord - (pos % BitsPerWord)})
           next(k) == pos + first + k * BitsPerWord
           left(k) == n - first - k * BitsPerWord
           Part(k) == next(k)..(next(k) + Bitmap!Min({left(k), BitsPerWord}) - 1)
<1>1. n \in Nat /\ BitsPerWord \in Nat \ {0} /\ BitmapSize \in Nat \ {0} /\ Bitmap!BlockCount \in Nat
  BY WordPlaces, BitmapAssumption
<1>2. first \in Nat /\ first <= n
  <2>1. pos % BitsPerWord \in 0..(BitsPerWord - 1)
    BY <1>1
  <2> QED BY <1>1, <2>1, MinOfTwo
<1>3. Bitmap!Segments(pos, n) =
        (pos..(pos + first - 1)) \union UNION {Part(k) : k \in {j \in 0..BitmapSize : left(j) > 0}}
  BY DEF Bitmap!Segments
<1> HIDE DEF first
<1>4. \A k \in Nat : next(k) = pos + first + Begin(k) /\ left(k) = n - first - Begin(k)
                     /\ Begin(k) \in Nat /\ left(k) \in Int
  BY <1>1, <1>2, WordPlaces DEF Begin
<1> HIDE DEF next, left
<1>5. ASSUME NEW k \in Nat, NEW x \in Int
      PROVE  x \in Part(k) <=>
               next(k) <= x /\ x <= next(k) + left(k) - 1 /\ x <= next(k) + BitsPerWord - 1
  <2>1. left(k) \in Int /\ next(k) \in Int /\ BitsPerWord \in Int
    BY <1>1, <1>2, <1>4
  <2>2. Bitmap!Min({left(k), BitsPerWord}) = IF left(k) <= BitsPerWord THEN left(k) ELSE BitsPerWord
    BY <2>1, MinOfTwo
  <2> QED BY <2>1, <2>2
<1>8. \A k \in Nat : Part(k) \subseteq Int
  <2> SUFFICES ASSUME NEW k \in Nat PROVE Part(k) \subseteq Int
    OBVIOUS
  <2>1. left(k) \in Int /\ next(k) \in Int /\ BitsPerWord \in Int
    BY <1>1, <1>2, <1>4
  <2>2. Bitmap!Min({left(k), BitsPerWord}) \in Int
    BY <2>1, MinOfTwo
  <2> QED BY <2>1, <2>2
<1> HIDE DEF Part
<1>6. ASSUME NEW x \in Bitmap!Segments(pos, n) PROVE x \in pos..(pos + n - 1)
  <2>1. CASE x \in pos..(pos + first - 1)
    BY <1>1, <1>2, <2>1
  <2>2. CASE \E k \in 0..BitmapSize : left(k) > 0 /\ x \in Part(k)
    <3>1. PICK k \in 0..BitmapSize : left(k) > 0 /\ x \in Part(k)
      BY <2>2
    <3>2. k \in Nat /\ x \in Int
      BY <1>1, <1>8, <3>1
    <3>3. next(k) <= x /\ x <= next(k) + left(k) - 1
      BY <1>5, <3>1, <3>2
    <3>4. next(k) = pos + first + Begin(k) /\ left(k) = n - first - Begin(k) /\ Begin(k) \in Nat
      BY <1>4, <3>2
    <3> QED BY <1>1, <1>2, <3>2, <3>3, <3>4
  <2> QED BY <1>3, <1>6, <2>1, <2>2
<1>7. ASSUME NEW x \in pos..(pos + n - 1) PROVE x \in Bitmap!Segments(pos, n)
  <2>1. CASE x < pos + first
    BY <1>1, <1>2, <1>3, <2>1
  <2>2. CASE ~(x < pos + first)
    <3>1. x - (pos + first) \in Nat
      BY <1>1, <1>2, <2>2
    <3>2. PICK k \in Nat : Begin(k) <= x - (pos + first) /\ x - (pos + first) < Begin(k) + BitsPerWord
      BY <3>1, Division
    <3>3. next(k) = pos + first + Begin(k) /\ left(k) = n - first - Begin(k) /\ Begin(k) \in Nat
      BY <1>4
    <3>4. /\ left(k) > 0
          /\ next(k) <= x /\ x <= next(k) + left(k) - 1 /\ x <= next(k) + BitsPerWord - 1
      BY <1>1, <1>2, <3>1, <3>2, <3>3
    <3>5. left(k) > 0 /\ x \in Part(k)
      BY <1>1, <1>5, <3>4
    <3>6. k \in 0..BitmapSize
      <4>1. Begin(k) < Bitmap!BlockCount
        BY <1>1, <1>2, <1>4, <3>5
      <4> QED BY <1>1, <4>1, <1>4, WordPlaces
    <3> QED BY <1>3, <3>5, <3>6
  <2> QED BY <2>1, <2>2
<1> QED BY <1>6, <1>7

LEMMA MaxIs ==
  ASSUME NEW S \in SUBSET Int, S # {}, NEW b \in Int, \A x \in S : x <= b
  PROVE  Bitmap!Max(S) \in S /\ \A x \in S : x <= Bitmap!Max(S)
<1>1. \E x \in S : \A y \in S : x >= y
  BY GreatestElement
<1> DEFINE P(x) == \A y \in S : x >= y
<1>2. Bitmap!Max(S) \in S /\ P(Bitmap!Max(S))
  <2> HIDE DEF P
  <2>1. Bitmap!Max(S) = CHOOSE x \in S : P(x)
    BY DEF Bitmap!Max, P
  <2> QED BY <1>1, <2>1 DEF P
<1> QED BY <1>2

\* The highest blocks of a word that are counted are free ones.
LEMMA LeadingOnesIs ==
  ASSUME NEW w \in SUBSET Bitmap!Bits
  PROVE  /\ Bitmap!LeadingOnes(w) \in 0..BitsPerWord
         /\ \A i \in (BitsPerWord - Bitmap!LeadingOnes(w))..(BitsPerWord - 1) : i \in w
<1> DEFINE S == (Bitmap!Bits \ w) \union {-1}
           top == Bitmap!Max(S)
<1>1. BitsPerWord \in Nat \ {0}
  BY BitmapAssumption
<1>2. S \in SUBSET Int /\ S # {} /\ (\A x \in S : x <= BitsPerWord - 1) /\ BitsPerWord - 1 \in Int
  BY <1>1 DEF Bitmap!Bits
<1>3. top \in S /\ \A x \in S : x <= top
  BY <1>2, MaxIs
<1>4. top \in -1..(BitsPerWord - 1)
  BY <1>1, <1>3 DEF Bitmap!Bits
<1>5. Bitmap!LeadingOnes(w) = BitsPerWord - 1 - top
  BY DEF Bitmap!LeadingOnes
<1>6. \A i \in (top + 1)..(BitsPerWord - 1) : i \in w
  BY <1>1, <1>3, <1>4 DEF Bitmap!Bits
<1> HIDE DEF top, S
<1> QED BY <1>1, <1>4, <1>5, <1>6

\* So are the lowest ones, whatever the count of trailing zeros of zero is.
LEMMA TrailingOnesIs ==
  ASSUME NEW w \in SUBSET Bitmap!Bits, NEW low \in Bitmap!TrailingOnes(w)
  PROVE  low \in 0..BitsPerWord /\ \A i \in 0..(low - 1) : i \in w
<1>1. BitsPerWord \in Nat \ {0} /\ CtzOfZero \subseteq {0, BitsPerWord}
  BY BitmapAssumption
<1>2. CASE w = Bitmap!Bits
  BY <1>1, <1>2 DEF Bitmap!TrailingOnes, Bitmap!Bits
<1>3. CASE w # Bitmap!Bits
  <2> DEFINE S == Bitmap!Bits \ w
  <2>4. S \in SUBSET Nat
    BY <1>1 DEF Bitmap!Bits
  <2>5. S # {}
    <3>1. w \subseteq Bitmap!Bits
      OBVIOUS
    <3> QED BY <1>3, <3>1
  <2>1. S \in SUBSET Nat /\ S # {}
    BY <2>4, <2>5
  <2>2. \E x \in S : \A y \in S : x <= y
    BY <2>1, LeastElement
  <2>3. low \in S /\ \A y \in S : low <= y
    BY <1>3, <2>2 DEF Bitmap!TrailingOnes, Bitmap!Min
  <2> QED BY <1>1, <2>3 DEF Bitmap!Bits
<1> QED BY <1>2, <1>3

LEMMA TrailingRun ==
  ASSUME NEW k \in Nat, NEW low \in Bitmap!TrailingOnesAt(k)
  PROVE  low \in 0..BitsPerWord /\ FreeRun(Begin(k), low)
<1>1. CASE k < BitmapSize
  <2>1. Bitmap!Word(k) \in SUBSET Bitmap!Bits /\ low \in Bitmap!TrailingOnes(Bitmap!Word(k))
    BY <1>1 DEF Bitmap!TrailingOnesAt, Bitmap!Word
  <2>2. low \in 0..BitsPerWord /\ \A i \in 0..(low - 1) : i \in Bitmap!Word(k)
    BY <2>1, TrailingOnesIs
  <2> QED BY <2>2 DEF Bitmap!Word, FreeRun, Begin
<1>2. CASE ~(k < BitmapSize)
  BY <1>2, BitmapAssumption DEF Bitmap!TrailingOnesAt, FreeRun
<1> QED BY <1>1, <1>2

LEMMA LeadingRun ==
  ASSUME NEW k \in Nat
  PROVE  LET high == Bitmap!LeadingOnes(Bitmap!Word(k)) IN
         high \in 0..BitsPerWord /\ Begin(k + 1) - high \in Nat /\ FreeRun(Begin(k + 1) - high, high)
<1> DEFINE high == Bitmap!LeadingOnes(Bitmap!Word(k))
<1>1. Bitmap!Word(k) \in SUBSET Bitmap!Bits
  BY DEF Bitmap!Word
<1>2. high \in 0..BitsPerWord /\ \A i \in (BitsPerWord - high)..(BitsPerWord - 1) : i \in Bitmap!Word(k)
  BY <1>1, LeadingOnesIs
<1> HIDE DEF high
<1>3. Begin(k) \in Nat /\ Begin(k + 1) = Begin(k) + BitsPerWord /\ BitsPerWord \in Nat
  BY WordPlaces, BitmapAssumption
<1>4. ASSUME NEW j \in 0..(high - 1) PROVE (Begin(k + 1) - high) + j \in free
  <2>1. (BitsPerWord - high) + j \in (BitsPerWord - high)..(BitsPerWord - 1)
    BY <1>2, <1>3
  <2>2. Begin(k) + ((BitsPerWord - high) + j) \in free
    BY <1>2, <2>1 DEF Bitmap!Word, Begin
  <2>3. Begin(k) + ((BitsPerWord - high) + j) = (Begin(k + 1) - high) + j
    BY <1>2, <1>3
  <2> QED BY <2>2, <2>3
<1> QED BY <1>2, <1>3, <1>4 DEF FreeRun, high

\* Two runs that adjoin are one.
LEMMA RunsJoin ==
  ASSUME NEW a \in Nat, NEW m \in Nat, NEW n \in Nat, FreeRun(a, m), FreeRun(a + m, n)
  PROVE  FreeRun(a, m + n)
<1> SUFFICES ASSUME NEW j \in 0..((m + n) - 1) PROVE a + j \in free
  BY DEF FreeRun
<1>1. CASE j < m
  BY <1>1 DEF FreeRun
<1>2. CASE ~(j < m)
  <2>1. j - m \in 0..(n - 1) /\ (a + m) + (j - m) = a + j
    BY <1>2
  <2> QED BY <2>1 DEF FreeRun
<1> QED BY <1>1, <1>2

LEMMA ShorterRun ==
  ASSUME NEW a \in Nat, NEW m \in Nat, NEW n \in Nat, m <= n, FreeRun(a, n)
  PROVE  FreeRun(a, m)
BY DEF FreeRun

\* The blocks of the storage are finitely many, and so are the free ones.
LEMMA BlocksFinite ==
  ASSUME BitmapTyped
  PROVE  /\ IsFiniteSet(free) /\ Cardinality(free) \in Nat
         /\ Bitmap!Block = 0..(Bitmap!BlockCount - 1)
<1>1. Bitmap!BlockCount - 1 \in Int
  BY WordPlaces
<1>2. IsFiniteSet(0..(Bitmap!BlockCount - 1))
  BY <1>1, FS_Interval
<1>3. IsFiniteSet(free)
  BY <1>2, FS_Subset DEF BitmapTyped, Bitmap!Block
<1> QED BY <1>3, FS_CardinalityType DEF Bitmap!Block

\* A block in use is a part of the storage of which nothing is free.
LEMMA ExtentInUse ==
  ASSUME BitmapTyped, ExtentsApart, FreeIsRest, NEW b \in Bitmap!InUse
  PROVE  /\ b \in Nat /\ b \in Bitmap!Block /\ live[b] \in 1..Bitmap!BlockCount
         /\ b \in Bitmap!Extent(b)
         /\ Bitmap!Extent(b) \subseteq Bitmap!Block /\ Bitmap!Extent(b) \intersect free = {}
<1>1. b \in Nat /\ b \in Bitmap!Block /\ live[b] \in Nat \ {0}
  <2>1. b \in Bitmap!Block /\ live[b] > 0
    BY DEF Bitmap!InUse
  <2>2. live[b] \in Nat
    BY <2>1 DEF BitmapTyped
  <2>3. b \in 0..(Bitmap!BlockCount - 1)
    BY <2>1, BlocksFinite
  <2> QED BY <2>1, <2>2, <2>3
<1>2. b \in Bitmap!Extent(b) /\ b + live[b] - 1 \in Bitmap!Extent(b)
  BY <1>1 DEF Bitmap!Extent
<1>3. Bitmap!Extent(b) \subseteq Bitmap!Block
  BY DEF ExtentsApart
<1>4. b + live[b] - 1 <= Bitmap!BlockCount - 1
  <2>1. b + live[b] - 1 \in Bitmap!Block
    BY <1>2, <1>3
  <2>2. b + live[b] - 1 \in 0..(Bitmap!BlockCount - 1)
    BY <2>1, BlocksFinite
  <2> QED BY <2>2
<1>5. Bitmap!Extent(b) \intersect free = {}
  BY <1>3 DEF FreeIsRest
<1> QED BY <1>1, <1>2, <1>3, <1>4, <1>5, WordPlaces

\* A search gives its client blocks that were not in use, as many as it asked for, or none.
Answers ==
  \/ live' = live
  \/ \E pos \in Bitmap!Block \ Bitmap!InUse : live' = [live EXCEPT ![pos] = want] /\ want \in RunRequest

\* A search that finds a free run takes that run and nothing else.
LEMMA FoundKeeps ==
  ASSUME BitmapInv, NEW pos \in Nat, want \in RunRequest, want \in 1..Bitmap!BlockCount,
         FreeRun(pos, want), Bitmap!Found(pos)
  PROVE  BitmapInv' /\ Answers
<1> DEFINE Taken == pos..(pos + want - 1)
<1> USE DEF BitmapInv
<1>1. want \in Nat \ {0} /\ Bitmap!BlockCount \in Nat
  BY WordPlaces
<1>2. Taken \subseteq free /\ pos \in Taken
  <2>1. ASSUME NEW x \in Taken PROVE x \in free
    <3>1. x - pos \in 0..(want - 1) /\ pos + (x - pos) = x
      BY <1>1
    <3> QED BY <3>1 DEF FreeRun
  <2> QED BY <1>1, <2>1
<1>3. pos \in Bitmap!Block /\ pos < Bitmap!BlockCount
  BY <1>1, <1>2, BlocksFinite DEF BitmapTyped
<1>4. /\ free' = free \ Taken /\ nfree' = nfree - want /\ live' = [live EXCEPT ![pos] = want]
      /\ pc' = "idle" /\ want' = 0 /\ index' = 0 /\ offset' = 0
  BY <1>3, SegmentsAre DEF Bitmap!Found, Bitmap!MarkUsed, Bitmap!Idle
<1>5. pos \notin Bitmap!InUse
  BY <1>2, ExtentInUse
<1>6. /\ live'[pos] = want /\ \A b \in Bitmap!Block : b # pos => live'[b] = live[b]
      /\ live' \in [Bitmap!Block -> Nat]
  BY <1>1, <1>3, <1>4 DEF BitmapTyped
<1>7. /\ Bitmap!InUse' = Bitmap!InUse \union {pos}
      /\ \A b \in Bitmap!InUse : Bitmap!Extent(b)' = Bitmap!Extent(b)
      /\ Bitmap!Extent(pos)' = Taken
  <2>1. Bitmap!InUse' = {b \in Bitmap!Block : live'[b] > 0}
    BY DEF Bitmap!InUse
  <2>7. ASSUME NEW b PROVE b \in Bitmap!InUse' <=> b \in Bitmap!InUse \/ b = pos
    <3>1. CASE b = pos
      <4>1. live'[pos] > 0
        BY <1>1, <1>6
      <4> QED BY <1>3, <2>1, <3>1, <4>1
    <3>2. CASE b # pos
      BY <1>6, <2>1, <3>2 DEF Bitmap!InUse
    <3> QED BY <3>1, <3>2
  <2>2. Bitmap!InUse' = Bitmap!InUse \union {pos}
    BY <2>7
  <2>3. \A b : Bitmap!Extent(b)' = b..(b + live'[b] - 1)
    BY DEF Bitmap!Extent
  <2>4. \A b \in Bitmap!InUse : live'[b] = live[b]
    BY <1>5, <1>6 DEF Bitmap!InUse
  <2>5. Bitmap!Extent(pos)' = Taken
    BY <1>6, <2>3
  <2>6. \A b \in Bitmap!InUse : Bitmap!Extent(b)' = Bitmap!Extent(b)
    BY <2>3, <2>4 DEF Bitmap!Extent
  <2> QED BY <2>2, <2>5, <2>6
<1>8. \A b \in Bitmap!InUse : /\ Bitmap!Extent(b) \subseteq Bitmap!Block
                              /\ Bitmap!Extent(b) \intersect free = {}
  BY ExtentInUse
<1>9. nfree' = Cardinality(free') /\ nfree' \in Nat
  <2>1. IsFiniteSet(Taken) /\ Cardinality(Taken) = want
    <3>1. pos + want - 1 \in Int
      BY <1>1
    <3>2. /\ IsFiniteSet(Taken)
          /\ Cardinality(Taken) = IF pos > pos + want - 1 THEN 0 ELSE (pos + want - 1) - pos + 1
      BY <3>1, FS_Interval
    <3> QED BY <1>1, <3>2
  <2>2. IsFiniteSet(free) /\ Cardinality(free) \in Nat
    BY BlocksFinite
  <2>3. /\ IsFiniteSet(free \ Taken)
        /\ Cardinality(free \ Taken) = Cardinality(free) - Cardinality(free \intersect Taken)
    BY <2>2, FS_Difference
  <2>4. free \intersect Taken = Taken
    BY <1>2
  <2>5. nfree = Cardinality(free)
    BY DEF FreeIsRest
  <2>6. Cardinality(free \ Taken) \in Nat
    BY <2>3, FS_CardinalityType
  <2> QED BY <1>4, <2>1, <2>3, <2>4, <2>5, <2>6
<1>10. BitmapTyped'
  BY <1>4, <1>6, <1>9 DEF BitmapTyped
<1>11. ExtentsApart'
  <2> HIDE DEF Taken
  <2>1. \A b \in Bitmap!InUse' : Bitmap!Extent(b)' \subseteq Bitmap!Block
    BY <1>2, <1>7, <1>8 DEF BitmapTyped
  <2>2. ASSUME NEW b \in Bitmap!InUse', NEW c \in Bitmap!InUse', b # c
        PROVE  Bitmap!Extent(b)' \intersect Bitmap!Extent(c)' = {}
    <3>1. CASE b \in Bitmap!InUse /\ c \in Bitmap!InUse
      BY <1>7, <2>2, <3>1 DEF ExtentsApart
    <3>2. CASE b \in Bitmap!InUse /\ c = pos
      BY <1>2, <1>7, <1>8, <3>2
    <3>3. CASE b = pos /\ c \in Bitmap!InUse
      BY <1>2, <1>7, <1>8, <3>3
    <3> QED BY <1>7, <2>2, <3>1, <3>2, <3>3
  <2> QED BY <2>1, <2>2 DEF ExtentsApart
<1>12. FreeIsRest'
  <2> HIDE DEF Taken
  <2>1. ASSUME NEW x \in Bitmap!Block
        PROVE  x \in free' <=> \A b \in Bitmap!InUse' : x \notin Bitmap!Extent(b)'
    BY <1>4, <1>7 DEF FreeIsRest
  <2> QED BY <1>9, <2>1 DEF FreeIsRest
<1>13. SearchSound'
  BY <1>4 DEF SearchSound
<1>14. Answers
  BY <1>3, <1>4, <1>5 DEF Answers
<1> QED BY <1>10, <1>11, <1>12, <1>13, <1>14

\* What a client gives back was its own.
LEMMA BitmapDeallocateKeeps ==
  ASSUME BitmapInv, NEW a \in Bitmap!Block, Bitmap!Deallocate(a)
  PROVE  BitmapInv'
<1> DEFINE Given == Bitmap!Extent(a)
<1> USE DEF BitmapInv
<1>1. a \in Bitmap!InUse /\ pc = "idle" /\ live[a] > 0
  BY DEF Bitmap!Deallocate, Bitmap!InUse
<1>2. /\ a \in Nat /\ live[a] \in 1..Bitmap!BlockCount
      /\ Given \subseteq Bitmap!Block /\ Given \intersect free = {}
  BY <1>1, ExtentInUse
<1>3. /\ free' = free \union Given /\ nfree' = nfree + live[a] /\ live' = [live EXCEPT ![a] = 0]
      /\ pc' = pc /\ want' = want /\ index' = index /\ offset' = offset
  BY <1>2, SegmentsAre DEF Bitmap!Deallocate, Bitmap!Extent, Bitmap!scan
<1>4. /\ live'[a] = 0 /\ \A b \in Bitmap!Block : b # a => live'[b] = live[b]
      /\ live' \in [Bitmap!Block -> Nat]
  BY <1>3 DEF BitmapTyped
<1>5. /\ Bitmap!InUse' = Bitmap!InUse \ {a}
      /\ \A b \in Bitmap!InUse' : Bitmap!Extent(b)' = Bitmap!Extent(b)
  BY <1>1, <1>4 DEF Bitmap!InUse, Bitmap!Extent
<1>6. nfree' = Cardinality(free') /\ nfree' \in Nat
  <2>1. IsFiniteSet(Given) /\ Cardinality(Given) = live[a]
    <3>1. a + live[a] - 1 \in Int /\ live[a] \in Nat \ {0} /\ Given = a..(a + live[a] - 1)
      BY <1>2, WordPlaces DEF Bitmap!Extent
    <3> DEFINE last == a + live[a] - 1
    <3>2. a \in Int /\ last \in Int
      BY <1>2, <3>1
    <3>3. Given = a..last
      BY <3>1
    <3>4. ~(a > last) /\ last - a + 1 = live[a]
      BY <1>2, <3>1
    <3> HIDE DEF last, Given
    <3>5. /\ IsFiniteSet(a..last)
          /\ Cardinality(a..last) = IF a > last THEN 0 ELSE last - a + 1
      BY <3>2, FS_Interval
    <3> QED BY <3>3, <3>4, <3>5
  <2>2. IsFiniteSet(free)
    BY BlocksFinite
  <2>3. /\ IsFiniteSet(free \union Given)
        /\ Cardinality(free \union Given)
             = Cardinality(free) + Cardinality(Given) - Cardinality(free \intersect Given)
    BY <2>1, <2>2, FS_Union
  <2>4. Cardinality(free \intersect Given) = 0
    BY <1>2, FS_EmptySet
  <2>5. nfree = Cardinality(free) /\ nfree \in Nat /\ live[a] \in Nat
    BY <1>2, WordPlaces DEF FreeIsRest, BitmapTyped
  <2> QED BY <1>3, <2>1, <2>3, <2>4, <2>5
<1>7. BitmapTyped'
  BY <1>2, <1>3, <1>4, <1>6 DEF BitmapTyped
<1>8. ExtentsApart'
  BY <1>5 DEF ExtentsApart, BitmapTyped
<1>9. FreeIsRest'
  <2>1. ASSUME NEW x \in Bitmap!Block
        PROVE  x \in free' <=> \A b \in Bitmap!InUse' : x \notin Bitmap!Extent(b)'
    <3>1. \A b \in Bitmap!InUse : b # a => Bitmap!Extent(b) \intersect Given = {}
      BY <1>1 DEF ExtentsApart
    <3>2. x \in free' <=> x \in free \/ x \in Given
      BY <1>3
    <3>3. x \in free <=> \A b \in Bitmap!InUse : x \notin Bitmap!Extent(b)
      BY DEF FreeIsRest
    <3> HIDE DEF Given
    <3>4. x \notin Given => ((\A b \in Bitmap!InUse : x \notin Bitmap!Extent(b))
                              <=> \A b \in Bitmap!InUse' : x \notin Bitmap!Extent(b)')
      BY <1>5 DEF Given
    <3>5. x \in Given => \A b \in Bitmap!InUse' : x \notin Bitmap!Extent(b)'
      BY <1>5, <3>1
    <3> QED BY <3>2, <3>3, <3>4, <3>5
  <2> QED BY <1>6, <2>1 DEF FreeIsRest
<1>10. SearchSound'
  BY <1>1, <1>3 DEF SearchSound
<1> QED BY <1>7, <1>8, <1>9, <1>10

LEMMA BitmapAllocateKeeps ==
  ASSUME BitmapInv, NEW n \in RunRequest, Bitmap!Allocate(n)
  PROVE  BitmapInv'
<1> USE DEF BitmapInv
<1>1. /\ n <= nfree /\ pc' \in {"word", "first"} /\ want' = n
      /\ free' = free /\ nfree' = nfree /\ live' = live
      /\ index' = index /\ offset' = offset
  BY DEF Bitmap!Allocate
<1>2. n \in Nat \ {0} /\ BitsPerWord \in Nat
  BY BitmapAssumption
<1>3. nfree <= Bitmap!BlockCount
  <2> DEFINE last == Bitmap!BlockCount - 1
  <2>1. last \in Int /\ ~(0 > last) /\ last - 0 + 1 = Bitmap!BlockCount
    BY WordPlaces
  <2>2. free \subseteq 0..last /\ nfree = Cardinality(free)
    BY BlocksFinite DEF BitmapTyped, FreeIsRest
  <2> HIDE DEF last
  <2>3. IsFiniteSet(0..last) /\ Cardinality(0..last) = IF 0 > last THEN 0 ELSE last - 0 + 1
    BY <2>1, FS_Interval
  <2>4. Cardinality(free) <= Cardinality(0..last)
    BY <2>2, <2>3, FS_Subset
  <2> QED BY <2>1, <2>2, <2>3, <2>4
<1>4. n \in 1..Bitmap!BlockCount
  BY <1>1, <1>2, <1>3, WordPlaces DEF BitmapTyped
<1>5. BitmapTyped' /\ ExtentsApart' /\ FreeIsRest'
  BY <1>1, <1>2 DEF BitmapTyped, ExtentsApart, FreeIsRest, Bitmap!InUse, Bitmap!Extent
<1>6. SearchSound'
  BY <1>1, <1>4 DEF SearchSound
<1> QED BY <1>5, <1>6

\* A step of a search that only goes on leaves the bitmap alone.
SearchGoesOn == free' = free /\ nfree' = nfree /\ live' = live

LEMMA GoingOnKeeps ==
  ASSUME BitmapInv, SearchGoesOn, want' \in Nat, index' \in Nat, offset' \in Nat
  PROVE  BitmapTyped' /\ ExtentsApart' /\ FreeIsRest'
BY DEF BitmapInv, SearchGoesOn, BitmapTyped, ExtentsApart, FreeIsRest, Bitmap!InUse, Bitmap!Extent

LEMMA PastEndKeeps ==
  ASSUME BitmapInv, Bitmap!PastEnd
  PROVE  BitmapInv' /\ Answers
<1>1. SearchGoesOn /\ pc' = "idle" /\ want' = 0 /\ index' = 0 /\ offset' = 0
  BY DEF Bitmap!PastEnd, Bitmap!NotFound, Bitmap!Idle, SearchGoesOn
<1>2. SearchSound'
  BY <1>1 DEF SearchSound
<1> QED BY <1>1, <1>2, GoingOnKeeps DEF BitmapInv, Answers, SearchGoesOn

LEMMA EnterWordKeeps ==
  ASSUME BitmapInv, Bitmap!EnterWord
  PROVE  BitmapInv' /\ Answers
<1> USE DEF BitmapInv
<1>1. index \in Nat /\ offset \in Nat /\ want \in Nat /\ want \in RunRequest /\ want \in 1..Bitmap!BlockCount
  BY DEF Bitmap!EnterWord, BitmapTyped, SearchSound
<1>2. SearchGoesOn /\ want' = want /\ index < BitmapSize
  BY DEF Bitmap!EnterWord, SearchGoesOn
<1>3. \/ index' = index + 1 /\ pc' = "word" /\ offset' = offset
      \/ index' = index /\ pc' = "shift" /\ word' = Bitmap!Word(index) /\ offset' = 0
  BY DEF Bitmap!EnterWord, Bitmap!Move
<1>4. index' \in Nat /\ offset' \in Nat
  BY <1>1, <1>3
<1>5. SearchSound'
  <2>1. CASE pc' = "word"
    BY <1>1, <1>2, <2>1 DEF SearchSound
  <2>2. CASE pc' = "shift"
    <3>1. word' \subseteq Bitmap!Bits /\ index' = index /\ offset' = 0
      BY <1>3, <2>2 DEF Bitmap!Word
    <3>2. \A i \in word' : Begin(index) + 0 + i \in free'
      <4>1. \A i \in word' : Begin(index) + i \in free /\ i \in Nat
        BY <1>3, <2>2, BitmapAssumption DEF Bitmap!Word, Begin, Bitmap!Bits
      <4>2. Begin(index) \in Nat
        BY <1>1, WordPlaces
      <4> QED BY <1>2, <4>1, <4>2 DEF SearchGoesOn
    <3> QED BY <1>1, <1>2, <2>2, <3>1, <3>2 DEF SearchSound
  <2> QED BY <1>3, <2>1, <2>2
<1> QED BY <1>1, <1>2, <1>4, <1>5, GoingOnKeeps DEF Answers, SearchGoesOn

\* The shift is to the right.
LEMMA ShiftIs ==
  ASSUME NEW w \in SUBSET Bitmap!Bits, NEW n \in Nat \ {0}, ~(Bitmap!Mask(n) \subseteq w)
  PROVE  Bitmap!NextShift(w, n) \in Nat
<1> DEFINE S == Bitmap!Mask(n) \ w
<1>1. S \in SUBSET Int /\ S # {} /\ (\A x \in S : x <= n) /\ n \in Int /\ \A x \in S : x >= 0
  BY DEF Bitmap!Mask
<1>2. Bitmap!Max(S) \in S
  BY <1>1, MaxIs
<1>3. Bitmap!Max(S) + 1 \in Nat
  BY <1>1, <1>2
<1> HIDE DEF S
<1>4. Bitmap!NextShift(w, n) = 0 \/ Bitmap!NextShift(w, n) = Bitmap!Max(S) + 1
  BY DEF Bitmap!NextShift, S
<1> QED BY <1>3, <1>4

LEMMA ShiftWordKeeps ==
  ASSUME BitmapInv, Bitmap!ShiftWord
  PROVE  BitmapInv' /\ Answers
<1> DEFINE s == Bitmap!NextShift(word, want)
           pos == Begin(index) + offset
<1> USE DEF BitmapInv
<1>1. /\ pc = "shift" /\ index \in Nat /\ offset \in Nat /\ want \in Nat
      /\ want \in RunRequest /\ want \in 1..Bitmap!BlockCount /\ want \in Nat \ {0} /\ index < BitmapSize
      /\ word \subseteq Bitmap!Bits /\ pos \in Nat
      /\ \A i \in word : pos + i \in free
  BY WordPlaces DEF Bitmap!ShiftWord, BitmapTyped, SearchSound
<1>2. CASE Bitmap!Mask(want) \subseteq word
  <2>1. Bitmap!Found(pos)
    BY <1>2 DEF Bitmap!ShiftWord, Begin
  <2>2. FreeRun(pos, want)
    BY <1>1, <1>2 DEF FreeRun, Bitmap!Mask
  <2> HIDE DEF pos
  <2> QED BY <1>1, <2>1, <2>2, FoundKeeps
<1>3. CASE ~(Bitmap!Mask(want) \subseteq word)
  <2>1. s \in Nat
    BY <1>1, <1>3, ShiftIs
  <2> HIDE DEF s
  <2>2. /\ SearchGoesOn /\ want' = want /\ word' = Bitmap!Shr(word, s) /\ index' = index
        /\ \/ pc' = "gap" /\ offset' = offset
           \/ pc' = "shift" /\ offset' = offset + s
    BY <1>1, <1>3 DEF Bitmap!ShiftWord, Bitmap!Move, SearchGoesOn, s
  <2>3. offset' \in Nat
    BY <1>1, <2>1, <2>2
  <2>4. SearchSound'
    <3>1. CASE pc' = "gap"
      BY <1>1, <2>2, <3>1 DEF SearchSound
    <3>2. CASE pc' = "shift"
      <4>0. offset' = offset + s /\ Begin(index)' = Begin(index) /\ Begin(index) \in Nat
        BY <1>1, <2>2, <3>2, WordPlaces DEF Begin
      <4>1. ASSUME NEW i \in word'
            PROVE  i \in Bitmap!Bits /\ Begin(index) + (offset + s) + i \in free
        <5>1. PICK j \in word : j >= s /\ i = j - s
          BY <2>2 DEF Bitmap!Shr
        <5>2. j \in 0..(BitsPerWord - 1) /\ BitsPerWord \in Nat
          BY <1>1, BitmapAssumption DEF Bitmap!Bits
        <5>3. Begin(index) + (offset + s) + i = Begin(index) + offset + j
          BY <1>1, <2>1, <4>0, <5>1, <5>2
        <5>4. i \in 0..(BitsPerWord - 1)
          BY <2>1, <5>1, <5>2
        <5> QED BY <1>1, <5>3, <5>4 DEF Bitmap!Bits
      <4> HIDE DEF pos
      <4> QED BY <1>1, <2>2, <3>2, <4>0, <4>1 DEF SearchSound, SearchGoesOn
    <3> QED BY <2>2, <3>1, <3>2
  <2> QED BY <1>1, <2>2, <2>3, <2>4, GoingOnKeeps DEF Answers, SearchGoesOn
<1> QED BY <1>2, <1>3

LEMMA JoinWordsKeeps ==
  ASSUME BitmapInv, Bitmap!JoinWords
  PROVE  BitmapInv' /\ Answers
<1> DEFINE high == Bitmap!LeadingOnes(Bitmap!Word(index))
           pos == Begin(index + 1) - high
<1> USE DEF BitmapInv
<1>1. /\ pc = "gap" /\ index \in Nat /\ index + 1 \in Nat /\ offset \in Nat /\ want \in Nat
      /\ want \in RunRequest /\ want \in 1..Bitmap!BlockCount
  BY DEF Bitmap!JoinWords, BitmapTyped, SearchSound
<1>2. high \in 0..BitsPerWord /\ pos \in Nat /\ FreeRun(pos, high)
  BY <1>1, LeadingRun
<1>3. PICK low \in Bitmap!TrailingOnesAt(index + 1) :
        IF high + low >= want
        THEN Bitmap!Found(pos)
        ELSE /\ index' = index + 1 /\ pc' = "word" /\ SearchGoesOn
             /\ want' = want /\ offset' = offset
  BY DEF Bitmap!JoinWords, Bitmap!Move, SearchGoesOn, Begin
<1>4. low \in 0..BitsPerWord /\ FreeRun(Begin(index + 1), low)
  BY <1>1, TrailingRun
<1>5. Begin(index + 1) \in Nat /\ Begin(index + 1) = pos + high /\ BitsPerWord \in Nat
  <2>1. Begin(index + 1) \in Nat /\ BitsPerWord \in Nat
    BY <1>1, WordPlaces, BitmapAssumption
  <2> HIDE DEF high
  <2> QED BY <1>2, <2>1
<1> HIDE DEF high, pos
<1>6. CASE high + low >= want
  <2>1. FreeRun(pos, high + low)
    BY <1>2, <1>4, <1>5, RunsJoin
  <2>2. FreeRun(pos, want)
    <3>1. high + low \in Nat
      BY <1>2, <1>4, <1>5
    <3> QED BY <1>1, <1>2, <1>6, <2>1, <3>1, ShorterRun
  <2>3. Bitmap!Found(pos)
    BY <1>3, <1>6
  <2> QED BY <1>1, <1>2, <2>2, <2>3, FoundKeeps
<1>7. CASE ~(high + low >= want)
  <2>1. /\ index' = index + 1 /\ pc' = "word" /\ SearchGoesOn
        /\ want' = want /\ offset' = offset
    BY <1>3, <1>7
  <2>2. SearchSound'
    BY <1>1, <2>1 DEF SearchSound
  <2> QED BY <1>1, <2>1, <2>2, GoingOnKeeps DEF Answers, SearchGoesOn
<1> QED BY <1>6, <1>7

LEMMA FirstWordKeeps ==
  ASSUME BitmapInv, Bitmap!FirstWord
  PROVE  BitmapInv' /\ Answers
<1> DEFINE high == Bitmap!LeadingOnes(Bitmap!Word(index))
           pos == Begin(index + 1) - high
<1> USE DEF BitmapInv
<1>1. /\ pc = "first" /\ index \in Nat /\ index + 1 \in Nat /\ offset \in Nat /\ want \in Nat
      /\ want \in RunRequest /\ want \in 1..Bitmap!BlockCount /\ SearchGoesOn /\ want' = want /\ index' = index + 1
  BY DEF Bitmap!FirstWord, Bitmap!Move, BitmapTyped, SearchSound, SearchGoesOn
<1>2. high \in 0..BitsPerWord /\ pos \in Nat /\ FreeRun(pos, high)
  BY <1>1, LeadingRun
<1>3. \/ pc' = "first" /\ offset' = offset
      \/ pc' = "more" /\ count' = high /\ offset' = pos
  BY DEF Bitmap!FirstWord, Bitmap!Move, Begin
<1>4. Begin(index + 1) \in Nat /\ Begin(index + 1) = pos + high /\ high \in Nat
  <2>1. Begin(index + 1) \in Nat /\ BitsPerWord \in Nat
    BY <1>1, WordPlaces, BitmapAssumption
  <2> HIDE DEF high
  <2> QED BY <1>2, <2>1
<1> HIDE DEF high, pos
<1>5. SearchSound'
  <2>1. CASE pc' = "first"
    BY <1>1, <2>1 DEF SearchSound
  <2>2. CASE pc' = "more"
    <3>1. FreeRun(offset, count)'
      BY <1>1, <1>2, <1>3, <2>2 DEF FreeRun, SearchGoesOn
    <3>2. Begin(index)' = Begin(index + 1)
      BY <1>1 DEF Begin
    <3> QED BY <1>1, <1>3, <1>4, <2>2, <3>1, <3>2 DEF SearchSound
  <2> QED BY <1>3, <2>1, <2>2
<1> QED BY <1>1, <1>2, <1>3, <1>5, GoingOnKeeps DEF Answers, SearchGoesOn

LEMMA MoreWordsKeeps ==
  ASSUME BitmapInv, Bitmap!MoreWords
  PROVE  BitmapInv' /\ Answers
<1> USE DEF BitmapInv
<1>1. /\ pc = "more" /\ index \in Nat /\ index + 1 \in Nat /\ offset \in Nat /\ want \in Nat
      /\ want \in RunRequest /\ want \in 1..Bitmap!BlockCount
      /\ count \in Nat /\ offset + count = Begin(index) /\ FreeRun(offset, count)
  BY DEF Bitmap!MoreWords, BitmapTyped, SearchSound
<1>2. PICK low \in Bitmap!TrailingOnesAt(index) :
        IF count + low >= want
        THEN Bitmap!Found(offset)
        ELSE /\ index' = index + 1 /\ pc' = (IF low < BitsPerWord THEN "first" ELSE "more")
             /\ count' = count + low /\ SearchGoesOn /\ want' = want /\ offset' = offset
  BY DEF Bitmap!MoreWords, Bitmap!Move, SearchGoesOn
<1>3. /\ low \in 0..BitsPerWord /\ low \in Nat /\ FreeRun(Begin(index), low) /\ BitsPerWord \in Nat
      /\ FreeRun(offset, count + low)
  <2>1. low \in 0..BitsPerWord /\ FreeRun(Begin(index), low) /\ BitsPerWord \in Nat
    BY <1>1, TrailingRun, BitmapAssumption
  <2> QED BY <1>1, <2>1, RunsJoin
<1>4. CASE count + low >= want
  <2>1. FreeRun(offset, want)
    <3>1. count + low \in Nat
      BY <1>1, <1>3
    <3> QED BY <1>1, <1>3, <1>4, <3>1, ShorterRun
  <2> QED BY <1>1, <1>2, <1>4, <2>1, FoundKeeps
<1>5. CASE ~(count + low >= want)
  <2>1. /\ index' = index + 1 /\ pc' = (IF low < BitsPerWord THEN "first" ELSE "more")
        /\ count' = count + low /\ SearchGoesOn /\ want' = want /\ offset' = offset
    BY <1>2, <1>5
  <2>2. SearchSound'
    <3>1. CASE pc' = "first"
      BY <1>1, <2>1, <3>1 DEF SearchSound
    <3>2. CASE pc' = "more"
      <4>1. low = BitsPerWord
        BY <1>3, <2>1, <3>2
      <4>2. Begin(index)' = Begin(index + 1) /\ Begin(index + 1) = Begin(index) + BitsPerWord
            /\ Begin(index) \in Nat
        BY <1>1, <2>1, WordPlaces DEF Begin
      <4>3. FreeRun(offset, count)'
        BY <1>3, <2>1 DEF FreeRun, SearchGoesOn
      <4>4. (offset + count)' = Begin(index)' /\ count' \in Nat
        BY <1>1, <1>3, <2>1, <4>1, <4>2
      <4> QED BY <1>1, <2>1, <3>2, <4>3, <4>4 DEF SearchSound
    <3> QED BY <2>1, <3>1, <3>2
  <2> QED BY <1>1, <2>1, <2>2, GoingOnKeeps DEF Answers, SearchGoesOn
<1> QED BY <1>4, <1>5

LEMMA BitmapInit ==
  ASSUME Bitmap!Init
  PROVE  BitmapInv
<1> DEFINE last == Bitmap!BlockCount - 1
<1>1. last \in Int /\ ~(0 > last) /\ last - 0 + 1 = Bitmap!BlockCount /\ Bitmap!BlockCount \in Nat
  BY WordPlaces
<1>2. /\ free = Bitmap!Block /\ nfree = Bitmap!BlockCount /\ live = [b \in Bitmap!Block |-> 0]
      /\ pc = "idle" /\ want = 0 /\ index = 0 /\ offset = 0 /\ Bitmap!Block = 0..last
  BY DEF Bitmap!Init, Bitmap!Block
<1>3. BitmapTyped
  BY <1>1, <1>2 DEF BitmapTyped
<1>4. Bitmap!InUse = {}
  BY <1>2 DEF Bitmap!InUse
<1>5. nfree = Cardinality(free)
  <2> HIDE DEF last
  <2>1. Cardinality(0..last) = IF 0 > last THEN 0 ELSE last - 0 + 1
    BY <1>1, FS_Interval
  <2> QED BY <1>1, <1>2, <2>1
<1>6. ExtentsApart /\ FreeIsRest
  BY <1>2, <1>4, <1>5 DEF ExtentsApart, FreeIsRest
<1>7. SearchSound
  BY <1>2 DEF SearchSound
<1> QED BY <1>3, <1>6, <1>7 DEF BitmapInv

LEMMA BitmapNext ==
  ASSUME BitmapInv, Bitmap!Next
  PROVE  BitmapInv'
BY BitmapAllocateKeeps, PastEndKeeps, EnterWordKeeps, ShiftWordKeeps, JoinWordsKeeps,
   FirstWordKeeps, MoreWordsKeeps, BitmapDeallocateKeeps DEF Bitmap!Next, Bitmap!Search

LEMMA BitmapInvImplies ==
  ASSUME BitmapInv
  PROVE  Bitmap!BitmapExact
<1>1. free \subseteq Bitmap!Block
  BY DEF BitmapInv, BitmapTyped
<1>2. free = Bitmap!Block \ UNION {Bitmap!Extent(b) : b \in Bitmap!InUse}
  BY <1>1 DEF BitmapInv, FreeIsRest
<1>3. nfree = Bitmap!Cardinality(free)
  BY DEF BitmapInv, FreeIsRest, Bitmap!Cardinality, Cardinality
<1> QED BY <1>2, <1>3 DEF Bitmap!BitmapExact

-----------------------------------------------------------------------------
(* The arenas together *)

ArenasInv ==
  /\ used = "binexp"   => BinexpInv
  /\ used = "fallback" => FallbackInv
  /\ used = "bitmap"   => BitmapInv

LEMMA ArenasNext ==
  ASSUME ArenasInv, [Next]_vars
  PROVE  ArenasInv'
<1> USE DEF ArenasInv
<1>1. CASE used = "binexp" /\ Binexp!Next /\ used' = used
  BY <1>1, BinexpNext
<1>2. CASE used = "fallback" /\ Fallback!Next /\ used' = used
  BY <1>2, FallbackNext
<1>3. CASE used = "bitmap" /\ Bitmap!Next /\ used' = used
  BY <1>3, BitmapNext
<1>4. CASE used = "pointer" /\ used' = used
  BY <1>4
<1>5. CASE UNCHANGED vars
  <2>1. /\ used' = used /\ free' = free /\ nfree' = nfree /\ live' = live /\ pc' = pc
        /\ want' = want /\ index' = index /\ word' = word /\ offset' = offset /\ count' = count
    BY <1>5 DEF vars, search, pointers
  <2>2. used = "binexp" => BinexpInv'
    BY <2>1 DEF BinexpInv, BinexpTyped, Binexp!BinsBounded, BlocksPlaced, BlocksSized, DisposedEmpty, Binned
  <2>3. used = "fallback" => FallbackInv'
    BY <2>1 DEF FallbackInv, FallbackTyped, BlocksContiguous, BlocksFill, Stacked, Fallback!InUse
  <2>4. used = "bitmap" => BitmapInv'
    <3>1. BitmapInv => SearchSound'
      BY <2>1 DEF BitmapInv, SearchSound, FreeRun
    <3>2. BitmapInv => BitmapTyped' /\ ExtentsApart' /\ FreeIsRest'
      BY <2>1, GoingOnKeeps DEF SearchGoesOn, BitmapInv, BitmapTyped
    <3> QED BY <3>1, <3>2 DEF BitmapInv
  <2> QED BY <2>1, <2>2, <2>3, <2>4
<1> QED BY <1>1, <1>2, <1>3, <1>4, <1>5 DEF Next

\* What an arena keeps of its blocks is exact for any sizes, addresses and requests, any word,
\* any length of a bitmap and whatever __ctz(0) yields (binexp_arena.hpp, freelist.hpp,
\* fallback_arena.hpp, ordered_arena.hpp, bitmap_arena.hpp).
THEOREM AccountsKept == Spec => []AccountsExact
<1>1. Init => ArenasInv
  BY BinexpInit, FallbackInit, BitmapInit DEF Init, ArenasInv
<1>2. ArenasInv /\ [Next]_vars => ArenasInv'
  BY ArenasNext
<1>3. ArenasInv => AccountsExact
  BY BinexpInvImplies, BitmapInvImplies, FillIsRoutedHome DEF ArenasInv, FallbackInv, AccountsExact
<1> QED BY <1>1, <1>2, <1>3, PTL DEF Spec

-----------------------------------------------------------------------------
(* Arenas as their clients see them *)

BlockRecord(cells, size) == [cells |-> cells, size |-> size]

\* The blocks at the addresses of U.
BlocksOf(cells, sizes, U) == {BlockRecord(cells[a], sizes[a]) : a \in U}

\* B and a new block are C: what Arena!Allocate asks for.
Makes(B, C, memory, requests) ==
  \E b \in C \ B :
    /\ b.cells # {} /\ b.cells \subseteq memory
    /\ b.size \in requests
    /\ \A c \in B : b.cells \intersect c.cells = {}
    /\ C = B \union {b}

\* B without a block is C: what Arena!Deallocate asks for.
Takes(B, C) == \E b \in B : C = B \ {b}

\* A step of an arena.
Serves(B, C, memory, requests) == Makes(B, C, memory, requests) \/ Takes(B, C) \/ C = B

\* A block made at an address of its own, apart from all others.
LEMMA BlockMade ==
  ASSUME NEW cells, NEW cells2, NEW sizes, NEW sizes2, NEW U, NEW memory, NEW requests,
         NEW a, cells2[a] # {}, cells2[a] \subseteq memory, sizes2[a] \in requests,
         \A u \in U : cells2[u] = cells[u] /\ sizes2[u] = sizes[u],
         \A u \in U : cells2[a] \intersect cells[u] = {}
  PROVE  Makes(BlocksOf(cells, sizes, U), BlocksOf(cells2, sizes2, U \union {a}), memory, requests)
<1> DEFINE B == BlocksOf(cells, sizes, U)
           C == BlocksOf(cells2, sizes2, U \union {a})
           b == BlockRecord(cells2[a], sizes2[a])
<1>1. b.cells = cells2[a] /\ b.size = sizes2[a]
  BY DEF BlockRecord
<1>2. \A c \in B : b.cells \intersect c.cells = {}
  BY <1>1 DEF BlocksOf, BlockRecord
<1>3. b \notin B
  BY <1>1, <1>2
<1>4. C = B \union {b}
  <2>1. \A u \in U : BlockRecord(cells2[u], sizes2[u]) = BlockRecord(cells[u], sizes[u])
    OBVIOUS
  <2>2. \A x : x \in C <=> x = b \/ \E u \in U : x = BlockRecord(cells2[u], sizes2[u])
    BY DEF BlocksOf
  <2>3. \A x : x \in B <=> \E u \in U : x = BlockRecord(cells[u], sizes[u])
    BY DEF BlocksOf
  <2> HIDE DEF B, C, b
  <2>4. \A x : x \in C <=> x \in B \/ x = b
    BY <2>1, <2>2, <2>3
  <2> QED BY <2>4
<1> HIDE DEF B, C, b
<1>5. b \in C \ B
  BY <1>3, <1>4
<1>6. b.cells # {} /\ b.cells \subseteq memory /\ b.size \in requests
  BY <1>1
<1>7. Makes(B, C, memory, requests)
  BY <1>2, <1>4, <1>5, <1>6 DEF Makes
<1> QED BY <1>7 DEF B, C

\* A block taken whose memory no other block has.
LEMMA BlockTaken ==
  ASSUME NEW cells, NEW cells2, NEW sizes, NEW sizes2, NEW U, NEW a \in U,
         \A u \in U \ {a} : cells2[u] = cells[u] /\ sizes2[u] = sizes[u],
         \A u \in U \ {a} : cells[u] # cells[a]
  PROVE  Takes(BlocksOf(cells, sizes, U), BlocksOf(cells2, sizes2, U \ {a}))
<1> DEFINE B == BlocksOf(cells, sizes, U)
           C == BlocksOf(cells2, sizes2, U \ {a})
           b == BlockRecord(cells[a], sizes[a])
<1>1. b \in B
  BY DEF BlocksOf
<1>2. \A u \in U \ {a} : BlockRecord(cells2[u], sizes2[u]) = BlockRecord(cells[u], sizes[u])
  OBVIOUS
<1>3. \A u \in U \ {a} : BlockRecord(cells[u], sizes[u]) # b
  BY DEF BlockRecord
<1>4. \A x : x \in C <=> \E u \in U \ {a} : x = BlockRecord(cells2[u], sizes2[u])
  BY DEF BlocksOf
<1>5. \A x : x \in B <=> \E u \in U : x = BlockRecord(cells[u], sizes[u])
  BY DEF BlocksOf
<1>6. b = BlockRecord(cells[a], sizes[a])
  OBVIOUS
<1> HIDE DEF B, C, b
<1>7. \A x : x \in C <=> x \in B /\ x # b
  <2>1. ASSUME NEW x \in C PROVE x \in B /\ x # b
    <3>1. PICK u \in U \ {a} : x = BlockRecord(cells2[u], sizes2[u])
      BY <1>4
    <3> QED BY <1>2, <1>3, <1>5, <3>1
  <2>2. ASSUME NEW x \in B, x # b PROVE x \in C
    <3>1. PICK u \in U : x = BlockRecord(cells[u], sizes[u])
      BY <1>5
    <3>2. u # a
      BY <1>6, <2>2, <3>1
    <3> QED BY <1>2, <1>4, <3>1, <3>2
  <2> QED BY <2>1, <2>2
<1>8. C = B \ {b}
  BY <1>7
<1> QED BY <1>1, <1>8 DEF Takes, B, C

-----------------------------------------------------------------------------
\* The memory of the blocks in use, by address.
BinexpCells   == [a \in BlockAddress |-> {a}]
BinexpInUse   == {a \in BlockAddress : live[a] > 0}
FallbackCells == [a \in Fallback!Address |-> Fallback!Cells(a)]
BitmapCells   == [b \in Bitmap!Block |-> Bitmap!Extent(b)]

BinexpBlocks   == BlocksOf(BinexpCells, live, BinexpInUse)
FallbackBlocks == BlocksOf(FallbackCells, live, Fallback!InUse)
BitmapBlocks   == BlocksOf(BitmapCells, live, Bitmap!InUse)

\* Under their own names these are the blocks of the instances of Arena.
LEMMA BinexpServes ==
  ASSUME Serves(BinexpBlocks, BinexpBlocks', BlockAddress, BinRequest)
  PROVE  Binexp!Promise!Next
<1>1. BinexpBlocks = {[cells |-> {a}, size |-> live[a]] : a \in {b \in BlockAddress : live[b] > 0}}
  BY DEF BinexpBlocks, BlocksOf, BlockRecord, BinexpCells, BinexpInUse
<1>2. BinexpBlocks' = {[cells |-> {a}, size |-> live'[a]] : a \in {b \in BlockAddress : live'[b] > 0}}
  BY DEF BinexpBlocks, BlocksOf, BlockRecord, BinexpCells, BinexpInUse
<1> QED BY <1>1, <1>2 DEF Serves, Makes, Takes, Binexp!Promise!Next, Binexp!Promise!Allocate,
          Binexp!Promise!Deallocate

LEMMA FallbackServes ==
  ASSUME Serves(FallbackBlocks, FallbackBlocks', Fallback!Address, HeapRequest)
  PROVE  Fallback!Promise!Next
<1>1. FallbackBlocks = {[cells |-> Fallback!Cells(a), size |-> live[a]] : a \in Fallback!InUse}
  BY DEF FallbackBlocks, BlocksOf, BlockRecord, FallbackCells, Fallback!InUse
<1>2. FallbackBlocks' = {[cells |-> Fallback!Cells(a)', size |-> live'[a]] : a \in Fallback!InUse'}
  BY DEF FallbackBlocks, BlocksOf, BlockRecord, FallbackCells, Fallback!InUse
<1> QED BY <1>1, <1>2 DEF Serves, Makes, Takes, Fallback!Promise!Next, Fallback!Promise!Allocate,
          Fallback!Promise!Deallocate

LEMMA BitmapServes ==
  ASSUME Serves(BitmapBlocks, BitmapBlocks', Bitmap!Block, RunRequest)
  PROVE  Bitmap!Promise!Next
<1>1. BitmapBlocks = {[cells |-> Bitmap!Extent(b), size |-> live[b]] : b \in Bitmap!InUse}
  BY DEF BitmapBlocks, BlocksOf, BlockRecord, BitmapCells, Bitmap!InUse
<1>2. BitmapBlocks' = {[cells |-> Bitmap!Extent(b)', size |-> live'[b]] : b \in Bitmap!InUse'}
  BY DEF BitmapBlocks, BlocksOf, BlockRecord, BitmapCells, Bitmap!InUse
<1> QED BY <1>1, <1>2 DEF Serves, Makes, Takes, Bitmap!Promise!Next, Bitmap!Promise!Allocate,
          Bitmap!Promise!Deallocate

LEMMA BinexpImplements ==
  ASSUME BinexpInv, Binexp!Next
  PROVE  Binexp!Promise!Next
<1> USE DEF BinexpInv
<1> SUFFICES Serves(BinexpBlocks, BinexpBlocks', BlockAddress, BinRequest)
  BY BinexpServes
<1>0. {0} \union BinRequest \subseteq Nat
  BY BinexpAssumption
<1>1. ASSUME NEW n \in BinRequest, Binexp!Allocate(n)
      PROVE  Makes(BinexpBlocks, BinexpBlocks', BlockAddress, BinRequest)
  <2>1. PICK a \in BlockAddress :
          /\ live' = [live EXCEPT ![a] = n]
          /\ IF ~Binexp!Direct(n) /\ free[Binexp!Index(n)] # <<>>
             THEN a = Head(free[Binexp!Index(n)])
             ELSE nfree[a] = 0
    BY <1>1 DEF Binexp!Allocate, Binexp!TargetAllocate
  <2>2. live[a] = 0
    <3>1. CASE ~Binexp!Direct(n) /\ free[Binexp!Index(n)] # <<>>
      <4>1. Binexp!Index(n) \in Binexp!Bin /\ free[Binexp!Index(n)] \in Seq(BlockAddress)
        BY <3>1, BlockSizeIs DEF BinexpTyped
      <4>2. a \in In(free[Binexp!Index(n)])
        BY <2>1, <3>1, <4>1, TailOf DEF BlocksPlaced
      <4> QED BY <4>1, <4>2 DEF BlocksPlaced, Binned
    <3>2. CASE ~(~Binexp!Direct(n) /\ free[Binexp!Index(n)] # <<>>)
      <4>1. nfree[a] = 0
        BY <2>1, <3>2
      <4>2. ~(live[a] > 0)
        BY <4>1 DEF BlocksPlaced
      <4>3. live[a] \in {0} \union BinRequest
        BY DEF BinexpTyped
      <4>4. live[a] \in Nat
        BY <1>0, <4>3
      <4> QED BY <4>2, <4>4
    <3> QED BY <3>1, <3>2
  <2>3. /\ live'[a] = n /\ n > 0
        /\ \A b \in BlockAddress : b # a => live'[b] = live[b]
    BY <2>1, BinexpAssumption DEF BinexpTyped
  <2>4. a \notin BinexpInUse /\ BinexpInUse' = BinexpInUse \union {a}
    BY <2>2, <2>3 DEF BinexpInUse
  <2>5. \A u \in BinexpInUse : live'[u] = live[u]
    BY <2>3, <2>4 DEF BinexpInUse
  <2>6. \A b \in BlockAddress : BinexpCells[b] = {b} /\ BinexpCells' = BinexpCells
    BY DEF BinexpCells
  <2>7. BinexpInUse \subseteq BlockAddress
    BY DEF BinexpInUse
  <2>9. /\ BinexpCells[a] # {} /\ BinexpCells[a] \subseteq BlockAddress /\ live'[a] \in BinRequest
        /\ \A u \in BinexpInUse : BinexpCells[a] \intersect BinexpCells[u] = {}
    BY <2>3, <2>4, <2>6, <2>7
  <2>8. Makes(BlocksOf(BinexpCells, live, BinexpInUse),
              BlocksOf(BinexpCells, live', BinexpInUse \union {a}), BlockAddress, BinRequest)
    BY <2>5, <2>9, BlockMade
  <2> QED BY <2>4, <2>6, <2>8 DEF BinexpBlocks
<1>2. ASSUME NEW a \in BlockAddress, Binexp!Deallocate(a)
      PROVE  Takes(BinexpBlocks, BinexpBlocks')
  <2>1. /\ live[a] > 0 /\ live'[a] = 0
        /\ \A b \in BlockAddress : b # a => live'[b] = live[b]
    BY <1>2 DEF Binexp!Deallocate, BinexpTyped
  <2>2. a \in BinexpInUse /\ BinexpInUse' = BinexpInUse \ {a} /\ BinexpInUse \subseteq BlockAddress
    BY <2>1 DEF BinexpInUse
  <2>3. \A b \in BlockAddress : BinexpCells[b] = {b} /\ BinexpCells' = BinexpCells
    BY DEF BinexpCells
  <2>4. \A u \in BinexpInUse \ {a} : live'[u] = live[u] /\ BinexpCells[u] # BinexpCells[a]
    BY <2>1, <2>2, <2>3
  <2>5. Takes(BlocksOf(BinexpCells, live, BinexpInUse),
              BlocksOf(BinexpCells, live', BinexpInUse \ {a}))
    BY <2>2, <2>4, BlockTaken
  <2> QED BY <2>2, <2>3, <2>5 DEF BinexpBlocks
<1>3. CASE Binexp!Dispose
  BY <1>3 DEF Binexp!Dispose, BinexpBlocks, BinexpInUse, BinexpCells, Serves
<1> QED BY <1>1, <1>2, <1>3 DEF Binexp!Next, Serves

\* Blocks of a fallback arena have a memory of their own.
LEMMA FallbackApart ==
  ASSUME FallbackInv, NEW a \in Fallback!InUse
  PROVE  /\ a \in Fallback!Cells(a)
         /\ \A b \in Fallback!InUse : b # a => Fallback!Cells(a) \intersect Fallback!Cells(b) = {}
<1> USE DEF FallbackInv
<1>1. ASSUME NEW b \in Fallback!InUse
      PROVE  \/ b \in Heap /\ b \notin Nat /\ Fallback!Cells(b) = {b}
             \/ /\ b \in Stacked /\ b \in Nat /\ live[b] \in Nat \ {0}
                /\ Fallback!Cells(b) = b..(b + live[b] - 1) /\ Fallback!Cells(b) \subseteq Nat
  <2>1. CASE b \in Heap
    BY <2>1, FallbackAssumption DEF Fallback!Cells
  <2>2. CASE b \notin Heap
    <3>1. b \in Stacked
      BY <2>2 DEF Stacked, Fallback!InUse, Fallback!Address
    <3>2. b \in Nat /\ live[b] \in Nat \ {0}
      BY <3>1, StackedFinite
    <3> QED BY <2>2, <3>1, <3>2 DEF Fallback!Cells
  <2> QED BY <2>1, <2>2
<1>2. a \in Fallback!Cells(a)
  BY <1>1
<1>3. ASSUME NEW b \in Fallback!InUse, b # a PROVE Fallback!Cells(a) \intersect Fallback!Cells(b) = {}
  <2>1. CASE a \in Stacked /\ b \in Stacked /\ a \in Nat /\ b \in Nat
    <3>1. \/ a + live[a] <= b
          \/ b + live[b] <= a
      BY <1>3, <2>1 DEF BlocksContiguous
    <3>2. /\ Fallback!Cells(a) = a..(a + live[a] - 1) /\ Fallback!Cells(b) = b..(b + live[b] - 1)
          /\ live[a] \in Nat /\ live[b] \in Nat
      BY <1>1, <2>1
    <3> QED BY <2>1, <3>1, <3>2
  <2> QED BY <1>1, <1>3, <2>1
<1> QED BY <1>2, <1>3

LEMMA FallbackImplements ==
  ASSUME FallbackInv, Fallback!Next
  PROVE  Fallback!Promise!Next
<1> USE DEF FallbackInv
<1> SUFFICES Serves(FallbackBlocks, FallbackBlocks', Fallback!Address, HeapRequest)
  BY FallbackServes
<1>1. Fallback!InUse \subseteq Fallback!Address
  BY DEF Fallback!InUse
<1>2. \A a \in Fallback!Address : /\ FallbackCells[a] = Fallback!Cells(a)
                                  /\ FallbackCells'[a] = Fallback!Cells(a)'
  BY DEF FallbackCells
<1>3. ASSUME NEW a \in Fallback!Address, live'[a] = live[a] PROVE FallbackCells'[a] = FallbackCells[a]
  BY <1>2, <1>3 DEF Fallback!Cells
\* A block of n bytes at an address that was not in use.
<1>4. ASSUME NEW n \in HeapRequest, NEW a \in Fallback!Address, a \notin Fallback!InUse,
             live' = [live EXCEPT ![a] = n],
             FallbackCells'[a] # {}, FallbackCells'[a] \subseteq Fallback!Address,
             \A u \in Fallback!InUse : FallbackCells'[a] \intersect Fallback!Cells(u) = {}
      PROVE  Makes(FallbackBlocks, FallbackBlocks', Fallback!Address, HeapRequest)
  <2>1. /\ live'[a] = n /\ n > 0
        /\ \A b \in Fallback!Address : b # a => live'[b] = live[b]
    BY <1>4, FallbackAssumption DEF FallbackTyped
  <2>2. Fallback!InUse' = Fallback!InUse \union {a}
    BY <2>1 DEF Fallback!InUse
  <2>3. \A u \in Fallback!InUse : live'[u] = live[u] /\ FallbackCells'[u] = FallbackCells[u]
    BY <1>1, <1>3, <1>4, <2>1
  <2>4. /\ FallbackCells'[a] # {} /\ FallbackCells'[a] \subseteq Fallback!Address
        /\ \A u \in Fallback!InUse : FallbackCells'[a] \intersect FallbackCells[u] = {}
    BY <1>1, <1>2, <1>4
  <2>5. Makes(BlocksOf(FallbackCells, live, Fallback!InUse),
              BlocksOf(FallbackCells', live', Fallback!InUse \union {a}),
              Fallback!Address, HeapRequest)
    BY <2>1, <2>3, <2>4, BlockMade
  <2> QED BY <2>2, <2>5 DEF FallbackBlocks
<1>5. ASSUME NEW n \in HeapRequest, Fallback!OrderedAllocate(n)
      PROVE  Makes(FallbackBlocks, FallbackBlocks', Fallback!Address, HeapRequest)
  <2>1. /\ n \in Nat \ {0} /\ nfree \in Nat /\ nfree + n <= Size /\ Size \in Nat
        /\ live' = [live EXCEPT ![nfree] = n]
    BY <1>5, FallbackAssumption DEF Fallback!OrderedAllocate, Fallback!Fits, FallbackTyped
  <2>2. /\ nfree \in Fallback!Address /\ nfree \notin Heap /\ nfree \notin Fallback!InUse
        /\ Fallback!Storage \subseteq Fallback!Address
    <3>1. nfree \in Fallback!Storage /\ nfree \notin Heap
      BY <2>1, FallbackAssumption DEF Fallback!Storage
    <3>2. nfree \notin Stacked
      BY <2>1, StackedFinite DEF BlocksContiguous
    <3> QED BY <3>1, <3>2 DEF Stacked, Fallback!Address
  <2>3. live'[nfree] = n
    BY <2>1, <2>2 DEF FallbackTyped
  <2> DEFINE Made == nfree..(nfree + n - 1)
  <2>4. FallbackCells'[nfree] = Made
    BY <1>2, <2>2, <2>3 DEF Fallback!Cells
  <2>5. Made \subseteq Fallback!Storage /\ nfree \in Made
    BY <2>1 DEF Fallback!Storage
  <2>6. ASSUME NEW u \in Fallback!InUse PROVE Made \intersect Fallback!Cells(u) = {}
    <3>1. CASE u \in Heap
      <4>1. Fallback!Cells(u) = {u} /\ u \notin Nat /\ Made \subseteq Nat
        BY <2>1, <3>1, FallbackAssumption DEF Fallback!Cells
      <4> QED BY <4>1
    <3>2. CASE u \notin Heap
      <4>1. u \in Stacked
        BY <3>2 DEF Stacked, Fallback!InUse, Fallback!Address
      <4>2. u \in Nat /\ live[u] \in Nat /\ u + live[u] <= nfree
        BY <4>1, StackedFinite DEF BlocksContiguous
      <4>3. Fallback!Cells(u) = u..(u + live[u] - 1)
        BY <3>2 DEF Fallback!Cells
      <4> QED BY <2>1, <4>2, <4>3
    <3> QED BY <3>1, <3>2
  <2> HIDE DEF Made
  <2>7. /\ FallbackCells'[nfree] # {} /\ FallbackCells'[nfree] \subseteq Fallback!Address
        /\ \A u \in Fallback!InUse : FallbackCells'[nfree] \intersect Fallback!Cells(u) = {}
    BY <2>2, <2>4, <2>5, <2>6
  <2> QED BY <1>4, <2>1, <2>2, <2>7
<1>6. ASSUME NEW n \in HeapRequest, Fallback!HeapAllocate(n)
      PROVE  Makes(FallbackBlocks, FallbackBlocks', Fallback!Address, HeapRequest)
  <2>1. PICK a \in Heap \ free : live' = [live EXCEPT ![a] = n]
    BY <1>6 DEF Fallback!HeapAllocate
  <2>2. a \in Fallback!Address /\ a \notin Nat /\ a \notin Fallback!InUse
    BY FallbackAssumption DEF BlocksFill, Fallback!Address
  <2>3. FallbackCells'[a] = {a}
    BY <1>2, <2>2 DEF Fallback!Cells
  <2>4. ASSUME NEW u \in Fallback!InUse PROVE a \notin Fallback!Cells(u)
    <3>1. CASE u \in Heap
      BY <2>2, <3>1 DEF Fallback!Cells
    <3>2. CASE u \notin Heap
      <4>1. u \in Stacked
        BY <3>2 DEF Stacked, Fallback!InUse, Fallback!Address
      <4>2. u \in Nat /\ live[u] \in Nat
        BY <4>1, StackedFinite
      <4>3. Fallback!Cells(u) = u..(u + live[u] - 1)
        BY <3>2 DEF Fallback!Cells
      <4> QED BY <2>2, <4>2, <4>3
    <3> QED BY <3>1, <3>2
  <2>5. /\ FallbackCells'[a] # {} /\ FallbackCells'[a] \subseteq Fallback!Address
        /\ \A u \in Fallback!InUse : FallbackCells'[a] \intersect Fallback!Cells(u) = {}
    BY <2>2, <2>3, <2>4
  <2> QED BY <1>4, <2>1, <2>2, <2>5
<1>7. ASSUME NEW a \in Fallback!Address, Fallback!Deallocate(a)
      PROVE  Takes(FallbackBlocks, FallbackBlocks')
  <2>1. live[a] > 0 /\ live' = [live EXCEPT ![a] = 0]
    BY <1>7 DEF Fallback!Deallocate, Fallback!MayRelease
  <2>2. live'[a] = 0 /\ \A b \in Fallback!Address : b # a => live'[b] = live[b]
    BY <2>1 DEF FallbackTyped
  <2>3. a \in Fallback!InUse /\ Fallback!InUse' = Fallback!InUse \ {a}
    BY <2>1, <2>2 DEF Fallback!InUse
  <2>4. \A u \in Fallback!InUse \ {a} : live'[u] = live[u] /\ FallbackCells'[u] = FallbackCells[u]
    BY <1>1, <1>3, <2>2
  <2>5. \A u \in Fallback!InUse \ {a} : FallbackCells[u] # FallbackCells[a]
    <3>1. a \in Fallback!Cells(a)
          /\ \A u \in Fallback!InUse : u # a => Fallback!Cells(a) \intersect Fallback!Cells(u) = {}
      BY <2>3, FallbackApart
    <3> QED BY <1>1, <1>2, <2>3, <3>1
  <2>6. Takes(BlocksOf(FallbackCells, live, Fallback!InUse),
              BlocksOf(FallbackCells', live', Fallback!InUse \ {a}))
    BY <2>3, <2>4, <2>5, BlockTaken
  <2> QED BY <2>3, <2>6 DEF FallbackBlocks
<1> QED BY <1>5, <1>6, <1>7 DEF Fallback!Next, Fallback!Allocate, Serves

\* A search that finds nothing shows its client nothing.
LEMMA BitmapImplements ==
  ASSUME BitmapInv, Bitmap!Next
  PROVE  Bitmap!Promise!Next
<1> USE DEF BitmapInv
<1> SUFFICES Serves(BitmapBlocks, BitmapBlocks', Bitmap!Block, RunRequest)
  BY BitmapServes
<1>1. Bitmap!InUse \subseteq Bitmap!Block
  BY DEF Bitmap!InUse
<1>2. \A b \in Bitmap!Block : /\ BitmapCells[b] = Bitmap!Extent(b)
                              /\ BitmapCells'[b] = Bitmap!Extent(b)'
  BY DEF BitmapCells
<1>3. CASE live' = live
  BY <1>3 DEF Serves, BitmapBlocks, BitmapCells, Bitmap!InUse, Bitmap!Extent
<1>4. ASSUME NEW pos, live' = [live EXCEPT ![pos] = want], BitmapInv', pos \in Bitmap!Block,
             pos \notin Bitmap!InUse, want \in RunRequest
      PROVE  Makes(BitmapBlocks, BitmapBlocks', Bitmap!Block, RunRequest)
  <2>1. /\ live'[pos] = want /\ want > 0
        /\ \A b \in Bitmap!Block : b # pos => live'[b] = live[b]
    BY <1>4, BitmapAssumption DEF BitmapTyped
  <2>2. Bitmap!InUse' = Bitmap!InUse \union {pos}
    BY <1>4, <2>1 DEF Bitmap!InUse
  <2>3. \A u \in Bitmap!InUse : live'[u] = live[u] /\ u # pos
    BY <1>1, <1>4, <2>1
  <2>4. \A u \in Bitmap!InUse : Bitmap!Extent(u)' = Bitmap!Extent(u)
    BY <2>3 DEF Bitmap!Extent
  <2>5. \A u \in Bitmap!InUse : BitmapCells'[u] = BitmapCells[u]
    BY <1>1, <1>2, <2>4
  <2>6. /\ Bitmap!Extent(pos)' \subseteq Bitmap!Block
        /\ \A u \in Bitmap!InUse : Bitmap!Extent(pos)' \intersect Bitmap!Extent(u)' = {}
    <3>1. ExtentsApart'
      BY <1>4
    <3> QED BY <2>2, <2>3, <3>1 DEF ExtentsApart
  <2>7. pos \in Bitmap!Extent(pos)'
    <3>1. pos \in 0..(Bitmap!BlockCount - 1)
      BY <1>4, BlocksFinite
    <3>2. live'[pos] \in Nat \ {0}
      BY <1>4, <2>1, BitmapAssumption
    <3>3. Bitmap!Extent(pos)' = pos..(pos + live'[pos] - 1)
      BY DEF Bitmap!Extent
    <3> QED BY <3>1, <3>2, <3>3
  <2>8. /\ BitmapCells'[pos] # {} /\ BitmapCells'[pos] \subseteq Bitmap!Block
        /\ \A u \in Bitmap!InUse : BitmapCells'[pos] \intersect BitmapCells[u] = {}
    BY <1>1, <1>2, <1>4, <2>4, <2>6, <2>7
  <2>9. Makes(BlocksOf(BitmapCells, live, Bitmap!InUse),
              BlocksOf(BitmapCells', live', Bitmap!InUse \union {pos}), Bitmap!Block, RunRequest)
    BY <1>4, <2>1, <2>3, <2>5, <2>8, BlockMade
  <2> QED BY <2>2, <2>9 DEF BitmapBlocks
<1>5. CASE Bitmap!Search
  <2>1. BitmapInv' /\ Answers
    BY <1>5, PastEndKeeps, EnterWordKeeps, ShiftWordKeeps, JoinWordsKeeps, FirstWordKeeps, MoreWordsKeeps
    DEF Bitmap!Search
  <2> QED BY <1>3, <1>4, <2>1 DEF Answers, Serves
<1>6. ASSUME NEW a \in Bitmap!Block, Bitmap!Deallocate(a)
      PROVE  Takes(BitmapBlocks, BitmapBlocks')
  <2>1. live[a] > 0 /\ live' = [live EXCEPT ![a] = 0]
    BY <1>6 DEF Bitmap!Deallocate
  <2>2. live'[a] = 0 /\ \A b \in Bitmap!Block : b # a => live'[b] = live[b]
    BY <2>1 DEF BitmapTyped
  <2>3. a \in Bitmap!InUse /\ Bitmap!InUse' = Bitmap!InUse \ {a}
    BY <2>1, <2>2 DEF Bitmap!InUse
  <2>4. \A u \in Bitmap!InUse \ {a} : live'[u] = live[u]
    BY <1>1, <2>2
  <2>5. \A u \in Bitmap!InUse \ {a} : Bitmap!Extent(u)' = Bitmap!Extent(u)
    BY <2>4 DEF Bitmap!Extent
  <2>6. \A u \in Bitmap!InUse \ {a} : BitmapCells'[u] = BitmapCells[u]
    BY <1>1, <1>2, <2>5
  <2>7. \A u \in Bitmap!InUse \ {a} : BitmapCells[u] # BitmapCells[a]
    <3>1. a \in Bitmap!Extent(a)
      BY <2>3, ExtentInUse
    <3>2. \A u \in Bitmap!InUse \ {a} : Bitmap!Extent(u) \intersect Bitmap!Extent(a) = {}
      BY <2>3 DEF ExtentsApart
    <3> QED BY <1>1, <1>2, <2>3, <3>1, <3>2
  <2>8. Takes(BlocksOf(BitmapCells, live, Bitmap!InUse),
              BlocksOf(BitmapCells', live', Bitmap!InUse \ {a}))
    BY <2>3, <2>4, <2>6, <2>7, BlockTaken
  <2> QED BY <2>3, <2>8 DEF BitmapBlocks
<1> QED BY <1>3, <1>5, <1>6 DEF Bitmap!Next, Bitmap!Allocate, Serves

\* For any sizes, addresses and requests the three arenas implement Arena: the blocks that
\* clients have never overlap, and each stays what it is until it is given back
\* (binexp_arena.hpp, fallback_arena.hpp, bitmap_arena.hpp).
THEOREM ArenasImplemented == Spec => ImplementsArena
<1>1. Init => /\ ArenasInv
              /\ used = "binexp"   => Binexp!Promise!Init
              /\ used = "fallback" => Fallback!Promise!Init
              /\ used = "bitmap"   => Bitmap!Promise!Init
  <2> SUFFICES ASSUME Init
               PROVE  /\ ArenasInv
                      /\ used = "binexp"   => Binexp!Promise!Init
                      /\ used = "fallback" => Fallback!Promise!Init
                      /\ used = "bitmap"   => Bitmap!Promise!Init
    OBVIOUS
  <2>1. ArenasInv
    BY BinexpInit, FallbackInit, BitmapInit DEF Init, ArenasInv
  <2>2. used = "binexp" => Binexp!Promise!Init
    <3> SUFFICES ASSUME used = "binexp" PROVE \A a \in BlockAddress : live[a] = 0
      BY DEF Binexp!Promise!Init
    <3> QED BY DEF Init, Binexp!Init
  <2>3. used = "fallback" => Fallback!Promise!Init
    <3> SUFFICES ASSUME used = "fallback" PROVE Fallback!InUse = {}
      BY DEF Fallback!Promise!Init
    <3> QED BY DEF Init, Fallback!Init, Fallback!InUse
  <2>4. used = "bitmap" => Bitmap!Promise!Init
    <3> SUFFICES ASSUME used = "bitmap" PROVE Bitmap!InUse = {}
      BY DEF Bitmap!Promise!Init
    <3> QED BY DEF Init, Bitmap!Init, Bitmap!InUse
  <2> QED BY <2>1, <2>2, <2>3, <2>4
<1>2. ArenasInv /\ [Next]_vars
        => /\ ArenasInv'
           /\ [/\ used = "binexp"   => Binexp!Promise!Next
               /\ used = "fallback" => Fallback!Promise!Next
               /\ used = "bitmap"   => Bitmap!Promise!Next]_vars
  BY ArenasNext, BinexpImplements, FallbackImplements, BitmapImplements DEF ArenasInv, Next
<1> QED BY <1>1, <1>2, PTL DEF Spec, ImplementsArena
=============================================================================
