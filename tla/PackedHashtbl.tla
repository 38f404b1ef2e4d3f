---------------------------- MODULE PackedHashtbl ----------------------------
(***************************************************************************)
(* detail::packed_hashtbl of src/stlext/containers/packed_hashtbl.hpp: a   *)
(* chained hash table inside a fixed array of slots.  A slot has a single  *)
(* link field, its first member; it continues a bucket's chain while the   *)
(* slot holds an element and the list of free slots after the slot is      *)
(* destroyed.                                                              *)
(*                                                                         *)
(* The table is one record, so that an operation is a function of it and   *)
(* assignment can run clear and a series of inserts as the code does.      *)
(***************************************************************************)
EXTENDS Integers, Sequences, FiniteSets, SequencesExt

CONSTANTS
  Key,        \* keys; the mapped value of a packed_hashmap plays no part
  N,          \* max_capacity, the number of slots and of buckets
  Hash,       \* hash_value: a function from keys to 0..N-1
  DefaultKey, \* the key of value_type()
  Null        \* nullptr

Slot   == 1..N
Bucket == 0..(N - 1)

ASSUME CapacityAssumption == N \in Nat \ {0}
ASSUME HashAssumption     == Hash \in [Key -> Bucket]
ASSUME KeyAssumption      == DefaultKey \in Key
ASSUME NullAssumption     == Null \notin Slot

VARIABLE tbl \* [next, key : per slot; bucket : per bucket; free, size]

-----------------------------------------------------------------------------
(* Chains *)

\* The i-th slot reached from the link p, Null once the chain has ended.
Reached(h, p) ==
  LET at[i \in 0..N] ==
        IF i = 0 THEN p
        ELSE IF at[i - 1] = Null THEN Null ELSE h.next[at[i - 1]]
  IN  at

Chain(h, b) == {Reached(h, h.bucket[b])[i] : i \in 0..N} \ {Null}

\* The slots that hold elements.
Live(h) == UNION {Chain(h, b) : b \in Bucket}

\* __lookup: the slot of the element k, Null if there is none.
Lookup(h, k) ==
  LET holders == {s \in Chain(h, Hash[k]) : h.key[s] = k}
  IN  IF holders = {} THEN Null ELSE CHOOSE s \in holders : TRUE

\* A slip: __next_bucket() taken even when the first bucket is filled.
FirstFromNext(h, b) ==
  LET filled == {c \in (b + 1)..(N - 1) : h.bucket[c] # Null}
  IN  IF filled = {} THEN <<Null, N>>
      ELSE LET c == CHOOSE x \in filled : \A y \in filled : x <= y IN <<h.bucket[c], c>>

\* What iteration visits: begin() skips to the first non-empty bucket, ++ follows
\* the chain and then skips to the next non-empty one; the sentinel is N.
FirstFrom(h, b) ==
  LET filled == {c \in b..(N - 1) : h.bucket[c] # Null}
  IN  IF filled = {} THEN <<Null, N>>
      ELSE LET c == CHOOSE x \in filled : \A y \in filled : x <= y IN <<h.bucket[c], c>>

Visited(h) ==
  LET at[i \in 0..N] ==
        IF i = 0 THEN FirstFrom(h, 0)
        ELSE LET it == at[i - 1]
             IN  IF it[1] = Null THEN it
                 ELSE IF h.next[it[1]] # Null THEN <<h.next[it[1]], it[2]>>
                 ELSE FirstFrom(h, it[2] + 1)
  IN  at

-----------------------------------------------------------------------------
(* Operations as functions of the table *)

\* freelist::push of slot s.
Push(h, s) == [h EXCEPT !.next[s] = h.free, !.free = s]

\* A slip: clear() resets the buckets but returns no slot to the free list.
EmptiedKeepingSlots(h) ==
  [h EXCEPT !.size = 0, !.bucket = [b \in Bucket |-> Null]]

\* __construct and clear: every slot is pushed in order on top of whatever the
\* free list holds.
Emptied(h) ==
  LET pushed == [s \in Slot |-> IF s = 1 THEN h.free ELSE s - 1]
  IN  [h EXCEPT !.next = pushed, !.free = N, !.size = 0,
                !.bucket = [b \in Bucket |-> Null]]

\* __insert_node of a key that is not in its chain: the slot popped off the
\* free list is appended to the chain.
Inserted(h, k) ==
  LET s    == h.free
      b    == Hash[k]
      ends == {e \in Chain(h, b) : h.next[e] = Null}
  IN  [next   |-> [x \in Slot |-> IF x = s THEN Null
                                  ELSE IF x \in ends THEN s ELSE h.next[x]],
       key    |-> [h.key EXCEPT ![s] = k],
       bucket |-> IF h.bucket[b] = Null THEN [h.bucket EXCEPT ![b] = s] ELSE h.bucket,
       free   |-> h.next[s],
       size   |-> h.size + 1]

\* insert(value): a full table throws, a present key is left alone.
Insertable(h, k) == h.size < N /\ Lookup(h, k) = Null

InsertInto(h, k) == IF Insertable(h, k) THEN Inserted(h, k) ELSE h

\* __destroy_node: the slot is pushed on the free list.  The key in it is not
\* destroyed.
Destroyed(h, s) == [Push(h, s) EXCEPT !.size = @ - 1]

\* A slip: only the bucket's head is relinked, not the slot before s.
DetachedAtHead(h, s, b) == [h EXCEPT !.bucket[b] = IF @ = s THEN h.next[s] ELSE @]

\* A slip: the rest of the chain goes with its head.
DetachedWithRest(h, s, b) ==
  [h EXCEPT !.next = [x \in Slot |-> IF x \in Chain(h, b) /\ h.next[x] = s
                                     THEN h.next[s] ELSE h.next[x]],
            !.bucket[b] = IF @ = s THEN Null ELSE @]

\* __erase_node up to __destroy_node: the slot s is unlinked from bucket b.
Detached(h, s, b) ==
  [h EXCEPT !.next = [x \in Slot |-> IF x \in Chain(h, b) /\ h.next[x] = s
                                     THEN h.next[s] ELSE h.next[x]],
            !.bucket[b] = IF @ = s THEN h.next[s] ELSE @]

\* A slip: the next element of the chain is copied into the slot and its own
\* slot is erased instead.
UnlinkedByCopy(h, s, b) ==
  LET t == h.next[s]
  IN  IF t = Null THEN Destroyed(Detached(h, s, b), s)
      ELSE Destroyed([Detached(h, t, b) EXCEPT !.key[s] = h.key[t]], t)

\* __erase_node of slot s in bucket b.
Unlinked(h, s, b) == Destroyed(Detached(h, s, b), s)

-----------------------------------------------------------------------------
Unset == [next   |-> [s \in Slot |-> Null],
          key    |-> [s \in Slot |-> DefaultKey],
          bucket |-> [b \in Bucket |-> Null],
          free   |-> Null,
          size   |-> 0]

Init == tbl = Emptied(Unset)

Insert(k) == Insertable(tbl, k) /\ tbl' = Inserted(tbl, k)

\* erase(key) and erase(position) of an element.
Erase(k) ==
  LET s == Lookup(tbl, k)
  IN  s # Null /\ tbl' = Unlinked(tbl, s, Hash[k])

Clear == tbl' = Emptied(tbl)

\* The orders in which another table may hand out elements: by bucket, each once.
Iterations ==
  {ks \in SeqOf(Key, N) :
     \A i, j \in DOMAIN ks : i < j => ks[i] # ks[j] /\ Hash[ks[i]] <= Hash[ks[j]]}

\* The table after the first i elements of ks are inserted into h.
Filled(h, ks) ==
  LET at[i \in 0..Len(ks)] == IF i = 0 THEN h ELSE InsertInto(at[i - 1], ks[i])
  IN  at

\* operator=: clear, then insert every element of the other table.
Assign(ks) == tbl' = Filled(Emptied(tbl), ks)[Len(ks)]

Next ==
  \/ \E k \in Key : Insert(k)
  \/ \E k \in Key : Erase(k)
  \/ Clear
  \/ \E ks \in Iterations : Assign(ks)

Spec == Init /\ [][Next]_tbl

-----------------------------------------------------------------------------
(* Properties *)

\* Type correctness of the slot array, the buckets, the list head and the size.
TypeOK ==
  tbl \in [next : [Slot -> Slot \cup {Null}], key : [Slot -> Key],
           bucket : [Bucket -> Slot \cup {Null}], free : Slot \cup {Null}, size : 0..N]

\* Chains end, share no slot, hold as many slots as size() says, and hold each
\* key at most once, in the bucket it hashes to.
ChainsSound ==
  /\ TypeOK
  /\ \A b \in Bucket : Reached(tbl, tbl.bucket[b])[N] = Null
  /\ \A b \in Bucket : \A s \in Chain(tbl, b) : Hash[tbl.key[s]] = b
  /\ \A s, t \in Live(tbl) : tbl.key[s] = tbl.key[t] => s = t
  /\ Cardinality(Live(tbl)) = tbl.size

\* The first N - size entries of the free list are exactly the slots without an
\* element, although clear() pushes slots the list already holds and leaves it
\* cyclic: no insert is ever given a null pointer or an occupied slot.
FreeSlotsReady ==
  {Reached(tbl, tbl.free)[i] : i \in 0..(N - tbl.size - 1)} = Slot \ Live(tbl)

\* Iteration from begin() reaches end() after size() steps and visits every
\* element once.
IterationExact ==
  /\ {Visited(tbl)[i][1] : i \in 0..(tbl.size - 1)} = Live(tbl)
  /\ Visited(tbl)[tbl.size] = <<Null, N>>

\* Inserting or erasing an element moves no other element to another slot:
\* pointers to elements stay valid.
SlotsStable ==
  [][\A k \in Key : Insert(k) \/ Erase(k) =>
       \A s \in Live(tbl) : tbl.key[s] # k =>
         s \in Live(tbl') /\ tbl'.key[s] = tbl.key[s]]_tbl

\* The table seen as the set of the keys it holds.
Abstract == INSTANCE BoundedSet WITH
  members <- {tbl.key[s] : s \in Live(tbl)}

\* No operation loses, duplicates or invents an element, and each call is the
\* abstract one of the same name.
ImplementsBoundedSet ==
  /\ Abstract!Spec
  /\ [][\A k \in Key : /\ Insert(k) => Abstract!Insert(k)
                       /\ Erase(k) => Abstract!Erase(k)]_tbl
=============================================================================
