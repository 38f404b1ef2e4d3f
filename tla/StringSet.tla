------------------------------ MODULE StringSet ------------------------------
(***************************************************************************)
(* basic_stringset of src/stlext/containers/stringset.hpp: strings packed  *)
(* one behind the other in a buffer, each after its length, and found      *)
(* through a table of offsets with linear probing.                         *)
(*                                                                         *)
(* The buffer is the sequence of its strings; offsets count bytes, as the  *)
(* code's do.  A string is a member of a set, with a length and a hash.    *)
(* Empty strings, null pointers and strings beyond max_length change       *)
(* nothing and are left out, and so is the capacity of the buffer.         *)
(***************************************************************************)
EXTENDS Integers, Sequences, SequencesExt, FiniteSetsExt

CONSTANTS
  String,     \* strings a client uses
  Length,     \* their lengths in bytes
  Hash,       \* __hash_bytes
  MaxEntries, \* bound on the strings in the buffer, for clients that erase and for others
  MaxReserve  \* bound on the argument of reserve()

MaxLength == 65535  \* max_length, of a uint16_t

ASSUME LengthAssumption == Length \in [String -> 1..MaxLength]
ASSUME HashAssumption   == Hash \in [String -> Nat]
ASSUME BoundAssumption  == MaxEntries \in [BOOLEAN -> Nat] /\ MaxReserve \in Nat

PrefixSize     == 2  \* sizeof(length_type), a uint16_t
DefaultBuckets == 16

VARIABLES
  buffer,  \* __m_buffer
  buckets, \* __m_buckets: a node [offset, hash] for each index from 0
  size,    \* __m_size
  erases   \* is the client one that erases strings?

vars == <<buffer, buckets, size, erases>>

-----------------------------------------------------------------------------
(* The buffer *)

EntrySize(s) == PrefixSize + Length[s]

\* The position behind the first i strings of the buffer.
End(buf, i) ==
  LET end[j \in 0..Len(buf)] == IF j = 0 THEN 0 ELSE end[j - 1] + EntrySize(buf[j])
  IN  end[i]

\* What a comparison at an offset finds: the strings that begin there.
At(buf, offset) == {buf[i] : i \in {j \in DOMAIN buf : End(buf, j - 1) = offset}}

-----------------------------------------------------------------------------
(* The table *)

FreeNode == [offset |-> -1, hash |-> 0]

Resized(bks, n) == [b \in 0..(n - 1) |-> IF b \in DOMAIN bks THEN bks[b] ELSE FreeNode]

Count(bks) == Cardinality(DOMAIN bks)

Used(bks) == {b \in DOMAIN bks : bks[b].offset # -1}

\* The first bucket of the probe sequence of h that is in stops, in a table of n
\* buckets; the home bucket when there is none.
Probe(h, n, stops) ==
  LET steps == {j \in 0..(n - 1) : (h + j) % n \in stops}
  IN  (h + (IF steps = {} THEN 0 ELSE Min(steps))) % n

\* The loop of __find_node and __find_free: it stops at a free bucket or at the
\* string.
StopFor(bks, buf, s) ==
  Probe(Hash[s], Count(bks),
        {b \in DOMAIN bks : bks[b].offset = -1 \/ s \in At(buf, bks[b].offset)})

\* find() and count(): the search arrives at the string.
Found(s) == size > 0 /\ s \in At(buffer, buckets[StopFor(buckets, buffer, s)].offset)

\* A slip: a node is copied without the search for a free bucket.
CopiedHome(new, node, n) ==
  IF node.offset = -1 THEN new ELSE [new EXCEPT ![node.hash % n] = node]

\* The body of the loop of __rehash: a free node is passed over, another one goes
\* to the first free bucket of the new table.
Copied(new, node, n) ==
  IF node.offset = -1 THEN new
  ELSE [new EXCEPT ![Probe(node.hash, n, DOMAIN new \ Used(new))] = node]

\* __rehash: the nodes go to a new table in the order of the old one.
Rehashed(bks, n) ==
  LET new[b \in 0..Count(bks)] ==
        IF b = 0 THEN Resized(<<>>, n) ELSE Copied(new[b - 1], bks[b - 1], n)
  IN  new[Count(bks)]

\* load_factor() > max_load_factor()
Overloaded == 5 * size > 4 * Count(buckets)

\* The table in which insert() looks for a place.
Roomy ==
  IF Count(buckets) = 0 THEN Resized(buckets, DefaultBuckets)
  ELSE IF Overloaded THEN Rehashed(buckets, 2 * Count(buckets)) ELSE buckets

-----------------------------------------------------------------------------
Init == buffer = <<>> /\ buckets = <<>> /\ size = 0 /\ erases \in BOOLEAN

\* A slip: the place is looked for before the table is rehashed.
InsertStale(s) ==
  LET bks == Roomy
      b   == StopFor(IF Count(buckets) = 0 THEN bks ELSE buckets, buffer, s)
  IN  IF bks[b].offset = -1
      THEN /\ Len(buffer) < MaxEntries[erases]
           /\ buckets' = [bks EXCEPT ![b] = [offset |-> End(buffer, Len(buffer)),
                                             hash |-> Hash[s]]]
           /\ buffer' = Append(buffer, s)
           /\ size' = size + 1
      ELSE buckets' = bks /\ UNCHANGED <<buffer, size>>

\* insert(): the table may be rehashed even if the string is present.
Insert(s) ==
  LET bks == Roomy
      b   == StopFor(bks, buffer, s)
  IN  IF bks[b].offset = -1
      THEN /\ Len(buffer) < MaxEntries[erases]
           /\ buckets' = [bks EXCEPT ![b] = [offset |-> End(buffer, Len(buffer)),
                                             hash |-> Hash[s]]]
           /\ buffer' = Append(buffer, s)
           /\ size' = size + 1
      ELSE buckets' = bks /\ UNCHANGED <<buffer, size>>

\* A slip: the shift leaves the length prefix out.
ShiftedByString(bks, offset, s) ==
  [b \in DOMAIN bks |->
     IF bks[b].offset = offset THEN FreeNode
     ELSE [bks[b] EXCEPT !.offset = IF @ > offset THEN @ - Length[s] ELSE @]]

\* The nodes after the string at the offset is erased: its own is marked free,
\* and those of the strings behind it follow them.  (The hash that a free node
\* keeps is never read and is left out.)
Shifted(bks, offset, s) ==
  [b \in DOMAIN bks |->
     IF bks[b].offset = offset THEN FreeNode
     ELSE [bks[b] EXCEPT !.offset = IF @ > offset THEN @ - EntrySize(s) ELSE @]]

\* erase(iterator) for an iterator at the i-th string of the buffer.
EraseAt(i) ==
  /\ erases
  /\ buckets' = Shifted(buckets, End(buffer, i - 1), buffer[i])
  /\ buffer' = RemoveAt(buffer, i)
  /\ size' = size - 1

\* A slip: the first equal string of the buffer is erased, not the one found.
EraseFirstEqual(s) ==
  /\ Found(s)
  /\ EraseAt(Min({i \in DOMAIN buffer : buffer[i] = s}))

\* erase(key): the string that find() arrives at, if any.
Erase(s) ==
  /\ Found(s)
  /\ \E i \in DOMAIN buffer :
       /\ End(buffer, i - 1) = buckets[StopFor(buckets, buffer, s)].offset
       /\ EraseAt(i)

Clear == buffer' = <<>> /\ buckets' = <<>> /\ size' = 0

\* A slip: the table is resized and not rehashed.
ReserveByResize(n) ==
  /\ \/ size = 0 /\ buckets' = Resized(buckets, n)
     \/ size > 0 /\ 4 * n > 5 * Count(buckets) /\ buckets' = Resized(buckets, n)
  /\ UNCHANGED <<buffer, size>>

\* reserve(), with and without a length for the buffer.
Reserve(n) ==
  /\ \/ size = 0 /\ buckets' = Resized(buckets, n)
     \/ size > 0 /\ 4 * n > 5 * Count(buckets) /\ buckets' = Rehashed(buckets, n)
  /\ UNCHANGED <<buffer, size>>

Next ==
  /\ \/ \E s \in String : Insert(s) \/ Erase(s)
     \/ \E i \in DOMAIN buffer : EraseAt(i)
     \/ Clear
     \/ \E n \in 0..MaxReserve : Reserve(n)
  /\ UNCHANGED erases

Spec == Init /\ [][Next]_vars

-----------------------------------------------------------------------------
(* Properties *)

\* Buffer and table describe the same strings: each used node points to the
\* start of one string with its hash, each string has exactly one node, and
\* size() counts them.  Erasing shifts the buffer under all other nodes.
NodesExact ==
  /\ size = Len(buffer)
  /\ \A i \in DOMAIN buffer :
       \E b \in Used(buckets) :
         /\ buckets[b] = [offset |-> End(buffer, i - 1), hash |-> Hash[buffer[i]]]
         /\ \A c \in Used(buckets) : buckets[c].offset = buckets[b].offset => c = b
  /\ Cardinality(Used(buckets)) = Len(buffer)

\* A string that insert() was called with is found afterwards, whether it was
\* new or not, also when the call rehashed the table or met buckets freed by
\* erase().
InsertedFound == [][\A s \in String : Insert(s) => Found(s)']_vars

\* A string erased by its key is not found afterwards.
ErasedNotFound == [][\A s \in String : Erase(s) => ~Found(s)']_vars

\* Rehashing, by insert() or reserve(), loses no string: afterwards all of them
\* are found, those hidden behind a freed bucket before included.
RehashRestores ==
  [][size > 0 /\ Count(buckets') > Count(buckets)
       => \A i \in DOMAIN buffer : Found(buffer[i])']_vars

\* As long as nothing was erased, the strings found are those in the buffer,
\* and the buffer holds each of them once.
FoundExactly ==
  ~erases =>
    /\ \A s \in String : Found(s) <=> s \in ToSet(buffer)
    /\ Cardinality(ToSet(buffer)) = Len(buffer)

\* What the test of the container relies on when it counts "11" after erasing
\* "0": erasing a string does not hide another.
OthersFound == \A i \in DOMAIN buffer : Found(buffer[i])
=============================================================================
