------------------------------ MODULE Containers ------------------------------
(***************************************************************************)
(* Small containers of the library, each used by itself: circular_queue,   *)
(* ordered_stack, priority_set, compact::string and compact::vector,       *)
(* bitvector and bitset, counting_bloom_filter, and several                *)
(* basic_bloom_filters of one program.                                     *)
(* They share variables, under other names; a variable that is not in use  *)
(* keeps one value.                                                        *)
(***************************************************************************)
EXTENDS Naturals, SequencesExt

CONSTANTS
  \* of circular_queue and ordered_stack
  QueueCapacity, MaxPushed, MaxHeight, Rubbish,
  \* of priority_set
  Priority, NodeAddress,
  \* of the filters
  Word, HashCount, CellCount, CellMod, MaxCounted, MaxInserted,
  \* of compact::string and compact::vector
  Nul, Raw, Local, Initial, MaxSize, MaxText,
  \* of bitvector and bitset
  WordBits, ByteBits, BitsOf, MaxBits, SetSize,
  \* model values
  val_low, val_same, val_high, key_a, key_b, key_c, filter_1, filter_2

Value  == {val_low, val_same, val_high}
Key    == {key_a, key_b, key_c}
Filter == {filter_1, filter_2}

\* Two values are equal in the order, and two keys have the same hash code.
Rank == [v \in Value |-> IF v = val_high THEN 2 ELSE 1]
Hash == [k \in Key |-> IF k = key_c THEN 1 ELSE 0]

\* key_a has cells 1 and 2, key_b cell 1 twice, and key_c cells 4 and 2.
Mix == [k \in Key |-> IF k = key_a THEN <<1, 3>> ELSE IF k = key_b THEN <<2, 2>> ELSE <<5, 10>>]

\* __fastrange: the high half of the product.
FastRange(word, p) == (word * p) \div Word

\* hash_code[0] accumulates hash_code[1], in 64 bits.
HashCode(k, i) == (Mix[k][1] + i * Mix[k][2]) % Word

\* The cells of a key in a filter that has p of them.
Cells(k, p) == [i \in 1..HashCount |-> FastRange(HashCode(k, i), p)]

Bits == [f \in Filter |-> 5]

\* A queue of capacity zero is full when it is empty, and pops what is not there.
ASSUME QueueAssumption == QueueCapacity \in Nat \ {0} /\ MaxPushed \in Nat
ASSUME StackAssumption == MaxHeight \in Nat
ASSUME RubbishAssumption == Rubbish \notin Value
ASSUME PriorityAssumption == Priority \subseteq Nat
\* An input range can always begin, and a size has no more bits than max_size.
ASSUME CompactAssumption ==
  /\ Local \in Nat \ {0} /\ MaxSize \in Nat
  /\ Local + 1 <= MaxSize /\ Initial \in 1..MaxSize /\ MaxText \in 0..MaxSize
ASSUME BloomAssumption ==
  /\ Word \in Nat \ {0}
  /\ Mix \in [Key -> (0..(Word - 1)) \X (0..(Word - 1))]
  /\ HashCount \in Nat \ {0}
  /\ CellCount \in Nat \ {0} /\ CellMod \in Nat \ {0, 1}

\* A byte fits into a word, and a pattern has places.
ASSUME BitAssumption ==
  /\ WordBits \in Nat \ {0} /\ ByteBits \in 1..WordBits /\ WordBits % ByteBits = 0
  /\ SetSize \in Nat \ {0} /\ MaxBits \in Nat
  /\ BitsOf \subseteq SUBSET (0..(SetSize - 1))

VARIABLES used, buffer, given, track, storage, size, members, taken, refused

vars == <<used, buffer, given, track, storage, size, members, taken, refused>>

Unused == "unused"

Priorities == INSTANCE PrioritySet WITH Address <- NodeAddress,
                heap <- storage, nodes <- buffer, lookup <- members, undefined <- refused, moved <- taken
String == INSTANCE CompactString WITH
            Char <- {key_a, key_b}, Garbage <- Raw, Inner <- FALSE,
            word <- storage, heap <- buffer, expected <- given, range <- track
Vector == INSTANCE CompactVector WITH
            Value <- {key_a, key_b}, MaxCount <- MaxText, block <- buffer, expected <- given, range <- track
Bitvec == INSTANCE BitVector WITH Unknown <- Raw, cells <- buffer, expected <- given
Bitset == INSTANCE Bitset WITH Size <- SetSize, words <- buffer, expected <- given
Counting == INSTANCE CountingBloomFilter WITH
              Capacity <- CellCount, MaxSize <- MaxCounted, net <- members, exact <- refused
Filters == INSTANCE BasicBloomFilter WITH
             Capacity <- Bits, MaxSize <- MaxInserted, Assertions <- FALSE
DebugFilters == INSTANCE BasicBloomFilter WITH
                  Capacity <- Bits, MaxSize <- MaxInserted, Assertions <- TRUE

-----------------------------------------------------------------------------
(* circular_queue of src/stlext/containers/circular_queue.hpp: a queue of bounded length    *)
(* that evicts its front element when one is pushed into a full queue.  buffer is           *)
(* __m_buffer, and given what was given to the queue since it was cleared, an observer.     *)
(* push takes its argument by reference, and the reference may be to an element of the      *)
(* queue itself, as in q.push(q.front()): if that element is the one evicted, what is       *)
(* pushed is whatever is left in its place.                                                 *)

\* circular_queue(size), or by copying a container, which is full from then on.
QueueInit ==
  /\ buffer \in {<<>>} \union [1..QueueCapacity -> Value]
  /\ given = buffer

Full == Len(buffer) >= QueueCapacity

\* What is left after the eviction.
Evicted == IF Full THEN Tail(buffer) ELSE buffer

PushBack(v) ==
  /\ Len(given) < MaxPushed
  /\ buffer' = Append(Evicted, v)
  /\ given' = Append(given, v)

\* push(q[i]): the reference is read after the eviction.
PushElement(i) ==
  /\ Len(given) < MaxPushed
  /\ buffer' = Append(Evicted, IF Full /\ i = 1 THEN Rubbish ELSE buffer[i])
  /\ given' = Append(given, buffer[i])

PopFront ==
  /\ buffer # <<>>
  /\ buffer' = Tail(buffer)
  /\ UNCHANGED given

ClearQueue == buffer' = <<>> /\ given' = <<>>

QueueNext ==
  \/ \E v \in Value : PushBack(v)
  \/ \E i \in DOMAIN buffer : PushElement(i)
  \/ PopFront
  \/ ClearQueue

\* Through any mixture of pushes into a full queue, pops and clearing, the queue
\* holds the values given last, in order: eviction takes the oldest one.  (A value
\* read from a destroyed element is at least in the right place.)
HoldsLatest ==
  /\ Len(buffer) <= Len(given) /\ Len(buffer) <= QueueCapacity
  /\ \A i \in 1..Len(buffer) : buffer[i] \in {given[Len(given) - Len(buffer) + i], Rubbish}

\* Nothing is lost before the queue is full: a push into a queue that is not
\* full keeps every element, one into a full queue exactly the others.
EvictsOnlyWhenFull ==
  Len(given') > Len(given) =>
    Len(buffer') = IF Len(buffer) < QueueCapacity THEN Len(buffer) + 1 ELSE QueueCapacity

-----------------------------------------------------------------------------
(* ordered_stack of src/stlext/containers/ordered_stack.hpp: a stack with a second stack    *)
(* that holds, at each height, the first element in the order of all elements up to that    *)
(* height, so that order_element() takes one step.  buffer is __m_stack, track __m_track,   *)
(* and given the values pushed and not popped, an observer.  push takes its argument by     *)
(* reference, which may be to an element of the stack, as in s.push(s.order_element()): if  *)
(* pushing to the second stack moves it to a larger block, the reference is stale when the  *)
(* first stack is pushed to.                                                                *)

Precedes(v, w) == Rank[v] < Rank[w]

\* std::min(v, w, comp): the first of two equal elements.
Least(v, w) == IF Precedes(w, v) THEN w ELSE v

\* Both constructors push the elements of a container; the default one is empty.
StackInit == buffer = <<>> /\ track = <<>> /\ given = <<>>

Tracked(v) == Append(track, IF buffer = <<>> THEN v ELSE Least(Last(track), v))

\* push() and emplace() of a value outside the stack.
PushOn(v) ==
  /\ Len(buffer) < MaxHeight
  /\ track' = Tracked(v)
  /\ buffer' = Append(buffer, v)
  /\ given' = Append(given, v)

\* push(order_element()): the second stack may move before the first reads.
PushOrderElement ==
  /\ buffer # <<>> /\ Len(buffer) < MaxHeight
  /\ track' = Tracked(Last(track))
  /\ \E v \in {Last(track), Rubbish} : buffer' = Append(buffer, v)
  /\ given' = Append(given, Last(track))

PopTop ==
  /\ buffer # <<>>
  /\ track' = Front(track)
  /\ buffer' = Front(buffer)
  /\ given' = Front(given)

StackNext ==
  \/ \E v \in Value : PushOn(v)
  \/ PushOrderElement
  \/ PopTop

\* The first stack holds what was pushed and not popped (a value read from a block that was
\* moved is at least in the right place), and at every height the second one holds the
\* first in the order of the elements up to there, and the lowest of its equals; so
\* order_element() is right now and after any number of pops.
TracksOrder ==
  /\ Len(track) = Len(buffer) /\ Len(given) = Len(buffer)
  /\ \A n \in DOMAIN given : buffer[n] \in {given[n], Rubbish}
  /\ \A n \in DOMAIN given :
       /\ \E i \in 1..n :
            /\ track[n] = given[i]
            /\ \A j \in 1..(i - 1) : Rank[given[j]] # Rank[given[i]]
       /\ \A j \in 1..n : ~Precedes(given[j], track[n])

\* Nothing distinguishes the addresses of nodes.
AddressSymmetry == Permutations(NodeAddress)

-----------------------------------------------------------------------------
NoFilter == storage = Unused /\ size = Unused /\ members = Unused /\ refused = Unused
NoBuffer == buffer = Unused /\ given = Unused /\ track = Unused

Init ==
  \/ used = "queue"    /\ QueueInit       /\ NoFilter /\ taken = Unused /\ track = Unused
  \/ used = "stack"    /\ StackInit       /\ NoFilter /\ taken = Unused
  \/ used = "priority" /\ Priorities!Init /\ given = Unused /\ track = Unused /\ size = Unused
  \/ used = "string"   /\ String!Init     /\ members = Unused /\ taken = Unused /\ refused = Unused
  \/ used = "vector"   /\ Vector!Init     /\ storage = Unused /\ members = Unused /\ taken = Unused /\ refused = Unused
  \/ used = "bitvector" /\ Bitvec!Init   /\ track = Unused /\ storage = Unused /\ members = Unused /\ taken = Unused /\ refused = Unused
  \/ used = "bitset"   /\ Bitset!Init     /\ NoFilter /\ track = Unused /\ taken = Unused
  \/ used = "counting" /\ Counting!Init   /\ NoBuffer /\ taken = Unused
  \/ used = "filters"  /\ Filters!Init    /\ NoBuffer
  \/ used = "debug"    /\ DebugFilters!Init /\ NoBuffer

Next ==
  \/ used = "queue"    /\ QueueNext       /\ UNCHANGED <<used, track, storage, size, members, taken, refused>>
  \/ used = "stack"    /\ StackNext       /\ UNCHANGED <<used, storage, size, members, taken, refused>>
  \/ used = "priority" /\ Priorities!Next /\ UNCHANGED <<used, given, track, size>>
  \/ used = "string"   /\ String!Next     /\ UNCHANGED <<used, members, taken, refused>>
  \/ used = "vector"   /\ Vector!Next     /\ UNCHANGED <<used, storage, members, taken, refused>>
  \/ used = "bitvector" /\ Bitvec!Next   /\ UNCHANGED <<used, track, storage, members, taken, refused>>
  \/ used = "bitset"   /\ Bitset!Next     /\ UNCHANGED <<used, track, storage, size, members, taken, refused>>
  \/ used = "counting" /\ Counting!Next   /\ UNCHANGED <<used, buffer, given, track, taken>>
  \/ used = "filters"  /\ Filters!Next    /\ UNCHANGED <<used, buffer, given, track>>
  \/ used = "debug"    /\ DebugFilters!Next /\ UNCHANGED <<used, buffer, given, track>>

Spec == Init /\ [][Next]_vars

-----------------------------------------------------------------------------
(* Properties *)

\* Through any mixture of calls, two representations of the same contents agree: the second
\* stack of an ordered_stack with the first, the cells of a counting filter with what was
\* inserted and erased, and the queue, the stack, the string, the vector, the bits and the
\* words of a bitset with what was given; no bit of a filter is set without a key, and a
\* string or vector, also one of bits, has a block of its size, and a string its terminator.
\* The lookup table of a priority_set agrees with its multiset only as long as each change
\* of a priority gets back the address that it has just freed: no allocator must do so, and
\* after one that does not a call may use a freed node (priority_map.hpp:265 and 291).
ContentsExact ==
  /\ used = "queue"    => HoldsLatest
  /\ used = "stack"    => TracksOrder
  /\ used = "priority" => Priorities!LookupKept
  /\ used = "string"   => String!ContentsExact /\ String!BlockExact /\ String!Terminated
  /\ used = "vector"   => Vector!ContentsExact /\ Vector!BlockExact
  /\ used = "bitvector" => Bitvec!ContentsExact /\ Bitvec!BlockExact
  /\ used = "bitset"   => Bitset!WordsExact
  /\ used = "counting" => Counting!StorageExact
  /\ used = "filters"  => Filters!BitsJustified
  /\ used = "debug"    => DebugFilters!BitsJustified

\* The table of a priority_set has an entry for each node, by its own key, whatever the
\* allocator does: "insert into lookup" (priority_map.hpp:294).  It has not.
TableExact == used = "priority" => Priorities!LookupExact

\* A filter never misses a member: a counting one before a counter wraps or an absent key is
\* erased, one of bits through unions and intersections as well.
NoFalseNegatives ==
  /\ used = "counting" => Counting!NoFalseNegatives
  /\ used = "filters"  => Filters!NoFalseNegatives
  /\ used = "debug"    => DebugFilters!NoFalseNegatives

\* Each call does what it is for and no more: priority_set implements a queue of distinct
\* keys ordered by priority, as long as each change of a priority gets back the address that
\* it has just freed and with it the table is sound; circular_queue evicts only when it is
\* full, and erasing makes no counter grow.
CallsExact ==
  /\ used = "priority" => Priorities!Queue!Init
  /\ [][/\ used = "priority" => Priorities!CallsKept
        /\ used = "queue" => EvictsOnlyWhenFull
        /\ used = "counting" => Counting!ErasureOnlyLowers]_vars
=============================================================================
