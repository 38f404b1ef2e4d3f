# A verification development for stlext

stlext is a header-only C++ library of containers, caches, arenas, algorithms
and small concurrency helpers.  This directory holds TLA+ models of the parts
of it that keep state or compute something a test hardly covers, TLC runs that
check them on small instances, and TLAPS proofs of what matters most for every
instance.

`PROJECT.json` lists the components, the runs, the lines each definition
translates, a mutant for every checked property, the findings, the hazards and
the theorems.  A run is repeated with `tlc -config <cfg> <module>`, a proof
with `tlapm <module>`.

## 1. Inventory

| part | state | operations | what is hard | modules |
|------|-------|-----------|--------------|---------|
| `containers/cache.hpp` | node list, lookup table of iterators, cost counter | insert, erase, pop, touch, operator[], clear | three pieces of state kept in step by hand; eviction decided against a running total; two policies behind one algorithm | `BasicCache`, `RecencyCache`, `BasicCacheProofs` |
| `containers/packed_hashtbl.hpp` | slot array, buckets, free list, size | insert, erase, clear, assignment, iteration | one link field for chains and free list | `PackedHashtbl`, `BoundedSet`, `MCPackedHashtbl`, `PackedHashtblProofs` |
| `containers/stringset.hpp` | buckets of offsets, packed buffer | insert, erase, find, rehash | linear probing with deletion; offsets shifted under the table | `StringSet`, `MCStringSet`, `StringSetProofs` |
| `cui/progress_watcher.hpp` | number of attached workers, a counter per worker | attach, detach, publish, watch | threads without locks; a loop that polls | `ProgressWatcher`, `Threads`, `ThreadsProofs` |
| `threads/latch.hpp`, `thread_set.hpp` | atomic countdown; vector of threads | countdown, wait; start, join | wrap-around below zero, polling, partial failure | `Threads`, `ThreadsProofs` |
| `containers/priority_map.hpp` | ordered multiset and a table of pointers to its keys | insert, update, erase, pop | key pointers outlive the nodes they point to | `PrioritySet`, `PriorityQueue`, `Containers` |
| `containers/circular_queue.hpp`, `ordered_stack.hpp` | bounded sequence; stack with running extremes | push, pop | references into the container itself | `Containers` |
| `compact/` | one word: characters, or an address and a size | insert, erase, append, assign, input ranges | no spare room: nearly every call moves everything | `CompactString`, `CompactVector`, `Containers` |
| `bfc/` | array of bits or counters | insert, count, erase, union | no false negatives, counter overflow | `BasicBloomFilter`, `CountingBloomFilter`, `Containers`, `ContainersProofs` |
| `allocators/` arenas | bins of free blocks, a boundary, a bitmap | allocate, deallocate | blocks handed out twice or given back to the wrong arena; word-wise search | `Arena`, `BinexpArena`, `FallbackArena`, `BitmapArena`, `Allocators`, `AllocatorsProofs` |
| `allocators/intrusive_ptr.hpp` | a count in each object | copy, assign, reset, detach | threads that share a count | `IntrusivePtr`, `Allocators`, `AllocatorsProofs` |
| `bitvector/` | two words or a block of them and a control byte; fixed sets of bits; cursors into words | resize, assign, insert, erase, combine, shift; copy, exchange, reverse, rotate, flip, fill, find, count, compare, search | word boundaries, overlap, iterators inside a word; what is in a word above its bits | `BitVector`, `Bitset`, `Containers`; `BitWords`, `BitMove`, `BitSwap`, `BitReverse`, `BitRotate`, `BitRuns`, `BitAlgorithms`, `AlgorithmsProofs` |
| `algorithm/` | none | sorting, searching, merging, majority, splitting, maximal sums | ends of ranges, loops that must end | `KWay`, `CountingSort`, `Searching`, `Majority`, `Kadane`, `Algorithms`, `AlgorithmsProofs` |
| `iostreams/` codecs, `itos` | bits of an incomplete group | encode, decode, flush; convert | groups across calls, room for the longest text | `Conversions`, `Algorithms` |
| the rest | none, or a map behind a function | traits, formatting, console, streams, back-ports, the vendored test framework | | not modelled, see section 12 |

The parts interact little: caches and tables are used by one thread and call
only the standard library; the adapters in `allocators/` forward to an arena,
and arenas forward to each other (fallback, binary exponential); the watcher,
the latch, the thread set and the intrusive pointers are where threads meet.
Where parts are made for each other, the model composes them: the watcher with
the workers and the main thread of its example, the latch with the thread set,
the fallback arena with the ordered arena and the heap behind it, an encoder
with a decoder, `rotate` with the copies and exchanges it is made of.

For each part the properties that make it correct:

* caches: list, table and counter describe the same elements; the budget is
  kept; eviction follows the policy; no call loops for ever; the reference a
  call returns belongs to its key.
* hash table: chains are sound; no live slot is ever handed out; iteration is
  exact; elements do not move; the whole is a bounded set.
* string set: what was inserted is found until it is erased.
* priority set: multiset and table describe the same keys, and calls are those of
  a queue (as long as a moved node gets its old address back, section 8).
* watcher: reports are honest and monotone; watching ends; nobody outlives it.
* latch, thread set: nobody passes before the count is down, no thread
  outlives what it refers to, the program ends.
* small containers: they hold what was given to them, and evict or move
  nothing else.
* arenas: live blocks never overlap; what is released can be had again.
* reference counts: an object is destroyed once, after its last use.
* filters: no false negatives under legal calls.
* algorithms on bits and elements: the result is the function's, nothing
  outside of the range changes, and the call ends.
* conversions: what is written reads back.

## 2. How the models are built

**Modules.**  Each module translates one part; its comment says which.  The
hash table and the string set have an MC module with the keys and hash codes of
the instance.  Proofs are in modules of their own, one for a component
(`BasicCacheProofs` for `BasicCache`) or for several (`ThreadsProofs` for the watcher
and for the latch and the thread set).  Five modules join parts that TLC checks together:
`Containers`, `Allocators`, `BitAlgorithms`, `Algorithms` and `Threads`.  In such a module
a variable `used` says which part the behaviour is about, the parts are
instances that share the other variables under other names (in `Threads` each has
its own), a variable that the part in use does not have keeps one value, and each
property is a conjunction with one conjunct for each part it concerns.  One run then
answers one question ("is each answer exact?") for all of them.

**Atomicity.**  Containers are used by one thread and a call is one step, except
where the code returns to its caller in the middle (an input range that is read
element by element, a codec that is given byte after byte) or runs a loop whose
turns are worth looking at: there each turn is a step, so that the invariants
speak about what the loop relies on, and termination is a property.  Between
threads each access to a shared atomic is a step of its own.

**Observers.**  Some modules carry what a client knows and the code does not
keep (the elements a container should hold, the bits a memory had, the pointers
that own an object).  They are named as observers and no guard of the code
reads them.

**Fairness.**  A thread that runs a function goes on with it: weak fairness of
the turns of one call, of the main thread, of each worker.  Nothing is assumed
of a client that need not call again, and no strong fairness is used.

**Bounds.**  Runs stay at two to four keys, slots, threads or blocks: each
structure is linked pairwise (a node and its neighbour, a key and its slot, a
worker and the main thread), and the smallest instances with a first, a middle
and a last element, a hit and a miss, and a full and an empty structure already
contain every case the code distinguishes.  Widths (of words, registers,
counters, hash codes, sizes) are constants and small in the runs; the code uses
them only as parameters, and the small ones reach the limits that the real ones
reach too.  `CHECK_DEADLOCK FALSE` is said only where calls end and nothing
follows, or where a bound on the model's clients stops them.

The order of the plan was: cache, hash table and watcher first, because
programs rely on their state for longest; then the string set, threads, arenas
and pointers; then the small containers and filters; then the algorithms and
conversions.  All of it is built.  What is left of the plan is proofs
(section 11).

## 3. The cache: BasicCache

`list` is `__m_list`, a sequence of nodes with address, key, value and cost;
`lookup` is `__m_lookup`, a function from keys to addresses; `cost` is
`__m_cost`; `ret` is the key of the element the last call gave access to, and
`spinning` says that the trimming loop of `insert` will never end.  `Policy`
stands for the class `lru_traits` or `mru_traits`.

| code | action |
|------|--------|
| `insert`, cost above the budget | `InsertTooCostly` |
| `insert`, cost equal to the budget, key cached / not cached | `InsertWholeHit` / `InsertWholeMiss` |
| `insert`, cost below the budget: trimming, then hit or miss | `InsertTrimmed` |
| `insert`, trimming that does not end | `InsertSpins` |
| `erase(it)`, `erase(key)` | `Erase` |
| `pop` | `Pop` |
| `touch` | `Touch` |
| `cachemap::operator[]` | `Index` |
| `clear` | `Clear` |

The trimming loop is one step: it keeps the largest number of nodes with which
its condition is false (`StopsAt`).  Popping an empty list changes nothing
(`victim()` of an empty `std::list` is `end()` in libstdc++, and `erase` of
`end()` returns), so without such a number the loop never ends.  The order of
"look for the key" and "make room" is the code's: room is made first, and may
evict the very key that is being updated.  Costs are small naturals; the
wrap-around of `cost + __m_cost` near 2^64 is left out.  The debug-only
reference and hit counters, and what `erase(it)` returns, are left out.
A cache set is a cache map with one value.

`RecencyCache` is what a least-recently-used cache promises: a map with costs
and an order of use, where only the keys used longest ago are given up, and a
new key gives up no more of them than its cost requires.  (An update may give
up more: the code makes room for the new cost while the old one still counts.)

### Run cache_lru

Three keys, three addresses, two values, a budget of 4, costs 1 to 5, so that a
cost may be a quarter of the budget, all of it, or more.  It shows `Coherent`
(list and table describe the same elements), `CostExact`, `WithinBudget`,
`TrimmingEnds`, `IndexYieldsKey` and `ImplementsRecencyCache`, the refinement,
in which each call is the abstract call of the same purpose.  Addresses are
symmetric.  The other policy, for which `Coherent` and `WithinBudget` hold and
the rest does not, is covered by the theorem `CacheSafety`.

### What the most-recently-used policy does differently

All three come from code that identifies "the node just used" with `begin()`:

* Updating a cached key to the whole budget keeps the first node of the list
  and drops the others, the updated one included (`cache.hpp:489`, against the
  comment in 488); the cost counter is then set to the updated cost although a
  cheaper node was kept.  From then on the counter exceeds the nodes' costs,
  and an insert may trim until the list is empty and never stop (`InsertSpins`).
* `insert` returns `begin()` (522), so `operator[]` of a new key refers to the
  value of another one (773, against 765).
* `touch` does not reorder the node at `begin()` (579, against 572).

### Proofs

`BasicCacheProofs` proves for all constants that satisfy the assumptions of
`BasicCache` (a positive budget, positive costs):

* `CacheSafety`: `TypeOK`, `Coherent` and `WithinBudget` always hold, under
  both policies;
* `CacheCoherent` states the second of these by itself;
* `LruCostExact` and `LruTrimmingEnds`: under the least-recently-used policy the
  cost counter is exact and no insert trims for ever;
* `LruIndexYieldsKey`: under it `operator[]` gives access to the element it was
  asked for;
* `RecencyCacheImplemented`: under it the cache implements `RecencyCache`, call by
  call (`ImplementsRecencyCache`).

`Coherent` is not inductive by itself.  The typing of the list is needed to
know that a node removed, moved or appended is a node; `WithinBudget` is
needed because the cost counter must not go below zero when a node's cost is
taken off; and the counter's relation to the nodes (`Weight(list) <= cost`, an
equality under the least-recently-used policy) is needed for `WithinBudget`.
`TrimmingEnds` follows from the equality: with an exact counter the empty list
always fits.  The arithmetic rests on lemmas about running totals (`PrefixCost`
of a prefix, of a list with a node removed, added or changed), which are proved
by induction (`SetInduction`, section 11).
The links between list and table are preserved through one lemma for each way
the code changes both (dropping a node, moving one, adding one, keeping a
prefix), cited by the actions.

The refinement rests on the same invariant, before and after the step.  The
abstract map is what the lookup table finds in the list (`Stored`), the abstract
order the keys of the list (`KeysIn`); `ReadOff` says in terms of positions alone
what a linked list and table give, and `KeptAre` which nodes an insert keeps of a
prefix, without or with one that has the key.  Each call then has a lemma
(`DropBy`, `UseBy`, `ClearBy`, `TrimmedBy` and the two whole-budget cases).  That
an insert of a new key evicts no more than it must is where the exact counter is
needed again (`StopIs`): the loop stops at the first node that leaves no room only
if what it compares with the budget is what the remaining nodes cost, and what the
nodes cost is the sum over their keys that `Put` speaks of (`KeysCost`).

## 4. The hash table: PackedHashtbl

The table is one record `tbl` with the link and key of each slot, the head of
each bucket, the head of the free list and the size, so that operations are
functions that can be composed: assignment clears and then inserts every
element of the other table in its iteration order.  The link of a slot is a
single field, as in the code, where the free list reinterprets a node as its
own: `Push` overwrites what `Chain` reads.

| code | definition |
|------|------------|
| constructor | `Init` |
| `insert(value)`, full table (throws) or present key | not `Insertable`: no change |
| `insert(value)` otherwise | `Insert` |
| `erase(key)`, `erase(position)` | `Erase` |
| `clear` | `Clear` |
| `operator=`, copy constructor | `Assign` |
| `begin`, `++`, `end` | `FirstFrom`, `Visited` |

`clear` pushes all slots again without emptying the free list, which makes the
list cyclic.  The model keeps this, and `FreeSlotsReady` states why it does no
harm: only the first `N - size` entries are ever popped, and they are exactly
the slots without an element.

Run `packed_hashtbl` has three slots and buckets and four keys, three of which
share a bucket: a full table, chains of every length, and removals from the
head, the middle and the end of a chain occur.  It checks `ChainsSound`,
`FreeSlotsReady`, `IterationExact`, `SlotsStable` (elements do not move) and
`ImplementsBoundedSet`, the refinement of the abstract set of at most `N` keys,
in which each `insert` and `erase` is the abstract call of the same name.

### Proofs

`PackedHashtblProofs` proves for every set of keys, every capacity and every
hash function, and through any number of assignments, which clear and insert:
`ChainsAreSound`, `FreeSlotsAreReady`, `IterationIsExact`, `SlotsAreStable`, and
`BoundedSetImplemented`, the refinement.

What the properties say of walks along the links is not inductive: a push or an
unlinking changes one link, and says nothing of a walk that is defined from its
beginning.  The invariant `Sound` gives every slot a place instead, the bucket
in whose chain it is or the free list, and its position there (`home` and `pos`,
which the code does not keep).  `Placed` says locally what a link may be: no two
slots have one place, a bucket leads to the first place of its chain, a link of a
chain leads to the next place or, from the last, to none, and a link of the free
list leads to the next place as long as the position is below `N - size`.  Beyond
that it may lead anywhere, which is what makes the cyclic list that `clear` leaves
harmless.  `Keyed` adds that each key is in the chain of its bucket, once.
An operation then changes the place of one slot and the positions behind it
(`InsertedSound`, `UnlinkedSound`), a walk of `N` steps meets the slots of a chain
in their order (`ChainWalk`) and comes to its end because positions cannot exceed
the number of slots (`PositionBound`), and the properties follow (`SoundIs`).
An assignment is the recursive function `Filled`, one step for each key.
Iteration needs no invariant of its own: the places order the slots by bucket and
then by position, and by induction over the steps an iterator has passed exactly the
slots ahead of its own in that order (`Passed`, `AfterIs`), as many as the steps.
After `size` steps it has therefore passed all of them and is at the end.

Left out: `erase(first, last)`, which advances an iterator through the link of
a slot it has just freed; `equal_range`, whose result is unsequenced; the
positions `erase` and a duplicate `insert` return, which for a null node are
iterators that do not compare equal to `end()`.

## 5. The string set: StringSet

`buffer` is `__m_buffer`, the sequence of its strings in order; a position in
it is a number of bytes, computed from the lengths (`End`), and what a
comparison at an offset sees is `At`, the strings that begin there.  `buckets`
is `__m_buckets` and `size` is `__m_size`.  The searches of `__find_node` and
`__find_free` are the same loop (`StopFor`), which goes from the home bucket to
the first one that is free or holds the string.

| code | definition |
|------|------------|
| `insert` | `Insert`, in the table `Roomy`: created, rehashed or as it is |
| `erase(iterator)` | `EraseAt`, for an iterator at any string of the buffer |
| `erase(key)` | `Erase` |
| `find`, `count` | `Found` |
| `reserve`, `__rehash` | `Reserve`, `Rehashed`, one `Copied` for each bucket |
| `clear` | `Clear` |

Bounds: four strings of three lengths.  Two have the same home bucket in every
table, one has its home bucket behind theirs, one at the end of the table, so
that probing wraps around.  `MaxReserve = 4` and the growth in `insert` give
tables of 0 to 8 and of 16 buckets.  `MaxEntries` bounds the buffer (four
strings without erasing, where no more are possible; three with it, where a
string may be stored twice).

Run `string_set` has clients that never erase and clients that do.
`FoundExactly`: for the first, what was inserted is found, nothing else is, and
nothing is stored twice, through growth, `reserve` and `clear`.  For both,
`NodesExact` (offsets follow the buffer through erasures in front of them),
`InsertedFound` (also where the table is full, which the searches take for a
hit), `ErasedNotFound`, and `RehashRestores` (a rehash makes every string of the
buffer found).

Run `string_set_hides` is a violation: a string that the client did not erase is
no longer found once a string in front of it in its probe sequence is erased.
The bucket of an erased string is marked free (`stringset.hpp:296`), and
searches stop at free buckets.  A hidden string can also be inserted again, and
then iteration meets it twice; the next rehash makes all copies reachable.

### Proofs

`StringSetProofs` proves for all strings, lengths and hashes, and for tables of every
size: `BufferAndTableAgree`, `FoundIsThere`, `InsertMakesFound`, `EraseMakesNotFound`
and `RehashMakesFound`, which are the five properties of the run.

The invariant `IInv` has two parts.  `Paired` gives each bucket the place of its string
in the buffer (`at`), or none: the node of a bucket is then that of its place, no place
has two buckets and none is without one.  Offsets occur only in the lemmas which say
that strings begin at different offsets, and what appending and removing a string do to
them (`StartDiffers`, `StartAppend`, `StartRemove`); an erasure then only renumbers the
places.  This part is kept by every operation, and it is enough for what an insert or an
erasure does to its own string: putting its node where its search ended, or
freeing it, leaves the buckets at which that search stops the same, so the search goes
the same way again (`PlacedIs`, `ErasedIs`).

The other part, `Reachable`, is that the probe sequence of each string comes to its
bucket before a free one.  An erasure breaks it, which is what `string_set_hides` shows,
so the invariant claims it for clients that erase nothing, and with it that no string is
stored twice.  Whatever `at` is, a rehash establishes it: by induction over the buckets
of the old table (`CopiedIs`), each node goes to the first free bucket of its probe
sequence, which exists because probing comes to every bucket (`ProbesAll`) and the new
table has more buckets than nodes copied so far.

Left out: `insert` and `find` of empty or overlong strings, which change
nothing, running out of memory between taking the bucket and growing the
buffer, and the iterators that the calls return.

## 6. The watcher: ProgressWatcher

The watcher has no meaning without its clients, so the module models the
example that comes with the library: the main thread divides the problem into
chunks, launches one worker for each with `std::async`, watches and joins.
Each worker step and each step of the main thread is atomic as far as other
threads can see; the sum of the counters is taken one counter at a time.  The
counters are plain 64-bit integers read while they are written: the builds this
models read the old or the new value.  Sleeping orders nothing and is left out.
A launch may fail at any point (`LaunchFails`): unwinding destroys the futures,
and the destructor of each waits for its worker.

Fairness (`FairProgram`, in `Threads`): weak fairness of the main thread and of
every worker.  The workers run on threads of their own (`launch::async`), and nothing
in the code holds one back while others run.

Run `threads` is of a program that has either the watcher or what section 7 describes.
With the watcher it has seven items for two cores, so that a third worker takes a
remainder and the chunks have different lengths and start at items where
progress is and is not published.  It shows that the watcher outlives its
workers, that reports are honest (never ahead of the work done, although
counters change while they are added up) and monotone, that a loop which ends
after every worker has attached ends with all the work published
(`LoopEndMeansDone`), and that watching ends (`WatcherEnds`).

The comment of the example (`cui_samples.h:146`) says that the main thread is
blocked until all the work is done.  The code does not ensure that: workers
attach on their own threads, and the loop ends whenever nobody is attached, for
example before the first of them has run.

`ThreadsProofs` proves for every problem size, number of cores and stride: `WatcherSafety` (types, and that no worker refers to the watcher after
the function that owns it is left), `LoopEndComplete`, `ReportsAreHonest` and
`ReportsAreMonotone`.  The inductive invariant `IInv` says that the polled number
is the cardinality of the set of attached workers, that a worker which has
published has its whole chunk in its counter, and that launches and joins proceed
in order.  The reports need more (`RInv`): while counters are added up one by one,
the part added so far is at most what the counters of those workers now hold
(they only grow), and what was shown last is covered by what was added and the
counters not yet looked at, so that the next report is at least as high.  That
watching ends is model-checked only.

The watcher has 64 counters, and nothing compares that with the number of
workers; the model gives each worker a counter.

## 7. The latch and the thread set: Threads

A latch is made to be waited for, and a thread set is what starts those it
waits for; the module composes them with the main thread that owns both.  At its
end it makes one program of this and of the watcher, `FairProgram`, which has either.

| code | action |
|------|--------|
| `thread_set()`, `latch(n)` | `SetInit`: room for `Reserve` handles, the count announced |
| `emplace` | `Start`, `StartFails` (the constructor of `std::thread` throws), `GrowthFails` (the vector cannot grow, and the temporary thread is joinable) |
| `latch::countdown(n)` | `Countdown`, modulo `Modulus` |
| `latch::wait` | `MainPasses`, `WorkerPasses`, and `Stop` for a poll that finds another value |
| `join`, `~thread_set` | `JoinNext` for each handle in order, then `Clear` |

With the latch and the set run `threads` has five tasks, each counting down by one or two, on a machine
with two processors, so that the vector grows twice (from two to four and to
eight), with and without a barrier at which the workers wait for each other as
well.  `NonePassesEarly`: nobody leaves `wait` before every task has counted
down.  `NoThreadOutlivesSet`: main does not leave, by return or by exception,
while a worker that refers to its latch runs, and growth of the vector does not
terminate the program while no more threads are started than there are
processors, which is what the constructor's `reserve` is for.  `MainEnds`: with
weak fairness of main and of each worker main ends, with one exception that the
property names.  Where a start fails at a barrier, the workers that were started
wait for those that never came, and `~thread_set` joins them for ever.  The
modulus only has to exceed what can be announced; counting down by more than was
announced wraps the counter and is a misuse the model's clients do not commit.

`ThreadsProofs` has the proofs, for any number of tasks, any amounts and any
reserve: `ThreadSetSafety` (`NoThreadOutlivesSet`) and `LatchHolds`
(`NonePassesEarly`).  The invariant says that the latch counts exactly the sum of
what the workers that have not counted down will count down, so that it never
wraps around and is zero only when there are none; that the vector holds the
handles in the order of the starts; that main has joined a worker only after it
returned; and that the vector grows only when more threads are started than there
was room for from the beginning.  `ProgramImplements` says that the program of the run is
both a watcher's program (`Spec`) and one of the latch and the set (`SetSpec`), so that
what is proved of these holds of it.  `MainEnds` is model-checked only.

## 8. The small containers and the filters: Containers

| module | code | state |
|--------|------|-------|
| `Containers!QueueNext` | `circular_queue` | `buffer` the sequence, `given` what was pushed |
| `Containers!StackNext` | `ordered_stack` | both stacks; `track` is the one of the extremes |
| `PrioritySet` | `priority_set` | `heap` what is at each address, `nodes` the addresses of the multiset in order, `lookup` the table of pointers to keys |
| `CompactString` | `compact::string` | `word`, the block it points to, the size, and `range`, where a loop over an input range is |
| `CompactVector` | `compact::vector` | `block`, the size, `range` |
| `CountingBloomFilter` | `counting_bloom_filter` | counters modulo `CellMod`, `net` the multiset of what is in |
| `BasicBloomFilter` | `basic_bloom_filter`, several of them | bits, the union and intersection of filters, with and without assertions |
| `BitVector` | `bitvector` over `bitstorage` | `cells` the bits of the two words or of the block, `size`, the bits that should be there |
| `Bitset` | `bitset` | `words` the ones of the words, the bits that should be set |

The module `Containers` has the hash codes both filters derive from two halves
of one.
`PriorityQueue` is what a priority set promises: distinct keys, each with one
priority, popped from the highest.  `PrioritySet` keeps addresses apart from
keys: the table holds pointers to keys inside the nodes, and a change of priority
erases a node and makes another while the table still points into the first
(`priority_map.hpp:265` and 291).  The allocator is a template parameter, and in the
model the new node may be at any free address.  Where it is at the old one the pointer
is right again; elsewhere the lookup compares a key in freed memory, and the table is
left with a pointer into it.  The observer `moved` says that this has happened since
the last `clear()`, and a call that then uses a freed node makes `undefined` true.
What is checked of a priority set in `ContentsExact` and `CallsExact` is under the
condition `~moved`, as their comments say; that the table is exact without it is what
the run `priority_table` refutes (below).

Run `containers` checks

* `ContentsExact`: two representations of the same contents agree (extremes and
  stack, table and multiset, counters and multiset, block and size, string and
  terminator, and each container with what it was given).  In the string and
  the vector this covers every path between the word and a block, at the
  limits: `Local = 3` characters in the word, `MaxSize = 7`, texts of up to
  three characters, so that strings grow from the word into a block, shrink
  back, and reach `max_size`; texts may be parts of the string itself where
  the code handles that.  In the bit vector words have four bits and the control
  block two of the second word, so that up to five bits are local, six to eight
  take a block of two words and nine one of three; a bit that was not cleared,
  or that the control block, an address or a size has left behind, is `Unknown`
  and no call may let it become a bit of the vector.  The bit set has ten bits in
  three words of four: comparison and hash read whole words, so that the two
  spare bits must be zero after every call.
* `NoFalseNegatives`: members are found.  The keys' cells overlap and one key
  has the same cell twice; counters have two bits so that they wrap.  Once one has
  wrapped, or a key was erased that is not there, the filter misses members and the
  property promises nothing of it until `clear()`.
* `CallsExact`: `priority_set` implements `PriorityQueue` (under the condition above),
  `circular_queue` evicts only when it is full, erasing from a filter makes no counter
  grow, also after a wrap.

The priority set has three keys, two of them with one hash code, two priorities and
three blocks, so that with two keys in it a moved node has another block to go to.
Blocks are symmetric.

### Proofs

`ContainersProofs` proves, for any values, keys, capacities, limits, widths of words
and cells, hash codes and numbers of hash functions:

* `ContentsAlwaysExact` (`ContentsExact`) and `CallsAlwaysExact` (`CallsExact`, with
  the refinement of `PriorityQueue`);
* `NoMemberMissed` (`NoFalseNegatives`).

They have no hypothesis about the allocator; their conditions (no changed key has got
another address, no counter has wrapped) are those of the properties.

The invariant `ContentsInv` has one part for each container, and a step of the program
is a step of the one it uses.

* `circular_queue`, `ordered_stack`: the property with the types.  For each
  element the stack's track has the extreme of those up to it, the first of equal
  ones, so that it is right again after any number of pops.
* `compact::vector`, `compact::string`: the elements are those that were given, except
  where the vector reads a block it has released, and nothing else is constructed,
  whichever of the word and the block holds them; the string's terminator lies behind
  the last.  `SplicedIs`, `ExpandedIs`, `WriteIs` and `SpaceIs` say
  which cell each of the copies and moves of the code leaves where, and while
  the loop that appends an input range runs, the invariant says which elements have been
  read and which ones are still only made room for (`VectorReads`, `StringReads`).
* `bitvector`: the property is inductive.  What has to be shown of a call is that no
  unknown bit becomes one of the vector, through growing out of the local words,
  sanitizing, shifting and clearing.
* `bitset`: each word holds the bits of its places, and none above the last
  (`WordsHold`); shifts by words and by bits within a word are one shift of places
  (`ShlWordsIs`, `ShrWordsIs`).
* `priority_set`: as long as no node has moved, every live block is a node of the
  multiset and conversely, the nodes have distinct keys, the table has one entry for each
  node, which points to it and to its key, and no freed node has been used
  (`PriorityInv`).  Between erasing a node and emplacing its copy the entry is dangling;
  a copy at the same address makes it good (`ReplaceStays`), one elsewhere ends what the
  invariant says, until `clear()` (`ClearMakesGood`).  The mapped queue is the sequence of nodes, and removing or emplacing a
  node is removing or placing its key there (`ErasedNode`, `PlacedNode`, `QueueIs`).
* The counting filter: each counter holds the sum, over all keys, of how often the key
  is in times how often the cell comes up for it (`LoadOf`), until a counter wraps or an
  absent key is erased.  Insertion and erasure visit the cells one after the other,
  repeated ones each time; `CountedUpIs` and `CountedDownIs` say what these loops come
  to, by induction over the places visited.  That erasing stops at zero does no harm,
  because a cell of a member is at least the member's own part of the sum
  (`LoadAtLeast`), which is also why no member is missed.
* The filter of bits: the cells of what it was given are set, and what is set are
  cells of what it took over; all filters of the model's program have the same
  size, without which union and intersection say nothing.

### Where the code differs

Run `priority_table` is a violation of `TableExact`, that the table has an entry for
each node by its own key, which is what the code's "insert into lookup"
(`priority_map.hpp:294`) is for.  A key enters at one block, its priority is changed, and
the new node is at another block: the table keeps a pointer into the freed one.  From
there a lookup may find the key, miss it, or hand out an iterator to a freed node.
malloc tends to return the block just released, which hides it from tests.

Run `string_insert` is a violation of `ContentsExact`: `__insert` moves what is
behind the place to `space + n` whatever the place is (`storages.hpp:826`), and
in the word it does so after the text was written over it.

## 9. The arenas and the intrusive pointers: Allocators

`Arena` is what every arena promises: a block in use has cells of its own, and
stays what it is until it is given back.

| module | code | what a state is |
|--------|------|-----------------|
| `BinexpArena` | `binexp_arena` with its `freelist`, over any target | the bins, the blocks of the target and their sizes, blocks in use |
| `FallbackArena` | `fallback_arena` over `ordered_arena` and the heap | the boundary of the ordered storage, heap blocks, blocks in use |
| `BitmapArena` | `bitmap_arena`, `__locate`, `__ffs_word` | the bitmap, the counter of free blocks, and a search with a step for each turn of its loops |
| `IntrusivePtr` | `intrusive_ptr`, `intrusive_ref_counter` | pointer variables of threads, counts, objects, and references about to be given up |

Run `allocators` checks `AccountsExact` (free lists, sizes by which a block goes
back to its bin, the bitmap and its counter, the arena a block goes home to, a
destroyed arena that keeps nothing), `ImplementsArena` (each implements `Arena`),
`ReferencesExact` (in every interleaving of two threads the count is the number
of pointers, detached references and references about to be given up; nothing
refers to a deleted object; one thread deletes it) and `NothingWithheld` (a
bitmap refuses less than a word only when there is no such run, a search ends,
the heap stands in only for a full storage, an object nobody refers to is
deleted).  A search for a single block is the exception: if the first word with a free
block has its lowest one in use, the code shifts that word by zero places for ever
(`bitmap_arena.hpp:211` and 219), and `NothingWithheld` says that a search ends or does
just that (`Spinning`).  Requests of the bitmap are for one block, within a word, of a
whole word and across three words; `CtzOfZero` is what `__ctz(0)` may yield, zero or the width, since
the code calls it with words that are all ones after inversion.  Fairness: a
search goes on, and a thread that has given up the last reference deletes.

Clients follow the discipline of the code: a block is returned once, with its
size; blocks of the ordered storage are returned in the reverse of the order in
which they were made, as the class is named for and does not check; and pointer
variables are not shared between threads, objects are.  `max` is the member of
`binexp_arena` that limits the bins; it is zero (no limit) or one in the run.

### Proofs

`AllocatorsProofs` proves, each for one system of `Allocators`:

* `ReferencesAreCounted` (`ReferencesExact`), for any finite number of threads and
  any objects.  To the exact count the invariant adds that a counted object is
  alive and nobody deletes it, and that an object which no pointer has adopted yet
  is known to its maker alone.  Each access of a thread changes one pointer
  variable or one reference about to be given up, hence how often an object is
  referred to by one at most (`CountChange`).
* `AccountsKept` (`AccountsExact`).  Binary exponential arena: a block of the
  target is on one free list or in use, once, and both know the same size for it.
  Fallback arena: the blocks in use lie end to end below the boundary, which is
  the sum of their sizes.  Bitmap: the bits are those of no block in use, and what
  a search has found so far is still free; this covers the steps from word to word
  and across words, for any width and whatever `__ctz(0)` yields.
* `ArenasImplemented` (`ImplementsArena`): the initial states map to the initial
  state of `Arena` and every step to a step of it or to none, because the block
  handed out is disjoint from those in use and no other one changes.

That nothing is withheld (`NothingWithheld`) is model-checked only.

## 10. Bits, algorithms and conversions

### Bit algorithms

`BitWords` has the words, masks and cursors that the other modules use.  Bits
have names: masks, shifts and unions give the same result for every memory if
each bit of the new memory is made of the right bit of the old one, so one
memory stands for all of them.  Algorithms that write take a step for each word
or group of words, and every range and every pair of positions in their words is
a start, with one exception: a flip of a range onto another one that begins at
the same bit of its word is a start only for whole words, because the code
inverts bits around the range in the other cases (section 12).

| module | code in `bitalgo.hxx`, `bititerator.hpp` |
|--------|------|
| `BitWords`, `BitAlgorithms` | `bit_iterator`: jumps, steps, differences, order |
| `BitMove` | `copy`, `copy_backward`, aligned and not, also for overlapping ranges; `flip_range` and its tails |
| `BitSwap` | `swap_ranges`, aligned and not |
| `BitReverse`, `BitRotate` | `reverse`; `rotate`, with a buffer or exchanges |
| `BitRuns` | `fill_n`, `find`, `count`, `equal`, `equal_range`, `search_n`, with registers |

Run `bit_algorithms` has words of four bits, four words, ranges of up to
thirteen places and registers of two words: ranges within a word, across two
and over whole ones, registers with a head and a tail.  `OutsideKept` holds at
every step, also between two words of a call; `ResultExact` when it ends;
`RotationKept` is the invariant of the loop of `rotate`, and that it uses
`copy`, `copy_backward` and `swap_ranges` only for ranges they are made for;
`CursorsExact`; `CallEnds`.

`AlgorithmsProofs` proves, for words of any width, any number of them, any bits and
every range but those of the flips just named:

* `OutsideAlwaysKept` (`OutsideKept`);
* `CursorsAlwaysExact` (`CursorsExact`): iterators go as far as they are told and
  compare as the places do, after any jumps and steps, and the functions that move
  bits return the end of what they wrote;
* `RotationAlwaysKept` (`RotationKept`): after every exchange what `rotate` has in place
  and what is left to rotate make up the rotation asked for;
* `WritesExact`: a finished move, exchange, rotation, flip or fill has put into the
  range what its definition asks for.  This is `ResultExact` for the algorithms that
  write, `reverse` excepted.

The invariant of a loop is what has been done so far, in terms of places (a word and
a bit in it are one number, `Place`): the places behind the cursor hold their final
bits, those ahead the old ones, and the two cursors are equally far from their ends.
A word stored with a mask changes the places of the mask alone, which is one lemma for
each of the ways the code shifts and joins words; where ranges overlap the invariant
adds that a word is read before it is written over.  `rotate` uses the same facts of
copying and exchanging as lemmas about their whole runs.

Run `find_skips` is a violation: compiled for SSE2 without SSE4.1, `find` passes
the registers that have a one and ends its loop at the first that has none
(`bitalgo.hxx:187`).  It is also the only run that enters this loop: a range has to
fill four registers first, and in run `bit_algorithms`, where a register is two words,
`find` goes word by word.  That run says of `find` what its loop over words does.

### Algorithms and conversions

| module | code | a step is |
|--------|------|-----------|
| `KWay` | `kway_merge`, `kway_union`, `kway_intersection`, with a sorted vector and a heap | one element |
| `KWay!SmallSorted` | `__sort3` to `__sort5`, `__small_sort`, which sort the ranges before a merge | one call |
| `CountingSort` | both versions of `counting_sort`; `bucket_sort` of integers | one exchange or output |
| `Searching` | `exponential_search`, `interpolation_search` | one probe |
| `Majority` | `majority_element` | one element |
| `Algorithms` | `split`, the reading of tuples | one part |
| `Kadane` | `kadane`, its values and its ranges | one element |
| `Conversions` | base16 and base64 encoder and decoder as one pipeline, `itos` | one byte, character or digit |

Run `algorithms` has every argument up to the lengths of `Algorithms.cfg`.
`AnswersExact` compares with reference definitions, `LoopsKept` says what the
loops rely on, `CallsReturn` that they end.  An encoder and a decoder are
connected, so that reading and writing alternate: texts of up to five bytes
leave groups of every length incomplete between calls and at the flush.  `itos`
is run for integers of sixteen bits, signed and unsigned, at the limits and
around zero, in every kind of base (a power of two, ten, and others), into a
string and through an iterator.  Three functions promise more in their headers than the
code keeps.  The properties say only what it keeps, for every argument, and leave the
rest open, as their comments say and section 12 lists:

* `interpolation_search` finds a key that is there; for one that is not, the place
  returned is the end or one of a greater element, and nothing says that it is the
  first (`InterpolationFinds`; the header promises the first, 46-63);
* `kadane`: no subarray is better than the sum returned, and it is that of a subarray
  where nothing is gained with the first element (`NoneBetter`); there the places of
  `kadane_range` are those of the sums it compares at every turn, with `last` the last
  place and not the one behind it (`RangesSound`; against the header, 206-209);
* a union has the elements of its ranges in order, and each once unless there is only
  one range (`UnionExact`).

`AlgorithmsProofs` has proofs about `majority_element` as well, for ranges of any
length and any values: `MajorityTypes`; `HeaderLemma`, the lemma that the header of
`majority_element.hpp` states and partly leaves to the reader; and `MajorityCorrect`,
that a majority element is returned whenever there is one.  The invariant adds to the
lemma the guess and the count of the scan so far, and follows from what one element
does to the number of its occurrences.

## 11. What is proved

Every theorem is about `Spec`, for every value of the constants that satisfies
the assumptions of the module; the assumptions are those of the code (a positive
budget, a hash code below the capacity, a width above one) or of the model's clients
(sizes requested are positive, threads are finitely many), and TLC evaluates them
in the runs.  One is arithmetic: `ExponentAssumption` of `Allocators` says that
every size has a highest bit, which the provers cannot derive, since they know
nothing of `^`; the run evaluates it for its sizes.

* `BasicCacheProofs`, `PackedHashtblProofs`, `StringSetProofs`, `ThreadsProofs`,
  `ContainersProofs`, `AllocatorsProofs`, `AlgorithmsProofs`: see sections 3 to 10.
* `SumTheorems` has what they share.  `SetInduction` and `SubsetInduction` state
  induction over numbers and finite sets with a set in place of a predicate, so that
  they can be used where only first-order facts can be cited; `RecursionExists`
  gives the functions that recursive definitions describe, by way of induction
  over the partial ones; and `SumRemove` shows of `MapThenSumSet`, which takes
  elements out of a set in an order of its own, that any element may be taken out
  first, which is what adding a term, changing one and comparing sums rest on.

Only model-checked are: everything under fairness, since liveness and ENABLED are
out of reach of the prover (`MainEnds`, `CallEnds`, `CallsReturn`, `WatcherEnds`,
`NothingWithheld`); and of section 10 `AnswersExact` and `LoopsKept` but for
`majority_element`, and `ResultExact` for `reverse` and for what is counted and
searched.  The answers of these algorithms are defined by recursion over data, and
induction over data needs facts the provers cannot instantiate beyond what
`SumTheorems` states; `LoopsKept` of `itos` needs the sizes of powers, and the provers
know nothing of `^`; and `reverse` exchanges bits within a word by masks that the
model gives for words of the run.

## 12. Not modelled, and disagreements that no run shows

Not modelled: vendored code (`catch`), tests, benchmarks and examples other
than the watcher's; type traits, back-ports and compiler intrinsics, which have
no behaviour at run time of their own; terminal output, command lines,
configuration and stream formatting, which is input and output; statistics,
metrics and floating-point comparison, which TLC cannot compute; iterator
wrappers, views and intervals, which keep nothing.  Pointer-level undefined
behaviour is below the level of most models; where it decides what happens, the
model has addresses (`PrioritySet`, `BasicCache`), a value for memory that was
not written (`Garbage`, `Rubbish`), or leaves the call out and says so.

Not compilable as it stands, hence without behaviour: `packed_lru_cache.hpp`,
`priority_map`, `memorized.hpp`, `one_of`, `invoker`, `binary_scanner`,
`benchmark`, `stltraits`, `adjacent_pairs`, `tupleio`, `format`,
`static_popcnt`, `range_algo` and `iter_range`, `counting_bloom_filter` without
what its includers add, the users of `arena_traits` (which is written for one
compiler, `arena_traits.hpp:41`), `heap_arena`, `pooled_object`,
`aligned_allocator`, `memory_storage` (an `#endif` too many), `cmdline_argset`,
`collector`, `features`.  What could be modelled of two of them is: the filter
and the arenas over an abstract target.

Where reading the code for the models showed that it does not do what its
documentation, names or other code say, and no run shows it:

* `cache.hpp`, most-recently-used policy: section 3.  `cui_samples.h:146`:
  section 6.
* `kway_union.hpp:124`: a single range is copied without removing duplicates,
  which the merge of several does (87).  `interpolation_search.hpp:108`: for a key that is not there the
  end is returned, not the first greater element (62).  `kadane`: 139 counts the first element twice
  where it gains (against 112), 260 returns the last place of the range
  (against 209).  `split.hpp:162` and 70 can pass the end of the text (against
  142).  `bucket_sort.hpp:62` divides by zero where all integers are equal, one
  integer alone included.
* `bitmap_arena.hpp:211`: a request for one block shifts by zero and does not
  end when the first bit of the search is used (219); 128 reads behind the
  bitmap (244); 302 passes over a free run (241).
* `basic_bloom_filter.hpp:113`: the assertion of `operator&=` is the negation of
  what it should say (the test `bloom_filter.cpp:74` calls it).
  `counting_bloom_filter.hpp:163`: `erase` returns zero always.
* `circular_queue.hpp:92` and `ordered_stack.hpp:79`: pushing an element of the
  container itself reads it after it was destroyed or moved.
  `priority_map.hpp:272`: `insert` returns an outer iterator that was never set, or
  that refers to the erased node, because an inner declaration hides it (249, 267).
* `bitalgo.hxx`: flipping into aligned words inverts more than the range (1317,
  1326); `fill` and masks of words narrower than `int` (410); `generate_n`
  (465); `next_permutation` of no more bits than a word has; what
  `transform_aligned` returns, and `transform_unaligned` over several words;
  `find` and `count` do not compile for narrow words; with SSE4.1 the guard of
  151 reads eight registers where four are left; `equal_range(false)` over ones
  returns `(last, last)`.
* `bitvector.hpp`, `bitstorage.hpp`: `>>=` of a vector in two local words moves
  bits of the control byte into the vector, and so it does with what assigning a
  range has left above the last bit; of an empty vector it shifts the word before
  the vector (351); `__sanitize_bits` reads and writes back the
  word behind a block that its bits fill (302); `erase` returns the place `n` bits
  after the one it should (883); `insert(pos, count, value)` copies what is
  behind the place to `result + n`, where `n` is the new size (826);
  `insert(pos, first, last)` and `swap` do not compile; `~` returns a reference to
  a local; `contains` and `intersects` never advance in the second vector;
  assigning an empty list keeps the old bits (561); the hash reads as many bytes
  as there are words.
* `compact::string`: inserting copies of a character before the end writes
  behind the block; `erase` releases `s` instead of `s + 1` characters;
  assigning a part of a string to itself reads a released block; an input range
  that exactly fills the string leaves no terminator (comment at 903); assigning
  an empty range leaves the old contents; assigning a forward range does not
  compile.  `compact::vector`: assigning and inserting a forward range moves
  from the source; inserting a range of its own elements copies elements that
  were moved from; `assign` does not check `max_size`; `emplace_back(v[0])`
  reads a released block.
* `itos`: base 8 writes nothing; `itos<2>(0, p)` does not advance; into a string
  it overwrites what was there for most integers and appends for zero and for
  other bases; a negative integer in base 3 has a sign in a string and is
  two's complement through an iterator.  `codecs.hpp:140` asks whether a decoder
  should be flushed: after `YWI=` that emits `AAA=`.  The general base16 codec
  decodes uppercase digits wrongly.
