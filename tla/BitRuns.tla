------------------------------- MODULE BitRuns ------------------------------
(***************************************************************************)
(* The algorithms of src/stlext/bitvector/bitalgo.hpp that set bits, or    *)
(* only look at them: fill_n, find, count, equal, equal_range and search_n,*)
(* one call on a memory.  fill_n takes a step for the first word, for all  *)
(* words between it and the last, which are set at once, and for the last; *)
(* equal_range and search_n take one for each end of a run they look for.  *)
(* A word is the set of its ones.                                          *)
(***************************************************************************)
EXTENDS BitWords, FiniteSetsExt

CONSTANT Register  \* the words of a SIMD register

VARIABLES
  call,    \* [op, x, from, n, old] and arg, what else the function takes: n bits at
           \* from, in a memory whose ones are at the places old
  memory,
  first,   \* the cursor
  n,       \* the bits left
  result,  \* what the function returned, when it has
  pc       \* the part of the function to come

vars == <<call, memory, first, n, result, pc>>

\* Memories with one run of ones.
OneRun == {p..q : p, q \in Places}

Queries(op, args, old) ==
  {c \in [op : {op}, x : BOOLEAN, from : Bits, n : 0..(W * Words), old : old, arg : args] : c.from + c.n <= W * Words}

Calls ==
  {c \in [op : {"fill_n"}, x : BOOLEAN, from : Places, n : 0..(W * Words), old : {{}, Places}] : c.from + c.n <= W * Words}
  \cup (UNION {Queries(op, {0}, OneRun) : op \in {"find", "count", "equal_range"}})
  \cup Queries("search_n", {0, 1, W + 1}, OneRun)
  \cup {c \in Queries("equal", Bits, OneRun) : c.x /\ c.arg + c.n <= W * Words}

Init ==
  /\ call \in Calls
  /\ memory = [k \in 0..(Words - 1) |-> {b \in Bits : k * W + b \in call.old}]
  /\ first = At(call.from)
  /\ n = call.n
  /\ result = <<>>
  /\ pc = IF call.op # "fill_n" THEN "query" ELSE IF n > 0 THEN "first" ELSE "done"

-----------------------------------------------------------------------------
(* fill_n *)

\* "*blk |= mask", or "*blk &= ~mask"
Put(w, mask) == IF call.x THEN w \cup mask ELSE w \ mask

NextWord(it) == [blk |-> it.blk + 1, ctz |-> 0]

Go(written, cursor, k, next) ==
  memory' = written /\ first' = cursor /\ n' = k /\ pc' = next /\ UNCHANGED <<call, result>>

FillFirst ==
  /\ pc = "first"
  /\ IF first.ctz = 0 THEN Go(memory, first, n, "middle")
     ELSE LET k == Least(W - first.ctz, n) IN
          Go([memory EXCEPT ![first.blk] = Put(@, Window(first.ctz, k))], NextWord(first), n - k, "middle")

FillMiddle ==
  /\ pc = "middle"
  /\ LET count == n \div W IN
     Go([k \in DOMAIN memory |-> IF k - first.blk \in 0..(count - 1) THEN Put(memory[k], Bits) ELSE memory[k]],
        [first EXCEPT !.blk = @ + count], n - count * W, "last")

FillLast ==
  /\ pc = "last"
  /\ Go(IF n > 0 THEN [memory EXCEPT ![first.blk] = Put(@, Lower(W - n))] ELSE memory, first, 0, "done")

-----------------------------------------------------------------------------
(* find and count *)

\* "*blk", or "~(*blk)"
Look(x, blk) == IF x THEN memory[blk] ELSE Bits \ memory[blk]

\* The registers that the loop of __find_bool_true passes, eight at a time, as it is compiled
\* for SSE2: it ends at one that is zero.  It also ends, here, where the memory does.
Registers(x, blk, k) ==
  LET bits == Register * W IN
  IF ~ x THEN 0
  ELSE Min({i \in 0..(Words \div Register) :
              \/ (i % 8 = 0) /\ (k - i * bits < 4 * bits)
              \/ blk + (i + 1) * Register > Words
              \/ \A j \in 0..(Register - 1) : memory[blk + i * Register + j] = {}})

\* A place that is not in the memory.
Outside == [blk |-> Words + 1, ctz |-> 0]

\* The first bit of b in a word, where it is not empty.
BitOf(blk, b) == [blk |-> blk, ctz |-> Min(b)]

\* From the beginning of a word: whole words, and what is left.
FindWords(x, blk, k) ==
  LET whole == k \div W
      rest  == k % W
      hits  == {j \in 0..(whole - 1) : Look(x, blk + j) # {}}
      last  == IF rest > 0 THEN Look(x, blk + whole) \cap Lower(W - rest) ELSE {}
  IN  IF hits # {} THEN BitOf(blk + Min(hits), Look(x, blk + Min(hits)))
      ELSE IF last # {} THEN BitOf(blk + whole, last) ELSE [blk |-> blk + whole, ctz |-> rest]

FindAfter(x, blk, k) ==
  IF k < 4 * Register * W THEN FindWords(x, blk, k)
  ELSE LET r == Registers(x, blk, k) IN
       IF r * Register * W > k THEN Outside  \* the number of the bits left has wrapped around
       ELSE FindWords(x, blk + r * Register, k - r * Register * W)

Find(x, it, k) ==
  IF it.ctz = 0 THEN FindAfter(x, it.blk, k)
  ELSE LET dn == Least(W - it.ctz, k)
           b  == Look(x, it.blk) \cap Window(it.ctz, dn)
       IN  IF b # {} THEN BitOf(it.blk, b)
           ELSE IF dn = k THEN Past(it, k) ELSE FindAfter(x, it.blk + 1, k - dn)

CountWords(x, blk, k) ==
  LET whole == k \div W
      rest  == k % W
  IN  FoldSet(LAMBDA j, sum : sum + Cardinality(Look(x, blk + j)),
              IF rest > 0 THEN Cardinality(Look(x, blk + whole) \cap Lower(W - rest)) ELSE 0,
              0..(whole - 1))

Count(x, it, k) ==
  IF it.ctz = 0 THEN CountWords(x, it.blk, k)
  ELSE LET dn == Least(W - it.ctz, k)
       IN  Cardinality(Look(x, it.blk) \cap Window(it.ctz, dn)) + CountWords(x, it.blk + 1, k - dn)

-----------------------------------------------------------------------------
(* equal *)

\* Of one word.
Left(w, s) == {b + s : b \in w} \cap Bits
Right(w, s) == {b - s : b \in w} \cap Bits

\* The first k bits at a word of one range, and the k bits at a place of the other.
EqualWords(blk, it, k) ==
  LET whole == k \div W
      rest  == k % W
      b     == memory[blk + whole] \cap Lower(W - rest)
      dn    == Least(rest, W - it.ctz)
      after == [blk |-> it.blk + whole, ctz |-> it.ctz]
  IN  /\ \A j \in 0..(whole - 1) :
           /\ memory[it.blk + j] \cap Upper(it.ctz) = Left(memory[blk + j], it.ctz)
           /\ memory[it.blk + j + 1] \ Upper(it.ctz) = Right(memory[blk + j], W - it.ctz)
      /\ rest > 0 =>
           /\ memory[after.blk] \cap Window(it.ctz, dn) = Left(b, it.ctz)
           /\ rest > dn => memory[Past(after, dn).blk] \cap Lower(W - (rest - dn)) = Right(b, dn)

EqualUnaligned(a, it, k) ==
  IF a.ctz = 0 THEN EqualWords(a.blk, it, k)
  ELSE LET dn  == Least(W - a.ctz, k)
           b   == memory[a.blk] \cap Window(a.ctz, dn)
           ddn == Least(dn, W - it.ctz)
       IN  /\ memory[it.blk] \cap Window(it.ctz, ddn) =
                IF it.ctz > a.ctz THEN Left(b, it.ctz - a.ctz) ELSE Right(b, a.ctz - it.ctz)
           /\ dn > ddn => memory[Past(it, ddn).blk] \cap Lower(W - (dn - ddn)) = Right(b, a.ctz + ddn)
           /\ k > dn => EqualWords(a.blk + 1, Past(it, dn), k - dn)

EqualAligned(a, it, k) ==
  LET dn    == IF a.ctz = 0 THEN 0 ELSE Least(W - a.ctz, k)
      from  == IF a.ctz = 0 THEN 0 ELSE 1
      whole == (k - dn) \div W
      rest  == (k - dn) % W
      Same(j, mask) == memory[a.blk + j] \cap mask = memory[it.blk + j] \cap mask
  IN  /\ a.ctz # 0 => Same(0, Window(a.ctz, dn))
      /\ \A j \in 0..(whole - 1) : Same(from + j, Bits)
      /\ rest > 0 => Same(from + whole, Lower(W - rest))

Equal(a, it, k) ==
  \/ k = 0 \/ a = it
  \/ k = 1 /\ (a.ctz \in memory[a.blk] <=> it.ctz \in memory[it.blk])
  \/ k > 1 /\ IF a.ctz = it.ctz THEN EqualAligned(a, it, k) ELSE EqualUnaligned(a, it, k)

-----------------------------------------------------------------------------
(* equal_range and search_n *)

End == At(call.from + call.n)

\* find(first, last, x)
FromHere(x) == Find(x, first, Place(End) - Place(first))

Return(r) == result' = <<r>> /\ pc' = "done" /\ UNCHANGED <<call, memory, first, n>>

Turn(cursor, next) == first' = cursor /\ pc' = next /\ UNCHANGED <<call, memory, n, result>>

Query ==
  /\ pc = "query" /\ call.op \in {"find", "count", "equal"}
  /\ Return(CASE call.op = "find"  -> FromHere(call.x)
              [] call.op = "count" -> Count(call.x, first, n)
              [] call.op = "equal" -> Equal(first, At(call.arg), n))

\* To the first run, or the next one.
Search ==
  /\ pc = "query" /\ call.op \in {"equal_range", "search_n"}
  /\ IF call.op = "search_n" /\ call.arg = 0 THEN Return(first)
     ELSE IF call.op = "search_n" /\ call.arg = 1 THEN Return(FromHere(call.x))
     ELSE Turn(FromHere(call.x), "run")

\* The end of the run.  One that is too short leads to the next.
SearchRun ==
  /\ pc = "run"
  /\ IF first = End THEN Return(IF call.op = "search_n" THEN End ELSE <<End, End>>)
     ELSE LET behind == FromHere(~ call.x) IN
          IF call.op = "equal_range" THEN Return(<<first, behind>>)
          ELSE IF Place(behind) - Place(first) >= call.arg THEN Return(first)
          ELSE Turn(behind, "query")

Next == FillFirst \/ FillMiddle \/ FillLast \/ Query \/ Search \/ SearchRun

Spec == Init /\ [][Next]_vars

-----------------------------------------------------------------------------
(* Properties *)

Asked == call.from..(call.from + call.n - 1)

IsSet(p) == p % W \in memory[p \div W]

\* At the end every bit of the range is set, or cleared.
FillExact ==
  pc = "done" /\ call.op = "fill_n" => \A p \in Asked : IsSet(p) = call.x

\* At every step a bit outside the range that is filled is as it was, and so are all bits
\* when nothing is filled.
OutsideKept ==
  \A p \in Places : (p \in Asked /\ call.op = "fill_n") \/ IsSet(p) = (p \in call.old)

Matches == {p \in Asked : IsSet(p) = call.x}

\* Where a run of the places that begins at p ends.
RunEnd(places, p) == Min({q \in p..(call.from + call.n) : q \notin places})

FirstOf(places) == IF places = {} THEN End ELSE At(Min(places))

\* find returns the first bit of the range with the value asked for, or the end.
FindExact == pc = "done" /\ call.op = "find" => result = <<FirstOf(Matches)>>

\* The other functions that look at bits see each bit of their ranges once and no other:
\* they count them, compare them, and find their first run, or the first that is long enough.
QueryExact ==
  pc = "done" =>
    LET matches == Matches IN
    /\ call.op = "count" => result = <<Cardinality(matches)>>
    /\ call.op = "equal" => result = <<\A i \in 0..(call.n - 1) : IsSet(call.from + i) = IsSet(call.arg + i)>>
    /\ call.op = "equal_range" =>
         result = <<<<FirstOf(matches), IF matches = {} THEN End ELSE At(RunEnd(matches, Min(matches)))>>>>
    /\ call.op = "search_n" =>
         result = <<IF call.arg = 0 THEN At(call.from)
                    ELSE FirstOf({p \in matches : RunEnd(matches, p) - p >= call.arg})>>
=============================================================================
