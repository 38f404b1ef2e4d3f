---------------------------- MODULE CompactString ----------------------------
(***************************************************************************)
(* compact::string of src/stlext/compact: one word that holds either the   *)
(* characters of a short string or the address of a block, and its size    *)
(* above them.  A block has room for the characters and a terminator, no   *)
(* more, so that nearly every call moves the string to another block, or   *)
(* between the word and a block.                                           *)
(*                                                                         *)
(* Characters come from outside, or from the string itself where a call    *)
(* appends a part of it.  Left out: an assignment of a part of the string, *)
(* which reads a block that was released, and insertion of copies of one   *)
(* character before the end, which writes behind the block.                *)
(***************************************************************************)
EXTENDS Naturals, Sequences

CONSTANTS
  Char,
  Nul,       \* the terminator
  Garbage,   \* what is read from memory that was not written
  Local,     \* max_local_capacity, the cells of the word
  MaxSize,   \* max_size()
  MaxText,   \* the bound on the length of a text given to a call
  Inner      \* whether texts are inserted before the end too

VARIABLES
  word,      \* the cells of the word, or Address
  heap,      \* the block it points to, or NoBlock
  size,
  expected,  \* the text that the calls until now should have given, an observer
  range      \* the loop that reads an input range: <<n>>, or Idle or Open

vars == <<word, heap, size, expected, range>>

Address == <<>>  \* instead of the cells of the word
NoBlock == <<>>
Idle    == <<>>
Open    == <<0>>  \* a string that was left without a terminator

Texts == UNION {[1..n -> Char] : n \in 0..MaxText}

Fresh(n) == [i \in 0..(n - 1) |-> Garbage]
Empty == [i \in 0..(Local - 1) |-> Nul]

FitLocal(n) == n <= Local

\* data(), as a function from zero on.
Chars == IF word = Address THEN Fresh(Local) ELSE word
Data  == IF FitLocal(size + 1) THEN Chars ELSE heap

\* n cells from one on, and cells with others written over them.
Cut(cells, from, n) == [i \in 1..n |-> cells[from + i - 1]]
Write(cells, at, text) ==
  [i \in DOMAIN cells |-> IF i - at \in 0..(Len(text) - 1) /\ i >= at THEN text[i - at + 1] ELSE cells[i]]

\* __allocate(n)
Space(n) == IF FitLocal(n) THEN Chars ELSE Fresh(n)

Init == word = Empty /\ heap = NoBlock /\ size = 0 /\ expected = <<>> /\ range = Idle

-----------------------------------------------------------------------------
(* What the calls do *)

Clear ==
  word' = Empty /\ heap' = NoBlock /\ size' = 0 /\ range' = Idle

\* The old block goes, and the cells are the string, with a terminator behind n of them.
Become(cells, n) ==
  LET ended == [cells EXCEPT ![n] = Nul] IN
  /\ IF FitLocal(n + 1) THEN word' = ended /\ heap' = NoBlock ELSE word' = Address /\ heap' = ended
  /\ size' = n
  /\ range' = Idle

\* __insert of a text: what is before the place is copied to a new block, the text and what is
\* behind the place are moved, the latter to the wrong place unless the former is empty.
Insert(pos, text) ==
  LET n     == Len(text)
      total == size + n
      space == Space(total + 1)
      local == FitLocal(total + 1)
      begun == IF local THEN space ELSE Write(space, 0, Cut(Data, 0, pos))
      moved == Write(begun, pos, text)
  IN  IF n = 0 \/ total > MaxSize THEN UNCHANGED <<word, heap, size, range>>
      ELSE Become(Write(moved, n, Cut(IF local THEN moved ELSE Data, pos, size - pos)), total)

\* __erase
Erase(pos, n) ==
  LET kept  == size - n
      begun == Write(Space(kept + 1), 0, Cut(Data, 0, pos))
  IN  IF n = 0 \/ pos + n > size + 1 THEN UNCHANGED <<word, heap, size, range>>
      ELSE IF kept = 0 THEN Clear
      ELSE Become(Write(begun, pos, Cut(Data, pos + n, size + 1 - pos - n)), kept)

\* __assign: in place where the size is the same.
Assign(text) ==
  LET n == Len(text) IN
  IF n >= MaxSize THEN UNCHANGED <<word, heap, size, range>>
  ELSE IF n = 0 THEN Clear
  ELSE IF n = size
  THEN /\ IF FitLocal(n + 1) THEN word' = Write(Data, 0, text) /\ UNCHANGED heap
                             ELSE heap' = Write(Data, 0, text) /\ UNCHANGED word
       /\ UNCHANGED <<size, range>>
  ELSE Become(Write(Space(n + 1), 0, text), n)

\* __expand(n), which leaves the terminator to its caller, or throws.
Expand(n, next) ==
  LET total == n + size + 1 IN
  IF total > MaxSize
  THEN range' = Open /\ UNCHANGED <<word, heap, size>>
  ELSE /\ heap' = Write(Fresh(total), 0, Cut(Data, 0, size))
       /\ word' = Address /\ size' = total - 1 /\ range' = next

-----------------------------------------------------------------------------
(* The calls *)

Splice(pos, n, text) ==
  SubSeq(expected, 1, pos) \o text \o SubSeq(expected, pos + n + 1, Len(expected))

NotReading == range \in {Idle, Open}

\* append, push_back, resize and insert, of a text that is not the string's own.
InsertText ==
  \E text \in Texts, pos \in IF Inner THEN 0..size ELSE {size} :
    /\ NotReading
    /\ Insert(pos, text)
    /\ expected' = IF size + Len(text) > MaxSize THEN expected ELSE Splice(pos, 0, text)

\* append(s), append(s.data() + from, n) and s += s.
AppendOwn ==
  \E from \in 0..size, n \in 0..size :
    /\ NotReading /\ from + n <= size
    /\ Insert(size, Cut(Data, from, n))
    /\ expected' = IF size + n > MaxSize THEN expected ELSE expected \o SubSeq(expected, from + 1, from + n)

\* erase and resize, which cut the count at the end of the string.
EraseChars ==
  \E pos \in 0..size, n \in 0..size :
    /\ NotReading /\ pos + n <= size
    /\ Erase(pos, n)
    /\ expected' = Splice(pos, n, <<>>)

\* It erases one character from the terminator on.
PopBack ==
  /\ NotReading /\ size > 0
  /\ Erase(size, 1)
  /\ expected' = SubSeq(expected, 1, Len(expected) - 1)

AssignText ==
  \E text \in Texts :
    /\ NotReading
    /\ Assign(text)
    /\ expected' = IF Len(text) >= MaxSize THEN expected ELSE text

\* assign of an input range that is not empty: the string is cleared and expanded at once.
ReadFirst ==
  /\ NotReading
  /\ heap' = Fresh(Local + 1) /\ word' = Address /\ size' = Local /\ range' = <<Local>>
  /\ expected' = <<>>

\* One turn of its loop; the string is expanded when the last place of it is taken.
ReadChar ==
  \E c \in Char :
    /\ ~ NotReading /\ Len(expected) < size
    /\ heap' = [heap EXCEPT ![Len(expected)] = c]
    /\ expected' = Append(expected, c)
    /\ UNCHANGED <<word, size, range>>

ReadExpand ==
  /\ ~ NotReading /\ Len(expected) = size
  /\ Expand(range[1], <<2 * range[1]>>)
  /\ UNCHANGED expected

\* The end of the range: what is too much is erased.
ReadEnd ==
  /\ ~ NotReading /\ expected # <<>>
  /\ LET n == range[1] - Len(expected) IN
     IF n = 0 THEN range' = Open /\ UNCHANGED <<word, heap, size>> ELSE Erase(Len(expected), n)
  /\ UNCHANGED expected

ClearAll == NotReading /\ Clear /\ expected' = <<>>

Next ==
  \/ InsertText \/ AppendOwn \/ EraseChars \/ PopBack \/ AssignText \/ ClearAll
  \/ ReadFirst \/ ReadChar \/ ReadExpand \/ ReadEnd

Spec == Init /\ [][Next]_vars

-----------------------------------------------------------------------------
(* Properties *)

\* Between two calls the string is what the calls should have made of it, whether it was
\* short or long before and is now, and whether a call threw or not.
ContentsExact ==
  NotReading => size = Len(expected) /\ Cut(Data, 0, size) = expected

\* A block is held exactly while the string is too long for the word, its size is that of the
\* string, and its address is not written over.
BlockExact ==
  IF FitLocal(size + 1) THEN heap = NoBlock /\ word # Address
  ELSE word = Address /\ DOMAIN heap = 0..size

\* The string is terminated, but for one that an input range filled to the last place, or that
\* could not be expanded for it.
Terminated == range = Idle => Data[size] = Nul
=============================================================================
