---------------------------- MODULE CompactVector ----------------------------
(***************************************************************************)
(* compact::vector of src/stlext/compact, of elements that are copied bit  *)
(* by bit: one word holds the address of a block and its size, and there   *)
(* is no spare room, so that every call that changes the size moves the    *)
(* elements to another block.  A value given to a call may be an element   *)
(* of the vector itself.                                                   *)
(***************************************************************************)
EXTENDS Naturals, Sequences

CONSTANTS
  Value,
  Raw,      \* what is read from memory that was not written
  Rubbish,  \* what is read from an element of a block that was released
  Initial,  \* the places an input range begins with
  MaxSize,  \* max_size()
  MaxCount  \* the bound on the elements given to a call, at most MaxSize

VARIABLES
  block,     \* the elements of the block, empty when there is none
  size,
  expected,  \* the elements that the calls until now should have given, an observer
  range      \* the loop that reads an input range: <<n>>, or Idle

vars == <<block, size, expected, range>>

Idle == <<>>

Texts == UNION {[1..n -> Value] : n \in 0..MaxCount}

Init == block = <<>> /\ size = 0 /\ expected = <<>> /\ range = Idle

\* A value from outside, or the element at a place.
Args == Value \cup DOMAIN expected
Given(arg, elements) == IF arg \in DOMAIN elements THEN elements[arg] ELSE arg

Copies(n, v) == [i \in 1..n |-> v]

\* The old block goes; the size has the bits of max_size.
Become(elements) ==
  block' = elements /\ size' = Len(elements) % (MaxSize + 1)

Splice(elements, pos, n, text) ==
  SubSeq(elements, 1, pos) \o text \o SubSeq(elements, pos + n + 1, Len(elements))

TooMany(n) == size + n > MaxSize

-----------------------------------------------------------------------------
\* insert, push_back and resize of copies of a value, which is read before the block goes.
InsertCopies ==
  \E pos \in 0..size, n \in 0..MaxCount, arg \in Args :
    /\ range = Idle
    /\ IF n = 0 \/ TooMany(n) THEN UNCHANGED <<block, size, expected>>
       ELSE /\ Become(Splice(block, pos, 0, Copies(n, Given(arg, block))))
            /\ expected' = Splice(expected, pos, 0, Copies(n, Given(arg, expected)))
    /\ UNCHANGED range

InsertRange ==
  \E pos \in 0..size, text \in Texts :
    /\ range = Idle
    /\ IF text = <<>> \/ TooMany(Len(text)) THEN UNCHANGED <<block, size, expected>>
       ELSE Become(Splice(block, pos, 0, text)) /\ expected' = Splice(expected, pos, 0, text)
    /\ UNCHANGED range

\* insert(pos, begin() + from, begin() + from + n)
InsertOwn ==
  \E pos \in 0..size, from \in 0..size, n \in 1..size :
    /\ range = Idle /\ from + n <= size
    /\ IF TooMany(n) THEN UNCHANGED <<block, size, expected>>
       ELSE /\ Become(Splice(block, pos, 0, SubSeq(block, from + 1, from + n)))
            /\ expected' = Splice(expected, pos, 0, SubSeq(expected, from + 1, from + n))
    /\ UNCHANGED range

\* erase, pop_back and resize.
Erase ==
  \E pos \in 0..size, n \in 1..size :
    /\ range = Idle /\ pos + n <= size
    /\ Become(Splice(block, pos, n, <<>>))
    /\ expected' = Splice(expected, pos, n, <<>>)
    /\ UNCHANGED range

\* The elements in place where the size is the same.
Assign(elements) ==
  IF Len(elements) = size THEN block' = elements /\ UNCHANGED size ELSE Become(elements)

AssignCopies ==
  \E n \in 0..MaxCount, arg \in Args :
    /\ range = Idle
    /\ Assign(Copies(n, Given(arg, block)))
    /\ expected' = Copies(n, Given(arg, expected))
    /\ UNCHANGED range

AssignText ==
  \E text \in Texts :
    /\ range = Idle
    /\ Assign(text) /\ expected' = text
    /\ UNCHANGED range

\* assign of a range of other iterators; an empty one leaves the vector as it is.
AssignRange ==
  \E text \in Texts \ {<<>>} :
    /\ range = Idle
    /\ Become(text) /\ expected' = text
    /\ UNCHANGED range

\* __expand(n): the elements, and n places that nothing was written to.
Expanded(n) == block \o Copies(n, Raw)

\* The arguments are read when the old block is gone.
EmplaceBack ==
  \E arg \in Args :
    /\ range = Idle
    /\ IF TooMany(1) THEN UNCHANGED <<block, size, expected>>
       ELSE /\ Become([Expanded(1) EXCEPT ![size + 1] = IF arg \in DOMAIN block THEN Rubbish ELSE arg])
            /\ expected' = Append(expected, Given(arg, expected))
    /\ UNCHANGED range

Clear == range = Idle /\ Become(<<>>) /\ expected' = <<>> /\ UNCHANGED range

-----------------------------------------------------------------------------
(* assign of a range of input iterators that is not empty *)

ReadFirst ==
  /\ range = Idle
  /\ Become(Copies(Initial, Raw))
  /\ expected' = <<>> /\ range' = <<Initial>>

ReadElement ==
  \E v \in Value :
    /\ range # Idle /\ Len(expected) < size
    /\ block' = [block EXCEPT ![Len(expected) + 1] = v]
    /\ expected' = Append(expected, v)
    /\ UNCHANGED <<size, range>>

\* All places are taken, and there are more elements: the vector is expanded, or the call throws.
ReadExpand ==
  /\ range # Idle /\ Len(expected) = size
  /\ IF TooMany(range[1]) THEN range' = Idle /\ UNCHANGED <<block, size>>
     ELSE Become(Expanded(range[1])) /\ range' = <<2 * range[1]>>
  /\ UNCHANGED expected

\* What is too much is erased.
ReadEnd ==
  /\ range # Idle /\ expected # <<>>
  /\ Become(Splice(block, Len(expected), range[1] - Len(expected), <<>>))
  /\ range' = Idle
  /\ UNCHANGED expected

Next ==
  \/ InsertCopies \/ InsertRange \/ InsertOwn \/ Erase \/ AssignCopies \/ AssignText \/ AssignRange
  \/ EmplaceBack \/ Clear \/ ReadFirst \/ ReadElement \/ ReadExpand \/ ReadEnd

Spec == Init /\ [][Next]_vars

-----------------------------------------------------------------------------
(* Properties *)

\* Between two calls the vector holds what the calls should have made of it, also where a call
\* was given elements of the vector itself, or threw; only the arguments of emplace_back may
\* have been released, and no element is seen that was never written.
ContentsExact ==
  range = Idle =>
    /\ Len(block) = Len(expected)
    /\ \A i \in DOMAIN block : block[i] \in {expected[i], Rubbish}

\* The block has the size of the vector, with which it is given back.
BlockExact == Len(block) = size
=============================================================================
