------------------------------ MODULE Allocators ------------------------------
(***************************************************************************)
(* The arenas of src/stlext/allocators and its intrusive pointers: each    *)
(* behaviour is the life of one binexp_arena, with or without a maximum    *)
(* for its bins, of one fallback_arena, of one bitmap_arena, or of objects *)
(* that threads share through intrusive_ptr.  The arenas share variables,  *)
(* under other names; a variable that is not in use keeps one value.       *)
(***************************************************************************)
EXTENDS Integers, FiniteSets

CONSTANTS
  \* of binexp_arena
  BlockAddress, BinRequest, LinkSize, BinCount, MaxSizes,
  \* of fallback_arena
  Size, Heap, HeapRequest,
  \* of bitmap_arena
  BitsPerWord, BitmapSize, RunRequest, CtzOfZero,
  \* of intrusive_ptr
  Thread, Variables, Object, Null

ASSUME BinexpAssumption ==
  /\ BinRequest \subseteq Nat \ {0}
  /\ LinkSize \in Nat \ {0} /\ BinCount \in Nat /\ MaxSizes \subseteq Nat
\* Every size has a highest bit.
ASSUME ExponentAssumption ==
  \A n \in BinRequest :
    /\ \A i \in 0..n : 2^i \in Nat
    /\ \E i \in 0..n : 2^i > n /\ \A j \in 0..(i - 1) : 2^j <= n
ASSUME FallbackAssumption ==
  Size \in Nat /\ Heap \intersect Nat = {} /\ HeapRequest \subseteq Nat \ {0}
ASSUME BitmapAssumption ==
  /\ BitsPerWord \in Nat \ {0, 1} /\ BitmapSize \in Nat \ {0}
  /\ RunRequest \subseteq Nat \ {0}
  /\ CtzOfZero \subseteq {0, BitsPerWord} /\ CtzOfZero # {}
ASSUME PointerAssumption ==
  IsFiniteSet(Thread) /\ Variables \in Nat /\ Null \notin Object

VARIABLES used, free, nfree, live, pc, want, index, word, offset, count, px, life, raw, gives

search   == <<want, index, word, offset>>
pointers == <<count, px, life, raw, gives>>
vars     == <<used, free, nfree, live, pc, search, pointers>>

Unused == "unused"

Binexp == INSTANCE BinexpArena WITH Address <- BlockAddress, Request <- BinRequest,
            bins <- free, target <- nfree, open <- pc, max <- want
Fallback == INSTANCE FallbackArena WITH
              Request <- HeapRequest, heap <- free, boundary <- nfree
Bitmap == INSTANCE BitmapArena WITH Request <- RunRequest

\* Every thread has as many pointer variables as the others.
OwnedVariable == Thread \X (1..Variables)
OwnerOf == [v \in OwnedVariable |-> v[1]]

Pointer == INSTANCE IntrusivePtr WITH Variable <- OwnedVariable, Owner <- OwnerOf

NoSearch == index = Unused /\ word = Unused /\ offset = Unused

NoPointers == px = Unused /\ life = Unused /\ raw = Unused /\ gives = Unused

Init ==
  \/ used = "binexp"   /\ Binexp!Init   /\ NoSearch /\ NoPointers /\ count = Unused
  \/ used = "fallback" /\ Fallback!Init /\ NoSearch /\ NoPointers /\ count = Unused
                       /\ pc = Unused /\ want = Unused
  \/ used = "bitmap"   /\ Bitmap!Init   /\ NoPointers
  \/ used = "pointer"  /\ Pointer!Init  /\ NoSearch /\ want = Unused
                       /\ free = Unused /\ nfree = Unused /\ live = Unused /\ pc = Unused

Next ==
  \/ used = "binexp"   /\ Binexp!Next   /\ UNCHANGED <<used, index, word, offset, pointers>>
  \/ used = "fallback" /\ Fallback!Next /\ UNCHANGED <<used, search, pointers, pc>>
  \/ used = "bitmap"   /\ Bitmap!Next   /\ UNCHANGED <<used, px, life, raw, gives>>
  \/ used = "pointer"  /\ Pointer!Next  /\ UNCHANGED <<used, search, free, nfree, live, pc>>

\* A call of allocate runs to its end, and so does a release, in which there is nothing to
\* wait for; nobody need allocate, release or copy anything.
Spec ==
  /\ Init /\ [][Next]_vars
  /\ WF_vars(used = "bitmap" /\ Bitmap!Search /\ UNCHANGED <<used, px, life, raw, gives>>)
  /\ \A t \in Thread :
       WF_vars(used = "pointer" /\ Pointer!Release(t) /\ UNCHANGED <<used, search, free, nfree, live, pc>>)

-----------------------------------------------------------------------------
(* Properties *)

\* What an arena keeps of its blocks is exact, whatever mix of requests and returns came
\* before: a block is in one place, of the size with which it will go back to where it came
\* from, a bitmap and its counter say which blocks no client has, and a destroyed arena has
\* kept none.
AccountsExact ==
  /\ used = "binexp" =>
       Binexp!BinsBounded /\ Binexp!OnePlace /\ Binexp!SizesAgree /\ Binexp!DisposeReturnsAll
  /\ used = "fallback" => Fallback!RoutedHome
  /\ used = "bitmap" => Bitmap!BitmapExact

\* Clients see arenas: blocks in use are disjoint, and stay what they are until they are
\* given back.
ImplementsArena ==
  /\ used = "binexp"   => Binexp!Promise!Init
  /\ used = "fallback" => Fallback!Promise!Init
  /\ used = "bitmap"   => Bitmap!Promise!Init
  /\ [][/\ used = "binexp"   => Binexp!Promise!Next
        /\ used = "fallback" => Fallback!Promise!Next
        /\ used = "bitmap"   => Bitmap!Promise!Next]_vars

\* The count of an object is that of the pointers, detached references and references about
\* to be given up, in every interleaving; nothing refers to a deleted object, and an object
\* is deleted by one thread.
ReferencesExact ==
  used = "pointer" => Pointer!CountExact /\ Pointer!NoDangling /\ Pointer!DeletedOnce

\* Nothing is withheld: a bitmap refuses a request for less than a word only when no run of
\* so many blocks is free, the heap stands in only for a storage without room, and an object
\* that nobody refers to any more is deleted.  A search for a run of two blocks or more ends;
\* one for a single block need not: where the first word with a free block has its lowest one
\* in use, the code shifts that word by zero places for ever (bitmap_arena.hpp:211 and 219).
NothingWithheld ==
  /\ [][/\ used = "bitmap" => Bitmap!RefusedOnlyWhenNone
        /\ used = "fallback" => Fallback!HeapOnlyWhenFull]_vars
  /\ used = "bitmap" ~> used # "bitmap" \/ pc = "idle" \/ Bitmap!Spinning
  /\ \A o \in Object :
       (used = "pointer" /\ Pointer!Abandoned(o)) ~> (used = "pointer" /\ life[o] = "deleted")
=============================================================================
