----------------------------- MODULE IntrusivePtr -----------------------------
(***************************************************************************)
(* intrusive_ptr and intrusive_ref_counter of                              *)
(* src/stlext/allocators/intrusive_ptr.hpp, with thread_safe_counter:      *)
(* threads own pointer variables, which are not shared, to objects, which  *)
(* are.  Taking a reference is one atomic step, and so is giving one up;   *)
(* deleting the object is another step, of the thread whose decrement      *)
(* found zero.                                                             *)
(*                                                                         *)
(* Every assignment is written as a temporary and a swap: the temporary    *)
(* takes the new value (and a reference to it) before its destructor gives *)
(* up the old one.  The swap is local to the thread, so it belongs to the  *)
(* step that takes the reference.                                          *)
(***************************************************************************)
EXTENDS Naturals, FiniteSets

CONSTANTS
  Thread,
  Variable, \* the pointer variables
  Owner,    \* the thread of each variable
  Object,   \* the objects that can be created, each once
  Null

VARIABLES
  px,     \* what each variable points to
  count,  \* m_ref_counter of each object
  life,   \* "unborn", "alive" or "deleted"
  raw,    \* what detach() or new has returned to each thread and it has not used
  gives   \* what each thread is about to do with an object it gave up

vars == <<px, count, life, raw, gives>>

Nothing == [step |-> "nothing"]

Idle(t) == gives[t] = Nothing

Owned(t) == {v \in Variable : Owner[v] = t}

-----------------------------------------------------------------------------
Init ==
  /\ px = [v \in Variable |-> Null]
  /\ count = [o \in Object |-> 0]
  /\ life = [o \in Object |-> "unborn"]
  /\ raw = [t \in Thread |-> [object |-> Null, counted |-> FALSE]]
  /\ gives = [t \in Thread |-> Nothing]

\* new: an object is born with a count of zero.
New(t, o) ==
  /\ Idle(t) /\ raw[t].object = Null
  /\ life[o] = "unborn"
  /\ life' = [life EXCEPT ![o] = "alive"]
  /\ raw' = [raw EXCEPT ![t] = [object |-> o, counted |-> FALSE]]
  /\ UNCHANGED <<px, count, gives>>

Acquire(o) == count' = IF o = Null THEN count ELSE [count EXCEPT ![o] = @ + 1]

\* The temporary's destructor, which finds the old value of the variable.
GiveUp(t, o) ==
  gives' = IF o = Null THEN gives ELSE [gives EXCEPT ![t] = [step |-> "release", object |-> o]]

\* reset(p, add_ref): of a new object with a reference, of a detached one
\* without, as its count includes the one it was detached with.
Adopt(t, v) ==
  /\ Idle(t) /\ v \in Owned(t) /\ raw[t].object # Null
  /\ IF raw[t].counted THEN UNCHANGED count ELSE Acquire(raw[t].object)
  /\ px' = [px EXCEPT ![v] = raw[t].object]
  /\ raw' = [raw EXCEPT ![t] = [object |-> Null, counted |-> FALSE]]
  /\ GiveUp(t, px[v])
  /\ UNCHANGED life

\* v = w, v = w.get(), and with a Null v the copy constructor.
Copy(t, v, w) ==
  /\ Idle(t) /\ v \in Owned(t) /\ w \in Owned(t)
  /\ Acquire(px[w])
  /\ px' = [px EXCEPT ![v] = px[w]]
  /\ GiveUp(t, px[v])
  /\ UNCHANGED <<life, raw>>

\* v = std::move(w): the temporary empties w and swaps with v; moving a variable
\* to itself leaves the temporary with nothing.
Move(t, v, w) ==
  /\ Idle(t) /\ v \in Owned(t) /\ w \in Owned(t)
  /\ px' = [px EXCEPT ![w] = Null, ![v] = px[w]]
  /\ GiveUp(t, IF v = w THEN Null ELSE px[v])
  /\ UNCHANGED <<count, life, raw>>

\* A copy made by its owner in a variable of another thread, as when a thread is
\* started with it.
HandOver(t, v, w) ==
  /\ Idle(t) /\ w \in Owned(t) /\ v \notin Owned(t)
  /\ px[w] # Null /\ px[v] = Null /\ Idle(Owner[v])
  /\ Acquire(px[w])
  /\ px' = [px EXCEPT ![v] = px[w]]
  /\ UNCHANGED <<life, raw, gives>>

\* reset(), the destructor, and assignment of a null pointer.
Reset(t, v) ==
  /\ Idle(t) /\ v \in Owned(t)
  /\ px' = [px EXCEPT ![v] = Null]
  /\ GiveUp(t, px[v])
  /\ UNCHANGED <<count, life, raw>>

Detach(t, v) ==
  /\ Idle(t) /\ v \in Owned(t) /\ raw[t].object = Null /\ px[v] # Null
  /\ raw' = [raw EXCEPT ![t] = [object |-> px[v], counted |-> TRUE]]
  /\ px' = [px EXCEPT ![v] = Null]
  /\ UNCHANGED <<count, life, gives>>

-----------------------------------------------------------------------------
(* intrusive_ptr_release *)

\* A slip: the object is deleted by whoever finds no other reference.
DecrementFromOne(t) ==
  /\ gives[t].step = "release"
  /\ LET o == gives[t].object IN
     /\ count' = [count EXCEPT ![o] = @ - 1]
     /\ gives' = [gives EXCEPT ![t] =
                    IF count'[o] <= 1 THEN [step |-> "delete", object |-> o] ELSE Nothing]
  /\ UNCHANGED <<px, life, raw>>

\* The atomic decrement returns the count it leaves.
Decrement(t) ==
  /\ gives[t].step = "release"
  /\ LET o == gives[t].object IN
     /\ count' = [count EXCEPT ![o] = @ - 1]
     /\ gives' = [gives EXCEPT ![t] =
                    IF count'[o] = 0 THEN [step |-> "delete", object |-> o] ELSE Nothing]
  /\ UNCHANGED <<px, life, raw>>

\* The destroyer; the destructor of the counter asserts a count of zero.
Delete(t) ==
  /\ gives[t].step = "delete"
  /\ life' = [life EXCEPT ![gives[t].object] = "deleted"]
  /\ gives' = [gives EXCEPT ![t] = Nothing]
  /\ UNCHANGED <<px, count, raw>>

Release(t) == Decrement(t) \/ Delete(t)

Operate(t) ==
  \/ \E o \in Object : New(t, o)
  \/ \E v \in Variable : Adopt(t, v) \/ Reset(t, v) \/ Detach(t, v)
  \/ \E v, w \in Variable : Copy(t, v, w) \/ Move(t, v, w) \/ HandOver(t, v, w)

Next == \E t \in Thread : Operate(t) \/ Release(t)

Spec == Init /\ [][Next]_vars

\* A thread that has begun to give up a reference goes on: there is nothing in
\* intrusive_ptr_release to wait for.
FairSpec == Spec /\ \A t \in Thread : WF_vars(Release(t))

-----------------------------------------------------------------------------
(* Properties *)

References(o) ==
  Cardinality({v \in Variable : px[v] = o})
  + Cardinality({t \in Thread : raw[t] = [object |-> o, counted |-> TRUE]})
  + Cardinality({t \in Thread : gives[t] = [step |-> "release", object |-> o]})

\* The counter is the number of pointers, detached references and references
\* about to be given up, in every interleaving of copies, moves and releases.
CountExact == \A o \in Object : count[o] = References(o)

\* No pointer, and no thread about to touch the counter, refers to an object
\* that has been deleted or is being deleted by another thread.
NoDangling ==
  \A o \in Object :
    References(o) > 0 =>
      life[o] = "alive" /\ \A t \in Thread : gives[t] # [step |-> "delete", object |-> o]

\* An object is deleted at most once, and by one thread.
DeletedOnce ==
  \A t, u \in Thread :
    gives[t].step = "delete" =>
      /\ life[gives[t].object] = "alive" /\ count[gives[t].object] = 0
      /\ gives[u] = gives[t] => u = t

\* Nothing leaks: an object to which the last reference is gone is deleted.
Abandoned(o) ==
  life[o] = "alive" /\ References(o) = 0 /\ \A t \in Thread : raw[t].object # o

AbandonedDeleted == \A o \in Object : Abandoned(o) ~> life[o] = "deleted"
=============================================================================
