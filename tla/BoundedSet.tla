----------------------------- MODULE BoundedSet -----------------------------
(***************************************************************************)
(* What a fixed-capacity hash table promises: a set of at most N keys.     *)
(***************************************************************************)
EXTENDS Naturals, FiniteSets

CONSTANTS Key, N

VARIABLE members

Init == members = {}

Insert(k) == Cardinality(members) < N /\ members' = members \cup {k}

Erase(k) == members' = members \ {k}

\* Clearing, and assignment from another such set.
Replace(S) == Cardinality(S) <= N /\ members' = S

Next ==
  \/ \E k \in Key : Insert(k) \/ Erase(k)
  \/ \E S \in SUBSET Key : Replace(S)

Spec == Init /\ [][Next]_members
=============================================================================
