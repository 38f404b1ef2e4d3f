----------------------------- MODULE MCStringSet -----------------------------
(***************************************************************************)
(* An instance of StringSet for TLC: strings of different lengths; two     *)
(* share their home bucket in every table, one comes next to them, and one *)
(* starts at the end of the table and wraps around.                        *)
(***************************************************************************)
EXTENDS StringSet, TLC

CONSTANTS s_a, s_b, s_c, s_d

MCString == {s_a, s_b, s_c, s_d}
MCLength == s_a :> 1 @@ s_b :> 2 @@ s_c :> 1 @@ s_d :> 3
MCHash   == s_a :> 0 @@ s_b :> 16 @@ s_c :> 1 @@ s_d :> 15

\* Searches through freed buckets need fewer strings than full tables.
MCMaxEntries == [e \in BOOLEAN |-> IF e THEN 3 ELSE 4]
=============================================================================
