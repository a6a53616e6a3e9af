------------------------------ MODULE MCCompare ------------------------------
(***************************************************************************)
(* Instances of Compare for TLC.  Comparisons are interchangeable, and so  *)
(* are bodies: no definition tells two of them apart.                      *)
(***************************************************************************)
EXTENDS Compare, TLC

Doc(body, rest, grant) == [body |-> body, rest |-> rest, grants |-> [p \in Paired |-> grant]]

\* A component that may be absent and has two contents.
TwoBodies == [k \in Keys |-> {Doc(b, "r1", Nothing) : b \in Bodies} \union {Absent}]

\* A Profile with and without a grant, on a component that is always there.
WithGrants == [k \in Keys |->
    {Doc(b, "r1", g) : b \in Bodies, g \in IF k \in Profiles THEN Levels \union {Nothing} ELSE {Nothing}}]

Interchangeable == Permutations(Comparisons) \union Permutations(Bodies)
=============================================================================
