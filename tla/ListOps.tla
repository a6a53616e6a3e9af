------------------------------- MODULE ListOps -------------------------------
(***************************************************************************)
(* What the library has as operators of operators, as functions.           *)
(***************************************************************************)
EXTENDS Naturals, Sequences, FiniteSets

\* The elements that are in a set, in their order: SelectSeq as a recursive function.
Only(list, set) ==
    LET only[n \in 0 .. Len(list)] ==
          IF n = 0 THEN <<>> ELSE IF list[n] \in set THEN Append(only[n - 1], list[n]) ELSE only[n - 1]
    IN  only[Len(list)]

\* A set as a list, in which nothing comes after what it is before: SetToSortSeq of
\* a set of pairs.
Sorted(S, before) ==
    LET First(rest) == CHOOSE x \in rest : \A y \in rest : <<y, x>> \notin before
        sorted[n \in 0 .. Cardinality(S)] ==
          IF n = 0 THEN <<>>
          ELSE Append(sorted[n - 1], First(S \ {sorted[n - 1][i] : i \in DOMAIN sorted[n - 1]}))
    IN  sorted[Cardinality(S)]
=============================================================================
