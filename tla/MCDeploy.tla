------------------------------- MODULE MCDeploy -------------------------------
(***************************************************************************)
(* An instance of Deploy for TLC: one package that adds or updates a and   *)
(* deletes b.                                                              *)
(***************************************************************************)
EXTENDS Deploy

CONSTANTS a, b, old, new

MCPackages == {[components |-> {a}, destructive |-> {b}]}
MCDesired == [k \in Keys |-> new]
MCOrgs == {[k \in Keys |-> old], [k \in Keys |-> IF k = a THEN Absent ELSE old]}
===============================================================================
