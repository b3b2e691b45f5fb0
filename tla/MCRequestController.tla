------------------------ MODULE MCRequestController ------------------------
(***************************************************************************)
(* Small instances of RequestController for TLC.                           *)
(***************************************************************************)
EXTENDS RequestProperties, TLC

CONSTANTS r1, r2, p1, s1, a1, a2

(* All requests name the same producer and the same secret.                *)
AllAtP1 == [r \in Requests |-> p1]
AllInS1 == [r \in Requests |-> s1]

(* Every producer returns one attribute.                                   *)
A1Returned == [p \in Producers |-> {a1}]

(* Every producer returns both attributes: alike, and a migration secret   *)
(* with one of them is incomplete.                                         *)
BothReturned == [p \in Producers |-> {a1, a2}]
AlikeAttributes == Permutations({a1, a2})

(* Credentials: enough for every place that can hold one, and a spare.     *)
Credentials == 1..(4 + Cardinality(Requests))
=============================================================================
