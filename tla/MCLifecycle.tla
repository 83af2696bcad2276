---------------------------- MODULE MCLifecycle ----------------------------
(* Three jails on one library: two share a table, the third has its own.   *)
EXTENDS Lifecycle, TLC

CONSTANTS j1, j2, j3, t1, t2, p1, p2, a1

TwoTables == j1 :> t1 @@ j2 :> t2 @@ j3 :> t2
TwoPorts == j1 :> <<>> @@ j2 :> <<p1>> @@ j3 :> <<p2, p1>>
=============================================================================
