-------------------------- MODULE MCPostgresStore --------------------------
(* Constants for checking PostgresStore with TLC.                          *)
EXTENDS PostgresStore, TLC

CONSTANTS u1, cal, a, b, d1, d2, x1, x2, k1, p1, p2

MCCalOf == [op \in ObjPaths |-> cal]
MCUidOf == d1 :> x1 @@ d2 :> x2
Plain   == {[ifNoneMatch |-> Unset, ifMatch |-> Unset]}

=============================================================================
