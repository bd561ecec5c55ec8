-------------------------- MODULE MCCalendarStore --------------------------
(* Constants for checking CalendarStore with TLC: one calendar path with   *)
(* one or two object paths under it, on which all requests collide.        *)
EXTENDS StoreRefinement, TLC

CONSTANTS u1, u2, cal, a, b, d1, d2, x1, x2, k1, k2, p1, p2

MCCalOf == [op \in ObjPaths |-> cal]
MCUidOf == d1 :> x1 @@ d2 :> x2

Plain      == [ifNoneMatch |-> Unset, ifMatch |-> Unset]
CreateOnly == [ifNoneMatch |-> Wildcard, ifMatch |-> Unset]
ReplaceD1  == [ifNoneMatch |-> Unset, ifMatch |-> d1]
Unless2    == [ifNoneMatch |-> d2, ifMatch |-> Unset]

AllConds  == {Plain, CreateOnly, ReplaceD1, Unless2}
SomeConds == {Plain, CreateOnly}

Symmetry == Permutations(Procs)

=============================================================================
