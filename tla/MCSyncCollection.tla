-------------------------- MODULE MCSyncCollection --------------------------
(* Constants for checking SyncCollection with TLC: one user's devices follow *)
(* the one calendar path.                                                   *)
EXTENDS SyncCollection

CONSTANTS u1, u2, cal, a, b, d1, d2, k1, k2, p1, p2, phone

MCCalOf      == [op \in ObjPaths |-> cal]
MCUidOf      == [d \in Data |-> d]
MCConds      == {[ifNoneMatch |-> Unset, ifMatch |-> Unset]}
MCClientUser == [d \in Clients |-> u1]
MCClientPath == [d \in Clients |-> cal]

=============================================================================
