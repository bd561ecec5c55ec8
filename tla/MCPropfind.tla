----------------------------- MODULE MCPropfind -----------------------------
(* Constants for checking Propfind with TLC: one client, two calendar      *)
(* paths, of which one is escaped in hrefs.                                *)
EXTENDS Propfind

CONSTANTS u1, u2, cal, spaced, escaped, twice, a, b, d1, d2, k1, p1, p2, red, phone

MCCalOf      == [op \in ObjPaths |-> cal]
MCUidOf      == [d \in Data |-> d]
Plain        == {[ifNoneMatch |-> Unset, ifMatch |-> Unset]}
MCPollerUser == [d \in Pollers |-> u1]
MCPollerPath == [d \in Pollers |-> cal]
OneEscaped   == [cp \in CalPaths |-> IF cp = spaced THEN escaped ELSE cp]

\* "my cal", and a calendar whose name is what that is escaped to: "my%20cal"
SpacedPath == [d \in Pollers |-> spaced]
SpacedOf   == [op \in ObjPaths |-> IF op = a THEN spaced ELSE escaped]
Escaped    == [cp \in {spaced, escaped} |-> IF cp = spaced THEN escaped ELSE twice]

MCPolls == {[resource |-> "calendar", asked |-> <<"getctag", "calendar-color">>],
            [resource |-> "home",     asked |-> <<"resourcetype", "getctag">>]}
MCLists == {<<"resourcetype", "getetag">>, <<"getetag">>}

\* as MCLists, and the CTag with the entity tags
CtagLists == {<<"resourcetype", "getetag", "getctag">>, <<"getetag", "getctag">>}

=============================================================================
