--------------------------- MODULE StoreRefinement ---------------------------
(***************************************************************************)
(* CalendarStore implements Collections: what a calendar shows, its token  *)
(* and its part of the log are one collection.  Rows, requests in flight   *)
(* and what a deleted calendar has left behind are not visible.            *)
(***************************************************************************)
EXTENDS CalendarStore

CollectionOf(c) ==
    [owner   |-> calendars[c].user,
     path    |-> calendars[c].path,
     items   |-> Contents(c),
     version |-> calendars[c].token,
     history |-> {<<ch.token, ch.path>> : ch \in {d \in changes : d.cal = c}}]

Promise == INSTANCE Collections WITH
    Owners <- Users, ColPaths <- CalPaths, ItemPaths <- ObjPaths,
    ColOf <- CalOf, Values <- Data, KeyOf <- UidOf,
    cols <- [c \in Live |-> CollectionOf(c)],
    born <- nextCal - 1

\* Each commit is one operation of the abstract store or changes nothing
\* visible: a request never shows an intermediate state, never touches a second
\* collection or path, never takes up the identity, the items or the history of
\* a collection that was deleted, and the two UNIQUE constraints hold of what is
\* shown, for any interleaving and failure of statements, with cascading deletes
\* or without.
ImplementsCollections == Promise!ColSpec

=============================================================================
