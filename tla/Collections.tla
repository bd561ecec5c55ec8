---------------------------- MODULE Collections ----------------------------
(***************************************************************************)
(* What the storage backend promises the handlers (storage/backend.go):    *)
(* collections of items with an owner, and for each a version and the      *)
(* history of what changed at which version.  No ids of rows, no           *)
(* statements, no requests in flight: an operation takes effect at once.   *)
(* CalendarStore is shown to implement it (StoreRefinement).               *)
(***************************************************************************)
EXTENDS Integers

CONSTANTS
    Owners,      \* users
    ColPaths,    \* paths of collections
    ItemPaths,   \* paths of items
    ColOf,       \* item path -> the path of its collection
    Values,      \* contents of an item
    KeyOf        \* content -> UID, unique in a collection

VARIABLES
    cols,        \* the collections, a function of their identities
    born         \* how many there have been: the identities given out are 1..born

colVars == <<cols, born>>

Collection == [owner : Owners, path : ColPaths,
               items : SUBSET [path : ItemPaths, data : Values],
               version : Nat, history : SUBSET (Nat \X ItemPaths)]

Empty(u, cp) == [owner |-> u, path |-> cp, items |-> {}, version |-> 0,
                 history |-> {}]

\* collection k with the items its next version has, a change at ip
NextVersion(k, ip, items) ==
    [owner   |-> k.owner,
     path    |-> k.path,
     items   |-> items,
     version |-> k.version + 1,
     history |-> k.history \cup {<<k.version + 1, ip>>}]

Others(k, ip) == {i \in k.items : i.path # ip}

ColInit == cols = [c \in {} |-> c] /\ born = 0

\* CreateCalendar: one collection per path
Create(u, cp) ==
    /\ \A c \in DOMAIN cols : cols[c].path # cp
    /\ born' = born + 1
    /\ cols' = [k \in DOMAIN cols \cup {born + 1} |->
                  IF k = born + 1 THEN Empty(u, cp) ELSE cols[k]]

\* DeleteCalendar, with all its items and its history
Drop(c) ==
    /\ cols' = [k \in DOMAIN cols \ {c} |-> cols[k]]
    /\ UNCHANGED born

\* PutCalendarObject
Write(c, ip, v) ==
    /\ ColOf[ip] = cols[c].path
    /\ \A i \in Others(cols[c], ip) : KeyOf[i.data] # KeyOf[v]
    /\ cols' = [cols EXCEPT ![c] =
          NextVersion(cols[c], ip,
                      Others(cols[c], ip) \cup {[path |-> ip, data |-> v]})]
    /\ UNCHANGED born

\* DeleteCalendarObject
Remove(c, ip) ==
    /\ \E i \in cols[c].items : i.path = ip
    /\ cols' = [cols EXCEPT ![c] = NextVersion(cols[c], ip, Others(cols[c], ip))]
    /\ UNCHANGED born

\* a PutCalendarObject whose row was deleted before its UPDATE: a version in
\* which nothing changed
Touch(c, ip) ==
    /\ ColOf[ip] = cols[c].path
    /\ cols' = [cols EXCEPT ![c] = NextVersion(cols[c], ip, cols[c].items)]
    /\ UNCHANGED born

ColNext ==
    \/ \E u \in Owners, cp \in ColPaths : Create(u, cp)
    \/ \E c \in DOMAIN cols :
          \/ Drop(c)
          \/ \E ip \in ItemPaths :
                \/ \E v \in Values : Write(c, ip, v)
                \/ Remove(c, ip)
                \/ Touch(c, ip)

ColSpec == ColInit /\ [][ColNext]_colVars

=============================================================================
