------------------------ MODULE StoreRefinementProofs ------------------------
(* CalendarStore implements Collections, for every value of its constants:  *)
(* the initial states are initial, and each step of the tables is one       *)
(* operation of the abstract store or leaves it alone.                      *)
EXTENDS StoreRefinement, CalendarStoreProofs

AllCollections == [c \in Live |-> CollectionOf(c)]
LogOf(c)       == {ch \in changes : ch.cal = c}
HistoryOf(c)   == {<<ch.token, ch.path>> : ch \in LogOf(c)}

\* Before a step and after it, a collection is these five parts.
LEMMA CollectionParts ==
    ASSUME NEW c
    PROVE  /\ CollectionOf(c) = [owner   |-> calendars[c].user,
                                 path    |-> calendars[c].path,
                                 items   |-> Contents(c),
                                 version |-> calendars[c].token,
                                 history |-> HistoryOf(c)]
           /\ CollectionOf(c)' = [owner   |-> calendars'[c].user,
                                  path    |-> calendars'[c].path,
                                  items   |-> Contents(c)',
                                  version |-> calendars'[c].token,
                                  history |-> HistoryOf(c)']
  BY DEF CollectionOf, HistoryOf, LogOf

\* The function that the refinement mapping gives for cols.
LEMMA CollectionsAre ==
    /\ DOMAIN AllCollections = Live
    /\ \A c \in Live : AllCollections[c] = CollectionOf(c)
  BY DEF AllCollections

-----------------------------------------------------------------------------
(* What a step leaves of a collection.                                     *)

\* A collection depends on its row in calendars, its rows in objects and its log.
LEMMA CollectionKept ==
    ASSUME NEW c, calendars'[c] = calendars[c],
           Contents(c)' = Contents(c), LogOf(c)' = LogOf(c)
    PROVE  CollectionOf(c)' = CollectionOf(c)
  BY DEF CollectionOf, LogOf

\* A step of a request that leaves the tables alone is not visible at all.
LEMMA InvisibleStep ==
    ASSUME UNCHANGED tables
    PROVE  UNCHANGED Promise!colVars
<1>1. Live' = Live /\ nextCal' = nextCal
  BY DEF tables, Live
<1>2. \A c : CollectionOf(c)' = CollectionOf(c)
  BY CollectionKept DEF tables, Contents, RowsOf, LogOf
<1>. QED  BY <1>1, <1>2 DEF Promise!colVars

\* INSERT INTO calendars: no row and no log entry has the new id yet.
LEMMA CreateImplements ==
    ASSUME IndInv, NEW u \in Users, NEW cp \in CalPaths, CreateEffect(u, cp),
           NEW n, n = nextCal
    PROVE  Promise!Create(u, cp)
<1>1. nextCal \in Nat /\ nextCal \notin Live
  BY DEF IndInv, TypeOK, Live
<1>2. /\ Live' = Live \cup {nextCal}
      /\ calendars'[nextCal] = [user |-> u, path |-> cp, token |-> 0]
      /\ \A c \in Live : calendars'[c] = calendars[c]
      /\ nextCal' = nextCal + 1
      /\ UNCHANGED <<objects, changes>>
  BY <1>1 DEF CreateEffect, Insert, Live
<1>3. \A c \in Live : CollectionOf(c)' = CollectionOf(c)
  BY <1>2, CollectionKept DEF Contents, RowsOf, LogOf
<1>4. CollectionOf(n)' = Promise!Empty(u, cp)
  <2>1. RowsOf(n)' = {}
    BY <1>1, <1>2 DEF IndInv, RowsUnderTheirCalendar, RowsOf
  <2>2. LogOf(n)' = {}
    BY <1>1, <1>2 DEF IndInv, ChangesOfUsedIds, LogOf
  <2>3. Contents(n)' = {}
    BY <1>2, <2>1 DEF Contents
  <2>4. HistoryOf(n)' = {}
    BY <2>2 DEF HistoryOf
  <2>. QED  BY <1>2, <2>3, <2>4, CollectionParts DEF Promise!Empty
<1>5. \A c \in Live : CollectionOf(c).path # cp
  BY DEF CreateEffect, CalendarsAt, CollectionOf
<1>6. AllCollections' = [k \in DOMAIN AllCollections \cup {nextCal} |->
                           IF k = nextCal THEN Promise!Empty(u, cp)
                                          ELSE AllCollections[k]]
  BY <1>1, <1>2, <1>3, <1>4, CollectionsAre DEF AllCollections
<1>. QED  BY <1>1, <1>2, <1>5, <1>6 DEF Promise!Create, AllCollections

\* DELETE FROM calendars: whether it cascades or not, what the other calendars
\* show and record stays.
LEMMA DropImplements ==
    ASSUME IndInv, NEW c \in Live, NEW conn \in Conns, DropEffect(c, conn)
    PROVE  Promise!Drop(c)
<1>1. /\ Live' = Live \ {c}
      /\ \A k \in Live' : calendars'[k] = calendars[k]
      /\ nextCal' = nextCal
  BY DEF DropEffect, Restrict, Live
<1>2. ASSUME NEW k \in Live'
      PROVE  CollectionOf(k)' = CollectionOf(k)
  <2>1. k # c
    BY <1>1
  <2>2. /\ \A o \in DOMAIN objects' : o \in DOMAIN objects /\ objects'[o] = objects[o]
        /\ \A o \in DOMAIN objects : objects[o].cal # c => o \in DOMAIN objects'
    BY DEF DropEffect, Cascade, Restrict, RowsOf
  <2>3. Contents(k)' = Contents(k)
    BY <2>1, <2>2, SameRowsSameContents
  <2>4. LogOf(k)' = LogOf(k)
    BY <2>1 DEF DropEffect, Cascade, LogOf
  <2>. QED  BY <1>1, <2>3, <2>4, CollectionKept
<1>3. AllCollections' = [k \in DOMAIN AllCollections \ {c} |-> AllCollections[k]]
  BY <1>1, <1>2 DEF AllCollections
<1>. QED  BY <1>1, <1>3 DEF Promise!Drop, AllCollections

-----------------------------------------------------------------------------
(* The commit of a PUT or a DELETE.                                        *)

\* A commit touches one collection, whose next version has what is shown then and one
\* more entry in its history.
LEMMA CommitIsNextVersion ==
    ASSUME IndInv, TableStep, NEW p \in Procs, CommitEffect(p),
           NEW c, c = req[p].cal, NEW op, op = req[p].path
    PROVE  /\ c \in Live
           /\ AllCollections' =
                [AllCollections EXCEPT ![c] =
                    Promise!NextVersion(AllCollections[c], op, Contents(c)')]
           /\ nextCal' = nextCal
<1>1. c \in Live
  BY CommitChangesOnePath
<1>2. PICK type : RecordChange(c, op, type)
  BY CommitChangesOnePath
<1>3. /\ Live' = Live
      /\ \A k \in Live : /\ calendars'[k].user = calendars[k].user
                         /\ calendars'[k].path = calendars[k].path
                         /\ calendars'[k].token = IF k = c THEN calendars[k].token + 1
                                                  ELSE calendars[k].token
      /\ \A k \in Live : calendars[k].token \in Nat
  BY <1>1, <1>2, RecordChangeCalendars DEF IndInv
<1>4. \A k \in Live : k # c => calendars'[k] = calendars[k]
  BY <1>2 DEF RecordChange, Live
<1>5. changes' = changes \cup {[cal |-> c, path |-> op, type |-> type,
                                token |-> calendars[c].token + 1]}
  BY <1>2 DEF RecordChange
<1>6. ASSUME NEW k \in Live, k # c
      PROVE  CollectionOf(k)' = CollectionOf(k)
  <2>1. Contents(k)' = Contents(k)
    <3>1. SUFFICES ASSUME Contents(k)' # Contents(k) PROVE FALSE
      OBVIOUS
    <3>2. PICK q \in Procs : CommitEffect(q) /\ req[q].cal = k
      BY <1>3, <3>1, ContentsChangeByCommit
    <3>3. PICK t2 : RecordChange(k, req[q].path, t2)
      BY <3>2, CommitChangesOnePath
    <3>4. calendars'[k].token = calendars[k].token + 1
      BY <3>3, RecordChangeCalendars DEF IndInv
    <3>. QED  BY <1>3, <1>6, <3>4
  <2>2. LogOf(k)' = LogOf(k)
    BY <1>5, <1>6 DEF LogOf
  <2>. QED  BY <1>4, <1>6, <2>1, <2>2, CollectionKept
<1>7. CollectionOf(c)' = Promise!NextVersion(CollectionOf(c), op, Contents(c)')
  <2> DEFINE new  == [cal |-> c, path |-> op, type |-> type,
                      token |-> calendars[c].token + 1]
             pair == <<calendars[c].token + 1, op>>
  <2>1. LogOf(c)' = LogOf(c) \cup {new}
    BY <1>5 DEF LogOf
  <2>2. <<new.token, new.path>> = pair
    OBVIOUS
  <2>3. HistoryOf(c)' = HistoryOf(c) \cup {pair}
    <3> HIDE DEF new, pair
    <3>1. HistoryOf(c)' = {<<ch.token, ch.path>> : ch \in LogOf(c)'}
      BY DEF HistoryOf
    <3>. QED  BY <2>1, <2>2, <3>1 DEF HistoryOf
  <2>4. Promise!NextVersion(CollectionOf(c), op, Contents(c)') =
           [owner   |-> calendars[c].user,
            path    |-> calendars[c].path,
            items   |-> Contents(c)',
            version |-> calendars[c].token + 1,
            history |-> HistoryOf(c) \cup {pair}]
    <3>1. /\ CollectionOf(c).owner = calendars[c].user
          /\ CollectionOf(c).path = calendars[c].path
          /\ CollectionOf(c).version = calendars[c].token
          /\ CollectionOf(c).history = HistoryOf(c)
      BY CollectionParts
    <3>. QED  BY <3>1 DEF Promise!NextVersion
  <2>5. CollectionOf(c)' = [owner   |-> calendars[c].user,
                            path    |-> calendars[c].path,
                            items   |-> Contents(c)',
                            version |-> calendars[c].token + 1,
                            history |-> HistoryOf(c) \cup {pair}]
    <3>1. /\ calendars'[c].user = calendars[c].user
          /\ calendars'[c].path = calendars[c].path
          /\ calendars'[c].token = calendars[c].token + 1
      BY <1>1, <1>3
    <3> HIDE DEF pair
    <3>. QED  BY <2>3, <3>1, CollectionParts
  <2>. QED  BY <2>4, <2>5
<1>8. nextCal' = nextCal
  BY DEF CommitEffect, PutEffect, DeleteEffect
<1>. QED  BY <1>1, <1>3, <1>6, <1>7, <1>8 DEF AllCollections

\* The row that a PUT inserts is the only one at its path.
LEMMA InsertImplements ==
    ASSUME IndInv, TableStep, NEW p \in Procs, req[p].pc = "commit",
           NEW r, r = req[p], PutEffect(r), r.row = NoRow, NEW c, c = r.cal
    PROVE  Promise!Write(c, r.path, r.data)
<1> DEFINE new == [path |-> r.path, data |-> r.data]
<1>1. r \in PutRequest /\ c \in Live /\ calendars[c].path = CalOf[r.path]
  BY RequestTypes DEF IndInv, PutEffect, Commits, RequestsStillHold, FoundCalendar, Live
<1>2. /\ AllCollections' = [AllCollections EXCEPT ![c] =
            Promise!NextVersion(AllCollections[c], r.path, Contents(c)')]
      /\ nextCal' = nextCal
  <2>1. CommitEffect(p)
    BY DEF CommitEffect
  <2>. QED  BY <2>1, CommitIsNextVersion
<1>3. PathFree(r.path) /\ UidFree(c, r.data, NoRow)
  BY DEF PutEffect, Commits
<1>4. \A i \in Contents(c) : i.path # r.path /\ UidOf[i.data] # UidOf[r.data]
  <2>1. ASSUME NEW o \in RowsOf(c)
        PROVE  objects[o].path # r.path /\ UidOf[objects[o].data] # UidOf[r.data]
    <3>1. o \in DOMAIN objects /\ o # NoRow
      BY <2>1 DEF RowsOf, IndInv, TypeOK, NoRow
    <3>. QED  BY <1>3, <2>1, <3>1 DEF PathFree, UidFree, RowsAt
  <2>. QED  BY <2>1 DEF Contents
<1>5. Contents(c)' = Contents(c) \cup {new}
  <2>1. /\ DOMAIN objects' = DOMAIN objects \cup {nextRow}
        /\ objects'[nextRow] = [cal |-> c, path |-> r.path, data |-> r.data]
        /\ \A o \in DOMAIN objects : objects'[o] = objects[o]
    BY <1>1, WriteRowObjects DEF PutEffect, IndInv
  <2>2. RowsOf(c)' = RowsOf(c) \cup {nextRow}
    BY <2>1 DEF RowsOf
  <2>3. \A o \in RowsOf(c) : objects'[o] = objects[o]
    BY <2>1 DEF RowsOf
  <2>. QED  BY <2>1, <2>2, <2>3 DEF Contents
<1>6. AllCollections[c].items = Contents(c) /\ AllCollections[c].path = calendars[c].path
  BY <1>1 DEF AllCollections, CollectionOf
<1>7. Promise!Others(AllCollections[c], r.path) = Contents(c)
  BY <1>4, <1>6 DEF Promise!Others
<1>. QED  BY <1>1, <1>2, <1>4, <1>5, <1>6, <1>7 DEF Promise!Write, AllCollections

\* The row that a PUT found is replaced, if it is still there and shown; else no
\* calendar shows a difference.
LEMMA UpdateImplements ==
    ASSUME IndInv, TableStep, NEW p \in Procs, req[p].pc = "commit",
           NEW r, r = req[p], PutEffect(r), r.row # NoRow, NEW c, c = r.cal
    PROVE  Promise!Write(c, r.path, r.data) \/ Promise!Touch(c, r.path)
<1> DEFINE new == [path |-> r.path, data |-> r.data]
<1>1. r \in PutRequest /\ c \in Live /\ calendars[c].path = CalOf[r.path]
  BY RequestTypes DEF IndInv, PutEffect, Commits, RequestsStillHold, FoundCalendar, Live
<1>2. /\ AllCollections' = [AllCollections EXCEPT ![c] =
            Promise!NextVersion(AllCollections[c], r.path, Contents(c)')]
      /\ nextCal' = nextCal
  <2>1. CommitEffect(p)
    BY DEF CommitEffect
  <2>. QED  BY <2>1, CommitIsNextVersion
<1>3. /\ DOMAIN objects' = DOMAIN objects
      /\ \A o \in DOMAIN objects :
            /\ o # r.row => objects'[o] = objects[o]
            /\ o = r.row => objects'[o] = [objects[o] EXCEPT !.data = r.data]
  BY <1>1, WriteRowObjects DEF PutEffect, IndInv
<1>4. \A o \in DOMAIN objects : objects[o] \in ObjectRow
  BY DEF IndInv, TypeOK
<1>5. r.row \in DOMAIN objects => objects[r.row].path = r.path
  BY DEF IndInv, RequestsStillHold, FoundRow
<1>6. /\ AllCollections[c].items = Contents(c)
      /\ AllCollections[c].path = calendars[c].path
  BY <1>1 DEF AllCollections, CollectionOf
<1>7. CASE r.row \in RowsOf(c)
  <2>1. r.row \in DOMAIN objects /\ objects[r.row].cal = c
    BY <1>7 DEF RowsOf
  <2>2. \A o \in DOMAIN objects : objects[o].path = r.path => o = r.row
    BY <1>5, <2>1 DEF IndInv, UniquePaths
  <2>3. UidFree(c, r.data, r.row)
    BY <2>1 DEF PutEffect, Commits
  <2>4. \A i \in Promise!Others(AllCollections[c], r.path) :
           UidOf[i.data] # UidOf[r.data]
    BY <1>5, <1>6, <2>1, <2>3 DEF Promise!Others, Contents, UidFree
  <2>5. /\ DOMAIN objects' = DOMAIN objects
        /\ \A o \in DOMAIN objects : o # r.row => objects'[o] = objects[o]
        /\ objects'[r.row] = [cal |-> c, path |-> r.path, data |-> r.data]
    BY <1>3, <1>4, <1>5, <2>1 DEF ObjectRow
  <2>6. RowsOf(c)' = RowsOf(c)
    BY <2>1, <2>5 DEF RowsOf
  <2>7. Contents(c)' = Promise!Others(AllCollections[c], r.path) \cup {new}
    <3>1. \A o \in RowsOf(c) :
             /\ o # r.row => objects'[o] = objects[o] /\ objects[o].path # r.path
             /\ o = r.row => /\ objects[o].path = r.path
                             /\ objects'[o] = [cal |-> c, path |-> r.path, data |-> r.data]
      BY <1>5, <2>1, <2>2, <2>5 DEF RowsOf
    <3>2. \A i : i \in Contents(c)' <=>
                  \/ i = new
                  \/ i \in Contents(c) /\ i.path # r.path
      BY <1>7, <2>6, <3>1 DEF Contents
    <3>. QED  BY <1>6, <3>2 DEF Promise!Others
  <2>. QED  BY <1>1, <1>2, <1>6, <2>4, <2>7 DEF Promise!Write, AllCollections
<1>8. CASE r.row \notin RowsOf(c)
  <2>1. Contents(c)' = Contents(c)
    <3>1. \A o \in DOMAIN objects :
             /\ objects'[o].cal = objects[o].cal
             /\ objects[o].cal = c => objects'[o] = objects[o]
      BY <1>3, <1>4, <1>8 DEF RowsOf, ObjectRow
    <3>. QED  BY <1>3, <3>1, SameRowsSameContents
  <2>. QED  BY <1>1, <1>2, <1>6, <2>1 DEF Promise!Touch, AllCollections
<1>. QED  BY <1>7, <1>8

\* The row that a DELETE removes is the only one that its calendar shows at the path.
LEMMA DeleteImplements ==
    ASSUME IndInv, TableStep, NEW p \in Procs, req[p].pc = "delete",
           NEW r, r = req[p], DeleteEffect(r), NEW c, c = r.cal
    PROVE  Promise!Remove(c, r.path)
<1>1. /\ c \in Live
      /\ AllCollections' = [AllCollections EXCEPT ![c] =
            Promise!NextVersion(AllCollections[c], r.path, Contents(c)')]
      /\ nextCal' = nextCal
  <2>1. CommitEffect(p)
    BY DEF CommitEffect
  <2>. QED  BY <2>1, CommitIsNextVersion
<1>2. AllCollections[c].items = Contents(c)
  BY <1>1 DEF AllCollections, CollectionOf
<1>3. \E i \in Contents(c) : i.path = r.path
  <2>1. PICK o : o \in RowsOf(c) /\ objects[o].path = r.path
    BY DEF DeleteEffect, RowsAt
  <2>2. [path |-> objects[o].path, data |-> objects[o].data] \in Contents(c)
    BY <2>1 DEF Contents
  <2>. QED  BY <2>1, <2>2
<1>4. Contents(c)' = Promise!Others(AllCollections[c], r.path)
  <2>1. /\ RowsOf(c)' = {o \in RowsOf(c) : objects[o].path # r.path}
        /\ \A o \in RowsOf(c)' : objects'[o] = objects[o]
    BY DEF DeleteEffect, Restrict, RowsOf, RowsAt
  <2>2. \A i : i \in Contents(c)' <=> i \in Contents(c) /\ i.path # r.path
    BY <2>1 DEF Contents
  <2>. QED  BY <1>2, <2>2 DEF Promise!Others
<1>. QED  BY <1>1, <1>2, <1>3, <1>4 DEF Promise!Remove, AllCollections

-----------------------------------------------------------------------------

\* No calendar, no id given out.
LEMMA InitImplements == Init => Promise!ColInit
  BY DEF Init, EmptyTable, Live, Promise!ColInit

\* The steps that a request may take, one operation of the abstract store each.
LEMMA NextImplements ==
    IndInv /\ [Next]_vars => [Promise!ColNext]_(Promise!colVars)
<1> SUFFICES ASSUME IndInv, [Next]_vars
             PROVE  [Promise!ColNext]_(Promise!colVars)
  OBVIOUS
<1>1. TableStep
  BY StepsOfTables
<1>2. CASE UNCHANGED tables
  BY <1>2, InvisibleStep
<1>3. ASSUME NEW u \in Users, NEW cp \in CalPaths, CreateEffect(u, cp)
      PROVE  Promise!ColNext
  BY <1>3, CreateImplements DEF Promise!ColNext
<1>4. ASSUME NEW c \in Live, NEW conn \in Conns, DropEffect(c, conn)
      PROVE  Promise!ColNext
  BY <1>4, DropImplements DEF Promise!ColNext
<1>5. ASSUME NEW p \in Procs, CommitEffect(p)
      PROVE  Promise!ColNext
  <2>1. PICK r : r = req[p]
    OBVIOUS
  <2>2. PICK c : c = r.cal
    OBVIOUS
  <2>3. c \in Live
    BY <1>5, <2>1, <2>2, CommitChangesOnePath
  <2>4. CASE r.pc = "commit" /\ PutEffect(r)
    <3>1. r.path \in ObjPaths /\ r.data \in Data
      BY <2>1, <2>4, RequestTypes DEF IndInv
    <3>2. Promise!Write(c, r.path, r.data) \/ Promise!Touch(c, r.path)
      BY <1>1, <2>1, <2>2, <2>4, InsertImplements, UpdateImplements
    <3>. QED  BY <2>3, <3>1, <3>2 DEF Promise!ColNext
  <2>5. CASE r.pc = "delete" /\ DeleteEffect(r)
    <3>1. r.path \in ObjPaths
      BY <2>1, <2>5, RequestTypes DEF IndInv
    <3>2. Promise!Remove(c, r.path)
      BY <1>1, <2>1, <2>2, <2>5, DeleteImplements
    <3>. QED  BY <2>3, <3>1, <3>2 DEF Promise!ColNext
  <2>. QED  BY <1>5, <2>1, <2>4, <2>5 DEF CommitEffect
<1>. QED  BY <1>1, <1>2, <1>3, <1>4, <1>5 DEF TableStep, CommitEffect

\* The store implements what storage/backend.go promises: each commit is one
\* operation on one collection, for any number of requests in flight, statements
\* that fail, and connections with or without foreign keys.
THEOREM StoreImplementsCollections == Spec => ImplementsCollections
<1>. QED  BY InitImplements, NextImplements, Inductive, PTL
          DEF Spec, ImplementsCollections, Promise!ColSpec

=============================================================================
