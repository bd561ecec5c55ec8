------------------------ MODULE CalendarStoreProofs ------------------------
(* Theorems about CalendarStore, for every value of its constants. *)
EXTENDS CalendarStore, TLAPS

-----------------------------------------------------------------------------
(* Type correctness.                                                       *)

Requests == Idle \cup PutRequest \cup DelRequest

\* What its pc says of a request.
LEMMA RequestShapes ==
    ASSUME TypeOK, NEW p \in Procs
    PROVE  /\ req[p].pc \in {"find", "commit"} => req[p] \in PutRequest
           /\ req[p].pc = "delete" => req[p] \in DelRequest
  BY DEF TypeOK, Idle, PutRequest, DelRequest

\* Answering a request keeps the type of req.
LEMMA FinishType ==
    ASSUME TypeOK, NEW p \in Procs, NEW status \in Answers, Finish(p, status)
    PROVE  req' \in [Procs -> Requests]
<1>1. [pc |-> "idle", status |-> status] \in Requests
  BY DEF Requests, Idle
<1>. QED  BY <1>1 DEF TypeOK, Finish, Requests

\* Restrict keeps the rows of a subset.
LEMMA RestrictRows ==
    ASSUME NEW f, NEW S
    PROVE  /\ DOMAIN Restrict(f, S) = S
           /\ \A x \in S : Restrict(f, S)[x] = f[x]
  BY DEF Restrict

LEMMA CreateCalendarType ==
    ASSUME TypeOK, NEW p \in Procs, NEW u \in Users, NEW cp \in CalPaths,
           CreateCalendar(p, u, cp)
    PROVE  TypeOK'
<1>1. req' \in [Procs -> Requests]
  BY FinishType DEF CreateCalendar, Committed, Answers
<1>2. issued' \in 0 .. MaxRequests
  BY BoundAssumption DEF CreateCalendar, Start, TypeOK
<1>3. CASE CalendarsAt(cp) = {}
  <2>1. /\ calendars' = Insert(calendars, nextCal, [user |-> u, path |-> cp, token |-> 0])
        /\ nextCal' = nextCal + 1
    BY <1>3 DEF CreateCalendar
  <2>2. [user |-> u, path |-> cp, token |-> 0] \in CalendarRow
    BY DEF CalendarRow
  <2>3. /\ DOMAIN calendars' = Live \cup {nextCal}
        /\ \A c \in DOMAIN calendars' : calendars'[c] \in CalendarRow
    BY <2>1, <2>2 DEF TypeOK, Live, Insert
  <2>. QED  BY <1>1, <1>2, <2>1, <2>3 DEF TypeOK, CreateCalendar, Requests, Live
<1>4. CASE CalendarsAt(cp) # {}
  BY <1>1, <1>2, <1>4 DEF TypeOK, CreateCalendar, Requests
<1>. QED  BY <1>3, <1>4

LEMMA DeleteCalendarType ==
    ASSUME TypeOK, NEW p \in Procs, NEW u \in Users, NEW cp \in CalPaths,
           NEW conn \in Conns, DeleteCalendar(p, u, cp, conn)
    PROVE  TypeOK'
<1>1. req' \in [Procs -> Requests]
  BY FinishType DEF DeleteCalendar, Committed, Answers
<1>2. issued' \in 0 .. MaxRequests
  BY BoundAssumption DEF DeleteCalendar, Start, TypeOK
<1>3. CASE UNCHANGED <<calendars, objects, changes>>
  BY <1>1, <1>2, <1>3 DEF TypeOK, DeleteCalendar, Requests
<1>4. CASE \E c \in Live : /\ calendars' = Restrict(calendars, Live \ {c})
                           /\ Cascade(c, conn)
  <2>1. PICK c \in Live : /\ calendars' = Restrict(calendars, Live \ {c})
                          /\ Cascade(c, conn)
    BY <1>4
  <2>2. /\ DOMAIN calendars' \subseteq 1 .. nextCal - 1
        /\ \A k \in DOMAIN calendars' : calendars'[k] \in CalendarRow
    BY <2>1, RestrictRows DEF TypeOK, Live
  <2>3. /\ DOMAIN objects' \subseteq 1 .. nextRow - 1
        /\ \A o \in DOMAIN objects' : objects'[o] \in ObjectRow
        /\ changes' \subseteq Change
    BY <2>1, RestrictRows DEF TypeOK, Cascade
  <2>. QED  BY <1>1, <1>2, <2>2, <2>3 DEF TypeOK, DeleteCalendar, Requests
<1>. QED  BY <1>3, <1>4 DEF DeleteCalendar, CalendarsAt

LEMMA PutFindCalendarType ==
    ASSUME TypeOK, NEW p \in Procs, NEW u \in Users, NEW op \in ObjPaths,
           NEW d \in Data, NEW cond \in Conds, PutFindCalendar(p, u, op, d, cond)
    PROVE  TypeOK'
<1>1. req' \in [Procs -> Requests]
  <2>1. CASE \E status \in Answers : Finish(p, status)
    BY <2>1, FinishType
  <2>2. CASE \E c \in Live : req' = [req EXCEPT ![p] =
                      [pc |-> "find", user |-> u, path |-> op, data |-> d,
                       cond |-> cond, cal |-> c, row |-> NoRow]]
    BY <2>2 DEF TypeOK, Live, Requests, PutRequest, NoRow
  <2>. QED  BY <2>1, <2>2 DEF PutFindCalendar, CalendarsAt, Answers
<1>2. issued' \in 0 .. MaxRequests
  BY BoundAssumption DEF PutFindCalendar, Start, TypeOK
<1>. QED  BY <1>1, <1>2 DEF TypeOK, PutFindCalendar, tables, Requests

LEMMA PutFindExistingType ==
    ASSUME TypeOK, NEW p \in Procs, PutFindExisting(p)
    PROVE  TypeOK'
<1>1. req' \in [Procs -> Requests]
  <2>1. CASE Finish(p, "precondition")
    BY <2>1, FinishType DEF Answers
  <2>2. CASE \E row \in Nat : req' = [req EXCEPT ![p].pc = "commit", ![p].row = row]
    <3>1. req[p] \in PutRequest
      BY RequestShapes DEF PutFindExisting
    <3>2. PICK row \in Nat : req' = [req EXCEPT ![p].pc = "commit", ![p].row = row]
      BY <2>2
    <3>3. [req[p] EXCEPT !.pc = "commit", !.row = row] \in PutRequest
      BY <3>1 DEF PutRequest
    <3>. QED  BY <3>2, <3>3 DEF TypeOK, Requests
  <2>3. \A o \in RowsAt(req[p].path) : o \in Nat
    BY DEF TypeOK, RowsAt
  <2>. QED  BY <2>1, <2>2, <2>3 DEF PutFindExisting, NoRow
<1>. QED  BY <1>1 DEF TypeOK, PutFindExisting, tables, Requests

\* Recording a change keeps the types of both tables.
LEMMA RecordChangeType ==
    ASSUME TypeOK, NEW c \in Live, NEW op \in ObjPaths,
           NEW type \in {"created", "modified", "deleted"},
           RecordChange(c, op, type)
    PROVE  /\ DOMAIN calendars' = Live
           /\ \A k \in Live : calendars'[k] \in CalendarRow
           /\ changes' \subseteq Change
<1>1. calendars[c] \in CalendarRow /\ c \in Nat \ {0}
  BY DEF TypeOK, Live
<1>2. calendars[c].token + 1 \in Nat \ {0}
  BY <1>1 DEF CalendarRow
<1>3. [calendars[c] EXCEPT !.token = @ + 1] \in CalendarRow
  BY <1>1, <1>2 DEF CalendarRow
<1>4. [cal |-> c, path |-> op, type |-> type, token |-> calendars[c].token + 1] \in Change
  BY <1>1, <1>2 DEF Change
<1>. QED  BY <1>3, <1>4 DEF TypeOK, RecordChange, Live

\* Writing the row of a request keeps the type of the table.
LEMMA WriteRowType ==
    ASSUME TypeOK, NEW r \in PutRequest, WriteRow(r)
    PROVE  /\ DOMAIN objects' \subseteq 1 .. nextRow' - 1
           /\ \A o \in DOMAIN objects' : objects'[o] \in ObjectRow
           /\ nextRow' \in Nat \ {0}
<1>1. CASE r.row = NoRow
  <2>1. [cal |-> r.cal, path |-> r.path, data |-> r.data] \in ObjectRow
    BY DEF PutRequest, ObjectRow
  <2>2. /\ objects' = Insert(objects, nextRow,
                             [cal |-> r.cal, path |-> r.path, data |-> r.data])
        /\ nextRow' = nextRow + 1
    BY <1>1 DEF WriteRow
  <2>3. /\ DOMAIN objects' = DOMAIN objects \cup {nextRow}
        /\ \A o \in DOMAIN objects' : objects'[o] \in ObjectRow
    BY <2>1, <2>2 DEF TypeOK, Insert
  <2>. QED  BY <2>2, <2>3 DEF TypeOK
<1>2. CASE r.row # NoRow
  <2>1. \A o \in DOMAIN objects : [objects[o] EXCEPT !.data = r.data] \in ObjectRow
    BY DEF TypeOK, ObjectRow, PutRequest
  <2>. QED  BY <1>2, <2>1 DEF TypeOK, WriteRow
<1>. QED  BY <1>1, <1>2

LEMMA PutCommitType ==
    ASSUME TypeOK, NEW p \in Procs, PutCommit(p)
    PROVE  TypeOK'
<1>1. req' \in [Procs -> Requests]
  BY FinishType DEF PutCommit, Committed, Answers
<1>2. req[p] \in PutRequest
  BY RequestShapes DEF PutCommit
<1>3. CASE UNCHANGED <<calendars, objects, changes, nextRow>>
  BY <1>1, <1>3 DEF TypeOK, PutCommit, Requests
<1>4. CASE /\ Commits(req[p])
           /\ WriteRow(req[p])
           /\ RecordChange(req[p].cal, req[p].path,
                           IF req[p].row = NoRow THEN "created" ELSE "modified")
  <2>1. req[p].cal \in Live /\ req[p].path \in ObjPaths
    BY <1>2, <1>4 DEF Commits, PutRequest
  <2>2. /\ DOMAIN calendars' = Live
        /\ \A k \in Live : calendars'[k] \in CalendarRow
        /\ changes' \subseteq Change
    BY <1>4, <2>1, RecordChangeType
  <2>3. /\ DOMAIN objects' \subseteq 1 .. nextRow' - 1
        /\ \A o \in DOMAIN objects' : objects'[o] \in ObjectRow
        /\ nextRow' \in Nat \ {0}
    BY <1>2, <1>4, WriteRowType
  <2>. QED  BY <1>1, <2>2, <2>3 DEF TypeOK, PutCommit, Requests, Live
<1>. QED  BY <1>3, <1>4 DEF PutCommit

LEMMA DeleteFindCalendarType ==
    ASSUME TypeOK, NEW p \in Procs, NEW u \in Users, NEW op \in ObjPaths,
           DeleteFindCalendar(p, u, op)
    PROVE  TypeOK'
<1>1. req' \in [Procs -> Requests]
  <2>1. CASE \E status \in Answers : Finish(p, status)
    BY <2>1, FinishType
  <2>2. CASE \E c \in Live : req' = [req EXCEPT ![p] =
                      [pc |-> "delete", user |-> u, path |-> op, cal |-> c]]
    BY <2>2 DEF TypeOK, Live, Requests, DelRequest
  <2>. QED  BY <2>1, <2>2 DEF DeleteFindCalendar, CalendarsAt, Answers
<1>2. issued' \in 0 .. MaxRequests
  BY BoundAssumption DEF DeleteFindCalendar, Start, TypeOK
<1>. QED  BY <1>1, <1>2 DEF TypeOK, DeleteFindCalendar, tables, Requests

LEMMA DeleteCommitType ==
    ASSUME TypeOK, NEW p \in Procs, DeleteCommit(p)
    PROVE  TypeOK'
<1> DEFINE c    == req[p].cal
           gone == RowsAt(req[p].path) \cap RowsOf(c)
<1>1. req' \in [Procs -> Requests]
  BY FinishType DEF DeleteCommit, Committed, Answers
<1>2. CASE UNCHANGED <<calendars, objects, changes>>
  BY <1>1, <1>2 DEF TypeOK, DeleteCommit, Requests
<1>3. CASE /\ c \in Live
           /\ objects' = Restrict(objects, DOMAIN objects \ gone)
           /\ RecordChange(c, req[p].path, "deleted")
  <2>1. req[p].path \in ObjPaths
    BY RequestShapes DEF DeleteCommit, DelRequest
  <2>2. /\ DOMAIN calendars' = Live
        /\ \A k \in Live : calendars'[k] \in CalendarRow
        /\ changes' \subseteq Change
    BY <1>3, <2>1, RecordChangeType
  <2>3. /\ DOMAIN objects' \subseteq 1 .. nextRow - 1
        /\ \A o \in DOMAIN objects' : objects'[o] \in ObjectRow
    BY <1>3, RestrictRows DEF TypeOK
  <2>. QED  BY <1>1, <2>2, <2>3 DEF TypeOK, DeleteCommit, Requests, Live
<1>. QED  BY <1>2, <1>3 DEF DeleteCommit

LEMMA FailType ==
    ASSUME TypeOK, NEW p \in Procs, Fail(p)
    PROVE  TypeOK'
<1>1. req' \in [Procs -> Requests]
  BY FinishType DEF Fail, Answers
<1>2. issued' \in 0 .. MaxRequests
  BY BoundAssumption DEF Fail, Start, TypeOK
<1>. QED  BY <1>1, <1>2 DEF TypeOK, Fail, tables, Requests

LEMMA InitType == Init => TypeOK
<1>1. \A p \in Procs : [pc |-> "idle", status |-> "none"] \in Idle
  BY DEF Idle, Answers
<1>. QED  BY <1>1, BoundAssumption DEF Init, TypeOK, EmptyTable

LEMMA NextType == TypeOK /\ [Next]_vars => TypeOK'
<1> SUFFICES ASSUME TypeOK, [Next]_vars PROVE TypeOK'
  OBVIOUS
<1>1. CASE UNCHANGED vars
  BY <1>1 DEF vars, TypeOK
<1>2. CASE Next
  <2>. PICK p \in Procs :
        \/ \E u \in Users, cp \in CalPaths : CreateCalendar(p, u, cp)
        \/ \E u \in Users, cp \in CalPaths, conn \in Conns :
              DeleteCalendar(p, u, cp, conn)
        \/ \E u \in Users, op \in ObjPaths, d \in Data, cond \in Conds :
              PutFindCalendar(p, u, op, d, cond)
        \/ PutFindExisting(p)
        \/ PutCommit(p)
        \/ \E u \in Users, op \in ObjPaths : DeleteFindCalendar(p, u, op)
        \/ DeleteCommit(p)
        \/ Fail(p)
    BY <1>2 DEF Next
  <2>. QED  BY CreateCalendarType, DeleteCalendarType, PutFindCalendarType,
               PutFindExistingType, PutCommitType, DeleteFindCalendarType,
               DeleteCommitType, FailType
<1>. QED  BY <1>1, <1>2

\* Every variable of the store keeps its type; in particular the ids of rows are
\* below the AUTOINCREMENT counters, so that an id is never used twice.
THEOREM TypeCorrect == Spec => []TypeOK
  BY InitType, NextType, PTL DEF Spec

-----------------------------------------------------------------------------
(* What a step can do to the tables: nothing, insert a calendar, delete    *)
(* one, or commit the transaction of a PUT or of a DELETE.                 *)

CreateEffect(u, cp) ==
    /\ CalendarsAt(cp) = {}
    /\ calendars' = Insert(calendars, nextCal, [user |-> u, path |-> cp, token |-> 0])
    /\ nextCal' = nextCal + 1
    /\ UNCHANGED <<objects, changes, nextRow>>

DropEffect(c, conn) ==
    /\ c \in Live
    /\ calendars' = Restrict(calendars, Live \ {c})
    /\ Cascade(c, conn)
    /\ UNCHANGED <<nextCal, nextRow>>

PutEffect(r) ==
    /\ Commits(r)
    /\ WriteRow(r)
    /\ RecordChange(r.cal, r.path, IF r.row = NoRow THEN "created" ELSE "modified")
    /\ UNCHANGED nextCal

DeleteEffect(r) ==
    /\ r.cal \in Live
    /\ RowsAt(r.path) \cap RowsOf(r.cal) # {}
    /\ objects' = Restrict(objects, DOMAIN objects \ (RowsAt(r.path) \cap RowsOf(r.cal)))
    /\ RecordChange(r.cal, r.path, "deleted")
    /\ UNCHANGED <<nextCal, nextRow>>

TableStep ==
    \/ UNCHANGED tables
    \/ \E u \in Users, cp \in CalPaths : CreateEffect(u, cp)
    \/ \E c \in Live, conn \in Conns : DropEffect(c, conn)
    \/ \E p \in Procs : /\ req[p].pc = "commit" /\ PutEffect(req[p])
                       /\ \E status : Finish(p, status)
    \/ \E p \in Procs : /\ req[p].pc = "delete" /\ DeleteEffect(req[p])
                       /\ \E status : Finish(p, status)

LEMMA StepsOfTables == [Next]_vars => TableStep
<1> SUFFICES ASSUME [Next]_vars PROVE TableStep
  OBVIOUS
<1>1. CASE UNCHANGED vars
  BY <1>1 DEF vars, tables, TableStep
<1>2. ASSUME NEW p \in Procs, NEW u \in Users, NEW cp \in CalPaths,
             CreateCalendar(p, u, cp)
      PROVE  TableStep
  BY <1>2 DEF CreateCalendar, TableStep, CreateEffect, tables
<1>3. ASSUME NEW p \in Procs, NEW u \in Users, NEW cp \in CalPaths,
             NEW conn \in Conns, DeleteCalendar(p, u, cp, conn)
      PROVE  TableStep
  BY <1>3 DEF DeleteCalendar, TableStep, DropEffect, tables, CalendarsAt
<1>4. ASSUME NEW p \in Procs,
             \/ \E u \in Users, op \in ObjPaths, d \in Data, cond \in Conds :
                   PutFindCalendar(p, u, op, d, cond)
             \/ PutFindExisting(p)
             \/ \E u \in Users, op \in ObjPaths : DeleteFindCalendar(p, u, op)
             \/ Fail(p)
      PROVE  TableStep
  BY <1>4 DEF PutFindCalendar, PutFindExisting, DeleteFindCalendar, Fail, TableStep
<1>5. ASSUME NEW p \in Procs, PutCommit(p)
      PROVE  TableStep
  BY <1>5 DEF PutCommit, Committed, TableStep, PutEffect, tables
<1>6. ASSUME NEW p \in Procs, DeleteCommit(p)
      PROVE  TableStep
  BY <1>6 DEF DeleteCommit, Committed, TableStep, DeleteEffect, tables
<1>. QED  BY <1>1, <1>2, <1>3, <1>4, <1>5, <1>6 DEF Next

\* A commit only happens for a request that has looked its calendar up.
LEMMA RequestTypes ==
    ASSUME TypeOK, NEW p \in Procs
    PROVE  /\ req[p].pc = "commit" =>
                 /\ req[p] \in PutRequest
                 /\ req[p].cal \in Nat \ {0} /\ req[p].row \in Nat
                 /\ req[p].path \in ObjPaths /\ req[p].data \in Data
           /\ req[p].pc = "delete" =>
                 req[p].cal \in Nat \ {0} /\ req[p].path \in ObjPaths
  BY RequestShapes DEF PutRequest, DelRequest

-----------------------------------------------------------------------------
(* The tables only grow new ids, and a row keeps its calendar and path.    *)

CalendarsEvolve ==
    /\ nextCal' \in Nat /\ nextCal' >= nextCal
    /\ \A c \in Live' :
          \/ /\ c \in Live
             /\ calendars'[c].user = calendars[c].user
             /\ calendars'[c].path = calendars[c].path
          \/ c >= nextCal

ObjectsEvolve ==
    /\ nextRow' \in Nat /\ nextRow' >= nextRow
    /\ \A o \in DOMAIN objects' :
          \/ /\ o \in DOMAIN objects
             /\ objects'[o].cal = objects[o].cal
             /\ objects'[o].path = objects[o].path
          \/ o >= nextRow

LEMMA RecordChangeCalendars ==
    ASSUME TypeOK, NEW c \in Live, NEW op, NEW type, RecordChange(c, op, type)
    PROVE  /\ Live' = Live
           /\ \A k \in Live : /\ calendars'[k].user = calendars[k].user
                              /\ calendars'[k].path = calendars[k].path
                              /\ calendars'[k].token =
                                    IF k = c THEN calendars[k].token + 1
                                             ELSE calendars[k].token
           /\ \A k \in Live : calendars[k].token \in Nat
<1>1. \A k \in Live : calendars[k] \in CalendarRow
  BY DEF TypeOK, Live
<1>. QED  BY <1>1 DEF RecordChange, Live, CalendarRow

LEMMA WriteRowObjects ==
    ASSUME TypeOK, NEW r \in PutRequest, WriteRow(r)
    PROVE  /\ ObjectsEvolve
           /\ r.row = NoRow =>
                 /\ DOMAIN objects' = DOMAIN objects \cup {nextRow}
                 /\ objects'[nextRow] =
                       [cal |-> r.cal, path |-> r.path, data |-> r.data]
                 /\ \A o \in DOMAIN objects : objects'[o] = objects[o]
           /\ r.row # NoRow =>
                 /\ DOMAIN objects' = DOMAIN objects
                 /\ \A o \in DOMAIN objects :
                       /\ o # r.row => objects'[o] = objects[o]
                       /\ o = r.row => objects'[o] = [objects[o] EXCEPT !.data = r.data]
<1>1. \A o \in DOMAIN objects : objects[o] \in ObjectRow /\ o \in Nat /\ o < nextRow
  BY DEF TypeOK
<1>2. nextRow \in Nat
  BY DEF TypeOK
<1>3. CASE r.row = NoRow
  BY <1>1, <1>2, <1>3 DEF WriteRow, Insert, ObjectsEvolve
<1>4. CASE r.row # NoRow
  <2>1. /\ DOMAIN objects' = DOMAIN objects
        /\ nextRow' = nextRow
        /\ \A o \in DOMAIN objects :
              /\ o # r.row => objects'[o] = objects[o]
              /\ o = r.row => objects'[o] = [objects[o] EXCEPT !.data = r.data]
    BY <1>4 DEF WriteRow
  <2>2. ObjectsEvolve
    BY <1>1, <1>2, <2>1 DEF ObjectsEvolve, ObjectRow
  <2>. QED  BY <1>4, <2>1, <2>2
<1>. QED  BY <1>3, <1>4

LEMMA TablesEvolve ==
    ASSUME TypeOK, TableStep
    PROVE  CalendarsEvolve /\ ObjectsEvolve
<1>1. nextCal \in Nat /\ nextRow \in Nat
  BY DEF TypeOK
<1>2. CASE UNCHANGED tables
  BY <1>1, <1>2 DEF tables, CalendarsEvolve, ObjectsEvolve, Live
<1>3. ASSUME NEW u \in Users, NEW cp \in CalPaths, CreateEffect(u, cp)
      PROVE  CalendarsEvolve /\ ObjectsEvolve
  BY <1>1, <1>3 DEF CreateEffect, CalendarsEvolve, ObjectsEvolve, Live, Insert
<1>4. ASSUME NEW c \in Live, NEW conn \in Conns, DropEffect(c, conn)
      PROVE  CalendarsEvolve /\ ObjectsEvolve
  BY <1>1, <1>4 DEF DropEffect, Cascade, CalendarsEvolve, ObjectsEvolve, Live, Restrict
<1>5. ASSUME NEW p \in Procs, req[p].pc = "commit", PutEffect(req[p])
      PROVE  CalendarsEvolve /\ ObjectsEvolve
  <2>1. req[p].cal \in Live
    BY <1>5 DEF PutEffect, Commits
  <2>2. CalendarsEvolve
    BY <1>1, <1>5, <2>1, RecordChangeCalendars DEF PutEffect, CalendarsEvolve
  <2>3. ObjectsEvolve
    BY <1>5, RequestTypes, WriteRowObjects DEF PutEffect
  <2>. QED  BY <2>2, <2>3
<1>6. ASSUME NEW p \in Procs, req[p].pc = "delete", DeleteEffect(req[p])
      PROVE  CalendarsEvolve /\ ObjectsEvolve
  <2>1. CalendarsEvolve
    BY <1>1, <1>6, RecordChangeCalendars DEF DeleteEffect, CalendarsEvolve
  <2>2. ObjectsEvolve
    BY <1>1, <1>6 DEF DeleteEffect, ObjectsEvolve, Restrict
  <2>. QED  BY <2>1, <2>2
<1>. QED  BY <1>2, <1>3, <1>4, <1>5, <1>6 DEF TableStep

-----------------------------------------------------------------------------
(* What a request has looked up stays true of it.                          *)

LEMMA FoundCalendarStable ==
    ASSUME TypeOK, CalendarsEvolve, NEW r, r.cal \in Nat, FoundCalendar(r)
    PROVE  /\ r.cal < nextCal'
           /\ r.cal \in Live' => /\ calendars'[r.cal].user = r.user
                                 /\ calendars'[r.cal].path = CalOf[r.path]
  BY DEF TypeOK, CalendarsEvolve, FoundCalendar

LEMMA FoundRowStable ==
    ASSUME TypeOK, ObjectsEvolve, NEW r, r.row \in Nat, FoundRow(r)
    PROVE  /\ r.row < nextRow'
           /\ r.row \in DOMAIN objects' => objects'[r.row].path = r.path
           /\ r.cond.ifNoneMatch = Wildcard => r.row = NoRow
  BY DEF TypeOK, ObjectsEvolve, FoundRow

\* The goal for one goroutine.
Holds(p) == /\ req[p].pc # "idle" => FoundCalendar(req[p])
            /\ req[p].pc = "commit" => FoundRow(req[p])

LEMMA RequestUntouched ==
    ASSUME TypeOK, TableStep, NEW q \in Procs, Holds(q), req'[q] = req[q]
    PROVE  Holds(q)'
<1>1. CalendarsEvolve /\ ObjectsEvolve
  BY TablesEvolve
<1>2. ASSUME req[q].pc # "idle"
      PROVE  FoundCalendar(req[q])'
  <2>1. req[q].cal \in Nat
    BY <1>2 DEF TypeOK, Idle, PutRequest, DelRequest
  <2>. QED  BY <1>1, <1>2, <2>1, FoundCalendarStable DEF Holds, FoundCalendar, Live
<1>3. ASSUME req[q].pc = "commit"
      PROVE  FoundRow(req[q])'
  BY <1>1, <1>3, RequestTypes, FoundRowStable DEF Holds, FoundRow
<1>. QED  BY <1>2, <1>3 DEF Holds

LEMMA RequestAnswered ==
    ASSUME TypeOK, NEW p \in Procs, NEW status, Finish(p, status)
    PROVE  Holds(p)' /\ \A q \in Procs \ {p} : req'[q] = req[q]
  BY DEF TypeOK, Finish, Holds

\* SELECT id, user_id FROM calendars: the row found satisfies FoundCalendar.
LEMMA CalendarLookedUp ==
    ASSUME TypeOK, NEW p \in Procs, NEW u, NEW op, NEW c \in Live,
           calendars[c].user = u, calendars[c].path = CalOf[op], UNCHANGED tables,
           req'[p].cal = c, req'[p].user = u, req'[p].path = op, req'[p].pc # "commit"
    PROVE  Holds(p)'
<1>1. c < nextCal' /\ c \in Live' /\ calendars'[c] = calendars[c]
  BY DEF TypeOK, Live, tables
<1>. QED  BY <1>1 DEF Holds, FoundCalendar, Live

LEMMA NextRequests ==
    ASSUME TypeOK, RequestsStillHold, [Next]_vars
    PROVE  RequestsStillHold'
<1>1. TableStep
  BY StepsOfTables
<1>2. \A q \in Procs : Holds(q)
  BY DEF RequestsStillHold, Holds
<1>3. SUFFICES \A q \in Procs : Holds(q)'
  BY DEF RequestsStillHold, Holds
<1>4. CASE UNCHANGED vars
  <2>1. \A q \in Procs : req'[q] = req[q]
    BY <1>4 DEF vars
  <2>. QED  BY <1>1, <1>2, <2>1, RequestUntouched
<1>5. ASSUME NEW p \in Procs,
             Holds(p)' /\ \A q \in Procs \ {p} : req'[q] = req[q]
      PROVE  \A q \in Procs : Holds(q)'
  BY <1>1, <1>2, <1>5, RequestUntouched
<1>6. ASSUME NEW p \in Procs, NEW status, Finish(p, status)
      PROVE  \A q \in Procs : Holds(q)'
  BY <1>5, <1>6, RequestAnswered
<1>7. ASSUME NEW p \in Procs, NEW u \in Users, NEW op \in ObjPaths, NEW d \in Data,
             NEW cond \in Conds, PutFindCalendar(p, u, op, d, cond)
      PROVE  \A q \in Procs : Holds(q)'
  <2>1. CASE \E status : Finish(p, status)
    BY <1>6, <2>1
  <2>2. CASE \E c \in CalendarsAt(CalOf[op]) :
                /\ Owns(c, u)
                /\ req' = [req EXCEPT ![p] =
                      [pc |-> "find", user |-> u, path |-> op, data |-> d,
                       cond |-> cond, cal |-> c, row |-> NoRow]]
    <3>1. PICK c \in CalendarsAt(CalOf[op]) :
                /\ Owns(c, u)
                /\ req' = [req EXCEPT ![p] =
                      [pc |-> "find", user |-> u, path |-> op, data |-> d,
                       cond |-> cond, cal |-> c, row |-> NoRow]]
      BY <2>2
    <3>2. /\ req'[p].cal = c /\ req'[p].user = u /\ req'[p].path = op
          /\ req'[p].pc # "commit"
          /\ \A q \in Procs \ {p} : req'[q] = req[q]
      BY <3>1 DEF TypeOK
    <3>3. UNCHANGED tables
      BY <1>7 DEF PutFindCalendar
    <3>4. c \in Live /\ calendars[c].user = u /\ calendars[c].path = CalOf[op]
      BY <3>1 DEF Owns, CalendarsAt
    <3>5. Holds(p)'
      BY <3>2, <3>3, <3>4, CalendarLookedUp
    <3>. QED  BY <1>5, <3>2, <3>5
  <2>. QED  BY <1>7, <2>1, <2>2 DEF PutFindCalendar
<1>8. ASSUME NEW p \in Procs, NEW u \in Users, NEW op \in ObjPaths,
             DeleteFindCalendar(p, u, op)
      PROVE  \A q \in Procs : Holds(q)'
  <2>1. CASE \E status : Finish(p, status)
    BY <1>6, <2>1
  <2>2. CASE \E c \in CalendarsAt(CalOf[op]) :
                /\ Owns(c, u)
                /\ req' = [req EXCEPT ![p] =
                      [pc |-> "delete", user |-> u, path |-> op, cal |-> c]]
    <3>1. PICK c \in CalendarsAt(CalOf[op]) :
                /\ Owns(c, u)
                /\ req' = [req EXCEPT ![p] =
                      [pc |-> "delete", user |-> u, path |-> op, cal |-> c]]
      BY <2>2
    <3>2. /\ req'[p].cal = c /\ req'[p].user = u /\ req'[p].path = op
          /\ req'[p].pc # "commit"
          /\ \A q \in Procs \ {p} : req'[q] = req[q]
      BY <3>1 DEF TypeOK
    <3>3. UNCHANGED tables
      BY <1>8 DEF DeleteFindCalendar
    <3>4. c \in Live /\ calendars[c].user = u /\ calendars[c].path = CalOf[op]
      BY <3>1 DEF Owns, CalendarsAt
    <3>5. Holds(p)'
      BY <3>2, <3>3, <3>4, CalendarLookedUp
    <3>. QED  BY <1>5, <3>2, <3>5
  <2>. QED  BY <1>8, <2>1, <2>2 DEF DeleteFindCalendar
<1>9. ASSUME NEW p \in Procs, PutFindExisting(p)
      PROVE  \A q \in Procs : Holds(q)'
  <2> DEFINE found == RowsAt(req[p].path)
             etags == {objects[o].data : o \in found}
  <2>1. CASE Finish(p, "precondition")
    BY <1>6, <2>1
  <2>2. CASE /\ ~Refused(req[p].cond, etags)
             /\ \E row \in IF found = {} THEN {NoRow} ELSE found :
                   req' = [req EXCEPT ![p].pc = "commit", ![p].row = row]
    <3>1. PICK row \in IF found = {} THEN {NoRow} ELSE found :
             req' = [req EXCEPT ![p].pc = "commit", ![p].row = row]
      BY <2>2
    <3>2. req[p] \in PutRequest /\ req[p].pc = "find"
      BY <1>9, RequestShapes DEF PutFindExisting
    <3>3. /\ req'[p] = [req[p] EXCEPT !.pc = "commit", !.row = row]
          /\ \A q \in Procs \ {p} : req'[q] = req[q]
      BY <3>1 DEF TypeOK
    <3>4. /\ req'[p].cal = req[p].cal /\ req'[p].user = req[p].user
          /\ req'[p].path = req[p].path /\ req'[p].cond = req[p].cond
          /\ req'[p].pc = "commit" /\ req'[p].row = row
      BY <3>2, <3>3 DEF PutRequest
    <3>5. UNCHANGED tables
      BY <1>9 DEF PutFindExisting
    <3>6. FoundCalendar(req[p])
      BY <1>2, <3>2 DEF Holds
    <3>7. /\ row < nextRow
          /\ row \in DOMAIN objects => objects[row].path = req[p].path
      BY <3>1 DEF TypeOK, RowsAt, NoRow
    <3>8. req[p].cond.ifNoneMatch = Wildcard => row = NoRow
      <4>1. req[p].cond.ifNoneMatch = Wildcard => found = {}
        BY <2>2, HeaderAssumption DEF Refused, Matches
      <4>. QED  BY <3>1, <4>1
    <3>9. FoundCalendar(req[p])' /\ FoundRow(req[p])'
      BY <3>4, <3>5, <3>6, <3>7, <3>8 DEF FoundCalendar, FoundRow, tables, Live
    <3>. QED  BY <1>5, <3>3, <3>9 DEF Holds
  <2>. QED  BY <1>9, <2>1, <2>2 DEF PutFindExisting
<1>10. CASE Next
  <2>1. ASSUME NEW p \in Procs,
               \/ \E u \in Users, cp \in CalPaths : CreateCalendar(p, u, cp)
               \/ \E u \in Users, cp \in CalPaths, conn \in Conns :
                     DeleteCalendar(p, u, cp, conn)
               \/ PutCommit(p) \/ DeleteCommit(p) \/ Fail(p)
        PROVE  \E status : Finish(p, status)
    BY <2>1 DEF CreateCalendar, DeleteCalendar, PutCommit, DeleteCommit, Fail,
                Committed
  <2>. QED  BY <1>6, <1>7, <1>8, <1>9, <1>10, <2>1 DEF Next
<1>. QED  BY <1>4, <1>10

-----------------------------------------------------------------------------
(* The paths and the ids of the tables.                                    *)

LEMMA UniquePathsStep ==
    ASSUME TypeOK, UniquePaths, TableStep
    PROVE  UniquePaths'
<1>1. CASE UNCHANGED tables
  BY <1>1 DEF tables, UniquePaths, Live
<1>2. ASSUME NEW u \in Users, NEW cp \in CalPaths, CreateEffect(u, cp)
      PROVE  UniquePaths'
  BY <1>2 DEF TypeOK, CreateEffect, UniquePaths, Live, Insert, CalendarsAt
<1>3. ASSUME NEW c \in Live, NEW conn \in Conns, DropEffect(c, conn)
      PROVE  UniquePaths'
  BY <1>3 DEF DropEffect, Cascade, UniquePaths, Live, Restrict
<1>4. ASSUME NEW p \in Procs, req[p].pc = "commit", PutEffect(req[p])
      PROVE  UniquePaths'
  <2> DEFINE r == req[p]
  <2>1. r \in PutRequest /\ r.cal \in Live
    BY <1>4, RequestTypes DEF PutEffect, Commits
  <2>2. \A c, k \in Live' : calendars'[c].path = calendars'[k].path => c = k
    BY <1>4, <2>1, RecordChangeCalendars DEF PutEffect, UniquePaths
  <2>3. \A o \in DOMAIN objects : objects[o] \in ObjectRow
    BY DEF TypeOK
  <2>4. CASE r.row = NoRow
    <3>1. /\ DOMAIN objects' = DOMAIN objects \cup {nextRow}
          /\ objects'[nextRow] = [cal |-> r.cal, path |-> r.path, data |-> r.data]
          /\ \A o \in DOMAIN objects : objects'[o] = objects[o]
      BY <1>4, <2>1, <2>4, WriteRowObjects DEF PutEffect
    <3>2. \A o \in DOMAIN objects : objects[o].path # r.path
      BY <1>4, <2>4 DEF PutEffect, Commits, PathFree, RowsAt
    <3>. QED  BY <2>2, <3>1, <3>2 DEF UniquePaths
  <2>5. CASE r.row # NoRow
    <3>1. /\ DOMAIN objects' = DOMAIN objects
          /\ \A o \in DOMAIN objects : objects'[o].path = objects[o].path
      BY <1>4, <2>1, <2>3, <2>5, WriteRowObjects DEF PutEffect, ObjectRow
    <3>. QED  BY <2>2, <3>1 DEF UniquePaths
  <2>. QED  BY <2>4, <2>5
<1>5. ASSUME NEW p \in Procs, req[p].pc = "delete", DeleteEffect(req[p])
      PROVE  UniquePaths'
  <2>1. \A c, k \in Live' : calendars'[c].path = calendars'[k].path => c = k
    BY <1>5, RecordChangeCalendars DEF DeleteEffect, UniquePaths
  <2>2. \A o, x \in DOMAIN objects' : objects'[o].path = objects'[x].path => o = x
    BY <1>5 DEF DeleteEffect, UniquePaths, Restrict
  <2>. QED  BY <2>1, <2>2 DEF UniquePaths
<1>. QED  BY <1>1, <1>2, <1>3, <1>4, <1>5 DEF TableStep

LEMMA RowsUnderTheirCalendarStep ==
    ASSUME TypeOK, RowsUnderTheirCalendar, RequestsStillHold, TableStep
    PROVE  RowsUnderTheirCalendar'
<1> USE DEF RowsUnderTheirCalendar
<1>1. CalendarsEvolve /\ ObjectsEvolve
  BY TablesEvolve
<1>2. \A o \in DOMAIN objects : objects[o].cal \in Nat
  BY DEF TypeOK, ObjectRow
<1>3. /\ nextCal \in Nat /\ nextRow \in Nat
      /\ \A o \in DOMAIN objects : o \in Nat /\ o < nextRow
  BY DEF TypeOK
<1>4. ASSUME NEW o \in DOMAIN objects', o \in DOMAIN objects
      PROVE  /\ objects'[o].cal < nextCal'
             /\ objects'[o].cal \in Live' =>
                   calendars'[objects'[o].cal].path = CalOf[objects'[o].path]
  <2>1. objects'[o].cal = objects[o].cal /\ objects'[o].path = objects[o].path
    BY <1>1, <1>3, <1>4 DEF ObjectsEvolve
  <2>. QED  BY <1>1, <1>2, <1>3, <1>4, <2>1 DEF CalendarsEvolve
<1>5. CASE DOMAIN objects' \subseteq DOMAIN objects
  BY <1>4, <1>5
<1>6. ASSUME NEW p \in Procs, req[p].pc = "commit", PutEffect(req[p]),
             req[p].row = NoRow
      PROVE  RowsUnderTheirCalendar'
  <2> DEFINE r == req[p]
  <2>1. r \in PutRequest /\ r.cal \in Live
    BY <1>6, RequestTypes DEF PutEffect, Commits
  <2>2. r.cal < nextCal /\ calendars[r.cal].path = CalOf[r.path]
    BY <1>6, <2>1 DEF RequestsStillHold, FoundCalendar
  <2>3. r.cal < nextCal' /\ calendars'[r.cal].path = CalOf[r.path]
    BY <1>6, <2>1, <2>2, RecordChangeCalendars DEF PutEffect
  <2>4. /\ DOMAIN objects' = DOMAIN objects \cup {nextRow}
        /\ objects'[nextRow] = [cal |-> r.cal, path |-> r.path, data |-> r.data]
    BY <1>6, <2>1, WriteRowObjects DEF PutEffect
  <2>. QED  BY <1>4, <2>3, <2>4
<1>7. ASSUME NEW p \in Procs, req[p].pc = "commit", PutEffect(req[p]),
             req[p].row # NoRow
      PROVE  DOMAIN objects' \subseteq DOMAIN objects
  BY <1>7, RequestTypes, WriteRowObjects DEF PutEffect
<1>. QED  BY <1>5, <1>6, <1>7
          DEF TableStep, tables, CreateEffect, DropEffect, Cascade, DeleteEffect, Restrict

\* The change that RecordChange adds.
Recorded(c, op, type) == [cal |-> c, path |-> op, type |-> type,
                          token |-> calendars[c].token + 1]

LEMMA ChangesOfUsedIdsStep ==
    ASSUME TypeOK, ChangesOfUsedIds, TableStep
    PROVE  ChangesOfUsedIds'
<1>1. nextCal \in Nat /\ \A c \in Live : c < nextCal
  BY DEF TypeOK, Live
<1>2. \A ch \in changes : ch.cal \in Nat
  BY DEF TypeOK, Change
<1>3. ASSUME NEW c \in Live, NEW op, NEW type, RecordChange(c, op, type),
             nextCal' = nextCal
      PROVE  ChangesOfUsedIds'
  BY <1>1, <1>3 DEF RecordChange, ChangesOfUsedIds
<1>4. CASE changes' \subseteq changes /\ nextCal' >= nextCal /\ nextCal' \in Nat
  BY <1>1, <1>2, <1>4 DEF ChangesOfUsedIds
<1>5. CASE UNCHANGED tables
  BY <1>1, <1>4, <1>5 DEF tables
<1>6. ASSUME NEW u \in Users, NEW cp \in CalPaths, CreateEffect(u, cp)
      PROVE  ChangesOfUsedIds'
  BY <1>1, <1>4, <1>6 DEF CreateEffect
<1>7. ASSUME NEW c \in Live, NEW conn \in Conns, DropEffect(c, conn)
      PROVE  ChangesOfUsedIds'
  BY <1>1, <1>4, <1>7 DEF DropEffect, Cascade
<1>8. ASSUME NEW p \in Procs, PutEffect(req[p])
      PROVE  ChangesOfUsedIds'
  BY <1>3, <1>8 DEF PutEffect, Commits
<1>9. ASSUME NEW p \in Procs, DeleteEffect(req[p])
      PROVE  ChangesOfUsedIds'
  BY <1>3, <1>9 DEF DeleteEffect
<1>. QED  BY <1>5, <1>6, <1>7, <1>8, <1>9 DEF TableStep

-----------------------------------------------------------------------------
(* The change log.                                                         *)

LEMMA RecordChangeLog ==
    ASSUME TypeOK, LogMatchesToken, NEW c \in Live, NEW op, NEW type,
           RecordChange(c, op, type)
    PROVE  LogMatchesToken'
<1> DEFINE new == Recorded(c, op, type)
           log(k) == {ch \in changes : ch.cal = k}
<1>1. /\ Live' = Live
      /\ changes' = changes \cup {new}
      /\ new.cal = c /\ new.token = calendars[c].token + 1
      /\ \A k \in Live : calendars[k].token \in Nat
      /\ calendars'[c].token = calendars[c].token + 1
      /\ \A k \in Live \ {c} : calendars'[k].token = calendars[k].token
  BY RecordChangeCalendars DEF RecordChange, Recorded
<1> HIDE DEF new
<1>2. \A k \in Live : /\ {ch.token : ch \in log(k)} = 1 .. calendars[k].token
                     /\ \A x, y \in log(k) : x.token = y.token => x = y
  BY DEF LogMatchesToken
<1>3. SUFFICES ASSUME NEW k \in Live
               PROVE  LET newLog == {ch \in changes' : ch.cal = k} IN
                      /\ {ch.token : ch \in newLog} = 1 .. calendars'[k].token
                      /\ \A x, y \in newLog : x.token = y.token => x = y
  BY <1>1 DEF LogMatchesToken
<1>4. CASE k # c
  <2>1. {ch \in changes' : ch.cal = k} = log(k)
    BY <1>1, <1>4
  <2>. QED  BY <1>1, <1>2, <1>4, <2>1
<1>5. CASE k = c
  <2>1. {ch \in changes' : ch.cal = k} = log(k) \cup {new}
    BY <1>1, <1>5
  <2>2. \A ch \in log(k) : ch.token \in 1 .. calendars[k].token
    BY <1>2
  <2>3. {ch.token : ch \in log(k) \cup {new}} = 1 .. calendars[k].token + 1
    <3>1. {ch.token : ch \in log(k) \cup {new}} = {ch.token : ch \in log(k)} \cup {new.token}
      OBVIOUS
    <3>2. (1 .. calendars[k].token) \cup {calendars[k].token + 1} = 1 .. calendars[k].token + 1
      BY <1>1
    <3>. QED  BY <1>1, <1>2, <1>5, <3>1, <3>2
  <2>4. \A x, y \in log(k) \cup {new} : x.token = y.token => x = y
    BY <1>1, <1>2, <1>5, <2>2
  <2>. QED  BY <1>1, <1>5, <2>1, <2>3, <2>4
<1>. QED  BY <1>4, <1>5

LEMMA LogMatchesTokenStep ==
    ASSUME TypeOK, ChangesOfUsedIds, LogMatchesToken, TableStep
    PROVE  LogMatchesToken'
<1>1. CASE UNCHANGED tables
  BY <1>1 DEF tables, LogMatchesToken, Live
<1>2. ASSUME NEW u \in Users, NEW cp \in CalPaths, CreateEffect(u, cp)
      PROVE  LogMatchesToken'
  <2>1. /\ Live' = Live \cup {nextCal}
        /\ calendars'[nextCal].token = 0
        /\ \A k \in Live : k # nextCal /\ calendars'[k] = calendars[k]
        /\ changes' = changes
    BY <1>2 DEF TypeOK, CreateEffect, Insert, Live
  <2>2. {ch \in changes : ch.cal = nextCal} = {}
    BY DEF ChangesOfUsedIds, TypeOK
  <2>3. 1 .. 0 = {}
    OBVIOUS
  <2>. QED  BY <2>1, <2>2, <2>3 DEF LogMatchesToken
<1>3. ASSUME NEW c \in Live, NEW conn \in Conns, DropEffect(c, conn)
      PROVE  LogMatchesToken'
  <2>1. Live' = Live \ {c} /\ \A k \in Live \ {c} : calendars'[k] = calendars[k]
    BY <1>3 DEF DropEffect, Live, Restrict
  <2>2. \A k \in Live \ {c} : {ch \in changes' : ch.cal = k} = {ch \in changes : ch.cal = k}
    BY <1>3 DEF DropEffect, Cascade
  <2>. QED  BY <2>1, <2>2 DEF LogMatchesToken
<1>4. ASSUME NEW p \in Procs, req[p].pc = "commit", PutEffect(req[p])
      PROVE  LogMatchesToken'
  BY <1>4, RecordChangeLog DEF PutEffect, Commits
<1>5. ASSUME NEW p \in Procs, req[p].pc = "delete", DeleteEffect(req[p])
      PROVE  LogMatchesToken'
  BY <1>5, RecordChangeLog DEF DeleteEffect
<1>. QED  BY <1>1, <1>2, <1>3, <1>4, <1>5 DEF TableStep

\* A change recorded under a fresh token is the latest of its path, and no other
\* path's latest change is affected.
LEMMA RecordChangeLatest ==
    ASSUME TypeOK, LogMatchesToken, NEW c \in Live, NEW op, NEW type,
           RecordChange(c, op, type), NEW new, new = Recorded(c, op, type)
    PROVE  /\ changes' = changes \cup {new}
           /\ IsLatest(new)'
           /\ \A ch \in changes :
                 /\ ch.cal # c \/ ch.path # op => (IsLatest(ch)' <=> IsLatest(ch))
                 /\ ch.cal = c /\ ch.path = op => ~IsLatest(ch)'
<1>1. /\ changes' = changes \cup {new}
      /\ new.cal = c /\ new.path = op /\ new.token = calendars[c].token + 1
      /\ calendars[c].token \in Nat
  BY RecordChangeCalendars DEF RecordChange, Recorded
<1>2. \A ch \in changes : ch.token \in Nat
  BY DEF TypeOK, Change
<1>3. \A ch \in changes : ch.cal = c => ch.token < new.token
  <2>1. {ch.token : ch \in {x \in changes : x.cal = c}} = 1 .. calendars[c].token
    BY DEF LogMatchesToken
  <2>2. \A ch \in changes : ch.cal = c => ch.token \in 1 .. calendars[c].token
    BY <2>1
  <2>. QED  BY <1>1, <2>2
<1>4. IsLatest(new)'
  BY <1>1, <1>2, <1>3 DEF IsLatest, ChangesAt
<1>5. ASSUME NEW ch \in changes, ch.cal # c \/ ch.path # op
      PROVE  IsLatest(ch)' <=> IsLatest(ch)
  <2>1. {d \in changes' : d.cal = ch.cal /\ d.path = ch.path}
          = {d \in changes : d.cal = ch.cal /\ d.path = ch.path}
    BY <1>1, <1>5
  <2>. QED  BY <2>1 DEF IsLatest, ChangesAt
<1>6. ASSUME NEW ch \in changes, ch.cal = c, ch.path = op
      PROVE  ~IsLatest(ch)'
  BY <1>1, <1>2, <1>3, <1>6 DEF IsLatest, ChangesAt
<1>. QED  BY <1>1, <1>4, <1>5, <1>6

LEMMA LatestExistsAfterWrite ==
    ASSUME TypeOK, LogMatchesToken, EveryPathHasLatest,
           NEW c \in Live, NEW op, NEW type, RecordChange(c, op, type)
    PROVE  EveryPathHasLatest'
<1>1. PICK new : new = Recorded(c, op, type)
  OBVIOUS
<1>2. new.cal = c /\ new.path = op /\ Live' = Live
  BY <1>1, RecordChangeCalendars DEF Recorded
<1>3. /\ changes' = changes \cup {new}
      /\ IsLatest(new)'
      /\ \A ch \in changes :
            ch.cal # c \/ ch.path # op => (IsLatest(ch)' <=> IsLatest(ch))
  BY <1>1, RecordChangeLatest
<1>4. ASSUME NEW ch \in changes', ch.cal \in Live
      PROVE  \E l \in changes' : l.cal = ch.cal /\ l.path = ch.path /\ IsLatest(l)'
  <2>1. CASE ch.cal = c /\ ch.path = op
    BY <1>2, <1>3, <2>1
  <2>2. CASE ch.cal # c \/ ch.path # op
    <3>1. ch \in changes
      BY <1>2, <1>3, <2>2
    <3>2. PICK l \in changes : l.cal = ch.cal /\ l.path = ch.path /\ IsLatest(l)
      BY <1>4, <3>1 DEF EveryPathHasLatest, ChangesAt
    <3>. QED  BY <1>3, <2>2, <3>2
  <2>. QED  BY <2>1, <2>2
<1>. QED  BY <1>2, <1>4 DEF EveryPathHasLatest, ChangesAt

LEMMA EveryPathHasLatestStep ==
    ASSUME TypeOK, ChangesOfUsedIds, LogMatchesToken, EveryPathHasLatest, TableStep
    PROVE  EveryPathHasLatest'
<1>1. CASE UNCHANGED tables
  BY <1>1 DEF tables, EveryPathHasLatest, Live, ChangesAt, IsLatest
<1>2. ASSUME NEW u \in Users, NEW cp \in CalPaths, CreateEffect(u, cp)
      PROVE  EveryPathHasLatest'
  <2>1. Live' = Live \cup {nextCal} /\ changes' = changes
    BY <1>2 DEF CreateEffect, Insert, Live
  <2>2. \A ch \in changes : ch.cal # nextCal
    BY DEF TypeOK, ChangesOfUsedIds
  <2>. QED  BY <2>1, <2>2 DEF EveryPathHasLatest, ChangesAt, IsLatest
<1>3. ASSUME NEW c \in Live, NEW conn \in Conns, DropEffect(c, conn)
      PROVE  EveryPathHasLatest'
  <2>1. Live' = Live \ {c}
    BY <1>3 DEF DropEffect, Live, Restrict
  <2>2. /\ changes' \subseteq changes
        /\ \A ch \in changes : ch.cal # c => ch \in changes'
    BY <1>3 DEF DropEffect, Cascade
  <2>3. \A ch \in changes : ch.cal # c => (IsLatest(ch)' <=> IsLatest(ch))
    BY <2>2 DEF IsLatest, ChangesAt
  <2>. QED  BY <2>1, <2>2, <2>3 DEF EveryPathHasLatest, ChangesAt
<1>4. ASSUME NEW p \in Procs, req[p].pc = "commit", PutEffect(req[p])
      PROVE  EveryPathHasLatest'
  BY <1>4, LatestExistsAfterWrite DEF PutEffect, Commits
<1>5. ASSUME NEW p \in Procs, req[p].pc = "delete", DeleteEffect(req[p])
      PROVE  EveryPathHasLatest'
  BY <1>5, LatestExistsAfterWrite DEF DeleteEffect
<1>. QED  BY <1>1, <1>2, <1>3, <1>4, <1>5 DEF TableStep

\* The latest changes are true after a transaction that records a change of one
\* path of calendar c if it leaves the rows of other paths where they are.
LEMMA LatestChangeAfterWrite ==
    ASSUME TypeOK, LogMatchesToken, LatestChangeIsTrue,
           NEW c \in Live, NEW op, NEW type, RecordChange(c, op, type),
           \A o \in DOMAIN objects' :
              \/ objects'[o].cal = c /\ objects'[o].path = op /\ type # "deleted"
              \/ /\ objects'[o].cal # c \/ objects'[o].path # op
                 /\ o \in DOMAIN objects
                 /\ objects'[o].cal = objects[o].cal
                 /\ objects'[o].path = objects[o].path,
           \A o \in DOMAIN objects : objects[o].cal # c \/ objects[o].path # op =>
              /\ o \in DOMAIN objects'
              /\ objects'[o].cal = objects[o].cal
              /\ objects'[o].path = objects[o].path,
           type = "created" =>
              \E o \in DOMAIN objects' : objects'[o].cal = c /\ objects'[o].path = op
    PROVE  LatestChangeIsTrue'
<1>1. PICK new : new = Recorded(c, op, type)
  OBVIOUS
<1>2. /\ new.cal = c /\ new.path = op /\ new.type = type
      /\ Live' = Live
  BY <1>1, RecordChangeCalendars DEF Recorded
<1>3. /\ changes' = changes \cup {new}
      /\ IsLatest(new)'
      /\ \A ch \in changes :
            /\ ch.cal # c \/ ch.path # op => (IsLatest(ch)' <=> IsLatest(ch))
            /\ ch.cal = c /\ ch.path = op => ~IsLatest(ch)'
  BY <1>1, RecordChangeLatest
<1>4. ASSUME NEW o \in DOMAIN objects', objects'[o].cal \in Live
      PROVE  \E ch \in changes' :
                /\ ch.cal = objects'[o].cal /\ ch.path = objects'[o].path
                /\ IsLatest(ch)' /\ ch.type # "deleted"
  <2>1. CASE objects'[o].cal = c /\ objects'[o].path = op /\ type # "deleted"
    BY <1>2, <1>3, <2>1
  <2>2. CASE /\ objects'[o].cal # c \/ objects'[o].path # op
             /\ o \in DOMAIN objects
             /\ objects'[o].cal = objects[o].cal
             /\ objects'[o].path = objects[o].path
    <3>1. PICK ch \in changes : /\ ch.cal = objects[o].cal /\ ch.path = objects[o].path
                                /\ IsLatest(ch) /\ ch.type # "deleted"
      BY <1>4, <2>2 DEF LatestChangeIsTrue, ChangesAt
    <3>. QED  BY <1>3, <2>2, <3>1
  <2>. QED  BY <2>1, <2>2
<1>5. ASSUME NEW ch \in changes', ch.cal \in Live, IsLatest(ch)', ch.type = "created"
      PROVE  \E o \in DOMAIN objects' :
                objects'[o].cal = ch.cal /\ objects'[o].path = ch.path
  <2>1. CASE ch = new
    BY <1>2, <1>5, <2>1
  <2>2. CASE ch \in changes
    <3>1. (ch.cal # c \/ ch.path # op) /\ IsLatest(ch)
      BY <1>3, <1>5, <2>2
    <3>2. PICK o \in DOMAIN objects : objects[o].cal = ch.cal /\ objects[o].path = ch.path
      BY <1>5, <2>2, <3>1 DEF LatestChangeIsTrue, RowsAt, RowsOf
    <3>. QED  BY <3>1, <3>2
  <2>. QED  BY <1>3, <1>5, <2>1, <2>2
<1>. QED  BY <1>2, <1>4, <1>5 DEF LatestChangeIsTrue, ChangesAt, RowsAt, RowsOf

LEMMA LatestChangeStep ==
    ASSUME TypeOK, RowsUnderTheirCalendar, ChangesOfUsedIds, LogMatchesToken,
           LatestChangeIsTrue, TableStep
    PROVE  LatestChangeIsTrue'
<1>1. CASE UNCHANGED tables
  BY <1>1 DEF tables, LatestChangeIsTrue, Live, ChangesAt, IsLatest, RowsAt, RowsOf
<1>2. ASSUME NEW u \in Users, NEW cp \in CalPaths, CreateEffect(u, cp)
      PROVE  LatestChangeIsTrue'
  <2>1. Live' = Live \cup {nextCal} /\ objects' = objects /\ changes' = changes
    BY <1>2 DEF CreateEffect, Insert, Live
  <2>2. /\ \A o \in DOMAIN objects : objects[o].cal # nextCal
        /\ \A ch \in changes : ch.cal # nextCal
    BY DEF TypeOK, RowsUnderTheirCalendar, ChangesOfUsedIds
  <2>. QED  BY <2>1, <2>2 DEF LatestChangeIsTrue, ChangesAt, IsLatest, RowsAt, RowsOf
<1>3. ASSUME NEW c \in Live, NEW conn \in Conns, DropEffect(c, conn)
      PROVE  LatestChangeIsTrue'
  <2>1. Live' = Live \ {c}
    BY <1>3 DEF DropEffect, Live, Restrict
  <2>2. /\ \A o \in DOMAIN objects' : o \in DOMAIN objects /\ objects'[o] = objects[o]
        /\ \A o \in DOMAIN objects : objects[o].cal # c => o \in DOMAIN objects'
        /\ changes' \subseteq changes
        /\ \A ch \in changes : ch.cal # c => ch \in changes'
    BY <1>3 DEF DropEffect, Cascade, Restrict, RowsOf
  <2>3. \A ch \in changes : ch.cal # c => (IsLatest(ch)' <=> IsLatest(ch))
    BY <2>2 DEF IsLatest, ChangesAt
  <2>4. ASSUME NEW o \in DOMAIN objects', objects'[o].cal \in Live'
        PROVE  \E ch \in changes' :
                  /\ ch.cal = objects'[o].cal /\ ch.path = objects'[o].path
                  /\ IsLatest(ch)' /\ ch.type # "deleted"
    <3>1. PICK ch \in changes : /\ ch.cal = objects[o].cal /\ ch.path = objects[o].path
                                /\ IsLatest(ch) /\ ch.type # "deleted"
      BY <2>1, <2>2, <2>4 DEF LatestChangeIsTrue, ChangesAt
    <3>. QED  BY <2>1, <2>2, <2>3, <2>4, <3>1
  <2>5. ASSUME NEW ch \in changes', ch.cal \in Live', IsLatest(ch)', ch.type = "created"
        PROVE  \E o \in DOMAIN objects' :
                  objects'[o].cal = ch.cal /\ objects'[o].path = ch.path
    <3>1. PICK o \in DOMAIN objects : objects[o].cal = ch.cal /\ objects[o].path = ch.path
      BY <2>1, <2>2, <2>3, <2>5 DEF LatestChangeIsTrue, RowsAt, RowsOf
    <3>. QED  BY <2>1, <2>2, <2>5, <3>1
  <2>. QED  BY <2>4, <2>5 DEF LatestChangeIsTrue, ChangesAt, RowsAt, RowsOf
<1>4. ASSUME NEW p \in Procs, req[p].pc = "commit", PutEffect(req[p])
      PROVE  LatestChangeIsTrue'
  <2> DEFINE r == req[p]
  <2>1. r \in PutRequest /\ r.cal \in Live
    BY <1>4, RequestTypes DEF PutEffect, Commits
  <2>2. CASE r.row = NoRow
    <3>1. RecordChange(r.cal, r.path, "created")
      BY <1>4, <2>2 DEF PutEffect
    <3>2. /\ DOMAIN objects' = DOMAIN objects \cup {nextRow}
          /\ objects'[nextRow] = [cal |-> r.cal, path |-> r.path, data |-> r.data]
          /\ \A o \in DOMAIN objects : objects'[o] = objects[o]
      BY <1>4, <2>1, <2>2, WriteRowObjects DEF PutEffect
    <3>3. \A o \in DOMAIN objects : objects[o].path # r.path
      BY <1>4, <2>2 DEF PutEffect, Commits, PathFree, RowsAt
    <3>. QED  BY <2>1, <3>1, <3>2, <3>3, LatestChangeAfterWrite
  <2>3. CASE r.row # NoRow
    <3>1. RecordChange(r.cal, r.path, "modified")
      BY <1>4, <2>3 DEF PutEffect
    <3>2. \A o \in DOMAIN objects : objects[o] \in ObjectRow
      BY DEF TypeOK
    <3>3. /\ DOMAIN objects' = DOMAIN objects
          /\ \A o \in DOMAIN objects : /\ objects'[o].cal = objects[o].cal
                                       /\ objects'[o].path = objects[o].path
      BY <1>4, <2>1, <2>3, <3>2, WriteRowObjects DEF PutEffect, ObjectRow
    <3>. QED  BY <2>1, <3>1, <3>3, LatestChangeAfterWrite
  <2>. QED  BY <2>2, <2>3
<1>5. ASSUME NEW p \in Procs, req[p].pc = "delete", DeleteEffect(req[p])
      PROVE  LatestChangeIsTrue'
  <2> DEFINE r == req[p]
  <2>1. r.cal \in Live /\ RecordChange(r.cal, r.path, "deleted")
    BY <1>5 DEF DeleteEffect
  <2>2. /\ DOMAIN objects' = {o \in DOMAIN objects :
                                 objects[o].cal # r.cal \/ objects[o].path # r.path}
        /\ \A o \in DOMAIN objects' : objects'[o] = objects[o]
    BY <1>5 DEF DeleteEffect, Restrict, RowsAt, RowsOf
  <2>. QED  BY <2>1, <2>2, LatestChangeAfterWrite
<1>. QED  BY <1>1, <1>2, <1>3, <1>4, <1>5 DEF TableStep

-----------------------------------------------------------------------------
(* The invariant of the store and what follows from it.                    *)

LEMMA InitIndInv == Init => IndInv
<1> SUFFICES ASSUME Init PROVE IndInv
  OBVIOUS
<1>1. TypeOK
  BY InitType
<1>2. /\ Live = {} /\ DOMAIN objects = {} /\ changes = {}
      /\ \A p \in Procs : req[p].pc = "idle"
  BY DEF Init, EmptyTable, Live
<1>. QED  BY <1>1, <1>2 DEF IndInv, UniquePaths, RowsUnderTheirCalendar,
             ChangesOfUsedIds, RequestsStillHold, LogMatchesToken,
             EveryPathHasLatest, LatestChangeIsTrue

LEMMA NextIndInv == IndInv /\ [Next]_vars => IndInv'
<1> SUFFICES ASSUME IndInv, [Next]_vars PROVE IndInv'
  OBVIOUS
<1>1. TableStep
  BY StepsOfTables
<1>. QED  BY <1>1, NextType, NextRequests, UniquePathsStep,
             RowsUnderTheirCalendarStep, ChangesOfUsedIdsStep,
             LogMatchesTokenStep, EveryPathHasLatestStep, LatestChangeStep DEF IndInv

THEOREM Inductive == Spec => []IndInv
  BY InitIndInv, NextIndInv, PTL DEF Spec

\* Every value of a calendar's sync token since its creation is the token of
\* exactly one change in its log, with any number of requests in flight and
\* whichever connections enforce foreign keys.
THEOREM LogIsExact == Spec => []LogMatchesToken
<1>1. IndInv => LogMatchesToken
  BY DEF IndInv
<1>. QED  BY <1>1, Inductive, PTL

\* The latest change recorded for a path agrees with the table.
THEOREM LatestChangesAreTrue == Spec => []LatestChangeIsTrue
<1>1. IndInv => LatestChangeIsTrue
  BY DEF IndInv
<1>. QED  BY <1>1, Inductive, PTL

-----------------------------------------------------------------------------
(* Orphans: with foreign keys enforced on every connection there are none. *)

LEMMA NoOrphansStep ==
    ASSUME FKConns = Conns, TypeOK, NoOrphans, TableStep
    PROVE  NoOrphans'
<1>1. CASE UNCHANGED tables
  BY <1>1 DEF tables, NoOrphans, Live
<1>2. ASSUME NEW u \in Users, NEW cp \in CalPaths, CreateEffect(u, cp)
      PROVE  NoOrphans'
  BY <1>2 DEF CreateEffect, Insert, NoOrphans, Live
<1>3. ASSUME NEW c \in Live, NEW conn \in Conns, DropEffect(c, conn)
      PROVE  NoOrphans'
  BY <1>3 DEF DropEffect, Cascade, Restrict, NoOrphans, Live, RowsOf
<1>4. ASSUME NEW p \in Procs, req[p].pc = "commit", PutEffect(req[p])
      PROVE  NoOrphans'
  <2> DEFINE r == req[p]
  <2>1. /\ r \in PutRequest /\ r.cal \in Live /\ Live' = Live
        /\ \A o \in DOMAIN objects : objects[o] \in ObjectRow
    BY <1>4, RequestTypes, RecordChangeCalendars DEF PutEffect, Commits, TypeOK
  <2>2. CASE r.row = NoRow
    <3>1. /\ DOMAIN objects' = DOMAIN objects \cup {nextRow}
          /\ objects'[nextRow] = [cal |-> r.cal, path |-> r.path, data |-> r.data]
          /\ \A o \in DOMAIN objects : objects'[o] = objects[o]
      BY <1>4, <2>1, <2>2, WriteRowObjects DEF PutEffect
    <3>. QED  BY <2>1, <3>1 DEF NoOrphans
  <2>3. CASE r.row # NoRow
    <3>1. /\ DOMAIN objects' = DOMAIN objects
          /\ \A o \in DOMAIN objects : objects'[o].cal = objects[o].cal
      BY <1>4, <2>1, <2>3, WriteRowObjects DEF PutEffect, ObjectRow
    <3>. QED  BY <2>1, <3>1 DEF NoOrphans
  <2>. QED  BY <2>2, <2>3
<1>5. ASSUME NEW p \in Procs, req[p].pc = "delete", DeleteEffect(req[p])
      PROVE  NoOrphans'
  <2>1. Live' = Live
    BY <1>5, RecordChangeCalendars DEF DeleteEffect
  <2>. QED  BY <1>5, <2>1 DEF DeleteEffect, Restrict, NoOrphans
<1>. QED  BY <1>1, <1>2, <1>3, <1>4, <1>5 DEF TableStep

\* DeleteCalendar leaves no object behind when every connection of the pool has
\* foreign keys on, as on PostgreSQL, whatever PUTs are in flight.
THEOREM DeleteLeavesNoOrphans ==
    ASSUME FKConns = Conns
    PROVE  Spec => []NoOrphans
<1>1. Init => NoOrphans
  BY DEF Init, EmptyTable, NoOrphans
<1>2. IndInv /\ NoOrphans /\ [Next]_vars => NoOrphans'
  BY StepsOfTables, NoOrphansStep DEF IndInv
<1>. QED  BY <1>1, <1>2, Inductive, PTL DEF Spec

-----------------------------------------------------------------------------
(* What changes a calendar's contents.                                     *)

\* Contents depends on the rows of the calendar only.
LEMMA SameRowsSameContents ==
    ASSUME NEW c,
           \A o \in DOMAIN objects' : objects'[o].cal = c =>
              o \in DOMAIN objects /\ objects[o] = objects'[o],
           \A o \in DOMAIN objects : objects[o].cal = c =>
              o \in DOMAIN objects' /\ objects'[o] = objects[o]
    PROVE  Contents(c)' = Contents(c)
<1>1. RowsOf(c)' = RowsOf(c)
  BY DEF RowsOf
<1>2. \A o \in RowsOf(c) : objects'[o] = objects[o]
  BY DEF RowsOf
<1>. QED  BY <1>1, <1>2 DEF Contents

CommitEffect(p) ==
    \/ req[p].pc = "commit" /\ PutEffect(req[p])
    \/ req[p].pc = "delete" /\ DeleteEffect(req[p])

LEMMA ContentsChangeByCommit ==
    ASSUME IndInv, TableStep, NEW c \in Live, c \in Live', Contents(c)' # Contents(c)
    PROVE  \E p \in Procs : /\ CommitEffect(p)
                           /\ req[p].cal = c
                           /\ req[p].user = calendars[c].user
                           /\ \E status : Finish(p, status)
<1> USE DEF IndInv
<1>1. \A o \in DOMAIN objects : objects[o] \in ObjectRow
  BY DEF TypeOK
<1>2. ASSUME NEW p \in Procs, req[p].pc # "idle", req[p].cal = c
      PROVE  req[p].user = calendars[c].user
  BY <1>2 DEF RequestsStillHold, FoundCalendar
<1>3. CASE UNCHANGED tables
  BY <1>3, SameRowsSameContents DEF tables
<1>4. ASSUME NEW u \in Users, NEW cp \in CalPaths, CreateEffect(u, cp)
      PROVE  FALSE
  BY <1>4, SameRowsSameContents DEF CreateEffect
<1>5. ASSUME NEW k \in Live, NEW conn \in Conns, DropEffect(k, conn)
      PROVE  FALSE
  <2>1. c # k
    BY <1>5 DEF DropEffect, Restrict, Live
  <2>2. /\ \A o \in DOMAIN objects' : o \in DOMAIN objects /\ objects'[o] = objects[o]
        /\ \A o \in DOMAIN objects : objects[o].cal # k => o \in DOMAIN objects'
    BY <1>5 DEF DropEffect, Cascade, Restrict, RowsOf
  <2>. QED  BY <2>1, <2>2, SameRowsSameContents
<1>6. ASSUME NEW p \in Procs, req[p].pc = "commit", PutEffect(req[p]), req[p].cal # c
      PROVE  FALSE
  <2> DEFINE r == req[p]
  <2>1. r \in PutRequest /\ r.cal \in Live
    BY <1>6, RequestTypes DEF PutEffect, Commits
  <2>2. CASE r.row = NoRow
    <3>1. /\ DOMAIN objects' = DOMAIN objects \cup {nextRow}
          /\ objects'[nextRow] = [cal |-> r.cal, path |-> r.path, data |-> r.data]
          /\ \A o \in DOMAIN objects : objects'[o] = objects[o]
      BY <1>6, <2>1, <2>2, WriteRowObjects DEF PutEffect
    <3>2. \A o \in DOMAIN objects' : objects'[o].cal = c =>
             o \in DOMAIN objects /\ objects[o] = objects'[o]
      BY <1>6, <3>1
    <3>. QED  BY <3>1, <3>2, SameRowsSameContents
  <2>3. CASE r.row # NoRow
    <3>1. /\ DOMAIN objects' = DOMAIN objects
          /\ \A o \in DOMAIN objects :
                /\ o # r.row => objects'[o] = objects[o]
                /\ objects'[o].cal = objects[o].cal
      BY <1>1, <1>6, <2>1, <2>3, WriteRowObjects DEF PutEffect, ObjectRow
    <3>2. r.row \in DOMAIN objects => objects[r.row].cal # c
      <4>1. SUFFICES ASSUME r.row \in DOMAIN objects, objects[r.row].cal = c
                     PROVE  FALSE
        OBVIOUS
      <4>2. calendars[c].path = CalOf[objects[r.row].path]
        BY <4>1 DEF RowsUnderTheirCalendar
      <4>3. objects[r.row].path = r.path
        BY <1>6, <4>1 DEF RequestsStillHold, FoundRow
      <4>4. calendars[r.cal].path = CalOf[r.path]
        BY <1>6, <2>1 DEF RequestsStillHold, FoundCalendar
      <4>. QED  BY <1>6, <2>1, <4>2, <4>3, <4>4 DEF UniquePaths
    <3>. QED  BY <3>1, <3>2, SameRowsSameContents
  <2>. QED  BY <2>2, <2>3
<1>7. ASSUME NEW p \in Procs, req[p].pc = "delete", DeleteEffect(req[p]), req[p].cal # c
      PROVE  FALSE
  <2>1. /\ \A o \in DOMAIN objects' : o \in DOMAIN objects /\ objects'[o] = objects[o]
        /\ \A o \in DOMAIN objects : objects[o].cal = c => o \in DOMAIN objects'
    BY <1>7 DEF DeleteEffect, Restrict, RowsOf
  <2>. QED  BY <2>1, SameRowsSameContents
<1>. QED  BY <1>2, <1>3, <1>4, <1>5, <1>6, <1>7 DEF TableStep, CommitEffect

\* A commit changes what its calendar shows at the path of the request only, and
\* records a change of that path.
LEMMA CommitChangesOnePath ==
    ASSUME IndInv, NEW p \in Procs, CommitEffect(p),
           NEW c, c = req[p].cal, NEW op, op = req[p].path
    PROVE  /\ c \in Live
           /\ \E type : RecordChange(c, op, type)
           /\ \A e : ~(e \in Contents(c)' <=> e \in Contents(c)) => e.path = op
<1>1. c \in Live /\ \E type : RecordChange(c, op, type)
  BY DEF CommitEffect, PutEffect, DeleteEffect, Commits
<1>2. SUFFICES
        /\ \A o \in DOMAIN objects' :
              objects'[o].path = op \/ (o \in DOMAIN objects /\ objects'[o] = objects[o])
        /\ \A o \in DOMAIN objects :
              objects[o].path = op \/ (o \in DOMAIN objects' /\ objects'[o] = objects[o])
  BY <1>1 DEF Contents, RowsOf
<1>3. CASE req[p].pc = "commit" /\ PutEffect(req[p])
  <2> DEFINE r == req[p]
  <2>1. r \in PutRequest
    BY <1>3, RequestTypes DEF IndInv
  <2>2. CASE r.row = NoRow
    <3>1. /\ DOMAIN objects' = DOMAIN objects \cup {nextRow}
          /\ objects'[nextRow] = [cal |-> r.cal, path |-> r.path, data |-> r.data]
          /\ \A o \in DOMAIN objects : objects'[o] = objects[o]
      BY <1>3, <2>1, <2>2, WriteRowObjects DEF PutEffect, IndInv
    <3>. QED  BY <3>1
  <2>3. CASE r.row # NoRow
    <3>1. \A o \in DOMAIN objects : objects[o] \in ObjectRow
      BY DEF IndInv, TypeOK
    <3>2. /\ DOMAIN objects' = DOMAIN objects
          /\ \A o \in DOMAIN objects :
                /\ o # r.row => objects'[o] = objects[o]
                /\ objects'[o].path = objects[o].path
      BY <1>3, <2>1, <2>3, <3>1, WriteRowObjects DEF PutEffect, ObjectRow, IndInv
    <3>3. r.row \in DOMAIN objects => objects[r.row].path = op
      BY <1>3 DEF IndInv, RequestsStillHold, FoundRow
    <3>. QED  BY <3>2, <3>3
  <2>. QED  BY <2>2, <2>3
<1>4. CASE req[p].pc = "delete" /\ DeleteEffect(req[p])
  BY <1>4 DEF DeleteEffect, Restrict, RowsAt
<1>. QED  BY <1>3, <1>4 DEF CommitEffect

\* A client that polls the CTag misses no change: the token of a calendar grows
\* in every step that changes what the calendar shows.
THEOREM TokenFollowsContents == Spec => ContentsChangeBumpsToken
<1>1. ASSUME IndInv, [Next]_vars, NEW c \in Live \cap Live', Contents(c)' # Contents(c)
      PROVE  calendars'[c].token > calendars[c].token
  <2>1. PICK p \in Procs : CommitEffect(p) /\ req[p].cal = c
    BY <1>1, StepsOfTables, ContentsChangeByCommit
  <2>2. PICK type : RecordChange(c, req[p].path, type)
    BY <1>1, <2>1, CommitChangesOnePath
  <2>. QED  BY <1>1, <2>2, RecordChangeCalendars DEF IndInv
<1>2. IndInv /\ [Next]_vars =>
        [\A c \in Live \cap Live' :
            Contents(c)' # Contents(c) => calendars'[c].token > calendars[c].token]_vars
  BY <1>1
<1>. QED  BY <1>2, Inductive, PTL DEF Spec, ContentsChangeBumpsToken

\* Only the owner's requests change what a calendar shows, even if calendars are
\* deleted and created again at the same path between the steps of a request.
THEOREM OwnersWrite == Spec => OnlyOwnerChangesContents
<1>1. ASSUME IndInv, [Next]_vars, NEW c \in Live \cap Live', Contents(c)' # Contents(c)
      PROVE  \E p \in Procs : /\ req'[p] # req[p]
                             /\ req[p].pc \in {"commit", "delete"}
                             /\ req[p].user = calendars[c].user
  <2>1. PICK p \in Procs : /\ CommitEffect(p)
                           /\ req[p].user = calendars[c].user
                           /\ \E status : Finish(p, status)
    BY <1>1, StepsOfTables, ContentsChangeByCommit
  <2>2. req'[p].pc = "idle"
    BY <1>1, <2>1 DEF Finish, IndInv, TypeOK
  <2>. QED  BY <2>1, <2>2 DEF CommitEffect
<1>2. IndInv /\ [Next]_vars =>
        [\A c \in Live \cap Live' : Contents(c)' # Contents(c) =>
            \E p \in Procs : /\ req'[p] # req[p]
                            /\ req[p].pc \in {"commit", "delete"}
                            /\ req[p].user = calendars[c].user]_vars
  BY <1>1
<1>. QED  BY <1>2, Inductive, PTL DEF Spec, OnlyOwnerChangesContents

-----------------------------------------------------------------------------
(* Acknowledged PUTs.                                                      *)

LEMMA AckedPutCommitted ==
    ASSUME TypeOK, [Next]_vars, NEW p \in Procs, AckedPut(p)
    PROVE  PutEffect(req[p])
<1>1. req[p].pc = "commit" /\ req'[p].pc = "idle" /\ req'[p].status = "ok"
  BY DEF AckedPut
<1>2. ASSUME NEW q \in Procs, q # p,
             \/ \E status : Finish(q, status)
             \/ \E r : req' = [req EXCEPT ![q] = r]
      PROVE  FALSE
  BY <1>1, <1>2 DEF Finish, TypeOK
<1>3. CASE UNCHANGED vars
  BY <1>1, <1>3 DEF vars
<1>4. ASSUME NEW q \in Procs,
             \/ \E u \in Users, cp \in CalPaths : CreateCalendar(q, u, cp)
             \/ \E u \in Users, cp \in CalPaths, conn \in Conns :
                   DeleteCalendar(q, u, cp, conn)
      PROVE  FALSE
  BY <1>1, <1>2, <1>4 DEF CreateCalendar, DeleteCalendar, Start, Committed
<1>5. ASSUME NEW q \in Procs,
             \/ \E u \in Users, op \in ObjPaths, d \in Data, cond \in Conds :
                   PutFindCalendar(q, u, op, d, cond)
             \/ \E u \in Users, op \in ObjPaths : DeleteFindCalendar(q, u, op)
      PROVE  FALSE
  BY <1>1, <1>2, <1>5 DEF PutFindCalendar, DeleteFindCalendar, Start
<1>6. ASSUME NEW q \in Procs, PutFindExisting(q)
      PROVE  FALSE
  <2>1. q # p
    BY <1>1, <1>6 DEF PutFindExisting
  <2>. QED  BY <1>1, <1>6, <2>1 DEF PutFindExisting, Finish, TypeOK
<1>7. ASSUME NEW q \in Procs, DeleteCommit(q)
      PROVE  FALSE
  BY <1>1, <1>2, <1>7 DEF DeleteCommit, Committed
<1>8. ASSUME NEW q \in Procs, Fail(q)
      PROVE  FALSE
  <2>1. Finish(q, "error")
    BY <1>8 DEF Fail
  <2>. QED  BY <1>1, <1>2, <2>1 DEF Finish, TypeOK
<1>9. ASSUME NEW q \in Procs, PutCommit(q)
      PROVE  PutEffect(req[p])
  <2>1. q = p
    BY <1>2, <1>9 DEF PutCommit, Committed
  <2>2. ~Finish(p, "error")
    BY <1>1 DEF Finish, TypeOK
  <2>. QED  BY <1>9, <2>1, <2>2 DEF PutCommit, PutEffect
<1>. QED  BY <1>3, <1>4, <1>5, <1>6, <1>7, <1>8, <1>9 DEF Next

\* Of two PUTs with If-None-Match: * at most one is answered with success, and
\* it has found no object at the path when it wrote its own.
THEOREM CreateOnlyNeverReplaces == Spec => IfNoneMatchNeverReplaces
<1>1. ASSUME IndInv, [Next]_vars, NEW p \in Procs, AckedPut(p),
             req[p].cond.ifNoneMatch = Wildcard
      PROVE  RowsAt(req[p].path) = {}
  <2>1. Commits(req[p])
    BY <1>1, AckedPutCommitted DEF IndInv, PutEffect
  <2>2. req[p].row = NoRow
    BY <1>1 DEF IndInv, RequestsStillHold, FoundRow, AckedPut
  <2>. QED  BY <2>1, <2>2 DEF Commits, PathFree
<1>2. IndInv /\ [Next]_vars =>
        [\A p \in Procs : AckedPut(p) /\ req[p].cond.ifNoneMatch = Wildcard =>
            RowsAt(req[p].path) = {}]_vars
  BY <1>1
<1>. QED  BY <1>2, Inductive, PTL DEF Spec, IfNoneMatchNeverReplaces

\* Without orphans, the commit of a PUT stores its content in the calendar that it
\* was checked against, unless the row that it found has been deleted since.
LEMMA CommittedPutIsStored ==
    ASSUME IndInv, NoOrphans, NEW p \in Procs, req[p].pc = "commit", PutEffect(req[p])
    PROVE  \/ Stored(req[p])
           \/ req[p].row # NoRow /\ req[p].row \notin DOMAIN objects
<1> DEFINE r == req[p]
<1>1. /\ Commits(r) /\ WriteRow(r) /\ r.cal \in Live
  BY DEF PutEffect, Commits
<1>2. /\ r \in PutRequest
      /\ \A o \in DOMAIN objects : objects[o] \in ObjectRow
  BY RequestTypes DEF IndInv, TypeOK
<1>3. CASE r.row = NoRow
  BY <1>1, <1>2, <1>3, WriteRowObjects DEF IndInv, Stored
<1>4. CASE r.row \in DOMAIN objects
  <2>1. r.row # NoRow
    BY <1>4 DEF IndInv, TypeOK, NoRow
  <2>2. /\ r.row \in DOMAIN objects'
        /\ objects'[r.row] = [objects[r.row] EXCEPT !.data = r.data]
    BY <1>1, <1>2, <1>4, <2>1, WriteRowObjects DEF IndInv
  <2>3. objects[r.row].path = r.path
    BY <1>4 DEF IndInv, RequestsStillHold, FoundRow
  <2>4. objects[r.row].cal = r.cal
    <3>1. objects[r.row].cal \in Live
      BY <1>4 DEF NoOrphans
    <3>2. calendars[objects[r.row].cal].path = CalOf[r.path]
      BY <1>4, <2>3, <3>1 DEF IndInv, RowsUnderTheirCalendar
    <3>3. calendars[r.cal].path = CalOf[r.path]
      BY <1>1 DEF IndInv, RequestsStillHold, FoundCalendar
    <3>. QED  BY <1>1, <3>1, <3>2, <3>3 DEF IndInv, UniquePaths
  <2>5. [objects[r.row] EXCEPT !.data = r.data]
          = [cal |-> r.cal, path |-> r.path, data |-> r.data]
    BY <1>2, <1>4, <2>3, <2>4 DEF ObjectRow
  <2>. QED  BY <2>2, <2>5 DEF Stored
<1>. QED  BY <1>3, <1>4

\* With foreign keys enforced, a PUT that is answered with success has stored its
\* content in the calendar that it was checked against, unless the row that it
\* found has been deleted since.
THEOREM AckedPutsAreStored ==
    ASSUME FKConns = Conns
    PROVE  Spec => AckedPutStoredUnlessDeleted
<1>1. ASSUME IndInv, NoOrphans, [Next]_vars, NEW p \in Procs, AckedPut(p)
      PROVE  \/ Stored(req[p])
             \/ req[p].row # NoRow /\ req[p].row \notin DOMAIN objects
  BY <1>1, AckedPutCommitted, CommittedPutIsStored DEF IndInv, AckedPut
<1>2. IndInv /\ NoOrphans /\ [Next]_vars =>
        [\A p \in Procs : AckedPut(p) =>
            \/ Stored(req[p])
            \/ req[p].row # NoRow /\ req[p].row \notin DOMAIN objects]_vars
  BY <1>1
<1>. QED  BY <1>2, Inductive, DeleteLeavesNoOrphans, PTL
          DEF Spec, AckedPutStoredUnlessDeleted

=============================================================================
