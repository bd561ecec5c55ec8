---------------------------- MODULE CalendarStore ----------------------------
(***************************************************************************)
(* The SQL object store behind the CalDAV handler (storage/sqlite, and,    *)
(* with every connection enforcing foreign keys, storage/postgres):        *)
(* calendars, calendar objects and the per-calendar log of changes that    *)
(* sync-collection reads.                                                  *)
(*                                                                         *)
(* A request runs its SQL statements one by one on a connection pool; the  *)
(* steps of concurrent requests interleave.  A single statement, and a     *)
(* transaction whose first statement is a write, is one step.  The content *)
(* of an object is a member of Data and stands for its entity tag as well  *)
(* (the code uses the SHA-256 of the encoded content).                     *)
(***************************************************************************)
EXTENDS Integers, FiniteSets, Functions

CONSTANTS
    Users,        \* authenticated users
    CalPaths,     \* paths of calendar collections
    ObjPaths,     \* paths of calendar objects
    CalOf,        \* calendarPathFromObjectPath, object path -> calendar path
    Data,         \* valid contents of an object
    UidOf,        \* the iCalendar UID of a content
    Unset,        \* an absent If-Match / If-None-Match header
    Wildcard,     \* the header value *
    Conds,        \* the header pairs that clients send
    Conns,        \* connections of the database/sql pool
    FKConns,      \* those on which PRAGMA foreign_keys=ON has been executed
    Procs,        \* handler goroutines
    MaxRequests   \* bound: requests in a behaviour

Headers == [ifNoneMatch : Data \cup {Unset, Wildcard},
            ifMatch     : Data \cup {Unset, Wildcard}]

ASSUME PathsAssumption   == CalOf \in [ObjPaths -> CalPaths]
ASSUME UidAssumption     == DOMAIN UidOf = Data
ASSUME HeaderAssumption  == /\ Conds \subseteq Headers
                            /\ {Unset, Wildcard} \cap Data = {}
                            /\ Unset # Wildcard
ASSUME PoolAssumption    == FKConns \subseteq Conns
ASSUME BoundAssumption   == MaxRequests \in Nat

VARIABLES
    calendars,    \* table calendars: id -> owner, path, sync_token
    objects,      \* table calendar_objects: id -> calendar_id, path, content
    changes,      \* table sync_changes
    nextCal,      \* AUTOINCREMENT of calendars: an id is never used again
    nextRow,      \* AUTOINCREMENT of calendar_objects
    req,          \* the request each goroutine is executing
    issued        \* number of requests so far

tables == <<calendars, objects, changes, nextCal, nextRow>>
vars   == <<calendars, objects, changes, nextCal, nextRow, req, issued>>

NoRow == 0        \* no row with this path was found (ids start at 1)
EmptyTable == [id \in {} |-> id]

-----------------------------------------------------------------------------
(* Types.                                                                  *)

CalendarRow == [user : Users, path : CalPaths, token : Nat]
ObjectRow   == [cal : Nat \ {0}, path : ObjPaths, data : Data]
Change      == [cal : Nat \ {0}, path : ObjPaths,
                type : {"created", "modified", "deleted"}, token : Nat \ {0}]

Answers     == {"none", "ok", "notfound", "forbidden", "precondition", "error"}
Idle        == [pc : {"idle"}, status : Answers]
PutRequest  == [pc : {"find", "commit"}, user : Users, path : ObjPaths,
                data : Data, cond : Conds, cal : Nat \ {0}, row : Nat]
DelRequest  == [pc : {"delete"}, user : Users, path : ObjPaths,
                cal : Nat \ {0}]

TypeOK ==
    /\ DOMAIN calendars \subseteq 1 .. nextCal - 1
    /\ \A c \in DOMAIN calendars : calendars[c] \in CalendarRow
    /\ DOMAIN objects \subseteq 1 .. nextRow - 1
    /\ \A o \in DOMAIN objects : objects[o] \in ObjectRow
    /\ changes \subseteq Change
    /\ nextCal \in Nat \ {0}
    /\ nextRow \in Nat \ {0}
    /\ req \in [Procs -> Idle \cup PutRequest \cup DelRequest]
    /\ issued \in 0 .. MaxRequests

-----------------------------------------------------------------------------
(* Queries.                                                                *)

Live             == DOMAIN calendars
CalendarsAt(cp)  == {c \in Live : calendars[c].path = cp}
RowsAt(op)       == {o \in DOMAIN objects : objects[o].path = op}
RowsOf(c)        == {o \in DOMAIN objects : objects[o].cal = c}

\* what GET, PROPFIND and REPORT show of calendar c
Contents(c)      == {[path |-> objects[o].path, data |-> objects[o].data] :
                        o \in RowsOf(c)}

ChangesAt(c, op) == {ch \in changes : ch.cal = c /\ ch.path = op}
IsLatest(ch)     == \A d \in ChangesAt(ch.cal, ch.path) : d.token <= ch.token

\* faulty: the owner read with the calendar is not compared with the user
OwnedByAnyone(c, u) == c \in Live
Owns(c, u)          == calendars[c].user = u

-----------------------------------------------------------------------------
(* Writes.  A definition marked "faulty" is a mistake that the code does   *)
(* not make, used to show that the properties can tell the difference.     *)

\* f with the row k inserted
Insert(f, k, row) == [x \in DOMAIN f \cup {k} |-> IF x = k THEN row ELSE f[x]]

Finish(p, status) ==
    req' = [req EXCEPT ![p] = [pc |-> "idle", status |-> status]]

\* what has been committed is answered with success, or with an error when the
\* acknowledgement of the database is lost
Committed(p) == \E status \in {"ok", "error"} : Finish(p, status)

Start(p) ==
    /\ req[p].pc = "idle"
    /\ issued < MaxRequests
    /\ issued' = issued + 1

\* faulty: the change is recorded under the token read before the bump
RecordAtOldToken(c, op, type) ==
    /\ calendars' = [calendars EXCEPT ![c].token = @ + 1]
    /\ changes' = changes \cup {[cal |-> c, path |-> op, type |-> type,
                                 token |-> calendars[c].token]}

\* faulty: the token is not bumped
RecordWithoutBump(c, op, type) ==
    /\ changes' = changes \cup {[cal |-> c, path |-> op, type |-> type,
                                 token |-> calendars[c].token + 1]}
    /\ UNCHANGED calendars

\* the last statements of both transactions: bump the token, read it back,
\* record the change under it
RecordChange(c, op, type) ==
    /\ calendars' = [calendars EXCEPT ![c].token = @ + 1]
    /\ changes' = changes \cup {[cal |-> c, path |-> op, type |-> type,
                                 token |-> calendars[c].token + 1]}

-----------------------------------------------------------------------------
(* MKCALENDAR and DELETE of a collection: one statement each.              *)

\* any user may name any path; UNIQUE(path) refuses a second one
CreateCalendar(p, u, cp) ==
    /\ Start(p)
    /\ \/ /\ CalendarsAt(cp) = {}
          /\ calendars' = Insert(calendars, nextCal,
                                 [user |-> u, path |-> cp, token |-> 0])
          /\ nextCal' = nextCal + 1
          /\ Committed(p)
       \/ /\ CalendarsAt(cp) # {}
          /\ UNCHANGED <<calendars, nextCal>>
          /\ Finish(p, "error")
    /\ UNCHANGED <<objects, changes, nextRow>>

\* faulty: only sync_changes is declared ON DELETE CASCADE
CascadeToLogOnly(c, conn) ==
    /\ changes' = {ch \in changes : ch.cal # c}
    /\ UNCHANGED objects

\* ON DELETE CASCADE acts only on a connection that enforces foreign keys
Cascade(c, conn) ==
    IF conn \in FKConns
    THEN /\ objects' = Restrict(objects, DOMAIN objects \ RowsOf(c))
         /\ changes' = {ch \in changes : ch.cal # c}
    ELSE UNCHANGED <<objects, changes>>

DeleteCalendar(p, u, cp, conn) ==
    /\ Start(p)
    /\ LET mine == {c \in CalendarsAt(cp) : calendars[c].user = u} IN
       \/ /\ mine = {}
          /\ UNCHANGED <<calendars, objects, changes>>
          /\ Finish(p, "notfound")
       \/ \E c \in mine :
             /\ calendars' = Restrict(calendars, Live \ {c})
             /\ Cascade(c, conn)
             /\ Committed(p)
    /\ UNCHANGED <<nextCal, nextRow>>

-----------------------------------------------------------------------------
(* PUT of an object: SELECT the calendar, SELECT the row with this path,   *)
(* check the preconditions, then one transaction.                          *)

Matches(v, etag) == v = Wildcard \/ v = etag

\* the preconditions, against the entity tags found (none or one)
Refused(cond, etags) ==
    \/ cond.ifNoneMatch # Unset /\ \E e \in etags : Matches(cond.ifNoneMatch, e)
    \/ cond.ifMatch # Unset /\ \A e \in etags : ~Matches(cond.ifMatch, e)

PutFindCalendar(p, u, op, d, cond) ==
    /\ Start(p)
    /\ \/ CalendarsAt(CalOf[op]) = {} /\ Finish(p, "notfound")
       \/ \E c \in CalendarsAt(CalOf[op]) :
             \/ ~Owns(c, u) /\ Finish(p, "forbidden")
             \/ /\ Owns(c, u)
                /\ req' = [req EXCEPT ![p] =
                      [pc |-> "find", user |-> u, path |-> op, data |-> d,
                       cond |-> cond, cal |-> c, row |-> NoRow]]
    /\ UNCHANGED tables

PutFindExisting(p) ==
    /\ req[p].pc = "find"
    /\ LET found == RowsAt(req[p].path)
           etags == {objects[o].data : o \in found} IN
       \/ Refused(req[p].cond, etags) /\ Finish(p, "precondition")
       \/ /\ ~Refused(req[p].cond, etags)
          /\ \E row \in IF found = {} THEN {NoRow} ELSE found :
                req' = [req EXCEPT ![p].pc = "commit", ![p].row = row]
    /\ UNCHANGED <<tables, issued>>

\* the transaction commits unless UNIQUE(path), UNIQUE(calendar_id, uid) or
\* the missing calendar row (SELECT sync_token finds none) aborts it
PathFree(op)     == RowsAt(op) = {}
UidFree(c, d, o) == \A x \in RowsOf(c) \ {o} : UidOf[objects[x].data] # UidOf[d]

\* faulty: no UNIQUE on path
CommitsAnyPath(r) ==
    /\ r.cal \in Live
    /\ r.row \in DOMAIN objects => UidFree(objects[r.row].cal, r.data, r.row)

Commits(r) ==
    /\ r.cal \in Live
    /\ \/ r.row = NoRow /\ PathFree(r.path) /\ UidFree(r.cal, r.data, NoRow)
       \/ /\ r.row # NoRow
          /\ r.row \in DOMAIN objects =>
                UidFree(objects[r.row].cal, r.data, r.row)

\* faulty: INSERT takes an id that a deleted row may have had
WriteRowReusingIds(r) ==
    /\ objects' = Insert(objects, IF r.row = NoRow THEN nextRow ELSE r.row,
                         [cal |-> r.cal, path |-> r.path, data |-> r.data])
    /\ UNCHANGED nextRow

\* faulty: UPDATE leaves ical_data out
WriteNewRowOnly(r) ==
    /\ IF r.row = NoRow
       THEN objects' = Insert(objects, nextRow,
                              [cal |-> r.cal, path |-> r.path, data |-> r.data])
       ELSE UNCHANGED objects
    /\ nextRow' = nextRow + 1

\* UPDATE ... WHERE id = existingID changes nothing, and raises no error,
\* when the row has gone
WriteRow(r) ==
    IF r.row = NoRow
    THEN /\ objects' = Insert(objects, nextRow,
                              [cal |-> r.cal, path |-> r.path, data |-> r.data])
         /\ nextRow' = nextRow + 1
    ELSE /\ objects' = [o \in DOMAIN objects |->
                          IF o = r.row THEN [objects[o] EXCEPT !.data = r.data]
                                       ELSE objects[o]]
         /\ UNCHANGED nextRow

PutCommit(p) ==
    /\ req[p].pc = "commit"
    /\ \/ /\ Commits(req[p])
          /\ WriteRow(req[p])
          /\ RecordChange(req[p].cal, req[p].path,
                          IF req[p].row = NoRow THEN "created" ELSE "modified")
          /\ Committed(p)
       \/ /\ ~Commits(req[p])
          /\ UNCHANGED <<calendars, objects, changes, nextRow>>
          /\ Finish(p, "error")
    /\ UNCHANGED <<nextCal, issued>>

-----------------------------------------------------------------------------
(* DELETE of an object: SELECT the calendar, then one transaction.         *)

DeleteFindCalendar(p, u, op) ==
    /\ Start(p)
    /\ \/ CalendarsAt(CalOf[op]) = {} /\ Finish(p, "notfound")
       \/ \E c \in CalendarsAt(CalOf[op]) :
             \/ ~Owns(c, u) /\ Finish(p, "forbidden")
             \/ /\ Owns(c, u)
                /\ req' = [req EXCEPT ![p] =
                      [pc |-> "delete", user |-> u, path |-> op, cal |-> c]]
    /\ UNCHANGED tables

DeleteCommit(p) ==
    /\ req[p].pc = "delete"
    /\ LET c    == req[p].cal
           gone == RowsAt(req[p].path) \cap RowsOf(c) IN
       \/ /\ gone = {}
          /\ UNCHANGED <<calendars, objects, changes>>
          /\ Finish(p, "notfound")
       \/ /\ gone # {} /\ c \in Live
          /\ objects' = Restrict(objects, DOMAIN objects \ gone)
          /\ RecordChange(c, req[p].path, "deleted")
          /\ Committed(p)
       \/ /\ gone # {} /\ c \notin Live    \* orphans: rolled back
          /\ UNCHANGED <<calendars, objects, changes>>
          /\ Finish(p, "error")
    /\ UNCHANGED <<nextCal, nextRow, issued>>

\* A statement fails (SQLITE_BUSY, a cancelled context) or the process
\* restarts: the open transaction is rolled back.  The first statement of a
\* request, or its only one, may fail too.
Fail(p) ==
    /\ \/ req[p].pc # "idle" /\ UNCHANGED issued
       \/ Start(p)
    /\ Finish(p, "error")
    /\ UNCHANGED tables

-----------------------------------------------------------------------------

Init ==
    /\ calendars = EmptyTable
    /\ objects = EmptyTable
    /\ changes = {}
    /\ nextCal = 1
    /\ nextRow = 1
    /\ req = [p \in Procs |-> [pc |-> "idle", status |-> "none"]]
    /\ issued = 0

Next ==
    \E p \in Procs :
        \/ \E u \in Users, cp \in CalPaths : CreateCalendar(p, u, cp)
        \/ \E u \in Users, cp \in CalPaths, conn \in Conns :
              DeleteCalendar(p, u, cp, conn)
        \/ \E u \in Users, op \in ObjPaths, d \in Data, cond \in Conds :
              PutFindCalendar(p, u, op, d, cond)
        \/ PutFindExisting(p)
        \/ PutCommit(p)
        \/ \E u \in Users, op \in ObjPaths : DeleteFindCalendar(p, u, op)
        \/ DeleteCommit(p)
        \/ Fail(p)

Spec == Init /\ [][Next]_vars

-----------------------------------------------------------------------------
(* Properties.                                                             *)

\* The change log of a calendar holds exactly one change for each value its
\* sync_token has taken since creation: the transactions that bump the token,
\* read it back and record the change never skip or share a number, however
\* they interleave.  (sync_token > ? selects what a client has not seen.)
LogMatchesToken ==
    \A c \in Live :
        LET log == {ch \in changes : ch.cal = c} IN
        /\ {ch.token : ch \in log} = 1 .. calendars[c].token
        /\ \A a, b \in log : a.token = b.token => a = b

\* What the latest change of a path says is true of the table: a row that is
\* there was last "created" or "modified", and a path last "created" has a
\* row.  ("modified" may name a row that has gone, see AckedPutIsStored.)
LatestChangeIsTrue ==
    /\ \A o \in DOMAIN objects : objects[o].cal \in Live =>
          \E ch \in ChangesAt(objects[o].cal, objects[o].path) :
              IsLatest(ch) /\ ch.type # "deleted"
    /\ \A ch \in changes :
          ch.cal \in Live /\ IsLatest(ch) /\ ch.type = "created" =>
              RowsAt(ch.path) \cap RowsOf(ch.cal) # {}

\* DeleteCalendar "deletes a calendar and all its objects" (storage/backend.go),
\* because its one DELETE statement cascades: no object belongs to a calendar
\* that is not there.
NoOrphans == \A o \in DOMAIN objects : objects[o].cal \in Live

\* Whenever what a calendar shows changes, its sync token (the CTag that
\* PROPFIND returns) grows: a client that polls the CTag misses no change.
ContentsChangeBumpsToken ==
    [][\A c \in Live \cap Live' :
          Contents(c)' # Contents(c) => calendars'[c].token > calendars[c].token
      ]_vars

\* Only a request of its owner changes what a calendar shows, even when the
\* calendar a PUT or DELETE has looked up is deleted, and created again at the
\* same path by another user, before the request reaches its transaction.
OnlyOwnerChangesContents ==
    [][\A c \in Live \cap Live' :
          Contents(c)' # Contents(c) =>
              \E p \in Procs : /\ req'[p] # req[p]
                              /\ req[p].pc \in {"commit", "delete"}
                              /\ req[p].user = calendars[c].user
      ]_vars

AckedPut(p) == /\ req[p].pc = "commit"
               /\ req'[p] = [pc |-> "idle", status |-> "ok"]

\* A PUT with If-None-Match: * that is answered with success has created its
\* object: no row had the path when it was written, although the check and the
\* write are separate statements.  Of two racing requests one fails, on
\* UNIQUE(path).
IfNoneMatchNeverReplaces ==
    [][\A p \in Procs : AckedPut(p) /\ req[p].cond.ifNoneMatch = Wildcard =>
          RowsAt(req[p].path) = {}
      ]_vars

Stored(r) ==
    \E o \in DOMAIN objects' :
        objects'[o] = [cal |-> r.cal, path |-> r.path, data |-> r.data]

\* A PUT that is answered with success has stored its content, in the calendar
\* it was checked against, unless a DELETE has removed the row that it found.
AckedPutStoredUnlessDeleted ==
    [][\A p \in Procs : AckedPut(p) =>
          \/ Stored(req[p])
          \/ req[p].row # NoRow /\ req[p].row \notin DOMAIN objects
      ]_vars

\* "PutCalendarObject creates or updates a calendar object": a PUT that is
\* answered with success has stored its content.
AckedPutIsStored ==
    [][\A p \in Procs : AckedPut(p) => Stored(req[p])]_vars

\* The precondition that PutCalendarObject checks holds of the object that it
\* replaces: If-Match naming an entity tag replaces that version only.
IfMatchReplacesNamedVersion ==
    [][\A p \in Procs : AckedPut(p) /\ req[p].cond.ifMatch \in Data =>
          \A o \in RowsAt(req[p].path) : objects[o].data = req[p].cond.ifMatch
      ]_vars

-----------------------------------------------------------------------------
(* What makes the properties inductive: what the two UNIQUE indexes say,   *)
(* and what still holds, later, of the calendar and the row that a request *)
(* has looked up.                                                          *)

UniquePaths ==
    /\ \A c, k \in Live : calendars[c].path = calendars[k].path => c = k
    /\ \A o, x \in DOMAIN objects : objects[o].path = objects[x].path => o = x

RowsUnderTheirCalendar ==
    \A o \in DOMAIN objects :
        /\ objects[o].cal < nextCal
        /\ objects[o].cal \in Live =>
              calendars[objects[o].cal].path = CalOf[objects[o].path]

ChangesOfUsedIds == \A ch \in changes : ch.cal < nextCal

\* the calendar may have gone, but no other has taken its id
FoundCalendar(r) ==
    /\ r.cal < nextCal
    /\ r.cal \in Live => /\ calendars[r.cal].user = r.user
                         /\ calendars[r.cal].path = CalOf[r.path]

FoundRow(r) ==
    /\ r.row < nextRow
    /\ r.row \in DOMAIN objects => objects[r.row].path = r.path
    /\ r.cond.ifNoneMatch = Wildcard => r.row = NoRow

RequestsStillHold ==
    \A p \in Procs :
        /\ req[p].pc # "idle" => FoundCalendar(req[p])
        /\ req[p].pc = "commit" => FoundRow(req[p])

\* a bounded set of tokens has a largest: stated, since it cannot be derived
\* without induction
EveryPathHasLatest ==
    \A ch \in changes : ch.cal \in Live =>
        \E l \in ChangesAt(ch.cal, ch.path) : IsLatest(l)

IndInv ==
    /\ TypeOK
    /\ UniquePaths
    /\ RowsUnderTheirCalendar
    /\ ChangesOfUsedIds
    /\ RequestsStillHold
    /\ LogMatchesToken
    /\ EveryPathHasLatest
    /\ LatestChangeIsTrue

=============================================================================
