---------------------------- MODULE PostgresStore ----------------------------
(***************************************************************************)
(* The object store on PostgreSQL (storage/postgres).  The handlers are    *)
(* those of CalendarStore; here the statements of a transaction are steps, *)
(* each seeing what has committed when it runs (READ COMMITTED, the        *)
(* default that BeginTx(ctx, nil) takes), and writes are kept apart by row *)
(* locks and by uncommitted entries of unique indexes, both held until the *)
(* transaction ends.  The tables hold what has committed; tx[p] holds what *)
(* the transaction of p has done so far.  Ids are assigned on commit: the  *)
(* gaps that rolled back SERIALs leave are not visible.                    *)
(***************************************************************************)
EXTENDS CalendarStore

\* the foreign keys are enforced on every connection
ASSUME EnforcedAssumption == Conns # {} /\ FKConns = Conns

VARIABLE tx       \* the open transaction of each goroutine

pgvars == <<calendars, objects, changes, nextCal, nextRow, req, issued, tx>>

\* a key of the unique indexes on path and on (calendar_id, uid)
PathKey(op)   == <<"path", op>>
UidKey(c, d)  == <<"uid", c, UidOf[d]>>
KeysOfRow(o)  == {PathKey(objects[o].path), UidKey(objects[o].cal, objects[o].data)}

IndexKeys == {PathKey(op) : op \in ObjPaths}
             \cup {UidKey(c, d) : c \in 1 .. MaxRequests, d \in Data}

\* rows: object rows it has locked; keys: index entries it has added;
\* mode: its lock on the row cal of calendars; bumped: the sync_token it wrote
\* there; token: the one it read back; seen: the rows that its DELETE selected;
\* names: owner and path of the calendar that its DELETE names; stale: the last
\* answer was 404 for what had been created again meanwhile
Statements   == {"none", "rows", "key", "fkey", "bump", "read", "commit",
                 "drop", "cascade"}
Modes        == {"none", "key share", "no key update", "update"}
Transaction  == [pc : Statements, rows : SUBSET (Nat \ {0}),
                 keys : SUBSET IndexKeys, cal : Nat, mode : Modes,
                 bumped : Nat, token : Nat, seen : SUBSET (Nat \ {0}),
                 names : SUBSET [user : Users, path : CalPaths], stale : BOOLEAN]

NoTx == [pc |-> "none", rows |-> {}, keys |-> {}, cal |-> NoRow,
         mode |-> "none", bumped |-> 0, token |-> 0, seen |-> {},
         names |-> {}, stale |-> FALSE]

PgTypeOK == TypeOK /\ tx \in [Procs -> Transaction]

Dropping(p) == tx[p].pc \in {"drop", "cascade"}
Busy(p)     == req[p].pc # "idle" \/ Dropping(p)

-----------------------------------------------------------------------------
(* Locks.                                                                  *)

RowHolders(p, rows) == {q \in Procs \ {p} : tx[q].rows \cap rows # {}}

\* an entry is uncommitted when it was added by an open transaction, or belongs
\* to a row that one is updating or deleting
KeyHolders(p, k) ==
    {q \in Procs \ {p} :
        \/ k \in tx[q].keys
        \/ \E o \in tx[q].rows \cap DOMAIN objects : k \in KeysOfRow(o)}

\* once no open transaction holds it, a duplicate is an error
KeyTaken(p, k) == \E o \in DOMAIN objects \ tx[p].rows : k \in KeysOfRow(o)

\* PostgreSQL's table of conflicting row locks
Conflicting == [m \in Modes |->
    CASE m = "none"          -> {}
      [] m = "key share"     -> {"update"}
      [] m = "no key update" -> {"no key update", "update"}
      [] m = "update"        -> {"key share", "no key update", "update"}]

CalHolders(p, c, mode) ==
    {q \in Procs \ {p} : tx[q].cal = c /\ tx[q].mode \in Conflicting[mode]}

-----------------------------------------------------------------------------
(* The order of the statements: after each, the next.  The UNIQUE and        *)
(* REFERENCES checks of an INSERT, and the UNIQUE check of an UPDATE, are  *)
(* steps of their own.                                                     *)

InsertOrder == [none |-> "key", key |-> "fkey", fkey |-> "bump", bump |-> "read",
                read |-> "commit"]
UpdateOrder == [none |-> "key", key |-> "bump", bump |-> "read", read |-> "commit"]
DeleteOrder == [none |-> "rows", rows |-> "bump", bump |-> "read", read |-> "commit"]

\* faulty: DeleteCalendarObject bumps the token before it deletes the row
BumpFirst(p) ==
    IF req[p].pc = "delete"
    THEN [none |-> "bump", bump |-> "read", read |-> "rows", rows |-> "commit"][tx[p].pc]
    ELSE IF req[p].row = NoRow THEN InsertOrder[tx[p].pc] ELSE UpdateOrder[tx[p].pc]

\* the statement after the present one
Following(p) ==
    IF req[p].pc = "delete" THEN DeleteOrder[tx[p].pc]
    ELSE IF req[p].row = NoRow THEN InsertOrder[tx[p].pc] ELSE UpdateOrder[tx[p].pc]

\* faulty: no deferred Rollback, the transaction stays open
KeepLocks(p) == tx' = [tx EXCEPT ![p].pc = "none"]

\* defer tx.Rollback(), or the end of COMMIT
EndTx(p) == tx' = [tx EXCEPT ![p] = NoTx]

\* the transaction is rolled back, the handler answers
RollBack(p, status) ==
    /\ EndTx(p)
    /\ Finish(p, status)
    /\ UNCHANGED <<tables, issued>>

Local(p) == UNCHANGED <<tables, req, issued>>

-----------------------------------------------------------------------------
(* Before the transaction: the same statements as in CalendarStore.        *)

Ready(p) == ~Dropping(p) /\ tx' = [tx EXCEPT ![p] = NoTx]

\* an INSERT waits for an open transaction that has updated or is deleting the
\* calendar with its path
PgCreateCalendar(p, u, cp) ==
    /\ Ready(p)
    /\ \A c \in CalendarsAt(cp) : CalHolders(p, c, "no key update") = {}
    /\ CreateCalendar(p, u, cp)

PgPutFindCalendar(p, u, op, d, cond) ==
    Ready(p) /\ PutFindCalendar(p, u, op, d, cond)

PgPutFindExisting(p) == PutFindExisting(p) /\ UNCHANGED tx

PgDeleteFindCalendar(p, u, op) ==
    Ready(p) /\ DeleteFindCalendar(p, u, op)

-----------------------------------------------------------------------------
(* The transaction of PUT.                                                 *)

\* UPDATE ... WHERE id: it waits for the row, and then finds it or not
UpdateRow(p) ==
    /\ req[p].pc = "commit" /\ req[p].row # NoRow /\ tx[p].pc = "none"
    /\ \/ /\ req[p].row \in DOMAIN objects
          /\ RowHolders(p, {req[p].row}) = {}
          /\ tx' = [tx EXCEPT ![p].pc = Following(p), ![p].rows = {req[p].row}]
       \/ /\ req[p].row \notin DOMAIN objects      \* 0 rows, no error
          /\ tx' = [tx EXCEPT ![p].pc = "bump"]
    /\ Local(p)

\* INSERT: the entry of UNIQUE(path)
InsertRow(p) ==
    /\ req[p].pc = "commit" /\ req[p].row = NoRow /\ tx[p].pc = "none"
    /\ LET k == PathKey(req[p].path) IN
       /\ KeyHolders(p, k) = {}
       /\ \/ KeyTaken(p, k) /\ RollBack(p, "error")
          \/ /\ ~KeyTaken(p, k)
             /\ tx' = [tx EXCEPT ![p].pc = Following(p), ![p].keys = {k}]
             /\ Local(p)

\* the calendar_id of the row that is written
RowCal(r) == IF r.row = NoRow THEN r.cal ELSE objects[r.row].cal

\* the entry of UNIQUE(calendar_id, uid), for INSERT and for UPDATE
WriteUid(p) ==
    /\ tx[p].pc = "key"
    /\ LET k == UidKey(RowCal(req[p]), req[p].data) IN
       /\ KeyHolders(p, k) = {}
       /\ \/ KeyTaken(p, k) /\ RollBack(p, "error")
          \/ /\ ~KeyTaken(p, k)
             /\ tx' = [tx EXCEPT ![p].pc = Following(p),
                                 ![p].keys = @ \cup {k}]
             /\ Local(p)

\* REFERENCES calendars(id): the calendar row is locked FOR KEY SHARE
CheckForeignKey(p) ==
    /\ tx[p].pc = "fkey"
    /\ CalHolders(p, req[p].cal, "key share") = {}
    /\ \/ req[p].cal \notin Live /\ RollBack(p, "error")
       \/ /\ req[p].cal \in Live
          /\ tx' = [tx EXCEPT ![p].pc = Following(p), ![p].cal = req[p].cal,
                              ![p].mode = "key share"]
          /\ Local(p)

-----------------------------------------------------------------------------
(* The end of both transactions.                                           *)

\* faulty: the token is computed from an earlier SELECT, without the row's lock
BumpUnlocked(p) ==
    /\ tx[p].pc = "bump" /\ req[p].cal \in Live
    /\ tx' = [tx EXCEPT ![p].pc = Following(p), ![p].cal = req[p].cal,
                        ![p].mode = "key share",
                        ![p].bumped = calendars[req[p].cal].token + 1]
    /\ Local(p)

\* UPDATE calendars SET sync_token = sync_token + 1: no key column changes
Bump(p) ==
    /\ tx[p].pc = "bump"
    /\ \/ /\ req[p].cal \notin Live               \* 0 rows, no error
          /\ tx' = [tx EXCEPT ![p].pc = Following(p)]
       \/ /\ req[p].cal \in Live
          /\ CalHolders(p, req[p].cal, "no key update") = {}
          /\ tx' = [tx EXCEPT ![p].pc = Following(p), ![p].cal = req[p].cal,
                              ![p].mode = "no key update",
                              ![p].bumped = calendars[req[p].cal].token + 1]
    /\ Local(p)

\* SELECT sync_token: a transaction sees its own update
ReadBack(p) ==
    /\ tx[p].pc = "read"
    /\ \/ req[p].cal \notin Live /\ RollBack(p, "error")
       \/ /\ req[p].cal \in Live
          /\ tx' = [tx EXCEPT ![p].pc = Following(p),
                      ![p].token = IF tx[p].cal = req[p].cal THEN tx[p].bumped
                                   ELSE calendars[req[p].cal].token]
          /\ Local(p)

\* INSERT INTO sync_changes and COMMIT of both updates
CommitChange(p, type) ==
    /\ calendars' = [calendars EXCEPT ![req[p].cal].token = tx[p].bumped]
    /\ changes' = changes \cup {[cal |-> req[p].cal, path |-> req[p].path,
                                 type |-> type, token |-> tx[p].token]}
    /\ EndTx(p)
    /\ Committed(p)

CommitPut(p) ==
    /\ req[p].pc = "commit" /\ tx[p].pc = "commit"
    /\ WriteRow(req[p])
    /\ CommitChange(p, IF req[p].row = NoRow THEN "created" ELSE "modified")
    /\ UNCHANGED <<nextCal, issued>>

-----------------------------------------------------------------------------
(* The transaction of DELETE of an object.                                 *)

\* DELETE ... WHERE path AND calendar_id: the rows are chosen first, and each
\* is waited for; one that has gone by then is skipped
SelectRows(p) ==
    /\ req[p].pc = "delete" /\ tx[p].pc = "none"
    /\ tx' = [tx EXCEPT ![p].pc = Following(p),
                        ![p].seen = RowsAt(req[p].path) \cap RowsOf(req[p].cal)]
    /\ Local(p)

\* faulty: rows that others have locked are skipped
FoundUnlocked(p) ==
    {o \in tx[p].seen \cap DOMAIN objects : RowHolders(p, {o}) = {}}

Found(p) == tx[p].seen \cap DOMAIN objects

\* all rows there are newer than the ones selected
RowCreatedSince(p) ==
    LET there == RowsAt(req[p].path) \cap RowsOf(req[p].cal) IN
    there # {} /\ there \cap tx[p].seen = {}

DeleteRows(p) ==
    /\ tx[p].pc = "rows"
    /\ RowHolders(p, Found(p)) = {}
    /\ \/ /\ Found(p) = {}                   \* RowsAffected() = 0
          /\ tx' = [tx EXCEPT ![p] = [NoTx EXCEPT !.stale = RowCreatedSince(p)]]
          /\ Finish(p, "notfound")
          /\ UNCHANGED <<tables, issued>>
       \/ /\ Found(p) # {}
          /\ tx' = [tx EXCEPT ![p].pc = Following(p), ![p].rows = Found(p)]
          /\ Local(p)

CommitDelete(p) ==
    /\ req[p].pc = "delete" /\ tx[p].pc = "commit"
    /\ objects' = Restrict(objects, DOMAIN objects \ tx[p].rows)
    /\ CommitChange(p, "deleted")
    /\ UNCHANGED <<nextCal, nextRow, issued>>

-----------------------------------------------------------------------------
(* DELETE of a collection: one statement, which locks the calendar row FOR *)
(* UPDATE and then, cascading, each of its objects.                        *)

CalendarsOf(u, cp) == {c \in CalendarsAt(cp) : calendars[c].user = u}

SelectCalendar(p, u, cp) ==
    /\ ~Dropping(p)
    /\ Start(p)
    /\ \/ /\ CalendarsOf(u, cp) = {}
          /\ tx' = [tx EXCEPT ![p] = NoTx]
          /\ Finish(p, "notfound")
       \/ \E c \in CalendarsOf(u, cp) :
             /\ tx' = [tx EXCEPT ![p] =
                   [NoTx EXCEPT !.pc = "drop", !.seen = {c}, !.stale = tx[p].stale,
                                !.names = {[user |-> u, path |-> cp]}]]
             /\ UNCHANGED req
    /\ UNCHANGED tables

\* the calendar that it selected has gone, and there is another
CalendarCreatedSince(p) ==
    \A name \in tx[p].names : CalendarsOf(name.user, name.path) # {}

LockCalendar(p) ==
    /\ tx[p].pc = "drop"
    /\ \E c \in tx[p].seen :
          \/ /\ c \notin Live
             /\ tx' = [tx EXCEPT ![p] = [NoTx EXCEPT !.stale = CalendarCreatedSince(p)]]
             /\ Finish(p, "notfound")
             /\ UNCHANGED <<tables, issued>>
          \/ /\ c \in Live
             /\ CalHolders(p, c, "update") = {}
             /\ tx' = [tx EXCEPT ![p].pc = "cascade", ![p].cal = c,
                                 ![p].mode = "update"]
             /\ Local(p)

CascadeTo(p, o) ==
    /\ tx[p].pc = "cascade"
    /\ o \in RowsOf(tx[p].cal) \ tx[p].rows
    /\ RowHolders(p, {o}) = {}
    /\ tx' = [tx EXCEPT ![p].rows = @ \cup {o}]
    /\ Local(p)

CommitDrop(p) ==
    /\ tx[p].pc = "cascade"
    /\ RowsOf(tx[p].cal) \subseteq tx[p].rows
    /\ calendars' = Restrict(calendars, Live \ {tx[p].cal})
    /\ objects' = Restrict(objects, DOMAIN objects \ tx[p].rows)
    /\ changes' = {ch \in changes : ch.cal # tx[p].cal}
    /\ EndTx(p)
    /\ Committed(p)
    /\ UNCHANGED <<nextCal, nextRow, issued>>

-----------------------------------------------------------------------------
(* Failures.                                                               *)

\* a statement fails, the context is cancelled or the process restarts
Abort(p) == Busy(p) /\ RollBack(p, "error")

FailAtOnce(p) == Ready(p) /\ Fail(p) /\ req[p].pc = "idle"

\* whom the next statement of p waits for
WaitsFor(p) ==
    LET r == req[p]  t == tx[p] IN
    CASE t.pc = "none" /\ r.pc = "commit" /\ r.row # NoRow -> RowHolders(p, {r.row})
      [] t.pc = "none" /\ r.pc = "commit" /\ r.row = NoRow -> KeyHolders(p, PathKey(r.path))
      [] t.pc = "key"  -> KeyHolders(p, UidKey(RowCal(r), r.data))
      [] t.pc = "fkey" -> CalHolders(p, r.cal, "key share")
      [] t.pc = "bump" -> CalHolders(p, r.cal, "no key update")
      [] t.pc = "rows" -> RowHolders(p, t.seen)
      [] t.pc = "drop" -> UNION {CalHolders(p, c, "update") : c \in t.seen}
      [] t.pc = "cascade" -> RowHolders(p, RowsOf(t.cal))
      [] OTHER -> {}

\* p waits, possibly through others, for q
Awaits(p, q) ==
    \A S \in SUBSET Procs :
        (WaitsFor(p) \subseteq S /\ \A x \in S : WaitsFor(x) \subseteq S) => q \in S

Deadlocked(p) == Awaits(p, p)

\* those who wait for p and for whom p waits
Circle(p) == {q \in Procs : Awaits(p, q) /\ Awaits(q, p)}

\* PostgreSQL's detector makes some member of the cycle fail
BreakDeadlock(p) == Deadlocked(p) /\ Abort(p)

-----------------------------------------------------------------------------

PgInit == Init /\ tx = [p \in Procs |-> NoTx]

Arrive(p) ==
    \/ \E u \in Users, cp \in CalPaths :
          PgCreateCalendar(p, u, cp) \/ SelectCalendar(p, u, cp)
    \/ \E u \in Users, op \in ObjPaths, d \in Data, cond \in Conds :
          PgPutFindCalendar(p, u, op, d, cond)
    \/ \E u \in Users, op \in ObjPaths : PgDeleteFindCalendar(p, u, op)
    \/ FailAtOnce(p)

Proceed(p) ==
    \/ PgPutFindExisting(p)
    \/ UpdateRow(p) \/ InsertRow(p) \/ WriteUid(p) \/ CheckForeignKey(p)
    \/ Bump(p) \/ ReadBack(p) \/ CommitPut(p)
    \/ SelectRows(p) \/ DeleteRows(p) \/ CommitDelete(p)
    \/ LockCalendar(p) \/ (\E o \in DOMAIN objects : CascadeTo(p, o))
    \/ CommitDrop(p)

PgNext == \E p \in Procs :
    Arrive(p) \/ Proceed(p) \/ Abort(p) \/ BreakDeadlock(p)

\* handlers and database go on, and the detector runs: a request is not
\* abandoned between two of its statements
PgFairness == \A p \in Procs : /\ WF_pgvars(Proceed(p))
                               /\ WF_pgvars(BreakDeadlock(p))

PgSpec == PgInit /\ [][PgNext]_pgvars /\ PgFairness

-----------------------------------------------------------------------------
(* Properties.                                                             *)

\* What the tables show, and what the handlers answer, is what CalendarStore
\* says when it takes every transaction as one step, the 404s of a DELETE that
\* had to wait included.  The DELETE of a calendar counts as a request that has
\* not begun until it ends.  A 404 for what has been created again is true of an
\* earlier moment of the same request, the one when the others' DELETE
\* committed; CalendarStore answers at the last one, and is shown a failure.
ReqShown    == [p \in Procs |-> IF tx[p].stale THEN [req[p] EXCEPT !.status = "error"]
                                               ELSE req[p]]
IssuedShown == issued - Cardinality({p \in Procs : Dropping(p)})

Store == INSTANCE CalendarStore WITH req <- ReqShown, issued <- IssuedShown

ImplementsStore == Store!Spec

\* Requests that only write objects take the lock of a row before that of its
\* calendar, and the bump does not conflict with the key share of a foreign key
\* check: two requests of a circle wait for UIDs that others are writing, or one
\* of them is a DELETE of a calendar.
DeadlocksNeedDropOrExchange ==
    \A p \in Procs : Deadlocked(p) =>
        \E q, s \in Circle(p) :
            \/ Dropping(q)
            \/ q # s /\ tx[q].pc = "key" /\ tx[s].pc = "key"

\* Every request is answered, although they lock rows in opposite orders and
\* none sets a timeout: a transaction that ends in any way lets its locks go.
EveryRequestEnds == \A p \in Procs : Busy(p) ~> ~Busy(p)

=============================================================================
