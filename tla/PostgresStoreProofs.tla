------------------------ MODULE PostgresStoreProofs ------------------------
(* Theorems about PostgresStore, for any number of users, paths, handlers   *)
(* and requests: the locks and what each transaction may rely on between   *)
(* its statements, and that the whole implements CalendarStore.            *)
EXTENDS PostgresStore, CalendarStoreProofs, FiniteSetTheorems

-----------------------------------------------------------------------------
(* What makes the properties inductive.  t is a transaction, r the request *)
(* of the same goroutine.                                                  *)

Late == {"bump", "read", "commit"}     \* after the row has been written

HoldsNothing(t) == t.rows = {} /\ t.keys = {} /\ t.mode = "none"

\* how far the transaction has come, and what it holds then
Progress(t, r) ==
    /\ t.pc \in {"none", "rows", "drop"} => HoldsNothing(t)
    /\ t.pc \in {"drop", "cascade"} <=> r.pc = "idle" /\ t.pc # "none"
    /\ t.pc # "none" => r.pc # "find"
    /\ t.pc \in {"key", "fkey"} => r.pc = "commit" /\ t.mode = "none"
    /\ t.pc = "rows" => r.pc = "delete"
    /\ t.pc = "fkey" => r.row = NoRow
    /\ t.pc = "bump" => t.mode \in {"none", "key share"}
    /\ t.pc = "cascade" <=> t.mode = "update"
    /\ t.mode = "key share" => t.pc = "bump"
    /\ t.mode = "no key update" => t.pc \in {"read", "commit"}
    /\ t.pc = "commit" => t.mode = "no key update" /\ t.token = t.bumped
    /\ r.pc # "commit" => t.keys = {}
    /\ t.stale => r.pc = "idle"

\* the index entries and the row of a PUT
PutHolds(t, r) ==
    /\ t.pc = "key" => IF r.row = NoRow THEN t.rows = {} /\ t.keys = {PathKey(r.path)}
                                        ELSE t.rows = {r.row} /\ t.keys = {}
    /\ t.pc \in {"fkey"} \cup Late =>
          \/ /\ r.row = NoRow /\ t.rows = {}
             /\ t.keys = {PathKey(r.path), UidKey(r.cal, r.data)}
          \/ /\ r.row # NoRow /\ t.rows = {r.row}
             /\ t.keys = {UidKey(objects[r.row].cal, r.data)}
          \/ r.row # NoRow /\ r.row \notin DOMAIN objects /\ t.rows = {} /\ t.keys = {}

\* the rows of a DELETE of an object, seen and then locked
DeleteHolds(t, r) ==
    /\ t.pc = "rows" => \A o \in t.seen :
          o < nextRow /\ (o \in DOMAIN objects => objects[o].path = r.path
                                                  /\ objects[o].cal = r.cal)
    /\ t.pc \in Late => /\ t.rows # {}
                        /\ \A o \in t.rows : /\ objects[o].path = r.path
                                             /\ objects[o].cal = r.cal

\* the lock on a row of calendars keeps it there, and keeps its token
CalendarHeld(t, r) ==
    /\ t.mode # "none" => t.cal \in Live
    /\ t.pc \in Late /\ t.mode # "none" => t.cal = r.cal
    /\ t.mode = "no key update" => t.bumped = calendars[t.cal].token + 1
    /\ t.pc = "read" => t.mode = "no key update" \/ r.cal \notin Live
    /\ t.pc = "cascade" => \A o \in t.rows : objects[o].cal = t.cal

TransactionOK(t, r) ==
    /\ Progress(t, r)
    /\ r.pc = "commit" => PutHolds(t, r)
    /\ r.pc = "delete" => DeleteHolds(t, r)
    /\ CalendarHeld(t, r)
    /\ t.rows \subseteq DOMAIN objects
    /\ \A k \in t.keys, o \in DOMAIN objects \ t.rows : k \notin KeysOfRow(o)

\* two transactions hold no row, no index entry and no conflicting lock at once
Apart(t, u) ==
    /\ t.rows \cap u.rows = {}
    /\ t.keys \cap u.keys = {}
    /\ t.cal = u.cal => u.mode \notin Conflicting[t.mode]

PgInv ==
    /\ IndInv
    /\ NoOrphans
    /\ tx \in [Procs -> Transaction]
    /\ \A p \in Procs : TransactionOK(tx[p], req[p])
    /\ \A p, q \in Procs : p # q => Apart(tx[p], tx[q])
    /\ nextCal - 1 <= issued
    /\ IsFiniteSet({p \in Procs : Dropping(p)})

-----------------------------------------------------------------------------
(* Transactions that have nothing to do with each other.                   *)

\* The table of conflicts is symmetric.
LEMMA ConflictTable ==
    /\ Conflicting["none"] = {}
    /\ Conflicting["key share"] = {"update"}
    /\ Conflicting["no key update"] = {"no key update", "update"}
    /\ Conflicting["update"] = {"key share", "no key update", "update"}
    /\ \A m, n \in Modes : m \in Conflicting[n] <=> n \in Conflicting[m]
<1>1. /\ Conflicting["none"] = {}
      /\ Conflicting["key share"] = {"update"}
      /\ Conflicting["no key update"] = {"no key update", "update"}
      /\ Conflicting["update"] = {"key share", "no key update", "update"}
  BY DEF Conflicting, Modes
<1>. QED  BY <1>1 DEF Modes

LEMMA ApartSymmetric ==
    ASSUME NEW t \in Transaction, NEW u \in Transaction, Apart(t, u)
    PROVE  Apart(u, t)
  BY ConflictTable DEF Apart, Transaction

LEMMA NothingIsApart ==
    ASSUME NEW t \in Transaction, NEW u \in Transaction, HoldsNothing(t)
    PROVE  Apart(t, u)
  BY ConflictTable DEF Apart, HoldsNothing

\* An index entry that no other transaction holds may be added.
LEMMA EntryAdded ==
    ASSUME NEW t, NEW u, NEW w, NEW k, Apart(t, u), w.rows = t.rows,
           w.keys = t.keys \cup {k}, w.mode = "none", k \notin u.keys
    PROVE  Apart(w, u)
<1>1. w.rows \cap u.rows = {}
  BY DEF Apart
<1>2. w.keys \cap u.keys = {}
  <2>1. t.keys \cap u.keys = {}
    BY DEF Apart
  <2>. QED  BY <2>1
<1>3. u.mode \notin Conflicting[w.mode]
  BY ConflictTable
<1>. QED  BY <1>1, <1>2, <1>3 DEF Apart

\* Rows that no other transaction has locked, and a lock on a row of calendars
\* that does not conflict with those of others, may be taken.
LEMMA LocksTaken ==
    ASSUME NEW t, NEW u, NEW w, NEW S, Apart(t, u), w.rows = t.rows \cup S,
           S \cap u.rows = {}, w.keys = t.keys,
           w.cal = u.cal => u.mode \notin Conflicting[w.mode]
    PROVE  Apart(w, u)
<1>1. w.rows \cap u.rows = {}
  <2>1. t.rows \cap u.rows = {}
    BY DEF Apart
  <2>. QED  BY <2>1
<1>2. w.keys \cap u.keys = {}
  BY DEF Apart
<1>. QED  BY <1>1, <1>2 DEF Apart

LEMMA OneTransaction ==
    ASSUME tx \in [Procs -> Transaction], NEW p \in Procs, NEW t \in Transaction,
           tx' = [tx EXCEPT ![p] = t]
    PROVE  /\ tx' \in [Procs -> Transaction]
           /\ tx'[p] = t
           /\ \A q \in Procs \ {p} : tx'[q] = tx[q]
  OBVIOUS

\* One transaction becomes t, and its request r; the others stay what they are
\* and right for the tables.
LEMMA Advance ==
    ASSUME PgInv, IndInv', NoOrphans', nextCal' - 1 <= issued',
           NEW p \in Procs, NEW t \in Transaction, tx' = [tx EXCEPT ![p] = t],
           NEW r, r = req'[p], TransactionOK(t, r)',
           \A q \in Procs \ {p} : Apart(t, tx[q]),
           \A q \in Procs \ {p} : req'[q] = req[q],
           \A q \in Procs \ {p} : \A u, s :
              u = tx[q] /\ s = req[q] => TransactionOK(u, s)'
    PROVE  PgInv'
<1>1. /\ tx' \in [Procs -> Transaction] /\ tx'[p] = t
      /\ \A q \in Procs \ {p} : tx'[q] = tx[q]
  BY OneTransaction DEF PgInv
<1>2. ASSUME NEW q \in Procs
      PROVE  TransactionOK(tx[q], req[q])'
  <2>1. PICK u, s : u = tx'[q] /\ s = req'[q]
    OBVIOUS
  <2>2. TransactionOK(u, s)'
    BY <1>1, <2>1
  <2>3. Progress(tx[q], req[q])'
    <3>1. Progress(u, s)
      BY <2>2 DEF TransactionOK, Progress, HoldsNothing
    <3>2. Progress(tx'[q], req'[q])
      BY <2>1, <3>1
    <3>. QED  BY <3>2 DEF Progress, HoldsNothing
  <2>4. (req[q].pc = "commit" => PutHolds(tx[q], req[q]))'
    BY <2>1, <2>2 DEF TransactionOK, PutHolds
  <2>5. (req[q].pc = "delete" => DeleteHolds(tx[q], req[q]))'
    BY <2>1, <2>2 DEF TransactionOK, DeleteHolds
  <2>6. CalendarHeld(tx[q], req[q])'
    BY <2>1, <2>2 DEF TransactionOK, CalendarHeld
  <2>7. (/\ tx[q].rows \subseteq DOMAIN objects
         /\ \A k \in tx[q].keys, o \in DOMAIN objects \ tx[q].rows : k \notin KeysOfRow(o))'
    BY <2>1, <2>2 DEF TransactionOK, KeysOfRow
  <2>. QED  BY <2>3, <2>4, <2>5, <2>6, <2>7 DEF TransactionOK
<1>3. ASSUME NEW x \in Procs, NEW y \in Procs, x # y
      PROVE  Apart(tx[x], tx[y])'
  <2>1. tx[x] \in Transaction /\ tx[y] \in Transaction
    BY DEF PgInv
  <2>2. Apart(tx'[x], tx'[y])
    BY <1>1, <1>3, <2>1, ApartSymmetric DEF PgInv
  <2>. QED  BY <2>2 DEF Apart
<1>4. IsFiniteSet({q \in Procs : Dropping(q)}')
  <2>1. {q \in Procs : Dropping(q)}' \subseteq {q \in Procs : Dropping(q)} \cup {p}
    BY <1>1 DEF Dropping
  <2>. QED  BY <2>1, FS_AddElement, FS_Subset DEF PgInv
<1>. QED  BY <1>1, <1>2, <1>3, <1>4 DEF PgInv

\* What is right for a transaction stays right as long as the rows and the
\* calendar that it has locked, and its index entries, are left to it.
LEMMA LeftAlone ==
    ASSUME NEW t \in Transaction, NEW r \in Requests, TransactionOK(t, r),
           r.pc # "idle" => r.cal \in Live \/ r.cal \notin Live',
           r.pc = "commit" => r.row \in DOMAIN objects \/ r.row \notin DOMAIN objects',
           \A o \in DOMAIN objects \cap DOMAIN objects' :
              objects'[o].path = objects[o].path /\ objects'[o].cal = objects[o].cal,
           \A o \in DOMAIN objects' : o < nextRow => o \in DOMAIN objects,
           \A o \in Nat : o < nextRow => o < nextRow',
           t.rows \subseteq DOMAIN objects',
           \A k \in t.keys, o \in DOMAIN objects' \ t.rows : k \notin KeysOfRow(o)',
           t.mode # "none" => t.cal \in Live',
           t.mode = "no key update" => calendars'[t.cal].token = calendars[t.cal].token
    PROVE  TransactionOK(t, r)'
<1>1. Progress(t, r)'
  BY DEF TransactionOK, Progress, HoldsNothing
<1>2. (r.pc = "commit" => PutHolds(t, r))'
  BY DEF TransactionOK, PutHolds
<1>3. ASSUME r.pc = "delete"
      PROVE  DeleteHolds(t, r)'
  <2>1. DeleteHolds(t, r) /\ t.rows \subseteq DOMAIN objects /\ t.seen \subseteq Nat
    BY <1>3 DEF TransactionOK, Transaction
  <2>2. ASSUME t.pc = "rows", NEW o \in t.seen
        PROVE  /\ o < nextRow'
               /\ o \in DOMAIN objects' => objects'[o].path = r.path /\ objects'[o].cal = r.cal
    <3>1. o < nextRow /\ o \in Nat
      BY <2>1, <2>2 DEF DeleteHolds
    <3>2. o \in DOMAIN objects' => o \in DOMAIN objects
      BY <3>1
    <3>3. o \in DOMAIN objects => objects[o].path = r.path /\ objects[o].cal = r.cal
      BY <2>1, <2>2 DEF DeleteHolds
    <3>4. o < nextRow'
      BY <3>1
    <3>5. ASSUME o \in DOMAIN objects'
          PROVE  objects'[o].path = r.path /\ objects'[o].cal = r.cal
      <4>1. o \in DOMAIN objects \cap DOMAIN objects'
        BY <3>2, <3>5
      <4>. QED  BY <3>3, <4>1
    <3>. QED  BY <3>4, <3>5
  <2>3. ASSUME t.pc \in Late
        PROVE  /\ t.rows # {}
               /\ \A o \in t.rows : objects'[o].path = r.path /\ objects'[o].cal = r.cal
    BY <2>1, <2>3 DEF DeleteHolds
  <2>. QED  BY <2>2, <2>3 DEF DeleteHolds
<1>4. CalendarHeld(t, r)'
  <2>1. t.pc \in {"read"} => r.pc # "idle"
    BY DEF TransactionOK, Progress
  <2>. QED  BY <2>1 DEF TransactionOK, CalendarHeld
<1>. QED  BY <1>1, <1>2, <1>3, <1>4 DEF TransactionOK

LEMMA RequestOf ==
    ASSUME PgInv, NEW p \in Procs
    PROVE  /\ req[p] \in Requests /\ tx[p] \in Transaction
           /\ TransactionOK(tx[p], req[p])
           /\ req[p].pc # "idle" => FoundCalendar(req[p])
           /\ req[p].pc = "commit" => FoundRow(req[p])
           /\ nextRow \in Nat /\ nextCal \in Nat /\ issued \in Nat
           /\ DOMAIN objects \subseteq Nat \ {0}
  BY BoundAssumption DEF PgInv, IndInv, TypeOK, Requests, RequestsStillHold

\* A statement leaves the tables alone: it only takes its transaction further.
LEMMA SameTables ==
    ASSUME PgInv, IndInv', UNCHANGED tables, issued <= issued', issued' \in Nat,
           NEW p \in Procs, NEW t \in Transaction, tx' = [tx EXCEPT ![p] = t],
           NEW r, r = req'[p], TransactionOK(t, r),
           \A q \in Procs \ {p} : Apart(t, tx[q]),
           \A q \in Procs \ {p} : req'[q] = req[q]
    PROVE  PgInv'
<1> USE DEF tables
<1>1. ASSUME NEW u, NEW s, TransactionOK(u, s)
      PROVE  TransactionOK(u, s)'
  BY <1>1 DEF TransactionOK, Progress, PutHolds, DeleteHolds, CalendarHeld,
              HoldsNothing, KeysOfRow, Live
<1>2. NoOrphans'
  BY DEF PgInv, NoOrphans, Live
<1>3. nextCal' - 1 <= issued'
  BY BoundAssumption DEF PgInv, IndInv, TypeOK
<1>4. TransactionOK(t, r)'
  BY <1>1
<1>5. \A q \in Procs \ {p} : \A u, s :
         u = tx[q] /\ s = req[q] => TransactionOK(u, s)'
  BY <1>1 DEF PgInv
<1>. QED  BY <1>2, <1>3, <1>4, <1>5, Advance

\* A statement that answers nobody.
LEMMA LocalStep ==
    ASSUME PgInv, NEW p \in Procs, Local(p), NEW t \in Transaction,
           tx' = [tx EXCEPT ![p] = t], TransactionOK(t, req[p]),
           \A q \in Procs \ {p} : Apart(t, tx[q])
    PROVE  PgInv'
<1>1. IndInv'
  <2>1. UNCHANGED vars
    BY DEF Local, tables, vars
  <2>2. IndInv
    BY DEF PgInv
  <2>. QED  BY <2>1, <2>2, NextIndInv
<1>2. issued \in Nat /\ UNCHANGED <<tables, req>> /\ issued' = issued
  BY RequestOf DEF Local
<1>3. PICK r : r = req'[p]
  OBVIOUS
<1>4. TransactionOK(t, r) /\ issued <= issued' /\ issued' \in Nat
  BY <1>2, <1>3
<1>. QED  BY <1>1, <1>2, <1>3, <1>4, SameTables

\* The transaction is over, with the tables as they were.
LEMMA OverStep ==
    ASSUME PgInv, IndInv', UNCHANGED tables, issued <= issued', issued' \in Nat,
           NEW p \in Procs, NEW t \in Transaction, tx' = [tx EXCEPT ![p] = t],
           HoldsNothing(t), t.pc = "none",
           t.stale => req'[p].pc = "idle",
           \A q \in Procs \ {p} : req'[q] = req[q]
    PROVE  PgInv'
<1>1. PICK r : r = req'[p]
  OBVIOUS
<1>2. TransactionOK(t, r)
  BY <1>1 DEF TransactionOK, Progress, PutHolds, DeleteHolds, CalendarHeld, HoldsNothing, Late
<1>3. \A q \in Procs \ {p} : Apart(t, tx[q])
  BY NothingIsApart DEF PgInv
<1>. QED  BY <1>1, <1>2, <1>3, SameTables

LEMMA NoTxIsNothing ==
    /\ NoTx \in Transaction /\ HoldsNothing(NoTx) /\ NoTx.pc = "none" /\ ~NoTx.stale
    /\ \A b \in BOOLEAN : LET t == [NoTx EXCEPT !.stale = b] IN
          /\ t \in Transaction /\ HoldsNothing(t) /\ t.pc = "none" /\ t.stale = b
  BY DEF NoTx, Transaction, HoldsNothing, Statements, Modes, NoRow

-----------------------------------------------------------------------------
(* Steps that begin or end a request and leave the tables alone.           *)

LEMMA TableStepIndInv ==
    ASSUME IndInv, TableStep, TypeOK', RequestsStillHold'
    PROVE  IndInv'
  BY UniquePathsStep, RowsUnderTheirCalendarStep, ChangesOfUsedIdsStep,
     LogMatchesTokenStep, EveryPathHasLatestStep, LatestChangeStep DEF IndInv

LEMMA AnswerIndInv ==
    ASSUME IndInv, TableStep, NEW p \in Procs, NEW status \in Answers, Finish(p, status),
           req' \in [Procs -> Requests] => TypeOK'
    PROVE  IndInv'
<1>1. TypeOK /\ TypeOK'
  BY FinishType DEF IndInv
<1>2. \A q \in Procs : Holds(q)
  BY DEF IndInv, RequestsStillHold, Holds
<1>3. \A q \in Procs : Holds(q)'
  BY <1>1, <1>2, RequestAnswered, RequestUntouched
<1>4. RequestsStillHold'
  BY <1>3 DEF RequestsStillHold, Holds
<1>. QED  BY <1>1, <1>4, TableStepIndInv

\* An answer that changes no table.
LEMMA AnswerStep ==
    ASSUME PgInv, NEW p \in Procs, NEW status \in Answers, Finish(p, status),
           UNCHANGED <<tables, issued>>,
           NEW t \in Transaction, HoldsNothing(t), t.pc = "none",
           tx' = [tx EXCEPT ![p] = t]
    PROVE  PgInv'
<1>1. IndInv'
  <2>1. IndInv /\ TableStep
    BY DEF PgInv, TableStep
  <2>2. req' \in [Procs -> Requests] => TypeOK'
    BY DEF PgInv, IndInv, TypeOK, tables, Requests
  <2>. QED  BY <2>1, <2>2, AnswerIndInv
<1>2. /\ req'[p].pc = "idle"
      /\ \A q \in Procs \ {p} : req'[q] = req[q]
  BY DEF Finish, PgInv, IndInv, TypeOK
<1>3. issued \in Nat /\ UNCHANGED tables /\ issued' = issued
  BY RequestOf
<1>4. issued <= issued' /\ issued' \in Nat
  BY <1>3
<1>. QED  BY <1>1, <1>2, <1>3, <1>4, OverStep

LEMMA RollBackStep ==
    ASSUME PgInv, NEW p \in Procs, RollBack(p, "error")
    PROVE  PgInv'
  BY AnswerStep, NoTxIsNothing DEF RollBack, EndTx, Answers

\* The statements before the transaction, none of which writes.
LEMMA LookUpStep ==
    ASSUME PgInv, NEW p \in Procs,
           \/ \E u \in Users, op \in ObjPaths, d \in Data, cond \in Conds :
                 PgPutFindCalendar(p, u, op, d, cond)
           \/ PgPutFindExisting(p)
           \/ \E u \in Users, op \in ObjPaths : PgDeleteFindCalendar(p, u, op)
           \/ FailAtOnce(p)
    PROVE  PgInv'
<1>1. [Next]_vars
  BY DEF PgPutFindCalendar, PgPutFindExisting, PgDeleteFindCalendar, FailAtOnce, Next
<1>2. IndInv' /\ IndInv
  BY <1>1, NextIndInv DEF PgInv
<1>3. UNCHANGED tables /\ issued \in Nat /\ issued' \in Nat /\ (issued' = issued \/ issued' = issued + 1)
  BY RequestOf DEF PgPutFindCalendar, PgPutFindExisting, PgDeleteFindCalendar, FailAtOnce,
     PutFindCalendar, PutFindExisting, DeleteFindCalendar, Fail, Start
<1>4. \A q \in Procs \ {p} : req'[q] = req[q]
  BY DEF PgPutFindCalendar, PgPutFindExisting, PgDeleteFindCalendar, FailAtOnce,
     PutFindCalendar, PutFindExisting, DeleteFindCalendar, Fail, Finish, PgInv, IndInv, TypeOK
<1>5. issued <= issued' /\ issued' \in Nat /\ UNCHANGED tables
  BY <1>3
<1>6. CASE PgPutFindExisting(p)
  <2>1. req[p].pc = "find" /\ tx' = tx
    BY <1>6 DEF PgPutFindExisting, PutFindExisting
  <2>2. tx[p] \in Transaction /\ HoldsNothing(tx[p]) /\ tx[p].pc = "none" /\ ~tx[p].stale
    BY <2>1, RequestOf DEF TransactionOK, Progress
  <2>3. tx' = [tx EXCEPT ![p] = tx[p]]
    BY <2>1 DEF PgInv
  <2>. QED  BY <1>2, <1>4, <1>5, <2>2, <2>3, OverStep
<1>7. CASE Ready(p)
  BY <1>2, <1>4, <1>7, <1>5, NoTxIsNothing, OverStep DEF Ready
<1>. QED  BY <1>6, <1>7 DEF PgPutFindCalendar, PgDeleteFindCalendar, FailAtOnce

-----------------------------------------------------------------------------
(* The statements of the transactions.                                     *)

\* The keys that a PUT may add are keys of the two indexes.
LEMMA KeysOfPut ==
    ASSUME PgInv, NEW p \in Procs, req[p].pc = "commit"
    PROVE  /\ PathKey(req[p].path) \in IndexKeys
           /\ UidKey(req[p].cal, req[p].data) \in IndexKeys
           /\ req[p].row \in DOMAIN objects =>
                 UidKey(objects[req[p].row].cal, req[p].data) \in IndexKeys
<1>1. /\ req[p].path \in ObjPaths /\ req[p].data \in Data
      /\ req[p].cal \in Nat \ {0} /\ req[p].cal < nextCal
  BY RequestOf, RequestTypes DEF PgInv, IndInv, FoundCalendar
<1>2. ASSUME NEW o \in DOMAIN objects
      PROVE  objects[o].cal \in Nat \ {0} /\ objects[o].cal < nextCal
  BY DEF PgInv, IndInv, TypeOK, ObjectRow, RowsUnderTheirCalendar
<1>3. nextCal - 1 <= MaxRequests /\ nextCal \in Nat
  BY BoundAssumption DEF PgInv, IndInv, TypeOK
<1>4. \A c \in Nat \ {0} : c < nextCal => c \in 1 .. MaxRequests
  BY <1>3, BoundAssumption
<1>. QED  BY <1>1, <1>2, <1>4 DEF IndexKeys

LEMMA UpdateRowStep ==
    ASSUME PgInv, NEW p \in Procs, UpdateRow(p)
    PROVE  PgInv'
<1>1. /\ req[p].pc = "commit" /\ req[p].row # NoRow /\ req[p].row \in Nat
      /\ tx[p].pc = "none" /\ Local(p)
      /\ tx[p] \in Transaction /\ TransactionOK(tx[p], req[p])
  BY RequestOf, RequestTypes DEF UpdateRow, PgInv, IndInv
<1>2. HoldsNothing(tx[p]) /\ ~tx[p].stale
  BY <1>1 DEF TransactionOK, Progress
<1>3. CASE /\ req[p].row \in DOMAIN objects
           /\ RowHolders(p, {req[p].row}) = {}
           /\ tx' = [tx EXCEPT ![p].pc = Following(p), ![p].rows = {req[p].row}]
  <2> DEFINE t == [tx[p] EXCEPT !.pc = Following(p), !.rows = {req[p].row}]
  <2>1. Following(p) = "key"
    BY <1>1 DEF Following, UpdateOrder
  <2>2. /\ t \in Transaction /\ t.pc = "key" /\ t.rows = {req[p].row}
        /\ t.keys = {} /\ t.mode = "none" /\ ~t.stale
    BY <1>1, <1>2, <2>1 DEF Transaction, Statements, HoldsNothing, NoRow
  <2>3. tx' = [tx EXCEPT ![p] = t]
    BY <1>3
  <2> HIDE DEF t
  <2>4. TransactionOK(t, req[p])
    BY <1>1, <1>3, <2>2 DEF TransactionOK, Progress, PutHolds, CalendarHeld, Late
  <2>5. \A q \in Procs \ {p} : Apart(t, tx[q])
    BY <1>3, <2>2, ConflictTable DEF RowHolders, Apart
  <2>. QED  BY <1>1, <2>2, <2>3, <2>4, <2>5, LocalStep
<1>4. CASE /\ req[p].row \notin DOMAIN objects
           /\ tx' = [tx EXCEPT ![p].pc = "bump"]
  <2> DEFINE t == [tx[p] EXCEPT !.pc = "bump"]
  <2>1. /\ t \in Transaction /\ t.pc = "bump" /\ t.rows = {}
        /\ t.keys = {} /\ t.mode = "none" /\ ~t.stale
    BY <1>1, <1>2 DEF Transaction, Statements, HoldsNothing
  <2>2. tx' = [tx EXCEPT ![p] = t]
    BY <1>4
  <2> HIDE DEF t
  <2>3. TransactionOK(t, req[p])
    BY <1>1, <1>4, <2>1 DEF TransactionOK, Progress, PutHolds, CalendarHeld, Late
  <2>4. \A q \in Procs \ {p} : Apart(t, tx[q])
    BY <2>1, NothingIsApart DEF PgInv, HoldsNothing
  <2>. QED  BY <1>1, <2>1, <2>2, <2>3, <2>4, LocalStep
<1>. QED  BY <1>3, <1>4 DEF UpdateRow

LEMMA InsertRowStep ==
    ASSUME PgInv, NEW p \in Procs, InsertRow(p)
    PROVE  PgInv'
<1> DEFINE k == PathKey(req[p].path)
<1>1. /\ req[p].pc = "commit" /\ req[p].row = NoRow /\ tx[p].pc = "none"
      /\ tx[p] \in Transaction /\ TransactionOK(tx[p], req[p]) /\ k \in IndexKeys
  BY RequestOf, KeysOfPut DEF InsertRow
<1>2. HoldsNothing(tx[p]) /\ ~tx[p].stale
  BY <1>1 DEF TransactionOK, Progress
<1>3. CASE RollBack(p, "error")
  BY <1>3, RollBackStep
<1>4. CASE /\ ~KeyTaken(p, k) /\ Local(p)
           /\ tx' = [tx EXCEPT ![p].pc = Following(p), ![p].keys = {k}]
  <2> DEFINE t == [tx[p] EXCEPT !.pc = Following(p), !.keys = {k}]
  <2>1. Following(p) = "key"
    BY <1>1 DEF Following, InsertOrder
  <2>2. /\ t \in Transaction /\ t.pc = "key" /\ t.rows = {}
        /\ t.keys = {k} /\ t.mode = "none" /\ ~t.stale
    BY <1>1, <1>2, <2>1 DEF Transaction, Statements, HoldsNothing
  <2>3. tx' = [tx EXCEPT ![p] = t]
    BY <1>4
  <2> HIDE DEF t
  <2>4. \A o \in DOMAIN objects : k \notin KeysOfRow(o)
    BY <1>2, <1>4 DEF KeyTaken, HoldsNothing
  <2>5. TransactionOK(t, req[p])
    BY <1>1, <2>2, <2>4 DEF TransactionOK, Progress, PutHolds, CalendarHeld, Late
  <2>6. \A q \in Procs \ {p} : k \notin tx[q].keys
    BY DEF InsertRow, KeyHolders
  <2>7. \A q \in Procs \ {p} : Apart(t, tx[q])
    <3>1. \A q \in Procs \ {p} : Apart(tx[p], tx[q])
      BY DEF PgInv
    <3>2. t.rows = tx[p].rows /\ t.keys = tx[p].keys \cup {k}
      BY <1>2, <2>2 DEF HoldsNothing
    <3> HIDE DEF k
    <3>. QED  BY <2>2, <2>6, <3>1, <3>2, EntryAdded
  <2>. QED  BY <1>4, <2>2, <2>3, <2>5, <2>7, LocalStep
<1>. QED  BY <1>3, <1>4 DEF InsertRow

LEMMA WriteUidStep ==
    ASSUME PgInv, NEW p \in Procs, WriteUid(p)
    PROVE  PgInv'
<1> DEFINE k == UidKey(RowCal(req[p]), req[p].data)
<1>1. /\ req[p].pc = "commit" /\ tx[p].pc = "key" /\ tx[p].mode = "none"
      /\ tx[p] \in Transaction /\ TransactionOK(tx[p], req[p]) /\ ~tx[p].stale
      /\ PutHolds(tx[p], req[p])
  BY RequestOf DEF WriteUid, TransactionOK, Progress
<1>2. k \in IndexKeys
  BY <1>1, KeysOfPut DEF RowCal, PutHolds, TransactionOK
<1>3. CASE RollBack(p, "error")
  BY <1>3, RollBackStep
<1>4. CASE /\ ~KeyTaken(p, k) /\ Local(p)
           /\ tx' = [tx EXCEPT ![p].pc = Following(p), ![p].keys = @ \cup {k}]
  <2> DEFINE t == [tx[p] EXCEPT !.pc = Following(p), !.keys = tx[p].keys \cup {k}]
  <2>1. Following(p) = IF req[p].row = NoRow THEN "fkey" ELSE "bump"
    BY <1>1 DEF Following, InsertOrder, UpdateOrder
  <2>2. /\ t \in Transaction /\ t.pc = Following(p) /\ t.rows = tx[p].rows
        /\ t.keys = tx[p].keys \cup {k} /\ t.mode = "none" /\ ~t.stale
    BY <1>1, <1>2, <2>1 DEF Transaction, Statements
  <2>3. tx' = [tx EXCEPT ![p] = t]
    BY <1>4
  <2> HIDE DEF t
  <2>4. \A o \in DOMAIN objects \ t.rows : \A x \in t.keys : x \notin KeysOfRow(o)
    BY <1>1, <1>4, <2>2 DEF KeyTaken, TransactionOK
  <2>5. PutHolds(t, req[p])
    BY <1>1, <2>1, <2>2 DEF PutHolds, RowCal, Late
  <2>6. TransactionOK(t, req[p])
    BY <1>1, <2>1, <2>2, <2>4, <2>5 DEF TransactionOK, Progress, CalendarHeld, Late
  <2>7. \A q \in Procs \ {p} : Apart(t, tx[q])
    <3>1. \A q \in Procs \ {p} : k \notin tx[q].keys
      BY DEF WriteUid, KeyHolders
    <3>2. \A q \in Procs \ {p} : Apart(tx[p], tx[q])
      BY DEF PgInv
    <3> HIDE DEF k
    <3>. QED  BY <2>2, <3>1, <3>2, EntryAdded
  <2>. QED  BY <1>4, <2>2, <2>3, <2>6, <2>7, LocalStep
<1>. QED  BY <1>3, <1>4 DEF WriteUid

\* A transaction under way belongs to a request that is not looking anything up.
LEMMA UnderWay ==
    ASSUME PgInv, NEW p \in Procs, tx[p].pc \in {"rows", "key", "fkey"} \cup Late
    PROVE  /\ req[p].pc \in {"commit", "delete"}
           /\ tx[p] \in Transaction /\ TransactionOK(tx[p], req[p]) /\ ~tx[p].stale
           /\ req[p].cal \in Nat \ {0}
           /\ tx[p].pc = "bump" => Following(p) = "read"
           /\ tx[p].pc = "read" => Following(p) = "commit"
<1>1. req[p] \in Requests /\ TransactionOK(tx[p], req[p]) /\ tx[p] \in Transaction
  BY RequestOf
<1>2. req[p].pc \in {"idle", "find", "commit", "delete"}
  BY <1>1 DEF Requests, Idle, PutRequest, DelRequest
<1>3. req[p].pc \in {"commit", "delete"} /\ ~tx[p].stale
  BY <1>1, <1>2 DEF TransactionOK, Progress, Late
<1>. QED  BY <1>1, <1>3, RequestTypes
          DEF PgInv, IndInv, Following, InsertOrder, UpdateOrder, DeleteOrder

LEMMA CheckForeignKeyStep ==
    ASSUME PgInv, NEW p \in Procs, CheckForeignKey(p)
    PROVE  PgInv'
<1>1. /\ tx[p].pc = "fkey" /\ tx[p].mode = "none" /\ req[p].pc = "commit"
      /\ req[p].row = NoRow /\ tx[p] \in Transaction /\ TransactionOK(tx[p], req[p])
      /\ ~tx[p].stale /\ req[p].cal \in Nat
  BY UnderWay DEF CheckForeignKey, TransactionOK, Progress
<1>2. CASE RollBack(p, "error")
  BY <1>2, RollBackStep
<1>3. CASE /\ req[p].cal \in Live /\ Local(p)
           /\ tx' = [tx EXCEPT ![p].pc = Following(p), ![p].cal = req[p].cal,
                               ![p].mode = "key share"]
  <2> DEFINE t == [tx[p] EXCEPT !.pc = Following(p), !.cal = req[p].cal,
                                !.mode = "key share"]
  <2>1. Following(p) = "bump"
    BY <1>1 DEF Following, InsertOrder
  <2>2. /\ t \in Transaction /\ t.pc = "bump" /\ t.rows = tx[p].rows
        /\ t.keys = tx[p].keys /\ t.mode = "key share" /\ t.cal = req[p].cal /\ ~t.stale
    BY <1>1, <2>1 DEF Transaction, Statements, Modes
  <2>3. tx' = [tx EXCEPT ![p] = t]
    BY <1>3
  <2> HIDE DEF t
  <2>4. TransactionOK(t, req[p])
    BY <1>1, <1>3, <2>2 DEF TransactionOK, Progress, PutHolds, CalendarHeld, Late
  <2>5. ASSUME NEW q \in Procs \ {p}
        PROVE  Apart(t, tx[q])
    <3>1. Apart(tx[p], tx[q])
      BY DEF PgInv
    <3>2. t.cal = tx[q].cal => tx[q].mode \notin Conflicting[t.mode]
      BY <2>2 DEF CheckForeignKey, CalHolders
    <3>. QED  BY <2>2, <3>1, <3>2 DEF Apart
  <2>. QED  BY <1>3, <2>2, <2>3, <2>4, <2>5, LocalStep
<1>. QED  BY <1>2, <1>3 DEF CheckForeignKey

LEMMA BumpStep ==
    ASSUME PgInv, NEW p \in Procs, Bump(p)
    PROVE  PgInv'
<1>1. /\ tx[p].pc = "bump" /\ req[p].pc \in {"commit", "delete"}
      /\ tx[p] \in Transaction /\ TransactionOK(tx[p], req[p])
      /\ ~tx[p].stale /\ req[p].cal \in Nat /\ Following(p) = "read" /\ Local(p)
  BY UnderWay DEF Bump, Late
<1>2. CASE /\ req[p].cal \notin Live
           /\ tx' = [tx EXCEPT ![p].pc = Following(p)]
  <2> DEFINE t == [tx[p] EXCEPT !.pc = "read"]
  <2>1. tx[p].mode = "none"
    BY <1>1, <1>2 DEF TransactionOK, CalendarHeld, Late
  <2>2. /\ t \in Transaction /\ t.pc = "read" /\ t.rows = tx[p].rows
        /\ t.keys = tx[p].keys /\ t.mode = "none" /\ ~t.stale
    BY <1>1, <2>1 DEF Transaction, Statements
  <2>3. tx' = [tx EXCEPT ![p] = t]
    BY <1>1, <1>2
  <2> HIDE DEF t
  <2>4. TransactionOK(t, req[p])
    BY <1>1, <1>2, <2>2
       DEF TransactionOK, Progress, PutHolds, DeleteHolds, CalendarHeld, Late
  <2>5. ASSUME NEW q \in Procs \ {p}
        PROVE  Apart(t, tx[q])
    <3>1. Apart(tx[p], tx[q])
      BY DEF PgInv
    <3>. QED  BY <2>2, <3>1, ConflictTable DEF Apart
  <2>. QED  BY <1>1, <2>2, <2>3, <2>4, <2>5, LocalStep
<1>3. CASE /\ req[p].cal \in Live
           /\ CalHolders(p, req[p].cal, "no key update") = {}
           /\ tx' = [tx EXCEPT ![p].pc = Following(p), ![p].cal = req[p].cal,
                               ![p].mode = "no key update",
                               ![p].bumped = calendars[req[p].cal].token + 1]
  <2> DEFINE n == calendars[req[p].cal].token + 1
             t == [tx[p] EXCEPT !.pc = "read", !.cal = req[p].cal,
                                !.mode = "no key update", !.bumped = n]
  <2>1. n \in Nat
    <3>1. calendars[req[p].cal] \in CalendarRow
      BY <1>3 DEF PgInv, IndInv, TypeOK, Live
    <3>. QED  BY <3>1 DEF CalendarRow
  <2>2. tx' = [tx EXCEPT ![p] = t]
    BY <1>1, <1>3
  <2>3. n = calendars[req[p].cal].token + 1
    OBVIOUS
  <2> HIDE DEF n
  <2>4. /\ t \in Transaction /\ t.pc = "read" /\ t.rows = tx[p].rows
        /\ t.keys = tx[p].keys /\ t.mode = "no key update" /\ t.cal = req[p].cal
        /\ t.bumped = n /\ ~t.stale
    BY <1>1, <2>1 DEF Transaction, Statements, Modes
  <2> HIDE DEF t
  <2>5. TransactionOK(t, req[p])
    BY <1>1, <1>3, <2>3, <2>4
       DEF TransactionOK, Progress, PutHolds, DeleteHolds, CalendarHeld, Late
  <2>6. ASSUME NEW q \in Procs \ {p}
        PROVE  Apart(t, tx[q])
    <3>1. Apart(tx[p], tx[q])
      BY DEF PgInv
    <3>2. t.cal = tx[q].cal => tx[q].mode \notin Conflicting[t.mode]
      BY <1>3, <2>4 DEF CalHolders
    <3>. QED  BY <2>4, <3>1, <3>2 DEF Apart
  <2>. QED  BY <1>1, <2>2, <2>4, <2>5, <2>6, LocalStep
<1>. QED  BY <1>2, <1>3 DEF Bump

LEMMA ReadBackStep ==
    ASSUME PgInv, NEW p \in Procs, ReadBack(p)
    PROVE  PgInv'
<1>1. /\ tx[p].pc = "read" /\ req[p].pc \in {"commit", "delete"}
      /\ tx[p] \in Transaction /\ TransactionOK(tx[p], req[p])
      /\ ~tx[p].stale /\ Following(p) = "commit"
  BY UnderWay DEF ReadBack, Late
<1>2. CASE RollBack(p, "error")
  BY <1>2, RollBackStep
<1>3. CASE /\ req[p].cal \in Live /\ Local(p)
           /\ tx' = [tx EXCEPT ![p].pc = Following(p),
                       ![p].token = IF tx[p].cal = req[p].cal THEN tx[p].bumped
                                    ELSE calendars[req[p].cal].token]
  <2> DEFINE t == [tx[p] EXCEPT !.pc = "commit", !.token = tx[p].bumped]
  <2>1. tx[p].mode = "no key update" /\ tx[p].cal = req[p].cal
    BY <1>1, <1>3 DEF TransactionOK, CalendarHeld, Late
  <2>2. /\ t \in Transaction /\ t.pc = "commit" /\ t.rows = tx[p].rows
        /\ t.keys = tx[p].keys /\ t.mode = tx[p].mode /\ t.cal = tx[p].cal
        /\ t.bumped = tx[p].bumped /\ t.token = tx[p].bumped /\ ~t.stale
    BY <1>1 DEF Transaction, Statements
  <2>3. tx' = [tx EXCEPT ![p] = t]
    BY <1>1, <1>3, <2>1
  <2> HIDE DEF t
  <2>4. TransactionOK(t, req[p])
    BY <1>1, <1>3, <2>1, <2>2
       DEF TransactionOK, Progress, PutHolds, DeleteHolds, CalendarHeld, Late
  <2>5. ASSUME NEW q \in Procs \ {p}
        PROVE  Apart(t, tx[q])
    <3>1. Apart(tx[p], tx[q])
      BY DEF PgInv
    <3>. QED  BY <2>2, <3>1 DEF Apart
  <2>. QED  BY <1>3, <2>2, <2>3, <2>4, <2>5, LocalStep
<1>. QED  BY <1>2, <1>3 DEF ReadBack

LEMMA SelectRowsStep ==
    ASSUME PgInv, NEW p \in Procs, SelectRows(p)
    PROVE  PgInv'
<1>1. /\ req[p].pc = "delete" /\ tx[p].pc = "none" /\ Local(p)
      /\ tx[p] \in Transaction /\ TransactionOK(tx[p], req[p])
      /\ HoldsNothing(tx[p]) /\ ~tx[p].stale
  BY RequestOf DEF SelectRows, TransactionOK, Progress
<1> DEFINE found == RowsAt(req[p].path) \cap RowsOf(req[p].cal)
           t == [tx[p] EXCEPT !.pc = "rows", !.seen = found]
<1>2. Following(p) = "rows"
  BY <1>1 DEF Following, DeleteOrder
<1>3. found \in SUBSET (Nat \ {0})
  BY RequestOf DEF RowsAt
<1>4. \A o \in found : /\ o < nextRow /\ o \in DOMAIN objects
                       /\ objects[o].path = req[p].path /\ objects[o].cal = req[p].cal
  BY DEF RowsAt, RowsOf, PgInv, IndInv, TypeOK
<1>5. tx' = [tx EXCEPT ![p] = t]
  BY <1>2 DEF SelectRows
<1> HIDE DEF found
<1>6. /\ t \in Transaction /\ t.pc = "rows" /\ t.rows = {} /\ t.keys = {}
      /\ t.mode = "none" /\ t.seen = found /\ ~t.stale
  BY <1>1, <1>3 DEF Transaction, Statements, HoldsNothing
<1> HIDE DEF t
<1>7. TransactionOK(t, req[p])
  BY <1>1, <1>4, <1>6 DEF TransactionOK, Progress, DeleteHolds, CalendarHeld, HoldsNothing, Late
<1>8. \A q \in Procs \ {p} : Apart(t, tx[q])
  BY <1>6, NothingIsApart DEF PgInv, HoldsNothing
<1>. QED  BY <1>1, <1>5, <1>6, <1>7, <1>8, LocalStep

\* Both places where rows have gone by the time the DELETE reaches them.
LEMMA GoneAnswerStep ==
    ASSUME PgInv, NEW p \in Procs, Finish(p, "notfound"), UNCHANGED <<tables, issued>>,
           NEW again \in BOOLEAN,
           tx' = [tx EXCEPT ![p] = [NoTx EXCEPT !.stale = again]]
    PROVE  PgInv'
<1> DEFINE t == [NoTx EXCEPT !.stale = again]
<1>1. t \in Transaction /\ HoldsNothing(t) /\ t.pc = "none"
  BY NoTxIsNothing
<1>2. tx' = [tx EXCEPT ![p] = t]
  OBVIOUS
<1> HIDE DEF t
<1>. QED  BY <1>1, <1>2, AnswerStep DEF Answers

LEMMA DeleteRowsStep ==
    ASSUME PgInv, NEW p \in Procs, DeleteRows(p)
    PROVE  PgInv'
<1> DEFINE found == Found(p)
<1>1. /\ tx[p].pc = "rows" /\ req[p].pc = "delete"
      /\ tx[p] \in Transaction /\ TransactionOK(tx[p], req[p]) /\ ~tx[p].stale
      /\ HoldsNothing(tx[p]) /\ DeleteHolds(tx[p], req[p])
  BY UnderWay DEF DeleteRows, TransactionOK, Progress
<1>2. CASE /\ tx' = [tx EXCEPT ![p] = [NoTx EXCEPT !.stale = RowCreatedSince(p)]]
           /\ Finish(p, "notfound") /\ UNCHANGED <<tables, issued>>
  <2>1. RowCreatedSince(p) \in BOOLEAN
    BY DEF RowCreatedSince
  <2>. QED  BY <1>2, <2>1, GoneAnswerStep
<1>3. CASE /\ found # {} /\ Local(p)
           /\ tx' = [tx EXCEPT ![p].pc = Following(p), ![p].rows = found]
  <2> DEFINE t == [tx[p] EXCEPT !.pc = "bump", !.rows = found]
  <2>1. Following(p) = "bump"
    BY <1>1 DEF Following, DeleteOrder
  <2>2. /\ found \in SUBSET (Nat \ {0}) /\ found \subseteq DOMAIN objects
        /\ \A o \in found : objects[o].path = req[p].path /\ objects[o].cal = req[p].cal
    BY <1>1, RequestOf DEF DeleteHolds, Transaction, Found
  <2>3. tx' = [tx EXCEPT ![p] = t]
    BY <1>3, <2>1
  <2>4. \A q \in Procs \ {p} : found \cap tx[q].rows = {}
    BY DEF DeleteRows, RowHolders
  <2> HIDE DEF found
  <2>5. /\ t \in Transaction /\ t.pc = "bump" /\ t.rows = found /\ t.keys = {}
        /\ t.mode = "none" /\ ~t.stale
    BY <1>1, <2>2 DEF Transaction, Statements, HoldsNothing
  <2> HIDE DEF t
  <2>6. TransactionOK(t, req[p])
    BY <1>1, <1>3, <2>2, <2>5 DEF TransactionOK, Progress, DeleteHolds, CalendarHeld, Late
  <2>7. \A q \in Procs \ {p} : Apart(t, tx[q])
    BY <2>4, <2>5, ConflictTable DEF Apart
  <2>. QED  BY <1>3, <2>3, <2>5, <2>6, <2>7, LocalStep
<1>. QED  BY <1>2, <1>3 DEF DeleteRows

LEMMA LockCalendarStep ==
    ASSUME PgInv, NEW p \in Procs, LockCalendar(p)
    PROVE  PgInv'
<1>1. /\ tx[p].pc = "drop" /\ req[p].pc = "idle" /\ HoldsNothing(tx[p])
      /\ tx[p] \in Transaction /\ TransactionOK(tx[p], req[p])
  BY RequestOf DEF LockCalendar, TransactionOK, Progress
<1>2. CASE /\ tx' = [tx EXCEPT ![p] = [NoTx EXCEPT !.stale = CalendarCreatedSince(p)]]
           /\ Finish(p, "notfound") /\ UNCHANGED <<tables, issued>>
  <2>1. CalendarCreatedSince(p) \in BOOLEAN
    BY DEF CalendarCreatedSince
  <2>. QED  BY <1>2, <2>1, GoneAnswerStep
<1>3. ASSUME NEW c \in tx[p].seen, c \in Live, CalHolders(p, c, "update") = {}, Local(p),
             tx' = [tx EXCEPT ![p].pc = "cascade", ![p].cal = c, ![p].mode = "update"]
      PROVE  PgInv'
  <2> DEFINE t == [tx[p] EXCEPT !.pc = "cascade", !.cal = c, !.mode = "update"]
  <2>1. /\ t \in Transaction /\ t.pc = "cascade" /\ t.rows = {} /\ t.keys = {}
        /\ t.mode = "update" /\ t.cal = c
    BY <1>1 DEF Transaction, Statements, Modes, HoldsNothing
  <2>2. tx' = [tx EXCEPT ![p] = t]
    BY <1>3
  <2> HIDE DEF t
  <2>3. TransactionOK(t, req[p])
    BY <1>1, <1>3, <2>1 DEF TransactionOK, Progress, CalendarHeld, Late
  <2>4. \A q \in Procs \ {p} : Apart(t, tx[q])
    BY <1>3, <2>1 DEF Apart, CalHolders
  <2>. QED  BY <1>3, <2>1, <2>2, <2>3, <2>4, LocalStep
<1>. QED  BY <1>2, <1>3 DEF LockCalendar

LEMMA CascadeStep ==
    ASSUME PgInv, NEW p \in Procs, NEW o, CascadeTo(p, o)
    PROVE  PgInv'
<1>1. /\ tx[p].pc = "cascade" /\ req[p].pc = "idle" /\ tx[p].mode = "update"
      /\ tx[p] \in Transaction /\ TransactionOK(tx[p], req[p]) /\ Local(p)
      /\ o \in DOMAIN objects /\ objects[o].cal = tx[p].cal /\ o \in Nat \ {0}
  BY RequestOf DEF CascadeTo, TransactionOK, Progress, RowsOf
<1> DEFINE t == [tx[p] EXCEPT !.rows = tx[p].rows \cup {o}]
<1>2. /\ t \in Transaction /\ t.pc = "cascade" /\ t.rows = tx[p].rows \cup {o}
      /\ t.keys = tx[p].keys /\ t.mode = tx[p].mode /\ t.cal = tx[p].cal
  BY <1>1 DEF Transaction
<1>3. tx' = [tx EXCEPT ![p] = t]
  BY DEF CascadeTo
<1> HIDE DEF t
<1>4. TransactionOK(t, req[p])
  BY <1>1, <1>2 DEF TransactionOK, Progress, CalendarHeld, Late
<1>5. ASSUME NEW q \in Procs \ {p}
      PROVE  Apart(t, tx[q])
  <2>1. Apart(tx[p], tx[q])
    BY DEF PgInv
  <2>2. {o} \cap tx[q].rows = {}
    BY DEF CascadeTo, RowHolders
  <2>. QED  BY <1>2, <2>1, <2>2, LocksTaken DEF Apart
<1>. QED  BY <1>1, <1>2, <1>3, <1>4, <1>5, LocalStep

LEMMA SelectCalendarStep ==
    ASSUME PgInv, NEW p \in Procs, NEW u \in Users, NEW cp \in CalPaths,
           SelectCalendar(p, u, cp)
    PROVE  PgInv'
<1>1. /\ UNCHANGED tables /\ issued \in Nat /\ issued' = issued + 1
      /\ req[p].pc = "idle" /\ issued' \in 0 .. MaxRequests
  <2>1. Start(p) /\ UNCHANGED tables
    BY DEF SelectCalendar
  <2>. QED  BY <2>1, RequestOf, BoundAssumption DEF Start
<1>2. issued <= issued' /\ issued' \in Nat /\ UNCHANGED tables
  BY <1>1
<1>3. IndInv /\ TableStep
  BY <1>1 DEF PgInv, TableStep
<1>4. req' \in [Procs -> Requests] => TypeOK'
  BY <1>1 DEF PgInv, IndInv, TypeOK, tables, Requests
<1>5. CASE tx' = [tx EXCEPT ![p] = NoTx] /\ Finish(p, "notfound")
  <2>1. IndInv'
    BY <1>3, <1>4, <1>5, AnswerIndInv DEF Answers
  <2>2. \A q \in Procs \ {p} : req'[q] = req[q]
    BY <1>5 DEF Finish, PgInv, IndInv, TypeOK
  <2>. QED  BY <1>2, <1>5, <2>1, <2>2, NoTxIsNothing, OverStep
<1>6. ASSUME NEW c \in CalendarsAt(cp), UNCHANGED req,
             tx' = [tx EXCEPT ![p] =
                [NoTx EXCEPT !.pc = "drop", !.seen = {c}, !.stale = tx[p].stale,
                             !.names = {[user |-> u, path |-> cp]}]]
      PROVE  PgInv'
  <2>1. IndInv'
    <3>1. req' \in [Procs -> Requests]
      BY <1>6 DEF PgInv, IndInv, TypeOK, Requests
    <3>2. RequestsStillHold'
      BY <1>1, <1>6 DEF PgInv, IndInv, RequestsStillHold, FoundCalendar, FoundRow, Live, tables
    <3>. QED  BY <1>3, <1>4, <3>1, <3>2, TableStepIndInv
  <2> DEFINE t == [NoTx EXCEPT !.pc = "drop", !.seen = {c}, !.stale = tx[p].stale,
                               !.names = {[user |-> u, path |-> cp]}]
  <2>2. tx[p].stale \in BOOLEAN /\ c \in Nat \ {0}
    BY RequestOf DEF Transaction, CalendarsAt, Live, PgInv, IndInv, TypeOK
  <2>3. t \in Transaction /\ t.pc = "drop" /\ HoldsNothing(t)
    <3>1. {[user |-> u, path |-> cp]} \in SUBSET [user : Users, path : CalPaths]
      OBVIOUS
    <3>. QED  BY <2>2, <3>1 DEF NoTx, NoRow, Transaction, Statements, Modes, HoldsNothing
  <2>4. tx' = [tx EXCEPT ![p] = t]
    BY <1>6
  <2> HIDE DEF t
  <2>5. TransactionOK(t, req[p])
    BY <1>1, <2>3 DEF TransactionOK, Progress, CalendarHeld, HoldsNothing, Late
  <2>6. \A q \in Procs \ {p} : Apart(t, tx[q])
    BY <2>3, NothingIsApart DEF PgInv
  <2>7. PICK r : r = req'[p]
    OBVIOUS
  <2>8. TransactionOK(t, r) /\ \A q \in Procs \ {p} : req'[q] = req[q]
    BY <1>6, <2>5, <2>7
  <2>. QED  BY <1>2, <2>1, <2>3, <2>4, <2>6, <2>7, <2>8, SameTables
<1>. QED  BY <1>5, <1>6 DEF SelectCalendar, CalendarsOf

-----------------------------------------------------------------------------
(* The statements that write to the tables.                                *)

LEMMA CreateCalendarStep ==
    ASSUME PgInv, NEW p \in Procs, NEW u \in Users, NEW cp \in CalPaths,
           PgCreateCalendar(p, u, cp)
    PROVE  PgInv'
<1>1. [Next]_vars /\ CreateCalendar(p, u, cp) /\ tx' = [tx EXCEPT ![p] = NoTx]
  BY DEF PgCreateCalendar, Ready, Next
<1>2. IndInv' /\ IndInv
  BY <1>1, NextIndInv DEF PgInv
<1>3. issued \in Nat /\ issued' = issued + 1 /\ nextCal \in Nat
  BY <1>1, RequestOf DEF CreateCalendar, Start
<1>4. issued <= issued' /\ issued' \in Nat
  BY <1>3
<1>5. /\ \A q \in Procs \ {p} : req'[q] = req[q]
      /\ req'[p].pc = "idle"
  BY <1>1 DEF CreateCalendar, Committed, Finish, PgInv, IndInv, TypeOK
<1>6. CASE UNCHANGED tables
  BY <1>1, <1>2, <1>4, <1>5, <1>6, NoTxIsNothing, OverStep
<1>7. CASE CreateEffect(u, cp)
  <2>1. NoOrphans'
    <3>1. TableStep
      BY <1>7 DEF TableStep
    <3>. QED  BY <1>2, <3>1, EnforcedAssumption, NoOrphansStep DEF PgInv, IndInv
  <2>2. nextCal' - 1 <= issued'
    BY <1>3, <1>7 DEF CreateEffect, PgInv
  <2>3. PICK r : r = req'[p]
    OBVIOUS
  <2>4. TransactionOK(NoTx, r)'
    BY <1>5, <2>3, NoTxIsNothing
       DEF TransactionOK, Progress, CalendarHeld, HoldsNothing, Late
  <2>5. \A q \in Procs \ {p} : Apart(NoTx, tx[q])
    BY NothingIsApart, NoTxIsNothing DEF PgInv
  <2>6. /\ Live' = Live \cup {nextCal} /\ UNCHANGED <<objects, nextRow>>
        /\ \A c \in Live : calendars'[c] = calendars[c]
    <3>1. nextCal \notin Live
      BY <1>2, <1>3 DEF IndInv, TypeOK, Live
    <3>. QED  BY <1>7, <3>1 DEF CreateEffect, Insert, Live
  <2>7. ASSUME NEW q \in Procs \ {p}, NEW s, NEW v, s = tx[q], v = req[q]
        PROVE  TransactionOK(s, v)'
    <3>1. /\ s \in Transaction /\ v \in Requests /\ TransactionOK(s, v)
          /\ v.pc # "idle" => FoundCalendar(v)
      BY <2>7, RequestOf
    <3>2. v.pc # "idle" => v.cal \in Live \/ v.cal \notin Live'
      BY <1>3, <2>6, <3>1 DEF FoundCalendar
    <3>3. v.pc = "commit" => v.row \in DOMAIN objects \/ v.row \notin DOMAIN objects'
      BY <2>6
    <3>4. \A o \in Nat : o < nextRow => o < nextRow'
      BY <2>6
    <3>5. /\ s.rows \subseteq DOMAIN objects'
          /\ \A k \in s.keys, o \in DOMAIN objects' \ s.rows : k \notin KeysOfRow(o)'
      BY <2>6, <3>1 DEF TransactionOK, KeysOfRow
    <3>6. /\ s.mode # "none" => s.cal \in Live'
          /\ s.mode = "no key update" => calendars'[s.cal].token = calendars[s.cal].token
      BY <2>6, <3>1 DEF TransactionOK, CalendarHeld
    <3>. QED  BY <2>6, <3>1, <3>2, <3>3, <3>4, <3>5, <3>6, LeftAlone
  <2>. QED  BY <1>1, <1>2, <1>5, <2>1, <2>2, <2>3, <2>4, <2>5, <2>7, NoTxIsNothing, Advance
<1>. QED  BY <1>1, <1>6, <1>7 DEF CreateCalendar, CreateEffect, tables

\* A COMMIT leaves every other transaction what it has locked.
LEMMA CommitStep ==
    ASSUME PgInv, NEW p \in Procs, TableStep, IndInv', EndTx(p),
           UNCHANGED <<nextCal, issued>>, NEW status, Finish(p, status),
           \A q \in Procs \ {p} : \A s, v :
              s = tx[q] /\ v = req[q] => TransactionOK(s, v)'
    PROVE  PgInv'
<1>1. NoOrphans'
  BY EnforcedAssumption, NoOrphansStep DEF PgInv, IndInv
<1>2. nextCal' - 1 <= issued'
  BY DEF PgInv
<1>3. /\ \A q \in Procs \ {p} : req'[q] = req[q]
      /\ req'[p].pc = "idle"
  BY DEF Finish, PgInv, IndInv, TypeOK
<1>4. PICK r : r = req'[p]
  OBVIOUS
<1>5. TransactionOK(NoTx, r)'
  BY <1>3, <1>4, NoTxIsNothing
     DEF TransactionOK, Progress, CalendarHeld, HoldsNothing, Late
<1>6. \A q \in Procs \ {p} : Apart(NoTx, tx[q])
  BY NothingIsApart, NoTxIsNothing DEF PgInv
<1>. QED  BY <1>1, <1>2, <1>3, <1>4, <1>5, <1>6, NoTxIsNothing, Advance DEF EndTx

\* A transaction that is about to commit a change has its calendar's row locked,
\* and the token that it has written and read back is the next one.
LEMMA CommitRecordsChange ==
    ASSUME PgInv, NEW p \in Procs, tx[p].pc = "commit", req[p].pc \in {"commit", "delete"},
           NEW type, CommitChange(p, type)
    PROVE  /\ req[p].cal \in Live /\ tx[p].mode = "no key update"
           /\ tx[p].cal = req[p].cal
           /\ RecordChange(req[p].cal, req[p].path, type)
<1>1. TransactionOK(tx[p], req[p])
  BY RequestOf
<1>2. /\ tx[p].mode = "no key update" /\ tx[p].token = tx[p].bumped
      /\ tx[p].cal = req[p].cal /\ req[p].cal \in Live
      /\ tx[p].bumped = calendars[req[p].cal].token + 1
  BY <1>1 DEF TransactionOK, Progress, CalendarHeld, Late
<1>. QED  BY <1>2 DEF CommitChange, RecordChange

\* The token of a calendar that another transaction has bumped is left to it.
LEMMA OtherTokensStay ==
    ASSUME PgInv, NEW p \in Procs, NEW q \in Procs, p # q,
           tx[p].mode = "no key update", tx[p].cal \in Live, NEW op, NEW type,
           RecordChange(tx[p].cal, op, type), NEW s, s = tx[q]
    PROVE  /\ Live' = Live
           /\ s.mode # "none" => s.cal \in Live'
           /\ s.mode = "no key update" => calendars'[s.cal].token = calendars[s.cal].token
<1>1. Live' = Live
  BY DEF RecordChange, Live
<1>2. s.mode # "none" => s.cal \in Live
  BY DEF PgInv, TransactionOK, CalendarHeld
<1>3. s.mode = "no key update" => s.cal # tx[p].cal
  BY ConflictTable DEF PgInv, Apart
<1>. QED  BY <1>1, <1>2, <1>3 DEF RecordChange, Live

\* The COMMIT of a PUT is the single step in which CalendarStore takes the whole
\* transaction: what its statements have checked still holds.
LEMMA CommitPutIsPutCommit ==
    ASSUME PgInv, NEW p \in Procs, CommitPut(p)
    PROVE  PutCommit(p) /\ PutEffect(req[p])
<1> DEFINE r == req[p]
           t == tx[p]
<1>1. /\ r.pc = "commit" /\ t.pc = "commit" /\ TransactionOK(t, r) /\ PutHolds(t, r)
  BY RequestOf DEF CommitPut, TransactionOK
<1>2. /\ r.cal \in Live
      /\ RecordChange(r.cal, r.path, IF r.row = NoRow THEN "created" ELSE "modified")
  BY <1>1, CommitRecordsChange DEF CommitPut
<1>3. \A k \in t.keys, o \in DOMAIN objects \ t.rows : k \notin KeysOfRow(o)
  BY <1>1 DEF TransactionOK
<1>4. CASE r.row = NoRow
  <2>1. t.rows = {} /\ t.keys = {PathKey(r.path), UidKey(r.cal, r.data)}
    BY <1>1, <1>4 DEF PutHolds, Late
  <2>2. \A o \in DOMAIN objects : /\ PathKey(r.path) # PathKey(objects[o].path)
                                  /\ UidKey(r.cal, r.data)
                                       # UidKey(objects[o].cal, objects[o].data)
    BY <1>3, <2>1 DEF KeysOfRow
  <2>3. PathFree(r.path) /\ UidFree(r.cal, r.data, NoRow)
    BY <2>2 DEF PathFree, RowsAt, UidFree, RowsOf, PathKey, UidKey
  <2>. QED  BY <1>1, <1>2, <1>4, <2>3 DEF CommitPut, CommitChange, PutCommit, PutEffect, Commits
<1>5. CASE r.row # NoRow
  <2>1. ASSUME r.row \in DOMAIN objects
        PROVE  UidFree(objects[r.row].cal, r.data, r.row)
    <3>1. t.rows = {r.row} /\ t.keys = {UidKey(objects[r.row].cal, r.data)}
      BY <1>1, <1>5, <2>1 DEF PutHolds, Late
    <3>2. \A o \in DOMAIN objects \ {r.row} :
             UidKey(objects[r.row].cal, r.data) # UidKey(objects[o].cal, objects[o].data)
      BY <1>3, <3>1 DEF KeysOfRow
    <3>. QED  BY <3>2 DEF UidFree, RowsOf, UidKey
  <2>. QED  BY <1>1, <1>2, <1>5, <2>1 DEF CommitPut, CommitChange, PutCommit, PutEffect, Commits
<1>. QED  BY <1>4, <1>5

LEMMA CommitDeleteIsDeleteCommit ==
    ASSUME PgInv, NEW p \in Procs, CommitDelete(p)
    PROVE  DeleteCommit(p) /\ DeleteEffect(req[p])
<1> DEFINE r    == req[p]
           gone == RowsAt(r.path) \cap RowsOf(r.cal)
<1>1. /\ r.pc = "delete" /\ tx[p].pc = "commit" /\ TransactionOK(tx[p], r)
      /\ DeleteHolds(tx[p], r) /\ tx[p].rows \subseteq DOMAIN objects
  BY RequestOf DEF CommitDelete, TransactionOK
<1>2. r.cal \in Live /\ RecordChange(r.cal, r.path, "deleted")
  BY <1>1, CommitRecordsChange DEF CommitDelete
<1>3. tx[p].rows # {} /\ tx[p].rows \subseteq gone
  BY <1>1 DEF DeleteHolds, Late, RowsAt, RowsOf
<1>4. gone \subseteq tx[p].rows
  BY <1>3 DEF PgInv, IndInv, UniquePaths, RowsAt
<1>5. tx[p].rows = gone
  BY <1>3, <1>4
<1>. QED  BY <1>1, <1>2, <1>3, <1>5
          DEF CommitDelete, CommitChange, DeleteCommit, DeleteEffect

\* The DELETE of a calendar removes it with all its objects, although it locked
\* them one by one.
LEMMA CommitDropIsDrop ==
    ASSUME PgInv, NEW p \in Procs, CommitDrop(p), NEW conn \in Conns
    PROVE  DropEffect(tx[p].cal, conn)
<1>1. TransactionOK(tx[p], req[p]) /\ tx[p].pc = "cascade"
  BY RequestOf DEF CommitDrop
<1>2. /\ tx[p].cal \in Live
      /\ \A o \in tx[p].rows : o \in DOMAIN objects /\ objects[o].cal = tx[p].cal
  BY <1>1 DEF TransactionOK, Progress, CalendarHeld
<1>3. tx[p].rows = RowsOf(tx[p].cal)
  BY <1>2 DEF CommitDrop, RowsOf
<1>. QED  BY <1>2, <1>3, EnforcedAssumption DEF CommitDrop, DropEffect, Cascade

LEMMA CommitPutStep ==
    ASSUME PgInv, NEW p \in Procs, CommitPut(p)
    PROVE  PgInv'
<1> DEFINE r == req[p]
           t == tx[p]
<1>1. /\ r.pc = "commit" /\ t.pc = "commit" /\ TransactionOK(t, r) /\ PutHolds(t, r)
      /\ r \in PutRequest /\ WriteRow(r) /\ TypeOK /\ nextRow \in Nat
      /\ r.row < nextRow
  BY RequestOf, RequestTypes DEF CommitPut, TransactionOK, PgInv, IndInv, FoundRow
<1>2. /\ r.cal \in Live /\ t.mode = "no key update" /\ t.cal = r.cal
      /\ RecordChange(r.cal, r.path, IF r.row = NoRow THEN "created" ELSE "modified")
  BY <1>1, CommitRecordsChange DEF CommitPut
<1>3. /\ TableStep /\ [Next]_vars /\ UNCHANGED <<nextCal, issued>> /\ EndTx(p)
      /\ \E status : Finish(p, status)
  BY <1>1, CommitPutIsPutCommit
     DEF CommitPut, CommitChange, Committed, TableStep, Next
<1>4. IndInv'
  BY <1>3, NextIndInv DEF PgInv
<1>5. /\ ObjectsEvolve
      /\ \A o \in DOMAIN objects : /\ o \in DOMAIN objects'
                                   /\ objects'[o].path = objects[o].path
                                   /\ objects'[o].cal = objects[o].cal
                                   /\ o # r.row => objects'[o] = objects[o]
      /\ r.row # NoRow => /\ DOMAIN objects' = DOMAIN objects
                          /\ r.row \in DOMAIN objects => objects'[r.row].data = r.data
      /\ r.row = NoRow => /\ DOMAIN objects' = DOMAIN objects \cup {nextRow}
                          /\ objects'[nextRow] =
                                [cal |-> r.cal, path |-> r.path, data |-> r.data]
  <2>1. \A o \in DOMAIN objects : objects[o] \in ObjectRow
    BY <1>1 DEF TypeOK
  <2>2. /\ ObjectsEvolve
        /\ r.row = NoRow =>
              /\ DOMAIN objects' = DOMAIN objects \cup {nextRow}
              /\ objects'[nextRow] =
                    [cal |-> r.cal, path |-> r.path, data |-> r.data]
              /\ \A o \in DOMAIN objects : objects'[o] = objects[o]
        /\ r.row # NoRow =>
              /\ DOMAIN objects' = DOMAIN objects
              /\ \A o \in DOMAIN objects :
                    /\ o # r.row => objects'[o] = objects[o]
                    /\ o = r.row => objects'[o] = [objects[o] EXCEPT !.data = r.data]
    BY <1>1, WriteRowObjects
  <2> HIDE DEF r
  <2>. QED  BY <2>1, <2>2 DEF ObjectRow
<1>6. ASSUME NEW q \in Procs \ {p}, NEW s, NEW v, s = tx[q], v = req[q]
      PROVE  TransactionOK(s, v)'
  <2>1. /\ s \in Transaction /\ v \in Requests /\ TransactionOK(s, v)
        /\ v.pc = "commit" => FoundRow(v)
    BY <1>6, RequestOf
  <2>2. t.rows \cap s.rows = {} /\ t.keys \cap s.keys = {}
    BY <1>6 DEF PgInv, Apart
  <2>3. /\ Live' = Live
        /\ s.mode # "none" => s.cal \in Live'
        /\ s.mode = "no key update" => calendars'[s.cal].token = calendars[s.cal].token
    BY <1>2, <1>6, OtherTokensStay
  <2>4. v.pc = "commit" => v.row \in DOMAIN objects \/ v.row \notin DOMAIN objects'
    BY <1>1, <1>5, <2>1 DEF FoundRow
  <2>5. \A o \in DOMAIN objects' : o < nextRow => o \in DOMAIN objects
    BY <1>1, <1>5
  <2>6. \A o \in Nat : o < nextRow => o < nextRow'
    BY <1>1, <1>5 DEF ObjectsEvolve
  <2>7. s.rows \subseteq DOMAIN objects'
    BY <1>5, <2>1 DEF TransactionOK
  <2>8. ASSUME NEW k \in s.keys, NEW o \in DOMAIN objects' \ s.rows
        PROVE  k \notin KeysOfRow(o)'
    <3>1. o \in DOMAIN objects => k \notin KeysOfRow(o)
      BY <2>1, <2>8 DEF TransactionOK
    <3>2. CASE r.row # NoRow /\ o = r.row
      <4>1. o \in DOMAIN objects
        BY <1>5, <3>2
      <4>2. t.keys = {UidKey(objects[o].cal, r.data)}
        BY <1>1, <3>2, <4>1 DEF PutHolds, Late
      <4>3. KeysOfRow(o)' = {PathKey(objects[o].path), UidKey(objects[o].cal, r.data)}
        BY <1>5, <3>2, <4>1 DEF KeysOfRow, PathKey, UidKey
      <4>4. k # PathKey(objects[o].path)
        BY <3>1, <4>1 DEF KeysOfRow
      <4>5. k # UidKey(objects[o].cal, r.data)
        BY <2>2, <4>2
      <4>. QED  BY <4>3, <4>4, <4>5
    <3>3. CASE r.row = NoRow /\ o = nextRow
      <4>1. t.keys = {PathKey(r.path), UidKey(r.cal, r.data)}
        BY <1>1, <3>3 DEF PutHolds, Late
      <4>2. KeysOfRow(o)' = {PathKey(r.path), UidKey(r.cal, r.data)}
        BY <1>5, <3>3 DEF KeysOfRow, PathKey, UidKey
      <4>. QED  BY <2>2, <4>1, <4>2
    <3>4. CASE o \in DOMAIN objects /\ o # r.row
      <4>1. objects'[o] = objects[o]
        BY <1>5, <3>4
      <4>. QED  BY <3>1, <3>4, <4>1 DEF KeysOfRow
    <3>. QED  BY <1>1, <1>5, <3>2, <3>3, <3>4 DEF TypeOK, NoRow
  <2>. QED  BY <1>5, <2>1, <2>3, <2>4, <2>5, <2>6, <2>7, <2>8, LeftAlone
<1>. QED  BY <1>3, <1>4, <1>6, CommitStep

\* A transaction that deletes rows takes none that another has locked.
LEMMA RowsDeletedAreFree ==
    ASSUME PgInv, NEW p \in Procs, NEW q \in Procs, p # q, NEW s, NEW v,
           s = tx[q], v = req[q], Live' \subseteq Live, UNCHANGED nextRow,
           objects' = Restrict(objects, DOMAIN objects \ tx[p].rows),
           s.mode # "none" => s.cal \in Live',
           s.mode = "no key update" => calendars'[s.cal].token = calendars[s.cal].token
    PROVE  TransactionOK(s, v)'
<1>1. s \in Transaction /\ v \in Requests /\ TransactionOK(s, v) /\ nextRow \in Nat
  BY RequestOf
<1>2. tx[p].rows \cap s.rows = {}
  BY DEF PgInv, Apart
<1>3. /\ DOMAIN objects' = DOMAIN objects \ tx[p].rows
      /\ \A o \in DOMAIN objects' : o \in DOMAIN objects /\ objects'[o] = objects[o]
  BY DEF Restrict
<1>4. s.rows \subseteq DOMAIN objects'
  BY <1>1, <1>2, <1>3 DEF TransactionOK
<1>5. \A k \in s.keys, o \in DOMAIN objects' \ s.rows : k \notin KeysOfRow(o)'
  BY <1>1, <1>3 DEF TransactionOK, KeysOfRow
<1>. QED  BY <1>1, <1>3, <1>4, <1>5, LeftAlone

LEMMA CommitDeleteStep ==
    ASSUME PgInv, NEW p \in Procs, CommitDelete(p)
    PROVE  PgInv'
<1>1. req[p].pc = "delete" /\ tx[p].pc = "commit"
  BY DEF CommitDelete
<1>2. /\ req[p].cal \in Live /\ tx[p].mode = "no key update" /\ tx[p].cal = req[p].cal
      /\ RecordChange(req[p].cal, req[p].path, "deleted")
  BY <1>1, CommitRecordsChange DEF CommitDelete
<1>3. /\ TableStep /\ [Next]_vars /\ UNCHANGED <<nextCal, nextRow, issued>> /\ EndTx(p)
      /\ objects' = Restrict(objects, DOMAIN objects \ tx[p].rows)
      /\ \E status : Finish(p, status)
  BY <1>1, CommitDeleteIsDeleteCommit
     DEF CommitDelete, CommitChange, Committed, TableStep, Next
<1>4. IndInv'
  BY <1>3, NextIndInv DEF PgInv
<1>5. ASSUME NEW q \in Procs \ {p}, NEW s, NEW v, s = tx[q], v = req[q]
      PROVE  TransactionOK(s, v)'
  <2>1. /\ Live' = Live
        /\ s.mode # "none" => s.cal \in Live'
        /\ s.mode = "no key update" => calendars'[s.cal].token = calendars[s.cal].token
    BY <1>2, <1>5, OtherTokensStay
  <2>. QED  BY <1>3, <1>5, <2>1, RowsDeletedAreFree
<1>. QED  BY <1>3, <1>4, <1>5, CommitStep

LEMMA CommitDropStep ==
    ASSUME PgInv, NEW p \in Procs, CommitDrop(p)
    PROVE  PgInv'
<1>1. /\ tx[p].pc = "cascade" /\ EndTx(p) /\ UNCHANGED <<nextCal, nextRow, issued>>
      /\ objects' = Restrict(objects, DOMAIN objects \ tx[p].rows)
  BY DEF CommitDrop
<1>2. tx[p].mode = "update"
  BY <1>1, RequestOf DEF TransactionOK, Progress
<1>3. PICK conn \in Conns : DropEffect(tx[p].cal, conn)
  BY EnforcedAssumption, CommitDropIsDrop
<1>4. TableStep
  BY <1>3 DEF TableStep, DropEffect
<1>5. PICK status \in {"ok", "error"} : Finish(p, status)
  BY DEF CommitDrop, Committed
<1>6. IndInv'
  <2>1. TypeOK
    BY DEF PgInv, IndInv
  <2>2. /\ DOMAIN calendars' \subseteq 1 .. nextCal' - 1
        /\ \A k \in DOMAIN calendars' : calendars'[k] \in CalendarRow
    BY <1>3, <2>1, RestrictRows DEF DropEffect, TypeOK, Live
  <2>3. /\ DOMAIN objects' \subseteq 1 .. nextRow' - 1
        /\ \A o \in DOMAIN objects' : objects'[o] \in ObjectRow
        /\ changes' \subseteq Change
    BY <1>1, <2>1, RestrictRows DEF CommitDrop, TypeOK
  <2>4. req' \in [Procs -> Requests] => TypeOK'
    BY <1>1, <2>1, <2>2, <2>3 DEF TypeOK, Requests
  <2>. QED  BY <1>4, <1>5, <2>4, AnswerIndInv DEF PgInv, Answers
<1>7. /\ Live' = Live \ {tx[p].cal}
      /\ \A c \in Live' : calendars'[c] = calendars[c]
  BY <1>3 DEF DropEffect, Live, Restrict
<1>8. ASSUME NEW q \in Procs \ {p}, NEW s, NEW v, s = tx[q], v = req[q]
      PROVE  TransactionOK(s, v)'
  <2>1. s \in Transaction /\ TransactionOK(s, v)
    BY <1>8, RequestOf
  <2>2. s.mode # "none" => s.cal # tx[p].cal
    <3>1. s.cal = tx[p].cal => s.mode \notin Conflicting["update"]
      BY <1>2, <1>8 DEF PgInv, Apart
    <3>. QED  BY <2>1, <3>1, ConflictTable DEF Transaction, Modes
  <2>3. s.mode # "none" => s.cal \in Live'
    BY <1>7, <2>1, <2>2 DEF TransactionOK, CalendarHeld
  <2>. QED  BY <1>1, <1>7, <1>8, <2>3, RowsDeletedAreFree
<1>. QED  BY <1>1, <1>4, <1>5, <1>6, <1>8, CommitStep

-----------------------------------------------------------------------------
(* The invariant.                                                          *)

LEMMA PgInitInv == PgInit => PgInv
<1> SUFFICES ASSUME PgInit PROVE PgInv
  OBVIOUS
<1>1. IndInv
  BY InitIndInv DEF PgInit
<1>2. NoOrphans /\ nextCal - 1 <= issued
  BY DEF PgInit, Init, EmptyTable, NoOrphans
<1>3. tx \in [Procs -> Transaction] /\ \A p \in Procs : tx[p] = NoTx
  BY NoTxIsNothing DEF PgInit
<1>4. \A p \in Procs : TransactionOK(NoTx, req[p])
  BY NoTxIsNothing
     DEF TransactionOK, Progress, PutHolds, DeleteHolds, CalendarHeld, HoldsNothing, Late
<1>5. Apart(NoTx, NoTx)
  BY NoTxIsNothing, NothingIsApart
<1>6. {p \in Procs : Dropping(p)} = {}
  BY <1>3, NoTxIsNothing DEF Dropping
<1>. QED  BY <1>1, <1>2, <1>3, <1>4, <1>5, <1>6, FS_EmptySet DEF PgInv

LEMMA PgNextInv == PgInv /\ [PgNext]_pgvars => PgInv'
<1> SUFFICES ASSUME PgInv, [PgNext]_pgvars PROVE PgInv'
  OBVIOUS
<1>1. CASE UNCHANGED pgvars
  <2>1. IndInv'
    BY <1>1, NextIndInv DEF PgInv, pgvars, vars
  <2>2. UNCHANGED <<calendars, objects, nextCal, nextRow, req, issued, tx>>
    BY <1>1 DEF pgvars
  <2>3. NoOrphans' /\ nextCal' - 1 <= issued' /\ tx' \in [Procs -> Transaction]
    BY <2>2 DEF PgInv, NoOrphans, Live
  <2>4. ASSUME NEW p \in Procs
        PROVE  TransactionOK(tx[p], req[p])'
    <3>1. TransactionOK(tx[p], req[p])
      BY DEF PgInv
    <3>. QED  BY <2>2, <3>1 DEF TransactionOK, Progress, PutHolds, DeleteHolds,
                CalendarHeld, HoldsNothing, KeysOfRow, Live
  <2>5. \A p, q \in Procs : p # q => Apart(tx[p], tx[q])'
    BY <2>2 DEF PgInv, Apart
  <2>6. IsFiniteSet({p \in Procs : Dropping(p)})'
    BY <2>2 DEF PgInv, Dropping
  <2>. QED  BY <2>1, <2>3, <2>4, <2>5, <2>6 DEF PgInv
<1>2. ASSUME NEW p \in Procs, Arrive(p)
      PROVE  PgInv'
  BY <1>2, CreateCalendarStep, SelectCalendarStep, LookUpStep DEF Arrive
<1>3. ASSUME NEW p \in Procs, Proceed(p)
      PROVE  PgInv'
  BY <1>3, LookUpStep, UpdateRowStep, InsertRowStep, WriteUidStep, CheckForeignKeyStep,
     BumpStep, ReadBackStep, CommitPutStep, SelectRowsStep, DeleteRowsStep,
     CommitDeleteStep, LockCalendarStep, CascadeStep, CommitDropStep DEF Proceed
<1>4. ASSUME NEW p \in Procs, Abort(p) \/ BreakDeadlock(p)
      PROVE  PgInv'
  BY <1>4, RollBackStep DEF Abort, BreakDeadlock
<1>. QED  BY <1>1, <1>2, <1>3, <1>4 DEF PgNext

\* The locks and the entries of the unique indexes, each held until the end of
\* the transaction, keep every transaction to what its statements have found.
THEOREM LocksKeepTransactionsApart == PgSpec => []PgInv
  BY PgInitInv, PgNextInv, PTL DEF PgSpec

\* Every variable keeps its type, the open transactions among them.
THEOREM PgTypeCorrect == PgSpec => []PgTypeOK
<1>1. PgInv => PgTypeOK
  BY DEF PgInv, IndInv, PgTypeOK
<1>. QED  BY <1>1, LocksKeepTransactionsApart, PTL

\* What the tables hold is what CalendarStore says of them, statement by
\* statement and transaction by transaction.
THEOREM TablesStayRight == PgSpec => [](LogMatchesToken /\ LatestChangeIsTrue /\ NoOrphans)
<1>1. PgInv => LogMatchesToken /\ LatestChangeIsTrue /\ NoOrphans
  BY DEF PgInv, IndInv
<1>. QED  BY <1>1, LocksKeepTransactionsApart, PTL

-----------------------------------------------------------------------------
(* Deadlocks.                                                              *)

Holding == {"key", "fkey"} \cup Late

\* A statement waits only for transactions that have written a row.  What comes
\* after the bump waits for nobody; a bump waits only for one that has bumped or
\* deletes a calendar, and a foreign key check only for the latter.
LEMMA WhomAStatementWaitsFor ==
    ASSUME PgInv, NEW p \in Procs, NEW q \in WaitsFor(p)
    PROVE  /\ q \in Procs \ {p}
           /\ tx[q].pc \in Holding \cup {"cascade"}
           /\ tx[p].pc \notin {"read", "commit"}
           /\ tx[p].pc = "fkey" => tx[q].pc = "cascade"
           /\ tx[p].pc = "bump" => tx[q].pc \in {"read", "commit", "cascade"}
<1>1. tx[p].pc \in Statements
  BY RequestOf DEF Transaction
<1>2. ASSUME NEW x \in Procs
      PROVE  /\ tx[x].pc \in {"none", "rows", "drop", "cascade"} \cup Holding
             /\ tx[x].pc \in {"none", "rows", "drop"} => HoldsNothing(tx[x])
             /\ tx[x].mode \in Modes
             /\ tx[x].mode = "update" => tx[x].pc = "cascade"
             /\ tx[x].mode = "no key update" => tx[x].pc \in {"read", "commit"}
  BY RequestOf DEF Transaction, TransactionOK, Progress, Statements, Holding, Late
<1>3. ASSUME NEW rows, q \in RowHolders(p, rows)
      PROVE  q \in Procs \ {p} /\ tx[q].pc \in Holding \cup {"cascade"}
  BY <1>2, <1>3 DEF RowHolders, HoldsNothing
<1>4. ASSUME NEW k, q \in KeyHolders(p, k)
      PROVE  q \in Procs \ {p} /\ tx[q].pc \in Holding \cup {"cascade"}
  BY <1>2, <1>4 DEF KeyHolders, HoldsNothing
<1>5. ASSUME NEW c, q \in CalHolders(p, c, "key share")
      PROVE  q \in Procs \ {p} /\ tx[q].pc = "cascade"
  BY <1>2, <1>5, ConflictTable DEF CalHolders
<1>6. ASSUME NEW c, q \in CalHolders(p, c, "no key update")
      PROVE  q \in Procs \ {p} /\ tx[q].pc \in {"read", "commit", "cascade"}
  BY <1>2, <1>6, ConflictTable DEF CalHolders
<1>7. ASSUME NEW c, q \in CalHolders(p, c, "update")
      PROVE  q \in Procs \ {p} /\ tx[q].pc \in Holding \cup {"cascade"}
  BY <1>2, <1>7, ConflictTable DEF CalHolders, HoldsNothing
<1>8. CASE tx[p].pc = "none"
  BY <1>3, <1>4, <1>8 DEF WaitsFor
<1>9. CASE tx[p].pc = "rows"
  BY <1>3, <1>9 DEF WaitsFor
<1>10. CASE tx[p].pc = "key"
  BY <1>4, <1>10 DEF WaitsFor
<1>11. CASE tx[p].pc = "fkey"
  BY <1>5, <1>11 DEF WaitsFor
<1>12. CASE tx[p].pc = "bump"
  BY <1>6, <1>12 DEF WaitsFor, Holding, Late
<1>13. CASE tx[p].pc \in {"read", "commit"}
  BY <1>13 DEF WaitsFor
<1>14. CASE tx[p].pc = "drop"
  BY <1>7, <1>14 DEF WaitsFor
<1>15. CASE tx[p].pc = "cascade"
  BY <1>3, <1>15 DEF WaitsFor
<1>. QED  BY <1>1, <1>8, <1>9, <1>10, <1>11, <1>12, <1>13, <1>14, <1>15 DEF Statements

\* Awaiting is the transitive closure of waiting.
LEMMA AwaitsWhomItWaitsFor ==
    ASSUME NEW p, NEW q \in WaitsFor(p)
    PROVE  Awaits(p, q)
  BY DEF Awaits

LEMMA AwaitsThrough ==
    ASSUME NEW p, NEW q, NEW s, q \in WaitsFor(p) \/ Awaits(p, q), Awaits(q, s)
    PROVE  Awaits(p, s)
  BY DEF Awaits

LEMMA AwaitsByWaiting ==
    ASSUME PgInv, NEW p \in Procs, NEW s \in Procs, Awaits(p, s)
    PROVE  s \in WaitsFor(p) \/ \E q \in WaitsFor(p) : Awaits(q, s)
<1> SUFFICES ASSUME s \notin WaitsFor(p), \A q \in WaitsFor(p) : ~Awaits(q, s)
             PROVE  FALSE
  OBVIOUS
<1> DEFINE S == {x \in Procs \ {s} : ~Awaits(x, s)}
<1>1. \A x \in Procs : WaitsFor(x) \subseteq Procs
  BY WhomAStatementWaitsFor
<1>2. WaitsFor(p) \subseteq S
  BY <1>1
<1>3. ASSUME NEW x \in S, NEW y \in WaitsFor(x)
      PROVE  y \in S
  <2>1. y # s
    BY AwaitsWhomItWaitsFor
  <2>2. ~Awaits(y, s)
    BY AwaitsThrough
  <2>. QED  BY <1>1, <2>1, <2>2
<1>4. S \in SUBSET Procs /\ s \notin S
  OBVIOUS
<1> HIDE DEF S
<1>. QED  BY <1>2, <1>3, <1>4 DEF Awaits

\* Whoever is in a circle waits for somebody in it.
LEMMA NextInCircle ==
    ASSUME PgInv, NEW p \in Procs, Deadlocked(p), NEW x \in Circle(p)
    PROVE  \E y \in WaitsFor(x) : y \in Circle(p)
<1>1. x \in Procs /\ Awaits(p, x) /\ Awaits(x, p) /\ Awaits(p, p)
  BY DEF Circle, Deadlocked
<1>2. CASE p \in WaitsFor(x)
  BY <1>1, <1>2 DEF Circle
<1>3. ASSUME NEW y \in WaitsFor(x), Awaits(y, p)
      PROVE  y \in Circle(p)
  <2>1. y \in Procs /\ Awaits(x, y)
    BY <1>1, WhomAStatementWaitsFor, AwaitsWhomItWaitsFor
  <2>2. Awaits(p, y)
    BY <1>1, <2>1, AwaitsThrough
  <2>. QED  BY <1>3, <2>1, <2>2 DEF Circle
<1>. QED  BY <1>1, <1>2, <1>3, AwaitsByWaiting

\* A member of a circle that has written its row waits for a UID, or the circle
\* has a DELETE of a calendar in it.
LEMMA HolderInCircle ==
    ASSUME PgInv, NEW p \in Procs, Deadlocked(p), NEW x \in Circle(p),
           tx[x].pc \in Holding \cup {"cascade"}
    PROVE  tx[x].pc = "key" \/ \E q \in Circle(p) : Dropping(q)
<1>1. \A y \in Circle(p) : y \in Procs
  BY DEF Circle
<1>2. \A y \in Circle(p) : tx[y].pc \notin {"read", "commit"}
  BY <1>1, NextInCircle, WhomAStatementWaitsFor
<1>3. CASE tx[x].pc \in {"fkey", "bump"}
  <2>1. PICK y \in WaitsFor(x) : y \in Circle(p)
    BY NextInCircle
  <2>2. tx[y].pc = "cascade"
    BY <1>1, <1>2, <1>3, <2>1, WhomAStatementWaitsFor
  <2>. QED  BY <2>1, <2>2 DEF Dropping
<1>4. CASE tx[x].pc = "cascade"
  BY <1>4 DEF Dropping
<1>. QED  BY <1>2, <1>3, <1>4 DEF Holding, Late

\* Two members of every circle wait for UIDs that others are writing, or one is
\* a DELETE of a calendar.
THEOREM OnlyDropOrExchangeDeadlocks == PgSpec => []DeadlocksNeedDropOrExchange
<1>1. ASSUME PgInv, NEW p \in Procs, Deadlocked(p)
      PROVE  \E q, s \in Circle(p) :
                \/ Dropping(q)
                \/ q # s /\ tx[q].pc = "key" /\ tx[s].pc = "key"
  <2> SUFFICES ASSUME \A q \in Circle(p) : ~Dropping(q)
               PROVE  \E q, s \in Circle(p) :
                         q # s /\ tx[q].pc = "key" /\ tx[s].pc = "key"
    OBVIOUS
  <2>1. p \in Circle(p) /\ \A x \in Circle(p) : x \in Procs
    BY <1>1 DEF Circle, Deadlocked
  <2>2. ASSUME NEW x \in Circle(p)
        PROVE  \E y \in Circle(p) : y # x /\ tx[y].pc = "key"
    <3>1. PICK y \in WaitsFor(x) : y \in Circle(p)
      BY <1>1, NextInCircle
    <3>2. y # x /\ tx[y].pc \in Holding \cup {"cascade"}
      BY <1>1, <2>1, <3>1, WhomAStatementWaitsFor
    <3>3. tx[y].pc = "key"
      BY <1>1, <3>1, <3>2, HolderInCircle
    <3>. QED  BY <3>1, <3>2, <3>3
  <2>3. PICK q \in Circle(p) : tx[q].pc = "key"
    BY <2>1, <2>2
  <2>. QED  BY <2>2, <2>3
<1>2. PgInv => DeadlocksNeedDropOrExchange
  BY <1>1 DEF DeadlocksNeedDropOrExchange
<1>. QED  BY <1>2, LocksKeepTransactionsApart, PTL

-----------------------------------------------------------------------------
(* What CalendarStore is shown of the requests.                            *)

Droppers == {q \in Procs : Dropping(q)}

ShownRight ==
    /\ ReqShown \in [Procs -> Requests]
    /\ \A p \in Procs :
          /\ ~tx[p].stale => ReqShown[p] = req[p]
          /\ tx[p].stale  => ReqShown[p] = [pc |-> "idle", status |-> "error"]
          /\ ReqShown[p].pc = req[p].pc

LEMMA RequestsShown == PgInv => ShownRight
<1> SUFFICES ASSUME PgInv PROVE ShownRight
  OBVIOUS
<1>1. ASSUME NEW p \in Procs, tx[p].stale
      PROVE  /\ req[p].pc = "idle"
             /\ [req[p] EXCEPT !.status = "error"] = [pc |-> "idle", status |-> "error"]
  <2>1. req[p].pc = "idle" /\ req[p] \in Requests
    BY <1>1, RequestOf DEF TransactionOK, Progress
  <2>2. req[p] \in Idle
    BY <2>1 DEF Requests, PutRequest, DelRequest
  <2>. QED  BY <2>1, <2>2 DEF Idle
<1>2. \A p \in Procs : req[p] \in Requests /\ tx[p].stale \in BOOLEAN
  BY RequestOf DEF Transaction
<1>3. [pc |-> "idle", status |-> "error"] \in Requests
  BY DEF Requests, Idle, Answers
<1>. QED  BY <1>1, <1>2, <1>3 DEF ReqShown, ShownRight

\* The same of the state after a step.
LEMMA RequestsShownThen == PgInv' => ShownRight'
  BY RequestsShown, PTL

\* A step of one goroutine changes what is shown of its request only.
LEMMA OneShown ==
    ASSUME PgInv, PgInv', NEW p \in Procs,
           \A q \in Procs \ {p} : req'[q] = req[q] /\ tx'[q] = tx[q],
           NEW r, r = ReqShown'[p]
    PROVE  ReqShown' = [ReqShown EXCEPT ![p] = r]
  BY RequestsShown, RequestsShownThen DEF ShownRight

\* What is shown of the number of requests: a DELETE of a calendar counts when it
\* ends.
LEMMA RequestsCounted ==
    ASSUME PgInv, NEW p \in Procs, issued' \in Nat,
           \A q \in Procs \ {p} : tx'[q] = tx[q]
    PROVE  /\ (Dropping(p)' <=> Dropping(p)) /\ issued' = issued
                 => IssuedShown' = IssuedShown
           /\ (Dropping(p)' <=> Dropping(p)) /\ issued' = issued + 1
                 => IssuedShown' = IssuedShown + 1
           /\ Dropping(p) /\ ~Dropping(p)' /\ issued' = issued
                 => IssuedShown' = IssuedShown + 1
           /\ ~Dropping(p) /\ Dropping(p)' /\ issued' = issued + 1
                 => IssuedShown' = IssuedShown
           /\ issued < MaxRequests \/ Dropping(p) => IssuedShown < MaxRequests
<1>1. IsFiniteSet(Droppers) /\ Cardinality(Droppers) \in Nat /\ issued \in Nat
      /\ issued <= MaxRequests
  <2>1. IsFiniteSet(Droppers)
    BY DEF PgInv, Droppers
  <2>. QED  BY <2>1, FS_CardinalityType, RequestOf DEF PgInv, IndInv, TypeOK
<1>2. IssuedShown = issued - Cardinality(Droppers)
  BY DEF IssuedShown, Droppers
<1>3. IssuedShown' = issued' - Cardinality(Droppers')
  BY DEF IssuedShown, Droppers
<1>4. Dropping(p) => Cardinality(Droppers) > 0
  <2>1. Dropping(p) => Droppers # {}
    BY DEF Droppers
  <2>. QED  BY <1>1, <2>1, FS_EmptySet
<1>5. issued < MaxRequests \/ Dropping(p) => IssuedShown < MaxRequests
  BY <1>1, <1>2, <1>4, BoundAssumption
<1>6. CASE Dropping(p)' <=> Dropping(p)
  <2>1. Droppers' = Droppers
    BY <1>6 DEF Droppers, Dropping
  <2>. QED  BY <1>1, <1>2, <1>3, <1>5, <1>6, <2>1
<1>7. CASE Dropping(p) /\ ~Dropping(p)'
  <2>1. Droppers' = Droppers \ {p}
    BY <1>7 DEF Droppers, Dropping
  <2>2. Cardinality(Droppers') = Cardinality(Droppers) - 1
    BY <1>1, <1>7, <2>1, FS_RemoveElement DEF Droppers
  <2>. QED  BY <1>1, <1>2, <1>3, <1>5, <1>7, <2>2
<1>8. CASE ~Dropping(p) /\ Dropping(p)'
  <2>1. Droppers' = Droppers \cup {p}
    BY <1>8 DEF Droppers, Dropping
  <2>2. Cardinality(Droppers') = Cardinality(Droppers) + 1
    BY <1>1, <1>8, <2>1, FS_AddElement DEF Droppers
  <2>. QED  BY <1>1, <1>2, <1>3, <1>5, <1>8, <2>2
<1>. QED  BY <1>6, <1>7, <1>8

\* An answer is shown as it is, unless it is a 404 for rows that had gone.
LEMMA AnswerShown ==
    ASSUME PgInv, PgInv', NEW p \in Procs, NEW status, Finish(p, status),
           \A q \in Procs \ {p} : tx'[q] = tx[q]
    PROVE  /\ ~tx'[p].stale => Store!Finish(p, status)
           /\ tx'[p].stale  => Store!Finish(p, "error")
<1>1. req'[p] = [pc |-> "idle", status |-> status] /\ \A q \in Procs \ {p} : req'[q] = req[q]
  BY DEF Finish, PgInv, IndInv, TypeOK
<1>2. PICK r : r = ReqShown'[p]
  OBVIOUS
<1>3. ReqShown' = [ReqShown EXCEPT ![p] = r]
  BY <1>1, <1>2, OneShown
<1>. QED  BY <1>1, <1>2, <1>3, RequestsShownThen DEF ShownRight, Store!Finish

-----------------------------------------------------------------------------
(* Each step is a step of CalendarStore, or invisible to it.               *)

LEMMA StatementInvisible ==
    ASSUME PgInv, PgInv', NEW p \in Procs, Local(p),
           \A q \in Procs \ {p} : tx'[q] = tx[q],
           tx'[p].stale = tx[p].stale, Dropping(p)' <=> Dropping(p)
    PROVE  UNCHANGED Store!vars
<1>1. UNCHANGED <<tables, req, issued>> /\ issued' \in Nat
  BY RequestOf DEF Local
<1>2. PICK r : r = ReqShown'[p]
  OBVIOUS
<1>3. ReqShown' = [ReqShown EXCEPT ![p] = r]
  BY <1>1, <1>2, OneShown
<1>4. r = ReqShown[p]
  BY <1>1, <1>2, RequestsShown, RequestsShownThen DEF ShownRight
<1>5. ReqShown' = ReqShown
  BY <1>3, <1>4, RequestsShown DEF ShownRight
<1>6. IssuedShown' = IssuedShown
  BY <1>1, RequestsCounted
<1>. QED  BY <1>1, <1>5, <1>6 DEF tables, Store!vars

\* A transaction that ends without a COMMIT is a request that failed.
LEMMA FailureShown ==
    ASSUME PgInv, PgInv', NEW p \in Procs, Busy(p), NEW status, Finish(p, status),
           UNCHANGED <<tables, issued>>, NEW t \in Transaction, t.pc = "none",
           tx' = [tx EXCEPT ![p] = t], t.stale \/ status = "error"
    PROVE  Store!Fail(p)
<1>1. tx'[p] = t /\ \A q \in Procs \ {p} : tx'[q] = tx[q]
  BY OneTransaction DEF PgInv
<1>2. Store!Finish(p, "error")
  <2>1. t.stale \in BOOLEAN
    BY DEF Transaction
  <2>. QED  BY <1>1, <2>1, AnswerShown
<1>3. issued' \in Nat /\ issued' = issued /\ UNCHANGED Store!tables
  BY RequestOf DEF tables, Store!tables
<1>4. ~Dropping(p)'
  BY <1>1 DEF Dropping
<1>5. CASE Dropping(p)
  <2>1. ReqShown[p].pc = "idle"
    BY <1>5, RequestOf, RequestsShown
       DEF ShownRight, TransactionOK, Progress, Dropping
  <2>2. IssuedShown < MaxRequests /\ IssuedShown' = IssuedShown + 1
    BY <1>1, <1>3, <1>4, <1>5, RequestsCounted
  <2>. QED  BY <1>2, <1>3, <2>1, <2>2 DEF Store!Fail, Store!Start
<1>6. CASE ~Dropping(p)
  <2>1. ReqShown[p].pc # "idle"
    BY <1>6, RequestsShown DEF ShownRight, Busy
  <2>2. IssuedShown' = IssuedShown
    BY <1>1, <1>3, <1>4, <1>6, RequestsCounted
  <2>. QED  BY <1>2, <1>3, <2>1, <2>2 DEF Store!Fail
<1>. QED  BY <1>5, <1>6

LEMMA RollBackShown ==
    ASSUME PgInv, PgInv', NEW p \in Procs, Busy(p), RollBack(p, "error")
    PROVE  Store!Fail(p)
  BY FailureShown, NoTxIsNothing DEF RollBack, EndTx

\* A 404 for what is there again is shown as a failure, any other as itself.
LEMMA GoneAnswerShown ==
    ASSUME PgInv, PgInv', NEW p \in Procs, Busy(p), Finish(p, "notfound"),
           UNCHANGED <<tables, issued>>, NEW again \in BOOLEAN,
           tx' = [tx EXCEPT ![p] = [NoTx EXCEPT !.stale = again]]
    PROVE  /\ again  => Store!Fail(p)
           /\ ~again => /\ Store!Finish(p, "notfound")
                        /\ UNCHANGED Store!tables
                        /\ ~Dropping(p) => IssuedShown' = IssuedShown
                        /\ Dropping(p) => Store!Start(p)
<1> DEFINE t == [NoTx EXCEPT !.stale = again]
<1>1. t \in Transaction /\ t.pc = "none" /\ t.stale = again
  BY NoTxIsNothing
<1>2. tx' = [tx EXCEPT ![p] = t]
  OBVIOUS
<1> HIDE DEF t
<1>3. again => Store!Fail(p)
  BY <1>1, <1>2, FailureShown
<1>4. /\ tx'[p] = t /\ \A q \in Procs \ {p} : tx'[q] = tx[q]
      /\ ~Dropping(p)' /\ issued' = issued /\ issued' \in Nat
  BY <1>1, <1>2, RequestOf DEF PgInv, Dropping
<1>5. ~again => Store!Finish(p, "notfound")
  BY <1>1, <1>4, AnswerShown
<1>6. ~Dropping(p) => IssuedShown' = IssuedShown
  BY <1>4, RequestsCounted
<1>7. ASSUME Dropping(p)
      PROVE  Store!Start(p)
  <2>1. ReqShown[p].pc = "idle"
    BY <1>7, RequestOf, RequestsShown DEF ShownRight, TransactionOK, Progress, Dropping
  <2>. QED  BY <1>4, <1>7, <2>1, RequestsCounted DEF Store!Start
<1>. QED  BY <1>3, <1>5, <1>6, <1>7 DEF tables, Store!tables

\* A request that begins is shown as one that begins.
LEMMA BeginningShown ==
    ASSUME PgInv, PgInv', NEW p \in Procs, Start(p), Ready(p)
    PROVE  /\ Store!Start(p)
           /\ tx'[p] = NoTx /\ \A q \in Procs \ {p} : tx'[q] = tx[q]
           /\ ReqShown'[p] = req'[p]
<1>1. tx'[p] = NoTx /\ \A q \in Procs \ {p} : tx'[q] = tx[q]
  BY OneTransaction, NoTxIsNothing DEF PgInv, Ready
<1>2. ~Dropping(p) /\ ~Dropping(p)'
  BY <1>1, NoTxIsNothing DEF Dropping, Ready
<1>3. issued' \in Nat /\ issued' = issued + 1 /\ issued < MaxRequests
  BY RequestOf DEF Start
<1>4. IssuedShown < MaxRequests /\ IssuedShown' = IssuedShown + 1
  BY <1>1, <1>2, <1>3, RequestsCounted
<1>5. ReqShown[p].pc = "idle"
  BY RequestsShown DEF ShownRight, Start
<1>6. ReqShown'[p] = req'[p]
  BY <1>1, NoTxIsNothing, RequestsShownThen DEF ShownRight
<1>. QED  BY <1>1, <1>4, <1>5, <1>6 DEF Store!Start

LEMMA CreateCalendarShown ==
    ASSUME PgInv, PgInv', NEW p \in Procs, NEW u \in Users, NEW cp \in CalPaths,
           PgCreateCalendar(p, u, cp)
    PROVE  Store!Next
<1>1. Ready(p) /\ Start(p) /\ CreateCalendar(p, u, cp)
  BY DEF PgCreateCalendar, CreateCalendar
<1>2. Store!Start(p) /\ tx'[p] = NoTx /\ \A q \in Procs \ {p} : tx'[q] = tx[q]
  BY <1>1, BeginningShown
<1>3. ASSUME NEW status, Finish(p, status)
      PROVE  Store!Finish(p, status)
  BY <1>2, <1>3, NoTxIsNothing, AnswerShown
<1>4. Committed(p) => Store!Committed(p)
  BY <1>3 DEF Committed, Store!Committed
<1>5. Store!CreateCalendar(p, u, cp)
  BY <1>1, <1>2, <1>3, <1>4
     DEF CreateCalendar, CalendarsAt, Live, Insert,
         Store!CreateCalendar, Store!CalendarsAt, Store!Live, Store!Insert
<1>. QED  BY <1>5 DEF Store!Next

LEMMA PutFindCalendarShown ==
    ASSUME PgInv, PgInv', NEW p \in Procs, NEW u \in Users, NEW op \in ObjPaths,
           NEW d \in Data, NEW cond \in Conds, PgPutFindCalendar(p, u, op, d, cond)
    PROVE  Store!Next
<1>1. Ready(p) /\ Start(p) /\ PutFindCalendar(p, u, op, d, cond)
  BY DEF PgPutFindCalendar, PutFindCalendar
<1>2. /\ Store!Start(p) /\ tx'[p] = NoTx /\ \A q \in Procs \ {p} : tx'[q] = tx[q]
      /\ ReqShown'[p] = req'[p]
  BY <1>1, BeginningShown
<1>3. ASSUME NEW status, Finish(p, status)
      PROVE  Store!Finish(p, status)
  BY <1>2, <1>3, NoTxIsNothing, AnswerShown
<1>4. ASSUME NEW r, req' = [req EXCEPT ![p] = r]
      PROVE  ReqShown' = [ReqShown EXCEPT ![p] = r]
  <2>1. req'[p] = r /\ \A q \in Procs \ {p} : req'[q] = req[q]
    BY <1>4 DEF PgInv, IndInv, TypeOK
  <2>. QED  BY <1>2, <2>1, OneShown
<1>5. Store!PutFindCalendar(p, u, op, d, cond)
  BY <1>1, <1>2, <1>3, <1>4
     DEF PutFindCalendar, CalendarsAt, Live, Owns, NoRow, tables,
         Store!PutFindCalendar, Store!CalendarsAt, Store!Live, Store!Owns, Store!NoRow,
         Store!tables
<1>. QED  BY <1>5 DEF Store!Next

LEMMA DeleteFindCalendarShown ==
    ASSUME PgInv, PgInv', NEW p \in Procs, NEW u \in Users, NEW op \in ObjPaths,
           PgDeleteFindCalendar(p, u, op)
    PROVE  Store!Next
<1>1. Ready(p) /\ Start(p) /\ DeleteFindCalendar(p, u, op)
  BY DEF PgDeleteFindCalendar, DeleteFindCalendar
<1>2. /\ Store!Start(p) /\ tx'[p] = NoTx /\ \A q \in Procs \ {p} : tx'[q] = tx[q]
      /\ ReqShown'[p] = req'[p]
  BY <1>1, BeginningShown
<1>3. ASSUME NEW status, Finish(p, status)
      PROVE  Store!Finish(p, status)
  BY <1>2, <1>3, NoTxIsNothing, AnswerShown
<1>4. ASSUME NEW r, req' = [req EXCEPT ![p] = r]
      PROVE  ReqShown' = [ReqShown EXCEPT ![p] = r]
  <2>1. req'[p] = r /\ \A q \in Procs \ {p} : req'[q] = req[q]
    BY <1>4 DEF PgInv, IndInv, TypeOK
  <2>. QED  BY <1>2, <2>1, OneShown
<1>5. Store!DeleteFindCalendar(p, u, op)
  BY <1>1, <1>2, <1>3, <1>4
     DEF DeleteFindCalendar, CalendarsAt, Live, Owns, tables,
         Store!DeleteFindCalendar, Store!CalendarsAt, Store!Live, Store!Owns, Store!tables
<1>. QED  BY <1>5 DEF Store!Next

LEMMA FailAtOnceShown ==
    ASSUME PgInv, PgInv', NEW p \in Procs, FailAtOnce(p)
    PROVE  Store!Next
<1>1. Ready(p) /\ Start(p) /\ Finish(p, "error") /\ UNCHANGED tables
  BY DEF FailAtOnce, Fail
<1>2. Store!Start(p) /\ tx'[p] = NoTx /\ \A q \in Procs \ {p} : tx'[q] = tx[q]
  BY <1>1, BeginningShown
<1>3. Store!Finish(p, "error")
  BY <1>1, <1>2, NoTxIsNothing, AnswerShown
<1>4. Store!Fail(p)
  BY <1>1, <1>2, <1>3 DEF Store!Fail, Store!tables, tables
<1>. QED  BY <1>4 DEF Store!Next

LEMMA PutFindExistingShown ==
    ASSUME PgInv, PgInv', NEW p \in Procs, PgPutFindExisting(p)
    PROVE  Store!Next
<1>1. /\ req[p].pc = "find" /\ UNCHANGED <<tables, issued>> /\ tx' = tx
      /\ PutFindExisting(p)
  BY DEF PgPutFindExisting, PutFindExisting
<1>2. ~tx[p].stale /\ ~tx'[p].stale /\ issued' \in Nat /\ \A q \in Procs \ {p} : tx'[q] = tx[q]
  BY <1>1, RequestOf DEF TransactionOK, Progress
<1>3. ReqShown[p] = req[p] /\ ReqShown'[p] = req'[p]
  BY <1>2, RequestsShown, RequestsShownThen DEF ShownRight
<1>4. IssuedShown' = IssuedShown
  <2>1. Dropping(p)' <=> Dropping(p)
    BY <1>1 DEF Dropping
  <2>. QED  BY <1>1, <1>2, <2>1, RequestsCounted
<1>5. ASSUME NEW status, Finish(p, status)
      PROVE  Store!Finish(p, status)
  BY <1>2, <1>5, AnswerShown
<1>6. ASSUME NEW row, req' = [req EXCEPT ![p].pc = "commit", ![p].row = row]
      PROVE  ReqShown' = [ReqShown EXCEPT ![p].pc = "commit", ![p].row = row]
  <2> DEFINE r == [req[p] EXCEPT !.pc = "commit", !.row = row]
  <2>1. req' = [req EXCEPT ![p] = r]
    BY <1>6
  <2>2. req'[p] = r /\ \A q \in Procs \ {p} : req'[q] = req[q]
    BY <2>1 DEF PgInv, IndInv, TypeOK
  <2>3. ReqShown' = [ReqShown EXCEPT ![p] = r]
    BY <1>2, <1>3, <2>2, OneShown
  <2>. QED  BY <1>3, <2>3, RequestsShown DEF ShownRight
<1>7. Store!PutFindExisting(p)
  BY <1>1, <1>3, <1>4, <1>5, <1>6
     DEF PutFindExisting, RowsAt, Refused, Matches, NoRow, tables,
         Store!PutFindExisting, Store!RowsAt, Store!Refused, Store!Matches, Store!NoRow,
         Store!tables
<1>. QED  BY <1>7 DEF Store!Next

\* The statement that follows is one of a PUT or of a DELETE of an object.
LEMMA FollowingStatement ==
    ASSUME PgInv, NEW p \in Procs,
           \/ tx[p].pc \in {"rows", "key", "fkey", "bump", "read"}
           \/ tx[p].pc = "none" /\ req[p].pc \in {"commit", "delete"}
    PROVE  Following(p) \in Statements \ {"none", "drop", "cascade"}
<1>1. TransactionOK(tx[p], req[p])
  BY RequestOf
<1>2. /\ tx[p].pc \in {"key", "fkey"} => req[p].pc = "commit"
      /\ tx[p].pc = "rows" => req[p].pc = "delete"
      /\ tx[p].pc = "fkey" => req[p].row = NoRow
  BY <1>1 DEF TransactionOK, Progress
<1>. QED  BY <1>2 DEF Following, InsertOrder, UpdateOrder, DeleteOrder, Statements

\* A statement before the COMMIT either does nothing that shows or fails.
LEMMA StatementShown ==
    ASSUME PgInv, PgInv', NEW p \in Procs,
           \/ UpdateRow(p) \/ InsertRow(p) \/ WriteUid(p) \/ CheckForeignKey(p)
           \/ Bump(p) \/ ReadBack(p) \/ SelectRows(p)
    PROVE  UNCHANGED Store!vars \/ Store!Fail(p)
<1>1. /\ ~Dropping(p)
      /\ \/ tx[p].pc \in {"key", "fkey", "bump", "read"}
         \/ tx[p].pc = "none" /\ req[p].pc \in {"commit", "delete"}
  BY DEF UpdateRow, InsertRow, WriteUid, CheckForeignKey, Bump, ReadBack, SelectRows, Dropping
<1>2. Following(p) \in Statements \ {"none", "drop", "cascade"}
  BY <1>1, FollowingStatement
<1>3. Busy(p)
  <2>1. tx[p].pc \in {"key", "fkey", "bump", "read"} => req[p].pc # "idle"
    BY RequestOf DEF TransactionOK, Progress
  <2>. QED  BY <1>1, <2>1 DEF Busy
<1>4. CASE RollBack(p, "error")
  BY <1>3, <1>4, RollBackShown
<1>5. CASE /\ Local(p)
           /\ tx'[p].pc \in {"bump", Following(p)} /\ tx'[p].stale = tx[p].stale
           /\ \A q \in Procs \ {p} : tx'[q] = tx[q]
  <2>1. ~Dropping(p)'
    BY <1>2, <1>5 DEF Dropping
  <2>. QED  BY <1>1, <1>5, <2>1, StatementInvisible
<1>6. tx \in [Procs -> Transaction]
  BY DEF PgInv
<1>7. CASE UpdateRow(p)
  BY <1>5, <1>6, <1>7 DEF UpdateRow, Transaction
<1>8. CASE InsertRow(p)
  BY <1>4, <1>5, <1>6, <1>8 DEF InsertRow, Transaction
<1>9. CASE WriteUid(p)
  BY <1>4, <1>5, <1>6, <1>9 DEF WriteUid, Transaction
<1>10. CASE CheckForeignKey(p)
  <2>1. ASSUME tx' = [tx EXCEPT ![p].pc = Following(p), ![p].cal = req[p].cal,
                                ![p].mode = "key share"]
        PROVE  /\ tx'[p].pc = Following(p) /\ tx'[p].stale = tx[p].stale
               /\ \A q \in Procs \ {p} : tx'[q] = tx[q]
    BY <1>6, <2>1 DEF Transaction
  <2>. QED  BY <1>4, <1>5, <1>10, <2>1 DEF CheckForeignKey
<1>11. CASE Bump(p)
  <2>1. ASSUME tx' = [tx EXCEPT ![p].pc = Following(p)]
        PROVE  /\ tx'[p].pc = Following(p) /\ tx'[p].stale = tx[p].stale
               /\ \A q \in Procs \ {p} : tx'[q] = tx[q]
    BY <1>6, <2>1 DEF Transaction
  <2>2. ASSUME tx' = [tx EXCEPT ![p].pc = Following(p), ![p].cal = req[p].cal,
                                ![p].mode = "no key update",
                                ![p].bumped = calendars[req[p].cal].token + 1]
        PROVE  /\ tx'[p].pc = Following(p) /\ tx'[p].stale = tx[p].stale
               /\ \A q \in Procs \ {p} : tx'[q] = tx[q]
    BY <1>6, <2>2 DEF Transaction
  <2>. QED  BY <1>5, <1>11, <2>1, <2>2 DEF Bump
<1>12. CASE ReadBack(p)
  BY <1>4, <1>5, <1>6, <1>12 DEF ReadBack, Transaction
<1>13. CASE SelectRows(p)
  BY <1>5, <1>6, <1>13 DEF SelectRows, Transaction
<1>. QED  BY <1>7, <1>8, <1>9, <1>10, <1>11, <1>12, <1>13

LEMMA DeleteRowsShown ==
    ASSUME PgInv, PgInv', NEW p \in Procs, DeleteRows(p)
    PROVE  UNCHANGED Store!vars \/ Store!Next
<1>1. tx[p].pc = "rows" /\ ~Dropping(p) /\ Busy(p) /\ tx \in [Procs -> Transaction]
  BY RequestOf DEF DeleteRows, Dropping, Busy, TransactionOK, Progress, PgInv
<1>2. Following(p) \in Statements \ {"none", "drop", "cascade"}
  BY <1>1, FollowingStatement
<1>3. CASE /\ tx' = [tx EXCEPT ![p] = [NoTx EXCEPT !.stale = RowCreatedSince(p)]]
           /\ Finish(p, "notfound") /\ UNCHANGED <<tables, issued>> /\ Found(p) = {}
  <2>1. RowCreatedSince(p) \in BOOLEAN
    BY DEF RowCreatedSince
  <2>2. CASE RowCreatedSince(p)
    BY <1>1, <1>3, <2>1, <2>2, GoneAnswerShown DEF Store!Next
  <2>3. CASE ~RowCreatedSince(p)
    <3>1. RowsAt(req[p].path) \cap RowsOf(req[p].cal) = {}
      BY <1>3, <2>3 DEF RowCreatedSince, Found, RowsAt
    <3>2. ReqShown[p] = req[p] /\ req[p].pc = "delete"
      BY <1>1, RequestOf, RequestsShown DEF ShownRight, TransactionOK, Progress
    <3>3. /\ Store!Finish(p, "notfound") /\ UNCHANGED Store!tables
          /\ IssuedShown' = IssuedShown
      BY <1>1, <1>3, <2>1, <2>3, GoneAnswerShown
    <3>4. Store!DeleteCommit(p)
      BY <3>1, <3>2, <3>3
         DEF RowsAt, RowsOf, Store!DeleteCommit, Store!RowsAt, Store!RowsOf, Store!tables
    <3>. QED  BY <3>4 DEF Store!Next
  <2>. QED  BY <2>2, <2>3
<1>4. CASE /\ Local(p)
           /\ tx' = [tx EXCEPT ![p].pc = Following(p), ![p].rows = Found(p)]
  <2>1. /\ tx'[p].pc = Following(p) /\ tx'[p].stale = tx[p].stale
        /\ \A q \in Procs \ {p} : tx'[q] = tx[q]
    BY <1>1, <1>4 DEF Transaction
  <2>2. ~Dropping(p)'
    BY <1>2, <2>1 DEF Dropping
  <2>. QED  BY <1>1, <1>4, <2>1, <2>2, StatementInvisible
<1>. QED  BY <1>3, <1>4 DEF DeleteRows

\* Until its COMMIT the DELETE of a calendar does not show.
LEMMA DropUnderWayShown ==
    ASSUME PgInv, PgInv', NEW p \in Procs,
           LockCalendar(p) \/ (\E o \in DOMAIN objects : CascadeTo(p, o))
    PROVE  UNCHANGED Store!vars \/ Store!Next
<1>1. Dropping(p) /\ Busy(p) /\ tx \in [Procs -> Transaction]
  BY DEF LockCalendar, CascadeTo, Dropping, Busy, PgInv
<1>2. CASE /\ tx' = [tx EXCEPT ![p] = [NoTx EXCEPT !.stale = CalendarCreatedSince(p)]]
           /\ Finish(p, "notfound") /\ UNCHANGED <<tables, issued>>
  <2>1. CalendarCreatedSince(p) \in BOOLEAN
    BY DEF CalendarCreatedSince
  <2>2. CASE CalendarCreatedSince(p)
    BY <1>1, <1>2, <2>1, <2>2, GoneAnswerShown DEF Store!Next
  <2>3. CASE ~CalendarCreatedSince(p)
    <3>1. PICK name \in tx[p].names : CalendarsOf(name.user, name.path) = {}
      BY <2>3 DEF CalendarCreatedSince
    <3>2. name.user \in Users /\ name.path \in CalPaths
      BY <1>1, <3>1 DEF Transaction
    <3>3. Store!Finish(p, "notfound") /\ UNCHANGED Store!tables /\ Store!Start(p)
      BY <1>1, <1>2, <2>1, <2>3, GoneAnswerShown
    <3>4. \A conn : Store!DeleteCalendar(p, name.user, name.path, conn)
      BY <3>1, <3>3 DEF CalendarsOf, CalendarsAt, Live,
         Store!DeleteCalendar, Store!CalendarsAt, Store!Live, Store!tables
    <3>. QED  BY <3>2, <3>4, EnforcedAssumption DEF Store!Next
  <2>. QED  BY <2>2, <2>3
<1>3. CASE /\ Local(p) /\ tx'[p].pc \in {"drop", "cascade"} /\ tx'[p].stale = tx[p].stale
           /\ \A q \in Procs \ {p} : tx'[q] = tx[q]
  <2>1. Dropping(p)'
    BY <1>3 DEF Dropping
  <2>. QED  BY <1>1, <1>3, <2>1, StatementInvisible
<1>4. CASE LockCalendar(p)
  <2>1. ASSUME NEW c, tx' = [tx EXCEPT ![p].pc = "cascade", ![p].cal = c, ![p].mode = "update"]
        PROVE  /\ tx'[p].pc = "cascade" /\ tx'[p].stale = tx[p].stale
               /\ \A q \in Procs \ {p} : tx'[q] = tx[q]
    BY <1>1, <2>1 DEF Transaction
  <2>. QED  BY <1>2, <1>3, <1>4, <2>1 DEF LockCalendar
<1>5. ASSUME NEW o, CascadeTo(p, o)
      PROVE  UNCHANGED Store!vars
  <2>1. /\ Local(p) /\ tx'[p].pc = "cascade" /\ tx'[p].stale = tx[p].stale
        /\ \A q \in Procs \ {p} : tx'[q] = tx[q]
    BY <1>1, <1>5 DEF CascadeTo, Transaction
  <2>2. Dropping(p)'
    BY <2>1 DEF Dropping
  <2>. QED  BY <1>1, <2>1, <2>2, StatementInvisible
<1>. QED  BY <1>4, <1>5

LEMMA CommitPutShown ==
    ASSUME PgInv, PgInv', NEW p \in Procs, CommitPut(p)
    PROVE  Store!Next
<1>1. /\ PutEffect(req[p]) /\ req[p].pc = "commit" /\ Committed(p)
      /\ tx[p].pc = "commit" /\ tx' = [tx EXCEPT ![p] = NoTx] /\ UNCHANGED <<nextCal, issued>>
  BY CommitPutIsPutCommit DEF CommitPut, CommitChange, EndTx
<1>2. tx'[p] = NoTx /\ \A q \in Procs \ {p} : tx'[q] = tx[q]
  BY <1>1, NoTxIsNothing, OneTransaction DEF PgInv
<1>3. ReqShown[p] = req[p]
  BY <1>1, RequestOf, RequestsShown DEF TransactionOK, Progress, ShownRight
<1>4. Store!Committed(p)
  BY <1>1, <1>2, NoTxIsNothing, AnswerShown DEF Committed, Store!Committed
<1>5. IssuedShown' = IssuedShown
  <2>1. ~Dropping(p) /\ ~Dropping(p)'
    BY <1>1, <1>2, NoTxIsNothing DEF Dropping
  <2>2. issued' \in Nat
    BY <1>1, RequestOf
  <2>. QED  BY <1>1, <1>2, <2>1, <2>2, RequestsCounted
<1>6. Store!PutCommit(p)
  <2>1. Store!Commits(ReqShown[p])
    BY <1>1, <1>3 DEF PutEffect, Commits, PathFree, UidFree, RowsAt, RowsOf, Live, NoRow,
       Store!Commits, Store!PathFree, Store!UidFree, Store!RowsAt, Store!RowsOf,
       Store!Live, Store!NoRow
  <2>2. Store!WriteRow(ReqShown[p])
    BY <1>1, <1>3 DEF PutEffect, WriteRow, Insert, NoRow,
       Store!WriteRow, Store!Insert, Store!NoRow
  <2>3. Store!RecordChange(ReqShown[p].cal, ReqShown[p].path,
                           IF ReqShown[p].row = Store!NoRow THEN "created" ELSE "modified")
    BY <1>1, <1>3 DEF PutEffect, RecordChange, NoRow, Store!RecordChange, Store!NoRow
  <2>. QED  BY <1>1, <1>3, <1>4, <1>5, <2>1, <2>2, <2>3 DEF Store!PutCommit
<1>. QED  BY <1>6 DEF Store!Next

LEMMA CommitDeleteShown ==
    ASSUME PgInv, PgInv', NEW p \in Procs, CommitDelete(p)
    PROVE  Store!Next
<1>1. /\ DeleteEffect(req[p]) /\ req[p].pc = "delete" /\ Committed(p)
      /\ tx[p].pc = "commit" /\ tx' = [tx EXCEPT ![p] = NoTx]
      /\ UNCHANGED <<nextCal, nextRow, issued>>
  BY CommitDeleteIsDeleteCommit DEF CommitDelete, CommitChange, EndTx
<1>2. tx'[p] = NoTx /\ \A q \in Procs \ {p} : tx'[q] = tx[q]
  BY <1>1, NoTxIsNothing, OneTransaction DEF PgInv
<1>3. ReqShown[p] = req[p]
  BY <1>1, RequestOf, RequestsShown DEF TransactionOK, Progress, ShownRight
<1>4. Store!Committed(p)
  BY <1>1, <1>2, NoTxIsNothing, AnswerShown DEF Committed, Store!Committed
<1>5. IssuedShown' = IssuedShown
  <2>1. ~Dropping(p) /\ ~Dropping(p)'
    BY <1>1, <1>2, NoTxIsNothing DEF Dropping
  <2>2. issued' \in Nat
    BY <1>1, RequestOf
  <2>. QED  BY <1>1, <1>2, <2>1, <2>2, RequestsCounted
<1>6. Store!DeleteCommit(p)
  BY <1>1, <1>3, <1>4, <1>5
     DEF DeleteEffect, RowsAt, RowsOf, Live, RecordChange, Restrict, Store!Restrict,
         Store!DeleteCommit, Store!RowsAt, Store!RowsOf, Store!Live, Store!RecordChange
<1>. QED  BY <1>6 DEF Store!Next

LEMMA CommitDropShown ==
    ASSUME PgInv, PgInv', NEW p \in Procs, CommitDrop(p)
    PROVE  Store!Next
<1> DEFINE c == tx[p].cal
<1>1. /\ Committed(p) /\ tx[p].pc = "cascade" /\ tx' = [tx EXCEPT ![p] = NoTx]
      /\ UNCHANGED <<nextCal, nextRow, issued>>
  BY DEF CommitDrop, EndTx
<1>2. PICK conn \in Conns : DropEffect(c, conn)
  BY EnforcedAssumption, CommitDropIsDrop
<1>3. tx'[p] = NoTx /\ \A q \in Procs \ {p} : tx'[q] = tx[q]
  BY <1>1, NoTxIsNothing, OneTransaction DEF PgInv
<1>4. Store!Committed(p)
  BY <1>1, <1>3, NoTxIsNothing, AnswerShown DEF Committed, Store!Committed
<1>5. Store!Start(p)
  <2>1. Dropping(p) /\ ~Dropping(p)'
    BY <1>1, <1>3, NoTxIsNothing DEF Dropping
  <2>2. issued' \in Nat
    BY <1>1, RequestOf
  <2>3. IssuedShown < MaxRequests /\ IssuedShown' = IssuedShown + 1
    BY <1>1, <1>3, <2>1, <2>2, RequestsCounted
  <2>4. ReqShown[p].pc = "idle"
    BY <1>1, RequestOf, RequestsShown DEF TransactionOK, Progress, ShownRight
  <2>. QED  BY <2>3, <2>4 DEF Store!Start
<1>6. c \in Live /\ calendars[c].user \in Users /\ calendars[c].path \in CalPaths
  <2>1. c \in Live
    BY <1>2 DEF DropEffect
  <2>2. calendars[c] \in CalendarRow
    BY <2>1 DEF PgInv, IndInv, TypeOK, Live
  <2>. QED  BY <2>1, <2>2 DEF CalendarRow
<1> HIDE DEF c
<1>7. Store!DeleteCalendar(p, calendars[c].user, calendars[c].path, conn)
  BY <1>1, <1>2, <1>4, <1>5, <1>6
     DEF DropEffect, Cascade, RowsOf, Live, Restrict, Store!Restrict,
         Store!DeleteCalendar, Store!CalendarsAt, Store!Cascade, Store!RowsOf, Store!Live
<1>. QED  BY <1>6, <1>7 DEF Store!Next

LEMMA SelectCalendarShown ==
    ASSUME PgInv, PgInv', NEW p \in Procs, NEW u \in Users, NEW cp \in CalPaths,
           SelectCalendar(p, u, cp)
    PROVE  UNCHANGED Store!vars \/ Store!Next
<1>1. /\ ~Dropping(p) /\ Start(p) /\ UNCHANGED tables
      /\ issued' = issued + 1 /\ issued' \in Nat
  <2>1. ~Dropping(p) /\ Start(p) /\ UNCHANGED tables
    BY DEF SelectCalendar
  <2>. QED  BY <2>1, RequestOf DEF Start
<1>2. CASE CalendarsOf(u, cp) = {} /\ tx' = [tx EXCEPT ![p] = NoTx] /\ Finish(p, "notfound")
  <2>1. Ready(p)
    BY <1>1, <1>2 DEF Ready
  <2>2. Store!Start(p) /\ tx'[p] = NoTx /\ \A q \in Procs \ {p} : tx'[q] = tx[q]
    BY <1>1, <2>1, BeginningShown
  <2>3. Store!Finish(p, "notfound")
    BY <1>2, <2>2, NoTxIsNothing, AnswerShown
  <2>4. \A conn : Store!DeleteCalendar(p, u, cp, conn)
    BY <1>1, <1>2, <2>2, <2>3
       DEF CalendarsOf, CalendarsAt, Live, tables,
           Store!DeleteCalendar, Store!CalendarsAt, Store!Live
  <2>. QED  BY <2>4, EnforcedAssumption DEF Store!Next
<1>3. ASSUME NEW c, UNCHANGED req,
             tx' = [tx EXCEPT ![p] =
                [NoTx EXCEPT !.pc = "drop", !.seen = {c}, !.stale = tx[p].stale,
                             !.names = {[user |-> u, path |-> cp]}]]
      PROVE  UNCHANGED Store!vars
  <2> DEFINE t == [NoTx EXCEPT !.pc = "drop", !.seen = {c}, !.stale = tx[p].stale,
                               !.names = {[user |-> u, path |-> cp]}]
  <2>1. t.pc = "drop" /\ t.stale = tx[p].stale
    BY DEF NoTx
  <2>2. tx' = [tx EXCEPT ![p] = t]
    BY <1>3
  <2> HIDE DEF t
  <2>3. tx'[p] = t /\ \A q \in Procs \ {p} : tx'[q] = tx[q]
    BY <2>2 DEF PgInv
  <2>4. Dropping(p)'
    BY <2>1, <2>3 DEF Dropping
  <2>5. IssuedShown' = IssuedShown
    BY <1>1, <2>3, <2>4, RequestsCounted
  <2>6. PICK r : r = ReqShown'[p]
    OBVIOUS
  <2>7. ReqShown' = [ReqShown EXCEPT ![p] = r]
    BY <1>3, <2>3, <2>6, OneShown
  <2>8. r = ReqShown[p]
    BY <1>3, <2>1, <2>3, <2>6, RequestsShown, RequestsShownThen DEF ShownRight
  <2>9. ReqShown' = ReqShown
    BY <2>7, <2>8, RequestsShown DEF ShownRight
  <2>. QED  BY <1>1, <2>5, <2>9 DEF tables, Store!vars
<1>. QED  BY <1>2, <1>3 DEF SelectCalendar

LEMMA StartShown == PgInit => Store!Init
<1> SUFFICES ASSUME PgInit PROVE Store!Init
  OBVIOUS
<1>1. Init /\ \A p \in Procs : tx[p] = NoTx
  BY DEF PgInit
<1>2. PgInv
  BY PgInitInv
<1>3. ReqShown = [p \in Procs |-> [pc |-> "idle", status |-> "none"]]
  <2>1. \A p \in Procs : ReqShown[p] = [pc |-> "idle", status |-> "none"]
    BY <1>1, <1>2, NoTxIsNothing, RequestsShown DEF ShownRight, Init
  <2>. QED  BY <1>2, <2>1, RequestsShown DEF ShownRight
<1>4. IssuedShown = 0
  <2>1. {p \in Procs : Dropping(p)} = {}
    BY <1>1, NoTxIsNothing DEF Dropping
  <2>. QED  BY <1>1, <2>1, FS_EmptySet DEF IssuedShown, Init
<1>. QED  BY <1>1, <1>3, <1>4 DEF Init, EmptyTable, Store!Init, Store!EmptyTable

LEMMA StepShown == PgInv /\ PgInv' /\ [PgNext]_pgvars => [Store!Next]_(Store!vars)
<1> SUFFICES ASSUME PgInv, PgInv', [PgNext]_pgvars
             PROVE  UNCHANGED Store!vars \/ Store!Next
  OBVIOUS
<1>1. CASE UNCHANGED pgvars
  BY <1>1 DEF pgvars, Store!vars, ReqShown, IssuedShown, Dropping
<1>2. ASSUME NEW p \in Procs, Arrive(p)
      PROVE  UNCHANGED Store!vars \/ Store!Next
  BY <1>2, CreateCalendarShown, SelectCalendarShown, PutFindCalendarShown,
     DeleteFindCalendarShown, FailAtOnceShown DEF Arrive
<1>3. ASSUME NEW p \in Procs, Store!Fail(p)
      PROVE  Store!Next
  BY <1>3 DEF Store!Next
<1>4. ASSUME NEW p \in Procs, Proceed(p)
      PROVE  UNCHANGED Store!vars \/ Store!Next
  BY <1>3, <1>4, PutFindExistingShown, StatementShown, CommitPutShown, DeleteRowsShown,
     CommitDeleteShown, DropUnderWayShown, CommitDropShown DEF Proceed
<1>5. ASSUME NEW p \in Procs, Abort(p) \/ BreakDeadlock(p)
      PROVE  Store!Next
  BY <1>3, <1>5, RollBackShown DEF Abort, BreakDeadlock
<1>. QED  BY <1>1, <1>2, <1>4, <1>5 DEF PgNext

\* The statements of concurrent transactions under READ COMMITTED, with the row
\* locks and the unique indexes of PostgreSQL, do what CalendarStore does with
\* each transaction in one step.
THEOREM TransactionsAreOneStep == PgSpec => ImplementsStore
<1>1. PgInit => Store!Init
  BY StartShown
<1>2. PgInv /\ PgInv' /\ [PgNext]_pgvars => [Store!Next]_(Store!vars)
  BY StepShown
<1>3. PgSpec => []PgInv
  BY LocksKeepTransactionsApart
<1>. QED  BY <1>1, <1>2, <1>3, PTL DEF PgSpec, ImplementsStore, Store!Spec

-----------------------------------------------------------------------------
(* What clients see of the store on PostgreSQL.                            *)

\* Only a COMMIT, or MKCALENDAR, writes to the tables.
LEMMA PgStepsOfTables ==
    ASSUME PgInv, [PgNext]_pgvars
    PROVE  TableStep
<1>1. CASE UNCHANGED pgvars
  BY <1>1 DEF pgvars, tables, TableStep
<1>2. ASSUME UNCHANGED tables
      PROVE  TableStep
  BY <1>2 DEF TableStep
<1>3. ASSUME NEW p \in Procs, Arrive(p)
      PROVE  TableStep
  <2>1. ASSUME NEW u \in Users, NEW cp \in CalPaths, PgCreateCalendar(p, u, cp)
        PROVE  TableStep
    BY <2>1, StepsOfTables DEF PgCreateCalendar, Next
  <2>. QED  BY <1>2, <1>3, <2>1
            DEF Arrive, SelectCalendar, PgPutFindCalendar, PutFindCalendar,
                PgDeleteFindCalendar, DeleteFindCalendar, FailAtOnce, Fail
<1>4. ASSUME NEW p \in Procs, Proceed(p)
      PROVE  TableStep
  <2>1. CASE CommitPut(p)
    BY <2>1, CommitPutIsPutCommit, StepsOfTables DEF Next
  <2>2. CASE CommitDelete(p)
    BY <2>2, CommitDeleteIsDeleteCommit, StepsOfTables DEF Next
  <2>3. CASE CommitDrop(p)
    <3>1. PICK conn \in Conns : DropEffect(tx[p].cal, conn)
      BY <2>3, EnforcedAssumption, CommitDropIsDrop
    <3>. QED  BY <3>1 DEF TableStep, DropEffect
  <2>4. CASE PgPutFindExisting(p) \/ UpdateRow(p) \/ InsertRow(p) \/ WriteUid(p)
             \/ CheckForeignKey(p) \/ Bump(p) \/ ReadBack(p)
    BY <1>2, <2>4 DEF PgPutFindExisting, PutFindExisting, UpdateRow, InsertRow, WriteUid,
       CheckForeignKey, Bump, ReadBack, Local, RollBack
  <2>5. CASE SelectRows(p) \/ DeleteRows(p) \/ LockCalendar(p)
             \/ (\E o \in DOMAIN objects : CascadeTo(p, o))
    BY <1>2, <2>5 DEF SelectRows, DeleteRows, LockCalendar, CascadeTo, Local
  <2>. QED  BY <1>4, <2>1, <2>2, <2>3, <2>4, <2>5 DEF Proceed
<1>5. ASSUME NEW p \in Procs, Abort(p) \/ BreakDeadlock(p)
      PROVE  TableStep
  BY <1>2, <1>5 DEF Abort, BreakDeadlock, RollBack
<1>. QED  BY <1>1, <1>3, <1>4, <1>5 DEF PgNext

\* A client that polls the CTag misses no change, however the statements of the
\* transactions interleave.
THEOREM PgTokenFollowsContents == PgSpec => ContentsChangeBumpsToken
<1>1. ASSUME PgInv, [PgNext]_pgvars, NEW c \in Live \cap Live', Contents(c)' # Contents(c)
      PROVE  calendars'[c].token > calendars[c].token
  <2>1. IndInv
    BY <1>1 DEF PgInv
  <2>2. PICK p \in Procs : CommitEffect(p) /\ req[p].cal = c
    BY <1>1, <2>1, PgStepsOfTables, ContentsChangeByCommit
  <2>3. PICK type : RecordChange(c, req[p].path, type)
    BY <2>1, <2>2, CommitChangesOnePath
  <2>. QED  BY <1>1, <2>1, <2>3, RecordChangeCalendars DEF IndInv
<1>2. PgInv /\ [PgNext]_pgvars =>
        [\A c \in Live \cap Live' :
            Contents(c)' # Contents(c) => calendars'[c].token > calendars[c].token]_vars
  BY <1>1
<1>. QED  BY <1>2, LocksKeepTransactionsApart, PTL DEF PgSpec, ContentsChangeBumpsToken

\* Only requests of its owner change what a calendar shows.
THEOREM PgOwnersWrite == PgSpec => OnlyOwnerChangesContents
<1>1. ASSUME PgInv, [PgNext]_pgvars, NEW c \in Live \cap Live', Contents(c)' # Contents(c)
      PROVE  \E p \in Procs : /\ req'[p] # req[p]
                             /\ req[p].pc \in {"commit", "delete"}
                             /\ req[p].user = calendars[c].user
  <2>1. IndInv
    BY <1>1 DEF PgInv
  <2>2. PICK p \in Procs : /\ CommitEffect(p)
                           /\ req[p].user = calendars[c].user
                           /\ \E status : Finish(p, status)
    BY <1>1, <2>1, PgStepsOfTables, ContentsChangeByCommit
  <2>3. req'[p].pc = "idle"
    BY <2>1, <2>2 DEF Finish, IndInv, TypeOK
  <2>. QED  BY <2>2, <2>3 DEF CommitEffect
<1>2. PgInv /\ [PgNext]_pgvars =>
        [\A c \in Live \cap Live' : Contents(c)' # Contents(c) =>
            \E p \in Procs : /\ req'[p] # req[p]
                            /\ req[p].pc \in {"commit", "delete"}
                            /\ req[p].user = calendars[c].user]_vars
  BY <1>1
<1>. QED  BY <1>2, LocksKeepTransactionsApart, PTL DEF PgSpec, OnlyOwnerChangesContents

\* Success is answered to a PUT by its COMMIT only.
LEMMA PgAckedPutCommitted ==
    ASSUME PgInv, [PgNext]_pgvars, NEW p \in Procs, AckedPut(p)
    PROVE  req[p].pc = "commit" /\ PutEffect(req[p])
<1>1. /\ req[p].pc = "commit" /\ req'[p].pc = "idle" /\ req'[p].status = "ok"
      /\ DOMAIN req = Procs
  BY DEF AckedPut, PgInv, IndInv, TypeOK
<1>2. ASSUME NEW q \in Procs, NEW status, Finish(q, status), status # "ok" \/ q # p
      PROVE  FALSE
  BY <1>1, <1>2 DEF Finish
<1>3. ASSUME NEW q \in Procs, NEW r, req' = [req EXCEPT ![q] = r], q # p
      PROVE  FALSE
  BY <1>1, <1>3
<1>4. ASSUME UNCHANGED req
      PROVE  FALSE
  BY <1>1, <1>4
<1>5. ASSUME NEW q \in Procs, RollBack(q, "error")
      PROVE  FALSE
  BY <1>2, <1>5 DEF RollBack
<1>6. ASSUME NEW q \in Procs, Arrive(q)
      PROVE  FALSE
  <2>1. q # p
    BY <1>1, <1>6 DEF Arrive, PgCreateCalendar, CreateCalendar, SelectCalendar,
       PgPutFindCalendar, PutFindCalendar, PgDeleteFindCalendar, DeleteFindCalendar,
       FailAtOnce, Start
  <2>2. \/ UNCHANGED req
        \/ \E status : Finish(q, status)
        \/ \E r : req' = [req EXCEPT ![q] = r]
    BY <1>6 DEF Arrive, PgCreateCalendar, CreateCalendar, Committed, SelectCalendar,
       PgPutFindCalendar, PutFindCalendar, PgDeleteFindCalendar, DeleteFindCalendar,
       FailAtOnce, Fail
  <2>. QED  BY <1>2, <1>3, <1>4, <2>1, <2>2
<1>7. ASSUME NEW q \in Procs, Proceed(q)
      PROVE  PutEffect(req[p])
  <2>1. CASE PgPutFindExisting(q)
    <3>1. q # p
      BY <1>1, <2>1 DEF PgPutFindExisting, PutFindExisting
    <3>. QED  BY <1>1, <1>2, <2>1, <3>1 DEF PgPutFindExisting, PutFindExisting
  <2>2. CASE UpdateRow(q) \/ InsertRow(q) \/ WriteUid(q) \/ CheckForeignKey(q)
             \/ Bump(q) \/ ReadBack(q) \/ SelectRows(q)
    BY <1>4, <1>5, <2>2 DEF UpdateRow, InsertRow, WriteUid, CheckForeignKey, Bump,
       ReadBack, SelectRows, Local
  <2>3. CASE DeleteRows(q) \/ LockCalendar(q) \/ (\E o \in DOMAIN objects : CascadeTo(q, o))
    BY <1>2, <1>4, <2>3 DEF DeleteRows, LockCalendar, CascadeTo, Local
  <2>4. CASE CommitPut(q)
    <3>1. q = p
      BY <1>2, <2>4 DEF CommitPut, CommitChange, Committed
    <3>. QED  BY <2>4, <3>1, CommitPutIsPutCommit
  <2>5. CASE CommitDelete(q)
    BY <1>1, <1>2, <2>5 DEF CommitDelete, CommitChange, Committed
  <2>6. CASE CommitDrop(q)
    <3>1. req[q].pc = "idle"
      BY <2>6, RequestOf DEF CommitDrop, TransactionOK, Progress
    <3>. QED  BY <1>1, <1>2, <2>6, <3>1 DEF CommitDrop, Committed
  <2>. QED  BY <1>7, <2>1, <2>2, <2>3, <2>4, <2>5, <2>6 DEF Proceed
<1>8. CASE UNCHANGED pgvars
  BY <1>4, <1>8 DEF pgvars
<1>9. ASSUME NEW q \in Procs, Abort(q) \/ BreakDeadlock(q)
      PROVE  FALSE
  BY <1>5, <1>9 DEF Abort, BreakDeadlock
<1>. QED  BY <1>1, <1>6, <1>7, <1>8, <1>9 DEF PgNext

\* Of two PUTs with If-None-Match: * at most one is answered with success: the
\* other waits for its index entry and then finds it taken.
THEOREM PgCreateOnlyNeverReplaces == PgSpec => IfNoneMatchNeverReplaces
<1>1. ASSUME PgInv, [PgNext]_pgvars, NEW p \in Procs, AckedPut(p),
             req[p].cond.ifNoneMatch = Wildcard
      PROVE  RowsAt(req[p].path) = {}
  <2>1. req[p].pc = "commit" /\ Commits(req[p])
    BY <1>1, PgAckedPutCommitted DEF PutEffect
  <2>2. req[p].row = NoRow
    BY <1>1, <2>1, RequestOf DEF FoundRow
  <2>. QED  BY <2>1, <2>2 DEF Commits, PathFree
<1>2. PgInv /\ [PgNext]_pgvars =>
        [\A p \in Procs : AckedPut(p) /\ req[p].cond.ifNoneMatch = Wildcard =>
            RowsAt(req[p].path) = {}]_vars
  BY <1>1
<1>. QED  BY <1>2, LocksKeepTransactionsApart, PTL DEF PgSpec, IfNoneMatchNeverReplaces

\* A PUT that is answered with success has stored its content, unless the row
\* that it found had been deleted when its UPDATE reached it.
THEOREM PgAckedPutsAreStored == PgSpec => AckedPutStoredUnlessDeleted
<1>1. ASSUME PgInv, [PgNext]_pgvars, NEW p \in Procs, AckedPut(p)
      PROVE  \/ Stored(req[p])
             \/ req[p].row # NoRow /\ req[p].row \notin DOMAIN objects
  BY <1>1, PgAckedPutCommitted, CommittedPutIsStored DEF PgInv
<1>2. PgInv /\ [PgNext]_pgvars =>
        [\A p \in Procs : AckedPut(p) =>
            \/ Stored(req[p])
            \/ req[p].row # NoRow /\ req[p].row \notin DOMAIN objects]_vars
  BY <1>1
<1>. QED  BY <1>2, LocksKeepTransactionsApart, PTL DEF PgSpec, AckedPutStoredUnlessDeleted

=============================================================================
