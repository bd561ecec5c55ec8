# A formal model of caldav-go

TLA+ modules, TLC configurations and TLAPS proofs for the CalDAV server in
`src/`. Source references are to `src/`; `sqlite.go` is
`storage/sqlite/sqlite.go`.

| file | what it is |
| --- | --- |
| `CalendarStore.tla` | the object store: calendars, objects, change log, concurrent requests |
| `Collections.tla`, `StoreRefinement.tla` | the abstract store, and the mapping under which `CalendarStore` implements it |
| `MCCalendarStore.tla`, `store*.cfg` | instances of both for TLC |
| `CalendarStoreProofs.tla`, `StoreRefinementProofs.tla` | theorems about the store, and that it implements the abstract one |
| `SyncCollection.tla`, `MCSyncCollection.tla`, `sync*.cfg` | sync-collection reports and the clients that use them, on top of the store |
| `SyncCollectionProofs.tla` | theorems about the composition |
| `PostgresStore.tla`, `MCPostgresStore.tla`, `postgres.cfg` | the same store on PostgreSQL, statement by statement, with locks; implements `CalendarStore` |
| `PostgresStoreProofs.tla` | that it does, and what its locks guarantee |
| `Multistatus.tla` | the body of a PROPFIND answer and the edits of it |
| `Propfind.tla`, `MCPropfind.tla`, `propfind*.cfg` | PROPFIND, PROPPATCH and the clients that poll the CTag, on top of the store |
| `PropfindProofs.tla` | theorems about PROPFIND, its edits and its clients |
| `ConfigLayers.tla`, `KeyCache.tla` | the configuration's sources; bearer tokens and the shared key set |
| `Server.tla`, `MCServer.tla`, `server.cfg` | the process and the handler chain, from both |
| `ServerProofs.tla` | theorems about them |
| `QueryFilter.tla`, `MCQueryFilter.tla`, `query.cfg` | calendar-query: SQL prefilter against RFC 4791 |
| `QueryFilterProofs.tla` | theorems about it |
| `PROJECT.json` | components, runs, mutants, source map, findings, hazards, theorems |

To check: `tlc -config store.cfg MCCalendarStore.tla`, and
`tlapm CalendarStoreProofs.tla`.

## 1. The system

An HTTP request passes the logging and the authentication middleware
(`server/middleware.go`), then the interceptor of `server/extended.go`, which
serves PROPPATCH, DELETE of a calendar, sync-collection REPORTs and the extra
properties of PROPFIND, and hands everything else to go-webdav's CalDAV
handler. Both call one storage backend, SQLite or PostgreSQL, through
`database/sql`. Nothing but the database and the OAuth key cache is shared
between requests, so that what makes the program hard is what concurrent
requests do to each other *between* SQL statements.

| component | state | operations | interacts with |
| --- | --- | --- | --- |
| object store, `storage/sqlite` | tables `calendars` (owner, path, sync_token), `calendar_objects`, `sync_changes`; a pool of connections | CreateCalendar, DeleteCalendar, PutCalendarObject, DeleteCalendarObject; queries | called by the handlers, many at a time |
| object store, `storage/postgres` | the same tables, row locks | the same | the same |
| collection synchronisation, `server/sync.go` and `SyncCollection` | none; tokens are counters in `calendars`, answers come from `sync_changes` | first and incremental synchronisation | store; clients keep token and contents |
| PROPFIND with injection, `server/extended.go` | none; buffers the inner handler's answer | list, read token (CTag) and color, edit the XML text | store, go-webdav |
| calendar metadata | name, description, color columns | PROPPATCH, GetCalendarExtra | store |
| calendar query | none | SQL prefilter, then `caldav.Filter` | store, go-webdav |
| OAuth 2.0, `auth/oauth2.go` | cached JWKS behind an RWMutex | Authenticate, fetch, replace | issuer's HTTP endpoint |
| basic authentication, `auth/basic.go` | map of bcrypt records, filled at start | AddUser, Authenticate | configuration |
| handler chain | none | user into the request context | authentication, backends |
| delegation | table `delegations` | add, remove, list | principal PROPFIND only |
| configuration, `config/config.go` | none | defaults < file < environment < flags | main |
| life cycle, `cmd/caldav-server/main.go` | listener, backend | start, signal, shutdown within 10 s, close | everything |
| TLS, `tls/tls.go` | none | load certificates | main |

What is hard in each, and what makes it correct:

* **Object store.** A PUT runs two SELECTs before its transaction, a DELETE
  one; deletes and creations of the object or of the whole calendar may commit
  in between. It is correct when the log has one entry per token value and
  agrees with the table, when the token grows with every visible change, when
  nobody but the owner changes a calendar, when conditional requests mean what
  they say and when success means stored. `PRAGMA foreign_keys` is per
  connection, which decides whether deletes cascade.
* **Synchronisation.** Token and rows are read in two statements; answers get
  lost; calendars are deleted and created again. It is correct when a client
  never loses a change for good and catches up when writes stop.
* **PROPFIND.** The listing is older than the token injected into it; the
  injection is by text search. Correct when a client that polls the CTag
  misses no change, and when properties end up in the propstat with status 200.
* **PostgreSQL.** Transactions of several statements interleave under READ
  COMMITTED; row locks are taken in different orders. Correct when it
  implements the same store, and when deadlocks end.
* **OAuth 2.0.** Concurrent fetches replace the cached key set in any order.
  Correct when a key the issuer publishes is found, and when a withdrawn one
  is not accepted for ever.
* **Query.** The columns must let through every object that a query selects.
* **Configuration.** The documented precedence, for every way to say nothing.
* **Life cycle.** Correct when requests are cut short only for a cause that
  main.go accepts, and a signal ends the process.
* **Metadata, delegation.** See the hazards in `PROJECT.json`.

## 2. Plan

| | modules | composes | state |
| --- | --- | --- | --- |
| 1 | `CalendarStore` | | modelled, proved |
| 2 | `SyncCollection` | extends 1 | modelled, safety proved |
| 3 | `Collections`, `StoreRefinement` | 1 implements it | modelled, proved |
| 4 | `PostgresStore` | extends 1 and implements it | modelled, safety and refinement proved |
| 5 | `Multistatus`, `Propfind` | extends 1 | modelled, safety proved |
| 6 | `ConfigLayers`, `KeyCache`, `Server` | the last extends the other two | modelled, safety proved |
| 7 | `QueryFilter` | | modelled, proved |

Every invariant, action property and refinement that a passing run checks is a
theorem as well; the liveness properties (section 9) are not, and cannot be with
these provers. Still worth proving: the store's theorems for the systems that
contain it (`SyncCollection`, `Propfind`; their invariants include `IndInv`),
and, from `ImplementsStore` and `ImplementsCollections` together, that
PostgreSQL implements the abstract store. No module has a RECURSIVE operator.

## 3. `CalendarStore`

State. `calendars` and `objects` are the tables as functions from row ids;
`changes` is the log as a set of records; `nextCal`, `nextRow` are the
AUTOINCREMENT counters, which never give out an id twice; `req[p]` is what
handler `p` holds in local variables between statements (the ids and the user
it has looked up) and, when it is idle, the status of its last answer.
`issued` counts requests, for the bound `MaxRequests`.

The content of an object is a member of `Data` and is its entity tag as well
(the code hashes the encoded content). UIDs are a function of the content.

| action | code |
| --- | --- |
| `CreateCalendar` | `sqlite.go` 81-100: one INSERT, refused by UNIQUE(path), by any user at any path |
| `DeleteCalendar` | 204-225: one DELETE on some pooled connection `conn`; `Cascade` deletes objects and log only if `conn \in FKConns` |
| `PutFindCalendar` | 276-331: calendar and owner looked up |
| `PutFindExisting` | 333-372: the row with this path (of any calendar), preconditions against its entity tag |
| `PutCommit` | 374-433: the transaction; `Commits` says when none of its statements fails, `WriteRow` is the UPDATE by id or the INSERT, `RecordChange` the bump, the read-back and the log entry |
| `DeleteFindCalendar`, `DeleteCommit` | 583-597, 599-644 |
| `Fail` | a failed statement, SQLITE_BUSY, a cancelled context or a restart between steps: rolled back |

An autocommit statement is one step. So is a transaction: its first statement
is a write, which in SQLite takes the database's only write lock until COMMIT.
A committed request may be answered with an error (`Committed`: the
acknowledgement is lost). A request that fails before its first statement is a
`Fail` from idle. A restart ends each request
in flight; that they end one at a time allows more behaviours, not fewer.

Paths: `CalOf` is `calendarPathFromObjectPath`. Users are authenticated
(non-empty IDs). Validation of the iCalendar data and its decoding are left
out, with their error answers, which change nothing.

### Runs

| run | instance | shows |
| --- | --- | --- |
| `store` (pass) | two users, two handlers, one collection path with two object paths, two contents with different UIDs, PUTs plain and create-only, all connections with foreign keys, 6 requests | the nine properties below |
| `store_orphans` (violation) | one user, one object path, a second connection without the pragma | `NoOrphans` fails: finding 1 |
| `store_lost_put` (violation) | one user, one object path | `AckedPutIsStored` fails: finding 2 |
| `store_if_match` (violation) | the same, with If-Match and If-None-Match of a version | `IfMatchReplacesNamedVersion` fails: finding 3 |

Six requests are enough for MKCALENDAR, a PUT in flight, DELETE of the
calendar, MKCALENDAR by the other user and two more PUTs or DELETEs, the longest
story that the properties distinguish. Handlers are interchangeable
(`SYMMETRY`, in runs without liveness). Deadlock is not checked: with all
requests used up the model stops.

`LogMatchesToken`: one log entry per token value. `LatestChangeIsTrue`: the
latest entry of a path agrees with the table. `NoOrphans`: no object without
calendar. `ContentsChangeBumpsToken`: a visible change makes the token grow.
`OnlyOwnerChangesContents`: even across deletion and re-creation by another
user. `IfNoneMatchNeverReplaces`: of racing create-only PUTs one succeeds.
`AckedPutStoredUnlessDeleted`: success means stored, but for the window of
finding 2. Operators marked *faulty* are mistakes the code does not make; each
property is broken by one of them.

### The abstract store

`Collections` says what `storage/backend.go` promises the handlers, and no more:
collections with an owner, items, a version and a history; no rows, statements
or requests. `StoreRefinement` maps each live calendar to the collection of its
contents, its token and its part of the log, and `ImplementsCollections` (in
run `store`) is `Collections!ColSpec` under that map: every step of
`CalendarStore` is one abstract operation or invisible. It is what the single
properties do not say together: a step touches one collection and one path, the
identity of a deleted collection and its history never come back, and both
UNIQUE constraints hold of what users see. The operation `Touch`, a new version
in which nothing changed, is there because the code needs it: finding 2.

## 4. `SyncCollection`

Adds, for each client, the REPORT the server is answering (`sync`) and what the
client believes (`client`: its token and its view; `cal`, a ghost, is the
calendar row they come from). `SyncBegin` is the first statement with the check
of the token (`sqlite.go` 669-720), `SyncRows` the second with the answer
(690-774), `SyncReply` the client that gets and applies it, `SyncFail` an error
or a lost answer, `Forget` a user who removes and re-adds the account on a
device whose calendar has been deleted. A refused token changes nothing, so it
is no step.

The answer carries entity tags, and the client then fetches what has changed;
the model takes the entity tag for the content. A fetch that finds a newer
version than the answer said is harmless: the newer change is still ahead of
the client's token.

`NothingMissed`: a client with a token of the calendar that is there would,
asking now, see exactly what it shows; an invariant, so that it holds through
all races and losses. `Converges`: once writes stop (the request bound), the
view is right for ever. It assumes that a client keeps polling (weak fairness
of `SyncBegin`: the client's timer) and that of infinitely many REPORTs not all
fail (strong fairness of `SyncRows` and `SyncReply`: `SyncFail` may interrupt
each of them any finite number of times in a row). No fairness is assumed of
writes; handlers may stop half way. It leaves out clients whose calendar was
deleted: those are finding 4.

| run | instance | shows |
| --- | --- | --- |
| `sync` (pass) | one device, two object paths, two handlers, two connections of which one has the pragma (so with and without cascades, orphans included), 4 requests | `SyncTypeOK`, both log invariants, `NothingMissed`, `Converges` |
| `sync_recreated` (violation) | one object path, 5 requests | `AcceptedTokenMissesNothing` fails: finding 4 |

Four requests allow create, two overlapping writes and a delete around the
statements of an answer; the liveness graph is the reason for not more.

## 5. `PostgresStore`

The handlers of `storage/postgres/postgres.go` have the statements of the SQLite
ones. What differs is underneath: the statements of a transaction are steps
that each see what has committed when they run (READ COMMITTED), and only locks
keep transactions apart. The tables hold what has committed; `tx[p]` is the
open transaction of a goroutine: the statement it is at, the rows it has
locked, the index entries it has added, its lock on a row of `calendars`, and
what it wrote and read there. `InsertOrder`, `UpdateOrder` and `DeleteOrder`
say which statement comes after which; `EnforcedAssumption` is that PostgreSQL
enforces foreign keys on every connection.

| action | code (`postgres.go`) |
| --- | --- |
| `PgCreateCalendar`, `PgPutFindCalendar`, `PgPutFindExisting`, `PgDeleteFindCalendar` | 77-96, 269-324, 326-363, 559-572: autocommit statements, as in `CalendarStore` |
| `UpdateRow`, `InsertRow`, `WriteUid`, `CheckForeignKey` | 374-388, with the UNIQUE and REFERENCES checks of `migrations.go` as steps, since each may wait for another transaction |
| `Bump`, `ReadBack`, `CommitPut` | 390-395, 397-402, 404-422 |
| `SelectRows`, `DeleteRows`, `CommitDelete` | 574-615: rows are chosen, then waited for, then checked again |
| `SelectCalendar`, `LockCalendar`, `CascadeTo`, `CommitDrop` | 203-222: one DELETE that locks the calendar and then, cascading, its objects one by one |
| `Abort`, `FailAtOnce` | errors, `defer tx.Rollback()` (371) |
| `BreakDeadlock` | PostgreSQL's detector: some member of a cycle fails |

Locks, index entries and the detector are PostgreSQL's and marked external. The
table of row-lock conflicts is that of its manual: a foreign-key check takes
KEY SHARE, an UPDATE that changes no key column NO KEY UPDATE, a DELETE UPDATE.
Ids are assigned at commit, so that the gaps left by SERIALs of rolled back
transactions are not visible.

`ImplementsStore` is `CalendarStore!Spec` under the map that takes the tables as
they are and an open transaction as a request that has not committed. A
DELETE of a calendar in progress is a request that has not begun: `IssuedShown`
counts it when it ends. The 404s of DELETEs that had to wait are those of
`CalendarStore`: to answer 404 for a row that another transaction has merely
locked breaks the refinement (`FoundUnlocked`). One kind is different. When the
rows that the DELETE waited for are gone and the path, or the calendar, has
been created again since, the 404 is true of an earlier moment of the same
request and not of its last, where `CalendarStore` answers; only these are shown
as failures (`stale`, by `RowCreatedSince` and `CalendarCreatedSince`).

`EveryRequestEnds` is the liveness: requests lock rows in opposite orders and
set no timeout. Fairness: handlers and database go on (`Proceed`), and the
detector runs (`BreakDeadlock`). `DeadlocksNeedDropOrExchange` says where
deadlocks come from: in the circle itself there is a DELETE of the calendar, or
there are two writes that wait for UIDs, as when two updates exchange them. The
order of the statements is the reason, and bumping the token first in a DELETE
breaks it.

Run `postgres`: one user, one collection path, two object paths, two contents,
two goroutines, 5 requests: two transactions on each pair of objects, with the
calendar dropped under them. A deadlock needs two; where longer circles come
from is a theorem (section 9), that they end is checked for two only.

## 6. `Propfind`

`handlePropFindCalendar` runs the inner handler first and buffers its answer,
then reads token and color of every calendar in it with two more statements
each, and edits the text. `find[d]` is the PROPFIND that the server executes
for client `d`: what was asked, the calendars still to do, the inner body and
the edited one. `Multistatus` has the body as a sequence of responses: the
href, the properties that were found, the names that were missing, and which of
the two propstats go-webdav writes first (that of the first name asked for).
The edits are `Remove404PropstatBlock` (375-406), which drops a 404 propstat
with any of the offered names and all that stands in it, `Cleaned` (288-292),
and `InjectIntoProps` (408-438), which like the text search takes the first
`</prop>` after the href: that of a 404, or of a later response when this one
has none. `PollerAssumption` is what clients are and ask for (a listing asks for
getetag); `ValuesAssumption`, that a missing name's empty element is told from a value.

An href is not the path: go-webdav writes it escaped for URLs and XML.
`HrefText` says how, for calendars; `TextAssumption`, that escaping can be undone
and keeps calendars, objects and the home set apart. Clients undo it, and so
does the code when it reads a request, but `extractCalendarPaths` (325-367)
takes the text of the href as it stands, and `ReadToken` and `ReadColor` look up
that text: for an escaped path the row of no calendar, or of another calendar.
Injection works all the same, since it searches the same text. The hrefs of
objects are only compared, by the client, and stand for themselves. Every
calendar is taken to be extracted: `/{user}/calendars/{name}/` has the word
calendar in it, which is what `extractCalendarPaths` looks for.

| action | code |
| --- | --- |
| `FindCalendar`, `FindCalendars` | `sqlite.go` 133-156, 102-131, then `extended.go` 278-296 and 325-367 |
| `ListObjects` | `sqlite.go` 475-517, for Depth 1 |
| `ReadToken`, `ReadColor` | `extended.go` 298-307, 309-318, once per calendar |
| `NoneToInject`, `FindFail` | an empty home set; errors and lost answers |
| `PropPatch` | `extended.go` 170-238 and `sqlite.go` 158-201; color stands for the three columns |
| `Poll`, `List`, `GetPoll`, `GetListing` | the client (external): it polls the CTag, on the calendar or on its home set, and lists when it differs |

`CtagMissesNothing`: a client that finds the CTag it keeps shows what the
calendar shows; an invariant through all interleavings, because the client
keeps the CTag of the poll *before* its listing. `PollerConverges`: once writes
stop, objects and color are right for ever, or the calendar is forgotten. A
client whose path is escaped finds no CTag and lists after every poll: its
objects come right, its color does not. Left out are clients whose calendar was
deleted and re-created (`Outlived`, as in finding 4), and those that are given
the CTag of another calendar (`Mistaken`). `InjectedWhereItBelongs`: token, CTag and reports appear once,
with status 200, in the response of the calendar and no other, if the request
names resourcetype first; `EditsKeepWhatIsFound`: the edits lose nothing that
was found. Without that order of names the injection may end up in the 404
propstat, or in the next response. Fairness: a client polls for ever (WF), and
of infinitely many answers not each fails at the same step for the same number
of calendars to do (SF of the server's and the client's steps).

| run | instance | shows |
| --- | --- | --- |
| `propfind` (pass) | one user, handler and client, two calendar paths of which the client follows the plain one and the other is escaped in hrefs, one object path, two contents, one color, polls on both resources, 4 requests | the five properties |
| `propfind_stale` (violation) | one calendar path, two object paths; the client asks for the CTag with its listing | `ListingMatchesCtag` fails: finding 5 |
| `propfind_no_ctag` (violation) | the client follows the escaped path, and the other calendar may be named as that is written; 3 requests | `PropertiesArrive` fails: finding 6 |

Four requests allow MKCALENDAR, two writes around the statements of an answer
and a DELETE; the writes of one handler come between any two statements of the
PROPFIND, which is where the races are. Of a home set with two calendars one has
no token to inject: that its error only leaves the token out is what lets the
other converge. On the instance of `propfind_no_ctag` TLC finds `PollerConverges`
to hold as well (put it in place of `PropertiesArrive`): that covers the escaped
client and `Mistaken`, which `propfind` does not reach.

## 7. `Server`

`phase` is where `run()` in `main.go` is: loading, opening, wiring, starting
(the listener's goroutine runs, signals are not caught yet), serving, draining
(in Shutdown), leaving (the backend is closed), exited. Beside it run the
listener's goroutine (`Listen`, `AcceptFails`; its error waits in `errCh`), the
requests, and signals.

| action | code (`main.go`) |
| --- | --- |
| `LoadConfig` | 31-38, with `ConfigLayers!Loaded` for `config.Load` |
| `OpenBackend`, `BuildAuth` | 45-50 and 186-205, 52-56 and 141-170 |
| `Listen` | 91-110; `NoCertificate` is `tls.go` 30-49 |
| `Notify`, `Signal`, `ServeError` | 112-123 |
| `Drained`, `DeadlinePasses`, `Leave` | 125-139; closeFn is part of the step in which Shutdown returns |
| `Arrive`, `AuthStep`, `Perform`, `Reply` | a request: `middleware.go` 27-44, the backend's check for the empty user and its statement, the answer |

`KeyCache` is `auth/oauth2.go`: `Present` (94-137), `LookUp` (291-301, under the
read lock), `Answer`, `AnswerError`, `FetchFails` (328-345), `Store` (303-317,
under the write lock; the request goes on with the set it fetched),
`CheckClaims` (347-416). A key is a number, the n-th that the issuer made for a
key id; a signature is the key that made it; the nil cache is the set without
keys, which behaves the same. Issuer and clock are external. Basic
authentication is one step: its table is filled before the listener starts.

`ActsOnlyForTheAuthenticated`: what the backend does, it does for the user whom
valid credentials name. `SteadyKeyIsFound`: a request whose key was published
throughout is not refused for what other requests fetched and stored meanwhile.
`KeptClientGetsIn`: a good token gets in again and again. Both except a key id
that the issuer has used before, whose old key the cache never gives up
(`NotShadowed`, `oauth2.go:297`), and `SteadyKeyIsFound` excepts the issuer's
error pages. `CutShortOnlyForCause`: a request is cut, or finds the backend
closed, only after the deadline of Shutdown, a broken listener or a signal
before `Notify`. `ShutdownEnds`: a received signal ends the process, however
long requests take. `LastSourceDecides`: the value of each setting is that of
the last source that says something about it.

Fairness: the main goroutine and Shutdown's timer run (WF of `Main`); handlers
run while the server is serving, and *not* while it drains, since nothing bounds
a request; clients come back with a lasting token, and the issuer answers at
times (SF).

A source gives words to settings. What a word means for a switch depends on the
reader: `ParseBool` for flags and variables, `YamlBool` for the file, which
accept different words. A flag or a file with a word that its reader refuses, a
flag that is not defined and a file that cannot be read end the process
(`Loads`); a variable with such a word is passed over. `SourcesAssumption` and
`FilesAssumption` leave out variables and file entries outside the settings,
which are not read; `WordsAssumption` says that the empty string is no boolean,
`SwitchesAssumption` that switches are settings. `TokenAssumption` and `ClockAssumption` type
tokens and bounds.

Run `server`: nine sets of sources, one of each kind of file, variable and flag;
five of them cannot start (a word that YAML does not take, a file that is not
there, a flag with a bad word, an unknown flag, an unknown provider). Two
requests at a time, two key ids with two keys in all, a clock with two values.
Five tokens: one that lasts, one that expires, and three with one fault each: no
user, signed by none of the issuer's keys, meant for another server. So each
check alone is needed: without the signature (`VerifyNothing`), without issuer
and audience (`InvalidIfExpired`), or with a late expiry (`ExpiredLate`)
`ActsOnlyForTheAuthenticated` fails. Two requests are enough for one to store an
older set over a newer one. Issuer and clock go on as long as there can be
requests.

## 8. `QueryFilter`

A PUT derives component type, start and end of an object (`sqlite.go` 296-322)
and writes them with the content (383-398); a query compares them in SQL
(530-545, `postgres.go` 504-527) and then hands the rows to `caldav.Filter`. A
time is a clock and a zone. PostgreSQL compares instants. SQLite has no type for
times: the driver binds a time as text, in the zone it came with, so that clocks
are compared first (`Before`).

What a query selects is RFC 4791, section 9.9, since go-webdav's filter is not in
the repository: `EventInRange` for events and journals, `TaskInRange` for tasks
with each choice of DTSTART, DUE and DURATION, once for each instance of the
object. A component may have any of DTSTART, DTEND, DUE and a duration
(`Times`), because a PUT refuses none; it may end before it starts. A task
without DTSTART and DUE is judged by COMPLETED and CREATED, for which there is
no column: it may be selected by any range, and so may a component of another
kind. Floating times and dates count as UTC, as the code decodes them.

`LeavesOutOnlyKnownCases`: an object that a query selects is left out by the SQL
only in these cases, limits of the code:

| case | what happens |
| --- | --- |
| `OpenRange` | a range with a start and no end is compared with the zero time: nothing with a DTSTART is found |
| `ForTimezone` | comp_type is never VTIMEZONE, although objects contain one |
| `Repeats` | only the first instance has columns |
| `Zoned` | times that are not in UTC are compared by their clock, on SQLite |
| `Momentary` | a task that is over no later than it starts counts at both bounds of a range, which `<` and `>` exclude |
| `Misfit` | a component of another kind, or with an end of another kind (an event with DUE, a task with DTEND): the column has what the RFC does not look at |

Each is needed: TLC refutes the property without it. `NullAssumption`,
`ContentsAssumption` and `QueriesAssumption` give the types of times, contents
and filters; they exclude no combination of times, and of queries only a range
that comes with is-not-defined or without a component.

Run `query`: events, tasks, journals and components of another kind with every
choice of these times on a clock of three hours, in UTC and an hour east of it,
with and without a later instance, with and without a VTIMEZONE; every range,
one-sided and none, for each kind, and is-not-defined; both drivers. Three
points put a time before, at and after a bound, and between two. There is one
object at a time: no object bears on whether another is a candidate. A duration
does not go with DTEND or DUE in this instance; the theorem has no such limit.

## 9. Proofs

All theorems hold for every value of the constants that satisfies the named
assumptions: `PathsAssumption`, `UidAssumption`, `HeaderAssumption`,
`PoolAssumption`, `BoundAssumption` of the store; `ClientAssumption`;
`EnforcedAssumption`; `PollerAssumption`, `TextAssumption`, `ValuesAssumption`;
`ClockAssumption`, `TokenAssumption`, `SourcesAssumption`, `FilesAssumption`,
`WordsAssumption`, `SwitchesAssumption`; `NullAssumption`, `ContentsAssumption`,
`QueriesAssumption`. So for any number
of users, paths, connections, handlers, clients, requests, keys, sources and
times. The module of a run evaluates the assumptions of what it extends.

| theorem | says | assumes besides |
| --- | --- | --- |
| `TypeCorrect`, `Inductive` | `[]TypeOK`, `[]IndInv` | |
| `LogIsExact` | `[]LogMatchesToken` | |
| `LatestChangesAreTrue` | `[]LatestChangeIsTrue` | |
| `DeleteLeavesNoOrphans` | `[]NoOrphans` | `FKConns = Conns` |
| `TokenFollowsContents` | `ContentsChangeBumpsToken` | |
| `OwnersWrite` | `OnlyOwnerChangesContents` | |
| `CreateOnlyNeverReplaces` | `IfNoneMatchNeverReplaces` | |
| `AckedPutsAreStored` | `AckedPutStoredUnlessDeleted` | `FKConns = Conns` |
| `StoreImplementsCollections` | `ImplementsCollections` | |
| `SyncInductive`, `SyncTypeCorrect` | `[]SyncIndInv`, `[]SyncTypeOK` | |
| `ClientsMissNothing` | `[]NothingMissed` | |
| `LocksKeepTransactionsApart`, `PgTypeCorrect` | `[]PgInv`, `[]PgTypeOK` | |
| `TablesStayRight` | the three invariants of the tables, on PostgreSQL | |
| `OnlyDropOrExchangeDeadlocks` | `[]DeadlocksNeedDropOrExchange` | |
| `TransactionsAreOneStep` | `ImplementsStore` | |
| `PgTokenFollowsContents`, `PgOwnersWrite`, `PgCreateOnlyNeverReplaces`, `PgAckedPutsAreStored` | the action properties of the store, on PostgreSQL | |
| `PropfindInductive`, `PropfindTypeCorrect` | `[]PfInv`, `[]PropfindTypeOK` | |
| `PollersMissNothing` | `[]CtagMissesNothing` | |
| `InjectedInPlace` | `[]InjectedWhereItBelongs` | |
| `EditsLoseNothing` | `[]EditsKeepWhatIsFound` | |
| `ServerInvariant`, `ServerStaysTyped` | `[]ServerInv`, `[]ServerTypeOK` | |
| `OnlyTheAuthenticatedAct` | `[]ActsOnlyForTheAuthenticated` | |
| `OnlyACauseCutsShort` | `[]CutShortOnlyForCause` | |
| `SteadyKeyIsAlwaysFound` | `SteadyKeyIsFound` | |
| `LastSourceAlwaysDecides` | `LastSourceDecides` | |
| `QueriesLeaveOutOnlyKnownCases` | `[]LeavesOutOnlyKnownCases` | |

### The store, and its clients

The properties are not inductive alone. `IndInv` (also checked with TLC) adds:

* `UniquePaths` and `RowsUnderTheirCalendar`: the UNIQUE indexes, and that a row
  of a live calendar lies under its path;
* `ChangesOfUsedIds`, and ids below their counters in `TypeOK`: a new calendar
  starts with an empty log even when old entries were not cascaded away;
* `RequestsStillHold`: what a request has looked up is either gone or
  unchanged, because ids are not reused and owner and path never change;
* `EveryPathHasLatest`: the entries of a path have a latest one. It follows
  from finiteness, by induction, so it is carried as an invariant instead.

`CalendarStoreProofs` first shows what a step can do to the tables (nothing,
create, drop, or one committed write, `StepsOfTables`), then takes each part of
`IndInv` through those four. The action properties follow from `IndInv` and
`ContentsChangeByCommit`, `CommitChangesOnePath`.

`SyncIndInv` adds to `IndInv` that a client's view, and the view that the
answer on its way will make, is `Covered`: it differs from the calendar only at
paths with a log entry after the token. `CatchesUp` is the heart: a covered
view becomes exact by applying one incremental answer. `CoveredKept` says that
writes keep views covered, because each records the path it changes under a
token larger than any given out.

`StoreRefinementProofs` maps each effect that `StepsOfTables` names to one
operation of `Collections` (`CreateImplements`, `DropImplements`,
`InsertImplements`, `UpdateImplements`, `DeleteImplements`); a step that leaves
the tables alone is a stutter. `CommitIsNextVersion` holds what the three writes
share. `UniquePaths` makes the row that a request writes the only one at its
path, and `RequestsStillHold` keeps that row under the calendar that was looked
up, or makes the write invisible (`Touch`).

### PostgreSQL

`PgInv` is `IndInv` and `NoOrphans` of the committed tables, and for each open
transaction what it holds and may rely on until it ends (`TransactionOK`):

* `Progress`: which locks each statement has behind it;
* `PutHolds`, `DeleteHolds`: the index entries and the row of a PUT, the rows of
  a DELETE, which are still those that its statements found;
* `CalendarHeld`: the lock on the row of `calendars` keeps that row, and the
  token that was written is one more than the committed one;
* no committed row outside the transaction has an index entry that it holds;
* and, between any two, `Apart`: no row or index entry is held twice, and no
  conflicting locks on a calendar.

A statement that takes a lock waits until nobody else has it, which keeps
`Apart`; a commit changes only what its transaction holds, so that by `Apart`
what the others hold is left alone (`LeftAlone`).

A commit is therefore one step of `CalendarStore` (`CommitPutIsPutCommit`,
`CommitDeleteIsDeleteCommit`, `CommitDropIsDrop`), and `PgInv` follows from what
`CalendarStoreProofs` says of that step. The refinement takes each statement to
a stutter or to the statement of the same name; `RequestsCounted` accounts for
the DELETEs of calendars under way. `ImplementsStore` is safety (the
specification of `CalendarStore` has no fairness).

`OnlyDropOrExchangeDeadlocks` holds for any number of goroutines and speaks of
the members of the circle. `Awaits` is the transitive closure of who waits for
whom, and `Circle(p)` are those who wait for p and for whom p waits, so that each
member waits for another member (`NextInCircle`). Everybody waits for a
transaction that has written a row (`WhomAStatementWaitsFor`), and such a one, in
a circle without DELETE of a calendar, waits for a UID (`HolderInCircle`): the
next of it in the circle is another.

### PROPFIND

`PfInv` is `IndInv`, the types, and for each client

* `FindInv` of the answer under way: `Stage` is the order of the statements;
  `TodoUntouched`, each calendar has one response, and those still to do are as
  the cleaning left them; `TokenRead` and `TagsInjected`, which calendar the
  token to be injected, or injected, is from; `EditsRight` and `InjectedSoFar`,
  the two properties for what has been done; `ListedRight`, a listing shows the
  calendar unless its token has grown since the poll before it;
* `KnownInv` of what it keeps: a CTag was the token of its calendar row, and as
  long as it still is, the view is right.

`TodoFollows` is needed because of the text search: when a response has no
propstat left, the injection lands in a later response, and in an answer to a
poll only calendars whose turn is yet to come follow. A listing needs no such
fact, since it injects into one calendar only.

Steps of the store move tokens up only and never use a calendar id again, and
what a calendar shows changes only when its token grows (`StoreStepEvolves`,
from the store's theorems); these three keep every client's `FindInv` and
`KnownInv`. A client's own step disturbs no other client (`ClientStep`).

### Server and query

`ServerInv` adds to the types that the listener opens after the backend and
closes before it (`ProcessInv`), that no set of keys holds one the issuer has
yet to make (`FromIssuer`), and what each request has made sure of so far
(`RequestOK`): a token past `Verify` was signed by a key of the issuer, a
steady request that has fetched holds its key or an empty set, and a request
that has failed has a cause. `SteadyKeyIsFound` follows for one step from
`ServerInv` (`OwnRefusal`), `LastSourceDecides` from what the layers say
(`SourcesSay`, `LoadedFollowsSources`).

`LeavesOutOnlyKnownCases` follows from the columns' being those of the stored
content (`ColumnsOfContents`) and one lemma for events and one for tasks
(`EventPasses`, `TaskPasses`, a case for each choice of times), since comparing
texts in UTC is comparing instants (`BoundsCompareInstants`).

### Only model-checked

The liveness properties (`Converges`, `PollerConverges`, `EveryRequestEnds`,
`KeptClientGetsIn`, `ShutdownEnds`): fairness rests on ENABLED, which the
provers cannot reach.

## 10. Findings

1. `store_orphans`: foreign keys are enabled on one pooled connection only
   (`sqlite.go:40`); a calendar deleted on another leaves its objects.
2. `store_lost_put`: a PUT whose row is deleted between lookup and UPDATE is
   answered with success, and stored nowhere (`sqlite.go:386`).
3. `store_if_match`: If-Match is checked outside the transaction; both of two
   racing requests succeed (`sqlite.go:364`).
4. `sync_recreated`: a token names no calendar; one of a deleted calendar is
   accepted for its successor, and changes are missed (`sqlite.go:718`).

5. `propfind_stale`: the CTag in a PROPFIND answer may be newer than the listing
   in it (`extended.go:301`).
6. `propfind_no_ctag`: the path of a calendar is taken from the escaped href; a
   calendar whose path needs escaping never gets CTag or color
   (`extended.go:356`).

Limits of the code that passing properties name as their exceptions: the six
cases of section 8, the key id that is used again in section 7, and the
properties that are injected into a 404 propstat when it comes first
(`extended.go:424`, against the comment at 408), in section 6.

## 11. Not modelled

Delegation: rows that no access check consults and no handler adds, listed in
the principal's PROPFIND, which is not modelled either; there is no behaviour
beyond single statements. TLS, but for the configurations without certificate:
loading has no state. Name and description of calendars, columns beside the
color. XML and iCalendar encoding, validation of iCalendar data, logging and
signature arithmetic are outside the models on purpose. GET and multiget are
single statements. Migration of an existing database is one idempotent script.
