----------------------------- MODULE QueryFilter ------------------------------
(***************************************************************************)
(* calendar-query (QueryCalendarObjects of both backends).  A PUT stores,  *)
(* with the content, its component type and the start and end of its first *)
(* component; a query narrows the rows down to candidates by these columns *)
(* before caldav.Filter decides by their content.  The columns must        *)
(* therefore let through every object that the query selects.              *)
(*                                                                         *)
(* A point in time is written as clock time and zone: the instant is the   *)
(* clock time minus the offset of the zone.                                *)
(***************************************************************************)
EXTENDS Integers, FiniteSets, Functions

CONSTANTS
    Paths,         \* object paths of one calendar
    Contents,      \* contents that clients PUT
    Queries,       \* component filters that clients send
    Null,          \* an absent property, an open bound, a NULL column
    AnyComp        \* a filter that names no component

Moments == [clock : Int, zone : Int]

\* the times of a component: DTSTART, DTEND, DUE, and how long it lasts, by its
\* DURATION or as a DATE; any component may have any of them
Times == [start : Moments \cup {Null}, end : Moments \cup {Null},
          due   : Moments \cup {Null}, lasts : Nat \cup {Null}]

ASSUME NullAssumption == Null \notin Int \cup Moments

\* the first component of an object, the further instances that its rules, dates
\* and other components make, and whether a VTIMEZONE comes with them
ASSUME ContentsAssumption ==
    \A o \in Contents : /\ o.first \in Times
                        /\ o.more \subseteq Times
                        /\ o.timezone \in BOOLEAN

\* is-not-defined goes with no range, and nor does a filter without a component
ASSUME QueriesAssumption ==
    \A q \in Queries : /\ {q.start, q.end} \subseteq Int \cup {Null}
                       /\ q.notDefined \in BOOLEAN
                       /\ q.notDefined \/ q.comp = AnyComp
                              => q.start = Null /\ q.end = Null

VARIABLES
    rows,          \* table calendar_objects: path -> content and columns
    driver         \* "sqlite" or "postgres": chosen once

Instant(m) == m.clock - m.zone

-----------------------------------------------------------------------------
(* What a query selects: RFC 4791, section 9.9.                            *)

From(q, t)  == q.start = Null \/ q.start <= t
After(q, t) == q.start = Null \/ q.start < t
Until(q, t) == q.end = Null \/ t < q.end
UpTo(q, t)  == q.end = Null \/ t <= q.end

\* an event, from its start to its end; a journal is a start alone
EventInRange(q, i) ==
    /\ i.start # Null
    /\ Until(q, Instant(i.start))
    /\ \/ i.end # Null /\ After(q, Instant(i.end))
       \/ i.end = Null /\ From(q, Instant(i.start))
       \/ i.end = Null /\ i.lasts # Null /\ After(q, Instant(i.start) + i.lasts)

\* a task, by whichever of its times it has; without any, COMPLETED and CREATED
\* decide, for which there is no column: it may be selected by every range
TaskInRange(q, i) ==
    \/ /\ i.start # Null /\ i.due # Null
       /\ After(q, Instant(i.due)) \/ From(q, Instant(i.start))
       /\ Until(q, Instant(i.start)) \/ UpTo(q, Instant(i.due))
    \/ /\ i.start # Null /\ i.due = Null /\ i.lasts # Null
       /\ From(q, Instant(i.start) + i.lasts)
       /\ Until(q, Instant(i.start)) \/ UpTo(q, Instant(i.start) + i.lasts)
    \/ /\ i.start # Null /\ i.due = Null /\ i.lasts = Null
       /\ From(q, Instant(i.start)) /\ Until(q, Instant(i.start))
    \/ /\ i.start = Null /\ i.due # Null
       /\ After(q, Instant(i.due)) /\ UpTo(q, Instant(i.due))
    \/ i.start = Null /\ i.due = Null

\* the range of another kind of component may select anything
InRange(q, comp, i) ==
    /\ comp \in {"VEVENT", "VJOURNAL"} => EventInRange(q, i)
    /\ comp = "VTODO" => TaskInRange(q, i)

Components(o) == {o.comp} \cup (IF o.timezone THEN {"VTIMEZONE"} ELSE {})

Ranged(q) == q.start # Null \/ q.end # Null

Selects(q, o) ==
    /\ q.comp = AnyComp \/ (q.comp \in Components(o) <=> ~q.notDefined)
    /\ Ranged(q) => \E i \in {o.first} \cup o.more : InRange(q, o.comp, i)

-----------------------------------------------------------------------------
(* The columns, and the SQL that reads them.                               *)

\* the first component that is no VTIMEZONE: DTSTART, and DTEND or else DUE
Columns(o) ==
    [comp  |-> o.comp,
     start |-> o.first.start,
     end   |-> IF o.first.end # Null THEN o.first.end ELSE o.first.due]

\* SQLite has no type for times: the driver stores them as text, clock before
\* zone, in the zone that the calendar gives them
ByText == driver = "sqlite"

\* x < y; as text, a zone other than UTC comes after UTC
Before(x, y) ==
    IF ByText THEN \/ x.clock < y.clock
                   \/ x.clock = y.clock /\ x.zone = 0 /\ y.zone # 0
    ELSE Instant(x) < Instant(y)

\* a bound of the query is in UTC; an open end is the zero time, before any other
BeforeEnd(x, q)  == q.end # Null /\ Before(x, [clock |-> q.end, zone |-> 0])
AfterStart(x, q) == Before([clock |-> q.start, zone |-> 0], x)

\* faulty: a NULL column fails the comparison
PassesWithTimes(q, row) ==
    /\ q.comp = AnyComp \/ q.notDefined \/ row.comp = q.comp
    /\ q.start # Null => /\ row.start # Null /\ BeforeEnd(row.start, q)
                         /\ row.end # Null /\ AfterStart(row.end, q)

\* the WHERE clause; a range without a start leaves the times out of it
Passes(q, row) ==
    /\ q.comp = AnyComp \/ q.notDefined \/ row.comp = q.comp
    /\ q.start # Null => /\ row.start = Null \/ BeforeEnd(row.start, q)
                         /\ row.end = Null \/ AfterStart(row.end, q)

\* what QueryCalendarObjects hands to caldav.Filter
Candidates(q) == {op \in DOMAIN rows : Passes(q, rows[op].columns)}

-----------------------------------------------------------------------------
\* UPDATE or INSERT: content and columns together
PutCalendarObject(op, o) ==
    /\ UNCHANGED driver
    /\ rows' = [x \in DOMAIN rows \cup {op} |->
               IF x = op THEN [data |-> o, columns |-> Columns(o)] ELSE rows[x]]

DeleteCalendarObject(op) ==
    /\ op \in DOMAIN rows
    /\ rows' = Restrict(rows, DOMAIN rows \ {op})
    /\ UNCHANGED driver

QueryInit == rows = [op \in {} |-> op] /\ driver \in {"sqlite", "postgres"}
QueryNext == \E op \in Paths :
                \/ \E o \in Contents : PutCalendarObject(op, o)
                \/ DeleteCalendarObject(op)
QuerySpec == QueryInit /\ [][QueryNext]_<<rows, driver>>

-----------------------------------------------------------------------------
(* What the columns may cost a query.                                      *)

\* a range with a start and no end
OpenRange(q) == q.start # Null /\ q.end = Null

\* comp_type is never that of the time zone
ForTimezone(q) == q.comp = "VTIMEZONE"

\* the columns know the first instance alone
Repeats(o) == o.more # {}

\* times that are not in UTC, where times are compared as text
Zoned(o) ==
    /\ ByText
    /\ \E m \in {Columns(o).start, Columns(o).end} \ {Null} : m.zone # 0

\* a task that is over no later than it starts: it counts at both bounds of a
\* range, which the SQL excludes
Momentary(o) ==
    /\ o.comp = "VTODO"
    /\ o.first.start # Null
    /\ IF o.first.due # Null THEN Instant(o.first.due) <= Instant(o.first.start)
       ELSE o.first.lasts = 0

\* neither event, task nor journal, or with the end of another kind
Misfit(o) == \/ o.comp \notin {"VEVENT", "VTODO", "VJOURNAL"}
             \/ o.comp # "VEVENT" /\ o.first.end # Null
             \/ o.comp # "VTODO" /\ o.first.due # Null

\* An object that a query selects, by the RFC, is among the candidates of the
\* query; the SQL leaves none out but in the six cases above.
LeavesOutOnlyKnownCases ==
    \A q \in Queries, op \in DOMAIN rows :
        LET o == rows[op].data IN
        Selects(q, o) /\ op \notin Candidates(q)
            => \/ OpenRange(q) \/ ForTimezone(q)
               \/ Repeats(o) \/ Zoned(o) \/ Momentary(o) \/ Misfit(o)

=============================================================================
