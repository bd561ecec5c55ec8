-------------------------- MODULE QueryFilterProofs --------------------------
(* A theorem about QueryFilter, for any contents and queries, clocks and    *)
(* zones, on both drivers.                                                  *)
EXTENDS QueryFilter, TLAPS

queryVars == <<rows, driver>>

-----------------------------------------------------------------------------
(* What is stored: every row holds a content and the columns of that        *)
(* content.                                                                  *)

ColumnsOfContents ==
    \A op \in DOMAIN rows : /\ rows[op].data \in Contents
                            /\ rows[op].columns = Columns(rows[op].data)

LEMMA QueryInitColumns == QueryInit => ColumnsOfContents
  BY DEF QueryInit, ColumnsOfContents

\* Columns depends on the content alone.
LEMMA ColumnsAreConstant == \A o : Columns(o)' = Columns(o)
  BY DEF Columns

LEMMA QueryNextColumns ==
    ColumnsOfContents /\ [QueryNext]_queryVars => ColumnsOfContents'
<1> SUFFICES ASSUME ColumnsOfContents, [QueryNext]_queryVars
             PROVE  ColumnsOfContents'
  OBVIOUS
<1>1. CASE UNCHANGED queryVars
  BY <1>1 DEF queryVars, ColumnsOfContents
<1>2. ASSUME NEW op \in Paths, NEW o \in Contents, PutCalendarObject(op, o)
      PROVE  ColumnsOfContents'
  BY <1>2 DEF PutCalendarObject, ColumnsOfContents
<1>3. ASSUME NEW op \in Paths, DeleteCalendarObject(op)
      PROVE  ColumnsOfContents'
  BY <1>3 DEF DeleteCalendarObject, Restrict, ColumnsOfContents
<1>. QED  BY <1>1, <1>2, <1>3 DEF QueryNext, queryVars

-----------------------------------------------------------------------------
(* The WHERE clause against the selection.                                  *)

\* In UTC, or compared as instants, a time column is before or after a bound of
\* the query exactly when its instant is.
LEMMA BoundsCompareInstants ==
    ASSUME NEW m \in Moments, ~(ByText /\ m.zone # 0),
           NEW q, q.start \in Int, q.end \in Int
    PROVE  /\ Instant(m) \in Int
           /\ AfterStart(m, q) <=> q.start < Instant(m)
           /\ BeforeEnd(m, q) <=> Instant(m) < q.end
  BY NullAssumption DEF AfterStart, BeforeEnd, Before, Instant, Moments

\* The time columns let an object through whose start is before the end of the
\* range and whose end is after its start, where it has them.
LEMMA TimesPass ==
    ASSUME NEW q \in Queries, NEW o \in Contents, ~Zoned(o),
           q.start \in Int, q.end \in Int,
           Columns(o).start # Null => Instant(Columns(o).start) < q.end,
           Columns(o).end # Null => q.start < Instant(Columns(o).end),
           q.comp = AnyComp \/ q.notDefined \/ o.comp = q.comp
    PROVE  Passes(q, Columns(o))
<1>1. /\ Columns(o).start \in Moments \cup {Null}
      /\ Columns(o).end \in Moments \cup {Null}
  BY ContentsAssumption DEF Columns, Times
<1>2. Columns(o).start = Null \/ BeforeEnd(Columns(o).start, q)
  BY <1>1, BoundsCompareInstants DEF Zoned
<1>3. Columns(o).end = Null \/ AfterStart(Columns(o).end, q)
  BY <1>1, BoundsCompareInstants DEF Zoned
<1>4. Columns(o).comp = o.comp
  BY DEF Columns
<1>. QED  BY <1>2, <1>3, <1>4 DEF Passes

\* An event or journal that does not repeat, in a range with both bounds.
LEMMA EventPasses ==
    ASSUME NEW q \in Queries, NEW o \in Contents, EventInRange(q, o.first),
           q.start \in Int, q.end \in Int, ~Zoned(o), o.first.due = Null,
           q.comp = AnyComp \/ q.notDefined \/ o.comp = q.comp
    PROVE  Passes(q, Columns(o))
<1>1. Columns(o).start = o.first.start /\ Columns(o).end = o.first.end
  BY DEF Columns
<1>2. Instant(o.first.start) < q.end
  BY NullAssumption DEF EventInRange, Until
<1>3. o.first.end # Null => q.start < Instant(o.first.end)
  BY NullAssumption DEF EventInRange, After
<1>. QED  BY <1>1, <1>2, <1>3, TimesPass

\* A task that does not repeat and takes time, in a range with both bounds.
LEMMA TaskPasses ==
    ASSUME NEW q \in Queries, NEW o \in Contents, TaskInRange(q, o.first),
           q.start \in Int, q.end \in Int,
           ~Zoned(o), ~Momentary(o), o.comp = "VTODO", o.first.end = Null,
           q.comp = AnyComp \/ q.notDefined \/ o.comp = q.comp
    PROVE  Passes(q, Columns(o))
<1> DEFINE i == o.first
<1>1. /\ i.start \in Moments \cup {Null} /\ i.due \in Moments \cup {Null}
      /\ i.lasts \in Nat \cup {Null}
  BY ContentsAssumption DEF Times
<1>2. \A m \in Moments : Instant(m) \in Int
  BY DEF Moments, Instant
<1>3. Columns(o).start = i.start /\ Columns(o).end = i.due
  BY DEF Columns
<1>4. \A t : /\ From(q, t) <=> q.start <= t
             /\ After(q, t) <=> q.start < t
             /\ Until(q, t) <=> t < q.end
             /\ UpTo(q, t) <=> t <= q.end
  BY NullAssumption DEF From, After, Until, UpTo
<1>5. CASE i.start # Null /\ i.due # Null
  <2>1. Instant(i.start) < Instant(i.due)
    BY <1>1, <1>2, <1>5 DEF Momentary
  <2>2. /\ q.start < Instant(i.due) \/ q.start <= Instant(i.start)
        /\ Instant(i.start) < q.end \/ Instant(i.due) <= q.end
    BY <1>4, <1>5 DEF TaskInRange
  <2>3. Instant(i.start) < q.end /\ q.start < Instant(i.due)
    BY <1>1, <1>2, <1>5, <2>1, <2>2
  <2>. QED  BY <1>3, <2>3, TimesPass
<1>6. CASE i.start # Null /\ i.due = Null /\ i.lasts # Null
  <2>1. i.lasts \in Nat /\ i.lasts # 0
    BY <1>1, <1>6 DEF Momentary
  <2>2. Instant(i.start) < q.end \/ Instant(i.start) + i.lasts <= q.end
    BY <1>4, <1>6 DEF TaskInRange
  <2>3. Instant(i.start) < q.end
    BY <1>1, <1>2, <1>6, <2>1, <2>2
  <2>. QED  BY <1>3, <1>6, <2>3, TimesPass
<1>7. CASE i.start # Null /\ i.due = Null /\ i.lasts = Null
  <2>1. Instant(i.start) < q.end
    BY <1>4, <1>7 DEF TaskInRange
  <2>. QED  BY <1>3, <1>7, <2>1, TimesPass
<1>8. CASE i.start = Null /\ i.due # Null
  <2>1. q.start < Instant(i.due)
    BY <1>4, <1>8 DEF TaskInRange
  <2>. QED  BY <1>3, <1>8, <2>1, TimesPass
<1>9. CASE i.start = Null /\ i.due = Null
  BY <1>3, <1>9, TimesPass
<1>. QED  BY <1>5, <1>6, <1>7, <1>8, <1>9

LEMMA SelectedPasses ==
    ASSUME NEW q \in Queries, NEW o \in Contents, Selects(q, o),
           ~OpenRange(q), ~ForTimezone(q), ~Repeats(o), ~Zoned(o),
           ~Momentary(o), ~Misfit(o)
    PROVE  Passes(q, Columns(o))
<1>1. q.comp = AnyComp \/ q.notDefined \/ o.comp = q.comp
  BY DEF Selects, Components, ForTimezone
<1>2. CASE q.start = Null
  BY <1>1, <1>2 DEF Passes, Columns
<1>3. CASE q.start # Null
  <2>1. q.start \in Int /\ q.end \in Int
    BY <1>3, QueriesAssumption DEF OpenRange
  <2>2. InRange(q, o.comp, o.first)
    BY <1>3 DEF Selects, Ranged, Repeats
  <2>3. CASE o.comp \in {"VEVENT", "VJOURNAL"}
    <3>1. o.first.due = Null /\ EventInRange(q, o.first)
      BY <2>2, <2>3 DEF Misfit, InRange
    <3>. QED  BY <1>1, <2>1, <3>1, EventPasses
  <2>4. CASE o.comp = "VTODO"
    <3>1. o.first.end = Null /\ TaskInRange(q, o.first)
      BY <2>2, <2>4 DEF Misfit, InRange
    <3>. QED  BY <1>1, <2>1, <2>4, <3>1, TaskPasses
  <2>. QED  BY <2>3, <2>4 DEF Misfit
<1>. QED  BY <1>2, <1>3

\* Of whatever was PUT, no object that a query selects is left out by the columns
\* but in the six cases.
THEOREM QueriesLeaveOutOnlyKnownCases == QuerySpec => []LeavesOutOnlyKnownCases
<1>1. ColumnsOfContents => LeavesOutOnlyKnownCases
  <2> SUFFICES ASSUME ColumnsOfContents, NEW q \in Queries, NEW op \in DOMAIN rows,
                      Selects(q, rows[op].data), op \notin Candidates(q),
                      ~OpenRange(q), ~ForTimezone(q), ~Repeats(rows[op].data),
                      ~Zoned(rows[op].data), ~Momentary(rows[op].data),
                      ~Misfit(rows[op].data)
               PROVE  FALSE
    BY DEF LeavesOutOnlyKnownCases
  <2>1. rows[op].data \in Contents /\ rows[op].columns = Columns(rows[op].data)
    BY DEF ColumnsOfContents
  <2>2. Passes(q, rows[op].columns)
    BY <2>1, SelectedPasses
  <2>. QED  BY <2>2 DEF Candidates
<1>. QED  BY <1>1, QueryInitColumns, QueryNextColumns, PTL DEF QuerySpec, queryVars

=============================================================================
