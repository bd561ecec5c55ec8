---------------------------- MODULE MCQueryFilter -----------------------------
(* Constants for checking QueryFilter with TLC: components with every choice *)
(* of times on a clock of three hours, in UTC and an hour to its east; one    *)
(* object at a time, as no object bears on whether another is a candidate.    *)
EXTENDS QueryFilter

Clock == 1 .. 3
Given == {[clock |-> c, zone |-> 0] : c \in Clock} \cup {[clock |-> 2, zone |-> 1]}

\* a second instance two hours later, as a daily rule would make it
Later(m) == IF m = Null THEN Null ELSE [m EXCEPT !.clock = @ + 2]
Again(i) == [i EXCEPT !.start = Later(@), !.end = Later(@), !.due = Later(@)]

MCTimes == {i \in [start : Given \cup {Null}, end : Given \cup {Null},
                   due : Given \cup {Null}, lasts : {Null, 0, 2}] :
               \/ i.end = Null /\ i.due = Null
               \/ i.lasts = Null}
Object(c, i, further, timezone) ==
    [comp |-> c, first |-> i, more |-> further, timezone |-> timezone]
MCContents ==
    {Object(c, i, {}, FALSE) : c \in {"VEVENT", "VTODO", "VJOURNAL", "VFREEBUSY"},
                               i \in MCTimes}
    \cup {Object("VEVENT", i, {}, TRUE) : i \in MCTimes}
    \cup {Object(c, i, {Again(i)}, FALSE) : c \in {"VEVENT", "VTODO"}, i \in MCTimes}

Ranges == {<<s, e>> \in (Clock \cup {Null}) \X (Clock \cup {Null}) :
              s = Null \/ e = Null \/ s < e}
Kinds  == {"VEVENT", "VTODO", "VJOURNAL", "VFREEBUSY", "VTIMEZONE"}
MCQueries ==
    {[comp |-> c, start |-> r[1], end |-> r[2], notDefined |-> FALSE] :
        c \in Kinds, r \in Ranges}
    \cup {[comp |-> c, start |-> Null, end |-> Null, notDefined |-> TRUE] : c \in Kinds}
    \cup {[comp |-> AnyComp, start |-> Null, end |-> Null, notDefined |-> FALSE]}

=============================================================================
