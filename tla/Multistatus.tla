----------------------------- MODULE Multistatus -----------------------------
(***************************************************************************)
(* The body of a PROPFIND answer, as the inner CalDAV handler writes it    *)
(* and as server/extended.go edits it: a sequence of responses, one per    *)
(* resource, each with a sequence of propstats.  The edits search the text *)
(* of the body; what matters of it is the order of the responses, of the   *)
(* propstats in each, and which property stands in which.                  *)
(***************************************************************************)
EXTENDS Integers, Sequences, SequencesExt

\* the properties that handlePropFindCalendar injects
Offered == {"sync-token", "getctag", "calendar-color", "supported-report-set"}

CONSTANTS NoValue,     \* of an empty element
          AnyValue     \* of a property whose value makes no difference here

\* a response has an href and at most two propstats: what was found, and the
\* names that were not; an empty set stands for no propstat
Prop(n, v)     == [name |-> n, value |-> v]
NamesIn(props) == {p.name : p \in props}

-----------------------------------------------------------------------------
(* The inner handler.                                                      *)

\* the propstats come in the order in which the names that are asked for first
\* need them; has gives the properties of the resource
Response(href, asked, has) ==
    [href       |-> href,
     found      |-> {Prop(n, has[n]) : n \in ToSet(asked) \cap DOMAIN has},
     missing    |-> {Prop(n, NoValue) : n \in ToSet(asked) \ DOMAIN has},
     foundFirst |-> asked[1] \in DOMAIN has]

-----------------------------------------------------------------------------
(* The edits.                                                              *)

\* every 404 propstat that contains one of the names goes, with all it contains
Remove404PropstatBlock(body, names) ==
    [i \in DOMAIN body |->
        IF NamesIn(body[i].missing) \cap names = {} THEN body[i]
        ELSE [body[i] EXCEPT !.missing = {}]]

\* faulty: the name getctag is forgotten
CleanedButCtag(body) == Remove404PropstatBlock(body, Offered \ {"getctag"})

Cleaned(body) == Remove404PropstatBlock(body, Offered)

\* 0 if there is no response for href
PositionOf(body, href) == SelectInSeq(body, LAMBDA r : r.href = href)

HasProps(r) == r.found # {} \/ r.missing # {}

\* the propstat that is written first gets the properties
Inserted(r, props) ==
    IF r.found # {} /\ (r.foundFirst \/ r.missing = {})
    THEN [r EXCEPT !.found = @ \cup props]
    ELSE [r EXCEPT !.missing = @ \cup props]

\* faulty: the search for </prop> starts at the beginning of the body
InjectFirstProp(body, href, props) ==
    LET here  == PositionOf(body, href)
        there == {j \in DOMAIN body : HasProps(body[j])}
    IN  IF here = 0 THEN body
        ELSE IF there = {} THEN [body EXCEPT ![here].found = props]
        ELSE [body EXCEPT ![Min(there)] = Inserted(@, props)]

\* the first </prop> that follows the href: of this response, or of a later one
InjectIntoProps(body, href, props) ==
    LET here  == PositionOf(body, href)
        there == {j \in here .. Len(body) : HasProps(body[j])}
    IN  IF here = 0 THEN body
        ELSE IF there = {} THEN [body EXCEPT ![here].found = props]
        ELSE [body EXCEPT ![Min(there)] = Inserted(@, props)]

-----------------------------------------------------------------------------
(* What a client reads.                                                    *)

\* what the responses for href report with status 200
FoundFor(body, href) == UNION {r.found : r \in {x \in ToSet(body) : x.href = href}}

ValuesOf(props, name) == {p.value : p \in {q \in props : q.name = name}}

=============================================================================
