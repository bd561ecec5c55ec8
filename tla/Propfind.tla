------------------------------ MODULE Propfind ------------------------------
(***************************************************************************)
(* PROPFIND on a calendar or on the calendar home set, PROPPATCH, and the  *)
(* clients that poll the CTag (server/extended.go), next to the requests   *)
(* of CalendarStore.                                                       *)
(*                                                                         *)
(* A PROPFIND runs the inner handler first, which reads the calendars and  *)
(* with Depth: 1 their objects, and then reads sync token and color of     *)
(* each calendar in the answer with two more statements.  The client polls *)
(* for the CTag and lists the calendar again when it differs.              *)
(***************************************************************************)
EXTENDS CalendarStore, Multistatus

CONSTANTS
    Colors,       \* values of calendar-color
    NoColor,      \* its default, the empty string
    Pollers,      \* clients that poll
    PollerUser,   \* the user a client signs in as
    PollerPath,   \* the calendar path that it follows
    HrefText,     \* how the path of a calendar is written as an href: escaped for
                  \* URLs and for XML
    HomeSet,      \* the path of the calendar home set
    Polls,        \* what it asks when it polls: pairs of a resource and names
    Lists         \* the names it asks for when it lists

ASSUME PollerAssumption ==
    /\ PollerUser \in [Pollers -> Users]
    /\ PollerPath \in [Pollers -> CalPaths]
    /\ \A poll \in Polls : poll.asked \in Seq(STRING)
    /\ \A asked \in Lists : asked \in Seq(STRING) /\ "getetag" \in ToSet(asked)

\* the hrefs of calendars
CalTexts == {HrefText[cp] : cp \in CalPaths}

\* escaping can be undone, and leaves a path its segments
ASSUME TextAssumption ==
    /\ \A cp, other \in CalPaths : HrefText[cp] = HrefText[other] => cp = other
    /\ CalTexts \cap ObjPaths = {} /\ HomeSet \notin CalTexts \cup ObjPaths

\* no property that is found has the value of an empty element
ASSUME ValuesAssumption ==
    NoValue \notin Nat \cup Data \cup Colors \cup {NoColor, AnyValue}

VARIABLES
    color,        \* column color of calendars
    find,         \* the PROPFIND of each client that the server is executing
    known         \* what each client knows

findVars == <<find, known>>
pfVars   == <<vars, color, findVars>>

NoTag == -1       \* no CTag was found

\* ctag and the view; pending: the CTag of the poll that made it list; cal and
\* of: ghosts, the calendar rows that ctag and pending were read from
Known == [ctag : Nat \cup {NoTag}, cal : Nat, pending : Nat \cup {NoTag},
          of : Nat, view : SUBSET [path : ObjPaths, data : Data],
          color : Colors \cup {NoColor}, listing : BOOLEAN]

Unknown == [ctag |-> NoTag, cal |-> NoRow, pending |-> NoTag, of |-> NoRow,
            view |-> {}, color |-> NoColor, listing |-> FALSE]

\* a property that is found, by its name; one that is injected may be in a 404
FoundProp ==
    [name : {"sync-token", "getctag"}, value : Nat]
    \cup [name : {"calendar-color"}, value : Colors]
    \cup [name : {"resourcetype", "supported-report-set"}, value : {AnyValue}]
    \cup [name : {"getetag"}, value : Data]

ResponseSet == [href : CalTexts \cup ObjPaths \cup {HomeSet},
                found : SUBSET FoundProp,
                missing : SUBSET (FoundProp \cup [name : STRING, value : {NoValue}]),
                foundFirst : BOOLEAN]

NoFind == [pc |-> "idle"]
Find   == [pc : {"objects", "token", "color", "answer"}, asked : Seq(STRING),
           todo : Seq(CalTexts), cal : Nat, token : Nat \cup {NoTag},
           inner : Seq(ResponseSet), body : Seq(ResponseSet)]

PropfindTypeOK ==
    /\ TypeOK
    /\ color \in [Live -> Colors \cup {NoColor}]
    /\ known \in [Pollers -> Known]
    /\ find \in [Pollers -> Find \cup {NoFind}]

-----------------------------------------------------------------------------
(* The store, and PROPPATCH.                                               *)

\* a calendar is created with the default color, and takes it along when it goes
StoreStep ==
    /\ Next
    /\ color' = [c \in DOMAIN calendars' |-> IF c \in Live THEN color[c] ELSE NoColor]
    /\ UNCHANGED findVars

\* WHERE path = ? AND user_id = ?
OwnCalendars(u, cp) == {c \in CalendarsAt(cp) : calendars[c].user = u}

\* values: the color that the request sets, or none; what it removes is ignored
UpdateCalendar(p, u, cp, values) ==
    \/ /\ values = {}                  \* no UPDATE at all, success
       /\ UNCHANGED color
       /\ Finish(p, "ok")
    \/ /\ values # {} /\ OwnCalendars(u, cp) = {}
       /\ UNCHANGED color
       /\ Finish(p, "notfound")
    \/ \E v \in values, c \in OwnCalendars(u, cp) :
          /\ color' = [color EXCEPT ![c] = v]
          /\ Committed(p)

PropPatch(p, u, cp, values) ==
    /\ Start(p)
    /\ UpdateCalendar(p, u, cp, values)
    /\ UNCHANGED <<tables, findVars>>

-----------------------------------------------------------------------------
(* PROPFIND.                                                               *)

CalendarHas == [n \in {"resourcetype"} |-> AnyValue]
ObjectHas(e) == [n \in {"resourcetype", "getetag"} |->
                    IF n = "getetag" THEN e.data ELSE AnyValue]

\* what the client that follows the calendar looks for, once unescaped
Href(d) == HrefText[PollerPath[d]]

\* hrefs: of the resource, or of the home set and the calendars in it.
\* extractCalendarPaths takes the paths of calendars from the body, in its order
\* and as they are written there; a response about /{user}/calendars/{name}/ has
\* the word calendar in its href
Begin(d, asked, hrefs, extracted) ==
    LET inner == [i \in DOMAIN hrefs |-> Response(hrefs[i], asked, CalendarHas)] IN
    find' = [find EXCEPT ![d] =
        [pc |-> IF known[d].listing THEN "objects" ELSE "token",
         asked |-> asked, todo |-> extracted, cal |-> NoRow, token |-> NoTag,
         inner |-> inner, body |-> Cleaned(inner)]]

\* GetCalendar: 404 if the user has none at this path, and the client then
\* forgets it
FindCalendar(d, asked) ==
    LET cp == PollerPath[d] IN
    /\ find[d] = NoFind
    /\ \/ /\ OwnCalendars(PollerUser[d], cp) = {}
          /\ known' = [known EXCEPT ![d] = Unknown]
          /\ UNCHANGED find
       \/ /\ OwnCalendars(PollerUser[d], cp) # {}
          /\ Begin(d, asked, <<Href(d)>>, <<Href(d)>>)
          /\ UNCHANGED known
    /\ UNCHANGED <<vars, color>>

\* ListCalendars: the home set itself, then the user's calendars
FindCalendars(d, asked) ==
    LET mine == {cp \in CalPaths : OwnCalendars(PollerUser[d], cp) # {}} IN
    /\ find[d] = NoFind
    /\ \E hrefs \in SetToSeqs({HrefText[cp] : cp \in mine}) :
          Begin(d, asked, <<HomeSet>> \o hrefs, hrefs)
    /\ UNCHANGED <<vars, color, known>>

Poll(d) ==
    /\ ~known[d].listing
    /\ \E poll \in Polls :
          \/ poll.resource = "calendar" /\ FindCalendar(d, poll.asked)
          \/ poll.resource = "home" /\ FindCalendars(d, poll.asked)

List(d) == known[d].listing /\ \E asked \in Lists : FindCalendar(d, asked)

\* ListCalendarObjects, a statement of its own; its rows come in any order
ListObjects(d) ==
    /\ find[d].pc = "objects"
    /\ LET cp == PollerPath[d]
           rows == UNION {Contents(c) : c \in OwnCalendars(PollerUser[d], cp)} IN
       \E order \in SetToSeqs(rows) :
          LET body == find[d].inner \o
                [i \in DOMAIN order |->
                    Response(order[i].path, find[d].asked, ObjectHas(order[i]))]
          IN  find' = [find EXCEPT ![d].pc = "token", ![d].inner = body,
                                   ![d].body = Cleaned(body)]
    /\ UNCHANGED <<vars, color, known>>

\* faulty: an error of GetSyncToken ends the request
ReadTokenOrFail(d) ==
    /\ find[d].pc = "token" /\ find[d].todo # <<>>
    /\ LET own == OwnCalendars(PollerUser[d], find[d].todo[1]) IN
       \/ /\ own = {}
          /\ find' = [find EXCEPT ![d] = NoFind]
       \/ \E c \in own :
             find' = [find EXCEPT ![d].pc = "color",
                         ![d].token = calendars[c].token,
                         ![d].cal = IF Head(find[d].todo) = Href(d) THEN c ELSE @]
    /\ UNCHANGED <<vars, color, known>>

\* for the next path that was extracted: GetSyncToken, whose error only leaves the
\* token out.  The text of an href is taken for the path: escaped, it is the path
\* of no calendar, or of another one
ReadToken(d) ==
    /\ find[d].pc = "token" /\ find[d].todo # <<>>
    /\ LET own == OwnCalendars(PollerUser[d], find[d].todo[1]) IN
       \/ /\ own = {}
          /\ find' = [find EXCEPT ![d].pc = "color", ![d].token = NoTag]
       \/ \E c \in own :
             find' = [find EXCEPT ![d].pc = "color",
                         ![d].token = calendars[c].token,
                         ![d].cal = IF Head(find[d].todo) = Href(d) THEN c ELSE @]
    /\ UNCHANGED <<vars, color, known>>

\* faulty: GetCalendarExtra is forgotten
InjectedTokens(token, colors) ==
    {Prop(n, token) : n \in {m \in {"sync-token", "getctag"} : token # NoTag}}
    \cup {Prop("supported-report-set", AnyValue)}

Injected(token, colors) ==
    {Prop(n, token) : n \in {m \in {"sync-token", "getctag"} : token # NoTag}}
    \cup {Prop("calendar-color", v) : v \in colors \ {NoColor}}
    \cup {Prop("supported-report-set", AnyValue)}

\* the color, if the user has a calendar at this path
GetCalendarExtra(u, cp) == {color[c] : c \in OwnCalendars(u, cp)}

\* the second statement, and the injection for this calendar
ReadColor(d) ==
    /\ find[d].pc = "color"
    /\ LET cp == Head(find[d].todo) IN
       find' = [find EXCEPT
          ![d].pc   = IF Tail(find[d].todo) = <<>> THEN "answer" ELSE "token",
          ![d].todo = Tail(@),
          ![d].body = InjectIntoProps(@, cp,
                         Injected(find[d].token,
                                  GetCalendarExtra(PollerUser[d], cp)))]
    /\ UNCHANGED <<vars, color, known>>

\* nothing to inject: an empty home set
NoneToInject(d) ==
    /\ find[d].pc = "token" /\ find[d].todo = <<>>
    /\ find' = [find EXCEPT ![d].pc = "answer"]
    /\ UNCHANGED <<vars, color, known>>

\* a statement of the inner handler fails, or the answer is lost
FindFail(d) ==
    /\ find[d] # NoFind
    /\ find' = [find EXCEPT ![d] = NoFind]
    /\ UNCHANGED <<vars, color, known>>

-----------------------------------------------------------------------------
(* The client.                                                             *)

TagIn(props) == IF ValuesOf(props, "getctag") = {} THEN NoTag
                ELSE CHOOSE t \in ValuesOf(props, "getctag") : TRUE

ColorIn(props) == IF ValuesOf(props, "calendar-color") = {} THEN NoColor
                  ELSE CHOOSE v \in ValuesOf(props, "calendar-color") : TRUE

ListedIn(body) ==
    {[path |-> op, data |-> v] : op \in ObjPaths, v \in Data}
        \cap UNION {{[path |-> op, data |-> v] :
                        v \in ValuesOf(FoundFor(body, op), "getetag")} : op \in ObjPaths}

\* a poll: a CTag other than the one it knows, or none, makes the client list;
\* a calendar that is not in the answer is forgotten
GetPoll(d) ==
    LET props == FoundFor(find[d].body, Href(d))
        tag   == TagIn(props) IN
    /\ find[d].pc = "answer" /\ ~known[d].listing
    /\ known' = [known EXCEPT ![d] =
          IF props = {} THEN Unknown
          ELSE [@ EXCEPT !.color   = ColorIn(props),
                         !.listing = (tag = NoTag \/ tag # known[d].ctag),
                         !.pending = tag,
                         !.of      = find[d].cal]]
    /\ find' = [find EXCEPT ![d] = NoFind]
    /\ UNCHANGED <<vars, color>>

\* a listing: the client shows what it says, and keeps the CTag of the poll
\* before it
GetListing(d) ==
    /\ find[d].pc = "answer" /\ known[d].listing
    /\ known' = [known EXCEPT ![d] =
          [@ EXCEPT !.view = ListedIn(find[d].body),
                    !.ctag = known[d].pending, !.cal = known[d].of,
                    !.pending = NoTag, !.of = NoRow, !.listing = FALSE]]
    /\ find' = [find EXCEPT ![d] = NoFind]
    /\ UNCHANGED <<vars, color>>

-----------------------------------------------------------------------------

PropfindInit ==
    /\ Init
    /\ color = [c \in {} |-> NoColor]
    /\ find = [d \in Pollers |-> NoFind]
    /\ known = [d \in Pollers |-> Unknown]

Serve(d) == ListObjects(d) \/ ReadToken(d) \/ ReadColor(d) \/ NoneToInject(d)
Get(d)   == GetPoll(d) \/ GetListing(d)

PropfindNext ==
    \/ StoreStep
    \/ \E p \in Procs, u \in Users, cp \in CalPaths :
          \E values \in {{}} \cup {{v} : v \in Colors \cup {NoColor}} :
              PropPatch(p, u, cp, values)
    \/ \E d \in Pollers : Poll(d) \/ List(d) \/ Serve(d) \/ Get(d) \/ FindFail(d)

PropfindSpec == PropfindInit /\ [][PropfindNext]_pfVars

\* a client polls for ever, and of infinitely many answers not each one fails
\* or is lost at the same step, with the same number of calendars to do
PropfindFairness ==
    \A d \in Pollers :
        /\ WF_pfVars(Poll(d) \/ List(d))
        /\ SF_pfVars(ListObjects(d))
        /\ \A n \in 1 .. Cardinality(CalPaths) :
              /\ SF_pfVars(ReadToken(d) /\ Len(find[d].todo) = n)
              /\ SF_pfVars(ReadColor(d) /\ Len(find[d].todo) = n)
        /\ SF_pfVars(NoneToInject(d))
        /\ SF_pfVars(GetPoll(d))
        /\ SF_pfVars(GetListing(d))

FairPropfindSpec == PropfindSpec /\ PropfindFairness

-----------------------------------------------------------------------------
(* Properties.                                                             *)

\* A client that keeps the CTag of the poll that made it list, and finds the
\* same CTag again, shows what its calendar shows: the token is read after what
\* the inner handler has listed, but before the client lists.
CtagMissesNothing ==
    \A d \in Pollers :
        LET c == known[d].cal IN
        c \in OwnCalendars(PollerUser[d], PollerPath[d])
        /\ known[d].ctag = calendars[c].token
            => known[d].view = Contents(c)

\* "CS:getctag -- Calendar Server CTag for change detection": as long as the
\* CTag in an answer is still the calendar's, the listing in the same answer is
\* what the calendar shows.
ListingMatchesCtag ==
    \A d \in Pollers :
        find[d].pc = "answer" /\ known[d].listing /\ find[d].cal \in Live =>
            \/ TagIn(FoundFor(find[d].body, Href(d))) # calendars[find[d].cal].token
            \/ ListedIn(find[d].body) = Contents(find[d].cal)

\* its CTag was read from a calendar that has been deleted since: the counter of
\* the next one may come to the same number
Outlived(d) == known[d].ctag # NoTag /\ known[d].cal \notin Live

\* the path of its calendar is written in an href as it is
Unescaped(d) == Href(d) = PollerPath[d]

\* its calendar is written in an href as another of the user's calendars is named,
\* and gets the token and the color of that one
Mistaken(d) == ~Unescaped(d) /\ OwnCalendars(PollerUser[d], Href(d)) # {}

\* Once writes stop, a client that polls shows the objects of the calendar that it
\* follows, and its color if the path needs no escaping, or forgets it if there is
\* none; unless it outlived its calendar or is given the CTag of another.
PollerConverges ==
    \A d \in Pollers :
        LET own == OwnCalendars(PollerUser[d], PollerPath[d]) IN
        <>[](\/ Outlived(d) \/ Mistaken(d)
             \/ own = {} /\ known[d].view = {}
             \/ \E c \in own : /\ known[d].view = Contents(c)
                               /\ Unescaped(d) => known[d].color = color[c])

\* "The handler automatically detects if the backend implements
\* `storage.ExtendedBackend` and enables PROPPATCH, calendar deletion, sync-token in
\* PROPFIND, CTag, calendar color": once writes stop, a client that polls knows CTag
\* and color of its calendar.
PropertiesArrive ==
    \A d \in Pollers :
        LET own == OwnCalendars(PollerUser[d], PollerPath[d]) IN
        <>[](\/ Outlived(d) \/ own = {}
             \/ \E c \in own : /\ known[d].ctag = calendars[c].token
                               /\ known[d].color = color[c])

\* the first name that is asked for, of those the handler does not offer itself,
\* is one that every resource has
AsksResourceTypeFirst(asked) ==
    \E i \in DOMAIN asked : /\ asked[i] = "resourcetype"
                            /\ \A j \in 1 .. i - 1 : asked[j] \in Offered

InjectedRight(d) ==
    LET props == FoundFor(find[d].body, Href(d))
        others == {r \in ToSet(find[d].body) : r.href \notin CalTexts} IN
    /\ find[d].cal # NoRow => Cardinality(ValuesOf(props, "getctag")) = 1
    /\ "supported-report-set" \in NamesIn(props)
    /\ \A r \in others : "supported-report-set" \notin NamesIn(r.found \cup r.missing)

\* If a request asks for resourcetype (as the clients that discover calendars
\* do) before any other property that the handler does not offer, then sync
\* token, CTag and reports come with status 200, once, in the response of the
\* calendar, and in no other.
InjectedWhereItBelongs ==
    \A d \in Pollers :
        find[d].pc = "answer" /\ AsksResourceTypeFirst(find[d].asked)
        /\ Href(d) \in {r.href : r \in ToSet(find[d].body)}
            => InjectedRight(d)

\* The edits take away nothing that the inner handler has found, and leave no
\* property that the handler offers reported as not found (with no value).
EditsKeepWhatIsFound ==
    \A d \in Pollers : find[d].pc \in {"token", "color", "answer"} =>
        \A r \in ToSet(find[d].inner) :
            /\ FoundFor(find[d].inner, r.href) \subseteq FoundFor(find[d].body, r.href)
            /\ \A x \in ToSet(find[d].body), n \in Offered :
                  Prop(n, NoValue) \notin x.found \cup x.missing

=============================================================================
