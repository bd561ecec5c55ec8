--------------------------- MODULE PropfindProofs ---------------------------
(* Theorems about Propfind, for any number of users, paths, handlers,       *)
(* clients, requests and calendars in a home set.                          *)
EXTENDS Propfind, CalendarStoreProofs, FiniteSetTheorems

-----------------------------------------------------------------------------
(* What makes the properties inductive.                                    *)

CleanedOne(r) == IF NamesIn(r.missing) \cap Offered = {} THEN r
                 ELSE [r EXCEPT !.missing = {}]

\* the response for a calendar before anything is injected into it
CalResponse(href, asked) == CleanedOne(Response(href, asked, CalendarHas))

\* each calendar has one response, and those still to do are as they were
TodoUntouched(f) ==
    /\ \A i, j \in DOMAIN f.body :
          f.body[i].href \in CalTexts /\ f.body[i].href = f.body[j].href => i = j
    /\ \A i \in DOMAIN f.body : f.body[i].href \in ToSet(f.todo) =>
          f.body[i] = CalResponse(f.body[i].href, f.asked)
    /\ \A k \in DOMAIN f.todo : \E i \in DOMAIN f.body : f.body[i].href = f.todo[k]
    /\ \A k, l \in DOMAIN f.todo : f.todo[k] = f.todo[l] => k = l

\* what follows, in the answer to a poll, is still to do as well
TodoFollows(f) ==
    \A i, j \in DOMAIN f.body, k \in DOMAIN f.todo :
        f.body[i].href = f.todo[k] /\ i <= j =>
            \E l \in DOMAIN f.todo : k <= l /\ f.body[j].href = f.todo[l]

\* the statements in their order
Stage(d) ==
    LET f == find[d] IN
    /\ f.pc = "objects" => /\ known[d].listing
                           /\ f.todo = <<HrefText[PollerPath[d]]>>
                           /\ f.inner = <<Response(HrefText[PollerPath[d]], f.asked, CalendarHas)>>
    /\ f.pc = "color" => f.todo # <<>>
    /\ f.pc = "answer" => f.todo = <<>>
    /\ known[d].listing => "getetag" \in ToSet(f.asked)

\* v was the token of calendar c, which may have gone
TagOf(d, c, v) ==
    /\ c \in 1 .. nextCal - 1 /\ v \in Nat
    /\ c \in Live => /\ calendars[c].path = HrefText[PollerPath[d]]
                     /\ calendars[c].user = PollerUser[d]
                     /\ v <= calendars[c].token

\* the token that is injected for the client's calendar is that of find[d].cal
TokenRead(d) ==
    LET f == find[d]
        here == f.pc = "color" /\ Head(f.todo) = HrefText[PollerPath[d]] IN
    /\ ~here /\ HrefText[PollerPath[d]] \in ToSet(f.todo) => f.cal = NoRow
    /\ here => /\ f.cal = NoRow <=> f.token = NoTag
               /\ f.cal # NoRow => TagOf(d, f.cal, f.token)

TagsInjected(d) ==
    \A i \in DOMAIN find[d].body : find[d].body[i].href = HrefText[PollerPath[d]] =>
        \A v \in ValuesOf(find[d].body[i].found, "getctag") : TagOf(d, find[d].cal, v)

\* the edits keep what was found and report nothing else
EditsRight(d) ==
    LET f == find[d] IN
    /\ DOMAIN f.inner = DOMAIN f.body
    /\ \A i \in DOMAIN f.body :
          /\ f.inner[i].href = f.body[i].href
          /\ f.inner[i].found \subseteq f.body[i].found
          /\ \A n \in Offered : Prop(n, NoValue) \notin f.body[i].missing

\* if resourcetype is asked for first, whatever has been injected is in its place
InjectedSoFar(d) ==
    LET f == find[d] IN
    AsksResourceTypeFirst(f.asked) =>
        \A i \in DOMAIN f.body :
            /\ f.body[i].href \notin CalTexts =>
                  "supported-report-set" \notin NamesIn(f.body[i].found \cup f.body[i].missing)
            /\ f.body[i].href = HrefText[PollerPath[d]] /\ HrefText[PollerPath[d]] \notin ToSet(f.todo) =>
                  /\ "supported-report-set" \in NamesIn(f.body[i].found)
                  /\ f.cal # NoRow =>
                        Cardinality(ValuesOf(f.body[i].found, "getctag")) = 1

\* if the token is that of the client's calendar, a listing shows the calendar as
\* it is, or the token has grown since the poll
ListedRight(d) ==
    LET k == known[d] IN
    HrefText[PollerPath[d]] = PollerPath[d]
    /\ k.pending # NoTag /\ k.of \in Live /\ k.pending = calendars[k.of].token =>
        ListedIn(find[d].body) = Contents(k.of)

FindInv(d) ==
    find[d] # NoFind =>
        /\ TodoUntouched(find[d])
        /\ Stage(d)
        /\ TokenRead(d)
        /\ EditsRight(d)
        /\ InjectedSoFar(d)
        /\ ~known[d].listing => TodoFollows(find[d]) /\ TagsInjected(d)
        /\ known[d].listing /\ find[d].pc # "objects" => ListedRight(d)

KnownInv(d) ==
    LET k == known[d] IN
    /\ k.ctag # NoTag => TagOf(d, k.cal, k.ctag)
    /\ k.pending # NoTag => TagOf(d, k.of, k.pending)
    /\ HrefText[PollerPath[d]] = PollerPath[d]
       /\ k.cal \in Live /\ k.ctag = calendars[k.cal].token => k.view = Contents(k.cal)

PfInv ==
    /\ IndInv
    /\ PropfindTypeOK
    /\ \A d \in Pollers : FindInv(d) /\ KnownInv(d)

-----------------------------------------------------------------------------
(* The body of an answer.                                                  *)

Hrefs == CalTexts \cup ObjPaths \cup {HomeSet}

\* The hrefs of calendars are no others', and each client's is among them.
LEMMA CalendarHrefs ==
    /\ \A d \in Pollers : HrefText[PollerPath[d]] \in CalTexts
    /\ CalTexts \cap ObjPaths = {} /\ HomeSet \notin CalTexts /\ CalTexts \subseteq Hrefs
  BY PollerAssumption, TextAssumption DEF CalTexts, Hrefs

\* The response for a calendar: resourcetype, if it was asked for, and nothing
\* else that is found.
OnlyResourceType(r, href, asked) ==
    /\ r \in ResponseSet
    /\ r.href = href
    /\ r.found = IF "resourcetype" \in ToSet(asked)
                 THEN {Prop("resourcetype", AnyValue)} ELSE {}
    /\ r.missing = {Prop(n, NoValue) : n \in ToSet(asked) \ {"resourcetype"}}
    /\ r.foundFirst = (asked[1] = "resourcetype")

LEMMA CalendarResponse ==
    ASSUME NEW href \in Hrefs, NEW asked \in Seq(STRING)
    PROVE  OnlyResourceType(Response(href, asked, CalendarHas), href, asked)
<1> DEFINE r == Response(href, asked, CalendarHas)
<1>1. DOMAIN CalendarHas = {"resourcetype"} /\ CalendarHas["resourcetype"] = AnyValue
  BY DEF CalendarHas
<1>2. ToSet(asked) \subseteq STRING
  BY DEF ToSet
<1>3. r.found = {Prop(n, CalendarHas[n]) : n \in ToSet(asked) \cap {"resourcetype"}}
  BY <1>1 DEF Response
<1>4. r.found = IF "resourcetype" \in ToSet(asked)
                THEN {Prop("resourcetype", AnyValue)} ELSE {}
  BY <1>1, <1>3
<1>5. r.missing = {Prop(n, NoValue) : n \in ToSet(asked) \ {"resourcetype"}}
  BY <1>1 DEF Response
<1>6. /\ r.href = href
      /\ r.foundFirst = (asked[1] = "resourcetype")
  BY <1>1 DEF Response
<1>7. r.found \subseteq FoundProp
  BY <1>4 DEF Prop, FoundProp
<1>8. r.missing \subseteq [name : STRING, value : {NoValue}]
  BY <1>2, <1>5 DEF Prop
<1>9. r = [href |-> r.href, found |-> r.found, missing |-> r.missing,
           foundFirst |-> r.foundFirst]
  BY DEF Response
<1>10. r \in ResponseSet
  BY <1>6, <1>7, <1>8, <1>9 DEF ResponseSet, Hrefs
<1>. QED  BY <1>4, <1>5, <1>6, <1>10 DEF OnlyResourceType

\* The response for an object has its content as the entity tag, if that was
\* asked for, and nothing that the handler injects.
ShowsObject(r, e, asked) ==
    /\ r \in ResponseSet
    /\ r.href = e.path
    /\ "getetag" \in ToSet(asked) => ValuesOf(r.found, "getetag") = {e.data}
    /\ NamesIn(r.found) \cap Offered = {}

LEMMA ObjectResponse ==
    ASSUME NEW e \in [path : ObjPaths, data : Data], NEW asked \in Seq(STRING)
    PROVE  ShowsObject(Response(e.path, asked, ObjectHas(e)), e, asked)
<1> DEFINE r == Response(e.path, asked, ObjectHas(e))
<1>1. /\ DOMAIN ObjectHas(e) = {"resourcetype", "getetag"}
      /\ ObjectHas(e)["resourcetype"] = AnyValue
      /\ ObjectHas(e)["getetag"] = e.data
  BY DEF ObjectHas
<1>2. ToSet(asked) \subseteq STRING
  BY DEF ToSet
<1>3. r.found = {Prop(n, ObjectHas(e)[n]) : n \in ToSet(asked) \cap {"resourcetype", "getetag"}}
  BY <1>1 DEF Response
<1>4. r.missing = {Prop(n, NoValue) : n \in ToSet(asked) \ {"resourcetype", "getetag"}}
  BY <1>1 DEF Response
<1>5. r.href = e.path /\ r.foundFirst \in BOOLEAN
  BY DEF Response
<1>6. \A x \in r.found : \/ x = Prop("resourcetype", AnyValue)
                         \/ x = Prop("getetag", e.data) /\ "getetag" \in ToSet(asked)
  BY <1>1, <1>3
<1>7. r.found \subseteq FoundProp
  BY <1>6 DEF Prop, FoundProp
<1>8. r.missing \subseteq [name : STRING, value : {NoValue}]
  BY <1>2, <1>4 DEF Prop
<1>9. r = [href |-> r.href, found |-> r.found, missing |-> r.missing,
           foundFirst |-> r.foundFirst]
  BY DEF Response
<1>10. r \in ResponseSet
  BY <1>5, <1>7, <1>8, <1>9 DEF ResponseSet
<1>11. ASSUME "getetag" \in ToSet(asked)
       PROVE  ValuesOf(r.found, "getetag") = {e.data}
  <2>1. Prop("getetag", e.data) \in r.found
    BY <1>1, <1>3, <1>11
  <2>. QED  BY <1>6, <2>1 DEF ValuesOf, Prop
<1>12. NamesIn(r.found) \cap Offered = {}
  BY <1>6 DEF NamesIn, Offered, Prop
<1>. QED  BY <1>5, <1>10, <1>11, <1>12 DEF ShowsObject

LEMMA CleanedResponse ==
    ASSUME NEW r \in ResponseSet
    PROVE  /\ CleanedOne(r) \in ResponseSet
           /\ CleanedOne(r).href = r.href
           /\ CleanedOne(r).found = r.found
           /\ CleanedOne(r).foundFirst = r.foundFirst
           /\ NamesIn(CleanedOne(r).missing) \cap Offered = {}
           /\ CleanedOne(r).missing \in {r.missing, {}}
  BY DEF CleanedOne, ResponseSet, NamesIn

LEMMA CleanedBody ==
    ASSUME NEW body \in Seq(ResponseSet)
    PROVE  /\ Cleaned(body) \in Seq(ResponseSet)
           /\ DOMAIN Cleaned(body) = DOMAIN body
           /\ \A i \in DOMAIN body : Cleaned(body)[i] = CleanedOne(body[i])
<1>1. /\ DOMAIN Cleaned(body) = DOMAIN body
      /\ \A i \in DOMAIN body : Cleaned(body)[i] = CleanedOne(body[i])
  BY DEF Cleaned, Remove404PropstatBlock, CleanedOne
<1>2. Len(body) \in Nat /\ DOMAIN body = 1 .. Len(body)
  OBVIOUS
<1>3. \A i \in 1 .. Len(body) : CleanedOne(body[i]) \in ResponseSet
  BY <1>2, CleanedResponse
<1>4. Cleaned(body) = [i \in 1 .. Len(body) |-> CleanedOne(body[i])]
  BY <1>2 DEF Cleaned, Remove404PropstatBlock, CleanedOne
<1>5. Cleaned(body) \in Seq(ResponseSet)
  BY <1>2, <1>3, <1>4
<1>. QED  BY <1>1, <1>5

-----------------------------------------------------------------------------
(* Injection.                                                              *)

LEMMA MinIsSmallest ==
    ASSUME NEW S \in SUBSET Nat, S # {}
    PROVE  Min(S) \in S /\ \A y \in S : Min(S) <= y
<1>1. PICK x \in S : \A y \in S : <<y, x>> \notin OpToRel(<, Nat)
  BY NatLessThanWellFounded, WFMin
<1>2. \A y \in S : ~(y < x)
  BY <1>1, Zenon DEF OpToRel
<1>3. \A y \in S : x <= y
  BY <1>2
<1>. QED  BY <1>3 DEF Min

FirstIsFound(r) == r.found # {} /\ (r.foundFirst \/ r.missing = {})

\* s is r with some of the properties added
Grown(r, s, props) ==
    /\ s.href = r.href
    /\ r.found \subseteq s.found /\ s.found \subseteq r.found \cup props
    /\ r.missing \subseteq s.missing /\ s.missing \subseteq r.missing \cup props

LEMMA InsertedResponse ==
    ASSUME NEW r \in ResponseSet, NEW props \in SUBSET FoundProp
    PROVE  /\ Inserted(r, props) \in ResponseSet
           /\ Grown(r, Inserted(r, props), props)
           /\ FirstIsFound(r) => /\ Inserted(r, props).found = r.found \cup props
                                 /\ Inserted(r, props).missing = r.missing
  BY DEF Inserted, ResponseSet, Grown, FirstIsFound

LEMMA HrefFound ==
    ASSUME NEW body \in Seq(ResponseSet), NEW href, NEW here \in DOMAIN body,
           body[here].href = href,
           \A i \in DOMAIN body : body[i].href = href => i = here
    PROVE  PositionOf(body, href) = here
<1> DEFINE I == {i \in 1 .. Len(body) : body[i].href = href}
<1>1. I = {here}
  OBVIOUS
<1>2. here \in Nat
  OBVIOUS
<1>3. Min(I) = here
  BY <1>1, <1>2, MinIsSmallest
<1>4. PositionOf(body, href) = IF I # {} THEN Min(I) ELSE 0
  BY DEF PositionOf, SelectInSeq
<1>. QED  BY <1>1, <1>3, <1>4

\* One response grows: that of the calendar, unless it is empty and a later one
\* is not.
OneGrown(body, b, here, props) ==
    /\ b \in Seq(ResponseSet) /\ DOMAIN b = DOMAIN body
    /\ \E t \in DOMAIN body :
          /\ \A i \in DOMAIN body \ {t} : b[i] = body[i]
          /\ Grown(body[t], b[t], props)
          /\ t # here => here < t /\ HasProps(body[t]) /\ ~HasProps(body[here])
          /\ FirstIsFound(body[here]) => /\ t = here
                                         /\ b[t].found = body[t].found \cup props
                                         /\ b[t].missing = body[t].missing

LEMMA InjectionGrows ==
    ASSUME NEW body \in Seq(ResponseSet), NEW props \in SUBSET FoundProp,
           NEW href, NEW here \in DOMAIN body, body[here].href = href,
           \A i \in DOMAIN body : body[i].href = href => i = here
    PROVE  OneGrown(body, InjectIntoProps(body, href, props), here, props)
<1> DEFINE b == InjectIntoProps(body, href, props)
           there == {j \in here .. Len(body) : HasProps(body[j])}
<1>1. PositionOf(body, href) = here
  BY HrefFound
<1>2. here \in 1 .. Len(body) /\ Len(body) \in Nat
  OBVIOUS
<1>3. b = IF there = {} THEN [body EXCEPT ![here].found = props]
          ELSE [body EXCEPT ![Min(there)] = Inserted(@, props)]
  BY <1>1, <1>2 DEF InjectIntoProps
<1> HIDE DEF b
<1>4. ASSUME there = {} PROVE OneGrown(body, b, here, props)
  <2>1. ~HasProps(body[here])
    BY <1>2, <1>4
  <2> DEFINE new == [body[here] EXCEPT !.found = props]
  <2>2. body[here] \in ResponseSet
    OBVIOUS
  <2>3. new \in ResponseSet /\ Grown(body[here], new, props)
    BY <2>1, <2>2 DEF ResponseSet, Grown, HasProps
  <2>4. b = [body EXCEPT ![here] = new]
    BY <1>3, <1>4
  <2>5. ~FirstIsFound(body[here])
    BY <2>1 DEF FirstIsFound, HasProps
  <2> HIDE DEF new
  <2>6. b \in Seq(ResponseSet) /\ DOMAIN b = DOMAIN body
    BY <1>2, <2>3, <2>4
  <2>7. b[here] = new /\ \A i \in DOMAIN body \ {here} : b[i] = body[i]
    BY <1>2, <2>4
  <2>. QED  BY <2>3, <2>5, <2>6, <2>7 DEF OneGrown
<1>5. ASSUME there # {} PROVE OneGrown(body, b, here, props)
  <2> DEFINE t == Min(there)
             new == Inserted(body[t], props)
  <2>0. there \in SUBSET Nat
    BY <1>2
  <2>1. t \in there /\ \A j \in there : t <= j
    <3> HIDE DEF there
    <3>. QED  BY <1>5, <2>0, MinIsSmallest
  <2>2. t \in DOMAIN body /\ t \in here .. Len(body) /\ HasProps(body[t])
    BY <1>2, <2>1
  <2>3. t # here => here < t /\ ~HasProps(body[here])
    BY <1>2, <2>1, <2>2
  <2>4. b = [body EXCEPT ![t] = Inserted(@, props)]
    BY <1>3, <1>5
  <2> HIDE DEF t
  <2>5. body[t] \in ResponseSet
    BY <2>2
  <2>6. /\ new \in ResponseSet /\ Grown(body[t], new, props)
        /\ FirstIsFound(body[t]) => /\ new.found = body[t].found \cup props
                                    /\ new.missing = body[t].missing
    BY <2>5, InsertedResponse
  <2>7. b = [body EXCEPT ![t] = new]
    BY <2>2, <2>4
  <2> HIDE DEF new
  <2>8. b \in Seq(ResponseSet) /\ DOMAIN b = DOMAIN body
    BY <2>2, <2>6, <2>7
  <2>9. b[t] = new /\ \A i \in DOMAIN body \ {t} : b[i] = body[i]
    BY <2>2, <2>7
  <2>10. FirstIsFound(body[here]) => t = here
    BY <2>3 DEF FirstIsFound, HasProps
  <2>. QED  BY <2>2, <2>3, <2>6, <2>8, <2>9, <2>10 DEF OneGrown
<1>6. OneGrown(body, b, here, props)
  BY <1>4, <1>5
<1>. QED  BY <1>6 DEF b

-----------------------------------------------------------------------------
(* What the clients rely on of the store: an id is not used twice, a token  *)
(* does not fall, and the contents change only when it grows.              *)

StoreEvolves ==
    /\ nextCal' >= nextCal
    /\ Live' \cap 1 .. nextCal - 1 \subseteq Live
    /\ \A c \in Live \cap Live' :
          /\ calendars'[c].path = calendars[c].path
          /\ calendars'[c].user = calendars[c].user
          /\ calendars'[c].token >= calendars[c].token
          /\ calendars'[c].token = calendars[c].token => Contents(c)' = Contents(c)

LEMMA TokensInNat ==
    ASSUME TypeOK
    PROVE  /\ nextCal \in Nat \ {0} /\ NoRow \notin Live
           /\ \A c \in Live : c \in 1 .. nextCal - 1 /\ calendars[c].token \in Nat
  BY DEF TypeOK, Live, CalendarRow, NoRow

LEMMA TokensNeverFall ==
    ASSUME TypeOK, TableStep, NEW c \in Live \cap Live'
    PROVE  calendars'[c].token >= calendars[c].token
<1>1. /\ \A k \in Live : calendars[k].token \in Nat /\ k \in 1 .. nextCal - 1
      /\ nextCal \in Nat
  BY TokensInNat
<1>2. CASE UNCHANGED tables
  BY <1>1, <1>2 DEF tables
<1>3. ASSUME NEW u \in Users, NEW cp \in CalPaths, CreateEffect(u, cp)
      PROVE  calendars'[c].token >= calendars[c].token
  BY <1>1, <1>3 DEF CreateEffect, Insert, Live
<1>4. ASSUME NEW k \in Live, NEW conn \in Conns, DropEffect(k, conn)
      PROVE  calendars'[c].token >= calendars[c].token
  BY <1>1, <1>4 DEF DropEffect, Restrict, Live
<1>5. ASSUME NEW p \in Procs, PutEffect(req[p]) \/ DeleteEffect(req[p])
      PROVE  calendars'[c].token >= calendars[c].token
  <2>1. PICK k \in Live : \E op, type : RecordChange(k, op, type)
    BY <1>5 DEF PutEffect, DeleteEffect, Commits
  <2>2. \/ calendars'[c].token = calendars[c].token + 1
        \/ calendars'[c].token = calendars[c].token
    BY <2>1, RecordChangeCalendars
  <2>. QED  BY <1>1, <2>2
<1>. QED  BY <1>2, <1>3, <1>4, <1>5 DEF TableStep

LEMMA StoreStepEvolves ==
    ASSUME IndInv, [Next]_vars
    PROVE  StoreEvolves
<1>1. TableStep /\ TypeOK
  BY StepsOfTables DEF IndInv
<1>2. CalendarsEvolve
  BY <1>1, TablesEvolve
<1>3. /\ nextCal \in Nat
      /\ \A c \in Live : c \in 1 .. nextCal - 1 /\ calendars[c].token \in Nat
  BY <1>1, TokensInNat
<1>4. ASSUME NEW c \in Live \cap Live', Contents(c)' # Contents(c)
      PROVE  calendars'[c].token # calendars[c].token
  <2>1. PICK p \in Procs : CommitEffect(p) /\ req[p].cal = c
    BY <1>1, <1>4, ContentsChangeByCommit
  <2>2. PICK type : RecordChange(c, req[p].path, type)
    BY <1>4, <2>1, CommitChangesOnePath
  <2>3. calendars'[c].token = calendars[c].token + 1
    BY <1>1, <1>4, <2>2, RecordChangeCalendars
  <2>. QED  BY <1>3, <1>4, <2>3
<1>5. \A c \in Live \cap Live' : calendars'[c].token >= calendars[c].token
  BY <1>1, TokensNeverFall
<1>6. /\ nextCal' >= nextCal
      /\ Live' \cap 1 .. nextCal - 1 \subseteq Live
      /\ \A c \in Live \cap Live' : /\ calendars'[c].path = calendars[c].path
                                    /\ calendars'[c].user = calendars[c].user
  BY <1>2, <1>3 DEF CalendarsEvolve
<1>. QED  BY <1>4, <1>5, <1>6 DEF StoreEvolves

LEMMA SameTablesEvolve ==
    ASSUME TypeOK, UNCHANGED <<calendars, objects, nextCal>>
    PROVE  StoreEvolves /\ Live' = Live /\ \A c : Contents(c)' = Contents(c)
<1>1. Live' = Live /\ nextCal \in Nat /\ \A c \in Live : calendars[c].token \in Nat
  BY TokensInNat DEF Live
<1>2. \A c : Contents(c)' = Contents(c)
  BY DEF Contents, RowsOf
<1>3. \A c \in Live : calendars'[c].token >= calendars[c].token
  BY <1>1
<1>4. nextCal' >= nextCal
  BY <1>1
<1>. QED  BY <1>1, <1>2, <1>3, <1>4 DEF StoreEvolves

LEMMA TagKept ==
    ASSUME TypeOK, TypeOK', StoreEvolves, NEW d \in Pollers, NEW c, NEW v, TagOf(d, c, v)
    PROVE  TagOf(d, c, v)'
<1>0. nextCal \in Nat /\ nextCal' \in Nat
  BY DEF TypeOK
<1>1. /\ c \in 1 .. nextCal' - 1 /\ v \in Nat
      /\ c \in Live' => c \in Live
  <2>1. c \in 1 .. nextCal - 1 /\ v \in Nat
    BY DEF TagOf
  <2>2. nextCal' >= nextCal
    BY DEF StoreEvolves
  <2>3. \A m, n \in Nat : n >= m /\ c \in 1 .. m - 1 => c \in 1 .. n - 1
    OBVIOUS
  <2>4. c \in Live' => c \in Live
    BY <2>1 DEF StoreEvolves
  <2>. QED  BY <1>0, <2>1, <2>2, <2>3, <2>4, Zenon
<1>2. ASSUME c \in Live'
      PROVE  /\ calendars'[c].path = HrefText[PollerPath[d]]
             /\ calendars'[c].user = PollerUser[d]
             /\ v <= calendars[c].token
             /\ calendars'[c].token >= calendars[c].token
             /\ calendars[c].token \in Nat /\ calendars'[c].token \in Nat
  BY <1>1, <1>2, TokensInNat DEF StoreEvolves, TagOf, TypeOK, Live, CalendarRow
<1>3. c \in Live' => v <= calendars'[c].token
  BY <1>1, <1>2
<1>. QED  BY <1>1, <1>2, <1>3 DEF TagOf

\* What was the content of the calendar when v was its token still is if v
\* still is.
LEMMA ShownKept ==
    ASSUME TypeOK, TypeOK', StoreEvolves, NEW d \in Pollers, NEW c, NEW v, NEW shown,
           TagOf(d, c, v),
           c \in Live /\ v = calendars[c].token => shown = Contents(c),
           c \in Live', v = calendars'[c].token
    PROVE  shown = Contents(c)'
<1>1. c \in Live /\ v \in Nat
  BY DEF TagOf, StoreEvolves
<1>2. /\ v <= calendars[c].token
      /\ calendars'[c].token >= calendars[c].token
      /\ calendars[c].token \in Nat
  BY <1>1, TokensInNat DEF TagOf, StoreEvolves
<1>3. v = calendars[c].token
  BY <1>1, <1>2
<1>. QED  BY <1>1, <1>3 DEF StoreEvolves

-----------------------------------------------------------------------------
(* The steps of others.                                                    *)

\* what FindInv says of one client at a time depends on the store by the tokens
\* and by the contents only
LEMMA FindUndisturbed ==
    ASSUME NEW d \in Pollers, FindInv(d), KnownInv(d), TypeOK, TypeOK', StoreEvolves,
           find'[d] = find[d], known'[d] = known[d]
    PROVE  FindInv(d)'
<1> SUFFICES ASSUME find[d] # NoFind
             PROVE  FindInv(d)'
  BY DEF FindInv
<1>1. TodoUntouched(find[d])'
  BY DEF FindInv, TodoUntouched
<1>2. Stage(d)'
  BY DEF FindInv, Stage
<1>3. TokenRead(d)'
  <2>1. TokenRead(d)
    BY DEF FindInv
  <2> DEFINE f == find[d]
  <2>2. TagOf(d, f.cal, f.token) => (TagOf(d, f.cal, f.token))'
    <3>1. ASSUME NEW c, NEW v, TagOf(d, c, v), c = f.cal', v = f.token'
          PROVE  (TagOf(d, f.cal, f.token))'
      <4>1. TagOf(d, c, v)'
        BY <3>1, TagKept
      <4>. QED  BY <3>1, <4>1 DEF TagOf
    <3>. QED  BY <3>1
  <2>. QED  BY <2>1, <2>2 DEF TokenRead
<1>4. EditsRight(d)'
  BY DEF FindInv, EditsRight
<1>5. InjectedSoFar(d)'
  BY DEF FindInv, InjectedSoFar
<1>6. ASSUME ~known[d].listing
      PROVE  (TodoFollows(find[d]) /\ TagsInjected(d))'
  <2>1. TodoFollows(find[d])'
    BY <1>6 DEF FindInv, TodoFollows
  <2>2. ASSUME NEW i \in DOMAIN find[d].body, find[d].body[i].href = HrefText[PollerPath[d]],
               NEW v \in ValuesOf(find[d].body[i].found, "getctag")
        PROVE  (TagOf(d, find[d].cal, v))'
    <3>1. PICK c : c = find[d].cal
      OBVIOUS
    <3>2. TagOf(d, c, v)
      BY <1>6, <2>2, <3>1 DEF FindInv, TagsInjected
    <3>3. TagOf(d, c, v)'
      BY <3>2, TagKept
    <3>. QED  BY <3>1, <3>3 DEF TagOf
  <2>3. TagsInjected(d)'
    BY <2>2 DEF TagsInjected
  <2>. QED  BY <2>1, <2>3
<1>7. ASSUME known[d].listing, find[d].pc # "objects"
      PROVE  ListedRight(d)'
  <2> SUFFICES ASSUME HrefText[PollerPath[d]] = PollerPath[d],
                      known[d].pending # NoTag, known[d].of \in Live',
                      known[d].pending = calendars'[known[d].of].token
               PROVE  ListedIn(find[d].body) = Contents(known[d].of)'
    BY DEF ListedRight
  <2>. QED  BY <1>7, ShownKept DEF FindInv, KnownInv, ListedRight
<1>. QED  BY <1>1, <1>2, <1>3, <1>4, <1>5, <1>6, <1>7 DEF FindInv

LEMMA KnownUndisturbed ==
    ASSUME NEW d \in Pollers, KnownInv(d), known[d] \in Known, TypeOK, TypeOK',
           StoreEvolves, known'[d] = known[d]
    PROVE  KnownInv(d)'
<1>1. PICK k : k = known[d]
  OBVIOUS
<1>2. known'[d] = k /\ k.ctag \in Nat \cup {NoTag}
  BY <1>1 DEF Known
<1>3. k.ctag # NoTag => TagOf(d, k.cal, k.ctag)'
  BY <1>1, TagKept DEF KnownInv
<1>4. k.pending # NoTag => TagOf(d, k.of, k.pending)'
  BY <1>1, TagKept DEF KnownInv
<1>5. ASSUME HrefText[PollerPath[d]] = PollerPath[d],
             k.cal \in Live', k.ctag = calendars'[k.cal].token
      PROVE  k.view = Contents(k.cal)'
  <2>1. k.ctag # NoTag
    BY <1>5 DEF TypeOK, CalendarRow, Live, NoTag
  <2>. QED  BY <1>1, <1>5, <2>1, ShownKept DEF KnownInv
<1>. QED  BY <1>2, <1>3, <1>4, <1>5 DEF KnownInv, TagOf

\* A step of the store disturbs no client.
LEMMA ClientsUndisturbed ==
    ASSUME PfInv, TypeOK', StoreEvolves, UNCHANGED findVars
    PROVE  /\ find' \in [Pollers -> Find \cup {NoFind}]
           /\ known' \in [Pollers -> Known]
           /\ \A d \in Pollers : FindInv(d)' /\ KnownInv(d)'
<1>1. TypeOK /\ find' = find /\ known' = known
  BY DEF PfInv, IndInv, findVars
<1>2. ASSUME NEW d \in Pollers
      PROVE  FindInv(d)' /\ KnownInv(d)'
  <2>1. FindInv(d) /\ KnownInv(d) /\ known[d] \in Known
    BY DEF PfInv, PropfindTypeOK
  <2>. QED  BY <1>1, <2>1, FindUndisturbed, KnownUndisturbed
<1>. QED  BY <1>1, <1>2 DEF PfInv, PropfindTypeOK

\* A step of one client leaves the store alone and disturbs no other client.
LEMMA ClientStep ==
    ASSUME PfInv, UNCHANGED <<vars, color>>, NEW d \in Pollers,
           NEW f \in Find \cup {NoFind}, find' = [find EXCEPT ![d] = f],
           NEW k \in Known, known' = [known EXCEPT ![d] = k],
           FindInv(d)', KnownInv(d)'
    PROVE  PfInv'
<1>1. TypeOK /\ IndInv /\ PropfindTypeOK
  BY DEF PfInv, IndInv
<1>2. IndInv' /\ TypeOK'
  BY <1>1, NextIndInv DEF IndInv
<1>3. StoreEvolves /\ Live' = Live
  BY <1>1, SameTablesEvolve DEF vars
<1>4. PropfindTypeOK'
  BY <1>1, <1>2, <1>3 DEF PropfindTypeOK
<1>5. ASSUME NEW e \in Pollers, e # d
      PROVE  FindInv(e)' /\ KnownInv(e)'
  <2>1. FindInv(e) /\ KnownInv(e) /\ known[e] \in Known
    BY DEF PfInv, PropfindTypeOK
  <2>2. find'[e] = find[e] /\ known'[e] = known[e]
    BY <1>1, <1>5 DEF PropfindTypeOK
  <2>. QED  BY <1>1, <1>2, <1>3, <2>1, <2>2, FindUndisturbed, KnownUndisturbed
<1>. QED  BY <1>2, <1>4, <1>5 DEF PfInv

LEMMA StoreStepInv ==
    ASSUME PfInv, StoreStep
    PROVE  PfInv'
<1>1. IndInv /\ PropfindTypeOK /\ Next
  BY DEF PfInv, StoreStep
<1>2. IndInv' /\ TypeOK' /\ StoreEvolves
  BY <1>1, NextIndInv, StoreStepEvolves DEF IndInv
<1>3. /\ find' \in [Pollers -> Find \cup {NoFind}]
      /\ known' \in [Pollers -> Known]
      /\ \A d \in Pollers : FindInv(d)' /\ KnownInv(d)'
  BY <1>2, ClientsUndisturbed DEF StoreStep
<1>4. color' \in [Live' -> Colors \cup {NoColor}]
  BY <1>1 DEF StoreStep, PropfindTypeOK, Live
<1>. QED  BY <1>2, <1>3, <1>4 DEF PfInv, PropfindTypeOK

LEMMA PropPatchInv ==
    ASSUME PfInv, NEW p \in Procs, NEW u \in Users, NEW cp \in CalPaths,
           NEW values \in {{}} \cup {{v} : v \in Colors \cup {NoColor}},
           PropPatch(p, u, cp, values)
    PROVE  PfInv'
<1>1. IndInv /\ TypeOK /\ PropfindTypeOK /\ UNCHANGED <<tables, findVars>>
  BY DEF PfInv, IndInv, PropPatch
<1>2. \E status \in Answers : Finish(p, status)
  BY DEF PropPatch, UpdateCalendar, Committed, Answers
<1>3. TypeOK'
  <2>1. req' \in [Procs -> Idle \cup PutRequest \cup DelRequest]
    BY <1>1, <1>2, FinishType DEF Requests
  <2>2. issued' \in 0 .. MaxRequests
    BY <1>1, BoundAssumption DEF PropPatch, Start, TypeOK
  <2>. QED  BY <1>1, <2>1, <2>2 DEF TypeOK, tables
<1>4. RequestsStillHold'
  <2>1. \A q \in Procs : Holds(q)
    BY <1>1 DEF IndInv, RequestsStillHold, Holds
  <2>2. Holds(p)' /\ \A q \in Procs \ {p} : req'[q] = req[q]
    BY <1>1, <1>2, RequestAnswered
  <2>3. TableStep
    BY <1>1 DEF TableStep
  <2>4. \A q \in Procs : Holds(q)'
    BY <1>1, <2>1, <2>2, <2>3, RequestUntouched
  <2>. QED  BY <2>4 DEF RequestsStillHold, Holds
<1>5. /\ UniquePaths' /\ RowsUnderTheirCalendar' /\ ChangesOfUsedIds'
      /\ LogMatchesToken' /\ EveryPathHasLatest' /\ LatestChangeIsTrue'
  <2>1. UniquePaths' /\ RowsUnderTheirCalendar' /\ ChangesOfUsedIds'
    BY <1>1 DEF IndInv, UniquePaths, RowsUnderTheirCalendar, ChangesOfUsedIds, Live, tables
  <2>2. LogMatchesToken'
    BY <1>1 DEF IndInv, LogMatchesToken, Live, tables
  <2>3. EveryPathHasLatest' /\ LatestChangeIsTrue'
    BY <1>1 DEF IndInv, EveryPathHasLatest, LatestChangeIsTrue, Live, tables,
                ChangesAt, IsLatest, RowsAt, RowsOf
  <2>. QED  BY <2>1, <2>2, <2>3
<1>6. IndInv'
  BY <1>3, <1>4, <1>5 DEF IndInv
<1>7. StoreEvolves /\ Live' = Live
  BY <1>1, SameTablesEvolve DEF tables
<1>8. color' \in [Live' -> Colors \cup {NoColor}]
  <2>1. CASE UNCHANGED color
    BY <1>1, <1>7, <2>1 DEF PropfindTypeOK
  <2>2. CASE \E v \in values, c \in OwnCalendars(u, cp) : color' = [color EXCEPT ![c] = v]
    BY <1>1, <1>7, <2>2 DEF PropfindTypeOK
  <2>. QED  BY <2>1, <2>2 DEF PropPatch, UpdateCalendar
<1>9. /\ find' \in [Pollers -> Find \cup {NoFind}]
      /\ known' \in [Pollers -> Known]
      /\ \A d \in Pollers : FindInv(d)' /\ KnownInv(d)'
  BY <1>1, <1>3, <1>7, ClientsUndisturbed
<1>. QED  BY <1>3, <1>6, <1>8, <1>9 DEF PfInv, PropfindTypeOK

LEMMA FindFailInv ==
    ASSUME PfInv, NEW d \in Pollers, FindFail(d)
    PROVE  PfInv'
<1>1. known[d] \in Known /\ known' = [known EXCEPT ![d] = known[d]]
  BY DEF PfInv, PropfindTypeOK, FindFail
<1>2. KnownInv(d)'
  BY <1>1, SameTablesEvolve, KnownUndisturbed, NextIndInv
     DEF PfInv, IndInv, FindFail, vars, PropfindTypeOK
<1>3. find'[d] = NoFind
  BY DEF FindFail, PfInv, PropfindTypeOK
<1>4. FindInv(d)'
  BY <1>3 DEF FindInv
<1>. QED  BY <1>1, <1>2, <1>4, ClientStep DEF FindFail

-----------------------------------------------------------------------------
(* The start of a PROPFIND.                                                *)

\* The response for a calendar before anything is injected into it.
NothingInjected(r, href, asked) ==
    /\ r \in ResponseSet
    /\ r.href = href
    /\ "supported-report-set" \notin NamesIn(r.found \cup r.missing)
    /\ ValuesOf(r.found, "getctag") = {} /\ ValuesOf(r.found, "getetag") = {}
    /\ AsksResourceTypeFirst(asked) => FirstIsFound(r)

LEMMA CalResponseShape ==
    ASSUME NEW href \in Hrefs, NEW asked \in Seq(STRING)
    PROVE  NothingInjected(CalResponse(href, asked), href, asked)
<1> DEFINE i == Response(href, asked, CalendarHas)
           r == CalResponse(href, asked)
<1>1. /\ i \in ResponseSet /\ i.href = href
      /\ i.found = IF "resourcetype" \in ToSet(asked)
                   THEN {Prop("resourcetype", AnyValue)} ELSE {}
      /\ i.missing = {Prop(n, NoValue) : n \in ToSet(asked) \ {"resourcetype"}}
      /\ i.foundFirst = (asked[1] = "resourcetype")
  <2>1. OnlyResourceType(i, href, asked)
    BY CalendarResponse
  <2> HIDE DEF i
  <2>. QED  BY <2>1 DEF OnlyResourceType
<1>2. /\ r \in ResponseSet /\ r.href = href
      /\ r.found = i.found /\ r.foundFirst = i.foundFirst
      /\ NamesIn(r.missing) \cap Offered = {}
      /\ r.missing = IF NamesIn(i.missing) \cap Offered = {} THEN i.missing ELSE {}
  <2>1. r = CleanedOne(i)
    BY DEF CalResponse
  <2>2. r.missing = IF NamesIn(i.missing) \cap Offered = {} THEN i.missing ELSE {}
    BY <1>1, <2>1 DEF CleanedOne, ResponseSet
  <2>. QED  BY <1>1, <2>1, <2>2, CleanedResponse
<1> HIDE DEF i, r
<1>3. "supported-report-set" \notin NamesIn(r.found \cup r.missing)
  BY <1>1, <1>2 DEF NamesIn, Offered, Prop
<1>4. ValuesOf(r.found, "getctag") = {} /\ ValuesOf(r.found, "getetag") = {}
  BY <1>1, <1>2 DEF ValuesOf, Prop
<1>6. ASSUME AsksResourceTypeFirst(asked)
      PROVE  FirstIsFound(r)
  <2>1. PICK k \in DOMAIN asked : /\ asked[k] = "resourcetype"
                                  /\ \A j \in 1 .. k - 1 : asked[j] \in Offered
    BY <1>6 DEF AsksResourceTypeFirst
  <2>2. r.found # {}
    BY <1>1, <1>2, <2>1 DEF ToSet
  <2>3. ASSUME asked[1] # "resourcetype"
        PROVE  r.missing = {}
    <3>1. k \in Nat /\ 1 \in DOMAIN asked /\ asked[1] \in Offered
      BY <2>1, <2>3
    <3>2. Prop(asked[1], NoValue) \in i.missing
      BY <1>1, <2>3, <3>1 DEF ToSet
    <3>3. Prop(asked[1], NoValue).name = asked[1]
      BY DEF Prop
    <3>. QED  BY <1>2, <3>1, <3>2, <3>3 DEF NamesIn
  <2>. QED  BY <1>1, <1>2, <2>2, <2>3 DEF FirstIsFound
<1>. QED  BY <1>2, <1>3, <1>4, <1>6 DEF i, r, NothingInjected

\* Two calendars have the same properties before anything is injected.
LEMMA CalResponsesAlike ==
    ASSUME NEW href \in Hrefs, NEW other \in Hrefs, NEW asked \in Seq(STRING)
    PROVE  HasProps(CalResponse(href, asked)) <=> HasProps(CalResponse(other, asked))
<1> DEFINE i == Response(href, asked, CalendarHas)
           j == Response(other, asked, CalendarHas)
<1>1. i.found = j.found /\ i.missing = j.missing /\ i \in ResponseSet /\ j \in ResponseSet
  <2>1. OnlyResourceType(i, href, asked) /\ OnlyResourceType(j, other, asked)
    BY CalendarResponse
  <2> HIDE DEF i, j
  <2>. QED  BY <2>1 DEF OnlyResourceType
<1> HIDE DEF i, j
<1>2. /\ CleanedOne(i).found = CleanedOne(j).found
      /\ CleanedOne(i).missing = CleanedOne(j).missing
  BY <1>1 DEF CleanedOne, ResponseSet
<1>. QED  BY <1>2 DEF CalResponse, HasProps, i, j

\* The edits begin with what was found, and cleaned.
LEMMA CleanedEdits ==
    ASSUME NEW inner \in Seq(ResponseSet)
    PROVE  LET body == Cleaned(inner) IN
           /\ DOMAIN inner = DOMAIN body
           /\ \A i \in DOMAIN body :
                 /\ inner[i].href = body[i].href
                 /\ inner[i].found \subseteq body[i].found
                 /\ \A n \in Offered : Prop(n, NoValue) \notin body[i].missing
<1>1. /\ DOMAIN Cleaned(inner) = DOMAIN inner
      /\ \A i \in DOMAIN inner : Cleaned(inner)[i] = CleanedOne(inner[i])
  BY CleanedBody
<1>2. ASSUME NEW i \in DOMAIN inner
      PROVE  /\ inner[i].href = Cleaned(inner)[i].href
             /\ inner[i].found \subseteq Cleaned(inner)[i].found
             /\ \A n \in Offered : Prop(n, NoValue) \notin Cleaned(inner)[i].missing
  <2>1. inner[i] \in ResponseSet
    OBVIOUS
  <2>2. NamesIn(CleanedOne(inner[i]).missing) \cap Offered = {}
    BY <2>1, CleanedResponse
  <2>3. \A n \in Offered : Prop(n, NoValue) \notin CleanedOne(inner[i]).missing
    BY <2>2 DEF NamesIn, Prop
  <2>. QED  BY <1>1, <2>1, <2>3, CleanedResponse
<1>. QED  BY <1>1, <1>2

\* A set from which each element is mapped to another one of a finite set.
LEMMA FiniteSource ==
    ASSUME NEW S, NEW T, IsFiniteSet(T), NEW f \in [S -> T],
           \A x, y \in S : f[x] = f[y] => x = y
    PROVE  IsFiniteSet(S)
<1>1. f \in Injection(S, T)
  BY DEF Injection, IsInjective
<1>. QED  BY <1>1, FS_Injection

\* Each order of a finite set has each of its elements in one place.
LEMMA OrdersOfSet ==
    ASSUME NEW S, IsFiniteSet(S), NEW s \in SetToSeqs(S)
    PROVE  /\ s \in Seq(S) /\ ToSet(s) = S
           /\ \A i, j \in DOMAIN s : s[i] = s[j] => i = j
<1> DEFINE n == Cardinality(S)
<1>1. n \in Nat
  BY FS_CardinalityType
<1>2. /\ s \in [1 .. n -> S]
      /\ \A i, j \in 1 .. n : s[i] = s[j] => i = j
  BY DEF SetToSeqs
<1>3. s \in Injection(1 .. n, S)
  BY <1>2 DEF Injection, IsInjective
<1>4. Cardinality(1 .. n) = n /\ IsFiniteSet(1 .. n)
  BY <1>1, FS_Interval
<1>5. s \in Surjection(1 .. n, S)
  BY <1>3, <1>4, FS_Injection
<1>6. \A x \in S : \E i \in 1 .. n : s[i] = x
  BY <1>5 DEF Surjection
<1> HIDE DEF n
<1>7. s \in Seq(S) /\ DOMAIN s = 1 .. n
  BY <1>1, <1>2
<1>8. ToSet(s) = S
  BY <1>2, <1>6, <1>7 DEF ToSet
<1>. QED  BY <1>2, <1>7, <1>8

LEMMA CalendarsFinite == TypeOK => IsFiniteSet(Live) /\ IsFiniteSet(DOMAIN objects)
<1> SUFFICES ASSUME TypeOK PROVE IsFiniteSet(Live) /\ IsFiniteSet(DOMAIN objects)
  OBVIOUS
<1>1. nextCal - 1 \in Int /\ nextRow - 1 \in Int
  BY DEF TypeOK
<1>2. IsFiniteSet(1 .. nextCal - 1) /\ IsFiniteSet(1 .. nextRow - 1)
  BY <1>1, FS_Interval
<1>. QED  BY <1>2, FS_Subset DEF TypeOK, Live

\* The paths of a user's calendars can be put in order.
LEMMA HomeSetFinite ==
    ASSUME TypeOK, NEW u
    PROVE  IsFiniteSet({cp \in CalPaths : OwnCalendars(u, cp) # {}})
<1> DEFINE mine == {cp \in CalPaths : OwnCalendars(u, cp) # {}}
           f == [cp \in mine |-> CHOOSE c \in OwnCalendars(u, cp) : TRUE]
<1>1. \A cp \in mine : f[cp] \in OwnCalendars(u, cp)
  OBVIOUS
<1>2. \A cp \in mine : f[cp] \in Live /\ calendars[f[cp]].path = cp
  BY <1>1 DEF OwnCalendars, CalendarsAt
<1>3. f \in [mine -> Live]
  BY <1>2
<1> HIDE DEF f, mine
<1>4. IsFiniteSet(mine)
  BY <1>2, <1>3, CalendarsFinite, FiniteSource
<1>. QED  BY <1>4 DEF mine

LEMMA ContentsFinite ==
    ASSUME TypeOK, NEW S \in SUBSET Live
    PROVE  IsFiniteSet(UNION {Contents(c) : c \in S})
<1> DEFINE rows == UNION {Contents(c) : c \in S}
           row(o) == [path |-> objects[o].path, data |-> objects[o].data]
           f == [e \in rows |-> CHOOSE o \in DOMAIN objects : row(o) = e]
<1>1. \A e \in rows : \E o \in DOMAIN objects : row(o) = e
  BY DEF Contents, RowsOf
<1>2. \A e \in rows : f[e] \in DOMAIN objects /\ row(f[e]) = e
  BY <1>1
<1>3. f \in [rows -> DOMAIN objects]
  BY <1>2
<1> HIDE DEF f, rows, row
<1>4. IsFiniteSet(rows)
  BY <1>2, <1>3, CalendarsFinite, FiniteSource
<1>. QED  BY <1>4 DEF rows

\* A PROPFIND that begins with these responses, those of the calendars to do
\* after that of the home set if there is one.
LEMMA Begun ==
    ASSUME PfInv, NEW d \in Pollers, find[d] = NoFind,
           NEW asked \in Seq(STRING), NEW todo \in Seq(CalTexts), NEW hrefs \in Seq(Hrefs),
           NEW n \in {0, 1}, Len(hrefs) = Len(todo) + n,
           n = 1 => hrefs[1] = HomeSet /\ ~known[d].listing,
           \A k \in DOMAIN todo : hrefs[k + n] = todo[k],
           \A k, l \in DOMAIN todo : todo[k] = todo[l] => k = l,
           known[d].listing => /\ todo = <<HrefText[PollerPath[d]]>> /\ hrefs = todo
                               /\ "getetag" \in ToSet(asked),
           Begin(d, asked, hrefs, todo), UNCHANGED <<vars, color, known>>
    PROVE  PfInv'
<1> DEFINE inner == [i \in DOMAIN hrefs |-> Response(hrefs[i], asked, CalendarHas)]
           body == Cleaned(inner)
           f == [pc |-> IF known[d].listing THEN "objects" ELSE "token",
                 asked |-> asked, todo |-> todo, cal |-> NoRow, token |-> NoTag,
                 inner |-> inner, body |-> body]
<1>1. find' = [find EXCEPT ![d] = f]
  BY DEF Begin
<1>2. DOMAIN hrefs = 1 .. Len(hrefs) /\ Len(hrefs) \in Nat
  OBVIOUS
<1>3. \A i \in DOMAIN hrefs : /\ inner[i] = Response(hrefs[i], asked, CalendarHas)
                              /\ inner[i] \in ResponseSet
                              /\ inner[i].href = hrefs[i]
  BY CalendarResponse DEF OnlyResourceType
<1>4. inner \in Seq(ResponseSet) /\ DOMAIN inner = DOMAIN hrefs
  BY <1>2, <1>3
<1>5. known[d].listing => inner = <<Response(HrefText[PollerPath[d]], asked, CalendarHas)>>
  <2> SUFFICES ASSUME known[d].listing
               PROVE  inner = <<Response(HrefText[PollerPath[d]], asked, CalendarHas)>>
    OBVIOUS
  <2>1. hrefs = <<HrefText[PollerPath[d]]>>
    OBVIOUS
  <2>2. Len(hrefs) = 1 /\ hrefs[1] = HrefText[PollerPath[d]]
    BY <2>1
  <2>3. inner \in Seq(ResponseSet) /\ Len(inner) = 1 /\ inner[1] = Response(HrefText[PollerPath[d]], asked, CalendarHas)
    BY <1>2, <1>3, <1>4, <2>2
  <2> HIDE DEF inner
  <2>. QED  BY <2>3
<1> HIDE DEF inner
<1>6. /\ body \in Seq(ResponseSet) /\ DOMAIN body = DOMAIN hrefs
      /\ \A i \in DOMAIN hrefs : body[i] = CalResponse(hrefs[i], asked)
  BY <1>3, <1>4, CleanedBody DEF CalResponse
<1>7. \A i \in DOMAIN hrefs : NothingInjected(body[i], hrefs[i], asked)
  BY <1>6, CalResponseShape
<1>8. /\ DOMAIN inner = DOMAIN body
      /\ \A i \in DOMAIN body :
            /\ inner[i].href = body[i].href
            /\ inner[i].found \subseteq body[i].found
            /\ \A m \in Offered : Prop(m, NoValue) \notin body[i].missing
  BY <1>4, CleanedEdits
<1> HIDE DEF body
<1>9. \A i \in DOMAIN body : body[i].href = hrefs[i]
  BY <1>6, <1>7 DEF NothingInjected
<1>10. f \in Find
  BY <1>4, <1>6 DEF Find, NoRow
<1>11. /\ find'[d] = f /\ f # NoFind
       /\ f.pc \in {"objects", "token"} /\ f.asked = asked /\ f.todo = todo
       /\ f.cal = NoRow /\ f.inner = inner /\ f.body = body
       /\ f.pc = "objects" <=> known[d].listing
  BY <1>1 DEF PfInv, PropfindTypeOK, NoFind
<1> HIDE DEF f
<1>12. known' = known /\ known[d] \in Known
  BY DEF PfInv, PropfindTypeOK
\* the place of each response that is to do
<1>13. \A i \in DOMAIN body : \/ n = 1 /\ i = 1 /\ hrefs[i] = HomeSet
                              \/ i - n \in DOMAIN todo /\ hrefs[i] = todo[i - n]
  <2> SUFFICES ASSUME NEW i \in DOMAIN body, ~(n = 1 /\ i = 1)
               PROVE  i - n \in DOMAIN todo /\ hrefs[i] = todo[i - n]
    OBVIOUS
  <2>1. i \in 1 .. Len(hrefs) /\ DOMAIN todo = 1 .. Len(todo) /\ Len(todo) \in Nat
    BY <1>2, <1>6
  <2>2. i - n \in 1 .. Len(todo) /\ (i - n) + n = i
    BY <2>1
  <2>. QED  BY <2>1, <2>2
<1>14. \A k \in DOMAIN todo : k + n \in DOMAIN body /\ hrefs[k + n] = todo[k] /\ k \in Nat
  BY <1>2, <1>6
<1>15. HomeSet \notin CalTexts /\ \A k \in DOMAIN todo : todo[k] \in CalTexts
  BY CalendarHrefs
<1>16. TodoUntouched(f)
  <2>1. \A i, j \in DOMAIN body : hrefs[i] \in CalTexts /\ hrefs[i] = hrefs[j] => i = j
    BY <1>13, <1>15, <1>2, <1>6
  <2>2. \A k \in DOMAIN todo : \E i \in DOMAIN body : body[i].href = todo[k]
    BY <1>9, <1>14
  <2>3. \A i \in DOMAIN body : body[i] = CalResponse(body[i].href, asked)
    BY <1>6, <1>9
  <2>. QED  BY <1>9, <1>11, <2>1, <2>2, <2>3 DEF TodoUntouched
<1>17. Stage(d)'
  <2>1. f.pc = "objects" => inner = <<Response(HrefText[PollerPath[d]], asked, CalendarHas)>>
    BY <1>5, <1>11
  <2>. QED  BY <1>11, <1>12, <2>1 DEF Stage
<1>18. TokenRead(d)'
  BY <1>11 DEF TokenRead
<1>19. EditsRight(d)'
  BY <1>8, <1>11 DEF EditsRight
<1>20. InjectedSoFar(d)'
  <2>1. \A i \in DOMAIN body :
           "supported-report-set" \notin NamesIn(body[i].found \cup body[i].missing)
    BY <1>6, <1>7 DEF NothingInjected
  <2>2. \A i \in DOMAIN body : body[i].href = HrefText[PollerPath[d]] => HrefText[PollerPath[d]] \in ToSet(todo)
    BY <1>9, <1>13, CalendarHrefs DEF ToSet
  <2>. QED  BY <1>11, <2>1, <2>2 DEF InjectedSoFar
<1>21. TodoFollows(f)
  <2> SUFFICES ASSUME NEW i \in DOMAIN body, NEW j \in DOMAIN body, NEW k \in DOMAIN todo,
                      body[i].href = todo[k], i <= j
               PROVE  \E l \in DOMAIN todo : k <= l /\ body[j].href = todo[l]
    BY <1>11 DEF TodoFollows
  <2>1. i - n \in DOMAIN todo /\ hrefs[i] = todo[i - n]
    BY <1>9, <1>13, <1>15
  <2>2. i - n = k
    BY <1>9, <2>1
  <2>3. i \in Nat /\ j \in Nat /\ k \in Nat
    BY <1>2, <1>6
  <2>4. ~(n = 1 /\ j = 1)
    BY <2>2, <2>3, <1>14
  <2>5. j - n \in DOMAIN todo /\ body[j].href = todo[j - n]
    BY <1>9, <1>13, <2>4
  <2>. QED  BY <2>2, <2>3, <2>5
<1>22. TagsInjected(d)'
  BY <1>6, <1>7, <1>11 DEF TagsInjected, NothingInjected
<1>23. FindInv(d)'
  <2>1. TodoUntouched(find[d])' /\ TodoFollows(find[d])'
    BY <1>11, <1>16, <1>21 DEF TodoUntouched, TodoFollows
  <2>2. ~(known[d].listing /\ f.pc # "objects")
    BY <1>11
  <2>. QED  BY <1>11, <1>12, <1>17, <1>18, <1>19, <1>20, <1>22, <2>1, <2>2 DEF FindInv
<1>24. KnownInv(d)'
  BY <1>12, SameTablesEvolve, KnownUndisturbed, NextIndInv DEF PfInv, IndInv, vars
<1>25. known' = [known EXCEPT ![d] = known[d]]
  BY <1>12 DEF PfInv, PropfindTypeOK
<1>. QED  BY <1>1, <1>10, <1>12, <1>23, <1>24, <1>25, ClientStep

LEMMA FindCalendarInv ==
    ASSUME PfInv, NEW d \in Pollers, NEW asked \in Seq(STRING), FindCalendar(d, asked),
           known[d].listing => "getetag" \in ToSet(asked)
    PROVE  PfInv'
<1> DEFINE cp == HrefText[PollerPath[d]]
<1>1. find[d] = NoFind /\ UNCHANGED <<vars, color>> /\ TypeOK
  BY DEF FindCalendar, Href, PfInv, IndInv
<1>2. CASE OwnCalendars(PollerUser[d], PollerPath[d]) # {}
  <2>1. UNCHANGED known /\ Begin(d, asked, <<cp>>, <<cp>>)
    BY <1>2 DEF FindCalendar, Href
  <2>2. cp \in CalTexts /\ cp \in Hrefs
    BY CalendarHrefs
  <2> HIDE DEF cp
  <2> DEFINE one == <<cp>>
  <2>3. one \in Seq(CalTexts) /\ one \in Seq(Hrefs) /\ Len(one) = Len(one) + 0
    BY <2>2
  <2>4. /\ \A k \in DOMAIN one : one[k + 0] = one[k]
        /\ \A k, l \in DOMAIN one : one[k] = one[l] => k = l
    OBVIOUS
  <2>5. one = <<HrefText[PollerPath[d]]>>
    BY DEF cp
  <2>6. Begin(d, asked, one, one) /\ UNCHANGED <<vars, color, known>>
    BY <1>1, <2>1
  <2> HIDE DEF one
  <2>7. 0 \in {0, 1} /\ 0 # 1
    OBVIOUS
  <2>. QED  BY <1>1, <2>3, <2>4, <2>5, <2>6, <2>7, Begun
<1>3. CASE OwnCalendars(PollerUser[d], PollerPath[d]) = {}
  <2>1. UNCHANGED find /\ known' = [known EXCEPT ![d] = Unknown]
    BY <1>3 DEF FindCalendar, Href
  <2>2. Unknown \in Known
    BY DEF Unknown, Known, NoRow, NoTag
  <2>3. find'[d] = NoFind /\ known'[d] = Unknown
    BY <1>1, <2>1 DEF PfInv, PropfindTypeOK
  <2>4. FindInv(d)'
    BY <2>3 DEF FindInv
  <2>5. NoRow \notin Live'
    BY <1>1, TokensInNat DEF vars, Live
  <2>6. KnownInv(d)'
    BY <2>3, <2>5 DEF KnownInv, Unknown
  <2>7. find' = [find EXCEPT ![d] = NoFind]
    BY <1>1, <2>1 DEF PfInv, PropfindTypeOK
  <2>. QED  BY <1>1, <2>1, <2>2, <2>4, <2>6, <2>7, ClientStep
<1>. QED  BY <1>2, <1>3

LEMMA FindCalendarsInv ==
    ASSUME PfInv, NEW d \in Pollers, NEW asked \in Seq(STRING), FindCalendars(d, asked),
           ~known[d].listing
    PROVE  PfInv'
<1> DEFINE paths == {cp \in CalPaths : OwnCalendars(PollerUser[d], cp) # {}}
           mine  == {HrefText[cp] : cp \in paths}
<1>1. PICK todo \in SetToSeqs(mine) : Begin(d, asked, <<HomeSet>> \o todo, todo)
  BY DEF FindCalendars
<1>2. IsFiniteSet(mine)
  <2>1. IsFiniteSet(paths)
    BY HomeSetFinite DEF PfInv, IndInv
  <2> DEFINE of == [href \in mine |-> CHOOSE cp \in paths : HrefText[cp] = href]
  <2>2. \A href \in mine : of[href] \in paths /\ HrefText[of[href]] = href
    OBVIOUS
  <2>3. of \in [mine -> paths]
    BY <2>2
  <2> HIDE DEF of, mine, paths
  <2>. QED  BY <2>1, <2>2, <2>3, FiniteSource
<1>3. mine \subseteq CalTexts
  BY DEF CalTexts
<1> HIDE DEF mine
<1>4. /\ todo \in Seq(mine)
      /\ \A k, l \in DOMAIN todo : todo[k] = todo[l] => k = l
  BY <1>2, OrdersOfSet
<1>5. todo \in Seq(CalTexts)
  BY <1>3, <1>4
<1> DEFINE hrefs == <<HomeSet>> \o todo
<1>6. /\ Len(hrefs) = Len(todo) + 1
      /\ hrefs[1] = HomeSet
      /\ \A k \in DOMAIN todo : hrefs[k + 1] = todo[k]
  BY <1>5
<1>7. hrefs \in Seq(Hrefs)
  <2>1. todo \in Seq(Hrefs) /\ <<HomeSet>> \in Seq(Hrefs)
    BY <1>5 DEF Hrefs
  <2>. QED  BY <2>1
<1>8. Begin(d, asked, hrefs, todo)
  BY <1>1
<1> HIDE DEF hrefs
<1>9. UNCHANGED <<vars, color, known>> /\ find[d] = NoFind
  BY DEF FindCalendars
<1>10. 1 \in {0, 1}
  OBVIOUS
<1>. QED  BY <1>4, <1>5, <1>6, <1>7, <1>8, <1>9, <1>10, Begun

-----------------------------------------------------------------------------
(* The objects of a listing.                                               *)

LEMMA ListedElements ==
    ASSUME NEW body, NEW e
    PROVE  e \in ListedIn(body) <=>
              /\ e \in [path : ObjPaths, data : Data]
              /\ \E i \in DOMAIN body :
                    /\ body[i].href = e.path
                    /\ e.data \in ValuesOf(body[i].found, "getetag")
<1>1. \A op, v : v \in ValuesOf(FoundFor(body, op), "getetag") <=>
         \E i \in DOMAIN body : /\ body[i].href = op
                                /\ v \in ValuesOf(body[i].found, "getetag")
  BY DEF ValuesOf, FoundFor, ToSet
<1>2. ASSUME e \in ListedIn(body)
      PROVE  /\ e \in [path : ObjPaths, data : Data]
             /\ e.data \in ValuesOf(FoundFor(body, e.path), "getetag")
  <2>1. PICK op \in ObjPaths, v \in Data : e = [path |-> op, data |-> v]
    BY <1>2 DEF ListedIn
  <2>2. PICK oq \in ObjPaths : \E w \in ValuesOf(FoundFor(body, oq), "getetag") :
           e = [path |-> oq, data |-> w]
    BY <1>2 DEF ListedIn
  <2>3. e.path = oq /\ e.data \in ValuesOf(FoundFor(body, oq), "getetag")
    BY <2>2
  <2>. QED  BY <2>1, <2>2, <2>3
<1>3. ASSUME e \in [path : ObjPaths, data : Data],
             e.data \in ValuesOf(FoundFor(body, e.path), "getetag")
      PROVE  e \in ListedIn(body)
  <2>1. e = [path |-> e.path, data |-> e.data] /\ e.path \in ObjPaths /\ e.data \in Data
    BY <1>3
  <2>2. e \in {[path |-> op, data |-> v] : op \in ObjPaths, v \in Data}
    BY <2>1
  <2>3. e \in UNION {{[path |-> op, data |-> v] :
                        v \in ValuesOf(FoundFor(body, op), "getetag")} : op \in ObjPaths}
    BY <1>3, <2>1
  <2>. QED  BY <2>2, <2>3 DEF ListedIn
<1>. QED  BY <1>1, <1>2, <1>3

\* Bodies with the same hrefs and the same entity tags list the same.
LEMMA SameTagsSameListing ==
    ASSUME NEW body, NEW b, DOMAIN b = DOMAIN body,
           \A i \in DOMAIN body :
              /\ b[i].href = body[i].href
              /\ ValuesOf(b[i].found, "getetag") = ValuesOf(body[i].found, "getetag")
    PROVE  ListedIn(b) = ListedIn(body)
<1>1. \A e : e \in ListedIn(b) <=> e \in ListedIn(body)
  BY ListedElements
<1>2. \A S, T : (\A e : e \in S <=> e \in T) => S = T
  OBVIOUS
<1>. QED  BY <1>1, <1>2

\* A user has at most one calendar at a path.
LEMMA OneOwnCalendar ==
    ASSUME UniquePaths, NEW u, NEW cp, NEW c \in OwnCalendars(u, cp)
    PROVE  OwnCalendars(u, cp) = {c}
  BY DEF UniquePaths, OwnCalendars, CalendarsAt

LEMMA ContentsType ==
    ASSUME TypeOK, NEW c
    PROVE  Contents(c) \subseteq [path : ObjPaths, data : Data]
  BY DEF TypeOK, Contents, RowsOf, ObjectRow

\* The body after the objects have been listed: the calendar's response, and one
\* for each object.
ListingOf(cp, asked, order) ==
    <<Response(cp, asked, CalendarHas)>> \o
        [i \in DOMAIN order |-> Response(order[i].path, asked, ObjectHas(order[i]))]

ListsRows(inner, body, cp, asked, rows) ==
    /\ inner \in Seq(ResponseSet) /\ body \in Seq(ResponseSet)
    /\ DOMAIN body = DOMAIN inner /\ 1 \in DOMAIN inner
    /\ body[1] = CalResponse(cp, asked)
    /\ \A i \in DOMAIN inner : i # 1 =>
          /\ body[i].href \in ObjPaths
          /\ "supported-report-set" \notin NamesIn(body[i].found \cup body[i].missing)
    /\ ListedIn(body) = rows

LEMMA ListingBody ==
    ASSUME NEW cp \in CalTexts, NEW asked \in Seq(STRING), "getetag" \in ToSet(asked),
           NEW rows \in SUBSET [path : ObjPaths, data : Data],
           NEW order \in Seq(rows), ToSet(order) = rows
    PROVE  LET inner == ListingOf(cp, asked, order) IN
           ListsRows(inner, Cleaned(inner), cp, asked, rows)
<1> DEFINE inner == ListingOf(cp, asked, order)
           first == <<Response(cp, asked, CalendarHas)>>
           rest  == [i \in DOMAIN order |->
                       Response(order[i].path, asked, ObjectHas(order[i]))]
           body  == Cleaned(inner)
<1>1. cp \in Hrefs
  BY DEF Hrefs
<1>2. first \in Seq(ResponseSet) /\ Len(first) = 1
  BY <1>1, CalendarResponse DEF OnlyResourceType
<1>3. DOMAIN order = 1 .. Len(order) /\ Len(order) \in Nat
  OBVIOUS
<1>4. \A i \in DOMAIN order : /\ order[i] \in [path : ObjPaths, data : Data]
                              /\ ShowsObject(rest[i], order[i], asked)
  BY ObjectResponse
<1>5. rest \in Seq(ResponseSet) /\ Len(rest) = Len(order)
  BY <1>3, <1>4 DEF ShowsObject
<1>6. /\ inner \in Seq(ResponseSet) /\ Len(inner) = Len(order) + 1
      /\ inner[1] = Response(cp, asked, CalendarHas)
      /\ \A i \in DOMAIN order : i + 1 \in DOMAIN inner /\ inner[i + 1] = rest[i]
  <2> HIDE DEF rest
  <2>1. inner = first \o rest
    BY DEF rest, ListingOf
  <2>2. inner[1] = first[1]
    BY <1>2, <1>5, <2>1
  <2>. QED  BY <1>2, <1>3, <1>5, <2>1, <2>2
<1>7. \A i \in DOMAIN inner : i # 1 => i - 1 \in DOMAIN order /\ inner[i] = rest[i - 1]
  <2> SUFFICES ASSUME NEW i \in DOMAIN inner, i # 1
               PROVE  i - 1 \in DOMAIN order /\ inner[i] = rest[i - 1]
    OBVIOUS
  <2>1. i \in 1 .. Len(order) + 1
    BY <1>6
  <2>2. i - 1 \in 1 .. Len(order) /\ (i - 1) + 1 = i
    BY <1>3, <2>1
  <2> HIDE DEF rest
  <2>. QED  BY <1>3, <1>6, <2>2
<1> HIDE DEF rest, first, inner
<1>8. /\ body \in Seq(ResponseSet) /\ DOMAIN body = DOMAIN inner /\ 1 \in DOMAIN inner
      /\ \A i \in DOMAIN inner : body[i] = CleanedOne(inner[i])
  <2>1. 1 \in DOMAIN inner
    BY <1>3, <1>6
  <2>. QED  BY <1>6, <2>1, CleanedBody
<1> HIDE DEF body
<1>9. body[1] = CalResponse(cp, asked)
  BY <1>6, <1>8 DEF CalResponse
<1>10. \A i \in DOMAIN inner : i # 1 =>
          /\ body[i].href = order[i - 1].path /\ order[i - 1] \in rows
          /\ ValuesOf(body[i].found, "getetag") = {order[i - 1].data}
          /\ NamesIn(body[i].found \cup body[i].missing) \cap Offered = {}
  <2> SUFFICES ASSUME NEW i \in DOMAIN inner, i # 1
               PROVE  /\ body[i].href = order[i - 1].path /\ order[i - 1] \in rows
                      /\ ValuesOf(body[i].found, "getetag") = {order[i - 1].data}
                      /\ NamesIn(body[i].found \cup body[i].missing) \cap Offered = {}
    OBVIOUS
  <2>1. i - 1 \in DOMAIN order /\ ShowsObject(inner[i], order[i - 1], asked)
    BY <1>4, <1>7
  <2>2. /\ inner[i] \in ResponseSet /\ inner[i].href = order[i - 1].path
        /\ ValuesOf(inner[i].found, "getetag") = {order[i - 1].data}
        /\ NamesIn(inner[i].found) \cap Offered = {}
    BY <2>1 DEF ShowsObject
  <2>3. /\ body[i].href = inner[i].href /\ body[i].found = inner[i].found
        /\ NamesIn(body[i].missing) \cap Offered = {}
    BY <1>8, <2>2, CleanedResponse
  <2>4. NamesIn(body[i].found \cup body[i].missing) \cap Offered = {}
    BY <2>2, <2>3 DEF NamesIn
  <2>5. order[i - 1] \in rows
    BY <2>1
  <2>6. ValuesOf(body[i].found, "getetag") = {order[i - 1].data}
    BY <2>2, <2>3
  <2>. QED  BY <2>2, <2>3, <2>4, <2>5, <2>6
<1>11. NothingInjected(body[1], cp, asked)
  BY <1>1, <1>9, CalResponseShape
<1>12. \A i \in DOMAIN inner : i # 1 =>
          /\ body[i].href \in ObjPaths
          /\ "supported-report-set" \notin NamesIn(body[i].found \cup body[i].missing)
  BY <1>10 DEF Offered
<1>13. ListedIn(body) = rows
  <2>1. ASSUME NEW e \in ListedIn(body)
        PROVE  e \in rows
    <3>1. PICK i \in DOMAIN body : /\ body[i].href = e.path
                                   /\ e.data \in ValuesOf(body[i].found, "getetag")
      BY ListedElements
    <3>2. i # 1
      BY <1>11, <3>1 DEF NothingInjected
    <3>3. e \in [path : ObjPaths, data : Data]
      BY ListedElements
    <3>4. e.path = order[i - 1].path /\ e.data = order[i - 1].data /\ order[i - 1] \in rows
      BY <1>8, <1>10, <3>1, <3>2
    <3>5. order[i - 1] = e
      BY <3>3, <3>4
    <3>. QED  BY <3>4, <3>5
  <2>2. ASSUME NEW e \in rows
        PROVE  e \in ListedIn(body)
    <3>1. PICK k \in DOMAIN order : order[k] = e
      BY DEF ToSet
    <3>2. k + 1 \in DOMAIN inner /\ k + 1 # 1 /\ (k + 1) - 1 = k
      BY <1>3, <1>6
    <3>3. /\ body[k + 1].href = e.path
          /\ e.data \in ValuesOf(body[k + 1].found, "getetag")
      BY <1>10, <3>1, <3>2
    <3>. QED  BY <1>8, <3>2, <3>3, ListedElements
  <2>. QED  BY <2>1, <2>2
<1>14. ListsRows(inner, body, cp, asked, rows)
  BY <1>6, <1>8, <1>9, <1>12, <1>13 DEF ListsRows
<1>. QED  BY <1>14 DEF inner, body

LEMMA ListObjectsInv ==
    ASSUME PfInv, NEW d \in Pollers, ListObjects(d)
    PROVE  PfInv'
<1> DEFINE cp == HrefText[PollerPath[d]]
           own == OwnCalendars(PollerUser[d], PollerPath[d])
           rows == UNION {Contents(c) : c \in own}
           old == find[d]
<1>1. /\ IndInv /\ TypeOK /\ UNCHANGED <<vars, color, known>>
      /\ old \in Find /\ known[d] \in Known /\ old # NoFind /\ old.pc = "objects"
  <2>1. old.pc = "objects" /\ UNCHANGED <<vars, color, known>>
    BY DEF ListObjects
  <2>2. old # NoFind
    BY <2>1 DEF NoFind
  <2>. QED  BY <2>1, <2>2 DEF PfInv, IndInv, PropfindTypeOK
<1>2. FindInv(d) /\ KnownInv(d)
  BY DEF PfInv
<1>3. /\ known[d].listing /\ old.todo = <<cp>>
      /\ old.inner = <<Response(cp, old.asked, CalendarHas)>>
      /\ "getetag" \in ToSet(old.asked) /\ old.asked \in Seq(STRING)
  BY <1>1, <1>2 DEF FindInv, Stage, Find
<1>4. old.cal = NoRow
  <2>1. cp \in ToSet(old.todo)
    BY <1>3 DEF ToSet
  <2>. QED  BY <1>1, <1>2, <2>1 DEF FindInv, TokenRead
<1>5. PICK order \in SetToSeqs(rows) :
         LET body == old.inner \o
                [i \in DOMAIN order |->
                    Response(order[i].path, old.asked, ObjectHas(order[i]))]
         IN  find' = [find EXCEPT ![d].pc = "token", ![d].inner = body,
                                  ![d].body = Cleaned(body)]
  BY DEF ListObjects
<1> DEFINE inner == old.inner \o
                [i \in DOMAIN order |->
                    Response(order[i].path, old.asked, ObjectHas(order[i]))]
           body == Cleaned(inner)
           f == [old EXCEPT !.pc = "token", !.inner = inner, !.body = body]
<1>6. rows \subseteq [path : ObjPaths, data : Data] /\ IsFiniteSet(rows)
  <2>1. own \subseteq Live
    BY DEF OwnCalendars, CalendarsAt
  <2>. QED  BY <1>1, <2>1, ContentsType, ContentsFinite
<1> HIDE DEF rows
<1>7. order \in Seq(rows) /\ ToSet(order) = rows
  BY <1>6, OrdersOfSet
<1>8. cp \in CalTexts /\ cp \notin ObjPaths /\ ObjPaths \cap CalTexts = {} /\ cp \in Hrefs
  BY CalendarHrefs
<1>9. /\ inner \in Seq(ResponseSet) /\ body \in Seq(ResponseSet)
      /\ DOMAIN body = DOMAIN inner /\ 1 \in DOMAIN inner
      /\ body[1] = CalResponse(cp, old.asked)
      /\ \A i \in DOMAIN inner : i # 1 =>
            /\ body[i].href \in ObjPaths
            /\ "supported-report-set" \notin NamesIn(body[i].found \cup body[i].missing)
      /\ ListedIn(body) = rows
  <2>1. inner = ListingOf(cp, old.asked, order)
    BY <1>3 DEF ListingOf
  <2> HIDE DEF inner, cp, old
  <2>2. ListsRows(inner, body, cp, old.asked, rows)
    BY <1>3, <1>6, <1>7, <1>8, <2>1, ListingBody
  <2> HIDE DEF body
  <2>. QED  BY <2>2 DEF ListsRows
<1>10. find' = [find EXCEPT ![d] = f]
  BY <1>1, <1>5 DEF PfInv, PropfindTypeOK
<1> HIDE DEF inner
<1>11. /\ DOMAIN inner = DOMAIN body
       /\ \A i \in DOMAIN body :
            /\ inner[i].href = body[i].href
            /\ inner[i].found \subseteq body[i].found
            /\ \A m \in Offered : Prop(m, NoValue) \notin body[i].missing
  BY <1>9, CleanedEdits
<1> HIDE DEF body
<1>12. NothingInjected(body[1], cp, old.asked)
  BY <1>3, <1>8, <1>9, CalResponseShape
<1>13. /\ f \in Find /\ f # NoFind /\ f.pc = "token" /\ f.asked = old.asked
       /\ f.todo = <<cp>> /\ f.cal = NoRow /\ f.inner = inner /\ f.body = body
  BY <1>1, <1>3, <1>4, <1>9 DEF Find, NoFind
<1>14. find'[d] = f /\ known' = known
  BY <1>1, <1>10 DEF PfInv, PropfindTypeOK
<1> HIDE DEF f
<1>15. body[1].href = cp /\ \A i \in DOMAIN body : body[i].href = cp => i = 1
  BY <1>8, <1>9, <1>12 DEF NothingInjected
<1>16. TodoUntouched(f)
  <2>1. \A i, j \in DOMAIN body : body[i].href \in CalTexts /\ body[i].href = body[j].href => i = j
    BY <1>8, <1>9
  <2>2. \A i \in DOMAIN body : body[i].href \in ToSet(f.todo) =>
           body[i] = CalResponse(body[i].href, old.asked)
    BY <1>9, <1>13, <1>15 DEF ToSet
  <2>3. \A k \in DOMAIN f.todo : \E i \in DOMAIN body : body[i].href = f.todo[k]
    BY <1>9, <1>13, <1>15
  <2>4. \A k, l \in DOMAIN f.todo : f.todo[k] = f.todo[l] => k = l
    BY <1>13
  <2>. QED  BY <1>13, <2>1, <2>2, <2>3, <2>4 DEF TodoUntouched
<1>17. TodoUntouched(find[d])'
  BY <1>14, <1>16 DEF TodoUntouched
<1>18. Stage(d)' /\ TokenRead(d)'
  BY <1>3, <1>13, <1>14 DEF Stage, TokenRead
<1>19. EditsRight(d)'
  BY <1>11, <1>13, <1>14 DEF EditsRight
<1>20. InjectedSoFar(d)'
  <2>1. \A i \in DOMAIN body :
           "supported-report-set" \notin NamesIn(body[i].found \cup body[i].missing)
    BY <1>9, <1>12 DEF NothingInjected
  <2>2. HrefText[PollerPath[d]] \in ToSet(f.todo)
    BY <1>13 DEF ToSet
  <2>. QED  BY <1>13, <1>14, <2>1, <2>2 DEF InjectedSoFar
<1>21. ListedRight(d)'
  <2>1. Live' = Live /\ (\A c : Contents(c)' = Contents(c)) /\ calendars' = calendars
    BY <1>1, SameTablesEvolve DEF vars
  <2> SUFFICES ASSUME cp = PollerPath[d],
                      known[d].pending # NoTag, known[d].of \in Live
               PROVE  rows = Contents(known[d].of)
    BY <1>9, <1>13, <1>14, <2>1 DEF ListedRight
  <2>2. known[d].of \in own
    BY <1>2 DEF KnownInv, TagOf, OwnCalendars, CalendarsAt
  <2>3. own = {known[d].of}
    BY <1>1, <2>2, OneOwnCalendar DEF IndInv
  <2>. QED  BY <2>3 DEF rows
<1>22. FindInv(d)'
  BY <1>3, <1>13, <1>14, <1>17, <1>18, <1>19, <1>20, <1>21 DEF FindInv
<1>23. KnownInv(d)'
  BY <1>1, <1>2, <1>14, SameTablesEvolve, KnownUndisturbed, NextIndInv DEF IndInv, vars
<1>24. known' = [known EXCEPT ![d] = known[d]]
  BY <1>14 DEF PfInv, PropfindTypeOK
<1>. QED  BY <1>1, <1>10, <1>13, <1>22, <1>23, <1>24, ClientStep

-----------------------------------------------------------------------------
(* Reading the token and the color of the next calendar, and the injection. *)

\* A step that leaves the body, and what is asked and to do, as they are.
LEMMA SameBody ==
    ASSUME PfInv, NEW d \in Pollers, find[d] # NoFind, NEW f \in Find,
           f.asked = find[d].asked, f.todo = find[d].todo,
           f.inner = find[d].inner, f.body = find[d].body,
           find' = [find EXCEPT ![d] = f], UNCHANGED <<vars, color, known>>,
           f.pc # "objects", f.pc = "color" => f.todo # <<>>, f.pc = "answer" => f.todo = <<>>,
           find[d].pc # "objects",
           f.cal # find[d].cal => HrefText[PollerPath[d]] \in ToSet(f.todo),
           TokenRead(d)'
    PROVE  PfInv'
<1> DEFINE old == find[d]
<1>1. FindInv(d) /\ KnownInv(d) /\ TypeOK /\ known' = known /\ find'[d] = f
  BY DEF PfInv, IndInv, PropfindTypeOK
<1>2. known[d] \in Known /\ known' = [known EXCEPT ![d] = known[d]]
  BY <1>1 DEF PfInv, PropfindTypeOK
<1>3. /\ Live' = Live /\ (\A c : Contents(c)' = Contents(c))
      /\ UNCHANGED <<calendars, nextCal>>
  BY <1>1, SameTablesEvolve DEF vars
<1>4. (TodoUntouched(find[d]) /\ EditsRight(d))'
  BY <1>1 DEF FindInv, TodoUntouched, EditsRight
<1>5. Stage(d)'
  BY <1>1 DEF FindInv, Stage
<1>6. InjectedSoFar(d)'
  <2>1. InjectedSoFar(d)
    BY <1>1 DEF FindInv
  <2>2. CASE f.cal = old.cal
    BY <1>1, <2>1, <2>2 DEF InjectedSoFar
  <2>3. CASE HrefText[PollerPath[d]] \in ToSet(f.todo)
    BY <1>1, <2>1, <2>3 DEF InjectedSoFar
  <2>. QED  BY <2>2, <2>3
<1>7. ASSUME ~known[d].listing
      PROVE  (TodoFollows(find[d]) /\ TagsInjected(d))'
  <2>1. TodoFollows(find[d]) /\ TagsInjected(d) /\ TodoUntouched(find[d])
    BY <1>1, <1>7 DEF FindInv
  <2>2. TodoFollows(find[d])'
    BY <1>1, <2>1 DEF TodoFollows
  <2>3. CASE f.cal = old.cal
    <3>1. TagsInjected(d)'
      BY <1>1, <1>3, <2>1, <2>3 DEF TagsInjected, TagOf
    <3>. QED  BY <2>2, <3>1
  <2>4. CASE HrefText[PollerPath[d]] \in ToSet(f.todo)
    <3>1. old \in Find
      BY DEF PfInv, PropfindTypeOK
    <3>2. HrefText[PollerPath[d]] \in Hrefs /\ old.asked \in Seq(STRING)
      BY <3>1, CalendarHrefs DEF Find
    <3>3. ASSUME NEW i \in DOMAIN old.body, old.body[i].href = HrefText[PollerPath[d]]
          PROVE  ValuesOf(old.body[i].found, "getctag") = {}
      <4>1. old.body[i] = CalResponse(HrefText[PollerPath[d]], old.asked)
        BY <2>1, <2>4, <3>3 DEF TodoUntouched
      <4>. QED  BY <3>2, <4>1, CalResponseShape DEF NothingInjected
    <3>4. TagsInjected(d)'
      BY <1>1, <3>3 DEF TagsInjected
    <3>. QED  BY <2>2, <3>4
  <2>. QED  BY <2>2, <2>3, <2>4
<1>8. ASSUME known[d].listing
      PROVE  ListedRight(d)'
  BY <1>1, <1>3, <1>8 DEF FindInv, ListedRight
<1>9. FindInv(d)'
  <2>1. f # NoFind
    <3>1. f.pc \in {"objects", "token", "color", "answer"}
      BY DEF Find
    <3>. QED  BY <3>1 DEF NoFind
  <2>. QED  BY <1>1, <1>4, <1>5, <1>6, <1>7, <1>8, <2>1 DEF FindInv
<1>10. KnownInv(d)'
  BY <1>1, <1>2, SameTablesEvolve, KnownUndisturbed, NextIndInv DEF PfInv, IndInv, vars
<1>. QED  BY <1>1, <1>2, <1>9, <1>10, ClientStep

LEMMA ReadTokenInv ==
    ASSUME PfInv, NEW d \in Pollers, ReadToken(d)
    PROVE  PfInv'
<1> DEFINE old == find[d]
           own == OwnCalendars(PollerUser[d], old.todo[1])
           mine == Head(old.todo) = HrefText[PollerPath[d]]
<1>1. /\ old \in Find /\ old # NoFind /\ old.pc = "token" /\ old.todo # <<>>
      /\ FindInv(d) /\ TypeOK /\ UNCHANGED <<vars, color, known>>
      /\ find \in [Pollers -> Find \cup {NoFind}]
  <2>1. old.pc = "token" /\ old.todo # <<>> /\ UNCHANGED <<vars, color, known>>
    BY DEF ReadToken, Href
  <2>2. old # NoFind
    BY <2>1 DEF NoFind
  <2>. QED  BY <2>1, <2>2 DEF PfInv, IndInv, PropfindTypeOK
<1>2. old.todo \in Seq(CalTexts) /\ Head(old.todo) = old.todo[1] /\ 1 \in DOMAIN old.todo
  BY <1>1 DEF Find
<1>3. TokenRead(d) /\ TodoUntouched(old)
  BY <1>1 DEF FindInv
<1>4. mine => HrefText[PollerPath[d]] \in ToSet(old.todo)
  BY <1>2 DEF ToSet
<1>5. HrefText[PollerPath[d]] \in ToSet(old.todo) => old.cal = NoRow
  BY <1>1, <1>3 DEF TokenRead
<1>6. ASSUME NEW c \in Nat, NEW t \in Nat \cup {NoTag},
             find' = [find EXCEPT ![d].pc = "color", ![d].token = t, ![d].cal = c],
             ~mine => c = old.cal,
             mine => (c = NoRow <=> t = NoTag) /\ (c # NoRow => TagOf(d, c, t))
      PROVE  PfInv'
  <2> DEFINE f == [old EXCEPT !.pc = "color", !.token = t, !.cal = c]
  <2>1. find' = [find EXCEPT ![d] = f]
    BY <1>1, <1>6
  <2>2. /\ f \in Find /\ f.pc = "color" /\ f.token = t /\ f.cal = c /\ f.asked = old.asked
        /\ f.todo = old.todo /\ f.inner = old.inner /\ f.body = old.body
    BY <1>1 DEF Find
  <2> HIDE DEF f
  <2>3. find'[d] = f /\ UNCHANGED <<calendars, nextCal>> /\ Live' = Live
    BY <1>1, <2>1 DEF vars, Live
  <2>4. TokenRead(d)'
    BY <1>5, <1>6, <2>2, <2>3 DEF TokenRead, TagOf
  <2>. QED  BY <1>1, <1>4, <1>6, <2>1, <2>2, <2>4, SameBody
<1>7. CASE own = {} /\ find' = [find EXCEPT ![d].pc = "color", ![d].token = NoTag]
  <2>1. find' = [find EXCEPT ![d].pc = "color", ![d].token = NoTag, ![d].cal = old.cal]
    BY <1>1, <1>7 DEF Find
  <2>2. old.cal \in Nat
    BY <1>1 DEF Find
  <2>. QED  BY <1>4, <1>5, <1>6, <2>1, <2>2
<1>8. ASSUME NEW c \in own,
             find' = [find EXCEPT ![d].pc = "color", ![d].token = calendars[c].token,
                         ![d].cal = IF mine THEN c ELSE @]
      PROVE  PfInv'
  <2> DEFINE k == IF mine THEN c ELSE old.cal
  <2>1. /\ c \in Live /\ c \in 1 .. nextCal - 1 /\ c # NoRow /\ c \in Nat
        /\ calendars[c].token \in Nat /\ calendars[c].token # NoTag
        /\ calendars[c].path = old.todo[1] /\ calendars[c].user = PollerUser[d]
    BY <1>1, TokensInNat DEF OwnCalendars, CalendarsAt, NoRow, NoTag
  <2>2. find' = [find EXCEPT ![d].pc = "color", ![d].token = calendars[c].token, ![d].cal = k]
    BY <1>8
  <2>3. k \in Nat
    BY <1>1, <2>1 DEF Find
  <2>4. mine => TagOf(d, c, calendars[c].token)
    BY <1>2, <2>1 DEF TagOf
  <2>. QED  BY <1>6, <2>1, <2>2, <2>3, <2>4
<1>. QED  BY <1>7, <1>8 DEF ReadToken, Href

LEMMA NoneToInjectInv ==
    ASSUME PfInv, NEW d \in Pollers, NoneToInject(d)
    PROVE  PfInv'
<1> DEFINE old == find[d]
           f == [old EXCEPT !.pc = "answer"]
<1>1. /\ old.pc = "token" /\ old.todo = <<>> /\ UNCHANGED <<vars, color, known>>
      /\ find \in [Pollers -> Find \cup {NoFind}]
      /\ find' = [find EXCEPT ![d].pc = "answer"]
  BY DEF NoneToInject, PfInv, PropfindTypeOK
<1>2. old # NoFind /\ old \in Find
  <2>1. old # NoFind
    BY <1>1 DEF NoFind
  <2>. QED  BY <1>1, <2>1
<1>3. /\ f \in Find /\ f.pc = "answer" /\ f.token = old.token /\ f.cal = old.cal
      /\ f.asked = old.asked /\ f.todo = old.todo
      /\ f.inner = old.inner /\ f.body = old.body
  BY <1>2 DEF Find
<1>4. find' = [find EXCEPT ![d] = f]
  BY <1>1
<1> HIDE DEF f
<1>5. TokenRead(d)'
  <2>1. find'[d] = f
    BY <1>1, <1>4
  <2>2. HrefText[PollerPath[d]] \notin ToSet(f.todo)
    BY <1>1, <1>3 DEF ToSet
  <2>. QED  BY <1>3, <2>1, <2>2 DEF TokenRead
<1>. QED  BY <1>1, <1>2, <1>3, <1>4, <1>5, SameBody

\* What is injected: each property once, with a value.
OnceEach(props, token) ==
    /\ props \in SUBSET FoundProp
    /\ "supported-report-set" \in NamesIn(props)
    /\ ValuesOf(props, "getctag") = IF token = NoTag THEN {} ELSE {token}
    /\ ValuesOf(props, "getetag") = {}
    /\ \A n : Prop(n, NoValue) \notin props

LEMMA InjectedProps ==
    ASSUME NEW token \in Nat \cup {NoTag}, NEW colors \in SUBSET (Colors \cup {NoColor})
    PROVE  OnceEach(Injected(token, colors), token)
<1> DEFINE props == Injected(token, colors)
<1>1. \A x \in props : \/ /\ x.name \in {"sync-token", "getctag"}
                          /\ x.value = token /\ token \in Nat
                          /\ x = Prop(x.name, x.value)
                       \/ /\ x.name = "calendar-color" /\ x.value \in Colors
                          /\ x = Prop(x.name, x.value)
                       \/ x = Prop("supported-report-set", AnyValue)
  <2>1. \A m : Prop(m, token).name = m /\ Prop(m, token).value = token
    BY DEF Prop
  <2>2. \A v : Prop("calendar-color", v).name = "calendar-color" /\ Prop("calendar-color", v).value = v
    BY DEF Prop
  <2>. QED  BY <2>1, <2>2 DEF Injected
<1>2. props \in SUBSET FoundProp
  BY <1>1 DEF FoundProp, Prop
<1>3. Prop("supported-report-set", AnyValue) \in props
  BY DEF Injected
<1>4. "supported-report-set" \in NamesIn(props)
  BY <1>3 DEF NamesIn, Prop
<1>5. \A x \in props : /\ x.name = "getctag" => x.value = token /\ token # NoTag
                       /\ x.name # "getetag"
  <2>1. NoTag \notin Nat
    BY DEF NoTag
  <2>. QED  BY <1>1, <2>1 DEF Prop
<1>6. ASSUME token # NoTag
      PROVE  \E x \in props : x.name = "getctag" /\ x.value = token
  <2>1. Prop("getctag", token) \in props
    BY <1>6 DEF Injected
  <2>. QED  BY <2>1 DEF Prop
<1>7. ValuesOf(props, "getctag") = IF token = NoTag THEN {} ELSE {token}
  BY <1>5, <1>6 DEF ValuesOf
<1>8. ValuesOf(props, "getetag") = {}
  BY <1>5 DEF ValuesOf
<1>9. \A x \in props : x.value # NoValue
  BY <1>1, ValuesAssumption DEF Prop
<1>10. \A n : Prop(n, NoValue) \notin props
  BY <1>9 DEF Prop
<1>. QED  BY <1>2, <1>4, <1>7, <1>8, <1>10 DEF OnceEach

\* The edit of a body in which the calendar's response is the next to do: that
\* one grows, or one that is not to do.
GrowsAt(f, b, here, t, props) ==
    /\ f.body[here] = CalResponse(Head(f.todo), f.asked)
    /\ f.body[here].href = Head(f.todo)
    /\ \A i \in DOMAIN f.body : f.body[i].href = Head(f.todo) => i = here
    /\ \A i \in DOMAIN f.body \ {t} : b[i] = f.body[i]
    /\ Grown(f.body[t], b[t], props)
    /\ t # here => here < t /\ f.body[t].href \notin ToSet(f.todo)
    /\ AsksResourceTypeFirst(f.asked) =>
          /\ t = here
          /\ b[t].found = f.body[t].found \cup props
          /\ b[t].missing = f.body[t].missing

NextGrows(f, b, props) ==
    /\ b \in Seq(ResponseSet) /\ DOMAIN b = DOMAIN f.body
    /\ \E here, t \in DOMAIN f.body : GrowsAt(f, b, here, t, props)

LEMMA NextInjected ==
    ASSUME NEW f \in Find, TodoUntouched(f), f.todo # <<>>, NEW props \in SUBSET FoundProp
    PROVE  NextGrows(f, InjectIntoProps(f.body, Head(f.todo), props), props)
<1> DEFINE body == f.body
           cp   == Head(f.todo)
           b    == InjectIntoProps(f.body, Head(f.todo), props)
<1>1. /\ body \in Seq(ResponseSet) /\ f.asked \in Seq(STRING)
      /\ f.todo \in Seq(CalTexts)
  BY DEF Find
<1>2. /\ 1 \in DOMAIN f.todo /\ cp = f.todo[1] /\ cp \in CalTexts /\ cp \in ToSet(f.todo)
  BY <1>1 DEF ToSet
<1>3. PICK here \in DOMAIN body : body[here].href = cp
  BY <1>2 DEF TodoUntouched
<1>4. \A i \in DOMAIN body : body[i].href = cp => i = here
  BY <1>2, <1>3 DEF TodoUntouched
<1>5. body[here] = CalResponse(cp, f.asked)
  BY <1>2, <1>3 DEF TodoUntouched
<1> HIDE DEF body, cp
<1>6. OneGrown(body, InjectIntoProps(body, cp, props), here, props)
  BY <1>1, <1>3, <1>4, InjectionGrows
<1>7. OneGrown(body, b, here, props)
  BY <1>6 DEF body, cp
<1>8. PICK t \in DOMAIN body :
          /\ \A i \in DOMAIN body \ {t} : b[i] = body[i]
          /\ Grown(body[t], b[t], props)
          /\ t # here => here < t /\ HasProps(body[t]) /\ ~HasProps(body[here])
          /\ FirstIsFound(body[here]) => /\ t = here
                                         /\ b[t].found = body[t].found \cup props
                                         /\ b[t].missing = body[t].missing
  BY <1>7 DEF OneGrown
<1>9. cp \in Hrefs
  BY <1>2 DEF Hrefs
<1>10. ASSUME t # here
       PROVE  body[t].href \notin ToSet(f.todo)
  <2>1. SUFFICES ASSUME body[t].href \in ToSet(f.todo) PROVE FALSE
    OBVIOUS
  <2>2. body[t] = CalResponse(body[t].href, f.asked)
    BY <2>1 DEF TodoUntouched, body
  <2>3. body[t].href \in Hrefs
    BY <1>1, <2>1 DEF ToSet, Hrefs
  <2>. QED  BY <1>1, <1>5, <1>8, <1>9, <1>10, <2>2, <2>3, CalResponsesAlike
<1>11. AsksResourceTypeFirst(f.asked) => FirstIsFound(body[here])
  BY <1>1, <1>5, <1>9, CalResponseShape DEF NothingInjected
<1>12. b \in Seq(ResponseSet) /\ DOMAIN b = DOMAIN body
  BY <1>7 DEF OneGrown
<1> HIDE DEF b
<1>13. GrowsAt(f, b, here, t, props)
  BY <1>3, <1>4, <1>5, <1>8, <1>10, <1>11 DEF body, cp, GrowsAt
<1>14. NextGrows(f, b, props)
  BY <1>12, <1>13 DEF body, NextGrows
<1>. QED  BY <1>14 DEF b

LEMMA ReadColorInv ==
    ASSUME PfInv, NEW d \in Pollers, ReadColor(d)
    PROVE  PfInv'
<1> DEFINE old   == find[d]
           cp    == Head(old.todo)
           extra == GetCalendarExtra(PollerUser[d], cp)
           props == Injected(old.token, extra)
           b     == InjectIntoProps(old.body, cp, props)
           pc    == IF Tail(old.todo) = <<>> THEN "answer" ELSE "token"
           f     == [old EXCEPT !.pc = pc, !.todo = Tail(@), !.body = b]
<1>1. /\ old \in Find /\ old # NoFind /\ old.pc = "color"
      /\ FindInv(d) /\ KnownInv(d) /\ TypeOK /\ UNCHANGED <<vars, color, known>>
      /\ find \in [Pollers -> Find \cup {NoFind}]
      /\ known[d] \in Known /\ known' = [known EXCEPT ![d] = known[d]]
  <2>1. old.pc = "color" /\ UNCHANGED <<vars, color, known>>
    BY DEF ReadColor
  <2>2. old # NoFind
    BY <2>1 DEF NoFind
  <2>. QED  BY <2>1, <2>2 DEF PfInv, IndInv, PropfindTypeOK
<1>2. /\ TodoUntouched(old) /\ Stage(d) /\ TokenRead(d) /\ EditsRight(d) /\ InjectedSoFar(d)
      /\ ~known[d].listing => TodoFollows(old) /\ TagsInjected(d)
      /\ known[d].listing => ListedRight(d)
  BY <1>1 DEF FindInv
<1>3. /\ old.todo # <<>> /\ old.todo \in Seq(CalTexts) /\ old.token \in Nat \cup {NoTag}
      /\ old.asked \in Seq(STRING) /\ old.body \in Seq(ResponseSet)
  BY <1>1, <1>2 DEF Stage, Find
<1>4. extra \in SUBSET (Colors \cup {NoColor})
  BY DEF GetCalendarExtra, OwnCalendars, CalendarsAt, PfInv, PropfindTypeOK
<1> HIDE DEF extra
<1>5. /\ props \in SUBSET FoundProp
      /\ "supported-report-set" \in NamesIn(props)
      /\ ValuesOf(props, "getctag") = IF old.token = NoTag THEN {} ELSE {old.token}
      /\ ValuesOf(props, "getetag") = {}
      /\ \A n : Prop(n, NoValue) \notin props
  <2>1. OnceEach(props, old.token)
    BY <1>3, <1>4, InjectedProps
  <2> HIDE DEF props
  <2>. QED  BY <2>1 DEF OnceEach
<1>6. find' = [find EXCEPT ![d] = f]
  BY <1>1 DEF ReadColor, extra
<1> HIDE DEF props
<1>7. /\ b \in Seq(ResponseSet) /\ DOMAIN b = DOMAIN old.body
      /\ \E here, t \in DOMAIN old.body : GrowsAt(old, b, here, t, props)
  <2>1. NextGrows(old, b, props)
    BY <1>1, <1>2, <1>3, <1>5, NextInjected
  <2>. QED  BY <2>1 DEF NextGrows
<1>8. PICK here \in DOMAIN old.body, t \in DOMAIN old.body :
         /\ old.body[here] = CalResponse(cp, old.asked)
         /\ old.body[here].href = cp
         /\ \A i \in DOMAIN old.body : old.body[i].href = cp => i = here
         /\ \A i \in DOMAIN old.body \ {t} : b[i] = old.body[i]
         /\ Grown(old.body[t], b[t], props)
         /\ t # here => here < t /\ old.body[t].href \notin ToSet(old.todo)
         /\ AsksResourceTypeFirst(old.asked) =>
               /\ t = here
               /\ b[t].found = old.body[t].found \cup props
               /\ b[t].missing = old.body[t].missing
  BY <1>7 DEF GrowsAt
<1> HIDE DEF b
<1>9. \A i \in DOMAIN old.body : Grown(old.body[i], b[i], props)
  BY <1>8 DEF Grown
<1>10. NothingInjected(old.body[here], cp, old.asked)
  <2>1. cp \in Hrefs
    BY <1>3 DEF Hrefs
  <2>. QED  BY <1>3, <1>8, <2>1, CalResponseShape
<1>11. /\ Tail(old.todo) \in Seq(CalTexts)
       /\ \A k \in DOMAIN Tail(old.todo) : /\ k + 1 \in DOMAIN old.todo
                                           /\ Tail(old.todo)[k] = old.todo[k + 1]
       /\ \A k \in DOMAIN old.todo : k # 1 => /\ k - 1 \in DOMAIN Tail(old.todo)
                                              /\ Tail(old.todo)[k - 1] = old.todo[k]
       /\ 1 \in DOMAIN old.todo /\ cp = old.todo[1]
       /\ DOMAIN old.todo \subseteq Nat /\ DOMAIN Tail(old.todo) \subseteq Nat
  BY <1>3
<1>12. \A k, l \in DOMAIN old.todo : old.todo[k] = old.todo[l] => k = l
  BY <1>2 DEF TodoUntouched
<1>13. ToSet(Tail(old.todo)) = ToSet(old.todo) \ {cp} /\ cp \in ToSet(old.todo)
  <2>1. ASSUME NEW x
        PROVE  x \in ToSet(Tail(old.todo)) <=> x \in ToSet(old.todo) \ {cp}
    <3>1. ASSUME x \in ToSet(Tail(old.todo))
          PROVE  x \in ToSet(old.todo) \ {cp}
      <4>1. PICK k \in DOMAIN Tail(old.todo) : x = old.todo[k + 1] /\ k + 1 \in DOMAIN old.todo
        BY <1>11, <3>1 DEF ToSet
      <4>2. k + 1 # 1
        BY <1>3, <4>1
      <4>. QED  BY <1>11, <1>12, <4>1, <4>2 DEF ToSet
    <3>2. ASSUME x \in ToSet(old.todo) \ {cp}
          PROVE  x \in ToSet(Tail(old.todo))
      <4>1. PICK k \in DOMAIN old.todo : x = old.todo[k] /\ k # 1
        BY <1>11, <3>2 DEF ToSet
      <4>. QED  BY <1>11, <4>1 DEF ToSet
    <3>. QED  BY <3>1, <3>2
  <2>2. cp \in ToSet(old.todo)
    BY <1>11 DEF ToSet
  <2>. QED  BY <2>1, <2>2
<1>14. /\ f \in Find /\ f # NoFind /\ f.pc = pc /\ f.token = old.token /\ f.cal = old.cal
       /\ f.asked = old.asked /\ f.inner = old.inner /\ f.body = b
       /\ f.todo = Tail(old.todo)
       /\ pc \in {"answer", "token"} /\ (pc = "answer" => Tail(old.todo) = <<>>)
  BY <1>1, <1>7, <1>11 DEF Find, NoFind
<1>15. find'[d] = f /\ known' = known
  BY <1>1, <1>6
<1> HIDE DEF f, pc
<1>16. /\ Live' = Live /\ (\A c : Contents(c)' = Contents(c))
       /\ UNCHANGED <<calendars, nextCal>>
  BY <1>1, SameTablesEvolve DEF vars
<1>17. \A i \in DOMAIN old.body : b[i].href = old.body[i].href
  BY <1>9 DEF Grown
<1>18. TodoUntouched(f)
  <2>1. \A i, j \in DOMAIN b : b[i].href \in CalTexts /\ b[i].href = b[j].href => i = j
    BY <1>2, <1>7, <1>17 DEF TodoUntouched
  <2>2. ASSUME NEW i \in DOMAIN b, b[i].href \in ToSet(Tail(old.todo))
        PROVE  b[i] = CalResponse(b[i].href, old.asked)
    <3>1. old.body[i].href \in ToSet(old.todo) /\ old.body[i].href # cp
      BY <1>7, <1>13, <1>17, <2>2
    <3>2. i # t
      BY <1>8, <3>1
    <3>. QED  BY <1>2, <1>7, <1>8, <3>1, <3>2 DEF TodoUntouched
  <2>3. \A k \in DOMAIN Tail(old.todo) : \E i \in DOMAIN b : b[i].href = Tail(old.todo)[k]
    BY <1>2, <1>7, <1>11, <1>17 DEF TodoUntouched
  <2>4. \A k, l \in DOMAIN Tail(old.todo) : Tail(old.todo)[k] = Tail(old.todo)[l] => k = l
    <3> SUFFICES ASSUME NEW k \in DOMAIN Tail(old.todo), NEW l \in DOMAIN Tail(old.todo),
                        Tail(old.todo)[k] = Tail(old.todo)[l]
                 PROVE  k = l
      OBVIOUS
    <3>1. k + 1 = l + 1
      BY <1>11, <1>12
    <3>. QED  BY <1>11, <3>1
  <2> HIDE DEF old
  <2>. QED  BY <1>14, <2>1, <2>2, <2>3, <2>4 DEF TodoUntouched
<1>19. Stage(d)'
  BY <1>2, <1>14, <1>15 DEF Stage
<1>20. TokenRead(d)'
  <2> SUFFICES ASSUME HrefText[PollerPath[d]] \in ToSet(Tail(old.todo))
               PROVE  old.cal = NoRow
    BY <1>14, <1>15 DEF TokenRead
  <2>. QED  BY <1>2, <1>13 DEF TokenRead
<1>21. EditsRight(d)'
  <2> SUFFICES /\ DOMAIN old.inner = DOMAIN b
               /\ \A i \in DOMAIN b :
                     /\ old.inner[i].href = b[i].href
                     /\ old.inner[i].found \subseteq b[i].found
                     /\ \A n \in Offered : Prop(n, NoValue) \notin b[i].missing
    BY <1>14, <1>15 DEF EditsRight
  <2>. QED  BY <1>2, <1>5, <1>7, <1>9 DEF EditsRight, Grown
<1>22. InjectedSoFar(d)'
  <2> SUFFICES ASSUME AsksResourceTypeFirst(old.asked), NEW i \in DOMAIN b
               PROVE  /\ b[i].href \notin CalTexts =>
                            "supported-report-set" \notin NamesIn(b[i].found \cup b[i].missing)
                      /\ b[i].href = HrefText[PollerPath[d]] /\ HrefText[PollerPath[d]] \notin ToSet(Tail(old.todo)) =>
                            /\ "supported-report-set" \in NamesIn(b[i].found)
                            /\ old.cal # NoRow =>
                                  Cardinality(ValuesOf(b[i].found, "getctag")) = 1
    BY <1>14, <1>15 DEF InjectedSoFar
  <2>1. CASE i # here
    <3>1. b[i] = old.body[i] /\ i \in DOMAIN old.body
      BY <1>7, <1>8, <2>1
    <3>2. b[i].href # cp
      BY <1>8, <2>1, <3>1
    <3>. QED  BY <1>2, <1>13, <3>1, <3>2 DEF InjectedSoFar
  <2>2. CASE i = here
    <3>1. /\ b[i].found = old.body[i].found \cup props
          /\ b[i].href = cp /\ cp \in CalTexts
      BY <1>8, <1>11, <1>3, <1>17, <2>2
    <3>2. "supported-report-set" \in NamesIn(b[i].found)
      BY <1>5, <3>1 DEF NamesIn
    <3>3. ASSUME cp = HrefText[PollerPath[d]], old.cal # NoRow
          PROVE  Cardinality(ValuesOf(b[i].found, "getctag")) = 1
      <4>1. old.token # NoTag
        BY <1>1, <1>2, <3>3 DEF TokenRead
      <4>2. ValuesOf(b[i].found, "getctag") =
               ValuesOf(old.body[i].found, "getctag") \cup ValuesOf(props, "getctag")
        BY <3>1 DEF ValuesOf
      <4>3. ValuesOf(b[i].found, "getctag") = {old.token}
        BY <1>5, <1>10, <2>2, <4>1, <4>2 DEF NothingInjected
      <4>. QED  BY <4>3, FS_Singleton
    <3>. QED  BY <3>1, <3>2, <3>3
  <2>. QED  BY <2>1, <2>2
<1>23. ASSUME ~known[d].listing
       PROVE  (TodoFollows(find[d]) /\ TagsInjected(d))'
  <2>1. TodoFollows(old) /\ TagsInjected(d)
    BY <1>2, <1>23
  <2>2. t = here
    <3>1. SUFFICES ASSUME t # here PROVE FALSE
      OBVIOUS
    <3>2. here <= t /\ old.body[t].href \notin ToSet(old.todo)
      BY <1>3, <1>8, <3>1
    <3>3. \E l \in DOMAIN old.todo : old.body[t].href = old.todo[l]
      BY <1>8, <1>11, <2>1, <3>2 DEF TodoFollows
    <3>. QED  BY <3>2, <3>3 DEF ToSet
  <2>3. TodoFollows(f)
    <3> SUFFICES ASSUME NEW i \in DOMAIN b, NEW j \in DOMAIN b,
                        NEW k \in DOMAIN Tail(old.todo), b[i].href = Tail(old.todo)[k], i <= j
                 PROVE  \E l \in DOMAIN Tail(old.todo) :
                           k <= l /\ b[j].href = Tail(old.todo)[l]
      <4> HIDE DEF old
      <4>. QED  BY <1>14 DEF TodoFollows
    <3>1. k + 1 \in DOMAIN old.todo /\ old.body[i].href = old.todo[k + 1]
      BY <1>7, <1>11, <1>17
    <3>2. PICK l \in DOMAIN old.todo : k + 1 <= l /\ old.body[j].href = old.todo[l]
      BY <1>7, <2>1, <3>1 DEF TodoFollows
    <3>3. k \in Nat /\ l \in Nat /\ k >= 1
      BY <1>3, <1>11
    <3>4. k <= l - 1 /\ l # 1
      BY <3>2, <3>3
    <3>5. l - 1 \in DOMAIN Tail(old.todo) /\ Tail(old.todo)[l - 1] = old.todo[l]
      BY <1>11, <3>4
    <3>6. b[j].href = old.todo[l]
      BY <1>7, <1>17, <3>2
    <3>. QED  BY <3>4, <3>5, <3>6
  <2>4. ASSUME NEW i \in DOMAIN b, b[i].href = HrefText[PollerPath[d]],
               NEW v \in ValuesOf(b[i].found, "getctag")
        PROVE  TagOf(d, old.cal, v)
    <3>1. CASE i # here
      BY <1>7, <1>8, <2>1, <2>2, <2>4, <3>1 DEF TagsInjected
    <3>2. CASE i = here
      <4>1. cp = HrefText[PollerPath[d]]
        BY <1>8, <1>17, <2>4, <3>2
      <4>2. v \in ValuesOf(old.body[i].found, "getctag") \cup ValuesOf(props, "getctag")
        BY <1>7, <1>9, <2>4 DEF Grown, ValuesOf
      <4>3. v = old.token /\ old.token # NoTag
        BY <1>5, <1>10, <3>2, <4>2 DEF NothingInjected
      <4>. QED  BY <1>1, <1>2, <4>1, <4>3 DEF TokenRead
    <3>. QED  BY <3>1, <3>2
  <2>5. TagsInjected(d)'
    BY <1>14, <1>15, <1>16, <2>4 DEF TagsInjected, TagOf
  <2>6. TodoFollows(find[d])'
    BY <1>15, <2>3 DEF TodoFollows
  <2>. QED  BY <2>5, <2>6
<1>24. ASSUME known[d].listing
       PROVE  ListedRight(d)'
  <2>1. ListedRight(d)
    BY <1>2, <1>24
  <2>2. \A i \in DOMAIN old.body :
           /\ b[i].href = old.body[i].href
           /\ ValuesOf(b[i].found, "getetag") = ValuesOf(old.body[i].found, "getetag")
    BY <1>5, <1>9 DEF Grown, ValuesOf
  <2>3. ListedIn(b) = ListedIn(old.body)
    BY <1>7, <2>2, SameTagsSameListing
  <2>. QED  BY <1>14, <1>15, <1>16, <2>1, <2>3 DEF ListedRight
<1>25. FindInv(d)'
  <2>1. TodoUntouched(find[d])'
    BY <1>15, <1>18 DEF TodoUntouched
  <2>. QED  BY <2>1, <1>14, <1>15, <1>18, <1>19, <1>20, <1>21, <1>22, <1>23, <1>24 DEF FindInv
<1>26. KnownInv(d)'
  BY <1>1, <1>15, SameTablesEvolve, KnownUndisturbed, NextIndInv DEF PfInv, IndInv, vars
<1>. QED  BY <1>1, <1>6, <1>14, <1>25, <1>26, ClientStep

-----------------------------------------------------------------------------
(* The client.                                                             *)

LEMMA FoundElements ==
    ASSUME NEW body, NEW href, NEW x
    PROVE  x \in FoundFor(body, href) <=>
              \E i \in DOMAIN body : body[i].href = href /\ x \in body[i].found
  BY DEF FoundFor, ToSet

LEMMA GetPollInv ==
    ASSUME PfInv, NEW d \in Pollers, GetPoll(d)
    PROVE  PfInv'
<1> DEFINE old   == find[d]
           props == FoundFor(old.body, HrefText[PollerPath[d]])
           tag   == TagIn(props)
           hue   == ColorIn(props)
           k     == IF props = {} THEN Unknown
                    ELSE [known[d] EXCEPT !.color   = hue,
                                          !.listing = (tag = NoTag \/ tag # known[d].ctag),
                                          !.pending = tag,
                                          !.of      = old.cal]
<1>1. /\ old \in Find /\ old # NoFind /\ ~known[d].listing
      /\ FindInv(d) /\ KnownInv(d) /\ TypeOK /\ UNCHANGED <<vars, color>>
      /\ find' = [find EXCEPT ![d] = NoFind] /\ find'[d] = NoFind
      /\ known[d] \in Known
  <2>1. old.pc = "answer"
    BY DEF GetPoll, Href
  <2>2. old # NoFind
    BY <2>1 DEF NoFind
  <2>. QED  BY <2>1, <2>2 DEF PfInv, IndInv, PropfindTypeOK, GetPoll, Href
<1>2. known' = [known EXCEPT ![d] = k]
  BY DEF GetPoll, Href
<1>3. old.body \in Seq(ResponseSet) /\ old.cal \in Nat
  BY <1>1 DEF Find
<1>4. \A x \in props : x \in FoundProp
  <2> SUFFICES ASSUME NEW x \in props PROVE x \in FoundProp
    OBVIOUS
  <2>1. PICK i \in DOMAIN old.body : x \in old.body[i].found
    BY FoundElements
  <2>2. old.body[i] \in ResponseSet
    BY <1>3
  <2>. QED  BY <2>1, <2>2 DEF ResponseSet
<1>5. tag # NoTag => tag \in Nat /\ TagOf(d, old.cal, tag)
  <2> SUFFICES ASSUME tag # NoTag
               PROVE  tag \in Nat /\ TagOf(d, old.cal, tag)
    OBVIOUS
  <2>1. tag \in ValuesOf(props, "getctag")
    BY DEF TagIn
  <2>2. PICK i \in DOMAIN old.body : /\ old.body[i].href = HrefText[PollerPath[d]]
                                     /\ tag \in ValuesOf(old.body[i].found, "getctag")
    <3>1. PICK x \in props : x.name = "getctag" /\ x.value = tag
      BY <2>1 DEF ValuesOf
    <3>2. PICK i \in DOMAIN old.body : /\ old.body[i].href = HrefText[PollerPath[d]]
                                       /\ x \in old.body[i].found
      BY FoundElements
    <3>. QED  BY <3>1, <3>2 DEF ValuesOf
  <2>3. TagOf(d, old.cal, tag)
    BY <1>1, <2>2 DEF FindInv, TagsInjected
  <2>. QED  BY <2>3 DEF TagOf
<1>6. hue \in Colors \cup {NoColor}
  <2> SUFFICES ASSUME ValuesOf(props, "calendar-color") # {}
               PROVE  hue \in Colors
    BY DEF ColorIn
  <2>1. hue \in ValuesOf(props, "calendar-color")
    BY DEF ColorIn
  <2>2. PICK x \in props : x.name = "calendar-color" /\ x.value = hue
    BY <2>1 DEF ValuesOf
  <2>. QED  BY <1>4, <2>2 DEF FoundProp
<1> HIDE DEF tag, hue, props
<1>7. k \in Known
  <2>1. Unknown \in Known
    BY DEF Unknown, Known, NoRow, NoTag
  <2>2. tag \in Nat \cup {NoTag}
    BY <1>5
  <2>. QED  BY <1>1, <1>3, <1>6, <2>1, <2>2 DEF Known
<1>8. /\ \/ k = Unknown
         \/ /\ k.ctag = known[d].ctag /\ k.cal = known[d].cal /\ k.view = known[d].view
            /\ k.pending = tag /\ k.of = old.cal
  BY <1>1 DEF Known
<1>9. known'[d] = k
  BY <1>1, <1>2 DEF PfInv, PropfindTypeOK
<1> HIDE DEF k
<1>10. /\ Live' = Live /\ (\A c : Contents(c)' = Contents(c))
       /\ UNCHANGED <<calendars, nextCal>> /\ NoRow \notin Live
  BY <1>1, SameTablesEvolve, TokensInNat DEF vars
<1>11. KnownInv(d)'
  <2>1. CASE k = Unknown
    BY <1>9, <1>10, <2>1 DEF KnownInv, Unknown
  <2>2. CASE /\ k.ctag = known[d].ctag /\ k.cal = known[d].cal /\ k.view = known[d].view
             /\ k.pending = tag /\ k.of = old.cal
    BY <1>1, <1>5, <1>9, <1>10, <2>2 DEF KnownInv, TagOf
  <2>. QED  BY <1>8, <2>1, <2>2
<1>12. FindInv(d)'
  BY <1>1 DEF FindInv
<1>. QED  BY <1>1, <1>2, <1>7, <1>11, <1>12, ClientStep

LEMMA GetListingInv ==
    ASSUME PfInv, NEW d \in Pollers, GetListing(d)
    PROVE  PfInv'
<1> DEFINE old == find[d]
           k   == [known[d] EXCEPT !.view = ListedIn(old.body),
                                   !.ctag = known[d].pending, !.cal = known[d].of,
                                   !.pending = NoTag, !.of = NoRow, !.listing = FALSE]
<1>1. /\ old # NoFind /\ old.pc # "objects" /\ known[d].listing
      /\ FindInv(d) /\ KnownInv(d) /\ TypeOK /\ UNCHANGED <<vars, color>>
      /\ find' = [find EXCEPT ![d] = NoFind] /\ find'[d] = NoFind
      /\ known[d] \in Known
  <2>1. old.pc = "answer"
    BY DEF GetListing
  <2>2. old # NoFind
    BY <2>1 DEF NoFind
  <2>. QED  BY <2>1, <2>2 DEF PfInv, IndInv, PropfindTypeOK, GetListing
<1>2. known' = [known EXCEPT ![d] = k]
  BY DEF GetListing
<1>3. ListedIn(old.body) \in SUBSET [path : ObjPaths, data : Data]
  BY ListedElements
<1>4. known'[d] = k
  BY <1>1, <1>2 DEF PfInv, PropfindTypeOK
<1>5. k \in Known
  <2>1. \E f \in BOOLEAN : f = FALSE
    OBVIOUS
  <2>2. PICK f \in BOOLEAN : f = FALSE
    BY <2>1
  <2>3. k = [known[d] EXCEPT !.view = ListedIn(old.body),
                             !.ctag = known[d].pending, !.cal = known[d].of,
                             !.pending = NoTag, !.of = NoRow, !.listing = f]
    BY <2>2
  <2>. QED  BY <1>1, <1>3, <2>3 DEF Known, NoRow, NoTag
<1>6. /\ k.ctag = known[d].pending /\ k.cal = known[d].of
      /\ k.view = ListedIn(old.body) /\ k.pending = NoTag
  BY <1>1 DEF Known
<1> HIDE DEF k
<1>7. /\ Live' = Live /\ (\A c : Contents(c)' = Contents(c))
      /\ UNCHANGED <<calendars, nextCal>>
      /\ \A c \in Live : calendars[c].token # NoTag
  BY <1>1, SameTablesEvolve, TokensInNat DEF vars, NoTag
<1>8. KnownInv(d)'
  <2>1. ListedRight(d)
    BY <1>1 DEF FindInv
  <2>2. ASSUME HrefText[PollerPath[d]] = PollerPath[d],
               k.cal \in Live, k.ctag = calendars[k.cal].token
        PROVE  k.view = Contents(k.cal)
    <3>1. known[d].pending # NoTag
      BY <1>6, <1>7, <2>2
    <3>. QED  BY <1>6, <2>1, <2>2, <3>1 DEF ListedRight
  <2>. QED  BY <1>1, <1>4, <1>6, <1>7, <2>2 DEF KnownInv, TagOf
<1>9. FindInv(d)'
  BY <1>1 DEF FindInv
<1>. QED  BY <1>1, <1>2, <1>5, <1>8, <1>9, ClientStep

-----------------------------------------------------------------------------
(* The theorems.                                                           *)

LEMMA InitPfInv == PropfindInit => PfInv
<1> SUFFICES ASSUME PropfindInit PROVE PfInv
  OBVIOUS
<1>1. IndInv
  BY InitIndInv DEF PropfindInit
<1>2. Live = {}
  BY DEF PropfindInit, Init, Live, EmptyTable
<1>3. Unknown \in Known
  BY DEF Unknown, Known, NoRow, NoTag
<1>4. PropfindTypeOK
  BY <1>1, <1>2, <1>3 DEF PropfindTypeOK, PropfindInit, IndInv
<1>5. \A d \in Pollers : FindInv(d) /\ KnownInv(d)
  BY <1>2 DEF PropfindInit, FindInv, KnownInv, Unknown
<1>. QED  BY <1>1, <1>4, <1>5 DEF PfInv

LEMMA NextPfInv == PfInv /\ [PropfindNext]_pfVars => PfInv'
<1> SUFFICES ASSUME PfInv, [PropfindNext]_pfVars
             PROVE  PfInv'
  OBVIOUS
<1>1. CASE UNCHANGED pfVars
  <2>1. IndInv /\ PropfindTypeOK /\ UNCHANGED <<vars, color, findVars>>
    BY <1>1 DEF PfInv, pfVars
  <2>2. IndInv' /\ TypeOK' /\ StoreEvolves /\ Live' = Live
    BY <2>1, NextIndInv, SameTablesEvolve DEF IndInv, vars
  <2>3. /\ find' \in [Pollers -> Find \cup {NoFind}]
        /\ known' \in [Pollers -> Known]
        /\ \A d \in Pollers : FindInv(d)' /\ KnownInv(d)'
    BY <2>1, <2>2, ClientsUndisturbed
  <2>. QED  BY <2>1, <2>2, <2>3 DEF PfInv, PropfindTypeOK
<1>2. CASE StoreStep
  BY <1>2, StoreStepInv
<1>3. ASSUME NEW p \in Procs, NEW u \in Users, NEW cp \in CalPaths,
             NEW values \in {{}} \cup {{v} : v \in Colors \cup {NoColor}},
             PropPatch(p, u, cp, values)
      PROVE  PfInv'
  BY <1>3, PropPatchInv
<1>4. ASSUME NEW d \in Pollers, Poll(d)
      PROVE  PfInv'
  <2>1. PICK poll \in Polls : FindCalendar(d, poll.asked) \/ FindCalendars(d, poll.asked)
    BY <1>4 DEF Poll
  <2>2. poll.asked \in Seq(STRING) /\ ~known[d].listing
    BY <1>4, PollerAssumption DEF Poll
  <2>. QED  BY <2>1, <2>2, FindCalendarInv, FindCalendarsInv
<1>5. ASSUME NEW d \in Pollers, List(d)
      PROVE  PfInv'
  <2>1. PICK asked \in Lists : FindCalendar(d, asked)
    BY <1>5 DEF List
  <2>2. asked \in Seq(STRING) /\ "getetag" \in ToSet(asked)
    BY PollerAssumption
  <2>. QED  BY <2>1, <2>2, FindCalendarInv
<1>6. ASSUME NEW d \in Pollers, Serve(d) \/ Get(d) \/ FindFail(d)
      PROVE  PfInv'
  BY <1>6, ListObjectsInv, ReadTokenInv, ReadColorInv, NoneToInjectInv, GetPollInv,
     GetListingInv, FindFailInv DEF Serve, Get
<1>. QED  BY <1>1, <1>2, <1>3, <1>4, <1>5, <1>6 DEF PropfindNext

\* What makes the properties inductive holds throughout: the store's invariant
\* next to any number of PROPFINDs and polling clients, and what is known of
\* each statement, edit and client in between.
THEOREM PropfindInductive == PropfindSpec => []PfInv
<1>. QED  BY InitPfInv, NextPfInv, PTL DEF PropfindSpec

\* The clients and the requests in flight keep their types.
THEOREM PropfindTypeCorrect == PropfindSpec => []PropfindTypeOK
<1>1. PfInv => PropfindTypeOK
  BY DEF PfInv
<1>. QED  BY <1>1, PropfindInductive, PTL

\* A client that finds the CTag it knows shows what the calendar shows, whatever
\* was written between the statements of its requests.
THEOREM PollersMissNothing == PropfindSpec => []CtagMissesNothing
<1>1. ASSUME PfInv, NEW d \in Pollers,
             known[d].cal \in OwnCalendars(PollerUser[d], PollerPath[d]),
             known[d].ctag = calendars[known[d].cal].token
      PROVE  known[d].view = Contents(known[d].cal)
  <2>1. KnownInv(d) /\ TypeOK
    BY <1>1 DEF PfInv, IndInv
  <2>2. known[d].cal \in Live /\ calendars[known[d].cal].path = PollerPath[d]
    BY <1>1 DEF OwnCalendars, CalendarsAt
  <2>3. known[d].ctag # NoTag
    BY <1>1, <2>1, <2>2, TokensInNat DEF NoTag
  <2>. QED  BY <1>1, <2>1, <2>2, <2>3 DEF KnownInv, TagOf
<1>2. PfInv => CtagMissesNothing
  BY <1>1 DEF CtagMissesNothing
<1>. QED  BY <1>2, PropfindInductive, PTL

\* The one response for the client's calendar is what it reads.
LEMMA OneResponse ==
    ASSUME NEW f, TodoUntouched(f), NEW i \in DOMAIN f.body, f.body[i].href \in CalTexts
    PROVE  FoundFor(f.body, f.body[i].href) = f.body[i].found
<1>1. {r \in ToSet(f.body) : r.href = f.body[i].href} = {f.body[i]}
  BY DEF TodoUntouched, ToSet
<1>. QED  BY <1>1 DEF FoundFor

\* Sync token, CTag and reports come with status 200, once, in the response of
\* the calendar and in no other, if resourcetype is asked for first: for any
\* list of names and any number of calendars in the home set.
THEOREM InjectedInPlace == PropfindSpec => []InjectedWhereItBelongs
<1>1. ASSUME PfInv, NEW d \in Pollers, find[d].pc = "answer",
             AsksResourceTypeFirst(find[d].asked),
             HrefText[PollerPath[d]] \in {r.href : r \in ToSet(find[d].body)}
      PROVE  InjectedRight(d)
  <2> DEFINE f == find[d]
  <2>1. f # NoFind
    BY <1>1 DEF NoFind
  <2>2. TodoUntouched(f) /\ InjectedSoFar(d) /\ f.todo = <<>>
    BY <1>1, <2>1 DEF PfInv, FindInv, Stage
  <2>3. PICK i \in DOMAIN f.body : f.body[i].href = HrefText[PollerPath[d]]
    BY <1>1 DEF ToSet
  <2>4. HrefText[PollerPath[d]] \in CalTexts /\ HrefText[PollerPath[d]] \notin ToSet(f.todo)
    BY <2>2, CalendarHrefs DEF ToSet
  <2>5. FoundFor(f.body, HrefText[PollerPath[d]]) = f.body[i].found
    BY <2>2, <2>3, <2>4, OneResponse
  <2>6. /\ "supported-report-set" \in NamesIn(f.body[i].found)
        /\ f.cal # NoRow => Cardinality(ValuesOf(f.body[i].found, "getctag")) = 1
    BY <1>1, <2>2, <2>3, <2>4 DEF InjectedSoFar
  <2>7. \A r \in {x \in ToSet(f.body) : x.href \notin CalTexts} :
           "supported-report-set" \notin NamesIn(r.found \cup r.missing)
    BY <1>1, <2>2 DEF InjectedSoFar, ToSet
  <2>. QED  BY <2>5, <2>6, <2>7 DEF InjectedRight, Href
<1>2. PfInv => InjectedWhereItBelongs
  BY <1>1 DEF InjectedWhereItBelongs, Href
<1>. QED  BY <1>2, PropfindInductive, PTL

\* The edits lose nothing that was found, and no property that the handler
\* offers is left without a value, whatever is asked for.
THEOREM EditsLoseNothing == PropfindSpec => []EditsKeepWhatIsFound
<1>1. ASSUME PfInv, NEW d \in Pollers, find[d].pc \in {"token", "color", "answer"},
             NEW r \in ToSet(find[d].inner)
      PROVE  /\ FoundFor(find[d].inner, r.href) \subseteq FoundFor(find[d].body, r.href)
             /\ \A x \in ToSet(find[d].body), n \in Offered :
                   Prop(n, NoValue) \notin x.found \cup x.missing
  <2> DEFINE f == find[d]
  <2>1. f # NoFind
    BY <1>1 DEF NoFind
  <2>2. EditsRight(d) /\ f \in Find
    BY <1>1, <2>1 DEF PfInv, FindInv, PropfindTypeOK
  <2>3. FoundFor(f.inner, r.href) \subseteq FoundFor(f.body, r.href)
    BY <2>2 DEF EditsRight, FoundFor, ToSet
  <2>4. \A x \in FoundProp : x.value # NoValue
    BY ValuesAssumption DEF FoundProp
  <2>5. ASSUME NEW x \in ToSet(f.body), NEW n \in Offered
        PROVE  Prop(n, NoValue) \notin x.found \cup x.missing
    <3>1. PICK i \in DOMAIN f.body : x = f.body[i]
      BY DEF ToSet
    <3>2. x.found \subseteq FoundProp
      <4>1. f.body \in Seq(ResponseSet)
        BY <2>2 DEF Find
      <4>2. x \in ResponseSet
        BY <3>1, <4>1
      <4>. QED  BY <4>2 DEF ResponseSet
    <3>3. Prop(n, NoValue) \notin x.found
      BY <2>4, <3>2 DEF Prop
    <3>. QED  BY <2>2, <3>1, <3>3 DEF EditsRight
  <2>. QED  BY <2>3, <2>5
<1>2. PfInv => EditsKeepWhatIsFound
  BY <1>1 DEF EditsKeepWhatIsFound
<1>. QED  BY <1>2, PropfindInductive, PTL

=============================================================================
