------------------------ MODULE SyncCollectionProofs ------------------------
(* Theorems about SyncCollection, for every value of its constants, from the *)
(* invariant of the store (CalendarStoreProofs).                            *)
EXTENDS SyncCollection, CalendarStoreProofs

-----------------------------------------------------------------------------
(* The answer, and what applying it makes of a view.                       *)

LEMMA ContentsType ==
    ASSUME TypeOK, NEW c
    PROVE  Contents(c) \subseteq Entry
  BY DEF TypeOK, ObjectRow, Contents, RowsOf, Entry

LEMMA ViewAfterFull ==
    ASSUME NEW view, NEW delta, delta.full = TRUE
    PROVE  Apply(view, delta) = delta.changed
  BY DEF Apply

\* A view that is covered by the log catches up with one incremental answer: the
\* paths whose latest change follows the token are replaced by what the calendar
\* shows there, and nothing else differs.
LEMMA CatchesUp ==
    ASSUME IndInv, NEW c \in Live, NEW view, NEW since \in Nat,
           Covered(view, c, since)
    PROVE  Apply(view, ChangedRows(c, since)) = Contents(c)
<1> DEFINE latest  == {ch \in changes : ch.cal = c /\ ch.token > since /\ IsLatest(ch)}
           gone    == {ch.path : ch \in {x \in latest :
                          \/ x.type = "deleted"
                          \/ x.path \notin PathsOf(Contents(c))}}
           changed == {e \in Contents(c) : e.path \in PathsOf(latest) \ gone}
           delta   == ChangedRows(c, since)
<1> USE DEF IndInv
<1>1. delta.full = FALSE /\ delta.gone = gone /\ delta.changed = changed
  BY DEF ChangedRows
<1>2. \A ch \in changes : ch.token \in Nat
  BY DEF TypeOK, Change
<1>3. ASSUME NEW op, \E ch \in ChangesAt(c, op) : ch.token > since
      PROVE  op \in PathsOf(latest)
  <2>1. PICK ch \in changes : ch.cal = c /\ ch.path = op /\ ch.token > since
    BY <1>3 DEF ChangesAt
  <2>2. PICK l \in changes : l.cal = c /\ l.path = op /\ IsLatest(l)
    BY <2>1 DEF EveryPathHasLatest, ChangesAt
  <2>3. l.token > since
    BY <1>2, <2>1, <2>2 DEF IsLatest, ChangesAt
  <2>. QED  BY <2>2, <2>3 DEF PathsOf
<1>4. ASSUME NEW e \in Contents(c)
      PROVE  e.path \notin gone
  <2>1. e.path \in PathsOf(Contents(c))
    BY <1>4 DEF PathsOf
  <2>2. PICK o \in DOMAIN objects : objects[o].cal = c /\ objects[o].path = e.path
    BY <1>4 DEF Contents, RowsOf
  <2>3. PICK l \in ChangesAt(c, e.path) : IsLatest(l) /\ l.type # "deleted"
    BY <2>2 DEF LatestChangeIsTrue
  <2>4. \A x \in latest : x.path = e.path => x = l
    <3>1. SUFFICES ASSUME NEW x \in latest, x.path = e.path PROVE x = l
      OBVIOUS
    <3>2. /\ x \in changes /\ x.cal = c /\ l \in changes /\ l.cal = c
          /\ x.token <= l.token /\ l.token <= x.token
      BY <2>3, <3>1 DEF IsLatest, ChangesAt
    <3>3. x.token = l.token
      BY <1>2, <3>2
    <3>. QED  BY <3>2, <3>3 DEF LogMatchesToken
  <2>. QED  BY <2>1, <2>3, <2>4
<1>5. gone \subseteq PathsOf(latest) /\ PathsOf(changed) \subseteq PathsOf(latest)
  BY DEF PathsOf
<1>6. PathsOf(latest) \subseteq gone \cup PathsOf(changed)
  <2>1. SUFFICES ASSUME NEW x \in latest, x.path \notin gone
                 PROVE  x.path \in PathsOf(changed)
    BY DEF PathsOf
  <2>2. x.path \in PathsOf(Contents(c))
    BY <2>1
  <2>3. PICK e \in Contents(c) : e.path = x.path
    BY <2>2 DEF PathsOf
  <2>4. e \in changed
    BY <2>1, <2>3 DEF PathsOf
  <2>. QED  BY <2>3, <2>4 DEF PathsOf
<1> HIDE DEF delta, gone, changed, latest
<1>7. Apply(view, delta) = {e \in view : e.path \notin PathsOf(latest)} \cup changed
  BY <1>1, <1>5, <1>6 DEF Apply
<1>8. ASSUME NEW e \in view, e.path \notin PathsOf(latest)
      PROVE  e \in Contents(c)
  BY <1>3, <1>8 DEF Covered
<1>9. ASSUME NEW e \in Contents(c)
      PROVE  e \in changed \/ (e \in view /\ e.path \notin PathsOf(latest))
  <2>1. CASE e.path \in PathsOf(latest)
    BY <1>4, <2>1 DEF changed
  <2>2. CASE e.path \notin PathsOf(latest)
    BY <1>3, <1>9, <2>2 DEF Covered
  <2>. QED  BY <2>1, <2>2
<1>10. changed \subseteq Contents(c)
  BY DEF changed
<1>. QED  BY <1>7, <1>8, <1>9, <1>10 DEF delta

\* A view that is what the calendar shows is covered, under any token.
LEMMA ContentsCovered ==
    ASSUME NEW c, NEW token
    PROVE  Covered(Contents(c), c, token)
  BY DEF Covered

-----------------------------------------------------------------------------
(* A step of the store keeps a covered view covered: it adds to the log a  *)
(* change of each path whose entry it changes.                             *)

LEMMA EntryChangeRecorded ==
    ASSUME IndInv, TableStep, NEW c \in Live, c \in Live',
           NEW e, ~(e \in Contents(c)' <=> e \in Contents(c))
    PROVE  \E type : RecordChange(c, e.path, type)
<1>1. Contents(c)' # Contents(c)
  OBVIOUS
<1>2. PICK p \in Procs : CommitEffect(p) /\ req[p].cal = c
  BY <1>1, ContentsChangeByCommit
<1>3. e.path = req[p].path
  BY <1>2, CommitChangesOnePath
<1>. QED  BY <1>2, <1>3, CommitChangesOnePath

LEMMA LogKept ==
    ASSUME IndInv, TableStep, NEW c \in Live, c \in Live'
    PROVE  \A ch \in changes : ch.cal = c => ch \in changes'
<1>1. ASSUME NEW k \in Live, NEW conn \in Conns, DropEffect(k, conn)
      PROVE  \A ch \in changes : ch.cal = c => ch \in changes'
  <2>1. c # k
    BY <1>1 DEF DropEffect, Restrict, Live
  <2>. QED  BY <1>1, <2>1 DEF DropEffect, Cascade
<1>. QED  BY <1>1 DEF TableStep, tables, CreateEffect, PutEffect, DeleteEffect,
                      RecordChange

LEMMA TokenKept ==
    ASSUME IndInv, TableStep, NEW c \in Live, c \in Live',
           NEW token, TokenOf(c, token)
    PROVE  TokenOf(c, token)'
<1>1. calendars[c].token \in Nat /\ c \in Nat /\ c < nextCal
  BY DEF IndInv, TypeOK, Live, CalendarRow
<1>2. CASE UNCHANGED tables
  BY <1>2 DEF tables, TokenOf
<1>3. ASSUME NEW u \in Users, NEW cp \in CalPaths, CreateEffect(u, cp)
      PROVE  TokenOf(c, token)'
  <2>1. calendars'[c] = calendars[c]
    BY <1>1, <1>3 DEF CreateEffect, Insert, Live
  <2>. QED  BY <2>1 DEF TokenOf
<1>4. ASSUME NEW k \in Live, NEW conn \in Conns, DropEffect(k, conn)
      PROVE  TokenOf(c, token)'
  BY <1>4 DEF DropEffect, Restrict, Live, TokenOf
<1>5. ASSUME NEW p \in Procs, CommitEffect(p)
      PROVE  TokenOf(c, token)'
  <2>1. PICK type : req[p].cal \in Live /\ RecordChange(req[p].cal, req[p].path, type)
    BY <1>5, CommitChangesOnePath
  <2>2. calendars'[c].token \in {calendars[c].token, calendars[c].token + 1}
    BY <2>1, RecordChangeCalendars DEF IndInv
  <2>. QED  BY <1>1, <2>2 DEF TokenOf
<1>. QED  BY <1>2, <1>3, <1>4, <1>5 DEF TableStep, CommitEffect

LEMMA CoveredKept ==
    ASSUME IndInv, TableStep, NEW c \in Live, c \in Live', NEW view, NEW token,
           TokenOf(c, token), Covered(view, c, token)
    PROVE  Covered(view, c, token)'
<1>1. SUFFICES ASSUME NEW e, e \in view \/ e \in Contents(c)',
                      ~(e \in view /\ e \in Contents(c)')
               PROVE  \E ch \in changes' : ch.cal = c /\ ch.path = e.path /\ ch.token > token
  BY DEF Covered, ChangesAt
<1>2. CASE e \in Contents(c)' <=> e \in Contents(c)
  <2>1. PICK ch \in changes : ch.cal = c /\ ch.path = e.path /\ ch.token > token
    BY <1>1, <1>2 DEF Covered, ChangesAt
  <2>. QED  BY <2>1, LogKept
<1>3. CASE ~(e \in Contents(c)' <=> e \in Contents(c))
  <2>1. PICK type : RecordChange(c, e.path, type)
    BY <1>3, EntryChangeRecorded
  <2>2. Recorded(c, e.path, type) \in changes'
    BY <2>1 DEF RecordChange, Recorded
  <2>3. calendars[c].token \in Nat
    BY DEF IndInv, TypeOK, Live, CalendarRow
  <2>. QED  BY <2>2, <2>3 DEF Recorded, TokenOf
<1>. QED  BY <1>2, <1>3

-----------------------------------------------------------------------------
(* Type correctness.                                                       *)

LEMMA AnswerType ==
    ASSUME TypeOK, NEW c, NEW token
    PROVE  Answer(c, token) \in Delta
<1>1. Contents(c) \subseteq Entry
  BY ContentsType
<1>2. AllRows(c) \in Delta
  BY <1>1 DEF AllRows, Delta
<1>3. ChangedRows(c, token) \in Delta
  BY <1>1 DEF ChangedRows, Delta, TypeOK, Change
<1>. QED  BY <1>2, <1>3 DEF Answer

LEMMA ApplyType ==
    ASSUME NEW view \in SUBSET Entry, NEW delta \in Delta
    PROVE  Apply(view, delta) \in SUBSET Entry
  BY DEF Apply, Delta

LEMMA SyncShapes ==
    ASSUME SyncTypeOK, NEW d \in Clients
    PROVE  /\ client[d].token \in Nat \cup {NoToken}
           /\ client[d].view \in SUBSET Entry
           /\ client[d].cal \in Nat
           /\ sync[d].pc # "idle" =>
                 sync[d].cal \in Nat \ {0} /\ sync[d].token \in Nat
           /\ sync[d].pc = "reply" => sync[d].delta \in Delta
  BY DEF SyncTypeOK, Client, Sync

LEMMA StoreStepFacts ==
    ASSUME SyncTypeOK, IndInv, StoreStep
    PROVE  SyncTypeOK' /\ IndInv' /\ TableStep /\ CalendarsEvolve
<1>1. [Next]_vars /\ UNCHANGED syncVars
  BY DEF StoreStep
<1>2. TypeOK' /\ IndInv'
  BY <1>1, NextIndInv DEF IndInv
<1>3. TableStep
  BY <1>1, StepsOfTables
<1>4. CalendarsEvolve
  BY <1>3, TablesEvolve DEF IndInv
<1>. QED  BY <1>1, <1>2, <1>3, <1>4 DEF SyncTypeOK, syncVars

\* The steps of a client change neither the tables nor the requests.
LEMMA StoreUntouched ==
    ASSUME IndInv, UNCHANGED vars
    PROVE  /\ IndInv' /\ TypeOK' /\ Live' = Live /\ nextCal' = nextCal
           /\ \A c, token : TokenOf(c, token)' <=> TokenOf(c, token)
           /\ \A view, c, token : Covered(view, c, token)' <=> Covered(view, c, token)
<1>1. IndInv' /\ TypeOK'
  BY NextIndInv DEF IndInv
<1>2. Live' = Live /\ nextCal' = nextCal
  BY DEF vars, Live
<1>3. \A c, token : TokenOf(c, token)' <=> TokenOf(c, token)
  BY DEF vars, TokenOf
<1>4. \A c : Contents(c)' = Contents(c)
  BY DEF vars, Contents, RowsOf
<1>5. \A c, op : ChangesAt(c, op)' = ChangesAt(c, op)
  BY DEF vars, ChangesAt
<1>. QED  BY <1>1, <1>2, <1>3, <1>4, <1>5 DEF Covered

-----------------------------------------------------------------------------
(* The invariant.                                                          *)

\* The goals for one client.
ClientHolds(d) ==
    /\ client[d].cal < nextCal
    /\ client[d].cal \in Live =>
          /\ TokenOf(client[d].cal, client[d].token)
          /\ Covered(client[d].view, client[d].cal, client[d].token)

AnswerHolds(d) ==
    /\ sync[d].pc # "idle" =>
          /\ sync[d].cal < nextCal
          /\ sync[d].cal \in Live => TokenOf(sync[d].cal, sync[d].token)
    /\ /\ sync[d].pc = "reply"
       /\ sync[d].cal \in Live
       /\ sync[d].delta.full \/ client[d].cal = sync[d].cal
       => Covered(Apply(client[d].view, sync[d].delta), sync[d].cal, sync[d].token)

LEMMA StoreStepKeeps ==
    ASSUME SyncIndInv, StoreStep
    PROVE  SyncIndInv'
<1>1. SyncTypeOK' /\ IndInv' /\ TableStep /\ CalendarsEvolve
  BY StoreStepFacts DEF SyncIndInv
<1>2. client' = client /\ sync' = sync
  BY DEF StoreStep, syncVars
<1>3. nextCal \in Nat /\ nextCal' \in Nat /\ nextCal' >= nextCal
  BY <1>1 DEF SyncIndInv, IndInv, TypeOK, CalendarsEvolve
<1>4. \A c \in Nat : c < nextCal => c < nextCal' /\ (c \in Live' => c \in Live)
  BY <1>1, <1>3 DEF CalendarsEvolve
<1>5. ASSUME NEW d \in Clients
      PROVE  ClientHolds(d)' /\ AnswerHolds(d)'
  <2>1. ClientHolds(d) /\ AnswerHolds(d)
    BY DEF SyncIndInv, ClientsCovered, AnswersCovered, ClientHolds, AnswerHolds
  <2>2. /\ client[d].cal \in Nat
        /\ sync[d].pc # "idle" => sync[d].cal \in Nat
    BY SyncShapes DEF SyncIndInv
  <2>3. client[d].cal < nextCal' /\ (sync[d].pc # "idle" => sync[d].cal < nextCal')
    BY <1>4, <2>1, <2>2 DEF ClientHolds, AnswerHolds
  <2>4. ASSUME client[d].cal \in Live'
        PROVE  /\ TokenOf(client[d].cal, client[d].token)'
               /\ Covered(client[d].view, client[d].cal, client[d].token)'
    <3> DEFINE c == client[d].cal
    <3>1. c \in Live /\ c \in Live'
      BY <1>4, <2>1, <2>2, <2>4 DEF ClientHolds
    <3>2. TokenOf(c, client[d].token) /\ Covered(client[d].view, c, client[d].token)
      BY <2>1, <3>1 DEF ClientHolds
    <3>3. PICK k, view, token : /\ k = c /\ view = client[d].view
                               /\ token = client[d].token
      OBVIOUS
    <3>4. TokenOf(k, token)' /\ Covered(view, k, token)'
      BY <1>1, <3>1, <3>2, <3>3, TokenKept, CoveredKept DEF SyncIndInv
    <3>. QED  BY <1>2, <3>3, <3>4
  <2>5. ASSUME sync[d].pc # "idle", sync[d].cal \in Live'
        PROVE  TokenOf(sync[d].cal, sync[d].token)'
    <3>1. sync[d].cal \in Live /\ TokenOf(sync[d].cal, sync[d].token)
      BY <1>4, <2>1, <2>2, <2>5 DEF AnswerHolds
    <3>2. PICK k, token : k = sync[d].cal /\ token = sync[d].token
      OBVIOUS
    <3>3. TokenOf(k, token)'
      BY <1>1, <2>5, <3>1, <3>2, TokenKept DEF SyncIndInv
    <3>. QED  BY <1>2, <3>2, <3>3
  <2>6. ASSUME sync[d].pc = "reply", sync[d].cal \in Live',
               sync[d].delta.full \/ client[d].cal = sync[d].cal
        PROVE  Covered(Apply(client[d].view, sync[d].delta), sync[d].cal, sync[d].token)'
    <3>1. /\ sync[d].cal \in Live /\ TokenOf(sync[d].cal, sync[d].token)
          /\ Covered(Apply(client[d].view, sync[d].delta), sync[d].cal, sync[d].token)
      BY <1>4, <2>1, <2>2, <2>6 DEF AnswerHolds
    <3>2. PICK k, token, view : /\ k = sync[d].cal /\ token = sync[d].token
                               /\ view = Apply(client[d].view, sync[d].delta)
      OBVIOUS
    <3>3. Covered(view, k, token)'
      BY <1>1, <2>6, <3>1, <3>2, CoveredKept DEF SyncIndInv
    <3>4. Apply(client[d].view, sync[d].delta)' = view
      BY <1>2, <3>2 DEF Apply
    <3>. QED  BY <1>2, <3>2, <3>3, <3>4 DEF Apply
  <2>. QED  BY <1>2, <2>3, <2>4, <2>5, <2>6 DEF ClientHolds, AnswerHolds
<1>. QED  BY <1>1, <1>5
          DEF SyncIndInv, ClientsCovered, AnswersCovered, ClientHolds, AnswerHolds

\* A step of one client leaves the tables, and what holds of the others, alone.
LEMMA OthersKept ==
    ASSUME SyncIndInv, UNCHANGED vars, NEW d \in Clients,
           \A x \in Clients \ {d} : client'[x] = client[x] /\ sync'[x] = sync[x],
           SyncTypeOK', ClientHolds(d)', AnswerHolds(d)'
    PROVE  SyncIndInv'
<1>1. /\ IndInv' /\ Live' = Live /\ nextCal' = nextCal
      /\ \A c, token : TokenOf(c, token)' <=> TokenOf(c, token)
      /\ \A view, c, token : Covered(view, c, token)' <=> Covered(view, c, token)
  BY StoreUntouched DEF SyncIndInv
<1>2. ASSUME NEW x \in Clients, x # d
      PROVE  ClientHolds(x)' /\ AnswerHolds(x)'
  <2>1. ClientHolds(x) /\ AnswerHolds(x)
    BY DEF SyncIndInv, ClientsCovered, AnswersCovered, ClientHolds, AnswerHolds
  <2>2. client'[x] = client[x] /\ sync'[x] = sync[x]
    BY <1>2
  <2>3. ClientHolds(x)'
    BY <1>1, <2>1, <2>2 DEF ClientHolds
  <2>4. Apply(client[x].view, sync[x].delta)' = Apply(client[x].view, sync[x].delta)
    BY <2>2 DEF Apply
  <2>5. AnswerHolds(x)'
    BY <1>1, <2>1, <2>2, <2>4 DEF AnswerHolds
  <2>. QED  BY <2>3, <2>5
<1>. QED  BY <1>1, <1>2
          DEF SyncIndInv, ClientsCovered, AnswersCovered, ClientHolds, AnswerHolds

\* A step that changes only a client's REPORT keeps the types.
LEMMA SyncTyped ==
    ASSUME SyncTypeOK, TypeOK', client' = client, NEW d \in Clients, NEW s \in Sync,
           sync' = [sync EXCEPT ![d] = s]
    PROVE  SyncTypeOK' /\ sync'[d] = s /\ \A x \in Clients \ {d} : sync'[x] = sync[x]
  BY DEF SyncTypeOK

LEMMA BeginKeeps ==
    ASSUME SyncIndInv, NEW d \in Clients, SyncBegin(d)
    PROVE  SyncIndInv'
<1>1. /\ TypeOK' /\ Live' = Live /\ nextCal' = nextCal
      /\ \A c, token : TokenOf(c, token)' <=> TokenOf(c, token)
      /\ \A view, c, token : Covered(view, c, token)' <=> Covered(view, c, token)
  BY StoreUntouched DEF SyncIndInv, SyncBegin
<1>2. PICK c \in Live : sync' = [sync EXCEPT ![d] = [pc |-> "rows", cal |-> c,
                                                   token |-> calendars[c].token]]
  BY DEF SyncBegin, Followed, CalendarsAt
<1>3. calendars[c].token \in Nat /\ c \in Nat \ {0} /\ c < nextCal
  BY DEF SyncIndInv, IndInv, TypeOK, Live, CalendarRow
<1> DEFINE s == [pc |-> "rows", cal |-> c, token |-> calendars[c].token]
<1>4. s \in Sync
  BY <1>3 DEF Sync
<1>5. /\ SyncTypeOK' /\ sync'[d] = s /\ client' = client
      /\ \A x \in Clients \ {d} : sync'[x] = sync[x]
  BY <1>1, <1>2, <1>4, SyncTyped DEF SyncIndInv, SyncBegin
<1>6. ClientHolds(d)'
  BY <1>1, <1>5 DEF SyncIndInv, ClientsCovered, ClientHolds
<1>7. TokenOf(c, calendars[c].token)
  BY <1>3 DEF TokenOf
<1>8. PICK token : token = calendars[c].token
  OBVIOUS
<1>9. TokenOf(c, token)'
  BY <1>1, <1>7, <1>8
<1>10. AnswerHolds(d)'
  BY <1>1, <1>3, <1>5, <1>8, <1>9 DEF AnswerHolds
<1>. QED  BY <1>5, <1>6, <1>10, OthersKept DEF SyncBegin

LEMMA RowsKeeps ==
    ASSUME SyncIndInv, NEW d \in Clients, SyncRows(d)
    PROVE  SyncIndInv'
<1>1. /\ TypeOK' /\ Live' = Live /\ nextCal' = nextCal
      /\ \A c, token : TokenOf(c, token)' <=> TokenOf(c, token)
      /\ \A view, c, token : Covered(view, c, token)' <=> Covered(view, c, token)
  BY StoreUntouched DEF SyncIndInv, SyncRows
<1>2. PICK c, token, delta : /\ c = sync[d].cal /\ token = sync[d].token
                            /\ delta = Answer(sync[d].cal, client[d].token)
  OBVIOUS
<1> DEFINE s == [pc |-> "reply", cal |-> c, token |-> token, delta |-> delta]
<1>3. c \in Nat \ {0} /\ token \in Nat /\ sync[d].pc = "rows"
  BY <1>2, SyncShapes DEF SyncIndInv, SyncRows
<1>4. delta \in Delta
  BY <1>2, AnswerType DEF SyncIndInv, SyncTypeOK
<1>5. s \in Sync
  BY <1>3, <1>4 DEF Sync
<1>6. /\ SyncTypeOK' /\ sync'[d] = s /\ client' = client
      /\ \A x \in Clients \ {d} : sync'[x] = sync[x]
  BY <1>1, <1>2, <1>5, SyncTyped DEF SyncIndInv, SyncRows
<1>7. ClientHolds(d) /\ AnswerHolds(d)
  BY DEF SyncIndInv, ClientsCovered, AnswersCovered, ClientHolds, AnswerHolds
<1>8. ClientHolds(d)'
  BY <1>1, <1>6, <1>7 DEF ClientHolds
<1>9. c < nextCal' /\ (c \in Live' => TokenOf(c, token)')
  BY <1>1, <1>2, <1>3, <1>7 DEF AnswerHolds
<1>10. ASSUME c \in Live, delta.full \/ client[d].cal = c
       PROVE  Covered(Apply(client[d].view, delta), c, token)
  <2>1. CASE client[d].token = NoToken
    <3>1. delta = AllRows(c)
      BY <1>2, <2>1 DEF Answer
    <3>2. delta.full = TRUE /\ delta.changed = Contents(c)
      BY <3>1 DEF AllRows
    <3>3. Apply(client[d].view, delta) = delta.changed
      BY <3>2, ViewAfterFull
    <3>. QED  BY <3>2, <3>3, ContentsCovered
  <2>2. CASE client[d].token # NoToken
    <3>1. delta = ChangedRows(c, client[d].token)
      BY <1>2, <2>2 DEF Answer
    <3>2. client[d].cal = c
      BY <1>10, <3>1 DEF ChangedRows
    <3>3. client[d].token \in Nat /\ Covered(client[d].view, c, client[d].token)
      BY <1>7, <1>10, <3>2 DEF ClientHolds, TokenOf
    <3>4. Apply(client[d].view, delta) = Contents(c)
      BY <1>10, <3>1, <3>3, CatchesUp DEF SyncIndInv
    <3>. QED  BY <3>4, ContentsCovered
  <2>. QED  BY <2>1, <2>2
<1>11. PICK view : view = Apply(client[d].view, delta)
  OBVIOUS
<1>12. c \in Live /\ (delta.full \/ client[d].cal = c) => Covered(view, c, token)'
  BY <1>1, <1>10, <1>11
<1>13. Apply(client[d].view, sync[d].delta)' = view
  BY <1>6, <1>11 DEF Apply
<1>14. AnswerHolds(d)'
  BY <1>1, <1>6, <1>9, <1>12, <1>13 DEF AnswerHolds
<1>. QED  BY <1>6, <1>8, <1>14, OthersKept DEF SyncRows

LEMMA ReplyKeeps ==
    ASSUME SyncIndInv, NEW d \in Clients, SyncReply(d)
    PROVE  SyncIndInv'
<1>1. /\ TypeOK' /\ Live' = Live /\ nextCal' = nextCal
      /\ \A c, token : TokenOf(c, token)' <=> TokenOf(c, token)
      /\ \A view, c, token : Covered(view, c, token)' <=> Covered(view, c, token)
  BY StoreUntouched DEF SyncIndInv, SyncReply
<1>2. PICK c, token, view, cal :
         /\ c = sync[d].cal /\ token = sync[d].token
         /\ view = Apply(client[d].view, sync[d].delta)
         /\ cal = IF sync[d].delta.full \/ client[d].cal = c THEN c ELSE NoCal
  OBVIOUS
<1>3. ClientHolds(d) /\ AnswerHolds(d)
  BY DEF SyncIndInv, ClientsCovered, AnswersCovered, ClientHolds, AnswerHolds
<1>4. /\ sync[d].pc = "reply" /\ c \in Nat \ {0} /\ token \in Nat
      /\ sync[d].delta \in Delta /\ client[d].view \in SUBSET Entry
  BY <1>2, SyncShapes DEF SyncIndInv, SyncReply
<1>5. view \in SUBSET Entry
  BY <1>2, <1>4, ApplyType
<1> DEFINE k == [token |-> token, view |-> view, cal |-> cal]
<1>6. k \in Client
  BY <1>2, <1>4, <1>5 DEF Client, NoCal
<1>7. /\ client' = [client EXCEPT ![d] = k]
      /\ sync' = [sync EXCEPT ![d] = [pc |-> "idle"]]
  BY <1>2 DEF SyncReply
<1>8. [pc |-> "idle"] \in Sync
  BY DEF Sync
<1>9. /\ client' \in [Clients -> Client] /\ sync' \in [Clients -> Sync]
      /\ client'[d] = k /\ sync'[d] = [pc |-> "idle"]
      /\ \A x \in Clients \ {d} : client'[x] = client[x] /\ sync'[x] = sync[x]
  BY <1>6, <1>7, <1>8 DEF SyncIndInv, SyncTypeOK
<1>10. SyncTypeOK'
  BY <1>1, <1>9 DEF SyncTypeOK
<1>11. nextCal \in Nat \ {0} /\ 0 \notin Live
  BY DEF SyncIndInv, IndInv, TypeOK, Live
<1>12. cal < nextCal
  BY <1>2, <1>3, <1>4, <1>11 DEF AnswerHolds, NoCal
<1>13. ASSUME cal \in Live
       PROVE  TokenOf(cal, token) /\ Covered(view, cal, token)
  <2>1. cal = c /\ (sync[d].delta.full \/ client[d].cal = c)
    BY <1>2, <1>11, <1>13 DEF NoCal
  <2>. QED  BY <1>2, <1>3, <1>4, <1>13, <2>1 DEF AnswerHolds
<1>14. cal \in Live => TokenOf(cal, token)' /\ Covered(view, cal, token)'
  BY <1>1, <1>13
<1>15. ClientHolds(d)'
  BY <1>1, <1>9, <1>12, <1>14 DEF ClientHolds
<1>16. AnswerHolds(d)'
  BY <1>9 DEF AnswerHolds
<1>. QED  BY <1>9, <1>10, <1>15, <1>16, OthersKept DEF SyncReply

LEMMA SyncFailKeeps ==
    ASSUME SyncIndInv, NEW d \in Clients, SyncFail(d)
    PROVE  SyncIndInv'
<1>1. /\ TypeOK' /\ Live' = Live /\ nextCal' = nextCal
      /\ \A c, token : TokenOf(c, token)' <=> TokenOf(c, token)
      /\ \A view, c, token : Covered(view, c, token)' <=> Covered(view, c, token)
  BY StoreUntouched DEF SyncIndInv, SyncFail
<1>2. [pc |-> "idle"] \in Sync
  BY DEF Sync
<1>3. /\ SyncTypeOK' /\ sync'[d] = [pc |-> "idle"] /\ client' = client
      /\ \A x \in Clients \ {d} : sync'[x] = sync[x]
  BY <1>1, <1>2, SyncTyped DEF SyncIndInv, SyncFail
<1>4. ClientHolds(d)'
  BY <1>1, <1>3 DEF SyncIndInv, ClientsCovered, ClientHolds
<1>5. AnswerHolds(d)'
  BY <1>3 DEF AnswerHolds
<1>. QED  BY <1>3, <1>4, <1>5, OthersKept DEF SyncFail

LEMMA ForgetKeeps ==
    ASSUME SyncIndInv, NEW d \in Clients, Forget(d)
    PROVE  SyncIndInv'
<1>1. /\ TypeOK' /\ Live' = Live /\ nextCal' = nextCal
      /\ nextCal \in Nat \ {0} /\ 0 \notin Live
  BY StoreUntouched DEF SyncIndInv, Forget, IndInv, TypeOK, Live
<1> DEFINE k == [token |-> NoToken, view |-> {}, cal |-> NoCal]
<1>2. k \in Client
  BY DEF Client, NoCal
<1>3. /\ client' \in [Clients -> Client] /\ client'[d] = k /\ sync' = sync
      /\ \A x \in Clients \ {d} : client'[x] = client[x]
  BY <1>2 DEF Forget, SyncIndInv, SyncTypeOK
<1>4. SyncTypeOK'
  BY <1>1, <1>3 DEF SyncIndInv, SyncTypeOK
<1>5. ClientHolds(d)'
  BY <1>1, <1>3 DEF ClientHolds, NoCal
<1>6. sync[d].pc = "idle"
  BY DEF Forget
<1>7. AnswerHolds(d)'
  BY <1>3, <1>6 DEF AnswerHolds
<1>. QED  BY <1>3, <1>4, <1>5, <1>7, OthersKept DEF Forget

LEMMA SyncNextKeeps ==
    ASSUME SyncIndInv, [SyncNext]_allVars
    PROVE  SyncIndInv'
<1>1. CASE StoreStep
  BY <1>1, StoreStepKeeps
<1>2. ASSUME NEW d \in Clients, ClientStep(d) \/ Forget(d)
      PROVE  SyncIndInv'
  BY <1>2, BeginKeeps, RowsKeeps, ReplyKeeps, SyncFailKeeps, ForgetKeeps DEF ClientStep
<1>3. CASE UNCHANGED allVars
  <2>1. UNCHANGED vars /\ client' = client /\ sync' = sync
    BY <1>3 DEF allVars, syncVars
  <2>2. /\ IndInv' /\ TypeOK' /\ Live' = Live /\ nextCal' = nextCal
        /\ \A c, token : TokenOf(c, token)' <=> TokenOf(c, token)
        /\ \A view, c, token : Covered(view, c, token)' <=> Covered(view, c, token)
    BY <2>1, StoreUntouched DEF SyncIndInv
  <2>3. SyncTypeOK'
    BY <2>1, <2>2 DEF SyncIndInv, SyncTypeOK
  <2>4. ClientsCovered'
    BY <2>1, <2>2 DEF SyncIndInv, ClientsCovered
  <2>5. \A d \in Clients : Apply(client[d].view, sync[d].delta)'
                           = Apply(client[d].view, sync[d].delta)
    BY <2>1 DEF Apply
  <2>6. AnswersCovered'
    BY <2>1, <2>2, <2>5 DEF SyncIndInv, AnswersCovered
  <2>. QED  BY <2>2, <2>3, <2>4, <2>6 DEF SyncIndInv
<1>. QED  BY <1>1, <1>2, <1>3 DEF SyncNext

LEMMA SyncInitHolds ==
    ASSUME SyncInit
    PROVE  SyncIndInv
<1>1. IndInv /\ TypeOK
  BY InitIndInv, InitType DEF SyncInit
<1>2. nextCal = 1 /\ Live = {}
  BY DEF SyncInit, Init, EmptyTable, Live
<1>3. /\ client \in [Clients -> Client] /\ sync \in [Clients -> Sync]
      /\ \A d \in Clients : client[d].cal = 0 /\ sync[d].pc = "idle"
  BY DEF SyncInit, Client, Sync, NoCal
<1>4. ClientsCovered
  BY <1>2, <1>3 DEF ClientsCovered
<1>5. AnswersCovered
  BY <1>3 DEF AnswersCovered
<1>. QED  BY <1>1, <1>3, <1>4, <1>5 DEF SyncIndInv, SyncTypeOK

-----------------------------------------------------------------------------
(* Theorems.                                                               *)

\* The strengthened invariant holds of the store and its clients together.
THEOREM SyncInductive == SyncSpec => []SyncIndInv
<1>1. SyncInit => SyncIndInv
  BY SyncInitHolds
<1>2. SyncIndInv /\ [SyncNext]_allVars => SyncIndInv'
  BY SyncNextKeeps
<1>. QED  BY <1>1, <1>2, PTL DEF SyncSpec

\* Requests in flight, answers and clients are always well formed.
THEOREM SyncTypeCorrect == SyncSpec => []SyncTypeOK
<1>1. SyncIndInv => SyncTypeOK
  BY DEF SyncIndInv
<1>. QED  BY <1>1, SyncInductive, PTL

\* A client whose token comes from the calendar that is there would, asking now,
\* see exactly what the calendar shows (SyncCollection of storage/sqlite).
THEOREM ClientsMissNothing == SyncSpec => []NothingMissed
<1>1. SyncIndInv => NothingMissed
  <2>1. SUFFICES ASSUME SyncIndInv, NEW d \in Clients, client[d].cal \in Live
                 PROVE  CaughtUp(d, client[d].cal)
    BY DEF NothingMissed
  <2>2. /\ client[d].token \in Nat
        /\ Covered(client[d].view, client[d].cal, client[d].token)
    BY <2>1 DEF SyncIndInv, ClientsCovered, TokenOf
  <2>3. Answer(client[d].cal, client[d].token)
           = ChangedRows(client[d].cal, client[d].token)
    BY <2>2 DEF Answer, NoToken
  <2>4. Apply(client[d].view, ChangedRows(client[d].cal, client[d].token))
           = Contents(client[d].cal)
    BY <2>1, <2>2, CatchesUp DEF SyncIndInv
  <2>. QED  BY <2>3, <2>4 DEF CaughtUp
<1>. QED  BY <1>1, SyncInductive, PTL

=============================================================================
