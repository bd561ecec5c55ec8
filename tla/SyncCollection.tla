--------------------------- MODULE SyncCollection ---------------------------
(***************************************************************************)
(* The sync-collection REPORT (server/sync.go over Backend.SyncCollection) *)
(* and the clients that follow a calendar with it, next to the requests of *)
(* CalendarStore.                                                          *)
(*                                                                         *)
(* The backend answers with two statements: it reads the calendar's id and *)
(* sync_token, then the rows (first synchronisation) or the log joined     *)
(* with the rows (later ones).  Writes may commit in between, and an       *)
(* answer may be lost on its way to the client, which then asks again.     *)
(* A client keeps what it believes the calendar shows and the token of the *)
(* last answer it applied.                                                 *)
(***************************************************************************)
EXTENDS CalendarStore

CONSTANTS
    Clients,      \* devices
    ClientUser,   \* the user a device signs in as
    ClientPath    \* the calendar path that it follows

ASSUME ClientAssumption == /\ ClientUser \in [Clients -> Users]
                           /\ ClientPath \in [Clients -> CalPaths]

VARIABLES
    client,       \* token, view; and, as a ghost, the calendar row they are of
    sync          \* the REPORT of each client that the server is answering

syncVars == <<client, sync>>
allVars  == <<vars, syncVars>>

NoToken == -1     \* an empty sync-token: a first synchronisation
NoCal   == 0      \* the view is of no calendar row, or of several

Entry   == [path : ObjPaths, data : Data]
Delta   == [full : BOOLEAN, gone : SUBSET ObjPaths, changed : SUBSET Entry]

Client  == [token : Nat \cup {NoToken}, view : SUBSET Entry, cal : Nat]
Sync    == [pc : {"idle"}]
      \cup [pc : {"rows"}, cal : Nat \ {0}, token : Nat]
      \cup [pc : {"reply"}, cal : Nat \ {0}, token : Nat, delta : Delta]

SyncTypeOK ==
    /\ TypeOK
    /\ client \in [Clients -> Client]
    /\ sync \in [Clients -> Sync]

-----------------------------------------------------------------------------
(* The answer to a REPORT.                                                 *)

PathsOf(entries) == {e.path : e \in entries}

\* all rows, as "created"
AllRows(c) == [full |-> TRUE, gone |-> {}, changed |-> Contents(c)]

\* faulty: the change type is believed when the row has gone
ChangedRowsByType(c, since) ==
    LET latest == {ch \in changes : ch.cal = c /\ ch.token > since /\ IsLatest(ch)}
        gone   == {ch.path : ch \in {x \in latest : x.type = "deleted"}}
    IN  [full    |-> FALSE,
         gone    |-> gone,
         changed |-> {e \in Contents(c) : e.path \in PathsOf(latest) \ gone}]

\* faulty: the change that follows the token is left out
ChangedRowsOffByOne(c, since) ==
    LET latest == {ch \in changes : ch.cal = c /\ ch.token > since + 1 /\ IsLatest(ch)}
        gone   == PathsOf(latest) \ PathsOf(Contents(c))
    IN  [full    |-> FALSE,
         gone    |-> gone,
         changed |-> {e \in Contents(c) : e.path \in PathsOf(latest)}]

\* the latest change of each path since the token; a path whose row the LEFT
\* JOIN does not find is reported as deleted whatever its change says
ChangedRows(c, since) ==
    LET latest == {ch \in changes : ch.cal = c /\ ch.token > since /\ IsLatest(ch)}
        gone   == {ch.path : ch \in {x \in latest :
                      \/ x.type = "deleted"
                      \/ x.path \notin PathsOf(Contents(c))}}
    IN  [full    |-> FALSE,
         gone    |-> gone,
         changed |-> {e \in Contents(c) :
                        e.path \in PathsOf(latest) \ gone}]

Answer(c, token) == IF token = NoToken THEN AllRows(c) ELSE ChangedRows(c, token)

\* what a client that applies an answer then believes
Apply(view, delta) ==
    {e \in view : ~delta.full /\ e.path \notin delta.gone \cup PathsOf(delta.changed)}
        \cup delta.changed

-----------------------------------------------------------------------------

\* the row that SELECT ... WHERE path = ? AND user_id = ? finds
Followed(d) == {c \in CalendarsAt(ClientPath[d]) :
                    calendars[c].user = ClientUser[d]}

\* First statement.  No calendar, or a token larger than the calendar's, is
\* answered with an error: the client keeps what it has (nothing changes).
SyncBegin(d) ==
    /\ sync[d].pc = "idle"
    /\ \E c \in Followed(d) :
          /\ client[d].token <= calendars[c].token
          /\ sync' = [sync EXCEPT ![d] = [pc |-> "rows", cal |-> c,
                                          token |-> calendars[c].token]]
    /\ UNCHANGED <<vars, client>>

\* Second statement: the rows as they are now, under the token read before.
SyncRows(d) ==
    /\ sync[d].pc = "rows"
    /\ sync' = [sync EXCEPT ![d] =
                   [pc |-> "reply", cal |-> sync[d].cal, token |-> sync[d].token,
                    delta |-> Answer(sync[d].cal, client[d].token)]]
    /\ UNCHANGED <<vars, client>>

SyncReply(d) ==
    /\ sync[d].pc = "reply"
    /\ LET reply == sync[d]
           same  == reply.delta.full \/ client[d].cal = reply.cal IN
       client' = [client EXCEPT ![d] =
                     [token |-> reply.token,
                      view  |-> Apply(client[d].view, reply.delta),
                      cal   |-> IF same THEN reply.cal ELSE NoCal]]
    /\ sync' = [sync EXCEPT ![d] = [pc |-> "idle"]]
    /\ UNCHANGED vars

\* A statement fails, the server restarts, or the answer is lost.
SyncFail(d) ==
    /\ sync[d].pc # "idle"
    /\ sync' = [sync EXCEPT ![d] = [pc |-> "idle"]]
    /\ UNCHANGED <<vars, client>>

\* its token was given out by a calendar that has been deleted since
Outlived(d) == client[d].token # NoToken /\ client[d].cal \notin Live

\* The user removes the account from such a device and adds it again.
Forget(d) ==
    /\ sync[d].pc = "idle"
    /\ Outlived(d)
    /\ client' = [client EXCEPT ![d] =
                     [token |-> NoToken, view |-> {}, cal |-> NoCal]]
    /\ UNCHANGED <<vars, sync>>

SyncInit ==
    /\ Init
    /\ client = [d \in Clients |-> [token |-> NoToken, view |-> {}, cal |-> NoCal]]
    /\ sync = [d \in Clients |-> [pc |-> "idle"]]

StoreStep == Next /\ UNCHANGED syncVars

ClientStep(d) == SyncBegin(d) \/ SyncRows(d) \/ SyncReply(d) \/ SyncFail(d)

SyncNext == StoreStep \/ \E d \in Clients : ClientStep(d) \/ Forget(d)

SyncSpec == SyncInit /\ [][SyncNext]_allVars

\* A client polls for ever; a REPORT may fail, or its answer be lost, but not
\* each one of infinitely many.
PollFairness ==
    \A d \in Clients : /\ WF_allVars(SyncBegin(d))
                       /\ SF_allVars(SyncRows(d))
                       /\ SF_allVars(SyncReply(d))

FairSyncSpec == SyncSpec /\ PollFairness

-----------------------------------------------------------------------------
(* Properties.                                                             *)

CaughtUp(d, c) == Apply(client[d].view, Answer(c, client[d].token)) = Contents(c)

\* "SyncCollection returns changes since the given sync token": a client whose
\* token and view come from the calendar row that is there now would, if it
\* asked now, come to see exactly what the calendar shows, whatever has been
\* committed between the two statements of earlier answers, whichever answers
\* were lost, and whatever the PUTs and DELETEs in flight do.
NothingMissed ==
    \A d \in Clients : client[d].cal \in Live => CaughtUp(d, client[d].cal)

\* The same of every token that SyncCollection accepts for the path.
AcceptedTokenMissesNothing ==
    \A d \in Clients : \A c \in Followed(d) :
        client[d].token <= calendars[c].token => CaughtUp(d, c)

\* Once writes stop, a client that keeps asking sees what the calendar that it
\* follows shows, though answers may be lost: unless there is none, or the
\* client still holds a token of a calendar deleted since.
Converges ==
    \A d \in Clients : <>[](\/ Followed(d) = {}
                            \/ Outlived(d)
                            \/ \A c \in Followed(d) : client[d].view = Contents(c))

-----------------------------------------------------------------------------
(* What makes NothingMissed inductive: a view that differs from what the   *)
(* calendar shows differs only where the log has a change after the token, *)
(* and so does the view that the answer on its way will make.              *)

Covered(view, c, token) ==
    \A e \in view \cup Contents(c) :
        ~(e \in view /\ e \in Contents(c)) =>
            \E ch \in ChangesAt(c, e.path) : ch.token > token

TokenOf(c, token) == token \in Nat /\ token <= calendars[c].token

ClientsCovered ==
    \A d \in Clients :
        /\ client[d].cal < nextCal
        /\ client[d].cal \in Live =>
              /\ TokenOf(client[d].cal, client[d].token)
              /\ Covered(client[d].view, client[d].cal, client[d].token)

AnswersCovered ==
    \A d \in Clients :
        /\ sync[d].pc # "idle" =>
              /\ sync[d].cal < nextCal
              /\ sync[d].cal \in Live => TokenOf(sync[d].cal, sync[d].token)
        /\ /\ sync[d].pc = "reply"
           /\ sync[d].cal \in Live
           /\ sync[d].delta.full \/ client[d].cal = sync[d].cal
           => Covered(Apply(client[d].view, sync[d].delta), sync[d].cal, sync[d].token)

SyncIndInv == SyncTypeOK /\ IndInv /\ ClientsCovered /\ AnswersCovered

=============================================================================
