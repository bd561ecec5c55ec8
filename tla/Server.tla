-------------------------------- MODULE Server --------------------------------
(***************************************************************************)
(* The server process (cmd/caldav-server/main.go) from its configuration   *)
(* to its exit, with the handler chain that its requests go through:       *)
(* authentication (KeyCache, or the table of auth/basic.go), then the      *)
(* backend, which refuses the empty user, then the answer.  The goroutine  *)
(* of the listener, the handlers, the main goroutine and the signals that  *)
(* it waits for run side by side.                                          *)
(***************************************************************************)
EXTENDS KeyCache, ConfigLayers

CONSTANTS
    SourceSets,    \* what files, environment and flags may say: [path, env, flags]
    Passwords,     \* user name -> password, of the configured users
    Logins         \* the name and password pairs that clients present

\* other environment variables are not read
ASSUME SourcesAssumption == \A src \in SourceSets : DOMAIN src.env \subseteq Settings

VARIABLES
    sources,       \* the sources of the configuration, until they are read
    config,        \* cfg
    phase,         \* where run() is
    backend,       \* "none", "open" or "closed"
    listener,      \* "none", "open", "failed" (its error is in errCh) or "closed"
    cause          \* what cut requests short: kept for the properties

procVars == <<sources, config, phase, backend, listener, cause>>
authVars == <<issuer, cache, now>>
vars     == <<procVars, authVars, req>>

NoSources == [path |-> Empty, env |-> <<>>, flags |-> <<>>]

Phases == {"loading", "opening", "wiring", "starting", "serving", "draining",
           "leaving", "exited"}
Starting == {"loading", "opening", "wiring", "starting"}

InFlight(p) == req[p].pc # "idle"
Quiet       == \A p \in Procs : ~InFlight(p)

-----------------------------------------------------------------------------
(* run() up to the start of the listener's goroutine.                      *)

\* the process ends: deferred calls have closed the backend or the system has,
\* and who still waits for an answer gets none
Exit ==
    /\ phase' = "exited"
    /\ backend' = IF backend = "open" THEN "closed" ELSE backend
    /\ listener' = IF listener = "open" THEN "closed" ELSE listener
    /\ req' = [p \in Procs |-> IF InFlight(p)
                               THEN Idle("cut") ELSE req[p]]

LoadConfig ==
    /\ phase = "loading"
    /\ sources' = NoSources
    /\ \/ /\ Loads(sources)
          /\ config' = Loaded(sources)
          /\ phase' = "opening"
          /\ UNCHANGED <<backend, listener, req>>
       \/ ~Loads(sources) /\ Exit /\ UNCHANGED config
    /\ UNCHANGED <<cause, authVars>>

\* an unknown driver, or a database that cannot be opened, ends the process
OpenBackend ==
    /\ phase = "opening"
    /\ \/ /\ config["db-driver"] \in {"postgres", "postgresql", "sqlite", Empty}
          /\ backend' = "open"
          /\ phase' = "wiring"
          /\ UNCHANGED <<listener, req>>
       \/ Exit
    /\ UNCHANGED <<sources, config, cause, authVars>>

\* the table of users is filled before anybody can read it; a password that
\* bcrypt refuses, or an unknown provider, ends the process
BuildAuth ==
    /\ phase = "wiring"
    /\ \/ /\ config["auth-provider"] \in {"basic", Empty, "oauth2"}
          /\ phase' = "starting"
          /\ UNCHANGED <<backend, listener, req>>
       \/ config["auth-provider"] # "oauth2" /\ Exit
    /\ UNCHANGED <<sources, config, cause, authVars>>

-----------------------------------------------------------------------------
(* The goroutine of the listener.                                          *)

\* NewTLSConfig: what it needs is missing
NoCertificate ==
    IF config["auto-cert"] THEN config["acme-host"] = Empty
    ELSE config["cert-file"] = Empty \/ config["key-file"] = Empty

\* files that do not load and addresses in use make it fail as well; once
\* Shutdown has been called the listener is not opened any more
Listen ==
    /\ listener = "none"
    /\ \/ /\ phase \in {"starting", "serving"}
          /\ config["tls"] => ~NoCertificate
          /\ listener' = "open"
       \/ listener' = "failed"
       \/ phase \in {"draining", "leaving"} /\ listener' = "closed"
    /\ phase \in Phases \ {"loading", "opening", "wiring", "exited"}
    /\ UNCHANGED <<sources, config, phase, backend, cause, authVars, req>>

\* Accept returns an error that is not temporary
AcceptFails ==
    /\ listener = "open"
    /\ listener' = "failed"
    /\ UNCHANGED <<sources, config, phase, backend, cause, authVars, req>>

-----------------------------------------------------------------------------
(* The requests.                                                           *)

Known(l) == l.name \in DOMAIN Passwords /\ Passwords[l.name] = l.password

\* BasicProvider.Authenticate, with no step of another request inside
PresentLogin(p, l) ==
    /\ req[p].pc = "idle"
    /\ \/ ~Known(l) /\ Refuse(p)
       \/ /\ Known(l)
          /\ req' = [req EXCEPT ![p] =
                [pc |-> "backend", user |-> l.name, login |-> l]]

Arrive(p) ==
    /\ listener = "open"
    /\ \/ /\ config["auth-provider"] = "oauth2"
          /\ \E t \in Tokens : Present(p, t)
       \/ /\ config["auth-provider"] # "oauth2"
          /\ \E l \in Logins : PresentLogin(p, l)
          /\ UNCHANGED authVars
    /\ UNCHANGED procVars

AuthStep(p) == Authenticate(p) /\ UNCHANGED procVars

\* the operation on the backend: refused for the empty user, failing when the
\* backend is closed
Perform(p) ==
    /\ req[p].pc = "backend"
    /\ req' = [req EXCEPT ![p].pc =
                 IF req[p].user = NoUser THEN "denied"
                 ELSE IF backend = "open" THEN "done" ELSE "failed"]
    /\ UNCHANGED <<procVars, authVars>>

Reply(p) ==
    /\ req[p].pc \in {"done", "denied", "failed"}
    /\ Answered(p, IF req[p].pc = "failed" THEN "failed" ELSE "settled")
    /\ UNCHANGED <<procVars, authVars>>

-----------------------------------------------------------------------------
(* The main goroutine after it has started the listener, and signals.      *)

Notify ==
    /\ phase = "starting"
    /\ phase' = "serving"
    /\ UNCHANGED <<sources, config, backend, listener, cause, authVars, req>>

\* SIGINT or SIGTERM ends the process until Notify has been called; afterwards
\* the first one is received, Shutdown closes the listener and waits.  Later
\* ones stay in sigCh, which nobody reads again.
Signal ==
    /\ \/ phase \in Starting /\ Exit /\ cause' = "early"
       \/ /\ phase = "serving"
          /\ phase' = "draining"
          /\ listener' = IF listener = "open" THEN "closed" ELSE listener
          /\ UNCHANGED <<backend, req, cause>>
    /\ UNCHANGED <<sources, config, authVars>>

\* faulty: run() returns without closing the backend
LeaveOpen ==
    /\ phase' = "leaving"
    /\ UNCHANGED <<sources, config, backend, listener, authVars, req>>

\* closeFn, called or deferred
CloseBackend ==
    /\ backend' = "closed"
    /\ phase' = "leaving"
    /\ UNCHANGED <<sources, config, listener, authVars, req>>

\* faulty: Shutdown does not wait
DrainedAtOnce == phase = "draining" /\ CloseBackend /\ UNCHANGED cause

\* Shutdown returns: no request is in flight
Drained ==
    /\ phase = "draining"
    /\ Quiet
    /\ CloseBackend
    /\ UNCHANGED cause

\* faulty: Shutdown is called with a context that has no deadline
NoDeadline == phase = "draining" /\ ~Quiet /\ UNCHANGED vars

\* Shutdown returns: ten seconds have passed
DeadlinePasses ==
    /\ phase = "draining"
    /\ ~Quiet
    /\ CloseBackend
    /\ cause' = "deadline"

\* the error of the listener makes run() return without a Shutdown
ServeError ==
    /\ phase = "serving"
    /\ listener = "failed"
    /\ CloseBackend
    /\ cause' = "listener"

Leave ==
    /\ phase = "leaving"
    /\ Exit
    /\ UNCHANGED <<sources, config, cause, authVars>>

Main == \/ LoadConfig \/ OpenBackend \/ BuildAuth \/ Notify
        \/ Drained \/ DeadlinePasses \/ ServeError \/ Leave

-----------------------------------------------------------------------------
\* issuer and clock are followed as long as there can be requests
Outside ==
    /\ phase \in {"starting", "serving", "draining", "leaving"}
    /\ Tick \/ \E k \in Kids : MakeKey(k) \/ WithdrawKey(k)
    /\ UNCHANGED procVars

Handle(p) == AuthStep(p) \/ Perform(p) \/ Reply(p)

ServerInit ==
    /\ KeyInit
    /\ req = [p \in Procs |-> Idle("settled")]
    /\ sources \in SourceSets
    /\ config = Defaults
    /\ phase = "loading"
    /\ backend = "none"
    /\ listener = "none"
    /\ cause = "none"

ServerNext ==
    \/ Main \/ Listen \/ AcceptFails \/ Signal
    \/ \E p \in Procs : Arrive(p) \/ Handle(p)
    \/ Outside

Lasting == {t \in Tokens : t.exp = Never}

\* The main goroutine and the timer of Shutdown are never stopped.  Handlers
\* are scheduled and clients read their answers while the server is serving;
\* how long that takes is not known, and not relied on once it is shutting
\* down.  Clients come back for ever with a token that does not expire, and
\* the issuer, asked for ever on behalf of such a token, answers at times.
ServerFairness ==
    /\ WF_vars(Main)
    /\ \A p \in Procs : WF_vars(phase = "serving" /\ Handle(p))
    /\ \A t \in Lasting : SF_vars(\E p \in Procs :
          listener = "open" /\ config["auth-provider"] = "oauth2"
          /\ Present(p, t) /\ UNCHANGED procVars)
    /\ \A t \in Lasting : SF_vars(\E p \in Procs :
          phase = "serving" /\ InFlight(p) /\ req[p].pc = "fetch" /\ Token(p) = t
          /\ Answer(p) /\ UNCHANGED procVars)

ServerSpec == ServerInit /\ [][ServerNext]_vars /\ ServerFairness

-----------------------------------------------------------------------------
(* Properties.                                                             *)

TokenRequests ==
    [pc : {"lookup", "fetch"}, token : Tokens, steady : BOOLEAN]
    \cup [pc : {"claims"}, token : Tokens]
    \cup [pc : {"store"}, token : Tokens, steady : BOOLEAN, set : KeySets]
AdmittedPcs  == {"backend", "done", "denied", "failed"}
TokenUsers   == [pc : AdmittedPcs, user : {t.user : t \in Tokens},
                 token : Tokens, inTime : BOOLEAN]
LoginUsers   == [pc : AdmittedPcs, user : DOMAIN Passwords, login : Logins]
Statuses     == {"settled", "failed", "cut"}

\* The process and its requests stay well typed; the backend is open from
\* openBackend to closeFn, and nothing is left in flight at the exit.
ServerTypeOK ==
    /\ issuer \in [Kids -> [made : Nat, up : BOOLEAN]]
    /\ cache \in KeySets
    /\ now \in 0 .. MaxTime
    /\ req \in [Procs -> TokenRequests \cup TokenUsers \cup LoginUsers
                         \cup [pc : {"idle"}, status : Statuses]]
    /\ sources \in SourceSets \cup {NoSources}
    /\ DOMAIN config = Settings
    /\ \A s \in Switches : config[s] \in BOOLEAN
    /\ phase \in Phases
    /\ listener \in {"none", "open", "failed", "closed"}
    /\ cause \in {"none", "early", "listener", "deadline"}
    /\ phase \in {"wiring", "starting", "serving", "draining"} <=> backend = "open"
    /\ phase = "exited" => Quiet

\* Whatever interleaves between the look-up, the fetch, the checks and the
\* operation, the backend acts only for the user whom the credentials name: by
\* a token that a key of the issuer signed, for this server, not past its
\* expiry (its last second included) when it was admitted, and with a user
\* claim; or by the password of that user.
ActsOnlyForTheAuthenticated ==
    \A p \in Procs : req[p].pc = "done" =>
        \/ \E t \in Tokens :
              /\ req[p] = [pc |-> "done", user |-> t.user, token |-> t,
                           inTime |-> TRUE]
              /\ t.key \in 1 .. issuer[t.kid].made
              /\ t.ours /\ t.user # NoUser
        \/ \E l \in Logins :
              /\ req[p] = [pc |-> "done", user |-> l.name, login |-> l]
              /\ l.name # NoUser /\ Passwords[l.name] = l.password

\* A request whose key the issuer has published all along is not refused for
\* want of it, however other requests fetch and store meanwhile: only because
\* its own fetch got no answer or an error page, or because an earlier key with
\* the same key id is cached.
SteadyKeyIsFound ==
    [][\A p \in Procs :
         /\ req[p].pc \in {"lookup", "fetch", "store"} /\ req[p].steady
         /\ req'[p] = Idle("settled")
         => \/ req[p].pc = "fetch"
            \/ req[p].pc = "store" /\ req[p].set = NoKeys
            \/ req[p].pc = "lookup" /\ ~NotShadowed(Token(p))]_vars

\* A client that keeps presenting a token that stays good, under a key id that
\* was not used before, gets in again and again: neither the answers of other
\* requests nor lost answers keep it out for ever.
Good(t) ==
    /\ phase = "serving" /\ listener = "open" /\ config["auth-provider"] = "oauth2"
    /\ Current(t) /\ NotShadowed(t) /\ t.ours
GetsIn(t) == \E p \in Procs :
    req[p].pc = "backend" /\ "token" \in DOMAIN req[p] /\ Token(p) = t
KeptClientGetsIn == \A t \in Lasting : <>[]Good(t) => []<>GetsIn(t)

\* The documented precedence, flags over environment over file over defaults,
\* decides every setting, and only a source that says something counts: the
\* value is what some source means by its word, and no later source says
\* anything.
Says(src, rank, s) ==
    CASE rank = 1 -> {Defaults[s]}
      [] rank = 2 -> {Value(s, FileOf(src)[x], YamlBool) :
                        x \in {s} \cap DOMAIN FileOf(src)}
      [] rank = 3 -> {Value(s, word, ParseBool) : word \in
                        {w \in {src.env[x] : x \in {s} \cap DOMAIN src.env} :
                           IF s \in Switches THEN w \in DOMAIN ParseBool
                                             ELSE w # Empty}}
      [] rank = 4 -> {Value(s, src.flags[x], ParseBool) :
                        x \in {s} \cap DOMAIN src.flags}
LastSourceDecides ==
    [][phase = "loading" /\ phase' = "opening" =>
         \A s \in Settings : \E r \in 1 .. 4 :
            /\ config'[s] \in Says(sources, r, s)
            /\ \A later \in r + 1 .. 4 : Says(sources, later, s) = {}]_vars

\* Once accepted, a request is answered, and its operation finds the backend
\* open, unless it outlasts the ten seconds of the shutdown, the listener broke
\* or the signal came before the process was ready for it.
CutShortOnlyForCause ==
    \A p \in Procs :
       (\/ req[p].pc = "failed"
        \/ req[p].pc = "idle" /\ req[p].status \in {"cut", "failed"})
       => cause # "none"

\* A signal that was received ends the process, however long requests take.
ShutdownEnds == phase = "draining" ~> phase = "exited"

=============================================================================
