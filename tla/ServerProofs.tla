---------------------------- MODULE ServerProofs ----------------------------
(* Theorems about Server, for any configuration sources, tokens, logins,    *)
(* keys and handlers.                                                      *)
EXTENDS Server, TLAPS

-----------------------------------------------------------------------------
(* What makes the properties inductive.                                    *)

\* The listener opens after the backend and is closed before it, and nothing is
\* in flight when run() goes on without a cause.
ProcessInv ==
    /\ phase = "loading" => sources \in SourceSets
    /\ phase \in {"loading", "opening", "wiring"} => listener = "none" /\ Quiet
    /\ phase \in {"draining", "leaving", "exited"} => listener # "open"
    /\ phase = "leaving" /\ cause = "none" => Quiet

Waiting   == {"lookup", "fetch", "store"}
Signed(t) == t.key \in 1 .. issuer[t.kid].made

\* no set holds a key that the issuer has yet to make
FromIssuer(set) == \A k \in Kids : set[k] <= issuer[k].made

Admitted(r) ==
    \/ \E t \in Tokens : /\ r = [pc |-> r.pc, user |-> t.user, token |-> t,
                                 inTime |-> TRUE]
                         /\ Signed(t) /\ t.ours
    \/ \E l \in Logins : /\ r = [pc |-> r.pc, user |-> l.name, login |-> l]
                         /\ Known(l)

\* what the steps of a request so far have made sure of
RequestOK(r) ==
    /\ r.pc \in Waiting => /\ r.token.key <= issuer[r.token.kid].made
                           /\ r.steady => Current(r.token)
    /\ r.pc = "store" => /\ FromIssuer(r.set)
                         /\ r.steady => \/ r.set = NoKeys
                                        \/ r.set[r.token.kid] = r.token.key
    /\ r.pc = "claims" => Signed(r.token)
    /\ r.pc \in AdmittedPcs => Admitted(r)
    /\ r.pc = "done" => r.user # NoUser
    /\ \/ r.pc = "failed"
       \/ r.pc = "idle" /\ r.status \in {"cut", "failed"}
       => cause # "none"

ServerInv ==
    /\ ServerTypeOK
    /\ ProcessInv
    /\ FromIssuer(cache)
    /\ \A p \in Procs : RequestOK(req[p])

-----------------------------------------------------------------------------
(* Configuration.                                                          *)

\* The layers name settings only, and give switches booleans only, so the
\* result has each setting once and each switch is a boolean.
LEMMA LoadedSettings ==
    ASSUME NEW src \in SourceSets, Loads(src)
    PROVE  /\ DOMAIN Loaded(src) = Settings
           /\ \A s \in Switches : Loaded(src)[s] \in BOOLEAN
<1> DEFINE file == FileLayer(src)  env == EnvLayer(src.env)  flags == FlagLayer(src.flags)
           Fits(layer) == /\ DOMAIN layer \subseteq Settings
                          /\ \A s \in Switches \cap DOMAIN layer : layer[s] \in BOOLEAN
<1>1. Fits(file)
  <2>1. DOMAIN FileOf(src) \subseteq Settings
    BY FilesAssumption DEF Loads, FileOf
  <2>. QED  BY <2>1, WordsAssumption DEF Loads, Parses, FileLayer, Layer, Value
<1>2. Fits(env)
  <2>1. DOMAIN src.env \subseteq Settings
    BY SourcesAssumption
  <2>. QED  BY <2>1, WordsAssumption DEF EnvLayer, Layer, Value
<1>3. Fits(flags)
  BY WordsAssumption DEF Loads, Parses, FlagLayer, Layer, Value
<1>4. DOMAIN Loaded(src) = Settings
  <2>1. DOMAIN Loaded(src)
          = DOMAIN flags \cup (DOMAIN env \cup (DOMAIN file \cup DOMAIN Defaults))
    BY DEF Loaded, Over
  <2>. QED  BY <1>1, <1>2, <1>3, <2>1 DEF Settings
<1>5. ASSUME NEW s \in Switches
      PROVE  Loaded(src)[s] \in BOOLEAN
  <2>1. s \in Settings /\ Defaults[s] \in BOOLEAN
    BY SwitchesAssumption
  <2>2. Loaded(src)[s] \in {flags[s] : x \in {s} \cap DOMAIN flags}
                         \cup {env[s] : x \in {s} \cap DOMAIN env}
                         \cup {file[s] : x \in {s} \cap DOMAIN file}
                         \cup {Defaults[s]}
    BY <2>1 DEF Loaded, Over, Settings
  <2>. QED  BY <1>1, <1>2, <1>3, <2>1, <2>2
<1>. QED  BY <1>4, <1>5

-----------------------------------------------------------------------------
(* Requests.                                                               *)

Requests == TokenRequests \cup TokenUsers \cup LoginUsers
            \cup [pc : {"idle"}, status : Statuses]

\* The state of a request tells which fields it has.
LEMMA RequestShapes ==
    ASSUME NEW r \in Requests
    PROVE  /\ r.pc \in {"lookup", "fetch"} =>
                 r \in [pc : {"lookup", "fetch"}, token : Tokens, steady : BOOLEAN]
           /\ r.pc = "store" => r \in [pc : {"store"}, token : Tokens,
                                      steady : BOOLEAN, set : KeySets]
           /\ r.pc = "claims" => r \in [pc : {"claims"}, token : Tokens]
           /\ r.pc \in AdmittedPcs => r \in TokenUsers \cup LoginUsers
           /\ r.pc = "idle" => r \in [pc : {"idle"}, status : Statuses]
           /\ r.pc \in {"lookup", "fetch", "store", "claims"} => r.token \in Tokens
           /\ r.pc \in Waiting \cup {"claims", "idle"} \cup AdmittedPcs
  BY DEF Requests, TokenRequests, TokenUsers, LoginUsers, AdmittedPcs, Waiting

LEMMA TokenParts ==
    ASSUME NEW t \in Tokens
    PROVE  /\ t.kid \in Kids /\ t.key \in Nat /\ t.exp \in Nat
           /\ t.ours \in BOOLEAN
  BY TokenAssumption, ClockAssumption

\* What a request has made sure of depends on the issuer and the cause only.
LEMMA RequestStillOK ==
    ASSUME NEW r, RequestOK(r), UNCHANGED issuer, cause # "none" => cause' # "none"
    PROVE  RequestOK(r)'
  BY DEF RequestOK, Current, Published, Signed, FromIssuer, Admitted, Known

\* A request of a client that has come in, while the process stays where it is,
\* goes on to a state that is right for it.
LEMMA RequestStep ==
    ASSUME ServerInv, NEW p \in Procs, InFlight(p) \/ listener = "open",
           NEW r \in Requests, RequestOK(r), req' = [req EXCEPT ![p] = r],
           cache' \in KeySets, FromIssuer(cache'),
           UNCHANGED <<procVars, issuer, now>>
    PROVE  ServerInv'
<1> USE DEF procVars
<1>1. /\ phase \notin {"loading", "opening", "wiring", "exited"}
      /\ phase = "leaving" => cause # "none"
  BY DEF ServerInv, ServerTypeOK, ProcessInv, Quiet, InFlight
<1>2. ServerTypeOK'
  BY <1>1 DEF ServerInv, ServerTypeOK, Requests
<1>3. ProcessInv'
  BY <1>1 DEF ServerInv, ProcessInv
<1>4. FromIssuer(cache)'
  BY DEF FromIssuer
<1>5. ASSUME NEW q \in Procs
      PROVE  RequestOK(req[q])'
  <2>1. RequestOK(req'[q])
    BY DEF ServerInv, ServerTypeOK
  <2>2. PICK x : x = req'[q]
    OBVIOUS
  <2>3. RequestOK(x)'
    BY <2>1, <2>2, RequestStillOK
  <2>. QED  BY <2>2, <2>3 DEF RequestOK, Admitted
<1>. QED  BY <1>2, <1>3, <1>4, <1>5 DEF ServerInv

\* A request that is refused is idle again.
LEMMA RefuseStep ==
    ASSUME ServerInv, NEW p \in Procs, InFlight(p) \/ listener = "open", Refuse(p),
           cache' \in KeySets, FromIssuer(cache'),
           UNCHANGED <<procVars, issuer, now>>
    PROVE  ServerInv'
<1>1. Idle("settled") \in Requests /\ RequestOK(Idle("settled"))
  BY DEF Idle, Requests, Statuses, RequestOK, Waiting, AdmittedPcs
<1>. QED  BY <1>1, RequestStep DEF Refuse, Answered

LEMMA SameCache ==
    ASSUME ServerInv, UNCHANGED cache
    PROVE  cache' \in KeySets /\ FromIssuer(cache')
  BY DEF ServerInv, ServerTypeOK

\* The key that was found is the one that has signed the token, or the request
\* is refused.
LEMMA VerifyStep ==
    ASSUME ServerInv, NEW p \in Procs, req[p].pc \in Waiting, NEW key \in Nat,
           key # NoKey, key <= issuer[Token(p).kid].made, Verify(p, key),
           cache' \in KeySets, FromIssuer(cache'),
           UNCHANGED <<procVars, issuer, now>>
    PROVE  ServerInv'
<1>1. InFlight(p)
  BY DEF InFlight, Waiting
<1>2. req[p] \in Requests
  BY DEF ServerInv, ServerTypeOK, Requests
<1>3. Token(p) \in Tokens
  BY <1>2, RequestShapes DEF Token, Waiting
<1>4. CASE key = Token(p).key /\ req' = [req EXCEPT ![p] = [pc |-> "claims", token |-> Token(p)]]
  <2> DEFINE r == [pc |-> "claims", token |-> Token(p)]
  <2>1. r \in Requests
    BY <1>3 DEF Requests, TokenRequests
  <2>2. issuer[Token(p).kid].made \in Nat
    BY <1>3, TokenParts DEF ServerInv, ServerTypeOK
  <2>3. RequestOK(r)
    BY <1>4, <2>2 DEF RequestOK, Waiting, AdmittedPcs, Signed, NoKey
  <2>. QED  BY <1>1, <1>4, <2>1, <2>3, RequestStep
<1>5. CASE Refuse(p)
  BY <1>1, <1>5, RefuseStep
<1>. QED  BY <1>4, <1>5 DEF Verify

LEMMA PresentStep ==
    ASSUME ServerInv, NEW p \in Procs, listener = "open", NEW t \in Tokens,
           Present(p, t), UNCHANGED procVars
    PROVE  ServerInv'
<1> DEFINE r == [pc |-> "lookup", token |-> t, steady |-> Current(t)]
<1>1. r \in Requests
  BY DEF Requests, TokenRequests, Current
<1>2. RequestOK(r)
  BY DEF Present, RequestOK, Waiting, AdmittedPcs
<1>. QED  BY <1>1, <1>2, RequestStep, SameCache DEF Present, keyVars

LEMMA PresentLoginStep ==
    ASSUME ServerInv, NEW p \in Procs, listener = "open", NEW l \in Logins,
           PresentLogin(p, l), UNCHANGED <<authVars, procVars>>
    PROVE  ServerInv'
<1>1. CASE Refuse(p)
  BY <1>1, RefuseStep, SameCache DEF authVars
<1>2. CASE Known(l) /\ req' = [req EXCEPT ![p] =
                 [pc |-> "backend", user |-> l.name, login |-> l]]
  <2> DEFINE r == [pc |-> "backend", user |-> l.name, login |-> l]
  <2>1. r \in Requests
    BY <1>2 DEF Requests, LoginUsers, AdmittedPcs, Known
  <2>2. RequestOK(r)
    BY <1>2 DEF RequestOK, Waiting, AdmittedPcs, Admitted
  <2>. QED  BY <1>2, <2>1, <2>2, RequestStep, SameCache DEF authVars
<1>. QED  BY <1>1, <1>2 DEF PresentLogin

LEMMA LookUpStep ==
    ASSUME ServerInv, NEW p \in Procs, LookUp(p), UNCHANGED procVars
    PROVE  ServerInv'
<1>1. req[p].pc = "lookup" /\ req[p] \in Requests /\ RequestOK(req[p])
  BY DEF LookUp, ServerInv, ServerTypeOK, Requests
<1>2. /\ req[p] \in [pc : {"lookup", "fetch"}, token : Tokens, steady : BOOLEAN]
      /\ Token(p) \in Tokens
  BY <1>1, RequestShapes DEF Token
<1>3. UNCHANGED <<cache, issuer, now>>
  BY DEF LookUp, keyVars
<1>4. CASE cache[Token(p).kid] # NoKey /\ Verify(p, cache[Token(p).kid])
  <2>1. /\ cache[Token(p).kid] \in Nat
        /\ cache[Token(p).kid] <= issuer[Token(p).kid].made
    BY <1>2, TokenParts DEF ServerInv, ServerTypeOK, KeySets, FromIssuer
  <2>. QED  BY <1>1, <1>3, <1>4, <2>1, VerifyStep, SameCache DEF Waiting
<1>5. CASE req' = [req EXCEPT ![p].pc = "fetch"]
  <2> DEFINE r == [req[p] EXCEPT !.pc = "fetch"]
  <2>1. r \in Requests
    BY <1>2 DEF Requests, TokenRequests
  <2>2. RequestOK(r)
    BY <1>1, <1>2 DEF RequestOK, Waiting, AdmittedPcs
  <2>. QED  BY <1>1, <1>3, <1>5, <2>1, <2>2, RequestStep, SameCache DEF InFlight
<1>. QED  BY <1>4, <1>5 DEF LookUp

LEMMA AnswerStep ==
    ASSUME ServerInv, NEW p \in Procs, Answer(p) \/ AnswerError(p), UNCHANGED procVars
    PROVE  ServerInv'
<1>1. req[p].pc = "fetch" /\ req[p] \in Requests /\ RequestOK(req[p])
  BY DEF Answer, AnswerError, ServerInv, ServerTypeOK, Requests
<1>2. /\ req[p] \in [pc : {"lookup", "fetch"}, token : Tokens, steady : BOOLEAN]
      /\ Token(p) = req[p].token /\ Token(p) \in Tokens
  BY <1>1, RequestShapes DEF Token
<1>3. \A k \in Kids : issuer[k].made \in Nat
  BY DEF ServerInv, ServerTypeOK
<1>4. PICK set \in {Published, NoKeys} :
         req' = [req EXCEPT ![p] = [pc |-> "store", token |-> Token(p),
                                    steady |-> req[p].steady, set |-> set]]
  BY DEF Answer, AnswerError
<1> DEFINE r == [pc |-> "store", token |-> Token(p), steady |-> req[p].steady, set |-> set]
<1>5. set \in KeySets /\ FromIssuer(set)
  BY <1>3 DEF Published, NoKeys, NoKey, KeySets, FromIssuer
<1>6. r \in Requests
  BY <1>2, <1>5 DEF Requests, TokenRequests
<1>7. RequestOK(r)
  BY <1>1, <1>2, <1>5 DEF RequestOK, Waiting, AdmittedPcs, Current
<1>. QED  BY <1>1, <1>4, <1>6, <1>7, RequestStep, SameCache
          DEF InFlight, Answer, AnswerError, keyVars

LEMMA StoreStep ==
    ASSUME ServerInv, NEW p \in Procs, Store(p), UNCHANGED procVars
    PROVE  ServerInv'
<1>1. req[p].pc = "store" /\ req[p] \in Requests /\ RequestOK(req[p])
  BY DEF Store, ServerInv, ServerTypeOK, Requests
<1>2. /\ req[p] \in [pc : {"store"}, token : Tokens, steady : BOOLEAN, set : KeySets]
      /\ Token(p) \in Tokens
  BY <1>1, RequestShapes DEF Token
<1>3. cache' \in KeySets /\ FromIssuer(cache')
  BY <1>1, <1>2 DEF Store, RequestOK
<1>4. UNCHANGED <<issuer, now>> /\ InFlight(p)
  BY <1>1 DEF Store, InFlight
<1> DEFINE key == req[p].set[Token(p).kid]
<1>5. key \in Nat /\ key <= issuer[Token(p).kid].made
  BY <1>1, <1>2, TokenParts DEF KeySets, RequestOK, FromIssuer
<1>6. CASE key # NoKey /\ Verify(p, key)
  BY <1>1, <1>3, <1>4, <1>5, <1>6, VerifyStep DEF Waiting
<1>7. CASE Refuse(p)
  BY <1>3, <1>4, <1>7, RefuseStep
<1>. QED  BY <1>6, <1>7 DEF Store, FindIn

LEMMA FetchFailsStep ==
    ASSUME ServerInv, NEW p \in Procs, FetchFails(p), UNCHANGED procVars
    PROVE  ServerInv'
  BY RefuseStep, SameCache DEF FetchFails, InFlight, keyVars

\* Who passes has signed, ours and unexpired claims.
LEMMA CheckClaimsStep ==
    ASSUME ServerInv, NEW p \in Procs, CheckClaims(p), UNCHANGED procVars
    PROVE  ServerInv'
<1>1. /\ req[p].pc = "claims" /\ req[p] \in Requests /\ RequestOK(req[p])
      /\ UNCHANGED <<cache, issuer, now>> /\ now \in Nat
  BY DEF CheckClaims, keyVars, ServerInv, ServerTypeOK, Requests
<1>2. InFlight(p) /\ Token(p) \in Tokens /\ Token(p) = req[p].token
  BY <1>1, RequestShapes DEF Token, InFlight
<1>3. CASE Refuse(p)
  BY <1>1, <1>2, <1>3, RefuseStep, SameCache
<1>4. CASE /\ ~Expired(Token(p)) /\ Token(p).ours
           /\ req' = [req EXCEPT ![p] =
                [pc |-> "backend", user |-> Token(p).user, token |-> Token(p),
                 inTime |-> now <= Token(p).exp]]
  <2>1. (now <= Token(p).exp) = TRUE
    BY <1>1, <1>2, <1>4, TokenParts DEF Expired
  <2> DEFINE r == [pc |-> "backend", user |-> Token(p).user, token |-> Token(p),
                   inTime |-> TRUE]
  <2>2. req' = [req EXCEPT ![p] = r]
    BY <1>4, <2>1
  <2>3. r \in Requests
    BY <1>2 DEF Requests, TokenUsers, AdmittedPcs
  <2>4. Admitted(r)
    BY <1>1, <1>2, <1>4 DEF RequestOK, Admitted
  <2>5. RequestOK(r)
    BY <2>4 DEF RequestOK, Waiting
  <2>. QED  BY <1>1, <1>2, <2>2, <2>3, <2>5, RequestStep, SameCache
<1>. QED  BY <1>3, <1>4 DEF CheckClaims, Invalid

\* A new state leaves the rest of the request of a token's user.
LEMMA StateOfTokenUser ==
    ASSUME NEW r, NEW old, NEW user, NEW token, NEW inTime, NEW pc,
           r = [pc |-> old, user |-> user, token |-> token, inTime |-> inTime]
    PROVE  [r EXCEPT !.pc = pc]
             = [pc |-> pc, user |-> user, token |-> token, inTime |-> inTime]
  OBVIOUS

\* With a request in flight the backend is closed for a cause only.
LEMMA PerformStep ==
    ASSUME ServerInv, NEW p \in Procs, Perform(p)
    PROVE  ServerInv'
<1>1. req[p].pc = "backend" /\ req[p] \in Requests /\ RequestOK(req[p])
  BY DEF Perform, ServerInv, ServerTypeOK, Requests
<1>2. req[p] \in TokenUsers \cup LoginUsers /\ InFlight(p)
  BY <1>1, RequestShapes DEF AdmittedPcs, InFlight
<1>3. PICK pc \in {"denied", "done", "failed"} :
         /\ req' = [req EXCEPT ![p].pc = pc]
         /\ pc = "done" => req[p].user # NoUser
         /\ pc = "failed" => backend # "open"
  BY DEF Perform
<1> DEFINE r == [req[p] EXCEPT !.pc = pc]
<1>4. r \in Requests
  BY <1>2 DEF Requests, TokenUsers, LoginUsers, AdmittedPcs
<1>5. Admitted(r)
  <2>1. Admitted(req[p])
    BY <1>1 DEF RequestOK, AdmittedPcs
  <2>2. ASSUME NEW t \in Tokens, Signed(t), t.ours,
               req[p] = [pc |-> req[p].pc, user |-> t.user, token |-> t, inTime |-> TRUE]
        PROVE  Admitted(r)
    <3>1. PICK yes : yes = TRUE
      OBVIOUS
    <3>2. req[p] = [pc |-> req[p].pc, user |-> t.user, token |-> t, inTime |-> yes]
      BY <2>2, <3>1
    <3>3. r = [pc |-> pc, user |-> t.user, token |-> t, inTime |-> yes]
      BY <3>2, StateOfTokenUser
    <3>4. r = [pc |-> r.pc, user |-> t.user, token |-> t, inTime |-> TRUE]
      BY <3>1, <3>3
    <3>. QED  BY <2>2, <3>4 DEF Admitted
  <2>3. ASSUME NEW l \in Logins, Known(l),
               req[p] = [pc |-> req[p].pc, user |-> l.name, login |-> l]
        PROVE  Admitted(r)
    <3>1. r = [pc |-> pc, user |-> l.name, login |-> l]
      BY <2>3
    <3>. QED  BY <2>3, <3>1 DEF Admitted
  <2>. QED  BY <2>1, <2>2, <2>3 DEF Admitted
<1>6. pc = "failed" => cause # "none"
  BY <1>2, <1>3 DEF ServerInv, ServerTypeOK, ProcessInv, Phases, Quiet
<1>7. r.pc = pc /\ r.user = req[p].user
  BY <1>2 DEF TokenUsers, LoginUsers
<1>8. RequestOK(r)
  BY <1>3, <1>5, <1>6, <1>7 DEF RequestOK, Waiting
<1>. QED  BY <1>2, <1>3, <1>4, <1>8, RequestStep, SameCache DEF Perform, authVars

LEMMA ReplyStep ==
    ASSUME ServerInv, NEW p \in Procs, Reply(p)
    PROVE  ServerInv'
<1>1. InFlight(p) /\ UNCHANGED <<procVars, issuer, cache, now>>
  BY DEF Reply, InFlight, authVars
<1>2. CASE req[p].pc # "failed"
  BY <1>1, <1>2, RefuseStep, SameCache DEF Reply, Refuse
<1>3. CASE req[p].pc = "failed"
  <2>1. cause # "none"
    BY <1>3 DEF ServerInv, RequestOK
  <2>2. Idle("failed") \in Requests /\ RequestOK(Idle("failed"))
    BY <2>1 DEF Idle, Requests, Statuses, RequestOK, Waiting, AdmittedPcs
  <2>. QED  BY <1>1, <1>3, <2>2, RequestStep, SameCache DEF Reply, Answered
<1>. QED  BY <1>2, <1>3

-----------------------------------------------------------------------------
(* The process, the issuer and the clock.                                  *)

\* Nothing that a request has made sure of is lost when the issuer makes a key
\* or withdraws one: the request is only no longer sure that its key is current.
LEMMA UnsettleStep ==
    ASSUME ServerInv, NEW k \in Kids, Unsettle(k),
           issuer' \in [Kids -> [made : Nat, up : BOOLEAN]],
           \A x \in Kids : /\ issuer'[x].made >= issuer[x].made
                           /\ x # k => issuer'[x] = issuer[x],
           UNCHANGED <<procVars, cache, now>>,
           phase \notin {"loading", "opening", "wiring", "exited"}
    PROVE  ServerInv'
<1> USE DEF procVars
<1>1. /\ req \in [Procs -> Requests]
      /\ \A x \in Kids : issuer[x].made \in Nat /\ issuer'[x].made \in Nat
  BY DEF ServerInv, ServerTypeOK, Requests
<1>2. ASSUME NEW p \in Procs
      PROVE  req'[p] \in Requests /\ RequestOK(req[p])'
  <2>1. PICK r \in Requests : r = req[p] /\ RequestOK(r)
    BY <1>1 DEF ServerInv
  <2>2. CASE r.pc \in Waiting /\ r.token.kid = k
    <3> DEFINE s == [r EXCEPT !.steady = FALSE]
    <3>1. req'[p] = s
      BY <2>1, <2>2 DEF Unsettle, Waiting
    <3>2. CASE r.pc = "store"
      <4>1. r \in [pc : {"store"}, token : Tokens, steady : BOOLEAN, set : KeySets]
        BY <3>2, RequestShapes
      <4>2. /\ s \in [pc : {"store"}, token : Tokens, steady : BOOLEAN, set : KeySets]
            /\ s.set = r.set /\ s.token = r.token /\ s.steady = FALSE
            /\ s.pc = "store"
        BY <4>1
      <4>3. FromIssuer(s.set)'
        BY <1>1, <2>1, <3>2, <4>1, <4>2 DEF RequestOK, FromIssuer, KeySets
      <4>4. s.token.key <= issuer'[s.token.kid].made
        BY <1>1, <2>1, <2>2, <4>1, <4>2, TokenParts DEF RequestOK
      <4>. QED  BY <3>1, <4>2, <4>3, <4>4
                DEF Requests, TokenRequests, RequestOK, Waiting, AdmittedPcs, FromIssuer
    <3>3. CASE r.pc \in {"lookup", "fetch"}
      <4>1. r \in [pc : {"lookup", "fetch"}, token : Tokens, steady : BOOLEAN]
        BY <3>3, RequestShapes
      <4>2. /\ s \in [pc : {"lookup", "fetch"}, token : Tokens, steady : BOOLEAN]
            /\ s.token = r.token /\ s.steady = FALSE
        BY <4>1
      <4>3. s.token.key <= issuer'[s.token.kid].made
        BY <1>1, <2>1, <2>2, <4>1, <4>2, TokenParts DEF RequestOK
      <4>. QED  BY <3>1, <4>2, <4>3
                DEF Requests, TokenRequests, RequestOK, Waiting, AdmittedPcs
    <3>. QED  BY <2>2, <3>2, <3>3 DEF Waiting
  <2>3. CASE ~(r.pc \in Waiting /\ r.token.kid = k)
    <3>1. req'[p] = r
      BY <2>1, <2>3 DEF Unsettle, Waiting
    <3>2. r.pc \in Waiting => /\ issuer'[r.token.kid] = issuer[r.token.kid]
                              /\ r.token.kid \in Kids
      BY <2>1, <2>3, RequestShapes, TokenParts DEF Waiting
    <3>3. \A set \in KeySets : FromIssuer(set) => FromIssuer(set)'
      BY <1>1 DEF FromIssuer, KeySets
    <3>4. \A t \in Tokens : Signed(t) => Signed(t)'
      BY <1>1, TokenParts DEF Signed
    <3>5. r.pc = "store" => r.set \in KeySets
      BY <2>1, RequestShapes
    <3>6. r.pc = "claims" => r.token \in Tokens
      BY <2>1, RequestShapes
    <3>7. Admitted(r) => Admitted(r)'
      BY <3>4 DEF Admitted, Known
    <3>8. RequestOK(r)'
      BY <2>1, <3>2, <3>3, <3>4, <3>5, <3>6, <3>7
         DEF RequestOK, Current, Published, FromIssuer
    <3>. QED  BY <3>1, <3>8 DEF RequestOK, Admitted
  <2>. QED  BY <2>2, <2>3
<1>3. DOMAIN req' = Procs /\ req' = [p \in Procs |-> req'[p]]
  BY DEF Unsettle
<1>4. ServerTypeOK'
  BY <1>2, <1>3 DEF ServerInv, ServerTypeOK, Requests
<1>5. ProcessInv'
  <2>1. \A p \in Procs : req'[p].pc = req[p].pc
    BY <1>1 DEF Unsettle, Requests, ServerInv, ServerTypeOK
  <2>. QED  BY <2>1 DEF ServerInv, ProcessInv, Quiet, InFlight
<1>6. FromIssuer(cache)'
  BY <1>1 DEF ServerInv, ServerTypeOK, FromIssuer, KeySets
<1>. QED  BY <1>2, <1>4, <1>5, <1>6 DEF ServerInv

LEMMA WithdrawnRecord ==
    /\ \A i, k, b : [i EXCEPT ![k].up = b] = [i EXCEPT ![k] = [i[k] EXCEPT !.up = b]]
    /\ \A r \in [made : Nat, up : BOOLEAN], b \in BOOLEAN :
          /\ [r EXCEPT !.up = b] \in [made : Nat, up : BOOLEAN]
          /\ [r EXCEPT !.up = b].made = r.made
  OBVIOUS

LEMMA OutsideStep ==
    ASSUME ServerInv, Outside
    PROVE  ServerInv'
<1>1. phase \notin {"loading", "opening", "wiring", "exited"} /\ UNCHANGED procVars
  BY DEF Outside
<1>2. CASE Tick
  <2>1. ServerTypeOK'
    BY <1>1, <1>2, ClockAssumption
       DEF ServerInv, ServerTypeOK, Tick, keyVars, procVars
  <2>2. ProcessInv'
    BY <1>1, <1>2 DEF ServerInv, ProcessInv, Tick, procVars, Quiet, InFlight
  <2>3. \A p \in Procs : RequestOK(req[p])'
    <3>1. UNCHANGED <<issuer, req, cause>>
      BY <1>1, <1>2 DEF Tick, keyVars, procVars
    <3>. QED  BY <3>1 DEF ServerInv, RequestOK, Current, Published, Signed,
                          FromIssuer, Admitted, Known
  <2>4. FromIssuer(cache)'
    BY <1>2 DEF ServerInv, FromIssuer, Tick, keyVars
  <2>. QED  BY <2>1, <2>2, <2>3, <2>4 DEF ServerInv
<1>3. ASSUME NEW k \in Kids, MakeKey(k) \/ WithdrawKey(k)
      PROVE  ServerInv'
  <2>1. /\ issuer' \in [Kids -> [made : Nat, up : BOOLEAN]]
        /\ \A x \in Kids : /\ issuer'[x].made >= issuer[x].made
                           /\ x # k => issuer'[x] = issuer[x]
    <3>1. /\ issuer \in [Kids -> [made : Nat, up : BOOLEAN]]
          /\ issuer[k] \in [made : Nat, up : BOOLEAN]
      BY DEF ServerInv, ServerTypeOK
    <3>2. PICK v \in [made : Nat, up : BOOLEAN] :
             issuer' = [issuer EXCEPT ![k] = v] /\ v.made >= issuer[k].made
      <4>1. CASE MakeKey(k)
        <5> DEFINE v == [made |-> issuer[k].made + 1, up |-> TRUE]
        <5>1. v \in [made : Nat, up : BOOLEAN] /\ v.made >= issuer[k].made
          BY <3>1
        <5>. QED  BY <4>1, <5>1 DEF MakeKey
      <4>2. CASE WithdrawKey(k)
        <5>1. PICK no \in BOOLEAN : no = FALSE
          OBVIOUS
        <5>2. issuer' = [issuer EXCEPT ![k].up = no]
          BY <4>2, <5>1 DEF WithdrawKey
        <5>3. issuer' = [issuer EXCEPT ![k] = [issuer[k] EXCEPT !.up = no]]
          BY <5>2, WithdrawnRecord
        <5> DEFINE v == [issuer[k] EXCEPT !.up = no]
        <5>4. v \in [made : Nat, up : BOOLEAN] /\ v.made = issuer[k].made
          BY <3>1, WithdrawnRecord
        <5>5. issuer[k].made \in Nat
          BY <3>1
        <5>6. issuer' = [issuer EXCEPT ![k] = v] /\ v.made >= issuer[k].made
          BY <5>3, <5>4, <5>5
        <5> HIDE DEF v
        <5>. QED  BY <5>4, <5>6
      <4>. QED  BY <1>3, <4>1, <4>2
    <3>. QED  BY <3>1, <3>2
  <2>. QED  BY <1>1, <1>3, <2>1, UnsettleStep DEF MakeKey, WithdrawKey
<1>. QED  BY <1>1, <1>2, <1>3 DEF Outside

\* The process goes on, and requests stay as they are.
LEMMA KeepStep ==
    ASSUME ServerInv, UNCHANGED <<authVars, req>>, ServerTypeOK', ProcessInv',
           cause # "none" => cause' # "none"
    PROVE  ServerInv'
<1>1. FromIssuer(cache)'
  BY DEF ServerInv, FromIssuer, authVars
<1>2. \A p \in Procs : RequestOK(req[p])'
  BY DEF ServerInv, RequestOK, authVars, Current, Published, Signed, FromIssuer,
         Admitted, Known
<1>. QED  BY <1>1, <1>2 DEF ServerInv

\* The process ends, and cuts requests short for a cause only.
LEMMA ExitStep ==
    ASSUME ServerInv, Exit, UNCHANGED <<config, authVars>>,
           sources' \in {sources, NoSources},
           cause' \in {"none", "early", "listener", "deadline"},
           cause # "none" => cause' # "none", Quiet \/ cause' # "none"
    PROVE  ServerInv'
<1>1. ASSUME NEW p \in Procs
      PROVE  /\ req'[p] \in Requests /\ req'[p].pc = "idle"
             /\ RequestOK(req[p])'
  <2>1. CASE InFlight(p)
    <3>1. req'[p] = Idle("cut") /\ cause' # "none"
      BY <2>1 DEF Exit, Quiet
    <3>. QED  BY <3>1 DEF Idle, Requests, Statuses, RequestOK, Waiting, AdmittedPcs
  <2>2. CASE ~InFlight(p)
    <3>1. req'[p] = req[p] /\ req[p].pc = "idle" /\ req[p] \in Requests
      BY <2>2 DEF Exit, InFlight, ServerInv, ServerTypeOK, Requests
    <3>2. RequestOK(req[p])
      BY DEF ServerInv
    <3>. QED  BY <3>1, <3>2 DEF RequestOK, Waiting, AdmittedPcs
  <2>. QED  BY <2>1, <2>2
<1>2. DOMAIN req' = Procs /\ req' = [p \in Procs |-> req'[p]]
  BY DEF Exit
<1>3. Quiet'
  BY <1>1 DEF Quiet, InFlight
<1>4. ServerTypeOK'
  BY <1>1, <1>2, <1>3 DEF ServerInv, ServerTypeOK, Requests, Exit, Phases, authVars
<1>5. ProcessInv'
  BY DEF ProcessInv, Exit
<1>6. FromIssuer(cache)'
  BY DEF ServerInv, FromIssuer, authVars
<1>. QED  BY <1>1, <1>4, <1>5, <1>6 DEF ServerInv

LEMMA MainStep ==
    ASSUME ServerInv, Main
    PROVE  ServerInv'
<1> USE DEF authVars
<1>1. CASE LoadConfig
  <2>1. CASE Loads(sources) /\ config' = Loaded(sources) /\ phase' = "opening"
             /\ UNCHANGED <<backend, listener, req>>
    <3>1. /\ DOMAIN config' = Settings
          /\ \A s \in Switches : config'[s] \in BOOLEAN
      BY <1>1, <2>1, LoadedSettings DEF LoadConfig, ServerInv, ProcessInv
    <3>2. ServerTypeOK'
      BY <1>1, <2>1, <3>1 DEF LoadConfig, ServerInv, ServerTypeOK, Phases
    <3>3. ProcessInv'
      BY <1>1, <2>1 DEF LoadConfig, ServerInv, ProcessInv, Quiet, InFlight
    <3>. QED  BY <1>1, <3>2, <3>3, <2>1, KeepStep DEF LoadConfig
  <2>2. CASE Exit /\ UNCHANGED config
    <3>1. Quiet /\ cause \in {"none", "early", "listener", "deadline"}
      BY <1>1 DEF LoadConfig, ServerInv, ServerTypeOK, ProcessInv
    <3>. QED  BY <1>1, <2>2, <3>1, ExitStep DEF LoadConfig
  <2>. QED  BY <1>1, <2>1, <2>2 DEF LoadConfig
<1>2. CASE OpenBackend \/ BuildAuth
  <2>1. CASE /\ \/ backend' = "open" /\ phase' = "wiring" /\ OpenBackend
                \/ backend' = backend /\ phase' = "starting" /\ BuildAuth
             /\ UNCHANGED <<listener, req>>
    <3>1. ServerTypeOK'
      BY <1>2, <2>1 DEF OpenBackend, BuildAuth, ServerInv, ServerTypeOK, Phases
    <3>2. ProcessInv'
      BY <1>2, <2>1 DEF OpenBackend, BuildAuth, ServerInv, ProcessInv, Quiet, InFlight
    <3>. QED  BY <1>2, <2>1, <3>1, <3>2, KeepStep DEF OpenBackend, BuildAuth
  <2>2. CASE Exit
    <3>1. Quiet /\ cause \in {"none", "early", "listener", "deadline"}
      BY <1>2 DEF OpenBackend, BuildAuth, ServerInv, ServerTypeOK, ProcessInv
    <3>. QED  BY <1>2, <2>2, <3>1, ExitStep DEF OpenBackend, BuildAuth
  <2>. QED  BY <1>2, <2>1, <2>2 DEF OpenBackend, BuildAuth
<1>3. CASE Notify
  <2>1. ServerTypeOK'
    BY <1>3 DEF Notify, ServerInv, ServerTypeOK, Phases
  <2>2. ProcessInv'
    BY <1>3 DEF Notify, ServerInv, ProcessInv
  <2>. QED  BY <1>3, <2>1, <2>2, KeepStep DEF Notify
<1>4. CASE Drained \/ DeadlinePasses \/ ServeError
  <2>1. cause' \in {"none", "early", "listener", "deadline"}
        /\ (cause # "none" => cause' # "none") /\ CloseBackend
        /\ (Quiet \/ cause' # "none") /\ listener # "open"
    BY <1>4 DEF Drained, DeadlinePasses, ServeError, CloseBackend, ServerInv,
                ServerTypeOK, ProcessInv
  <2>2. ServerTypeOK'
    BY <2>1 DEF CloseBackend, ServerInv, ServerTypeOK, Phases
  <2>3. ProcessInv'
    BY <2>1 DEF CloseBackend, ServerInv, ProcessInv, Quiet, InFlight
  <2>. QED  BY <2>1, <2>2, <2>3, KeepStep DEF CloseBackend
<1>5. CASE Leave
  <2>1. (Quiet \/ cause # "none") /\ cause \in {"none", "early", "listener", "deadline"}
    BY <1>5 DEF Leave, ServerInv, ServerTypeOK, ProcessInv
  <2>. QED  BY <1>5, <2>1, ExitStep DEF Leave
<1>. QED  BY <1>1, <1>2, <1>3, <1>4, <1>5 DEF Main

LEMMA ListenerStep ==
    ASSUME ServerInv, Listen \/ AcceptFails
    PROVE  ServerInv'
<1>1. ServerTypeOK'
  <2>1. /\ UNCHANGED <<sources, config, phase, backend, cause, issuer, cache, now, req>>
        /\ listener' \in {"none", "open", "failed", "closed"}
    BY DEF Listen, AcceptFails, authVars
  <2>2. UNCHANGED Quiet
    BY <2>1 DEF Quiet, InFlight
  <2>. QED  BY <2>1, <2>2 DEF ServerInv, ServerTypeOK
<1>2. ProcessInv'
  BY DEF Listen, AcceptFails, ServerInv, ProcessInv, Quiet, InFlight
<1>. QED  BY <1>1, <1>2, KeepStep DEF Listen, AcceptFails

LEMMA SignalStep ==
    ASSUME ServerInv, Signal
    PROVE  ServerInv'
<1>1. CASE Exit /\ cause' = "early"
  BY <1>1, ExitStep DEF Signal
<1>2. CASE /\ phase = "serving" /\ phase' = "draining"
           /\ listener' = (IF listener = "open" THEN "closed" ELSE listener)
           /\ UNCHANGED <<backend, req, cause>>
  <2>1. ServerTypeOK'
    BY <1>2 DEF Signal, ServerInv, ServerTypeOK, Phases, authVars
  <2>2. ProcessInv'
    BY <1>2 DEF ServerInv, ProcessInv
  <2>. QED  BY <1>2, <2>1, <2>2, KeepStep DEF Signal
<1>. QED  BY <1>1, <1>2 DEF Signal

-----------------------------------------------------------------------------
(* The specification.                                                      *)

LEMMA InitServerInv == ServerInit => ServerInv
<1> SUFFICES ASSUME ServerInit  PROVE ServerInv
  OBVIOUS
<1> USE DEF ServerInit, KeyInit
<1>1. \A p \in Procs : req[p] = Idle("settled") /\ req[p].pc = "idle"
  BY DEF Idle
<1>2. ServerTypeOK
  BY <1>1, ClockAssumption, SwitchesAssumption DEF ServerTypeOK, KeySets, NoKeys, NoKey, Idle, Statuses,
     Settings, Phases, Quiet, InFlight
<1>3. ProcessInv
  BY <1>1 DEF ProcessInv, Quiet, InFlight
<1>4. FromIssuer(cache)
  BY DEF FromIssuer, NoKeys, NoKey
<1>5. \A p \in Procs : RequestOK(req[p])
  BY <1>1 DEF RequestOK, Idle, Waiting, AdmittedPcs
<1>. QED  BY <1>2, <1>3, <1>4, <1>5 DEF ServerInv

LEMMA NextServerInv == ServerInv /\ [ServerNext]_vars => ServerInv'
<1> SUFFICES ASSUME ServerInv, [ServerNext]_vars  PROVE ServerInv'
  OBVIOUS
<1>1. CASE Main
  BY <1>1, MainStep
<1>2. CASE Listen \/ AcceptFails
  BY <1>2, ListenerStep
<1>3. CASE Signal
  BY <1>3, SignalStep
<1>4. ASSUME NEW p \in Procs, Arrive(p)
      PROVE  ServerInv'
  BY <1>4, PresentStep, PresentLoginStep DEF Arrive
<1>5. ASSUME NEW p \in Procs, AuthStep(p)
      PROVE  ServerInv'
  BY <1>5, LookUpStep, AnswerStep, FetchFailsStep, StoreStep, CheckClaimsStep
     DEF AuthStep, Authenticate
<1>6. ASSUME NEW p \in Procs, Perform(p) \/ Reply(p)
      PROVE  ServerInv'
  BY <1>6, PerformStep, ReplyStep
<1>7. CASE Outside
  BY <1>7, OutsideStep
<1>8. CASE UNCHANGED vars
  <2>1. UNCHANGED <<sources, config, phase, backend, listener, cause, issuer, cache, now, req>>
    BY <1>8 DEF vars, procVars, authVars
  <2>2. ServerTypeOK' /\ ProcessInv'
    BY <2>1 DEF ServerInv, ServerTypeOK, ProcessInv, Quiet, InFlight
  <2>. QED  BY <2>1, <2>2, KeepStep DEF authVars
<1>. QED  BY <1>1, <1>2, <1>3, <1>4, <1>5, <1>6, <1>7, <1>8 DEF ServerNext, Handle

\* The process, the listener, the keys and every request in flight fit together
\* in every state.
THEOREM ServerInvariant == ServerSpec => []ServerInv
<1>. QED  BY InitServerInv, NextServerInv, PTL DEF ServerSpec

\* The process and its requests stay well typed, the backend is open exactly
\* from openBackend to closeFn, and nothing is in flight after the exit.
THEOREM ServerStaysTyped == ServerSpec => []ServerTypeOK
<1>1. ServerInv => ServerTypeOK
  BY DEF ServerInv
<1>. QED  BY <1>1, ServerInvariant, PTL

\* The backend acts only for a user whom good credentials name, however the
\* requests, the issuer's key changes and the shutdown interleave.
THEOREM OnlyTheAuthenticatedAct == ServerSpec => []ActsOnlyForTheAuthenticated
<1>1. ServerInv => ActsOnlyForTheAuthenticated
  <2> SUFFICES ASSUME ServerInv, NEW p \in Procs, req[p].pc = "done"
               PROVE  \/ \E t \in Tokens :
                           /\ req[p] = [pc |-> "done", user |-> t.user, token |-> t,
                                        inTime |-> TRUE]
                           /\ t.key \in 1 .. issuer[t.kid].made
                           /\ t.ours /\ t.user # NoUser
                      \/ \E l \in Logins :
                           /\ req[p] = [pc |-> "done", user |-> l.name, login |-> l]
                           /\ l.name # NoUser /\ Passwords[l.name] = l.password
    BY DEF ActsOnlyForTheAuthenticated
  <2>1. Admitted(req[p]) /\ req[p].user # NoUser
    BY DEF ServerInv, RequestOK, AdmittedPcs
  <2>2. ASSUME NEW t \in Tokens, Signed(t), t.ours,
               req[p] = [pc |-> "done", user |-> t.user, token |-> t, inTime |-> TRUE]
        PROVE  t.user # NoUser
    <3>1. req[p].user = t.user
      BY <2>2
    <3>. QED  BY <2>1, <3>1
  <2>3. ASSUME NEW l \in Logins, Known(l),
               req[p] = [pc |-> "done", user |-> l.name, login |-> l]
        PROVE  l.name # NoUser
    <3>1. req[p].user = l.name
      BY <2>3
    <3>. QED  BY <2>1, <3>1
  <2>4. \/ \E t \in Tokens :
              /\ req[p] = [pc |-> "done", user |-> t.user, token |-> t, inTime |-> TRUE]
              /\ Signed(t) /\ t.ours
        \/ \E l \in Logins :
              /\ req[p] = [pc |-> "done", user |-> l.name, login |-> l]
              /\ Known(l)
    BY <2>1 DEF Admitted
  <2>. QED  BY <2>2, <2>3, <2>4, Zenon DEF Signed, Known
<1>. QED  BY <1>1, ServerInvariant, PTL

\* A request is cut short, or finds the backend closed, only after the deadline
\* of the shutdown, a failure of the listener or a signal that came too early.
THEOREM OnlyACauseCutsShort == ServerSpec => []CutShortOnlyForCause
<1>1. ServerInv => CutShortOnlyForCause
  BY DEF ServerInv, RequestOK, CutShortOnlyForCause
<1>. QED  BY <1>1, ServerInvariant, PTL

-----------------------------------------------------------------------------
(* Steps.                                                                  *)

\* Only its own step refuses a request that waits for its key.
LEMMA OwnRefusal ==
    ASSUME ServerInv, ServerNext, NEW p \in Procs, req[p].pc \in Waiting,
           req'[p] = Idle("settled")
    PROVE  Authenticate(p)
<1>1. req'[p].pc = "idle" /\ req'[p].status = "settled" /\ req[p].pc # "idle"
  BY DEF Idle, Waiting
<1>2. req'[p] # req[p]
  BY <1>1
<1>3. req \in [Procs -> Requests]
  BY DEF ServerInv, ServerTypeOK, Requests
<1>4. ~Exit
  <2>1. Idle("cut").status = "cut"
    BY DEF Idle
  <2>. QED  BY <1>1, <1>2, <2>1 DEF Exit
<1>5. ~Main /\ ~Listen /\ ~AcceptFails /\ ~Signal
  BY <1>2, <1>4 DEF Main, LoadConfig, OpenBackend, BuildAuth, Notify, Drained,
     DeadlinePasses, ServeError, CloseBackend, Leave, Listen, AcceptFails, Signal
<1>6. ~Outside
  <2>1. ASSUME NEW k \in Kids  PROVE ~Unsettle(k)
    <3>1. CASE req'[p] = req[p]
      BY <1>2, <3>1
    <3>2. CASE req'[p] = [req[p] EXCEPT !.steady = FALSE]
      <4>1. CASE req[p].pc = "store"
        <5>1. req[p] \in [pc : {"store"}, token : Tokens, steady : BOOLEAN, set : KeySets]
          BY <1>3, <4>1, RequestShapes
        <5>. QED  BY <1>1, <3>2, <5>1
      <4>2. CASE req[p].pc \in {"lookup", "fetch"}
        <5>1. req[p] \in [pc : {"lookup", "fetch"}, token : Tokens, steady : BOOLEAN]
          BY <1>3, <4>2, RequestShapes
        <5>. QED  BY <1>1, <3>2, <5>1
      <4>. QED  BY <4>1, <4>2 DEF Waiting
    <3>. QED  BY <3>1, <3>2 DEF Unsettle
  <2>. QED  BY <1>2, <2>1 DEF Outside, Tick, MakeKey, WithdrawKey
<1>7. ASSUME NEW q \in Procs, Arrive(q)  PROVE FALSE
  BY <1>1, <1>2, <1>3, <1>7 DEF Arrive, Present, PresentLogin, Refuse, Answered
<1>8. ASSUME NEW q \in Procs, Perform(q) \/ Reply(q)  PROVE FALSE
  BY <1>1, <1>2, <1>3, <1>8 DEF Perform, Reply, Answered, Waiting
<1>9. ASSUME NEW q \in Procs, Authenticate(q)  PROVE q = p
  BY <1>2, <1>3, <1>9 DEF Authenticate, LookUp, Verify, Answer, AnswerError, FetchFails,
     Store, FindIn, CheckClaims, Refuse, Answered
<1>. QED  BY <1>5, <1>6, <1>7, <1>8, <1>9 DEF ServerNext, Handle, AuthStep

\* A request whose key is current all along is refused for want of the key only
\* when its fetch fails or brings a set without keys, or an earlier key with the
\* same key id is cached.
THEOREM SteadyKeyIsAlwaysFound == ServerSpec => SteadyKeyIsFound
<1>1. ASSUME ServerInv, ServerNext, NEW p \in Procs, req[p].pc \in Waiting, req[p].steady,
             req'[p] = Idle("settled")
      PROVE  \/ req[p].pc = "fetch"
             \/ req[p].pc = "store" /\ req[p].set = NoKeys
             \/ req[p].pc = "lookup" /\ ~NotShadowed(Token(p))
  <2>1. Authenticate(p) /\ RequestOK(req[p]) /\ req \in [Procs -> Requests]
    BY <1>1, OwnRefusal DEF ServerInv, ServerTypeOK, Requests
  <2>2. req'[p].pc = "idle"
    BY <1>1 DEF Idle
  <2>3. CASE req[p].pc = "lookup"
    <3>1. /\ LookUp(p) /\ Token(p) \in Tokens
          /\ req[p] \in [pc : {"lookup", "fetch"}, token : Tokens, steady : BOOLEAN]
      BY <2>1, <2>3, RequestShapes DEF Authenticate, Answer, AnswerError, FetchFails, Store,
         CheckClaims, Token
    <3>2. req' # [req EXCEPT ![p].pc = "fetch"]
      BY <2>1, <2>2, <3>1
    <3>3. /\ cache[Token(p).kid] # NoKey
          /\ Verify(p, cache[Token(p).kid])
      BY <3>1, <3>2 DEF LookUp
    <3>4. cache[Token(p).kid] # Token(p).key
      BY <2>1, <2>2, <3>3 DEF Verify
    <3>. QED  BY <2>3, <3>3, <3>4 DEF NotShadowed
  <2>4. CASE req[p].pc = "store"
    <3>1. FindIn(p, req[p].set)
      BY <2>1, <2>4 DEF Authenticate, LookUp, Answer, AnswerError, FetchFails, Store,
         CheckClaims
    <3>2. req[p].set[Token(p).kid] # Token(p).key \/ Token(p).key = NoKey
      BY <2>1, <2>2, <3>1 DEF FindIn, Verify
    <3>. QED  BY <1>1, <2>1, <2>4, <3>2 DEF RequestOK, Token, Current, Waiting
  <2>. QED  BY <1>1, <2>3, <2>4 DEF Waiting
<1>2. ServerInv /\ [ServerNext]_vars =>
        [\A p \in Procs :
           /\ req[p].pc \in {"lookup", "fetch", "store"} /\ req[p].steady
           /\ req'[p] = Idle("settled")
           => \/ req[p].pc = "fetch"
              \/ req[p].pc = "store" /\ req[p].set = NoKeys
              \/ req[p].pc = "lookup" /\ ~NotShadowed(Token(p))]_vars
  BY <1>1 DEF Waiting
<1>. QED  BY <1>2, ServerInvariant, PTL DEF ServerSpec, SteadyKeyIsFound

\* What each source says of a setting.
LEMMA SourcesSay ==
    ASSUME NEW src, NEW s
    PROVE  /\ Says(src, 1, s) = {Defaults[s]}
           /\ Says(src, 2, s) = {Value(s, FileOf(src)[x], YamlBool) :
                                   x \in {s} \cap DOMAIN FileOf(src)}
           /\ Says(src, 3, s) = {Value(s, word, ParseBool) : word \in
                                   {w \in {src.env[x] : x \in {s} \cap DOMAIN src.env} :
                                      IF s \in Switches THEN w \in DOMAIN ParseBool
                                                        ELSE w # Empty}}
           /\ Says(src, 4, s) = {Value(s, src.flags[x], ParseBool) :
                                   x \in {s} \cap DOMAIN src.flags}
  BY DEF Says

\* Every setting has the value of the last source that says anything of it.
LEMMA LoadedFollowsSources ==
    ASSUME NEW src \in SourceSets, Loads(src), NEW s \in Settings
    PROVE  \E r \in 1 .. 4 : /\ Loaded(src)[s] \in Says(src, r, s)
                             /\ \A later \in r + 1 .. 4 : Says(src, later, s) = {}
<1> DEFINE file == FileLayer(src)  env == EnvLayer(src.env)  flags == FlagLayer(src.flags)
<1>1. /\ DOMAIN flags = DOMAIN src.flags \cap Settings
      /\ s \in DOMAIN flags => flags[s] = Value(s, src.flags[s], ParseBool)
  BY DEF FlagLayer, Layer
<1>2. /\ s \in DOMAIN env <=> /\ s \in DOMAIN src.env /\ src.env[s] # Empty
                              /\ s \in Switches => src.env[s] \in DOMAIN ParseBool
      /\ s \in DOMAIN env => env[s] = Value(s, src.env[s], ParseBool)
  BY DEF EnvLayer, Layer
<1>3. Says(src, 4, s) = IF s \in DOMAIN flags THEN {flags[s]} ELSE {}
  BY <1>1, SourcesSay
<1>4. Says(src, 3, s) = IF s \in DOMAIN env THEN {env[s]} ELSE {}
  BY <1>2, SourcesSay, WordsAssumption
<1>5. Says(src, 2, s) = IF s \in DOMAIN file THEN {file[s]} ELSE {}
  BY SourcesSay DEF FileLayer, Layer
<1>6. Says(src, 1, s) = {Defaults[s]}
  BY SourcesSay
<1>7. Loaded(src)[s] = IF s \in DOMAIN flags THEN flags[s]
                       ELSE IF s \in DOMAIN env THEN env[s]
                       ELSE IF s \in DOMAIN file THEN file[s] ELSE Defaults[s]
  BY DEF Loaded, Over, Settings
<1> HIDE DEF file, env, flags
<1>8. CASE s \in DOMAIN flags
  BY <1>3, <1>7, <1>8
<1>9. CASE s \notin DOMAIN flags /\ s \in DOMAIN env
  BY <1>3, <1>4, <1>7, <1>9
<1>10. CASE s \notin DOMAIN flags /\ s \notin DOMAIN env /\ s \in DOMAIN file
  BY <1>3, <1>4, <1>5, <1>7, <1>10
<1>11. CASE s \notin DOMAIN flags /\ s \notin DOMAIN env /\ s \notin DOMAIN file
  BY <1>3, <1>4, <1>5, <1>6, <1>7, <1>11
<1>. QED  BY <1>8, <1>9, <1>10, <1>11

\* Flags decide over the environment, the environment over the file and the file
\* over the defaults, for each setting by itself.
THEOREM LastSourceAlwaysDecides == ServerSpec => LastSourceDecides
<1>1. ASSUME ServerInv, ServerNext, phase = "loading", phase' = "opening"
      PROVE  sources \in SourceSets /\ Loads(sources) /\ config' = Loaded(sources)
  <2>1. sources \in SourceSets /\ listener = "none" /\ Quiet
    BY <1>1 DEF ServerInv, ProcessInv
  <2>2. LoadConfig
    BY <1>1, <2>1 DEF ServerNext, Main, OpenBackend, BuildAuth, Notify, Drained,
       DeadlinePasses, ServeError, Leave, Listen, AcceptFails, Signal, Exit, Arrive, Handle,
       AuthStep, Authenticate, LookUp, Answer, AnswerError, FetchFails, Store, CheckClaims,
       Perform, Reply, Quiet, InFlight, Outside
  <2>. QED  BY <1>1, <2>1, <2>2 DEF LoadConfig, Exit
<1>2. ServerInv /\ [ServerNext]_vars =>
        [phase = "loading" /\ phase' = "opening" =>
           \A s \in Settings : \E r \in 1 .. 4 :
              /\ config'[s] \in Says(sources, r, s)
              /\ \A later \in r + 1 .. 4 : Says(sources, later, s) = {}]_vars
  BY <1>1, LoadedFollowsSources
<1>. QED  BY <1>2, ServerInvariant, PTL DEF ServerSpec, LastSourceDecides

=============================================================================
