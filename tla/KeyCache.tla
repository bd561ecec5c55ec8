------------------------------- MODULE KeyCache -------------------------------
(***************************************************************************)
(* Bearer-token authentication (auth/oauth2.go) and the key set that all   *)
(* requests share.  An issuer publishes keys under key ids, withdraws them *)
(* and puts new ones in their place; a request looks its key id up in the  *)
(* cached set and, when it is not there, fetches the issuer's set, which   *)
(* then replaces the cached one.  Requests fetch at the same time, and     *)
(* their answers arrive in any order.                                      *)
(*                                                                         *)
(* The n-th key that the issuer made for a key id is the number n, and     *)
(* NoKey is none.  A key set is a function from key ids to keys.  A token  *)
(* names a key id, the key that signed it (NoKey for a signature that no   *)
(* key of the issuer made), its expiry, whether issuer and audience are    *)
(* the configured ones, and its user claim.                                *)
(***************************************************************************)
EXTENDS Integers, FiniteSetsExt

CONSTANTS
    Kids,          \* key ids
    Tokens,        \* the tokens that clients present
    Never,         \* expiry of a token without the claim exp
    NoUser,        \* the empty user id
    Procs,         \* handler goroutines
    MaxKeys,       \* bound: keys made by the issuer
    MaxTime        \* bound: the clock, in seconds

NoKey == 0

ASSUME ClockAssumption == /\ MaxTime \in Nat /\ MaxKeys \in Nat
                          /\ Never \in Nat /\ Never > MaxTime
ASSUME TokenAssumption ==
    \A t \in Tokens : /\ t.kid \in Kids
                      /\ t.key \in 0 .. MaxKeys
                      /\ t.exp \in 0 .. MaxTime \cup {Never}
                      /\ t.ours \in BOOLEAN

VARIABLES
    issuer,        \* key id -> [made: keys made so far, up: is it published]
    cache,         \* cachedJWKS; nil is the set without keys
    now,           \* time.Now().Unix()
    req            \* the request of each goroutine

keyVars == <<issuer, cache>>

KeySets   == [Kids -> Nat]
NoKeys    == [k \in Kids |-> NoKey]
Published == [k \in Kids |-> IF issuer[k].up THEN issuer[k].made ELSE NoKey]

\* the token's key is the one that the issuer publishes under its key id
Current(t) == t.key # NoKey /\ Published[t.kid] = t.key

\* no earlier key with the same key id is cached
NotShadowed(t) == cache[t.kid] \in {NoKey, t.key}

-----------------------------------------------------------------------------
(* One request.  Kept for the properties: "steady", the token's key has been *)
(* current since the request came in; "inTime", the token was not past its *)
(* expiry when it was admitted.                                            *)

Token(p) == req[p].token

Idle(status)        == [pc |-> "idle", status |-> status]
Answered(p, status) == req' = [req EXCEPT ![p] = Idle(status)]

\* authMiddleware: 401 with the provider's challenge
Refuse(p) == Answered(p, "settled")

\* faulty: the signature is not checked
VerifyNothing(p, key) ==
    req' = [req EXCEPT ![p] = [pc |-> "claims", token |-> Token(p)]]

\* the signature is checked with the key that was found
Verify(p, key) ==
    \/ key = Token(p).key
       /\ req' = [req EXCEPT ![p] = [pc |-> "claims", token |-> Token(p)]]
    \/ key # Token(p).key /\ Refuse(p)

Present(p, t) ==
    /\ req[p].pc = "idle"
    /\ t.key <= issuer[t.kid].made
    /\ req' = [req EXCEPT ![p] =
                 [pc |-> "lookup", token |-> t, steady |-> Current(t)]]
    /\ UNCHANGED <<keyVars, now>>

\* findKey up to the fetch, under the read lock
LookUp(p) ==
    /\ req[p].pc = "lookup"
    /\ LET key == cache[Token(p).kid] IN
       \/ key # NoKey /\ Verify(p, key)
       \/ key = NoKey /\ req' = [req EXCEPT ![p].pc = "fetch"]
    /\ UNCHANGED <<keyVars, now>>

\* fetchJWKS: the issuer answers with what it publishes at that time
Answer(p) ==
    /\ req[p].pc = "fetch"
    /\ req' = [req EXCEPT ![p] = [pc |-> "store", token |-> Token(p),
                                  steady |-> req[p].steady, set |-> Published]]
    /\ UNCHANGED <<keyVars, now>>

\* an error answer with a JSON body decodes to a set without keys: the status
\* of the answer is not looked at
AnswerError(p) ==
    /\ req[p].pc = "fetch"
    /\ req' = [req EXCEPT ![p] = [pc |-> "store", token |-> Token(p),
                                  steady |-> req[p].steady, set |-> NoKeys]]
    /\ UNCHANGED <<keyVars, now>>

\* no answer within ten seconds, or none that decodes
FetchFails(p) ==
    /\ req[p].pc = "fetch"
    /\ Refuse(p)
    /\ UNCHANGED <<keyVars, now>>

FindIn(p, set) ==
    LET key == set[Token(p).kid] IN
       \/ key # NoKey /\ Verify(p, key)
       \/ key = NoKey /\ Refuse(p)

\* faulty: a set that another request has stored meanwhile is preferred
StoreUnlessRefreshed(p) ==
    /\ req[p].pc = "store"
    /\ cache' = IF cache = NoKeys THEN req[p].set ELSE cache
    /\ FindIn(p, cache')
    /\ UNCHANGED <<issuer, now>>

\* faulty: the fetched set is dropped, and the cached one looked at again
StoreNothing(p) ==
    /\ req[p].pc = "store"
    /\ FindIn(p, cache)
    /\ UNCHANGED <<keyVars, now>>

\* the fetched set replaces the cached one, whichever is newer, and the request
\* goes on with the one it fetched
Store(p) ==
    /\ req[p].pc = "store"
    /\ cache' = req[p].set
    /\ FindIn(p, req[p].set)
    /\ UNCHANGED <<issuer, now>>

\* faulty: accepted for one second too long
ExpiredLate(t) == now > t.exp + 1

Expired(t) == now > t.exp

\* faulty: issuer and audience are not compared
InvalidIfExpired(t) == Expired(t)

\* validateClaims
Invalid(t) == Expired(t) \/ ~t.ours

\* after the signature, and extractUser: the request goes on to the backend as
\* the user of the claim, which is empty when the claim is missing
CheckClaims(p) ==
    /\ req[p].pc = "claims"
    /\ LET t == Token(p) IN
       \/ Invalid(t) /\ Refuse(p)
       \/ /\ ~Invalid(t)
          /\ req' = [req EXCEPT ![p] =
                [pc |-> "backend", user |-> t.user, token |-> t,
                 inTime |-> now <= t.exp]]
    /\ UNCHANGED <<keyVars, now>>

Authenticate(p) ==
    \/ LookUp(p)
    \/ Answer(p) \/ AnswerError(p) \/ FetchFails(p)
    \/ Store(p)
    \/ CheckClaims(p)

-----------------------------------------------------------------------------
(* The issuer and the clock.                                               *)

\* requests whose token has key id k are no longer sure of their key
Unsettle(k) ==
    req' = [p \in Procs |->
              IF req[p].pc \in {"lookup", "fetch", "store"}
                 /\ req[p].token.kid = k
              THEN [req[p] EXCEPT !.steady = FALSE] ELSE req[p]]

\* a new key for k, in place of the one before it
MakeKey(k) ==
    /\ MapThenSumSet(LAMBDA x : issuer[x].made, Kids) < MaxKeys
    /\ issuer' = [issuer EXCEPT ![k] = [made |-> @.made + 1, up |-> TRUE]]
    /\ Unsettle(k)
    /\ UNCHANGED <<cache, now>>

WithdrawKey(k) ==
    /\ issuer[k].up
    /\ issuer' = [issuer EXCEPT ![k].up = FALSE]
    /\ Unsettle(k)
    /\ UNCHANGED <<cache, now>>

Tick ==
    /\ now < MaxTime
    /\ now' = now + 1
    /\ UNCHANGED <<keyVars, req>>

KeyInit ==
    /\ issuer = [k \in Kids |-> [made |-> 0, up |-> FALSE]]
    /\ cache = NoKeys
    /\ now = 0

=============================================================================
