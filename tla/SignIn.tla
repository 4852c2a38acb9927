------------------------------- MODULE SignIn -------------------------------
(***************************************************************************)
(* How a request to the server proves who sends it (buffdata/server/app.py *)
(* and governance/oidc.py): the login with its one-use state, the sessions *)
(* of browsers, bearer tokens, and the cache of the identity provider's    *)
(* keys, which one lock guards.  Handlers run in threads; a step here is a *)
(* transaction of the store, a critical section of the cache or the end of *)
(* a call to the identity provider.                                        *)
(*                                                                         *)
(* Signatures are not computed: a token verifies under the key that signed *)
(* it and under no other, and its nonce is the one of its login.           *)
(***************************************************************************)
EXTENDS Integers, FiniteSets

CONSTANTS
  Handlers, Browsers,
  States,         \* login states, secrets.token_urlsafe
  SessionIds,     \* session ids, secrets.token_urlsafe
  SigningKeys,    \* 1 .. n, in the order in which the provider uses them
  Ttl,            \* jwks_cache_seconds
  Refresh,        \* jwks_refresh_seconds
  LoginLife,      \* the 300 seconds of a login
  SessionLife,    \* the longest session, 3600 seconds
  TokenLife,      \* how long the provider's tokens are valid
  Requests,       \* bound: requests that are verified
  MaxTime,        \* bound: the clock stops there
  Nothing         \* Python's None, an absent row, a time that never was

ASSUME SignInAssumption ==
  /\ {Ttl, Refresh, LoginLife, SessionLife, TokenLife} \subseteq Nat \ {0}
  /\ Requests \in Nat /\ MaxTime \in Nat
  /\ SigningKeys \subseteq Nat \ {0} /\ 1 \in SigningKeys
  /\ Nothing \notin Int \cup Handlers \cup Browsers \cup States \cup SessionIds
  /\ States \cap SessionIds = {}

VARIABLES
  clock,          \* time.time and time.monotonic
  signing,        \* the key the provider publishes and signs with
  withdrawn,      \* when the earlier keys were withdrawn
  cached,         \* _JWKSCache._entries: the key published then, and when
  attempt,        \* _JWKSCache._attempts
  holder,         \* the handler that holds _JWKSCache._lock over a fetch
  row,            \* managed_sessions
  begun,          \* the browser that each login state was given to
  loginCookie, sessionCookie,
  pc, request,    \* each handler's place and what it verifies
  exchanges,      \* how often the code of each login was exchanged
  verified        \* the number of requests verified so far

providerVars == <<signing, withdrawn>>
cacheVars == <<cached, attempt, holder>>
browserVars == <<row, begun, loginCookie, sessionCookie, exchanges>>
handlerVars == <<pc, request, verified>>
signInVars == <<clock, providerVars, cacheVars, browserVars, handlerVars>>

Tokens == States \cup SessionIds
Min2(a, b) == IF a < b THEN a ELSE b
Cooldown == Min2(Ttl, Refresh)

SignInInit ==
  /\ clock = 0
  /\ signing = 1
  /\ withdrawn = [k \in SigningKeys |-> Nothing]
  /\ cached = Nothing /\ attempt = Nothing /\ holder = Nothing
  /\ row = [t \in Tokens |-> Nothing]
  /\ begun = [s \in States |-> Nothing]
  /\ loginCookie = [b \in Browsers |-> Nothing]
  /\ sessionCookie = [b \in Browsers |-> Nothing]
  /\ pc = [h \in Handlers |-> "idle"]
  /\ request = [h \in Handlers |-> Nothing]
  /\ exchanges = [s \in States |-> 0]
  /\ verified = 0

-----------------------------------------------------------------------------
(* The table of sessions, which holds logins and sessions alike.           *)

(* RunStore.session: an expired row reads as none.                         *)
Read(t) == IF t # Nothing /\ row[t] # Nothing /\ row[t].expires > clock THEN row[t] ELSE Nothing
(* Its consume: the row goes, expired or not.                              *)
ConsumeNot(t) == row
Consume(t) == [row EXCEPT ![t] = Nothing]

(* GET /login.  A browser has one login cookie: a second login replaces    *)
(* the first, whose row stays until it is used or for ever.                *)
Login(b, s) ==
  /\ begun[s] = Nothing
  /\ begun' = [begun EXCEPT ![s] = b]
  /\ row' = [row EXCEPT ![s] = [kind |-> "login", expires |-> clock + LoginLife, of |-> s]]
  /\ loginCookie' = [loginCookie EXCEPT ![b] = s]
  /\ UNCHANGED <<sessionCookie, exchanges, clock, providerVars, cacheVars, handlerVars>>

CookieMatches(b, s) == loginCookie[b] = s

(* GET /callback: the comparison of the cookie and the transaction that    *)
(* consumes the state.  The provider sends a browser there, which may      *)
(* repeat the request, as may any other that was handed the address.       *)
Callback(h, b, s) ==
  /\ pc[h] = "idle" /\ verified < Requests
  /\ CookieMatches(b, s)
  /\ row' = Consume(s)
  /\ IF Read(s) # Nothing /\ Read(s).kind = "login"
     THEN /\ pc' = [pc EXCEPT ![h] = "exchange"]
          /\ request' = [request EXCEPT ![h] = [browser |-> b, of |-> s, key |-> Nothing, named |-> TRUE,
               expires |-> 0, looked |-> 0, keys |-> {}, gap |-> Nothing, failed |-> FALSE]]
          /\ verified' = verified + 1
     ELSE UNCHANGED <<pc, request, verified>>
  /\ UNCHANGED <<begun, loginCookie, sessionCookie, exchanges, clock, providerVars, cacheVars>>

(* fetch_token: the call fails, or answers with a token signed now.        *)
Exchange(h) ==
  /\ pc[h] = "exchange"
  /\ exchanges' = [exchanges EXCEPT ![request[h].of] = @ + 1]
  /\ \/ /\ pc' = [pc EXCEPT ![h] = "idle"]
        /\ request' = [request EXCEPT ![h] = Nothing]
     \/ /\ pc' = [pc EXCEPT ![h] = "lookup"]
        /\ request' = [request EXCEPT ![h].key = signing, ![h].expires = clock + TokenLife]
  /\ UNCHANGED <<row, begun, loginCookie, sessionCookie, verified, clock, providerVars, cacheVars>>

(* identity, of a request with a bearer token, of any key and with or      *)
(* without a kid in its header.  It is long-lived: the tokens that expire  *)
(* on the way are those of logins.                                         *)
Bearer(h, k, named) ==
  /\ pc[h] = "idle" /\ verified < Requests
  /\ pc' = [pc EXCEPT ![h] = "lookup"]
  /\ request' = [request EXCEPT ![h] = [browser |-> Nothing, of |-> Nothing, key |-> k, named |-> named,
       expires |-> MaxTime + 1, looked |-> 0, keys |-> {}, gap |-> Nothing, failed |-> FALSE]]
  /\ verified' = verified + 1
  /\ UNCHANGED <<browserVars, clock, providerVars, cacheVars>>

-----------------------------------------------------------------------------
(* _JWKSCache.get, and verify_bearer_token around it.                      *)

Fresh == IF cached = Nothing THEN FALSE ELSE clock - cached.at < Ttl
Cooling == IF attempt = Nothing THEN FALSE ELSE clock - attempt < Cooldown

Gap == IF attempt = Nothing THEN Nothing ELSE clock - attempt
Looks(h) == pc[h] \in {"lookup", "again"}
(* The second lookup, for a kid that is not in the first's keys, insists   *)
(* on new ones.                                                            *)
InsistsNever(h) == FALSE
Insists(h) == pc[h] = "again"

Found(h, keys) ==
  request' = [request EXCEPT ![h].keys = keys, ![h].looked = clock, ![h].gap = Gap]
Answered(h) == pc' = [pc EXCEPT ![h] = IF pc[h] = "lookup" THEN "first" ELSE "second"]

Lookup(h) ==
  /\ Looks(h) /\ holder = Nothing
  /\ (Fresh /\ ~Insists(h)) \/ (Cooling /\ Fresh)
  /\ Found(h, {cached.key}) /\ Answered(h)
  /\ UNCHANGED <<browserVars, verified, clock, providerVars, cacheVars>>

(* "refresh cooldown is active": nothing is fetched and nothing usable is  *)
(* cached.                                                                 *)
LookupRefused(h) ==
  /\ Looks(h) /\ holder = Nothing
  /\ Cooling /\ ~Fresh
  /\ Found(h, {})
  /\ pc' = [pc EXCEPT ![h] = "refused"]
  /\ UNCHANGED <<browserVars, verified, clock, providerVars, cacheVars>>

(* The fetch begins with the lock held, which it keeps until its end.      *)
BeginFetch(h) ==
  /\ Looks(h) /\ holder = Nothing
  /\ Insists(h) \/ ~Fresh
  /\ ~Cooling
  /\ holder' = h /\ attempt' = clock
  /\ Found(h, {})
  /\ UNCHANGED <<cached, pc, browserVars, verified, clock, providerVars>>

(* The entry is as old as the beginning of the fetch.  The provider        *)
(* answered at some moment since.                                          *)
StampAtEnd(h) == clock
Stamp(h) == request[h].looked
PublishedSince(t) == {signing} \cup {k \in SigningKeys : withdrawn[k] # Nothing /\ withdrawn[k] >= t}

FetchAnswers(h) ==
  /\ holder = h
  /\ \E k \in PublishedSince(request[h].looked) :
       /\ cached' = [key |-> k, at |-> Stamp(h)]
       /\ request' = [request EXCEPT ![h].keys = {k}]
  /\ holder' = Nothing
  /\ Answered(h)
  /\ UNCHANGED <<attempt, browserVars, verified, clock, providerVars>>

FetchFails(h) ==
  /\ holder = h
  /\ holder' = Nothing
  /\ request' = [request EXCEPT ![h].failed = TRUE]
  /\ pc' = [pc EXCEPT ![h] = "refused"]
  /\ UNCHANGED <<cached, attempt, browserVars, verified, clock, providerVars>>

(* The keys that the token may be of: a token without a kid is tried with  *)
(* every key, and never makes the cache look again.                        *)
Candidates(h) == IF request[h].named THEN request[h].keys \cap {request[h].key} ELSE request[h].keys

LookAgain(h) ==
  /\ pc[h] = "first" /\ Candidates(h) = {}
  /\ pc' = [pc EXCEPT ![h] = "again"]
  /\ UNCHANGED <<request, browserVars, verified, clock, providerVars, cacheVars>>

(* jwt.decode with the candidates.                                         *)
Decode(h) ==
  /\ pc[h] \in {"first", "second"}
  /\ pc[h] = "first" => Candidates(h) # {}
  /\ pc' = [pc EXCEPT ![h] = IF request[h].key \in Candidates(h) /\ clock < request[h].expires
                             THEN "accepted" ELSE "refused"]
  /\ UNCHANGED <<request, browserVars, verified, clock, providerVars, cacheVars>>

Leave(h) ==
  /\ pc' = [pc EXCEPT ![h] = "idle"]
  /\ request' = [request EXCEPT ![h] = Nothing]

(* The response to a bearer token, and to any that was refused.            *)
Respond(h) ==
  /\ pc[h] = "refused" \/ (pc[h] = "accepted" /\ request[h].of = Nothing)
  /\ Leave(h)
  /\ UNCHANGED <<browserVars, verified, clock, providerVars, cacheVars>>

(* The end of the callback: the session lasts as long as the token, an     *)
(* hour at most.                                                           *)
SaveSession(h, x) ==
  LET r == request[h]
      left == IF r.expires > clock THEN r.expires - clock ELSE 0
  IN
  /\ pc[h] = "accepted" /\ r.of # Nothing
  /\ row[x] = Nothing /\ \A b \in Browsers : sessionCookie[b] # x
  /\ row' = [row EXCEPT ![x] = [kind |-> "session", expires |-> clock + Min2(SessionLife, left), of |-> r.of]]
  /\ sessionCookie' = [sessionCookie EXCEPT ![r.browser] = x]
  /\ loginCookie' = [loginCookie EXCEPT ![r.browser] = Nothing]
  /\ Leave(h)
  /\ UNCHANGED <<begun, exchanges, verified, clock, providerVars, cacheVars>>

(* POST /logout, of a browser that is signed in.  The answer deletes the   *)
(* browser's cookie.                                                       *)
Logout(b) ==
  /\ Read(sessionCookie[b]) # Nothing /\ Read(sessionCookie[b]).kind = "session"
  /\ row' = Consume(sessionCookie[b])
  /\ sessionCookie' = [sessionCookie EXCEPT ![b] = Nothing]
  /\ UNCHANGED <<begun, loginCookie, exchanges, handlerVars, clock, providerVars, cacheVars>>

-----------------------------------------------------------------------------
(* The provider publishes its next key in place of the present one.        *)
Rotate ==
  /\ signing + 1 \in SigningKeys
  /\ signing' = signing + 1
  /\ withdrawn' = [withdrawn EXCEPT ![signing] = clock]
  /\ UNCHANGED <<clock, cacheVars, browserVars, handlerVars>>

ClockTicks ==
  /\ clock < MaxTime
  /\ clock' = clock + 1
  /\ UNCHANGED <<providerVars, cacheVars, browserVars, handlerVars>>

HandlerStep(h) ==
  \/ Exchange(h)
  \/ Lookup(h) \/ LookupRefused(h)
  \/ BeginFetch(h) \/ FetchAnswers(h) \/ FetchFails(h)
  \/ LookAgain(h) \/ Decode(h) \/ Respond(h)
  \/ \E x \in SessionIds : SaveSession(h, x)

SignInStep ==
  \/ \E b \in Browsers, s \in States : Login(b, s)
  \/ \E h \in Handlers, b \in Browsers, s \in States : Callback(h, b, s)
  \/ \E h \in Handlers, k \in SigningKeys, n \in BOOLEAN : Bearer(h, k, n)
  \/ \E h \in Handlers : HandlerStep(h)
  \/ \E b \in Browsers : Logout(b)
  \/ Rotate
  \/ ClockTicks

-----------------------------------------------------------------------------
Time == 0 .. MaxTime
Rows == [kind : {"login", "session"}, expires : Nat, of : States]
RequestType ==
  [browser : Browsers \cup {Nothing}, of : States \cup {Nothing}, key : SigningKeys \cup {Nothing},
   named : BOOLEAN, expires : Nat, looked : Time, keys : SUBSET SigningKeys,
   gap : Time \cup {Nothing}, failed : BOOLEAN]

SignInTypeOK ==
  /\ clock \in Time
  /\ signing \in SigningKeys
  /\ withdrawn \in [SigningKeys -> Time \cup {Nothing}]
  /\ cached \in [key : SigningKeys, at : Time] \cup {Nothing}
  /\ attempt \in Time \cup {Nothing}
  /\ holder \in Handlers \cup {Nothing}
  /\ row \in [Tokens -> Rows \cup {Nothing}]
  /\ begun \in [States -> Browsers \cup {Nothing}]
  /\ loginCookie \in [Browsers -> States \cup {Nothing}]
  /\ sessionCookie \in [Browsers -> SessionIds \cup {Nothing}]
  /\ pc \in [Handlers -> {"idle", "exchange", "lookup", "first", "again", "second", "accepted", "refused"}]
  /\ request \in [Handlers -> RequestType \cup {Nothing}]
  /\ exchanges \in [States -> Nat]
  /\ verified \in 0 .. Requests

(* app.py, callback: whichever of two callbacks comes first and whatever   *)
(* fails afterwards, a login leads to one exchange, and a session only in  *)
(* the browser that began it.                                              *)
LoginStatesUsedOnce ==
  /\ \A s \in States : exchanges[s] + Cardinality({h \in Handlers : pc[h] = "exchange" /\ request[h].of = s}) <= 1
  /\ \A b \in Browsers : sessionCookie[b] # Nothing /\ row[sessionCookie[b]] # Nothing
       => begun[row[sessionCookie[b]].of] = b

(* oidc.py, _JWKSCache.get: no token is accepted under a key that the      *)
(* provider had withdrawn Ttl before the keys were looked up, however long *)
(* the fetch took, whoever made it and whatever failed since.              *)
AcceptedKeysAreFresh ==
  \A h \in Handlers :
    pc[h] = "accepted" /\ request[h].key < signing
      => request[h].looked - withdrawn[request[h].key] < Ttl

(* oidc.py, _JWKSCache.get: a token that the provider still stands behind  *)
(* is refused only when it cannot be reached, or within the cooldown after *)
(* a fetch; one without a kid only while cached keys are fresh.            *)
GoodTokensRefusedBriefly ==
  \A h \in Handlers :
    LET r == request[h]
        changed == IF signing = 1 THEN Nothing ELSE withdrawn[signing - 1]
        good == r.key = signing /\ (changed = Nothing \/ changed < r.looked) /\ clock < r.expires
    IN pc[h] = "refused" /\ good =>
         \/ r.failed
         \/ r.gap # Nothing /\ r.gap < IF r.named THEN Cooldown ELSE Ttl
=============================================================================
