--------------------------------- MODULE Pkce ---------------------------------
(***************************************************************************)
(* Single sign-on of LiteLLM with PKCE at a generic provider (ui_sso.py).  *)
(* The redirect draws a code verifier, files it under the OAuth state and  *)
(* leaves the state in a cookie; the callback, perhaps on another pod,     *)
(* looks the verifier up, compares the cookie, exchanges the code, reads   *)
(* the answer and deletes the verifier; only then does the proxy decide     *)
(* whether it signs the user in.                                           *)
(*                                                                         *)
(* A trip is one redirect; its verifier, its challenge and the code the    *)
(* provider gives it are named by the trip.  States are shared by trips of *)
(* one CLI login, and by all trips when GENERIC_CLIENT_STATE is set.       *)
(***************************************************************************)
EXTENDS Naturals

CONSTANTS
    Browsers, Trips, States,
    Requests,  \* slots for callbacks running at the same time
    Pods,      \* instances of the proxy
    StateOf,   \* [Trips -> States]: the state of each redirect
    Shared,    \* TRUE: redis_usage_cache is set; FALSE: each pod's own cache
    Strict,    \* PKCE_STRICT_CACHE_MISS
    None

ASSUME StateOfAssumption == StateOf \in [Trips -> States]
ASSUME ModeAssumption == Shared \in BOOLEAN /\ Strict \in BOOLEAN
ASSUME NoneAssumption == None \notin Browsers \cup Trips \cup States \cup Pods

VARIABLES
    verifier, \* the caches: [Pods -> [States -> verifier]], see Store
    cookie,   \* [Browsers -> litellm_oauth_state]
    begun,    \* [Trips -> the browser and the pod of the redirect]
    code,     \* [Trips -> the provider's authorization code]
    req,      \* the callbacks in flight
    released, \* trips whose verifier expired, died with its pod, or had its
              \* answer read in full by a callback (history)
    homes,    \* [Trips -> browsers a session was given to] (history)
    logins    \* [Trips -> completed callbacks] (history)

vars == <<verifier, cookie, begun, code, req, released, homes, logins>>
history == <<released, homes, logins>>

Origin == [browser: Browsers \cup {None}, pod: Pods \cup {None}]

NotBegun == [browser |-> None, pod |-> None]

\* held: the verifier the callback found.
Request == [pc: {"idle", "exchange", "process", "delete", "finish"},
            browser: Browsers \cup {None}, pod: Pods \cup {None},
            trip: Trips \cup {None}, held: Trips \cup {None}]

Idle == [pc |-> "idle", browser |-> None, pod |-> None, trip |-> None,
         held |-> None]

TypeOK ==
    /\ verifier \in [Pods -> [States -> Trips \cup {None}]]
    /\ cookie \in [Browsers -> States \cup {None}]
    /\ begun \in [Trips -> Origin]
    /\ code \in [Trips -> {"none", "denied", "granted", "redeemed"}]
    /\ req \in [Requests -> Request]
    /\ released \in SUBSET Trips
    /\ homes \in [Trips -> SUBSET Browsers]
    /\ logins \in [Trips -> Nat]

Init ==
    /\ verifier = [p \in Pods |-> [s \in States |-> None]]
    /\ cookie = [b \in Browsers |-> None]
    /\ begun = [t \in Trips |-> NotBegun]
    /\ code = [t \in Trips |-> "none"]
    /\ req = [r \in Requests |-> Idle]
    /\ released = {}
    /\ homes = [t \in Trips |-> {}]
    /\ logins = [t \in Trips |-> 0]

-----------------------------------------------------------------------------
(* The cache of verifiers.  With Redis every pod uses the one of a fixed   *)
(* pod; otherwise each its own.                                            *)

Store(p) == IF Shared THEN CHOOSE q \in Pods : TRUE ELSE p

KeyWithoutState(t) == CHOOSE s \in States : TRUE  \* mutant: one key for all

\* "pkce_verifier:{state}"
Key(t) == StateOf[t]

Cached(p, t) == verifier[Store(p)][Key(t)]

SetCache(p, t, v) ==
    verifier' = [verifier EXCEPT ![Store(p)] = [@ EXCEPT ![Key(t)] = v]]

\* The entry of a trip expires (600 s).
Expire(t) ==
    LET p == begun[t].pod
    IN  /\ p # None
        /\ Cached(p, t) = t
        /\ SetCache(p, t, None)
        /\ released' = released \cup {t}
        /\ UNCHANGED <<cookie, begun, code, req, homes, logins>>

ExpireCookie(b) ==
    /\ cookie[b] # None
    /\ cookie' = [cookie EXCEPT ![b] = None]
    /\ UNCHANGED <<verifier, begun, code, req, history>>

\* A pod restarts: its callbacks end, and its own cache is empty.
Restart(p) ==
    /\ req' = [r \in Requests |-> IF req[r].pod = p THEN Idle ELSE req[r]]
    /\ IF Shared
       THEN UNCHANGED <<verifier, released>>
       ELSE /\ verifier' = [verifier EXCEPT ![p] = [s \in States |-> None]]
            /\ released' = released \cup {t \in Trips : Cached(p, t) = t}
    /\ UNCHANGED <<cookie, begun, code, homes, logins>>

-----------------------------------------------------------------------------
(* The redirect and the provider.                                          *)

\* mutant: the verifier instead of the state goes into the cookie
RedirectWrongCookie(t, b, p) ==
    /\ begun[t] = NotBegun
    /\ begun' = [begun EXCEPT ![t] = [browser |-> b, pod |-> p]]
    /\ SetCache(p, t, t)
    /\ cookie' = [cookie EXCEPT ![b] = t]
    /\ UNCHANGED <<code, req, history>>

\* get_generic_sso_redirect_response
Redirect(t, b, p) ==
    /\ begun[t] = NotBegun
    /\ begun' = [begun EXCEPT ![t] = [browser |-> b, pod |-> p]]
    /\ SetCache(p, t, t)
    /\ cookie' = [cookie EXCEPT ![b] = StateOf[t]]
    /\ UNCHANGED <<code, req, history>>

AtProvider(t) ==
    /\ begun[t] # NotBegun /\ code[t] = "none"
    /\ \E outcome \in {"granted", "denied"} : code' = [code EXCEPT ![t] = outcome]
    /\ UNCHANGED <<verifier, cookie, begun, req, history>>

-----------------------------------------------------------------------------
(* The callback.  It may be loaded again, on any pod, by any browser.      *)

CookieIgnored(t, b) == TRUE  \* mutant: the state is not compared

\* The comparison of the state parameter with the cookie.
CookieMatches(t, b) == cookie[b] = StateOf[t]

\* mutant: the verifier is deleted as soon as it was read
CallbackDeletesEarly(r, t, b, p) ==
    /\ req[r] = Idle
    /\ code[t] \in {"granted", "redeemed"}
    /\ Cached(p, t) = None => ~Strict
    /\ Cached(p, t) # None => CookieMatches(t, b)
    /\ req' = [req EXCEPT ![r] = [pc |-> "exchange", browser |-> b, pod |-> p,
                                  trip |-> t, held |-> Cached(p, t)]]
    /\ SetCache(p, t, None)
    /\ UNCHANGED <<cookie, begun, code, history>>

\* prepare_token_exchange_parameters and the checks after it.  A callback that
\* misses the verifier in strict mode, whose cookie differs or that brings no
\* code, is refused and leaves everything as it was.
Callback(r, t, b, p) ==
    /\ req[r] = Idle
    /\ code[t] \in {"granted", "redeemed"}
    /\ Cached(p, t) = None => ~Strict
    /\ Cached(p, t) # None => CookieMatches(t, b)
    /\ req' = [req EXCEPT ![r] = [pc |-> "exchange", browser |-> b, pod |-> p,
                                  trip |-> t, held |-> Cached(p, t)]]
    /\ UNCHANGED <<verifier, cookie, begun, code, history>>

\* mutant: the redirect sent no challenge, so a missing verifier passes
ExchangeUnverified(r) ==
    LET t == req[r].trip
    IN  /\ req[r].pc = "exchange"
        /\ code[t] = "granted"
        /\ code' = [code EXCEPT ![t] = "redeemed"]
        /\ req' = [req EXCEPT ![r] = [@ EXCEPT !.pc = "process"]]
        /\ UNCHANGED <<verifier, cookie, begun, history>>

\* mutant: the status of the token endpoint is not looked at
ExchangeUnchecked(r) ==
    LET t == req[r].trip
    IN  /\ req[r].pc = "exchange"
        /\ code' = [code EXCEPT ![t] = "redeemed"]
        /\ req' = [req EXCEPT ![r] = [@ EXCEPT !.pc = "process"]]
        /\ UNCHANGED <<verifier, cookie, begun, history>>

\* _pkce_token_exchange: the provider takes a code once, and only with the
\* verifier of its challenge.
Exchange(r) ==
    LET t == req[r].trip
    IN  /\ req[r].pc = "exchange"
        /\ code[t] = "granted" /\ req[r].held = t
        /\ code' = [code EXCEPT ![t] = "redeemed"]
        /\ req' = [req EXCEPT ![r] = [@ EXCEPT !.pc = "process"]]
        /\ UNCHANGED <<verifier, cookie, begun, history>>

\* The exchange is refused, or fails before or after the code was taken.
ExchangeFails(r) ==
    /\ req[r].pc = "exchange"
    /\ code' \in {code, [code EXCEPT ![req[r].trip] = "redeemed"]}
    /\ req' = [req EXCEPT ![r] = Idle]
    /\ UNCHANGED <<verifier, cookie, begun, history>>

\* The userinfo lookup, the response convertor and the access token's claims.
Process(r) ==
    /\ req[r].pc = "process"
    /\ req' = [req EXCEPT ![r] = [@ EXCEPT !.pc = "delete"]]
    /\ released' = released \cup {req[r].trip}
    /\ UNCHANGED <<verifier, cookie, begun, code, homes, logins>>

\* One of them raises: the verifier stays where it is.
ProcessFails(r) ==
    /\ req[r].pc = "process"
    /\ req' = [req EXCEPT ![r] = Idle]
    /\ UNCHANGED <<verifier, cookie, begun, code, history>>

\* _delete_pkce_verifier: the key goes, or a failure is only logged.
Delete(r) ==
    /\ req[r].pc = "delete"
    /\ SetCache(req[r].pod, req[r].trip, None) \/ UNCHANGED verifier
    /\ req' = [req EXCEPT ![r] = [@ EXCEPT !.pc = "finish"]]
    /\ UNCHANGED <<cookie, begun, code, history>>

\* The rest of the callback: the user, the key, the session.
Finish(r) ==
    LET t == req[r].trip
    IN  /\ req[r].pc = "finish"
        /\ homes' = [homes EXCEPT ![t] = @ \cup {req[r].browser}]
        /\ logins' = [logins EXCEPT ![t] = @ + 1]
        /\ req' = [req EXCEPT ![r] = Idle]
        /\ UNCHANGED <<verifier, cookie, begun, code, released>>

\* The domain, the group or the role is refused, or something raises: nobody
\* is signed in, and the verifier is not put back.
FinishFails(r) ==
    /\ req[r].pc = "finish"
    /\ req' = [req EXCEPT ![r] = Idle]
    /\ UNCHANGED <<verifier, cookie, begun, code, history>>

-----------------------------------------------------------------------------
Next ==
    \/ \E t \in Trips, b \in Browsers, p \in Pods :
          Redirect(t, b, p) \/ \E r \in Requests : Callback(r, t, b, p)
    \/ \E t \in Trips : AtProvider(t) \/ Expire(t)
    \/ \E r \in Requests : Exchange(r) \/ ExchangeFails(r) \/ Process(r)
                           \/ ProcessFails(r) \/ Delete(r)
                           \/ Finish(r) \/ FinishFails(r)
    \/ \E b \in Browsers : ExpireCookie(b)
    \/ \E p \in Pods : Restart(p)

Spec == Init /\ [][Next]_vars

-----------------------------------------------------------------------------
(* Properties.                                                             *)

\* A trip that shares its state with no other (the uuid of a browser login).
OwnState(t) == \A u \in Trips : StateOf[u] = StateOf[t] => u = t

\* Logins with other states do not get in the way: a callback never works with
\* the verifier of another trip, so the provider refuses no code for it.
OwnVerifier ==
    \A r \in Requests :
        LET t == req[r].trip
        IN  t # None /\ OwnState(t) => req[r].held \in {t, None}

\* The verifier of a trip stays where its redirect put it until it expires or
\* a callback of this very trip has got the provider's answer and read all of
\* it: neither a failure up to there (ui_sso.py:1304-1307, 3175-3177) nor any
\* callback of another trip consumes it.  What fails after that, FinishFails,
\* finds the verifier gone.
VerifierKept ==
    \A t \in Trips :
        OwnState(t) /\ begun[t] # NotBegun /\ t \notin released
        => Cached(begun[t].pod, t) = t

\* The session goes to the browser that was redirected, though callbacks can
\* be loaded anywhere.
OwnBrowser ==
    \A t \in Trips : OwnState(t) => homes[t] \subseteq {begun[t].browser}

\* One authorization is good for one sign-in, however many callbacks hold the
\* verifier at the same time, and whatever state they share.
OneLogin == \A t \in Trips : logins[t] <= 1

\* The verifier is deleted late to avoid "losing the verifier on retry if the
\* exchange fails partway through" (ui_sso.py:3176) or on a failure of the
\* processing (1304-1307): as long as it is kept for a trip that is neither
\* signed in nor being worked on, a retry can still redeem the trip's code.
KeptVerifierIsUsable ==
    \A t \in Trips :
        /\ begun[t] # NotBegun /\ Cached(begun[t].pod, t) = t
        /\ logins[t] = 0
        /\ \A r \in Requests : req[r].trip # t
        => code[t] # "redeemed"

-----------------------------------------------------------------------------
(* The promise of SignOn.                                                  *)

Promise == INSTANCE SignOn WITH
    begunIn <- [t \in Trips |-> begun[t].browser],
    consent <- code,
    signedIn <- homes

\* However many callbacks of a trip run at the same time, on whatever pods, and
\* wherever they fail, expire or are cut off, a consent is redeemed once and
\* followed by at most one sign-in, in a browser that was redirected with that
\* state.  Trips that share a state keep to this too.
KeepsSignOn == Promise!Spec
=============================================================================
