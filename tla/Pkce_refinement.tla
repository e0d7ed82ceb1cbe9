---------------------------- MODULE Pkce_refinement ----------------------------
(* Pkce keeps the promise of SignOn for every value of its constants: each of *)
(* its steps is a step of SignOn or changes nothing of it.                    *)
EXTENDS Pkce_proofs

(***************************************************************************)
(* What the steps of SignOn ask for and no property says: a callback that   *)
(* holds a verifier runs in a browser redirected with that state, one at    *)
(* the exchange was sent by the provider, and only sign-ins are homes.      *)
(***************************************************************************)
Redirected(s, b) == \E u \in Trips : StateOf[u] = s /\ begun[u].browser = b

CookieHome == \A b \in Browsers : cookie[b] # None => Redirected(cookie[b], b)

Working(r) == req[r].pc # "idle" /\ req[r].held # None

RequestHome ==
    \A r \in Requests :
        /\ Past(r) => req[r].held # None
        /\ Working(r) => Redirected(StateOf[req[r].trip], req[r].browser)

Consented ==
    \A r \in Requests :
        req[r].pc = "exchange" => code[req[r].trip] \in {"granted", "redeemed"}

NoLoginNoHome == \A t \in Trips : logins[t] = 0 => homes[t] = {}

Guests == CookieHome /\ RequestHome /\ Consented /\ NoLoginNoHome

\* A browser stays redirected.
LEMMA RedirectedStays ==
    ASSUME Typed, [Next]_vars, NEW s \in States, NEW b \in Browsers,
           Redirected(s, b)
    PROVE  Redirected(s, b)'
<1>1. PICK u \in Trips : StateOf[u] = s /\ begun[u].browser = b
  BY DEF Redirected
<1>2. begun[u] # NotBegun
  BY <1>1, NoneAssumption DEF NotBegun
<1>3. begun'[u] = begun[u]
  BY <1>2 DEF Next, vars, Redirect, Callback, AtProvider, Expire, Exchange,
              ExchangeFails, Process, ProcessFails, Delete, Finish, FinishFails,
              ExpireCookie, Restart, history, Typed, TypeOK
<1> QED
  BY <1>1, <1>3 DEF Redirected

\* A step that moves no callback past the exchange and sends none.
LEMMA GuestsQuiet ==
    ASSUME Typed, Guests, [Next]_vars, logins' = logins, homes' = homes,
           \A b \in Browsers : cookie'[b] \in {cookie[b], None},
           \A t \in Trips : code[t] \in {"granted", "redeemed"}
                            => code'[t] \in {"granted", "redeemed"},
           \A r \in Requests :
               \/ req'[r] = req[r] \/ req'[r].pc = "idle"
               \/ /\ Past(r) /\ Past(r)'
                  /\ req'[r].trip = req[r].trip /\ req'[r].held = req[r].held
                  /\ req'[r].browser = req[r].browser
    PROVE  Guests'
<1> USE DEF Typed
<1>1. CookieHome'
  BY RedirectedStays DEF Guests, CookieHome, TypeOK
<1>2. \A r \in Requests : Working(r) =>
         StateOf[req[r].trip] \in States /\ req[r].browser \in Browsers
  BY StateOfAssumption DEF Working, Running
<1>3. RequestHome'
  BY <1>2, RedirectedStays DEF Guests, RequestHome, Working, Past
<1>4. Consented'
  BY DEF Guests, Consented, Past, Running
<1>5. NoLoginNoHome'
  BY DEF Guests, NoLoginNoHome
<1> QED
  BY <1>1, <1>3, <1>4, <1>5 DEF Guests

LEMMA GuestsNext == Typed /\ Guests /\ [Next]_vars => Guests'
<1> SUFFICES ASSUME Typed, Guests, [Next]_vars PROVE Guests'
  OBVIOUS
<1> USE DEF Typed
<1>0. \A r \in Requests : Working(r) =>
         StateOf[req[r].trip] \in States /\ req[r].browser \in Browsers
  BY StateOfAssumption DEF Working, Running
<1>1. CASE UNCHANGED vars
  BY <1>1, GuestsQuiet DEF vars
<1>2. ASSUME NEW t \in Trips, NEW b \in Browsers, NEW p \in Pods, Redirect(t, b, p)
      PROVE  Guests'
  <2>1. Redirected(StateOf[t], b)'
    BY <1>2 DEF Redirect, Redirected, TypeOK
  <2>2. CookieHome'
    BY <1>2, <2>1, RedirectedStays DEF Redirect, Guests, CookieHome, TypeOK
  <2>3. RequestHome'
    BY <1>0, <1>2, RedirectedStays DEF Redirect, Guests, RequestHome, Working, Past
  <2> QED
    BY <1>2, <2>2, <2>3 DEF Redirect, Guests, Consented, NoLoginNoHome, history
<1>3. ASSUME NEW t \in Trips, NEW b \in Browsers, NEW p \in Pods,
             NEW r \in Requests, Callback(r, t, b, p)
      PROVE  Guests'
  <2>1. Cached(p, t) # None => Redirected(StateOf[t], b)
    BY <1>3, StateOfAssumption, NoneAssumption
    DEF Callback, CookieMatches, Guests, CookieHome
  <2>2. /\ req' = [req EXCEPT ![r] = [pc |-> "exchange", browser |-> b, pod |-> p,
                                      trip |-> t, held |-> Cached(p, t)]]
        /\ UNCHANGED <<verifier, cookie, begun, code, homes, logins>>
    BY <1>3 DEF Callback, history
  <2>3. RequestHome'
    BY <2>1, <2>2 DEF TypeOK, Guests, RequestHome, Redirected, Working, Past
  <2>4. Consented'
    BY <1>3, <2>2 DEF Callback, TypeOK, Guests, Consented
  <2> QED
    BY <2>2, <2>3, <2>4 DEF Guests, CookieHome, Redirected, NoLoginNoHome
<1>4. ASSUME NEW t \in Trips, AtProvider(t) \/ Expire(t) PROVE Guests'
  BY <1>4, GuestsQuiet DEF AtProvider, Expire, TypeOK, history
<1>5. ASSUME NEW r \in Requests, Exchange(r) PROVE Guests'
  <2>1. req[r].trip \in Trips /\ req[r].held # None
    BY <1>5, NoneAssumption DEF Exchange, Running
  <2>2. /\ req' = [req EXCEPT ![r] = [@ EXCEPT !.pc = "process"]]
        /\ code' = [code EXCEPT ![req[r].trip] = "redeemed"]
        /\ UNCHANGED <<cookie, begun, homes, logins>>
    BY <1>5 DEF Exchange, history
  <2>3. RequestHome'
    BY <1>5, <2>1, <2>2
    DEF Exchange, TypeOK, Guests, RequestHome, Redirected, Working, Past
  <2>4. Consented'
    BY <2>2 DEF TypeOK, Guests, Consented, Running
  <2> QED
    BY <2>2, <2>3, <2>4 DEF Guests, CookieHome, Redirected, NoLoginNoHome
<1>6. ASSUME NEW r \in Requests,
             ExchangeFails(r) \/ ProcessFails(r) \/ FinishFails(r)
      PROVE  Guests'
  <2>1. \A q \in Requests : req'[q] = req[q] \/ req'[q].pc = "idle"
    BY <1>6 DEF ExchangeFails, ProcessFails, FinishFails, TypeOK, Idle
  <2> QED
    BY <1>6, <2>1, GuestsQuiet
    DEF ExchangeFails, ProcessFails, FinishFails, TypeOK, history
<1>7. ASSUME NEW r \in Requests, Process(r) \/ Delete(r) PROVE Guests'
  <2>1. PICK pc \in {"delete", "finish"} : req'[r] = [req[r] EXCEPT !.pc = pc]
    BY <1>7 DEF Process, Delete, TypeOK
  <2>2. \A q \in Requests : q = r \/ req'[q] = req[q]
    BY <1>7 DEF Process, Delete, TypeOK
  <2>3. /\ req'[r].trip = req[r].trip /\ req'[r].held = req[r].held
        /\ req'[r].browser = req[r].browser
    BY <2>1 DEF TypeOK, Request
  <2>4. Past(r) /\ Past(r)'
    BY <1>7, <2>1 DEF Process, Delete, TypeOK, Request, Past
  <2> QED
    BY <1>7, <2>2, <2>3, <2>4, GuestsQuiet DEF Process, Delete, history
<1>8. ASSUME NEW r \in Requests, Finish(r) PROVE Guests'
  <2>1. /\ req' = [req EXCEPT ![r] = Idle]
        /\ UNCHANGED <<cookie, begun, code>>
        /\ homes' = [homes EXCEPT ![req[r].trip] = @ \cup {req[r].browser}]
        /\ logins' = [logins EXCEPT ![req[r].trip] = @ + 1]
    BY <1>8 DEF Finish
  <2>2. RequestHome' /\ Consented'
    BY <2>1 DEF TypeOK, Guests, RequestHome, Redirected, Working, Past, Idle, Consented
  <2>3. NoLoginNoHome'
    BY <2>1 DEF TypeOK, Guests, NoLoginNoHome
  <2> QED
    BY <2>1, <2>2, <2>3 DEF Guests, CookieHome, Redirected
<1>9. ASSUME NEW b \in Browsers, ExpireCookie(b) PROVE Guests'
  BY <1>9, GuestsQuiet DEF ExpireCookie, TypeOK, history
<1>10. ASSUME NEW p \in Pods, Restart(p) PROVE Guests'
  <2>1. \A q \in Requests : req'[q] = req[q] \/ req'[q].pc = "idle"
    BY <1>10 DEF Restart, Idle
  <2> QED
    BY <1>10, <2>1, GuestsQuiet DEF Restart
<1> QED
  BY <1>1, <1>2, <1>3, <1>4, <1>5, <1>6, <1>7, <1>8, <1>9, <1>10 DEF Next

LEMMA AlwaysGuests == Spec => []Guests
<1>1. Init => Guests
  BY DEF Init, Guests, CookieHome, RequestHome, Consented, NoLoginNoHome,
         Working, Past, Idle
<1> QED
  BY <1>1, TypeInit, TypeNext, GuestsNext, PTL DEF Spec

-----------------------------------------------------------------------------
(* The simulation.                                                         *)

BegunIn == [t \in Trips |-> begun[t].browser]

\* The steps SignOn knows nothing of.
LEMMA Unseen ==
    ASSUME UNCHANGED <<begun, code, homes>>
    PROVE  UNCHANGED Promise!vars
BY DEF Promise!vars

\* The code of a trip is redeemed for the first time.
LEMMA Redeems ==
    ASSUME Typed, NEW t \in Trips, code[t] = "granted",
           code' = [code EXCEPT ![t] = "redeemed"], UNCHANGED <<begun, homes>>
    PROVE  Promise!Next
<1>1. Promise!Redeem(t)
  BY DEF Promise!Redeem
<1> QED
  BY <1>1 DEF Promise!Next

LEMMA Simulates ==
    ASSUME Typed, Exclusive, Guests, [Next]_vars
    PROVE  [Promise!Next]_Promise!vars
<1> USE DEF Typed
<1> DEFINE Goal == Promise!Next \/ UNCHANGED Promise!vars
<1> SUFFICES Goal
  OBVIOUS
<1>1. CASE UNCHANGED vars
  BY <1>1, Unseen DEF vars
<1>2. ASSUME NEW t \in Trips, NEW b \in Browsers, NEW p \in Pods, Redirect(t, b, p)
      PROVE  Goal
  <2>1. begun[t] = NotBegun /\ begun' = [begun EXCEPT ![t] = [browser |-> b, pod |-> p]]
    BY <1>2 DEF Redirect
  <2>2. \A u \in Trips : begun'[u].browser = IF u = t THEN b ELSE begun[u].browser
    BY <2>1 DEF TypeOK
  <2>3. BegunIn[t] = None
    BY <2>1 DEF BegunIn, NotBegun
  <2>4. BegunIn' = [BegunIn EXCEPT ![t] = b]
    BY <2>2 DEF BegunIn
  <2>5. Promise!Begin(t, b)
    BY <1>2, <2>3, <2>4 DEF Redirect, Promise!Begin, BegunIn, history
  <2> QED
    BY <2>5 DEF Promise!Next
<1>3. ASSUME NEW t \in Trips, AtProvider(t) PROVE Goal
  <2>1. PICK outcome \in {"granted", "denied"} : code' = [code EXCEPT ![t] = outcome]
    BY <1>3 DEF AtProvider
  <2>2. BegunIn[t] # None
    BY <1>3, NoneAssumption DEF AtProvider, Running, BegunIn
  <2>3. Promise!Decide(t, outcome)
    BY <1>3, <2>1, <2>2 DEF AtProvider, Promise!Decide, BegunIn, history
  <2> QED
    BY <2>3 DEF Promise!Next
<1>4. ASSUME NEW r \in Requests, Exchange(r) PROVE Goal
  BY <1>4, Redeems DEF Exchange, Running, history
\* The code may be taken although the call fails.
<1>5. ASSUME NEW r \in Requests, ExchangeFails(r) PROVE Goal
  <2>1. req[r].trip \in Trips /\ code[req[r].trip] \in {"granted", "redeemed"}
    BY <1>5 DEF ExchangeFails, Running, Guests, Consented
  <2>2. CASE code' = code
    BY <1>5, <2>2, Unseen DEF ExchangeFails, history
  <2>3. CASE code' # code
    <3>1. code' = [code EXCEPT ![req[r].trip] = "redeemed"]
      BY <1>5, <2>3 DEF ExchangeFails
    <3>2. code[req[r].trip] = "granted"
      BY <2>1, <2>3, <3>1 DEF TypeOK
    <3> QED
      BY <1>5, <2>1, <3>1, <3>2, Redeems DEF ExchangeFails, history
  <2> QED
    BY <2>2, <2>3
\* The sign-in: the first of this trip, after its code was redeemed.
<1>6. ASSUME NEW r \in Requests, Finish(r) PROVE Goal
  <2> DEFINE t == req[r].trip
             b == req[r].browser
  <2>1. t \in Trips /\ b \in Browsers /\ Past(r) /\ Working(r)
    BY <1>6 DEF Finish, Running, Past, Working, Guests, RequestHome
  <2>2. code[t] = "redeemed" /\ homes[t] = {}
    BY <2>1 DEF Exclusive, Guests, NoLoginNoHome
  <2>3. PICK u \in Trips : StateOf[u] = StateOf[t] /\ BegunIn[u] = b
    BY <2>1 DEF Guests, RequestHome, Redirected, BegunIn
  <2>4. u \in Promise!Alike(t)
    BY <2>3 DEF Promise!Alike
  <2>5. homes' = [homes EXCEPT ![t] = {b}]
    BY <1>6, <2>1, <2>2 DEF Finish, TypeOK
  <2>6. Promise!SignIn(t, b)
    BY <1>6, <2>2, <2>3, <2>4, <2>5 DEF Finish, Promise!SignIn, BegunIn
  <2> QED
    BY <2>1, <2>6 DEF Promise!Next
<1>7. ASSUME \/ \E t \in Trips : Expire(t)
             \/ \E r \in Requests :
                    Process(r) \/ ProcessFails(r) \/ Delete(r) \/ FinishFails(r)
             \/ \E b \in Browsers : ExpireCookie(b)
             \/ \E p \in Pods : Restart(p)
             \/ \E t \in Trips, b \in Browsers, p \in Pods, r \in Requests :
                    Callback(r, t, b, p)
      PROVE  Goal
  BY <1>7, Unseen
  DEF Expire, Process, ProcessFails, Delete, FinishFails, ExpireCookie,
      Restart, Callback, history
<1> QED
  BY <1>1, <1>2, <1>3, <1>4, <1>5, <1>6, <1>7 DEF Next

\* KeepsSignOn holds of any number of browsers, trips, pods and callbacks, any
\* sharing of states, shared and separate caches, strict or not (ui_sso.py).
THEOREM KeepsSignOnHolds == Spec => KeepsSignOn
<1>1. Init => Promise!Init
  BY DEF Init, Promise!Init, NotBegun
<1> QED
  BY <1>1, Simulates, TypedAlways, AlwaysGuests, AlwaysExclusive, PTL
  DEF Spec, KeepsSignOn, Promise!Spec
=============================================================================
