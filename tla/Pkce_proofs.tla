------------------------------ MODULE Pkce_proofs ------------------------------
(* Theorems of Pkce for every number of browsers, trips, pods and callbacks, *)
(* for shared and separate caches and any sharing of states.                *)
EXTENDS Pkce, TLAPS

(***************************************************************************)
(* Type correctness: a callback in flight names a trip, a browser and a pod. *)
(***************************************************************************)
Running ==
    /\ \A r \in Requests : req[r].pc # "idle" =>
          req[r].trip \in Trips /\ req[r].browser \in Browsers /\ req[r].pod \in Pods
    /\ \A t \in Trips : begun[t] # NotBegun =>
          begun[t].browser \in Browsers /\ begun[t].pod \in Pods

Typed == TypeOK /\ Running

LEMMA StoreType == ASSUME NEW p \in Pods PROVE Store(p) \in Pods
BY DEF Store

LEMMA KeyType == ASSUME NEW t \in Trips PROVE Key(t) \in States
BY StateOfAssumption DEF Key

LEMMA CachedType ==
    ASSUME TypeOK, NEW p \in Pods, NEW t \in Trips
    PROVE  Cached(p, t) \in Trips \cup {None}
BY StoreType, KeyType DEF TypeOK, Cached

LEMMA SetCacheType ==
    ASSUME TypeOK, NEW p \in Pods, NEW t \in Trips, NEW v \in Trips \cup {None},
           SetCache(p, t, v)
    PROVE  verifier' \in [Pods -> [States -> Trips \cup {None}]]
BY StoreType, KeyType DEF TypeOK, SetCache

LEMMA IdleType == Idle \in Request
BY DEF Idle, Request

\* What a write leaves in every entry.
LEMMA SetCacheEffect ==
    ASSUME TypeOK, NEW p \in Pods, NEW t \in Trips, NEW v, SetCache(p, t, v),
           NEW q \in Pods, NEW s \in States
    PROVE  verifier'[q][s] = IF q = Store(p) /\ s = Key(t) THEN v
                             ELSE verifier[q][s]
BY StoreType, KeyType DEF TypeOK, SetCache

\* A callback that goes on to its next await.
LEMMA GoesOnType ==
    ASSUME Typed, NEW r \in Requests, req[r].pc # "idle", begun' = begun,
           NEW pc \in {"process", "delete", "finish"},
           req' = [req EXCEPT ![r] = [@ EXCEPT !.pc = pc]]
    PROVE  req' \in [Requests -> Request] /\ Running'
<1> USE DEF Typed
<1>1. req[r] \in Request
  BY DEF TypeOK
<1>2. [req[r] EXCEPT !.pc = pc] \in Request
  BY <1>1 DEF Request
<1>3. req' \in [Requests -> Request]
  BY <1>2 DEF TypeOK
<1>4. \A q \in Requests :
         /\ q # r => req'[q] = req[q]
         /\ req'[r].trip = req[r].trip /\ req'[r].browser = req[r].browser
         /\ req'[r].pod = req[r].pod
  BY <1>1 DEF TypeOK, Request
<1> QED
  BY <1>3, <1>4 DEF Running

LEMMA TypeInit == Init => Typed
BY IdleType DEF Init, Typed, TypeOK, Running, Idle, NotBegun, Origin

LEMMA TypeNext == Typed /\ [Next]_vars => Typed'
<1> SUFFICES ASSUME Typed, [Next]_vars PROVE Typed'
  OBVIOUS
<1> USE DEF Typed
<1>1. CASE UNCHANGED vars
  BY <1>1 DEF TypeOK, Running, vars
<1>2. ASSUME NEW t \in Trips, NEW b \in Browsers, NEW p \in Pods, Redirect(t, b, p)
      PROVE  Typed'
  <2>1. verifier' \in [Pods -> [States -> Trips \cup {None}]]
    BY <1>2, SetCacheType DEF Redirect
  <2> QED
    BY <1>2, <2>1, StateOfAssumption
    DEF Redirect, TypeOK, Running, Origin, NotBegun, history
<1>3. ASSUME NEW t \in Trips, NEW b \in Browsers, NEW p \in Pods,
             NEW r \in Requests, Callback(r, t, b, p)
      PROVE  Typed'
  BY <1>3, CachedType DEF Callback, TypeOK, Running, Request, history
<1>4. ASSUME NEW t \in Trips, AtProvider(t) PROVE Typed'
  BY <1>4 DEF AtProvider, TypeOK, Running, history
<1>5. ASSUME NEW t \in Trips, Expire(t) PROVE Typed'
  <2>1. begun[t].pod \in Pods
    BY <1>5 DEF Expire, Running, NotBegun
  <2>2. verifier' \in [Pods -> [States -> Trips \cup {None}]]
    BY <1>5, <2>1, SetCacheType DEF Expire
  <2> QED
    BY <1>5, <2>2 DEF Expire, TypeOK, Running
<1>6. ASSUME NEW r \in Requests, Exchange(r) PROVE Typed'
  BY <1>6, GoesOnType DEF Exchange, TypeOK, history
<1>7. ASSUME NEW r \in Requests, ExchangeFails(r) PROVE Typed'
  BY <1>7, IdleType DEF ExchangeFails, TypeOK, Running, Idle, history
<1>8. ASSUME NEW r \in Requests, Process(r) PROVE Typed'
  <2>1. req[r].trip \in Trips
    BY <1>8 DEF Process, Running
  <2> QED
    BY <1>8, <2>1, GoesOnType DEF Process, TypeOK
<1>9. ASSUME NEW r \in Requests, ProcessFails(r) PROVE Typed'
  BY <1>9, IdleType DEF ProcessFails, TypeOK, Running, Idle, history
<1>10. ASSUME NEW r \in Requests, Delete(r) PROVE Typed'
  <2>1. req[r].trip \in Trips /\ req[r].pod \in Pods /\ req[r].browser \in Browsers
    BY <1>10 DEF Delete, Running
  <2>2. verifier' \in [Pods -> [States -> Trips \cup {None}]]
    BY <1>10, <2>1, SetCacheType DEF Delete, TypeOK
  <2>3. /\ req' = [req EXCEPT ![r] = [@ EXCEPT !.pc = "finish"]]
        /\ UNCHANGED <<cookie, begun, code, released, homes, logins>>
    BY <1>10 DEF Delete, history
  <2>4. req' \in [Requests -> Request] /\ Running'
    BY <1>10, <2>3, GoesOnType DEF Delete
  <2> QED
    BY <2>2, <2>3, <2>4 DEF TypeOK
<1>13. ASSUME NEW r \in Requests, Finish(r) \/ FinishFails(r) PROVE Typed'
  <2>1. req[r].trip \in Trips /\ req[r].browser \in Browsers
    BY <1>13 DEF Finish, FinishFails, Running
  <2> QED
    BY <1>13, <2>1, IdleType
    DEF Finish, FinishFails, TypeOK, Running, Idle, history
<1>11. ASSUME NEW b \in Browsers, ExpireCookie(b) PROVE Typed'
  BY <1>11 DEF ExpireCookie, TypeOK, Running, history
<1>12. ASSUME NEW p \in Pods, Restart(p) PROVE Typed'
  BY <1>12, IdleType DEF Restart, TypeOK, Running, Idle
<1> QED
  BY <1>1, <1>2, <1>3, <1>4, <1>5, <1>6, <1>7, <1>8, <1>9, <1>10, <1>11, <1>12,
     <1>13 DEF Next

\* Every variable keeps its type, whatever the modes and the sets are.
THEOREM TypeCorrect == Spec => []TypeOK
<1>1. Typed => TypeOK
  BY DEF Typed
<1> QED
  BY <1>1, TypeInit, TypeNext, PTL DEF Spec

THEOREM TypedAlways == Spec => []Typed
BY TypeInit, TypeNext, PTL DEF Spec

(***************************************************************************)
(* One authorization, one sign-in.  OneLogin is not inductive: it also      *)
(* takes that at most one callback is past the exchange of a trip, and that *)
(* none is before the code was redeemed or after a sign-in.                 *)
(***************************************************************************)
Past(r) == req[r].pc \in {"process", "delete", "finish"}

Exclusive ==
    /\ \A r, q \in Requests :
          Past(r) /\ Past(q) /\ req[r].trip = req[q].trip => r = q
    /\ \A r \in Requests : Past(r) => /\ code[req[r].trip] = "redeemed"
                                      /\ logins[req[r].trip] = 0
    /\ \A t \in Trips : logins[t] > 0 => code[t] = "redeemed"
    /\ OneLogin

LEMMA ExclusiveInit == Init => Exclusive
BY DEF Init, Exclusive, Past, OneLogin, Idle

LEMMA ExclusiveNext == Typed /\ Exclusive /\ [Next]_vars => Exclusive'
<1> SUFFICES ASSUME Typed, Exclusive, [Next]_vars PROVE Exclusive'
  OBVIOUS
<1> USE DEF Typed
<1>0. ASSUME NEW r \in Requests, req' = [req EXCEPT ![r] = Idle],
             code' \in {code, [code EXCEPT ![req[r].trip] = "redeemed"]},
             logins' = logins, req[r].trip \in Trips
      PROVE  Exclusive'
  <2>1. \A q \in Requests : Past(q)' => /\ Past(q) /\ q # r
                                        /\ req'[q] = req[q]
    BY <1>0 DEF TypeOK, Past, Idle
  <2>2. \A t \in Trips : code[t] = "redeemed" => code'[t] = "redeemed"
    BY <1>0 DEF TypeOK
  <2>3. \A q \in Requests : Past(q) => req[q].trip \in Trips
    BY DEF Past, Running
  <2> QED
    BY <1>0, <2>1, <2>2, <2>3 DEF Exclusive, OneLogin
<1>1. CASE UNCHANGED vars
  BY <1>1 DEF Exclusive, Past, OneLogin, vars
<1>2. ASSUME NEW t \in Trips, NEW b \in Browsers, NEW p \in Pods, Redirect(t, b, p)
      PROVE  Exclusive'
  BY <1>2 DEF Redirect, Exclusive, Past, OneLogin, history
<1>3. ASSUME NEW t \in Trips, NEW b \in Browsers, NEW p \in Pods,
             NEW r \in Requests, Callback(r, t, b, p)
      PROVE  Exclusive'
  BY <1>3 DEF Callback, TypeOK, Exclusive, Past, OneLogin, history
<1>4. ASSUME NEW t \in Trips, AtProvider(t) PROVE Exclusive'
  BY <1>4 DEF AtProvider, TypeOK, Exclusive, Past, OneLogin, Running, history
<1>5. ASSUME NEW t \in Trips, Expire(t) PROVE Exclusive'
  BY <1>5 DEF Expire, Exclusive, Past, OneLogin
<1>6. ASSUME NEW r \in Requests, Exchange(r) PROVE Exclusive'
  BY <1>6 DEF Exchange, TypeOK, Running, Exclusive, Past, OneLogin, history
<1>7. ASSUME NEW r \in Requests, ExchangeFails(r) PROVE Exclusive'
  BY <1>7, <1>0 DEF ExchangeFails, Running, history
<1>8. ASSUME NEW r \in Requests, Process(r) \/ Delete(r) PROVE Exclusive'
  <2>1. code' = code /\ logins' = logins
    BY <1>8 DEF Process, Delete, history
  <2>2. \A q \in Requests : /\ Past(q)' <=> Past(q)
                            /\ req'[q].trip = req[q].trip
    BY <1>8 DEF Process, Delete, TypeOK, Request, Past
  <2> QED
    BY <2>1, <2>2 DEF Exclusive, OneLogin
<1>9. ASSUME NEW r \in Requests, ProcessFails(r) \/ FinishFails(r)
      PROVE  Exclusive'
  BY <1>9, <1>0 DEF ProcessFails, FinishFails, Running, history
<1>10. ASSUME NEW r \in Requests, Finish(r) PROVE Exclusive'
  BY <1>10 DEF Finish, TypeOK, Running, Exclusive, Past, OneLogin, Idle
<1>11. ASSUME NEW b \in Browsers, ExpireCookie(b) PROVE Exclusive'
  BY <1>11 DEF ExpireCookie, Exclusive, Past, OneLogin, history
<1>12. ASSUME NEW p \in Pods, Restart(p) PROVE Exclusive'
  BY <1>12 DEF Restart, TypeOK, Exclusive, Past, OneLogin, Idle
<1> QED
  BY <1>1, <1>2, <1>3, <1>4, <1>5, <1>6, <1>7, <1>8, <1>9, <1>10, <1>11, <1>12
  DEF Next

LEMMA AlwaysExclusive == Spec => []Exclusive
BY TypeInit, TypeNext, ExclusiveInit, ExclusiveNext, PTL DEF Spec

\* No authorization signs in twice, however many callbacks read the verifier
\* before one of them deletes it.
THEOREM OneLoginHolds == Spec => []OneLogin
<1>1. Exclusive => OneLogin
  BY DEF Exclusive
<1> QED
  BY <1>1, AlwaysExclusive, PTL

(***************************************************************************)
(* The cache is keyed by state, and nothing but the trip itself, expiry and *)
(* a restart removes the verifier of a trip with a state of its own.        *)
(***************************************************************************)
Filed ==
    /\ \A p \in Pods : \A s \in States :
          verifier[p][s] # None => StateOf[verifier[p][s]] = s
    /\ \A r \in Requests : req[r].trip # None /\ req[r].held # None =>
          StateOf[req[r].held] = StateOf[req[r].trip]

LEMMA FiledInit == Init => Filed
BY DEF Init, Filed, Idle

LEMMA FiledWrite ==
    ASSUME TypeOK, Filed, NEW p \in Pods, NEW t \in Trips, NEW v \in {None, t},
           SetCache(p, t, v), NEW q \in Pods, NEW s \in States,
           verifier'[q][s] # None
    PROVE  StateOf[verifier'[q][s]] = s
BY SetCacheEffect DEF Filed, Key

LEMMA FiledNext == Typed /\ Filed /\ [Next]_vars => Filed'
<1> SUFFICES ASSUME Typed, Filed, [Next]_vars PROVE Filed'
  OBVIOUS
<1> USE DEF Typed
<1>1. CASE UNCHANGED vars
  BY <1>1 DEF Filed, vars
<1>2. ASSUME NEW t \in Trips, NEW b \in Browsers, NEW p \in Pods, Redirect(t, b, p)
      PROVE  Filed'
  BY <1>2, FiledWrite DEF Redirect, Filed
<1>3. ASSUME NEW t \in Trips, NEW b \in Browsers, NEW p \in Pods,
             NEW r \in Requests, Callback(r, t, b, p)
      PROVE  Filed'
  <2>1. Cached(p, t) # None => StateOf[Cached(p, t)] = StateOf[t]
    BY StoreType, KeyType DEF Filed, Cached, Key
  <2> QED
    BY <1>3, <2>1 DEF Callback, TypeOK, Filed
<1>4. ASSUME NEW t \in Trips, AtProvider(t) PROVE Filed'
  BY <1>4 DEF AtProvider, Filed
<1>5. ASSUME NEW t \in Trips, Expire(t) PROVE Filed'
  <2>1. begun[t].pod \in Pods
    BY <1>5 DEF Expire, Running, NotBegun
  <2> QED
    BY <1>5, <2>1, FiledWrite DEF Expire, Filed
<1>6. ASSUME NEW r \in Requests, Exchange(r) PROVE Filed'
  BY <1>6 DEF Exchange, TypeOK, Filed
<1>7. ASSUME NEW r \in Requests, ExchangeFails(r) PROVE Filed'
  BY <1>7 DEF ExchangeFails, TypeOK, Filed, Idle
<1>8. ASSUME NEW r \in Requests, Process(r) PROVE Filed'
  BY <1>8 DEF Process, TypeOK, Filed
<1>9. ASSUME NEW r \in Requests, ProcessFails(r) \/ Finish(r) \/ FinishFails(r)
      PROVE  Filed'
  BY <1>9 DEF ProcessFails, Finish, FinishFails, TypeOK, Filed, Idle, history
<1>10. ASSUME NEW r \in Requests, Delete(r) PROVE Filed'
  <2>1. req[r].trip \in Trips /\ req[r].pod \in Pods
    BY <1>10 DEF Delete, Running
  <2>2. \A p \in Pods : \A s \in States :
          verifier'[p][s] # None => StateOf[verifier'[p][s]] = s
    BY <1>10, <2>1, FiledWrite DEF Delete, Filed
  <2> QED
    BY <1>10, <2>2 DEF Delete, TypeOK, Filed
<1>11. ASSUME NEW b \in Browsers, ExpireCookie(b) PROVE Filed'
  BY <1>11 DEF ExpireCookie, Filed
<1>12. ASSUME NEW p \in Pods, Restart(p) PROVE Filed'
  BY <1>12 DEF Restart, TypeOK, Filed, Idle
<1> QED
  BY <1>1, <1>2, <1>3, <1>4, <1>5, <1>6, <1>7, <1>8, <1>9, <1>10, <1>11, <1>12
  DEF Next

\* A callback of a login with its own state never works with the verifier of
\* another: the provider refuses no code on account of a concurrent login.
THEOREM OwnVerifierHolds == Spec => []OwnVerifier
<1>1. Typed /\ Filed => OwnVerifier
  BY DEF Typed, TypeOK, Request, Filed, OwnVerifier, OwnState
<1> QED
  BY <1>1, TypeInit, TypeNext, FiledInit, FiledNext, PTL DEF Spec

(***************************************************************************)
(* VerifierKept rests on the keys: a write under the key of a trip with a   *)
(* state of its own is a write by that trip; and on the order of the steps: *)
(* a callback that is about to delete has had its answer read.              *)
(***************************************************************************)

\* Writing another trip's key leaves what is cached for t alone.
LEMMA OtherKey ==
    ASSUME TypeOK, NEW t \in Trips, NEW u \in Trips, OwnState(t), u # t,
           NEW p \in Pods, NEW q \in Pods, NEW v, SetCache(p, u, v)
    PROVE  verifier'[Store(q)][Key(t)] = Cached(q, t)
<1>1. Key(u) # Key(t)
  BY DEF OwnState, Key
<1>2. Store(q) \in Pods /\ Key(t) \in States
  BY StoreType, KeyType
<1>3. verifier'[Store(q)][Key(t)] = verifier[Store(q)][Key(t)]
  BY <1>1, <1>2, SetCacheEffect
<1> QED
  BY <1>3 DEF Cached

ReadFirst ==
    \A r \in Requests : req[r].pc = "delete" => req[r].trip \in released

LEMMA ReadFirstNext == Typed /\ ReadFirst /\ [Next]_vars => ReadFirst'
<1> SUFFICES ASSUME Typed, ReadFirst, [Next]_vars PROVE ReadFirst'
  OBVIOUS
<1>1. released \subseteq released'
  BY DEF Next, vars, Redirect, Callback, AtProvider, Expire, Exchange,
         ExchangeFails, Process, ProcessFails, Delete, Finish, FinishFails,
         ExpireCookie, Restart, history
<1>2. CASE \E r \in Requests : Process(r)
  BY <1>1, <1>2 DEF Process, ReadFirst, Typed, TypeOK, Request
<1>3. CASE ~\E r \in Requests : Process(r)
  <2>1. \A r \in Requests : req'[r].pc = "delete" => req'[r] = req[r]
    BY <1>3 DEF Next, vars, Redirect, Callback, AtProvider, Expire, Exchange,
           ExchangeFails, ProcessFails, Delete, Finish, FinishFails,
           ExpireCookie, Restart, history, Idle, Typed, TypeOK, Request
  <2> QED
    BY <1>1, <2>1 DEF ReadFirst
<1> QED
  BY <1>2, <1>3

LEMMA KeptInit == Init => VerifierKept /\ ReadFirst
BY DEF Init, VerifierKept, ReadFirst, Idle

LEMMA KeptNext == Typed /\ VerifierKept /\ ReadFirst /\ [Next]_vars => VerifierKept'
<1> SUFFICES ASSUME Typed, VerifierKept, ReadFirst, [Next]_vars,
                    NEW t \in Trips, OwnState(t), (begun[t] # NotBegun)',
                    t \notin released'
             PROVE  Cached(begun[t].pod, t)' = t
  BY DEF VerifierKept, OwnState
<1> USE DEF Typed
\* A step that does not begin t.
<1>0. ASSUME begun'[t] = begun[t], released \subseteq released'
      PROVE  begun[t].pod \in Pods /\ Cached(begun[t].pod, t) = t
  BY <1>0 DEF VerifierKept, Running
<1>a. ASSUME begun'[t] = begun[t], released \subseteq released',
             verifier' = verifier
      PROVE  Cached(begun[t].pod, t)' = t
  BY <1>a, <1>0 DEF Cached, Store, Key
<1>1. CASE UNCHANGED vars
  BY <1>1, <1>a DEF vars
<1>2. ASSUME NEW u \in Trips, NEW b \in Browsers, NEW p \in Pods, Redirect(u, b, p)
      PROVE  Cached(begun[t].pod, t)' = t
  <2>1. CASE u = t
    <3>1. begun'[t].pod = p
      BY <1>2, <2>1 DEF Redirect, TypeOK
    <3>2. verifier'[Store(p)][Key(t)] = t
      BY <1>2, <2>1, StoreType, KeyType, SetCacheEffect DEF Redirect
    <3> QED
      BY <3>1, <3>2 DEF Cached, Store, Key
  <2>2. CASE u # t
    <3>1. begun'[t] = begun[t] /\ released' = released
      BY <1>2, <2>2 DEF Redirect, TypeOK, history
    <3> QED
      BY <1>2, <2>2, <3>1, <1>0, OtherKey DEF Redirect, Cached, Store, Key
  <2> QED
    BY <2>1, <2>2
<1>3. ASSUME NEW u \in Trips, NEW b \in Browsers, NEW p \in Pods,
             NEW r \in Requests, Callback(r, u, b, p)
      PROVE  Cached(begun[t].pod, t)' = t
  BY <1>3, <1>a DEF Callback, history
<1>4. ASSUME NEW u \in Trips, AtProvider(u) PROVE Cached(begun[t].pod, t)' = t
  BY <1>4, <1>a DEF AtProvider, history
<1>5. ASSUME NEW u \in Trips, Expire(u) PROVE Cached(begun[t].pod, t)' = t
  <2>1. u # t
    BY <1>5 DEF Expire
  <2>2. begun[u].pod \in Pods
    BY <1>5 DEF Expire, Running, NotBegun
  <2>3. begun[t].pod \in Pods /\ Cached(begun[t].pod, t) = t
    BY <1>5, <1>0 DEF Expire
  <2> QED
    BY <1>5, <2>1, <2>2, <2>3, OtherKey DEF Expire, Cached, Store, Key
<1>6. ASSUME NEW r \in Requests,
             \/ Exchange(r) \/ ExchangeFails(r) \/ Process(r) \/ ProcessFails(r)
             \/ Finish(r) \/ FinishFails(r)
      PROVE  Cached(begun[t].pod, t)' = t
  BY <1>6, <1>a
  DEF Exchange, ExchangeFails, Process, ProcessFails, Finish, FinishFails, history
<1>7. ASSUME NEW r \in Requests, Delete(r) PROVE Cached(begun[t].pod, t)' = t
  <2>1. req[r].trip \in Trips /\ req[r].pod \in Pods
    BY <1>7 DEF Delete, Running
  <2>2. req[r].trip # t
    BY <1>7 DEF Delete, ReadFirst, history
  <2>3. begun' = begun /\ released' = released
    BY <1>7 DEF Delete, history
  <2>4. begun[t].pod \in Pods /\ Cached(begun[t].pod, t) = t
    BY <2>3, <1>0
  <2>5. CASE UNCHANGED verifier
    BY <2>3, <2>5, <1>a
  <2>6. CASE SetCache(req[r].pod, req[r].trip, None)
    BY <2>1, <2>2, <2>3, <2>4, <2>6, OtherKey DEF Cached, Store, Key
  <2> QED
    BY <1>7, <2>5, <2>6 DEF Delete
<1>8. ASSUME NEW b \in Browsers, ExpireCookie(b) PROVE Cached(begun[t].pod, t)' = t
  BY <1>8, <1>a DEF ExpireCookie, history
<1>9. ASSUME NEW p \in Pods, Restart(p) PROVE Cached(begun[t].pod, t)' = t
  <2>1. begun' = begun /\ released \subseteq released'
    BY <1>9 DEF Restart
  <2>2. CASE Shared
    BY <1>9, <2>1, <2>2, <1>a DEF Restart
  <2>3. CASE ~Shared
    <3>1. begun[t].pod \in Pods /\ Cached(begun[t].pod, t) = t
      BY <2>1, <1>0
    <3>2. begun[t].pod # p
      BY <1>9, <2>3, <3>1 DEF Restart
    <3>3. verifier'[begun[t].pod] = verifier[begun[t].pod]
      BY <1>9, <2>3, <3>1, <3>2 DEF Restart, TypeOK
    <3> QED
      BY <2>1, <2>3, <3>1, <3>3 DEF Cached, Store, Key
  <2> QED
    BY <2>2, <2>3
<1> QED
  BY <1>1, <1>2, <1>3, <1>4, <1>5, <1>6, <1>7, <1>8, <1>9 DEF Next

\* No failure up to the deletion and no other login takes a verifier away
\* before the provider's answer has been read (ui_sso.py:1304-1309), whether
\* the pods share their cache or not.  What fails after it finds it gone.
THEOREM VerifierKeptHolds == Spec => []VerifierKept
BY TypeInit, TypeNext, KeptInit, KeptNext, ReadFirstNext, PTL DEF Spec

(***************************************************************************)
(* The browser that is signed in is the one that was redirected: a cookie   *)
(* holds the state of a trip begun in its browser.                          *)
(***************************************************************************)
Home ==
    /\ \A b \in Browsers : cookie[b] # None =>
          \E u \in Trips : begun[u].browser = b /\ StateOf[u] = cookie[b]
    /\ \A r \in Requests :
          /\ Past(r) => req[r].held # None
          /\ req[r].pc # "idle" /\ req[r].held # None /\ OwnState(req[r].trip)
             => begun[req[r].trip].browser = req[r].browser
    /\ OwnBrowser

LEMMA HomeInit == Init => Home
BY DEF Init, Home, OwnBrowser, Idle, Past

LEMMA HomeNext == Typed /\ Home /\ [Next]_vars => Home'
<1> SUFFICES ASSUME Typed, Home, [Next]_vars PROVE Home'
  OBVIOUS
<1> USE DEF Typed, OwnState
<1>1. CASE UNCHANGED vars
  BY <1>1 DEF Home, OwnBrowser, Past, vars
<1>2. ASSUME NEW t \in Trips, NEW b \in Browsers, NEW p \in Pods, Redirect(t, b, p)
      PROVE  Home'
  <2>1. \A u \in Trips : begun[u] # NotBegun => begun'[u] = begun[u]
    BY <1>2 DEF Redirect, TypeOK
  <2>2. \A c \in Browsers, u \in Trips :
          begun[u].browser = c => begun'[u].browser = c
    BY <2>1, NoneAssumption DEF NotBegun
  <2>3. begun'[t].browser = b /\ cookie' = [cookie EXCEPT ![b] = StateOf[t]]
    BY <1>2 DEF Redirect, TypeOK
  <2>4. \A c \in Browsers : cookie'[c] # None =>
          \E u \in Trips : begun'[u].browser = c /\ StateOf[u] = cookie'[c]
    BY <2>2, <2>3 DEF Home, TypeOK
  <2>5. OwnBrowser'
    BY <1>2, <2>2 DEF Redirect, Home, OwnBrowser, TypeOK, history
  <2> QED
    BY <1>2, <2>2, <2>4, <2>5 DEF Redirect, Home, Running, Past
<1>3. ASSUME NEW t \in Trips, NEW b \in Browsers, NEW p \in Pods,
             NEW r \in Requests, Callback(r, t, b, p)
      PROVE  Home'
  <2>1. Cached(p, t) # None /\ OwnState(t) => begun[t].browser = b
    BY <1>3, StateOfAssumption, NoneAssumption DEF Callback, CookieMatches, Home
  <2>2. req' = [req EXCEPT ![r] = [pc |-> "exchange", browser |-> b, pod |-> p,
                                  trip |-> t, held |-> Cached(p, t)]]
    BY <1>3 DEF Callback
  <2>3. UNCHANGED <<cookie, begun, homes>>
    BY <1>3 DEF Callback, history
  <2>4. \A q \in Requests : q # r => req'[q] = req[q]
    BY <2>2 DEF TypeOK
  <2>5. ~Past(r)' /\ (req'[r].held # None /\ OwnState(req'[r].trip)
                      => begun[req'[r].trip].browser = req'[r].browser)
    BY <2>1, <2>2 DEF TypeOK, Past
  <2> QED
    BY <2>3, <2>4, <2>5 DEF Home, OwnBrowser, Past
<1>4. ASSUME NEW t \in Trips, AtProvider(t) \/ Expire(t) PROVE Home'
  BY <1>4 DEF AtProvider, Expire, Home, OwnBrowser, Past, history
<1>6. ASSUME NEW r \in Requests, Exchange(r) PROVE Home'
  BY <1>6, NoneAssumption DEF Exchange, TypeOK, Running, Home, OwnBrowser, Past, history
<1>7. ASSUME NEW r \in Requests,
             ExchangeFails(r) \/ ProcessFails(r) \/ FinishFails(r)
      PROVE  Home'
  BY <1>7
  DEF ExchangeFails, ProcessFails, FinishFails, TypeOK, Home, OwnBrowser, Past,
      Idle, history
<1>8. ASSUME NEW r \in Requests, Process(r) \/ Delete(r) PROVE Home'
  <2>1. UNCHANGED <<cookie, begun, homes>>
    BY <1>8 DEF Process, Delete, history
  <2>2. \A q \in Requests :
           /\ Past(q)' <=> Past(q)
           /\ req'[q].pc = "idle" <=> req[q].pc = "idle"
           /\ req'[q].trip = req[q].trip /\ req'[q].held = req[q].held
           /\ req'[q].browser = req[q].browser
    BY <1>8 DEF Process, Delete, TypeOK, Request, Past
  <2> QED
    BY <2>1, <2>2 DEF Home, OwnBrowser
<1>9. ASSUME NEW r \in Requests, Finish(r) PROVE Home'
  <2>1. OwnState(req[r].trip) => begun[req[r].trip].browser = req[r].browser
    BY <1>9 DEF Finish, Home, Past
  <2>2. OwnBrowser'
    BY <1>9, <2>1 DEF Finish, Home, OwnBrowser, TypeOK
  <2> QED
    BY <1>9, <2>2 DEF Finish, TypeOK, Home, Past, Idle
<1>10. ASSUME NEW b \in Browsers, ExpireCookie(b) PROVE Home'
  BY <1>10 DEF ExpireCookie, TypeOK, Home, OwnBrowser, Past, history
<1>11. ASSUME NEW p \in Pods, Restart(p) PROVE Home'
  BY <1>11, SMTT(30) DEF Restart, TypeOK, Home, OwnBrowser, Past, Idle
<1> QED
  BY <1>1, <1>2, <1>3, <1>4, <1>6, <1>7, <1>8, <1>9, <1>10, <1>11 DEF Next

\* A session only goes to the browser whose redirect began the login, though
\* its callback can be loaded by any browser and on any pod.
THEOREM OwnBrowserHolds == Spec => []OwnBrowser
<1>1. Home => OwnBrowser
  BY DEF Home
<1> QED
  BY <1>1, TypeInit, TypeNext, HomeInit, HomeNext, PTL DEF Spec
=============================================================================
