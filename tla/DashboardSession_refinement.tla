--------------------- MODULE DashboardSession_refinement ---------------------
(* DashboardSession keeps the promise of SessionDesk for all sets of          *)
(* browsers, requests, tokens, states and tickets: each of its steps is a     *)
(* step of SessionDesk or changes nothing of it.                              *)
EXTENDS DashboardSession_proofs

-----------------------------------------------------------------------------
(* A token that a request works with or a ticket was issued for names a      *)
(* session that was opened: nothing ends a session before it begins.         *)

Born(t) == t \in Tokens => session[t] # "unborn"

BornInv ==
    /\ \A r \in Requests : Born(req[r].token)
    /\ \A k \in Tickets : Born(ticket[k])

\* A step that keeps the sessions it found and gives request r no token but one
\* that is known already.
LEMMA BornKept ==
    ASSUME Typed, BornInv, NEW r \in Requests, Alone(r),
           \A t \in Tokens : session[t] # "unborn" => session'[t] # "unborn",
           \A k \in Tickets : ticket'[k] \in {None, ticket[k]},
           Born(req'[r].token)
    PROVE  BornInv'
<1>1. ASSUME NEW q \in Requests PROVE Born(req[q].token)'
  BY DEF BornInv, Born, Alone
<1>2. ASSUME NEW k \in Tickets PROVE Born(ticket[k])'
  BY Sentinels DEF BornInv, Born
<1> QED
  BY <1>1, <1>2 DEF BornInv

\* The token of a request after a step of its own.
LEMMA SentToken ==
    ASSUME Typed, CookieInv, NEW r \in Requests, NEW b \in Browsers,
           SendLogin(r, b) \/ SendCallback(r, b) \/ SendLogout(r, b)
           \/ SendTicket(r, b) \/ SendWs(r, b)
    PROVE  Born(req'[r].token)
<1>1. req \in [Requests -> Request] /\ jar[b].token \in Tokens \cup {None}
  BY DEF Typed, TypeOK, Jar
<1>2. IdleRequest.token = None
  BY DEF IdleRequest
<1>3. Born(jar[b].token) /\ \A t \in Header : Born(t)
  BY Sentinels DEF CookieInv, Coherent, Header, Born
<1>4. ASSUME NEW kind, NEW s, NEW c, NEW k, NEW t, Born(t),
             \/ req' = [req EXCEPT ![r] = [IdleRequest EXCEPT !.pc = kind, !.browser = b]]
             \/ req' = [req EXCEPT ![r] =
                   [IdleRequest EXCEPT !.pc = "callback", !.browser = b,
                                       !.state = s, !.cookieState = c]]
             \/ req' = [req EXCEPT ![r] =
                   [IdleRequest EXCEPT !.pc = "ws", !.browser = b, !.ticket = k]]
             \/ req' = [req EXCEPT ![r] =
                   [IdleRequest EXCEPT !.pc = kind, !.browser = b, !.token = t]]
      PROVE  Born(req'[r].token)
  <2>1. req'[r].token \in {None, t}
    BY <1>1, <1>4, ZenonT(60) DEF IdleRequest
  <2> QED
    BY <1>4, <2>1, Sentinels DEF Born
<1>5. Born(None)
  BY Sentinels DEF Born
<1>6. CASE SendLogin(r, b)
  BY <1>4, <1>5, <1>6 DEF SendLogin, Send
<1>7. CASE SendCallback(r, b)
  BY <1>4, <1>5, <1>7 DEF SendCallback, Send
<1>8. CASE SendLogout(r, b)
  <2>1. PICK t \in Header \cup {jar[b].token} :
            req' = [req EXCEPT ![r] = [IdleRequest EXCEPT !.pc = "logout", !.browser = b,
                                                          !.token = t]]
    BY <1>8 DEF SendLogout, Send
  <2> QED
    BY <1>3, <1>4, <2>1
<1>9. CASE SendTicket(r, b)
  <2>1. PICK t \in Header \cup {jar[b].token} :
            req' = [req EXCEPT ![r] = [IdleRequest EXCEPT !.pc = "ticket", !.browser = b,
                                                          !.token = t]]
    BY <1>9 DEF SendTicket, Send
  <2> QED
    BY <1>3, <1>4, <2>1
<1>10. CASE SendWs(r, b)
  BY <1>4, <1>5, <1>10 DEF SendWs, Send
<1> QED
  BY <1>6, <1>7, <1>8, <1>9, <1>10

LEMMA QuietToken ==
    ASSUME Typed, BornInv, NEW r \in Requests, QuietStep(r)
    PROVE  Born(req'[r].token)
<1>1. req \in [Requests -> Request] /\ req[r] \in Request /\ Born(req[r].token)
  BY DEF Typed, TypeOK, BornInv
<1>2. Born(None) /\ Born(Dummy)
  BY Sentinels DEF Born
<1>3. CASE Login(r) \/ Callback(r)
  <2>1. req'[r].token = req[r].token
    BY <1>1, <1>3 DEF Login, Callback, Proceed, Request
  <2> QED
    BY <1>1, <2>1
<1>4. CASE TicketAuth(r)
  <2>1. req'[r].token = SessionToken(r)
    BY <1>1, <1>4 DEF TicketAuth, ProceedWith, Request
  <2> QED
    BY <1>1, <1>2, <2>1 DEF SessionToken
<1>5. CASE LogoutWithoutToken(r)
  <2>1. req'[r].token = None
    BY <1>1, <1>5, ZenonT(60) DEF LogoutWithoutToken, LoggedOut, Answered, IdleRequest
  <2> QED
    BY <1>2, <2>1
<1>6. CASE LogoutFails(r)
  <2>1. req'[r].token = req[r].token
    BY <1>1, <1>6, ZenonT(60) DEF LogoutFails, Answered, IdleRequest
  <2> QED
    BY <1>1, <2>1
<1>7. ASSUME NEW c, Answer(r, c) PROVE Born(req'[r].token)
  <2>1. req'[r].token = None
    BY <1>1, <1>7, ZenonT(60) DEF Answer, Answered, IdleRequest
  <2> QED
    BY <1>2, <2>1
<1> QED
  BY <1>3, <1>4, <1>5, <1>6, <1>7
  DEF QuietStep, LoginRefused, CallbackNotEnabled, CallbackRefused, CreateFails,
      TicketRefused, IssueFails, WsOpen

LEMMA LoudBorn ==
    ASSUME Typed, BornInv, NEW r \in Requests,
           \/ SsoLogin(r) \/ Exchange(r) \/ ExchangeFails(r) \/ Create(r)
           \/ Logout(r) \/ Issue(r) \/ Consume(r) \/ Validate(r) \/ Arrive(r)
    PROVE  BornInv'
<1> USE DEF rows, tickets
<1>0. /\ session \in [Tokens -> {"unborn", "live", "expired", "deleted"}]
      /\ ticket \in [Tickets -> Tokens \cup {None, Dummy}]
      /\ req \in [Requests -> Request] /\ req[r] \in Request
  BY DEF Typed, TypeOK
<1>00. Born(None) /\ NoCookies \in Cookies /\ [NoCookies EXCEPT !.state = None] \in Cookies
  BY IdleTyped, PlainForm, Sentinels DEF Born, Plain
<1>1. CASE SsoLogin(r)
  <2>1. PICK s \in States : Answer(r, [NoCookies EXCEPT !.state = s])
    BY <1>1 DEF SsoLogin
  <2>2. [NoCookies EXCEPT !.state = s] \in Cookies
    BY DEF NoCookies, Cookies
  <2>3. Alone(r) /\ req'[r].token = None
    BY <2>1, <2>2, AnswerForm
  <2> QED
    BY <1>00, <1>1, <2>3, BornKept DEF SsoLogin
<1>2. CASE Exchange(r)
  <2>1. req'[r].token = req[r].token
    BY <1>0, <1>2, ZenonT(60) DEF Exchange, Request
  <2> QED
    BY <1>2, <2>1, ExchangeForm, BornKept DEF Exchange, BornInv
<1>3. CASE ExchangeFails(r)
  BY <1>00, <1>3, AnswerForm, BornKept DEF ExchangeFails
<1>4. CASE Create(r)
  <2>1. PICK t \in Tokens :
            /\ session' = [session EXCEPT ![t] = "live"]
            /\ Answer(r, [token |-> t, state |-> StateCookie(r),
                          profile |-> Profile(r, t)])
    BY <1>4 DEF Create
  <2>2. [token |-> t, state |-> StateCookie(r), profile |-> Profile(r, t)] \in Cookies
    BY DEF StateCookie, Profile, Cookies
  <2>3. Alone(r) /\ req'[r].token = None
    BY <2>1, <2>2, AnswerForm
  <2>4. \A u \in Tokens : session[u] # "unborn" => session'[u] # "unborn"
    BY <1>0, <2>1
  <2> QED
    BY <1>00, <1>4, <2>3, <2>4, BornKept DEF Create
<1>5. CASE Logout(r)
  <2>1. Alone(r) /\ \A u \in Tokens : session[u] # "unborn" => session'[u] # "unborn"
    BY <1>5, LogoutForm DEF Logout
  <2>2. req'[r].token = None
    BY <1>0, <1>5, ZenonT(60) DEF Logout, LoggedOut, Answered, IdleRequest
  <2> QED
    BY <1>00, <1>5, <2>1, <2>2, BornKept DEF Logout
<1>6. CASE Issue(r)
  <2>1. PICK k \in Tickets :
            /\ ticket' = [ticket EXCEPT ![k] = req[r].token]
            /\ req' = [req EXCEPT ![r] = [Answered(r) EXCEPT !.ticket = k]]
    BY <1>6 DEF Issue
  <2>2. Alone(r) /\ req'[r].token = None
    BY <1>0, <2>1, ZenonT(60) DEF Alone, Answered, IdleRequest
  <2>3. ASSUME NEW q \in Requests PROVE Born(req[q].token)'
    BY <1>00, <1>6, <2>2 DEF Issue, BornInv, Born, Alone
  <2>4. ASSUME NEW j \in Tickets PROVE Born(ticket[j])'
    <3>1. ticket'[j] \in {ticket[j], req[r].token}
      BY <1>0, <2>1
    <3> QED
      BY <1>6, <3>1 DEF Issue, BornInv, Born
  <2> QED
    BY <2>3, <2>4 DEF BornInv
<1>7. CASE Consume(r)
  <2>1. req[r].ticket \in Tickets
    BY <1>7 DEF Consume, Typed, Owned
  <2>2. \A k \in Tickets : ticket'[k] \in {None, ticket[k]}
    BY <1>0, <1>7 DEF Consume
  <2> QED
    BY <1>7, <2>1, <2>2, ConsumeForm, BornKept DEF Consume, BornInv
<1>8. CASE Validate(r)
  BY <1>00, <1>8, AnswerForm, BornKept DEF Validate
<1>9. CASE Arrive(r)
  <2>1. req'[r].token = None
    BY <1>9, ArriveForm DEF IdleRequest
  <2> QED
    BY <1>00, <1>9, <2>1, ArriveForm, BornKept DEF Arrive
<1> QED
  BY <1>1, <1>2, <1>3, <1>4, <1>5, <1>6, <1>7, <1>8, <1>9

LEMMA NextBorn ==
    ASSUME Typed, CookieInv, BornInv, [Next]_vars
    PROVE  BornInv'
<1> USE DEF rows, tickets
<1>1. ASSUME NEW r \in Requests, Quiet(r), Born(req'[r].token) PROVE BornInv'
  BY <1>1, BornKept DEF Quiet
<1>2. CASE Sent
  BY <1>1, <1>2, SendQuiet, SentToken DEF Sent
<1>3. CASE Handled
  BY <1>1, <1>3, HandledQuiet, QuietToken, LoudBorn DEF Handled, QuietStep
<1>4. CASE \E t \in Tokens : ExpireSession(t)
  <2>1. /\ UNCHANGED <<req, ticket>>
        /\ \A t \in Tokens : session[t] # "unborn" => session'[t] # "unborn"
    BY <1>4 DEF ExpireSession, Typed, TypeOK
  <2> QED
    BY <2>1 DEF BornInv, Born
<1>5. CASE \E k \in Tickets : ExpireTicket(k)
  <2>1. /\ UNCHANGED <<req, session>>
        /\ \A k \in Tickets : ticket'[k] \in {None, ticket[k]}
    BY <1>5 DEF ExpireTicket, Typed, TypeOK
  <2> QED
    BY <2>1, Sentinels DEF BornInv, Born
<1>6. CASE Restart
  <2>1. /\ \A r \in Requests : req'[r].token = None
        /\ \A k \in Tickets : ticket'[k] = None
    BY <1>6 DEF Restart, IdleRequest
  <2> QED
    BY <2>1, Sentinels DEF BornInv, Born
<1>7. CASE UNCHANGED <<req, session, ticket>>
  BY <1>7 DEF BornInv, Born
<1>8. Drops => UNCHANGED <<req, session, ticket>>
  BY DropsForm
<1> QED
  BY <1>2, <1>3, <1>4, <1>5, <1>6, <1>7, <1>8
  DEF Next, Drops, World, AtProvider, SetConfig, UpdateAuthConfig, vars

LEMMA AlwaysBorn == Spec => []BornInv
<1>1. Init => BornInv
  BY Sentinels DEF Init, IdleRequest, BornInv, Born
<1> QED
  BY <1>1, NextBorn, AlwaysTyped, AlwaysCookies, PTL DEF Spec

-----------------------------------------------------------------------------
(* What SessionDesk sees of a state.                                       *)

Redeemed == {s \in States : code[s] = "redeemed"}
Row == [t \in Tokens |-> Standing(t)]
Held == [b \in Browsers |-> jar[b].token]

LEMMA SameRedeemed ==
    ASSUME \A s \in States : code'[s] = "redeemed" <=> code[s] = "redeemed"
    PROVE  Redeemed' = Redeemed
BY DEF Redeemed

LEMMA SameRow ==
    ASSUME \A t \in Tokens : session'[t] = session[t]
    PROVE  Row' = Row
BY DEF Row, Standing

LEMMA SameHeld ==
    ASSUME \A b \in Browsers : jar'[b].token = jar[b].token
    PROVE  Held' = Held
BY DEF Held

LEMMA Seen ==
    ASSUME UNCHANGED <<begunIn, Redeemed, Row, origin, Held, issuedTo, sockets>>
    PROVE  UNCHANGED Desk!vars
BY DEF Desk!vars, Redeemed, Row, Held

\* The steps SessionDesk knows nothing of.
LEMMA Unseen ==
    ASSUME UNCHANGED <<begunIn, origin, issuedTo, sockets>>,
           \A s \in States : code'[s] = "redeemed" <=> code[s] = "redeemed",
           \A t \in Tokens : session'[t] = session[t],
           \A b \in Browsers : jar'[b].token = jar[b].token
    PROVE  UNCHANGED <<begunIn, Redeemed, Row, origin, Held, issuedTo, sockets>>
BY SameRedeemed, SameRow, SameHeld

\* A session that was live is over.
LEMMA Ends ==
    ASSUME Typed, NEW t \in Tokens, session[t] = "live",
           session'[t] \in {"expired", "deleted"},
           \A u \in Tokens \ {t} : session'[u] = session[u],
           UNCHANGED <<begunIn, origin, issuedTo, sockets, code, jar>>
    PROVE  Desk!Next
<1>1. Row[t] = "live" /\ Row' = [Row EXCEPT ![t] = "over"]
  BY DEF Row, Standing
<1>2. Redeemed' = Redeemed /\ Held' = Held
  BY SameRedeemed, SameHeld
<1>3. Desk!End(t)
  BY <1>1, <1>2 DEF Desk!End, Desk!logins, Desk!tickets, Redeemed, Row, Held
<1> QED
  BY <1>3 DEF Desk!Next

LEMMA SimulatesLoud ==
    ASSUME Typed, BegunInv, RedeemInv, CookieInv, TicketInv, BornInv,
           NEW r \in Requests,
           \/ SsoLogin(r) \/ Exchange(r) \/ ExchangeFails(r) \/ Create(r)
           \/ Logout(r) \/ Issue(r) \/ Consume(r) \/ Validate(r) \/ Arrive(r)
    PROVE  Desk!Next \/ UNCHANGED <<begunIn, Redeemed, Row, origin, Held, issuedTo, sockets>>
<1> USE DEF rows, tickets, provider, config
<1>0. /\ session \in [Tokens -> {"unborn", "live", "expired", "deleted"}]
      /\ code \in [States -> {"none", "pending", "denied", "granted", "redeemed"}]
      /\ origin \in [Tokens -> States \cup {None}]
      /\ begunIn \in [States -> Browsers \cup {None}]
      /\ issuedTo \in [Tickets -> Tokens \cup {None, Dummy}]
      /\ sockets \in [Tickets -> Nat]
      /\ req[r].pc # "idle" => req[r].browser \in Browsers
      /\ req[r] \in Request
  BY DEF Typed, TypeOK, Owned
\* The exchange, whether it then fails or not.
<1>pay. ASSUME req[r].pc = "exchange", code[req[r].state] # "redeemed",
               code' = [code EXCEPT ![req[r].state] = "redeemed"],
               UNCHANGED <<session, origin, jar, begunIn, issuedTo, sockets>>
        PROVE  Desk!Next
  <2>1. PICK s \in States : s = req[r].state /\ begunIn[s] # None
    BY <1>pay DEF BegunInv, Begun
  <2>2. s \notin Redeemed /\ Redeemed' = Redeemed \cup {s}
    BY <1>0, <1>pay, <2>1 DEF Redeemed
  <2>3. Row' = Row /\ Held' = Held
    BY <1>pay, SameRow, SameHeld
  <2>4. Desk!Redeem(s)
    BY <1>pay, <2>1, <2>2, <2>3 DEF Desk!Redeem, Desk!sessions, Desk!tickets, Redeemed, Row, Held
  <2> QED
    BY <2>4 DEF Desk!Next
<1>1. CASE SsoLogin(r)
  <2>1. PICK s \in States, b \in Browsers :
            begunIn[s] = None /\ begunIn' = [begunIn EXCEPT ![s] = b]
    BY <1>0, <1>1 DEF SsoLogin
  <2>2. Redeemed' = Redeemed /\ Row' = Row /\ Held' = Held
    BY <1>1, SameRedeemed, SameRow, SameHeld DEF SsoLogin
  <2>3. Desk!Begin(s, b)
    BY <1>1, <2>1, <2>2
    DEF SsoLogin, Desk!Begin, Desk!sessions, Desk!tickets, Redeemed, Row, Held
  <2> QED
    BY <2>3 DEF Desk!Next
<1>2. CASE Exchange(r)
  BY <1>2, <1>pay DEF Exchange
<1>3. CASE ExchangeFails(r)
  <2>1. CASE code' = code \/ code[req[r].state] = "redeemed"
    <3>1. code' = code
      BY <1>0, <1>3, <2>1 DEF ExchangeFails
    <3> QED
      BY <1>3, <3>1, Unseen DEF ExchangeFails
  <2>2. CASE code' # code /\ code[req[r].state] # "redeemed"
    BY <1>3, <1>pay, <2>2 DEF ExchangeFails
  <2> QED
    BY <2>1, <2>2
<1>4. CASE Create(r)
  <2>1. PICK t \in Tokens :
            /\ session[t] = "unborn"
            /\ session' = [session EXCEPT ![t] = "live"]
            /\ origin' = [origin EXCEPT ![t] = req[r].state]
    BY <1>4 DEF Create
  <2>2. PICK s \in States \cup {None} : s = req[r].state
    BY <1>0 DEF Request
  <2>3. s # None => s \in Redeemed /\ \A u \in Tokens : origin[u] # s
    BY <1>4, <2>2 DEF Create, RedeemInv, Paying, Redeemed
  <2>4. Row[t] = "unborn" /\ Row' = [Row EXCEPT ![t] = "live"]
    BY <1>0, <2>1 DEF Row, Standing
  <2>5. Redeemed' = Redeemed /\ Held' = Held
    BY <1>4, SameRedeemed, SameHeld DEF Create
  <2>6. Desk!SignIn(t, s)
    BY <1>4, <2>1, <2>2, <2>3, <2>4, <2>5
    DEF Create, Desk!SignIn, Desk!logins, Desk!tickets, Redeemed, Row, Held
  <2> QED
    BY <2>6 DEF Desk!Next
<1>5. CASE Logout(r)
  <2>1. /\ UNCHANGED <<begunIn, origin, issuedTo, sockets, code, jar>>
        /\ session' = [t \in Tokens |->
                          IF t = req[r].token THEN "deleted" ELSE session[t]]
    BY <1>5 DEF Logout
  <2>2. CASE \E t \in Tokens : t = req[r].token /\ session[t] = "live"
    BY <2>1, <2>2, Ends
  <2>3. CASE ~\E t \in Tokens : t = req[r].token /\ session[t] = "live"
    <3>1. \A t \in Tokens : Standing(t)' = Standing(t)
      BY <1>0, <2>1, <2>3 DEF Standing, BornInv, Born
    <3>2. Row' = Row
      BY <3>1 DEF Row
    <3> QED
      BY <2>1, <3>2, SameRedeemed, SameHeld
  <2> QED
    BY <2>2, <2>3
<1>6. CASE Issue(r)
  <2>1. PICK k \in Tickets :
            issuedTo[k] = None /\ issuedTo' = [issuedTo EXCEPT ![k] = req[r].token]
    BY <1>6 DEF Issue
  <2>2. PICK t \in Tokens \cup {Dummy} : t = req[r].token
    BY <1>0, <1>6 DEF Issue, TicketInv, Request
  <2>3. t # Dummy => Row[t] # "unborn"
    BY <1>0, <2>2 DEF BornInv, Born, Row, Standing
  <2>4. Redeemed' = Redeemed /\ Row' = Row /\ Held' = Held
    BY <1>6, SameRedeemed, SameRow, SameHeld DEF Issue
  <2>5. Desk!Issue(k, t)
    BY <1>6, <2>1, <2>2, <2>3, <2>4
    DEF Issue, Desk!Issue, Desk!logins, Desk!sessions, Redeemed, Row, Held
  <2> QED
    BY <2>5 DEF Desk!Next
<1>7. CASE Consume(r)
  BY <1>7, Unseen DEF Consume
<1>8. CASE Validate(r)
  <2>1. PICK k \in Tickets : k = req[r].ticket
    BY <1>8 DEF Validate, Typed, Owned
  <2>2. CASE WsAccepted(r)
    <3>1. Holds(r) /\ req[r].token \in Tokens /\ session[req[r].token] = "live"
      BY <1>8, <2>2, Sentinels DEF Validate, WsAccepted, Valid, Holds
    <3>2. issuedTo[k] = req[r].token /\ sockets[k] = 0
      BY <2>1, <3>1 DEF TicketInv
    <3>3. Row[issuedTo[k]] = "live"
      BY <3>1, <3>2 DEF Row, Standing
    <3>4. sockets' = [sockets EXCEPT ![k] = 1]
      BY <1>8, <2>1, <2>2, <3>2 DEF Validate
    <3>5. Redeemed' = Redeemed /\ Row' = Row /\ Held' = Held
      BY <1>8, SameRedeemed, SameRow, SameHeld DEF Validate
    <3>6. Desk!OpenSocket(k)
      BY <1>8, <3>1, <3>2, <3>3, <3>4, <3>5
      DEF Validate, Desk!OpenSocket, Desk!logins, Desk!sessions, Redeemed, Row, Held
    <3> QED
      BY <3>6 DEF Desk!Next
  <2>3. CASE ~WsAccepted(r)
    BY <1>8, <2>3, Unseen DEF Validate
  <2> QED
    BY <2>2, <2>3
<1>9. CASE Arrive(r)
  <2>0. PICK b \in Browsers : b = req[r].browser
    BY <1>9, ArriveForm
  <2>1. PICK t : t = jar'[b].token
    OBVIOUS
  <2>2. /\ t \in Tokens \cup {None} /\ jar[b].token \in Tokens \cup {None}
        /\ t = Stored(req[r].set.token, jar[b].token)
        /\ \A c \in Browsers \ {b} : jar'[c] = jar[c]
    BY <1>9, <2>0, <2>1, ArriveForm DEF Jar, Typed, TypeOK
  <2>3. Coherent(req[r].set, b) /\ Coherent(jar[b], b)
    BY <1>9, <2>0 DEF Arrive, CookieInv
  <2>4. t # None => /\ Row[t] # "unborn"
                    /\ origin[t] # None => begunIn[origin[t]] = b
    BY <1>0, <2>2, <2>3 DEF Coherent, Stored, Row, Standing
  <2>5. Held' = [Held EXCEPT ![b] = t]
    BY <2>1, <2>2 DEF Held
  <2>6. req[r].set.state \in States => code[req[r].set.state] = "none"
    BY <1>9 DEF Arrive, BegunInv, Begun
  <2>7. \A s \in States : code'[s] = "redeemed" <=> code[s] = "redeemed"
    BY <1>9, <2>6 DEF Arrive
  <2>8. Redeemed' = Redeemed /\ Row' = Row
    BY <1>9, <2>7, SameRedeemed, SameRow DEF Arrive
  <2>9. Desk!Hold(b, t)
    BY <1>9, <2>4, <2>5, <2>8
    DEF Arrive, Desk!Hold, Desk!Mine, Desk!logins, Desk!sessions, Desk!tickets,
        Redeemed, Row, Held
  <2> QED
    BY <2>2, <2>9 DEF Desk!Next
<1> QED
  BY <1>1, <1>2, <1>3, <1>4, <1>5, <1>6, <1>7, <1>8, <1>9

LEMMA Simulates ==
    ASSUME Typed, BegunInv, RedeemInv, CookieInv, TicketInv, BornInv, [Next]_vars
    PROVE  [Desk!Next]_Desk!vars
<1> USE DEF rows, tickets, provider, config
<1> SUFFICES Desk!Next \/ UNCHANGED Desk!vars
  OBVIOUS
<1>1. ASSUME UNCHANGED vars
      PROVE  UNCHANGED <<begunIn, Redeemed, Row, origin, Held, issuedTo, sockets>>
  BY <1>1, Unseen DEF vars
<1>2. ASSUME NEW r \in Requests, Quiet(r)
      PROVE  UNCHANGED <<begunIn, Redeemed, Row, origin, Held, issuedTo, sockets>>
  BY <1>2, Unseen DEF Quiet
<1>3. ASSUME NEW s \in States, AtProvider(s)
      PROVE  UNCHANGED <<begunIn, Redeemed, Row, origin, Held, issuedTo, sockets>>
  <2>1. \A x \in States : code'[x] = "redeemed" <=> code[x] = "redeemed"
    BY <1>3 DEF AtProvider, Typed, TypeOK
  <2> QED
    BY <1>3, <2>1, Unseen DEF AtProvider
<1>4. ASSUME NEW t \in Tokens, ExpireSession(t) PROVE Desk!Next
  BY <1>4, Ends DEF ExpireSession, Typed, TypeOK
<1>5. ASSUME \/ \E k \in Tickets : ExpireTicket(k)
             \/ SetConfig \/ UpdateAuthConfig \/ Restart
      PROVE  UNCHANGED <<begunIn, Redeemed, Row, origin, Held, issuedTo, sockets>>
  BY <1>5, Unseen DEF ExpireTicket, SetConfig, UpdateAuthConfig, Restart
<1>6. ASSUME NEW b \in Browsers, ExpireState(b)
      PROVE  UNCHANGED <<begunIn, Redeemed, Row, origin, Held, issuedTo, sockets>>
  <2>1. \A c \in Browsers : jar'[c].token = jar[c].token
    BY <1>6 DEF ExpireState, Typed, TypeOK, Jar
  <2> QED
    BY <1>6, <2>1, Unseen DEF ExpireState
<1>7. ASSUME NEW b \in Browsers, ExpireCookies(b) PROVE Desk!Next
  <2>1. /\ \A c \in Browsers :
              jar'[c].token = IF c = b THEN None ELSE jar[c].token
        /\ UNCHANGED <<begunIn, code, session, origin, issuedTo, sockets>>
    BY <1>7 DEF ExpireCookies, Typed, TypeOK, Jar
  <2>2. Held' = [Held EXCEPT ![b] = None]
    BY <2>1 DEF Held
  <2>3. Redeemed' = Redeemed /\ Row' = Row
    BY <2>1, SameRedeemed, SameRow
  <2>4. Desk!Hold(b, None)
    BY <2>1, <2>2, <2>3
    DEF Desk!Hold, Desk!logins, Desk!sessions, Desk!tickets, Redeemed, Row, Held
  <2> QED
    BY <2>4 DEF Desk!Next
<1>8. Desk!Next \/ UNCHANGED <<begunIn, Redeemed, Row, origin, Held, issuedTo, sockets>>
  BY <1>1, <1>2, <1>3, <1>4, <1>5, <1>6, <1>7, Steps, SimulatesLoud DEF World
<1> QED
  BY <1>8, Seen

\* KeepsDesk holds of any number of browsers, requests and tickets, with and
\* without Authorization headers (session.go, middlewares.go).
THEOREM KeepsDeskHolds == Spec => KeepsDesk
<1>1. Init => Desk!Init
  <2> SUFFICES ASSUME Init PROVE Desk!Init
    OBVIOUS
  <2>1. /\ \A s \in States : code[s] = "none"
        /\ \A t \in Tokens : session[t] = "unborn"
        /\ \A b \in Browsers : jar[b].token = None
    BY DEF Init, EmptyJar
  <2>2. Redeemed = {} /\ Row = [t \in Tokens |-> "unborn"]
        /\ Held = [b \in Browsers |-> None]
    BY <2>1 DEF Redeemed, Row, Standing, Held
  <2> QED
    BY <2>2 DEF Init, Desk!Init, Redeemed, Row, Held
<1> QED
  BY <1>1, Simulates, AlwaysTyped, AlwaysBegun, AlwaysRedeem, AlwaysCookies,
     AlwaysTickets, AlwaysBorn, PTL DEF Spec, KeepsDesk, Desk!Spec
=============================================================================
