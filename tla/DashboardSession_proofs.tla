----------------------- MODULE DashboardSession_proofs -----------------------
(* What is proved of DashboardSession for all sets of browsers, requests,    *)
(* tokens, states and tickets, with and without Authorization headers.       *)
EXTENDS DashboardSession, TLAPS

\* A request on its way belongs to a browser, and a socket has its ticket.
Owned(r) ==
    /\ req[r].pc # "idle" => req[r].browser \in Browsers
    /\ req[r].pc \in {"ws", "validate"} => req[r].ticket \in Tickets

Typed == TypeOK /\ \A r \in Requests : Owned(r)

-----------------------------------------------------------------------------
(* The forms a step gives a request.                                       *)

LEMMA Sentinels ==
    /\ None \notin Tokens /\ None \notin States /\ None \notin Tickets
    /\ Keep \notin Tokens /\ Keep \notin States
    /\ Blank \notin Tokens /\ Dummy \notin Tokens
    /\ Keep # None /\ Keep # Blank /\ None # Blank /\ None # Dummy
    /\ None \notin Browsers
BY SentinelAssumption

LEMMA IdleTyped == IdleRequest \in Request /\ NoCookies \in Cookies
BY DEF IdleRequest, Request, Cookies, NoCookies

\* A request of another slot stays as it is.
Alone(r) == \A q \in Requests \ {r} : req'[q] = req[q]

LEMMA AnswerForm ==
    ASSUME Typed, NEW r \in Requests, NEW c \in Cookies, Answer(r, c)
    PROVE  /\ req' \in [Requests -> Request] /\ Alone(r)
           /\ req'[r].pc = "answer" /\ req'[r].browser = req[r].browser
           /\ req'[r].token = None /\ req'[r].ticket = None
           /\ req'[r].state = None /\ req'[r].cookieState = None
           /\ req'[r].answer = "ok" /\ req'[r].set = c
<1>1. req[r] \in Request /\ req \in [Requests -> Request]
  BY DEF Typed, TypeOK
<1> DEFINE q == [Answered(r) EXCEPT !.set = c]
<1>2. /\ q \in Request
      /\ q.pc = "answer" /\ q.browser = req[r].browser
      /\ q.token = None /\ q.ticket = None
      /\ q.state = None /\ q.cookieState = None
      /\ q.answer = "ok" /\ q.set = c
  BY <1>1, ZenonT(60) DEF Answered, IdleRequest, Request, Cookies, NoCookies
<1>3. req' = [req EXCEPT ![r] = q]
  BY DEF Answer
<1> HIDE DEF q
<1> QED
  BY <1>1, <1>2, <1>3 DEF Alone

LEMMA ProceedForm ==
    ASSUME Typed, NEW r \in Requests, NEW pc, NEW t \in Tokens \cup {None, Dummy},
           pc \in {"create", "exchange", "issue", "validate"}, ProceedWith(r, pc, t)
    PROVE  /\ req' \in [Requests -> Request] /\ Alone(r)
           /\ req'[r].pc = pc /\ req'[r].browser = req[r].browser
           /\ req'[r].token = t /\ req'[r].ticket = req[r].ticket
           /\ req'[r].state = req[r].state
<1>1. req[r] \in Request /\ req \in [Requests -> Request]
  BY DEF Typed, TypeOK
<1> DEFINE q == [req[r] EXCEPT !.pc = pc, !.token = t]
<1>2. /\ q \in Request
      /\ q.pc = pc /\ q.browser = req[r].browser
      /\ q.token = t /\ q.ticket = req[r].ticket /\ q.state = req[r].state
  BY <1>1, ZenonT(60) DEF Request
<1>3. req' = [req EXCEPT ![r] = q]
  BY DEF ProceedWith
<1> HIDE DEF q
<1> QED
  BY <1>1, <1>2, <1>3 DEF Alone

LEMMA MoveForm ==
    ASSUME Typed, NEW r \in Requests, NEW pc,
           pc \in {"create", "exchange"}, Proceed(r, pc)
    PROVE  /\ req' \in [Requests -> Request] /\ Alone(r)
           /\ req'[r].pc = pc /\ req'[r].browser = req[r].browser
           /\ req'[r].state = req[r].state
<1>1. req[r] \in Request /\ req \in [Requests -> Request]
  BY DEF Typed, TypeOK
<1> DEFINE q == [req[r] EXCEPT !.pc = pc]
<1>2. /\ q \in Request
      /\ q.pc = pc /\ q.browser = req[r].browser /\ q.state = req[r].state
  BY <1>1 DEF Request
<1>3. req' = [req EXCEPT ![r] = q]
  BY DEF Proceed
<1> HIDE DEF q
<1> QED
  BY <1>1, <1>2, <1>3 DEF Alone

LEMMA SentForm ==
    ASSUME Typed, NEW r \in Requests, NEW q \in Request, Send(r, q)
    PROVE  req' \in [Requests -> Request] /\ Alone(r) /\ req'[r] = q
BY DEF Typed, TypeOK, Send, Alone

\* The cookies of an answer that opens no session and draws no state.
Plain == {NoCookies, [NoCookies EXCEPT !.state = None], Cleared}

LEMMA ClearedForm ==
    /\ Cleared \in Cookies
    /\ Cleared.token = None /\ Cleared.state = Keep /\ Cleared.profile = None
<1>1. Cleared \in [token: {None}, state: {Keep}, profile: {None}]
  BY DEF Cleared, NoCookies
<1> QED
  BY <1>1 DEF Cookies

LEMMA PlainForm ==
    /\ Plain \subseteq Cookies
    /\ \A c \in Plain : /\ c.state \notin States
                        /\ \/ c.token = Keep /\ c.profile = Keep
                           \/ c.token = None /\ c.profile = None
<1>1. SUFFICES ASSUME NEW c \in Plain
               PROVE  /\ c \in Cookies /\ c.state \notin States
                      /\ \/ c.token = Keep /\ c.profile = Keep
                         \/ c.token = None /\ c.profile = None
  OBVIOUS
<1>2. CASE c = NoCookies
  BY <1>2, Sentinels DEF NoCookies, Cookies
<1>3. CASE c = [NoCookies EXCEPT !.state = None]
  BY <1>3, Sentinels DEF NoCookies, Cookies
<1>4. CASE c = Cleared
  BY <1>4, ClearedForm, Sentinels
<1> QED
  BY <1>2, <1>3, <1>4 DEF Plain

\* A step that only moves request r, and what becomes of the request.
Quiet(r) ==
    /\ UNCHANGED <<config, rows, jar, provider, tickets>>
    /\ req' \in [Requests -> Request]
    /\ Alone(r)
    /\ req'[r].browser \in Browsers
    /\ \/ req'[r].pc = "answer" /\ req'[r].set \in Plain
       \/ req'[r].pc \in {"login", "ssoLogin", "logout", "ticket"}
          /\ req'[r].state = None
       \/ req'[r].pc = "ws" /\ req'[r].ticket \in Tickets
       \/ req'[r].pc = "issue" /\ req'[r].token # None
       \/ /\ req'[r].pc = "callback" /\ req'[r].state \in States
          /\ code[req'[r].state] # "none"
          /\ req'[r].cookieState = jar[req'[r].browser].state
       \/ /\ req'[r].pc = "create" /\ req[r].pc = "login"
          /\ req'[r].state = req[r].state
       \/ /\ req'[r].pc = "exchange" /\ req[r].pc = "callback"
          /\ req'[r].state = req[r].state /\ req[r].cookieState = req[r].state
          /\ req'[r].browser = req[r].browser

LEMMA SendQuiet ==
    ASSUME Typed, NEW r \in Requests, NEW b \in Browsers,
           SendLogin(r, b) \/ SendCallback(r, b) \/ SendLogout(r, b)
           \/ SendTicket(r, b) \/ SendWs(r, b)
    PROVE  Quiet(r) /\ UNCHANGED unsettled
<1>1. jar[b] \in Jar
  BY DEF Typed, TypeOK
<1>2. CASE SendLogin(r, b)
  <2>1. PICK kind \in {"login", "ssoLogin"} :
            Send(r, [IdleRequest EXCEPT !.pc = kind, !.browser = b])
    BY <1>2 DEF SendLogin
  <2> DEFINE q == [IdleRequest EXCEPT !.pc = kind, !.browser = b]
  <2>2. q \in Request /\ q.pc = kind /\ q.browser = b /\ q.state = None
    BY DEF IdleRequest, Request, Cookies, NoCookies
  <2> HIDE DEF q
  <2> QED
    BY <2>1, <2>2, SentForm DEF Quiet, Send, q
<1>3. CASE SendCallback(r, b)
  <2>1. PICK s \in States :
            /\ code[s] \in {"denied", "granted", "redeemed"}
            /\ Send(r, [IdleRequest EXCEPT !.pc = "callback", !.browser = b,
                            !.state = s, !.cookieState = jar[b].state])
    BY <1>3 DEF SendCallback
  <2> DEFINE q == [IdleRequest EXCEPT !.pc = "callback", !.browser = b,
                       !.state = s, !.cookieState = jar[b].state]
  <2>2. /\ q \in Request /\ q.pc = "callback" /\ q.browser = b /\ q.state = s
        /\ q.cookieState = jar[b].state
    BY <1>1 DEF IdleRequest, Request, Cookies, NoCookies, Jar
  <2> HIDE DEF q
  <2> QED
    BY <2>1, <2>2, SentForm DEF Quiet, Send, q
<1>4. CASE SendLogout(r, b)
  <2>1. PICK t \in Header \cup {jar[b].token} :
            Send(r, [IdleRequest EXCEPT !.pc = "logout", !.browser = b, !.token = t])
    BY <1>4 DEF SendLogout
  <2> DEFINE q == [IdleRequest EXCEPT !.pc = "logout", !.browser = b, !.token = t]
  <2>2. t \in Tokens \cup {None, Dummy}
    BY <1>1 DEF Header, Jar
  <2>3. q \in Request /\ q.pc = "logout" /\ q.browser = b /\ q.state = None
    BY <2>2 DEF IdleRequest, Request, Cookies, NoCookies
  <2> HIDE DEF q
  <2> QED
    BY <2>1, <2>3, SentForm DEF Quiet, Send, q
<1>5. CASE SendTicket(r, b)
  <2>1. PICK t \in Header \cup {jar[b].token} :
            Send(r, [IdleRequest EXCEPT !.pc = "ticket", !.browser = b, !.token = t])
    BY <1>5 DEF SendTicket
  <2> DEFINE q == [IdleRequest EXCEPT !.pc = "ticket", !.browser = b, !.token = t]
  <2>2. t \in Tokens \cup {None, Dummy}
    BY <1>1 DEF Header, Jar
  <2>3. q \in Request /\ q.pc = "ticket" /\ q.browser = b /\ q.state = None
    BY <2>2 DEF IdleRequest, Request, Cookies, NoCookies
  <2> HIDE DEF q
  <2> QED
    BY <2>1, <2>3, SentForm DEF Quiet, Send, q
<1>6. CASE SendWs(r, b)
  <2>1. PICK k \in Tickets :
            Send(r, [IdleRequest EXCEPT !.pc = "ws", !.browser = b, !.ticket = k])
    BY <1>6 DEF SendWs
  <2> DEFINE q == [IdleRequest EXCEPT !.pc = "ws", !.browser = b, !.ticket = k]
  <2>2. q \in Request /\ q.pc = "ws" /\ q.browser = b /\ q.ticket = k
    BY DEF IdleRequest, Request, Cookies, NoCookies
  <2> HIDE DEF q
  <2> QED
    BY <2>1, <2>2, SentForm DEF Quiet, Send, q
<1> QED
  BY <1>2, <1>3, <1>4, <1>5, <1>6

\* An answer that leaves the rest alone.
LEMMA PlainQuiet ==
    ASSUME Typed, NEW r \in Requests, req[r].pc # "idle",
           NEW c \in Plain, Answer(r, c),
           UNCHANGED <<config, rows, jar, provider, tickets>>
    PROVE  Quiet(r)
<1>1. c \in Cookies
  BY PlainForm
<1> QED
  BY <1>1, AnswerForm DEF Quiet, Typed, Owned

LEMMA LogoutForm ==
    ASSUME Typed, NEW r \in Requests, req[r].pc # "idle",
           \/ req' = [req EXCEPT ![r] = LoggedOut(r)]
           \/ req' = [req EXCEPT ![r] = [Answered(r) EXCEPT
                  !.answer = "tryAgain", !.token = req[r].token, !.set = Cleared]]
    PROVE  /\ req' \in [Requests -> Request] /\ Alone(r)
           /\ req'[r].pc = "answer" /\ req'[r].set = Cleared
           /\ req'[r].browser \in Browsers
<1>1. req[r] \in Request /\ req \in [Requests -> Request] /\ req[r].browser \in Browsers
  BY DEF Typed, TypeOK, Owned
<1> DEFINE Out == [pc: {"answer"}, browser: {req[r].browser},
                   token: {None, req[r].token}, cookieState: {None},
                   state: {None}, ticket: {None}, known: {FALSE},
                   answer: {"loggedOut", "tryAgain"}, set: {Cleared}]
           failed == [Answered(r) EXCEPT
                         !.answer = "tryAgain", !.token = req[r].token,
                         !.set = Cleared]
<1>4. Answered(r) \in [pc: {"answer"}, browser: {req[r].browser}, token: {None},
                       cookieState: {None}, state: {None}, ticket: {None},
                       known: {FALSE}, answer: {"ok"}, set: {NoCookies}]
  BY DEF Answered, IdleRequest
<1>5. LoggedOut(r) \in Out
  BY <1>4 DEF LoggedOut
<1>6. failed \in Out
  BY <1>4
<1>7. req' = [req EXCEPT ![r] = LoggedOut(r)] \/ req' = [req EXCEPT ![r] = failed]
  OBVIOUS
<1> HIDE DEF Out, failed
<1>2. PICK q \in Out : req' = [req EXCEPT ![r] = q]
  BY <1>5, <1>6, <1>7
<1> USE DEF Out
<1>3. /\ q \in Request /\ q.pc = "answer" /\ q.set = Cleared
      /\ q.browser = req[r].browser
  BY <1>1, <1>2, ClearedForm DEF Request
<1> QED
  BY <1>1, <1>2, <1>3 DEF Alone

\* The handlers that do no more than move their request.
QuietStep(r) ==
    \/ Login(r) \/ LoginRefused(r)
    \/ CallbackNotEnabled(r) \/ CallbackRefused(r) \/ Callback(r)
    \/ CreateFails(r) \/ LogoutWithoutToken(r) \/ LogoutFails(r)
    \/ TicketAuth(r) \/ TicketRefused(r) \/ IssueFails(r) \/ WsOpen(r)

LEMMA HandledQuiet ==
    ASSUME Typed, NEW r \in Requests, QuietStep(r)
    PROVE  Quiet(r) /\ UNCHANGED unsettled
<1>0. req[r] \in Request /\ (req[r].pc # "idle" => req[r].browser \in Browsers)
  BY DEF Typed, TypeOK, Owned
<1>1. NoCookies \in Plain /\ [NoCookies EXCEPT !.state = None] \in Plain
      /\ Cleared \in Plain
  BY DEF Plain
<1>2. CASE Login(r)
  BY <1>0, <1>2, MoveForm DEF Login, Quiet
<1>3. CASE Callback(r)
  BY <1>0, <1>3, MoveForm DEF Callback, Quiet, StateMatches
<1>4. CASE TicketAuth(r)
  <2>1. SessionToken(r) \in Tokens \cup {Dummy} /\ SessionToken(r) # None
    BY <1>4, Sentinels DEF TicketAuth, SessionToken, Valid
  <2> QED
    BY <1>0, <1>4, <2>1, ProceedForm DEF TicketAuth, Quiet
<1>5. CASE LoginRefused(r) \/ CallbackNotEnabled(r) \/ TicketRefused(r)
           \/ IssueFails(r) \/ WsOpen(r)
  BY <1>1, <1>5, PlainQuiet
  DEF LoginRefused, CallbackNotEnabled, TicketRefused, IssueFails, WsOpen
<1>6. CASE CallbackRefused(r)
  BY <1>1, <1>6, PlainQuiet DEF CallbackRefused
<1>7. CASE CreateFails(r)
  <2>1. [NoCookies EXCEPT !.state = StateCookie(r)] \in Plain
    BY <1>1 DEF StateCookie, NoCookies, Plain
  <2> QED
    BY <1>7, <2>1, PlainQuiet DEF CreateFails
<1>8. CASE LogoutWithoutToken(r)
  BY <1>1, <1>8, LogoutForm DEF LogoutWithoutToken, Quiet
<1>9. CASE LogoutFails(r)
  BY <1>1, <1>9, LogoutForm DEF LogoutFails, Quiet
<1> QED
  BY <1>2, <1>3, <1>4, <1>5, <1>6, <1>7, <1>8, <1>9 DEF QuietStep

-----------------------------------------------------------------------------
(* The steps that change more than their request.                          *)

LEMMA ExchangeForm ==
    ASSUME Typed, NEW r \in Requests, Exchange(r)
    PROVE  /\ req' \in [Requests -> Request] /\ Alone(r)
           /\ req'[r].pc = "create" /\ req'[r].browser = req[r].browser
           /\ req'[r].state = req[r].state
<1>1. req[r] \in Request /\ req \in [Requests -> Request]
  BY DEF Typed, TypeOK
<1>2. PICK known \in BOOLEAN :
          req' = [req EXCEPT ![r] = [req[r] EXCEPT !.pc = "create", !.known = known]]
  BY DEF Exchange
<1> DEFINE q == [req[r] EXCEPT !.pc = "create", !.known = known]
<1>3. /\ q \in Request /\ q.pc = "create"
      /\ q.browser = req[r].browser /\ q.state = req[r].state
  BY <1>1 DEF Request
<1> HIDE DEF q
<1>4. req' = [req EXCEPT ![r] = q]
  BY <1>2 DEF q
<1> QED
  BY <1>1, <1>3, <1>4 DEF Alone

LEMMA SsoLoginForm ==
    ASSUME Typed, NEW r \in Requests, SsoLogin(r)
    PROVE  \E s \in States :
               /\ begunIn[s] = None
               /\ begunIn' = [begunIn EXCEPT ![s] = req[r].browser]
               /\ req' \in [Requests -> Request] /\ Alone(r)
               /\ req'[r].pc = "answer" /\ req'[r].browser = req[r].browser
               /\ req'[r].set.state = s
               /\ req'[r].set.token = Keep /\ req'[r].set.profile = Keep
<1>1. PICK s \in States :
          /\ begunIn[s] = None
          /\ begunIn' = [begunIn EXCEPT ![s] = req[r].browser]
          /\ Answer(r, [NoCookies EXCEPT !.state = s])
  BY DEF SsoLogin
<1> DEFINE c == [NoCookies EXCEPT !.state = s]
<1>2. c \in Cookies /\ c.state = s /\ c.token = Keep /\ c.profile = Keep
  BY DEF NoCookies, Cookies
<1> HIDE DEF c
<1>3. Answer(r, c)
  BY <1>1 DEF c
<1> QED
  BY <1>1, <1>2, <1>3, AnswerForm

LEMMA CreateForm ==
    ASSUME Typed, NEW r \in Requests, Create(r)
    PROVE  \E t \in Tokens :
               /\ session[t] = "unborn"
               /\ session' = [session EXCEPT ![t] = "live"]
               /\ origin' = [origin EXCEPT ![t] = req[r].state]
               /\ req' \in [Requests -> Request] /\ Alone(r)
               /\ req'[r].pc = "answer" /\ req'[r].browser = req[r].browser
               /\ req'[r].set.state \notin States /\ req'[r].set.token = t
               /\ req'[r].set.profile \in {t, Blank}
               /\ req'[r].set.profile = Blank => req[r].state # None
<1>1. PICK t \in Tokens :
          /\ session[t] = "unborn"
          /\ session' = [session EXCEPT ![t] = "live"]
          /\ origin' = [origin EXCEPT ![t] = req[r].state]
          /\ Answer(r, [token |-> t, state |-> StateCookie(r),
                        profile |-> Profile(r, t)])
  BY DEF Create
<1> DEFINE c == [token |-> t, state |-> StateCookie(r), profile |-> Profile(r, t)]
<1>2. /\ c \in Cookies /\ c.token = t /\ c.state \notin States
      /\ c.profile \in {t, Blank}
      /\ c.profile = Blank => req[r].state # None
  BY Sentinels DEF StateCookie, Profile, Cookies
<1> HIDE DEF c
<1>3. Answer(r, c)
  BY <1>1 DEF c
<1> QED
  BY <1>1, <1>2, <1>3, AnswerForm

LEMMA IssueForm ==
    ASSUME Typed, NEW r \in Requests, Issue(r)
    PROVE  \E k \in Tickets :
               /\ issuedTo[k] = None
               /\ issuedTo' = [issuedTo EXCEPT ![k] = req[r].token]
               /\ ticket' = [ticket EXCEPT ![k] = req[r].token]
               /\ req' \in [Requests -> Request] /\ Alone(r)
               /\ req'[r].pc = "answer" /\ req'[r].browser = req[r].browser
               /\ req'[r].set = NoCookies
<1>1. req[r] \in Request /\ req \in [Requests -> Request]
  BY DEF Typed, TypeOK
<1>2. PICK k \in Tickets :
          /\ issuedTo[k] = None
          /\ issuedTo' = [issuedTo EXCEPT ![k] = req[r].token]
          /\ ticket' = [ticket EXCEPT ![k] = req[r].token]
          /\ req' = [req EXCEPT ![r] = [Answered(r) EXCEPT !.ticket = k]]
  BY DEF Issue
<1> DEFINE q == [Answered(r) EXCEPT !.ticket = k]
<1>3. /\ q \in Request /\ q.pc = "answer" /\ q.browser = req[r].browser
      /\ q.set = NoCookies
  BY <1>1, ZenonT(60) DEF Answered, IdleRequest, Request, Cookies, NoCookies
<1> HIDE DEF q
<1>4. req' = [req EXCEPT ![r] = q]
  BY <1>2 DEF q
<1> QED
  BY <1>1, <1>2, <1>3, <1>4 DEF Alone

LEMMA ConsumeForm ==
    ASSUME Typed, NEW r \in Requests, Consume(r), req[r].ticket \in Tickets
    PROVE  /\ req' \in [Requests -> Request] /\ Alone(r)
           /\ req'[r].pc = "validate" /\ req'[r].browser = req[r].browser
           /\ req'[r].token = ticket[req[r].ticket]
           /\ req'[r].ticket = req[r].ticket
<1>1. ticket[req[r].ticket] \in Tokens \cup {None, Dummy}
  BY DEF Typed, TypeOK
<1> QED
  BY <1>1, ProceedForm DEF Consume

LEMMA ArriveForm ==
    ASSUME Typed, NEW r \in Requests, Arrive(r)
    PROVE  /\ req[r].browser \in Browsers /\ req[r].set \in Cookies
           /\ req' \in [Requests -> Request] /\ Alone(r)
           /\ req'[r] = IdleRequest /\ IdleRequest.pc = "idle"
           /\ jar' \in [Browsers -> Jar]
           /\ \A b \in Browsers \ {req[r].browser} : jar'[b] = jar[b]
           /\ jar'[req[r].browser].token
                  = Stored(req[r].set.token, jar[req[r].browser].token)
           /\ jar'[req[r].browser].state
                  = Stored(req[r].set.state, jar[req[r].browser].state)
           /\ jar'[req[r].browser].profile
                  = Stored(req[r].set.profile, jar[req[r].browser].profile)
           /\ unsettled' \in [Browsers -> SUBSET Tokens]
<1> DEFINE b == req[r].browser
           set == req[r].set
           new == [token |-> Stored(set.token, jar[b].token),
                   state |-> Stored(set.state, jar[b].state),
                   profile |-> Stored(set.profile, jar[b].profile)]
<1>1. b \in Browsers /\ set \in Cookies /\ req \in [Requests -> Request]
      /\ jar[b] \in Jar /\ jar \in [Browsers -> Jar]
  BY DEF Typed, TypeOK, Owned, Arrive, Request
<1>2. new \in Jar
  BY <1>1, Sentinels DEF Cookies, Jar, Stored
<1>3. /\ new.token = Stored(set.token, jar[b].token)
      /\ new.state = Stored(set.state, jar[b].state)
      /\ new.profile = Stored(set.profile, jar[b].profile)
  OBVIOUS
<1>4. jar' = [jar EXCEPT ![b] = new] /\ req' = [req EXCEPT ![r] = IdleRequest]
  BY DEF Arrive
<1>5. unsettled' \in [Browsers -> SUBSET Tokens]
  <2> DEFINE more == IF req[r].answer = "tryAgain"
                     THEN {req[r].token} \cap Tokens ELSE {}
  <2>1. more \subseteq Tokens
    OBVIOUS
  <2>2. unsettled' = [unsettled EXCEPT ![b] = unsettled[b] \cup more]
    BY DEF Arrive
  <2> HIDE DEF more
  <2> QED
    BY <1>1, <2>1, <2>2 DEF Typed, TypeOK
<1>6. IdleRequest.pc = "idle"
  BY DEF IdleRequest
<1> HIDE DEF b, set, new
<1>7. /\ req' \in [Requests -> Request] /\ Alone(r) /\ req'[r] = IdleRequest
      /\ jar' \in [Browsers -> Jar] /\ jar'[b] = new
      /\ \A c \in Browsers \ {b} : jar'[c] = jar[c]
  BY <1>1, <1>2, <1>4, IdleTyped DEF Alone
<1> QED
  BY <1>1, <1>3, <1>5, <1>6, <1>7 DEF b, set

\* The steps are the quiet ones and these.
LEMMA Steps ==
    ASSUME Typed, Next
    PROVE  \/ \E r \in Requests : Quiet(r) /\ UNCHANGED unsettled
           \/ \E r \in Requests :
                  \/ SsoLogin(r) \/ Exchange(r) \/ ExchangeFails(r) \/ Create(r)
                  \/ Logout(r) \/ Issue(r) \/ Consume(r) \/ Validate(r)
                  \/ Arrive(r)
           \/ World
<1>1. CASE Sent
  BY <1>1, SendQuiet DEF Sent
<1>2. CASE Handled
  BY <1>2, HandledQuiet DEF Handled, QuietStep
<1> QED
  BY <1>1, <1>2 DEF Next

-----------------------------------------------------------------------------
(* Type correctness.                                                       *)

TypedRequests == req \in [Requests -> Request] /\ \A r \in Requests : Owned(r)

\* What is left to show of a step when one request has moved.
LEMMA MovedTyped ==
    ASSUME Typed, NEW r \in Requests, req' \in [Requests -> Request], Alone(r),
           req'[r].pc # "idle" => req'[r].browser \in Browsers,
           req'[r].pc \in {"ws", "validate"} => req'[r].ticket \in Tickets
    PROVE  TypedRequests'
BY DEF Typed, TypedRequests, Owned, Alone

LEMMA QuietTyped ==
    ASSUME Typed, NEW r \in Requests, Quiet(r), UNCHANGED unsettled
    PROVE  Typed'
<1>1. TypedRequests'
  BY MovedTyped DEF Quiet
<1> QED
  BY <1>1 DEF Quiet, Typed, TypeOK, TypedRequests, config, rows, provider, tickets

LEMMA LoudTyped ==
    ASSUME Typed, NEW r \in Requests,
           \/ SsoLogin(r) \/ Exchange(r) \/ ExchangeFails(r) \/ Create(r)
           \/ Logout(r) \/ Issue(r) \/ Consume(r) \/ Validate(r) \/ Arrive(r)
    PROVE  Typed'
<1> USE DEF config, rows, provider, tickets
<1>1. CASE SsoLogin(r)
  <2>1. req[r].browser \in Browsers
    BY <1>1 DEF SsoLogin, Typed, Owned
  <2>2. TypedRequests'
    BY <1>1, <2>1, SsoLoginForm, MovedTyped
  <2>3. begunIn' \in [States -> Browsers \cup {None}]
    BY <1>1, <2>1, SsoLoginForm DEF Typed, TypeOK
  <2> QED
    BY <1>1, <2>2, <2>3 DEF SsoLogin, Typed, TypeOK, TypedRequests
<1>2. CASE Exchange(r)
  <2>1. TypedRequests'
    BY <1>2, ExchangeForm, MovedTyped DEF Exchange, Typed, Owned
  <2>2. code' \in [States -> {"none", "pending", "denied", "granted", "redeemed"}]
    BY <1>2 DEF Exchange, Typed, TypeOK
  <2> QED
    BY <1>2, <2>1, <2>2 DEF Exchange, Typed, TypeOK, TypedRequests
<1>3. CASE ExchangeFails(r)
  <2>1. [NoCookies EXCEPT !.state = None] \in Cookies
    BY PlainForm DEF Plain
  <2>2. TypedRequests'
    BY <1>3, <2>1, AnswerForm, MovedTyped DEF ExchangeFails, Typed, Owned
  <2>3. code' \in [States -> {"none", "pending", "denied", "granted", "redeemed"}]
    BY <1>3 DEF ExchangeFails, Typed, TypeOK
  <2> QED
    BY <1>3, <2>2, <2>3 DEF ExchangeFails, Typed, TypeOK, TypedRequests
<1>4. CASE Create(r)
  <2>1. TypedRequests'
    BY <1>4, CreateForm, MovedTyped DEF Create, Typed, Owned
  <2>2. req[r].state \in States \cup {None}
    BY DEF Typed, TypeOK, Request
  <2>3. /\ session' \in [Tokens -> {"unborn", "live", "expired", "deleted"}]
        /\ origin' \in [Tokens -> States \cup {None}]
    BY <1>4, <2>2 DEF Create, Typed, TypeOK
  <2> QED
    BY <1>4, <2>1, <2>3 DEF Create, Typed, TypeOK, TypedRequests
<1>5. CASE Logout(r)
  <2>1. TypedRequests'
    BY <1>5, LogoutForm, MovedTyped DEF Logout
  <2>2. session' \in [Tokens -> {"unborn", "live", "expired", "deleted"}]
    BY <1>5 DEF Logout, Typed, TypeOK
  <2> QED
    BY <1>5, <2>1, <2>2 DEF Logout, Typed, TypeOK, TypedRequests
<1>6. CASE Issue(r)
  <2>1. TypedRequests'
    BY <1>6, IssueForm, MovedTyped DEF Issue, Typed, Owned
  <2>2. req[r].token \in Tokens \cup {None, Dummy}
    BY DEF Typed, TypeOK, Request
  <2>3. /\ issuedTo' \in [Tickets -> Tokens \cup {None, Dummy}]
        /\ ticket' \in [Tickets -> Tokens \cup {None, Dummy}]
    BY <1>6, <2>2 DEF Issue, Typed, TypeOK
  <2> QED
    BY <1>6, <2>1, <2>3 DEF Issue, Typed, TypeOK, TypedRequests
<1>7. CASE Consume(r)
  <2>1. req[r].ticket \in Tickets /\ req[r].browser \in Browsers
    BY <1>7 DEF Consume, Typed, Owned
  <2>2. TypedRequests'
    BY <1>7, <2>1, ConsumeForm, MovedTyped
  <2>3. ticket' \in [Tickets -> Tokens \cup {None, Dummy}]
    BY <1>7 DEF Consume, Typed, TypeOK
  <2> QED
    BY <1>7, <2>2, <2>3 DEF Consume, Typed, TypeOK, TypedRequests
<1>8. CASE Validate(r)
  <2>1. TypedRequests'
    BY <1>8, IdleTyped, AnswerForm, MovedTyped DEF Validate, Typed, Owned
  <2>2. sockets' \in [Tickets -> Nat]
    BY <1>8 DEF Validate, Typed, TypeOK, Owned
  <2> QED
    BY <1>8, <2>1, <2>2 DEF Validate, Typed, TypeOK, TypedRequests
<1>9. CASE Arrive(r)
  <2>1. TypedRequests'
    BY <1>9, ArriveForm, MovedTyped
  <2>2. code' \in [States -> {"none", "pending", "denied", "granted", "redeemed"}]
    BY <1>9 DEF Arrive, Typed, TypeOK
  <2>3. jar' \in [Browsers -> Jar] /\ unsettled' \in [Browsers -> SUBSET Tokens]
    BY <1>9, ArriveForm
  <2> QED
    BY <1>9, <2>1, <2>2, <2>3 DEF Arrive, Typed, TypeOK, TypedRequests
<1> QED
  BY <1>1, <1>2, <1>3, <1>4, <1>5, <1>6, <1>7, <1>8, <1>9

\* A browser drops cookies: its state, or token and profile together.
Drops == \E b \in Browsers : ExpireState(b) \/ ExpireCookies(b)

LEMMA DropsForm ==
    ASSUME Typed, Drops
    PROVE  /\ jar' \in [Browsers -> Jar]
           /\ \A b \in Browsers :
                 /\ jar'[b].state \in {None, jar[b].state}
                 /\ \/ /\ jar'[b].token = jar[b].token
                       /\ jar'[b].profile = jar[b].profile
                    \/ jar'[b].token = None /\ jar'[b].profile = None
           /\ UNCHANGED <<config, rows, req, provider, tickets, unsettled>>
<1>1. PICK b \in Browsers : ExpireState(b) \/ ExpireCookies(b)
  BY DEF Drops
<1>2. jar \in [Browsers -> Jar] /\ jar[b] \in Jar
  BY DEF Typed, TypeOK
<1>3. CASE ExpireState(b)
  <2>1. jar' = [jar EXCEPT ![b] = [jar[b] EXCEPT !.state = None]]
    BY <1>2, <1>3 DEF ExpireState
  <2>2. [jar[b] EXCEPT !.state = None] \in Jar
    BY <1>2 DEF Jar
  <2> QED
    BY <1>2, <1>3, <2>1, <2>2 DEF ExpireState, Jar
<1>4. CASE ExpireCookies(b)
  <2>1. jar' = [jar EXCEPT ![b] =
                   [jar[b] EXCEPT !.token = None, !.profile = None]]
    BY <1>2, <1>4 DEF ExpireCookies
  <2>2. [jar[b] EXCEPT !.token = None, !.profile = None] \in Jar
    BY <1>2 DEF Jar
  <2> QED
    BY <1>2, <1>4, <2>1, <2>2 DEF ExpireCookies, Jar
<1> QED
  BY <1>1, <1>3, <1>4

LEMMA WorldTyped ==
    ASSUME Typed, World
    PROVE  Typed'
<1> USE DEF config, rows, provider, tickets
<1>1. CASE \E s \in States : AtProvider(s)
  BY <1>1 DEF AtProvider, Typed, TypeOK, Owned
<1>2. CASE \E t \in Tokens : ExpireSession(t)
  BY <1>2 DEF ExpireSession, Typed, TypeOK, Owned
<1>3. CASE \E k \in Tickets : ExpireTicket(k)
  BY <1>3 DEF ExpireTicket, Typed, TypeOK, Owned
<1>4. CASE SetConfig \/ UpdateAuthConfig
  BY <1>4 DEF SetConfig, UpdateAuthConfig, Typed, TypeOK, Owned
<1>5. CASE Restart
  <2>1. IdleRequest.pc = "idle"
    BY DEF IdleRequest
  <2>2. req' \in [Requests -> Request] /\ \A r \in Requests : Owned(r)'
    BY <1>5, <2>1, IdleTyped DEF Restart, Owned
  <2> QED
    BY <1>5, <2>2 DEF Restart, Typed, TypeOK
<1>6. CASE Drops
  BY <1>6, DropsForm DEF Typed, TypeOK, Owned
<1> QED
  BY <1>1, <1>2, <1>3, <1>4, <1>5, <1>6 DEF World, Drops

LEMMA InitTyped == Init => Typed
<1>1. EmptyJar \in Jar /\ IdleRequest \in Request /\ IdleRequest.pc = "idle"
  BY IdleTyped DEF EmptyJar, Jar, IdleRequest
<1> QED
  BY <1>1 DEF Init, Typed, TypeOK, Owned

LEMMA NextTyped == Typed /\ [Next]_vars => Typed'
<1>1. CASE UNCHANGED vars
  BY <1>1 DEF vars, Typed, TypeOK, Owned
<1> QED
  BY <1>1, Steps, QuietTyped, LoudTyped, WorldTyped

LEMMA AlwaysTyped == Spec => []Typed
BY InitTyped, NextTyped, PTL DEF Spec

\* Requests, cookies, rows and tickets keep their types; no answer leaves a
\* cookie with a value of another cookie (session.go, middlewares.go).
THEOREM TypeCorrect == Spec => []TypeOK
<1>1. Typed => TypeOK
  BY DEF Typed
<1> QED
  BY <1>1, AlwaysTyped, PTL

-----------------------------------------------------------------------------
(* Where a state is met: only in the browser whose sso/login drew it.      *)

Begun(r) ==
    /\ req[r].pc = "login" => req[r].state = None
    /\ req[r].pc = "callback" /\ req[r].cookieState \in States =>
          begunIn[req[r].cookieState] = req[r].browser
    /\ req[r].pc \in {"callback", "exchange"} =>
          req[r].state \in States /\ code[req[r].state] # "none"
    /\ req[r].pc \in {"exchange", "create"} /\ req[r].state # None =>
          begunIn[req[r].state] = req[r].browser
    /\ req[r].pc = "answer" /\ req[r].set.state \in States =>
          /\ begunIn[req[r].set.state] = req[r].browser
          /\ code[req[r].set.state] = "none"

\* A state that an answer is carrying to its browser is carried by no other.
Carried(q, r) ==
    /\ req[q].pc = "answer" /\ req[r].pc = "answer"
    /\ req[q].set.state \in States /\ req[q].set.state = req[r].set.state

BegunInv ==
    /\ \A s \in States : code[s] # "none" => begunIn[s] # None
    /\ \A b \in Browsers :
          jar[b].state \in States => begunIn[jar[b].state] = b
    /\ \A r \in Requests : Begun(r)
    /\ \A q, r \in Requests : Carried(q, r) => q = r

LEMMA QuietBegun ==
    ASSUME Typed, BegunInv, NEW r \in Requests, Quiet(r)
    PROVE  BegunInv'
<1>1. UNCHANGED <<jar, code, begunIn>>
  BY DEF Quiet, provider
<1>2. Alone(r)
  BY DEF Quiet
<1>3. Begun(r)'
  <2>1. req'[r].pc = "answer" => req'[r].set.state \notin States
    BY PlainForm DEF Quiet
  <2>2. req'[r].pc \in {"login", "callback", "exchange", "create"} =>
           \/ req'[r].pc = "login" /\ req'[r].state = None
           \/ /\ req'[r].pc = "callback" /\ req'[r].state \in States
              /\ req'[r].browser \in Browsers /\ code[req'[r].state] # "none"
              /\ req'[r].cookieState = jar[req'[r].browser].state
           \/ req'[r].pc = "create" /\ req[r].pc = "login" /\ req'[r].state = req[r].state
           \/ /\ req'[r].pc = "exchange" /\ req[r].pc = "callback"
              /\ req'[r].state = req[r].state /\ req[r].cookieState = req[r].state
              /\ req'[r].browser = req[r].browser
    BY DEF Quiet
  <2> QED
    BY <1>1, <2>1, <2>2, Sentinels DEF BegunInv, Begun
<1>4. \A q \in Requests \ {r} : Begun(q)'
  BY <1>1, <1>2 DEF BegunInv, Begun, Alone
<1>5. ASSUME NEW p \in Requests, NEW q \in Requests, Carried(p, q)' PROVE p = q
  BY <1>2, <1>5, PlainForm DEF Quiet, BegunInv, Carried, Alone
<1> QED
  BY <1>1, <1>3, <1>4, <1>5 DEF BegunInv

LEMMA LoudBegun ==
    ASSUME Typed, BegunInv, NEW r \in Requests,
           \/ SsoLogin(r) \/ Exchange(r) \/ ExchangeFails(r) \/ Create(r)
           \/ Logout(r) \/ Issue(r) \/ Consume(r) \/ Validate(r) \/ Arrive(r)
    PROVE  BegunInv'
<1> USE DEF provider
<1>0. /\ begunIn \in [States -> Browsers \cup {None}]
      /\ code \in [States -> {"none", "pending", "denied", "granted", "redeemed"}]
      /\ \A q \in Requests : req[q].pc # "idle" => req[q].browser \in Browsers
  BY DEF Typed, TypeOK, Owned
<1>1. CASE SsoLogin(r)
  <2>1. PICK s \in States :
            /\ begunIn[s] = None
            /\ begunIn' = [begunIn EXCEPT ![s] = req[r].browser]
            /\ Alone(r)
            /\ req'[r].pc = "answer" /\ req'[r].browser = req[r].browser
            /\ req'[r].set.state = s
    BY <1>1, SsoLoginForm
  <2>2. UNCHANGED <<jar, code>> /\ req[r].browser \in Browsers
    BY <1>0, <1>1 DEF SsoLogin
  <2>3. code[s] = "none"
    BY <2>1 DEF BegunInv
  <2>4. \A x \in States : begunIn[x] # None => begunIn'[x] = begunIn[x]
    BY <1>0, <2>1
  <2>5. begunIn'[s] = req[r].browser
    BY <1>0, <2>1
  <2>6. Begun(r)'
    BY <2>1, <2>2, <2>3, <2>5 DEF Begun
  <2>7. ASSUME NEW q \in Requests \ {r} PROVE Begun(q)'
    BY <1>0, <2>1, <2>2, <2>4, Sentinels DEF BegunInv, Begun, Alone
  <2>8. \A x \in States : code'[x] # "none" => begunIn'[x] # None
    BY <2>2, <2>4 DEF BegunInv
  <2>9. \A b \in Browsers : jar'[b].state \in States => begunIn'[jar'[b].state] = b
    BY <2>2, <2>4, Sentinels DEF BegunInv
  <2>10. ASSUME NEW q \in Requests \ {r},
                req[q].pc = "answer", req[q].set.state = s
         PROVE  FALSE
    BY <1>0, <2>1, <2>10, Sentinels DEF BegunInv, Begun
  <2>11. ASSUME NEW p \in Requests, NEW q \in Requests, Carried(p, q)' PROVE p = q
    BY <2>1, <2>10, <2>11 DEF BegunInv, Carried, Alone
  <2> QED
    BY <2>6, <2>7, <2>8, <2>9, <2>11 DEF BegunInv
<1>2. CASE Exchange(r)
  <2>1. /\ UNCHANGED <<jar, begunIn>> /\ Alone(r)
        /\ req[r].pc = "exchange" /\ req'[r].pc = "create"
        /\ req'[r].browser = req[r].browser /\ req'[r].state = req[r].state
        /\ code[req[r].state] = "granted"
        /\ code' = [code EXCEPT ![req[r].state] = "redeemed"]
    BY <1>2, ExchangeForm DEF Exchange
  <2>2. \A x \in States : code[x] = "none" <=> code'[x] = "none"
    BY <1>0, <2>1
  <2>3. Begun(r)'
    BY <2>1 DEF BegunInv, Begun
  <2>4. ASSUME NEW q \in Requests \ {r} PROVE Begun(q)'
    BY <2>1, <2>2 DEF BegunInv, Begun, Alone
  <2>5. ASSUME NEW p \in Requests, NEW q \in Requests, Carried(p, q)' PROVE p = q
    BY <2>1, <2>5 DEF BegunInv, Carried, Alone
  <2> QED
    BY <2>1, <2>2, <2>3, <2>4, <2>5 DEF BegunInv
<1>3. CASE ExchangeFails(r)
  <2>1. [NoCookies EXCEPT !.state = None] \in Cookies
        /\ [NoCookies EXCEPT !.state = None].state \notin States
    BY PlainForm DEF Plain
  <2>2. /\ UNCHANGED <<jar, begunIn>> /\ Alone(r)
        /\ req[r].pc = "exchange" /\ req'[r].pc = "answer"
        /\ req'[r].set.state \notin States
        /\ code' \in {code, [code EXCEPT ![req[r].state] = "redeemed"]}
    BY <1>3, <2>1, AnswerForm DEF ExchangeFails
  <2>3. \A x \in States : code[x] = "none" <=> code'[x] = "none"
    BY <1>0, <2>2 DEF BegunInv, Begun
  <2>4. Begun(r)'
    BY <2>2 DEF Begun
  <2>5. ASSUME NEW q \in Requests \ {r} PROVE Begun(q)'
    BY <2>2, <2>3, <2>5 DEF BegunInv, Begun, Alone
  <2>6. ASSUME NEW p \in Requests, NEW q \in Requests, Carried(p, q)' PROVE p = q
    BY <2>2, <2>6 DEF BegunInv, Carried, Alone
  <2> QED
    BY <2>2, <2>3, <2>4, <2>5, <2>6 DEF BegunInv
<1>4. CASE Arrive(r)
  <2> DEFINE b == req[r].browser
             set == req[r].set
  <2>1. /\ b \in Browsers /\ set \in Cookies /\ req[r].pc = "answer"
        /\ Alone(r) /\ req'[r].pc = "idle" /\ UNCHANGED begunIn
        /\ \A c \in Browsers \ {b} : jar'[c] = jar[c]
        /\ jar'[b].state = Stored(set.state, jar[b].state)
        /\ code' = [s \in States |-> IF set.state = s THEN "pending" ELSE code[s]]
    BY <1>4, ArriveForm DEF Arrive
  <2>2. set.state \in States => begunIn[set.state] = b
    BY <2>1 DEF BegunInv, Begun
  <2>3. \A s \in States : code'[s] # "none" => begunIn'[s] # None
    BY <2>1, <2>2, Sentinels DEF BegunInv
  <2>4. jar'[b].state \in States => begunIn'[jar'[b].state] = b
    BY <2>1, <2>2, Sentinels DEF BegunInv, Stored
  <2>5. \A c \in Browsers : jar'[c].state \in States => begunIn'[jar'[c].state] = c
    BY <2>1, <2>4 DEF BegunInv
  <2>6. \A s \in States \ {set.state} : code'[s] = code[s]
    BY <2>1
  <2>7. set.state \in States => code'[set.state] = "pending"
    BY <2>1
  <2>8. Begun(r)'
    BY <2>1 DEF Begun
  <2>9. ASSUME NEW q \in Requests \ {r} PROVE Begun(q)'
    <3>1. req'[q] = req[q] /\ Begun(q)
      BY <2>1 DEF Alone, BegunInv
    <3>2. req[q].pc = "answer" /\ req[q].set.state \in States =>
              req[q].set.state # set.state
      BY <2>1 DEF BegunInv, Carried
    <3>3. \A s \in States : code[s] # "none" => code'[s] # "none"
      BY <2>6, <2>7
    <3> QED
      BY <2>1, <2>6, <3>1, <3>2, <3>3 DEF Begun
  <2>10. ASSUME NEW p \in Requests, NEW q \in Requests, Carried(p, q)' PROVE p = q
    BY <2>1, <2>10 DEF BegunInv, Carried, Alone
  <2> QED
    BY <2>3, <2>5, <2>8, <2>9, <2>10 DEF BegunInv
<1>5. ASSUME UNCHANGED <<jar, code, begunIn>>, Alone(r),
             req'[r].pc \in {"answer", "validate"},
             req'[r].pc = "answer" => req'[r].set.state \notin States
      PROVE  BegunInv'
  <2>1. Begun(r)'
    BY <1>5 DEF Begun
  <2>2. ASSUME NEW q \in Requests \ {r} PROVE Begun(q)'
    BY <1>5 DEF BegunInv, Begun, Alone
  <2>3. ASSUME NEW p \in Requests, NEW q \in Requests, Carried(p, q)' PROVE p = q
    BY <1>5, <2>3 DEF BegunInv, Carried, Alone
  <2> QED
    BY <1>5, <2>1, <2>2, <2>3 DEF BegunInv
<1>6. NoCookies \in Cookies /\ NoCookies.state \notin States
  BY IdleTyped, Sentinels DEF NoCookies
<1>7. CASE Create(r)
  BY <1>5, <1>7, CreateForm DEF Create
<1>8. CASE Logout(r)
  BY <1>5, <1>8, LogoutForm, ClearedForm, Sentinels DEF Logout
<1>9. CASE Issue(r)
  BY <1>5, <1>6, <1>9, IssueForm DEF Issue
<1>10. CASE Consume(r)
  <2>1. req[r].ticket \in Tickets
    BY <1>10 DEF Consume, Typed, Owned
  <2> QED
    BY <1>5, <1>10, <2>1, ConsumeForm DEF Consume
<1>11. CASE Validate(r)
  BY <1>5, <1>6, <1>11, AnswerForm DEF Validate
<1> QED
  BY <1>1, <1>2, <1>3, <1>4, <1>7, <1>8, <1>9, <1>10, <1>11

LEMMA WorldBegun ==
    ASSUME Typed, BegunInv, World
    PROVE  BegunInv'
<1> USE DEF provider
<1>1. CASE \E s \in States : AtProvider(s)
  <2>1. PICK s \in States : AtProvider(s)
    BY <1>1
  <2>2. /\ UNCHANGED <<jar, begunIn, req>>
        /\ \A x \in States : code[x] = "none" <=> code'[x] = "none"
    BY <2>1 DEF AtProvider, Typed, TypeOK
  <2>3. \A q \in Requests : Begun(q)'
    BY <2>2 DEF BegunInv, Begun
  <2> QED
    BY <2>2, <2>3 DEF BegunInv, Carried
<1>2. CASE Restart
  <2>1. \A r \in Requests : req'[r].pc = "idle"
    BY <1>2 DEF Restart, IdleRequest
  <2> QED
    BY <1>2, <2>1 DEF Restart, BegunInv, Begun, Carried
<1>3. CASE UNCHANGED <<jar, begunIn, req, code>>
  BY <1>3 DEF BegunInv, Begun, Carried
<1>4. CASE Drops
  <2>1. /\ UNCHANGED <<begunIn, req, code>>
        /\ \A b \in Browsers : jar'[b].state \in {None, jar[b].state}
    BY <1>4, DropsForm
  <2> QED
    BY <2>1, Sentinels DEF BegunInv, Begun, Carried
<1> QED
  BY <1>1, <1>2, <1>3, <1>4
  DEF Drops, World, ExpireSession, ExpireTicket, SetConfig, UpdateAuthConfig

LEMMA AlwaysBegun == Spec => []BegunInv
<1>1. ASSUME Init PROVE BegunInv
  <2>1. /\ \A r \in Requests : req[r].pc = "idle"
        /\ \A b \in Browsers : jar[b].state \notin States
        /\ \A s \in States : code[s] = "none"
    BY <1>1, Sentinels DEF Init, IdleRequest, EmptyJar
  <2> QED
    BY <2>1 DEF BegunInv, Begun, Carried
<1>2. Typed /\ BegunInv /\ [Next]_vars => BegunInv'
  <2>1. CASE UNCHANGED vars
    BY <2>1 DEF vars, BegunInv, Begun, Carried
  <2> QED
    BY <2>1, Steps, QuietBegun, LoudBegun, WorldBegun
<1> QED
  BY <1>1, <1>2, AlwaysTyped, PTL DEF Spec

-----------------------------------------------------------------------------
(* One code, one session.                                                  *)

\* The request has redeemed a code and its session is not created yet.
Paying(r) == req[r].pc = "create" /\ req[r].state # None

RedeemInv ==
    /\ SsoSessionRedeemed
    /\ \A r \in Requests : Paying(r) =>
          /\ req[r].state \in States /\ code[req[r].state] = "redeemed"
          /\ \A t \in Tokens : origin[t] # req[r].state
    /\ \A q, r \in Requests :
          Paying(q) /\ Paying(r) /\ req[q].state = req[r].state => q = r

\* It is enough that redeemed codes stay so, that no row is added and that
\* no request starts paying.
LEMMA IdleRedeem ==
    ASSUME RedeemInv, UNCHANGED origin, NEW r \in Requests, Alone(r),
           req'[r].pc = "create" => req'[r].state = None,
           \A s \in States : code[s] = "redeemed" => code'[s] = "redeemed",
           origin \in [Tokens -> States \cup {None}]
    PROVE  RedeemInv'
BY DEF RedeemInv, SsoSessionRedeemed, Paying, Alone

LEMMA LoudRedeem ==
    ASSUME Typed, BegunInv, RedeemInv, NEW r \in Requests,
           \/ SsoLogin(r) \/ Exchange(r) \/ ExchangeFails(r) \/ Create(r)
           \/ Logout(r) \/ Issue(r) \/ Consume(r) \/ Validate(r) \/ Arrive(r)
    PROVE  RedeemInv'
<1> USE DEF provider, rows
<1>0. /\ origin \in [Tokens -> States \cup {None}]
      /\ code \in [States -> {"none", "pending", "denied", "granted", "redeemed"}]
      /\ req[r].state \in States \cup {None}
  BY DEF Typed, TypeOK, Request
<1>1. CASE SsoLogin(r)
  BY <1>0, <1>1, SsoLoginForm, IdleRedeem DEF SsoLogin
<1>2. CASE Exchange(r)
  <2>1. /\ UNCHANGED origin /\ Alone(r)
        /\ req[r].pc = "exchange" /\ req'[r].pc = "create"
        /\ req'[r].state = req[r].state /\ req[r].state \in States
        /\ code[req[r].state] = "granted"
        /\ code' = [code EXCEPT ![req[r].state] = "redeemed"]
    BY <1>2, ExchangeForm DEF Exchange, BegunInv, Begun
  <2>2. /\ code'[req[r].state] = "redeemed"
        /\ \A s \in States : code[s] = "redeemed" => code'[s] = "redeemed"
    BY <1>0, <2>1
  <2>3. \A t \in Tokens : origin[t] # req[r].state
    BY <1>0, <2>1, Sentinels DEF RedeemInv, SsoSessionRedeemed
  <2>4. \A q \in Requests : Paying(q) => req[q].state # req[r].state
    BY <2>1 DEF RedeemInv
  <2>5. SsoSessionRedeemed'
    BY <1>0, <2>1, <2>2 DEF RedeemInv, SsoSessionRedeemed
  <2>6. ASSUME NEW q \in Requests, Paying(q)'
        PROVE  /\ req'[q].state \in States /\ code'[req'[q].state] = "redeemed"
               /\ \A t \in Tokens : origin'[t] # req'[q].state
    BY <2>1, <2>2, <2>3, <2>6 DEF RedeemInv, Paying, Alone
  <2>7. ASSUME NEW p \in Requests, NEW q \in Requests, Paying(p)', Paying(q)',
               req'[p].state = req'[q].state
        PROVE  p = q
    BY <2>1, <2>4, <2>7 DEF RedeemInv, Paying, Alone
  <2> QED
    BY <2>5, <2>6, <2>7 DEF RedeemInv
<1>3. CASE ExchangeFails(r)
  <2>1. [NoCookies EXCEPT !.state = None] \in Cookies
    BY PlainForm DEF Plain
  <2>2. Alone(r) /\ req'[r].pc = "answer" /\ UNCHANGED origin
    BY <1>3, <2>1, AnswerForm DEF ExchangeFails
  <2>3. \A s \in States : code[s] = "redeemed" => code'[s] = "redeemed"
    BY <1>0, <1>3 DEF ExchangeFails
  <2> QED
    BY <1>0, <2>2, <2>3, IdleRedeem
<1>4. CASE Create(r)
  <2>1. PICK t \in Tokens :
            /\ origin' = [origin EXCEPT ![t] = req[r].state]
            /\ Alone(r) /\ req'[r].pc = "answer"
    BY <1>4, CreateForm
  <2>2. UNCHANGED code /\ req[r].pc = "create"
    BY <1>4 DEF Create
  <2>3. origin'[t] = req[r].state /\ \A u \in Tokens \ {t} : origin'[u] = origin[u]
    BY <1>0, <2>1
  <2>4. origin'[t] # None => /\ code[origin'[t]] = "redeemed"
                             /\ \A u \in Tokens : origin[u] # origin'[t]
    BY <2>2, <2>3 DEF RedeemInv, Paying
  <2>5. SsoSessionRedeemed'
    BY <2>2, <2>3, <2>4 DEF RedeemInv, SsoSessionRedeemed
  <2>6. ASSUME NEW q \in Requests, Paying(q)'
        PROVE  /\ req'[q].state \in States /\ code'[req'[q].state] = "redeemed"
               /\ \A u \in Tokens : origin'[u] # req'[q].state
    <3>1. q # r /\ Paying(q) /\ req'[q] = req[q]
      BY <2>1, <2>6 DEF Paying, Alone
    <3>2. origin'[t] # req[q].state
      BY <2>2, <2>3, <3>1 DEF RedeemInv, Paying
    <3> QED
      BY <2>2, <2>3, <3>1, <3>2 DEF RedeemInv
  <2>7. ASSUME NEW p \in Requests, NEW q \in Requests, Paying(p)', Paying(q)',
               req'[p].state = req'[q].state
        PROVE  p = q
    BY <2>1, <2>7 DEF RedeemInv, Paying, Alone
  <2> QED
    BY <2>5, <2>6, <2>7 DEF RedeemInv
<1>5. CASE Logout(r)
  BY <1>0, <1>5, LogoutForm, IdleRedeem DEF Logout
<1>6. CASE Issue(r)
  BY <1>0, <1>6, IssueForm, IdleRedeem DEF Issue
<1>7. CASE Consume(r)
  <2>1. req[r].ticket \in Tickets
    BY <1>7 DEF Consume, Typed, Owned
  <2> QED
    BY <1>0, <1>7, <2>1, ConsumeForm, IdleRedeem DEF Consume
<1>8. CASE Validate(r)
  BY <1>0, <1>8, IdleTyped, AnswerForm, IdleRedeem DEF Validate
<1>9. CASE Arrive(r)
  <2>1. req[r].set.state \in States => code[req[r].set.state] = "none"
    BY <1>9 DEF Arrive, BegunInv, Begun
  <2>2. \A s \in States : code[s] = "redeemed" => code'[s] = "redeemed"
    BY <1>9, <2>1 DEF Arrive
  <2> QED
    BY <1>0, <1>9, <2>2, ArriveForm, IdleRedeem DEF Arrive
<1> QED
  BY <1>1, <1>2, <1>3, <1>4, <1>5, <1>6, <1>7, <1>8, <1>9

LEMMA NextRedeem ==
    ASSUME Typed, BegunInv, RedeemInv, [Next]_vars
    PROVE  RedeemInv'
<1> USE DEF provider, rows
<1>0. origin \in [Tokens -> States \cup {None}]
  BY DEF Typed, TypeOK
<1>1. ASSUME NEW r \in Requests, Quiet(r) PROVE RedeemInv'
  <2>1. req'[r].pc = "create" => req'[r].state = None
    BY <1>1 DEF Quiet, BegunInv, Begun
  <2> QED
    BY <1>0, <1>1, <2>1, IdleRedeem DEF Quiet
<1>2. CASE \E s \in States : AtProvider(s)
  <2>1. UNCHANGED <<origin, req>>
        /\ \A s \in States : code[s] = "redeemed" => code'[s] = "redeemed"
    BY <1>2 DEF AtProvider, Typed, TypeOK
  <2> QED
    BY <1>0, <2>1 DEF RedeemInv, SsoSessionRedeemed, Paying
<1>3. CASE Restart
  <2>1. \A r \in Requests : req'[r].pc = "idle"
    BY <1>3 DEF Restart, IdleRequest
  <2> QED
    BY <1>3, <2>1 DEF Restart, RedeemInv, SsoSessionRedeemed, Paying
<1>4. CASE UNCHANGED <<origin, req, code>>
  BY <1>4 DEF RedeemInv, SsoSessionRedeemed, Paying
<1>5. CASE World
  <2>1. Drops => UNCHANGED <<origin, req, code>>
    BY DropsForm
  <2> QED
    BY <1>2, <1>3, <1>4, <1>5, <2>1
    DEF Drops, World, ExpireSession, ExpireTicket, SetConfig, UpdateAuthConfig
<1> QED
  BY <1>1, <1>4, <1>5, Steps, LoudRedeem DEF vars

LEMMA AlwaysRedeem == Spec => []RedeemInv
<1>1. ASSUME Init PROVE RedeemInv
  <2>1. /\ \A r \in Requests : req[r].pc = "idle"
        /\ \A t \in Tokens : origin[t] = None
    BY <1>1 DEF Init, IdleRequest
  <2> QED
    BY <2>1 DEF RedeemInv, SsoSessionRedeemed, Paying
<1> QED
  BY <1>1, NextRedeem, AlwaysTyped, AlwaysBegun, PTL DEF Spec

\* A session created by a callback was paid for with a code the provider took,
\* and no code pays for two sessions (session.go, ssoCallback).
THEOREM SsoSessionRedeemedHolds == Spec => []SsoSessionRedeemed
<1>1. RedeemInv => SsoSessionRedeemed
  BY DEF RedeemInv
<1> QED
  BY <1>1, AlwaysRedeem, PTL

-----------------------------------------------------------------------------
(* The cookies of a browser and of the answers on their way to it.         *)

\* Token and profile are set, emptied and left alone together, and the token
\* is that of a login of browser b.
Coherent(c, b) ==
    /\ c.profile \in Tokens => c.profile = c.token
    /\ c.profile = Blank => c.token \in Tokens /\ origin[c.token] # None
    /\ c.profile = None <=> c.token = None
    /\ c.profile = Keep <=> c.token = Keep
    /\ c.token \in Tokens =>
          /\ session[c.token] # "unborn"
          /\ origin[c.token] # None => begunIn[origin[c.token]] = b

CookieInv ==
    /\ \A b \in Browsers : Coherent(jar[b], b)
    /\ \A r \in Requests :
          req[r].pc = "answer" => Coherent(req[r].set, req[r].browser)

\* What is known of a row and of a state stays known.
Lasting ==
    /\ \A t \in Tokens : session[t] # "unborn" =>
          session'[t] # "unborn" /\ origin'[t] = origin[t]
    /\ \A s \in States : begunIn[s] # None => begunIn'[s] = begunIn[s]

LEMMA CoherentLasts ==
    ASSUME Typed, Lasting
    PROVE  \A c \in Jar \cup Cookies : \A b \in Browsers :
               Coherent(c, b) => Coherent(c, b)'
<1>1. origin \in [Tokens -> States \cup {None}]
  BY DEF Typed, TypeOK
<1> QED
  BY <1>1, Sentinels DEF Lasting, Coherent

LEMMA PlainCoherent ==
    \A c \in Plain : \A b \in Browsers : Coherent(c, b)
BY PlainForm, Sentinels DEF Coherent

\* The other requests' answers and the cookies stay coherent; what is left is
\* the answer of the request that moved.
LEMMA CookiesLast ==
    ASSUME Typed, CookieInv, Lasting, NEW r \in Requests, Alone(r),
           UNCHANGED jar,
           req'[r].pc = "answer" => Coherent(req[r].set, req[r].browser)'
    PROVE  CookieInv'
<1>1. ASSUME NEW b \in Browsers PROVE Coherent(jar[b], b)'
  <2>1. jar[b] \in Jar /\ jar'[b] = jar[b] /\ Coherent(jar[b], b)
    BY DEF Typed, TypeOK, CookieInv
  <2> QED
    BY <2>1, CoherentLasts DEF Coherent
<1>2. ASSUME NEW q \in Requests \ {r}, req'[q].pc = "answer"
      PROVE  Coherent(req[q].set, req[q].browser)'
  <2>1. req'[q] = req[q] /\ Coherent(req[q].set, req[q].browser)
    BY <1>2 DEF CookieInv, Alone
  <2>2. req[q].set \in Cookies /\ req[q].browser \in Browsers
    BY <1>2, <2>1 DEF Typed, TypeOK, Request, Owned
  <2> QED
    BY <2>1, <2>2, CoherentLasts DEF Coherent
<1> QED
  BY <1>1, <1>2 DEF CookieInv

LEMMA PlainCookies ==
    ASSUME Typed, CookieInv, Lasting, NEW r \in Requests, Alone(r),
           UNCHANGED jar, req'[r].browser \in Browsers,
           req'[r].pc = "answer" => req'[r].set \in Plain
    PROVE  CookieInv'
<1>1. req'[r].pc = "answer" => Coherent(req[r].set, req[r].browser)'
  BY PlainForm, Sentinels DEF Coherent
<1> QED
  BY <1>1, CookiesLast

LEMMA SameRows ==
    ASSUME UNCHANGED <<origin, begunIn>>,
           \A t \in Tokens : session[t] # "unborn" => session'[t] # "unborn"
    PROVE  Lasting
BY DEF Lasting

LEMMA LoudCookies ==
    ASSUME Typed, BegunInv, CookieInv, NEW r \in Requests,
           \/ SsoLogin(r) \/ Exchange(r) \/ ExchangeFails(r) \/ Create(r)
           \/ Logout(r) \/ Issue(r) \/ Consume(r) \/ Validate(r) \/ Arrive(r)
    PROVE  CookieInv'
<1> USE DEF provider, rows
<1>0. /\ origin \in [Tokens -> States \cup {None}]
      /\ begunIn \in [States -> Browsers \cup {None}]
      /\ session \in [Tokens -> {"unborn", "live", "expired", "deleted"}]
      /\ req[r].state \in States \cup {None}
      /\ req[r].pc # "idle" => req[r].browser \in Browsers
  BY DEF Typed, TypeOK, Request, Owned
<1>00. NoCookies \in Plain /\ [NoCookies EXCEPT !.state = None] \in Plain
       /\ Cleared \in Plain /\ Plain \subseteq Cookies
  BY PlainForm DEF Plain
<1>1. CASE SsoLogin(r)
  <2>1. PICK s \in States :
            /\ begunIn[s] = None
            /\ begunIn' = [begunIn EXCEPT ![s] = req[r].browser]
            /\ Alone(r)
            /\ req'[r].pc = "answer"
            /\ req'[r].set.token = Keep /\ req'[r].set.profile = Keep
    BY <1>1, SsoLoginForm
  <2>2. Lasting /\ UNCHANGED jar
    BY <1>0, <1>1, <2>1 DEF SsoLogin, Lasting
  <2>3. Coherent(req[r].set, req[r].browser)'
    BY <2>1, Sentinels DEF Coherent
  <2> QED
    BY <2>1, <2>2, <2>3, CookiesLast
<1>2. CASE Exchange(r)
  BY <1>0, <1>2, ExchangeForm, SameRows, PlainCookies DEF Exchange
<1>3. CASE ExchangeFails(r)
  BY <1>0, <1>00, <1>3, AnswerForm, SameRows, PlainCookies DEF ExchangeFails
<1>4. CASE Create(r)
  <2>1. PICK t \in Tokens :
            /\ session[t] = "unborn"
            /\ session' = [session EXCEPT ![t] = "live"]
            /\ origin' = [origin EXCEPT ![t] = req[r].state]
            /\ Alone(r) /\ req'[r].pc = "answer"
            /\ req'[r].browser = req[r].browser
            /\ req'[r].set.token = t /\ req'[r].set.profile \in {t, Blank}
            /\ req'[r].set.profile = Blank => req[r].state # None
    BY <1>4, CreateForm
  <2>2. Lasting /\ UNCHANGED <<jar, begunIn>> /\ req[r].pc = "create"
    BY <1>0, <1>4, <2>1 DEF Create, Lasting
  <2>3. session'[t] = "live" /\ origin'[t] = req[r].state
    BY <1>0, <2>1
  <2>4. origin'[t] # None => begunIn'[origin'[t]] = req'[r].browser
    BY <2>1, <2>2, <2>3 DEF BegunInv, Begun
  <2>5. Coherent(req[r].set, req[r].browser)'
    BY <2>1, <2>3, <2>4, Sentinels DEF Coherent
  <2> QED
    BY <2>1, <2>2, <2>5, CookiesLast
<1>5. CASE Logout(r)
  <2>1. \A t \in Tokens : session[t] # "unborn" => session'[t] # "unborn"
    BY <1>5 DEF Logout
  <2> QED
    BY <1>0, <1>00, <1>5, <2>1, LogoutForm, SameRows, PlainCookies DEF Logout
<1>6. CASE Issue(r)
  BY <1>0, <1>00, <1>6, IssueForm, SameRows, PlainCookies DEF Issue
<1>7. CASE Consume(r)
  <2>1. req[r].ticket \in Tickets
    BY <1>7 DEF Consume, Typed, Owned
  <2> QED
    BY <1>0, <1>7, <2>1, ConsumeForm, SameRows, PlainCookies DEF Consume
<1>8. CASE Validate(r)
  BY <1>0, <1>00, <1>8, AnswerForm, SameRows, PlainCookies DEF Validate
<1>9. CASE Arrive(r)
  <2>0. PICK b \in Browsers : b = req[r].browser
    BY <1>9, ArriveForm
  <2> DEFINE set == req[r].set
  <2>1. /\ b \in Browsers /\ set \in Cookies /\ jar[b] \in Jar
        /\ Alone(r) /\ req'[r].pc = "idle" /\ UNCHANGED rows /\ UNCHANGED begunIn
        /\ \A c \in Browsers \ {b} : jar'[c] = jar[c]
        /\ jar'[b].token = Stored(set.token, jar[b].token)
        /\ jar'[b].profile = Stored(set.profile, jar[b].profile)
    BY <1>9, <2>0, ArriveForm DEF Arrive, Typed, TypeOK
  <2>2. Coherent(set, b) /\ Coherent(jar[b], b)
    BY <1>9, <2>0, <2>1 DEF Arrive, CookieInv
  <2>3. jar[b].token # Keep /\ jar[b].profile # Keep
    BY <2>1, Sentinels DEF Jar
  <2>4. Coherent(jar[b], b)'
    <3>1. CASE set.token = Keep
      <4>1. jar'[b].token = jar[b].token /\ jar'[b].profile = jar[b].profile
        BY <2>1, <2>2, <3>1 DEF Coherent, Stored
      <4> QED
        BY <2>1, <2>2, <4>1 DEF Coherent
    <3>2. CASE set.token # Keep
      <4>1. jar'[b].token = set.token /\ jar'[b].profile = set.profile
        BY <2>1, <2>2, <3>2 DEF Coherent, Stored
      <4> QED
        BY <2>1, <2>2, <4>1 DEF Coherent
    <3> QED
      BY <3>1, <3>2
  <2>5. ASSUME NEW c \in Browsers PROVE Coherent(jar[c], c)'
    <3>1. CASE c = b
      BY <2>4, <3>1
    <3>2. CASE c # b
      <4>1. jar'[c] = jar[c] /\ Coherent(jar[c], c)
        BY <2>1, <3>2 DEF CookieInv
      <4> QED
        BY <2>1, <4>1 DEF Coherent
    <3> QED
      BY <3>1, <3>2
  <2>6. ASSUME NEW q \in Requests, req'[q].pc = "answer"
        PROVE  Coherent(req[q].set, req[q].browser)'
    <3>1. req'[q] = req[q] /\ Coherent(req[q].set, req[q].browser)
      BY <2>1, <2>6 DEF CookieInv, Alone
    <3> QED
      BY <2>1, <3>1 DEF Coherent
  <2> QED
    BY <2>5, <2>6 DEF CookieInv
<1> QED
  BY <1>1, <1>2, <1>3, <1>4, <1>5, <1>6, <1>7, <1>8, <1>9

LEMMA NextCookies ==
    ASSUME Typed, BegunInv, CookieInv, [Next]_vars
    PROVE  CookieInv'
<1> USE DEF provider, rows
<1>1. ASSUME NEW r \in Requests, Quiet(r) PROVE CookieInv'
  <2>1. req'[r].pc = "answer" => req'[r].set \in Plain
    BY <1>1 DEF Quiet
  <2> QED
    BY <1>1, <2>1, SameRows, PlainCookies DEF Quiet
<1>2. CASE \E t \in Tokens : ExpireSession(t)
  <2>1. /\ UNCHANGED <<origin, begunIn, jar, req>>
        /\ \A t \in Tokens : session[t] # "unborn" => session'[t] # "unborn"
    BY <1>2 DEF ExpireSession, Typed, TypeOK
  <2> QED
    BY <2>1 DEF CookieInv, Coherent
<1>3. CASE Restart
  <2>1. \A r \in Requests : req'[r].pc = "idle"
    BY <1>3 DEF Restart, IdleRequest
  <2> QED
    BY <1>3, <2>1 DEF Restart, CookieInv, Coherent
<1>4. CASE UNCHANGED <<origin, session, begunIn, jar, req>>
  BY <1>4 DEF CookieInv, Coherent
<1>5. CASE Drops
  <2>1. /\ UNCHANGED <<origin, session, begunIn, req>>
        /\ \A b \in Browsers :
              \/ /\ jar'[b].token = jar[b].token
                 /\ jar'[b].profile = jar[b].profile
              \/ jar'[b].token = None /\ jar'[b].profile = None
    BY <1>5, DropsForm
  <2>2. \A b \in Browsers : Coherent(jar[b], b)'
    BY <2>1, Sentinels DEF CookieInv, Coherent
  <2> QED
    BY <2>1, <2>2 DEF CookieInv, Coherent
<1>6. CASE World
  BY <1>2, <1>3, <1>4, <1>5, <1>6
  DEF Drops, World, AtProvider, ExpireTicket, SetConfig, UpdateAuthConfig
<1> QED
  BY <1>1, <1>4, <1>6, Steps, LoudCookies DEF vars

LEMMA AlwaysCookies == Spec => []CookieInv
<1>1. ASSUME Init PROVE CookieInv
  <2>1. /\ \A r \in Requests : req[r].pc = "idle"
        /\ \A b \in Browsers : jar[b].token = None /\ jar[b].profile = None
    BY <1>1 DEF Init, IdleRequest, EmptyJar
  <2> QED
    BY <2>1, Sentinels DEF CookieInv, Coherent
<1> QED
  BY <1>1, NextCookies, AlwaysTyped, AlwaysBegun, PTL DEF Spec

\* The session in a browser's token cookie was not begun in another browser
\* (session.go, ssoLogin and ssoCallback).
THEOREM OwnLoginHolds == Spec => []OwnLogin
<1>1. ASSUME Typed, CookieInv PROVE OwnLogin
  <2>1. \A b \in Browsers : jar[b].token \in Tokens \cup {None}
    BY <1>1 DEF Typed, TypeOK, Jar
  <2> QED
    BY <1>1, <2>1 DEF CookieInv, Coherent, OwnLogin
<1> QED
  BY <1>1, AlwaysTyped, AlwaysCookies, PTL

\* The profile cookie names the session of the token cookie (session.go, login,
\* ssoCallback and logout), in whatever order answers arrive.
THEOREM ProfileMatchesTokenHolds == Spec => []ProfileMatchesToken
<1>1. CookieInv => ProfileMatchesToken
  BY DEF CookieInv, Coherent, ProfileMatchesToken
<1> QED
  BY <1>1, AlwaysCookies, PTL

-----------------------------------------------------------------------------
(* A ticket is in the store, or with the one request that took it, or spent. *)

\* The request has taken its ticket out of the store.
Holds(r) == req[r].pc = "validate" /\ req[r].token # None

TicketInv ==
    /\ TicketOpensOnce
    /\ \A k \in Tickets :
          /\ ticket[k] # None => ticket[k] = issuedTo[k] /\ sockets[k] = 0
          /\ issuedTo[k] = None => sockets[k] = 0
    /\ \A r \in Requests :
          /\ req[r].pc = "issue" => req[r].token # None
          /\ Holds(r) => /\ req[r].token = issuedTo[req[r].ticket]
                         /\ ticket[req[r].ticket] = None
                         /\ sockets[req[r].ticket] = 0
    /\ \A q, r \in Requests :
          Holds(q) /\ Holds(r) /\ req[q].ticket = req[r].ticket => q = r

\* No ticket moves and no request takes one.
LEMMA IdleTickets ==
    ASSUME TicketInv, UNCHANGED tickets, NEW r \in Requests, Alone(r),
           req'[r].pc = "issue" => req'[r].token # None,
           req'[r].pc # "validate"
    PROVE  TicketInv'
BY DEF TicketInv, TicketOpensOnce, Holds, Alone, tickets

LEMMA LoudTickets ==
    ASSUME Typed, TicketInv, NEW r \in Requests,
           \/ SsoLogin(r) \/ Exchange(r) \/ ExchangeFails(r) \/ Create(r)
           \/ Logout(r) \/ Issue(r) \/ Consume(r) \/ Validate(r) \/ Arrive(r)
    PROVE  TicketInv'
<1>0. /\ ticket \in [Tickets -> Tokens \cup {None, Dummy}]
      /\ issuedTo \in [Tickets -> Tokens \cup {None, Dummy}]
      /\ sockets \in [Tickets -> Nat]
      /\ \A q \in Requests : Holds(q) => req[q].ticket \in Tickets
  BY DEF Typed, TypeOK, Owned, Holds
<1>1. CASE SsoLogin(r)
  BY <1>1, SsoLoginForm, IdleTickets DEF SsoLogin
<1>2. CASE Exchange(r)
  BY <1>2, ExchangeForm, IdleTickets DEF Exchange
<1>3. CASE ExchangeFails(r)
  <2>1. [NoCookies EXCEPT !.state = None] \in Cookies
    BY PlainForm DEF Plain
  <2> QED
    BY <1>3, <2>1, AnswerForm, IdleTickets DEF ExchangeFails
<1>4. CASE Create(r)
  BY <1>4, CreateForm, IdleTickets DEF Create
<1>5. CASE Logout(r)
  BY <1>5, LogoutForm, IdleTickets DEF Logout
<1>6. CASE Issue(r)
  <2>1. PICK k \in Tickets :
            /\ issuedTo[k] = None
            /\ issuedTo' = [issuedTo EXCEPT ![k] = req[r].token]
            /\ ticket' = [ticket EXCEPT ![k] = req[r].token]
            /\ Alone(r) /\ req'[r].pc = "answer"
    BY <1>6, IssueForm
  <2>2. UNCHANGED sockets /\ req[r].pc = "issue"
    BY <1>6 DEF Issue
  <2>3. /\ issuedTo'[k] = req[r].token /\ ticket'[k] = req[r].token
        /\ \A j \in Tickets \ {k} : issuedTo'[j] = issuedTo[j] /\ ticket'[j] = ticket[j]
    BY <1>0, <2>1
  <2>4. sockets[k] = 0 /\ req[r].token # None
    BY <2>1, <2>2 DEF TicketInv
  <2>5. ASSUME NEW q \in Requests, Holds(q)'
        PROVE  q # r /\ req'[q] = req[q] /\ Holds(q) /\ req[q].ticket # k
    <3>1. q # r /\ req'[q] = req[q] /\ Holds(q)
      BY <2>1, <2>5 DEF Holds, Alone
    <3>2. req[q].ticket # k
      BY <2>1, <3>1 DEF TicketInv, Holds
    <3> QED
      BY <3>1, <3>2
  <2>6. TicketOpensOnce' /\ \A j \in Tickets :
            /\ ticket'[j] # None => ticket'[j] = issuedTo'[j] /\ sockets'[j] = 0
            /\ issuedTo'[j] = None => sockets'[j] = 0
    BY <2>2, <2>3, <2>4 DEF TicketInv, TicketOpensOnce
  <2>7. ASSUME NEW q \in Requests
        PROVE  /\ req'[q].pc = "issue" => req'[q].token # None
               /\ Holds(q)' => /\ req'[q].token = issuedTo'[req'[q].ticket]
                               /\ ticket'[req'[q].ticket] = None
                               /\ sockets'[req'[q].ticket] = 0
    <3>1. req'[q].pc = "issue" => req'[q].token # None
      BY <2>1 DEF TicketInv, Alone
    <3>2. ASSUME Holds(q)'
          PROVE  /\ req'[q].token = issuedTo'[req'[q].ticket]
                 /\ ticket'[req'[q].ticket] = None
                 /\ sockets'[req'[q].ticket] = 0
      BY <1>0, <2>2, <2>3, <2>5, <3>2 DEF TicketInv
    <3> QED
      BY <3>1, <3>2
  <2>8. ASSUME NEW p \in Requests, NEW q \in Requests, Holds(p)', Holds(q)',
               req'[p].ticket = req'[q].ticket
        PROVE  p = q
    BY <2>5, <2>8 DEF TicketInv
  <2> QED
    BY <2>6, <2>7, <2>8 DEF TicketInv
<1>7. CASE Consume(r)
  <2> DEFINE k == req[r].ticket
  <2>1. k \in Tickets
    BY <1>7 DEF Consume, Typed, Owned
  <2>2. /\ Alone(r) /\ req'[r].pc = "validate"
        /\ req'[r].token = ticket[k] /\ req'[r].ticket = k
        /\ UNCHANGED <<issuedTo, sockets>>
        /\ ticket' = [ticket EXCEPT ![k] = None]
        /\ req[r].pc = "ws"
    BY <1>7, <2>1, ConsumeForm DEF Consume
  <2>3. ticket'[k] = None /\ \A j \in Tickets \ {k} : ticket'[j] = ticket[j]
    BY <1>0, <2>1, <2>2
  <2>4. ASSUME NEW q \in Requests \ {r}, Holds(q)'
        PROVE  req'[q] = req[q] /\ Holds(q)
    BY <2>2, <2>4 DEF Holds, Alone
  <2>5. Holds(r)' => ticket[k] # None
    BY <2>2 DEF Holds
  <2>6. TicketOpensOnce' /\ \A j \in Tickets :
            /\ ticket'[j] # None => ticket'[j] = issuedTo'[j] /\ sockets'[j] = 0
            /\ issuedTo'[j] = None => sockets'[j] = 0
    BY <2>2, <2>3 DEF TicketInv, TicketOpensOnce
  <2>7. ASSUME NEW q \in Requests
        PROVE  /\ req'[q].pc = "issue" => req'[q].token # None
               /\ Holds(q)' => /\ req'[q].token = issuedTo'[req'[q].ticket]
                               /\ ticket'[req'[q].ticket] = None
                               /\ sockets'[req'[q].ticket] = 0
    <3>1. CASE q = r
      BY <2>1, <2>2, <2>3, <2>5, <3>1 DEF TicketInv
    <3>2. CASE q # r
      BY <1>0, <2>2, <2>3, <2>4, <3>2 DEF TicketInv, Alone
    <3> QED
      BY <3>1, <3>2
  <2>8. ASSUME NEW q \in Requests \ {r}, Holds(q)', Holds(r)'
        PROVE  req'[q].ticket # req'[r].ticket
    BY <2>2, <2>4, <2>5, <2>8 DEF TicketInv
  <2>9. ASSUME NEW p \in Requests, NEW q \in Requests, Holds(p)', Holds(q)',
               req'[p].ticket = req'[q].ticket
        PROVE  p = q
    BY <2>4, <2>8, <2>9 DEF TicketInv
  <2> QED
    BY <2>6, <2>7, <2>9 DEF TicketInv
<1>8. CASE Validate(r)
  <2> DEFINE k == req[r].ticket
  <2>1. /\ k \in Tickets /\ req[r].pc = "validate"
        /\ UNCHANGED <<ticket, issuedTo>>
        /\ sockets' = IF WsAccepted(r)
                      THEN [sockets EXCEPT ![k] = sockets[k] + 1] ELSE sockets
        /\ Alone(r) /\ req'[r].pc = "answer"
    BY <1>8, IdleTyped, AnswerForm DEF Validate, Typed, Owned
  <2>2. CASE WsAccepted(r)
    <3>1. Holds(r)
      BY <2>1, <2>2, Sentinels DEF WsAccepted, Valid, Holds
    <3>2. sockets[k] = 0 /\ ticket[k] = None /\ issuedTo[k] # None
      BY <3>1 DEF TicketInv, Holds
    <3>3. sockets'[k] = 1 /\ \A j \in Tickets \ {k} : sockets'[j] = sockets[j]
      BY <1>0, <2>1, <2>2, <3>2
    <3>4. ASSUME NEW q \in Requests, Holds(q)'
          PROVE  q # r /\ req'[q] = req[q] /\ Holds(q) /\ req[q].ticket # k
      <4>1. q # r /\ req'[q] = req[q] /\ Holds(q)
        BY <2>1, <3>4 DEF Holds, Alone
      <4> QED
        BY <3>1, <4>1 DEF TicketInv
    <3>5. TicketOpensOnce' /\ \A j \in Tickets :
              /\ ticket'[j] # None => ticket'[j] = issuedTo'[j] /\ sockets'[j] = 0
              /\ issuedTo'[j] = None => sockets'[j] = 0
      BY <2>1, <3>2, <3>3 DEF TicketInv, TicketOpensOnce
    <3>6. ASSUME NEW q \in Requests
          PROVE  /\ req'[q].pc = "issue" => req'[q].token # None
                 /\ Holds(q)' => /\ req'[q].token = issuedTo'[req'[q].ticket]
                                 /\ ticket'[req'[q].ticket] = None
                                 /\ sockets'[req'[q].ticket] = 0
      <4>1. req'[q].pc = "issue" => req'[q].token # None
        BY <2>1 DEF TicketInv, Alone
      <4>2. ASSUME Holds(q)'
            PROVE  /\ req'[q].token = issuedTo'[req'[q].ticket]
                   /\ ticket'[req'[q].ticket] = None
                   /\ sockets'[req'[q].ticket] = 0
        BY <1>0, <2>1, <3>3, <3>4, <4>2 DEF TicketInv
      <4> QED
        BY <4>1, <4>2
    <3>7. ASSUME NEW p \in Requests, NEW q \in Requests, Holds(p)', Holds(q)',
                 req'[p].ticket = req'[q].ticket
          PROVE  p = q
      BY <3>4, <3>7 DEF TicketInv
    <3> QED
      BY <3>5, <3>6, <3>7 DEF TicketInv
  <2>3. CASE ~WsAccepted(r)
    BY <2>1, <2>3, IdleTickets DEF tickets
  <2> QED
    BY <2>2, <2>3
<1>9. CASE Arrive(r)
  BY <1>9, ArriveForm, IdleTickets DEF Arrive
<1> QED
  BY <1>1, <1>2, <1>3, <1>4, <1>5, <1>6, <1>7, <1>8, <1>9

LEMMA NextTickets ==
    ASSUME Typed, TicketInv, [Next]_vars
    PROVE  TicketInv'
<1>1. ASSUME NEW r \in Requests, Quiet(r) PROVE TicketInv'
  BY <1>1, IdleTickets DEF Quiet
<1>2. CASE \E k \in Tickets : ExpireTicket(k)
  <2>1. /\ UNCHANGED <<issuedTo, sockets, req>>
        /\ \A k \in Tickets : ticket'[k] \in {None, ticket[k]}
    BY <1>2 DEF ExpireTicket, Typed, TypeOK
  <2>2. \A r \in Requests : Holds(r) => req[r].ticket \in Tickets
    BY DEF Typed, Owned, Holds
  <2> QED
    BY <2>1, <2>2 DEF TicketInv, TicketOpensOnce, Holds
<1>3. CASE Restart
  <2>1. /\ \A r \in Requests : req'[r].pc = "idle"
        /\ \A k \in Tickets : ticket'[k] = None
        /\ UNCHANGED <<issuedTo, sockets>>
    BY <1>3 DEF Restart, IdleRequest
  <2> QED
    BY <2>1 DEF TicketInv, TicketOpensOnce, Holds
<1>4. CASE UNCHANGED <<tickets, req>>
  BY <1>4 DEF TicketInv, TicketOpensOnce, Holds, tickets
<1>5. CASE World
  <2>1. Drops => UNCHANGED <<tickets, req>>
    BY DropsForm
  <2> QED
    BY <1>2, <1>3, <1>4, <1>5, <2>1
    DEF Drops, World, AtProvider, ExpireSession, SetConfig, UpdateAuthConfig
<1> QED
  BY <1>1, <1>4, <1>5, Steps, LoudTickets DEF vars, tickets

LEMMA AlwaysTickets == Spec => []TicketInv
<1>1. ASSUME Init PROVE TicketInv
  <2>1. /\ \A r \in Requests : req[r].pc = "idle"
        /\ \A k \in Tickets : ticket[k] = None /\ sockets[k] = 0
    BY <1>1 DEF Init, IdleRequest
  <2> QED
    BY <2>1 DEF TicketInv, TicketOpensOnce, Holds
<1> QED
  BY <1>1, NextTickets, AlwaysTyped, PTL DEF Spec

\* A ticket opens at most one socket (middlewares.go, the socket path).
THEOREM TicketOpensOnceHolds == Spec => []TicketOpensOnce
<1>1. TicketInv => TicketOpensOnce
  BY DEF TicketInv
<1> QED
  BY <1>1, AlwaysTickets, PTL

\* Only the validation of a request counts a socket.
LEMMA OnlyValidate ==
    ASSUME Typed, [Next]_vars, NEW k \in Tickets, sockets'[k] # sockets[k]
    PROVE  \E r \in Requests : Validate(r)
<1>1. ASSUME NEW r \in Requests, Quiet(r) PROVE FALSE
  BY <1>1 DEF Quiet, tickets
<1>2. CASE World
  <2>1. Drops => FALSE
    BY DropsForm DEF tickets
  <2> QED
    BY <1>2, <2>1 DEF Drops, World, AtProvider, ExpireSession, ExpireTicket,
                      SetConfig, UpdateAuthConfig, Restart, tickets
<1>3. ASSUME NEW r \in Requests,
             \/ SsoLogin(r) \/ Exchange(r) \/ ExchangeFails(r) \/ Create(r)
             \/ Logout(r) \/ Issue(r) \/ Consume(r) \/ Arrive(r)
      PROVE  FALSE
  BY <1>3 DEF SsoLogin, Exchange, ExchangeFails, Create, Logout, Issue,
              Consume, Arrive, tickets
<1>4. CASE UNCHANGED vars
  BY <1>4 DEF vars
<1> QED
  BY <1>1, <1>2, <1>3, <1>4, Steps

\* The session a ticket was issued for is valid at the step that opens its
\* socket, whatever happened between its issue and its use (middlewares.go).
THEOREM TicketDiesWithSessionHolds == Spec => TicketDiesWithSession
<1>1. ASSUME Typed, TicketInv, [Next]_vars,
             NEW k \in Tickets, sockets'[k] # sockets[k]
      PROVE  Valid(issuedTo[k])
  <2>1. PICK r \in Requests : Validate(r)
    BY <1>1, OnlyValidate
  <2>2. req[r].ticket \in Tickets /\ sockets \in [Tickets -> Nat]
    BY <1>1, <2>1 DEF Validate, Typed, TypeOK, Owned
  <2>3. WsAccepted(r) /\ req[r].ticket = k
    BY <1>1, <2>1, <2>2 DEF Validate
  <2>4. Holds(r)
    BY <2>1, <2>3, Sentinels DEF Validate, WsAccepted, Valid, Holds
  <2> QED
    BY <1>1, <2>3, <2>4 DEF TicketInv, WsAccepted
<1>2. ASSUME Typed, TicketInv, [Next]_vars
      PROVE  [\A k \in Tickets :
                 sockets'[k] # sockets[k] => Valid(issuedTo[k])]_vars
  BY <1>1, <1>2
<1> QED
  BY <1>2, AlwaysTyped, AlwaysTickets, PTL DEF Spec, TicketDiesWithSession
=============================================================================
