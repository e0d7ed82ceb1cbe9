--------------------------- MODULE DashboardSession ---------------------------
(***************************************************************************)
(* The dashboard sessions of Bifrost (session.go and the AuthMiddleware of *)
(* middlewares.go).  A session is a row of the database named by a random  *)
(* token; browsers hold the token, the SSO state and a profile in cookies. *)
(* A request carries the cookies its browser had when it was sent and its  *)
(* answer's cookies are stored when it arrives, so two tabs of one browser *)
(* work with each other's cookies.                                         *)
(*                                                                         *)
(* A step of the model is what a handler does up to and including its next *)
(* call of the database, the identity provider or the ticket store.        *)
(* Handlers that change nothing (me, is-auth-enabled, directory-users, a   *)
(* socket opened by cookie) are left out.                                  *)
(*                                                                         *)
(* A profile cookie is named by the token set along with it, or Blank when *)
(* it names nobody; the authorization code the provider sends back for a   *)
(* state is named by that state.                                           *)
(***************************************************************************)
EXTENDS Naturals

CONSTANTS
    Browsers,
    Requests,   \* slots for concurrent requests
    Tokens,     \* session tokens, uuid.New()
    States,     \* SSO states, randomState()
    Tickets,    \* WebSocket tickets
    Headers,    \* whether Authorization headers are sent, BOOLEAN
    None,       \* an absent or emptied cookie
    Keep,       \* an answer that leaves a cookie alone
    Blank,      \* the profile set when the userinfo lookup failed
    Dummy       \* "dummy-session", or another text that names no session

ASSUME SentinelAssumption ==
    /\ {None, Keep, Blank, Dummy} \cap (Tokens \cup States \cup Tickets) = {}
    /\ Keep \notin {None, Blank} /\ None \notin {Blank, Dummy}
    /\ Headers \in BOOLEAN
    /\ None \notin Browsers

VARIABLES
    storeEnabled, \* AuthConfig.IsEnabled in the database
    mwEnabled,    \* the AuthConfig the middleware has loaded
    session,      \* [Tokens -> the row of the token]
    jar,          \* [Browsers -> its cookies]
    req,          \* the requests in flight
    code,         \* [States -> how far the provider is with that state]
    begunIn,      \* [States -> browser whose sso/login drew it] (history)
    origin,       \* [Tokens -> state whose code paid for it] (history)
    ticket,       \* the ticket store: [Tickets -> session token or None]
    issuedTo,     \* [Tickets -> token each was issued for] (history)
    sockets,      \* [Tickets -> number of sockets it opened] (history)
    unsettled     \* [Browsers -> tokens whose logout failed] (history)

vars == <<storeEnabled, mwEnabled, session, jar, req, code, begunIn, origin,
          ticket, issuedTo, sockets, unsettled>>
config == <<storeEnabled, mwEnabled>>
provider == <<code, begunIn>>
rows == <<session, origin>>
tickets == <<ticket, issuedTo, sockets>>

Jar == [token: Tokens \cup {None}, state: States \cup {None},
        profile: Tokens \cup {None, Blank}]

\* The cookies of an answer.
Cookies == [token: Tokens \cup {None, Keep}, state: States \cup {None, Keep},
            profile: Tokens \cup {None, Blank, Keep}]

NoCookies == [token |-> Keep, state |-> Keep, profile |-> Keep]

\* token: the session token the request works with; cookieState: its SSO state
\* cookie; state, ticket: its parameters; known: whether the provider told who
\* logged in.  A field is kept as long as the handler looks at it.
Request == [pc: {"idle", "login", "create", "ssoLogin", "callback", "exchange",
                 "logout", "ticket", "issue", "ws", "validate",
                 "answer"},
            browser: Browsers \cup {None},
            token: Tokens \cup {None, Dummy}, cookieState: States \cup {None},
            state: States \cup {None}, ticket: Tickets \cup {None},
            known: BOOLEAN,
            answer: {"ok", "loggedOut", "tryAgain"}, set: Cookies]

EmptyJar == [token |-> None, state |-> None, profile |-> None]

IdleRequest == [pc |-> "idle", browser |-> None, token |-> None,
                cookieState |-> None, state |-> None, ticket |-> None,
                known |-> FALSE, answer |-> "ok", set |-> NoCookies]

TypeOK ==
    /\ storeEnabled \in BOOLEAN
    /\ mwEnabled \in BOOLEAN
    /\ session \in [Tokens -> {"unborn", "live", "expired", "deleted"}]
    /\ jar \in [Browsers -> Jar]
    /\ req \in [Requests -> Request]
    /\ code \in [States -> {"none", "pending", "denied", "granted",
                         "redeemed"}]
    /\ begunIn \in [States -> Browsers \cup {None}]
    /\ origin \in [Tokens -> States \cup {None}]
    /\ ticket \in [Tickets -> Tokens \cup {None, Dummy}]
    /\ issuedTo \in [Tickets -> Tokens \cup {None, Dummy}]
    /\ sockets \in [Tickets -> Nat]
    /\ unsettled \in [Browsers -> SUBSET Tokens]

Init ==
    /\ storeEnabled \in BOOLEAN
    /\ mwEnabled = storeEnabled
    /\ session = [t \in Tokens |-> "unborn"]
    /\ jar = [b \in Browsers |-> EmptyJar]
    /\ req = [r \in Requests |-> IdleRequest]
    /\ code = [s \in States |-> "none"]
    /\ begunIn = [s \in States |-> None]
    /\ origin = [t \in Tokens |-> None]
    /\ ticket = [k \in Tickets |-> None]
    /\ issuedTo = [k \in Tickets |-> None]
    /\ sockets = [k \in Tickets |-> 0]
    /\ unsettled = [b \in Browsers |-> {}]

-----------------------------------------------------------------------------
(* Requests and answers.                                                   *)

\* A browser sends a request with the cookies it has.
Send(r, request) ==
    /\ req[r].pc = "idle"
    /\ req' = [req EXCEPT ![r] = request]
    /\ UNCHANGED <<config, rows, jar, provider, tickets, unsettled>>

SendLogin(r, b) ==
    \E kind \in {"login", "ssoLogin"} :
        Send(r, [IdleRequest EXCEPT !.pc = kind, !.browser = b])

\* The provider sent a browser back, with a code or with an error.  A page
\* can be loaded again, and by another browser.
SendCallback(r, b) ==
    \E s \in States :
        /\ code[s] \in {"denied", "granted", "redeemed"}
        /\ Send(r, [IdleRequest EXCEPT !.pc = "callback", !.browser = b,
                        !.state = s, !.cookieState = jar[b].state])

\* What an Authorization header can hold: a session's token, or Dummy for a
\* text that is none, such as one with another prefix than "Bearer ".
Header == IF Headers THEN {t \in Tokens : session[t] # "unborn"} \cup {Dummy}
          ELSE {}

\* An Authorization header goes before the cookie.
SendLogout(r, b) ==
    \E t \in Header \cup {jar[b].token} :
        Send(r, [IdleRequest EXCEPT !.pc = "logout", !.browser = b, !.token = t])

\* Without a ticket store the request is refused at once.
SendTicket(r, b) ==
    /\ Tickets # {}
    /\ \E t \in Header \cup {jar[b].token} :
        Send(r, [IdleRequest EXCEPT !.pc = "ticket", !.browser = b, !.token = t])

\* A socket is opened with a ticket that some page was answered.
SendWs(r, b) ==
    \E k \in Tickets :
        /\ issuedTo[k] # None
        /\ \A q \in Requests : req[q].pc = "answer" => req[q].ticket # k
        /\ Send(r, [IdleRequest EXCEPT !.pc = "ws", !.browser = b, !.ticket = k])

Proceed(r, pc) == req' = [req EXCEPT ![r] = [req[r] EXCEPT !.pc = pc]]

ProceedWith(r, pc, t) ==
    req' = [req EXCEPT ![r] = [req[r] EXCEPT !.pc = pc, !.token = t]]

Answered(r) == [IdleRequest EXCEPT !.pc = "answer", !.browser = req[r].browser]

Answer(r, cookies) ==
    req' = [req EXCEPT ![r] = [Answered(r) EXCEPT !.set = cookies]]

Stored(new, old) == IF new = Keep THEN old ELSE new

\* The browser stores the cookies of an answer, in the order answers arrive,
\* and follows the redirect of sso/login to the provider.
Arrive(r) ==
    LET b == req[r].browser
        set == req[r].set
    IN  /\ req[r].pc = "answer"
        /\ req' = [req EXCEPT ![r] = IdleRequest]
        /\ jar' = [jar EXCEPT ![b] =
                      [token |-> Stored(set.token, jar[b].token),
                       state |-> Stored(set.state, jar[b].state),
                       profile |-> Stored(set.profile, jar[b].profile)]]
        /\ code' = [s \in States |-> IF set.state = s THEN "pending" ELSE code[s]]
        /\ unsettled' = [unsettled EXCEPT ![b] =
                             unsettled[b] \cup
                                 IF req[r].answer = "tryAgain"
                                 THEN {req[r].token} \cap Tokens ELSE {}]
        /\ UNCHANGED <<config, rows, begunIn, tickets>>

-----------------------------------------------------------------------------
(* Sessions are created by a password login and by an SSO callback.        *)

\* login, the checks of the configuration and the password.
Login(r) ==
    /\ req[r].pc = "login"
    /\ storeEnabled
    /\ Proceed(r, "create")
    /\ UNCHANGED <<config, rows, jar, provider, tickets, unsettled>>

\* Authentication is not enabled, or the credentials are wrong.
LoginRefused(r) ==
    /\ req[r].pc = "login"
    /\ Answer(r, NoCookies)
    /\ UNCHANGED <<config, rows, jar, provider, tickets, unsettled>>

\* ssoLogin draws a state and leaves it in a cookie.
SsoLogin(r) ==
    /\ req[r].pc = "ssoLogin"
    /\ \E s \in States :
        /\ begunIn[s] = None
        /\ begunIn' = [begunIn EXCEPT ![s] = req[r].browser]
        /\ Answer(r, [NoCookies EXCEPT !.state = s])
    /\ UNCHANGED <<config, rows, jar, code, tickets, unsettled>>

\* The person signs in at the identity provider, or gives up there.
AtProvider(s) ==
    /\ code[s] = "pending"
    /\ \E outcome \in {"granted", "denied"} : code' = [code EXCEPT ![s] = outcome]
    /\ UNCHANGED <<config, rows, jar, req, begunIn, tickets, unsettled>>

\* ssoCallback, the check of the configuration fails: no cookie is touched.
CallbackNotEnabled(r) ==
    /\ req[r].pc = "callback"
    /\ ~storeEnabled
    /\ Answer(r, NoCookies)
    /\ UNCHANGED <<config, rows, jar, provider, tickets, unsettled>>

\* mutant: the state parameter is not compared with the cookie
StatePresent(r) == req[r].state # None

StateMatches(r) == req[r].cookieState = req[r].state

\* The states differ or the provider reports an error.
CallbackRefused(r) ==
    /\ req[r].pc = "callback"
    /\ storeEnabled
    /\ ~StateMatches(r) \/ code[req[r].state] = "denied"
    /\ Answer(r, [NoCookies EXCEPT !.state = None])
    /\ UNCHANGED <<config, rows, jar, provider, tickets, unsettled>>

Callback(r) ==
    /\ req[r].pc = "callback"
    /\ storeEnabled
    /\ StateMatches(r) /\ code[req[r].state] # "denied"
    /\ Proceed(r, "exchange")
    /\ UNCHANGED <<config, rows, jar, provider, tickets, unsettled>>

\* mutant: a refused exchange is not noticed
ExchangeUnchecked(r) ==
    /\ req[r].pc = "exchange"
    /\ code' = [code EXCEPT ![req[r].state] = "redeemed"]
    /\ \E known \in BOOLEAN :
        req' = [req EXCEPT ![r] = [req[r] EXCEPT !.pc = "create", !.known = known]]
    /\ UNCHANGED <<config, rows, jar, begunIn, tickets, unsettled>>

\* exchangeSSOCode: the provider takes a code once.  Whether the userinfo
\* lookup that follows succeeds only decides the profile.
Exchange(r) ==
    /\ req[r].pc = "exchange"
    /\ code[req[r].state] = "granted"
    /\ code' = [code EXCEPT ![req[r].state] = "redeemed"]
    /\ \E known \in BOOLEAN :
        req' = [req EXCEPT ![r] = [req[r] EXCEPT !.pc = "create", !.known = known]]
    /\ UNCHANGED <<config, rows, jar, begunIn, tickets, unsettled>>

\* The code is refused, or the call fails before or after the provider took it.
ExchangeFails(r) ==
    /\ req[r].pc = "exchange"
    /\ code' \in {code, [code EXCEPT ![req[r].state] = "redeemed"]}
    /\ Answer(r, [NoCookies EXCEPT !.state = None])
    /\ UNCHANGED <<config, rows, jar, begunIn, tickets, unsettled>>

\* Only a callback empties the state cookie.
StateCookie(r) == IF req[r].state = None THEN Keep ELSE None

\* mutant: without a user the profile is made of the state
ProfileOfState(r, t) ==
    IF req[r].state = None \/ req[r].known THEN t ELSE req[r].state

\* setProfileCookie: a password login always knows its user.
Profile(r, t) == IF req[r].state = None \/ req[r].known THEN t ELSE Blank

\* mutant: a token that named a session once names a new one
CreateReuses(r) ==
    /\ req[r].pc = "create"
    /\ \E t \in Tokens :
        /\ session[t] # "live"
        /\ session' = [session EXCEPT ![t] = "live"]
        /\ origin' = [origin EXCEPT ![t] = req[r].state]
        /\ Answer(r, [token |-> t, state |-> StateCookie(r),
                            profile |-> Profile(r, t)])
    /\ UNCHANGED <<config, jar, provider, tickets, unsettled>>

\* createSessionCookie and setProfileCookie.
Create(r) ==
    /\ req[r].pc = "create"
    /\ \E t \in Tokens :
        /\ session[t] = "unborn"
        /\ session' = [session EXCEPT ![t] = "live"]
        /\ origin' = [origin EXCEPT ![t] = req[r].state]
        /\ Answer(r, [token |-> t, state |-> StateCookie(r),
                            profile |-> Profile(r, t)])
    /\ UNCHANGED <<config, jar, provider, tickets, unsettled>>

CreateFails(r) ==
    /\ req[r].pc = "create"
    /\ Answer(r, [NoCookies EXCEPT !.state = StateCookie(r)])
    /\ UNCHANGED <<config, rows, jar, provider, tickets, unsettled>>

-----------------------------------------------------------------------------
(* logout empties the cookies of every answer it gives.                    *)

\* mutant: the profile cookie is forgotten
ClearedTokenOnly == [NoCookies EXCEPT !.token = None]

Cleared == [NoCookies EXCEPT !.token = None, !.profile = None]

LoggedOut(r) == [Answered(r) EXCEPT !.answer = "loggedOut", !.set = Cleared]

LogoutWithoutToken(r) ==
    /\ req[r].pc = "logout"
    /\ req[r].token = None
    /\ req' = [req EXCEPT ![r] = LoggedOut(r)]
    /\ UNCHANGED <<config, rows, jar, provider, tickets, unsettled>>

\* DeleteSession; a row that is gone already is no error.
Logout(r) ==
    /\ req[r].pc = "logout"
    /\ req[r].token # None
    /\ session' = [t \in Tokens |->
                      IF t = req[r].token THEN "deleted" ELSE session[t]]
    /\ req' = [req EXCEPT ![r] = LoggedOut(r)]
    /\ UNCHANGED <<config, origin, jar, provider, tickets, unsettled>>

\* "Failed to invalidate session. Please try again."
LogoutFails(r) ==
    /\ req[r].pc = "logout"
    /\ req[r].token # None
    /\ req' = [req EXCEPT ![r] = [Answered(r) EXCEPT
                   !.answer = "tryAgain", !.token = req[r].token, !.set = Cleared]]
    /\ UNCHANGED <<config, rows, jar, provider, tickets, unsettled>>

-----------------------------------------------------------------------------
(* WebSocket tickets, behind the middleware.                               *)

\* validateSession
Valid(t) == t \in Tokens /\ session[t] = "live"

\* What a ticket is issued for: the session the middleware found valid, and
\* "dummy-session" when authentication is off.
SessionToken(r) == IF mwEnabled THEN req[r].token ELSE Dummy

TicketAuth(r) ==
    /\ req[r].pc = "ticket"
    /\ mwEnabled => Valid(req[r].token)
    /\ ProceedWith(r, "issue", SessionToken(r))
    /\ UNCHANGED <<config, rows, jar, provider, tickets, unsettled>>

TicketRefused(r) ==
    /\ req[r].pc = "ticket"
    /\ mwEnabled /\ ~Valid(req[r].token)
    /\ Answer(r, NoCookies)
    /\ UNCHANGED <<config, rows, jar, provider, tickets, unsettled>>

\* mutant: a ticket is drawn that was issued before
IssueReuses(r) ==
    /\ req[r].pc = "issue"
    /\ \E k \in Tickets :
        /\ issuedTo' = [issuedTo EXCEPT ![k] = req[r].token]
        /\ ticket' = [ticket EXCEPT ![k] = req[r].token]
        /\ req' = [req EXCEPT ![r] = [Answered(r) EXCEPT !.ticket = k]]
    /\ UNCHANGED <<config, rows, jar, provider, sockets, unsettled>>

\* WSTicketStore.Issue
Issue(r) ==
    /\ req[r].pc = "issue"
    /\ \E k \in Tickets :
        /\ issuedTo[k] = None
        /\ issuedTo' = [issuedTo EXCEPT ![k] = req[r].token]
        /\ ticket' = [ticket EXCEPT ![k] = req[r].token]
        /\ req' = [req EXCEPT ![r] = [Answered(r) EXCEPT !.ticket = k]]
    /\ UNCHANGED <<config, rows, jar, provider, sockets, unsettled>>

IssueFails(r) ==
    /\ req[r].pc = "issue"
    /\ Answer(r, NoCookies)
    /\ UNCHANGED <<config, rows, jar, provider, tickets, unsettled>>

\* mutant: the ticket stays in the store
ConsumePeek(r) ==
    /\ req[r].pc = "ws"
    /\ mwEnabled
    /\ ProceedWith(r, "validate", ticket[req[r].ticket])
    /\ UNCHANGED <<config, rows, jar, provider, tickets, unsettled>>

\* WSTicketStore.Consume, before the session behind the ticket is looked up.
Consume(r) ==
    /\ req[r].pc = "ws"
    /\ mwEnabled
    /\ ProceedWith(r, "validate", ticket[req[r].ticket])
    /\ ticket' = [ticket EXCEPT ![req[r].ticket] = None]
    /\ UNCHANGED <<config, rows, jar, provider, issuedTo, sockets, unsettled>>

\* Without authentication the ticket is not even looked at.
WsOpen(r) ==
    /\ req[r].pc = "ws"
    /\ ~mwEnabled
    /\ Answer(r, NoCookies)
    /\ UNCHANGED <<config, rows, jar, provider, tickets, unsettled>>

\* mutant: a ticket the store knew is believed
WsAcceptedOnTicket(r) == req[r].token # None

WsAccepted(r) == Valid(req[r].token)

Validate(r) ==
    LET k == req[r].ticket
    IN  /\ req[r].pc = "validate"
        /\ sockets' = IF WsAccepted(r)
                      THEN [sockets EXCEPT ![k] = sockets[k] + 1] ELSE sockets
        /\ Answer(r, NoCookies)
        /\ UNCHANGED <<config, rows, jar, provider, ticket, issuedTo, unsettled>>

-----------------------------------------------------------------------------
(* What happens to the server and, with time, to what it handed out.       *)

ExpireSession(t) ==
    /\ session[t] = "live"
    /\ session' = [session EXCEPT ![t] = "expired"]
    /\ UNCHANGED <<config, origin, jar, req, provider, tickets, unsettled>>

\* The browser drops the state cookie ten minutes after sso/login.
ExpireState(b) ==
    /\ jar[b].state # None
    /\ jar' = [jar EXCEPT ![b].state = None]
    /\ UNCHANGED <<config, rows, req, provider, tickets, unsettled>>

\* ... and the session's two cookies, which are dated in one answer, after 30
\* days: by its own clock, whatever has become of the row.
ExpireCookies(b) ==
    /\ jar[b].token # None
    /\ jar' = [jar EXCEPT ![b].token = None, ![b].profile = None]
    /\ UNCHANGED <<config, rows, req, provider, tickets, unsettled>>

ExpireTicket(k) ==
    /\ ticket[k] # None
    /\ ticket' = [ticket EXCEPT ![k] = None]
    /\ UNCHANGED <<config, rows, jar, req, provider, issuedTo, sockets, unsettled>>

\* An administrator changes the stored configuration ...
SetConfig ==
    /\ storeEnabled' = ~storeEnabled
    /\ UNCHANGED <<mwEnabled, rows, jar, req, provider, tickets, unsettled>>

\* ... and the middleware is told of it later.
UpdateAuthConfig ==
    /\ mwEnabled # storeEnabled
    /\ mwEnabled' = storeEnabled
    /\ UNCHANGED <<storeEnabled, rows, jar, req, provider, tickets, unsettled>>

\* A restart drops the requests in flight and the tickets; InitAuthMiddleware
\* loads the configuration again.
Restart ==
    /\ mwEnabled' = storeEnabled
    /\ req' = [r \in Requests |-> IdleRequest]
    /\ ticket' = [k \in Tickets |-> None]
    /\ UNCHANGED <<storeEnabled, rows, jar, provider, issuedTo, sockets, unsettled>>

-----------------------------------------------------------------------------
Sent == \E r \in Requests, b \in Browsers :
    \/ SendLogin(r, b) \/ SendCallback(r, b) \/ SendLogout(r, b)
    \/ SendTicket(r, b) \/ SendWs(r, b)

Handled == \E r \in Requests :
    \/ Login(r) \/ LoginRefused(r) \/ SsoLogin(r)
    \/ CallbackNotEnabled(r) \/ CallbackRefused(r) \/ Callback(r)
    \/ Exchange(r) \/ ExchangeFails(r) \/ Create(r) \/ CreateFails(r)
    \/ LogoutWithoutToken(r) \/ Logout(r) \/ LogoutFails(r)
    \/ TicketAuth(r) \/ TicketRefused(r) \/ Issue(r) \/ IssueFails(r)
    \/ Consume(r) \/ WsOpen(r) \/ Validate(r)
    \/ Arrive(r)

World ==
    \/ \E s \in States : AtProvider(s)
    \/ \E t \in Tokens : ExpireSession(t)
    \/ \E b \in Browsers : ExpireState(b) \/ ExpireCookies(b)
    \/ \E k \in Tickets : ExpireTicket(k)
    \/ SetConfig \/ UpdateAuthConfig \/ Restart

Next == Sent \/ Handled \/ World

Spec == Init /\ [][Next]_vars

-----------------------------------------------------------------------------
(* Properties.                                                             *)

\* A session created by a callback was paid for with an authorization code
\* the provider took, and no code pays for two sessions, however often the
\* callback page is loaded and whichever calls fail halfway.
SsoSessionRedeemed ==
    /\ \A t \in Tokens : origin[t] # None => code[origin[t]] = "redeemed"
    /\ \A t, u \in Tokens : origin[t] = origin[u] /\ origin[t] # None => t = u

\* A browser only comes by an SSO session through a login it began itself:
\* the session in its token cookie was not begun in another browser.
OwnLogin ==
    \A b \in Browsers :
        LET t == jar[b].token
        IN  t # None /\ origin[t] # None => begunIn[origin[t]] = b

\* The profile cookie, which "me" trusts without looking at the session, is
\* never that of another session than the token cookie's, in whatever order
\* the answers of logins and logouts of two tabs arrive.
ProfileMatchesToken ==
    \A b \in Browsers :
        /\ jar[b].profile \in Tokens => jar[b].profile = jar[b].token
        /\ jar[b].profile = Blank => origin[jar[b].token] # None
        /\ jar[b].profile = None <=> jar[b].token = None

\* A ticket opens at most one socket ("Returns a one-time-use ticket"), also
\* when two sockets present it at the same moment.
TicketOpensOnce == \A k \in Tickets : sockets[k] <= 1

\* A ticket outlives neither a logout nor the expiry of the session it was
\* issued for, and one issued while authentication was off opens nothing.
TicketDiesWithSession ==
    [][\A k \in Tickets :
          sockets'[k] # sockets[k] => Valid(issuedTo[k])]_vars

\* session.go:358 asks a browser whose logout failed to try again.  When the
\* next logout of that browser is answered with success, the session that
\* could not be invalidated is live no more.
RetryInvalidates ==
    [][\A r \in Requests :
          req[r].pc = "logout" /\ req'[r].answer = "loggedOut"
          => \A t \in unsettled[req[r].browser] : session'[t] # "live"]_vars

-----------------------------------------------------------------------------
(* The promise of SessionDesk.                                             *)

Standing(t) == IF session[t] \in {"expired", "deleted"} THEN "over" ELSE session[t]

Desk == INSTANCE SessionDesk WITH
    redeemed <- {s \in States : code[s] = "redeemed"},
    row <- [t \in Tokens |-> Standing(t)],
    holds <- [b \in Browsers |-> jar[b].token],
    opened <- sockets

\* Requests overtake each other, answers arrive late, calls fail halfway and the
\* server restarts: still each step begins or redeems one login, opens one
\* session, puts one into the cookie of the browser it belongs to, ends one for
\* good, issues or uses up one ticket, or changes nothing of that.
KeepsDesk == Desk!Spec
=============================================================================
