------------------------------- MODULE CliSso -------------------------------
(***************************************************************************)
(* The command-line login of LiteLLM (ui_sso.py).  A CLI starts a login,   *)
(* a browser signs in at the identity provider on its behalf, the person   *)
(* types the CLI's verification code into the page the callback rendered,  *)
(* and the polling CLI is given a token.  The state of one login is a dict *)
(* ("flow") kept in the proxy's key cache under the login id; every        *)
(* handler reads it, most of them wait for something, and write it back.   *)
(*                                                                         *)
(* A step of the model is what a handler does between two awaits of the    *)
(* event loop: the start and poll handlers have none and are atomic, the   *)
(* callback waits for the database between its read and its write, and the *)
(* completion waits for the request body.                                  *)
(*                                                                         *)
(* Secrets are named by what they belong to: the poll secret and the       *)
(* verification code of login l are l itself, and the token hidden in the  *)
(* page of browser trip b is b.  Equality of hashes is equality of names.  *)
(***************************************************************************)
EXTENDS Naturals

CONSTANTS
    Logins,       \* login ids, each drawn once by secrets.token_urlsafe
    Browsers,     \* browser trips: one redirect to the provider and back
    Posts,        \* slots for concurrent POSTs to the completion endpoint
    Ips,          \* client addresses the rate limit tells apart
    Users, Teams, \* identities and the teams they may belong to
    None,         \* Python's None
    Aliased,      \* TRUE: the cache hands out the stored dict itself (one
                  \* process); FALSE: it hands out a copy (serialised store)
    MaxAttempts,  \* _CLI_SSO_START_RATE_LIMIT_MAX_ATTEMPTS
    MaxTokens     \* bound on the tokens one login is followed through

ASSUME AliasedAssumption == Aliased \in BOOLEAN
ASSUME BoundsAssumption == MaxAttempts \in Nat /\ MaxTokens \in Nat
ASSUME NoneAssumption == None \notin Logins \cup Browsers \cup Users \cup Teams

VARIABLES
    attempts,     \* [Ips -> Nat]: the rate-limit counters in the cache
    windowStarts, \* [Ips -> Nat]: logins really started in the window
    started,      \* login ids handed out so far
    flow,         \* the dict of each login
    cached,       \* logins whose dict is reachable through the cache
    trip,         \* what each browser trip is doing
    post,         \* the completion requests in flight
    accepted,     \* [Logins -> pages whose code was accepted] (history)
    issues,       \* [Logins -> number of tokens issued]
    tokens        \* [Logins -> the tokens issued]

vars == <<attempts, windowStarts, started, flow, cached, trip, post,
          accepted, issues, tokens>>

Session == [user: Users, teams: SUBSET Teams]

NoSession == [user |-> None, teams |-> {}]

Flow == [sso_complete: BOOLEAN, user_code_verified: BOOLEAN,
         session_data: Session \cup {NoSession},
         browser_token: Browsers \cup {None}]

FreshFlow == [sso_complete |-> FALSE, user_code_verified |-> FALSE,
              session_data |-> NoSession, browser_token |-> None]

Trip == [pc: {"home", "idp", "db", "page", "failed"},
         login: Logins \cup {None}, user: Users \cup {None},
         teams: SUBSET Teams, snap: Flow]

Post == [pc: {"idle", "body"}, page: Browsers \cup {None}, snap: Flow]

IdlePost == [pc |-> "idle", page |-> None, snap |-> FreshFlow]

Token == [user: Users, team: Teams \cup {None}, cli: Logins]

TypeOK ==
    /\ attempts \in [Ips -> Nat]
    /\ windowStarts \in [Ips -> Nat]
    /\ started \in SUBSET Logins
    /\ flow \in [Logins -> Flow]
    /\ cached \in SUBSET Logins
    /\ trip \in [Browsers -> Trip]
    /\ post \in [Posts -> Post]
    /\ accepted \in [Logins -> SUBSET Browsers]
    /\ issues \in [Logins -> Nat]
    /\ tokens \in [Logins -> SUBSET Token]

Init ==
    /\ attempts = [ip \in Ips |-> 0]
    /\ windowStarts = [ip \in Ips |-> 0]
    /\ started = {}
    /\ flow = [l \in Logins |-> FreshFlow]
    /\ cached = {}
    /\ trip = [b \in Browsers |-> [pc |-> "home", login |-> None, user |-> None,
                                   teams |-> {}, snap |-> FreshFlow]]
    /\ post = [p \in Posts |-> IdlePost]
    /\ accepted = [l \in Logins |-> {}]
    /\ issues = [l \in Logins |-> 0]
    /\ tokens = [l \in Logins |-> {}]

-----------------------------------------------------------------------------
(* The cache.                                                              *)

\* What a read leaves in the handler: nothing of its own when the dict is
\* shared, a private copy otherwise.
Snapshot(l) == IF Aliased THEN FreshFlow ELSE flow[l]

\* The dict a handler that read login l earlier is looking at now.
Held(l, snap) == IF Aliased THEN flow[l] ELSE snap

\* _set_cli_sso_flow: the key is (re)created whether or not it is there.
SetFlow(l, f) ==
    /\ flow' = [flow EXCEPT ![l] = f]
    /\ cached' = cached \cup {l}

\* The entry's time to live runs out, or the process loses its cache.
Expire(l) ==
    /\ l \in cached
    /\ cached' = cached \ {l}
    /\ UNCHANGED <<attempts, windowStarts, started, flow, trip, post,
                   accepted, issues, tokens>>

-----------------------------------------------------------------------------
(* POST /sso/cli/start                                                     *)

RateLimitedLate(ip) == attempts[ip] > MaxAttempts  \* mutant: one too late

RateLimited(ip) == attempts[ip] + 1 > MaxAttempts

Start(ip, l) ==
    /\ l \notin started
    /\ ~RateLimited(ip)
    /\ attempts' = [attempts EXCEPT ![ip] = @ + 1]
    /\ windowStarts' = [windowStarts EXCEPT ![ip] = @ + 1]
    /\ started' = started \cup {l}
    /\ SetFlow(l, FreshFlow)
    /\ UNCHANGED <<trip, post, accepted, issues, tokens>>

\* 429: the counter has been incremented all the same.  It is followed one
\* past the limit only; beyond that nothing tells its values apart.
StartRefused(ip) ==
    /\ RateLimited(ip)
    /\ attempts[ip] <= MaxAttempts
    /\ attempts' = [attempts EXCEPT ![ip] = @ + 1]
    /\ UNCHANGED <<windowStarts, started, flow, cached, trip, post,
                   accepted, issues, tokens>>

WindowExpires(ip) ==
    /\ attempts[ip] > 0
    /\ attempts' = [attempts EXCEPT ![ip] = 0]
    /\ windowStarts' = [windowStarts EXCEPT ![ip] = 0]
    /\ UNCHANGED <<started, flow, cached, trip, post, accepted, issues, tokens>>

-----------------------------------------------------------------------------
(* GET /sso/key/generate?source=cli&key=l: the browser leaves for the      *)
(* provider with the login id in its state parameter.                      *)

Open(b, l) ==
    /\ trip[b].pc = "home"
    /\ l \in cached
    /\ trip' = [trip EXCEPT ![b] = [@ EXCEPT !.pc = "idp", !.login = l]]
    /\ UNCHANGED <<attempts, windowStarts, started, flow, cached, post,
                   accepted, issues, tokens>>

(* GET /sso/callback: cli_sso_callback up to its first await ...           *)

CallbackReadUnchecked(b, u) ==  \* mutant: the flow need not be cached
    /\ trip[b].pc = "idp"
    /\ trip' = [trip EXCEPT ![b] =
                  [@ EXCEPT !.pc = "db", !.user = u,
                            !.snap = Snapshot(trip[b].login)]]
    /\ UNCHANGED <<attempts, windowStarts, started, flow, cached, post,
                   accepted, issues, tokens>>

CallbackRead(b, u) ==
    /\ trip[b].pc = "idp"
    /\ trip[b].login \in cached
    /\ trip' = [trip EXCEPT ![b] =
                  [@ EXCEPT !.pc = "db", !.user = u,
                            !.snap = Snapshot(trip[b].login)]]
    /\ UNCHANGED <<attempts, windowStarts, started, flow, cached, post,
                   accepted, issues, tokens>>

\* ... the provider gave no result (401), the flow is gone (400), or the
\* user could not be resolved (500) ...
CallbackFail(b) ==
    /\ trip[b].pc \in {"idp", "db"}
    /\ trip' = [trip EXCEPT ![b] = [@ EXCEPT !.pc = "failed", !.snap = FreshFlow]]
    /\ UNCHANGED <<attempts, windowStarts, started, flow, cached, post,
                   accepted, issues, tokens>>

CallbackStoreFromScratch(b, teams) ==  \* mutant: a dict built anew
    LET l == trip[b].login IN
    /\ trip[b].pc = "db"
    /\ SetFlow(l, [FreshFlow EXCEPT
                     !.session_data = [user |-> trip[b].user, teams |-> teams],
                     !.sso_complete = TRUE,
                     !.browser_token = b])
    /\ trip' = [trip EXCEPT ![b] =
                  [@ EXCEPT !.pc = "page", !.teams = teams, !.snap = FreshFlow]]
    /\ UNCHANGED <<attempts, windowStarts, started, post, accepted, issues, tokens>>

CallbackStoreNoUser(b, teams) ==  \* mutant: no row, yet no error
    LET l == trip[b].login IN
    /\ trip[b].pc = "db"
    /\ SetFlow(l, [Held(l, trip[b].snap) EXCEPT
                     !.session_data = [user |-> None, teams |-> teams],
                     !.sso_complete = TRUE,
                     !.browser_token = b])
    /\ trip' = [trip EXCEPT ![b] =
                  [@ EXCEPT !.pc = "page", !.teams = teams, !.snap = FreshFlow]]
    /\ UNCHANGED <<attempts, windowStarts, started, post, accepted, issues, tokens>>

CallbackStoreOldPage(b, teams) ==  \* mutant: the first page stays
    LET l == trip[b].login IN
    /\ trip[b].pc = "db"
    /\ SetFlow(l, [Held(l, trip[b].snap) EXCEPT
                     !.session_data = [user |-> trip[b].user, teams |-> teams],
                     !.sso_complete = TRUE,
                     !.browser_token = IF @ = None THEN b ELSE @])
    /\ trip' = [trip EXCEPT ![b] =
                  [@ EXCEPT !.pc = "page", !.teams = teams, !.snap = FreshFlow]]
    /\ UNCHANGED <<attempts, windowStarts, started, post, accepted, issues, tokens>>

\* ... or, with the user's row at hand, the session is filed and the page
\* with a new browser token rendered.
CallbackStore(b, teams) ==
    LET l == trip[b].login IN
    /\ trip[b].pc = "db"
    /\ SetFlow(l, [Held(l, trip[b].snap) EXCEPT
                     !.session_data = [user |-> trip[b].user, teams |-> teams],
                     !.sso_complete = TRUE,
                     !.browser_token = b])
    /\ trip' = [trip EXCEPT ![b] =
                  [@ EXCEPT !.pc = "page", !.teams = teams, !.snap = FreshFlow]]
    /\ UNCHANGED <<attempts, windowStarts, started, post, accepted, issues, tokens>>

-----------------------------------------------------------------------------
(* POST /sso/cli/complete/{l}, submitted by the page of trip b: up to the  *)
(* await of the body ...                                                   *)

CompleteRead(p, b) ==
    LET l == trip[b].login IN
    /\ post[p].pc = "idle"
    /\ trip[b].pc = "page"
    /\ l \in cached
    /\ flow[l].sso_complete /\ flow[l].session_data # NoSession
    /\ post' = [post EXCEPT ![p] = [pc |-> "body", page |-> b,
                                    snap |-> Snapshot(l)]]
    /\ UNCHANGED <<attempts, windowStarts, started, flow, cached, trip,
                   accepted, issues, tokens>>

CodeAcceptedAnyPage(p, code) ==  \* mutant: the page's token is not compared
    code = trip[post[p].page].login

\* The code typed is the one some terminal shows; the token is the page's.
CodeAccepted(p, code) ==
    LET b == post[p].page
        l == trip[b].login
    IN  code = l /\ Held(l, post[p].snap).browser_token = b

CompleteStore(p, code) ==
    LET b == post[p].page
        l == trip[b].login
    IN
    /\ post[p].pc = "body"
    /\ CodeAccepted(p, code)
    /\ SetFlow(l, [Held(l, post[p].snap) EXCEPT !.user_code_verified = TRUE])
    /\ accepted' = [accepted EXCEPT ![l] = @ \cup {b}]
    /\ post' = [post EXCEPT ![p] = IdlePost]
    /\ UNCHANGED <<attempts, windowStarts, started, trip, issues, tokens>>

CompleteReject(p, code) ==
    /\ post[p].pc = "body"
    /\ ~CodeAccepted(p, code)
    /\ post' = [post EXCEPT ![p] = IdlePost]
    /\ UNCHANGED <<attempts, windowStarts, started, flow, cached, trip,
                   accepted, issues, tokens>>

-----------------------------------------------------------------------------
(* GET /sso/cli/poll/{l}: answers other than a token (pending, the list of *)
(* teams, 400 and 403) change nothing.                                     *)

ReadyUnverified(l) ==  \* mutant: the verification code is not waited for
    l \in cached /\ flow[l].sso_complete /\ flow[l].session_data # NoSession

Ready(l) ==
    /\ l \in cached
    /\ flow[l].sso_complete
    /\ flow[l].user_code_verified
    /\ flow[l].session_data # NoSession

TeamGrantedUnchecked(teams, asked, team) ==  \* mutant: no membership check
    IF asked # None THEN team = asked
    ELSE IF teams = {} THEN team = None ELSE team \in teams

TeamGrantedNoChoice(teams, asked, team) ==  \* mutant: the choice is skipped
    IF asked # None THEN asked \in teams /\ team = asked ELSE team = None

\* The team the token is for: the one asked for, or without a choice to
\* make the only one, or none.
TeamGranted(teams, asked, team) ==
    IF asked # None
    THEN asked \in teams /\ team = asked
    ELSE /\ \A t1, t2 \in teams : t1 = t2
         /\ IF teams = {} THEN team = None ELSE team \in teams

PollIssue(l, secret, asked, team) ==
    /\ secret = l
    /\ Ready(l)
    /\ TeamGranted(flow[l].session_data.teams, asked, team)
    /\ issues[l] < MaxTokens
    /\ issues' = [issues EXCEPT ![l] = @ + 1]
    /\ tokens' = [tokens EXCEPT ![l] = @ \cup
                   {[user |-> flow[l].session_data.user, team |-> team,
                     cli |-> secret]}]
    /\ cached' = cached \ {l}
    /\ UNCHANGED <<attempts, windowStarts, started, flow, trip, post, accepted>>

Poll(l) == \E secret \in Logins, asked, team \in Teams \cup {None} :
              PollIssue(l, secret, asked, team)

-----------------------------------------------------------------------------
Next ==
    \/ \E ip \in Ips, l \in Logins : Start(ip, l)
    \/ \E ip \in Ips : StartRefused(ip)
    \/ \E ip \in Ips : WindowExpires(ip)
    \/ \E l \in Logins : Expire(l)
    \/ \E b \in Browsers, l \in Logins : Open(b, l)
    \/ \E b \in Browsers, u \in Users : CallbackRead(b, u)
    \/ \E b \in Browsers : CallbackFail(b)
    \/ \E b \in Browsers, teams \in SUBSET Teams : CallbackStore(b, teams)
    \/ \E p \in Posts, b \in Browsers : CompleteRead(p, b)
    \/ \E p \in Posts, code \in Logins : CompleteStore(p, code)
    \/ \E p \in Posts, code \in Logins : CompleteReject(p, code)
    \/ \E l \in Logins : Poll(l)

Spec == Init /\ [][Next]_vars

\* A CLI keeps polling until it is answered with a token.
FairSpec == Spec /\ \A l \in Logins : WF_vars(Poll(l))

-----------------------------------------------------------------------------
(* Properties.                                                             *)

\* No client address starts more than the permitted number of logins in one
\* window of the rate limit (_check_cli_sso_start_rate_limit).
RateLimitHolds == \A ip \in Ips : windowStarts[ip] <= MaxAttempts

\* A CLI is never given a token for a login unless somebody who reached the
\* verification page of that login typed its code there: whatever order the
\* start, callback, completion and poll handlers run in.
CodeBeforeToken ==
    \A l \in Logins :
        /\ issues[l] > 0 => accepted[l] # {}
        /\ \A b \in accepted[l] : trip[b].pc = "page" /\ trip[b].login = l

\* A token names a user whom the identity provider authenticated on a browser
\* trip made for that very login, and a team of that user at that time (none
\* only for a user without teams).
TokenProvenance ==
    \A l \in Logins : \A t \in tokens[l] :
        /\ t.cli = l
        /\ \E b \in Browsers :
              /\ trip[b].pc = "page" /\ trip[b].login = l /\ trip[b].user = t.user
              /\ IF t.team = None THEN trip[b].teams = {} ELSE t.team \in trip[b].teams

\* The session and the browser token of a dict, which different handlers read
\* and write, always come from one and the same callback of that login; so do
\* those in the copies that handlers in flight hold.
SessionOfPage(f, l) ==
    IF f.browser_token = None
    THEN f.session_data = NoSession /\ ~f.sso_complete /\ ~f.user_code_verified
    ELSE /\ trip[f.browser_token].pc = "page"
         /\ trip[f.browser_token].login = l
         /\ f.session_data = [user |-> trip[f.browser_token].user,
                              teams |-> trip[f.browser_token].teams]
         /\ f.sso_complete
PageOwnsSession ==
    /\ \A l \in Logins : SessionOfPage(flow[l], l)
    /\ \A b \in Browsers : trip[b].pc = "db" => SessionOfPage(trip[b].snap, trip[b].login)
    /\ \A p \in Posts : post[p].pc = "body" =>
                           SessionOfPage(post[p].snap, trip[post[p].page].login)

\* Typing the code into a page verifies the session of that page and no other:
\* in the very step the code is accepted, the dict in the cache is the page's.
AcceptancePinsSession ==
    [][\A l \in Logins : \A b \in accepted'[l] \ accepted[l] :
          /\ flow'[l].user_code_verified
          /\ flow'[l].browser_token = b
          /\ flow'[l].session_data.user = trip[b].user]_vars

\* Once its token is issued and no handler is halfway through it, a login is
\* spent: no later request brings its dict back.
Spent(l) ==
    /\ issues[l] > 0 /\ l \notin cached
    /\ \A b \in Browsers : trip[b].login = l => trip[b].pc # "db"
    /\ \A p \in Posts : post[p].pc = "body" => trip[post[p].page].login # l
SpentIsFinal == [][\A l \in Logins : Spent(l) => Spent(l)']_vars

\* With the shared dict, an accepted code is never forgotten: no concurrent
\* callback or completion writes back a dict from before the acceptance.
NoLostVerification ==
    [][\A l \in Logins :
          flow[l].user_code_verified => flow'[l].user_code_verified]_vars

\* A verified login in the cache is answered with a token (or expires) as long
\* as its CLI keeps polling, up to the bound MaxTokens.
Delivered ==
    \A l \in Logins :
        (l \in cached /\ accepted[l] # {}) ~> (l \notin cached \/ issues[l] = MaxTokens)

\* What cli_poll_key says of itself: "Delete cache entry (single-use)".
SingleUse == \A l \in Logins : issues[l] <= 1

\* What the verification page says: entering the code finishes "this login".
\* The token names the user of a page in which the code was accepted.
VerifiedIdentity ==
    \A l \in Logins : \A t \in tokens[l] :
        \E b \in accepted[l] : trip[b].user = t.user

-----------------------------------------------------------------------------
(* The promise of DeviceLogin: the pages rendered for a login are the people *)
(* that came back to it.                                                   *)

Pages(l) == {b \in Browsers : trip[b].pc = "page" /\ trip[b].login = l}
PersonOf(b) == [user |-> trip[b].user, teams |-> trip[b].teams]

Promise == INSTANCE DeviceLogin WITH
    begun <- started,
    people <- [l \in Logins |-> {PersonOf(b) : b \in Pages(l)}],
    confirmed <- [l \in Logins |-> {PersonOf(b) : b \in accepted[l]}],
    granted <- tokens,
    given <- issues

\* Whatever its handlers overwrite, expire or revive, the login does what
\* DeviceLogin says: every step begins a login, brings a person back to a login
\* that was begun, confirms with a person that is there, gives one token to one
\* of them after a confirmation, or changes nothing of that.
KeepsPromise == Promise!Spec
=============================================================================
