# Verification of the SSO stack (LiteLLM, Bifrost, Keycloak)

This directory holds TLA+ models of the program logic in this repository, the
TLC configurations that check them on small instances, and TLAPS proofs of
their most important invariants for every instance. `PROJECT.json` lists every
run, mutant, finding, hazard and theorem, and maps each definition to the lines
it models. Paths below are abbreviated: `ui_sso.py`, `auth_utils.py`
(`src/litellm-image-patches/litellm/proxy/...`), `session.go`,
`middlewares.go` (`src/bifrost-image-patches/bifrost/transports/bifrost-http/handlers/`).

## 1. The system

The repository deploys Keycloak as identity provider in front of two AI
gateways, LiteLLM (Python, asyncio) and Bifrost (Go, fasthttp), and patches
their sign-in code. The patched files carry the logic; the rest is settings.

| component | state it keeps | operations | what is hard | what makes it correct |
|---|---|---|---|---|
| CLI device login (`ui_sso.py` 187-420, 1712-1980) | a dict per login id, and rate-limit counters, in the key cache | start, redirect, callback, completion, poll | every handler reads the dict, awaits, and writes it back; the cache may share or copy the dict; entries expire | no token without an accepted code; the token names a user signed in for that login; nothing is lost or revived |
| Generic SSO with PKCE (`ui_sso.py` 1125-1319, 2360-2525, 3091-3518) | a verifier per OAuth state in Redis or the pod's cache; a state cookie | redirect, callback, exchange, processing, delete | several pods, restarts, expiry, reloads, shared states, failure between exchange and delete | the browser redirected is the one signed in; one authorization, one login; verifiers are neither mixed up nor lost |
| Dashboard sessions and AuthMiddleware (`session.go`, `middlewares.go` 643-985) | session rows, three cookies per browser, tickets, cached auth config | login, sso/login, sso/callback, logout, ws-ticket, socket upgrade, config update | two tabs share cookies, answers arrive in any order; DB and provider fail between steps; config is cached; restart loses tickets | an SSO session is backed by its own code and stays in its browser; cookies name one session; tickets open once, and only live sessions |
| SSO user records (`ui_sso.py` 640-680, 1322-1627, 1990-2065, 2564-2722, 2853-3088) and the user count (`internal_user_endpoints.py`) | user and team rows, dashboard keys, login codes | count gate, lookup, upsert, team joins, role synchronisation, team and key creation | check-then-act across awaits, copies of a row that grow old, errors logged and swallowed halfway | who is let in has a row, its teams and a role it asked for; past the limit nobody is sent to the provider again |
| Role and team mapping (`ui_sso.py` 443-612, 979-1050, 1469-1604) | none | functions of claims and mapping | precedence of groups, claims, defaults and two documents | the strongest mapped role, wherever the groups were found |
| Google and Microsoft handlers (`ui_sso.py` 3631-4050) | none | fetch profile, app roles and groups, make the teams of a service principal | paging, fallbacks | the user ends up in the teams of the pages read |
| Transport interceptor and tracing (`middlewares.go` 302-513, 988-1141) | per-request hook context, a completer slot, a swapped tracer | pre hooks, handler, post hooks, completer, completion of the trace | a stream ends on another goroutine, while the context is recycled, plugins reloaded, the tracer swapped | hooks nest; a trace is completed once, with all its logs, where it was created |
| Request checks (`auth_utils.py`) | none | functions of one request | early returns | a body with a banned parameter is refused |
| CORS, headers, decompression (`middlewares.go` 31-300) | none | per-request filters | size limit | a body above the limit never reaches a handler |
| Keycloak directory client (`session.go` 312-325, 608-814) | none | admin token, user list | external failures | reads only |
| Dashboard UI (`ui/**`), deployment files, scripts, guides | - | - | - | - |

Interaction: browsers and CLIs call the HTTP handlers; handlers share the cache
(LiteLLM) or the database and ticket store (Bifrost); both redirect browsers to
the identity provider and call its token endpoint. The CLI login of LiteLLM
travels through the redirect and callback of the generic SSO: the login id is
part of the OAuth state. The Bifrost middleware stands in front of the session
handlers, except those it lets pass (login, logout, SSO).

## 2. Modules

| module | what it is |
|---|---|
| `CliSso` | the command-line login |
| `DeviceLogin` | what that login promises, without cache and handlers; `CliSso` implements it |
| `Pkce` | generic SSO with PKCE |
| `SignOn` | what a sign-on promises, without verifiers, cookies and pods; `Pkce` implements it |
| `DashboardSession` | Bifrost dashboard sessions, tickets and the middleware's socket path |
| `SessionDesk` | what the dashboard promises, without requests and answers; `DashboardSession` implements it |
| `RoleMapping` | role and teams from the claims of a generic provider: operators only |
| `SsoUser` | the user and team rows a login leaves, on top of `RoleMapping` |
| `UserDirectory` | what an administrator may rely on of these tables; `SsoUser` implements it |
| `TransportHooks` | Bifrost's plugin hooks and the completion of traces |
| `HookedRequest` | the round of a request through its plugins, without contexts and goroutines; `TransportHooks` implements it |
| `CliSso_proofs`, `Pkce_proofs`, `DashboardSession_proofs`, `SsoUser_proofs`, `TransportHooks_proofs` | theorems about the properties; the last two also hold their refinement |
| `CliSso_refinement`, `Pkce_refinement`, `DashboardSession_refinement` | the detailed specifications implement the abstract ones |
| `MCCliSso`, `MCPkce`, `MCDashboardSession`, `MCSsoUser`, `MCTransportHooks` | symmetry sets and constant values for TLC |

Conventions. An action is what a handler does between two points where another
handler may run: an `await` in Python, a call of the database, the ticket store
or the provider in Go. Secrets are named by what they belong to (the poll
secret of login `l` is `l`, the code of trip `t` is `t`), so equality of hashes
becomes equality of names. Definitions marked `mutant:` are deliberate bugs;
nothing uses them except the mutation runs listed in `PROJECT.json`, which
show that each property can fail. Variables marked "history" record what
happened for the properties and steer no action.

### 2.1 CliSso

`flow[l]` is the dict `_set_cli_sso_flow` stores (`sso_complete`,
`user_code_verified`, `session_data`, `browser_token`), `cached` the keys that
are present, `trip[b]` one browser trip through redirect, provider and
callback, `post[p]` a completion request in flight. `Start`, `StartRefused`,
`WindowExpires` model `cli_sso_start` and its limit; `Open`, `CallbackRead`,
`CallbackFail`, `CallbackStore` the redirect, `auth_callback` and
`cli_sso_callback`, which reads the dict, waits for the database, and writes
it; `CompleteRead`, `CompleteStore`, `CompleteReject` the completion, which
waits for the request body; `Poll`/`PollIssue` the poll, which has no await.
Polls that answer "pending" or are refused change nothing and have no action.

The cache class is not in this repository. Whether a read returns the stored
dict itself or a copy decides what a concurrent write does, so `Aliased`
selects: with TRUE handlers mutate the shared dict (`Held`), with FALSE they
write back the copy they took (`Snapshot`). What is proved for both modes does
not depend on the answer; `NoLostVerification` and `Delivered` hold only for
the shared dict, and their run and theorem say so.

`DeviceLogin` says what a person at a terminal may rely on: people come back
from the provider to a login that was begun (`ComeBack`), the code of the
terminal is accepted for one of them (`Confirm`), and only then are tokens
given out (`Grant`), each in the name of somebody who came back to this login
and for one of that person's teams. `CliSso!KeepsPromise` is this
specification under a refinement mapping that reads `people`, `confirmed` and
`granted` off the history of the pages; cache, expiry, rate limit and lost
writes are invisible steps. It promises no single token and not that the token
names the person who confirmed: both are false, see the findings.

### 2.2 Pkce

`verifier[pod][state]` is the cache entry `pkce_verifier:{state}`; `Store`
sends every pod to one entry when Redis is configured (`Shared`). `StateOf`
fixes the state of each redirect: trips of one CLI login share theirs, and all
trips do when `GENERIC_CLIENT_STATE` is set; properties about logins with a
state of their own say so (`OwnState`). `Redirect` files the verifier and sets
the cookie; `Callback` looks the verifier up and compares the cookie,
`Exchange`/`ExchangeFails` call the token endpoint, `Process`/`ProcessFails`
stand for userinfo, convertor and claims, `Delete` for the best-effort
deletion, after which `Finish` signs the browser in and `FinishFails` is
everything that can still turn it away: the e-mail domain, the group, the role,
a CLI login that is gone, an error. A refused callback changes nothing and has
no action. The provider
is external: it takes a code once, and only with the verifier of its
challenge. `Strict` is `PKCE_STRICT_CACHE_MISS`; without it a callback that
misses its verifier goes on without one and is refused at the exchange.
Cached values in legacy or corrupt formats are left out.

`SignOn` has none of that: a login is begun in a browser (`Begin`), the person
consents or declines (`Decide`), the consent is redeemed once (`Redeem`) and
followed by at most one sign-in, in a browser that was redirected with that
state (`SignIn`). `Pkce!KeepsSignOn` reads `begunIn`, `consent` and `signedIn`
off `begun`, `code` and `homes`; filing, losing and deleting verifiers,
callbacks and failures are invisible. It also covers the trips that share a
state, of which `OwnBrowser` says nothing: a trip may end in the browser of
another trip with its state, and nowhere else.

### 2.3 DashboardSession

`session[t]` is the row of token `t`, `jar[b]` the cookies `token`,
`bifrost_sso_state` and `bifrost_session_profile` of browser `b`, `req[r]` a
request in flight with the cookies it was sent with, `ticket[k]` the ticket
store. Requests are sent (`SendLogin`, `SendCallback`, ...), handled in one
or more steps, and their answer's cookies stored by `Arrive`, so answers are
reordered freely. `Login`/`Create` are the password login; `SsoLogin`,
`AtProvider`, `Callback`, `Exchange`, `Create` the SSO login, each with its
failure; `Logout`, `LogoutFails`, `LogoutWithoutToken` the logout, whose
answers all empty the cookies; `TicketAuth`, `Issue`, `Consume`, `Validate`
the tickets behind the middleware. `SetConfig` changes the stored
configuration and `UpdateAuthConfig` tells the middleware later; `Restart`
drops requests and tickets and reloads the configuration. `ExpireState` and
`ExpireCookies` are the lifetimes of ten minutes and 30 days in the browser;
token and profile cookie are dated one after the other in one answer and go
together, the moment between them is left out.

With `Headers` a logout or a ticket request may carry an `Authorization`
header, which goes before the cookie: a session's token, or `Dummy` for any
text that names none, such as one with another prefix than "Bearer ". `Logout`
of such a text deletes nothing and answers with success. Sockets opened by
the `token` query parameter or by cookie, Basic authentication, the whitelists
and the read-only handlers (`me`, `is-auth-enabled`, `directory-users`) change
no state and have no action.

`SessionDesk` is the dashboard as one person at a desk would run it: logins are
begun and redeemed, a session is opened by a password or by a code that pays
for nothing else (`SignIn`), put into the cookie of a browser it belongs to
(`Hold`) and ended for good (`End`); tickets are issued once and open one
socket while their session is live (`Issue`, `OpenSocket`).
`DashboardSession!KeepsDesk` maps `row` to unborn, live or over (`Standing`;
logout and expiry look alike) and `holds` to the token in the jar; requests and
answers on their way, the cached configuration and restarts are invisible.

### 2.4 RoleMapping and SsoUser

`RoleMapping` translates `determine_role_from_groups`,
`generic_response_convertor` and `process_sso_jwt_access_token`: `SsoRole` is
the role of the userinfo answer, or, where that leaves it open, of the access
token; `InForce` is the choice between the database's mapping and the
environment's. Names of claims and the ways a claim may be spelled are data. A
mapping key that is no role of the hierarchy never matches and is left out.

In `SsoUser` `row[u]` is the user's row (its role), `cached[u]` the roles that
copies of it in `user_api_key_cache` may show, `team` and `member` the team
table, `redirected[q]` what a redirect was for, `login[l]` the local variables
of one callback. `Begin` is `google_login` with the free-user gate, which
counts before the redirect; the callback has no gate of its own, so any number
of callbacks, of any people, may follow one redirect. `CallbackGoogle`,
`CallbackGeneric`, `CallbackMicrosoft` are what each handler makes of the
provider's answer, `PrincipalFails` the failure of
the Microsoft teams' provisioning; `FindTeam`, `NewTeam`, `ReadGroups` that
provisioning and the paging of groups; `LookUpFinds`, `LookUpMisses` the
lookup by id or e-mail, in the table or among the copies; `Update`, `Insert` and
`InsertFails` the upsert with its swallowed failures; `Join`, `Joined` the
gathered additions to teams; `HandCli`, `CliUnknown` the end of a CLI
login; `KeepRole`, `SyncRole` and `CacheUser` the role map, which writes the row
and then the cache, `HandKey` the promotion of `PROXY_ADMIN_ID`, the key and
the check for admin-only access; `Fails` an error that reaches the user. Each
await ends an action, and a login works on the copy of the row it read.
`troubled` is the history of swallowed failures, which the properties exclude
where a failure excuses the outcome.

The cache is not in this repository. Any request of the proxy may file a user
it has read, and `upsert_sso_user` writes the row without refreshing the copy
(`ui_sso.py:2586`), so the model lets a lookup meet every role the row has held
since the start, with any older list of teams. An entry that is gone is a read
of the row.

Two things the model shows and no property states, since nothing in the code
promises them: the CLI session carries the role and the teams as they were
before this login wrote them, and a configured default role hides the groups
of an access token from a userinfo answer without groups
(`SameRoleFromToken` therefore assumes that there is no default).

`UserDirectory` leaves out the logins: people are let in (`Admit`), and a row
(`Enrol`), a role (`Appoint`) or a team (`Join`) is given to somebody who was
let in or shares the e-mail address of somebody who was; nothing is ever taken
away. `SsoUser!KeepsDirectory` takes for `admitted` the people of the logins
past the domain and group checks. `UserAssumption` says that users with one
e-mail address are of one domain, as a domain is read off the address
(`ui_sso.py:2781-2850`); `RefusedUntouched` follows: whatever other logins do,
the row and the teams of a person of a refused domain stay as they are.

Not modelled: budgets, models, the contents of the key, and the login code
handed to a control plane, whose exchange endpoint is not in this repository.

### 2.5 TransportHooks

`req[r]` holds where the middlewares are (`pc`), where the goroutine of the
stream is (`stream`), the tracer and the plugin list pinned at arrival, the
hook to run next, the log entries not drained yet (`buffer`), the values of the
request context (`ctxLogs`, `deferred`) and those of the completer (`slot`,
`captured`). `Intercept`, `PreHook`, `PreHookStops`, `PreHooksDone` are
`TransportInterceptorMiddleware` up to `next`; `Handle` and `HandleStream` the
handler; `SkipPostHooks`, `StoreCompleter`, `StartPostHooks`, `PostHook`,
`PostHooksDone` what follows it; `Unwind` the return through
`TracingMiddleware`; `StreamEnds`, `StreamHook`, `StreamHooksDone`,
`StreamCompletes` the goroutine. `Recycle` is fasthttp taking the context
back, `SetTracer` and `Reload` what an administrator does meanwhile. The
streaming handler, the tracing library and fasthttp are external, modelled from
how `middlewares.go` uses them. Every hook is taken to write one log entry, so
that no log can be lost unseen. The root span and its attributes are left out.
A conflict answered by `applyHTTPRequestToCtx` (409) does not stop the request:
the handler runs and answers over it, as in the code.

`HookedRequest` is one request without middlewares: it meets a list of plugins
(`Meet`), runs their pre hooks in order, is answered by a plugin, the handler
or a stream, runs the post hooks in reverse, and is recorded once, with every
hook that ran (`Record`); only a streamed request may be recorded without its
hooks. `TransportHooks!KeepsRounds` maps `list` to the plugins pinned at arrival,
`ran` to the history of hooks, `recorded` and `record` to the completions of
the trace and the logs attached to it.

## 3. Runs

| run | instance | shows |
|---|---|---|
| `cli_safety` | 2 logins, trips, completions, users; copied dict | `TypeOK`, `RateLimitHolds`, `CodeBeforeToken`, `TokenProvenance`, `PageOwnsSession`, `AcceptancePinsSession`, `SpentIsFinal`; `KeepsPromise`: `CliSso` implements `DeviceLogin` |
| `cli_delivery` | 1 login, 2 trips, 2 completions; shared dict; fair polling | `NoLostVerification`, `Delivered` |
| `cli_single_use` | 1 login, 2 completions | violation: a second token for one login |
| `cli_verified_identity` | 1 login, 2 trips, 2 users | violation: a token for a user on whose page no code was typed |
| `pkce_trips` | 2 browsers, 2 callbacks, 3 trips of which two are of one CLI login and share a state; one pod's cache, not strict, with restarts | `TypeOK`, `OwnBrowser`, `VerifierKept`, `OneLogin`, `OwnVerifier`; `KeepsSignOn`: `Pkce` implements `SignOn` |
| `pkce_retry` | 2 trips | violation: a kept verifier that no retry can use |
| `dash_sessions` | 2 browsers, requests and tokens, 1 state, no headers; sessions and cookies expire | `TypeOK`, `SsoSessionRedeemed`, `OwnLogin`, `ProfileMatchesToken`; `KeepsDesk`: `DashboardSession` implements `SessionDesk` |
| `dash_tickets` | 1 browser, 2 requests, 1 token, 2 tickets, with headers | `TicketOpensOnce`, `TicketDiesWithSession`; `KeepsDesk` for the tickets |
| `dash_retry` | 1 browser, 1 request at a time | violation: the advised retry of a logout leaves the session live |
| `sso_users` | 2 callbacks for 2 redirects, copies of rows as old as may be, 3 users of whom two share an e-mail and the third is of a refused domain, 2 teams, 2 groups, 4 profiles, 4 deployments over the 3 providers; every failure | `TypeOK`, `UserHasRow`, `NoGroupLost`, `MembersExist`, `RoleSettles`, `GateCloses`, `ReportAgrees`; `StrongestRole`, `SameRoleFromToken` for three fixed role mappings and all claims of two groups; `KeepsDirectory`: `SsoUser` implements `UserDirectory` |
| `sso_role_map` | 1 redirect, 1 callback | violation: the role map's role is in the key and not in the table |
| `transport_hooks` | 1 request, 2 tracers, five lists of none to three plugins; fair middlewares and streams | `TypeOK`, `HooksNest`, `LogsReachTrace`, `CompletedOnce`, `TraceCompleted`; `KeepsRounds`: `TransportHooks` implements `HookedRequest` |

Bounds. `MaxAttempts` is the program's limit, made 1 so that the second start
in a window is refused. `MaxTokens` (2) follows a login one token past the
promised one. `MaxPages` (2) is the program's limit on pages of groups, with
profiles of up to three pages. `RawLimit` (1) is the free-user limit, so that
two redirects can pass the gate at the same count and their callbacks go over
it. The instances of `SsoUser` start with nobody in a team and the teams of the
service principal still to be made (`MCInit`); the theorems cover every start.
Their role mappings are fixed ones, with and without a default, for this
provider and for another; the theorems cover every mapping. `FreeLimit`'s 5
is the program's. All other bounds are the sizes of sets: two of each actor
are enough for two handlers to interleave on one object, with a third party
where one can get in the way; every property is about at most two such
objects. `pkce_trips` has one pod: two would only add misses, and the theorems
cover any number of pods, both caches and both modes. `transport_hooks` has one
request: requests share nothing but the tracer pointer and the plugin list,
which change at any moment, and the theorems cover any number of requests; two
plugins are enough for an order, the third for a middle. Where a theorem
exists it removes the bound. The sets of interchangeable members are symmetric;
runs with a liveness property use no symmetry. `CHECK_DEADLOCK FALSE` is set
for CliSso, Pkce and SsoUser because logins and trips are finite sets that are
used up; DashboardSession and TransportHooks never stop.

Fairness. `Delivered` assumes `WF_vars(Poll(l))`: a CLI polls in a loop until
it is answered, and the poll handler has no await. Nothing is assumed of
browsers, providers or expiry: an entry that expires ends the obligation.
`TraceCompleted` assumes weak fairness of the middlewares and of the stream of
each request: hooks and handlers return, streams end (the transport's timeouts
see to it), and Go schedules both goroutines. Nothing is assumed of recycling,
reloads and swaps.

### Findings

* **A CLI login can yield a second token** (`cli_single_use`). The poll deletes
  the entry ("Delete cache entry (single-use)", `ui_sso.py:1954`), but a
  completion or callback that read the dict earlier stores it again.
* **The verified session can be replaced** (`cli_verified_identity`). A second
  callback of the same login, after the code was accepted, replaces
  `session_data` and leaves `user_code_verified` set. What does hold, and is
  proved, is `TokenProvenance`: the user signed in for this login.
* **Keeping the PKCE verifier does not make a retry possible** (`pkce_retry`).
  By then the single-use authorization code has been handed to the token
  endpoint, contrary to what `ui_sso.py:3175-3177` and `1304-1307` expect.
* **A failed logout cannot be tried again** (`dash_retry`). The answer "Please
  try again" (`session.go:358`) has emptied the cookie the retry would need;
  the retry reports success and the session stays valid.
* **A mapped role need not reach the table** (`sso_role_map`). The upsert
  writes the provider's role, the synchronisation that follows compares the
  mapped role with the row as it was before (`ui_sso.py:1555`, "Update existing
  DB record if role differs"). When that old row held the mapped role the
  provider's stays, although the key carries the mapped one. The row compared
  with may also be a copy from the cache, older than the login. `RoleSettles` is
  therefore about users to whom the provider itself names a role, and not a
  different one than the role map does.

Noted while modelling, without a run: with Redis configured, the strict-mode
message (`ui_sso.py:3240-3244`) names "different instances" as the likely
cause of a miss; in the model a miss in a shared cache only follows expiry, a
completed login or a shared state, whichever pods were involved.

## 4. Proofs

All theorems hold for any sizes of the constant sets; their assumptions are the
named `ASSUME`s of the component module (booleans, naturals, sentinels outside
the sets, one domain for one e-mail address), which TLC evaluates on every run.

`CliSso_proofs`. `TypeOK` is not inductive, since a callback files a session
under `trip[b].login`; `Underway` adds that a trip that left home names a
login. The safety theorems share one inductive invariant `IInv`: `Typed`, the
three facts that every dict, cached (`FlowsSound`), copied by a callback
(`TripsSound`) or by a completion (`PostsSound`), comes from one callback of
its login and is verified only after an acceptance, and `CodeBeforeToken` and
`TokenProvenance` themselves. The copies are needed because a handler may
write back what it read long ago. From it follow `CodeBeforeTokenHolds`,
`TokenProvenanceHolds`, `PageOwnsSessionHolds` and, as action properties,
`AcceptancePinsSessionHolds`, `SpentIsFinalHolds` and
`NoLostVerificationHolds` (which assumes `Aliased = TRUE`).
`RateLimitHoldsAlways` rests on the counter being at least the number of
starts in the window (`Drawn`).

`Pkce_proofs`. `Exclusive` strengthens `OneLogin`: at most one callback is past
the exchange of a trip, its code is redeemed and its trip not yet signed in.
`Filed` says an entry is filed under the state of its trip, and a callback's
verifier has the state of its callback: `OwnVerifierHolds`. `VerifierKept`
becomes inductive with the fact that a callback about to delete has released
its trip, that is, has read the provider's answer; a write under the key of a
trip with its own state is a write by that trip (`OtherKey`). `Home` strengthens `OwnBrowser`:
a cookie holds the state of some trip begun in its browser, so a cookie that
matches a state of one's own was set by one's own redirect.

`Pkce_refinement`. `Guests` follows a browser from its cookie to the session
without assuming that a trip has a state of its own: the cookie and a callback
that passed the comparison have the state of some trip begun in that browser,
a callback only reaches the exchange of a code that was granted, and a trip
without a login has no home. With `Exclusive`, a callback past the exchange has
the one redeemed code of a trip nobody is signed in to yet, so `Finish` maps to
`SignIn`, and a second callback to nothing.

`CliSso_refinement`. Steps of `CliSso` map to steps of `DeviceLogin` or to
stutters. The sessions in the cache and in the copies the handlers hold all
come from a page of the login (`IInv` again), so that a token is for a person
who came back, and `CodeBeforeToken` gives `Grant` its guard.

`DashboardSession_proofs`. Most handlers move one request and nothing else; they
are gathered in `Quiet`, which says what becomes of the request, and `Steps`
splits `Next` into those and the nine that change more. Four invariants carry
the theorems. `BegunInv` follows a state: the cookie it is in, the answer that
carries it and the callback that matched it all belong to the browser whose
`sso/login` drew it, and one answer carries it. `RedeemInv` adds to
`SsoSessionRedeemed` the request between exchange and creation: its code is
redeemed, no session has it, no other request has it. `CookieInv` says the same
of an answer on its way as of the cookies it will replace: token and profile
are set, emptied or left together, and the session was begun in this browser;
arrival in any order keeps it. `TicketInv` says a ticket is in the store, with
the one request that took it, or spent. All are proved with and without
Authorization headers.

`DashboardSession_refinement`. Most steps are stutters: of handlers that move
one request, of `Restart` and of the configuration. The others meet the guards
of the desk through an invariant each: `BornInv` says that the token of a
request or a ticket is of a session that was created, `CookieInv` that a token
in a cookie or an answer belongs to the browser, `RedeemInv` that the code of a
`Create` has paid for nothing yet, `TicketInv` that a ticket being validated has
opened no socket.

`SsoUser_proofs`. `UserInv` says what a login at each place knows of its user
(`LoginInv`), which is all `UserHasRow` and `MembersExist` need. `TeamInv`
follows the teams of a login that logged no failure: each is still to be made
or exists, and is still to be joined or joined. For `RoleSettles`, `SettleInv`
says of a user none of whose logins met a failure (`Clean`) that, once one of
them has written a role its provider named (`Written`), the row holds what one
of them asked for or is about to write (`Moved`). Nothing is assumed of the
copies: whatever role a lookup met, an update that writes a claimed role does
not depend on it. `GateCloses` rests on rows being inserted, never deleted, so
that the gate, which counts them, does not open again. The three theorems on roles and counts
are about the operators alone. For `KeepsDirectory`, `GuestInv` says that a
login past the checks is of an allowed domain and goes on as its person or as a
user with the same e-mail address, although that user is only found later and
may be a row another login has just made (`AtTheDoor`, `Inside`); `TableStep`
maps each step to at most one gift to such a user; an update that writes no role
over no role is a stutter. `RefusedUntouchedHolds`
draws the conclusion for those who are kept out.

`TransportHooks_proofs`. The invariant names the places of a request (arrived,
in front, at the handler, behind, in the stream, completed) and says for each
which hooks ran and where their logs are: still in the buffer, in the context,
captured, or in the trace. `HooksNest`, `LogsReachTrace` and `CompletedOnce` are
read off it, for lists of any length and any number of requests. For
`KeepsRounds` the same places say how many hooks ran, so that the next hook of
the code is the next hook of the round, also in the goroutine of the stream, and
that the logs in a record are the hooks that ran; `AllSettled` adds who has
answered at each place: nobody in front, the handler behind and in the stream.

All five components that change state are thus shown to implement an abstract
specification that a reader can hold in the head; a mutant of each, such as a
post hook run from the reloaded list, breaks it.

Only model-checked: `Delivered` and `TraceCompleted` (liveness is beyond the
prover). The violation runs are counterexamples and need no proof.

## 5. Not modelled

* Pkce: legacy and corrupt formats of a cached verifier, and the merge of token
  and userinfo fields, which only feed `RoleMapping`.
* The debug and readiness pages and the Keycloak directory client read and
  render; they keep no state.
* The request checks of `auth_utils.py` and the CORS, header and decompression
  filters are functions of one request; a unit test enumerates them, and no
  order of events matters to them.
* The control plane's exchange of a login code, the streaming handlers, the
  tracing library and the database are outside the repository.
* The dashboard UI, deployment files, scripts and guides have no behaviour a
  model could tell apart; the UI's requests are the inputs of
  `DashboardSession`.
* Time is not modelled: cache entries, verifiers, sessions, tickets and cookies
  may expire at any moment. Lifetimes of the dashboard keys and of LiteLLM's own
  session cookie are not modelled.

Hazards without a property are listed in `PROJECT.json` with the reason. The
most telling are the 409 of `applyHTTPRequestToCtx` that the handler overwrites
and a stream that ends before its completer is stored (its logs are lost): the
models have both, but nothing in the repository says what should happen.
