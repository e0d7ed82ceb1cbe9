-------------------------------- MODULE SsoUser --------------------------------
(***************************************************************************)
(* The user and team rows that a single sign-on login leaves behind        *)
(* (ui_sso.py): the free-user gate of google_login, the callback of each   *)
(* provider, get_user_info_from_db, the role and the key of the dashboard, *)
(* and the session handed to the CLI.                                      *)
(*                                                                         *)
(* Every await of a handler ends an action: between two of them the        *)
(* handlers of other logins run.  A login works on the copy of the row it   *)
(* got when it looked the user up (user, dbRole, todo), from the table or   *)
(* from user_api_key_cache, however old that copy is.                      *)
(***************************************************************************)
EXTENDS RoleMapping, FiniteSets, Sequences

CONSTANTS
    Redirects,       \* runs of google_login that send somebody to the provider
    Logins,          \* runs of auth_callback
    Ids, Email,      \* subjects at the provider and their e-mail addresses
    Absent,          \* a user without a row
    Stored,          \* what the table may hold for a user at the start
    Profiles,        \* what a provider may say of a person, see ProfileSet
    Deployments,     \* how the proxy may be set up, see Deployment
    PrincipalTeams,  \* groups of MICROSOFT_SERVICE_PRINCIPAL_ID
    MaxPages,        \* MAX_GRAPH_API_PAGES
    RestrictedGroup, AllowedIds,  \* ids of the allowed e-mail domains
    DefaultUserRole, \* user_role of default_internal_user_params, or None
    AdminId,         \* PROXY_ADMIN_ID
    Premium, RawLimit, LicenseUsers  \* LITELLM_FREE_SSO_USER_LIMIT, max_users

Providers == {"google", "microsoft", "generic"}
Modes == {"open", "restricted_sso_group", "admin_only"}

\* info and token: the userinfo answer and the claims of the access token;
\* mapped: what jwt_litellm_role_map makes of them; pages: the groups Graph
\* answers with, page by page; appRoles: those of the id_token, in order.
ProfileSet == [info: Claims, token: Claims \cup {None}, mapped: Roles \cup {None},
               pages: Seq(SUBSET Teams),
               appRoles: Seq(Roles \cup {None})]

\* The identity provider, ui_access_mode, and the role mappings in the database
\* and in the environment.
Deployment == [provider: Providers, mode: Modes, db: Mapping \cup {None},
               env: Mapping \cup {None}]

ASSUME UserAssumption ==
    /\ Absent \notin Roles \cup {None} /\ None \notin Ids /\ IsFiniteSet(Ids)
    /\ Stored \subseteq Roles \cup {None, Absent}
    /\ Profiles \subseteq ProfileSet
    /\ Deployments \subseteq Deployment
    /\ PrincipalTeams \subseteq Teams /\ MaxPages \in Nat
    /\ \A u, v \in Ids : Email[u] = Email[v] => (u \in AllowedIds <=> v \in AllowedIds)
    /\ DefaultUserRole \in Roles \cup {None}
    /\ Premium \in BOOLEAN /\ RawLimit \in Int \cup {None} /\ LicenseUsers \in Nat

VARIABLES
    row,       \* user table: the role of a user, Absent without a row
    cached,    \* roles that copies of a user in user_api_key_cache may show
    team,      \* team table
    member,    \* users of a team
    redirected, \* what each redirect was for: the dashboard or the CLI
    login,     \* the logins
    deployed,  \* the deployment, which no step changes
    troubled   \* history: logins that logged a failure and went on

vars == <<row, cached, team, member, redirected, login, deployed, troubled>>

Working == {"find_team", "new_team", "groups", "lookup", "upsert", "join",
            "sync", "cache", "key"}
Ended == {"refused", "failed", "barred", "done"}

Fresh == [pc |-> "home", cli |-> FALSE, id |-> None, teams |-> {},
          claimed |-> None, role |-> None, mapped |-> None, making |-> {},
          missing |-> None, todo |-> {}, user |-> None, dbRole |-> None]

\* claimed is the role in the provider's answer, role that of
\* user_defined_values; making: teams left to provision, missing: the one of them
\* that was not found; todo: teams left to join.
LoginSet ==
    [pc: {"home"} \cup Working \cup Ended, cli: BOOLEAN, id: Ids \cup {None},
     teams: SUBSET Teams, claimed: Roles \cup {None}, role: Roles \cup {None},
     mapped: Roles \cup {None}, making: SUBSET Teams, missing: Teams \cup {None},
     todo: SUBSET Teams, user: Ids \cup {None}, dbRole: Roles \cup {None}]

Rows == {u \in Ids : row[u] # Absent}
Provider == deployed.provider
Mode == deployed.mode

Init ==
    /\ row \in [Ids -> Stored]
    /\ cached = [u \in Ids |-> {row[u]} \ {Absent}]
    /\ redirected = [q \in Redirects |-> "none"]
    /\ team \in SUBSET Teams
    /\ member \in [Teams -> SUBSET Rows]
    /\ \A t \in Teams \ team : member[t] = {}
    /\ login = [l \in Logins |-> Fresh]
    /\ deployed \in Deployments
    /\ troubled = {}

At(l, pc) == login[l].pc = pc

Unstored == UNCHANGED <<row, cached, team, member>>
UnstoredTeams == UNCHANGED <<team, member>>
Outside == UNCHANGED <<redirected, deployed>>
Trouble(l) == troubled' = troubled \cup {l}
Fine == UNCHANGED troubled

-----------------------------------------------------------------------------
(* The gate of google_login and the count of available_enterprise_users.   *)

FreeLimit == IF RawLimit = None \/ RawLimit < 0 THEN 5 ELSE RawLimit

\* mutant: the limit is off by one
GateOpenLate(count) ==
    Premium \/ FreeLimit = 0 \/ count = 0 \/ count <= FreeLimit + 1

\* mutant: the limit itself is already too many
GateOpenBelow(count) ==
    Premium \/ FreeLimit = 0 \/ count = 0 \/ count < FreeLimit

GateOpen(count) == Premium \/ FreeLimit = 0 \/ count = 0 \/ count <= FreeLimit

MaxUsers == IF ~Premium /\ FreeLimit > 0 THEN FreeLimit ELSE LicenseUsers

\* total_users_remaining: without a limit None, which is also made of 0.
UsersRemaining(count) == IF MaxUsers = 0 THEN None ELSE MaxUsers - count

\* google_login: whoever the gate refuses is sent nowhere.
Begin(q) ==
    /\ redirected[q] = "none"
    /\ GateOpen(Cardinality(Rows))
    /\ \E kind \in {"page", "cli"} : redirected' = [redirected EXCEPT ![q] = kind]
    /\ Unstored /\ Fine /\ UNCHANGED <<login, deployed>>

-----------------------------------------------------------------------------
(* The callback, up to the first look at the user table.  It has no gate:  *)
(* one redirect may lead to any number of callbacks, of several people     *)
(* even, however many users there are by then.                             *)

\* mutant: the command line asks neither for the domain nor for the group
RefusedOnPages(cli, id, teams) ==
    /\ ~cli
    /\ \/ id \notin AllowedIds
       \/ Mode = "restricted_sso_group" /\ RestrictedGroup \notin teams

\* The e-mail domain is refused to everybody, the wrong group to the dashboard.
Refused(cli, id, teams) ==
    \/ id \notin AllowedIds
    \/ ~cli /\ Mode = "restricted_sso_group" /\ RestrictedGroup \notin teams

Parsed(r, teams) ==
    [r EXCEPT !.teams = teams, !.role = r.claimed,
              !.pc = IF Refused(r.cli, r.id, teams) THEN "refused" ELSE "lookup"]

Sent == {q \in Redirects : redirected[q] # "none"}

\* The state parameter tells the logins of the CLI from those of the dashboard.
Arrived(q, id) == [Fresh EXCEPT !.cli = redirected[q] = "cli", !.id = id]

CallbackGoogle(l) ==
    /\ At(l, "home") /\ Provider = "google"
    /\ \E q \in Sent, id \in Ids :
         login' = [login EXCEPT ![l] = Parsed(Arrived(q, id), {})]
    /\ Unstored /\ Fine /\ Outside

\* No mapping at all reads as one that maps nothing.
NoMapping == [roles |-> [r \in {} |-> {}], default |-> None, generic |-> FALSE]
RoleMap ==
    LET m == InForce(deployed.db, deployed.env) IN IF m = None THEN NoMapping ELSE m

\* Only this provider has a userinfo answer and an access token to map a role from.
CallbackGeneric(l) ==
    /\ At(l, "home") /\ Provider = "generic"
    /\ \E q \in Sent, id \in Ids, p \in Profiles :
         login' = [login EXCEPT ![l] =
                     Parsed([Arrived(q, id) EXCEPT
                               !.mapped = p.mapped,
                               !.claimed = SsoRole(p.info, p.token, RoleMap)],
                            SsoTeams(p.info, p.token, Mode # "open"))]
    /\ Unstored /\ Fine /\ Outside

\* The first app role that is one of the program's.
AppRole(roles) ==
    IF \A i \in DOMAIN roles : roles[i] = None THEN None
    ELSE roles[CHOOSE i \in DOMAIN roles :
                 roles[i] # None /\ \A j \in 1..(i - 1) : roles[j] = None]

\* mutant: groups the service principal has nothing to do with are kept
GraphTeamsUnfiltered(pages) ==
    UNION {pages[i] : i \in DOMAIN pages \cap 1..MaxPages}

\* The groups of the pages read before MAX_GRAPH_API_PAGES stops the loop,
\* those of the service principal only when it has any.
GraphTeams(pages) ==
    LET read == UNION {pages[i] : i \in DOMAIN pages \cap 1..MaxPages}
    IN  IF PrincipalTeams = {} THEN read ELSE read \cap PrincipalTeams

\* The groups are fixed here although the code reads them after the teams have
\* been made: nothing that happens in between changes what Graph answers.
CallbackMicrosoft(l) ==
    /\ At(l, "home") /\ Provider = "microsoft"
    /\ \E q \in Sent, id \in Ids, p \in Profiles :
         login' = [login EXCEPT ![l] =
            [Arrived(q, id) EXCEPT
               !.claimed = AppRole(p.appRoles),
               !.teams = GraphTeams(p.pages), !.making = PrincipalTeams,
               !.pc = IF PrincipalTeams = {} THEN "groups" ELSE "find_team"]]
    /\ Unstored /\ Fine /\ Outside

\* Without the groups of the service principal nothing else is asked of Graph.
PrincipalFails(l) ==
    /\ At(l, "find_team") /\ login[l].making = PrincipalTeams
    /\ login' = [login EXCEPT ![l] = Parsed([@ EXCEPT !.making = {}], {})]
    /\ Trouble(l)
    /\ Unstored /\ Outside

\* create_litellm_team_from_sso_group looks for the team and makes it one
\* database call later; TeamLeft goes on to the next team.
TeamLeft(r, t) ==
    [r EXCEPT !.making = @ \ {t}, !.missing = None,
              !.pc = IF r.making = {t} THEN "groups" ELSE "find_team"]

FindTeam(l) ==
    /\ At(l, "find_team")
    /\ \E t \in login[l].making :
         login' = [login EXCEPT ![l] = IF t \in team THEN TeamLeft(@, t)
                                       ELSE [@ EXCEPT !.missing = t, !.pc = "new_team"]]
    /\ Unstored /\ Fine /\ Outside

\* new_team answers with an error for a team that has been made meanwhile,
\* which is logged like any other of its errors.
NewTeam(l) ==
    /\ At(l, "new_team")
    /\ login' = [login EXCEPT ![l] = TeamLeft(@, @.missing)]
    /\ \/ team' = team \cup {login[l].missing} /\ Fine
       \/ UNCHANGED team /\ Trouble(l)
    /\ UNCHANGED <<row, cached, member>> /\ Outside

\* Any error while Graph is read leaves the person without groups.
ReadGroups(l) ==
    /\ At(l, "groups")
    /\ \/ login' = [login EXCEPT ![l] = Parsed(@, @.teams)] /\ Fine
       \/ login' = [login EXCEPT ![l] = Parsed(@, {})] /\ Trouble(l)
    /\ Unstored /\ Outside

-----------------------------------------------------------------------------
(* get_user_info_from_db: look the user up, update or insert the row, join *)
(* the teams.  Every error in here is logged and the login goes on.        *)

\* get_user_object: the row of this id, or else one with the same e-mail.
Found(id) ==
    IF id \in Rows THEN {id} ELSE {u \in Rows : Email[u] = Email[id]}

\* Any request may file a copy of the row it read in user_api_key_cache, and no
\* later write refreshes it (2586): a copy may show each role the row has held.
WriteRow(u, role) ==
    /\ row' = [row EXCEPT ![u] = role]
    /\ cached' = [cached EXCEPT ![u] = @ \cup {role}]

Unwritten == UNCHANGED <<row, cached>>

\* The row or a copy of it; an old copy lists fewer teams.
LookUpFinds(l) ==
    /\ At(l, "lookup")
    /\ \E u \in Found(login[l].id) : \E role \in cached[u] :
         \E known \in SUBSET {t \in login[l].teams : u \in member[t]} :
            login' = [login EXCEPT ![l] =
               [@ EXCEPT !.pc = "upsert", !.user = u, !.dbRole = role,
                         !.todo = login[l].teams \ known]]
    /\ Unstored /\ Fine /\ Outside

\* No row, or an error that is taken for no row.
LookUpMisses(l) ==
    /\ At(l, "lookup")
    /\ login' = [login EXCEPT ![l].pc = "upsert"]
    /\ IF Found(login[l].id) = {} THEN Fine ELSE Trouble(l)
    /\ Unstored /\ Outside

\* mutant: a role in the table is not replaced
StoredFirst(claimed, stored) == OrElse(stored, claimed)

\* _build_sso_user_update_data: a role from the provider replaces the stored one.
UpdatedRole(claimed, stored) == OrElse(claimed, stored)

\* upsert_sso_user with a row
Update(l) ==
    /\ At(l, "upsert") /\ login[l].user # None
    /\ login' = [login EXCEPT ![l].pc = "join"]
    /\ \/ /\ LET u == login[l].user
             IN  WriteRow(u, UpdatedRole(login[l].claimed, row[u]))
          /\ Fine
       \/ Unwritten /\ Trouble(l)
    /\ UnstoredTeams /\ Outside

\* mutant: the name of the enum member instead of its value
InsertedRoleName(role) ==
    OrElse(OrElse(role, DefaultUserRole), "INTERNAL_USER_VIEW_ONLY")

\* insert_sso_user
InsertedRole(role) == OrElse(OrElse(role, DefaultUserRole), "internal_user_viewer")

Insert(l) ==
    /\ At(l, "upsert") /\ login[l].user = None /\ ~login[l].cli
    /\ login[l].id \notin Rows
    /\ LET role == InsertedRole(login[l].role)
       IN  /\ WriteRow(login[l].id, role)
           /\ login' = [login EXCEPT ![l] =
                [@ EXCEPT !.pc = "join", !.user = login[l].id, !.dbRole = role,
                          !.role = role, !.todo = login[l].teams]]
    /\ Fine /\ UnstoredTeams /\ Outside

\* mutant: the teams are joined all the same
InsertFailsJoins(l) ==
    /\ At(l, "upsert") /\ login[l].user = None /\ ~login[l].cli
    /\ login' = [login EXCEPT ![l] =
         [@ EXCEPT !.pc = "join", !.user = login[l].id, !.todo = login[l].teams,
                   !.role = InsertedRole(@)]]
    /\ Unstored /\ Trouble(l) /\ Outside

\* The row has been inserted meanwhile, or the database fails.  The role of the
\* defaults stays in user_defined_values; no team is joined without a user.
InsertFails(l) ==
    /\ At(l, "upsert") /\ login[l].user = None /\ ~login[l].cli
    /\ login' = [login EXCEPT ![l] =
         [@ EXCEPT !.pc = "sync", !.role = InsertedRole(login[l].role)]]
    /\ Unstored /\ Trouble(l) /\ Outside

\* mutant: the session is handed out under the id of the provider
CliUnknownGoesOn(l) ==
    /\ At(l, "upsert") /\ login[l].user = None /\ login[l].cli
    /\ login' = [login EXCEPT ![l] = [@ EXCEPT !.pc = "done", !.user = login[l].id]]
    /\ Unstored /\ Fine /\ Outside

\* The callback of a CLI login passes no user_defined_values: whom the table
\* does not hold cannot be inserted, and the CLI gets no session.
CliUnknown(l) ==
    /\ At(l, "upsert") /\ login[l].user = None /\ login[l].cli
    /\ login' = [login EXCEPT ![l].pc = "failed"]
    /\ Unstored /\ Fine /\ Outside

\* create_team_member_add_task, gathered for all teams the user was not in;
\* a team that does not exist is an error like any other.
Join(l) ==
    /\ At(l, "join")
    /\ \E t \in login[l].todo :
         /\ login' = [login EXCEPT ![l].todo = @ \ {t}]
         /\ \/ t \in team /\ Fine
               /\ member' = [member EXCEPT ![t] = @ \cup {login[l].user}]
            \/ t \notin team /\ Fine /\ UNCHANGED member
            \/ t \in team /\ Trouble(l) /\ UNCHANGED member
    /\ UNCHANGED <<row, cached, team>> /\ Outside

Joined(l) ==
    /\ At(l, "join") /\ login[l].todo = {} /\ ~login[l].cli
    /\ login' = [login EXCEPT ![l].pc = "sync"]
    /\ Unstored /\ Fine /\ Outside

-----------------------------------------------------------------------------
(* What is handed out: the role of the CLI session, or of the dashboard.   *)

\* cli_sso_callback takes the role of the row as it was looked up.
HandCli(l) ==
    /\ At(l, "join") /\ login[l].todo = {} /\ login[l].cli
    /\ login' = [login EXCEPT ![l] = [@ EXCEPT !.pc = "done", !.role = login[l].dbRole]]
    /\ Unstored /\ Fine /\ Outside

\* apply_user_info_values_to_sso_user_defined_values
AppliedRole(r, role) ==
    OrElse(OrElse(role, IF r.user = None THEN None ELSE r.dbRole),
           "internal_user_viewer")

\* _sync_user_role_from_jwt_role_map asks whether the role read at the start
\* differs from the mapped one, then the role of the dashboard is settled.
Syncs(l) ==
    LET r == login[l]
    IN  r.mapped # None /\ r.user # None /\ r.dbRole # r.mapped

\* What the dashboard's login goes on with.
Settled(r) ==
    [r EXCEPT !.pc = "key", !.user = OrElse(r.user, r.id),
              !.role = AppliedRole(r, OrElse(r.mapped, r.role))]

KeepRole(l) ==
    /\ At(l, "sync") /\ ~Syncs(l)
    /\ login' = [login EXCEPT ![l] = Settled(@)]
    /\ Unstored /\ Fine /\ Outside

SyncRole(l) ==
    /\ At(l, "sync") /\ Syncs(l)
    /\ login' = [login EXCEPT ![l] = [@ EXCEPT !.pc = "cache", !.dbRole = login[l].mapped]]
    /\ WriteRow(login[l].user, login[l].mapped)
    /\ Fine /\ UnstoredTeams /\ Outside

\* async_set_cache of the user with the mapped role.
CacheUser(l) ==
    /\ At(l, "cache")
    /\ login' = [login EXCEPT ![l] = Settled(@)]
    /\ cached' = [cached EXCEPT ![login[l].user] = @ \cup {login[l].mapped}]
    /\ UNCHANGED row /\ Fine /\ UnstoredTeams /\ Outside

\* generate_key_helper_fn, check_and_update_if_proxy_admin_id, which updates the
\* row of the administrator if there is one, and the admin-only check.
HandKey(l) ==
    /\ At(l, "key")
    /\ LET r == login[l]
           promoted == r.user = AdminId /\ r.role # "proxy_admin"
           role == IF promoted THEN "proxy_admin" ELSE r.role
           barred == Mode = "admin_only" /\ role \notin {"proxy_admin", "proxy_admin_viewer"}
       IN  /\ login' = [login EXCEPT ![l] =
                [@ EXCEPT !.role = role, !.pc = IF barred THEN "barred" ELSE "done"]]
           /\ IF promoted /\ r.user \in Rows
              THEN WriteRow(r.user, "proxy_admin") ELSE Unwritten
    /\ Fine /\ UnstoredTeams /\ Outside

\* Outside get_user_info_from_db an error ends the login: of the database, of the
\* cache after the mapped role was written, or of the key.
Fails(l) ==
    /\ At(l, "cache") \/ At(l, "key") \/ (At(l, "sync") /\ Syncs(l))
    /\ login' = [login EXCEPT ![l].pc = "failed"]
    /\ Unstored /\ Fine /\ Outside

-----------------------------------------------------------------------------
Step(l) ==
    \/ CallbackGoogle(l) \/ CallbackGeneric(l) \/ CallbackMicrosoft(l)
    \/ PrincipalFails(l) \/ FindTeam(l) \/ NewTeam(l) \/ ReadGroups(l)
    \/ LookUpFinds(l) \/ LookUpMisses(l) \/ Update(l) \/ Insert(l)
    \/ InsertFails(l) \/ CliUnknown(l) \/ Join(l) \/ Joined(l) \/ HandCli(l)
    \/ KeepRole(l) \/ SyncRole(l) \/ CacheUser(l) \/ HandKey(l) \/ Fails(l)

Next ==
    \/ \E q \in Redirects : Begin(q)
    \/ \E l \in Logins : Step(l)

Spec == Init /\ [][Next]_vars

-----------------------------------------------------------------------------
(* Properties.                                                             *)

TypeOK ==
    /\ row \in [Ids -> Roles \cup {None, Absent}]
    /\ cached \in [Ids -> SUBSET (Roles \cup {None})]
    /\ team \in SUBSET Teams
    /\ member \in [Teams -> SUBSET Ids]
    /\ redirected \in [Redirects -> {"none", "page", "cli"}]
    /\ login \in [Logins -> LoginSet]
    /\ deployed \in Deployments
    /\ troubled \in SUBSET Logins

\* Whoever is handed a session or a key has a row in the user table: always for
\* the CLI, whose callback gives up on a user it could not look up, and for the
\* dashboard unless a logged failure kept the row from being inserted.
UserHasRow ==
    \A l \in Logins : At(l, "done") /\ (login[l].cli \/ l \notin troubled)
                       => login[l].user \in Rows

\* A login that logged no failure leaves its user in every team its provider
\* named, whichever logins made or joined the same teams meanwhile; the teams of
\* a service principal exist by then ("litellm will fetch groups under that
\* service principal and create Litellm Teams from them").
NoGroupLost ==
    \A l \in Logins \ troubled : login[l].pc \in {"barred", "done"} =>
        \A t \in login[l].teams :
            /\ t \in team => login[l].user \in member[t]
            /\ Provider = "microsoft" /\ PrincipalTeams # {} => t \in team

\* Nobody is counted twice or left behind: the members of a team that exists are
\* users with a row, and a team that does not exist has none.
MembersExist ==
    \A t \in Teams : member[t] \subseteq Rows /\ (t \notin team => member[t] = {})

\* The role a login asks the user table to hold: PROXY_ADMIN_ID is an
\* administrator once it has its dashboard, the CLI maps no role.
Wanted(l) ==
    LET r == login[l]
    IN  IF r.cli THEN r.claimed
        ELSE IF r.user = AdminId THEN "proxy_admin" ELSE OrElse(r.mapped, r.claimed)

Torn(l) == ~login[l].cli /\ login[l].claimed # None
           /\ login[l].mapped \notin {None, login[l].claimed}

Quiet == \A l \in Logins : login[l].pc \notin Working

\* An existing user's role is updated "with the SSO values", if the provider names
\* one ("SSO is the authoritative source for user roles"): when the logins of a
\* user, none of which met a failure, are over and one of them was named a role,
\* the row holds a role that one of them asked for and not one that was there
\* before, in whatever order their updates, synchronisations and promotions ran
\* and however old the copies they worked on.  A role that only the role map gives
\* promises nothing, since it is compared with such a copy; and left out are logins
\* whose provider names one role while the map names another: see RoleTakesEffect.
RoleSettles ==
    Quiet => \A u \in Ids :
        LET mine == {l \in Logins : login[l].user = u}
        IN  /\ \E l \in mine : login[l].claimed # None
            /\ \A l \in mine : l \notin troubled /\ ~At(l, "failed") /\ ~Torn(l)
            => row[u] \in {Wanted(l) : l \in mine} \ {None}

\* "This ensures SSO users get the same role mapping as API/JWT users" and
\* "Update existing DB record if role differs": the user of a dashboard that was
\* opened without a failure has the role of its key in the table.
RoleTakesEffect ==
    \A l \in Logins \ troubled :
        At(l, "done") /\ ~login[l].cli => row[login[l].user] = login[l].role

\* SSO is for "more than {limit} users" only with a licence: once there are too
\* many users nobody is redirected to the provider again, now or later, whatever
\* the callbacks of earlier redirects still bring in; those pass no gate, and may
\* add users for as long as the provider answers them.
Shut == ~Premium /\ FreeLimit > 0 /\ Cardinality(Rows) > FreeLimit
GateCloses == [][Shut => Shut' /\ redirected' = redirected]_vars

\* "Determine the highest privilege role for a user based on their groups": in
\* every deployment whose mapping is for this provider, the role of a person is at
\* least as strong as that of any mapped group in the userinfo answer, and is one
\* of them as soon as there is one, whatever the default, the role claims and the
\* access token say.  Stated of a proxy where nobody has logged in yet.
Untouched == \A l \in Logins : At(l, "home")
StrongestRole ==
    Untouched /\ RoleMap.generic =>
        \A info \in Bearers, token \in Bearers \cup {None} :
            LET granted == Granted(info.groups, RoleMap)
                role == SsoRole(info, token, RoleMap)
            IN  granted # {}
                => role \in granted /\ \A r \in granted : Rank(role) <= Rank(r)

\* A provider that leaves groups and role out of its userinfo answer but puts
\* them into the access token gets its people the same roles ("needed because
\* some SSO providers (e.g., Keycloak) do not include role claims in the
\* UserInfo endpoint response"), as long as no default role is configured.
SameRoleFromToken ==
    Untouched /\ RoleMap.generic /\ RoleMap.default = None =>
        \A claims \in Bearers :
            SsoRole(NoClaims, claims, RoleMap) = SsoRole(claims, None, RoleMap)

\* The user count an administrator is shown goes below zero exactly when the next
\* login is turned away.
ReportAgrees ==
    ~Premium /\ FreeLimit > 0
    => LET n == Cardinality(Rows) IN GateOpen(n) <=> UsersRemaining(n) >= 0

-----------------------------------------------------------------------------
(* The promise of UserDirectory.                                           *)

Directory == INSTANCE UserDirectory WITH
    admitted <- {login[l].id : l \in {k \in Logins :
        login[k].pc \in {"lookup", "upsert", "join", "sync", "cache", "key",
                         "failed", "barred", "done"}}}

\* Concurrent logins work on old copies of rows, lose races and fail halfway:
\* still each step lets one person of an allowed domain in, gives one such person
\* a row, a role or a team, makes a team, or leaves the tables as they are.
KeepsDirectory == Directory!Spec
=============================================================================
