------------------------------ MODULE RoleMapping ------------------------------
(***************************************************************************)
(* The role and the teams of a person who signs in at a generic identity   *)
(* provider (ui_sso.py): read from the userinfo answer by                  *)
(* generic_response_convertor, and from the claims of the access token by  *)
(* process_sso_jwt_access_token where the userinfo answer left them open.  *)
(*                                                                         *)
(* A role mapping m is [roles, default, generic]: the groups listed for a  *)
(* role, default_role, and whether its provider is "generic" or "okta".    *)
(* Claims are [groups, role, teams]; a role that is none of the program's  *)
(* (get_litellm_user_role gives None) is None.                             *)
(***************************************************************************)
EXTENDS Integers

CONSTANTS None, Groups, Teams

\* Highest privilege first.
Hierarchy == <<"proxy_admin", "proxy_admin_viewer", "internal_user",
               "internal_user_viewer">>

Roles == {"proxy_admin", "proxy_admin_viewer", "internal_user",
          "internal_user_viewer"}

Mapping == [roles: UNION {[dom -> SUBSET Groups] : dom \in SUBSET Roles},
            default: Roles \cup {None}, generic: BOOLEAN]

Claims == [groups: SUBSET Groups, role: Roles \cup {None}, teams: SUBSET Teams]

ASSUME RoleAssumption == None \notin Roles \cup Groups \cup Teams \cup Claims

NoClaims == [groups |-> {}, role |-> None, teams |-> {}]

\* _setup_role_mappings: a mapping in the environment, which is always a
\* generic one, replaces that of the database.
InForce(db, env) == IF env = None THEN db ELSE [env EXCEPT !.generic = TRUE]

-----------------------------------------------------------------------------
(* determine_role_from_groups                                              *)

\* Position i of the hierarchy is mapped to a group the person belongs to.
Matches(i, groups, m) ==
    /\ Hierarchy[i] \in DOMAIN m.roles
    /\ m.roles[Hierarchy[i]] \cap groups # {}

\* mutant: the hierarchy is walked from its weak end
LastMatch(i, groups, m) ==
    Matches(i, groups, m) /\ \A j \in (i + 1)..4 : ~Matches(j, groups, m)

FirstMatch(i, groups, m) ==
    Matches(i, groups, m) /\ \A j \in 1..(i - 1) : ~Matches(j, groups, m)

DetermineRole(groups, m) ==
    IF \E i \in 1..4 : Matches(i, groups, m)
    THEN Hierarchy[CHOOSE i \in 1..4 : FirstMatch(i, groups, m)]
    ELSE m.default

\* Without any group the default role is taken at once.
GroupRole(groups, m) ==
    IF groups = {} THEN m.default ELSE DetermineRole(groups, m)

OrElse(role, fallback) == IF role = None THEN fallback ELSE role

\* generic_response_convertor
ConvertorRole(info, m) ==
    IF m.generic THEN OrElse(GroupRole(info.groups, m), info.role) ELSE info.role

\* mutant: the role attribute of the access token is not looked at
TokenRoleGroupsOnly(token, m) ==
    IF DOMAIN m.roles = {} THEN None ELSE GroupRole(token.groups, m)

\* process_sso_jwt_access_token, which asks nobody for the mapping's provider.
TokenRole(token, m) ==
    OrElse(IF DOMAIN m.roles = {} THEN None ELSE GroupRole(token.groups, m),
           token.role)

\* token is None when there is no access token or it is opaque.
SsoRole(info, token, m) ==
    OrElse(ConvertorRole(info, m),
           IF token = None THEN None ELSE TokenRole(token, m))

\* The teams of the userinfo answer, or those of the access token when there
\* are none and an access mode is configured (sso_jwt_handler).
SsoTeams(info, token, moded) ==
    IF info.teams = {} /\ moded /\ token # None THEN token.teams ELSE info.teams

-----------------------------------------------------------------------------
(* What the properties of a mapping are stated with.                       *)

\* People and tokens with groups and a role.
Bearers == {c \in Claims : c.teams = {}}

Rank(role) == CHOOSE i \in 1..4 : Hierarchy[i] = role

Granted(groups, m) == {r \in DOMAIN m.roles : m.roles[r] \cap groups # {}}
=============================================================================
