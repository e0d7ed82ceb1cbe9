---------------------------- MODULE SsoUser_proofs ----------------------------
(* Theorems of SsoUser for any number of logins, users, teams and groups, for *)
(* every role mapping and every deployment.                                   *)
EXTENDS SsoUser, TLAPS, FiniteSetTheorems, WellFoundedInduction

-----------------------------------------------------------------------------
(* The role mapping.                                                       *)

\* A set of naturals that is not empty has a least element.
LEMMA Least ==
    ASSUME NEW S \in SUBSET Nat, S # {}
    PROVE  \E i \in S : \A j \in S : i <= j
<1> DEFINE R == OpToRel(<, Nat)
<1>1. PICK i \in S : \A j \in S : <<j, i>> \notin R
  <2>1. IsWellFoundedOn(R, Nat)
    BY NatLessThanWellFounded
  <2> HIDE DEF R
  <2> QED
    BY <2>1, WFMin
<1>2. \A j \in S : ~(j < i)
  BY <1>1, Zenon DEF OpToRel
<1> QED
  BY <1>2

LEMMA MappingGroups ==
    ASSUME NEW m \in Mapping
    PROVE  /\ DOMAIN m.roles \in SUBSET Roles
           /\ m.default \in Roles \cup {None}
           /\ m.generic \in BOOLEAN
           /\ \A r \in DOMAIN m.roles : m.roles[r] \in SUBSET Groups
<1>1. m.roles \in UNION {[dom -> SUBSET Groups] : dom \in SUBSET Roles}
  BY DEF Mapping
<1>2. PICK dom \in SUBSET Roles : m.roles \in [dom -> SUBSET Groups]
  BY <1>1
<1> QED
  BY <1>2 DEF Mapping

LEMMA HierarchyRoles ==
    /\ \A i \in 1..4 : Hierarchy[i] \in Roles
    /\ \A r \in Roles : \E i \in 1..4 : Hierarchy[i] = r
    /\ \A i, j \in 1..4 : Hierarchy[i] = Hierarchy[j] => i = j
BY DEF Hierarchy, Roles

LEMMA RankOf ==
    ASSUME NEW i \in 1..4
    PROVE  Rank(Hierarchy[i]) = i
BY HierarchyRoles DEF Rank

\* The first position that matches is the strongest role granted.
LEMMA FirstMatchIsStrongest ==
    ASSUME NEW m \in Mapping, NEW groups, \E i \in 1..4 : Matches(i, groups, m)
    PROVE  /\ DetermineRole(groups, m) \in Granted(groups, m)
           /\ \A r \in Granted(groups, m) : Rank(DetermineRole(groups, m)) <= Rank(r)
<1> DEFINE S == {i \in 1..4 : Matches(i, groups, m)}
           f == CHOOSE i \in 1..4 : FirstMatch(i, groups, m)
<1>1. \E i \in 1..4 : FirstMatch(i, groups, m)
  <2>1. S \in SUBSET Nat /\ S # {}
    OBVIOUS
  <2>2. PICK i \in S : \A j \in S : i <= j
    BY <2>1, Least
  <2>3. \A j \in 1..(i - 1) : j \in 1..4 /\ ~(i <= j)
    OBVIOUS
  <2>4. FirstMatch(i, groups, m)
    BY <2>2, <2>3 DEF FirstMatch
  <2> QED
    BY <2>4
<1>2. f \in 1..4 /\ FirstMatch(f, groups, m)
  BY <1>1
<1>3. DetermineRole(groups, m) = Hierarchy[f]
  BY DEF DetermineRole
<1> HIDE DEF f
<1>4. Hierarchy[f] \in Granted(groups, m)
  BY <1>2 DEF FirstMatch, Matches, Granted
<1>5. ASSUME NEW r \in Granted(groups, m) PROVE Rank(Hierarchy[f]) <= Rank(r)
  <2>1. PICK i \in 1..4 : Hierarchy[i] = r
    BY HierarchyRoles, MappingGroups DEF Granted
  <2>2. Matches(i, groups, m)
    BY <2>1 DEF Granted, Matches
  <2>3. ~(i \in 1..(f - 1))
    BY <1>2, <2>2 DEF FirstMatch
  <2> QED
    BY <1>2, <2>1, <2>3, RankOf
<1> QED
  BY <1>3, <1>4, <1>5

LEMMA GrantedMatches ==
    ASSUME NEW m \in Mapping, NEW groups, NEW r \in Granted(groups, m)
    PROVE  \E i \in 1..4 : Matches(i, groups, m)
<1>1. PICK i \in 1..4 : Hierarchy[i] = r
  BY HierarchyRoles, MappingGroups DEF Granted
<1> QED
  BY <1>1 DEF Granted, Matches

LEMMA DetermineType ==
    ASSUME NEW m \in Mapping, NEW groups
    PROVE  DetermineRole(groups, m) \in Roles \cup {None}
<1>1. CASE \E i \in 1..4 : Matches(i, groups, m)
  BY <1>1, FirstMatchIsStrongest, MappingGroups DEF Granted
<1>2. CASE ~\E i \in 1..4 : Matches(i, groups, m)
  BY <1>2, MappingGroups DEF DetermineRole
<1> QED
  BY <1>1, <1>2

LEMMA GroupRoleType ==
    ASSUME NEW m \in Mapping, NEW groups
    PROVE  GroupRole(groups, m) \in Roles \cup {None}
BY DetermineType, MappingGroups DEF GroupRole

LEMMA SsoRoleType ==
    ASSUME NEW info \in Claims, NEW token \in Claims \cup {None}, NEW m \in Mapping
    PROVE  SsoRole(info, token, m) \in Roles \cup {None}
<1>1. info.role \in Roles \cup {None}
  BY DEF Claims
<1>2. token # None => token.role \in Roles \cup {None}
  BY DEF Claims
<1>3. GroupRole(info.groups, m) \in Roles \cup {None}
  BY GroupRoleType
<1>4. GroupRole(token.groups, m) \in Roles \cup {None}
  BY GroupRoleType
<1>5. ConvertorRole(info, m) \in Roles \cup {None}
  BY <1>1, <1>3 DEF ConvertorRole, OrElse
<1>6. token # None => TokenRole(token, m) \in Roles \cup {None}
  BY <1>2, <1>4 DEF TokenRole, OrElse
<1> QED
  BY <1>5, <1>6 DEF SsoRole, OrElse

\* What StrongestRole says of one person.
LEMMA Strongest ==
    ASSUME NEW info \in Claims, NEW token, NEW m \in Mapping,
           m.generic, Granted(info.groups, m) # {}
    PROVE  /\ SsoRole(info, token, m) \in Granted(info.groups, m)
           /\ \A r \in Granted(info.groups, m) : Rank(SsoRole(info, token, m)) <= Rank(r)
<1>1. \E i \in 1..4 : Matches(i, info.groups, m)
  BY GrantedMatches
<1>2. info.groups # {}
  BY DEF Granted
<1>3. GroupRole(info.groups, m) = DetermineRole(info.groups, m)
  BY <1>2 DEF GroupRole
<1>4. DetermineRole(info.groups, m) \in Granted(info.groups, m)
  BY <1>1, FirstMatchIsStrongest
<1>5. DetermineRole(info.groups, m) # None
  BY <1>4, MappingGroups, RoleAssumption DEF Granted
<1>6. SsoRole(info, token, m) = DetermineRole(info.groups, m)
  BY <1>3, <1>5 DEF SsoRole, ConvertorRole, OrElse
<1> QED
  BY <1>1, <1>6, FirstMatchIsStrongest

\* What SameRoleFromToken says of one person.
LEMMA SameFromToken ==
    ASSUME NEW claims \in Claims, NEW m \in Mapping, m.generic, m.default = None
    PROVE  SsoRole(NoClaims, claims, m) = SsoRole(claims, None, m)
<1>1. claims # None
  BY RoleAssumption
<1>2. ConvertorRole(NoClaims, m) = None
  BY DEF ConvertorRole, GroupRole, NoClaims, OrElse
<1>3. SsoRole(NoClaims, claims, m) = TokenRole(claims, m)
  BY <1>1, <1>2 DEF SsoRole, OrElse
<1>4. SsoRole(claims, None, m) = OrElse(GroupRole(claims.groups, m), claims.role)
  BY DEF SsoRole, ConvertorRole, OrElse
<1>5. DOMAIN m.roles = {} => GroupRole(claims.groups, m) = None
  BY DEF GroupRole, DetermineRole, Matches
<1> QED
  BY <1>3, <1>4, <1>5 DEF TokenRole

-----------------------------------------------------------------------------
(* What the operators of a login return.                                   *)

LEMMA RoleMapType == TypeOK => RoleMap \in Mapping
<1> SUFFICES ASSUME TypeOK PROVE RoleMap \in Mapping
  OBVIOUS
<1>1. deployed.db \in Mapping \cup {None} /\ deployed.env \in Mapping \cup {None}
  BY UserAssumption DEF TypeOK, Deployment
<1>2. NoMapping \in Mapping
  <2>1. [r \in {} |-> {}] \in [{} -> SUBSET Groups]
    OBVIOUS
  <2>2. {} \in SUBSET Roles
    OBVIOUS
  <2>3. [r \in {} |-> {}] \in UNION {[dom -> SUBSET Groups] : dom \in SUBSET Roles}
    BY <2>1, <2>2
  <2> QED
    BY <2>3 DEF NoMapping, Mapping
<1>3. ASSUME NEW m \in Mapping PROVE [m EXCEPT !.generic = TRUE] \in Mapping
  BY DEF Mapping
<1> QED
  BY <1>1, <1>2, <1>3 DEF RoleMap, InForce

LEMMA ProfileTypes ==
    ASSUME NEW p \in Profiles
    PROVE  /\ p.info \in Claims /\ p.token \in Claims \cup {None}
           /\ p.mapped \in Roles \cup {None}
           /\ p.pages \in Seq(SUBSET Teams) /\ p.appRoles \in Seq(Roles \cup {None})
BY UserAssumption DEF ProfileSet

LEMMA SsoTeamsType ==
    ASSUME NEW info \in Claims, NEW token \in Claims \cup {None}, NEW moded
    PROVE  SsoTeams(info, token, moded) \in SUBSET Teams
BY DEF SsoTeams, Claims

LEMMA GraphTeamsType ==
    ASSUME NEW pages \in Seq(SUBSET Teams)
    PROVE  GraphTeams(pages) \in SUBSET Teams
<1>1. \A i \in DOMAIN pages : pages[i] \in SUBSET Teams
  OBVIOUS
<1>2. UNION {pages[i] : i \in DOMAIN pages \cap 1..MaxPages} \in SUBSET Teams
  BY <1>1
<1> QED
  BY <1>2 DEF GraphTeams

\* The role of a sequence of app roles is the first that is not None.
LEMMA AppRoleType ==
    ASSUME NEW roles \in Seq(Roles \cup {None})
    PROVE  AppRole(roles) \in Roles \cup {None}
<1>1. CASE \A i \in DOMAIN roles : roles[i] = None
  BY <1>1 DEF AppRole
<1>2. CASE ~\A i \in DOMAIN roles : roles[i] = None
  <2> DEFINE S == {i \in DOMAIN roles : roles[i] # None}
  <2>1. S \in SUBSET Nat /\ S # {}
    BY <1>2
  <2>2. PICK i \in S : \A j \in S : i <= j
    BY <2>1, Least
  <2>3. \A j \in 1..(i - 1) : roles[j] = None
    BY <2>2
  <2>4. \E k \in DOMAIN roles :
           roles[k] # None /\ \A j \in 1..(k - 1) : roles[j] = None
    BY <2>2, <2>3
  <2>5. AppRole(roles) = roles[CHOOSE k \in DOMAIN roles :
           roles[k] # None /\ \A j \in 1..(k - 1) : roles[j] = None]
    BY <1>2 DEF AppRole
  <2> QED
    BY <2>4, <2>5
<1> QED
  BY <1>1, <1>2

LEMMA RoleValues ==
    ASSUME NEW a \in Roles \cup {None}, NEW b \in Roles \cup {None}
    PROVE  /\ OrElse(a, b) \in Roles \cup {None}
           /\ UpdatedRole(a, b) \in Roles \cup {None}
           /\ InsertedRole(a) \in Roles
BY UserAssumption DEF OrElse, UpdatedRole, InsertedRole, Roles

LEMMA NoRole == None \notin Roles
BY RoleAssumption

-----------------------------------------------------------------------------
(* Types, and who has a row.                                               *)

\* What is known of one login: whom it is about from the callback on, and that
\* the user it goes on with has a row unless a failure was logged.
LoginInv(l) ==
    LET r == login[l]
    IN  /\ r.pc # "home" => r.id \in Ids
        /\ r.pc \in {"home", "find_team", "new_team", "groups", "lookup",
                    "refused"} => r.user = None
        /\ r.pc \in {"find_team", "new_team"}
             => Provider = "microsoft" /\ PrincipalTeams # {}
        /\ r.pc = "new_team" => r.missing \in r.making
        /\ r.pc \in {"join", "cache", "key", "barred", "done"} => r.user \in Ids
        /\ r.pc \in {"sync", "cache", "key", "barred"} => ~r.cli
        /\ r.pc = "sync" /\ r.user = None => l \in troubled
        /\ r.pc \in {"upsert", "join", "sync", "cache"} /\ r.user # None => r.user \in Rows
        /\ r.pc \in {"key", "barred", "done"} /\ (r.cli \/ l \notin troubled)
             => r.user \in Rows

UserInv == TypeOK /\ \A l \in Logins : LoginInv(l)

\* A step leaves the other logins alone.
LEMMA Frame ==
    ASSUME TypeOK, NEW l \in Logins, Step(l)
    PROVE  /\ deployed' = deployed /\ redirected' = redirected
           /\ \A k \in Logins \ {l} : login'[k] = login[k]
           /\ \A k \in Logins \ {l} : k \in troubled' <=> k \in troubled
           /\ l \in troubled => l \in troubled'
           /\ troubled' \in SUBSET Logins
           /\ Provider' = Provider /\ Mode' = Mode
BY DEF TypeOK, Step, CallbackGoogle, CallbackGeneric, CallbackMicrosoft,
       PrincipalFails, FindTeam, NewTeam, ReadGroups, LookUpFinds, LookUpMisses,
       Update, Insert, InsertFails, CliUnknown, Join, Joined, HandCli, KeepRole,
       SyncRole, CacheUser, HandKey, Fails, Fine, Trouble, Outside, Provider, Mode

\* Writing a role to a row keeps the table and the copies well typed.
LEMMA WriteType ==
    ASSUME TypeOK, NEW u \in Ids, NEW role \in Roles \cup {None}, WriteRow(u, role)
    PROVE  /\ row' \in [Ids -> Roles \cup {None, Absent}]
           /\ cached' \in [Ids -> SUBSET (Roles \cup {None})]
           /\ Rows' = Rows \cup {u}
<1>1. Absent # role
  BY UserAssumption
<1>2. row' \in [Ids -> Roles \cup {None, Absent}]
  BY DEF TypeOK, WriteRow
<1>3. cached' \in [Ids -> SUBSET (Roles \cup {None})]
  BY DEF TypeOK, WriteRow
<1>4. row'[u] = role /\ \A v \in Ids \ {u} : row'[v] = row[v]
  BY DEF TypeOK, WriteRow
<1> QED
  BY <1>1, <1>2, <1>3, <1>4 DEF Rows

\* A step changes the role of one user at most, and rows are never deleted.
LEMMA RowStep ==
    ASSUME TypeOK, NEW l \in Logins, LoginInv(l), Step(l)
    PROVE  /\ row' \in [Ids -> Roles \cup {None, Absent}]
           /\ cached' \in [Ids -> SUBSET (Roles \cup {None})]
           /\ Rows \subseteq Rows'
<1> DEFINE r == login[l]
<1>a. /\ r.user \in Ids \cup {None} /\ r.claimed \in Roles \cup {None}
      /\ r.mapped \in Roles \cup {None} /\ r.role \in Roles \cup {None}
  BY DEF TypeOK, LoginSet
<1>b. r.user # None => r.user \in Ids
  BY <1>a
<1>1. CASE Unwritten
  BY <1>1 DEF TypeOK, Unwritten, Rows
<1>2. CASE Update(l)
  <2>1. r.user \in Rows /\ r.user \in Ids
    BY <1>2, <1>b DEF Update, LoginInv, At
  <2>2. row[r.user] \in Roles \cup {None}
    BY <2>1 DEF Rows, TypeOK
  <2>3. UpdatedRole(r.claimed, row[r.user]) \in Roles \cup {None}
    BY <1>a, <2>2, RoleValues
  <2>4. Unwritten \/ WriteRow(r.user, UpdatedRole(r.claimed, row[r.user]))
    BY <1>2 DEF Update
  <2> QED
    BY <1>1, <2>1, <2>3, <2>4, WriteType
<1>3. CASE Insert(l)
  <2>1. r.id \in Ids
    BY <1>3 DEF Insert, LoginInv, At
  <2>2. InsertedRole(r.role) \in Roles
    BY <1>a, RoleValues
  <2>3. WriteRow(r.id, InsertedRole(r.role))
    BY <1>3 DEF Insert
  <2> QED
    BY <2>1, <2>2, <2>3, WriteType
<1>4. CASE SyncRole(l)
  <2>1. r.user \in Ids /\ WriteRow(r.user, r.mapped)
    BY <1>4, <1>b DEF SyncRole, Syncs
  <2> QED
    BY <1>a, <2>1, WriteType
<1>5. CASE CacheUser(l)
  <2>1. row' = row /\ cached' = [cached EXCEPT ![r.user] = @ \cup {r.mapped}]
    BY <1>5 DEF CacheUser
  <2> QED
    BY <1>a, <2>1 DEF TypeOK, Rows
<1>6. CASE HandKey(l)
  <2>1. r.user \in Ids /\ "proxy_admin" \in Roles
    BY <1>6 DEF HandKey, LoginInv, At, Roles
  <2>2. Unwritten \/ WriteRow(r.user, "proxy_admin")
    BY <1>6 DEF HandKey
  <2> QED
    BY <1>1, <2>1, <2>2, WriteType
<1> QED
  BY <1>1, <1>2, <1>3, <1>4, <1>5, <1>6 DEF Step, CallbackGoogle,
     CallbackGeneric, CallbackMicrosoft, PrincipalFails, FindTeam, NewTeam,
     ReadGroups, LookUpFinds, LookUpMisses, InsertFails, CliUnknown, Join, Joined,
     HandCli, KeepRole, Fails, Unstored, Unwritten

\* Members of LoginSet, field by field.
LEMMA LoginFields ==
    ASSUME NEW r \in LoginSet
    PROVE  /\ r.cli \in BOOLEAN /\ r.id \in Ids \cup {None} /\ r.teams \in SUBSET Teams
           /\ r.claimed \in Roles \cup {None} /\ r.role \in Roles \cup {None}
           /\ r.mapped \in Roles \cup {None} /\ r.making \in SUBSET Teams
           /\ r.todo \in SUBSET Teams /\ r.user \in Ids \cup {None}
           /\ r.dbRole \in Roles \cup {None}
BY DEF LoginSet

LEMMA ParsedType ==
    ASSUME NEW r \in LoginSet, NEW teams \in SUBSET Teams
    PROVE  /\ Parsed(r, teams) \in LoginSet
           /\ Parsed(r, teams).pc \in {"refused", "lookup"}
           /\ Parsed(r, teams).id = r.id /\ Parsed(r, teams).user = r.user
<1>1. PICK pc \in {"refused", "lookup"} :
        Parsed(r, teams) = [r EXCEPT !.teams = teams, !.role = r.claimed, !.pc = pc]
  BY DEF Parsed
<1> QED
  BY <1>1, ZenonT(60) DEF LoginSet, Working, Ended

LEMMA ArrivedType ==
    ASSUME NEW q, NEW id \in Ids
    PROVE  /\ Arrived(q, id) \in LoginSet
           /\ Arrived(q, id).id = id /\ Arrived(q, id).user = None
<1>1. PICK cli \in BOOLEAN : Arrived(q, id) = [Fresh EXCEPT !.cli = cli, !.id = id]
  BY DEF Arrived
<1> QED
  BY <1>1 DEF LoginSet, Fresh

\* What the callbacks of Google and of a generic provider go on with.
LEMMA CallbackForm ==
    ASSUME TypeOK, NEW l \in Logins, CallbackGoogle(l) \/ CallbackGeneric(l)
    PROVE  \E b \in LoginSet, teams \in SUBSET Teams :
             login'[l] = Parsed(b, teams) /\ b.id \in Ids /\ b.user = None
<1>a. l \in DOMAIN login
  BY DEF TypeOK
<1>1. CASE CallbackGoogle(l)
  <2>1. PICK q \in Sent, id \in Ids : login'[l] = Parsed(Arrived(q, id), {})
    BY <1>a, <1>1 DEF CallbackGoogle
  <2>2. {} \in SUBSET Teams
    OBVIOUS
  <2> QED
    BY <2>1, <2>2, ArrivedType
<1>2. CASE CallbackGeneric(l)
  <2>1. PICK q \in Sent, id \in Ids, p \in Profiles :
          login'[l] = Parsed([Arrived(q, id) EXCEPT
                                !.mapped = p.mapped,
                                !.claimed = SsoRole(p.info, p.token, RoleMap)],
                             SsoTeams(p.info, p.token, Mode # "open"))
    BY <1>a, <1>2 DEF CallbackGeneric
  <2>2. SsoRole(p.info, p.token, RoleMap) \in Roles \cup {None}
    BY ProfileTypes, RoleMapType, SsoRoleType
  <2>3. SsoTeams(p.info, p.token, Mode # "open") \in SUBSET Teams
    BY ProfileTypes, SsoTeamsType
  <2>4. p.mapped \in Roles \cup {None}
    BY ProfileTypes
  <2>5. PICK c \in Roles \cup {None}, m \in Roles \cup {None}, teams \in SUBSET Teams :
          login'[l] = Parsed([Arrived(q, id) EXCEPT !.mapped = m, !.claimed = c], teams)
    BY <2>1, <2>2, <2>3, <2>4
  <2> DEFINE a == Arrived(q, id)
             b == [a EXCEPT !.mapped = m, !.claimed = c]
  <2>6. a \in LoginSet /\ a.id = id /\ a.user = None
    BY ArrivedType
  <2>7. login'[l] = Parsed(b, teams)
    BY <2>5
  <2> HIDE DEF a
  <2>8. b \in LoginSet /\ b.id = id /\ b.user = None
    BY <2>6, ZenonT(60) DEF LoginSet
  <2> QED
    BY <2>7, <2>8
<1> QED
  BY <1>1, <1>2

\* What the callback of Microsoft goes on with.
LEMMA MicrosoftForm ==
    ASSUME TypeOK, NEW l \in Logins, CallbackMicrosoft(l)
    PROVE  LET s == login'[l]
           IN  /\ s \in LoginSet /\ s.id \in Ids /\ s.user = None
               /\ s.making = PrincipalTeams
               /\ s.pc = IF PrincipalTeams = {} THEN "groups" ELSE "find_team"
               /\ \E p \in Profiles : s.teams = GraphTeams(p.pages)
<1> DEFINE s == login'[l]
<1>a. l \in DOMAIN login
  BY DEF TypeOK
<1>1. PICK q \in Sent, id \in Ids, p \in Profiles :
        s = [Arrived(q, id) EXCEPT
               !.claimed = AppRole(p.appRoles),
               !.teams = GraphTeams(p.pages), !.making = PrincipalTeams,
               !.pc = IF PrincipalTeams = {} THEN "groups" ELSE "find_team"]
  BY <1>a DEF CallbackMicrosoft
<1>2. /\ AppRole(p.appRoles) \in Roles \cup {None} /\ GraphTeams(p.pages) \in SUBSET Teams
      /\ PrincipalTeams \in SUBSET Teams
  BY ProfileTypes, AppRoleType, GraphTeamsType, UserAssumption
<1>3. PICK pc \in {"groups", "find_team"}, c \in Roles \cup {None},
           teams \in SUBSET Teams, making \in SUBSET Teams :
        /\ s = [Arrived(q, id) EXCEPT !.claimed = c, !.teams = teams,
                                      !.making = making, !.pc = pc]
        /\ pc = IF PrincipalTeams = {} THEN "groups" ELSE "find_team"
        /\ teams = GraphTeams(p.pages) /\ making = PrincipalTeams
  BY <1>1, <1>2
<1> DEFINE a == Arrived(q, id)
<1>4. a \in LoginSet /\ a.id = id /\ a.user = None
  BY ArrivedType
<1>5. s = [a EXCEPT !.claimed = c, !.teams = teams, !.making = making, !.pc = pc]
  BY <1>3
<1>6. pc \in {"home"} \cup Working \cup Ended
  BY DEF Working
<1> HIDE DEF a, s
<1>7. s \in LoginSet
  <2> DEFINE b == [a EXCEPT !.claimed = c, !.teams = teams]
  <2>1. b \in LoginSet
    BY <1>4, ZenonT(60) DEF LoginSet
  <2>2. s = [b EXCEPT !.making = making, !.pc = pc]
    BY <1>4, <1>5 DEF LoginSet
  <2> HIDE DEF b
  <2> QED
    BY <1>6, <2>1, <2>2, ZenonT(60) DEF LoginSet
<1>8. /\ s.pc = pc /\ s.id = id /\ s.user = None
      /\ s.making = making /\ s.teams = teams
  BY <1>4, <1>5, ZenonT(60) DEF LoginSet
<1>9. s.id \in Ids
  BY <1>8
<1> QED
  BY <1>3, <1>7, <1>8, <1>9 DEF s

\* What a login goes on with that has found its user.
LEMMA LookUpForm ==
    ASSUME TypeOK, NEW l \in Logins, LookUpFinds(l)
    PROVE  LET r == login[l]
               s == login'[l]
           IN  /\ s \in LoginSet /\ s.pc = "upsert" /\ s.user \in Rows /\ s.user \in Ids
               /\ s.user = r.id \/ Email[s.user] = Email[r.id]
               /\ s.id = r.id /\ s.teams = r.teams /\ s.claimed = r.claimed
               /\ s.role = r.role
               /\ \A t \in r.teams : t \in s.todo \/ s.user \in member[t]
<1> DEFINE r == login[l]
           s == login'[l]
<1>a. l \in DOMAIN login /\ r \in LoginSet
  BY DEF TypeOK
<1>1. PICK u \in Found(r.id) : \E role \in cached[u] :
        \E known \in SUBSET {t \in r.teams : u \in member[t]} :
          s = [r EXCEPT !.pc = "upsert", !.user = u, !.dbRole = role,
                        !.todo = r.teams \ known]
  BY <1>a DEF LookUpFinds
<1>2. u \in Rows /\ u \in Ids /\ (u = r.id \/ Email[u] = Email[r.id])
  BY DEF Found, Rows
<1>3. PICK role \in Roles \cup {None}, known \in SUBSET {t \in r.teams : u \in member[t]} :
        s = [r EXCEPT !.pc = "upsert", !.user = u, !.dbRole = role,
                      !.todo = r.teams \ known]
  BY <1>1, <1>2 DEF TypeOK
<1> DEFINE todo == r.teams \ known
<1>4. /\ todo \in SUBSET Teams
      /\ \A t \in r.teams : t \in todo \/ u \in member[t]
  BY <1>a, LoginFields
<1>5. s = [r EXCEPT !.pc = "upsert", !.user = u, !.dbRole = role, !.todo = todo]
  BY <1>3
<1>6. "upsert" \in {"home"} \cup Working \cup Ended /\ u \in Ids \cup {None}
  BY <1>2 DEF Working
<1> HIDE DEF todo, r, s
<1>7. /\ s \in LoginSet /\ s.pc = "upsert" /\ s.user = u /\ s.id = r.id
      /\ s.teams = r.teams /\ s.claimed = r.claimed /\ s.role = r.role /\ s.todo = todo
  BY <1>a, <1>4, <1>5, <1>6, ZenonT(60) DEF LoginSet
<1> QED
  BY <1>2, <1>4, <1>7 DEF r, s

\* What the dashboard's login goes on with.
LEMMA SettledType ==
    ASSUME NEW r \in LoginSet, r.id \in Ids
    PROVE  /\ Settled(r) \in LoginSet /\ Settled(r).pc = "key"
           /\ Settled(r).id = r.id /\ Settled(r).cli = r.cli
           /\ Settled(r).claimed = r.claimed /\ Settled(r).mapped = r.mapped
           /\ Settled(r).teams = r.teams
           /\ Settled(r).user = OrElse(r.user, r.id) /\ OrElse(r.user, r.id) \in Ids
           /\ Settled(r).role = AppliedRole(r, OrElse(r.mapped, r.role))
<1>1. AppliedRole(r, OrElse(r.mapped, r.role)) \in Roles \cup {None}
  BY LoginFields, RoleValues DEF AppliedRole, OrElse, Roles
<1>2. OrElse(r.user, r.id) \in Ids
  BY LoginFields DEF OrElse
<1>3. PICK role \in Roles \cup {None}, user \in Ids :
        /\ Settled(r) = [r EXCEPT !.pc = "key", !.user = user, !.role = role]
        /\ user = OrElse(r.user, r.id)
        /\ role = AppliedRole(r, OrElse(r.mapped, r.role))
  BY <1>1, <1>2 DEF Settled
<1>4. "key" \in {"home"} \cup Working \cup Ended
  BY DEF Working
<1> QED
  BY <1>3, <1>4, ZenonT(60) DEF LoginSet

LEMMA TeamLeftType ==
    ASSUME NEW r \in LoginSet, NEW t
    PROVE  LET s == TeamLeft(r, t)
           IN  /\ s \in LoginSet /\ s.pc \in {"groups", "find_team"}
               /\ s.id = r.id /\ s.user = r.user
<1>1. r.making \ {t} \in SUBSET Teams
  BY LoginFields
<1>2. PICK pc \in {"groups", "find_team"}, making \in SUBSET Teams :
        TeamLeft(r, t) = [r EXCEPT !.making = making, !.missing = None, !.pc = pc]
  BY <1>1 DEF TeamLeft
<1> QED
  BY <1>2, ZenonT(60) DEF LoginSet, Working, Ended

LEMMA LoginStep ==
    ASSUME TypeOK, NEW l \in Logins, LoginInv(l), Step(l)
    PROVE  login'[l] \in LoginSet /\ LoginInv(l)'
<1> DEFINE r == login[l]
           s == login'[l]
<1>a. r \in LoginSet /\ l \in DOMAIN login
  BY DEF TypeOK
<1>b. Provider' = Provider /\ Rows \subseteq Rows' /\ None \notin Ids
  BY Frame, RowStep, UserAssumption
<1> USE <1>a, <1>b DEF At, Working, Ended
<1>1. CASE CallbackGoogle(l) \/ CallbackGeneric(l)
  <2>1. PICK b \in LoginSet, teams \in SUBSET Teams :
          s = Parsed(b, teams) /\ b.id \in Ids /\ b.user = None
    BY <1>1, CallbackForm
  <2>2. s \in LoginSet /\ s.pc \in {"refused", "lookup"} /\ s.id \in Ids /\ s.user = None
    BY <2>1, ParsedType
  <2> QED
    BY <2>2 DEF LoginInv
<1>3. CASE CallbackMicrosoft(l)
  <2>1. /\ s \in LoginSet /\ s.id \in Ids /\ s.user = None
        /\ s.pc = IF PrincipalTeams = {} THEN "groups" ELSE "find_team"
    BY <1>3, MicrosoftForm
  <2>2. Provider = "microsoft"
    BY <1>3 DEF CallbackMicrosoft
  <2> QED
    BY <2>1, <2>2 DEF LoginInv
<1>4. CASE KeepRole(l)
  <2>1. r.id \in Ids /\ ~r.cli
    BY <1>4 DEF KeepRole, LoginInv
  <2>2. l \notin troubled => OrElse(r.user, r.id) \in Rows
    BY <1>4 DEF KeepRole, LoginInv, OrElse
  <2>3. s = Settled(r) /\ troubled' = troubled
    BY <1>4 DEF KeepRole, Fine
  <2> HIDE DEF r, s
  <2>4. s \in LoginSet /\ s.pc = "key" /\ s.id = r.id /\ s.cli = r.cli
        /\ s.user = OrElse(r.user, r.id) /\ s.user \in Ids
    BY <2>1, <2>3, SettledType
  <2> USE DEF r, s
  <2> QED
    BY <2>1, <2>2, <2>3, <2>4 DEF LoginInv
<1>5. CASE PrincipalFails(l)
  BY <1>5 DEF PrincipalFails, Parsed, LoginSet, LoginInv
<1>6. CASE FindTeam(l)
  <2>1. PICK t \in r.making : s = IF t \in team THEN TeamLeft(r, t)
                                 ELSE [r EXCEPT !.missing = t, !.pc = "new_team"]
    BY <1>6 DEF FindTeam
  <2>2. t \in Teams /\ r.id \in Ids /\ r.user = None
        /\ Provider = "microsoft" /\ PrincipalTeams # {}
    BY <1>6 DEF FindTeam, LoginInv, LoginSet
  <2>3. CASE s = TeamLeft(r, t)
    BY <2>2, <2>3, TeamLeftType DEF LoginInv
  <2>4. CASE s = [r EXCEPT !.missing = t, !.pc = "new_team"]
    <3>1. s \in LoginSet /\ s.pc = "new_team" /\ s.id = r.id /\ s.user = r.user
          /\ s.missing \in s.making
      BY <2>2, <2>4, ZenonT(60) DEF LoginSet
    <3> QED
      BY <2>2, <3>1 DEF LoginInv
  <2> QED
    BY <2>1, <2>3, <2>4
<1>7. CASE NewTeam(l)
  BY <1>7, ZenonT(60) DEF NewTeam, TeamLeft, LoginSet, LoginInv
<1>8. CASE ReadGroups(l)
  <2>1. r.id \in Ids /\ r.user = None /\ r.teams \in SUBSET Teams
    BY <1>8 DEF ReadGroups, LoginInv, LoginSet
  <2>2. PICK teams \in SUBSET Teams : s = Parsed(r, teams)
    BY <1>8, <2>1 DEF ReadGroups
  <2>3. s \in LoginSet /\ s.pc \in {"refused", "lookup"} /\ s.id = r.id /\ s.user = r.user
    BY <2>2, ParsedType
  <2> QED
    BY <2>1, <2>3 DEF LoginInv
<1>9. CASE LookUpFinds(l)
  <2>1. r.id \in Ids
    BY <1>9 DEF LookUpFinds, LoginInv
  <2>2. /\ s \in LoginSet /\ s.pc = "upsert" /\ s.id = r.id
        /\ s.user \in Rows /\ s.user \in Ids
    BY <1>9, LookUpForm
  <2> QED
    BY <2>1, <2>2 DEF LoginInv
<1>10. CASE LookUpMisses(l)
  BY <1>10 DEF LookUpMisses, LoginSet, LoginInv
<1>11. CASE Update(l)
  BY <1>11 DEF Update, LoginSet, LoginInv
<1>12. CASE Insert(l)
  <2>1. InsertedRole(r.role) \in Roles
    BY LoginFields, RoleValues
  <2>2. r.id \in Ids
    BY <1>12 DEF Insert, LoginInv
  <2>3. r.id \in Rows'
    BY <1>12, <2>1, <2>2, WriteType DEF Insert
  <2>4. PICK role \in Roles \cup {None} :
          s = [r EXCEPT !.pc = "join", !.user = r.id, !.dbRole = role,
                        !.role = role, !.todo = r.teams]
    BY <1>12, <2>1 DEF Insert
  <2>5. s \in LoginSet /\ s.pc = "join" /\ s.id = r.id /\ s.user = r.id
    <3>1. r.id \in Ids \cup {None}
      BY <2>2
    <3>2. [r EXCEPT !.pc = "join", !.user = r.id] \in LoginSet
      BY <3>1 DEF LoginSet
    <3>3. r.teams \in SUBSET Teams
      BY LoginFields
    <3>4. s \in LoginSet
      BY <2>4, <3>2, <3>3, ZenonT(60) DEF LoginSet
    <3> QED
      BY <2>4, <3>4 DEF LoginSet
  <2> QED
    BY <2>2, <2>3, <2>5 DEF LoginInv
<1>13. CASE InsertFails(l)
  <2>1. InsertedRole(r.role) \in Roles
    BY LoginFields, RoleValues
  <2>2. PICK role \in Roles \cup {None} : s = [r EXCEPT !.pc = "sync", !.role = role]
    BY <1>13, <2>1 DEF InsertFails
  <2>3. s \in LoginSet /\ s.pc = "sync" /\ s.id = r.id /\ s.cli = r.cli
        /\ s.user = r.user
    BY <2>2, ZenonT(60) DEF LoginSet
  <2>4. r.id \in Ids /\ ~r.cli /\ r.user = None /\ l \in troubled'
    BY <1>13 DEF InsertFails, Trouble, LoginInv
  <2> QED
    BY <2>3, <2>4 DEF LoginInv
<1>14. CASE CliUnknown(l)
  BY <1>14 DEF CliUnknown, LoginSet, LoginInv
<1>15. CASE Join(l)
  BY <1>15 DEF Join, LoginSet, LoginInv
<1>16. CASE Joined(l)
  BY <1>16 DEF Joined, LoginSet, LoginInv
<1>17. CASE HandCli(l)
  BY <1>17, Frame DEF HandCli, LoginSet, LoginInv
<1>18. CASE SyncRole(l)
  <2>1. s = [r EXCEPT !.pc = "cache", !.dbRole = r.mapped]
    BY <1>18 DEF SyncRole
  <2>2. r.mapped \in Roles \cup {None}
    BY LoginFields
  <2>3. s \in LoginSet /\ s.pc = "cache" /\ s.id = r.id /\ s.cli = r.cli
        /\ s.user = r.user
    BY <2>1, <2>2, ZenonT(60) DEF LoginSet
  <2>4. r.id \in Ids /\ ~r.cli /\ r.user \in Ids /\ r.user \in Rows
    BY <1>18, LoginFields DEF SyncRole, Syncs, LoginInv
  <2> QED
    BY <2>3, <2>4 DEF LoginInv
<1>21. CASE CacheUser(l)
  <2>1. r.id \in Ids /\ ~r.cli /\ r.user \in Ids /\ r.user \in Rows
    BY <1>21 DEF CacheUser, LoginInv
  <2>2. s = Settled(r)
    BY <1>21 DEF CacheUser
  <2> HIDE DEF r, s
  <2>3. s \in LoginSet /\ s.pc = "key" /\ s.id = r.id /\ s.cli = r.cli
        /\ s.user = OrElse(r.user, r.id)
    BY <2>1, <2>2, SettledType
  <2>4. s.user = r.user
    BY <2>1, <2>3 DEF OrElse
  <2> USE DEF r, s
  <2> QED
    BY <2>1, <2>3, <2>4 DEF LoginInv
<1>19. CASE HandKey(l)
  <2>1. PICK role \in Roles \cup {None}, pc \in {"barred", "done"} :
          s = [r EXCEPT !.role = role, !.pc = pc]
    BY <1>19, LoginFields DEF HandKey, Roles
  <2>2. s \in LoginSet /\ s.pc \in {"barred", "done"} /\ s.id = r.id
        /\ s.cli = r.cli /\ s.user = r.user
    BY <2>1, ZenonT(60) DEF LoginSet
  <2>3. r.pc = "key" /\ troubled' = troubled
    BY <1>19 DEF HandKey, Fine
  <2> QED
    BY <2>2, <2>3 DEF LoginInv
<1>20. CASE Fails(l)
  BY <1>20 DEF Fails, LoginSet, LoginInv
<1> QED
  BY <1>1, <1>3, <1>4, <1>5, <1>6, <1>7, <1>8, <1>9, <1>10, <1>11, <1>12,
     <1>13, <1>14, <1>15, <1>16, <1>17, <1>18, <1>19, <1>20, <1>21 DEF Step

\* Only FindTeam's successor makes teams and only Join adds members.
LEMMA TeamStep ==
    ASSUME UserInv, NEW l \in Logins, Step(l)
    PROVE  /\ team \subseteq team' /\ team' \in SUBSET Teams
           /\ member' \in [Teams -> SUBSET Ids]
           /\ \A t \in Teams : member[t] \subseteq member'[t]
<1> USE DEF UserInv, TypeOK, At
<1>1. CASE Unstored
  BY <1>1 DEF Unstored
<1>2. CASE UnstoredTeams
  BY <1>2 DEF UnstoredTeams
<1>3. CASE NewTeam(l)
  <2>1. login[l].missing \in Teams
    BY <1>3 DEF NewTeam, LoginInv, LoginSet
  <2> QED
    BY <1>3, <2>1 DEF NewTeam
<1>4. CASE Join(l)
  <2>1. login[l].user \in Ids
    BY <1>4 DEF Join, LoginInv
  <2> QED
    BY <1>4, <2>1 DEF Join
<1> QED
  BY <1>1, <1>2, <1>3, <1>4 DEF Step, CallbackGoogle, CallbackGeneric,
     CallbackMicrosoft, PrincipalFails, FindTeam, ReadGroups, LookUpFinds, LookUpMisses,
     Update, Insert, InsertFails, CliUnknown, Joined, HandCli, KeepRole, SyncRole,
     CacheUser, HandKey, Fails

\* A redirect touches neither the tables nor the logins.
LEMMA BeginFrame ==
    ASSUME TypeOK, NEW q \in Redirects, Begin(q)
    PROVE  /\ row' = row /\ cached' = cached /\ team' = team /\ member' = member
           /\ login' = login /\ deployed' = deployed /\ troubled' = troubled
           /\ redirected' \in [Redirects -> {"none", "page", "cli"}]
BY DEF Begin, Unstored, Fine, TypeOK

LEMMA UserStep ==
    ASSUME UserInv, [Next]_vars
    PROVE  UserInv'
<1>1. CASE UNCHANGED vars
  BY <1>1 DEF UserInv, TypeOK, LoginInv, Rows, Provider, vars
<1>2. ASSUME NEW q \in Redirects, Begin(q) PROVE UserInv'
  <2>1. TypeOK
    BY DEF UserInv
  <2> QED
    BY <1>2, <2>1, BeginFrame DEF UserInv, TypeOK, LoginInv, Rows, Provider
<1>3. ASSUME NEW l \in Logins, Step(l) PROVE UserInv'
  <2>1. TypeOK /\ \A k \in Logins : LoginInv(k)
    BY DEF UserInv
  <2>2. login'[l] \in LoginSet /\ LoginInv(l)'
    BY <1>3, <2>1, LoginStep
  <2>3. /\ row' \in [Ids -> Roles \cup {None, Absent}]
        /\ cached' \in [Ids -> SUBSET (Roles \cup {None})]
        /\ Rows \subseteq Rows'
    BY <1>3, <2>1, RowStep
  <2>4. \E g : login' = [login EXCEPT ![l] = g]
    BY <1>3 DEF Step, CallbackGoogle, CallbackGeneric,
       CallbackMicrosoft, PrincipalFails, FindTeam, NewTeam, ReadGroups,
       LookUpFinds, LookUpMisses, Update, Insert, InsertFails, CliUnknown, Join,
       Joined, HandCli, KeepRole, SyncRole, CacheUser, HandKey, Fails
  <2>5. login' \in [Logins -> LoginSet]
    BY <2>1, <2>2, <2>4 DEF TypeOK
  <2>6. team' \in SUBSET Teams /\ member' \in [Teams -> SUBSET Ids]
    BY <1>3, TeamStep
  <2>7. deployed' = deployed /\ redirected' = redirected /\ troubled' \in SUBSET Logins
    BY <1>3, <2>1, Frame
  <2>8. TypeOK'
    BY <2>1, <2>3, <2>5, <2>6, <2>7 DEF TypeOK
  <2>9. ASSUME NEW k \in Logins \ {l} PROVE LoginInv(k)'
    <3>1. login'[k] = login[k] /\ (k \in troubled' <=> k \in troubled) /\ Provider' = Provider
      BY <1>3, <2>1, Frame
    <3> QED
      BY <2>1, <2>3, <3>1 DEF LoginInv
  <2> QED
    BY <2>2, <2>8, <2>9 DEF UserInv
<1> QED
  BY <1>1, <1>2, <1>3 DEF Next

LEMMA UserInit == Init => UserInv
BY UserAssumption DEF Init, UserInv, TypeOK, LoginInv, LoginSet, Fresh, Working, Ended, Rows

LEMMA UserAlways == Spec => []UserInv
BY UserInit, UserStep, PTL DEF Spec

\* Every reachable state is well typed.
THEOREM TypeCorrect == Spec => []TypeOK
<1>1. UserInv => TypeOK
  BY DEF UserInv
<1> QED
  BY <1>1, UserAlways, PTL

\* UserHasRow holds of every number of logins: a CLI session or a dashboard key
\* goes to a user with a row, the dashboard's unless a failure was logged.
THEOREM HasRow == Spec => []UserHasRow
<1>1. UserInv => UserHasRow
  BY DEF UserInv, LoginInv, UserHasRow, At
<1> QED
  BY <1>1, UserAlways, PTL

-----------------------------------------------------------------------------
(* The role mapping of every deployment.                                   *)

\* StrongestRole holds of every mapping and everybody's claims.
THEOREM RoleIsStrongest == Spec => []StrongestRole
<1>1. TypeOK => StrongestRole
  BY RoleMapType, Strongest DEF StrongestRole, Bearers
<1> QED
  BY <1>1, TypeCorrect, PTL

\* SameRoleFromToken holds of every mapping without a default role.
THEOREM TokenGivesSameRole == Spec => []SameRoleFromToken
<1>1. TypeOK => SameRoleFromToken
  BY RoleMapType, SameFromToken DEF SameRoleFromToken, Bearers
<1> QED
  BY <1>1, TypeCorrect, PTL

-----------------------------------------------------------------------------
(* The gate.                                                               *)

LEMMA RowsCounted == TypeOK => Cardinality(Rows) \in Nat
BY UserAssumption, FS_Subset, FS_CardinalityType DEF Rows

LEMMA FreeLimitType == FreeLimit \in Nat
BY UserAssumption DEF FreeLimit

\* ReportAgrees holds of every limit and every number of users.
THEOREM CountAgrees == Spec => []ReportAgrees
<1>1. TypeOK => ReportAgrees
  BY RowsCounted, FreeLimitType DEF ReportAgrees, GateOpen, UsersRemaining, MaxUsers
<1> QED
  BY <1>1, TypeCorrect, PTL

\* GateCloses holds of every limit and every number of users: rows are never
\* deleted, so that the gate stays shut whatever the callbacks add, and a redirect
\* goes through the gate.
THEOREM GateStaysShut == Spec => GateCloses
<1>1. ASSUME UserInv, [Next]_vars, Shut PROVE Shut' /\ redirected' = redirected
  <2>1. TypeOK /\ \A k \in Logins : LoginInv(k)
    BY <1>1 DEF UserInv
  <2>2. UserInv' /\ TypeOK'
    BY <1>1, UserStep DEF UserInv
  <2>3. \A q \in Redirects : ~Begin(q)
    <3>1. ~GateOpen(Cardinality(Rows))
      BY <1>1, <2>1, RowsCounted, FreeLimitType DEF Shut, GateOpen
    <3> QED
      BY <3>1 DEF Begin
  <2>4. Rows \subseteq Rows' /\ redirected' = redirected
    <3>1. CASE UNCHANGED vars
      BY <3>1 DEF vars, Rows
    <3>2. ASSUME NEW l \in Logins, Step(l) PROVE Rows \subseteq Rows' /\ redirected' = redirected
      BY <2>1, <3>2, RowStep, Frame
    <3> QED
      BY <1>1, <2>3, <3>1, <3>2 DEF Next
  <2>5. IsFiniteSet(Rows')
    BY UserAssumption, FS_Subset DEF Rows
  <2>6. Cardinality(Rows) <= Cardinality(Rows')
    BY <2>4, <2>5, FS_Subset
  <2>7. Cardinality(Rows) \in Nat /\ Cardinality(Rows') \in Nat
    <3>1. IsFiniteSet(Rows)
      BY UserAssumption, FS_Subset DEF Rows
    <3> QED
      BY <2>5, <3>1, FS_CardinalityType
  <2> QED
    BY <1>1, <2>4, <2>6, <2>7, FreeLimitType DEF Shut
<1>2. UserInv /\ [Next]_vars => [Shut => Shut' /\ redirected' = redirected]_vars
  BY <1>1
<1> QED
  BY <1>2, UserAlways, PTL DEF Spec, GateCloses

-----------------------------------------------------------------------------
(* Teams and their members.                                                *)

\* A login joins teams only for a user that has a row.
LEMMA MemberStep ==
    ASSUME UserInv, MembersExist, [Next]_vars
    PROVE  MembersExist'
<1>1. CASE UNCHANGED vars
  BY <1>1 DEF MembersExist, Rows, vars
<1>2. CASE Next
  <2>1. CASE \E q \in Redirects : Begin(q)
    BY <2>1, BeginFrame DEF UserInv, MembersExist, Rows
  <2>2. ASSUME NEW l \in Logins, Step(l) PROVE MembersExist'
    <3>2. TypeOK /\ LoginInv(l)
      BY DEF UserInv
    <3>3. Rows \subseteq Rows' /\ team \subseteq team'
      BY <2>2, <3>2, RowStep, TeamStep
    <3>4. CASE member' = member
      BY <3>3, <3>4 DEF MembersExist
    <3>5. CASE Join(l)
      <4>1. login[l].user \in Rows
        <5>1. login[l].pc = "join" /\ login[l].user \in Ids
          BY <3>2, <3>5 DEF Join, At, LoginInv
        <5> QED
          BY <3>2, <5>1, UserAssumption DEF LoginInv
      <4>2. \/ member' = member
            \/ \E t \in team : member' = [member EXCEPT ![t] = @ \cup {login[l].user}]
        BY <3>5 DEF Join
      <4> QED
        BY <3>2, <3>3, <4>1, <4>2 DEF MembersExist, TypeOK
    <3> QED
      BY <2>2, <3>4, <3>5 DEF Step, CallbackGoogle, CallbackGeneric,
         CallbackMicrosoft, PrincipalFails, FindTeam, NewTeam, ReadGroups, LookUpFinds,
         LookUpMisses, Update, Insert, InsertFails, CliUnknown, Joined, HandCli,
         KeepRole, SyncRole, CacheUser, HandKey, Fails, Unstored, UnstoredTeams
  <2> QED
    BY <1>2, <2>1, <2>2 DEF Next
<1> QED
  BY <1>1, <1>2

\* MembersExist holds of every number of logins and teams.
THEOREM NoStrayMembers == Spec => []MembersExist
<1>1. Init => MembersExist
  BY DEF Init, MembersExist
<1> QED
  BY <1>1, UserAlways, MemberStep, PTL DEF Spec

Provisions == Provider = "microsoft" /\ PrincipalTeams # {}

\* What NoGroupLost needs on the way: of the teams the provider named each is
\* still to be provisioned or exists, and is still to be joined or joined.
TeamInv(l) ==
    LET r == login[l]
    IN  l \notin troubled =>
        /\ Provisions /\ r.pc \in {"find_team", "new_team"}
             => PrincipalTeams \subseteq team \cup r.making /\ r.teams \subseteq PrincipalTeams
        /\ Provisions /\ r.pc \in {"groups", "lookup", "upsert", "join", "sync",
                                  "cache", "key", "barred", "done"} => r.teams \subseteq team
        /\ r.pc \in {"upsert", "join"} /\ r.user # None
             => \A t \in r.teams : t \in team => t \in r.todo \/ r.user \in member[t]
        /\ r.pc \in {"sync", "cache", "key", "barred", "done"}
             => \A t \in r.teams : t \in team => r.user \in member[t]

TeamsInv == \A l \in Logins : TeamInv(l)

LEMMA GraphTeamsKept ==
    ASSUME NEW pages, PrincipalTeams # {}
    PROVE  GraphTeams(pages) \subseteq PrincipalTeams
BY DEF GraphTeams

\* Teams are made under a service principal only.
LEMMA TeamsFixed ==
    ASSUME UserInv, NEW l \in Logins, Step(l), ~Provisions
    PROVE  team' = team
BY DEF UserInv, LoginInv, Provisions, At, Step, CallbackGoogle, CallbackGeneric,
   CallbackMicrosoft, PrincipalFails, FindTeam, NewTeam, ReadGroups, LookUpFinds,
   LookUpMisses, Update, Insert, InsertFails, CliUnknown, Join, Joined, HandCli,
   KeepRole, SyncRole, CacheUser, HandKey, Fails, Unstored, UnstoredTeams

LEMMA TeamInvStep ==
    ASSUME UserInv, NEW l \in Logins, TeamInv(l), Step(l), l \notin troubled'
    PROVE  TeamInv(l)'
<1> DEFINE r == login[l]
           s == login'[l]
<1>a. r \in LoginSet /\ TypeOK /\ LoginInv(l) /\ l \in DOMAIN login
  BY DEF UserInv, TypeOK
<1>b. /\ Provider' = Provider /\ l \notin troubled
      /\ team \subseteq team' /\ \A t \in Teams : member[t] \subseteq member'[t]
      /\ s \in LoginSet
  BY <1>a, Frame, TeamStep, LoginStep
<1>c. Provisions' <=> Provisions
  BY <1>b DEF Provisions
<1>d. ~Provisions => team' = team
  BY TeamsFixed
<1>e. r.teams \in SUBSET Teams
  BY <1>a, LoginFields
<1> USE <1>a, <1>b, <1>c, <1>d DEF At
<1>2. CASE CallbackGoogle(l) \/ CallbackGeneric(l)
  <2>1. ~Provisions
    BY <1>2 DEF CallbackGoogle, CallbackGeneric, Provisions
  <2>2. PICK b \in LoginSet, teams \in SUBSET Teams : s = Parsed(b, teams)
    BY <1>2, CallbackForm
  <2>3. s.pc \in {"refused", "lookup"}
    BY <2>2, ParsedType
  <2> QED
    BY <2>1, <2>3 DEF TeamInv
<1>3. CASE CallbackMicrosoft(l)
  <2>1. /\ s.making = PrincipalTeams /\ \E p \in Profiles : s.teams = GraphTeams(p.pages)
        /\ s.pc = IF PrincipalTeams = {} THEN "groups" ELSE "find_team"
    BY <1>3, MicrosoftForm
  <2> QED
    BY <2>1, GraphTeamsKept DEF TeamInv, Provisions
<1>4. CASE PrincipalFails(l)
  BY <1>4 DEF PrincipalFails, Trouble
<1>5. CASE FindTeam(l)
  <2>1. PICK t \in r.making : s = IF t \in team THEN TeamLeft(r, t)
                                 ELSE [r EXCEPT !.missing = t, !.pc = "new_team"]
    BY <1>5 DEF FindTeam
  <2>2. Provisions /\ PrincipalTeams \subseteq team \cup r.making
        /\ r.teams \subseteq PrincipalTeams
    BY <1>5 DEF FindTeam, TeamInv, LoginInv, Provisions
  <2>3. CASE t \in team
    <3>1. /\ s.teams = r.teams /\ s.making = r.making \ {t}
          /\ s.pc = IF r.making = {t} THEN "groups" ELSE "find_team"
      BY <2>1, <2>3 DEF TeamLeft, LoginSet
    <3> QED
      BY <2>2, <2>3, <3>1 DEF TeamInv
  <2>4. CASE t \notin team
    <3>1. s.teams = r.teams /\ s.making = r.making /\ s.pc = "new_team"
      BY <2>1, <2>4 DEF LoginSet
    <3> QED
      BY <2>2, <3>1 DEF TeamInv
  <2> QED
    BY <2>3, <2>4
<1>6. CASE NewTeam(l)
  <2> DEFINE t == r.missing
  <2>1. s = TeamLeft(r, t) /\ t \in team'
    BY <1>6 DEF NewTeam, Trouble
  <2>2. Provisions /\ PrincipalTeams \subseteq team \cup r.making
        /\ r.teams \subseteq PrincipalTeams
    BY <1>6 DEF NewTeam, TeamInv, LoginInv, Provisions
  <2>3. /\ s.teams = r.teams /\ s.making = r.making \ {t}
        /\ s.pc = IF r.making = {t} THEN "groups" ELSE "find_team"
    BY <2>1 DEF TeamLeft, LoginSet
  <2> QED
    BY <2>1, <2>2, <2>3 DEF TeamInv
<1>7. CASE ReadGroups(l)
  <2>1. s = Parsed(r, r.teams)
    BY <1>7 DEF ReadGroups, Trouble
  <2>2. s.pc \in {"refused", "lookup"} /\ s.teams = r.teams /\ r.pc = "groups"
    BY <1>7, <2>1 DEF Parsed, LoginSet, ReadGroups
  <2> QED
    BY <2>2 DEF TeamInv
<1>8. CASE LookUpFinds(l)
  <2>1. /\ s.pc = "upsert" /\ s.teams = r.teams
        /\ \A t \in r.teams : t \in s.todo \/ s.user \in member[t]
    BY <1>8, LookUpForm
  <2>2. r.pc = "lookup" /\ team' = team /\ member' = member
    BY <1>8 DEF LookUpFinds, Unstored
  <2> QED
    BY <2>1, <2>2 DEF TeamInv
<1>9. CASE LookUpMisses(l)
  <2>1. s.pc = "upsert" /\ s.user = None /\ s.teams = r.teams /\ r.pc = "lookup"
    BY <1>9 DEF LookUpMisses, LoginSet, LoginInv
  <2> QED
    BY <2>1 DEF TeamInv
<1>10. CASE Update(l)
  <2>1. /\ s.pc = "join" /\ s.user = r.user /\ s.teams = r.teams /\ s.todo = r.todo
        /\ r.pc = "upsert" /\ r.user # None /\ team' = team /\ member' = member
    BY <1>10 DEF Update, LoginSet, UnstoredTeams
  <2> QED
    BY <2>1 DEF TeamInv
<1>11. CASE Insert(l)
  <2>1. /\ s.pc = "join" /\ s.teams = r.teams /\ s.todo = r.teams /\ r.pc = "upsert"
        /\ team' = team
    BY <1>11 DEF Insert, LoginSet, UnstoredTeams
  <2> QED
    BY <2>1 DEF TeamInv
<1>12. CASE InsertFails(l)
  BY <1>12 DEF InsertFails, Trouble
<1>13. CASE CliUnknown(l) \/ Fails(l)
  <2>1. s.pc = "failed"
    BY <1>13 DEF CliUnknown, Fails, LoginSet
  <2> QED
    BY <2>1 DEF TeamInv
<1>14. CASE Join(l)
  <2>1. PICK t \in r.todo :
          /\ s = [r EXCEPT !.todo = @ \ {t}]
          /\ \/ t \in team /\ member' = [member EXCEPT ![t] = @ \cup {r.user}]
             \/ t \notin team
    BY <1>14 DEF Join, Trouble
  <2>2. /\ s.pc = "join" /\ r.pc = "join" /\ s.user = r.user /\ s.teams = r.teams
        /\ s.todo = r.todo \ {t} /\ team' = team
    BY <1>14, <2>1 DEF Join, LoginSet
  <2>3. r.user \in Ids /\ r.user # None
    BY <2>2, UserAssumption DEF LoginInv
  <2>4. t \in team => r.user \in member'[t]
    BY <2>1 DEF TypeOK
  <2>5. \A x \in r.teams : x \in team => x \in s.todo \/ r.user \in member'[x]
    BY <1>e, <2>2, <2>3, <2>4 DEF TeamInv
  <2> QED
    BY <2>2, <2>5 DEF TeamInv
<1>15. CASE Joined(l) \/ HandCli(l)
  <2>1. /\ s.pc \in {"sync", "done"} /\ r.pc = "join" /\ s.user = r.user
        /\ s.teams = r.teams /\ r.todo = {} /\ team' = team /\ member' = member
    <3>1. CASE Joined(l)
      BY <3>1 DEF Joined, LoginSet, Unstored
    <3>2. CASE HandCli(l)
      <4>1. s = [r EXCEPT !.pc = "done", !.role = r.dbRole]
        BY <3>2 DEF HandCli
      <4> QED
        BY <3>2, <4>1 DEF HandCli, LoginSet, Unstored
    <3> QED
      BY <1>15, <3>1, <3>2
  <2>2. r.user # None
    BY <2>1, UserAssumption DEF LoginInv
  <2> QED
    BY <2>1, <2>2 DEF TeamInv
<1>16. CASE KeepRole(l) \/ CacheUser(l)
  <2>1. r.pc \in {"sync", "cache"} /\ r.user # None /\ r.id \in Ids
        /\ team' = team /\ member' = member
    BY <1>16, UserAssumption DEF KeepRole, CacheUser, LoginInv, Unstored, UnstoredTeams
  <2>2. s = Settled(r)
    BY <1>16 DEF KeepRole, CacheUser
  <2> HIDE DEF r, s
  <2>3. s.pc = "key" /\ s.user = r.user /\ s.teams = r.teams
    <3>1. r \in LoginSet
      BY DEF r
    <3> QED
      BY <2>1, <2>2, <3>1, SettledType DEF OrElse
  <2> USE DEF r, s
  <2> QED
    BY <2>1, <2>3 DEF TeamInv
<1>18. CASE SyncRole(l)
  <2>1. /\ s.pc = "cache" /\ r.pc = "sync" /\ s.user = r.user /\ s.teams = r.teams
        /\ team' = team /\ member' = member
    BY <1>18 DEF SyncRole, LoginSet, UnstoredTeams
  <2> QED
    BY <2>1 DEF TeamInv
<1>17. CASE HandKey(l)
  <2>1. /\ s.pc \in {"barred", "done"} /\ r.pc = "key" /\ s.user = r.user
        /\ s.teams = r.teams /\ team' = team /\ member' = member
    BY <1>17 DEF HandKey, LoginSet, UnstoredTeams
  <2> QED
    BY <2>1 DEF TeamInv
<1> QED
  BY <1>2, <1>3, <1>4, <1>5, <1>6, <1>7, <1>8, <1>9, <1>10, <1>11, <1>12,
     <1>13, <1>14, <1>15, <1>16, <1>17, <1>18 DEF Step

LEMMA TeamsInvStep ==
    ASSUME UserInv, TeamsInv, [Next]_vars
    PROVE  TeamsInv'
<1>1. CASE UNCHANGED vars
  BY <1>1 DEF TeamsInv, TeamInv, Provisions, Provider, vars
<1>3. ASSUME NEW q \in Redirects, Begin(q) PROVE TeamsInv'
  BY <1>3, BeginFrame DEF UserInv, TeamsInv, TeamInv, Provisions, Provider
<1>2. ASSUME NEW l \in Logins, Step(l) PROVE TeamsInv'
  <2>1. Step(l)
    BY <1>2
  <2>2. TeamInv(l)'
    <3>1. CASE l \in troubled'
      BY <3>1 DEF TeamInv
    <3>2. CASE l \notin troubled'
      BY <2>1, <3>2, TeamInvStep DEF TeamsInv
    <3> QED
      BY <3>1, <3>2
  <2>3. ASSUME NEW k \in Logins \ {l} PROVE TeamInv(k)'
    <3>1. /\ login'[k] = login[k] /\ (k \in troubled' <=> k \in troubled)
          /\ (Provisions' <=> Provisions)
      BY <2>1, Frame DEF UserInv, Provisions
    <3>2. /\ team \subseteq team' /\ \A t \in Teams : member[t] \subseteq member'[t]
          /\ ~Provisions => team' = team
      BY <2>1, TeamStep, TeamsFixed
    <3>3. login[k].teams \in SUBSET Teams
      BY LoginFields DEF UserInv, TypeOK
    <3>4. TeamInv(k)
      BY DEF TeamsInv
    <3> QED
      BY <3>1, <3>2, <3>3, <3>4 DEF TeamInv
  <2> QED
    BY <2>2, <2>3 DEF TeamsInv
<1> QED
  BY <1>1, <1>2, <1>3 DEF Next

\* NoGroupLost holds of every number of logins, teams and groups.
THEOREM GroupsKept == Spec => []NoGroupLost
<1>1. Init => TeamsInv
  BY DEF Init, TeamsInv, TeamInv, Fresh
<1>2. TeamsInv => NoGroupLost
  BY DEF TeamsInv, TeamInv, NoGroupLost, Provisions
<1> QED
  BY <1>1, <1>2, UserAlways, TeamsInvStep, PTL DEF Spec

-----------------------------------------------------------------------------
(* The role in the user table.                                             *)

Asked(l) == OrElse(login[l].mapped, login[l].claimed)

Mine(u) == {l \in Logins : login[l].user = u}

\* Nothing went wrong with the logins of u, and no provider named two roles.
Clean(u) == \A l \in Mine(u) : l \notin troubled /\ ~At(l, "failed") /\ ~Torn(l)

\* The role a login carries is the one its provider asked for, if it did.
RoleInv(l) ==
    LET r == login[l]
    IN  /\ r.pc \in {"lookup", "upsert"} => r.role = r.claimed
        /\ r.pc \in {"join", "sync", "cache"} /\ r.claimed # None => r.role = r.claimed
        /\ r.pc = "key" /\ ~Torn(l) /\ Asked(l) # None => r.role = Asked(l)

\* A login of u whose role the row holds, or the administrator's until its
\* dashboard opens.
Moved(l, u) ==
    /\ row[u] # None
    /\ \/ row[u] = Wanted(l)
       \/ /\ u = AdminId /\ ~login[l].cli
          /\ login[l].pc \in {"join", "sync", "cache", "key"} /\ row[u] = Asked(l)

\* A login of u whose provider named a role has written it.
Written(u) == \E l \in Mine(u) : login[l].claimed # None /\ login[l].pc # "upsert"

SettleInv ==
    /\ \A l \in Logins : RoleInv(l)
    /\ \A u \in Ids : Clean(u) /\ Written(u) => \E l \in Mine(u) : Moved(l, u)

\* A login that has its user keeps it, and what its provider said.
LEMMA UserKept ==
    ASSUME UserInv, NEW l \in Logins, Step(l), login[l].user # None
    PROVE  /\ login'[l].user = login[l].user /\ login'[l].cli = login[l].cli
           /\ login'[l].claimed = login[l].claimed /\ login'[l].mapped = login[l].mapped
           /\ Wanted(l)' = Wanted(l) /\ Asked(l)' = Asked(l) /\ (Torn(l)' <=> Torn(l))
           /\ Update(l) \/ Join(l) \/ Joined(l) \/ HandCli(l) \/ KeepRole(l)
              \/ SyncRole(l) \/ CacheUser(l) \/ HandKey(l) \/ Fails(l)
<1>1. login[l] \in LoginSet /\ l \in DOMAIN login /\ LoginInv(l)
  BY DEF UserInv, TypeOK
<1>2. login[l].pc \notin {"home", "find_team", "new_team", "groups", "lookup"}
  BY <1>1 DEF LoginInv
<1>3. Update(l) \/ Join(l) \/ Joined(l) \/ HandCli(l) \/ KeepRole(l) \/ SyncRole(l)
      \/ CacheUser(l) \/ HandKey(l) \/ Fails(l)
  BY <1>2 DEF At, Step, CallbackGoogle, CallbackGeneric, CallbackMicrosoft,
     PrincipalFails, FindTeam, NewTeam, ReadGroups, LookUpFinds, LookUpMisses, Insert,
     InsertFails, CliUnknown
<1>4. /\ login'[l].user = login[l].user /\ login'[l].cli = login[l].cli
      /\ login'[l].claimed = login[l].claimed /\ login'[l].mapped = login[l].mapped
  <2>1. CASE Update(l) \/ Joined(l) \/ Fails(l)
    BY <1>1, <2>1 DEF Update, Joined, Fails, LoginSet
  <2>2. CASE Join(l)
    BY <1>1, <2>2 DEF Join, LoginSet
  <2>3. CASE HandCli(l)
    BY <1>1, <2>3 DEF HandCli, LoginSet
  <2>4. CASE SyncRole(l)
    BY <1>1, <2>4 DEF SyncRole, LoginSet
  <2>5. CASE HandKey(l)
    BY <1>1, <2>5 DEF HandKey, LoginSet
  <2>6. CASE KeepRole(l) \/ CacheUser(l)
    <3>1. login'[l] = Settled(login[l]) /\ login[l].id \in Ids
      BY <1>1, <2>6 DEF KeepRole, CacheUser, LoginInv, At
    <3> QED
      BY <1>1, <3>1, SettledType DEF OrElse
  <2> QED
    BY <1>3, <2>1, <2>2, <2>3, <2>4, <2>5, <2>6
<1> QED
  BY <1>3, <1>4 DEF Wanted, Asked, Torn

\* Only the logins of a user write its row.
LEMMA RowOfOther ==
    ASSUME UserInv, NEW l \in Logins, Step(l), NEW u \in Ids, login'[l].user # u
    PROVE  row'[u] = row[u]
<1>1. /\ login[l] \in LoginSet /\ l \in DOMAIN login /\ LoginInv(l)
      /\ row \in [Ids -> Roles \cup {None, Absent}] /\ None \notin Ids
  BY UserAssumption DEF UserInv, TypeOK
<1>2. CASE row' = row
  BY <1>2
<1>3. CASE Insert(l)
  <2>1. login'[l].user = login[l].id
    BY <1>1, <1>3 DEF Insert, LoginSet
  <2> QED
    BY <1>1, <1>3, <2>1 DEF Insert, WriteRow
<1>4. CASE Update(l) \/ SyncRole(l) \/ HandKey(l)
  <2>1. login[l].user # None
    BY <1>1, <1>4 DEF Update, SyncRole, Syncs, HandKey, LoginInv, At
  <2>2. row' = row \/ \E x : row' = [row EXCEPT ![login[l].user] = x]
    BY <1>4, Zenon DEF Update, SyncRole, HandKey, Unwritten, WriteRow
  <2>3. login'[l].user = login[l].user
    BY <2>1, UserKept
  <2> QED
    BY <1>1, <2>2, <2>3
<1> QED
  BY <1>2, <1>3, <1>4 DEF Step, CallbackGoogle, CallbackGeneric,
     CallbackMicrosoft, PrincipalFails, FindTeam, NewTeam, ReadGroups, LookUpFinds,
     LookUpMisses, InsertFails, CliUnknown, Join, Joined, HandCli, KeepRole, CacheUser,
     Fails, Unstored

\* Up to the first look at the user table a login has no user.
LEMMA EarlyStep ==
    ASSUME UserInv, NEW l \in Logins, Step(l),
           login[l].pc \in {"home", "find_team", "new_team", "groups"}
    PROVE  LET s == login'[l]
           IN  /\ s.pc \in {"find_team", "new_team", "groups", "lookup", "refused"}
               /\ s.pc \in {"refused", "lookup"} => s.role = s.claimed
               /\ s.user = None
<1> DEFINE r == login[l]
           s == login'[l]
<1>a. r \in LoginSet /\ l \in DOMAIN login /\ LoginInv(l)' /\ TypeOK
  BY LoginStep DEF UserInv, TypeOK
<1> DEFINE Goal == /\ s.pc \in {"find_team", "new_team", "groups", "lookup", "refused"}
                   /\ s.pc \in {"refused", "lookup"} => s.role = s.claimed
<1> SUFFICES Goal
  BY <1>a DEF LoginInv
<1> USE <1>a DEF At
<1>2. ASSUME NEW b, NEW teams, s = Parsed(b, teams), DOMAIN b = DOMAIN r
      PROVE  Goal
  <2>1. {"pc", "role", "claimed", "teams"} \subseteq DOMAIN b
    BY <1>2 DEF LoginSet
  <2>2. s.pc \in {"refused", "lookup"} /\ s.role = s.claimed
    BY <1>2, <2>1 DEF Parsed
  <2> QED
    BY <2>2
<1>3. CASE CallbackGoogle(l) \/ CallbackGeneric(l)
  <2>1. PICK b \in LoginSet, teams \in SUBSET Teams : s = Parsed(b, teams)
    BY <1>3, CallbackForm
  <2>2. DOMAIN b = DOMAIN r
    BY DEF LoginSet
  <2> HIDE DEF Goal
  <2> QED
    BY <1>2, <2>1, <2>2
<1>5. CASE PrincipalFails(l)
  <2> DEFINE b == [r EXCEPT !.making = {}]
  <2>1. s = Parsed(b, {}) /\ DOMAIN b = DOMAIN r
    BY <1>5 DEF PrincipalFails
  <2> HIDE DEF b, Goal
  <2> QED
    BY <1>2, <2>1
<1>6. CASE ReadGroups(l)
  <2>1. s = Parsed(r, r.teams) \/ s = Parsed(r, {})
    BY <1>6 DEF ReadGroups
  <2> HIDE DEF s, r, Goal
  <2> QED
    BY <1>2, <2>1
<1>7. CASE CallbackMicrosoft(l)
  <2>2. s.pc \in {"groups", "find_team"}
    BY <1>7, MicrosoftForm
  <2> QED
    BY <2>2
<1>8. CASE FindTeam(l) \/ NewTeam(l)
  <2>1. CASE FindTeam(l)
    BY <2>1 DEF FindTeam, TeamLeft, LoginSet
  <2>2. CASE NewTeam(l)
    BY <2>2 DEF NewTeam, TeamLeft, LoginSet
  <2> QED
    BY <1>8, <2>1, <2>2
<1> HIDE DEF Goal
<1> QED
  BY <1>3, <1>5, <1>6, <1>7, <1>8 DEF Step, LookUpFinds, LookUpMisses, Update, Insert,
     InsertFails, CliUnknown, Join, Joined, HandCli, KeepRole, SyncRole, CacheUser,
     HandKey, Fails, Syncs

LEMMA RoleInvStep ==
    ASSUME UserInv, NEW l \in Logins, RoleInv(l), Step(l)
    PROVE  RoleInv(l)'
<1> DEFINE r == login[l]
           s == login'[l]
<1>a. r \in LoginSet /\ l \in DOMAIN login /\ LoginInv(l) /\ s \in LoginSet
  BY LoginStep DEF UserInv, TypeOK
<1> USE <1>a DEF At
<1>1. CASE r.user # None
  <2>1. /\ s.claimed = r.claimed /\ Asked(l)' = Asked(l) /\ (Torn(l)' <=> Torn(l))
    BY <1>1, UserKept
  <2>2. CASE Update(l) \/ Joined(l) \/ Fails(l)
    BY <2>1, <2>2 DEF Update, Joined, Fails, RoleInv, LoginSet
  <2>3. CASE Join(l)
    <3>1. s.pc = "join" /\ r.pc = "join" /\ s.role = r.role
      BY <2>3 DEF Join, LoginSet
    <3> QED
      BY <2>1, <3>1 DEF RoleInv
  <2>4. CASE HandCli(l) \/ HandKey(l)
    <3>1. s.pc \in {"done", "barred"}
      <4>1. CASE HandCli(l)
        BY <4>1 DEF HandCli, LoginSet
      <4>2. CASE HandKey(l)
        BY <4>2 DEF HandKey, LoginSet
      <4> QED
        BY <2>4, <4>1, <4>2
    <3> QED
      BY <3>1 DEF RoleInv
  <2>6. CASE SyncRole(l)
    <3>1. s.pc = "cache" /\ r.pc = "sync" /\ s.role = r.role
      BY <2>6 DEF SyncRole, LoginSet
    <3> QED
      BY <2>1, <3>1 DEF RoleInv
  <2>5. CASE KeepRole(l) \/ CacheUser(l)
    <3>a. s = Settled(r) /\ r.id \in Ids
      BY <2>5 DEF KeepRole, CacheUser, LoginInv
    <3>1. /\ s.pc = "key" /\ r.pc \in {"sync", "cache"}
          /\ s.role = AppliedRole(r, OrElse(r.mapped, r.role))
      BY <2>5, <3>a, SettledType DEF KeepRole, CacheUser
    <3>2. ~Torn(l) /\ Asked(l) # None => OrElse(r.mapped, r.role) = Asked(l)
      BY <3>1 DEF RoleInv, Asked, OrElse
    <3> QED
      BY <2>1, <3>1, <3>2 DEF RoleInv, AppliedRole, OrElse
  <2> QED
    BY <1>1, <2>2, <2>3, <2>4, <2>5, <2>6, UserKept
<1>2. CASE r.user = None
  <2>1. CASE r.pc \in {"home", "find_team", "new_team", "groups"}
    BY <2>1, EarlyStep DEF RoleInv
  <2>8. CASE LookUpFinds(l)
    <3>2. s.pc = "upsert" /\ r.pc = "lookup" /\ s.role = r.role /\ s.claimed = r.claimed
      BY <2>8, LookUpForm DEF LookUpFinds, UserInv
    <3> QED
      BY <3>2 DEF RoleInv
  <2>9. CASE LookUpMisses(l)
    <3>1. s.pc = "upsert" /\ r.pc = "lookup" /\ s.role = r.role /\ s.claimed = r.claimed
      BY <2>9 DEF LookUpMisses, LoginSet
    <3> QED
      BY <3>1 DEF RoleInv
  <2>10. CASE Insert(l) \/ InsertFails(l)
    <3>1. /\ s.pc \in {"join", "sync"} /\ r.pc = "upsert" /\ s.claimed = r.claimed
          /\ s.role = InsertedRole(r.role)
      <4>1. CASE Insert(l)
        BY <4>1 DEF Insert, LoginSet
      <4>2. CASE InsertFails(l)
        BY <4>2 DEF InsertFails, LoginSet
      <4> QED
        BY <2>10, <4>1, <4>2
    <3> QED
      BY <3>1 DEF RoleInv, InsertedRole, OrElse
  <2>11. CASE CliUnknown(l) \/ Fails(l)
    <3>1. s.pc = "failed"
      BY <2>11 DEF CliUnknown, Fails, LoginSet
    <3> QED
      BY <3>1 DEF RoleInv
  <2>12. CASE Joined(l) \/ Join(l) \/ HandCli(l) \/ HandKey(l) \/ Update(l)
              \/ SyncRole(l) \/ CacheUser(l)
    BY <1>2, <2>12, UserAssumption DEF Joined, Join, HandCli, HandKey, Update,
       SyncRole, Syncs, CacheUser, LoginInv
  <2>13. CASE KeepRole(l)
    <3>a. s = Settled(r) /\ r.id \in Ids /\ r.pc = "sync"
      BY <2>13 DEF KeepRole, LoginInv
    <3>1. /\ s.pc = "key" /\ r.pc = "sync" /\ s.claimed = r.claimed /\ s.mapped = r.mapped
          /\ s.cli = r.cli /\ s.role = AppliedRole(r, OrElse(r.mapped, r.role))
      BY <3>a, SettledType
    <3>2. ~Torn(l) /\ Asked(l) # None => OrElse(r.mapped, r.role) = Asked(l)
      BY <3>1 DEF RoleInv, Asked, OrElse
    <3>3. Asked(l)' = Asked(l) /\ (Torn(l)' <=> Torn(l))
      BY <3>1 DEF Asked, Torn
    <3> QED
      BY <3>1, <3>2, <3>3 DEF RoleInv, AppliedRole, OrElse
  <2> QED
    BY <2>1, <2>8, <2>9, <2>10, <2>11, <2>12, <2>13 DEF Step, CallbackGoogle,
       CallbackGeneric, CallbackMicrosoft, PrincipalFails, FindTeam, NewTeam, ReadGroups
<1> QED
  BY <1>1, <1>2

\* A user that was not clean does not become clean.
LEMMA CleanBefore ==
    ASSUME UserInv, NEW l \in Logins, Step(l), NEW u \in Ids, Clean(u)'
    PROVE  Clean(u)
<1> SUFFICES ASSUME NEW k \in Mine(u)
             PROVE  k \notin troubled /\ ~At(k, "failed") /\ ~Torn(k)
  BY DEF Clean
<1>1. CASE k # l
  <2>1. login'[k] = login[k] /\ (k \in troubled' <=> k \in troubled)
    BY <1>1, Frame DEF UserInv, Mine
  <2> QED
    BY <2>1 DEF Clean, Mine, At, Torn
<1>2. CASE k = l
  <2>1. login[l].user # None
    BY <1>2, UserAssumption DEF Mine
  <2>2. l \in Mine(u)' /\ (Torn(l)' <=> Torn(l))
    BY <1>2, <2>1, UserKept DEF Mine
  <2>3. l \in troubled => l \in troubled'
    BY Frame DEF UserInv
  <2>4. ~At(l, "failed")
    BY <2>1, UserKept DEF At, Update, Join, Joined, HandCli, KeepRole, SyncRole,
       CacheUser, HandKey, Fails
  <2> QED
    BY <1>2, <2>2, <2>3, <2>4 DEF Clean
<1> QED
  BY <1>1, <1>2

\* A user without a row has no login yet, or not a clean one.
LEMMA NoRowNoLogin ==
    ASSUME UserInv, NEW u \in Ids, Clean(u), u \notin Rows
    PROVE  Mine(u) = {}
<1> SUFFICES ASSUME NEW l \in Mine(u) PROVE FALSE
  OBVIOUS
<1>1. LoginInv(l) /\ login[l].user = u /\ u # None /\ l \notin troubled /\ ~At(l, "failed")
      /\ login[l] \in LoginSet
  BY UserAssumption DEF UserInv, TypeOK, Mine, Clean
<1>2. login[l].pc \in {"upsert", "join", "sync", "cache", "key", "barred", "done"}
  BY <1>1 DEF LoginInv, At, LoginSet, Working, Ended
<1> QED
  BY <1>1, <1>2 DEF LoginInv

\* The step of a login l of the clean user u.
LEMMA SettleOwn ==
    ASSUME UserInv, SettleInv, NEW l \in Logins, Step(l), NEW u \in Ids,
           Clean(u)', Written(u)', login'[l].user = u
    PROVE  \E k \in Mine(u)' : Moved(k, u)'
<1> DEFINE r == login[l]
           s == login'[l]
           Goal == \E k \in Mine(u)' : Moved(k, u)'
<1>a. /\ r \in LoginSet /\ s \in LoginSet /\ l \in DOMAIN login /\ LoginInv(l) /\ LoginInv(l)'
      /\ RoleInv(l) /\ RoleInv(l)' /\ row \in [Ids -> Roles \cup {None, Absent}]
      /\ u # None /\ UserInv' /\ TypeOK
  BY LoginStep, UserStep, RoleInvStep, UserAssumption DEF UserInv, TypeOK, SettleInv, Next
<1>b. /\ l \in Mine(u)' /\ Mine(u)' = Mine(u) \cup {l}
      /\ \A k \in Mine(u) \ {l} : login'[k] = login[k] /\ Wanted(k)' = Wanted(k)
                                  /\ Asked(k)' = Asked(k)
  <2>1. \A k \in Logins \ {l} : login'[k] = login[k]
    BY <1>a, Frame
  <2> QED
    BY <2>1 DEF Mine, Wanted, Asked
<1>c. Clean(u) /\ l \notin troubled' /\ s.pc # "failed" /\ ~Torn(l)'
  BY <1>b, CleanBefore DEF Clean, At
<1> USE <1>a DEF At
<1> SUFFICES Goal
  OBVIOUS
\* either l has just written the role it wants ...
<1>1. ASSUME Moved(l, u)' PROVE Goal
  BY <1>b, <1>1
\* ... or the row is as it was, and so is the login that wrote it
<1>2. ASSUME row'[u] = row[u], s.claimed # None /\ s.pc # "upsert" => Written(u),
             l \in Mine(u) /\ Moved(l, u) => Moved(l, u)'
      PROVE  Goal
  <2>1. Written(u)
    <3>1. PICK k \in Mine(u)' : login'[k].claimed # None /\ login'[k].pc # "upsert"
      BY DEF Written
    <3>2. CASE k = l
      BY <1>2, <3>1, <3>2
    <3>3. CASE k # l
      BY <1>b, <3>1, <3>3 DEF Written
    <3> QED
      BY <3>2, <3>3
  <2>2. PICK k \in Mine(u) : Moved(k, u)
    BY <1>c, <2>1 DEF SettleInv
  <2>3. CASE k = l
    BY <1>1, <1>2, <2>2, <2>3
  <2>4. CASE k # l
    BY <1>b, <1>2, <2>2, <2>4 DEF Moved
  <2> QED
    BY <2>3, <2>4
<1> HIDE DEF Goal
\* the role of a login that is not torn
<1>e. s.claimed = None \/ s.cli \/ Asked(l)' = s.claimed
  BY <1>a, <1>c DEF Torn, Asked, OrElse
<1>3. CASE r.user = None
  <2>1. r.pc \notin {"home", "find_team", "new_team", "groups"}
    BY EarlyStep
  <2>2. CASE LookUpFinds(l)
    <3>2. s.pc = "upsert" /\ row' = row
      BY <2>2, LookUpForm DEF LookUpFinds, Unstored
    <3> QED
      BY <1>2, <1>3, <3>2 DEF Mine
  <2>3. CASE Insert(l)
    <3>1. /\ s.pc = "join" /\ s.user = r.id /\ s.claimed = r.claimed
          /\ s.cli = r.cli /\ ~r.cli /\ r.role = r.claimed /\ u \notin Rows
      BY <2>3 DEF Insert, LoginSet, RoleInv
    <3>2. row'[u] = InsertedRole(r.role)
      BY <2>3, <3>1 DEF Insert, WriteRow
    <3>3. Mine(u)' = {l}
      BY <1>b, <1>c, <3>1, NoRowNoLogin
    <3>4. s.claimed # None
      BY <3>3 DEF Written
    <3>5. row'[u] = s.claimed
      BY <3>1, <3>2, <3>4 DEF InsertedRole, OrElse
    <3>6. Moved(l, u)'
      BY <1>c, <1>e, <3>1, <3>4, <3>5 DEF Moved, Wanted, Asked
    <3> QED
      BY <1>1, <3>6
  <2>4. CASE KeepRole(l)
    <3>1. l \in troubled
      BY <1>3, <2>4 DEF KeepRole, LoginInv
    <3> QED
      BY <1>c, <3>1, Frame
  <2>5. CASE LookUpMisses(l) \/ InsertFails(l)
    <3>1. s.user = r.user
      <4>1. CASE LookUpMisses(l)
        BY <4>1 DEF LookUpMisses, LoginSet
      <4>2. CASE InsertFails(l)
        BY <4>2 DEF InsertFails, LoginSet
      <4> QED
        BY <2>5, <4>1, <4>2
    <3> QED
      BY <1>3, <3>1
  <2>6. CASE CliUnknown(l) \/ Fails(l)
    BY <1>c, <2>6 DEF CliUnknown, Fails, LoginSet
  <2>7. CASE Joined(l) \/ Join(l) \/ HandCli(l) \/ HandKey(l) \/ Update(l)
             \/ SyncRole(l) \/ CacheUser(l)
    BY <1>3, <2>7, UserAssumption DEF Joined, Join, HandCli, HandKey, Update, SyncRole,
       Syncs, CacheUser, LoginInv
  <2> QED
    BY <2>1, <2>2, <2>3, <2>4, <2>5, <2>6, <2>7 DEF Step, CallbackGoogle,
       CallbackGeneric, CallbackMicrosoft, PrincipalFails, FindTeam, NewTeam, ReadGroups
<1>4. CASE r.user # None
  <2>1. /\ r.user = u /\ l \in Mine(u) /\ s.cli = r.cli /\ s.claimed = r.claimed
        /\ s.mapped = r.mapped /\ Wanted(l)' = Wanted(l) /\ Asked(l)' = Asked(l)
        /\ ~Torn(l) /\ l \notin troubled
    BY <1>4, <1>c, UserKept, Frame DEF Mine
  <2>a. r.claimed # None /\ r.pc # "upsert" => Written(u)
    BY <2>1 DEF Written
  <2>2. CASE Update(l)
    <3>1. s.pc = "join" /\ r.pc = "upsert"
      BY <2>2 DEF Update, LoginSet
    <3>2. row'[u] = UpdatedRole(r.claimed, row[u])
      BY <1>c, <2>1, <2>2 DEF Update, Trouble, WriteRow
    <3>3. CASE r.claimed # None
      <4>1. row'[u] = s.claimed
        BY <2>1, <3>2, <3>3 DEF UpdatedRole, OrElse
      <4>2. Moved(l, u)'
        BY <1>c, <1>e, <2>1, <3>1, <3>3, <4>1 DEF Moved, Wanted, Asked
      <4> QED
        BY <1>1, <4>2
    <3>4. CASE r.claimed = None
      <4>1. row'[u] = row[u]
        BY <3>2, <3>4 DEF UpdatedRole, OrElse
      <4>2. Moved(l, u) => Moved(l, u)'
        BY <2>1, <3>1, <4>1 DEF Moved
      <4> QED
        BY <1>2, <2>1, <3>4, <4>1, <4>2
    <3> QED
      BY <3>3, <3>4
  <2>3. CASE Join(l) \/ Joined(l)
    <3>1. s.pc \in {"join", "sync"} /\ r.pc = "join" /\ row' = row
      <4>1. CASE Join(l)
        BY <4>1 DEF Join, LoginSet
      <4>2. CASE Joined(l)
        BY <4>2 DEF Joined, LoginSet, Unstored
      <4> QED
        BY <2>3, <4>1, <4>2
    <3>2. Moved(l, u) => Moved(l, u)'
      BY <2>1, <3>1 DEF Moved
    <3> QED
      BY <1>2, <2>1, <2>a, <3>1, <3>2
  <2>4. CASE HandCli(l)
    <3>1. s = [r EXCEPT !.pc = "done", !.role = r.dbRole]
      BY <2>4 DEF HandCli
    <3>2. s.pc = "done" /\ r.pc = "join" /\ r.cli /\ row' = row
      BY <2>4, <3>1 DEF HandCli, LoginSet, Unstored
    <3>3. Moved(l, u) => Moved(l, u)'
      BY <2>1, <3>2 DEF Moved
    <3> QED
      BY <1>2, <2>1, <2>a, <3>2, <3>3
  <2>5. CASE SyncRole(l)
    <3>1. /\ s.pc = "cache" /\ ~r.cli /\ r.mapped # None
          /\ row' = [row EXCEPT ![u] = r.mapped]
      BY <2>1, <2>5 DEF SyncRole, Syncs, LoginSet, LoginInv, WriteRow
    <3>2. row'[u] = r.mapped /\ Asked(l) = r.mapped
      BY <3>1 DEF Asked, OrElse
    <3>3. Moved(l, u)'
      BY <2>1, <3>1, <3>2 DEF Moved, Wanted, Asked
    <3> QED
      BY <1>1, <3>3
  <2>6. CASE KeepRole(l) \/ CacheUser(l)
    <3>1. r.pc \in {"sync", "cache"} /\ row' = row /\ s = Settled(r) /\ r.id \in Ids
      BY <2>6 DEF KeepRole, CacheUser, LoginInv, Unstored
    <3>2. s.pc = "key"
      BY <3>1, SettledType
    <3>3. Moved(l, u) => Moved(l, u)'
      BY <2>1, <3>1, <3>2 DEF Moved
    <3> QED
      BY <1>2, <2>1, <2>a, <3>1, <3>3
  <2>7. CASE HandKey(l)
    <3>1. s.pc \in {"barred", "done"} /\ r.pc = "key" /\ ~r.cli /\ u \in Rows
      BY <2>1, <2>7, ZenonT(60) DEF HandKey, LoginSet, LoginInv
    <3>2. CASE u = AdminId /\ r.role # "proxy_admin"
      <4>1. row'[u] = "proxy_admin" /\ "proxy_admin" # None
        BY <2>1, <2>7, <3>1, <3>2, NoRole DEF HandKey, Roles, WriteRow
      <4>2. Moved(l, u)'
        BY <2>1, <3>1, <3>2, <4>1 DEF Moved, Wanted
      <4> QED
        BY <1>1, <4>2
    <3>3. CASE ~(u = AdminId /\ r.role # "proxy_admin")
      <4>1. row' = row
        BY <2>1, <2>7, <3>3 DEF HandKey, Unwritten
      <4>2. Moved(l, u) => Moved(l, u)'
        BY <2>1, <3>1, <3>3, <4>1 DEF Moved, Wanted, RoleInv
      <4> QED
        BY <1>2, <2>1, <2>a, <3>1, <4>1, <4>2
    <3> QED
      BY <3>2, <3>3
  <2>8. CASE Fails(l)
    BY <1>c, <2>8 DEF Fails, LoginSet
  <2> QED
    BY <1>4, <2>2, <2>3, <2>4, <2>5, <2>6, <2>7, <2>8, UserKept
<1> QED
  BY <1>3, <1>4

LEMMA SettleStep ==
    ASSUME UserInv, SettleInv, [Next]_vars
    PROVE  SettleInv'
<1>1. CASE UNCHANGED vars
  BY <1>1 DEF SettleInv, RoleInv, Clean, Written, Moved, Mine, Wanted, Asked, Torn, At, vars
<1>3. ASSUME NEW q \in Redirects, Begin(q) PROVE SettleInv'
  <2>1. row' = row /\ login' = login /\ troubled' = troubled
    BY <1>3, BeginFrame DEF UserInv
  <2> QED
    BY <2>1 DEF SettleInv, RoleInv, Clean, Written, Moved, Mine, Wanted, Asked, Torn, At
<1>2. ASSUME NEW l \in Logins, Step(l) PROVE SettleInv'
  <2>1. Step(l)
    BY <1>2
  <2>2. \A k \in Logins \ {l} : login'[k] = login[k] /\ (k \in troubled' <=> k \in troubled)
    BY <2>1, Frame DEF UserInv
  <2>3. ASSUME NEW k \in Logins PROVE RoleInv(k)'
    <3>1. RoleInv(k)
      BY DEF SettleInv
    <3>2. CASE k = l
      BY <2>1, <3>1, <3>2, RoleInvStep
    <3>3. CASE k # l
      BY <2>2, <3>1, <3>3 DEF RoleInv, Torn, Asked
    <3> QED
      BY <3>2, <3>3
  <2>4. ASSUME NEW u \in Ids, Clean(u)', Written(u)'
        PROVE  \E k \in Mine(u)' : Moved(k, u)'
    <3>1. CASE login'[l].user = u
      BY <2>1, <2>4, <3>1, SettleOwn
    <3>2. CASE login'[l].user # u
      <4>1. row'[u] = row[u]
        BY <2>1, <3>2, RowOfOther
      <4>2. login[l].user # u
        BY <2>1, <3>2, UserKept, UserAssumption
      <4>3. Mine(u)' = Mine(u) /\ l \notin Mine(u)
        BY <2>2, <3>2, <4>2 DEF Mine
      <4>4. Clean(u) /\ Written(u)
        BY <2>1, <2>2, <2>4, <4>3, CleanBefore DEF Written, Mine
      <4>5. \A k \in Mine(u) : Moved(k, u) => Moved(k, u)'
        BY <2>2, <4>1, <4>3 DEF Moved, Wanted, Asked, Mine
      <4> QED
        BY <4>3, <4>4, <4>5 DEF SettleInv
    <3> QED
      BY <3>1, <3>2
  <2> QED
    BY <2>3, <2>4 DEF SettleInv
<1> QED
  BY <1>1, <1>2, <1>3 DEF Next

\* RoleSettles holds of every number of logins and users, and of copies of a user
\* as old as may be.
THEOREM SettledRole == Spec => []RoleSettles
<1>1. Init => SettleInv
  <2> SUFFICES ASSUME Init PROVE SettleInv
    OBVIOUS
  <2>1. \A l \in Logins : login[l].pc = "home" /\ login[l].user = None
    BY DEF Init, Fresh
  <2>2. \A u \in Ids : Mine(u) = {}
    BY <2>1, UserAssumption DEF Mine
  <2> QED
    BY <2>1, <2>2 DEF SettleInv, RoleInv, Written
<1>2. UserInv /\ SettleInv => RoleSettles
  <2> SUFFICES ASSUME UserInv, SettleInv, Quiet, NEW u \in Ids, NEW l \in Mine(u),
                      login[l].claimed # None, Clean(u)
               PROVE  row[u] \in {Wanted(k) : k \in Mine(u)} \ {None}
    BY DEF RoleSettles, Clean, Mine
  <2>1. Written(u)
    BY DEF Written, Quiet, Mine, Working
  <2>2. PICK k \in Mine(u) : Moved(k, u)
    BY <2>1 DEF SettleInv
  <2> QED
    BY <2>2 DEF Moved, Quiet, Working, Mine
<1> QED
  BY <1>1, <1>2, UserAlways, SettleStep, PTL DEF Spec

-----------------------------------------------------------------------------
(* The promise of UserDirectory.                                           *)

AdmittedPc == {"lookup", "upsert", "join", "sync", "cache", "key", "failed", "barred", "done"}
Guests == {login[l].id : l \in {k \in Logins : login[k].pc \in AdmittedPc}}

\* Whoever is past the callback is of an allowed domain, and goes on as itself or
\* as a user with the same e-mail address.
GuestInv(l) ==
    login[l].pc \in AdmittedPc =>
        /\ login[l].id \in AllowedIds
        /\ login[l].user # None => \/ login[l].user = login[l].id
                                  \/ Email[login[l].user] = Email[login[l].id]

\* Before its callback is done with a person, a login stays outside or lets this
\* person in.
LEMMA AtTheDoor ==
    ASSUME UserInv, NEW l \in Logins, Step(l), login[l].pc \notin AdmittedPc
    PROVE  \/ login'[l].pc \notin AdmittedPc
           \/ /\ Unstored /\ login'[l].user = None
              /\ login'[l].id \in AllowedIds /\ login'[l].id \in Ids
<1> DEFINE r == login[l]
           s == login'[l]
           Goal == \/ s.pc \notin AdmittedPc
                   \/ /\ Unstored /\ s.user = None /\ s.id \in AllowedIds /\ s.id \in Ids
<1>a. r \in LoginSet /\ s \in LoginSet /\ l \in DOMAIN login /\ LoginInv(l)' /\ TypeOK
  BY LoginStep DEF UserInv, TypeOK
<1>b. r.pc \in {"home", "find_team", "new_team", "groups"} /\ s.user = None
  <2>1. r.pc \in {"home", "find_team", "new_team", "groups"}
    BY DEF AdmittedPc, At, Step, CallbackGoogle, CallbackGeneric,
       CallbackMicrosoft, PrincipalFails, FindTeam, NewTeam, ReadGroups, LookUpFinds,
       LookUpMisses, Update, Insert, InsertFails, CliUnknown, Join, Joined, HandCli,
       KeepRole, SyncRole, CacheUser, HandKey, Fails
  <2> QED
    BY <2>1, EarlyStep
\* what Parsed says of the gate
<1>c. ASSUME NEW b \in LoginSet, NEW teams \in SUBSET Teams, s = Parsed(b, teams), Unstored
      PROVE  Goal
  <2>1. s.pc = IF Refused(b.cli, b.id, teams) THEN "refused" ELSE "lookup"
    BY <1>c, ZenonT(60) DEF Parsed, LoginSet
  <2>2. CASE Refused(b.cli, b.id, teams)
    BY <2>1, <2>2 DEF AdmittedPc
  <2>3. CASE ~Refused(b.cli, b.id, teams)
    <3>1. s.pc = "lookup" /\ b.id \in AllowedIds /\ s.id = b.id
      BY <1>c, <2>1, <2>3, ParsedType DEF Refused
    <3>2. s.id \in Ids
      BY <1>a, <3>1 DEF LoginInv
    <3> QED
      BY <1>b, <1>c, <3>1, <3>2
  <2> QED
    BY <2>2, <2>3
<1>d. {} \in SUBSET Teams
  OBVIOUS
<1> SUFFICES Goal
  OBVIOUS
<1> HIDE DEF Goal
<1>2. CASE CallbackGoogle(l) \/ CallbackGeneric(l)
  <2>1. PICK b \in LoginSet, teams \in SUBSET Teams : s = Parsed(b, teams)
    BY <1>a, <1>2, CallbackForm
  <2>2. Unstored
    BY <1>2 DEF CallbackGoogle, CallbackGeneric
  <2> HIDE DEF s
  <2> QED
    BY <1>c, <2>1, <2>2
<1>4. CASE CallbackMicrosoft(l)
  <2>1. s.pc \in {"groups", "find_team"}
    BY <1>a, <1>4, MicrosoftForm
  <2> QED
    BY <2>1 DEF Goal, AdmittedPc
<1>5. CASE PrincipalFails(l)
  <2>1. s = Parsed([r EXCEPT !.making = {}], {})
    BY <1>5, <1>a DEF PrincipalFails
  <2>2. [r EXCEPT !.making = {}] \in LoginSet
    BY <1>a DEF LoginSet
  <2> HIDE DEF s
  <2> QED
    BY <1>5, <1>c, <1>d, <2>1, <2>2 DEF PrincipalFails
<1>6. CASE FindTeam(l)
  <2>1. PICK t \in r.making : s = IF t \in team THEN TeamLeft(r, t)
                                 ELSE [r EXCEPT !.missing = t, !.pc = "new_team"]
    BY <1>6, <1>a DEF FindTeam
  <2>2. TeamLeft(r, t).pc \in {"groups", "find_team"}
    BY <1>a, TeamLeftType
  <2>3. [r EXCEPT !.missing = t, !.pc = "new_team"].pc = "new_team"
    BY <1>a DEF LoginSet
  <2> QED
    BY <2>1, <2>2, <2>3 DEF Goal, AdmittedPc
<1>7. CASE NewTeam(l)
  <2>1. s = TeamLeft(r, r.missing)
    BY <1>7, <1>a DEF NewTeam
  <2>2. s.pc \in {"groups", "find_team"}
    BY <1>a, <2>1, TeamLeftType
  <2> QED
    BY <2>2 DEF Goal, AdmittedPc
<1>8. CASE ReadGroups(l)
  <2>1. r.teams \in SUBSET Teams
    BY <1>a, LoginFields
  <2>2. PICK teams \in SUBSET Teams : s = Parsed(r, teams)
    BY <1>8, <1>a, <1>d, <2>1 DEF ReadGroups
  <2> HIDE DEF s
  <2> QED
    BY <1>8, <1>a, <1>c, <2>2 DEF ReadGroups
<1> QED
  BY <1>b, <1>2, <1>4, <1>5, <1>6, <1>7, <1>8 DEF At, Step, LookUpFinds,
     LookUpMisses, Update, Insert, InsertFails, CliUnknown, Join, Joined, HandCli,
     KeepRole, SyncRole, CacheUser, HandKey, Fails

\* After that it keeps its person, and its user is this person or shares the
\* e-mail address.
LEMMA Inside ==
    ASSUME UserInv, NEW l \in Logins, Step(l), login[l].pc \in AdmittedPc
    PROVE  /\ login'[l].pc \in AdmittedPc /\ login'[l].id = login[l].id
           /\ \/ login'[l].user = login[l].user
              \/ login'[l].user = login[l].id
              \/ Email[login'[l].user] = Email[login[l].id]
           /\ \/ LookUpFinds(l) \/ LookUpMisses(l) \/ Update(l) \/ Insert(l)
              \/ InsertFails(l) \/ CliUnknown(l) \/ Join(l) \/ Joined(l) \/ HandCli(l)
              \/ KeepRole(l) \/ SyncRole(l) \/ CacheUser(l) \/ HandKey(l) \/ Fails(l)
<1> DEFINE r == login[l]
           s == login'[l]
           Goal == /\ s.pc \in AdmittedPc /\ s.id = r.id
                   /\ s.user = r.user \/ s.user = r.id \/ Email[s.user] = Email[r.id]
<1>a. r \in LoginSet /\ l \in DOMAIN login /\ TypeOK /\ LoginInv(l)
  BY DEF UserInv, TypeOK
<1>b. \/ LookUpFinds(l) \/ LookUpMisses(l) \/ Update(l) \/ Insert(l)
      \/ InsertFails(l) \/ CliUnknown(l) \/ Join(l) \/ Joined(l) \/ HandCli(l)
      \/ KeepRole(l) \/ SyncRole(l) \/ CacheUser(l) \/ HandKey(l) \/ Fails(l)
  BY DEF AdmittedPc, At, Step, CallbackGoogle, CallbackGeneric, CallbackMicrosoft,
     PrincipalFails, FindTeam, NewTeam, ReadGroups
<1> SUFFICES Goal
  BY <1>b
<1> USE <1>a
<1>1. CASE LookUpFinds(l)
  BY <1>1, LookUpForm DEF AdmittedPc
<1>2. CASE LookUpMisses(l) \/ CliUnknown(l) \/ Update(l) \/ Join(l) \/ Joined(l) \/ Fails(l)
  <2>1. s.pc \in {"upsert", "failed", "join", "sync"} /\ s.id = r.id /\ s.user = r.user
    <3>1. CASE LookUpMisses(l) \/ CliUnknown(l)
      BY <3>1 DEF LookUpMisses, CliUnknown, LoginSet
    <3>2. CASE Update(l) \/ Joined(l) \/ Fails(l)
      BY <3>2 DEF Update, Joined, Fails, LoginSet
    <3>3. CASE Join(l)
      BY <3>3 DEF Join, At, LoginSet
    <3> QED
      BY <1>2, <3>1, <3>2, <3>3
  <2> QED
    BY <2>1 DEF AdmittedPc
<1>3. CASE Insert(l)
  <2>1. s.pc = "join" /\ s.id = r.id /\ s.user = r.id
    BY <1>3 DEF Insert, LoginSet
  <2> QED
    BY <2>1 DEF AdmittedPc
<1>4. CASE InsertFails(l)
  <2>1. s.pc = "sync" /\ s.id = r.id /\ s.user = r.user
    BY <1>4 DEF InsertFails, LoginSet
  <2> QED
    BY <2>1 DEF AdmittedPc
<1>5. CASE HandCli(l)
  <2>1. s.pc = "done" /\ s.id = r.id /\ s.user = r.user
    BY <1>5 DEF HandCli, LoginSet
  <2> QED
    BY <2>1 DEF AdmittedPc
<1>6. CASE SyncRole(l)
  <2>1. s.pc = "cache" /\ s.id = r.id /\ s.user = r.user
    BY <1>6 DEF SyncRole, LoginSet
  <2> QED
    BY <2>1 DEF AdmittedPc
<1>8. CASE KeepRole(l) \/ CacheUser(l)
  <2>1. s = Settled(r) /\ r.id \in Ids
    BY <1>8 DEF KeepRole, CacheUser, LoginInv, At
  <2>2. s.pc = "key" /\ s.id = r.id /\ s.user = OrElse(r.user, r.id)
    BY <2>1, SettledType
  <2> QED
    BY <2>2 DEF AdmittedPc, OrElse
<1>7. CASE HandKey(l)
  <2>1. PICK role \in Roles \cup {None}, pc \in {"barred", "done"} :
          s = [r EXCEPT !.role = role, !.pc = pc]
    BY <1>7, LoginFields DEF HandKey, Roles
  <2>2. s.pc \in {"barred", "done"} /\ s.id = r.id /\ s.user = r.user
    BY <2>1, ZenonT(60) DEF LoginSet
  <2> QED
    BY <2>2 DEF AdmittedPc
<1> QED
  BY <1>b, <1>1, <1>2, <1>3, <1>4, <1>5, <1>6, <1>7, <1>8

LEMMA GuestInvStep ==
    ASSUME UserInv, NEW l \in Logins, GuestInv(l), Step(l)
    PROVE  GuestInv(l)'
<1>1. CASE login[l].pc \notin AdmittedPc
  BY <1>1, AtTheDoor DEF GuestInv, AdmittedPc
<1>2. CASE login[l].pc \in AdmittedPc
  BY <1>2, Inside DEF GuestInv, AdmittedPc
<1> QED
  BY <1>1, <1>2

\* How the set of people let in changes.
LEMMA GuestsGrow ==
    ASSUME UserInv, NEW l \in Logins, Step(l)
    PROVE  /\ login[l].pc \in AdmittedPc => Guests' = Guests
           /\ login[l].pc \notin AdmittedPc /\ login'[l].pc \notin AdmittedPc
                => Guests' = Guests
           /\ login[l].pc \notin AdmittedPc /\ login'[l].pc \in AdmittedPc
                => Guests' = Guests \cup {login'[l].id}
<1>1. \A k \in Logins \ {l} : login'[k] = login[k]
  BY Frame DEF UserInv
<1>2. ASSUME login[l].pc \in AdmittedPc PROVE Guests' = Guests
  BY <1>1, <1>2, Inside DEF Guests, AdmittedPc
<1>3. ASSUME login[l].pc \notin AdmittedPc, login'[l].pc \notin AdmittedPc
      PROVE  Guests' = Guests
  BY <1>1, <1>3 DEF Guests, AdmittedPc
<1>4. ASSUME login[l].pc \notin AdmittedPc, login'[l].pc \in AdmittedPc
      PROVE  Guests' = Guests \cup {login'[l].id}
  BY <1>1, <1>4 DEF Guests, AdmittedPc
<1> QED
  BY <1>2, <1>3, <1>4

\* What one step does to the tables is what the directory allows for somebody who
\* has been let in.
LEMMA TableStep ==
    ASSUME UserInv, NEW l \in Logins, GuestInv(l), Step(l), Guests' = Guests
    PROVE  Directory!Next \/ UNCHANGED Directory!vars
<1> DEFINE r == login[l]
           Goal == Directory!Next \/ UNCHANGED Directory!vars
<1>a. r \in LoginSet /\ LoginInv(l) /\ TypeOK /\ None \notin Ids
      /\ row \in [Ids -> Roles \cup {None, Absent}]
  BY UserAssumption DEF UserInv, TypeOK
<1>b. ASSUME row' = row, UnstoredTeams PROVE Goal
  BY <1>b DEF Directory!vars, UnstoredTeams, Guests, AdmittedPc
\* a role for the user of a login that has one
<1>c. ASSUME r.pc \in {"upsert", "join", "sync", "key"}, r.user \in Rows,
             NEW role \in Roles, row' = [row EXCEPT ![r.user] = role], UnstoredTeams
      PROVE  Goal
  <2>1. r.user \in Ids /\ r.user # None
    BY <1>a, <1>c DEF Rows
  <2>2. r.id \in Guests /\ (r.user = r.id \/ Email[r.user] = Email[r.id])
    BY <1>c, <2>1 DEF Guests, GuestInv, AdmittedPc
  <2>3. r.user \in Directory!Rows /\ Directory!LetIn(r.user)
    BY <1>c, <2>2 DEF Directory!LetIn, Directory!Rows, Rows, Guests, AdmittedPc
  <2>4. Directory!Appoint(r.user, role)
    BY <1>c, <2>3 DEF Directory!Appoint, UnstoredTeams, Guests, AdmittedPc
  <2> QED
    BY <2>1, <2>4 DEF Directory!Next
<1> HIDE DEF Goal
<1> SUFFICES Goal
  BY DEF Goal
<1> USE DEF At
<1>1. CASE NewTeam(l)
  <2>1. r.missing \in Teams
    BY <1>1, <1>a DEF NewTeam, LoginInv, LoginSet
  <2>2. CASE team' = team
    BY <1>1, <1>b, <2>2 DEF NewTeam, UnstoredTeams
  <2>3. CASE team' = team \cup {r.missing}
    <3>1. Directory!MakeTeam(r.missing)
      BY <1>1, <2>3 DEF NewTeam, Directory!MakeTeam, Guests, AdmittedPc
    <3> QED
      BY <2>1, <3>1 DEF Directory!Next, Goal
  <2> QED
    BY <1>1, <2>2, <2>3 DEF NewTeam
<1>2. CASE Update(l)
  <2>1. r.pc = "upsert" /\ r.user \in Rows
    BY <1>2, <1>a DEF Update, LoginInv
  <2>2. r.claimed \in Roles \cup {None} /\ row[r.user] \in Roles \cup {None}
    BY <1>a, <2>1, LoginFields DEF Rows
  <2>3. CASE row' = row
    BY <1>2, <1>b, <2>3 DEF Update
  <2>4. CASE WriteRow(r.user, UpdatedRole(r.claimed, row[r.user]))
    <3> DEFINE role == UpdatedRole(r.claimed, row[r.user])
    <3>1. row' = [row EXCEPT ![r.user] = role]
      BY <2>4 DEF WriteRow
    <3>2. CASE role \in Roles
      BY <1>2, <1>c, <2>1, <3>1, <3>2 DEF Update
    <3>3. CASE role \notin Roles
      <4>1. role = None /\ row[r.user] = None
        BY <2>2, <3>3 DEF UpdatedRole, OrElse
      <4>2. row' = row
        BY <1>a, <2>1, <3>1, <4>1 DEF Rows
      <4> QED
        BY <2>3, <4>2
    <3> QED
      BY <3>2, <3>3
  <2> QED
    BY <1>2, <2>3, <2>4 DEF Update, Unwritten
<1>3. CASE Insert(l)
  <2>1. r.id \in Ids /\ r.id \in Guests /\ r.id \notin Directory!Rows
    BY <1>3, <1>a DEF Insert, LoginInv, Guests, AdmittedPc, Directory!Rows, Rows
  <2>2. InsertedRole(r.role) \in Roles
    BY <1>a, LoginFields, RoleValues
  <2>3. PICK role \in Roles : row' = [row EXCEPT ![r.id] = role]
    BY <1>3, <2>2 DEF Insert, WriteRow
  <2>4. Directory!Enrol(r.id, role)
    BY <1>3, <2>1, <2>3 DEF Insert, UnstoredTeams, Directory!Enrol, Guests, AdmittedPc
  <2> QED
    BY <2>1, <2>4 DEF Directory!Next, Goal
<1>4. CASE Join(l)
  <2>1. CASE member' = member
    BY <1>4, <1>b, <2>1 DEF Join, UnstoredTeams
  <2>2. CASE member' # member
    <3>1. r.user \in Ids /\ r.user \in Rows /\ r.pc = "join" /\ r.user # None
      BY <1>4, <1>a DEF Join, LoginInv
    <3>2. PICK t \in Teams : t \in team /\ member' = [member EXCEPT ![t] = @ \cup {r.user}]
      BY <1>4, <1>a, <2>2, LoginFields DEF Join
    <3>3. r.id \in Guests /\ (r.user = r.id \/ Email[r.user] = Email[r.id])
      BY <3>1 DEF Guests, GuestInv, AdmittedPc
    <3>4. r.user \in Directory!Rows /\ Directory!LetIn(r.user)
      BY <3>1, <3>3 DEF Directory!LetIn, Directory!Rows, Rows, Guests, AdmittedPc
    <3>5. Directory!Join(r.user, t)
      BY <1>4, <3>2, <3>4 DEF Join, Directory!Join, Guests, AdmittedPc
    <3> QED
      BY <3>1, <3>5 DEF Directory!Next, Goal
  <2> QED
    BY <2>1, <2>2
<1>5. CASE SyncRole(l)
  <2>1. r.mapped \in Roles /\ r.user \in Rows /\ r.pc = "sync"
    BY <1>5, <1>a, LoginFields DEF SyncRole, Syncs, LoginInv
  <2>2. row' = [row EXCEPT ![r.user] = r.mapped]
    BY <1>5 DEF SyncRole, WriteRow
  <2> QED
    BY <1>5, <1>c, <2>1, <2>2 DEF SyncRole
<1>6. CASE HandKey(l)
  <2>1. CASE row' = row
    BY <1>6, <1>b, <2>1 DEF HandKey
  <2>2. CASE row' # row
    <3>1. r.user \in Rows /\ r.pc = "key" /\ row' = [row EXCEPT ![r.user] = "proxy_admin"]
      BY <1>6, <2>2 DEF HandKey, WriteRow, Unwritten
    <3>2. "proxy_admin" \in Roles
      BY DEF Roles
    <3> QED
      BY <1>6, <1>c, <3>1, <3>2 DEF HandKey
  <2> QED
    BY <2>1, <2>2
<1>7. CASE Unstored \/ CacheUser(l)
  BY <1>7, <1>b DEF Unstored, UnstoredTeams, CacheUser
<1> QED
  BY <1>1, <1>2, <1>3, <1>4, <1>5, <1>6, <1>7 DEF Step, CallbackGoogle,
     CallbackGeneric, CallbackMicrosoft, PrincipalFails, FindTeam, ReadGroups,
     LookUpFinds, LookUpMisses, InsertFails, CliUnknown, Joined, HandCli, KeepRole,
     Fails

LEMMA DirectoryStep ==
    ASSUME UserInv, \A l \in Logins : GuestInv(l), [Next]_vars
    PROVE  Directory!Next \/ UNCHANGED Directory!vars
<1>1. CASE UNCHANGED vars
  BY <1>1 DEF vars, Directory!vars
<1>3. ASSUME NEW q \in Redirects, Begin(q) PROVE UNCHANGED Directory!vars
  BY <1>3, BeginFrame DEF UserInv, Directory!vars
<1>2. ASSUME NEW l \in Logins, Step(l)
      PROVE  Directory!Next \/ UNCHANGED Directory!vars
  <2>1. Step(l)
    BY <1>2
  <2>2. CASE Guests' = Guests
    BY <2>1, <2>2, TableStep
  <2>3. CASE Guests' # Guests
    <3>1. login[l].pc \notin AdmittedPc /\ login'[l].pc \in AdmittedPc
          /\ Guests' = Guests \cup {login'[l].id}
      BY <2>1, <2>3, GuestsGrow
    <3>2. Unstored /\ login'[l].id \in AllowedIds /\ login'[l].id \in Ids
      BY <2>1, <3>1, AtTheDoor
    <3>3. PICK id \in Ids : id \in AllowedIds /\ Guests' = Guests \cup {id}
      BY <3>1, <3>2
    <3>4. Directory!Admit(id)
      BY <3>2, <3>3 DEF Directory!Admit, Unstored, Guests, AdmittedPc
    <3> QED
      BY <3>4 DEF Directory!Next
  <2> QED
    BY <2>2, <2>3
<1> QED
  BY <1>1, <1>2, <1>3 DEF Next

GuestsInv == \A l \in Logins : GuestInv(l)

LEMMA GuestsAlways == Spec => [](UserInv /\ GuestsInv)
<1>1. Init => GuestsInv
  BY DEF Init, Fresh, GuestInv, GuestsInv, AdmittedPc
<1>2. UserInv /\ GuestsInv /\ [Next]_vars => GuestsInv'
  <2> SUFFICES ASSUME UserInv, GuestsInv, [Next]_vars, NEW k \in Logins PROVE GuestInv(k)'
    BY DEF GuestsInv
  <2>1. CASE UNCHANGED vars
    BY <2>1 DEF GuestInv, GuestsInv, vars
  <2>3. ASSUME NEW q \in Redirects, Begin(q) PROVE GuestInv(k)'
    BY <2>3, BeginFrame DEF UserInv, GuestInv, GuestsInv
  <2>2. ASSUME NEW l \in Logins, Step(l) PROVE GuestInv(k)'
    <3>1. Step(l)
      BY <2>2
    <3>2. CASE k = l
      BY <3>1, <3>2, GuestInvStep DEF GuestsInv
    <3>3. CASE k # l
      <4>1. login'[k] = login[k]
        BY <3>1, <3>3, Frame DEF UserInv
      <4> QED
        BY <4>1 DEF GuestInv, GuestsInv
    <3> QED
      BY <3>2, <3>3
  <2> QED
    BY <2>1, <2>2, <2>3 DEF Next
<1> QED
  BY <1>1, <1>2, UserAlways, PTL DEF Spec

\* The login of ui_sso.py implements UserDirectory for any number of logins, users
\* and teams: whoever the domain check refuses gets no row, role or team, and no
\* row, role or membership is ever taken away.
THEOREM KeepsDirectoryHolds == Spec => KeepsDirectory
<1>1. Init => Directory!Init
  <2> SUFFICES ASSUME Init PROVE Directory!Init
    OBVIOUS
  <2>1. \A l \in Logins : login[l].pc = "home"
    BY DEF Init, Fresh
  <2>2. Guests = {}
    BY <2>1 DEF Guests, AdmittedPc
  <2> QED
    BY <2>2 DEF Init, Directory!Init, Directory!Rows, Rows, Guests, AdmittedPc
<1>2. UserInv /\ GuestsInv /\ [Next]_vars => [Directory!Next]_(Directory!vars)
  BY DirectoryStep DEF GuestsInv
<1> QED
  BY <1>1, <1>2, GuestsAlways, PTL DEF Spec, KeepsDirectory, Directory!Spec

\* A person of a refused e-mail domain keeps row and teams as they are, although
\* rows are also found by e-mail and other logins run meanwhile (ui_sso.py:2781).
THEOREM RefusedUntouchedHolds == Spec => Directory!RefusedUntouched
<1> DEFINE Kept(u) ==
      row'[u] = row[u] /\ \A t \in Teams : u \in member'[t] <=> u \in member[t]
<1>1. ASSUME UserInv, GuestsInv, [Next]_vars
      PROVE  [\A u \in Ids \ AllowedIds : Kept(u)]_(Directory!vars)
  <2>1. Directory!Next \/ UNCHANGED Directory!vars
    BY <1>1, DirectoryStep DEF GuestsInv
  <2>2. Guests \subseteq Ids \cap AllowedIds
    <3> SUFFICES ASSUME NEW l \in Logins, login[l].pc \in AdmittedPc
                 PROVE  login[l].id \in Ids \cap AllowedIds
      BY DEF Guests
    <3> QED
      BY <1>1 DEF UserInv, LoginInv, GuestsInv, GuestInv, AdmittedPc
  <2>3. row \in [Ids -> Roles \cup {None, Absent}] /\ member \in [Teams -> SUBSET Ids]
    BY <1>1 DEF UserInv, TypeOK
  <2>4. ASSUME NEW u \in Ids, Directory!LetIn(u) PROVE u \in AllowedIds
    BY <2>2, <2>4, UserAssumption DEF Directory!LetIn, Guests, AdmittedPc
  <2>5. ASSUME NEW v \in Ids, NEW u \in Ids \ AllowedIds,
               \/ Directory!Admit(v)
               \/ \E role \in Roles : Directory!Enrol(v, role) \/ Directory!Appoint(v, role)
               \/ \E t \in Teams : Directory!Join(v, t)
        PROVE  Kept(u)
    <3>1. CASE Directory!Admit(v)
      BY <3>1 DEF Directory!Admit
    <3>2. ASSUME NEW role \in Roles, Directory!Enrol(v, role) PROVE Kept(u)
      <4>1. v # u
        BY <2>2, <3>2 DEF Directory!Enrol, Guests, AdmittedPc
      <4> QED
        BY <2>3, <3>2, <4>1 DEF Directory!Enrol
    <3>3. ASSUME NEW role \in Roles, Directory!Appoint(v, role) PROVE Kept(u)
      <4>1. v # u
        BY <2>4, <3>3 DEF Directory!Appoint
      <4> QED
        BY <2>3, <3>3, <4>1 DEF Directory!Appoint
    <3>4. ASSUME NEW t \in Teams, Directory!Join(v, t) PROVE Kept(u)
      <4>1. v # u
        BY <2>4, <3>4 DEF Directory!Join
      <4> QED
        BY <2>3, <3>4, <4>1 DEF Directory!Join
    <3> QED
      BY <2>5, <3>1, <3>2, <3>3, <3>4
  <2>6. ASSUME NEW t \in Teams, Directory!MakeTeam(t), NEW u \in Ids PROVE Kept(u)
    BY <2>6 DEF Directory!MakeTeam
  <2> HIDE DEF Kept
  <2> QED
    BY <2>1, <2>5, <2>6 DEF Directory!Next
<1> QED
  BY <1>1, GuestsAlways, PTL DEF Spec, Directory!RefusedUntouched
=============================================================================
