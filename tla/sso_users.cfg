INIT MCInit
NEXT Next
CONSTANTS
    None = None
    Absent = Absent
    g1 = g1 g2 = g2 t1 = t1 t2 = t2 u1 = u1 u2 = u2 u3 = u3 l1 = l1 l2 = l2 q1 = q1 q2 = q2
    Groups = {g1, g2}
    Teams = {t1, t2}
    Ids = {u1, u2, u3}
    Redirects = {q1, q2}
    Logins = {l1, l2}
    Email <- MCEmail
    Stored = {"internal_user", Absent}
    Profiles <- MCProfiles
    Deployments <- MCDeployments
    PrincipalTeams = {t1}
    MaxPages = 2
    RestrictedGroup = t1
    AllowedIds = {u1, u2}
    DefaultUserRole = None
    AdminId = u2
    Premium = FALSE
    RawLimit = 1
    LicenseUsers = 0
SYMMETRY Symmetry
INVARIANTS TypeOK UserHasRow NoGroupLost MembersExist RoleSettles ReportAgrees StrongestRole SameRoleFromToken
PROPERTIES  KeepsDirectory
CHECK_DEADLOCK FALSE
