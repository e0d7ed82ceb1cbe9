------------------------------- MODULE MCSsoUser -------------------------------
EXTENDS SsoUser, TLC

CONSTANTS g1, g2, t1, t2, u1, u2, u3, l1, l2, q1, q2

Symmetry == Permutations(Logins) \cup Permutations(Redirects)

\* u1 and u2 are one person's accounts at two providers.
MCEmail == [u \in Ids |-> IF u = u3 THEN "third" ELSE "shared"]

\* Two groups of one mapping, of which g2 gives the stronger role.
MCMapping == [roles |-> "internal_user" :> {g1} @@ "proxy_admin" :> {g2},
              default |-> None, generic |-> FALSE]

\* Both groups give two roles, everybody else gets a default.
MCDefaulted == [roles |-> "proxy_admin_viewer" :> {g1, g2} @@ "internal_user" :> {g2},
                default |-> "internal_user_viewer", generic |-> TRUE]

Nobody == [info |-> NoClaims, token |-> None, mapped |-> None, pages |-> << >>,
           appRoles |-> << >>]

MCProfiles ==
    {Nobody,
     [Nobody EXCEPT !.info = [groups |-> {g1}, role |-> None, teams |-> {t1}],
                    !.pages = <<{t1}, {t2}>>,
                    !.appRoles = <<None, "internal_user", "proxy_admin">>],
     [Nobody EXCEPT !.token = [groups |-> {g1, g2}, role |-> None, teams |-> {t1, t2}],
                    !.mapped = "proxy_admin_viewer",
                    !.pages = <<{}, {t1}, {t2}>>],
     [Nobody EXCEPT !.mapped = "proxy_admin_viewer", !.pages = <<{t1, t2}>>]}

MCDeployments ==
    {[provider |-> "generic", mode |-> "restricted_sso_group", db |-> MCDefaulted,
      env |-> MCMapping],
     [provider |-> "generic", mode |-> "admin_only", db |-> MCDefaulted, env |-> None],
     [provider |-> "microsoft", mode |-> "admin_only", db |-> None, env |-> None],
     [provider |-> "google", mode |-> "open", db |-> None, env |-> None]}

\* The teams of the service principal are still to be made, of those that other
\* providers name one is there already; nobody is in a team.
MCInit ==
    /\ Init
    /\ team = IF Provider = "microsoft" THEN {} ELSE {t1}
    /\ \A t \in Teams : member[t] = {}
=============================================================================
