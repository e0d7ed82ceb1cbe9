----------------------------- MODULE UserDirectory -----------------------------
(***************************************************************************)
(* What an administrator may rely on of the user and team tables, without  *)
(* the steps of a login: only people whose e-mail domain is allowed get in *)
(* and only they get a row, a role or a team, a role is replaced but never *)
(* taken away, teams are joined by users with a row, and nothing is        *)
(* deleted.  SsoUser implements it (SsoUser!KeepsDirectory).               *)
(***************************************************************************)
CONSTANTS Ids, Email, AllowedIds, Teams, Roles, Stored, Absent

VARIABLES
    row,      \* [Ids -> role, None for no role, or Absent]
    team,     \* teams that exist
    member,   \* [Teams -> users]
    admitted  \* ids that logins have let in

vars == <<row, team, member, admitted>>

Rows == {u \in Ids : row[u] # Absent}

Init ==
    /\ row \in [Ids -> Stored]
    /\ team \in SUBSET Teams
    /\ member \in [Teams -> SUBSET Rows]
    /\ admitted = {}

Admit(id) ==
    /\ id \in AllowedIds
    /\ admitted' = admitted \cup {id}
    /\ UNCHANGED <<row, team, member>>

\* The user a login is taken for: its own, or one with the same e-mail.
LetIn(u) == \E id \in admitted : u = id \/ Email[u] = Email[id]

Enrol(u, role) ==
    /\ u \in admitted \ Rows
    /\ row' = [row EXCEPT ![u] = role]
    /\ UNCHANGED <<team, member, admitted>>

Appoint(u, role) ==
    /\ u \in Rows /\ LetIn(u)
    /\ row' = [row EXCEPT ![u] = role]
    /\ UNCHANGED <<team, member, admitted>>

MakeTeam(t) ==
    /\ team' = team \cup {t}
    /\ UNCHANGED <<row, member, admitted>>

Join(u, t) ==
    /\ u \in Rows /\ LetIn(u) /\ t \in team
    /\ member' = [member EXCEPT ![t] = member[t] \cup {u}]
    /\ UNCHANGED <<row, team, admitted>>

Next ==
    \/ \E u \in Ids :
          \/ Admit(u)
          \/ \E role \in Roles : Enrol(u, role) \/ Appoint(u, role)
          \/ \E t \in Teams : Join(u, t)
    \/ \E t \in Teams : MakeTeam(t)

Spec == Init /\ [][Next]_vars

-----------------------------------------------------------------------------
\* What follows for a person of a refused domain (ALLOWED_EMAIL_DOMAINS): neither
\* its row nor its teams ever change, whoever else signs in.
RefusedUntouched ==
    [][\A u \in Ids \ AllowedIds :
          row'[u] = row[u] /\ \A t \in Teams : u \in member'[t] <=> u \in member[t]]_vars
=============================================================================
