----------------------------- MODULE DeviceLogin -----------------------------
(***************************************************************************)
(* What the command-line login promises, without its cache, its handlers   *)
(* and what they hold between two awaits: people come back from the        *)
(* identity provider to a login that was begun, one of them confirms it    *)
(* with the code of the terminal, and from then on the terminal is given   *)
(* tokens in the name of people who came back to this login.  CliSso       *)
(* implements it (CliSso!KeepsPromise).                                    *)
(***************************************************************************)
EXTENDS Naturals

CONSTANTS Logins, Users, Teams, None

VARIABLES
    begun,      \* logins that were started
    people,     \* [Logins -> people that came back from the provider]
    confirmed,  \* [Logins -> those on whose page the code was accepted]
    granted,    \* [Logins -> tokens given out]
    given       \* [Logins -> how many]

vars == <<begun, people, confirmed, granted, given>>

Person == [user: Users, teams: SUBSET Teams]

\* A token is for one of a person's teams, or for none if there are none.
TokenFor(person, team, l) == [user |-> person.user, team |-> team, cli |-> l]
MayHave(person, team) ==
    IF team = None THEN person.teams = {} ELSE team \in person.teams

Init ==
    /\ begun = {}
    /\ people = [l \in Logins |-> {}]
    /\ confirmed = [l \in Logins |-> {}]
    /\ granted = [l \in Logins |-> {}]
    /\ given = [l \in Logins |-> 0]

Begin(l) ==
    /\ l \notin begun
    /\ begun' = begun \cup {l}
    /\ UNCHANGED <<people, confirmed, granted, given>>

ComeBack(l, person) ==
    /\ l \in begun
    /\ people' = [people EXCEPT ![l] = @ \cup {person}]
    /\ UNCHANGED <<begun, confirmed, granted, given>>

Confirm(l, person) ==
    /\ person \in people[l]
    /\ confirmed' = [confirmed EXCEPT ![l] = @ \cup {person}]
    /\ UNCHANGED <<begun, people, granted, given>>

Grant(l, person, team) ==
    /\ confirmed[l] # {}
    /\ person \in people[l] /\ MayHave(person, team)
    /\ granted' = [granted EXCEPT ![l] = @ \cup {TokenFor(person, team, l)}]
    /\ given' = [given EXCEPT ![l] = @ + 1]
    /\ UNCHANGED <<begun, people, confirmed>>

Next ==
    \E l \in Logins :
        \/ Begin(l)
        \/ \E person \in Person :
              \/ ComeBack(l, person)
              \/ Confirm(l, person)
              \/ \E team \in Teams \cup {None} : Grant(l, person, team)

Spec == Init /\ [][Next]_vars
=============================================================================
