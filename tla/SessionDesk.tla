----------------------------- MODULE SessionDesk -----------------------------
(***************************************************************************)
(* What people may rely on at a dashboard with single sign-on, without its *)
(* requests, its cookies on their way and its cached configuration: a      *)
(* session is opened by a password or by an authorization code that pays   *)
(* for nothing else, a browser only comes to hold the session of a login   *)
(* of its own, a session that is over stays over, and a ticket opens one   *)
(* socket, while the session it was issued for is live.  DashboardSession  *)
(* implements it (DashboardSession!KeepsDesk).                             *)
(***************************************************************************)
EXTENDS Naturals

CONSTANTS Browsers, Tokens, States, Tickets, None, Dummy

VARIABLES
    begunIn,   \* [States -> browser that began the login, or None]
    redeemed,  \* states whose code the provider took
    row,       \* [Tokens -> "unborn", "live" or "over"]
    origin,    \* [Tokens -> state that paid for the session, or None]
    holds,     \* [Browsers -> the session its cookie names, or None]
    issuedTo,  \* [Tickets -> session each was issued for, Dummy or None]
    opened     \* [Tickets -> sockets]

vars == <<begunIn, redeemed, row, origin, holds, issuedTo, opened>>
logins == <<begunIn, redeemed>>
sessions == <<row, origin>>
tickets == <<issuedTo, opened>>

Init ==
    /\ begunIn = [s \in States |-> None]
    /\ redeemed = {}
    /\ row = [t \in Tokens |-> "unborn"]
    /\ origin = [t \in Tokens |-> None]
    /\ holds = [b \in Browsers |-> None]
    /\ issuedTo = [k \in Tickets |-> None]
    /\ opened = [k \in Tickets |-> 0]

Begin(s, b) ==
    /\ begunIn[s] = None
    /\ begunIn' = [begunIn EXCEPT ![s] = b]
    /\ UNCHANGED <<redeemed, sessions, holds, tickets>>

Redeem(s) ==
    /\ begunIn[s] # None /\ s \notin redeemed
    /\ redeemed' = redeemed \cup {s}
    /\ UNCHANGED <<begunIn, sessions, holds, tickets>>

\* With a password, or with a code that has not paid for a session yet.
SignIn(t, payment) ==
    /\ row[t] = "unborn"
    /\ payment # None => payment \in redeemed /\ \A u \in Tokens : origin[u] # payment
    /\ row' = [row EXCEPT ![t] = "live"]
    /\ origin' = [origin EXCEPT ![t] = payment]
    /\ UNCHANGED <<logins, holds, tickets>>

Mine(b, t) == row[t] # "unborn" /\ (origin[t] # None => begunIn[origin[t]] = b)

\* A browser may still be handed a session that ended on the way.
Hold(b, t) ==
    /\ t # None => Mine(b, t)
    /\ holds' = [holds EXCEPT ![b] = t]
    /\ UNCHANGED <<logins, sessions, tickets>>

\* By logout or expiry, for good.
End(t) ==
    /\ row[t] = "live"
    /\ row' = [row EXCEPT ![t] = "over"]
    /\ UNCHANGED <<logins, origin, holds, tickets>>

Issue(k, t) ==
    /\ issuedTo[k] = None
    /\ t # Dummy => row[t] # "unborn"
    /\ issuedTo' = [issuedTo EXCEPT ![k] = t]
    /\ UNCHANGED <<logins, sessions, holds, opened>>

OpenSocket(k) ==
    /\ opened[k] = 0
    /\ issuedTo[k] \in Tokens /\ row[issuedTo[k]] = "live"
    /\ opened' = [opened EXCEPT ![k] = 1]
    /\ UNCHANGED <<logins, sessions, holds, issuedTo>>

Next ==
    \/ \E s \in States : Redeem(s) \/ \E b \in Browsers : Begin(s, b)
    \/ \E t \in Tokens : End(t) \/ \E payment \in States \cup {None} : SignIn(t, payment)
    \/ \E b \in Browsers : \E t \in Tokens \cup {None} : Hold(b, t)
    \/ \E k \in Tickets : OpenSocket(k) \/ \E t \in Tokens \cup {Dummy} : Issue(k, t)

Spec == Init /\ [][Next]_vars
=============================================================================
