-------------------------------- MODULE SignOn --------------------------------
(***************************************************************************)
(* What people may rely on at a sign-on with PKCE, without its callbacks,  *)
(* cookies, verifiers and pods: a login is begun in a browser, the person  *)
(* consents once, the consent is redeemed once, and one sign-in follows,   *)
(* in a browser that began a login with the same state.  Pkce implements   *)
(* it (Pkce!KeepsSignOn).                                                  *)
(***************************************************************************)
CONSTANTS Browsers, Trips, StateOf, None

VARIABLES
    begunIn,  \* [Trips -> browser that was redirected, or None]
    consent,  \* [Trips -> "none", "denied", "granted" or "redeemed"]
    signedIn  \* [Trips -> set of browsers]

vars == <<begunIn, consent, signedIn>>

Init ==
    /\ begunIn = [t \in Trips |-> None]
    /\ consent = [t \in Trips |-> "none"]
    /\ signedIn = [t \in Trips |-> {}]

Begin(t, b) ==
    /\ begunIn[t] = None
    /\ begunIn' = [begunIn EXCEPT ![t] = b]
    /\ UNCHANGED <<consent, signedIn>>

Decide(t, outcome) ==
    /\ begunIn[t] # None /\ consent[t] = "none"
    /\ consent' = [consent EXCEPT ![t] = outcome]
    /\ UNCHANGED <<begunIn, signedIn>>

\* Whether a sign-in follows or not.
Redeem(t) ==
    /\ consent[t] = "granted"
    /\ consent' = [consent EXCEPT ![t] = "redeemed"]
    /\ UNCHANGED <<begunIn, signedIn>>

\* The trips t may be taken for.
Alike(t) == {u \in Trips : StateOf[u] = StateOf[t]}

SignIn(t, b) ==
    /\ consent[t] = "redeemed" /\ signedIn[t] = {}
    /\ \E u \in Alike(t) : begunIn[u] = b
    /\ signedIn' = [signedIn EXCEPT ![t] = {b}]
    /\ UNCHANGED <<begunIn, consent>>

Next ==
    \/ \E t \in Trips, b \in Browsers : Begin(t, b) \/ SignIn(t, b)
    \/ \E t \in Trips, outcome \in {"granted", "denied"} : Decide(t, outcome)
    \/ \E t \in Trips : Redeem(t)

Spec == Init /\ [][Next]_vars
=============================================================================
