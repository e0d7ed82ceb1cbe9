-------------------------------- MODULE MCPkce --------------------------------
(* Pkce on small sets: browser logins, each with a state of its own, next to *)
(* two trips of one CLI login.                                              *)
EXTENDS Pkce, TLC

CONSTANTS t1, t2, t3, s1, s2

\* t1 and t2 are two trips of one CLI login; t3 is a browser login.
CliAndUi == t1 :> s1 @@ t2 :> s1 @@ t3 :> s2

TwoUi == t1 :> s1 @@ t2 :> s2

\* Two trips with the same state are interchangeable.
Symmetry == Permutations(Browsers) \cup Permutations(Requests)
            \cup Permutations({t1, t2})
=============================================================================
