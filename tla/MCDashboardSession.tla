-------------------------- MODULE MCDashboardSession --------------------------
(* DashboardSession on small sets of interchangeable members.               *)
EXTENDS DashboardSession, TLC

Symmetry == Permutations(Browsers) \cup Permutations(Requests)
            \cup Permutations(Tokens) \cup Permutations(States)
            \cup Permutations(Tickets)
=============================================================================
