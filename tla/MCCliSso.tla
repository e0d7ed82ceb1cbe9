------------------------------ MODULE MCCliSso ------------------------------
(* CliSso on small sets.  The members of each set are interchangeable, so   *)
(* safety is checked up to their permutations.                              *)
EXTENDS CliSso, TLC

Symmetry == Permutations(Logins) \cup Permutations(Browsers)
            \cup Permutations(Posts) \cup Permutations(Users)
            \cup Permutations(Teams) \cup Permutations(Ips)
=============================================================================
