--------------------------- MODULE MCRunLifecycle ---------------------------
(* Small instances of RunLifecycle for TLC. *)
EXTENDS RunLifecycle, TLC

\* Requests and addresses are interchangeable; the runs that check a temporal
\* property under fairness do not use the symmetry.
Symmetry == Permutations(Requests) \cup Permutations(Addresses) \cup Permutations(Runs)
            \cup Permutations(Investigations)
=============================================================================
