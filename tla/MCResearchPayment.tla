-------------------------- MODULE MCResearchPayment --------------------------
(* Instances of ResearchPayment for TLC.                                    *)
EXTENDS ResearchPayment, TLC

\* Runners, attempts and passes are interchangeable; used for safety only.
Symmetry ==
    Permutations(Runners) \cup Permutations(Attempts)
        \cup Permutations(Reconcilers)
=============================================================================
