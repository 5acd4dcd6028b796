--------------------------- MODULE MCObjectStore ---------------------------
(* Instances of ObjectStore for TLC.                                       *)
EXTENDS ObjectStore, TLC

\* Sessions, commit goroutines, addresses and updates are interchangeable; no
\* liveness property is checked under this symmetry.
Symmetry ==
    Permutations(Sessions) \cup Permutations(Commits)
        \cup Permutations(Objects) \cup Permutations(Updates)

\* Spec under this constraint is SoloSpec, with its actions told apart.
OneStruct == SingleInstance'
=============================================================================
