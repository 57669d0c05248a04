--------------------------- MODULE MCEventIntake ---------------------------
EXTENDS EventIntake, TLC

CONSTANTS k1, k2, v1, v2

(* Keys and contents are only compared.                                    *)
Symmetry == Permutations(Keys) \cup Permutations(Versions)
=============================================================================
