---------------------------- MODULE MCEnrollment ----------------------------
EXTENDS Enrollment, TLC
AdBlock(p) == IF p = "wireguard-native" THEN "wireguard-adblock" ELSE "none"
Symmetry == Permutations(Attempts) \cup Permutations(Tokens) \cup Permutations(Labels) \cup Permutations(Endpoints)
=============================================================================
