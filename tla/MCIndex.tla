------------------------------ MODULE MCIndex -------------------------------
(* VectorIndex for TLC: two persons, and a profile memory of one of them,    *)
(* about which search asks more than about a log.  Workers are alike.        *)
EXTENDS VectorIndex, TLC

CONSTANTS a, b, profile

MCPersons  == {a, b}
MCMemories == {profile}
MCProfiles == {profile}
MCHost     == profile :> b
MCSymmetry == Permutations(Workers)
=============================================================================
