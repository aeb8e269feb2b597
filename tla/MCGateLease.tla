------------------------------ MODULE MCGateLease ------------------------------
\* Three connections of one user, each with one binding.
EXTENDS GateLease, TLC

MCSymmetry == Permutations(Conns)
=============================================================================
