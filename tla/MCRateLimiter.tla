--------------------------- MODULE MCRateLimiter ---------------------------
(* Instances of RateLimiter for TLC.                                        *)
EXTENDS RateLimiter, TLC

CONSTANTS k1, k2, c1, c2

Symmetry == Permutations(Keys) \union Permutations(Callers)
=============================================================================
