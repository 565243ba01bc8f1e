--------------------------- MODULE MCRefreshTokens ---------------------------
(* RefreshTokens on small sets.  Hashes, families, users and requests are    *)
(* interchangeable.                                                          *)
EXTENDS RefreshTokens, TLC

Symmetry == Permutations(Hash) \cup Permutations(Family) \cup
            Permutations(User) \cup Permutations(Request)
=============================================================================
