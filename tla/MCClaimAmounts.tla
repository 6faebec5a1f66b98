--------------------------- MODULE MCClaimAmounts ---------------------------
(* Claims of whole units and of parts of one.                              *)
EXTENDS ClaimAmounts

SmallClaims == {All, 1, 2, 3, 7, 40}
=============================================================================
