--------------------------- MODULE MCSolanaRedeem ---------------------------
(***************************************************************************)
(* Two payments and two challenges.  Transaction x carries both            *)
(* references, y only the first and pays more than it asks: a payment under*)
(* two challenges, a challenge under two payments, and a sum that is not a *)
(* whole number of cents.                                                  *)
(***************************************************************************)
EXTENDS SolanaRedeem, TLC

CONSTANTS r1, r2, x, y, f1, f2, k1, k2, k3

Carried == {<<x, f1>>, <<x, f2>>, <<y, f1>>}
Arrived == x :> 2 @@ y :> 5
Due     == f1 :> 2 @@ f2 :> 2
=============================================================================
