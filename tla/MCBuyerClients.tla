--------------------------- MODULE MCBuyerClients ---------------------------
(* Finite instances of BuyerClients. *)
EXTENDS BuyerClients, TLC

CONSTANTS c1, c2, c3, p1, p2, asked, other

\* Two calls of one process ask the same question; a second process on the
\* machine asks another one.
SomeCalls == {c1, c2, c3}
SomeProcess == c1 :> p1 @@ c2 :> p1 @@ c3 :> p2
SomeQuestion == c1 :> asked @@ c2 :> asked @@ c3 :> other
SomePrice == asked :> 2 @@ other :> 3

=============================================================================
