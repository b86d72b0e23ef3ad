--------------------------- MODULE MCPaymentGate ---------------------------
(***************************************************************************)
(* Instances of PaymentGate for TLC.  Each set of requests brings the      *)
(* instruments of one question together; several calls may send the same   *)
(* request, which is how copies of one payment race.                       *)
(***************************************************************************)
EXTENDS PaymentGate, TLC

CONSTANTS c1, c2, c3, k1, k2, k3, s1, a1, a2, n1, p1, p2, t1, h1, h2

Send(price, key, auth, cred) ==
  [price |-> price, key |-> key, auth |-> auth, cred |-> cred]

\* Prepaid keys: a sold one, and the ones two top-ups mint or refill, at a
\* cheap route and at one as dear as the smaller top-up; a subscriber's key.
KeyRequests ==
  {Send(2, k1, None, None), Send(1, k2, None, None), Send(1, k1, None, p1),
   Send(2, None, None, p2), Send(1, s1, None, None)}

\* Payments made call by call: two authorizations with a nonce, one without,
\* a Stripe token, a hash and a hash in another spelling.
PaymentRequests ==
  {Send(2, None, a1, t1), Send(2, None, a1, None), Send(1, None, n1, h1),
   Send(1, None, None, h1), Send(1, None, None, h2), Send(2, InternalKey, a2, None)}

\* A bit of everything, so that one call falls through all the rails.
MixedRequests ==
  {Send(1, k1, a1, p1), Send(1, s1, n1, h1), Send(2, None, a1, t1),
   Send(1, InternalKey, None, None), Send(1, None, None, p2)}

\* The three calls of a behaviour bring instruments of one family: prepaid
\* keys and top-ups, or payments made call by call.
OneFamily ==
  \E family \in {KeyRequests, PaymentRequests} :
    \A c \in Calls : pc[c] = "idle" \/ req[c] \in family
CallRequests == KeyRequests \cup PaymentRequests

Cents == [p \in Creds |-> CASE p = p1 -> 3 [] p = p2 -> 2 [] OTHER -> 1]
Signed == [a \in Auths |-> IF a = n1 THEN 1 ELSE 2]

Interchangeable == Permutations(Calls)
=============================================================================
