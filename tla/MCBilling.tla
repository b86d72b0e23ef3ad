----------------------------- MODULE MCBilling -----------------------------
(***************************************************************************)
(* An instance of Billing for TLC.                                         *)
(***************************************************************************)
EXTENDS Billing

CONSTANTS p1, r1, i1, i2, d1, d2, v1, v2, t1, t2, t3, t4

ADeployment == [secret |-> "valid", webhook |-> TRUE, prices |-> {"flat", "pro"}]

\* One that sells, and one whose secret is the wrong value.
SomeDeployments == {ADeployment, [ADeployment EXCEPT !.secret = "malformed"]}

\* Prepaid keys are used while checkouts complete; reports are viewed apart:
\* views and the other two share no more than the write lock.
SomeTraffic == {{"checkout", "prepaid"}, {"report"}}

=============================================================================
