---------------------------- MODULE MCWorkerServe ----------------------------
(* Finite instances of WorkerServe. *)
EXTENDS WorkerServe, TLC

CONSTANTS w1, w2, k1

\* Every rail, and a request that sends no key.
MixedRequests ==
  {[rail |-> r, key |-> k1] : r \in {"prepaid", "hash", "evm"}}
    \cup {[rail |-> "svm", key |-> None]}

\* Retries of a caller who pays with a prepaid key.
PrepaidRequests == {[rail |-> "prepaid", key |-> k1]}

\* One x402 payment that names its payer from the start.
EvmRequests == {[rail |-> "evm", key |-> None]}

==============================================================================
