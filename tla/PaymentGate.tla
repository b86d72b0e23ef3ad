---------------------------- MODULE PaymentGate ----------------------------
(***************************************************************************)
(* The one payment gate every paid route of the node goes through          *)
(* (app/main.py, _authorize_and_rate_limit .. _settlement_refused), with   *)
(* the rails behind it: internal key, prepaid key, subscriber key, x402    *)
(* (verify before the work, settle after it) and MPP (a credential for one *)
(* call, or a top-up that buys a prepaid key).                             *)
(*                                                                         *)
(* A call is one request served by one thread.  A step of a call is one    *)
(* stretch of code between two points where another thread can run: a      *)
(* store transaction, a lock, or a request to Stripe, an RPC node or the   *)
(* facilitator.  Money is counted in cents.                                *)
(***************************************************************************)
EXTENDS Integers, FiniteSets

CONSTANTS
  Calls,          \* requests served, each by its own thread
  Requests,       \* what a payer may send: price of the route and instruments
  Keys,           \* prepaid keys, sold already or to be minted
  SoldKeys,       \* the prepaid keys held by payers at the start
  SoldCredit,     \* the balance of each of them
  Subscribers,    \* API keys of Stripe subscribers
  MonthlyQuota,   \* monthly_quota_for: calls a subscriber's key is good for
  InternalKey,    \* API_KEY, the unmetered key of the operator
  Auths,          \* signed x402 authorizations
  Nonceless,      \* those without an EIP-3009 nonce (a Solana payload)
  AuthCents,      \* what each authorization signs away
  Topups,         \* MPP credentials of intent "topup" (Stripe)
  Tokens,         \* MPP credentials of intent "charge" paid by a Stripe SPT
  Hashes,         \* MPP credentials of intent "charge" that name a transfer
  Respelt,        \* hashes not written the way _verify_evm stores them
  CredCents,      \* amount bound in each MPP challenge
  MaxRestarts,    \* bound: restarts of the process in a behaviour
  None            \* Python's None

Creds == Topups \cup Tokens \cup Hashes

RequestType == [price : Nat,
                key   : Keys \cup Subscribers \cup {InternalKey, None},
                auth  : Auths \cup {None},
                cred  : Creds \cup {None}]

ASSUME GateAssumption ==
  /\ IsFiniteSet(Calls)
  /\ Requests \subseteq RequestType
  /\ \A r \in Requests : r.price > 0
  /\ SoldKeys \subseteq Keys /\ SoldCredit \in Nat /\ MonthlyQuota \in Nat
  /\ Nonceless \subseteq Auths /\ Respelt \subseteq Hashes
  /\ AuthCents \in [Auths -> Nat] /\ CredCents \in [Creds -> Nat]
  /\ None \notin Keys \cup Subscribers \cup Auths \cup Creds \cup {InternalKey}
  /\ InternalKey \notin Keys \cup Subscribers
  /\ Keys \cap Subscribers = {}
  /\ Topups \cap (Tokens \cup Hashes) = {} /\ Tokens \cap Hashes = {}
  /\ Auths \cap Creds = {}
  /\ MaxRestarts \in Nat

VARIABLES
  issued,     \* prepaid keys with a document in api_keys
  balance,    \* prepaid_balance_cents of each key
  wallet,     \* prepaid keys a payer has been handed
  counted,    \* quota_usage: calls counted this month, per subscriber
  metered,    \* cents reported to the Stripe meter, per subscriber
  nonces,     \* _nonces: authorizations admitted by this process
  used,       \* _used_credentials
  overlapped, \* history: credentials read again while being settled
  moved,      \* outside: payments whose money has left the payer
  flying,     \* outside: transfers the facilitator may still complete
  pc,         \* where each call's thread is
  req,        \* what each call sent
  ctx,        \* the AuthContext of each call
  reply,      \* how each call was answered
  epoch       \* restarts so far

keyVars   == <<issued, balance, wallet, counted, metered>>
guardVars == <<nonces, used, overlapped>>
moneyVars == <<moved, flying>>
callVars  == <<pc, req, ctx, reply>>
vars      == <<keyVars, guardVars, moneyVars, callVars, epoch>>

Steps   == {"idle", "key", "address", "admit", "verify", "credential",
            "settling", "mint", "work", "bill", "deliver", "unbill", "done"}
Rails   == {"none", "internal", "prepaid", "stripe", "x402", "mpp", "topup"}
Replies == {"none", "rate_limited", "payment_required", "withheld",
            "delivered", "failed", "lost"}
Settles == {"none", "settled", "pending", "unknown", "refused"}

NoRequest == [price |-> 0, key |-> None, auth |-> None, cred |-> None]

\* AuthContext: the rail, the prepaid key to give a failed call's cents back
\* to and how many, the key this call bought, the credit it is owed, and the
\* state of the pending x402 payment.  refunded, garbled and epoch are
\* history: the cents went back; the facilitator's answer was unreadable;
\* the process that granted the call.
NoContext == [rail |-> "none", key |-> None, cents |-> 0, issued |-> None,
              owed |-> 0, settle |-> "none", refunded |-> FALSE,
              garbled |-> FALSE, epoch |-> 0]

ContextType == [rail : Rails, key : Keys \cup {None}, cents : Nat,
                issued : Keys \cup {None}, owed : Nat, settle : Settles,
                refunded : BOOLEAN, garbled : BOOLEAN, epoch : Nat]

Init ==
  /\ issued = SoldKeys /\ wallet = SoldKeys
  /\ balance = [k \in Keys |-> IF k \in SoldKeys THEN SoldCredit ELSE 0]
  /\ counted = [s \in Subscribers |-> 0]
  /\ metered = [s \in Subscribers |-> 0]
  /\ nonces = {} /\ used = {} /\ overlapped = {}
  /\ moved = Hashes /\ flying = {}
  /\ pc = [c \in Calls |-> "idle"]
  /\ req = [c \in Calls |-> NoRequest]
  /\ ctx = [c \in Calls |-> NoContext]
  /\ reply = [c \in Calls |-> "none"]
  /\ epoch = 0

-----------------------------------------------------------------------------
Goto(c, step) == pc' = [pc EXCEPT ![c] = step]

Answer(c, kind) == Goto(c, "done") /\ reply' = [reply EXCEPT ![c] = kind]

\* _authenticate returns an AuthContext: the route goes on to the work.
Grant(c, rail, key, cents, bought, owed) ==
  /\ ctx' = [ctx EXCEPT ![c] =
               [rail |-> rail, key |-> key, cents |-> cents, issued |-> bought,
                owed |-> owed, settle |-> "none", refunded |-> FALSE,
                garbled |-> FALSE, epoch |-> epoch]]
  /\ Goto(c, "work")

\* A request arrives and meets the limiter before anything of it is read.
\* The limiter's table is a module of its own; here it says yes or no.  A key
\* that was minted but not handed to anybody cannot be sent.
Arrive(c) ==
  /\ pc[c] = "idle"
  /\ \E r \in Requests :
       /\ r.key \in issued => r.key \in wallet
       /\ req' = [req EXCEPT ![c] = r]
  /\ \/ Goto(c, "key") /\ UNCHANGED reply
     \/ Answer(c, "rate_limited")
  /\ UNCHANGED <<keyVars, guardVars, moneyVars, ctx, epoch>>

\* spend_prepaid took the call's price off the key in one transaction.
SpendPrepaid(c) ==
  LET k == req[c].key IN
  /\ k \in issued /\ balance[k] >= req[c].price
  /\ balance' = [balance EXCEPT ![k] = @ - req[c].price]
  /\ Grant(c, "prepaid", k, req[c].price, None, 0)
  /\ UNCHANGED <<issued, wallet, counted, metered>>

\* check_and_increment_quota: counted while under the cap; an error of the
\* store lets the call through uncounted.
SpendQuota(c) ==
  LET s == req[c].key IN
  /\ s \in Subscribers
  /\ \/ /\ counted[s] < MonthlyQuota
        /\ counted' = [counted EXCEPT ![s] = @ + 1]
     \/ UNCHANGED counted
  /\ Grant(c, "stripe", None, 0, None, 0)
  /\ UNCHANGED <<issued, balance, wallet, metered>>

\* The key did not authenticate the call: unknown, store unreachable, out of
\* credit, over quota.
KeyFallsThrough(c) ==
  /\ req[c].key # InternalKey
  /\ Goto(c, IF req[c].key = None THEN "admit" ELSE "address")
  /\ UNCHANGED <<keyVars, ctx>>

\* The X-API-Key branch of _authenticate.
UseKey(c) ==
  /\ pc[c] = "key"
  /\ \/ /\ req[c].key = InternalKey
        /\ Grant(c, "internal", None, 0, None, 0)
        /\ UNCHANGED keyVars
     \/ SpendPrepaid(c)
     \/ SpendQuota(c)
     \/ KeyFallsThrough(c)
  /\ UNCHANGED <<guardVars, moneyVars, req, reply, epoch>>

\* A key that did not authenticate is charged to the caller's address.
CheckAddress(c) ==
  /\ pc[c] = "address"
  /\ \/ Goto(c, "admit") /\ UNCHANGED reply
     \/ Answer(c, "rate_limited")
  /\ UNCHANGED <<keyVars, guardVars, moneyVars, req, ctx, epoch>>

\* Variant: the guard remembers nothing.
GuardedNever(a) == {}

\* An authorization that carries a nonce is remembered; one without is not.
Guarded(a) == {a} \ Nonceless

\* Variant: a replay waits for the first copy instead of being refused.
AdmitNonceWaits(c) ==
  /\ pc[c] = "admit"
  /\ req[c].auth \notin nonces
  /\ IF req[c].auth = None
       THEN Goto(c, "credential") /\ UNCHANGED nonces
       ELSE Goto(c, "verify") /\ nonces' = nonces \cup Guarded(req[c].auth)
  /\ UNCHANGED <<keyVars, used, overlapped, moneyVars, req, ctx, reply, epoch>>

\* _admit_nonce, under its lock: the first presentation goes to the
\* facilitator, a replay is refused and the MPP credential is read instead.
AdmitNonce(c) ==
  /\ pc[c] = "admit"
  /\ IF req[c].auth = None \/ req[c].auth \in nonces
       THEN Goto(c, "credential") /\ UNCHANGED nonces
       ELSE Goto(c, "verify") /\ nonces' = nonces \cup Guarded(req[c].auth)
  /\ UNCHANGED <<keyVars, used, overlapped, moneyVars, req, ctx, reply, epoch>>

\* Variant: the payment is settled where it is verified, before the work.
VerifyPaymentSettles(c) ==
  /\ pc[c] = "verify"
  /\ AuthCents[req[c].auth] >= req[c].price
  /\ Grant(c, "x402", None, 0, None, 0)
  /\ moved' = moved \cup {req[c].auth}
  /\ UNCHANGED <<keyVars, guardVars, flying, req, reply, epoch>>

\* verify_only_sync after admission: the local comparison with the challenge
\* (a v1 payload may sign more), then the facilitator.  A mismatch, a "no" and an exception release the nonce.
VerifyPayment(c) ==
  /\ pc[c] = "verify"
  /\ \/ /\ AuthCents[req[c].auth] >= req[c].price
        /\ Grant(c, "x402", None, 0, None, 0)
        /\ UNCHANGED nonces
     \/ /\ nonces' = nonces \ {req[c].auth}
        /\ Goto(c, "credential")
        /\ UNCHANGED ctx
  /\ UNCHANGED <<keyVars, used, overlapped, moneyVars, req, reply, epoch>>

\* settle_topup_sync and verify_and_settle_sync up to the request they send:
\* a missing, unbound, expired or used credential ends in the 402.
ReadCredential(c) ==
  /\ pc[c] = "credential"
  /\ \/ /\ req[c].cred \in Creds \ used
        /\ Goto(c, "settling")
        /\ overlapped' = overlapped \cup
             {req[d].cred : d \in {e \in Calls \ {c} :
                /\ pc[e] = "settling" /\ req[e].cred = req[c].cred}}
        /\ UNCHANGED reply
     \/ Answer(c, "payment_required") /\ UNCHANGED overlapped
  /\ UNCHANGED <<keyVars, nonces, used, moneyVars, req, ctx, epoch>>

\* Stripe confirms (the idempotency key makes a repeat the same charge), or
\* the RPC node shows the transfer: the credential is marked used.  What the
\* challenge was for is not compared with this route's price.
CredentialSettles(c) ==
  LET p == req[c].cred IN
  /\ used' = used \cup {p}
  /\ moved' = moved \cup {p}
  /\ IF p \notin Topups
       THEN Grant(c, "mpp", None, 0, None, 0)
       ELSE IF CredCents[p] > req[c].price
              THEN Goto(c, "mint") /\ UNCHANGED ctx
              ELSE Grant(c, "topup", None, 0, None, 0)
  /\ UNCHANGED reply

\* Declined, not found, or the answer was lost: then Stripe may have charged.
CredentialFails(c) ==
  /\ \/ UNCHANGED moved
     \/ req[c].cred \in Tokens \cup Topups /\ moved' = moved \cup {req[c].cred}
  /\ Answer(c, "payment_required")
  /\ UNCHANGED <<used, ctx>>

\* _verify_stripe, _verify_tempo, _verify_evm: the outside call returns.
SettleCredential(c) ==
  /\ pc[c] = "settling"
  /\ CredentialSettles(c) \/ CredentialFails(c)
  /\ UNCHANGED <<keyVars, nonces, overlapped, flying, req, epoch>>

\* Variant: the call a top-up pays for is left on the key as well.
RemainingWhole(c) == CredCents[req[c].cred]

\* What a top-up leaves to spend after the call it came with.
Remaining(c) == CredCents[req[c].cred] - req[c].price

\* The credit bought by a top-up, less this call: onto the prepaid key the
\* caller sent, else onto a fresh key, else owed because the store failed.
MintKey(c) ==
  /\ pc[c] = "mint"
  /\ \/ \E k \in issued \cap {req[c].key} :
          /\ balance' = [balance EXCEPT ![k] = @ + Remaining(c)]
          /\ Grant(c, "topup", k, req[c].price, k, 0)
          /\ UNCHANGED issued
     \/ \E k \in Keys \ issued :
          /\ issued' = issued \cup {k}
          /\ balance' = [balance EXCEPT ![k] = Remaining(c)]
          /\ Grant(c, "topup", k, req[c].price, k, 0)
     \/ /\ Grant(c, "topup", None, 0, None, Remaining(c))
        /\ UNCHANGED <<issued, balance>>
  /\ UNCHANGED <<wallet, counted, metered, guardVars, moneyVars, req, reply, epoch>>

\* The audit or worker ran, or did not.
DoWork(c) ==
  /\ pc[c] = "work"
  /\ Goto(c, "bill") \/ Goto(c, "unbill")
  /\ UNCHANGED <<keyVars, guardVars, moneyVars, req, ctx, reply, epoch>>

Settled(c, state, garbled) ==
  ctx' = [ctx EXCEPT ![c].settle = state, ![c].garbled = garbled]

\* settle_sync.  The facilitator spends an authorization once.  An error whose
\* class says the request may have arrived is "unknown"; every class that
\* _settle_outcome_of does not list is "refused", an unreadable answer too.
SettlePayment(c) ==
  LET a == req[c].auth IN
  \/ /\ a \notin moved
     /\ moved' = moved \cup {a}
     /\ flying' = flying \ {a}
     /\ Settled(c, "settled", FALSE)
  \/ /\ flying' = flying \cup ({a} \ moved)
     /\ \/ a \notin moved /\ Settled(c, "pending", FALSE)
        \/ Settled(c, "unknown", FALSE)
        \/ Settled(c, "refused", TRUE)
     /\ UNCHANGED moved
  \/ Settled(c, "refused", FALSE) /\ UNCHANGED moneyVars

\* Variant: one event too many.
RecordUsageOver(c) ==
  /\ \E n \in 0 .. req[c].price + 1 :
       metered' = [metered EXCEPT ![req[c].key] = @ + n]
  /\ UNCHANGED <<ctx, moneyVars>>

\* record_usage: one meter event per cent; any of them may fail and end it.
RecordUsage(c) ==
  /\ \E n \in 0 .. req[c].price :
       metered' = [metered EXCEPT ![req[c].key] = @ + n]
  /\ UNCHANGED <<ctx, moneyVars>>

\* _bill, reached only when the work produced a result.
Bill(c) ==
  /\ pc[c] = "bill"
  /\ Goto(c, "deliver")
  /\ \/ ctx[c].rail = "x402" /\ SettlePayment(c) /\ UNCHANGED metered
     \/ ctx[c].rail = "stripe" /\ RecordUsage(c)
     \/ /\ ctx[c].rail \notin {"x402", "stripe"}
        /\ UNCHANGED <<ctx, moneyVars, metered>>
  /\ UNCHANGED <<issued, balance, wallet, counted, guardVars, req, reply, epoch>>

\* Variant: the reply leaves the key out.
HandOverNothing(c) == UNCHANGED wallet

\* _attach_issued_key: the reply is the only place the key is ever shown.
HandOver(c) == wallet' = wallet \cup ({ctx[c].issued} \ {None})

\* Variant: a refused settlement is answered with the result all the same.
DeliverRefused(c) ==
  /\ pc[c] = "deliver"
  /\ Answer(c, "delivered") /\ HandOver(c)
  /\ UNCHANGED <<issued, balance, counted, metered, guardVars, moneyVars, req,
                 ctx, epoch>>

\* _deliver: a refused settlement withholds the result; otherwise the result
\* goes out with the key the call bought.
Deliver(c) ==
  /\ pc[c] = "deliver"
  /\ IF ctx[c].settle = "refused"
       THEN Answer(c, "withheld") /\ UNCHANGED wallet
       ELSE Answer(c, "delivered") /\ HandOver(c)
  /\ UNCHANGED <<issued, balance, counted, metered, guardVars, moneyVars, req,
                 ctx, epoch>>

\* Variant: a failed call keeps its credential marked.
UnbillUnreleased(c) ==
  LET k == ctx[c].key IN
  /\ pc[c] = "unbill"
  /\ \/ /\ k # None /\ ctx[c].cents > 0
        /\ balance' = [balance EXCEPT ![k] = @ + ctx[c].cents]
        /\ ctx' = [ctx EXCEPT ![c].refunded = TRUE]
     \/ UNCHANGED <<balance, ctx>>
  /\ Answer(c, "failed")
  /\ HandOver(c)
  /\ UNCHANGED <<issued, counted, metered, guardVars, moneyVars, req, epoch>>

\* _failed_audit_response: the prepaid cents go back unless the store fails,
\* an MPP credential is released by the value it was presented with, and the
\* key the call bought is still handed over.
Unbill(c) ==
  LET k == ctx[c].key IN
  /\ pc[c] = "unbill"
  /\ \/ /\ k # None /\ ctx[c].cents > 0
        /\ balance' = [balance EXCEPT ![k] = @ + ctx[c].cents]
        /\ ctx' = [ctx EXCEPT ![c].refunded = TRUE]
     \/ UNCHANGED <<balance, ctx>>
  /\ used' = IF ctx[c].rail = "mpp" THEN used \ ({req[c].cred} \ Respelt)
                                    ELSE used
  /\ Answer(c, "failed")
  /\ HandOver(c)
  /\ UNCHANGED <<issued, counted, metered, nonces, overlapped, moneyVars, req, epoch>>

\* A transfer the facilitator had not finished completes, or never will.
TransferEnds(a) ==
  /\ a \in flying
  /\ flying' = flying \ {a}
  /\ moved' = moved \cup {a} \/ UNCHANGED moved
  /\ UNCHANGED <<keyVars, guardVars, callVars, epoch>>

\* The process dies and comes back: threads and in-memory guards are gone,
\* the key store is not.
Restart ==
  /\ epoch < MaxRestarts
  /\ epoch' = epoch + 1
  /\ nonces' = {} /\ used' = {} /\ overlapped' = {}
  /\ reply' = [c \in Calls |-> IF pc[c] \in {"idle", "done"} THEN reply[c] ELSE "lost"]
  /\ pc' = [c \in Calls |-> IF pc[c] = "idle" THEN "idle" ELSE "done"]
  /\ UNCHANGED <<keyVars, moneyVars, req, ctx>>

CallStep(c) ==
  \/ UseKey(c) \/ CheckAddress(c)
  \/ AdmitNonce(c) \/ VerifyPayment(c)
  \/ ReadCredential(c) \/ SettleCredential(c) \/ MintKey(c)
  \/ DoWork(c) \/ Bill(c) \/ Deliver(c) \/ Unbill(c)

Next ==
  \/ \E c \in Calls : Arrive(c) \/ CallStep(c)
  \/ \E a \in Auths : TransferEnds(a)
  \/ Restart

Spec == Init /\ [][Next]_vars

\* Every outside call of a thread is bounded (45 s for the facilitator, 10 s
\* for an RPC node, the audit's own timeouts), so a thread keeps moving.
\* Arrivals, restarts and the chain are nobody's duty.
FairSpec == Spec /\ \A c \in Calls : WF_vars(CallStep(c))

-----------------------------------------------------------------------------
(* Properties *)

\* Every variable holds a value of its kind.
TypeOK ==
  /\ issued \subseteq Keys /\ wallet \subseteq issued
  /\ balance \in [Keys -> Nat]
  /\ counted \in [Subscribers -> Nat] /\ metered \in [Subscribers -> Nat]
  /\ nonces \subseteq Auths \ Nonceless
  /\ used \subseteq Creds /\ overlapped \subseteq Creds
  /\ moved \subseteq Auths \cup Creds /\ flying \subseteq Auths
  /\ pc \in [Calls -> Steps] /\ req \in [Calls -> RequestType]
  /\ ctx \in [Calls -> ContextType] /\ reply \in [Calls -> Replies]
  /\ epoch \in Nat

\* The calls this process has granted on authorization a.
GrantedOn(a) ==
  {c \in Calls : ctx[c].rail = "x402" /\ req[c].auth = a /\ ctx[c].epoch = epoch}

\* The replay guard of x402_payments: while one process runs, a signed
\* authorization with a nonce buys at most one call, however its copies are
\* timed ("a nonce is admitted once per node").
OneCallPerAuthorization ==
  \A a \in Auths \ Nonceless : \A c, d \in GrantedOn(a) : c = d

\* The guard locks nobody out: a nonce stays admitted only while its payment
\* is being verified or has bought a call.  A payer whose verify failed, for
\* whatever reason, can send the same authorization again.
NonceHeldForACall ==
  \A a \in nonces :
    \E c \in Calls : req[c].auth = a /\ (pc[c] = "verify" \/ c \in GrantedOn(a))

\* The nonce table and the calls agree both ways (_admit_nonce,
\* _release_nonce).
NoncesAreExact == OneCallPerAuthorization /\ NonceHeldForACall

\* "You are only charged for an audit that ran": an authorization's money
\* moves, or may still move, only for a call whose work produced a result and
\* whose settlement was not answered with a plain refusal.
MovedOnlyForResults ==
  \A a \in Auths \cap (moved \cup flying) :
    \E c \in Calls :
      /\ ctx[c].rail = "x402" /\ req[c].auth = a
      /\ ctx[c].settle \in {"settled", "pending", "unknown"} \/ ctx[c].garbled

\* Whoever is served has paid on the rail that let the call in, or the
\* facilitator may still be taking the money; nobody is served on a refusal.
DeliveredWasPaid ==
  \A c \in Calls : reply[c] = "delivered" =>
    /\ ctx[c].rail # "none" /\ ctx[c].settle # "refused"
    /\ ctx[c].rail = "internal" => req[c].key = InternalKey
    /\ ctx[c].rail = "prepaid" => ctx[c].cents = req[c].price /\ ~ctx[c].refunded
    /\ ctx[c].rail = "stripe" => req[c].key \in Subscribers
    /\ ctx[c].rail = "x402" => ctx[c].settle # "none"
    /\ ctx[c].settle = "settled" => req[c].auth \in moved
    /\ ctx[c].rail \in {"mpp", "topup"} => req[c].cred \in moved

\* What a function from calls to cents adds up to: its cents, one by one.
Total(cents) == Cardinality(UNION {{c} \X (1 .. cents[c]) : c \in DOMAIN cents})

\* What call c put on key k, and what it took off and has not given back.
Bought(c, k) == IF ctx[c].issued = k THEN CredCents[req[c].cred] ELSE 0
Drew(c, k) == IF ctx[c].key = k /\ ~ctx[c].refunded THEN ctx[c].cents ELSE 0

\* Cents credited to key k: what it was sold with, and every top-up put on it.
Credited(k) ==
  (IF k \in SoldKeys THEN SoldCredit ELSE 0) + Total([c \in Calls |-> Bought(c, k)])

\* Cents taken off key k for calls and not given back.
Drawn(k) == Total([c \in Calls |-> Drew(c, k)])

\* Prepaid money is neither made nor lost, whatever calls run at once, fail
\* or die: a key holds what was bought less the calls drawn on it.
PrepaidLedger == \A k \in Keys : balance[k] = Credited(k) - Drawn(k)

\* Credit that was bought ends in the payer's hands: a key no payer has been
\* handed belongs to a call still running, or to one a restart killed.
BoughtKeyReachesPayer ==
  \A k \in issued \ wallet :
    \E c \in Calls : ctx[c].issued = k /\ (pc[c] # "done" \/ reply[c] = "lost")

\* The calls this process let in on credential p and has not failed since.
HoldersOf(p) ==
  {c \in Calls : /\ req[c].cred = p
                 /\ \/ pc[c] = "mint"
                    \/ /\ ctx[c].rail \in {"mpp", "topup"} /\ ctx[c].epoch = epoch
                       /\ ~(ctx[c].rail = "mpp" /\ reply[c] = "failed")}

\* What the code keeps of it: a credential grants one unfailed call unless a
\* second copy was read while the first was out at Stripe or the RPC node.
OneGrantUnlessOverlapped ==
  \A p \in Creds \ overlapped : \A c, d \in HoldersOf(p) : c = d

\* A mark is never stranded: a credential is refused as used only because a
\* call holds it.  The payer of a failed call can present it again, unless it
\* is a hash in another spelling than the one stored.
UsedMeansHeld ==
  \A p \in used \ Respelt : HoldersOf(p) # {}

\* The used set and the calls agree both ways: what is marked has a holder,
\* and has one holder unless its copies overlapped (_used_credentials).
CredentialsAreExact == OneGrantUnlessOverlapped /\ UsedMeansHeld

\* Call c was let in on the key of subscriber s.
LetInOn(c, s) == ctx[c].rail = "stripe" /\ req[c].key = s

\* The meter never bills a subscriber for a call that produced nothing, and
\* the quota never counts a call that was not let in.
SubscriberLedger ==
  \A s \in Subscribers :
    /\ counted[s] <= Cardinality({c \in Calls : LetInOn(c, s)})
    /\ metered[s] <= Total([c \in Calls |->
                         IF LetInOn(c, s) /\ reply[c] # "failed" THEN req[c].price ELSE 0])

\* Every request that arrived is answered, unless the process dies under it.
EveryCallAnswered ==
  \A c \in Calls : pc[c] # "idle" ~> pc[c] = "done"

-----------------------------------------------------------------------------
(* The promise the gate implements *)

stageOf == [c \in Calls |->
  CASE pc[c] = "bill" -> "produced"
    [] pc[c] = "deliver" -> "billed"
    [] pc[c] = "done" -> "answered"
    [] pc[c] \in {"work", "unbill"} -> "working"
    [] OTHER -> "asking"]

answerOf == [c \in Calls |->
  IF reply[c] \in {"rate_limited", "payment_required"} THEN "refused" ELSE reply[c]]

boughtOf == [c \in Calls |-> IF ctx[c].rail = "x402" THEN req[c].auth ELSE None]

claimedOf == {a \in Auths \ Nonceless : GrantedOn(a) # {}}

takenOf == moved \cap Auths

Promise == INSTANCE PaidWork WITH
  stage <- stageOf, answer <- answerOf, bought <- boughtOf,
  claimed <- claimedOf, taken <- takenOf, doubtful <- flying

\* The gate, nonces, rails and all, does what PaidWork promises: an
\* authorization buys one call in a life of the process and pays only for
\* produced work, and no answer is given out of turn.
KeepsPromise == Promise!Spec
=============================================================================
