------------------------------ MODULE Billing ------------------------------
(***************************************************************************)
(* The Stripe side of the node and its key store: a checkout, the webhook  *)
(* that mints an API key when it completes (app/billing.py,                *)
(* activate_customer), the buyer's poll for that key, the one-off report   *)
(* that is audited on its first view (app/main.py, report_page), and the   *)
(* SQLite store's transactions on a balance and on a quota counter         *)
(* (app/keystore_sqlite.py).                                               *)
(*                                                                         *)
(* Every read and every write of the store or of Stripe is a step of its   *)
(* own.  The webhook handler is a coroutine that never awaits inside       *)
(* activate_customer: one instance works on one delivery at a time.  The   *)
(* report page runs on a thread pool and overlaps freely.                  *)
(***************************************************************************)
EXTENDS Integers, FiniteSets, FiniteSetsExt

CONSTANTS
  Plans,       \* checkout sessions that subscribe a customer
  Reports,     \* checkout sessions that bought a one-off report
  Instances,   \* processes of the service that share the store
  Deliveries,  \* deliveries of webhook events that can be under way
  Views,       \* requests for GET /report
  Spends,      \* prepaid debits (spend_prepaid), one cent each
  Refunds,     \* prepaid credits (refund_prepaid), one cent each
  Counts,      \* calls counted against a quota (check_and_increment_quota)
  Credit,      \* the prepaid key's balance at the start
  Quota,       \* monthly_quota_for the subscriber's plan
  Deployments, \* the environments the service may be started in
  Traffic,     \* which of "checkout", "report" and "prepaid" have clients
  MaxKeys,     \* bound: API keys ever minted
  MaxFaults,   \* bound: crashes, store and Stripe errors in a behaviour
  None         \* Python's None

Sessions == Plans \cup Reports
Txs == Spends \cup Refunds \cup Counts
Keys == 1 .. MaxKeys

\* A report is bought without a customer: str(None) names its document.
Customer(s) == IF s \in Plans THEN s ELSE None
Kind(s) == IF s \in Plans THEN "checkout" ELSE "report"
Customers == {Customer(s) : s \in Sessions}

DeploymentType == [secret : {"valid", "malformed", "none"}, webhook : BOOLEAN,
                   prices : SUBSET {"flat", "metered", "pro", "agency", "report"}]

ASSUME BillingAssumption ==
  /\ Deployments \subseteq DeploymentType
  /\ Traffic \subseteq SUBSET {"checkout", "report", "prepaid"}
  /\ Plans \cap Reports = {} /\ IsFiniteSet(Sessions) /\ IsFiniteSet(Txs)
  /\ Spends \cap (Refunds \cup Counts) = {} /\ Refunds \cap Counts = {}
  /\ Credit \in Nat /\ Quota \in Nat /\ MaxKeys \in Nat /\ MaxFaults \in Nat
  /\ None \notin Sessions \cup Keys \cup Txs \cup Instances
  /\ "unminted" \notin Sessions \cup {None}

VARIABLES
  env,        \* the environment variables billing reads
  clients,    \* outside: the kinds of client that come in this behaviour
  session,    \* outside: what Stripe says of each checkout session
  owed,       \* outside: sessions whose completion Stripe has no 2xx for
  apiKeys,    \* api_keys: the customer each key bills, or "unminted"
  customers,  \* customers: the key of each customer
  delivery,   \* the webhook deliveries under way
  shown,      \* keys the buyer of a session has been shown
  overlapped, \* history: sessions with two deliveries under way at once
  reports,    \* the sessions whose report is stored
  view,       \* each report view: its step, instance and session
  audits,     \* history: audits run for each report
  excused,    \* history: reports viewed twice at once or after a failure
  balance,    \* prepaid_balance_cents of the key under test
  count,      \* quota_usage of the subscriber this month
  writer,     \* the transaction that holds SQLite's write lock
  tx,         \* each transaction: its step and what it read
  committed,  \* history: transactions whose write was committed
  faults      \* crashes and errors so far

stripeVars == <<env, clients, session, owed>>
keyVars    == <<apiKeys, customers, delivery, shown, overlapped>>
reportVars == <<reports, view, audits, excused>>
txVars     == <<balance, count, writer, tx, committed>>
vars       == <<stripeVars, keyVars, reportVars, txVars, faults>>

Idle == [step |-> "idle", at |-> None, of |-> None, key |-> None]
Unseen == [step |-> "new", at |-> None, of |-> None]
NotBegun == [step |-> "new", read |-> 0]

Init ==
  /\ env \in Deployments /\ clients \in Traffic
  /\ session \in [Sessions -> {"none", "open"}]
  /\ \A s \in Sessions : session[s] = "open" => Kind(s) \in clients
  /\ owed = {}
  /\ apiKeys = [k \in Keys |-> "unminted"]
  /\ customers = [c \in Customers |-> None]
  /\ delivery = [d \in Deliveries |-> Idle]
  /\ shown = [s \in Sessions |-> {}] /\ overlapped = {}
  /\ reports = {} /\ view = [v \in Views |-> Unseen]
  /\ audits = [s \in Sessions |-> 0] /\ excused = {}
  /\ balance = Credit /\ count = 0 /\ writer = None
  /\ tx = [t \in Txs |-> NotBegun] /\ committed = {}
  /\ faults = 0

\* Something outside or below fails; the code at hand handles the error.
Fault == faults < MaxFaults /\ faults' = faults + 1

-----------------------------------------------------------------------------
\* What is for sale.
StripeKeyLooksValid == env.secret = "valid"
AnySellablePrice == env.prices # {}
IsConfigured == StripeKeyLooksValid /\ env.webhook /\ AnySellablePrice

\* HUMAN_PLANS is empty since the plans were retired: naming one is refused
\* whatever price is configured for it, and no report can be ordered.
HumanPlans == {}
PlanOffered(plan) == plan \in HumanPlans
DefaultPrice == env.prices \cap {"flat", "metered"}
OneoffReportAvailable ==
  PlanOffered("report") /\ StripeKeyLooksValid /\ "report" \in env.prices

Sellable(s, plan) ==
  IF s \in Reports THEN OneoffReportAvailable
  ELSE IF plan = None THEN DefaultPrice # {}
       ELSE PlanOffered(plan) /\ plan \in env.prices

\* A checkout opened before the plans were retired stays open at Stripe.
CreateCheckoutSession(s, plan) ==
  /\ IsConfigured /\ Sellable(s, plan) /\ session[s] = "none" /\ Kind(s) \in clients
  /\ session' = [session EXCEPT ![s] = "open"]
  /\ UNCHANGED <<env, clients, owed, keyVars, reportVars, txVars, faults>>

\* The buyer completes the checkout: paid at once, or by a method that
\* settles later.  Either way Stripe sends checkout.session.completed.
Complete(s, status) ==
  /\ session[s] = "open"
  /\ session' = [session EXCEPT ![s] = status]
  /\ owed' = owed \cup {s}
  /\ UNCHANGED <<env, clients, keyVars, reportVars, txVars, faults>>

Clears(s) ==
  /\ session[s] = "processing"
  /\ session' = [session EXCEPT ![s] = "paid"]
  /\ UNCHANGED <<env, clients, owed, keyVars, reportVars, txVars, faults>>

-----------------------------------------------------------------------------
\* The webhook.
InHand(s) == {d \in Deliveries : delivery[d].step # "idle" /\ delivery[d].of = s}
Busy(i) == \E d \in Deliveries : delivery[d].at = i

\* Stripe delivers, or delivers again what it has had no 2xx for; an attempt
\* it gave up on may still be running.  An instance without its settings
\* answers 501, which Stripe retries.
StripeWebhook(d, i, s) ==
  /\ IsConfigured /\ s \in owed /\ delivery[d].step = "idle" /\ ~Busy(i)
  /\ delivery' = [delivery EXCEPT ![d] =
                    [step |-> "read", at |-> i, of |-> s, key |-> None]]
  /\ overlapped' = IF InHand(s) # {} THEN overlapped \cup {s} ELSE overlapped
  /\ UNCHANGED <<stripeVars, apiKeys, customers, shown, reportVars, txVars, faults>>

\* Variant: an event that was seen before mints again.
FindCustomerNever(d) ==
  /\ delivery[d].step = "read"
  /\ delivery' = [delivery EXCEPT ![d].step = "mint"]
  /\ UNCHANGED <<stripeVars, apiKeys, customers, shown, overlapped,
                 reportVars, txVars, faults>>

\* activate_customer: the customer's document exists, or a key is minted.
FindCustomer(d) ==
  /\ delivery[d].step = "read"
  /\ delivery' = [delivery EXCEPT ![d].step =
                    IF customers[Customer(delivery[d].of)] # None
                      THEN "answer" ELSE "mint"]
  /\ UNCHANGED <<stripeVars, apiKeys, customers, shown, overlapped,
                 reportVars, txVars, faults>>

Unminted == {k \in Keys : apiKeys[k] = "unminted"}

\* Variant: the customer's document is written before the key's.
StoreKeyLast(d) ==
  /\ delivery[d].step = "mint" /\ writer = None /\ Unminted # {}
  /\ LET k == Min(Unminted) IN
       /\ customers' = [customers EXCEPT ![Customer(delivery[d].of)] = k]
       /\ delivery' = [delivery EXCEPT ![d].step = "link", ![d].key = k]
  /\ UNCHANGED <<stripeVars, apiKeys, shown, overlapped, reportVars, txVars, faults>>

\* A write outside a transaction waits for SQLite's write lock.
StoreKey(d) ==
  /\ delivery[d].step = "mint" /\ writer = None /\ Unminted # {}
  /\ LET k == Min(Unminted) IN
       /\ apiKeys' = [apiKeys EXCEPT ![k] = Customer(delivery[d].of)]
       /\ delivery' = [delivery EXCEPT ![d].step = "link", ![d].key = k]
  /\ UNCHANGED <<stripeVars, customers, shown, overlapped, reportVars, txVars, faults>>

StoreCustomer(d) ==
  /\ delivery[d].step = "link" /\ writer = None
  /\ customers' = [customers EXCEPT ![Customer(delivery[d].of)] = delivery[d].key]
  /\ delivery' = [delivery EXCEPT ![d].step = "answer"]
  /\ UNCHANGED <<stripeVars, apiKeys, shown, overlapped, reportVars, txVars, faults>>

\* {"received": true} reaches Stripe; until then the event is its to repeat.
Received(d) ==
  /\ delivery[d].step = "answer"
  /\ delivery' = [delivery EXCEPT ![d] = Idle]
  /\ owed' = owed \ {delivery[d].of}
  /\ UNCHANGED <<env, clients, session, apiKeys, customers, shown, overlapped,
                 reportVars, txVars, faults>>

\* The store raises: the handler answers 500 and Stripe keeps the event.
WebhookFails(d) ==
  /\ delivery[d].step \in {"read", "mint", "link"} /\ Fault
  /\ delivery' = [delivery EXCEPT ![d] = Idle]
  /\ UNCHANGED <<stripeVars, apiKeys, customers, shown, overlapped, reportVars, txVars>>

\* The success page polls for the key: 202 until the document of the
\* session's customer is there.
ApiKeyForSession(s) ==
  IF session[s] \in {"processing", "paid"} /\ Customer(s) # None
    THEN customers[Customer(s)] ELSE None

GetApiKey(s) ==
  /\ IsConfigured /\ ApiKeyForSession(s) # None
  /\ shown' = [shown EXCEPT ![s] = @ \cup {ApiKeyForSession(s)}]
  /\ UNCHANGED <<stripeVars, apiKeys, customers, delivery, overlapped,
                 reportVars, txVars, faults>>

-----------------------------------------------------------------------------
\* GET /report.
ViewGoes(v, step) == view' = [view EXCEPT ![v].step = step]
Viewed(s) == {v \in Views : view[v].of = s /\ view[v].step \notin {"new", "done"}}
Excuse(s) == excused' = excused \cup {s}

OpenReport(v, i, s) ==
  /\ "report" \in clients /\ IsConfigured /\ view[v].step = "new"
  /\ view' = [view EXCEPT ![v] = [step |-> "verify", at |-> i, of |-> s]]
  /\ excused' = IF Viewed(s) # {} THEN excused \cup {s} ELSE excused
  /\ UNCHANGED <<stripeVars, keyVars, reports, audits, txVars, faults>>

\* Variant: a completed checkout is taken for a paid one.
CompleteReportRequest(s) == session[s] \in {"processing", "paid"} /\ s \in Reports

\* paid_report_request asks Stripe on every view: paid, and a report.
PaidReportRequest(s) == session[s] = "paid" /\ s \in Reports

Verify(v) ==
  /\ view[v].step = "verify"
  /\ \/ ViewGoes(v, IF PaidReportRequest(view[v].of) THEN "load" ELSE "done")
        /\ UNCHANGED faults
     \/ Fault /\ ViewGoes(v, "done")
  /\ UNCHANGED <<stripeVars, keyVars, reports, audits, excused, txVars>>

\* A store that raises reads as a report not stored yet.
LoadReport(v) ==
  /\ view[v].step = "load"
  /\ \/ ViewGoes(v, IF view[v].of \in reports THEN "done" ELSE "audit")
        /\ UNCHANGED <<faults, excused>>
     \/ Fault /\ ViewGoes(v, "audit") /\ Excuse(view[v].of)
  /\ UNCHANGED <<stripeVars, keyVars, reports, audits, txVars>>

\* The audit succeeds, or the page says 502 and nothing is stored.
RunReport(v) ==
  /\ view[v].step = "audit"
  /\ audits' = [audits EXCEPT ![view[v].of] = @ + 1]
  /\ \/ ViewGoes(v, "save") /\ UNCHANGED <<faults, excused>>
     \/ Fault /\ ViewGoes(v, "done") /\ Excuse(view[v].of)
  /\ UNCHANGED <<stripeVars, keyVars, reports, txVars>>

\* save_report swallows a failed write: the page has its result anyway.
SaveReport(v) ==
  /\ view[v].step = "save" /\ ViewGoes(v, "done")
  /\ \/ /\ writer = None /\ reports' = reports \cup {view[v].of}
        /\ UNCHANGED <<faults, excused>>
     \/ Fault /\ Excuse(view[v].of) /\ UNCHANGED reports
  /\ UNCHANGED <<stripeVars, keyVars, audits, txVars>>

-----------------------------------------------------------------------------
\* The store's transactions.
TxGoes(t, step) == tx' = [tx EXCEPT ![t].step = step]

\* The field of the document that the transaction reads.
Stored(t) == IF t \in Counts THEN count ELSE balance

\* Variant: BEGIN DEFERRED, which reads before it has the write lock.
BeginDeferred(t) ==
  /\ "prepaid" \in clients /\ tx[t].step = "new"
  /\ tx' = [tx EXCEPT ![t] = [step |-> "read", read |-> Stored(t)]]
  /\ UNCHANGED <<stripeVars, keyVars, reportVars, balance, count, writer,
                 committed, faults>>

\* BEGIN IMMEDIATE takes the write lock before the first read.
Begin(t) ==
  /\ "prepaid" \in clients /\ tx[t].step = "new" /\ writer = None
  /\ writer' = t
  /\ tx' = [tx EXCEPT ![t] = [step |-> "read", read |-> Stored(t)]]
  /\ UNCHANGED <<stripeVars, keyVars, reportVars, balance, count, committed, faults>>

Release(t) == writer' = IF writer = t THEN None ELSE writer

\* _debit, _credit and _increment: what the snapshot allows is written and
\* committed; a refusal commits nothing.
Allowed(t) == CASE t \in Spends  -> tx[t].read >= 1
                [] t \in Refunds -> TRUE
                [] t \in Counts  -> tx[t].read < Quota

Commit(t) ==
  /\ tx[t].step = "read" /\ Allowed(t)
  /\ balance' = IF t \in Spends THEN tx[t].read - 1
                ELSE IF t \in Refunds THEN tx[t].read + 1 ELSE balance
  /\ count' = IF t \in Counts THEN tx[t].read + 1 ELSE count
  /\ committed' = committed \cup {t}
  /\ TxGoes(t, "yes") /\ Release(t)
  /\ UNCHANGED <<stripeVars, keyVars, reportVars, faults>>

Refuse(t) ==
  /\ tx[t].step = "read" /\ ~Allowed(t) /\ TxGoes(t, "no") /\ Release(t)
  /\ UNCHANGED <<stripeVars, keyVars, reportVars, balance, count, committed, faults>>

\* The lock is not had within busy_timeout, or a statement raises: rolled
\* back.  A debit and a refund answer no; a quota lets the call through.
TxFails(t) ==
  /\ \/ tx[t].step = "new" /\ writer # None
     \/ tx[t].step = "read"
  /\ Fault /\ Release(t)
  /\ TxGoes(t, IF t \in Counts THEN "open" ELSE "no")
  /\ UNCHANGED <<stripeVars, keyVars, reportVars, balance, count, committed>>

-----------------------------------------------------------------------------
\* An instance dies with its deliveries and views; the store stays, and the
\* transaction another connection left open is rolled back.
Crash(i) ==
  /\ Fault
  /\ Busy(i) \/ \E v \in Views : view[v].at = i /\ view[v].step # "done"
  /\ delivery' = [d \in Deliveries |->
                    IF delivery[d].at = i THEN Idle ELSE delivery[d]]
  /\ view' = [v \in Views |-> IF view[v].at = i
                                THEN [view[v] EXCEPT !.step = "done"] ELSE view[v]]
  /\ excused' = excused \cup {view[v].of : v \in {w \in Views :
                                view[w].at = i /\ view[w].step = "save"}}
  /\ UNCHANGED <<stripeVars, apiKeys, customers, shown, overlapped,
                 reports, audits, txVars>>

DeliveryStep(d) == FindCustomer(d) \/ StoreKey(d) \/ StoreCustomer(d) \/ Received(d)
ViewStep(v) == Verify(v) \/ LoadReport(v) \/ RunReport(v) \/ SaveReport(v)
TxStep(t) == Begin(t) \/ Commit(t) \/ Refuse(t)

Next ==
  \/ \E s \in Sessions, plan \in {None, "pro"} : CreateCheckoutSession(s, plan)
  \/ \E s \in Sessions : GetApiKey(s)
  \/ \E s \in Sessions : \/ Complete(s, "paid") \/ Complete(s, "processing")
                         \/ Clears(s)
  \/ \E d \in Deliveries, i \in Instances, s \in Sessions : StripeWebhook(d, i, s)
  \/ \E d \in Deliveries : DeliveryStep(d) \/ WebhookFails(d)
  \/ \E v \in Views, i \in Instances, s \in Sessions : OpenReport(v, i, s)
  \/ \E v \in Views : ViewStep(v)
  \/ \E t \in Txs : TxStep(t) \/ TxFails(t)
  \/ \E i \in Instances : Crash(i)

\* Stripe redelivers while it has had no 2xx, to whichever instance is free;
\* a handler and a transaction that started are carried on.
Fairness ==
  /\ \A s \in Sessions :
       WF_vars(\E d \in Deliveries, i \in Instances : StripeWebhook(d, i, s))
  /\ \A d \in Deliveries : WF_vars(DeliveryStep(d))
  /\ \A t \in Txs : WF_vars(Commit(t) \/ Refuse(t))

Spec == Init /\ [][Next]_vars /\ Fairness

-----------------------------------------------------------------------------
TypeOK ==
  /\ env \in DeploymentType /\ clients \subseteq {"checkout", "report", "prepaid"}
  /\ session \in [Sessions -> {"none", "open", "processing", "paid"}]
  /\ owed \subseteq Sessions
  /\ apiKeys \in [Keys -> Customers \cup {"unminted"}]
  /\ customers \in [Customers -> Keys \cup {None}]
  /\ delivery \in [Deliveries -> [step : {"idle", "read", "mint", "link", "answer"},
       at : Instances \cup {None}, of : Sessions \cup {None}, key : Keys \cup {None}]]
  /\ shown \in [Sessions -> SUBSET Keys] /\ overlapped \subseteq Sessions
  /\ reports \subseteq Sessions /\ excused \subseteq Sessions
  /\ view \in [Views -> [step : {"new", "verify", "load", "audit", "save", "done"},
       at : Instances \cup {None}, of : Sessions \cup {None}]]
  /\ audits \in [Sessions -> Nat] /\ balance \in Nat /\ count \in Nat
  /\ writer \in Txs \cup {None} /\ committed \subseteq Txs
  /\ tx \in [Txs -> [step : {"new", "read", "yes", "no", "open"}, read : Nat]]
  /\ faults \in 0 .. MaxFaults

\* A key the success page has shown a buyer authenticates, and bills that
\* buyer, whatever the webhook did afterwards and wherever it crashed:
\* activate_customer writes the key's document before the customer's.
ShownKeyWorks ==
  \A s \in Plans : \A k \in shown[s] : apiKeys[k] = s

\* "Idempotent: re-delivering the same webhook event ... returns the existing
\* key" (activate_customer): a customer's key is replaced only if two
\* deliveries were under way at once.
CustomerKeepsKey ==
  [][\A s \in Plans : customers[s] # None /\ customers'[s] # customers[s]
                         => s \in overlapped]_vars

\* The buyer of a completed subscription gets a key in the end, through
\* crashes, store errors and redeliveries (get_api_key's "pending" ends).
KeyEventuallyReady ==
  \A s \in Plans : (IsConfigured /\ session[s] \in {"processing", "paid"})
                       ~> customers[s] # None

\* A buyer gets a key in the end and keeps it (activate_customer).
BuyerKeepsAKey == CustomerKeepsKey /\ KeyEventuallyReady

\* report_page: no audit for a stranger, and "an audit the buyer already paid
\* for exactly once" runs again only if two views overlapped, the audit or
\* the store failed, or the process died before it saved.
OneAuditPerPurchase ==
  \A s \in Sessions :
    /\ audits[s] > 0 => s \in Reports /\ session[s] = "paid"
    /\ audits[s] > 1 => s \in excused

\* The store's transactions serialise: the balance and the counter are what
\* the committed debits, credits and counted calls make of them, and no
\* debit spends, no call uses, what another has already taken.
CommitsAddUp ==
  /\ balance = Credit - Cardinality(committed \cap Spends)
                       + Cardinality(committed \cap Refunds)
  /\ count = Cardinality(committed \cap Counts) /\ count <= Quota
  /\ Cardinality(committed \cap Spends)
       <= Credit + Cardinality(committed \cap Refunds)

=============================================================================
