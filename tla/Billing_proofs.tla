--------------------------- MODULE Billing_proofs ---------------------------
(***************************************************************************)
(* Theorems about Billing, for any number of sessions, deliveries, views,  *)
(* transactions, instances and failures: the keys of buyers, the audits of *)
(* reports, and the arithmetic of the store's transactions.                *)
(*                                                                         *)
(* The three parts share no variable but the write lock, so each has an    *)
(* invariant of its own, kept by the steps of the others because they      *)
(* leave its variables alone.                                              *)
(***************************************************************************)
EXTENDS Billing, TLAPS, FiniteSetTheorems, WellFoundedInduction

DeliveryType == [step : {"idle", "read", "mint", "link", "answer"},
                 at : Instances \cup {None}, of : Sessions \cup {None},
                 key : Keys \cup {None}]

ViewType == [step : {"new", "verify", "load", "audit", "save", "done"},
             at : Instances \cup {None}, of : Sessions \cup {None}]

TxType == [step : {"new", "read", "yes", "no", "open"}, read : Nat]

-----------------------------------------------------------------------------
\* The part about keys.
KeyTypes ==
  /\ apiKeys \in [Keys -> Customers \cup {"unminted"}]
  /\ customers \in [Customers -> Keys \cup {None}]
  /\ delivery \in [Deliveries -> DeliveryType]
  /\ shown \in [Sessions -> SUBSET Keys] /\ overlapped \subseteq Sessions
  /\ owed \subseteq Sessions

\* The key a customer's document names is that customer's.
Linked == \A s \in Plans : customers[s] # None => apiKeys[customers[s]] = s

\* A delivery that stored a key knows whose it is.
Linking ==
  \A d \in Deliveries : delivery[d].step = "link" =>
    delivery[d].key \in Keys /\ apiKeys[delivery[d].key] = Customer(delivery[d].of)

\* A delivery at work has a session.
Working == \A d \in Deliveries : delivery[d].step # "idle" => delivery[d].of \in Sessions

\* Two deliveries at work on one session are known to overlap.
Together ==
  \A d, e \in Deliveries :
    /\ d # e /\ delivery[d].step # "idle" /\ delivery[e].step # "idle"
    /\ delivery[d].of = delivery[e].of
    => delivery[d].of \in overlapped

\* A delivery that is about to write a customer's document found none, and
\* there is none but for another delivery.
Late ==
  \A d \in Deliveries :
    /\ delivery[d].step \in {"mint", "link"} /\ delivery[d].of \in Plans
    /\ customers[delivery[d].of] # None
    => delivery[d].of \in overlapped

KeyInv == KeyTypes /\ Linked /\ Linking /\ Working /\ Together /\ Late /\ ShownKeyWorks

-----------------------------------------------------------------------------
\* The part about reports.
Underway(v) == view[v].step \in {"verify", "load", "audit", "save"}

ViewTypes ==
  /\ session \in [Sessions -> {"none", "open", "processing", "paid"}]
  /\ view \in [Views -> ViewType] /\ reports \subseteq Sessions
  /\ audits \in [Sessions -> Nat] /\ excused \subseteq Sessions
  /\ \A v \in Views : Underway(v) => view[v].of \in Sessions

\* Only a paid report gets past its check.
Entitled ==
  \A v \in Views : view[v].step \in {"load", "audit", "save"} =>
    view[v].of \in Reports /\ session[view[v].of] = "paid"

\* Two views at work on one report excuse it.
Alone ==
  \A v, w \in Views :
    /\ v # w /\ Underway(v) /\ Underway(w) /\ view[v].of = view[w].of
    => view[v].of \in excused

\* A view that audits an unexcused report does so for the first time.
FirstTime ==
  \A v \in Views : view[v].step = "audit" /\ view[v].of \notin excused =>
    audits[view[v].of] = 0

\* An unexcused report that was audited is stored, or about to be.
KeptReport ==
  \A s \in Sessions \ excused :
    \/ audits[s] = 0
    \/ audits[s] = 1 /\ (s \in reports \/ \E v \in Views : view[v].step = "save" /\ view[v].of = s)

ReportInv == ViewTypes /\ Entitled /\ Alone /\ FirstTime /\ KeptReport /\ OneAuditPerPurchase

-----------------------------------------------------------------------------
\* The part about transactions.
TxTypes ==
  /\ balance \in Nat /\ count \in Nat
  /\ writer \in Txs \cup {None} /\ committed \subseteq Txs
  /\ tx \in [Txs -> TxType]

\* Who has read holds the write lock, and what it read is still stored.
Locked ==
  \A t \in Txs : tx[t].step = "read" => writer = t /\ tx[t].read = Stored(t)

\* Nobody commits twice.
Once == \A t \in Txs : tx[t].step \in {"new", "read"} => t \notin committed

TxInv == TxTypes /\ Locked /\ Once /\ CommitsAddUp

-----------------------------------------------------------------------------
\* token_urlsafe gives a key nobody has: the model takes the least.
LEMMA MinIsIn ==
  ASSUME NEW S \in SUBSET Nat, S # {}
  PROVE  Min(S) \in S
<1> DEFINE Below == {ss \in Nat \X Nat : ss[1] < ss[2]}
<1>0. OpToRel(<, Nat) = Below
  BY DEF OpToRel
<1>1. PICK k \in S : \A m \in S : ~(<<m, k>> \in Below)
  BY <1>0, NatLessThanWellFounded, WFMin, ZenonT(30)
<1>2. \A m, n \in Nat : m < n => <<m, n>> \in Below
  OBVIOUS
<1> HIDE DEF Below
<1>3. ASSUME NEW m \in S PROVE k <= m
  <2>1. k \in Nat /\ m \in Nat
    OBVIOUS
  <2>2. m < k => <<m, k>> \in Below
    BY <1>2, <2>1
  <2>3. ~(m < k)
    BY <1>1, <2>2
  <2> QED
    BY <2>1, <2>3
<1> QED
  BY <1>3 DEF Min

\* A key just minted was nobody's.
LEMMA FreshKey ==
  ASSUME Unminted # {}
  PROVE  Min(Unminted) \in Keys /\ apiKeys[Min(Unminted)] = "unminted"
<1>1. Unminted \in SUBSET Nat
  BY BillingAssumption DEF BillingAssumption, Unminted, Keys
<1> QED
  BY <1>1, MinIsIn DEF Unminted

\* A subscriber is a customer of its own; a report is nobody's.
LEMMA CustomerType ==
  ASSUME NEW s \in Sessions
  PROVE  /\ Customer(s) \in Customers /\ Customer(s) # "unminted"
         /\ s \in Plans => Customer(s) = s /\ s \in Customers
         /\ s \notin Plans => Customer(s) = None
         /\ None \notin Plans
BY BillingAssumption DEF BillingAssumption, Customer, Customers, Sessions

-----------------------------------------------------------------------------
LEMMA KeyInit == Init => KeyInv
<1> SUFFICES ASSUME Init PROVE KeyInv
  OBVIOUS
<1>1. KeyTypes
  BY DEF Init, KeyTypes, DeliveryType, Idle
<1>2. \A s \in Plans : s \in Sessions /\ s \in Customers
  BY CustomerType DEF Sessions
<1> QED
  BY <1>1, <1>2 DEF Init, Idle, KeyInv, Linked, Linking, Working, Together, Late, ShownKeyWorks

\* What deliveries and the page leave alone.
LEMMA KeyStutter ==
  ASSUME KeyInv, UNCHANGED keyVars, owed' \subseteq Sessions
  PROVE  KeyInv'
BY DEF KeyInv, keyVars, KeyTypes, Linked, Linking, Working, Together, Late, ShownKeyWorks

LEMMA StripeWebhookStep ==
  ASSUME KeyInv, NEW d \in Deliveries, NEW i \in Instances, NEW s \in Sessions,
         StripeWebhook(d, i, s)
  PROVE  KeyInv'
<1> DEFINE it == [step |-> "read", at |-> i, of |-> s, key |-> None]
<1>1. /\ delivery' = [delivery EXCEPT ![d] = it] /\ delivery[d].step = "idle"
      /\ overlapped' = IF InHand(s) # {} THEN overlapped \cup {s} ELSE overlapped
      /\ UNCHANGED <<owed, apiKeys, customers, shown>>
  BY DEF StripeWebhook, stripeVars
<1>2. KeyTypes'
  BY <1>1 DEF KeyInv, KeyTypes, DeliveryType
<1>3. Together'
  <2> SUFFICES ASSUME NEW e \in Deliveries, NEW f \in Deliveries, e # f,
                      delivery'[e].step # "idle", delivery'[f].step # "idle",
                      delivery'[e].of = delivery'[f].of
               PROVE  delivery'[e].of \in overlapped'
    BY DEF Together
  <2>1. CASE e = d
    <3>1. f \in InHand(s)
      BY <1>1, <2>1 DEF InHand, KeyInv, KeyTypes
    <3> QED
      BY <1>1, <2>1, <3>1 DEF KeyInv, KeyTypes
  <2>2. CASE f = d
    <3>1. e \in InHand(s)
      BY <1>1, <2>2 DEF InHand, KeyInv, KeyTypes
    <3> QED
      BY <1>1, <2>2, <3>1 DEF KeyInv, KeyTypes
  <2>3. CASE e # d /\ f # d
    BY <1>1, <2>3 DEF KeyInv, KeyTypes, Together
  <2> QED
    BY <2>1, <2>2, <2>3
<1>4. overlapped \subseteq overlapped'
  BY <1>1
<1>5. \A e \in Deliveries : delivery'[e] = IF e = d THEN it ELSE delivery[e]
  BY <1>1 DEF KeyInv, KeyTypes
<1>6. Linked' /\ Linking' /\ Working' /\ ShownKeyWorks'
  BY <1>1, <1>5 DEF KeyInv, KeyTypes, Linked, Linking, Working, ShownKeyWorks
<1>7. Late'
  BY <1>1, <1>4, <1>5 DEF KeyInv, KeyTypes, Late
<1> QED
  BY <1>2, <1>3, <1>6, <1>7 DEF KeyInv

\* A delivery takes its next step: what it becomes is a delivery of the same
\* session, and the others stay.
LEMMA DeliveryMoves ==
  ASSUME KeyTypes, NEW d \in Deliveries, NEW step \in {"mint", "link", "answer"},
         delivery' = [delivery EXCEPT ![d].step = step]
  PROVE  /\ delivery' \in [Deliveries -> DeliveryType]
         /\ delivery'[d].step = step /\ delivery'[d].of = delivery[d].of
         /\ delivery'[d].key = delivery[d].key
         /\ \A e \in Deliveries \ {d} : delivery'[e] = delivery[e]
<1>1. delivery[d] \in DeliveryType /\ delivery \in [Deliveries -> DeliveryType]
  BY DEF KeyTypes
<1>2. delivery' = [delivery EXCEPT ![d] = [delivery[d] EXCEPT !.step = step]]
  OBVIOUS
<1>3. [delivery[d] EXCEPT !.step = step] \in DeliveryType
  BY <1>1 DEF DeliveryType
<1> QED
  BY <1>1, <1>2, <1>3 DEF DeliveryType

LEMMA FindCustomerStep ==
  ASSUME KeyInv, NEW d \in Deliveries, FindCustomer(d)
  PROVE  KeyInv'
<1> DEFINE step == IF customers[Customer(delivery[d].of)] # None THEN "answer" ELSE "mint"
<1>1. /\ delivery[d].step = "read" /\ delivery' = [delivery EXCEPT ![d].step = step]
      /\ UNCHANGED <<owed, apiKeys, customers, shown, overlapped>>
  BY DEF FindCustomer, stripeVars
<1>2. KeyTypes
  BY DEF KeyInv
<1>3. /\ delivery' \in [Deliveries -> DeliveryType]
      /\ delivery'[d].step = step /\ delivery'[d].of = delivery[d].of
      /\ \A e \in Deliveries \ {d} : delivery'[e] = delivery[e]
  BY <1>1, <1>2, DeliveryMoves
<1>4. delivery[d].of \in Sessions
  BY <1>1 DEF KeyInv, Working
<1>5. delivery[d].of \in Plans => Customer(delivery[d].of) = delivery[d].of
  BY <1>4, CustomerType
<1>6. KeyTypes'
  BY <1>1, <1>2, <1>3 DEF KeyTypes
<1>7. Linked' /\ ShownKeyWorks'
  BY <1>1 DEF KeyInv, Linked, ShownKeyWorks
<1>8. Linking' /\ Working'
  BY <1>1, <1>3, <1>4 DEF KeyInv, Linking, Working
<1>9. Together'
  BY <1>1, <1>3 DEF KeyInv, Together
<1>10. Late'
  BY <1>1, <1>3, <1>5 DEF KeyInv, Late
<1> QED
  BY <1>6, <1>7, <1>8, <1>9, <1>10 DEF KeyInv

LEMMA StoreKeyStep ==
  ASSUME KeyInv, NEW d \in Deliveries, StoreKey(d)
  PROVE  KeyInv'
<1> DEFINE k == Min(Unminted)
<1>1. /\ delivery[d].step = "mint" /\ Unminted # {}
      /\ apiKeys' = [apiKeys EXCEPT ![k] = Customer(delivery[d].of)]
      /\ delivery' = [delivery EXCEPT ![d].step = "link", ![d].key = k]
      /\ UNCHANGED <<owed, customers, shown, overlapped>>
  BY DEF StoreKey, stripeVars
<1>2. k \in Keys /\ apiKeys[k] = "unminted"
  BY <1>1, FreshKey
<1> HIDE DEF k
<1>3. KeyTypes /\ delivery[d] \in DeliveryType
  BY DEF KeyInv, KeyTypes
<1>4. /\ delivery' \in [Deliveries -> DeliveryType]
      /\ delivery'[d].step = "link" /\ delivery'[d].of = delivery[d].of
      /\ delivery'[d].key = k
      /\ \A e \in Deliveries \ {d} : delivery'[e] = delivery[e]
  <2> DEFINE it == [[delivery[d] EXCEPT !.step = "link"] EXCEPT !.key = k]
  <2>1. delivery' = [delivery EXCEPT ![d] = it]
    BY <1>1, <1>3 DEF KeyTypes, DeliveryType
  <2>2. it \in DeliveryType /\ it.step = "link" /\ it.of = delivery[d].of /\ it.key = k
    BY <1>2, <1>3 DEF DeliveryType
  <2> HIDE DEF it
  <2> QED
    BY <2>1, <2>2, <1>3 DEF KeyTypes
<1>5. delivery[d].of \in Sessions
  BY <1>1 DEF KeyInv, Working
<1>6. Customer(delivery[d].of) \in Customers
  BY <1>5, CustomerType
<1>7. apiKeys' \in [Keys -> Customers \cup {"unminted"}]
  BY <1>1, <1>3, <1>6 DEF KeyTypes
<1>8. /\ apiKeys'[k] = Customer(delivery[d].of)
      /\ \A j \in Keys : apiKeys[j] # "unminted" => apiKeys'[j] = apiKeys[j]
  BY <1>1, <1>2, <1>3 DEF KeyTypes
<1>9. KeyTypes'
  BY <1>1, <1>3, <1>4, <1>7 DEF KeyTypes
<1>10. \A s \in Plans : s \in Sessions /\ s \in Customers /\ s # "unminted"
  BY CustomerType DEF Sessions
<1>11. Linked'
  <2> SUFFICES ASSUME NEW s \in Plans, customers'[s] # None
               PROVE  apiKeys'[customers'[s]] = s
    BY DEF Linked
  <2>1. customers[s] \in Keys /\ apiKeys[customers[s]] = s
    BY <1>1, <1>3, <1>10 DEF KeyInv, Linked, KeyTypes
  <2> QED
    BY <2>1, <1>1, <1>8, <1>10
<1>12. ShownKeyWorks'
  <2> SUFFICES ASSUME NEW s \in Plans, NEW j \in shown'[s]
               PROVE  apiKeys'[j] = s
    BY DEF ShownKeyWorks
  <2>1. j \in Keys /\ apiKeys[j] = s
    BY <1>1, <1>3, <1>10 DEF KeyInv, ShownKeyWorks, KeyTypes
  <2> QED
    BY <2>1, <1>8, <1>10
<1>13. Linking'
  <2> SUFFICES ASSUME NEW e \in Deliveries, delivery'[e].step = "link"
               PROVE  /\ delivery'[e].key \in Keys
                      /\ apiKeys'[delivery'[e].key] = Customer(delivery'[e].of)
    BY DEF Linking
  <2>1. CASE e = d
    BY <2>1, <1>2, <1>4, <1>8
  <2>2. CASE e # d
    <3>1. /\ delivery'[e] = delivery[e] /\ delivery[e].key \in Keys
          /\ apiKeys[delivery[e].key] = Customer(delivery[e].of)
      BY <2>2, <1>4 DEF KeyInv, Linking
    <3>2. delivery[e].of \in Sessions
      BY <2>2, <1>4 DEF KeyInv, Working
    <3> QED
      BY <3>1, <3>2, <1>8, CustomerType
  <2> QED
    BY <2>1, <2>2
<1>14. Working' /\ Together'
  BY <1>1, <1>4, <1>5 DEF KeyInv, Working, Together
<1>15. Late'
  BY <1>1, <1>4 DEF KeyInv, Late
<1> QED
  BY <1>9, <1>11, <1>12, <1>13, <1>14, <1>15 DEF KeyInv

\* The customer's document is written last; a delivery that is at the same
\* point for the same customer has been seen to overlap.
LEMMA StoreCustomerStep ==
  ASSUME KeyInv, NEW d \in Deliveries, StoreCustomer(d)
  PROVE  /\ KeyInv'
         /\ \A s \in Plans : customers[s] # None /\ customers'[s] # customers[s]
                               => s \in overlapped
<1>1. /\ delivery[d].step = "link"
      /\ customers' = [customers EXCEPT ![Customer(delivery[d].of)] = delivery[d].key]
      /\ delivery' = [delivery EXCEPT ![d].step = "answer"]
      /\ UNCHANGED <<owed, apiKeys, shown, overlapped>>
  BY DEF StoreCustomer, stripeVars
<1>2. KeyTypes
  BY DEF KeyInv
<1>3. /\ delivery' \in [Deliveries -> DeliveryType]
      /\ delivery'[d].step = "answer" /\ delivery'[d].of = delivery[d].of
      /\ \A e \in Deliveries \ {d} : delivery'[e] = delivery[e]
  BY <1>1, <1>2, DeliveryMoves
<1>4. /\ delivery[d].of \in Sessions
      /\ delivery[d].key \in Keys /\ apiKeys[delivery[d].key] = Customer(delivery[d].of)
  BY <1>1 DEF KeyInv, Working, Linking
<1>5. customers' \in [Customers -> Keys \cup {None}]
  BY <1>1, <1>2, <1>4, CustomerType DEF KeyTypes
<1>6. KeyTypes'
  BY <1>1, <1>2, <1>3, <1>5 DEF KeyTypes
<1>7. ASSUME NEW s \in Plans
      PROVE  /\ s \in Customers
             /\ s # delivery[d].of => customers'[s] = customers[s]
             /\ s = delivery[d].of => customers'[s] = delivery[d].key
                                      /\ Customer(delivery[d].of) = s
  <2>1. s \in Sessions /\ s \in Customers /\ s # None
    BY CustomerType DEF Sessions
  <2>2. s # delivery[d].of => s # Customer(delivery[d].of)
    BY <2>1, <1>4, CustomerType
  <2> QED
    BY <2>1, <2>2, <1>1, <1>2, <1>4, CustomerType DEF KeyTypes
<1>8. Linked'
  BY <1>1, <1>4, <1>7 DEF KeyInv, Linked
<1>9. ShownKeyWorks'
  BY <1>1 DEF KeyInv, ShownKeyWorks
<1>10. Linking' /\ Working'
  BY <1>1, <1>3, <1>4 DEF KeyInv, Linking, Working
<1>11. Together'
  BY <1>1, <1>3 DEF KeyInv, Together
<1>12. Late'
  <2> SUFFICES ASSUME NEW e \in Deliveries, delivery'[e].step \in {"mint", "link"},
                      delivery'[e].of \in Plans, customers'[delivery'[e].of] # None
               PROVE  delivery'[e].of \in overlapped
    BY <1>1 DEF Late
  <2>1. e # d /\ delivery'[e] = delivery[e]
    BY <1>3
  <2>2. CASE delivery[e].of = delivery[d].of
    BY <2>1, <2>2, <1>1 DEF KeyInv, Together
  <2>3. CASE delivery[e].of # delivery[d].of
    BY <2>1, <2>3, <1>7 DEF KeyInv, Late
  <2> QED
    BY <2>2, <2>3
<1>13. \A s \in Plans : customers[s] # None /\ customers'[s] # customers[s]
                          => s \in overlapped
  BY <1>1, <1>7 DEF KeyInv, Late
<1> QED
  BY <1>6, <1>8, <1>9, <1>10, <1>11, <1>12, <1>13 DEF KeyInv

\* A delivery ends, by its answer, an error or the death of its instance.
LEMMA DeliveriesEnd ==
  ASSUME KeyInv, UNCHANGED <<apiKeys, customers, shown, overlapped>>,
         owed' \subseteq Sessions,
         delivery' \in [Deliveries -> DeliveryType],
         \A d \in Deliveries : delivery'[d] \in {delivery[d], Idle}
  PROVE  KeyInv'
<1>1. \A d \in Deliveries : delivery'[d].step # "idle" => delivery'[d] = delivery[d]
  BY DEF Idle
<1> QED
  BY <1>1 DEF KeyInv, KeyTypes, Linked, Linking, Working, Together, Late, ShownKeyWorks

LEMMA IdleType == Idle \in DeliveryType
BY DEF Idle, DeliveryType

LEMMA GetApiKeyStep ==
  ASSUME KeyInv, NEW s \in Sessions, GetApiKey(s)
  PROVE  KeyInv'
<1> DEFINE k == ApiKeyForSession(s)
<1>1. /\ k # None /\ shown' = [shown EXCEPT ![s] = @ \cup {k}]
      /\ UNCHANGED <<owed, apiKeys, customers, delivery, overlapped>>
  BY DEF GetApiKey, stripeVars
<1>2. k = customers[Customer(s)] /\ Customer(s) # None
  BY <1>1 DEF ApiKeyForSession
<1> HIDE DEF k
<1>3. s \in Plans /\ Customer(s) = s /\ s \in Customers
  BY <1>2, CustomerType
<1>4. k \in Keys /\ apiKeys[k] = s
  BY <1>1, <1>2, <1>3 DEF KeyInv, KeyTypes, Linked
<1>5. KeyTypes'
  BY <1>1, <1>4 DEF KeyInv, KeyTypes
<1>6. ShownKeyWorks'
  <2> SUFFICES ASSUME NEW p \in Plans, NEW j \in shown'[p] PROVE apiKeys[j] = p
    BY <1>1 DEF ShownKeyWorks
  <2>1. p \in Sessions
    BY DEF Sessions
  <2>2. p # s => j \in shown[p]
    BY <1>1, <2>1 DEF KeyInv, KeyTypes
  <2>3. p = s => j \in shown[p] \cup {k}
    BY <1>1, <2>1 DEF KeyInv, KeyTypes
  <2> QED
    BY <2>2, <2>3, <1>4 DEF KeyInv, ShownKeyWorks
<1> QED
  BY <1>1, <1>5, <1>6 DEF KeyInv, Linked, Linking, Working, Together, Late

\* Every step keeps the part about keys, and replaces no customer's key but
\* where deliveries overlapped.
LEMMA KeyStep ==
  ASSUME KeyInv, [Next]_vars
  PROVE  /\ KeyInv'
         /\ \A s \in Plans : customers[s] # None /\ customers'[s] # customers[s]
                               => s \in overlapped
<1> DEFINE Kept == UNCHANGED customers
<1>1. ASSUME NEW s \in Sessions, NEW plan \in {None, "pro"}, CreateCheckoutSession(s, plan)
      PROVE  KeyInv' /\ Kept
  <2>1. UNCHANGED <<keyVars, owed>>
    BY <1>1 DEF CreateCheckoutSession
  <2> QED
    BY <2>1, KeyStutter DEF keyVars, KeyInv, KeyTypes
<1>2. ASSUME NEW s \in Sessions, GetApiKey(s) PROVE KeyInv' /\ Kept
  BY <1>2, GetApiKeyStep DEF GetApiKey
<1>3. ASSUME NEW s \in Sessions, NEW status, Complete(s, status) PROVE KeyInv' /\ Kept
  <2>1. UNCHANGED keyVars /\ owed' \subseteq Sessions
    BY <1>3 DEF Complete, KeyInv, KeyTypes
  <2> QED
    BY <2>1, KeyStutter DEF keyVars
<1>4. ASSUME NEW s \in Sessions, Clears(s) PROVE KeyInv' /\ Kept
  <2>1. UNCHANGED <<keyVars, owed>>
    BY <1>4 DEF Clears
  <2> QED
    BY <2>1, KeyStutter DEF keyVars, KeyInv, KeyTypes
<1>5. ASSUME NEW d \in Deliveries, NEW i \in Instances, NEW s \in Sessions,
             StripeWebhook(d, i, s)
      PROVE  KeyInv' /\ Kept
  BY <1>5, StripeWebhookStep DEF StripeWebhook
<1>6. ASSUME NEW d \in Deliveries, FindCustomer(d) PROVE KeyInv' /\ Kept
  BY <1>6, FindCustomerStep DEF FindCustomer
<1>7. ASSUME NEW d \in Deliveries, StoreKey(d) PROVE KeyInv' /\ Kept
  BY <1>7, StoreKeyStep DEF StoreKey
<1>8. ASSUME NEW d \in Deliveries, Received(d) \/ WebhookFails(d) PROVE KeyInv' /\ Kept
  <2>1. /\ delivery' = [delivery EXCEPT ![d] = Idle]
        /\ UNCHANGED <<apiKeys, customers, shown, overlapped>>
        /\ owed' \subseteq Sessions
    BY <1>8 DEF Received, WebhookFails, stripeVars, KeyInv, KeyTypes
  <2>2. delivery' \in [Deliveries -> DeliveryType]
    BY <2>1, IdleType DEF KeyInv, KeyTypes
  <2>3. \A e \in Deliveries : delivery'[e] \in {delivery[e], Idle}
    BY <2>1 DEF KeyInv, KeyTypes
  <2> QED
    BY <2>1, <2>2, <2>3, DeliveriesEnd
<1>9. ASSUME NEW i \in Instances, Crash(i) PROVE KeyInv' /\ Kept
  <2>1. /\ delivery' = [d \in Deliveries |->
                          IF delivery[d].at = i THEN Idle ELSE delivery[d]]
        /\ UNCHANGED <<apiKeys, customers, shown, overlapped, owed>>
    BY <1>9 DEF Crash, stripeVars
  <2>2. delivery' \in [Deliveries -> DeliveryType]
    BY <2>1, IdleType DEF KeyInv, KeyTypes
  <2>3. \A e \in Deliveries : delivery'[e] \in {delivery[e], Idle}
    BY <2>1
  <2> QED
    BY <2>1, <2>2, <2>3, DeliveriesEnd DEF KeyInv, KeyTypes
<1>10. ASSUME NEW v \in Views, NEW i \in Instances, NEW s \in Sessions, OpenReport(v, i, s)
       PROVE  KeyInv' /\ Kept
  <2>1. UNCHANGED <<keyVars, owed>>
    BY <1>10 DEF OpenReport, stripeVars
  <2> QED
    BY <2>1, KeyStutter DEF keyVars, KeyInv, KeyTypes
<1>11. ASSUME NEW v \in Views, ViewStep(v) PROVE KeyInv' /\ Kept
  <2>1. UNCHANGED <<keyVars, owed>>
    BY <1>11 DEF ViewStep, Verify, LoadReport, RunReport, SaveReport, stripeVars
  <2> QED
    BY <2>1, KeyStutter DEF keyVars, KeyInv, KeyTypes
<1>12. ASSUME NEW t \in Txs, TxStep(t) \/ TxFails(t) PROVE KeyInv' /\ Kept
  <2>1. UNCHANGED <<keyVars, owed>>
    BY <1>12 DEF TxStep, Begin, Commit, Refuse, TxFails, stripeVars
  <2> QED
    BY <2>1, KeyStutter DEF keyVars, KeyInv, KeyTypes
<1>13. CASE UNCHANGED vars
  <2>1. UNCHANGED <<keyVars, owed>>
    BY <1>13 DEF vars, stripeVars
  <2> QED
    BY <2>1, KeyStutter DEF keyVars, KeyInv, KeyTypes
<1>14. ASSUME NEW d \in Deliveries, StoreCustomer(d)
       PROVE  /\ KeyInv'
              /\ \A s \in Plans : customers[s] # None /\ customers'[s] # customers[s]
                                    => s \in overlapped
  BY <1>14, StoreCustomerStep
<1>15. Kept => \A s \in Plans : customers[s] # None /\ customers'[s] # customers[s]
                                  => s \in overlapped
  OBVIOUS
<1> HIDE DEF Kept
<1> QED
  BY <1>1, <1>2, <1>3, <1>4, <1>5, <1>6, <1>7, <1>8, <1>9, <1>10, <1>11,
     <1>12, <1>13, <1>14, <1>15 DEF Next, DeliveryStep

-----------------------------------------------------------------------------
LEMMA ReportInit == Init => ReportInv
<1> SUFFICES ASSUME Init PROVE ReportInv
  OBVIOUS
<1>1. ViewTypes
  BY DEF Init, ViewTypes, ViewType, Unseen, Underway
<1> QED
  BY <1>1 DEF Init, Unseen, Underway, ReportInv, Entitled, Alone, FirstTime, KeptReport,
              OneAuditPerPurchase

LEMMA ReportStutter ==
  ASSUME ReportInv, UNCHANGED <<session, reportVars>>
  PROVE  ReportInv'
BY DEF ReportInv, reportVars, ViewTypes, Underway, Entitled, Alone, FirstTime, KeptReport,
       OneAuditPerPurchase

\* A session that is paid stays paid.
LEMMA SessionMoves ==
  ASSUME ReportInv, UNCHANGED reportVars,
         session' \in [Sessions -> {"none", "open", "processing", "paid"}],
         \A s \in Sessions : session[s] = "paid" => session'[s] = "paid"
  PROVE  ReportInv'
<1>1. \A s \in Reports : s \in Sessions
  BY DEF Sessions
<1> QED
  BY <1>1 DEF ReportInv, reportVars, ViewTypes, Underway, Entitled, Alone, FirstTime,
              KeptReport, OneAuditPerPurchase

\* A view takes its next step, on the same report.
LEMMA ViewMoves ==
  ASSUME ViewTypes, NEW v \in Views, NEW step \in {"load", "audit", "save", "done"},
         ViewGoes(v, step)
  PROVE  /\ view' \in [Views -> ViewType]
         /\ view'[v].step = step /\ view'[v].of = view[v].of
         /\ \A w \in Views \ {v} : view'[w] = view[w]
<1>1. view[v] \in ViewType /\ view \in [Views -> ViewType]
  BY DEF ViewTypes
<1>2. view' = [view EXCEPT ![v] = [view[v] EXCEPT !.step = step]]
  BY DEF ViewGoes
<1>3. [view[v] EXCEPT !.step = step] \in ViewType
  BY <1>1 DEF ViewType
<1> QED
  BY <1>1, <1>2, <1>3 DEF ViewType

\* Views that make no audit and store nothing: they go on towards the audit,
\* or end; one that gives up what it has done excuses its report.
LEMMA ViewsMove ==
  ASSUME ReportInv, UNCHANGED <<session, reports, audits>>,
         view' \in [Views -> ViewType], excused \subseteq excused', excused' \subseteq Sessions,
         \A v \in Views :
           \/ view'[v] = view[v]
           \/ view'[v].step = "done" /\ (view[v].step = "save" => view[v].of \in excused')
           \/ /\ view'[v].of = view[v].of
              /\ \/ /\ view'[v].step = "load" /\ view[v].step = "verify"
                    /\ view[v].of \in Reports /\ session[view[v].of] = "paid"
                 \/ /\ view'[v].step = "audit" /\ view[v].step = "load"
                    /\ view[v].of \in excused' \/ view[v].of \notin reports
  PROVE  ReportInv'
<1>1. \A v \in Views : Underway(v)' => Underway(v) /\ view'[v].of = view[v].of
  BY DEF Underway
<1>2. ViewTypes'
  BY <1>1 DEF ReportInv, ViewTypes
<1>3. Entitled'
  BY DEF ReportInv, Entitled
<1>4. Alone'
  BY <1>1 DEF ReportInv, Alone
<1>5. FirstTime'
  <2> SUFFICES ASSUME NEW v \in Views, view'[v].step = "audit", view'[v].of \notin excused'
               PROVE  audits[view'[v].of] = 0
    BY DEF FirstTime
  <2>1. CASE view'[v] = view[v]
    BY <2>1 DEF ReportInv, FirstTime
  <2>2. CASE view'[v] # view[v]
    <3> DEFINE s == view[v].of
    <3>1. /\ view'[v].of = s /\ view[v].step = "load" /\ s \notin reports /\ s \notin excused
          /\ Underway(v) /\ s \in Sessions
      BY <2>2 DEF ReportInv, ViewTypes, Underway
    <3>2. \A w \in Views : ~(view[w].step = "save" /\ view[w].of = s)
      <4> SUFFICES ASSUME NEW w \in Views, view[w].step = "save", view[w].of = s
                   PROVE  FALSE
        OBVIOUS
      <4>1. w # v /\ Underway(w)
        BY <3>1 DEF Underway
      <4> QED
        BY <4>1, <3>1 DEF ReportInv, Alone
    <3> QED
      BY <3>1, <3>2 DEF ReportInv, KeptReport
  <2> QED
    BY <2>1, <2>2
<1>6. KeptReport'
  <2> SUFFICES ASSUME NEW s \in Sessions, s \notin excused'
               PROVE  \/ audits[s] = 0
                      \/ /\ audits[s] = 1
                         /\ s \in reports \/ \E v \in Views : view'[v].step = "save" /\ view'[v].of = s
    BY DEF KeptReport
  <2>1. \A v \in Views : view[v].step = "save" /\ view[v].of = s
                           => view'[v] = view[v]
    OBVIOUS
  <2> QED
    BY <2>1 DEF ReportInv, KeptReport
<1>7. OneAuditPerPurchase'
  BY DEF ReportInv, OneAuditPerPurchase
<1> QED
  BY <1>2, <1>3, <1>4, <1>5, <1>6, <1>7 DEF ReportInv

\* A new view: one that finds another at work on the report excuses it.
LEMMA OpenReportStep ==
  ASSUME ReportInv, NEW v \in Views, NEW i \in Instances, NEW s \in Sessions,
         OpenReport(v, i, s)
  PROVE  ReportInv'
<1> DEFINE it == [step |-> "verify", at |-> i, of |-> s]
<1>1. /\ view' = [view EXCEPT ![v] = it] /\ view[v].step = "new"
      /\ excused' = IF Viewed(s) # {} THEN excused \cup {s} ELSE excused
      /\ UNCHANGED <<session, reports, audits>>
  BY DEF OpenReport, stripeVars
<1>2. view \in [Views -> ViewType]
  BY DEF ReportInv, ViewTypes
<1>3. \A w \in Views : view'[w] = IF w = v THEN it ELSE view[w]
  BY <1>1, <1>2
<1>4. it \in ViewType /\ it.step = "verify" /\ it.of = s
  BY DEF ViewType
<1>5. view' \in [Views -> ViewType]
  BY <1>1, <1>2, <1>4
<1> HIDE DEF it
<1>6. excused \subseteq excused' /\ excused' \subseteq Sessions
  BY <1>1 DEF ReportInv, ViewTypes
<1>7. ViewTypes'
  BY <1>1, <1>3, <1>4, <1>5, <1>6 DEF ReportInv, ViewTypes, Underway
<1>8. Entitled' /\ FirstTime'
  BY <1>1, <1>3, <1>4, <1>6 DEF ReportInv, Entitled, FirstTime
<1>9. Alone'
  <2> SUFFICES ASSUME NEW a \in Views, NEW b \in Views, a # b, Underway(a)', Underway(b)',
                      view'[a].of = view'[b].of
               PROVE  view'[a].of \in excused'
    BY DEF Alone
  <2>1. \A w \in Views : Underway(w) /\ view[w].of = s => w \in Viewed(s)
    BY DEF Viewed, Underway
  <2>2. CASE a = v
    <3>1. Underway(b) /\ view[b].of = s
      BY <2>2, <1>3, <1>4 DEF Underway
    <3> QED
      BY <3>1, <2>1, <2>2, <1>1, <1>3, <1>4
  <2>3. CASE b = v
    <3>1. Underway(a) /\ view[a].of = s
      BY <2>3, <1>3, <1>4 DEF Underway
    <3> QED
      BY <3>1, <2>1, <2>3, <1>1, <1>3, <1>4
  <2>4. CASE a # v /\ b # v
    BY <2>4, <1>3, <1>6 DEF Underway, ReportInv, Alone
  <2> QED
    BY <2>2, <2>3, <2>4
<1>10. KeptReport'
  <2> SUFFICES ASSUME NEW r \in Sessions, r \notin excused'
               PROVE  \/ audits[r] = 0
                      \/ /\ audits[r] = 1
                         /\ r \in reports \/ \E w \in Views : view'[w].step = "save" /\ view'[w].of = r
    BY <1>1 DEF KeptReport
  <2>1. \A w \in Views : view[w].step = "save" => view'[w] = view[w]
    BY <1>1, <1>3
  <2> QED
    BY <2>1, <1>6 DEF ReportInv, KeptReport
<1>11. OneAuditPerPurchase'
  BY <1>1, <1>6 DEF ReportInv, OneAuditPerPurchase
<1> QED
  BY <1>7, <1>8, <1>9, <1>10, <1>11 DEF ReportInv

\* The audit: an unexcused report has had none, and this view alone is at it.
LEMMA RunReportStep ==
  ASSUME ReportInv, NEW v \in Views, RunReport(v)
  PROVE  ReportInv'
<1> DEFINE s == view[v].of
<1>1. /\ view[v].step = "audit" /\ audits' = [audits EXCEPT ![s] = @ + 1]
      /\ UNCHANGED <<session, reports>>
      /\ \/ ViewGoes(v, "save") /\ excused' = excused
         \/ ViewGoes(v, "done") /\ excused' = excused \cup {s}
  BY DEF RunReport, Excuse, stripeVars
<1>2. Underway(v) /\ s \in Sessions /\ s \in Reports /\ session[s] = "paid" /\ ViewTypes
  BY <1>1 DEF Underway, ReportInv, ViewTypes, Entitled
<1> HIDE DEF s
<1>3. PICK step \in {"save", "done"} :
        /\ ViewGoes(v, step)
        /\ excused' = IF step = "save" THEN excused ELSE excused \cup {s}
  BY <1>1
<1>4. /\ view' \in [Views -> ViewType]
      /\ view'[v].step = step /\ view'[v].of = view[v].of
      /\ \A w \in Views \ {v} : view'[w] = view[w]
  BY <1>2, <1>3, ViewMoves
<1>5. /\ audits' \in [Sessions -> Nat] /\ audits'[s] = audits[s] + 1
      /\ \A r \in Sessions \ {s} : audits'[r] = audits[r]
  BY <1>1, <1>2 DEF ViewTypes
<1>6. excused \subseteq excused' /\ excused' \subseteq Sessions
  BY <1>2, <1>3 DEF ViewTypes
<1>7. \A w \in Views : Underway(w)' => Underway(w) /\ view'[w].of = view[w].of
  BY <1>2, <1>4 DEF Underway
<1>8. ViewTypes'
  BY <1>1, <1>2, <1>4, <1>5, <1>6, <1>7 DEF ViewTypes
<1>9. Entitled'
  BY <1>1, <1>2, <1>4 DEF ReportInv, Entitled, s
<1>10. Alone'
  BY <1>6, <1>7 DEF ReportInv, Alone
<1>11. s \notin excused => audits[s] = 0
  BY <1>1 DEF ReportInv, FirstTime, s
<1>12. FirstTime'
  <2> SUFFICES ASSUME NEW w \in Views, view'[w].step = "audit", view'[w].of \notin excused'
               PROVE  audits'[view'[w].of] = 0
    BY DEF FirstTime
  <2>1. w # v /\ view'[w] = view[w] /\ Underway(w)
    BY <1>4 DEF Underway
  <2>2. view[w].of # s
    BY <2>1, <1>2, <1>6 DEF ReportInv, Alone, s
  <2>3. view[w].of \in Sessions
    BY <2>1, <1>2 DEF ViewTypes
  <2> QED
    BY <2>1, <2>2, <2>3, <1>5, <1>6 DEF ReportInv, FirstTime
<1>13. KeptReport'
  <2> SUFFICES ASSUME NEW r \in Sessions, r \notin excused'
               PROVE  \/ audits'[r] = 0
                      \/ /\ audits'[r] = 1
                         /\ r \in reports \/ \E w \in Views : view'[w].step = "save" /\ view'[w].of = r
    BY <1>1 DEF KeptReport
  <2>1. CASE r = s
    <3>1. step = "save" /\ audits'[s] = 1
      BY <2>1, <1>3, <1>5, <1>6, <1>11
    <3> QED
      BY <2>1, <3>1, <1>4 DEF s
  <2>2. CASE r # s
    <3>1. \A w \in Views : view[w].step = "save" /\ view[w].of = r => view'[w] = view[w]
      BY <2>2, <1>4 DEF s
    <3>2. r \notin excused /\ audits'[r] = audits[r]
      BY <2>2, <1>5, <1>6
    <3> QED
      BY <3>1, <3>2 DEF ReportInv, KeptReport
  <2> QED
    BY <2>1, <2>2
<1>14. OneAuditPerPurchase'
  <2> SUFFICES ASSUME NEW r \in Sessions
               PROVE  /\ audits'[r] > 0 => r \in Reports /\ session[r] = "paid"
                      /\ audits'[r] > 1 => r \in excused'
    BY <1>1 DEF OneAuditPerPurchase
  <2>1. CASE r = s
    BY <2>1, <1>2, <1>5, <1>6, <1>11
  <2>2. CASE r # s
    BY <2>2, <1>5, <1>6 DEF ReportInv, OneAuditPerPurchase
  <2> QED
    BY <2>1, <2>2
<1> QED
  BY <1>8, <1>9, <1>10, <1>12, <1>13, <1>14 DEF ReportInv

\* The result is stored, or its loss excuses the next audit.
LEMMA SaveReportStep ==
  ASSUME ReportInv, NEW v \in Views, SaveReport(v)
  PROVE  ReportInv'
<1> DEFINE s == view[v].of
<1>1. /\ view[v].step = "save" /\ ViewGoes(v, "done") /\ UNCHANGED <<session, audits>>
      /\ \/ reports' = reports \cup {s} /\ excused' = excused
         \/ reports' = reports /\ excused' = excused \cup {s}
  BY DEF SaveReport, Excuse, stripeVars
<1>2. Underway(v) /\ s \in Sessions /\ ViewTypes
  BY <1>1 DEF Underway, ReportInv, ViewTypes
<1>3. /\ view' \in [Views -> ViewType]
      /\ view'[v].step = "done"
      /\ \A w \in Views \ {v} : view'[w] = view[w]
  BY <1>1, <1>2, ViewMoves
<1>4. /\ excused \subseteq excused' /\ excused' \subseteq Sessions
      /\ reports \subseteq reports' /\ reports' \subseteq Sessions
      /\ s \in excused' \cup reports'
  BY <1>1, <1>2 DEF ViewTypes
<1>5. \A w \in Views : view'[w].step # "done" => view'[w] = view[w]
  BY <1>3
<1>6. ViewTypes' /\ Entitled' /\ Alone' /\ FirstTime'
  BY <1>1, <1>3, <1>4, <1>5 DEF ReportInv, ViewTypes, Underway, Entitled, Alone, FirstTime
<1>7. KeptReport'
  <2> SUFFICES ASSUME NEW r \in Sessions, r \notin excused'
               PROVE  \/ audits[r] = 0
                      \/ /\ audits[r] = 1
                         /\ r \in reports' \/ \E w \in Views : view'[w].step = "save" /\ view'[w].of = r
    BY <1>1 DEF KeptReport
  <2>1. \A w \in Views : view[w].step = "save" /\ view[w].of = r =>
                           r \in reports' \/ view'[w] = view[w]
    BY <1>3, <1>4
  <2> QED
    BY <2>1, <1>4 DEF ReportInv, KeptReport
<1>8. OneAuditPerPurchase'
  BY <1>1, <1>4 DEF ReportInv, OneAuditPerPurchase
<1> QED
  BY <1>6, <1>7, <1>8 DEF ReportInv

\* Every step keeps the part about reports.
LEMMA ReportStep == ReportInv /\ [Next]_vars => ReportInv'
<1> SUFFICES ASSUME ReportInv, [Next]_vars PROVE ReportInv'
  OBVIOUS
<1>t. ViewTypes
  BY DEF ReportInv
<1>1. ASSUME NEW s \in Sessions, NEW plan \in {None, "pro"}, CreateCheckoutSession(s, plan)
      PROVE  ReportInv'
  <2>1. session[s] = "none" /\ session' = [session EXCEPT ![s] = "open"] /\ UNCHANGED reportVars
    BY <1>1 DEF CreateCheckoutSession
  <2> QED
    BY <2>1, <1>t, SessionMoves DEF ViewTypes
<1>2. ASSUME NEW s \in Sessions, NEW status \in {"paid", "processing"}, Complete(s, status)
      PROVE  ReportInv'
  <2>1. session[s] = "open" /\ session' = [session EXCEPT ![s] = status] /\ UNCHANGED reportVars
    BY <1>2 DEF Complete
  <2> QED
    BY <2>1, <1>t, SessionMoves DEF ViewTypes
<1>3. ASSUME NEW s \in Sessions, Clears(s) PROVE ReportInv'
  <2>1. session' = [session EXCEPT ![s] = "paid"] /\ UNCHANGED reportVars
    BY <1>3 DEF Clears
  <2> QED
    BY <2>1, <1>t, SessionMoves DEF ViewTypes
<1>4. ASSUME NEW v \in Views, NEW i \in Instances, NEW s \in Sessions, OpenReport(v, i, s)
      PROVE  ReportInv'
  BY <1>4, OpenReportStep
<1>5. ASSUME NEW v \in Views, Verify(v) PROVE ReportInv'
  <2>1. /\ view[v].step = "verify" /\ UNCHANGED <<session, reports, audits, excused>>
        /\ \/ ViewGoes(v, "load") /\ PaidReportRequest(view[v].of)
           \/ ViewGoes(v, "done")
    BY <1>5 DEF Verify, stripeVars
  <2>2. PICK step \in {"load", "done"} :
          ViewGoes(v, step) /\ (step = "load" => PaidReportRequest(view[v].of))
    BY <2>1
  <2>3. /\ view' \in [Views -> ViewType]
        /\ view'[v].step = step /\ view'[v].of = view[v].of
        /\ \A w \in Views \ {v} : view'[w] = view[w]
    BY <1>t, <2>2, ViewMoves
  <2>4. Underway(v) /\ excused \subseteq Sessions
    BY <2>1, <1>t DEF Underway, ViewTypes
  <2> QED
    BY <2>1, <2>2, <2>3, <2>4, ViewsMove DEF PaidReportRequest
<1>6. ASSUME NEW v \in Views, LoadReport(v) PROVE ReportInv'
  <2>1. /\ view[v].step = "load" /\ UNCHANGED <<session, reports, audits>>
        /\ \/ ViewGoes(v, "done") /\ excused' = excused
           \/ ViewGoes(v, "audit") /\ view[v].of \notin reports /\ excused' = excused
           \/ ViewGoes(v, "audit") /\ excused' = excused \cup {view[v].of}
    BY <1>6 DEF LoadReport, Excuse, stripeVars
  <2>2. PICK step \in {"audit", "done"} :
          /\ ViewGoes(v, step)
          /\ step = "audit" => view[v].of \notin reports \/ view[v].of \in excused'
    BY <2>1
  <2>3. /\ view' \in [Views -> ViewType]
        /\ view'[v].step = step /\ view'[v].of = view[v].of
        /\ \A w \in Views \ {v} : view'[w] = view[w]
    BY <1>t, <2>2, ViewMoves
  <2>4. Underway(v) /\ excused \subseteq excused' /\ excused' \subseteq Sessions
    BY <2>1, <1>t DEF Underway, ViewTypes
  <2> QED
    BY <2>1, <2>2, <2>3, <2>4, ViewsMove
<1>7. ASSUME NEW v \in Views, RunReport(v) PROVE ReportInv'
  BY <1>7, RunReportStep
<1>8. ASSUME NEW v \in Views, SaveReport(v) PROVE ReportInv'
  BY <1>8, SaveReportStep
<1>9. ASSUME NEW i \in Instances, Crash(i) PROVE ReportInv'
  <2> DEFINE gone(w) == view[w].at = i
             ended(w) == [view[w] EXCEPT !.step = "done"]
  <2>1. /\ view' = [w \in Views |-> IF gone(w) THEN ended(w) ELSE view[w]]
        /\ excused' = excused \cup {view[v].of : v \in {w \in Views :
                                      view[w].at = i /\ view[w].step = "save"}}
        /\ UNCHANGED <<session, reports, audits>>
    BY <1>9 DEF Crash, stripeVars
  <2>2. \A w \in Views : ended(w) \in ViewType /\ ended(w).step = "done"
    BY <1>t DEF ViewTypes, ViewType
  <2> HIDE DEF ended
  <2>3. view' \in [Views -> ViewType]
    BY <2>1, <2>2, <1>t DEF ViewTypes
  <2>4. excused \subseteq excused' /\ excused' \subseteq Sessions
    BY <2>1, <1>t DEF ViewTypes, Underway
  <2>5. ASSUME NEW w \in Views
        PROVE  \/ view'[w] = view[w]
               \/ view'[w].step = "done" /\ (view[w].step = "save" => view[w].of \in excused')
    BY <2>1, <2>2
  <2> QED
    BY <2>1, <2>3, <2>4, <2>5, ViewsMove
<1>10. ASSUME UNCHANGED <<session, reportVars>> PROVE ReportInv'
  BY <1>10, ReportStutter
<1>11. ASSUME \/ \E s \in Sessions : GetApiKey(s)
              \/ \E d \in Deliveries, i \in Instances, s \in Sessions : StripeWebhook(d, i, s)
              \/ \E d \in Deliveries : DeliveryStep(d) \/ WebhookFails(d)
              \/ \E t \in Txs : TxStep(t) \/ TxFails(t)
              \/ UNCHANGED vars
       PROVE  UNCHANGED <<session, reportVars>>
  BY <1>11 DEF GetApiKey, StripeWebhook, DeliveryStep, FindCustomer, StoreKey, StoreCustomer,
               Received, WebhookFails, TxStep, Begin, Commit, Refuse, TxFails, vars, stripeVars
<1> QED
  BY <1>1, <1>2, <1>3, <1>4, <1>5, <1>6, <1>7, <1>8, <1>9, <1>10, <1>11 DEF Next, ViewStep

-----------------------------------------------------------------------------
\* One more member counts one more.
LEMMA CountOne ==
  ASSUME NEW S \in SUBSET Txs, committed \subseteq Txs, NEW t \in Txs, t \notin committed
  PROVE  /\ Cardinality(committed \cap S) \in Nat
         /\ t \in S => Cardinality((committed \cup {t}) \cap S) = Cardinality(committed \cap S) + 1
         /\ t \notin S => Cardinality((committed \cup {t}) \cap S) = Cardinality(committed \cap S)
<1>1. IsFiniteSet(Txs)
  BY BillingAssumption DEF BillingAssumption
<1>2. IsFiniteSet(committed \cap S)
  BY <1>1, FS_Subset
<1>3. Cardinality(committed \cap S) \in Nat
  BY <1>2, FS_CardinalityType
<1>4. t \notin committed \cap S
  OBVIOUS
<1>5. Cardinality((committed \cap S) \cup {t}) = Cardinality(committed \cap S) + 1
  BY <1>2, <1>4, FS_AddElement
<1>6. t \in S => (committed \cup {t}) \cap S = (committed \cap S) \cup {t}
  OBVIOUS
<1>7. t \notin S => (committed \cup {t}) \cap S = committed \cap S
  OBVIOUS
<1> QED
  BY <1>3, <1>5, <1>6, <1>7

LEMMA TxInit == Init => TxInv
<1> SUFFICES ASSUME Init PROVE TxInv
  OBVIOUS
<1>1. TxTypes /\ Locked /\ Once
  BY BillingAssumption DEF BillingAssumption, Init, NotBegun, TxTypes, TxType, Locked, Once
<1>2. Cardinality({}) = 0
  BY FS_EmptySet
<1>3. committed = {} /\ balance = Credit /\ count = 0
  BY DEF Init
<1>4. committed \cap Spends = {} /\ committed \cap Refunds = {} /\ committed \cap Counts = {}
  BY <1>3
<1>5. CommitsAddUp
  BY <1>2, <1>3, <1>4, BillingAssumption DEF CommitsAddUp, BillingAssumption
<1> QED
  BY <1>1, <1>5 DEF TxInv

LEMMA TxStutter ==
  ASSUME TxInv, UNCHANGED txVars
  PROVE  TxInv'
BY DEF TxInv, txVars, TxTypes, Locked, Once, Stored, CommitsAddUp

\* A transaction that ends leaves the lock to nobody, and the others are
\* not reading.
LEMMA TxEnds ==
  ASSUME TxInv, NEW t \in Txs, NEW step \in {"yes", "no", "open"},
         TxGoes(t, step), Release(t)
  PROVE  /\ tx' \in [Txs -> TxType] /\ writer' \in Txs \cup {None}
         /\ tx'[t].step = step /\ \A u \in Txs \ {t} : tx'[u] = tx[u]
         /\ \A u \in Txs : tx'[u].step = "read" => writer' = u /\ tx[t].step # "read"
<1>1. tx[t] \in TxType /\ tx \in [Txs -> TxType] /\ writer \in Txs \cup {None}
  BY DEF TxInv, TxTypes
<1>2. tx' = [tx EXCEPT ![t] = [tx[t] EXCEPT !.step = step]]
  BY DEF TxGoes
<1> DEFINE it == [tx[t] EXCEPT !.step = step]
<1>3. it \in TxType /\ it.step = step
  BY <1>1 DEF TxType
<1> HIDE DEF it
<1>4. /\ tx' \in [Txs -> TxType]
      /\ tx'[t].step = step /\ \A u \in Txs \ {t} : tx'[u] = tx[u]
  BY <1>1, <1>2, <1>3 DEF it
<1>5. writer' = IF writer = t THEN None ELSE writer
  BY DEF Release
<1>6. ASSUME NEW u \in Txs, tx'[u].step = "read"
      PROVE  writer' = u /\ tx[t].step # "read"
  <2>1. u # t /\ tx[u].step = "read" /\ writer = u
    BY <1>4, <1>6 DEF TxInv, Locked
  <2>2. tx[t].step # "read"
    BY <2>1 DEF TxInv, Locked
  <2> QED
    BY <2>1, <2>2, <1>5
<1> QED
  BY <1>1, <1>4, <1>5, <1>6

\* The lock is taken before the balance is read.
LEMMA BeginStep ==
  ASSUME TxInv, NEW t \in Txs, Begin(t)
  PROVE  TxInv'
<1> DEFINE it == [step |-> "read", read |-> Stored(t)]
<1>1. /\ tx[t].step = "new" /\ writer = None /\ writer' = t
      /\ tx' = [tx EXCEPT ![t] = it]
      /\ UNCHANGED <<balance, count, committed>>
  BY DEF Begin
<1>2. TxTypes /\ None \notin Txs
  BY BillingAssumption DEF TxInv, BillingAssumption
<1>3. it \in TxType /\ it.step = "read" /\ it.read = Stored(t)
  BY <1>2 DEF TxTypes, TxType, Stored
<1> HIDE DEF it
<1>4. tx' \in [Txs -> TxType] /\ \A u \in Txs : tx'[u] = IF u = t THEN it ELSE tx[u]
  BY <1>1, <1>2, <1>3 DEF TxTypes
<1>5. TxTypes'
  BY <1>1, <1>2, <1>4 DEF TxTypes
<1>6. Stored(t)' = Stored(t)
  BY <1>1 DEF Stored
<1>7. \A u \in Txs : tx[u].step # "read"
  BY <1>1, <1>2 DEF TxInv, Locked
<1>8. Locked'
  BY <1>1, <1>3, <1>4, <1>6, <1>7 DEF Locked
<1>9. Once'
  BY <1>1, <1>4 DEF TxInv, Once
<1>10. CommitsAddUp'
  BY <1>1 DEF TxInv, CommitsAddUp
<1> QED
  BY <1>5, <1>8, <1>9, <1>10 DEF TxInv

\* What was read under the lock is what is stored, so the write adds one
\* debit, credit or call to it.
LEMMA CommitStep ==
  ASSUME TxInv, NEW t \in Txs, Commit(t)
  PROVE  TxInv'
<1>1. /\ tx[t].step = "read" /\ Allowed(t)
      /\ balance' = IF t \in Spends THEN tx[t].read - 1
                    ELSE IF t \in Refunds THEN tx[t].read + 1 ELSE balance
      /\ count' = IF t \in Counts THEN tx[t].read + 1 ELSE count
      /\ committed' = committed \cup {t}
      /\ TxGoes(t, "yes") /\ Release(t)
  BY DEF Commit
<1>2. /\ tx' \in [Txs -> TxType] /\ writer' \in Txs \cup {None}
      /\ tx'[t].step = "yes" /\ \A u \in Txs \ {t} : tx'[u] = tx[u]
      /\ \A u \in Txs : tx'[u].step = "read" => writer' = u /\ tx[t].step # "read"
  BY <1>1, TxEnds
<1>3. tx[t].read = Stored(t) /\ t \notin committed /\ TxTypes
  BY <1>1 DEF TxInv, Locked, Once
<1>4. /\ t \in Spends \cup Refunds \cup Counts
      /\ Spends \cap (Refunds \cup Counts) = {} /\ Refunds \cap Counts = {}
      /\ Credit \in Nat /\ Quota \in Nat
      /\ Spends \subseteq Txs /\ Refunds \subseteq Txs /\ Counts \subseteq Txs
  BY BillingAssumption DEF BillingAssumption, Txs
<1> DEFINE n(S) == Cardinality(committed \cap S)
           m(S) == Cardinality((committed \cup {t}) \cap S)
<1>5. /\ n(Spends) \in Nat /\ n(Refunds) \in Nat /\ n(Counts) \in Nat
      /\ m(Spends) = IF t \in Spends THEN n(Spends) + 1 ELSE n(Spends)
      /\ m(Refunds) = IF t \in Refunds THEN n(Refunds) + 1 ELSE n(Refunds)
      /\ m(Counts) = IF t \in Counts THEN n(Counts) + 1 ELSE n(Counts)
  BY <1>3, <1>4, CountOne DEF TxTypes
<1>6. /\ balance = Credit - n(Spends) + n(Refunds)
      /\ count = n(Counts) /\ count <= Quota
      /\ balance \in Nat /\ count \in Nat
  BY <1>3 DEF TxInv, CommitsAddUp, TxTypes
<1> HIDE DEF n, m
<1>7. /\ balance' \in Nat /\ count' \in Nat
      /\ balance' = Credit - m(Spends) + m(Refunds)
      /\ count' = m(Counts) /\ count' <= Quota
  <2>1. CASE t \in Spends
    <3>1. tx[t].read = balance /\ balance >= 1 /\ t \notin Counts /\ t \notin Refunds
      BY <2>1, <1>1, <1>3, <1>4 DEF Stored, Allowed
    <3> QED
      BY <2>1, <3>1, <1>1, <1>4, <1>5, <1>6
  <2>2. CASE t \in Refunds
    <3>1. tx[t].read = balance /\ t \notin Counts /\ t \notin Spends
      BY <2>2, <1>3, <1>4 DEF Stored
    <3> QED
      BY <2>2, <3>1, <1>1, <1>4, <1>5, <1>6
  <2>3. CASE t \in Counts
    <3>1. tx[t].read = count /\ t \notin Spends /\ t \notin Refunds
      BY <2>3, <1>3, <1>4 DEF Stored
    <3>2. count < Quota
      BY <2>3, <3>1, <1>1 DEF Allowed
    <3> QED
      BY <2>3, <3>1, <3>2, <1>1, <1>4, <1>5, <1>6
  <2> QED
    BY <1>4, <2>1, <2>2, <2>3
<1>8. m(Spends) <= Credit + m(Refunds)
  BY <1>4, <1>5, <1>7
<1>9. CommitsAddUp'
  BY <1>1, <1>7, <1>8 DEF CommitsAddUp, m
<1>10. TxTypes'
  BY <1>1, <1>2, <1>3, <1>7 DEF TxTypes
<1>11. Locked'
  BY <1>1, <1>2 DEF Locked
<1>12. Once'
  BY <1>1, <1>2 DEF TxInv, Once
<1> QED
  BY <1>9, <1>10, <1>11, <1>12 DEF TxInv

\* A refusal and a failure write nothing.
LEMMA NoCommitStep ==
  ASSUME TxInv, NEW t \in Txs, Refuse(t) \/ TxFails(t)
  PROVE  TxInv'
<1>1. PICK step \in {"no", "open"} : TxGoes(t, step) /\ Release(t)
  BY DEF Refuse, TxFails
<1>2. UNCHANGED <<balance, count, committed>>
  BY DEF Refuse, TxFails
<1>3. /\ tx' \in [Txs -> TxType] /\ writer' \in Txs \cup {None}
      /\ tx'[t].step = step /\ \A u \in Txs \ {t} : tx'[u] = tx[u]
      /\ \A u \in Txs : tx'[u].step = "read" => writer' = u /\ tx[t].step # "read"
  BY <1>1, TxEnds
<1>4. TxTypes' /\ Once' /\ CommitsAddUp'
  BY <1>2, <1>3 DEF TxInv, TxTypes, Once, CommitsAddUp
<1>5. \A u \in Txs : Stored(u)' = Stored(u)
  BY <1>2 DEF Stored
<1>6. Locked'
  BY <1>3, <1>5 DEF TxInv, Locked
<1> QED
  BY <1>4, <1>6 DEF TxInv

\* Every step keeps the part about transactions.
LEMMA TxKept == TxInv /\ [Next]_vars => TxInv'
<1> SUFFICES ASSUME TxInv, [Next]_vars PROVE TxInv'
  OBVIOUS
<1>1. ASSUME NEW t \in Txs, TxStep(t) \/ TxFails(t) PROVE TxInv'
  BY <1>1, BeginStep, CommitStep, NoCommitStep DEF TxStep
<1>2. ASSUME \/ \E s \in Sessions, plan \in {None, "pro"} : CreateCheckoutSession(s, plan)
             \/ \E s \in Sessions : \/ GetApiKey(s) \/ Clears(s)
                                    \/ Complete(s, "paid") \/ Complete(s, "processing")
      PROVE  UNCHANGED txVars
  BY <1>2 DEF CreateCheckoutSession, GetApiKey, Clears, Complete
<1>3. ASSUME \/ \E d \in Deliveries, i \in Instances, s \in Sessions : StripeWebhook(d, i, s)
             \/ \E d \in Deliveries : DeliveryStep(d) \/ WebhookFails(d)
      PROVE  UNCHANGED txVars
  BY <1>3 DEF StripeWebhook, DeliveryStep, FindCustomer, StoreKey, StoreCustomer, Received,
              WebhookFails
<1>4. ASSUME \/ \E v \in Views, i \in Instances, s \in Sessions : OpenReport(v, i, s)
             \/ \E v \in Views : ViewStep(v)
             \/ \E i \in Instances : Crash(i)
             \/ UNCHANGED vars
      PROVE  UNCHANGED txVars
  BY <1>4 DEF OpenReport, ViewStep, Verify, LoadReport, RunReport, SaveReport, Crash, vars
<1> QED
  BY <1>1, <1>2, <1>3, <1>4, TxStutter DEF Next

-----------------------------------------------------------------------------
\* A key that the success page has shown works, and bills the buyer it was
\* shown to, through repeated webhooks, crashes and errors of the store
\* (activate_customer).
THEOREM BuyerKeyWorks == Spec => []ShownKeyWorks
<1>1. KeyInv /\ [Next]_vars => KeyInv'
  BY KeyStep
<1>2. KeyInv => ShownKeyWorks
  BY DEF KeyInv
<1> QED
  BY <1>1, <1>2, KeyInit, PTL DEF Spec

\* A customer's key is replaced only if two deliveries of its event were under
\* way at once (activate_customer's "returns the existing key").
THEOREM KeyIsKept == Spec => CustomerKeepsKey
<1>1. KeyInv /\ [Next]_vars => KeyInv'
  BY KeyStep
<1>2. KeyInv /\ [Next]_vars =>
        [\A s \in Plans : customers[s] # None /\ customers'[s] # customers[s]
                            => s \in overlapped]_vars
  BY KeyStep
<1> QED
  BY <1>1, <1>2, KeyInit, PTL DEF Spec, CustomerKeepsKey

\* A report is audited for its buyer alone.  That it is audited once is not a
\* theorem: report_page audits again when two views overlap, or when an audit,
\* the store or the process fails before the report is saved.  What holds is
\* that nothing else makes it audit again (report_page, paid_report_request).
THEOREM ReauditIsExcused == Spec => []OneAuditPerPurchase
<1>1. ReportInv => OneAuditPerPurchase
  BY DEF ReportInv
<1> QED
  BY <1>1, ReportInit, ReportStep, PTL DEF Spec

\* The balance of a key and the count of a quota are what the committed
\* transactions make of them, whatever order they run in and whichever fail
\* (run_in_transaction's BEGIN IMMEDIATE).
THEOREM StoreAddsUp == Spec => []CommitsAddUp
<1>1. TxInv => CommitsAddUp
  BY DEF TxInv
<1> QED
  BY <1>1, TxInit, TxKept, PTL DEF Spec

-----------------------------------------------------------------------------
\* What the three parts have in common: the settings and the faults.
CommonTypes ==
  /\ env \in DeploymentType /\ clients \subseteq {"checkout", "report", "prepaid"}
  /\ faults \in 0 .. MaxFaults

\* A step leaves the settings alone and counts a fault at most.
LEMMA CommonKept == CommonTypes /\ [Next]_vars => CommonTypes'
<1> SUFFICES ASSUME CommonTypes, [Next]_vars PROVE CommonTypes'
  OBVIOUS
<1>1. ASSUME UNCHANGED <<env, clients>>, UNCHANGED faults \/ Fault PROVE CommonTypes'
  BY <1>1, BillingAssumption DEF CommonTypes, Fault
<1>2. CASE \/ \E s \in Sessions, plan \in {None, "pro"} : CreateCheckoutSession(s, plan)
           \/ \E s \in Sessions : \/ GetApiKey(s) \/ Clears(s)
                                  \/ Complete(s, "paid") \/ Complete(s, "processing")
  BY <1>1, <1>2 DEF CreateCheckoutSession, GetApiKey, Clears, Complete, stripeVars
<1>3. CASE \/ \E d \in Deliveries, i \in Instances, s \in Sessions : StripeWebhook(d, i, s)
           \/ \E d \in Deliveries : DeliveryStep(d) \/ WebhookFails(d)
  BY <1>1, <1>3 DEF StripeWebhook, DeliveryStep, FindCustomer, StoreKey, StoreCustomer,
                    Received, WebhookFails, stripeVars
<1>4. CASE \/ \E v \in Views, i \in Instances, s \in Sessions : OpenReport(v, i, s)
           \/ \E v \in Views : ViewStep(v)
  BY <1>1, <1>4 DEF OpenReport, ViewStep, Verify, LoadReport, RunReport, SaveReport,
                    stripeVars
<1>5. CASE \E t \in Txs : TxStep(t) \/ TxFails(t)
  BY <1>1, <1>5 DEF TxStep, Begin, Commit, Refuse, TxFails, stripeVars
<1>6. CASE (\E i \in Instances : Crash(i)) \/ UNCHANGED vars
  BY <1>1, <1>6 DEF Crash, vars, stripeVars
<1> QED
  BY <1>2, <1>3, <1>4, <1>5, <1>6 DEF Next

\* Every variable of checkout, webhook, reports and store holds a value of
\* its kind; the balance of a key never goes below zero (spend_prepaid).
THEOREM TypeCorrect == Spec => []TypeOK
<1>1. ASSUME Init PROVE CommonTypes
  <2>1. env \in Deployments /\ clients \in Traffic /\ faults = 0
    BY <1>1 DEF Init
  <2>2. clients \subseteq {"checkout", "report", "prepaid"}
    BY <2>1, BillingAssumption
  <2> QED
    BY <2>1, <2>2, BillingAssumption DEF CommonTypes
<1>2. KeyInv /\ ReportInv /\ TxInv /\ CommonTypes => TypeOK
  BY DEF KeyInv, KeyTypes, DeliveryType, ReportInv, ViewTypes, ViewType, TxInv, TxTypes,
         TxType, CommonTypes, TypeOK
<1>3. KeyInv /\ [Next]_vars => KeyInv'
  BY KeyStep
<1> QED
  BY <1>1, <1>2, <1>3, KeyInit, ReportInit, ReportStep, TxInit, TxKept, CommonKept, PTL
     DEF Spec

=============================================================================
