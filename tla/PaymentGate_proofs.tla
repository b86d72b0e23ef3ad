------------------------ MODULE PaymentGate_proofs ------------------------
(***************************************************************************)
(* Theorems about PaymentGate, for any number of calls, keys,              *)
(* authorizations, credentials and restarts.  The two ledgers of cents are *)
(* stated of the cents themselves, each a member of a set, so that what    *)
(* they add up to is what the sets hold.                                   *)
(***************************************************************************)
EXTENDS PaymentGate, TLAPS, FiniteSetTheorems

\* Before the gate has let a call in.
Asking == {"idle", "key", "address", "admit", "verify", "credential", "settling", "mint"}

\* After it, until the answer.
Serving == {"work", "bill", "deliver", "unbill"}

\* What a call's place says of its request, its context and its answer.
Phase(c) ==
  /\ pc[c] \in Asking => ctx[c] = NoContext
  /\ pc[c] \in Serving => ctx[c].rail # "none" /\ ctx[c].epoch = epoch
  /\ pc[c] \in {"work", "bill", "unbill"} => ctx[c].settle = "none"
  /\ pc[c] # "done" => reply[c] = "none"
  /\ pc[c] = "verify" => req[c].auth \in Auths
  /\ pc[c] \in {"settling", "mint"} => req[c].cred \in Creds
  /\ pc[c] = "mint" => /\ req[c].cred \in Topups \cap moved
                       /\ CredCents[req[c].cred] > req[c].price
  /\ pc[c] = "deliver" /\ ctx[c].rail = "x402" => ctx[c].settle # "none"

\* What a context says, whatever became of the call.
Context(c) ==
  /\ ctx[c].epoch <= epoch
  /\ ctx[c].settle = "none" => ~ctx[c].garbled
  /\ ctx[c].settle # "none" => ctx[c].rail = "x402"
  /\ ctx[c].refunded => reply[c] = "failed"
  /\ ctx[c].issued \in issued \cup {None} /\ ctx[c].key \in issued \cup {None}
  /\ ctx[c].issued # None => ctx[c].rail = "topup"

\* What the rail says a call has been paid with.
Paid(c) ==
  /\ ctx[c].rail = "internal" => req[c].key = InternalKey
  /\ ctx[c].rail = "prepaid" => ctx[c].cents = req[c].price
  /\ ctx[c].rail = "stripe" => req[c].key \in Subscribers
  /\ ctx[c].rail = "x402" => req[c].auth \in Auths
  /\ ctx[c].settle = "settled" => req[c].auth \in moved
  /\ ctx[c].rail \in {"mpp", "topup"} => req[c].cred \in Creds \cap moved
  /\ reply[c] = "delivered" => /\ ctx[c].rail # "none" /\ ctx[c].settle # "refused"
                               /\ ctx[c].rail = "x402" => ctx[c].settle # "none"

CallInv == TypeOK /\ \A c \in Calls : Phase(c) /\ Context(c) /\ Paid(c)

-----------------------------------------------------------------------------
\* A context that _authenticate returns.
LEMMA GrantShape ==
  ASSUME TypeOK, NEW c \in Calls, NEW rail \in Rails, NEW key \in Keys \cup {None},
         NEW cents \in Nat, NEW bought \in Keys \cup {None}, NEW owed \in Nat,
         Grant(c, rail, key, cents, bought, owed)
  PROVE  /\ ctx' \in [Calls -> ContextType]
         /\ ctx'[c] = [rail |-> rail, key |-> key, cents |-> cents, issued |-> bought,
                       owed |-> owed, settle |-> "none", refunded |-> FALSE,
                       garbled |-> FALSE, epoch |-> epoch]
         /\ \A d \in Calls \ {c} : ctx'[d] = ctx[d]
         /\ pc' = [pc EXCEPT ![c] = "work"]
<1> DEFINE given == [rail |-> rail, key |-> key, cents |-> cents, issued |-> bought,
                     owed |-> owed, settle |-> "none", refunded |-> FALSE,
                     garbled |-> FALSE, epoch |-> epoch]
<1>2. ctx' = [ctx EXCEPT ![c] = given]
  BY DEF Grant
<1>3. given \in ContextType
  BY DEF TypeOK, ContextType, Settles
<1> HIDE DEF given
<1>4. ctx' \in [Calls -> ContextType] /\ ctx'[c] = given
      /\ \A d \in Calls \ {c} : ctx'[d] = ctx[d]
  BY <1>2, <1>3 DEF TypeOK
<1> QED
  BY <1>4 DEF Grant, Goto, given

\* The outcome of a settlement is noted in the context; the rest of it stays.
LEMMA SettledShape ==
  ASSUME TypeOK, NEW c \in Calls, NEW state \in Settles, NEW garbled \in BOOLEAN,
         Settled(c, state, garbled)
  PROVE  /\ ctx' \in [Calls -> ContextType]
         /\ ctx'[c].settle = state /\ ctx'[c].garbled = garbled
         /\ ctx'[c].rail = ctx[c].rail /\ ctx'[c].key = ctx[c].key
         /\ ctx'[c].cents = ctx[c].cents /\ ctx'[c].issued = ctx[c].issued
         /\ ctx'[c].refunded = ctx[c].refunded /\ ctx'[c].epoch = ctx[c].epoch
         /\ \A d \in Calls \ {c} : ctx'[d] = ctx[d]
<1> DEFINE noted == [[ctx[c] EXCEPT !.settle = state] EXCEPT !.garbled = garbled]
<1>1. ctx[c] \in ContextType /\ ctx \in [Calls -> ContextType]
  BY DEF TypeOK
<1>2. ctx' = [ctx EXCEPT ![c] = noted]
  BY <1>1 DEF Settled, ContextType
<1>3. /\ noted \in ContextType /\ noted.settle = state /\ noted.garbled = garbled
      /\ noted.rail = ctx[c].rail /\ noted.key = ctx[c].key
      /\ noted.cents = ctx[c].cents /\ noted.issued = ctx[c].issued
      /\ noted.refunded = ctx[c].refunded /\ noted.epoch = ctx[c].epoch
  BY <1>1 DEF ContextType
<1> HIDE DEF noted
<1> QED
  BY <1>1, <1>2, <1>3

\* The cents went back.
LEMMA RefundShape ==
  ASSUME TypeOK, NEW c \in Calls, ctx' = [ctx EXCEPT ![c].refunded = TRUE]
  PROVE  /\ ctx' \in [Calls -> ContextType] /\ ctx'[c].refunded
         /\ ctx'[c].settle = ctx[c].settle /\ ctx'[c].garbled = ctx[c].garbled
         /\ ctx'[c].rail = ctx[c].rail /\ ctx'[c].key = ctx[c].key
         /\ ctx'[c].cents = ctx[c].cents /\ ctx'[c].issued = ctx[c].issued
         /\ ctx'[c].epoch = ctx[c].epoch
         /\ \A d \in Calls \ {c} : ctx'[d] = ctx[d]
<1> DEFINE noted == [ctx[c] EXCEPT !.refunded = TRUE]
<1>1. ctx[c] \in ContextType /\ ctx \in [Calls -> ContextType]
  BY DEF TypeOK
<1>2. ctx' = [ctx EXCEPT ![c] = noted]
  OBVIOUS
<1>3. /\ noted \in ContextType /\ noted.refunded
      /\ noted.settle = ctx[c].settle /\ noted.garbled = ctx[c].garbled
      /\ noted.rail = ctx[c].rail /\ noted.key = ctx[c].key
      /\ noted.cents = ctx[c].cents /\ noted.issued = ctx[c].issued
      /\ noted.epoch = ctx[c].epoch
  BY <1>1 DEF ContextType
<1> HIDE DEF noted
<1> QED
  BY <1>1, <1>2, <1>3

-----------------------------------------------------------------------------
\* What each step does to the call it belongs to.  Other calls are left as
\* they are.
Others(c) ==
  \A d \in Calls \ {c} : /\ pc'[d] = pc[d] /\ req'[d] = req[d]
                         /\ ctx'[d] = ctx[d] /\ reply'[d] = reply[d]

\* A call that is let in leaves the gate with a context of its own.
LetIn(c, rail) ==
  /\ pc'[c] = "work" /\ pc[c] \in Asking
  /\ ctx'[c].rail = rail /\ ctx'[c].settle = "none" /\ ctx'[c].epoch = epoch
  /\ ~ctx'[c].refunded /\ ~ctx'[c].garbled
  /\ req'[c] = req[c] /\ reply'[c] = reply[c]

\* A call that goes on, or is answered, with the context it has.
MovesOn(c, from, to) ==
  /\ pc[c] = from /\ pc'[c] = to
  /\ req'[c] = req[c] /\ ctx'[c] = ctx[c]

USE DEF Steps, Replies, Rails, Settles, Asking, Serving

LEMMA PriceType ==
  ASSUME TypeOK, NEW c \in Calls
  PROVE  /\ req[c].price \in Nat /\ req[c].auth \in Auths \cup {None}
         /\ req[c].cred \in Creds \cup {None}
         /\ req[c].key \in Keys \cup Subscribers \cup {InternalKey, None}
BY DEF TypeOK, RequestType

LEMMA ArriveStep ==
  ASSUME TypeOK, NEW c \in Calls, Arrive(c)
  PROVE  /\ TypeOK' /\ Others(c) /\ pc[c] = "idle" /\ ctx' = ctx
         /\ UNCHANGED <<keyVars, guardVars, moneyVars, epoch>>
         /\ \/ pc'[c] = "key" /\ reply'[c] = reply[c]
            \/ pc'[c] = "done" /\ reply'[c] = "rate_limited"
<1>1. PICK r \in Requests : req' = [req EXCEPT ![c] = r]
  BY DEF Arrive
<1>2. r \in RequestType
  BY GateAssumption DEF GateAssumption
<1>3. req' \in [Calls -> RequestType] /\ \A d \in Calls \ {c} : req'[d] = req[d]
  BY <1>1, <1>2 DEF TypeOK
<1> QED
  BY <1>3 DEF Arrive, TypeOK, Others, Goto, Answer, keyVars, guardVars, moneyVars

\* The X-API-Key branch: let in on a rail that takes now or later, or sent on.
LEMMA UseKeyStep ==
  ASSUME TypeOK, NEW c \in Calls, UseKey(c)
  PROVE  /\ TypeOK' /\ Others(c) /\ pc[c] = "key"
         /\ UNCHANGED <<issued, wallet, guardVars, moneyVars, epoch>>
         /\ \/ /\ LetIn(c, "internal") /\ req[c].key = InternalKey
               /\ ctx'[c].issued = None /\ ctx'[c].key = None /\ UNCHANGED keyVars
            \/ /\ LetIn(c, "prepaid") /\ ctx'[c].cents = req[c].price
               /\ ctx'[c].issued = None /\ ctx'[c].key = req[c].key
               /\ req[c].key \in issued /\ UNCHANGED <<counted, metered>>
               /\ balance' = [balance EXCEPT ![req[c].key] = @ - req[c].price]
            \/ /\ LetIn(c, "stripe") /\ req[c].key \in Subscribers
               /\ ctx'[c].issued = None /\ ctx'[c].key = None
               /\ UNCHANGED <<balance, metered>>
               /\ counted' \in {counted, [counted EXCEPT ![req[c].key] = @ + 1]}
            \/ \E to \in {"admit", "address"} :
                 MovesOn(c, "key", to) /\ reply'[c] = reply[c] /\ UNCHANGED keyVars
<1>1. /\ pc[c] = "key"
      /\ UNCHANGED <<guardVars, moneyVars, req, reply, epoch>>
  BY DEF UseKey
<1>2. CASE req[c].key = InternalKey /\ Grant(c, "internal", None, 0, None, 0) /\ UNCHANGED keyVars
  <2>1. /\ ctx' \in [Calls -> ContextType]
        /\ ctx'[c] = [rail |-> "internal", key |-> None, cents |-> 0, issued |-> None,
                      owed |-> 0, settle |-> "none", refunded |-> FALSE,
                      garbled |-> FALSE, epoch |-> epoch]
        /\ \A d \in Calls \ {c} : ctx'[d] = ctx[d]
        /\ pc' = [pc EXCEPT ![c] = "work"]
    BY <1>2, GrantShape
  <2> QED
    BY <1>1, <1>2, <2>1 DEF TypeOK, Others, LetIn, keyVars, guardVars, moneyVars
<1>3. CASE SpendPrepaid(c)
  <2>1. /\ req[c].key \in Keys /\ req[c].price \in Nat
        /\ balance[req[c].key] >= req[c].price
        /\ balance' = [balance EXCEPT ![req[c].key] = @ - req[c].price]
        /\ Grant(c, "prepaid", req[c].key, req[c].price, None, 0)
        /\ req[c].key \in issued /\ UNCHANGED <<issued, wallet, counted, metered>>
    BY <1>3, PriceType DEF SpendPrepaid, TypeOK
  <2>2. /\ ctx' \in [Calls -> ContextType]
        /\ ctx'[c] = [rail |-> "prepaid", key |-> req[c].key, cents |-> req[c].price,
                      issued |-> None, owed |-> 0, settle |-> "none", refunded |-> FALSE,
                      garbled |-> FALSE, epoch |-> epoch]
        /\ \A d \in Calls \ {c} : ctx'[d] = ctx[d]
        /\ pc' = [pc EXCEPT ![c] = "work"]
    BY <2>1, GrantShape
  <2>3. balance' \in [Keys -> Nat]
    BY <2>1 DEF TypeOK
  <2> QED
    BY <1>1, <2>1, <2>2, <2>3 DEF TypeOK, Others, LetIn, guardVars, moneyVars
<1>4. CASE SpendQuota(c)
  <2>1. /\ req[c].key \in Subscribers
        /\ Grant(c, "stripe", None, 0, None, 0)
        /\ UNCHANGED <<issued, balance, wallet, metered>>
    BY <1>4 DEF SpendQuota
  <2>2. /\ ctx' \in [Calls -> ContextType]
        /\ ctx'[c] = [rail |-> "stripe", key |-> None, cents |-> 0, issued |-> None,
                      owed |-> 0, settle |-> "none", refunded |-> FALSE,
                      garbled |-> FALSE, epoch |-> epoch]
        /\ \A d \in Calls \ {c} : ctx'[d] = ctx[d]
        /\ pc' = [pc EXCEPT ![c] = "work"]
    BY <2>1, GrantShape
  <2>3. /\ counted' \in [Subscribers -> Nat]
        /\ counted' \in {counted, [counted EXCEPT ![req[c].key] = @ + 1]}
    BY <1>4, <2>1 DEF SpendQuota, TypeOK
  <2> QED
    BY <1>1, <2>1, <2>2, <2>3 DEF TypeOK, Others, LetIn, guardVars, moneyVars
<1>5. CASE KeyFallsThrough(c)
  BY <1>1, <1>5 DEF KeyFallsThrough, Goto, TypeOK, Others, MovesOn, keyVars, guardVars, moneyVars
<1> QED
  BY <1>2, <1>3, <1>4, <1>5 DEF UseKey

LEMMA CheckAddressStep ==
  ASSUME TypeOK, NEW c \in Calls, CheckAddress(c)
  PROVE  /\ TypeOK' /\ Others(c)
         /\ UNCHANGED <<keyVars, guardVars, moneyVars, epoch>>
         /\ \/ MovesOn(c, "address", "admit") /\ reply'[c] = reply[c]
            \/ MovesOn(c, "address", "done") /\ reply'[c] = "rate_limited"
BY DEF CheckAddress, Goto, Answer, TypeOK, Others, MovesOn, keyVars, guardVars, moneyVars

LEMMA AdmitNonceStep ==
  ASSUME TypeOK, NEW c \in Calls, AdmitNonce(c)
  PROVE  /\ TypeOK' /\ Others(c) /\ reply' = reply
         /\ UNCHANGED <<keyVars, used, overlapped, moneyVars, epoch>>
         /\ \/ MovesOn(c, "admit", "credential") /\ nonces' = nonces
            \/ /\ MovesOn(c, "admit", "verify")
               /\ req[c].auth \in Auths \ nonces
               /\ nonces' = nonces \cup ({req[c].auth} \ Nonceless)
<1>1. req[c].auth \in Auths \cup {None}
  BY PriceType
<1> QED
  BY <1>1 DEF AdmitNonce, Guarded, Goto, TypeOK, Others, MovesOn, keyVars, moneyVars

LEMMA VerifyPaymentStep ==
  ASSUME TypeOK, NEW c \in Calls, VerifyPayment(c)
  PROVE  /\ TypeOK' /\ Others(c) /\ pc[c] = "verify"
         /\ UNCHANGED <<keyVars, used, overlapped, moneyVars, epoch>>
         /\ \/ /\ LetIn(c, "x402") /\ ctx'[c].issued = None /\ ctx'[c].key = None
               /\ nonces' = nonces
            \/ /\ MovesOn(c, "verify", "credential") /\ reply'[c] = reply[c]
               /\ nonces' = nonces \ {req[c].auth}
<1>1. CASE Grant(c, "x402", None, 0, None, 0) /\ UNCHANGED nonces
  <2>1. /\ ctx' \in [Calls -> ContextType]
        /\ ctx'[c] = [rail |-> "x402", key |-> None, cents |-> 0, issued |-> None,
                      owed |-> 0, settle |-> "none", refunded |-> FALSE,
                      garbled |-> FALSE, epoch |-> epoch]
        /\ \A d \in Calls \ {c} : ctx'[d] = ctx[d]
        /\ pc' = [pc EXCEPT ![c] = "work"]
    BY <1>1, GrantShape
  <2> QED
    BY <1>1, <2>1 DEF VerifyPayment, TypeOK, Others, LetIn, keyVars, moneyVars
<1>2. CASE nonces' = nonces \ {req[c].auth} /\ Goto(c, "credential") /\ UNCHANGED ctx
  BY <1>2 DEF VerifyPayment, Goto, TypeOK, Others, MovesOn, keyVars, moneyVars
<1> QED
  BY <1>1, <1>2 DEF VerifyPayment

LEMMA ReadCredentialStep ==
  ASSUME TypeOK, NEW c \in Calls, ReadCredential(c)
  PROVE  /\ TypeOK' /\ Others(c)
         /\ UNCHANGED <<keyVars, nonces, used, moneyVars, epoch>>
         /\ \/ /\ MovesOn(c, "credential", "settling") /\ reply'[c] = reply[c]
               /\ req[c].cred \in Creds \ used /\ overlapped \subseteq overlapped'
               /\ \A d \in Calls \ {c} :
                    pc[d] = "settling" /\ req[d].cred = req[c].cred
                      => req[c].cred \in overlapped'
            \/ /\ MovesOn(c, "credential", "done") /\ reply'[c] = "payment_required"
               /\ overlapped' = overlapped
<1>1. \A d \in Calls : req[d].cred \in Creds \cup {None}
  BY PriceType
<1>2. CASE /\ req[c].cred \in Creds \ used /\ Goto(c, "settling") /\ UNCHANGED reply
           /\ overlapped' = overlapped \cup
                {req[d].cred : d \in {e \in Calls \ {c} :
                   /\ pc[e] = "settling" /\ req[e].cred = req[c].cred}}
  <2>1. overlapped' \subseteq Creds
    BY <1>1, <1>2 DEF TypeOK
  <2> QED
    BY <1>2, <2>1 DEF ReadCredential, Goto, TypeOK, Others, MovesOn, keyVars, moneyVars
<1>3. CASE Answer(c, "payment_required") /\ UNCHANGED overlapped
  BY <1>3 DEF ReadCredential, Goto, Answer, TypeOK, Others, MovesOn, keyVars, moneyVars
<1> QED
  BY <1>2, <1>3 DEF ReadCredential

\* The credential's charge comes back: marked and let in, or not let in.
LEMMA SettleCredentialStep ==
  ASSUME TypeOK, NEW c \in Calls, Phase(c), SettleCredential(c)
  PROVE  /\ TypeOK' /\ Others(c) /\ pc[c] = "settling" /\ req[c].cred \in Creds
         /\ UNCHANGED <<keyVars, nonces, overlapped, flying, epoch>>
         /\ \/ /\ used' = used \cup {req[c].cred} /\ moved' = moved \cup {req[c].cred}
               /\ \/ LetIn(c, "mpp") /\ ctx'[c].issued = None /\ ctx'[c].key = None
                  \/ LetIn(c, "topup") /\ ctx'[c].issued = None /\ ctx'[c].key = None
                  \/ /\ MovesOn(c, "settling", "mint") /\ reply'[c] = reply[c]
                     /\ req[c].cred \in Topups /\ CredCents[req[c].cred] > req[c].price
            \/ /\ MovesOn(c, "settling", "done") /\ reply'[c] = "payment_required"
               /\ used' = used /\ moved' \in {moved, moved \cup {req[c].cred}}
<1>1. /\ pc[c] = "settling" /\ req[c].cred \in Creds
      /\ UNCHANGED <<keyVars, nonces, overlapped, flying, req, epoch>>
  BY DEF SettleCredential, Phase
<1>2. ASSUME NEW rail \in {"mpp", "topup"}, Grant(c, rail, None, 0, None, 0),
             UNCHANGED reply, used' = used \cup {req[c].cred},
             moved' = moved \cup {req[c].cred}
      PROVE  /\ TypeOK' /\ Others(c) /\ LetIn(c, rail)
             /\ ctx'[c].issued = None /\ ctx'[c].key = None
  <2>1. /\ ctx' \in [Calls -> ContextType]
        /\ ctx'[c] = [rail |-> rail, key |-> None, cents |-> 0, issued |-> None,
                      owed |-> 0, settle |-> "none", refunded |-> FALSE,
                      garbled |-> FALSE, epoch |-> epoch]
        /\ \A d \in Calls \ {c} : ctx'[d] = ctx[d]
        /\ pc' = [pc EXCEPT ![c] = "work"]
    BY <1>2, GrantShape, SMTT(30)
  <2> QED
    BY <1>1, <1>2, <2>1 DEF TypeOK, Others, LetIn, keyVars
<1>3. ASSUME used' = used \cup {req[c].cred}, moved' = moved \cup {req[c].cred},
             Goto(c, "mint"), UNCHANGED ctx, UNCHANGED reply
      PROVE  TypeOK' /\ Others(c) /\ MovesOn(c, "settling", "mint")
  BY <1>1, <1>3 DEF Goto, TypeOK, Others, MovesOn, keyVars
<1>4. CASE CredentialSettles(c)
  BY <1>1, <1>2, <1>3, <1>4 DEF CredentialSettles
<1>5. CASE CredentialFails(c)
  <2>1. moved' \in {moved, moved \cup {req[c].cred}}
    BY <1>5 DEF CredentialFails
  <2> QED
    BY <1>1, <1>5, <2>1 DEF CredentialFails, Answer, Goto, TypeOK, Others, MovesOn, keyVars
<1> QED
  BY <1>1, <1>4, <1>5 DEF SettleCredential

\* A key takes the credit a top-up left, or the credit is owed.
LEMMA MintKeyStep ==
  ASSUME TypeOK, NEW c \in Calls, Phase(c), MintKey(c)
  PROVE  /\ TypeOK' /\ Others(c) /\ pc[c] = "mint" /\ LetIn(c, "topup")
         /\ UNCHANGED <<wallet, counted, metered, guardVars, moneyVars, epoch>>
         /\ issued \subseteq issued' /\ ctx'[c].issued \in issued' \cup {None}
         /\ issued' \ issued \subseteq {ctx'[c].issued} /\ ctx'[c].key = ctx'[c].issued
         /\ \/ ctx'[c].issued = None /\ balance' = balance
            \/ /\ ctx'[c].issued \in issued /\ ctx'[c].cents = req[c].price
               /\ balance' = [balance EXCEPT ![ctx'[c].issued] = @ + Remaining(c)]
            \/ /\ ctx'[c].issued \in Keys \ issued /\ ctx'[c].cents = req[c].price
               /\ balance' = [balance EXCEPT ![ctx'[c].issued] = Remaining(c)]
<1>1. /\ pc[c] = "mint" /\ req[c].cred \in Topups
      /\ CredCents[req[c].cred] > req[c].price /\ req[c].price \in Nat
      /\ UNCHANGED <<wallet, counted, metered, guardVars, moneyVars, req, reply, epoch>>
  BY PriceType DEF MintKey, Phase
<1>2. Remaining(c) \in Nat
  <2>1. CredCents[req[c].cred] \in Nat
    BY <1>1, GateAssumption DEF GateAssumption, Creds
  <2> QED
    BY <1>1, <2>1 DEF Remaining
<1>3. ASSUME NEW k \in Keys \cup {None}, NEW cents \in Nat, NEW owed \in Nat,
             Grant(c, "topup", k, cents, k, owed),
             issued \subseteq issued', issued' \subseteq Keys,
             balance' \in [Keys -> Nat],
             k \in issued' \cup {None}, issued' \ issued \subseteq {k}
      PROVE  /\ TypeOK' /\ Others(c) /\ LetIn(c, "topup")
             /\ ctx'[c].issued = k /\ ctx'[c].key = k /\ ctx'[c].cents = cents
  <2>1. /\ ctx' \in [Calls -> ContextType]
        /\ ctx'[c] = [rail |-> "topup", key |-> k, cents |-> cents, issued |-> k,
                      owed |-> owed, settle |-> "none", refunded |-> FALSE,
                      garbled |-> FALSE, epoch |-> epoch]
        /\ \A d \in Calls \ {c} : ctx'[d] = ctx[d]
        /\ pc' = [pc EXCEPT ![c] = "work"]
    BY <1>3, GrantShape
  <2> QED
    BY <1>1, <1>3, <2>1 DEF TypeOK, Others, LetIn, guardVars, moneyVars
<1>4. CASE \E k \in issued \cap {req[c].key} :
              /\ balance' = [balance EXCEPT ![k] = @ + Remaining(c)]
              /\ Grant(c, "topup", k, req[c].price, k, 0)
              /\ UNCHANGED issued
  <2>1. PICK k \in issued :
              /\ balance' = [balance EXCEPT ![k] = @ + Remaining(c)]
              /\ Grant(c, "topup", k, req[c].price, k, 0)
              /\ UNCHANGED issued
    BY <1>4
  <2>2. k \in Keys /\ issued \subseteq Keys
    BY DEF TypeOK
  <2>3. balance' \in [Keys -> Nat]
    BY <1>2, <2>1, <2>2 DEF TypeOK
  <2>4. issued' = issued
    BY <2>1
  <2> HIDE DEF Remaining
  <2> QED
    BY <1>1, <1>3, <2>1, <2>2, <2>3, <2>4
<1>5. CASE \E k \in Keys \ issued :
              /\ issued' = issued \cup {k}
              /\ balance' = [balance EXCEPT ![k] = Remaining(c)]
              /\ Grant(c, "topup", k, req[c].price, k, 0)
  <2>1. PICK k \in Keys \ issued :
              /\ issued' = issued \cup {k}
              /\ balance' = [balance EXCEPT ![k] = Remaining(c)]
              /\ Grant(c, "topup", k, req[c].price, k, 0)
    BY <1>5
  <2>2. balance' \in [Keys -> Nat] /\ issued \subseteq Keys
    BY <1>2, <2>1 DEF TypeOK
  <2> QED
    BY <1>1, <1>3, <2>1, <2>2
<1>6. CASE /\ Grant(c, "topup", None, 0, None, Remaining(c))
           /\ UNCHANGED <<issued, balance>>
  <2>1. issued' = issued /\ issued \subseteq Keys /\ balance' \in [Keys -> Nat]
    BY <1>6 DEF TypeOK
  <2>2. Grant(c, "topup", None, 0, None, Remaining(c)) /\ 0 \in Nat
    BY <1>6
  <2>3. /\ issued \subseteq issued' /\ issued' \subseteq Keys
        /\ None \in issued' \cup {None} /\ issued' \ issued \subseteq {None}
    BY <2>1
  <2>4. None \in Keys \cup {None} /\ balance' = balance
    BY <1>6
  <2>5. /\ TypeOK' /\ Others(c) /\ LetIn(c, "topup")
        /\ ctx'[c].issued = None /\ ctx'[c].key = None
    BY <1>2, <1>3, <2>1, <2>2, <2>3, <2>4
  <2> QED
    BY <1>1, <2>3, <2>4, <2>5
<1>7. \/ \E k \in issued \cap {req[c].key} :
            /\ balance' = [balance EXCEPT ![k] = @ + Remaining(c)]
            /\ Grant(c, "topup", k, req[c].price, k, 0)
            /\ UNCHANGED issued
      \/ \E k \in Keys \ issued :
            /\ issued' = issued \cup {k}
            /\ balance' = [balance EXCEPT ![k] = Remaining(c)]
            /\ Grant(c, "topup", k, req[c].price, k, 0)
      \/ /\ Grant(c, "topup", None, 0, None, Remaining(c))
         /\ UNCHANGED <<issued, balance>>
  BY DEF MintKey
<1>8. issued \subseteq issued'
  BY <1>7
<1> QED
  BY <1>1, <1>4, <1>5, <1>6, <1>7, <1>8

LEMMA DoWorkStep ==
  ASSUME TypeOK, NEW c \in Calls, DoWork(c)
  PROVE  /\ TypeOK' /\ Others(c) /\ reply' = reply
         /\ UNCHANGED <<keyVars, guardVars, moneyVars, epoch>>
         /\ \E to \in {"bill", "unbill"} : MovesOn(c, "work", to)
BY DEF DoWork, Goto, TypeOK, Others, MovesOn, keyVars, guardVars, moneyVars

\* Everything a context says but the outcome of its settlement and refund.
SameGrant(c) ==
  /\ ctx'[c].rail = ctx[c].rail /\ ctx'[c].key = ctx[c].key
  /\ ctx'[c].cents = ctx[c].cents /\ ctx'[c].issued = ctx[c].issued
  /\ ctx'[c].epoch = ctx[c].epoch

\* What a settlement does to the payer's money.
Collected(a) ==
  \/ a \notin moved /\ moved' = moved \cup {a} /\ flying' = flying \ {a}
  \/ a \notin moved /\ moved' = moved /\ flying' = flying \cup {a}
  \/ UNCHANGED moneyVars

\* The facilitator's answer says what may have become of the money.
LEMMA SettlePaymentStep ==
  ASSUME TypeOK, NEW c \in Calls, req[c].auth \in Auths, SettlePayment(c)
  PROVE  /\ ctx' \in [Calls -> ContextType] /\ SameGrant(c)
         /\ \A d \in Calls \ {c} : ctx'[d] = ctx[d]
         /\ ctx'[c].refunded = ctx[c].refunded /\ ctx'[c].settle # "none"
         /\ ctx'[c].settle = "settled" => req[c].auth \in moved'
         /\ moved \subseteq moved' /\ moved' \subseteq moved \cup {req[c].auth}
         /\ flying' \subseteq flying \cup {req[c].auth}
         /\ \/ ctx'[c].settle \in {"settled", "pending", "unknown"} \/ ctx'[c].garbled
            \/ UNCHANGED moneyVars
         /\ Collected(req[c].auth)
<1>1. ASSUME NEW state \in Settles \ {"none"}, NEW garbled \in BOOLEAN, Settled(c, state, garbled)
      PROVE  /\ ctx' \in [Calls -> ContextType] /\ SameGrant(c)
             /\ \A d \in Calls \ {c} : ctx'[d] = ctx[d]
             /\ ctx'[c].refunded = ctx[c].refunded
             /\ ctx'[c].settle = state /\ ctx'[c].garbled = garbled
  BY <1>1, SettledShape DEF SameGrant
<1>0. Collected(req[c].auth)
  BY DEF SettlePayment, Collected, moneyVars
<1>2. CASE Settled(c, "settled", FALSE) /\ moved' = moved \cup {req[c].auth}
           /\ flying' = flying \ {req[c].auth}
  <2>1. /\ ctx' \in [Calls -> ContextType] /\ SameGrant(c)
        /\ \A d \in Calls \ {c} : ctx'[d] = ctx[d]
        /\ ctx'[c].refunded = ctx[c].refunded /\ ctx'[c].settle = "settled"
    BY <1>1, <1>2
  <2> QED
    BY <1>0, <1>2, <2>1
<1>3. CASE /\ flying' = flying \cup ({req[c].auth} \ moved) /\ UNCHANGED moved
           /\ \/ Settled(c, "pending", FALSE) \/ Settled(c, "unknown", FALSE)
              \/ Settled(c, "refused", TRUE)
  <2>1. CASE Settled(c, "refused", TRUE)
    <3>1. /\ ctx' \in [Calls -> ContextType] /\ SameGrant(c)
          /\ \A d \in Calls \ {c} : ctx'[d] = ctx[d]
          /\ ctx'[c].refunded = ctx[c].refunded
          /\ ctx'[c].settle = "refused" /\ ctx'[c].garbled = TRUE
      BY <1>1, <2>1
    <3> QED
      BY <1>0, <1>3, <3>1
  <2>2. ASSUME NEW state \in {"pending", "unknown"}, Settled(c, state, FALSE)
        PROVE  /\ ctx' \in [Calls -> ContextType] /\ SameGrant(c)
               /\ \A d \in Calls \ {c} : ctx'[d] = ctx[d]
               /\ ctx'[c].refunded = ctx[c].refunded /\ ctx'[c].settle = state
    BY <1>1, <2>2
  <2>3. CASE Settled(c, "pending", FALSE) \/ Settled(c, "unknown", FALSE)
    <3>1. PICK state \in {"pending", "unknown"} : Settled(c, state, FALSE)
      BY <2>3
    <3>2. /\ ctx' \in [Calls -> ContextType] /\ SameGrant(c)
          /\ \A d \in Calls \ {c} : ctx'[d] = ctx[d]
          /\ ctx'[c].refunded = ctx[c].refunded /\ ctx'[c].settle = state
      BY <2>2, <3>1
    <3> QED
      BY <1>0, <1>3, <3>2
  <2> QED
    BY <1>3, <2>1, <2>3
<1>4. CASE Settled(c, "refused", FALSE) /\ UNCHANGED moneyVars
  <2>1. /\ ctx' \in [Calls -> ContextType] /\ SameGrant(c)
        /\ \A d \in Calls \ {c} : ctx'[d] = ctx[d]
        /\ ctx'[c].refunded = ctx[c].refunded /\ ctx'[c].settle = "refused"
    BY <1>1, <1>4
  <2> QED
    BY <1>0, <1>4, <2>1 DEF moneyVars
<1> QED
  BY <1>0, <1>2, <1>3, <1>4 DEF SettlePayment

LEMMA BillStep ==
  ASSUME TypeOK, NEW c \in Calls, Phase(c), Paid(c), Bill(c)
  PROVE  /\ TypeOK' /\ Others(c) /\ pc[c] = "bill" /\ pc'[c] = "deliver"
         /\ req' = req /\ reply' = reply /\ SameGrant(c)
         /\ ctx'[c].refunded = ctx[c].refunded
         /\ UNCHANGED <<issued, balance, wallet, counted, guardVars, epoch>>
         /\ \/ metered' = metered
            \/ /\ ctx[c].rail = "stripe"
               /\ \E n \in 0 .. req[c].price : metered' = [metered EXCEPT ![req[c].key] = @ + n]
         /\ ctx'[c].settle = "settled" => req[c].auth \in moved'
         /\ moved \subseteq moved'
         /\ \/ ctx[c].rail # "x402" /\ ctx' = ctx /\ UNCHANGED moneyVars
            \/ /\ ctx[c].rail = "x402" /\ ctx'[c].settle # "none"
               /\ moved' \subseteq moved \cup {req[c].auth}
               /\ flying' \subseteq flying \cup {req[c].auth}
               /\ \/ ctx'[c].settle \in {"settled", "pending", "unknown"}
                  \/ ctx'[c].garbled
                  \/ UNCHANGED moneyVars
               /\ Collected(req[c].auth)
<1>1. /\ pc[c] = "bill" /\ pc' = [pc EXCEPT ![c] = "deliver"]
      /\ UNCHANGED <<issued, balance, wallet, counted, guardVars, req, reply, epoch>>
  BY DEF Bill, Goto
<1>2. pc' \in [Calls -> Steps] /\ pc'[c] = "deliver" /\ \A d \in Calls \ {c} : pc'[d] = pc[d]
  BY <1>1 DEF TypeOK
<1>3. CASE ctx[c].rail = "x402" /\ SettlePayment(c) /\ UNCHANGED metered
  <2>1. req[c].auth \in Auths
    BY <1>3 DEF Paid
  <2> QED
    BY <1>1, <1>2, <1>3, <2>1, SettlePaymentStep DEF TypeOK, Others, guardVars
<1>4. ASSUME ctx[c].rail # "x402", UNCHANGED <<ctx, moneyVars>>,
             metered' \in [Subscribers -> Nat]
      PROVE  /\ TypeOK' /\ Others(c) /\ SameGrant(c)
             /\ ctx'[c].settle = "settled" => req[c].auth \in moved'
  BY <1>1, <1>2, <1>4 DEF TypeOK, Others, SameGrant, Phase, guardVars, moneyVars
<1>5. CASE ctx[c].rail = "stripe" /\ RecordUsage(c)
  <2>1. req[c].key \in Subscribers /\ req[c].price \in Nat
    BY <1>5, PriceType DEF Paid
  <2>2. PICK n \in 0 .. req[c].price : metered' = [metered EXCEPT ![req[c].key] = @ + n]
    BY <1>5 DEF RecordUsage
  <2>3. metered' \in [Subscribers -> Nat]
    BY <2>1, <2>2 DEF TypeOK
  <2> QED
    BY <1>1, <1>2, <1>4, <1>5, <2>2, <2>3 DEF RecordUsage, moneyVars
<1>6. CASE ctx[c].rail \notin {"x402", "stripe"} /\ UNCHANGED <<ctx, moneyVars, metered>>
  <2>1. metered' \in [Subscribers -> Nat]
    BY <1>6 DEF TypeOK
  <2> QED
    BY <1>1, <1>2, <1>4, <1>6, <2>1 DEF moneyVars
<1> QED
  BY <1>3, <1>5, <1>6 DEF Bill

LEMMA DeliverStep ==
  ASSUME TypeOK, NEW c \in Calls, Context(c), Deliver(c)
  PROVE  /\ TypeOK' /\ Others(c) /\ MovesOn(c, "deliver", "done")
         /\ UNCHANGED <<issued, balance, counted, metered, guardVars, moneyVars, epoch>>
         /\ \/ ctx[c].settle = "refused" /\ reply'[c] = "withheld" /\ wallet' = wallet
            \/ /\ ctx[c].settle # "refused" /\ reply'[c] = "delivered"
               /\ wallet' = wallet \cup ({ctx[c].issued} \ {None})
<1>1. ctx[c].issued \in issued \cup {None}
  BY DEF Context
<1> QED
  BY <1>1 DEF Deliver, HandOver, Answer, Goto, TypeOK, Others, MovesOn, guardVars, moneyVars

\* The cents go back or not; the credential is released; the key is shown.
LEMMA UnbillStep ==
  ASSUME TypeOK, NEW c \in Calls, Context(c), Unbill(c)
  PROVE  /\ TypeOK' /\ Others(c) /\ pc[c] = "unbill" /\ pc'[c] = "done"
         /\ req' = req /\ reply'[c] = "failed" /\ SameGrant(c)
         /\ ctx'[c].settle = ctx[c].settle /\ ctx'[c].garbled = ctx[c].garbled
         /\ UNCHANGED <<issued, counted, metered, nonces, overlapped, moneyVars, epoch>>
         /\ \/ balance' = balance /\ ctx'[c].refunded = ctx[c].refunded
            \/ /\ ctx[c].key \in Keys /\ ctx'[c].refunded
               /\ balance' = [balance EXCEPT ![ctx[c].key] = @ + ctx[c].cents]
         /\ wallet' = wallet \cup ({ctx[c].issued} \ {None})
         /\ used' = IF ctx[c].rail = "mpp" THEN used \ ({req[c].cred} \ Respelt) ELSE used
<1>1. ctx[c].issued \in issued \cup {None}
  BY DEF Context
<1>2. /\ ctx' \in [Calls -> ContextType] /\ SameGrant(c) /\ balance' \in [Keys -> Nat]
      /\ \A d \in Calls \ {c} : ctx'[d] = ctx[d]
      /\ ctx'[c].settle = ctx[c].settle /\ ctx'[c].garbled = ctx[c].garbled
      /\ \/ balance' = balance /\ ctx'[c].refunded = ctx[c].refunded
         \/ /\ ctx[c].key \in Keys /\ ctx'[c].refunded
            /\ balance' = [balance EXCEPT ![ctx[c].key] = @ + ctx[c].cents]
  <2>1. CASE /\ ctx[c].key # None
             /\ balance' = [balance EXCEPT ![ctx[c].key] = @ + ctx[c].cents]
             /\ ctx' = [ctx EXCEPT ![c].refunded = TRUE]
    <3>1. ctx[c].key \in Keys /\ ctx[c].cents \in Nat
      BY <2>1 DEF TypeOK, ContextType
    <3>2. balance' \in [Keys -> Nat]
      BY <2>1, <3>1 DEF TypeOK
    <3> QED
      BY <2>1, <3>1, <3>2, RefundShape DEF SameGrant
  <2>2. CASE UNCHANGED <<balance, ctx>>
    BY <2>2 DEF TypeOK, SameGrant
  <2> QED
    BY <2>1, <2>2 DEF Unbill
<1> QED
  BY <1>1, <1>2 DEF Unbill, HandOver, Answer, Goto, TypeOK, Others, moneyVars

LEMMA TransferEndsStep ==
  ASSUME TypeOK, NEW a \in Auths, TransferEnds(a)
  PROVE  /\ TypeOK' /\ UNCHANGED <<keyVars, guardVars, callVars, epoch>>
         /\ a \in flying /\ flying' \subseteq flying
         /\ moved \subseteq moved' /\ moved' \subseteq moved \cup {a}
BY DEF TransferEnds, TypeOK, keyVars, guardVars, callVars

LEMMA RestartStep ==
  ASSUME TypeOK, Restart
  PROVE  /\ TypeOK' /\ UNCHANGED <<keyVars, moneyVars, req, ctx>>
         /\ epoch' = epoch + 1 /\ nonces' = {} /\ used' = {} /\ overlapped' = {}
         /\ \A c \in Calls :
              /\ pc[c] = "idle" => pc'[c] = "idle" /\ reply'[c] = reply[c]
              /\ pc[c] = "done" => pc'[c] = "done" /\ reply'[c] = reply[c]
              /\ pc[c] \notin {"idle", "done"} => pc'[c] = "done" /\ reply'[c] = "lost"
BY DEF Restart, TypeOK, keyVars, moneyVars

-----------------------------------------------------------------------------
\* Calls a step leaves alone keep what is known of them.
LEMMA OthersKeep ==
  ASSUME CallInv, NEW c \in Calls, Others(c), TypeOK', epoch' = epoch,
         issued \subseteq issued', moved \subseteq moved',
         Phase(c)', Context(c)', Paid(c)'
  PROVE  CallInv'
<1>1. \A d \in Calls \ {c} : Phase(d)'
  BY DEF CallInv, Others, Phase
<1>2. \A d \in Calls \ {c} : Context(d)'
  BY DEF CallInv, Others, Context
<1>3. \A d \in Calls \ {c} : Paid(d)'
  BY DEF CallInv, Others, Paid
<1> QED
  BY <1>1, <1>2, <1>3 DEF CallInv

LEMMA NoneIsNoKey ==
  None \notin Keys /\ None \notin Auths /\ None \notin Creds
BY GateAssumption DEF GateAssumption

\* What holds of each call by itself holds from the start and after any step.
LEMMA CallInvInit == Init => CallInv
<1> SUFFICES ASSUME Init PROVE CallInv
  OBVIOUS
<1>1. NoRequest \in RequestType /\ NoContext \in ContextType
  BY DEF NoRequest, RequestType, NoContext, ContextType
<1>2. TypeOK
  <2>1. balance \in [Keys -> Nat]
    BY GateAssumption DEF Init, GateAssumption
  <2> QED
    BY <1>1, <2>1, GateAssumption DEF Init, TypeOK, GateAssumption, Creds
<1>3. ASSUME NEW c \in Calls PROVE Phase(c) /\ Context(c) /\ Paid(c)
  <2>1. /\ pc[c] = "idle" /\ ctx[c] = NoContext /\ reply[c] = "none" /\ epoch = 0
    BY DEF Init
  <2> QED
    BY <2>1 DEF Phase, Context, Paid, NoContext
<1> QED
  BY <1>2, <1>3 DEF CallInv

LEMMA CallInvNext == CallInv /\ [Next]_vars => CallInv'
<1> SUFFICES ASSUME CallInv, [Next]_vars PROVE CallInv'
  OBVIOUS
<1>0. TypeOK /\ \A c \in Calls : Phase(c) /\ Context(c) /\ Paid(c)
  BY DEF CallInv
<1> USE DEF keyVars, guardVars, moneyVars
<1>1. ASSUME NEW c \in Calls, Arrive(c) PROVE CallInv'
  <2>1. /\ TypeOK' /\ Others(c) /\ pc[c] = "idle" /\ ctx' = ctx /\ ctx[c] = NoContext
        /\ UNCHANGED <<keyVars, guardVars, moneyVars, epoch>>
        /\ reply[c] = "none"
        /\ \/ pc'[c] = "key" /\ reply'[c] = reply[c]
           \/ pc'[c] = "done" /\ reply'[c] = "rate_limited"
    BY <1>0, <1>1, ArriveStep DEF Phase
  <2>2. Phase(c)' /\ Context(c)' /\ Paid(c)'
    BY <1>0, <2>1 DEF Phase, Context, Paid, NoContext
  <2> QED
    BY <2>1, <2>2, OthersKeep
<1>2. ASSUME NEW c \in Calls, TypeOK', Others(c), NEW rail \in Rails \ {"none"},
             LetIn(c, rail), epoch' = epoch,
             issued \subseteq issued', moved \subseteq moved',
             ctx'[c].issued \in issued' \cup {None}, ctx'[c].key \in issued' \cup {None},
             ctx'[c].issued # None => rail = "topup",
             Paid(c)'
      PROVE  CallInv'
  <2>1. Phase(c)' /\ Context(c)'
    BY <1>0, <1>2 DEF LetIn, Phase, Context, TypeOK
  <2> QED
    BY <1>2, <2>1, OthersKeep
<1>3. ASSUME NEW c \in Calls, TypeOK', Others(c), NEW from \in Asking, NEW to \in Steps,
             MovesOn(c, from, to), epoch' = epoch,
             issued \subseteq issued', moved \subseteq moved', Phase(c)',
             reply'[c] \in {"none", "payment_required", "rate_limited"}
      PROVE  CallInv'
  <2>1. ctx'[c] = NoContext /\ ctx[c] = NoContext
    BY <1>0, <1>3 DEF MovesOn, Phase
  <2>2. Context(c)' /\ Paid(c)'
    BY <1>0, <1>3, <2>1 DEF MovesOn, Context, Paid, NoContext
  <2> QED
    BY <1>3, <2>2, OthersKeep
<1>4. ASSUME NEW c \in Calls, UseKey(c) PROVE CallInv'
  <2>1. /\ TypeOK' /\ Others(c) /\ pc[c] = "key" /\ reply[c] = "none"
        /\ UNCHANGED <<issued, wallet, guardVars, moneyVars, epoch>>
        /\ pc'[c] = "work" => ctx'[c].key \in issued \cup {None}
        /\ \/ /\ LetIn(c, "internal") /\ req[c].key = InternalKey
              /\ ctx'[c].issued = None
           \/ /\ LetIn(c, "prepaid") /\ ctx'[c].cents = req[c].price
              /\ ctx'[c].issued = None
           \/ /\ LetIn(c, "stripe") /\ req[c].key \in Subscribers
              /\ ctx'[c].issued = None
           \/ \E to \in {"admit", "address"} :
                MovesOn(c, "key", to) /\ reply'[c] = reply[c]
    BY <1>0, <1>4, UseKeyStep DEF Phase, MovesOn
  <2>2. ASSUME NEW rail \in {"internal", "prepaid", "stripe"},
               LetIn(c, rail), ctx'[c].issued = None,
               rail = "internal" => req[c].key = InternalKey,
               rail = "prepaid" => ctx'[c].cents = req[c].price,
               rail = "stripe" => req[c].key \in Subscribers
        PROVE  CallInv'
    <3>1. Paid(c)'
      BY <2>1, <2>2 DEF LetIn, Paid
    <3>2. rail \in Rails \ {"none"} /\ ctx'[c].key \in issued' \cup {None}
      BY <2>1, <2>2 DEF LetIn
    <3> QED
      BY <1>2, <2>1, <2>2, <3>1, <3>2
  <2>3. ASSUME NEW to \in {"admit", "address"}, MovesOn(c, "key", to), reply'[c] = reply[c]
        PROVE  CallInv'
    <3>1. Phase(c)'
      BY <1>0, <2>1, <2>3 DEF MovesOn, Phase
    <3>2. "key" \in Asking /\ to \in Steps
      OBVIOUS
    <3>3. reply'[c] = "none" /\ issued' = issued /\ moved' = moved
      BY <2>1, <2>3
    <3> QED
      BY <1>3, <2>1, <2>3, <3>1, <3>2, <3>3
  <2> QED
    BY <2>1, <2>2, <2>3
<1>5. ASSUME NEW c \in Calls, CheckAddress(c) PROVE CallInv'
  <2>1. /\ TypeOK' /\ Others(c) /\ epoch' = epoch /\ issued' = issued /\ moved' = moved
        /\ \/ MovesOn(c, "address", "admit") /\ reply'[c] = reply[c]
           \/ MovesOn(c, "address", "done") /\ reply'[c] = "rate_limited"
    BY <1>0, <1>5, CheckAddressStep
  <2>2. reply[c] = "none" /\ ctx[c] = NoContext
    BY <1>0, <2>1 DEF MovesOn, Phase
  <2>3. Phase(c)'
    BY <1>0, <2>1, <2>2 DEF MovesOn, Phase
  <2> QED
    BY <1>3, <2>1, <2>2, <2>3
<1>6. ASSUME NEW c \in Calls, AdmitNonce(c) PROVE CallInv'
  <2>1. /\ TypeOK' /\ Others(c) /\ epoch' = epoch /\ issued' = issued /\ moved' = moved
        /\ reply' = reply
        /\ \/ MovesOn(c, "admit", "credential")
           \/ MovesOn(c, "admit", "verify") /\ req[c].auth \in Auths
    BY <1>0, <1>6, AdmitNonceStep
  <2>2. reply[c] = "none" /\ ctx[c] = NoContext
    BY <1>0, <2>1 DEF MovesOn, Phase
  <2>3. Phase(c)'
    BY <1>0, <2>1, <2>2 DEF MovesOn, Phase
  <2> QED
    BY <1>3, <2>1, <2>2, <2>3
<1>7. ASSUME NEW c \in Calls, VerifyPayment(c) PROVE CallInv'
  <2>1. /\ TypeOK' /\ Others(c) /\ epoch' = epoch /\ issued' = issued /\ moved' = moved
        /\ pc[c] = "verify" /\ req[c].auth \in Auths /\ reply[c] = "none"
        /\ \/ LetIn(c, "x402") /\ ctx'[c].issued = None /\ ctx'[c].key = None
           \/ MovesOn(c, "verify", "credential") /\ reply'[c] = reply[c]
    BY <1>0, <1>7, VerifyPaymentStep DEF Phase
  <2>2. CASE LetIn(c, "x402") /\ ctx'[c].issued = None /\ ctx'[c].key = None
    <3>1. Paid(c)'
      BY <2>1, <2>2 DEF LetIn, Paid
    <3> QED
      BY <1>2, <2>1, <2>2, <3>1
  <2>3. CASE MovesOn(c, "verify", "credential") /\ reply'[c] = reply[c]
    <3>1. Phase(c)'
      BY <1>0, <2>1, <2>3 DEF MovesOn, Phase
    <3> QED
      BY <1>3, <2>1, <2>3, <3>1
  <2> QED
    BY <2>1, <2>2, <2>3
<1>8. ASSUME NEW c \in Calls, ReadCredential(c) PROVE CallInv'
  <2>1. /\ TypeOK' /\ Others(c) /\ epoch' = epoch /\ issued' = issued /\ moved' = moved
        /\ \/ MovesOn(c, "credential", "settling") /\ reply'[c] = reply[c] /\ req[c].cred \in Creds
           \/ MovesOn(c, "credential", "done") /\ reply'[c] = "payment_required"
    BY <1>0, <1>8, ReadCredentialStep
  <2>2. reply[c] = "none" /\ ctx[c] = NoContext
    BY <1>0, <2>1 DEF MovesOn, Phase
  <2>3. Phase(c)'
    BY <1>0, <2>1, <2>2 DEF MovesOn, Phase
  <2> QED
    BY <1>3, <2>1, <2>2, <2>3
<1>9. ASSUME NEW c \in Calls, SettleCredential(c) PROVE CallInv'
  <2>1. /\ TypeOK' /\ Others(c) /\ pc[c] = "settling" /\ req[c].cred \in Creds
        /\ epoch' = epoch /\ issued' = issued /\ reply[c] = "none" /\ moved \subseteq moved'
        /\ \/ /\ moved' = moved \cup {req[c].cred}
              /\ \/ LetIn(c, "mpp") /\ ctx'[c].issued = None /\ ctx'[c].key = None
                 \/ LetIn(c, "topup") /\ ctx'[c].issued = None /\ ctx'[c].key = None
                 \/ /\ MovesOn(c, "settling", "mint") /\ reply'[c] = reply[c]
                    /\ req[c].cred \in Topups /\ CredCents[req[c].cred] > req[c].price
           \/ MovesOn(c, "settling", "done") /\ reply'[c] = "payment_required"
    BY <1>0, <1>9, SettleCredentialStep DEF Phase
  <2>2. ASSUME NEW rail \in {"mpp", "topup"}, LetIn(c, rail), ctx'[c].issued = None,
               ctx'[c].key = None, moved' = moved \cup {req[c].cred}
        PROVE  CallInv'
    <3>1. Paid(c)'
      BY <2>1, <2>2 DEF LetIn, Paid
    <3>2. rail \in Rails \ {"none"}
      OBVIOUS
    <3> QED
      BY <1>2, <2>1, <2>2, <3>1, <3>2
  <2>3. ASSUME NEW to \in {"mint", "done"}, MovesOn(c, "settling", to),
               to = "mint" => /\ reply'[c] = reply[c] /\ req[c].cred \in Topups
                              /\ CredCents[req[c].cred] > req[c].price
                              /\ moved' = moved \cup {req[c].cred},
               to = "done" => reply'[c] = "payment_required"
        PROVE  CallInv'
    <3>1. Phase(c)'
      BY <1>0, <2>1, <2>3 DEF MovesOn, Phase
    <3>2. /\ to \in Steps /\ "settling" \in Asking
          /\ reply'[c] \in {"none", "payment_required", "rate_limited"}
      BY <2>1, <2>3
    <3> QED
      BY <1>3, <2>1, <2>3, <3>1, <3>2
  <2> QED
    BY <2>1, <2>2, <2>3
<1>10. ASSUME NEW c \in Calls, MintKey(c) PROVE CallInv'
  <2>1. /\ TypeOK' /\ Others(c) /\ LetIn(c, "topup") /\ epoch' = epoch /\ moved' = moved
        /\ issued \subseteq issued' /\ ctx'[c].issued \in issued' \cup {None}
        /\ ctx'[c].key \in issued' \cup {None} /\ reply[c] = "none" /\ req[c].cred \in Creds \cap moved
    BY <1>0, <1>10, MintKeyStep DEF Phase
  <2>2. Paid(c)'
    BY <2>1 DEF LetIn, Paid
  <2> QED
    BY <1>2, <2>1, <2>2
<1>11. ASSUME NEW c \in Calls, DoWork(c) PROVE CallInv'
  <2>1. /\ TypeOK' /\ Others(c) /\ epoch' = epoch /\ issued' = issued /\ moved' = moved
        /\ reply' = reply
    BY <1>0, <1>11, DoWorkStep
  <2>2. \E to \in {"bill", "unbill"} : MovesOn(c, "work", to)
    BY <1>0, <1>11, DoWorkStep
  <2>3. Phase(c)' /\ Context(c)' /\ Paid(c)'
    BY <1>0, <2>1, <2>2 DEF MovesOn, Phase, Context, Paid
  <2> QED
    BY <2>1, <2>3, OthersKeep
<1>12. ASSUME NEW c \in Calls, Bill(c) PROVE CallInv'
  <2>1. /\ TypeOK' /\ Others(c) /\ pc[c] = "bill" /\ pc'[c] = "deliver"
        /\ req' = req /\ reply' = reply /\ SameGrant(c)
        /\ ctx'[c].refunded = ctx[c].refunded
        /\ issued' = issued /\ epoch' = epoch
        /\ ctx'[c].settle = "settled" => req[c].auth \in moved'
        /\ moved \subseteq moved' /\ reply[c] = "none"
        /\ \/ ctx[c].rail # "x402" /\ ctx' = ctx
           \/ ctx[c].rail = "x402" /\ ctx'[c].settle # "none"
    BY <1>0, <1>12, BillStep DEF Phase
  <2>2. Phase(c)'
    BY <1>0, <2>1 DEF SameGrant, Phase
  <2>3. Context(c)' /\ Paid(c)'
    BY <1>0, <2>1 DEF SameGrant, Context, Paid
  <2> QED
    BY <2>1, <2>2, <2>3, OthersKeep
<1>13. ASSUME NEW c \in Calls, Deliver(c) PROVE CallInv'
  <2>1. /\ TypeOK' /\ Others(c) /\ MovesOn(c, "deliver", "done")
        /\ issued' = issued /\ moved' = moved /\ epoch' = epoch
        /\ \/ ctx[c].settle = "refused" /\ reply'[c] = "withheld"
           \/ ctx[c].settle # "refused" /\ reply'[c] = "delivered"
        /\ reply[c] = "none" /\ ctx[c].rail # "none"
        /\ ctx[c].rail = "x402" => ctx[c].settle # "none"
    BY <1>0, <1>13, DeliverStep DEF MovesOn, Phase
  <2>2. Phase(c)' /\ Context(c)' /\ Paid(c)'
    BY <1>0, <2>1 DEF MovesOn, Phase, Context, Paid
  <2> QED
    BY <2>1, <2>2, OthersKeep
<1>14. ASSUME NEW c \in Calls, Unbill(c) PROVE CallInv'
  <2>1. /\ TypeOK' /\ Others(c) /\ pc[c] = "unbill" /\ pc'[c] = "done"
        /\ req' = req /\ reply'[c] = "failed" /\ SameGrant(c)
        /\ ctx'[c].settle = ctx[c].settle /\ ctx'[c].garbled = ctx[c].garbled
        /\ issued' = issued /\ moved' = moved /\ epoch' = epoch
    BY <1>0, <1>14, UnbillStep
  <2>2. Phase(c)' /\ Context(c)' /\ Paid(c)'
    BY <1>0, <2>1 DEF SameGrant, Phase, Context, Paid
  <2> QED
    BY <2>1, <2>2, OthersKeep
<1>15. ASSUME NEW a \in Auths, TransferEnds(a) PROVE CallInv'
  <2>1. /\ TypeOK' /\ UNCHANGED <<issued, callVars, epoch>> /\ moved \subseteq moved'
    BY <1>0, <1>15, TransferEndsStep
  <2> QED
    BY <1>0, <2>1 DEF CallInv, Phase, Context, Paid, callVars
<1>16. ASSUME Restart PROVE CallInv'
  <2>1. /\ TypeOK' /\ issued' = issued /\ moved' = moved /\ req' = req /\ ctx' = ctx
        /\ epoch' = epoch + 1
    BY <1>0, <1>16, RestartStep
  <2>2. ASSUME NEW c \in Calls PROVE Phase(c)' /\ Context(c)' /\ Paid(c)'
    <3>1. /\ pc[c] = "idle" => pc'[c] = "idle" /\ reply'[c] = reply[c]
          /\ pc[c] = "done" => pc'[c] = "done" /\ reply'[c] = reply[c]
          /\ pc[c] \notin {"idle", "done"} => pc'[c] = "done" /\ reply'[c] = "lost"
      BY <1>0, <1>16, RestartStep
    <3>2. epoch \in Nat /\ ctx[c].epoch \in Nat
      BY <1>0 DEF TypeOK, ContextType
    <3>3. pc[c] \notin {"idle", "done"} => reply[c] = "none"
      BY <1>0 DEF Phase
    <3> QED
      BY <1>0, <2>1, <3>1, <3>2, <3>3 DEF Phase, Context, Paid
  <2> QED
    BY <2>1, <2>2 DEF CallInv
<1>17. ASSUME UNCHANGED vars PROVE CallInv'
  BY <1>0, <1>17 DEF vars, callVars, CallInv, TypeOK, Phase, Context, Paid
<1> QED
  BY <1>1, <1>4, <1>5, <1>6, <1>7, <1>8, <1>9, <1>10, <1>11, <1>12, <1>13, <1>14,
     <1>15, <1>16, <1>17 DEF Next, CallStep

\* Every reachable state has the declared types, and what is known of each
\* call by itself holds in it.
THEOREM TypeCorrect == Spec => []TypeOK
<1>1. CallInv => TypeOK
  BY DEF CallInv
<1> QED
  BY <1>1, CallInvInit, CallInvNext, PTL DEF Spec

\* Whoever is served has paid on the rail that let the call in, or the
\* facilitator may still be taking the money (_deliver, _settlement_refused).
THEOREM ServedHasPaid == Spec => []DeliveredWasPaid
<1>1. CallInv => DeliveredWasPaid
  <2> SUFFICES ASSUME CallInv, NEW c \in Calls, reply[c] = "delivered"
               PROVE  DeliveredWasPaid!(c)!2
    BY DEF DeliveredWasPaid
  <2>1. Context(c) /\ Paid(c)
    BY DEF CallInv
  <2>2. ctx[c].rail = "prepaid" => ~ctx[c].refunded
    BY <2>1 DEF Context
  <2>3. ctx[c].settle # "refused" /\ ctx[c].rail # "none"
    BY <2>1 DEF Paid
  <2> QED
    BY <2>1, <2>2, <2>3 DEF Paid
<1> QED
  BY <1>1, CallInvInit, CallInvNext, PTL DEF Spec

-----------------------------------------------------------------------------
(* The nonce table *)

\* Call c has authorization a at the facilitator, or was let in on it by this
\* process.
Owner(c, a) ==
  /\ req[c].auth = a
  /\ pc[c] = "verify" \/ (ctx[c].rail = "x402" /\ ctx[c].epoch = epoch)

NonceInv ==
  \A a \in Auths \ Nonceless :
    /\ \A c, d \in Calls : Owner(c, a) /\ Owner(d, a) => c = d
    /\ a \in nonces <=> \E c \in Calls : Owner(c, a)

\* A step of c changes what c owns and nothing else.
LEMMA OthersOwn ==
  ASSUME NEW c \in Calls, Others(c), epoch' = epoch
  PROVE  \A d \in Calls \ {c} : \A a : Owner(d, a)' <=> Owner(d, a)
BY DEF Others, Owner

LEMMA OwnersStay ==
  ASSUME NonceInv, NEW c \in Calls, Others(c), epoch' = epoch, nonces' = nonces,
         \A a : Owner(c, a)' <=> Owner(c, a)
  PROVE  NonceInv'
<1>1. \A d \in Calls : \A a : Owner(d, a)' <=> Owner(d, a)
  BY OthersOwn
<1> HIDE DEF Owner
<1> QED
  BY <1>1 DEF NonceInv

LEMMA NonceInvNext == CallInv /\ NonceInv /\ [Next]_vars => NonceInv'
<1> SUFFICES ASSUME CallInv, NonceInv, [Next]_vars PROVE NonceInv'
  OBVIOUS
<1>0. TypeOK /\ \A c \in Calls : Phase(c) /\ Context(c) /\ Paid(c)
  BY DEF CallInv
<1> USE DEF keyVars, guardVars, moneyVars
<1>1. ASSUME NEW c \in Calls, Arrive(c) PROVE NonceInv'
  <2>1. /\ Others(c) /\ nonces' = nonces /\ epoch' = epoch /\ pc[c] = "idle"
        /\ ctx' = ctx /\ ctx[c] = NoContext /\ pc'[c] # "verify"
    BY <1>0, <1>1, ArriveStep DEF Phase
  <2>2. \A a : ~Owner(c, a) /\ ~Owner(c, a)'
    BY <2>1 DEF Owner, NoContext
  <2> QED
    BY <2>1, <2>2, OwnersStay
<1>2. ASSUME NEW c \in Calls, UseKey(c) PROVE NonceInv'
  <2>0. \/ \E rail \in {"internal", "prepaid", "stripe"} : LetIn(c, rail)
        \/ \E to \in {"admit", "address"} : MovesOn(c, "key", to)
    BY <1>0, <1>2, UseKeyStep
  <2>1. /\ Others(c) /\ nonces' = nonces /\ epoch' = epoch /\ pc[c] = "key"
        /\ ctx[c] = NoContext /\ pc'[c] # "verify" /\ ctx'[c].rail # "x402"
    <3>1. Others(c) /\ nonces' = nonces /\ epoch' = epoch /\ pc[c] = "key"
      BY <1>0, <1>2, UseKeyStep
    <3>2. ctx[c] = NoContext
      BY <1>0, <3>1 DEF Phase
    <3> QED
      BY <2>0, <3>1, <3>2 DEF LetIn, MovesOn, NoContext
  <2>2. \A a : ~Owner(c, a) /\ ~Owner(c, a)'
    BY <2>1 DEF Owner, NoContext
  <2> QED
    BY <2>1, <2>2, OwnersStay
<1>3. ASSUME NEW c \in Calls, CheckAddress(c) PROVE NonceInv'
  <2>1. /\ Others(c) /\ nonces' = nonces /\ epoch' = epoch /\ pc[c] = "address"
        /\ ctx[c] = NoContext /\ pc'[c] # "verify" /\ ctx'[c] = NoContext
    BY <1>0, <1>3, CheckAddressStep DEF Phase, MovesOn
  <2>2. \A a : ~Owner(c, a) /\ ~Owner(c, a)'
    BY <2>1 DEF Owner, NoContext
  <2> QED
    BY <2>1, <2>2, OwnersStay
<1>4. ASSUME NEW c \in Calls, AdmitNonce(c) PROVE NonceInv'
  <2>1. /\ Others(c) /\ epoch' = epoch /\ pc[c] = "admit" /\ req'[c] = req[c]
        /\ ctx[c] = NoContext /\ ctx'[c] = NoContext
        /\ \/ pc'[c] = "credential" /\ nonces' = nonces
           \/ /\ pc'[c] = "verify" /\ req[c].auth \in Auths \ nonces
              /\ nonces' = nonces \cup ({req[c].auth} \ Nonceless)
    BY <1>0, <1>4, AdmitNonceStep DEF Phase, MovesOn
  <2>2. \A a : ~Owner(c, a)
    BY <2>1 DEF Owner, NoContext
  <2>3. CASE pc'[c] = "credential" /\ nonces' = nonces
    <3>1. \A a : ~Owner(c, a)'
      BY <2>1, <2>3 DEF Owner, NoContext
    <3> QED
      BY <2>1, <2>2, <2>3, <3>1, OwnersStay
  <2>4. CASE /\ pc'[c] = "verify" /\ req[c].auth \in Auths \ nonces
             /\ nonces' = nonces \cup ({req[c].auth} \ Nonceless)
    <3>1. \A a : Owner(c, a)' <=> a = req[c].auth
      BY <2>1, <2>4 DEF Owner, NoContext
    <3>2. \A d \in Calls \ {c} : \A a : Owner(d, a)' <=> Owner(d, a)
      BY <2>1, OthersOwn
    <3> HIDE DEF Owner
    <3> QED
      BY <2>2, <2>4, <3>1, <3>2 DEF NonceInv
  <2> QED
    BY <2>1, <2>3, <2>4
<1>5. ASSUME NEW c \in Calls, VerifyPayment(c) PROVE NonceInv'
  <2>1. /\ Others(c) /\ epoch' = epoch /\ pc[c] = "verify" /\ req'[c] = req[c]
        /\ ctx[c] = NoContext
        /\ \/ /\ pc'[c] = "work" /\ ctx'[c].rail = "x402" /\ ctx'[c].epoch = epoch
              /\ nonces' = nonces
           \/ /\ pc'[c] = "credential" /\ ctx'[c] = NoContext
              /\ nonces' = nonces \ {req[c].auth}
    BY <1>0, <1>5, VerifyPaymentStep DEF Phase, LetIn, MovesOn
  <2>2. \A a : Owner(c, a) <=> a = req[c].auth
    BY <2>1 DEF Owner, NoContext
  <2>3. CASE pc'[c] = "work" /\ ctx'[c].rail = "x402" /\ ctx'[c].epoch = epoch /\ nonces' = nonces
    <3>1. \A a : Owner(c, a)' <=> a = req[c].auth
      BY <2>1, <2>3 DEF Owner
    <3> QED
      BY <2>1, <2>2, <2>3, <3>1, OwnersStay
  <2>4. CASE pc'[c] = "credential" /\ ctx'[c] = NoContext /\ nonces' = nonces \ {req[c].auth}
    <3>1. \A a : ~Owner(c, a)'
      BY <2>1, <2>4 DEF Owner, NoContext
    <3>2. \A d \in Calls \ {c} : \A a : Owner(d, a)' <=> Owner(d, a)
      BY <2>1, OthersOwn
    <3> HIDE DEF Owner
    <3> QED
      BY <2>2, <2>4, <3>1, <3>2 DEF NonceInv
  <2> QED
    BY <2>1, <2>3, <2>4
<1>6. ASSUME NEW c \in Calls, ReadCredential(c) PROVE NonceInv'
  <2>1. /\ Others(c) /\ nonces' = nonces /\ epoch' = epoch /\ pc[c] = "credential"
        /\ ctx[c] = NoContext /\ pc'[c] # "verify" /\ ctx'[c] = NoContext
    BY <1>0, <1>6, ReadCredentialStep DEF Phase, MovesOn
  <2>2. \A a : ~Owner(c, a) /\ ~Owner(c, a)'
    BY <2>1 DEF Owner, NoContext
  <2> QED
    BY <2>1, <2>2, OwnersStay
<1>7. ASSUME NEW c \in Calls, SettleCredential(c) PROVE NonceInv'
  <2>0. \/ \E rail \in {"mpp", "topup"} : LetIn(c, rail)
        \/ \E to \in {"mint", "done"} : MovesOn(c, "settling", to)
    BY <1>0, <1>7, SettleCredentialStep
  <2>1. /\ Others(c) /\ nonces' = nonces /\ epoch' = epoch /\ pc[c] = "settling"
        /\ ctx[c] = NoContext /\ pc'[c] # "verify" /\ ctx'[c].rail # "x402"
    <3>1. Others(c) /\ nonces' = nonces /\ epoch' = epoch /\ pc[c] = "settling"
      BY <1>0, <1>7, SettleCredentialStep
    <3>2. ctx[c] = NoContext
      BY <1>0, <3>1 DEF Phase
    <3> QED
      BY <2>0, <3>1, <3>2 DEF LetIn, MovesOn, NoContext
  <2>2. \A a : ~Owner(c, a) /\ ~Owner(c, a)'
    BY <2>1 DEF Owner, NoContext
  <2> QED
    BY <2>1, <2>2, OwnersStay
<1>8. ASSUME NEW c \in Calls, MintKey(c) PROVE NonceInv'
  <2>1. /\ Others(c) /\ nonces' = nonces /\ epoch' = epoch /\ pc[c] = "mint"
        /\ ctx[c] = NoContext /\ pc'[c] # "verify" /\ ctx'[c].rail # "x402"
    BY <1>0, <1>8, MintKeyStep DEF Phase, LetIn
  <2>2. \A a : ~Owner(c, a) /\ ~Owner(c, a)'
    BY <2>1 DEF Owner, NoContext
  <2> QED
    BY <2>1, <2>2, OwnersStay
<1>9. ASSUME NEW c \in Calls, Others(c), nonces' = nonces, epoch' = epoch,
             pc[c] # "verify", pc'[c] # "verify", req'[c] = req[c],
             ctx'[c].rail = ctx[c].rail, ctx'[c].epoch = ctx[c].epoch
      PROVE  NonceInv'
  BY <1>9, OwnersStay DEF Owner
<1>10. ASSUME NEW c \in Calls, DoWork(c) PROVE NonceInv'
  BY <1>0, <1>9, <1>10, DoWorkStep DEF MovesOn
<1>11. ASSUME NEW c \in Calls, Bill(c) PROVE NonceInv'
  BY <1>0, <1>9, <1>11, BillStep DEF SameGrant
<1>12. ASSUME NEW c \in Calls, Deliver(c) PROVE NonceInv'
  BY <1>0, <1>9, <1>12, DeliverStep DEF MovesOn
<1>13. ASSUME NEW c \in Calls, Unbill(c) PROVE NonceInv'
  BY <1>0, <1>9, <1>13, UnbillStep DEF SameGrant
<1>14. ASSUME NEW a \in Auths, TransferEnds(a) PROVE NonceInv'
  <2>1. UNCHANGED <<nonces, callVars, epoch>>
    BY <1>0, <1>14, TransferEndsStep
  <2> QED
    BY <2>1 DEF NonceInv, Owner, callVars
<1>15. ASSUME Restart PROVE NonceInv'
  <2>1. /\ req' = req /\ ctx' = ctx /\ epoch' = epoch + 1 /\ nonces' = {}
    BY <1>0, <1>15, RestartStep
  <2>2. ASSUME NEW c \in Calls PROVE \A a : ~Owner(c, a)'
    <3>1. pc'[c] # "verify"
      BY <1>0, <1>15, RestartStep
    <3>2. ctx[c].epoch <= epoch /\ epoch \in Nat /\ ctx[c].epoch \in Nat
      BY <1>0 DEF Context, TypeOK, ContextType
    <3> QED
      BY <2>1, <3>1, <3>2 DEF Owner
  <2> QED
    BY <2>1, <2>2 DEF NonceInv
<1>16. ASSUME UNCHANGED vars PROVE NonceInv'
  BY <1>16 DEF vars, callVars, NonceInv, Owner
<1> QED
  BY <1>1, <1>2, <1>3, <1>4, <1>5, <1>6, <1>7, <1>8, <1>10, <1>11, <1>12, <1>13, <1>14,
     <1>15, <1>16 DEF Next, CallStep

\* A signed authorization with a nonce buys at most one call in a life of the
\* process, and stays refused only while a call has it or was let in on it
\* (_admit_nonce, _release_nonce).
THEOREM NonceBuysOneCall == Spec => []NoncesAreExact
<1>1. Init => NonceInv
  <2> SUFFICES ASSUME Init PROVE NonceInv
    OBVIOUS
  <2>1. \A c \in Calls : \A a : ~Owner(c, a)
    BY DEF Init, Owner, NoContext
  <2> QED
    BY <2>1 DEF Init, NonceInv
<1>2. CallInv /\ NonceInv => NoncesAreExact
  <2> SUFFICES ASSUME CallInv, NonceInv PROVE NoncesAreExact
    OBVIOUS
  <2>1. OneCallPerAuthorization
    BY DEF NonceInv, Owner, OneCallPerAuthorization, GrantedOn
  <2>2. ASSUME NEW a \in nonces
        PROVE  \E c \in Calls : req[c].auth = a /\ (pc[c] = "verify" \/ c \in GrantedOn(a))
    <3>1. a \in Auths \ Nonceless
      BY DEF CallInv, TypeOK
    <3>2. PICK c \in Calls : Owner(c, a)
      BY <3>1 DEF NonceInv
    <3> QED
      BY <3>2 DEF Owner, GrantedOn
  <2> QED
    BY <2>1, <2>2 DEF NoncesAreExact, NonceHeldForACall
<1> QED
  BY <1>1, <1>2, CallInvInit, CallInvNext, NonceInvNext, PTL DEF Spec

-----------------------------------------------------------------------------
(* The payers' money *)

\* Call c is why the money of authorization a moved or may move.
Accounts(c, a) ==
  /\ ctx[c].rail = "x402" /\ req[c].auth = a
  /\ ctx[c].settle \in {"settled", "pending", "unknown"} \/ ctx[c].garbled

\* A step that moves no authorization's money, of a call that has settled
\* nothing or keeps what it has settled.
LEMMA MoneyStays ==
  ASSUME CallInv, MovedOnlyForResults, NEW c \in Calls, Others(c),
         Auths \cap (moved' \cup flying') \subseteq moved \cup flying,
         \/ ctx[c].settle = "none"
         \/ /\ req'[c] = req[c] /\ ctx'[c].rail = ctx[c].rail
            /\ ctx'[c].settle = ctx[c].settle /\ ctx'[c].garbled = ctx[c].garbled
  PROVE  MovedOnlyForResults'
<1>1. \A a \in Auths \cap (moved' \cup flying') : \E d \in Calls : Accounts(d, a)
  BY DEF MovedOnlyForResults, Accounts
<1>2. \A d \in Calls \ {c} : \A a : Accounts(d, a) => Accounts(d, a)'
  BY DEF Others, Accounts
<1>3. \A a : Accounts(c, a) => Accounts(c, a)'
  BY DEF CallInv, Context, Accounts
<1>4. \A a \in Auths \cap (moved' \cup flying') : \E d \in Calls : Accounts(d, a)'
  BY <1>1, <1>2, <1>3
<1> QED
  BY <1>4 DEF MovedOnlyForResults, Accounts

LEMMA MoneyNext == CallInv /\ MovedOnlyForResults /\ [Next]_vars => MovedOnlyForResults'
<1> SUFFICES ASSUME CallInv, MovedOnlyForResults, [Next]_vars PROVE MovedOnlyForResults'
  OBVIOUS
<1>0. TypeOK /\ \A c \in Calls : Phase(c) /\ Context(c) /\ Paid(c)
  BY DEF CallInv
<1> USE DEF moneyVars
<1>1. ASSUME NEW c \in Calls, Others(c), pc[c] \in Asking,
             Auths \cap (moved' \cup flying') \subseteq moved \cup flying
      PROVE  MovedOnlyForResults'
  <2>1. ctx[c].settle = "none"
    BY <1>0, <1>1 DEF Phase, NoContext
  <2> QED
    BY <1>1, <2>1, MoneyStays
<1>2. ASSUME NEW c \in Calls, Arrive(c) PROVE MovedOnlyForResults'
  BY <1>0, <1>1, <1>2, ArriveStep
<1>3. ASSUME NEW c \in Calls, UseKey(c) PROVE MovedOnlyForResults'
  BY <1>0, <1>1, <1>3, UseKeyStep
<1>4. ASSUME NEW c \in Calls, CheckAddress(c) PROVE MovedOnlyForResults'
  <2>1. Others(c) /\ pc[c] = "address" /\ UNCHANGED moneyVars
    BY <1>0, <1>4, CheckAddressStep DEF MovesOn
  <2> QED
    BY <1>1, <2>1
<1>5. ASSUME NEW c \in Calls, AdmitNonce(c) PROVE MovedOnlyForResults'
  <2>1. Others(c) /\ pc[c] = "admit" /\ UNCHANGED moneyVars
    BY <1>0, <1>5, AdmitNonceStep DEF MovesOn
  <2> QED
    BY <1>1, <2>1
<1>6. ASSUME NEW c \in Calls, VerifyPayment(c) PROVE MovedOnlyForResults'
  BY <1>0, <1>1, <1>6, VerifyPaymentStep
<1>7. ASSUME NEW c \in Calls, ReadCredential(c) PROVE MovedOnlyForResults'
  <2>1. Others(c) /\ pc[c] = "credential" /\ UNCHANGED moneyVars
    BY <1>0, <1>7, ReadCredentialStep DEF MovesOn
  <2> QED
    BY <1>1, <2>1
<1>8. ASSUME NEW c \in Calls, SettleCredential(c) PROVE MovedOnlyForResults'
  <2>1. /\ Others(c) /\ pc[c] = "settling" /\ flying' = flying
        /\ moved' \in {moved, moved \cup {req[c].cred}} /\ req[c].cred \in Creds
    BY <1>0, <1>8, SettleCredentialStep
  <2>2. Auths \cap Creds = {}
    BY GateAssumption DEF GateAssumption
  <2> QED
    BY <1>1, <2>1, <2>2
<1>9. ASSUME NEW c \in Calls, MintKey(c) PROVE MovedOnlyForResults'
  BY <1>0, <1>1, <1>9, MintKeyStep
<1>10. ASSUME NEW c \in Calls, DoWork(c) PROVE MovedOnlyForResults'
  <2>1. Others(c) /\ pc[c] = "work" /\ UNCHANGED moneyVars
    BY <1>0, <1>10, DoWorkStep DEF MovesOn
  <2>2. ctx[c].settle = "none"
    BY <1>0, <2>1 DEF Phase
  <2> QED
    BY <2>1, <2>2, MoneyStays
<1>11. ASSUME NEW c \in Calls, Bill(c) PROVE MovedOnlyForResults'
  <2>1. /\ Others(c) /\ pc[c] = "bill" /\ req' = req /\ ctx'[c].rail = ctx[c].rail
        /\ \/ UNCHANGED moneyVars
           \/ /\ ctx[c].rail = "x402"
              /\ moved' \subseteq moved \cup {req[c].auth}
              /\ flying' \subseteq flying \cup {req[c].auth}
              /\ \/ ctx'[c].settle \in {"settled", "pending", "unknown"}
                 \/ ctx'[c].garbled
    BY <1>0, <1>11, BillStep DEF SameGrant
  <2>2. ctx[c].settle = "none" /\ ~ctx[c].garbled
    BY <1>0, <2>1 DEF Phase, Context
  <2>3. CASE UNCHANGED moneyVars
    BY <2>1, <2>2, <2>3, MoneyStays
  <2>4. CASE /\ ctx[c].rail = "x402"
             /\ moved' \subseteq moved \cup {req[c].auth}
             /\ flying' \subseteq flying \cup {req[c].auth}
             /\ \/ ctx'[c].settle \in {"settled", "pending", "unknown"}
                \/ ctx'[c].garbled
    <3>1. \A a : a = req[c].auth => Accounts(c, a)'
      BY <2>1, <2>4 DEF Accounts
    <3>2. \A a \in Auths \cap (moved \cup flying) : \E d \in Calls : Accounts(d, a)
      BY DEF MovedOnlyForResults, Accounts
    <3>3. \A d \in Calls \ {c} : \A a : Accounts(d, a) => Accounts(d, a)'
      BY <2>1 DEF Others, Accounts
    <3>4. \A a : ~Accounts(c, a)
      BY <2>2 DEF Accounts
    <3>5. \A a \in Auths \cap (moved' \cup flying') : \E d \in Calls : Accounts(d, a)'
      <4> SUFFICES ASSUME NEW a \in Auths \cap (moved' \cup flying')
                   PROVE  \E d \in Calls : Accounts(d, a)'
        OBVIOUS
      <4>1. CASE a = req[c].auth
        BY <3>1, <4>1
      <4>2. CASE a # req[c].auth
        <5>1. a \in Auths \cap (moved \cup flying)
          BY <2>4, <4>2
        <5>2. PICK d \in Calls : Accounts(d, a)
          BY <3>2, <5>1
        <5> QED
          BY <3>3, <3>4, <5>2
      <4> QED
        BY <4>1, <4>2
    <3> QED
      BY <3>5 DEF MovedOnlyForResults, Accounts
  <2> QED
    BY <2>1, <2>3, <2>4
<1>12. ASSUME NEW c \in Calls, Deliver(c) PROVE MovedOnlyForResults'
  <2>1. Others(c) /\ req'[c] = req[c] /\ ctx'[c] = ctx[c] /\ UNCHANGED moneyVars
    BY <1>0, <1>12, DeliverStep DEF MovesOn
  <2> QED
    BY <2>1, MoneyStays
<1>13. ASSUME NEW c \in Calls, Unbill(c) PROVE MovedOnlyForResults'
  <2>1. Others(c) /\ pc[c] = "unbill" /\ UNCHANGED moneyVars
    BY <1>0, <1>13, UnbillStep
  <2>2. ctx[c].settle = "none"
    BY <1>0, <2>1 DEF Phase
  <2> QED
    BY <2>1, <2>2, MoneyStays
<1>14. ASSUME NEW a \in Auths, TransferEnds(a) PROVE MovedOnlyForResults'
  <2>1. /\ UNCHANGED callVars /\ a \in flying /\ flying' \subseteq flying
        /\ moved' \subseteq moved \cup {a}
    BY <1>0, <1>14, TransferEndsStep
  <2> QED
    BY <2>1 DEF MovedOnlyForResults, callVars
<1>15. ASSUME Restart PROVE MovedOnlyForResults'
  BY <1>0, <1>15, RestartStep DEF MovedOnlyForResults
<1>16. ASSUME UNCHANGED vars PROVE MovedOnlyForResults'
  BY <1>16 DEF vars, callVars, MovedOnlyForResults
<1> QED
  BY <1>2, <1>3, <1>4, <1>5, <1>6, <1>7, <1>8, <1>9, <1>10, <1>11, <1>12, <1>13, <1>14,
     <1>15, <1>16 DEF Next, CallStep

\* The money of an authorization moves, or may still move, only for a call
\* whose work produced a result and whose settlement was not plainly refused
\* (_bill, settle_sync).
THEOREM MoneyMovesForWork == Spec => []MovedOnlyForResults
<1>1. Init => MovedOnlyForResults
  BY GateAssumption DEF Init, MovedOnlyForResults, GateAssumption, Creds
<1> QED
  BY <1>1, CallInvInit, CallInvNext, MoneyNext, PTL DEF Spec

-----------------------------------------------------------------------------
(* The keys that are bought *)

\* Call c will show key k, or a restart killed it before it could.
Owes(c, k) == ctx[c].issued = k /\ (pc[c] # "done" \/ reply[c] = "lost")

\* A step of c that mints nothing and keeps what c owes.
LEMMA DebtsStay ==
  ASSUME BoughtKeyReachesPayer, NEW c \in Calls, Others(c),
         issued' = issued, wallet \subseteq wallet',
         \A k \in issued \ wallet' : Owes(c, k) => Owes(c, k)'
  PROVE  BoughtKeyReachesPayer'
<1>1. \A d \in Calls \ {c} : \A k : Owes(d, k) => Owes(d, k)'
  BY DEF Others, Owes
<1>2. \A k \in issued' \ wallet' : \E d \in Calls : Owes(d, k)'
  BY <1>1 DEF BoughtKeyReachesPayer, Owes
<1> QED
  BY <1>2 DEF BoughtKeyReachesPayer, Owes

LEMMA DebtsNext == CallInv /\ BoughtKeyReachesPayer /\ [Next]_vars => BoughtKeyReachesPayer'
<1> SUFFICES ASSUME CallInv, BoughtKeyReachesPayer, [Next]_vars PROVE BoughtKeyReachesPayer'
  OBVIOUS
<1>0. TypeOK /\ \A c \in Calls : Phase(c) /\ Context(c) /\ Paid(c)
  BY DEF CallInv
<1> USE DEF keyVars
<1>1. ASSUME NEW c \in Calls, Others(c), pc[c] \in Asking, issued' = issued, wallet' = wallet
      PROVE  BoughtKeyReachesPayer'
  <2>1. ctx[c].issued = None
    BY <1>0, <1>1 DEF Phase, NoContext
  <2>2. issued \subseteq Keys
    BY <1>0 DEF TypeOK
  <2>3. \A k \in issued \ wallet' : ~Owes(c, k)
    BY <2>1, <2>2, NoneIsNoKey DEF Owes
  <2> QED
    BY <1>1, <2>3, DebtsStay
<1>2. ASSUME NEW c \in Calls, Arrive(c) PROVE BoughtKeyReachesPayer'
  BY <1>0, <1>1, <1>2, ArriveStep
<1>3. ASSUME NEW c \in Calls, UseKey(c) PROVE BoughtKeyReachesPayer'
  BY <1>0, <1>1, <1>3, UseKeyStep
<1>4. ASSUME NEW c \in Calls, CheckAddress(c) PROVE BoughtKeyReachesPayer'
  <2>1. Others(c) /\ pc[c] = "address" /\ UNCHANGED keyVars
    BY <1>0, <1>4, CheckAddressStep DEF MovesOn
  <2> QED
    BY <1>1, <2>1
<1>5. ASSUME NEW c \in Calls, AdmitNonce(c) PROVE BoughtKeyReachesPayer'
  <2>1. Others(c) /\ pc[c] = "admit" /\ UNCHANGED keyVars
    BY <1>0, <1>5, AdmitNonceStep DEF MovesOn
  <2> QED
    BY <1>1, <2>1
<1>6. ASSUME NEW c \in Calls, VerifyPayment(c) PROVE BoughtKeyReachesPayer'
  BY <1>0, <1>1, <1>6, VerifyPaymentStep
<1>7. ASSUME NEW c \in Calls, ReadCredential(c) PROVE BoughtKeyReachesPayer'
  <2>1. Others(c) /\ pc[c] = "credential" /\ UNCHANGED keyVars
    BY <1>0, <1>7, ReadCredentialStep DEF MovesOn
  <2> QED
    BY <1>1, <2>1
<1>8. ASSUME NEW c \in Calls, SettleCredential(c) PROVE BoughtKeyReachesPayer'
  BY <1>0, <1>1, <1>8, SettleCredentialStep
<1>9. ASSUME NEW c \in Calls, MintKey(c) PROVE BoughtKeyReachesPayer'
  <2>1. /\ Others(c) /\ pc[c] = "mint" /\ pc'[c] = "work" /\ wallet' = wallet
        /\ issued' \ issued \subseteq {ctx'[c].issued}
    BY <1>0, <1>9, MintKeyStep DEF LetIn
  <2>2. ctx[c].issued = None /\ issued \subseteq Keys
    BY <1>0, <2>1 DEF Phase, NoContext, TypeOK
  <2>3. \A k \in issued \ wallet : \E d \in Calls \ {c} : Owes(d, k)
    BY <2>2, NoneIsNoKey DEF BoughtKeyReachesPayer, Owes
  <2>4. \A d \in Calls \ {c} : \A k : Owes(d, k) => Owes(d, k)'
    BY <2>1 DEF Others, Owes
  <2>5. \A k \in issued' \ issued : Owes(c, k)'
    BY <2>1 DEF Owes
  <2>6. \A k \in issued' \ wallet' : \E d \in Calls : Owes(d, k)'
    BY <2>1, <2>3, <2>4, <2>5
  <2> QED
    BY <2>6 DEF BoughtKeyReachesPayer, Owes
<1>10. ASSUME NEW c \in Calls, DoWork(c) PROVE BoughtKeyReachesPayer'
  <2>1. /\ Others(c) /\ UNCHANGED keyVars /\ ctx'[c] = ctx[c] /\ pc'[c] # "done"
    BY <1>0, <1>10, DoWorkStep DEF MovesOn
  <2>2. \A k : Owes(c, k) => Owes(c, k)'
    BY <2>1 DEF Owes
  <2> QED
    BY <2>1, <2>2, DebtsStay
<1>11. ASSUME NEW c \in Calls, Bill(c) PROVE BoughtKeyReachesPayer'
  <2>1. /\ Others(c) /\ UNCHANGED <<issued, wallet>> /\ pc'[c] # "done"
        /\ ctx'[c].issued = ctx[c].issued
    BY <1>0, <1>11, BillStep DEF SameGrant
  <2>2. \A k : Owes(c, k) => Owes(c, k)'
    BY <2>1 DEF Owes
  <2> QED
    BY <2>1, <2>2, DebtsStay
<1>12. ASSUME NEW c \in Calls, Others(c), issued' = issued, wallet \subseteq wallet',
              ctx[c].issued \in wallet' \cup {None}
       PROVE  BoughtKeyReachesPayer'
  <2>1. issued \subseteq Keys
    BY <1>0 DEF TypeOK
  <2>2. \A k \in issued \ wallet' : ~Owes(c, k)
    BY <1>12, <2>1, NoneIsNoKey DEF Owes
  <2> QED
    BY <1>12, <2>2, DebtsStay
<1>13. ASSUME NEW c \in Calls, Deliver(c) PROVE BoughtKeyReachesPayer'
  <2>1. /\ Others(c) /\ issued' = issued
        /\ \/ ctx[c].settle = "refused" /\ wallet' = wallet
           \/ wallet' = wallet \cup ({ctx[c].issued} \ {None})
    BY <1>0, <1>13, DeliverStep
  <2>2. ctx[c].settle = "refused" => ctx[c].issued = None
    BY <1>0 DEF Context
  <2> QED
    BY <1>12, <2>1, <2>2
<1>14. ASSUME NEW c \in Calls, Unbill(c) PROVE BoughtKeyReachesPayer'
  BY <1>0, <1>12, <1>14, UnbillStep
<1>15. ASSUME NEW a \in Auths, TransferEnds(a) PROVE BoughtKeyReachesPayer'
  BY <1>0, <1>15, TransferEndsStep DEF BoughtKeyReachesPayer, callVars
<1>16. ASSUME Restart PROVE BoughtKeyReachesPayer'
  <2>1. UNCHANGED <<keyVars, ctx>>
    BY <1>0, <1>16, RestartStep
  <2>2. \A c \in Calls : \A k : Owes(c, k) => Owes(c, k)'
    <3>1. ASSUME NEW c \in Calls PROVE \A k : Owes(c, k) => Owes(c, k)'
      <4>1. /\ pc[c] = "idle" => pc'[c] = "idle"
            /\ pc[c] = "done" => reply'[c] = reply[c]
            /\ pc[c] \notin {"idle", "done"} => reply'[c] = "lost"
        BY <1>0, <1>16, RestartStep
      <4>2. ctx'[c] = ctx[c]
        BY <2>1
      <4> QED
        BY <4>1, <4>2 DEF Owes
    <3> QED
      BY <3>1
  <2> QED
    BY <2>1, <2>2 DEF BoughtKeyReachesPayer, Owes
<1>17. ASSUME UNCHANGED vars PROVE BoughtKeyReachesPayer'
  BY <1>17 DEF vars, callVars, BoughtKeyReachesPayer
<1> QED
  BY <1>2, <1>3, <1>4, <1>5, <1>6, <1>7, <1>8, <1>9, <1>10, <1>11, <1>13, <1>14,
     <1>15, <1>16, <1>17 DEF Next, CallStep

\* A key that was bought is shown to its payer, unless the process dies before
\* the answer (_attach_issued_key, _failed_audit_response).
THEOREM BoughtKeyIsShown == Spec => []BoughtKeyReachesPayer
<1>1. Init => BoughtKeyReachesPayer
  BY DEF Init, BoughtKeyReachesPayer
<1> QED
  BY <1>1, CallInvInit, CallInvNext, DebtsNext, PTL DEF Spec

-----------------------------------------------------------------------------
(* The table of used credentials *)

\* Call c was let in on credential p, or is about to be, and has not failed.
Holds(c, p) ==
  /\ req[c].cred = p
  /\ \/ pc[c] = "mint"
     \/ /\ ctx[c].rail \in {"mpp", "topup"} /\ ctx[c].epoch = epoch
        /\ ~(ctx[c].rail = "mpp" /\ reply[c] = "failed")

\* Call c has credential p out at Stripe or an RPC node.
Settling(c, p) == req[c].cred = p /\ pc[c] = "settling"

Claims(c, p) == Holds(c, p) \/ Settling(c, p)

\* One holder alone is not inductive: two calls may be about to hold.  Unless
\* copies overlapped, one call holds or is settling, and a holder is marked.
CredInv ==
  \A p \in Creds :
    /\ p \notin overlapped =>
         /\ \A c, d \in Calls : Claims(c, p) /\ Claims(d, p) => c = d
         /\ \A c \in Calls : Holds(c, p) => p \in used
    /\ p \in used \ Respelt => \E c \in Calls : Holds(c, p)

LEMMA OthersHold ==
  ASSUME NEW c \in Calls, Others(c), epoch' = epoch
  PROVE  \A d \in Calls \ {c} : \A p :
           (Holds(d, p)' <=> Holds(d, p)) /\ (Claims(d, p)' <=> Claims(d, p))
BY DEF Others, Holds, Settling, Claims

\* A step of c that marks and releases nothing, where c holds what it held
\* and claims no more.
LEMMA CredentialsStay ==
  ASSUME CredInv, NEW c \in Calls, Others(c), epoch' = epoch,
         used' = used, overlapped' = overlapped,
         \A p : Holds(c, p)' <=> Holds(c, p),
         \A p : Claims(c, p)' => Claims(c, p)
  PROVE  CredInv'
<1>1. \A d \in Calls : \A p : (Holds(d, p)' <=> Holds(d, p)) /\ (Claims(d, p)' => Claims(d, p))
  BY OthersHold
<1> HIDE DEF Holds, Claims
<1> QED
  BY <1>1 DEF CredInv

\* The gate's last answer about a credential: c stops settling p and holds it,
\* now marked.
LEMMA CredentialGranted ==
  ASSUME CredInv, NEW c \in Calls, Others(c), epoch' = epoch, overlapped' = overlapped,
         NEW p \in Creds, used' = used \cup {p}, Settling(c, p),
         \A q : Holds(c, q)' <=> q = p, \A q : Claims(c, q)' <=> q = p,
         \A q : ~Holds(c, q)
  PROVE  CredInv'
<1>1. \A d \in Calls \ {c} : \A q :
        (Holds(d, q)' <=> Holds(d, q)) /\ (Claims(d, q)' <=> Claims(d, q))
  BY OthersHold
<1>2. Claims(c, p)
  BY DEF Claims
<1>3. ASSUME NEW q \in Creds, q \notin overlapped'
      PROVE  /\ \A d, e \in Calls : Claims(d, q)' /\ Claims(e, q)' => d = e
             /\ \A d \in Calls : Holds(d, q)' => q \in used'
  <2> HIDE DEF Holds, Claims, Settling
  <2>1. \A d \in Calls : Claims(d, q)' => Claims(d, q)
    BY <1>1, <1>2
  <2>2. \A d \in Calls : Holds(d, q)' => q \in used'
    BY <1>1, <1>3 DEF CredInv
  <2> QED
    BY <1>3, <2>1, <2>2 DEF CredInv
<1>4. ASSUME NEW q \in Creds, q \in used' \ Respelt
      PROVE  \E d \in Calls : Holds(d, q)'
  <2> HIDE DEF Holds, Claims, Settling
  <2>1. CASE q = p
    BY <2>1
  <2>2. CASE q # p
    <3>1. PICK d \in Calls : Holds(d, q)
      BY <1>4, <2>2 DEF CredInv
    <3> QED
      BY <1>1, <3>1
  <2> QED
    BY <2>1, <2>2
<1> QED
  BY <1>3, <1>4 DEF CredInv

LEMMA CredInvNext == CallInv /\ CredInv /\ [Next]_vars => CredInv'
<1> SUFFICES ASSUME CallInv, CredInv, [Next]_vars PROVE CredInv'
  OBVIOUS
<1>0. TypeOK /\ \A c \in Calls : Phase(c) /\ Context(c) /\ Paid(c)
  BY DEF CallInv
<1> USE DEF guardVars
<1>1. ASSUME NEW c \in Calls, Others(c), epoch' = epoch, used' = used, overlapped' = overlapped,
             pc[c] \in Asking \ {"mint"}, pc'[c] \notin {"settling", "mint"},
             ctx'[c].rail \notin {"mpp", "topup"}
      PROVE  CredInv'
  <2>1. ctx[c].rail = "none"
    BY <1>0, <1>1 DEF Phase, NoContext
  <2>2. \A p : ~Holds(c, p) /\ ~Holds(c, p)' /\ ~Claims(c, p)'
    BY <1>1, <2>1 DEF Holds, Claims, Settling
  <2> QED
    BY <1>1, <2>2, CredentialsStay
<1>2. ASSUME NEW c \in Calls, Arrive(c) PROVE CredInv'
  <2>1. /\ Others(c) /\ UNCHANGED guardVars /\ epoch' = epoch /\ pc[c] = "idle"
        /\ ctx' = ctx /\ pc'[c] \notin {"settling", "mint"}
    BY <1>0, <1>2, ArriveStep
  <2>2. ctx'[c].rail = "none"
    BY <1>0, <2>1 DEF Phase, NoContext
  <2> QED
    BY <1>1, <2>1, <2>2
<1>3. ASSUME NEW c \in Calls, UseKey(c) PROVE CredInv'
  <2>0. \/ \E rail \in {"internal", "prepaid", "stripe"} : LetIn(c, rail)
        \/ \E to \in {"admit", "address"} : MovesOn(c, "key", to)
    BY <1>0, <1>3, UseKeyStep
  <2>1. Others(c) /\ UNCHANGED guardVars /\ epoch' = epoch /\ pc[c] = "key"
    BY <1>0, <1>3, UseKeyStep
  <2>2. ctx[c].rail = "none"
    BY <1>0, <2>1 DEF Phase, NoContext
  <2>3. ctx'[c].rail \notin {"mpp", "topup"} /\ pc'[c] \notin {"settling", "mint"}
    BY <2>0, <2>2 DEF LetIn, MovesOn
  <2> QED
    BY <1>1, <2>1, <2>3
<1>4. ASSUME NEW c \in Calls, Others(c), epoch' = epoch, used' = used, overlapped' = overlapped,
             NEW from \in Asking \ {"mint"}, NEW to \in Steps \ {"settling", "mint"},
             MovesOn(c, from, to)
      PROVE  CredInv'
  <2>1. ctx'[c].rail = "none" /\ pc[c] = from /\ pc'[c] = to
    BY <1>0, <1>4 DEF Phase, NoContext, MovesOn
  <2> QED
    BY <1>1, <1>4, <2>1
<1>5. ASSUME NEW c \in Calls, CheckAddress(c) PROVE CredInv'
  BY <1>0, <1>4, <1>5, CheckAddressStep
<1>6. ASSUME NEW c \in Calls, AdmitNonce(c) PROVE CredInv'
  BY <1>0, <1>4, <1>6, AdmitNonceStep
<1>7. ASSUME NEW c \in Calls, VerifyPayment(c) PROVE CredInv'
  <2>1. /\ Others(c) /\ UNCHANGED <<used, overlapped>> /\ epoch' = epoch /\ pc[c] = "verify"
        /\ LetIn(c, "x402") \/ MovesOn(c, "verify", "credential")
    BY <1>0, <1>7, VerifyPaymentStep
  <2>2. ctx[c].rail = "none"
    BY <1>0, <2>1 DEF Phase, NoContext
  <2>3. ctx'[c].rail \notin {"mpp", "topup"} /\ pc'[c] \notin {"settling", "mint"}
    BY <2>1, <2>2 DEF LetIn, MovesOn
  <2> QED
    BY <1>1, <2>1, <2>3
<1>8. ASSUME NEW c \in Calls, ReadCredential(c) PROVE CredInv'
  <2>1. /\ Others(c) /\ used' = used /\ epoch' = epoch
        /\ \/ /\ MovesOn(c, "credential", "settling")
              /\ req[c].cred \in Creds \ used /\ overlapped \subseteq overlapped'
              /\ \A d \in Calls \ {c} :
                   pc[d] = "settling" /\ req[d].cred = req[c].cred
                     => req[c].cred \in overlapped'
           \/ MovesOn(c, "credential", "done") /\ overlapped' = overlapped
    BY <1>0, <1>8, ReadCredentialStep
  <2>2. CASE MovesOn(c, "credential", "done") /\ overlapped' = overlapped
    BY <1>4, <2>1, <2>2
  <2>3. CASE /\ MovesOn(c, "credential", "settling")
             /\ req[c].cred \in Creds \ used /\ overlapped \subseteq overlapped'
             /\ \A d \in Calls \ {c} :
                  pc[d] = "settling" /\ req[d].cred = req[c].cred
                    => req[c].cred \in overlapped'
    <3>1. ctx[c].rail = "none" /\ ctx'[c].rail = "none"
      BY <1>0, <2>3 DEF Phase, NoContext, MovesOn
    <3>2. \A p : ~Holds(c, p) /\ ~Holds(c, p)' /\ (Claims(c, p)' => p = req[c].cred)
      BY <2>3, <3>1 DEF MovesOn, Holds, Claims, Settling
    <3>3. \A d \in Calls \ {c} : \A p :
            (Holds(d, p)' <=> Holds(d, p)) /\ (Claims(d, p)' <=> Claims(d, p))
      BY <2>1, OthersHold
    <3>4. \A d \in Calls \ {c} : req[c].cred \notin overlapped' => ~Claims(d, req[c].cred)
      BY <2>3 DEF CredInv, Claims, Settling
    <3> HIDE DEF Holds, Claims
    <3> QED
      BY <2>1, <2>3, <3>2, <3>3, <3>4 DEF CredInv
  <2> QED
    BY <2>1, <2>2, <2>3
<1>9. ASSUME NEW c \in Calls, SettleCredential(c) PROVE CredInv'
  <2>1. /\ Others(c) /\ pc[c] = "settling" /\ req[c].cred \in Creds
        /\ overlapped' = overlapped /\ epoch' = epoch
        /\ \/ /\ used' = used \cup {req[c].cred}
              /\ \/ \E rail \in {"mpp", "topup"} : LetIn(c, rail)
                 \/ MovesOn(c, "settling", "mint") /\ reply'[c] = reply[c]
           \/ MovesOn(c, "settling", "done") /\ used' = used
    BY <1>0, <1>9, SettleCredentialStep
  <2>2. ctx[c].rail = "none" /\ reply[c] = "none"
    BY <1>0, <2>1 DEF Phase, NoContext
  <2>3. \A q : ~Holds(c, q)
    BY <2>1, <2>2 DEF Holds
  <2>4. Settling(c, req[c].cred)
    BY <2>1 DEF Settling
  <2>5. CASE MovesOn(c, "settling", "done") /\ used' = used
    BY <1>4, <2>1, <2>5
  <2>6. CASE /\ used' = used \cup {req[c].cred}
             /\ \/ \E rail \in {"mpp", "topup"} : LetIn(c, rail)
                \/ MovesOn(c, "settling", "mint") /\ reply'[c] = reply[c]
    <3>1. CASE \E rail \in {"mpp", "topup"} : LetIn(c, rail)
      <4>1. (\A q : Holds(c, q)' <=> q = req[c].cred) /\ (\A q : Claims(c, q)' <=> q = req[c].cred)
        BY <2>1, <2>2, <3>1 DEF LetIn, Holds, Claims, Settling
      <4> QED
        BY <2>1, <2>3, <2>4, <2>6, <4>1, CredentialGranted
    <3>2. CASE MovesOn(c, "settling", "mint")
      <4>1. (\A q : Holds(c, q)' <=> q = req[c].cred) /\ (\A q : Claims(c, q)' <=> q = req[c].cred)
        BY <2>1, <2>2, <3>2 DEF MovesOn, Holds, Claims, Settling
      <4> QED
        BY <2>1, <2>3, <2>4, <2>6, <4>1, CredentialGranted
    <3> QED
      BY <2>6, <3>1, <3>2
  <2> QED
    BY <2>1, <2>5, <2>6
<1>10. ASSUME NEW c \in Calls, MintKey(c) PROVE CredInv'
  <2>1. /\ Others(c) /\ UNCHANGED guardVars /\ epoch' = epoch /\ pc[c] = "mint"
        /\ LetIn(c, "topup")
    BY <1>0, <1>10, MintKeyStep
  <2>2. \A p : (Holds(c, p)' <=> Holds(c, p)) /\ (Claims(c, p)' => Claims(c, p))
    BY <2>1 DEF LetIn, Holds, Claims, Settling
  <2> QED
    BY <2>1, <2>2, CredentialsStay
<1>11. ASSUME NEW c \in Calls, Others(c), UNCHANGED <<used, overlapped>>, epoch' = epoch,
              pc[c] \in Serving, pc'[c] \in Serving \cup {"done"}, req'[c] = req[c],
              ctx'[c].rail = ctx[c].rail, ctx'[c].epoch = ctx[c].epoch,
              reply'[c] = "failed" <=> reply[c] = "failed"
       PROVE  CredInv'
  <2>1. \A p : (Holds(c, p)' <=> Holds(c, p)) /\ (Claims(c, p)' => Claims(c, p))
    BY <1>11 DEF Holds, Claims, Settling
  <2> QED
    BY <1>11, <2>1, CredentialsStay
<1>12. ASSUME NEW c \in Calls, DoWork(c) PROVE CredInv'
  <2>1. /\ Others(c) /\ UNCHANGED guardVars /\ epoch' = epoch /\ reply' = reply
        /\ pc[c] = "work" /\ pc'[c] \in Serving /\ req'[c] = req[c] /\ ctx'[c] = ctx[c]
    BY <1>0, <1>12, DoWorkStep DEF MovesOn
  <2> QED
    BY <1>11, <2>1
<1>13. ASSUME NEW c \in Calls, Bill(c) PROVE CredInv'
  BY <1>0, <1>11, <1>13, BillStep DEF SameGrant
<1>14. ASSUME NEW c \in Calls, Deliver(c) PROVE CredInv'
  <2>1. /\ Others(c) /\ UNCHANGED guardVars /\ epoch' = epoch
        /\ pc[c] = "deliver" /\ pc'[c] = "done" /\ req'[c] = req[c] /\ ctx'[c] = ctx[c]
        /\ reply'[c] # "failed"
    BY <1>0, <1>14, DeliverStep DEF MovesOn
  <2>2. reply[c] = "none"
    BY <1>0, <2>1 DEF Phase
  <2> QED
    BY <1>11, <2>1, <2>2
<1>15. ASSUME NEW c \in Calls, Unbill(c) PROVE CredInv'
  <2>1. /\ Others(c) /\ overlapped' = overlapped /\ epoch' = epoch
        /\ pc[c] = "unbill" /\ pc'[c] = "done" /\ req'[c] = req[c]
        /\ ctx'[c].rail = ctx[c].rail /\ ctx'[c].epoch = ctx[c].epoch /\ reply'[c] = "failed"
        /\ used' = IF ctx[c].rail = "mpp" THEN used \ ({req[c].cred} \ Respelt) ELSE used
    BY <1>0, <1>15, UnbillStep DEF SameGrant
  <2>2. ctx[c].epoch = epoch /\ reply[c] = "none"
    BY <1>0, <2>1 DEF Phase
  <2>3. CASE ctx[c].rail # "mpp"
    <3>1. \A p : (Holds(c, p)' <=> Holds(c, p)) /\ (Claims(c, p)' => Claims(c, p))
      BY <2>1, <2>3 DEF Holds, Claims, Settling
    <3> QED
      BY <2>1, <2>3, <3>1, CredentialsStay
  <2>4. CASE ctx[c].rail = "mpp"
    <3>1. /\ \A p : Holds(c, p) <=> p = req[c].cred
          /\ \A p : ~Holds(c, p)' /\ ~Claims(c, p)'
      BY <2>1, <2>2, <2>4 DEF Holds, Claims, Settling
    <3>2. \A p : Holds(c, p) => Claims(c, p)
      BY DEF Claims
    <3>3. \A d \in Calls \ {c} : \A p :
            (Holds(d, p)' <=> Holds(d, p)) /\ (Claims(d, p)' <=> Claims(d, p))
      BY <2>1, OthersHold
    <3>4. \A d, p : Holds(d, p) => Claims(d, p)
      BY DEF Claims
    <3>5. used' = used \ ({req[c].cred} \ Respelt)
      BY <2>1, <2>4
    <3>6. ASSUME NEW p \in Creds, p \notin overlapped'
          PROVE  /\ \A d, e \in Calls : Claims(d, p)' /\ Claims(e, p)' => d = e
                 /\ \A d \in Calls : Holds(d, p)' => p \in used'
      <4> HIDE DEF Holds, Claims
      <4>1. \A d, e \in Calls : Claims(d, p)' /\ Claims(e, p)' => d = e
        BY <2>1, <3>1, <3>3, <3>6 DEF CredInv
      <4>2. ASSUME NEW d \in Calls, Holds(d, p)' PROVE p \in used'
        <5>1. d # c /\ Holds(d, p) /\ p \in used
          BY <2>1, <3>1, <3>3, <3>6, <4>2 DEF CredInv
        <5>2. p # req[c].cred
          BY <2>1, <3>1, <3>4, <3>6, <5>1 DEF CredInv
        <5> QED
          BY <3>5, <5>1, <5>2
      <4> QED
        BY <4>1, <4>2
    <3>7. ASSUME NEW p \in Creds, p \in used' \ Respelt PROVE \E d \in Calls : Holds(d, p)'
      <4> HIDE DEF Holds, Claims
      <4>1. p \in used /\ p # req[c].cred
        BY <3>5, <3>7
      <4>2. PICK d \in Calls : Holds(d, p)
        BY <3>7, <4>1 DEF CredInv
      <4> QED
        BY <3>1, <3>3, <4>1, <4>2
    <3> QED
      BY <3>6, <3>7 DEF CredInv
  <2> QED
    BY <2>3, <2>4
<1>16. ASSUME NEW a \in Auths, TransferEnds(a) PROVE CredInv'
  <2>1. UNCHANGED <<guardVars, callVars, epoch>>
    BY <1>0, <1>16, TransferEndsStep
  <2> QED
    BY <2>1 DEF CredInv, Holds, Claims, Settling, callVars
<1>17. ASSUME Restart PROVE CredInv'
  <2>1. /\ req' = req /\ ctx' = ctx /\ epoch' = epoch + 1 /\ used' = {}
    BY <1>0, <1>17, RestartStep
  <2>2. ASSUME NEW c \in Calls PROVE \A p : ~Holds(c, p)' /\ ~Claims(c, p)'
    <3>1. pc'[c] \notin {"mint", "settling"}
      BY <1>0, <1>17, RestartStep
    <3>2. ctx[c].epoch <= epoch /\ epoch \in Nat /\ ctx[c].epoch \in Nat
      BY <1>0 DEF Context, TypeOK, ContextType
    <3> QED
      BY <2>1, <3>1, <3>2 DEF Holds, Claims, Settling
  <2> QED
    BY <2>1, <2>2 DEF CredInv
<1>18. ASSUME UNCHANGED vars PROVE CredInv'
  BY <1>18 DEF vars, callVars, CredInv, Holds, Claims, Settling
<1> QED
  BY <1>2, <1>3, <1>5, <1>6, <1>7, <1>8, <1>9, <1>10, <1>12, <1>13, <1>14,
     <1>15, <1>16, <1>17, <1>18 DEF Next, CallStep

\* A credential lets one unfailed call in unless a second copy was read while
\* the first was being settled, and is refused as used only because a call
\* holds it (_used_credentials, _release_credential).
THEOREM CredentialBuysOneCall == Spec => []CredentialsAreExact
<1>1. Init => CredInv
  <2> SUFFICES ASSUME Init PROVE CredInv
    OBVIOUS
  <2>1. \A c \in Calls : \A p : ~Holds(c, p) /\ ~Claims(c, p)
    BY DEF Init, Holds, Claims, Settling, NoContext
  <2> QED
    BY <2>1 DEF Init, CredInv
<1>2. CallInv /\ CredInv => CredentialsAreExact
  <2> SUFFICES ASSUME CallInv, CredInv PROVE CredentialsAreExact
    OBVIOUS
  <2>1. \A p : \A c \in Calls : c \in HoldersOf(p) <=> Holds(c, p)
    BY DEF HoldersOf, Holds
  <2>2. OneGrantUnlessOverlapped
    <3>1. \A c, p : Holds(c, p) => Claims(c, p)
      BY DEF Claims
    <3>2. \A p : HoldersOf(p) \subseteq Calls
      BY DEF HoldersOf
    <3> QED
      BY <2>1, <3>1, <3>2 DEF CredInv, OneGrantUnlessOverlapped
  <2>3. UsedMeansHeld
    <3>1. used \subseteq Creds
      BY DEF CallInv, TypeOK
    <3> QED
      BY <2>1, <3>1 DEF CredInv, UsedMeansHeld
  <2> QED
    BY <2>2, <2>3 DEF CredentialsAreExact
<1> QED
  BY <1>1, <1>2, CallInvInit, CallInvNext, CredInvNext, PTL DEF Spec

-----------------------------------------------------------------------------
(* The ledgers of cents *)

\* The pile of cents of one call.
LEMMA PileSize ==
  ASSUME NEW d, NEW n \in Nat
  PROVE  IsFiniteSet({d} \X (1 .. n)) /\ Cardinality({d} \X (1 .. n)) = n
<1>1. IsFiniteSet(1 .. n) /\ Cardinality(1 .. n) = n
  BY FS_Interval
<1>2. IsFiniteSet({d}) /\ Cardinality({d}) = 1
  BY FS_Singleton
<1>3. /\ IsFiniteSet({d} \X (1 .. n))
      /\ Cardinality({d} \X (1 .. n)) = Cardinality({d}) * Cardinality(1 .. n)
  BY <1>1, <1>2, FS_Product
<1> QED
  BY <1>1, <1>2, <1>3

\* Finitely many calls have finitely many cents.
LEMMA CentsAreFinite ==
  ASSUME NEW D, IsFiniteSet(D), NEW f \in [D -> Nat]
  PROVE  IsFiniteSet(UNION {{d} \X (1 .. f[d]) : d \in D})
<1> DEFINE pile == [d \in D |-> {d} \X (1 .. f[d])]
           piles == {pile[d] : d \in D}
<1>1. pile \in Surjection(D, piles)
  BY DEF Surjection
<1>2. \A d \in D : IsFiniteSet(pile[d])
  BY PileSize
<1>3. piles = {{d} \X (1 .. f[d]) : d \in D}
  OBVIOUS
<1> HIDE DEF pile
<1>4. IsFiniteSet(piles)
  BY <1>1, FS_Surjection
<1>5. \A T \in piles : IsFiniteSet(T)
  BY <1>2
<1> HIDE DEF piles
<1>6. IsFiniteSet(UNION piles)
  BY <1>4, <1>5, FS_UNION
<1> QED
  BY <1>3, <1>6

\* The cents of all calls but c, and those of c, make the total.
LEMMA TotalSplit ==
  ASSUME NEW D, IsFiniteSet(D), NEW c \in D, NEW f \in [D -> Nat]
  PROVE  LET rest == UNION {{d} \X (1 .. f[d]) : d \in D \ {c}}
         IN  /\ Cardinality(rest) \in Nat
             /\ Total(f) = Cardinality(rest) + f[c]
<1> DEFINE rest == UNION {{d} \X (1 .. f[d]) : d \in D \ {c}}
           pile == {c} \X (1 .. f[c])
<1>1. f[c] \in Nat /\ IsFiniteSet(pile) /\ Cardinality(pile) = f[c]
  BY PileSize
<1>2. IsFiniteSet(rest)
  <2>1. IsFiniteSet(UNION {{d} \X (1 .. f[d]) : d \in D})
    BY CentsAreFinite
  <2>2. rest \in SUBSET UNION {{d} \X (1 .. f[d]) : d \in D}
    OBVIOUS
  <2> HIDE DEF rest
  <2> QED
    BY <2>1, <2>2, FS_Subset
<1>3. rest \cap pile = {}
  OBVIOUS
<1>4. UNION {{d} \X (1 .. f[d]) : d \in DOMAIN f} = rest \cup pile
  OBVIOUS
<1>5. Total(f) = Cardinality(rest \cup pile)
  BY <1>4 DEF Total
<1> HIDE DEF rest, pile
<1>6. Cardinality(rest) \in Nat
  BY <1>2, FS_CardinalityType
<1>7. Cardinality(rest \cup pile) = Cardinality(rest) + Cardinality(pile) - Cardinality({})
  BY <1>1, <1>2, <1>3, FS_Union
<1>8. Total(f) = Cardinality(rest) + f[c]
  BY <1>1, <1>5, <1>6, <1>7, FS_EmptySet
<1> QED
  BY <1>6, <1>8 DEF rest

\* A total is a number of cents, and changes as the one summand that changes.
LEMMA TotalMoves ==
  ASSUME NEW D, IsFiniteSet(D), NEW c \in D, NEW f \in [D -> Nat], NEW g \in [D -> Nat],
         \A d \in D \ {c} : g[d] = f[d]
  PROVE  /\ Total(f) \in Nat /\ Total(g) \in Nat
         /\ Total(g) = Total(f) - f[c] + g[c]
<1>1. UNION {{d} \X (1 .. f[d]) : d \in D \ {c}} = UNION {{d} \X (1 .. g[d]) : d \in D \ {c}}
  OBVIOUS
<1> DEFINE rest == UNION {{d} \X (1 .. f[d]) : d \in D \ {c}}
<1>2. /\ Cardinality(rest) \in Nat
      /\ Total(f) = Cardinality(rest) + f[c]
  BY TotalSplit
<1>3. Total(g) = Cardinality(rest) + g[c]
  BY <1>1, TotalSplit
<1>4. f[c] \in Nat /\ g[c] \in Nat
  OBVIOUS
<1> HIDE DEF rest
<1> QED
  BY <1>2, <1>3, <1>4

\* Nothing adds up to nothing.
LEMMA TotalOfNothing ==
  ASSUME NEW D PROVE Total([d \in D |-> 0]) = 0
<1>1. UNION {{d} \X (1 .. 0) : d \in D} = {}
  OBVIOUS
<1>2. Total([d \in D |-> 0]) = Cardinality(UNION {{d} \X (1 .. 0) : d \in D})
  BY DEF Total
<1> QED
  BY <1>1, <1>2, FS_EmptySet

\* Larger summands have the larger total.
LEMMA TotalGrows ==
  ASSUME NEW D, IsFiniteSet(D), NEW f \in [D -> Nat], NEW g \in [D -> Nat],
         \A d \in D : f[d] <= g[d]
  PROVE  Total(f) \in Nat /\ Total(g) \in Nat /\ Total(f) <= Total(g)
<1> DEFINE F == UNION {{d} \X (1 .. f[d]) : d \in D}
           G == UNION {{d} \X (1 .. g[d]) : d \in D}
<1>1. F \in SUBSET G
  OBVIOUS
<1>2. IsFiniteSet(G)
  BY CentsAreFinite
<1>3. Total(f) = Cardinality(F) /\ Total(g) = Cardinality(G)
  BY DEF Total
<1> HIDE DEF F, G
<1> QED
  BY <1>1, <1>2, <1>3, FS_Subset, FS_CardinalityType

\* The prepaid ledger, and what makes it inductive: a key nobody bought yet
\* holds nothing, so that minting it makes no money.
LedgerInv == PrepaidLedger /\ \A k \in Keys \ issued : balance[k] = 0

\* What a call put on a key and took off it are amounts.
Amounts == \A c \in Calls, k \in Keys : Bought(c, k) \in Nat /\ Drew(c, k) \in Nat

LEMMA AmountTypes == CallInv => Amounts
<1> SUFFICES ASSUME CallInv, NEW c \in Calls, NEW k \in Keys
             PROVE  Bought(c, k) \in Nat /\ Drew(c, k) \in Nat
  BY DEF Amounts
<1>1. TypeOK /\ Context(c) /\ Paid(c)
  BY DEF CallInv
<1>2. k # None
  BY NoneIsNoKey
<1>3. Bought(c, k) \in Nat
  <2>1. CASE ctx[c].issued = k
    <3>1. req[c].cred \in Creds
      BY <1>1, <1>2, <2>1 DEF Context, Paid
    <3> QED
      BY <3>1, GateAssumption DEF GateAssumption, Bought
  <2> QED
    BY <2>1 DEF Bought
<1>4. ctx[c].cents \in Nat
  BY <1>1 DEF TypeOK, ContextType
<1> QED
  BY <1>3, <1>4 DEF Drew

\* Credited and Drawn change as what one call bought and drew.
LEMMA LedgerMoves ==
  ASSUME CallInv, CallInv', NEW k \in Keys, balance[k] = Credited(k) - Drawn(k),
         NEW c \in Calls, Others(c),
         balance'[k] = balance[k] + (Bought(c, k)' - Bought(c, k)) - (Drew(c, k)' - Drew(c, k))
  PROVE  balance'[k] = Credited(k)' - Drawn(k)'
<1> DEFINE b0 == [d \in Calls |-> Bought(d, k)]
           b1 == [d \in Calls |-> Bought(d, k)']
           d0 == [d \in Calls |-> Drew(d, k)]
           d1 == [d \in Calls |-> Drew(d, k)']
           base == IF k \in SoldKeys THEN SoldCredit ELSE 0
<1>1. \A d \in Calls : Bought(d, k) \in Nat /\ Drew(d, k) \in Nat
  BY AmountTypes DEF Amounts
<1>2. \A d \in Calls : Bought(d, k)' \in Nat /\ Drew(d, k)' \in Nat
  <2>1. Amounts'
    BY AmountTypes, PTL
  <2> QED
    BY <2>1 DEF Amounts
<1>3. \A d \in Calls \ {c} : Bought(d, k)' = Bought(d, k) /\ Drew(d, k)' = Drew(d, k)
  BY DEF Others, Bought, Drew
<1>4. IsFiniteSet(Calls) /\ base \in Nat
  BY GateAssumption DEF GateAssumption
<1>5. /\ b0 \in [Calls -> Nat] /\ b1 \in [Calls -> Nat]
      /\ d0 \in [Calls -> Nat] /\ d1 \in [Calls -> Nat]
      /\ b0[c] = Bought(c, k) /\ b1[c] = Bought(c, k)'
      /\ d0[c] = Drew(c, k) /\ d1[c] = Drew(c, k)'
      /\ \A d \in Calls \ {c} : b1[d] = b0[d] /\ d1[d] = d0[d]
  BY <1>1, <1>2, <1>3
<1>6. /\ Credited(k) = base + Total(b0) /\ Drawn(k) = Total(d0)
      /\ Credited(k)' = base + Total(b1) /\ Drawn(k)' = Total(d1)
  BY DEF Credited, Drawn, Total
<1> HIDE DEF b0, b1, d0, d1, base
<1>7. /\ Total(b0) \in Nat /\ Total(b1) = Total(b0) - b0[c] + b1[c]
      /\ Total(d0) \in Nat /\ Total(d1) = Total(d0) - d0[c] + d1[c]
  BY <1>4, <1>5, TotalMoves
<1> QED
  BY <1>1, <1>2, <1>4, <1>5, <1>6, <1>7

\* A step of c that leaves the balances and what c bought and drew.
LEMMA LedgerStays ==
  ASSUME CallInv, CallInv', LedgerInv, NEW c \in Calls, Others(c),
         balance' = balance, issued' = issued,
         \A k \in Keys : Bought(c, k)' = Bought(c, k) /\ Drew(c, k)' = Drew(c, k)
  PROVE  LedgerInv'
<1>1. \A k \in Keys : balance'[k] = Credited(k)' - Drawn(k)'
  <2> TAKE k \in Keys
  <2>1. balance[k] = Credited(k) - Drawn(k)
    BY DEF LedgerInv, PrepaidLedger
  <2>2. Bought(c, k) \in Nat /\ Drew(c, k) \in Nat /\ balance[k] \in Nat
    BY AmountTypes DEF Amounts, CallInv, TypeOK
  <2>3. balance'[k] = balance[k] + (Bought(c, k)' - Bought(c, k)) - (Drew(c, k)' - Drew(c, k))
    BY <2>2
  <2> QED
    BY <2>1, <2>3, LedgerMoves
<1>2. \A k \in Keys \ issued' : balance'[k] = 0
  BY DEF LedgerInv
<1> QED
  BY <1>1, <1>2 DEF LedgerInv, PrepaidLedger

\* A call that was not let in yet neither bought nor drew.
LEMMA AskingHasNothing ==
  ASSUME CallInv, NEW c \in Calls, pc[c] \in Asking, NEW k \in Keys
  PROVE  Bought(c, k) = 0 /\ Drew(c, k) = 0
<1>1. ctx[c] = NoContext
  BY DEF CallInv, Phase
<1> QED
  BY <1>1, NoneIsNoKey DEF NoContext, Bought, Drew

\* A step of c before it is let in, or that lets it in without a key.
LEMMA LedgerUntouched ==
  ASSUME CallInv, CallInv', LedgerInv, NEW c \in Calls, Others(c),
         balance' = balance, issued' = issued, pc[c] \in Asking,
         ctx'[c].issued = None, ctx'[c].key = None
  PROVE  LedgerInv'
<1>1. \A k \in Keys : Bought(c, k)' = 0 /\ Drew(c, k)' = 0
  BY NoneIsNoKey DEF Bought, Drew
<1> QED
  BY <1>1, AskingHasNothing, LedgerStays

\* A step of c that leaves its context as it is.
LEMMA LedgerUnmoved ==
  ASSUME CallInv, CallInv', LedgerInv, NEW c \in Calls, Others(c),
         balance' = balance, issued' = issued, req'[c] = req[c],
         SameGrant(c), ctx'[c].refunded = ctx[c].refunded
  PROVE  LedgerInv'
<1>1. \A k \in Keys : Bought(c, k)' = Bought(c, k) /\ Drew(c, k)' = Drew(c, k)
  BY DEF Bought, Drew, SameGrant
<1> QED
  BY <1>1, LedgerStays

\* spend_prepaid: the price leaves the key for the call.
LEMMA SpendKeepsLedger ==
  ASSUME CallInv, CallInv', LedgerInv, NEW c \in Calls, Others(c), pc[c] \in Asking,
         LetIn(c, "prepaid"), ctx'[c].cents = req[c].price,
         ctx'[c].issued = None, ctx'[c].key = req[c].key, req[c].key \in issued,
         issued' = issued, balance' = [balance EXCEPT ![req[c].key] = @ - req[c].price]
  PROVE  LedgerInv'
<1>1. balance \in [Keys -> Nat] /\ req[c].price \in Nat /\ issued \subseteq Keys
  BY PriceType DEF CallInv, TypeOK
<1>2. \A k \in Keys : balance'[k] = Credited(k)' - Drawn(k)'
  <2> TAKE k \in Keys
  <2>1. balance[k] = Credited(k) - Drawn(k) /\ balance[k] \in Nat
    BY <1>1 DEF LedgerInv, PrepaidLedger
  <2>2. Bought(c, k) = 0 /\ Drew(c, k) = 0 /\ Bought(c, k)' = 0
    BY AskingHasNothing, NoneIsNoKey DEF Bought
  <2>3. Drew(c, k)' = IF k = req[c].key THEN req[c].price ELSE 0
    BY DEF Drew, LetIn
  <2>4. balance'[k] = balance[k] - (IF k = req[c].key THEN req[c].price ELSE 0)
    BY <1>1
  <2>5. balance'[k] = balance[k] + (Bought(c, k)' - Bought(c, k)) - (Drew(c, k)' - Drew(c, k))
    BY <1>1, <2>1, <2>2, <2>3, <2>4
  <2> QED
    BY <2>1, <2>5, LedgerMoves
<1>3. \A k \in Keys \ issued' : balance'[k] = 0
  BY <1>1 DEF LedgerInv
<1> QED
  BY <1>2, <1>3 DEF LedgerInv, PrepaidLedger

\* Minting or refilling: the key gains what the top-up bought, less the call.
LEMMA MintKeepsLedger ==
  ASSUME CallInv, CallInv', LedgerInv, NEW c \in Calls, MintKey(c)
  PROVE  LedgerInv'
<1>1. TypeOK /\ Phase(c) /\ balance \in [Keys -> Nat] /\ issued \subseteq Keys
  BY DEF CallInv, TypeOK
<1>2. /\ Others(c) /\ pc[c] = "mint" /\ LetIn(c, "topup")
      /\ issued' \ issued \subseteq {ctx'[c].issued} /\ issued \subseteq issued'
      /\ ctx'[c].issued \in issued' \cup {None} /\ ctx'[c].key = ctx'[c].issued
      /\ \/ ctx'[c].issued = None /\ balance' = balance
         \/ /\ ctx'[c].issued \in issued /\ ctx'[c].cents = req[c].price
            /\ balance' = [balance EXCEPT ![ctx'[c].issued] = @ + Remaining(c)]
         \/ /\ ctx'[c].issued \in Keys \ issued /\ ctx'[c].cents = req[c].price
            /\ balance' = [balance EXCEPT ![ctx'[c].issued] = Remaining(c)]
  BY <1>1, MintKeyStep
<1>3. CASE ctx'[c].issued = None /\ balance' = balance
  <2>1. issued' \subseteq Keys
    BY DEF CallInv, TypeOK
  <2>2. issued' = issued
    BY <1>2, <1>3, <2>1, NoneIsNoKey
  <2> QED
    BY <1>2, <1>3, <2>2, LedgerUntouched
<1>4. CASE ctx'[c].issued # None
  <2> DEFINE m == ctx'[c].issued
  <2>1. m \in Keys /\ ctx'[c].cents = req[c].price /\ req[c].price \in Nat
    BY <1>1, <1>2, <1>4, PriceType
  <2>2. balance[m] + Remaining(c) = (IF m \in issued THEN balance[m] + Remaining(c) ELSE Remaining(c))
        /\ CredCents[req[c].cred] \in Nat
    <3>1. req[c].cred \in Creds
      BY <1>1, <1>2 DEF Phase
    <3>2. CredCents[req[c].cred] \in Nat
      BY <3>1, GateAssumption DEF GateAssumption
    <3>3. m \notin issued => balance[m] = 0
      BY <2>1 DEF LedgerInv
    <3> QED
      BY <1>1, <2>1, <3>2, <3>3 DEF Remaining
  <2>3. balance' = [balance EXCEPT ![m] = @ + Remaining(c)]
    <3>1. CASE m \in issued
      BY <1>2, <1>4, <3>1
    <3>2. CASE m \notin issued
      <4>1. balance' = [balance EXCEPT ![m] = Remaining(c)]
        BY <1>2, <1>4, <3>2
      <4>2. Remaining(c) = balance[m] + Remaining(c)
        BY <2>2, <3>2
      <4> QED
        BY <4>1, <4>2
    <3> QED
      BY <3>1, <3>2
  <2>4. \A k \in Keys : balance'[k] = Credited(k)' - Drawn(k)'
    <3> TAKE k \in Keys
    <3>1. balance[k] = Credited(k) - Drawn(k) /\ balance[k] \in Nat
      BY <1>1 DEF LedgerInv, PrepaidLedger
    <3>2. Bought(c, k) = 0 /\ Drew(c, k) = 0
      BY <1>2, AskingHasNothing
    <3>3. /\ Drew(c, k)' = IF k = m THEN req[c].price ELSE 0
          /\ Bought(c, k)' = IF k = m THEN CredCents[req[c].cred] ELSE 0
      BY <1>2, <2>1 DEF Drew, Bought, LetIn
    <3>4. balance'[k] = IF k = m THEN balance[k] + Remaining(c) ELSE balance[k]
      BY <1>1, <2>1, <2>3
    <3> HIDE DEF m
    <3>5. balance'[k] = balance[k] + (Bought(c, k)' - Bought(c, k)) - (Drew(c, k)' - Drew(c, k))
      BY <2>1, <2>2, <3>1, <3>2, <3>3, <3>4 DEF Remaining
    <3> QED
      BY <1>2, <3>1, <3>5, LedgerMoves
  <2>5. \A k \in Keys \ issued' : balance'[k] = 0
    <3> TAKE k \in Keys \ issued'
    <3>1. m \in issued' /\ k \notin issued
      BY <1>2, <1>4
    <3>2. k # m /\ balance[k] = 0
      BY <3>1 DEF LedgerInv
    <3> QED
      BY <1>1, <2>3, <3>2
  <2> QED
    BY <2>4, <2>5 DEF LedgerInv, PrepaidLedger
<1> QED
  BY <1>2, <1>3, <1>4, NoneIsNoKey, <1>1

\* _failed_audit_response: the cents go back once, to the key they came from.
LEMMA RefundKeepsLedger ==
  ASSUME CallInv, CallInv', LedgerInv, NEW c \in Calls, Unbill(c)
  PROVE  LedgerInv'
<1>1. TypeOK /\ Phase(c) /\ Context(c) /\ balance \in [Keys -> Nat]
  BY DEF CallInv, TypeOK
<1>2. /\ Others(c) /\ pc[c] = "unbill" /\ req' = req /\ SameGrant(c) /\ issued' = issued
      /\ \/ balance' = balance /\ ctx'[c].refunded = ctx[c].refunded
         \/ /\ ctx[c].key \in Keys /\ ctx'[c].refunded
            /\ balance' = [balance EXCEPT ![ctx[c].key] = @ + ctx[c].cents]
  BY <1>1, UnbillStep
<1>3. CASE balance' = balance /\ ctx'[c].refunded = ctx[c].refunded
  BY <1>2, <1>3, LedgerUnmoved
<1>4. CASE /\ ctx[c].key \in Keys /\ ctx'[c].refunded
           /\ balance' = [balance EXCEPT ![ctx[c].key] = @ + ctx[c].cents]
  <2>1. ~ctx[c].refunded /\ ctx[c].cents \in Nat
    BY <1>1, <1>2 DEF Phase, Context, TypeOK, ContextType
  <2>2. \A k \in Keys : balance'[k] = Credited(k)' - Drawn(k)'
    <3> TAKE k \in Keys
    <3>1. balance[k] = Credited(k) - Drawn(k) /\ balance[k] \in Nat
      BY <1>1 DEF LedgerInv, PrepaidLedger
    <3>2. Bought(c, k)' = Bought(c, k) /\ Bought(c, k) \in Nat
      BY <1>2, AmountTypes DEF Amounts, Bought, SameGrant
    <3>3. /\ Drew(c, k)' = 0
          /\ Drew(c, k) = IF k = ctx[c].key THEN ctx[c].cents ELSE 0
      BY <1>4, <2>1 DEF Drew
    <3>4. balance'[k] = IF k = ctx[c].key THEN balance[k] + ctx[c].cents ELSE balance[k]
      BY <1>1, <1>4
    <3>5. balance'[k] = balance[k] + (Bought(c, k)' - Bought(c, k)) - (Drew(c, k)' - Drew(c, k))
      BY <2>1, <3>1, <3>2, <3>3, <3>4
    <3> QED
      BY <1>2, <3>1, <3>5, LedgerMoves
  <2>3. ctx[c].key \in issued
    BY <1>1, <1>4, NoneIsNoKey DEF Context
  <2>4. \A k \in Keys \ issued' : balance'[k] = 0
    BY <1>1, <1>2, <1>4, <2>3 DEF LedgerInv
  <2> QED
    BY <2>2, <2>4 DEF LedgerInv, PrepaidLedger
<1> QED
  BY <1>2, <1>3, <1>4

LEMMA LedgerNext == CallInv /\ LedgerInv /\ [Next]_vars => LedgerInv'
<1> SUFFICES ASSUME CallInv, LedgerInv, [Next]_vars PROVE LedgerInv'
  OBVIOUS
<1>0. /\ TypeOK /\ CallInv' /\ \A c \in Calls : Phase(c) /\ Context(c) /\ Paid(c)
      /\ \A c \in Calls : pc[c] \in Asking => ctx[c].issued = None /\ ctx[c].key = None
  <2>1. CallInv'
    BY CallInvNext
  <2>2. \A c \in Calls : Phase(c) => (pc[c] \in Asking => ctx[c].issued = None /\ ctx[c].key = None)
    BY DEF Phase, NoContext
  <2> QED
    BY <2>1, <2>2 DEF CallInv
<1> USE DEF keyVars
<1>1. ASSUME NEW c \in Calls, Arrive(c) PROVE LedgerInv'
  <2>1. Others(c) /\ pc[c] = "idle" /\ ctx' = ctx /\ UNCHANGED keyVars
    BY <1>0, <1>1, ArriveStep
  <2> QED
    BY <1>0, <2>1, LedgerUntouched
<1>2. ASSUME NEW c \in Calls, Others(c), UNCHANGED keyVars,
             NEW from \in Asking, NEW to \in Steps, MovesOn(c, from, to)
      PROVE  LedgerInv'
  <2>1. ctx'[c].issued = None /\ ctx'[c].key = None /\ pc[c] \in Asking
    BY <1>0, <1>2 DEF MovesOn
  <2> QED
    BY <1>0, <1>2, <2>1, LedgerUntouched
<1>3. ASSUME NEW c \in Calls, UseKey(c) PROVE LedgerInv'
  <2>1. /\ Others(c) /\ pc[c] = "key" /\ UNCHANGED <<issued, wallet>>
        /\ \/ ctx'[c].issued = None /\ ctx'[c].key = None /\ balance' = balance
           \/ /\ LetIn(c, "prepaid") /\ ctx'[c].cents = req[c].price
              /\ ctx'[c].issued = None /\ ctx'[c].key = req[c].key /\ req[c].key \in issued
              /\ balance' = [balance EXCEPT ![req[c].key] = @ - req[c].price]
    BY <1>0, <1>3, UseKeyStep DEF MovesOn
  <2> QED
    BY <1>0, <2>1, LedgerUntouched, SpendKeepsLedger
<1>4. ASSUME NEW c \in Calls, CheckAddress(c) PROVE LedgerInv'
  <2>1. Others(c) /\ UNCHANGED keyVars /\ \E to \in Steps : MovesOn(c, "address", to)
    BY <1>0, <1>4, CheckAddressStep
  <2> QED
    BY <1>2, <2>1
<1>5. ASSUME NEW c \in Calls, AdmitNonce(c) PROVE LedgerInv'
  <2>1. Others(c) /\ UNCHANGED keyVars /\ \E to \in Steps : MovesOn(c, "admit", to)
    BY <1>0, <1>5, AdmitNonceStep
  <2> QED
    BY <1>2, <2>1
<1>6. ASSUME NEW c \in Calls, VerifyPayment(c) PROVE LedgerInv'
  <2>1. /\ Others(c) /\ pc[c] = "verify" /\ UNCHANGED keyVars
        /\ ctx'[c].issued = None /\ ctx'[c].key = None
    BY <1>0, <1>6, VerifyPaymentStep DEF MovesOn
  <2> QED
    BY <1>0, <2>1, LedgerUntouched
<1>7. ASSUME NEW c \in Calls, ReadCredential(c) PROVE LedgerInv'
  <2>1. Others(c) /\ UNCHANGED keyVars /\ \E to \in Steps : MovesOn(c, "credential", to)
    BY <1>0, <1>7, ReadCredentialStep
  <2> QED
    BY <1>2, <2>1
<1>8. ASSUME NEW c \in Calls, SettleCredential(c) PROVE LedgerInv'
  <2>1. /\ Others(c) /\ pc[c] = "settling" /\ UNCHANGED keyVars
        /\ ctx'[c].issued = None /\ ctx'[c].key = None
    BY <1>0, <1>8, SettleCredentialStep DEF MovesOn
  <2> QED
    BY <1>0, <2>1, LedgerUntouched
<1>9. ASSUME NEW c \in Calls, DoWork(c) PROVE LedgerInv'
  <2>1. Others(c) /\ UNCHANGED keyVars /\ ctx'[c] = ctx[c] /\ req'[c] = req[c]
    BY <1>0, <1>9, DoWorkStep DEF MovesOn
  <2> QED
    BY <1>0, <2>1, LedgerUnmoved DEF SameGrant
<1>10. ASSUME NEW c \in Calls, Bill(c) PROVE LedgerInv'
  BY <1>0, <1>10, BillStep, LedgerUnmoved
<1>11. ASSUME NEW c \in Calls, Deliver(c) PROVE LedgerInv'
  <2>1. /\ Others(c) /\ UNCHANGED <<issued, balance>>
        /\ ctx'[c] = ctx[c] /\ req'[c] = req[c]
    BY <1>0, <1>11, DeliverStep DEF MovesOn
  <2> QED
    BY <1>0, <2>1, LedgerUnmoved DEF SameGrant
<1>12. ASSUME UNCHANGED <<issued, balance, req, ctx>> PROVE LedgerInv'
  BY <1>12 DEF LedgerInv, PrepaidLedger, Credited, Drawn, Bought, Drew
<1>13. ASSUME NEW a \in Auths, TransferEnds(a) PROVE LedgerInv'
  BY <1>0, <1>12, <1>13, TransferEndsStep DEF callVars
<1>14. ASSUME Restart PROVE LedgerInv'
  BY <1>0, <1>12, <1>14, RestartStep
<1>15. ASSUME UNCHANGED vars PROVE LedgerInv'
  BY <1>12, <1>15 DEF vars, callVars
<1> QED
  BY <1>0, <1>1, <1>3, <1>4, <1>5, <1>6, <1>7, <1>8, <1>9, <1>10, <1>11, <1>13, <1>14,
     <1>15, MintKeepsLedger, RefundKeepsLedger DEF Next, CallStep

LEMMA LedgerInit == Init => LedgerInv
<1> SUFFICES ASSUME Init PROVE LedgerInv
  OBVIOUS
<1>1. \A c \in Calls, k \in Keys : Bought(c, k) = 0 /\ Drew(c, k) = 0
  BY NoneIsNoKey DEF Init, NoContext, Bought, Drew
<1>2. \A k \in Keys : Total([c \in Calls |-> Bought(c, k)]) = 0 /\ Drawn(k) = 0
  <2> TAKE k \in Keys
  <2>1. /\ [c \in Calls |-> Bought(c, k)] = [c \in Calls |-> 0]
        /\ [c \in Calls |-> Drew(c, k)] = [c \in Calls |-> 0]
    BY <1>1
  <2> QED
    BY <2>1, TotalOfNothing DEF Drawn
<1>3. SoldCredit \in Nat
  BY GateAssumption DEF GateAssumption
<1> QED
  BY <1>2, <1>3 DEF Init, LedgerInv, PrepaidLedger, Credited

\* A prepaid key holds what was put on it less what calls drew and did not get
\* back, whichever threads run at once, fail or are killed (spend_prepaid,
\* mint_prepaid_key, credit_prepaid, refund_prepaid).
THEOREM PrepaidMoneyIsKept == Spec => []PrepaidLedger
<1>1. LedgerInv => PrepaidLedger
  BY DEF LedgerInv
<1> QED
  BY <1>1, CallInvInit, CallInvNext, LedgerInit, LedgerNext, PTL DEF Spec

\* What the calls of subscriber s can have put on the meter: a call's price
\* once it is billed, unless it turned out failed.
MayMeter(c, s) ==
  IF LetInOn(c, s) /\ pc[c] \in {"deliver", "done"} /\ reply[c] # "failed"
    THEN req[c].price ELSE 0

MeterInv ==
  \A s \in Subscribers :
    /\ counted[s] <= Cardinality({c \in Calls : LetInOn(c, s)})
    /\ metered[s] <= Total([c \in Calls |-> MayMeter(c, s)])

LEMMA MayMeterType ==
  ASSUME TypeOK, NEW s
  PROVE  [c \in Calls |-> MayMeter(c, s)] \in [Calls -> Nat]
BY PriceType DEF MayMeter

LEMMA MayMeterTypeNext ==
  ASSUME TypeOK', NEW s
  PROVE  [c \in Calls |-> MayMeter(c, s)'] \in [Calls -> Nat]
<1>1. \A c \in Calls : req'[c].price \in Nat
  BY DEF TypeOK, RequestType
<1> QED
  BY <1>1 DEF MayMeter

\* A step that counts and meters nothing, and takes no call off a subscriber.
LEMMA MeterStays ==
  ASSUME TypeOK, TypeOK', MeterInv, counted' = counted, metered' = metered,
         \A c \in Calls, s \in Subscribers :
           /\ LetInOn(c, s) => LetInOn(c, s)'
           /\ MayMeter(c, s) <= MayMeter(c, s)'
  PROVE  MeterInv'
<1> SUFFICES ASSUME NEW s \in Subscribers
             PROVE  /\ counted'[s] <= Cardinality({c \in Calls : LetInOn(c, s)'})
                    /\ metered'[s] <= Total([c \in Calls |-> MayMeter(c, s)'])
  BY DEF MeterInv, Total
<1> DEFINE In == {c \in Calls : LetInOn(c, s)}
           InNext == {c \in Calls : LetInOn(c, s)'}
           may == [c \in Calls |-> MayMeter(c, s)]
           mayNext == [c \in Calls |-> MayMeter(c, s)']
<1>1. IsFiniteSet(Calls) /\ counted[s] \in Nat /\ metered[s] \in Nat
  BY GateAssumption DEF GateAssumption, TypeOK
<1>2. In \in SUBSET InNext /\ InNext \in SUBSET Calls
  OBVIOUS
<1>3. \A c \in Calls : may[c] <= mayNext[c]
  OBVIOUS
<1>4. may \in [Calls -> Nat] /\ mayNext \in [Calls -> Nat]
  BY MayMeterType, MayMeterTypeNext
<1>5. counted[s] <= Cardinality(In) /\ metered[s] <= Total(may)
  BY DEF MeterInv
<1> HIDE DEF In, InNext, may, mayNext
<1>6. /\ Cardinality(In) \in Nat /\ Cardinality(InNext) \in Nat
      /\ Cardinality(In) <= Cardinality(InNext)
  BY <1>1, <1>2, FS_Subset, FS_CardinalityType
<1>7. Total(may) \in Nat /\ Total(mayNext) \in Nat /\ Total(may) <= Total(mayNext)
  BY <1>1, <1>3, <1>4, TotalGrows
<1>8. counted[s] <= Cardinality(InNext) /\ metered[s] <= Total(mayNext)
  BY <1>1, <1>5, <1>6, <1>7
<1> QED
  BY <1>8 DEF InNext, mayNext

\* A call that was not let in is on nobody's account.
LEMMA AskingIsUnmetered ==
  ASSUME CallInv, NEW c \in Calls, pc[c] \in Asking, NEW s
  PROVE  ~LetInOn(c, s) /\ MayMeter(c, s) = 0
<1>1. ctx[c] = NoContext
  BY DEF CallInv, Phase
<1> QED
  BY <1>1 DEF NoContext, LetInOn, MayMeter

\* A step of a call that is not let in yet.
LEMMA MeterUntouched ==
  ASSUME CallInv, CallInv', MeterInv, NEW c \in Calls, Others(c), pc[c] \in Asking,
         counted' = counted, metered' = metered
  PROVE  MeterInv'
<1>0. TypeOK /\ TypeOK'
  BY DEF CallInv
<1>1. \A s \in Subscribers : ~LetInOn(c, s) /\ MayMeter(c, s) = 0 /\ MayMeter(c, s)' \in Nat
  <2> TAKE s \in Subscribers
  <2>1. MayMeter(c, s)' \in Nat
    <3>1. req'[c].price \in Nat
      BY <1>0 DEF TypeOK, RequestType
    <3> QED
      BY <3>1 DEF MayMeter
  <2> QED
    BY <2>1, AskingIsUnmetered
<1>2. \A d \in Calls \ {c}, s \in Subscribers :
        /\ LetInOn(d, s) => LetInOn(d, s)'
        /\ MayMeter(d, s)' = MayMeter(d, s) /\ MayMeter(d, s) \in Nat
  BY <1>0, PriceType DEF Others, LetInOn, MayMeter
<1>3. \A d \in Calls, s \in Subscribers :
        /\ LetInOn(d, s) => LetInOn(d, s)'
        /\ MayMeter(d, s) <= MayMeter(d, s)'
  <2> TAKE d \in Calls, s \in Subscribers
  <2>1. CASE d = c
    BY <1>1, <2>1
  <2>2. CASE d # c
    BY <1>2, <2>2
  <2> QED
    BY <2>1, <2>2
<1> QED
  BY <1>0, <1>3, MeterStays

\* A step of a call that keeps its rail, and is not made to fail once billed.
LEMMA MeterUnmoved ==
  ASSUME CallInv, CallInv', MeterInv, NEW c \in Calls, Others(c),
         counted' = counted, metered' = metered,
         req'[c] = req[c], ctx'[c].rail = ctx[c].rail,
         pc[c] \in {"deliver", "done"} /\ reply[c] # "failed"
           => pc'[c] \in {"deliver", "done"} /\ reply'[c] # "failed"
  PROVE  MeterInv'
<1>0. TypeOK /\ TypeOK'
  BY DEF CallInv
<1>1. \A d \in Calls, s \in Subscribers :
        /\ LetInOn(d, s) => LetInOn(d, s)'
        /\ MayMeter(d, s) <= MayMeter(d, s)'
  <2> TAKE d \in Calls, s \in Subscribers
  <2>1. CASE d = c
    <3>1. req[c].price \in Nat
      BY <1>0, PriceType
    <3> QED
      BY <2>1, <3>1 DEF LetInOn, MayMeter
  <2>2. CASE d # c
    <3>1. req[d].price \in Nat
      BY <1>0, PriceType
    <3> QED
      BY <2>2, <3>1 DEF Others, LetInOn, MayMeter
  <2> QED
    BY <2>1, <2>2
<1> QED
  BY <1>0, <1>1, MeterStays

\* check_and_increment_quota counts the call it lets in.
LEMMA QuotaKeepsMeter ==
  ASSUME CallInv, CallInv', MeterInv, NEW c \in Calls, Others(c), pc[c] \in Asking,
         LetIn(c, "stripe"), req[c].key \in Subscribers, metered' = metered,
         counted' = [counted EXCEPT ![req[c].key] = @ + 1]
  PROVE  MeterInv'
<1>0. TypeOK /\ TypeOK' /\ IsFiniteSet(Calls)
  BY GateAssumption DEF CallInv, GateAssumption
<1> SUFFICES ASSUME NEW s \in Subscribers
             PROVE  /\ counted'[s] <= Cardinality({d \in Calls : LetInOn(d, s)'})
                    /\ metered'[s] <= Total([d \in Calls |-> MayMeter(d, s)'])
  BY DEF MeterInv, Total
<1> DEFINE In == {d \in Calls : LetInOn(d, s)}
           InNext == {d \in Calls : LetInOn(d, s)'}
           may == [d \in Calls |-> MayMeter(d, s)]
<1>1. /\ counted[s] \in Nat /\ counted[s] <= Cardinality(In) /\ metered[s] <= Total(may)
      /\ counted'[s] = IF s = req[c].key THEN counted[s] + 1 ELSE counted[s]
  BY <1>0 DEF TypeOK, MeterInv
<1>2. ~LetInOn(c, s) /\ MayMeter(c, s) = 0 /\ MayMeter(c, s)' = 0
      /\ (LetInOn(c, s)' <=> s = req[c].key)
  <2>1. ~LetInOn(c, s) /\ MayMeter(c, s) = 0
    BY AskingIsUnmetered
  <2> QED
    BY <2>1 DEF LetIn, LetInOn, MayMeter
<1>3. \A d \in Calls \ {c} : (LetInOn(d, s)' <=> LetInOn(d, s)) /\ MayMeter(d, s)' = MayMeter(d, s)
  BY DEF Others, LetInOn, MayMeter
<1>4. InNext = IF s = req[c].key THEN In \cup {c} ELSE In
  BY <1>2, <1>3
<1>5. c \notin In /\ In \in SUBSET Calls
  BY <1>2
<1>6. [d \in Calls |-> MayMeter(d, s)'] = may
  BY <1>2, <1>3
<1> HIDE DEF In, InNext, may
<1>7. IsFiniteSet(In)
  BY <1>0, <1>5, FS_Subset
<1>8. Cardinality(In) \in Nat /\ Cardinality(In \cup {c}) = Cardinality(In) + 1
  BY <1>5, <1>7, FS_CardinalityType, FS_AddElement
<1>9. counted'[s] <= Cardinality(InNext)
  BY <1>1, <1>4, <1>8
<1> QED
  BY <1>1, <1>6, <1>9 DEF InNext

\* record_usage meters no more than the call's price.
LEMMA UsageKeepsMeter ==
  ASSUME CallInv, CallInv', MeterInv, NEW c \in Calls, Others(c), pc[c] = "bill",
         pc'[c] = "deliver", req' = req, reply' = reply,
         ctx[c].rail = "stripe", ctx'[c].rail = "stripe",
         counted' = counted, NEW n \in 0 .. req[c].price,
         metered' = [metered EXCEPT ![req[c].key] = @ + n]
  PROVE  MeterInv'
<1>0. /\ TypeOK /\ TypeOK' /\ IsFiniteSet(Calls) /\ reply[c] = "none"
      /\ req[c].price \in Nat
  BY GateAssumption, PriceType DEF CallInv, GateAssumption, Phase
<1> SUFFICES ASSUME NEW s \in Subscribers
             PROVE  /\ counted'[s] <= Cardinality({d \in Calls : LetInOn(d, s)'})
                    /\ metered'[s] <= Total([d \in Calls |-> MayMeter(d, s)'])
  BY DEF MeterInv, Total
<1> DEFINE may == [d \in Calls |-> MayMeter(d, s)]
           mayNext == [d \in Calls |-> MayMeter(d, s)']
<1>1. /\ metered[s] \in Nat /\ metered[s] <= Total(may)
      /\ metered'[s] = IF s = req[c].key THEN metered[s] + n ELSE metered[s]
  BY <1>0 DEF TypeOK, MeterInv
<1>2. {d \in Calls : LetInOn(d, s)'} = {d \in Calls : LetInOn(d, s)}
  BY DEF Others, LetInOn
<1>3. may[c] = 0 /\ mayNext[c] = IF s = req[c].key THEN req[c].price ELSE 0
  BY <1>0 DEF LetInOn, MayMeter
<1>4. \A d \in Calls \ {c} : mayNext[d] = may[d]
  BY DEF Others, LetInOn, MayMeter
<1>5. may \in [Calls -> Nat] /\ mayNext \in [Calls -> Nat]
  BY <1>0, MayMeterType, MayMeterTypeNext
<1>6. counted'[s] <= Cardinality({d \in Calls : LetInOn(d, s)'})
  BY <1>2 DEF MeterInv
<1> HIDE DEF may, mayNext
<1>7. Total(may) \in Nat /\ Total(mayNext) = Total(may) - may[c] + mayNext[c]
  BY <1>0, <1>4, <1>5, TotalMoves
<1>8. metered'[s] <= Total(mayNext)
  BY <1>0, <1>1, <1>3, <1>7
<1> QED
  BY <1>6, <1>8 DEF mayNext

LEMMA MeterNext == CallInv /\ MeterInv /\ [Next]_vars => MeterInv'
<1> SUFFICES ASSUME CallInv, MeterInv, [Next]_vars PROVE MeterInv'
  OBVIOUS
<1>0. TypeOK /\ CallInv' /\ TypeOK' /\ \A c \in Calls : Phase(c) /\ Context(c) /\ Paid(c)
  <2>1. CallInv'
    BY CallInvNext
  <2> QED
    BY <2>1 DEF CallInv
<1> USE DEF keyVars
<1>1. ASSUME NEW c \in Calls, Arrive(c) PROVE MeterInv'
  BY <1>0, <1>1, ArriveStep, MeterUntouched
<1>2. ASSUME NEW c \in Calls, UseKey(c) PROVE MeterInv'
  <2>1. /\ Others(c) /\ pc[c] = "key" /\ metered' = metered
        /\ \/ counted' = counted
           \/ /\ LetIn(c, "stripe") /\ req[c].key \in Subscribers
              /\ counted' = [counted EXCEPT ![req[c].key] = @ + 1]
    BY <1>0, <1>2, UseKeyStep
  <2> QED
    BY <1>0, <2>1, MeterUntouched, QuotaKeepsMeter
<1>3. ASSUME NEW c \in Calls, CheckAddress(c) PROVE MeterInv'
  BY <1>0, <1>3, CheckAddressStep, MeterUntouched DEF MovesOn
<1>4. ASSUME NEW c \in Calls, AdmitNonce(c) PROVE MeterInv'
  BY <1>0, <1>4, AdmitNonceStep, MeterUntouched DEF MovesOn
<1>5. ASSUME NEW c \in Calls, VerifyPayment(c) PROVE MeterInv'
  BY <1>0, <1>5, VerifyPaymentStep, MeterUntouched
<1>6. ASSUME NEW c \in Calls, ReadCredential(c) PROVE MeterInv'
  BY <1>0, <1>6, ReadCredentialStep, MeterUntouched DEF MovesOn
<1>7. ASSUME NEW c \in Calls, SettleCredential(c) PROVE MeterInv'
  BY <1>0, <1>7, SettleCredentialStep, MeterUntouched
<1>8. ASSUME NEW c \in Calls, MintKey(c) PROVE MeterInv'
  <2>1. Others(c) /\ pc[c] = "mint" /\ UNCHANGED <<counted, metered>>
    BY <1>0, <1>8, MintKeyStep
  <2> QED
    BY <1>0, <2>1, MeterUntouched
<1>9. ASSUME NEW c \in Calls, DoWork(c) PROVE MeterInv'
  <2>1. /\ Others(c) /\ pc[c] = "work" /\ UNCHANGED keyVars
        /\ ctx'[c] = ctx[c] /\ req'[c] = req[c]
    BY <1>0, <1>9, DoWorkStep DEF MovesOn
  <2> QED
    BY <1>0, <2>1, MeterUnmoved
<1>10. ASSUME NEW c \in Calls, Bill(c) PROVE MeterInv'
  <2>1. /\ Others(c) /\ pc[c] = "bill" /\ pc'[c] = "deliver" /\ req' = req
        /\ reply' = reply /\ ctx'[c].rail = ctx[c].rail /\ counted' = counted
        /\ \/ metered' = metered
           \/ /\ ctx[c].rail = "stripe"
              /\ \E n \in 0 .. req[c].price : metered' = [metered EXCEPT ![req[c].key] = @ + n]
    BY <1>0, <1>10, BillStep DEF SameGrant
  <2>2. CASE metered' = metered
    BY <1>0, <2>1, <2>2, MeterUnmoved
  <2>3. CASE /\ ctx[c].rail = "stripe"
             /\ \E n \in 0 .. req[c].price : metered' = [metered EXCEPT ![req[c].key] = @ + n]
    BY <1>0, <2>1, <2>3, UsageKeepsMeter
  <2> QED
    BY <2>1, <2>2, <2>3
<1>11. ASSUME NEW c \in Calls, Deliver(c) PROVE MeterInv'
  <2>1. /\ Others(c) /\ UNCHANGED <<counted, metered>> /\ pc'[c] = "done"
        /\ ctx'[c] = ctx[c] /\ req'[c] = req[c] /\ reply'[c] \in {"withheld", "delivered"}
    BY <1>0, <1>11, DeliverStep DEF MovesOn
  <2> QED
    BY <1>0, <2>1, MeterUnmoved
<1>12. ASSUME NEW c \in Calls, Unbill(c) PROVE MeterInv'
  <2>1. /\ Others(c) /\ UNCHANGED <<counted, metered>> /\ pc[c] = "unbill"
        /\ ctx'[c].rail = ctx[c].rail /\ req' = req
    BY <1>0, <1>12, UnbillStep DEF SameGrant
  <2> QED
    BY <1>0, <2>1, MeterUnmoved
<1>13. ASSUME UNCHANGED <<counted, metered, req, ctx>>,
              \A c \in Calls : pc[c] \in {"deliver", "done"} /\ reply[c] # "failed"
                => pc'[c] \in {"deliver", "done"} /\ reply'[c] # "failed"
       PROVE  MeterInv'
  <2>1. \A c \in Calls, s \in Subscribers :
          /\ LetInOn(c, s) => LetInOn(c, s)'
          /\ MayMeter(c, s) <= MayMeter(c, s)'
    <3> TAKE c \in Calls, s \in Subscribers
    <3>1. req[c].price \in Nat
      BY <1>0, PriceType
    <3> QED
      BY <1>13, <3>1 DEF LetInOn, MayMeter
  <2> QED
    BY <1>0, <1>13, <2>1, MeterStays
<1>14. ASSUME NEW a \in Auths, TransferEnds(a) PROVE MeterInv'
  BY <1>0, <1>13, <1>14, TransferEndsStep DEF callVars
<1>15. ASSUME Restart PROVE MeterInv'
  <2>1. /\ UNCHANGED <<keyVars, req, ctx>>
        /\ \A c \in Calls :
              /\ pc[c] = "done" => pc'[c] = "done" /\ reply'[c] = reply[c]
              /\ pc[c] \notin {"idle", "done"} => pc'[c] = "done" /\ reply'[c] = "lost"
    BY <1>0, <1>15, RestartStep
  <2>2. \A c \in Calls : pc[c] \in {"deliver", "done"} /\ reply[c] # "failed"
                => pc'[c] \in {"deliver", "done"} /\ reply'[c] # "failed"
    BY <2>1
  <2> QED
    BY <1>13, <2>1, <2>2
<1>16. ASSUME UNCHANGED vars PROVE MeterInv'
  BY <1>13, <1>16 DEF vars, callVars
<1> QED
  BY <1>1, <1>2, <1>3, <1>4, <1>5, <1>6, <1>7, <1>8, <1>9, <1>10, <1>11, <1>12, <1>14,
     <1>15, <1>16 DEF Next, CallStep

LEMMA MeterInit == Init => MeterInv
<1> SUFFICES ASSUME Init, NEW s \in Subscribers
             PROVE  /\ counted[s] <= Cardinality({c \in Calls : LetInOn(c, s)})
                    /\ metered[s] <= Total([c \in Calls |-> MayMeter(c, s)])
  BY DEF MeterInv
<1>1. \A c \in Calls : ~LetInOn(c, s) /\ MayMeter(c, s) = 0
  BY DEF Init, NoContext, LetInOn, MayMeter
<1>2. {c \in Calls : LetInOn(c, s)} = {}
      /\ [c \in Calls |-> MayMeter(c, s)] = [c \in Calls |-> 0]
  BY <1>1
<1>3. Cardinality({c \in Calls : LetInOn(c, s)}) = 0
      /\ Total([c \in Calls |-> MayMeter(c, s)]) = 0
  BY <1>2, TotalOfNothing, FS_EmptySet
<1> QED
  BY <1>3 DEF Init

\* What is metered is billed to calls that were let in and did not fail.
LEMMA MeterBills == CallInv /\ MeterInv => SubscriberLedger
<1> SUFFICES ASSUME CallInv, MeterInv, NEW s \in Subscribers
             PROVE  metered[s] <= Total([c \in Calls |->
                         IF LetInOn(c, s) /\ reply[c] # "failed" THEN req[c].price ELSE 0])
  BY DEF MeterInv, SubscriberLedger
<1> DEFINE may == [c \in Calls |-> MayMeter(c, s)]
           all == [c \in Calls |->
                     IF LetInOn(c, s) /\ reply[c] # "failed" THEN req[c].price ELSE 0]
<1>1. TypeOK /\ IsFiniteSet(Calls) /\ metered[s] \in Nat /\ metered[s] <= Total(may)
  BY GateAssumption DEF CallInv, TypeOK, GateAssumption, MeterInv
<1>2. may \in [Calls -> Nat] /\ all \in [Calls -> Nat] /\ \A c \in Calls : may[c] <= all[c]
  <2>1. \A c \in Calls : req[c].price \in Nat
    BY <1>1, PriceType
  <2> QED
    BY <1>1, <2>1, MayMeterType DEF MayMeter
<1> HIDE DEF may, all
<1>3. Total(may) \in Nat /\ Total(all) \in Nat /\ Total(may) <= Total(all)
  BY <1>1, <1>2, TotalGrows
<1>4. metered[s] <= Total(all)
  BY <1>1, <1>3
<1> QED
  BY <1>4 DEF all

\* No subscriber is metered more than the price of the calls that were let in
\* on the key and did not fail, nor counted for a call that was not let in
\* (check_and_increment_quota, record_usage).
THEOREM MeterNeverOverbills == Spec => []SubscriberLedger
BY CallInvInit, CallInvNext, MeterInit, MeterNext, MeterBills, PTL DEF Spec

-----------------------------------------------------------------------------
(* The promise *)

\* What PaidWork sees of a call.
LEMMA Views ==
  ASSUME NEW c \in Calls
  PROVE  /\ pc[c] \in Asking => stageOf[c] = "asking"
         /\ pc[c] \in {"work", "unbill"} => stageOf[c] = "working"
         /\ pc[c] = "bill" => stageOf[c] = "produced"
         /\ pc[c] = "deliver" => stageOf[c] = "billed"
         /\ pc[c] = "done" => stageOf[c] = "answered"
         /\ reply[c] \in {"rate_limited", "payment_required"} => answerOf[c] = "refused"
         /\ reply[c] \notin {"rate_limited", "payment_required"} => answerOf[c] = reply[c]
         /\ ctx[c].rail = "x402" => boughtOf[c] = req[c].auth
         /\ ctx[c].rail # "x402" => boughtOf[c] = None
<1>1. CASE pc[c] \in Asking
  BY <1>1 DEF stageOf, answerOf, boughtOf
<1>2. CASE pc[c] \notin Asking
  BY <1>2 DEF stageOf, answerOf, boughtOf
<1> QED
  BY <1>1, <1>2

LEMMA ViewsNext ==
  ASSUME NEW c \in Calls
  PROVE  /\ pc'[c] \in Asking => stageOf'[c] = "asking"
         /\ pc'[c] \in {"work", "unbill"} => stageOf'[c] = "working"
         /\ pc'[c] = "bill" => stageOf'[c] = "produced"
         /\ pc'[c] = "deliver" => stageOf'[c] = "billed"
         /\ pc'[c] = "done" => stageOf'[c] = "answered"
         /\ reply'[c] \in {"rate_limited", "payment_required"} => answerOf'[c] = "refused"
         /\ reply'[c] \notin {"rate_limited", "payment_required"} => answerOf'[c] = reply'[c]
         /\ ctx'[c].rail = "x402" => boughtOf'[c] = req'[c].auth
         /\ ctx'[c].rail # "x402" => boughtOf'[c] = None
<1>1. CASE pc'[c] \in Asking
  BY <1>1 DEF stageOf, answerOf, boughtOf
<1>2. CASE pc'[c] \notin Asking
  BY <1>2 DEF stageOf, answerOf, boughtOf
<1> QED
  BY <1>1, <1>2

\* A step of one call changes what PaidWork sees of that call.
LEMMA ViewStep ==
  ASSUME NEW c \in Calls, Others(c)
  PROVE  /\ stageOf' = [stageOf EXCEPT ![c] = stageOf'[c]]
         /\ answerOf' = [answerOf EXCEPT ![c] = answerOf'[c]]
         /\ boughtOf' = [boughtOf EXCEPT ![c] = boughtOf'[c]]
<1>1. \A d \in Calls \ {c} : /\ stageOf'[d] = stageOf[d] /\ answerOf'[d] = answerOf[d]
                             /\ boughtOf'[d] = boughtOf[d]
  BY DEF Others, stageOf, answerOf, boughtOf
<1>2. /\ stageOf = [d \in Calls |-> stageOf[d]] /\ stageOf' = [d \in Calls |-> stageOf'[d]]
      /\ answerOf = [d \in Calls |-> answerOf[d]] /\ answerOf' = [d \in Calls |-> answerOf'[d]]
      /\ boughtOf = [d \in Calls |-> boughtOf[d]] /\ boughtOf' = [d \in Calls |-> boughtOf'[d]]
  BY DEF stageOf, answerOf, boughtOf
<1> QED
  BY <1>1, <1>2

\* Nothing is claimed or given up by a step that leaves c's purchase alone.
LEMMA ClaimsStay ==
  ASSUME NEW c \in Calls, Others(c), epoch' = epoch,
         \A a : c \in GrantedOn(a)' <=> c \in GrantedOn(a)
  PROVE  claimedOf' = claimedOf
<1>1. \A a : GrantedOn(a)' = GrantedOn(a)
  BY DEF Others, GrantedOn
<1> QED
  BY <1>1 DEF claimedOf

Promised == Promise!Next \/ UNCHANGED <<stageOf, answerOf, boughtOf, claimedOf, takenOf, flying>>

LEMMA Stutters ==
  ASSUME NEW c \in Calls, Others(c), stageOf'[c] = stageOf[c], answerOf'[c] = answerOf[c],
         boughtOf'[c] = boughtOf[c], UNCHANGED <<claimedOf, takenOf, flying>>
  PROVE  Promised
<1>1. /\ stageOf' = [stageOf EXCEPT ![c] = stageOf'[c]]
      /\ answerOf' = [answerOf EXCEPT ![c] = answerOf'[c]]
      /\ boughtOf' = [boughtOf EXCEPT ![c] = boughtOf'[c]]
  BY ViewStep
<1>2. stageOf = [d \in Calls |-> stageOf[d]] /\ answerOf = [d \in Calls |-> answerOf[d]]
      /\ boughtOf = [d \in Calls |-> boughtOf[d]]
  BY DEF stageOf, answerOf, boughtOf
<1>3. stageOf' = stageOf /\ answerOf' = answerOf /\ boughtOf' = boughtOf
  BY <1>1, <1>2
<1> QED
  BY <1>3 DEF Promised

\* A call that has not been let in moves between places PaidWork does not tell
\* apart, or is refused.
LEMMA AsksOn ==
  ASSUME CallInv, NEW c \in Calls, Others(c), epoch' = epoch,
         pc[c] \in Asking, ctx'[c] = ctx[c], UNCHANGED <<takenOf, flying>>,
         \/ pc'[c] \in Asking /\ reply'[c] = reply[c]
         \/ pc'[c] = "done" /\ reply'[c] \in {"rate_limited", "payment_required"}
  PROVE  Promised
<1>1. ctx[c].rail = "none" /\ ctx'[c].rail = "none"
  BY DEF CallInv, Phase, NoContext
<1>2. claimedOf' = claimedOf
  <2>1. \A a : c \notin GrantedOn(a) /\ c \notin GrantedOn(a)'
    BY <1>1 DEF GrantedOn
  <2> QED
    BY <2>1, ClaimsStay
<1>3. stageOf[c] = "asking" /\ boughtOf[c] = None /\ boughtOf'[c] = None
  BY <1>1, Views, ViewsNext
<1>4. CASE pc'[c] \in Asking /\ reply'[c] = reply[c]
  <2>1. stageOf'[c] = "asking"
    BY <1>4, ViewsNext
  <2>2. answerOf'[c] = answerOf[c]
    BY <1>4, Views, ViewsNext
  <2> QED
    BY <1>2, <1>3, <2>1, <2>2, Stutters
<1>5. CASE pc'[c] = "done" /\ reply'[c] \in {"rate_limited", "payment_required"}
  <2>1. stageOf'[c] = "answered" /\ answerOf'[c] = "refused"
    BY <1>5, ViewsNext
  <2>2. /\ stageOf' = [stageOf EXCEPT ![c] = "answered"]
        /\ answerOf' = [answerOf EXCEPT ![c] = "refused"]
        /\ boughtOf' = [boughtOf EXCEPT ![c] = boughtOf[c]]
    BY <1>3, <2>1, ViewStep
  <2>3. boughtOf' = boughtOf
    BY <2>2 DEF boughtOf
  <2>4. Promise!Refuse(c)
    BY <1>2, <1>3, <2>2, <2>3 DEF Promise!Refuse, Promise!End, Promise!Move
  <2> QED
    BY <2>4 DEF Promised, Promise!Next
<1> QED
  BY <1>4, <1>5

\* A call let in on another rail than x402 begins its work and claims nothing.
LEMMA BeginsFree ==
  ASSUME CallInv, NEW c \in Calls, Others(c), epoch' = epoch, UNCHANGED <<takenOf, flying>>,
         NEW rail, LetIn(c, rail), rail # "x402"
  PROVE  Promised
<1>1. ctx[c].rail = "none" /\ ctx'[c].rail # "x402" /\ pc'[c] = "work" /\ pc[c] \in Asking
      /\ reply'[c] = reply[c]
  BY DEF CallInv, Phase, NoContext, LetIn
<1>2. claimedOf' = claimedOf
  <2>1. \A a : c \notin GrantedOn(a) /\ c \notin GrantedOn(a)'
    BY <1>1 DEF GrantedOn
  <2> QED
    BY <2>1, ClaimsStay
<1>3. /\ stageOf[c] = "asking" /\ stageOf'[c] = "working" /\ answerOf'[c] = answerOf[c]
      /\ boughtOf'[c] = boughtOf[c]
  BY <1>1, Views, ViewsNext
<1>4. /\ stageOf' = [stageOf EXCEPT ![c] = "working"]
      /\ answerOf' = [answerOf EXCEPT ![c] = answerOf[c]]
      /\ boughtOf' = [boughtOf EXCEPT ![c] = boughtOf[c]]
  BY <1>3, ViewStep
<1>5. answerOf' = answerOf /\ boughtOf' = boughtOf
  BY <1>4 DEF answerOf, boughtOf
<1>6. Promise!Begin(c)
  BY <1>2, <1>3, <1>4, <1>5 DEF Promise!Begin, Promise!Move
<1> QED
  BY <1>6 DEF Promised, Promise!Next

\* A verified authorization that is still free buys the call.
LEMMA BeginsPaid ==
  ASSUME CallInv, NonceInv, NEW c \in Calls, Others(c), epoch' = epoch,
         UNCHANGED <<takenOf, flying>>, pc[c] = "verify", LetIn(c, "x402")
  PROVE  Promised
<1> DEFINE a == req[c].auth
<1>1. /\ ctx[c].rail = "none" /\ ctx'[c].rail = "x402" /\ ctx'[c].epoch = epoch
      /\ pc'[c] = "work" /\ reply'[c] = reply[c] /\ req'[c] = req[c] /\ a \in Auths
  BY DEF CallInv, Phase, NoContext, LetIn
<1>2. Owner(c, a)
  BY DEF Owner
<1>3. \A b : \A d \in GrantedOn(b) : d \in Calls \ {c} /\ Owner(d, b)
  BY <1>1 DEF GrantedOn, Owner
<1>4. a \notin claimedOf
  BY <1>2, <1>3 DEF claimedOf, NonceInv
<1>5. \A b : GrantedOn(b)' = IF b = a THEN GrantedOn(b) \cup {c} ELSE GrantedOn(b)
  BY <1>1 DEF Others, GrantedOn
<1>6. claimedOf' = claimedOf \cup ({a} \ Nonceless)
  BY <1>1, <1>5 DEF claimedOf
<1>7. /\ stageOf[c] = "asking" /\ stageOf'[c] = "working" /\ answerOf'[c] = answerOf[c]
      /\ boughtOf'[c] = a
  BY <1>1, Views, ViewsNext
<1>8. /\ stageOf' = [stageOf EXCEPT ![c] = "working"]
      /\ answerOf' = [answerOf EXCEPT ![c] = answerOf[c]]
      /\ boughtOf' = [boughtOf EXCEPT ![c] = a]
  BY <1>7, ViewStep
<1>9. answerOf' = answerOf
  BY <1>8 DEF answerOf
<1> HIDE DEF a
<1>10. Promise!Begin(c)
  BY <1>1, <1>4, <1>6, <1>7, <1>8, <1>9 DEF Promise!Begin, Promise!Move
<1> QED
  BY <1>10 DEF Promised, Promise!Next

\* A call at work keeps what it bought.
LEMMA WorksOn ==
  ASSUME NEW c \in Calls, Others(c), epoch' = epoch, req'[c] = req[c],
         ctx'[c].rail = ctx[c].rail, ctx'[c].epoch = ctx[c].epoch
  PROVE  /\ claimedOf' = claimedOf /\ boughtOf' = boughtOf
         /\ stageOf' = [stageOf EXCEPT ![c] = stageOf'[c]]
         /\ answerOf' = [answerOf EXCEPT ![c] = answerOf'[c]]
         /\ reply'[c] = reply[c] => answerOf' = answerOf
<1>1. \A a : c \in GrantedOn(a)' <=> c \in GrantedOn(a)
  BY DEF GrantedOn
<1>2. claimedOf' = claimedOf
  BY <1>1, ClaimsStay
<1>3. boughtOf'[c] = boughtOf[c]
  BY Views, ViewsNext
<1>4. boughtOf' = [boughtOf EXCEPT ![c] = boughtOf[c]]
  BY <1>3, ViewStep
<1>5. boughtOf' = boughtOf
  BY <1>4 DEF boughtOf
<1>6. ASSUME reply'[c] = reply[c] PROVE answerOf' = answerOf
  <2>1. answerOf'[c] = answerOf[c]
    BY <1>6, Views, ViewsNext
  <2>2. answerOf' = [answerOf EXCEPT ![c] = answerOf[c]]
    BY <2>1, ViewStep
  <2> QED
    BY <2>2 DEF answerOf
<1> QED
  BY <1>2, <1>5, <1>6, ViewStep

LEMMA PromiseNext == CallInv /\ NonceInv /\ [Next]_vars => Promised
<1> SUFFICES ASSUME CallInv, NonceInv, [Next]_vars PROVE Promised
  OBVIOUS
<1>0. TypeOK /\ \A c \in Calls : Phase(c) /\ Context(c) /\ Paid(c)
  BY DEF CallInv
<1> USE DEF moneyVars
<1>1. UNCHANGED moneyVars => UNCHANGED <<takenOf, flying>>
  BY DEF takenOf
<1>2. ASSUME NEW c \in Calls, Arrive(c) PROVE Promised
  <2>1. /\ Others(c) /\ UNCHANGED moneyVars /\ epoch' = epoch /\ pc[c] = "idle" /\ ctx' = ctx
        /\ \/ pc'[c] = "key" /\ reply'[c] = reply[c]
           \/ pc'[c] = "done" /\ reply'[c] = "rate_limited"
    BY <1>0, <1>2, ArriveStep
  <2> QED
    BY <1>1, <2>1, AsksOn
<1>3. ASSUME NEW c \in Calls, Others(c), UNCHANGED moneyVars, epoch' = epoch,
             NEW from \in Asking, NEW to, MovesOn(c, from, to),
             \/ to \in Asking /\ reply'[c] = reply[c]
             \/ to = "done" /\ reply'[c] \in {"rate_limited", "payment_required"}
      PROVE  Promised
  BY <1>1, <1>3, AsksOn DEF MovesOn
<1>4. ASSUME NEW c \in Calls, UseKey(c) PROVE Promised
  <2>1. Others(c) /\ UNCHANGED moneyVars /\ epoch' = epoch
    BY <1>0, <1>4, UseKeyStep
  <2>2. \/ \E rail \in {"internal", "prepaid", "stripe"} : LetIn(c, rail)
        \/ \E to \in {"admit", "address"} : MovesOn(c, "key", to) /\ reply'[c] = reply[c]
    BY <1>0, <1>4, UseKeyStep
  <2>3. CASE \E rail \in {"internal", "prepaid", "stripe"} : LetIn(c, rail)
    BY <1>1, <2>1, <2>3, BeginsFree
  <2>4. CASE \E to \in {"admit", "address"} : MovesOn(c, "key", to) /\ reply'[c] = reply[c]
    BY <1>3, <2>1, <2>4
  <2> QED
    BY <2>2, <2>3, <2>4
<1>5. ASSUME NEW c \in Calls, CheckAddress(c) PROVE Promised
  BY <1>0, <1>3, <1>5, CheckAddressStep
<1>6. ASSUME NEW c \in Calls, AdmitNonce(c) PROVE Promised
  <2>1. /\ Others(c) /\ UNCHANGED moneyVars /\ epoch' = epoch /\ reply' = reply
        /\ \E to \in {"credential", "verify"} : MovesOn(c, "admit", to)
    BY <1>0, <1>6, AdmitNonceStep
  <2> QED
    BY <1>3, <2>1
<1>7. ASSUME NEW c \in Calls, VerifyPayment(c) PROVE Promised
  <2>1. /\ Others(c) /\ UNCHANGED moneyVars /\ epoch' = epoch /\ pc[c] = "verify"
        /\ \/ LetIn(c, "x402")
           \/ MovesOn(c, "verify", "credential") /\ reply'[c] = reply[c]
    BY <1>0, <1>7, VerifyPaymentStep
  <2>2. CASE LetIn(c, "x402")
    BY <1>1, <2>1, <2>2, BeginsPaid
  <2>3. CASE MovesOn(c, "verify", "credential") /\ reply'[c] = reply[c]
    BY <1>3, <2>1, <2>3
  <2> QED
    BY <2>1, <2>2, <2>3
<1>8. ASSUME NEW c \in Calls, ReadCredential(c) PROVE Promised
  <2>1. /\ Others(c) /\ UNCHANGED moneyVars /\ epoch' = epoch
        /\ \/ MovesOn(c, "credential", "settling") /\ reply'[c] = reply[c]
           \/ MovesOn(c, "credential", "done") /\ reply'[c] = "payment_required"
    BY <1>0, <1>8, ReadCredentialStep
  <2> QED
    BY <1>3, <2>1
<1>9. ASSUME NEW c \in Calls, SettleCredential(c) PROVE Promised
  <2>1. /\ Others(c) /\ flying' = flying /\ epoch' = epoch /\ req[c].cred \in Creds
        /\ moved' \in {moved, moved \cup {req[c].cred}}
    BY <1>0, <1>9, SettleCredentialStep
  <2>2. \/ \E rail \in {"mpp", "topup"} : LetIn(c, rail)
        \/ MovesOn(c, "settling", "mint") /\ reply'[c] = reply[c]
        \/ MovesOn(c, "settling", "done") /\ reply'[c] = "payment_required"
    BY <1>0, <1>9, SettleCredentialStep
  <2>3. UNCHANGED <<takenOf, flying>>
    BY <2>1, GateAssumption DEF takenOf, GateAssumption
  <2>4. CASE \E rail \in {"mpp", "topup"} : LetIn(c, rail)
    BY <2>1, <2>3, <2>4, BeginsFree
  <2>5. CASE \/ MovesOn(c, "settling", "mint") /\ reply'[c] = reply[c]
             \/ MovesOn(c, "settling", "done") /\ reply'[c] = "payment_required"
    <3>1. /\ pc[c] = "settling" /\ ctx'[c] = ctx[c]
          /\ \/ pc'[c] \in Asking /\ reply'[c] = reply[c]
             \/ pc'[c] = "done" /\ reply'[c] \in {"rate_limited", "payment_required"}
      BY <2>5 DEF MovesOn
    <3> QED
      BY <2>1, <2>3, <3>1, AsksOn
  <2> QED
    BY <2>2, <2>4, <2>5
<1>10. ASSUME NEW c \in Calls, MintKey(c) PROVE Promised
  <2>1. Others(c) /\ UNCHANGED moneyVars /\ epoch' = epoch /\ LetIn(c, "topup")
    BY <1>0, <1>10, MintKeyStep
  <2> QED
    BY <1>1, <2>1, BeginsFree
<1>11. ASSUME NEW c \in Calls, DoWork(c) PROVE Promised
  <2>1. /\ Others(c) /\ UNCHANGED moneyVars /\ epoch' = epoch /\ reply' = reply
        /\ pc[c] = "work" /\ pc'[c] \in {"bill", "unbill"}
        /\ req'[c] = req[c] /\ ctx'[c] = ctx[c]
    BY <1>0, <1>11, DoWorkStep DEF MovesOn
  <2>2. /\ UNCHANGED <<claimedOf, boughtOf, answerOf, takenOf, flying>>
        /\ stageOf' = [stageOf EXCEPT ![c] = stageOf'[c]]
    BY <1>1, <2>1, WorksOn
  <2>3. stageOf[c] = "working"
    BY <2>1, Views
  <2>4. CASE pc'[c] = "bill"
    <3>1. stageOf' = [stageOf EXCEPT ![c] = "produced"]
      BY <2>2, <2>4, ViewsNext
    <3>2. Promise!Produce(c)
      BY <2>2, <2>3, <3>1 DEF Promise!Produce, Promise!Move
    <3> QED
      BY <3>2 DEF Promised, Promise!Next
  <2>5. CASE pc'[c] = "unbill"
    <3>1. stageOf' = [stageOf EXCEPT ![c] = stageOf[c]]
      BY <2>2, <2>3, <2>5, ViewsNext
    <3>2. stageOf' = stageOf
      BY <3>1, ZenonT(30) DEF stageOf
    <3> QED
      BY <2>2, <3>2 DEF Promised
  <2> QED
    BY <2>1, <2>4, <2>5
<1>12. ASSUME NEW c \in Calls, Bill(c) PROVE Promised
  <2>1. /\ Others(c) /\ epoch' = epoch /\ pc[c] = "bill" /\ pc'[c] = "deliver"
        /\ req' = req /\ reply' = reply /\ SameGrant(c)
        /\ UNCHANGED moneyVars \/ (ctx[c].rail = "x402" /\ Collected(req[c].auth))
    BY <1>0, <1>12, BillStep
  <2>2. /\ UNCHANGED <<claimedOf, boughtOf, answerOf>>
        /\ stageOf' = [stageOf EXCEPT ![c] = stageOf'[c]]
    BY <2>1, WorksOn DEF SameGrant
  <2>3. stageOf[c] = "produced" /\ stageOf' = [stageOf EXCEPT ![c] = "billed"]
    BY <2>1, <2>2, Views, ViewsNext
  <2>4. \/ UNCHANGED <<takenOf, flying>>
        \/ /\ boughtOf[c] \in Auths \ takenOf
           /\ \/ takenOf' = takenOf \cup {boughtOf[c]} /\ flying' = flying \ {boughtOf[c]}
              \/ flying' = flying \cup {boughtOf[c]} /\ UNCHANGED takenOf
    <3>1. CASE UNCHANGED moneyVars
      BY <1>1, <3>1
    <3>2. CASE ctx[c].rail = "x402" /\ Collected(req[c].auth)
      <4>1. boughtOf[c] = req[c].auth /\ req[c].auth \in Auths
        BY <1>0, <3>2, Views DEF Paid
      <4> QED
        BY <3>2, <4>1 DEF Collected, takenOf
    <3> QED
      BY <2>1, <3>1, <3>2
  <2>5. Promise!Collect(c)
    BY <2>2, <2>3, <2>4 DEF Promise!Collect, Promise!Move
  <2> QED
    BY <2>5 DEF Promised, Promise!Next
<1>13. ASSUME NEW c \in Calls, Deliver(c) PROVE Promised
  <2>1. /\ Others(c) /\ UNCHANGED moneyVars /\ epoch' = epoch /\ pc[c] = "deliver"
        /\ pc'[c] = "done" /\ req'[c] = req[c] /\ ctx'[c] = ctx[c]
        /\ \/ ctx[c].settle = "refused" /\ reply'[c] = "withheld"
           \/ reply'[c] = "delivered"
    BY <1>0, <1>13, DeliverStep DEF MovesOn
  <2>2. /\ UNCHANGED <<claimedOf, boughtOf, takenOf, flying>>
        /\ stageOf' = [stageOf EXCEPT ![c] = stageOf'[c]]
        /\ answerOf' = [answerOf EXCEPT ![c] = answerOf'[c]]
    BY <1>1, <2>1, WorksOn
  <2>3. /\ stageOf[c] = "billed" /\ stageOf' = [stageOf EXCEPT ![c] = "answered"]
        /\ answerOf' = [answerOf EXCEPT ![c] = reply'[c]]
    BY <2>1, <2>2, Views, ViewsNext
  <2>4. ctx[c].settle = "refused" => boughtOf[c] # None
    <3>1. ctx[c].settle = "refused" => ctx[c].rail = "x402" /\ req[c].auth \in Auths
      BY <1>0 DEF Context, Paid
    <3> QED
      BY <3>1, NoneIsNoKey, Views
  <2>5. Promise!HandOver(c)
    BY <2>1, <2>2, <2>3, <2>4 DEF Promise!HandOver, Promise!End, Promise!Move
  <2> QED
    BY <2>5 DEF Promised, Promise!Next
<1>14. ASSUME NEW c \in Calls, Unbill(c) PROVE Promised
  <2>1. /\ Others(c) /\ UNCHANGED moneyVars /\ epoch' = epoch /\ pc[c] = "unbill"
        /\ pc'[c] = "done" /\ req'[c] = req[c] /\ SameGrant(c) /\ reply'[c] = "failed"
    BY <1>0, <1>14, UnbillStep
  <2>2. /\ UNCHANGED <<claimedOf, boughtOf, takenOf, flying>>
        /\ stageOf' = [stageOf EXCEPT ![c] = stageOf'[c]]
        /\ answerOf' = [answerOf EXCEPT ![c] = answerOf'[c]]
    BY <1>1, <2>1, WorksOn DEF SameGrant
  <2>3. /\ stageOf[c] = "working" /\ stageOf' = [stageOf EXCEPT ![c] = "answered"]
        /\ answerOf' = [answerOf EXCEPT ![c] = "failed"]
    BY <2>1, <2>2, Views, ViewsNext
  <2>4. Promise!Fail(c)
    BY <2>2, <2>3 DEF Promise!Fail, Promise!End, Promise!Move
  <2> QED
    BY <2>4 DEF Promised, Promise!Next
<1>15. ASSUME NEW a \in Auths, TransferEnds(a) PROVE Promised
  <2>1. UNCHANGED <<callVars, epoch>>
    BY <1>0, <1>15, TransferEndsStep
  <2>2. UNCHANGED <<stageOf, answerOf, boughtOf, claimedOf>>
    BY <2>1 DEF callVars, stageOf, answerOf, boughtOf, claimedOf, GrantedOn
  <2>3. /\ a \in flying /\ flying' = flying \ {a}
        /\ takenOf' = takenOf \cup {a} \/ UNCHANGED takenOf
    BY <1>15 DEF TransferEnds, takenOf
  <2>4. Promise!Resolve(a)
    BY <2>2, <2>3 DEF Promise!Resolve
  <2> QED
    BY <2>4 DEF Promised, Promise!Next
<1>16. ASSUME Restart PROVE Promised
  <2>1. UNCHANGED <<moneyVars, req, ctx>> /\ epoch' = epoch + 1
    BY <1>0, <1>16, RestartStep
  <2>2. UNCHANGED <<boughtOf, takenOf, flying>>
    BY <2>1 DEF boughtOf, takenOf
  <2>3. claimedOf' = {}
    <3>1. \A c \in Calls : ctx[c].epoch <= epoch /\ epoch \in Nat /\ ctx[c].epoch \in Nat
      BY <1>0 DEF Context, TypeOK, ContextType
    <3>2. \A c \in Calls : ctx'[c].epoch # epoch'
      BY <2>1, <3>1
    <3> QED
      BY <3>2 DEF claimedOf, GrantedOn
  <2> DEFINE lost == {c \in Calls : pc[c] \notin {"idle", "done"}}
  <2>4. ASSUME NEW c \in lost
        PROVE  stageOf[c] # "answered" /\ stageOf'[c] = "answered" /\ answerOf'[c] = "lost"
    <3>1. pc[c] \in Steps \ {"idle", "done"} /\ pc'[c] = "done" /\ reply'[c] = "lost"
      BY <1>0, <1>16, RestartStep DEF TypeOK
    <3> QED
      BY <3>1, Views, ViewsNext
  <2>5. ASSUME NEW c \in Calls \ lost
        PROVE  /\ stageOf[c] \in {"asking", "answered"}
               /\ stageOf'[c] = stageOf[c] /\ answerOf'[c] = answerOf[c]
    <3>1. pc[c] \in {"idle", "done"} /\ pc'[c] = pc[c] /\ reply'[c] = reply[c]
      BY <1>0, <1>16, RestartStep
    <3> QED
      BY <3>1, Views, ViewsNext
  <2>6. stageOf' = [c \in Calls |-> stageOf'[c]] /\ answerOf' = [c \in Calls |-> answerOf'[c]]
    BY DEF stageOf, answerOf
  <2>7. /\ lost \in SUBSET {c \in Calls : stageOf[c] # "answered"}
        /\ \A c \in Calls \ lost : stageOf[c] \in {"asking", "answered"}
        /\ stageOf' = [c \in Calls |-> IF c \in lost THEN "answered" ELSE stageOf[c]]
        /\ answerOf' = [c \in Calls |-> IF c \in lost THEN "lost" ELSE answerOf[c]]
    BY <2>4, <2>5, <2>6
  <2> HIDE DEF lost
  <2>8. Promise!Restart
    BY <2>2, <2>3, <2>7 DEF Promise!Restart
  <2> QED
    BY <2>8 DEF Promised, Promise!Next
<1>17. ASSUME UNCHANGED vars PROVE Promised
  BY <1>17 DEF vars, callVars, Promised, stageOf, answerOf, boughtOf, claimedOf, takenOf, GrantedOn
<1> QED
  BY <1>2, <1>4, <1>5, <1>6, <1>7, <1>8, <1>9, <1>10, <1>11, <1>12, <1>13, <1>14,
     <1>15, <1>16, <1>17 DEF Next, CallStep

LEMMA PromiseInit == Init => Promise!Init
<1> SUFFICES ASSUME Init PROVE Promise!Init
  OBVIOUS
<1>1. \A c \in Calls : pc[c] = "idle" /\ reply[c] = "none" /\ ctx[c].rail = "none"
  BY DEF Init, NoContext
<1>2. /\ stageOf = [c \in Calls |-> "asking"] /\ answerOf = [c \in Calls |-> "none"]
      /\ boughtOf = [c \in Calls |-> None]
  BY <1>1 DEF stageOf, answerOf, boughtOf
<1>3. claimedOf = {}
  BY <1>1 DEF claimedOf, GrantedOn
<1>4. takenOf = {} /\ flying = {}
  BY GateAssumption DEF Init, takenOf, GateAssumption, Creds
<1> QED
  BY <1>2, <1>3, <1>4 DEF Promise!Init

\* The gate, with its nonces, rails, stores and restarts, is an implementation
\* of PaidWork.
THEOREM GateImplementsPaidWork == Spec => KeepsPromise
<1>1. CallInv /\ NonceInv /\ [Next]_vars => [Promise!Next]_(Promise!vars)
  BY PromiseNext DEF Promised, Promise!vars
<1>2. Init => NonceInv
  <2>1. Init => \A c \in Calls : \A a : ~Owner(c, a)
    BY DEF Init, Owner, NoContext
  <2> QED
    BY <2>1 DEF Init, NonceInv
<1> QED
  BY <1>1, <1>2, PromiseInit, CallInvInit, CallInvNext, NonceInvNext, PTL
     DEF Spec, KeepsPromise, Promise!Spec

=============================================================================
