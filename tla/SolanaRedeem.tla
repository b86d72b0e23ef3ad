---------------------------- MODULE SolanaRedeem ----------------------------
(***************************************************************************)
(* The Solana hash rail (app/solana_hash_verifier.py): a finalized USDC    *)
(* transfer that carries a challenge's reference is redeemed for a prepaid *)
(* key.  Redemptions run in threads and payers retry them; the ledger is a *)
(* SQLite table that outlives the process, the key store another one.  A   *)
(* step is one ledger transaction, one RPC read or one key store write.    *)
(***************************************************************************)
EXTENDS Integers

CONSTANTS
  Threads,      \* redemptions that may be under way at once
  Sigs,         \* transactions, by signature
  Refs,         \* references of issued challenges, one token each
  Carries,      \* pairs <<signature, reference>>: in the accounts or a memo
  Received,     \* atomic USDC each transaction moved to the node's wallet
  Asked,        \* atomic USDC each challenge asks for
  PerCent,      \* ATOMIC_PER_CENT
  Keys,         \* bound: keys the store may mint in a behaviour
  MaxRestarts,  \* bound: restarts of the process in a behaviour
  None

ASSUME RedeemAssumption ==
  /\ Carries \subseteq Sigs \X Refs
  /\ Received \in [Sigs -> Nat] /\ Asked \in [Refs -> Nat]
  /\ PerCent \in Nat \ {0} /\ MaxRestarts \in Nat
  /\ None \notin Keys /\ None \notin Refs /\ None \notin Sigs

VARIABLES
  final,   \* outside: transactions finalized on the chain
  ledger,  \* solana_hash_claims, one row or none per signature
  old,     \* claimed rows older than _STUCK_AFTER_SECONDS
  worth,   \* the key store: cents on each minted key, 0 before
  pc,      \* where each thread is
  job,     \* its signature, reference and the key it minted
  told,    \* the answer the last step gave, if it gave one
  given,   \* history: <<signature, reference, key>> of the ok answers
  epoch    \* restarts so far

storeVars == <<ledger, old, worth>>
vars == <<final, storeVars, pc, job, told, given, epoch>>

NoRow == [status |-> "none", ref |-> None, key |-> None]
NoJob == [sig |-> None, ref |-> None, key |-> None]

Steps == {"idle", "look", "read", "claim", "mint", "undo", "record"}
Told  == {"nothing", "ok", "refused", "not_final", "rpc_unavailable",
          "signature_already_redeemed", "challenge_already_redeemed",
          "claim_pending", "claim_stuck", "key_store_unavailable",
          "internal_error"}
Rows  == [status : {"none", "claimed", "issued"}, ref : Refs \cup {None},
          key : Keys \cup {None}]
Jobs  == [sig : Sigs \cup {None}, ref : Refs \cup {None}, key : Keys \cup {None}]

Init ==
  /\ final = {} /\ old = {} /\ given = {} /\ epoch = 0
  /\ ledger = [t \in Sigs |-> NoRow]
  /\ worth = [k \in Keys |-> 0]
  /\ pc = [r \in Threads |-> "idle"]
  /\ job = [r \in Threads |-> NoJob]
  /\ told = "nothing"

-----------------------------------------------------------------------------
Credit(t) == Received[t] \div PerCent

\* verify_transaction on a finalized transaction: it carries the reference
\* and moved what the challenge asked.  (Failed, late and unbound transfers
\* are transactions that carry nothing here.)
Satisfies(t, f) ==
  /\ <<t, f>> \in Carries
  /\ Received[t] > 0 /\ Received[t] >= Asked[f]

\* The thread goes on to its next step, or redeem returns and it is free.
Move(r, step) == pc' = [pc EXCEPT ![r] = step]

Goto(r, step) == Move(r, step) /\ told' = "nothing"

Reply(r, kind) ==
  /\ Move(r, "idle") /\ told' = kind
  /\ job' = [job EXCEPT ![r] = NoJob]

Refuse(r, kind) == Reply(r, kind) /\ UNCHANGED given

\* The ok answer carries a key.
Give(r, k) ==
  /\ Reply(r, "ok")
  /\ given' = given \cup {<<job[r].sig, job[r].ref, k>>}

\* Variant: a reference may be redeemed by several transactions.
ReferenceTakenNever(f) == FALSE

\* The reference column is UNIQUE.
ReferenceTaken(f) == \E u \in Sigs : ledger[u].ref = f

\* _prior found no row of this signature or this reference.
Unused(t, f) == ledger[t].status = "none" /\ ~ReferenceTaken(f)

\* _prior found one: the key again, or a refusal.
AnswerPrior(r) ==
  LET t == job[r].sig  f == job[r].ref  row == ledger[t] IN
  \/ row.status = "none" /\ ReferenceTaken(f) /\ Refuse(r, "challenge_already_redeemed")
  \/ row.status # "none" /\ row.ref # f /\ Refuse(r, "signature_already_redeemed")
  \/ row.status = "issued" /\ row.ref = f /\ Give(r, row.key)
  \/ /\ row.status = "claimed" /\ row.ref = f
     /\ Refuse(r, IF t \in old THEN "claim_stuck" ELSE "claim_pending")

\* The payer calls redeem with a signature and the token of a reference; a
\* malformed signature or token ends there.
Redeem(r) ==
  /\ pc[r] = "idle"
  /\ \/ \E t \in Sigs, f \in Refs :
          /\ job' = [job EXCEPT ![r] = [sig |-> t, ref |-> f, key |-> None]]
          /\ Goto(r, "look") /\ UNCHANGED given
     \/ Refuse(r, "refused")
  /\ UNCHANGED <<final, storeVars, epoch>>

\* Any exception of the ledger or outside the named refusals.
InternalError(r) == Refuse(r, "internal_error")

\* The first look at the ledger, before the chain is read.
Look(r) ==
  /\ pc[r] = "look"
  /\ \/ AnswerPrior(r)
     \/ /\ Unused(job[r].sig, job[r].ref)
        /\ Goto(r, "read") /\ UNCHANGED <<job, given>>
     \/ InternalError(r)
  /\ UNCHANGED <<final, storeVars, epoch>>

\* _check_cluster and getTransaction at finalized commitment, then
\* verify_transaction.
ReadChain(r) ==
  LET t == job[r].sig IN
  /\ pc[r] = "read"
  /\ \/ Refuse(r, "rpc_unavailable")
     \/ t \notin final /\ Refuse(r, "not_final")
     \/ t \in final /\ ~Satisfies(t, job[r].ref) /\ Refuse(r, "refused")
     \/ /\ t \in final /\ Satisfies(t, job[r].ref)
        /\ Goto(r, "claim") /\ UNCHANGED <<job, given>>
  /\ UNCHANGED <<final, storeVars, epoch>>

Insert(t, f) ==
  /\ ledger' = [ledger EXCEPT ![t] = [status |-> "claimed", ref |-> f, key |-> None]]
  /\ old' = old \ {t}

\* Variant: the row is written without looking again.
ClaimBlind(r) ==
  /\ pc[r] = "claim"
  /\ Insert(job[r].sig, job[r].ref)
  /\ Goto(r, "mint")
  /\ UNCHANGED <<final, worth, job, given, epoch>>

\* BEGIN IMMEDIATE: look again, and record the claim before minting.
Claim(r) ==
  /\ pc[r] = "claim"
  /\ \/ AnswerPrior(r) /\ UNCHANGED <<ledger, old>>
     \/ /\ Unused(job[r].sig, job[r].ref)
        /\ Insert(job[r].sig, job[r].ref)
        /\ Goto(r, "mint") /\ UNCHANGED <<job, given>>
     \/ InternalError(r) /\ UNCHANGED <<ledger, old>>
  /\ UNCHANGED <<final, worth, epoch>>

\* Variant: the key is worth what the challenge asked, not what arrived.
MintCents(r) == Asked[job[r].ref] \div PerCent

\* The credit is whole cents of what arrived.
Cents(r) == Credit(job[r].sig)

\* issue_prepaid_key: a fresh key, or an exception -- which may come after the
\* store wrote the key (a lost answer); nobody then knows the key.
Mint(r) ==
  /\ pc[r] = "mint"
  /\ \/ \E k \in Keys :
          /\ worth[k] = 0 /\ Cents(r) > 0
          /\ worth' = [worth EXCEPT ![k] = Cents(r)]
          /\ \/ Goto(r, "record") /\ job' = [job EXCEPT ![r].key = k]
             \/ Goto(r, "undo") /\ UNCHANGED job
     \/ Goto(r, "undo") /\ UNCHANGED <<worth, job>>
  /\ UNCHANGED <<final, ledger, old, given, epoch>>

\* Variant: the claim is left behind when no key was issued.
UndoForgotten(r) ==
  /\ pc[r] = "undo"
  /\ Refuse(r, "key_store_unavailable")
  /\ UNCHANGED <<final, storeVars, epoch>>

\* No key: the claim is deleted.  If the ledger cannot do that, it stays.
Undo(r) ==
  LET t == job[r].sig IN
  /\ pc[r] = "undo"
  /\ \/ /\ ledger' = IF ledger[t].status = "claimed"
                       THEN [ledger EXCEPT ![t] = NoRow] ELSE ledger
        /\ old' = old \ {t}
        /\ Refuse(r, "key_store_unavailable")
     \/ InternalError(r) /\ UNCHANGED <<ledger, old>>
  /\ UNCHANGED <<final, worth, epoch>>

\* The row becomes "issued" and the key goes out.  If the ledger cannot do
\* that, the row stays claimed and the key is known to nobody.
Record(r) ==
  LET t == job[r].sig IN
  /\ pc[r] = "record"
  /\ \/ /\ ledger' = [ledger EXCEPT ![t] =
                       [status |-> "issued", ref |-> ledger[t].ref, key |-> job[r].key]]
        /\ old' = old \ {t}
        /\ Give(r, job[r].key)
     \/ InternalError(r) /\ UNCHANGED <<ledger, old>>
  /\ UNCHANGED <<final, worth, epoch>>

\* The chain finalizes a transaction; a claimed row passes the stuck age.
Finalize(t) ==
  /\ t \notin final /\ final' = final \cup {t} /\ told' = "nothing"
  /\ UNCHANGED <<storeVars, pc, job, given, epoch>>

Age(t) ==
  /\ ledger[t].status = "claimed" /\ t \notin old
  /\ old' = old \cup {t} /\ told' = "nothing"
  /\ UNCHANGED <<final, ledger, worth, pc, job, given, epoch>>

\* The process dies: its threads are gone, ledger and key store are not.
Restart ==
  /\ epoch < MaxRestarts /\ epoch' = epoch + 1
  /\ told' = "nothing"
  /\ pc' = [r \in Threads |-> "idle"]
  /\ job' = [r \in Threads |-> NoJob]
  /\ UNCHANGED <<final, storeVars, given>>

ThreadStep(r) ==
  Look(r) \/ ReadChain(r) \/ Claim(r) \/ Mint(r) \/ Undo(r) \/ Record(r)

Next ==
  \/ \E r \in Threads : Redeem(r) \/ ThreadStep(r)
  \/ \E t \in Sigs : Finalize(t) \/ Age(t)
  \/ Restart

Spec == Init /\ [][Next]_vars

\* A thread's ledger waits at most 10 s, its RPC reads are bounded: it moves.
FairSpec == Spec /\ \A r \in Threads : WF_vars(ThreadStep(r))

-----------------------------------------------------------------------------
(* Properties *)

\* Every variable holds a value of its kind; a row has a reference once it is
\* claimed and a key exactly when it is issued.
TypeOK ==
  /\ final \subseteq Sigs /\ old \subseteq Sigs
  /\ ledger \in [Sigs -> Rows]
  /\ \A t \in Sigs :
       /\ (ledger[t].status = "none") <=> (ledger[t].ref = None)
       /\ (ledger[t].status = "issued") <=> (ledger[t].key # None)
  /\ worth \in [Keys -> Nat]
  /\ pc \in [Threads -> Steps] /\ job \in [Threads -> Jobs]
  /\ told \in Told
  /\ given \subseteq Sigs \X Refs \X Keys
  /\ epoch \in Nat

\* "Two concurrent redemptions of one transfer cannot both win": a payment has
\* one key and a challenge one payment, over retries, races and restarts; and
\* no key is given for two payments.
OneKeyPerPayment ==
  \A g, h \in given :
    /\ g[1] = h[1] => g = h
    /\ g[2] = h[2] => g = h
    /\ g[3] = h[3] => g = h

\* "The only path to a key is a verified transfer": a key given out is for a
\* finalized transaction that satisfies the challenge of the token's holder,
\* and carries the whole cents of what arrived.
KeyBacksPayment ==
  \A g \in given :
    /\ g[1] \in final /\ Satisfies(g[1], g[2])
    /\ worth[g[3]] = Credit(g[1])

\* Threads between the claim and its end.
Redeeming(r) == pc[r] \in {"mint", "undo", "record"}

\* A claim is one thread's, and its row is what the thread left it.
ClaimIsExclusive ==
  \A r \in Threads : Redeeming(r) =>
    /\ ledger[job[r].sig].status = "claimed" /\ ledger[job[r].sig].ref = job[r].ref
    /\ \A s \in Threads : Redeeming(s) /\ job[s].sig = job[r].sig => s = r

\* A payment is stranded only by a thread that died or lost the ledger: a row
\* stays claimed while a thread works on it, or after a restart or an
\* exception of the ledger.  Every other refusal can be retried.
Stranded(t) == ledger[t].status = "claimed" /\ ~\E r \in Threads : Redeeming(r) /\ job[r].sig = t

StrandedOnlyByFailure ==
  [][\A t \in Sigs : ~Stranded(t) /\ Stranded(t)' =>
       epoch' # epoch \/ told' = "internal_error"]_vars

\* Once a key is issued the payment's row is final, so the payer whose answer
\* was lost is given the same key by the same signature and token.
IssuedIsFinal ==
  [][\A t \in Sigs : ledger[t].status = "issued" => ledger'[t] = ledger[t]]_vars

\* Every redemption is answered, unless the process dies under it.
EveryRedemptionAnswered == \A r \in Threads : pc[r] # "idle" ~> pc[r] = "idle"

\* Every redemption ends, and leaves a claim behind only if the process died
\* or the ledger failed (redeem).
RedemptionsEnd == StrandedOnlyByFailure /\ EveryRedemptionAnswered
=============================================================================
