------------------------ MODULE SolanaRedeem_proofs ------------------------
(***************************************************************************)
(* Proofs about SolanaRedeem for any number of threads, payments,          *)
(* challenges, keys and restarts.                                          *)
(*                                                                         *)
(* OneKeyPerPayment and KeyBacksPayment are about keys already given, so   *)
(* they are not inductive.  What keeps them is in the ledger: a row is     *)
(* claimed by one thread at a time (ClaimIsExclusive), a reference sits in *)
(* one row (ReferenceUnique), a claim was verified on the chain first      *)
(* (ClaimVerified), and a key belongs to one row or to one thread about to *)
(* record it (KeyPlaced).  GivenIsIssued ties the given keys to the rows.  *)
(***************************************************************************)
EXTENDS SolanaRedeem, TLAPS

ReferenceUnique ==
  \A t, u \in Sigs : ledger[t].ref # None /\ ledger[t].ref = ledger[u].ref => t = u

\* A thread past "idle" has a signature and a reference; past the chain read
\* the transaction is final and satisfies the reference.  So does every row.
JobsAreSet ==
  \A r \in Threads : pc[r] # "idle" => job[r].sig \in Sigs /\ job[r].ref \in Refs

ClaimVerified ==
  /\ \A r \in Threads : pc[r] = "claim" \/ Redeeming(r) =>
       job[r].sig \in final /\ Satisfies(job[r].sig, job[r].ref)
  /\ \A t \in Sigs : ledger[t].status # "none" =>
       t \in final /\ Satisfies(t, ledger[t].ref)

\* An issued row's key, and the key of a thread about to record one, are
\* minted, worth the credit of their payment, and shared with nobody.
KeyPlaced ==
  /\ \A t \in Sigs : ledger[t].status = "issued" =>
       worth[ledger[t].key] = Credit(t) /\ worth[ledger[t].key] # 0
  /\ \A r \in Threads : pc[r] = "record" =>
       /\ job[r].key \in Keys
       /\ worth[job[r].key] = Credit(job[r].sig) /\ worth[job[r].key] # 0
  /\ \A t, u \in Sigs : ledger[t].key # None /\ ledger[t].key = ledger[u].key => t = u
  /\ \A r \in Threads, t \in Sigs :
       pc[r] = "record" => ledger[t].key # job[r].key
  /\ \A r, s \in Threads :
       pc[r] = "record" /\ pc[s] = "record" /\ job[r].key = job[s].key => r = s

GivenIsIssued ==
  \A g \in given : ledger[g[1]] = [status |-> "issued", ref |-> g[2], key |-> g[3]]

IInv ==
  /\ TypeOK /\ JobsAreSet /\ ClaimIsExclusive /\ ReferenceUnique
  /\ ClaimVerified /\ KeyPlaced /\ GivenIsIssued
-----------------------------------------------------------------------------
(* A payment is worth an integral number of cents.  (Code: credit_cents.) *)
LEMMA CreditInt == \A t \in Sigs : Credit(t) \in Int
BY RedeemAssumption DEF Credit

(* A row is its three columns.  (Code: the solana_hash_claims table.) *)
LEMMA RowShape ==
  \A row \in Rows :
    /\ row.status \in {"none", "claimed", "issued"}
    /\ row.ref \in Refs \cup {None} /\ row.key \in Keys \cup {None}
    /\ row = [status |-> row.status, ref |-> row.ref, key |-> row.key]
BY DEF Rows

(* Nothing is minted, claimed or given in the initial state. *)
LEMMA InitIInv == Init => IInv
<1> SUFFICES ASSUME Init PROVE IInv
  OBVIOUS
<1> USE RedeemAssumption DEF Init, NoRow, NoJob
<1>1. TypeOK
  BY DEF TypeOK, Rows, Jobs, Steps, Told
<1>2. JobsAreSet /\ ClaimIsExclusive /\ ReferenceUnique
  BY DEF JobsAreSet, ClaimIsExclusive, Redeeming, ReferenceUnique
<1>3. ClaimVerified /\ KeyPlaced /\ GivenIsIssued
  BY DEF ClaimVerified, Redeeming, KeyPlaced, GivenIsIssued
<1> QED BY <1>1, <1>2, <1>3 DEF IInv

(* What _prior's answers have in common: the thread is done, and a key goes  *)
(* out only if the row is issued and has it.  (Code: _prior.)               *)
GivesRowKey(r) ==
  LET t == job[r].sig IN
  /\ ledger[t].status = "issued" /\ ledger[t].ref = job[r].ref
  /\ given' = given \cup {<<t, job[r].ref, ledger[t].key>>}

(* An answer from the ledger ends the redemption.  (Code: _prior, redeem.) *)
LEMMA PriorEnds ==
  ASSUME NEW r, AnswerPrior(r)
  PROVE  /\ pc' = [pc EXCEPT ![r] = "idle"]
         /\ job' = [job EXCEPT ![r] = NoJob]
         /\ told' \in Told
         /\ given' = given \/ GivesRowKey(r)
BY DEF AnswerPrior, Refuse, Give, Reply, Move, GivesRowKey, Told

(* A step of a thread before its claim that leaves the ledger and the key    *)
(* store alone keeps the invariant, answers included.  (Code: redeem outside *)
(* its transactions, and the transactions that only look.)                  *)
LEMMA QuietKeepsIInv ==
  ASSUME IInv, NEW r \in Threads, NEW step \in {"idle", "look", "read"}, NEW j \in Jobs,
         step # "idle" => j.sig \in Sigs /\ j.ref \in Refs,
         pc' = [pc EXCEPT ![r] = step], job' = [job EXCEPT ![r] = j],
         told' \in Told,
         given' = given \/ (pc[r] # "idle" /\ GivesRowKey(r)),
         UNCHANGED <<final, storeVars, epoch>>
  PROVE  IInv'
<1> USE DEF IInv, storeVars
<1>1. pc[r] # "idle" => job[r].sig \in Sigs /\ job[r].ref \in Refs
  BY DEF JobsAreSet
<1>2. given' \subseteq Sigs \X Refs \X Keys
  <2>1. CASE given' = given
    BY <2>1 DEF TypeOK
  <2>2. CASE pc[r] # "idle" /\ GivesRowKey(r)
    <3>1. ledger[job[r].sig].key \in Keys \cup {None}
      BY <1>1, <2>2, RowShape DEF TypeOK
    <3>2. ledger[job[r].sig].key # None
      <4>1. \A t \in Sigs : ledger[t].status = "issued" => ledger[t].key # None
        BY DEF TypeOK
      <4> QED BY <1>1, <2>2, <4>1 DEF GivesRowKey
    <3> QED BY <1>1, <2>2, <3>1, <3>2 DEF TypeOK, GivesRowKey
  <2> QED BY <2>1, <2>2
<1>3. pc' \in [Threads -> Steps] /\ job' \in [Threads -> Jobs]
  BY DEF TypeOK, Steps, Jobs
<1>4. TypeOK'
  BY <1>2, <1>3 DEF TypeOK
<1>5. \A s \in Threads : s # r => pc'[s] = pc[s] /\ job'[s] = job[s]
  BY DEF TypeOK
<1>6. pc'[r] = step /\ job'[r] = j
  BY DEF TypeOK
<1>7. JobsAreSet' /\ ClaimIsExclusive' /\ ReferenceUnique'
  BY <1>5, <1>6 DEF JobsAreSet, ClaimIsExclusive, Redeeming, ReferenceUnique
<1>8. ClaimVerified'
  BY <1>5, <1>6 DEF ClaimVerified, Redeeming, Satisfies
<1>9. KeyPlaced'
  BY <1>5, <1>6 DEF KeyPlaced, Credit
<1>10. GivenIsIssued'
  <2>1. CASE given' = given
    BY <2>1 DEF GivenIsIssued
  <2>2. CASE pc[r] # "idle" /\ GivesRowKey(r)
    <3>1. ledger[job[r].sig] \in Rows
      BY <1>1, <2>2 DEF TypeOK
    <3>2. ledger[job[r].sig] = [status |-> "issued", ref |-> job[r].ref,
                                key |-> ledger[job[r].sig].key]
      BY <2>2, <3>1, RowShape DEF GivesRowKey
    <3>3. ASSUME NEW g \in given'
          PROVE  ledger[g[1]] = [status |-> "issued", ref |-> g[2], key |-> g[3]]
      <4>1. CASE g \in given
        BY <4>1 DEF GivenIsIssued
      <4>2. CASE g = <<job[r].sig, job[r].ref, ledger[job[r].sig].key>>
        BY <3>2, <4>2
      <4> QED BY <2>2, <3>3, <4>1, <4>2 DEF GivesRowKey
    <3> QED BY <3>3 DEF GivenIsIssued
  <2> QED BY <2>1, <2>2
<1> QED BY <1>4, <1>7, <1>8, <1>9, <1>10

(* A call, its first look and the chain read keep the invariant: what may go *)
(* on to the claim was seen final and satisfying.  (Code: redeem,           *)
(* verify_transaction.)                                                     *)
LEMMA BeforeClaimKeepsIInv ==
  ASSUME IInv, NEW r \in Threads, Redeem(r) \/ Look(r) \/ ReadChain(r)
  PROVE  IInv'
<1>1. NoJob \in Jobs
  BY DEF NoJob, Jobs
<1>2. CASE Redeem(r)
  <2>1. CASE Refuse(r, "refused")
    BY <1>1, <1>2, <2>1, QuietKeepsIInv DEF Redeem, Refuse, Reply, Move, Told
  <2>2. CASE \E t \in Sigs, f \in Refs :
               /\ job' = [job EXCEPT ![r] = [sig |-> t, ref |-> f, key |-> None]]
               /\ Goto(r, "look") /\ UNCHANGED given
    <3>1. PICK t \in Sigs, f \in Refs :
            /\ job' = [job EXCEPT ![r] = [sig |-> t, ref |-> f, key |-> None]]
            /\ Goto(r, "look") /\ UNCHANGED given
      BY <2>2
    <3>2. [sig |-> t, ref |-> f, key |-> None] \in Jobs
      BY DEF Jobs
    <3> QED BY <1>2, <3>1, <3>2, QuietKeepsIInv DEF Redeem, Goto, Move, Told
  <2> QED BY <1>2, <2>1, <2>2 DEF Redeem
<1>3. CASE Look(r)
  <2>1. CASE AnswerPrior(r)
    BY <1>1, <1>3, <2>1, PriorEnds, QuietKeepsIInv DEF Look
  <2>2. CASE InternalError(r)
    BY <1>1, <1>3, <2>2, QuietKeepsIInv
    DEF Look, InternalError, Refuse, Reply, Move, Told
  <2>3. CASE Goto(r, "read") /\ UNCHANGED <<job, given>>
    <3>1. /\ job[r] \in Jobs /\ job[r].sig \in Sigs /\ job[r].ref \in Refs
          /\ job' = [job EXCEPT ![r] = job[r]]
      BY <1>3, <2>3 DEF IInv, TypeOK, JobsAreSet, Look
    <3> QED BY <1>3, <2>3, <3>1, QuietKeepsIInv DEF Look, Goto, Move, Told
  <2> QED BY <1>3, <2>1, <2>2, <2>3 DEF Look
<1>4. CASE ReadChain(r)
  <2>1. CASE \E kind \in {"rpc_unavailable", "not_final", "refused"} : Refuse(r, kind)
    BY <1>1, <1>4, <2>1, QuietKeepsIInv DEF ReadChain, Refuse, Reply, Move, Told
  <2>2. CASE /\ job[r].sig \in final /\ Satisfies(job[r].sig, job[r].ref)
             /\ Goto(r, "claim") /\ UNCHANGED <<job, given>>
    <3> USE <1>4, <2>2 DEF ReadChain, Goto, Move, IInv, storeVars
    <3>1. TypeOK'
      BY DEF TypeOK, Steps, Told
    <3>2. JobsAreSet' /\ ClaimIsExclusive' /\ ReferenceUnique'
      BY DEF TypeOK, JobsAreSet, ClaimIsExclusive, Redeeming, ReferenceUnique
    <3>3. ClaimVerified'
      BY DEF TypeOK, ClaimVerified, Redeeming, Satisfies
    <3>4. KeyPlaced' /\ GivenIsIssued'
      BY DEF TypeOK, KeyPlaced, GivenIsIssued, Credit
    <3> QED BY <3>1, <3>2, <3>3, <3>4
  <2> QED BY <1>4, <2>1, <2>2 DEF ReadChain
<1> QED BY <1>2, <1>3, <1>4

(* The claim goes into a row nobody has, under a reference no row has.       *)
(* (Code: the BEGIN IMMEDIATE insert of redeem.)                            *)
LEMMA ClaimKeepsIInv ==
  ASSUME IInv, NEW r \in Threads, Claim(r)
  PROVE  IInv'
<1> DEFINE t == job[r].sig
           f == job[r].ref
<1>1. pc[r] = "claim" /\ t \in Sigs /\ f \in Refs /\ NoJob \in Jobs
  BY DEF Claim, IInv, JobsAreSet, NoJob, Jobs
<1>2. CASE AnswerPrior(r) /\ UNCHANGED <<ledger, old>>
  BY <1>1, <1>2, PriorEnds, QuietKeepsIInv DEF Claim, storeVars
<1>3. CASE InternalError(r) /\ UNCHANGED <<ledger, old>>
  BY <1>1, <1>3, QuietKeepsIInv
  DEF Claim, storeVars, InternalError, Refuse, Reply, Move, Told
<1>4. CASE Unused(t, f) /\ Insert(t, f) /\ Goto(r, "mint") /\ UNCHANGED <<job, given>>
  <2> USE <1>1, <1>4 DEF IInv
  <2>1. /\ ledger' = [ledger EXCEPT ![t] = [status |-> "claimed", ref |-> f, key |-> None]]
        /\ old' = old \ {t} /\ pc' = [pc EXCEPT ![r] = "mint"] /\ told' = "nothing"
        /\ UNCHANGED <<job, given, final, worth, epoch>>
    BY DEF Claim, Insert, Goto, Move
  <2>2. ledger[t].status = "none" /\ \A u \in Sigs : ledger[u].ref # f
    BY DEF Unused, ReferenceTaken
  <2>3. /\ ledger'[t] = [status |-> "claimed", ref |-> f, key |-> None]
        /\ \A u \in Sigs : u # t => ledger'[u] = ledger[u]
        /\ ledger' \in [Sigs -> Rows]
    BY <2>1 DEF TypeOK, Rows
  <2>4. pc'[r] = "mint" /\ \A s \in Threads : s # r => pc'[s] = pc[s]
    BY <2>1 DEF TypeOK
  <2>5. TypeOK'
    BY <2>1, <2>3, RedeemAssumption DEF TypeOK, Steps, Told
  <2>6. JobsAreSet'
    BY <2>1, <2>4 DEF JobsAreSet
  <2>7. \A s \in Threads : Redeeming(s) => job[s].sig # t
    BY <2>2 DEF ClaimIsExclusive
  <2>8. ClaimIsExclusive'
    BY <2>1, <2>3, <2>4, <2>6, <2>7 DEF ClaimIsExclusive, Redeeming, JobsAreSet
  <2>9. ReferenceUnique'
    BY <2>2, <2>3 DEF ReferenceUnique
  <2>10. ClaimVerified'
    BY <2>1, <2>3, <2>4 DEF ClaimVerified, Redeeming, Satisfies
  <2>11. KeyPlaced'
    BY <2>1, <2>3, <2>4, RedeemAssumption DEF KeyPlaced, Credit
  <2>12. GivenIsIssued'
    <3>1. \A g \in given : g[1] \in Sigs
      BY DEF TypeOK
    <3>2. ASSUME NEW g \in given PROVE ledger[g[1]].status = "issued"
      <4>1. ledger[g[1]] = [status |-> "issued", ref |-> g[2], key |-> g[3]]
        BY DEF GivenIsIssued
      <4> QED BY <4>1
    <3> QED BY <2>1, <2>2, <2>3, <3>1, <3>2 DEF GivenIsIssued
  <2> QED BY <2>5, <2>6, <2>8, <2>9, <2>10, <2>11, <2>12
<1> QED BY <1>2, <1>3, <1>4 DEF Claim

(* A minted key is fresh and worth the credit; whichever way the store        *)
(* answered, no row has it yet.  (Code: issue_prepaid_key.)                 *)
LEMMA MintKeepsIInv ==
  ASSUME IInv, NEW r \in Threads, Mint(r)
  PROVE  IInv'
<1> DEFINE Minted(k) == worth[k] = 0 /\ Cents(r) > 0 /\ worth' = [worth EXCEPT ![k] = Cents(r)]
<1>1. /\ pc[r] = "mint" /\ job[r].sig \in Sigs /\ job[r].ref \in Refs
      /\ Cents(r) = Credit(job[r].sig) /\ Cents(r) \in Int
      /\ UNCHANGED <<final, ledger, old, given, epoch>> /\ told' = "nothing"
  BY CreditInt DEF Mint, IInv, JobsAreSet, Cents, Goto
<1>2. \A k \in Keys : Minted(k) =>
        /\ \A t \in Sigs : ledger[t].key # k
        /\ \A s \in Threads : pc[s] = "record" => job[s].key # k
  <2>1. ASSUME NEW k \in Keys, Minted(k), NEW t \in Sigs PROVE ledger[t].key # k
    <3>1. ledger[t].key # None => worth[ledger[t].key] # 0
      BY DEF IInv, TypeOK, KeyPlaced
    <3> QED BY <2>1, <3>1, RedeemAssumption
  <2>2. ASSUME NEW k \in Keys, Minted(k), NEW s \in Threads, pc[s] = "record"
        PROVE  job[s].key # k
    BY <2>2 DEF IInv, KeyPlaced
  <2> QED BY <2>1, <2>2
<1>3. CASE Goto(r, "undo") /\ UNCHANGED job
           /\ (UNCHANGED worth \/ \E k \in Keys : Minted(k))
  <2> USE <1>1, <1>3 DEF IInv
  <2>1. pc' = [pc EXCEPT ![r] = "undo"]
    BY DEF Goto, Move
  <2>2. pc'[r] = "undo" /\ \A s \in Threads : s # r => pc'[s] = pc[s]
    BY <2>1 DEF TypeOK
  <2>3. /\ worth' \in [Keys -> Nat]
        /\ \A k \in Keys : worth[k] # 0 => worth'[k] = worth[k]
    BY DEF TypeOK
  <2>4. TypeOK'
    BY <2>1, <2>3 DEF TypeOK, Steps, Told
  <2>5. JobsAreSet' /\ ClaimIsExclusive' /\ ReferenceUnique' /\ ClaimVerified'
    BY <2>2 DEF JobsAreSet, ClaimIsExclusive, Redeeming, ReferenceUnique,
                ClaimVerified, Satisfies
  <2>6. \A t \in Sigs : ledger[t].status = "issued" => ledger[t].key \in Keys
    BY RowShape DEF TypeOK
  <2>7. KeyPlaced'
    BY <2>2, <2>3, <2>6 DEF KeyPlaced, Credit
  <2>8. GivenIsIssued'
    BY DEF GivenIsIssued
  <2> QED BY <2>4, <2>5, <2>7, <2>8
<1>4. ASSUME NEW k \in Keys, Minted(k), Goto(r, "record"), job' = [job EXCEPT ![r].key = k]
      PROVE  IInv'
  <2> USE <1>1, <1>4 DEF IInv
  <2>1. pc' = [pc EXCEPT ![r] = "record"]
    BY DEF Goto, Move
  <2>2. pc'[r] = "record" /\ \A s \in Threads : s # r => pc'[s] = pc[s]
    BY <2>1 DEF TypeOK
  <2>3. /\ worth' \in [Keys -> Nat] /\ worth'[k] = Credit(job[r].sig) /\ worth'[k] # 0
        /\ \A n \in Keys : worth[n] # 0 => worth'[n] = worth[n]
    BY DEF TypeOK
  <2>4. /\ job' \in [Threads -> Jobs] /\ job'[r].key = k
        /\ job'[r].sig = job[r].sig /\ job'[r].ref = job[r].ref
        /\ \A s \in Threads : s # r => job'[s] = job[s]
    BY DEF TypeOK, Jobs
  <2>5. TypeOK'
    BY <2>1, <2>3, <2>4 DEF TypeOK, Steps, Told
  <2>6. JobsAreSet' /\ ClaimIsExclusive' /\ ReferenceUnique' /\ ClaimVerified'
    BY <2>2, <2>4 DEF JobsAreSet, ClaimIsExclusive, Redeeming, ReferenceUnique,
                      ClaimVerified, Satisfies
  <2>7. \A t \in Sigs : ledger[t].status = "issued" => ledger[t].key \in Keys
    BY RowShape DEF TypeOK
  <2>8. KeyPlaced'
    <3>1. \A t \in Sigs : ledger'[t].status = "issued" =>
            worth'[ledger'[t].key] = Credit(t)' /\ worth'[ledger'[t].key] # 0
      BY <2>3, <2>7 DEF KeyPlaced, Credit
    <3>2. \A s \in Threads : pc'[s] = "record" =>
            /\ job'[s].key \in Keys
            /\ worth'[job'[s].key] = Credit(job'[s].sig) /\ worth'[job'[s].key] # 0
      BY <2>2, <2>3, <2>4 DEF KeyPlaced, Credit
    <3>3. \A s \in Threads, t \in Sigs :
            pc'[s] = "record" => ledger'[t].key # job'[s].key
      BY <1>2, <2>2, <2>4, ZenonT(30) DEF KeyPlaced
    <3>4. \A q, s \in Threads :
            pc'[q] = "record" /\ pc'[s] = "record" /\ job'[q].key = job'[s].key => q = s
      BY <1>2, <2>2, <2>4 DEF KeyPlaced
    <3> QED BY <3>1, <3>2, <3>3, <3>4 DEF KeyPlaced, Credit
  <2>9. GivenIsIssued'
    BY DEF GivenIsIssued
  <2> QED BY <2>5, <2>6, <2>8, <2>9
<1> QED BY <1>3, <1>4 DEF Mint

(* A thread that leaves its claim for good, with a refusal, changes no row    *)
(* but its own, and that one only back to none.  (Code: the delete of redeem.) *)
LEMMA UndoKeepsIInv ==
  ASSUME IInv, NEW r \in Threads, Undo(r)
  PROVE  IInv'
<1> DEFINE t == job[r].sig
<1> USE DEF IInv
<1>1. /\ pc[r] = "undo" /\ t \in Sigs /\ ledger[t].status = "claimed"
      /\ UNCHANGED <<final, worth, epoch, given>>
      /\ pc' = [pc EXCEPT ![r] = "idle"] /\ job' = [job EXCEPT ![r] = NoJob]
      /\ told' \in Told /\ NoJob \in Jobs
  BY DEF Undo, JobsAreSet, ClaimIsExclusive, Redeeming, InternalError, Refuse, Reply,
         Move, Told, NoJob, Jobs
<1>2. CASE UNCHANGED <<ledger, old>>
  BY <1>1, <1>2, QuietKeepsIInv DEF storeVars
<1>3. CASE ledger' = [ledger EXCEPT ![t] = NoRow] /\ old' = old \ {t}
  <2>1. /\ ledger'[t] = NoRow /\ \A u \in Sigs : u # t => ledger'[u] = ledger[u]
        /\ ledger' \in [Sigs -> Rows]
    BY <1>1, <1>3 DEF TypeOK, Rows, NoRow
  <2>2. pc'[r] = "idle" /\ \A s \in Threads : s # r => pc'[s] = pc[s] /\ job'[s] = job[s]
    BY <1>1 DEF TypeOK
  <2>3. TypeOK'
    BY <1>1, <1>3, <2>1 DEF TypeOK, Steps, NoRow
  <2>4. \A s \in Threads : s # r /\ Redeeming(s) => job[s].sig # t
    BY <1>1 DEF ClaimIsExclusive, Redeeming
  <2>5. JobsAreSet' /\ ClaimIsExclusive'
    BY <2>1, <2>2, <2>4 DEF JobsAreSet, ClaimIsExclusive, Redeeming
  <2>6. ReferenceUnique' /\ ClaimVerified'
    <3>1. ReferenceUnique'
      BY <2>1 DEF ReferenceUnique, NoRow
    <3>2. \A s \in Threads : pc'[s] = "claim" \/ Redeeming(s)' =>
            job'[s].sig \in final' /\ Satisfies(job'[s].sig, job'[s].ref)
      BY <1>1, <2>2 DEF ClaimVerified, Redeeming
    <3>3. \A u \in Sigs : ledger'[u].status # "none" =>
            u \in final' /\ Satisfies(u, ledger'[u].ref)
      BY <1>1, <2>1 DEF ClaimVerified, NoRow
    <3> QED BY <3>1, <3>2, <3>3 DEF ClaimVerified, Satisfies
  <2>7. KeyPlaced'
    BY <1>1, <2>1, <2>2, RedeemAssumption DEF KeyPlaced, Credit, NoRow
  <2>8. GivenIsIssued'
    <3>1. ASSUME NEW g \in given PROVE g[1] \in Sigs /\ ledger[g[1]].status = "issued"
      <4>1. ledger[g[1]] = [status |-> "issued", ref |-> g[2], key |-> g[3]]
        BY DEF GivenIsIssued
      <4> QED BY <4>1 DEF TypeOK
    <3> QED BY <1>1, <2>1, <3>1 DEF GivenIsIssued
  <2> QED BY <2>3, <2>5, <2>6, <2>7, <2>8
<1> QED BY <1>1, <1>2, <1>3 DEF Undo

(* The key the thread minted goes into the thread's row and out to the payer. *)
(* (Code: the update of redeem.)                                            *)
LEMMA RecordKeepsIInv ==
  ASSUME IInv, NEW r \in Threads, Record(r)
  PROVE  IInv'
<1> DEFINE t == job[r].sig
           k == job[r].key
           issuedRow == [status |-> "issued", ref |-> job[r].ref, key |-> k]
<1> USE DEF IInv
<1>1. /\ pc[r] = "record" /\ t \in Sigs /\ k \in Keys /\ job[r].ref \in Refs
      /\ ledger[t].status = "claimed" /\ ledger[t].ref = job[r].ref
      /\ UNCHANGED <<final, worth, epoch>>
      /\ pc' = [pc EXCEPT ![r] = "idle"] /\ job' = [job EXCEPT ![r] = NoJob]
      /\ told' \in Told /\ NoJob \in Jobs
  BY DEF Record, JobsAreSet, ClaimIsExclusive, Redeeming, KeyPlaced, Give, InternalError,
         Refuse, Reply, Move, Told, NoJob, Jobs
<1>2. CASE UNCHANGED <<ledger, old>> /\ InternalError(r)
  BY <1>1, <1>2, QuietKeepsIInv DEF storeVars, InternalError, Refuse
<1>3. CASE /\ ledger' = [ledger EXCEPT ![t] =
                           [status |-> "issued", ref |-> ledger[t].ref, key |-> k]]
           /\ old' = old \ {t} /\ Give(r, k)
  <2>1. /\ ledger'[t] = issuedRow /\ \A u \in Sigs : u # t => ledger'[u] = ledger[u]
        /\ ledger' \in [Sigs -> Rows]
    <3>1. issuedRow \in Rows
      BY <1>1 DEF Rows
    <3> QED BY <1>1, <1>3, <3>1 DEF TypeOK
  <2>2. pc'[r] = "idle" /\ \A s \in Threads : s # r => pc'[s] = pc[s] /\ job'[s] = job[s]
    BY <1>1 DEF TypeOK
  <2>3. given' = given \cup {<<t, job[r].ref, k>>}
    BY <1>3 DEF Give
  <2>4. TypeOK'
    BY <1>1, <1>3, <2>1, <2>3, RedeemAssumption DEF TypeOK, Steps
  <2>5. \A s \in Threads : s # r /\ Redeeming(s) => job[s].sig # t
    BY <1>1 DEF ClaimIsExclusive, Redeeming
  <2>6. JobsAreSet' /\ ClaimIsExclusive'
    BY <2>1, <2>2, <2>5 DEF JobsAreSet, ClaimIsExclusive, Redeeming
  <2>7. ReferenceUnique' /\ ClaimVerified'
    <3>1. ReferenceUnique'
      BY <1>1, <2>1 DEF ReferenceUnique
    <3>2. \A s \in Threads : pc'[s] = "claim" \/ Redeeming(s)' =>
            job'[s].sig \in final' /\ Satisfies(job'[s].sig, job'[s].ref)
      BY <1>1, <2>2 DEF ClaimVerified, Redeeming
    <3>3. \A u \in Sigs : ledger'[u].status # "none" =>
            u \in final' /\ Satisfies(u, ledger'[u].ref)
      BY <1>1, <2>1 DEF ClaimVerified
    <3> QED BY <3>1, <3>2, <3>3 DEF ClaimVerified, Satisfies
  <2>8. KeyPlaced'
    BY <1>1, <2>1, <2>2, RedeemAssumption DEF KeyPlaced, Credit
  <2>9. GivenIsIssued'
    <3>1. ASSUME NEW g \in given PROVE g[1] \in Sigs /\ ledger[g[1]].status = "issued"
      <4>1. ledger[g[1]] = [status |-> "issued", ref |-> g[2], key |-> g[3]]
        BY DEF GivenIsIssued
      <4> QED BY <4>1 DEF TypeOK
    <3>2. ASSUME NEW g \in given'
          PROVE  ledger'[g[1]] = [status |-> "issued", ref |-> g[2], key |-> g[3]]
      <4>1. CASE g \in given
        BY <1>1, <2>1, <3>1, <4>1 DEF GivenIsIssued
      <4>2. CASE g = <<t, job[r].ref, k>>
        BY <2>1, <4>2
      <4> QED BY <2>3, <3>2, <4>1, <4>2
    <3> QED BY <3>2 DEF GivenIsIssued
  <2> QED BY <2>4, <2>6, <2>7, <2>8, <2>9
<1> QED BY <1>2, <1>3 DEF Record

(* The chain only adds, age is only read, and a restart forgets threads but   *)
(* no row and no key.  (Code: getTransaction at finalized, _prior, the       *)
(* process around redeem.)                                                  *)
LEMMA WorldKeepsIInv ==
  ASSUME IInv, Restart \/ \E t \in Sigs : Finalize(t) \/ Age(t)
  PROVE  IInv'
<1> USE DEF IInv, storeVars
<1>1. CASE Restart
  <2>1. TypeOK'
    BY <1>1 DEF Restart, TypeOK, Steps, Jobs, NoJob, Told
  <2>2. JobsAreSet' /\ ClaimIsExclusive' /\ ReferenceUnique'
    BY <1>1 DEF Restart, JobsAreSet, ClaimIsExclusive, Redeeming, ReferenceUnique
  <2>3. ClaimVerified' /\ KeyPlaced' /\ GivenIsIssued'
    BY <1>1 DEF Restart, ClaimVerified, Redeeming, Satisfies, KeyPlaced, Credit, GivenIsIssued
  <2> QED BY <2>1, <2>2, <2>3
<1>2. ASSUME NEW t \in Sigs, Finalize(t) \/ Age(t)
      PROVE  IInv'
  <2>1. /\ final \subseteq final' /\ final' \subseteq Sigs /\ old' \subseteq Sigs
        /\ told' = "nothing" /\ UNCHANGED <<ledger, worth, pc, job, given, epoch>>
    BY <1>2 DEF Finalize, Age, TypeOK
  <2>2. TypeOK'
    BY <2>1 DEF TypeOK, Told
  <2>3. JobsAreSet' /\ ClaimIsExclusive' /\ ReferenceUnique'
    BY <2>1 DEF JobsAreSet, ClaimIsExclusive, Redeeming, ReferenceUnique
  <2>4. ClaimVerified' /\ KeyPlaced' /\ GivenIsIssued'
    BY <2>1 DEF ClaimVerified, Redeeming, Satisfies, KeyPlaced, Credit, GivenIsIssued
  <2> QED BY <2>2, <2>3, <2>4
<1> QED BY <1>1, <1>2

-----------------------------------------------------------------------------
(* The invariant is inductive: no step of a thread, of the chain, of time or  *)
(* of a restart leaves it.                                                  *)
LEMMA StepIInv == IInv /\ [Next]_vars => IInv'
<1> SUFFICES ASSUME IInv, [Next]_vars PROVE IInv'
  OBVIOUS
<1>1. ASSUME NEW r \in Threads, Redeem(r) \/ Look(r) \/ ReadChain(r) PROVE IInv'
  BY <1>1, BeforeClaimKeepsIInv
<1>2. ASSUME NEW r \in Threads, Claim(r) PROVE IInv'
  BY <1>2, ClaimKeepsIInv
<1>3. ASSUME NEW r \in Threads, Mint(r) PROVE IInv'
  BY <1>3, MintKeepsIInv
<1>4. ASSUME NEW r \in Threads, Undo(r) PROVE IInv'
  BY <1>4, UndoKeepsIInv
<1>5. ASSUME NEW r \in Threads, Record(r) PROVE IInv'
  BY <1>5, RecordKeepsIInv
<1>6. CASE Restart \/ \E t \in Sigs : Finalize(t) \/ Age(t)
  BY <1>6, WorldKeepsIInv
<1>7. CASE UNCHANGED vars
  BY <1>7 DEF vars, storeVars, IInv, TypeOK, JobsAreSet, ClaimIsExclusive, Redeeming,
              ReferenceUnique, ClaimVerified, Satisfies, KeyPlaced, Credit, GivenIsIssued
<1> QED
  BY <1>1, <1>2, <1>3, <1>4, <1>5, <1>6, <1>7 DEF Next, ThreadStep

(* The inductive invariant holds of every reachable state of the rail.       *)
THEOREM Invariant == Spec => []IInv
<1> QED BY InitIInv, StepIInv, PTL DEF Spec

(* The rail's tables, threads and answers only ever hold values of their      *)
(* kinds: a row has a reference once claimed and a key exactly when issued.  *)
THEOREM TypeCorrect == Spec => []TypeOK
<1>1. IInv => TypeOK
  BY DEF IInv
<1> QED BY <1>1, Invariant, PTL

(* However many threads redeem one payment, and whatever dies between, only   *)
(* one of them is between the insert of its row and the end of redeem.      *)
THEOREM ClaimsExclude == Spec => []ClaimIsExclusive
<1>1. IInv => ClaimIsExclusive
  BY DEF IInv
<1> QED BY <1>1, Invariant, PTL

(* One payment has one key, one challenge one payment, one key one payment,   *)
(* over any number of retries, races and restarts of redeem.                *)
THEOREM PaymentHasOneKey == Spec => []OneKeyPerPayment
<1>1. ASSUME IInv, NEW g \in given, NEW h \in given
      PROVE  /\ g[1] = h[1] => g = h
             /\ g[2] = h[2] => g = h
             /\ g[3] = h[3] => g = h
  <2>1. /\ g[1] \in Sigs /\ g[2] \in Refs /\ g[3] \in Keys /\ g = <<g[1], g[2], g[3]>>
        /\ h[1] \in Sigs /\ h[2] \in Refs /\ h[3] \in Keys /\ h = <<h[1], h[2], h[3]>>
    BY <1>1 DEF IInv, TypeOK
  <2>2. /\ ledger[g[1]] = [status |-> "issued", ref |-> g[2], key |-> g[3]]
        /\ ledger[h[1]] = [status |-> "issued", ref |-> h[2], key |-> h[3]]
    BY <1>1 DEF IInv, GivenIsIssued
  <2>3. /\ ledger[g[1]].ref = g[2] /\ ledger[g[1]].key = g[3]
        /\ ledger[h[1]].ref = h[2] /\ ledger[h[1]].key = h[3]
    BY <2>2
  <2>4. g[1] = h[1] => g = h
    BY <2>1, <2>3
  <2>5. g[2] = h[2] => g[1] = h[1]
    BY <1>1, <2>1, <2>3, RedeemAssumption DEF IInv, ReferenceUnique
  <2>6. g[3] = h[3] => g[1] = h[1]
    BY <1>1, <2>1, <2>3, RedeemAssumption DEF IInv, KeyPlaced
  <2> QED BY <2>4, <2>5, <2>6
<1>2. IInv => OneKeyPerPayment
  BY <1>1 DEF OneKeyPerPayment
<1> QED BY <1>2, Invariant, PTL

(* A key given out was paid for by a finalized transfer that satisfies its    *)
(* challenge, and carries the whole cents that arrived.                     *)
THEOREM KeyWasPaid == Spec => []KeyBacksPayment
<1>1. ASSUME IInv, NEW g \in given
      PROVE  /\ g[1] \in final /\ Satisfies(g[1], g[2])
             /\ worth[g[3]] = Credit(g[1])
  <2>1. g[1] \in Sigs
    BY <1>1 DEF IInv, TypeOK
  <2>2. ledger[g[1]] = [status |-> "issued", ref |-> g[2], key |-> g[3]]
    BY <1>1 DEF IInv, GivenIsIssued
  <2>3. ledger[g[1]].status = "issued" /\ ledger[g[1]].ref = g[2] /\ ledger[g[1]].key = g[3]
    BY <2>2
  <2> QED BY <1>1, <2>1, <2>3 DEF IInv, ClaimVerified, KeyPlaced
<1>2. IInv => KeyBacksPayment
  BY <1>1 DEF KeyBacksPayment
<1> QED BY <1>2, Invariant, PTL

(* No step, of any thread or of a restart, changes an issued row: the payer   *)
(* whose answer was lost is given the same key by the same signature.       *)
THEOREM IssuedRowStays == Spec => IssuedIsFinal
<1>1. ASSUME IInv, [Next]_vars, NEW t \in Sigs, ledger[t].status = "issued"
      PROVE  ledger'[t] = ledger[t]
  <2>1. ASSUME NEW r \in Threads, Claim(r) PROVE ledger'[t] = ledger[t]
    BY <1>1, <2>1 DEF Claim, Unused, Insert, IInv, TypeOK
  <2>2. ASSUME NEW r \in Threads, Undo(r) PROVE ledger'[t] = ledger[t]
    BY <1>1, <2>2 DEF Undo, IInv, TypeOK
  <2>3. ASSUME NEW r \in Threads, Record(r) PROVE ledger'[t] = ledger[t]
    <3>1. ledger[job[r].sig].status = "claimed"
      BY <2>3 , <1>1 DEF Record, IInv, ClaimIsExclusive, Redeeming
    <3> QED BY <1>1, <2>3, <3>1 DEF Record, IInv, TypeOK
  <2>4. ASSUME NEW r \in Threads, Redeem(r) \/ Look(r) \/ ReadChain(r) \/ Mint(r)
        PROVE  ledger'[t] = ledger[t]
    BY <2>4 DEF Redeem, Look, ReadChain, Mint, storeVars
  <2>5. CASE Restart \/ \E u \in Sigs : Finalize(u) \/ Age(u)
    BY <2>5 DEF Restart, Finalize, Age, storeVars
  <2>6. CASE UNCHANGED vars
    BY <2>6 DEF vars, storeVars
  <2> QED BY <1>1, <2>1, <2>2, <2>3, <2>4, <2>5, <2>6 DEF Next, ThreadStep
<1>2. IInv /\ [Next]_vars =>
        [\A t \in Sigs : ledger[t].status = "issued" => ledger'[t] = ledger[t]]_vars
  BY <1>1
<1> QED BY <1>2, Invariant, PTL DEF Spec, IssuedIsFinal

(* A thread between the claim and its end goes on with its payment, or ends   *)
(* the claim with it, unless the ledger failed.  (Code: redeem.)              *)
LEMMA RedeemingGoesOn ==
  ASSUME IInv, NEW r \in Threads, Redeeming(r), ThreadStep(r), told' # "internal_error"
  PROVE  \/ Redeeming(r)' /\ job'[r].sig = job[r].sig
         \/ ledger'[job[r].sig].status # "claimed"
<1> DEFINE t == job[r].sig
<1>1. t \in Sigs /\ ledger[t].status = "claimed" /\ r \in DOMAIN job
  BY DEF IInv, TypeOK, JobsAreSet, ClaimIsExclusive, Redeeming
<1>2. CASE Mint(r)
  BY <1>1, <1>2 DEF Mint, Goto, Move, Redeeming, IInv, TypeOK, Jobs
<1>3. CASE Undo(r)
  BY <1>1, <1>3 DEF Undo, InternalError, Refuse, Reply, NoRow, IInv, TypeOK
<1>4. CASE Record(r)
  BY <1>1, <1>4 DEF Record, InternalError, Refuse, Reply, IInv, TypeOK
<1> QED
  BY <1>2, <1>3, <1>4 DEF ThreadStep, Look, ReadChain, Claim, Redeeming

(* A thread's step leaves the place and the payment of the others alone.      *)
LEMMA OthersStay ==
  ASSUME IInv, NEW r \in Threads, Redeem(r) \/ ThreadStep(r), NEW s \in Threads, s # r
  PROVE  pc'[s] = pc[s] /\ job'[s] = job[s]
BY DEF Redeem, ThreadStep, Look, ReadChain, Claim, Mint, Undo, Record, AnswerPrior, Give,
       Refuse, Reply, InternalError, Goto, Move, IInv, TypeOK

(* A payment's row becomes claimed only in the step of a thread that goes on  *)
(* with it.  (Code: redeem.)                                                  *)
LEMMA ClaimHasItsThread ==
  ASSUME IInv, NEW r \in Threads, Redeem(r) \/ ThreadStep(r), NEW t \in Sigs,
         ledger[t].status # "claimed", ledger'[t].status = "claimed"
  PROVE  Redeeming(r)' /\ job'[r].sig = t
<1>1. CASE Claim(r)
  BY <1>1 DEF Claim, Insert, Goto, Move, Redeeming, IInv, TypeOK
<1>2. CASE Undo(r)
  BY <1>2 DEF Undo, NoRow, IInv, TypeOK
<1>3. CASE Record(r)
  BY <1>3 DEF Record, IInv, TypeOK
<1>4. CASE Redeem(r) \/ Look(r) \/ ReadChain(r) \/ Mint(r)
  BY <1>4 DEF Redeem, Look, ReadChain, Mint, storeVars
<1> QED
  BY <1>1, <1>2, <1>3, <1>4 DEF ThreadStep

(* A claim is left behind, with no thread at work on it, only by a step in    *)
(* which the process died or the ledger failed under redeem: the safety half  *)
(* of RedemptionsEnd, for any number of threads, payments and restarts.       *)
THEOREM ClaimIsLeftByFailure == Spec => StrandedOnlyByFailure
<1>1. ASSUME IInv, Next, NEW t \in Sigs, ~Stranded(t), Stranded(t)'
      PROVE  epoch' # epoch \/ told' = "internal_error"
  <2>1. ledger'[t].status = "claimed"
        /\ \A r \in Threads : ~(Redeeming(r)' /\ job'[r].sig = t)
    BY <1>1 DEF Stranded
  <2>2. ASSUME NEW r \in Threads, Redeem(r) \/ ThreadStep(r), told' # "internal_error"
        PROVE  FALSE
    <3>1. ledger[t].status = "claimed"
      BY <1>1, <2>1, <2>2, ClaimHasItsThread
    <3>2. PICK s \in Threads : Redeeming(s) /\ job[s].sig = t
      BY <1>1, <3>1 DEF Stranded
    <3>3. s = r
      BY <1>1, <2>1, <2>2, <3>2, OthersStay DEF Redeeming
    <3>4. ThreadStep(r)
      BY <2>2, <3>2, <3>3 DEF Redeem, Redeeming
    <3> QED
      BY <1>1, <2>1, <2>2, <3>2, <3>3, <3>4, RedeemingGoesOn
  <2>3. CASE \E u \in Sigs : Finalize(u) \/ Age(u)
    BY <1>1, <2>1, <2>3 DEF Finalize, Age, storeVars, Stranded, Redeeming
  <2>4. CASE Restart
    BY <1>1, <2>4 DEF Restart, IInv, TypeOK
  <2> QED
    BY <1>1, <2>2, <2>3, <2>4 DEF Next
<1>2. ASSUME IInv, UNCHANGED vars, NEW t \in Sigs
      PROVE  Stranded(t)' <=> Stranded(t)
  BY <1>2 DEF vars, storeVars, Stranded, Redeeming
<1>3. IInv /\ [Next]_vars =>
        [\A t \in Sigs : ~Stranded(t) /\ Stranded(t)' =>
           epoch' # epoch \/ told' = "internal_error"]_vars
  BY <1>1, <1>2
<1> QED BY <1>3, Invariant, PTL DEF Spec, StrandedOnlyByFailure

=============================================================================
