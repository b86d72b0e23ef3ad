----------------------------- MODULE WorkerServe -----------------------------
(***************************************************************************)
(* One paid worker job, from the gate to the reply (app/workers/router.py, *)
(* serve), over the SQLite ledger of app/workers/ledger.py: idempotency    *)
(* rows (worker_results) and receipts (worker_calls).  A retry is another  *)
(* call with the same Idempotency-Key.                                     *)
(*                                                                         *)
(* A call is one request.  Its coroutine runs on the event loop, its       *)
(* authorization, claim and billing on executor threads; a step is one     *)
(* ledger transaction, one outside call or the code up to the next of      *)
(* them.  Every function of the ledger swallows its own errors, so each    *)
(* write may be lost.  The payment gate is PaymentGate's subject: here it  *)
(* grants a call on a rail.                                                *)
(***************************************************************************)
EXTENDS Integers, FiniteSets

CONSTANTS
  Calls,        \* requests to POST /work/<worker>
  Keys,         \* Idempotency-Key values
  Requests,     \* what a caller may send: rail and key
  Slots,        \* MAX_CONCURRENT_WORKERS
  MaxFaults,    \* bound: calls the ledger fails at least once
  MaxCrashes,   \* bound: crashes of the process in a behaviour
  None          \* Python's None

\* "prepaid" stands for what is taken at the gate without naming a payer,
\* "hash" for an MPP transfer whose payer is known, "evm" and "svm" for
\* x402 payments that settle after the work; "svm" names its payer only in
\* the facilitator's answer.
Rails == {"prepaid", "hash", "evm", "svm"}
AtGate == {"prepaid", "hash"}

RequestType == [rail : Rails, key : Keys \cup {None}]

ASSUME ServeAssumption ==
  /\ Requests \subseteq RequestType
  /\ None \notin Keys \cup Calls
  /\ Slots \in Nat \ {0} /\ MaxFaults \in Nat /\ MaxCrashes \in Nat

VARIABLES
  results,  \* worker_results: state, call_id and stored body of each key
  rows,     \* worker_calls: status and settled flag of each call_id
  pc,       \* where each call is
  req,      \* what it sent
  claimed,  \* it holds the claim on its key
  outcome,  \* how its work and its settlement ended
  money,    \* what became of its payment
  answer,   \* what its caller was answered
  source,   \* the call whose stored result a replay returned
  faulted,  \* history: calls for which a ledger function failed
  crashes,  \* crashes so far
  forgot    \* history: calls whose rows went with a ledger in memory

ledgerVars == <<results, rows>>
callVars   == <<pc, req, claimed, outcome, money, answer, source>>
vars       == <<ledgerVars, callVars, faulted, crashes, forgot>>

Steps    == {"idle", "claim", "open", "queue", "run", "close_failed", "release",
             "unwind", "bill", "close", "store", "reply", "done"}
Outcomes == {"none", "invalid", "failed", "delivered", "settled", "open", "refused"}
Monies   == {"none", "held", "back", "open", "moved"}
Answers  == {"none", "rejected", "replay", "in_progress", "invalid", "failed",
             "delivered", "withheld", "lost"}

NoResult == [state |-> "absent", call |-> None, body |-> None]
NoRow    == [status |-> "absent", settled |-> FALSE]

ResultType == [state : {"absent", "running", "done"},
               call : Calls \cup {None}, body : Calls \cup {None}]
RowType == [status : {"absent", "running", "failed", "ok", "refused"},
            settled : BOOLEAN]

Init ==
  /\ results = [k \in Keys |-> NoResult]
  /\ rows = [c \in Calls |-> NoRow]
  /\ pc = [c \in Calls |-> "idle"]
  /\ req = [c \in Calls |-> [rail |-> "evm", key |-> None]]
  /\ claimed = [c \in Calls |-> FALSE]
  /\ outcome = [c \in Calls |-> "none"]
  /\ money = [c \in Calls |-> "none"]
  /\ answer = [c \in Calls |-> "none"]
  /\ source = [c \in Calls |-> None]
  /\ faulted = {} /\ crashes = 0 /\ forgot = {}

-----------------------------------------------------------------------------
Goto(c, step) == pc' = [pc EXCEPT ![c] = step]

Answer(c, kind) == Goto(c, "done") /\ answer' = [answer EXCEPT ![c] = kind]

\* A ledger function caught its exception and returned as if nothing was.
LedgerFault(c) ==
  /\ Cardinality(faulted \cup {c}) <= MaxFaults
  /\ faulted' = faulted \cup {c}

\* One write of the ledger: made, or lost in an exception.
Write(c, made, kept) == (made /\ UNCHANGED faulted) \/ (kept /\ LedgerFault(c))

\* Availability, required fields and precheck answer before the gate; the
\* gate takes prepaid cents and credentials, and only verifies x402.
Authorize(c) ==
  /\ pc[c] = "idle"
  /\ \E r \in Requests : req' = [req EXCEPT ![c] = r]
  /\ \/ Answer(c, "rejected") /\ UNCHANGED money
     \/ /\ Goto(c, "claim") /\ UNCHANGED answer
        /\ money' = [money EXCEPT ![c] =
                       IF req'[c].rail \in AtGate THEN "held" ELSE @]
  /\ UNCHANGED <<ledgerVars, claimed, outcome, source, faulted, crashes, forgot>>

\* Variant: only a finished job holds its key, a running one does not.
FreeWhileRunning(k) == results[k].state # "done"

\* claim_idempotency inserts its row only where there is none.
Free(k) == results[k].state = "absent"

\* claim_idempotency, one BEGIN IMMEDIATE transaction, and the answers serve
\* gives at once: the stored result, 409 while the job runs.  A ledger that
\* cannot answer lets the job run unclaimed.
ClaimKey(c) ==
  LET k == req[c].key IN
  /\ pc[c] = "claim"
  /\ \/ /\ IF k = None THEN UNCHANGED faulted ELSE LedgerFault(c)
        /\ Goto(c, "open")
        /\ UNCHANGED <<results, claimed, answer, source>>
     \/ /\ k # None
        /\ IF Free(k)
             THEN /\ results' = [results EXCEPT ![k] =
                       [state |-> "running", call |-> c, body |-> None]]
                  /\ claimed' = [claimed EXCEPT ![c] = TRUE]
                  /\ Goto(c, "open") /\ UNCHANGED <<answer, source>>
             ELSE /\ IF results[k].state = "done"
                       THEN /\ Answer(c, "replay")
                            /\ source' = [source EXCEPT ![c] = results[k].body]
                       ELSE Answer(c, "in_progress") /\ UNCHANGED source
                  /\ UNCHANGED <<results, claimed>>
        /\ UNCHANGED faulted
  /\ UNCHANGED <<rows, req, outcome, money, crashes, forgot>>

\* open_call: INSERT OR REPLACE under a unique index on the key, so the row
\* of an earlier call with this key goes.
OpenCall(c) ==
  LET earlier == {d \in Calls : req[c].key # None /\ req[d].key = req[c].key} IN
  /\ pc[c] = "open"
  /\ Goto(c, "queue")
  /\ Write(c, rows' = [d \in Calls |->
                 IF d = c THEN [status |-> "running", settled |-> FALSE]
                 ELSE IF d \in earlier THEN NoRow ELSE rows[d]],
              UNCHANGED rows)
  /\ UNCHANGED <<results, req, claimed, outcome, money, answer, source,
                 crashes, forgot>>

Running == {c \in Calls : pc[c] = "run"}

\* Variant: the place of a failed job is not given back.
StartLeaky(c) ==
  /\ pc[c] = "queue"
  /\ Cardinality(Running \cup {d \in Calls : outcome[d] \in {"invalid", "failed"}}) < Slots
  /\ Goto(c, "run")
  /\ UNCHANGED <<ledgerVars, req, claimed, outcome, money, answer, source,
                 faulted, crashes, forgot>>

\* Variant: a job starts once its payment has been taken.
StartCharged(c) ==
  /\ pc[c] = "queue" /\ Cardinality(Running) < Slots
  /\ Goto(c, "run")
  /\ money' = [money EXCEPT ![c] = IF @ = "none" THEN "moved" ELSE @]
  /\ UNCHANGED <<ledgerVars, req, claimed, outcome, answer, source, faulted,
                 crashes, forgot>>

\* async with _semaphore.
Start(c) ==
  /\ pc[c] = "queue" /\ Cardinality(Running) < Slots
  /\ Goto(c, "run")
  /\ UNCHANGED <<ledgerVars, req, claimed, outcome, money, answer, source,
                 faulted, crashes, forgot>>

\* _run_job returns, or raises: InvalidRequest, or anything else.
RunJob(c) ==
  /\ pc[c] = "run"
  /\ \/ Goto(c, "bill") /\ UNCHANGED outcome
     \/ /\ Goto(c, "close_failed")
        /\ \E o \in {"invalid", "failed"} : outcome' = [outcome EXCEPT ![c] = o]
  /\ UNCHANGED <<ledgerVars, req, claimed, money, answer, source, faulted,
                 crashes, forgot>>

\* close_call: an UPDATE of the call's row, if it is still there.
CloseRow(c, status, settled) ==
  rows' = [rows EXCEPT ![c] =
             IF @.status = "absent" THEN @
             ELSE [status |-> status, settled |-> settled]]

CloseFailed(c) ==
  /\ pc[c] = "close_failed"
  /\ Goto(c, "release")
  /\ Write(c, CloseRow(c, "failed", FALSE), UNCHANGED rows)
  /\ UNCHANGED <<results, req, claimed, outcome, money, answer, source,
                 crashes, forgot>>

\* release_idempotency drops the row of the key, whoever put it there.
Delete(k) == results' = [results EXCEPT ![k] = NoResult]

\* Variant: a failed job forgets its claim.
ReleaseKeyNever(c) ==
  /\ pc[c] = "release"
  /\ Goto(c, "unwind")
  /\ UNCHANGED <<ledgerVars, req, claimed, outcome, money, answer, source,
                 faulted, crashes, forgot>>

\* Variant: the key is released without asking who claimed it.
ReleaseKeyOfAnyone(c) ==
  /\ pc[c] = "release"
  /\ Goto(c, "unwind")
  /\ IF req[c].key # None
       THEN Write(c, Delete(req[c].key), UNCHANGED results)
       ELSE UNCHANGED <<results, faulted>>
  /\ UNCHANGED <<rows, req, claimed, outcome, money, answer, source,
                 crashes, forgot>>

\* The job failed: a claim is given up, so the caller may retry the key.
ReleaseKey(c) ==
  /\ pc[c] = "release"
  /\ Goto(c, "unwind")
  /\ IF claimed[c]
       THEN Write(c, Delete(req[c].key), UNCHANGED results)
       ELSE UNCHANGED <<results, faulted>>
  /\ UNCHANGED <<rows, req, claimed, outcome, money, answer, source,
                 crashes, forgot>>

\* InvalidRequest is answered 400 as it stands; every other failure goes
\* through _failed, which gives back what the gate took unless the key store
\* fails (Unbill of PaymentGate).
Unwind(c) ==
  /\ pc[c] = "unwind"
  /\ Answer(c, outcome[c])
  /\ \/ /\ outcome[c] = "failed" /\ money[c] = "held"
        /\ money' = [money EXCEPT ![c] = "back"]
     \/ UNCHANGED money
  /\ UNCHANGED <<ledgerVars, req, claimed, outcome, source, faulted,
                 crashes, forgot>>

\* _bill: an x402 payment is settled now and ends settled, in doubt or
\* refused; an error read as a refusal may leave it in doubt all the same
\* (SettlePayment of PaymentGate).  What the gate took stays taken.
Bill(c) ==
  LET Ends(o, m) == /\ outcome' = [outcome EXCEPT ![c] = o]
                    /\ money' = [money EXCEPT ![c] = m]
  IN
  /\ pc[c] = "bill"
  /\ Goto(c, "close")
  /\ IF req[c].rail \in AtGate
       THEN Ends("delivered", "held")
       ELSE \/ Ends("settled", "moved") \/ Ends("open", "open")
            \/ \E m \in {"none", "open"} : Ends("refused", m)
  /\ UNCHANGED <<ledgerVars, req, claimed, answer, source, faulted,
                 crashes, forgot>>

\* _payer_of after _bill: in an EVM authorization from the start; of a hash in
\* the facts its verification left, unless that table was cleared; of a Solana
\* payment in the facilitator's answer, if there was one.
PayerKnown(c, named) ==
  req[c].rail = "evm" \/ (req[c].rail \in {"hash", "svm"} /\ named)

\* serve closes the row: refused, or ok and settled when the facilitator said
\* so or the payer is known.
CloseCall(c) ==
  /\ pc[c] = "close"
  /\ Goto(c, "store")
  /\ \E named \in BOOLEAN :
       LET refused == outcome[c] = "refused"
           settled == ~refused /\ (outcome[c] = "settled" \/ PayerKnown(c, named))
       IN Write(c, CloseRow(c, IF refused THEN "refused" ELSE "ok", settled),
                   UNCHANGED rows)
  /\ UNCHANGED <<results, req, claimed, outcome, money, answer, source,
                 crashes, forgot>>

\* complete_idempotency: the delivered body, under the row's own call_id.
StoreBody(k, c) ==
  results' = [results EXCEPT ![k] =
                [state |-> "done", call |-> results[k].call, body |-> c]]

\* Variant: a refused delivery is stored under its key.
StoreResultRefused(c) ==
  /\ pc[c] = "store"
  /\ Goto(c, "reply")
  /\ IF claimed[c]
       THEN Write(c, StoreBody(req[c].key, c),
                     UNCHANGED results)
       ELSE UNCHANGED <<results, faulted>>
  /\ UNCHANGED <<rows, req, claimed, outcome, money, answer, source,
                 crashes, forgot>>

\* Variant: the claim is given up once the result is delivered.
StoreResultReleases(c) ==
  /\ pc[c] = "store"
  /\ Goto(c, "reply")
  /\ IF claimed[c]
       THEN Write(c, Delete(req[c].key), UNCHANGED results)
       ELSE UNCHANGED <<results, faulted>>
  /\ UNCHANGED <<rows, req, claimed, outcome, money, answer, source,
                 crashes, forgot>>

\* The call that claimed the key stores its result, or gives the claim up when
\* its payment was refused.
StoreResult(c) ==
  LET k == req[c].key IN
  /\ pc[c] = "store"
  /\ Goto(c, "reply")
  /\ IF claimed[c]
       THEN Write(c, IF outcome[c] = "refused" THEN Delete(k)
                     ELSE StoreBody(k, c),
                     UNCHANGED results)
       ELSE UNCHANGED <<results, faulted>>
  /\ UNCHANGED <<rows, req, claimed, outcome, money, answer, source,
                 crashes, forgot>>

\* serve returns: the result, or the 402 that _deliver made of a refusal.
Reply(c) ==
  /\ pc[c] = "reply"
  /\ Answer(c, IF outcome[c] = "refused" THEN "withheld" ELSE "delivered")
  /\ UNCHANGED <<ledgerVars, req, claimed, outcome, money, source, faulted,
                 crashes, forgot>>

\* A settlement in doubt moves the money after all, or never will.
TransferEnds(c) ==
  /\ money[c] = "open"
  /\ \E m \in {"moved", "none"} : money' = [money EXCEPT ![c] = m]
  /\ UNCHANGED <<ledgerVars, pc, req, claimed, outcome, answer, source, faulted,
                 crashes, forgot>>

\* The process dies under its calls.
Die ==
  LET dead == {c \in Calls : pc[c] \notin {"idle", "done"}} IN
  /\ crashes < MaxCrashes /\ crashes' = crashes + 1
  /\ pc' = [c \in Calls |-> IF c \in dead THEN "done" ELSE pc[c]]
  /\ answer' = [c \in Calls |-> IF c \in dead THEN "lost" ELSE answer[c]]
  /\ UNCHANGED <<req, outcome, money, source, faulted>>

\* A ledger on file stays.
Crash == Die /\ UNCHANGED <<ledgerVars, claimed, forgot>>

\* A ledger that had fallen back to memory goes with the process, and with it
\* every claim, stored result and receipt of the calls so far.
CrashInMemory ==
  /\ Die
  /\ results' = [k \in Keys |-> NoResult] /\ rows' = [c \in Calls |-> NoRow]
  /\ claimed' = [c \in Calls |-> FALSE]
  /\ forgot' = forgot \cup {c \in Calls : pc[c] # "idle"}

CallStep(c) ==
  \/ ClaimKey(c) \/ OpenCall(c) \/ Start(c) \/ RunJob(c)
  \/ CloseFailed(c) \/ ReleaseKey(c) \/ Unwind(c)
  \/ Bill(c) \/ CloseCall(c) \/ StoreResult(c) \/ Reply(c)

Next ==
  \/ \E c \in Calls : Authorize(c) \/ CallStep(c) \/ TransferEnds(c)
  \/ Crash \/ CrashInMemory

Spec == Init /\ [][Next]_vars

\* Skills run under JobContext's deadline and ledger and facilitator calls
\* under timeouts, so a call that can take its next step takes it.
FairSpec == Spec /\ \A c \in Calls : WF_vars(CallStep(c))

-----------------------------------------------------------------------------
(* Properties *)

\* The stored rows are of their kinds: a key's row names its claimant, and
\* holds a body exactly when it is done; a replay names its source.
TypeOK ==
  /\ results \in [Keys -> ResultType] /\ rows \in [Calls -> RowType]
  /\ pc \in [Calls -> Steps] /\ req \in [Calls -> RequestType]
  /\ claimed \in [Calls -> BOOLEAN] /\ outcome \in [Calls -> Outcomes]
  /\ money \in [Calls -> Monies] /\ answer \in [Calls -> Answers]
  /\ source \in [Calls -> Calls \cup {None}]
  /\ faulted \subseteq Calls /\ crashes \in Nat /\ forgot \subseteq Calls
  /\ \A k \in Keys : /\ results[k].call = None <=> results[k].state = "absent"
                     /\ results[k].body # None <=> results[k].state = "done"
  /\ \A c \in Calls : source[c] # None <=> answer[c] = "replay"

\* The work of c gave a result, and its settlement was not refused.
Served(c) == outcome[c] \in {"delivered", "settled", "open"}

\* Calls that hold the claim on key k or were served under it.
HoldersOf(k) ==
  {c \in Calls :
     /\ claimed[c] /\ req[c].key = k
     /\ \/ Served(c)
        \/ pc[c] \in {"open", "queue", "run", "close_failed", "release", "bill",
                     "close", "store"}}

\* "Two valid payments for one piece of work" cannot happen under one
\* Idempotency-Key: at most one call holds a key's claim or was served under
\* it, whatever retries overlap, fail, are refused or die.  A call the ledger
\* could not answer holds no claim, and none outlives a ledger in memory.
OneJobPerKey == \A k \in Keys : \A c, d \in HoldersOf(k) : c = d

\* A replay returns what another call with the same key was served; never the
\* body of a failed or refused job.
ReplayIsDelivered ==
  \A c \in Calls : answer[c] = "replay" =>
    LET d == source[c] IN
    /\ d # c /\ Served(d) /\ req[d].key = req[c].key
    /\ claimed[d] \/ d \in forgot

\* "Only now, with a real result in hand, is anything charged": an x402
\* payment moves, or is left in doubt, only for a call whose work gave a result,
\* and for a served call if the facilitator said so; the payment of a call that
\* was replayed, told to wait or failed is dropped.
ChargedForWork ==
  \A c \in Calls :
    /\ money[c] \in {"moved", "open"} => Served(c) \/ outcome[c] = "refused"
    /\ answer[c] \in {"rejected", "replay", "in_progress", "invalid", "failed"} =>
         money[c] \notin {"moved", "open"}

\* No key is poisoned by a failure of the job: a key answers 409 only while
\* the call that claimed it has the claim to give up or to fulfil, or when
\* that call died or the ledger failed it.
BusyKeyHasItsCall ==
  \A k \in Keys : results[k].state = "running" =>
    LET c == results[k].call IN
    /\ claimed[c] /\ req[c].key = k
    /\ \/ pc[c] \notin {"unwind", "reply", "done"}
       \/ answer[c] = "lost" \/ c \in faulted

\* The facilitator settled, or a hash whose transfer was verified paid.
WasSettled(c) ==
  \/ outcome[c] = "settled" /\ money[c] = "moved"
  \/ req[c].rail = "hash" /\ money[c] = "held"

\* "Settled means the facilitator settled": a receipt that says paid is of a
\* payment that was settled.  serve also calls settled what was left in doubt
\* and whose payer it knows, an EVM payment's from the start: the transfer may
\* end as never made.
PaidMeansSettled == \A c \in Calls : rows[c].settled => WasSettled(c)

\* "The receipt can never describe a delivery the caller did not get": ok
\* means the result was on its way out, refused and failed that it was not; a
\* settlement that was answered is told as it was answered, paid or not.  Paid
\* beyond that is only what PaidMeansSettled denies, a payment left in doubt.
\* Only a crash keeps an ok result from its caller.
ReceiptIsTrue ==
  \A c \in Calls :
    /\ rows[c].status = "ok" =>
         /\ Served(c) /\ answer[c] \in {"none", "delivered", "lost"}
         /\ outcome[c] = "settled" => rows[c].settled
    /\ rows[c].status = "refused" => outcome[c] = "refused" /\ ~rows[c].settled
    /\ rows[c].status = "failed" => ~Served(c) /\ money[c] \in {"none", "held", "back"}
    /\ rows[c].settled =>
         rows[c].status = "ok" /\ (WasSettled(c) \/ outcome[c] = "open")

\* A receipt that was handed out can be fetched: the row a delivery or a
\* replay points to stands, unless the ledger failed that call, or was lost with
\* the process, or failed the claim of a later call with its key.
ReceiptStands ==
  \A c \in Calls : answer[c] \in {"delivered", "replay"} =>
    LET d == IF answer[c] = "replay" THEN source[c] ELSE c IN
    \/ rows[d].status = "ok"
    \/ d \in faulted \cup forgot
    \/ \E e \in faulted \ {d} : req[e].key = req[d].key /\ ~claimed[e]

\* A receipt is true when it is written and stays to be fetched (close_call,
\* get_call).
ReceiptsHold == ReceiptIsTrue /\ ReceiptStands

\* While the process lives a stored result is for good, and a claim is ended
\* only by the call that made it, when it fails, is refused or stores its
\* result.
ClaimEndsByItsCall ==
  [][\A k \in Keys : crashes' = crashes /\ results'[k] # results[k] =>
       /\ results[k].state # "done"
       /\ results[k].state = "running" =>
            pc[results[k].call] \in {"release", "store"}]_vars

\* "This request was not charged", "billed": false, of a reply that ran no
\* job: read literally, nothing of the payer's stays taken.
UnworkedIsUncharged ==
  \A c \in Calls :
    answer[c] \in {"replay", "in_progress"} => money[c] \in {"none", "back"}

\* Every request is answered, unless the process dies under it.
EveryJobAnswered == \A c \in Calls : pc[c] # "idle" ~> pc[c] = "done"
=============================================================================
