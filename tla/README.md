# HubVibe in TLA+

HubVibe is a node that sells work over HTTP: site audits and catalog workers,
each behind one payment gate with several rails, each with failure paths that
must not charge; it also sells keys and reports by card and ships the clients
that buy from it. The code is under `src/wcag-audit-engine/`; `app/` below means
`src/wcag-audit-engine/app/`. This directory models the parts where money,
keys, tasks and retries meet concurrency and failure, model-checks them with
TLC and proves the central facts with TLAPS.

## The system

One uvicorn process serves everything. Routes authorize and bill on executor
threads, worker jobs run as coroutines on the event loop, and the state below
is shared by all of them.

| Part | Code | State it keeps | Operations |
|---|---|---|---|
| Payment gate | `app/main.py` `_authorize_and_rate_limit`, `_authenticate`, `_bill`, `_deliver`, `_failed_audit_response` | one `AuthContext` per call | let a call in on a rail, bill after the work, deliver, withhold, give back |
| x402 rail | `app/x402_payments.py` | `_nonces` (in memory), facilitator client | admit and release a nonce, verify, settle |
| MPP rail | `app/mpp_payments.py` | `_used_credentials`, `_facts` (in memory) | verify-and-settle a charge or a top-up, release |
| Billing | `app/billing.py` | `api_keys`, `customers`, `quota_usage`, `reports` documents; Stripe outside | issue, spend and refund prepaid cents, count quota, meter, activate a customer, paid reports |
| Key store | `app/keystore_sqlite.py` (or Firestore) | the documents above | get, set, transactions |
| Solana hash rail | `app/solana_hash_verifier.py` | SQLite table of redemptions | challenge, redeem |
| Worker pipeline | `app/workers/router.py` | executor, semaphore | serve one paid job |
| Worker ledger | `app/workers/ledger.py` | SQLite `worker_calls`, `worker_results`, `worker_provider_calls` | receipts, idempotency, cost summaries |
| Provider runtime | `app/workers/runtime.py`, `context.py` | circuit breakers, attempts of a job | retry, fall back, deadline |
| HTTP front | `app/main.py` `_SlidingWindowLimiter`, `_reject_missing_input`, middlewares | one window per client, audit threads | body limit, unpaid probe, limiter, guards before the payment |
| Transports | `app/main.py` MCP and A2A, `app/a2a.py` | A2A task store | tool call, message, task get and cancel |
| Browser pool | `app/browser_pool.py` | one browser per audit thread | lend a page, replace a dead browser |
| Audits | `app/audits.py`, `app/main.py`, `app/url_guard.py` | none | reach a target hop by hop, run rules, make a verdict |
| Skills and providers | `app/workers/skills/`, `app/workers/providers/` | the monitor's baseline, the one lookup of Google credentials | read, search, generate, query, verify |
| Catalog, contracts, discovery | `app/workers/catalog.py`, `contract.py`, `app/discovery.py` and the like | static tables | none |
| Clients | `integrations/hubvibe_router.py`, `hubvibe_tollbooth.py`, `scripts/x402_pay.py` | money spent, daily ledger, cached answers | pay within caps, keep answers |

A paid request passes the limiter, then the rails in a fixed order (operator
key, prepaid key, subscriber key, x402, MPP); a rail that does not
authenticate falls through to the next and the last one answers 402. Prepaid
cents and MPP credentials are taken *before* the work, x402 is only verified
before and settled *after* it. A worker job adds the idempotency claim and the
receipt row between gate and reply. The Solana rail sells prepaid keys for
transfers that already happened.

The behaviours that are hard here: copies of one payment in flight at once;
a check before an outside call and a mark after it; failures between taking
and giving; an answer of the facilitator that says neither yes nor no; a crash
between two ledger writes; retries with the same key that overlap the first
try; ledger writes that fail silently; webhooks that come twice; a task that is
canceled while it is paid for; a vendor that bills what it did not deliver. `PROJECT.json` lists them one by one
under `hazards`, each at its line, with the properties that watch it.

What makes each part correct:

- gate and rails: no call served unpaid, no payment taken for work that failed,
  no payment spent on two calls, nothing taken that is not given back;
- prepaid keys: cents are conserved and a bought key reaches its buyer;
- Solana rail: one key per payment and per challenge, worth what arrived;
- worker pipeline: one job per idempotency key, replays of what was delivered,
  receipts that say what happened;
- provider runtime: a job ends within its one deadline, an open circuit recovers,
  what is sold has its costs recorded;
- billing: a buyer who paid ends with a key that works; a report is audited again
  only when views overlap or something failed;
- front: a refusal is free, on every transport; the limiter counts what passed;
- skills: what is sold is whole, a generation is asked for once, what is scanned is
  bounded before it starts;
- clients: budgets hold as far as the accounts can see, a paid answer is lost for
  few and known reasons.

## Modules

| Module | Models | Its steps |
|---|---|---|
| `PaymentGate` | the gate and all five rails, with the prepaid ledger, quota, meter, nonce table, used set and the money outside | one action per stretch of code between two points where another thread can run: `UseKey`, `AdmitNonce`, `VerifyPayment`, `ReadCredential`, `SettleCredential`, `MintKey`, `DoWork`, `Bill`, `Deliver`, `Unbill`, ... |
| `PaidWork` | the abstract promise: an authorization buys one call, money moves after produced work, every call ends in one answer | `Begin`, `Produce`, `Collect`, `HandOver`, ... |
| `PaymentGate_proofs` | theorems about `PaymentGate`, with the refinement of `PaidWork` | |
| `SolanaRedeem` | `redeem`: look, read the chain, claim the payment in the ledger, mint, record or undo | `Look`, `ReadChain`, `Claim`, `Mint`, `Undo`, `Record`, ... |
| `SolanaRedeem_proofs` | theorems about `SolanaRedeem` | |
| `WorkerServe` | `serve`: gate, claim, receipt row, semaphore, job, failure path, billing, receipt, stored result, reply | `Authorize`, `ClaimKey`, `OpenCall`, `Start`, `RunJob`, `CloseFailed`, `ReleaseKey`, `Unwind`, `Bill`, `CloseCall`, `StoreResult`, `Reply` |
| `WorkerServe_proofs` | theorems about `WorkerServe` | |
| `ProviderRuntime` | `run_with_policy` and the circuit breakers, `JobContext.run`, the composite skills, the attempts the router records | `Begin`, `Answer`, `Fail`, `Refuse`, `Invalid`, `Wake`, `Health`, `Tick` |
| `ProviderRuntime_proofs` | theorems about `ProviderRuntime` | |
| `Billing` | `billing.py` on the Stripe side and `keystore_sqlite.py`: checkout, webhook, activation, the poll for the key, report views, transactions | `StripeWebhook`, `FindCustomer`, `StoreKey`, `PaidReportRequest`, `CompleteReportRequest`, `Begin`, `Commit`, `Crash`, ... |
| `Billing_proofs` | theorems about `Billing` | |
| `NodeFront` | what stands around the gate on REST, `/mcp` and `/a2a`: body limit, probes, limiter, guards, audit threads with browsers, task store | `Arrive`, `BodyLimit`, `LimiterCheck` (in `Gate`), `SendMessage`, `CancelTask`, `RefuseInput`, `OpenContext`, `Fail`, `Bill`, ... |
| `NodeFront_proofs` | theorems about `NodeFront` | |
| `Providers` | what each provider adapter makes of an answer of its vendor | operators only |
| `Audits` | how a target is reached, when an audit ran, what verdict it gives and what it discloses | operators only |
| `Skills` | a paid job after the gate: the plan of every skill and audit route, its fallbacks, retries and refusals | `Begin`, `StartStep`, `Attempt`, `SkipSource`, `SourcesDone`, `LoadPage`, `GetPage`, `Prime`, ... |
| `Skills_proofs` | theorems about `Skills` | |
| `BuyerClients` | router, tollbooth and CI payer: caps, signing, answers, accounts, files | `CheckCaps`, `Reserve`, `Send`, `Delivered`, `NotDelivered`, `Record`, `StoreTmp`, `SwapTmp`, ... |
| `BuyerClients_proofs` | theorems about `BuyerClients` | |
| `MC*` | finite instances for TLC | |

`PaymentGate` implements `PaidWork` through a refinement mapping at its end.
`WorkerServe` takes from `PaymentGate` only that a call is let in and that the
failure path gives back what was taken (`Unwind` is `Unbill`); `SolanaRedeem`
mints through the same key store as `MintKey`. `ProviderRuntime` is what
`WorkerServe` takes as one step, `RunJob`: its outcomes are that step's, and
`EveryJobEnds` is why the step may be assumed to be taken. `Skills` opens that
step the other way: it fixes what providers may answer and follows the values
through a skill, and leaves circuits and backoff to `ProviderRuntime`.
`NodeFront` is around the gate, which it takes as one step with a yes or a no;
`Billing` fills the key store that the gate reads; `BuyerClients` is the other
end of the line, and sees of the node only what it answers.

In `PaymentGate` a call is one request on one thread. `pc` says where the thread
is, `req` what it sent, `ctx` is its `AuthContext`, `reply` the answer. Money is
whole cents. `moved` and `flying` stand for the world: payments whose money has
left the payer, and transfers the facilitator may still complete after it has
answered "pending" or not at all. `settle` keeps the four outcomes of
`_settle_outcome_of`; `garbled` marks an exception that the classification does
not list and so calls a refusal.

In `WorkerServe` a retry is another call with the same key. `results` is
`worker_results`, `rows` is `worker_calls`. Every ledger function swallows its
exceptions, so every write has a second outcome, lost, which marks the call as
`faulted`; a ledger that cannot answer the claim lets the job run unclaimed. A
ledger whose path could not be opened is in memory (`_connect`) and dies with the
process: `CrashInMemory` empties it and notes in `forgot` whose rows went.
The stretches after a job run without giving up the event loop, but another
call's claim runs on an executor thread between any two of them and a crash
may fall there, so each ledger transaction is a step.

In `ProviderRuntime` jobs are coroutines of one event loop, so a step runs from
one `await` to the next: an answer, a failure or a timer, then breakers,
fallback and the next steps of the skill, up to the next wait. That code is a
few functions from a job and the breakers to a job and breakers (`GoOn`,
`Fallback`, `Raise`, `FirstTry`), and each action applies one of them. A skill is
a sequence of `ctx.run` calls with the configured providers of each and a mark on
those that read a source it can do without. Time is counted down in `wait`,
`budget` (to `ends_at` of the step) and `left` (to `deadline_at` of the job), and
up in the `age` of an open breaker; `Tick` does not wait for timers that are
due, so they may fire late. Attempts are named by step, provider and number;
`missed` holds those of an ended job that got no ledger row.

In `Billing` the session, the events Stripe still owes and the buyer are outside.
Each read and each write of a document is a step; a transaction of the SQLite
store is `Begin`, read, write and commit, and what keeps two apart is the write
lock that `BEGIN IMMEDIATE` takes first. `shown` is what the success page has
displayed, `overlapped` the sessions that had two deliveries at work.

In `NodeFront` a request is a record with its transport, body, payment and
target; a step runs to the next `await`. Audits and page checks hold one of
`Threads` from their first check to their answer; handshakes, prices, task reads
and worker tools stay on the event loop. `told` is the answer in one word, and
`SaysFree` are the answers whose text says that nothing was charged. The
limiter's log is a set of hits for each client, a hit being a time and the call
it is of, so that two calls in one tick are two hits; a client is in the table
while it has hits. The task store is a set of entries, each with its time and the
number of its put, which orders the puts of one tick; a put replaces the entry of
its task and drops the oldest when there are too many, a look drops the entry it
finds expired.

In `Skills` an answer of a vendor is a status and a sense: what was asked for,
nothing, prose in place of JSON, an error object in a 200, a job still running, a
shape with less in it than was named. `Providers` says what each adapter makes
of it, `built` collects what the result is made of. The target's page has
versions and may change between two steps; so may the size of the customer's
table.

In `BuyerClients` money is whole cents and a call is a thread of one of the
processes of a machine; `spent` is a process's account, `ledger` the file all
share. `fate` is the answer to the signed post, `moved` says whether money left,
which the answer need not tell. `uncounted`, `clashed`, `broken` and `unread` name
the calls for which the code keeps no promise, by the step that made them so: a
spending the check of another could not see, two calls at one cache file, a disk
that refuses a file, a paid 200 that cannot be read.

Operators whose comment starts with "Variant" are plausible bugs next to the
code they deviate from. They are used by no specification; `PROJECT.json` lists
under `mutants` which property each of them breaks.

## Runs

| Run | Instance | Question |
|---|---|---|
| `gate_calls` | 3 calls and one restart; either prepaid keys (one sold, two mintable, two top-ups, one larger than the price and one no larger) and a subscriber with a quota of one, or payments call by call (two authorizations with a nonce, one without, a Stripe credential, two hashes) | is prepaid money conserved, does a bought key reach its payer, is a subscriber billed at most the price; do the replay guards hold, and let go of what failed; does money move only for results; is nobody served without paying |
| `gate_promise` | 2 calls that fall through all the rails, one restart, fair threads | is every call answered; is `PaidWork` implemented |
| `solana_redeem` | 2 threads, 2 payments, 2 challenges, a payment under both and a challenge under both, 2 keys, one restart | one key per payment, backed by it; who may strand a payment; is everybody answered |
| `worker_serve` | 2 calls, under one key on a rail that takes at the gate or settles later, or on svm without a key, 1 place, 1 faulty call, 1 crash that the ledger survives in its file or does not in memory | one job per key, true replays, keys that do not stay busy, receipts that tell what happened and stand, money only for served work, every call answered |
| `billing_store` | a subscription and a report session, 2 instances, each webhook delivered up to twice, 2 views, 2 debits, a credit and a quota count on one balance, 1 fault | does a buyer who paid get a key that works and keeps, when alone is a report audited again, do the transactions add up |
| `front_transports` | 3 requests, of six shop kinds over REST and MCP or five agent kinds over A2A, 2 clients, 1 audit thread, limit 1, a limiter table and a task store with room for 1, a clock of 3, 1 browser crash | is what is refused free, is a task found again, does the limiter count right, does the event loop never wait |
| `skills` | 18 pairs of the 33 skills and audits, 2 versions of the page, up to 4 hops, 2 sources, a budget of 3, 2 attempts, a configured ceiling of 2 and callers who ask for 1 or 3, a table that grows beyond the ceiling | is what is sold whole, is a generation asked for once, are scans bounded, whose page is the baseline, do all get one answer on credentials |
| `client_budgets` | 3 calls of 2 processes, two with one question, prices 2 and 3 of a budget of 3 and a daily cap of 4, 2 days, each kind of client, a disk that may refuse any file | do the caps hold for what the accounts see, why alone is a paid answer lost |
| `runtime_jobs` | 2 places that run one job after another, search-read-answer over 2 providers with a fallback, threshold 2, 2 attempts, deadline 2 ticks, cooldown 2 | waits fit in the deadline, sold work is costed, open circuits take no new job and recover, jobs end |

Each bound is the smallest that shows the cases: two copies of a payment and a
third call to disturb them (3 calls); a key found and a key minted; a
try and its retry or replay under one key (2 calls; the theorems about keys hold
for any number); a claim the ledger could not answer beside one it did (1
faulty call); two deliveries of one event and one fault; a table and a store with
room for one, so that the second client or task is at the limit; two prices that
fit alone and not together; a redirect chain one longer than allowed (4 hops); a job whose late failures meet the probes of another (2 places); a
job that runs out of time in each of its steps (2 ticks); one restart, since the state
it leaves is the same as after several. `MaxRestarts`, `MaxCrashes` and
`MaxFaults` are bounds of the model, not of the code; `Deadline`, `Window` and
the others of `ProviderRuntime` are its settings, in ticks, `Limit`, `Window`,
`MaxKeys`, `TaskTTL` and `MaxTasks` those of `NodeFront`, `Ceiling`,
`MaxAttempts` and `MaxSources` those of `Skills`; `Asked` is what a caller may
send as `max_scan_gib`; `MaxCalls`, `MaxTime`, `MaxJobs`,
`MaxTable`, `MaxDays` and `MaxKeys` of `Billing` are bounds of the model. Calls are symmetric in the
runs that check no liveness. Deadlock is not checked because the calls of a
finite instance end.

Fairness: a thread or coroutine that can take its next step takes it. The code
justifies it, because every outside call carries a timeout (45 s to the
facilitator, 10 s to an RPC node, the audit's and the skill's own deadlines) and
locks are held across local work only. In `ProviderRuntime` even that is
a result: time passes and timers fire, providers may stay silent. In `NodeFront`
only the steps of the event loop are fair (`LoopStep`): pages may take for ever,
and `LoopNeverWaits` says that the loop does not wait for them. In `Billing` the
steps of a delivery are fair and Stripe delivers again until it is answered 2xx,
as its documents promise and `stripe_webhook` relies on. Arrivals, crashes,
restarts, the chain and a caller's retry are given none; `Skills` and
`BuyerClients` state no liveness.

### Runs that show a disagreement

| Run | The text | What the code does |
|---|---|---|
| `worker_replay_charged` | "This request was not charged." (`workers/router.py`) | cents and credentials taken at the gate are kept when the claim answers with a replay or a 409 |
| `worker_receipt_settled` | "Settled means the facilitator settled: its own verdict first" (`workers/router.py`); a receipt's `paid` "is the settled flag" (`workers/ledger.py`) | the payer of an EVM payment is known from its authorization, so a payment the facilitator left in doubt is recorded as settled; its receipt says paid, and the transfer may never be made |
| `front_canceled` | "Canceled. Nothing was charged." (`main.py`, `a2a_jsonrpc`) | the task's paid follow-up is at work; its result is charged and replaces the cancellation |

What the code does keep is a passing property next to each: `ChargedForWork`;
`ReceiptsHold`, which lets a receipt say paid of a payment in doubt and of no
other that was not settled; and `RefusalIsFree`, which leaves out the canceled
task.

### Disagreements the passing properties are written around

- An MPP credential "can only grant access once per process"
  (`mpp_payments.py`), but two copies in flight are both granted before either is
  marked. `CredentialsAreExact` says once unless two overlapped.
- A hash is stored in lower case and released as presented, so the credential of
  a failed audit stays used if it had an upper-case digit (`Respelt`).
- A top-up of no more than the price leaves no key; if the call fails, its cents
  have nowhere to go back to, while the reply says "Nothing was charged".
- `solana_hash_verifier` answers "nothing was redeemed" after any ledger
  exception; the row may be claimed and a key minted. `RedemptionsEnd` says which
  failures may strand a payment.
- Attempts before a failure "still belong in the ledger" (`workers/router.py`);
  only those the exception carries are written. `SoldWorkIsCosted` speaks of
  sold work.
- The router compares its caps before it signs and adds to its accounts after
  the answer, so parallel calls can pass one budget together, and money that
  left without a 200 is on no account. The tollbooth reserves first.
- Two router calls with the same question share a temporary file; the second
  rename raises out of a call that was paid and delivered. So does any `OSError`
  of the ledger's or the cache's write: neither is guarded.
- The tollbooth reads a receipt so that it "must not turn a delivered, paid audit
  into an exception" (`_read_receipt`), but `_unwrap` then raises on a 200 whose
  body is no object. The CI payer's `_fail` means that "the call genuinely was
  not paid for" (`x402_pay.py`), and it also ends a call whose paid 200 has a
  header it cannot read or whose `response.json` it cannot write.
  `PaidAnswerIsReturned` names each of these and admits no other.
- A report is audited "on first view and is then cached" (`main.py`); two
  overlapping first views both audit it, and so does a view after a failure.
  `OneAuditPerPurchase` says that nothing else makes it.
- Frames the audit could not reach (`frames_unreachable`) are counted and no
  route passes the count on, and the bundle drops the number of responses
  that could not be weighed; the performance audit alone tells.
- The monitor's baseline is keyed by URL alone, so all customers share it; an
  older read can overwrite a newer one; and it moves even if the settlement
  refuses the payment afterwards.
- `chain.transaction` reads twice and may ask two nodes: a transaction can be
  sold as mined and pending at once. An RPC result of null is sold as 0 by the
  address and network reads.
- A caller's `max_scan_gib` takes the place of the configured ceiling and may
  exceed it, in `data.query`, `data.forecast` and `data.anomalies`; the header of
  `skills/data.py` says that neither `data.query` nor `data.question` "can scan
  more than the configured ceiling". `ScanIsBounded` holds a job to the maximum
  sent with it, and the other skills to the ceiling. An attempt whose answer is
  lost is billed as well, so the bound of a job is `MaxAttempts` times the
  maximum of one run.
- `data.question` refuses generated SQL as the caller's error, after the model
  was paid for; the caller is not charged.
- The security audit of an error page and an `inspect` that got a status below
  500 are sold; `SoldIsWhole` names both.

## Proofs

`SolanaRedeem_proofs` proves for any number of threads, payments, challenges,
keys and restarts:

- `TypeCorrect` and `ClaimsExclude`: between the insert of its row and the end
  of `redeem`, a payment is in the hands of one thread and its row is what that
  thread wrote;
- `PaymentHasOneKey`: one key per payment, one payment per challenge, one
  payment per key;
- `KeyWasPaid`: a key that was given out is backed by a final transfer that
  satisfies its challenge, and holds the whole cents of it;
- `IssuedRowStays`: no step changes an issued row;
- `ClaimIsLeftByFailure`: a claimed row that no thread works on was left by a
  restart or an exception of the ledger, which is the safety half of
  `RedemptionsEnd`.

The argument is one inductive invariant, `IInv`. `OneKeyPerPayment` alone is not
inductive: a thread past `Claim` holds facts that no row shows yet. `IInv` adds
what each thread knows at its `pc`: before the claim, that its chain facts are
of a final transfer that satisfies its challenge; after it, that the row of its
payment is claimed with its reference and that no other thread past the claim
has the same payment; after the mint, that the fresh key is in no row and no
other thread. The proof has a lemma per action, and the actions before the claim
share one because they touch neither ledger nor keys. `ClaimIsLeftByFailure` is
a fact about a step, given `IInv`: a thread keeps the row it claimed until it
issues or deletes it, and the steps of the others leave it its thread. The only
assumption is `RedeemAssumption`, which types the constants.

`WorkerServe_proofs` proves for any number of calls, keys, places, faults and
crashes, under `ServeAssumption`, which types the constants:

- `TypeCorrect`;
- `KeyHasOneJob`: at most one call holds the claim of an `Idempotency-Key` or
  was served under it;
- `ReplayWasDelivered`: a replay returns what another call with the key was
  served;
- `KeyIsNotPoisoned`: a key answers 409 only while its call is at work, or
  after that call died or lost a ledger write;
- `ClaimIsItsCalls`: while the process lives, no step changes a stored result, and
  a claim ends only by the call that made it;
- `OnlyResultsAreCharged`: an x402 payment moves only for a call whose job gave
  a result;
- `ReceiptsAreTrue`: ok, refused and failed on a receipt tell what became of its
  call; paid is true but for a payment left in doubt, the exception that
  `worker_receipt_settled` shows; and one that was handed out can be fetched,
  unless the ledger failed its call or the claim of a later one, or was in memory
  when the process died.

`OneJobPerKey` alone is not inductive: it speaks of calls, and a third call
finds only the row. What makes it true is that the row of a key names one call.
`ClaimHeld` and `ServedKept` say that a call that holds a claim, or was served
under it, is the one the row names; `Claimant` says the converse, that the row
names only a call that claimed the key and, once done, was served; `ShapeInv`
says what a call can have as outcome and answer at each step. The steps that
leave the ledger alone share one lemma; the claim, and the two steps that end
it, have one each. A lost write needs no case of its own beyond these: it leaves
the row running under its call, which the invariant allows.

Money and receipts have a second invariant, `RInv`, inductive given the first.
Its parts say that the money and the receipt of a call tell its outcome, and
that a receipt stands from `open_call` on. The last is where the two invariants
meet: `open_call` replaces the row of an earlier call with its key, and
`RowIsEatenByUnclaimed` shows from `ClaimHeld` and `ServedKept` that this costs a
working or served call its receipt only if the ledger failed one of the two.

`ProviderRuntime_proofs` proves for any jobs, providers, skills and settings,
under `RuntimeAssumption`, which types the constants:

- `TypeCorrect`: a job that waits is at a step, a provider and an attempt that
  exist, and never at one attempt too many;
- `DeadlineIsShared`: whatever a job waits for ends within its one deadline;
- `SoldIsCosted`: a job that is sold has a ledger row for every attempt of the
  steps whose values it sells;
- `OpenCircuitIsAvoided`: no step makes a first attempt at a provider whose
  circuit is open (`OpenCircuitOnlyRetried`, the safety half of `CircuitShields`).

The invariant nests the budgets: the wait within the budget of the step, that
within what is left of the job. The code between two awaits has one lemma per
function; that the loop over providers finds a first one rests on the
well-foundedness of the naturals. For the ledger, `Account` says of a job under
way that every attempt of a step that gave a value is noted and that the step
under way is a later one, so that it has given none.

`PaymentGate_proofs` proves for any number of calls, keys, authorizations,
credentials, prices and restarts, under `GateAssumption`, which types the
constants, keeps keys, subscribers, authorizations and credentials apart, and
says that a behaviour has finitely many calls:

- `TypeCorrect`;
- `ServedHasPaid`: nobody is served without the instrument its rail asks for;
- `NonceBuysOneCall`: an authorization with a nonce buys one call in a life of
  the process and is refused only while a call has it;
- `MoneyMovesForWork`: an authorization's money moves only for produced work;
- `BoughtKeyIsShown`: a bought key is shown unless a restart kills the call;
- `CredentialBuysOneCall`: one unfailed call per credential unless its copies
  overlapped, and no mark without a call that holds it;
- `PrepaidMoneyIsKept`: a prepaid key holds what was put on it less what calls
  drew and did not get back;
- `MeterNeverOverbills`: a subscriber is counted at most the calls that were let
  in and metered at most the price of those that did not fail;
- `GateImplementsPaidWork`: every step of the gate is a step of `PaidWork` or
  leaves what `PaidWork` sees unchanged.

The base is `CallInv`, which speaks of each call by itself: what its place says
of its context (`Phase`), what the context says whatever became of the call
(`Context`), and what the rail says it was paid with (`Paid`). It is proved from
one lemma per action that lists the action's effect on its own call and says
that other calls are left as they are. On top of it stand small invariants that
relate calls to a table. Neither half of `NoncesAreExact` is inductive: a nonce
is held by a call that is still at the facilitator as well, so `NonceInv` says
that one call owns each authorization that is in the table, where owning begins
with the admission. `CredInv` does the same for credentials: a call that has one
out at Stripe claims it, and two claims are possible only if the copies
overlapped. The refinement uses `CallInv` and `NonceInv`: the second is what
makes the authorization of a verified call one that nobody claimed before.

The ledgers need sums over calls, and a sum is an induction over the set. `Total`
therefore counts cents: a call that draws `n` of them owns the pairs of itself
with `1 .. n`, and the total is the cardinality of the union. That one call moves
`n` cents adds or removes `n` members, a fact about finite sets, so each step of
the ledger is the change of one term. `LedgerInv` adds to the property that a key
nobody was issued holds nothing, without which a mint could make money;
`MeterInv` bounds the meter by what a call may still put on it.

`Billing_proofs` proves for any number of sessions, deliveries, views,
transactions, instances and faults, under `BillingAssumption`, which types the
constants, keeps subscriptions and reports apart and sessions and transactions
finite:

- `BuyerKeyWorks`: a key the success page showed authenticates its buyer;
- `KeyIsKept`: a customer's key is replaced only if two deliveries overlapped;
- `TypeCorrect`: among others, the balance of a key never goes below zero;
- `ReauditIsExcused`: a second audit of a report needs two views at once or a
  failure, so it is not a theorem that a report is audited once;
- `StoreAddsUp`: the balance and the counter are what the committed transactions
  make of them.

The parts share no variable but the write lock, so each has an invariant of its
own. For keys, a delivery that found no customer is the only one at work on its
session or known to overlap (`Late`). For reports, a view that is about to audit
does so for the first time or is excused. For the store, a transaction that has
read holds the lock, and what it read is still the balance (`TxInv`); the
sums are cardinalities of sets of committed transactions, so the library's facts
about finite sets suffice.

`BuyerClients_proofs` proves for any number of calls, processes, questions and
prices, under `ClientsAssumption`:

- `TypeCorrect`;
- `AnswerIsReturned`: who paid for an answer and received it hands it on, unless,
  at the router, the disk refused the ledger or the cache or another call stored
  and returned an answer to the same question; at the tollbooth, the 200 could
  not be read; at the CI payer, it could not be read or written;
- `CapsAreKept`: what the router's checks can see stays within a process's
  budget and the daily cap, and the tollbooth pays no more than its budget but
  for a 402 whose payment settles after all.

For the first the invariant adds that only a router keeps accounts and files
(`KindInv`), that a call about to rename its file finds it there or has lost the
race to one that returned the answer (`FileInv`), and that two such calls with
one question know of each other (`PairInv`). For the caps it adds what is true between the check and the account:
of the router's calls that are seen at most one is between its check and its row
(`AloneInv`), what was paid is on the account but for that call (`OnAccount`,
`InLedger`), and a cleared call still fits (`InBudget`, `UnderCap`). The
tollbooth takes the price off its budget before it pays, and what is off is what
its calls have reserved. The sums are cardinalities of sets of cents, as in the
gate.

`NodeFront_proofs` proves for any number of requests, clients, threads, tasks and
crashes and any settings, under `FrontAssumption` (a limiter lets at least one
call pass, its table and the store hold at least one) and `NoneAssumption`
(`None` is no answer and no time):

- `TypeCorrect`: among others, a client's window holds at most the limit, the
  limiter's table at most one client over `max_keys` and the task store at most
  `max_tasks`, whatever is sent;
- `RefusalsAreFree`: an answer that says nothing was charged is true on every
  transport, and a refusal of a body or an input comes before the payment is
  read;
- `TaskStays`: a task is found as it was last put until it expires or as many
  others were put since as the store holds;
- `LimiterIsFair`: a call is refused only if its client made its limit of calls
  in the window, and passes above it only if a full table forgot the client.

`Calm` adds to the second that before the gate nothing is read or charged, and
that only the last steps tell anything; it needs neither the limiter nor the
task store. `StoreInv` says that every entry is the last put of its task, and
that a last put is missing only if it expired or enough others were put since.
The step that matters is the eviction: the oldest entry has the least number of
those stored, so when it goes, each of the others is a task put since. That there
is an oldest is the well-foundedness of the naturals, since no induction is at
hand. `LimiterInv` ties the log to the calls: a hit in it is of a call that
passed (so a refusal has its reasons), and the hit of a call in the window is in
it unless its client was forgotten (so a pass has). The bounds rest on all three:
a sweep leaves `max_keys` clients, a half of more than one being at least one,
and the call that follows adds one.

`Skills_proofs` proves for any number of jobs, budgets, attempts, sources,
ceilings and targets, under `SkillsAssumption`, which types the constants:

- `TypeCorrect`: a job never leaves its plan, makes no attempt too many and does
  not overdraw its time;
- `SoldWhole`: nothing unfinished, cut short or refused by its provider is sold,
  a source that was not read is named, a gap in an audit is told;
- `GenerationsOnce`: a job asks a vendor to generate at most once, and an image,
  speech or video that is sold was asked for;
- `ScansBounded`: all attempts of a job together scan at most `MaxAttempts` times
  the maximum it was sent with, however the table grows after the dry run; that
  maximum is the ceiling unless the caller set one;
- `BaselineTold`: a page is the monitor's baseline only if the job that made it
  so was sold;
- `OneAnswer`: every job hears the same of the Google credentials.

The plans and the providers are first proved as tables (`PlanTable` and those
after it), since what matters is which step can be followed by which. `JobInv`
then speaks of a job by itself: it is at a step of its plan with a provider of
that step, what it built may be sold, of its sources the last ones were looked
at and each was read or named. `AskedOnce` says that a generation under way has
been asked for and one that is not has not, which is stronger than the bound and
makes it inductive. `ScanKnown` does the same for the sum of the scans: a plan
scans at one step, nothing is billed before it, and while it is at work no more
than the attempts made times the maximum. A step changes one job and applies a
few functions to it, so the lemmas speak of those parts (`Stepped`) and each
action only names the parts it is made of.

The type invariants of the modules are proved and in no run of their own.

Left to TLC is liveness, which depends on fairness and ENABLED:
`EveryCallAnswered`, `RedemptionsEnd`, `EveryJobAnswered`, `CircuitShields`,
`EveryJobEnds`, `BuyerKeepsAKey` and `LoopNeverWaits`. Three of them also say what
no step may do, and that half is proved: `ClaimIsLeftByFailure`,
`OpenCircuitIsAvoided`, `KeyIsKept`. The three runs that show a disagreement
are TLC's as well. Every other property of a run is a theorem.

## What is left out

- Time. Expiry of nonces (360 s), challenges and quota months are not modelled;
  an expired challenge is one of the reasons a credential is not read.
- Signatures and HMACs: a credential or an authorization cannot be forged.
- The amount bound in an MPP charge challenge, which the code compares with
  nothing; a hash or token is granted whatever it was issued for.
- The texts of 402 bodies and the discovery documents; the catalog and the
  contracts, which are tables and schemas without state; deployment scripts
  and the GitHub action, apart from the CI payer.
- In the gate: the recording of payments in Stripe, facilitator switching.
- In the provider runtime: costs, latencies, failure reasons and provenance;
  that jitter follows a distribution.
- In the worker pipeline: cost summaries, schema validation, the free index.
- In the front: JSON-RPC and A2A message shapes, versions and headers; time
  other than the limiter's window and the task's expiry; the second hit, on the
  client's address, of a call whose key does not authenticate. A client of the
  model is the bucket that decides.
- In the skills and audits: prompts, the arithmetic of the statistics, which
  tags, headers and metrics make a fault, the shape of a result.
- In the clients: daily quotas and the command line; the MCP and LangChain
  wrappers, which only forward a key.
- In billing: the parameters sent to Stripe; Firestore, which differs from the
  SQLite store in what guards a transaction, not in what it promises.

## Plan

1. The order so far: `PaymentGate` and `PaidWork`; `SolanaRedeem`, `WorkerServe`
   and `ProviderRuntime` with proofs; `BuyerClients`; `Billing`; `NodeFront`;
   `Providers`, `Audits` and `Skills`.
2. Compositions: the outcomes of `ProviderRuntime` in place of `RunJob` in
   `WorkerServe`; the gate in place of the yes or no in `NodeFront`.
3. Abstract specifications: one job per idempotency key for `WorkerServe`;
   one key per payment for `SolanaRedeem`; a serial store for `Billing`.
4. Proofs: the abstract specifications of 3 once they are stated; that
   `ProviderRuntime` implements what `WorkerServe` takes as `RunJob`.
5. Expiry of nonces and challenges against the validity a challenge asks for.
