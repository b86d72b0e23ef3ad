----------------------------- MODULE NodeFront -----------------------------
(***************************************************************************)
(* What surrounds the payment gate on its way in and out (app/main.py):    *)
(* the body limit, the unpaid-probe middleware, the sliding-window         *)
(* limiter, the checks made before a payment is read, the audit threads    *)
(* with their pooled browsers (app/browser_pool.py), and the three         *)
(* transports that sell the same work: the REST routes, /mcp and /a2a with *)
(* its task store (app/a2a.py).                                            *)
(*                                                                         *)
(* The gate itself is PaymentGate; here a payment is accepted or not, and  *)
(* an x402 payment settles in one of four ways after the work.  Coroutines *)
(* run on the event loop, a step up to the next await at a time; an audit  *)
(* holds one of MAX_CONCURRENT_AUDITS threads from its first check to its  *)
(* answer.                                                                 *)
(***************************************************************************)
EXTENDS Integers, FiniteSets, Sequences

CONSTANTS
  MaxCalls,       \* bound: requests in a behaviour, numbered as they arrive
  Mixes,          \* sets of requests that come together in a behaviour
  Clients,        \* what the limiter counts by: an API key or an address
  Threads,        \* MAX_CONCURRENT_AUDITS worker threads
  Limit,          \* RATE_LIMIT_PER_MINUTE
  Window,         \* the limiter's window, also its sweep interval
  MaxKeys,        \* the limiter's max_keys
  TaskTTL,        \* TaskStore: ttl_seconds
  MaxTasks,       \* TaskStore: max_tasks
  MaxTime,        \* bound: the clock
  MaxCrashes,     \* bound: browsers that die or wedge
  None            \* Python's None

Calls == 1 .. MaxCalls
TaskIds == 1 .. MaxCalls

\* op: "job" is a paid route, tools/call or SendMessage; "get" and "cancel"
\* are A2A's; "free" is a handshake, a manifest or /health.  pay: the
\* credential sent.  size: how the body compares with MAX_REQUEST_BYTES, as
\* declared or only as it streams.  fit: it names something this node will
\* audit.  tool: what it names; an A2A message may leave that to its task.
RequestType ==
  [via : {"rest", "mcp", "a2a"}, op : {"job", "get", "cancel", "free"},
   client : Clients, pay : {"none", "x402", "prepaid"},
   size : {"fits", "declared", "streamed"}, fit : BOOLEAN,
   tool : {"audit", "worker", None}, follows : BOOLEAN]

Requests == UNION Mixes

ASSUME FrontAssumption ==
  /\ Requests \subseteq RequestType
  /\ \A r \in Requests : /\ r.follows => r.via = "a2a"
                         /\ r.tool = None => r.via = "a2a" \/ r.op = "free"
                         /\ r.op \in {"get", "cancel"} => r.follows
  /\ MaxCalls \in Nat /\ Limit \in Nat \ {0} /\ Window \in Nat /\ MaxKeys \in Nat \ {0}
  /\ TaskTTL \in Nat /\ MaxTasks \in Nat \ {0} /\ MaxTime \in Nat /\ MaxCrashes \in Nat
  /\ Threads # {}

VARIABLES
  coming,     \* outside: the requests clients send in this behaviour
  now,        \* time.time()
  log,        \* _SlidingWindowLimiter._log: hits of each client
  lastSweep,  \* _last_sweep
  forgotten,  \* history: clients whose hits a full table dropped
  tasks,      \* TaskStore._tasks
  made,       \* tasks created so far
  puts,       \* history: every put into the store
  browser,    \* each thread's pooled browser
  crashes,    \* browsers that died so far
  call        \* every request and where it stands

vars == <<coming, now, log, lastSweep, forgotten, tasks, made, puts, browser, crashes, call>>
limiterVars == <<log, lastSweep, forgotten>>
taskVars    == <<tasks, made, puts>>
browserVars == <<browser, crashes>>

\* tool, task: what an A2A message resolved to.  touched: a payment was read.
\* charged: its money is kept.  hit: when the limiter let the call pass.
NoCall == [step |-> "none", req |-> None, task |-> None, tool |-> None,
           thread |-> None, tries |-> 0, touched |-> FALSE, charged |-> FALSE,
           hit |-> None, told |-> None]

Init ==
  /\ coming \in Mixes
  /\ now = 0 /\ log = [k \in Clients |-> {}] /\ lastSweep = 0 /\ forgotten = {}
  /\ tasks = {} /\ made = 0 /\ puts = <<>>
  /\ browser = [t \in Threads |-> "none"] /\ crashes = 0
  /\ call = [c \in Calls |-> NoCall]

Tick == now < MaxTime /\ now' = now + 1
        /\ UNCHANGED <<coming, limiterVars, taskVars, browserVars, call>>

-----------------------------------------------------------------------------
At(c, step) == call[c].step = step
Goto(c, step) == call' = [call EXCEPT ![c].step = step]

\* The outcome goes back through the transport: an A2A job becomes a task.
Told(one, told) ==
  [one EXCEPT !.told = told, !.thread = None,
              !.step = IF one.req.via = "a2a" THEN "task" ELSE "done"]

Outcome(c, told) == call' = [call EXCEPT ![c] = Told(call[c], told)]

\* Answered as it stands, whatever the transport.
Reply(c, told) == call' = [call EXCEPT ![c].told = told, ![c].step = "done"]

\* Answers whose text says that nothing was charged.
SaysFree == {"too_large", "bad_input", "rate_limited", "failed", "withheld"}

ASSUME NoneAssumption == None \notin SaysFree /\ None \notin Nat

Arrive(c, r, k) ==
  /\ At(c, "none") /\ \A b \in 1 .. c - 1 : ~At(b, "none")
  /\ IF r.follows THEN k \in 1 .. made ELSE k = None
  /\ call' = [call EXCEPT ![c] = [NoCall EXCEPT !.step = "arrived", !.req = r,
                                    !.task = k, !.tool = r.tool]]
  /\ UNCHANGED <<coming, now, limiterVars, taskVars, browserVars>>

-----------------------------------------------------------------------------
\* The limiter.  A hit is the time of a call; the call it is of tells two
\* hits of one tick apart.  A client is in the table while it has hits there.
Table(l) == {k \in Clients : l[k] # {}}
Live(hits) == {h \in hits : h.at > now - Window}
Expired(l) == {k \in Table(l) : Live(l[k]) = {}}
LastSeen(hits) == CHOOSE t \in {h.at : h \in hits} : \A h \in hits : h.at <= t

Drop(l, S) == [k \in Clients |-> IF k \in S THEN {} ELSE l[k]]

\* What is dropped from a table that is still too big: half of its clients,
\* those not seen for longest.
OldestHalf(l) ==
  {S \in SUBSET Table(l) :
     /\ Cardinality(S) = Cardinality(Table(l)) \div 2
     /\ \A k \in S, j \in Table(l) \ S : LastSeen(l[k]) <= LastSeen(l[j])}

SweepDue == now - lastSweep >= Window \/ Cardinality(Table(log)) > MaxKeys

\* _sweep_locked: swept is the table after it, gone the clients forgotten.
Sweep(swept, gone) ==
  IF ~SweepDue THEN swept = log /\ gone = {}
  ELSE LET kept == Drop(log, Expired(log))
       IN /\ IF Cardinality(Table(kept)) > MaxKeys
               THEN gone \in OldestHalf(kept) ELSE gone = {}
          /\ swept = Drop(kept, gone)

\* Variant: a refused call is recorded as a hit.
LimiterCheckAll(c, passes) ==
  \E gone \in SUBSET Clients :
    LET k     == call[c].req.client
        swept == IF SweepDue THEN Drop(Drop(log, Expired(log)), gone) ELSE log
        hits  == Live(swept[k])
    IN /\ Sweep(swept, gone)
       /\ passes = (Cardinality(hits) < Limit)
       /\ log' = [swept EXCEPT ![k] = hits \cup {[at |-> now, of |-> c]}]
       /\ lastSweep' = IF SweepDue THEN now ELSE lastSweep
       /\ forgotten' = forgotten \cup gone

\* check: the hit is recorded and the call passes, or it is over the limit.
LimiterCheck(c, passes) ==
  \E gone \in SUBSET Clients :
    LET k     == call[c].req.client
        swept == IF SweepDue THEN Drop(Drop(log, Expired(log)), gone) ELSE log
        hits  == Live(swept[k])
    IN /\ Sweep(swept, gone)
       /\ passes = (Cardinality(hits) < Limit)
       /\ log' = [swept EXCEPT ![k] = IF passes THEN hits \cup {[at |-> now, of |-> c]} ELSE hits]
       /\ lastSweep' = IF SweepDue THEN now ELSE lastSweep
       /\ forgotten' = forgotten \cup gone

-----------------------------------------------------------------------------
\* Before any route runs.

\* A declared Content-Length over the cap is refused before a byte is read.
BodyLimit(c) ==
  /\ At(c, "arrived") /\ call[c].req.size = "declared" /\ Reply(c, "too_large")
  /\ UNCHANGED <<coming, now, limiterVars, taskVars, browserVars>>

IsProbe(r) ==
  r.via = "rest" /\ r.op = "job" /\ r.pay = "none" /\ r.size # "declared"

\* _PriceUnpaidProbes: a paid route without a credential gets its price,
\* through the limiter, whatever else is wrong with the request.
PriceProbe(c) ==
  /\ At(c, "arrived") /\ IsProbe(call[c].req)
  /\ \E passes \in BOOLEAN :
       /\ LimiterCheck(c, passes)
       /\ call' = [call EXCEPT ![c].step = "done",
                     ![c].told = IF passes THEN "payment_required" ELSE "rate_limited",
                     ![c].hit = IF passes THEN now ELSE None]
  /\ UNCHANGED <<coming, now, taskVars, browserVars>>

\* Where a job goes: an audit waits for a thread, a worker job stays on the
\* event loop.
Pool(tool) == IF tool = "audit" THEN "queued" ELSE "gate"

\* Variant: every handler of /mcp waits for an audit thread.
ReadBodyInThread(c) ==
  /\ At(c, "arrived") /\ ~IsProbe(call[c].req) /\ call[c].req.size # "declared"
  /\ IF call[c].req.size = "streamed" THEN Reply(c, "too_large")
     ELSE Goto(c, IF call[c].req.via # "a2a" THEN "queued" ELSE "route")
  /\ UNCHANGED <<coming, now, limiterVars, taskVars, browserVars>>

\* The body is read, counted as it streams, and the route takes over: a paid
\* job, an A2A method, or one that is free.
ReadBody(c) ==
  /\ At(c, "arrived") /\ ~IsProbe(call[c].req) /\ call[c].req.size # "declared"
  /\ IF call[c].req.size = "streamed" THEN Reply(c, "too_large")
     ELSE Goto(c, IF call[c].req.op = "job" /\ call[c].req.via # "a2a"
                    THEN Pool(call[c].tool) ELSE "route")
  /\ UNCHANGED <<coming, now, limiterVars, taskVars, browserVars>>

\* Handshakes, manifests and /health are answered on the event loop.
Free(c) ==
  /\ At(c, "route") /\ call[c].req.op = "free" /\ Reply(c, "free")
  /\ UNCHANGED <<coming, now, limiterVars, taskVars, browserVars>>

-----------------------------------------------------------------------------
\* A2A.  time.monotonic() stamps of two puts differ even within a tick: nth
\* tells which put was the earlier.
Fresh(t) == now - t.stamp <= TaskTTL
Stored(k) == {t \in tasks : t.id = k /\ Fresh(t)}
Task(k) == CHOOSE t \in Stored(k) : TRUE

\* TaskStore.get: a task found expired is deleted.
Look(k) == tasks' = {t \in tasks : t.id = k => Fresh(t)}

NewEntry(k, tool, state) ==
  [id |-> k, tool |-> tool, state |-> state, stamp |-> now, nth |-> Len(puts) + 1]

Oldest(S) == CHOOSE t \in S : \A u \in S : t.nth <= u.nth

\* Variant: a full store drops the task that was just put.
PutEvictsNewest(k, tool, state) ==
  LET task == NewEntry(k, tool, state)
      all  == {t \in tasks : t.id # k} \cup {task}
  IN /\ tasks' = IF Cardinality(all) > MaxTasks THEN all \ {task} ELSE all
     /\ puts' = Append(puts, task)

\* TaskStore.put: the entry of the task is replaced; when there are too many
\* now, the oldest goes.
Put(k, tool, state) ==
  LET task == NewEntry(k, tool, state)
      all  == {t \in tasks : t.id # k} \cup {task}
  IN /\ tasks' = IF Cardinality(all) > MaxTasks THEN all \ {Oldest(all)} ELSE all
     /\ puts' = Append(puts, task)

GetTask(c) ==
  /\ At(c, "route") /\ call[c].req.op = "get"
  /\ Reply(c, IF Stored(call[c].task) = {} THEN "not_found"
              ELSE Task(call[c].task).state)
  /\ Look(call[c].task)
  /\ UNCHANGED <<coming, now, limiterVars, made, puts, browserVars>>

\* Only a task that waits for its payment can be canceled.
CancelTask(c) ==
  /\ At(c, "route") /\ call[c].req.op = "cancel"
  /\ LET k == call[c].task IN
       IF Stored(k) = {} THEN Reply(c, "not_found") /\ Look(k) /\ UNCHANGED puts
       ELSE IF Task(k).state # "input-required"
         THEN Reply(c, "not_cancelable") /\ UNCHANGED <<tasks, puts>>
         ELSE Reply(c, "canceled") /\ Put(k, Task(k).tool, "canceled")
  /\ UNCHANGED <<coming, now, limiterVars, made, browserVars>>

\* A SendMessage that names no skill takes the one of the task it follows.
Skill(c) ==
  LET k == call[c].task IN
    IF call[c].tool # None THEN call[c].tool
    ELSE IF k = None \/ Stored(k) = {} THEN None ELSE Task(k).tool

SendMessage(c) ==
  /\ At(c, "route") /\ call[c].req.op = "job" /\ call[c].req.via = "a2a"
  /\ IF Skill(c) = None
       THEN Reply(c, IF call[c].task = None THEN "free" ELSE "not_found")
       ELSE call' = [call EXCEPT ![c].tool = Skill(c), ![c].step = Pool(Skill(c))]
  /\ Look(call[c].task)
  /\ UNCHANGED <<coming, now, limiterVars, made, puts, browserVars>>

StateOf(told) == CASE told = "delivered" -> "completed"
                   [] told \in {"payment_required", "withheld"} -> "input-required"
                   [] OTHER -> "failed"

\* The tool's result becomes the task's new state, whatever it is by now.
NewTask(c) ==
  /\ At(c, "task")
  /\ LET k == IF call[c].task = None THEN made + 1 ELSE call[c].task IN
       /\ Put(k, call[c].tool, StateOf(call[c].told))
       /\ made' = IF call[c].task = None THEN made + 1 ELSE made
       /\ call' = [call EXCEPT ![c].step = "done", ![c].task = k]
  /\ UNCHANGED <<coming, now, limiterVars, browserVars>>

-----------------------------------------------------------------------------
\* One paid job.
TakeThread(c, t) ==
  /\ At(c, "queued") /\ \A b \in Calls : call[b].thread # t
  /\ call' = [call EXCEPT ![c].step = "gate", ![c].thread = t]
  /\ UNCHANGED <<coming, now, limiterVars, taskVars, browserVars>>

\* A target this node will not fetch, or no input: refused before the
\* limiter and before any payment is read.
RefuseInput(c) ==
  /\ At(c, "gate") /\ ~call[c].req.fit /\ Outcome(c, "bad_input")
  /\ UNCHANGED <<coming, now, limiterVars, taskVars, browserVars>>

\* _authorize_and_rate_limit: the limiter, then the payment, which a prepaid
\* key makes now and an x402 payer after the work.
Gate(c) ==
  /\ At(c, "gate") /\ call[c].req.fit
  /\ \E passes \in BOOLEAN :
       /\ LimiterCheck(c, passes)
       /\ IF passes
            THEN \E accepted \in IF call[c].req.pay = "none" THEN {FALSE} ELSE BOOLEAN :
              LET seen == [call[c] EXCEPT !.hit = now, !.touched = call[c].req.pay # "none"]
              IN IF accepted
                   THEN call' = [call EXCEPT ![c] =
                          [seen EXCEPT !.step = "work",
                                       !.charged = call[c].req.pay = "prepaid"]]
                   ELSE call' = [call EXCEPT ![c] = Told(seen, "payment_required")]
            ELSE Outcome(c, "rate_limited")
  /\ UNCHANGED <<coming, now, taskVars, browserVars>>

\* Variant: the answer is the same, the prepaid cents are not given back.
FailStillBilled(c) == call' = [call EXCEPT ![c] = Told(call[c], "failed")]

\* _unbill_failed_audit and the text that says so.
Fail(c) ==
  call' = [call EXCEPT ![c] = Told([call[c] EXCEPT !.charged = FALSE], "failed")]

-----------------------------------------------------------------------------
\* The pooled browser of a thread: "wedged" is connected but opens no
\* context, "gone" says it is not connected.
Pooled(t) == IF browser[t] = "gone" THEN "none" ELSE browser[t]
SetBrowser(t, b) == browser' = [browser EXCEPT ![t] = b]

\* _get_browser and new_context, tried twice: a browser that opens no context
\* is closed and replaced; one that cannot be launched fails the audit.
OpenContext(c) ==
  /\ At(c, "work") /\ call[c].tool = "audit"
  /\ LET t == call[c].thread IN
       \/ /\ Pooled(t) = "wedged" /\ SetBrowser(t, "none") /\ UNCHANGED crashes
          /\ IF call[c].tries = 0 THEN call' = [call EXCEPT ![c].tries = 1]
             ELSE Fail(c)
       \/ Pooled(t) = "live" /\ Goto(c, "page") /\ UNCHANGED browserVars
       \/ /\ Pooled(t) = "none"
          /\ SetBrowser(t, "live") /\ Goto(c, "page") /\ UNCHANGED crashes
       \/ /\ Pooled(t) = "none" /\ crashes < MaxCrashes /\ crashes' = crashes + 1
          /\ SetBrowser(t, "none") /\ Fail(c)
  /\ UNCHANGED <<coming, now, limiterVars, taskVars>>

\* The audit of the page succeeds or raises; a context that will not close
\* takes its browser with it.  A failed audit is not tried again.
RunPage(c) ==
  /\ At(c, "page")
  /\ LET t == call[c].thread IN
       /\ SetBrowser(t, IF browser[t] = "live" THEN "live" ELSE "none")
       /\ \/ browser[t] = "live" /\ Goto(c, "bill")
          \/ Fail(c)
  /\ UNCHANGED <<coming, now, limiterVars, taskVars, crashes>>

\* A worker job runs on the loop under limits of its own (WorkerServe).
RunWorker(c) ==
  /\ At(c, "work") /\ call[c].tool = "worker"
  /\ Goto(c, "bill") \/ Fail(c)
  /\ UNCHANGED <<coming, now, limiterVars, taskVars, browserVars>>

\* _bill, then _settlement_refused: only a refusal withholds the result; a
\* settlement without an answer may have moved the money and delivers.
Bill(c) ==
  /\ At(c, "bill")
  /\ \E settle \in IF call[c].req.pay = "x402"
                     THEN {"settled", "pending", "refused"} ELSE {"settled"} :
       call' = [call EXCEPT ![c] =
         Told([call[c] EXCEPT !.charged = settle # "refused"],
              IF settle = "refused" THEN "withheld" ELSE "delivered")]
  /\ UNCHANGED <<coming, now, limiterVars, taskVars, browserVars>>

BrowserDies(t, how) ==
  /\ browser[t] = "live" /\ crashes < MaxCrashes
  /\ crashes' = crashes + 1 /\ SetBrowser(t, how)
  /\ UNCHANGED <<coming, now, limiterVars, taskVars, call>>

-----------------------------------------------------------------------------
LoopStep(c) ==
  \/ BodyLimit(c) \/ PriceProbe(c) \/ ReadBody(c)
  \/ Free(c) \/ GetTask(c) \/ CancelTask(c) \/ SendMessage(c)
  \/ NewTask(c)

JobStep(c) == RefuseInput(c) \/ Gate(c) \/ OpenContext(c) \/ RunWorker(c) \/ Bill(c)

Next ==
  \/ Tick
  \/ \E c \in Calls, r \in coming, k \in TaskIds \cup {None} : Arrive(c, r, k)
  \/ \E c \in Calls : LoopStep(c) \/ JobStep(c) \/ RunPage(c)
  \/ \E c \in Calls, t \in Threads : TakeThread(c, t)
  \/ \E t \in Threads, how \in {"gone", "wedged"} : BrowserDies(t, how)

\* The event loop is scheduled.  Nothing is assumed of the threads: a page
\* may take as long as it likes.
Spec == Init /\ [][Next]_vars /\ \A c \in Calls : WF_vars(LoopStep(c))

-----------------------------------------------------------------------------
TypeOK ==
  /\ now \in 0 .. MaxTime /\ lastSweep \in 0 .. now /\ forgotten \subseteq Clients
  /\ \A k \in Clients : Cardinality(log[k]) <= Limit /\ \A h \in log[k] : h.at <= now
  /\ Cardinality(Table(log)) <= MaxKeys + 1
  /\ Cardinality(tasks) <= MaxTasks /\ made \in 0 .. MaxCalls
  /\ \A t \in tasks : t.id \in 1 .. made /\ t.tool \in {"audit", "worker"}
  /\ browser \in [Threads -> {"none", "live", "wedged", "gone"}]
  /\ \A c \in Calls : /\ call[c].req \in Requests \cup {None}
                      /\ call[c].thread \in Threads \cup {None}
                      /\ call[c].tries \in 0 .. 1

\* "Nothing was charged" is true whenever a call's own answer says it, on
\* every transport; and a request refused for its body or its input has not
\* had its payment read, so the corrected retry can use it again
\* (_reject_missing_input, _PriceUnpaidProbes, _settlement_refused).
RefusalIsFree ==
  \A c \in Calls :
    /\ call[c].told \in SaysFree => ~call[c].charged
    /\ call[c].told \in {"too_large", "bad_input"} => ~call[c].touched

Recent(c) == {b \in Calls : /\ call[b].hit # None /\ call[b].hit > now - Window
                            /\ call[b].req.client = call[c].req.client}

\* The limiter refuses a call only if its client really made Limit calls in
\* the window ("can only ever forgive a request, never wrongly deny one"),
\* and lets one more pass only for a client a full table has forgotten.
LimiterCounts ==
  [][\A c \in Calls :
       /\ (call[c].told # "rate_limited" /\ call'[c].told = "rate_limited")
            => Cardinality(Recent(c)) >= Limit
       /\ (call[c].hit = None /\ call'[c].hit # None)
            => Cardinality(Recent(c)) < Limit \/ call[c].req.client \in forgotten']_vars

\* A task stays in the store as it was last put, for its time to live,
\* unless MaxTasks others were put since: a paid follow-up that names only
\* its task finds what it is paying for.
Later(i) == {puts[j].id : j \in i + 1 .. Len(puts)}

TaskIsKept ==
  \A i \in DOMAIN puts :
    (Fresh(puts[i]) /\ puts[i].id \notin Later(i) /\ Cardinality(Later(i)) < MaxTasks)
      => Stored(puts[i].id) # {} /\ Task(puts[i].id) = puts[i]

\* Discovery, unpaid probes, refusals of a body, the methods of the task
\* store and a finished task's answer wait for the event loop alone: they are
\* given even while every audit thread is held by a page that never finishes
\* (_mcp_tools_call, health_check, _PriceUnpaidProbes).
OwedByLoop(c) ==
  \/ At(c, "task")
  \/ /\ call[c].step \notin {"none", "done"}
     /\ call[c].req.op # "job" \/ IsProbe(call[c].req) \/ call[c].req.size # "fits"

LoopNeverWaits == []<>(\A c \in Calls : ~OwedByLoop(c))

\* The text of a canceled task: "Canceled. Nothing was charged."
CanceledIsUncharged ==
  \A c, b \in Calls :
    call[c].told = "canceled" /\ call[b].task = call[c].task => ~call[b].charged

=============================================================================
