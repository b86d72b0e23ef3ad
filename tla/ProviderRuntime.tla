--------------------------- MODULE ProviderRuntime ---------------------------
(***************************************************************************)
(* The envelope of a worker job: run_with_policy and the circuit breakers  *)
(* of app/workers/runtime.py, JobContext.run of app/workers/context.py,    *)
(* the composite skills of app/workers/skills/, and the attempts that      *)
(* router.py writes to the ledger when the job ends.                       *)
(*                                                                         *)
(* Jobs are coroutines of one event loop that share the breakers.  A step  *)
(* is the code between two awaits: it starts when a provider answers, a    *)
(* timer fires or a job begins, and runs through breakers, fallback and    *)
(* the next steps of the skill until the job waits again or ends.  Time is *)
(* counted down: what is left of a budget, a wait, a cooldown.             *)
(***************************************************************************)
EXTENDS Integers, Sequences

CONSTANTS
  Jobs,         \* places of the semaphore, each for one job after another
  Providers,
  Skills,       \* skills: the configured providers of each ctx.run, and
                \* whether it reads a source the skill can do without
  Threshold,    \* _BREAKER_THRESHOLD
  Cooldown,     \* _BREAKER_COOLDOWN
  MaxAttempts,  \* max_attempts, or _MAX_ATTEMPTS
  MaxDelay,     \* the longest _backoff_delay
  Window,       \* per_attempt_seconds
  Deadline,     \* max_seconds of the worker
  Reserve       \* the time a skill keeps when it decides to read a source

StepType == [providers : Seq(Providers), source : BOOLEAN]

ASSUME RuntimeAssumption ==
  /\ Skills \subseteq Seq(StepType)
  /\ Threshold \in Nat \ {0} /\ Cooldown \in Nat \ {0}
  /\ MaxAttempts \in Nat \ {0} /\ MaxDelay \in Nat
  /\ Window \in Nat \ {0} /\ Deadline \in Nat \ {0} /\ Reserve \in Nat \ {0}

VARIABLES
  breaker,  \* failures and time since opened_at of each provider
  job       \* the job in each place

vars == <<breaker, job>>

\* An attempt, named by step, place in the fallback order and number.
Attempts == Nat \X Nat \X Nat

JobType ==
  [pc      : {"idle", "call", "sleep", "ended"},
   skill   : Skills \cup {<<>>},
   step    : Nat,               \* ctx.run under way
   at      : Nat,               \* provider in use, by place in the order
   n       : Nat,               \* attempt at it
   wait    : Nat,               \* until the call times out or the sleep ends
   budget  : Nat,               \* until ends_at of run_with_policy
   left    : Nat,               \* until deadline_at of the context
   gave    : SUBSET Nat,        \* steps whose value the skill holds
   made    : SUBSET Attempts,   \* attempts the job made so far
   noted   : SUBSET Attempts,   \* ctx.attempts
   missed  : SUBSET Attempts,   \* attempts that got no row in the ledger
   outcome : {"none", "ok", "invalid", "deadline", "failed"}]

NoJob ==
  [pc |-> "idle", skill |-> <<>>, step |-> 0, at |-> 0, n |-> 0, wait |-> 0,
   budget |-> 0, left |-> 0, gave |-> {}, made |-> {}, noted |-> {},
   missed |-> {}, outcome |-> "none"]

\* A breaker below the threshold.
Shut(failures) == [failures |-> failures, age |-> Cooldown]

Init ==
  /\ breaker = [p \in Providers |-> Shut(0)]
  /\ job = [j \in Jobs |-> NoJob]

Lesser(a, b) == IF a < b THEN a ELSE b

Least(S) == CHOOSE k \in S : \A m \in S : k <= m

-----------------------------------------------------------------------------
(* The breakers, as functions of their table.  opened_at is read at the       *)
(* threshold only: below it, the age is that of a breaker never opened.      *)

\* circuit_open answers TRUE.
IsOpen(b, p) == b[p].failures >= Threshold /\ b[p].age < Cooldown

\* Variant: asking a circuit that is still open starts its cooldown again.
TouchedRestarts(b, p) ==
  IF b[p].failures >= Threshold
    THEN [b EXCEPT ![p] = IF @.age >= Cooldown THEN Shut(Threshold - 1)
                                               ELSE [@ EXCEPT !.age = 0]]
    ELSE b

\* What circuit_open changes: after the cooldown it leaves one failure to go.
Touched(b, p) ==
  IF b[p].failures >= Threshold /\ b[p].age >= Cooldown
    THEN [b EXCEPT ![p] = Shut(Threshold - 1)]
    ELSE b

NoteSuccess(b, p) == [b EXCEPT ![p] = Shut(0)]

\* Failures beyond the threshold are not told apart.
NoteFailure(b, p) ==
  [b EXCEPT ![p] =
     IF @.failures + 1 >= Threshold THEN [failures |-> Threshold, age |-> 0]
                                    ELSE Shut(@.failures + 1)]

-----------------------------------------------------------------------------
(* The code between two awaits, as functions of job and breakers.            *)

Now(j, b) == [job |-> j, breaker |-> b]

ProviderAt(j, s, k) == j.skill[s].providers[k]

\* The job is over and the router writes a row for some of its attempts.
End(j, b, outcome, rows) ==
  Now([NoJob EXCEPT !.pc = "ended", !.outcome = outcome, !.missed = j.made \ rows,
                    !.gave = IF outcome = "ok" THEN j.gave ELSE {}], b)

\* An Attempt is appended and wait_for is given what is left, or the window
\* of an attempt if that is shorter.
Try(j, s, k, n) ==
  [j EXCEPT !.pc = "call", !.step = s, !.at = k, !.n = n,
            !.wait = Lesser(j.budget, Window), !.made = @ \cup {<<s, k, n>>}]

\* Providers of step s, from place k on, that no open circuit skips.
Closed(j, b, s, k) ==
  {m \in k..Len(j.skill[s].providers) : ~IsOpen(b, ProviderAt(j, s, m))}

FirstTry(j, b, s, k) ==
  LET m == Least(Closed(j, b, s, k)) IN
  Now(Try(j, s, m, 1), Touched(b, ProviderAt(j, s, m)))

\* Variant: every step has the whole deadline.
WithBudgetWhole(j) == [j EXCEPT !.budget = Deadline]

\* ctx.run gives the step what is left of the job, never the whole budget.
WithBudget(j) == [j EXCEPT !.budget = j.left]

\* The skill goes on with step s.  It passes over sources it has no time for
\* and sources whose providers are all skipped, gives up when it read none,
\* and is done after the last step.
GoOn(j, b, s) ==
  LET Skipped(t) == /\ j.skill[t].source
                    /\ j.left < Reserve \/ Closed(j, b, t, 1) = {}
      Steps   == {t \in s..Len(j.skill) : ~Skipped(t)}
      t       == Least(Steps)
      Sources == {u \in 1..(t - 1) : j.skill[u].source}
  IN IF Steps = {} THEN End(j, b, "ok", j.noted)
     ELSE IF Sources # {} /\ Sources \cap j.gave = {} /\ ~j.skill[t].source
       THEN End(j, b, "failed", {})
     ELSE IF j.left = 0 THEN End(j, b, "deadline", {})
     ELSE IF Closed(j, b, t, 1) = {} THEN End(j, b, "failed", {})
     ELSE FirstTry(WithBudget(j), b, t, 1)

\* execution.attempts
Execution(j) == {a \in j.made : a[1] = j.step}

\* Variant: the attempts of a step replace those before it.
NotedLast(j, attempts) == [j EXCEPT !.noted = attempts]

\* ctx.run extends its attempts.
Noted(j, attempts) == [j EXCEPT !.noted = @ \cup attempts]

\* run_with_policy raises and ctx.run adds what the exception carries to its
\* attempts.  A skill that reads sources catches the exception; otherwise the
\* router writes what the exception carries, and the context is gone.
Raise(j, b, outcome, carried) ==
  IF j.skill[j.step].source
    THEN GoOn(Noted(j, carried), b, j.step + 1)
    ELSE End(j, b, outcome, carried)

\* The loop over the providers goes on, or ends and raises with the attempts.
Fallback(j, b) ==
  LET k == j.at + 1
      m == Least(Closed(j, b, j.step, k))
  IN IF Closed(j, b, j.step, k) = {} THEN Raise(j, b, "failed", Execution(j))
     ELSE IF j.budget = 0
       THEN Raise(j, Touched(b, ProviderAt(j, j.step, m)), "deadline", {})
       ELSE FirstTry(j, b, j.step, k)

-----------------------------------------------------------------------------
Becomes(j, after) == job' = [job EXCEPT ![j] = after.job] /\ breaker' = after.breaker

\* A job gets a place: _run_job makes its context and calls the skill.
Begin(j) ==
  /\ job[j].pc \in {"idle", "ended"}
  /\ \E skill \in Skills :
       Becomes(j, GoOn([NoJob EXCEPT !.skill = skill, !.left = Deadline], breaker, 1))

\* The provider answers with a value that passes: the success is noted, the
\* step returns.  The skill may still not be able to sell the value: it
\* raises, of a source too if what it trips over is not a WorkerError.
Answer(j) ==
  LET mine  == Noted(job[j], Execution(job[j]))
      after == NoteSuccess(breaker, ProviderAt(job[j], job[j].step, job[j].at))
  IN /\ job[j].pc = "call"
     /\ \/ Becomes(j, GoOn([mine EXCEPT !.gave = @ \cup {mine.step}], after, mine.step + 1))
        \/ Becomes(j, Raise(mine, after, "failed", {}))
        \/ Becomes(j, End(mine, after, "failed", {}))

\* Another attempt is allowed and the delay before it fits in the budget.
Retries(j, delay) == j.n < MaxAttempts /\ delay < j.budget

\* A timeout, an error worth retrying, a value that does not pass or an
\* unknown exception: after a delay that fits in the budget the same provider
\* is tried again, whatever its circuit, up to max_attempts.
Fail(j) ==
  LET mine  == job[j]
      after == NoteFailure(breaker, ProviderAt(mine, mine.step, mine.at))
  IN /\ mine.pc = "call"
     /\ \E delay \in 0..MaxDelay :
          IF Retries(mine, delay)
            THEN Becomes(j, Now([mine EXCEPT !.pc = "sleep", !.wait = delay], after))
            ELSE Becomes(j, Fallback(mine, after))

\* PermanentProviderError counts against the provider, ProviderUnavailable
\* does not; neither is retried.
Refuse(j) ==
  LET mine == job[j] IN
  /\ mine.pc = "call"
  /\ \E after \in {breaker, NoteFailure(breaker, ProviderAt(mine, mine.step, mine.at))} :
       Becomes(j, Fallback(mine, after))

\* InvalidRequest goes straight out.
Invalid(j) ==
  /\ job[j].pc = "call"
  /\ Becomes(j, Raise(job[j], breaker, "invalid", {}))

\* Variant: what is left of the budget is not a timeout, only the window is.
TimeOutOfWindow(j) == job[j].wait = 0 /\ job[j].budget > 0 /\ Fail(j)

\* wait_for gives up on the provider.
TimeOut(j) == job[j].wait = 0 /\ Fail(j)

Wake(j) ==
  LET mine == job[j] IN
  /\ mine.pc = "sleep" /\ mine.wait = 0
  /\ IF mine.budget = 0
       THEN Becomes(j, Raise(mine, breaker, "deadline", {}))
       ELSE Becomes(j, Now(Try(mine, mine.step, mine.at, mine.n + 1), breaker))

\* GET /health reads breaker_state, which asks circuit_open of each breaker.
Health ==
  /\ breaker' = [p \in Providers |-> Touched(breaker, p)[p]]
  /\ UNCHANGED job

Minus1(t) == IF t > 0 THEN t - 1 ELSE 0

\* Time passes; a timer that is due may fire late.
Tick ==
  /\ job' = [j \in Jobs |->
       [job[j] EXCEPT !.wait = Minus1(@), !.budget = Minus1(@), !.left = Minus1(@)]]
  /\ breaker' = [p \in Providers |->
       [breaker[p] EXCEPT !.age = Lesser(@ + 1, Cooldown)]]

JobStep(j) == Begin(j) \/ Answer(j) \/ Fail(j) \/ Refuse(j) \/ Invalid(j) \/ Wake(j)

Next == (\E j \in Jobs : JobStep(j)) \/ Health \/ Tick

Spec == Init /\ [][Next]_vars

\* Time passes and timers fire; providers may stay silent, callers stay away.
FairSpec ==
  /\ Spec /\ WF_vars(Tick)
  /\ \A j \in Jobs : WF_vars(TimeOut(j)) /\ WF_vars(Wake(j))

-----------------------------------------------------------------------------
Busy(j) == job[j].pc \in {"call", "sleep"}

TypeOK ==
  /\ breaker \in [Providers -> [failures : 0..Threshold, age : 0..Cooldown]]
  /\ job \in [Jobs -> JobType]
  /\ \A j \in Jobs : Busy(j) =>
       /\ job[j].step \in 1..Len(job[j].skill)
       /\ job[j].at \in 1..Len(job[j].skill[job[j].step].providers)
       /\ job[j].n \in 1..MaxAttempts
       /\ job[j].left <= Deadline

\* "A composite can never run past the payment window by doing its work in
\* pieces": whatever a job waits for, in whichever step, try and provider,
\* ends within what is left of the job's one deadline.
WaitsEndInBudget ==
  \A j \in Jobs : Busy(j) => job[j].wait <= job[j].left

\* A job that is sold has every attempt in the ledger that went into what it
\* sells: "the one that forgets is the one that looks infinitely profitable".
SoldWorkIsCosted ==
  \A j \in Jobs : job[j].outcome = "ok" =>
    \A a \in job[j].missed : a[1] \notin job[j].gave

\* A provider whose circuit is open gets no new job; a job that is already
\* with it goes on retrying.
OpenCircuitOnlyRetried ==
  [][\A j \in Jobs : \A a \in job'[j].made \ job[j].made :
       a[3] = 1 /\ job'[j].pc = "call" =>
         ~IsOpen(breaker', ProviderAt(job'[j], a[1], a[2]))]_vars

\* An open circuit does not stay open, however many jobs keep asking for the
\* provider and whatever late failures restart the cooldown.
CircuitRecovers ==
  \A p \in Providers : []<>~IsOpen(breaker, p)

\* A breaker shields a provider that fails, and not for ever.
CircuitShields == OpenCircuitOnlyRetried /\ CircuitRecovers

\* A job ends whatever its providers do, even if none ever answers.
EveryJobEnds == \A j \in Jobs : []<>~Busy(j)

==============================================================================
