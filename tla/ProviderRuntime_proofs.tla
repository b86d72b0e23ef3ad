------------------------ MODULE ProviderRuntime_proofs ------------------------
(***************************************************************************)
(* Proofs about ProviderRuntime for any number of jobs and providers, any  *)
(* skills and any settings: types, the one deadline of a job, the ledger   *)
(* rows of what is sold, and the circuits a new attempt meets.             *)
(*                                                                         *)
(* A job that waits does so within the budget of its step, and the budget  *)
(* of a step lies within what is left of the job (Good).  The code between *)
(* two awaits is a few functions of a job and the breakers; each has a     *)
(* lemma, and the actions follow from them.                                *)
(***************************************************************************)
EXTENDS ProviderRuntime, TLAPS, WellFoundedInduction

Breakers == [Providers -> [failures : 0..Threshold, age : 0..Cooldown]]

\* A job on a skill, with its budgets inside each other.
Sound(j) ==
  /\ j \in JobType /\ j.skill \in Skills
  /\ j.left <= Deadline /\ j.budget <= j.left

\* A sound job under way at one of its steps, providers and attempts.
Waiting(j) ==
  /\ Sound(j)
  /\ j.step \in 1..Len(j.skill)
  /\ j.at \in 1..Len(j.skill[j.step].providers)
  /\ j.n \in 1..MaxAttempts
  /\ j.wait <= j.budget
  /\ j.pc = "sleep" => j.n < MaxAttempts

Good(j) == j \in JobType /\ (j.pc \in {"call", "sleep"} => Waiting(j))

\* What the code between two awaits leaves.
Fine(r) == Good(r.job) /\ r.breaker \in Breakers

IInv == breaker \in Breakers /\ job \in [Jobs -> JobType] /\ \A j \in Jobs : Good(job[j])

-----------------------------------------------------------------------------
(* The first provider or step of a set that has one.  (Code: the for loops of *)
(* run_with_policy.)                                                        *)
LEMMA LeastIsIn ==
  ASSUME NEW S \in SUBSET Nat, S # {}
  PROVE  Least(S) \in S
<1> DEFINE Below == {ss \in Nat \X Nat : ss[1] < ss[2]}
<1>0. OpToRel(<, Nat) = Below
  BY DEF OpToRel
<1>1. PICK k \in S : \A m \in S : ~(<<m, k>> \in Below)
  BY <1>0, NatLessThanWellFounded, WFMin, ZenonT(30)
<1>2. \A m, n \in Nat : m < n => <<m, n>> \in Below
  OBVIOUS
<1> HIDE DEF Below
<1>3. ASSUME NEW m \in S PROVE k <= m
  <2>1. k \in Nat /\ m \in Nat
    OBVIOUS
  <2>2. m < k => <<m, k>> \in Below
    BY <1>2, <2>1
  <2>3. ~(m < k)
    BY <1>1, <2>2
  <2> QED BY <2>1, <2>3
<1> QED BY <1>3 DEF Least

(* A step of a skill has a sequence of providers.                            *)
LEMMA SkillShape ==
  ASSUME NEW skill \in Skills, NEW s \in 1..Len(skill)
  PROVE  /\ skill \in Seq(StepType) /\ skill[s] \in StepType
         /\ skill[s].providers \in Seq(Providers)
         /\ \A k \in 1..Len(skill[s].providers) : skill[s].providers[k] \in Providers
<1>1. skill \in Seq(StepType) /\ skill[s] \in StepType
  BY RuntimeAssumption
<1> QED BY <1>1 DEF StepType

(* The breaker operations keep the table.                                    *)
LEMMA BreakersKept ==
  ASSUME NEW b \in Breakers, NEW p \in Providers
  PROVE  Touched(b, p) \in Breakers /\ NoteSuccess(b, p) \in Breakers
         /\ NoteFailure(b, p) \in Breakers
<1>1. \A f \in 0..Threshold : Shut(f) \in [failures : 0..Threshold, age : 0..Cooldown]
  BY RuntimeAssumption DEF Shut
<1>2. b[p] \in [failures : 0..Threshold, age : 0..Cooldown]
  BY DEF Breakers
<1>3. Threshold - 1 \in 0..Threshold /\ 0 \in 0..Threshold /\ Threshold \in 0..Threshold
      /\ 0 \in 0..Cooldown
  BY RuntimeAssumption
<1>4. Touched(b, p) \in Breakers
  BY <1>1, <1>2, <1>3 DEF Touched, Breakers
<1>5. NoteSuccess(b, p) \in Breakers
  BY <1>1, <1>2, <1>3 DEF NoteSuccess, Breakers
<1>6. NoteFailure(b, p) \in Breakers
  <2>1. b[p].failures + 1 < Threshold => b[p].failures + 1 \in 0..Threshold
    BY <1>2, RuntimeAssumption
  <2>2. CASE b[p].failures + 1 >= Threshold
    <3>1. NoteFailure(b, p) = [b EXCEPT ![p] = [failures |-> Threshold, age |-> 0]]
      BY <2>2 DEF NoteFailure
    <3> QED BY <3>1, <1>3 DEF Breakers
  <2>3. CASE ~(b[p].failures + 1 >= Threshold)
    <3>1. NoteFailure(b, p) = [b EXCEPT ![p] = Shut(b[p].failures + 1)]
      BY <2>3 DEF NoteFailure
    <3>2. b[p].failures + 1 \in 0..Threshold
      BY <1>2, <2>1, <2>3, RuntimeAssumption
    <3> QED BY <1>1, <3>1, <3>2 DEF Breakers
  <2> QED BY <2>2, <2>3
<1> QED BY <1>4, <1>5, <1>6

-----------------------------------------------------------------------------
(* A job that ended is of its type, whatever it left.  (Code: serve.)        *)
LEMMA EndFine ==
  ASSUME NEW j \in JobType, NEW b \in Breakers,
         NEW outcome \in {"ok", "invalid", "deadline", "failed"}, NEW rows
  PROVE  Fine(End(j, b, outcome, rows))
  BY ZenonT(30) DEF Fine, Good, End, Now, NoJob, JobType

(* An attempt at provider k of step s waits within the step's budget.        *)
LEMMA TryWaiting ==
  ASSUME NEW j, Sound(j), NEW s \in 1..Len(j.skill),
         NEW k \in 1..Len(j.skill[s].providers), NEW n \in 1..MaxAttempts
  PROVE  Good(Try(j, s, k, n))
<1>1. s \in Nat /\ k \in Nat /\ n \in Nat /\ <<s, k, n>> \in Attempts
  BY SkillShape, RuntimeAssumption DEF Sound, Attempts
<1>2. Lesser(j.budget, Window) \in Nat /\ Lesser(j.budget, Window) <= j.budget
  BY RuntimeAssumption DEF Lesser, Sound, JobType
<1>3. Try(j, s, k, n) \in JobType
  BY <1>1, <1>2 DEF Try, Sound, JobType
<1>4. Waiting(Try(j, s, k, n))
  BY <1>1, <1>2, <1>3 DEF Try, Waiting, Sound, JobType
<1> QED BY <1>3, <1>4 DEF Good

LEMMA FirstTryFine ==
  ASSUME NEW j, Sound(j), NEW b \in Breakers, NEW s \in 1..Len(j.skill),
         NEW k \in Nat \ {0}, Closed(j, b, s, k) # {}
  PROVE  Fine(FirstTry(j, b, s, k))
<1> DEFINE m == Least(Closed(j, b, s, k))
<1>1. m \in 1..Len(j.skill[s].providers)
  <2>1. Len(j.skill[s].providers) \in Nat
    BY SkillShape DEF Sound
  <2>2. Closed(j, b, s, k) \subseteq 1..Len(j.skill[s].providers)
    BY <2>1 DEF Closed
  <2> QED BY <2>1, <2>2, LeastIsIn
<1>2. Good(Try(j, s, m, 1))
  BY <1>1, TryWaiting, RuntimeAssumption
<1>3. Touched(b, ProviderAt(j, s, m)) \in Breakers
  BY <1>1, SkillShape, BreakersKept DEF ProviderAt, Sound
<1> QED BY <1>2, <1>3 DEF FirstTry, Now, Fine

(* The skill goes on from any step, or past the last.  (Code: the composites.) *)
LEMMA GoOnFine ==
  ASSUME NEW j, Sound(j), NEW b \in Breakers, NEW s \in Nat \ {0}
  PROVE  Fine(GoOn(j, b, s))
<1> DEFINE Skipped(t) == /\ j.skill[t].source
                         /\ j.left < Reserve \/ Closed(j, b, t, 1) = {}
           S == {t \in s..Len(j.skill) : ~Skipped(t)}
           t == Least(S)
<1>1. j \in JobType /\ \A o \in {"ok", "failed", "deadline"} :
        \A rows : Fine(End(j, b, o, rows))
  BY EndFine DEF Sound
<1>2. ASSUME S # {}, Closed(j, b, t, 1) # {}
      PROVE  Fine(FirstTry(WithBudget(j), b, t, 1))
  <2>1. S \subseteq 1..Len(j.skill) /\ Len(j.skill) \in Nat
    BY RuntimeAssumption DEF Sound
  <2>2. t \in 1..Len(j.skill)
    BY <1>2, <2>1, LeastIsIn, SMTT(30)
  <2>3. Sound(WithBudget(j)) /\ WithBudget(j).skill = j.skill
    BY DEF Sound, WithBudget, JobType
  <2>4. Closed(WithBudget(j), b, t, 1) # {}
    BY <1>2, <2>3 DEF Closed, ProviderAt
  <2> QED BY <2>2, <2>3, <2>4, FirstTryFine
<1> QED BY <1>1, <1>2 DEF GoOn

(* What an exception or a value leaves of a waiting job.  (Code: ctx.run.)   *)
LEMMA RaiseFine ==
  ASSUME NEW j, Waiting(j), NEW b \in Breakers,
         NEW outcome \in {"ok", "invalid", "deadline", "failed"},
         NEW carried \in SUBSET Attempts
  PROVE  Fine(Raise(j, b, outcome, carried))
<1>1. Sound(Noted(j, carried))
  BY DEF Noted, Waiting, Sound, JobType
<1>2. j.step + 1 \in Nat \ {0}
  BY DEF Waiting, Sound, JobType
<1>3. Fine(GoOn(Noted(j, carried), b, j.step + 1))
  BY <1>1, <1>2, GoOnFine
<1>4. Fine(End(j, b, outcome, carried))
  BY EndFine DEF Waiting, Sound
<1> QED BY <1>3, <1>4 DEF Raise

LEMMA FallbackFine ==
  ASSUME NEW j, Waiting(j), NEW b \in Breakers
  PROVE  Fine(Fallback(j, b))
<1> DEFINE k == j.at + 1
           C == Closed(j, b, j.step, k)
           m == Least(C)
<1>1. k \in Nat \ {0} /\ Sound(j) /\ j.step \in 1..Len(j.skill)
  BY DEF Waiting, Sound, JobType
<1>2. Execution(j) \in SUBSET Attempts
  BY DEF Execution, Waiting, Sound, JobType
<1>3. Fine(Raise(j, b, "failed", Execution(j)))
  BY <1>2, RaiseFine
<1>4. ASSUME C # {} PROVE Fine(FirstTry(j, b, j.step, k))
  BY <1>1, <1>4, FirstTryFine
<1>5. ASSUME C # {}
      PROVE  Fine(Raise(j, Touched(b, ProviderAt(j, j.step, m)), "deadline", {}))
  <2>1. C \subseteq 1..Len(j.skill[j.step].providers)
        /\ Len(j.skill[j.step].providers) \in Nat
    BY <1>1, SkillShape DEF Closed, Sound
  <2>2. m \in 1..Len(j.skill[j.step].providers)
    BY <1>5, <2>1, LeastIsIn
  <2>3. Touched(b, ProviderAt(j, j.step, m)) \in Breakers
    BY <1>1, <2>2, SkillShape, BreakersKept DEF ProviderAt, Sound
  <2> QED BY <2>3, RaiseFine
<1> QED BY <1>3, <1>4, <1>5 DEF Fallback

-----------------------------------------------------------------------------
(* A job that becomes what such code leaves keeps the invariant.             *)
LEMMA BecomesKeepsIInv ==
  ASSUME IInv, NEW j \in Jobs, NEW r, Fine(r), Becomes(j, r)
  PROVE  IInv'
<1>1. breaker' \in Breakers /\ Good(r.job) /\ r.job \in JobType
  BY DEF Becomes, Fine, Good
<1>2. job' = [job EXCEPT ![j] = r.job] /\ job \in [Jobs -> JobType]
  BY DEF Becomes, IInv
<1>3. job' \in [Jobs -> JobType]
  BY <1>1, <1>2
<1>4. ASSUME NEW d \in Jobs PROVE Good(job'[d])
  BY <1>1, <1>2 DEF IInv
<1>5. \A d \in Jobs : Good(job[d])'
  BY <1>4 DEF Good, Waiting, Sound
<1> QED BY <1>1, <1>3, <1>5 DEF IInv, Breakers

LEMMA InitIInv == Init => IInv
<1> SUFFICES ASSUME Init PROVE IInv
  OBVIOUS
<1>1. breaker \in Breakers
  BY RuntimeAssumption DEF Init, Shut, Breakers
<1>2. NoJob \in JobType /\ NoJob.pc = "idle"
  BY DEF NoJob, JobType
<1> QED BY <1>1, <1>2 DEF Init, IInv, Good

(* The provider in use is one, and its breaker's operations keep the table.   *)
LEMMA InUse ==
  ASSUME IInv, NEW j \in Jobs, job[j].pc \in {"call", "sleep"}
  PROVE  /\ Waiting(job[j]) /\ breaker \in Breakers
         /\ LET p == ProviderAt(job[j], job[j].step, job[j].at) IN
              NoteSuccess(breaker, p) \in Breakers /\ NoteFailure(breaker, p) \in Breakers
<1>1. Waiting(job[j]) /\ breaker \in Breakers
  BY DEF IInv, Good
<1>2. ProviderAt(job[j], job[j].step, job[j].at) \in Providers
  BY <1>1, SkillShape DEF ProviderAt, Waiting, Sound
<1> QED BY <1>1, <1>2, BreakersKept

-----------------------------------------------------------------------------
(* A job that got a value is under way as before.  (Code: Execution.value.)  *)
LEMMA GivenSound ==
  ASSUME NEW i, Waiting(i)
  PROVE  /\ Sound([i EXCEPT !.gave = @ \cup {i.step}]) /\ i.step + 1 \in Nat \ {0}
         /\ [i EXCEPT !.gave = @ \cup {i.step}].made = i.made
<1>1. Sound([i EXCEPT !.gave = @ \cup {i.step}]) /\ i.step + 1 \in Nat \ {0}
  BY SMTT(30) DEF Waiting, Sound, JobType
<1>2. i \in JobType
  BY DEF Waiting, Sound
<1>3. [i EXCEPT !.gave = @ \cup {i.step}].made = i.made
  BY <1>2 DEF JobType
<1> QED BY <1>1, <1>3

(* A job begins with its whole deadline.  (Code: _run_job.)                   *)
LEMMA StartSound ==
  ASSUME NEW skill \in Skills
  PROVE  Sound([NoJob EXCEPT !.skill = skill, !.left = Deadline])
<1>1. NoJob \in JobType /\ NoJob.budget = 0
  BY DEF NoJob, JobType
<1>2. ASSUME NEW i \in JobType, i.budget = 0
      PROVE  Sound([i EXCEPT !.skill = skill, !.left = Deadline])
  <2>1. Deadline \in Nat /\ 0 <= Deadline /\ Deadline <= Deadline
    BY RuntimeAssumption
  <2> QED BY <1>2, <2>1 DEF JobType, Sound
<1> QED BY <1>1, <1>2

(* One lemma per group of actions.                                           *)
LEMMA BeginKeepsIInv ==
  ASSUME IInv, NEW j \in Jobs, Begin(j) PROVE IInv'
<1>1. PICK skill \in Skills :
        Becomes(j, GoOn([NoJob EXCEPT !.skill = skill, !.left = Deadline], breaker, 1))
  BY DEF Begin
<1>2. Sound([NoJob EXCEPT !.skill = skill, !.left = Deadline])
  BY StartSound
<1>3. breaker \in Breakers
  BY DEF IInv
<1> QED BY <1>1, <1>2, <1>3, GoOnFine, BecomesKeepsIInv

LEMMA AnswerKeepsIInv ==
  ASSUME IInv, NEW j \in Jobs, Answer(j) PROVE IInv'
<1> DEFINE mine  == Noted(job[j], Execution(job[j]))
           after == NoteSuccess(breaker, ProviderAt(job[j], job[j].step, job[j].at))
           given == [mine EXCEPT !.gave = @ \cup {mine.step}]
<1>1. Waiting(job[j]) /\ after \in Breakers
  BY InUse DEF Answer
<1>2. Waiting(mine) /\ mine \in JobType
  <2>1. Execution(job[j]) \in SUBSET Attempts
    BY <1>1 DEF Execution, Waiting, Sound, JobType
  <2> QED BY <1>1, <2>1 DEF Noted, Waiting, Sound, JobType
<1>3. Sound(given) /\ mine.step + 1 \in Nat \ {0}
  BY <1>2, GivenSound
<1>4. Fine(GoOn(given, after, mine.step + 1))
  BY <1>1, <1>3, GoOnFine
<1>5. Fine(Raise(mine, after, "failed", {}))
  BY <1>1, <1>2, RaiseFine
<1>6. Fine(End(mine, after, "failed", {}))
  BY <1>1, <1>2, EndFine
<1> QED BY <1>4, <1>5, <1>6, BecomesKeepsIInv DEF Answer

LEMMA FailKeepsIInv ==
  ASSUME IInv, NEW j \in Jobs, Fail(j) PROVE IInv'
<1> DEFINE mine  == job[j]
           after == NoteFailure(breaker, ProviderAt(mine, mine.step, mine.at))
<1>1. Waiting(mine) /\ after \in Breakers
  BY InUse DEF Fail
<1>2. Fine(Fallback(mine, after))
  BY <1>1, FallbackFine
<1>3. ASSUME NEW delay \in 0..MaxDelay, Retries(mine, delay)
      PROVE  Fine(Now([mine EXCEPT !.pc = "sleep", !.wait = delay], after))
  <2>1. delay \in Nat /\ delay <= mine.budget
    BY <1>1, <1>3, RuntimeAssumption DEF Retries, Waiting, Sound, JobType
  <2>2. Good([mine EXCEPT !.pc = "sleep", !.wait = delay])
    BY <1>1, <1>3, <2>1 DEF Good, Waiting, Sound, JobType, Retries
  <2> QED BY <1>1, <2>2 DEF Fine, Now
<1> QED BY <1>2, <1>3, BecomesKeepsIInv DEF Fail

LEMMA ErrorKeepsIInv ==
  ASSUME IInv, NEW j \in Jobs, Refuse(j) \/ Invalid(j) PROVE IInv'
<1>1. Waiting(job[j]) /\ breaker \in Breakers
      /\ NoteFailure(breaker, ProviderAt(job[j], job[j].step, job[j].at)) \in Breakers
  BY InUse DEF Refuse, Invalid
<1>2. ASSUME NEW after \in {breaker, NoteFailure(breaker,
                             ProviderAt(job[j], job[j].step, job[j].at))}
      PROVE  Fine(Fallback(job[j], after))
  BY <1>1, FallbackFine
<1>3. Fine(Raise(job[j], breaker, "invalid", {}))
  BY <1>1, RaiseFine
<1> QED BY <1>2, <1>3, BecomesKeepsIInv DEF Refuse, Invalid

LEMMA WakeKeepsIInv ==
  ASSUME IInv, NEW j \in Jobs, Wake(j) PROVE IInv'
<1>1. Waiting(job[j]) /\ breaker \in Breakers
  BY InUse DEF Wake
<1>2. Fine(Raise(job[j], breaker, "deadline", {}))
  BY <1>1, RaiseFine
<1>3. Fine(Now(Try(job[j], job[j].step, job[j].at, job[j].n + 1), breaker))
  <2>1. job[j].n + 1 \in 1..MaxAttempts
    BY <1>1, RuntimeAssumption DEF Waiting, Wake
  <2>2. Good(Try(job[j], job[j].step, job[j].at, job[j].n + 1))
    BY <1>1, <2>1, TryWaiting DEF Waiting
  <2> QED BY <1>1, <2>2 DEF Fine, Now
<1> QED BY <1>2, <1>3, BecomesKeepsIInv DEF Wake

(* Time takes from every wait at most what it takes from the budgets.        *)
LEMMA TimeKeepsIInv ==
  ASSUME IInv, Tick \/ Health \/ UNCHANGED vars PROVE IInv'
<1>1. CASE UNCHANGED vars
  BY <1>1 DEF IInv, Good, Waiting, Sound, vars, Breakers
<1>2. CASE Health
  <2>1. ASSUME NEW p \in Providers
        PROVE  Touched(breaker, p)[p] \in [failures : 0..Threshold, age : 0..Cooldown]
    <3>1. Touched(breaker, p) \in Breakers
      BY BreakersKept DEF IInv
    <3> QED BY <3>1 DEF Breakers
  <2>2. breaker' \in Breakers
    BY <1>2, <2>1 DEF Health, Breakers
  <2> QED BY <1>2, <2>2 DEF Health, IInv, Good, Waiting, Sound, Breakers
<1>3. CASE Tick
  <2> DEFINE Later(j) == [j EXCEPT !.wait = Minus1(@), !.budget = Minus1(@),
                                   !.left = Minus1(@)]
  <2>1. ASSUME NEW t \in Nat, NEW u \in Nat, t <= u
        PROVE  Minus1(t) \in Nat /\ Minus1(t) <= t /\ Minus1(t) <= Minus1(u)
    BY <2>1 DEF Minus1
  <2>2. ASSUME NEW j \in JobType, Good(j)
        PROVE  Later(j) \in JobType /\ Good(Later(j))
    <3>1. Minus1(j.wait) \in Nat /\ Minus1(j.budget) \in Nat /\ Minus1(j.left) \in Nat
          /\ Minus1(j.left) <= j.left
      BY <2>1 DEF JobType
    <3>2. Later(j) \in JobType
      BY <3>1 DEF JobType
    <3>3. ASSUME Waiting(j) PROVE Waiting(Later(j))
      <4>1. Minus1(j.wait) <= Minus1(j.budget) /\ Minus1(j.budget) <= Minus1(j.left)
            /\ Minus1(j.left) <= Deadline
        <5>1. j.wait \in Nat /\ j.budget \in Nat /\ j.left \in Nat /\ Deadline \in Nat
          BY RuntimeAssumption DEF JobType
        <5>2. j.wait <= j.budget /\ j.budget <= j.left /\ j.left <= Deadline
          BY <3>3 DEF Waiting, Sound
        <5>3. Minus1(j.wait) <= Minus1(j.budget) /\ Minus1(j.budget) <= Minus1(j.left)
          BY <2>1, <5>1, <5>2
        <5> QED BY <3>1, <5>1, <5>2, <5>3
      <4> QED BY <3>2, <3>3, <4>1 DEF Waiting, Sound, JobType
    <3> QED BY <2>2, <3>2, <3>3 DEF Good, JobType
  <2>3. breaker' \in Breakers
    <3>1. ASSUME NEW p \in Providers
          PROVE  [breaker[p] EXCEPT !.age = Lesser(@ + 1, Cooldown)]
                   \in [failures : 0..Threshold, age : 0..Cooldown]
      <4>1. breaker[p] \in [failures : 0..Threshold, age : 0..Cooldown]
        BY DEF IInv, Breakers
      <4>2. Lesser(breaker[p].age + 1, Cooldown) \in 0..Cooldown
        BY <4>1, RuntimeAssumption DEF Lesser
      <4> QED BY <4>1, <4>2
    <3> QED BY <1>3, <3>1 DEF Tick, Breakers
  <2>4. ASSUME NEW d \in Jobs PROVE job'[d] \in JobType /\ Good(job'[d])
    <3>1. job[d] \in JobType /\ Good(job[d]) /\ job'[d] = Later(job[d])
      BY <1>3 DEF Tick, IInv
    <3> QED BY <2>2, <3>1
  <2>5. job' \in [Jobs -> JobType]
    BY <1>3, <2>4 DEF Tick
  <2>6. \A d \in Jobs : Good(job[d])'
    BY <2>4 DEF Good, Waiting, Sound
  <2> QED BY <2>3, <2>5, <2>6 DEF IInv, Breakers
<1> QED BY <1>1, <1>2, <1>3

LEMMA StepIInv == IInv /\ [Next]_vars => IInv'
<1> SUFFICES ASSUME IInv, [Next]_vars PROVE IInv'
  OBVIOUS
<1>1. ASSUME NEW j \in Jobs, JobStep(j) PROVE IInv'
  BY <1>1, BeginKeepsIInv, AnswerKeepsIInv, FailKeepsIInv, ErrorKeepsIInv, WakeKeepsIInv
  DEF JobStep
<1>2. CASE Tick \/ Health \/ UNCHANGED vars
  BY <1>2, TimeKeepsIInv
<1> QED BY <1>1, <1>2 DEF Next

(* The inductive invariant holds of every reachable state.                   *)
THEOREM Invariant == Spec => []IInv
<1> QED BY InitIInv, StepIInv, PTL DEF Spec

(* Breakers, jobs and their attempts only ever hold values of their kinds, a  *)
(* job that waits is at a step and a provider of its skill, and an attempt   *)
(* is never one too many.  (Code: run_with_policy.)                          *)
THEOREM TypeCorrect == Spec => []TypeOK
<1>1. IInv => TypeOK
  BY DEF IInv, Good, Waiting, Sound, Busy, TypeOK, Breakers
<1> QED BY <1>1, Invariant, PTL

(* However many steps, retries and fallbacks a job takes, what it waits for   *)
(* ends within its one deadline.  (Code: JobContext.run, ends_at.)           *)
THEOREM DeadlineIsShared == Spec => []WaitsEndInBudget
<1>1. ASSUME IInv, NEW j \in Jobs, Busy(j) PROVE job[j].wait <= job[j].left
  <2>1. Waiting(job[j]) /\ job[j] \in JobType
    BY <1>1 DEF IInv, Good, Busy
  <2> QED BY <2>1 DEF Waiting, Sound, JobType
<1>2. IInv => WaitsEndInBudget
  BY <1>1 DEF WaitsEndInBudget
<1> QED BY <1>2, Invariant, PTL

-----------------------------------------------------------------------------
(* The ledger.  A job goes on with every attempt of the steps that gave it a   *)
(* value noted, and with the step under way not among them.                  *)
Account(j, s) ==
  /\ j.outcome = "none"
  /\ \A a \in j.made : a[1] \in j.gave => a \in j.noted
  /\ \A g \in j.gave : g < s

\* A job under way keeps its account, one that was sold is costed.
Kept(j) ==
  /\ j.pc \in {"call", "sleep"} => Account(j, j.step)
  /\ j.outcome = "ok" => \A a \in j.missed : a[1] \notin j.gave

CostInv == \A j \in Jobs : Kept(job[j])

(* A job that is not sold holds nothing that needs a row.                    *)
LEMMA EndKept ==
  ASSUME NEW j, NEW b, NEW outcome, NEW rows, outcome # "ok"
  PROVE  Kept(End(j, b, outcome, rows).job)
BY DEF Kept, End, Now, NoJob

(* An attempt at a step after those that gave a value.                        *)
LEMMA TryKept ==
  ASSUME NEW j \in JobType, NEW s \in Nat, NEW k, NEW n, Account(j, s)
  PROVE  Kept(Try(j, s, k, n))
<1> DEFINE t == Try(j, s, k, n)
<1>1. /\ t.outcome = j.outcome /\ t.gave = j.gave /\ t.noted = j.noted
      /\ t.made = j.made \cup {<<s, k, n>>} /\ t.step = s
  BY DEF Try, JobType
<1>2. s \notin j.gave
  BY DEF Account
<1>3. <<s, k, n>>[1] = s
  OBVIOUS
<1>4. Account(t, s)
  BY <1>1, <1>2, <1>3 DEF Account
<1> QED BY <1>1, <1>4 DEF Kept, Account

(* A skill that goes on past its last step is sold with its attempts, and any *)
(* other step comes after those that gave a value.  (Code: the composites.)  *)
LEMMA GoOnKept ==
  ASSUME NEW j, Sound(j), NEW b, NEW s \in Nat \ {0}, Account(j, s)
  PROVE  Kept(GoOn(j, b, s).job)
<1> DEFINE Skipped(t) == /\ j.skill[t].source
                         /\ j.left < Reserve \/ Closed(j, b, t, 1) = {}
           S == {t \in s..Len(j.skill) : ~Skipped(t)}
           t == Least(S)
<1>1. Kept(End(j, b, "ok", j.noted).job)
  BY DEF Kept, End, Now, NoJob, Account
<1>2. Kept(End(j, b, "failed", {}).job) /\ Kept(End(j, b, "deadline", {}).job)
  BY EndKept
<1>3. ASSUME S # {} PROVE Kept(FirstTry(WithBudget(j), b, t, 1).job)
  <2>1. S \subseteq Nat
    BY RuntimeAssumption DEF Sound
  <2>2. t \in S
    BY <1>3, <2>1, LeastIsIn
  <2>3. t \in Nat /\ s <= t
    BY <2>1, <2>2
  <2>4. j.gave \subseteq Nat
    BY DEF Sound, JobType
  <2>5. WithBudget(j) \in JobType /\ Account(WithBudget(j), t)
    <3>1. WithBudget(j) \in JobType
      BY DEF WithBudget, Sound, JobType
    <3>2. /\ WithBudget(j).outcome = j.outcome /\ WithBudget(j).made = j.made
          /\ WithBudget(j).gave = j.gave /\ WithBudget(j).noted = j.noted
      BY DEF WithBudget, Sound, JobType
    <3>3. \A g \in j.gave : g < t
      BY <2>3, <2>4 DEF Account
    <3> HIDE DEF t
    <3> QED BY <3>1, <3>2, <3>3 DEF Account
  <2> HIDE DEF t
  <2> QED BY <2>3, <2>5, TryKept DEF FirstTry, Now
<1> QED BY <1>1, <1>2, <1>3 DEF GoOn

(* So does an exception: what it carries is only added.  (Code: ctx.run.)    *)
LEMMA RaiseKept ==
  ASSUME NEW j, Waiting(j), NEW b, NEW outcome, outcome # "ok",
         NEW carried \in SUBSET Attempts, Account(j, j.step)
  PROVE  Kept(Raise(j, b, outcome, carried).job)
<1>1. Sound(Noted(j, carried)) /\ j.step + 1 \in Nat \ {0}
  BY SMTT(30) DEF Noted, Waiting, Sound, JobType
<1>2. Account(Noted(j, carried), j.step + 1)
  <2>1. /\ Noted(j, carried).outcome = j.outcome /\ Noted(j, carried).made = j.made
        /\ Noted(j, carried).gave = j.gave /\ j.noted \subseteq Noted(j, carried).noted
    BY DEF Noted, Waiting, Sound, JobType
  <2>2. \A g \in j.gave : g < j.step + 1
    BY DEF Account, Waiting, Sound, JobType
  <2> QED BY <2>1, <2>2 DEF Account
<1>3. Kept(GoOn(Noted(j, carried), b, j.step + 1).job)
  BY <1>1, <1>2, GoOnKept
<1> QED BY <1>3, EndKept DEF Raise

LEMMA FallbackKept ==
  ASSUME NEW j, Waiting(j), NEW b, Account(j, j.step)
  PROVE  Kept(Fallback(j, b).job)
<1>1. Execution(j) \in SUBSET Attempts /\ j \in JobType /\ j.step \in Nat
  BY DEF Execution, Waiting, Sound, JobType
<1>2. \A c : Kept(Raise(j, c, "failed", Execution(j)).job)
              /\ Kept(Raise(j, c, "deadline", {}).job)
  BY <1>1, RaiseKept
<1>3. Kept(FirstTry(j, b, j.step, j.at + 1).job)
  BY <1>1, TryKept DEF FirstTry, Now
<1> QED BY <1>2, <1>3 DEF Fallback

(* Every step keeps the accounts.                                            *)
LEMMA StepKeepsAccounts ==
  ASSUME IInv, CostInv, [Next]_vars
  PROVE  CostInv'
<1>1. ASSUME NEW j \in Jobs, NEW r, Kept(r.job), Becomes(j, r) PROVE CostInv'
  <2>1. \A d \in Jobs : job'[d] = IF d = j THEN r.job ELSE job[d]
    BY <1>1 DEF Becomes, IInv
  <2> QED BY <1>1, <2>1 DEF CostInv, Kept, Account
<1>2. ASSUME NEW j \in Jobs, job[j].pc \in {"call", "sleep"}
      PROVE  Waiting(job[j]) /\ Account(job[j], job[j].step) /\ job[j] \in JobType
  BY <1>2, InUse DEF CostInv, Kept, IInv
<1>3. ASSUME NEW j \in Jobs, Begin(j) PROVE CostInv'
  <2>1. PICK skill \in Skills :
          Becomes(j, GoOn([NoJob EXCEPT !.skill = skill, !.left = Deadline], breaker, 1))
    BY <1>3 DEF Begin
  <2>2. Account([NoJob EXCEPT !.skill = skill, !.left = Deadline], 1)
    BY DEF Account, NoJob
  <2>3. Kept(GoOn([NoJob EXCEPT !.skill = skill, !.left = Deadline], breaker, 1).job)
    <3>1. 1 \in Nat \ {0}
      OBVIOUS
    <3> QED BY <2>2, <3>1, StartSound, GoOnKept
  <2> QED BY <1>1, <2>1, <2>3
<1>4. ASSUME NEW j \in Jobs, Answer(j) PROVE CostInv'
  <2> DEFINE mine  == Noted(job[j], Execution(job[j]))
             after == NoteSuccess(breaker, ProviderAt(job[j], job[j].step, job[j].at))
             given == [mine EXCEPT !.gave = @ \cup {mine.step}]
  <2>1. Waiting(job[j]) /\ Account(job[j], job[j].step) /\ job[j] \in JobType
    BY <1>2, <1>4 DEF Answer
  <2>2. /\ mine.step = job[j].step /\ mine.outcome = job[j].outcome
        /\ mine.made = job[j].made /\ mine.gave = job[j].gave
        /\ mine.noted = job[j].noted \cup Execution(job[j])
    BY <2>1 DEF Noted, JobType
  <2>3. Waiting(mine) /\ mine \in JobType
    <3>1. Execution(job[j]) \in SUBSET Attempts
      BY <2>1 DEF Execution, JobType
    <3> QED BY <2>1, <3>1 DEF Noted, Waiting, Sound, JobType
  <2>4. Account(mine, mine.step)
    BY <2>1, <2>2 DEF Account
  <2>5. Sound(given) /\ mine.step + 1 \in Nat \ {0}
    BY <2>3, GivenSound
  <2>6. Account(given, mine.step + 1)
    <3>1. /\ given.outcome = mine.outcome /\ given.made = mine.made
          /\ given.noted = mine.noted /\ given.gave = mine.gave \cup {mine.step}
      BY <2>3 DEF JobType
    <3>2. \A a \in mine.made : a[1] = mine.step => a \in mine.noted
      BY <2>2 DEF Execution
    <3>3. mine.step \in Nat /\ mine.gave \subseteq Nat
      BY <2>3 DEF JobType
    <3>4. \A g \in given.gave : g < mine.step + 1
      BY <2>4, <3>1, <3>3 DEF Account
    <3> HIDE DEF mine, given
    <3> QED BY <2>4, <3>1, <3>2, <3>4 DEF Account
  <2>7. Kept(GoOn(given, after, mine.step + 1).job)
    BY <2>5, <2>6, GoOnKept
  <2>8. Kept(Raise(mine, after, "failed", {}).job)
    BY <2>3, <2>4, RaiseKept
  <2>9. Kept(End(mine, after, "failed", {}).job)
    BY EndKept
  <2> QED BY <1>1, <1>4, <2>7, <2>8, <2>9 DEF Answer
<1>5. ASSUME NEW j \in Jobs, Fail(j) \/ Refuse(j) \/ Invalid(j) PROVE CostInv'
  <2>1. Waiting(job[j]) /\ Account(job[j], job[j].step) /\ job[j] \in JobType
    BY <1>2, <1>5 DEF Fail, Refuse, Invalid
  <2>2. \A b : Kept(Fallback(job[j], b).job) /\ Kept(Raise(job[j], b, "invalid", {}).job)
    BY <2>1, FallbackKept, RaiseKept
  <2>3. \A b, delay : Kept(Now([job[j] EXCEPT !.pc = "sleep", !.wait = delay], b).job)
    BY <2>1, <1>5, ZenonT(30) DEF Kept, Account, Now, JobType, Fail, Refuse, Invalid, CostInv
  <2> QED BY <1>1, <1>5, <2>2, <2>3 DEF Fail, Refuse, Invalid
<1>6. ASSUME NEW j \in Jobs, Wake(j) PROVE CostInv'
  <2>1. Waiting(job[j]) /\ Account(job[j], job[j].step) /\ job[j] \in JobType
    BY <1>2, <1>6 DEF Wake
  <2>2. Kept(Raise(job[j], breaker, "deadline", {}).job)
    BY <2>1, RaiseKept
  <2>3. Kept(Now(Try(job[j], job[j].step, job[j].at, job[j].n + 1), breaker).job)
    <3>1. job[j].step \in Nat
      BY <2>1 DEF JobType
    <3> QED BY <2>1, <3>1, TryKept DEF Now
  <2> QED BY <1>1, <1>6, <2>2, <2>3 DEF Wake
<1>7. CASE Tick
  <2>1. ASSUME NEW d \in Jobs
        PROVE  /\ job'[d].pc = job[d].pc /\ job'[d].outcome = job[d].outcome
               /\ job'[d].made = job[d].made /\ job'[d].gave = job[d].gave
               /\ job'[d].noted = job[d].noted /\ job'[d].missed = job[d].missed
               /\ job'[d].step = job[d].step
    BY <1>7 DEF Tick, IInv, JobType
  <2> QED BY <2>1 DEF CostInv, Kept, Account
<1>8. CASE Health \/ UNCHANGED vars
  BY <1>8 DEF Health, vars, CostInv, Kept, Account
<1> QED BY <1>3, <1>4, <1>5, <1>6, <1>7, <1>8 DEF Next, JobStep

(* A job that is sold has a row for every attempt that went into what it      *)
(* sells, whatever it tried, retried and gave up on.  (Code: ctx.attempts,    *)
(* record_attempts.)                                                        *)
THEOREM SoldIsCosted == Spec => []SoldWorkIsCosted
<1>1. Init => CostInv
  <2>1. NoJob.pc = "idle" /\ NoJob.outcome = "none"
    BY DEF NoJob
  <2>2. Kept(NoJob)
    BY <2>1 DEF Kept
  <2> QED BY <2>2 DEF Init, CostInv, Kept, Account
<1>2. CostInv => SoldWorkIsCosted
  BY DEF CostInv, Kept, SoldWorkIsCosted
<1> QED BY <1>1, <1>2, Invariant, StepKeepsAccounts, PTL DEF Spec

-----------------------------------------------------------------------------
(* The circuits.  A first attempt that a job had not made before is at a       *)
(* provider whose circuit is not open.                                       *)
Fresh(made, r) ==
  \A a \in r.job.made \ made : a[3] = 1 /\ r.job.pc = "call" =>
    ~IsOpen(r.breaker, ProviderAt(r.job, a[1], a[2]))

LEMMA EndFresh ==
  ASSUME NEW j, NEW b, NEW outcome, NEW rows, NEW made
  PROVE  Fresh(made, End(j, b, outcome, rows))
BY DEF Fresh, End, Now, NoJob

(* The first provider that is tried is one no open circuit skips, and asking  *)
(* its circuit does not open it.  (Code: circuit_open.)                      *)
LEMMA FirstTryFresh ==
  ASSUME NEW j, Sound(j), NEW b \in Breakers, NEW s \in 1..Len(j.skill),
         NEW k \in Nat \ {0}, Closed(j, b, s, k) # {}
  PROVE  Fresh(j.made, FirstTry(j, b, s, k))
<1> DEFINE m == Least(Closed(j, b, s, k))
           p == ProviderAt(j, s, m)
           r == FirstTry(j, b, s, k)
<1>1. m \in Closed(j, b, s, k) /\ m \in 1..Len(j.skill[s].providers)
  <2>1. Len(j.skill[s].providers) \in Nat
    BY SkillShape DEF Sound
  <2>2. Closed(j, b, s, k) \subseteq 1..Len(j.skill[s].providers)
    BY <2>1 DEF Closed
  <2> QED BY <2>1, <2>2, LeastIsIn
<1>2. p \in Providers /\ ~IsOpen(b, p)
  BY <1>1, SkillShape DEF Closed, ProviderAt, Sound
<1>3. ~IsOpen(Touched(b, p), p)
  <2>1. b[p] \in [failures : 0..Threshold, age : 0..Cooldown] /\ p \in DOMAIN b
    BY <1>2 DEF Breakers
  <2>2. CASE b[p].failures >= Threshold
    <3>1. Touched(b, p)[p] = Shut(Threshold - 1)
      BY <1>2, <2>1, <2>2, RuntimeAssumption DEF Touched, IsOpen
    <3>2. Shut(Threshold - 1).failures = Threshold - 1
      BY DEF Shut
    <3> QED BY <3>1, <3>2, RuntimeAssumption DEF IsOpen
  <2>3. CASE ~(b[p].failures >= Threshold)
    BY <2>3 DEF Touched, IsOpen
  <2> QED BY <2>2, <2>3
<1>4. /\ r.breaker = Touched(b, p) /\ r.job.made = j.made \cup {<<s, m, 1>>}
      /\ r.job.skill = j.skill
  BY DEF FirstTry, Now, Try, Sound, JobType
<1>5. ProviderAt(r.job, s, m) = p
  BY <1>4 DEF ProviderAt
<1>6. ASSUME NEW a \in r.job.made \ j.made
      PROVE  ~IsOpen(r.breaker, ProviderAt(r.job, a[1], a[2]))
  <2>1. a = <<s, m, 1>>
    BY <1>4, <1>6
  <2>2. a[1] = s /\ a[2] = m
    BY <2>1
  <2> HIDE DEF m, p, r
  <2> QED BY <1>3, <1>4, <1>5, <2>2
<1> QED BY <1>6 DEF Fresh

LEMMA GoOnFresh ==
  ASSUME NEW j, Sound(j), NEW b \in Breakers, NEW s \in Nat \ {0}
  PROVE  Fresh(j.made, GoOn(j, b, s))
<1> DEFINE Skipped(t) == /\ j.skill[t].source
                         /\ j.left < Reserve \/ Closed(j, b, t, 1) = {}
           S == {t \in s..Len(j.skill) : ~Skipped(t)}
           t == Least(S)
<1>1. \A o \in {"ok", "failed", "deadline"} : \A rows : Fresh(j.made, End(j, b, o, rows))
  BY EndFresh
<1>2. ASSUME S # {}, Closed(j, b, t, 1) # {}
      PROVE  Fresh(j.made, FirstTry(WithBudget(j), b, t, 1))
  <2>1. S \subseteq 1..Len(j.skill) /\ Len(j.skill) \in Nat
    BY RuntimeAssumption DEF Sound
  <2>2. t \in 1..Len(j.skill)
    BY <1>2, <2>1, LeastIsIn, SMTT(30)
  <2>3. /\ Sound(WithBudget(j)) /\ WithBudget(j).skill = j.skill
        /\ WithBudget(j).made = j.made
    BY DEF Sound, WithBudget, JobType
  <2>4. Closed(WithBudget(j), b, t, 1) # {}
    BY <1>2, <2>3 DEF Closed, ProviderAt
  <2>5. Fresh(WithBudget(j).made, FirstTry(WithBudget(j), b, t, 1))
    <3>1. 1 \in Nat \ {0}
      OBVIOUS
    <3> HIDE DEF t
    <3> QED BY <2>2, <2>3, <2>4, <3>1, FirstTryFresh
  <2> QED BY <2>3, <2>5
<1> QED BY <1>1, <1>2 DEF GoOn

LEMMA RaiseFresh ==
  ASSUME NEW j, Waiting(j), NEW b \in Breakers, NEW outcome,
         NEW carried \in SUBSET Attempts
  PROVE  Fresh(j.made, Raise(j, b, outcome, carried))
<1>1. /\ Sound(Noted(j, carried)) /\ j.step + 1 \in Nat \ {0}
      /\ Noted(j, carried).made = j.made
  BY SMTT(30) DEF Noted, Waiting, Sound, JobType
<1>2. Fresh(Noted(j, carried).made, GoOn(Noted(j, carried), b, j.step + 1))
  BY <1>1, GoOnFresh
<1> QED BY <1>1, <1>2, EndFresh DEF Raise

LEMMA FallbackFresh ==
  ASSUME NEW j, Waiting(j), NEW b \in Breakers
  PROVE  Fresh(j.made, Fallback(j, b))
<1> DEFINE k == j.at + 1
           C == Closed(j, b, j.step, k)
           m == Least(C)
<1>1. k \in Nat \ {0} /\ Sound(j) /\ j.step \in 1..Len(j.skill)
      /\ Execution(j) \in SUBSET Attempts
  BY DEF Waiting, Sound, JobType, Execution
<1>2. Fresh(j.made, Raise(j, b, "failed", Execution(j)))
  BY <1>1, RaiseFresh
<1>3. ASSUME C # {} PROVE Fresh(j.made, FirstTry(j, b, j.step, k))
  BY <1>1, <1>3, FirstTryFresh
<1>4. ASSUME C # {}
      PROVE  Fresh(j.made, Raise(j, Touched(b, ProviderAt(j, j.step, m)), "deadline", {}))
  <2>1. C \subseteq 1..Len(j.skill[j.step].providers)
        /\ Len(j.skill[j.step].providers) \in Nat
    BY <1>1, SkillShape, SMTT(30) DEF Closed, Sound
  <2>2. m \in 1..Len(j.skill[j.step].providers)
    BY <1>4, <2>1, LeastIsIn
  <2>3. Touched(b, ProviderAt(j, j.step, m)) \in Breakers
    BY <1>1, <2>2, SkillShape, BreakersKept DEF ProviderAt, Sound
  <2> QED BY <2>3, RaiseFresh
<1> QED BY <1>2, <1>3, <1>4 DEF Fallback

(* No step tries a provider for the first time through an open circuit,       *)
(* however many jobs and failures are under way; a retry may.  (Code:         *)
(* run_with_policy, the first half of CircuitShields.)                       *)
THEOREM OpenCircuitIsAvoided == Spec => OpenCircuitOnlyRetried
<1> DEFINE Avoids(j) ==
      \A a \in job'[j].made \ job[j].made : a[3] = 1 /\ job'[j].pc = "call" =>
        ~IsOpen(breaker', ProviderAt(job'[j], a[1], a[2]))
<1>1. ASSUME IInv, NEW j \in Jobs, NEW d \in Jobs, JobStep(d) PROVE Avoids(j)
  <2>1. ASSUME NEW r, Becomes(d, r), Fresh(job[d].made, r) PROVE Avoids(j)
    <3>1. job'[j] = (IF j = d THEN r.job ELSE job[j]) /\ breaker' = r.breaker
      BY <1>1, <2>1 DEF Becomes, IInv
    <3> QED BY <2>1, <3>1 DEF Fresh
  <2>2. CASE Begin(d)
    <3>1. PICK skill \in Skills :
            Becomes(d, GoOn([NoJob EXCEPT !.skill = skill, !.left = Deadline], breaker, 1))
      BY <2>2 DEF Begin
    <3> DEFINE start == [NoJob EXCEPT !.skill = skill, !.left = Deadline]
    <3>2. Sound(start) /\ start.made = {} /\ breaker \in Breakers /\ 1 \in Nat \ {0}
      <4>1. start.made = NoJob.made /\ NoJob.made = {}
        BY DEF NoJob
      <4>2. Sound(start)
        BY StartSound
      <4>3. breaker \in Breakers /\ 1 \in Nat \ {0}
        BY <1>1 DEF IInv
      <4> QED BY <4>1, <4>2, <4>3
    <3>3. Fresh(start.made, GoOn(start, breaker, 1))
      BY <3>2, GoOnFresh
    <3>4. Fresh(job[d].made, GoOn(start, breaker, 1))
      BY <3>2, <3>3 DEF Fresh
    <3> QED BY <2>1, <3>1, <3>4
  <2>3. ASSUME job[d].pc \in {"call", "sleep"}
        PROVE  /\ Waiting(job[d]) /\ breaker \in Breakers /\ job[d] \in JobType
               /\ LET p == ProviderAt(job[d], job[d].step, job[d].at) IN
                    /\ NoteSuccess(breaker, p) \in Breakers
                    /\ NoteFailure(breaker, p) \in Breakers
    BY <1>1, <2>3, InUse DEF IInv
  <2>4. CASE Answer(d)
    <3> DEFINE mine  == Noted(job[d], Execution(job[d]))
               after == NoteSuccess(breaker, ProviderAt(job[d], job[d].step, job[d].at))
               given == [mine EXCEPT !.gave = @ \cup {mine.step}]
    <3>1. Waiting(job[d]) /\ after \in Breakers /\ job[d] \in JobType
      BY <2>3, <2>4 DEF Answer
    <3>2. Waiting(mine) /\ mine.made = job[d].made /\ mine \in JobType
      <4>1. Execution(job[d]) \in SUBSET Attempts
        BY <3>1 DEF Execution, JobType
      <4> QED BY <3>1, <4>1 DEF Noted, Waiting, Sound, JobType
    <3>3. Sound(given) /\ given.made = job[d].made /\ mine.step + 1 \in Nat \ {0}
      BY <3>2, GivenSound
    <3>4. Fresh(job[d].made, GoOn(given, after, mine.step + 1))
      <4>1. Fresh(given.made, GoOn(given, after, mine.step + 1))
        BY <3>1, <3>3, GoOnFresh
      <4> QED BY <3>3, <4>1
    <3>5. Fresh(job[d].made, Raise(mine, after, "failed", {}))
      <4>1. Fresh(mine.made, Raise(mine, after, "failed", {}))
        BY <3>1, <3>2, RaiseFresh
      <4> QED BY <3>2, <4>1
    <3>6. Fresh(job[d].made, End(mine, after, "failed", {}))
      BY EndFresh
    <3> QED BY <2>1, <2>4, <3>4, <3>5, <3>6 DEF Answer
  <2>5. CASE Fail(d)
    <3> DEFINE after == NoteFailure(breaker, ProviderAt(job[d], job[d].step, job[d].at))
    <3>1. Waiting(job[d]) /\ after \in Breakers /\ job[d] \in JobType
      BY <2>3, <2>5 DEF Fail
    <3>2. Fresh(job[d].made, Fallback(job[d], after))
      BY <3>1, FallbackFresh
    <3>3. ASSUME NEW delay \in 0..MaxDelay
          PROVE  Fresh(job[d].made,
                       Now([job[d] EXCEPT !.pc = "sleep", !.wait = delay], after))
      BY <3>1 DEF Fresh, Now, JobType
    <3> QED BY <2>1, <2>5, <3>2, <3>3 DEF Fail
  <2>6. CASE Refuse(d) \/ Invalid(d)
    <3>1. Waiting(job[d]) /\ breaker \in Breakers
          /\ NoteFailure(breaker, ProviderAt(job[d], job[d].step, job[d].at)) \in Breakers
      BY <2>3, <2>6 DEF Refuse, Invalid
    <3>2. \A b \in Breakers : Fresh(job[d].made, Fallback(job[d], b))
      BY <3>1, FallbackFresh
    <3>3. Fresh(job[d].made, Raise(job[d], breaker, "invalid", {}))
      BY <3>1, RaiseFresh
    <3> QED BY <2>1, <2>6, <3>1, <3>2, <3>3 DEF Refuse, Invalid
  <2>7. CASE Wake(d)
    <3>1. Waiting(job[d]) /\ breaker \in Breakers /\ job[d] \in JobType
      BY <2>3, <2>7 DEF Wake
    <3>2. Fresh(job[d].made, Raise(job[d], breaker, "deadline", {}))
      BY <3>1, RaiseFresh
    <3>3. Fresh(job[d].made, Now(Try(job[d], job[d].step, job[d].at, job[d].n + 1), breaker))
      <4>1. job[d].n + 1 # 1
        BY <3>1 DEF Waiting
      <4>2. Try(job[d], job[d].step, job[d].at, job[d].n + 1).made
              = job[d].made \cup {<<job[d].step, job[d].at, job[d].n + 1>>}
        BY <3>1 DEF Try, JobType
      <4>3. <<job[d].step, job[d].at, job[d].n + 1>>[3] = job[d].n + 1
        OBVIOUS
      <4> QED BY <4>1, <4>2, <4>3 DEF Fresh, Now
    <3> QED BY <2>1, <2>7, <3>2, <3>3 DEF Wake
  <2> QED BY <1>1, <2>2, <2>4, <2>5, <2>6, <2>7 DEF JobStep
<1>2. ASSUME IInv, NEW j \in Jobs, Tick \/ Health \/ UNCHANGED vars PROVE Avoids(j)
  <2>1. job'[j].made = job[j].made
    <3>1. CASE Tick
      BY <1>2, <3>1 DEF Tick, IInv, JobType
    <3>2. CASE Health \/ UNCHANGED vars
      BY <3>2 DEF Health, vars
    <3> QED BY <1>2, <3>1, <3>2
  <2> QED BY <2>1
<1>3. IInv /\ [Next]_vars => [\A j \in Jobs : Avoids(j)]_vars
  BY <1>1, <1>2 DEF Next
<1> QED BY <1>3, Invariant, PTL DEF Spec, OpenCircuitOnlyRetried

=============================================================================
