--------------------------- MODULE NodeFront_proofs ---------------------------
(***************************************************************************)
(* Proofs about NodeFront for any number of requests, clients, threads,    *)
(* crashes and tasks, and any settings: an answer that says nothing was    *)
(* charged is true, a task is answered for as long as the store promises,  *)
(* the limiter refuses a request only of a client that used its rate, and  *)
(* the limiter's table and the store stay within their bounds.             *)
(*                                                                         *)
(* RefusalIsFree is not inductive: it says nothing of a request that has   *)
(* no answer yet.  Calm adds that nothing is read or charged before the    *)
(* gate, and that only the last steps tell anything.  TaskIsKept needs to  *)
(* know which tasks the store may have dropped (StoreInv), and the         *)
(* limiter's count needs the log to hold one hit for each request it let   *)
(* through and has not yet forgotten (LimiterInv).                         *)
(***************************************************************************)
EXTENDS NodeFront, FiniteSetTheorems, WellFoundedInduction, TLAPS

\* A request and where it stands, with the fields of NoCall.
Fields == {"step", "req", "task", "tool", "thread", "tries", "touched", "charged",
           "hit", "told"}
IsCall(r) == DOMAIN r = Fields /\ r = [f \in Fields |-> r[f]]

Calm(r) ==
  /\ IsCall(r)
  /\ r.step \in {"none", "arrived", "route", "queued", "gate"} =>
       r.charged = FALSE /\ r.touched = FALSE
  /\ r.step \notin {"task", "done"} => r.told \notin SaysFree
  /\ r.told \in SaysFree => r.charged = FALSE
  /\ r.told \in {"too_large", "bad_input"} => r.touched = FALSE

CalmInv == call = [c \in Calls |-> call[c]] /\ \A c \in Calls : Calm(call[c])

-----------------------------------------------------------------------------
(* A step that changes one request and leaves it calm keeps the invariant.    *)
LEMMA OneCall ==
  ASSUME CalmInv, NEW c \in Calls, NEW r, Calm(r), call' = [call EXCEPT ![c] = r]
  PROVE  CalmInv'
<1>1. call' = [d \in Calls |-> IF d = c THEN r ELSE call[d]]
  BY DEF CalmInv
<1>2. \A d \in Calls : Calm(call'[d])
  BY <1>1 DEF CalmInv
<1>3. call' = [d \in Calls |-> call'[d]]
  BY <1>1
<1> QED BY <1>2, <1>3 DEF CalmInv, Calm, IsCall

(* An answer by the transport, and one given as it stands, leave a request    *)
(* calm if what they say of its money is true.                              *)
LEMMA ToldCalm ==
  ASSUME NEW r, IsCall(r), NEW told,
         told \in SaysFree => r.charged = FALSE,
         told \in {"too_large", "bad_input"} => r.touched = FALSE
  PROVE  Calm(Told(r, told))
<1> DEFINE t == Told(r, told)
<1>1. /\ IsCall(t) /\ t.step \in {"task", "done"} /\ t.told = told
      /\ t.charged = r.charged /\ t.touched = r.touched
  BY DEF Told, IsCall, Fields
<1> QED BY <1>1 DEF Calm

LEMMA ReplyKeeps ==
  ASSUME CalmInv, NEW c \in Calls, NEW told, Reply(c, told),
         call[c].step \in {"none", "arrived", "route", "queued", "gate"}
  PROVE  CalmInv'
<1> DEFINE r == [[call[c] EXCEPT !.told = told] EXCEPT !.step = "done"]
<1>1. Calm(call[c])
  BY DEF CalmInv
<1>2. /\ IsCall(r) /\ r.step = "done" /\ r.told = told
      /\ r.charged = FALSE /\ r.touched = FALSE
  BY <1>1 DEF Calm, IsCall, Fields
<1>3. call' = [call EXCEPT ![c] = r]
  BY DEF Reply, CalmInv
<1> QED BY <1>2, <1>3, OneCall DEF Calm

(* So does going to another step before an answer.                           *)
LEMMA GotoCalm ==
  ASSUME NEW r, Calm(r), NEW step,
         step \in {"none", "arrived", "route", "queued", "gate"} =>
           r.step \in {"none", "arrived", "route", "queued", "gate"},
         r.step \notin {"task", "done"}
  PROVE  Calm([r EXCEPT !.step = step])
<1> DEFINE t == [r EXCEPT !.step = step]
<1>1. /\ IsCall(t) /\ t.step = step /\ t.told = r.told
      /\ t.charged = r.charged /\ t.touched = r.touched
  BY DEF Calm, IsCall, Fields
<1> QED BY <1>1 DEF Calm, SaysFree

-----------------------------------------------------------------------------
(* Before the gate: a request arrives, its body is judged and read, its price *)
(* is told, its method runs.  (Code: the middlewares, message_send, a2a_rpc.) *)
LEMMA EntryKeeps ==
  ASSUME CalmInv, NEW c \in Calls,
         \/ \E r \in coming, k \in TaskIds \cup {None} : Arrive(c, r, k)
         \/ LoopStep(c)
  PROVE  CalmInv'
<1>0. Calm(call[c])
  BY DEF CalmInv
<1>1. CASE \E r \in coming, k \in TaskIds \cup {None} : Arrive(c, r, k)
  <2>1. PICK r \in coming, k \in TaskIds \cup {None} :
          call' = [call EXCEPT ![c] = [NoCall EXCEPT !.step = "arrived", !.req = r,
                                         !.task = k, !.tool = r.tool]]
    BY <1>1 DEF Arrive
  <2> DEFINE t == [NoCall EXCEPT !.step = "arrived", !.req = r, !.task = k, !.tool = r.tool]
  <2>2. /\ IsCall(t) /\ t.step = "arrived" /\ t.told = None
        /\ t.charged = FALSE /\ t.touched = FALSE
    BY DEF NoCall, IsCall, Fields
  <2>3. Calm(t)
    BY <2>2, NoneAssumption DEF Calm, SaysFree
  <2> QED BY <2>1, <2>3, OneCall
<1>2. CASE BodyLimit(c) \/ Free(c) \/ GetTask(c) \/ CancelTask(c)
  <2>1. PICK told : Reply(c, told)
    BY <1>2 DEF BodyLimit, Free, GetTask, CancelTask
  <2>2. call[c].step \in {"arrived", "route"}
    BY <1>2 DEF BodyLimit, Free, GetTask, CancelTask, At
  <2> QED BY <2>1, <2>2, ReplyKeeps
<1>3. CASE PriceProbe(c)
  <2>1. PICK told \in {"payment_required", "rate_limited"}, hit \in {now, None} :
          call' = [call EXCEPT ![c].step = "done", ![c].told = told, ![c].hit = hit]
    BY <1>3 DEF PriceProbe
  <2> DEFINE t == [call[c] EXCEPT !.step = "done", !.told = told, !.hit = hit]
  <2>2. call' = [call EXCEPT ![c] = t]
    BY <2>1 DEF CalmInv
  <2>3. /\ IsCall(t) /\ t.step = "done" /\ t.told = told
        /\ t.charged = FALSE
    BY <1>0, <1>3 DEF Calm, IsCall, Fields, PriceProbe, At
  <2>4. Calm(t)
    BY <2>3 DEF Calm
  <2> QED BY <2>2, <2>4, OneCall
<1>4. CASE ReadBody(c)
  <2>1. call[c].step = "arrived"
    BY <1>4 DEF ReadBody, At
  <2>2. CASE Reply(c, "too_large")
    BY <2>1, <2>2, ReplyKeeps
  <2>3. ASSUME NEW step \in {"queued", "gate", "route"}, Goto(c, step) PROVE CalmInv'
    <3>1. call' = [call EXCEPT ![c] = [call[c] EXCEPT !.step = step]]
      BY <2>3 DEF Goto, CalmInv
    <3> QED BY <1>0, <2>1, <3>1, GotoCalm, OneCall
  <2> QED BY <1>4, <2>2, <2>3 DEF ReadBody, Pool
<1>5. CASE SendMessage(c)
  <2>1. call[c].step = "route"
    BY <1>5 DEF SendMessage, At
  <2>2. ASSUME NEW told, Reply(c, told) PROVE CalmInv'
    BY <2>1, <2>2, ReplyKeeps
  <2>3. ASSUME NEW step \in {"queued", "gate"}, NEW tool,
               call' = [call EXCEPT ![c].tool = tool, ![c].step = step]
        PROVE  CalmInv'
    <3> DEFINE t == [call[c] EXCEPT !.tool = tool, !.step = step]
    <3>1. call' = [call EXCEPT ![c] = t]
      BY <2>3 DEF CalmInv
    <3>2. /\ IsCall(t) /\ t.step = step /\ t.told = call[c].told
          /\ t.charged = FALSE /\ t.touched = FALSE
      BY <1>0, <2>1 DEF Calm, IsCall, Fields
    <3>3. Calm(t)
      BY <1>0, <2>1, <3>2 DEF Calm
    <3> QED BY <3>1, <3>3, OneCall
  <2> QED BY <1>5, <2>2, <2>3 DEF SendMessage, Pool
<1>6. CASE NewTask(c)
  <2>1. PICK k : call' = [call EXCEPT ![c].step = "done", ![c].task = k]
    BY <1>6 DEF NewTask
  <2> DEFINE t == [call[c] EXCEPT !.step = "done", !.task = k]
  <2>2. call' = [call EXCEPT ![c] = t]
    BY <2>1 DEF CalmInv
  <2>3. /\ IsCall(t) /\ t.step = "done" /\ t.told = call[c].told
        /\ t.charged = call[c].charged /\ t.touched = call[c].touched
    BY <1>0 DEF Calm, IsCall, Fields
  <2>4. Calm(t)
    BY <1>0, <2>3 DEF Calm
  <2> QED BY <2>2, <2>4, OneCall
<1> QED BY <1>1, <1>2, <1>3, <1>4, <1>5, <1>6 DEF LoopStep

(* At the gate and after: a thread is taken, the payment is read and accepted *)
(* or not, the audit or the worker ends, the settlement is told.  (Code:     *)
(* _authorize_and_rate_limit, _unbill_failed_audit, _settlement_refused.)    *)
LEMMA FailKeeps ==
  ASSUME CalmInv, NEW c \in Calls, Fail(c)
  PROVE  CalmInv'
<1> DEFINE r == [call[c] EXCEPT !.charged = FALSE]
<1>1. Calm(call[c])
  BY DEF CalmInv
<1>2. IsCall(r) /\ r.charged = FALSE
  BY <1>1 DEF Calm, IsCall, Fields
<1>3. Calm(Told(r, "failed"))
  BY <1>2, ToldCalm
<1> QED BY <1>3, OneCall DEF Fail

LEMMA GateKeeps ==
  ASSUME CalmInv, NEW c \in Calls, Gate(c)
  PROVE  CalmInv'
<1> DEFINE seen == [call[c] EXCEPT !.hit = now, !.touched = call[c].req.pay # "none"]
           paid == [seen EXCEPT !.step = "work", !.charged = call[c].req.pay = "prepaid"]
<1>1. Calm(call[c]) /\ call[c].step = "gate"
  BY DEF CalmInv, Gate, At
<1>2. CASE Outcome(c, "rate_limited")
  BY <1>1, <1>2, ToldCalm, OneCall DEF Outcome, Calm
<1>3. CASE call' = [call EXCEPT ![c] = Told(seen, "payment_required")]
  <2>1. IsCall(seen)
    BY <1>1 DEF Calm, IsCall, Fields
  <2>2. "payment_required" \notin SaysFree
    BY DEF SaysFree
  <2> HIDE DEF seen
  <2>3. Calm(Told(seen, "payment_required"))
    BY <2>1, <2>2, ToldCalm
  <2> QED BY <1>3, <2>3, OneCall
<1>4. CASE call' = [call EXCEPT ![c] = paid]
  <2>1. IsCall(paid) /\ paid.step = "work" /\ paid.told = call[c].told
    BY <1>1 DEF Calm, IsCall, Fields
  <2>2. Calm(paid)
    BY <1>1, <2>1 DEF Calm, SaysFree
  <2> QED BY <1>4, <2>2, OneCall
<1> QED BY <1>2, <1>3, <1>4 DEF Gate

LEMMA BillKeeps ==
  ASSUME CalmInv, NEW c \in Calls, Bill(c)
  PROVE  CalmInv'
<1>1. PICK settle \in {"settled", "pending", "refused"} :
        call' = [call EXCEPT ![c] =
          Told([call[c] EXCEPT !.charged = settle # "refused"],
               IF settle = "refused" THEN "withheld" ELSE "delivered")]
  BY DEF Bill
<1> DEFINE r == [call[c] EXCEPT !.charged = settle # "refused"]
           told == IF settle = "refused" THEN "withheld" ELSE "delivered"
<1>2. IsCall(r) /\ r.charged = (settle # "refused")
  BY DEF CalmInv, Calm, IsCall, Fields
<1>3. /\ told \in SaysFree => settle = "refused"
      /\ told \notin {"too_large", "bad_input"}
  BY DEF SaysFree
<1>4. Calm(Told(r, told))
  <2> HIDE DEF r, told
  <2> QED BY <1>2, <1>3, ToldCalm
<1> QED BY <1>1, <1>4, OneCall

LEMMA JobKeeps ==
  ASSUME CalmInv, NEW c \in Calls,
         JobStep(c) \/ RunPage(c) \/ \E t \in Threads : TakeThread(c, t)
  PROVE  CalmInv'
<1>0. Calm(call[c])
  BY DEF CalmInv
<1>1. CASE \E t \in Threads : TakeThread(c, t)
  <2>1. PICK t \in Threads : call' = [call EXCEPT ![c].step = "gate", ![c].thread = t]
    BY <1>1 DEF TakeThread
  <2> DEFINE r == [call[c] EXCEPT !.step = "gate", !.thread = t]
  <2>2. call' = [call EXCEPT ![c] = r]
    BY <2>1 DEF CalmInv
  <2>3. /\ IsCall(r) /\ r.step = "gate" /\ r.told = call[c].told
        /\ r.charged = FALSE /\ r.touched = FALSE
    BY <1>0, <1>1 DEF Calm, IsCall, Fields, TakeThread, At
  <2>4. call[c].step = "queued"
    BY <1>1 DEF TakeThread, At
  <2>5. Calm(r)
    BY <1>0, <2>3, <2>4 DEF Calm
  <2> QED BY <2>2, <2>5, OneCall
<1>2. CASE RefuseInput(c)
  BY <1>0, <1>2, ToldCalm, OneCall DEF RefuseInput, Outcome, At, Calm
<1>3. ASSUME NEW step \in {"page", "bill"}, Goto(c, step), call[c].step \in {"work", "page"}
      PROVE  CalmInv'
  <2>1. call' = [call EXCEPT ![c] = [call[c] EXCEPT !.step = step]]
    BY <1>3 DEF Goto, CalmInv
  <2> QED BY <1>0, <1>3, <2>1, GotoCalm, OneCall
<1>4. CASE OpenContext(c)
  <2>1. ASSUME call' = [call EXCEPT ![c].tries = 1] PROVE CalmInv'
    <3> DEFINE r == [call[c] EXCEPT !.tries = 1]
    <3>1. call' = [call EXCEPT ![c] = r]
      BY <2>1 DEF CalmInv
    <3>2. /\ IsCall(r) /\ r.step = call[c].step /\ r.told = call[c].told
          /\ r.charged = call[c].charged /\ r.touched = call[c].touched
      BY <1>0 DEF Calm, IsCall, Fields
    <3>3. Calm(r)
      BY <1>0, <3>2 DEF Calm
    <3> QED BY <3>1, <3>3, OneCall
  <2>2. call[c].step = "work"
    BY <1>4 DEF OpenContext, At
  <2>3. call' = [call EXCEPT ![c].tries = 1] \/ Fail(c) \/ Goto(c, "page") \/ UNCHANGED call
    BY <1>4 DEF OpenContext
  <2> QED BY <1>3, <2>1, <2>2, <2>3, FailKeeps DEF CalmInv, Calm, IsCall
<1>5. CASE RunPage(c) \/ RunWorker(c)
  BY <1>3, <1>5, FailKeeps DEF RunPage, RunWorker, At
<1>6. CASE Gate(c) \/ Bill(c)
  BY <1>6, GateKeeps, BillKeeps
<1> QED BY <1>1, <1>2, <1>4, <1>5, <1>6 DEF JobStep

-----------------------------------------------------------------------------
LEMMA StepKeepsCalm == CalmInv /\ [Next]_vars => CalmInv'
<1> SUFFICES ASSUME CalmInv, [Next]_vars PROVE CalmInv'
  OBVIOUS
<1>1. CASE \E c \in Calls :
             \/ \E r \in coming, k \in TaskIds \cup {None} : Arrive(c, r, k)
             \/ LoopStep(c)
  BY <1>1, EntryKeeps
<1>2. CASE \E c \in Calls :
             JobStep(c) \/ RunPage(c) \/ \E t \in Threads : TakeThread(c, t)
  BY <1>2, JobKeeps
<1>3. CASE \/ Tick \/ UNCHANGED vars
           \/ \E t \in Threads, how \in {"gone", "wedged"} : BrowserDies(t, how)
  BY <1>3 DEF Tick, BrowserDies, vars, CalmInv, Calm, IsCall
<1> QED BY <1>1, <1>2, <1>3 DEF Next

(* At the start no request has come, and nothing is charged or told.        *)
LEMMA InitCalm == Init => CalmInv
<1>1. IsCall(NoCall)
  BY DEF IsCall, Fields, NoCall
<1>2. /\ NoCall.step = "none" /\ NoCall.told = None
      /\ NoCall.charged = FALSE /\ NoCall.touched = FALSE
  BY DEF NoCall
<1>3. Calm(NoCall)
  BY <1>1, <1>2, NoneAssumption DEF Calm, SaysFree
<1> QED BY <1>3 DEF Init, CalmInv, Calm, IsCall

(* "Nothing was charged" is true whenever a call's own answer says it, on      *)
(* every transport, and a request refused for its body or its input has not   *)
(* had its payment read.  (Code: _reject_missing_input, _PriceUnpaidProbes,   *)
(* _unbill_failed_audit, _settlement_refused.)                               *)
THEOREM RefusalsAreFree == Spec => []RefusalIsFree
<1>1. CalmInv => RefusalIsFree
  BY DEF CalmInv, Calm, RefusalIsFree
<1> QED BY <1>1, InitCalm, StepKeepsCalm, PTL DEF Spec

-----------------------------------------------------------------------------
(* The task store.  TaskIsKept speaks of Later(i), the tasks put since; each  *)
(* entry of the store is the last put of its task, and a last put is missing *)
(* only when it expired or MaxTasks others were put since.                   *)
PutRange == {puts[i] : i \in DOMAIN puts}

Stamped ==
  /\ now \in Nat /\ puts \in Seq(PutRange)
  /\ \A i \in DOMAIN puts : puts[i].nth = i /\ puts[i].stamp \in Nat

LastPuts ==
  /\ IsFiniteSet(tasks)
  /\ \A t \in tasks : /\ t.nth \in DOMAIN puts /\ t = puts[t.nth]
                      /\ t.id \notin Later(t.nth)

Missed(i) == ~Fresh(puts[i]) \/ Cardinality(Later(i)) >= MaxTasks

StoreInv ==
  /\ Stamped /\ LastPuts
  /\ \A i \in DOMAIN puts :
       puts[i].id \notin Later(i) => puts[i] \in tasks \/ Missed(i)

(* A set of numbers has a least one.                                         *)
LEMMA Least ==
  ASSUME NEW S \in SUBSET Nat, S # {}
  PROVE  \E m \in S : \A n \in S : m <= n
<1> DEFINE R == OpToRel(<, Nat)
<1>1. IsWellFoundedOn(R, Nat)
  BY NatLessThanWellFounded
<1>2. \A m \in Nat, n \in Nat : m < n => <<m, n>> \in R
  BY DEF OpToRel
<1> HIDE DEF R
<1>3. PICK m \in S : \A n \in S : ~(<<n, m>> \in R)
  BY <1>1, WFMin
<1>4. m \in Nat /\ \A n \in S : n \in Nat /\ ~(n < m)
  BY <1>2, <1>3
<1>5. \A n \in S : m <= n
  BY <1>4
<1> QED
  BY <1>5

(* The oldest entry of a store is one of its entries.                        *)
LEMMA OldestFound ==
  ASSUME NEW S, S # {}, \A t \in S : t.nth \in Nat
  PROVE  Oldest(S) \in S /\ \A u \in S : Oldest(S).nth <= u.nth
<1> DEFINE nths == {t.nth : t \in S}
<1>1. nths \in SUBSET Nat /\ nths # {}
  OBVIOUS
<1>2. PICK m \in nths : \A n \in nths : m <= n
  BY <1>1, Least
<1>3. PICK t \in S : t.nth = m
  BY <1>2
<1>4. \A u \in S : t.nth <= u.nth
  BY <1>2, <1>3
<1> QED
  BY <1>3, <1>4 DEF Oldest

(* There are finitely many later tasks.                                      *)
LEMMA LaterFinite ==
  ASSUME Stamped, NEW i \in DOMAIN puts
  PROVE  IsFiniteSet(Later(i)) /\ Cardinality(Later(i)) \in Nat
<1> DEFINE I == i + 1 .. Len(puts)
           f == [j \in I |-> puts[j].id]
<1>1. i \in Int /\ Len(puts) \in Int
  BY DEF Stamped
<1>2. IsFiniteSet(I)
  BY <1>1, FS_Interval
<1>3. f \in Surjection(I, Later(i))
  BY DEF Surjection, Later
<1> HIDE DEF I, f
<1> QED
  BY <1>2, <1>3, FS_Surjection, FS_CardinalityType

(* A put: the new entry is the last put of its task, the earlier one of the   *)
(* task is gone, and what is evicted makes room for tasks put after it.       *)
(* (Code: TaskStore.put.)                                                    *)
LEMMA PutKeeps ==
  ASSUME StoreInv, NEW k, NEW tool, NEW state, Put(k, tool, state), now' = now
  PROVE  StoreInv'
<1> DEFINE task == NewEntry(k, tool, state)
           rest == {t \in tasks : t.id # k}
           all  == rest \cup {task}
           last == Len(puts) + 1
<1>1. /\ now \in Nat /\ puts \in Seq(PutRange) /\ Len(puts) \in Nat
      /\ DOMAIN puts = 1 .. Len(puts)
      /\ \A i \in DOMAIN puts : puts[i].nth = i /\ puts[i].stamp \in Nat
      /\ MaxTasks \in Nat \ {0} /\ TaskTTL \in Nat
  BY FrontAssumption DEF StoreInv, Stamped, FrontAssumption
<1>2. task.id = k /\ task.nth = last /\ task.stamp = now
  BY DEF NewEntry
<1>3. puts' = Append(puts, task)
  BY DEF Put
<1>4. tasks' = IF Cardinality(all) > MaxTasks THEN all \ {Oldest(all)} ELSE all
  BY DEF Put
<1> HIDE DEF task
<1>5. /\ Len(puts') = last /\ DOMAIN puts' = 1 .. last /\ puts'[last] = task
      /\ \A i \in 1 .. Len(puts) : puts'[i] = puts[i]
  BY <1>1, <1>3
<1>6. PutRange' = PutRange \cup {task}
  BY <1>1, <1>5 DEF PutRange
<1>7. puts' \in Seq(PutRange')
  <2>1. puts \in Seq(PutRange \cup {task})
    BY <1>1
  <2> QED
    BY <1>3, <1>6, <2>1
<1>8. Stamped'
  BY <1>1, <1>2, <1>5, <1>7 DEF Stamped
<1>9. Later(last)' = {} /\ \A i \in 1 .. Len(puts) : Later(i)' = Later(i) \cup {k}
  <2>1. Later(last)' = {}
    BY <1>1, <1>5 DEF Later
  <2>2. ASSUME NEW i \in 1 .. Len(puts) PROVE Later(i)' = Later(i) \cup {k}
    <3>1. i + 1 .. last = (i + 1 .. Len(puts)) \cup {last}
      BY <1>1
    <3>2. \A j \in i + 1 .. Len(puts) : puts'[j].id = puts[j].id
      BY <1>1, <1>5
    <3> QED
      BY <1>2, <1>5, <3>1, <3>2 DEF Later
  <2> QED
    BY <2>1, <2>2
<1>10. /\ IsFiniteSet(rest) /\ IsFiniteSet(all) /\ Cardinality(all) \in Nat
       /\ task \notin rest
  <2>1. IsFiniteSet(rest)
    BY FS_Subset DEF StoreInv, LastPuts
  <2> QED
    BY <1>2, <2>1, FS_AddElement, FS_CardinalityType
<1>11. \A t \in rest : t.nth \in 1 .. Len(puts) /\ t = puts[t.nth] /\ t.id \notin Later(t.nth)
  BY <1>1 DEF StoreInv, LastPuts
<1>12. \A t \in all : t.nth \in Nat /\ t.nth \in DOMAIN puts' /\ t = puts'[t.nth]
                      /\ t.id \notin Later(t.nth)'
  <2>1. ASSUME NEW t \in rest
        PROVE  t.nth \in DOMAIN puts' /\ t = puts'[t.nth] /\ t.id \notin Later(t.nth)'
    <3>1. t.nth \in 1 .. Len(puts) /\ t = puts[t.nth] /\ t.id \notin Later(t.nth) /\ t.id # k
      BY <1>11
    <3>2. Later(t.nth)' = Later(t.nth) \cup {k}
      BY <1>9, <3>1
    <3> QED
      BY <1>1, <1>5, <3>1, <3>2
  <2>2. task.nth \in DOMAIN puts' /\ task = puts'[task.nth]
    BY <1>1, <1>2, <1>5
  <2>3. ASSUME NEW t \in all, t = task PROVE t.id \notin Later(t.nth)'
    <3>1. t.nth = last /\ last \in Nat
      BY <1>1, <1>2, <2>3
    <3>2. Later(t.nth)' = {}
      <4>1. PICK n \in Nat : n = last
        BY <3>1
      <4>2. t.nth + 1 .. Len(puts') = {}
        BY <1>1, <1>5, <3>1
      <4> QED
        BY <4>2 DEF Later
    <3> QED
      BY <3>2
  <2>4. \A t \in all : t.nth \in Nat
    BY <1>1, <1>2, <1>11
  <2> QED
    BY <2>1, <2>2, <2>3, <2>4
<1>13. Oldest(all) \in all /\ \A u \in all : Oldest(all).nth <= u.nth
  BY <1>12, OldestFound
<1> DEFINE old == Oldest(all)
<1>14. LastPuts'
  <2>1. tasks' \subseteq all
    BY <1>4
  <2>2. IsFiniteSet(tasks')
    BY <1>10, <2>1, FS_Subset
  <2> QED
    BY <1>12, <2>1, <2>2 DEF LastPuts
<1> HIDE DEF old
<1>15. ASSUME Cardinality(all) > MaxTasks
       PROVE  /\ old # task
              /\ \E n \in 1 .. Len(puts) : n = old.nth /\ Cardinality(Later(n)') >= MaxTasks
  <2>1. rest # {}
    <3> SUFFICES ASSUME rest = {} PROVE FALSE
      OBVIOUS
    <3>1. Cardinality(all) = 1
      BY FS_Singleton
    <3> QED
      BY <1>1, <1>15, <3>1
  <2>2. PICK t \in rest : TRUE
    BY <2>1
  <2>3. old.nth <= t.nth /\ t.nth < last
    BY <1>1, <1>11, <1>13, <2>2 DEF old
  <2>4. old.nth \in 1 .. Len(puts) /\ old # task
    BY <1>1, <1>2, <1>5, <1>11, <1>12, <1>13, <2>3 DEF old
  <2>5. PICK n \in 1 .. Len(puts) : n = old.nth
    BY <2>4
  <2> DEFINE L == Later(n)'
             g == [u \in all \ {old} |-> u.id]
  <2>6. \A u \in all : u # old => u.nth > n
    <3> SUFFICES ASSUME NEW u \in all, u # old PROVE u.nth > n
      OBVIOUS
    <3>1. old.nth <= u.nth /\ u.nth \in Nat /\ old.nth \in Nat
      BY <1>12, <1>13 DEF old
    <3>2. old.nth # u.nth
      <4>1. old = puts'[old.nth] /\ u = puts'[u.nth]
        BY <1>12, <1>13 DEF old
      <4> QED
        BY <4>1
    <3> QED
      BY <2>5, <3>1, <3>2
  <2>7. \A u \in all : u # old => u.id \in L
    <3> SUFFICES ASSUME NEW u \in all, u # old PROVE u.id \in L
      OBVIOUS
    <3>1. u.nth \in n + 1 .. Len(puts')
      BY <1>1, <1>5, <1>12, <2>6
    <3>2. u = puts'[u.nth]
      BY <1>12
    <3> QED
      BY <3>1, <3>2 DEF Later
  <2>8. \A u, v \in all : u.id = v.id => u = v
    <3> SUFFICES ASSUME NEW u \in all, NEW v \in all, u.id = v.id, u.nth < v.nth
                 PROVE  FALSE
      BY <1>12
    <3>1. v.id \in Later(u.nth)'
      BY <1>5, <1>12 DEF Later
    <3> QED
      BY <1>12, <3>1
  <2>9. IsFiniteSet(L)
    <3>1. L = Later(n) \cup {k}
      BY <1>9
    <3>2. IsFiniteSet(Later(n))
      BY <1>1, LaterFinite DEF StoreInv
    <3> QED
      BY <3>1, <3>2, FS_AddElement
  <2>10. g \in Injection(all \ {old}, L)
    BY <2>7, <2>8 DEF Injection, IsInjective
  <2> HIDE DEF g, L
  <2>11. Cardinality(all \ {old}) <= Cardinality(L)
    BY <2>9, <2>10, FS_Injection
  <2>12. Cardinality(all \ {old}) = Cardinality(all) - 1
    <3>1. old \in all
      BY <1>13 DEF old
    <3> QED
      BY <1>10, <3>1, FS_RemoveElement
  <2>13. Cardinality(L) \in Nat
    BY <2>9, FS_CardinalityType
  <2> QED
    BY <1>1, <1>10, <1>15, <2>4, <2>5, <2>11, <2>12, <2>13 DEF L
<1>16. ASSUME NEW i \in DOMAIN puts', puts'[i].id \notin Later(i)'
       PROVE  puts'[i] \in tasks' \/ Missed(i)'
  <2>1. CASE i = last
    BY <1>4, <1>5, <1>15, <2>1 DEF old
  <2>2. CASE i # last
    <3>1. i \in DOMAIN puts /\ puts'[i] = puts[i] /\ Later(i)' = Later(i) \cup {k}
      BY <1>1, <1>5, <1>9, <2>2
    <3>2. puts[i] \in tasks \/ Missed(i)
      BY <1>16, <3>1 DEF StoreInv
    <3>3. CASE ~Fresh(puts[i])
      BY <3>1, <3>3 DEF Missed, Fresh
    <3>4. CASE Cardinality(Later(i)) >= MaxTasks
      <4>1. IsFiniteSet(Later(i)) /\ Cardinality(Later(i)) \in Nat
        BY <3>1, LaterFinite DEF StoreInv
      <4>2. Cardinality(Later(i) \cup {k}) >= Cardinality(Later(i))
        BY <4>1, FS_AddElement, SMTT(30)
      <4>3. Cardinality(Later(i) \cup {k}) \in Nat
        BY <4>1, FS_AddElement, FS_CardinalityType
      <4> QED
        BY <1>1, <3>1, <3>4, <4>1, <4>2, <4>3 DEF Missed
    <3>5. CASE puts[i] \in tasks
      <4>1. puts[i] \in all
        BY <1>16, <3>1, <3>5
      <4>2. puts[i].nth = i
        BY <1>1, <3>1
      <4> QED
        BY <1>4, <1>15, <3>1, <4>1, <4>2 DEF Missed, old
    <3> QED
      BY <3>2, <3>3, <3>4, <3>5 DEF Missed
  <2> QED
    BY <2>1, <2>2
<1> QED
  BY <1>8, <1>14, <1>16 DEF StoreInv


(* A read deletes an entry that has expired, and nothing else.               *)
(* (Code: TaskStore.get.)                                                    *)
LEMMA LookKeeps ==
  ASSUME StoreInv, NEW k, Look(k), now' = now, puts' = puts
  PROVE  StoreInv'
<1>1. tasks' \subseteq tasks /\ \A t \in tasks : t \notin tasks' => ~Fresh(t)
  BY DEF Look
<1>2. Stamped'
  BY DEF StoreInv, Stamped, PutRange
<1>3. LastPuts'
  BY <1>1, FS_Subset DEF StoreInv, LastPuts, Later
<1>4. ASSUME NEW i \in DOMAIN puts, puts[i].id \notin Later(i)
      PROVE  puts[i] \in tasks' \/ Missed(i)
  BY <1>1, <1>4 DEF StoreInv, Missed
<1>5. \A i \in DOMAIN puts : (Missed(i)' <=> Missed(i)) /\ Later(i)' = Later(i)
  BY DEF Missed, Later, Fresh
<1> QED
  BY <1>2, <1>3, <1>4, <1>5 DEF StoreInv

(* Time passes, and only makes entries expire.                               *)
LEMMA TimeKeeps ==
  ASSUME StoreInv, now' \in {now, now + 1}, tasks' = tasks, puts' = puts
  PROVE  StoreInv'
<1>1. Stamped'
  BY DEF StoreInv, Stamped, PutRange
<1>2. LastPuts'
  BY DEF StoreInv, LastPuts, Later
<1>3. \A i \in DOMAIN puts : Missed(i) => Missed(i)'
  <2> SUFFICES ASSUME NEW i \in DOMAIN puts, Missed(i) PROVE Missed(i)'
    OBVIOUS
  <2>1. now \in Nat /\ puts[i].stamp \in Nat /\ TaskTTL \in Nat
    BY FrontAssumption DEF StoreInv, Stamped, FrontAssumption
  <2>2. ~Fresh(puts[i]) => ~Fresh(puts[i])'
    BY <2>1 DEF Fresh
  <2> QED
    BY <2>2 DEF Missed, Later
<1> QED
  BY <1>1, <1>2, <1>3 DEF StoreInv, Later

(* Every step puts a task, reads one, or leaves the store alone.             *)
LEMMA StepKeepsStore == StoreInv /\ [Next]_vars => StoreInv'
<1> SUFFICES ASSUME StoreInv, [Next]_vars PROVE StoreInv'
  OBVIOUS
<1>1. CASE Tick \/ UNCHANGED vars
  BY <1>1, TimeKeeps DEF Tick, vars, taskVars
<1>2. ASSUME NEW c \in Calls, CancelTask(c) PROVE StoreInv'
  <2>1. now' = now
    BY <1>2 DEF CancelTask
  <2>2. CASE Look(call[c].task) /\ UNCHANGED puts
    BY <2>1, <2>2, LookKeeps
  <2>3. CASE UNCHANGED <<tasks, puts>>
    BY <2>1, <2>3, TimeKeeps
  <2>4. CASE Put(call[c].task, Task(call[c].task).tool, "canceled")
    BY <2>1, <2>4, PutKeeps
  <2> QED
    BY <1>2, <2>2, <2>3, <2>4 DEF CancelTask
<1>3. ASSUME NEW c \in Calls, GetTask(c) \/ SendMessage(c) PROVE StoreInv'
  BY <1>3, LookKeeps DEF GetTask, SendMessage
<1>4. ASSUME NEW c \in Calls, NewTask(c) PROVE StoreInv'
  <2>1. PICK k : Put(k, call[c].tool, StateOf(call[c].told))
    BY <1>4 DEF NewTask
  <2>2. now' = now
    BY <1>4 DEF NewTask
  <2> QED
    BY <2>1, <2>2, PutKeeps
<1>5. CASE \/ \E c \in Calls, r \in coming, k \in TaskIds \cup {None} : Arrive(c, r, k)
           \/ \E c \in Calls : \/ BodyLimit(c) \/ PriceProbe(c) \/ ReadBody(c) \/ Free(c)
                               \/ JobStep(c) \/ RunPage(c)
           \/ \E c \in Calls, t \in Threads : TakeThread(c, t)
           \/ \E t \in Threads, how \in {"gone", "wedged"} : BrowserDies(t, how)
  <2>1. now' = now /\ tasks' = tasks /\ puts' = puts
    BY <1>5 DEF Arrive, BodyLimit, PriceProbe, ReadBody, Free, JobStep, RunPage, TakeThread,
       BrowserDies, RefuseInput, Gate, OpenContext, RunWorker, Bill, taskVars
  <2> QED
    BY <2>1, TimeKeeps
<1> QED
  BY <1>1, <1>2, <1>3, <1>4, <1>5 DEF Next, LoopStep

(* At the start the store is empty.                                          *)
LEMMA InitStore == Init => StoreInv
<1> SUFFICES ASSUME Init PROVE StoreInv
  OBVIOUS
<1>1. now \in Nat /\ puts = <<>> /\ tasks = {} /\ DOMAIN puts = {}
  BY DEF Init
<1> QED
  BY <1>1, FS_EmptySet DEF StoreInv, Stamped, LastPuts

(* A task stays in the store as it was last put, for its time to live, unless *)
(* MaxTasks other tasks were put since: a follow-up that pays by naming its   *)
(* task finds what it was told to pay for, however full the store is and      *)
(* whatever the other requests do.  (Code: TaskStore.put, TaskStore.get.)     *)
THEOREM TaskStays == Spec => []TaskIsKept
<1>1. StoreInv => TaskIsKept
  <2> SUFFICES ASSUME StoreInv, NEW i \in DOMAIN puts, Fresh(puts[i]),
                      puts[i].id \notin Later(i), Cardinality(Later(i)) < MaxTasks
               PROVE  Stored(puts[i].id) # {} /\ Task(puts[i].id) = puts[i]
    BY DEF TaskIsKept
  <2>1. /\ DOMAIN puts = 1 .. Len(puts) /\ Len(puts) \in Nat /\ MaxTasks \in Nat
        /\ Cardinality(Later(i)) \in Nat
    BY FrontAssumption, LaterFinite DEF StoreInv, Stamped, FrontAssumption
  <2>2. puts[i] \in tasks
    BY <2>1 DEF StoreInv, Missed
  <2>3. puts[i] \in Stored(puts[i].id)
    BY <2>2 DEF Stored
  <2>4. ASSUME NEW t \in Stored(puts[i].id) PROVE t = puts[i]
    <3>1. /\ t.nth \in 1 .. Len(puts) /\ t = puts[t.nth] /\ t.id = puts[i].id
          /\ t.id \notin Later(t.nth)
      BY <2>1 DEF Stored, StoreInv, LastPuts
    <3>2. CASE t.nth < i
      BY <2>1, <3>1, <3>2 DEF Later
    <3>3. CASE t.nth > i
      BY <2>1, <3>1, <3>3 DEF Later
    <3> QED
      BY <2>1, <3>1, <3>2, <3>3
  <2> QED
    BY <2>3, <2>4 DEF Task
<1> QED
  BY <1>1, InitStore, StepKeepsStore, PTL DEF Spec

-----------------------------------------------------------------------------
(* The limiter.  LimiterCounts compares the hits in the table, which sweeps   *)
(* and refusals thin out, with the calls that were let through.  Each hit is *)
(* of one such call, and such a call of the window is missing in the table   *)
(* only if its client was forgotten.                                         *)
Early == {"none", "arrived", "route", "queued", "gate"}
Hit(b) == [at |-> call[b].hit, of |-> b]
Unhit(r) ==
  /\ r.step \in Early => r.hit = None
  /\ r.step # "none" => r.req.client \in Clients
  /\ r.hit # None => r.hit \in Nat

HitsAreCalls ==
  \A k \in Clients : \A h \in log[k] :
    h.of \in Calls /\ h = Hit(h.of) /\ h.at # None /\ call[h.of].req.client = k

InWindow(b) == call[b].hit # None /\ call[b].hit > now - Window

HitsAreKept ==
  \A b \in Calls : InWindow(b) /\ call[b].req.client \notin forgotten
                     => Hit(b) \in log[call[b].req.client]

LimiterInv ==
  /\ coming \in Mixes /\ now \in Nat /\ log = [k \in Clients |-> log[k]]
  /\ \A t \in tasks : t.state # "rate_limited"
  /\ \A c \in Calls : Unhit(call[c])
  /\ HitsAreCalls /\ HitsAreKept

(* What LimiterCounts says of a step.                                        *)
CountsRightly ==
  \A c \in Calls :
    /\ (call[c].told # "rate_limited" /\ call'[c].told = "rate_limited")
         => Cardinality(Recent(c)) >= Limit
    /\ (call[c].hit = None /\ call'[c].hit # None)
         => Cardinality(Recent(c)) < Limit \/ call[c].req.client \in forgotten'

(* A table entry has no more live hits than its client made calls, and no     *)
(* fewer unless the client was forgotten.                                    *)
LEMMA HitsCounted ==
  ASSUME LimiterInv, NEW c \in Calls, call[c].req.client \in Clients,
         NEW hits, hits \subseteq Live(log[call[c].req.client])
  PROVE  /\ IsFiniteSet(hits) /\ IsFiniteSet(Recent(c))
         /\ Cardinality(hits) <= Cardinality(Recent(c))
         /\ call[c].req.client \notin forgotten /\ hits = Live(log[call[c].req.client])
              => Cardinality(Recent(c)) <= Cardinality(hits)
<1> DEFINE k == call[c].req.client
           f == [h \in hits |-> h.of]
           g == [b \in Recent(c) |-> Hit(b)]
<1>1. IsFiniteSet(Recent(c))
  <2>1. IsFiniteSet(Calls)
    BY FrontAssumption, FS_Interval DEF Calls, FrontAssumption
  <2>2. Recent(c) \in SUBSET Calls
    BY DEF Recent
  <2> QED
    BY <2>1, <2>2, FS_Subset
<1>2. \A h \in hits : /\ h.of \in Calls /\ h = Hit(h.of) /\ h.at # None
                      /\ call[h.of].req.client = k /\ h.at > now - Window
  BY DEF Live, LimiterInv, HitsAreCalls
<1>3. \A h \in hits : h.of \in Recent(c)
  BY <1>2 DEF Recent, Hit
<1>4. f \in Injection(hits, Recent(c))
  BY <1>2, <1>3 DEF Injection, IsInjective
<1> HIDE DEF f
<1>5. IsFiniteSet(hits) /\ Cardinality(hits) <= Cardinality(Recent(c))
  BY <1>1, <1>4, FS_Injection
<1>6. ASSUME k \notin forgotten, hits = Live(log[k])
      PROVE  Cardinality(Recent(c)) <= Cardinality(hits)
  <2>1. \A b \in Recent(c) : Hit(b) \in hits /\ Hit(b).of = b
    BY <1>6 DEF Recent, Live, LimiterInv, HitsAreKept, InWindow, Hit
  <2>2. g \in Injection(Recent(c), hits)
    BY <2>1 DEF Injection, IsInjective
  <2> HIDE DEF g
  <2> QED
    BY <1>5, <2>2, FS_Injection
<1> QED
  BY <1>1, <1>5, <1>6

(* What a check does to the table.  (Code: _SlidingWindowLimiter.check and    *)
(* _sweep_locked.)                                                           *)
Checked(c, passes, gone, hits) ==
  LET k == call[c].req.client IN
    /\ k \notin gone => hits = Live(log[k])
    /\ passes <=> Cardinality(hits) < Limit
    /\ log' = [x \in Clients |-> log'[x]] /\ forgotten' = forgotten \cup gone
    /\ log'[k] = IF passes THEN hits \cup {[at |-> now, of |-> c]} ELSE hits
    /\ \A x \in Clients \ {k} :
         log'[x] \subseteq log[x] /\ (x \notin gone => Live(log[x]) \subseteq log'[x])

LEMMA CheckFacts ==
  ASSUME LimiterInv, NEW c \in Calls, call[c].req.client \in Clients,
         NEW passes \in BOOLEAN, LimiterCheck(c, passes)
  PROVE  \E gone \in SUBSET Clients, hits \in SUBSET Live(log[call[c].req.client]) :
           Checked(c, passes, gone, hits)
<1> DEFINE k == call[c].req.client
<1>1. PICK gone \in SUBSET Clients :
        LET swept == IF SweepDue THEN Drop(Drop(log, Expired(log)), gone) ELSE log
            hits  == Live(swept[k])
        IN /\ Sweep(swept, gone)
           /\ passes = (Cardinality(hits) < Limit)
           /\ log' = [swept EXCEPT ![k] = IF passes THEN hits \cup {[at |-> now, of |-> c]} ELSE hits]
           /\ forgotten' = forgotten \cup gone
  BY DEF LimiterCheck
<1> DEFINE swept == IF SweepDue THEN Drop(Drop(log, Expired(log)), gone) ELSE log
           hits  == Live(swept[k])
           mine  == IF passes THEN hits \cup {[at |-> now, of |-> c]} ELSE hits
<1>2. swept = [x \in Clients |-> swept[x]]
  BY DEF Drop, LimiterInv
<1>3. ASSUME NEW x \in Clients
      PROVE  swept[x] \subseteq log[x] /\ (x \notin gone => Live(log[x]) \subseteq swept[x])
  <2>1. x \in Expired(log) => Live(log[x]) = {}
    BY DEF Expired
  <2>2. Live(log[x]) \subseteq log[x]
    BY DEF Live
  <2>3. CASE SweepDue
    <3>1. swept[x] = IF x \in gone \/ x \in Expired(log) THEN {} ELSE log[x]
      BY <2>3 DEF Drop
    <3> QED
      BY <2>1, <2>2, <3>1
  <2>4. CASE ~SweepDue
    BY <2>2, <2>4
  <2> QED
    BY <2>3, <2>4
<1>4. hits \subseteq Live(log[k]) /\ (k \notin gone => hits = Live(log[k]))
  BY <1>3 DEF Live
<1>5. log' = [swept EXCEPT ![k] = mine]
  BY <1>1
<1>6. passes <=> Cardinality(hits) < Limit
  BY <1>1
<1> HIDE DEF swept, hits, mine
<1>7. /\ log' = [x \in Clients |-> log'[x]] /\ log'[k] = mine
      /\ \A x \in Clients \ {k} : log'[x] = swept[x]
  BY <1>2, <1>5
<1> QED
  <2>1. /\ \A x \in Clients \ {k} :
             log'[x] \subseteq log[x] /\ (x \notin gone => Live(log[x]) \subseteq log'[x])
        /\ forgotten' = forgotten \cup gone
    BY <1>1, <1>3, <1>7
  <2>2. Checked(c, passes, gone, hits)
    BY <1>4, <1>6, <1>7, <2>1 DEF mine, Checked
  <2>3. hits \in SUBSET Live(log[k])
    BY <1>4
  <2> QED
    BY <2>2, <2>3

(* A step through the limiter: the call is counted, or refused for the calls  *)
(* its client made.  (Code: _PriceUnpaidProbes, _authorize_and_rate_limit.)   *)
LEMMA CheckKeeps ==
  ASSUME CalmInv, LimiterInv, NEW c \in Calls, call[c].step \in {"arrived", "gate"},
         NEW passes \in BOOLEAN, LimiterCheck(c, passes),
         UNCHANGED <<coming, now, tasks>>,
         NEW r, call' = [call EXCEPT ![c] = r], r.req = call[c].req, r.step \notin Early,
         r.hit = IF passes THEN now ELSE None, r.told = "rate_limited" => ~passes
  PROVE  LimiterInv' /\ CountsRightly
<1> DEFINE k == call[c].req.client
<1>1. /\ call'[c] = r /\ \A b \in Calls \ {c} : call'[b] = call[b]
      /\ now \in Nat /\ None \notin Nat /\ Window \in Nat /\ Limit \in Nat
      /\ k \in Clients /\ call[c].hit = None
  BY FrontAssumption, NoneAssumption DEF CalmInv, LimiterInv, Unhit, Early, FrontAssumption
<1>2. PICK gone \in SUBSET Clients, hits \in SUBSET Live(log[k]) :
        /\ k \notin gone => hits = Live(log[k])
        /\ passes <=> Cardinality(hits) < Limit
        /\ log' = [x \in Clients |-> log'[x]] /\ forgotten' = forgotten \cup gone
        /\ log'[k] = IF passes THEN hits \cup {[at |-> now, of |-> c]} ELSE hits
        /\ \A x \in Clients \ {k} :
             log'[x] \subseteq log[x] /\ (x \notin gone => Live(log[x]) \subseteq log'[x])
  <2>1. PICK gone \in SUBSET Clients, hits \in SUBSET Live(log[k]) : Checked(c, passes, gone, hits)
    BY <1>1, CheckFacts
  <2> QED
    BY <2>1 DEF Checked
<1>3. \A b \in Calls : Unhit(call'[b])
  BY <1>1 DEF LimiterInv, Unhit, Early
<1>4. \A b \in Calls : call'[b].req = call[b].req /\ (b # c => Hit(b)' = Hit(b))
  BY <1>1 DEF Hit
<1>5. HitsAreCalls'
  <2> SUFFICES ASSUME NEW x \in Clients, NEW h \in log'[x]
               PROVE  /\ h.of \in Calls /\ h = [at |-> call'[h.of].hit, of |-> h.of]
                      /\ h.at # None /\ call'[h.of].req.client = x
    BY DEF HitsAreCalls, Hit
  <2>1. CASE h \in log[x]
    <3>1. h.of \in Calls /\ h = Hit(h.of) /\ h.at # None /\ call[h.of].req.client = x
      BY <2>1 DEF LimiterInv, HitsAreCalls
    <3>2. h.of # c
      BY <1>1, <3>1 DEF Hit
    <3> QED
      BY <1>1, <3>1, <3>2 DEF Hit
  <2>2. CASE h \notin log[x]
    <3>1. x = k /\ passes /\ h = [at |-> now, of |-> c]
      BY <1>2, <2>2 DEF Live
    <3> QED
      BY <1>1, <3>1
  <2> QED
    BY <2>1, <2>2
<1>6. HitsAreKept'
  <2> SUFFICES ASSUME NEW b \in Calls, InWindow(b)', call[b].req.client \notin forgotten'
               PROVE  [at |-> call'[b].hit, of |-> b] \in log'[call[b].req.client]
    BY <1>4 DEF HitsAreKept, Hit
  <2>1. CASE b = c
    <3>1. passes /\ call'[b].hit = now
      BY <1>1, <2>1 DEF InWindow
    <3> QED
      BY <1>2, <2>1, <3>1
  <2>2. CASE b # c
    <3> DEFINE x == call[b].req.client
    <3>1. /\ call'[b] = call[b] /\ InWindow(b) /\ x \notin forgotten /\ x \notin gone
          /\ x \in Clients
      BY <1>1, <1>2, <2>2 DEF InWindow, LimiterInv, Unhit, Early
    <3>2. Hit(b) \in Live(log[x])
      BY <3>1 DEF LimiterInv, HitsAreKept, Live, InWindow, Hit
    <3>3. Live(log[x]) \subseteq log'[x]
      BY <1>2, <3>1
    <3> QED
      BY <3>1, <3>2, <3>3 DEF Hit
  <2> QED
    BY <2>1, <2>2
<1>7. LimiterInv'
  BY <1>1, <1>2, <1>3, <1>5, <1>6 DEF LimiterInv
<1>8. /\ IsFiniteSet(hits) /\ IsFiniteSet(Recent(c))
      /\ Cardinality(hits) <= Cardinality(Recent(c))
      /\ k \notin forgotten /\ hits = Live(log[k]) => Cardinality(Recent(c)) <= Cardinality(hits)
  BY <1>1, HitsCounted
<1>9. Cardinality(hits) \in Nat /\ Cardinality(Recent(c)) \in Nat
  BY <1>8, FS_CardinalityType
<1>10. r.told = "rate_limited" => Cardinality(Recent(c)) >= Limit
  BY <1>1, <1>2, <1>8, <1>9
<1>11. r.hit # None => Cardinality(Recent(c)) < Limit \/ k \in forgotten'
  BY <1>1, <1>2, <1>8, <1>9
<1> QED
  BY <1>1, <1>7, <1>10, <1>11 DEF CountsRightly

(* A step outside the limiter counts no call, refuses none over the limit,    *)
(* and leaves the client of a call alone.                                    *)
Quiet ==
  \A b \in Calls :
    /\ call'[b].hit = call[b].hit /\ call'[b].req = call[b].req
    /\ call'[b].step \in Early => call[b].step \in Early
    /\ call'[b].step # "none" => call[b].step # "none"
    /\ call'[b].told = "rate_limited" => call[b].told = "rate_limited"

LEMMA OneQuiet ==
  ASSUME CalmInv, NEW c \in Calls, NEW r, call' = [call EXCEPT ![c] = r],
         r.hit = call[c].hit, r.req = call[c].req,
         r.step \in Early => call[c].step \in Early, call[c].step # "none",
         r.told = "rate_limited" => call[c].told = "rate_limited"
  PROVE  Quiet
BY DEF Quiet, CalmInv

LEMMA ReplyQuiet ==
  ASSUME CalmInv, NEW c \in Calls, call[c].step # "none",
         NEW told, told # "rate_limited", Reply(c, told)
  PROVE  Quiet
<1> DEFINE r == [[call[c] EXCEPT !.told = told] EXCEPT !.step = "done"]
<1>1. /\ r.hit = call[c].hit /\ r.req = call[c].req /\ r.step = "done" /\ r.told = told
  BY DEF CalmInv, Calm, IsCall, Fields
<1>2. call' = [call EXCEPT ![c] = r]
  BY DEF Reply, CalmInv
<1> HIDE DEF r
<1> QED BY <1>1, <1>2, OneQuiet DEF Early

LEMMA ToldQuiet ==
  ASSUME CalmInv, NEW c \in Calls, call[c].step # "none", NEW r, IsCall(r),
         r.hit = call[c].hit, r.req = call[c].req, NEW told, told # "rate_limited",
         call' = [call EXCEPT ![c] = Told(r, told)]
  PROVE  Quiet
<1> DEFINE t == Told(r, told)
<1>1. t.hit = r.hit /\ t.req = r.req /\ t.step \in {"task", "done"} /\ t.told = told
  BY DEF Told, IsCall, Fields
<1> HIDE DEF t
<1> QED BY <1>1, OneQuiet DEF t, Early

LEMMA GotoQuiet ==
  ASSUME CalmInv, NEW c \in Calls, NEW step, Goto(c, step), call[c].step # "none",
         step \in Early => call[c].step \in Early
  PROVE  Quiet
<1> DEFINE r == [call[c] EXCEPT !.step = step]
<1>1. /\ r.hit = call[c].hit /\ r.req = call[c].req /\ r.step = step /\ r.told = call[c].told
  BY DEF CalmInv, Calm, IsCall, Fields
<1>2. call' = [call EXCEPT ![c] = r]
  BY DEF Goto, CalmInv
<1> HIDE DEF r
<1> QED BY <1>1, <1>2, OneQuiet

LEMMA FailQuiet ==
  ASSUME CalmInv, NEW c \in Calls, Fail(c), call[c].step # "none"
  PROVE  Quiet
<1> DEFINE r == [call[c] EXCEPT !.charged = FALSE]
<1>1. IsCall(r) /\ r.hit = call[c].hit /\ r.req = call[c].req
  BY DEF CalmInv, Calm, IsCall, Fields
<1> QED BY <1>1, ToldQuiet DEF Fail

(* A quiet step keeps what the limiter's table says.                         *)
LEMMA QuietKeeps ==
  ASSUME LimiterInv, Quiet, UNCHANGED <<coming, log, forgotten>>, now' \in {now, now + 1},
         \A t \in tasks' : t.state # "rate_limited"
  PROVE  LimiterInv' /\ CountsRightly
<1>1. now \in Nat /\ now' \in Nat /\ now' >= now /\ Window \in Nat /\ None \notin Nat
  BY FrontAssumption, NoneAssumption DEF LimiterInv, FrontAssumption
<1>2. \A b \in Calls : Unhit(call'[b])
  BY DEF LimiterInv, Unhit, Quiet
<1>3. \A b \in Calls : Hit(b)' = Hit(b)
  BY DEF Hit, Quiet
<1>4. HitsAreCalls'
  BY <1>3 DEF LimiterInv, HitsAreCalls, Quiet
<1>5. \A b \in Calls : InWindow(b)' => InWindow(b)
  BY <1>1 DEF InWindow, Quiet, LimiterInv, Unhit
<1>6. HitsAreKept'
  BY <1>3, <1>5 DEF LimiterInv, HitsAreKept, Quiet
<1>7. CountsRightly
  BY DEF CountsRightly, Quiet
<1> QED
  BY <1>1, <1>2, <1>4, <1>6, <1>7 DEF LimiterInv

(* A call that arrives has no hit, as before.                                *)
LEMMA ArriveKeeps ==
  ASSUME CalmInv, LimiterInv, NEW c \in Calls, NEW r \in coming, NEW k, Arrive(c, r, k)
  PROVE  LimiterInv' /\ CountsRightly
<1> DEFINE t == [NoCall EXCEPT !.step = "arrived", !.req = r, !.task = k, !.tool = r.tool]
<1>1. t.step = "arrived" /\ t.req = r /\ t.hit = None /\ t.told = None
  BY DEF NoCall
<1>2. call' = [call EXCEPT ![c] = t] /\ call[c].step = "none"
  BY DEF Arrive, At
<1> HIDE DEF t
<1>3. /\ call'[c] = t /\ \A b \in Calls \ {c} : call'[b] = call[b]
      /\ call[c].hit = None /\ None # "rate_limited"
  BY <1>2, NoneAssumption DEF CalmInv, LimiterInv, Unhit, Early, SaysFree
<1>4. r.client \in Clients
  BY FrontAssumption DEF LimiterInv, FrontAssumption, Requests, RequestType
<1>5. UNCHANGED <<coming, now, log, forgotten, tasks>>
  BY DEF Arrive, limiterVars, taskVars
<1>6. \A b \in Calls : Unhit(call'[b])
  BY <1>1, <1>3, <1>4 DEF LimiterInv, Unhit
<1>7. \A b \in Calls \ {c} : Hit(b)' = Hit(b)
  BY <1>3 DEF Hit
<1>8. HitsAreCalls'
  <2> SUFFICES ASSUME NEW x \in Clients, NEW h \in log[x]
               PROVE  /\ h.of \in Calls /\ h = Hit(h.of)' /\ h.at # None
                      /\ call'[h.of].req.client = x
    BY <1>5 DEF HitsAreCalls
  <2>1. h.of \in Calls /\ h = Hit(h.of) /\ h.at # None /\ call[h.of].req.client = x
    BY DEF LimiterInv, HitsAreCalls
  <2>2. h.of # c
    BY <1>3, <2>1 DEF Hit
  <2> QED
    BY <1>3, <2>1, <2>2 DEF Hit
<1>9. HitsAreKept'
  <2> SUFFICES ASSUME NEW b \in Calls, InWindow(b)', call'[b].req.client \notin forgotten
               PROVE  Hit(b)' \in log[call'[b].req.client]
    BY <1>5 DEF HitsAreKept
  <2>1. b # c
    BY <1>1, <1>3 DEF InWindow
  <2> QED
    BY <1>3, <1>5, <1>7, <2>1 DEF LimiterInv, HitsAreKept, InWindow
<1>10. CountsRightly
  BY <1>1, <1>3 DEF CountsRightly
<1> QED
  BY <1>5, <1>6, <1>8, <1>9, <1>10 DEF LimiterInv

(* The two steps that pass the limiter.                                      *)
LEMMA LimitedKeeps ==
  ASSUME CalmInv, LimiterInv, NEW c \in Calls, PriceProbe(c) \/ Gate(c)
  PROVE  LimiterInv' /\ CountsRightly
<1>1. Calm(call[c])
  BY DEF CalmInv
<1>2. CASE PriceProbe(c)
  <2>1. PICK passes \in BOOLEAN :
          /\ LimiterCheck(c, passes)
          /\ call' = [call EXCEPT ![c].step = "done",
                        ![c].told = IF passes THEN "payment_required" ELSE "rate_limited",
                        ![c].hit = IF passes THEN now ELSE None]
    BY <1>2 DEF PriceProbe
  <2> DEFINE told == IF passes THEN "payment_required" ELSE "rate_limited"
             hit  == IF passes THEN now ELSE None
             r    == [call[c] EXCEPT !.step = "done", !.told = told, !.hit = hit]
  <2>2. call' = [call EXCEPT ![c] = r]
    BY <2>1 DEF CalmInv
  <2>3. /\ r.req = call[c].req /\ r.step = "done" /\ r.told = told /\ r.hit = hit
        /\ "done" \notin Early
    BY <1>1 DEF Calm, IsCall, Fields, Early
  <2>4. call[c].step = "arrived" /\ UNCHANGED <<coming, now, tasks>>
    BY <1>2 DEF PriceProbe, At, taskVars
  <2>5. /\ call[c].step \in {"arrived", "gate"} /\ r.step \notin Early
        /\ r.hit = (IF passes THEN now ELSE None) /\ (r.told = "rate_limited" => ~passes)
    BY <2>3, <2>4
  <2>6. LimiterCheck(c, passes)
    BY <2>1
  <2> HIDE DEF r
  <2> QED
    BY <2>2, <2>3, <2>4, <2>5, <2>6, CheckKeeps
<1>3. CASE Gate(c)
  <2> DEFINE seen == [call[c] EXCEPT !.hit = now, !.touched = call[c].req.pay # "none"]
             paid == [seen EXCEPT !.step = "work", !.charged = call[c].req.pay = "prepaid"]
             free == Told(seen, "payment_required")
             over == Told(call[c], "rate_limited")
  <2>1. PICK passes \in BOOLEAN :
          /\ LimiterCheck(c, passes)
          /\ IF passes THEN call' = [call EXCEPT ![c] = paid] \/ call' = [call EXCEPT ![c] = free]
             ELSE call' = [call EXCEPT ![c] = over]
    BY <1>3 DEF Gate, Outcome
  <2>2. /\ call[c].step = "gate" /\ UNCHANGED <<coming, now, tasks>>
        /\ call[c].told # "rate_limited" /\ call[c].hit = None
    BY <1>1, <1>3 DEF Gate, At, taskVars, Calm, SaysFree, LimiterInv, Unhit, Early
  <2>3. IsCall(seen) /\ seen.hit = now /\ seen.req = call[c].req /\ seen.told = call[c].told
    BY <1>1 DEF Calm, IsCall, Fields
  <2> HIDE DEF seen
  <2>4. /\ paid.hit = now /\ paid.req = call[c].req /\ paid.told = call[c].told
        /\ paid.step = "work" /\ "work" \notin Early
    BY <2>3 DEF IsCall, Fields, Early
  <2>5. /\ free.hit = now /\ free.req = call[c].req /\ free.told = "payment_required"
        /\ free.step \notin Early
    BY <2>3 DEF Told, IsCall, Fields, Early
  <2>6. /\ over.hit = None /\ over.req = call[c].req /\ over.told = "rate_limited"
        /\ over.step \notin Early
    BY <1>1, <2>2 DEF Told, Calm, IsCall, Fields, Early
  <2> HIDE DEF paid, free, over
  <2>7. CASE passes /\ call' = [call EXCEPT ![c] = paid]
    <3>1. /\ paid.hit = (IF passes THEN now ELSE None) /\ paid.told # "rate_limited"
          /\ paid.step \notin Early /\ call[c].step \in {"arrived", "gate"}
      BY <2>2, <2>4, <2>7
    <3> QED
      BY <2>1, <2>2, <2>4, <2>7, <3>1, CheckKeeps
  <2>8. CASE passes /\ call' = [call EXCEPT ![c] = free]
    BY <2>1, <2>2, <2>5, <2>8, CheckKeeps
  <2>9. CASE ~passes /\ call' = [call EXCEPT ![c] = over]
    BY <2>1, <2>2, <2>6, <2>9, CheckKeeps
  <2> QED
    BY <2>1, <2>7, <2>8, <2>9
<1> QED
  BY <1>2, <1>3

(* The other steps are quiet, and no task is ever in a state a refusal has.   *)
LEMMA StoreStates ==
  ASSUME LimiterInv, NEW c \in Calls, GetTask(c) \/ CancelTask(c) \/ SendMessage(c) \/ NewTask(c)
  PROVE  \A t \in tasks' : t.state # "rate_limited"
<1>1. \A t \in tasks : t.state # "rate_limited"
  BY DEF LimiterInv
<1>2. ASSUME NEW k, Look(k) PROVE \A t \in tasks' : t.state # "rate_limited"
  BY <1>1, <1>2 DEF Look
<1>3. ASSUME NEW k, NEW tool, NEW state, state # "rate_limited", Put(k, tool, state)
      PROVE  \A t \in tasks' : t.state # "rate_limited"
  <2>1. NewEntry(k, tool, state).state = state
    BY DEF NewEntry
  <2>2. tasks' \subseteq tasks \cup {NewEntry(k, tool, state)}
    BY <1>3 DEF Put
  <2> QED
    BY <1>1, <1>3, <2>1, <2>2
<1>4. CASE GetTask(c) \/ SendMessage(c)
  BY <1>2, <1>4 DEF GetTask, SendMessage
<1>5. CASE CancelTask(c)
  BY <1>1, <1>2, <1>3, <1>5 DEF CancelTask
<1>6. CASE NewTask(c)
  <2>1. StateOf(call[c].told) # "rate_limited"
    BY DEF StateOf
  <2> QED
    BY <1>3, <1>6, <2>1 DEF NewTask
<1> QED
  BY <1>4, <1>5, <1>6

LEMMA MethodKeeps ==
  ASSUME CalmInv, LimiterInv, NEW c \in Calls,
         GetTask(c) \/ CancelTask(c) \/ SendMessage(c) \/ NewTask(c)
  PROVE  LimiterInv' /\ CountsRightly
<1>1. UNCHANGED <<coming, log, forgotten, now>>
  BY DEF GetTask, CancelTask, SendMessage, NewTask, limiterVars
<1>2. \A t \in tasks' : t.state # "rate_limited"
  BY StoreStates
<1>3. IsCall(call[c])
  BY DEF CalmInv, Calm
<1>4. ASSUME NEW told, told # "rate_limited", Reply(c, told), call[c].step = "route"
      PROVE  Quiet
  BY <1>4, ReplyQuiet
<1>5. CASE GetTask(c)
  <2>1. ASSUME Stored(call[c].task) = {}
        PROVE  Quiet
    BY <1>4, <1>5, <2>1 DEF GetTask, At
  <2>2. ASSUME Stored(call[c].task) # {}
        PROVE  Quiet
    <3>1. Task(call[c].task) \in tasks
      BY <2>2 DEF Task, Stored
    <3> QED
      BY <1>4, <1>5, <2>2, <3>1 DEF GetTask, At, LimiterInv
  <2>3. Quiet
    BY <2>1, <2>2
  <2> QED
    BY <1>1, <1>2, <2>3, QuietKeeps
<1>6. CASE CancelTask(c)
  <2>1. Quiet
    BY <1>4, <1>6 DEF CancelTask, At
  <2> QED
    BY <1>1, <1>2, <2>1, QuietKeeps
<1>7. CASE SendMessage(c)
  <2>1. CASE Skill(c) = None
    <3>1. Quiet
      BY <1>4, <1>7, <2>1 DEF SendMessage, At
    <3> QED
      BY <1>1, <1>2, <3>1, QuietKeeps
  <2>2. CASE Skill(c) # None
    <3> DEFINE r == [call[c] EXCEPT !.tool = Skill(c), !.step = Pool(Skill(c))]
    <3>1. call' = [call EXCEPT ![c] = r] /\ call[c].step = "route"
      BY <1>7, <2>2 DEF SendMessage, CalmInv, At
    <3>2. r.hit = call[c].hit /\ r.req = call[c].req /\ r.told = call[c].told
      BY <1>3 DEF IsCall, Fields
    <3> HIDE DEF r
    <3>3. Quiet
      BY <3>1, <3>2, OneQuiet DEF Early
    <3> QED
      BY <1>1, <1>2, <3>3, QuietKeeps
  <2> QED
    BY <2>1, <2>2
<1>8. CASE NewTask(c)
  <2>1. PICK k : call' = [call EXCEPT ![c].step = "done", ![c].task = k]
    BY <1>8 DEF NewTask
  <2> DEFINE r == [call[c] EXCEPT !.step = "done", !.task = k]
  <2>2. call' = [call EXCEPT ![c] = r] /\ call[c].step = "task"
    BY <1>8, <2>1 DEF CalmInv, NewTask, At
  <2>3. /\ r.hit = call[c].hit /\ r.req = call[c].req /\ r.told = call[c].told
        /\ r.step = "done" /\ "done" \notin Early
    BY <1>3 DEF IsCall, Fields, Early
  <2> HIDE DEF r
  <2>4. Quiet
    BY <2>2, <2>3, OneQuiet
  <2> QED
    BY <1>1, <1>2, <2>4, QuietKeeps
<1> QED
  BY <1>5, <1>6, <1>7, <1>8

LEMMA WorkQuiet ==
  ASSUME CalmInv, NEW c \in Calls,
         \/ BodyLimit(c) \/ ReadBody(c) \/ Free(c) \/ RefuseInput(c) \/ OpenContext(c)
         \/ RunWorker(c) \/ Bill(c) \/ RunPage(c) \/ \E t \in Threads : TakeThread(c, t)
  PROVE  Quiet
<1>1. IsCall(call[c])
  BY DEF CalmInv, Calm
<1>2. CASE BodyLimit(c) \/ Free(c)
  BY <1>2, ReplyQuiet DEF BodyLimit, Free, At
<1>3. CASE ReadBody(c)
  <2>1. call[c].step = "arrived" /\ "arrived" \in Early
    BY <1>3 DEF ReadBody, At, Early
  <2>2. (\E step : Goto(c, step)) \/ Reply(c, "too_large")
    BY <1>3 DEF ReadBody
  <2> QED
    BY <2>1, <2>2, GotoQuiet, ReplyQuiet
<1>4. CASE RefuseInput(c)
  BY <1>1, <1>4, ToldQuiet DEF RefuseInput, Outcome, At
<1>5. CASE RunWorker(c) \/ RunPage(c)
  <2>1. call[c].step \in {"work", "page"}
    BY <1>5 DEF RunWorker, RunPage, At
  <2>2. Goto(c, "bill") \/ Fail(c)
    BY <1>5 DEF RunWorker, RunPage
  <2> QED
    BY <2>1, <2>2, GotoQuiet, FailQuiet DEF Early
<1>6. CASE OpenContext(c)
  <2>1. call[c].step = "work"
    BY <1>6 DEF OpenContext, At
  <2>2. CASE call' = [call EXCEPT ![c].tries = 1]
    <3> DEFINE r == [call[c] EXCEPT !.tries = 1]
    <3>1. call' = [call EXCEPT ![c] = r]
      BY <2>2 DEF CalmInv
    <3>2. r.hit = call[c].hit /\ r.req = call[c].req /\ r.told = call[c].told /\ r.step = call[c].step
      BY <1>1 DEF IsCall, Fields
    <3> HIDE DEF r
    <3> QED
      BY <2>1, <3>1, <3>2, OneQuiet
  <2>3. call' = [call EXCEPT ![c].tries = 1] \/ Fail(c) \/ Goto(c, "page")
    BY <1>6 DEF OpenContext
  <2> QED
    BY <2>1, <2>2, <2>3, FailQuiet, GotoQuiet DEF Early
<1>7. CASE Bill(c)
  <2>1. PICK settle \in {"settled", "pending", "refused"} :
          call' = [call EXCEPT ![c] =
            Told([call[c] EXCEPT !.charged = settle # "refused"],
                 IF settle = "refused" THEN "withheld" ELSE "delivered")]
    BY <1>7 DEF Bill
  <2> DEFINE r == [call[c] EXCEPT !.charged = settle # "refused"]
             told == IF settle = "refused" THEN "withheld" ELSE "delivered"
  <2>2. IsCall(r) /\ r.hit = call[c].hit /\ r.req = call[c].req /\ told # "rate_limited"
    BY <1>1 DEF IsCall, Fields
  <2>3. call[c].step # "none"
    BY <1>7 DEF Bill, At
  <2> HIDE DEF r, told
  <2> QED
    BY <2>1, <2>2, <2>3, ToldQuiet DEF r, told
<1>8. CASE \E t \in Threads : TakeThread(c, t)
  <2>1. PICK t \in Threads : call' = [call EXCEPT ![c].step = "gate", ![c].thread = t]
    BY <1>8 DEF TakeThread
  <2> DEFINE r == [call[c] EXCEPT !.step = "gate", !.thread = t]
  <2>2. call' = [call EXCEPT ![c] = r] /\ call[c].step = "queued"
    BY <1>8, <2>1 DEF CalmInv, TakeThread, At
  <2>3. r.hit = call[c].hit /\ r.req = call[c].req /\ r.told = call[c].told
    BY <1>1 DEF IsCall, Fields
  <2> HIDE DEF r
  <2> QED
    BY <2>2, <2>3, OneQuiet DEF Early
<1> QED
  BY <1>2, <1>3, <1>4, <1>5, <1>6, <1>7, <1>8

LEMMA StepCounts == CalmInv /\ LimiterInv /\ [Next]_vars => LimiterInv' /\ CountsRightly
<1> SUFFICES ASSUME CalmInv, LimiterInv, [Next]_vars PROVE LimiterInv' /\ CountsRightly
  OBVIOUS
<1>1. \A t \in tasks : t.state # "rate_limited"
  BY DEF LimiterInv
<1>2. ASSUME UNCHANGED <<coming, log, forgotten, call, tasks>>, now' \in {now, now + 1}
      PROVE  LimiterInv' /\ CountsRightly
  <2>1. Quiet
    BY <1>2 DEF Quiet
  <2> QED
    BY <1>1, <1>2, <2>1, QuietKeeps
<1>3. CASE \/ Tick \/ UNCHANGED vars
           \/ \E t \in Threads, how \in {"gone", "wedged"} : BrowserDies(t, how)
  BY <1>2, <1>3 DEF Tick, BrowserDies, vars, limiterVars, taskVars
<1>4. CASE \E c \in Calls, r \in coming, k \in TaskIds \cup {None} : Arrive(c, r, k)
  BY <1>4, ArriveKeeps
<1>5. CASE \E c \in Calls : GetTask(c) \/ CancelTask(c) \/ SendMessage(c) \/ NewTask(c)
  BY <1>5, MethodKeeps
<1>6. CASE \E c \in Calls : PriceProbe(c) \/ Gate(c)
  BY <1>6, LimitedKeeps
<1>7. ASSUME NEW c \in Calls,
             \/ BodyLimit(c) \/ ReadBody(c) \/ Free(c) \/ RefuseInput(c) \/ OpenContext(c)
             \/ RunWorker(c) \/ Bill(c) \/ RunPage(c) \/ \E t \in Threads : TakeThread(c, t)
      PROVE  LimiterInv' /\ CountsRightly
  <2>1. UNCHANGED <<coming, log, forgotten, tasks, now>>
    BY <1>7 DEF BodyLimit, ReadBody, Free, RefuseInput, OpenContext, RunWorker, Bill, RunPage,
       TakeThread, limiterVars, taskVars
  <2> QED
    BY <1>1, <1>7, <2>1, WorkQuiet, QuietKeeps
<1> QED
  BY <1>3, <1>4, <1>5, <1>6, <1>7 DEF Next, LoopStep, JobStep

(* At the start the table is empty and no call was let through.             *)
LEMMA InitLimiter == Init => LimiterInv
<1> SUFFICES ASSUME Init PROVE LimiterInv
  OBVIOUS
<1>1. \A c \in Calls : call[c].step = "none" /\ call[c].hit = None
  BY DEF Init, NoCall
<1>2. coming \in Mixes /\ now \in Nat /\ log = [k \in Clients |-> {}] /\ tasks = {}
  BY DEF Init
<1> QED
  BY <1>1, <1>2 DEF LimiterInv, Unhit, HitsAreCalls, HitsAreKept, InWindow

(* The limiter refuses a call only if its client made Limit calls in the      *)
(* window, and lets one more pass only for a client a full table has          *)
(* forgotten, whatever sweeps and other clients come between ("can only ever  *)
(* forgive a request, never wrongly deny one").                              *)
(* (Code: _SlidingWindowLimiter.check and _sweep_locked.)                    *)
THEOREM LimiterIsFair == Spec => LimiterCounts
<1>1. CalmInv /\ LimiterInv /\ [Next]_vars => [CountsRightly]_vars
  BY StepCounts
<1>2. LimiterInv /\ CalmInv /\ [Next]_vars => LimiterInv'
  BY StepCounts
<1>3. Spec => [][CountsRightly]_vars
  BY <1>1, <1>2, InitCalm, InitLimiter, StepKeepsCalm, PTL DEF Spec
<1> QED
  BY <1>3 DEF LimiterCounts, CountsRightly

-----------------------------------------------------------------------------
(* Everything stays of its kind and within its bounds: the limiter's table    *)
(* and each window in it, the task store, and where each request stands.     *)
LimiterTypes ==
  /\ now \in 0 .. MaxTime /\ lastSweep \in 0 .. now /\ forgotten \subseteq Clients
  /\ log = [k \in Clients |-> log[k]]
  /\ \A k \in Clients : /\ IsFiniteSet(log[k]) /\ Cardinality(log[k]) <= Limit
                        /\ \A h \in log[k] : h.at \in 0 .. now
  /\ IsFiniteSet(Table(log)) /\ Cardinality(Table(log)) <= MaxKeys + 1

(* A sweep leaves at most max_keys clients in the table: one over the limit,  *)
(* and half of it goes.  (Code: _sweep_locked.)                              *)
Swept(gone) == IF SweepDue THEN Drop(Drop(log, Expired(log)), gone) ELSE log

LEMMA SweepBounds ==
  ASSUME LimiterTypes, NEW gone \in SUBSET Clients, Sweep(Swept(gone), gone)
  PROVE  /\ IsFiniteSet(Table(Swept(gone))) /\ Cardinality(Table(Swept(gone))) <= MaxKeys
         /\ Swept(gone) = [x \in Clients |-> Swept(gone)[x]]
         /\ \A x \in Clients : Swept(gone)[x] \subseteq log[x]
<1>1. MaxKeys \in Nat \ {0} /\ IsFiniteSet(Table(log)) /\ Cardinality(Table(log)) \in Nat
  BY FrontAssumption, FS_CardinalityType DEF LimiterTypes, FrontAssumption
<1>2. CASE ~SweepDue
  BY <1>1, <1>2 DEF Swept, SweepDue, LimiterTypes
<1>3. CASE SweepDue
  <2> DEFINE kept == Drop(log, Expired(log))
             n    == Cardinality(Table(kept))
  <2>1. /\ kept = [x \in Clients |-> IF x \in Expired(log) THEN {} ELSE log[x]]
        /\ Swept(gone) = [x \in Clients |-> IF x \in gone THEN {} ELSE kept[x]]
    BY <1>3 DEF Swept, Drop
  <2>2. /\ Table(kept) \subseteq Table(log) /\ Table(Swept(gone)) = Table(kept) \ gone
        /\ \A x \in Clients : Swept(gone)[x] \subseteq log[x]
    BY <2>1 DEF Table
  <2>3. IF n > MaxKeys THEN gone \in OldestHalf(kept) ELSE gone = {}
    BY <1>3 DEF Sweep
  <2>4. IsFiniteSet(Table(kept)) /\ n \in Nat /\ n <= MaxKeys + 1
    BY <1>1, <2>2, FS_Subset, FS_CardinalityType DEF LimiterTypes
  <2>5. CASE n > MaxKeys
    <3>1. gone \subseteq Table(kept) /\ Cardinality(gone) = n \div 2
      BY <2>3, <2>5 DEF OldestHalf
    <3>2. /\ IsFiniteSet(Table(kept) \ gone)
          /\ Cardinality(Table(kept) \ gone) = n - Cardinality(Table(kept) \cap gone)
      BY <2>4, FS_Difference
    <3>3. Table(kept) \cap gone = gone
      BY <3>1
    <3>4. n \div 2 >= 1
      BY <1>1, <2>4, <2>5
    <3>5. Cardinality(Table(kept) \ gone) = n - n \div 2
      BY <3>1, <3>2, <3>3
    <3> HIDE DEF n, kept
    <3>6. n - n \div 2 <= MaxKeys
      BY <1>1, <2>4, <3>4
    <3> QED
      BY <2>1, <2>2, <3>2, <3>5, <3>6
  <2>6. CASE ~(n > MaxKeys)
    <3>1. Table(Swept(gone)) = Table(kept)
      BY <2>2, <2>3, <2>6
    <3> QED
      BY <1>1, <2>1, <2>2, <2>4, <2>6, <3>1
  <2> QED
    BY <2>5, <2>6
<1> QED
  BY <1>2, <1>3

(* A check fills a window up to the limit and adds one client to the table.   *)
LEMMA CheckBounds ==
  ASSUME LimiterInv, LimiterTypes, NEW c \in Calls, call[c].req.client \in Clients,
         NEW passes \in BOOLEAN, LimiterCheck(c, passes), now' = now
  PROVE  LimiterTypes'
<1> DEFINE k == call[c].req.client
<1>1. PICK gone \in SUBSET Clients :
        /\ Sweep(Swept(gone), gone)
        /\ passes = (Cardinality(Live(Swept(gone)[k])) < Limit)
        /\ log' = [Swept(gone) EXCEPT ![k] = IF passes
                     THEN Live(Swept(gone)[k]) \cup {[at |-> now, of |-> c]}
                     ELSE Live(Swept(gone)[k])]
        /\ lastSweep' = IF SweepDue THEN now ELSE lastSweep
        /\ forgotten' = forgotten \cup gone
  BY DEF LimiterCheck, Swept
<1> DEFINE hits == Live(Swept(gone)[k])
           mine == IF passes THEN hits \cup {[at |-> now, of |-> c]} ELSE hits
<1>2. /\ IsFiniteSet(Table(Swept(gone))) /\ Cardinality(Table(Swept(gone))) <= MaxKeys
      /\ Swept(gone) = [x \in Clients |-> Swept(gone)[x]]
      /\ \A x \in Clients : Swept(gone)[x] \subseteq log[x]
  BY <1>1, SweepBounds
<1>3. /\ now \in 0 .. MaxTime /\ now \in Nat /\ Limit \in Nat \ {0} /\ MaxKeys \in Nat
      /\ lastSweep \in 0 .. now
  BY FrontAssumption DEF LimiterTypes, FrontAssumption
<1>4. \A x \in Clients :
        /\ IsFiniteSet(Swept(gone)[x]) /\ Cardinality(Swept(gone)[x]) <= Limit
        /\ \A h \in Swept(gone)[x] : h.at \in 0 .. now
  <2> SUFFICES ASSUME NEW x \in Clients
               PROVE  /\ IsFiniteSet(Swept(gone)[x]) /\ Cardinality(Swept(gone)[x]) <= Limit
                      /\ \A h \in Swept(gone)[x] : h.at \in 0 .. now
    OBVIOUS
  <2>1. /\ Swept(gone)[x] \subseteq log[x] /\ IsFiniteSet(log[x])
        /\ Cardinality(log[x]) <= Limit /\ \A h \in log[x] : h.at \in 0 .. now
    BY <1>2 DEF LimiterTypes
  <2>2. /\ IsFiniteSet(Swept(gone)[x]) /\ Cardinality(Swept(gone)[x]) <= Cardinality(log[x])
    BY <2>1, FS_Subset
  <2>3. Cardinality(Swept(gone)[x]) \in Nat /\ Cardinality(log[x]) \in Nat
    BY <2>1, <2>2, FS_CardinalityType
  <2> QED
    BY <1>3, <2>1, <2>2, <2>3
<1>5. hits \subseteq Swept(gone)[k]
  BY DEF Live
<1>6. /\ IsFiniteSet(mine) /\ Cardinality(mine) <= Limit
      /\ \A h \in mine : h.at \in 0 .. now
  <2>1. /\ IsFiniteSet(hits) /\ Cardinality(hits) <= Cardinality(Swept(gone)[k])
        /\ Cardinality(hits) \in Nat /\ Cardinality(Swept(gone)[k]) \in Nat
    BY <1>4, <1>5, FS_Subset, FS_CardinalityType
  <2>2. CASE passes
    <3>1. Cardinality(hits) < Limit
      BY <1>1, <2>2
    <3>2. /\ IsFiniteSet(hits \cup {[at |-> now, of |-> c]})
          /\ \/ Cardinality(hits \cup {[at |-> now, of |-> c]}) = Cardinality(hits)
             \/ Cardinality(hits \cup {[at |-> now, of |-> c]}) = Cardinality(hits) + 1
      BY <2>1, FS_AddElement
    <3> QED
      BY <1>3, <1>4, <1>5, <2>1, <2>2, <3>1, <3>2
  <2>3. CASE ~passes
    <3>1. Cardinality(hits) <= Limit
      BY <1>3, <1>4, <2>1
    <3> QED
      BY <1>4, <1>5, <2>1, <2>3, <3>1
  <2> QED
    BY <2>2, <2>3
<1>7. log' = [Swept(gone) EXCEPT ![k] = mine]
  BY <1>1
<1> HIDE DEF hits, mine
<1>8. /\ log' = [x \in Clients |-> log'[x]] /\ log'[k] = mine
      /\ \A x \in Clients \ {k} : log'[x] = Swept(gone)[x]
  BY <1>2, <1>7
<1>9. IsFiniteSet(Table(log')) /\ Cardinality(Table(log')) <= MaxKeys + 1
  <2> DEFINE T == Table(Swept(gone))
  <2>1. IsFiniteSet(T) /\ Cardinality(T) <= MaxKeys /\ Cardinality(T) \in Nat
    BY <1>2, FS_CardinalityType
  <2>2. Table(log') \subseteq T \cup {k}
    BY <1>8 DEF Table
  <2> HIDE DEF T
  <2>3. /\ IsFiniteSet(T \cup {k})
        /\ (Cardinality(T \cup {k}) = Cardinality(T) \/ Cardinality(T \cup {k}) = Cardinality(T) + 1)
    BY <2>1, FS_AddElement
  <2>4. /\ IsFiniteSet(Table(log')) /\ Cardinality(Table(log')) <= Cardinality(T \cup {k})
        /\ Cardinality(Table(log')) \in Nat
    BY <2>2, <2>3, FS_Subset, FS_CardinalityType
  <2> QED
    BY <1>3, <2>1, <2>3, <2>4
<1>10. lastSweep' \in 0 .. now /\ forgotten' \subseteq Clients
  BY <1>1, <1>3 DEF LimiterTypes
<1>11. \A x \in Clients : /\ IsFiniteSet(log'[x]) /\ Cardinality(log'[x]) <= Limit
                          /\ \A h \in log'[x] : h.at \in 0 .. now
  BY <1>4, <1>6, <1>8
<1> QED
  BY <1>3, <1>8, <1>9, <1>10, <1>11 DEF LimiterTypes, Table

LEMMA LimiterTypesKept == LimiterInv /\ LimiterTypes /\ [Next]_vars => LimiterTypes'
<1> SUFFICES ASSUME LimiterInv, LimiterTypes, [Next]_vars PROVE LimiterTypes'
  OBVIOUS
<1>1. ASSUME UNCHANGED limiterVars, now' = now PROVE LimiterTypes'
  BY <1>1 DEF LimiterTypes, limiterVars, Table
<1>2. CASE Tick
  <2>1. now' \in 0 .. MaxTime /\ now \in Nat /\ now' = now + 1 /\ UNCHANGED limiterVars
    BY <1>2, FrontAssumption DEF Tick, LimiterTypes, FrontAssumption
  <2> QED
    BY <2>1 DEF LimiterTypes, limiterVars, Table
<1>3. ASSUME NEW c \in Calls, PriceProbe(c) \/ Gate(c) PROVE LimiterTypes'
  <2>1. call[c].req.client \in Clients /\ now' = now
    BY <1>3 DEF PriceProbe, Gate, At, LimiterInv, Unhit
  <2>2. PICK passes \in BOOLEAN : LimiterCheck(c, passes)
    BY <1>3 DEF PriceProbe, Gate
  <2> QED
    BY <2>1, <2>2, CheckBounds
<1>4. CASE \/ \E c \in Calls, r \in coming, k \in TaskIds \cup {None} : Arrive(c, r, k)
           \/ \E c \in Calls : \/ BodyLimit(c) \/ ReadBody(c) \/ Free(c) \/ GetTask(c)
                               \/ CancelTask(c) \/ SendMessage(c) \/ NewTask(c)
           \/ \E t \in Threads, how \in {"gone", "wedged"} : BrowserDies(t, how)
  BY <1>1, <1>4 DEF Arrive, BodyLimit, ReadBody, Free, GetTask, CancelTask, SendMessage,
                    NewTask, BrowserDies
<1>5. CASE \/ \E c \in Calls : \/ RefuseInput(c) \/ OpenContext(c) \/ RunWorker(c) \/ Bill(c)
                               \/ RunPage(c) \/ \E t \in Threads : TakeThread(c, t)
           \/ UNCHANGED vars
  BY <1>1, <1>5 DEF RefuseInput, OpenContext, RunWorker, Bill, RunPage, TakeThread, vars,
                    limiterVars
<1> QED
  BY <1>2, <1>3, <1>4, <1>5 DEF Next, LoopStep, JobStep

-----------------------------------------------------------------------------
(* The task store is within its bound, its ids are those given out so far,    *)
(* and each was given out to a request that is done with.                    *)
Tools == {"audit", "worker"}
DoneCalls == {c \in Calls : call[c].step = "done"}

StoreTypes ==
  /\ made \in Nat /\ made <= Cardinality(DoneCalls)
  /\ Cardinality(tasks) <= MaxTasks
  /\ \A t \in tasks : t.id \in 1 .. made /\ t.tool \in Tools

(* Where a request stands: past its arrival it is one of those that came, and *)
(* past its routing it names a tool.  n: how many tasks there are.           *)
Busy == {"queued", "gate", "work", "page", "bill", "task"}

Shaped(r, n) ==
  /\ IF r.step = "none" THEN r.req = None ELSE r.req \in Requests
  /\ r.thread \in Threads \cup {None} /\ r.tries \in 0 .. 1
  /\ r.task \in 1 .. n \cup {None}
  /\ r.step \notin {"none", "done"} /\ r.req.follows => r.task # None
  /\ r.step \in {"arrived", "route"} => r.tool = r.req.tool
  /\ r.step \in Busy => r.tool \in Tools

CallTypes == \A c \in Calls : Shaped(call[c], made)

BrowserTypes == browser \in [Threads -> {"none", "live", "wedged", "gone"}]

TypeInv == CalmInv /\ StoreInv /\ LimiterInv /\ LimiterTypes /\ StoreTypes /\ CallTypes
           /\ BrowserTypes

(* No more requests are done than there are.                                 *)
LEMMA DoneFinite ==
  ASSUME NEW D \in SUBSET Calls
  PROVE  IsFiniteSet(D) /\ Cardinality(D) \in Nat /\ Cardinality(D) <= MaxCalls
<1>1. IsFiniteSet(Calls) /\ Cardinality(Calls) = MaxCalls
  BY FrontAssumption, FS_Interval DEF Calls, FrontAssumption
<1> QED
  BY <1>1, FS_Subset, FS_CardinalityType

(* A put stays within max_tasks: one over it, and the oldest goes.            *)
(* (Code: TaskStore.put.)                                                    *)
LEMMA PutBounds ==
  ASSUME StoreInv, StoreTypes, NEW n \in Nat, made <= n, NEW k \in 1 .. n, NEW tool \in Tools,
         NEW state, Put(k, tool, state)
  PROVE  /\ Cardinality(tasks') <= MaxTasks
         /\ \A t \in tasks' : t.id \in 1 .. n /\ t.tool \in Tools
<1> DEFINE task == NewEntry(k, tool, state)
           rest == {t \in tasks : t.id # k}
           all  == rest \cup {task}
<1>1. tasks' = IF Cardinality(all) > MaxTasks THEN all \ {Oldest(all)} ELSE all
  BY DEF Put
<1>2. task.id = k /\ task.tool = tool /\ task.nth = Len(puts) + 1
  BY DEF NewEntry
<1>3. /\ IsFiniteSet(tasks) /\ Len(puts) \in Nat /\ MaxTasks \in Nat
      /\ DOMAIN puts = 1 .. Len(puts) /\ \A t \in tasks : t.nth \in DOMAIN puts
  BY FrontAssumption DEF StoreInv, Stamped, LastPuts, FrontAssumption
<1> HIDE DEF task
<1>4. rest \subseteq tasks
  OBVIOUS
<1>5. /\ IsFiniteSet(rest) /\ Cardinality(rest) <= Cardinality(tasks)
      /\ Cardinality(rest) \in Nat /\ Cardinality(tasks) \in Nat
  BY <1>3, <1>4, FS_Subset, FS_CardinalityType
<1> HIDE DEF rest
<1>6. /\ IsFiniteSet(all) /\ Cardinality(all) \in Nat
      /\ Cardinality(all) = Cardinality(rest) \/ Cardinality(all) = Cardinality(rest) + 1
  BY <1>5, FS_AddElement, FS_CardinalityType
<1>7. Cardinality(all) <= MaxTasks + 1
  BY <1>3, <1>5, <1>6 DEF StoreTypes
<1>8. Oldest(all) \in all
  <2>1. \A t \in all : t.nth \in Nat
    BY <1>2, <1>3, <1>4
  <2> QED
    BY <2>1, OldestFound
<1>9. Cardinality(all \ {Oldest(all)}) = Cardinality(all) - 1
  BY <1>6, <1>8, FS_RemoveElement
<1>10. Cardinality(tasks') <= MaxTasks
  BY <1>1, <1>3, <1>6, <1>7, <1>9
<1>11. \A t \in all : t.id \in 1 .. n /\ t.tool \in Tools
  <2>1. 1 .. made \subseteq 1 .. n
    BY DEF StoreTypes
  <2> QED
    BY <1>2, <1>4, <2>1 DEF StoreTypes
<1> QED
  BY <1>1, <1>10, <1>11

(* A read leaves no more in the store than there was.                        *)
LEMMA LookBounds ==
  ASSUME StoreInv, StoreTypes, NEW k, Look(k)
  PROVE  /\ Cardinality(tasks') <= MaxTasks
         /\ \A t \in tasks' : t.id \in 1 .. made /\ t.tool \in Tools
<1>1. tasks' \subseteq tasks /\ IsFiniteSet(tasks) /\ MaxTasks \in Nat
  BY FrontAssumption DEF Look, StoreInv, LastPuts, FrontAssumption
<1>2. /\ Cardinality(tasks') <= Cardinality(tasks) /\ Cardinality(tasks') \in Nat
      /\ Cardinality(tasks) \in Nat
  BY <1>1, FS_Subset, FS_CardinalityType
<1> QED
  BY <1>1, <1>2 DEF StoreTypes

(* One request takes a step, the others stay: what is kept, and what is done. *)
LEMMA OneShaped ==
  ASSUME CalmInv, CallTypes, StoreTypes, NEW c \in Calls, call[c].step # "done",
         NEW r, call' = [call EXCEPT ![c] = r], made' \in Nat, made <= made',
         Shaped(r, made')
  PROVE  /\ CallTypes' /\ DoneCalls \subseteq DoneCalls'
         /\ r.step = "done" => DoneCalls' = DoneCalls \cup {c}
<1>1. call'[c] = r /\ \A d \in Calls \ {c} : call'[d] = call[d]
  BY DEF CalmInv
<1>2. \A d \in Calls \ {c} : Shaped(call[d], made')
  <2>1. 1 .. made \subseteq 1 .. made'
    BY DEF StoreTypes
  <2> QED
    BY <2>1 DEF CallTypes, Shaped
<1> QED
  BY <1>1, <1>2 DEF CallTypes, DoneCalls

(* A request that keeps its tool and its task keeps its shape on the way from *)
(* one step to a later one.                                                  *)
LEMMA MoveShaped ==
  ASSUME NEW r, NEW s, NEW n, Shaped(r, n), r.step # "none", r.step # "done", s.step # "none",
         s.req = r.req, s.tool = r.tool, s.task = r.task,
         s.thread \in Threads \cup {None}, s.tries \in 0 .. 1,
         s.step \in {"arrived", "route"} => r.step \in {"arrived", "route"},
         s.step \in Busy => r.tool \in Tools
  PROVE  Shaped(s, n)
BY DEF Shaped

Moves(c) == \E r : call' = [call EXCEPT ![c] = r] /\ Shaped(r, made)

LEMMA StepTypes ==
  ASSUME CalmInv, CallTypes, StoreTypes, NEW c \in Calls, call[c].step # "done", Moves(c),
         made' = made, Cardinality(tasks') <= MaxTasks,
         \A t \in tasks' : t.id \in 1 .. made /\ t.tool \in Tools
  PROVE  StoreTypes' /\ CallTypes'
<1>1. PICK r : call' = [call EXCEPT ![c] = r] /\ Shaped(r, made)
  BY DEF Moves
<1>2. made \in Nat /\ made <= Cardinality(DoneCalls)
  BY DEF StoreTypes
<1>3. CallTypes' /\ DoneCalls \subseteq DoneCalls'
  <2>1. made' \in Nat /\ made <= made' /\ Shaped(r, made')
    BY <1>1, <1>2
  <2> QED
    BY <1>1, <2>1, OneShaped
<1>4. DoneCalls' \in SUBSET Calls
  BY DEF DoneCalls
<1>5. /\ IsFiniteSet(DoneCalls') /\ Cardinality(DoneCalls') \in Nat
      /\ Cardinality(DoneCalls) <= Cardinality(DoneCalls') /\ Cardinality(DoneCalls) \in Nat
  BY <1>3, <1>4, DoneFinite, FS_Subset, FS_CardinalityType
<1> QED
  BY <1>2, <1>3, <1>5 DEF StoreTypes

LEMMA ReplyMoves ==
  ASSUME CalmInv, CallTypes, NEW c \in Calls, call[c].step \notin {"none", "done"},
         NEW told, Reply(c, told)
  PROVE  Moves(c)
<1> DEFINE r == [[call[c] EXCEPT !.told = told] EXCEPT !.step = "done"]
<1>1. Shaped(call[c], made) /\ IsCall(call[c])
  BY DEF CallTypes, CalmInv, Calm
<1>2. /\ r.step = "done" /\ r.req = call[c].req /\ r.tool = call[c].tool
      /\ r.task = call[c].task /\ r.thread = call[c].thread /\ r.tries = call[c].tries
  BY <1>1 DEF IsCall, Fields
<1>3. call' = [call EXCEPT ![c] = r]
  BY DEF Reply, CalmInv
<1> HIDE DEF r
<1>4. Shaped(r, made)
  BY <1>1, <1>2 DEF Shaped, Busy
<1> QED
  BY <1>3, <1>4 DEF Moves

LEMMA GotoMoves ==
  ASSUME CalmInv, CallTypes, NEW c \in Calls, call[c].step \notin {"none", "done"},
         NEW step, step # "none", Goto(c, step),
         step \in {"arrived", "route"} => call[c].step \in {"arrived", "route"},
         step \in Busy => call[c].tool \in Tools
  PROVE  Moves(c)
<1> DEFINE r == [call[c] EXCEPT !.step = step]
<1>1. Shaped(call[c], made) /\ IsCall(call[c])
  BY DEF CallTypes, CalmInv, Calm
<1>2. /\ r.step = step /\ r.req = call[c].req /\ r.tool = call[c].tool
      /\ r.task = call[c].task /\ r.thread = call[c].thread /\ r.tries = call[c].tries
  BY <1>1 DEF IsCall, Fields
<1>3. call' = [call EXCEPT ![c] = r]
  BY DEF Goto, CalmInv
<1> HIDE DEF r
<1>4. Shaped(r, made)
  BY <1>1, <1>2 DEF Shaped
<1> QED
  BY <1>3, <1>4 DEF Moves

LEMMA ToldMoves ==
  ASSUME CalmInv, CallTypes, NEW c \in Calls, call[c].step \in Busy, NEW r, IsCall(r),
         r.req = call[c].req, r.tool = call[c].tool, r.task = call[c].task,
         r.tries = call[c].tries, NEW told, call' = [call EXCEPT ![c] = Told(r, told)]
  PROVE  Moves(c)
<1> DEFINE t == Told(r, told)
<1>1. /\ t.step \in {"task", "done"} /\ t.req = r.req /\ t.tool = r.tool /\ t.task = r.task
      /\ t.tries = r.tries /\ t.thread = None
  BY DEF Told, IsCall, Fields
<1> HIDE DEF t
<1>2. Shaped(call[c], made)
  BY DEF CallTypes
<1>3. Shaped(t, made)
  BY <1>1, <1>2 DEF Shaped, Busy
<1> QED
  BY <1>3 DEF Moves, t

LEMMA FailMoves ==
  ASSUME CalmInv, CallTypes, NEW c \in Calls, call[c].step \in Busy, Fail(c)
  PROVE  Moves(c)
<1> DEFINE r == [call[c] EXCEPT !.charged = FALSE]
<1>1. /\ IsCall(r) /\ r.req = call[c].req /\ r.tool = call[c].tool
      /\ r.task = call[c].task /\ r.tries = call[c].tries
  BY DEF CalmInv, Calm, IsCall, Fields
<1> HIDE DEF r
<1> QED
  BY <1>1, ToldMoves DEF Fail, r

(* What a request asks for: a job names its tool, unless its task does, and a *)
(* method of the task store names a task.  (Code: AuditRequest, parse_message.)*)
LEMMA RequestShape ==
  ASSUME NEW r \in Requests
  PROVE  /\ r.tool \in Tools \cup {None}
         /\ r.op = "job" /\ r.via # "a2a" => r.tool \in Tools
         /\ r.op \in {"get", "cancel"} => r.follows
<1>1. /\ r \in RequestType /\ (r.tool = None => r.via = "a2a" \/ r.op = "free")
      /\ (r.op \in {"get", "cancel"} => r.follows)
  BY FrontAssumption DEF FrontAssumption
<1>2. r.tool \in {"audit", "worker", None}
  BY <1>1 DEF RequestType
<1> QED
  BY <1>1, <1>2 DEF Tools

LEMMA ArriveTypes ==
  ASSUME TypeInv, NEW c \in Calls, NEW r \in coming, NEW k \in TaskIds \cup {None},
         Arrive(c, r, k)
  PROVE  StoreTypes' /\ CallTypes'
<1> DEFINE t == [NoCall EXCEPT !.step = "arrived", !.req = r, !.task = k, !.tool = r.tool]
<1>1. /\ t.step = "arrived" /\ t.req = r /\ t.task = k /\ t.tool = r.tool
      /\ t.thread = None /\ t.tries = 0
  BY DEF NoCall
<1>2. call' = [call EXCEPT ![c] = t] /\ call[c].step = "none"
  BY DEF Arrive, At
<1> HIDE DEF t
<1>3. r \in Requests /\ k \in 1 .. made \cup {None} /\ (r.follows => k \in 1 .. made)
  BY DEF Arrive, TypeInv, LimiterInv, Requests
<1>4. None \notin 1 .. made
  BY NoneAssumption DEF TypeInv, StoreTypes
<1>5. Shaped(t, made)
  BY <1>1, <1>3, <1>4 DEF Shaped, Busy
<1>6. Moves(c)
  BY <1>2, <1>5 DEF Moves
<1>7. UNCHANGED <<made, tasks>>
  BY DEF Arrive, taskVars
<1> QED
  BY <1>2, <1>6, <1>7, StepTypes DEF TypeInv, StoreTypes

(* The methods of A2A, each with what it does to the store.                  *)
(* (Code: a2a_jsonrpc.)                                                      *)
LEMMA MethodTypes ==
  ASSUME TypeInv, NEW c \in Calls, GetTask(c) \/ CancelTask(c) \/ SendMessage(c)
  PROVE  StoreTypes' /\ CallTypes'
<1>1. /\ call[c].step = "route" /\ Shaped(call[c], made) /\ IsCall(call[c])
      /\ call[c].req \in Requests /\ made' = made /\ made \in Nat
  BY DEF GetTask, CancelTask, SendMessage, At, TypeInv, CallTypes, Shaped, CalmInv, Calm,
         StoreTypes
<1>2. ASSUME NEW told, Reply(c, told) PROVE Moves(c)
  BY <1>1, <1>2, ReplyMoves DEF TypeInv
<1>3. ASSUME Moves(c), Look(call[c].task) PROVE StoreTypes' /\ CallTypes'
  <2>1. /\ Cardinality(tasks') <= MaxTasks
        /\ \A t \in tasks' : t.id \in 1 .. made /\ t.tool \in Tools
    BY <1>3, LookBounds DEF TypeInv
  <2> QED
    BY <1>1, <1>3, <2>1, StepTypes DEF TypeInv
<1>4. CASE GetTask(c)
  <2>1. (\E told : Reply(c, told)) /\ Look(call[c].task)
    BY <1>4 DEF GetTask
  <2> QED
    BY <1>2, <1>3, <2>1
<1>5. CASE CancelTask(c)
  <2> DEFINE k == call[c].task
  <2>1. \E told : Reply(c, told)
    BY <1>5 DEF CancelTask
  <2>2. Moves(c)
    BY <1>2, <2>1
  <2>3. CASE Look(k)
    BY <1>3, <2>2, <2>3
  <2>4. CASE UNCHANGED tasks
    BY <1>1, <2>2, <2>4, StepTypes DEF TypeInv, StoreTypes
  <2>5. ASSUME Stored(k) # {}, Put(k, Task(k).tool, "canceled")
        PROVE  StoreTypes' /\ CallTypes'
    <3>1. Task(k) \in tasks /\ Task(k).id = k
      BY <2>5 DEF Task, Stored
    <3>2. k \in 1 .. made /\ Task(k).tool \in Tools
      BY <3>1 DEF TypeInv, StoreTypes
    <3>3. PICK tool \in Tools : Put(k, tool, "canceled")
      BY <2>5, <3>2
    <3>4. /\ Cardinality(tasks') <= MaxTasks
          /\ \A t \in tasks' : t.id \in 1 .. made /\ t.tool \in Tools
      BY <1>1, <3>2, <3>3, PutBounds DEF TypeInv
    <3> QED
      BY <1>1, <2>2, <3>4, StepTypes DEF TypeInv
  <2> QED
    BY <1>5, <2>3, <2>4, <2>5 DEF CancelTask
<1>6. CASE SendMessage(c)
  <2>1. Look(call[c].task) /\ call[c].req.op = "job"
    BY <1>6 DEF SendMessage
  <2>2. CASE Skill(c) = None
    <3>1. \E told : Reply(c, told)
      BY <1>6, <2>2 DEF SendMessage
    <3> QED
      BY <1>2, <1>3, <2>1, <3>1
  <2>3. CASE Skill(c) # None
    <3> DEFINE r == [call[c] EXCEPT !.tool = Skill(c), !.step = Pool(Skill(c))]
    <3>1. call' = [call EXCEPT ![c] = r]
      BY <1>6, <2>3 DEF SendMessage, TypeInv, CalmInv
    <3>2. /\ r.step \in {"queued", "gate"} /\ r.tool = Skill(c) /\ r.req = call[c].req
          /\ r.task = call[c].task /\ r.thread = call[c].thread /\ r.tries = call[c].tries
      BY <1>1 DEF IsCall, Fields, Pool
    <3>3. Skill(c) \in Tools
      <4>1. CASE call[c].tool # None
        BY <1>1, <4>1, RequestShape DEF Skill, Shaped
      <4>2. CASE call[c].tool = None
        <5>1. Stored(call[c].task) # {} /\ Skill(c) = Task(call[c].task).tool
          BY <2>3, <4>2 DEF Skill
        <5>2. Task(call[c].task) \in tasks
          BY <5>1 DEF Task, Stored
        <5> QED
          BY <5>1, <5>2 DEF TypeInv, StoreTypes
      <4> QED
        BY <4>1, <4>2
    <3> HIDE DEF r
    <3>4. Shaped(r, made)
      BY <1>1, <3>2, <3>3 DEF Shaped
    <3>5. Moves(c)
      BY <3>1, <3>4 DEF Moves
    <3> QED
      BY <1>3, <2>1, <3>5
  <2> QED
    BY <2>2, <2>3
<1> QED
  BY <1>4, <1>5, <1>6

(* The result of a job becomes a task: the one the message named, or a new    *)
(* one, and no request makes a second.  (Code: new_task, TaskStore.put.)      *)
LEMMA NewTaskTypes ==
  ASSUME TypeInv, NEW c \in Calls, NewTask(c)
  PROVE  StoreTypes' /\ CallTypes'
<1>1. /\ call[c].step = "task" /\ Shaped(call[c], made) /\ IsCall(call[c]) /\ made \in Nat
      /\ made <= Cardinality(DoneCalls)
  BY DEF NewTask, At, TypeInv, CallTypes, CalmInv, Calm, StoreTypes
<1>2. PICK k : /\ k = IF call[c].task = None THEN made + 1 ELSE call[c].task
               /\ Put(k, call[c].tool, StateOf(call[c].told))
               /\ made' = IF call[c].task = None THEN made + 1 ELSE made
               /\ call' = [call EXCEPT ![c].step = "done", ![c].task = k]
  BY DEF NewTask
<1>3. made' \in Nat /\ made <= made' /\ made' <= made + 1 /\ k \in 1 .. made'
  BY <1>1, <1>2 DEF Shaped
<1> DEFINE r == [call[c] EXCEPT !.step = "done", !.task = k]
<1>4. call' = [call EXCEPT ![c] = r]
  BY <1>2 DEF TypeInv, CalmInv
<1>5. /\ r.step = "done" /\ r.tool = call[c].tool /\ r.req = call[c].req
      /\ r.task = k /\ r.thread = call[c].thread /\ r.tries = call[c].tries
  BY <1>1 DEF IsCall, Fields
<1> HIDE DEF r
<1>6. Shaped(r, made')
  BY <1>1, <1>3, <1>5 DEF Shaped, Busy
<1>7. CallTypes' /\ DoneCalls' = DoneCalls \cup {c}
  BY <1>1, <1>3, <1>4, <1>5, <1>6, OneShaped DEF TypeInv
<1>8. Cardinality(DoneCalls') = Cardinality(DoneCalls) + 1 /\ Cardinality(DoneCalls) \in Nat
  <2>1. DoneCalls \in SUBSET Calls /\ c \notin DoneCalls
    BY <1>1 DEF DoneCalls
  <2> QED
    BY <1>7, <2>1, DoneFinite, FS_AddElement
<1>9. call[c].tool \in Tools
  BY <1>1 DEF Shaped, Busy
<1>10. PICK n \in Nat : n = made'
  BY <1>3
<1>11. /\ Cardinality(tasks') <= MaxTasks
       /\ \A t \in tasks' : t.id \in 1 .. n /\ t.tool \in Tools
  BY <1>2, <1>3, <1>9, <1>10, PutBounds DEF TypeInv
<1> QED
  BY <1>1, <1>3, <1>7, <1>8, <1>10, <1>11 DEF StoreTypes

(* Before the gate and after it: no task is touched, and each request moves   *)
(* on by one step.                                                           *)
LEMMA EntryMoves ==
  ASSUME TypeInv, NEW c \in Calls, BodyLimit(c) \/ PriceProbe(c) \/ ReadBody(c) \/ Free(c)
  PROVE  Moves(c) /\ call[c].step \in {"arrived", "route"}
<1>1. /\ call[c].step \in {"arrived", "route"} /\ Shaped(call[c], made) /\ IsCall(call[c])
      /\ call[c].req \in Requests
  BY DEF BodyLimit, PriceProbe, ReadBody, Free, At, TypeInv, CallTypes, CalmInv, Calm, Shaped
<1> SUFFICES Moves(c)
  BY <1>1
<1>2. ASSUME NEW told, Reply(c, told) PROVE Moves(c)
  BY <1>1, <1>2, ReplyMoves DEF TypeInv
<1>3. CASE BodyLimit(c) \/ Free(c)
  <2>1. PICK told : Reply(c, told)
    BY <1>3 DEF BodyLimit, Free
  <2> QED
    BY <1>2, <2>1
<1>4. CASE PriceProbe(c)
  <2>1. PICK told, hit :
          call' = [call EXCEPT ![c].step = "done", ![c].told = told, ![c].hit = hit]
    BY <1>4 DEF PriceProbe
  <2> DEFINE r == [call[c] EXCEPT !.step = "done", !.told = told, !.hit = hit]
  <2>2. call' = [call EXCEPT ![c] = r]
    BY <2>1 DEF TypeInv, CalmInv
  <2>3. /\ r.step = "done" /\ r.req = call[c].req /\ r.tool = call[c].tool
        /\ r.task = call[c].task /\ r.thread = call[c].thread /\ r.tries = call[c].tries
    BY <1>1 DEF IsCall, Fields
  <2> HIDE DEF r
  <2>4. Shaped(r, made)
    BY <1>1, <2>3 DEF Shaped, Busy
  <2> QED
    BY <2>2, <2>4 DEF Moves
<1>5. CASE ReadBody(c)
  <2>1. call[c].step = "arrived" /\ call[c].tool = call[c].req.tool
    BY <1>1, <1>5 DEF ReadBody, At, Shaped
  <2>2. CASE Reply(c, "too_large")
    BY <1>2, <2>2
  <2>3. ASSUME call[c].req.op = "job", call[c].req.via # "a2a",
               NEW step \in {"queued", "gate"}, Goto(c, step)
        PROVE  Moves(c)
    <3>1. call[c].tool \in Tools
      BY <1>1, <2>1, <2>3, RequestShape
    <3> QED
      BY <2>1, <2>3, <3>1, GotoMoves DEF TypeInv
  <2>4. ASSUME Goto(c, "route") PROVE Moves(c)
    BY <2>1, <2>4, GotoMoves DEF TypeInv, Busy
  <2> QED
    BY <1>5, <2>2, <2>3, <2>4 DEF ReadBody, Pool
<1> QED
  BY <1>3, <1>4, <1>5

LEMMA GateMoves ==
  ASSUME TypeInv, NEW c \in Calls, Gate(c)
  PROVE  Moves(c)
<1> DEFINE seen == [call[c] EXCEPT !.hit = now, !.touched = call[c].req.pay # "none"]
           paid == [seen EXCEPT !.step = "work", !.charged = call[c].req.pay = "prepaid"]
<1>1. /\ call[c].step = "gate" /\ "gate" \in Busy /\ Shaped(call[c], made) /\ IsCall(call[c])
  BY DEF Gate, At, TypeInv, CallTypes, CalmInv, Calm, Busy
<1>2. /\ IsCall(seen) /\ seen.req = call[c].req /\ seen.tool = call[c].tool
      /\ seen.task = call[c].task /\ seen.thread = call[c].thread /\ seen.tries = call[c].tries
  BY <1>1 DEF IsCall, Fields
<1>3. \/ call' = [call EXCEPT ![c] = paid]
      \/ \E told : call' = [call EXCEPT ![c] = Told(seen, told)]
      \/ \E told : call' = [call EXCEPT ![c] = Told(call[c], told)]
  BY DEF Gate, Outcome
<1> HIDE DEF seen
<1>4. CASE call' = [call EXCEPT ![c] = paid]
  <2>1. /\ paid.step = "work" /\ paid.req = call[c].req /\ paid.tool = call[c].tool
        /\ paid.task = call[c].task /\ paid.thread = call[c].thread
        /\ paid.tries = call[c].tries
    BY <1>2 DEF IsCall, Fields
  <2> HIDE DEF paid
  <2>2. Shaped(paid, made)
    BY <1>1, <2>1 DEF Shaped, Busy
  <2> QED
    BY <1>4, <2>2 DEF Moves
<1>5. ASSUME NEW told, call' = [call EXCEPT ![c] = Told(seen, told)] PROVE Moves(c)
  BY <1>1, <1>2, <1>5, ToldMoves DEF TypeInv
<1>6. ASSUME NEW told, call' = [call EXCEPT ![c] = Told(call[c], told)] PROVE Moves(c)
  BY <1>1, <1>6, ToldMoves DEF TypeInv
<1> QED
  BY <1>3, <1>4, <1>5, <1>6

LEMMA JobMoves ==
  ASSUME TypeInv, NEW c \in Calls,
         JobStep(c) \/ RunPage(c) \/ \E t \in Threads : TakeThread(c, t)
  PROVE  Moves(c) /\ call[c].step \in Busy
<1>1. call[c].step \in Busy
  BY DEF JobStep, RefuseInput, Gate, OpenContext, RunWorker, Bill, RunPage, TakeThread, At, Busy
<1> SUFFICES Moves(c)
  BY <1>1
<1>2. /\ Shaped(call[c], made) /\ IsCall(call[c]) /\ call[c].tool \in Tools
      /\ call[c].step \notin {"none", "done", "arrived", "route"}
  BY <1>1 DEF TypeInv, CallTypes, CalmInv, Calm, Shaped, Busy
<1>3. ASSUME NEW step \in {"page", "bill"}, Goto(c, step) PROVE Moves(c)
  BY <1>2, <1>3, GotoMoves DEF TypeInv
<1>4. ASSUME Fail(c) PROVE Moves(c)
  BY <1>1, <1>4, FailMoves DEF TypeInv
<1>5. ASSUME NEW r, call' = [call EXCEPT ![c] = r], r.step \in Busy, r.req = call[c].req,
             r.tool = call[c].tool, r.task = call[c].task,
             r.thread \in Threads \cup {None}, r.tries \in 0 .. 1
      PROVE  Moves(c)
  <2>1. Shaped(r, made)
    BY <1>1, <1>2, <1>5 DEF Shaped, Busy
  <2> QED
    BY <1>5, <2>1 DEF Moves
<1>6. CASE \E t \in Threads : TakeThread(c, t)
  <2>1. PICK t \in Threads : call' = [call EXCEPT ![c].step = "gate", ![c].thread = t]
    BY <1>6 DEF TakeThread
  <2> DEFINE r == [call[c] EXCEPT !.step = "gate", !.thread = t]
  <2>2. call' = [call EXCEPT ![c] = r]
    BY <2>1 DEF TypeInv, CalmInv
  <2>3. /\ r.step \in Busy /\ r.req = call[c].req /\ r.tool = call[c].tool
        /\ r.task = call[c].task /\ r.thread = t /\ r.tries = call[c].tries
    BY <1>2 DEF IsCall, Fields, Busy
  <2> HIDE DEF r
  <2> QED
    BY <1>2, <1>5, <2>2, <2>3 DEF Shaped
<1>7. CASE OpenContext(c)
  <2>1. CASE call' = [call EXCEPT ![c].tries = 1]
    <3> DEFINE r == [call[c] EXCEPT !.tries = 1]
    <3>1. call' = [call EXCEPT ![c] = r]
      BY <2>1 DEF TypeInv, CalmInv
    <3>2. /\ r.step = call[c].step /\ r.req = call[c].req /\ r.tool = call[c].tool
          /\ r.task = call[c].task /\ r.thread = call[c].thread /\ r.tries = 1
      BY <1>2 DEF IsCall, Fields
    <3> HIDE DEF r
    <3>3. r.thread \in Threads \cup {None} /\ r.tries \in 0 .. 1
      BY <1>2, <3>2 DEF Shaped
    <3> QED
      BY <1>1, <1>5, <3>1, <3>2, <3>3
  <2> QED
    BY <1>3, <1>4, <1>7, <2>1 DEF OpenContext
<1>8. CASE RunPage(c) \/ RunWorker(c)
  BY <1>3, <1>4, <1>8 DEF RunPage, RunWorker
<1>9. CASE RefuseInput(c)
  BY <1>1, <1>2, <1>9, ToldMoves DEF RefuseInput, Outcome, TypeInv
<1>10. CASE Bill(c)
  <2>1. PICK charged, told :
          call' = [call EXCEPT ![c] = Told([call[c] EXCEPT !.charged = charged], told)]
    BY <1>10 DEF Bill
  <2> DEFINE r == [call[c] EXCEPT !.charged = charged]
  <2>2. /\ IsCall(r) /\ r.req = call[c].req /\ r.tool = call[c].tool
        /\ r.task = call[c].task /\ r.tries = call[c].tries
    BY <1>2 DEF IsCall, Fields
  <2>3. call' = [call EXCEPT ![c] = Told(r, told)]
    BY <2>1
  <2> HIDE DEF r
  <2> QED
    BY <1>1, <2>2, <2>3, ToldMoves DEF TypeInv
<1>11. CASE Gate(c)
  BY <1>11, GateMoves
<1> QED
  BY <1>6, <1>7, <1>8, <1>9, <1>10, <1>11 DEF JobStep

LEMMA TypesKept == TypeInv /\ [Next]_vars => StoreTypes' /\ CallTypes'
<1> SUFFICES ASSUME TypeInv, [Next]_vars PROVE StoreTypes' /\ CallTypes'
  OBVIOUS
<1>1. ASSUME UNCHANGED <<tasks, made, call>> PROVE StoreTypes' /\ CallTypes'
  BY <1>1 DEF TypeInv, StoreTypes, CallTypes, DoneCalls
<1>2. CASE \/ Tick \/ UNCHANGED vars
           \/ \E t \in Threads, how \in {"gone", "wedged"} : BrowserDies(t, how)
  BY <1>1, <1>2 DEF Tick, BrowserDies, vars, taskVars
<1>3. CASE \E c \in Calls, r \in coming, k \in TaskIds \cup {None} : Arrive(c, r, k)
  BY <1>3, ArriveTypes
<1>4. CASE \E c \in Calls : GetTask(c) \/ CancelTask(c) \/ SendMessage(c) \/ NewTask(c)
  BY <1>4, MethodTypes, NewTaskTypes
<1>5. ASSUME NEW c \in Calls, Moves(c), call[c].step # "done", UNCHANGED <<tasks, made>>
      PROVE  StoreTypes' /\ CallTypes'
  BY <1>5, StepTypes DEF TypeInv, StoreTypes
<1>6. ASSUME NEW c \in Calls, BodyLimit(c) \/ PriceProbe(c) \/ ReadBody(c) \/ Free(c)
      PROVE  StoreTypes' /\ CallTypes'
  <2>1. UNCHANGED <<tasks, made>>
    BY <1>6 DEF BodyLimit, PriceProbe, ReadBody, Free, taskVars
  <2> QED
    BY <1>5, <1>6, <2>1, EntryMoves
<1>7. ASSUME NEW c \in Calls,
             JobStep(c) \/ RunPage(c) \/ \E t \in Threads : TakeThread(c, t)
      PROVE  StoreTypes' /\ CallTypes'
  <2>1. UNCHANGED <<tasks, made>>
    BY <1>7 DEF JobStep, RefuseInput, Gate, OpenContext, RunWorker, Bill, RunPage, TakeThread,
                taskVars
  <2>2. Moves(c) /\ call[c].step # "done"
    BY <1>7, JobMoves DEF Busy
  <2> QED
    BY <1>5, <2>1, <2>2
<1> QED
  BY <1>2, <1>3, <1>4, <1>6, <1>7 DEF Next, LoopStep

(* The browser of a thread is none, live, wedged or gone.                    *)
(* (Code: browser_pool.py.)                                                  *)
LEMMA BrowsersKept == BrowserTypes /\ [Next]_vars => BrowserTypes'
<1> SUFFICES ASSUME BrowserTypes, [Next]_vars PROVE BrowserTypes'
  OBVIOUS
<1>1. ASSUME NEW t, NEW b \in {"none", "live", "wedged", "gone"}, SetBrowser(t, b)
      PROVE  BrowserTypes'
  BY <1>1 DEF SetBrowser, BrowserTypes
<1>2. ASSUME UNCHANGED browser PROVE BrowserTypes'
  BY <1>2 DEF BrowserTypes
<1>3. ASSUME NEW c \in Calls, OpenContext(c) \/ RunPage(c) PROVE BrowserTypes'
  BY <1>1, <1>2, <1>3 DEF OpenContext, RunPage, browserVars
<1>4. CASE \E t \in Threads, how \in {"gone", "wedged"} : BrowserDies(t, how)
  BY <1>1, <1>4 DEF BrowserDies
<1>5. CASE \/ Tick \/ UNCHANGED vars
           \/ \E c \in Calls, r \in coming, k \in TaskIds \cup {None} : Arrive(c, r, k)
           \/ \E c \in Calls : LoopStep(c) \/ RefuseInput(c) \/ Gate(c) \/ RunWorker(c) \/ Bill(c)
           \/ \E c \in Calls, t \in Threads : TakeThread(c, t)
  BY <1>2, <1>5 DEF Tick, vars, Arrive, LoopStep, BodyLimit, PriceProbe, ReadBody, Free,
     GetTask, CancelTask, SendMessage, NewTask, RefuseInput, Gate, RunWorker, Bill, TakeThread,
     browserVars
<1> QED
  BY <1>3, <1>4, <1>5 DEF Next, JobStep

(* Every variable holds a value of its kind, and what grows stays bounded,    *)
(* whatever clients send: a window holds at most the limit, the limiter's     *)
(* table one client over max_keys, the task store max_tasks.                 *)
(* (Code: _SlidingWindowLimiter, TaskStore.)                                 *)
THEOREM TypeCorrect == Spec => []TypeOK
<1>1. ASSUME Init PROVE TypeInv
  <2>1. /\ call = [c \in Calls |-> NoCall] /\ tasks = {} /\ puts = <<>> /\ made = 0
        /\ now = 0 /\ lastSweep = 0 /\ forgotten = {} /\ log = [k \in Clients |-> {}]
        /\ coming \in Mixes /\ browser = [t \in Threads |-> "none"]
    BY <1>1 DEF Init
  <2>2. CalmInv
    BY <1>1, InitCalm
  <2>3. StoreInv
    BY <1>1, InitStore
  <2>4. LimiterInv
    BY <1>1, InitLimiter
  <2>5. LimiterTypes
    <3>1. Table(log) = {} /\ \A k \in Clients : log[k] = {}
      BY <2>1 DEF Table
    <3>2. IsFiniteSet({}) /\ Cardinality({}) = 0
      BY FS_EmptySet
    <3>3. Limit \in Nat \ {0} /\ MaxKeys \in Nat \ {0} /\ MaxTime \in Nat
      BY FrontAssumption DEF FrontAssumption
    <3>4. \A k \in Clients : /\ IsFiniteSet(log[k]) /\ Cardinality(log[k]) <= Limit
                             /\ \A h \in log[k] : h.at \in 0 .. now
      <4> SUFFICES ASSUME NEW k \in Clients, log[k] = {}
                   PROVE  /\ IsFiniteSet(log[k]) /\ Cardinality(log[k]) <= Limit
                          /\ \A h \in log[k] : h.at \in 0 .. now
        BY <3>1
      <4>1. Cardinality(log[k]) = 0 /\ IsFiniteSet(log[k])
        BY <3>2
      <4> QED
        BY <3>3, <4>1
    <3>5. now \in 0 .. MaxTime /\ lastSweep \in 0 .. now /\ forgotten \subseteq Clients
      BY <2>1, <3>3
    <3>6. IsFiniteSet(Table(log)) /\ Cardinality(Table(log)) <= MaxKeys + 1
      BY <3>1, <3>2, <3>3
    <3>7. log = [k \in Clients |-> log[k]]
      BY <2>1
    <3> QED
      BY <3>4, <3>5, <3>6, <3>7 DEF LimiterTypes
  <2>6. StoreTypes
    <3>1. DoneCalls \in SUBSET Calls
      BY DEF DoneCalls
    <3>2. Cardinality(DoneCalls) \in Nat
      BY <3>1, DoneFinite
    <3> QED
      BY <2>1, <3>2, FrontAssumption, FS_EmptySet DEF StoreTypes, FrontAssumption
  <2>7. CallTypes
    <3>1. /\ NoCall.step = "none" /\ NoCall.req = None /\ NoCall.thread = None
          /\ NoCall.tries = 0 /\ NoCall.task = None
      BY DEF NoCall
    <3> QED
      BY <2>1, <3>1 DEF CallTypes, Shaped, Busy
  <2> QED
    BY <2>1, <2>2, <2>3, <2>4, <2>5, <2>6, <2>7 DEF TypeInv, BrowserTypes
<1>2. ASSUME TypeInv, [Next]_vars PROVE TypeInv'
  BY <1>2, StepKeepsCalm, StepKeepsStore, StepCounts, LimiterTypesKept, TypesKept,
     BrowsersKept DEF TypeInv
<1>3. ASSUME TypeInv PROVE TypeOK
  <2>1. DoneCalls \in SUBSET Calls
    BY DEF DoneCalls
  <2>2. made \in 0 .. MaxCalls
    <3>1. Cardinality(DoneCalls) \in Nat /\ Cardinality(DoneCalls) <= MaxCalls
      BY <2>1, DoneFinite
    <3> QED
      BY <1>3, <3>1, FrontAssumption DEF TypeInv, StoreTypes, FrontAssumption
  <2>3. \A c \in Calls : /\ call[c].req \in Requests \cup {None}
                         /\ call[c].thread \in Threads \cup {None}
                         /\ call[c].tries \in 0 .. 1
    BY <1>3 DEF TypeInv, CallTypes, Shaped
  <2>4. \A k \in Clients : Cardinality(log[k]) <= Limit /\ \A h \in log[k] : h.at <= now
    BY <1>3 DEF TypeInv, LimiterTypes
  <2> QED
    BY <1>3, <2>2, <2>3, <2>4 DEF TypeInv, LimiterTypes, StoreTypes, BrowserTypes, Tools, TypeOK
<1> QED
  BY <1>1, <1>2, <1>3, PTL DEF Spec

=============================================================================
