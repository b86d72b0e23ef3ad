------------------------- MODULE WorkerServe_proofs -------------------------
(***************************************************************************)
(* Proofs about WorkerServe for any number of calls, keys, places, faults  *)
(* and crashes.                                                            *)
(*                                                                         *)
(* The row of a key names one call (results[k].call), and that is what     *)
(* makes a key's job unique: every call that holds the claim or was served *)
(* under it is the one the row names (ClaimHeld, ServedKept), and the row  *)
(* names only a call that claimed it (Claimant).  Both need to know what a *)
(* call at each step can have as outcome and answer (Shape).               *)
(*                                                                         *)
(* Payments and receipts follow from a second invariant (RInv), inductive  *)
(* given the first: the money and the receipt of a call tell its outcome,  *)
(* and only a call the ledger failed to claim for can remove the receipt   *)
(* of another (RowIsEatenByUnclaimed).                                     *)
(***************************************************************************)
EXTENDS WorkerServe, TLAPS

\* The steps at which a claim is still to be given up or fulfilled.
Holding == {"open", "queue", "run", "close_failed", "release", "bill", "close", "store"}

\* What a call can have at each step: an outcome once its job ended, an
\* answer at the end, a claim only after claim_idempotency.
Shape(c) ==
  /\ pc[c] \in {"idle", "claim", "open", "queue", "run", "bill"} => outcome[c] = "none"
  /\ pc[c] \in {"close_failed", "release", "unwind"} => outcome[c] \in {"invalid", "failed"}
  /\ pc[c] \in {"close", "store", "reply"} => Served(c) \/ outcome[c] = "refused"
  /\ pc[c] # "done" => answer[c] = "none"
  /\ claimed[c] => req[c].key \in Keys /\ pc[c] \notin {"idle", "claim"}

ShapeInv == \A c \in Calls : Shape(c)

ClaimHeld ==
  \A c \in Calls : claimed[c] /\ pc[c] \in Holding =>
    results[req[c].key].state = "running" /\ results[req[c].key].call = c

ServedKept ==
  \A c \in Calls : claimed[c] /\ Served(c) => results[req[c].key].call = c

Claimant ==
  \A k \in Keys : results[k].state # "absent" =>
    LET c == results[k].call IN
    /\ c \in Calls /\ claimed[c] /\ req[c].key = k
    /\ results[k].state = "done" => Served(c) /\ results[k].body = c

IInv ==
  /\ TypeOK /\ ShapeInv /\ ClaimHeld /\ ServedKept /\ Claimant
  /\ BusyKeyHasItsCall /\ ReplayIsDelivered

-----------------------------------------------------------------------------
(* A ledger row is its three columns.  (Code: worker_results.)               *)
LEMMA ResultShape ==
  \A row \in ResultType :
    /\ row.state \in {"absent", "running", "done"}
    /\ row.call \in Calls \cup {None} /\ row.body \in Calls \cup {None}
BY DEF ResultType

(* Before any request nothing is claimed, stored or answered.                *)
LEMMA InitIInv == Init => IInv
<1> SUFFICES ASSUME Init PROVE IInv
  OBVIOUS
<1> USE ServeAssumption DEF Init, NoResult, NoRow
<1>1. TypeOK
  BY DEF TypeOK, ResultType, RowType, RequestType, Rails, Steps, Outcomes, Monies, Answers
<1>2. ShapeInv /\ ClaimHeld /\ ServedKept /\ Claimant
  BY DEF ShapeInv, Shape, ClaimHeld, ServedKept, Claimant, Holding, Served
<1>3. BusyKeyHasItsCall /\ ReplayIsDelivered
  BY DEF BusyKeyHasItsCall, ReplayIsDelivered
<1> QED BY <1>1, <1>2, <1>3 DEF IInv

(* A step of one call that leaves the idempotency rows alone keeps the        *)
(* invariant, if it keeps the call in shape, does not undo a served outcome,  *)
(* leaves its claim behind only when the ledger failed, and replays only a    *)
(* stored body.  (Code: serve between its ledger transactions.)             *)
LEMMA QuietKeepsIInv ==
  ASSUME IInv, TypeOK', NEW c \in Calls,
         \A d \in Calls : d # c =>
           /\ pc'[d] = pc[d] /\ req'[d] = req[d] /\ outcome'[d] = outcome[d]
           /\ answer'[d] = answer[d] /\ source'[d] = source[d],
         UNCHANGED <<results, claimed, forgot>>, faulted \subseteq faulted',
         pc[c] # "done", Shape(c)', Served(c) => Served(c)',
         Served(c)' => Served(c) \/ pc[c] = "bill",
         req'[c] = req[c] \/ pc[c] = "idle",
         claimed[c] /\ pc'[c] \in Holding => pc[c] \in Holding,
         claimed[c] /\ pc'[c] \notin Holding =>
           pc[c] \in {"unwind", "reply"} \/ c \in faulted',
         answer'[c] = "replay" =>
           /\ pc[c] = "claim" /\ results[req[c].key].state = "done" /\ req[c].key \in Keys
           /\ source'[c] = results[req[c].key].body
  PROVE  IInv'
<1> USE DEF IInv
<1>1. ~claimed[c] \/ req'[c] = req[c]
  BY DEF ShapeInv, Shape
<1>2. \A d \in Calls : claimed[d] => req'[d] = req[d]
  BY <1>1
<1>3. \A d \in Calls : Served(d) => Served(d)'
  BY DEF Served
<1>4. ShapeInv'
  BY <1>3 DEF ShapeInv, Shape, Served
<1>5. ClaimHeld'
  BY <1>2 DEF ClaimHeld
<1>6. ServedKept'
  <2>1. ASSUME NEW d \in Calls, claimed[d], Served(d)'
        PROVE  results[req[d].key].call = d
    <3>1. CASE Served(d)
      BY <2>1, <3>1 DEF ServedKept
    <3>2. CASE ~Served(d)
      <4>1. d = c
        BY <2>1, <3>2 DEF Served
      <4>2. pc[c] \in Holding
        BY <2>1, <3>2, <4>1 DEF Holding
      <4> QED BY <2>1, <4>1, <4>2 DEF ClaimHeld
    <3> QED BY <3>1, <3>2
  <2> QED BY <1>2, <2>1 DEF ServedKept
<1>7. Claimant'
  BY <1>2, <1>3 DEF Claimant
<1>8. BusyKeyHasItsCall'
  <2>1. ASSUME NEW k \in Keys, results[k].state = "running", results[k].call = c
        PROVE  \/ pc'[c] \notin {"unwind", "reply", "done"}
               \/ answer'[c] = "lost" \/ c \in faulted'
    <3>1. claimed[c]
      BY <2>1 DEF BusyKeyHasItsCall
    <3>2. CASE pc[c] \in {"unwind", "reply"}
      BY <2>1, <3>2 DEF BusyKeyHasItsCall, ShapeInv, Shape
    <3>3. CASE pc[c] \notin {"unwind", "reply"}
      BY <3>1, <3>3 DEF Holding
    <3> QED BY <3>2, <3>3
  <2>2. \A k \in Keys : results[k].state = "running" => results[k].call \in Calls
    BY DEF Claimant
  <2> QED BY <1>2, <2>1, <2>2 DEF BusyKeyHasItsCall
<1>9. ReplayIsDelivered'
  <2>1. ASSUME NEW d \in Calls, answer'[d] = "replay", d # c
        PROVE  \E e \in Calls : /\ e = source'[d] /\ e # d /\ (claimed[e] \/ e \in forgot)
                              /\ Served(e)' /\ req'[e].key = req'[d].key
    <3>1. source[d] \in Calls
      BY <2>1 DEF TypeOK
    <3>2. \A e \in Calls : Served(e) => pc[e] # "idle"
      BY DEF ShapeInv, Shape, Served
    <3> QED BY <1>2, <1>3, <2>1, <3>1, <3>2 DEF ReplayIsDelivered, ShapeInv, Shape
  <2>2. ASSUME answer'[c] = "replay"
        PROVE  \E e \in Calls : /\ e = source'[c] /\ e # c /\ claimed[e]
                              /\ Served(e)' /\ req'[e].key = req'[c].key
    <3>1. \E e \in Calls : /\ e = source'[c] /\ claimed[e] /\ Served(e)
                          /\ req[e].key = req[c].key
      BY <2>2 DEF Claimant
    <3>2. ~claimed[c] /\ req'[c] = req[c]
      BY <2>2 DEF ShapeInv, Shape
    <3> QED BY <1>2, <1>3, <3>1, <3>2
  <2>3. \A d \in Calls : answer'[d] = "replay" =>
          \E e \in Calls : /\ e = source'[d] /\ e # d /\ (claimed[e] \/ e \in forgot)
                          /\ Served(e)' /\ req'[e].key = req'[d].key
    BY <2>1, <2>2
  <2> QED BY <2>3 DEF ReplayIsDelivered, Served
<1> QED BY <1>4, <1>5, <1>6, <1>7, <1>8, <1>9

(* Requests come, and the answers before the gate and the gate's grant keep   *)
(* the invariant.  (Code: serve, to its claim.)                             *)
LEMMA AuthorizeKeepsIInv ==
  ASSUME IInv, NEW c \in Calls, Authorize(c)
  PROVE  IInv'
<1> USE DEF Authorize, Goto, Answer, ledgerVars
<1>1. TypeOK'
  <2>1. req' \in [Calls -> RequestType]
    BY ServeAssumption DEF IInv, TypeOK
  <2>2. pc' \in [Calls -> Steps] /\ answer' \in [Calls -> Answers]
    BY DEF IInv, TypeOK, Steps, Answers
  <2>3. money' \in [Calls -> Monies]
    BY DEF IInv, TypeOK, Monies
  <2>4. \A d \in Calls : source[d] # None <=> answer'[d] = "replay"
    BY DEF IInv, TypeOK, ShapeInv, Shape
  <2> QED BY <2>1, <2>2, <2>3, <2>4 DEF IInv, TypeOK
<1>2. Shape(c)'
  BY DEF IInv, TypeOK, ShapeInv, Shape, Served
<1> QED
  BY <1>1, <1>2, QuietKeepsIInv DEF IInv, TypeOK, ShapeInv, Shape, Served, Holding

(* The receipt row, the semaphore and the job keep the invariant: none of     *)
(* them touches the idempotency rows.  (Code: open_call, _run_job.)         *)
LEMMA WorkKeepsIInv ==
  ASSUME IInv, NEW c \in Calls, OpenCall(c) \/ Start(c) \/ RunJob(c)
  PROVE  IInv'
<1>1. CASE OpenCall(c)
  <2> USE <1>1 DEF OpenCall, Goto, Write, LedgerFault
  <2>1. rows' \in [Calls -> RowType]
    <3>1. NoRow \in RowType /\ [status |-> "running", settled |-> FALSE] \in RowType
      BY DEF RowType, NoRow
    <3>2. rows \in [Calls -> RowType]
      BY DEF IInv, TypeOK
    <3> QED BY <3>1, <3>2
  <2>2. TypeOK'
    BY <2>1 DEF IInv, TypeOK, Steps
  <2>3. Shape(c)'
    BY DEF IInv, TypeOK, ShapeInv, Shape, Served
  <2> QED BY <2>2, <2>3, QuietKeepsIInv DEF IInv, TypeOK, ShapeInv, Shape, Served, Holding
<1>2. CASE Start(c)
  <2> USE <1>2 DEF Start, Goto, ledgerVars
  <2>1. TypeOK'
    BY DEF IInv, TypeOK, Steps
  <2>2. Shape(c)'
    BY DEF IInv, TypeOK, ShapeInv, Shape, Served
  <2> QED BY <2>1, <2>2, QuietKeepsIInv DEF IInv, TypeOK, ShapeInv, Shape, Served, Holding
<1>3. CASE RunJob(c)
  <2> USE <1>3 DEF RunJob, Goto, ledgerVars
  <2>1. TypeOK'
    BY DEF IInv, TypeOK, Steps, Outcomes
  <2>2. Shape(c)'
    BY DEF IInv, TypeOK, ShapeInv, Shape, Served
  <2> QED BY <2>1, <2>2, QuietKeepsIInv DEF IInv, TypeOK, ShapeInv, Shape, Served, Holding
<1> QED BY <1>1, <1>2, <1>3

(* The end of a failed job outside its claim, the settlement and the reply    *)
(* keep the invariant.  (Code: close_call, _failed, _bill, _deliver.)       *)
LEMMA EndKeepsIInv ==
  ASSUME IInv, NEW c \in Calls, CloseFailed(c) \/ Unwind(c) \/ Bill(c) \/ Reply(c)
  PROVE  IInv'
<1>1. CASE CloseFailed(c)
  <2> USE <1>1 DEF CloseFailed, CloseRow, Goto, Write, LedgerFault
  <2>1. rows' \in [Calls -> RowType]
    <3>1. [status |-> "failed", settled |-> FALSE] \in RowType
      BY DEF RowType
    <3>2. rows \in [Calls -> RowType]
      BY DEF IInv, TypeOK
    <3> QED BY <3>1, <3>2
  <2>2. TypeOK'
    BY <2>1 DEF IInv, TypeOK, Steps
  <2>3. Shape(c)'
    BY DEF IInv, TypeOK, ShapeInv, Shape, Served
  <2> QED BY <2>2, <2>3, QuietKeepsIInv DEF IInv, TypeOK, ShapeInv, Shape, Served, Holding
<1>2. CASE Unwind(c)
  <2> USE <1>2 DEF Unwind, Answer, Goto, ledgerVars
  <2>1. outcome[c] \in {"invalid", "failed"}
    BY DEF IInv, ShapeInv, Shape
  <2>2. /\ pc' \in [Calls -> Steps] /\ money' \in [Calls -> Monies]
        /\ answer' \in [Calls -> Answers]
    BY <2>1 DEF IInv, TypeOK, Steps, Monies, Answers
  <2>3. \A d \in Calls : source[d] # None <=> answer'[d] = "replay"
    BY <2>1 DEF IInv, TypeOK, ShapeInv, Shape
  <2>4. TypeOK'
    BY <2>2, <2>3 DEF IInv, TypeOK
  <2>5. Shape(c)'
    BY DEF IInv, TypeOK, ShapeInv, Shape, Served
  <2> QED
    BY <2>1, <2>4, <2>5, QuietKeepsIInv DEF IInv, TypeOK, ShapeInv, Shape, Served, Holding
<1>3. CASE Bill(c)
  <2> USE <1>3 DEF Bill, Goto, ledgerVars
  <2>1. PICK o \in {"delivered", "settled", "open", "refused"},
             m \in {"held", "moved", "open", "none"} :
          /\ outcome' = [outcome EXCEPT ![c] = o] /\ money' = [money EXCEPT ![c] = m]
    OBVIOUS
  <2>2. TypeOK'
    BY <2>1 DEF IInv, TypeOK, Steps, Outcomes, Monies
  <2>3. Shape(c)'
    BY <2>1 DEF IInv, TypeOK, ShapeInv, Shape, Served
  <2> QED
    BY <2>1, <2>2, <2>3, QuietKeepsIInv DEF IInv, TypeOK, ShapeInv, Shape, Served, Holding
<1>4. CASE Reply(c)
  <2> USE <1>4 DEF Reply, Answer, Goto, ledgerVars
  <2>1. pc' \in [Calls -> Steps] /\ answer' \in [Calls -> Answers]
    BY DEF IInv, TypeOK, Steps, Answers
  <2>2. \A d \in Calls : source[d] # None <=> answer'[d] = "replay"
    BY DEF IInv, TypeOK, ShapeInv, Shape
  <2>3. TypeOK'
    BY <2>1, <2>2 DEF IInv, TypeOK
  <2>4. Shape(c)'
    BY DEF IInv, TypeOK, ShapeInv, Shape, Served
  <2> QED BY <2>3, <2>4, QuietKeepsIInv DEF IInv, TypeOK, ShapeInv, Shape, Served, Holding
<1> QED BY <1>1, <1>2, <1>3, <1>4

(* Closing the receipt of a job that gave a result keeps the invariant: the   *)
(* row is typed whatever the settlement was.  (Code: close_call, _payer_of.) *)
LEMMA CloseKeepsIInv ==
  ASSUME IInv, NEW c \in Calls, CloseCall(c)
  PROVE  IInv'
<1> USE DEF CloseCall, CloseRow, Goto, Write, LedgerFault
<1>1. rows' \in [Calls -> RowType]
  <2>1. rows \in [Calls -> RowType]
    BY DEF IInv, TypeOK
  <2>2. \A status \in {"refused", "ok"}, settled \in BOOLEAN :
          [status |-> status, settled |-> settled] \in RowType
    BY DEF RowType
  <2>3. \A named \in BOOLEAN :
          (outcome[c] # "refused" /\ (outcome[c] = "settled" \/ PayerKnown(c, named))) \in BOOLEAN
    OBVIOUS
  <2> QED BY <2>1, <2>2, <2>3
<1>2. TypeOK'
  BY <1>1 DEF IInv, TypeOK, Steps
<1>3. Shape(c)'
  BY DEF IInv, TypeOK, ShapeInv, Shape, Served
<1> QED BY <1>2, <1>3, QuietKeepsIInv DEF IInv, TypeOK, ShapeInv, Shape, Served, Holding

(* The chain, a crash and stuttering keep the invariant: a crash answers the  *)
(* calls it kills "lost", and leaves every row.  (Code: the ledger file.)   *)
LEMMA WorldKeepsIInv ==
  ASSUME IInv, Crash \/ CrashInMemory \/ (\E c \in Calls : TransferEnds(c)) \/ UNCHANGED vars
  PROVE  IInv'
<1>1. CASE \/ \E c \in Calls : TransferEnds(c)
           \/ UNCHANGED vars
  <2>1. UNCHANGED <<ledgerVars, pc, req, claimed, outcome, answer, source, faulted, crashes, forgot>>
    BY <1>1 DEF TransferEnds, vars, ledgerVars, callVars
  <2>2. money' \in [Calls -> Monies]
    BY <1>1 DEF TransferEnds, vars, callVars, IInv, TypeOK, Monies
  <2> QED
    BY <2>1, <2>2 DEF ledgerVars, IInv, TypeOK, ShapeInv, Shape, Served, ClaimHeld,
      ServedKept, Claimant, BusyKeyHasItsCall, ReplayIsDelivered
<1>2. CASE Crash
  <2> USE <1>2 DEF Crash, Die, ledgerVars, IInv
  <2>1. \A c \in Calls :
          \/ pc'[c] = pc[c] /\ answer'[c] = answer[c]
          \/ pc'[c] = "done" /\ answer'[c] = "lost" /\ pc[c] # "done"
    BY DEF TypeOK
  <2>2. pc' \in [Calls -> Steps] /\ answer' \in [Calls -> Answers]
    BY DEF TypeOK, Steps, Answers
  <2>3. \A c \in Calls : source[c] # None <=> answer'[c] = "replay"
    BY <2>1 DEF TypeOK, ShapeInv, Shape
  <2>4. TypeOK'
    BY <2>2, <2>3 DEF TypeOK
  <2>5. ShapeInv' /\ ClaimHeld'
    BY <2>1 DEF ShapeInv, Shape, Served, ClaimHeld, Holding
  <2>6. ServedKept' /\ Claimant'
    BY DEF ServedKept, Claimant, Served
  <2>7. BusyKeyHasItsCall'
    BY <2>1 DEF BusyKeyHasItsCall, Claimant
  <2>8. ReplayIsDelivered'
    BY <2>1 DEF ReplayIsDelivered, Served
  <2> QED BY <2>4, <2>5, <2>6, <2>7, <2>8
<1>3. CASE CrashInMemory
  <2> USE <1>3 DEF CrashInMemory, Die, IInv
  <2>1. \A c \in Calls :
          \/ pc'[c] = pc[c] /\ answer'[c] = answer[c]
          \/ pc'[c] = "done" /\ answer'[c] = "lost" /\ pc[c] # "done"
    BY DEF TypeOK
  <2>2. pc' \in [Calls -> Steps] /\ answer' \in [Calls -> Answers]
    BY DEF TypeOK, Steps, Answers
  <2>3. \A c \in Calls : source[c] # None <=> answer'[c] = "replay"
    BY <2>1 DEF TypeOK, ShapeInv, Shape
  <2>4. results' \in [Keys -> ResultType] /\ rows' \in [Calls -> RowType]
    BY DEF ResultType, RowType, NoResult, NoRow
  <2>5. \A k \in Keys : /\ results'[k].state = "absent" /\ results'[k].call = None
                        /\ results'[k].body = None
    BY DEF NoResult
  <2>6. TypeOK'
    BY <2>2, <2>3, <2>4, <2>5 DEF TypeOK
  <2>7. ShapeInv' /\ ClaimHeld' /\ ServedKept'
    BY <2>1 DEF ShapeInv, Shape, Served, ClaimHeld, ServedKept, Holding
  <2>8. Claimant' /\ BusyKeyHasItsCall'
    BY <2>5 DEF Claimant, BusyKeyHasItsCall
  <2>9. ReplayIsDelivered'
    <3>1. \A c \in Calls : Served(c) => pc[c] # "idle"
      BY DEF ShapeInv, Shape, Served
    <3>2. ASSUME NEW c \in Calls, answer[c] = "replay"
          PROVE  source[c] \in forgot' /\ source[c] # c /\ Served(source[c])
                 /\ req[source[c]].key = req[c].key
      BY <3>1, <3>2 DEF ReplayIsDelivered, TypeOK
    <3> QED BY <2>1, <3>2 DEF ReplayIsDelivered, Served
  <2> QED BY <2>6, <2>7, <2>8, <2>9
<1> QED BY <1>1, <1>2, <1>3

-----------------------------------------------------------------------------
(* What is left to show of the types when a step writes the idempotency rows. *)
(* (Code: claim_idempotency, complete_idempotency, release_idempotency.)    *)
LEMMA ResultsTyped ==
  ASSUME TypeOK, results' \in [Keys -> ResultType], pc' \in [Calls -> Steps],
         claimed' \in [Calls -> BOOLEAN],
         \A j \in Keys : (results'[j].call = None) <=> (results'[j].state = "absent"),
         \A j \in Keys : (results'[j].body # None) <=> (results'[j].state = "done"),
         UNCHANGED <<rows, req, outcome, money, answer, source, faulted, crashes, forgot>>
  PROVE  TypeOK'
BY DEF TypeOK

(* Claiming keeps the invariant: the row is inserted only where there was     *)
(* none, so no other call holds the key or was served under it.  (Code:     *)
(* claim_idempotency and the answers serve gives on it.)                    *)
LEMMA ClaimKeepsIInv ==
  ASSUME IInv, NEW c \in Calls, ClaimKey(c)
  PROVE  IInv'
<1> DEFINE k == req[c].key
<1> USE DEF ClaimKey, Goto, Answer, LedgerFault, Free
<1>1. CASE UNCHANGED <<results, claimed>> /\ pc' = [pc EXCEPT ![c] = "open"]
           /\ UNCHANGED <<answer, source>>
  <2>1. TypeOK'
    BY <1>1 DEF IInv, TypeOK, Steps
  <2>2. Shape(c)'
    BY <1>1 DEF IInv, TypeOK, ShapeInv, Shape, Served
  <2> QED
    BY <1>1, <2>1, <2>2, QuietKeepsIInv DEF IInv, TypeOK, ShapeInv, Shape, Served, Holding
<1>2. CASE /\ k \in Keys /\ results[k].state = "absent"
           /\ results' = [results EXCEPT ![k] =
                 [state |-> "running", call |-> c, body |-> None]]
           /\ claimed' = [claimed EXCEPT ![c] = TRUE]
           /\ pc' = [pc EXCEPT ![c] = "open"]
           /\ UNCHANGED <<answer, source, faulted>>
  <2> USE <1>2 DEF IInv
  <2>1. results' \in [Keys -> ResultType]
    <3>1. [state |-> "running", call |-> c, body |-> None] \in ResultType
      BY DEF ResultType
    <3> QED BY <3>1 DEF TypeOK
  <2>2. /\ results'[k].state = "running" /\ results'[k].call = c
        /\ results'[k].body = None
        /\ \A j \in Keys : j # k => results'[j] = results[j]
    BY DEF TypeOK
  <2>3. /\ pc'[c] = "open" /\ claimed'[c] /\ pc[c] = "claim" /\ ~claimed[c]
        /\ outcome[c] = "none"
        /\ \A d \in Calls : d # c => pc'[d] = pc[d] /\ claimed'[d] = claimed[d]
    BY DEF TypeOK, ShapeInv, Shape
  <2>4. TypeOK'
    <3>1. \A j \in Keys : (results'[j].call = None) <=> (results'[j].state = "absent")
      BY <2>2, ServeAssumption DEF TypeOK
    <3>2. \A j \in Keys : (results'[j].body # None) <=> (results'[j].state = "done")
      BY <2>2 DEF TypeOK
    <3>3. pc' \in [Calls -> Steps] /\ claimed' \in [Calls -> BOOLEAN]
      BY DEF TypeOK, Steps
    <3> QED BY <2>1, <3>1, <3>2, <3>3, ResultsTyped
  <2>5. ShapeInv'
    BY <2>3 DEF ShapeInv, Shape, Served
  <2>6. \A d \in Calls : d # c /\ claimed[d] /\ (pc[d] \in Holding \/ Served(d)) =>
          req[d].key # k /\ req[d].key \in Keys
    BY ServeAssumption DEF ClaimHeld, ServedKept, TypeOK, ShapeInv, Shape
  <2>7. ClaimHeld' /\ ServedKept'
    BY <2>2, <2>3, <2>6 DEF ClaimHeld, ServedKept, Served
  <2>8. Claimant'
    BY <2>2, <2>3 DEF Claimant, Served
  <2>9. BusyKeyHasItsCall'
    BY <2>2, <2>3 DEF BusyKeyHasItsCall, Claimant
  <2>10. ReplayIsDelivered'
    BY <2>3 DEF ReplayIsDelivered, Served, TypeOK
  <2> QED BY <2>4, <2>5, <2>7, <2>8, <2>9, <2>10
<1>3. CASE /\ k \in Keys /\ results[k].state # "absent"
           /\ UNCHANGED <<results, claimed, faulted>>
           /\ pc' = [pc EXCEPT ![c] = "done"]
           /\ \/ /\ results[k].state = "done"
                 /\ answer' = [answer EXCEPT ![c] = "replay"]
                 /\ source' = [source EXCEPT ![c] = results[k].body]
              \/ answer' = [answer EXCEPT ![c] = "in_progress"] /\ UNCHANGED source
  <2> USE <1>3 DEF IInv
  <2>1. /\ pc' \in [Calls -> Steps] /\ answer' \in [Calls -> Answers]
        /\ source' \in [Calls -> Calls \cup {None}]
    BY ResultShape DEF TypeOK, Steps, Answers
  <2>2. \A d \in Calls : source'[d] # None <=> answer'[d] = "replay"
    BY DEF TypeOK, ShapeInv, Shape
  <2>3. TypeOK'
    BY <2>1, <2>2 DEF TypeOK
  <2>4. Shape(c)' /\ ~claimed[c]
    BY DEF TypeOK, ShapeInv, Shape, Served
  <2> QED BY <2>3, <2>4, QuietKeepsIInv DEF TypeOK, ShapeInv, Shape, Served, Holding
<1>4. k \in Keys \cup {None} /\ None \notin Keys
  BY ServeAssumption DEF IInv, TypeOK, RequestType
<1> QED BY <1>1, <1>2, <1>3, <1>4

(* Giving a claim up and storing a result keep the invariant: only the call   *)
(* the row names does either.  (Code: release_idempotency,                  *)
(* complete_idempotency.)                                                   *)
LEMMA ClaimEndKeepsIInv ==
  ASSUME IInv, NEW c \in Calls, NEW next \in {"unwind", "reply"},
         \/ pc[c] = "release" /\ next = "unwind"
         \/ pc[c] = "store" /\ next = "reply",
         claimed[c], pc' = [pc EXCEPT ![c] = next],
         \/ Delete(req[c].key) /\ ~Served(c)
         \/ StoreBody(req[c].key, c) /\ Served(c),
         UNCHANGED <<rows, req, claimed, outcome, money, answer, source, faulted, crashes, forgot>>
  PROVE  IInv'
<1> DEFINE k == req[c].key
<1> USE DEF IInv
<1>1. k \in Keys /\ results[k].state = "running" /\ results[k].call = c
  BY DEF ShapeInv, Shape, ClaimHeld, Holding
<1>2. \/ ~Served(c) /\ results'[k] = NoResult
      \/ Served(c) /\ results'[k] = [state |-> "done", call |-> c, body |-> c]
  BY <1>1 DEF Delete, StoreBody, TypeOK
<1>3. \A j \in Keys : j # k => results'[j] = results[j]
  BY DEF Delete, StoreBody, TypeOK
<1>4. pc'[c] = next /\ \A d \in Calls : d # c => pc'[d] = pc[d]
  BY DEF TypeOK
<1>5. TypeOK'
  <2>1. NoResult \in ResultType /\ [state |-> "done", call |-> c, body |-> c] \in ResultType
    BY DEF NoResult, ResultType
  <2>2. results' \in [Keys -> ResultType]
    BY <1>1, <2>1 DEF Delete, StoreBody, TypeOK
  <2>3. \A j \in Keys : (results'[j].call = None) <=> (results'[j].state = "absent")
    BY <1>2, <1>3, ServeAssumption DEF NoResult, TypeOK
  <2>4. \A j \in Keys : (results'[j].body # None) <=> (results'[j].state = "done")
    BY <1>2, <1>3, ServeAssumption DEF NoResult, TypeOK
  <2>5. pc' \in [Calls -> Steps] /\ claimed' \in [Calls -> BOOLEAN]
    BY DEF TypeOK, Steps
  <2> QED BY <2>2, <2>3, <2>4, <2>5, ResultsTyped
<1>6. ShapeInv'
  BY <1>4 DEF ShapeInv, Shape, Served
<1>7. \A d \in Calls : d # c /\ claimed[d] /\ (pc[d] \in Holding \/ Served(d)) =>
        req[d].key # k /\ req[d].key \in Keys
  BY <1>1 DEF ClaimHeld, ServedKept, ShapeInv, Shape
<1>8. ClaimHeld'
  BY <1>3, <1>4, <1>7 DEF ClaimHeld, Holding
<1>9. ServedKept'
  BY <1>2, <1>3, <1>7 DEF ServedKept, Served
<1>10. Claimant'
  BY <1>1, <1>2, <1>3 DEF Claimant, Served, NoResult
<1>11. BusyKeyHasItsCall'
  <2>1. \A j \in Keys : results'[j].state = "running" =>
          j # k /\ results[j].state = "running" /\ results[j].call # c
    BY <1>1, <1>2, <1>3 DEF NoResult, Claimant
  <2> QED BY <1>3, <1>4, <2>1 DEF BusyKeyHasItsCall, Claimant
<1>12. ReplayIsDelivered'
  BY DEF ReplayIsDelivered, Served
<1> QED BY <1>5, <1>6, <1>8, <1>9, <1>10, <1>11, <1>12

(* So do the steps around them, when the write is lost or there is no claim.  *)
(* (Code: serve after a failed job and after a delivery.)                   *)
LEMMA SettleClaimKeepsIInv ==
  ASSUME IInv, NEW c \in Calls, ReleaseKey(c) \/ StoreResult(c)
  PROVE  IInv'
<1>1. CASE UNCHANGED results
  <2> USE <1>1 DEF ReleaseKey, StoreResult, Goto, Write, LedgerFault
  <2>1. TypeOK'
    BY DEF IInv, TypeOK, Steps
  <2>2. claimed[c] => c \in faulted'
    <3>1. claimed[c] /\ Delete(req[c].key) => results' # results
      BY DEF IInv, TypeOK, ShapeInv, Shape, ClaimHeld, Holding, Delete, NoResult
    <3>2. claimed[c] /\ StoreBody(req[c].key, c) => results' # results
      BY DEF IInv, TypeOK, ShapeInv, Shape, ClaimHeld, Holding, StoreBody
    <3> QED BY <3>1, <3>2
  <2>3. Shape(c)'
    BY DEF IInv, TypeOK, ShapeInv, Shape, Served
  <2> QED
    BY <2>1, <2>2, <2>3, QuietKeepsIInv DEF IInv, TypeOK, ShapeInv, Shape, Served, Holding
<1>2. CASE results' # results
  <2>1. CASE ReleaseKey(c)
    <3>1. ~Served(c)
      BY <2>1 DEF ReleaseKey, IInv, ShapeInv, Shape, Served
    <3> QED BY <1>2, <2>1, <3>1, ClaimEndKeepsIInv DEF ReleaseKey, Goto, Write
  <2>2. CASE StoreResult(c)
    <3>1. outcome[c] # "refused" <=> Served(c)
      BY <2>2 DEF StoreResult, IInv, ShapeInv, Shape, Served
    <3> QED BY <1>2, <2>2, <3>1, ClaimEndKeepsIInv DEF StoreResult, Goto, Write
  <2> QED BY <2>1, <2>2
<1> QED BY <1>1, <1>2

-----------------------------------------------------------------------------
(* The invariant is inductive: no step of a call, of the chain or of a crash  *)
(* leaves it.                                                               *)
LEMMA StepIInv == IInv /\ [Next]_vars => IInv'
<1> SUFFICES ASSUME IInv, [Next]_vars PROVE IInv'
  OBVIOUS
<1>1. ASSUME NEW c \in Calls, Authorize(c) PROVE IInv'
  BY <1>1, AuthorizeKeepsIInv
<1>2. ASSUME NEW c \in Calls, ClaimKey(c) PROVE IInv'
  BY <1>2, ClaimKeepsIInv
<1>3. ASSUME NEW c \in Calls, OpenCall(c) \/ Start(c) \/ RunJob(c) PROVE IInv'
  BY <1>3, WorkKeepsIInv
<1>4. ASSUME NEW c \in Calls, CloseFailed(c) \/ Unwind(c) \/ Bill(c) \/ Reply(c)
      PROVE IInv'
  BY <1>4, EndKeepsIInv
<1>5. ASSUME NEW c \in Calls, CloseCall(c) PROVE IInv'
  BY <1>5, CloseKeepsIInv
<1>6. ASSUME NEW c \in Calls, ReleaseKey(c) \/ StoreResult(c) PROVE IInv'
  BY <1>6, SettleClaimKeepsIInv
<1>7. CASE Crash \/ CrashInMemory \/ (\E c \in Calls : TransferEnds(c)) \/ UNCHANGED vars
  BY <1>7, WorldKeepsIInv
<1> QED BY <1>1, <1>2, <1>3, <1>4, <1>5, <1>6, <1>7 DEF Next, CallStep

(* The inductive invariant holds of every reachable state of serve.          *)
THEOREM Invariant == Spec => []IInv
<1> QED BY InitIInv, StepIInv, PTL DEF Spec

(* The rows, the calls and the answers only ever hold values of their kinds:  *)
(* a key's row names its claimant and has a body exactly when it is done.   *)
THEOREM TypeCorrect == Spec => []TypeOK
<1>1. IInv => TypeOK
  BY DEF IInv
<1> QED BY <1>1, Invariant, PTL

(* However many retries overlap, fail, are refused or die, at most one call   *)
(* holds the claim of an Idempotency-Key or was served under it.            *)
THEOREM KeyHasOneJob == Spec => []OneJobPerKey
<1>1. ASSUME IInv, NEW k \in Keys, NEW c \in HoldersOf(k)
      PROVE  c = results[k].call
  BY <1>1 DEF IInv, HoldersOf, ClaimHeld, ServedKept, Holding
<1>2. IInv => OneJobPerKey
  BY <1>1 DEF OneJobPerKey
<1> QED BY <1>2, Invariant, PTL

(* A replay returns what another call with the key was served, never the body *)
(* of a failed or refused job.  (Code: the "done" branch of serve.)         *)
THEOREM ReplayWasDelivered == Spec => []ReplayIsDelivered
<1>1. IInv => ReplayIsDelivered
  BY DEF IInv
<1> QED BY <1>1, Invariant, PTL

(* A key answers "in progress" only while its call is at work, unless that    *)
(* call died or the ledger failed it.  (Code: release_idempotency.)         *)
THEOREM KeyIsNotPoisoned == Spec => []BusyKeyHasItsCall
<1>1. IInv => BusyKeyHasItsCall
  BY DEF IInv
<1> QED BY <1>1, Invariant, PTL

(* While the process lives a stored result is never changed, and a claim      *)
(* ends only by the call that made it; a ledger that was in memory is lost    *)
(* with the process.  (Code: "if claimed and idempotency_key" in serve.)      *)
THEOREM ClaimIsItsCalls == Spec => ClaimEndsByItsCall
<1>1. ASSUME IInv, [Next]_vars, crashes' = crashes,
             NEW k \in Keys, results'[k] # results[k]
      PROVE  /\ results[k].state # "done"
             /\ results[k].state = "running" =>
                  pc[results[k].call] \in {"release", "store"}
  <2>1. ASSUME NEW c \in Calls, ClaimKey(c) PROVE results[k].state = "absent"
    BY <1>1, <2>1 DEF ClaimKey, Free, IInv, TypeOK
  <2>2. ASSUME NEW c \in Calls, ReleaseKey(c) \/ StoreResult(c)
        PROVE  /\ results[k].state = "running" /\ results[k].call = c
               /\ pc[c] \in {"release", "store"}
    <3>1. k = req[c].key /\ claimed[c] /\ pc[c] \in {"release", "store"}
      BY <1>1, <2>2
      DEF ReleaseKey, StoreResult, Write, Delete, StoreBody, IInv, TypeOK
    <3> QED BY <1>1, <3>1 DEF IInv, ClaimHeld, Holding
  <2>3. ASSUME NEW c \in Calls,
               \/ Authorize(c) \/ OpenCall(c) \/ Start(c) \/ RunJob(c) \/ CloseFailed(c)
               \/ Unwind(c) \/ Bill(c) \/ CloseCall(c) \/ Reply(c) \/ TransferEnds(c)
        PROVE  FALSE
    BY <1>1, <2>3
    DEF Authorize, OpenCall, Start, RunJob, CloseFailed, Unwind, Bill, CloseCall, Reply,
        TransferEnds, ledgerVars
  <2>4. ~Crash /\ ~CrashInMemory /\ ~UNCHANGED vars
    BY <1>1 DEF Crash, CrashInMemory, Die, vars, ledgerVars, IInv, TypeOK
  <2> QED BY <1>1, <2>1, <2>2, <2>3, <2>4 DEF Next, CallStep
<1>2. IInv /\ [Next]_vars =>
        [\A k \in Keys : crashes' = crashes /\ results'[k] # results[k] =>
           /\ results[k].state # "done"
           /\ results[k].state = "running" =>
                pc[results[k].call] \in {"release", "store"}]_vars
  BY <1>1
<1> QED BY <1>2, Invariant, PTL DEF Spec, ClaimEndsByItsCall

-----------------------------------------------------------------------------
(* Payments and receipts.  What follows is inductive given IInv: the money of *)
(* a call follows its outcome, its receipt tells that outcome, and the receipt *)
(* of a served call is removed only by a call whose claim the ledger failed.  *)

\* The money of a call, and its answer, by its outcome.
MoneyShape(c) ==
  /\ money[c] \in {"moved", "open"} => Served(c) \/ outcome[c] = "refused"
  /\ outcome[c] = "settled" => money[c] = "moved"
  /\ outcome[c] = "delivered" => req[c].rail \in AtGate /\ money[c] = "held"
  /\ answer[c] \in {"rejected", "replay", "in_progress", "invalid", "failed"} =>
       outcome[c] \in {"none", "invalid", "failed"}
  /\ answer[c] = "withheld" => outcome[c] = "refused"
  /\ answer[c] = "delivered" => Served(c)

\* The receipt of a call, by its outcome and its money.
RowShape(c) ==
  /\ rows[c].status = "failed" => outcome[c] \in {"invalid", "failed"}
  /\ rows[c].status = "ok" =>
       Served(c) /\ (outcome[c] = "settled" => rows[c].settled)
  /\ rows[c].status = "refused" => outcome[c] = "refused"
  /\ rows[c].settled =>
       /\ rows[c].status = "ok"
       /\ WasSettled(c) \/ outcome[c] = "open"

\* A ledger fault comes after the gate, and a call that works or was served
\* under a key without its claim is one the ledger failed.
FaultShape(c) ==
  /\ c \in faulted => pc[c] \notin {"idle", "claim"}
  /\ c \in forgot => pc[c] = "done"
  /\ req[c].key # None /\ ~claimed[c] /\ (pc[c] \in Holding \/ Served(c)) =>
       c \in faulted \cup forgot

\* The ledger failed or forgot d, or failed the claim of another call with its
\* key.
Excused(d) ==
  d \in faulted \cup forgot \/ \E e \in faulted \ {d} : req[e].key = req[d].key /\ ~claimed[e]

\* The receipt of a call from open_call to its reply.
RowStands(c) ==
  /\ pc[c] \in {"queue", "run", "bill", "close"} => rows[c].status = "running" \/ Excused(c)
  /\ pc[c] \in {"store", "reply"} /\ Served(c) => rows[c].status = "ok" \/ Excused(c)
  /\ answer[c] = "delivered" => rows[c].status = "ok" \/ Excused(c)
  /\ answer[c] = "replay" => rows[source[c]].status = "ok" \/ Excused(source[c])

\* The receipt of a stored result.
StoredStands ==
  \A k \in Keys : results[k].state = "done" =>
    rows[results[k].call].status = "ok" \/ Excused(results[k].call)

MoneyInv == \A c \in Calls : MoneyShape(c)
RowInv == \A c \in Calls : RowShape(c)
FaultInv == \A c \in Calls : FaultShape(c)
StandInv == (\A c \in Calls : RowStands(c)) /\ StoredStands

RInv == MoneyInv /\ RowInv /\ FaultInv /\ StandInv

(* Before any request there is no money, no receipt and no fault.            *)
LEMMA InitRInv == Init => RInv
BY ServeAssumption DEF Init, NoResult, NoRow, RInv, MoneyInv, MoneyShape, RowInv, RowShape,
  FaultInv, FaultShape, StandInv, RowStands, StoredStands, Served

(* The money of a call and its answer follow its outcome: an x402 payment     *)
(* moves only in _bill, after the job gave its result.  (Code: _bill.)      *)
LEMMA StepKeepsMoney ==
  ASSUME IInv, MoneyInv, [Next]_vars
  PROVE  MoneyInv'
<1> SUFFICES ASSUME NEW d \in Calls PROVE MoneyShape(d)'
  BY DEF MoneyInv
<1> USE DEF IInv, TypeOK, ShapeInv, Shape, MoneyInv, MoneyShape, Served
<1>1. ASSUME NEW c \in Calls, Authorize(c) PROVE MoneyShape(d)'
  BY <1>1 DEF Authorize, Goto, Answer, ledgerVars
<1>2. ASSUME NEW c \in Calls, ClaimKey(c) PROVE MoneyShape(d)'
  BY <1>2 DEF ClaimKey, Goto, Answer
<1>3. ASSUME NEW c \in Calls, OpenCall(c) \/ Start(c) \/ CloseFailed(c) \/ ReleaseKey(c)
                              \/ CloseCall(c) \/ StoreResult(c)
      PROVE MoneyShape(d)'
  BY <1>3, ZenonT(30) DEF OpenCall, Start, CloseFailed, ReleaseKey, CloseCall, StoreResult, ledgerVars
<1>4. ASSUME NEW c \in Calls, RunJob(c) PROVE MoneyShape(d)'
  BY <1>4 DEF RunJob, Goto, ledgerVars
<1>5. ASSUME NEW c \in Calls, Unwind(c) PROVE MoneyShape(d)'
  BY <1>5 DEF Unwind, Goto, Answer, ledgerVars
<1>6. ASSUME NEW c \in Calls, Bill(c) PROVE MoneyShape(d)'
  BY <1>6 DEF Bill, Goto, ledgerVars
<1>7. ASSUME NEW c \in Calls, Reply(c) PROVE MoneyShape(d)'
  BY <1>7 DEF Reply, Goto, Answer, ledgerVars
<1>8. ASSUME NEW c \in Calls, TransferEnds(c) PROVE MoneyShape(d)'
  BY <1>8 DEF TransferEnds, ledgerVars
<1>9. CASE Crash \/ CrashInMemory
  BY <1>9 DEF Crash, CrashInMemory, Die
<1>10. CASE UNCHANGED vars
  BY <1>10 DEF vars, callVars
<1> QED BY <1>1, <1>2, <1>3, <1>4, <1>5, <1>6, <1>7, <1>8, <1>9, <1>10 DEF Next, CallStep

(* What a step does to the receipt of d: nothing, unless it opens or closes   *)
(* the row of d, or removes it for a later call with the same key.  (Code:  *)
(* open_call, close_call.)                                                  *)
LEMMA RowStep ==
  ASSUME IInv, [Next]_vars, NEW d \in Calls, rows'[d] # rows[d]
  PROVE  \/ OpenCall(d) /\ rows'[d] = [status |-> "running", settled |-> FALSE]
         \/ CloseFailed(d) /\ rows'[d] = [status |-> "failed", settled |-> FALSE]
         \/ CloseCall(d)
         \/ CrashInMemory /\ rows'[d] = NoRow
         \/ /\ rows'[d] = NoRow
            /\ \E e \in Calls \ {d} :
                 OpenCall(e) /\ req[e].key # None /\ req[d].key = req[e].key
<1> USE DEF IInv, TypeOK
<1>1. ASSUME NEW c \in Calls, OpenCall(c)
      PROVE  \/ c = d /\ rows'[d] = [status |-> "running", settled |-> FALSE]
             \/ /\ c # d /\ rows'[d] = NoRow
                /\ req[c].key # None /\ req[d].key = req[c].key
  BY <1>1 DEF OpenCall, Write
<1>2. ASSUME NEW c \in Calls, CloseFailed(c)
      PROVE  c = d /\ rows'[d] = [status |-> "failed", settled |-> FALSE]
  BY <1>2 DEF CloseFailed, Write, CloseRow
<1>3. ASSUME NEW c \in Calls, CloseCall(c) PROVE c = d
  BY <1>3 DEF CloseCall, Write, CloseRow
<1>4. ASSUME NEW c \in Calls,
             \/ Authorize(c) \/ ClaimKey(c) \/ Start(c) \/ RunJob(c) \/ ReleaseKey(c)
             \/ Unwind(c) \/ Bill(c) \/ StoreResult(c) \/ Reply(c) \/ TransferEnds(c)
      PROVE  FALSE
  BY <1>4 DEF Authorize, ClaimKey, Start, RunJob, ReleaseKey, Unwind, Bill, StoreResult,
    Reply, TransferEnds, ledgerVars
<1>5. ~Crash /\ ~UNCHANGED vars /\ (CrashInMemory => rows'[d] = NoRow)
  BY DEF Crash, CrashInMemory, vars, ledgerVars
<1> QED BY <1>1, <1>2, <1>3, <1>4, <1>5 DEF Next, CallStep

(* What a step does to the outcome and the money of d: nothing once it was    *)
(* served, but for a transfer in doubt; its request is fixed when it comes.  *)
(* (Code: _run_job, _bill and _failed, each before the next.)               *)
LEMMA OutcomeStep ==
  ASSUME IInv, [Next]_vars, NEW d \in Calls
  PROVE  /\ outcome'[d] = outcome[d] \/ outcome[d] = "none"
         /\ req'[d] = req[d] \/ pc[d] = "idle"
         /\ money'[d] = money[d] \/ money[d] = "open" \/ outcome[d] \in {"none", "failed"}
<1> USE DEF IInv, TypeOK, ShapeInv, Shape
<1>1. ASSUME NEW c \in Calls, Authorize(c) \/ RunJob(c) \/ Bill(c)
      PROVE  /\ outcome'[d] = outcome[d] \/ outcome[d] = "none"
             /\ req'[d] = req[d] \/ pc[d] = "idle"
             /\ money'[d] = money[d] \/ outcome[d] = "none"
  BY <1>1 DEF Authorize, RunJob, Bill
<1>2. ASSUME NEW c \in Calls, Unwind(c) \/ TransferEnds(c)
      PROVE  /\ UNCHANGED <<outcome, req>>
             /\ money'[d] = money[d] \/ money[d] = "open" \/ outcome[d] = "failed"
  BY <1>2 DEF Unwind, TransferEnds
<1>3. ASSUME NEW c \in Calls,
             \/ ClaimKey(c) \/ OpenCall(c) \/ Start(c) \/ CloseFailed(c) \/ ReleaseKey(c)
             \/ CloseCall(c) \/ StoreResult(c) \/ Reply(c)
      PROVE  UNCHANGED <<outcome, req, money>>
  BY <1>3 DEF ClaimKey, OpenCall, Start, CloseFailed, ReleaseKey, CloseCall, StoreResult,
    Reply
<1>4. Crash \/ CrashInMemory \/ UNCHANGED vars => UNCHANGED <<outcome, req, money>>
  BY DEF Crash, CrashInMemory, Die, vars, callVars
<1> QED BY <1>1, <1>2, <1>3, <1>4 DEF Next, CallStep

(* A receipt goes on telling how its call ended: it is closed with the        *)
(* outcome and the money at hand, and neither changes behind it.  (Code:    *)
(* close_call, and settled in serve.)                                       *)
LEMMA StepKeepsRows ==
  ASSUME IInv, MoneyInv, RowInv, [Next]_vars
  PROVE  RowInv'
<1> SUFFICES ASSUME NEW d \in Calls PROVE RowShape(d)'
  BY DEF RowInv
<1>1. CASE rows'[d] = rows[d]
  <2>1. RowShape(d) /\ (Served(d) => pc[d] # "idle")
    BY DEF RowInv, IInv, ShapeInv, Shape, Served
  <2> QED BY <1>1, <2>1, OutcomeStep DEF RowShape, Served, WasSettled
<1>2. CASE rows'[d] # rows[d]
  <2>1. CASE rows'[d] = NoRow \/ rows'[d] = [status |-> "running", settled |-> FALSE]
    BY <2>1 DEF RowShape, NoRow
  <2>2. CASE CloseFailed(d) /\ rows'[d] = [status |-> "failed", settled |-> FALSE]
    BY <2>2 DEF CloseFailed, IInv, ShapeInv, Shape, RowShape
  <2>3. CASE CloseCall(d)
    <3>1. PICK named \in BOOLEAN :
            rows'[d] = [status |-> IF outcome[d] = "refused" THEN "refused" ELSE "ok",
                        settled |-> /\ outcome[d] # "refused"
                                    /\ outcome[d] = "settled" \/ PayerKnown(d, named)]
      BY <1>2, <2>3 DEF CloseCall, Write, CloseRow, IInv, TypeOK
    <3>2. UNCHANGED <<outcome, money, req>> /\ (Served(d) \/ outcome[d] = "refused")
      BY <2>3 DEF CloseCall, IInv, ShapeInv, Shape
    <3>3. MoneyShape(d)
      BY DEF MoneyInv
    <3> QED BY <3>1, <3>2, <3>3 DEF RowShape, MoneyShape, Served, WasSettled, PayerKnown, AtGate
  <2> QED BY <1>2, <2>1, <2>2, <2>3, RowStep
<1> QED BY <1>1, <1>2

(* The ledger fails a call only past the gate, and a call that went on under  *)
(* a key it could not claim is one the ledger failed.  (Code:               *)
(* claim_idempotency, whose error lets the job run.)                        *)
LEMMA StepKeepsFaults ==
  ASSUME IInv, FaultInv, [Next]_vars
  PROVE  FaultInv'
<1> SUFFICES ASSUME NEW d \in Calls PROVE FaultShape(d)'
  BY DEF FaultInv
<1> USE DEF IInv, TypeOK, ShapeInv, Shape, FaultInv, FaultShape, Served, Holding
<1>1. ASSUME NEW c \in Calls, Authorize(c) PROVE FaultShape(d)'
  BY <1>1 DEF Authorize, Goto, Answer
<1>2. ASSUME NEW c \in Calls, ClaimKey(c) PROVE FaultShape(d)'
  BY <1>2 DEF ClaimKey, Goto, Answer, LedgerFault
<1>3. ASSUME NEW c \in Calls, OpenCall(c) \/ CloseFailed(c) \/ CloseCall(c)
      PROVE FaultShape(d)'
  BY <1>3, ZenonT(30) DEF OpenCall, CloseFailed, CloseCall, Write, Goto, LedgerFault
<1>4. ASSUME NEW c \in Calls, ReleaseKey(c) \/ StoreResult(c) PROVE FaultShape(d)'
  BY <1>4 DEF ReleaseKey, StoreResult, Write, Goto, LedgerFault
<1>5. ASSUME NEW c \in Calls, Start(c) \/ RunJob(c) \/ Bill(c) PROVE FaultShape(d)'
  BY <1>5 DEF Start, RunJob, Bill, Goto
<1>6. ASSUME NEW c \in Calls, Unwind(c) \/ Reply(c) \/ TransferEnds(c)
      PROVE FaultShape(d)'
  BY <1>6 DEF Unwind, Reply, TransferEnds, Goto, Answer
<1>7. CASE Crash \/ CrashInMemory \/ UNCHANGED vars
  BY <1>7 DEF Crash, CrashInMemory, Die, vars, callVars
<1> QED BY <1>1, <1>2, <1>3, <1>4, <1>5, <1>6, <1>7 DEF Next, CallStep

(* What the ledger failed or forgot stays so, and no call the ledger failed    *)
(* comes by a claim.                                                        *)
LEMMA FaultStep ==
  ASSUME IInv, FaultInv, [Next]_vars
  PROVE  /\ faulted \subseteq faulted' /\ forgot \subseteq forgot'
         /\ \A e \in faulted : (claimed'[e] => claimed[e]) /\ req'[e] = req[e]
<1>1. faulted \subseteq faulted' /\ forgot \subseteq forgot'
  BY DEF Next, CallStep, Authorize, ClaimKey, OpenCall, Start, RunJob, CloseFailed,
    ReleaseKey, Unwind, Bill, CloseCall, StoreResult, Reply, TransferEnds, Crash,
    CrashInMemory, Die, Write, LedgerFault, vars
<1>2. ASSUME NEW e \in faulted PROVE (claimed'[e] => claimed[e]) /\ req'[e] = req[e]
  <2>1. e \in Calls /\ pc[e] \notin {"idle", "claim"}
    BY DEF IInv, TypeOK, FaultInv, FaultShape
  <2>2. claimed'[e] => claimed[e]
    BY <2>1 DEF Next, CallStep, Authorize, ClaimKey, OpenCall, Start, RunJob, CloseFailed,
      ReleaseKey, Unwind, Bill, CloseCall, StoreResult, Reply, TransferEnds, Crash,
      CrashInMemory, Die, vars, callVars, IInv, TypeOK
  <2> QED BY <2>1, <2>2, OutcomeStep
<1> QED BY <1>1, <1>2

(* The excuse of a call that has begun stays.                                *)
LEMMA ExcuseStays ==
  ASSUME IInv, FaultInv, [Next]_vars, NEW d \in Calls, pc[d] # "idle", Excused(d)
  PROVE  Excused(d)'
BY FaultStep, OutcomeStep DEF Excused

(* The receipt of a call that works or was served is removed only by a call   *)
(* whose claim of the key the ledger failed: were both claims good, the row of *)
(* the key would name both.  (Code: INSERT OR REPLACE in open_call.)        *)
LEMMA RowIsEatenByUnclaimed ==
  ASSUME IInv, FaultInv, [Next]_vars, NEW d \in Calls, NEW e \in Calls \ {d},
         OpenCall(e), req[e].key # None, req[d].key = req[e].key,
         pc[d] \in Holding \/ Served(d)
  PROVE  Excused(d)'
<1>1. pc[e] = "open" /\ UNCHANGED <<req, claimed>>
  BY DEF OpenCall
<1>2. ~claimed[d] \/ ~claimed[e]
  <2>1. ASSUME claimed[d], claimed[e] PROVE FALSE
    BY <1>1, <2>1 DEF IInv, ClaimHeld, ServedKept, Holding
  <2> QED BY <2>1
<1>3. CASE ~claimed[d]
  BY <1>1, <1>3, FaultStep DEF Excused, FaultInv, FaultShape
<1>4. CASE ~claimed[e]
  BY <1>1, <1>4, FaultStep DEF Excused, FaultInv, FaultShape, Holding
<1> QED BY <1>2, <1>3, <1>4

(* So a receipt that stands, or is excused, stays so once its call was served *)
(* and its row closed.                                                      *)
LEMMA ReceiptStays ==
  ASSUME IInv, FaultInv, [Next]_vars, NEW d \in Calls, Served(d),
         rows[d].status = "ok" \/ Excused(d)
  PROVE  rows'[d].status = "ok" \/ Excused(d)'
<1>1. pc[d] \notin {"idle", "open", "close_failed"} /\ outcome[d] # "refused"
  BY DEF IInv, ShapeInv, Shape, Served
<1>2. CASE Excused(d)
  BY <1>1, <1>2, ExcuseStays
<1>3. CASE rows[d].status = "ok" /\ rows'[d] # rows[d]
  <2>1. CASE CloseCall(d)
    BY <1>1, <1>3, <2>1 DEF CloseCall, CloseRow, Write, IInv, TypeOK
  <2>2. CASE \E e \in Calls \ {d} :
               OpenCall(e) /\ req[e].key # None /\ req[d].key = req[e].key
    BY <2>2, RowIsEatenByUnclaimed
  <2>3. ~OpenCall(d) /\ ~CloseFailed(d)
    BY <1>1 DEF OpenCall, CloseFailed
  <2>4. CASE CrashInMemory
    BY <1>1, <2>4 DEF CrashInMemory, Excused
  <2> QED BY <1>3, <2>1, <2>2, <2>3, <2>4, RowStep
<1> QED BY <1>2, <1>3

(* How d comes to the steps at which its receipt is open, or to those at which *)
(* it is closed, and how it is answered.  (Code: the order of serve.)       *)
LEMMA PathStep ==
  ASSUME IInv, [Next]_vars, NEW d \in Calls
  PROVE  /\ pc'[d] \in {"queue", "run", "bill", "close"} =>
              pc[d] \in {"queue", "run", "bill", "close"} \/ OpenCall(d)
         /\ pc'[d] \in {"store", "reply"} => pc[d] \in {"store", "reply"} \/ CloseCall(d)
         /\ answer'[d] = "delivered" =>
              answer[d] = "delivered" \/ (pc[d] = "reply" /\ outcome[d] # "refused")
         /\ answer'[d] = "replay" =>
              \/ answer[d] = "replay" /\ source'[d] = source[d]
              \/ /\ req[d].key \in Keys /\ results[req[d].key].state = "done"
                 /\ source'[d] = results[req[d].key].body
<1>1. ASSUME NEW c \in Calls, Authorize(c) \/ Reply(c)
      PROVE  /\ pc'[d] \notin {"queue", "run", "bill", "close", "store", "reply"} \/ pc'[d] = pc[d]
             /\ answer'[d] = "delivered" =>
                  answer[d] = "delivered" \/ (pc[d] = "reply" /\ outcome[d] # "refused")
             /\ answer'[d] = "replay" => answer[d] = "replay" /\ source'[d] = source[d]
  <2>1. CASE Authorize(c)
    BY <2>1 DEF Authorize, Goto, Answer, IInv, TypeOK
  <2>2. CASE Reply(c)
    BY <2>2 DEF Reply, Goto, Answer, IInv, TypeOK
  <2> QED BY <1>1, <2>1, <2>2
<1>2. ASSUME NEW c \in Calls, Unwind(c)
      PROVE  /\ pc'[d] \in {pc[d], "done"} /\ UNCHANGED source
             /\ answer'[d] \in {answer[d], "invalid", "failed"}
  <2>1. outcome[c] \in {"invalid", "failed"}
    BY <1>2 DEF Unwind, IInv, ShapeInv, Shape
  <2> QED BY <1>2, <2>1 DEF Unwind, Goto, Answer, IInv, TypeOK
<1>3. ASSUME NEW c \in Calls, ClaimKey(c)
      PROVE  /\ pc'[d] \notin {"queue", "run", "bill", "close", "store", "reply"} \/ pc'[d] = pc[d]
             /\ answer'[d] = "delivered" => answer[d] = "delivered"
             /\ answer'[d] = "replay" =>
                  \/ answer[d] = "replay" /\ source'[d] = source[d]
                  \/ /\ req[d].key # None /\ results[req[d].key].state = "done"
                     /\ source'[d] = results[req[d].key].body
  BY <1>3 DEF ClaimKey, Goto, Answer, IInv, TypeOK
<1>4. req[d].key \in Keys \cup {None}
  BY DEF RequestType, IInv, TypeOK
<1>5. ASSUME NEW c \in Calls,
             \/ OpenCall(c) \/ Start(c) \/ RunJob(c) \/ CloseFailed(c) \/ ReleaseKey(c)
             \/ Bill(c) \/ CloseCall(c) \/ StoreResult(c) \/ TransferEnds(c)
      PROVE  /\ pc'[d] \in {"queue", "run", "bill", "close"} =>
                  pc[d] \in {"queue", "run", "bill", "close"} \/ OpenCall(d)
             /\ pc'[d] \in {"store", "reply"} => pc[d] \in {"store", "reply"} \/ CloseCall(d)
             /\ UNCHANGED <<answer, source>>
  <2>1. UNCHANGED <<answer, source>> /\ (c # d => pc'[d] = pc[d])
    BY <1>5 DEF OpenCall, Start, RunJob, CloseFailed, ReleaseKey, Bill, CloseCall,
      StoreResult, TransferEnds, Goto, IInv, TypeOK
  <2>2. ASSUME c = d, ~OpenCall(d), ~CloseCall(d)
        PROVE  /\ pc'[d] \in {"queue", "run", "bill", "close"} =>
                    pc[d] \in {"queue", "run", "bill", "close"}
               /\ pc'[d] \in {"store", "reply"} => pc[d] \in {"store", "reply"}
    BY <1>5, <2>2 DEF Start, RunJob, CloseFailed, ReleaseKey, Bill, StoreResult,
      TransferEnds, Goto, IInv, TypeOK
  <2>3. /\ OpenCall(d) => pc'[d] = "queue"
        /\ CloseCall(d) => pc'[d] = "store"
    BY DEF OpenCall, CloseCall, Goto, IInv, TypeOK
  <2> QED BY <2>1, <2>2, <2>3
<1>6. Crash \/ CrashInMemory \/ UNCHANGED vars =>
        /\ pc'[d] \in {pc[d], "done"} /\ answer'[d] \in {answer[d], "lost"}
        /\ UNCHANGED source
  BY DEF Crash, CrashInMemory, Die, vars, callVars, IInv, TypeOK
<1>7. CASE \E c \in Calls : Authorize(c) \/ Reply(c)
  BY <1>1, <1>7
<1>8. CASE Crash \/ CrashInMemory \/ UNCHANGED vars \/ \E c \in Calls : Unwind(c)
  BY <1>2, <1>6, <1>8
<1>9. CASE \E c \in Calls : ClaimKey(c)
  BY <1>3, <1>4, <1>9
<1>10. CASE \E c \in Calls :
              \/ OpenCall(c) \/ Start(c) \/ RunJob(c) \/ CloseFailed(c) \/ ReleaseKey(c)
              \/ Bill(c) \/ CloseCall(c) \/ StoreResult(c) \/ TransferEnds(c)
  BY <1>5, <1>10
<1> QED BY <1>7, <1>8, <1>9, <1>10 DEF Next, CallStep

(* The receipt of a call at work is open, of a call that was served closed as *)
(* such, unless the ledger failed it or the claim of a later call.  (Code:  *)
(* open_call and close_call around the job.)                                *)
LEMMA StepKeepsReceipts ==
  ASSUME IInv, MoneyInv, FaultInv, StandInv, [Next]_vars, NEW d \in Calls
  PROVE  RowStands(d)'
<1> USE DEF StandInv
<1>1. ASSUME pc'[d] \in {"queue", "run", "bill", "close"}
      PROVE  rows'[d].status = "running" \/ Excused(d)'
  <2>1. CASE OpenCall(d)
    BY <2>1 DEF OpenCall, Write, LedgerFault, Excused, IInv, TypeOK
  <2>2. CASE pc[d] \in {"queue", "run", "bill", "close"} /\ Excused(d)
    BY <2>2, ExcuseStays
  <2>3. CASE pc[d] \in {"queue", "run", "bill", "close"} /\ rows[d].status = "running"
    <3>1. ~OpenCall(d) /\ ~CloseFailed(d) /\ ~CloseCall(d)
      BY <1>1, <2>3 DEF OpenCall, CloseFailed, CloseCall, Goto, IInv, TypeOK
    <3>2. ASSUME NEW e \in Calls \ {d}, OpenCall(e), req[e].key # None,
                 req[d].key = req[e].key
          PROVE  Excused(d)'
      BY <2>3, <3>2, RowIsEatenByUnclaimed DEF Holding
    <3>3. ~CrashInMemory
      BY <1>1 DEF CrashInMemory, Die, IInv, TypeOK
    <3> QED BY <2>3, <3>1, <3>2, <3>3, RowStep
  <2> QED BY <1>1, <2>1, <2>2, <2>3, PathStep DEF RowStands
<1>2. ASSUME pc[d] \in {"store", "reply"}, Served(d)
      PROVE  rows'[d].status = "ok" \/ Excused(d)'
  BY <1>2, ReceiptStays DEF RowStands
<1>3. ASSUME pc'[d] \in {"store", "reply"}, Served(d)'
      PROVE  rows'[d].status = "ok" \/ Excused(d)'
  <2>1. CASE CloseCall(d)
    <3>1. pc[d] = "close" /\ outcome[d] # "refused"
      BY <1>3, <2>1 DEF CloseCall, Served
    <3>2. CASE Excused(d)
      BY <3>1, <3>2, ExcuseStays
    <3>3. CASE rows[d].status = "running"
      BY <2>1, <3>1, <3>3
      DEF CloseCall, CloseRow, Write, LedgerFault, Excused, IInv, TypeOK
    <3> QED BY <3>1, <3>2, <3>3 DEF RowStands
  <2>2. CASE pc[d] \in {"store", "reply"}
    <3>1. Served(d)
      BY <1>3, <2>2, OutcomeStep DEF Served, IInv, ShapeInv, Shape
    <3> QED BY <1>2, <2>2, <3>1
  <2> QED BY <1>3, <2>1, <2>2, PathStep
<1>4. ASSUME answer'[d] = "delivered"
      PROVE  rows'[d].status = "ok" \/ Excused(d)'
  <2>1. CASE answer[d] = "delivered"
    BY <2>1, ReceiptStays DEF RowStands, MoneyInv, MoneyShape
  <2>2. CASE pc[d] = "reply" /\ outcome[d] # "refused"
    BY <1>2, <2>2 DEF IInv, ShapeInv, Shape
  <2> QED BY <1>4, <2>1, <2>2, PathStep
<1>5. ASSUME answer'[d] = "replay"
      PROVE  rows'[source'[d]].status = "ok" \/ Excused(source[d])'
  <2>1. CASE answer[d] = "replay" /\ source'[d] = source[d]
    <3>1. source[d] \in Calls /\ Served(source[d])
      BY <2>1 DEF IInv, TypeOK, ReplayIsDelivered
    <3> DEFINE s == source[d]
    <3>2. rows[s].status = "ok" \/ Excused(s)
      BY <2>1 DEF RowStands
    <3> HIDE DEF s
    <3>3. \A x \in Calls : Served(x) /\ (rows[x].status = "ok" \/ Excused(x)) =>
            rows'[x].status = "ok" \/ Excused(x)'
      BY ReceiptStays
    <3> QED BY <2>1, <3>1, <3>2, <3>3 DEF s, Excused
  <2>2. CASE /\ req[d].key \in Keys /\ results[req[d].key].state = "done"
             /\ source'[d] = results[req[d].key].body
    <3>1. PICK x \in Calls : /\ x = results[req[d].key].call /\ x = source'[d]
                             /\ Served(x)
      BY <2>2 DEF IInv, Claimant
    <3>2. rows[x].status = "ok" \/ Excused(x)
      BY <2>2, <3>1 DEF StoredStands
    <3>3. rows'[x].status = "ok" \/ Excused(x)'
      BY <3>1, <3>2, ReceiptStays
    <3> QED BY <3>1, <3>3 DEF Excused
  <2> QED BY <1>5, <2>1, <2>2, PathStep
<1> QED BY <1>1, <1>3, <1>4, <1>5 DEF RowStands

(* The receipt of a stored result stands: the result is stored by a call whose *)
(* row was closed, and is for good.  (Code: complete_idempotency.)          *)
LEMMA StepKeepsStored ==
  ASSUME IInv, FaultInv, StandInv, [Next]_vars
  PROVE  StoredStands'
<1> SUFFICES ASSUME NEW k \in Keys, results'[k].state = "done"
             PROVE  \E x \in Calls :
                      /\ x = results'[k].call
                      /\ rows'[x].status = "ok" \/ Excused(x)'
  BY DEF StoredStands, Excused
<1>1. ASSUME NEW x \in Calls, Served(x), rows[x].status = "ok" \/ Excused(x)
      PROVE  rows'[x].status = "ok" \/ Excused(x)'
  BY <1>1, ReceiptStays
<1>2. CASE results'[k] = results[k]
  <2>1. PICK x \in Calls : x = results[k].call /\ Served(x)
    BY <1>2 DEF IInv, Claimant
  <2>2. rows[x].status = "ok" \/ Excused(x)
    BY <1>2, <2>1 DEF StandInv, StoredStands
  <2> QED BY <1>1, <1>2, <2>1, <2>2
<1>3. CASE results'[k] # results[k]
  <2>1. ASSUME NEW c \in Calls, StoreResult(c)
        PROVE  /\ c = results'[k].call /\ Served(c)
               /\ rows[c].status = "ok" \/ Excused(c)
    <3>1. /\ pc[c] = "store" /\ claimed[c] /\ k = req[c].key
          /\ StoreBody(k, c) /\ outcome[c] # "refused"
      BY <1>3, <2>1 DEF StoreResult, Write, Delete, StoreBody, NoResult, IInv, TypeOK
    <3>2. results[k].call = c
      BY <3>1 DEF IInv, ClaimHeld, Holding
    <3>3. Served(c)
      BY <3>1 DEF IInv, ShapeInv, Shape
    <3>4. results'[k].call = c
      BY <3>1, <3>2 DEF StoreBody, IInv, TypeOK
    <3>5. RowStands(c)
      BY DEF StandInv
    <3> QED BY <3>1, <3>3, <3>4, <3>5 DEF RowStands
  <2>2. ASSUME NEW c \in Calls, ClaimKey(c) \/ ReleaseKey(c) PROVE FALSE
    BY <1>3, <2>2 DEF ClaimKey, ReleaseKey, Write, Delete, NoResult, IInv, TypeOK
  <2>3. ASSUME NEW c \in Calls,
               \/ Authorize(c) \/ OpenCall(c) \/ Start(c) \/ RunJob(c) \/ CloseFailed(c)
               \/ Unwind(c) \/ Bill(c) \/ CloseCall(c) \/ Reply(c) \/ TransferEnds(c)
        PROVE  FALSE
    BY <1>3, <2>3
    DEF Authorize, OpenCall, Start, RunJob, CloseFailed, Unwind, Bill, CloseCall, Reply,
        TransferEnds, ledgerVars
  <2>4. ~Crash /\ ~CrashInMemory /\ ~UNCHANGED vars
    BY <1>3 DEF Crash, CrashInMemory, NoResult, vars, ledgerVars
  <2> QED BY <1>1, <2>1, <2>2, <2>3, <2>4 DEF Next, CallStep
<1> QED BY <1>2, <1>3

(* Money, receipts, faults and the standing of receipts are inductive given   *)
(* the invariant of the claims.                                             *)
LEMMA ReceiptInvariant == Spec => []RInv
<1>1. IInv /\ RInv /\ [Next]_vars => RInv'
  <2>1. ASSUME IInv, MoneyInv, FaultInv, StandInv, [Next]_vars
        PROVE  \A d \in Calls : RowStands(d)'
    BY <2>1, StepKeepsReceipts
  <2> QED
    BY <2>1, StepKeepsMoney, StepKeepsRows, StepKeepsFaults, StepKeepsStored
    DEF RInv, StandInv
<1> QED BY InitRInv, Invariant, <1>1, PTL DEF Spec

(* "Only now, with a real result in hand, is anything charged": an x402       *)
(* payment moves or is left in doubt only for a call whose job gave a result, *)
(* and never for one that was rejected, replayed, told to wait or failed.   *)
(* (Code: _bill after _run_job in serve.)                                   *)
THEOREM OnlyResultsAreCharged == Spec => []ChargedForWork
<1>1. RInv => ChargedForWork
  BY DEF RInv, MoneyInv, MoneyShape, ChargedForWork, Served
<1> QED BY <1>1, ReceiptInvariant, PTL

(* A receipt never describes a delivery the caller did not get, and tells a   *)
(* settlement that was answered as it was answered.  It does not always tell  *)
(* whether the money came: a payment left in doubt is recorded as settled     *)
(* when its payer is known, whatever the transfer ends as (the run that       *)
(* checks PaidMeansSettled).  A receipt that was handed out, with a delivery  *)
(* or a replay, can be fetched unless the ledger failed its call, was lost    *)
(* with the process, or failed the claim of a later call with the key.        *)
(* (Code: close_call, get_call.)                                              *)
THEOREM ReceiptsAreTrue == Spec => []ReceiptsHold
<1>1. ASSUME IInv, RInv, NEW c \in Calls
      PROVE  /\ rows[c].status = "ok" =>
                  /\ Served(c) /\ answer[c] \in {"none", "delivered", "lost"}
                  /\ outcome[c] = "settled" => rows[c].settled
             /\ rows[c].status = "refused" => outcome[c] = "refused" /\ ~rows[c].settled
             /\ rows[c].status = "failed" => ~Served(c) /\ money[c] \in {"none", "held", "back"}
  <2>1. MoneyShape(c) /\ RowShape(c)
    BY <1>1 DEF RInv, MoneyInv, RowInv
  <2>2. answer[c] \in Answers /\ money[c] \in Monies /\ rows[c].settled \in BOOLEAN
    BY <1>1 DEF IInv, TypeOK, RowType
  <2> QED BY <2>1, <2>2 DEF MoneyShape, RowShape, Served, Answers, Monies
<1>2. ASSUME IInv, RInv PROVE ReceiptIsTrue
  BY <1>1, <1>2 DEF ReceiptIsTrue, RInv, RowInv, RowShape, Served
<1>3. ASSUME IInv, RInv PROVE ReceiptStands
  <2>1. ASSUME NEW c \in Calls, answer[c] \in {"delivered", "replay"},
               NEW d, d = IF answer[c] = "replay" THEN source[c] ELSE c
        PROVE  rows[d].status = "ok" \/ Excused(d)
    <3>1. RowStands(c)
      BY <1>3 DEF RInv, StandInv
    <3> QED BY <2>1, <3>1 DEF RowStands
  <2> QED BY <2>1 DEF ReceiptStands, Excused
<1> QED BY <1>2, <1>3, Invariant, ReceiptInvariant, PTL DEF ReceiptsHold
=============================================================================
