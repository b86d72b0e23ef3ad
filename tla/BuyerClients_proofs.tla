------------------------ MODULE BuyerClients_proofs ------------------------
(***************************************************************************)
(* Theorems about BuyerClients, for any number of calls, processes,        *)
(* questions, days and prices: who paid for an answer and got it hands it  *)
(* to the agent, and the buyers keep their caps.                           *)
(***************************************************************************)
EXTENDS BuyerClients, FiniteSetTheorems, TLAPS

\* A payment has a fate from the moment it is sent.
Unsent == {"start", "stale", "ask", "quoted", "cleared"}
FateInv == \A c \in Calls : pc[c] \in Unsent => fate[c] = "none"

\* Only a router adds up its purchases after the answer and keeps answers.
KindInv == \A c \in Calls : pc[c] \in {"counted", "store", "swap"} => kind = "router"

\* A call that is about to rename its file finds it there, unless another one
\* stored an answer to the same question meanwhile and returned it.
FileInv == \A c \in Calls : pc[c] = "swap" => c \in tmp \/ LostTheRace(c)

\* Two calls at that point with one question know of each other.
PairInv ==
  \A c, d \in Calls :
    /\ c # d /\ pc[c] = "swap" /\ pc[d] = "swap" /\ Question[c] = Question[d]
    => c \in clashed

IInv == TypeOK /\ FateInv /\ KindInv /\ FileInv /\ PairInv /\ PaidAnswerIsReturned

\* What the invariant says beside the types, in the next state.
Rest == FateInv' /\ KindInv' /\ FileInv' /\ PairInv' /\ PaidAnswerIsReturned'

\* A reason for which c may fail after its 200.
Excused(c) == \/ kind = "router" /\ (c \in broken \/ LostTheRace(c))
              \/ kind = "tollbooth" /\ c \in unread
              \/ kind = "ci" /\ c \in broken \cup unread

USE DEF Steps, Fates, Unsent, Counted, Unwrapped, Written

-----------------------------------------------------------------------------
\* An account never becomes negative and stays whole.
LEMMA LessIsNat ==
  ASSUME NEW a \in Nat, NEW b \in Nat
  PROVE  Less(a, b) \in Nat
BY DEF Less

\* A price is a positive number of cents.
LEMMA CostIsNat ==
  ASSUME NEW c \in Calls
  PROVE  Cost(c) \in Nat /\ Process[c] \in Processes /\ Question[c] \in Questions
BY ClientsAssumption DEF ClientsAssumption, Cost

\* Giving back keeps the accounts typed.
LEMMA GiveBackType ==
  ASSUME TypeOK, NEW c \in Calls, GiveBack(c)
  PROVE  spent' \in [Processes -> Nat]
<1>1. Less(spent[Process[c]], Cost(c)) \in Nat
  BY CostIsNat, LessIsNat DEF TypeOK
<1> QED
  BY <1>1 DEF GiveBack, TypeOK

\* The initial state satisfies the invariant (Router and HubVibeTollbooth
\* start with empty accounts and no call under way).
LEMMA InitInv == Init => IInv
BY ClientsAssumption
DEF ClientsAssumption, Init, IInv, TypeOK, FateInv, KindInv, FileInv, PairInv, PaidAnswerIsReturned, Days

-----------------------------------------------------------------------------
\* Every step keeps the types.
LEMMA TypeStep == TypeOK /\ [Next]_vars => TypeOK'
<1> SUFFICES ASSUME TypeOK, [Next]_vars PROVE TypeOK'
  OBVIOUS
<1> USE DEF TypeOK, Goto
<1>1. ASSUME NEW c \in Calls, Look(c) \/ Ask(c) PROVE TypeOK'
  BY <1>1 DEF Look, Ask, Keep, wallet, files, history
<1>2. ASSUME NEW c \in Calls, DropStale(c) PROVE TypeOK'
  BY <1>2, CostIsNat DEF DropStale, wallet, history
<1>3. ASSUME NEW c \in Calls, CheckCaps(c) PROVE TypeOK'
  BY <1>3 DEF CheckCaps, wallet, files
<1>4. ASSUME NEW c \in Calls, Reserve(c) PROVE TypeOK'
  <2>1. CASE Fits(c)
    <3>1. spent' = [spent EXCEPT ![Process[c]] = @ + Cost(c)]
      BY <1>4, <2>1 DEF Reserve
    <3>2. spent' \in [Processes -> Nat]
      BY <3>1, CostIsNat
    <3> QED
      BY <1>4, <2>1, <3>2 DEF Reserve, wallet, files, history
  <2>2. CASE ~Fits(c)
    BY <1>4, <2>2 DEF Reserve, wallet, files, history
  <2> QED
    BY <2>1, <2>2
<1>5. ASSUME NEW c \in Calls, ClearForCI(c) PROVE TypeOK'
  BY <1>5 DEF ClearForCI, wallet, files, history
<1>6. ASSUME NEW c \in Calls, SignFails(c) PROVE TypeOK'
  <2>1. spent' \in [Processes -> Nat]
    BY <1>6, GiveBackType DEF SignFails
  <2> QED
    BY <1>6, <2>1 DEF SignFails, wallet, files, history
<1>7. ASSUME NEW c \in Calls, Send(c) PROVE TypeOK'
  BY <1>7 DEF Send, files
<1>8. ASSUME NEW c \in Calls, Delivered(c) PROVE TypeOK'
  <2>1. spent' \in [Processes -> Nat]
    BY <1>8, CostIsNat DEF Delivered
  <2> QED
    BY <1>8, <2>1 DEF Delivered, DiskRefuses, wallet, files
<1>9. ASSUME NEW c \in Calls, NotDelivered(c) PROVE TypeOK'
  <2>1. spent' \in [Processes -> Nat]
    BY <1>9, GiveBackType DEF NotDelivered
  <2> QED
    BY <1>9, <2>1 DEF NotDelivered, wallet, files, history
<1>10. ASSUME NEW c \in Calls, Record(c) PROVE TypeOK'
  <2>1. ledger' \in [Days -> Nat]
    BY <1>10, CostIsNat DEF Record
  <2> QED
    BY <1>10, <2>1 DEF Record, DiskRefuses, Keep, wallet
<1>11. ASSUME NEW c \in Calls, StoreTmp(c) PROVE TypeOK'
  BY <1>11 DEF StoreTmp, DiskRefuses, wallet
<1>12. ASSUME NEW c \in Calls, SwapTmp(c) PROVE TypeOK'
  BY <1>12, CostIsNat DEF SwapTmp, DiskRefuses, wallet
<1>13. ASSUME NEW q \in Questions, Expire(q) PROVE TypeOK'
  BY <1>13 DEF Expire, wallet, history
<1>14. ASSUME ClearCache PROVE TypeOK'
  BY <1>14 DEF ClearCache, wallet, history
<1>15. ASSUME NextDay PROVE TypeOK'
  BY <1>15, ClientsAssumption DEF NextDay, wallet, files, history, Days, ClientsAssumption
<1>16. CASE UNCHANGED vars
  BY <1>16 DEF vars, wallet, files, history
<1> QED
  BY <1>1, <1>2, <1>3, <1>4, <1>5, <1>6, <1>7, <1>8, <1>9, <1>10, <1>11,
     <1>12, <1>13, <1>14, <1>15, <1>16 DEF Next, CallStep

-----------------------------------------------------------------------------
\* Who lost the race has lost it for good, and a reason stays one.
LEMMA ReasonsStay ==
  ASSUME NEW c \in Calls, kind' = kind, clashed \subseteq clashed',
         broken \subseteq broken', unread \subseteq unread',
         \A d \in Calls : pc[d] = "returned" => pc'[d] = "returned"
  PROVE  /\ LostTheRace(c) => LostTheRace(c)'
         /\ Excused(c) => Excused(c)'
<1>1. LostTheRace(c) => LostTheRace(c)'
  BY DEF LostTheRace
<1> QED
  BY <1>1 DEF Excused

\* The steps that touch neither the temporary files nor a 200: a call moves,
\* but not to the point where it renames its file, and only one without a
\* 200, or with a reason, is given up.
LEMMA CallMoves ==
  ASSUME IInv, NEW c \in Calls, NEW step \in Steps \ {"swap"}, Goto(c, step),
         pc[c] # "returned", kind' = kind,
         \/ UNCHANGED tmp
         \/ \A d \in Calls : pc[d] = "swap" => (d \in tmp => d \in tmp'),
         UNCHANGED clashed, broken \subseteq broken', unread \subseteq unread',
         \/ UNCHANGED fate
         \/ pc[c] = "cleared" /\ step = "sent" /\ \A d \in Calls \ {c} : fate'[d] = fate[d],
         step \in Unsent => pc[c] \in Unsent,
         step \in {"counted", "store"} => kind = "router",
         step = "raised" => fate[c] # "ok" \/ Excused(c)'
  PROVE  Rest
<1>1. pc' = [pc EXCEPT ![c] = step] /\ pc \in [Calls -> Steps]
  BY DEF Goto, IInv, TypeOK
<1>2. FateInv' /\ KindInv'
  BY <1>1 DEF IInv, FateInv, KindInv
<1>r. \A d \in Calls : pc[d] = "returned" => pc'[d] = "returned"
  BY <1>1
<1>3. FileInv'
  <2> SUFFICES ASSUME NEW d \in Calls, pc'[d] = "swap" PROVE d \in tmp' \/ LostTheRace(d)'
    BY DEF FileInv
  <2>1. d \in tmp \/ LostTheRace(d)
    BY <1>1 DEF IInv, FileInv
  <2>2. LostTheRace(d) => LostTheRace(d)'
    BY <1>r, ReasonsStay
  <2> QED
    BY <1>1, <2>1, <2>2
<1>4. PairInv'
  BY <1>1 DEF IInv, PairInv
<1>5. PaidAnswerIsReturned'
  <2> SUFFICES ASSUME NEW d \in Calls, fate'[d] = "ok", pc'[d] = "raised"
               PROVE  Excused(d)'
    BY DEF PaidAnswerIsReturned, Excused
  <2>1. CASE d = c
    BY <1>1, <2>1
  <2>2. CASE d # c
    <3>1. fate[d] = "ok" /\ pc[d] = "raised"
      BY <1>1, <2>2
    <3>2. Excused(d)
      BY <3>1 DEF IInv, PaidAnswerIsReturned, Excused
    <3> QED
      BY <3>2, <1>r, ReasonsStay
  <2> QED
    BY <2>1, <2>2
<1> QED
  BY <1>2, <1>3, <1>4, <1>5 DEF Rest

\* A disk that refuses a file of a router's call gives it up with a reason.
LEMMA RefusalStep ==
  ASSUME IInv, NEW c \in Calls, DiskRefuses(c), pc[c] \in {"counted", "store", "swap"},
         \A d \in Calls : d \in tmp => d \in tmp',
         UNCHANGED <<kind, fate, clashed, unread>>
  PROVE  Rest
<1>1. Goto(c, "raised") /\ broken' = broken \cup {c}
  BY DEF DiskRefuses
<1>2. kind = "router"
  BY DEF IInv, KindInv
<1>3. Excused(c)'
  BY <1>1, <1>2 DEF Excused
<1> QED
  BY <1>1, <1>3, CallMoves

\* _cache_put writes the file: calls with the question that are about to
\* rename it are in each other's way from here on.
LEMMA StoreTmpStep ==
  ASSUME IInv, NEW c \in Calls, StoreTmp(c)
  PROVE  Rest
<1> DEFINE others == {d \in Calls \ {c} : pc[d] = "swap" /\ Question[d] = Question[c]}
           written == tmp \cup {d \in Calls : SameFile(c, d)}
<1>1. pc[c] = "store" /\ UNCHANGED <<kind, fate, unread>>
  BY DEF StoreTmp, wallet
<1>2. CASE DiskRefuses(c) /\ tmp' \in {tmp, written} /\ UNCHANGED clashed
  BY <1>1, <1>2, RefusalStep
<1>3. CASE /\ Goto(c, "swap") /\ tmp' = written
           /\ clashed' = clashed \cup (IF others = {} THEN {} ELSE others \cup {c})
           /\ UNCHANGED broken
  <2>1. /\ pc' = [pc EXCEPT ![c] = "swap"] /\ pc \in [Calls -> Steps]
        /\ tmp \subseteq tmp' /\ c \in tmp' /\ clashed \subseteq clashed'
    BY <1>3 DEF Goto, IInv, TypeOK, SameFile
  <2>2. FateInv' /\ KindInv'
    BY <1>1, <2>1 DEF IInv, FateInv, KindInv
  <2>3. \A d \in Calls : pc[d] = "returned" => pc'[d] = "returned"
    BY <1>1, <2>1
  <2>4. FileInv'
    <3> SUFFICES ASSUME NEW d \in Calls, pc'[d] = "swap" PROVE d \in tmp' \/ LostTheRace(d)'
      BY DEF FileInv
    <3>1. d = c \/ d \in tmp \/ LostTheRace(d)
      BY <2>1 DEF IInv, FileInv
    <3>2. LostTheRace(d) => LostTheRace(d)'
      BY <1>1, <1>3, <2>1, <2>3, ReasonsStay
    <3> QED
      BY <2>1, <3>1, <3>2
  <2>5. PairInv'
    <3> SUFFICES ASSUME NEW a \in Calls, NEW b \in Calls, a # b,
                        pc'[a] = "swap", pc'[b] = "swap", Question[a] = Question[b]
                 PROVE  a \in clashed'
      BY DEF PairInv
    <3>1. CASE a = c
      <4>1. b \in others
        BY <2>1, <3>1
      <4> QED
        BY <3>1, <4>1, <1>3
    <3>2. CASE b = c
      <4>1. a \in others
        BY <2>1, <3>2
      <4> QED
        BY <3>2, <4>1, <1>3
    <3>3. CASE a # c /\ b # c
      BY <1>3, <2>1, <3>3 DEF IInv, PairInv
    <3> QED
      BY <3>1, <3>2, <3>3
  <2>6. PaidAnswerIsReturned'
    <3> SUFFICES ASSUME NEW d \in Calls, fate'[d] = "ok", pc'[d] = "raised"
                 PROVE  Excused(d)'
      BY DEF PaidAnswerIsReturned, Excused
    <3>1. Excused(d)
      BY <1>1, <2>1 DEF IInv, PaidAnswerIsReturned, Excused
    <3> QED
      BY <1>1, <1>3, <2>1, <2>3, <3>1, ReasonsStay
  <2> QED
    BY <2>2, <2>4, <2>5, <2>6 DEF Rest
<1> QED
  BY <1>2, <1>3 DEF StoreTmp

\* The rename takes the file away from every call with the question: they
\* have lost the race to this one, and whoever misses its file had lost it.
LEMMA SwapTmpStep ==
  ASSUME IInv, NEW c \in Calls, SwapTmp(c)
  PROVE  Rest
<1>1. /\ pc[c] = "swap" /\ pc \in [Calls -> Steps]
      /\ UNCHANGED <<kind, fate, clashed, unread>>
  BY DEF SwapTmp, IInv, TypeOK, wallet
<1>k. kind = "router"
  BY <1>1 DEF IInv, KindInv
<1>2. CASE /\ c \in tmp /\ Goto(c, "returned")
           /\ tmp' = tmp \ {d \in Calls : SameFile(c, d)} /\ UNCHANGED broken
  <2>1. /\ pc' = [pc EXCEPT ![c] = "returned"]
        /\ tmp' = tmp \ {d \in Calls : Question[c] = Question[d]}
    BY <1>2 DEF Goto, SameFile
  <2>2. \A d \in Calls : pc[d] = "returned" => pc'[d] = "returned"
    BY <1>1, <2>1
  <2>3. FileInv'
    <3> SUFFICES ASSUME NEW a \in Calls, pc'[a] = "swap"
                 PROVE  a \in tmp' \/ LostTheRace(a)'
      BY DEF FileInv
    <3>1. a # c /\ pc[a] = "swap"
      BY <1>1, <2>1
    <3>2. CASE Question[a] = Question[c]
      <4>1. a \in clashed /\ c \in clashed
        BY <1>1, <3>1, <3>2 DEF IInv, PairInv
      <4> QED
        BY <1>1, <2>1, <3>1, <3>2, <4>1 DEF LostTheRace
    <3>3. CASE Question[a] # Question[c]
      <4>1. a \in tmp \/ LostTheRace(a)
        BY <3>1 DEF IInv, FileInv
      <4>2. LostTheRace(a) => LostTheRace(a)'
        BY <1>1, <1>2, <2>2, ReasonsStay
      <4> QED
        BY <2>1, <3>3, <4>1, <4>2
    <3> QED
      BY <3>2, <3>3
  <2>4. FateInv' /\ KindInv' /\ PairInv'
    BY <1>1, <2>1 DEF IInv, FateInv, KindInv, PairInv
  <2>5. PaidAnswerIsReturned'
    <3> SUFFICES ASSUME NEW d \in Calls, fate'[d] = "ok", pc'[d] = "raised"
                 PROVE  Excused(d)'
      BY DEF PaidAnswerIsReturned, Excused
    <3>1. Excused(d)
      BY <1>1, <2>1 DEF IInv, PaidAnswerIsReturned, Excused
    <3> QED
      BY <1>1, <1>2, <2>2, <3>1, ReasonsStay
  <2> QED
    BY <2>3, <2>4, <2>5 DEF Rest
<1>3. CASE c \notin tmp /\ Goto(c, "raised") /\ UNCHANGED <<tmp, broken>>
  <2>1. LostTheRace(c)
    BY <1>1, <1>3 DEF IInv, FileInv
  <2>2. pc' = [pc EXCEPT ![c] = "raised"]
    BY <1>3 DEF Goto
  <2>3. LostTheRace(c)'
    BY <1>1, <1>3, <2>1, <2>2, ReasonsStay
  <2>4. Excused(c)'
    BY <1>1, <1>k, <2>3 DEF Excused
  <2> QED
    BY <1>1, <1>3, <2>4, CallMoves
<1>4. CASE DiskRefuses(c) /\ UNCHANGED tmp
  BY <1>1, <1>4, RefusalStep
<1> QED
  BY <1>2, <1>3, <1>4 DEF SwapTmp

\* What the tollbooth and the CI step make of a 200 keeps the invariant.
LEMMA AnswerStep ==
  ASSUME IInv, NEW c \in Calls, Delivered(c)
  PROVE  Rest
<1>1. /\ pc[c] = "sent" /\ kind \in {"router", "tollbooth", "ci"}
      /\ UNCHANGED <<kind, fate, tmp, clashed>>
  BY ClientsAssumption DEF ClientsAssumption, Delivered, IInv, TypeOK, wallet, files
<1>2. PICK step \in {"counted", "returned", "raised"} : Goto(c, step)
  BY DEF Delivered, DiskRefuses
<1>3. broken \subseteq broken' /\ unread \subseteq unread'
  BY DEF Delivered, DiskRefuses
<1>4. pc' = [pc EXCEPT ![c] = step] /\ pc \in [Calls -> Steps]
  BY <1>2 DEF Goto, IInv, TypeOK
<1>5. step = "counted" => kind = "router"
  BY <1>4 DEF Delivered, DiskRefuses, Goto
<1>6. step = "raised" => Excused(c)'
  BY <1>1, <1>4 DEF Delivered, DiskRefuses, Goto, Excused
<1> QED
  BY <1>1, <1>2, <1>3, <1>5, <1>6, CallMoves

\* Every step keeps the invariant.
LEMMA StepInv == IInv /\ [Next]_vars => IInv'
<1> SUFFICES ASSUME IInv, [Next]_vars PROVE IInv'
  OBVIOUS
<1>0. TypeOK'
  BY TypeStep DEF IInv
<1>t. pc \in [Calls -> Steps] /\ fate \in [Calls -> Fates]
  BY DEF IInv, TypeOK
<1>1. ASSUME NEW c \in Calls, Look(c) PROVE Rest
  BY <1>1, CallMoves DEF Look, Goto, Keep, wallet, files, history
<1>2. ASSUME NEW c \in Calls, DropStale(c) PROVE Rest
  BY <1>2, CallMoves DEF DropStale, wallet, history
<1>3. ASSUME NEW c \in Calls, Ask(c) PROVE Rest
  <2>1. fate[c] # "ok"
    BY <1>3 DEF Ask, IInv, FateInv
  <2> QED
    BY <1>3, <2>1, CallMoves DEF Ask, Keep, wallet, files, history
<1>4. ASSUME NEW c \in Calls, CheckCaps(c) \/ Reserve(c) \/ ClearForCI(c) PROVE Rest
  <2>1. pc[c] = "quoted" /\ fate[c] # "ok"
    BY <1>4 DEF CheckCaps, Reserve, ClearForCI, IInv, FateInv
  <2>2. PICK step \in {"cleared", "raised"} : Goto(c, step)
    BY <1>4 DEF CheckCaps, Reserve, ClearForCI
  <2>3. UNCHANGED <<kind, fate, tmp, clashed, broken, unread>>
    BY <1>4 DEF CheckCaps, Reserve, ClearForCI, wallet, files, history
  <2> QED
    BY <2>1, <2>2, <2>3, CallMoves
<1>5. ASSUME NEW c \in Calls, SignFails(c) PROVE Rest
  <2>1. fate[c] # "ok"
    BY <1>5 DEF SignFails, IInv, FateInv
  <2> QED
    BY <1>5, <2>1, CallMoves DEF SignFails, wallet, files, history
<1>6. ASSUME NEW c \in Calls, Send(c) PROVE Rest
  <2>1. /\ Goto(c, "sent") /\ pc[c] = "cleared"
        /\ UNCHANGED <<kind, tmp, clashed, broken, unread>>
        /\ \A d \in Calls \ {c} : fate'[d] = fate[d]
    BY <1>6, <1>t DEF Send, files
  <2> QED
    BY <2>1, CallMoves
<1>7. ASSUME NEW c \in Calls, Delivered(c) PROVE Rest
  BY <1>7, AnswerStep
<1>8. ASSUME NEW c \in Calls, NotDelivered(c) PROVE Rest
  BY <1>8, CallMoves DEF NotDelivered, wallet, files, history
<1>9. ASSUME NEW c \in Calls, Record(c) PROVE Rest
  <2>1. pc[c] = "counted" /\ UNCHANGED <<kind, fate, tmp, clashed, unread>>
    BY <1>9 DEF Record, wallet
  <2>2. CASE Goto(c, Keep(c)) /\ UNCHANGED broken
    BY <2>1, <2>2, CallMoves DEF Keep
  <2>3. CASE DiskRefuses(c)
    BY <2>1, <2>3, RefusalStep
  <2> QED
    BY <1>9, <2>2, <2>3 DEF Record
<1>10. ASSUME NEW c \in Calls, StoreTmp(c) PROVE Rest
  BY <1>10, StoreTmpStep
<1>11. ASSUME NEW c \in Calls, SwapTmp(c) PROVE Rest
  BY <1>11, SwapTmpStep
<1>12. ASSUME \/ \E q \in Questions : Expire(q)
              \/ ClearCache \/ NextDay \/ UNCHANGED vars
       PROVE  Rest
  <2>1. UNCHANGED <<kind, pc, fate, tmp, clashed, broken, unread>>
    BY <1>12 DEF Expire, ClearCache, NextDay, vars, wallet, files, history
  <2> QED
    BY <2>1 DEF IInv, Rest, FateInv, KindInv, FileInv, PairInv, PaidAnswerIsReturned,
       LostTheRace
<1> QED
  BY <1>0, <1>1, <1>2, <1>3, <1>4, <1>5, <1>6, <1>7, <1>8, <1>9, <1>10,
     <1>11, <1>12 DEF IInv, Rest, Next, CallStep

-----------------------------------------------------------------------------
\* The invariant holds in every reachable state.
THEOREM Invariance == Spec => []IInv
<1> QED
  BY InitInv, StepInv, PTL DEF Spec

\* Every reachable state of the clients has the declared types.
THEOREM TypeCorrect == Spec => []TypeOK
<1>1. IInv => TypeOK
  BY DEF IInv
<1> QED
  BY <1>1, Invariance, PTL

\* A call that paid and received its answer hands it to the agent, but for the
\* losses the property names: a file the disk refuses, the race of two calls of
\* a router for one cache file, which leaves the answer with the other, and a
\* 200 the tollbooth or the CI step cannot read (Router.call, _cache_put,
\* _unwrap, x402_pay.main).
THEOREM AnswerIsReturned == Spec => []PaidAnswerIsReturned
<1>1. IInv => PaidAnswerIsReturned
  BY DEF IInv
<1> QED
  BY <1>1, Invariance, PTL

-----------------------------------------------------------------------------
(* The caps *)

\* The cents of a set of calls.
Costs(S) == Total([c \in Calls |-> IF c \in S THEN Cost(c) ELSE 0])

\* Calls whose spending the checks of the others can see.
Seen == Calls \ uncounted

\* Of those, the ones a process paid for, and the ones paid for on a day.
PaidBy(p) == {c \in Seen : Process[c] = p /\ moved[c] > 0}
PaidOn(d) == {c \in Seen : moved[c] = d}

\* A payment that was sent has a fate, no money leaves without one, and none
\* leaves tomorrow.
WalletInv ==
  \A c \in Calls : /\ fate[c] = "none" => moved[c] = 0 /\ pc[c] # "sent"
                   /\ moved[c] <= day

\* Of the router's calls that are seen, those that paid were delivered, and
\* at most one is between its check and its row in the ledger.
AloneInv ==
  kind = "router" =>
    /\ \A c \in Seen : moved[c] > 0 => fate[c] = "ok"
    /\ \A c, e \in Seen : InFlight(c) /\ InFlight(e) => c = e

\* What a process paid is on its account, but for a call that has just been
\* answered.  It is within its budget, and so it is with a call that is cleared.
OnAccount(p) ==
  \/ Costs(PaidBy(p)) <= spent[p]
  \/ \E c \in PaidBy(p) : pc[c] = "sent" /\ Costs(PaidBy(p)) <= spent[p] + Cost(c)
InBudget(p) ==
  /\ Costs(PaidBy(p)) <= Budget
  /\ \A c \in Seen :
       pc[c] = "cleared" /\ Process[c] = p => Costs(PaidBy(p)) + Cost(c) <= Budget
BudgetInv == kind = "router" => \A p \in Processes : OnAccount(p) /\ InBudget(p)

\* The same of the ledger, whose row of today is written after the account,
\* and of the daily cap; a cleared call fits on any day to come.
InLedger(d) ==
  \/ Costs(PaidOn(d)) <= ledger[d]
  \/ \E c \in PaidOn(d) : /\ pc[c] \in {"sent", "counted"}
                          /\ Costs(PaidOn(d)) <= ledger[d] + Cost(c)
UnderCap(d) ==
  /\ Costs(PaidOn(d)) <= DailyCap
  /\ d >= day =>
       \A c \in Seen : pc[c] = "cleared" => Costs(PaidOn(d)) + Cost(c) <= DailyCap
DailyInv == kind = "router" => InLedger(day) /\ \A d \in Days : UnderCap(d)

\* Calls whose price is off the tollbooth's budget.
Held(p) == {c \in Calls : /\ Process[c] = p
                          /\ pc[c] \in {"cleared", "sent"} \/ fate[c] \in {"ok", "failed", "lost"}}

\* The tollbooth's account is exactly what its calls hold.
BoothInv ==
  kind = "tollbooth" =>
    \A p \in Processes : spent[p] = Costs(Held(p)) /\ spent[p] <= Budget

CapsInv == WalletInv /\ AloneInv /\ BudgetInv /\ DailyInv /\ BoothInv

\* The pile of cents of one call.
LEMMA PileSize ==
  ASSUME NEW d, NEW n \in Nat
  PROVE  IsFiniteSet({d} \X (1 .. n)) /\ Cardinality({d} \X (1 .. n)) = n
<1>1. IsFiniteSet(1 .. n) /\ Cardinality(1 .. n) = n
  BY FS_Interval
<1>2. IsFiniteSet({d}) /\ Cardinality({d}) = 1
  BY FS_Singleton
<1>3. /\ IsFiniteSet({d} \X (1 .. n))
      /\ Cardinality({d} \X (1 .. n)) = Cardinality({d}) * Cardinality(1 .. n)
  BY <1>1, <1>2, FS_Product
<1> QED
  BY <1>1, <1>2, <1>3

\* Finitely many calls have finitely many cents.
LEMMA CentsAreFinite ==
  ASSUME NEW D, IsFiniteSet(D), NEW f \in [D -> Nat]
  PROVE  IsFiniteSet(UNION {{d} \X (1 .. f[d]) : d \in D})
<1> DEFINE pile == [d \in D |-> {d} \X (1 .. f[d])]
           piles == {pile[d] : d \in D}
<1>1. pile \in Surjection(D, piles)
  BY DEF Surjection
<1>2. \A d \in D : IsFiniteSet(pile[d])
  BY PileSize
<1>3. piles = {{d} \X (1 .. f[d]) : d \in D}
  OBVIOUS
<1> HIDE DEF pile
<1>4. IsFiniteSet(piles)
  BY <1>1, FS_Surjection
<1>5. \A T \in piles : IsFiniteSet(T)
  BY <1>2
<1> HIDE DEF piles
<1>6. IsFiniteSet(UNION piles)
  BY <1>4, <1>5, FS_UNION
<1> QED
  BY <1>3, <1>6

\* The cents of all calls but c, and those of c, make the total.
LEMMA TotalSplit ==
  ASSUME NEW D, IsFiniteSet(D), NEW c \in D, NEW f \in [D -> Nat]
  PROVE  LET rest == UNION {{d} \X (1 .. f[d]) : d \in D \ {c}}
         IN  /\ Cardinality(rest) \in Nat
             /\ Total(f) = Cardinality(rest) + f[c]
<1> DEFINE rest == UNION {{d} \X (1 .. f[d]) : d \in D \ {c}}
           pile == {c} \X (1 .. f[c])
<1>1. f[c] \in Nat /\ IsFiniteSet(pile) /\ Cardinality(pile) = f[c]
  BY PileSize
<1>2. IsFiniteSet(rest)
  <2>1. IsFiniteSet(UNION {{d} \X (1 .. f[d]) : d \in D})
    BY CentsAreFinite
  <2>2. rest \in SUBSET UNION {{d} \X (1 .. f[d]) : d \in D}
    OBVIOUS
  <2> HIDE DEF rest
  <2> QED
    BY <2>1, <2>2, FS_Subset
<1>3. rest \cap pile = {}
  OBVIOUS
<1>4. UNION {{d} \X (1 .. f[d]) : d \in DOMAIN f} = rest \cup pile
  OBVIOUS
<1>5. Total(f) = Cardinality(rest \cup pile)
  BY <1>4 DEF Total
<1> HIDE DEF rest, pile
<1>6. Cardinality(rest) \in Nat
  BY <1>2, FS_CardinalityType
<1>7. Cardinality(rest \cup pile) = Cardinality(rest) + Cardinality(pile) - Cardinality({})
  BY <1>1, <1>2, <1>3, FS_Union
<1>8. Total(f) = Cardinality(rest) + f[c]
  BY <1>1, <1>5, <1>6, <1>7, FS_EmptySet
<1> QED
  BY <1>6, <1>8 DEF rest

\* A total is a number of cents, and changes as the one summand that changes.
LEMMA TotalMoves ==
  ASSUME NEW D, IsFiniteSet(D), NEW c \in D, NEW f \in [D -> Nat], NEW g \in [D -> Nat],
         \A d \in D \ {c} : g[d] = f[d]
  PROVE  /\ Total(f) \in Nat /\ Total(g) \in Nat
         /\ Total(g) = Total(f) - f[c] + g[c]
<1>1. UNION {{d} \X (1 .. f[d]) : d \in D \ {c}} = UNION {{d} \X (1 .. g[d]) : d \in D \ {c}}
  OBVIOUS
<1> DEFINE rest == UNION {{d} \X (1 .. f[d]) : d \in D \ {c}}
<1>2. /\ Cardinality(rest) \in Nat
      /\ Total(f) = Cardinality(rest) + f[c]
  BY TotalSplit
<1>3. Total(g) = Cardinality(rest) + g[c]
  BY <1>1, TotalSplit
<1>4. f[c] \in Nat /\ g[c] \in Nat
  OBVIOUS
<1> HIDE DEF rest
<1> QED
  BY <1>2, <1>3, <1>4

\* Nothing adds up to nothing.
LEMMA TotalOfNothing ==
  ASSUME NEW D PROVE Total([d \in D |-> 0]) = 0
<1>1. UNION {{d} \X (1 .. 0) : d \in D} = {}
  OBVIOUS
<1>2. Total([d \in D |-> 0]) = Cardinality(UNION {{d} \X (1 .. 0) : d \in D})
  BY DEF Total
<1> QED
  BY <1>1, <1>2, FS_EmptySet

\* Larger summands have the larger total.
LEMMA TotalGrows ==
  ASSUME NEW D, IsFiniteSet(D), NEW f \in [D -> Nat], NEW g \in [D -> Nat],
         \A d \in D : f[d] <= g[d]
  PROVE  Total(f) \in Nat /\ Total(g) \in Nat /\ Total(f) <= Total(g)
<1> DEFINE F == UNION {{d} \X (1 .. f[d]) : d \in D}
           G == UNION {{d} \X (1 .. g[d]) : d \in D}
<1>1. F \in SUBSET G
  OBVIOUS
<1>2. IsFiniteSet(G)
  BY CentsAreFinite
<1>3. Total(f) = Cardinality(F) /\ Total(g) = Cardinality(G)
  BY DEF Total
<1> HIDE DEF F, G
<1> QED
  BY <1>1, <1>2, <1>3, FS_Subset, FS_CardinalityType

\* A set of calls costs a number of cents, and two sets that differ in one
\* call differ by its price.
LEMMA CostsDiffer ==
  ASSUME NEW A \in SUBSET Calls, NEW B \in SUBSET Calls, NEW c \in Calls,
         A \ {c} = B \ {c}
  PROVE  /\ Costs(A) \in Nat /\ Costs(B) \in Nat
         /\ Costs(B) = Costs(A) - (IF c \in A THEN Cost(c) ELSE 0)
                                + (IF c \in B THEN Cost(c) ELSE 0)
<1> DEFINE f == [e \in Calls |-> IF e \in A THEN Cost(e) ELSE 0]
           g == [e \in Calls |-> IF e \in B THEN Cost(e) ELSE 0]
<1>1. f \in [Calls -> Nat] /\ g \in [Calls -> Nat]
  BY CostIsNat
<1>2. \A e \in Calls \ {c} : g[e] = f[e]
  OBVIOUS
<1>3. Costs(A) = Total(f) /\ Costs(B) = Total(g)
  BY DEF Costs
<1>4. f[c] = (IF c \in A THEN Cost(c) ELSE 0) /\ g[c] = (IF c \in B THEN Cost(c) ELSE 0)
  OBVIOUS
<1>5. IsFiniteSet(Calls)
  BY ClientsAssumption DEF ClientsAssumption
<1> HIDE DEF f, g
<1>6. Total(f) \in Nat /\ Total(g) \in Nat /\ Total(g) = Total(f) - f[c] + g[c]
  BY <1>1, <1>2, <1>5, TotalMoves
<1> QED
  BY <1>3, <1>4, <1>6

\* One call more or less makes the difference of its price.
LEMMA CostsMove ==
  ASSUME NEW A \in SUBSET Calls, NEW c \in Calls
  PROVE  /\ Costs(A) \in Nat
         /\ c \notin A => Costs(A \cup {c}) = Costs(A) + Cost(c)
         /\ c \in A => Costs(A \ {c}) = Costs(A) - Cost(c)
<1>1. Cost(c) \in Nat
  BY CostIsNat
<1>2. Costs(A) \in Nat
  BY CostsDiffer
<1>3. ASSUME c \notin A PROVE Costs(A \cup {c}) = Costs(A) + Cost(c)
  <2> DEFINE B == A \cup {c}
  <2>1. B \in SUBSET Calls /\ A \ {c} = B \ {c} /\ c \in B
    OBVIOUS
  <2> HIDE DEF B
  <2>2. Costs(B) = Costs(A) - (IF c \in A THEN Cost(c) ELSE 0)
                            + (IF c \in B THEN Cost(c) ELSE 0)
    BY <2>1, CostsDiffer
  <2>3. Costs(B) = Costs(A) + Cost(c)
    BY <1>1, <1>2, <1>3, <2>1, <2>2
  <2> QED
    BY <2>3 DEF B
<1>4. ASSUME c \in A PROVE Costs(A \ {c}) = Costs(A) - Cost(c)
  <2> DEFINE B == A \ {c}
  <2>1. B \in SUBSET Calls /\ A \ {c} = B \ {c} /\ c \notin B
    OBVIOUS
  <2> HIDE DEF B
  <2>2. Costs(B) = Costs(A) - (IF c \in A THEN Cost(c) ELSE 0)
                            + (IF c \in B THEN Cost(c) ELSE 0)
    BY <2>1, CostsDiffer
  <2>3. Costs(B) = Costs(A) - Cost(c)
    BY <1>1, <1>2, <1>4, <2>1, <2>2
  <2> QED
    BY <2>3 DEF B
<1> QED
  BY <1>2, <1>3, <1>4

\* A part of a set costs no more than the set.
LEMMA CostsGrow ==
  ASSUME NEW B \in SUBSET Calls, NEW A \in SUBSET B
  PROVE  Costs(A) \in Nat /\ Costs(B) \in Nat /\ Costs(A) <= Costs(B)
<1> DEFINE cents(S) == [e \in Calls |-> IF e \in S THEN Cost(e) ELSE 0]
<1>1. cents(A) \in [Calls -> Nat] /\ cents(B) \in [Calls -> Nat]
  BY CostIsNat
<1>2. \A e \in Calls : cents(A)[e] <= cents(B)[e]
  BY CostIsNat
<1>3. Costs(A) = Total(cents(A)) /\ Costs(B) = Total(cents(B))
  BY DEF Costs
<1>4. IsFiniteSet(Calls)
  BY ClientsAssumption DEF ClientsAssumption
<1> HIDE DEF cents
<1> QED
  BY <1>1, <1>2, <1>3, <1>4, TotalGrows

\* No calls cost nothing.
LEMMA CostsOfNone == Costs({}) = 0
<1>1. [e \in Calls |-> IF e \in {} THEN Cost(e) ELSE 0] = [e \in Calls |-> 0]
  OBVIOUS
<1> QED
  BY <1>1, TotalOfNothing DEF Costs

\* The sets the invariant adds up hold calls only.
LEMMA SetsOfCalls ==
  ASSUME TypeOK, NEW x
  PROVE  /\ PaidBy(x) \in SUBSET Calls /\ PaidOn(x) \in SUBSET Calls
         /\ Held(x) \in SUBSET Calls /\ Seen \in SUBSET Calls
BY DEF PaidBy, PaidOn, Held, Seen, TypeOK

\* At the start nobody has paid and nothing is held.
LEMMA CapsInit == Init => CapsInv
<1> SUFFICES ASSUME Init PROVE CapsInv
  OBVIOUS
<1>1. /\ pc = [c \in Calls |-> "start"] /\ fate = [c \in Calls |-> "none"]
      /\ moved = [c \in Calls |-> 0] /\ spent = [p \in Processes |-> 0]
      /\ ledger = [d \in Days |-> 0] /\ day = 1
  BY DEF Init
<1>2. \A p \in Processes : PaidBy(p) = {} /\ Held(p) = {}
  BY <1>1 DEF PaidBy, Held, Seen
<1>3. \A d \in Days : PaidOn(d) = {}
  BY <1>1 DEF PaidOn, Seen, Days
<1>4. Costs({}) = 0
  BY CostsOfNone
<1>5. Budget \in Nat /\ DailyCap \in Nat /\ 1 \in Days
  BY ClientsAssumption DEF ClientsAssumption, Days
<1>6. WalletInv /\ AloneInv
  BY <1>1, <1>5 DEF WalletInv, AloneInv, InFlight, Seen
<1>7. BudgetInv
  BY <1>1, <1>2, <1>4, <1>5 DEF BudgetInv, OnAccount, InBudget, Seen
<1>8. DailyInv
  BY <1>1, <1>3, <1>4, <1>5 DEF DailyInv, InLedger, UnderCap, Seen
<1>9. BoothInv
  BY <1>1, <1>2, <1>4, <1>5 DEF BoothInv
<1> QED
  BY <1>6, <1>7, <1>8, <1>9 DEF CapsInv

\* A step after which no more calls of p have paid, none is newly cleared,
\* and the account is not lower.
LEMMA BudgetKept ==
  ASSUME TypeOK, NEW p \in Processes, OnAccount(p), InBudget(p),
         PaidBy(p)' \in SUBSET PaidBy(p), spent'[p] \in Nat, spent'[p] >= spent[p],
         \A c \in PaidBy(p) : pc[c] = "sent" => c \in PaidBy(p)' /\ pc'[c] = "sent",
         \A c \in Seen' : pc'[c] = "cleared" => c \in Seen /\ pc[c] = "cleared"
  PROVE  OnAccount(p)' /\ InBudget(p)'
<1>1. /\ Costs(PaidBy(p)') \in Nat /\ Costs(PaidBy(p)) \in Nat
      /\ Costs(PaidBy(p)') <= Costs(PaidBy(p))
  BY SetsOfCalls, CostsGrow
<1>2. \A c \in Calls : Cost(c) \in Nat
  BY CostIsNat
<1>3. spent[p] \in Nat /\ Budget \in Nat
  BY ClientsAssumption DEF TypeOK, ClientsAssumption
<1>4. PaidBy(p) \in SUBSET Calls /\ Seen \in SUBSET Calls
  BY SetsOfCalls
<1>5. OnAccount(p)'
  BY <1>1, <1>2, <1>3, <1>4 DEF OnAccount
<1>6. InBudget(p)'
  BY <1>1, <1>2, <1>3, <1>4 DEF InBudget
<1> QED
  BY <1>5, <1>6

\* A step after which no more calls have paid on day d and none is newly
\* cleared.
LEMMA CapKept ==
  ASSUME TypeOK, NEW d \in Days, UnderCap(d), PaidOn(d)' \in SUBSET PaidOn(d),
         day' \in Nat, day' >= day,
         \A c \in Seen' : pc'[c] = "cleared" => c \in Seen /\ pc[c] = "cleared"
  PROVE  UnderCap(d)'
<1>1. /\ Costs(PaidOn(d)') \in Nat /\ Costs(PaidOn(d)) \in Nat
      /\ Costs(PaidOn(d)') <= Costs(PaidOn(d))
  BY SetsOfCalls, CostsGrow
<1>2. \A c \in Calls : Cost(c) \in Nat
  BY CostIsNat
<1>3. DailyCap \in Nat /\ day \in Nat /\ d \in Nat
  BY ClientsAssumption DEF TypeOK, ClientsAssumption, Days
<1>4. PaidOn(d) \in SUBSET Calls /\ Seen \in SUBSET Calls
  BY SetsOfCalls
<1> QED
  BY <1>1, <1>2, <1>3, <1>4 DEF UnderCap

\* A step of the same day after which no more calls have paid on it, those
\* whose row is to come stay so, and the ledger is not lower.
LEMMA LedgerKept ==
  ASSUME TypeOK, InLedger(day), day' = day,
         PaidOn(day)' \in SUBSET PaidOn(day),
         ledger'[day] \in Nat, ledger'[day] >= ledger[day],
         \A c \in PaidOn(day) : pc[c] \in {"sent", "counted"} =>
            c \in PaidOn(day)' /\ pc'[c] \in {"sent", "counted"}
  PROVE  InLedger(day)'
<1>1. /\ Costs(PaidOn(day)') \in Nat /\ Costs(PaidOn(day)) \in Nat
      /\ Costs(PaidOn(day)') <= Costs(PaidOn(day))
  BY SetsOfCalls, CostsGrow
<1>2. \A c \in Calls : Cost(c) \in Nat
  BY CostIsNat
<1>3. ledger[day] \in Nat
  BY DEF TypeOK
<1>4. PaidOn(day) \in SUBSET Calls
  BY SetsOfCalls
<1> QED
  BY <1>1, <1>2, <1>3, <1>4 DEF InLedger

\* Money leaves only with a payment that is sent, on the day it is sent.
LEMMA WalletStep == IInv /\ WalletInv /\ [Next]_vars => WalletInv'
<1> SUFFICES ASSUME IInv, WalletInv, [Next]_vars PROVE WalletInv'
  OBVIOUS
<1>1. /\ fate \in [Calls -> Fates] /\ moved \in [Calls -> Nat] /\ pc \in [Calls -> Steps]
      /\ \A c \in Calls : moved[c] <= day
      /\ day \in Nat
  BY ClientsAssumption DEF IInv, TypeOK, WalletInv, Days, ClientsAssumption
<1>2. ASSUME NEW c \in Calls, Send(c) PROVE WalletInv'
  <2>1. /\ \A e \in Calls \ {c} : fate'[e] = fate[e] /\ moved'[e] = moved[e]
        /\ fate'[c] # "none" /\ moved'[c] \in {0, day} /\ day' = day
        /\ \A e \in Calls \ {c} : pc'[e] = pc[e]
    BY <1>1, <1>2 DEF Send, Goto
  <2> QED
    BY <1>1, <2>1 DEF WalletInv
<1>3. CASE NextDay
  BY <1>1, <1>3 DEF NextDay, wallet, WalletInv
<1> DEFINE Idle == UNCHANGED <<wallet, day>> /\ \A e \in Calls : pc'[e] = "sent" => pc[e] = "sent"
<1>4. CASE Idle
  BY <1>4 DEF wallet, WalletInv
<1>5. ASSUME NEW c \in Calls, CallStep(c), ~Send(c) PROVE Idle
  <2>1. UNCHANGED <<wallet, day>>
    BY <1>5 DEF CallStep, Look, DropStale, Ask, CheckCaps, Reserve, ClearForCI, SignFails,
       Delivered, NotDelivered, Record, StoreTmp, SwapTmp, files
  <2>2. PICK step \in Steps \ {"sent"} : Goto(c, step)
    BY <1>5 DEF CallStep, Look, DropStale, Ask, CheckCaps, Reserve, ClearForCI, SignFails,
       Delivered, NotDelivered, Record, StoreTmp, SwapTmp, Keep, DiskRefuses
  <2> QED
    BY <1>1, <2>1, <2>2 DEF Goto
<1>6. (\E q \in Questions : Expire(q)) \/ ClearCache \/ UNCHANGED vars => Idle
  BY DEF Expire, ClearCache, vars, wallet
<1> QED
  BY <1>2, <1>3, <1>4, <1>5, <1>6 DEF Next

RouterInv == AloneInv /\ BudgetInv /\ DailyInv

\* A router's step that moves no money and settles no account: a call stays
\* where it is, or is not in flight afterwards, and then it had not paid.
LEMMA LeaveStep ==
  ASSUME TypeOK, TypeOK', WalletInv, RouterInv, kind = "router",
         UNCHANGED <<kind, fate, moved, uncounted, day, spent, ledger>>,
         \A c \in Calls :
            \/ pc'[c] = pc[c]
            \/ /\ ~InFlight(c)'
               /\ InFlight(c) => c \notin Seen \/ moved[c] = 0
  PROVE  RouterInv'
<1>1. /\ Seen' = Seen
      /\ \A p \in Processes : PaidBy(p)' = PaidBy(p)
      /\ \A d \in Days : PaidOn(d)' = PaidOn(d)
  BY DEF Seen, PaidBy, PaidOn
<1>2. day \in Days /\ day > 0 /\ Seen \in SUBSET Calls
  BY DEF TypeOK, Days, Seen
<1>3. \A c \in Seen : pc'[c] = "cleared" => pc[c] = "cleared"
  BY <1>2 DEF InFlight
<1>4. AloneInv'
  BY <1>1, <1>2 DEF RouterInv, AloneInv, InFlight
<1>5. BudgetInv'
  <2> SUFFICES ASSUME NEW p \in Processes PROVE OnAccount(p)' /\ InBudget(p)'
    BY DEF BudgetInv
  <2>1. OnAccount(p) /\ InBudget(p) /\ spent[p] \in Nat
    BY DEF RouterInv, BudgetInv, TypeOK
  <2>2. \A c \in PaidBy(p) : pc[c] = "sent" => pc'[c] = "sent"
    BY DEF PaidBy, Seen, InFlight
  <2> QED
    BY <1>1, <1>3, <2>1, <2>2, BudgetKept
<1>6. InLedger(day)'
  <2>1. InLedger(day) /\ ledger[day] \in Nat
    BY DEF RouterInv, DailyInv, TypeOK
  <2>2. \A c \in PaidOn(day) : pc[c] \in {"sent", "counted"} => pc'[c] \in {"sent", "counted"}
    BY <1>2 DEF PaidOn, Seen, InFlight
  <2> QED
    BY <1>1, <1>2, <2>1, <2>2, LedgerKept
<1>7. ASSUME NEW d \in Days PROVE UnderCap(d)'
  <2>1. UnderCap(d) /\ day \in Nat
    BY DEF RouterInv, DailyInv, TypeOK, Days
  <2> QED
    BY <1>1, <1>3, <2>1, CapKept
<1> QED
  BY <1>4, <1>5, <1>6, <1>7 DEF RouterInv, DailyInv

\* Midnight: nothing has been paid on the new day.
LEMMA NextDayStep ==
  ASSUME TypeOK, TypeOK', WalletInv, RouterInv, kind = "router", NextDay
  PROVE  RouterInv'
<1>1. /\ Seen' = Seen
      /\ \A p \in Processes : PaidBy(p)' = PaidBy(p)
      /\ \A d \in Days : PaidOn(d)' = PaidOn(d)
      /\ UNCHANGED <<kind, pc, fate, moved, uncounted, spent, ledger>>
      /\ day' = day + 1
  BY DEF Seen, PaidBy, PaidOn, NextDay, wallet, files, history
<1>2. /\ day \in Nat /\ day > 0 /\ day' \in Days /\ ledger[day'] \in Nat
      /\ Seen \in SUBSET Calls
  BY DEF TypeOK, Days, Seen
<1>3. AloneInv'
  BY <1>1 DEF RouterInv, AloneInv, InFlight
<1>4. BudgetInv'
  BY <1>1 DEF RouterInv, BudgetInv, OnAccount, InBudget
<1>5. PaidOn(day)' = {}
  <2>1. \A c \in Calls : moved[c] \in Nat /\ moved[c] <= day
    BY DEF WalletInv, TypeOK, Days
  <2> QED
    BY <1>1, <1>2, <2>1 DEF PaidOn, Seen
<1>6. InLedger(day)'
  BY <1>1, <1>2, <1>5, CostsOfNone, SMTT(30) DEF InLedger
<1>7. ASSUME NEW d \in Days PROVE UnderCap(d)'
  BY <1>1, <1>2, CapKept DEF RouterInv, DailyInv
<1> QED
  BY <1>3, <1>4, <1>6, <1>7 DEF RouterInv, DailyInv

\* Router.call compares its caps with its accounts: they show all that the
\* seen calls paid when no other call is in flight, and a call that passes
\* while another is is not seen from then on.
LEMMA CheckCapsStep ==
  ASSUME IInv, TypeOK', WalletInv, RouterInv, NEW c \in Calls, CheckCaps(c)
  PROVE  RouterInv'
<1>1. /\ kind = "router" /\ pc[c] = "quoted"
      /\ UNCHANGED <<kind, fate, moved, spent, ledger, day>>
      /\ uncounted' = uncounted \cup {d \in {c} : \E e \in Calls \ {c} : InFlight(e)}
  BY DEF CheckCaps, wallet, files
<1>2. /\ pc \in [Calls -> Steps] /\ day \in Nat /\ day > 0
      /\ spent \in [Processes -> Nat] /\ ledger \in [Days -> Nat]
      /\ moved \in [Calls -> Nat] /\ Days \subseteq Nat /\ day \in Days
  BY DEF IInv, TypeOK, Days
<1>3. /\ \A e \in Calls \ {c} : pc'[e] = pc[e]
      /\ pc'[c] \in {"cleared", "raised"}
      /\ pc'[c] = "cleared" => CapsAllow(c)
  BY <1>2 DEF CheckCaps, Goto
<1>4. moved[c] = 0
  BY <1>1 DEF IInv, FateInv, WalletInv
<1>5. /\ Seen' \in SUBSET Seen /\ Seen \in SUBSET Calls /\ Seen \ {c} = Seen' \ {c}
      /\ c \in Seen' => \A e \in Calls \ {c} : ~InFlight(e)
  BY <1>1 DEF Seen
<1>6. \A p \in Processes : PaidBy(p)' = PaidBy(p) /\ c \notin PaidBy(p)
  BY <1>1, <1>4, <1>5 DEF PaidBy
<1>7. \A d \in Days : PaidOn(d)' = PaidOn(d) /\ c \notin PaidOn(d)
  BY <1>1, <1>4, <1>5 DEF PaidOn, Days
<1>8. AloneInv'
  BY <1>1, <1>3, <1>5 DEF RouterInv, AloneInv, InFlight
<1>9. /\ \A e \in Calls : Cost(e) \in Nat
      /\ \A x : Costs(PaidBy(x)) \in Nat /\ Costs(PaidOn(x)) \in Nat
      /\ Budget \in Nat /\ DailyCap \in Nat /\ Process[c] \in Processes
  BY CostIsNat, SetsOfCalls, CostsGrow, ClientsAssumption DEF ClientsAssumption, IInv
<1>10. ASSUME NEW p \in Processes PROVE OnAccount(p)' /\ InBudget(p)'
  <2>1. OnAccount(p) /\ InBudget(p) /\ PaidBy(p) \in SUBSET Seen
    BY <1>1 DEF RouterInv, BudgetInv, PaidBy
  <2>2. OnAccount(p)'
    BY <1>1, <1>3, <1>5, <1>6, <2>1 DEF OnAccount
  <2>3. ASSUME c \in Seen', pc'[c] = "cleared", Process[c] = p
        PROVE  Costs(PaidBy(p)) + Cost(c) <= Budget
    <3>1. spent[p] + Cost(c) <= Budget
      BY <1>3, <2>3 DEF CapsAllow
    <3>2. Costs(PaidBy(p)) <= spent[p]
      BY <1>5, <1>6, <2>1, <2>3 DEF OnAccount, InFlight
    <3> QED
      BY <1>2, <1>9, <3>1, <3>2
  <2>4. InBudget(p)'
    BY <1>3, <1>5, <1>6, <2>1, <2>3 DEF InBudget
  <2> QED
    BY <2>2, <2>4
<1>11. InLedger(day)'
  <2>1. InLedger(day) /\ PaidOn(day) \in SUBSET Seen
    BY <1>1 DEF RouterInv, DailyInv, PaidOn
  <2> QED
    BY <1>1, <1>2, <1>3, <1>5, <1>7, <2>1 DEF InLedger
<1>12. ASSUME NEW d \in Days PROVE UnderCap(d)'
  <2>1. UnderCap(d) /\ InLedger(day) /\ PaidOn(d) \in SUBSET Seen
    BY <1>1 DEF RouterInv, DailyInv, PaidOn
  <2>2. ASSUME c \in Seen', pc'[c] = "cleared", d >= day
        PROVE  Costs(PaidOn(d)) + Cost(c) <= DailyCap
    <3>1. ledger[day] + Cost(c) <= DailyCap /\ ledger[day] \in Nat
      BY <1>2, <1>3, <2>2 DEF CapsAllow
    <3>2. CASE d = day
      <4>1. Costs(PaidOn(d)) <= ledger[day]
        BY <1>5, <1>7, <2>1, <2>2, <3>2 DEF InLedger, InFlight, PaidOn
      <4> QED
        BY <1>9, <3>1, <4>1
    <3>3. CASE d > day
      <4>1. PaidOn(d) = {}
        BY <1>2, <1>5, <3>3 DEF PaidOn, WalletInv
      <4>2. Costs(PaidOn(d)) = 0
        BY <4>1, CostsOfNone
      <4> QED
        BY <1>9, <3>1, <4>2
    <3> QED
      BY <1>2, <2>2, <3>2, <3>3
  <2>3. UnderCap(d)'
    BY <1>1, <1>3, <1>5, <1>7, <2>1, <2>2 DEF UnderCap
  <2> QED
    BY <2>3
<1> QED
  BY <1>1, <1>8, <1>10, <1>11, <1>12 DEF RouterInv, BudgetInv, DailyInv

\* The payment is sent.  A seen call that pays for a 200 adds its price to
\* what its process and the day paid, and it was the only one in flight; any
\* other call changes neither, or is not seen any more.
LEMMA SendStep ==
  ASSUME IInv, TypeOK', WalletInv, RouterInv, NEW c \in Calls, kind = "router", Send(c)
  PROVE  RouterInv'
<1>1. PICK f \in Fates \ {"none"}, paid \in BOOLEAN :
        /\ fate' = [fate EXCEPT ![c] = f]
        /\ moved' = [moved EXCEPT ![c] = IF paid THEN day ELSE 0]
        /\ uncounted' = IF kind = "router" /\ paid /\ f # "ok"
                        THEN uncounted \cup {c} ELSE uncounted
  BY DEF Send
<1>2. /\ pc[c] = "cleared" /\ pc' = [pc EXCEPT ![c] = "sent"]
      /\ UNCHANGED <<kind, spent, ledger, day>>
  BY DEF Send, Goto, files
<1>3. /\ pc \in [Calls -> Steps] /\ day \in Nat /\ day > 0 /\ day \in Days
      /\ spent \in [Processes -> Nat] /\ ledger \in [Days -> Nat]
      /\ moved \in [Calls -> Nat] /\ Days \subseteq Nat /\ fate \in [Calls -> Fates]
  BY DEF IInv, TypeOK, Days
<1>4. moved[c] = 0
  BY <1>2 DEF IInv, FateInv, WalletInv
<1>5. /\ Seen' \in SUBSET Seen /\ Seen \in SUBSET Calls /\ Seen \ {c} = Seen' \ {c}
      /\ c \in Seen' <=> c \in Seen /\ (paid => f = "ok")
  BY <1>1 DEF Seen
<1>6. AloneInv'
  BY <1>1, <1>2, <1>3, <1>5 DEF RouterInv, AloneInv, InFlight
<1>7. \A e \in Seen' : pc'[e] = "cleared" => e \in Seen /\ pc[e] = "cleared"
  BY <1>2, <1>3, <1>5
<1>8. CASE c \notin Seen \/ ~paid \/ f # "ok"
  <2>1. \A p \in Processes : PaidBy(p)' = PaidBy(p)
    BY <1>1, <1>3, <1>4, <1>5, <1>8 DEF PaidBy
  <2>2. \A d \in Days : PaidOn(d)' = PaidOn(d)
    BY <1>1, <1>3, <1>4, <1>5, <1>8 DEF PaidOn, Days
  <2>3. ASSUME NEW p \in Processes PROVE OnAccount(p)' /\ InBudget(p)'
    <3>1. \A e \in PaidBy(p) : pc[e] = "sent" => pc'[e] = "sent"
      BY <1>2, <1>3, <1>5 DEF PaidBy
    <3> QED
      BY <1>2, <1>3, <1>7, <2>1, <3>1, BudgetKept DEF RouterInv, BudgetInv, IInv
  <2>4. InLedger(day)'
    <3>1. \A e \in PaidOn(day) : pc[e] \in {"sent", "counted"} => pc'[e] \in {"sent", "counted"}
      BY <1>2, <1>3, <1>5 DEF PaidOn
    <3> QED
      BY <1>2, <1>3, <2>2, <3>1, LedgerKept DEF RouterInv, DailyInv, IInv
  <2>5. \A d \in Days : UnderCap(d)'
    BY <1>2, <1>3, <1>7, <2>2, CapKept DEF RouterInv, DailyInv, IInv
  <2> QED
    BY <1>2, <1>6, <2>3, <2>4, <2>5 DEF RouterInv, BudgetInv, DailyInv
<1>9. CASE c \in Seen /\ paid /\ f = "ok"
  <2>1. Seen' = Seen /\ moved'[c] = day /\ \A e \in Calls \ {c} : moved'[e] = moved[e]
    BY <1>1, <1>3, <1>5, <1>9
  <2>2. /\ PaidBy(Process[c])' = PaidBy(Process[c]) \cup {c} /\ c \notin PaidBy(Process[c])
        /\ \A p \in Processes \ {Process[c]} : PaidBy(p)' = PaidBy(p)
    BY <1>3, <1>4, <1>5, <1>9, <2>1 DEF PaidBy
  <2>3. /\ PaidOn(day)' = PaidOn(day) \cup {c} /\ c \notin PaidOn(day)
        /\ \A d \in Days \ {day} : PaidOn(d)' = PaidOn(d)
    <3>1. PaidOn(day)' = {e \in Seen' : moved'[e] = day}
      BY <1>2 DEF PaidOn
    <3>2. PaidOn(day)' = PaidOn(day) \cup {c} /\ c \notin PaidOn(day)
      BY <1>3, <1>4, <1>5, <1>9, <2>1, <3>1 DEF PaidOn
    <3>3. \A d \in Days \ {day} : PaidOn(d)' = PaidOn(d)
      BY <1>3, <1>4, <1>5, <1>9, <2>1 DEF PaidOn, Days
    <3> QED
      BY <3>2, <3>3
  <2>4. \A e \in Seen \ {c} : pc[e] \notin {"cleared", "sent", "counted"} /\ pc'[e] = pc[e]
    BY <1>2, <1>3, <1>5, <1>9 DEF RouterInv, AloneInv, InFlight
  <2>5. /\ Cost(c) \in Nat /\ Process[c] \in Processes /\ pc'[c] = "sent"
        /\ Budget \in Nat /\ DailyCap \in Nat
        /\ spent[Process[c]] \in Nat /\ ledger[day] \in Nat
    BY <1>2, <1>3, CostIsNat, ClientsAssumption DEF ClientsAssumption
  <2>6. /\ Costs(PaidBy(Process[c])) \in Nat
        /\ Costs(PaidBy(Process[c]) \cup {c}) = Costs(PaidBy(Process[c])) + Cost(c)
    BY <2>2, SetsOfCalls, CostsMove DEF IInv
  <2>7. /\ Costs(PaidOn(day)) \in Nat
        /\ Costs(PaidOn(day) \cup {c}) = Costs(PaidOn(day)) + Cost(c)
    BY <2>3, SetsOfCalls, CostsMove DEF IInv
  <2>8. OnAccount(Process[c])' /\ InBudget(Process[c])'
    <3>1. OnAccount(Process[c]) /\ InBudget(Process[c])
      BY <2>5 DEF RouterInv, BudgetInv
    <3>2. Costs(PaidBy(Process[c])) <= spent[Process[c]]
      BY <2>2, <2>4, <3>1 DEF OnAccount, PaidBy
    <3>3. OnAccount(Process[c])'
      <4> DEFINE p == Process[c]
      <4>1. PaidBy(p)' = PaidBy(p) \cup {c} /\ spent'[p] = spent[p]
        BY <1>2, <2>2
      <4>2. Costs(PaidBy(p)') = Costs(PaidBy(p)) + Cost(c)
        BY <2>6, <4>1
      <4>3. Costs(PaidBy(p)') <= spent'[p] + Cost(c)
        BY <2>5, <2>6, <3>2, <4>1, <4>2
      <4> QED
        BY <2>5, <4>1, <4>3 DEF OnAccount
    <3>4. Costs(PaidBy(Process[c])) + Cost(c) <= Budget
      BY <1>2, <1>9, <3>1 DEF InBudget
    <3>5. InBudget(Process[c])'
      BY <1>7, <2>1, <2>2, <2>4, <2>5, <2>6, <3>4 DEF InBudget
    <3> QED
      BY <3>3, <3>5
  <2>9. ASSUME NEW p \in Processes \ {Process[c]} PROVE OnAccount(p)' /\ InBudget(p)'
    <3>1. \A e \in PaidBy(p) : pc[e] = "sent" => pc'[e] = "sent"
      BY <1>2, <1>3, <1>5 DEF PaidBy
    <3> QED
      BY <1>2, <1>3, <1>7, <2>2, <3>1, BudgetKept DEF RouterInv, BudgetInv, IInv
  <2>10. InLedger(day)'
    <3>1. InLedger(day)
      BY DEF RouterInv, DailyInv
    <3>2. Costs(PaidOn(day)) <= ledger[day]
      BY <2>3, <2>4, <3>1 DEF InLedger, PaidOn
    <3> QED
      BY <1>2, <2>3, <2>5, <2>7, <3>2 DEF InLedger
  <2>11. UnderCap(day)'
    <3>1. UnderCap(day)
      BY <1>3 DEF RouterInv, DailyInv
    <3>2. Costs(PaidOn(day)) + Cost(c) <= DailyCap
      BY <1>2, <1>3, <1>9, <3>1 DEF UnderCap
    <3> QED
      BY <1>2, <1>7, <2>1, <2>3, <2>4, <2>5, <2>7, <3>2 DEF UnderCap
  <2>12. \A d \in Days \ {day} : UnderCap(d)'
    BY <1>2, <1>3, <1>7, <2>3, CapKept DEF RouterInv, DailyInv, IInv
  <2> QED
    BY <1>2, <1>6, <2>8, <2>9, <2>10, <2>11, <2>12 DEF RouterInv, BudgetInv, DailyInv
<1> QED
  BY <1>8, <1>9

\* The price of a 200 goes to the account of the process, which may have
\* lacked it until now.
LEMMA DeliveredStep ==
  ASSUME IInv, TypeOK', WalletInv, RouterInv, NEW c \in Calls, kind = "router", Delivered(c)
  PROVE  RouterInv'
<1>1. /\ pc[c] = "sent" /\ pc' = [pc EXCEPT ![c] = "counted"]
      /\ spent' = [spent EXCEPT ![Process[c]] = @ + Cost(c)]
      /\ UNCHANGED <<kind, fate, moved, uncounted, ledger, day>>
  BY DEF Delivered, Goto, wallet, files, history
<1>2. /\ pc \in [Calls -> Steps] /\ spent \in [Processes -> Nat] /\ ledger \in [Days -> Nat]
      /\ day \in Days /\ Days \subseteq Nat
      /\ Cost(c) \in Nat /\ Process[c] \in Processes
  BY CostIsNat DEF IInv, TypeOK, Days
<1>3. /\ Seen' = Seen /\ Seen \in SUBSET Calls
      /\ \A p \in Processes : PaidBy(p)' = PaidBy(p)
      /\ \A d \in Days : PaidOn(d)' = PaidOn(d)
  BY <1>1 DEF Seen, PaidBy, PaidOn
<1>4. AloneInv'
  BY <1>1, <1>2, <1>3 DEF RouterInv, AloneInv, InFlight
<1>5. \A e \in Seen' : pc'[e] = "cleared" => e \in Seen /\ pc[e] = "cleared"
  BY <1>1, <1>2, <1>3
<1>6. ASSUME NEW p \in Processes PROVE OnAccount(p)' /\ InBudget(p)'
  <2>1. OnAccount(p) /\ InBudget(p) /\ PaidBy(p) \in SUBSET Seen
    BY DEF RouterInv, BudgetInv, PaidBy
  <2>2. spent'[p] \in Nat /\ spent'[p] >= spent[p]
    BY <1>1, <1>2
  <2>3. CASE c \notin PaidBy(p)
    <3>1. \A e \in PaidBy(p) : pc[e] = "sent" => pc'[e] = "sent"
      BY <1>1, <1>2, <1>3, <2>1, <2>3
    <3> QED
      BY <1>3, <1>5, <2>1, <2>2, <3>1, BudgetKept DEF IInv
  <2>4. CASE c \in PaidBy(p)
    <3>1. p = Process[c] /\ spent'[p] = spent[p] + Cost(c) /\ c \in Seen
      BY <1>1, <1>2, <2>4 DEF PaidBy
    <3>2. \A e \in PaidBy(p) : pc[e] = "sent" => e = c
      BY <1>1, <2>1, <3>1 DEF RouterInv, AloneInv, InFlight
    <3>3. Costs(PaidBy(p)) \in Nat
      BY SetsOfCalls, CostsGrow DEF IInv
    <3>4. Costs(PaidBy(p)) <= spent[p] + Cost(c)
      BY <1>2, <2>1, <3>2, <3>3 DEF OnAccount
    <3>5. OnAccount(p)'
      BY <1>3, <3>1, <3>4 DEF OnAccount
    <3>6. InBudget(p)'
      BY <1>3, <1>5, <2>1 DEF InBudget
    <3> QED
      BY <3>5, <3>6
  <2> QED
    BY <2>3, <2>4
<1>7. InLedger(day)'
  <2>1. InLedger(day) /\ ledger[day] \in Nat
    BY <1>2 DEF RouterInv, DailyInv
  <2>2. \A e \in PaidOn(day) : pc[e] \in {"sent", "counted"} => pc'[e] \in {"sent", "counted"}
    BY <1>1, <1>2, <1>3 DEF PaidOn
  <2> QED
    BY <1>1, <1>2, <1>3, <2>1, <2>2, LedgerKept DEF IInv
<1>8. \A d \in Days : UnderCap(d)'
  BY <1>1, <1>2, <1>3, <1>5, CapKept DEF RouterInv, DailyInv, IInv
<1> QED
  BY <1>1, <1>4, <1>6, <1>7, <1>8 DEF RouterInv, BudgetInv, DailyInv

\* The row of the purchase goes to the ledger, which may have lacked it until
\* now; a call whose row cannot be written is not seen any more.
LEMMA RecordStep ==
  ASSUME IInv, TypeOK', WalletInv, RouterInv, NEW c \in Calls, kind = "router", Record(c)
  PROVE  RouterInv'
<1>1. /\ pc[c] = "counted" /\ UNCHANGED <<kind, fate, moved, spent, day>>
      /\ \/ ledger' = [ledger EXCEPT ![day] = @ + Cost(c)] /\ UNCHANGED uncounted
         \/ ledger' = ledger /\ uncounted' = uncounted \cup {c}
  BY DEF Record, wallet
<1>2. /\ pc \in [Calls -> Steps] /\ spent \in [Processes -> Nat] /\ ledger \in [Days -> Nat]
      /\ day \in Days /\ Days \subseteq Nat
      /\ Cost(c) \in Nat /\ Process[c] \in Processes
  BY CostIsNat DEF IInv, TypeOK, Days
<1>3. /\ pc'[c] \in {"store", "returned", "raised"}
      /\ \A e \in Calls \ {c} : pc'[e] = pc[e]
  BY <1>2 DEF Record, DiskRefuses, Goto, Keep
<1>4. /\ Seen' \in SUBSET Seen /\ Seen \in SUBSET Calls /\ Seen \ {c} = Seen' \ {c}
      /\ \A p \in Processes : PaidBy(p)' \in SUBSET PaidBy(p) /\ PaidBy(p) \ {c} = PaidBy(p)' \ {c}
      /\ \A d \in Days : PaidOn(d)' \in SUBSET PaidOn(d) /\ PaidOn(d) \ {c} = PaidOn(d)' \ {c}
  BY <1>1 DEF Seen, PaidBy, PaidOn
<1>5. AloneInv'
  BY <1>1, <1>3, <1>4 DEF RouterInv, AloneInv, InFlight
<1>6. \A e \in Seen' : pc'[e] = "cleared" => e \in Seen /\ pc[e] = "cleared"
  BY <1>3, <1>4
<1>7. ASSUME NEW p \in Processes PROVE OnAccount(p)' /\ InBudget(p)'
  <2>1. \A e \in PaidBy(p) : pc[e] = "sent" => e \in PaidBy(p)' /\ pc'[e] = "sent"
    BY <1>1, <1>3, <1>4 DEF PaidBy
  <2> QED
    BY <1>1, <1>2, <1>4, <1>6, <2>1, BudgetKept DEF RouterInv, BudgetInv, IInv
<1>8. \A d \in Days : UnderCap(d)'
  BY <1>1, <1>2, <1>4, <1>6, CapKept DEF RouterInv, DailyInv, IInv
<1>9. InLedger(day)'
  <2>1. InLedger(day) /\ PaidOn(day) \in SUBSET Seen /\ ledger[day] \in Nat
    BY <1>2 DEF RouterInv, DailyInv, PaidOn
  <2>2. ledger'[day] \in Nat /\ ledger'[day] >= ledger[day]
    BY <1>1, <1>2
  <2>3. CASE c \notin PaidOn(day)
    <3>1. \A e \in PaidOn(day) : pc[e] \in {"sent", "counted"} =>
             e \in PaidOn(day)' /\ pc'[e] \in {"sent", "counted"}
      BY <1>1, <1>2, <1>3, <1>4, <2>1, <2>3
    <3> QED
      BY <1>1, <1>2, <1>4, <2>1, <2>2, <3>1, LedgerKept DEF IInv
  <2>4. CASE c \in PaidOn(day)
    <3>1. \A e \in PaidOn(day) : pc[e] \in {"sent", "counted"} => e = c
      BY <1>1, <2>1, <2>4 DEF RouterInv, AloneInv, InFlight
    <3>2. /\ Costs(PaidOn(day)) \in Nat
          /\ Costs(PaidOn(day) \ {c}) = Costs(PaidOn(day)) - Cost(c)
      BY <2>4, SetsOfCalls, CostsMove DEF IInv
    <3>3. Costs(PaidOn(day)) <= ledger[day] + Cost(c)
      BY <1>2, <2>1, <3>1, <3>2 DEF InLedger
    <3>4. CASE ledger' = [ledger EXCEPT ![day] = @ + Cost(c)] /\ UNCHANGED uncounted
      <4>1. PaidOn(day)' = PaidOn(day)
        BY <1>1, <3>4 DEF PaidOn, Seen
      <4>2. ledger'[day] = ledger[day] + Cost(c)
        BY <1>2, <3>4
      <4> QED
        BY <1>1, <3>3, <4>1, <4>2 DEF InLedger
    <3>5. CASE ledger' = ledger /\ uncounted' = uncounted \cup {c}
      <4>1. PaidOn(day)' = PaidOn(day) \ {c}
        BY <1>1, <3>5 DEF PaidOn, Seen
      <4>2. Costs(PaidOn(day) \ {c}) <= ledger[day]
        BY <1>2, <2>1, <3>2, <3>3
      <4> QED
        BY <1>1, <3>5, <4>1, <4>2 DEF InLedger
    <3> QED
      BY <1>1, <3>4, <3>5
  <2> QED
    BY <2>3, <2>4
<1> QED
  BY <1>1, <1>5, <1>7, <1>8, <1>9 DEF RouterInv, BudgetInv, DailyInv

\* Every step of a router keeps what its caps rest on.
LEMMA RouterStep ==
  ASSUME IInv, WalletInv, RouterInv, kind = "router", [Next]_vars
  PROVE  RouterInv'
<1>1. TypeOK /\ TypeOK'
  BY StepInv DEF IInv
<1> DEFINE Same == UNCHANGED <<kind, fate, moved, uncounted, day, spent, ledger>>
<1>2. ASSUME NEW c \in Calls, \/ Look(c) \/ DropStale(c) \/ Ask(c) \/ SignFails(c)
                              \/ NotDelivered(c) \/ StoreTmp(c) \/ SwapTmp(c)
      PROVE  RouterInv'
  <2>1. Same
    BY <1>2 DEF Look, DropStale, Ask, SignFails, NotDelivered, StoreTmp, SwapTmp, GiveBack,
       wallet, files, history
  <2>2. /\ \A e \in Calls \ {c} : pc'[e] = pc[e]
        /\ pc'[c] \notin {"cleared", "sent", "counted"}
    BY <1>1, <1>2 DEF Look, DropStale, Ask, SignFails, NotDelivered, StoreTmp, SwapTmp, Goto,
       Keep, TypeOK, DiskRefuses
  <2>3. InFlight(c) => c \notin Seen \/ moved[c] = 0
    <3>1. pc[c] = "cleared" => moved[c] = 0
      BY DEF IInv, FateInv, WalletInv
    <3>2. InFlight(c) => SignFails(c) \/ NotDelivered(c)
      BY <1>2 DEF Look, DropStale, Ask, StoreTmp, SwapTmp, InFlight
    <3>3. moved[c] \in Nat
      BY <1>1 DEF TypeOK, Days
    <3> QED
      BY <3>1, <3>2, <3>3 DEF SignFails, NotDelivered, RouterInv, AloneInv
  <2> QED
    BY <1>1, <2>1, <2>2, <2>3, LeaveStep DEF InFlight
<1>3. ASSUME NEW c \in Calls, CheckCaps(c) PROVE RouterInv'
  BY <1>1, <1>3, CheckCapsStep
<1>4. ASSUME NEW c \in Calls, Send(c) PROVE RouterInv'
  BY <1>1, <1>4, SendStep
<1>5. ASSUME NEW c \in Calls, Delivered(c) PROVE RouterInv'
  BY <1>1, <1>5, DeliveredStep
<1>6. ASSUME NEW c \in Calls, Record(c) PROVE RouterInv'
  BY <1>1, <1>6, RecordStep
<1>7. CASE NextDay
  BY <1>1, <1>7, NextDayStep
<1>8. CASE (\E q \in Questions : Expire(q)) \/ ClearCache \/ UNCHANGED vars
  <2>1. Same /\ UNCHANGED pc
    BY <1>8 DEF Expire, ClearCache, vars, wallet, files, history
  <2> QED
    BY <1>1, <2>1, LeaveStep
<1>9. \A c \in Calls : ~Reserve(c) /\ ~ClearForCI(c)
  BY DEF Reserve, ClearForCI
<1> QED
  BY <1>2, <1>3, <1>4, <1>5, <1>6, <1>7, <1>8, <1>9 DEF Next, CallStep

\* The tollbooth takes a price off its budget before it signs and gives it
\* back when no payment exists or the node refused it: its account is what
\* its calls hold, and so no less than what a call gives back.
LEMMA BoothStep ==
  ASSUME IInv, WalletInv, BoothInv, kind = "tollbooth", [Next]_vars
  PROVE  BoothInv'
<1>1. TypeOK /\ TypeOK' /\ FateInv
  BY StepInv DEF IInv
<1>2. /\ pc \in [Calls -> Steps] /\ fate \in [Calls -> Fates]
      /\ spent \in [Processes -> Nat] /\ Budget \in Nat
      /\ \A c \in Calls : Cost(c) \in Nat /\ Process[c] \in Processes
      /\ \A p \in Processes : spent[p] = Costs(Held(p)) /\ spent[p] <= Budget
  BY <1>1, CostIsNat, ClientsAssumption DEF TypeOK, ClientsAssumption, BoothInv
<1>3. ASSUME NEW c \in Calls, Reserve(c), Fits(c) PROVE BoothInv'
  <2>1. /\ pc[c] = "quoted" /\ pc' = [pc EXCEPT ![c] = "cleared"] /\ UNCHANGED fate
        /\ spent' = [spent EXCEPT ![Process[c]] = @ + Cost(c)]
    BY <1>3 DEF Reserve, Goto, wallet
  <2>2. fate[c] = "none"
    BY <1>1, <2>1 DEF FateInv
  <2>3. /\ Held(Process[c])' = Held(Process[c]) \cup {c} /\ c \notin Held(Process[c])
        /\ \A p \in Processes \ {Process[c]} : Held(p)' = Held(p)
    BY <1>2, <2>1, <2>2 DEF Held
  <2>4. Costs(Held(Process[c]) \cup {c}) = Costs(Held(Process[c])) + Cost(c)
    BY <1>1, <2>3, SetsOfCalls, CostsMove
  <2>5. spent[Process[c]] + Cost(c) <= Budget
    BY <1>3 DEF Fits
  <2> QED
    BY <1>2, <2>1, <2>3, <2>4, <2>5 DEF BoothInv
<1>4. ASSUME NEW c \in Calls,
             SignFails(c) \/ (NotDelivered(c) /\ fate[c] = "refused")
      PROVE  BoothInv'
  <2>1. /\ pc[c] \in {"cleared", "sent"} /\ pc' = [pc EXCEPT ![c] = "raised"] /\ UNCHANGED fate
        /\ spent' = [spent EXCEPT ![Process[c]] = Less(@, Cost(c))]
    BY <1>4 DEF SignFails, NotDelivered, GiveBack, Goto, wallet
  <2>2. fate[c] \in {"none", "refused"}
    BY <1>1, <1>4 DEF FateInv, SignFails
  <2>3. /\ Held(Process[c])' = Held(Process[c]) \ {c} /\ c \in Held(Process[c])
        /\ \A p \in Processes \ {Process[c]} : Held(p)' = Held(p)
    BY <1>2, <2>1, <2>2 DEF Held
  <2>4. /\ Costs(Held(Process[c]) \ {c}) = Costs(Held(Process[c])) - Cost(c)
        /\ Costs(Held(Process[c]) \ {c}) \in Nat
    <3>1. Held(Process[c]) \in SUBSET Calls
      BY <1>1, SetsOfCalls
    <3>2. Held(Process[c]) \ {c} \in SUBSET Calls
      BY <3>1
    <3> QED
      BY <2>3, <3>1, <3>2, CostsMove
  <2>5. spent'[Process[c]] = Less(spent[Process[c]], Cost(c))
    BY <1>2, <2>1
  <2>6. Less(spent[Process[c]], Cost(c)) = spent[Process[c]] - Cost(c)
    BY <1>2, <2>4 DEF Less
  <2>7. spent'[Process[c]] = Costs(Held(Process[c]))' /\ spent'[Process[c]] <= Budget
    BY <1>2, <2>3, <2>4, <2>5, <2>6
  <2>8. \A p \in Processes \ {Process[c]} : spent'[p] = spent[p]
    BY <1>2, <2>1
  <2> QED
    BY <1>2, <2>3, <2>7, <2>8 DEF BoothInv
<1>5. ASSUME UNCHANGED spent, \A p \in Processes : Held(p)' = Held(p)
      PROVE  BoothInv'
  BY <1>2, <1>5 DEF BoothInv
<1>6. ASSUME NEW c \in Calls, Send(c) PROVE BoothInv'
  <2>1. /\ pc[c] = "cleared" /\ pc' = [pc EXCEPT ![c] = "sent"] /\ UNCHANGED spent
        /\ \A e \in Calls \ {c} : fate'[e] = fate[e]
    BY <1>2, <1>6 DEF Send, Goto
  <2>2. \A p \in Processes : Held(p)' = Held(p)
    BY <1>2, <2>1 DEF Held
  <2> QED
    BY <1>5, <2>1, <2>2
<1>7. ASSUME NEW c \in Calls,
             Delivered(c) \/ (NotDelivered(c) /\ fate[c] # "refused")
      PROVE  BoothInv'
  <2>1. /\ pc[c] = "sent" /\ UNCHANGED <<spent, fate>>
        /\ \A e \in Calls \ {c} : pc'[e] = pc[e]
    BY <1>2, <1>7 DEF Delivered, NotDelivered, Goto, wallet
  <2>2. fate[c] \in {"ok", "failed", "lost"}
    <3>1. fate[c] # "none"
      BY <2>1 DEF WalletInv
    <3> QED
      BY <1>2, <1>7, <3>1 DEF Delivered
  <2>3. \A p \in Processes : Held(p)' = Held(p)
    BY <1>2, <2>1, <2>2 DEF Held
  <2> QED
    BY <1>5, <2>1, <2>3
<1>8. ASSUME NEW c \in Calls,
             \/ Look(c) \/ DropStale(c) \/ Ask(c) \/ (Reserve(c) /\ ~Fits(c))
             \/ Record(c) \/ StoreTmp(c) \/ SwapTmp(c)
      PROVE  BoothInv'
  <2>1. UNCHANGED <<spent, fate>>
    BY <1>8 DEF Look, DropStale, Ask, Reserve, Record, StoreTmp, SwapTmp, wallet
  <2>2. /\ \A e \in Calls \ {c} : pc'[e] = pc[e]
        /\ pc[c] \notin {"cleared", "sent"} /\ pc'[c] \notin {"cleared", "sent"}
    BY <1>2, <1>8 DEF Look, DropStale, Ask, Reserve, Record, StoreTmp, SwapTmp, Goto, Keep, DiskRefuses
  <2>3. \A p \in Processes : Held(p)' = Held(p)
    BY <1>2, <2>1, <2>2 DEF Held
  <2> QED
    BY <1>5, <2>1, <2>3
<1>9. CASE (\E q \in Questions : Expire(q)) \/ ClearCache \/ NextDay \/ UNCHANGED vars
  <2>1. UNCHANGED <<pc, fate, spent>>
    BY <1>9 DEF Expire, ClearCache, NextDay, vars, wallet, files, history
  <2>2. \A p \in Processes : Held(p)' = Held(p)
    BY <2>1 DEF Held
  <2> QED
    BY <1>5, <2>1, <2>2
<1>10. \A c \in Calls : ~CheckCaps(c) /\ ~ClearForCI(c)
  BY DEF CheckCaps, ClearForCI
<1> QED
  BY <1>3, <1>4, <1>6, <1>7, <1>8, <1>9, <1>10 DEF Next, CallStep

\* Every step keeps the invariant of the caps.
LEMMA CapsStep == IInv /\ CapsInv /\ [Next]_vars => CapsInv'
<1> SUFFICES ASSUME IInv, CapsInv, [Next]_vars PROVE CapsInv'
  OBVIOUS
<1>1. WalletInv'
  BY WalletStep DEF CapsInv
<1>2. kind' = kind
  BY DEF Next, CallStep, Look, DropStale, Ask, CheckCaps, Reserve, ClearForCI, SignFails, Send,
     Delivered, NotDelivered, Record, StoreTmp, SwapTmp, Expire, ClearCache, NextDay, vars
<1>3. AloneInv' /\ BudgetInv' /\ DailyInv'
  <2>1. CASE kind = "router"
    BY <2>1, RouterStep DEF CapsInv, RouterInv
  <2>2. CASE kind # "router"
    BY <1>2, <2>2 DEF AloneInv, BudgetInv, DailyInv
  <2> QED
    BY <2>1, <2>2
<1>4. BoothInv'
  <2>1. CASE kind = "tollbooth"
    BY <2>1, BoothStep DEF CapsInv
  <2>2. CASE kind # "tollbooth"
    BY <1>2, <2>2 DEF BoothInv
  <2> QED
    BY <2>1, <2>2
<1> QED
  BY <1>1, <1>3, <1>4 DEF CapsInv

\* What a set of calls paid is what those of it that paid cost.
LEMMA PaidIsCosts ==
  ASSUME NEW S PROVE Paid(S) = Costs({c \in S : moved[c] > 0})
BY DEF Paid, Costs

\* The invariant implies the caps.
LEMMA CapsFollow == IInv /\ CapsInv => BuyersKeepTheirCaps
<1> SUFFICES ASSUME IInv, CapsInv PROVE BuyersKeepTheirCaps
  OBVIOUS
<1>1. TypeOK /\ Days \subseteq Nat \ {0} /\ Budget \in Nat
      /\ \A c \in Calls : moved[c] \in Nat
  BY ClientsAssumption DEF IInv, TypeOK, Days, ClientsAssumption
<1>2. RouterKeepsItsCaps
  <2> SUFFICES ASSUME kind = "router"
               PROVE  /\ \A p \in Processes : Paid({c \in Seen : Process[c] = p}) <= Budget
                      /\ \A d \in Days : Paid({c \in Seen : moved[c] = d}) <= DailyCap
    BY DEF RouterKeepsItsCaps, Seen
  <2>1. ASSUME NEW p \in Processes PROVE Paid({c \in Seen : Process[c] = p}) <= Budget
    <3>1. {c \in {e \in Seen : Process[e] = p} : moved[c] > 0} = PaidBy(p)
      BY DEF PaidBy
    <3>2. Paid({c \in Seen : Process[c] = p}) = Costs(PaidBy(p))
      BY <3>1, PaidIsCosts
    <3> QED
      BY <3>2 DEF CapsInv, BudgetInv, InBudget
  <2>2. ASSUME NEW d \in Days PROVE Paid({c \in Seen : moved[c] = d}) <= DailyCap
    <3>1. {c \in {e \in Seen : moved[e] = d} : moved[c] > 0} = PaidOn(d)
      BY <1>1 DEF PaidOn
    <3>2. Paid({c \in Seen : moved[c] = d}) = Costs(PaidOn(d))
      BY <3>1, PaidIsCosts
    <3> QED
      BY <3>2 DEF CapsInv, DailyInv, UnderCap
  <2> QED
    BY <2>1, <2>2
<1>3. BoothKeepsItsBudget
  <2> SUFFICES ASSUME kind = "tollbooth", NEW p \in Processes
               PROVE  Paid({c \in Calls : Process[c] = p /\ fate[c] # "refused"}) <= Budget
    BY DEF BoothKeepsItsBudget
  <2> DEFINE S == {c \in Calls : Process[c] = p /\ fate[c] # "refused"}
             A == {c \in S : moved[c] > 0}
  <2>1. A \in SUBSET Held(p)
    BY <1>1 DEF Held, CapsInv, WalletInv, TypeOK
  <2>2. Held(p) \in SUBSET Calls
    BY <1>1, SetsOfCalls
  <2>3. spent[p] = Costs(Held(p)) /\ spent[p] <= Budget
    BY DEF CapsInv, BoothInv
  <2>4. Paid(S) = Costs(A)
    BY PaidIsCosts
  <2> HIDE DEF A, S
  <2>5. Costs(A) \in Nat /\ Costs(Held(p)) \in Nat /\ Costs(A) <= Costs(Held(p))
    BY <2>1, <2>2, CostsGrow
  <2>6. Paid(S) <= Budget
    BY <1>1, <2>3, <2>4, <2>5
  <2> QED
    BY <2>6 DEF S
<1> QED
  BY <1>2, <1>3 DEF BuyersKeepTheirCaps

\* The buyers keep their caps in every reachable state: the router's budget
\* and daily cap for the calls its accounts can see, the tollbooth's budget
\* for all but the calls the node refused (Router.call, HubVibeTollbooth.call).
THEOREM CapsAreKept == Spec => []BuyersKeepTheirCaps
<1>1. Init => IInv /\ CapsInv
  BY InitInv, CapsInit
<1>2. IInv /\ CapsInv /\ [Next]_vars => (IInv /\ CapsInv)'
  BY StepInv, CapsStep
<1>3. IInv /\ CapsInv => BuyersKeepTheirCaps
  BY CapsFollow
<1> QED
  BY <1>1, <1>2, <1>3, PTL DEF Spec

=============================================================================
