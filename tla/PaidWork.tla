------------------------------ MODULE PaidWork ------------------------------
(***************************************************************************)
(* What the node promises whoever pays it per call, with the rails, the    *)
(* guards and the stores left out: a signed authorization buys one call in *)
(* a life of the process, its money moves only once that call's work has   *)
(* produced a result, and every call ends in one answer.  PaymentGate      *)
(* implements this.                                                        *)
(***************************************************************************)
CONSTANTS Calls, Auths, Nonceless, None

VARIABLES
  stage,    \* how far each call is
  answer,   \* what it was answered
  bought,   \* the authorization it was let in on, None on another rail
  claimed,  \* authorizations that bought a call in this life of the process
  taken,    \* authorizations whose money has moved
  doubtful  \* authorizations whose money may yet move

vars == <<stage, answer, bought, claimed, taken, doubtful>>

Init ==
  /\ stage = [c \in Calls |-> "asking"]
  /\ answer = [c \in Calls |-> "none"]
  /\ bought = [c \in Calls |-> None]
  /\ claimed = {} /\ taken = {} /\ doubtful = {}

Move(c, from, to) == stage[c] = from /\ stage' = [stage EXCEPT ![c] = to]

End(c, from, kind) ==
  Move(c, from, "answered") /\ answer' = [answer EXCEPT ![c] = kind]

Refuse(c) ==
  End(c, "asking", "refused") /\ UNCHANGED <<bought, claimed, taken, doubtful>>

Begin(c) ==
  /\ Move(c, "asking", "working")
  /\ \/ UNCHANGED <<bought, claimed>>
     \/ \E a \in Auths \ claimed :
          /\ bought' = [bought EXCEPT ![c] = a]
          /\ claimed' = claimed \cup ({a} \ Nonceless)
  /\ UNCHANGED <<answer, taken, doubtful>>

Fail(c) ==
  End(c, "working", "failed") /\ UNCHANGED <<bought, claimed, taken, doubtful>>

Produce(c) ==
  Move(c, "working", "produced")
  /\ UNCHANGED <<answer, bought, claimed, taken, doubtful>>

Collect(c) ==
  /\ Move(c, "produced", "billed")
  /\ \/ UNCHANGED <<taken, doubtful>>
     \/ /\ bought[c] \in Auths \ taken
        /\ \/ taken' = taken \cup {bought[c]} /\ doubtful' = doubtful \ {bought[c]}
           \/ doubtful' = doubtful \cup {bought[c]} /\ UNCHANGED taken
  /\ UNCHANGED <<answer, bought, claimed>>

HandOver(c) ==
  /\ \/ End(c, "billed", "delivered")
     \/ bought[c] # None /\ End(c, "billed", "withheld")
  /\ UNCHANGED <<bought, claimed, taken, doubtful>>

Resolve(a) ==
  /\ a \in doubtful /\ doubtful' = doubtful \ {a}
  /\ taken' = taken \cup {a} \/ UNCHANGED taken
  /\ UNCHANGED <<stage, answer, bought, claimed>>

Restart ==
  /\ claimed' = {}
  /\ \E lost \in SUBSET {c \in Calls : stage[c] # "answered"} :
       /\ \A c \in Calls \ lost : stage[c] \in {"asking", "answered"}
       /\ stage' = [c \in Calls |-> IF c \in lost THEN "answered" ELSE stage[c]]
       /\ answer' = [c \in Calls |-> IF c \in lost THEN "lost" ELSE answer[c]]
  /\ UNCHANGED <<bought, taken, doubtful>>

Next ==
  \/ \E c \in Calls : Refuse(c) \/ Begin(c) \/ Fail(c) \/ Produce(c)
                      \/ Collect(c) \/ HandOver(c)
  \/ \E a \in Auths : Resolve(a)
  \/ Restart

Spec == Init /\ [][Next]_vars
=============================================================================
