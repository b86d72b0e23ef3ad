----------------------------- MODULE BuyerClients -----------------------------
(***************************************************************************)
(* The programs that buy from a node with their own wallet: the router     *)
(* (integrations/hubvibe_router.py), the tollbooth                         *)
(* (integrations/hubvibe_tollbooth.py) and the one-shot payer of a CI step *)
(* (scripts/x402_pay.py).  Each posts, reads the 402, signs, posts again,  *)
(* and keeps an account of what it spent.  The router compares its caps    *)
(* before it signs and adds to its account after the answer; the tollbooth *)
(* reserves first and gives back.                                          *)
(*                                                                         *)
(* A call runs on a thread of its own (the router's proxy is a threading   *)
(* server, a tollbooth is shared by a fan-out of workers).  A step is one  *)
(* exchange with the node, one stretch under the lock or one access to a   *)
(* file.  Of the node only the answer is seen here, and whether the money  *)
(* of the signed payment has left.  Amounts are whole cents.               *)
(***************************************************************************)
EXTENDS Integers, FiniteSets

CONSTANTS
  Kinds,       \* the clients to consider
  Calls,       \* calls an agent makes
  Processes,   \* processes on the buyer's machine
  Process,     \* the process of each call
  Questions,   \* distinct pairs of route and body
  Question,    \* the question of each call
  Keyed,       \* calls made with a cache key: analytical route, not bypassed
  Price,       \* the price the node quotes for each question
  PerCallCap,  \* HUBVIBE_MAX_PRICE_USD
  Budget,      \* HUBVIBE_BUDGET_USD, of one process
  DailyCap,    \* HUBVIBE_DAILY_CAP_USD, of the machine
  MaxDays      \* bound: UTC days of a behaviour

ASSUME ClientsAssumption ==
  /\ IsFiniteSet(Calls)
  /\ Kinds \subseteq {"router", "tollbooth", "ci"}
  /\ Process \in [Calls -> Processes] /\ Question \in [Calls -> Questions]
  /\ Keyed \subseteq Calls /\ Price \in [Questions -> Nat \ {0}]
  /\ PerCallCap \in Nat \ {0} /\ Budget \in Nat \ {0} /\ DailyCap \in Nat \ {0}
  /\ MaxDays \in Nat \ {0}

VARIABLES
  kind,      \* which client all the calls use
  pc,        \* where each call is
  fate,      \* how the node answered its payment
  moved,     \* the day its money left the wallet, 0 if it did not
  spent,     \* _spent_usd of each process
  ledger,    \* ledger.jsonl: cents settled on each day
  cache,     \* cached answer of each question
  tmp,       \* questions whose <key>.tmp exists
  day,       \* today
  uncounted, \* history: calls whose spending the check of another could not see
  clashed,   \* history: calls that stored an answer while another did
  broken,    \* history: calls whose disk refused a file they write
  unread     \* history: calls that could not read what a paid 200 carried

vars == <<kind, pc, fate, moved, spent, ledger, cache, tmp, day,
          uncounted, clashed, broken, unread>>
wallet  == <<fate, moved>>
files   == <<ledger, cache, tmp>>
history == <<uncounted, clashed, broken, unread>>

Days  == 1..MaxDays
Fates == {"none", "ok", "refused", "failed", "lost"}
Steps == {"start", "stale", "ask", "quoted", "cleared", "sent", "counted",
          "store", "swap", "returned", "raised"}

Init ==
  /\ kind \in Kinds
  /\ pc = [c \in Calls |-> "start"]
  /\ fate = [c \in Calls |-> "none"] /\ moved = [c \in Calls |-> 0]
  /\ spent = [p \in Processes |-> 0]
  /\ ledger = [d \in Days |-> 0]
  /\ cache = [q \in Questions |-> "none"] /\ tmp = {}
  /\ day = 1
  /\ uncounted = {} /\ clashed = {} /\ broken = {} /\ unread = {}

-----------------------------------------------------------------------------
Cost(c) == Price[Question[c]]

Goto(c, step) == pc' = [pc EXCEPT ![c] = step]

\* The answer goes to the cache of a router that made a key for it.
Keep(c) == IF kind = "router" /\ c \in Keyed THEN "store" ELSE "returned"

\* Has passed the caps and not yet added what it spends.
InFlight(c) == pc[c] \in {"cleared", "sent", "counted"}

\* Reserved, or added: cents taken off or put back on an account, never
\* below zero.
Less(cents, back) == IF cents > back THEN cents - back ELSE 0

\* Look for a cached answer.  Only a router has a cache, and only for keys.
Look(c) ==
  /\ pc[c] = "start"
  /\ Goto(c, IF Keep(c) # "store" \/ cache[Question[c]] = "none" THEN "ask"
             ELSE IF cache[Question[c]] = "fresh" THEN "returned" ELSE "stale")
  /\ UNCHANGED <<kind, wallet, spent, files, day, history>>

\* Remove the entry that was found too old, or what is in its place by now.
DropStale(c) ==
  /\ pc[c] = "stale" /\ Goto(c, "ask")
  /\ cache' = [cache EXCEPT ![Question[c]] = "none"]
  /\ UNCHANGED <<kind, wallet, spent, ledger, tmp, day, history>>

\* The first post: answered for free or on a prepaid key, a 402, or failed
\* (also: a 402 without a price, or no wallet to clear it).
Ask(c) ==
  /\ pc[c] = "ask"
  /\ \E step \in {Keep(c), "quoted", "raised"} : Goto(c, step)
  /\ UNCHANGED <<kind, wallet, spent, files, day, history>>

\* The router's three caps, compared with what is on its accounts.
CapsAllow(c) ==
  /\ Cost(c) <= PerCallCap
  /\ spent[Process[c]] + Cost(c) <= Budget
  /\ ledger[day] + Cost(c) <= DailyCap

\* The lock is of one process and guards the comparison only: calls of the
\* machine that are in flight are on no account yet.
CheckCaps(c) ==
  /\ kind = "router" /\ pc[c] = "quoted"
  /\ Goto(c, IF CapsAllow(c) THEN "cleared" ELSE "raised")
  /\ uncounted' = uncounted \cup {d \in {c} : \E e \in Calls \ {c} : InFlight(e)}
  /\ UNCHANGED <<kind, wallet, spent, files, day, clashed, broken, unread>>

\* The tollbooth takes the price off its budget before it signs.
Fits(c) == Cost(c) <= PerCallCap /\ spent[Process[c]] + Cost(c) <= Budget

Reserve(c) ==
  /\ kind = "tollbooth" /\ pc[c] = "quoted"
  /\ IF Fits(c)
     THEN Goto(c, "cleared") /\ spent' = [spent EXCEPT ![Process[c]] = @ + Cost(c)]
     ELSE Goto(c, "raised") /\ UNCHANGED spent
  /\ UNCHANGED <<kind, wallet, files, day, history>>

\* The CI step has no account: its cap is the signer's.
ClearForCI(c) ==
  /\ kind = "ci" /\ pc[c] = "quoted" /\ Goto(c, "cleared")
  /\ UNCHANGED <<kind, wallet, spent, files, day, history>>

GiveBack(c) ==
  spent' = IF kind = "tollbooth"
           THEN [spent EXCEPT ![Process[c]] = Less(@, Cost(c))] ELSE spent

\* The x402 library signs nothing above the cap it was built with.
Signable(c) == Cost(c) <= PerCallCap

\* Signing may also fail for other reasons: either way no payment exists.
SignFails(c) ==
  /\ pc[c] = "cleared" /\ Goto(c, "raised") /\ GiveBack(c)
  /\ UNCHANGED <<kind, wallet, files, day, history>>

\* Sign and post again.  Money may leave whatever the answer, if there is one:
\* a refusal of a settlement that completes later, an error after it, an
\* answer lost on its way.  Then no account of the router's will show it.
Send(c) ==
  /\ pc[c] = "cleared" /\ Signable(c) /\ Goto(c, "sent")
  /\ \E f \in Fates \ {"none"}, paid \in BOOLEAN :
       /\ fate' = [fate EXCEPT ![c] = f]
       /\ moved' = [moved EXCEPT ![c] = IF paid THEN day ELSE 0]
       /\ uncounted' = IF kind = "router" /\ paid /\ f # "ok"
                       THEN uncounted \cup {c} ELSE uncounted
  /\ UNCHANGED <<kind, spent, files, day, clashed, broken, unread>>

\* An exception on a file ends the call.
DiskRefuses(c) == Goto(c, "raised") /\ broken' = broken \cup {c}

\* The router adds the price to its account.
Counted(c) ==
  /\ Goto(c, "counted") /\ spent' = [spent EXCEPT ![Process[c]] = @ + Cost(c)]
  /\ UNCHANGED <<broken, unread>>

\* The tollbooth returns the body, or raises if it is no object.
Unwrapped(c) ==
  /\ \/ Goto(c, "returned") /\ UNCHANGED unread
     \/ Goto(c, "raised") /\ unread' = unread \cup {c}
  /\ UNCHANGED <<spent, broken>>

\* The CI step lets its library read the receipt, which may raise as well, and
\* writes response.json.
Written(c) == Unwrapped(c) \/ (DiskRefuses(c) /\ UNCHANGED <<spent, unread>>)

\* A 200 was paid for.
Delivered(c) ==
  /\ pc[c] = "sent" /\ fate[c] = "ok"
  /\ \/ kind = "router" /\ Counted(c)
     \/ kind = "tollbooth" /\ Unwrapped(c)
     \/ kind = "ci" /\ Written(c)
  /\ UNCHANGED <<kind, wallet, files, day, uncounted, clashed>>

\* Variant: every error gives the reservation back.
NotDeliveredFree(c) ==
  /\ pc[c] = "sent" /\ fate[c] # "ok" /\ Goto(c, "raised")
  /\ GiveBack(c)
  /\ UNCHANGED <<kind, wallet, files, day, history>>

\* A second 402 is taken as "never settled"; any other error, or none at all,
\* says nothing about the money, and the tollbooth keeps what it reserved.
NotDelivered(c) ==
  /\ pc[c] = "sent" /\ fate[c] # "ok" /\ Goto(c, "raised")
  /\ IF fate[c] = "refused" THEN GiveBack(c) ELSE UNCHANGED spent
  /\ UNCHANGED <<kind, wallet, files, day, history>>

\* The row of the purchase, under the day it is written on.  A disk that
\* refuses it raises out of the call.
Record(c) ==
  /\ pc[c] = "counted"
  /\ \/ /\ Goto(c, Keep(c))
        /\ ledger' = [ledger EXCEPT ![day] = @ + Cost(c)]
        /\ UNCHANGED <<uncounted, broken>>
     \/ /\ DiskRefuses(c)
        /\ uncounted' = uncounted \cup {c}
        /\ UNCHANGED ledger
  /\ UNCHANGED <<kind, wallet, spent, cache, tmp, day, clashed, unread>>

\* Variant: one temporary file for the whole cache.
SameDirectory(c, d) == TRUE

\* Two calls with one question write the same temporary file.
SameFile(c, d) == Question[c] = Question[d]

\* _cache_put writes <key>.tmp, or leaves what it could of it ...
StoreTmp(c) ==
  LET others == {d \in Calls \ {c} : pc[d] = "swap" /\ Question[d] = Question[c]}
      written == tmp \cup {d \in Calls : SameFile(c, d)}
  IN
  /\ pc[c] = "store"
  /\ \/ /\ Goto(c, "swap") /\ tmp' = written
        /\ clashed' = clashed \cup (IF others = {} THEN {} ELSE others \cup {c})
        /\ UNCHANGED broken
     \/ DiskRefuses(c) /\ tmp' \in {tmp, written} /\ UNCHANGED clashed
  /\ UNCHANGED <<kind, wallet, spent, ledger, cache, day, uncounted, unread>>

\* ... and renames it, which raises if another call renamed it first, or the
\* disk refuses.
SwapTmp(c) ==
  /\ pc[c] = "swap"
  /\ \/ /\ c \in tmp /\ Goto(c, "returned")
        /\ cache' = [cache EXCEPT ![Question[c]] = "fresh"]
        /\ tmp' = tmp \ {d \in Calls : SameFile(c, d)}
        /\ UNCHANGED broken
     \/ c \notin tmp /\ Goto(c, "raised") /\ UNCHANGED <<cache, tmp, broken>>
     \/ DiskRefuses(c) /\ UNCHANGED <<cache, tmp>>
  /\ UNCHANGED <<kind, wallet, spent, ledger, day, uncounted, clashed, unread>>

\* An entry passes HUBVIBE_CACHE_TTL.
Expire(q) ==
  /\ cache[q] = "fresh" /\ cache' = [cache EXCEPT ![q] = "stale"]
  /\ UNCHANGED <<kind, pc, wallet, spent, ledger, tmp, day, history>>

\* POST /router/cache/clear, or the cache command.
ClearCache ==
  /\ kind = "router" /\ \E q \in Questions : cache[q] # "none"
  /\ cache' = [q \in Questions |-> "none"]
  /\ UNCHANGED <<kind, pc, wallet, spent, ledger, tmp, day, history>>

\* Midnight, UTC.
NextDay ==
  /\ kind = "router" /\ day < MaxDays /\ day' = day + 1
  /\ UNCHANGED <<kind, pc, wallet, spent, files, history>>

CallStep(c) ==
  \/ Look(c) \/ DropStale(c) \/ Ask(c)
  \/ CheckCaps(c) \/ Reserve(c) \/ ClearForCI(c)
  \/ SignFails(c) \/ Send(c) \/ Delivered(c) \/ NotDelivered(c)
  \/ Record(c) \/ StoreTmp(c) \/ SwapTmp(c)

Next ==
  \/ \E c \in Calls : CallStep(c)
  \/ \E q \in Questions : Expire(q)
  \/ ClearCache \/ NextDay

Spec == Init /\ [][Next]_vars

-----------------------------------------------------------------------------
TypeOK ==
  /\ kind \in Kinds /\ pc \in [Calls -> Steps] /\ fate \in [Calls -> Fates]
  /\ moved \in [Calls -> Days \cup {0}] /\ day \in Days
  /\ spent \in [Processes -> Nat] /\ ledger \in [Days -> Nat]
  /\ cache \in [Questions -> {"none", "fresh", "stale"}]
  /\ tmp \subseteq Calls
  /\ uncounted \subseteq Calls /\ clashed \subseteq Calls
  /\ broken \subseteq Calls /\ unread \subseteq Calls

\* What a function from calls to cents adds up to: its cents, one by one.
Total(cents) == Cardinality(UNION {{c} \X (1 .. cents[c]) : c \in DOMAIN cents})

\* Cents that left the wallet for a set of calls.
Paid(S) == Total([c \in Calls |-> IF c \in S /\ moved[c] > 0 THEN Cost(c) ELSE 0])

\* The router keeps its caps as far as its accounts reach: leaving out the
\* calls that were cleared while another was in flight, and those whose money
\* left without a 200 or without a row, no process pays more than its budget
\* and the machine pays no more than the daily cap on any day.
RouterKeepsItsCaps ==
  kind = "router" =>
    LET seen == Calls \ uncounted IN
    /\ \A p \in Processes : Paid({c \in seen : Process[c] = p}) <= Budget
    /\ \A d \in Days : Paid({c \in seen : moved[c] = d}) <= DailyCap

\* The tollbooth pays no more than its budget, however many threads share it
\* and whatever answers are lost, but for a 402 whose payment settles after all.
BoothKeepsItsBudget ==
  kind = "tollbooth" =>
    \A p \in Processes :
      Paid({c \in Calls : Process[c] = p /\ fate[c] # "refused"}) <= Budget

\* Each buyer that has caps keeps them.
BuyersKeepTheirCaps == RouterKeepsItsCaps /\ BoothKeepsItsBudget

\* Another call of the router stored the answer to c's question while c did,
\* and returned it.
LostTheRace(c) ==
  \E d \in Calls \ {c} :
    {c, d} \subseteq clashed /\ Question[d] = Question[c] /\ pc[d] = "returned"

\* Who paid for an answer and received it hands it to the agent.  A call that
\* fails after its paid 200 does so for one of these reasons only: a disk that
\* refuses the ledger or the cache of a router, or the response.json of a CI
\* step; the race of two calls of a router for one cache file, which leaves the
\* answer with the other; a 200 the tollbooth or the CI step cannot read.
PaidAnswerIsReturned ==
  \A c \in Calls : fate[c] = "ok" /\ pc[c] = "raised" =>
    \/ kind = "router" /\ (c \in broken \/ LostTheRace(c))
    \/ kind = "tollbooth" /\ c \in unread
    \/ kind = "ci" /\ c \in broken \cup unread

===============================================================================
