----------------------------- MODULE Providers -----------------------------
(***************************************************************************)
(* What each provider adapter makes of the answer it gets                  *)
(* (app/workers/providers/*.py).                                           *)
(*                                                                         *)
(* An answer is an HTTP status with the sense of its body.  An adapter     *)
(* hands its value on ("ok"), or raises one of the errors that             *)
(* runtime.run_with_policy tells apart: "transient" and "invalid" are      *)
(* tried again, "permanent" and "unavailable" go to the next provider, and *)
(* "invalid_request" ends the job, because no provider would do better.    *)
(***************************************************************************)
EXTENDS Integers, Sequences

CONSTANT
  MaxHops      \* requests of a guarded fetch: the first and 5 redirects

NoAnswer == 0   \* as a status: a timeout, or a connection that broke
Statuses == {NoAnswer, 200, 400, 401, 403, 404, 429, 500, 503}

Kinds == {"ok", "transient", "permanent", "invalid", "unavailable", "invalid_request"}

Overloaded == {429, 500, 502, 503, 504}

\* The rule all adapters share; fine is what they make of a good status.
Read(a, fine) ==
  IF a.status \in Overloaded \cup {NoAnswer} THEN "transient"
  ELSE IF a.status >= 400 THEN "permanent" ELSE fine

Unless(bad, kind, otherwise) == IF bad THEN kind ELSE otherwise
NoValue(a) == a.body \in {"nothing", "garbage"}
Valued(a) == Read(a, Unless(NoValue(a), "invalid", "ok"))

\* --- Vertex -------------------------------------------------------------
\* No candidate (a safety block) or an empty text is not something to sell.
Gemini(a) == Valued(a)

\* generate_json: an answer that does not parse is a retry, not a sale.
GeminiJson(a) == IF a.body = "prose" THEN Read(a, "invalid") ELSE Gemini(a)

VertexCompletion(a) == Valued(a)

\* A model this project was never granted is not there, rather than failing.
Claude(a) ==
  IF a.status = 403 THEN "unavailable"
  ELSE Valued(a)

GroundedSearch(a) == Valued(a)

\* An answer in which no code ran is refused; code that failed is a result.
CodeExecution(a) == Read(a, Unless(a.body \in {"nothing", "garbage", "prose"}, "invalid", "ok"))

\* --- Media --------------------------------------------------------------
Imagen(a) == Valued(a)
CloudTTS(a) == Valued(a)
SpeechToText(a) == Valued(a)

\* Submitting must name an operation; a poll may find it unfinished.
VeoSubmit(a) == Valued(a)
VeoPoll(a) ==
  Read(a, CASE a.body = "unfinished" -> "pending"
            [] a.body = "error"      -> "permanent"
            [] NoValue(a)            -> "invalid"
            [] OTHER                 -> "ok")

\* --- BigQuery -----------------------------------------------------------
\* The dry run: bytes is its estimate, and one over the ceiling is the
\* caller's query to narrow.
DryRun(a, bytes, ceiling) ==
  Read(a, Unless(bytes > ceiling, "invalid_request", "ok"))

\* Variant: a job that outlives the wait reads as an empty result.
BigQueryUnfinished(a) == Read(a, "ok")

\* jobComplete: false comes with a 200, no rows and no error.
BigQuery(a) == Read(a, Unless(a.body = "unfinished", "transient", "ok"))

\* --- Public reads -------------------------------------------------------
\* Base RPC: any refusal may be another endpoint's answer; an error object is
\* the node saying that the call is wrong.
ChainRead(a) ==
  IF a.status = NoAnswer \/ a.status >= 400 THEN "transient"
  ELSE CASE a.body \in {"error", "limited"} -> "permanent"
         [] a.body = "garbage"              -> "invalid"
         [] OTHER                           -> "ok"

\* rpc_raw: an error object is the chain's own answer, unless it is a limit.
ChainRaw(a) ==
  IF a.status = NoAnswer \/ a.status >= 400 THEN "transient"
  ELSE CASE a.body = "limited" -> "transient"
         [] a.body = "garbage" -> "invalid"
         [] OTHER              -> "ok"

\* Coinbase: 404 is a product id nobody knows.
Coinbase(a) ==
  IF a.status = 404 THEN "invalid_request"
  ELSE Valued(a)

CoinbaseTicker(a) ==
  IF a.status = 404 THEN "invalid_request"
  ELSE Valued(a)

\* A search that matches nothing is a result.
Polymarket(a) == Read(a, "ok")
PolymarketBySlug(a) == Read(a, Unless(a.body = "nothing", "invalid_request", "ok"))

MapsGrounding(a) ==
  IF a.status \in {401, 403} THEN "unavailable"
  ELSE Read(a, CASE a.body \in {"error", "limited"} -> "permanent"
                 [] NoValue(a)                      -> "invalid"
                 [] OTHER                           -> "ok")

\* The target answered in some way; the skill decides if that is a product.
McpProbe(a) == IF a.status = NoAnswer THEN "transient" ELSE "ok"

\* --- Web ----------------------------------------------------------------
\* A site is the hops to its page, each one fetchable or not, and what the
\* last one answers.  Every hop is judged before it is fetched.
Reachable(hops) ==
  /\ Len(hops) <= MaxHops
  /\ \A i \in DOMAIN hops : hops[i]

\* _get_guarded: a blocked hop or a sixth redirect is the caller's url.
Guarded(hops, a) ==
  IF ~Reachable(hops) THEN "invalid_request"
  ELSE IF a.status = NoAnswer THEN "transient" ELSE "ok"

\* Every status the target answers is a completed raw fetch.
RawFetch(hops, a) == Guarded(hops, a)

HttpExtract(hops, a) ==
  IF Guarded(hops, a) # "ok" THEN Guarded(hops, a)
  ELSE Read(a, CASE a.body = "garbage" -> "permanent"
                 [] a.body = "nothing" -> "invalid"
                 [] OTHER              -> "ok")

\* Whatever goes wrong in the browser is transient, a refused hop and an
\* error page too; only the first url is judged before it opens a page.
BrowserExtract(hops, a) ==
  IF ~hops[1] THEN "invalid_request"
  ELSE IF (\E i \in DOMAIN hops : ~hops[i]) \/ a.status = NoAnswer \/ a.status >= 400
    THEN "transient"
  ELSE Unless(a.body = "nothing", "invalid", "ok")

=============================================================================
