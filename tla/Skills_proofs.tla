---------------------------- MODULE Skills_proofs ----------------------------
(***************************************************************************)
(* Theorems about Skills, for any number of jobs, budget, number of        *)
(* attempts and sources, ceiling and target: what is sold is whole, a      *)
(* generation is asked for once, what a query may bill is bounded, a       *)
(* monitor's baseline was told to somebody, and everybody hears the same   *)
(* of the Google credentials.                                              *)
(***************************************************************************)
EXTENDS Skills, TLAPS

Texts == {"value", "nothing", "garbage", "prose", "short", "error", "limited", "unfinished"}
Works == {"extract", "analyze", "structured", "search", "sources", "verify", "fetch", "inspect",
          "image", "tts", "stt", "video", "query", "write_sql", "rows", "compute", "tx",
          "receipt", "read", "rpc", "quote", "markets", "ticker", "market", "vertex",
          "claude", "execute", "maps"}
Loads == {"page", "get"}
AuditSkills == {"wcag", "seo", "security", "performance", "bundle"}
MediaSkills == {"image", "speech", "video"}
DataSkills == {"query", "forecast", "question", "stats"}

\* The step of a plan that scans a table.
At(s) == IF s = "question" THEN 2 ELSE 1

-----------------------------------------------------------------------------
(* The plans *)

\* The plan of every skill.
LEMMA PlanTable ==
  /\ Plan("extract") = <<"extract">> /\ Plan("snapshot") = <<"extract">>
  /\ Plan("brief") = <<"extract", "analyze">> /\ Plan("check") = <<"extract", "analyze">>
  /\ Plan("facts") = <<"extract", "structured">>
  /\ Plan("research") = <<"search", "sources", "analyze">>
  /\ Plan("claims") = <<"sources", "verify">>
  /\ Plan("fetch") = <<"fetch">> /\ Plan("inspect") = <<"inspect">>
  /\ Plan("image") = <<"image">> /\ Plan("speech") = <<"tts">>
  /\ Plan("transcript") = <<"stt">> /\ Plan("video") = <<"video">>
  /\ Plan("query") = <<"query">> /\ Plan("forecast") = <<"query">>
  /\ Plan("question") = <<"write_sql", "query", "analyze">>
  /\ Plan("stats") = <<"rows", "compute">>
  /\ Plan("transaction") = <<"tx", "receipt">>
  /\ Plan("address") = <<"read", "read", "read">> /\ Plan("network") = <<"read", "read">>
  /\ Plan("rpc") = <<"rpc">>
  /\ Plan("intel") = <<"quote", "markets", "analyze">>
  /\ Plan("ticker") = <<"ticker">> /\ Plan("slug") = <<"market">>
  /\ Plan("completion") = <<"vertex">> /\ Plan("claude") = <<"claude">>
  /\ Plan("code") = <<"execute">> /\ Plan("places") = <<"maps">>
  /\ Plan("wcag") = <<"page">> /\ Plan("performance") = <<"page">>
  /\ Plan("seo") = <<"get">> /\ Plan("security") = <<"get">>
  /\ Plan("bundle") = <<"page", "get">>
BY DEF Plan, ReadingPlan, MediaPlan, DataPlan, StatsPlan, ChainPlan, MarketPlan, ModelPlan,
       AuditPlan

LEMMA PlanLength ==
  ASSUME NEW s \in Skills PROVE Len(Plan(s)) \in 1 .. 3
<1>1. CASE s \in {"extract", "snapshot", "fetch", "inspect", "image", "speech", "transcript",
                  "video", "query", "forecast", "rpc", "ticker", "slug", "completion", "claude", "code",
                  "places", "wcag", "performance", "seo", "security"}
  <2>1. Len(Plan(s)) = 1
    BY <1>1, PlanTable
  <2> QED
    BY <2>1
<1>2. CASE s \in {"brief", "check", "facts", "claims", "stats", "transaction", "network", "bundle"}
  <2>1. Len(Plan(s)) = 2
    BY <1>2, PlanTable
  <2> QED
    BY <2>1
<1>3. CASE s \in {"research", "question", "address", "intel"}
  <2>1. Len(Plan(s)) = 3
    BY <1>3, PlanTable
  <2> QED
    BY <2>1
<1> QED
  BY <1>1, <1>2, <1>3 DEF Skills

\* What the invariants need to know of a plan and its steps.
LEMMA PlanFacts ==
  ASSUME NEW s \in Skills, NEW n \in 1 .. Len(Plan(s))
  PROVE  /\ Len(Plan(s)) \in 1 .. 3 /\ Plan(s)[n] \in Works \cup Loads
         /\ s \in AuditSkills <=> Plan(s)[n] \in Loads
         /\ s \in MediaSkills <=> Plan(s)[n] \in Generations
         /\ s \in MediaSkills => Len(Plan(s)) = 1
         /\ s \in DataSkills /\ n = At(s) <=> Plan(s)[n] \in {"query", "rows"}
         /\ s = "video" <=> Plan(s)[n] = "video"
         /\ Plan(s)[n] \in {"rpc", "fetch", "inspect"} => s = Plan(s)[n]
         /\ Plan(s)[n] = "sources" => (s = "research" /\ n = 2) \/ (s = "claims" /\ n = 1)
         /\ Plan(s)[n] = "search" => s = "research" /\ n = 1
         /\ Plan(s)[n] = "page" => s \in {"wcag", "performance", "bundle"}
         /\ Plan(s)[n] = "get" => s \in {"seo", "security", "bundle"}
<1> USE PlanTable DEF Works, Loads, AuditSkills, MediaSkills, DataSkills, At, Generations
<1>1. CASE s \in {"extract", "snapshot", "fetch", "inspect"}
  BY <1>1
<1>2. CASE s \in {"image", "speech", "transcript", "video"}
  BY <1>2
<1>3. CASE s \in {"query", "forecast", "rpc", "ticker", "slug"}
  BY <1>3
<1>4. CASE s \in {"completion", "claude", "code", "places"}
  BY <1>4
<1>5. CASE s \in {"wcag", "performance", "seo", "security"}
  BY <1>5
<1>6. CASE s \in {"brief", "check", "facts", "claims"}
  <2>1. Len(Plan(s)) = 2
    BY <1>6
  <2>2. n = 1 \/ n = 2
    BY <2>1
  <2>3. CASE n = 1
    BY <1>6, <2>1, <2>3
  <2>4. CASE n = 2
    BY <1>6, <2>1, <2>4
  <2> QED
    BY <2>2, <2>3, <2>4
<1>7. CASE s \in {"stats", "transaction", "network", "bundle"}
  <2>1. Len(Plan(s)) = 2
    BY <1>7
  <2>2. n = 1 \/ n = 2
    BY <2>1
  <2>3. CASE n = 1
    BY <1>7, <2>1, <2>3
  <2>4. CASE n = 2
    BY <1>7, <2>1, <2>4
  <2> QED
    BY <2>2, <2>3, <2>4
<1>8. CASE s \in {"research", "question"}
  <2>1. Len(Plan(s)) = 3
    BY <1>8
  <2>2. n = 1 \/ n = 2 \/ n = 3
    BY <2>1
  <2>3. CASE n = 1
    BY <1>8, <2>1, <2>3
  <2>4. CASE n = 2
    BY <1>8, <2>1, <2>4
  <2>5. CASE n = 3
    BY <1>8, <2>1, <2>5
  <2> QED
    BY <2>2, <2>3, <2>4, <2>5
<1>9. CASE s \in {"address", "intel"}
  <2>1. Len(Plan(s)) = 3
    BY <1>9
  <2>2. n = 1 \/ n = 2 \/ n = 3
    BY <2>1
  <2>3. CASE n = 1
    BY <1>9, <2>1, <2>3
  <2>4. CASE n = 2
    BY <1>9, <2>1, <2>4
  <2>5. CASE n = 3
    BY <1>9, <2>1, <2>5
  <2> QED
    BY <2>2, <2>3, <2>4, <2>5
<1> QED
  BY <1>1, <1>2, <1>3, <1>4, <1>5, <1>6, <1>7, <1>8, <1>9 DEF Skills

-----------------------------------------------------------------------------
(* The providers *)

ProviderNames ==
  {"browser", "http", "fetch", "gemini", "gemini_json", "vertex", "claude", "search", "execute",
   "image", "tts", "stt", "video", "query", "rows", "chain", "chain_raw", "quote", "ticker",
   "markets", "market", "maps", "inspect", "compute"}

\* The providers of a step of work, and the steps of those whose answers are
\* judged by what they are for.
LEMMA FallbackFacts ==
  ASSUME NEW t \in Works
  PROVE  /\ Len(Fallbacks(t)) \in {1, 2}
         /\ t \in Generations \cup {"query", "rows"} => Len(Fallbacks(t)) = 1
         /\ \A k \in 1 .. Len(Fallbacks(t)) :
              /\ Fallbacks(t)[k] \in ProviderNames
              /\ Fallbacks(t)[k] \in {"fetch", "inspect", "query", "rows", "video"}
                    => Fallbacks(t)[k] = t
              /\ t \in {"query", "rows", "video", "image", "tts"} => Fallbacks(t)[k] = t
              /\ Fallbacks(t)[k] = "chain_raw" => t = "rpc"
<1> USE DEF Works, Fallbacks, ProviderNames, Generations
<1>1. CASE t \in {"extract", "sources"}
  <2>1. Fallbacks(t) = <<"browser", "http">>
    BY <1>1
  <2> QED
    BY <1>1, <2>1
<1>2. CASE t \in {"analyze", "write_sql"}
  <2>1. Fallbacks(t) = <<"gemini", "gemini">>
    BY <1>2
  <2> QED
    BY <1>2, <2>1
<1>3. CASE t \in {"structured", "verify"}
  <2>1. Fallbacks(t) = <<"gemini_json", "gemini_json">>
    BY <1>3
  <2> QED
    BY <1>3, <2>1
<1>5. CASE t \in {"tx", "receipt", "read"}
  <2>1. Fallbacks(t) = <<"chain", "chain">>
    BY <1>5
  <2> QED
    BY <1>5, <2>1
<1>6. CASE t = "rpc"
  <2>1. Fallbacks(t) = <<"chain_raw", "chain_raw">>
    BY <1>6
  <2> QED
    BY <1>6, <2>1
<1>7. CASE t \notin {"extract", "sources", "analyze", "write_sql", "structured", "verify",
                     "tx", "receipt", "read", "rpc"}
  <2>1. Fallbacks(t) = <<t>>
    BY <1>7
  <2> QED
    BY <1>7, <2>1
<1> QED
  BY <1>1, <1>2, <1>3, <1>5, <1>6, <1>7

\* Every answer has a status and a sense; a status other than 200 comes with
\* an error.
LEMMA AnswerFacts ==
  ASSUME NEW p \in ProviderNames, NEW a \in Answers(p)
  PROVE  /\ a.status \in Statuses /\ a.body \in Texts
         /\ a.status # 200 => a.body = "error" /\ p # "compute"
         /\ a.status = 200 => a.body \in Senses(p) \/ p = "compute"
<1>1. CASE p = "compute"
  BY <1>1 DEF Answers, Statuses, Texts
<1>2. CASE p # "compute"
  <2>1. Senses(p) \subseteq Texts
    BY DEF Senses, Texts, ProviderNames
  <2>2. a \in [status : {200}, body : Senses(p)] \cup [status : Statuses \ {200}, body : {"error"}]
    BY <1>2 DEF Answers
  <2>3. 200 \in Statuses
    BY DEF Statuses
  <2>4. "error" \in Texts
    BY DEF Texts
  <2> QED
    BY <1>2, <2>1, <2>2, <2>3, <2>4
<1> QED
  BY <1>1, <1>2

\* Read says ok of a 200 only.
LEMMA ReadOk ==
  ASSUME NEW a, a.status \in Statuses, NEW fine, Read(a, fine) = "ok"
  PROVE  a.status = 200 /\ fine = "ok"
BY DEF Read, Statuses, Overloaded, NoAnswer

\* And so does every adapter, but for those whose product is the answer of
\* the other side whatever it is; nothing unfinished or limited is a value.
LEMMA AdapterOk ==
  ASSUME NEW p \in ProviderNames \ TwoPhased, NEW a \in Answers(p), NEW hops,
         Adapter(p, a, hops) = "ok"
  PROVE  /\ a.body \notin {"unfinished", "limited"}
         /\ a.body = "error" => p \in {"chain_raw", "fetch", "inspect"}
         /\ p \in Generations => a.status = 200
<1>0. /\ a.status \in Statuses
      /\ a.status # 200 => a.body = "error" /\ p # "compute"
      /\ a.status = 200 => a.body \in Senses(p) \/ p = "compute"
  BY AnswerFacts DEF TwoPhased
<1>1. CASE p \in {"gemini", "gemini_json", "vertex", "claude", "search", "execute"}
  <2>1. a.status = 200
    BY <1>0, <1>1, ReadOk DEF Adapter, Gemini, GeminiJson, VertexCompletion, Claude,
       GroundedSearch, CodeExecution, Valued
  <2> QED
    BY <1>0, <1>1, <2>1 DEF Senses
<1>2. CASE p \in {"image", "tts", "stt", "quote", "ticker"}
  <2>1. a.status = 200
    BY <1>0, <1>2, ReadOk DEF Adapter, Imagen, CloudTTS, SpeechToText, Coinbase, CoinbaseTicker,
       Valued
  <2> QED
    BY <1>0, <1>2, <2>1 DEF Senses
<1>3. CASE p \in {"markets", "market"}
  <2>1. a.status = 200
    BY <1>0, <1>3, ReadOk DEF Adapter, Polymarket, PolymarketBySlug
  <2> QED
    BY <1>0, <1>3, <2>1 DEF Senses
<1>4. CASE p = "maps"
  <2>1. a.status = 200 /\ a.body \notin {"error", "limited"}
    BY <1>0, <1>4, ReadOk DEF Adapter, MapsGrounding
  <2> QED
    BY <1>0, <1>4, <2>1 DEF Senses, Generations
<1>5. CASE p = "chain"
  <2>1. Adapter(p, a, hops) = ChainRead(a)
    BY <1>5 DEF Adapter
  <2>2. a.body \notin {"error", "limited"}
    BY <2>1 DEF ChainRead
  <2> QED
    BY <1>0, <1>5, <2>2 DEF Senses, Generations
<1>6. CASE p = "chain_raw"
  <2>1. Adapter(p, a, hops) = ChainRaw(a)
    BY <1>6 DEF Adapter
  <2>2. a.body # "limited"
    BY <2>1 DEF ChainRaw
  <2> QED
    BY <1>0, <1>6, <2>2 DEF Senses, Generations
<1>7. CASE p = "browser"
  <2>1. Adapter(p, a, hops) = BrowserExtract(hops, a)
    BY <1>7 DEF Adapter
  <2>2. a.status = 200
    BY <1>0, <2>1 DEF BrowserExtract, Statuses, NoAnswer
  <2> QED
    BY <1>0, <1>7, <2>2 DEF Senses, Generations
<1>8. CASE p = "http"
  <2>1. Adapter(p, a, hops) = HttpExtract(hops, a)
    BY <1>8 DEF Adapter
  <2>2. a.status = 200
    BY <1>0, <2>1, ReadOk DEF HttpExtract
  <2> QED
    BY <1>0, <1>8, <2>2 DEF Senses, Generations
<1>9. CASE p \in {"fetch", "inspect"}
  BY <1>0, <1>9 DEF Senses, Generations
<1>10. CASE p = "compute"
  BY <1>0, <1>10 DEF Answers, Generations
<1> QED
  BY <1>1, <1>2, <1>3, <1>4, <1>5, <1>6, <1>7, <1>8, <1>9, <1>10 DEF ProviderNames, TwoPhased

\* What an attempt makes of an answer as a whole.
LEMMA OutcomeOk ==
  ASSUME NEW j \in Jobs, Step(j) \in Works, job[j].phase \in {1, 2},
         job[j].prov \in 1 .. Len(Fallbacks(Step(j))),
         NEW a \in Answers(Provider(j)), Outcome(j, a) = "ok"
  PROVE  /\ Step(j) \in Generations => a.status = 200
         /\ ~(Step(j) \in TwoPhased /\ job[j].phase = 1) =>
              /\ a.body \in Texts \ {"unfinished", "limited"}
              /\ a.body = "error" => Step(j) \in {"rpc", "fetch", "inspect"}
<1> DEFINE p == Provider(j)
<1>1. /\ p \in ProviderNames
      /\ p \in {"fetch", "inspect", "query", "rows", "video"} => p = Step(j)
      /\ Step(j) \in {"query", "rows", "video", "image", "tts"} => p = Step(j)
      /\ p = "chain_raw" => Step(j) = "rpc"
  BY FallbackFacts DEF Provider
<1>2. /\ a.status \in Statuses /\ a.body \in Texts
      /\ a.status # 200 => a.body = "error" /\ p # "compute"
      /\ a.status = 200 => a.body \in Senses(p) \/ p = "compute"
  BY <1>1, AnswerFacts
<1>3. CASE p \in {"query", "rows"}
  <2>1. Step(j) \notin Generations
    BY <1>1, <1>3 DEF Generations
  <2>2. ASSUME job[j].phase = 2
        PROVE  a.body \in Texts \ {"unfinished", "limited", "error"}
    <3>1. Outcome(j, a) = BigQuery(a)
      BY <1>3, <2>2 DEF Outcome
    <3>2. a.status = 200 /\ a.body # "unfinished"
      BY <1>2, <3>1, ReadOk DEF BigQuery, Unless
    <3> QED
      BY <1>2, <1>3, <3>2 DEF Senses
  <2> QED
    BY <1>1, <1>3, <2>1, <2>2 DEF TwoPhased
<1>4. CASE p = "video"
  <2>1. ASSUME job[j].phase = 1 PROVE a.status = 200
    <3>1. Outcome(j, a) = VeoSubmit(a)
      BY <1>4, <2>1 DEF Outcome
    <3> QED
      BY <1>2, <3>1, ReadOk DEF VeoSubmit, Valued
  <2>2. ASSUME job[j].phase = 2
        PROVE  a.status = 200 /\ a.body \in Texts \ {"unfinished", "limited", "error"}
    <3>1. Outcome(j, a) = VeoPoll(a)
      BY <1>4, <2>2 DEF Outcome
    <3>2. a.status = 200 /\ a.body \notin {"unfinished", "error"}
      BY <1>2, <3>1, ReadOk DEF VeoPoll
    <3> QED
      BY <1>2, <1>4, <3>2 DEF Senses
  <2> QED
    BY <1>1, <1>4, <2>1, <2>2 DEF TwoPhased
<1>5. CASE p \notin {"query", "rows", "video"}
  <2>1. PICK hops : Outcome(j, a) = Adapter(p, a, hops)
    BY <1>5 DEF Outcome
  <2>2. p \in ProviderNames \ TwoPhased /\ Step(j) \notin TwoPhased
    BY <1>1, <1>5 DEF TwoPhased
  <2>3. /\ a.body \notin {"unfinished", "limited"}
        /\ a.body = "error" => p \in {"chain_raw", "fetch", "inspect"}
        /\ p \in Generations => a.status = 200
    BY <2>1, <2>2, AdapterOk
  <2>4. Step(j) \in Generations => p \in Generations
    BY <1>1 DEF Generations
  <2> QED
    BY <1>1, <1>2, <2>3, <2>4
<1> QED
  BY <1>3, <1>4, <1>5

\* Only a poll of a video finds it pending.
LEMMA PendingIsPolled ==
  ASSUME NEW j \in Jobs, Step(j) \in Works, job[j].phase \in {1, 2},
         job[j].prov \in 1 .. Len(Fallbacks(Step(j))), Step(j) \in Generations,
         NEW a \in Answers(Provider(j)), Outcome(j, a) = "pending"
  PROVE  job[j].phase = 2
<1>1. Provider(j) = Step(j)
  BY FallbackFacts DEF Provider, Generations
<1>2. CASE Step(j) = "video"
  <2> SUFFICES ASSUME job[j].phase = 1 PROVE FALSE
    OBVIOUS
  <2>1. Outcome(j, a) = VeoSubmit(a)
    BY <1>1, <1>2 DEF Outcome
  <2> QED
    BY <2>1 DEF VeoSubmit, Valued, Read, Unless
<1>3. CASE Step(j) \in {"image", "tts"}
  <2>1. PICK hops : Outcome(j, a) = Adapter(Step(j), a, hops)
    BY <1>1, <1>3 DEF Outcome
  <2>2. Outcome(j, a) = Valued(a)
    BY <1>3, <2>1 DEF Adapter, Imagen, CloudTTS
  <2> QED
    BY <2>2 DEF Valued, Read, Unless
<1> QED
  BY <1>2, <1>3 DEF Generations

\* And none of a scan does: a query that takes too long is an answer.
LEMMA ScanIsNeverPending ==
  ASSUME NEW j \in Jobs, Step(j) \in {"query", "rows"}, job[j].phase \in {1, 2},
         job[j].prov \in 1 .. Len(Fallbacks(Step(j))),
         NEW a \in Answers(Provider(j)), Outcome(j, a) = "pending"
  PROVE  FALSE
<1>1. Step(j) \in Works
  BY DEF Works
<1>2. Provider(j) = Step(j)
  BY <1>1, FallbackFacts DEF Provider
<1>3. CASE job[j].phase = 1
  <2>1. Outcome(j, a) = DryRun(a, table, job[j].limit)
    BY <1>2, <1>3 DEF Outcome
  <2> QED
    BY <2>1 DEF DryRun, Read, Unless
<1>4. CASE job[j].phase = 2
  <2>1. Outcome(j, a) = BigQuery(a)
    BY <1>2, <1>4 DEF Outcome
  <2> QED
    BY <2>1 DEF BigQuery, Read, Unless
<1> QED
  BY <1>3, <1>4

-----------------------------------------------------------------------------
(* The invariant *)

\* What an audit can fail to see: a frame, the size of a response.
Unseen == {"frame", "bytes"}
Verdicts == [ran : BOOLEAN, pass : BOOLEAN, gaps : SUBSET Unseen, said : SUBSET Unseen]

\* The record of a job.
JobRec ==
  [step : Nat, running : BOOLEAN, prov : Nat, tries : Nat, phase : {1, 2}, left : Nat,
   google : BOOLEAN \cup {None}, todo : Nat, found : Nat, read : SUBSET Nat,
   partial : SUBSET Nat, base : Nat \cup {None}, page : Nat \cup {None}, made : Nat,
   limit : Nat, billed : Nat, built : SUBSET [step : Works \cup Loads, body : Texts],
   verdict : Verdicts, told : {None, "sold", "invalid", "failed"}]

StateType ==
  /\ order \in [Jobs -> Skills] /\ order \in Orders
  /\ site \in [version : 1 .. Len(Pages), status : {200, 404, 500}, hops : Routes]
  /\ table \in 1 .. MaxTable
  /\ lookup \in [state : {"unasked", "resolving", "done"}, creds : BOOLEAN]
  /\ baseline = None \/ baseline \in [version : Nat \cup {None}, by : Jobs]
  /\ job \in [Jobs -> JobRec]

\* A job is at a step of its plan, and a provider it runs is one of the step.
InPlan(s, r) ==
  /\ r.step <= Len(Plan(s)) /\ (r.told = "sold" => r.step > 0)
  /\ r.step = 0 => r.read = {} /\ r.partial = {}
  /\ r.running => /\ r.step > 0 /\ s \notin AuditSkills
                  /\ r.prov \in 1 .. Len(Fallbacks(Plan(s)[r.step]))

\* Its numbers are bounded.
Bounded(r) ==
  /\ r.tries < MaxAttempts /\ r.left <= Budget /\ r.todo <= MaxSources

\* What was made of the answers so far may be sold.
BuiltWhole(s, r) ==
  \A b \in r.built :
    /\ b.body \notin {"unfinished", "short", "limited"}
    /\ b.body = "error" => s \in {"rpc", "fetch", "inspect", "security"}

\* The sources looked at are the last ones, each of them read or named; the
\* step that reads them ends when none is left and one was read.
SourcesKnown(s, r) ==
  s \in {"research", "claims"} =>
    /\ r.todo <= r.found
    /\ r.read \cap r.partial = {} /\ r.read \cup r.partial = (r.todo + 1) .. r.found
    /\ s = "research" /\ r.step <= 1 => r.todo = r.found
    /\ r.running /\ Plan(s)[r.step] = "sources" => r.todo > 0
    /\ r.step > (IF s = "research" THEN 2 ELSE 1) => r.todo = 0 /\ r.read # {}
    /\ r.told = "sold" => r.step = Len(Plan(s))

GapsSaid(s, r) == s = "performance" => r.verdict.gaps \subseteq r.verdict.said

JobInv(s, r) ==
  InPlan(s, r) /\ Bounded(r) /\ BuiltWhole(s, r) /\ SourcesKnown(s, r) /\ GapsSaid(s, r)

\* A vendor is asked to generate when the step begins, and the job ends with
\* its answer or, for a video, with that of a poll.
AskedOnce(s, r) ==
  IF s \notin MediaSkills THEN r.made = 0
  ELSE IF r.told # None THEN r.made <= 1 /\ (r.told = "sold" => r.made = 1)
  ELSE r.made = (IF r.running /\ r.phase = 2 THEN 1 ELSE 0)

\* A table is scanned at one step of a plan, and each attempt of that step
\* adds no more than the maximum the job was given when it began.
ScanKnown(s, r) ==
  /\ s \notin {"query", "forecast"} => r.limit = Ceiling
  /\ r.billed <= MaxAttempts * r.limit
  /\ s \notin DataSkills \/ r.step < At(s) => r.billed = 0
  /\ s \in DataSkills /\ r.step = At(s) /\ r.told = None =>
       r.billed <= (IF r.running THEN r.tries * r.limit ELSE 0)

IInv ==
  /\ StateType
  /\ \A j \in Jobs : /\ JobInv(order[j], job[j]) /\ AskedOnce(order[j], job[j])
                      /\ ScanKnown(order[j], job[j])
  /\ BaselineIsTold /\ OneCredentialAnswer

-----------------------------------------------------------------------------
(* The parts of a step *)

\* The baseline is left alone, or becomes what a job read that is sold with
\* this step, a check whose page differs with its analysis.
BaselineMoves(j) ==
  \/ UNCHANGED baseline
  \/ /\ baseline' = [version |-> job'[j].page, by |-> j]
     /\ job'[j].told = "sold"
     /\ order[j] = "check" /\ job'[j].base # job'[j].page
           => \E b \in job'[j].built : b.step = "analyze"

\* The job stays at its step or goes on to the next; a step that scans is
\* tried again only as one attempt more.
Goes(j, one) ==
  /\ job'[j].step \in {one.step, one.step + 1}
  /\ job'[j].step = one.step + 1 => ~job'[j].running
  /\ Step(j) \in {"query", "rows"} /\ job'[j].step = one.step /\ job'[j].told = None
       => job'[j].running /\ job'[j].tries = one.tries + 1

\* What a part does to the state, given the record of the job before it.
Moved(j, one) ==
  /\ job' \in [Jobs -> JobRec] /\ \A e \in Jobs \ {j} : job'[e] = job[e]
  /\ JobInv(order[j], job'[j]) /\ BaselineMoves(j)
  /\ job'[j].google = one.google /\ job'[j].made = one.made
  /\ job'[j].billed = one.billed /\ job'[j].limit = one.limit /\ Goes(j, one)

\* A record a part may start from: of a job under way, at the same step.
Ready(j, one) ==
  /\ one \in JobRec /\ JobInv(order[j], one)
  /\ one.told = None /\ one.step = job[j].step /\ one.step > 0

\* Storing a record.
LEMMA SetJob ==
  ASSUME StateType, NEW j \in Jobs, NEW new \in JobRec, Set(j, new)
  PROVE  /\ job'[j] = new /\ job' \in [Jobs -> JobRec]
         /\ \A e \in Jobs \ {j} : job'[e] = job[e]
BY DEF Set, StateType

\* The facts of the plans, at the step of a job.
LEMMA StepFacts ==
  ASSUME StateType, NEW j \in Jobs, NEW one, Ready(j, one)
  PROVE  LET s == order[j]
         IN  /\ s \in Skills /\ one.step \in 1 .. Len(Plan(s)) /\ Len(Plan(s)) \in 1 .. 3
             /\ Step(j) = Plan(s)[one.step] /\ Step(j) \in Works \cup Loads
             /\ s \in AuditSkills => Step(j) \in Loads
             /\ s \notin AuditSkills => Step(j) \notin Loads
             /\ s \in MediaSkills => Step(j) \in Generations /\ Len(Plan(s)) = 1
             /\ s \notin MediaSkills => Step(j) \notin Generations
             /\ s \in DataSkills /\ one.step = At(s) <=> Step(j) \in {"query", "rows"}
             /\ s = "video" => Step(j) = "video"
             /\ s # "video" => Step(j) # "video"
             /\ Step(j) \in {"rpc", "fetch", "inspect"} => s = Step(j)
             /\ Step(j) = "sources" =>
                   (s = "research" /\ one.step = 2) \/ (s = "claims" /\ one.step = 1)
             /\ Step(j) = "search" => s = "research" /\ one.step = 1
             /\ Step(j) = "page" => s \in {"wcag", "performance", "bundle"}
             /\ Step(j) = "get" => s \in {"seo", "security", "bundle"}
<1> DEFINE s == order[j]
           n == one.step
<1>1. /\ s \in Skills /\ one.step \in Nat /\ one.step > 0 /\ one.step <= Len(Plan(s))
      /\ Step(j) = Plan(s)[one.step]
  BY DEF StateType, Ready, JobInv, InPlan, JobRec, Step
<1>2. n \in 1 .. Len(Plan(s))
  <2>1. Len(Plan(s)) \in 1 .. 3
    BY <1>1, PlanLength
  <2> QED
    BY <1>1, <2>1
<1>3. Step(j) = Plan(s)[n] /\ n = one.step /\ s = order[j]
  BY <1>1
<1> HIDE DEF s, n
<1> QED
  BY <1>1, <1>2, <1>3, PlanFacts

\* None is no ending.
LEMMA NoneIsNoEnd == None \notin {"sold", "invalid", "failed"}
BY SkillsAssumption DEF SkillsAssumption

\* A failed source is named, any other failure ends the job.
LEMMA FailStep ==
  ASSUME StateType, NEW j \in Jobs, NEW one, Ready(j, one),
         NEW told \in {"invalid", "failed"}, StepFails(j, one, told),
         Step(j) = "sources" => one.todo > 0
  PROVE  /\ Moved(j, one) /\ job'[j].told # "sold"
         /\ order[j] \in MediaSkills => job'[j].told # None
<1>0. /\ order[j] \in Skills /\ one.step \in 1 .. Len(Plan(order[j]))
      /\ Step(j) = Plan(order[j])[one.step]
      /\ Step(j) = "sources" =>
            (order[j] = "research" /\ one.step = 2) \/ (order[j] = "claims" /\ one.step = 1)
  BY StepFacts
<1>1. CASE Step(j) = "sources"
  <2> DEFINE new == [one EXCEPT !.running = FALSE, !.todo = @ - 1, !.partial = @ \cup {one.todo}]
  <2>1. one \in JobRec /\ one.todo \in Nat /\ one.todo > 0
    BY <1>1 DEF Ready, JobRec
  <2>2. new \in JobRec
    <3>1. one.todo - 1 \in Nat /\ one.partial \cup {one.todo} \in SUBSET Nat
      BY <2>1 DEF JobRec
    <3> QED
      BY <2>1, <3>1 DEF JobRec
  <2>3. /\ new.step = one.step /\ new.running = FALSE /\ new.todo = one.todo - 1
        /\ new.found = one.found /\ new.read = one.read /\ new.partial = one.partial \cup {one.todo}
        /\ new.told = None /\ new.google = one.google /\ new.made = one.made
        /\ new.tries = one.tries /\ new.left = one.left /\ new.billed = one.billed /\ new.limit = one.limit
        /\ new.built = one.built /\ new.verdict = one.verdict
    BY <2>1 DEF JobRec, Ready
  <2>4. Set(j, new) /\ UNCHANGED baseline
    BY <1>1 DEF StepFails
  <2> HIDE DEF new
  <2>5. /\ job'[j] = new /\ job' \in [Jobs -> JobRec]
        /\ \A e \in Jobs \ {j} : job'[e] = job[e]
    BY <2>2, <2>4, SetJob
  <2>6. order[j] \in {"research", "claims"} /\ order[j] \notin MediaSkills
    BY <1>0, <1>1 DEF MediaSkills
  <2>7. SourcesKnown(order[j], new)
    <3>1. /\ one.todo \in Nat /\ one.found \in Nat /\ one.read \in SUBSET Nat
          /\ one.partial \in SUBSET Nat /\ one.step \in Nat
      BY <2>1 DEF JobRec
    <3>2. SourcesKnown(order[j], one)
      BY DEF Ready, JobInv
    <3>3. new.todo <= new.found
      BY <2>1, <2>3, <2>6, <3>1, <3>2 DEF SourcesKnown
    <3>4. new.read \cap new.partial = {} /\ new.read \cup new.partial = (new.todo + 1) .. new.found
      <4>1. (new.todo + 1) .. new.found = {one.todo} \cup ((one.todo + 1) .. one.found)
        BY <2>1, <2>3, <2>6, <3>1, <3>2 DEF SourcesKnown
      <4>2. one.todo \notin (one.todo + 1) .. one.found
        BY <3>1
      <4> QED
        BY <2>3, <2>6, <3>2, <4>1, <4>2 DEF SourcesKnown
    <3>5. IF order[j] = "research" THEN one.step = 2 ELSE one.step = 1
      BY <1>0, <1>1, <2>6
    <3> QED
      BY <2>3, <2>6, <3>1, <3>3, <3>4, <3>5, NoneIsNoEnd DEF SourcesKnown
  <2>8. JobInv(order[j], new)
    <3>1. InPlan(order[j], one) /\ Bounded(one) /\ BuiltWhole(order[j], one) /\ GapsSaid(order[j], one)
      BY DEF Ready, JobInv
    <3>2. InPlan(order[j], new) /\ BuiltWhole(order[j], new) /\ GapsSaid(order[j], new)
      BY <2>3, <3>1, NoneIsNoEnd DEF Ready, InPlan, BuiltWhole, GapsSaid
    <3>3. Bounded(new)
      <4>1. new.todo <= MaxSources
        BY <2>1, <2>3, <3>1, SkillsAssumption DEF Bounded, SkillsAssumption
      <4> QED
        BY <2>3, <3>1, <4>1 DEF Bounded
    <3> QED
      BY <2>7, <3>2, <3>3 DEF JobInv
  <2>9. Goes(j, one)
    BY <1>1, <2>1, <2>3, <2>5 DEF Goes, JobRec
  <2> QED
    BY <2>3, <2>4, <2>5, <2>6, <2>8, <2>9, NoneIsNoEnd DEF Moved, BaselineMoves
<1>2. CASE Step(j) # "sources"
  <2> DEFINE new == [one EXCEPT !.running = FALSE, !.told = told]
  <2>1. one \in JobRec
    BY DEF Ready
  <2>2. new \in JobRec
    BY <2>1 DEF JobRec
  <2>3. /\ new.step = one.step /\ new.running = FALSE /\ new.todo = one.todo
        /\ new.found = one.found /\ new.read = one.read /\ new.partial = one.partial
        /\ new.told = told /\ new.google = one.google /\ new.made = one.made
        /\ new.tries = one.tries /\ new.left = one.left /\ new.billed = one.billed /\ new.limit = one.limit
        /\ new.built = one.built /\ new.verdict = one.verdict
    BY <2>1 DEF JobRec
  <2>4. Set(j, new) /\ UNCHANGED baseline
    BY <1>2 DEF StepFails
  <2> HIDE DEF new
  <2>5. /\ job'[j] = new /\ job' \in [Jobs -> JobRec]
        /\ \A e \in Jobs \ {j} : job'[e] = job[e]
    BY <2>2, <2>4, SetJob
  <2>6. SourcesKnown(order[j], new)
    BY <2>3 DEF Ready, JobInv, SourcesKnown
  <2>7. JobInv(order[j], new)
    BY <2>1, <2>3, <2>6 DEF Ready, JobInv, InPlan, Bounded, BuiltWhole, GapsSaid
  <2>8. Goes(j, one)
    BY <2>1, <2>3, <2>5, NoneIsNoEnd DEF Goes, JobRec
  <2> QED
    BY <2>3, <2>4, <2>5, <2>7, <2>8, NoneIsNoEnd DEF Moved, BaselineMoves
<1> QED
  BY <1>1, <1>2

\* The next provider, or the failure of the step.
LEMMA NextProviderStep ==
  ASSUME StateType, NEW j \in Jobs, NEW one, Ready(j, one), one.running,
         NextProvider(j, one)
  PROVE  /\ Moved(j, one) /\ job'[j].told # "sold"
         /\ order[j] \in MediaSkills => job'[j].told # None
<1>1. /\ one \in JobRec /\ JobInv(order[j], one) /\ one.told = None
      /\ Step(j) = Plan(order[j])[one.step]
  BY StepFacts DEF Ready
<1>2. /\ order[j] \notin AuditSkills /\ Step(j) \in Works
      /\ Step(j) = "sources" => order[j] \in {"research", "claims"}
      /\ order[j] \in MediaSkills => Step(j) \in Generations
  BY <1>1, StepFacts DEF JobInv, InPlan
<1>3. /\ Len(Fallbacks(Step(j))) \in {1, 2}
      /\ Step(j) \in Generations \cup {"query", "rows"} => Len(Fallbacks(Step(j))) = 1
      /\ one.prov \in 1 .. Len(Fallbacks(Step(j)))
  BY <1>1, <1>2, FallbackFacts DEF JobInv, InPlan
<1>4. CASE one.prov < Len(Fallbacks(Step(j)))
  <2> DEFINE new == [one EXCEPT !.prov = @ + 1, !.tries = 0, !.phase = 1]
  <2>1. new \in JobRec
    <3>1. one.prov + 1 \in Nat /\ 0 \in Nat /\ 1 \in {1, 2}
      BY <1>1 DEF JobRec
    <3> QED
      BY <1>1, <3>1, ZenonT(30) DEF JobRec
  <2>2. /\ new.step = one.step /\ new.running = one.running /\ new.todo = one.todo
        /\ new.found = one.found /\ new.read = one.read /\ new.partial = one.partial
        /\ new.told = one.told /\ new.google = one.google /\ new.made = one.made
        /\ new.tries = 0 /\ new.left = one.left /\ new.billed = one.billed /\ new.limit = one.limit
        /\ new.built = one.built /\ new.verdict = one.verdict /\ new.prov = one.prov + 1
    BY <1>1 DEF JobRec
  <2>3. Set(j, new) /\ UNCHANGED baseline
    BY <1>4 DEF NextProvider
  <2> HIDE DEF new
  <2>4. /\ job'[j] = new /\ job' \in [Jobs -> JobRec]
        /\ \A e \in Jobs \ {j} : job'[e] = job[e]
    BY <2>1, <2>3, SetJob
  <2>5. new.prov \in 1 .. Len(Fallbacks(Plan(order[j])[new.step]))
    BY <1>1, <1>3, <1>4, <2>2
  <2>6. Bounded(new)
    BY <1>1, <2>2, SkillsAssumption DEF Bounded, JobInv, SkillsAssumption
  <2>7. SourcesKnown(order[j], new)
    BY <1>1, <2>2 DEF JobInv, SourcesKnown
  <2>8. JobInv(order[j], new)
    BY <1>1, <2>2, <2>5, <2>6, <2>7 DEF JobInv, InPlan, BuiltWhole, GapsSaid
  <2>9. order[j] \notin MediaSkills /\ Step(j) \notin {"query", "rows"}
    <3>1. one.prov \in Nat /\ 1 <= one.prov /\ one.prov < Len(Fallbacks(Step(j)))
      BY <1>3, <1>4
    <3>2. Len(Fallbacks(Step(j))) # 1
      <4> DEFINE last == Len(Fallbacks(Step(j)))
      <4>1. last \in Nat /\ one.prov < last
        BY <1>3, <3>1
      <4> HIDE DEF last
      <4>2. last # 1
        BY <3>1, <4>1
      <4> QED
        BY <4>2 DEF last
    <3> QED
      BY <1>2, <1>3, <3>2
  <2>10. new.told # "sold"
    BY <1>1, <2>2, NoneIsNoEnd
  <2>11. Goes(j, one)
    BY <1>1, <2>2, <2>4, <2>9 DEF Goes, JobRec
  <2> QED
    BY <2>2, <2>3, <2>4, <2>8, <2>9, <2>10, <2>11 DEF Moved, BaselineMoves
<1>5. CASE ~(one.prov < Len(Fallbacks(Step(j))))
  <2>1. StepFails(j, one, "failed")
    BY <1>5 DEF NextProvider
  <2>2. Step(j) = "sources" => one.todo > 0
    BY <1>1, <1>2 DEF JobInv, SourcesKnown
  <2> QED
    BY <2>1, <2>2, FailStep
<1> QED
  BY <1>4, <1>5

\* Another attempt, while there are any left, or the next provider.
LEMMA TryAgainStep ==
  ASSUME StateType, NEW j \in Jobs, NEW one, Ready(j, one), one.running,
         TryAgain(j, one)
  PROVE  /\ Moved(j, one) /\ job'[j].told # "sold"
         /\ order[j] \in MediaSkills => job'[j].told # None
<1>1. /\ one \in JobRec /\ JobInv(order[j], one) /\ one.told = None
      /\ Step(j) = Plan(order[j])[one.step]
      /\ order[j] \in MediaSkills => Step(j) \in Generations
  BY StepFacts DEF Ready
<1>2. /\ Attempts(Step(j)) <= MaxAttempts /\ MaxAttempts \in Nat
      /\ Step(j) \in Generations => Attempts(Step(j)) = 1
  BY SkillsAssumption DEF Attempts, SkillsAssumption
<1>3. CASE one.tries + 1 < Attempts(Step(j)) /\ one.left > 0
  <2> DEFINE new == [one EXCEPT !.tries = @ + 1, !.phase = 1]
  <2>1. new \in JobRec
    <3>1. one.tries + 1 \in Nat /\ 1 \in {1, 2}
      BY <1>1 DEF JobRec
    <3> QED
      BY <1>1, <3>1, ZenonT(30) DEF JobRec
  <2>2. /\ new.step = one.step /\ new.running = one.running /\ new.todo = one.todo
        /\ new.found = one.found /\ new.read = one.read /\ new.partial = one.partial
        /\ new.told = one.told /\ new.google = one.google /\ new.made = one.made
        /\ new.tries = one.tries + 1 /\ new.left = one.left /\ new.billed = one.billed /\ new.limit = one.limit
        /\ new.built = one.built /\ new.verdict = one.verdict /\ new.prov = one.prov
        /\ one.tries \in Nat
    BY <1>1 DEF JobRec
  <2>3. Set(j, new) /\ UNCHANGED baseline
    BY <1>3 DEF TryAgain
  <2> HIDE DEF new
  <2>4. /\ job'[j] = new /\ job' \in [Jobs -> JobRec]
        /\ \A e \in Jobs \ {j} : job'[e] = job[e]
    BY <2>1, <2>3, SetJob
  <2>5. new.tries < MaxAttempts
    <3>1. Attempts(Step(j)) \in Nat
      BY SkillsAssumption DEF Attempts, SkillsAssumption
    <3> QED
      BY <1>2, <1>3, <2>2, <3>1
  <2>6. Bounded(new)
    BY <1>1, <2>2, <2>5 DEF Bounded, JobInv
  <2>7. SourcesKnown(order[j], new)
    BY <1>1, <2>2 DEF JobInv, SourcesKnown
  <2>8. JobInv(order[j], new)
    BY <1>1, <2>2, <2>6, <2>7 DEF JobInv, InPlan, BuiltWhole, GapsSaid
  <2>9. order[j] \notin MediaSkills
    BY <1>1, <1>2, <1>3, <2>2
  <2>10. Goes(j, one)
    <3>1. one.step \in Nat /\ job'[j].step = one.step
      BY <1>1, <2>2, <2>4 DEF JobRec
    <3>2. job'[j].running /\ job'[j].tries = one.tries + 1
      BY <2>2, <2>4
    <3> QED
      BY <3>1, <3>2 DEF Goes
  <2> QED
    BY <1>1, <2>2, <2>3, <2>4, <2>8, <2>9, <2>10, NoneIsNoEnd DEF Moved, BaselineMoves
<1>4. CASE ~(one.tries + 1 < Attempts(Step(j)) /\ one.left > 0)
  BY <1>4, NextProviderStep DEF TryAgain
<1> QED
  BY <1>3, <1>4

\* The next step of the plan, or the sale.
LEMMA AdvanceStep ==
  ASSUME StateType, NEW j \in Jobs, NEW one, Ready(j, one), Advance(j, one),
         Step(j) = "sources" => one.todo = 0 /\ one.read # {},
         order[j] = "check" /\ one.step = 2 => \E b \in one.built : b.step = "analyze"
  PROVE  /\ Moved(j, one)
         /\ order[j] \in MediaSkills => job'[j].told # None
<1>1. /\ one \in JobRec /\ JobInv(order[j], one) /\ one.told = None
      /\ order[j] \in Skills /\ one.step \in 1 .. Len(Plan(order[j]))
      /\ Len(Plan(order[j])) \in 1 .. 3 /\ Step(j) = Plan(order[j])[one.step]
      /\ order[j] \in MediaSkills => Len(Plan(order[j])) = 1
  BY StepFacts DEF Ready
<1>2. /\ order[j] = "research" => Len(Plan(order[j])) = 3 /\ Plan(order[j])[2] = "sources"
      /\ order[j] = "claims" => Len(Plan(order[j])) = 2 /\ Plan(order[j])[1] = "sources"
      /\ order[j] = "check" => Len(Plan(order[j])) = 2
  BY PlanTable
<1> DEFINE Last == ~(one.step < Len(Plan(order[j])) /\ ~(order[j] = "check" /\ one.page = one.base))
<1>3. CASE ~Last
  <2> DEFINE new == [one EXCEPT !.step = @ + 1, !.running = FALSE]
  <2>1. new \in JobRec
    <3>1. one.step + 1 \in Nat /\ FALSE \in BOOLEAN
      BY <1>1 DEF JobRec
    <3> QED
      BY <1>1, <3>1, ZenonT(30) DEF JobRec
  <2>2. /\ new.step = one.step + 1 /\ new.running = FALSE /\ new.todo = one.todo
        /\ new.found = one.found /\ new.read = one.read /\ new.partial = one.partial
        /\ new.told = one.told /\ new.google = one.google /\ new.made = one.made
        /\ new.tries = one.tries /\ new.left = one.left /\ new.billed = one.billed /\ new.limit = one.limit
        /\ new.built = one.built /\ new.verdict = one.verdict
    BY <1>1 DEF JobRec
  <2>3. Set(j, new) /\ UNCHANGED baseline
    BY <1>3 DEF Advance
  <2> HIDE DEF new
  <2>4. /\ job'[j] = new /\ job' \in [Jobs -> JobRec]
        /\ \A e \in Jobs \ {j} : job'[e] = job[e]
    BY <2>1, <2>3, SetJob
  <2>5. Bounded(new) /\ BuiltWhole(order[j], new) /\ GapsSaid(order[j], new)
    BY <1>1, <2>2 DEF JobInv, Bounded, BuiltWhole, GapsSaid
  <2>6. InPlan(order[j], new)
    BY <1>1, <1>3, <2>2 DEF InPlan
  <2>7. SourcesKnown(order[j], new)
    <3>1. ASSUME order[j] \in {"research", "claims"},
                 new.step > (IF order[j] = "research" THEN 2 ELSE 1)
          PROVE  new.todo = 0 /\ new.read # {}
      <4>1. CASE Step(j) = "sources"
        BY <2>2, <4>1
      <4>2. CASE Step(j) # "sources"
        <5>1. one.step > (IF order[j] = "research" THEN 2 ELSE 1)
          BY <1>1, <1>2, <2>2, <3>1, <4>2
        <5> QED
          BY <1>1, <2>2, <3>1, <5>1 DEF JobInv, SourcesKnown
      <4> QED
        BY <4>1, <4>2
    <3>2. new.step <= 1 => one.step <= 1
      BY <1>1, <2>2
    <3> QED
      BY <1>1, <2>2, <3>1, <3>2, NoneIsNoEnd DEF JobInv, SourcesKnown
  <2>8. order[j] \notin MediaSkills
    <3>1. one.step < Len(Plan(order[j])) /\ one.step \in Nat /\ one.step > 0
      BY <1>1, <1>3
    <3>2. Len(Plan(order[j])) # 1
      <4> DEFINE last == Len(Plan(order[j]))
      <4>1. last \in Nat /\ one.step < last
        BY <1>1, <3>1
      <4> HIDE DEF last
      <4>2. last # 1
        BY <3>1, <4>1
      <4> QED
        BY <4>2 DEF last
    <3> QED
      BY <1>1, <3>2
  <2>9. Goes(j, one)
    BY <1>1, <2>2, <2>4 DEF Goes, JobRec
  <2> QED
    BY <2>2, <2>3, <2>4, <2>5, <2>6, <2>7, <2>8, <2>9 DEF Moved, BaselineMoves, JobInv
<1>4. CASE Last
  <2> DEFINE new == [one EXCEPT !.told = "sold"]
  <2>1. new \in JobRec
    BY <1>1, SMTT(30) DEF JobRec
  <2>2. /\ new.step = one.step /\ new.running = one.running /\ new.todo = one.todo
        /\ new.found = one.found /\ new.read = one.read /\ new.partial = one.partial
        /\ new.told = "sold" /\ new.google = one.google /\ new.made = one.made
        /\ new.tries = one.tries /\ new.left = one.left /\ new.billed = one.billed /\ new.limit = one.limit
        /\ new.built = one.built /\ new.verdict = one.verdict /\ new.prov = one.prov
        /\ new.base = one.base /\ new.page = one.page
    BY <1>1 DEF JobRec
  <2>3. Set(j, new) /\ (\/ UNCHANGED baseline
                        \/ baseline' = [version |-> one.page, by |-> j])
    BY <1>4 DEF Advance, Sell
  <2> HIDE DEF new
  <2>4. /\ job'[j] = new /\ job' \in [Jobs -> JobRec]
        /\ \A e \in Jobs \ {j} : job'[e] = job[e]
    BY <2>1, <2>3, SetJob
  <2>5. Bounded(new) /\ BuiltWhole(order[j], new) /\ GapsSaid(order[j], new)
    BY <1>1, <2>2 DEF JobInv, Bounded, BuiltWhole, GapsSaid
  <2>6. InPlan(order[j], new)
    BY <1>1, <2>2 DEF JobInv, InPlan
  <2>7. order[j] # "check" => one.step = Len(Plan(order[j]))
    BY <1>1, <1>4
  <2>8. SourcesKnown(order[j], new)
    BY <1>1, <2>2, <2>7 DEF JobInv, SourcesKnown
  <2>9. ASSUME order[j] = "check", one.base # one.page PROVE one.step = 2
    <3>1. ~(one.step < Len(Plan(order[j])))
      BY <1>4, <2>9
    <3>2. one.step \in Nat /\ one.step <= Len(Plan(order[j])) /\ Len(Plan(order[j])) = 2
      BY <1>1, <1>2, <2>9
    <3> QED
      BY <3>1, <3>2
  <2>10. BaselineMoves(j)
    BY <2>2, <2>3, <2>4, <2>9 DEF BaselineMoves
  <2>11. Goes(j, one)
    <3>1. one.step \in Nat /\ job'[j].step = one.step
      BY <1>1, <2>2, <2>4 DEF JobRec
    <3>2. job'[j].told # None
      BY <2>2, <2>4, NoneIsNoEnd
    <3> QED
      BY <3>1, <3>2 DEF Goes
  <2> QED
    BY <2>2, <2>4, <2>5, <2>6, <2>8, <2>10, <2>11, NoneIsNoEnd DEF Moved, JobInv
<1> QED
  BY <1>3, <1>4

\* The value of a step becomes part of what will be sold.
LEMMA TakesStep ==
  ASSUME StateType, NEW j \in Jobs, NEW one, Ready(j, one), Step(j) \in Works,
         NEW a, a.body \in Texts \ {"unfinished", "short", "limited"},
         a.body = "error" => Step(j) \in {"rpc", "fetch", "inspect"}
  PROVE  LET new == Takes(j, one, a)
         IN  /\ Ready(j, new) /\ new.google = one.google /\ new.made = one.made
             /\ new.running = one.running /\ new.step = one.step /\ new.tries = one.tries
             /\ new.billed = one.billed /\ new.limit = one.limit
             /\ \E b \in new.built : b.step = Step(j)
<1> DEFINE new == Takes(j, one, a)
           b == [step |-> Step(j), body |-> a.body]
<1>1. /\ one \in JobRec /\ JobInv(order[j], one) /\ one.told = None
      /\ one.step = job[j].step /\ one.step > 0
      /\ Step(j) \in {"rpc", "fetch", "inspect"} => order[j] = Step(j)
  BY StepFacts DEF Ready
<1>2. b \in [step : Works \cup Loads, body : Texts] /\ b.step = Step(j) /\ b.body = a.body
  OBVIOUS
<1>3. /\ site.version \in Nat \cup {None}
      /\ one.built \cup {b} \in SUBSET [step : Works \cup Loads, body : Texts]
  <2>1. site.version \in 1 .. Len(Pages)
    BY DEF StateType
  <2>2. one.built \in SUBSET [step : Works \cup Loads, body : Texts]
    BY <1>1 DEF JobRec
  <2> HIDE DEF b
  <2> QED
    BY <1>2, <2>1, <2>2
<1>4. \/ new = [one EXCEPT !.built = @ \cup {b}]
      \/ new = [[one EXCEPT !.built = @ \cup {b}] EXCEPT !.page = site.version]
  BY DEF Takes
<1> HIDE DEF b, new
<1>5. [one EXCEPT !.built = @ \cup {b}] \in JobRec
  BY <1>1, <1>3 DEF JobRec
<1>6. new \in JobRec
  BY <1>3, <1>4, <1>5, ZenonT(30) DEF JobRec
<1>7. /\ new.step = one.step /\ new.running = one.running /\ new.todo = one.todo
      /\ new.found = one.found /\ new.read = one.read /\ new.partial = one.partial
      /\ new.told = one.told /\ new.google = one.google /\ new.made = one.made
      /\ new.tries = one.tries /\ new.left = one.left /\ new.billed = one.billed /\ new.limit = one.limit
      /\ new.built = one.built \cup {b} /\ new.verdict = one.verdict /\ new.prov = one.prov
  <2>1. CASE new = [one EXCEPT !.built = @ \cup {b}]
    BY <1>1, <2>1 DEF JobRec
  <2>2. CASE new = [[one EXCEPT !.built = @ \cup {b}] EXCEPT !.page = site.version]
    BY <1>1, <1>5, <2>2 DEF JobRec
  <2> QED
    BY <1>4, <2>1, <2>2
<1>8. BuiltWhole(order[j], new)
  BY <1>1, <1>2, <1>7 DEF JobInv, BuiltWhole
<1>9. SourcesKnown(order[j], new)
  BY <1>1, <1>7 DEF JobInv, SourcesKnown
<1>10. InPlan(order[j], new) /\ Bounded(new) /\ GapsSaid(order[j], new)
  BY <1>1, <1>7 DEF JobInv, InPlan, Bounded, GapsSaid
<1>11. Ready(j, new)
  BY <1>1, <1>6, <1>7, <1>8, <1>9, <1>10 DEF Ready, JobInv
<1> QED
  BY <1>2, <1>7, <1>11 DEF new

\* A provider has delivered: the skill may still refuse it, a source is read,
\* a search says how many sources there are, and any other value is taken.
LEMMA SucceedsStep ==
  ASSUME StateType, NEW j \in Jobs, NEW one, Ready(j, one), one.running,
         NEW a, a.body \in Texts \ {"unfinished", "limited"},
         a.body = "error" => Step(j) \in {"rpc", "fetch", "inspect"},
         Succeeds(j, one, a)
  PROVE  /\ Moved(j, one)
         /\ order[j] \in MediaSkills => job'[j].told # None
<1>1. /\ one \in JobRec /\ JobInv(order[j], one) /\ one.told = None
      /\ Step(j) = Plan(order[j])[one.step] /\ Step(j) \in Works
      /\ one.step = job[j].step /\ one.step > 0
      /\ Step(j) = "sources" =>
            (order[j] = "research" /\ one.step = 2) \/ (order[j] = "claims" /\ one.step = 1)
      /\ Step(j) = "search" => order[j] = "research" /\ one.step = 1
      /\ order[j] \in MediaSkills => Step(j) \in Generations
  BY StepFacts DEF Ready, JobInv, InPlan
<1>2. Step(j) = "sources" => one.todo > 0
  BY <1>1 DEF JobInv, SourcesKnown
<1>3. /\ Refuses(Step(j), a) \in {None, "invalid", "failed"}
      /\ a.body = "short" => Refuses(Step(j), a) # None
  BY NoneIsNoEnd DEF Refuses
<1>4. order[j] = "check" /\ one.step = 2 => Step(j) = "analyze"
  BY <1>1, PlanTable
<1>5. CASE Refuses(Step(j), a) # None
  <2>1. StepFails(j, one, Refuses(Step(j), a)) /\ Refuses(Step(j), a) \in {"invalid", "failed"}
    BY <1>3, <1>5 DEF Succeeds
  <2> QED
    BY <1>2, <2>1, FailStep
<1>6. CASE Refuses(Step(j), a) = None /\ Step(j) = "sources"
  <2> DEFINE new == [one EXCEPT !.running = FALSE, !.todo = @ - 1, !.read = @ \cup {one.todo}]
  <2>1. new \in JobRec
    <3>1. one.todo - 1 \in Nat /\ one.read \cup {one.todo} \in SUBSET Nat /\ FALSE \in BOOLEAN
      BY <1>1, <1>2, <1>6 DEF JobRec
    <3> QED
      BY <1>1, <3>1, ZenonT(30) DEF JobRec
  <2>2. /\ new.step = one.step /\ new.running = FALSE /\ new.todo = one.todo - 1
        /\ new.found = one.found /\ new.read = one.read \cup {one.todo} /\ new.partial = one.partial
        /\ new.told = None /\ new.google = one.google /\ new.made = one.made
        /\ new.tries = one.tries /\ new.left = one.left /\ new.billed = one.billed /\ new.limit = one.limit
        /\ new.built = one.built /\ new.verdict = one.verdict
    BY <1>1 DEF JobRec
  <2>3. Set(j, new) /\ UNCHANGED baseline
    BY <1>6 DEF Succeeds
  <2> HIDE DEF new
  <2>4. /\ job'[j] = new /\ job' \in [Jobs -> JobRec]
        /\ \A e \in Jobs \ {j} : job'[e] = job[e]
    BY <2>1, <2>3, SetJob
  <2>5. /\ one.todo \in Nat /\ one.todo > 0 /\ one.found \in Nat /\ one.read \in SUBSET Nat
        /\ one.partial \in SUBSET Nat /\ one.step \in Nat
        /\ order[j] \in {"research", "claims"} /\ order[j] \notin MediaSkills
    BY <1>1, <1>2, <1>6 DEF JobRec, MediaSkills
  <2>6. SourcesKnown(order[j], new)
    <3>1. SourcesKnown(order[j], one)
      BY <1>1 DEF JobInv
    <3>2. new.todo <= new.found
      BY <2>2, <2>5, <3>1 DEF SourcesKnown
    <3>3. new.read \cap new.partial = {} /\ new.read \cup new.partial = (new.todo + 1) .. new.found
      <4>1. (new.todo + 1) .. new.found = {one.todo} \cup ((one.todo + 1) .. one.found)
        BY <2>2, <2>5, <3>1 DEF SourcesKnown
      <4>2. one.todo \notin (one.todo + 1) .. one.found
        BY <2>5
      <4> QED
        BY <2>2, <2>5, <3>1, <4>1, <4>2 DEF SourcesKnown
    <3>4. IF order[j] = "research" THEN one.step = 2 ELSE one.step = 1
      BY <1>1, <1>6, <2>5
    <3> QED
      BY <2>2, <2>5, <3>2, <3>3, <3>4, NoneIsNoEnd DEF SourcesKnown
  <2>7. Bounded(new)
    <3>1. new.todo <= MaxSources
      BY <1>1, <2>2, <2>5, SkillsAssumption DEF JobInv, Bounded, SkillsAssumption
    <3> QED
      BY <1>1, <2>2, <3>1 DEF JobInv, Bounded
  <2>8. InPlan(order[j], new) /\ BuiltWhole(order[j], new) /\ GapsSaid(order[j], new)
    BY <1>1, <2>2, NoneIsNoEnd DEF JobInv, InPlan, BuiltWhole, GapsSaid
  <2>9. Goes(j, one)
    BY <1>1, <1>6, <2>2, <2>4 DEF Goes, JobRec
  <2> QED
    BY <2>2, <2>3, <2>4, <2>5, <2>6, <2>7, <2>8, <2>9 DEF Moved, BaselineMoves, JobInv
<1>7. CASE Refuses(Step(j), a) = None /\ Step(j) = "search"
  <2> DEFINE taken == Takes(j, one, a)
  <2>1. PICK n \in 0 .. MaxSources : Advance(j, [Takes(j, one, a) EXCEPT !.todo = n, !.found = n])
    BY <1>7 DEF Succeeds
  <2> DEFINE new == [taken EXCEPT !.todo = n, !.found = n]
  <2>2. /\ Ready(j, taken) /\ taken.google = one.google /\ taken.made = one.made
        /\ taken.step = one.step /\ taken.tries = one.tries
        /\ taken.billed = one.billed /\ taken.limit = one.limit
        /\ \E b \in taken.built : b.step = Step(j)
    BY <1>1, <1>3, <1>7, TakesStep
  <2>3. Advance(j, new)
    BY <2>1
  <2>4. n \in Nat /\ n <= MaxSources
    BY SkillsAssumption DEF SkillsAssumption
  <2> HIDE DEF taken
  <2>5. taken \in JobRec /\ JobInv(order[j], taken) /\ taken.step = job[j].step /\ taken.told = None
    BY <2>2 DEF Ready
  <2>6. new \in JobRec
    BY <2>4, <2>5, ZenonT(30) DEF JobRec
  <2>7. /\ new.step = taken.step /\ new.running = taken.running /\ new.todo = n /\ new.found = n
        /\ new.read = taken.read /\ new.partial = taken.partial
        /\ new.told = taken.told /\ new.google = taken.google /\ new.made = taken.made
        /\ new.tries = taken.tries /\ new.left = taken.left /\ new.billed = taken.billed /\ new.limit = taken.limit
        /\ new.built = taken.built /\ new.verdict = taken.verdict /\ new.prov = taken.prov
    BY <2>5 DEF JobRec
  <2> HIDE DEF new
  <2>8. order[j] = "research" /\ taken.step = 1 /\ Plan(order[j])[taken.step] = "search"
    BY <1>1, <1>7, <2>5
  <2>9. SourcesKnown(order[j], new)
    <3>1. SourcesKnown(order[j], taken)
      BY <2>5 DEF JobInv
    <3>2. taken.todo = taken.found /\ taken.todo \in Nat
      BY <2>5, <2>8, <3>1 DEF SourcesKnown, JobRec
    <3>3. taken.read = {} /\ taken.partial = {}
      <4>1. (taken.todo + 1) .. taken.found = {}
        BY <3>2
      <4> QED
        BY <2>8, <3>1, <4>1 DEF SourcesKnown
    <3>4. (n + 1) .. n = {}
      BY <2>4
    <3> QED
      BY <2>4, <2>5, <2>7, <2>8, <3>3, <3>4, NoneIsNoEnd DEF SourcesKnown
  <2>10. Ready(j, new)
    BY <2>2, <2>4, <2>5, <2>6, <2>7, <2>9 DEF Ready, JobInv, InPlan, Bounded, BuiltWhole, GapsSaid
  <2>11. Moved(j, new) /\ order[j] \notin MediaSkills
    BY <1>7, <2>3, <2>8, <2>10, AdvanceStep DEF MediaSkills
  <2> QED
    BY <2>2, <2>7, <2>11 DEF Moved, Goes
<1>8. CASE Refuses(Step(j), a) = None /\ Step(j) \notin {"sources", "search"}
  <2> DEFINE new == Takes(j, one, a)
  <2>1. Advance(j, new)
    BY <1>8 DEF Succeeds
  <2>2. /\ Ready(j, new) /\ new.google = one.google /\ new.made = one.made
        /\ new.step = one.step /\ new.tries = one.tries
        /\ new.billed = one.billed /\ new.limit = one.limit
        /\ \E b \in new.built : b.step = Step(j)
    BY <1>1, <1>3, <1>8, TakesStep
  <2> HIDE DEF new
  <2>3. order[j] = "check" /\ new.step = 2 => \E b \in new.built : b.step = "analyze"
    BY <1>1, <1>4, <2>2 DEF Ready
  <2>4. Moved(j, new) /\ (order[j] \in MediaSkills => job'[j].told # None)
    BY <1>8, <2>1, <2>2, <2>3, AdvanceStep
  <2> QED
    BY <2>2, <2>4 DEF Moved, Goes
<1> QED
  BY <1>5, <1>6, <1>7, <1>8

-----------------------------------------------------------------------------
(* The steps of a job *)

\* What a step of a job does.
Stepped(j) ==
  /\ job' \in [Jobs -> JobRec] /\ \A e \in Jobs \ {j} : job'[e] = job[e]
  /\ JobInv(order[j], job'[j]) /\ AskedOnce(order[j], job'[j])
  /\ ScanKnown(order[j], job'[j]) /\ BaselineMoves(j)

\* One attempt more adds no more than the maximum once more.
LEMMA OneMore ==
  ASSUME NEW m \in Nat, NEW n \in Nat, NEW most \in Nat, m < most
  PROVE  /\ m * n \in Nat /\ (m + 1) * n = m * n + n /\ (m + 1) * n <= most * n
         /\ m * n <= (m + 1) * n /\ 0 * n = 0
<1>1. PICK d \in Nat : most = (m + 1) + d
  <2>1. most - (m + 1) \in Nat /\ most = (m + 1) + (most - (m + 1))
    OBVIOUS
  <2> QED
    BY <2>1
<1>2. most * n = (m + 1) * n + d * n
  BY <1>1
<1>3. d * n \in Nat /\ m * n \in Nat /\ (m + 1) * n \in Nat
  OBVIOUS
<1>4. (m + 1) * n = m * n + n /\ 0 * n = 0
  OBVIOUS
<1> QED
  BY <1>2, <1>3, <1>4

\* What an attempt may start from: a scan was paid for by the attempts before
\* and this one.
ScanPaid(s, r) ==
  /\ s \notin {"query", "forecast"} => r.limit = Ceiling
  /\ r.billed <= MaxAttempts * r.limit
  /\ s \notin DataSkills \/ r.step < At(s) => r.billed = 0
  /\ s \in DataSkills /\ r.step = At(s) =>
       r.billed <= (IF r.running THEN (r.tries + 1) * r.limit ELSE 0)

LEMMA KnownIsPaid ==
  ASSUME StateType, NEW j \in Jobs, NEW one, Ready(j, one), ScanKnown(order[j], one)
  PROVE  ScanPaid(order[j], one)
<1>1. one.tries \in Nat /\ one.limit \in Nat /\ one.billed \in Nat /\ one.told = None
  BY DEF Ready, JobRec
<1>2. one.tries < MaxAttempts /\ MaxAttempts \in Nat
  BY SkillsAssumption DEF Ready, JobInv, Bounded, SkillsAssumption
<1>3. one.tries * one.limit \in Nat /\ one.tries * one.limit <= (one.tries + 1) * one.limit
      /\ (one.tries + 1) * one.limit \in Nat
  BY <1>1, <1>2, OneMore
<1> DEFINE before == one.tries * one.limit
           with == (one.tries + 1) * one.limit
<1> HIDE DEF before, with
<1>4. before \in Nat /\ with \in Nat /\ before <= with
  BY <1>3 DEF before, with
<1>5. ASSUME order[j] \in DataSkills, one.step = At(order[j])
      PROVE  one.billed <= (IF one.running THEN with ELSE 0)
  <2>1. one.billed <= (IF one.running THEN before ELSE 0)
    BY <1>1, <1>5 DEF ScanKnown, before
  <2> QED
    BY <1>1, <1>4, <2>1
<1> QED
  BY <1>5 DEF ScanKnown, ScanPaid, with

\* What the parts make of it.
LEMMA ScanMoves ==
  ASSUME StateType, NEW j \in Jobs, NEW one, Ready(j, one), Moved(j, one),
         ScanPaid(order[j], one)
  PROVE  ScanKnown(order[j], job'[j])
<1> DEFINE s == order[j]
           new == job'[j]
<1>1. /\ new.billed = one.billed /\ new.limit = one.limit
      /\ new.step \in {one.step, one.step + 1} /\ one.step \in Nat
      /\ new.step = one.step + 1 => ~new.running
      /\ Step(j) \in {"query", "rows"} /\ new.step = one.step /\ new.told = None
           => new.running /\ new.tries = one.tries + 1
  BY DEF Moved, Goes, Ready, JobRec
<1>2. s \in DataSkills /\ one.step = At(s) => Step(j) \in {"query", "rows"}
  BY StepFacts
<1>3. s \in DataSkills /\ one.step = At(s) /\ one.running
        => one.billed <= (one.tries + 1) * one.limit
  BY DEF ScanPaid
<1>4. At(s) \in Nat
  BY DEF At
<1> HIDE DEF s, new
<1>5. s \notin DataSkills \/ new.step < At(s) => new.billed = 0
  <2>1. s \notin DataSkills \/ one.step < At(s) => one.billed = 0
    BY DEF ScanPaid, s
  <2> QED
    BY <1>1, <1>4, <2>1
<1>6. ASSUME s \in DataSkills, new.step = At(s), new.told = None
      PROVE  new.billed <= (IF new.running THEN new.tries * new.limit ELSE 0)
  <2>1. CASE new.step = one.step + 1
    <3>1. one.step < At(s)
      BY <1>1, <1>6, <2>1
    <3>2. new.billed = 0 /\ ~new.running
      BY <1>1, <2>1, <3>1 DEF ScanPaid, s
    <3> QED
      BY <3>2
  <2>2. CASE new.step = one.step
    <3>1. new.running /\ new.tries = one.tries + 1
      BY <1>1, <1>2, <1>6, <2>2
    <3>2. CASE one.running
      BY <1>1, <1>3, <1>6, <2>2, <3>1, <3>2
    <3>3. CASE ~one.running
      <4>1. one.billed <= 0 /\ one.billed \in Nat
        BY <1>6, <2>2, <3>3 DEF ScanPaid, s, Ready, JobRec
      <4>2. one.tries \in Nat /\ one.limit \in Nat
        BY DEF Ready, JobRec
      <4>3. (one.tries + 1) * one.limit \in Nat
        BY <4>2
      <4> QED
        BY <1>1, <3>1, <4>1, <4>3
    <3> QED
      BY <3>2, <3>3
  <2> QED
    BY <1>1, <2>1, <2>2
<1> QED
  BY <1>1, <1>5, <1>6 DEF ScanPaid, ScanKnown, s, new

\* What the vendor did goes on the job's account, and time off its budget: a
\* generation once, a scan no larger than the maximum of the job.
LEMMA WorkedStep ==
  ASSUME StateType, NEW j \in Jobs, Ready(j, job[j]), job[j].left # 0, job[j].running,
         ScanKnown(order[j], job[j]), NEW a, NEW spent \in 0 .. 1
  PROVE  LET one == [Worked(j, job[j], a) EXCEPT !.left = @ - spent]
         IN  /\ Ready(j, one) /\ one.running = job[j].running
             /\ one.google = job[j].google /\ one.phase = job[j].phase
             /\ one.made = job[j].made + (IF Step(j) \in Generations /\ job[j].phase = 1
                                             /\ a.status \in {200, NoAnswer} THEN 1 ELSE 0)
             /\ ScanPaid(order[j], one)
             /\ Step(j) \notin {"query", "rows"} \/ job[j].phase # 2
                  => ScanKnown(order[j], one)
<1> DEFINE old == job[j]
           made == IF Step(j) \in Generations /\ old.phase = 1 /\ a.status \in {200, NoAnswer}
                   THEN old.made + 1 ELSE old.made
           billed == IF MayBill(j, a) THEN old.billed + table ELSE old.billed
           one == [Worked(j, old, a) EXCEPT !.left = @ - spent]
<1>1. old \in JobRec /\ JobInv(order[j], old) /\ old.told = None /\ old.step > 0
  BY DEF Ready
<1>2. made \in Nat /\ billed \in Nat /\ old.left - spent \in Nat /\ table \in Nat
  <2>1. old.made \in Nat /\ old.billed \in Nat /\ old.left \in Nat
    BY <1>1 DEF JobRec
  <2>2. table \in Nat
    BY SkillsAssumption DEF StateType, SkillsAssumption
  <2> QED
    BY <2>1, <2>2
<1>3. Worked(j, old, a) = [old EXCEPT !.made = made, !.billed = billed]
  BY DEF Worked
<1>0. MayBill(j, a) => /\ billed = old.billed + table /\ table <= old.limit
                       /\ Step(j) \in {"query", "rows"} /\ old.phase = 2
  BY DEF MayBill, MaximumBytesBilled
<1>m. ~MayBill(j, a) => billed = old.billed
  OBVIOUS
<1> HIDE DEF made, billed
<1>4. one = [[old EXCEPT !.made = made, !.billed = billed] EXCEPT !.left = @ - spent]
  BY <1>3
<1>5. /\ [old EXCEPT !.made = made, !.billed = billed] \in JobRec
      /\ [old EXCEPT !.made = made, !.billed = billed].left = old.left
  BY <1>1, <1>2 DEF JobRec
<1> HIDE DEF one
<1>6. one \in JobRec
  BY <1>2, <1>4, <1>5, ZenonT(30) DEF JobRec
<1>7. /\ one.step = old.step /\ one.running = old.running /\ one.todo = old.todo
      /\ one.found = old.found /\ one.read = old.read /\ one.partial = old.partial
      /\ one.told = old.told /\ one.google = old.google /\ one.made = made
      /\ one.tries = old.tries /\ one.left = old.left - spent /\ one.billed = billed
      /\ one.built = old.built /\ one.verdict = old.verdict /\ one.prov = old.prov
      /\ one.phase = old.phase /\ one.limit = old.limit
  BY <1>1, <1>4, <1>5 DEF JobRec
<1>8. Bounded(one)
  <2>1. old.left \in Nat /\ Budget \in Nat
    BY <1>1, SkillsAssumption DEF JobRec, SkillsAssumption
  <2>2. one.left <= Budget
    BY <1>1, <1>7, <2>1 DEF JobInv, Bounded
  <2> QED
    BY <1>1, <1>2, <1>7, <2>2 DEF JobInv, Bounded
<1>9. SourcesKnown(order[j], one)
  BY <1>1, <1>7 DEF JobInv, SourcesKnown
<1>10. Ready(j, one)
  BY <1>1, <1>6, <1>7, <1>8, <1>9 DEF Ready, JobInv, InPlan, BuiltWhole, GapsSaid
<1>11. one.made = old.made + (IF Step(j) \in Generations /\ old.phase = 1
                                 /\ a.status \in {200, NoAnswer} THEN 1 ELSE 0)
  <2>1. old.made \in Nat
    BY <1>1 DEF JobRec
  <2> QED
    BY <1>7, <2>1 DEF made
<1>12. CASE ~MayBill(j, a)
  <2>1. one.billed = old.billed
    BY <1>m, <1>7, <1>12
  <2>2. ScanKnown(order[j], one)
    BY <1>7, <2>1 DEF ScanKnown
  <2>3. ScanPaid(order[j], one)
    BY <1>10, <2>2, KnownIsPaid
  <2> QED
    BY <1>7, <1>10, <1>11, <2>2, <2>3 DEF one
<1>13. CASE MayBill(j, a)
  <2>1. /\ order[j] \in DataSkills /\ old.step = At(order[j])
        /\ Step(j) \in {"query", "rows"} /\ old.phase = 2
    BY <1>0, <1>13, StepFacts
  <2>2. /\ old.tries \in Nat /\ old.limit \in Nat /\ old.billed \in Nat
        /\ old.tries < MaxAttempts /\ MaxAttempts \in Nat
    BY <1>1, SkillsAssumption DEF JobRec, JobInv, Bounded, SkillsAssumption
  <2>3. old.billed <= old.tries * old.limit
    BY <1>1, <2>1 DEF ScanKnown
  <2>4. /\ (old.tries + 1) * old.limit = old.tries * old.limit + old.limit
        /\ (old.tries + 1) * old.limit <= MaxAttempts * old.limit
        /\ old.tries * old.limit \in Nat
    BY <2>2, OneMore
  <2> DEFINE before == old.tries * old.limit
             with == (old.tries + 1) * old.limit
             most == MaxAttempts * old.limit
  <2>5. most \in Nat
    BY <2>2
  <2> HIDE DEF before, with, most
  <2>6. billed <= with /\ billed <= most
    <3>1. old.billed <= before /\ with = before + old.limit /\ with <= most /\ before \in Nat
      BY <2>3, <2>4 DEF before, with, most
    <3>2. billed = old.billed + table /\ table <= old.limit
      BY <1>0, <1>13
    <3> QED
      BY <1>2, <2>2, <2>5, <3>1, <3>2
  <2>7. ~(order[j] \notin DataSkills \/ one.step < At(order[j]))
    BY <1>1, <1>7, <2>1 DEF JobRec
  <2>8. order[j] \notin {"query", "forecast"} => one.limit = Ceiling
    BY <1>7 DEF ScanKnown
  <2>9. one.billed <= MaxAttempts * one.limit /\ one.billed <= (one.tries + 1) * one.limit
    BY <1>7, <2>6 DEF with, most
  <2>10. ScanPaid(order[j], one)
    BY <1>7, <2>7, <2>8, <2>9 DEF ScanPaid
  <2> QED
    BY <1>7, <1>10, <1>11, <2>1, <2>10 DEF one
<1> QED
  BY <1>12, <1>13

\* One answer of a provider.
LEMMA AttemptStep ==
  ASSUME IInv, NEW j \in Jobs, Attempt(j)
  PROVE  Stepped(j) /\ job'[j].google = job[j].google
<1>1. /\ StateType /\ job[j].running /\ job[j].told = None /\ job[j] \in JobRec
      /\ JobInv(order[j], job[j]) /\ AskedOnce(order[j], job[j])
      /\ ScanKnown(order[j], job[j])
  BY ZenonT(30) DEF IInv, StateType, Attempt
<1>2. Ready(j, job[j])
  BY <1>1 DEF Ready, JobInv, InPlan
<1>3. /\ order[j] \in Skills /\ order[j] \notin AuditSkills /\ Step(j) \in Works
      /\ order[j] \in MediaSkills => Step(j) \in Generations
      /\ order[j] \notin MediaSkills => Step(j) \notin Generations
      /\ Step(j) = Plan(order[j])[job[j].step]
      /\ Step(j) = "sources" => order[j] \in {"research", "claims"}
  BY <1>1, <1>2, StepFacts DEF JobInv, InPlan
<1>4. job[j].prov \in 1 .. Len(Fallbacks(Step(j))) /\ job[j].phase \in {1, 2}
  BY <1>1, <1>3 DEF JobInv, InPlan, JobRec
<1>5. Step(j) = "sources" => job[j].todo > 0
  BY <1>1, <1>3 DEF JobInv, SourcesKnown
<1>6. CASE job[j].left = 0
  <2>1. StepFails(j, job[j], "failed")
    BY <1>6 DEF Attempt
  <2>2. /\ Moved(j, job[j]) /\ job'[j].told # "sold"
        /\ order[j] \in MediaSkills => job'[j].told # None
    BY <1>1, <1>2, <1>5, <2>1, FailStep
  <2>3. AskedOnce(order[j], job'[j])
    BY <1>1, <2>2 DEF AskedOnce, Moved
  <2>4. ScanKnown(order[j], job'[j])
    BY <1>1, <1>2, <2>2, KnownIsPaid, ScanMoves
  <2> QED
    BY <2>2, <2>3, <2>4 DEF Moved, Stepped
<1>7. CASE job[j].left # 0
  <2>1. PICK a \in Answers(Provider(j)), spent \in 0 .. 1 :
          LET one     == [Worked(j, job[j], a) EXCEPT !.left = @ - spent]
              outcome == Outcome(j, a)
          IN /\ (Step(j) \in {"query", "rows"} /\ job[j].phase = 2) => Scans(j, a)
             /\ \/ /\ outcome = "ok"
                   /\ IF Step(j) \in TwoPhased /\ one.phase = 1
                        THEN Set(j, [one EXCEPT !.phase = 2]) /\ UNCHANGED baseline
                        ELSE Succeeds(j, one, a)
                \/ outcome = "pending" /\ spent = 1 /\ Set(j, one) /\ UNCHANGED baseline
                \/ outcome \in {"transient", "invalid"} /\ TryAgain(j, one)
                \/ outcome \in {"permanent", "unavailable"} /\ NextProvider(j, one)
                \/ outcome = "invalid_request" /\ StepFails(j, one, "invalid")
    BY <1>7 DEF Attempt
  <2> DEFINE one == [Worked(j, job[j], a) EXCEPT !.left = @ - spent]
  <2>2. /\ Ready(j, one) /\ one.running
        /\ one.google = job[j].google /\ one.phase = job[j].phase
        /\ one.made = job[j].made + (IF Step(j) \in Generations /\ job[j].phase = 1
                                        /\ a.status \in {200, NoAnswer} THEN 1 ELSE 0)
        /\ ScanPaid(order[j], one)
        /\ Step(j) \notin {"query", "rows"} \/ one.phase # 2 => ScanKnown(order[j], one)
    <3>2. /\ Ready(j, one) /\ one.running = job[j].running
          /\ one.google = job[j].google /\ one.phase = job[j].phase
          /\ one.made = job[j].made + (IF Step(j) \in Generations /\ job[j].phase = 1
                                          /\ a.status \in {200, NoAnswer} THEN 1 ELSE 0)
          /\ ScanPaid(order[j], one)
          /\ Step(j) \notin {"query", "rows"} \/ job[j].phase # 2 => ScanKnown(order[j], one)
      BY <1>1, <1>2, <1>7, WorkedStep, ZenonT(30)
    <3> QED
      BY <1>1, <3>2
  <2>3. \/ Outcome(j, a) = "ok" /\ Step(j) \in TwoPhased /\ one.phase = 1
           /\ Set(j, [one EXCEPT !.phase = 2]) /\ UNCHANGED baseline
        \/ Outcome(j, a) = "ok" /\ ~(Step(j) \in TwoPhased /\ one.phase = 1) /\ Succeeds(j, one, a)
        \/ Outcome(j, a) = "pending" /\ Set(j, one) /\ UNCHANGED baseline
        \/ TryAgain(j, one)
        \/ NextProvider(j, one)
        \/ StepFails(j, one, "invalid")
    BY <2>1
  <2> HIDE DEF one
  <2>4. Step(j) = "sources" => one.todo > 0
    BY <1>3, <2>2 DEF Ready, JobInv, SourcesKnown
  <2>5. /\ job[j].made \in Nat
        /\ order[j] \notin MediaSkills => one.made = 0
        /\ order[j] \in MediaSkills => one.made \in {0, 1} /\ (one.phase = 2 => one.made = 1)
        /\ order[j] \in MediaSkills /\ a.status = 200 => one.made = 1
    BY <1>1, <1>3, <1>4, <2>2 DEF AskedOnce, JobRec
  <2>6. CASE Outcome(j, a) = "ok" /\ Step(j) \in TwoPhased /\ one.phase = 1
             /\ Set(j, [one EXCEPT !.phase = 2]) /\ UNCHANGED baseline
    <3> DEFINE new == [one EXCEPT !.phase = 2]
    <3>1. one \in JobRec /\ JobInv(order[j], one) /\ one.told = None
      BY <2>2 DEF Ready
    <3>2. new \in JobRec
      <4>1. 2 \in {1, 2}
        OBVIOUS
      <4> QED
        BY <3>1, <4>1 DEF JobRec
    <3>3. /\ new.step = one.step /\ new.running = one.running /\ new.todo = one.todo
          /\ new.found = one.found /\ new.read = one.read /\ new.partial = one.partial
          /\ new.told = one.told /\ new.google = one.google /\ new.made = one.made
          /\ new.tries = one.tries /\ new.left = one.left /\ new.billed = one.billed /\ new.limit = one.limit
          /\ new.built = one.built /\ new.verdict = one.verdict /\ new.prov = one.prov
          /\ new.phase = 2
      BY <3>1 DEF JobRec
    <3>4. Set(j, new) /\ UNCHANGED baseline
      BY <2>6
    <3> HIDE DEF new
    <3>5. /\ job'[j] = new /\ job' \in [Jobs -> JobRec]
          /\ \A e \in Jobs \ {j} : job'[e] = job[e]
      BY <1>1, <3>2, <3>4, SetJob
    <3>6. SourcesKnown(order[j], new)
      BY <3>1, <3>3 DEF JobInv, SourcesKnown
    <3>7. JobInv(order[j], new)
      BY <3>1, <3>3, <3>6 DEF JobInv, InPlan, Bounded, BuiltWhole, GapsSaid
    <3>8. AskedOnce(order[j], new)
      <4>1. order[j] \in MediaSkills => one.made = 1
        BY <1>3, <1>4, <2>5, <2>6, OutcomeOk
      <4> QED
        BY <2>2, <2>5, <3>1, <3>3, <4>1 DEF AskedOnce
    <3>9. ScanKnown(order[j], new)
      <4>1. ScanKnown(order[j], one)
        BY <2>2, <2>6
      <4> QED
        BY <3>3, <4>1 DEF ScanKnown
    <3> QED
      BY <2>2, <3>3, <3>4, <3>5, <3>7, <3>8, <3>9 DEF Stepped, BaselineMoves
  <2>7. CASE Outcome(j, a) = "ok" /\ ~(Step(j) \in TwoPhased /\ one.phase = 1) /\ Succeeds(j, one, a)
    <3>1. /\ Step(j) \in Generations => a.status = 200
          /\ a.body \in Texts \ {"unfinished", "limited"}
          /\ a.body = "error" => Step(j) \in {"rpc", "fetch", "inspect"}
      BY <1>3, <1>4, <2>2, <2>7, OutcomeOk
    <3>2. /\ Moved(j, one)
          /\ order[j] \in MediaSkills => job'[j].told # None
      BY <1>1, <2>2, <2>7, <3>1, SucceedsStep
    <3>3. AskedOnce(order[j], job'[j])
      BY <1>3, <2>5, <3>1, <3>2 DEF AskedOnce, Moved
    <3>4. ScanKnown(order[j], job'[j])
      BY <1>1, <2>2, <3>2, ScanMoves
    <3> QED
      BY <2>2, <3>2, <3>3, <3>4 DEF Moved, Stepped
  <2>8. CASE Outcome(j, a) = "pending" /\ Set(j, one) /\ UNCHANGED baseline
    <3>1. one \in JobRec /\ JobInv(order[j], one) /\ one.told = None
      BY <2>2 DEF Ready
    <3>2. /\ job'[j] = one /\ job' \in [Jobs -> JobRec]
          /\ \A e \in Jobs \ {j} : job'[e] = job[e]
      BY <1>1, <2>8, <3>1, SetJob
    <3>3. order[j] \in MediaSkills => one.phase = 2
      BY <1>2, <1>3, <1>4, <2>2, <2>8, PendingIsPolled
    <3>4. AskedOnce(order[j], one)
      BY <2>2, <2>5, <3>1, <3>3 DEF AskedOnce
    <3>5. ScanKnown(order[j], one)
      BY <1>2, <1>3, <1>4, <2>2, <2>8, ScanIsNeverPending
    <3> QED
      BY <2>2, <2>8, <3>1, <3>2, <3>4, <3>5 DEF Stepped, BaselineMoves
  <2>9. CASE TryAgain(j, one) \/ NextProvider(j, one) \/ StepFails(j, one, "invalid")
    <3>1. /\ Moved(j, one) /\ job'[j].told # "sold"
          /\ order[j] \in MediaSkills => job'[j].told # None
      BY <1>1, <2>2, <2>4, <2>9, TryAgainStep, NextProviderStep, FailStep
    <3>2. AskedOnce(order[j], job'[j])
      BY <2>5, <3>1 DEF AskedOnce, Moved
    <3>3. ScanKnown(order[j], job'[j])
      BY <1>1, <2>2, <3>1, ScanMoves
    <3> QED
      BY <2>2, <3>1, <3>2, <3>3 DEF Moved, Stepped
  <2> QED
    BY <2>3, <2>6, <2>7, <2>8, <2>9
<1> QED
  BY <1>6, <1>7

\* A job begins, or its input is refused.
LEMMA BeginStep ==
  ASSUME IInv, NEW j \in Jobs, Begin(j)
  PROVE  Stepped(j) /\ job'[j].google = job[j].google
<1> DEFINE old == job[j]
<1>1. /\ StateType /\ old \in JobRec /\ old.told = None /\ old.step = 0 /\ order[j] \in Skills
      /\ JobInv(order[j], old) /\ AskedOnce(order[j], old) /\ UNCHANGED baseline
      /\ ScanKnown(order[j], old)
      /\ old.running = FALSE /\ old.read = {} /\ old.partial = {}
  <2>1. StateType /\ old.told = None /\ old.step = 0 /\ UNCHANGED baseline
    BY DEF IInv, Begin
  <2>2. /\ old \in JobRec /\ order[j] \in Skills /\ JobInv(order[j], old)
        /\ AskedOnce(order[j], old) /\ ScanKnown(order[j], old)
    BY DEF IInv, StateType
  <2>3. old.running \in BOOLEAN
    BY <2>2 DEF JobRec
  <2> QED
    BY <2>1, <2>2, <2>3 DEF JobInv, InPlan
<1>2. CASE Set(j, [old EXCEPT !.told = "invalid"])
  <2> DEFINE new == [old EXCEPT !.told = "invalid"]
  <2>1. new \in JobRec
    BY <1>1 DEF JobRec
  <2>2. /\ new.step = old.step /\ new.running = old.running /\ new.todo = old.todo
        /\ new.found = old.found /\ new.read = old.read /\ new.partial = old.partial
        /\ new.told = "invalid" /\ new.google = old.google /\ new.made = old.made
        /\ new.tries = old.tries /\ new.left = old.left /\ new.billed = old.billed /\ new.limit = old.limit
        /\ new.built = old.built /\ new.verdict = old.verdict /\ new.prov = old.prov
    BY <1>1 DEF JobRec
  <2>3. Set(j, new)
    BY <1>2
  <2> HIDE DEF new
  <2>4. /\ job'[j] = new /\ job' \in [Jobs -> JobRec]
        /\ \A e \in Jobs \ {j} : job'[e] = job[e]
    BY <1>1, <2>1, <2>3, SetJob
  <2>5. SourcesKnown(order[j], new)
    BY <1>1, <2>2 DEF JobInv, SourcesKnown
  <2>6. JobInv(order[j], new)
    BY <1>1, <2>2, <2>5 DEF JobInv, InPlan, Bounded, BuiltWhole, GapsSaid
  <2>7. AskedOnce(order[j], new)
    BY <1>1, <2>2, NoneIsNoEnd DEF AskedOnce
  <2>8. ScanKnown(order[j], new)
    BY <1>1, <2>2 DEF ScanKnown, At
  <2> QED
    BY <1>1, <2>2, <2>4, <2>6, <2>7, <2>8 DEF Stepped, BaselineMoves
<1>3. ASSUME NEW n \in IF order[j] = "claims" THEN 1 .. MaxSources ELSE {0},
             NEW base \in Nat \cup {None}, NEW l \in ScanLimits(j),
             Set(j, [old EXCEPT !.step = 1, !.todo = n, !.found = n, !.limit = l, !.base = base])
      PROVE  Stepped(j) /\ job'[j].google = old.google
  <2> DEFINE new == [old EXCEPT !.step = 1, !.todo = n, !.found = n, !.limit = l, !.base = base]
  <2>0. n \in Nat /\ n <= MaxSources /\ 1 \in Nat /\ l \in Nat
    <3>1. n \in Nat /\ n <= MaxSources /\ 1 \in Nat
      BY SkillsAssumption DEF SkillsAssumption
    <3>2. l \in {Ceiling} \cup Asked
      BY DEF ScanLimits
    <3>3. Ceiling \in Nat /\ Asked \subseteq Nat
      BY SkillsAssumption DEF SkillsAssumption
    <3> QED
      BY <3>1, <3>2, <3>3
  <2>1. new \in JobRec
    <3> DEFINE half == [old EXCEPT !.step = 1, !.todo = n]
    <3>1. half \in JobRec
      BY <1>1, <2>0, ZenonT(30) DEF JobRec
    <3>2. new = [half EXCEPT !.found = n, !.limit = l, !.base = base]
      BY <1>1 DEF JobRec
    <3> HIDE DEF half, new
    <3> QED
      BY <2>0, <3>1, <3>2 DEF JobRec
  <2>2. /\ new.step = 1 /\ new.running = old.running /\ new.todo = n
        /\ new.found = n /\ new.read = old.read /\ new.partial = old.partial
        /\ new.told = old.told /\ new.google = old.google /\ new.made = old.made
        /\ new.tries = old.tries /\ new.left = old.left /\ new.billed = old.billed /\ new.limit = l
        /\ new.built = old.built /\ new.verdict = old.verdict /\ new.prov = old.prov
    BY <1>1 DEF JobRec
  <2>3. Set(j, new)
    BY <1>3
  <2> HIDE DEF new
  <2>4. /\ job'[j] = new /\ job' \in [Jobs -> JobRec]
        /\ \A e \in Jobs \ {j} : job'[e] = job[e]
    BY <1>1, <2>1, <2>3, SetJob
  <2>5. SourcesKnown(order[j], new)
    <3>1. (n + 1) .. n = {}
      BY <2>0
    <3> QED
      BY <1>1, <2>0, <2>2, <3>1, NoneIsNoEnd DEF SourcesKnown
  <2>6. Len(Plan(order[j])) \in 1 .. 3
    BY <1>1, PlanLength
  <2>7. InPlan(order[j], new) /\ Bounded(new) /\ BuiltWhole(order[j], new) /\ GapsSaid(order[j], new)
    <3>1. InPlan(order[j], old) /\ Bounded(old) /\ BuiltWhole(order[j], old) /\ GapsSaid(order[j], old)
      BY <1>1 DEF JobInv
    <3>2. InPlan(order[j], new)
      <4>1. 1 <= Len(Plan(order[j]))
        BY <2>6
      <4>2. new.told # "sold" /\ new.running = FALSE /\ new.step = 1
        BY <1>1, <2>2, NoneIsNoEnd
      <4> QED
        BY <4>1, <4>2 DEF InPlan
    <3>3. Bounded(new)
      BY <2>0, <2>2, <3>1 DEF Bounded
    <3> QED
      BY <2>2, <3>1, <3>2, <3>3 DEF BuiltWhole, GapsSaid
  <2>8. AskedOnce(order[j], new)
    BY <1>1, <2>2 DEF AskedOnce
  <2>9. ScanKnown(order[j], new)
    <3>1. new.billed = 0 /\ new.running = FALSE
      BY <1>1, <2>2 DEF ScanKnown, At
    <3>2. MaxAttempts * new.limit \in Nat
      BY <2>0, <2>2, SkillsAssumption DEF SkillsAssumption
    <3>3. order[j] \notin {"query", "forecast"} => new.limit = Ceiling
      BY <2>2 DEF ScanLimits
    <3> QED
      BY <3>1, <3>2, <3>3 DEF ScanKnown
  <2> QED
    BY <1>1, <2>2, <2>4, <2>5, <2>7, <2>8, <2>9 DEF Stepped, BaselineMoves, JobInv
<1>4. CASE (order[j] \in UrlSkills /\ ~site.hops[1]) \/ (order[j] = "check" /\ baseline = None)
  BY <1>2, <1>4 DEF Begin
<1>5. CASE ~((order[j] \in UrlSkills /\ ~site.hops[1]) \/ (order[j] = "check" /\ baseline = None))
  <2>1. PICK n \in IF order[j] = "claims" THEN 1 .. MaxSources ELSE {0}, l \in ScanLimits(j) :
          Set(j, [job[j] EXCEPT !.step = 1, !.todo = n, !.found = n, !.limit = l,
                    !.base = IF order[j] = "check" THEN baseline.version ELSE None])
    BY <1>5 DEF Begin
  <2> DEFINE base == IF order[j] = "check" THEN baseline.version ELSE None
  <2>2. base \in Nat \cup {None}
    BY <1>1, <1>5 DEF StateType
  <2>3. Set(j, [old EXCEPT !.step = 1, !.todo = n, !.found = n, !.limit = l, !.base = base])
    BY <2>1
  <2> HIDE DEF base
  <2> QED
    BY <1>3, <2>2, <2>3
<1> QED
  BY <1>4, <1>5

\* A job between two steps, ready to go on.
LEMMA IdleReady ==
  ASSUME IInv, NEW j \in Jobs, Idle(j)
  PROVE  /\ StateType /\ Ready(j, job[j]) /\ AskedOnce(order[j], job[j])
         /\ job[j].running = FALSE /\ job[j] \in JobRec /\ ScanKnown(order[j], job[j])
<1>1. /\ StateType /\ job[j] \in JobRec /\ JobInv(order[j], job[j])
      /\ AskedOnce(order[j], job[j]) /\ ScanKnown(order[j], job[j])
  BY DEF IInv, StateType
<1>2. job[j].running \in BOOLEAN
  BY <1>1 DEF JobRec
<1> QED
  BY <1>1, <1>2 DEF Idle, Ready

\* A step begins with the providers that are configured, and a job that asks
\* for the Google ones is told what the lookup says.
LEMMA StartStepStep ==
  ASSUME IInv, NEW j \in Jobs, StartStep(j)
  PROVE  /\ Stepped(j)
         /\ \/ job'[j].google = job[j].google /\ UNCHANGED lookup
            \/ \E creds \in BOOLEAN : Configured(creds) /\ job'[j].google = creds
<1> DEFINE old == job[j]
<1>1. /\ StateType /\ Ready(j, old) /\ AskedOnce(order[j], old) /\ ScanKnown(order[j], old)
      /\ old.running = FALSE /\ old \in JobRec /\ JobInv(order[j], old) /\ old.told = None
      /\ order[j] \notin AuditSkills /\ (Step(j) = "sources" => old.todo > 0)
  BY IdleReady DEF StartStep, IsAudit, AuditSkills, Ready
<1>2. /\ Step(j) \in Works /\ Step(j) = Plan(order[j])[old.step] /\ old.step > 0
      /\ order[j] \notin MediaSkills => Step(j) \notin Generations
  BY <1>1, StepFacts DEF Ready
<1>3. 1 \in 1 .. Len(Fallbacks(Step(j)))
  <2>1. Len(Fallbacks(Step(j))) \in {1, 2}
    BY <1>2, FallbackFacts
  <2> QED
    BY <2>1
<1>4. ASSUME NEW google \in BOOLEAN \cup {None}, UNCHANGED baseline,
             Set(j, [old EXCEPT !.running = TRUE, !.prov = 1, !.tries = 0, !.phase = 1,
                                !.google = google])
      PROVE  Stepped(j) /\ job'[j].google = google
  <2> DEFINE new == [old EXCEPT !.running = TRUE, !.prov = 1, !.tries = 0, !.phase = 1,
                                !.google = google]
  <2>1. new \in JobRec
    <3> DEFINE half == [old EXCEPT !.running = TRUE, !.prov = 1, !.tries = 0]
    <3>1. TRUE \in BOOLEAN /\ 1 \in Nat /\ 0 \in Nat /\ 1 \in {1, 2}
      OBVIOUS
    <3>2. half \in JobRec
      BY <1>1, <3>1, ZenonT(30) DEF JobRec
    <3>3. new = [half EXCEPT !.phase = 1, !.google = google]
      BY <1>1 DEF JobRec
    <3> HIDE DEF half, new
    <3> QED
      BY <3>1, <3>2, <3>3 DEF JobRec
  <2>2. /\ new.step = old.step /\ new.running = TRUE /\ new.todo = old.todo
        /\ new.found = old.found /\ new.read = old.read /\ new.partial = old.partial
        /\ new.told = old.told /\ new.google = google /\ new.made = old.made
        /\ new.tries = 0 /\ new.left = old.left /\ new.billed = old.billed /\ new.limit = old.limit
        /\ new.built = old.built /\ new.verdict = old.verdict /\ new.prov = 1 /\ new.phase = 1
    BY <1>1 DEF JobRec
  <2>3. Set(j, new)
    BY <1>4
  <2> HIDE DEF new
  <2>4. /\ job'[j] = new /\ job' \in [Jobs -> JobRec]
        /\ \A e \in Jobs \ {j} : job'[e] = job[e]
    BY <1>1, <2>1, <2>3, SetJob
  <2>5. SourcesKnown(order[j], new)
    BY <1>1, <1>2, <2>2 DEF JobInv, SourcesKnown
  <2>6. Bounded(new)
    BY <1>1, <2>2, SkillsAssumption DEF JobInv, Bounded, SkillsAssumption
  <2>7. InPlan(order[j], new) /\ BuiltWhole(order[j], new) /\ GapsSaid(order[j], new)
    BY <1>1, <1>2, <1>3, <2>2 DEF JobInv, InPlan, BuiltWhole, GapsSaid
  <2>8. AskedOnce(order[j], new)
    BY <1>1, <2>2 DEF AskedOnce
  <2>9. ScanKnown(order[j], new)
    <3>1. old.billed \in Nat /\ old.limit \in Nat
      BY <1>1 DEF JobRec
    <3>2. order[j] \in DataSkills /\ old.step = At(order[j]) => old.billed = 0
      BY <1>1, <3>1 DEF ScanKnown
    <3>3. 0 * old.limit = 0
      BY <3>1
    <3> QED
      BY <1>1, <2>2, <3>1, <3>2, <3>3 DEF ScanKnown
  <2> QED
    BY <1>4, <2>2, <2>4, <2>5, <2>6, <2>7, <2>8, <2>9 DEF Stepped, BaselineMoves, JobInv
<1>5. CASE old.left = 0
  <2>1. StepFails(j, old, "failed") /\ UNCHANGED lookup
    BY <1>5 DEF StartStep
  <2>2. /\ Moved(j, old) /\ job'[j].told # "sold"
        /\ order[j] \in MediaSkills => job'[j].told # None
    BY <1>1, <2>1, FailStep
  <2>3. AskedOnce(order[j], job'[j])
    BY <1>1, <2>2 DEF AskedOnce, Moved
  <2>4. ScanKnown(order[j], job'[j])
    BY <1>1, <2>2, KnownIsPaid, ScanMoves
  <2> QED
    BY <2>1, <2>2, <2>3, <2>4 DEF Moved, Stepped
<1>6. CASE old.left # 0 /\ Fallbacks(Step(j))[1] \notin Google
  <2> DEFINE google == old.google
  <2>1. /\ Set(j, [old EXCEPT !.running = TRUE, !.prov = 1, !.tries = 0, !.phase = 1])
        /\ UNCHANGED <<lookup, baseline>>
    BY <1>6 DEF StartStep
  <2>2. [old EXCEPT !.running = TRUE, !.prov = 1, !.tries = 0, !.phase = 1]
          = [old EXCEPT !.running = TRUE, !.prov = 1, !.tries = 0, !.phase = 1, !.google = google]
    BY <1>1 DEF JobRec
  <2>3. google \in BOOLEAN \cup {None}
    BY <1>1 DEF JobRec
  <2> HIDE DEF google
  <2>4. Stepped(j) /\ job'[j].google = google
    BY <1>4, <2>1, <2>2, <2>3
  <2> QED
    BY <2>1, <2>4 DEF google
<1>7. CASE old.left # 0 /\ Fallbacks(Step(j))[1] \in Google
  <2>1. PICK creds \in BOOLEAN :
          /\ Configured(creds)
          /\ IF creds
               THEN /\ Set(j, [job[j] EXCEPT !.running = TRUE, !.prov = 1, !.tries = 0,
                                             !.phase = 1, !.google = TRUE])
                    /\ UNCHANGED baseline
               ELSE StepFails(j, [job[j] EXCEPT !.google = FALSE], "failed")
    BY <1>7 DEF StartStep
  <2>2. CASE creds
    <3>1. Stepped(j) /\ job'[j].google = TRUE
      BY <1>4, <2>1, <2>2
    <3> QED
      BY <2>1, <2>2, <3>1
  <2>3. CASE ~creds
    <3> DEFINE one == [old EXCEPT !.google = FALSE]
    <3>1. StepFails(j, one, "failed")
      BY <2>1, <2>3
    <3>2. one \in JobRec
      BY <1>1, ZenonT(30) DEF JobRec
    <3>3. /\ one.step = old.step /\ one.running = old.running /\ one.todo = old.todo
          /\ one.found = old.found /\ one.read = old.read /\ one.partial = old.partial
          /\ one.told = old.told /\ one.google = FALSE /\ one.made = old.made
          /\ one.tries = old.tries /\ one.left = old.left /\ one.billed = old.billed /\ one.limit = old.limit
          /\ one.built = old.built /\ one.verdict = old.verdict /\ one.prov = old.prov
      BY <1>1 DEF JobRec
    <3> HIDE DEF one
    <3>4. SourcesKnown(order[j], one)
      BY <1>1, <3>3 DEF JobInv, SourcesKnown
    <3>5. Ready(j, one)
      BY <1>1, <3>2, <3>3, <3>4 DEF Ready, JobInv, InPlan, Bounded, BuiltWhole, GapsSaid
    <3>6. /\ Moved(j, one) /\ job'[j].told # "sold"
          /\ order[j] \in MediaSkills => job'[j].told # None
      BY <1>1, <3>1, <3>3, <3>5, FailStep
    <3>7. AskedOnce(order[j], job'[j])
      BY <1>1, <3>3, <3>6 DEF AskedOnce, Moved
    <3>8. ScanKnown(order[j], job'[j])
      <4>1. ScanKnown(order[j], one)
        BY <1>1, <3>3 DEF ScanKnown
      <4> QED
        BY <1>1, <3>5, <3>6, <4>1, KnownIsPaid, ScanMoves
    <3>9. Stepped(j) /\ job'[j].google = creds
      BY <2>3, <3>3, <3>6, <3>7, <3>8 DEF Moved, Stepped
    <3> QED
      BY <2>1, <3>9
  <2> QED
    BY <2>2, <2>3
<1> QED
  BY <1>5, <1>6, <1>7

\* With too little time left a source is named as not read; when all were
\* looked at, the job goes on if one was read.
LEMMA SourcesStep ==
  ASSUME IInv, NEW j \in Jobs, SkipSource(j) \/ SourcesDone(j)
  PROVE  Stepped(j) /\ job'[j].google = job[j].google
<1> DEFINE old == job[j]
<1>1. /\ StateType /\ Ready(j, old) /\ AskedOnce(order[j], old) /\ ScanKnown(order[j], old)
      /\ old.running = FALSE /\ old \in JobRec /\ JobInv(order[j], old) /\ old.told = None
      /\ Step(j) = "sources"
  BY IdleReady DEF SkipSource, SourcesDone, Ready
<1>2. /\ order[j] \in {"research", "claims"} /\ order[j] \notin MediaSkills /\ order[j] # "check"
  BY <1>1, StepFacts DEF MediaSkills
<1>3. ASSUME Moved(j, old) PROVE Stepped(j) /\ job'[j].google = old.google
  <2>1. AskedOnce(order[j], job'[j])
    BY <1>1, <1>2, <1>3 DEF AskedOnce, Moved
  <2>2. ScanKnown(order[j], job'[j])
    BY <1>1, <1>3, KnownIsPaid, ScanMoves
  <2> QED
    BY <1>3, <2>1, <2>2 DEF Moved, Stepped
<1>4. CASE SkipSource(j)
  BY <1>1, <1>3, <1>4, FailStep DEF SkipSource
<1>5. CASE SourcesDone(j) /\ old.read # {}
  <2>1. Advance(j, old) /\ old.todo = 0
    BY <1>5 DEF SourcesDone
  <2> QED
    BY <1>1, <1>2, <1>3, <1>5, <2>1, AdvanceStep
<1>6. CASE SourcesDone(j) /\ old.read = {}
  <2> DEFINE new == [old EXCEPT !.told = "failed"]
  <2>1. new \in JobRec
    BY <1>1 DEF JobRec
  <2>2. /\ new.step = old.step /\ new.running = old.running /\ new.todo = old.todo
        /\ new.found = old.found /\ new.read = old.read /\ new.partial = old.partial
        /\ new.told = "failed" /\ new.google = old.google /\ new.made = old.made
        /\ new.tries = old.tries /\ new.left = old.left /\ new.billed = old.billed /\ new.limit = old.limit
        /\ new.built = old.built /\ new.verdict = old.verdict /\ new.prov = old.prov
    BY <1>1 DEF JobRec
  <2>3. Set(j, new) /\ UNCHANGED baseline
    BY <1>6 DEF SourcesDone
  <2> HIDE DEF new
  <2>4. /\ job'[j] = new /\ job' \in [Jobs -> JobRec]
        /\ \A e \in Jobs \ {j} : job'[e] = job[e]
    BY <1>1, <2>1, <2>3, SetJob
  <2>5. SourcesKnown(order[j], new)
    BY <1>1, <2>2 DEF JobInv, SourcesKnown
  <2>6. JobInv(order[j], new)
    BY <1>1, <2>2, <2>5 DEF JobInv, InPlan, Bounded, BuiltWhole, GapsSaid
  <2>7. Moved(j, old)
    <3>1. Goes(j, old)
      BY <1>1, <2>2, <2>4, NoneIsNoEnd DEF Goes, JobRec
    <3> QED
      BY <2>2, <2>3, <2>4, <2>6, <3>1 DEF Moved, BaselineMoves
  <2> QED
    BY <1>3, <2>7
<1> QED
  BY <1>4, <1>5, <1>6

\* An audit that ran becomes part of the result, one that did not ends the job.
LEMMA AuditStepStep ==
  ASSUME IInv, NEW j \in Jobs, Idle(j), order[j] \in AuditSkills, NEW verdict \in Verdicts,
         AuditStep(j, verdict), verdict.ran => site.status = 200 \/ order[j] = "security",
         order[j] = "performance" => verdict.gaps \subseteq verdict.said
  PROVE  Stepped(j) /\ job'[j].google = job[j].google
<1> DEFINE old == job[j]
<1>1. /\ StateType /\ Ready(j, old) /\ AskedOnce(order[j], old) /\ ScanKnown(order[j], old)
      /\ old.running = FALSE /\ old \in JobRec /\ JobInv(order[j], old) /\ old.told = None
      /\ old.step = job[j].step /\ old.step > 0
  BY IdleReady DEF Ready
<1>2. /\ Step(j) \in Loads /\ Step(j) # "sources" /\ order[j] # "check"
      /\ order[j] \notin MediaSkills
      /\ order[j] \notin {"research", "claims"}
  BY <1>1, StepFacts DEF MediaSkills, AuditSkills, Loads
<1>3. CASE verdict.ran
  <2> DEFINE sum == [ran |-> TRUE, pass |-> old.verdict.pass /\ verdict.pass,
                     gaps |-> old.verdict.gaps \cup verdict.gaps,
                     said |-> old.verdict.said \cup verdict.said]
             b == [step |-> Step(j), body |-> IF site.status = 200 THEN "value" ELSE "error"]
             new == [old EXCEPT !.verdict = sum, !.built = @ \cup {b}]
  <2>1. Advance(j, new)
    BY <1>3 DEF AuditStep
  <2>2. sum \in Verdicts /\ sum.gaps = old.verdict.gaps \cup verdict.gaps
        /\ sum.said = old.verdict.said \cup verdict.said
    <3>1. old.verdict \in Verdicts
      BY <1>1 DEF JobRec
    <3> QED
      BY <3>1 DEF Verdicts
  <2>3. /\ b \in [step : Works \cup Loads, body : Texts] /\ b.body \in {"value", "error"}
        /\ b.body = "error" => order[j] = "security"
    BY <1>2, <1>3 DEF Texts
  <2> HIDE DEF sum, b
  <2>4. new \in JobRec
    <3>1. old.built \cup {b} \in SUBSET [step : Works \cup Loads, body : Texts]
      BY <1>1, <2>3 DEF JobRec
    <3> QED
      BY <1>1, <2>2, <3>1, ZenonT(30) DEF JobRec
  <2>5. /\ new.step = old.step /\ new.running = old.running /\ new.todo = old.todo
        /\ new.found = old.found /\ new.read = old.read /\ new.partial = old.partial
        /\ new.told = old.told /\ new.google = old.google /\ new.made = old.made
        /\ new.tries = old.tries /\ new.left = old.left /\ new.billed = old.billed /\ new.limit = old.limit
        /\ new.built = old.built \cup {b} /\ new.verdict = sum /\ new.prov = old.prov
    BY <1>1 DEF JobRec
  <2> HIDE DEF new
  <2>6. BuiltWhole(order[j], new)
    BY <1>1, <2>3, <2>5 DEF JobInv, BuiltWhole
  <2>7. GapsSaid(order[j], new)
    BY <1>1, <2>2, <2>5 DEF JobInv, GapsSaid
  <2>8. Ready(j, new)
    BY <1>1, <1>2, <2>4, <2>5, <2>6, <2>7 DEF Ready, JobInv, InPlan, Bounded, SourcesKnown
  <2>9. Moved(j, new)
    BY <1>1, <1>2, <2>1, <2>8, AdvanceStep
  <2>10. AskedOnce(order[j], job'[j])
    BY <1>1, <1>2, <2>5, <2>9 DEF AskedOnce, Moved
  <2>11. ScanKnown(order[j], job'[j])
    <3>1. ScanKnown(order[j], new)
      BY <1>1, <2>5 DEF ScanKnown
    <3> QED
      BY <1>1, <2>8, <2>9, <3>1, KnownIsPaid, ScanMoves
  <2> QED
    BY <2>5, <2>9, <2>10, <2>11 DEF Moved, Stepped
<1>4. CASE ~verdict.ran
  <2> DEFINE new == [old EXCEPT !.told = "failed"]
  <2>1. new \in JobRec
    BY <1>1 DEF JobRec
  <2>2. /\ new.step = old.step /\ new.running = old.running /\ new.todo = old.todo
        /\ new.found = old.found /\ new.read = old.read /\ new.partial = old.partial
        /\ new.told = "failed" /\ new.google = old.google /\ new.made = old.made
        /\ new.tries = old.tries /\ new.left = old.left /\ new.billed = old.billed /\ new.limit = old.limit
        /\ new.built = old.built /\ new.verdict = old.verdict /\ new.prov = old.prov
    BY <1>1 DEF JobRec
  <2>3. Set(j, new) /\ UNCHANGED baseline
    BY <1>4 DEF AuditStep
  <2> HIDE DEF new
  <2>4. /\ job'[j] = new /\ job' \in [Jobs -> JobRec]
        /\ \A e \in Jobs \ {j} : job'[e] = job[e]
    BY <1>1, <2>1, <2>3, SetJob
  <2>5. JobInv(order[j], new)
    BY <1>1, <1>2, <2>2 DEF JobInv, InPlan, Bounded, BuiltWhole, GapsSaid, SourcesKnown
  <2>6. AskedOnce(order[j], new)
    BY <1>1, <1>2, <2>2 DEF AskedOnce
  <2>7. ScanKnown(order[j], new)
    BY <1>1, <2>2, NoneIsNoEnd DEF ScanKnown
  <2> QED
    BY <2>2, <2>3, <2>4, <2>5, <2>6, <2>7 DEF Stepped, BaselineMoves
<1> QED
  BY <1>3, <1>4

\* The audits: a page that answers with an error is not audited, but for its
\* headers; a performance audit says what it could not weigh.
LEMMA LoadStep ==
  ASSUME IInv, NEW j \in Jobs, LoadPage(j) \/ GetPage(j)
  PROVE  Stepped(j) /\ job'[j].google = job[j].google
<1>1. /\ Idle(j) /\ order[j] \in AuditSkills
      /\ site.status \in {200, 404, 500}
  BY DEF LoadPage, GetPage, IsAudit, AuditSkills, IInv, StateType
<1>2. /\ Step(j) = "page" => order[j] \in {"wcag", "performance", "bundle"}
      /\ Step(j) = "get" => order[j] \in {"seo", "security", "bundle"}
  <2>1. StateType /\ Ready(j, job[j])
    BY <1>1, IdleReady, ZenonT(30)
  <2> QED
    BY <2>1, StepFacts
<1>3. NotRun \in Verdicts /\ ~NotRun.ran /\ NotRun.gaps \subseteq NotRun.said
  BY DEF NotRun, Verdicts
<1>4. ASSUME NEW pass \in BOOLEAN, NEW gaps \in SUBSET Unseen, NEW said \in SUBSET Unseen
      PROVE  /\ Verdict(pass, gaps, said) \in Verdicts
             /\ Verdict(pass, gaps, said).pass = pass
             /\ Verdict(pass, gaps, said).gaps = gaps /\ Verdict(pass, gaps, said).said = said
  BY DEF Verdict, Verdicts
<1>5. CASE LoadPage(j)
  <2>1. PICK st \in {site.status, NoAnswer}, frames \in {"reached", "refused"},
             bodies \in {"kept", "dropped"} :
          LET page == Pages[site.version] IN
            AuditStep(j, IF ~GotoGuarded(site.hops, st) THEN NotRun
                         ELSE CASE order[j] = "wcag"        -> RunAxe(page.wcag, frames)
                                [] order[j] = "performance" -> PerformanceAudit(page.performance, bodies)
                                [] order[j] = "bundle"      -> AxeAndPerformance(page, frames, bodies))
    BY <1>5 DEF LoadPage
  <2> DEFINE page == Pages[site.version]
  <2>2. CASE ~GotoGuarded(site.hops, st)
    <3>1. AuditStep(j, NotRun)
      BY <2>1, <2>2
    <3> QED
      BY <1>1, <1>3, <3>1, AuditStepStep
  <2>3. CASE GotoGuarded(site.hops, st)
    <3>1. site.status = 200
      BY <1>1, <2>3 DEF GotoGuarded, NoAnswer
    <3>2. /\ RunAxe(page.wcag, frames) \in Verdicts
          /\ PerformanceAudit(page.performance, bodies) \in Verdicts
          /\ PerformanceAudit(page.performance, bodies).gaps = PerformanceAudit(page.performance, bodies).said
          /\ AxeAndPerformance(page, frames, bodies) \in Verdicts
      <4> DEFINE clean  == page.wcag = {}
                 light  == page.performance = {}
                 gap    == IF frames = "refused" THEN {"frame"} ELSE {}
                 lost   == Weighed(bodies)
                 weight == PerformanceResult(page.performance, Weighed(bodies), {})
      <4>1. /\ clean \in BOOLEAN /\ light \in BOOLEAN
            /\ gap \in SUBSET Unseen /\ lost \in SUBSET Unseen /\ {} \in SUBSET Unseen
        <5>1. {"frame"} \in SUBSET Unseen /\ {"bytes"} \in SUBSET Unseen /\ {} \in SUBSET Unseen
          BY DEF Unseen
        <5>2. clean \in BOOLEAN /\ light \in BOOLEAN
          OBVIOUS
        <5>3. lost \in {{"bytes"}, {}} /\ gap \in {{"frame"}, {}}
          BY DEF Weighed
        <5> QED
          BY <5>1, <5>2, <5>3
      <4>a. /\ RunAxe(page.wcag, frames) = Verdict(clean, gap, {})
            /\ PerformanceAudit(page.performance, bodies) = Verdict(light, lost, lost)
            /\ weight = Verdict(light, lost, {})
        BY DEF RunAxe, PerformanceAudit, PerformanceResult
      <4> HIDE DEF clean, light, gap, lost, weight
      <4>2. /\ RunAxe(page.wcag, frames) \in Verdicts
            /\ RunAxe(page.wcag, frames).pass \in BOOLEAN
            /\ RunAxe(page.wcag, frames).gaps \in SUBSET Unseen
            /\ RunAxe(page.wcag, frames).said \in SUBSET Unseen
        <5>1. /\ Verdict(clean, gap, {}) \in Verdicts
              /\ Verdict(clean, gap, {}).pass = clean
              /\ Verdict(clean, gap, {}).gaps = gap /\ Verdict(clean, gap, {}).said = {}
          BY <1>4, <4>1
        <5> QED
          BY <4>1, <4>a, <5>1, Zenon
      <4>3. /\ PerformanceAudit(page.performance, bodies) \in Verdicts
            /\ PerformanceAudit(page.performance, bodies).gaps = lost
            /\ PerformanceAudit(page.performance, bodies).said = lost
        BY <1>4, <4>1, <4>a
      <4>4. weight.pass \in BOOLEAN /\ weight.gaps \in SUBSET Unseen /\ weight.said \in SUBSET Unseen
        <5>1. /\ Verdict(light, lost, {}).pass = light
              /\ Verdict(light, lost, {}).gaps = lost /\ Verdict(light, lost, {}).said = {}
          BY <1>4, <4>1
        <5> QED
          BY <4>1, <4>a, <5>1, Zenon
      <4>5. AxeAndPerformance(page, frames, bodies)
              = Verdict(RunAxe(page.wcag, frames).pass /\ weight.pass,
                        RunAxe(page.wcag, frames).gaps \cup weight.gaps,
                        RunAxe(page.wcag, frames).said \cup weight.said)
        BY DEF AxeAndPerformance, weight
      <4>6. AxeAndPerformance(page, frames, bodies) \in Verdicts
        BY <1>4, <4>2, <4>4, <4>5
      <4> QED
        BY <4>2, <4>3, <4>6
    <3>3. Step(j) = "page"
      BY <1>5 DEF LoadPage
    <3>4. CASE order[j] = "wcag"
      <4>1. AuditStep(j, RunAxe(page.wcag, frames))
        BY <2>1, <2>3, <3>4
      <4> QED
        BY <1>1, <3>1, <3>2, <3>4, <4>1, AuditStepStep
    <3>5. CASE order[j] = "performance"
      <4>1. AuditStep(j, PerformanceAudit(page.performance, bodies))
        BY <2>1, <2>3, <3>5
      <4> QED
        BY <1>1, <3>1, <3>2, <3>5, <4>1, AuditStepStep
    <3>6. CASE order[j] = "bundle"
      <4>1. AuditStep(j, AxeAndPerformance(page, frames, bodies))
        BY <2>1, <2>3, <3>6
      <4> QED
        BY <1>1, <3>1, <3>2, <3>6, <4>1, AuditStepStep
    <3> QED
      BY <1>2, <3>3, <3>4, <3>5, <3>6
  <2> QED
    BY <2>2, <2>3
<1>6. CASE GetPage(j)
  <2>1. PICK st \in {site.status, NoAnswer} :
          LET page == Pages[site.version]
              seo  == SeoAudit(st, page.seo)
              sec  == SecurityAudit(page.security)
          IN AuditStep(j, IF ~FetchOnce(site.hops, st) THEN NotRun
                          ELSE CASE order[j] = "seo"      -> seo
                                 [] order[j] = "security" -> sec
                                 [] order[j] = "bundle"   -> [seo EXCEPT !.pass = @ /\ sec.pass])
    BY <1>6 DEF GetPage
  <2> DEFINE page == Pages[site.version]
             seo  == SeoAudit(st, page.seo)
             sec  == SecurityAudit(page.security)
             both == [seo EXCEPT !.pass = @ /\ sec.pass]
  <2>2. CASE ~FetchOnce(site.hops, st)
    <3>1. AuditStep(j, NotRun)
      BY <2>1, <2>2
    <3> QED
      BY <1>1, <1>3, <3>1, AuditStepStep
  <2>3. CASE FetchOnce(site.hops, st)
    <3>1. st = site.status
      BY <2>3 DEF FetchOnce
    <3>2. /\ seo \in Verdicts /\ (seo.ran => st = 200)
          /\ sec \in Verdicts
      BY DEF SeoAudit, SecurityAudit, HasBlockingFinding, Verdict, Verdicts, NotRun
    <3> HIDE DEF seo, sec
    <3>3. both \in Verdicts /\ both.ran = seo.ran
      BY <3>2 DEF Verdicts
    <3>4. Step(j) = "get"
      BY <1>6 DEF GetPage
    <3>5. CASE order[j] = "seo"
      <4>1. AuditStep(j, seo)
        BY <2>1, <2>3, <3>5 DEF seo
      <4> QED
        BY <1>1, <3>1, <3>2, <3>5, <4>1, AuditStepStep
    <3>6. CASE order[j] = "security"
      <4>1. AuditStep(j, sec)
        BY <2>1, <2>3, <3>6 DEF sec
      <4> QED
        BY <1>1, <3>1, <3>2, <3>6, <4>1, AuditStepStep
    <3>7. CASE order[j] = "bundle"
      <4>1. AuditStep(j, both)
        BY <2>1, <2>3, <3>7 DEF seo, sec
      <4> HIDE DEF both
      <4> QED
        BY <1>1, <3>1, <3>2, <3>3, <3>7, <4>1, AuditStepStep
    <3> QED
      BY <1>2, <3>4, <3>5, <3>6, <3>7
  <2> QED
    BY <2>2, <2>3
<1> QED
  BY <1>5, <1>6

-----------------------------------------------------------------------------
(* The steps *)

\* Whatever a job does, it was under way, and it moves as the lemmas above say.
LEMMA JobMoves ==
  ASSUME IInv, NEW j \in Jobs, JobStep(j)
  PROVE  /\ Stepped(j) /\ job[j].told = None /\ UNCHANGED outside
         /\ \/ job'[j].google = job[j].google /\ UNCHANGED lookup
            \/ \E creds \in BOOLEAN : Configured(creds) /\ job'[j].google = creds
<1>1. CASE Begin(j)
  BY <1>1, BeginStep DEF Begin
<1>2. CASE StartStep(j)
  BY <1>2, StartStepStep DEF StartStep, Idle
<1>3. CASE SkipSource(j)
  BY <1>3, SourcesStep DEF SkipSource, Idle
<1>4. CASE SourcesDone(j)
  BY <1>4, SourcesStep DEF SourcesDone, Idle
<1>5. CASE Attempt(j)
  BY <1>5, AttemptStep DEF Attempt
<1>6. CASE LoadPage(j)
  BY <1>6, LoadStep DEF LoadPage, Idle
<1>7. CASE GetPage(j)
  BY <1>7, LoadStep DEF GetPage, Idle
<1> QED
  BY <1>1, <1>2, <1>3, <1>4, <1>5, <1>6, <1>7 DEF JobStep

\* A step of one job keeps the invariant: a sold job never moves again, so the
\* baseline it left stays one that was told.
LEMMA JobStepKeeps ==
  ASSUME IInv, NEW j \in Jobs, JobStep(j)
  PROVE  IInv'
<1>1. /\ job' \in [Jobs -> JobRec] /\ \A e \in Jobs \ {j} : job'[e] = job[e]
      /\ JobInv(order[j], job'[j]) /\ AskedOnce(order[j], job'[j])
      /\ ScanKnown(order[j], job'[j]) /\ BaselineMoves(j)
      /\ job[j].told = None /\ order' = order /\ site' = site /\ table' = table
      /\ \/ job'[j].google = job[j].google /\ UNCHANGED lookup
         \/ \E creds \in BOOLEAN : Configured(creds) /\ job'[j].google = creds
  BY JobMoves DEF Stepped, outside
<1>2. StateType /\ BaselineIsTold /\ OneCredentialAnswer
  BY DEF IInv
<1>3. lookup' \in [state : {"unasked", "resolving", "done"}, creds : BOOLEAN]
  BY <1>1, <1>2 DEF StateType, Configured
<1>4. baseline' = None \/ baseline' \in [version : Nat \cup {None}, by : Jobs]
  <2>1. job'[j].page \in Nat \cup {None}
    BY <1>1 DEF JobRec
  <2> QED
    BY <1>1, <1>2, <2>1 DEF BaselineMoves, StateType
<1>5. StateType'
  BY <1>1, <1>2, <1>3, <1>4 DEF StateType
<1>6. \A e \in Jobs : /\ JobInv(order'[e], job'[e]) /\ AskedOnce(order'[e], job'[e])
                       /\ ScanKnown(order'[e], job'[e])
  BY <1>1 DEF IInv
<1>7. BaselineIsTold'
  <2> SUFFICES ASSUME baseline' # None
               PROVE  /\ job'[baseline'.by].told = "sold"
                      /\ job'[baseline'.by].page = baseline'.version
                      /\ order[baseline'.by] = "check"
                         /\ job'[baseline'.by].base # job'[baseline'.by].page
                           => \E b \in job'[baseline'.by].built : b.step = "analyze"
    BY <1>1 DEF BaselineIsTold, BuiltOf
  <2>1. CASE UNCHANGED baseline
    <3>1. /\ job[baseline.by].told = "sold" /\ job[baseline.by].page = baseline.version
          /\ order[baseline.by] = "check" /\ job[baseline.by].base # job[baseline.by].page
               => \E b \in job[baseline.by].built : b.step = "analyze"
      BY <1>2, <2>1 DEF BaselineIsTold, BuiltOf
    <3>2. baseline.by \in Jobs
      BY <1>2, <2>1 DEF StateType
    <3>3. baseline.by # j
      BY <1>1, <3>1, NoneIsNoEnd
    <3> QED
      BY <1>1, <2>1, <3>1, <3>2, <3>3
  <2>2. CASE ~UNCHANGED baseline
    BY <1>1, <2>2 DEF BaselineMoves
  <2> QED
    BY <2>1, <2>2
<1>8. OneCredentialAnswer'
  <2>1. CASE job'[j].google = job[j].google /\ UNCHANGED lookup
    BY <1>1, <1>2, <2>1 DEF OneCredentialAnswer
  <2>2. ASSUME NEW creds \in BOOLEAN, Configured(creds), job'[j].google = creds
        PROVE  OneCredentialAnswer'
    <3>1. lookup'.state = "done" /\ lookup'.creds = creds
      BY <2>2 DEF Configured
    <3>2. \A e \in Jobs : job[e].google # None => job[e].google = creds
      BY <1>2, <2>2 DEF OneCredentialAnswer, Configured
    <3> QED
      BY <1>1, <2>2, <3>1, <3>2 DEF OneCredentialAnswer
  <2> QED
    BY <1>1, <2>1, <2>2
<1> QED
  BY <1>5, <1>6, <1>7, <1>8 DEF IInv

\* Nothing has happened yet.
LEMMA InitHolds == Init => IInv
<1> SUFFICES ASSUME Init PROVE IInv
  OBVIOUS
<1>1. /\ MaxJobs \in Nat /\ order \in Orders /\ order \in Seq(Skills) /\ Len(order) = MaxJobs
  BY SkillsAssumption DEF Init, SkillsAssumption
<1>2. order \in [Jobs -> Skills]
  BY <1>1 DEF Jobs
<1>3. site \in [version : 1 .. Len(Pages), status : {200, 404, 500}, hops : Routes]
  BY SkillsAssumption DEF Init, SkillsAssumption
<1>4. /\ table \in 1 .. MaxTable /\ baseline = None
      /\ lookup \in [state : {"unasked", "resolving", "done"}, creds : BOOLEAN]
  BY SkillsAssumption DEF Init, SkillsAssumption
<1>5. NewJob \in JobRec
  <2>1. Verdict(TRUE, {}, {}) \in Verdicts
    BY DEF Verdict, Verdicts
  <2>2. Budget \in Nat /\ Ceiling \in Nat
    BY SkillsAssumption DEF SkillsAssumption
  <2> QED
    BY <2>1, <2>2 DEF NewJob, JobRec
<1>6. job \in [Jobs -> JobRec] /\ \A j \in Jobs : job[j] = NewJob
  BY <1>5 DEF Init
<1>7. ASSUME NEW s \in Skills PROVE JobInv(s, NewJob) /\ AskedOnce(s, NewJob) /\ ScanKnown(s, NewJob)
  <2>1. /\ NewJob.step = 0 /\ NewJob.running = FALSE /\ NewJob.told = None /\ NewJob.tries = 0
        /\ NewJob.left = Budget /\ NewJob.todo = 0 /\ NewJob.found = 0 /\ NewJob.billed = 0
        /\ NewJob.limit = Ceiling
        /\ NewJob.read = {} /\ NewJob.partial = {} /\ NewJob.built = {} /\ NewJob.made = 0
        /\ NewJob.verdict.gaps = {}
    BY DEF NewJob, Verdict
  <2>2. Len(Plan(s)) \in 1 .. 3
    BY PlanLength
  <2>3. InPlan(s, NewJob)
    BY <2>1, <2>2, NoneIsNoEnd DEF InPlan
  <2>4. Bounded(NewJob)
    BY <2>1, SkillsAssumption DEF Bounded, SkillsAssumption
  <2>5. SourcesKnown(s, NewJob)
    BY <2>1, NoneIsNoEnd DEF SourcesKnown
  <2>6. BuiltWhole(s, NewJob) /\ GapsSaid(s, NewJob)
    BY <2>1 DEF BuiltWhole, GapsSaid
  <2>7. AskedOnce(s, NewJob)
    BY <2>1 DEF AskedOnce
  <2>8. ScanKnown(s, NewJob)
    <3>1. MaxAttempts * Ceiling \in Nat
      BY SkillsAssumption DEF SkillsAssumption
    <3> QED
      BY <2>1, <3>1 DEF ScanKnown, At
  <2> QED
    BY <2>3, <2>4, <2>5, <2>6, <2>7, <2>8 DEF JobInv
<1>8. \A j \in Jobs : job[j].google = None
  <2>1. NewJob.google = None
    BY DEF NewJob
  <2> QED
    BY <1>6, <2>1
<1> QED
  BY <1>1, <1>2, <1>3, <1>4, <1>6, <1>7, <1>8
  DEF IInv, StateType, BaselineIsTold, OneCredentialAnswer

\* And every step keeps it.
LEMMA StepKeeps == IInv /\ [Next]_vars => IInv'
<1> SUFFICES ASSUME IInv, [Next]_vars PROVE IInv'
  OBVIOUS
<1>1. ASSUME NEW j \in Jobs, JobStep(j) PROVE IInv'
  BY <1>1, JobStepKeeps
<1>2. ASSUME order' = order, job' = job, baseline' = baseline,
             site' \in [version : 1 .. Len(Pages), status : {200, 404, 500}, hops : Routes],
             table' \in 1 .. MaxTable,
             lookup' \in [state : {"unasked", "resolving", "done"}, creds : BOOLEAN],
             lookup' = lookup \/ lookup.state # "done"
      PROVE  IInv'
  <2>1. StateType'
    BY <1>2 DEF IInv, StateType
  <2>2. BaselineIsTold'
    BY <1>2 DEF IInv, BaselineIsTold, BuiltOf
  <2>3. OneCredentialAnswer'
    BY <1>2 DEF IInv, OneCredentialAnswer
  <2>4. \A j \in Jobs : /\ JobInv(order'[j], job'[j]) /\ AskedOnce(order'[j], job'[j])
                         /\ ScanKnown(order'[j], job'[j])
    BY <1>2 DEF IInv
  <2> QED
    BY <2>1, <2>2, <2>3, <2>4 DEF IInv
<1>3. StateType
  BY DEF IInv
<1>4. CASE SiteChanges
  <2>1. PICK st \in {200, 404, 500}, r \in Routes :
          site' = [version |-> site.version + 1, status |-> st, hops |-> r]
    BY <1>4 DEF SiteChanges
  <2>2. site.version + 1 \in 1 .. Len(Pages)
    BY <1>3, <1>4, SkillsAssumption DEF SiteChanges, StateType, SkillsAssumption
  <2>3. site' \in [version : 1 .. Len(Pages), status : {200, 404, 500}, hops : Routes]
    BY <2>1, <2>2
  <2> QED
    BY <1>2, <1>3, <1>4, <2>3 DEF SiteChanges, StateType
<1>5. CASE TableGrows
  BY <1>2, <1>3, <1>5, SkillsAssumption DEF TableGrows, StateType, SkillsAssumption
<1>6. CASE Prime
  BY <1>2, <1>3, <1>6 DEF Prime, StateType, outside
<1>7. CASE Resolved
  BY <1>2, <1>3, <1>7 DEF Resolved, StateType, outside
<1>8. CASE UNCHANGED vars
  BY <1>2, <1>3, <1>8 DEF vars, StateType
<1> QED
  BY <1>1, <1>4, <1>5, <1>6, <1>7, <1>8 DEF Next

LEMMA Invariance == Spec => []IInv
BY InitHolds, StepKeeps, PTL DEF Spec

-----------------------------------------------------------------------------
(* What follows *)

\* Every variable keeps its type, for any number of jobs: a job never leaves
\* its plan, makes no more attempts than it may and overdraws no budget of time.
THEOREM TypeCorrect == Spec => []TypeOK
<1>1. IInv => TypeOK
  <2> SUFFICES ASSUME IInv PROVE TypeOK
    OBVIOUS
  <2>1. /\ StateType /\ MaxAttempts \in Nat \ {0} /\ MaxSources \in Nat /\ Budget \in Nat
        /\ Pages \in Seq([Dimensions -> SUBSET Severities])
    BY SkillsAssumption DEF IInv, SkillsAssumption
  <2>2. site.version \in DOMAIN Pages
    BY <2>1 DEF StateType
  <2>3. ASSUME NEW j \in Jobs
        PROVE  /\ job[j].step \in 0 .. Len(Plan(order[j]))
               /\ job[j].left \in 0 .. Budget /\ job[j].tries \in 0 .. MaxAttempts - 1
               /\ job[j].todo \in 0 .. MaxSources
               /\ job[j].told \in {None, "sold", "invalid", "failed"}
    <3>1. job[j] \in JobRec /\ InPlan(order[j], job[j]) /\ Bounded(job[j]) /\ order[j] \in Skills
      BY <2>1 DEF IInv, JobInv, StateType
    <3>2. Len(Plan(order[j])) \in 1 .. 3
      BY <3>1, PlanLength
    <3>3. /\ job[j].step \in Nat /\ job[j].left \in Nat /\ job[j].tries \in Nat
          /\ job[j].todo \in Nat /\ job[j].told \in {None, "sold", "invalid", "failed"}
      BY <3>1 DEF JobRec
    <3>4. /\ job[j].step <= Len(Plan(order[j])) /\ job[j].left <= Budget
          /\ job[j].tries < MaxAttempts /\ job[j].todo <= MaxSources
      BY <3>1 DEF InPlan, Bounded
    <3> QED
      BY <2>1, <3>2, <3>3, <3>4
  <2> QED
    BY <2>1, <2>2, <2>3 DEF TypeOK, StateType
<1> QED
  BY <1>1, Invariance, PTL

\* What is sold is whole, for any number of jobs and versions of the page: no
\* skill hands on what a provider left unfinished, cut short or refused, a
\* report names every source it could not read, no error page passes for an
\* audited one, and a performance audit says what it could not weigh
\* (bigquery.query, _gather_sources, goto_guarded, run_performance_audit).
THEOREM SoldWhole == Spec => []SoldIsWhole
<1>1. IInv => SoldIsWhole
  <2> SUFFICES ASSUME IInv, NEW j \in Jobs, job[j].told = "sold"
               PROVE  /\ \A b \in job[j].built :
                           /\ b.body \notin {"unfinished", "short", "limited"}
                           /\ b.body = "error" => order[j] \in {"rpc", "fetch", "inspect", "security"}
                      /\ order[j] \in {"research", "claims"} =>
                           /\ job[j].read # {} /\ job[j].read \cap job[j].partial = {}
                           /\ job[j].read \cup job[j].partial = 1 .. job[j].found
                      /\ order[j] = "performance" => job[j].verdict.gaps \subseteq job[j].verdict.said
    BY DEF SoldIsWhole, Sold
  <2>1. JobInv(order[j], job[j])
    BY DEF IInv
  <2>2. ASSUME order[j] \in {"research", "claims"}
        PROVE  /\ job[j].read # {} /\ job[j].read \cap job[j].partial = {}
               /\ job[j].read \cup job[j].partial = 1 .. job[j].found
    <3>1. job[j].step > (IF order[j] = "research" THEN 2 ELSE 1)
      <4>1. job[j].step = Len(Plan(order[j]))
        BY <2>1, <2>2 DEF JobInv, SourcesKnown
      <4>2. CASE order[j] = "research"
        <5>1. Plan(order[j]) = <<"search", "sources", "analyze">>
          BY <4>2, PlanTable
        <5>2. job[j].step = 3
          BY <4>1, <5>1
        <5> QED
          BY <4>2, <5>2
      <4>3. CASE order[j] = "claims"
        BY <4>1, <4>3, PlanTable
      <4> QED
        BY <2>2, <4>2, <4>3
    <3>2. job[j].todo = 0 /\ job[j].read # {}
      BY <2>1, <2>2, <3>1 DEF JobInv, SourcesKnown
    <3> QED
      BY <2>1, <2>2, <3>2 DEF JobInv, SourcesKnown
  <2> QED
    BY <2>1, <2>2 DEF JobInv, BuiltWhole, GapsSaid
<1> QED
  BY <1>1, Invariance, PTL

\* An image, a speech or a video is asked of its vendor at most once in a job
\* and sold only when it was made, whatever fails on the way ("a retried
\* generation would re-bill the vendor", media.generate_image).
THEOREM GenerationsOnce == Spec => []GeneratedOnce
<1>1. IInv => GeneratedOnce
  <2> SUFFICES ASSUME IInv, NEW j \in Jobs
               PROVE  /\ job[j].made <= 1
                      /\ job[j].told = "sold" /\ order[j] \in {"image", "speech", "video"}
                            => job[j].made = 1
    BY DEF GeneratedOnce, Sold
  <2>1. AskedOnce(order[j], job[j])
    BY DEF IInv
  <2> QED
    BY <2>1, NoneIsNoEnd DEF AskedOnce, MediaSkills
<1> QED
  BY <1>1, Invariance, PTL

\* All the runs of a data job together, those whose answer was lost or came
\* unfinished and that were tried again too, bill no more than MaxAttempts
\* times the maximum sent with them, although the table grows after the dry
\* run.  The maximum is the configured ceiling for a question and statistics;
\* a query or a forecast may bring its own, above the ceiling too
\* (bigquery.query, bigquery.rows, skills/data.py).
THEOREM ScansBounded == Spec => []ScanIsBounded
<1>1. IInv => ScanIsBounded
  BY DEF IInv, ScanKnown, ScanIsBounded
<1> QED
  BY <1>1, Invariance, PTL

\* The monitor's baseline is a page somebody was told about, at whatever step
\* the jobs before failed: it is what its job read, that job was sold, and a
\* check that moved it had the change analysed (monitor.check, which saves
\* the snapshot after the analysis).
THEOREM BaselineTold == Spec => []BaselineIsTold
<1>1. IInv => BaselineIsTold
  BY DEF IInv
<1> QED
  BY <1>1, Invariance, PTL

\* However many jobs ask while the credentials are looked up at startup, all
\* of them are told the same (google_auth._resolve under its lock).
THEOREM OneAnswer == Spec => []OneCredentialAnswer
<1>1. IInv => OneCredentialAnswer
  BY DEF IInv
<1> QED
  BY <1>1, Invariance, PTL

=============================================================================
