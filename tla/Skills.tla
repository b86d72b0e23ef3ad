------------------------------- MODULE Skills -------------------------------
(***************************************************************************)
(* What a paid job does once it runs: the skills of app/workers/skills and *)
(* the audit routes, each a plan of steps through JobContext.run           *)
(* (app/workers/context.py).  Between two steps, and while a provider      *)
(* works, other jobs run; what they share is the monitor's baseline in the *)
(* ledger, the target site, the customer's table, and the one lookup of    *)
(* Google credentials (app/workers/providers/google_auth.py).              *)
(*                                                                         *)
(* Circuit breakers, backoff and the ledger's rows are ProviderRuntime's;  *)
(* payment, replay and receipts are WorkerServe's.  A job here ends "sold" *)
(* (its result goes to the settlement), "invalid" (a 400) or "failed" (a   *)
(* 502); the last two bill nothing.                                        *)
(***************************************************************************)
EXTENDS Audits

CONSTANTS
  MaxJobs,      \* bound: jobs in a behaviour
  Orders,       \* sequences of skills bought together in a behaviour
  Budget,       \* a job's deadline, in units of 15 s
  Reserve,      \* 30 s: with less left, no further source is read
  MaxAttempts,  \* WORKER_MAX_ATTEMPTS
  MaxSources,   \* max_sources
  Pages,        \* versions of the target page, by what each audit would find
  Routes,       \* hops that lead to the target
  Ceiling,      \* WORKER_BQ_MAX_SCAN_GIB
  Asked,        \* what callers send as max_scan_gib
  MaxTable,     \* bound: size of the customer's table
  None          \* Python's None

Jobs == 1 .. MaxJobs
Direct == <<TRUE>>   \* a target that answers itself
Skills == {"extract", "fetch", "brief", "facts", "research", "claims", "snapshot", "check",
           "image", "speech", "transcript", "video", "query", "question", "forecast",
           "stats", "transaction", "address", "network", "rpc", "intel", "ticker", "slug", "completion",
           "claude", "code", "places", "inspect",
           "wcag", "seo", "security", "performance", "bundle"}

UrlSkills == {"extract", "fetch", "brief", "facts", "snapshot", "check", "inspect",
              "wcag", "seo", "security", "performance", "bundle"}

ASSUME SkillsAssumption ==
  /\ MaxJobs \in Nat /\ \A o \in Orders : o \in Seq(Skills) /\ Len(o) = MaxJobs
  /\ Budget \in Nat /\ Reserve \in Nat /\ MaxAttempts \in Nat \ {0}
  /\ MaxSources \in Nat \ {0} /\ Direct \in Routes
  /\ Ceiling \in Nat /\ Asked \subseteq Nat /\ MaxTable \in Nat \ {0}
  /\ Pages \in Seq([Dimensions -> SUBSET Severities]) /\ Len(Pages) > 0
  /\ None \notin {"sold", "invalid", "failed"}

VARIABLES
  order,      \* outside: the skills bought in this behaviour
  site,       \* outside: the target's version, status and hops
  table,      \* outside: bytes a query over the customer's table reads
  lookup,     \* google_auth: its lock and its cached answer
  baseline,   \* the ledger's monitor snapshot of the target
  job         \* every job and where it stands

vars == <<order, site, table, lookup, baseline, job>>
outside == <<order, site, table>>

-----------------------------------------------------------------------------
\* The plans.  A step names what ctx.run is asked to do.
ReadingPlan(s) ==
  CASE s \in {"extract", "snapshot"} -> <<"extract">>
    [] s \in {"brief", "check"} -> <<"extract", "analyze">>
    [] s = "facts"    -> <<"extract", "structured">>
    [] s = "research" -> <<"search", "sources", "analyze">>
    [] s = "claims"   -> <<"sources", "verify">>
    [] s = "fetch"    -> <<"fetch">>
    [] s = "inspect"  -> <<"inspect">>

MediaPlan(s) ==
  CASE s = "image"      -> <<"image">>
    [] s = "speech"     -> <<"tts">>
    [] s = "transcript" -> <<"stt">>
    [] s = "video"      -> <<"video">>

DataPlan(s) ==
  CASE s \in {"query", "forecast"} -> <<"query">>
    [] s = "question" -> <<"write_sql", "query", "analyze">>

StatsPlan == <<"rows", "compute">>

ChainPlan(s) ==
  CASE s = "transaction" -> <<"tx", "receipt">>
    [] s = "address"     -> <<"read", "read", "read">>
    [] s = "network"     -> <<"read", "read">>
    [] s = "rpc"         -> <<"rpc">>

MarketPlan(s) ==
  CASE s = "intel"  -> <<"quote", "markets", "analyze">>
    [] s = "ticker" -> <<"ticker">>
    [] s = "slug"   -> <<"market">>

ModelPlan(s) ==
  CASE s = "completion" -> <<"vertex">>
    [] s = "claude"     -> <<"claude">>
    [] s = "code"       -> <<"execute">>
    [] s = "places"     -> <<"maps">>

AuditPlan(s) ==
  CASE s \in {"wcag", "performance"} -> <<"page">>
    [] s \in {"seo", "security"}     -> <<"get">>
    [] s = "bundle"                  -> <<"page", "get">>

Plan(s) ==
  CASE s \in {"extract", "snapshot", "check", "brief", "facts", "research",
              "claims", "fetch", "inspect"}                            -> ReadingPlan(s)
    [] s \in {"image", "speech", "transcript", "video"}      -> MediaPlan(s)
    [] s \in {"query", "question", "forecast"}               -> DataPlan(s)
    [] s = "stats"                                           -> StatsPlan
    [] s \in {"transaction", "address", "network", "rpc"}    -> ChainPlan(s)
    [] s \in {"intel", "ticker", "slug"}                     -> MarketPlan(s)
    [] s \in {"completion", "claude", "code", "places"}                -> ModelPlan(s)
    [] s \in {"wcag", "seo", "security", "performance", "bundle"} -> AuditPlan(s)

\* The providers of a step, in the order of their fallback.
Fallbacks(step) ==
  CASE step \in {"extract", "sources"}   -> <<"browser", "http">>
    [] step \in {"analyze", "write_sql"} -> <<"gemini", "gemini">>
    [] step \in {"structured", "verify"} -> <<"gemini_json", "gemini_json">>
    [] step \in {"tx", "receipt", "read"} -> <<"chain", "chain">>
    [] step = "rpc"                      -> <<"chain_raw", "chain_raw">>
    [] OTHER                             -> <<step>>

Google == {"gemini", "gemini_json", "vertex", "claude", "search", "execute", "image",
           "tts", "stt", "video", "query", "rows"}

Generations == {"image", "tts", "video"}

\* Variant: a generation is tried again like anything else.
RetriedGenerations(step) == MaxAttempts

\* A retried generation would be a second one on the vendor's bill.
Attempts(step) == IF step \in Generations \cup {"compute"} THEN 1 ELSE MaxAttempts

\* Senses a provider's 200 can have.
Senses(p) ==
  CASE p \in {"browser", "http", "raw"}     -> {"value", "nothing", "garbage"}
    [] p = "gemini_json"                    -> {"value", "nothing", "prose", "short"}
    [] p \in {"chain", "chain_raw", "maps"} -> {"value", "nothing", "error", "limited"}
    [] p = "quote"                          -> {"value", "nothing", "short"}
    [] p \in {"query", "rows"}              -> {"value", "nothing", "unfinished"}
    [] p = "video"                          -> {"value", "nothing", "unfinished", "error"}
    [] p \in {"execute", "gemini"}          -> {"value", "nothing", "prose"}
    [] OTHER                                -> {"value", "nothing"}

Answers(p) ==
  IF p = "compute" THEN {[status |-> 200, body |-> "value"]}
  ELSE [status : {200}, body : Senses(p)] \cup [status : Statuses \ {200}, body : {"error"}]

Adapter(p, a, hops) ==
  CASE p = "browser"     -> BrowserExtract(hops, a)
    [] p = "http"        -> HttpExtract(hops, a)
    [] p = "fetch"       -> RawFetch(hops, a)
    [] p = "gemini"      -> Gemini(a)
    [] p = "gemini_json" -> GeminiJson(a)
    [] p = "vertex"      -> VertexCompletion(a)
    [] p = "claude"      -> Claude(a)
    [] p = "search"      -> GroundedSearch(a)
    [] p = "execute"     -> CodeExecution(a)
    [] p = "image"       -> Imagen(a)
    [] p = "tts"         -> CloudTTS(a)
    [] p = "stt"         -> SpeechToText(a)
    [] p = "chain"       -> ChainRead(a)
    [] p = "chain_raw"   -> ChainRaw(a)
    [] p = "quote"       -> Coinbase(a)
    [] p = "ticker"      -> CoinbaseTicker(a)
    [] p = "markets"     -> Polymarket(a)
    [] p = "market"      -> PolymarketBySlug(a)
    [] p = "maps"        -> MapsGrounding(a)
    [] p = "inspect"     -> McpProbe(a)
    [] p = "compute"     -> "ok"

\* What a skill refuses although the step succeeded: no retry any more.
Refuses(step, a) ==
  CASE step = "tx" /\ a.body = "nothing"      -> "invalid"
    [] step = "rows" /\ a.body = "nothing"    -> "invalid"
    [] a.body = "short"                       -> "failed"
    [] step = "write_sql" /\ a.body = "prose" -> "invalid"
    [] step = "inspect" /\ a.status >= 500    -> "failed"
    [] OTHER                                  -> None

-----------------------------------------------------------------------------
\* step: how far in the plan; running: inside JobContext.run, with provider
\* number prov, tries attempts behind it, in phase 1 or 2 of its call.
\* google: what this job was told of the credentials.  todo: sources not yet
\* looked at.  base: the baseline a check compares with.  page: the version
\* it read.  limit: the most a query of it may read.  made, billed: what vendors
\* did for it, billed the bytes they may have billed.  built: the answers the
\* result is made of.  verdict: of an audit.
NewJob == [step |-> 0, running |-> FALSE, prov |-> 1, tries |-> 0, phase |-> 1,
           left |-> Budget, google |-> None, todo |-> 0, found |-> 0, read |-> {},
           partial |-> {}, base |-> None, page |-> None, made |-> 0, limit |-> Ceiling, billed |-> 0,
           built |-> {}, verdict |-> Verdict(TRUE, {}, {}), told |-> None]

Init ==
  /\ order \in Orders
  /\ \E r \in Routes :
       /\ (\A j \in Jobs : order[j] \notin UrlSkills) => r = Direct
       /\ site = [version |-> 1, status |-> 200, hops |-> r]
  /\ table = 1
  /\ lookup = [state |-> "unasked", creds |-> FALSE]
  /\ baseline = None
  /\ job = [j \in Jobs |-> NewJob]

Step(j) == Plan(order[j])[job[j].step]
Provider(j) == Fallbacks(Step(j))[job[j].prov]
Set(j, one) == job' = [job EXCEPT ![j] = one]

\* --- What happens outside, as far as a job of this behaviour can see it.
SiteChanges ==
  /\ \E j \in Jobs : order[j] \in UrlSkills
  /\ site.version < Len(Pages)
  /\ \E st \in {200, 404, 500}, r \in Routes :
       site' = [version |-> site.version + 1, status |-> st, hops |-> r]
  /\ UNCHANGED <<order, table, lookup, baseline, job>>

TableGrows ==
  /\ \E j \in Jobs : order[j] \in {"query", "question", "forecast", "stats"}
  /\ table < MaxTable /\ table' = table + 1
  /\ UNCHANGED <<order, site, lookup, baseline, job>>

\* --- The credentials, looked up once, under a lock.
\* prime: a thread of its own takes the lock at startup.
Prime ==
  /\ lookup.state = "unasked" /\ lookup' = [lookup EXCEPT !.state = "resolving"]
  /\ UNCHANGED <<outside, baseline, job>>

\* The probe answers, fails, or is given up after its timeout; what came of it
\* is kept, a failure too.
Resolved ==
  /\ lookup.state = "resolving"
  /\ \E creds \in BOOLEAN : lookup' = [state |-> "done", creds |-> creds]
  /\ UNCHANGED <<outside, baseline, job>>

\* Variant: the flag is read before the lock is taken.
ConfiguredUnlocked(answer) ==
  \/ lookup.state = "unasked" /\ lookup' = [state |-> "done", creds |-> answer]
  \/ lookup.state # "unasked" /\ answer = lookup.creds /\ UNCHANGED lookup

\* configured(): the first caller resolves, one that comes meanwhile waits
\* for the lock, everyone later reads the answer.
Configured(answer) ==
  \/ lookup.state = "unasked" /\ lookup' = [state |-> "done", creds |-> answer]
  \/ lookup.state = "done" /\ answer = lookup.creds /\ UNCHANGED lookup

-----------------------------------------------------------------------------
\* How steps and jobs end.

\* The last step is done: the monitor's skills save what they read, and the
\* result is handed to the settlement.
Sell(j, one) ==
  /\ Set(j, [one EXCEPT !.told = "sold"])
  /\ baseline' = IF order[j] \in {"snapshot", "check"}
                   THEN [version |-> one.page, by |-> j] ELSE baseline

\* Variant: the page is saved as soon as it is read.
AdvanceSavesFirst(j, one) ==
  /\ IF one.step < Len(Plan(order[j])) /\ ~(order[j] = "check" /\ one.page = one.base)
       THEN Set(j, [one EXCEPT !.step = @ + 1, !.running = FALSE])
       ELSE Set(j, [one EXCEPT !.told = "sold"])
  /\ baseline' = IF order[j] \in {"snapshot", "check"}
                   THEN [version |-> one.page, by |-> j] ELSE baseline

\* The next step of the plan; a check that finds no change needs no analysis.
Advance(j, one) ==
  IF one.step < Len(Plan(order[j])) /\ ~(order[j] = "check" /\ one.page = one.base)
    THEN Set(j, [one EXCEPT !.step = @ + 1, !.running = FALSE]) /\ UNCHANGED baseline
    ELSE Sell(j, one)

\* A source that cannot be read, for whatever reason, is named in the result;
\* any other step that fails takes its job with it.
StepFails(j, one, told) ==
  /\ Set(j, IF Step(j) = "sources"
              THEN [one EXCEPT !.running = FALSE, !.todo = @ - 1,
                               !.partial = @ \cup {one.todo}]
              ELSE [one EXCEPT !.running = FALSE, !.told = told])
  /\ UNCHANGED baseline

-----------------------------------------------------------------------------
\* max_scan_gib of the caller stands in for the configured ceiling, above it
\* too; a question and the statistics have no such field.  A forecast stands
\* for data.anomalies too, which asks its query in the same way.
ScanLimits(j) == {Ceiling} \cup (IF order[j] \in {"query", "forecast"} THEN Asked ELSE {})

\* A job begins: its input is checked, and a check needs a baseline.
Begin(j) ==
  /\ job[j].step = 0 /\ job[j].told = None
  /\ IF (order[j] \in UrlSkills /\ ~site.hops[1]) \/ (order[j] = "check" /\ baseline = None)
       THEN Set(j, [job[j] EXCEPT !.told = "invalid"])
       ELSE \E n \in IF order[j] = "claims" THEN 1 .. MaxSources ELSE {0},
               l \in ScanLimits(j) :
              Set(j, [job[j] EXCEPT !.step = 1, !.todo = n, !.found = n, !.limit = l,
                        !.base = IF order[j] = "check" THEN baseline.version ELSE None])
  /\ UNCHANGED <<outside, lookup, baseline>>

Idle(j) == job[j].step > 0 /\ ~job[j].running /\ job[j].told = None
IsAudit(j) == order[j] \in {"wcag", "seo", "security", "performance", "bundle"}

\* JobContext.run: what is left of the job's budget, and only providers that
\* are configured here.
StartStep(j) ==
  /\ Idle(j) /\ ~IsAudit(j)
  /\ Step(j) = "sources" => job[j].todo > 0 /\ job[j].left >= Reserve
  /\ IF job[j].left = 0
       THEN StepFails(j, job[j], "failed") /\ UNCHANGED lookup
       ELSE IF Fallbacks(Step(j))[1] \notin Google
         THEN /\ Set(j, [job[j] EXCEPT !.running = TRUE, !.prov = 1, !.tries = 0, !.phase = 1])
              /\ UNCHANGED <<lookup, baseline>>
         ELSE \E creds \in BOOLEAN :
                /\ Configured(creds)
                /\ IF creds
                     THEN /\ Set(j, [job[j] EXCEPT !.running = TRUE, !.prov = 1, !.tries = 0,
                                                    !.phase = 1, !.google = TRUE])
                          /\ UNCHANGED baseline
                     ELSE StepFails(j, [job[j] EXCEPT !.google = FALSE], "failed")
  /\ UNCHANGED outside

\* Less than 30 s left: the source is named as not read.
SkipSource(j) ==
  /\ Idle(j) /\ Step(j) = "sources" /\ job[j].todo > 0 /\ job[j].left < Reserve
  /\ StepFails(j, job[j], "failed") /\ UNCHANGED <<outside, lookup>>

\* Every source was looked at; with none read there is nothing to sell.
SourcesDone(j) ==
  /\ Idle(j) /\ Step(j) = "sources" /\ job[j].todo = 0
  /\ IF job[j].read = {}
       THEN Set(j, [job[j] EXCEPT !.told = "failed"]) /\ UNCHANGED baseline
       ELSE Advance(j, job[j])
  /\ UNCHANGED <<outside, lookup>>

-----------------------------------------------------------------------------
\* Attempts at a provider.

TwoPhased == {"query", "rows", "video"}

\* Variant: the run is sent without a maximum.
MaximumBytesUnset(j) == MaxTable

\* maximumBytesBilled, sent with the run.
MaximumBytesBilled(j) == job[j].limit

\* BigQuery ends a job over the maximum, with an error, before it bills.
Scans(j, a) == a.status = 200 => table <= MaximumBytesBilled(j)

Outcome(j, a) ==
  LET p == Provider(j) IN
    CASE p \in {"query", "rows"} /\ job[j].phase = 1 -> DryRun(a, table, job[j].limit)
      [] p \in {"query", "rows"} /\ job[j].phase = 2 -> BigQuery(a)
      [] p = "video" /\ job[j].phase = 1             -> VeoSubmit(a)
      [] p = "video" /\ job[j].phase = 2             -> VeoPoll(a)
      [] OTHER -> Adapter(p, a, IF Step(j) = "sources" THEN Direct ELSE site.hops)

\* A run that BigQuery lets through is billed though it did not finish in time,
\* its answer was lost, or a later page of its rows could not be read.
MayBill(j, a) ==
  /\ Step(j) \in {"query", "rows"} /\ job[j].phase = 2
  /\ table <= MaximumBytesBilled(j)
  /\ a.status \in {200, NoAnswer} \/ Step(j) = "rows"

\* What the vendor did, whatever of its answer arrives here.
Worked(j, one, a) ==
  [one EXCEPT
     !.made = IF Step(j) \in Generations /\ one.phase = 1 /\ a.status \in {200, NoAnswer}
                THEN @ + 1 ELSE @,
     !.billed = IF MayBill(j, a) THEN @ + table ELSE @]

\* The value of a step is what the next one works with.
Takes(j, one, a) ==
  LET built == [one EXCEPT !.built = @ \cup {[step |-> Step(j), body |-> a.body]}]
  IN CASE Step(j) = "extract" -> [built EXCEPT !.page = site.version]
       [] OTHER -> built

Succeeds(j, one, a) ==
  LET refusal == Refuses(Step(j), a) IN
  \/ refusal # None /\ StepFails(j, one, refusal)
  \/ /\ refusal = None /\ Step(j) = "sources"
     /\ Set(j, [one EXCEPT !.running = FALSE, !.todo = @ - 1, !.read = @ \cup {one.todo}])
     /\ UNCHANGED baseline
  \/ /\ refusal = None /\ Step(j) = "search"
     /\ \E n \in 0 .. MaxSources : Advance(j, [Takes(j, one, a) EXCEPT !.todo = n, !.found = n])
  \/ /\ refusal = None /\ Step(j) \notin {"sources", "search"}
     /\ Advance(j, Takes(j, one, a))

NextProvider(j, one) ==
  IF one.prov < Len(Fallbacks(Step(j)))
    THEN Set(j, [one EXCEPT !.prov = @ + 1, !.tries = 0, !.phase = 1]) /\ UNCHANGED baseline
    ELSE StepFails(j, one, "failed")

TryAgain(j, one) ==
  IF one.tries + 1 < Attempts(Step(j)) /\ one.left > 0
    THEN Set(j, [one EXCEPT !.tries = @ + 1, !.phase = 1]) /\ UNCHANGED baseline
    ELSE NextProvider(j, one)

\* run_with_policy, one answer at a time: it takes up some of the budget, and
\* is waited for no longer than what is left.
Attempt(j) ==
  /\ job[j].running /\ job[j].told = None
  /\ IF job[j].left = 0 THEN StepFails(j, job[j], "failed")
     ELSE \E a \in Answers(Provider(j)), spent \in 0 .. 1 :
       LET one     == [Worked(j, job[j], a) EXCEPT !.left = @ - spent]
           outcome == Outcome(j, a)
       IN /\ (Step(j) \in {"query", "rows"} /\ job[j].phase = 2) => Scans(j, a)
          /\ \/ /\ outcome = "ok"
                /\ IF Step(j) \in TwoPhased /\ one.phase = 1
                     THEN Set(j, [one EXCEPT !.phase = 2]) /\ UNCHANGED baseline
                     ELSE Succeeds(j, one, a)
             \/ outcome = "pending" /\ spent = 1 /\ Set(j, one) /\ UNCHANGED baseline
             \/ outcome \in {"transient", "invalid"} /\ TryAgain(j, one)
             \/ outcome \in {"permanent", "unavailable"} /\ NextProvider(j, one)
             \/ outcome = "invalid_request" /\ StepFails(j, one, "invalid")
  /\ UNCHANGED <<outside, lookup>>

-----------------------------------------------------------------------------
\* The audits, each step on its audit thread.
AuditStep(j, verdict) ==
  LET one == job[j]
      sum == [ran |-> TRUE, pass |-> one.verdict.pass /\ verdict.pass,
              gaps |-> one.verdict.gaps \cup verdict.gaps,
              said |-> one.verdict.said \cup verdict.said]
  IN IF verdict.ran
       THEN Advance(j, [one EXCEPT !.verdict = sum, !.built = @ \cup {[step |-> Step(j),
              body |-> IF site.status = 200 THEN "value" ELSE "error"]}])
       ELSE Set(j, [one EXCEPT !.told = "failed"]) /\ UNCHANGED baseline

LoadPage(j) ==
  /\ Idle(j) /\ IsAudit(j) /\ Step(j) = "page"
  /\ \E st \in {site.status, NoAnswer}, frames \in {"reached", "refused"},
        bodies \in {"kept", "dropped"} :
       LET page == Pages[site.version] IN
         AuditStep(j, IF ~GotoGuarded(site.hops, st) THEN NotRun
                      ELSE CASE order[j] = "wcag"        -> RunAxe(page.wcag, frames)
                             [] order[j] = "performance" -> PerformanceAudit(page.performance, bodies)
                             [] order[j] = "bundle"      -> AxeAndPerformance(page, frames, bodies))
  /\ UNCHANGED <<outside, lookup>>

GetPage(j) ==
  /\ Idle(j) /\ IsAudit(j) /\ Step(j) = "get"
  /\ \E st \in {site.status, NoAnswer} :
       LET page == Pages[site.version]
           seo  == SeoAudit(st, page.seo)
           sec  == SecurityAudit(page.security)
       IN AuditStep(j, IF ~FetchOnce(site.hops, st) THEN NotRun
                       ELSE CASE order[j] = "seo"      -> seo
                              [] order[j] = "security" -> sec
                              [] order[j] = "bundle"   ->
                                   [seo EXCEPT !.pass = @ /\ sec.pass])
  /\ UNCHANGED <<outside, lookup>>

-----------------------------------------------------------------------------
JobStep(j) ==
  \/ Begin(j) \/ StartStep(j) \/ SkipSource(j) \/ SourcesDone(j) \/ Attempt(j)
  \/ LoadPage(j) \/ GetPage(j)

Next ==
  \/ \E j \in Jobs : JobStep(j)
  \/ SiteChanges \/ TableGrows \/ Prime \/ Resolved

Spec == Init /\ [][Next]_vars

-----------------------------------------------------------------------------
TypeOK ==
  /\ order \in Orders /\ site.version \in DOMAIN Pages /\ table \in 1 .. MaxTable
  /\ lookup.state \in {"unasked", "resolving", "done"}
  /\ \A j \in Jobs : /\ job[j].step \in 0 .. Len(Plan(order[j]))
                      /\ job[j].left \in 0 .. Budget /\ job[j].tries \in 0 .. MaxAttempts - 1
                      /\ job[j].todo \in 0 .. MaxSources
                      /\ job[j].told \in {None, "sold", "invalid", "failed"}

Sold(j) == job[j].told = "sold"
BuiltOf(j, step) == {b.body : b \in {x \in job[j].built : x.step = step}}

\* What is sold is whole: nothing unfinished, cut short or refused by its
\* provider is part of it; every source was read or is named as not read, and
\* at least one was read; a page that answered with an error was not audited
\* as the page asked for; a performance audit says what it could not weigh
\* (bigquery.query, _gather_sources, goto_guarded, run_performance_audit).
SoldIsWhole ==
  \A j \in Jobs : Sold(j) =>
    /\ \A b \in job[j].built :
         /\ b.body \notin {"unfinished", "short", "limited"}
         /\ b.body = "error" => order[j] \in {"rpc", "fetch", "inspect", "security"}
    /\ order[j] \in {"research", "claims"} =>
         /\ job[j].read # {} /\ job[j].read \cap job[j].partial = {}
         /\ job[j].read \cup job[j].partial = 1 .. job[j].found
    /\ order[j] = "performance" => job[j].verdict.gaps \subseteq job[j].verdict.said

\* A generation is asked of its vendor once, whatever goes wrong, and sold
\* only if it was made (media.generate_image: "a retried generation would
\* re-bill the vendor").
GeneratedOnce ==
  \A j \in Jobs : /\ job[j].made <= 1
                  /\ Sold(j) /\ order[j] \in {"image", "speech", "video"} => job[j].made = 1

\* The baseline is a page somebody was told about: it is what its job read,
\* that job was sold, and if a check moved it, the change was analysed.  A
\* check that fails leaves the old one for the next (monitor.check).
BaselineIsTold ==
  baseline # None =>
    LET w == job[baseline.by] IN
      /\ w.told = "sold" /\ w.page = baseline.version
      /\ order[baseline.by] = "check" /\ w.base # w.page
           => BuiltOf(baseline.by, "analyze") # {}

\* What a data job scans is bounded before it starts, however its runs end and
\* the table grows after the dry run ("even if the estimate were wrong, BigQuery
\* itself kills the job"): no attempt bills more than the maximum, and there
\* are no more than MaxAttempts.  The maximum is the configured ceiling, except
\* where the caller sets its own, though the header of skills/data.py says that
\* no query can scan more (bigquery.query, bigquery.rows).
ScanIsBounded ==
  \A j \in Jobs :
    job[j].billed <= MaxAttempts * (IF order[j] \in {"query", "forecast"}
                                      THEN job[j].limit ELSE Ceiling)

\* Everybody who asks for Google credentials is told the same, a caller that
\* came while they were being looked up too (_resolve): a worker is not
\* refused as unavailable and offered again a moment later.
OneCredentialAnswer ==
  \A j \in Jobs : job[j].google # None =>
    lookup.state = "done" /\ job[j].google = lookup.creds

=============================================================================
