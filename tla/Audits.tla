------------------------------- MODULE Audits -------------------------------
(***************************************************************************)
(* The four audits (app/audits.py, app/main.py): how a target is reached,  *)
(* when an audit counts as not run, and what makes a verdict.  A page is,  *)
(* for each audit, the set of severities of the faults it would find;      *)
(* which tag or header is at fault is left out.                            *)
(***************************************************************************)
EXTENDS Providers

Dimensions == {"wcag", "seo", "security", "performance"}
Severities == {"critical", "serious", "moderate", "minor"}

\* What raised in an audit never becomes a verdict.
NotRun == [ran |-> FALSE, pass |-> FALSE, gaps |-> {}, said |-> {}]
Verdict(pass, gaps, said) == [ran |-> TRUE, pass |-> pass, gaps |-> gaps, said |-> said]

HasBlockingFinding(faults) == faults \cap {"critical", "serious"} # {}

\* fetch_once: redirects are followed by hand, and whatever answers at the
\* end is handed on with its status.
FetchOnce(hops, status) == Reachable(hops) /\ status # NoAnswer

\* goto_guarded: the browser follows redirects, each request is judged on its
\* way out, and an error page is no page to audit.
GotoGuarded(hops, status) ==
  /\ \A i \in DOMAIN hops : hops[i]
  /\ status # NoAnswer /\ status < 400

\* Frames that refuse the harness are counted; no result carries the count.
RunAxe(faults, frames) ==
  Verdict(faults = {}, IF frames = "refused" THEN {"frame"} ELSE {}, {})

\* response_bytes: a response without a length or a body cannot be weighed.
Weighed(bodies) == IF bodies = "dropped" THEN {"bytes"} ELSE {}

PerformanceResult(faults, unmeasured, told) == Verdict(faults = {}, unmeasured, told)

\* run_performance_audit says how many responses it could not weigh.
PerformanceAudit(faults, bodies) == PerformanceResult(faults, Weighed(bodies), Weighed(bodies))

\* _run_axe_and_performance: one page load for both, and the number of
\* responses it could not weigh stays behind.
AxeAndPerformance(page, frames, bodies) ==
  LET axe    == RunAxe(page.wcag, frames)
      weight == PerformanceResult(page.performance, Weighed(bodies), {})
  IN Verdict(axe.pass /\ weight.pass, axe.gaps \cup weight.gaps, axe.said \cup weight.said)

\* raise_for_status: a page that is not there has no SEO.
SeoAudit(status, faults) ==
  IF status = 200 THEN Verdict(~HasBlockingFinding(faults), {}, {}) ELSE NotRun

\* The headers of whatever answered.
SecurityAudit(faults) == Verdict(~HasBlockingFinding(faults), {}, {})

=============================================================================
