---------------------------- MODULE MCNodeFront ----------------------------
(***************************************************************************)
(* An instance of NodeFront for TLC.                                       *)
(***************************************************************************)
EXTENDS NodeFront

CONSTANTS k1, k2, th1

ARequest == [via |-> "rest", op |-> "job", client |-> k1, pay |-> "x402",
             size |-> "fits", fit |-> TRUE, tool |-> "audit", follows |-> FALSE]

\* A probe whatever else is wrong with it, a body too large by its header, a
\* target that is refused, a paid tool call, a worker tool, a handshake.
Shops ==
  {[ARequest EXCEPT !.pay = "none", !.fit = FALSE, !.size = "streamed"],
   [ARequest EXCEPT !.size = "declared"],
   [ARequest EXCEPT !.pay = "prepaid", !.client = k2, !.fit = FALSE],
   [ARequest EXCEPT !.via = "mcp", !.pay = "prepaid", !.client = k2],
   [ARequest EXCEPT !.via = "mcp", !.tool = "worker"],
   [ARequest EXCEPT !.via = "mcp", !.op = "free", !.tool = None]}

\* An A2A job, its paid follow-up, the read and the cancel of its task, and
\* a tool call whose body is too large as it streams.
Agents ==
  {[ARequest EXCEPT !.via = "mcp", !.size = "streamed"],
   [ARequest EXCEPT !.via = "a2a", !.pay = "none", !.client = k2],
   [ARequest EXCEPT !.via = "a2a", !.tool = None, !.follows = TRUE],
   [ARequest EXCEPT !.via = "a2a", !.op = "get", !.tool = None, !.follows = TRUE],
   [ARequest EXCEPT !.via = "a2a", !.op = "cancel", !.tool = None, !.follows = TRUE]}

SomeMixes == {Shops, Agents}

=============================================================================
