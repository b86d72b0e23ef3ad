-------------------------- MODULE MCProviderRuntime --------------------------
(* Finite instances of ProviderRuntime. *)
EXTENDS ProviderRuntime, TLC

CONSTANTS j1, j2, p1, p2

Read(ps) == [providers |-> ps, source |-> TRUE]
Run(ps)  == [providers |-> ps, source |-> FALSE]

\* research.web: search, read a source, answer; the answer has a fallback.
SearchReadAnswer == {<<Run(<<p2>>), Read(<<p1>>), Run(<<p1, p2>>)>>}

==============================================================================
