------------------------------ MODULE MCSkills ------------------------------
\* Pairs of jobs on one node: two that share the monitor's baseline, the
\* composites with their sources, the generations, the queries, and the rest
\* of the skills and audits beside them.
EXTENDS Skills

Pairs ==
  {<<"snapshot", "check">>, <<"check", "extract">>,
   <<"research", "image">>, <<"claims", "speech">>, <<"question", "video">>,
   <<"query", "stats">>, <<"bundle", "wcag">>, <<"seo", "performance">>,
   <<"security", "fetch">>, <<"brief", "transcript">>, <<"facts", "slug">>,
   <<"rpc", "ticker">>, <<"intel", "code">>, <<"transaction", "inspect">>,
   <<"address", "completion">>, <<"places", "network">>, <<"forecast", "image">>,
   <<"claude", "slug">>}

\* The page before and after it was changed for the worse.
Versions ==
  <<[wcag |-> {}, seo |-> {"minor"}, security |-> {}, performance |-> {}],
    [wcag |-> {"serious"}, seo |-> {"critical"}, security |-> {"moderate"},
     performance |-> {"moderate"}]>>

Ways == {<<TRUE>>, <<TRUE, FALSE>>, <<FALSE>>, <<TRUE, TRUE, TRUE, TRUE>>}

=============================================================================
