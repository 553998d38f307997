---------------------------- MODULE MCMcpLookup ----------------------------
EXTENDS McpLookup, TLC

CONSTANTS d1, d2

MCQuestions ==
  {[request |-> "other", clues |-> {"metadata", "about_data"}],
   [request |-> "other", clues |-> {"search"}]}

MCDashboards ==
  {[names |-> n, ids |-> <<>>, match |-> (d1 :> 1000) @@ (d2 :> 0),
    workbook |-> TRUE, workbookId |-> FALSE, worksheets |-> FALSE] :
     n \in {"none", "chosen"}}

MCServers ==
  {[http |-> FALSE, offered |-> Tools, configured |-> FALSE, allowlist |-> {},
    strict |-> TRUE, planning |-> FALSE]}
MCHttpContexts == {}
=============================================================================
