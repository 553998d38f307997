-------------------------- MODULE MCAnswerGeneration --------------------------
EXTENDS AnswerGeneration, TLC

CONSTANTS d1, d2

Asked(request, clues) == [request |-> request, clues |-> clues]
MCQuestions ==
  {Asked("other", {"strong_analysis", "aggregate", "ranking", "about_data"}),
   Asked("other", {"strong_analysis", "ranking", "about_data"}),
   Asked("field_inventory", {"metadata", "certain"}),
   Asked("datasource_inventory", {"inventory", "certain"})}

MCDashboard(names, m) ==
  [names |-> names, ids |-> <<>>, match |-> (d1 :> 1000) @@ (d2 :> m),
   workbook |-> TRUE, workbookId |-> FALSE, worksheets |-> TRUE]
MCDashboards ==
  {MCDashboard("none", 0), MCDashboard("chosen", 950), MCDashboard("several", 950)}

MCServer(http, offered, allowed, planning) ==
  [http |-> http, offered |-> offered, configured |-> allowed # offered,
   allowlist |-> allowed, strict |-> planning, planning |-> planning]
Central == {"list-datasources", "search-content", "get-datasource-metadata",
            "query-datasource"}
MCServers ==
  {MCServer(FALSE, Central, Central, TRUE),
   MCServer(FALSE, Central \cup {"get-workbook", "list-views"},
            Central \cup {"list-views"}, FALSE),
   MCServer(FALSE, Central, Central \ {"list-datasources", "search-content"}, FALSE),
   MCServer(TRUE, {}, {}, TRUE)}

HttpReply(kind, metadata, query) ==
  [NoContext EXCEPT !.read = TRUE, !.intent = kind, !.metadata = metadata,
                    !.named = TRUE, !.queried = query, !.used = query]
MCHttpContexts ==
  {HttpReply(None, "unknown", FALSE), HttpReply("data_analysis", "no", TRUE),
   HttpReply("metadata_lookup", "yes", FALSE), NoContext}
=============================================================================
