------------------------------ MODULE McpLookup ------------------------------
(***************************************************************************)
(* One lookup of the Tableau MCP provider: it connects to the MCP server   *)
(* over stdio, classifies the question, selects the first tool calls, and  *)
(* calls tools until its budget is spent or nothing is left to try: tools  *)
(* that follow from a result, tools that recover a missing identifier, a   *)
(* query, and one more plan of the model.  What the tools answered becomes *)
(* the context the answer is written from.                                 *)
(*                                                                         *)
(* A tool's answer is what the lookup reads from it: the data sources it   *)
(* identifies, whether it names the workbook, whether it describes a field *)
(* to aggregate, and how good its rows are.                                *)
(***************************************************************************)
EXTENDS Naturals, Sequences, FiniteSets

CONSTANTS
  Luids,         \* the data sources of the site
  Questions,     \* what may be asked: see Question
  Dashboards,    \* what the dashboard may know: see Dashboard
  Servers,       \* what the MCP server may offer: see Server
  HttpContexts,  \* what a server asked over HTTP may answer: see HttpContext
  MaxToolCalls,  \* TABLEAU_MCP_MAX_TOOL_CALLS
  PlanLength,    \* bound on the calls of one plan of the model
  MaxThrows,     \* bound on the calls that time out or lose the connection
  None           \* no data source, no selection, no intent

-----------------------------------------------------------------------------
(* Values *)

\* In the order in which the server lists them.
ToolOrder == <<"list-workbooks", "get-workbook", "list-views",
               "list-datasources", "search-content",
               "get-datasource-metadata", "query-datasource">>
Tools == {ToolOrder[i] : i \in 1..Len(ToolOrder)}
ParallelSafe == Tools \ {"query-datasource"}
\* The tools that can resolve an identifier.
Resolving == Tools \ {"get-datasource-metadata", "query-datasource"}

Intents == {"dashboard_explanation", "filter_or_selection_state",
            "metadata_lookup", "data_analysis", "content_search",
            "how_to_use_tableau", "unsupported"}

\* What the keyword tables find in a question: how it is classified.
Cues == {"inventory", "period", "grouped", "datasource_named"}
Topics == {"how_to", "filter", "metadata", "analysis", "strong_analysis",
           "search", "explanation"}
\* What the interpretation reads in it, and what the provider looks for.
Readings == {"metric_by_group", "trend", "certain"}
Rankings == {"ranking"}
Wordings == {"aggregate", "about_data"}
Clues == Cues \cup Topics \cup Readings \cup Rankings \cup Wordings
Requests == {"datasource_inventory", "field_inventory", "other"}
\* A request that is certain asks for nothing else: no metric, no ranking.
Question ==
  {q \in [request : Requests, clues : SUBSET Clues] :
     "certain" \in q.clues =>
       q.clues \cap {"ranking", "trend", "period", "metric_by_group"} = {}}

\* names: no data source name, one to look for, or several to choose from;
\* ids: the identifiers of its data sources; match: how well, per mille, the
\* name of a data source of the site fits the names of the dashboard.
Dashboard == [names : {"none", "chosen", "several"}, ids : Seq(Luids),
              match : [Luids -> 0..1000], workbook : BOOLEAN,
              workbookId : BOOLEAN, worksheets : BOOLEAN]

\* http: is it asked over HTTP?  configured: is there an allowlist?  strict: do
\* its schemas require the identifiers?  planning: may the model plan the calls?
Server == [http : BOOLEAN, offered : SUBSET Tools, configured : BOOLEAN,
           allowlist : SUBSET Tools, strict : BOOLEAN, planning : BOOLEAN]

\* A selected call: ready or skipped, of: the data source it is about, after:
\* does it depend on another tool, guessed: were its arguments guessed from
\* the schema rather than validated?
Selection == [tool : Tools, ready : BOOLEAN, of : Luids \cup {None},
              after : BOOLEAN, guessed : BOOLEAN]
Quality == {"none", "poor", "good"}
\* How a call ends: it throws, or it answers, with an error or a result.
Reply == [kind : {"throws", "error", "result"}, found : SUBSET Luids,
          workbook : BOOLEAN, fields : BOOLEAN, rows : Quality]
\* What the answer is written from.  read: does it hold the interpretation of
\* the question?  intent: of mcpExecutionDebug; named: are there data sources?
\* fields: field profiles?  queried, used: did a query, or any call, succeed?
Context == [failed : BOOLEAN, read : BOOLEAN, intent : Intents \cup {None},
            metadata : {"unknown", "no", "yes"}, named : BOOLEAN,
            fields : BOOLEAN, queried : BOOLEAN, insight : Quality,
            used : BOOLEAN, warned : BOOLEAN]
\* Over HTTP another server makes the context; the field profiles and the rows
\* it may hold are not taken from it.
HttpContext == {c \in Context : ~c.failed /\ ~c.fields /\ c.insight = "none"}

ASSUME ConstantsAssumption ==
  /\ Questions \subseteq Question
  /\ Dashboards \subseteq Dashboard
  /\ Servers \subseteq Server
  /\ HttpContexts \subseteq HttpContext
  /\ {MaxToolCalls, PlanLength, MaxThrows} \subseteq Nat
  /\ None \notin Luids \cup Intents

VARIABLES
  question,    \* the question of this lookup
  dashboard,   \* the dashboard context
  server,      \* the MCP server and its configuration
  stage,       \* where the lookup is
  intent,      \* the question's intent, and the calls it allows
  queue,       \* toolQueue
  underway,    \* the calls whose outcomes are not processed yet
  called,      \* calledToolNames
  refused,     \* the tools with a failed or a skipped result
  succeeded,   \* the tools with a successful result
  listed,      \* the data sources the results identify
  profile,     \* the fields of which data source are known, if any
  rows,        \* the quality of the rows of the query
  suggested,   \* recoverablePreconditionSuggestions
  recoverable, \* hasRecoverablePreconditionFailure
  replanned,   \* dataReplanAttempted
  spent,       \* executedToolCallCount
  throws,      \* the calls that threw
  context      \* what the lookup returned

inputs == <<question, dashboard, server>>
evidence == <<listed, profile, rows>>
results == <<called, refused, succeeded>>
recovery == <<suggested, recoverable, replanned>>
lookupVars == <<inputs, stage, intent, queue, underway, results, evidence,
                recovery, spent, throws, context>>

-----------------------------------------------------------------------------
(* State *)

Stage == {"idle", "selecting", "calling", "over"}
IntentRecord == [intent : Intents, needsMcp : BOOLEAN, max : 0..8]
NoIntent == [intent |-> "unsupported", needsMcp |-> FALSE, max |-> 0]
NoContext == [failed |-> FALSE, read |-> FALSE, intent |-> None,
              metadata |-> "unknown", named |-> FALSE, fields |-> FALSE,
              queried |-> FALSE, insight |-> "none", used |-> FALSE,
              warned |-> FALSE]
Warned(failed) == [NoContext EXCEPT !.failed = failed, !.warned = TRUE]

LookupTypeOK ==
  /\ question \in Questions
  /\ dashboard \in Dashboards
  /\ server \in Servers
  /\ stage \in Stage
  /\ intent \in IntentRecord
  /\ queue \in Seq(Selection)
  /\ underway \in Seq(Selection)
  /\ called \in SUBSET Tools
  /\ refused \in SUBSET Tools
  /\ succeeded \in SUBSET Tools
  /\ listed \in SUBSET Luids
  /\ profile \in [known : BOOLEAN, of : Luids \cup {None}]
  /\ rows \in Quality
  /\ suggested \in Seq(Resolving)
  /\ recoverable \in BOOLEAN
  /\ replanned \in BOOLEAN
  /\ spent \in Nat
  /\ throws \in 0..MaxThrows
  /\ context \in Context

\* The variables of a lookup that has not begun.
Fresh ==
  /\ intent = NoIntent
  /\ queue = <<>>
  /\ underway = <<>>
  /\ called = {}
  /\ refused = {}
  /\ succeeded = {}
  /\ listed = {}
  /\ profile = [known |-> FALSE, of |-> None]
  /\ rows = "none"
  /\ suggested = <<>>
  /\ recoverable = FALSE
  /\ replanned = FALSE
  /\ spent = 0

LookupInit ==
  /\ question \in Questions
  /\ dashboard \in Dashboards
  /\ server \in Servers
  /\ stage = "idle"
  /\ Fresh
  /\ throws = 0
  /\ context = NoContext

-----------------------------------------------------------------------------
(* The question *)

Is(q, clue) == clue \in q.clues

\* resolveAllowedToolNames: the allowlist, as far as the server offers it.
Allowed(s) == IF s.configured THEN s.allowlist \cap s.offered ELSE s.offered

\* QUESTION_INTENT_POLICY
PolicyMax(kind) ==
  CASE kind \in {"dashboard_explanation", "filter_or_selection_state"} -> 3
    [] kind \in {"metadata_lookup", "content_search"} -> 5
    [] kind = "data_analysis" -> 8
    [] kind = "how_to_use_tableau" -> 2
    [] kind = "unsupported" -> 0
NeedsMcp(kind) ==
  kind \in {"metadata_lookup", "data_analysis", "content_search"}

\* The chain of keyword tables, when no stronger sign decides.
KeywordIntent(q, d, allowed) ==
  LET query == "query-datasource" \in allowed
      named == Is(q, "datasource_named")
      signal == \E c \in {"analysis", "strong_analysis", "grouped"} : Is(q, c)
  IN IF Is(q, "how_to") THEN "how_to_use_tableau"
     ELSE IF Is(q, "strong_analysis") /\ (query \/ named \/ Is(q, "metadata"))
     THEN "data_analysis"
     ELSE IF Is(q, "filter") /\ ~Is(q, "metadata") /\ ~Is(q, "analysis")
     THEN "filter_or_selection_state"
     ELSE IF Is(q, "metadata") \/ named THEN "metadata_lookup"
     ELSE IF Is(q, "analysis") THEN "data_analysis"
     ELSE IF Is(q, "search") /\ "search-content" \in allowed
     THEN "content_search"
     ELSE IF ~signal /\ (Is(q, "explanation") \/ d.worksheets)
     THEN "dashboard_explanation"
     ELSE "unsupported"

\* A question for the data sources needs no lookup; a metric by group, or a
\* period that a query can answer, is analysis whatever else is asked.
Classify(q, d, allowed) ==
  LET kind ==
        CASE q.request = "datasource_inventory" -> "inventory"
          [] q.request = "field_inventory" -> "metadata_lookup"
          [] OTHER ->
               IF Is(q, "inventory") THEN "inventory"
               ELSE IF \/ Is(q, "metric_by_group")
                       \/ Is(q, "period") /\ "query-datasource" \in allowed
               THEN "data_analysis"
               ELSE KeywordIntent(q, d, allowed)
  IN IF kind = "inventory"
     THEN [intent |-> "dashboard_explanation", needsMcp |-> FALSE, max |-> 0]
     ELSE [intent |-> kind, needsMcp |-> NeedsMcp(kind), max |-> PolicyMax(kind)]

Least(m, n) == IF m < n THEN m ELSE n
Budget == Least(MaxToolCalls, intent.max)

-----------------------------------------------------------------------------
(* Selections *)

When(condition, x) == IF condition THEN <<x>> ELSE <<>>
Take(s, n) == SubSeq(s, 1, Least(n, Len(s)))
RangeOf(s) == {s[i] : i \in 1..Len(s)}

KnownId == IF dashboard.ids = <<>> THEN None ELSE dashboard.ids[1]
NeedsId(tool) == tool \in {"get-datasource-metadata", "query-datasource"}

Ready(tool, of) == [tool |-> tool, ready |-> TRUE, of |-> of,
                    after |-> FALSE, guessed |-> FALSE]
Skipped(tool) == [Ready(tool, None) EXCEPT !.ready = FALSE]

\* Can arguments be inferred from the dashboard, and which?  Those of a query
\* are not validated.
Inferable(tool) ==
  \/ ~server.strict
  \/ tool = "get-workbook" /\ dashboard.workbookId
  \/ NeedsId(tool) /\ KnownId # None
  \/ tool \in Resolving \ {"get-workbook"}
Inferred(tool) ==
  IF ~Inferable(tool) THEN Skipped(tool)
  ELSE IF ~NeedsId(tool) THEN Ready(tool, None)
  ELSE [Ready(tool, KnownId) EXCEPT !.guessed = (tool = "query-datasource")]

\* buildReadySelectionFromToolName
IfReady(tool) ==
  When(tool \in Allowed(server) /\ Inferable(tool), Inferred(tool))

\* Questions for metadata, and aggregates, have a first step that needs no plan.
RulesApply ==
  /\ Budget > 0
  /\ \/ intent.intent = "metadata_lookup"
     \/ intent.intent = "data_analysis" /\ Is(question, "aggregate")
KnowsId == KnownId # None /\ "get-datasource-metadata" \in Allowed(server)
RuleBased ==
  IF ~RulesApply THEN <<>>
  ELSE IF KnowsId THEN <<Ready("get-datasource-metadata", KnownId)>>
  ELSE IF dashboard.names = "chosen"
  THEN Take(IfReady("list-datasources") \o IfReady("search-content"), 1)
  ELSE IF intent.intent = "metadata_lookup"
  THEN Take(IfReady("list-views") \o IfReady("list-workbooks")
              \o IfReady("get-workbook"), Budget)
  ELSE <<>>

\* The names are known, but no tool that resolves them may be called.
RulesStop ==
  /\ RulesApply
  /\ ~KnowsId
  /\ intent.intent = "metadata_lookup"
  /\ dashboard.names = "chosen"
  /\ {"list-datasources", "search-content"} \cap Allowed(server) = {}

\* Without a plan: what is allowlisted, or what suits the dashboard.
Fallback ==
  LET Any(tool) == When(tool \in Allowed(server), Inferred(tool)) IN
  IF server.configured
  THEN Any("list-workbooks") \o Any("get-workbook") \o Any("list-views")
         \o Any("list-datasources") \o Any("search-content")
         \o Any("get-datasource-metadata") \o Any("query-datasource")
  ELSE IF Is(question, "about_data")
  THEN Any("list-datasources") \o Any("get-datasource-metadata")
  ELSE IF dashboard.workbook
  THEN Any("list-workbooks") \o Any("get-workbook") \o Any("list-views")
         \o Any("list-datasources") \o Any("search-content")
  ELSE Any("list-views") \o Any("search-content") \o Any("list-workbooks")
         \o Any("list-datasources")

-----------------------------------------------------------------------------
(* The plan of the model: allowed tools, each once, within the budget, with  *)
(* the arguments the model thinks of.                                        *)

PlannedCall ==
  {c \in [tool : Allowed(server), of : Luids \cup {None}, after : BOOLEAN] :
     c.of # None => NeedsId(c.tool) \/ c.tool = "get-workbook"}
Plans ==
  IF ~server.planning \/ Budget = 0 \/ ~intent.needsMcp THEN {<<>>}
  ELSE {p \in UNION {[1..n -> PlannedCall] : n \in 0..Least(PlanLength, Budget)} :
          \A i, j \in DOMAIN p : p[i].tool = p[j].tool => i = j}

\* inferPlannedToolArguments: the identifier a planned call ends up with, and
\* whether its arguments pass the validation.
Bound(c) ==
  IF c.tool = "get-datasource-metadata" /\ c.of = None THEN KnownId
  ELSE IF NeedsId(c.tool) THEN c.of ELSE None
\* validateQueryDatasourceArguments: which data source may be queried; that
\* fields are aggregated and harmless, a planned query is taken to satisfy.
MayQuery(d) == dashboard.ids = <<>> \/ d \in RangeOf(dashboard.ids)
Valid(c) ==
  /\ NeedsId(c.tool) => Bound(c) # None
  /\ c.tool = "query-datasource" => MayQuery(c.of)
  /\ c.tool = "get-workbook" => dashboard.workbookId \/ c.of # None
Planned(c) ==
  IF c.tool \in called \/ ~Valid(c) THEN Skipped(c.tool)
  ELSE [Ready(c.tool, Bound(c)) EXCEPT !.after = c.after]
PlannedQueue(p) == [i \in 1..Len(p) |-> Planned(p[i])]

-----------------------------------------------------------------------------
(* What identifies a data source *)

\* How well a listed data source fits the dashboard: without names to compare
\* with, all fit equally, and poorly.
Confidence(d) == IF dashboard.names = "none" THEN 400 ELSE dashboard.match[d]
Resolved(found) ==
  {d \in found : Confidence(d) >= IF dashboard.names = "none" THEN 400 ELSE 700}

\* selectBestResolvedDatasource: the best one, unless another comes close.
IsBest(found, d) ==
  /\ d \in Resolved(found)
  /\ \A e \in Resolved(found) \ {d} : Confidence(d) > Confidence(e) + 51
Best(found) ==
  IF \E d \in Luids : IsBest(found, d)
  THEN CHOOSE d \in Luids : IsBest(found, d)
  ELSE None

\* A query whose fields are known and pass the validation.
Queryable(d) == profile.known /\ MayQuery(d)

-----------------------------------------------------------------------------
(* Tools that follow, and tools that recover *)

\* buildFollowUpToolSelection: the fields of the data source a result
\* identifies; else another search; else the workbook a result names.  A tool
\* that follows need not be on the allowlist.
FollowUp(tool, r, done) ==
  LET identifies == tool \in {"list-datasources", "search-content"}
                      /\ "get-datasource-metadata" \notin done
      describe == /\ identifies
                  /\ "get-datasource-metadata" \in server.offered
                  /\ Best(r.found) # None
      search == /\ identifies
                /\ "search-content" \in server.offered \ done
      open == /\ tool \in {"list-workbooks", "list-views", "search-content"}
              /\ "get-workbook" \in server.offered \ done
              /\ r.workbook
  IN IF describe THEN <<Ready("get-datasource-metadata", Best(r.found))>>
     ELSE IF search THEN <<Ready("search-content", None)>>
     ELSE When(open, Ready("get-workbook", None))

\* Mutant: a query is recovered for questions for metadata only.
QueryWantedForMetadata ==
  /\ intent.intent = "metadata_lookup"
  /\ question.request = "other"
  /\ Is(question, "aggregate")
  /\ "query-datasource" \in Allowed(server) \ called
  /\ dashboard.names # "none"
  /\ Best(listed) # None

\* buildDataAnalysisQueryRecoverySelection: the aggregate query, or the fields
\* it has to be built from.
QueryWanted ==
  /\ intent.intent \in {"metadata_lookup", "data_analysis"}
  /\ question.request = "other"
  /\ Is(question, "aggregate")
  /\ "query-datasource" \in Allowed(server) \ called
  /\ dashboard.names # "none"
  /\ Best(listed) # None
QueryRecovery ==
  IF ~QueryWanted THEN <<>>
  ELSE IF profile.known
  THEN When(Queryable(Best(listed)), Ready("query-datasource", Best(listed)))
  ELSE When("get-datasource-metadata" \in Allowed(server) \ called,
            Ready("get-datasource-metadata", Best(listed)))

\* Mutant: one tool is enough to resolve the identifier.
RecoveryByListing ==
  IF \/ intent.intent # "metadata_lookup"
     \/ dashboard.names = "none"
     \/ Resolved(listed) # {}
     \/ "list-datasources" \in called
  THEN <<>> ELSE IfReady("list-datasources")

\* buildMetadataIdentifierRecoverySelection: the names of the dashboard are
\* candidates themselves, but candidates without an identifier.
IdentifierRecovery ==
  IF \/ intent.intent # "metadata_lookup"
     \/ dashboard.names = "none"
     \/ Resolved(listed) # {}
  THEN <<>>
  ELSE IF "list-datasources" \notin called THEN IfReady("list-datasources")
  ELSE IF "search-content" \notin called THEN IfReady("search-content")
  ELSE <<>>

\* A failure that is no error result forgets nothing: the tool is neither
\* counted nor called, and may be recovered again.
Suggest(s, tool) == IF tool \in RangeOf(s) THEN s ELSE Append(s, tool)
SuggestPair(s, a, b) == Suggest(Suggest(s, a), b)
SuggestAll(s) ==
  SuggestPair(SuggestPair(Suggest(s, "list-datasources"), "search-content",
                          "list-views"), "get-workbook", "list-workbooks")

\* shouldReplanForDatasourceQuery
MetadataRefused ==
  /\ intent.intent = "metadata_lookup"
  /\ recoverable \/ "get-datasource-metadata" \in refused
QueryStillMissing ==
  /\ \/ intent.intent = "data_analysis"
     \/ intent.intent = "metadata_lookup" /\ Is(question, "aggregate")
  /\ "query-datasource" \notin called
  /\ succeeded \cap {"list-datasources", "get-datasource-metadata"} # {}
ShouldReplan ==
  /\ ~replanned
  /\ server.planning
  /\ IF MetadataRefused
     THEN suggested # <<>> \/ (refused \cup succeeded) \cap Resolving = {}
     ELSE QueryStillMissing

\* The recovery tools that were suggested come before the plan's own.
Recovery(i) ==
  IF i <= Len(suggested) /\ suggested[i] \notin called
  THEN IfReady(suggested[i]) ELSE <<>>
RecoveryQueue ==
  Recovery(1) \o Recovery(2) \o Recovery(3) \o Recovery(4) \o Recovery(5)
ReadyPlan(p) ==
  \A i \in DOMAIN p :
    /\ Planned(p[i]).ready
    /\ suggested # <<>> => p[i].tool # "get-datasource-metadata"
    /\ \A j \in 1..Len(RecoveryQueue) : RecoveryQueue[j].tool # p[i].tool

-----------------------------------------------------------------------------
(* Beginning *)

\* Without a lookup: the transport is unknown, nobody is signed in (warnings
\* only), the configuration or the secrets are missing, or the server cannot be
\* started or asked for its tools.
NoLookup(failed) ==
  /\ stage = "idle"
  /\ stage' = "over"
  /\ context' = Warned(failed)
  /\ UNCHANGED <<inputs, intent, queue, underway, results, evidence, recovery,
                 spent, throws>>

HttpLookup ==
  /\ stage = "idle"
  /\ server.http
  /\ stage' = "over"
  /\ context' \in HttpContexts
  /\ UNCHANGED <<inputs, intent, queue, underway, results, evidence, recovery,
                 spent, throws>>

\* The tools are listed, and the question is classified, unless the agent's
\* plan has said what it is.
Connect(hint) ==
  /\ stage = "idle"
  /\ ~server.http
  /\ stage' = "selecting"
  /\ intent' = IF hint # None THEN hint
               ELSE Classify(question, dashboard, Allowed(server))
  /\ UNCHANGED <<inputs, queue, underway, results, evidence, recovery, spent,
                 throws, context>>

\* selectInitialTools: by rule; else what the model plans, if any of it can be
\* called; else the fallback.
FirstTools(p) ==
  IF RuleBased # <<>> THEN RuleBased
  ELSE IF RulesStop THEN <<>>
  ELSE IF \E i \in DOMAIN p : Planned(p[i]).ready THEN PlannedQueue(p)
  ELSE Fallback
Select ==
  /\ stage = "selecting"
  /\ stage' = "calling"
  /\ \E p \in Plans : queue' = FirstTools(p)
  /\ UNCHANGED <<inputs, intent, underway, results, evidence, recovery, spent,
                 throws, context>>

-----------------------------------------------------------------------------
(* The loop *)

\* Mutant: the budget is not looked at.
MayAlwaysCall ==
  stage = "calling" /\ underway = <<>> /\ intent.needsMcp

MayCall ==
  /\ stage = "calling"
  /\ underway = <<>>
  /\ intent.needsMcp
  /\ spent < Budget

\* Mutant: a batch may repeat what was called.
IndependentAgain(n) ==
  /\ n <= Len(queue)
  /\ \A i \in 1..n : /\ queue[i].ready
                     /\ ~queue[i].after
                     /\ queue[i].tool \in ParallelSafe
                     /\ \A j \in 1..(i - 1) : queue[j].tool # queue[i].tool

\* collectParallelizableToolBatch: the calls at the head of the queue that may
\* be made at once.
Independent(n) ==
  /\ n <= Len(queue)
  /\ \A i \in 1..n : /\ queue[i].ready
                     /\ ~queue[i].after
                     /\ queue[i].tool \in ParallelSafe \ called
                     /\ \A j \in 1..(i - 1) : queue[j].tool # queue[i].tool

\* Up to three calls, whatever is left of the budget and whether or not their
\* preconditions hold.
CallBatch ==
  /\ MayCall
  /\ \E n \in 2..3 :
       /\ Independent(n)
       /\ n = 3 \/ ~Independent(n + 1)
       /\ underway' = SubSeq(queue, 1, n)
       /\ queue' = SubSeq(queue, n + 1, Len(queue))
  /\ UNCHANGED <<inputs, stage, intent, results, evidence, recovery, spent,
                 throws, context>>

Alone == MayCall /\ queue # <<>> /\ ~Independent(2)

\* checkToolPreconditions: only a call for metadata has one.
Blocked(selection) ==
  selection.tool = "get-datasource-metadata" /\ selection.of = None

CallOne ==
  /\ Alone
  /\ Head(queue).ready
  /\ Head(queue).tool \notin called
  /\ ~Blocked(Head(queue))
  /\ underway' = <<Head(queue)>>
  /\ queue' = Tail(queue)
  /\ UNCHANGED <<inputs, stage, intent, results, evidence, recovery, spent,
                 throws, context>>

\* A call that cannot be made is recorded; one that was made is dropped.
Skip ==
  /\ Alone
  /\ ~Head(queue).ready \/ Head(queue).tool \in called
  /\ queue' = Tail(queue)
  /\ refused' = IF Head(queue).ready THEN refused
                ELSE refused \cup {Head(queue).tool}
  /\ UNCHANGED <<inputs, stage, intent, underway, called, succeeded, evidence,
                 recovery, spent, throws, context>>

\* Metadata without an identifier (the dashboard knows none, or the call would
\* have one): what may still resolve one is suggested.
Unresolvable ==
  /\ Resolved(listed) = {}
  /\ dashboard.names = "none"
  /\ {"list-views", "list-workbooks"} \subseteq called
Block ==
  /\ Alone
  /\ Head(queue).ready
  /\ Head(queue).tool \notin called
  /\ Blocked(Head(queue))
  /\ queue' = Tail(queue)
  /\ refused' = refused \cup {Head(queue).tool}
  /\ recoverable' = (recoverable \/ ~Unresolvable)
  /\ suggested' =
       IF Unresolvable THEN suggested
       ELSE IF Resolved(listed) # {} \/ dashboard.names # "none"
       THEN SuggestPair(suggested, "list-datasources", "search-content")
       ELSE SuggestPair(SuggestPair(suggested, "list-views", "list-workbooks"),
                        "get-workbook", "search-content")
  /\ UNCHANGED <<inputs, stage, intent, underway, called, succeeded, evidence,
                 replanned, spent, throws, context>>

-----------------------------------------------------------------------------
(* What a call comes to *)

NoReply == [kind |-> "throws", found |-> {}, workbook |-> FALSE,
            fields |-> FALSE, rows |-> "none"]
Result == [NoReply EXCEPT !.kind = "result"]

\* What the extraction makes of a successful result of the tool: the data
\* sources and the workbook it identifies, the fields it describes, the rows.
SourcesFound(tool) == IF tool \in Resolving THEN SUBSET Luids ELSE {{}}
WorkbookNamed(tool) ==
  IF tool \in {"list-workbooks", "list-views", "search-content"}
  THEN BOOLEAN ELSE {FALSE}
FieldsFound(tool) == IF tool = "get-datasource-metadata" THEN BOOLEAN ELSE {FALSE}
RowsFound(c) ==
  IF c.tool = "query-datasource" /\ ~c.guessed THEN Quality ELSE {"none"}
ResultsOf(c) ==
  {[Result EXCEPT !.found = f, !.workbook = w, !.fields = p, !.rows = q] :
     f \in SourcesFound(c.tool), w \in WorkbookNamed(c.tool),
     p \in FieldsFound(c.tool), q \in RowsFound(c)}

\* executeToolWithCache: an answer, from the server or, whether it was an error
\* or not, from a cache; a query the server finds ambiguous is sent twice.
Replies(c) ==
  {r \in {NoReply, [NoReply EXCEPT !.kind = "error"]} \cup ResultsOf(c) :
     r.kind = "throws" => throws < MaxThrows}

\* processSelectionOutcome
Answered(c, r) ==
  /\ r.kind # "throws"
  /\ called' = called \cup {c.tool}
  /\ spent' = spent + 1
  /\ throws' = throws
Threw(r) ==
  /\ r.kind = "throws"
  /\ throws' = throws + 1
  /\ UNCHANGED <<called, spent>>

Succeeds(c, r) ==
  /\ Answered(c, r)
  /\ r.kind = "result"
  /\ succeeded' = succeeded \cup {c.tool}
  /\ listed' = listed \cup r.found
  /\ profile' = IF r.fields THEN [known |-> TRUE, of |-> c.of] ELSE profile
  /\ rows' = IF c.tool = "query-datasource" THEN r.rows ELSE rows
  /\ queue' = FollowUp(c.tool, r, called') \o queue
  /\ UNCHANGED <<refused, recovery>>

Fails(c, r) ==
  /\ Answered(c, r) \/ Threw(r)
  /\ r.kind # "result"
  /\ refused' = refused \cup {c.tool}
  /\ LET lost == /\ intent.intent = "metadata_lookup"
                 /\ c.tool = "get-datasource-metadata"
     IN /\ recoverable' = (recoverable \/ lost)
        /\ suggested' = IF lost THEN SuggestAll(suggested) ELSE suggested
  /\ UNCHANGED <<succeeded, evidence, queue, replanned>>

\* The outcomes of a batch are processed in the order of its calls, when all
\* have settled.
CallReturns ==
  /\ stage = "calling"
  /\ underway # <<>>
  /\ \E r \in Replies(Head(underway)) :
       \/ Succeeds(Head(underway), r)
       \/ Fails(Head(underway), r)
  /\ underway' = Tail(underway)
  /\ UNCHANGED <<inputs, stage, intent, context>>

-----------------------------------------------------------------------------
(* The queue is empty *)

Starved == MayCall /\ queue = <<>>

Recover ==
  /\ Starved
  /\ QueryRecovery \o IdentifierRecovery # <<>>
  /\ queue' = Take(QueryRecovery \o IdentifierRecovery, 1)
  /\ UNCHANGED <<inputs, stage, intent, underway, results, evidence, recovery,
                 spent, throws, context>>

\* One more plan, of which only what can be called is queued.
Replan ==
  /\ Starved
  /\ QueryRecovery \o IdentifierRecovery = <<>>
  /\ ShouldReplan
  /\ replanned' = TRUE
  /\ \/ queue' = <<>>
     \/ \E p \in Plans : /\ ReadyPlan(p)
                         /\ queue' = RecoveryQueue \o PlannedQueue(p)
  /\ UNCHANGED <<inputs, stage, intent, underway, results, evidence, suggested,
                 recoverable, spent, throws, context>>

\* Mutant: the budget does not end a lookup.
DoneWhenEmpty ==
  /\ stage = "calling"
  /\ underway = <<>>
  /\ queue = <<>>
  /\ QueryRecovery \o IdentifierRecovery = <<>>
  /\ ~ShouldReplan

Done ==
  /\ stage = "calling"
  /\ underway = <<>>
  /\ \/ ~intent.needsMcp
     \/ spent >= Budget
     \/ /\ queue = <<>>
        /\ QueryRecovery \o IdentifierRecovery = <<>>
        /\ ~ShouldReplan

\* The fields of a data source may be known without one to aggregate.
Described == "get-datasource-metadata" \in succeeded
Profiled(fields) == profile.known \/ (fields /\ Described)
\* The data sources the results name, and whether something went wrong.
Named == listed # {}
Queried == "query-datasource" \in succeeded
Complains == refused # {} \/ (Queried /\ rows = "none")

\* What the results come to; all of it counts, whatever was left in the queue.
Outcome(fields) ==
  [failed |-> FALSE, read |-> TRUE, intent |-> intent.intent,
   metadata |-> IF Described THEN "yes" ELSE "no", named |-> Named,
   fields |-> Profiled(fields), queried |-> Queried, insight |-> rows,
   used |-> succeeded # {}, warned |-> Complains]
Finish ==
  /\ Done
  /\ stage' = "over"
  /\ \E fields \in BOOLEAN : context' = Outcome(fields)
  /\ UNCHANGED <<inputs, intent, queue, underway, results, evidence, recovery,
                 spent, throws>>

\* An error outside the calls ends the lookup without a context: whatever the
\* tools have answered is lost.
Collapse ==
  /\ stage \in {"selecting", "calling"}
  /\ underway = <<>>
  /\ stage' = "over"
  /\ context' = Warned(TRUE)
  /\ UNCHANGED <<inputs, intent, queue, underway, results, evidence, recovery,
                 spent, throws>>

\* What the next lookup begins with: nothing of the last one.
Forget ==
  /\ intent' = NoIntent
  /\ queue' = <<>>
  /\ underway' = <<>>
  /\ called' = {}
  /\ refused' = {}
  /\ succeeded' = {}
  /\ listed' = {}
  /\ profile' = [known |-> FALSE, of |-> None]
  /\ rows' = "none"
  /\ suggested' = <<>>
  /\ recoverable' = FALSE
  /\ replanned' = FALSE
  /\ spent' = 0
  /\ stage' = "idle"
  /\ context' = NoContext

LookupStep ==
  \/ Select
  \/ CallBatch
  \/ CallOne
  \/ Skip
  \/ Block
  \/ CallReturns
  \/ Recover
  \/ Replan
  \/ Finish

LookupNext ==
  \/ \E failed \in BOOLEAN : NoLookup(failed)
  \/ HttpLookup
  \/ Connect(None)
  \/ LookupStep
  \/ Collapse

LookupSpec == LookupInit /\ [][LookupNext]_lookupVars

-----------------------------------------------------------------------------
(* Properties *)

\* No tool answers twice in one lookup: the calls under way, which may be
\* three at once, are of different tools, none of which has answered.
NoToolAnswersTwice ==
  \A i \in 1..Len(underway) :
    /\ underway[i].tool \notin called
    /\ \A j \in 1..(i - 1) : underway[j].tool # underway[i].tool

\* However the queue grew, and although a batch is not cut to what is left of
\* the budget, a lookup counts at most two calls too many.
BudgetOverrun == spent <= Budget + 2

\* The number of calls of a request is limited by TABLEAU_MCP_MAX_TOOL_CALLS.
CallsWithinBudget == spent <= MaxToolCalls

\* A lookup for metadata that ends by itself, with calls left and no call lost,
\* has tried everything that could identify a named data source.
ResolutionTried ==
  (/\ stage = "over" /\ context.intent = "metadata_lookup"
   /\ intent.needsMcp /\ spent < Budget /\ throws = 0
   /\ dashboard.names # "none" /\ Resolved(listed) = {}
   /\ "list-datasources" \in Allowed(server))
  => /\ "list-datasources" \in called
     /\ "search-content" \in Allowed(server) => "search-content" \in called

\* An aggregate that ends without a query, with calls left and no call lost,
\* has no data source that is clearly meant, or no fields to query.
QueryTried ==
  (/\ stage = "over" /\ context.intent = "data_analysis"
   /\ question.request = "other" /\ Is(question, "aggregate")
   /\ intent.needsMcp /\ spent < Budget /\ throws = 0
   /\ dashboard.names # "none"
   /\ "query-datasource" \in Allowed(server) \ called)
  => \/ Best(listed) = None
     \/ profile.known /\ ~Queryable(Best(listed))
     \/ ~profile.known /\ "get-datasource-metadata" \notin Allowed(server) \ called

=============================================================================
