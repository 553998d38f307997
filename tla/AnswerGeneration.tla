--------------------------- MODULE AnswerGeneration ---------------------------
(***************************************************************************)
(* How an answer is made: a question for the data sources is answered from *)
(* the dashboard; any other one is looked into first.  With an agent, a    *)
(* plan of the model says what to look for, lookups are repeated while the *)
(* model asks for more and time is left, and their contexts are merged;    *)
(* without one there is a single lookup.  The answer is then written, by   *)
(* rule where the context allows it and else by the model, and saved.      *)
(*                                                                         *)
(* A lookup is one of the Tableau MCP provider; its steps are actions of   *)
(* this specification.  The text of an answer is left out: what is kept is *)
(* where it comes from.                                                    *)
(***************************************************************************)
EXTENDS McpLookup

CONSTANTS
  MaxPasses,      \* CHAT_AGENT_MAX_CONTEXT_PASSES
  PlannedIntents  \* bound on the intents the model's plan may name

ASSUME AnswerConstantsAssumption ==
  /\ MaxPasses \in Nat \ {0}
  /\ PlannedIntents \subseteq Intents

VARIABLES
  guided,    \* does an agent run? (chatAgent.shouldRun)
  at,        \* where generateAnswer is
  plan,      \* the agent's plan, as the hint of the lookups
  repeated,  \* was the next planning question investigated before?
  passes,    \* how many contexts are collected
  gathered,  \* the merged context
  remaining, \* the time left, as it was last looked at
  source     \* where the answer comes from

answerVars == <<guided, at, plan, repeated, passes, gathered, remaining, source>>
vars == <<lookupVars, answerVars>>

-----------------------------------------------------------------------------
(* State *)

Places == {"asked", "deciding", "looking", "evaluating", "looked",
           "generating", "saving", "answered", "failed"}
Sources == {"structured", "inventory", "fields", "disconnected", "insight",
            "withheld", "generic", "model"}

\* Enough for another lookup, for an answer of the model, or for neither.
Remaining == {"plenty", "under12", "under8"}
Later == CASE remaining = "plenty" -> Remaining
           [] remaining = "under12" -> {"under12", "under8"}
           [] remaining = "under8" -> {"under8"}

TypeOK ==
  /\ LookupTypeOK
  /\ guided \in BOOLEAN
  /\ at \in Places
  /\ plan \in IntentRecord
  /\ repeated \in BOOLEAN
  /\ passes \in 0..MaxPasses
  /\ gathered \in Context
  /\ remaining \in Remaining
  /\ source \in Sources \cup {None}

Init ==
  /\ LookupInit
  /\ guided \in BOOLEAN
  /\ at = "asked"
  /\ plan = NoIntent
  /\ repeated = FALSE
  /\ passes = 0
  /\ gathered = NoContext
  /\ remaining = "plenty"
  /\ source = None

-----------------------------------------------------------------------------
(* Answers from the dashboard *)

\* isStrongDatasourceInventoryRequest, isStrongFieldInventoryRequest
Strong(request) == question.request = request /\ Is(question, "certain")

\* buildDatasourceInventoryFastPathAnswer
FastPath == Strong("datasource_inventory") /\ dashboard.names # "none"

\* The only data source of the dashboard is described by the metadata
\* discovery, if its plan is executable.
AnswerStructured ==
  /\ at = "asked"
  /\ FastPath
  /\ dashboard.names = "chosen"
  /\ source' = "structured"
  /\ at' = "saving"
  /\ UNCHANGED <<lookupVars, guided, plan, repeated, passes, gathered, remaining>>

AnswerFast ==
  /\ at = "asked"
  /\ FastPath
  /\ source' = "inventory"
  /\ at' = "saving"
  /\ UNCHANGED <<lookupVars, guided, plan, repeated, passes, gathered, remaining>>

\* The history cannot be read, the model cannot answer, or the answer cannot
\* be saved: the request fails.
Fail ==
  /\ at \in {"asked", "generating", "saving"}
  /\ at' = "failed"
  /\ UNCHANGED <<lookupVars, guided, plan, repeated, passes, gathered,
                 remaining, source>>

-----------------------------------------------------------------------------
(* The plan *)

\* The question as it was understood does not change, but it is investigated
\* in the words of the model, which may name one of several data sources.
Rephrased(q) ==
  {p \in Questions :
     /\ p.request = q.request
     /\ p.clues \ Wordings = q.clues \ Wordings}
Renamed(d) ==
  {e \in Dashboards :
     /\ [e EXCEPT !.names = d.names, !.match = d.match] = d
     /\ (e.names = "none") <=> (d.names = "none")}

\* toIntentHint: how many calls a hint allows is the policy's to say, also
\* where the classification allows none.
Hint(kind, needsMcp) ==
  [intent |-> kind, needsMcp |-> needsMcp, max |-> PolicyMax(kind)]
\* buildHeuristicPlan, when the model's plan cannot be had or read.
HeuristicPlan ==
  LET c == Classify(question, dashboard, {}) IN Hint(c.intent, c.needsMcp)
\* applyRequestTypePlanOverride
Override(h) ==
  CASE question.request = "datasource_inventory" ->
         Hint("dashboard_explanation", FALSE)
    [] question.request = "field_inventory" -> Hint("metadata_lookup", TRUE)
    [] OTHER -> h
AgentPlans ==
  {Override(h) : h \in {HeuristicPlan}
                   \cup {Hint(i, n) : i \in PlannedIntents, n \in BOOLEAN}}

MakePlan ==
  /\ at = "asked"
  /\ guided
  /\ ~FastPath
  /\ plan' \in AgentPlans
  /\ question' \in Rephrased(question)
  /\ dashboard' \in Renamed(dashboard)
  /\ at' = "deciding"
  /\ UNCHANGED <<server, stage, intent, queue, underway, results, evidence,
                 recovery, spent, throws, context, guided, repeated, passes,
                 gathered, remaining, source>>

\* Without an agent there is one lookup, which classifies the question itself.
LookOnce ==
  /\ at = "asked"
  /\ ~guided
  /\ ~FastPath
  /\ at' = "looking"
  /\ UNCHANGED <<lookupVars, guided, plan, repeated, passes, gathered,
                 remaining, source>>

-----------------------------------------------------------------------------
(* Passes *)

\* A pass begins unless too little time is left or its question was asked
\* before.
StartPass ==
  /\ at = "deciding"
  /\ "plenty" \in Later
  /\ ~repeated
  /\ at' = "looking"
  /\ remaining' = "plenty"
  /\ UNCHANGED <<lookupVars, guided, plan, repeated, passes, gathered, source>>

StopPasses ==
  /\ at = "deciding"
  /\ remaining' \in Later
  /\ remaining' # "plenty" \/ repeated
  /\ at' = "looked"
  /\ UNCHANGED <<lookupVars, guided, plan, repeated, passes, gathered, source>>

Look ==
  /\ at = "looking"
  /\ \/ \E failed \in BOOLEAN : NoLookup(failed)
     \/ HttpLookup
     \/ Connect(IF guided THEN plan ELSE None)
     \/ LookupStep
  /\ UNCHANGED answerVars

LookupCollapses ==
  /\ at = "looking"
  /\ Collapse
  /\ UNCHANGED answerVars

\* mergeAdditionalContexts: what is newest comes first, and rows of the same
\* metric, data source and period replace those found before; that a
\* connection failed is forgotten.
MergedRows(old, new) ==
  IF new = "none" THEN {old}
  ELSE IF old = "good" THEN {old, new} ELSE {new}

Merge(old, new) ==
  {[failed |-> FALSE, read |-> old.read \/ new.read,
    intent |-> IF new.intent = None THEN old.intent ELSE new.intent,
    metadata |-> IF new.metadata = "unknown" THEN old.metadata ELSE new.metadata,
    named |-> old.named \/ new.named, fields |-> old.fields \/ new.fields,
    queried |-> old.queried \/ new.queried, insight |-> rs,
    used |-> old.used \/ new.used, warned |-> old.warned \/ new.warned] :
     rs \in MergedRows(old.insight, new.insight)}

\* The context of a finished lookup is collected, and the next lookup starts
\* from nothing.
Collect ==
  /\ at = "looking"
  /\ stage = "over"
  /\ gathered' \in IF guided THEN Merge(gathered, context) ELSE {context}
  /\ passes' = passes + 1
  /\ at' = IF guided THEN "evaluating" ELSE "looked"
  /\ Forget
  /\ UNCHANGED <<inputs, throws, guided, plan, repeated, remaining, source>>

\* shouldEvaluateHeuristically
WorthEvaluating ==
  /\ passes < MaxPasses
  /\ \/ plan.intent = "metadata_lookup" /\ gathered.metadata # "yes"
     \/ plan.intent = "data_analysis" /\ gathered.insight = "none"
     \/ gathered.warned
     \/ ~gathered.used /\ plan.needsMcp

\* Nothing is missing, or the model does not say what, or nothing was gained
\* since the pass before.
Suffices ==
  /\ at = "evaluating"
  /\ at' = "looked"
  /\ UNCHANGED <<lookupVars, guided, plan, repeated, passes, gathered,
                 remaining, source>>

AskMore ==
  /\ at = "evaluating"
  /\ WorthEvaluating
  /\ repeated' \in BOOLEAN
  /\ question' \in Rephrased(question)
  /\ dashboard' \in Renamed(dashboard)
  /\ at' = "deciding"
  /\ UNCHANGED <<server, stage, intent, queue, underway, results, evidence,
                 recovery, spent, throws, context, guided, plan, passes,
                 gathered, remaining, source>>

-----------------------------------------------------------------------------
(* The answer *)

\* buildDatasourceInventoryAnswerFromContext
ListsSources(c) == c.read /\ Strong("datasource_inventory") /\ c.named
\* buildFieldInventoryAnswerFromContext
ListsFields(c) == c.read /\ Strong("field_inventory") /\ c.fields
\* buildMcpConnectionFailureAnswer
Disconnected(c) == c.failed /\ c.intent = "data_analysis"

\* selectBestValidatedQueryInsight: rows of the metric, ranking and period that
\* were asked for; no question for an inventory is answered from rows.
Fits(c) == c.insight = "good"
Validated(c) == question.request = "other" /\ Fits(c)
\* buildStructuredDataAnalysisAnswer
Reports(c) == c.intent = "data_analysis" /\ Validated(c)

\* buildGroupedTrendAnalysisFallback, buildNoValidatedRankingFallback and
\* buildSafeDataAnalysisFallback: no answer rather than a wrong one.
WithholdsTrend(c) == c.read /\ Is(question, "trend")
WithholdsRanking(c) == c.intent = "data_analysis" /\ Is(question, "ranking")
WithholdsAnalysis(c) == c.intent = "data_analysis" /\ c.queried

\* Mutant: only what a query returned is withheld.
WithholdsResults(c) == ~Validated(c) /\ WithholdsAnalysis(c)

Withholds(c) ==
  /\ ~Validated(c)
  /\ WithholdsTrend(c) \/ WithholdsRanking(c) \/ WithholdsAnalysis(c)

\* resolveFinalUserFacingAnswer
FinalSource(c) ==
  IF ListsSources(c) THEN "inventory"
  ELSE IF ListsFields(c) THEN "fields"
  ELSE IF Disconnected(c) THEN "disconnected"
  ELSE IF Reports(c) THEN "insight"
  ELSE IF Withholds(c) THEN "withheld"
  ELSE "model"

\* Mutant: in a hurry there is no table.
LateSourceWithoutRows(c) ==
  IF ListsSources(c) THEN "inventory"
  ELSE IF ListsFields(c) THEN "fields"
  ELSE "generic"

\* buildDeadlineAwareDeterministicAnswer
LateSource(c) ==
  IF ListsSources(c) THEN "inventory"
  ELSE IF ListsFields(c) THEN "fields"
  ELSE IF Reports(c) THEN "insight"
  ELSE "generic"

AnswerFields ==
  /\ at = "looked"
  /\ ListsFields(gathered)
  /\ source' = "fields"
  /\ at' = "saving"
  /\ UNCHANGED <<lookupVars, guided, plan, repeated, passes, gathered, remaining>>

AnswerLate ==
  /\ at = "looked"
  /\ ~ListsFields(gathered)
  /\ remaining' = "under8"
  /\ source' = LateSource(gathered)
  /\ at' = "saving"
  /\ UNCHANGED <<lookupVars, guided, plan, repeated, passes, gathered>>

AskModel ==
  /\ at = "looked"
  /\ ~ListsFields(gathered)
  /\ remaining' \in Later \ {"under8"}
  /\ at' = "generating"
  /\ UNCHANGED <<lookupVars, guided, plan, repeated, passes, gathered, source>>

\* The text of the model is used only if nothing else answers.
Resolve ==
  /\ at = "generating"
  /\ source' = FinalSource(gathered)
  /\ at' = "saving"
  /\ UNCHANGED <<lookupVars, guided, plan, repeated, passes, gathered, remaining>>

Save ==
  /\ at = "saving"
  /\ at' = "answered"
  /\ UNCHANGED <<lookupVars, guided, plan, repeated, passes, gathered,
                 remaining, source>>

\* What the function does if nothing it depends on fails for good.
Proceed ==
  \/ AnswerStructured
  \/ AnswerFast
  \/ MakePlan
  \/ LookOnce
  \/ StartPass
  \/ StopPasses
  \/ Look
  \/ Collect
  \/ Suffices
  \/ AskMore
  \/ AnswerFields
  \/ AnswerLate
  \/ AskModel
  \/ Resolve
  \/ Save

Next ==
  \/ Proceed
  \/ LookupCollapses
  \/ Fail

\* An answer is one asynchronous function that runs to its end; nothing makes
\* it fail.
Spec == Init /\ [][Next]_vars /\ WF_vars(Proceed)

-----------------------------------------------------------------------------
(* Properties *)

Written == at \in {"saving", "answered"}

\* A ranking that was looked into as data analysis is never answered in the
\* words of the model: it comes from a query that succeeded, or is withheld, or
\* the time was up (resolveFinalUserFacingAnswer).
RankingBacked ==
  (/\ Written /\ Is(question, "ranking")
   /\ question.request = "other" /\ gathered.intent = "data_analysis")
  => \/ source = "insight" /\ gathered.queried
     \/ source = "withheld" /\ gathered.insight # "good"
     \/ source = "generic" /\ remaining = "under8"

\* What the lookups established is what the answer says, also when the time is
\* up, another lookup failed after it, or the model was asked.
EstablishedIsTold ==
  Written =>
    /\ (gathered.intent = "data_analysis" /\ Validated(gathered))
         => source = "insight"
    /\ ListsFields(gathered) => source = "fields"

\* A later lookup takes nothing back: that a query succeeded, that rows or
\* fields were found, how the question was read.
EvidenceKept ==
  [][/\ gathered.queried => gathered'.queried
     /\ gathered.fields => gathered'.fields
     /\ gathered.insight # "none" => gathered'.insight # "none"
     /\ gathered.intent # None => gathered'.intent # None]_gathered

\* Every request is answered or refused: lookups, passes and plans end, if only
\* finitely many calls throw.
AnswerSettles == at = "asked" ~> at \in {"answered", "failed"}

=============================================================================
