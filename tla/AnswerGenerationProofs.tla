------------------------ MODULE AnswerGenerationProofs ------------------------
(***************************************************************************)
(* Proofs about McpLookup and AnswerGeneration, for any questions, sites,  *)
(* servers and budgets and any number of passes: first LookupInv, the      *)
(* inductive invariant of one lookup, whose steps are also those of an     *)
(* answer; then AnswerInv, which adds what holds between lookups.          *)
(***************************************************************************)
EXTENDS AnswerGeneration, SequenceTheorems, TLAPS

\* A lookup that has not begun has nothing.
IdleIsFresh == stage = "idle" => Fresh

\* The calls under way are counted when they answer.
WithinOverrun == spent + Len(underway) <= Budget + 2

\* Rows come from queries that succeeded, in a lookup and in its context, and
\* a context without a lookup says nothing about the question.
RowsAreQueried == rows # "none" => Queried
ContextSound(c) ==
  /\ c.insight # "none" => c.queried
  /\ c.failed => c.intent = None

\* A lookup that ended by itself, with calls left, had nothing to recover.
EndedExhausted ==
  (stage = "over" /\ intent.needsMcp /\ context.intent # None /\ spent < Budget)
  => /\ context.intent = intent.intent
     /\ QueryRecovery \o IdentifierRecovery = <<>>

LookupInv ==
  /\ LookupTypeOK
  /\ IdleIsFresh
  /\ NoToolAnswersTwice
  /\ WithinOverrun
  /\ RowsAreQueried
  /\ ContextSound(context)
  /\ EndedExhausted

-----------------------------------------------------------------------------
(* Budgets and intents *)

\* The policy allows at most eight calls.
LEMMA PolicyMaxBounded ==
  ASSUME NEW kind \in Intents
  PROVE  PolicyMax(kind) \in 0..8
BY DEF Intents, PolicyMax

\* The classification gives an intent the policy knows.
LEMMA ClassifyType ==
  ASSUME NEW q, NEW d, NEW allowed
  PROVE  Classify(q, d, allowed) \in IntentRecord
<1>1. KeywordIntent(q, d, allowed) \in Intents
  BY DEF KeywordIntent, Intents
<1> DEFINE kind ==
      CASE q.request = "datasource_inventory" -> "inventory"
        [] q.request = "field_inventory" -> "metadata_lookup"
        [] OTHER ->
             IF Is(q, "inventory") THEN "inventory"
             ELSE IF \/ Is(q, "metric_by_group")
                     \/ Is(q, "period") /\ "query-datasource" \in allowed
             THEN "data_analysis"
             ELSE KeywordIntent(q, d, allowed)
<1>2. kind \in Intents \cup {"inventory"}
  BY <1>1 DEF Intents
<1>3. \A k \in Intents : PolicyMax(k) \in 0..8 /\ NeedsMcp(k) \in BOOLEAN
  BY PolicyMaxBounded DEF NeedsMcp
<1>4. Classify(q, d, allowed)
        = IF kind = "inventory"
          THEN [intent |-> "dashboard_explanation", needsMcp |-> FALSE, max |-> 0]
          ELSE [intent |-> kind, needsMcp |-> NeedsMcp(kind), max |-> PolicyMax(kind)]
  BY DEF Classify
<1>5. "dashboard_explanation" \in Intents
  BY DEF Intents
<1> HIDE DEF kind
<1>6. CASE kind = "inventory"
  BY <1>4, <1>5, <1>6 DEF IntentRecord
<1>7. CASE kind # "inventory"
  BY <1>2, <1>3, <1>4, <1>7 DEF IntentRecord
<1> QED BY <1>6, <1>7

\* The budget of a lookup is a number, and the setting bounds it.
LEMMA BudgetType ==
  ASSUME intent \in IntentRecord
  PROVE  Budget \in Nat /\ Budget <= MaxToolCalls
BY ConstantsAssumption DEF Budget, Least, IntentRecord

-----------------------------------------------------------------------------
(* Sequences of selections *)

\* One selection, if any.
LEMMA WhenType ==
  ASSUME NEW S, NEW condition, NEW x, condition => x \in S
  PROVE  /\ When(condition, x) \in Seq(S)
         /\ When(condition, x) = <<>> <=> ~condition
BY DEF When

\* The beginning of a sequence is one.
LEMMA TakeType ==
  ASSUME NEW S, NEW s \in Seq(S), NEW n \in Nat
  PROVE  Take(s, n) \in Seq(S)
<1>1. Len(s) \in Nat /\ \A i \in 1..Len(s) : s[i] \in S
  BY LenProperties, ElementOfSeq
<1>2. Least(n, Len(s)) \in Int /\ Least(n, Len(s)) <= Len(s)
  BY <1>1 DEF Least
<1>3. \A i \in 1..Least(n, Len(s)) : s[i] \in S
  BY <1>1, <1>2
<1> QED BY <1>2, <1>3, SubSeqProperties DEF Take

\* What is ready, and what is skipped, is a selection of the tool.
LEMMA ReadyType ==
  ASSUME NEW tool \in Tools, NEW of \in Luids \cup {None}
  PROVE  Ready(tool, of) \in Selection /\ Skipped(tool) \in Selection
BY DEF Ready, Skipped, Selection

\* The first identifier of the dashboard, if it knows one.
LEMMA KnownIdType ==
  ASSUME dashboard \in Dashboards
  PROVE  KnownId \in Luids \cup {None}
<1>1. dashboard.ids \in Seq(Luids)
  BY ConstantsAssumption DEF Dashboard
<1>2. CASE dashboard.ids = <<>>
  BY <1>2 DEF KnownId
<1>3. CASE dashboard.ids # <<>>
  <2>1. Len(dashboard.ids) \in Nat \ {0}
    BY <1>1, <1>3, EmptySeq
  <2>2. dashboard.ids[1] \in Luids
    BY <1>1, <2>1, ElementOfSeq
  <2> QED BY <1>3, <2>2 DEF KnownId
<1> QED BY <1>2, <1>3

\* Arguments inferred from the dashboard make a selection of the tool.
LEMMA InferredType ==
  ASSUME dashboard \in Dashboards, NEW tool \in Tools
  PROVE  Inferred(tool) \in Selection
<1>1. KnownId \in Luids \cup {None}
  BY KnownIdType
<1>2. /\ Skipped(tool) \in Selection
      /\ Ready(tool, None) \in Selection
      /\ Ready(tool, KnownId) \in Selection
  BY <1>1, ReadyType
<1>3. [Ready(tool, KnownId) EXCEPT !.guessed = (tool = "query-datasource")]
        \in Selection
  BY <1>1 DEF Ready, Selection
<1> QED BY <1>2, <1>3 DEF Inferred

\* The tools the allowlist leaves are tools.
LEMMA AllowedType ==
  ASSUME server \in Servers
  PROVE  Allowed(server) \subseteq Tools /\ server.offered \subseteq Tools
BY ConstantsAssumption DEF Server, Allowed

\* The names of the tools.
LEMMA ToolNames ==
  Tools = {"list-workbooks", "get-workbook", "list-views", "list-datasources",
           "search-content", "get-datasource-metadata", "query-datasource"}
BY DEF Tools, ToolOrder

\* A selection from a tool's name, if it may be called at all.
LEMMA IfReadyType ==
  ASSUME dashboard \in Dashboards, NEW tool \in Tools
  PROVE  /\ IfReady(tool) \in Seq(Selection)
         /\ IfReady(tool) = <<>> <=> ~(tool \in Allowed(server) /\ Inferable(tool))
BY InferredType, WhenType DEF IfReady

\* The steps by rule are selections.
LEMMA RuleBasedType ==
  ASSUME dashboard \in Dashboards, intent \in IntentRecord
  PROVE  RuleBased \in Seq(Selection)
<1>1. /\ IfReady("list-datasources") \in Seq(Selection)
      /\ IfReady("search-content") \in Seq(Selection)
      /\ IfReady("list-views") \in Seq(Selection)
      /\ IfReady("list-workbooks") \in Seq(Selection)
      /\ IfReady("get-workbook") \in Seq(Selection)
  BY IfReadyType, ToolNames
<1>2. <<Ready("get-datasource-metadata", KnownId)>> \in Seq(Selection)
  BY ReadyType, KnownIdType, ToolNames
<1>3. /\ IfReady("list-datasources") \o IfReady("search-content") \in Seq(Selection)
      /\ IfReady("list-views") \o IfReady("list-workbooks")
           \o IfReady("get-workbook") \in Seq(Selection)
  BY <1>1, ConcatProperties
<1>4. Budget \in Nat
  BY BudgetType
<1>5. /\ Take(IfReady("list-datasources") \o IfReady("search-content"), 1)
           \in Seq(Selection)
      /\ Take(IfReady("list-views") \o IfReady("list-workbooks")
                \o IfReady("get-workbook"), Budget) \in Seq(Selection)
  BY <1>3, <1>4, TakeType
<1>6. <<>> \in Seq(Selection)
  BY EmptySeq
<1> QED BY <1>2, <1>5, <1>6 DEF RuleBased

\* So is what is selected without a plan.
LEMMA FallbackType ==
  ASSUME dashboard \in Dashboards
  PROVE  Fallback \in Seq(Selection)
<1> DEFINE Any(tool) == When(tool \in Allowed(server), Inferred(tool))
<1>1. \A tool \in Tools : Any(tool) \in Seq(Selection)
  BY InferredType, WhenType
<1>2. /\ Any("list-workbooks") \in Seq(Selection)
      /\ Any("get-workbook") \in Seq(Selection)
      /\ Any("list-views") \in Seq(Selection)
      /\ Any("list-datasources") \in Seq(Selection)
      /\ Any("search-content") \in Seq(Selection)
      /\ Any("get-datasource-metadata") \in Seq(Selection)
      /\ Any("query-datasource") \in Seq(Selection)
  BY <1>1, ToolNames
<1> HIDE DEF Any
<1>3. Any("list-workbooks") \o Any("get-workbook") \o Any("list-views")
        \o Any("list-datasources") \o Any("search-content")
        \o Any("get-datasource-metadata") \o Any("query-datasource")
      \in Seq(Selection)
  BY <1>2, ConcatProperties
<1>4. Any("list-datasources") \o Any("get-datasource-metadata") \in Seq(Selection)
  BY <1>2, ConcatProperties
<1>5. Any("list-workbooks") \o Any("get-workbook") \o Any("list-views")
        \o Any("list-datasources") \o Any("search-content") \in Seq(Selection)
  BY <1>2, ConcatProperties
<1>6. Any("list-views") \o Any("search-content") \o Any("list-workbooks")
        \o Any("list-datasources") \in Seq(Selection)
  BY <1>2, ConcatProperties
<1> QED BY <1>3, <1>4, <1>5, <1>6 DEF Fallback, Any

\* A plan of the model calls tools of the server.
LEMMA PlanType ==
  ASSUME server \in Servers, NEW p \in Plans
  PROVE  \E n \in Nat : p \in [1..n -> [tool : Tools, of : Luids \cup {None},
                                        after : BOOLEAN]]
<1> DEFINE C == [tool : Tools, of : Luids \cup {None}, after : BOOLEAN]
<1>1. PlannedCall \subseteq C
  BY AllowedType DEF PlannedCall
<1>2. CASE ~server.planning \/ Budget = 0 \/ ~intent.needsMcp
  <2>1. p = <<>>
    BY <1>2 DEF Plans
  <2>2. p \in [1..0 -> C]
    BY <2>1
  <2> QED BY <2>2
<1>3. CASE ~(~server.planning \/ Budget = 0 \/ ~intent.needsMcp)
  <2>1. PICK n \in 0..Least(PlanLength, Budget) : p \in [1..n -> PlannedCall]
    BY <1>3 DEF Plans
  <2>2. p \in [1..n -> C]
    BY <1>1, <2>1
  <2> QED BY <2>1, <2>2
<1> QED BY <1>2, <1>3

\* A planned call makes a selection of its tool, ready or skipped.
LEMMA PlannedType ==
  ASSUME dashboard \in Dashboards,
         NEW c \in [tool : Tools, of : Luids \cup {None}, after : BOOLEAN]
  PROVE  Planned(c) \in Selection
<1>1. c.tool \in Tools /\ c.of \in Luids \cup {None} /\ c.after \in BOOLEAN
  OBVIOUS
<1>2. None \in Luids \cup {None}
  OBVIOUS
<1>3. Bound(c) \in Luids \cup {None}
  BY <1>1, <1>2, KnownIdType DEF Bound
<1>4. Skipped(c.tool) \in Selection
  BY <1>1, <1>2, ReadyType
<1>5. [Ready(c.tool, Bound(c)) EXCEPT !.after = c.after] \in Selection
  BY <1>1, <1>3 DEF Ready, Selection
<1> QED BY <1>4, <1>5 DEF Planned

\* A plan makes a queue of selections.
LEMMA PlannedQueueType ==
  ASSUME server \in Servers, dashboard \in Dashboards, NEW p \in Plans
  PROVE  PlannedQueue(p) \in Seq(Selection)
<1>1. PICK n \in Nat : p \in [1..n -> [tool : Tools, of : Luids \cup {None},
                                       after : BOOLEAN]]
  BY PlanType
<1>2. Len(p) = n
  BY <1>1
<1>3. \A i \in 1..n : Planned(p[i]) \in Selection
  BY <1>1, PlannedType
<1>4. PlannedQueue(p) \in [1..n -> Selection]
  BY <1>2, <1>3 DEF PlannedQueue
<1> QED BY <1>4

\* The first queue is one of selections.
LEMMA FirstToolsType ==
  ASSUME LookupTypeOK, NEW p \in Plans
  PROVE  FirstTools(p) \in Seq(Selection)
<1>1. <<>> \in Seq(Selection)
  BY EmptySeq
<1> QED BY <1>1, RuleBasedType, FallbackType, PlannedQueueType
     DEF FirstTools, LookupTypeOK

-----------------------------------------------------------------------------
(* Tools that follow, and tools that recover *)

\* The data source that is clearly meant, if any, is one of the site.
LEMMA BestType == \A found : Best(found) \in Luids \cup {None}
BY DEF Best

\* A follow-up is at most one selection.
LEMMA FollowUpType ==
  ASSUME NEW tool, NEW r, NEW done
  PROVE  FollowUp(tool, r, done) \in Seq(Selection)
<1>1. /\ Ready("get-datasource-metadata", Best(r.found)) \in Selection
      /\ Ready("search-content", None) \in Selection
      /\ Ready("get-workbook", None) \in Selection
  BY ReadyType, BestType, ToolNames
<1>2. /\ <<Ready("get-datasource-metadata", Best(r.found))>> \in Seq(Selection)
      /\ <<Ready("search-content", None)>> \in Seq(Selection)
      /\ \A open : When(open, Ready("get-workbook", None)) \in Seq(Selection)
  BY <1>1, WhenType
<1> QED BY <1>2 DEF FollowUp

\* A wanted query is missing from the recovery only where its fields do not
\* allow it, or cannot be asked for.
LEMMA QueryRecoveryType ==
  /\ QueryRecovery \in Seq(Selection)
  /\ QueryWanted /\ QueryRecovery = <<>>
       => \/ profile.known /\ ~Queryable(Best(listed))
          \/ /\ ~profile.known
             /\ "get-datasource-metadata" \notin Allowed(server) \ called
<1>1. /\ Ready("get-datasource-metadata", Best(listed)) \in Selection
      /\ Ready("query-datasource", Best(listed)) \in Selection
  BY ReadyType, BestType, ToolNames
<1>2. \A c : LET w == When(c, Ready("get-datasource-metadata", Best(listed)))
             IN w \in Seq(Selection) /\ (w = <<>> <=> ~c)
  BY <1>1, WhenType
<1>3. \A c : LET w == When(c, Ready("query-datasource", Best(listed)))
             IN w \in Seq(Selection) /\ (w = <<>> <=> ~c)
  BY <1>1, WhenType
<1>4. <<>> \in Seq(Selection)
  BY EmptySeq
<1> QED BY <1>2, <1>3, <1>4 DEF QueryRecovery

\* Every tool that identifies a data source by its name can be called without
\* an identifier.
LEMMA IdentifierRecoveryType ==
  ASSUME dashboard \in Dashboards
  PROVE  /\ IdentifierRecovery \in Seq(Selection)
         /\ (/\ IdentifierRecovery = <<>>
             /\ intent.intent = "metadata_lookup"
             /\ dashboard.names # "none"
             /\ Resolved(listed) = {}
             /\ "list-datasources" \in Allowed(server))
            => /\ "list-datasources" \in called
               /\ "search-content" \in Allowed(server) => "search-content" \in called
<1>1. "list-datasources" \in Tools /\ "search-content" \in Tools
  BY ToolNames
<1>2. Inferable("list-datasources") /\ Inferable("search-content")
  BY ToolNames DEF Inferable, Resolving
<1>3. /\ IfReady("list-datasources") \in Seq(Selection)
      /\ IfReady("list-datasources") = <<>> <=> "list-datasources" \notin Allowed(server)
      /\ IfReady("search-content") \in Seq(Selection)
      /\ IfReady("search-content") = <<>> <=> "search-content" \notin Allowed(server)
  BY <1>1, <1>2, IfReadyType
<1>4. <<>> \in Seq(Selection)
  BY EmptySeq
<1> QED BY <1>3, <1>4 DEF IdentifierRecovery

\* There is nothing to recover if neither recovery has anything.
LEMMA RecoveriesType ==
  ASSUME dashboard \in Dashboards
  PROVE  /\ QueryRecovery \o IdentifierRecovery \in Seq(Selection)
         /\ QueryRecovery \o IdentifierRecovery = <<>>
              <=> QueryRecovery = <<>> /\ IdentifierRecovery = <<>>
BY QueryRecoveryType, IdentifierRecoveryType, ConcatProperties, EmptySeq,
   ConcatEqualIffEmpty, ConcatEmptySeq

\* Suggestions are tools that can resolve an identifier.
LEMMA SuggestType ==
  ASSUME NEW s \in Seq(Resolving), NEW tool \in Resolving
  PROVE  Suggest(s, tool) \in Seq(Resolving)
BY AppendProperties DEF Suggest

\* Two suggestions at once.
LEMMA SuggestPairType ==
  ASSUME NEW s \in Seq(Resolving), NEW a \in Resolving, NEW b \in Resolving
  PROVE  SuggestPair(s, a, b) \in Seq(Resolving)
BY SuggestType DEF SuggestPair

\* All that may resolve an identifier.
LEMMA SuggestAllType ==
  ASSUME NEW s \in Seq(Resolving)
  PROVE  SuggestAll(s) \in Seq(Resolving)
<1>1. /\ "list-datasources" \in Resolving /\ "search-content" \in Resolving
      /\ "list-views" \in Resolving /\ "get-workbook" \in Resolving
      /\ "list-workbooks" \in Resolving
  BY ToolNames DEF Resolving
<1>2. Suggest(s, "list-datasources") \in Seq(Resolving)
  BY <1>1, SuggestType
<1>3. SuggestPair(Suggest(s, "list-datasources"), "search-content", "list-views")
        \in Seq(Resolving)
  BY <1>1, <1>2, SuggestPairType
<1> QED BY <1>1, <1>3, SuggestPairType DEF SuggestAll

\* The suggested tools make a queue of selections.
LEMMA RecoveryQueueType ==
  ASSUME dashboard \in Dashboards, suggested \in Seq(Resolving)
  PROVE  RecoveryQueue \in Seq(Selection)
<1>1. \A i \in Nat \ {0} : Recovery(i) \in Seq(Selection)
  <2> TAKE i \in Nat \ {0}
  <2>1. CASE i <= Len(suggested) /\ suggested[i] \notin called
    <3>1. suggested[i] \in Tools
      BY <2>1, LenProperties, ElementOfSeq DEF Resolving
    <3> QED BY <2>1, <3>1, IfReadyType DEF Recovery
  <2>2. CASE ~(i <= Len(suggested) /\ suggested[i] \notin called)
    BY <2>2, EmptySeq DEF Recovery
  <2> QED BY <2>1, <2>2
<1>2. /\ Recovery(1) \in Seq(Selection) /\ Recovery(2) \in Seq(Selection)
      /\ Recovery(3) \in Seq(Selection) /\ Recovery(4) \in Seq(Selection)
      /\ Recovery(5) \in Seq(Selection)
  BY <1>1
<1> QED BY <1>2, ConcatProperties DEF RecoveryQueue

-----------------------------------------------------------------------------
(* Steps that end a lookup *)

\* A context without a lookup, and one over HTTP, hold no rows.
LEMMA ContextsOfOthers ==
  /\ \A failed \in BOOLEAN : Warned(failed) \in Context /\ ContextSound(Warned(failed))
  /\ \A c \in HttpContexts : c \in Context /\ ContextSound(c)
  /\ NoContext \in Context /\ ContextSound(NoContext)
<1>1. None \in Intents \cup {None} /\ "none" \in Quality
  BY DEF Quality
<1>2. NoContext \in Context
  BY <1>1 DEF NoContext, Context
<1>3. ContextSound(NoContext)
  BY DEF NoContext, ContextSound
<1>4. ASSUME NEW failed \in BOOLEAN
      PROVE  Warned(failed) \in Context /\ ContextSound(Warned(failed))
  <2> DEFINE c == [NoContext EXCEPT !.failed = failed]
  <2>1. c \in Context /\ ContextSound(c)
    BY <1>2 DEF NoContext, Context, ContextSound
  <2>2. [c EXCEPT !.warned = TRUE] \in Context
    BY <2>1 DEF Context
  <2>3. ContextSound([c EXCEPT !.warned = TRUE])
    BY <2>1 DEF Context, ContextSound
  <2>4. Warned(failed) = [c EXCEPT !.warned = TRUE]
    BY DEF Warned
  <2> QED BY <2>2, <2>3, <2>4
<1>5. \A c \in HttpContexts : c \in Context /\ ContextSound(c)
  BY ConstantsAssumption DEF HttpContext, ContextSound
<1> QED BY <1>2, <1>3, <1>4, <1>5

\* A lookup that has no intent calls nothing and recovers nothing.
LEMMA NoLookupKeeps ==
  ASSUME LookupInv, NEW failed \in BOOLEAN, NoLookup(failed)
  PROVE  LookupInv'
<1> USE DEF NoLookup, inputs, results, evidence, recovery
<1>1. intent = NoIntent /\ underway = <<>> /\ spent = 0
  BY DEF LookupInv, IdleIsFresh, Fresh
<1>2. LookupTypeOK'
  BY ContextsOfOthers DEF LookupInv, LookupTypeOK, Stage
<1>3. IdleIsFresh' /\ NoToolAnswersTwice'
  BY DEF LookupInv, IdleIsFresh, NoToolAnswersTwice
<1>4. WithinOverrun' /\ RowsAreQueried'
  BY DEF LookupInv, WithinOverrun, Budget, RowsAreQueried, Queried
<1>5. ContextSound(context)'
  BY ContextsOfOthers DEF ContextSound
<1>6. EndedExhausted'
  BY <1>1 DEF EndedExhausted, NoIntent
<1> QED BY <1>2, <1>3, <1>4, <1>5, <1>6 DEF LookupInv

\* A context that came over HTTP leaves the provider's own lookup untouched.
LEMMA HttpLookupKeeps ==
  ASSUME LookupInv, HttpLookup
  PROVE  LookupInv'
<1> USE DEF HttpLookup, inputs, results, evidence, recovery
<1>1. intent = NoIntent /\ underway = <<>> /\ spent = 0
  BY DEF LookupInv, IdleIsFresh, Fresh
<1>2. LookupTypeOK'
  BY ContextsOfOthers DEF LookupInv, LookupTypeOK, Stage
<1>3. IdleIsFresh' /\ NoToolAnswersTwice'
  BY DEF LookupInv, IdleIsFresh, NoToolAnswersTwice
<1>4. WithinOverrun' /\ RowsAreQueried'
  BY DEF LookupInv, WithinOverrun, Budget, RowsAreQueried, Queried
<1>5. ContextSound(context)'
  BY ContextsOfOthers DEF ContextSound
<1>6. EndedExhausted'
  BY <1>1 DEF EndedExhausted, NoIntent
<1> QED BY <1>2, <1>3, <1>4, <1>5, <1>6 DEF LookupInv

\* An error leaves no context.
LEMMA CollapseKeeps ==
  ASSUME LookupInv, Collapse
  PROVE  LookupInv'
<1> USE DEF Collapse, inputs, results, evidence, recovery
<1>1. LookupTypeOK'
  BY ContextsOfOthers DEF LookupInv, LookupTypeOK, Stage
<1>2. IdleIsFresh' /\ NoToolAnswersTwice'
  BY DEF LookupInv, IdleIsFresh, NoToolAnswersTwice
<1>3. WithinOverrun' /\ RowsAreQueried'
  BY DEF LookupInv, WithinOverrun, Budget, RowsAreQueried, Queried
<1>4. ContextSound(context)'
  BY ContextsOfOthers DEF ContextSound
<1>5. context'.intent = None
  BY DEF Warned, NoContext
<1>6. EndedExhausted'
  BY <1>5 DEF EndedExhausted
<1> QED BY <1>1, <1>2, <1>3, <1>4, <1>6 DEF LookupInv

\* A lookup that ends by itself has no calls left, or nothing to recover.
LEMMA FinishKeeps ==
  ASSUME LookupInv, Finish
  PROVE  LookupInv'
<1> USE DEF Finish, inputs, results, evidence, recovery
<1>1. PICK fields \in BOOLEAN : context' = Outcome(fields)
  OBVIOUS
<1>2. Outcome(fields) \in Context
  <2>1. intent.intent \in Intents /\ rows \in Quality /\ profile.known \in BOOLEAN
    BY DEF LookupInv, LookupTypeOK, IntentRecord
  <2>2. /\ Named \in BOOLEAN /\ Profiled(fields) \in BOOLEAN
        /\ Queried \in BOOLEAN /\ Complains \in BOOLEAN
        /\ (succeeded # {}) \in BOOLEAN
    BY <2>1 DEF Named, Profiled, Queried, Complains
  <2>3. (IF Described THEN "yes" ELSE "no") \in {"unknown", "no", "yes"}
    OBVIOUS
  <2> QED BY <2>1, <2>2, <2>3 DEF Outcome, Context
<1>3. LookupTypeOK'
  BY <1>1, <1>2 DEF LookupInv, LookupTypeOK, Stage
<1>4. IdleIsFresh' /\ NoToolAnswersTwice'
  BY DEF LookupInv, IdleIsFresh, NoToolAnswersTwice
<1>5. WithinOverrun' /\ RowsAreQueried'
  BY DEF LookupInv, WithinOverrun, Budget, RowsAreQueried, Queried
<1>6. ContextSound(context)'
  BY <1>1 DEF LookupInv, ContextSound, RowsAreQueried, Outcome
<1>7. EndedExhausted'
  <2>1. context'.intent = intent.intent
    BY <1>1 DEF Outcome
  <2>2. Budget \in Nat /\ spent \in Nat
    BY BudgetType DEF LookupInv, LookupTypeOK
  <2>3. (intent.needsMcp /\ spent < Budget) => QueryRecovery \o IdentifierRecovery = <<>>
    BY <2>2 DEF Done
  <2>4. /\ Budget' = Budget
        /\ (QueryRecovery \o IdentifierRecovery)'
             = QueryRecovery \o IdentifierRecovery
    BY DEF Budget, QueryRecovery, QueryWanted, Queryable, MayQuery, Best,
           IsBest, Resolved, Confidence, IdentifierRecovery, IfReady, Inferred,
           Inferable, KnownId
  <2> QED BY <2>1, <2>3, <2>4 DEF EndedExhausted
<1> QED BY <1>3, <1>4, <1>5, <1>6, <1>7 DEF LookupInv

-----------------------------------------------------------------------------
(* Steps of a lookup that goes on *)

\* What a step that neither begins nor ends a lookup has to keep.
LEMMA GoesOn ==
  ASSUME LookupInv, stage' \notin {"idle", "over"}, UNCHANGED context,
         LookupTypeOK', NoToolAnswersTwice', WithinOverrun', RowsAreQueried'
  PROVE  LookupInv'
BY DEF LookupInv, IdleIsFresh, ContextSound, EndedExhausted

\* Whatever its intent, a lookup begins with nothing spent.
LEMMA ConnectKeeps ==
  ASSUME LookupInv, NEW hint \in IntentRecord \cup {None}, Connect(hint)
  PROVE  LookupInv'
<1> USE DEF Connect, inputs, results, evidence, recovery
<1>1. spent = 0 /\ underway = <<>>
  BY DEF LookupInv, IdleIsFresh, Fresh
<1>2. intent' \in IntentRecord
  BY ClassifyType
<1>3. LookupTypeOK'
  BY <1>2 DEF LookupInv, LookupTypeOK, Stage
<1>4. NoToolAnswersTwice' /\ RowsAreQueried'
  BY DEF LookupInv, NoToolAnswersTwice, RowsAreQueried, Queried
<1>5. WithinOverrun'
  <2>1. spent' + Len(underway') = 0
    BY <1>1
  <2>2. 0 <= Budget' + 2
    BY <1>2, ConstantsAssumption DEF Budget, Least, IntentRecord
  <2> QED BY <2>1, <2>2 DEF WithinOverrun
<1> QED BY <1>3, <1>4, <1>5, GoesOn

\* The first queue is one of selections, however it came about.
LEMMA SelectKeeps ==
  ASSUME LookupInv, Select
  PROVE  LookupInv'
<1> USE DEF Select, inputs, results, evidence, recovery
<1>1. queue' \in Seq(Selection)
  BY FirstToolsType DEF LookupInv
<1>2. LookupTypeOK'
  BY <1>1 DEF LookupInv, LookupTypeOK, Stage
<1>3. NoToolAnswersTwice' /\ WithinOverrun' /\ RowsAreQueried'
  BY DEF LookupInv, NoToolAnswersTwice, WithinOverrun, Budget, RowsAreQueried, Queried
<1> QED BY <1>2, <1>3, GoesOn

\* The calls of a batch are independent, and there are at most three.
LEMMA CallBatchKeeps ==
  ASSUME LookupInv, CallBatch
  PROVE  LookupInv'
<1> USE DEF CallBatch, MayCall, inputs, results, evidence, recovery
<1>1. PICK n \in 2..3 : /\ Independent(n)
                        /\ underway' = SubSeq(queue, 1, n)
                        /\ queue' = SubSeq(queue, n + 1, Len(queue))
  OBVIOUS
<1>2. queue \in Seq(Selection) /\ Len(queue) \in Nat /\ n <= Len(queue)
  BY <1>1, LenProperties DEF LookupInv, LookupTypeOK, Independent
<1>3. \A i \in 1..Len(queue) : queue[i] \in Selection
  BY <1>2, ElementOfSeq
<1>4. /\ underway' \in Seq(Selection) /\ Len(underway') = n
      /\ \A i \in 1..n : underway'[i] = queue[i]
  <2>1. \A i \in 1..n : queue[i] \in Selection
    BY <1>2, <1>3
  <2>2. /\ SubSeq(queue, 1, n) \in Seq(Selection)
        /\ Len(SubSeq(queue, 1, n)) = IF 1 <= n THEN n - 1 + 1 ELSE 0
        /\ \A i \in 1..(n - 1 + 1) : SubSeq(queue, 1, n)[i] = queue[1 + i - 1]
    <3> HIDE DEF CallBatch
    <3>1. 1 \in Int /\ n \in Int
      OBVIOUS
    <3> QED BY <2>1, <3>1, SubSeqProperties
  <2>3. n - 1 + 1 = n /\ 1 <= n /\ \A i \in 1..n : 1 + i - 1 = i
    OBVIOUS
  <2> QED BY <1>1, <2>2, <2>3
<1>5. queue' \in Seq(Selection)
  <2>1. \A i \in (n + 1)..Len(queue) : queue[i] \in Selection
    BY <1>3
  <2>2. n + 1 \in Int /\ Len(queue) \in Int
    BY <1>2
  <2>3. SubSeq(queue, n + 1, Len(queue)) \in Seq(Selection)
    <3> HIDE DEF CallBatch
    <3> QED BY <2>1, <2>2, SubSeqProperties
  <2> QED BY <1>1, <2>3
<1>6. LookupTypeOK'
  BY <1>4, <1>5 DEF LookupInv, LookupTypeOK
<1>7. NoToolAnswersTwice'
  <2>1. ASSUME NEW i \in 1..n
        PROVE  /\ queue[i].tool \notin called
               /\ \A j \in 1..(i - 1) : queue[j].tool # queue[i].tool
    BY <1>1 DEF Independent
  <2>2. called' = called
    OBVIOUS
  <2>3. ASSUME NEW i \in 1..n
        PROVE  /\ underway'[i].tool \notin called'
               /\ \A j \in 1..(i - 1) : underway'[j].tool # underway'[i].tool
    BY <1>4, <2>1, <2>2
  <2> QED BY <1>4, <2>3 DEF NoToolAnswersTwice
<1>8. WithinOverrun'
  <2>1. Budget \in Nat /\ spent \in Nat /\ spent < Budget
    BY BudgetType DEF LookupInv, LookupTypeOK
  <2>2. Budget' = Budget /\ spent' = spent /\ Len(underway') <= 3
    BY <1>4 DEF Budget
  <2> QED BY <1>4, <2>1, <2>2 DEF WithinOverrun
<1>9. RowsAreQueried' /\ stage' \notin {"idle", "over"} /\ UNCHANGED context
  BY DEF LookupInv, RowsAreQueried, Queried
<1> QED BY <1>6, <1>7, <1>8, <1>9, GoesOn

\* A call on its own has not answered.
LEMMA CallOneKeeps ==
  ASSUME LookupInv, CallOne
  PROVE  LookupInv'
<1> USE DEF CallOne, Alone, MayCall, inputs, results, evidence, recovery
<1>1. queue \in Seq(Selection) /\ queue # <<>>
  BY DEF LookupInv, LookupTypeOK
<1>2. Head(queue) \in Selection /\ Tail(queue) \in Seq(Selection)
  BY <1>1, HeadTailProperties
<1>3. /\ underway' \in Seq(Selection) /\ Len(underway') = 1
      /\ underway'[1] = Head(queue)
  BY <1>2
<1>4. LookupTypeOK'
  BY <1>2, <1>3 DEF LookupInv, LookupTypeOK
<1>5. NoToolAnswersTwice'
  BY <1>3 DEF NoToolAnswersTwice
<1>6. WithinOverrun'
  <2>1. Budget \in Nat /\ spent \in Nat /\ spent < Budget
    BY BudgetType DEF LookupInv, LookupTypeOK
  <2>2. Budget' = Budget /\ spent' = spent
    BY DEF Budget
  <2> QED BY <1>3, <2>1, <2>2 DEF WithinOverrun
<1>7. RowsAreQueried' /\ stage' \notin {"idle", "over"} /\ UNCHANGED context
  BY DEF LookupInv, RowsAreQueried, Queried
<1> QED BY <1>4, <1>5, <1>6, <1>7, GoesOn

\* What is not called counts for nothing.
LEMMA SkipKeeps ==
  ASSUME LookupInv, Skip
  PROVE  LookupInv'
<1> USE DEF Skip, Alone, MayCall, inputs, evidence, recovery
<1>1. queue \in Seq(Selection) /\ queue # <<>>
  BY DEF LookupInv, LookupTypeOK
<1>2. Head(queue) \in Selection /\ Tail(queue) \in Seq(Selection)
  BY <1>1, HeadTailProperties
<1>3. Head(queue).tool \in Tools
  BY <1>2 DEF Selection
<1>4. LookupTypeOK'
  BY <1>2, <1>3 DEF LookupInv, LookupTypeOK
<1>5. NoToolAnswersTwice' /\ WithinOverrun' /\ RowsAreQueried'
  BY DEF LookupInv, NoToolAnswersTwice, WithinOverrun, Budget, RowsAreQueried, Queried
<1>6. stage' \notin {"idle", "over"} /\ UNCHANGED context
  OBVIOUS
<1> QED BY <1>4, <1>5, <1>6, GoesOn

\* A blocked call leaves suggestions only.
LEMMA BlockKeeps ==
  ASSUME LookupInv, Block
  PROVE  LookupInv'
<1> USE DEF Block, Alone, MayCall, inputs, evidence
<1>1. queue \in Seq(Selection) /\ queue # <<>>
  BY DEF LookupInv, LookupTypeOK
<1>2. Head(queue) \in Selection /\ Tail(queue) \in Seq(Selection)
  BY <1>1, HeadTailProperties
<1>3. Head(queue).tool \in Tools
  BY <1>2 DEF Selection
<1>4. suggested' \in Seq(Resolving)
  <2>1. suggested \in Seq(Resolving)
    BY DEF LookupInv, LookupTypeOK
  <2>2. /\ "list-datasources" \in Resolving /\ "search-content" \in Resolving
        /\ "list-views" \in Resolving /\ "get-workbook" \in Resolving
        /\ "list-workbooks" \in Resolving
    BY ToolNames DEF Resolving
  <2>3. SuggestPair(suggested, "list-datasources", "search-content") \in Seq(Resolving)
    BY <2>1, <2>2, SuggestPairType
  <2>4. SuggestPair(SuggestPair(suggested, "list-views", "list-workbooks"),
                    "get-workbook", "search-content") \in Seq(Resolving)
    BY <2>1, <2>2, SuggestPairType
  <2> QED BY <2>1, <2>3, <2>4
<1>5. recoverable' \in BOOLEAN
  OBVIOUS
<1>6. LookupTypeOK'
  BY <1>2, <1>3, <1>4, <1>5 DEF LookupInv, LookupTypeOK
<1>7. NoToolAnswersTwice' /\ WithinOverrun' /\ RowsAreQueried'
  BY DEF LookupInv, NoToolAnswersTwice, WithinOverrun, Budget, RowsAreQueried, Queried
<1>8. stage' \notin {"idle", "over"} /\ UNCHANGED context
  OBVIOUS
<1> QED BY <1>6, <1>7, <1>8, GoesOn

\* A recovery refills the queue.
LEMMA RecoverKeeps ==
  ASSUME LookupInv, Recover
  PROVE  LookupInv'
<1> USE DEF Recover, Starved, MayCall, inputs, results, evidence, recovery
<1>1. queue' \in Seq(Selection)
  BY RecoveriesType, TakeType DEF LookupInv, LookupTypeOK
<1>2. LookupTypeOK'
  BY <1>1 DEF LookupInv, LookupTypeOK
<1>3. NoToolAnswersTwice' /\ WithinOverrun' /\ RowsAreQueried'
  BY DEF LookupInv, NoToolAnswersTwice, WithinOverrun, Budget, RowsAreQueried, Queried
<1>4. stage' \notin {"idle", "over"} /\ UNCHANGED context
  OBVIOUS
<1> QED BY <1>2, <1>3, <1>4, GoesOn

\* So does another plan.
LEMMA ReplanKeeps ==
  ASSUME LookupInv, Replan
  PROVE  LookupInv'
<1> USE DEF Replan, Starved, MayCall, inputs, results, evidence
<1>1. queue' \in Seq(Selection)
  <2>1. CASE queue' = <<>>
    BY <2>1, EmptySeq
  <2>2. ASSUME NEW p \in Plans, queue' = RecoveryQueue \o PlannedQueue(p)
        PROVE  queue' \in Seq(Selection)
    BY <2>2, RecoveryQueueType, PlannedQueueType, ConcatProperties
       DEF LookupInv, LookupTypeOK
  <2> QED BY <2>1, <2>2
<1>2. LookupTypeOK'
  BY <1>1 DEF LookupInv, LookupTypeOK
<1>3. NoToolAnswersTwice' /\ WithinOverrun' /\ RowsAreQueried'
  BY DEF LookupInv, NoToolAnswersTwice, WithinOverrun, Budget, RowsAreQueried, Queried
<1>4. stage' \notin {"idle", "over"} /\ UNCHANGED context
  OBVIOUS
<1> QED BY <1>2, <1>3, <1>4, GoesOn

-----------------------------------------------------------------------------
(* Answers of tools *)

\* What a call may come to is a reply, and only rows of a query are rows.
LEMMA ReplyType ==
  ASSUME NEW c \in Selection, NEW r \in Replies(c)
  PROVE  /\ r \in Reply
         /\ r.kind = "throws" => throws < MaxThrows
<1>1. NoReply \in Reply /\ [NoReply EXCEPT !.kind = "error"] \in Reply
  BY DEF NoReply, Reply, Quality
<1>2. ASSUME r \in ResultsOf(c)
      PROVE  r \in Reply
  <2>1. PICK f \in SourcesFound(c.tool), w \in WorkbookNamed(c.tool),
             p \in FieldsFound(c.tool), q \in RowsFound(c) :
          r = [Result EXCEPT !.found = f, !.workbook = w, !.fields = p, !.rows = q]
    <3> DEFINE R(f, w, p, q) ==
          [Result EXCEPT !.found = f, !.workbook = w, !.fields = p, !.rows = q]
    <3>1. ResultsOf(c) = {R(f, w, p, q) : f \in SourcesFound(c.tool),
                            w \in WorkbookNamed(c.tool),
                            p \in FieldsFound(c.tool), q \in RowsFound(c)}
      BY DEF ResultsOf
    <3> HIDE DEF R
    <3>2. \E f \in SourcesFound(c.tool), w \in WorkbookNamed(c.tool),
             p \in FieldsFound(c.tool), q \in RowsFound(c) : r = R(f, w, p, q)
      BY <1>2, <3>1
    <3> QED BY <3>2 DEF R
  <2>2. f \in SUBSET Luids /\ w \in BOOLEAN /\ p \in BOOLEAN /\ q \in Quality
    <3>1. f \in SUBSET Luids
      BY DEF SourcesFound
    <3>2. w \in BOOLEAN
      BY DEF WorkbookNamed
    <3>3. p \in BOOLEAN
      BY DEF FieldsFound
    <3>4. q \in Quality
      BY DEF RowsFound, Quality
    <3> QED BY <3>1, <3>2, <3>3, <3>4
  <2>3. Result \in Reply
    BY DEF Result, NoReply, Reply, Quality
  <2> DEFINE a == [Result EXCEPT !.found = f]
             b == [a EXCEPT !.workbook = w]
             d == [b EXCEPT !.fields = p]
             e == [d EXCEPT !.rows = q]
  <2>4. a \in Reply
    BY <2>2, <2>3 DEF Reply
  <2> HIDE DEF a
  <2>5. b \in Reply
    BY <2>2, <2>4 DEF Reply
  <2> HIDE DEF b
  <2>6. d \in Reply
    BY <2>2, <2>5 DEF Reply
  <2> HIDE DEF d
  <2>7. e \in Reply
    BY <2>2, <2>6 DEF Reply
  <2>8. r = e
    BY <2>1 DEF a, b, d, e
  <2> QED BY <2>7, <2>8
<1>3. r \in {NoReply, [NoReply EXCEPT !.kind = "error"]} \cup ResultsOf(c)
  BY DEF Replies
<1>4. r.kind = "throws" => throws < MaxThrows
  BY DEF Replies
<1> QED BY <1>1, <1>2, <1>3, <1>4

\* The calls still under way are others than the one that returned.
LEMMA ReturnsOnce ==
  ASSUME LookupInv, underway # <<>>, underway' = Tail(underway),
         \/ called' = called
         \/ called' = called \cup {Head(underway).tool}
  PROVE  NoToolAnswersTwice'
<1>1. underway \in Seq(Selection)
  BY DEF LookupInv, LookupTypeOK
<1>2. /\ Tail(underway) \in Seq(Selection)
      /\ Len(Tail(underway)) = Len(underway) - 1
      /\ \A i \in 1..Len(Tail(underway)) : Tail(underway)[i] = underway[i + 1]
  BY <1>1, HeadTailProperties
<1>3. Len(underway) \in Nat \ {0}
  BY <1>1, EmptySeq
<1>4. Head(underway) = underway[1]
  BY <1>1
<1>5. SUFFICES ASSUME NEW i \in 1..Len(underway')
               PROVE  /\ underway'[i].tool \notin called'
                      /\ \A j \in 1..(i - 1) : underway'[j].tool # underway'[i].tool
  BY DEF NoToolAnswersTwice
<1>6. /\ i + 1 \in 1..Len(underway)
      /\ underway'[i] = underway[i + 1]
      /\ 1 \in 1..((i + 1) - 1)
  BY <1>2, <1>3, <1>5
<1>7. /\ underway[i + 1].tool \notin called
      /\ \A j \in 1..((i + 1) - 1) : underway[j].tool # underway[i + 1].tool
  BY <1>6 DEF LookupInv, NoToolAnswersTwice
<1>8. underway'[i].tool \notin called'
  BY <1>4, <1>6, <1>7
<1>9. ASSUME NEW j \in 1..(i - 1)
      PROVE  underway'[j].tool # underway'[i].tool
  <2>1. j + 1 \in 1..((i + 1) - 1) /\ j \in 1..Len(underway')
    BY <1>2, <1>3, <1>5
  <2>2. underway'[j] = underway[j + 1]
    BY <1>2, <2>1
  <2> QED BY <1>6, <1>7, <2>1, <2>2
<1> QED BY <1>8, <1>9

\* An answer is counted once, and takes its call from those under way.
LEMMA CallReturnsKeeps ==
  ASSUME LookupInv, CallReturns
  PROVE  LookupInv'
<1> DEFINE c == Head(underway)
<1>1. PICK r \in Replies(c) : Succeeds(c, r) \/ Fails(c, r)
  BY DEF CallReturns
<1>2. /\ stage = "calling" /\ underway # <<>> /\ underway' = Tail(underway)
      /\ UNCHANGED <<question, dashboard, server, stage, intent, context>>
  BY DEF CallReturns, inputs
<1>3. /\ underway \in Seq(Selection) /\ spent \in Nat /\ throws \in 0..MaxThrows
      /\ queue \in Seq(Selection) /\ succeeded \subseteq Tools
      /\ called \subseteq Tools /\ refused \subseteq Tools /\ listed \subseteq Luids
      /\ profile \in [known : BOOLEAN, of : Luids \cup {None}] /\ rows \in Quality
      /\ suggested \in Seq(Resolving) /\ recoverable \in BOOLEAN
      /\ replanned \in BOOLEAN /\ MaxThrows \in Nat
  BY ConstantsAssumption DEF LookupInv, LookupTypeOK
<1>4. /\ c \in Selection /\ Tail(underway) \in Seq(Selection)
      /\ Len(Tail(underway)) = Len(underway) - 1 /\ Len(underway) \in Nat \ {0}
  BY <1>2, <1>3, HeadTailProperties, EmptySeq
<1>5. c.tool \in Tools /\ c.of \in Luids \cup {None}
  BY <1>4 DEF Selection
<1>6. /\ r \in Reply
      /\ r.kind = "throws" => throws < MaxThrows
  BY <1>4, ReplyType
<1>7. r.found \in SUBSET Luids /\ r.rows \in Quality
  BY <1>6 DEF Reply
<1> HIDE DEF c
<1>8. ASSUME Answered(c, r) \/ (Threw(r) /\ r.kind = "throws")
      PROVE  /\ called' \subseteq Tools /\ spent' \in Nat /\ throws' \in 0..MaxThrows
             /\ called' = called \/ called' = called \cup {c.tool}
             /\ spent' <= spent + 1
  BY <1>3, <1>5, <1>6, <1>8 DEF Answered, Threw
<1>9. Answered(c, r) \/ (Threw(r) /\ r.kind = "throws")
  BY <1>1 DEF Succeeds, Fails, Threw
<1>10. NoToolAnswersTwice'
  BY <1>2, <1>8, <1>9, ReturnsOnce DEF c
<1>11. WithinOverrun'
  <2>1. spent + Len(underway) <= Budget + 2 /\ Budget \in Nat
    BY BudgetType DEF LookupInv, LookupTypeOK, WithinOverrun
  <2>2. Budget' = Budget /\ Len(underway') = Len(underway) - 1
    BY <1>2, <1>4 DEF Budget
  <2> QED BY <1>3, <1>4, <1>8, <1>9, <2>1, <2>2 DEF WithinOverrun
<1>12. CASE Succeeds(c, r)
  <2>1. queue' \in Seq(Selection)
    BY <1>3, <1>12, FollowUpType, ConcatProperties DEF Succeeds
  <2>2. /\ succeeded' \subseteq Tools /\ listed' \subseteq Luids /\ rows' \in Quality
        /\ UNCHANGED <<refused, suggested, recoverable, replanned>>
    BY <1>3, <1>5, <1>7, <1>12 DEF Succeeds, recovery
  <2>3. profile' \in [known : BOOLEAN, of : Luids \cup {None}]
    BY <1>3, <1>5, <1>12 DEF Succeeds
  <2>4. LookupTypeOK'
    BY <1>2, <1>3, <1>4, <1>8, <1>9, <2>1, <2>2, <2>3 DEF LookupInv, LookupTypeOK
  <2>5. RowsAreQueried'
    BY <1>12 DEF Succeeds, LookupInv, RowsAreQueried, Queried
  <2> QED BY <1>2, <1>10, <1>11, <2>4, <2>5, GoesOn
<1>13. CASE Fails(c, r)
  <2>1. /\ UNCHANGED <<succeeded, listed, profile, rows, queue, replanned>>
        /\ refused' \subseteq Tools
    BY <1>3, <1>5, <1>13 DEF Fails, evidence
  <2>2. suggested' \in Seq(Resolving)
    BY <1>3, <1>13, SuggestAllType DEF Fails
  <2>3. recoverable' \in BOOLEAN
    BY <1>13 DEF Fails
  <2>4. LookupTypeOK'
    BY <1>2, <1>3, <1>4, <1>8, <1>9, <2>1, <2>2, <2>3 DEF LookupInv, LookupTypeOK
  <2>5. RowsAreQueried'
    BY <2>1 DEF LookupInv, RowsAreQueried, Queried
  <2> QED BY <1>2, <1>10, <1>11, <2>4, <2>5, GoesOn
<1> QED BY <1>1, <1>12, <1>13

-----------------------------------------------------------------------------
(* A lookup from its beginning to its end *)

\* Every step of the provider keeps the invariant.
LEMMA LookupStepKeeps ==
  ASSUME LookupInv, LookupStep
  PROVE  LookupInv'
BY SelectKeeps, CallBatchKeeps, CallOneKeeps, SkipKeeps, BlockKeeps,
   CallReturnsKeeps, RecoverKeeps, ReplanKeeps, FinishKeeps DEF LookupStep

\* What a lookup that has not begun looks like.
LEMMA FreshInv ==
  ASSUME Fresh, stage = "idle", throws \in 0..MaxThrows, context = NoContext,
         question \in Questions, dashboard \in Dashboards, server \in Servers
  PROVE  LookupInv
<1> USE DEF Fresh
<1>1. /\ NoIntent \in IntentRecord
      /\ [known |-> FALSE, of |-> None] \in [known : BOOLEAN, of : Luids \cup {None}]
      /\ "none" \in Quality /\ "idle" \in Stage
  BY DEF NoIntent, IntentRecord, Intents, Quality, Stage
<1>2. <<>> \in Seq(Selection) /\ <<>> \in Seq(Resolving) /\ Len(underway) = 0
  BY EmptySeq
<1>3. NoContext \in Context /\ ContextSound(NoContext)
  BY ContextsOfOthers
<1>4. LookupTypeOK
  BY <1>1, <1>2, <1>3 DEF LookupTypeOK
<1>5. IdleIsFresh /\ NoToolAnswersTwice /\ RowsAreQueried /\ EndedExhausted
  BY <1>2 DEF IdleIsFresh, NoToolAnswersTwice, RowsAreQueried, EndedExhausted
<1>6. WithinOverrun
  BY <1>1, <1>2, BudgetType DEF WithinOverrun
<1> QED BY <1>3, <1>4, <1>5, <1>6 DEF LookupInv

\* The next lookup begins with nothing.
LEMMA ForgetKeeps ==
  ASSUME LookupInv, Forget, UNCHANGED <<question, dashboard, server, throws>>
  PROVE  LookupInv'
<1> USE DEF Forget
<1>1. /\ NoIntent \in IntentRecord
      /\ [known |-> FALSE, of |-> None] \in [known : BOOLEAN, of : Luids \cup {None}]
      /\ "none" \in Quality /\ "idle" \in Stage
  BY DEF NoIntent, IntentRecord, Intents, Quality, Stage
<1>2. <<>> \in Seq(Selection) /\ <<>> \in Seq(Resolving) /\ Len(underway') = 0
  BY EmptySeq
<1>3. NoContext \in Context /\ ContextSound(NoContext)
  BY ContextsOfOthers
<1>4. LookupTypeOK'
  BY <1>1, <1>2, <1>3 DEF LookupInv, LookupTypeOK
<1>5. IdleIsFresh' /\ NoToolAnswersTwice' /\ RowsAreQueried' /\ EndedExhausted'
  BY <1>2 DEF IdleIsFresh, Fresh, NoToolAnswersTwice, RowsAreQueried, EndedExhausted
<1>6. WithinOverrun'
  <2>1. 0 <= Budget' + 2
    BY <1>1, ConstantsAssumption DEF Budget, Least, IntentRecord
  <2>2. spent' + Len(underway') = 0
    BY <1>2
  <2> QED BY <2>1, <2>2 DEF WithinOverrun
<1>7. ContextSound(context)'
  BY <1>3 DEF ContextSound
<1> QED BY <1>4, <1>5, <1>6, <1>7 DEF LookupInv

\* A lookup that has not begun may be given another question.
LEMMA RenewKeeps ==
  ASSUME LookupInv, stage = "idle", question' \in Questions,
         dashboard' \in Dashboards,
         UNCHANGED <<server, stage, intent, queue, underway, results, evidence,
                     recovery, spent, throws, context>>
  PROVE  LookupInv'
<1> USE DEF results, evidence, recovery
<1>1. intent = NoIntent
  BY DEF LookupInv, IdleIsFresh, Fresh
<1>2. LookupTypeOK'
  BY DEF LookupInv, LookupTypeOK
<1>3. IdleIsFresh'
  BY DEF LookupInv, IdleIsFresh, Fresh
<1>4. NoToolAnswersTwice' /\ WithinOverrun' /\ RowsAreQueried'
  BY DEF LookupInv, NoToolAnswersTwice, WithinOverrun, Budget, RowsAreQueried, Queried
<1>5. ContextSound(context)' /\ EndedExhausted'
  BY DEF LookupInv, ContextSound, EndedExhausted
<1> QED BY <1>2, <1>3, <1>4, <1>5 DEF LookupInv

\* Nor does a step that concerns nothing of a lookup.
LEMMA StutterKeeps ==
  ASSUME LookupInv, UNCHANGED lookupVars
  PROVE  LookupInv'
<1> USE DEF lookupVars, inputs, results, evidence, recovery
<1>1. LookupTypeOK' /\ IdleIsFresh' /\ NoToolAnswersTwice'
  BY DEF LookupInv, LookupTypeOK, IdleIsFresh, Fresh, NoToolAnswersTwice
<1>2. WithinOverrun' /\ RowsAreQueried' /\ ContextSound(context)'
  BY DEF LookupInv, WithinOverrun, Budget, RowsAreQueried, Queried, ContextSound
<1>3. EndedExhausted'
  <2>1. /\ Budget' = Budget
        /\ (QueryRecovery \o IdentifierRecovery)'
             = QueryRecovery \o IdentifierRecovery
    BY DEF Budget, QueryRecovery, QueryWanted, Queryable, MayQuery, Best,
           IsBest, Resolved, Confidence, IdentifierRecovery, IfReady, Inferred,
           Inferable, KnownId
  <2> QED BY <2>1 DEF LookupInv, EndedExhausted
<1> QED BY <1>1, <1>2, <1>3 DEF LookupInv

\* The invariant of a lookup by itself.
LEMMA LookupInvariant == LookupSpec => []LookupInv
<1>1. LookupInit => LookupInv
  <2> SUFFICES ASSUME LookupInit PROVE LookupInv
    OBVIOUS
  <2>1. 0 \in 0..MaxThrows
    BY ConstantsAssumption
  <2> QED BY <2>1, FreshInv DEF LookupInit
<1>2. LookupInv /\ [LookupNext]_lookupVars => LookupInv'
  <2> SUFFICES ASSUME LookupInv, [LookupNext]_lookupVars PROVE LookupInv'
    OBVIOUS
  <2>1. CASE \E failed \in BOOLEAN : NoLookup(failed)
    BY <2>1, NoLookupKeeps
  <2>2. CASE HttpLookup
    BY <2>2, HttpLookupKeeps
  <2>3. CASE Connect(None)
    BY <2>3, ConnectKeeps
  <2>4. CASE LookupStep
    BY <2>4, LookupStepKeeps
  <2>5. CASE Collapse
    BY <2>5, CollapseKeeps
  <2>6. CASE UNCHANGED lookupVars
    BY <2>6, StutterKeeps
  <2> QED BY <2>1, <2>2, <2>3, <2>4, <2>5, <2>6 DEF LookupNext
<1> QED BY <1>1, <1>2, PTL DEF LookupSpec

-----------------------------------------------------------------------------
(* What follows from the invariant *)

\* The calls under way are part of what may be counted.
LEMMA OverrunFollows == LookupInv => BudgetOverrun
<1> SUFFICES ASSUME LookupInv PROVE BudgetOverrun
  OBVIOUS
<1>1. Len(underway) \in Nat /\ spent \in Nat /\ Budget \in Nat
  BY BudgetType, LenProperties DEF LookupInv, LookupTypeOK
<1> QED BY <1>1 DEF LookupInv, WithinOverrun, BudgetOverrun

\* Nothing to recover means that everything was tried.
LEMMA ResolutionFollows == LookupInv => ResolutionTried
<1> SUFFICES ASSUME LookupInv PROVE ResolutionTried
  OBVIOUS
<1>1. SUFFICES ASSUME stage = "over", context.intent = "metadata_lookup",
                      intent.needsMcp, spent < Budget,
                      dashboard.names # "none", Resolved(listed) = {},
                      "list-datasources" \in Allowed(server)
               PROVE  /\ "list-datasources" \in called
                      /\ "search-content" \in Allowed(server)
                           => "search-content" \in called
  BY DEF ResolutionTried
<1>2. dashboard \in Dashboards
  BY DEF LookupInv, LookupTypeOK
<1>3. context.intent # None
  BY <1>1, ConstantsAssumption DEF Intents
<1>4. /\ intent.intent = "metadata_lookup"
      /\ QueryRecovery \o IdentifierRecovery = <<>>
  BY <1>1, <1>3 DEF LookupInv, EndedExhausted
<1>5. IdentifierRecovery = <<>>
  BY <1>2, <1>4, RecoveriesType
<1> QED BY <1>1, <1>2, <1>4, <1>5, IdentifierRecoveryType

\* Nothing to recover means that no query was left out.
LEMMA QueryFollows == LookupInv => QueryTried
<1> SUFFICES ASSUME LookupInv PROVE QueryTried
  OBVIOUS
<1>1. SUFFICES ASSUME stage = "over", context.intent = "data_analysis",
                      question.request = "other", Is(question, "aggregate"),
                      intent.needsMcp, spent < Budget,
                      dashboard.names # "none",
                      "query-datasource" \in Allowed(server) \ called,
                      Best(listed) # None
               PROVE  \/ profile.known /\ ~Queryable(Best(listed))
                      \/ /\ ~profile.known
                         /\ "get-datasource-metadata" \notin Allowed(server) \ called
  BY DEF QueryTried
<1>2. dashboard \in Dashboards
  BY DEF LookupInv, LookupTypeOK
<1>3. context.intent # None
  BY <1>1, ConstantsAssumption DEF Intents
<1>4. /\ intent.intent = "data_analysis"
      /\ QueryRecovery \o IdentifierRecovery = <<>>
  BY <1>1, <1>3 DEF LookupInv, EndedExhausted
<1>5. QueryRecovery = <<>>
  BY <1>2, <1>4, RecoveriesType
<1>6. QueryWanted
  BY <1>1, <1>4 DEF QueryWanted
<1> QED BY <1>5, <1>6, QueryRecoveryType


\* In a lookup of the provider by itself no tool answers twice, and at most
\* two calls are counted too many, whatever its server, its question and its
\* budget (the loop of fetchTableauMcpContext).
THEOREM LookupBounded == LookupSpec => [](NoToolAnswersTwice /\ BudgetOverrun)
<1>1. LookupInv => NoToolAnswersTwice /\ BudgetOverrun
  BY OverrunFollows DEF LookupInv
<1> QED BY <1>1, LookupInvariant, PTL

-----------------------------------------------------------------------------
(* The answer *)

\* A lookup has begun only where one is waited for.
OutsideIsIdle == at # "looking" => stage = "idle"

\* A pass that may still be made leaves room to be counted.
PassesLeft == at \in {"asked", "deciding", "looking"} => passes < MaxPasses

\* Without an agent there is one lookup, and nothing is gathered before it.
AloneIsFirst ==
  ~guided => /\ at \notin {"deciding", "evaluating"}
             /\ at \in {"asked", "looking"} => gathered = NoContext

AnswerInv ==
  /\ TypeOK
  /\ LookupInv
  /\ OutsideIsIdle
  /\ PassesLeft
  /\ AloneIsFirst
  /\ ContextSound(gathered)
  /\ RankingBacked
  /\ EstablishedIsTold

-----------------------------------------------------------------------------
(* Values *)

\* The hints the agent may give are intents with the calls the policy allows.
LEMMA AgentPlansType == AgentPlans \subseteq IntentRecord
<1>1. \A kind \in Intents, b \in BOOLEAN : Hint(kind, b) \in IntentRecord
  BY PolicyMaxBounded DEF Hint, IntentRecord
<1>2. Classify(question, dashboard, {}) \in IntentRecord
  BY ClassifyType
<1>3. HeuristicPlan \in IntentRecord
  BY <1>1, <1>2 DEF HeuristicPlan, IntentRecord
<1>4. \A i \in PlannedIntents, n \in BOOLEAN : Hint(i, n) \in IntentRecord
  BY <1>1, AnswerConstantsAssumption
<1>5. \A h \in IntentRecord : Override(h) \in IntentRecord
  <2>1. "dashboard_explanation" \in Intents /\ "metadata_lookup" \in Intents
    BY DEF Intents
  <2> QED BY <1>1, <2>1 DEF Override
<1> QED BY <1>3, <1>4, <1>5 DEF AgentPlans

\* A merged context is one; it is sound if both its parts are, and it keeps
\* what the older one had established.
LEMMA MergeKeeps ==
  ASSUME NEW old \in Context, NEW new \in Context,
         ContextSound(old), ContextSound(new), NEW c \in Merge(old, new)
  PROVE  /\ c \in Context
         /\ ContextSound(c)
         /\ old.queried => c.queried
         /\ old.fields => c.fields
         /\ old.insight # "none" => c.insight # "none"
         /\ old.intent # None => c.intent # None
<1> DEFINE M(rs) ==
      [failed |-> FALSE, read |-> old.read \/ new.read,
       intent |-> IF new.intent = None THEN old.intent ELSE new.intent,
       metadata |-> IF new.metadata = "unknown" THEN old.metadata ELSE new.metadata,
       named |-> old.named \/ new.named, fields |-> old.fields \/ new.fields,
       queried |-> old.queried \/ new.queried, insight |-> rs,
       used |-> old.used \/ new.used, warned |-> old.warned \/ new.warned]
<1>1. PICK rs \in MergedRows(old.insight, new.insight) : c = M(rs)
  BY DEF Merge
<1>2. /\ rs \in {old.insight, new.insight}
      /\ old.insight # "none" => rs # "none"
  BY <1>1 DEF MergedRows
<1>3. /\ c.failed = FALSE /\ c.insight = rs
      /\ c.intent = IF new.intent = None THEN old.intent ELSE new.intent
      /\ c.queried = (old.queried \/ new.queried)
      /\ c.fields = (old.fields \/ new.fields)
  BY <1>1
<1>4. c \in Context
  <2>1. /\ (old.read \/ new.read) \in BOOLEAN
        /\ (old.named \/ new.named) \in BOOLEAN
        /\ (old.fields \/ new.fields) \in BOOLEAN
        /\ (old.queried \/ new.queried) \in BOOLEAN
        /\ (old.used \/ new.used) \in BOOLEAN
        /\ (old.warned \/ new.warned) \in BOOLEAN
    OBVIOUS
  <2>2. (IF new.intent = None THEN old.intent ELSE new.intent) \in Intents \cup {None}
    BY DEF Context
  <2>3. (IF new.metadata = "unknown" THEN old.metadata ELSE new.metadata)
          \in {"unknown", "no", "yes"}
    BY DEF Context
  <2>4. rs \in Quality
    BY <1>2 DEF Context
  <2>5. M(rs) \in Context
    BY <2>1, <2>2, <2>3, <2>4 DEF Context
  <2> QED BY <1>1, <2>5
<1> HIDE DEF M
<1>5. ContextSound(c)
  BY <1>2, <1>3 DEF ContextSound
<1> QED BY <1>2, <1>3, <1>4, <1>5

-----------------------------------------------------------------------------
(* Steps *)

\* While no answer is written, nothing is said about one.
LEMMA Unwritten ==
  ASSUME at' \notin {"saving", "answered"}
  PROVE  RankingBacked' /\ EstablishedIsTold'
BY DEF RankingBacked, EstablishedIsTold, Written

\* What a step between lookups has to keep.
LEMMA Between ==
  ASSUME AnswerInv, UNCHANGED <<lookupVars, guided, plan, passes, gathered>>,
         repeated' \in BOOLEAN, at' \in Places, remaining' \in Remaining,
         source' \in Sources \cup {None},
         OutsideIsIdle', PassesLeft', AloneIsFirst',
         RankingBacked', EstablishedIsTold'
  PROVE  AnswerInv'
<1>1. LookupInv'
  BY StutterKeeps DEF AnswerInv
<1>2. TypeOK'
  BY <1>1 DEF AnswerInv, LookupInv, TypeOK
<1>3. ContextSound(gathered)'
  BY DEF AnswerInv, ContextSound
<1> QED BY <1>1, <1>2, <1>3 DEF AnswerInv


\* An answer from the dashboard is one to a question for the data sources.
LEMMA FastKeeps ==
  ASSUME AnswerInv, AnswerStructured \/ AnswerFast
  PROVE  AnswerInv'
<1> USE DEF AnswerStructured, AnswerFast
<1>1. /\ at = "asked" /\ at' = "saving"
      /\ question.request = "datasource_inventory"
      /\ source' \in {"structured", "inventory"}
      /\ UNCHANGED <<lookupVars, guided, plan, passes, gathered, repeated, remaining>>
  BY DEF FastPath, Strong
<1>2. RankingBacked' /\ EstablishedIsTold'
  BY <1>1 DEF RankingBacked, EstablishedIsTold, Written, Validated, ListsFields,
              Strong, lookupVars, inputs
<1>3. OutsideIsIdle' /\ PassesLeft' /\ AloneIsFirst'
  BY <1>1 DEF AnswerInv, OutsideIsIdle, PassesLeft, AloneIsFirst, lookupVars
<1>4. /\ repeated' \in BOOLEAN /\ remaining' \in Remaining /\ at' \in Places
      /\ source' \in Sources \cup {None}
  BY <1>1 DEF AnswerInv, TypeOK, Places, Sources
<1> QED BY <1>1, <1>2, <1>3, <1>4, Between

\* A request that fails has no answer.
LEMMA FailKeeps ==
  ASSUME AnswerInv, Fail
  PROVE  AnswerInv'
<1> USE DEF Fail
<1>1. RankingBacked' /\ EstablishedIsTold'
  BY Unwritten
<1>2. OutsideIsIdle' /\ PassesLeft' /\ AloneIsFirst'
  BY DEF AnswerInv, OutsideIsIdle, PassesLeft, AloneIsFirst, lookupVars
<1>3. /\ repeated' \in BOOLEAN /\ remaining' \in Remaining /\ at' \in Places
      /\ source' \in Sources \cup {None}
  BY DEF AnswerInv, TypeOK, Places
<1> QED BY <1>1, <1>2, <1>3, Between

\* A new question for the next lookup, between lookups.
LEMMA MakePlanKeeps ==
  ASSUME AnswerInv, MakePlan \/ AskMore
  PROVE  AnswerInv'
<1> USE DEF MakePlan, AskMore
<1>1. stage = "idle"
  BY DEF AnswerInv, OutsideIsIdle
<1>2. /\ question' \in Questions /\ dashboard' \in Dashboards
      /\ UNCHANGED <<server, stage, intent, queue, underway, results, evidence,
                     recovery, spent, throws, context>>
  BY DEF Rephrased, Renamed
<1>3. LookupInv'
  BY <1>1, <1>2, RenewKeeps DEF AnswerInv
<1>4. plan' \in IntentRecord
  BY AgentPlansType DEF AnswerInv, TypeOK
<1>5. /\ at' = "deciding" /\ guided' = guided /\ passes' = passes
      /\ gathered' = gathered /\ source' = source /\ remaining' = remaining
      /\ repeated' \in BOOLEAN
  BY DEF AnswerInv, TypeOK
<1>6. guided
  BY DEF AnswerInv, AloneIsFirst
<1>7. TypeOK'
  BY <1>3, <1>4, <1>5 DEF AnswerInv, LookupInv, TypeOK, Places
<1>8. OutsideIsIdle' /\ AloneIsFirst' /\ ContextSound(gathered)'
  BY <1>1, <1>2, <1>5, <1>6 DEF AnswerInv, OutsideIsIdle, AloneIsFirst, ContextSound
<1>9. PassesLeft'
  BY <1>5 DEF AnswerInv, PassesLeft, WorthEvaluating
<1>10. RankingBacked' /\ EstablishedIsTold'
  BY <1>5, Unwritten
<1> QED BY <1>3, <1>7, <1>8, <1>9, <1>10 DEF AnswerInv

\* Decisions before, between and after the passes.
LEMMA DecisionsKeep ==
  ASSUME AnswerInv,
         LookOnce \/ StartPass \/ StopPasses \/ Suffices \/ AskModel
  PROVE  AnswerInv'
<1> USE DEF LookOnce, StartPass, StopPasses, Suffices, AskModel
<1>1. Later \subseteq Remaining
  BY DEF AnswerInv, TypeOK, Later, Remaining
<1>2. /\ at' \in {"looking", "looked", "generating"}
      /\ UNCHANGED <<lookupVars, guided, plan, repeated, passes, gathered, source>>
  OBVIOUS
<1>3. RankingBacked' /\ EstablishedIsTold'
  BY <1>2, Unwritten
<1>4. OutsideIsIdle'
  BY DEF AnswerInv, OutsideIsIdle, lookupVars
<1>5. PassesLeft'
  BY DEF AnswerInv, PassesLeft
<1>6. AloneIsFirst'
  BY DEF AnswerInv, AloneIsFirst
<1>7. /\ repeated' \in BOOLEAN /\ at' \in Places
      /\ source' \in Sources \cup {None}
  BY <1>2 DEF AnswerInv, TypeOK, Places
<1>8. remaining' \in Remaining
  BY <1>1 DEF AnswerInv, TypeOK, Remaining
<1> QED BY <1>2, <1>3, <1>4, <1>5, <1>6, <1>7, <1>8, Between

\* The steps of a lookup are those of McpLookup.
LEMMA LookKeeps ==
  ASSUME AnswerInv, Look \/ LookupCollapses
  PROVE  AnswerInv'
<1> USE DEF Look, LookupCollapses
<1>1. at = "looking" /\ UNCHANGED answerVars
  OBVIOUS
<1>2. LookupInv
  BY DEF AnswerInv
<1>3. LookupInv'
  <2>1. (IF guided THEN plan ELSE None) \in IntentRecord \cup {None}
    BY DEF AnswerInv, TypeOK
  <2>2. \/ \E failed \in BOOLEAN : NoLookup(failed)
        \/ HttpLookup
        \/ Connect(IF guided THEN plan ELSE None)
        \/ LookupStep
        \/ Collapse
    OBVIOUS
  <2>3. CASE \E failed \in BOOLEAN : NoLookup(failed)
    BY <1>2, <2>3, NoLookupKeeps
  <2>4. CASE HttpLookup
    BY <1>2, <2>4, HttpLookupKeeps
  <2>5. CASE Connect(IF guided THEN plan ELSE None)
    BY <1>2, <2>1, <2>5, ConnectKeeps
  <2>6. CASE LookupStep
    BY <1>2, <2>6, LookupStepKeeps
  <2>7. CASE Collapse
    BY <1>2, <2>7, CollapseKeeps
  <2> QED BY <2>2, <2>3, <2>4, <2>5, <2>6, <2>7
<1> HIDE DEF Look, LookupCollapses
<1>4. TypeOK'
  BY <1>1, <1>3 DEF AnswerInv, LookupInv, TypeOK, answerVars
<1>5. OutsideIsIdle' /\ PassesLeft' /\ AloneIsFirst'
  BY <1>1 DEF AnswerInv, OutsideIsIdle, PassesLeft, AloneIsFirst, answerVars
<1>6. ContextSound(gathered)'
  BY <1>1 DEF AnswerInv, ContextSound, answerVars
<1>7. RankingBacked' /\ EstablishedIsTold'
  BY <1>1, Unwritten DEF answerVars
<1> QED BY <1>3, <1>4, <1>5, <1>6, <1>7 DEF AnswerInv

\* What is collected is sound, and takes nothing back of what was.
LEMMA CollectKeeps ==
  ASSUME AnswerInv, Collect
  PROVE  /\ AnswerInv'
         /\ gathered.queried => gathered'.queried
         /\ gathered.fields => gathered'.fields
         /\ gathered.insight # "none" => gathered'.insight # "none"
         /\ gathered.intent # None => gathered'.intent # None
<1>1. /\ at = "looking" /\ at' \in {"evaluating", "looked"}
      /\ at' = "evaluating" => guided
      /\ gathered' \in (IF guided THEN Merge(gathered, context) ELSE {context})
      /\ passes' = passes + 1
      /\ UNCHANGED <<question, dashboard, server, throws, guided, plan,
                     repeated, remaining, source>>
      /\ Forget
  BY DEF Collect, inputs
<1>2. /\ gathered \in Context /\ ContextSound(gathered)
      /\ context \in Context /\ ContextSound(context)
  BY DEF AnswerInv, TypeOK, LookupInv, LookupTypeOK
<1>3. /\ gathered' \in Context /\ ContextSound(gathered')
      /\ gathered.queried => gathered'.queried
      /\ gathered.fields => gathered'.fields
      /\ gathered.insight # "none" => gathered'.insight # "none"
      /\ gathered.intent # None => gathered'.intent # None
  <2>1. CASE guided
    BY <1>1, <1>2, <2>1, MergeKeeps
  <2>2. CASE ~guided
    <3>1. gathered = NoContext
      BY <1>1, <2>2 DEF AnswerInv, AloneIsFirst
    <3>2. gathered' = context
      BY <1>1, <2>2
    <3> QED BY <1>2, <3>1, <3>2 DEF NoContext
  <2> QED BY <2>1, <2>2
<1>4. LookupInv'
  BY <1>1, ForgetKeeps DEF AnswerInv
<1>5. passes' \in 0..MaxPasses
  BY <1>1, AnswerConstantsAssumption DEF AnswerInv, TypeOK, PassesLeft
<1>6. TypeOK'
  <2>1. LookupTypeOK'
    BY <1>4 DEF LookupInv
  <2>2. at' \in Places
    BY <1>1 DEF Places
  <2> QED BY <1>1, <1>3, <1>5, <2>1, <2>2 DEF AnswerInv, TypeOK
<1>7. OutsideIsIdle' /\ PassesLeft' /\ AloneIsFirst'
  BY <1>1 DEF AnswerInv, Forget, OutsideIsIdle, PassesLeft, AloneIsFirst
<1>8. ContextSound(gathered)'
  BY <1>3 DEF ContextSound
<1>9. RankingBacked' /\ EstablishedIsTold'
  BY <1>1, Unwritten
<1> QED BY <1>3, <1>4, <1>6, <1>7, <1>8, <1>9 DEF AnswerInv


\* What may have failed to connect says nothing of data analysis.
LEMMA NeverDisconnected ==
  ASSUME AnswerInv
  PROVE  /\ ~Disconnected(gathered)
         /\ gathered.insight = "good" => gathered.queried
<1>1. "data_analysis" # None
  BY ConstantsAssumption DEF Intents
<1> QED BY <1>1 DEF AnswerInv, ContextSound, Disconnected

\* The rules of an answer, in the order in which they are tried.
LEMMA AnswersKeep ==
  ASSUME AnswerInv, AnswerFields \/ AnswerLate \/ Resolve
  PROVE  AnswerInv'
<1> USE DEF AnswerFields, AnswerLate, Resolve
<1>1. /\ at' = "saving" /\ at # "looking"
      /\ UNCHANGED <<lookupVars, guided, plan, repeated, passes, gathered>>
      /\ question' = question
  BY DEF lookupVars, inputs
<1>2. /\ ~Disconnected(gathered)
      /\ gathered.insight = "good" => gathered.queried
  BY NeverDisconnected
<1>3. CASE AnswerFields
  <2>1. source' = "fields" /\ question.request = "field_inventory"
    BY <1>3 DEF ListsFields, Strong
  <2>2. RankingBacked' /\ EstablishedIsTold'
    BY <1>1, <2>1 DEF RankingBacked, EstablishedIsTold, Written, Validated
  <2> QED BY <1>1, <1>3, <2>1, <2>2, Between
       DEF AnswerInv, TypeOK, OutsideIsIdle, PassesLeft, AloneIsFirst, Places,
           Sources, lookupVars
<1>4. CASE AnswerLate
  <2>1. /\ source' = LateSource(gathered) /\ remaining' = "under8"
        /\ ~ListsFields(gathered)
    BY <1>4
  <2>2. source' \in {"inventory", "insight", "generic"}
    BY <2>1 DEF LateSource
  <2>3. ListsSources(gathered) => question.request = "datasource_inventory"
    BY DEF ListsSources, Strong
  <2>4. RankingBacked'
    BY <1>1, <1>2, <2>1, <2>3 DEF RankingBacked, LateSource, Reports, Validated, Fits
  <2>5. EstablishedIsTold'
    BY <1>1, <2>1, <2>3 DEF EstablishedIsTold, Written, LateSource, Reports,
                            Validated, Fits, ListsFields, Strong
  <2> QED BY <1>1, <1>4, <2>1, <2>2, <2>4, <2>5, Between
       DEF AnswerInv, TypeOK, OutsideIsIdle, PassesLeft, AloneIsFirst, Places,
           Sources, Remaining, lookupVars
<1>5. CASE Resolve
  <2>1. source' = FinalSource(gathered) /\ remaining' = remaining
    BY <1>5
  <2>2. source' \in {"inventory", "fields", "insight", "withheld", "model"}
    BY <1>2, <2>1 DEF FinalSource
  <2>3. /\ ListsSources(gathered) => question.request = "datasource_inventory"
        /\ ListsFields(gathered) => question.request = "field_inventory"
    BY DEF ListsSources, ListsFields, Strong
  <2>4. RankingBacked'
    BY <1>1, <1>2, <2>1, <2>3 DEF RankingBacked, FinalSource, Reports, Validated,
                                  Fits, Withholds, WithholdsRanking
  <2>5. EstablishedIsTold'
    BY <1>1, <1>2, <2>1, <2>3 DEF EstablishedIsTold, Written, FinalSource,
                                  Reports, Validated, Fits, ListsFields, Strong
  <2> QED BY <1>1, <1>5, <2>1, <2>2, <2>4, <2>5, Between
       DEF AnswerInv, TypeOK, OutsideIsIdle, PassesLeft, AloneIsFirst, Places,
           Sources, lookupVars
<1> QED BY <1>3, <1>4, <1>5

\* Saving an answer does not change it.
LEMMA SaveKeeps ==
  ASSUME AnswerInv, Save
  PROVE  AnswerInv'
<1> USE DEF Save
<1>1. RankingBacked' /\ EstablishedIsTold'
  BY DEF AnswerInv, RankingBacked, EstablishedIsTold, Written, Validated, Fits,
         ListsFields, Strong, lookupVars, inputs
<1>2. OutsideIsIdle' /\ PassesLeft' /\ AloneIsFirst'
  BY DEF AnswerInv, OutsideIsIdle, PassesLeft, AloneIsFirst, lookupVars
<1>3. /\ repeated' \in BOOLEAN /\ remaining' \in Remaining /\ at' \in Places
      /\ source' \in Sources \cup {None}
  BY DEF AnswerInv, TypeOK, Places
<1> QED BY <1>1, <1>2, <1>3, Between

-----------------------------------------------------------------------------
(* The invariant of the whole *)

\* Every step of the whole keeps the invariant.
LEMMA NextKeeps ==
  ASSUME AnswerInv, [Next]_vars
  PROVE  AnswerInv'
<1>1. CASE AnswerStructured \/ AnswerFast
  BY <1>1, FastKeeps
<1>2. CASE Fail
  BY <1>2, FailKeeps
<1>3. CASE MakePlan \/ AskMore
  BY <1>3, MakePlanKeeps
<1>4. CASE LookOnce \/ StartPass \/ StopPasses \/ Suffices \/ AskModel
  BY <1>4, DecisionsKeep
<1>5. CASE Look \/ LookupCollapses
  BY <1>5, LookKeeps
<1>6. CASE Collect
  BY <1>6, CollectKeeps
<1>7. CASE AnswerFields \/ AnswerLate \/ Resolve
  BY <1>7, AnswersKeep
<1>8. CASE Save
  BY <1>8, SaveKeeps
<1>9. CASE UNCHANGED vars
  <2>1. UNCHANGED <<lookupVars, guided, plan, passes, gathered, at, repeated,
                    remaining, source, stage, question>>
    BY <1>9 DEF vars, answerVars, lookupVars, inputs
  <2>2. RankingBacked' /\ EstablishedIsTold'
    BY <2>1 DEF AnswerInv, RankingBacked, EstablishedIsTold, Written, Validated,
                Fits, ListsFields, Strong
  <2> QED BY <2>1, <2>2, Between
       DEF AnswerInv, TypeOK, OutsideIsIdle, PassesLeft, AloneIsFirst
<1> QED BY <1>1, <1>2, <1>3, <1>4, <1>5, <1>6, <1>7, <1>8, <1>9 DEF Next, Proceed

\* A request that was just asked has nothing gathered.
LEMMA InitIsSound == Init => AnswerInv
<1> SUFFICES ASSUME Init PROVE AnswerInv
  OBVIOUS
<1>1. 0 \in 0..MaxThrows /\ 0 \in 0..MaxPasses /\ 0 < MaxPasses
  BY ConstantsAssumption, AnswerConstantsAssumption
<1>2. LookupInv
  BY <1>1, FreshInv DEF Init, LookupInit
<1>3. NoIntent \in IntentRecord
  BY DEF NoIntent, IntentRecord, Intents
<1>4. TypeOK
  BY <1>1, <1>2, <1>3, ContextsOfOthers
     DEF Init, TypeOK, LookupInv, Places, Remaining
<1>5. OutsideIsIdle /\ PassesLeft /\ AloneIsFirst
  BY <1>1 DEF Init, LookupInit, OutsideIsIdle, PassesLeft, AloneIsFirst
<1>6. ContextSound(gathered)
  BY ContextsOfOthers DEF Init
<1>7. RankingBacked /\ EstablishedIsTold
  BY DEF Init, RankingBacked, EstablishedIsTold, Written
<1> QED BY <1>2, <1>4, <1>5, <1>6, <1>7 DEF AnswerInv

\* The invariant of answer generation.
LEMMA Invariant == Spec => []AnswerInv
<1>1. AnswerInv /\ [Next]_vars => AnswerInv'
  BY NextKeeps
<1> QED BY <1>1, InitIsSound, PTL DEF Spec

-----------------------------------------------------------------------------
(* Theorems *)

\* Every variable keeps its type: contexts stay contexts, queues stay queues
\* of selections, and no more passes are counted than are allowed.
THEOREM TypeCorrect == Spec => []TypeOK
<1>1. AnswerInv => TypeOK
  BY DEF AnswerInv
<1> QED BY <1>1, Invariant, PTL

\* No tool answers twice in one lookup, although three may be under way at
\* once and the queue grows from results, recoveries and plans.
THEOREM EachToolOnce == Spec => []NoToolAnswersTwice
<1>1. AnswerInv => NoToolAnswersTwice
  BY DEF AnswerInv, LookupInv
<1> QED BY <1>1, Invariant, PTL

\* However the queue grew, a lookup counts at most two calls too many.
THEOREM OverrunBounded == Spec => []BudgetOverrun
<1>1. AnswerInv => BudgetOverrun
  BY OverrunFollows DEF AnswerInv
<1> QED BY <1>1, Invariant, PTL

\* A lookup for metadata that ends by itself has tried every tool that could
\* identify the data source by its name.
THEOREM ResolutionComplete == Spec => []ResolutionTried
<1>1. AnswerInv => ResolutionTried
  BY ResolutionFollows DEF AnswerInv
<1> QED BY <1>1, Invariant, PTL

\* An aggregate that was to be queried is queried, unless no data source is
\* clearly meant or no fields can be had.
THEOREM QueryComplete == Spec => []QueryTried
<1>1. AnswerInv => QueryTried
  BY QueryFollows DEF AnswerInv
<1> QED BY <1>1, Invariant, PTL

\* A ranking is told from a query that succeeded, withheld, or cut off by the
\* deadline; the model never makes one up (resolveFinalUserFacingAnswer).
THEOREM RankingsAreBacked == Spec => []RankingBacked
<1>1. AnswerInv => RankingBacked
  BY DEF AnswerInv
<1> QED BY <1>1, Invariant, PTL

\* Rows and fields the lookups established are what the answer says, on every
\* way to an answer.
THEOREM EstablishedFactsAreTold == Spec => []EstablishedIsTold
<1>1. AnswerInv => EstablishedIsTold
  BY DEF AnswerInv
<1> QED BY <1>1, Invariant, PTL

\* Only Collect changes what was gathered, and it takes nothing back.
THEOREM EvidenceIsKept == Spec => EvidenceKept
<1> DEFINE Kept ==
      /\ gathered.queried => gathered'.queried
      /\ gathered.fields => gathered'.fields
      /\ gathered.insight # "none" => gathered'.insight # "none"
      /\ gathered.intent # None => gathered'.intent # None
<1>1. AnswerInv /\ [Next]_vars => [Kept]_gathered
  <2> SUFFICES ASSUME AnswerInv, [Next]_vars, gathered' # gathered
               PROVE  Kept
    OBVIOUS
  <2>1. Collect
    BY DEF Next, Proceed, AnswerStructured, AnswerFast, MakePlan, LookOnce,
           StartPass, StopPasses, Look, Suffices, AskMore, AnswerFields,
           AnswerLate, AskModel, Resolve, Save, LookupCollapses, Fail, vars,
           answerVars
  <2> QED BY <2>1, CollectKeeps
<1>2. Spec => [][Kept]_gathered
  BY <1>1, Invariant, PTL DEF Spec
<1> QED BY <1>2 DEF EvidenceKept

=============================================================================
