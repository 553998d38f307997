------------------------ MODULE ExecutionEngineProofs ------------------------
(***************************************************************************)
(* Proofs about ExecutionEngine, for plans of any length and any budget.   *)
(***************************************************************************)
EXTENDS ExecutionEngine, FiniteSetTheorems, TLAPS

\* The part of a step that all steps with a result have in common.
Records(i, status) ==
  Reached(i) /\ Recorded(status) /\ UNCHANGED <<plan, setup, outcome>>

\* What the engine does to one step: it refuses or skips it, counts it, calls
\* its handler, or stops waiting for its handler.
Refuses(i) ==
  /\ handler[i] = "idle"
  /\ \E status \in {"not_executed", "skipped", "blocked"} :
       /\ Records(i, status)
       /\ status = "skipped" => Skipped(plan[i])
  /\ UNCHANGED <<used, handler>>
Counts(i) ==
  /\ Records(i, "routed")
  /\ ~Exhausted \/ handler[i] = "running"
  /\ used' = used + 1
  /\ \/ handler[i] = "idle" /\ UNCHANGED handler
     \/ handler[i] = "running" /\ handler' = [handler EXCEPT ![i] = "over"]
GivesUpOn(i) ==
  /\ Records(i, "failed")
  /\ handler[i] = "running"
  /\ \E state \in {"over", "abandoned"} :
       handler' = [handler EXCEPT ![i] = state]
  /\ UNCHANGED used

\* Every step of the engine has one of these forms.
LEMMA StepForms ==
  ASSUME NEW i \in Index, EngineStep(i) \/ HandlerEnds(i) \/ LateEnd(i)
  PROVE  Refuses(i) \/ Counts(i) \/ GivesUpOn(i) \/ CallHandler(i) \/ LateEnd(i)
<1>1. CASE TakeNonTool(i)
  BY <1>1 DEF TakeNonTool, Taking, Refuses, Records, inputs
<1>2. CASE RouteAway(i)
  BY <1>2 DEF RouteAway, Taking, Refuses, Records, inputs
<1>3. CASE RouteOnly(i)
  BY <1>3 DEF RouteOnly, Routed, Allowed, Skipped, Refused, Taking, Counts,
              Records, inputs
<1>4. CASE WrapperRefuses(i)
  BY <1>4 DEF WrapperRefuses, Routed, Taking, Refuses, Records, inputs
<1>5. CASE HandlerEnds(i)
  BY <1>5 DEF HandlerEnds, Awaiting, Counts, GivesUpOn, Records, inputs
<1>6. CASE TimeOut(i)
  BY <1>6 DEF TimeOut, Awaiting, GivesUpOn, Records, inputs
<1> QED BY <1>1, <1>2, <1>3, <1>4, <1>5, <1>6 DEF EngineStep

-----------------------------------------------------------------------------
(* Types *)

\* A plan has a length, and its steps are steps.
LEMMA PlanLength ==
  ASSUME TypeOK
  PROVE  /\ Len(plan) \in Nat /\ Len(plan) <= MaxSteps
         /\ DOMAIN plan = 1..Len(plan)
         /\ plan \in [1..Len(plan) -> Step]
<1>1. PICK n \in 0..MaxSteps : plan \in [1..n -> Step]
  BY DEF TypeOK, Plans
<1>2. n \in Nat /\ n <= MaxSteps
  BY <1>1, ConstantsAssumption
<1>3. Len(plan) = n
  BY <1>1, <1>2
<1> QED BY <1>1, <1>2, <1>3

\* A step that has a result extends the results by one, within the plan.
LEMMA RecordsType ==
  ASSUME TypeOK, NEW i \in Index, NEW status \in StepStatus,
         Records(i, status)
  PROVE  /\ results' \in Seq(StepStatus)
         /\ Len(results') = Len(results) + 1
         /\ i = Len(results')
         /\ Len(results') <= Len(plan')
         /\ \A j \in DOMAIN results : results'[j] = results[j]
         /\ results'[i] = status
         /\ DOMAIN results = 1..Len(results)
         /\ DOMAIN results' = 1..i
         /\ plan' = plan /\ setup' = setup
         /\ outcome = None /\ outcome' = None
<1>1. results \in Seq(StepStatus) /\ Len(results) \in Nat
  BY DEF TypeOK
<1>2. /\ results' = Append(results, status) /\ i = Len(results) + 1
      /\ i <= Len(plan) /\ plan' = plan /\ setup' = setup
      /\ outcome = None /\ outcome' = outcome
  BY DEF Records, Recorded, Reached, Current
<1> QED BY <1>1, <1>2

\* Every step keeps results, usage and handlers well formed.
LEMMA TypeStep ==
  ASSUME TypeOK, [Next]_vars
  PROVE  TypeOK'
<1>1. CASE UNCHANGED vars
  BY <1>1 DEF TypeOK, vars
<1>2. CASE Finish
  <2>1. Derived \in Outcome
    BY DEF Derived, Outcome
  <2> QED BY <1>2, <2>1 DEF Finish, TypeOK, inputs
<1>3. ASSUME NEW i \in Index, EngineStep(i) \/ HandlerEnds(i) \/ LateEnd(i)
      PROVE  TypeOK'
  <2>1. used \in Nat /\ handler \in [Index -> HandlerState]
    BY DEF TypeOK
  <2>2. ASSUME NEW status \in StepStatus, Records(i, status), used' \in Nat,
               handler' \in [Index -> HandlerState]
        PROVE  TypeOK'
    BY <2>2, RecordsType DEF TypeOK
  <2>3. CASE Refuses(i)
    BY <2>1, <2>2, <2>3 DEF Refuses, StepStatus
  <2>4. CASE Counts(i)
    <3>1. used' \in Nat /\ handler' \in [Index -> HandlerState]
      BY <2>1, <2>4 DEF Counts, HandlerState
    <3> QED BY <2>2, <2>4, <3>1 DEF Counts, StepStatus
  <2>5. CASE GivesUpOn(i)
    <3>1. used' \in Nat /\ handler' \in [Index -> HandlerState]
      BY <2>1, <2>5 DEF GivesUpOn, HandlerState
    <3> QED BY <2>2, <2>5, <3>1 DEF GivesUpOn, StepStatus
  <2>6. CASE CallHandler(i)
    BY <2>1, <2>6 DEF CallHandler, TypeOK, HandlerState, inputs
  <2>7. CASE LateEnd(i)
    BY <2>1, <2>7 DEF LateEnd, TypeOK, HandlerState, inputs
  <2> QED BY <1>3, <2>3, <2>4, <2>5, <2>6, <2>7, StepForms
<1> QED BY <1>1, <1>2, <1>3 DEF Next

\* So they are at the start.
LEMMA TypeInit ==
  ASSUME Init
  PROVE  TypeOK
<1>1. setup.used \in Nat
  BY ConstantsAssumption DEF Init, Setup
<1>2. Len(plan) \in Nat
  BY ConstantsAssumption DEF Init, Plans
<1> QED BY <1>1, <1>2 DEF Init, TypeOK, HandlerState

\* Plan, setup, results and handlers stay well formed for plans of any length
\* (MinimalExecutionEngine.execute).
THEOREM TypeCorrect == Spec => []TypeOK
BY TypeInit, TypeStep, PTL DEF Spec

-----------------------------------------------------------------------------
(* The budget *)

\* There are finitely many answers, and each belongs to a result.
LEMMA AnsweredIsFinite ==
  ASSUME TypeOK
  PROVE  /\ IsFiniteSet(Answered)
         /\ Cardinality(Answered) \in Nat
         /\ Answered \subseteq 1..Len(results)
<1>1. Answered \subseteq 1..Len(results) /\ Len(results) \in Nat
  BY DEF TypeOK, Answered
<1>2. IsFiniteSet(1..Len(results))
  BY <1>1, FS_Interval
<1> QED BY <1>1, <1>2, FS_Subset, FS_CardinalityType

\* Every step keeps the count of the answers right and within the budget.
LEMMA CountedStep ==
  ASSUME TypeOK, Attended, Counted, [Next]_vars
  PROVE  Counted'
<1>1. CASE UNCHANGED vars
  BY <1>1 DEF Counted, Answered, vars
<1>2. CASE Finish
  BY <1>2 DEF Finish, Counted, Answered, inputs
<1>3. ASSUME NEW i \in Index, EngineStep(i) \/ HandlerEnds(i) \/ LateEnd(i)
      PROVE  Counted'
  <2>1. ASSUME NEW status \in StepStatus, Records(i, status), status # "routed"
        PROVE  Answered' = Answered
    BY <2>1, RecordsType DEF Answered
  <2>2. CASE Refuses(i)
    <3>1. Answered' = Answered /\ setup' = setup /\ used' = used
      BY <2>1, <2>2 DEF Refuses, Records, StepStatus
    <3> QED BY <3>1 DEF Counted
  <2>3. CASE Counts(i)
    <3>1. Records(i, "routed") /\ used' = used + 1 /\ setup' = setup
      BY <2>3 DEF Counts, Records
    <3>2. Answered' = Answered \cup {i} /\ i \notin Answered
      BY <3>1, RecordsType DEF Answered, StepStatus
    <3>3. Cardinality(Answered') = Cardinality(Answered) + 1
      BY <3>2, AnsweredIsFinite, FS_AddElement
    <3>4. used < setup.max
      <4>1. CASE ~Exhausted
        <5>1. setup.max \in Nat /\ used \in Nat
          BY ConstantsAssumption DEF TypeOK, Setup
        <5> QED BY <4>1, <5>1 DEF Exhausted
      <4>2. CASE handler[i] = "running"
        BY <2>3, <4>2, <3>1 DEF Attended, Records, Reached, Current
      <4> QED BY <4>1, <4>2, <2>3 DEF Counts
    <3>5. setup.used \in Nat /\ setup.max \in Nat /\ used \in Nat
      BY ConstantsAssumption DEF TypeOK, Setup
    <3> QED BY <3>1, <3>3, <3>4, <3>5, AnsweredIsFinite DEF Counted
  <2>4. CASE GivesUpOn(i)
    <3>1. Answered' = Answered /\ setup' = setup /\ used' = used
      BY <2>1, <2>4 DEF GivesUpOn, Records, StepStatus
    <3> QED BY <3>1 DEF Counted
  <2>5. CASE CallHandler(i) \/ LateEnd(i)
    BY <2>5 DEF CallHandler, LateEnd, Counted, Answered, inputs
  <2> QED BY <1>3, <2>2, <2>3, <2>4, <2>5, StepForms
<1> QED BY <1>1, <1>2, <1>3 DEF Next

\* Every step calls only the handler of the step being taken.
LEMMA AttendedStep ==
  ASSUME TypeOK, Attended, [Next]_vars
  PROVE  Attended'
<1>1. CASE UNCHANGED vars
  BY <1>1 DEF Attended, Current, vars
<1>2. CASE Finish
  BY <1>2 DEF Finish, Attended, Current, inputs
<1>3. ASSUME NEW i \in Index, EngineStep(i) \/ HandlerEnds(i) \/ LateEnd(i)
      PROVE  Attended'
  <2>0. setup.max \in Nat
    BY ConstantsAssumption DEF TypeOK, Setup
  <2>1. Len(results) \in Nat /\ handler \in [Index -> HandlerState]
        /\ setup.max \in Nat /\ used \in Nat /\ Index \subseteq Nat
    BY <2>0, ConstantsAssumption DEF TypeOK, Index
  <2>2. ASSUME NEW status \in StepStatus, Records(i, status),
               \A j \in Index \ {i} : handler'[j] = handler[j],
               handler'[i] # "idle" => status \in {"routed", "failed"}
        PROVE  Attended'
    <3> SUFFICES ASSUME NEW j \in Index, handler'[j] # "idle"
                 PROVE  /\ j <= Len(plan') /\ j <= Current' /\ j # Current'
                        /\ j < Current' => results'[j] \in {"routed", "failed"}
      BY DEF Attended
    <3>1. /\ Current = i /\ Current' = i + 1 /\ plan' = plan
          /\ i <= Len(plan) /\ DOMAIN results = 1..Len(results)
      BY <2>1, <2>2, RecordsType DEF Current, Records, Reached
    <3>2. CASE j = i
      BY <2>1, <2>2, <3>1, <3>2, RecordsType
    <3>3. CASE j # i
      <4>1. handler[j] # "idle"
        BY <2>2, <3>3
      <4>2. j <= Len(plan) /\ j < i /\ results[j] \in {"routed", "failed"}
        BY <2>1, <3>1, <3>3, <4>1 DEF Attended
      <4>3. results'[j] = results[j]
        BY <2>1, <2>2, <3>1, <4>2, RecordsType DEF Current, Index
      <4> QED BY <2>1, <3>1, <4>2, <4>3
    <3> QED BY <3>2, <3>3
  <2>3. CASE Refuses(i)
    BY <2>2, <2>3 DEF Refuses, StepStatus
  <2>4. CASE Counts(i)
    <3>1. \A j \in Index \ {i} : handler'[j] = handler[j]
      BY <2>1, <2>4 DEF Counts
    <3> QED BY <2>2, <2>4, <3>1 DEF Counts, StepStatus
  <2>5. CASE GivesUpOn(i)
    <3>1. \A j \in Index \ {i} : handler'[j] = handler[j]
      BY <2>1, <2>5 DEF GivesUpOn
    <3> QED BY <2>2, <2>5, <3>1 DEF GivesUpOn, StepStatus
  <2>6. CASE CallHandler(i)
    <3>1. /\ i = Current /\ i <= Len(plan) /\ used < setup.max
          /\ handler' = [handler EXCEPT ![i] = "running"]
          /\ UNCHANGED <<plan, setup, used, results>>
      BY <2>1, <2>6 DEF CallHandler, Routed, Allowed, Refused, Exhausted,
                        Taking, Reached, inputs
    <3> QED BY <2>1, <3>1 DEF Attended, Current
  <2>7. CASE LateEnd(i)
    BY <2>1, <2>7 DEF LateEnd, Attended, Current, inputs
  <2> QED BY <1>3, <2>3, <2>4, <2>5, <2>6, <2>7, StepForms
<1> QED BY <1>1, <1>2, <1>3 DEF Next

\* Nothing is called and nothing counted at the start.
LEMMA UseInit ==
  ASSUME Init
  PROVE  Attended /\ Counted
<1>1. Attended
  BY DEF Init, Attended
<1>2. Answered = {} /\ setup.used \in Nat
  BY ConstantsAssumption DEF Init, Answered, Setup
<1>3. Counted
  BY <1>2, FS_EmptySet DEF Init, Counted
<1> QED BY <1>1, <1>3

\* However many steps fail or time out, the answers of a run stay within the
\* budget its plan had left (MinimalToolRouter, MinimalToolExecutionWrapper).
THEOREM BudgetIsHeld == Spec => []BudgetHeld
<1> DEFINE Inv == TypeOK /\ Attended /\ Counted
<1>1. Init => Inv
  BY TypeInit, UseInit
<1>2. Inv /\ [Next]_vars => Inv'
  BY TypeStep, AttendedStep, CountedStep
<1>3. Inv => BudgetHeld
  <2> SUFFICES ASSUME Inv PROVE BudgetHeld
    OBVIOUS
  <2>1. setup.used \in Nat /\ setup.max \in Nat
    BY ConstantsAssumption DEF TypeOK, Setup
  <2> QED BY <2>1, AnsweredIsFinite DEF Counted, BudgetHeld
<1> QED BY <1>1, <1>2, <1>3, PTL DEF Spec

-----------------------------------------------------------------------------
(* The end of the run *)

\* Nothing is recorded or called after a result that ends the run.
LEMMA StopStep ==
  ASSUME TypeOK, Attended, NothingAfterStop, [Next]_vars
  PROVE  NothingAfterStop'
<1>1. CASE UNCHANGED vars
  BY <1>1 DEF NothingAfterStop, vars
<1>2. CASE Finish
  BY <1>2 DEF Finish, NothingAfterStop, inputs
<1>3. ASSUME NEW i \in Index, EngineStep(i) \/ HandlerEnds(i) \/ LateEnd(i)
      PROVE  NothingAfterStop'
  <2>1. Len(results) \in Nat /\ handler \in [Index -> HandlerState]
        /\ Index \subseteq Nat /\ DOMAIN results = 1..Len(results)
    BY ConstantsAssumption DEF TypeOK, Index
  <2>2. ASSUME NEW status \in StepStatus, Records(i, status),
               \A j \in Index \ {i} : handler'[j] = handler[j]
        PROVE  NothingAfterStop'
    <3> SUFFICES ASSUME NEW k \in DOMAIN results',
                        results'[k] \in {"blocked", "failed"},
                        plan'[k].required \/ plan'[k].onFailure = "fail"
                 PROVE  /\ k = Len(results')
                        /\ \A j \in Index : j > k => handler'[j] = "idle"
      BY DEF NothingAfterStop
    <3>1. k = i
      BY <2>1, <2>2, RecordsType DEF Records, Reached, Stopped, EndsRun, Erred
    <3>2. ASSUME NEW j \in Index, j > i
          PROVE  handler'[j] = "idle"
      BY <2>1, <2>2, <3>2 DEF Attended, Current, Records, Reached
    <3> QED BY <2>2, <3>1, <3>2, RecordsType
  <2>3. CASE Refuses(i)
    BY <2>2, <2>3 DEF Refuses, StepStatus
  <2>4. CASE Counts(i)
    BY <2>1, <2>2, <2>4 DEF Counts, StepStatus
  <2>5. CASE GivesUpOn(i)
    BY <2>1, <2>2, <2>5 DEF GivesUpOn, StepStatus
  <2>6. CASE CallHandler(i)
    <3>1. /\ UNCHANGED <<plan, results>>
          /\ \A k \in DOMAIN results :
               ~(results[k] \in {"blocked", "failed"}
                 /\ (plan[k].required \/ plan[k].onFailure = "fail"))
      BY <2>6 DEF CallHandler, Routed, Taking, Reached, Stopped, EndsRun,
                  Erred, inputs
    <3> QED BY <3>1 DEF NothingAfterStop
  <2>7. CASE LateEnd(i)
    BY <2>1, <2>7 DEF LateEnd, NothingAfterStop, inputs
  <2> QED BY <1>3, <2>3, <2>4, <2>5, <2>6, <2>7, StepForms
<1> QED BY <1>1, <1>2, <1>3 DEF Next

\* A required step, or one that says so, that is blocked, fails or times out is
\* the last the run takes (the breaks in MinimalExecutionEngine.execute).
THEOREM StopIsFinal == Spec => []NothingAfterStop
<1> DEFINE Inv == TypeOK /\ Attended /\ NothingAfterStop
<1>1. Init => Inv
  <2>1. Init => NothingAfterStop
    BY DEF Init, NothingAfterStop
  <2> QED BY <2>1, TypeInit, UseInit
<1>2. Inv /\ [Next]_vars => Inv'
  BY TypeStep, AttendedStep, StopStep
<1> QED BY <1>1, <1>2, PTL DEF Spec

\* Only optional steps are skipped.
LEMMA SkippedStep ==
  ASSUME TypeOK, SkippedIsOptional, [Next]_vars
  PROVE  SkippedIsOptional'
<1>1. CASE UNCHANGED vars
  BY <1>1 DEF SkippedIsOptional, vars
<1>2. CASE Finish
  BY <1>2 DEF Finish, SkippedIsOptional, inputs
<1>3. ASSUME NEW i \in Index, EngineStep(i) \/ HandlerEnds(i) \/ LateEnd(i)
      PROVE  SkippedIsOptional'
  <2>1. Len(results) \in Nat
    BY DEF TypeOK
  <2>2. ASSUME NEW status \in StepStatus, Records(i, status),
               status = "skipped" => Skipped(plan[i])
        PROVE  SkippedIsOptional'
    <3> SUFFICES ASSUME NEW k \in DOMAIN results', results'[k] = "skipped"
                 PROVE  ~plan'[k].required
      BY DEF SkippedIsOptional
    <3>1. CASE k = i
      BY <2>2, <3>1, RecordsType DEF Skipped
    <3>2. CASE k # i
      BY <2>1, <2>2, <3>2, RecordsType DEF SkippedIsOptional
    <3> QED BY <3>1, <3>2
  <2>3. CASE Refuses(i)
    BY <2>2, <2>3 DEF Refuses, StepStatus
  <2>4. CASE Counts(i) \/ GivesUpOn(i)
    BY <2>2, <2>4 DEF Counts, GivesUpOn, StepStatus
  <2>5. CASE CallHandler(i) \/ LateEnd(i)
    BY <2>5 DEF CallHandler, LateEnd, SkippedIsOptional, inputs
  <2> QED BY <1>3, <2>3, <2>4, <2>5, StepForms
<1> QED BY <1>1, <1>2, <1>3 DEF Next

\* The status is derived once, from results that do not change after it.
LEMMA HonestStep ==
  ASSUME TypeOK, Attended, SkippedIsOptional, OutcomeIsHonest, [Next]_vars
  PROVE  OutcomeIsHonest'
<1>1. CASE UNCHANGED vars
  BY <1>1 DEF OutcomeIsHonest, Has, vars
<1>2. CASE Finish
  <2>1. outcome' = Derived /\ UNCHANGED <<plan, results, handler>>
        /\ (Stopped \/ Current > Len(plan))
    BY <1>2 DEF Finish, inputs
  <2>2. ASSUME Derived = "failed"
        PROVE  ~Has({"routed"})
    BY <2>2 DEF Derived
  <2>3. ASSUME Derived \in {"skipped", "completed"}
        PROVE  /\ \A i \in DOMAIN plan : ~plan[i].required
               /\ \A i \in Index : handler[i] = "idle"
    <3>1. ~Has({"blocked", "failed", "not_executed", "routed"})
      BY <2>3 DEF Derived
    <3>2. /\ Len(results) \in Nat /\ DOMAIN results = 1..Len(results)
          /\ \A i \in DOMAIN results : results[i] \in StepStatus
          /\ Len(results) <= Len(plan) /\ Index \subseteq Nat
      BY ConstantsAssumption DEF TypeOK, Index
    <3>3. \A i \in DOMAIN results : results[i] = "skipped"
      BY <3>1, <3>2 DEF Has, StepStatus
    <3>4. Len(results) = Len(plan)
      <4>1. ~Stopped
        BY <3>3 DEF Stopped, EndsRun, Erred
      <4>2. Len(results) + 1 > Len(plan) /\ Len(plan) \in Nat
        BY <2>1, <4>1, PlanLength DEF Current
      <4> QED BY <3>2, <4>2
    <3>5. \A i \in DOMAIN plan : ~plan[i].required
      BY <3>2, <3>3, <3>4, PlanLength DEF SkippedIsOptional
    <3>6. ASSUME NEW i \in Index, handler[i] # "idle"
          PROVE  FALSE
      <4>1. i \in DOMAIN results
        BY <3>2, <3>4, <3>6 DEF Attended, Index
      <4>2. results[i] \in {"routed", "failed"}
        BY <3>2, <3>6, <4>1 DEF Attended, Current
      <4> QED BY <3>3, <4>1, <4>2
    <3> QED BY <3>5, <3>6
  <2> QED BY <2>1, <2>2, <2>3 DEF OutcomeIsHonest, Has
<1>3. ASSUME NEW i \in Index, EngineStep(i) \/ HandlerEnds(i) \/ LateEnd(i)
      PROVE  OutcomeIsHonest'
  <2>1. ASSUME outcome' = None
        PROVE  OutcomeIsHonest'
    BY <2>1, ConstantsAssumption DEF OutcomeIsHonest
  <2>2. CASE Refuses(i) \/ Counts(i) \/ GivesUpOn(i) \/ CallHandler(i)
    BY <2>1, <2>2 DEF Refuses, Counts, GivesUpOn, CallHandler, Records, Routed,
                      Taking, Reached
  <2>3. CASE LateEnd(i)
    BY <2>3 DEF LateEnd, OutcomeIsHonest, Has, TypeOK, inputs
  <2> QED BY <1>3, <2>2, <2>3, StepForms
<1> QED BY <1>1, <1>2, <1>3 DEF Next

\* The status of a run is no better and no worse than what its steps came to
\* (deriveExecutionStatus, and the router's treatment of required steps).
THEOREM OutcomeIsTrue == Spec => []OutcomeIsHonest
<1> DEFINE Inv == TypeOK /\ Attended /\ SkippedIsOptional /\ OutcomeIsHonest
<1>1. Init => Inv
  <2>1. Init => SkippedIsOptional /\ OutcomeIsHonest
    BY ConstantsAssumption DEF Init, SkippedIsOptional, OutcomeIsHonest
  <2> QED BY <2>1, TypeInit, UseInit
<1>2. Inv /\ [Next]_vars => Inv'
  BY TypeStep, AttendedStep, SkippedStep, HonestStep
<1> QED BY <1>1, <1>2, PTL DEF Spec
=============================================================================
