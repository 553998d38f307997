--------------------------- MODULE ExecutionEngine ---------------------------
(***************************************************************************)
(* The engine that executes the fixed plan of one agent run: it takes the  *)
(* steps of the plan in order, asks the router whether the step's tool may *)
(* be called, has the execution wrapper call the tool's handler under a    *)
(* timeout, decides whether a failing step ends the run, and derives the   *)
(* status of the run from what the steps came to.                          *)
(*                                                                         *)
(* A handler is an asynchronous function that nobody can cancel: one that  *)
(* has timed out goes on next to the steps that follow.                    *)
(***************************************************************************)
EXTENDS Naturals, Sequences, FiniteSets

CONSTANTS
  MaxSteps,  \* bound on the length of a plan
  Offers,    \* what its steps ask for: see OfferKinds
  Budgets,   \* values of maxToolCalls
  Usages,    \* values of toolCallsUsed at the start
  None       \* no outcome yet

\* No tool; no tool name; a tool the registry does not know, that is not
\* available, that the policy disallows; a tool with a precondition of its own
\* that fails; one without a handler; one that can be called.
OfferKinds == {"no_tool", "unnamed", "missing", "unavailable", "disallowed",
               "unready", "unbound", "ready"}

ASSUME ConstantsAssumption ==
  /\ MaxSteps \in Nat
  /\ Offers \subseteq OfferKinds
  /\ Budgets \subseteq Nat
  /\ Usages \subseteq Nat
  /\ None \notin {"failed", "partial", "skipped", "completed"}

VARIABLES
  plan,     \* the steps of the selected plan
  setup,    \* the budget, the plan's preconditions, the engine's options
  used,     \* toolCallsUsed
  results,  \* the statuses of the steps taken so far
  handler,  \* per step: its handler
  outcome   \* the status of the run

vars == <<plan, setup, used, results, handler, outcome>>
inputs == <<plan, setup>>

-----------------------------------------------------------------------------
(* Values *)

StepStatus == {"not_executed", "skipped", "blocked", "routed", "failed"}
Outcome == {"failed", "partial", "skipped", "completed"}
HandlerState == {"idle", "running", "abandoned", "over"}

\* onFailure: "skip" stands for "fallback" and for none as well, which the
\* engine treats alike.
Step == [offer : Offers, required : BOOLEAN, onFailure : {"fail", "skip"}]
Index == 1..MaxSteps
Plans == UNION {[1..n -> Step] : n \in 0..MaxSteps}
\* wrapped: does the engine have an execution wrapper?
\* timeout: is timeoutMs positive?  preconditions: do all those of the plan hold?
Setup == [max : Budgets, used : Usages, preconditions : BOOLEAN,
          wrapped : BOOLEAN, timeout : BOOLEAN]

TypeOK ==
  /\ plan \in Plans
  /\ setup \in Setup
  /\ used \in Nat
  /\ results \in Seq(StepStatus)
  /\ Len(results) <= Len(plan)
  /\ handler \in [Index -> HandlerState]
  /\ outcome \in Outcome \cup {None}

Init ==
  /\ plan \in Plans
  /\ setup \in Setup
  /\ used = setup.used
  /\ results = <<>>
  /\ handler = [i \in Index |-> "idle"]
  /\ outcome = None

-----------------------------------------------------------------------------
(* The router *)

Current == Len(results) + 1

\* Mutant: the budget is one call too generous.
ExhaustedLate == used > setup.max

\* buildBudgetStatus
Exhausted == used >= setup.max

\* An optional step is skipped when a precondition of the plan fails, whether
\* or not that precondition is required, or when it names no tool.
Skipped(step) ==
  /\ ~Exhausted
  /\ ~step.required
  /\ ~setup.preconditions \/ step.offer = "unnamed"

\* Blocked, or unavailable, which the engine records as blocked.
Refused(step) ==
  /\ ~Skipped(step)
  /\ \/ Exhausted
     \/ ~setup.preconditions
     \/ step.offer \in {"unnamed", "missing", "unavailable", "disallowed"}

Allowed(step) == ~Skipped(step) /\ ~Refused(step)

-----------------------------------------------------------------------------
(* The loop over the steps *)

\* Mutant: only a required step ends the run.
EndsRunIfRequired(i) ==
  results[i] \in {"blocked", "failed"} /\ plan[i].required

\* Errors are pushed for these; the run ends at the first whose step is
\* required or says so.
Erred(i) == results[i] \in {"blocked", "failed"}
EndsRun(i) == Erred(i) /\ (plan[i].required \/ plan[i].onFailure = "fail")
Stopped == \E i \in DOMAIN results : EndsRun(i)

Reached(i) ==
  /\ outcome = None
  /\ i = Current
  /\ i <= Len(plan)
  /\ ~Stopped

\* Before and while executeStep waits for the handler.
Taking(i) == Reached(i) /\ handler[i] = "idle"
Awaiting(i) == Reached(i) /\ handler[i] = "running"

Recorded(status) == results' = Append(results, status)

TakeNonTool(i) ==
  /\ Taking(i)
  /\ plan[i].offer = "no_tool"
  /\ Recorded("not_executed")
  /\ UNCHANGED <<inputs, used, handler, outcome>>

RouteAway(i) ==
  /\ Taking(i)
  /\ plan[i].offer # "no_tool"
  /\ \/ Skipped(plan[i]) /\ Recorded("skipped")
     \/ Refused(plan[i]) /\ Recorded("blocked")
  /\ UNCHANGED <<inputs, used, handler, outcome>>

Routed(i) ==
  /\ Taking(i)
  /\ plan[i].offer # "no_tool"
  /\ Allowed(plan[i])

\* Without a wrapper the step counts as a call though nothing is called.
RouteOnly(i) ==
  /\ Routed(i)
  /\ ~setup.wrapped
  /\ Recorded("routed")
  /\ used' = used + 1
  /\ UNCHANGED <<inputs, handler, outcome>>

\* The wrapper refuses before it calls the handler.
WrapperRefuses(i) ==
  /\ Routed(i)
  /\ setup.wrapped
  /\ plan[i].offer \in {"unready", "unbound"}
  /\ Recorded("blocked")
  /\ UNCHANGED <<inputs, used, handler, outcome>>

CallHandler(i) ==
  /\ Routed(i)
  /\ setup.wrapped
  /\ plan[i].offer = "ready"
  /\ handler' = [handler EXCEPT ![i] = "running"]
  /\ UNCHANGED <<inputs, used, results, outcome>>

\* executeWithTimeout: the handler returns or throws before the timeout.
HandlerEnds(i) ==
  /\ Awaiting(i)
  /\ handler' = [handler EXCEPT ![i] = "over"]
  /\ \/ Recorded("routed") /\ used' = used + 1
     \/ Recorded("failed") /\ UNCHANGED used
  /\ UNCHANGED <<inputs, outcome>>

\* Mutant: the step goes on waiting for the handler.
TimeOutUnnoticed(i) ==
  /\ Awaiting(i)
  /\ setup.timeout
  /\ handler' = [handler EXCEPT ![i] = "abandoned"]
  /\ UNCHANGED <<inputs, used, results, outcome>>

\* A call that does not return in time is not counted either.
TimeOut(i) ==
  /\ Awaiting(i)
  /\ setup.timeout
  /\ handler' = [handler EXCEPT ![i] = "abandoned"]
  /\ Recorded("failed")
  /\ UNCHANGED <<inputs, used, outcome>>

\* What an abandoned handler returns is dropped: the race is over.
LateEnd(i) ==
  /\ handler[i] = "abandoned"
  /\ handler' = [handler EXCEPT ![i] = "over"]
  /\ UNCHANGED <<inputs, used, results, outcome>>

-----------------------------------------------------------------------------
(* The status of the run *)

Has(statuses) == \E i \in DOMAIN results : results[i] \in statuses

\* Mutant: what was executed is looked at before what went wrong.
DerivedFromExecuted ==
  IF Has({"routed"}) THEN "completed"
  ELSE IF Stopped THEN "failed"
  ELSE IF Has({"skipped"}) THEN "skipped"
  ELSE "partial"

\* deriveExecutionStatus: "completed" is left for a run whose steps came to
\* none of these, which no step does.
Derived ==
  IF Stopped /\ ~Has({"routed"}) THEN "failed"
  ELSE IF Has({"blocked", "failed", "not_executed", "routed"}) THEN "partial"
  ELSE IF results = <<>> \/ Has({"skipped"}) THEN "skipped"
  ELSE "completed"

Finish ==
  /\ outcome = None
  /\ Stopped \/ Current > Len(plan)
  /\ outcome' = Derived
  /\ UNCHANGED <<inputs, used, results, handler>>

EngineStep(i) ==
  \/ TakeNonTool(i) \/ RouteAway(i) \/ RouteOnly(i) \/ WrapperRefuses(i)
  \/ CallHandler(i) \/ TimeOut(i)

Next ==
  \/ \E i \in Index : EngineStep(i) \/ HandlerEnds(i) \/ LateEnd(i)
  \/ Finish

Spec == Init /\ [][Next]_vars

\* Node runs continuations and fires timers; a handler need not end.
FairSpec == Spec /\ WF_vars(Finish) /\ \A i \in Index : WF_vars(EngineStep(i))
-----------------------------------------------------------------------------
(* Properties *)

Answered == {i \in DOMAIN results : results[i] = "routed"}

\* The calls a run gets an answer from stay within what its budget had left,
\* whatever the steps before them came to.
BudgetHeld ==
  Cardinality(Answered)
    <= IF setup.max > setup.used THEN setup.max - setup.used ELSE 0

\* A step that may not fail is the last one: if it did not succeed, no step
\* after it has a result, and no tool after it was called.
NothingAfterStop ==
  \A i \in DOMAIN results :
    /\ results[i] \in {"blocked", "failed"}
    /\ plan[i].required \/ plan[i].onFailure = "fail"
    => /\ i = Len(results)
       /\ \A j \in Index : j > i => handler[j] = "idle"

\* The status of the run is not better, nor worse, than what happened: a failed
\* run had no answer from any tool; one that was skipped or completed had no
\* step that had to be carried out, and called nothing.
OutcomeIsHonest ==
  /\ outcome = "failed" => ~Has({"routed"})
  /\ outcome \in {"skipped", "completed"} =>
       /\ \A i \in DOMAIN plan : ~plan[i].required
       /\ \A i \in Index : handler[i] = "idle"

\* Under a timeout the run ends, even if no handler ever does.
Settles == setup.timeout => <>(outcome # None)

-----------------------------------------------------------------------------
(* Why the properties hold: the parts of the inductive invariant *)

\* Every answer was counted, and only while the budget lasted.
Counted ==
  /\ used = setup.used + Cardinality(Answered)
  /\ used = setup.used \/ used <= setup.max

\* A handler that was called belongs to a step that came to an answer or a
\* failure, or to the step being taken, for which the budget still lasts.
Attended ==
  \A i \in Index : handler[i] # "idle" =>
    /\ i <= Len(plan)
    /\ i <= Current
    /\ i < Current => results[i] \in {"routed", "failed"}
    /\ i = Current => used < setup.max

SkippedIsOptional ==
  \A i \in DOMAIN results : results[i] = "skipped" => ~plan[i].required
=============================================================================
