---------------------------- MODULE ChatJobProofs ----------------------------
(***************************************************************************)
(* Proofs about ChatJob, for any set of invocations and any times.         *)
(***************************************************************************)
EXTENDS ChatJob, SequenceTheorems, TLAPS

-----------------------------------------------------------------------------
(* Types *)

\* The times a step writes are times.
LEMMA TimesType ==
  ASSUME TypeOK
  PROVE  clock + LeaseSeconds \in Nat /\ clock + TtlSeconds \in Nat
BY ConstantsAssumption DEF TypeOK

\* The last entries of a message list are a message list.
LEMMA LastOfType ==
  ASSUME NEW s \in Seq(Message)
  PROVE  LastOf(s) \in Seq(Message)
BY ConstantsAssumption DEF LastOf

\* The steps of an invocation's local state keep it well formed.
LEMMA RunType ==
  ASSUME TypeOK, NEW w \in Worker
  PROVE  /\ \A pc \in WorkerPc : Goto(w, pc) => run' \in [Worker -> Run]
         /\ \A pc \in WorkerPc : End(w, pc) => run' \in [Worker -> Run]
         /\ \A stage \in Stage : CallReport(w, stage) => run' \in [Worker -> Run]
         /\ ReportReturns(w) => run' \in [Worker -> Run]
<1>1. ASSUME NEW r \in Run, run' = [run EXCEPT ![w] = r]
      PROVE  run' \in [Worker -> Run]
  BY <1>1 DEF TypeOK
<1>2. run[w] \in Run
  BY DEF TypeOK
<1>3. ASSUME NEW pc \in WorkerPc, Goto(w, pc)
      PROVE  run' \in [Worker -> Run]
  <2>1. [run[w] EXCEPT !.pc = pc] \in Run
    BY <1>2 DEF Run
  <2> QED BY <2>1, <1>1, <1>3 DEF Goto
<1>4. ASSUME NEW pc \in WorkerPc, End(w, pc)
      PROVE  run' \in [Worker -> Run]
  <2>1. [pc |-> pc, begun |-> 0, lease |-> 0, stage |-> "queued",
         seen |-> <<>>] \in Run
    BY DEF Run, Stage
  <2> QED BY <2>1, <1>1, <1>4 DEF End
<1>5. ASSUME NEW stage \in Stage, CallReport(w, stage)
      PROVE  run' \in [Worker -> Run]
  <2>1. [run[w] EXCEPT !.pc = "report", !.stage = stage,
                       !.lease = clock + LeaseSeconds] \in Run
    BY <1>2, TimesType DEF Run, WorkerPc
  <2> QED BY <2>1, <1>1, <1>5 DEF CallReport
<1>6. ASSUME ReportReturns(w)
      PROVE  run' \in [Worker -> Run]
  <2>1. [run[w] EXCEPT !.pc = "work", !.lease = 0, !.seen = <<>>] \in Run
    <3>1. 0 \in Nat /\ <<>> \in Seq(Message)
      OBVIOUS
    <3> QED BY <1>2, <3>1 DEF Run, WorkerPc
  <2>2. "done" \in WorkerPc
    BY DEF WorkerPc
  <2> QED BY <2>1, <2>2, <1>1, <1>4, <1>6 DEF ReportReturns
<1> QED BY <1>3, <1>4, <1>5, <1>6

\* A report adds its message to the list it has read.
LEMMA ReportedMessages ==
  ASSUME TypeOK, NEW w \in Worker
  PROVE  LastOf(Append(run[w].seen, [by |-> w, stage |-> run[w].stage]))
           \in Seq(Message)
<1>1. run[w].stage \in Stage /\ run[w].seen \in Seq(Message)
  BY DEF TypeOK, Run
<1>2. [by |-> w, stage |-> run[w].stage] \in Message
  BY <1>1 DEF Message
<1>3. \A s \in Seq(Message), m \in Message : Append(s, m) \in Seq(Message)
  OBVIOUS
<1> QED BY <1>1, <1>2, <1>3, LastOfType, Zenon

\* An update of an item, missing or not, starts from an item.
LEMMA TargetType ==
  ASSUME TypeOK
  PROVE  Target \in Item
BY DEF TypeOK, Target, Bare, Item, Status, Stage

\* What each request leaves in the table is an item.
LEMMA ItemType ==
  ASSUME TypeOK
  PROVE  /\ NewItem \in Item
         /\ FailedByDispatch \in Item
         /\ \A w \in Worker : Completed(w) \in Item
         /\ \A w \in Worker : FailedBy(w) \in Item
         /\ \A w \in Worker : Reported(w) \in Item
         /\ \A w \in Worker : item # None => Claimed(w) \in Item
<1>1. NewItem \in Item
  BY TimesType DEF NewItem, Item, Status, Stage, Message
<1>2. Target \in Item
  BY TargetType
<1>3. FailedByDispatch \in Item
  BY <1>2, TimesType DEF FailedByDispatch, Item, Status, Stage, ErrorSource
<1>4. ASSUME NEW w \in Worker PROVE Completed(w) \in Item
  BY <1>2, TimesType DEF Completed, Item, Status, Stage
<1>5. ASSUME NEW w \in Worker PROVE FailedBy(w) \in Item
  BY <1>2, TimesType DEF FailedBy, Item, Status, Stage, ErrorSource
<1>6. ASSUME NEW w \in Worker PROVE Reported(w) \in Item
  <2>1. run[w].stage \in Stage /\ run[w].lease \in Nat
    BY DEF TypeOK, Run
  <2>4. StatusOf(run[w].stage) \in Status
    BY DEF StatusOf, Status, Terminal
  <2> QED BY <1>2, <2>1, <2>4, ReportedMessages DEF Reported, Item
<1>7. ASSUME NEW w \in Worker, item # None PROVE Claimed(w) \in Item
  <2>1. item \in Item /\ run[w].lease \in Nat
    BY <1>7 DEF TypeOK, Run
  <2>2. item.attempts + 1 \in Nat
    BY <2>1 DEF Item
  <2> QED BY <2>1, <2>2 DEF Claimed, Item, Status, Stage
<1> QED BY <1>1, <1>3, <1>4, <1>5, <1>6, <1>7

Events == [pending : Nat, retries : Nat, dups : Nat, sent : BOOLEAN,
           sentAt : Nat]

\* An accepted or retried event leaves a well-formed queue.
LEMMA EventsType ==
  ASSUME TypeOK
  PROVE  /\ Accept => events' \in Events
         /\ \A w \in Worker : Dies(w) => events' \in Events
<1>1. events \in Events
  BY DEF TypeOK, Events
<1>2. ASSUME Accept PROVE events' \in Events
  BY <1>2, ConstantsAssumption DEF TypeOK, Accept, Events
<1>3. ASSUME NEW w \in Worker, Dies(w) PROVE events' \in Events
  <2>1. CASE events.retries > 0
    <3>1. events.pending + 1 \in Nat /\ events.retries - 1 \in Nat
      BY <1>1, <2>1 DEF Events
    <3>2. [events EXCEPT !.pending = @ + 1, !.retries = @ - 1] \in Events
      BY <1>1, <3>1, Zenon DEF Events
    <3> QED BY <1>3, <2>1, <3>2 DEF Dies
  <2>2. CASE ~(events.retries > 0)
    BY <1>1, <1>3, <2>2 DEF Dies
  <2> QED BY <2>1, <2>2
<1> QED BY <1>2, <1>3

\* Every request of the code leaves a well-formed item, queue and set of
\* invocations.
THEOREM TypeCorrect == Spec => []TypeOK
<1>1. Init => TypeOK
  BY DEF Init, TypeOK, Run, WorkerPc, Stage, ApiPc
<1>2. TypeOK /\ [Next]_vars => TypeOK'
  <2> SUFFICES ASSUME TypeOK, [Next]_vars PROVE TypeOK'
    OBVIOUS
  <2>1. CASE ApiStep \/ ApiStops
    <3>1. (api \in [pc : ApiPc, at : Nat])'
      BY <2>1 DEF TypeOK, ApiStep, ApiStops, CreateJob, Dispatch, DispatchFails,
                  UndoDispatch, ApiPc
    <3>2. (item \in Item \cup {None})'
      BY <2>1, ItemType DEF TypeOK, ApiStep, ApiStops, CreateJob, Dispatch,
                            DispatchFails, UndoDispatch
    <3>3. (events \in Events)'
      BY <2>1, EventsType DEF TypeOK, Events, ApiStep, ApiStops, CreateJob,
                              Dispatch, DispatchFails, UndoDispatch
    <3> QED BY <2>1, <3>1, <3>2, <3>3 DEF TypeOK, Events, ApiStep, ApiStops,
               CreateJob, Dispatch, DispatchFails, UndoDispatch
  <2>2. ASSUME NEW w \in Worker, WorkerStep(w) \/ Stops(w)
        PROVE  TypeOK'
    <3>1. CASE Begin(w)
      <4>1. run[w] \in Run /\ events \in Events
        BY DEF TypeOK, Events
      <4>2. [run[w] EXCEPT !.pc = "claim", !.begun = clock,
                           !.lease = clock + LeaseSeconds] \in Run
        BY <4>1, TimesType DEF TypeOK, Run, WorkerPc
      <4>3. events.pending - 1 \in Nat
        BY <4>1, <3>1 DEF Begin, Events
      <4>4. (events \in Events)'
        BY <4>1, <4>3, <3>1 DEF Begin, Events
      <4> QED BY <4>2, <4>4, <3>1 DEF Begin, TypeOK, Events
    <3>2. CASE Claim(w)
      <4>1. (run \in [Worker -> Run])'
        BY <3>2, RunType DEF Claim, Dies, WorkerPc, Stage
      <4>2. (item \in Item \cup {None})'
        BY <3>2, ItemType DEF TypeOK, Claim, Claimable
      <4>3. (events \in Events)'
        BY <3>2, EventsType DEF TypeOK, Events, Claim
      <4> QED BY <3>2, <4>1, <4>2, <4>3 DEF TypeOK, Events, Claim
    <3>3. CASE ReportRead(w)
      <4>1. (run \in [Worker -> Run])'
        <5>1. ASSUME NEW copy \in View, Spreadable(copy),
                     run' = [run EXCEPT ![w] = [@ EXCEPT !.pc = "write",
                                                         !.seen = copy.messages]]
              PROVE  run' \in [Worker -> Run]
          <6>1. copy.messages \in Seq(Message)
            BY <5>1 DEF View, Spreadable, TypeOK, Item
          <6>2. run[w] \in Run
            BY DEF TypeOK
          <6>3. [run[w] EXCEPT !.pc = "write", !.seen = copy.messages] \in Run
            BY <6>1, <6>2 DEF Run, WorkerPc
          <6> QED BY <5>1, <6>3 DEF TypeOK
        <5> QED BY <3>3, <5>1, RunType DEF ReportRead
      <4> QED BY <3>3, <4>1 DEF ReportRead, TypeOK
    <3>4. CASE ReportWrite(w)
      BY <3>4, RunType, ItemType DEF ReportWrite, TypeOK
    <3>5. CASE Advance(w)
      <4>1. \A stage \in NextStages(run[w].stage) : stage \in Stage
        BY DEF NextStages, If, Stage
      <4> QED BY <3>5, <4>1, RunType DEF Advance, TypeOK
    <3>6. CASE Throw(w) \/ SaveTurn(w)
      BY <3>6, RunType DEF Throw, SaveTurn, TypeOK, WorkerPc
    <3>7. CASE Complete(w)
      BY <3>7, RunType, ItemType DEF Complete, TypeOK, WorkerPc, Stage
    <3>8. CASE Fail(w)
      <4>1. (run \in [Worker -> Run])'
        BY <3>8, RunType DEF Fail, Dies, WorkerPc, Stage
      <4>2. (item \in Item \cup {None})'
        BY <3>8, ItemType DEF TypeOK, Fail
      <4>3. (events \in Events)'
        BY <3>8, EventsType DEF TypeOK, Events, Fail
      <4> QED BY <3>8, <4>1, <4>2, <4>3 DEF TypeOK, Events, Fail
    <3>9. CASE Stops(w)
      BY <3>9, RunType, EventsType DEF Stops, Dies, TypeOK, Events, WorkerPc
    <3> QED BY <2>2, <3>1, <3>2, <3>3, <3>4, <3>5, <3>6, <3>7, <3>8, <3>9
            DEF WorkerStep
  <2>3. CASE Duplicate
    <3>1. events \in Events
      BY DEF TypeOK, Events
    <3>2. events.pending + 1 \in Nat /\ events.dups - 1 \in Nat
      BY <2>3, <3>1 DEF Duplicate, Events
    <3>3. (events \in Events)'
      BY <2>3, <3>1, <3>2 DEF Duplicate, Events
    <3> QED BY <2>3, <3>3 DEF Duplicate, TypeOK, Events
  <2>4. CASE Replicate \/ Expire \/ Tick
    BY <2>4 DEF Replicate, Expire, Tick, TypeOK
  <2>5. CASE UNCHANGED vars
    BY <2>5 DEF vars, TypeOK
  <2> QED BY <2>1, <2>2, <2>3, <2>4, <2>5 DEF Next
<1> QED BY <1>1, <1>2, PTL DEF Spec

-----------------------------------------------------------------------------
(* What a step does to one invocation, and that it leaves the others alone *)

Others(w) == \A v \in Worker \ {w} : run'[v] = run[v]

\* What each step writes into the local state of its invocation.
LEMMA RunFields ==
  ASSUME TypeOK, NEW w \in Worker
  PROVE  /\ \A pc : Goto(w, pc) =>
              /\ Others(w)
              /\ run'[w].pc = pc /\ run'[w].begun = run[w].begun
              /\ run'[w].lease = run[w].lease /\ run'[w].stage = run[w].stage
         /\ \A pc : End(w, pc) =>
              /\ Others(w)
              /\ run'[w].pc = pc /\ run'[w].stage = "queued"
         /\ \A stage : CallReport(w, stage) =>
              /\ Others(w)
              /\ run'[w].pc = "report" /\ run'[w].begun = run[w].begun
              /\ run'[w].lease = clock + LeaseSeconds /\ run'[w].stage = stage
         /\ ReportReturns(w) =>
              /\ Others(w)
              /\ \/ /\ run[w].stage \in Terminal
                    /\ run'[w].pc = "done" /\ run'[w].stage = "queued"
                 \/ /\ run[w].stage \notin Terminal
                    /\ run'[w].pc = "work" /\ run'[w].begun = run[w].begun
                    /\ run'[w].stage = run[w].stage
         /\ Begin(w) =>
              /\ Others(w)
              /\ run'[w].pc = "claim" /\ run'[w].begun = clock
              /\ run'[w].lease = clock + LeaseSeconds
              /\ run'[w].stage = run[w].stage
         /\ ReportRead(w) =>
              \/ ReportReturns(w)
              \/ /\ Others(w)
                 /\ run'[w].pc = "write" /\ run'[w].begun = run[w].begun
                 /\ run'[w].lease = run[w].lease
                 /\ run'[w].stage = run[w].stage
<1> USE DEF TypeOK, Run, Others
<1>1. \A pc : Goto(w, pc) =>
        /\ Others(w)
        /\ run'[w].pc = pc /\ run'[w].begun = run[w].begun
        /\ run'[w].lease = run[w].lease /\ run'[w].stage = run[w].stage
  BY DEF Goto
<1>2. \A pc : End(w, pc) =>
        /\ Others(w)
        /\ run'[w].pc = pc /\ run'[w].stage = "queued"
  BY DEF End
<1>3. \A stage : CallReport(w, stage) =>
        /\ Others(w)
        /\ run'[w].pc = "report" /\ run'[w].begun = run[w].begun
        /\ run'[w].lease = clock + LeaseSeconds /\ run'[w].stage = stage
  BY DEF CallReport
<1>4. ReportReturns(w) =>
        /\ Others(w)
        /\ \/ /\ run[w].stage \in Terminal
              /\ run'[w].pc = "done" /\ run'[w].stage = "queued"
           \/ /\ run[w].stage \notin Terminal
              /\ run'[w].pc = "work" /\ run'[w].begun = run[w].begun
              /\ run'[w].stage = run[w].stage
  <2>1. CASE run[w].stage \in Terminal
    BY <2>1, <1>2, Zenon DEF ReportReturns
  <2>2. CASE run[w].stage \notin Terminal
    <3>1. ASSUME ReportReturns(w)
          PROVE  run' = [run EXCEPT ![w] = [@ EXCEPT !.pc = "work", !.lease = 0,
                                                     !.seen = <<>>]]
      BY <2>2, <3>1, Zenon DEF ReportReturns
    <3>2. ASSUME run' = [run EXCEPT ![w] = [@ EXCEPT !.pc = "work", !.lease = 0,
                                                     !.seen = <<>>]]
          PROVE  /\ Others(w)
                 /\ run'[w].pc = "work" /\ run'[w].begun = run[w].begun
                 /\ run'[w].stage = run[w].stage
      BY <3>2
    <3> QED BY <2>2, <3>1, <3>2, Zenon
  <2> QED BY <2>1, <2>2, Zenon
<1>5. Begin(w) =>
        /\ Others(w)
        /\ run'[w].pc = "claim" /\ run'[w].begun = clock
        /\ run'[w].lease = clock + LeaseSeconds
        /\ run'[w].stage = run[w].stage
  BY DEF Begin
<1>6. ReportRead(w) =>
        \/ ReportReturns(w)
        \/ /\ Others(w)
           /\ run'[w].pc = "write" /\ run'[w].begun = run[w].begun
           /\ run'[w].lease = run[w].lease
           /\ run'[w].stage = run[w].stage
  <2>1. ASSUME NEW copy,
               run' = [run EXCEPT ![w] = [@ EXCEPT !.pc = "write",
                                                   !.seen = copy.messages]]
        PROVE  /\ Others(w)
               /\ run'[w].pc = "write" /\ run'[w].begun = run[w].begun
               /\ run'[w].lease = run[w].lease
               /\ run'[w].stage = run[w].stage
    BY <2>1
  <2> QED BY <2>1, Zenon DEF ReportRead
<1> QED BY <1>1, <1>2, <1>3, <1>4, <1>5, <1>6, Zenon

\* An invocation that dies ends, and leaves the others alone.
LEMMA DiesFields ==
  ASSUME TypeOK, NEW w \in Worker, Dies(w)
  PROVE  /\ Others(w)
         /\ run'[w].pc \in Ended /\ run'[w].stage = "queued"
         /\ run'[w].pc = "dead"
  BY RunFields DEF Dies, Ended

\* Every step of an invocation is of one of these forms, as far as the phase
\* of the invocation and the queue are concerned.
LEMMA Phases ==
  ASSUME TypeOK, NEW w \in Worker, WorkerStep(w) \/ Stops(w)
  PROVE  /\ Others(w)
         /\ UNCHANGED <<clock, api>>
         /\ events'.sent = events.sent /\ events'.sentAt = events.sentAt
         /\ \/ /\ run[w].pc = "idle" /\ run'[w].pc = "claim"
               /\ run'[w].begun = clock /\ run'[w].lease = clock + LeaseSeconds
               /\ events.pending > 0 /\ clock <= events.sentAt + EventMaxAge
            \/ Alive(w) /\ run'[w].pc \in Ended
            \/ /\ Alive(w)
               /\ run'[w].pc \in WorkerPc \ (Ended \cup {"idle", "claim"})
               /\ run'[w].begun = run[w].begun
<1>1. /\ events'.sent = events.sent /\ events'.sentAt = events.sentAt
      /\ UNCHANGED <<clock, api>>
  <2>1. ASSUME Dies(w) PROVE events'.sent = events.sent /\ events'.sentAt = events.sentAt
    BY <2>1 DEF Dies, TypeOK
  <2>2. ASSUME Begin(w) PROVE events'.sent = events.sent /\ events'.sentAt = events.sentAt
    BY <2>2 DEF Begin, TypeOK
  <2> QED BY <2>1, <2>2, Zenon DEF WorkerStep, Claim, ReportRead, ReportWrite,
          Advance, Throw, SaveTurn, Complete, Fail, Stops, Begin
<1>2. CASE Begin(w)
  BY <1>1, <1>2, RunFields DEF Begin
<1>3. CASE Stops(w)
  BY <1>1, <1>3, RunFields, Zenon DEF Stops, Dies, Ended
<1>4. CASE WorkerStep(w) /\ ~Begin(w)
  <2>1. Alive(w)
    BY <1>4 DEF WorkerStep, Claim, ReportRead, ReportWrite, Advance, Throw,
                SaveTurn, Complete, Fail, Alive, Ended
  <2>2. Others(w)
    BY <1>4, RunFields, Zenon DEF WorkerStep, Claim, ReportRead, ReportWrite,
          Advance, Throw, SaveTurn, Complete, Fail, Dies
  <2>3. \/ run'[w].pc \in Ended
        \/ /\ run'[w].pc \in {"report", "write", "work", "complete", "fail"}
           /\ run'[w].begun = run[w].begun
    BY <1>4, RunFields DEF WorkerStep, Claim, ReportRead, ReportWrite,
          Advance, Throw, SaveTurn, Complete, Fail, Dies, Ended
  <2> QED BY <1>1, <2>1, <2>2, <2>3 DEF WorkerPc, Ended
<1> QED BY <1>2, <1>3, <1>4

-----------------------------------------------------------------------------
(* Invariants that hold for any lease *)

\* Every step preserves Sent.
LEMMA SentStep ==
  ASSUME TypeOK, Sent, [Next]_vars
  PROVE  Sent'
<1>1. CASE ApiStep \/ ApiStops
  BY <1>1 DEF TypeOK, Sent, ApiStep, ApiStops, CreateJob, Dispatch,
              DispatchFails, UndoDispatch, Accept
<1>2. ASSUME NEW w \in Worker, WorkerStep(w) \/ Stops(w) PROVE Sent'
  <2>1. events.sent
    BY <1>2, Phases DEF Sent, Alive
  <2> QED BY <1>2, <2>1, Phases DEF Sent
<1>3. CASE Duplicate
  BY <1>3 DEF Duplicate, Sent, TypeOK
<1>4. CASE Replicate \/ Expire \/ Tick \/ UNCHANGED vars
  BY <1>4 DEF Replicate, Expire, Tick, vars, Sent
<1> QED BY <1>1, <1>2, <1>3, <1>4 DEF Next

\* Every step preserves Deadlines: Tick waits for whoever is at its timeout.
LEMMA DeadlinesStep ==
  ASSUME TypeOK, Deadlines, [Next]_vars
  PROVE  Deadlines'
<1> USE ConstantsAssumption
<1>0. /\ clock \in Nat /\ api.at \in Nat
      /\ \A v \in Worker : run[v].begun \in Nat
  BY DEF TypeOK, Run
<1>1. CASE ApiStep \/ ApiStops
  <2>1. run' = run /\ clock' = clock
    BY <1>1 DEF ApiStep, ApiStops, CreateJob, Dispatch, DispatchFails,
                UndoDispatch
  <2>2. api'.pc \in {"dispatch", "undo"} =>
          api'.at = clock \/ (api'.at = api.at /\ api.pc \in {"dispatch", "undo"})
    BY <1>1 DEF ApiStep, ApiStops, CreateJob, Dispatch, DispatchFails,
                UndoDispatch, TypeOK
  <2>3. clock <= clock + ApiTimeout
    BY <1>0
  <2> QED BY <2>1, <2>2, <2>3, <1>0 DEF Deadlines, Alive
<1>2. ASSUME NEW w \in Worker, WorkerStep(w) \/ Stops(w) PROVE Deadlines'
  <2>1. \A v \in Worker : run'[v].pc \notin Ended \cup {"idle"} =>
          \/ Alive(v) /\ run'[v].begun = run[v].begun
          \/ run'[v].begun = clock
    BY <1>2, Phases DEF Others, Alive, Ended
  <2>2. clock <= clock + WorkerTimeout /\ clock <= clock
    BY <1>0
  <2>3. clock' = clock /\ api' = api
    BY <1>2, Phases
  <2> QED BY <2>1, <2>2, <2>3 DEF Deadlines, Alive
<1>3. CASE Tick
  <2>1. clock' = clock + 1 /\ run' = run /\ api' = api
    BY <1>3 DEF Tick
  <2>2. \A v \in Worker : Alive(v) => clock < run[v].begun + WorkerTimeout
    BY <1>3 DEF Tick
  <2>3. api.pc \in {"dispatch", "undo"} => clock < api.at + ApiTimeout
    BY <1>3 DEF Tick
  <2>4. \A v \in Worker : Alive(v)' = Alive(v)
    BY <2>1 DEF Alive
  <2> QED BY <1>0, <2>1, <2>2, <2>3, <2>4 DEF Deadlines
<1>4. CASE Duplicate \/ Replicate \/ Expire \/ UNCHANGED vars
  BY <1>4 DEF Duplicate, Replicate, Expire, vars, Deadlines, Alive
<1> QED BY <1>1, <1>2, <1>3, <1>4 DEF Next

-----------------------------------------------------------------------------
(* A lease that outlasts the worker makes the worker exclusive *)

\* Every step preserves Leased and SingleRunner: a claim that succeeds finds
\* the lease of any earlier holder, and so that holder's timeout, in the past.
LEMMA LeasedStep ==
  ASSUME LeaseSeconds >= WorkerTimeout,
         TypeOK, Sent, Deadlines, Leased, SingleRunner, [Next]_vars
  PROVE  Leased' /\ SingleRunner'
<1> USE ConstantsAssumption
<1>0. /\ clock \in Nat
      /\ \A v \in Worker : run[v].begun \in Nat /\ run[v].lease \in Nat
      /\ item # None => item.lease \in Nat
  BY DEF TypeOK, Run, Item
<1>1. ASSUME NEW w \in Worker, Begin(w) \/ Stops(w) \/ Advance(w) \/ Throw(w)
                               \/ SaveTurn(w) \/ ReportRead(w)
      PROVE  Leased' /\ SingleRunner'
  <2>1. item' = item
    BY <1>1 DEF Begin, Stops, Advance, Throw, SaveTurn, ReportRead
  <2>2. Others(w) /\ clock' = clock
    BY <1>1, Phases DEF WorkerStep
  <2>3. \/ /\ run'[w].pc = "claim" /\ run'[w].begun = clock
           /\ run'[w].lease = clock + LeaseSeconds
        \/ run'[w].pc \in Ended
        \/ /\ Holding(w) /\ run'[w].begun = run[w].begun
           /\ run'[w].pc = "report" /\ run'[w].lease = clock + LeaseSeconds
        \/ /\ Holding(w) /\ run'[w].begun = run[w].begun
           /\ run'[w].pc \in {"work", "complete", "fail"}
        \/ /\ Holding(w) /\ run'[w].begun = run[w].begun
           /\ run[w].pc = "report" /\ run'[w].pc = "write"
           /\ run'[w].lease = run[w].lease
    <3>1. CASE Begin(w)
      BY <3>1, RunFields
    <3>2. CASE Stops(w)
      BY <3>2, DiesFields DEF Stops
    <3>3. CASE Advance(w)
      BY <3>3, RunFields DEF Advance, Holding, Alive, Ended
    <3>4. CASE Throw(w) \/ SaveTurn(w)
      BY <3>4, RunFields DEF Throw, SaveTurn, Holding, Alive, Ended
    <3>5. CASE ReportRead(w)
      <4>1. run[w].pc = "report" /\ Holding(w)
        BY <3>5 DEF ReportRead, Holding, Alive, Ended
      <4>2. CASE ReportReturns(w)
        BY <4>1, <4>2, RunFields DEF Ended
      <4>3. CASE /\ run'[w].pc = "write" /\ run'[w].begun = run[w].begun
                 /\ run'[w].lease = run[w].lease
        BY <4>1, <4>3
      <4> QED BY <3>5, <4>2, <4>3, RunFields, Zenon
    <3> QED BY <1>1, <3>1, <3>2, <3>3, <3>4, <3>5
  <2>4. /\ Holding(w)' => Holding(w) /\ run'[w].begun = run[w].begun
        /\ run'[w].pc = "claim" => run'[w].lease = run'[w].begun + LeaseSeconds
    BY <2>3 DEF Holding, Alive, Ended
  <2>5. run'[w].pc \in {"report", "write"} =>
          run'[w].lease >= run'[w].begun + LeaseSeconds
    <3>1. Holding(w) => run[w].begun <= clock
      BY DEF Holding, Deadlines
    <3> QED BY <2>3, <3>1, <1>0 DEF Leased, Ended
  <2>6. \A v \in Worker \ {w} : run'[v] = run[v]
    BY <2>2 DEF Others
  <2>7. SingleRunner'
    BY <2>4, <2>6 DEF SingleRunner, Holding, Alive
  <2>8. Leased'
    BY <2>1, <2>4, <2>5, <2>6 DEF Leased, Holding, Alive
  <2> QED BY <2>7, <2>8
<1>2. ASSUME NEW w \in Worker, Claim(w)
      PROVE  Leased' /\ SingleRunner'
  <2>1. Others(w) /\ clock' = clock
    BY <1>2, Phases DEF WorkerStep
  <2>2. /\ run[w].lease = run[w].begun + LeaseSeconds
        /\ run[w].begun <= clock
    BY <1>2 DEF Claim, Leased, Deadlines, Alive, Ended
  <2>3. run[w].lease - LeaseSeconds = run[w].begun
    BY <2>2, <1>0
  <2>4. Claimable(run[w].begun) => \A v \in Worker : ~Holding(v)
    <3> SUFFICES ASSUME Claimable(run[w].begun), NEW v \in Worker, Holding(v)
                 PROVE  FALSE
      OBVIOUS
    <3>1. /\ item # None /\ item.lease < run[w].begun
          /\ item.lease >= run[v].begun + LeaseSeconds
      BY DEF Claimable, Leased
    <3>2. clock <= run[v].begun + WorkerTimeout
      BY DEF Holding, Deadlines
    <3> QED BY <2>2, <3>1, <3>2, <1>0
  <2>5. CASE /\ Claimable(run[w].begun)
             /\ item' = Claimed(w)
             /\ run'[w].pc \in {"report", "fail"} \cup Ended
             /\ run'[w].pc = "report" => run'[w].lease = clock + LeaseSeconds
             /\ run'[w].pc \notin Ended => run'[w].begun = run[w].begun
    <3>1. /\ item'.status = "running" /\ item'.lease = run[w].lease
      BY <2>5 DEF Claimed, Claimable, TypeOK, Item
    <3>2. \A v \in Worker : Holding(v)' => v = w
      BY <2>1, <2>4, <2>5 DEF Others, Holding, Alive
    <3>3. \A v \in Worker \ {w} : run'[v] = run[v]
      BY <2>1 DEF Others
    <3>4. run'[w].pc = "report" => run'[w].lease >= run'[w].begun + LeaseSeconds
      BY <2>2, <2>5, <1>0, <3>1 DEF Ended
    <3>5. Holding(w)' => item'.lease >= run'[w].begun + LeaseSeconds
      BY <2>2, <2>5, <1>0, <3>1 DEF Holding, Alive
    <3>6. run'[w].pc \notin {"claim", "write"}
      BY <2>5 DEF Ended
    <3>7. Leased'
      BY <3>1, <3>2, <3>3, <3>4, <3>5, <3>6 DEF Leased
    <3>8. SingleRunner'
      BY <3>2 DEF SingleRunner
    <3> QED BY <3>7, <3>8
  <2>6. CASE item' = item /\ run'[w].pc \in Ended
    <3>1. ~Holding(w)' /\ run'[w].pc \notin {"claim", "report", "write"}
      BY <2>6 DEF Holding, Alive, Ended
    <3>2. \A v \in Worker \ {w} : run'[v] = run[v]
      BY <2>1 DEF Others
    <3> QED BY <2>6, <3>1, <3>2 DEF Leased, SingleRunner, Holding, Alive
  <2>7. \/ /\ Claimable(run[w].begun)
           /\ item' = Claimed(w)
           /\ run'[w].pc \in {"report", "fail"} \cup Ended
           /\ run'[w].pc = "report" => run'[w].lease = clock + LeaseSeconds
           /\ run'[w].pc \notin Ended => run'[w].begun = run[w].begun
        \/ item' = item /\ run'[w].pc \in Ended
    <3>1. CASE /\ Claimable(run[w].begun) /\ item' = Claimed(w)
               /\ CallReport(w, "loading_history") \/ Goto(w, "fail")
      BY <3>1, RunFields
    <3>2. CASE /\ Claimable(run[w].begun) /\ item' = Claimed(w)
               /\ Dies(w)
      BY <3>2, DiesFields DEF Ended
    <3>3. CASE item' = item /\ (Dies(w) \/ End(w, "skipped"))
      BY <3>3, DiesFields, RunFields DEF Ended
    <3> QED BY <1>2, <2>3, <3>1, <3>2, <3>3, Zenon DEF Claim
  <2> QED BY <2>5, <2>6, <2>7
<1>3. ASSUME NEW w \in Worker, ReportWrite(w) \/ Complete(w) \/ Fail(w)
      PROVE  Leased' /\ SingleRunner'
  <2>1. Others(w) /\ clock' = clock /\ Holding(w)
    BY <1>3, Phases DEF WorkerStep, ReportWrite, Complete, Fail, Holding,
                        Alive, Ended
  <2>2. \A v \in Worker : Holding(v)' => v = w
    BY <2>1 DEF Others, SingleRunner, Holding, Alive
  <2>3. run'[w].pc \in Ended \/ run'[w].begun = run[w].begun
    BY <1>3, <2>1, Phases DEF WorkerStep, Holding, Alive
  <2>4. /\ run'[w].pc # "claim" /\ run'[w].pc # "write"
        /\ run'[w].pc = "report" => run'[w].lease = clock + LeaseSeconds
    BY <1>3, RunFields DEF ReportWrite, Complete, Fail, Dies
  <2>5. run[w].begun <= clock
    BY <2>1 DEF Holding, Deadlines
  <2>6. \/ item' = item
        \/ /\ item' = Reported(w) /\ run[w].pc = "write"
        \/ /\ item' = Completed(w) \/ item' = FailedBy(w)
    BY <1>3, Zenon DEF ReportWrite, Complete, Fail
  <2>7. item' # None => /\ item'.status # "queued"
                        /\ item'.status = "running" =>
                             item'.lease >= run[w].begun + LeaseSeconds
    <3>1. CASE item' = item
      BY <2>1, <3>1 DEF Leased
    <3>2. CASE item' = Reported(w) /\ run[w].pc = "write"
      <4>1. item'.status = StatusOf(run[w].stage) /\ item'.lease = run[w].lease
        BY <3>2, TargetType DEF Reported, Item
      <4>2. run[w].lease >= run[w].begun + LeaseSeconds
        BY <3>2 DEF Leased
      <4>3. StatusOf(run[w].stage) # "queued"
        BY DEF StatusOf, Terminal
      <4> QED BY <4>1, <4>2, <4>3
    <3>3. CASE item' = Completed(w) \/ item' = FailedBy(w)
      BY <3>3, TargetType DEF Completed, FailedBy, Item
    <3> QED BY <2>6, <3>1, <3>2, <3>3
  <2>8. \A v \in Worker \ {w} : run'[v] = run[v]
    BY <2>1 DEF Others
  <2>9. run'[w].pc = "report" => run'[w].lease >= run'[w].begun + LeaseSeconds
    BY <2>3, <2>4, <2>5, <1>0 DEF Ended
  <2>10. Holding(w)' => run'[w].begun = run[w].begun
    BY <2>3 DEF Holding, Alive
  <2>11. Leased'
    BY <2>2, <2>4, <2>7, <2>8, <2>9, <2>10 DEF Leased
  <2> QED BY <2>2, <2>11 DEF SingleRunner
<1>4. CASE ApiStep \/ ApiStops
  <2>1. run' = run
    BY <1>4 DEF ApiStep, ApiStops, CreateJob, Dispatch, DispatchFails,
                UndoDispatch
  <2>2. SingleRunner'
    BY <2>1 DEF SingleRunner, Holding, Alive
  <2>3. CASE CreateJob
    <3>1. \A w \in Worker : run'[w].pc = "idle"
      BY <2>1, <2>3 DEF CreateJob, Sent
    <3> QED BY <2>2, <3>1 DEF Leased, Holding, Alive
  <2>4. CASE UndoDispatch
    <3>1. item' = item \/ item'.status = "failed"
      BY <2>4, TargetType DEF UndoDispatch, FailedByDispatch, Item
    <3> QED BY <2>1, <2>2, <3>1 DEF Leased, Holding, Alive
  <2>5. CASE Dispatch \/ DispatchFails \/ ApiStops
    <3>1. item' = item
      BY <2>5 DEF Dispatch, DispatchFails, ApiStops
    <3> QED BY <2>1, <2>2, <3>1 DEF Leased, Holding, Alive
  <2> QED BY <1>4, <2>3, <2>4, <2>5 DEF ApiStep
<1>5. CASE Duplicate \/ Replicate \/ Expire \/ Tick \/ UNCHANGED vars
  <2>1. run' = run /\ (item' = item \/ item' = None)
    BY <1>5 DEF Duplicate, Replicate, Expire, Tick, vars
  <2> QED BY <2>1 DEF Leased, SingleRunner, Holding, Alive
<1> QED BY <1>1, <1>2, <1>3, <1>4, <1>5 DEF Next, WorkerStep

\* Whatever the number of deliveries, and whatever requests and processes
\* fail, no two invocations hold the job at once, provided that the lease
\* outlasts the worker function's timeout.  The invariant carries when an
\* invocation may still run (Deadlines) and that the lease on the item covers
\* that time (Leased), because the claim looks at the lease only.
THEOREM LeaseExcludes ==
  ASSUME LeaseSeconds >= WorkerTimeout
  PROVE  Spec => []SingleRunner
<1> DEFINE Inv == TypeOK /\ Sent /\ Deadlines /\ Leased /\ SingleRunner
<1>1. Init => Inv
  <2>1. Init => TypeOK
    BY DEF Init, TypeOK, Run, WorkerPc, Stage, ApiPc
  <2> QED BY <2>1 DEF Init, Sent, Deadlines, Leased, SingleRunner, Holding,
                      Alive
<1>2. Inv /\ TypeOK' /\ [Next]_vars => Inv'
  BY SentStep, DeadlinesStep, LeasedStep
<1>3. Inv => SingleRunner
  OBVIOUS
<1> QED BY <1>1, <1>2, <1>3, TypeCorrect, PTL DEF Spec

-----------------------------------------------------------------------------
(* One question leaves one turn *)

\* A new item has messages.
LEMMA NewItemFields == NewItem.messages # None
<1>1. NewItem.messages = <<[by |-> None, stage |-> "queued"]>>
  BY DEF NewItem
<1>2. <<[by |-> None, stage |-> "queued"]>> \in Seq(Message)
  BY DEF Message, Stage
<1> QED BY <1>1, <1>2, AbsentAssumption

\* The statuses and message lists that the requests of the code write.
LEMMA ItemFields ==
  ASSUME TypeOK, NEW w \in Worker
  PROVE  /\ FailedByDispatch.status = "failed"
         /\ Completed(w).status = "completed"
         /\ FailedBy(w).status = "failed"
         /\ Reported(w).status = StatusOf(run[w].stage)
         /\ Reported(w).messages # None
         /\ item # None => Claimed(w).messages = item.messages
<1>2. /\ FailedByDispatch.status = "failed"
      /\ Completed(w).status = "completed"
      /\ FailedBy(w).status = "failed"
  BY TargetType DEF FailedByDispatch, Completed, FailedBy, Item
<1>3. /\ Reported(w).status = StatusOf(run[w].stage)
      /\ Reported(w).messages # None
  <2>1. /\ Reported(w).status = StatusOf(run[w].stage)
        /\ Reported(w).messages =
             LastOf(Append(run[w].seen, [by |-> w, stage |-> run[w].stage]))
    BY TargetType DEF Reported, Item
  <2>2. LastOf(Append(run[w].seen, [by |-> w, stage |-> run[w].stage]))
          \in Seq(Message)
    BY ReportedMessages
  <2> QED BY <2>1, <2>2, AbsentAssumption
<1>4. item # None => Claimed(w).messages = item.messages
  BY DEF TypeOK, Claimed, Item
<1> QED BY <1>2, <1>3, <1>4

\* Fenced and AtMostOneTurn are preserved by every step, provided that
\* requests succeed, reads are current, and one invocation holds the job.
LEMMA FencedStep ==
  ASSUME "store" \notin Faults, "stale" \notin Faults,
         TypeOK, Sent, SingleRunner, SingleRunner', Fenced, AtMostOneTurn,
         [Next]_vars
  PROVE  Fenced' /\ AtMostOneTurn'
<1>1. ASSUME NEW w \in Worker, Begin(w) \/ Stops(w) \/ Advance(w) \/ Throw(w)
      PROVE  Fenced' /\ AtMostOneTurn'
  <2>1. item' = item /\ saved' = saved /\ Others(w)
    <3>1. Others(w)
      BY <1>1, Phases DEF WorkerStep
    <3>2. item' = item /\ saved' = saved
      BY <1>1 DEF Begin, Stops, Advance, Throw
    <3> QED BY <3>1, <3>2
  <2>2. \/ run[w].pc = "idle" /\ run'[w].pc = "claim"
        \/ Alive(w) /\ run'[w].pc \in Ended
        \/ Holding(w) /\ run[w].pc = "work" /\ run'[w].pc \in {"report", "fail"}
    <3>1. CASE Begin(w)
      BY <3>1, RunFields DEF Begin
    <3>2. CASE Stops(w)
      BY <3>2, DiesFields DEF Stops
    <3>3. CASE Advance(w) \/ Throw(w)
      BY <3>3, RunFields DEF Advance, Throw, Holding, Alive, Ended
    <3> QED BY <1>1, <3>1, <3>2, <3>3
  <2> QED BY <2>1, <2>2 DEF Others, Fenced, AtMostOneTurn, Holding, Alive, Ended
<1>2. ASSUME NEW w \in Worker, Claim(w)
      PROVE  Fenced' /\ AtMostOneTurn'
  <2>1. Others(w) /\ saved' = saved /\ run[w].pc = "claim"
    BY <1>2, Phases DEF WorkerStep, Claim
  <2>2. w \notin saved
    BY <2>1 DEF Fenced
  <2>3. CASE /\ item # None /\ item.status \in {"queued", "running"}
             /\ item' = Claimed(w) /\ run'[w].pc \in {"report", "fail"}
    <3>1. saved = {}
      BY <2>3 DEF Fenced
    <3>2. item.messages # None
      BY <2>3 DEF Fenced, Terminal
    <3>3. item'.messages # None
      BY <2>3, <3>2, ItemFields
    <3>4. Holding(w)'
      BY <2>3 DEF Holding, Alive, Ended
    <3>5. \A v \in Worker : Holding(v)' => v = w
      BY <3>4 DEF SingleRunner
    <3>6. \A v \in Worker : run'[v].pc # "work"
      BY <2>3, <3>5 DEF Holding, Alive, Ended
    <3> QED BY <2>1, <3>1, <3>3, <3>6 DEF Fenced, AtMostOneTurn
  <2>4. CASE item' = item /\ run'[w].pc = "skipped"
    BY <2>1, <2>2, <2>4 DEF Others, Fenced, AtMostOneTurn, Holding, Alive, Ended
  <2>5. Claimable(run[w].lease - LeaseSeconds) =>
          item # None /\ item.status \in {"queued", "running"}
    BY DEF Claimable
  <2> QED BY <1>2, <2>3, <2>4, <2>5, RunFields, Zenon DEF Claim
<1>3. ASSUME NEW w \in Worker, ReportRead(w)
      PROVE  Fenced' /\ AtMostOneTurn'
  <2>1. /\ Others(w) /\ item' = item /\ saved' = saved
        /\ run[w].pc = "report" /\ Holding(w)
    BY <1>3, Phases DEF WorkerStep, ReportRead, Holding, Alive, Ended
  <2>2. CASE run'[w].pc = "write" /\ run'[w].stage = run[w].stage
    BY <2>1, <2>2 DEF Others, Fenced, AtMostOneTurn, Holding, Alive
  <2>3. CASE ReportReturns(w) /\ (item = None \/ item.messages = None)
    <3>1. \/ run'[w].pc = "done"
          \/ run[w].stage \notin Terminal /\ run'[w].pc = "work"
      BY <2>3, RunFields
    <3>2. run'[w].pc = "work" => saved = {}
      BY <2>1, <3>1 DEF Fenced
    <3>3. item # None => item.status \notin {"queued", "running"}
      BY <2>3 DEF Fenced, Terminal
    <3> QED BY <2>1, <3>1, <3>2, <3>3
            DEF Others, Fenced, AtMostOneTurn, Holding, Alive, Ended
  <2>4. View = {item}
    BY DEF View
  <2>5. \/ ReportReturns(w) /\ (item = None \/ item.messages = None)
        \/ run' = [run EXCEPT ![w] = [@ EXCEPT !.pc = "write",
                                               !.seen = item.messages]]
    BY <1>3, <2>4, Zenon DEF ReportRead, Spreadable
  <2>6. ASSUME run' = [run EXCEPT ![w] = [@ EXCEPT !.pc = "write",
                                                   !.seen = item.messages]]
        PROVE  run'[w].pc = "write" /\ run'[w].stage = run[w].stage
    BY <2>6 DEF TypeOK, Run
  <2> QED BY <2>2, <2>3, <2>5, <2>6, Zenon
<1>4. ASSUME NEW w \in Worker, ReportWrite(w)
      PROVE  Fenced' /\ AtMostOneTurn'
  <2>1. /\ Others(w) /\ saved' = saved /\ item' = Reported(w)
        /\ run[w].pc = "write" /\ Holding(w) /\ ReportReturns(w)
    BY <1>4, Phases DEF WorkerStep, ReportWrite, Holding, Alive, Ended
  <2>2. /\ item'.status = StatusOf(run[w].stage)
        /\ item'.messages # None
    BY <2>1, ItemFields
  <2>3. saved # {} => run[w].stage \in Terminal
    BY <2>1 DEF Fenced
  <2>4. \/ run[w].stage \in Terminal /\ run'[w].pc = "done"
        \/ /\ run[w].stage \notin Terminal /\ run'[w].pc = "work"
           /\ run'[w].stage = run[w].stage
    BY <2>1, RunFields
  <2>5. \A v \in Worker \ {w} : run'[v] = run[v] /\ ~Holding(v)
    BY <2>1 DEF Others, SingleRunner
  <2>6. run[w].stage \in Terminal \cup {"finalizing"} =>
          item'.status \notin {"queued", "running"}
    BY <2>2 DEF StatusOf, Terminal
  <2> QED BY <2>1, <2>2, <2>3, <2>4, <2>5, <2>6
          DEF Fenced, AtMostOneTurn, Holding, Alive, Ended
<1>5. ASSUME NEW w \in Worker, SaveTurn(w)
      PROVE  Fenced' /\ AtMostOneTurn'
  <2>1. /\ Others(w) /\ saved' = saved \cup {w} /\ item' = item
        /\ run[w].pc = "work" /\ run[w].stage = "finalizing" /\ Holding(w)
        /\ run'[w].pc = "complete"
    <3>1. Goto(w, "complete")
      BY <1>5 DEF SaveTurn
    <3> QED BY <1>5, <3>1, RunFields DEF SaveTurn, Holding, Alive, Ended
  <2>2. saved = {}
    BY <2>1 DEF Fenced
  <2>3. \A v \in Worker \ {w} : run'[v] = run[v] /\ ~Holding(v)
    BY <2>1 DEF Others, SingleRunner
  <2> QED BY <2>1, <2>2, <2>3 DEF Fenced, AtMostOneTurn, Holding, Alive, Ended
<1>6. ASSUME NEW w \in Worker, Complete(w) \/ Fail(w)
      PROVE  Fenced' /\ AtMostOneTurn'
  <2>1. /\ Others(w) /\ saved' = saved
        /\ item' = Completed(w) \/ item' = FailedBy(w)
        /\ run[w].pc \in {"complete", "fail"}
        /\ CallReport(w, "completed") \/ CallReport(w, "failed")
    BY <1>6, Phases, Zenon DEF WorkerStep, Complete, Fail
  <2>2. item'.status \in Terminal
    BY <2>1, ItemFields DEF Terminal
  <2>3. run'[w].pc = "report" /\ run'[w].stage \in Terminal
    BY <2>1, RunFields DEF Terminal
  <2>4. Holding(w)
    BY <2>1 DEF Holding, Alive, Ended
  <2>5. \A v \in Worker \ {w} : run'[v] = run[v] /\ ~Holding(v)
    BY <2>1, <2>4 DEF Others, SingleRunner
  <2> QED BY <2>1, <2>2, <2>3, <2>5
          DEF Fenced, AtMostOneTurn, Holding, Alive, Ended, Terminal
<1>7. CASE ApiStep \/ ApiStops
  <2>1. run' = run /\ saved' = saved
    BY <1>7 DEF ApiStep, ApiStops, CreateJob, Dispatch, DispatchFails,
                UndoDispatch
  <2>2. CASE CreateJob
    <3>1. \A w \in Worker : run[w].pc = "idle"
      BY <2>2 DEF CreateJob, Sent
    <3>2. saved = {}
      BY <3>1 DEF Fenced, TypeOK
    <3>3. item' = NewItem
      BY <2>2 DEF CreateJob
    <3>4. item'.messages # None
      BY <3>3, NewItemFields
    <3> QED BY <2>1, <3>1, <3>2, <3>4
            DEF Fenced, AtMostOneTurn, Holding, Alive, Ended
  <2>3. CASE UndoDispatch
    <3>1. item' = FailedByDispatch
      BY <2>3 DEF UndoDispatch
    <3>2. item'.status = "failed"
      BY <3>1, TargetType DEF FailedByDispatch, Item
    <3> QED BY <2>1, <3>2 DEF Fenced, AtMostOneTurn, Holding, Alive, Terminal
  <2>4. CASE Dispatch \/ DispatchFails \/ ApiStops
    <3>1. item' = item
      BY <2>4 DEF Dispatch, DispatchFails, ApiStops
    <3> QED BY <2>1, <3>1 DEF Fenced, AtMostOneTurn, Holding, Alive
  <2> QED BY <1>7, <2>2, <2>3, <2>4 DEF ApiStep
<1>8. CASE Duplicate \/ Replicate \/ Expire \/ Tick \/ UNCHANGED vars
  <2>1. run' = run /\ saved' = saved /\ (item' = item \/ item' = None)
    BY <1>8 DEF Duplicate, Replicate, Expire, Tick, vars
  <2> QED BY <2>1 DEF Fenced, AtMostOneTurn, Holding, Alive
<1> QED BY <1>1, <1>2, <1>3, <1>4, <1>5, <1>6, <1>7, <1>8
        DEF Next, WorkerStep

\* With a lease that outlasts the worker and a store that answers with
\* current data, one question leaves at most one turn in the chat history,
\* wherever the API handler or an invocation stops and however often the
\* event is delivered.
THEOREM OneTurn ==
  ASSUME LeaseSeconds >= WorkerTimeout,
         "store" \notin Faults, "stale" \notin Faults
  PROVE  Spec => []AtMostOneTurn
<1> DEFINE Inv == Sent /\ Fenced /\ AtMostOneTurn
<1>1. Init => Inv
  BY DEF Init, Sent, Fenced, AtMostOneTurn, Holding, Alive
<1>2. Inv /\ TypeOK /\ SingleRunner /\ SingleRunner' /\ [Next]_vars => Inv'
  BY SentStep, FencedStep
<1>3. Inv => AtMostOneTurn
  OBVIOUS
<1> QED BY <1>1, <1>2, <1>3, TypeCorrect, LeaseExcludes, PTL DEF Spec

-----------------------------------------------------------------------------
(* What is published was saved *)

\* No request but the last of an invocation writes a result.
LEMMA ResultFields ==
  ASSUME TypeOK
  PROVE  /\ NewItem.result = None
         /\ FailedByDispatch.result = Target.result
         /\ \A w \in Worker :
              /\ Completed(w).result = w
              /\ FailedBy(w).result = Target.result
              /\ Reported(w).result = Target.result
              /\ item # None => Claimed(w).result = item.result
         /\ Target.result = IF item = None THEN None ELSE item.result
<1>1. NewItem.result = None
  BY DEF NewItem
<1>2. Target.result = IF item = None THEN None ELSE item.result
  BY DEF Target, Bare
<1>3. FailedByDispatch.result = Target.result
  BY TargetType DEF FailedByDispatch, Item
<1>4. ASSUME NEW w \in Worker
      PROVE  /\ Completed(w).result = w
             /\ FailedBy(w).result = Target.result
             /\ Reported(w).result = Target.result
             /\ item # None => Claimed(w).result = item.result
  BY TargetType DEF TypeOK, Completed, FailedBy, Reported, Claimed, Item
<1> QED BY <1>1, <1>2, <1>3, <1>4

\* Every step preserves SavedFirst and ResultIsSaved.
LEMMA SavedStep ==
  ASSUME TypeOK, SavedFirst, ResultIsSaved, [Next]_vars
  PROVE  SavedFirst' /\ ResultIsSaved'
<1>1. ASSUME NEW w \in Worker, WorkerStep(w) \/ Stops(w)
      PROVE  SavedFirst' /\ ResultIsSaved'
  <2>1. Others(w)
    BY <1>1, Phases
  <2>2. saved \subseteq saved'
    BY <1>1 DEF WorkerStep, Begin, Claim, ReportRead, ReportWrite, Advance,
                Throw, SaveTurn, Complete, Fail, Stops
  <2>3. run'[w].pc = "complete" => w \in saved'
    <3>1. CASE SaveTurn(w)
      BY <3>1 DEF SaveTurn
    <3>2. CASE Begin(w) \/ ReportRead(w) \/ ReportWrite(w)
      BY <3>2, RunFields DEF ReportWrite
    <3>3. CASE Claim(w)
      BY <3>3, RunFields, DiesFields DEF Claim
    <3>4. CASE Advance(w) \/ Throw(w)
      BY <3>4, RunFields DEF Advance, Throw
    <3>5. CASE Complete(w) \/ Fail(w) \/ Stops(w)
      BY <3>5, RunFields, DiesFields DEF Complete, Fail, Stops
    <3> QED BY <1>1, <3>1, <3>2, <3>3, <3>4, <3>5 DEF WorkerStep
  <2>4. SavedFirst'
    BY <2>1, <2>2, <2>3 DEF SavedFirst, Others
  <2>5. \/ item' = item
        \/ item # None /\ item' = Claimed(w)
        \/ item' = Reported(w) \/ item' = FailedBy(w)
        \/ item' = Completed(w) /\ w \in saved
    BY <1>1 DEF WorkerStep, Begin, Claim, Claimable, ReportRead, ReportWrite, Advance,
                Throw, SaveTurn, Complete, Fail, Stops, SavedFirst
  <2>6. ResultIsSaved'
    BY <2>2, <2>5, ResultFields DEF ResultIsSaved
  <2> QED BY <2>4, <2>6
<1>2. CASE ApiStep \/ ApiStops
  <2>1. run' = run /\ saved' = saved
    BY <1>2 DEF ApiStep, ApiStops, CreateJob, Dispatch, DispatchFails,
                UndoDispatch
  <2>2. item' = item \/ item' = NewItem \/ item' = FailedByDispatch
    BY <1>2 DEF ApiStep, ApiStops, CreateJob, Dispatch, DispatchFails,
                UndoDispatch
  <2> QED BY <2>1, <2>2, ResultFields DEF SavedFirst, ResultIsSaved
<1>3. CASE Duplicate \/ Replicate \/ Expire \/ Tick \/ UNCHANGED vars
  BY <1>3 DEF Duplicate, Replicate, Expire, Tick, vars, SavedFirst, ResultIsSaved
<1> QED BY <1>1, <1>2, <1>3 DEF Next

\* Whatever fails, the answer shown on a job is in the chat history, so the next
\* question of the session can refer to it (persistAndBuildResponse before
\* markCompleted).
THEOREM ResultSaved == Spec => []ResultIsSaved
<1>1. Init => SavedFirst /\ ResultIsSaved
  BY DEF Init, SavedFirst, ResultIsSaved
<1>2. TypeOK /\ SavedFirst /\ ResultIsSaved /\ [Next]_vars
        => SavedFirst' /\ ResultIsSaved'
  BY SavedStep
<1> QED BY <1>1, <1>2, TypeCorrect, PTL DEF Spec

-----------------------------------------------------------------------------
(* The item outlives what may write to it *)

Kept(i, expiry) == i # None /\ i.request /\ i.messages # None /\ i.expiresAt = expiry

\* An update of an item that exists keeps its request and has messages.
LEMMA LifeFields ==
  ASSUME TypeOK
  PROVE  /\ Kept(NewItem, clock + TtlSeconds)
         /\ item # None /\ item.request /\ item.messages # None =>
              /\ Kept(FailedByDispatch, clock + TtlSeconds)
              /\ \A w \in Worker :
                   /\ Kept(Claimed(w), item.expiresAt)
                   /\ Kept(Reported(w), item.expiresAt)
                   /\ Kept(Completed(w), clock + TtlSeconds)
                   /\ Kept(FailedBy(w), clock + TtlSeconds)
<1>1. \A i \in Item : i # None
  BY AbsentAssumption
<1>2. Kept(NewItem, clock + TtlSeconds)
  BY <1>1, ItemType, NewItemFields DEF Kept, NewItem
<1>3. ASSUME item # None, item.request, item.messages # None
      PROVE  /\ Kept(FailedByDispatch, clock + TtlSeconds)
             /\ \A w \in Worker :
                  /\ Kept(Claimed(w), item.expiresAt)
                  /\ Kept(Reported(w), item.expiresAt)
                  /\ Kept(Completed(w), clock + TtlSeconds)
                  /\ Kept(FailedBy(w), clock + TtlSeconds)
  <2>1. item \in Item /\ Target = item
    BY <1>3 DEF TypeOK, Target
  <2>2. Kept(FailedByDispatch, clock + TtlSeconds)
    BY <1>1, <1>3, <2>1, ItemType DEF Kept, FailedByDispatch, Item
  <2>3. ASSUME NEW w \in Worker
        PROVE  /\ Kept(Completed(w), clock + TtlSeconds)
               /\ Kept(FailedBy(w), clock + TtlSeconds)
    <3>1. Kept(Completed(w), clock + TtlSeconds)
      BY <1>1, <1>3, <2>1, ItemType DEF Kept, Completed, Item
    <3>2. Kept(FailedBy(w), clock + TtlSeconds)
      BY <1>1, <1>3, <2>1, ItemType DEF Kept, FailedBy, Item
    <3> QED BY <3>1, <3>2
  <2>4. ASSUME NEW w \in Worker PROVE Kept(Claimed(w), item.expiresAt)
    BY <1>1, <1>3, <2>1, ItemType DEF Kept, Claimed, Item
  <2>5. ASSUME NEW w \in Worker PROVE Kept(Reported(w), item.expiresAt)
    <3>1. Reported(w).messages # None
      BY ItemFields
    <3>2. Reported(w).request = item.request /\ Reported(w).expiresAt = item.expiresAt
      BY <2>1 DEF Reported, Item
    <3> QED BY <1>1, <1>3, <3>1, <3>2, ItemType DEF Kept
  <2> QED BY <2>2, <2>3, <2>4, <2>5
<1> QED BY <1>2, <1>3

\* Every step preserves Lasting: whoever may still write to the item has begun
\* before it expires.
LEMMA LastingStep ==
  ASSUME TtlSeconds >= ApiTimeout + EventMaxAge + WorkerTimeout,
         TypeOK, Sent, Deadlines, Lasting, [Next]_vars
  PROVE  Lasting'
<1> USE ConstantsAssumption
<1>0. /\ clock \in Nat /\ api.at \in Nat /\ events.sentAt \in Nat
      /\ \A v \in Worker : run[v].begun \in Nat
      /\ item # None => item.expiresAt \in Nat
  BY DEF TypeOK, Run, Item
<1>1. ASSUME NEW w \in Worker, WorkerStep(w) \/ Stops(w) PROVE Lasting'
  <2>1. /\ Others(w) /\ UNCHANGED <<clock, api>>
        /\ events'.sent = events.sent /\ events'.sentAt = events.sentAt
    BY <1>1, Phases
  <2>2. LastWrite' = LastWrite
    BY <2>1 DEF LastWrite
  <2>3. events.sent /\ events.sentAt <= clock
    BY <1>1, Phases DEF Lasting, Sent
  <2>4. Alive(w)' => run'[w].begun <= events.sentAt + EventMaxAge
    BY <1>1, Phases DEF Lasting, Alive
  <2>5. \A v \in Worker : Alive(v)' => events'.sent
                                       /\ run'[v].begun <= events'.sentAt + EventMaxAge
    BY <2>1, <2>3, <2>4 DEF Lasting, Others, Alive
  <2>6. clock <= LastWrite
    <3>1. CASE run[w].pc = "idle"
      BY <1>0, <1>1, <3>1, Phases DEF LastWrite, Alive
    <3>2. CASE Alive(w)
      <4>1. /\ run[w].begun <= events.sentAt + EventMaxAge
            /\ clock <= run[w].begun + WorkerTimeout
        BY <3>2 DEF Lasting, Deadlines
      <4> QED BY <1>0, <4>1 DEF LastWrite
    <3> QED BY <1>1, <3>1, <3>2, Phases
  <2>7. /\ item # None /\ item.request /\ item.messages # None
        /\ item.expiresAt >= LastWrite
    BY <2>3, <2>6 DEF Lasting
  <2>8. \/ item' = item
        \/ item' \in {Claimed(w), Reported(w), Completed(w), FailedBy(w)}
    BY <1>1 DEF WorkerStep, Begin, Claim, ReportRead, ReportWrite, Advance,
                Throw, SaveTurn, Complete, Fail, Stops
  <2>9. /\ item' # None /\ item'.request /\ item'.messages # None
        /\ item'.expiresAt = item.expiresAt \/ item'.expiresAt = clock + TtlSeconds
    BY <2>7, <2>8, LifeFields DEF Kept
  <2>10. item'.expiresAt >= LastWrite
    BY <1>0, <2>3, <2>7, <2>9 DEF LastWrite
  <2>11. api.pc \in {"dispatch", "undo"} =>
           item'.expiresAt >= api.at + ApiTimeout + EventMaxAge + WorkerTimeout
    <3>1. api.pc \in {"dispatch", "undo"} =>
            /\ item.expiresAt >= api.at + ApiTimeout + EventMaxAge + WorkerTimeout
            /\ api.at <= clock
      BY DEF Lasting, Deadlines
    <3> QED BY <1>0, <2>9, <3>1
  <2> QED BY <2>1, <2>2, <2>3, <2>5, <2>9, <2>10, <2>11 DEF Lasting
<1>2. CASE CreateJob
  <2>1. /\ ~events.sent /\ events' = events /\ run' = run
        /\ \A v \in Worker : run[v].pc = "idle"
    BY <1>2 DEF CreateJob, Sent
  <2>2. item' # None => item'.request /\ item'.messages # None
    BY <1>2, LifeFields DEF CreateJob, Lasting, Kept
  <2>3. api'.pc \in {"dispatch", "undo"} =>
          /\ item' # None
          /\ item'.expiresAt >= api'.at + ApiTimeout + EventMaxAge + WorkerTimeout
    <3>1. CASE item' = NewItem /\ api' = [pc |-> "dispatch", at |-> clock]
      BY <1>0, <3>1, LifeFields DEF Kept
    <3>2. CASE api' = [pc |-> "rejected", at |-> clock]
      BY <3>2
    <3> QED BY <1>2, <3>1, <3>2 DEF CreateJob
  <2> QED BY <2>1, <2>2, <2>3 DEF Lasting, Alive
<1>3. CASE Dispatch \/ DispatchFails
  <2>1. /\ item' = item /\ run' = run /\ clock' = clock
        /\ api.pc = "dispatch" /\ api'.at = api.at
    BY <1>3 DEF Dispatch, DispatchFails, TypeOK
  <2>2. /\ item # None /\ clock <= api.at + ApiTimeout
        /\ item.expiresAt >= api.at + ApiTimeout + EventMaxAge + WorkerTimeout
    BY <2>1 DEF Lasting, Deadlines
  <2>3. CASE events' = events
    BY <2>1, <2>2, <2>3 DEF Lasting, LastWrite, Alive
  <2>4. CASE Accept
    <3>1. events'.sent /\ events'.sentAt = clock
      BY <2>4 DEF Accept
    <3>2. \A v \in Worker : Alive(v) => run[v].begun <= clock + EventMaxAge
      BY <1>0 DEF Deadlines
    <3>3. item.expiresAt >= clock + EventMaxAge + WorkerTimeout
      BY <1>0, <2>2
    <3> QED BY <1>0, <2>1, <2>2, <3>1, <3>2, <3>3 DEF Lasting, LastWrite, Alive
  <2> QED BY <1>3, <2>3, <2>4 DEF Dispatch, DispatchFails
<1>4. CASE UndoDispatch \/ ApiStops
  <2>1. /\ events' = events /\ run' = run /\ clock' = clock
        /\ api'.pc \notin {"dispatch", "undo"}
    BY <1>4 DEF UndoDispatch, ApiStops, TypeOK
  <2>2. item' = item \/ (item' = FailedByDispatch /\ item # None)
    BY <1>4 DEF UndoDispatch, ApiStops, Lasting
  <2>3. item' # None => item'.request /\ item'.messages # None
    BY <2>2, LifeFields DEF Lasting, Kept
  <2>4. events.sent /\ clock <= LastWrite => item' # None /\ item'.expiresAt >= LastWrite
    <3>1. events.sent => clock + TtlSeconds >= LastWrite
      BY <1>0 DEF Lasting, LastWrite
    <3> QED BY <2>2, <3>1, LifeFields DEF Lasting, Kept
  <2> QED BY <2>1, <2>3, <2>4 DEF Lasting, LastWrite, Alive
<1>5. CASE Expire
  <2>1. /\ clock > item.expiresAt /\ item # None /\ item' = None
        /\ UNCHANGED <<clock, api, events, run>>
    BY <1>5 DEF Expire
  <2>2. ~(events.sent /\ clock <= LastWrite)
    BY <1>0, <2>1 DEF Lasting, LastWrite
  <2>3. api.pc \notin {"dispatch", "undo"}
    BY <1>0, <2>1 DEF Lasting, Deadlines
  <2> QED BY <2>1, <2>2, <2>3 DEF Lasting, LastWrite, Alive
<1>6. CASE Tick
  <2>1. clock' = clock + 1 /\ UNCHANGED <<item, api, events, run>>
    BY <1>6 DEF Tick
  <2> QED BY <1>0, <2>1 DEF Lasting, LastWrite, Alive
<1>7. CASE Duplicate
  <2>1. /\ events'.sent = events.sent /\ events'.sentAt = events.sentAt
        /\ UNCHANGED <<clock, item, api, run>>
    BY <1>7 DEF Duplicate, TypeOK
  <2> QED BY <2>1 DEF Lasting, LastWrite, Alive
<1>8. CASE Replicate \/ UNCHANGED vars
  BY <1>8 DEF Replicate, vars, Lasting, LastWrite, Alive
<1> QED BY <1>1, <1>2, <1>3, <1>4, <1>5, <1>6, <1>7, <1>8 DEF Next, ApiStep

\* An item that lives longer than everything that may still write to it (the
\* handler, the queued event and the worker) is never recreated without its
\* request, whatever fails (CHAT_JOB_TTL_SECONDS; no update has a condition).
THEOREM NeverRecreated ==
  ASSUME TtlSeconds >= ApiTimeout + EventMaxAge + WorkerTimeout
  PROVE  Spec => []NeverBare
<1> DEFINE Inv == TypeOK /\ Sent /\ Deadlines /\ Lasting
<1>1. Init => Inv
  <2>1. Init => TypeOK
    BY DEF Init, TypeOK, Run, WorkerPc, Stage, ApiPc
  <2> QED BY <2>1 DEF Init, Sent, Deadlines, Lasting, Alive
<1>2. Inv /\ TypeOK' /\ [Next]_vars => Inv'
  BY SentStep, DeadlinesStep, LastingStep
<1>3. Inv => NeverBare
  BY DEF Lasting, NeverBare
<1> QED BY <1>1, <1>2, <1>3, TypeCorrect, PTL DEF Spec

-----------------------------------------------------------------------------
(* Progress *)

\* The ranks of the stages.
LEMMA RankValues ==
  /\ Rank["queued"] = 0 /\ Rank["loading_history"] = 1
  /\ Rank["loading_dashboard_context"] = 2 /\ Rank["planning"] = 3
  /\ Rank["running_mcp_tools"] = 4 /\ Rank["generating_answer"] = 5
  /\ Rank["finalizing"] = 6 /\ Rank["completed"] = 7 /\ Rank["failed"] = 7
BY Zenon DEF Rank, Stage, Terminal

\* Ranks are numbers, below 7 until a job has ended.
LEMMA RankType ==
  ASSUME NEW stage \in Stage
  PROVE  /\ Rank[stage] \in Nat
         /\ stage \notin Terminal => Rank[stage] < 7
         /\ stage \in Terminal => Rank[stage] = 7
BY RankValues DEF Stage, Terminal

\* The stage reported next is later than the one before.
LEMMA NextIsLater ==
  ASSUME NEW stage \in Stage, NEW next \in NextStages(stage)
  PROVE  /\ next \in Stage /\ next \notin Terminal
         /\ Rank[stage] < Rank[next]
<1>1. /\ NextStages("loading_history") \subseteq
           {"finalizing", "loading_dashboard_context"}
      /\ NextStages("loading_dashboard_context") = {"planning"}
      /\ NextStages("planning") = {"running_mcp_tools"}
      /\ NextStages("running_mcp_tools") \subseteq {"finalizing", "generating_answer"}
      /\ NextStages("generating_answer") = {"finalizing"}
  <2>1. NextStages("loading_history") \subseteq {"finalizing", "loading_dashboard_context"}
    BY Zenon DEF NextStages, If
  <2>2. NextStages("loading_dashboard_context") = {"planning"}
    BY Zenon DEF NextStages
  <2>3. NextStages("planning") = {"running_mcp_tools"}
    BY Zenon DEF NextStages
  <2>4. NextStages("running_mcp_tools") \subseteq {"finalizing", "generating_answer"}
    BY Zenon DEF NextStages, If
  <2>5. NextStages("generating_answer") = {"finalizing"}
    BY Zenon DEF NextStages
  <2> QED BY <2>1, <2>2, <2>3, <2>4, <2>5
<1>2. CASE stage \in {"loading_history", "loading_dashboard_context", "planning",
                     "running_mcp_tools", "generating_answer"}
  BY <1>1, <1>2, RankValues DEF Stage, Terminal
<1>3. CASE stage \notin {"loading_history", "loading_dashboard_context", "planning",
                        "running_mcp_tools", "generating_answer"}
  <2>1. NextStages(stage) = {}
    BY <1>3, Zenon DEF NextStages
  <2> QED BY <2>1
<1> QED BY <1>2, <1>3

\* The last entries of a list are entries of it, in the order it has them.
LEMMA LastOfEntries ==
  ASSUME NEW s \in Seq(Message)
  PROVE  \E d \in Nat :
           \A i \in DOMAIN LastOf(s) : /\ i + d \in DOMAIN s
                                       /\ LastOf(s)[i] = s[i + d]
<1>1. CASE Len(s) <= MessageLimit
  <2>1. LastOf(s) = s
    BY <1>1 DEF LastOf
  <2>2. \A i \in DOMAIN s : i + 0 = i
    OBVIOUS
  <2> WITNESS 0 \in Nat
  <2> QED BY <2>1, <2>2
<1>2. CASE ~(Len(s) <= MessageLimit)
  <2> DEFINE d == Len(s) - MessageLimit
  <2>1. d \in Nat
    BY <1>2, ConstantsAssumption
  <2>2. LastOf(s) = SubSeq(s, d + 1, Len(s))
    BY <1>2 DEF LastOf
  <2>3. Len(s) \in Nat /\ MessageLimit \in Nat \ {0}
    BY ConstantsAssumption
  <2>4. \A i \in 1..MessageLimit : i + d \in 1..Len(s)
    BY <2>1, <2>3
  <2>5. DOMAIN SubSeq(s, d + 1, Len(s)) = 1..MessageLimit
    BY <2>1, <2>3, SubSeqProperties
  <2>6. \A i \in 1..MessageLimit : SubSeq(s, d + 1, Len(s))[i] = s[i + d]
    BY <2>1, <2>3, <2>4, SubSeqProperties
  <2>7. \A i \in DOMAIN LastOf(s) : i + d \in DOMAIN s /\ LastOf(s)[i] = s[i + d]
    BY <2>1, <2>2, <2>4, <2>5, <2>6
  <2> HIDE DEF d
  <2> WITNESS d \in Nat
  <2> QED BY <2>7
<1> QED BY <1>1, <1>2

\* Lists are of messages.
LEMMA ListsType ==
  ASSUME TypeOK
  PROVE  MessageLists \subseteq Seq(Message)
BY DEF TypeOK, MessageLists, Spreadable, Item, Run

\* How far an invocation may move in one step, as far as its reports go.
MovesOn(w) ==
  \/ run'[w].pc \in Ended
  \/ run[w].pc \in {"idle", "claim"}
  \/ /\ run[w].pc \in {"report", "write"} /\ run'[w].pc \in {"report", "write", "work"}
     /\ run'[w].stage = run[w].stage
  \/ /\ run[w].pc \in {"work", "complete", "fail"}
     /\ run'[w].pc \in {"work", "complete", "fail"}
     /\ run'[w].stage = run[w].stage
  \/ /\ run[w].pc \in {"work", "complete", "fail"} /\ run'[w].pc = "report"
     /\ Rank[run[w].stage] < Rank[run'[w].stage]

\* Between reports no invocation is at a last stage.
Working == {"idle", "claim", "work", "complete", "fail"}

\* An invocation that moves on stays ahead of every list it has not added to.
LEMMA AheadStays ==
  ASSUME TypeOK, NEW w \in Worker, Others(w), MovesOn(w), run'[w].stage \in Stage,
         run'[w].pc \in {"idle", "claim"} => run[w].pc \in {"idle", "claim"},
         NEW s \in Seq(Message), NotAhead(s)
  PROVE  NotAhead(s)'
<1> SUFFICES ASSUME NEW i \in DOMAIN s, NEW v \in Worker, s[i].by = v
             PROVE  /\ run'[v].pc \notin {"idle", "claim"}
                    /\ run'[v].pc \in {"report", "write"} =>
                         Rank[s[i].stage] < Rank[run'[v].stage]
                    /\ run'[v].pc \in {"work", "complete", "fail"} =>
                         Rank[s[i].stage] <= Rank[run'[v].stage]
  BY DEF NotAhead
<1>1. s[i].stage \in Stage /\ run[w].stage \in Stage
  <2>1. s[i] \in Message
    OBVIOUS
  <2>2. run[w] \in Run
    BY DEF TypeOK
  <2> QED BY <2>1, <2>2 DEF Run, Message
<1>2. /\ Rank[s[i].stage] \in Nat /\ Rank[run[w].stage] \in Nat
      /\ Rank[run'[w].stage] \in Nat
  BY <1>1, RankType
<1>3. CASE v # w
  <2>1. run'[v] = run[v]
    BY <1>3 DEF Others
  <2>2. /\ run[v].pc \notin {"idle", "claim"}
        /\ run[v].pc \in {"report", "write"} =>
             Rank[s[i].stage] < Rank[run[v].stage]
        /\ run[v].pc \in {"work", "complete", "fail"} =>
             Rank[s[i].stage] <= Rank[run[v].stage]
    BY DEF NotAhead
  <2> QED BY <2>1, <2>2
<1>4. CASE v = w
  BY <1>2, <1>4 DEF MovesOn, NotAhead, Ended
<1> QED BY <1>3, <1>4

\* What an invocation spreads into its next report is in order and not ahead.
LEMMA ReportInOrder ==
  ASSUME TypeOK, InStep, NEW w \in Worker, run[w].pc = "write",
         Others(w), run'[w].pc \in {"done", "work"},
         NEW stage, stage = run[w].stage, run'[w].pc = "work" => run'[w].stage = stage,
         NEW s, s = run[w].seen
  PROVE  LET new == LastOf(Append(s, [by |-> w, stage |-> stage]))
         IN InOrder(new) /\ NotAhead(new)'
<1> DEFINE m == [by |-> w, stage |-> stage]
           t == Append(s, m)
           new == LastOf(t)
<1>1. s \in Seq(Message) /\ stage \in Stage
  BY DEF TypeOK, Run
<1>2. m \in Message
  BY <1>1 DEF Message
<1>3. /\ t \in Seq(Message) /\ DOMAIN t = 1..Len(s) + 1
      /\ \A i \in 1..Len(s) : t[i] = s[i]
      /\ t[Len(s) + 1] = m
  BY <1>1, <1>2
<1>4. s \in MessageLists
  BY DEF MessageLists
<1>5. InOrder(s) /\ NotAhead(s)
  BY <1>4 DEF InStep
<1>6. \A i \in 1..Len(s) : s[i].by = w => Rank[s[i].stage] < Rank[stage]
  BY <1>1, <1>5 DEF NotAhead
<1>7. InOrder(t)
  <2> SUFFICES ASSUME NEW i \in 1..Len(s) + 1, NEW j \in 1..Len(s) + 1,
                      i < j, t[i].by = t[j].by
               PROVE  Rank[t[i].stage] < Rank[t[j].stage]
    BY <1>3 DEF InOrder
  <2>1. Len(s) \in Nat
    BY <1>1
  <2>2. i \in 1..Len(s)
    BY <2>1
  <2>3. CASE j \in 1..Len(s)
    BY <1>1, <1>3, <1>5, <2>2, <2>3 DEF InOrder
  <2>4. CASE j = Len(s) + 1
    BY <1>3, <1>6, <2>2, <2>4
  <2> QED BY <2>1, <2>3, <2>4
<1>8. NotAhead(t)'
  <2> SUFFICES ASSUME NEW i \in 1..Len(s) + 1, NEW v \in Worker, t[i].by = v
               PROVE  /\ run'[v].pc \notin {"idle", "claim"}
                      /\ run'[v].pc \in {"report", "write"} =>
                           Rank[t[i].stage] < Rank[run'[v].stage]
                      /\ run'[v].pc \in {"work", "complete", "fail"} =>
                           Rank[t[i].stage] <= Rank[run'[v].stage]
    BY <1>3 DEF NotAhead
  <2>1. Rank[stage] \in Nat
    BY <1>1, RankType
  <2>2. CASE i = Len(s) + 1
    BY <1>3, <2>1, <2>2
  <2>3. CASE i \in 1..Len(s)
    <3>1. s[i].by = v /\ t[i] = s[i] /\ i \in DOMAIN s
      BY <1>1, <1>3, <2>3
    <3>2. CASE v # w
      BY <1>5, <3>1, <3>2 DEF NotAhead, Others
    <3>3. CASE v = w
      <4>1. s[i] \in Message
        BY <1>1, <3>1
      <4>2. Rank[s[i].stage] \in Nat
        BY <4>1, RankType DEF Message
      <4>3. Rank[s[i].stage] < Rank[stage]
        BY <1>6, <2>3, <3>1, <3>3
      <4>4. Rank[t[i].stage] <= Rank[stage]
        BY <2>1, <3>1, <4>2, <4>3
      <4> HIDE DEF t
      <4> QED BY <3>3, <4>4
    <3> QED BY <3>2, <3>3
  <2>4. Len(s) \in Nat
    BY <1>1
  <2> QED BY <2>2, <2>3, <2>4
<1>9. PICK d \in Nat : \A i \in DOMAIN new : i + d \in DOMAIN t /\ new[i] = t[i + d]
  BY <1>3, LastOfEntries
<1>10. \A i, j \in DOMAIN new : i < j => i + d < j + d
  <2>1. new \in Seq(Message)
    BY <1>3, LastOfType
  <2>2. DOMAIN new \subseteq Nat
    BY <2>1
  <2> QED BY <2>2
<1>11. InOrder(new)
  <2> HIDE DEF t, new
  <2> QED BY <1>7, <1>9, <1>10 DEF InOrder
<1>12. NotAhead(new)'
  <2> HIDE DEF t
  <2> QED BY <1>8, <1>9 DEF NotAhead
<1> QED BY <1>11, <1>12

\* Only reports add to the messages of an item.
LEMMA MessageFields ==
  ASSUME TypeOK
  PROVE  /\ FailedByDispatch.messages = Target.messages
         /\ \A w \in Worker :
              /\ Completed(w).messages = Target.messages
              /\ FailedBy(w).messages = Target.messages
              /\ item # None => Claimed(w).messages = item.messages
              /\ Reported(w).messages =
                   LastOf(Append(run[w].seen, [by |-> w, stage |-> run[w].stage]))
         /\ Target.messages = IF item = None THEN None ELSE item.messages
<1>1. Target.messages = IF item = None THEN None ELSE item.messages
  BY DEF Target, Bare
<1>2. FailedByDispatch.messages = Target.messages
  BY TargetType DEF FailedByDispatch, Item
<1>3. ASSUME NEW w \in Worker
      PROVE  /\ Completed(w).messages = Target.messages
             /\ FailedBy(w).messages = Target.messages
             /\ item # None => Claimed(w).messages = item.messages
             /\ Reported(w).messages =
                  LastOf(Append(run[w].seen, [by |-> w, stage |-> run[w].stage]))
  <2>1. Completed(w).messages = Target.messages
    BY TargetType DEF Completed, Item
  <2>2. FailedBy(w).messages = Target.messages
    BY TargetType DEF FailedBy, Item
  <2>3. item # None => Claimed(w).messages = item.messages
    BY DEF TypeOK, Claimed, Item
  <2>4. Reported(w).messages =
          LastOf(Append(run[w].seen, [by |-> w, stage |-> run[w].stage]))
    BY TargetType DEF Reported, Item
  <2> QED BY <2>1, <2>2, <2>3, <2>4
<1> QED BY <1>1, <1>2, <1>3

\* What an invocation has read is what some copy of the item tells.
LEMMA SeenField ==
  ASSUME TypeOK, NEW w \in Worker, WorkerStep(w) \/ Stops(w)
  PROVE  run'[w].seen \in MessageLists \cup {<<>>}
<1> USE DEF TypeOK, Run
<1>1. run[w].seen \in MessageLists
  BY DEF MessageLists
<1>2. \A pc : Goto(w, pc) => run'[w].seen = run[w].seen
  BY DEF Goto
<1>3. \A pc : End(w, pc) => run'[w].seen = <<>>
  BY DEF End
<1>4. \A stage : CallReport(w, stage) => run'[w].seen = run[w].seen
  BY DEF CallReport
<1>5. ReportReturns(w) => run'[w].seen = <<>>
  <2>1. ASSUME run' = [run EXCEPT ![w] = [@ EXCEPT !.pc = "work", !.lease = 0,
                                                   !.seen = <<>>]]
        PROVE  run'[w].seen = <<>>
    BY <2>1
  <2> QED BY <1>3, <2>1, Zenon DEF ReportReturns
<1>6. Dies(w) => run'[w].seen = <<>>
  BY <1>3 DEF Dies
<1>7. CASE Begin(w)
  BY <1>1, <1>7 DEF Begin
<1>8. CASE Claim(w)
  BY <1>1, <1>2, <1>3, <1>4, <1>6, <1>8, Zenon DEF Claim
<1>9. CASE ReportRead(w)
  <2>1. ASSUME NEW copy \in View, Spreadable(copy),
               run' = [run EXCEPT ![w] = [@ EXCEPT !.pc = "write",
                                                   !.seen = copy.messages]]
        PROVE  run'[w].seen \in MessageLists
    <3>1. run'[w].seen = copy.messages
      BY <2>1
    <3>2. copy \in {item, replica}
      BY <2>1 DEF View
    <3> QED BY <2>1, <3>1, <3>2 DEF MessageLists
  <2> QED BY <1>5, <1>9, <2>1, Zenon DEF ReportRead
<1>10. CASE ReportWrite(w)
  BY <1>5, <1>10, Zenon DEF ReportWrite
<1>11. CASE Advance(w) \/ Throw(w) \/ SaveTurn(w)
  BY <1>1, <1>2, <1>4, <1>11, Zenon DEF Advance, Throw, SaveTurn
<1>12. CASE Complete(w) \/ Fail(w) \/ Stops(w)
  BY <1>1, <1>2, <1>4, <1>6, <1>12, Zenon DEF Complete, Fail, Stops
<1> QED BY <1>7, <1>8, <1>9, <1>10, <1>11, <1>12 DEF WorkerStep

\* An invocation reports later stages only.
LEMMA InvocationsMoveOn ==
  ASSUME TypeOK, InStep, NEW w \in Worker, WorkerStep(w) \/ Stops(w)
  PROVE  /\ MovesOn(w)
         /\ run'[w].pc \in {"idle", "claim"} => run[w].pc \in {"idle", "claim"}
         /\ run'[w].pc \in {"idle", "claim", "work", "complete", "fail"} =>
              run'[w].stage \notin Terminal
<1>1. /\ run[w].stage \in Stage
      /\ run[w].pc \in {"idle", "claim", "work", "complete", "fail"} =>
           run[w].stage \notin Terminal
  BY DEF TypeOK, Run, InStep
<1> USE DEF MovesOn
<1>2. CASE Begin(w)
  BY <1>1, <1>2, RunFields DEF Begin
<1>3. CASE Claim(w)
  BY <1>1, <1>3, RunFields, DiesFields DEF Claim, Ended, Terminal
<1>4. CASE ReportRead(w)
  BY <1>1, <1>4, RunFields DEF ReportRead, Ended
<1>5. CASE ReportWrite(w)
  BY <1>1, <1>5, RunFields DEF ReportWrite, Ended
<1>6. CASE Advance(w)
  <2>1. PICK stage \in NextStages(run[w].stage) : CallReport(w, stage)
    BY <1>6 DEF Advance
  <2>2. Rank[run[w].stage] < Rank[stage]
    BY <1>1, NextIsLater
  <2> QED BY <1>6, <2>1, <2>2, RunFields DEF Advance
<1>7. CASE Throw(w) \/ SaveTurn(w)
  BY <1>1, <1>7, RunFields DEF Throw, SaveTurn
<1>8. CASE Complete(w) \/ Fail(w)
  <2>1. run[w].pc \in {"complete", "fail"} /\ run[w].stage \notin Terminal
    BY <1>1, <1>8 DEF Complete, Fail
  <2>2. Rank[run[w].stage] < Rank["completed"] /\ Rank[run[w].stage] < Rank["failed"]
    BY <1>1, <2>1, RankType, RankValues
  <2>3. CASE CallReport(w, "completed") \/ CallReport(w, "failed")
    BY <2>1, <2>2, <2>3, RunFields
  <2>4. CASE Goto(w, "fail") /\ run[w].pc = "complete"
    BY <2>1, <2>4, RunFields
  <2>5. CASE Dies(w)
    BY <2>5, DiesFields DEF Ended
  <2> QED BY <1>8, <2>3, <2>4, <2>5, Zenon DEF Complete, Fail
<1>9. CASE Stops(w)
  BY <1>9, DiesFields DEF Stops, Ended
<1> QED BY <1>2, <1>3, <1>4, <1>5, <1>6, <1>7, <1>8, <1>9 DEF WorkerStep

\* Every step preserves InStep.
LEMMA InStepStep ==
  ASSUME TypeOK, TypeOK', InStep, [Next]_vars
  PROVE  InStep'
<1>1. ASSUME NEW w \in Worker, WorkerStep(w) \/ Stops(w) PROVE InStep'
  <2>1. /\ Others(w) /\ MovesOn(w) /\ run'[w].stage \in Stage
        /\ run'[w].pc \in {"idle", "claim"} => run[w].pc \in {"idle", "claim"}
        /\ run'[w].pc \in {"idle", "claim", "work", "complete", "fail"} =>
             run'[w].stage \notin Terminal
    <3>1. run'[w].stage \in Stage
      BY DEF TypeOK, Run
    <3> QED BY <1>1, <3>1, Phases, InvocationsMoveOn
  <2>2. \A v \in Worker :
          run'[v].pc \in {"idle", "claim", "work", "complete", "fail"} =>
            run'[v].stage \notin Terminal
    BY <2>1 DEF Others, InStep
  <2>3. \A s \in MessageLists : InOrder(s) /\ NotAhead(s)'
    BY <2>1, AheadStays, ListsType DEF InStep
  <2>4. InOrder(<<>>) /\ NotAhead(<<>>)'
    BY DEF InOrder, NotAhead
  <2>5. Spreadable(item') =>
          \/ item'.messages \in MessageLists
          \/ /\ ReportWrite(w)
             /\ item'.messages =
                  LastOf(Append(run[w].seen, [by |-> w, stage |-> run[w].stage]))
    <3>1. \/ item' = item
          \/ item # None /\ item' = Claimed(w)
          \/ item' = Completed(w) \/ item' = FailedBy(w)
          \/ item' = Reported(w) /\ ReportWrite(w)
      BY <1>1 DEF WorkerStep, Begin, Claim, Claimable, ReportRead, ReportWrite, Advance,
                  Throw, SaveTurn, Complete, Fail, Stops
    <3> QED BY <3>1, MessageFields DEF MessageLists, Spreadable
  <2>6. replica' = replica
    BY <1>1 DEF WorkerStep, Begin, Claim, ReportRead, ReportWrite, Advance,
                Throw, SaveTurn, Complete, Fail, Stops
  <2>7. \A s \in MessageLists' :
          \/ s \in MessageLists \cup {<<>>}
          \/ Spreadable(item') /\ s = item'.messages
    <3> SUFFICES ASSUME NEW s \in MessageLists'
                 PROVE  \/ s \in MessageLists \cup {<<>>}
                        \/ Spreadable(item') /\ s = item'.messages
      OBVIOUS
    <3>1. \/ Spreadable(item') /\ s = item'.messages
          \/ Spreadable(replica) /\ s = replica.messages
          \/ \E v \in Worker : s = run'[v].seen
      BY <2>6 DEF MessageLists, Spreadable
    <3>2. CASE Spreadable(replica) /\ s = replica.messages
      BY <3>2 DEF MessageLists
    <3>3. CASE \E v \in Worker : s = run'[v].seen
      <4>1. PICK v \in Worker : s = run'[v].seen
        BY <3>3
      <4>2. CASE v = w
        BY <1>1, <4>1, <4>2, SeenField
      <4>3. CASE v # w
        BY <2>1, <4>1, <4>3 DEF Others, MessageLists
      <4> QED BY <4>2, <4>3
    <3> QED BY <3>1, <3>2, <3>3
  <2>8. \A s \in MessageLists' : InOrder(s) /\ NotAhead(s)'
    <3>1. CASE ReportWrite(w)
      <4>1. PICK seen, stage : seen = run[w].seen /\ stage = run[w].stage
        OBVIOUS
      <4>2. /\ run[w].pc = "write" /\ run'[w].pc \in {"done", "work"}
            /\ run'[w].pc = "work" => run'[w].stage = stage
        BY <3>1, <4>1, RunFields DEF ReportWrite
      <4>3. /\ InOrder(LastOf(Append(seen, [by |-> w, stage |-> stage])))
            /\ NotAhead(LastOf(Append(seen, [by |-> w, stage |-> stage])))'
        BY <2>1, <4>1, <4>2, ReportInOrder
      <4>4. \A s \in MessageLists' :
              \/ s \in MessageLists \cup {<<>>}
              \/ s = LastOf(Append(seen, [by |-> w, stage |-> stage]))
        BY <2>5, <2>7, <4>1
      <4> QED BY <2>3, <2>4, <4>3, <4>4
    <3>2. CASE ~ReportWrite(w)
      <4>1. \A s \in MessageLists' : s \in MessageLists \cup {<<>>}
        BY <2>5, <2>7, <3>2
      <4> QED BY <2>3, <2>4, <4>1
    <3> QED BY <3>1, <3>2
  <2> QED BY <2>2, <2>8 DEF InStep, InOrder
<1>2. ASSUME UNCHANGED run,
             \A s \in MessageLists' : s \in MessageLists \/ s = NewItem.messages
      PROVE  InStep'
  <2>1. NewItem.messages = <<[by |-> None, stage |-> "queued"]>>
    BY DEF NewItem
  <2>2. PICK first : first = <<[by |-> None, stage |-> "queued"]>>
    OBVIOUS
  <2>3. InOrder(first)
    BY <2>2 DEF InOrder
  <2>4. NotAhead(first)'
    BY <2>2, ConstantsAssumption DEF NotAhead
  <2>5. \A s \in MessageLists : InOrder(s) /\ NotAhead(s)'
    BY <1>2 DEF InStep, NotAhead
  <2>6. \A s \in MessageLists' : InOrder(s) /\ NotAhead(s)'
    BY <1>2, <2>1, <2>2, <2>3, <2>4, <2>5
  <2> QED BY <1>2, <2>6 DEF InStep, InOrder
<1>3. CASE ApiStep \/ ApiStops
  <2>1. run' = run /\ replica' = replica
    BY <1>3 DEF ApiStep, ApiStops, CreateJob, Dispatch, DispatchFails,
                UndoDispatch
  <2>2. item' = item \/ item' = NewItem \/ item' = FailedByDispatch
    BY <1>3 DEF ApiStep, ApiStops, CreateJob, Dispatch, DispatchFails,
                UndoDispatch
  <2>3. Spreadable(item') => \/ item'.messages \in MessageLists
                             \/ item'.messages = NewItem.messages
    BY <2>2, MessageFields DEF MessageLists, Spreadable
  <2>4. \A s \in MessageLists' : s \in MessageLists \/ s = NewItem.messages
    BY <2>1, <2>3 DEF MessageLists, Spreadable
  <2> QED BY <1>2, <2>1, <2>4
<1>4. CASE Duplicate \/ Replicate \/ Expire \/ Tick \/ UNCHANGED vars
  <2>1. run' = run /\ item' \in {item, None} /\ replica' \in {item, replica}
    BY <1>4 DEF Duplicate, Replicate, Expire, Tick, vars
  <2>2. \A s \in MessageLists' : s \in MessageLists
    BY <2>1 DEF MessageLists, Spreadable
  <2> QED BY <1>2, <2>1, <2>2
<1> QED BY <1>1, <1>3, <1>4 DEF Next

\* The progress a poller is shown never runs backwards for an invocation,
\* whatever requests fail, deliveries overlap or reads lag (updateProgress
\* spreads what it has read and writes without a condition).
THEOREM ProgressOrdered == Spec => []ProgressInOrder
<1>1. Init => InStep
  <2> SUFFICES ASSUME Init PROVE InStep
    OBVIOUS
  <2>1. \A s \in MessageLists : s = <<>>
    BY DEF Init, MessageLists, Spreadable
  <2>2. InOrder(<<>>) /\ NotAhead(<<>>)
    BY DEF InOrder, NotAhead
  <2>3. \A w \in Worker : run[w].stage \notin Terminal
    BY DEF Init, Terminal
  <2> QED BY <2>1, <2>2, <2>3 DEF InStep
<1>2. TypeOK /\ TypeOK' /\ InStep /\ [Next]_vars => InStep'
  BY InStepStep
<1>3. InStep => ProgressInOrder
  <2> SUFFICES ASSUME InStep, item # None, item.messages # None
               PROVE  InOrder(item.messages)
    BY DEF ProgressInOrder, InOrder
  <2>1. item.messages \in MessageLists
    BY DEF MessageLists, Spreadable
  <2> QED BY <2>1 DEF InStep
<1> QED BY <1>1, <1>2, <1>3, TypeCorrect, PTL DEF Spec

-----------------------------------------------------------------------------
(* The job implements its lifecycle *)

Reliable == Faults \cap {"store", "stale", "invoke"} = {}

\* Under an item that outlives its writers, an invocation that runs finds it.
LEMMA Present ==
  ASSUME TypeOK, Sent, Deadlines, Lasting, NEW w \in Worker, Alive(w)
  PROVE  /\ item # None /\ item.request /\ item.messages # None
         /\ clock <= item.expiresAt
<1>1. /\ events.sent /\ run[w].begun <= events.sentAt + EventMaxAge
      /\ clock <= run[w].begun + WorkerTimeout
  BY DEF Lasting, Deadlines
<1>2. clock <= LastWrite
  BY <1>1, ConstantsAssumption DEF TypeOK, Run, LastWrite
<1>3. item # None /\ item.expiresAt \in Nat /\ item.expiresAt >= LastWrite
  BY <1>1, <1>2 DEF Lasting, TypeOK, Item
<1>4. clock \in Nat /\ LastWrite \in Nat
  BY ConstantsAssumption DEF TypeOK, LastWrite
<1> QED BY <1>2, <1>3, <1>4 DEF Lasting

\* How an invocation that holds the job moves, and the status with it.
Follows(w) ==
  \/ /\ item' = item /\ saved' = saved
     /\ ~Holding(w)'
  \/ /\ item.status \in {"queued", "running"} /\ item'.status = "running"
     /\ saved' = saved
     /\ run'[w].pc = "report" /\ run'[w].stage = "loading_history"
  \/ /\ run[w].pc = "report" /\ run'[w].pc = "write"
     /\ run'[w].stage = run[w].stage
     /\ item' = item /\ saved' = saved
  \/ /\ run[w].pc = "write" /\ saved' = saved
     /\ item'.status = StatusOf(run[w].stage)
     /\ \/ run[w].stage \in Terminal /\ run'[w].pc = "done"
        \/ /\ run[w].stage \notin Terminal
           /\ run'[w].pc = "work" /\ run'[w].stage = run[w].stage
  \/ /\ run[w].pc = "work" /\ run[w].stage # "finalizing"
     /\ run'[w].pc = "report" /\ run'[w].stage \notin Terminal
     /\ item' = item /\ saved' = saved
  \/ /\ run[w].pc = "work" /\ run'[w].pc = "fail"
     /\ item' = item /\ saved' = saved
  \/ /\ run[w].pc = "work" /\ run[w].stage = "finalizing"
     /\ run'[w].pc = "complete"
     /\ item' = item /\ saved' = saved \cup {w}
  \/ /\ run[w].pc = "complete" /\ item'.status = "completed" /\ saved' = saved
     /\ run'[w].pc = "report" /\ run'[w].stage = "completed"
  \/ /\ run[w].pc = "fail" /\ item'.status = "failed" /\ saved' = saved
     /\ run'[w].pc = "report" /\ run'[w].stage = "failed"

\* Every step of an invocation follows one of these moves.
LEMMA FollowsStep ==
  ASSUME Reliable, TypeOK, Sent, Deadlines, Lasting, Tracked,
         NEW w \in Worker, WorkerStep(w) \/ Stops(w)
  PROVE  Follows(w) /\ (item = None => item' = None)
<1> USE DEF Reliable
<1>1. CASE Begin(w) \/ Stops(w)
  <2>1. item' = item /\ saved' = saved
    BY <1>1 DEF Begin, Stops
  <2>2. ~Holding(w)'
    BY <1>1, RunFields, DiesFields DEF Stops, Holding, Alive
  <2> QED BY <2>1, <2>2 DEF Follows
<1>2. CASE ~(Begin(w) \/ Stops(w))
  <2>1. Alive(w)
    BY <1>2 DEF WorkerStep, Claim, ReportRead, ReportWrite, Advance, Throw,
                SaveTurn, Complete, Fail, Alive, Ended
  <2>2. item # None /\ item.request /\ item.messages # None
    BY <2>1, Present
  <2>3. CASE Claim(w)
    <3>1. CASE End(w, "skipped") /\ item' = item
      BY <2>3, <3>1, RunFields DEF Claim, Follows, Holding, Alive, Ended
    <3>2. CASE item' = Claimed(w) /\ CallReport(w, "loading_history")
               /\ item.status \in {"queued", "running"}
      <4>1. item'.status = "running"
        BY <2>2, <3>2 DEF Claimed, TypeOK, Item
      <4> QED BY <2>2, <2>3, <3>2, <4>1, RunFields DEF Claim, Follows
    <3> QED BY <2>2, <2>3, <3>1, <3>2 DEF Claim, Claimable
  <2>4. CASE ReportRead(w)
    <3>1. \E copy \in {item} :
            run' = [run EXCEPT ![w] = [@ EXCEPT !.pc = "write",
                                                !.seen = copy.messages]]
      BY <2>2, <2>4 DEF ReportRead, View, Spreadable
    <3>2. run'[w].pc = "write" /\ run'[w].stage = run[w].stage
      BY <3>1 DEF TypeOK, Run
    <3> QED BY <2>2, <2>4, <3>2 DEF ReportRead, Follows
  <2>5. CASE ReportWrite(w)
    <3>1. item'.status = StatusOf(run[w].stage)
      BY <2>5, ItemFields DEF ReportWrite
    <3> QED BY <2>2, <2>5, <3>1, RunFields DEF ReportWrite, Follows
  <2>6. CASE Advance(w)
    <3>1. PICK stage \in NextStages(run[w].stage) : CallReport(w, stage)
      BY <2>6 DEF Advance
    <3>2. stage \notin Terminal /\ run[w].stage # "finalizing"
      BY <3>1 DEF NextStages, If, Terminal
    <3> QED BY <2>2, <2>6, <3>1, <3>2, RunFields DEF Advance, Follows
  <2>7. CASE Throw(w)
    BY <2>2, <2>7, RunFields DEF Throw, Follows
  <2>8. CASE SaveTurn(w)
    BY <2>2, <2>8, RunFields DEF SaveTurn, Follows
  <2>9. CASE Complete(w)
    BY <2>2, <2>9, RunFields, ItemFields DEF Complete, Follows
  <2>10. CASE Fail(w)
    BY <2>2, <2>10, RunFields, ItemFields DEF Fail, Follows
  <2> QED BY <1>2, <2>3, <2>4, <2>5, <2>6, <2>7, <2>8, <2>9, <2>10 DEF WorkerStep
<1> QED BY <1>1, <1>2

\* Every step preserves Tracked while one invocation holds the job.
LEMMA TrackedStep ==
  ASSUME Reliable, TypeOK, Sent, Deadlines, Lasting, SingleRunner,
         SingleRunner', Tracked, [Next]_vars
  PROVE  Tracked'
<1>1. ASSUME NEW w \in Worker, WorkerStep(w) \/ Stops(w) PROVE Tracked'
  <2>1. Others(w) /\ api' = api
    BY <1>1, Phases
  <2>2. Follows(w) /\ (item = None => item' = None)
    BY <1>1, FollowsStep
  <2>3. CASE Holding(w)'
    <3>1. \A v \in Worker : Holding(v)' => v = w
      BY <2>3 DEF SingleRunner
    <3>2. /\ run'[w].pc \in {"report", "write"} =>
               item'.status = IF run'[w].stage \in Terminal THEN run'[w].stage
                              ELSE "running"
          /\ run'[w].pc = "work" => /\ run'[w].stage \notin Terminal
                                    /\ item'.status = StatusOf(run'[w].stage)
          /\ run'[w].pc = "complete" => item'.status = "finalizing"
          /\ run'[w].pc = "fail" => item'.status \in {"running", "finalizing"}
      BY <2>2, <2>3 DEF Follows, Tracked, Holding, Alive, Ended, StatusOf, Terminal
    <3> QED BY <2>1, <2>2, <3>1, <3>2 DEF Tracked
  <2>4. CASE ~Holding(w)'
    <3>1. \A v \in Worker : Holding(v)' => v # w /\ Holding(v)
      BY <2>1, <2>4 DEF Others, Holding, Alive
    <3>2. item' = item \/ Holding(w)
      BY <2>2, <2>4 DEF Follows, Holding, Alive, Ended
    <3>3. Holding(w) => \A v \in Worker : ~Holding(v)'
      BY <3>1 DEF SingleRunner
    <3> QED BY <2>1, <2>2, <3>1, <3>2, <3>3 DEF Tracked, Others
  <2> QED BY <2>3, <2>4
<1>2. CASE CreateJob
  <2>1. /\ run' = run /\ api'.pc \in {"dispatch", "rejected"}
        /\ \A w \in Worker : run[w].pc = "idle"
    BY <1>2 DEF CreateJob, Sent
  <2> QED BY <2>1 DEF Tracked, Holding, Alive
<1>3. CASE Dispatch \/ DispatchFails \/ UndoDispatch \/ ApiStops
  <2>1. /\ run' = run /\ item' = item /\ api'.pc \in {"accepted", "lost"}
    BY <1>3 DEF Reliable, Tracked, TypeOK, Dispatch, DispatchFails, UndoDispatch,
                ApiStops
  <2> QED BY <2>1 DEF Tracked, Holding, Alive
<1>4. CASE Expire
  <2>1. \A w \in Worker : ~Alive(w)
    BY <1>4, Present DEF Expire, TypeOK, Item
  <2>2. run' = run /\ api' = api /\ item' = None
    BY <1>4 DEF Expire
  <2> QED BY <2>1, <2>2 DEF Tracked, Holding, Alive
<1>5. CASE Duplicate \/ Replicate \/ Tick \/ UNCHANGED vars
  <2>1. run' = run /\ api' = api /\ item' = item
    BY <1>5 DEF Duplicate, Replicate, Tick, vars
  <2> QED BY <2>1 DEF Tracked, Holding, Alive
<1> QED BY <1>1, <1>2, <1>3, <1>4, <1>5 DEF Next, ApiStep

\* Every step is a step of the lifecycle, or leaves it alone.
LEMMA LifecycleStep ==
  ASSUME Reliable, TypeOK, TypeOK', Sent, Deadlines, Lasting, Fenced, SavedFirst,
         Tracked, [Next]_vars
  PROVE  [Lifecycle!Next]_<<Phase, saved # {}>>
<1> USE DEF Lifecycle!Next, Lifecycle!Create, Lifecycle!TakeUp, Lifecycle!Finalize,
            Lifecycle!Record, Lifecycle!Publish, Lifecycle!GiveUp, Lifecycle!Expire,
            Lifecycle!Open
<1>0. item # None => item.status \in Status
  BY DEF TypeOK, Item
<1>1. ASSUME NEW w \in Worker, WorkerStep(w) \/ Stops(w)
      PROVE  [Lifecycle!Next]_<<Phase, saved # {}>>
  <2>1. Follows(w) /\ (item = None => item' = None) /\ api' = api
    BY <1>1, FollowsStep, Phases
  <2>2. CASE Alive(w)
    <3>1. item # None
      BY <2>2, Present
    <3>2. Phase = item.status
      BY <3>1 DEF Phase
    <3>3. item' # None /\ Phase' = item'.status
      BY <1>1, <3>1, ItemType, AbsentAssumption
         DEF WorkerStep, Begin, Claim, ReportRead, ReportWrite, Advance, Throw,
             SaveTurn, Complete, Fail, Stops, Phase
    <3>4. CASE Holding(w)
      <4>1. /\ run[w].pc \in {"report", "write"} =>
                 item.status = IF run[w].stage \in Terminal THEN run[w].stage
                               ELSE "running"
            /\ run[w].pc = "work" => item.status = StatusOf(run[w].stage)
            /\ run[w].pc = "complete" => item.status = "finalizing"
            /\ run[w].pc = "fail" => item.status \in {"running", "finalizing"}
        BY <3>4 DEF Tracked
      <4>2. run[w].pc = "work" => saved = {}
        BY <3>4 DEF Fenced
      <4>3. run[w].pc = "complete" => saved # {}
        BY DEF SavedFirst
      <4> QED BY <2>1, <3>2, <3>3, <4>1, <4>2, <4>3 DEF Follows, StatusOf, Terminal
    <3>5. CASE ~Holding(w)
      <4>1. run[w].pc = "claim"
        BY <2>2, <3>5 DEF Holding
      <4> QED BY <2>1, <3>2, <3>3, <4>1 DEF Follows
    <3> QED BY <3>4, <3>5
  <2>3. CASE ~Alive(w)
    <3>1. Begin(w)
      BY <1>1, <2>3 DEF WorkerStep, Claim, ReportRead, ReportWrite, Advance, Throw,
                        SaveTurn, Complete, Fail, Stops, Alive, Ended
    <3> QED BY <3>1 DEF Begin, Phase
  <2> QED BY <2>2, <2>3
<1>2. CASE CreateJob
  <2>1. /\ api.pc = "idle" /\ item = None /\ item' = NewItem /\ saved' = saved
    BY <1>2 DEF CreateJob, Tracked, Reliable
  <2>2. item' # None /\ item'.status = "queued"
    BY <2>1, ItemType, AbsentAssumption DEF NewItem
  <2> QED BY <2>1, <2>2 DEF Phase
<1>3. CASE Dispatch \/ DispatchFails \/ UndoDispatch \/ ApiStops
  <2>1. /\ item' = item /\ saved' = saved
        /\ api.pc # "idle" /\ api'.pc # "idle"
    BY <1>3 DEF Reliable, Tracked, TypeOK, Dispatch, DispatchFails, UndoDispatch,
                ApiStops
  <2> QED BY <2>1 DEF Phase
<1>4. CASE Expire
  <2>1. /\ item # None /\ item' = None /\ UNCHANGED <<api, saved>> /\ api.pc # "idle"
    BY <1>4 DEF Expire, Tracked
  <2>2. Phase \in Status /\ Phase' = "gone"
    BY <1>0, <2>1 DEF Phase
  <2> QED BY <2>1, <2>2 DEF Status
<1>5. CASE Duplicate \/ Replicate \/ Tick \/ UNCHANGED vars
  BY <1>5 DEF Duplicate, Replicate, Tick, vars, Phase
<1> QED BY <1>1, <1>2, <1>3, <1>4, <1>5 DEF Next, ApiStep

\* With a lease that outlasts the worker, an item that outlives its writers and
\* services that answer with current data, the job implements its lifecycle: its
\* status only moves forward, its answer is published after its turn is
\* recorded, and nothing reopens a settled job (processChatJob, whose requests
\* after the claim have no condition).
THEOREM JobImplementsLifecycle ==
  ASSUME LeaseSeconds >= WorkerTimeout,
         TtlSeconds >= ApiTimeout + EventMaxAge + WorkerTimeout,
         Faults \cap {"store", "stale", "invoke"} = {}
  PROVE  Spec => ImplementsLifecycle
<1> DEFINE Inv == /\ TypeOK /\ Sent /\ Deadlines /\ Leased /\ SingleRunner
                  /\ Fenced /\ AtMostOneTurn /\ Lasting
                  /\ SavedFirst /\ ResultIsSaved /\ Tracked
<1>1. Init => Inv
  <2>1. Init => TypeOK
    BY DEF Init, TypeOK, Run, WorkerPc, Stage, ApiPc
  <2> QED BY <2>1 DEF Init, Sent, Deadlines, Leased, SingleRunner, Holding, Alive,
                      Fenced, AtMostOneTurn, Lasting, SavedFirst, ResultIsSaved,
                      Tracked
<1>2. Reliable
  BY DEF Reliable
<1>3. Inv /\ TypeOK' /\ [Next]_vars => Inv'
  <2> SUFFICES ASSUME Inv, TypeOK', [Next]_vars PROVE Inv'
    OBVIOUS
  <2>1. Sent' /\ Deadlines' /\ Leased' /\ SingleRunner'
    BY SentStep, DeadlinesStep, LeasedStep
  <2>2. Fenced' /\ AtMostOneTurn'
    BY <1>2, <2>1, FencedStep DEF Reliable
  <2>3. Lasting' /\ SavedFirst' /\ ResultIsSaved'
    BY LastingStep, SavedStep
  <2>4. Tracked'
    BY <1>2, <2>1, TrackedStep
  <2> QED BY <2>1, <2>2, <2>3, <2>4
<1>4. Init => Lifecycle!Init
  BY DEF Init, Lifecycle!Init, Phase
<1>5. Inv /\ TypeOK' /\ [Next]_vars => [Lifecycle!Next]_<<Phase, saved # {}>>
  BY <1>2, LifecycleStep
<1> QED BY <1>1, <1>3, <1>4, <1>5, TypeCorrect, PTL
        DEF Spec, ImplementsLifecycle, Lifecycle!Spec
=============================================================================
