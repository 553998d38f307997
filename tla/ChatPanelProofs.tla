--------------------------- MODULE ChatPanelProofs ---------------------------
(***************************************************************************)
(* Proofs about ChatPanel, for any number of questions and of sessions and *)
(* for every combination of faults, and about NotionPanel, for any         *)
(* deployments and any number of attempts and readings.                    *)
(***************************************************************************)
EXTENDS MCChatPanel, FiniteSets, FiniteSetTheorems, SequenceTheorems, TLAPS

-----------------------------------------------------------------------------
(* Types *)

PanelState == [loading : BOOLEAN, error : BOOLEAN,
               job : Question \cup {None}, draft : Question \cup {None}]
EffectState == [gen : Nat, job : Question \cup {None}, session : Session,
                timer : BOOLEAN]
PollState == [gen : Nat, job : Question, session : Session,
              answer : Answer \cup {None}]
SendState == [pc : {"idle", "resolving", "posting", "created", "refused"},
              session : Session]
JobState == [phase : Phase, recorded : BOOLEAN, by : Session]

\* What a step relies on to name a job: a timer belongs to one, and whoever
\* sends a question has asked one.
Named ==
  /\ effect.timer => effect.job # None
  /\ send.pc # "idle" => asked > 0

TypeInv == TypeOK /\ Named

\* What the server does to a job leaves well-formed jobs.
LEMMA SetJobType ==
  ASSUME TypeOK, NEW q \in Question, NEW by \in Session, SetJob(q, by)
  PROVE  jobs' \in [Question -> JobState]
<1>1. PICK phase \in Phase, recorded \in BOOLEAN :
        jobs' = [jobs EXCEPT ![q] = [phase |-> phase, recorded |-> recorded,
                                     by |-> by]]
  BY DEF SetJob
<1>2. [phase |-> phase, recorded |-> recorded, by |-> by] \in JobState
  BY DEF JobState
<1>3. jobs \in [Question -> JobState]
  BY DEF TypeOK, JobState
<1> QED BY <1>1, <1>2, <1>3

\* The panel starts well formed.
LEMMA InitType == Init => TypeInv
<1> SUFFICES ASSUME Init PROVE TypeInv
  OBVIOUS
<1>1. 0 \in Session
  BY ConstantsAssumption DEF Session
<1>2. panel \in PanelState /\ send \in SendState /\ effect \in EffectState
  BY <1>1 DEF Init, Mounted, Idle, NoEffect, PanelState, SendState, EffectState
<1>3. [phase |-> "none", recorded |-> FALSE, by |-> 0] \in JobState
  BY <1>1 DEF JobState, Phase
<1>4. jobs \in [Question -> JobState]
  BY <1>3 DEF Init
<1>5. asked \in 0..MaxQuestions /\ session \in Session
  BY ConstantsAssumption DEF Init
<1>6. messages \in Seq(Message) /\ polls = {} /\ save = None
  BY DEF Init
<1>7. TypeOK
  BY <1>2, <1>4, <1>5, <1>6
     DEF TypeOK, PanelState, SendState, EffectState, JobState
<1>8. Named
  BY DEF Init, NoEffect, Idle, Named
<1> QED BY <1>7, <1>8 DEF TypeInv

\* Every step keeps the panel, its requests and its jobs well formed.
LEMMA StepType == TypeInv /\ [Next]_vars => TypeInv'
<1> SUFFICES ASSUME TypeOK, Named, [Next]_vars PROVE TypeOK' /\ Named'
  BY DEF TypeInv
<1> USE DEF PanelState, EffectState, PollState, SendState
<1>a. /\ panel \in PanelState /\ effect \in EffectState
      /\ polls \subseteq PollState /\ send \in SendState
      /\ jobs \in [Question -> JobState] /\ save \in Question \cup {None}
      /\ messages \in Seq(Message) /\ asked \in 0..MaxQuestions
      /\ session \in Session
  BY DEF TypeOK, JobState
<1>b. ASSUME /\ panel' \in PanelState /\ effect' \in EffectState
             /\ polls' \subseteq PollState /\ send' \in SendState
             /\ jobs' \in [Question -> JobState] /\ save' \in Question \cup {None}
             /\ messages' \in Seq(Message) /\ asked' \in 0..MaxQuestions
             /\ session' \in Session
      PROVE  TypeOK'
  BY <1>b DEF TypeOK, JobState
<1>c. 0 \in Session
  BY ConstantsAssumption DEF Session
<1>1. CASE Send
  <2>1. asked + 1 \in Question /\ asked + 1 \in 0..MaxQuestions
    BY <1>1, <1>a, ConstantsAssumption DEF Send, Question
  <2>2. [role |-> "user", question |-> asked + 1] \in Message
    BY <2>1 DEF Message
  <2>3. messages' \in Seq(Message)
    BY <1>1, <1>a, <2>2 DEF Send
  <2>4. panel' \in PanelState /\ send' \in SendState
    BY <1>1, <1>a DEF Send
  <2>5. asked' > 0 /\ asked' \in 0..MaxQuestions
    BY <1>1, <2>1, <1>a DEF Send
  <2> QED BY <1>1, <1>a, <1>b, <2>3, <2>4, <2>5 DEF Send, Named
<1>2. CASE ResolveContext
  <2>1. send' \in SendState
    BY <1>2, <1>a DEF ResolveContext
  <2> QED BY <1>2, <1>a, <1>b, <2>1 DEF ResolveContext, Named
<1>3. ASSUME NEW q \in Question, PostServed(q) \/ DispatchFails(q)
      PROVE  TypeOK' /\ Named'
  <2>1. jobs' \in [Question -> JobState]
    BY <1>3, <1>a, SetJobType DEF PostServed, DispatchFails
  <2>2. send' \in SendState
    BY <1>3, <1>a DEF PostServed, DispatchFails
  <2> QED BY <1>3, <1>a, <1>b, <2>1, <2>2 DEF PostServed, DispatchFails, Named
<1>4. CASE SendReturns \/ SendFails
  <2>1. send.pc # "idle" /\ asked \in Question
    BY <1>4, <1>a DEF SendReturns, SendFails, Named, Question
  <2>2. panel' \in PanelState
    BY <1>4, <1>a, <2>1 DEF SendReturns, SendFails
  <2>3. send' \in SendState /\ send'.pc = "idle"
    BY <1>4, <1>c DEF SendReturns, SendFails, Idle
  <2> QED BY <1>4, <1>a, <1>b, <2>2, <2>3 DEF SendReturns, SendFails, Named
<1>5. CASE RunEffect
  <2>1. CASE panel.job = None
    <3>1. effect' = NoEffect(effect.gen) /\ polls' = polls
      BY <1>5, <2>1, Zenon DEF RunEffect
    <3>2. effect' \in EffectState /\ ~effect'.timer
      BY <3>1, <1>a, <1>c DEF NoEffect
    <3> QED BY <1>5, <1>a, <1>b, <3>1, <3>2 DEF RunEffect, Named
  <2>2. CASE panel.job # None
    <3>0. effect' = [gen |-> effect.gen + 1, job |-> panel.job,
                     session |-> session, timer |-> FALSE]
      BY <1>5, <2>2, Zenon DEF RunEffect
    <3>1. effect' \in EffectState /\ ~effect'.timer
      BY <3>0, <2>2, <1>a
    <3>2. Request(effect.gen + 1, panel.job, session) \in PollState
      BY <2>2, <1>a DEF Request
    <3>3. polls' \subseteq PollState
      BY <1>5, <2>2, <1>a, <3>2 DEF RunEffect
    <3> QED BY <1>5, <1>a, <1>b, <3>1, <3>3 DEF RunEffect, Named
  <2> QED BY <2>1, <2>2
<1>6. CASE TimerFires
  <2>1. effect' \in EffectState /\ ~effect'.timer
    BY <1>6, <1>a DEF TimerFires
  <2>2. Request(effect.gen, effect.job, effect.session) \in PollState
    BY <1>6, <1>a DEF TimerFires, Named, Request
  <2>3. polls' \subseteq PollState
    BY <1>6, <1>a, <2>2 DEF TimerFires
  <2> QED BY <1>6, <1>a, <1>b, <2>1, <2>3 DEF TimerFires, Named
<1>7. ASSUME NEW p \in polls, PollServed(p) PROVE TypeOK' /\ Named'
  <2>1. PICK answer \in Answers(p) :
          polls' = (polls \ {p}) \cup {[p EXCEPT !.answer = answer]}
    BY <1>7, Zenon DEF PollServed
  <2>2. p \in PollState /\ p.job \in Question
    BY <1>a
  <2>3. jobs[p.job].phase \in Phase
    BY <1>a, <2>2 DEF JobState
  <2>4. answer \in Answer
    BY <2>3, <2>1 DEF Answers, Answer, Phase
  <2>6. [p EXCEPT !.answer = answer] \in PollState
    BY <2>2, <2>4
  <2>7. polls' \subseteq PollState
    BY <2>1, <2>6, <1>a
  <2> QED BY <1>7, <1>a, <1>b, <2>7 DEF PollServed, Named
<1>8. ASSUME NEW p \in polls, PollReturns(p) PROVE TypeOK' /\ Named'
  <2>1. p \in PollState /\ p.job \in Question /\ polls' \subseteq PollState
    BY <1>8, <1>a DEF PollReturns
  <2>2. CASE ShowAnswer(p)
    <3>1. messages' \in Seq(Message)
      <4>1. [role |-> "assistant", question |-> p.job] \in Message
        BY <2>1 DEF Message
      <4> QED BY <2>2, <1>a, <4>1 DEF ShowAnswer
    <3>2. panel' \in PanelState
      BY <2>2, <2>1 DEF ShowAnswer
    <3> QED BY <1>8, <2>2, <1>a, <1>b, <2>1, <3>1, <3>2
            DEF PollReturns, ShowAnswer, Named
  <2>3. CASE GiveUp
    <3>1. panel' \in PanelState
      BY <2>3, <1>a DEF GiveUp
    <3> QED BY <1>8, <2>3, <1>a, <1>b, <2>1, <3>1
            DEF PollReturns, GiveUp, Named
  <2>4. CASE Heeded(p) /\ PollAgain(p)
    <3>1. panel' \in PanelState
      BY <2>4, <1>a DEF PollAgain
    <3>2. effect' \in EffectState /\ effect'.job # None
      BY <2>4, <1>a DEF PollAgain, Heeded
    <3> QED BY <1>8, <2>4, <1>a, <1>b, <2>1, <3>1, <3>2
            DEF PollReturns, PollAgain, Named
  <2>5. CASE UNCHANGED <<messages, panel, effect>>
    BY <1>8, <2>5, <1>a, <1>b, <2>1 DEF PollReturns, Named
  <2> QED BY <1>8, <2>2, <2>3, <2>4, <2>5 DEF PollReturns
<1>9. CASE SaveDraft \/ SaveReturns \/ CancelDraft
  <2>1. panel' \in PanelState /\ save' \in Question \cup {None}
    BY <1>9, <1>a DEF SaveDraft, SaveReturns, CancelDraft
  <2> QED BY <1>9, <1>a, <1>b, <2>1
          DEF SaveDraft, SaveReturns, CancelDraft, Named
<1>10. CASE SignIn
  BY <1>10, <1>a, <1>b DEF SignIn, Named
<1>11. CASE Reload
  <2>1. panel' \in PanelState /\ effect' \in EffectState /\ send' \in SendState
    BY <1>11, <1>c DEF Reload, Mounted, NoEffect, Idle
  <2>2. ~effect'.timer /\ send'.pc = "idle"
    BY <1>11 DEF Reload, NoEffect, Idle
  <2>3. session' \in Session
    BY <1>11, <1>a, <1>c DEF Reload
  <2>4. messages' \in Seq(Message) /\ polls' = {} /\ save' = None
    BY <1>11 DEF Reload
  <2> QED BY <1>11, <1>a, <1>b, <2>1, <2>2, <2>3, <2>4 DEF Reload, Named
<1>12. ASSUME NEW q \in Question, JobStep(q) PROVE TypeOK' /\ Named'
  <2>1. jobs[q].by \in Session
    BY <1>a DEF JobState
  <2>2. jobs' \in [Question -> JobState]
    BY <1>12, <2>1, SetJobType DEF JobStep
  <2> QED BY <1>12, <1>a, <1>b, <2>2 DEF JobStep, Named
<1>13. CASE UNCHANGED vars
  BY <1>13, <1>a, <1>b DEF vars, Named
<1> QED BY <1>1, <1>2, <1>3, <1>4, <1>5, <1>6, <1>7, <1>8, <1>9, <1>10, <1>11,
           <1>12, <1>13 DEF Next, SendStep

\* The panel's state, its requests and its jobs stay well formed; above all,
\* no timer outlives the job it polls and no answer arms one for no job.
THEOREM TypeCorrect == Spec => []TypeOK
<1>1. Spec => []TypeInv
  BY InitType, StepType, PTL DEF Spec
<1>2. TypeInv => TypeOK
  BY DEF TypeInv
<1> QED BY <1>1, <1>2, PTL

-----------------------------------------------------------------------------
(* One question at a time *)

Panelful == Turns /\ Awaited /\ OnePoll

\* The types of the variables, in the form the steps below use them.
LEMMA Basics ==
  ASSUME TypeInv
  PROVE  /\ panel \in PanelState /\ effect \in EffectState
         /\ send \in SendState /\ polls \subseteq PollState
         /\ asked \in Nat /\ session \in Nat /\ effect.gen \in Nat
         /\ effect.session \in Nat
         /\ \A q \in Question : q \in Nat /\ q > 0 /\ q # None
         /\ messages \in Seq(Message) /\ Len(messages) \in Nat
<1>1. messages \in Seq(Message) /\ Len(messages) \in Nat
  BY DEF TypeInv, TypeOK
<1>2. \A q \in Question : q \in Nat /\ q > 0 /\ q # None
  BY ConstantsAssumption DEF Question
<1>3. asked \in Nat /\ session \in Nat
  BY ConstantsAssumption DEF TypeInv, TypeOK, Session
<1>4. effect.gen \in Nat /\ effect.session \in Nat
  BY ConstantsAssumption DEF TypeInv, TypeOK, Session
<1> QED BY <1>1, <1>2, <1>3, <1>4
        DEF TypeInv, TypeOK, PanelState, EffectState, SendState, PollState

\* A heeded answer is to a question the panel awaits, and nothing is sent.
LEMMA HeededAwaited ==
  ASSUME TypeInv, Panelful, NEW p \in polls, Heeded(p)
  PROVE  /\ p.job \in Question /\ p.job = asked /\ p.job # None
         /\ panel.job = p.job /\ effect.job = p.job
         /\ panel.loading /\ send.pc = "idle" /\ panel.draft = None
         /\ ~effect.timer
<1>1. p.job \in Question /\ p.job # None
  BY Basics DEF PollState
<1>2. p.job = effect.job /\ p.job = panel.job /\ ~effect.timer
  BY DEF Panelful, OnePoll
<1> QED BY <1>1, <1>2 DEF Panelful, Turns, Awaited

\* The panel starts with nothing asked and nothing under way.
LEMMA PanelfulInit == Init => Panelful
<1> SUFFICES ASSUME Init PROVE Panelful
  OBVIOUS
<1>1. /\ panel = Mounted /\ send = Idle /\ effect = NoEffect(0) /\ polls = {}
      /\ session \in Nat
  BY ConstantsAssumption DEF Init, Session
<1>2. ~panel.loading /\ panel.job = None /\ panel.draft = None
  BY <1>1 DEF Mounted
<1>3. send.pc = "idle"
  BY <1>1 DEF Idle
<1>4. effect.job = None /\ ~effect.timer /\ effect.session = 0
  BY <1>1 DEF NoEffect
<1>5. Turns
  BY <1>2, <1>3 DEF Turns
<1>6. Awaited
  BY <1>2, <1>3, <1>4 DEF Awaited
<1>7. OnePoll
  BY <1>1, <1>4 DEF OnePoll
<1> QED BY <1>5, <1>6, <1>7 DEF Panelful

\* Sending keeps the panel on one question.
LEMMA PanelfulSend ==
  ASSUME TypeInv, Panelful, Send \/ SendStep
  PROVE  Panelful'
<1>1. CASE Send
  <2>1. ~panel.loading /\ session' = session /\ effect' = effect /\ polls' = polls
    BY <1>1 DEF Send, Locked
  <2>2. send.pc = "idle" /\ panel.job = None
    BY <2>1 DEF Panelful, Turns
  <2>3. panel'.loading /\ panel'.job = None /\ panel'.draft = None
    BY <1>1 DEF Send
  <2>4. send'.pc = "resolving" /\ asked' = asked + 1
    BY <1>1 DEF Send
  <2>5. messages' = Append(messages, [role |-> "user", question |-> asked + 1])
    BY <1>1 DEF Send
  <2>6. /\ messages' # <<>>
        /\ messages'[Len(messages')] = [role |-> "user", question |-> asked']
    BY <2>4, <2>5, Basics
  <2>7. ~effect.timer /\ \A p \in polls : ~Heeded(p)
    <3>1. ASSUME NEW p \in polls, Heeded(p) PROVE FALSE
      BY <3>1, <2>2, HeededAwaited
    <3>2. ~effect.timer
      BY <2>2 DEF Panelful, OnePoll
    <3> QED BY <3>1, <3>2
  <2>8. Turns'
    BY <2>3, <2>4 DEF Turns
  <2>9. Awaited'
    <3>1. effect.job # None => effect.job <= asked /\ effect.job \in Nat
      BY Basics DEF Panelful, Awaited, EffectState
    <3> QED BY <2>1, <2>3, <2>4, <2>6, <3>1, Basics DEF Awaited
  <2>10. OnePoll'
    BY <2>1, <2>7 DEF OnePoll, Heeded, Panelful
  <2> QED BY <2>8, <2>9, <2>10 DEF Panelful
<1>2. ASSUME ResolveContext \/ \E q \in Question : PostServed(q) \/ DispatchFails(q)
      PROVE  Panelful'
  <2>1. /\ UNCHANGED <<messages, asked, panel, session, effect, polls>>
        /\ send.pc # "idle" /\ send'.pc # "idle"
    BY <1>2, Basics DEF ResolveContext, PostServed, DispatchFails, SendState
  <2> QED BY <2>1 DEF Panelful, Turns, Awaited, OnePoll, Heeded
<1>3. CASE SendReturns
  <2>1. /\ UNCHANGED <<messages, asked, session, effect, polls>>
        /\ send.pc = "created" /\ send' = Idle
    BY <1>3 DEF SendReturns
  <2>2. /\ panel'.job = asked /\ panel'.loading = panel.loading
        /\ panel'.draft = panel.draft
    BY <1>3, Basics DEF SendReturns, PanelState
  <2>3. panel.loading /\ panel.job = None /\ asked # None
    BY <2>1, Basics, ConstantsAssumption DEF Panelful, Turns
  <2>4. ~effect.timer /\ \A p \in polls : ~Heeded(p)
    <3>1. ASSUME NEW p \in polls, Heeded(p) PROVE FALSE
      BY <3>1, <2>3, HeededAwaited
    <3>2. ~effect.timer
      BY <2>3 DEF Panelful, OnePoll
    <3> QED BY <3>1, <3>2
  <2>5. send'.pc = "idle"
    BY <2>1 DEF Idle
  <2>6. Turns'
    BY <2>2, <2>3, <2>5 DEF Turns, Panelful
  <2>7. Awaited'
    BY <2>1, <2>2, <2>3, <2>5 DEF Awaited, Panelful
  <2>8. OnePoll'
    BY <2>1, <2>4 DEF OnePoll, Heeded, Panelful
  <2> QED BY <2>6, <2>7, <2>8 DEF Panelful
<1>4. CASE SendFails
  <2>1. /\ UNCHANGED <<messages, asked, session, effect, polls>>
        /\ send.pc # "idle" /\ send' = Idle
    BY <1>4 DEF SendFails
  <2>2. /\ panel'.job = panel.job /\ panel'.draft = panel.draft
        /\ ~panel'.loading
    BY <1>4, Basics DEF SendFails, PanelState
  <2>3. panel.job = None
    BY <2>1 DEF Panelful, Turns
  <2>4. send'.pc = "idle"
    BY <2>1 DEF Idle
  <2>5. Turns'
    BY <2>2, <2>3, <2>4 DEF Turns
  <2>6. Awaited'
    BY <2>1, <2>2, <2>3, <2>4 DEF Awaited, Panelful
  <2>7. OnePoll'
    BY <2>1, <2>2 DEF OnePoll, Heeded, Panelful
  <2> QED BY <2>5, <2>6, <2>7 DEF Panelful
<1> QED BY <1>1, <1>2, <1>3, <1>4 DEF SendStep

\* Polling keeps at most one request of the present run under way.
LEMMA PanelfulPoll ==
  ASSUME TypeInv, Panelful,
         \/ RunEffect \/ TimerFires
         \/ \E p \in polls : PollServed(p) \/ PollReturns(p)
  PROVE  Panelful'
<1>1. ASSUME UNCHANGED <<messages, asked, panel, send>>, effect'.job = effect.job
      PROVE  Turns' /\ Awaited'
  BY <1>1 DEF Panelful, Turns, Awaited
<1>2. CASE RunEffect
  <2>1. UNCHANGED <<messages, asked, panel, session, send>>
    BY <1>2 DEF RunEffect
  <2>2. Turns'
    BY <2>1 DEF Panelful, Turns
  <2>3. CASE panel.job = None
    <3>1. effect' = NoEffect(effect.gen) /\ polls' = polls
      BY <1>2, <2>3, Zenon DEF RunEffect
    <3>2. /\ effect'.gen = effect.gen /\ effect'.job = None
          /\ effect'.session = 0 /\ ~effect'.timer
      BY <3>1 DEF NoEffect
    <3>3. Awaited'
      BY <2>1, <3>2 DEF Panelful, Awaited
    <3>4. OnePoll'
      BY <2>1, <3>1, <3>2, Basics DEF Panelful, OnePoll, Heeded
    <3> QED BY <2>2, <3>3, <3>4 DEF Panelful
  <2>4. CASE panel.job # None
    <3> DEFINE r == Request(effect.gen + 1, panel.job, session)
    <3>1. effect' = [gen |-> effect.gen + 1, job |-> panel.job,
                     session |-> session, timer |-> FALSE]
      BY <1>2, <2>4, Zenon DEF RunEffect
    <3>2. polls' = polls \cup {r}
      BY <1>2, <2>4, Zenon DEF RunEffect
    <3>3. /\ effect'.gen = effect.gen + 1 /\ effect'.job = panel.job
          /\ effect'.session = session /\ ~effect'.timer
      BY <3>1
    <3>4. r.gen = effect.gen + 1 /\ r.job = panel.job
      BY DEF Request
    <3>5. Awaited'
      BY <2>1, <2>4, <3>3, Basics DEF Panelful, Awaited, Turns
    <3>6. \A p \in polls : p.gen \in Nat /\ p.gen <= effect.gen
      BY Basics DEF Panelful, OnePoll, PollState
    <3>7. \A p \in polls : ~(Heeded(p))' /\ p.gen <= effect'.gen
      BY <3>3, <3>6, Basics DEF Heeded
    <3> HIDE DEF r
    <3>8. OnePoll'
      BY <2>1, <3>2, <3>3, <3>4, <3>7, Basics DEF OnePoll
    <3> QED BY <2>2, <3>5, <3>8 DEF Panelful
  <2> QED BY <2>3, <2>4
<1>3. CASE TimerFires
  <2> DEFINE r == Request(effect.gen, effect.job, effect.session)
  <2>1. UNCHANGED <<messages, asked, panel, session, send>> /\ effect.timer
    BY <1>3 DEF TimerFires
  <2>2. polls' = polls \cup {r}
    BY <1>3 DEF TimerFires
  <2>3. /\ effect'.gen = effect.gen /\ effect'.job = effect.job
        /\ effect'.session = effect.session /\ ~effect'.timer
    BY <1>3, Basics DEF TimerFires, EffectState
  <2>4. \A p \in polls : ~Heeded(p)
    BY <2>1 DEF Panelful, OnePoll
  <2>5. effect.job # None /\ effect.job = panel.job
    BY <2>1 DEF Panelful, OnePoll
  <2>6. r.gen = effect.gen /\ r.job = effect.job
    BY DEF Request
  <2> HIDE DEF r
  <2>7. \A p \in polls : p.gen <= effect.gen /\ ~(Heeded(p))'
    BY <2>3, <2>4 DEF Panelful, OnePoll, Heeded
  <2>8. OnePoll'
    BY <2>1, <2>2, <2>3, <2>5, <2>6, <2>7, Basics DEF OnePoll, Panelful
  <2> QED BY <1>1, <2>1, <2>3, <2>8 DEF Panelful
<1>4. ASSUME NEW p \in polls, PollServed(p) PROVE Panelful'
  <2>1. UNCHANGED <<messages, asked, panel, session, effect, send>>
    BY <1>4 DEF PollServed
  <2>2. PICK answer \in Answers(p) :
          polls' = (polls \ {p}) \cup {[p EXCEPT !.answer = answer]}
    BY <1>4, Zenon DEF PollServed
  <2> DEFINE r == [p EXCEPT !.answer = answer]
  <2>3. r.gen = p.gen /\ r.job = p.job
    BY Basics DEF PollState
  <2>4. polls' = (polls \ {p}) \cup {r}
    BY <2>2
  <2> HIDE DEF r
  <2>5. \A s : (Heeded(s))' <=> Heeded(s)
    BY <2>1 DEF Heeded
  <2>6. Heeded(r) <=> Heeded(p)
    BY <2>3 DEF Heeded
  <2>7. OnePoll'
    BY <2>1, <2>3, <2>4, <2>5, <2>6 DEF Panelful, OnePoll
  <2> QED BY <1>1, <2>1, <2>7 DEF Panelful
<1>5. ASSUME NEW p \in polls, PollReturns(p) PROVE Panelful'
  <2>1. UNCHANGED <<asked, session, send>> /\ polls' = polls \ {p}
    BY <1>5 DEF PollReturns
  <2>2. CASE ~Heeded(p) /\ UNCHANGED <<messages, panel, effect>>
    <3>1. OnePoll'
      BY <2>1, <2>2 DEF Panelful, OnePoll, Heeded
    <3> QED BY <1>1, <2>1, <2>2, <3>1 DEF Panelful
  <2>3. ASSUME Heeded(p) PROVE \A s \in polls' : ~Heeded(s)
    BY <2>1, <2>3 DEF Panelful, OnePoll
  <2>4. CASE Heeded(p) /\ (ShowAnswer(p) \/ GiveUp)
    <3>1. effect' = effect /\ ~panel'.loading /\ panel'.job = None
      <4>1. CASE ShowAnswer(p)
        BY <4>1 DEF ShowAnswer
      <4>2. CASE GiveUp
        BY <4>2, Basics DEF GiveUp, PanelState
      <4> QED BY <2>4, <4>1, <4>2
    <3>2. send.pc = "idle" /\ panel.job = asked /\ effect.job = asked
      BY <2>4, HeededAwaited
    <3>3. Turns'
      BY <2>1, <3>1, <3>2 DEF Turns
    <3>4. Awaited'
      BY <2>1, <3>1, <3>2 DEF Panelful, Awaited
    <3>5. ~effect.timer
      BY <2>4, HeededAwaited
    <3>6. OnePoll'
      BY <2>1, <2>3, <2>4, <3>1, <3>5 DEF Panelful, OnePoll, Heeded
    <3> QED BY <3>3, <3>4, <3>6 DEF Panelful
  <2>5. CASE Heeded(p) /\ PollAgain(p)
    <3>1. /\ messages' = messages
          /\ panel'.loading = panel.loading /\ panel'.job = panel.job
          /\ panel'.draft = panel.draft
      BY <2>5, Basics DEF PollAgain, PanelState
    <3>2. /\ effect'.gen = effect.gen /\ effect'.job = effect.job
          /\ effect'.session = effect.session
      BY <2>5, Basics DEF PollAgain, EffectState
    <3>3. effect.job # None /\ effect.job = panel.job
      BY <2>5, HeededAwaited
    <3>4. Turns' /\ Awaited'
      BY <2>1, <3>1, <3>2 DEF Panelful, Turns, Awaited
    <3>5. \A s \in polls' : ~(Heeded(s))' /\ s.gen <= effect.gen
      BY <2>1, <2>3, <2>5, <3>2 DEF Panelful, OnePoll, Heeded
    <3>6. OnePoll'
      BY <2>1, <3>1, <3>2, <3>3, <3>5 DEF Panelful, OnePoll
    <3> QED BY <3>4, <3>6 DEF Panelful
  <2> QED BY <1>5, <2>2, <2>4, <2>5 DEF PollReturns
<1> QED BY <1>2, <1>3, <1>4, <1>5

\* So does everything else.
LEMMA PanelfulRest ==
  ASSUME TypeInv, Panelful,
         \/ SaveDraft \/ SaveReturns \/ CancelDraft \/ SignIn \/ Reload
         \/ UNCHANGED vars
         \/ \E q \in Question : JobStep(q)
  PROVE  Panelful'
<1>1. CASE SaveDraft \/ SaveReturns \/ CancelDraft
  <2>1. /\ UNCHANGED <<messages, asked, session, effect, polls, send>>
        /\ panel'.loading = panel.loading /\ panel'.job = panel.job
        /\ panel'.draft \in {panel.draft, None}
    BY <1>1, Basics DEF SaveDraft, SaveReturns, CancelDraft, PanelState
  <2> QED BY <2>1 DEF Panelful, Turns, Awaited, OnePoll, Heeded
<1>2. CASE SignIn
  <2>1. UNCHANGED <<messages, asked, panel, effect, polls, send>>
    BY <1>2 DEF SignIn
  <2>2. effect.session <= session' /\ session' \in Nat
    BY <1>2, Basics DEF SignIn, Session, Panelful, OnePoll
  <2> QED BY <2>1, <2>2 DEF Panelful, Turns, Awaited, OnePoll, Heeded
<1>3. CASE Reload
  <2>1. ~panel'.loading /\ panel'.job = None /\ panel'.draft = None
    BY <1>3 DEF Reload, Mounted
  <2>2. send'.pc = "idle" /\ polls' = {}
    BY <1>3 DEF Reload, Idle
  <2>3. effect'.job = None /\ ~effect'.timer /\ effect'.session = 0
    BY <1>3 DEF Reload, NoEffect
  <2>4. session' \in Nat
    BY <1>3, Basics DEF Reload
  <2> QED BY <2>1, <2>2, <2>3, <2>4 DEF Panelful, Turns, Awaited, OnePoll
<1>4. CASE UNCHANGED vars \/ \E q \in Question : JobStep(q)
  <2>1. UNCHANGED <<messages, asked, panel, session, effect, polls, send>>
    BY <1>4 DEF vars, JobStep
  <2> QED BY <2>1 DEF Panelful, Turns, Awaited, OnePoll, Heeded
<1> QED BY <1>1, <1>2, <1>3, <1>4

\* The panel works on one question at a time, with one poll of it.
LEMMA PanelfulAlways == Spec => [](TypeInv /\ Panelful)
<1>1. Init => TypeInv /\ Panelful
  BY InitType, PanelfulInit
<1>2. TypeInv /\ Panelful /\ [Next]_vars => TypeInv' /\ Panelful'
  BY StepType, PanelfulSend, PanelfulPoll, PanelfulRest DEF Next
<1> QED BY <1>1, <1>2, PTL DEF Spec

-----------------------------------------------------------------------------
(* The input is not locked for good *)

\* While an answer is awaited, the request, timer or effect that will go on
\* with it hands over to the next one without a gap.
LEMMA LiveStep ==
  ASSUME TypeInv, Panelful, Panelful', LoadingIsLive, [Next]_vars
  PROVE  LoadingIsLive'
<1> SUFFICES ASSUME panel'.loading, send'.pc = "idle", ~Due'
             PROVE  effect'.timer \/ \E p \in polls' : (Heeded(p))'
  <2>1. panel'.job # None \/ send'.pc # "idle" \/ ~panel'.loading
    BY DEF Panelful, Turns
  <2> QED BY <2>1 DEF LoadingIsLive
<1>1. panel'.job # None
  BY DEF Panelful, Turns
<1>2. ASSUME UNCHANGED <<panel, session, effect, send>>
      PROVE  /\ effect.timer \/ \E p \in polls : Heeded(p)
             /\ \A p : (Heeded(p))' <=> Heeded(p)
  BY <1>2 DEF LoadingIsLive, Due, Heeded
<1>3. CASE Send \/ ResolveContext
           \/ \E q \in Question : PostServed(q) \/ DispatchFails(q)
  <2>1. send'.pc # "idle"
    BY <1>3, Basics DEF Send, ResolveContext, PostServed, DispatchFails,
                        SendState
  <2> QED BY <2>1
<1>4. CASE SendReturns
  <2>1. panel'.job = asked /\ effect' = effect /\ send.pc # "idle"
    BY <1>4, Basics DEF SendReturns, PanelState
  <2>2. effect.job # asked
    <3>1. effect.job # None => effect.job < asked
      BY <2>1 DEF Panelful, Awaited
    <3>2. asked # None
      BY Basics, ConstantsAssumption
    <3> QED BY <3>1, <3>2, Basics
  <2> QED BY <2>1, <2>2 DEF Due
<1>5. CASE SendFails \/ Reload
  <2>1. CASE SendFails
    BY <2>1, Basics DEF SendFails, PanelState
  <2>2. CASE Reload
    BY <2>2 DEF Reload, Mounted
  <2> QED BY <1>5, <2>1, <2>2
<1>6. CASE RunEffect
  <2> DEFINE r == Request(effect.gen + 1, panel.job, session)
  <2>1. panel.job # None
    BY <1>1, <1>6 DEF RunEffect
  <2>2. polls' = polls \cup {r}
    BY <1>6, <2>1, Zenon DEF RunEffect
  <2>3. effect' = [gen |-> effect.gen + 1, job |-> panel.job,
                   session |-> session, timer |-> FALSE]
    BY <1>6, <2>1, Zenon DEF RunEffect
  <2>4. r.gen = effect'.gen /\ effect'.job # None
    BY <2>1, <2>3 DEF Request
  <2> QED BY <2>2, <2>4 DEF Heeded
<1>7. CASE TimerFires
  <2> DEFINE r == Request(effect.gen, effect.job, effect.session)
  <2>1. polls' = polls \cup {r} /\ effect.timer
    BY <1>7 DEF TimerFires
  <2>2. effect'.gen = effect.gen /\ effect'.job = effect.job
    BY <1>7, Basics DEF TimerFires, EffectState
  <2>3. effect.job # None /\ r.gen = effect.gen
    BY <2>1 DEF Panelful, OnePoll, Request
  <2> QED BY <2>1, <2>2, <2>3 DEF Heeded
<1>8. ASSUME NEW p \in polls, PollServed(p)
      PROVE  effect'.timer \/ \E r \in polls' : (Heeded(r))'
  <2>1. PICK answer \in Answers(p) :
          polls' = (polls \ {p}) \cup {[p EXCEPT !.answer = answer]}
    BY <1>8, Zenon DEF PollServed
  <2>2. UNCHANGED <<panel, session, effect, send>>
    BY <1>8 DEF PollServed
  <2> DEFINE r == [p EXCEPT !.answer = answer]
  <2>3. r.gen = p.gen /\ polls' = (polls \ {p}) \cup {r}
    BY <2>1, Basics DEF PollState
  <2>4. Heeded(r) <=> Heeded(p)
    BY <2>3 DEF Heeded
  <2> HIDE DEF r
  <2> QED BY <1>2, <2>2, <2>3, <2>4
<1>9. ASSUME NEW p \in polls, PollReturns(p)
      PROVE  effect'.timer \/ \E r \in polls' : (Heeded(r))'
  <2>1. polls' = polls \ {p} /\ UNCHANGED <<session, send>>
    BY <1>9 DEF PollReturns
  <2>2. CASE ~Heeded(p) /\ UNCHANGED <<messages, panel, effect>>
    <3>1. effect.timer \/ \E r \in polls : Heeded(r)
      BY <1>2, <2>1, <2>2
    <3>2. \A r : (Heeded(r))' <=> Heeded(r)
      BY <1>2, <2>1, <2>2
    <3> QED BY <2>1, <2>2, <3>1, <3>2
  <2>3. CASE ShowAnswer(p) \/ GiveUp
    <3>1. CASE ShowAnswer(p)
      BY <3>1 DEF ShowAnswer
    <3>2. CASE GiveUp
      BY <3>2, Basics DEF GiveUp, PanelState
    <3> QED BY <2>3, <3>1, <3>2
  <2>4. CASE PollAgain(p)
    BY <2>4, Basics DEF PollAgain, EffectState
  <2> QED BY <1>9, <2>2, <2>3, <2>4 DEF PollReturns
<1>10. CASE SaveDraft \/ SaveReturns \/ CancelDraft
  <2>1. panel'.loading = panel.loading /\ panel'.job = panel.job
    BY <1>10, Basics DEF SaveDraft, SaveReturns, CancelDraft, PanelState
  <2>2. UNCHANGED <<session, effect, polls, send>>
    BY <1>10 DEF SaveDraft, SaveReturns, CancelDraft
  <2> QED BY <2>1, <2>2 DEF LoadingIsLive, Due, Heeded
<1>11. CASE SignIn
  <2>1. UNCHANGED <<panel, effect, polls, send>> /\ session' > session
    BY <1>11 DEF SignIn
  <2>2. effect.session <= session /\ session' \in Nat
    BY <1>11, Basics DEF Panelful, OnePoll, SignIn, Session
  <2>3. effect.session # session'
    BY <2>1, <2>2, Basics
  <2> QED BY <1>1, <2>1, <2>3 DEF Due
<1>12. CASE UNCHANGED vars \/ \E q \in Question : JobStep(q)
  <2>1. UNCHANGED <<panel, session, effect, polls, send>>
    BY <1>12 DEF vars, JobStep
  <2> QED BY <1>2, <2>1
<1> QED BY <1>3, <1>4, <1>5, <1>6, <1>7, <1>8, <1>9, <1>10, <1>11, <1>12
        DEF Next, SendStep

\* While an answer is awaited there is always a request, a timer or a due
\* effect that goes on with it: the input is never locked by a lost poll.
THEOREM InputComesBack == Spec => []LoadingIsLive
<1>1. Init => LoadingIsLive
  BY DEF Init, Mounted, LoadingIsLive
<1>2. TypeInv /\ Panelful /\ TypeInv' /\ Panelful' /\ LoadingIsLive
      /\ [Next]_vars => LoadingIsLive'
  BY LiveStep
<1> QED BY <1>1, <1>2, PanelfulAlways, PTL DEF Spec

-----------------------------------------------------------------------------
(* The conversation and the draft *)

Shown == ConversationInOrder /\ SavesWhatIsShown

\* Every step keeps the conversation in order and the saved draft shown.
LEMMA ShownStep ==
  ASSUME TypeInv, Panelful, Shown, [Next]_vars
  PROVE  Shown'
<1>1. ASSUME NEW m \in Message, messages' = Append(messages, m),
             m.role = "assistant" =>
               /\ messages # <<>>
               /\ messages[Len(messages)] =
                    [role |-> "user", question |-> m.question]
      PROVE  ConversationInOrder'
  <2>1. /\ Len(messages') = Len(messages) + 1
        /\ messages'[Len(messages) + 1] = m
        /\ \A i \in 1..Len(messages) : messages'[i] = messages[i]
    BY <1>1, Basics
  <2>2. DOMAIN messages' = 1..(Len(messages) + 1)
        /\ DOMAIN messages = 1..Len(messages)
    BY <1>1, <2>1, Basics
  <2>3. ASSUME NEW i \in DOMAIN messages', messages'[i].role = "assistant"
        PROVE  /\ i > 1
               /\ messages'[i - 1] =
                    [role |-> "user", question |-> messages'[i].question]
    <3>1. CASE i = Len(messages) + 1
      <4>1. messages # <<>> /\ Len(messages) > 0
        BY <1>1, <2>1, <2>3, <3>1, Basics
      <4> QED BY <1>1, <2>1, <2>3, <3>1, <4>1, Basics
    <3>2. CASE i # Len(messages) + 1
      <4>1. i \in DOMAIN messages /\ messages'[i] = messages[i]
        BY <2>1, <2>2, <3>2, Basics
      <4>2. i > 1 /\ messages[i - 1] =
              [role |-> "user", question |-> messages[i].question]
        BY <2>3, <4>1 DEF Shown, ConversationInOrder
      <4>3. i - 1 \in 1..Len(messages)
        BY <2>2, <4>1, <4>2, Basics
      <4> QED BY <2>1, <4>1, <4>2, <4>3
    <3> QED BY <3>1, <3>2
  <2> QED BY <2>3 DEF ConversationInOrder
<1>2. ASSUME messages' \in {messages, <<>>} PROVE ConversationInOrder'
  BY <1>2 DEF Shown, ConversationInOrder
<1>3. ASSUME save' = save, panel'.draft = panel.draft PROVE SavesWhatIsShown'
  BY <1>3 DEF Shown, SavesWhatIsShown
<1>4. CASE Send
  <2>1. [role |-> "user", question |-> asked + 1] \in Message
    BY <1>4, Basics, ConstantsAssumption DEF Send, Message, Question
  <2>2. save' = None
    BY <1>4 DEF Send, Locked
  <2>3. messages' = Append(messages, [role |-> "user", question |-> asked + 1])
    BY <1>4 DEF Send
  <2> QED BY <1>1, <2>1, <2>2, <2>3 DEF Shown, SavesWhatIsShown
<1>5. ASSUME NEW p \in polls, PollReturns(p), Heeded(p), ShowAnswer(p)
      PROVE  Shown'
  <2> DEFINE m == [role |-> "assistant", question |-> p.job]
  <2>1. m \in Message
    BY <1>5, HeededAwaited DEF Message
  <2>2. messages' = Append(messages, m)
    BY <1>5 DEF ShowAnswer
  <2>3. /\ messages # <<>>
        /\ messages[Len(messages)] = [role |-> "user", question |-> p.job]
    BY <1>5, HeededAwaited DEF Panelful, Awaited
  <2>4. save = None /\ save' = save
    BY <1>5, HeededAwaited DEF Shown, SavesWhatIsShown, PollReturns
  <2>5. m.question = p.job
    OBVIOUS
  <2> HIDE DEF m
  <2> QED BY <1>1, <2>1, <2>2, <2>3, <2>4, <2>5 DEF Shown, SavesWhatIsShown
<1>6. ASSUME NEW p \in polls, PollReturns(p), ~ShowAnswer(p)
      PROVE  Shown'
  <2>1. messages' = messages /\ save' = save
    BY <1>6 DEF PollReturns, GiveUp, PollAgain
  <2>2. panel'.draft = panel.draft
    <3>1. CASE GiveUp
      BY <3>1, Basics DEF GiveUp, PanelState
    <3>2. CASE PollAgain(p)
      BY <3>2, Basics DEF PollAgain, PanelState
    <3> QED BY <1>6, <3>1, <3>2 DEF PollReturns
  <2> QED BY <1>2, <1>3, <2>1, <2>2 DEF Shown
<1>7. ASSUME NEW p \in polls, PollReturns(p), ShowAnswer(p), ~Heeded(p)
      PROVE  Shown'
  <2>1. messages' = messages /\ save' = save /\ panel' = panel
    BY <1>7 DEF PollReturns
  <2> QED BY <1>2, <1>3, <2>1 DEF Shown
<1>8. CASE SaveDraft \/ SaveReturns \/ CancelDraft
  <2>1. messages' = messages
    BY <1>8 DEF SaveDraft, SaveReturns, CancelDraft
  <2>2. CASE SaveDraft
    BY <1>2, <2>1, <2>2, Basics DEF SaveDraft, Shown, SavesWhatIsShown, PanelState
  <2>3. CASE SaveReturns
    BY <1>2, <2>1, <2>3 DEF SaveReturns, Shown, SavesWhatIsShown
  <2>4. CASE CancelDraft
    BY <1>2, <2>1, <2>4 DEF CancelDraft, Shown, SavesWhatIsShown
  <2> QED BY <1>8, <2>2, <2>3, <2>4
<1>9. CASE Reload
  <2>1. messages' = <<>> /\ save' = None
    BY <1>9 DEF Reload
  <2> QED BY <1>2, <2>1 DEF Shown, SavesWhatIsShown
<1>10. CASE SendStep
  <2>1. messages' = messages /\ save' = save
    BY <1>10 DEF SendStep, ResolveContext, PostServed, DispatchFails,
                 SendReturns, SendFails
  <2>2. panel'.draft = panel.draft
    BY <1>10, Basics DEF SendStep, ResolveContext, PostServed, DispatchFails,
                         SendReturns, SendFails, PanelState
  <2> QED BY <1>2, <1>3, <2>1, <2>2 DEF Shown
<1>11. CASE \/ RunEffect \/ TimerFires \/ SignIn \/ UNCHANGED vars
            \/ \E p \in polls : PollServed(p)
            \/ \E q \in Question : JobStep(q)
  <2>1. UNCHANGED <<messages, save, panel>>
    BY <1>11 DEF RunEffect, TimerFires, SignIn, vars, PollServed, JobStep
  <2> QED BY <1>2, <1>3, <2>1 DEF Shown
<1> QED BY <1>4, <1>5, <1>6, <1>7, <1>8, <1>9, <1>10, <1>11 DEF Next

\* So they always are.
LEMMA ShownAlways == Spec => []Shown
<1>1. Init => Shown
  BY DEF Init, Shown, ConversationInOrder, SavesWhatIsShown
<1>2. TypeInv /\ Panelful /\ Shown /\ [Next]_vars => Shown'
  BY ShownStep
<1> QED BY <1>1, <1>2, PanelfulAlways, PTL DEF Spec

\* Every answer stands directly under its question and no question has two,
\* whatever sessions, reloads and late polls come in between.
THEOREM AnswersFollowQuestions == Spec => []ConversationInOrder
<1>1. Shown => ConversationInOrder
  BY DEF Shown
<1> QED BY <1>1, ShownAlways, PTL

\* What is saved to Notion is what the dialog shows until the save has ended.
THEOREM SaveIsOfShownDraft == Spec => []SavesWhatIsShown
<1>1. Shown => SavesWhatIsShown
  BY DEF Shown
<1> QED BY <1>1, ShownAlways, PTL

-----------------------------------------------------------------------------
(* No answer is lost *)

\* No POST fails for good and no read lags in this step; in no step, if only
\* polls may fail.
Calm ==
  /\ ~SendFails
  /\ \A q \in Question : ~DispatchFails(q)
  /\ ~ReadLags

Steady == Faults \subseteq {"poll"}

\* The job of a question is of this session or of an earlier one.
SoFar(q) == Created(q) => jobs[q].by <= session

\* What a step of the server does to a job's phase.
LEMMA JobMoves ==
  ASSUME TypeInv, NEW q \in Question, JobStep(q)
  PROVE  /\ \A r \in Question : jobs'[r].by = jobs[r].by
         /\ \A r \in Question : r # q => jobs'[r] = jobs[r]
         /\ jobs[q].phase # "none" /\ jobs'[q].phase # "none"
         /\ jobs[q].phase \in {"failed", "gone"} =>
              jobs'[q].phase \in {"failed", "gone"}
<1>1. jobs \in [Question -> JobState]
  BY DEF TypeInv, TypeOK, JobState
<1>2. PICK phase \in Phase, recorded \in BOOLEAN :
        jobs' = [jobs EXCEPT ![q] = [phase |-> phase, recorded |-> recorded,
                                     by |-> jobs[q].by]]
  BY Zenon DEF JobStep, SetJob
<1>3. /\ jobs'[q] = [phase |-> phase, recorded |-> recorded, by |-> jobs[q].by]
      /\ \A r \in Question : r # q => jobs'[r] = jobs[r]
  BY <1>1, <1>2
<1>4. jobs[q].phase # "none" /\ Job(q)!Next
  BY DEF JobStep
<1>5. /\ jobs'[q].phase # "none"
      /\ jobs[q].phase \in {"failed", "gone"} =>
           jobs'[q].phase \in {"failed", "gone"}
  BY <1>4 DEF Job!Next, Job!Create, Job!TakeUp, Job!Finalize, Job!Record,
              Job!Publish, Job!GiveUp, Job!Expire, Job!Open
<1>6. \A r \in Question : jobs'[r].by = jobs[r].by
  BY <1>3
<1> QED BY <1>3, <1>4, <1>5, <1>6

\* No session is taken back, and a job keeps the session it was created in.
LEMMA SoFarKept ==
  ASSUME TypeInv, Truthful, [Next]_vars, ~Reload, NEW q \in Question, SoFar(q)
  PROVE  jobs'[q].phase # "none" => jobs'[q].by <= session'
<1>1. jobs \in [Question -> JobState] /\ jobs[q].by \in Nat
  BY DEF TypeInv, TypeOK, JobState, Session
<1>2. ASSUME NEW r \in Question, JobStep(r)
      PROVE  jobs'[q].phase # "none" => jobs'[q].by <= session'
  <2>1. session' = session
    BY <1>2 DEF JobStep
  <2> QED
    BY <1>2, <2>1, JobMoves DEF SoFar, Created
<1>3. ASSUME NEW r \in Question, PostServed(r) \/ DispatchFails(r)
      PROVE  jobs'[q].phase # "none" => jobs'[q].by <= session'
  <2>1. session' = session /\ send.session <= session
    BY <1>3 DEF PostServed, DispatchFails, Truthful
  <2>2. SetJob(r, send.session)
    BY <1>3 DEF PostServed, DispatchFails
  <2>3. PICK phase \in Phase, recorded \in BOOLEAN :
          jobs' = [jobs EXCEPT ![r] = [phase |-> phase, recorded |-> recorded,
                                       by |-> send.session]]
    BY <2>2, Zenon DEF SetJob
  <2>4. /\ q = r => jobs'[q].by = send.session
        /\ q # r => jobs'[q] = jobs[q]
    BY <1>1, <2>3
  <2> QED
    BY <2>1, <2>4 DEF SoFar, Created
<1>4. CASE SignIn
  <2>1. jobs' = jobs /\ session \in Nat /\ session' \in Nat /\ session < session'
    BY <1>4, Basics DEF SignIn, Session
  <2> QED
    BY <1>1, <2>1 DEF SoFar, Created
<1>5. CASE UNCHANGED <<jobs, session>>
  BY <1>5 DEF SoFar, Created
<1> QED
  BY <1>2, <1>3, <1>4, <1>5
     DEF Next, SendStep, Send, ResolveContext, SendReturns, SendFails,
         RunEffect, TimerFires, PollServed, PollReturns, SaveDraft,
         SaveReturns, CancelDraft, vars

\* Whatever the panel shows, the jobs behind it are of sessions so far.
LEMMA SoFarStep ==
  ASSUME TypeInv, Panelful, Truthful, [Next]_vars
  PROVE  OfSessionsSoFar'
<1>1. /\ DOMAIN messages = 1..Len(messages)
      /\ \A i \in DOMAIN messages :
           messages[i].question \in Question /\ SoFar(messages[i].question)
  <2>1. DOMAIN messages = 1..Len(messages)
    BY Basics
  <2>2. \A i \in DOMAIN messages : messages[i] \in Message
    BY Basics
  <2> QED BY <2>1, <2>2 DEF Message, Truthful, OfSessionsSoFar, SoFar
<1> DEFINE Keeps(q) == jobs'[q].phase # "none" => jobs'[q].by <= session'
<1>2. CASE Reload
  <2>1. messages' = <<>>
    BY <1>2 DEF Reload
  <2> QED BY <2>1 DEF OfSessionsSoFar
<1>3. ASSUME ~Reload PROVE \A q \in Question : SoFar(q) => Keeps(q)
  BY <1>3, SoFarKept
<1>4. ASSUME \A i \in DOMAIN messages' : Keeps(messages'[i].question)
      PROVE  OfSessionsSoFar'
  BY <1>4 DEF OfSessionsSoFar, Created
<1> HIDE DEF Keeps
<1>5. CASE ~Reload /\ messages' = messages
  BY <1>1, <1>3, <1>4, <1>5
<1>6. ASSUME NEW m, messages' = Append(messages, m), ~Reload, Keeps(m.question)
      PROVE  OfSessionsSoFar'
  <2>1. /\ DOMAIN messages' = 1..(Len(messages) + 1)
        /\ messages'[Len(messages) + 1] = m
        /\ \A i \in 1..Len(messages) : messages'[i] = messages[i]
    BY <1>6, Basics
  <2>2. ASSUME NEW i \in DOMAIN messages' PROVE Keeps(messages'[i].question)
    <3>1. i \in 1..Len(messages) \/ i = Len(messages) + 1
      BY <2>1, Basics
    <3> QED BY <1>1, <1>3, <1>6, <2>1, <3>1
  <2> QED BY <1>4, <2>2
<1>7. CASE Send
  <2>1. /\ messages' = Append(messages, [role |-> "user", question |-> asked + 1])
        /\ jobs' = jobs /\ asked' = asked + 1 /\ asked < MaxQuestions
    BY <1>7 DEF Send
  <2>2. asked + 1 \in Question /\ ~(asked + 1 <= asked) /\ ~Reload
    BY <2>1, Basics, ConstantsAssumption DEF Question, Reload
  <2>3. Keeps(asked + 1)
    BY <2>1, <2>2 DEF Keeps, Truthful, Created
  <2> QED BY <1>6, <2>1, <2>2, <2>3
<1>8. ASSUME NEW p \in polls, PollReturns(p), ShowAnswer(p)
      PROVE  OfSessionsSoFar'
  <2>1. messages' = Append(messages, [role |-> "assistant", question |-> p.job])
    BY <1>8 DEF ShowAnswer
  <2>2. ~Reload
    BY <2>1, Basics, SMT DEF Reload
  <2>3. p.job \in Question /\ p.session \in Nat /\ session \in Nat
    BY Basics DEF PollState, Session
  <2>4. jobs[p.job].by \in Nat
    BY <2>3 DEF TypeInv, TypeOK, Session
  <2>5. SoFar(p.job)
    BY <2>3, <2>4 DEF Truthful, SoFar
  <2> QED BY <1>3, <1>6, <2>1, <2>2, <2>3, <2>5
<1> QED
  BY <1>2, <1>5, <1>7, <1>8
     DEF Next, SendStep, ResolveContext, PostServed, DispatchFails, SendReturns,
         SendFails, RunEffect, TimerFires, PollServed, PollReturns, PollAgain,
         GiveUp, SaveDraft, SaveReturns, CancelDraft, SignIn, JobStep, vars

\* Nothing has been answered at the start.
LEMMA TruthInit == Init => Truthful
<1> SUFFICES ASSUME Init PROVE Truthful
  OBVIOUS
<1>1. panel.job = None /\ effect.job = None /\ send.pc = "idle"
  BY DEF Init, Mounted, NoEffect, Idle
<1>2. asked = 0 /\ polls = {} /\ \A q \in Question : ~Created(q)
  BY DEF Init, Created
<1>3. messages = <<>>
  BY DEF Init
<1> QED BY <1>1, <1>2, <1>3 DEF Truthful, OfSessionsSoFar

\* What the server does to a job keeps the answers about jobs truthful.
LEMMA TruthJobs ==
  ASSUME TypeInv, Panelful, Truthful, Calm,
         NEW q \in Question, JobStep(q) \/ PostServed(q) \/ DispatchFails(q)
  PROVE  Truthful'
<1>0. OfSessionsSoFar'
  <2>1. Next
    BY DEF Next, SendStep
  <2> QED
    BY <2>1, SoFarStep
<1>1. CASE DispatchFails(q)
  BY <1>1 DEF Calm
<1>2. CASE PostServed(q)
  <2>1. /\ UNCHANGED <<asked, panel, session, effect, polls>>
        /\ q = asked /\ send.pc = "posting"
        /\ send'.pc = "created" /\ send'.session = send.session
    BY <1>2, Basics DEF PostServed, SendState
  <2>2. send.session <= session /\ ~Created(q)
    BY <2>1 DEF Truthful
  <2>3. jobs \in [Question -> JobState]
    BY DEF TypeInv, TypeOK, JobState
  <2>4. PICK phase \in Phase, recorded \in BOOLEAN :
          jobs' = [jobs EXCEPT ![q] = [phase |-> phase, recorded |-> recorded,
                                       by |-> send.session]]
    BY <1>2, Zenon DEF PostServed, SetJob
  <2>5. jobs'[q].by = send.session /\ \A r \in Question : r # q => jobs'[r] = jobs[r]
    BY <2>2, <2>3, <2>4
  <2>6. jobs'[q].phase = "queued"
    BY <1>2 DEF PostServed, Job!Create
  <2>7. (Created(q))' /\ \A r \in Question : r # q => ((Created(r))' <=> Created(r))
    BY <2>5, <2>6 DEF Created
  <2>8. \A r \in Question : Created(r) => r # q
    BY <2>2
  <2>9. panel.job # None => panel.job \in Question /\ Created(panel.job)
    BY Basics DEF Truthful, PanelState
  <2>10. effect.job # None => effect.job \in Question /\ Created(effect.job)
    BY Basics DEF Truthful, EffectState
  <2>11. \A p \in polls : p.job \in Question /\ Created(p.job)
    BY Basics DEF Truthful, PollState
  <2>12. \A p \in polls : /\ jobs'[p.job] = jobs[p.job]
                          /\ (Dead(p.job))' <=> Dead(p.job)
                          /\ (Created(p.job))'
    BY <2>5, <2>7, <2>8, <2>11 DEF Dead
  <2>13. \A r \in Question : (Created(r))' => r <= asked
    BY <2>1, <2>7, Basics DEF Truthful
  <2>14. effect.job # None => /\ jobs'[effect.job] = jobs[effect.job]
                             /\ (Created(effect.job))'
    BY <2>1, <2>5, <2>7, <2>8, <2>10 DEF Created
  <2>15. effect'.job # None => /\ (Created(effect.job))'
                              /\ jobs'[effect.job].by <= effect.session
    BY <2>1, <2>14 DEF Truthful
  <2>16. \A p \in polls' :
           /\ (Created(p.job))'
           /\ jobs'[p.job].by <= p.session /\ p.session <= session
           /\ p.answer = "denied" => jobs'[p.job].by < p.session
           /\ p.answer \in {"failed", "gone"} => (Dead(p.job))'
    BY <2>1, <2>12 DEF Truthful
  <2>17. panel.job # None => (Created(panel.job))'
    BY <2>1, <2>5, <2>8, <2>9 DEF Created
  <2>18. (Created(asked))'
    BY <2>1, <2>7
  <2> QED BY <1>0, <2>1, <2>2, <2>13, <2>15, <2>16, <2>17, <2>18 DEF Truthful
<1>3. CASE JobStep(q)
  <2>1. UNCHANGED <<asked, panel, session, effect, polls, send>>
    BY <1>3 DEF JobStep
  <2>2. \A r \in Question : /\ (Created(r))' <=> Created(r)
                            /\ jobs'[r].by = jobs[r].by
    BY <1>3, JobMoves DEF Created
  <2>3. \A r \in Question : Dead(r) => (Dead(r))'
    BY <1>3, JobMoves DEF Dead
  <2>4. panel.job # None => panel.job \in Question
    BY Basics DEF PanelState
  <2>5. effect.job # None => effect.job \in Question
    BY Basics DEF EffectState
  <2>6. \A p \in polls : p.job \in Question
    BY Basics DEF PollState
  <2>7. send.pc # "idle" => asked \in Question
    BY Basics DEF TypeInv, TypeOK, Named, Question
  <2> QED BY <1>0, <2>1, <2>2, <2>3, <2>4, <2>5, <2>6, <2>7 DEF Truthful
<1> QED BY <1>1, <1>2, <1>3

\* So does every other step.
LEMMA TruthStep ==
  ASSUME TypeInv, Panelful, Truthful, Calm, [Next]_vars
  PROVE  Truthful'
<1>0. OfSessionsSoFar'
  BY SoFarStep
<1>1. ASSUME jobs' = jobs PROVE \A q : /\ (Created(q))' <=> Created(q)
                                       /\ (Dead(q))' <=> Dead(q)
  BY <1>1 DEF Created, Dead
<1>2. CASE Send
  <2>1. /\ UNCHANGED <<session, effect, polls, jobs>>
        /\ asked' = asked + 1 /\ send' = [pc |-> "resolving", session |-> session]
        /\ panel'.job = None /\ asked < MaxQuestions
    BY <1>2 DEF Send
  <2>3. asked' \in Question /\ ~(asked' <= asked)
    BY <2>1, Basics, ConstantsAssumption DEF Question
  <2>4. ~Created(asked')
    BY <2>3 DEF Truthful
  <2>5. \A q \in Question : Created(q) => q <= asked'
    BY <2>1, Basics DEF Truthful
  <2>6. send'.pc = "resolving" /\ send'.session <= session
    BY <2>1, Basics
  <2> QED BY <1>0, <1>1, <2>1, <2>4, <2>5, <2>6 DEF Truthful
<1>3. CASE ResolveContext
  <2>1. /\ UNCHANGED <<asked, panel, session, effect, polls, jobs>>
        /\ send.pc = "resolving" /\ send'.pc = "posting"
        /\ send'.session = send.session
    BY <1>3, Basics DEF ResolveContext, SendState
  <2> QED BY <1>0, <1>1, <2>1 DEF Truthful
<1>4. CASE SendReturns
  <2>1. /\ UNCHANGED <<asked, session, effect, polls, jobs>>
        /\ send.pc = "created" /\ send' = Idle
    BY <1>4 DEF SendReturns
  <2>2. panel'.job = asked /\ send'.pc = "idle"
    BY <1>4, Basics DEF SendReturns, PanelState, Idle
  <2> QED BY <1>0, <1>1, <2>1, <2>2 DEF Truthful
<1>5. CASE SendFails
  BY <1>5 DEF Calm
<1>13. CASE Reload
  <2>1. /\ polls' = {} /\ panel'.job = None /\ effect'.job = None
        /\ send'.pc = "idle" /\ UNCHANGED <<asked, jobs>>
    BY <1>13 DEF Reload, Mounted, NoEffect, Idle
  <2> QED BY <1>0, <1>1, <2>1 DEF Truthful
<1>6. CASE RunEffect
  <2>1. UNCHANGED <<asked, panel, session, send, jobs>>
    BY <1>6 DEF RunEffect
  <2>2. CASE panel.job = None
    <3>1. effect' = NoEffect(effect.gen) /\ polls' = polls
      BY <1>6, <2>2, Zenon DEF RunEffect
    <3>2. effect'.job = None
      BY <3>1 DEF NoEffect
    <3> QED BY <1>0, <1>1, <2>1, <2>2, <3>1, <3>2 DEF Truthful
  <2>3. CASE panel.job # None
    <3> DEFINE r == Request(effect.gen + 1, panel.job, session)
    <3>1. polls' = polls \cup {r}
      BY <1>6, <2>3, Zenon DEF RunEffect
    <3>2. effect' = [gen |-> effect.gen + 1, job |-> panel.job,
                     session |-> session, timer |-> FALSE]
      BY <1>6, <2>3, Zenon DEF RunEffect
    <3>3. effect'.job = panel.job /\ effect'.session = session
      BY <3>2
    <3>4. panel.job = asked /\ asked > 0
      BY <2>3, Basics DEF Panelful, Turns, Awaited
    <3>5. Created(panel.job) /\ jobs[panel.job].by <= session
      <4>1. messages[Len(messages)].question = panel.job /\ messages # <<>>
        BY <2>3, <3>4 DEF Panelful, Turns, Awaited
      <4>2. Len(messages) \in DOMAIN messages
        BY <4>1, Basics
      <4> QED BY <2>3, <4>1, <4>2 DEF Truthful, OfSessionsSoFar
    <3>6. r.job = panel.job /\ r.session = session /\ r.answer = None
      BY DEF Request
    <3>7. None \notin {"denied", "failed", "gone"}
      BY AnswerAssumption DEF Answer, Phase
    <3> HIDE DEF r
    <3>8. r.answer \notin {"denied", "failed", "gone"}
      BY <3>6, <3>7
    <3>9. session <= session
      BY Basics
    <3> QED BY <1>0, <1>1, <2>1, <3>1, <3>3, <3>5, <3>6, <3>8, <3>9 DEF Truthful
  <2> QED BY <2>2, <2>3
<1>7. CASE TimerFires
  <2> DEFINE r == Request(effect.gen, effect.job, effect.session)
  <2>1. UNCHANGED <<asked, panel, session, send, jobs>> /\ effect.timer
    BY <1>7 DEF TimerFires
  <2>2. polls' = polls \cup {r}
    BY <1>7 DEF TimerFires
  <2>3. effect'.job = effect.job /\ effect'.session = effect.session
    BY <1>7, Basics DEF TimerFires, EffectState
  <2>4. effect.job # None
    BY <2>1 DEF Panelful, OnePoll
  <2>5. /\ Created(effect.job) /\ jobs[effect.job].by <= effect.session
        /\ effect.session <= session
    BY <2>4 DEF Truthful, Panelful, OnePoll
  <2>6. r.job = effect.job /\ r.session = effect.session /\ r.answer = None
    BY DEF Request
  <2>7. None \notin {"denied", "failed", "gone"}
    BY AnswerAssumption DEF Answer, Phase
  <2> HIDE DEF r
  <2>8. r.answer \notin {"denied", "failed", "gone"}
    BY <2>6, <2>7
  <2> QED BY <1>0, <1>1, <2>1, <2>2, <2>3, <2>5, <2>6, <2>8 DEF Truthful
<1>8. ASSUME NEW p \in polls, PollServed(p) PROVE Truthful'
  <2>1. UNCHANGED <<asked, panel, session, effect, send, jobs>>
    BY <1>8 DEF PollServed
  <2>2. PICK answer \in Answers(p) :
          polls' = (polls \ {p}) \cup {[p EXCEPT !.answer = answer]}
    BY <1>8, Zenon DEF PollServed
  <2> DEFINE r == [p EXCEPT !.answer = answer]
  <2>3. /\ r.job = p.job /\ r.session = p.session /\ r.answer = answer
        /\ p.job \in Question
    BY Basics DEF PollState
  <2>4. /\ Created(p.job) /\ jobs[p.job].by <= p.session
        /\ p.session <= session
    BY DEF Truthful
  <2>5. answer = "denied" =>
          \/ answer = jobs[p.job].phase
          \/ p.session # jobs[p.job].by
    BY DEF Answers
  <2>6. answer = "denied" => jobs[p.job].by < p.session
    <3>1. jobs[p.job].phase \in Phase /\ jobs[p.job].by \in Nat
      BY <2>3 DEF TypeInv, TypeOK, Session
    <3>2. jobs[p.job].phase # "denied"
      BY <3>1 DEF Phase
    <3>3. p.session \in Nat
      BY Basics DEF PollState, Session
    <3> QED BY <2>4, <2>5, <3>1, <3>2, <3>3
  <2>8. polls' = (polls \ {p}) \cup {r}
    BY <2>2
  <2>7. answer \in {"failed", "gone"} => Dead(p.job)
    <3>1. CASE r \in polls
      <4>1. r.answer \in {"failed", "gone"} => Dead(r.job)
        BY <3>1, Zenon DEF Truthful
      <4> QED BY <2>3, <4>1
    <3>2. CASE r \notin polls
      <4>1. r.answer \in {None, "denied", "error", jobs[r.job].phase}
        BY <2>8, <3>2, Zenon DEF Calm, ReadLags
      <4>2. None \notin {"failed", "gone"}
        BY AnswerAssumption DEF Answer, Phase
      <4> QED BY <2>3, <4>1, <4>2 DEF Dead
    <3> QED BY <3>1, <3>2
  <2> HIDE DEF r
  <2> QED BY <1>0, <1>1, <2>1, <2>3, <2>4, <2>6, <2>7, <2>8 DEF Truthful
<1>9. ASSUME NEW p \in polls, PollReturns(p) PROVE Truthful'
  <2>1. UNCHANGED <<asked, session, send, jobs>> /\ polls' \subseteq polls
    BY <1>9 DEF PollReturns
  <2>2. panel'.job \in {panel.job, None}
    <3>1. CASE ShowAnswer(p)
      BY <3>1 DEF ShowAnswer
    <3>2. CASE GiveUp
      BY <3>2, Basics DEF GiveUp, PanelState
    <3>3. CASE PollAgain(p)
      BY <3>3, Basics DEF PollAgain, PanelState
    <3> QED BY <1>9, <3>1, <3>2, <3>3 DEF PollReturns
  <2>3. effect'.job = effect.job /\ effect'.session = effect.session
    <3>1. CASE PollAgain(p)
      BY <3>1, Basics DEF PollAgain, EffectState
    <3> QED BY <1>9, <3>1 DEF PollReturns, ShowAnswer, GiveUp
  <2> QED BY <1>0, <1>1, <2>1, <2>2, <2>3 DEF Truthful
<1>10. CASE SaveDraft \/ SaveReturns \/ CancelDraft
  <2>1. UNCHANGED <<asked, session, effect, polls, send, jobs>>
    BY <1>10 DEF SaveDraft, SaveReturns, CancelDraft
  <2>2. panel'.job = panel.job
    BY <1>10, Basics DEF SaveDraft, SaveReturns, CancelDraft, PanelState
  <2> QED BY <1>0, <1>1, <2>1, <2>2 DEF Truthful
<1>11. CASE SignIn
  <2>1. UNCHANGED <<asked, panel, effect, polls, send, jobs>>
    BY <1>11 DEF SignIn
  <2>2. session \in Nat /\ session' \in Nat /\ session < session'
    BY <1>11, Basics DEF SignIn, Session
  <2>4. \A p \in polls : p.session <= session'
    <3>1. \A p \in polls : p.session \in Nat /\ p.session <= session
      BY Basics DEF Truthful, PollState, Session
    <3> QED BY <2>2, <3>1
  <2>5. send.pc # "idle" => send.session <= session'
    <3>1. send.session \in Nat
      BY Basics DEF SendState, Session
    <3> QED BY <2>2, <3>1 DEF Truthful
  <2>6. \A p \in polls' :
          /\ (Created(p.job))'
          /\ jobs'[p.job].by <= p.session /\ p.session <= session'
          /\ p.answer = "denied" => jobs'[p.job].by < p.session
          /\ p.answer \in {"failed", "gone"} => (Dead(p.job))'
    BY <1>1, <2>1, <2>4 DEF Truthful
  <2>7. \A q \in Question : (Created(q))' => q <= asked'
    BY <1>1, <2>1 DEF Truthful
  <2>8. /\ send'.pc # "refused"
        /\ send'.pc # "idle" => send'.session <= session'
        /\ send'.pc \in {"resolving", "posting"} => ~(Created(asked))'
        /\ send'.pc = "created" => (Created(asked))'
        /\ panel'.job # None => (Created(panel.job))'
        /\ effect'.job # None => /\ (Created(effect.job))'
                                 /\ jobs'[effect'.job].by <= effect'.session
    BY <2>1, <2>5 DEF Truthful, Created
  <2> QED BY <1>0, <2>6, <2>7, <2>8, Zenon DEF Truthful
<1>12. CASE UNCHANGED vars
  BY <1>0, <1>1, <1>12 DEF vars, Truthful
<1> QED BY <1>2, <1>3, <1>4, <1>5, <1>6, <1>7, <1>8, <1>9, <1>10, <1>11, <1>12,
           <1>13, TruthJobs DEF Next, SendStep

\* No step leaves a question unanswered without an excuse: the panel gives up
\* only on a final answer, and a final answer is truthful.
LEMMA LostStep ==
  ASSUME TypeInv, TypeInv', Panelful, Truthful, Calm, NoAnswerLost, [Next]_vars
  PROVE  NoAnswerLost'
<1>1. /\ DOMAIN messages = 1..Len(messages)
      /\ \A i \in DOMAIN messages : messages[i].question \in Question
  <2>1. DOMAIN messages = 1..Len(messages)
    BY Basics
  <2>2. \A i \in DOMAIN messages : messages[i] \in Message
    BY Basics
  <2> QED BY <2>1, <2>2 DEF Message
<1>10. \A i \in DOMAIN messages : SoFar(messages[i].question)
  BY DEF Truthful, OfSessionsSoFar, SoFar
<1>9. CASE Reload
  <2>1. messages' = <<>>
    BY <1>9 DEF Reload
  <2> QED BY <2>1 DEF NoAnswerLost
<1> SUFFICES ASSUME ~Reload PROVE NoAnswerLost'
  BY <1>9
<1>2. \A q \in Question : SoFar(q) /\ Excused(q) => (Excused(q))'
  <2>0. \A q \in Question : jobs[q].by \in Nat
    BY DEF TypeInv, TypeOK, Session
  <2>1. CASE \E q \in Question : JobStep(q)
    <3>1. PICK q \in Question : JobStep(q)
      BY <2>1
    <3>2. session' = session
      BY <3>1 DEF JobStep
    <3> QED BY <3>1, <3>2, JobMoves DEF Excused, Dead, Disowned
  <2>2. CASE \E q \in Question : PostServed(q)
    <3>1. PICK q \in Question : PostServed(q)
      BY <2>2
    <3>2. jobs[q].phase = "none"
      BY <3>1 DEF PostServed, Job!Create
    <3>3. jobs \in [Question -> JobState]
      BY DEF TypeInv, TypeOK, JobState
    <3>4. \A r \in Question : r # q => jobs'[r] = jobs[r]
      BY <3>1, <3>3 DEF PostServed, SetJob
    <3>5. session' = session
      BY <3>1 DEF PostServed
    <3> QED BY <3>2, <3>4, <3>5 DEF Excused, Dead, Disowned
  <2>3. CASE jobs' = jobs /\ session' = session
    BY <2>3 DEF Excused, Dead, Disowned
  <2>5. CASE SignIn
    <3>1. /\ jobs' = jobs /\ session \in Nat /\ session' \in Nat
          /\ session < session'
      BY <2>5, Basics DEF SignIn, Session
    <3> QED BY <2>0, <3>1 DEF Excused, Dead, Disowned, Created, SoFar
  <2>4. \A q \in Question : ~DispatchFails(q)
    BY DEF Calm
  <2> QED BY <2>1, <2>2, <2>3, <2>4, <2>5
          DEF Next, SendStep, Send, ResolveContext, SendReturns, SendFails,
              RunEffect, TimerFires, PollServed, PollReturns, SaveDraft,
              SaveReturns, CancelDraft, vars
<1>0. ASSUME messages' = messages, NEW i \in DOMAIN messages,
             Excused(messages[i].question)
      PROVE  (Excused(messages[i].question))'
  <2> DEFINE Stay(q) ==
        \/ jobs'[q].phase \in {"failed", "gone"}
        \/ jobs'[q].phase # "none" /\ jobs'[q].by # session'
  <2>1. \A q \in Question : SoFar(q) /\ Excused(q) => Stay(q)
    BY <1>0, <1>2 DEF Excused, Dead, Disowned
  <2>2. messages[i].question \in Question
    BY <1>1
  <2>3. Stay(messages[i].question)
    BY <1>0, <1>10, <2>1, <2>2
  <2>4. messages'[i].question = messages[i].question
    BY <1>0
  <2> QED BY <2>3, <2>4 DEF Excused, Dead, Disowned
<1>3. ASSUME messages' = messages, panel.loading => panel'.loading
      PROVE  NoAnswerLost'
  <2>1. ASSUME NEW i \in DOMAIN messages, (Unanswered(i))'
        PROVE  (Excused(messages[i].question))'
    <3>1. Unanswered(i)
      BY <1>3, <2>1 DEF Unanswered
    <3>2. Excused(messages[i].question)
      BY <3>1 DEF NoAnswerLost
    <3> QED BY <1>0, <1>3, <3>2
  <2> QED BY <1>3, <2>1 DEF NoAnswerLost
<1>4. CASE Send
  <2>1. /\ ~panel.loading /\ panel'.loading
        /\ messages' = Append(messages, [role |-> "user", question |-> asked + 1])
    BY <1>4 DEF Send, Locked
  <2>2. /\ Len(messages') = Len(messages) + 1
        /\ messages'[Len(messages) + 1] =
             [role |-> "user", question |-> asked + 1]
        /\ \A i \in 1..Len(messages) : messages'[i] = messages[i]
    BY <2>1, Basics
  <2>3. ASSUME NEW i \in DOMAIN messages', (Unanswered(i))'
        PROVE  (Excused(messages[i].question))'
    <3>1. i \in 1..(Len(messages) + 1) /\ i # Len(messages')
      <4>1. DOMAIN messages' = 1..Len(messages')
        BY <2>1, Basics DEF TypeInv, TypeOK
      <4>2. i # Len(messages')
        BY <2>1, <2>3 DEF Unanswered
      <4> QED BY <2>1, <2>2, <2>3, <4>1, <4>2
    <3>2. i \in 1..Len(messages)
      BY <2>2, <3>1, Basics
    <3>3. Unanswered(i)
      <4>1. messages'[i] = messages[i] /\ messages[i].role = "user"
        BY <2>2, <2>3, <3>2 DEF Unanswered
      <4>2. CASE i = Len(messages)
        BY <2>1, <4>1, <4>2 DEF Unanswered
      <4>3. CASE i # Len(messages)
        <5>1. i + 1 \in 1..Len(messages) /\ i # Len(messages')
          BY <2>2, <3>2, <4>3, Basics
        <5> QED BY <2>2, <2>3, <4>1, <4>3, <5>1 DEF Unanswered
      <4> QED BY <4>2, <4>3
    <3> QED BY <1>1, <1>2, <1>10, <2>1, <2>2, <2>3, <3>2, <3>3 DEF NoAnswerLost
  <2> QED BY <2>3 DEF NoAnswerLost
<1>5. ASSUME NEW p \in polls, PollReturns(p), Heeded(p), ShowAnswer(p)
      PROVE  NoAnswerLost'
  <2>1. messages' = Append(messages, [role |-> "assistant", question |-> p.job])
    BY <1>5 DEF ShowAnswer
  <2>2. /\ Len(messages') = Len(messages) + 1
        /\ messages'[Len(messages) + 1] =
             [role |-> "assistant", question |-> p.job]
        /\ \A i \in 1..Len(messages) : messages'[i] = messages[i]
    BY <2>1, Basics
  <2>3. ASSUME NEW i \in DOMAIN messages', (Unanswered(i))'
        PROVE  (Excused(messages[i].question))'
    <3>1. i \in 1..(Len(messages) + 1) /\ i # Len(messages) + 1
      <4>1. DOMAIN messages' = 1..Len(messages')
        BY <2>1, Basics DEF TypeInv, TypeOK
      <4>2. messages'[i].role = "user"
        BY <2>3 DEF Unanswered
      <4> QED BY <2>2, <2>3, <4>1, <4>2
    <3>2. i \in 1..Len(messages) /\ i # Len(messages)
      <4>1. i \in 1..Len(messages)
        BY <3>1, Basics
      <4>2. ASSUME i = Len(messages) PROVE FALSE
        <5>1. i # Len(messages') /\ messages'[i + 1].role = "assistant"
          BY <2>2, <4>2, Basics
        <5> QED BY <2>3, <5>1 DEF Unanswered
      <4> QED BY <4>1, <4>2
    <3>3. i + 1 \in 1..Len(messages)
      BY <3>2, Basics
    <3>4. Unanswered(i)
      <4>1. i # Len(messages')
        BY <2>2, <3>2, Basics
      <4> QED BY <2>2, <2>3, <3>2, <3>3, <4>1 DEF Unanswered
    <3> QED BY <1>1, <1>2, <1>10, <2>2, <2>3, <3>2, <3>4 DEF NoAnswerLost
  <2> QED BY <2>3 DEF NoAnswerLost
<1>6. ASSUME NEW p \in polls, PollReturns(p), Heeded(p), Final(p.answer), GiveUp
      PROVE  NoAnswerLost'
  <2>1. messages' = messages /\ jobs' = jobs
    BY <1>6 DEF GiveUp, PollReturns
  <2>2. p.job = asked /\ panel.loading
    BY <1>6, HeededAwaited
  <2>3. messages[Len(messages)].question = asked
    BY <2>2 DEF Panelful, Awaited
  <2>4. Excused(p.job)
    <3>1. p.answer \in {"failed", "gone", "denied"}
      BY <1>6 DEF Final
    <3>2. CASE p.answer # "denied"
      BY <3>1, <3>2 DEF Truthful, Excused
    <3>3. CASE p.answer = "denied"
      <4>1. /\ Created(p.job) /\ jobs[p.job].by < p.session
            /\ p.session <= session
        BY <3>3 DEF Truthful
      <4>2. p.job \in Question /\ p.session \in Nat /\ session \in Nat
        BY Basics DEF PollState, Session
      <4>3. jobs[p.job].by \in Nat
        BY <4>2 DEF TypeInv, TypeOK, Session
      <4> QED BY <4>1, <4>2, <4>3 DEF Created, Excused, Disowned
    <3> QED BY <3>2, <3>3
  <2>5. ASSUME NEW i \in DOMAIN messages, (Unanswered(i))'
        PROVE  (Excused(messages[i].question))'
    <3>1. CASE i = Len(messages)
      <4>1. Excused(messages[i].question)
        BY <1>1, <2>2, <2>3, <2>4, <3>1
      <4> QED BY <1>0, <2>1, <4>1
    <3>2. CASE i # Len(messages)
      <4>1. Unanswered(i)
        BY <2>1, <2>5, <3>2 DEF Unanswered
      <4>2. Excused(messages[i].question)
        BY <4>1 DEF NoAnswerLost
      <4> QED BY <1>0, <2>1, <4>2
    <3> QED BY <3>1, <3>2
  <2> QED BY <2>1, <2>5 DEF NoAnswerLost
<1>7. ASSUME NEW p \in polls, PollReturns(p), Heeded(p) => PollAgain(p)
      PROVE  NoAnswerLost'
  <2>1. messages' = messages
    BY <1>7 DEF PollReturns, PollAgain
  <2>2. panel'.loading = panel.loading
    <3>1. CASE PollAgain(p)
      BY <3>1, Basics DEF PollAgain, PanelState
    <3>2. CASE ~Heeded(p)
      BY <1>7, <3>2 DEF PollReturns
    <3> QED BY <1>7, <3>1, <3>2
  <2> QED BY <1>3, <2>1, <2>2
<1>8. CASE \/ SendStep \/ RunEffect \/ TimerFires \/ SignIn
           \/ SaveDraft \/ SaveReturns \/ CancelDraft \/ UNCHANGED vars
           \/ \E p \in polls : PollServed(p)
           \/ \E q \in Question : JobStep(q)
  <2>1. messages' = messages
    BY <1>8 DEF SendStep, ResolveContext, PostServed, DispatchFails, SendReturns,
                SendFails, RunEffect, TimerFires, SignIn, SaveDraft,
                SaveReturns, CancelDraft, vars, PollServed, JobStep
  <2>2. CASE SendStep
    <3>1. ~SendFails
      BY DEF Calm
    <3>2. panel'.loading = panel.loading
      BY <2>2, <3>1, Basics DEF SendStep, ResolveContext, PostServed,
                                DispatchFails, SendReturns, PanelState
    <3> QED BY <1>3, <2>1, <3>2
  <2>3. CASE SaveDraft \/ SaveReturns \/ CancelDraft
    <3>1. panel'.loading = panel.loading
      BY <2>3, Basics DEF SaveDraft, SaveReturns, CancelDraft, PanelState
    <3> QED BY <1>3, <2>1, <3>1
  <2>4. CASE UNCHANGED panel
    BY <1>3, <2>1, <2>4
  <2> QED BY <1>8, <2>2, <2>3, <2>4
          DEF RunEffect, TimerFires, SignIn, vars, PollServed, JobStep
<1> QED BY <1>4, <1>5, <1>6, <1>7, <1>8 DEF Next, PollReturns

\* If only polls may fail, every step is calm.
LEMMA SteadyIsCalm ==
  ASSUME TypeInv, Truthful, Steady, [Next]_vars
  PROVE  Calm
<1>1. ~SendFails /\ \A q \in Question : ~DispatchFails(q)
  BY DEF SendFails, DispatchFails, Truthful, Steady
<1>2. ASSUME NEW r \in polls' \ polls
      PROVE  r.answer \in {None, "denied", "error", jobs[r.job].phase}
  <2>1. CASE RunEffect \/ TimerFires
    <3>1. \E gen, job, by : r = Request(gen, job, by)
      <4>1. \/ polls' = polls \cup {Request(effect.gen + 1, panel.job, session)}
            \/ polls' = polls \cup {Request(effect.gen, effect.job, effect.session)}
            \/ polls' = polls
        BY <2>1 DEF RunEffect, TimerFires
      <4> QED BY <1>2, <4>1, Zenon
    <3> QED BY <3>1 DEF Request
  <2>2. ASSUME NEW p \in polls, PollServed(p)
        PROVE  r.answer \in {None, "denied", "error", jobs[r.job].phase}
    <3>1. PICK answer \in Answers(p) :
            polls' = (polls \ {p}) \cup {[p EXCEPT !.answer = answer]}
      BY <2>2, Zenon DEF PollServed
    <3>2. r = [p EXCEPT !.answer = answer]
      BY <1>2, <3>1, Zenon
    <3>3. r.job = p.job /\ r.answer = answer
      BY <3>2, Basics DEF PollState
    <3>4. answer \in {"denied", "error", jobs[p.job].phase}
      BY DEF Answers, Steady
    <3> QED BY <3>3, <3>4
  <2>3. polls' \ polls # {}
    BY <1>2
  <2>4. polls' # polls /\ ~(polls' = {})
    BY <1>2
  <2>5. ASSUME NEW p \in polls, PollReturns(p) PROVE FALSE
    BY <2>3, <2>5 DEF PollReturns
  <2> QED
    BY <2>1, <2>2, <2>4, <2>5
       DEF Next, SendStep, Send, ResolveContext, PostServed, DispatchFails,
           SendReturns, SendFails, SaveDraft, SaveReturns, CancelDraft, SignIn,
           Reload, JobStep, vars
<1> QED
  BY <1>1, <1>2 DEF Calm, ReadLags

\* With POSTs that succeed and reads that do not lag, however many polls fail
\* and sessions follow each other, a question is left unanswered only if its
\* job has failed or expired, or the session it was asked in is over.
THEOREM AnswersAreShown == Steady => (Spec => []NoAnswerLost)
<1> SUFFICES ASSUME Steady PROVE Spec => []NoAnswerLost
  OBVIOUS
<1>1. Init => Truthful /\ NoAnswerLost
  <2>1. Init => NoAnswerLost
    BY DEF Init, NoAnswerLost
  <2> QED BY <2>1, TruthInit
<1>2. TypeInv /\ Panelful /\ TypeInv' /\ Truthful /\ NoAnswerLost /\ [Next]_vars
        => Truthful' /\ NoAnswerLost'
  BY SteadyIsCalm, TruthStep, LostStep
<1>3. Spec => [](Truthful /\ NoAnswerLost)
  BY <1>1, <1>2, PanelfulAlways, PTL DEF Spec
<1> QED BY <1>3, PTL

\* Up to the first POST that fails or read that lags, nothing is lost.
SoFarSoGood == ~disturbed => Truthful /\ NoAnswerLost

LEMMA SoFarSoGoodStep ==
  ASSUME TypeInv, TypeInv', Panelful, SoFarSoGood, [ChatNext \/ NotionNext]_all
  PROVE  SoFarSoGood'
<1> SUFFICES ASSUME ~disturbed' PROVE Truthful' /\ NoAnswerLost'
  BY DEF SoFarSoGood
<1>1. CASE ChatNext
  <2>1. Next /\ ~disturbed /\ ~PostFails /\ ~ReadLags
    BY <1>1 DEF ChatNext
  <2>2. ~SendFails
    <3>1. ASSUME SendFails PROVE FALSE
      <4>1. send.pc # "idle"
        BY <3>1 DEF SendFails
      <4>2. panel'.error
        BY <3>1, Basics DEF SendFails, PanelState
      <4> QED BY <2>1, <4>1, <4>2 DEF PostFails
    <3> QED BY <3>1
  <2>3. Calm
    BY <2>1, <2>2 DEF PostFails, Calm
  <2> QED BY <2>1, <2>3, TruthStep, LostStep DEF SoFarSoGood
<1>2. ASSUME UNCHANGED <<vars, disturbed>> PROVE Truthful' /\ NoAnswerLost'
  <2>1. Truthful /\ NoAnswerLost
    BY <1>2 DEF SoFarSoGood
  <2>2. Truthful'
    BY <1>2, <2>1 DEF vars, Truthful, OfSessionsSoFar, Created, Dead
  <2>3. NoAnswerLost'
    BY <1>2, <2>1 DEF vars, NoAnswerLost, Unanswered, Excused, Dead, Disowned
  <2> QED BY <2>2, <2>3
<1> QED
  BY <1>1, <1>2 DEF NotionNext, all

\* Up to the first POST that fails for good or read that lags, whatever else goes
\* wrong - polls that fail, reloads, sessions that follow each other - a question
\* is left unanswered only if its job has failed or expired, or the session it
\* was asked in is over (ChatPanel.tsx: pollJob).
THEOREM AnswersReachThePanel == MCSpec => []AnswersArrive
<1>1. MCSpec => Spec
  <2>1. [ChatNext \/ NotionNext]_all => [Next]_vars
    BY DEF ChatNext, NotionNext, all
  <2> QED
    BY <2>1, PTL DEF MCSpec, MCInit, Spec
<1>2. MCInit => SoFarSoGood
  <2>1. Init => NoAnswerLost
    BY DEF Init, NoAnswerLost
  <2> QED
    BY <2>1, TruthInit DEF MCInit, SoFarSoGood
<1>3. TypeInv /\ TypeInv' /\ Panelful /\ SoFarSoGood /\ [ChatNext \/ NotionNext]_all
        => SoFarSoGood'
  BY SoFarSoGoodStep
<1>4. MCSpec => []SoFarSoGood
  BY <1>1, <1>2, <1>3, PanelfulAlways, PTL DEF MCSpec
<1>5. SoFarSoGood => AnswersArrive
  BY DEF SoFarSoGood, AnswersArrive
<1> QED
  BY <1>4, <1>5, PTL
-----------------------------------------------------------------------------
(* The connection to Notion: types *)

\* Does the window hold an attempt that may still tell the panel of its end?
AtNotion == IF window.at \in {"notion", "callback"} THEN 1 ELSE 0

\* A window that is open was opened by a click, and a click has one message.
Opened == window.at # "closed" => window.id # 0 /\ window.for # 0
Counted == IsFiniteSet(starts) /\ posted + AtNotion + Cardinality(starts) <= clicks

NotionTypes == Notion!TypeOK /\ Opened /\ Counted

\* A sequence without one of its elements.
LEMMA RemovedAt ==
  ASSUME NEW S, NEW s \in Seq(S), NEW i \in 1..Len(s)
  PROVE  /\ Notion!RemoveAt(s, i) \in Seq(S)
         /\ Len(Notion!RemoveAt(s, i)) = Len(s) - 1
         /\ \A j \in 1..(Len(s) - 1) : Notion!RemoveAt(s, i)[j] = IF j < i THEN s[j] ELSE s[j + 1]
<1> DEFINE front == SubSeq(s, 1, i - 1)
           back == SubSeq(s, i + 1, Len(s))
<1>1. front \in Seq(S) /\ Len(front) = i - 1 /\ \A j \in 1..(i - 1) : front[j] = s[j]
  OBVIOUS
<1>2. /\ back \in Seq(S) /\ Len(back) = Len(s) - i
      /\ \A j \in 1..(Len(s) - i) : back[j] = s[i + j]
  OBVIOUS
<1>3. Notion!RemoveAt(s, i) = front \o back
  BY DEF Notion!RemoveAt
<1> HIDE DEF front, back
<1>4. /\ front \o back \in Seq(S) /\ Len(front \o back) = Len(front) + Len(back)
      /\ \A j \in 1..(Len(front) + Len(back)) :
           (front \o back)[j] = IF j <= Len(front) THEN front[j] ELSE back[j - Len(front)]
  BY <1>1, <1>2, ConcatProperties
<1>5. ASSUME NEW j \in 1..(Len(s) - 1)
      PROVE  Notion!RemoveAt(s, i)[j] = IF j < i THEN s[j] ELSE s[j + 1]
  <2>1. CASE j < i
    BY <1>1, <1>2, <1>3, <1>4, <2>1
  <2>2. CASE j >= i
    <3>1. j - Len(front) \in 1..(Len(s) - i) /\ i + (j - Len(front)) = j + 1
      BY <1>1, <2>2
    <3>2. (front \o back)[j] = back[j - Len(front)]
      BY <1>1, <1>2, <1>4, <2>2
    <3>3. back[j - Len(front)] = s[j + 1]
      BY <1>2, <3>1
    <3> QED
      BY <1>3, <2>2, <3>2, <3>3
  <2> QED
    BY <2>1, <2>2
<1> QED
  BY <1>1, <1>2, <1>3, <1>4, <1>5

\* The numbers among the state, and the records it is made of.
LEMMA NotionValues ==
  ASSUME NotionTypes
  PROVE  /\ MaxClicks \in Nat /\ 0 \in 0..MaxClicks
         /\ clicks \in Nat /\ clicks <= MaxClicks
         /\ posted \in Nat /\ Cardinality(starts) \in Nat
         /\ window.id \in Nat /\ window.for \in Nat /\ watched \in Nat
         /\ window = [id |-> window.id, for |-> window.for, at |-> window.at]
  BY NotionAssumption, FS_CardinalityType
     DEF NotionTypes, Counted, Notion!TypeOK, Notion!Window

\* A window that only goes elsewhere.
LEMMA WindowAt ==
  ASSUME NotionTypes,
         NEW at \in {"blank", "notion", "callback", "page", "panel", "closed"}
  PROVE  /\ [window EXCEPT !.at = at] \in Notion!Window
         /\ [window EXCEPT !.at = at].at = at
         /\ [window EXCEPT !.at = at].id = window.id
         /\ [window EXCEPT !.at = at].for = window.for
  BY DEF NotionTypes, Notion!TypeOK, Notion!Window

\* A reading that begins, with whatever token.
LEMMA BegunReading ==
  ASSUME NotionTypes, NEW token \in BOOLEAN, Notion!Read(token)
  PROVE  /\ readings' \in Seq(Notion!Reading) /\ readings' # <<>>
         /\ readings'[Len(readings')].answer = "none"
  BY DEF NotionTypes, Notion!TypeOK, Notion!Read, Notion!Begun, Notion!Reading

\* One attempt fewer waits for its address.
LEMMA StartLeft ==
  ASSUME NotionTypes, NEW s \in starts, starts' = starts \ {s}
  PROVE  /\ IsFiniteSet(starts') /\ Cardinality(starts') = Cardinality(starts) - 1
         /\ starts' \subseteq [click : Notion!Click, window : Notion!Click]
  BY FS_RemoveElement DEF NotionTypes, Counted, Notion!TypeOK

\* The window may only be closed when an attempt is given up.
LEMMA GivenUp ==
  ASSUME NotionTypes, Notion!GiveUp
  PROVE  /\ window' \in Notion!Window /\ window'.id = window.id /\ window'.for = window.for
         /\ window'.at \in {window.at, "closed"}
         /\ watched' = 0 /\ polling' = FALSE /\ connecting' = FALSE
  BY WindowAt DEF Notion!GiveUp, NotionTypes, Notion!TypeOK

\* The readings with those before the one that is shown marked as late.
LEMMA MarkedReadings ==
  ASSUME NotionTypes, NEW i \in DOMAIN readings
  PROVE  LET marked == [j \in DOMAIN readings |->
                          [readings[j] EXCEPT !.late = @ \/ j < i]]
         IN  /\ marked \in Seq(Notion!Reading) /\ Len(marked) = Len(readings)
             /\ i \in 1..Len(marked)
<1> DEFINE marked == [j \in DOMAIN readings |->
                        [readings[j] EXCEPT !.late = @ \/ j < i]]
<1>1. /\ readings \in Seq(Notion!Reading)
      /\ DOMAIN readings = 1..Len(readings) /\ Len(readings) \in Nat
  BY DEF NotionTypes, Notion!TypeOK
<1>2. ASSUME NEW j \in DOMAIN readings PROVE marked[j] \in Notion!Reading
  <2>1. SUFFICES ASSUME NEW b, b = (readings[j].late \/ j < i)
                 PROVE  [readings[j] EXCEPT !.late = b] \in Notion!Reading
    OBVIOUS
  <2>2. readings[j] \in Notion!Reading /\ b \in BOOLEAN
    BY <1>1, <2>1
  <2> QED
    BY <2>2 DEF Notion!Reading
<1>3. marked \in [1..Len(readings) -> Notion!Reading]
  BY <1>1, <1>2
<1> HIDE DEF marked
<1>4. marked \in Seq(Notion!Reading) /\ Len(marked) = Len(readings) /\ i \in 1..Len(marked)
  BY <1>1, <1>3, SeqDef, LenProperties
<1> QED
  BY <1>4 DEF marked

LEMMA NotionTypesInitially == Notion!Init => NotionTypes
<1> SUFFICES ASSUME Notion!Init PROVE NotionTypes
  OBVIOUS
<1>1. Notion!TypeOK
  <2>1. window \in Notion!Window
    BY NotionAssumption DEF Notion!Init, Notion!Window
  <2>2. Notion!Begun(FALSE) \in Notion!Reading
    BY DEF Notion!Begun, Notion!Reading
  <2>3. readings \in Seq(Notion!Reading)
    <3>1. readings = <<>> \/ readings = <<Notion!Begun(FALSE)>>
      BY DEF Notion!Init, Notion!MountToken
    <3>2. \A r \in Notion!Reading : <<r>> \in Seq(Notion!Reading)
      OBVIOUS
    <3>3. CASE readings = <<>>
      BY <3>3
    <3>4. CASE readings = <<Notion!Begun(FALSE)>>
      BY <2>2, <3>2, <3>4
    <3> QED
      BY <3>1, <3>3, <3>4
  <2>4. connection \in Notion!Connection
    BY DEF Notion!Init, Notion!Connection
  <2>5. 0 \in 0..MaxClicks
    BY NotionAssumption
  <2> QED
    BY <2>1, <2>3, <2>4, <2>5 DEF Notion!Init, Notion!TypeOK
<1>2. Opened /\ Counted
  BY FS_EmptySet DEF Notion!Init, Opened, Counted, AtNotion
<1> QED
  BY <1>1, <1>2 DEF NotionTypes

\* The steps of the panel, its window and the API keep the types.
LEMMA NotionTypesStep == NotionTypes /\ Notion!Next => NotionTypes'
<1> SUFFICES ASSUME NotionTypes, Notion!Next PROVE NotionTypes'
  OBVIOUS
<1> USE DEF NotionTypes
<1>1. ASSUME readings' \in Seq(Notion!Reading), signedIn' \in BOOLEAN, doubtful' \in BOOLEAN,
             shown' \in {"unknown", "connected", "disconnected"},
             UNCHANGED <<site, connecting, clicks, starts, window, watched, polling, posted,
                         callbacks>>,
             connection' \in Notion!Connection
      PROVE  NotionTypes'
  BY <1>1 DEF Notion!TypeOK, Opened, Counted, AtNotion
<1>2. ASSUME NEW i \in DOMAIN readings, Notion!Serve(i) PROVE NotionTypes'
  <2>1. PICK answer \in Notion!AnswersTo(readings[i].token) :
          readings' = [readings EXCEPT ![i].answer = answer]
    BY <1>2 DEF Notion!Serve
  <2>2. answer \in Notion!Answer
    BY <2>1 DEF Notion!AnswersTo, Notion!Answer
  <2>3. readings[i] \in Notion!Reading
    BY DEF Notion!TypeOK
  <2>4. [readings[i] EXCEPT !.answer = answer] \in Notion!Reading
    BY <2>2, <2>3 DEF Notion!Reading
  <2>5. readings' \in Seq(Notion!Reading)
    BY <2>1, <2>4 DEF Notion!TypeOK
  <2> QED
    BY <1>1, <1>2, <2>5 DEF Notion!Serve, Notion!popup, Notion!api, Notion!TypeOK
<1>3. ASSUME NEW i \in DOMAIN readings, Notion!Show(i) PROVE NotionTypes'
  <2> DEFINE marked == [j \in DOMAIN readings |->
                          [readings[j] EXCEPT !.late = @ \/ j < i]]
  <2>1. marked \in Seq(Notion!Reading) /\ i \in 1..Len(marked)
    BY MarkedReadings
  <2>2. readings' = Notion!RemoveAt(marked, i)
    BY <1>3 DEF Notion!Show
  <2>3. readings' \in Seq(Notion!Reading)
    BY <2>1, <2>2, RemovedAt
  <2>4. doubtful' \in BOOLEAN /\ shown' \in {"unknown", "connected", "disconnected"}
    BY <1>3 DEF Notion!Show
  <2> QED
    BY <1>1, <1>3, <2>3, <2>4 DEF Notion!Show, Notion!popup, Notion!api, Notion!TypeOK
<1>4. CASE Notion!SignIn \/ Notion!Focus
  <2>1. \E token \in BOOLEAN : Notion!Read(token)
    BY <1>4 DEF Notion!SignIn, Notion!Focus, Notion!TypeOK
  <2>2. readings' \in Seq(Notion!Reading)
    BY <2>1, BegunReading
  <2> QED
    BY <1>1, <1>4, <2>2
       DEF Notion!SignIn, Notion!Focus, Notion!popup, Notion!api, Notion!TypeOK
<1>5. CASE Notion!Connect
  <2> DEFINE c == clicks + 1
             id == IF window.at = "closed" THEN c ELSE window.id
             s == [click |-> c, window |-> id]
  <2>1. /\ window' = [id |-> id, for |-> c, at |-> "blank"] /\ clicks' = c
        /\ watched' = id /\ connecting' = TRUE /\ starts' = starts \cup {s}
    BY <1>5 DEF Notion!Connect, Notion!OpenWindow
  <2>2. c \in Notion!Click /\ clicks < MaxClicks
    BY <1>5, NotionValues DEF Notion!Connect, Notion!MayConnect, Notion!Click
  <2>3. id \in Notion!Click
    BY <2>2, NotionValues DEF Opened, Notion!TypeOK, Notion!Window, Notion!Click
  <2>4. IsFiniteSet(starts') /\ Cardinality(starts') <= Cardinality(starts) + 1
        /\ Cardinality(starts') \in Nat
    <3> HIDE DEF s
    <3>1. IsFiniteSet(starts \cup {s})
          /\ Cardinality(starts \cup {s}) \in {Cardinality(starts), Cardinality(starts) + 1}
      BY FS_AddElement DEF Counted
    <3> QED
      BY <2>1, <3>1, NotionValues
  <2> HIDE DEF c, id, s
  <2>5. s \in [click : Notion!Click, window : Notion!Click]
    BY <2>2, <2>3 DEF s
  <2>6. window' \in Notion!Window /\ window'.at = "blank"
        /\ window'.id # 0 /\ window'.for # 0
    BY <2>1, <2>2, <2>3, NotionValues DEF Notion!Window, Notion!Click
  <2>7. Counted'
    BY <1>5, <2>1, <2>4, <2>6, NotionValues DEF Counted, AtNotion, Notion!Connect, c
  <2>8. clicks' \in 0..MaxClicks /\ watched' \in 0..MaxClicks
    BY <2>1, <2>2, <2>3, NotionValues DEF Notion!Click
  <2>9. starts' \subseteq [click : Notion!Click, window : Notion!Click]
    BY <2>1, <2>5 DEF Notion!TypeOK
  <2> QED
    BY <1>5, <2>1, <2>6, <2>7, <2>8, <2>9
       DEF Notion!Connect, Notion!api, Notion!status, Notion!TypeOK, Opened
<1>6. CASE Notion!ConnectBlocked
  <2>1. clicks' = clicks + 1 /\ clicks' \in 0..MaxClicks
    BY <1>6, NotionValues DEF Notion!ConnectBlocked, Notion!MayConnect
  <2>2. /\ window' \in Notion!Window /\ window'.id = window.id /\ window'.for = window.for
        /\ window'.at \in {window.at, "closed"}
        /\ watched' = 0 /\ polling' = FALSE /\ connecting' = FALSE
    BY <1>6, GivenUp DEF Notion!ConnectBlocked
  <2>3. Counted'
    BY <1>6, <2>1, <2>2, NotionValues DEF Notion!ConnectBlocked, Counted, AtNotion
  <2>4. watched' \in 0..MaxClicks /\ connecting' \in BOOLEAN /\ polling' \in BOOLEAN
    BY <2>2, NotionValues
  <2>5. Opened'
    BY <2>2 DEF Opened
  <2> QED
    BY <1>6, <2>1, <2>2, <2>3, <2>4, <2>5
       DEF Notion!ConnectBlocked, Notion!api, Notion!status, Notion!TypeOK
<1>7. ASSUME NEW s \in starts, Notion!StartFails(s) PROVE NotionTypes'
  <2>1. /\ window' \in Notion!Window /\ window'.id = window.id /\ window'.for = window.for
        /\ window'.at \in {window.at, "closed"}
        /\ watched' = 0 /\ polling' = FALSE /\ connecting' = FALSE
    BY <1>7, GivenUp DEF Notion!StartFails
  <2>2. /\ IsFiniteSet(starts') /\ Cardinality(starts') = Cardinality(starts) - 1
        /\ starts' \subseteq [click : Notion!Click, window : Notion!Click]
    BY <1>7, StartLeft DEF Notion!StartFails
  <2>3. Counted'
    BY <1>7, <2>1, <2>2, NotionValues DEF Notion!StartFails, Counted, AtNotion
  <2>4. watched' \in 0..MaxClicks /\ connecting' \in BOOLEAN /\ polling' \in BOOLEAN
    BY <2>1, NotionValues
  <2>5. Opened'
    BY <2>1 DEF Opened
  <2> QED
    BY <1>7, <2>1, <2>2, <2>3, <2>4, <2>5
       DEF Notion!StartFails, Notion!api, Notion!status, Notion!TypeOK
<1>8. ASSUME NEW s \in starts, Notion!StartReturns(s) PROVE NotionTypes'
  <2>1. s.click \in Notion!Click
    BY DEF Notion!TypeOK
  <2>2. \/ window' = window
        \/ window' = [window EXCEPT !.at = "notion", !.for = s.click] /\ window.at # "closed"
    BY <1>8 DEF Notion!StartReturns, Notion!Open
  <2>3. /\ window' \in Notion!Window
        /\ window'.at # "closed" => window'.id # 0 /\ window'.for # 0
    <3>1. s.click \in Nat /\ s.click # 0 /\ s.click \in 0..MaxClicks
      BY <2>1, NotionValues DEF Notion!Click
    <3>2. \A w \in Notion!Window :
            /\ [w EXCEPT !.at = "notion", !.for = s.click] \in Notion!Window
            /\ [w EXCEPT !.at = "notion", !.for = s.click].id = w.id
            /\ [w EXCEPT !.at = "notion", !.for = s.click].for = s.click
      BY <3>1 DEF Notion!Window
    <3> QED
      BY <2>2, <3>1, <3>2 DEF Notion!TypeOK, Opened
  <2>4. /\ IsFiniteSet(starts') /\ Cardinality(starts') = Cardinality(starts) - 1
        /\ starts' \subseteq [click : Notion!Click, window : Notion!Click]
    BY <1>8, StartLeft DEF Notion!StartReturns
  <2>5. AtNotion' <= AtNotion + 1 /\ AtNotion \in Nat /\ AtNotion' \in Nat
    BY <2>2 DEF AtNotion
  <2>6. Counted'
    BY <1>8, <2>4, <2>5, NotionValues DEF Notion!StartReturns, Counted
  <2> QED
    BY <1>8, <2>3, <2>4, <2>6
       DEF Notion!StartReturns, Notion!api, Notion!status, Notion!TypeOK, Opened
<1>9. CASE Notion!Tick \/ Notion!MessageArrives
  <2>1. Notion!EndWatch /\ \E token \in BOOLEAN : Notion!Read(token)
    BY <1>9 DEF Notion!Tick, Notion!MessageArrives, Notion!TypeOK, Notion!MountToken
  <2>2. readings' \in Seq(Notion!Reading)
    BY <2>1, BegunReading
  <2>3. /\ window' \in Notion!Window /\ window'.id = window.id /\ window'.for = window.for
        /\ window'.at \in {window.at, "closed"}
    BY <1>9, WindowAt DEF Notion!Tick, Notion!MessageArrives, Notion!TypeOK
  <2>4. posted' \in Nat /\ posted' <= posted
    BY <1>9, NotionValues DEF Notion!Tick, Notion!MessageArrives
  <2>5. UNCHANGED <<site, signedIn, shown, clicks, starts, callbacks, connection, doubtful>>
    BY <1>9 DEF Notion!Tick, Notion!MessageArrives, Notion!api
  <2>6. Counted'
    BY <2>3, <2>4, <2>5, NotionValues DEF Counted, AtNotion
  <2>7. posted' \in 0..MaxClicks
    BY <2>4, NotionValues DEF Notion!TypeOK
  <2>8. watched' \in 0..MaxClicks /\ connecting' \in BOOLEAN /\ polling' \in BOOLEAN
    BY <2>1, NotionValues DEF Notion!EndWatch
  <2>9. Opened'
    BY <2>3 DEF Opened
  <2> QED
    BY <2>1, <2>2, <2>3, <2>5, <2>6, <2>7, <2>8, <2>9 DEF Notion!TypeOK
<1>10. CASE Notion!Agree
  <2>1. /\ window' \in Notion!Window /\ window'.id = window.id /\ window'.for = window.for
        /\ window'.at = "callback" /\ window.at = "notion"
    BY <1>10, WindowAt DEF Notion!Agree
  <2>2. window.for \in Notion!Click
    BY <2>1 DEF Opened, Notion!TypeOK, Notion!Window, Notion!Click
  <2> QED
    BY <1>10, <2>1, <2>2 DEF Notion!Agree, Notion!status, Notion!TypeOK, Opened, Counted, AtNotion
<1>11. CASE Notion!CloseWindow
  <2>1. window' \in Notion!Window /\ window'.at = "closed"
    BY <1>11, WindowAt DEF Notion!CloseWindow
  <2>2. Counted'
    BY <1>11, <2>1, NotionValues DEF Notion!CloseWindow, Counted, AtNotion
  <2> QED
    BY <1>11, <2>1, <2>2
       DEF Notion!CloseWindow, Notion!api, Notion!status, Notion!TypeOK, Opened
<1>12. ASSUME NEW c \in callbacks, NEW ok \in BOOLEAN, Notion!CallbackReturns(c, ok)
       PROVE  NotionTypes'
  <2> DEFINE here == window.at = "callback" /\ window.for = c
  <2>1. connection' \in Notion!Connection
    BY <1>12 DEF Notion!CallbackReturns, Notion!TypeOK, Notion!Connection
  <2>2. /\ UNCHANGED <<site, signedIn, connecting, clicks, starts, watched, polling, shown,
                       readings, doubtful>>
        /\ callbacks' \subseteq callbacks
    BY <1>12 DEF Notion!CallbackReturns, Notion!status
  <2>3. CASE here
    <3>1. Notion!RunPage(ok)
      BY <1>12, <2>3 DEF Notion!CallbackReturns
    <3>2. /\ window' \in Notion!Window /\ window'.id = window.id /\ window'.for = window.for
          /\ window'.at \in {"closed", "panel", "page"}
      BY <3>1, WindowAt DEF Notion!RunPage
    <3>3. posted' \in {posted, posted + 1}
      BY <3>1 DEF Notion!RunPage
    <3>4. AtNotion = 1 /\ AtNotion' = 0
      BY <2>3, <3>2 DEF AtNotion
    <3>5. Counted' /\ posted' \in 0..MaxClicks
      BY <2>2, <3>3, <3>4, NotionValues DEF Counted
    <3> QED
      BY <2>1, <2>2, <2>3, <3>2, <3>5 DEF Notion!TypeOK, Opened
  <2>4. CASE ~here
    <3>1. UNCHANGED <<window, posted>>
      BY <1>12, <2>4 DEF Notion!CallbackReturns
    <3> QED
      BY <2>1, <2>2, <3>1 DEF Notion!TypeOK, Opened, Counted, AtNotion
  <2> QED
    BY <2>3, <2>4
<1>13. CASE Notion!Disconnect
  BY <1>1, <1>13 DEF Notion!Disconnect, Notion!popup, Notion!Connection, Notion!TypeOK
<1> QED
  BY <1>2, <1>3, <1>4, <1>5, <1>6, <1>7, <1>8, <1>9, <1>10, <1>11, <1>12, <1>13
     DEF Notion!Next, Notion!Answered, Notion!Started, Notion!Returned, Notion!User

-----------------------------------------------------------------------------
(* The connection to Notion: what is shown *)

\* Where the callback's page has an opener of another origin, or none, nothing
\* but the interval ends an attempt.
NoMessages == "alone" \in site \/ "together" \notin site

\* There is one attempt at a time then, and it lasts as long as its window.
OneAttempt ==
  NoMessages =>
    /\ posted = 0
    /\ starts # {} => connecting
    /\ \A s, t \in starts : s = t
    /\ polling => connecting /\ starts = {}
    /\ window.at \in {"notion", "callback"} => connecting /\ starts = {}

\* The reading r will show the connection, or nothing that can be relied on.
Tells(r) ==
  \/ r.answer \in {"none", "connected", "failed"}
  \/ r.late \/ ~Notion!Accepts(r.token)

\* The last reading does, or what it showed did.
LastTells ==
  IF readings = <<>> THEN shown = "connected" \/ doubtful
  ELSE Tells(readings[Len(readings)])

\* A connection that was seen is shown, or a message or the interval will have
\* it read.
SeenIsTold ==
  connection.there /\ connection.seen =>
    LastTells \/ posted > 0 \/ (NoMessages /\ connecting /\ starts = {})

NotionInv == AttemptIsWatched /\ OneAttempt /\ SeenIsTold

\* Whatever ends an attempt ends its showing, and a click starts both anew.
LEMMA WatchedStep ==
  NotionTypes /\ AttemptIsWatched /\ Notion!Next => AttemptIsWatched'
<1> SUFFICES ASSUME NotionTypes, AttemptIsWatched, Notion!Next PROVE AttemptIsWatched'
  OBVIOUS
<1> USE DEF AttemptIsWatched, Notion!AttemptIsWatched
<1>1. ASSUME UNCHANGED <<connecting, clicks, starts, watched, polling>>,
             window'.id = window.id
      PROVE  AttemptIsWatched'
  BY <1>1
<1>2. ASSUME connecting' = FALSE PROVE AttemptIsWatched'
  BY <1>2
<1>3. CASE Notion!Connect
  <2>1. window'.id # 0 /\ watched' = window'.id
    BY <1>3, NotionValues DEF Notion!Connect, Notion!OpenWindow, NotionTypes, Opened
  <2>2. [click |-> clicks + 1, window |-> window'.id] \in starts' /\ clicks' = clicks + 1
    BY <1>3 DEF Notion!Connect
  <2> QED
    BY <2>1, <2>2
<1>4. ASSUME NEW s \in starts, Notion!StartReturns(s) PROVE AttemptIsWatched'
  <2>1. window'.id = window.id
    BY <1>4 DEF Notion!StartReturns, NotionTypes, Notion!TypeOK, Notion!Window
  <2> QED
    BY <1>4, <2>1 DEF Notion!StartReturns
<1>5. CASE Notion!ConnectBlocked \/ Notion!Tick \/ Notion!MessageArrives
           \/ \E s \in starts : Notion!StartFails(s)
  BY <1>2, <1>5 DEF Notion!ConnectBlocked, Notion!GiveUp, Notion!Tick, Notion!EndWatch,
     Notion!MessageArrives, Notion!StartFails
<1>6. ASSUME NEW c \in callbacks, NEW ok \in BOOLEAN, Notion!CallbackReturns(c, ok)
      PROVE  AttemptIsWatched'
  <2>1. window'.id = window.id
    BY <1>6, WindowAt DEF Notion!CallbackReturns, Notion!RunPage
  <2> QED
    BY <1>1, <1>6, <2>1 DEF Notion!CallbackReturns
<1>7. CASE Notion!Agree \/ Notion!CloseWindow
  BY <1>1, <1>7, WindowAt DEF Notion!Agree, Notion!CloseWindow
<1>8. CASE Notion!Answered \/ Notion!SignIn \/ Notion!Focus \/ Notion!Disconnect
  BY <1>1, <1>8 DEF Notion!Answered, Notion!Serve, Notion!Show, Notion!SignIn, Notion!Focus,
     Notion!Disconnect, Notion!popup
<1> QED
  BY <1>3, <1>4, <1>5, <1>6, <1>7, <1>8
     DEF Notion!Next, Notion!Started, Notion!Returned, Notion!User

\* Without messages an attempt is not ended while its window is at Notion or
\* waits for the callback.
LEMMA OneAttemptStep ==
  NotionTypes /\ AttemptIsWatched /\ OneAttempt /\ Notion!Next => OneAttempt'
<1> SUFFICES ASSUME NotionTypes, AttemptIsWatched, OneAttempt, NoMessages, Notion!Next
             PROVE  OneAttempt'
  <2>1. Notion!Next => UNCHANGED site
    BY DEF Notion!Next, Notion!Answered, Notion!Serve, Notion!Show, Notion!Started,
       Notion!StartReturns, Notion!StartFails, Notion!Tick, Notion!MessageArrives,
       Notion!Returned, Notion!CallbackReturns, Notion!User, Notion!SignIn, Notion!Focus,
       Notion!Connect, Notion!ConnectBlocked, Notion!Agree, Notion!CloseWindow,
       Notion!Disconnect
  <2> QED
    BY <2>1 DEF OneAttempt, NoMessages
<1> USE DEF OneAttempt
<1>1. ASSUME UNCHANGED <<connecting, starts, polling, posted>>,
             window'.at \in {"notion", "callback"} => window.at \in {"notion", "callback"}
      PROVE  OneAttempt'
  BY <1>1
<1>2. CASE Notion!Connect
  <2>1. /\ starts = {} /\ window'.at = "blank" /\ connecting' = TRUE
        /\ ~polling' /\ posted' = posted
    BY <1>2 DEF Notion!Connect, Notion!MayConnect, Notion!OpenWindow
  <2>2. \A s, t \in starts' : s = t
    BY <1>2, <2>1 DEF Notion!Connect
  <2> QED
    BY <2>1, <2>2
<1>3. CASE Notion!ConnectBlocked
  <2>1. /\ starts' = {} /\ window.at \notin {"notion", "callback"}
        /\ ~polling' /\ posted' = posted
    BY <1>3 DEF Notion!ConnectBlocked, Notion!MayConnect, Notion!GiveUp
  <2>2. window'.at \notin {"notion", "callback"}
    BY <1>3, <2>1, GivenUp DEF Notion!ConnectBlocked
  <2> QED
    BY <2>1, <2>2
<1>4. ASSUME NEW s \in starts, Notion!StartFails(s) PROVE OneAttempt'
  <2>1. /\ starts' = {} /\ window.at \notin {"notion", "callback"}
        /\ ~polling' /\ posted' = posted
    BY <1>4 DEF Notion!StartFails, Notion!GiveUp
  <2>2. window'.at \notin {"notion", "callback"}
    BY <1>4, <2>1, GivenUp DEF Notion!StartFails
  <2> QED
    BY <2>1, <2>2
<1>5. ASSUME NEW s \in starts, Notion!StartReturns(s) PROVE OneAttempt'
  BY <1>5 DEF Notion!StartReturns
<1>6. CASE Notion!Tick
  <2>1. window.at \notin {"notion", "callback"}
    BY <1>6 DEF Notion!Tick, Notion!Over, Notion!Open, AttemptIsWatched,
       Notion!AttemptIsWatched
  <2>2. window'.at \notin {"notion", "callback"}
    BY <1>6, <2>1, WindowAt DEF Notion!Tick
  <2>3. starts' = starts /\ ~polling' /\ posted' = posted
    BY <1>6 DEF Notion!Tick, Notion!EndWatch
  <2>4. starts = {}
    BY <1>6 DEF Notion!Tick
  <2> QED
    BY <2>2, <2>3, <2>4
<1>7. CASE Notion!MessageArrives
  BY <1>7 DEF Notion!MessageArrives
<1>8. CASE Notion!Agree
  BY <1>1, <1>8 DEF Notion!Agree
<1>9. CASE Notion!CloseWindow
  BY <1>1, <1>9, WindowAt DEF Notion!CloseWindow, Notion!api, Notion!status
<1>10. ASSUME NEW c \in callbacks, NEW ok \in BOOLEAN, Notion!CallbackReturns(c, ok)
       PROVE  OneAttempt'
  <2>1. posted' = posted
    BY <1>10 DEF Notion!CallbackReturns, Notion!RunPage, NoMessages
  <2>2. window' = window \/ window'.at \in {"closed", "panel", "page"}
    BY <1>10, WindowAt DEF Notion!CallbackReturns, Notion!RunPage
  <2> QED
    BY <1>1, <1>10, <2>1, <2>2 DEF Notion!CallbackReturns
<1>11. CASE Notion!Answered \/ Notion!SignIn \/ Notion!Focus \/ Notion!Disconnect
  BY <1>1, <1>11 DEF Notion!Answered, Notion!Serve, Notion!Show, Notion!SignIn, Notion!Focus,
     Notion!Disconnect, Notion!popup
<1> QED
  BY <1>2, <1>3, <1>4, <1>5, <1>6, <1>7, <1>8, <1>9, <1>10, <1>11
     DEF Notion!Next, Notion!Started, Notion!Returned, Notion!User

\* A reading that begins tells, whatever was shown before.
LEMMA ReadingTells ==
  ASSUME NotionTypes, NEW token \in BOOLEAN, Notion!Read(token)
  PROVE  SeenIsTold'
  BY BegunReading DEF SeenIsTold, LastTells, Tells

\* What the last reading tells is not lost: only it, and what it shows, counts.
LEMMA ToldStep ==
  NotionTypes /\ OneAttempt /\ SeenIsTold /\ Notion!Next => SeenIsTold'
<1> SUFFICES ASSUME NotionTypes, OneAttempt, SeenIsTold, Notion!Next PROVE SeenIsTold'
  OBVIOUS
<1>1. readings \in Seq(Notion!Reading) /\ Len(readings) \in Nat
  BY DEF NotionTypes, Notion!TypeOK
<1>2. ASSUME UNCHANGED <<site, connection, shown, doubtful, readings, posted>>,
             NoMessages /\ posted = 0 /\ connecting /\ starts = {}
               => connecting' /\ starts' = {}
      PROVE  SeenIsTold'
  <2>1. LastTells' <=> LastTells
    BY <1>2 DEF LastTells, Tells, Notion!Accepts
  <2>2. posted \in Nat
    BY NotionValues
  <2> QED
    BY <1>2, <2>1, <2>2 DEF SeenIsTold, NoMessages
<1>3. ASSUME NEW i \in DOMAIN readings, Notion!Serve(i) PROVE SeenIsTold'
  <2>1. PICK answer \in Notion!AnswersTo(readings[i].token) :
          readings' = [readings EXCEPT ![i].answer = answer]
    BY <1>3 DEF Notion!Serve
  <2>2. /\ readings # <<>> /\ readings' # <<>> /\ Len(readings') = Len(readings)
        /\ Len(readings) \in DOMAIN readings
    BY <1>1, <2>1
  <2>3. UNCHANGED <<site, connecting, starts, posted, connection>>
    BY <1>3 DEF Notion!Serve, Notion!popup, Notion!api
  <2>4. CASE i = Len(readings)
    <3>1. readings[i] \in Notion!Reading
      BY <1>1
    <3>2. readings'[i].answer = answer /\ readings'[i].token = readings[i].token
      BY <1>1, <2>1, <3>1 DEF Notion!Reading
    <3>3. connection.there => answer \in {"connected", "failed"}
                              \/ ~Notion!Accepts(readings[i].token)
      BY <2>1 DEF Notion!AnswersTo
    <3>4. PICK r : r = readings'[Len(readings')] /\ r = readings'[i]
      BY <2>2, <2>4
    <3>5. connection.there => Tells(r)'
      BY <2>3, <3>2, <3>3, <3>4 DEF Tells, Notion!Accepts
    <3> QED
      BY <2>2, <2>3, <3>4, <3>5 DEF SeenIsTold, LastTells
  <2>5. CASE i # Len(readings)
    <3>1. readings'[Len(readings)] = readings[Len(readings)]
      BY <1>1, <2>1, <2>2, <2>5
    <3>2. LastTells => LastTells'
      BY <2>2, <2>3, <3>1 DEF LastTells, Tells, Notion!Accepts
    <3> QED
      BY <2>3, <3>2 DEF SeenIsTold, NoMessages
  <2> QED
    BY <2>4, <2>5
<1>4. ASSUME NEW i \in DOMAIN readings, Notion!Show(i) PROVE SeenIsTold'
  <2> DEFINE marked == [j \in DOMAIN readings |->
                          [readings[j] EXCEPT !.late = @ \/ j < i]]
             last == Len(readings)
  <2>1. /\ marked \in Seq(Notion!Reading) /\ Len(marked) = last
        /\ i \in 1..last /\ readings' = Notion!RemoveAt(marked, i)
    BY <1>4, MarkedReadings DEF Notion!Show
  <2>2. /\ readings' \in Seq(Notion!Reading) /\ Len(readings') = last - 1
        /\ \A j \in 1..(last - 1) :
             readings'[j] = IF j < i THEN marked[j] ELSE marked[j + 1]
    <3> HIDE DEF marked
    <3> QED
      BY <2>1, RemovedAt
  <2>3. UNCHANGED <<site, connecting, starts, posted, connection>>
    BY <1>4 DEF Notion!Show, Notion!popup, Notion!api
  <2>4. CASE i = last
    <3>1. CASE last = 1
      <4>1. readings' = <<>> /\ readings # <<>>
        <5> HIDE DEF marked
        <5> QED
          BY <1>1, <2>2, <3>1
      <4>2. readings[last].answer \in {"connected", "disconnected", "failed"}
        <5>1. readings[i] \in Notion!Reading
          BY <1>1
        <5>2. readings[i].answer # "none"
          BY <1>4 DEF Notion!Show
        <5> QED
          BY <2>4, <5>1, <5>2 DEF Notion!Reading, Notion!Answer
      <4>3. LastTells => LastTells'
        BY <1>4, <2>3, <2>4, <4>1, <4>2 DEF Notion!Show, LastTells, Tells
      <4> QED
        BY <2>3, <4>3 DEF SeenIsTold, NoMessages
    <3>2. CASE last > 1
      <4>1. readings' # <<>> /\ Len(readings') \in 1..(last - 1) /\ Len(readings') < i
        BY <1>1, <2>2, <2>4, <3>2
      <4>2. readings'[Len(readings')] = marked[Len(readings')]
        BY <2>2, <4>1
      <4>3. Len(readings') \in DOMAIN readings
        BY <1>1, <4>1
      <4>4. readings[Len(readings')] \in Notion!Reading
        BY <1>1, <4>3
      <4>5. readings'[Len(readings')].late
        BY <4>1, <4>2, <4>3, <4>4 DEF Notion!Reading
      <4>6. PICK r : r = readings'[Len(readings')]
        OBVIOUS
      <4> QED
        BY <4>1, <4>5, <4>6 DEF SeenIsTold, LastTells, Tells
    <3>3. last \in Nat /\ last # 0
      BY <1>1
    <3> QED
      BY <3>1, <3>2, <3>3
  <2>5. CASE i < last
    <3>1. /\ readings # <<>> /\ readings' # <<>>
          /\ Len(readings') \in 1..(last - 1) /\ ~(Len(readings') < i)
          /\ Len(readings') + 1 = last
      <4> HIDE DEF marked
      <4> QED
        BY <1>1, <2>1, <2>2, <2>5
    <3>2. readings'[Len(readings')] = marked[last]
      <4> HIDE DEF marked
      <4> QED
        BY <2>2, <3>1
    <3>3. last \in DOMAIN readings /\ readings[last] \in Notion!Reading
      BY <1>1, <2>1
    <3>4. marked[last] = [readings[last] EXCEPT !.late = @ \/ last < i]
      BY <3>3
    <3>5. /\ marked[last].answer = readings[last].answer
          /\ marked[last].token = readings[last].token
          /\ readings[last].late => marked[last].late
      BY <3>3, <3>4 DEF Notion!Reading
    <3> HIDE DEF marked
    <3>6. LastTells => LastTells'
      BY <2>3, <3>1, <3>2, <3>5 DEF LastTells, Tells, Notion!Accepts
    <3> QED
      BY <2>3, <3>6 DEF SeenIsTold, NoMessages
  <2> QED
    BY <1>1, <2>1, <2>4, <2>5
<1>5. CASE Notion!SignIn \/ Notion!Focus \/ Notion!Tick \/ Notion!MessageArrives
  <2>1. \E token \in BOOLEAN : Notion!Read(token)
    BY <1>5 DEF Notion!SignIn, Notion!Focus, Notion!Tick, Notion!MessageArrives,
       Notion!MountToken, NotionTypes, Notion!TypeOK
  <2> QED
    BY <2>1, ReadingTells
<1>6. CASE Notion!Connect \/ Notion!ConnectBlocked
  BY <1>2, <1>6 DEF Notion!Connect, Notion!ConnectBlocked, Notion!MayConnect, Notion!api,
     Notion!status
<1>7. ASSUME NEW s \in starts, Notion!StartReturns(s) \/ Notion!StartFails(s)
      PROVE  SeenIsTold'
  BY <1>2, <1>7 DEF Notion!StartReturns, Notion!StartFails, Notion!api, Notion!status
<1>8. CASE Notion!Agree \/ Notion!CloseWindow
  BY <1>2, <1>8 DEF Notion!Agree, Notion!CloseWindow, Notion!api, Notion!status
<1>9. ASSUME NEW c \in callbacks, NEW ok \in BOOLEAN, Notion!CallbackReturns(c, ok)
      PROVE  SeenIsTold'
  <2> DEFINE here == window.at = "callback" /\ window.for = c
  <2>1. /\ UNCHANGED <<site, connecting, starts, shown, readings, doubtful>>
        /\ LastTells' <=> LastTells
    BY <1>9 DEF Notion!CallbackReturns, Notion!status, LastTells, Tells, Notion!Accepts
  <2>2. posted \in Nat
    BY NotionValues
  <2>3. CASE here /\ ~NoMessages
    BY <1>9, <2>2, <2>3 DEF Notion!CallbackReturns, Notion!RunPage, NoMessages, SeenIsTold
  <2>4. CASE here /\ NoMessages
    BY <2>1, <2>4 DEF OneAttempt, SeenIsTold, NoMessages
  <2>5. CASE ~here
    <3>1. posted' = posted
      BY <1>9, <2>5 DEF Notion!CallbackReturns
    <3>2. (connection.there /\ connection.seen)' => connection.there /\ connection.seen
      BY <1>9, <2>5 DEF Notion!CallbackReturns
    <3> QED
      BY <2>1, <3>1, <3>2 DEF SeenIsTold, NoMessages
  <2> QED
    BY <2>3, <2>4, <2>5
<1>10. CASE Notion!Disconnect
  BY <1>10 DEF Notion!Disconnect, SeenIsTold
<1> QED
  BY <1>3, <1>4, <1>5, <1>6, <1>7, <1>8, <1>9, <1>10
     DEF Notion!Next, Notion!Answered, Notion!Started, Notion!Returned, Notion!User

-----------------------------------------------------------------------------
(* The connection to Notion: theorems *)

LEMMA NotionInvInitially == Notion!Init => NotionInv
<1> SUFFICES ASSUME Notion!Init PROVE NotionInv
  OBVIOUS
<1>1. AttemptIsWatched /\ OneAttempt
  BY DEF Notion!Init, AttemptIsWatched, Notion!AttemptIsWatched, OneAttempt
<1>2. ~connection.seen
  BY DEF Notion!Init
<1> QED
  BY <1>1, <1>2 DEF NotionInv, SeenIsTold

LEMMA NotionInvStep == NotionTypes /\ NotionInv /\ Notion!Next => NotionInv'
  BY WatchedStep, OneAttemptStep, ToldStep DEF NotionInv

\* In a behaviour of the panel its Notion part takes the steps of NotionPanel or
\* rests, and has its types.
THEOREM NotionTypeCorrect == MCSpec => Notion!Spec /\ []NotionTypes
<1>1. MCInit => Notion!Init
  BY DEF MCInit
<1>2. [ChatNext \/ NotionNext]_all => [Notion!Next]_Notion!vars
  BY DEF all, ChatNext, NotionNext, notion, Notion!vars
<1>3. NotionTypes /\ [Notion!Next]_Notion!vars => NotionTypes'
  <2>1. NotionTypes /\ UNCHANGED Notion!vars => NotionTypes'
    BY DEF Notion!vars, NotionTypes, Notion!TypeOK, Opened, Counted, AtNotion
  <2> QED
    BY <2>1, NotionTypesStep
<1> QED
  BY <1>1, <1>2, <1>3, NotionTypesInitially, PTL DEF MCSpec, Notion!Spec

LEMMA NotionInvariant == MCSpec => []NotionInv
<1>1. NotionTypes /\ NotionInv /\ [Notion!Next]_Notion!vars => NotionInv'
  <2>1. NotionInv /\ UNCHANGED Notion!vars => NotionInv'
    BY DEF Notion!vars, NotionInv, AttemptIsWatched, Notion!AttemptIsWatched, OneAttempt,
       SeenIsTold, NoMessages, LastTells, Tells, Notion!Accepts
  <2> QED
    BY <2>1, NotionInvStep
<1> QED
  BY <1>1, NotionInvInitially, NotionTypeCorrect, PTL DEF Notion!Spec

\* An attempt to connect that is shown as under way has something that will end
\* it, in every deployment and whatever becomes of its window, its address and
\* other attempts (ChatPanel.tsx: handleConnectNotion).
THEOREM AttemptsAreWatched == MCSpec => []AttemptIsWatched
<1>1. NotionInv => AttemptIsWatched
  BY DEF NotionInv
<1> QED
  BY <1>1, NotionInvariant, PTL

\* A connection that a window of the panel saw made is shown once all is quiet,
\* in whatever order overlapping readings are answered and shown
\* (ChatPanel.tsx: handleNotionCompleteMessage).
THEOREM ConnectionsAreShown == MCSpec => []ConnectedIsShown
<1>1. NotionTypes /\ NotionInv => ConnectedIsShown
  BY NotionValues DEF NotionInv, SeenIsTold, LastTells, ConnectedIsShown,
     Notion!ConnectedIsShown, Notion!Quiet
<1> QED
  BY <1>1, NotionInvariant, NotionTypeCorrect, PTL
=============================================================================
