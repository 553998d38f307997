----------------------------- MODULE ChatPanel -----------------------------
(***************************************************************************)
(* The chat panel: one question at a time is sent as a chat job, an effect *)
(* of the component polls the job until it has an answer, and an answer    *)
(* may bring a draft that the user saves to Notion.                        *)
(*                                                                         *)
(* Each question has a job of its own on the server, known to the panel    *)
(* only through the answers to its requests; ChatJobLifecycle says what    *)
(* such a job may do.  React commits the setters of a continuation at      *)
(* once, but runs the effects of a commit later: in between, a timer may   *)
(* fire and an answer may arrive.                                          *)
(***************************************************************************)
EXTENDS Naturals, Sequences

CONSTANTS
  MaxQuestions,  \* bound on the questions that are asked
  MaxSession,    \* bound on the sessions the user signs in to
  None,          \* no job, draft or answer
  Faults         \* what may go wrong: see FaultKinds

\* The POST rejects; a poll rejects with an error the panel retries after; a
\* poll is answered from an earlier state of the job; the extension reloads.
FaultKinds == {"post", "poll", "stale", "reload"}

ASSUME ConstantsAssumption ==
  /\ MaxQuestions \in Nat
  /\ MaxSession \in Nat
  /\ None \notin Nat
  /\ Faults \subseteq FaultKinds

VARIABLES
  messages,  \* the conversation that is shown
  asked,     \* the number of questions asked so far
  panel,     \* the state of the component
  session,   \* authToken, or 0 for nobody signed in
  effect,    \* the last run of the polling effect, and its timer
  polls,     \* the requests for a job that are under way
  send,      \* where handleSend is
  save,      \* the draft handleSaveToNotion is saving, or None
  jobs       \* per question: its job on the server, and who sent it

vars == <<messages, asked, panel, session, effect, polls, send, save, jobs>>

-----------------------------------------------------------------------------
(* Values.  A job and a draft are named by their question. *)

Question == 1..MaxQuestions
Session == 0..MaxSession
Message == [role : {"user", "assistant"}, question : Question]
Phase == {"none", "queued", "running", "finalizing", "completed", "failed",
          "gone"}
Answer == Phase \cup {"denied", "error"}

\* A request without an answer has none of these.
ASSUME AnswerAssumption == None \notin Answer

TypeOK ==
  /\ messages \in Seq(Message)
  /\ asked \in 0..MaxQuestions
  /\ panel \in [loading : BOOLEAN, error : BOOLEAN,
                job : Question \cup {None}, draft : Question \cup {None}]
  /\ session \in Session
  /\ effect \in [gen : Nat, job : Question \cup {None}, session : Session,
                 timer : BOOLEAN]
  /\ polls \subseteq [gen : Nat, job : Question, session : Session,
                      answer : Answer \cup {None}]
  /\ send \in [pc : {"idle", "resolving", "posting", "created", "refused"},
               session : Session]
  /\ save \in Question \cup {None}
  /\ jobs \in [Question -> [phase : Phase, recorded : BOOLEAN,
                            by : Session]]

Mounted == [loading |-> FALSE, error |-> FALSE, job |-> None, draft |-> None]
Idle == [pc |-> "idle", session |-> 0]
NoEffect(gen) == [gen |-> gen, job |-> None, session |-> 0, timer |-> FALSE]

Init ==
  /\ messages = <<>>
  /\ asked = 0
  /\ panel = Mounted
  /\ session \in {0, 1} \cap Session
  /\ effect = NoEffect(0)
  /\ polls = {}
  /\ send = Idle
  /\ save = None
  /\ jobs = [q \in Question |-> [phase |-> "none", recorded |-> FALSE,
                                 by |-> 0]]

-----------------------------------------------------------------------------
(* Sending: handleSend *)

\* Mutant: an answer that is being saved does not lock the input.
LockedUnlessSaving == panel.loading \/ session = 0

\* isSendLocked
Locked == panel.loading \/ save # None \/ session = 0

\* handleSend up to its first await; it goes on with the token of this render.
Send ==
  /\ ~Locked
  /\ asked < MaxQuestions
  /\ asked' = asked + 1
  /\ messages' = Append(messages, [role |-> "user", question |-> asked + 1])
  /\ panel' = [loading |-> TRUE, error |-> FALSE, job |-> None, draft |-> None]
  /\ send' = [pc |-> "resolving", session |-> session]
  /\ UNCHANGED <<session, effect, polls, save, jobs>>

\* resolveDashboardContextForSend catches whatever fails in it.
ResolveContext ==
  /\ send.pc = "resolving"
  /\ send' = [send EXCEPT !.pc = "posting"]
  /\ UNCHANGED <<messages, asked, panel, session, effect, polls, save, jobs>>

Job(q) == INSTANCE ChatJobLifecycle WITH
  phase <- jobs[q].phase, recorded <- jobs[q].recorded

SetJob(q, by) ==
  \E phase \in Phase, recorded \in BOOLEAN :
    jobs' = [jobs EXCEPT ![q] = [phase |-> phase, recorded |-> recorded,
                                 by |-> by]]

\* The server creates the job; if its dispatch fails it undoes it and rejects.
PostServed(q) ==
  /\ send.pc = "posting"
  /\ q = asked
  /\ SetJob(q, send.session)
  /\ Job(q)!Create
  /\ send' = [send EXCEPT !.pc = "created"]
  /\ UNCHANGED <<messages, asked, panel, session, effect, polls, save>>

DispatchFails(q) ==
  /\ send.pc = "created"
  /\ "post" \in Faults
  /\ q = asked
  /\ SetJob(q, send.session)
  /\ Job(q)!GiveUp
  /\ send' = [send EXCEPT !.pc = "refused"]
  /\ UNCHANGED <<messages, asked, panel, session, effect, polls, save>>

\* The rest of handleSend: the owner token it stores with the job is the one
\* the job was created under.
SendReturns ==
  /\ send.pc = "created"
  /\ panel' = [panel EXCEPT !.job = asked, !.error = FALSE]
  /\ send' = Idle
  /\ UNCHANGED <<messages, asked, session, effect, polls, save, jobs>>

SendFails ==
  /\ \/ send.pc = "refused"
     \/ send.pc \in {"posting", "created"} /\ "post" \in Faults
  /\ panel' = [panel EXCEPT !.loading = FALSE, !.error = TRUE]
  /\ send' = Idle
  /\ UNCHANGED <<messages, asked, session, effect, polls, save, jobs>>

-----------------------------------------------------------------------------
(* Polling: the effect on activeJob, authToken and chatJobOwnerToken *)

Request(gen, job, by) == [gen |-> gen, job |-> job, session |-> by,
                          answer |-> None]

\* A dependency has changed since the effect ran.  The owner token changes
\* only together with the job.
Due == panel.job # effect.job \/ (panel.job # None /\ effect.session # session)

\* The cleanup of the last run, then the next run; it polls at once.
RunEffect ==
  /\ Due
  /\ \/ /\ panel.job = None
        /\ effect' = NoEffect(effect.gen)
        /\ UNCHANGED polls
     \/ /\ panel.job # None
        /\ effect' = [gen |-> effect.gen + 1, job |-> panel.job,
                      session |-> session, timer |-> FALSE]
        /\ polls' = polls \cup {Request(effect.gen + 1, panel.job, session)}
  /\ UNCHANGED <<messages, asked, panel, session, send, save, jobs>>

TimerFires ==
  /\ effect.timer
  /\ effect' = [effect EXCEPT !.timer = FALSE]
  /\ polls' = polls \cup {Request(effect.gen, effect.job, effect.session)}
  /\ UNCHANGED <<messages, asked, panel, session, send, save, jobs>>

\* What GET may say of a job: its status, or an earlier one, before which
\* there is no item yet; another session may be another user's; "error" stands
\* for every message without "not found" or "access" in it, a 401 included.
Answers(p) ==
  {jobs[p.job].phase}
    \cup (IF "stale" \in Faults THEN {"gone", "queued"} ELSE {})
    \cup (IF p.session # jobs[p.job].by THEN {"denied"} ELSE {})
    \cup (IF "poll" \in Faults THEN {"error"} ELSE {})

PollServed(p) ==
  /\ p.answer = None
  /\ \E answer \in Answers(p) :
       polls' = (polls \ {p}) \cup {[p EXCEPT !.answer = answer]}
  /\ UNCHANGED <<messages, asked, panel, session, effect, send, save, jobs>>

\* Mutant: every answer about the same job is taken.
HeededByJob(p) == p.job = effect.job

\* Neither cancelled nor of an earlier generation.
Heeded(p) == effect.job # None /\ p.gen = effect.gen

\* Mutants: a finalizing job counts as failed; a missing one is asked for again.
FinalOnceFinalizing(answer) ==
  answer \in {"finalizing", "failed", "gone", "denied"}
FinalWithoutGone(answer) == answer \in {"failed", "denied"}

\* A failed job, and the errors polling gives up on.
Final(answer) == answer \in {"failed", "gone", "denied"}

\* handleCompletedJob
ShowAnswer(p) ==
  /\ messages' = Append(messages, [role |-> "assistant", question |-> p.job])
  /\ \E draft \in {None, p.job} :
       panel' = [loading |-> FALSE, error |-> FALSE, job |-> None,
                 draft |-> draft]
  /\ UNCHANGED effect

GiveUp ==
  /\ panel' = [panel EXCEPT !.loading = FALSE, !.error = TRUE, !.job = None]
  /\ UNCHANGED <<messages, effect>>

\* Mutant: the panel polls no more after an error.
PollAgainUnlessError(p) ==
  /\ effect' = [effect EXCEPT !.timer = (p.answer # "error")]
  /\ panel' = [panel EXCEPT !.error = @ \/ p.answer = "error"]
  /\ UNCHANGED messages

PollAgain(p) ==
  /\ effect' = [effect EXCEPT !.timer = TRUE]
  /\ panel' = [panel EXCEPT !.error = @ \/ p.answer = "error"]
  /\ UNCHANGED messages

PollReturns(p) ==
  /\ p.answer # None
  /\ polls' = polls \ {p}
  /\ \/ Heeded(p) /\ p.answer = "completed" /\ ShowAnswer(p)
     \/ Heeded(p) /\ Final(p.answer) /\ GiveUp
     \/ Heeded(p) /\ p.answer # "completed" /\ ~Final(p.answer) /\ PollAgain(p)
     \/ ~Heeded(p) /\ UNCHANGED <<messages, panel, effect>>
  /\ UNCHANGED <<asked, session, send, save, jobs>>

-----------------------------------------------------------------------------
(* Saving a draft: handleSaveToNotion and the dialog *)

SaveDraft ==
  /\ panel.draft # None
  /\ save = None
  /\ save' = panel.draft
  /\ panel' = [panel EXCEPT !.error = FALSE]
  /\ UNCHANGED <<messages, asked, session, effect, polls, send, jobs>>

SaveReturns ==
  /\ save # None
  /\ save' = None
  /\ \/ panel' = [panel EXCEPT !.draft = None]
     \/ panel' = [panel EXCEPT !.error = TRUE]
  /\ UNCHANGED <<messages, asked, session, effect, polls, send, jobs>>

CancelDraft ==
  /\ panel.draft # None
  /\ save = None
  /\ panel' = [panel EXCEPT !.draft = None]
  /\ UNCHANGED <<messages, asked, session, effect, polls, send, save, jobs>>

-----------------------------------------------------------------------------
(* The rest of the world *)

\* AuthGate accepts a session, be it the late one of an earlier attempt.
SignIn ==
  /\ \E s \in Session : s > session /\ session' = s
  /\ UNCHANGED <<messages, asked, panel, effect, polls, send, save, jobs>>

\* Nothing of the component survives, and an expired session is dropped.
Reload ==
  /\ "reload" \in Faults
  /\ messages' = <<>>
  /\ panel' = Mounted
  /\ session' \in {0, session}
  /\ effect' = NoEffect(0)
  /\ polls' = {}
  /\ send' = Idle
  /\ save' = None
  /\ UNCHANGED <<asked, jobs>>

\* A job that exists goes on by itself, whoever still asks for it.
JobStep(q) ==
  /\ jobs[q].phase # "none"
  /\ SetJob(q, jobs[q].by)
  /\ Job(q)!Next
  /\ UNCHANGED <<messages, asked, panel, session, effect, polls, send, save>>

SendStep ==
  \/ ResolveContext \/ SendReturns \/ SendFails
  \/ \E q \in Question : PostServed(q) \/ DispatchFails(q)

Next ==
  \/ Send \/ SendStep
  \/ RunEffect \/ TimerFires
  \/ \E p \in polls : PollServed(p) \/ PollReturns(p)
  \/ SaveDraft \/ SaveReturns \/ CancelDraft
  \/ SignIn \/ Reload
  \/ \E q \in Question : JobStep(q)

Spec == Init /\ [][Next]_vars

\* A poll is answered, not with an error, and as the job is.
PollSucceeds ==
  \E p \in polls :
    /\ PollServed(p)
    /\ \A r \in polls' \ polls : r.answer \in {jobs[r.job].phase, "denied"}

\* The browser runs what is due, requests are answered, jobs end, and not all
\* of infinitely many polls fail or lag.
Fairness ==
  /\ WF_vars(SendStep)
  /\ WF_vars(RunEffect)
  /\ WF_vars(TimerFires)
  /\ WF_vars(\E p \in polls : PollServed(p) \/ PollReturns(p))
  /\ SF_vars(PollSucceeds)
  /\ WF_vars(SaveReturns)
  /\ \A q \in Question : WF_vars(JobStep(q))

-----------------------------------------------------------------------------
(* Properties *)

\* Every answer stands directly under its own question, and no question is
\* answered twice, although polls of earlier questions, of earlier sessions
\* and of earlier runs of the effect may all be answered later.
ConversationInOrder ==
  \A i \in DOMAIN messages :
    messages[i].role = "assistant" =>
      /\ i > 1
      /\ messages[i - 1] = [role |-> "user", question |-> messages[i].question]

\* The input is never locked for good by its own doing: while an answer is
\* awaited, a request, a timer or an effect that is due will go on with it.
LoadingIsLive ==
  panel.loading =>
    \/ send.pc # "idle"
    \/ panel.job # None /\ (Due \/ effect.timer \/ \E p \in polls : Heeded(p))

\* The draft in the dialog is the one being saved until the save has ended: no
\* answer or question replaces it, and a success clears no other draft.
SavesWhatIsShown == save # None => panel.draft = save

Unanswered(i) ==
  /\ messages[i].role = "user"
  /\ IF i = Len(messages) THEN ~panel.loading
     ELSE messages[i + 1].role # "assistant"

Dead(q) == jobs[q].phase \in {"failed", "gone"}
Disowned(q) == jobs[q].phase # "none" /\ jobs[q].by # session
Excused(q) == Dead(q) \/ Disowned(q)

\* However many polls fail, a question is left without an answer only if its
\* job failed or expired, or the session is no longer the one it was asked in.
\* Needs a POST that succeeds and reads that do not lag: "not found" is final.
NoAnswerLost ==
  \A i \in DOMAIN messages : Unanswered(i) => Excused(messages[i].question)

\* The panel becomes usable again after every question, whatever the job does.
Settles == panel.loading ~> ~panel.loading

-----------------------------------------------------------------------------
(* Why the properties hold: the parts of the inductive invariants *)

\* The panel awaits an answer exactly while it sends a question or has a job,
\* and shows no draft meanwhile.
Turns ==
  /\ panel.loading <=> (send.pc # "idle" \/ panel.job # None)
  /\ send.pc # "idle" => panel.job = None
  /\ panel.draft # None => ~panel.loading

\* The question it awaits an answer to is the last one asked, and the last
\* message; the effect that still runs is never ahead of it.
Awaited ==
  /\ panel.loading => /\ asked > 0
                      /\ messages # <<>>
                      /\ messages[Len(messages)] =
                           [role |-> "user", question |-> asked]
  /\ panel.job # None => panel.job = asked
  /\ effect.job # None => effect.job <= asked
  /\ send.pc # "idle" /\ effect.job # None => effect.job < asked

\* At most one request of the present run is under way, and not while its
\* timer is set; whoever of them is still heeded works for the panel's job.
OnePoll ==
  /\ effect.session <= session
  /\ effect.timer => effect.job # None /\ effect.job = panel.job
  /\ \A p \in polls :
       /\ p.gen <= effect.gen
       /\ Heeded(p) => /\ ~effect.timer
                       /\ p.job = effect.job
                       /\ p.job = panel.job
       /\ \A r \in polls : Heeded(p) /\ Heeded(r) => p = r

\* With reads that do not lag, a final answer is the truth: the job has ended,
\* or the request was of a later session than the question.
Created(q) == jobs[q].phase # "none"

\* The jobs of the conversation that is shown are of this session or earlier ones.
OfSessionsSoFar ==
  \A i \in DOMAIN messages :
    LET q == messages[i].question IN Created(q) => jobs[q].by <= session

Truthful ==
  /\ \A q \in Question : Created(q) => q <= asked
  /\ OfSessionsSoFar
  /\ send.pc # "idle" => send.session <= session
  /\ send.pc \in {"resolving", "posting"} => ~Created(asked)
  /\ send.pc = "created" => Created(asked)
  /\ send.pc # "refused"
  /\ panel.job # None => Created(panel.job)
  /\ effect.job # None => /\ Created(effect.job)
                          /\ jobs[effect.job].by <= effect.session
  /\ \A p \in polls :
       /\ Created(p.job)
       /\ jobs[p.job].by <= p.session /\ p.session <= session
       /\ p.answer = "denied" => jobs[p.job].by < p.session
       /\ p.answer \in {"failed", "gone"} => Dead(p.job)
=============================================================================
