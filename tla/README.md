# Verification of the Tableau chat extension

TLA+ modules, TLC runs and TLAPS proofs about the Tableau chat extension: a
React panel inside a Tableau dashboard, Lambda functions that answer questions
about the dashboard with a language model and the Tableau MCP server, DynamoDB
tables between them, Cognito for signing in and Notion for saving ideas.

Paths below are relative to `src/`. `PROJECT.json` holds the same facts for
tools: components, runs, the code lines of every definition, hazards, theorems.

1. [The system](#1-the-system): components, state, operations, what is hard
2. [The modules](#2-the-modules): how each corresponds to the code
3. [The runs](#3-the-runs): what TLC checks, bounds, fairness
4. [The proofs](#4-the-proofs): what TLAPS proves, and along which argument
5. [What the checks tell a maintainer](#5-what-the-checks-tell-a-maintainer)
6. [What is not modelled](#6-what-is-not-modelled), and [the plan](#7-plan)

## 1. The system

A question travels like this. The panel (`ChatPanel.tsx`) posts it to
`/chat-jobs`; the API function (`chatHandler.ts`) stores a job item and invokes
the worker function asynchronously; the worker claims the job and runs
`ChatService.generateAnswer`, which loads the history, asks the Tableau MCP
server for context, asks the model for the answer, and reports each stage into
the item; the panel polls `/chat-jobs/{id}` until the job has ended. Signing in
runs through a popup window and a transaction table, polled in the same way.

| Component | State | Operations | Talks to | What is hard |
|---|---|---|---|---|
| Chat jobs (`chatJobService.ts`, `chatJobRepository.ts`, `chatJobWorkerHandler.ts`) | one item per job: status, stage, progress messages, lease, result, error, TTL | create and dispatch, claim, report, complete, fail, read | API and worker functions, panel, history table | at-least-once delivery, retries, leases, writes without a condition, two half-failures per request |
| Popup sign-in (`AuthGate.tsx`, `cognitoPopupAuthService.ts` and its repository) | the panel's session, attempt, timer and window; localStorage; one item per transaction | click, poll, give up, accept, callback, reload | Cognito, the user's window | polls that overlap, answers of abandoned attempts, callbacks that run twice, lagging reads |
| Chat panel (`ChatPanel.tsx`) | conversation, active job, lock, draft; the effect's generation and timer; requests under way | send, poll, show, give up, save a draft | chat jobs, sign-in, Notion | late answers, effects that run after the commit, what is read before an await and used after it |
| Agent execution engine (`agent/execution.ts`, `toolRouter.ts`, `toolExecutionWrapper.ts`) | plan, results so far, tool calls used, running handlers | take a step, route, call a handler under a timeout, stop, derive the status | tool handlers | handlers that cannot be cancelled, budget at its limit, which failure ends the run |
| Agent runners, selected mark (`lambdaRunner.ts`, `selectedMarkOrchestration.ts`, `intent.ts`) | one run at a time: intent, plan, execution, answer, trace | resolve, select, execute, compose | engine, composer | fallbacks at every stage |
| Response composition (`responseComposer.ts`, `guardedLlmResponseComposer.ts`) | none between calls | compose, guard, fall back | model | a guard that must not let an unsupported claim through |
| Metadata discovery (`metadataDiscovery*.ts`, `tableauMetadata*.ts`) | none between requests; the caller keeps what it was asked | classify, plan, clarify, gate, describe, normalise | hosted MCP transport | many switches read in several places, a clarification that must lead somewhere, a fixture prepared for every answer |
| Hosted MCP transport (`hosted*.ts`) | session of one request | connect, call, map errors, end | Tableau MCP server | a timeout that answers while the session stays open, error classification |
| Chat service (`chatService.ts`, `chatAgent.ts`, `tableauMcpToolPlanner.ts`, ...) | the merged context of one question; history of a session | interpret, plan, look up in passes, merge, evaluate, write, save | model, context provider, history table | loop bounds, deadline, partial failures, two chains of rules for one answer |
| Tableau MCP provider (`tableauMcpContextProvider.ts`) | one lookup: queue, tools called, results, evidence, budget; caches | connect, select, call (up to three at once), follow up, recover, replan, conclude | Tableau MCP server, cache table | what may still be called, the budget, identifiers that come late, calls that throw |
| Direct and mock providers | none | one request after another | Tableau REST | - |
| Notion connection (`backend/src/notion/`, `notionRepository.ts`) | connection record and OAuth state items | connect, callback, refresh, settings, save an idea, disconnect | Notion | whole-record overwrites, tokens that rotate |
| Dashboard context (`dashboardContext.ts`, `markSelectionListener.ts`, `App.tsx`, parts of `ChatPanel.tsx`) | the context shown, the readings and look-ups under way | read, listen, refresh on selection, look up the name, read and merge at sending | Extensions API, `/context` | readings that overlap, a name that every refresh drops |
| Token verification (`cognitoAuth.ts`) | key set, cached for the process | verify | Cognito | a cache that is never renewed |
| HTTP handlers, configuration, logging, clients | none, or a client | route, validate | - | - |

What makes each modelled component correct, in a sentence:

- **Chat jobs.** One question leaves one turn in the history and one settled
  job, with its answer or its error, however often the event is delivered.
- **Popup sign-in.** The button always comes back, and a session, once
  accepted, is not replaced by the late answer of another attempt.
- **Chat panel.** Each answer is shown once, under its question; the input is
  never locked without something that will unlock it; what is saved is shown.
- **Execution engine.** The budget holds, a failure that must end the run ends
  it, and the status says what happened.
- **Answers.** No tool answers twice and the budget is exceeded by two calls at
  most; a lookup gives up only when no way is left; what it established is what
  the answer says; a ranking is never made up by the model; there is an answer.
- **Metadata discovery.** A call leaves for the network only where everything
  that must agree to it does; a fixture is never passed off as content; a
  clarification leads somewhere; a run ends though the server never replies.
- **Dashboard context.** No selection is lost on a reading under way, a question
  goes out with the marks it was asked about, and a dropped name comes back.
- **Notion connection.** The tokens shown as connected are the ones Notion
  honours, only the callback connects, and one idea becomes one page. The panel
  shows a connection it saw made, and an attempt to connect is watched.

## 2. The modules

| Module | Models | Extends or uses |
|---|---|---|
| `ChatJobLifecycle` | what a job promises to whoever polls it | - |
| `ChatJob`, `MCChatJob` | the job item, API handler, event delivery, worker invocations; the job as an implementation of its lifecycle | `ChatJobLifecycle` |
| `PopupAuth`, `MCPopupAuth` | signing in through the popup | - |
| `ExecutionEngine` | one execution of a fixed plan | - |
| `ChatPanel` | the panel, over one `ChatJobLifecycle` per question | `ChatJobLifecycle` |
| `MCChatPanel` | the panel in one run: its chat, of which it remembers whether a POST failed or a read lagged, or how it connects Notion | `ChatPanel`, `NotionPanel` |
| `DashboardContext` | what the page knows of the dashboard, up to the sending of a question | - |
| `McpLookup`, `MCMcpLookup` | one lookup of the MCP provider, with its server, its budget and its recoveries | - |
| `AnswerGeneration`, `MCAnswerGeneration` | how a question is answered: plan, passes of lookups, merge, answer, save | `McpLookup` |
| `MetadataDiscovery`, `MCMetadataDiscovery` | a dialogue of metadata requests, from classification to answer, over either transport | - |
| `NotionConnection`, `MCNotionConnection` | one user's connection to Notion | - |
| `NotionPanel` | how the panel connects Notion through a window, and what it shows of the connection | - |
| `ChatJobProofs`, `ExecutionEngineProofs`, `NotionConnectionProofs`, `AnswerGenerationProofs`, `MetadataDiscoveryProofs`, `DashboardContextProofs` | the theorems | the module of the same name |
| `PopupAuthProofs`, `ChatPanelProofs` | the theorems, those about the behaviours of the runs and those of `NotionPanel` among them | `MCPopupAuth`, `MCChatPanel` |

The components meet in `ChatJobLifecycle`: `ChatJob` is proved to implement it
and `ChatPanel` assumes nothing else of a job, so the panel is checked against
every job the backend may present and not against the one it was tested with.
`AnswerGeneration` extends `McpLookup`: a pass is a lookup whose steps are steps
of the answer, so a context that is merged is one that a lookup can come to.

### ChatJob

One job, because jobs share no state. Every DynamoDB request is an action, so
whatever other processes do between two awaits is explored.

- `item` is the `ChatJobRecord`, reduced to what some step reads or a poller is
  shown. A result, an error and a message name the worker they came from; a
  question is a Boolean (is there one at all?).
- `api` is `createChatJob`: create, invoke, and the catch block that marks the
  job failed if the invocation was refused.
- `events` is Lambda's queue: what is pending, retries left, duplicates left.
  `Begin` starts an invocation within `EventMaxAge`; an invocation that ends
  with an error, a crash or a timeout is retried.
- `run[w]` is `processChatJob` of one invocation: claim, reports, `SaveTurn`,
  `Complete`, `Fail`. A report (`updateProgress`) is a read and, later, a write
  without a condition that writes back the list it has read. `NextStages` are
  the stages `generateAnswer` reports, with its early exits (`Paths`).
- `saved` are the turns in the history table.
- An unconditional `UpdateItem` creates a missing item: `Target`, `Bare`.
- Time is a clock in ticks; `Tick` is blocked while an invocation is at its
  Lambda timeout, where only `Stops` is left to it.
- Faults (`FaultKinds`): a request rejects, applied or not; the Invoke rejects,
  accepted or not; a process stops at any point; a `GetItem` lags.

### PopupAuth

- `panel` holds AuthGate's state and refs; `stored` the session in localStorage.
- A click starts one transaction, so attempts name transactions. `start[a]` is
  the request to `/popup/start`; `wait[a]` the time left of
  `popupWaitTimeoutMs`; `poll[p]` an outstanding status request. Polls go out
  on an interval whether or not the last one was answered, and an answer acts
  on the panel as it is by then.
- `popup` is the one window both sides share by name, with the attempts that
  hold a reference to it. The user may close it, reload the callback, or sign in.
- `tx`, `replica`, `call[c]`: the table, what a lagging read returns, and a
  callback (look up the state, exchange the code, complete or fail). A code is
  good for one exchange; a session is named by its code.

### ExecutionEngine

- `plan` is any sequence of up to `MaxSteps` steps; what a step asks for
  (`OfferKinds`) is reduced to the answer the router or the wrapper gives.
- `results` are the statuses recorded so far, `used` is `toolCallsUsed`,
  `handler[i]` the handler called for step i, `outcome` the derived status.
- `onFailure: "fallback"` and none are one with `"skip"`: the engine treats them
  alike. The precondition on the budget that a tool itself may state decides
  nothing the router has not decided, and is left out.
- `TimeOut` records the failure; the handler goes on (`abandoned`) next to the
  steps that follow, and `LateEnd` drops what it returns.

### ChatPanel

- `panel` are the state variables that decide something: loading, error, active
  job, draft. `messages` is the conversation; a job and a draft are named by
  their question.
- `Send`, `ResolveContext`, `PostServed`, `DispatchFails`, `SendReturns` and
  `SendFails` are `handleSend`, cut at its awaits, and the server's part of it.
- React commits at once and runs effects later: `RunEffect` is enabled by `Due`
  (a dependency differs from those of the last run), and until then the timer
  and the answers of the last run go on. `effect.gen` is
  `jobPollGenerationRef`; `cancelled` and the generation together are `Heeded`.
- `polls` are the requests under way: the run, job and session they were sent
  for, and their answer. `Answers` is what GET may say: the phase of the job; an
  earlier one if reads lag; `denied` to another session; or an `error` the panel
  retries after. Whether a job failed, is not found or is forbidden is what the
  panel gives up on (`Final`).
- `SaveDraft`, `SaveReturns`, `CancelDraft` are the Notion dialog; `SignIn` and
  `Reload` come from AuthGate and the dashboard.
- `JobStep` lets each job take any step of its lifecycle.

### NotionConnection

- `row` is the user's item of the connections table, `oauth` the items of the
  states table, one for each authorization (`Grant`: a connect, its state, its
  code and its tokens). A connection keeps its authorization, its tokens, the
  number of its default targets and its status; workspace names, client and
  endpoints are left out.
- Each API request (`Request`) goes from one request to a service to the next:
  `pc` names the next one and `local` holds what the code keeps across the
  await, so that two requests of one user interleave at each of them. A callback
  goes `Lookup`, `Exchange`, `Store`, `Cleanup`. A save goes `ReadConnection`,
  `RefreshToken`, `Store`, `CreatePage` or `ParentFails` for each parent, and
  after an error that looks like an invalid token (`Retries`) once more from
  `ReadConnection` with a forced refresh. `GiveUp` and `Mark` are the two places
  that write `refresh_failed`. `ReadSettings` and `Disconnect` are the rest.
- Every write is `Put`, of a whole item that was read earlier: `Renewed`,
  `Failed` and `Connected` say what the code makes of it.
- Notion is external. It takes a code once (`Issue`), honours the newest refresh
  token of an authorization (`Honours`), rotates it with a refresh or not
  (`Rotation`), and may be left by the user (`Revoke`). Tokens are numbered in
  the order of their issue; `Age` lets the oldest expire.
- `hurt` records the authorizations a fault interfered with; no action reads it.

### McpLookup

- The question, the dashboard and the server are chosen once (`inputs`). A
  question is what the keyword tables and the interpretation find in it
  (`Clues`); a dashboard is how well its names fit the data sources of the site;
  a server is the tools it offers, its allowlist, and whether its schemas and
  the model take part.
- `queue`, `called`, `refused`, `succeeded`, `spent`, `replanned` and the
  suggestions are the variables of `getAdditionalContext`; `listed`, `profile`
  and `rows` are what its results establish.
- The stages are those of the loop: connect, classify, select, then batch after
  batch. A batch is taken from the queue whole (`underway`), its calls end in any
  order, and each outcome is processed (follow-ups, recoveries) before the next
  is taken. `Reply` is what the lookup reads from an answer; a call may also
  throw, at most `MaxThrows` times.
- A lookup over HTTP is its answer (`HttpContexts`): another server makes it.
- A result found in a cache is a result.

### AnswerGeneration

- `at` is where `generateAnswer` is; `plan`, `passes`, `gathered` and `repeated`
  are the agent's. `StartPass`, `Look` and `Collect` are a pass of
  `chatAgent`; `LookOnce` is the way without an agent.
- The plan of the model, or the heuristic one, is a hint the lookups classify
  with; the evaluation may ask for more (`AskMore`), with the same question or
  another one. `Merge` is the merge of contexts, newest first.
- `remaining` is the time left as the code last looked at it: enough for a
  lookup, for an answer of the model, or for neither (12 s and 8 s).
- `FinalSource` and `LateSource` are the two chains of rules that write an
  answer, the second one when the time is up; `source` is which of them did.
- The save to the history is one step that succeeds or fails.

### MetadataDiscovery

- A request is the signals the rules find in its message and the fields its
  caller fills in (`Request`); `Setting` are the options a caller sends and
  `Service` the configuration of the backend.
- `Classified`, `PlanState`, `ReasonCode` and `Options` are the intent, the plan
  and the clarification. `Choose`, `Resume`, `Restate`, `Retry` and `AskAgain`
  are what a caller may do next; `asked` are the questions it was asked.
- `Failures` are the gates in their order; a request that passes them is
  described from the fixture (`DescribeFixture`) or by a hosted call
  (`StartCall`, `Receive`, `Expire`, `EndLate`). `calls[run]` is the session.
- An answer is where its content comes from, its transport, its warnings and its
  error code.

### DashboardContext

- `picked` are the selections so far; a moment is how many there had been. Of a
  context the moment of its marks is kept (0: not read) and whether it has a
  workbook name.
- `reads` are calls of `getDashboardContext` under way. `ReadMarks` is the
  answer of `getSelectedMarksAsync`; a reading ends some time later, with the
  last of its other parts, and acts by its `kind`: the first one is shown and
  followed by attaching the listeners, a refresh is shown, and one made for a
  question is merged with what was shown when it was asked.
- `heard.due` are the events Tableau has still to deliver, in their order.
- `naming` is the enrichment effect of `ChatPanel`: the key it last started a
  look-up for, and the look-ups under way. Their answers patch whatever is shown.
- `question` is `handleSend` up to its POST, and the patch of its answer.

### NotionPanel

- `window` is the browser's only window of that name: the click that opened it,
  the click whose address it was sent to, and where it is. An attempt that waits
  for its address keeps the window it has in hand (`starts`), as the variable
  `popup` of `handleConnectNotion` does, while `watched` and `polling` are the
  two refs all attempts share.
- `callbacks` are requests to `/notion/callback` on their way. The API makes the
  connection whether or not the window still shows that page; only if it does,
  the page runs (`RunPage`): it posts its message and closes, or goes to the
  panel's address if it has no opener.
- `readings` are calls of `refreshNotionStatus`, in the order they began, each
  with the token of the closure that made it. An interval and the focus use that
  of the latest rendering; the message listener has that of the first
  (`MountToken`).
- `connection` stands for the row of `NotionConnection`: a callback makes it, a
  disconnection or a save that fails to refresh ends it for `getStatus`. `seen`
  and `doubtful` are history, for the property.
- `site` is the deployment: whether users sign in, whether the callback's page
  has the panel's origin (else its message is dropped by the browser), and
  whether it has an opener.

## 3. The runs

All runs but one finish without an error with two TLC workers; `tool_call_budget`
ends with the violation it is about. Deadlock is not checked in any: every run
ends where its bounds or its clock end.

| Run | Checks | Distinct states |
|---|---|---|
| `chat_job_fenced` | `SingleRunner`, `AtMostOneTurn`, `ImplementsLifecycle` | 43 thousand |
| `chat_job_faults` | `ResultIsSaved`, `NeverBare` | 1.1 million |
| `chat_job_settles` | `ProgressInOrder`, `Settles` | 0.8 million |
| `popup_auth` | `SigningInIsLive`, `NoErrorAfterSession`, `SessionStays`, `Settles` | 0.60 million |
| `execution_engine` | `BudgetHeld`, `NothingAfterStop`, `OutcomeIsHonest`, `Settles` | 1.1 million |
| `chat_panel` | `ConversationInOrder`, `LoadingIsLive`, `SavesWhatIsShown`, `AnswersArrive`, `ConnectedIsShown`, `AttemptIsWatched`, `Settles` | 0.31 million |
| `dashboard_context` | `ShownFollowsSelection`, `QuestionMeetsSelection`, `NameReturns` | 1.0 million |
| `answer_generation` | `NoToolAnswersTwice`, `BudgetOverrun`, `ResolutionTried`, `QueryTried`, `RankingBacked`, `EstablishedIsTold`, `AnswerSettles` | 0.92 million |
| `tool_call_budget` | `CallsWithinBudget`, violated | - |
| `metadata_discovery` | `HostedOnlyWhenAgreed`, `ContentIsLabelled`, `OptionsLead`, `Settles` | 47 thousand |
| `notion_overlap` | `NewestTokenKept`, `OneIdeaOnePage` | 1.2 million |
| `notion_serial` | `NoNeedlessReconnect`, `OnlyCallbackConnects` | 1.75 million |

### What they show, and why the bounds are enough

**Chat jobs.** Two invocations suffice for every pair to meet; they come from
one event with one retry and one duplicate. One tick is the unit of lease and
timeouts, whose relations matter and not their sizes.
`chat_job_fenced` is the configuration the code is written for, a lease that
outlasts the worker (1 and 1): no two invocations hold the job, one turn is
saved, and the item goes through the lifecycle. `chat_job_faults` is the
*deployed* relation, a lease shorter than the worker timeout (1 and 2), with
failing requests and the item at its TTL: overlapping invocations still show no
answer that is not in the history. The clock runs to 5, past the TTL of 4, so
that writes after a deletion would be seen. `chat_job_settles` has invocations
that overlap for as long as they like and lagging reads; a message limit of 3
makes the cut of the list happen.

**Popup.** Two attempts and two outstanding polls make answers of the first
attempt arrive in the second; two callbacks with two codes make two sessions.
The run has behaviours of both kinds, chosen at the start (`overlapping`):
polls that overlap with one callback, or several callbacks with one poll at a
time, on which two of its properties rest. A wait and a TTL of one tick make
timeout and expiry happen in any order. A lagging copy is none or the item as it
was created, which are the two a callback can tell apart from the item itself.

**Engine.** All plans of up to three steps over five kinds of step, with budgets
of one and two and nothing or one used: a budget is exhausted on the first, the
second and the third step. Kinds left out are treated like one that is in.

**Panel.** Two questions make answers of the first arrive in the second; two
sessions make a change of user happen once in each place. There is no bound on
polls, timers or errors, and none is needed: a request is named by its run, and
runs are bounded by questions, sessions and reloads to a mounted state.
`AnswersArrive` is `NoAnswerLost` up to the first POST that fails or read that
lags, which `MCChatPanel` remembers.

**Notion in the panel.** The chat and the connection to Notion share nothing in
the panel but the session, which either may get at any time, so a behaviour of
`chat_panel` is of one of them (`part`) and `Settles` speaks of the chat. Two
clicks make the message, the end or the address of the first attempt come during
the second. Only readings of the focus are bounded (it adds none to one that is
under way): those of the message, the interval and the session are not, so that
several overlap. The four deployments have each of the three switches on and off.
`ConnectedIsShown` says nothing of a connection whose window was closed before
its callback ended, nor when the reading that is shown failed, was denied or
overtook a later one (see 5).

**Dashboard.** Three selections and one question make up to five readings, so
that a refresh, a younger one and one for the question are under way together;
one mark and the empty selection are all the merge tells apart.

**Answers.** Two data sources, of which one fits the dashboard and the other
almost as well or not at all, are what every choice between candidates needs. The
four servers are: planned calls with strict schemas; guessed calls with more
tools and an allowlist; an allowlist that takes away every tool that identifies a
data source; and HTTP. A budget of three is met by a batch of one, two and three
calls. The model's plan names one call, one call throws, and a second pass may
repeat the first. The four questions are a ranking of an aggregate, a ranking
without one, and the two inventories the code answers by rule.
`tool_call_budget` is the lookup alone.

**Metadata.** The requests are one for each rule of the classification and each
reason of a clarification, with a target given, mentioned, both or neither; the
settings are one for each gate that may fail, over either transport; three
configurations and seven replies, one for each way they are read. Four runs of a
dialogue are one more than the longest that leads somewhere.

**Notion.** `notion_overlap` lets three requests of one authorization overlap as
they like, with lost replies and lagging reads: a save that refreshes, one that
meets its result, and a callback or a disconnection between them. It leaves out
changes of settings, failing puts and crashes, each of which loses a rotated
token (see 5). `notion_serial` has two authorizations, so that a connection can
be replaced, every kind of request, crashes, failing services and expired
states; saves, callbacks and disconnections overlap nothing there, which is what
its two properties rest on. Changes of settings still overlap each other. Two
default targets in one run and one in the other make both the retry with the
next parent and the case without one happen.

Symmetry is used over invocations, attempts, polls, callbacks and requests, in
runs without liveness only; no property or action tells them apart.

### Fairness

- `ChatJob!FairSpec`: continuations of the API handler run, lagging copies catch
  up, and each invocation goes on. Nothing forces an event to be delivered
  twice, a clock to advance or an invocation to stop. The run has no faults but
  lagging reads, because the code promises nothing after a crash (see 5).
- `PopupAuth!Fairness`: the interval fires, requests are answered (by an error if
  need be), continuations run and time passes. Nothing is assumed of the user.
- `ExecutionEngine!FairSpec`: each step of the engine and its timer. A handler
  need not end: `Settles` is stated for a positive `timeoutMs`.
- `ChatPanel!Fairness`: the browser runs effects, timers and continuations;
  requests are answered; jobs end, at the latest by their TTL. Strong fairness
  of `PollSucceeds` says that not all of infinitely many polls fail or lag;
  without it the panel rightly polls for ever.
- `AnswerGeneration!Proceed`: the function goes on with its next step. Calls that
  throw are bounded (`MaxThrows`): a call that always throws is tried again until
  the function's time is up.
- `MetadataDiscovery!Handle`: the handler goes on and its timer fires. The server
  need not reply, nor a session end.
- `DashboardContext!PageStep`: Tableau and the API answer, well or badly, and the
  browser runs what is due. Nothing is assumed of the user.

Each property is also run against a mutated definition (the operators marked
`Mutant` in the modules), a plausible bug in the mapped code that TLC must find.

## 4. The proofs

TLAPS proves these for every value of the constants that meets the named
assumptions (`ConstantsAssumption` and the like, evaluated by TLC in the runs).
"Its run" is a theorem about the specification of the run, whose history variable
says which behaviours the property speaks of.

| Theorem | Property | Under |
|---|---|---|
| `ChatJobProofs!TypeCorrect` | `TypeOK` | - |
| `ChatJobProofs!LeaseExcludes` | `SingleRunner` | `LeaseSeconds >= WorkerTimeout` |
| `ChatJobProofs!OneTurn` | `AtMostOneTurn` | that lease; requests succeed and reads are current |
| `ChatJobProofs!ResultSaved` | `ResultIsSaved` | - |
| `ChatJobProofs!NeverRecreated` | `NeverBare` | `TtlSeconds >= ApiTimeout + EventMaxAge + WorkerTimeout` |
| `ChatJobProofs!ProgressOrdered` | `ProgressInOrder` | - |
| `ChatJobProofs!JobImplementsLifecycle` | `ImplementsLifecycle` | that lease, that TTL; processes may stop, requests succeed |
| `PopupAuthProofs!TypeCorrect` | `TypeOK` | - |
| `PopupAuthProofs!ButtonComesBack` | `SigningInIsLive` | - |
| `PopupAuthProofs!ErrorsAreSignedOut` | `ErrorMeansSignedOut` | one place for polls |
| `PopupAuthProofs!SessionsAreFinal` | `SessionIsFinal` | one place for polls |
| `PopupAuthProofs!NoErrorsAfterSession` | `NoErrorAfterSession` | its run: up to the first overlap of polls |
| `PopupAuthProofs!AcceptedSessionsStay` | `SessionStays` | its run: up to the first overlap of polls |
| `ExecutionEngineProofs!TypeCorrect` | `TypeOK` | - |
| `ExecutionEngineProofs!BudgetIsHeld` | `BudgetHeld` | - |
| `ExecutionEngineProofs!StopIsFinal` | `NothingAfterStop` | - |
| `ExecutionEngineProofs!OutcomeIsTrue` | `OutcomeIsHonest` | - |
| `ChatPanelProofs!TypeCorrect` | `TypeOK` | - |
| `ChatPanelProofs!InputComesBack` | `LoadingIsLive` | - |
| `ChatPanelProofs!AnswersFollowQuestions` | `ConversationInOrder` | - |
| `ChatPanelProofs!SaveIsOfShownDraft` | `SavesWhatIsShown` | - |
| `ChatPanelProofs!AnswersAreShown` | `NoAnswerLost` | no fault but failing polls |
| `ChatPanelProofs!AnswersReachThePanel` | `AnswersArrive` | its run, every fault: up to the first POST that fails or read that lags |
| `ChatPanelProofs!NotionTypeCorrect` | `NotionPanel!TypeOK`, and that the run's Notion part is a behaviour of `NotionPanel` | its run |
| `ChatPanelProofs!AttemptsAreWatched` | `AttemptIsWatched` | its run |
| `ChatPanelProofs!ConnectionsAreShown` | `ConnectedIsShown` | its run |
| `DashboardContextProofs!TypeCorrect` | `TypeOK` | - |
| `DashboardContextProofs!ShownFollows` | `ShownFollowsSelection` | - |
| `DashboardContextProofs!QuestionMeets` | `QuestionMeetsSelection` | - |
| `NotionConnectionProofs!TypeCorrect` | `TypeOK` | - |
| `NotionConnectionProofs!OnePage` | `OneIdeaOnePage` | - |
| `NotionConnectionProofs!CallbackConnects` | `OnlyCallbackConnects` | callbacks and disconnections alone, current reads |
| `NotionConnectionProofs!NewestKept` | `NewestTokenKept` | rotation at every refresh, no change of settings, no failing put, no crash |
| `NotionConnectionProofs!ReconnectIsNeeded` | `NoNeedlessReconnect` | saves, callbacks and disconnections alone, current reads; every other fault |
| `AnswerGenerationProofs!LookupBounded` | `NoToolAnswersTwice`, `BudgetOverrun` of a lookup alone | - |
| `AnswerGenerationProofs!TypeCorrect` | `TypeOK` | - |
| `AnswerGenerationProofs!EachToolOnce` | `NoToolAnswersTwice` | - |
| `AnswerGenerationProofs!OverrunBounded` | `BudgetOverrun` | - |
| `AnswerGenerationProofs!ResolutionComplete` | `ResolutionTried` | - |
| `AnswerGenerationProofs!QueryComplete` | `QueryTried` | - |
| `AnswerGenerationProofs!RankingsAreBacked` | `RankingBacked` | - |
| `AnswerGenerationProofs!EstablishedFactsAreTold` | `EstablishedIsTold` | - |
| `AnswerGenerationProofs!EvidenceIsKept` | `EvidenceKept` | - |
| `MetadataDiscoveryProofs!TypeCorrect` | `TypeOK` | - |
| `MetadataDiscoveryProofs!HostedCallsAgreed` | `HostedOnlyWhenAgreed` | - |
| `MetadataDiscoveryProofs!ContentIsTold` | `ContentIsLabelled` | - |
| `MetadataDiscoveryProofs!OptionsAlwaysLead` | `OptionsLead` | - |

None of the safety properties is inductive as it stands; the parts that make
them so are named at the end of each module.

- **`SingleRunner`** needs to know when an invocation may still run
  (`Deadlines`: no invocation outlives its start by more than the timeout) and
  that the lease on the item covers that time (`Leased`). A claim looks at the
  lease only: one that succeeds finds the lease, and therefore the end, of any
  earlier holder in the past. This is where `LeaseSeconds >= WorkerTimeout` is
  used, and the only place. `Sent` says that nothing runs before the event.
- **`AtMostOneTurn`** adds `Fenced`: once a turn is saved, or about to be, the
  status on the item is not one that can be claimed. `finalizing` is written
  before the save and is not claimable; a report that was lost, or that was
  built from a lagging read, would break this, hence the assumptions.
- **`NeverBare`** is read off `Lasting`: whoever may still write to the item (the
  handler, an event in the queue, an invocation) began early enough to end before
  the item expires. Every bound of the assumption is used once, by `Dispatch`, by
  `Begin` and by the timeout. **`ResultIsSaved`** needs `SavedFirst`, that an
  invocation about to publish has saved, and nothing of leases or faults.
- **`ProgressInOrder`** holds though reports overwrite each other, because every
  list that some report may still write back (the item's, the lagging copy's, and
  those in the hands of invocations: `MessageLists`) is in order, and none is
  ahead of an invocation it tells of (`NotAhead`): what an invocation is about to
  report ranks above anything a list has of it, and stays so while others write
  older lists back.
- **`ImplementsLifecycle`** adds `Tracked`, the status the item has at each step of
  the one invocation that holds the job. With it, `TakeUp` is a claim of a queued
  job, `Finalize` the write of the report before the save, `Record` the save,
  `Publish` and `GiveUp` the last updates; every other step leaves status and
  history as they are. `Fenced` gives the guard of `Record`, `SavedFirst` that of
  `Publish`, and `SingleRunner` that no other invocation is disturbed.
- **`SigningInIsLive`** is strengthened by where an attempt may be while its
  request runs; **`SessionIsFinal`** and **`ErrorMeansSignedOut`** by
  `Orderly`: with one poll at a time an answer is to the attempt under way, and
  none is outstanding once a session is accepted. **`NoErrorAfterSession`** and
  **`SessionStays`** need the same of the behaviours whose polls have not
  overlapped, however many places there are for them (`OneByOne`).
- **`BudgetHeld`** needs `Counted`: every answer was counted, and only while the
  budget lasted. **`NothingAfterStop`** and **`OutcomeIsHonest`** need
  `Attended` (a handler that was called belongs to a step that came to an answer
  or a failure, or to the one being taken) and `SkippedIsOptional`.
- **The panel's** theorems share `Panelful`: `Turns` (loading exactly while a
  question is sent or a job is active, and no draft meanwhile), `Awaited` (the
  awaited question is the last one asked and the last message; an older run of
  the effect works for an older question) and `OnePoll` (at most one request of
  the present run, none beside its timer, and whoever is heeded works for the
  panel's job). `LoadingIsLive` is inductive relative to them. `NoAnswerLost`
  adds `Truthful`: a final answer is true, because a job that ended stays ended
  and a request that was denied was of a later session than its question. Its
  steps are proved for each step that is `Calm` (no POST fails in it, no read
  lags), so **`AnswersArrive`** follows for every fault from `SoFarSoGood`: until
  something disturbs the panel all its steps were calm. A reload may bring back
  nobody, and then every job is of a later session than the panel's; that is why
  `OfSessionsSoFar` speaks of the jobs of the messages shown only.
- **`AttemptIsWatched`** is inductive with the types, of which `Counted` says that
  each click has at most one window or one request or one message.
  **`ConnectedIsShown`** follows from `SeenIsTold`: a connection that was seen is
  shown, or will be by the last of the readings under way (`LastTells`), or a
  message or the interval will start one. Where the callback's page can send no
  message, `OneAttempt` says that attempts do not overlap, so no later one takes
  the interval away.
- **The dashboard's** theorems share `TypeInv`, which counts readings against the
  selections and questions that start them. **`ShownFollowsSelection`** adds
  `Follows`: once the page was told of a selection, either a refresh under way is
  the youngest reading and will find it (`Latest`), or what is shown of the
  youngest reading has it and every refresh that is left is older.
  **`QuestionMeetsSelection`** adds `AskedFrom` and `ReadForQuestion`: what was shown when the question was
  asked, and what the reading made for it can have found.
- **Notion's** theorems share `TypeInv`: `Well` says what a request has in hand
  at each step. **`OneIdeaOnePage`** adds `PagesAt`, the pages a request may
  have made by each step: the second round begins with at most one less than the
  parents, because the error that leads to it made none.
  **`OnlyCallbackConnects`** adds `Own`: what a save or a change of settings
  holds is of the authorization in the row, which stays so because nothing else
  is under way when a callback or a disconnection replaces it (`Exclusive`).
  **`NewestTokenKept`** adds `KeptInv`: whoever holds a connection got it from
  Notion (`KnownInv`), and whoever is about to put new tokens has the honoured
  ones, alone (`Sole`). A refresh needs a copy of the newest token and answers
  with a number nobody holds, so two requests are never about to put the newest
  tokens of one authorization; a put that marks a connection refresh_failed may
  write an older token, but then the row is no longer shown as usable.
  **`NoNeedlessReconnect`** adds `RowSafe` and `Safe` to `Own`: a row shown as
  connected has the honoured token or is excused, except while the save that has
  received newer tokens is about to put them, and what a save is about to refresh
  with, put, give up or mark is current or excused likewise. An excuse lasts
  (`ExcusedStays`), because Notion renews nothing without a refresh token. The
  second attempt of a save uses tokens it has just received (`rec = new`), which
  have not aged, so "invalid token" means that the user withdrew them.

- **A lookup's** theorems share `LookupInv`. The tools under way are distinct and
  none has answered, because a batch is filtered when it is taken and nothing but
  the processing of its outcomes adds to what was called. `WithinOverrun` counts
  the calls under way with those spent: a batch is taken only below the budget
  and is of three at most, hence the two. **`ResolutionTried`** and
  **`QueryTried`** follow from `EndedExhausted`: a lookup that ended by itself
  with calls left had neither recovery to offer, and what a recovery offers is
  read off its definition.
- **An answer's** theorems add `AnswerInv`. Outside of a pass no lookup has begun
  (`OutsideIsIdle`), so each pass starts from nothing; the gathered context is
  sound (`ContextSound`: rows come from queries that succeeded), because a lookup
  ends with a sound one and the merge keeps soundness; an agent that does not run
  has gathered nothing before its only lookup (`AloneIsFirst`). The chains of
  rules then say the same of every context that is sound.

- **The metadata theorems** share `DiscoveryInv`. `SessionsFollowRuns` says where a
  session may be (none before its run begins, an open one while a run waits);
  `SessionsWereLet` that one was started only past every gate, from which
  **`HostedOnlyWhenAgreed`** is read off the gates; `OpenIsLate` that a run
  answered while its session is open has failed, which keeps
  **`ContentIsLabelled`** when the session ends afterwards. **`OptionsLead`** is
  strengthened by `Leading`: a caller who chose an option has a settled request,
  or one whose only defect is a target that cannot be served, and the option
  offered for that settles it.

Every invariant and action property of the passing runs is stated by a theorem.
Only model-checked is what is temporal beyond that (`Settles` in each module,
`AnswerSettles`, `NameReturns`): liveness, fairness and `ENABLED` are out of the
prover's reach. `TypeOK` and `EvidenceKept` are proved and in no run. No module
that is proved about declares a RECURSIVE operator, and no theorem rests on
induction over data.

## 5. What the checks tell a maintainer

- **The deployed lease is shorter than the worker's timeout.**
  `infra/cloudformation.yaml` gives a lease of 120 s and a worker timeout of
  600 s. `LeaseExcludes` and `OneTurn` then do not apply: two invocations may
  hold a job if the first does not report for 120 s, and two turns may be saved.
  Nothing after the claim checks `workerId` or the lease. No doc promises
  otherwise, so this is a condition and not a finding.
- **A worker that stops in `finalizing`, or an API process that stops between
  create and Invoke, leaves a job that nobody will take up** until its TTL. The
  retry is skipped because the job is not claimable, and succeeds.
- **`updateProgress` may lose messages** of another invocation, or undo its
  status for a while, but neither reorders the messages of one invocation nor
  leaves a settled job open for good.
- **The popup's properties rest on one poll at a time.** The interval does not
  wait for answers: with two polls outstanding, an answer `failed` to the second
  may follow the session the first one brought.
- **The first poll follows the POST at once and reads with eventual
  consistency.** "Not found" is final for the panel, so a lagging read loses the
  answer (`AnswersArrive` is stated without lagging reads, and fails with them).
- **An expired ID token locks the input.** It is answered with 401 "Invalid
  authentication token.", which the pattern at `ChatPanel.tsx:289` does not take
  for final; the panel polls with the same token every 3 s until it is reloaded.
  The same holds after a rotation of the keys, which `cognitoAuth.ts:18` caches
  for the life of the process.
- **A handler that timed out runs on** next to the following steps, and calls
  that fail or time out are not counted in the budget.
- **Requests of one user for Notion overwrite each other.** Nothing makes them
  wait, and `putConnection` has no condition. A save that read the connection
  before a disconnection puts it back (`OnlyCallbackConnects` fails if
  disconnections overlap); of two saves that refresh with one rotated token, the
  loser marks the winner's connection `refresh_failed`; a change of settings
  that overlaps a refresh puts the old refresh token back.
- **Overlapping saves are safe for the tokens only if Notion rotates at every
  refresh** (`Rotation = {TRUE}`). If it rotates at will, TLC finds a refresh
  without rotation whose put carries an older token over a newer one.
- **A crash or a failing put between a refresh and its put** loses a rotated
  token, and a transient failure of the token endpoint marks the connection
  `refresh_failed`; either costs the user a reconnection.
- **A lost reply to `notion-create-pages` makes a second page** in the other
  parent, and up to one less than twice the parents after a refresh.
- **A connection just made is shown as disconnected** where users sign in and the
  callback's page has the panel's origin: the listener of its message is attached
  once, with the token of the panel's first rendering, before `AuthGate` has read
  the session (`ChatPanel.tsx:184`). The status is asked for without a token and
  the refusal shown as disconnected. `ConnectedIsShown` excuses a denied reading
  for this, and fails without the excuse; the test at `ChatPanel.test.tsx:716`
  mounts the panel with a token. The focus
  that comes back to the panel usually hides it, if its answer is the later one.
- **Only the focus corrects the status** after a window was closed before its
  callback ended, or a save lost the connection: until then the panel shows it as
  connected, and the button that would connect again is disabled.
- **The budget of tool calls is exceeded by up to two**, which
  `docs/configuration.md:75` says it is not: a batch of up to three is taken
  whatever is left (`tableauMcpContextProvider.ts:401`). This is the finding of
  `tool_call_budget`; `BudgetOverrun` is what does hold.
- **A call that always throws is tried for ever**: it is neither counted nor
  remembered, so only the function's timeout ends the lookup
  (`tableauMcpContextProvider.ts:1711`).
- **Arguments guessed from a schema are not validated**, so a query with guessed
  arguments never fails its preconditions and is never recovered. Follow-ups of
  a result are not looked up in the allowlist.
- **The explanation of a lost connection is never given**
  (`chatService.ts:1660`): with the provider a failed context has no intent, and
  that answer needs one (`ContextSound` says so for every context).
- **If the time is up before the first lookup has a context, the model answers**
  without one; and the `hasMetadata: false` of a later pass displaces the `true`
  of an earlier one. Over HTTP the rows and field profiles of a lookup are
  dropped, so such rankings are always withheld.
- **A failed dispatch may be undone**: a worker that was started after all sets
  the job back to running with its next report, and finishes it.
- **The contract to resume a clarification may loop.**
  `docs/v0.9-metadata-discovery-clarification-contracts.md:37` describes how to
  ask again; a message that says "either", or a target type that is allowed but
  not supported, leads to the same clarification. The options lead out, which is
  what `OptionsLead` checks; the plan's own `stateTransitions` have no step from
  a clarification to another one, but there is one.
- **A hosted success of unknown shape is reported with the fixture's fields**,
  under the hosted transport; only its warning tells. A blocked
  `TRANSPORT_NOT_CONFIGURED` is marked retryable and a refused one is not.
- **The timeout setting of the hosted transport is enforced nowhere**
  (`docs/configuration.md:99`): the wrapper's timer answers, without an error
  code, and the session stays open until the server ends it.
- **A slow reading of the dashboard may overwrite a newer one**, which then stays
  until the next selection (`App.tsx:34`): `ShownFollowsSelection` is stated for
  when the youngest reading is the one shown. Selections made between the first
  reading and the attaching of the listeners are not heard.
- **Marks that were cleared while the page was behind are sent all the same**:
  the merge keeps the marks shown if the new reading has none
  (`ChatPanel.tsx:446`), and cannot tell a cleared selection from a failed read.
- **The engine cannot end in `completed`.** Whatever a step comes to makes the
  derived status `failed`, `partial` or `skipped` (`execution.ts:746-782`).

## 6. What is not modelled

- Data: texts of questions, answers and progress messages, the contents of the
  dashboard context, tool arguments and outputs, formatting, logging, layout.
- The runners around the engine (`lambdaRunner`, `selectedMarkOrchestration`):
  one pass without concurrency whose outcome the engine decides; the rest is
  tables of keywords and a trace. Its runs always end in `partial` or
  `fallback`, because the engine never completes.
- Response composition: whether a sentence claims something unsupported is a
  matter of its words.
- Of the modelled components: the redirect pages of the sign-in and encryption
  of the verifier; the display of the panel; the discovery of Notion's endpoints, the registration
  of a client and encryption; registration of tools, plan selection and validation,
  and traces in the engine; the caches of the provider and the lookup over HTTP;
  prompts, the compression of the context and drafts for Notion; listFields of
  the metadata tools; filters, parameters and previews of the dashboard context,
  and its remounting, which happens in development only.
- Direct and mock providers, token verification, HTTP routing, configuration and
  clients: no state, or one cached value.

## 7. Plan

Done: the modules of section 2 with the theorems of section 4. What is left, in
the order of what it would add:

1. That `AnswerGeneration` reports the stages `ChatJob` assumes (`NextStages`).
2. That the attempts of `NotionPanel` end if no window is left at Notion for ever.
3. The metadata cache of the provider, and the key set of `cognitoAuth.ts:18`,
   cached for the life of the process.
