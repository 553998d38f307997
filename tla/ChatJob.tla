------------------------------- MODULE ChatJob -------------------------------
(***************************************************************************)
(* One asynchronous chat job: the DynamoDB item behind POST and GET        *)
(* /chat-jobs, the API handler that creates and dispatches it, Lambda's    *)
(* at-least-once delivery of the dispatch event, and the worker            *)
(* invocations that claim the item, report progress, save the chat turn    *)
(* and publish the result.                                                 *)
(*                                                                         *)
(* Jobs share no state, so the module follows a single jobId.  DynamoDB    *)
(* applies each request atomically, but the worker issues its requests one *)
(* await at a time: every request is an action of its own, and progress is *)
(* a read followed, possibly much later, by an unconditional write.        *)
(***************************************************************************)
EXTENDS Naturals, Sequences

CONSTANTS
  Worker,          \* worker invocations, each with the workerId it draws
  None,            \* an absent item or attribute
  Faults,          \* what may go wrong: see FaultKinds
  Paths,           \* the ways generateAnswer may take: see PathKinds
  WorkerFunction,  \* is CHAT_JOB_WORKER_FUNCTION_NAME set?
  LeaseSeconds,    \* how long a claim or a report holds the job, in ticks
  WorkerTimeout,   \* Lambda timeout of the worker function
  ApiTimeout,      \* Lambda timeout of the API function
  EventMaxAge,     \* how long Lambda keeps an asynchronous event
  TtlSeconds,      \* lifetime of the item after creation and completion
  MessageLimit,    \* CHAT_JOB_PROGRESS_MESSAGE_LIMIT
  MaxRetries,      \* Lambda's retries of a failed asynchronous invocation
  MaxDuplicates,   \* bound on spontaneous duplicate deliveries
  MaxClock         \* bound on the clock

\* A request to the tables rejects; the Invoke request rejects; a process
\* stops; an eventually consistent GetItem returns an earlier item.
FaultKinds == {"store", "invoke", "crash", "stale"}

\* An answer without any context (the structured and the fast path), one from
\* the metadata or past the deadline, and one the model generates.
PathKinds == {"fast", "metadata", "generated"}

ASSUME ConstantsAssumption ==
  /\ None \notin Worker
  /\ "dispatch_failed" \notin Worker
  /\ Faults \subseteq FaultKinds
  /\ Paths \subseteq PathKinds
  /\ WorkerFunction \in BOOLEAN
  /\ LeaseSeconds \in Nat \ {0}
  /\ WorkerTimeout \in Nat
  /\ ApiTimeout \in Nat
  /\ EventMaxAge \in Nat
  /\ TtlSeconds \in Nat \ {0}
  /\ MessageLimit \in Nat \ {0}
  /\ MaxRetries \in Nat
  /\ MaxDuplicates \in Nat
  /\ MaxClock \in Nat

VARIABLES
  clock,    \* wall-clock time
  item,     \* the job's item in the jobs table, or None
  replica,  \* the earlier item an eventually consistent GetItem may return
  api,      \* createChatJob: where it is, and when it made the record
  events,   \* the dispatch event inside Lambda's asynchronous queue
  run,      \* per worker invocation: where processChatJob is
  saved     \* the workers whose chat turn is in the history table

vars == <<clock, item, replica, api, events, run, saved>>

-----------------------------------------------------------------------------
(* Values *)

Status == {"queued", "running", "finalizing", "completed", "failed"}
Terminal == {"completed", "failed"}
Stage == {"queued", "loading_history", "loading_dashboard_context",
          "planning", "running_mcp_tools", "generating_answer",
          "finalizing", "completed", "failed"}
ErrorSource == Worker \cup {"dispatch_failed"}
Message == [by : Worker \cup {None}, stage : Stage]

\* Attributes of the item that some step of the code reads or that a poller
\* is shown; "request" says whether the item carries the question at all.
Item == [status    : Status,
         stage     : Stage,
         messages  : Seq(Message) \cup {None},
         workerId  : Worker \cup {None},
         lease     : Nat,
         attempts  : Nat,
         result    : Worker \cup {None},
         error     : ErrorSource \cup {None},
         expiresAt : Nat,
         request   : BOOLEAN]

\* An absent attribute is not an empty list, nor a missing item an item.
ASSUME AbsentAssumption == None \notin Seq(Message) \cup Item

ApiPc == {"idle", "dispatch", "undo", "accepted", "rejected", "lost"}
WorkerPc == {"idle", "claim", "report", "write", "work", "complete", "fail",
             "done", "skipped", "dead"}
Run == [pc : WorkerPc, begun : Nat, lease : Nat, stage : Stage,
        seen : Seq(Message)]

TypeOK ==
  /\ clock \in Nat
  /\ item \in Item \cup {None}
  /\ replica \in Item \cup {None}
  /\ api \in [pc : ApiPc, at : Nat]
  /\ events \in [pending : Nat, retries : Nat, dups : Nat, sent : BOOLEAN,
                 sentAt : Nat]
  /\ run \in [Worker -> Run]
  /\ saved \subseteq Worker

\* A worker is running from the start of the invocation to its end, and
\* holds the job from its successful claim on.
Ended == {"done", "skipped", "dead"}
Alive(w) == run[w].pc \notin Ended \cup {"idle"}
Holding(w) == Alive(w) /\ run[w].pc # "claim"

\* progressMessages.slice(-maxMessages)
LastOf(s) ==
  IF Len(s) <= MessageLimit THEN s
  ELSE SubSeq(s, Len(s) - MessageLimit + 1, Len(s))

\* The item an unconditional UpdateItem starts from: it creates a missing one.
Bare == [status |-> "failed", stage |-> "failed", messages |-> None,
         workerId |-> None, lease |-> 0, attempts |-> 0, result |-> None,
         error |-> None, expiresAt |-> 0, request |-> FALSE]
Target == IF item = None THEN Bare ELSE item

Init ==
  /\ clock = 0
  /\ item = None
  /\ replica = None
  /\ api = [pc |-> "idle", at |-> 0]
  /\ events = [pending |-> 0, retries |-> 0, dups |-> 0, sent |-> FALSE,
               sentAt |-> 0]
  /\ run = [w \in Worker |-> [pc |-> "idle", begun |-> 0, lease |-> 0,
                              stage |-> "queued", seen |-> <<>>]]
  /\ saved = {}

-----------------------------------------------------------------------------
(* The API handler: createChatJob *)

\* Mutant: the item lives no longer than a lease.
NewItemShortLived ==
  [status |-> "queued", stage |-> "queued",
   messages |-> <<[by |-> None, stage |-> "queued"]>>,
   workerId |-> None, lease |-> 0, attempts |-> 0, result |-> None,
   error |-> None, expiresAt |-> clock + LeaseSeconds, request |-> TRUE]

NewItem ==
  [status |-> "queued", stage |-> "queued",
   messages |-> <<[by |-> None, stage |-> "queued"]>>,
   workerId |-> None, lease |-> 0, attempts |-> 0, result |-> None,
   error |-> None, expiresAt |-> clock + TtlSeconds, request |-> TRUE]

\* repository.create; a request that fails may still have been applied.
CreateJob ==
  /\ api.pc = "idle"
  /\ \/ /\ item' = NewItem
        /\ api' = [pc |-> "dispatch", at |-> clock]
     \/ /\ "store" \in Faults
        /\ item' \in {item, NewItem}
        /\ api' = [pc |-> "rejected", at |-> clock]
  /\ UNCHANGED <<clock, replica, events, run, saved>>

\* Lambda accepts the event; without a worker function the same process runs
\* the job itself, once and without retries.
Accept ==
  events' = [pending |-> 1,
             retries |-> IF WorkerFunction THEN MaxRetries ELSE 0,
             dups |-> IF WorkerFunction THEN MaxDuplicates ELSE 0,
             sent |-> TRUE, sentAt |-> clock]

Dispatch ==
  /\ api.pc = "dispatch"
  /\ Accept
  /\ api' = [api EXCEPT !.pc = "accepted"]
  /\ UNCHANGED <<clock, item, replica, run, saved>>

\* InvokeCommand rejects.  The event may have been accepted all the same.
DispatchFails ==
  /\ api.pc = "dispatch"
  /\ WorkerFunction
  /\ "invoke" \in Faults
  /\ Accept \/ UNCHANGED events
  /\ api' = [api EXCEPT !.pc = "undo"]
  /\ UNCHANGED <<clock, item, replica, run, saved>>

\* The catch block: markFailed with code dispatch_failed, then throw.
FailedByDispatch ==
  [Target EXCEPT !.status = "failed", !.stage = "failed",
                 !.error = "dispatch_failed",
                 !.expiresAt = clock + TtlSeconds]

UndoDispatch ==
  /\ api.pc = "undo"
  /\ \/ item' = FailedByDispatch
     \/ "store" \in Faults /\ item' = item
  /\ api' = [api EXCEPT !.pc = "rejected"]
  /\ UNCHANGED <<clock, replica, events, run, saved>>

ApiStops ==
  /\ api.pc \in {"dispatch", "undo"}
  /\ "crash" \in Faults \/ clock = api.at + ApiTimeout
  /\ api' = [api EXCEPT !.pc = "lost"]
  /\ UNCHANGED <<clock, item, replica, events, run, saved>>

-----------------------------------------------------------------------------
(* Lambda: delivery of the asynchronous event *)

\* An invocation starts; processChatJob computes now and the lease before it
\* sends the claim.
Begin(w) ==
  /\ run[w].pc = "idle"
  /\ events.pending > 0
  /\ clock <= events.sentAt + EventMaxAge
  /\ events' = [events EXCEPT !.pending = @ - 1]
  /\ run' = [run EXCEPT ![w] = [@ EXCEPT !.pc = "claim", !.begun = clock,
                                         !.lease = clock + LeaseSeconds]]
  /\ UNCHANGED <<clock, item, replica, api, saved>>

Duplicate ==
  /\ events.sent
  /\ events.dups > 0
  /\ events' = [events EXCEPT !.pending = @ + 1, !.dups = @ - 1]
  /\ UNCHANGED <<clock, item, replica, api, run, saved>>

\* An invocation that ends leaves none of its local state behind.
End(w, pc) ==
  run' = [run EXCEPT ![w] = [pc |-> pc, begun |-> 0, lease |-> 0,
                             stage |-> "queued", seen |-> <<>>]]

\* The invocation ends with an error, a crash or a timeout: Lambda retries.
Dies(w) ==
  /\ End(w, "dead")
  /\ events' = IF events.retries > 0
               THEN [events EXCEPT !.pending = @ + 1, !.retries = @ - 1]
               ELSE events

Stops(w) ==
  /\ Alive(w)
  /\ "crash" \in Faults \/ clock = run[w].begun + WorkerTimeout
  /\ Dies(w)
  /\ UNCHANGED <<clock, item, replica, api, saved>>

-----------------------------------------------------------------------------
(* The worker: processChatJob *)

\* Mutant: a running job is claimed whatever its lease.
ClaimableWhileLeased(now) ==
  item # None /\ item.status \in {"queued", "running"}

\* Mutant: a job stuck in finalizing is claimed like one stuck in running.
ClaimableWhileFinalizing(now) ==
  /\ item # None
  /\ \/ item.status = "queued"
     \/ item.status \in {"running", "finalizing"} /\ item.lease < now

\* status = queued OR (status = running AND leaseExpiresAt < now)
Claimable(now) ==
  /\ item # None
  /\ \/ item.status = "queued"
     \/ item.status = "running" /\ item.lease < now

Claimed(w) ==
  [item EXCEPT !.status = "running", !.stage = "loading_history",
               !.workerId = w, !.lease = run[w].lease,
               !.attempts = @ + 1]

\* Call report: the new lease is computed before the item is read.
CallReport(w, stage) ==
  run' = [run EXCEPT ![w] = [@ EXCEPT !.pc = "report", !.stage = stage,
                                      !.lease = clock + LeaseSeconds]]

Goto(w, pc) == run' = [run EXCEPT ![w] = [@ EXCEPT !.pc = pc]]

Claim(w) ==
  /\ run[w].pc = "claim"
  /\ LET now == run[w].lease - LeaseSeconds IN
     \/ /\ Claimable(now)
        /\ item' = Claimed(w)
        /\ IF item.request THEN CallReport(w, "loading_history")
                           ELSE Goto(w, "fail")
        /\ UNCHANGED events
     \/ /\ ~Claimable(now)
        /\ End(w, "skipped")
        /\ UNCHANGED <<item, events>>
     \/ /\ "store" \in Faults
        /\ item' = item \/ (Claimable(now) /\ item' = Claimed(w))
        /\ Dies(w)
  /\ UNCHANGED <<clock, replica, api, saved>>

\* Mutants: finalizing is no status of its own; completed is no status.
StatusWithoutFinalizing(stage) ==
  IF stage \in Terminal THEN stage ELSE "running"
StatusWithoutCompleted(stage) ==
  IF stage \in {"failed", "finalizing"} THEN stage ELSE "running"

\* The reporter maps a stage to the status it writes.
StatusOf(stage) ==
  IF stage \in Terminal \cup {"finalizing"} THEN stage ELSE "running"

\* report returns, having swallowed any error; the last one ends the run.
ReportReturns(w) ==
  IF run[w].stage \in Terminal
  THEN End(w, "done")
  ELSE run' = [run EXCEPT ![w] = [@ EXCEPT !.pc = "work", !.lease = 0,
                                           !.seen = <<>>]]

\* updateProgress, first half: GetItem.  An item that is missing, one that has
\* no messages to spread, and a failing read all end the report unwritten.
View == {item} \cup (IF "stale" \in Faults THEN {replica} ELSE {})
Spreadable(copy) == copy # None /\ copy.messages # None

ReportRead(w) ==
  /\ run[w].pc = "report"
  /\ \E copy \in View :
       \/ /\ Spreadable(copy)
          /\ run' = [run EXCEPT ![w] = [@ EXCEPT !.pc = "write",
                                                 !.seen = copy.messages]]
       \/ /\ Spreadable(copy) => "store" \in Faults
          /\ ReportReturns(w)
  /\ UNCHANGED <<clock, item, replica, api, events, saved>>

\* Mutant: the newest message goes first.
ReportedNewestFirst(w) ==
  [Target EXCEPT
     !.status = StatusOf(run[w].stage), !.stage = run[w].stage,
     !.messages = LastOf(<<[by |-> w, stage |-> run[w].stage]>>
                         \o run[w].seen),
     !.lease = run[w].lease]

Reported(w) ==
  [Target EXCEPT
     !.status = StatusOf(run[w].stage), !.stage = run[w].stage,
     !.messages = LastOf(Append(run[w].seen,
                                [by |-> w, stage |-> run[w].stage])),
     !.lease = run[w].lease]

\* updateProgress, second half: an UpdateItem without a condition.
ReportWrite(w) ==
  /\ run[w].pc = "write"
  /\ \/ item' = Reported(w)
     \/ "store" \in Faults /\ item' = item
  /\ ReportReturns(w)
  /\ UNCHANGED <<clock, replica, api, events, saved>>

\* The reports of ChatService.generateAnswer, in order, with its early exits.
If(path, stage) == IF path \in Paths THEN {stage} ELSE {}

NextStages(stage) ==
  CASE stage = "loading_history"
         -> If("fast", "finalizing") \cup
            If("metadata", "loading_dashboard_context") \cup
            If("generated", "loading_dashboard_context")
    [] stage = "loading_dashboard_context" -> {"planning"}
    [] stage = "planning" -> {"running_mcp_tools"}
    [] stage = "running_mcp_tools"
         -> If("metadata", "finalizing") \cup
            If("generated", "generating_answer")
    [] stage = "generating_answer" -> {"finalizing"}
    [] OTHER -> {}

Advance(w) ==
  /\ run[w].pc = "work"
  /\ \E stage \in NextStages(run[w].stage) : CallReport(w, stage)
  /\ UNCHANGED <<clock, item, replica, api, events, saved>>

\* History, the context provider or the model rejects.
Throw(w) ==
  /\ run[w].pc = "work"
  /\ Goto(w, "fail")
  /\ UNCHANGED <<clock, item, replica, api, events, saved>>

\* Mutant: an answer that cannot be saved is published all the same.
SaveTurnBestEffort(w) ==
  /\ run[w].pc = "work"
  /\ run[w].stage = "finalizing"
  /\ saved' \in {saved, saved \cup {w}}
  /\ Goto(w, "complete")
  /\ UNCHANGED <<clock, item, replica, api, events>>

\* persistAndBuildResponse: ChatHistoryRepository.save of a fresh messageId.
SaveTurn(w) ==
  /\ run[w].pc = "work"
  /\ run[w].stage = "finalizing"
  /\ saved' = saved \cup {w}
  /\ Goto(w, "complete") \/ ("store" \in Faults /\ Goto(w, "fail"))
  /\ UNCHANGED <<clock, item, replica, api, events>>

Completed(w) ==
  [Target EXCEPT !.status = "completed", !.stage = "completed",
                 !.result = w, !.expiresAt = clock + TtlSeconds]

Complete(w) ==
  /\ run[w].pc = "complete"
  /\ \/ item' = Completed(w) /\ CallReport(w, "completed")
     \/ /\ "store" \in Faults
        /\ item' \in {item, Completed(w)}
        /\ Goto(w, "fail")
  /\ UNCHANGED <<clock, replica, api, events, saved>>

FailedBy(w) ==
  [Target EXCEPT !.status = "failed", !.stage = "failed", !.error = w,
                 !.expiresAt = clock + TtlSeconds]

\* The catch block.  If markFailed rejects too, the handler rethrows.
Fail(w) ==
  /\ run[w].pc = "fail"
  /\ \/ item' = FailedBy(w) /\ CallReport(w, "failed") /\ UNCHANGED events
     \/ /\ "store" \in Faults
        /\ item' \in {item, FailedBy(w)}
        /\ Dies(w)
  /\ UNCHANGED <<clock, replica, api, saved>>

-----------------------------------------------------------------------------
(* The store and the clock *)

\* DynamoDB brings the lagging copy up to date.
Replicate ==
  /\ "stale" \in Faults
  /\ replica # item
  /\ replica' = item
  /\ UNCHANGED <<clock, item, api, events, run, saved>>

\* DynamoDB deletes the item some time after expiresAt has passed.
Expire ==
  /\ item # None
  /\ item.expiresAt > 0
  /\ clock > item.expiresAt
  /\ item' = None
  /\ UNCHANGED <<clock, replica, api, events, run, saved>>

\* No invocation outlives its Lambda timeout.
Tick ==
  /\ clock < MaxClock
  /\ \A w \in Worker : Alive(w) => clock < run[w].begun + WorkerTimeout
  /\ api.pc \in {"dispatch", "undo"} => clock < api.at + ApiTimeout
  /\ clock' = clock + 1
  /\ UNCHANGED <<item, replica, api, events, run, saved>>

ApiStep == CreateJob \/ Dispatch \/ DispatchFails \/ UndoDispatch

WorkerStep(w) ==
  \/ Begin(w) \/ Claim(w)
  \/ ReportRead(w) \/ ReportWrite(w)
  \/ Advance(w) \/ Throw(w) \/ SaveTurn(w)
  \/ Complete(w) \/ Fail(w)

Next ==
  \/ ApiStep \/ ApiStops
  \/ \E w \in Worker : WorkerStep(w) \/ Stops(w)
  \/ Duplicate \/ Replicate \/ Expire \/ Tick

Spec == Init /\ [][Next]_vars

\* Node runs every pending continuation, and Lambda delivers what it accepted.
FairSpec ==
  /\ Spec
  /\ WF_vars(Dispatch \/ UndoDispatch)
  /\ WF_vars(Replicate)
  /\ \A w \in Worker : WF_vars(WorkerStep(w))
-----------------------------------------------------------------------------
(* Properties *)

\* At most one invocation works on the job at a time.  Nothing after the claim
\* checks workerId or the lease, so this rests on no invocation outliving the
\* lease it took: it needs LeaseSeconds >= WorkerTimeout (ChatJobService.
\* processChatJob, ChatJobRepository.claim).
SingleRunner == \A v, w \in Worker : Holding(v) /\ Holding(w) => v = w

\* One question leaves at most one turn in the chat history, however often the
\* event is delivered and wherever an invocation stops: the finalizing status
\* reported before ChatHistoryRepository.save puts the job out of reach of
\* another claim.
AtMostOneTurn == \A v, w \in saved : v = w

\* The answer on the job is in the chat history: an answer that is shown can
\* be referred to by the next question of the session.
ResultIsSaved ==
  item # None /\ item.result # None => item.result \in saved

\* No late request recreates a job item that DynamoDB has expired, which would
\* leave a bare item without request or owner: the item outlives everything
\* that may still write to it.
NeverBare == item # None => item.request

Rank == [stage \in Stage |->
  CASE stage = "queued" -> 0
    [] stage = "loading_history" -> 1
    [] stage = "loading_dashboard_context" -> 2
    [] stage = "planning" -> 3
    [] stage = "running_mcp_tools" -> 4
    [] stage = "generating_answer" -> 5
    [] stage = "finalizing" -> 6
    [] stage \in Terminal -> 7]

\* The progress list the panel shows never runs backwards for one invocation,
\* even when reports of others, or lagging reads, erase entries in between.
ProgressInOrder ==
  item # None /\ item.messages # None =>
    \A i, j \in DOMAIN item.messages :
      i < j /\ item.messages[i].by = item.messages[j].by =>
        Rank[item.messages[i].stage] < Rank[item.messages[j].stage]

\* Once every process may finish, a job that exists settles in a terminal
\* status for good, even when deliveries overlap and late reports of one
\* invocation undo the status another has published.
Settles == <>[](item = None \/ item.status \in Terminal)

\* The status of the item and the history table, read as a job's lifecycle.
Phase == IF item # None THEN item.status
         ELSE IF api.pc = "idle" THEN "none" ELSE "gone"

Lifecycle == INSTANCE ChatJobLifecycle WITH phase <- Phase, recorded <- saved # {}

\* Under a lease that outlasts the worker, and with a store that answers, the
\* job implements its lifecycle: status only moves forward, a published answer
\* follows its recorded turn, and nothing reopens a settled job.
ImplementsLifecycle == Lifecycle!Spec

-----------------------------------------------------------------------------
(* Why the properties hold: the parts of the inductive invariants *)

\* Nothing runs before the dispatch event was sent, and it is sent only by a
\* handler that has created the item.
Sent ==
  /\ api.pc = "idle" => ~events.sent
  /\ ~events.sent => /\ events.pending = 0
                     /\ \A w \in Worker : run[w].pc = "idle"

Deadlines ==
  /\ \A w \in Worker : Alive(w) => /\ run[w].begun <= clock
                                   /\ clock <= run[w].begun + WorkerTimeout
  /\ api.pc \in {"dispatch", "undo"} => /\ api.at <= clock
                                        /\ clock <= api.at + ApiTimeout

\* A job in the hands of an invocation is leased beyond that invocation's end.
Leased ==
  \A w \in Worker :
    /\ run[w].pc = "claim" => run[w].lease = run[w].begun + LeaseSeconds
    /\ run[w].pc \in {"report", "write"} =>
         run[w].lease >= run[w].begun + LeaseSeconds
    /\ Holding(w) /\ item # None =>
         /\ item.status # "queued"
         /\ item.status = "running" =>
              item.lease >= run[w].begun + LeaseSeconds

\* The item outlives the handler, the queued event and every invocation.
LastWrite == events.sentAt + EventMaxAge + WorkerTimeout
Lasting ==
  /\ events.sent => events.sentAt <= clock
  /\ \A w \in Worker :
       Alive(w) => events.sent /\ run[w].begun <= events.sentAt + EventMaxAge
  /\ api.pc \in {"dispatch", "undo"} =>
       /\ item # None
       /\ item.expiresAt >= api.at + ApiTimeout + EventMaxAge + WorkerTimeout
  /\ events.sent /\ clock <= LastWrite =>
       item # None /\ item.expiresAt >= LastWrite
  /\ item # None => item.request /\ item.messages # None

\* An invocation publishes what it has saved.
SavedFirst == \A w \in Worker : run[w].pc = "complete" => w \in saved

\* A list of messages that an invocation may still spread.
MessageLists ==
  {copy.messages : copy \in {c \in {item, replica} : Spreadable(c)}}
    \cup {run[w].seen : w \in Worker}

InOrder(s) ==
  \A i, j \in DOMAIN s :
    i < j /\ s[i].by = s[j].by => Rank[s[i].stage] < Rank[s[j].stage]

\* No list is ahead of the invocations it tells of: what one is about to report
\* is later than anything any list says of it.
NotAhead(s) ==
  \A i \in DOMAIN s : \A w \in Worker :
    s[i].by = w =>
      /\ run[w].pc \notin {"idle", "claim"}
      /\ run[w].pc \in {"report", "write"} => Rank[s[i].stage] < Rank[run[w].stage]
      /\ run[w].pc \in {"work", "complete", "fail"} =>
           Rank[s[i].stage] <= Rank[run[w].stage]

InStep ==
  /\ \A s \in MessageLists : InOrder(s) /\ NotAhead(s)
  /\ \A w \in Worker :
       run[w].pc \in {"idle", "claim", "work", "complete", "fail"} =>
         run[w].stage \notin Terminal

\* Once a turn is saved, or about to be, no claim succeeds any more.
Fenced ==
  /\ saved # {} /\ item # None => item.status \notin {"queued", "running"}
  /\ item # None /\ item.messages = None => item.status \in Terminal
  /\ \A w \in Worker :
       /\ run[w].pc = "work" /\ run[w].stage = "finalizing" /\ item # None =>
            item.status \notin {"queued", "running"}
       /\ Holding(w) /\ saved # {} =>
            /\ run[w].pc # "work"
            /\ run[w].pc \in {"report", "write"} => run[w].stage \in Terminal
       /\ w \in saved => run[w].pc \notin {"idle", "claim"}

\* What the item's status is while an invocation holds the job.
Tracked ==
  /\ api.pc = "idle" => item = None
  /\ api.pc # "undo"
  /\ \A w \in Worker : Holding(w) =>
       /\ run[w].pc \in {"report", "write"} =>
            item.status = IF run[w].stage \in Terminal THEN run[w].stage ELSE "running"
       /\ run[w].pc = "work" => /\ run[w].stage \notin Terminal
                                /\ item.status = StatusOf(run[w].stage)
       /\ run[w].pc = "complete" => item.status = "finalizing"
       /\ run[w].pc = "fail" => item.status \in {"running", "finalizing"}
=============================================================================
