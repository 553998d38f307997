----------------------- MODULE MetadataDiscoveryProofs -----------------------
(***************************************************************************)
(* Proofs about MetadataDiscovery, for any requests, settings, services,   *)
(* replies and number of runs.                                             *)
(***************************************************************************)
EXTENDS MetadataDiscovery, FiniteSetTheorems, SequenceTheorems, TLAPS

\* Runs that have not begun have no session, nor has one that was not executed;
\* one that waits for the server has an open one.
SessionsFollowRuns ==
  /\ \A i \in 1..MaxRuns : i > run => calls[i] = "none"
  /\ at \in {"asked", "clarifying"} => calls[run] = "none"
  /\ at = "calling" => calls[run] = "open"

\* A session was started only after every gate had been passed.
SessionsWereLet ==
  calls[run] # "none" =>
    /\ HasCandidate(request)
    /\ CanExecute(settings, service)
    /\ HostedSelected(settings, service)
    /\ CallConfigured(settings, service)

\* Whoever answers while the session is open has waited in vain.
OpenIsLate ==
  at = "answered" =>
    /\ answer \in Answers
    /\ calls[run] = "open" => answer.status = "failed"

DiscoveryInv ==
  /\ TypeOK
  /\ SessionsFollowRuns
  /\ SessionsWereLet
  /\ OpenIsLate
  /\ ContentIsLabelled

-----------------------------------------------------------------------------
(* Types *)

LEMMA NoneIsApart ==
  /\ None # "fixture" /\ None # "hosted" /\ None # "fake"
  /\ None # "unknown" /\ \A t \in Targets : None # t
BY MetadataAssumption

LEMMA TargetType ==
  ASSUME NEW r \in Request
  PROVE  /\ TargetOf(r) \in Targets \cup {"unknown"}
         /\ CandidatesOf(r) \subseteq Targets
<1>1. TheMention(r) \in Targets \cup {"unknown"}
  <2>1. CASE Cardinality(r.mentions) = 1
    <3>1. r.mentions \subseteq Targets
      BY DEF Request
    <3>2. r.mentions # {}
      BY <2>1, FS_EmptySet
    <3>3. \E t \in Targets : t \in r.mentions
      BY <3>1, <3>2
    <3> QED BY <2>1, <3>3 DEF TheMention
  <2>2. CASE Cardinality(r.mentions) # 1
    BY <2>2 DEF TheMention
  <2> QED BY <2>1, <2>2
<1>2. TargetOf(r) \in Targets \cup {"unknown"}
  BY <1>1 DEF TargetOf, Request
<1>3. CandidatesOf(r) \subseteq Targets
  <2>1. r.candidates \subseteq Targets /\ r.mentions \subseteq Targets
    BY DEF Request
  <2>2. TargetOf(r) # "unknown" => TargetOf(r) \in Targets
    BY <1>2
  <2> QED BY <2>1, <2>2 DEF CandidatesOf
<1> QED BY <1>2, <1>3

LEMMA ReasonType ==
  ASSUME NEW r \in Request
  PROVE  /\ ReasonCode(r) \in ReasonCodes
         /\ PlanReason(r) \in PlanReasons
         /\ PlanState(r) \in {"executable", "unsupported", "fallback",
                              "clarification_required"}
<1>1. ReasonCode(r) \in ReasonCodes
  BY DEF ReasonCode, ReasonCodes
<1>2. PlanReason(r) \in PlanReasons
  BY <1>1 DEF PlanReason, PlanReasons
<1>3. PlanState(r) \in {"executable", "unsupported", "fallback",
                        "clarification_required"}
  BY DEF PlanState
<1> QED BY <1>1, <1>2, <1>3

LEMMA ErrorCodeType == \A c : ErrorCode(c) \in PreconditionErrors
BY DEF ErrorCode, PreconditionErrors

LEMMA WarningTypes ==
  \A s, v : /\ PassedWith(s, v) \subseteq Warnings
            /\ "fixture" \notin PassedWith(s, v)
            /\ BuiltWith(s, v) \subseteq Warnings
            /\ "fixture" \in BuiltWith(s, v)
            /\ StoppedWith(s, v) \subseteq Warnings
BY DEF PassedWith, BuiltWith, StoppedWith, Warnings

LEMMA SwitchType ==
  ASSUME NEW s \in Setting, NEW v \in Service
  PROVE  HostedSelected(s, v) \in BOOLEAN /\ Offline(s, v) \in BOOLEAN
         /\ FellBack(s, v) \in BOOLEAN
BY DEF HostedSelected, Offline, FellBack, Setting, Service

LEMMA AnswerType ==
  ASSUME NEW status \in {"completed", "failed", "unsupported", "fallback",
                         "clarification_required"},
         NEW code \in PlanReasons \cup PreconditionErrors \cup HostedErrors
                        \cup {"TRANSPORT_FAILED", None},
         NEW source \in {None, "fixture", "hosted"},
         NEW warned \in SUBSET Warnings,
         NEW by \in {None, "fake", "hosted"},
         NEW s \in Setting, NEW v \in Service
  PROVE  /\ Answer(status, code, source, warned, by) \in Answers
         /\ Traced(Answer(status, code, source, warned, by), s, v) \in Answers
BY SwitchType DEF Answer, Traced, Answers

LEMMA PlanAnswerType ==
  ASSUME NEW r \in Request PROVE PlanAnswer(r) \in Answers
<1>1. PlanStatus(r) \in {"completed", "failed", "unsupported", "fallback",
                         "clarification_required"}
  BY ReasonType DEF PlanStatus
<1> QED BY <1>1, ReasonType DEF PlanAnswer, Answer, Answers

LEMMA RunAnswerTypes ==
  ASSUME NEW s \in Setting, NEW v \in Service
  PROVE  /\ BlockedAnswer(s, v) \in Answers
         /\ FixtureAnswer(s, v) \in Answers
         /\ RefusedAnswer(s, v) \in Answers
         /\ \A m \in Reply : ReplyAnswer(s, v, m) \in Answers
         /\ TimeoutAnswer \in Answers
<1>1. BlockedAnswer(s, v) \in Answers
  BY AnswerType, WarningTypes, ErrorCodeType DEF BlockedAnswer
<1>2. FixtureAnswer(s, v) \in Answers
  BY AnswerType, WarningTypes DEF FixtureAnswer
<1>3. RefusedAnswer(s, v) \in Answers
  BY AnswerType, WarningTypes DEF RefusedAnswer, PreconditionErrors
<1>4. ASSUME NEW m \in Reply PROVE ReplyAnswer(s, v, m) \in Answers
  <2>1. FailedReply(s, v, m) \in Answers
    <3>1. HostedCode(m.code) \in HostedErrors
      BY DEF HostedCode, HostedErrors, Reply
    <3> QED BY <3>1, AnswerType, WarningTypes DEF FailedReply
  <2>2. UnshapedReply(s, v) \in Answers
    BY AnswerType, WarningTypes DEF UnshapedReply
  <2>3. ShapedReply(s, v, m) \in Answers
    <3>1. OutputCode(m) \in HostedErrors \cup {"TRANSPORT_FAILED", None}
      BY DEF OutputCode, Reply
    <3>2. PassedWith(s, v) \cup CutWarning(m) \in SUBSET Warnings
      BY WarningTypes DEF CutWarning, Warnings
    <3> QED BY <3>1, <3>2, AnswerType DEF ShapedReply
  <2> QED BY <2>1, <2>2, <2>3 DEF ReplyAnswer
<1>5. TimeoutAnswer \in Answers
  BY DEF TimeoutAnswer, Answer, Answers
<1> QED BY <1>1, <1>2, <1>3, <1>4, <1>5

\* The request of the next run, as an option or the contract has it.
LEMMA ResumedType ==
  ASSUME NEW r \in Request
  PROVE  /\ \A o \in Options(r) : /\ o.target \in Targets
                                  /\ Resumed(r, o.target, o.fields) \in Request
         /\ \A t \in AllowedTargetTypes(r) :
              Resumed(r, t, RequiredFields(r)) \in Request
<1>1. ASSUME NEW t \in Targets, NEW fields
      PROVE  Resumed(r, t, fields) \in Request
  BY <1>1 DEF Resumed, Request
<1>2. \A o \in Options(r) : o.target \in Targets
  BY TargetType DEF Options, Choice, Targets
<1>3. AllowedTargetTypes(r) \subseteq Targets
  BY TargetType DEF AllowedTargetTypes
<1> QED BY <1>1, <1>2, <1>3

-----------------------------------------------------------------------------
(* What the gates let through *)

\* A plan has something to execute only if all its preconditions hold.
LEMMA CandidateIsReady ==
  ASSUME NEW r \in Request, HasCandidate(r)
  PROVE  ~AsksForData(r) /\ Satisfied(r) = Preconditions
<1>1. Classified(r) = "ready"
  BY DEF HasCandidate, PlanState, Classified
<1>2. ~IsUnserved(r) /\ ~IsUnclear(r) /\ ~IsUnready(r)
  BY <1>1 DEF Classified
<1>3. ~AsksForData(r) /\ ~IsAmbiguous(r) /\ TargetOf(r) = "datasource"
  BY <1>2 DEF IsUnserved, IsUnclear, IsUnready, HasCandidate
<1>4. Cardinality(CandidatesOf(r)) = 1
  <2>1. IsFiniteSet(Targets)
    <3>1. IsFiniteSet({"view"})
      BY FS_Singleton
    <3>2. IsFiniteSet({"workbook"}) /\ IsFiniteSet({"datasource"})
      BY FS_Singleton
    <3>3. IsFiniteSet({"datasource"} \cup ({"workbook"} \cup {"view"}))
      BY <3>1, <3>2, FS_Union
    <3>4. Targets = {"datasource"} \cup ({"workbook"} \cup {"view"})
      BY DEF Targets
    <3> QED BY <3>3, <3>4
  <2>2. IsFiniteSet(CandidatesOf(r))
    BY <2>1, TargetType, FS_Subset
  <2>3. CandidatesOf(r) # {}
    BY <1>3 DEF CandidatesOf
  <2>4. Cardinality(CandidatesOf(r)) \in Nat /\ Cardinality(CandidatesOf(r)) # 0
    BY <2>2, <2>3, FS_CardinalityType, FS_EmptySet
  <2>5. ~(Cardinality(CandidatesOf(r)) > 1)
    BY <1>3 DEF IsAmbiguous
  <2> QED BY <2>4, <2>5
<1>5. r.identifier
  BY DEF HasCandidate
<1> QED BY <1>1, <1>3, <1>4, <1>5 DEF Satisfied, Preconditions

LEMMA GatesAgree ==
  ASSUME NEW s \in Setting, NEW v \in Service, CanExecute(s, v)
  PROVE  /\ Permission(s) \in {"verified", "not_verified"}
         /\ HostedSelected(s, v) =>
              /\ Site(s) \notin {"disabled", "unknown"}
              /\ Permission(s) = "verified"
              /\ s.transport = "selected" /\ s.time = "enough"
<1>1. /\ SiteFailures(s, v) = {} /\ TransportFailures(s, v) = {}
      /\ PermissionFailures(s, v) = {} /\ BudgetFailures(s) = {}
  BY DEF CanExecute, Failures
<1>2. Permission(s) \in {"verified", "not_verified", "denied", "insufficient_scope"}
  BY DEF Permission, Setting
<1>3. Permission(s) # "denied" /\ Permission(s) # "insufficient_scope"
  BY <1>1 DEF PermissionFailures
<1>4. HostedSelected(s, v) => Permission(s) # "not_verified"
  BY <1>1 DEF PermissionFailures
<1>5. HostedSelected(s, v) => Site(s) # "unknown"
  BY <1>1 DEF SiteFailures
<1>6. Site(s) # "disabled"
  BY <1>1 DEF SiteFailures
<1>7. s.transport # "disabled" /\ (HostedSelected(s, v) => s.transport # "not_configured")
  BY <1>1 DEF TransportFailures
<1>8. s.time # "none" /\ s.time # "short"
  BY <1>1 DEF BudgetFailures
<1>9. s.transport \in {"selected", "disabled", "not_configured"}
      /\ s.time \in {"enough", "short", "none"}
  BY DEF Setting
<1> QED BY <1>2, <1>3, <1>4, <1>5, <1>6, <1>7, <1>8, <1>9

LEMMA AgreedFromInv ==
  ASSUME TypeOK, SessionsWereLet PROVE HostedOnlyWhenAgreed
<1> SUFFICES ASSUME calls[run] # "none" PROVE HostedOnlyWhenAgreed
  BY DEF HostedOnlyWhenAgreed
<1>1. /\ HasCandidate(request) /\ CanExecute(settings, service)
      /\ HostedSelected(settings, service) /\ CallConfigured(settings, service)
  BY DEF SessionsWereLet
<1>2. request \in Request /\ settings \in Setting /\ service \in Service
  BY DEF TypeOK
<1>3. ~AsksForData(request) /\ Satisfied(request) = Preconditions
  BY <1>1, <1>2, CandidateIsReady
<1>4. /\ Site(settings) \notin {"disabled", "unknown"}
      /\ Permission(settings) = "verified"
      /\ settings.transport = "selected" /\ settings.time = "enough"
  BY <1>1, <1>2, GatesAgree
<1>5. /\ service.enabled /\ service.client /\ service.subject
      /\ settings.enabled /\ settings.kind = "hosted" /\ ~settings.noNetwork
  BY <1>1 DEF HostedSelected, CallConfigured, ClientReady
<1> QED BY <1>3, <1>4, <1>5 DEF HostedOnlyWhenAgreed

-----------------------------------------------------------------------------
(* What the answers say *)

LEMMA TracedFields ==
  ASSUME NEW status, NEW code, NEW source, NEW warned, NEW by, NEW s, NEW v
  PROVE  LET a == Traced(Answer(status, code, source, warned, by), s, v)
         IN /\ a.status = status /\ a.source = source /\ a.warned = warned
            /\ a.by = by /\ a.offline = Offline(s, v) /\ a.fellBack = FellBack(s, v)
BY DEF Traced, Answer

\* An answer without content: it failed, or was not to be executed.
Empty(a) == a.status # "completed" /\ a.source = None

LEMMA EmptyAnswers ==
  ASSUME NEW s, NEW v
  PROVE  /\ \A r \in Request : Empty(PlanAnswer(r)) /\ ~PlanAnswer(r).offline
         /\ Empty(BlockedAnswer(s, v)) /\ Empty(RefusedAnswer(s, v))
         /\ \A m : Empty(FailedReply(s, v, m))
         /\ Empty(TimeoutAnswer) /\ ~TimeoutAnswer.offline
         /\ TimeoutAnswer.status = "failed"
<1>1. ASSUME NEW r \in Request
      PROVE  Empty(PlanAnswer(r)) /\ ~PlanAnswer(r).offline
  <2>1. PlanStatus(r) # "completed"
    BY ReasonType DEF PlanStatus
  <2> QED BY <2>1 DEF PlanAnswer, Answer, Empty
<1>2. Empty(BlockedAnswer(s, v))
  BY TracedFields DEF BlockedAnswer, Empty
<1>3. Empty(RefusedAnswer(s, v))
  BY TracedFields DEF RefusedAnswer, Empty
<1>4. \A m : Empty(FailedReply(s, v, m))
  BY TracedFields DEF FailedReply, Empty
<1>5. Empty(TimeoutAnswer) /\ ~TimeoutAnswer.offline /\ TimeoutAnswer.status = "failed"
  BY DEF TimeoutAnswer, Answer, Empty
<1> QED BY <1>1, <1>2, <1>3, <1>4, <1>5

LEMMA FixtureSays ==
  ASSUME NEW s, NEW v, ~HostedSelected(s, v)
  PROVE  LET a == FixtureAnswer(s, v)
         IN /\ a.status = "completed" /\ a.source = "fixture" /\ a.by = "fake"
            /\ "fixture" \in a.warned
            /\ Permission(s) = "not_verified" => "permission" \in a.warned
            /\ s.kind = "hosted" => a.fellBack
<1>1. /\ FixtureAnswer(s, v).status = "completed"
      /\ FixtureAnswer(s, v).source = "fixture"
      /\ FixtureAnswer(s, v).by = "fake"
      /\ FixtureAnswer(s, v).warned = BuiltWith(s, v)
      /\ FixtureAnswer(s, v).fellBack = FellBack(s, v)
  BY TracedFields DEF FixtureAnswer
<1>2. "fixture" \in BuiltWith(s, v)
  BY DEF BuiltWith
<1>3. Permission(s) = "not_verified" => "permission" \in BuiltWith(s, v)
  BY DEF BuiltWith, PassedWith, Warnings
<1>4. s.kind = "hosted" => FellBack(s, v)
  BY DEF FellBack
<1> QED BY <1>1, <1>2, <1>3, <1>4

LEMMA ReplySays ==
  ASSUME NEW s, NEW v, NEW m, HostedSelected(s, v)
  PROVE  LET a == ReplyAnswer(s, v, m)
         IN /\ ~a.offline /\ a.by = "hosted"
            /\ a.status = "completed" =>
                 ((a.source = "fixture") <=> ("fixture" \in a.warned))
            /\ a.source # None => a.status = "completed"
<1>1. ~Offline(s, v)
  BY DEF Offline, HostedSelected
<1>2. CASE m.failed
  <2>1. /\ FailedReply(s, v, m).offline = Offline(s, v)
        /\ FailedReply(s, v, m).by = "hosted"
    BY TracedFields DEF FailedReply
  <2> QED BY <1>1, <1>2, <2>1, EmptyAnswers DEF ReplyAnswer, Empty
<1>3. CASE ~m.failed /\ ~m.shaped
  <2>1. /\ UnshapedReply(s, v).offline = Offline(s, v)
        /\ UnshapedReply(s, v).by = "hosted"
        /\ UnshapedReply(s, v).status = "completed"
        /\ UnshapedReply(s, v).source = "fixture"
        /\ UnshapedReply(s, v).warned = BuiltWith(s, v)
    BY TracedFields DEF UnshapedReply
  <2> QED BY <1>1, <1>3, <2>1, WarningTypes DEF ReplyAnswer
<1>4. CASE ~m.failed /\ m.shaped
  <2>1. "fixture" \notin PassedWith(s, v) \cup CutWarning(m)
    BY WarningTypes DEF CutWarning
  <2>2. CASE m.status = "failed"
    <3>1. /\ ShapedReply(s, v, m).offline = Offline(s, v)
          /\ ShapedReply(s, v, m).by = "hosted"
          /\ ShapedReply(s, v, m).status = "failed"
          /\ ShapedReply(s, v, m).source = None
      BY <2>2, TracedFields DEF ShapedReply
    <3> QED BY <1>1, <1>4, <3>1 DEF ReplyAnswer
  <2>3. CASE m.status # "failed"
    <3>1. /\ ShapedReply(s, v, m).offline = Offline(s, v)
          /\ ShapedReply(s, v, m).by = "hosted"
          /\ ShapedReply(s, v, m).status = "completed"
          /\ ShapedReply(s, v, m).source = "hosted"
          /\ ShapedReply(s, v, m).warned = PassedWith(s, v) \cup CutWarning(m)
      BY <2>3, TracedFields DEF ShapedReply
    <3> QED BY <1>1, <1>4, <2>1, <3>1 DEF ReplyAnswer
  <2> QED BY <2>2, <2>3
<1> QED BY <1>2, <1>3, <1>4

-----------------------------------------------------------------------------
(* Steps *)

LEMMA InitialInv == Init => DiscoveryInv
<1> SUFFICES ASSUME Init PROVE DiscoveryInv
  OBVIOUS
<1>1. MaxRuns \in Nat \ {0}
  BY MetadataAssumption
<1>2. asked \in Seq(ReasonCodes)
  BY DEF Init
<1>3. TypeOK
  BY <1>1, <1>2, MetadataAssumption DEF Init, TypeOK
<1>4. SessionsFollowRuns /\ SessionsWereLet
  BY <1>1 DEF Init, SessionsFollowRuns, SessionsWereLet
<1>5. OpenIsLate /\ ContentIsLabelled
  BY DEF Init, OpenIsLate, ContentIsLabelled
<1> QED BY <1>3, <1>4, <1>5 DEF DiscoveryInv

\* An answer that is given where no session was started.
LEMMA UncalledKeeps ==
  ASSUME DiscoveryInv, at = "asked", UNCHANGED <<given, asked, calls>>,
         NEW a \in Answers, Tell(a),
         a.source # None => a.status = "completed",
         a.status = "completed" =>
           /\ a.source = "fixture" /\ "fixture" \in a.warned /\ a.by = "fake"
           /\ Permission(settings) # "verified" => "permission" \in a.warned
           /\ settings.kind = "hosted" => a.fellBack
  PROVE  DiscoveryInv'
<1> USE DEF Tell, given
<1>1. calls[run] = "none"
  BY DEF DiscoveryInv, SessionsFollowRuns
<1>2. TypeOK'
  BY DEF DiscoveryInv, TypeOK
<1>3. SessionsFollowRuns' /\ SessionsWereLet'
  BY <1>1 DEF DiscoveryInv, SessionsFollowRuns, SessionsWereLet
<1>4. OpenIsLate'
  BY <1>1 DEF OpenIsLate
<1>5. ContentIsLabelled'
  BY <1>1 DEF ContentIsLabelled
<1> QED BY <1>2, <1>3, <1>4, <1>5 DEF DiscoveryInv

LEMMA DeclineKeeps == ASSUME DiscoveryInv, Decline PROVE DiscoveryInv'
<1>1. request \in Request
  BY DEF DiscoveryInv, TypeOK
<1>2. PlanAnswer(request) \in Answers /\ Empty(PlanAnswer(request))
  BY <1>1, PlanAnswerType, EmptyAnswers
<1> QED BY <1>2, UncalledKeeps DEF Decline, Empty

LEMMA BlockKeeps == ASSUME DiscoveryInv, Block PROVE DiscoveryInv'
<1>1. settings \in Setting /\ service \in Service
  BY DEF DiscoveryInv, TypeOK
<1>2. BlockedAnswer(settings, service) \in Answers
      /\ Empty(BlockedAnswer(settings, service))
  BY <1>1, RunAnswerTypes, EmptyAnswers
<1> QED BY <1>2, UncalledKeeps DEF Block, Executing, Empty

LEMMA RefuseCallKeeps == ASSUME DiscoveryInv, RefuseCall PROVE DiscoveryInv'
<1>1. settings \in Setting /\ service \in Service
  BY DEF DiscoveryInv, TypeOK
<1>2. RefusedAnswer(settings, service) \in Answers
      /\ Empty(RefusedAnswer(settings, service))
  BY <1>1, RunAnswerTypes, EmptyAnswers
<1> QED BY <1>2, UncalledKeeps DEF RefuseCall, Executing, Empty

LEMMA DescribeFixtureKeeps ==
  ASSUME DiscoveryInv, DescribeFixture PROVE DiscoveryInv'
<1>1. settings \in Setting /\ service \in Service
  BY DEF DiscoveryInv, TypeOK
<1>2. ~HostedSelected(settings, service) /\ CanExecute(settings, service)
  BY DEF DescribeFixture
<1>3. FixtureAnswer(settings, service) \in Answers
  BY <1>1, RunAnswerTypes
<1>4. Permission(settings) # "verified" => Permission(settings) = "not_verified"
  BY <1>1, <1>2, GatesAgree
<1> QED BY <1>2, <1>3, <1>4, FixtureSays, UncalledKeeps DEF DescribeFixture, Executing

LEMMA ClarifyKeeps == ASSUME DiscoveryInv, Clarify PROVE DiscoveryInv'
<1> USE DEF Clarify, given
<1>1. request \in Request
  BY DEF DiscoveryInv, TypeOK
<1>2. PlanAnswer(request) \in Answers /\ ReasonCode(request) \in ReasonCodes
  BY <1>1, PlanAnswerType, ReasonType
<1>3. asked' \in Seq(ReasonCodes)
  BY <1>2 DEF DiscoveryInv, TypeOK
<1>4. TypeOK'
  BY <1>2, <1>3 DEF DiscoveryInv, TypeOK
<1>5. SessionsFollowRuns' /\ SessionsWereLet'
  BY DEF DiscoveryInv, SessionsFollowRuns, SessionsWereLet
<1>6. OpenIsLate' /\ ContentIsLabelled'
  BY DEF OpenIsLate, ContentIsLabelled
<1> QED BY <1>4, <1>5, <1>6 DEF DiscoveryInv

LEMMA StartCallKeeps == ASSUME DiscoveryInv, StartCall PROVE DiscoveryInv'
<1> USE DEF StartCall, Executing, given
<1>1. run \in 1..MaxRuns /\ calls \in [1..MaxRuns -> {"none", "open", "closed"}]
  BY DEF DiscoveryInv, TypeOK
<1>2. TypeOK'
  BY DEF DiscoveryInv, TypeOK
<1>3. SessionsFollowRuns'
  BY <1>1 DEF DiscoveryInv, SessionsFollowRuns
<1>4. SessionsWereLet'
  BY DEF SessionsWereLet
<1>5. OpenIsLate' /\ ContentIsLabelled'
  BY DEF OpenIsLate, ContentIsLabelled
<1> QED BY <1>2, <1>3, <1>4, <1>5 DEF DiscoveryInv

LEMMA ExpireKeeps == ASSUME DiscoveryInv, Expire PROVE DiscoveryInv'
<1> USE DEF Expire, Tell, given
<1>1. settings \in Setting /\ service \in Service
  BY DEF DiscoveryInv, TypeOK
<1>2. /\ TimeoutAnswer \in Answers /\ Empty(TimeoutAnswer)
      /\ ~TimeoutAnswer.offline /\ TimeoutAnswer.status = "failed"
  <2>1. TimeoutAnswer \in Answers
    BY DEF TimeoutAnswer, Answer, Answers
  <2> QED BY <2>1, EmptyAnswers
<1>3. TypeOK'
  BY <1>2 DEF DiscoveryInv, TypeOK
<1>4. SessionsFollowRuns' /\ SessionsWereLet'
  BY DEF DiscoveryInv, SessionsFollowRuns, SessionsWereLet
<1>5. OpenIsLate' /\ ContentIsLabelled'
  BY <1>2 DEF OpenIsLate, ContentIsLabelled, Empty
<1> QED BY <1>3, <1>4, <1>5 DEF DiscoveryInv

LEMMA ReceiveKeeps ==
  ASSUME DiscoveryInv, NEW m \in Replies, Receive(m) PROVE DiscoveryInv'
<1> USE DEF Receive, Tell, given
<1>1. /\ settings \in Setting /\ service \in Service /\ m \in Reply
      /\ run \in 1..MaxRuns /\ calls \in [1..MaxRuns -> {"none", "open", "closed"}]
  BY MetadataAssumption DEF DiscoveryInv, TypeOK
<1>2. HostedSelected(settings, service) /\ CanExecute(settings, service)
  BY DEF DiscoveryInv, SessionsFollowRuns, SessionsWereLet
<1>3. ReplyAnswer(settings, service, m) \in Answers
  BY <1>1, RunAnswerTypes
<1>4. calls'[run] = "closed"
  BY <1>1
<1>5. TypeOK'
  BY <1>3 DEF DiscoveryInv, TypeOK
<1>6. SessionsFollowRuns'
  BY <1>1 DEF DiscoveryInv, SessionsFollowRuns
<1>7. SessionsWereLet'
  BY DEF DiscoveryInv, SessionsFollowRuns, SessionsWereLet
<1>8. OpenIsLate'
  BY <1>3, <1>4 DEF OpenIsLate
<1>9. ContentIsLabelled'
  <2>1. Permission(settings) = "verified"
    BY <1>1, <1>2, GatesAgree
  <2> QED BY <1>2, <1>4, <2>1, ReplySays DEF ContentIsLabelled
<1> QED BY <1>5, <1>6, <1>7, <1>8, <1>9 DEF DiscoveryInv

\* A session that ends late is one whose answer was given up.
LEMMA EndLateKeeps ==
  ASSUME DiscoveryInv, NEW i \in 1..MaxRuns, EndLate(i) PROVE DiscoveryInv'
<1> USE DEF EndLate, given
<1>1. /\ run \in 1..MaxRuns /\ calls \in [1..MaxRuns -> {"none", "open", "closed"}]
      /\ \A j \in 1..MaxRuns : calls'[j] = IF j = i THEN "closed" ELSE calls[j]
  BY DEF DiscoveryInv, TypeOK
<1>2. TypeOK'
  BY DEF DiscoveryInv, TypeOK
<1>3. SessionsFollowRuns'
  BY <1>1 DEF DiscoveryInv, SessionsFollowRuns
<1>4. SessionsWereLet'
  BY <1>1 DEF DiscoveryInv, SessionsWereLet
<1>5. OpenIsLate'
  BY <1>1 DEF DiscoveryInv, OpenIsLate
<1>6. ContentIsLabelled'
  BY <1>1 DEF DiscoveryInv, ContentIsLabelled, OpenIsLate
<1> QED BY <1>2, <1>3, <1>4, <1>5, <1>6 DEF DiscoveryInv

\* The next run begins without a session.
LEMMA AskAgainKeeps ==
  ASSUME DiscoveryInv, NEW r \in Request, NEW s \in Setting, AskAgain(r, s),
         asked' \in Seq(ReasonCodes)
  PROVE  DiscoveryInv'
<1> USE DEF AskAgain
<1>1. run \in 1..MaxRuns /\ MaxRuns \in Nat
  BY MetadataAssumption DEF DiscoveryInv, TypeOK
<1>2. run' \in 1..MaxRuns
  BY <1>1
<1>3. TypeOK'
  BY <1>2 DEF DiscoveryInv, TypeOK
<1>4. calls[run'] = "none"
  BY <1>1, <1>2 DEF DiscoveryInv, SessionsFollowRuns
<1>5. SessionsFollowRuns' /\ SessionsWereLet'
  BY <1>1, <1>4 DEF DiscoveryInv, SessionsFollowRuns, SessionsWereLet
<1>6. OpenIsLate' /\ ContentIsLabelled'
  BY DEF OpenIsLate, ContentIsLabelled
<1> QED BY <1>3, <1>5, <1>6 DEF DiscoveryInv

LEMMA CallerKeeps == ASSUME DiscoveryInv, Caller PROVE DiscoveryInv'
<1>1. request \in Request /\ settings \in Setting /\ asked \in Seq(ReasonCodes)
  BY DEF DiscoveryInv, TypeOK
<1>2. CASE \E o \in Options(request) : Choose(o)
  BY <1>1, <1>2, ResumedType, AskAgainKeeps DEF Choose
<1>3. CASE \E t \in AllowedTargetTypes(request) : Resume(t)
  BY <1>1, <1>3, ResumedType, AskAgainKeeps DEF Resume
<1>4. CASE \E r \in Requests : Restate(r)
  <2>1. PICK r \in Requests : Restate(r)
    BY <1>4
  <2>2. r \in Request /\ AskAgain(r, settings) /\ asked' \in Seq(ReasonCodes)
    BY <2>1, MetadataAssumption DEF Restate
  <2> QED BY <1>1, <2>2, AskAgainKeeps
<1>5. CASE \E s \in Settings : Retry(s)
  BY <1>1, <1>5, MetadataAssumption, AskAgainKeeps DEF Retry
<1> QED BY <1>2, <1>3, <1>4, <1>5 DEF Caller

LEMMA NextKeeps == DiscoveryInv /\ [Next]_vars => DiscoveryInv'
<1> SUFFICES ASSUME DiscoveryInv, [Next]_vars PROVE DiscoveryInv'
  OBVIOUS
<1>1. CASE Handle
  BY <1>1, DeclineKeeps, ClarifyKeeps, BlockKeeps, DescribeFixtureKeeps,
     RefuseCallKeeps, StartCallKeeps, ExpireKeeps DEF Handle
<1>2. CASE Caller
  BY <1>2, CallerKeeps
<1>3. CASE Server
  BY <1>3, ReceiveKeeps, EndLateKeeps DEF Server
<1>4. CASE UNCHANGED vars
  BY <1>4 DEF vars, DiscoveryInv, TypeOK, SessionsFollowRuns, SessionsWereLet,
              OpenIsLate, ContentIsLabelled
<1> QED BY <1>1, <1>2, <1>3, <1>4 DEF Next

LEMMA DiscoveryInvariant == Spec => []DiscoveryInv
BY InitialInv, NextKeeps, PTL DEF Spec

-----------------------------------------------------------------------------
(* Following the options *)

Unresolvable == "target_not_resolvable_from_context"

\* The request names a datasource and its identifier, and wants no data.
Settled(r) == r.target = "datasource" /\ r.identifier /\ ~AsksForData(r)

\* The second thing a caller is asked for is a target that can be served.
AskedInOrder ==
  \/ Len(asked) = 1
  \/ Len(asked) = 2 /\ asked[1] # Unresolvable /\ asked[2] = Unresolvable

\* A caller who chose an option has a request that is settled, or will be asked
\* once more for a target that can be served.
Leading ==
  manner = "options" /\ IsPlain(request) =>
    /\ at = "clarifying" =>
         /\ AskedInOrder
         /\ PlanState(request) = "clarification_required"
         /\ ReasonCode(request) = asked[Len(asked)]
    /\ at # "clarifying" =>
         \/ asked = <<>>
         \/ /\ Len(asked) = 1 /\ asked[1] # Unresolvable
            /\ request.target \in {"workbook", "view"}
         \/ AskedInOrder /\ Settled(request)

\* One target that the caller named is its only candidate.
LEMMA NamedTarget ==
  ASSUME NEW r \in Request, IsPlain(r), r.target \in Targets
  PROVE  /\ TargetOf(r) = r.target /\ CandidatesOf(r) = {r.target}
         /\ ~IsAmbiguous(r) /\ IsDiscovery(r)
<1>1. r.target # None /\ r.target # "unknown"
  BY NoneIsApart DEF Targets
<1>2. TargetOf(r) = r.target
  BY <1>1 DEF TargetOf
<1>3. CandidatesOf(r) = {r.target}
  BY <1>1, <1>2 DEF CandidatesOf, IsPlain
<1>4. Cardinality(CandidatesOf(r)) = 1
  BY <1>3, FS_Singleton
<1>5. ~(Cardinality(CandidatesOf(r)) > 1)
  BY <1>4
<1>6. ~IsAmbiguous(r)
  BY <1>5 DEF IsAmbiguous, IsPlain
<1>7. IsDiscovery(r)
  BY <1>3 DEF IsDiscovery
<1> QED BY <1>2, <1>3, <1>6, <1>7

LEMMA SettledIsReady ==
  ASSUME NEW r \in Request, IsPlain(r), Settled(r)
  PROVE  PlanState(r) = "executable"
<1>1. r.target \in Targets
  BY DEF Settled, Targets
<1>2. ~IsUnserved(r)
  BY <1>1, NamedTarget DEF Settled, IsUnserved
<1>3. ~IsUnclear(r)
  BY <1>1, NamedTarget DEF Settled, IsUnclear
<1>4. ~IsUnready(r)
  BY <1>1, NamedTarget DEF Settled, IsUnready
<1>5. Classified(r) = "ready"
  BY <1>2, <1>3, <1>4, Zenon DEF Classified
<1> QED BY <1>5, Zenon DEF PlanState

\* The first rule excludes the others.
LEMMA UnservedIsNamed ==
  ASSUME NEW r, IsUnserved(r)
  PROVE  Classified(r) = IF AsksForData(r) THEN "unsupported" ELSE "fallback"
<1>1. ~IsUnclear(r) /\ ~IsUnready(r)
  BY DEF IsUnclear, IsUnready
<1> QED BY <1>1, Zenon DEF Classified

LEMMA OtherIsUnresolvable ==
  ASSUME NEW r \in Request, IsPlain(r), r.target \in {"workbook", "view"},
         PlanState(r) = "clarification_required"
  PROVE  ReasonCode(r) = Unresolvable
<1>1. r.target \in Targets
  BY DEF Targets
<1>2. TargetOf(r) # "datasource" /\ TargetOf(r) # "unknown" /\ ~IsAmbiguous(r)
  BY <1>1, NamedTarget
<1>3. ~IsUnclear(r)
  BY <1>2 DEF IsUnclear
<1>4. ~IsUnserved(r)
  <2>1. SUFFICES ASSUME IsUnserved(r) PROVE FALSE
    OBVIOUS
  <2>2. Classified(r) \in {"unsupported", "fallback"}
    BY <2>1, UnservedIsNamed
  <2>3. Classified(r) # "ready"
    BY <2>2
  <2>4. PlanState(r) = Classified(r)
    BY <2>2, <2>3 DEF PlanState
  <2> QED BY <2>2, <2>4
<1>5. IsUnready(r)
  BY <1>2, <1>3, <1>4 DEF IsUnready
<1>6. Classified(r) = "target_not_supported"
  BY <1>2, <1>3, <1>4, <1>5 DEF Classified
<1> QED BY <1>6 DEF ReasonCode, Unresolvable

LEMMA OptionsSettle ==
  ASSUME NEW r \in Request, PlanState(r) = "clarification_required",
         NEW o \in Options(r)
  PROVE  /\ ~AsksForData(r)
         /\ o.target = "datasource" => "identifier" \in o.fields
         /\ ReasonCode(r) = Unresolvable => o.target = "datasource"
<1>1. ~AsksForData(r)
  <2>1. SUFFICES ASSUME AsksForData(r) PROVE FALSE
    OBVIOUS
  <2>2. IsUnserved(r)
    BY <2>1 DEF IsUnserved
  <2>3. Classified(r) = "unsupported"
    BY <2>1, <2>2, UnservedIsNamed
  <2>4. PlanState(r) = "unsupported"
    BY <2>3 DEF PlanState
  <2> QED BY <2>4
<1>2. \E t : o = Choice(t)
  BY DEF Options
<1>3. o.target = "datasource" => "identifier" \in o.fields
  BY <1>2 DEF Choice
<1>4. ReasonCode(r) = Unresolvable => o = Choice("datasource")
  BY DEF Options, Unresolvable
<1>5. ReasonCode(r) = Unresolvable => o.target = "datasource"
  BY <1>4 DEF Choice
<1> QED BY <1>1, <1>3, <1>5

LEMMA ResumedSays ==
  ASSUME NEW r \in Request, NEW t, NEW fields
  PROVE  /\ Resumed(r, t, fields).target = t
         /\ "identifier" \in fields => Resumed(r, t, fields).identifier
         /\ Resumed(r, t, fields).signals = r.signals
         /\ IsPlain(Resumed(r, t, fields)) = IsPlain(r)
BY DEF Resumed, Request, IsPlain

\* Whoever is asked to clarify has a plain request that was not settled.
LEMMA ClarifyLeads ==
  ASSUME TypeOK, Leading, Clarify PROVE Leading'
<1> SUFFICES ASSUME manner = "options", IsPlain(request)
             PROVE  Leading'
  BY DEF Leading, Clarify, given
<1> DEFINE code == ReasonCode(request)
<1>1. /\ request \in Request /\ asked \in Seq(ReasonCodes)
      /\ PlanState(request) = "clarification_required"
      /\ at = "asked" /\ at' = "clarifying" /\ request' = request /\ manner' = manner
      /\ asked' = Append(asked, code)
  BY DEF TypeOK, Clarify, given
<1>2. ~Settled(request)
  BY <1>1, SettledIsReady
<1>3. \/ asked = <<>>
      \/ /\ Len(asked) = 1 /\ asked[1] # Unresolvable
         /\ request.target \in {"workbook", "view"}
  BY <1>1, <1>2 DEF Leading
<1>4. code \in ReasonCodes
  BY <1>1, ReasonType
<1>5. /\ Len(asked') = Len(asked) + 1 /\ asked'[Len(asked')] = code
      /\ Len(asked) = 1 => asked'[1] = asked[1]
  BY <1>1, <1>4
<1>6. AskedInOrder'
  <2>1. CASE asked = <<>>
    BY <1>5, <2>1 DEF AskedInOrder
  <2>2. CASE Len(asked) = 1 /\ asked[1] # Unresolvable
             /\ request.target \in {"workbook", "view"}
    <3>1. code = Unresolvable
      BY <1>1, <2>2, OtherIsUnresolvable
    <3> QED BY <1>5, <2>2, <3>1 DEF AskedInOrder
  <2> QED BY <1>3, <2>1, <2>2
<1>7. (PlanState(request) = "clarification_required")'
      /\ (ReasonCode(request))' = asked'[Len(asked')]
  BY <1>1, <1>5 DEF code
<1> QED BY <1>1, <1>6, <1>7 DEF Leading

\* An option of a target that cannot be served leads to one that can.
LEMMA ChooseLeads ==
  ASSUME TypeOK, Leading, NEW o \in Options(request), Choose(o) PROVE Leading'
<1>1. /\ request \in Request /\ at = "clarifying" /\ at' = "asked"
      /\ request' = Resumed(request, o.target, o.fields)
      /\ manner = "options" /\ manner' = manner /\ asked' = asked
      /\ asked \in Seq(ReasonCodes)
  BY DEF TypeOK, Choose, AskAgain
<1>2. /\ request'.target = o.target
      /\ "identifier" \in o.fields => request'.identifier
      /\ request'.signals = request.signals
      /\ IsPlain(request') = IsPlain(request)
  BY <1>1, ResumedSays
<1> SUFFICES ASSUME IsPlain(request) PROVE Leading'
  BY <1>1, <1>2 DEF Leading
<1>3. /\ AskedInOrder
      /\ PlanState(request) = "clarification_required"
      /\ ReasonCode(request) = asked[Len(asked)]
  BY <1>1 DEF Leading
<1>4. /\ ~AsksForData(request) /\ o.target \in Targets
      /\ o.target = "datasource" => "identifier" \in o.fields
      /\ ReasonCode(request) = Unresolvable => o.target = "datasource"
  BY <1>1, <1>3, OptionsSettle, ResumedType
<1>5. CASE o.target = "datasource"
  <2>1. Settled(request')
    BY <1>2, <1>4, <1>5 DEF Settled, AsksForData
  <2>2. AskedInOrder'
    BY <1>1, <1>3 DEF AskedInOrder
  <2> QED BY <1>1, <2>1, <2>2 DEF Leading
<1>6. CASE o.target # "datasource"
  <2>1. Len(asked) = 1 /\ asked[1] # Unresolvable
    BY <1>3, <1>4, <1>6 DEF AskedInOrder
  <2>2. request'.target \in {"workbook", "view"}
    BY <1>2, <1>4, <1>6 DEF Targets
  <2> QED BY <1>1, <2>1, <2>2 DEF Leading
<1> QED BY <1>5, <1>6

\* Where neither the request nor what was asked changes.
LEMMA LeadingStays ==
  ASSUME Leading, UNCHANGED <<manner, request, asked>>,
         at # "clarifying", at' # "clarifying"
  PROVE  Leading'
BY DEF Leading, AskedInOrder

LEMMA NextLeads == TypeOK /\ Leading /\ [Next]_vars => Leading'
<1> SUFFICES ASSUME TypeOK, Leading, [Next]_vars PROVE Leading'
  OBVIOUS
<1>1. CASE Handle
  <2>1. CASE Clarify
    BY <2>1, ClarifyLeads
  <2>2. CASE Decline \/ Block \/ DescribeFixture \/ RefuseCall \/ StartCall \/ Expire
    BY <2>2, LeadingStays DEF Decline, Block, DescribeFixture, RefuseCall, StartCall,
                              Expire, Executing, Tell, given
  <2> QED BY <1>1, <2>1, <2>2 DEF Handle
<1>2. CASE \E o \in Options(request) : Choose(o)
  BY <1>2, ChooseLeads
<1>3. CASE \E t \in AllowedTargetTypes(request) : Resume(t)
  BY <1>3 DEF Resume, AskAgain, Leading
<1>4. CASE \E r \in Requests : Restate(r)
  BY <1>4 DEF Restate, AskAgain, Leading
<1>5. CASE \E s \in Settings : Retry(s)
  BY <1>5, LeadingStays DEF Retry, AskAgain
<1>6. CASE Server
  <2>1. CASE \E m \in Replies : Receive(m)
    BY <2>1, LeadingStays DEF Receive, Tell, given
  <2>2. CASE \E i \in 1..MaxRuns : EndLate(i)
    BY <2>2 DEF EndLate, given, Leading, AskedInOrder
  <2> QED BY <1>6, <2>1, <2>2 DEF Server
<1>7. CASE UNCHANGED vars
  BY <1>7 DEF vars, Leading, AskedInOrder
<1> QED BY <1>1, <1>2, <1>3, <1>4, <1>5, <1>6, <1>7 DEF Next, Caller

LEMMA LeadingOrders ==
  ASSUME TypeOK, Leading PROVE OptionsLead
<1> SUFFICES ASSUME manner = "options", IsPlain(request)
             PROVE  /\ Len(asked) <= 2
                    /\ \A i, j \in DOMAIN asked : asked[i] = asked[j] => i = j
  BY DEF OptionsLead
<1>1. asked \in Seq(ReasonCodes) /\ DOMAIN asked = 1..Len(asked)
  BY DEF TypeOK
<1>2. asked = <<>> \/ Len(asked) = 1 \/ AskedInOrder
  BY DEF Leading
<1>3. CASE asked = <<>>
  BY <1>1, <1>3
<1>4. CASE Len(asked) = 1
  BY <1>1, <1>4
<1>5. CASE Len(asked) = 2 /\ asked[1] # Unresolvable /\ asked[2] = Unresolvable
  BY <1>1, <1>5
<1> QED BY <1>2, <1>3, <1>4, <1>5 DEF AskedInOrder

-----------------------------------------------------------------------------
(* Theorems *)

\* The state of a dialogue about metadata is always well formed, however the
\* caller goes on and whatever the server replies.
THEOREM TypeCorrect == Spec => []TypeOK
<1>1. DiscoveryInv => TypeOK
  BY DEF DiscoveryInv
<1> QED BY <1>1, DiscoveryInvariant, PTL

\* A session with the hosted server exists only where the backend, the caller
\* and the gates all agreed to it, in whichever order the caller restated,
\* resumed or retried (buildTransportSelection and
\* the gates before executeTableauMetadataToolViaTransport).
THEOREM HostedCallsAgreed == Spec => []HostedOnlyWhenAgreed
<1>1. DiscoveryInv => HostedOnlyWhenAgreed
  BY AgreedFromInv DEF DiscoveryInv
<1> QED BY <1>1, DiscoveryInvariant, PTL

\* The content of an answer is told for what it is, also when a session ends
\* after its answer was given up (the normalization of the runtime's result).
THEOREM ContentIsTold == Spec => []ContentIsLabelled
<1>1. DiscoveryInv => ContentIsLabelled
  BY DEF DiscoveryInv
<1> QED BY <1>1, DiscoveryInvariant, PTL

\* Whoever follows the options of a plain request is asked at most twice and
\* never the same thing again, for any requests and settings (buildClarificationOptions
\* and the classification of the request that comes back).
THEOREM OptionsAlwaysLead == Spec => []OptionsLead
<1>1. Init => Leading
  BY DEF Init, Leading
<1>2. TypeOK /\ Leading /\ [Next]_vars => Leading'
  BY NextLeads
<1>3. TypeOK /\ Leading => OptionsLead
  BY LeadingOrders
<1> QED BY <1>1, <1>2, <1>3, TypeCorrect, PTL DEF Spec

=============================================================================
