--------------------------- MODULE MetadataDiscovery ---------------------------
(***************************************************************************)
(* A request for metadata: it is classified by rule, and refused, clarified *)
(* or executed.  A request that may be executed passes a list of gates, and *)
(* is described from a fixture, or by a hosted Tableau MCP server when all  *)
(* that must agree to a call over the network does.  The caller of a        *)
(* clarification asks again with the fields it was asked for, as one of the *)
(* options offered says, or as the contract to resume says.                 *)
(*                                                                         *)
(* Messages are what the rules find in them; an answer is where it comes    *)
(* from, its warnings and its error code.                                   *)
(***************************************************************************)
EXTENDS Naturals, Sequences, FiniteSets

CONSTANTS
  Requests,  \* the requests a caller may start with
  Settings,  \* the settings a caller may send with a request
  Services,  \* how the backend may be configured
  Replies,   \* what the hosted server may reply
  MaxRuns,   \* bound on the runs of one dialogue
  None

Targets == {"datasource", "workbook", "view"}
Signals == {"keyword", "write", "query", "raw", "unsafe", "either"}
Warnings == {"fixture", "fake_transport", "site", "permission", "truncated"}

Request ==
  [signals : SUBSET Signals, mentions : SUBSET Targets,
   target : Targets \cup {"unknown", None}, candidates : SUBSET Targets,
   several : BOOLEAN, identifier : BOOLEAN]

Setting ==
  [kind : {"fake", "hosted", "remote", "stdio", "unknown"},
   enabled : BOOLEAN, noNetwork : BOOLEAN,
   site : {None, "enabled", "disabled", "unknown", "not_required_for_fake"},
   permission : {None, "verified", "not_verified", "denied", "insufficient_scope"},
   resolution : {"resolved", "missing", "ambiguous", "not_checked"},
   context : {"resolved", "missing", "ambiguous"},
   transport : {"selected", "disabled", "not_configured"},
   auth : {"none", "user", "token"},
   policy : {"allows", "not_listed", "no_external_access"},
   time : {"enough", "short", "none"}]

Service == [enabled : BOOLEAN, client : BOOLEAN, subject : BOOLEAN]

HostedErrors == {"INVALID_INPUT", "PERMISSION_DENIED", "NETWORK_ERROR", "UNKNOWN_ERROR"}

\* failed: an error result, or none at all; shaped: a describeDatasource output.
Reply == [failed : BOOLEAN, shaped : BOOLEAN, cut : BOOLEAN,
          status : {"success", "partial", "failed"}, code : HostedErrors \cup {None}]

ASSUME MetadataAssumption ==
  /\ Requests \subseteq Request /\ Requests # {}
  /\ Settings \subseteq Setting
  /\ Services \subseteq Service
  /\ Replies \subseteq Reply
  /\ MaxRuns \in Nat \ {0}
  /\ None \notin Targets \cup Warnings \cup HostedErrors
  /\ None \notin {"unknown", "fake", "hosted", "fixture", "enabled", "disabled",
                  "not_required_for_fake", "verified", "not_verified", "denied",
                  "insufficient_scope"}

-----------------------------------------------------------------------------
(* What a request is for *)

TheMention(r) == IF Cardinality(r.mentions) = 1
                 THEN CHOOSE t \in Targets : t \in r.mentions
                 ELSE "unknown"

\* Mutant: what the message mentions comes before what the caller says.
MentionedFirst(r) ==
  IF TheMention(r) # "unknown" \/ r.target = None THEN TheMention(r) ELSE r.target

TargetOf(r) == IF r.target # None THEN r.target ELSE TheMention(r)

CandidatesOf(r) ==
  IF r.candidates # {} THEN r.candidates
  ELSE IF TargetOf(r) = "unknown" THEN r.mentions
  ELSE {TargetOf(r)}

IsDiscovery(r) == "keyword" \in r.signals \/ r.mentions # {} \/ CandidatesOf(r) # {}

\* The request reads or writes data, or asks for the tools themselves.
AsksForData(r) == r.signals \cap {"write", "query", "raw", "unsafe"} # {}

IsAmbiguous(r) ==
  Cardinality(CandidatesOf(r)) > 1 \/ r.several \/ "either" \in r.signals

\* The first rule that applies decides.
IsUnserved(r) == AsksForData(r) \/ (~IsDiscovery(r) /\ TargetOf(r) = "unknown")
IsUnclear(r) == ~IsUnserved(r) /\ (IsAmbiguous(r) \/ TargetOf(r) = "unknown")
IsUnready(r) ==
  ~IsUnserved(r) /\ ~IsUnclear(r) /\ (TargetOf(r) # "datasource" \/ ~r.identifier)

Classified(r) ==
  CASE IsUnserved(r) -> IF AsksForData(r) THEN "unsupported" ELSE "fallback"
    [] IsUnclear(r) -> IF IsAmbiguous(r) THEN "ambiguous_target" ELSE "unknown_target"
    [] IsUnready(r) -> IF TargetOf(r) # "datasource" THEN "target_not_supported"
                                                     ELSE "missing_identifier"
    [] OTHER -> "ready"

Preconditions == {"target_type_known", "single_target_candidate",
                  "datasource_identifier_present", "datasource_boundary_supported"}

Satisfied(r) ==
  {p \in Preconditions :
     \/ p = "target_type_known" /\ TargetOf(r) # "unknown"
     \/ p = "single_target_candidate" /\ Cardinality(CandidatesOf(r)) = 1
     \/ p = "datasource_identifier_present" /\ TargetOf(r) = "datasource" /\ r.identifier
     \/ p = "datasource_boundary_supported" /\ Classified(r) = "ready"}

PlanState(r) ==
  CASE Classified(r) = "ready" -> "executable"
    [] Classified(r) \in {"unsupported", "fallback"} -> Classified(r)
    [] OTHER -> "clarification_required"

\* The plan has a tool to execute.
HasCandidate(r) ==
  PlanState(r) = "executable" /\ TargetOf(r) = "datasource" /\ r.identifier

-----------------------------------------------------------------------------
(* The clarification a request is answered with *)

ReasonCodes ==
  {"missing_target", "multiple_target_candidates", "ambiguous_target_type",
   "missing_identifier", "target_not_resolvable_from_context",
   "unsupported_write_request", "metadata_query_boundary_conflict",
   "unsupported_discovery_request", "unsafe_data_access_request"}
PlanReasons == ReasonCodes \cup {"legacy_fallback", "safe_executable_datasource_candidate"}

ReasonCode(r) ==
  CASE Classified(r) = "ambiguous_target" ->
         IF Cardinality(CandidatesOf(r)) > 1
         THEN "multiple_target_candidates" ELSE "ambiguous_target_type"
    [] Classified(r) = "missing_identifier" -> "missing_identifier"
    [] Classified(r) = "target_not_supported" -> "target_not_resolvable_from_context"
    [] Classified(r) = "unsupported" ->
         IF "write" \in r.signals THEN "unsupported_write_request"
         ELSE IF "query" \in r.signals THEN "metadata_query_boundary_conflict"
         ELSE IF "raw" \in r.signals THEN "unsupported_discovery_request"
         ELSE "unsafe_data_access_request"
    [] OTHER -> "missing_target"

PlanReason(r) ==
  CASE Classified(r) = "ready" -> "safe_executable_datasource_candidate"
    [] Classified(r) = "fallback" -> "legacy_fallback"
    [] OTHER -> ReasonCode(r)

\* The fields the contract to resume asks for, and the targets it allows.
RequiredFields(r) ==
  IF ReasonCode(r) \in {"missing_identifier", "target_not_resolvable_from_context"}
  THEN {"targetType", "identifier"} ELSE {"targetType"}

AllowedTargetTypes(r) ==
  IF CandidatesOf(r) # {} THEN CandidatesOf(r)
  ELSE IF TargetOf(r) # "unknown" THEN {TargetOf(r)}
  ELSE Targets

Choice(t) == [target |-> t, fields |-> IF t = "datasource"
                                       THEN {"targetType", "identifier"}
                                       ELSE {"targetType"}]

\* The options that name a target.
Options(r) ==
  CASE ReasonCode(r) = "missing_target" -> {Choice(t) : t \in Targets}
    [] ReasonCode(r) \in {"ambiguous_target_type", "multiple_target_candidates"} ->
         {Choice(t) : t \in CandidatesOf(r)}
    [] OTHER -> {Choice("datasource")}

\* The options that ask for other words.
MayRestate(r) ==
  Classified(r) = "unsupported" \/ ReasonCode(r) = "target_not_resolvable_from_context"

\* The request again, with the fields that were asked for.
Resumed(r, t, fields) ==
  [r EXCEPT !.target = t, !.identifier = @ \/ "identifier" \in fields]

-----------------------------------------------------------------------------
(* Who is to answer, and what must hold first *)

\* Mutant: no network is a wish of the caller for the fixture only.
SelectedAnyway(s, v) == s.enabled /\ s.kind = "hosted" /\ v.enabled

HostedSelected(s, v) == s.enabled /\ s.kind = "hosted" /\ ~s.noNetwork /\ v.enabled

FellBack(s, v) == s.kind = "hosted" /\ ~HostedSelected(s, v)

Site(s) == IF s.site # None THEN s.site
           ELSE IF s.enabled THEN "enabled" ELSE "not_required_for_fake"

Permission(s) == IF s.permission # None THEN s.permission ELSE "verified"

PolicyFailures(s) ==
  {c \in {"TOOL_NOT_ALLOWED", "EXTERNAL_ACCESS_NOT_ALLOWED", "AUTH_REQUIRED"} :
     \/ c = "TOOL_NOT_ALLOWED" /\ s.policy = "not_listed"
     \/ c = "EXTERNAL_ACCESS_NOT_ALLOWED" /\ s.policy = "no_external_access"
     \/ c = "AUTH_REQUIRED" /\ s.auth = "none"}

SiteFailures(s, v) ==
  {c \in {"SITE_SETTINGS_DISABLED", "SITE_SETTINGS_UNKNOWN"} :
     \/ c = "SITE_SETTINGS_DISABLED" /\ Site(s) = "disabled"
     \/ c = "SITE_SETTINGS_UNKNOWN" /\ Site(s) = "unknown" /\ HostedSelected(s, v)}

TransportFailures(s, v) ==
  {c \in {"TRANSPORT_NOT_CONFIGURED"} :
     \/ s.transport = "disabled"
     \/ s.transport = "not_configured" /\ HostedSelected(s, v)}

ResolutionFailures(status, missing, ambiguous) ==
  {c \in {missing, ambiguous, "UNKNOWN_PRECONDITION_FAILURE"} :
     \/ c = missing /\ status = "missing"
     \/ c = ambiguous /\ status = "ambiguous"
     \/ c = "UNKNOWN_PRECONDITION_FAILURE" /\ status = "not_checked"}

IdentifierFailures(s) ==
  ResolutionFailures(s.resolution,
                     "DATASOURCE_IDENTIFIER_MISSING", "DATASOURCE_IDENTIFIER_AMBIGUOUS")
  \cup ResolutionFailures(s.context,
                          "TABLEAU_CONTEXT_MISSING", "WORKBOOK_IDENTIFIER_AMBIGUOUS")

PermissionFailures(s, v) ==
  {c \in {"PERMISSION_DENIED", "INSUFFICIENT_SCOPE", "PERMISSION_NOT_VERIFIED"} :
     \/ c = "PERMISSION_DENIED" /\ Permission(s) = "denied"
     \/ c = "INSUFFICIENT_SCOPE" /\ Permission(s) = "insufficient_scope"
     \/ c = "PERMISSION_NOT_VERIFIED" /\ Permission(s) = "not_verified"
          /\ HostedSelected(s, v)}

BudgetFailures(s) ==
  {c \in {"TIMEOUT_TOO_LOW", "BUDGET_EXHAUSTED"} :
     \/ c = "TIMEOUT_TOO_LOW" /\ s.time = "none"
     \/ c = "BUDGET_EXHAUSTED" /\ s.time = "short"}

Failures(s, v) ==
  PolicyFailures(s) \cup SiteFailures(s, v) \cup TransportFailures(s, v)
    \cup IdentifierFailures(s) \cup PermissionFailures(s, v) \cup BudgetFailures(s)

CanExecute(s, v) == Failures(s, v) = {}

\* The order the gates are looked at in: the first one that is shut is told.
GateOrder ==
  <<"TOOL_NOT_ALLOWED", "EXTERNAL_ACCESS_NOT_ALLOWED", "AUTH_REQUIRED",
    "SITE_SETTINGS_DISABLED", "SITE_SETTINGS_UNKNOWN", "TRANSPORT_NOT_CONFIGURED",
    "DATASOURCE_IDENTIFIER_MISSING", "DATASOURCE_IDENTIFIER_AMBIGUOUS",
    "UNKNOWN_PRECONDITION_FAILURE", "TABLEAU_CONTEXT_MISSING",
    "WORKBOOK_IDENTIFIER_AMBIGUOUS", "PERMISSION_DENIED", "INSUFFICIENT_SCOPE",
    "PERMISSION_NOT_VERIFIED", "TIMEOUT_TOO_LOW", "BUDGET_EXHAUSTED">>

FailureCode(s, v) ==
  LET shut == {i \in DOMAIN GateOrder : GateOrder[i] \in Failures(s, v)}
  IN GateOrder[CHOOSE i \in shut : \A j \in shut : i <= j]

PreconditionErrors ==
  {"AUTH_REQUIRED", "MISSING_REQUIRED_IDENTIFIER", "AMBIGUOUS_IDENTIFIER",
   "SITE_SETTINGS_DISABLED", "TRANSPORT_NOT_CONFIGURED", "TIMEOUT",
   "PERMISSION_DENIED", "UNKNOWN_ERROR"}

ErrorCode(code) ==
  CASE code = "DATASOURCE_IDENTIFIER_MISSING" -> "MISSING_REQUIRED_IDENTIFIER"
    [] code \in {"DATASOURCE_IDENTIFIER_AMBIGUOUS",
                 "WORKBOOK_IDENTIFIER_AMBIGUOUS"} -> "AMBIGUOUS_IDENTIFIER"
    [] code \in {"AUTH_REQUIRED", "SITE_SETTINGS_DISABLED",
                 "TRANSPORT_NOT_CONFIGURED"} -> code
    [] code \in {"BUDGET_EXHAUSTED", "TIMEOUT_TOO_LOW"} -> "TIMEOUT"
    [] code \in {"PERMISSION_DENIED", "INSUFFICIENT_SCOPE"} -> "PERMISSION_DENIED"
    [] OTHER -> "UNKNOWN_ERROR"

\* A user who came with a token needs a reference to it, which nothing supplies.
AuthState(s) == CASE Site(s) = "disabled" -> "not_configured"
                  [] s.auth = "user" -> "ready"
                  [] OTHER -> "missing"

AuthReady(s) == AuthState(s) = "ready"

\* The client needs the secrets of the connected app, and a subject.
ClientReady(v) == v.client /\ v.subject

CallConfigured(s, v) == AuthReady(s) /\ ClientReady(v)

-----------------------------------------------------------------------------
(* Answers *)

Answer(status, code, source, warned, by) ==
  [status |-> status, code |-> code, source |-> source, warned |-> warned, by |-> by,
   offline |-> FALSE, fellBack |-> FALSE]

\* The request to the transport says whether it is made without the network.
Offline(s, v) == s.noNetwork \/ ~HostedSelected(s, v)

\* What an answer says of the way it was made.
Traced(a, s, v) == [a EXCEPT !.offline = Offline(s, v), !.fellBack = FellBack(s, v)]

\* The warnings of the gates that let a request pass.
PassedWith(s, v) ==
  {w \in Warnings :
     \/ w = "site" /\ \/ Site(s) = "not_required_for_fake"
                      \/ Site(s) = "unknown" /\ ~HostedSelected(s, v)
     \/ w = "fake_transport" /\ ~HostedSelected(s, v)
     \/ w = "permission" /\ Permission(s) = "not_verified"}

\* What the runtime builds itself carries the warning of the fixture.
BuiltWith(s, v) == PassedWith(s, v) \cup {"fixture"}

\* A gate that stops early has not looked at the permission.
StoppedWith(s, v) ==
  {w \in Warnings :
     \/ w = "fixture"
     \/ w = "site" /\ FailureCode(s, v) = "SITE_SETTINGS_UNKNOWN"
     \/ w = "permission" /\ FailureCode(s, v) \notin {"PERMISSION_DENIED", "INSUFFICIENT_SCOPE"}}

\* An executable plan with nothing to execute is a failure.
PlanStatus(r) == IF PlanState(r) = "executable" THEN "failed" ELSE PlanState(r)

PlanAnswer(r) == Answer(PlanStatus(r), PlanReason(r), None, {}, None)

BlockedAnswer(s, v) ==
  Traced(Answer("failed", ErrorCode(FailureCode(s, v)), None, StoppedWith(s, v), None), s, v)

FixtureAnswer(s, v) ==
  Traced(Answer("completed", None, "fixture", BuiltWith(s, v), "fake"), s, v)

RefusedAnswer(s, v) ==
  Traced(Answer("failed", "TRANSPORT_NOT_CONFIGURED", None, BuiltWith(s, v), "hosted"), s, v)

\* The words of an error are read as a code, which is mapped to a code of the
\* transport and back: an invalid input is not recognised on the way back.
HostedCode(code) == IF code \in {"INVALID_INPUT", None} THEN "UNKNOWN_ERROR" ELSE code

FailedReply(s, v, m) ==
  Traced(Answer("failed", HostedCode(m.code), None, BuiltWith(s, v), "hosted"), s, v)

\* Mutant: the content of a reply in no known shape is its own.
TakenReply(s, v) ==
  Traced(Answer("completed", None, "fixture", PassedWith(s, v), "hosted"), s, v)

\* A reply in no known shape is replaced by the fixture.
UnshapedReply(s, v) ==
  Traced(Answer("completed", None, "fixture", BuiltWith(s, v), "hosted"), s, v)

\* An output that failed needs a code.
OutputCode(m) == IF m.status = "failed" /\ m.code = None THEN "TRANSPORT_FAILED" ELSE m.code

CutWarning(m) == IF m.cut THEN {"truncated"} ELSE {}

ShapedReply(s, v, m) ==
  Traced(IF m.status = "failed"
         THEN Answer("failed", OutputCode(m), None, PassedWith(s, v) \cup CutWarning(m), "hosted")
         ELSE Answer("completed", OutputCode(m), "hosted",
                     PassedWith(s, v) \cup CutWarning(m), "hosted"), s, v)

ReplyAnswer(s, v, m) ==
  IF m.failed THEN FailedReply(s, v, m)
  ELSE IF m.shaped THEN ShapedReply(s, v, m) ELSE UnshapedReply(s, v)

\* The wrapper stops waiting: neither an output nor an error code.
TimeoutAnswer == Answer("failed", None, None, {}, None)

-----------------------------------------------------------------------------
(* State *)

VARIABLES
  request,   \* the request of this run
  settings,  \* and what is sent with it
  service,   \* the configuration of the backend
  manner,    \* does the caller follow the options, or the contract?
  at,        \* where the run is
  run,       \* the number of the run
  asked,     \* the reasons the caller was asked to clarify for
  answer,    \* the answer of this run
  calls      \* the session of each run with the hosted server

vars == <<request, settings, service, manner, at, run, asked, answer, calls>>
\* What a run is given.
given == <<request, settings, service, manner, run>>

Answers ==
  [status : {"completed", "failed", "unsupported", "fallback", "clarification_required"},
   code : PlanReasons \cup PreconditionErrors \cup HostedErrors \cup {"TRANSPORT_FAILED", None},
   source : {None, "fixture", "hosted"}, warned : SUBSET Warnings,
   by : {None, "fake", "hosted"}, offline : BOOLEAN, fellBack : BOOLEAN]

TypeOK ==
  /\ request \in Request
  /\ settings \in Setting
  /\ service \in Service
  /\ manner \in {"options", "contract"}
  /\ at \in {"asked", "calling", "clarifying", "answered"}
  /\ run \in 1..MaxRuns
  /\ asked \in Seq(ReasonCodes)
  /\ answer \in Answers \cup {None}
  /\ calls \in [1..MaxRuns -> {"none", "open", "closed"}]

Init ==
  /\ request \in Requests
  /\ settings \in Settings
  /\ service \in Services
  /\ manner \in {"options", "contract"}
  /\ at = "asked"
  /\ run = 1
  /\ asked = <<>>
  /\ answer = None
  /\ calls = [i \in 1..MaxRuns |-> "none"]

-----------------------------------------------------------------------------
(* One run *)

Tell(a) ==
  /\ answer' = a
  /\ at' = "answered"

\* A request that is not for metadata, or for more than that.
Decline ==
  /\ at = "asked"
  /\ PlanState(request) # "clarification_required"
  /\ ~HasCandidate(request)
  /\ Tell(PlanAnswer(request))
  /\ UNCHANGED <<given, asked, calls>>

Clarify ==
  /\ at = "asked"
  /\ PlanState(request) = "clarification_required"
  /\ answer' = PlanAnswer(request)
  /\ at' = "clarifying"
  /\ asked' = Append(asked, ReasonCode(request))
  /\ UNCHANGED <<given, calls>>

Executing == at = "asked" /\ HasCandidate(request)

Block ==
  /\ Executing
  /\ ~CanExecute(settings, service)
  /\ Tell(BlockedAnswer(settings, service))
  /\ UNCHANGED <<given, asked, calls>>

DescribeFixture ==
  /\ Executing
  /\ CanExecute(settings, service)
  /\ ~HostedSelected(settings, service)
  /\ Tell(FixtureAnswer(settings, service))
  /\ UNCHANGED <<given, asked, calls>>

RefuseCall ==
  /\ Executing
  /\ CanExecute(settings, service)
  /\ HostedSelected(settings, service)
  /\ ~CallConfigured(settings, service)
  /\ Tell(RefusedAnswer(settings, service))
  /\ UNCHANGED <<given, asked, calls>>

StartCall ==
  /\ Executing
  /\ CanExecute(settings, service)
  /\ HostedSelected(settings, service)
  /\ CallConfigured(settings, service)
  /\ at' = "calling"
  /\ calls' = [calls EXCEPT ![run] = "open"]
  /\ UNCHANGED <<given, asked, answer>>

\* The server replies, or the client gives up; the session is closed.
Receive(m) ==
  /\ at = "calling"
  /\ Tell(ReplyAnswer(settings, service, m))
  /\ calls' = [calls EXCEPT ![run] = "closed"]
  /\ UNCHANGED <<given, asked>>

\* Mutant: the timer is set for a budget that was lowered only.
ExpireOnBudget ==
  /\ at = "calling"
  /\ settings.time # "enough"
  /\ Tell(TimeoutAnswer)
  /\ UNCHANGED <<given, asked, calls>>

\* The wrapper's timer answers instead, and leaves the session open.
Expire ==
  /\ at = "calling"
  /\ Tell(TimeoutAnswer)
  /\ UNCHANGED <<given, asked, calls>>

\* A reply nobody waits for any more.
EndLate(i) ==
  /\ calls[i] = "open"
  /\ ~(at = "calling" /\ i = run)
  /\ calls' = [calls EXCEPT ![i] = "closed"]
  /\ UNCHANGED <<given, at, asked, answer>>

-----------------------------------------------------------------------------
(* The caller *)

AskAgain(r, s) ==
  /\ run < MaxRuns
  /\ run' = run + 1
  /\ request' = r
  /\ settings' = s
  /\ at' = "asked"
  /\ answer' = None
  /\ UNCHANGED <<service, manner, calls>>

Choose(o) ==
  /\ at = "clarifying"
  /\ manner = "options"
  /\ AskAgain(Resumed(request, o.target, o.fields), settings)
  /\ UNCHANGED asked

Resume(t) ==
  /\ at = "clarifying"
  /\ manner = "contract"
  /\ AskAgain(Resumed(request, t, RequiredFields(request)), settings)
  /\ UNCHANGED asked

\* Where the caller may ask in other words.
Restate(r) ==
  /\ at \in {"clarifying", "answered"}
  /\ MayRestate(request)
  /\ AskAgain(r, settings)
  /\ asked' = <<>>

\* The same request, with what the last answer said was in the way.
Retry(s) ==
  /\ at = "answered"
  /\ answer.status = "failed"
  /\ AskAgain(request, s)
  /\ UNCHANGED asked

Handle == \/ Decline \/ Clarify \/ Block \/ DescribeFixture
          \/ RefuseCall \/ StartCall \/ Expire

Caller == \/ \E o \in Options(request) : Choose(o)
          \/ \E t \in AllowedTargetTypes(request) : Resume(t)
          \/ \E r \in Requests : Restate(r)
          \/ \E s \in Settings : Retry(s)

Server == \/ \E m \in Replies : Receive(m)
          \/ \E i \in 1..MaxRuns : EndLate(i)

Next == Handle \/ Caller \/ Server

\* The handler runs and its timer fires; the server may never reply.
Spec == Init /\ [][Next]_vars /\ WF_vars(Handle)

-----------------------------------------------------------------------------
(* Properties *)

\* A session with the hosted server is open only while everything that has to
\* agree did: the backend and the caller enabled it, nobody asked for no
\* network, the site and the permission were not in doubt, and the request
\* named one datasource (several switches of two parties, read in three places).
HostedOnlyWhenAgreed ==
  calls[run] # "none" =>
    /\ service.enabled /\ service.client /\ service.subject
    /\ settings.enabled /\ settings.kind = "hosted" /\ ~settings.noNetwork
    /\ Site(settings) \notin {"disabled", "unknown"}
    /\ Permission(settings) = "verified"
    /\ settings.transport = "selected" /\ settings.time = "enough"
    /\ ~AsksForData(request) /\ Satisfied(request) = Preconditions

\* Content is never passed off for what it is not: the fixture is always told
\* by a warning and hosted content never carries it, hosted content comes from
\* a closed session of this run, an answer that says it was made offline opened
\* none, and an unverified permission or a hosted request answered from the
\* fixture is told.
ContentIsLabelled ==
  at = "answered" =>
    /\ answer.status = "completed" =>
         /\ (answer.source = "fixture") <=> ("fixture" \in answer.warned)
         /\ answer.by = "hosted" <=> calls[run] = "closed"
         /\ Permission(settings) # "verified" => "permission" \in answer.warned
         /\ settings.kind = "hosted" /\ answer.by = "fake" => answer.fellBack
    /\ answer.offline => calls[run] = "none"
    /\ answer.source # None => answer.status = "completed"

\* A plain request: the ambiguity is in the targets it mentions.
IsPlain(r) == r.candidates = {} /\ ~r.several /\ "either" \notin r.signals

\* Whoever follows the options of a plain request is asked at most twice, and
\* never the same thing again (an option that leaves its own reason standing
\* would send the caller in circles).
OptionsLead ==
  manner = "options" /\ IsPlain(request) =>
    /\ Len(asked) <= 2
    /\ \A i, j \in DOMAIN asked : asked[i] = asked[j] => i = j

\* Every run is answered, also when the hosted server never replies.
Settles == at \in {"asked", "calling"} ~> at \in {"clarifying", "answered"}
=============================================================================
