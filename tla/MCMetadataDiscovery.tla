------------------------- MODULE MCMetadataDiscovery -------------------------
EXTENDS MetadataDiscovery, TLC

Asked(signals, mentions) ==
  [signals |-> signals, mentions |-> mentions, target |-> None,
   candidates |-> {}, several |-> FALSE, identifier |-> FALSE]
Plain == Asked({"keyword"}, {})
MCRequests ==
  {Plain, Asked({}, {}), Asked({}, {"datasource"}), Asked({}, {"view"}),
   Asked({"keyword"}, {"datasource", "view"}), Asked({"either"}, {"datasource"}),
   Asked({"write", "query"}, {"datasource"}), Asked({"unsafe"}, {}),
   [Plain EXCEPT !.target = "datasource", !.identifier = TRUE],
   [Plain EXCEPT !.target = "datasource", !.mentions = {"workbook"}],
   [Plain EXCEPT !.target = "datasource", !.identifier = TRUE, !.signals = {"query"}],
   [Plain EXCEPT !.candidates = {"workbook", "datasource"}, !.identifier = TRUE],
   [Plain EXCEPT !.target = "unknown", !.mentions = {"datasource"}]}

Hosted ==
  [kind |-> "hosted", enabled |-> TRUE, noNetwork |-> FALSE, site |-> None,
   permission |-> None, resolution |-> "resolved", context |-> "resolved",
   transport |-> "selected", auth |-> "user", policy |-> "allows", time |-> "enough"]
Fake == [Hosted EXCEPT !.kind = "fake", !.enabled = FALSE, !.noNetwork = TRUE]
MCSettings ==
  {Hosted, Fake, [Hosted EXCEPT !.noNetwork = TRUE], [Hosted EXCEPT !.enabled = FALSE],
   [Hosted EXCEPT !.site = "disabled"], [Hosted EXCEPT !.site = "unknown"],
   [Hosted EXCEPT !.site = "not_required_for_fake"], [Fake EXCEPT !.site = "unknown"],
   [Hosted EXCEPT !.permission = "not_verified"], [Fake EXCEPT !.permission = "not_verified"],
   [Fake EXCEPT !.permission = "denied"], [Hosted EXCEPT !.permission = "insufficient_scope"],
   [Hosted EXCEPT !.resolution = "missing"], [Fake EXCEPT !.resolution = "ambiguous"],
   [Fake EXCEPT !.resolution = "not_checked", !.policy = "no_external_access"],
   [Hosted EXCEPT !.context = "ambiguous"], [Fake EXCEPT !.context = "missing"],
   [Hosted EXCEPT !.transport = "not_configured"], [Fake EXCEPT !.transport = "not_configured"],
   [Fake EXCEPT !.transport = "disabled"],
   [Hosted EXCEPT !.auth = "token"], [Fake EXCEPT !.auth = "none"],
   [Hosted EXCEPT !.policy = "not_listed"], [Hosted EXCEPT !.time = "short"],
   [Fake EXCEPT !.time = "none"], [Hosted EXCEPT !.kind = "remote"]}

MCServices ==
  {[enabled |-> TRUE, client |-> TRUE, subject |-> TRUE],
   [enabled |-> TRUE, client |-> TRUE, subject |-> FALSE],
   [enabled |-> FALSE, client |-> TRUE, subject |-> TRUE]}

Shaped == [failed |-> FALSE, shaped |-> TRUE, cut |-> FALSE, status |-> "success", code |-> None]
MCReplies ==
  {Shaped, [Shaped EXCEPT !.cut = TRUE, !.status = "partial"],
   [Shaped EXCEPT !.status = "failed"], [Shaped EXCEPT !.shaped = FALSE],
   [Shaped EXCEPT !.status = "failed", !.code = "INVALID_INPUT"],
   [Shaped EXCEPT !.failed = TRUE, !.code = "INVALID_INPUT"],
   [Shaped EXCEPT !.failed = TRUE, !.code = "NETWORK_ERROR"]}
=============================================================================
