------------------------------ MODULE Payloads ------------------------------
(***************************************************************************)
(* What a file asks for, kind by kind: the payload its handler accepts, the *)
(* body it sends, what the tenant answers, and the envelope that collect    *)
(* makes of the answer.  A payload is a function from the fields it sets to *)
(* their values.  Playbooks and automation rules are in Siblings and Lint.  *)
(***************************************************************************)
EXTENDS Integers, Sequences, SequencesExt, FiniteSetsExt

CONSTANT Nothing

Without(f, keys) == [k \in DOMAIN f \ keys |-> f[k]]
Only(f, keys) == [k \in DOMAIN f \cap keys |-> f[k]]
Filled(f, k) == k \in DOMAIN f /\ f[k] # ""
FilledIn(f, keys) == Only(f, {k \in keys : Filled(f, k)})
Default(f, k, v) == f @@ (k :> v)

-----------------------------------------------------------------------------
(* Analytic rules.  The models ignore the fields they do not know.          *)

RequiredFields ==
  [Scheduled |-> {"displayName", "severity", "query", "queryFrequency", "triggerThreshold"},
   NRT |-> {"displayName", "severity", "query"},
   MicrosoftSecurityIncidentCreation |-> {"displayName", "productFilter"},
   Fusion |-> {"alertRuleTemplateName"}, MLBehaviorAnalytics |-> {"alertRuleTemplateName"},
   ThreatIntelligence |-> {"alertRuleTemplateName"}]
ScheduledOnly == {"queryFrequency", "triggerThreshold"}
Templated == {"Fusion", "MLBehaviorAnalytics", "ThreatIntelligence"}

ScheduledValid(p) == Filled(p, "query") /\ ("grouping" \in DOMAIN p => p["grouping"] # "selected, by nothing")
NrtValid(p) == Filled(p, "query") /\ DOMAIN p \cap ScheduledOnly = {}
MsicValid(p) ==
  {"displayNamesFilter", "displayNamesExcludeFilter"} \subseteq DOMAIN p
    => p["displayNamesFilter"] # p["displayNamesExcludeFilter"]

TemplateCoupled(p) == Filled(p, "templateVersion") => Filled(p, "alertRuleTemplateName")
AnalyticValid(p) ==
  /\ "kind" \in DOMAIN p /\ p["kind"] \in DOMAIN RequiredFields
  /\ RequiredFields[p["kind"]] \subseteq DOMAIN p
  /\ p["kind"] = "Scheduled" => ScheduledValid(p)
  /\ p["kind"] = "NRT" => NrtValid(p)
  /\ p["kind"] = "MicrosoftSecurityIncidentCreation" => MsicValid(p)
  /\ TemplateCoupled(p)

Allowlist == [Fusion |-> {"alertRuleTemplateName", "enabled", "sourceSettings"},
              MLBehaviorAnalytics |-> {"alertRuleTemplateName", "enabled"}]
AnalyticBody(p, status) ==
  LET props == Without(p, {"kind"} \cup IF TemplateCoupled(p) THEN {} ELSE {"templateVersion"})
      sent == IF p["kind"] \in DOMAIN Allowlist THEN Only(props, Allowlist[p["kind"]]) ELSE props IN
  [kind |-> p["kind"],
   props |-> IF status = "deprecated" THEN ("enabled" :> "off") @@ sent ELSE sent]

AnalyticEnvelope(r) ==
  LET unlinked == {k \in {"alertRuleTemplateName", "templateVersion"} : ~Filled(r.props, k)} IN
  [status |-> IF r.props["enabled"] = "on" THEN "production" ELSE "deprecated",
   payload |-> ("kind" :> r.kind) @@ Without(r.props, unlinked \cup {"lastModifiedUtc"})]

(* The fields that the check behind a write compares. *)
AnalyticHashed(kind, linked) ==
  CASE kind \in Templated -> {"alertRuleTemplateName", "enabled"}
    [] kind = "MicrosoftSecurityIncidentCreation" ->
         {"displayName", "productFilter", "displayNamesFilter", "displayNamesExcludeFilter", "enabled"}
           \cup IF linked THEN {"alertRuleTemplateName"} ELSE {}
    [] OTHER -> {"displayName", "query", "severity", "enabled"}
         \cup (IF kind = "NRT" THEN {} ELSE ScheduledOnly)
         \cup IF linked THEN {"alertRuleTemplateName"} ELSE {}

-----------------------------------------------------------------------------
(* Saved searches: hunting queries and parsers keep some fields as tags.    *)

Tagged(kind) == IF kind = "hunting" THEN <<"description", "tactics", "techniques">> ELSE <<"description">>
Category(kind) == IF kind = "hunting" THEN "Hunting Queries" ELSE "Function"
ExtraTags(p) == IF "tags" \in DOMAIN p THEN p["tags"] ELSE <<>>

SearchValid(kind, p) ==
  /\ Filled(p, "displayName") /\ Filled(p, "query")
  /\ Filled(p, "category") => p["category"] = Category(kind)
  /\ kind = "parser" => Filled(p, "functionAlias")
  /\ \A t \in Range(ExtraTags(p)) : t.name # ""

TagsFor(kind, p) ==
  LET own == SelectSeq(Tagged(kind), LAMBDA k : k \in DOMAIN p /\ p[k] # <<>>) IN
  [i \in DOMAIN own |-> [name |-> own[i], value |-> p[own[i]]]] \o ExtraTags(p)

SearchBody(kind, p) ==
  LET tags == TagsFor(kind, p) IN
  [kind |-> kind,
   props |-> Default(Only(p, {"displayName", "query", "version"}), "version", "2")
               @@ ("category" :> Category(kind))
               @@ FilledIn(p, {"functionAlias", "functionParameters"})
               @@ IF tags = <<>> THEN <<>> ELSE ("tags" :> tags)]

(* to_envelope: of two tags with the name of a field the last is taken.     *)
Extra(kind, tags) == SelectSeq(tags, LAMBDA t : t.name \notin Range(Tagged(kind)))
Named(tags, k) == SelectSeq(tags, LAMBDA t : t.name = k)

SearchEnvelope(kind, name, r) ==
  LET tags == ExtraTags(r.props)
      own == {k \in Range(Tagged(kind)) : Named(tags, k) # <<>> /\ Last(Named(tags, k)).value # <<>>}
      alias == IF kind = "parser" THEN "functionAlias" :> name ELSE <<>> IN
  [status |-> "production",
   payload |-> [k \in own |-> Last(Named(tags, k)).value]
                 @@ (IF Extra(kind, tags) = <<>> THEN <<>> ELSE "tags" :> Extra(kind, tags))
                 @@ Only(r.props, {"displayName", "query", "version", "category"})
                 @@ FilledIn(r.props, {"functionAlias", "functionParameters"}) @@ alias]

-----------------------------------------------------------------------------
(* Data connectors and watchlists take any field.                           *)

ConnectorBody(p) == [kind |-> p["kind"], props |-> Without(p, {"kind", "requiresManualConsent"})]
ConnectorServer == {"connectorUiConfig", "lastModifiedUtc", "etag"}
ConnectorEnvelope(name, r) ==
  IF name = "guid" THEN Nothing
  ELSE [status |-> "production", payload |-> ("kind" :> r.kind) @@ Without(r.props, ConnectorServer)]

(* The rows of a watchlist: "key" is a line that names the key among its    *)
(* columns.  The header is the first line that is not skipped.              *)
WatchlistValid(p) ==
  /\ Filled(p, "displayName") /\ Filled(p, "itemsSearchKey")
  /\ ~({"rawContent", "sasUri"} \subseteq DOMAIN p)
  /\ "sasUri" \in DOMAIN p => p["sasUri"] = "https sig"
  /\ "rawContent" \in DOMAIN p =>
       Len(p["rawContent"]) > p["skip"] /\ p["rawContent"][p["skip"] + 1] = "key"
WatchlistHasContent(p) == DOMAIN p \cap {"rawContent", "sasUri"} # {}

(* _expected_item_count: blank lines do not count, nor the first that is not. *)
ExpectedItems(raw, skip) ==
  LET lines == SelectSeq(SubSeq(raw, skip + 1, Len(raw)), LAMBDA l : l # "blank") IN
  IF lines = <<>> THEN 0 ELSE Len(lines) - 1

WatchlistServer ==
  {"etag", "created", "updated", "createdBy", "updatedBy", "watchlistId", "tenantId", "watchlistAlias",
   "isDeleted", "provisioningState", "sasUri"}
WatchlistEnvelope(r) ==
  LET kept == Without(r.props, WatchlistServer) IN
  [status |-> "production",
   payload |-> IF "skip" \in DOMAIN kept /\ kept["skip"] = 0 THEN Without(kept, {"skip"}) ELSE kept]

-----------------------------------------------------------------------------
(* Defender rules take the fields of the model and no other.                *)

DefenderFields == {"displayName", "description", "status", "isEnabled", "queryCondition", "schedule", "detectionAction"}
DefenderValid(p) ==
  /\ DOMAIN p \subseteq DefenderFields
  /\ {"displayName", "queryCondition", "schedule", "detectionAction"} \subseteq DOMAIN p
  /\ "status" \in DOMAIN p => p["status"] \in {"enabled", "disabled", "autoDisabled"}

RuleStatus(p) ==
  IF "status" \in DOMAIN p THEN p["status"]
  ELSE IF "isEnabled" \in DOMAIN p /\ p["isEnabled"] = "no" THEN "disabled" ELSE "enabled"
DefenderBody(p, status) ==
  LET asked == IF status = "deprecated" THEN "disabled" ELSE RuleStatus(p)
      rest == Without(p, {"isEnabled", "status"}) IN
  [kind |-> "defender", props |-> IF asked = "autoDisabled" THEN rest ELSE ("status" :> asked) @@ rest]

DefenderServer ==
  {"id", "createdDateTime", "lastModifiedDateTime", "createdBy", "lastModifiedBy",
   "lastExecutionDateTime", "detectorId", "lastRunDetails"}
\* Mutant: the fields that the service added later are not known.
DefenderStrippedOld(r) == Without(r.props, DefenderServer \ {"detectorId", "lastRunDetails"})
DefenderStripped(r) == Without(r.props, DefenderServer)
DefenderEnvelope(r) ==
  LET payload == DefenderStripped(r) IN
  [status |-> IF RuleStatus(r.props) = "disabled" THEN "deprecated" ELSE "production",
   payload |-> IF "status" \in DOMAIN payload THEN Without(payload, {"isEnabled"}) ELSE payload]

-----------------------------------------------------------------------------
(* One file of any kind: [kind, name, status, payload].                     *)

Validates(f) ==
  CASE f.kind = "analytic" -> AnalyticValid(f.payload)
    [] f.kind \in {"hunting", "parser"} -> SearchValid(f.kind, f.payload)
    [] f.kind = "connector" -> Filled(f.payload, "kind")
    [] f.kind = "watchlist" -> WatchlistValid(f.payload)
    [] OTHER -> DefenderValid(f.payload)

(* plan: only the kinds that can be switched off are, when deprecated.      *)
Planned(f) ==
  CASE f.status = "experimental" -> "skip"
    [] f.status = "deprecated" -> IF f.kind \in {"analytic", "defender"} THEN "disable" ELSE "skip"
    [] OTHER -> IF f.kind = "watchlist" /\ ~WatchlistHasContent(f.payload) THEN "skip" ELSE "update"

BodyOf(f) ==
  CASE f.kind = "analytic" -> AnalyticBody(f.payload, f.status)
    [] f.kind \in {"hunting", "parser"} -> SearchBody(f.kind, f.payload)
    [] f.kind = "connector" -> ConnectorBody(f.payload)
    [] f.kind = "watchlist" -> [kind |-> "watchlist", props |-> f.payload]
    [] OTHER -> DefenderBody(f.payload, f.status)

(* What the tenant keeps of a body and adds to it.  The template owns some  *)
(* fields of a rule, which is refused without one; a watchlist is answered  *)
(* without its rows; a Defender rule is patched.                            *)
Added ==
  [analytic |-> [lastModifiedUtc |-> "now", enabled |-> "on", alertRuleTemplateName |-> ""],
   hunting |-> [etag |-> "e", provisioningState |-> "ok"], parser |-> [etag |-> "e"],
   connector |-> [k \in ConnectorServer |-> "now"],
   watchlist |-> [k \in WatchlistServer |-> "now"] @@ [itemsCount |-> "n"],
   defender |-> [k \in DefenderServer |-> "now"] @@ [status |-> "enabled", isEnabled |-> "yes"]]
AddedToTemplated == [displayName |-> "of the template", severity |-> "High"]

Kept(f, before) ==
  LET body == BodyOf(f)
      props == IF f.kind = "watchlist" THEN Without(body.props, {"rawContent"}) ELSE body.props IN
  [kind |-> body.kind,
   props |-> (IF body.kind \in Templated THEN AddedToTemplated ELSE <<>>) @@ props
               @@ (IF f.kind = "defender" /\ before # Nothing THEN before.props ELSE <<>>) @@ Added[f.kind]]

Refused(f) == LET body == BodyOf(f) IN body.kind \in Templated /\ ~Filled(body.props, "alertRuleTemplateName")

Deployed(f, before) == IF Planned(f) = "skip" \/ Refused(f) THEN before ELSE Kept(f, before)
Collected(kind, name, r) ==
  CASE kind = "analytic" -> AnalyticEnvelope(r)
    [] kind \in {"hunting", "parser"} -> SearchEnvelope(kind, name, r)
    [] kind = "connector" -> ConnectorEnvelope(name, r)
    [] kind = "watchlist" -> WatchlistEnvelope(r)
    [] OTHER -> DefenderEnvelope(r)

-----------------------------------------------------------------------------
(* Properties.                                                              *)

\* What a file deploys, collected, is a file that its handler accepts and that
\* deploys to the same resource: an import of one's own deploy is quiet, for
\* every kind (to_envelope behind to_*_arm_body).  A tag that carries the name
\* of a field wins over the field, and is left out here.
OwnTags(f) == \A t \in Range(ExtraTags(f.payload)) : t.name \notin Range(Tagged(f.kind))
ImportsSettle(f) ==
  LET r == Deployed(f, Nothing)
      e == Collected(f.kind, f.name, r) IN
  Validates(f) /\ (f.kind \in {"hunting", "parser"} => OwnTags(f)) /\ r # Nothing /\ e # Nothing =>
    LET again == [kind |-> f.kind, name |-> f.name, status |-> e.status, payload |-> e.payload] IN
    /\ Validates(again)
    /\ Deployed(again, r) = r

\* The check behind a write compares nothing that the tenant changes by itself.
VerifiesItsOwn(f) ==
  f.kind = "analytic" /\ Validates(f) /\ Deployed(f, Nothing) # Nothing =>
    LET sent == BodyOf(f).props
        hashed == AnalyticHashed(f.payload["kind"], Filled(sent, "alertRuleTemplateName")) IN
    \A k \in hashed \cap DOMAIN sent : Deployed(f, Nothing).props[k] = sent[k]

\* A watchlist that validates is counted, behind its write, as the tenant
\* counts it: one item for each line behind the header that is not blank
\* (_expected_item_count against the model's own reading of the header).
RowsCounted(raw, skip) ==
  WatchlistValid([displayName |-> "n", itemsSearchKey |-> "k", rawContent |-> raw, skip |-> skip])
    => ExpectedItems(raw, skip) = Cardinality({i \in DOMAIN raw : i > skip + 1 /\ raw[i] # "blank"})
=============================================================================
