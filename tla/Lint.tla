-------------------------------- MODULE Lint --------------------------------
(***************************************************************************)
(* From the text of a file to what lint says of it, next to what the rest   *)
(* of the tool does with the same file: how an envelope is read, which      *)
(* automation rules and playbooks validate, how a rule is resolved.         *)
(* A file is a record; its metadata is a function from the keys it writes   *)
(* to what stands there: "good", "bad" (of the wrong form), "blank",        *)
(* "todo" (the scaffold's text) or a value of the key.                      *)
(***************************************************************************)
EXTENDS RuleText, SupportAssets

CONSTANT Absent

Finding(rule, severity) == [rule |-> rule, severity |-> severity]
When(condition, rule, severity) == IF condition THEN {Finding(rule, severity)} ELSE {}

Detections == {"analytic", "hunting", "defender"}
Support == {"automation", "playbook"}
Kinds == Detections \cup Support

-----------------------------------------------------------------------------
(* The envelope.                                                            *)

NotDiscovered(f) == f.at \in {"templates", "samples", "settings"}

Common == {"owner", "runbookUrl"}
OfDetections == {"severity", "tactics", "expectedAlertsPerDay", "fpHandling"}
Required(kind) == IF kind \in Support THEN Common ELSE Common \cup OfDetections
FullKeys(kind) == IF kind \in Support THEN Common ELSE Required(kind) \cup {"techniques"}

Texts == {"description", "attackDescription", "cohort", "lastValidatedAt"}
MaybeEmpty(kind) ==
  {"techniques", "references", "falsePositives", "blindSpots", "responseActions", "defensiveTechniques"}
    \cup IF kind \in Support THEN {"tactics"} ELSE {}
MetadataValid(kind, m) ==
  /\ Required(kind) \subseteq DOMAIN m /\ ~Has(m, "unknown")
  /\ \A k \in DOMAIN m :
       CASE m[k] = "bad" -> FALSE
         [] m[k] = "blank" -> k \in Texts \cup MaybeEmpty(kind)
         [] m[k] = "todo" -> k \in Texts \cup {"fpHandling"}
         [] OTHER -> TRUE

(* parse_envelope: a block with all its keys must be valid; one that only    *)
(* names the resource, or is partial and not valid, is read for that name.  *)
Full(f) == FullKeys(f.kind) \subseteq DOMAIN f.meta
OnlyName(f) == DOMAIN f.meta \subseteq {"arm_name"}
Name(m) == IF Has(m, "arm_name") THEN m["arm_name"] ELSE Absent

ReadLoosely(f) == f.meta # <<>> /\ ~Full(f) /\ ~OnlyName(f) /\ ~MetadataValid(f.kind, f.meta)
Metadata(f) == IF f.meta = <<>> \/ OnlyName(f) \/ ReadLoosely(f) THEN Absent ELSE f.meta
ArmName(f) == Name(f.meta)

(* The definition of a playbook may stand in a file next to it. *)
Sidecar(f) == f.kind = "playbook" /\ Has(f.payload, "definitionFile")
Inlines(f) ==
  Sidecar(f) => /\ ~Has(f.payload, "definition")
                /\ f.payload["definitionFile"] = "bare" /\ f.sidecar = "workflow"

Inlined(f) == IF Sidecar(f) THEN ("definition" :> f.sidecar) @@ f.payload ELSE f.payload

Loads(f) ==
  /\ f.yaml = "mapping" /\ f.kind \in Kinds
  /\ Full(f) => MetadataValid(f.kind, f.meta)
  /\ f.id = "good" /\ f.status # "missing" /\ ArmName(f) # "bad"
  /\ Inlines(f)
Loaded(f) == [metadata |-> Metadata(f), arm |-> ArmName(f), loose |-> ReadLoosely(f)]

-----------------------------------------------------------------------------
(* What lint says of the metadata.                                          *)

Authored == {"description", "attackDescription", "references", "falsePositives"}
Written(m, k) == Has(m, k) /\ m[k] # "blank"
Populated(m) == {k \in Authored : Written(m, k) /\ m[k] # "todo"}
PartlyAuthored(m) == m # Absent /\ Populated(m) \notin {{}, Authored}

MissingRule == [description |-> "META002", attackDescription |-> "META003",
                references |-> "META004", falsePositives |-> "META005"]
Stale(m, status) == m["lastValidatedAt"] = "old" \/ (status = "production" /\ m["lastValidatedAt"] = "aging")

\* Mutant: only the description is looked at for the scaffold's text.
LintMetadataOnce(status, m, strict) ==
  LET severity == IF strict THEN "error" ELSE "warning" IN
  IF m = Absent
  THEN {Finding("META001", "warning")} \cup {Finding(MissingRule[k], severity) : k \in Authored}
  ELSE {Finding(MissingRule[k], severity) : k \in {j \in Authored : ~Written(m, j)}}
         \cup When(status # "experimental" /\ IsIn(m, "description", {"todo"}), "META008", "error")

LintMetadata(status, m, strict) ==
  LET severity == IF strict THEN "error" ELSE "warning" IN
  IF m = Absent
  THEN {Finding("META001", "warning"), Finding("META006", "info"), Finding("META007", "info")}
         \cup {Finding(MissingRule[k], severity) : k \in Authored}
  ELSE When(~Written(m, "lastValidatedAt"), "META001", "warning")
         \cup (IF Written(m, "lastValidatedAt")
               THEN When(m["lastValidatedAt"] = "no date", "META001", "error")
                      \cup When(Stale(m, status), "META001", severity)
               ELSE {})
         \cup {Finding(MissingRule[k], severity) : k \in {j \in Authored : ~Written(m, j)}}
         \cup When(~Written(m, "blindSpots"), "META006", "info")
         \cup When(~Written(m, "responseActions"), "META007", "info")
         \cup When(IsIn(m, "severity", {"high"}) /\ IsIn(m, "fpExpectedPerWeek", {"high"}), "META009", "info")
         \cup When(/\ status # "experimental"
                   /\ \E k \in {"description", "attackDescription"} : IsIn(m, k, {"todo"}), "META008", "error")

SupportMetaRules == {"META001", "META002", "META008"}

-----------------------------------------------------------------------------
(* What lint says of the payload of a detection.                            *)

TemplateFinding(p) ==
  When(Has(p, "templateVersion") /\ ~Has(p, "alertRuleTemplateName"), "PAYLOAD001", "error")
SlugFinding(p) == When(IsIn(p, "displayName", {"long"}), "PAYLOAD002", "warning")
MitreFinding(kind, p) ==
  LET fields == CASE kind \in {"analytic", "hunting"} -> {"tactics", "techniques"}
                  [] kind = "defender" -> {"mitreTechniques"}
                  [] OTHER -> {} IN
  When(\E k \in fields : ~Has(p, k), "PAYLOAD003", "warning")
ActionsFinding(kind, p) ==
  When(kind = "defender" /\ IsIn(p, "recommendedActions", {"null"}), "PAYLOAD004", "warning")

(* FileProfile(): its columns must be declared, and the columns of the      *)
(* mapped entities projected behind it.                                     *)
FileProfile == "invoke FileProfile("
Uses(q, token) == \E i \in DOMAIN q : q[i] = token
Behind(q) == SubSeq(q, Min({i \in DOMAIN q : q[i] = FileProfile}) + 1, Len(q))
ProfileFindings(p) ==
  IF ~Has(p, "query") \/ ~Uses(p["query"], FileProfile) THEN {}
  ELSE When(Uses(p["query"], "GlobalPrevalence") /\ ~Uses(p["query"], "column_ifexists(GlobalPrevalence"),
            "PAYLOAD005", "warning")
         \cup When(\E c \in (IF Has(p, "columns") THEN p["columns"] ELSE {}) : ~Uses(Behind(p["query"]), c),
                   "PAYLOAD006", "warning")

LintPayload(kind, p) ==
  (IF kind = "analytic" THEN TemplateFinding(p) ELSE {})
    \cup (IF kind = "playbook" THEN {} ELSE SlugFinding(p))
    \cup MitreFinding(kind, p) \cup ActionsFinding(kind, p)
    \cup IF kind = "defender" THEN ProfileFindings(p) ELSE {}

-----------------------------------------------------------------------------
(* What lint says of automation rules and playbooks.                        *)

ExpiredFinding(p) == When(IsIn(p, "expires", {"past"}), "PAYLOAD008", "warning")
CloseFinding(p) ==
  IF ~Closes(p) THEN {}
  ELSE When(Conditions(p) = <<>>, "PAYLOAD014", "error")
         \cup When(Conditions(p) # <<>> /\ ScopeConditions(p) = <<>>, "PAYLOAD014", "warning")

ConnectionFindings(p) ==
  When(\E c \in Range(p["connections"]) : Api(c) \notin DOMAIN ManagedIdentity /\ c.mode # "none", "PAYLOAD010", "warning")
RoleFinding(p) ==
  When((\E c \in Range(p["connections"]) : Api(c) = "azuresentinel") /\ p["roles"] = {}, "PAYLOAD012", "warning")

LintSupport(f) ==
  CASE f.kind = "automation" -> ExpiredFinding(f.payload) \cup CloseFinding(f.payload)
    [] f.kind = "playbook" -> ConnectionFindings(f.payload) \cup RoleFinding(f.payload)
    [] OTHER -> {}

-----------------------------------------------------------------------------
(* The run over a repository.                                               *)

LintFile(f, policy) ==
  LET m == Metadata(f)
      meta == LintMetadata(f.status, m, policy \/ PartlyAuthored(m)) IN
  LintPayload(f.kind, f.payload) \cup LintSupport(f)
    \cup {x \in meta : f.kind \in Support => x.rule \in SupportMetaRules}
    \cup IF f.kind \in Detections /\ Has(f.payload, "query")
         THEN {Finding(r, IF r \in KqlErrors THEN "error" ELSE "warning") : r \in LintKql(f.payload["query"])} ELSE {}

(* lint_support_assets_repo, over the files that were loaded. *)
IdsOf(files, kind) == {g.name : g \in {h \in files : h.kind = kind}}
SameTurn(p, q) == On(p) = On(q) /\ WhenOf(p) = WhenOf(q) /\ p["order"] = q["order"]
LintRepository(f, files) ==
  IF f.kind # "automation" THEN {}
  ELSE When(\/ ~(Playbooks(f.payload) \subseteq IdsOf(files, "playbook"))
            \/ ~({v[2] : v \in References(Conditions(f.payload))} \subseteq IdsOf(files, "analytic")), "PAYLOAD007", "error")
         \cup When(\E g \in files \ {f} : g.kind = "automation" /\ SameTurn(f.payload, g.payload), "PAYLOAD009", "warning")

(* lint_assets: only is "all" or a kind.  A file that does not load is left  *)
(* to the run over its own kind, when it names one.                          *)
\* Mutant: a file that names no kind is of another kind too.
OfOtherKindOrNone(f, only) == only # "all" /\ (f.yaml = "mapping" => f.kind # only)
OfOtherKind(f, only) == only # "all" /\ f.yaml = "mapping" /\ f.kind \in Kinds /\ f.kind # only

LintAssets(files, only, policy) ==
  LET seen == {f \in files : ~NotDiscovered(f)}
      loaded == {f \in seen : Loads(f) /\ only \in {"all", f.kind}} IN
  [f \in seen |->
     CASE f \in loaded -> LintFile(f, policy) \cup LintRepository(f, loaded)
       [] ~Loads(f) /\ ~OfOtherKind(f, only) -> {Finding("ENVELOPE001", "error")}
       [] OTHER -> {}]

Rank == [info |-> 0, warning |-> 1, error |-> 2]
AtOrAbove(findings, threshold) == {x \in findings : Rank[x.severity] >= Rank[threshold]}
Passes(findings) == AtOrAbove(findings, "error") = {}

-----------------------------------------------------------------------------
(* Properties.                                                              *)

\* The name of a resource is read from every block that writes one, valid or
\* not: a rule whose metadata is half written is still deployed under its own
\* name.  A block that is dropped is counted and lint says that there is none
\* (parse_envelope's three branches, _emit_loose_parse_summary).
LoadedAsWritten(f) ==
  Loads(f) =>
    /\ Loaded(f).arm = Name(f.meta)
    /\ Metadata(f) = Absent /\ ~OnlyName(f) => Loaded(f).loose
    /\ Loaded(f).loose => Finding("META001", "warning") \in LintFile(f, FALSE)

\* A detection past experimental that lint lets pass, and whose metadata is
\* taken, is authored as a whole or not at all; under the strict policy, as a
\* whole (_has_partial_authoring, META002-005 and the placeholders of META008).
AuthoredAsAWhole(f, policy) ==
  Loads(f) /\ f.kind \in Detections /\ f.status # "experimental"
    /\ Metadata(f) # Absent /\ Passes(LintFile(f, policy)) =>
    /\ Populated(Metadata(f)) \in {{}, Authored}
    /\ policy => Populated(Metadata(f)) = Authored

\* The run over one kind says of the files of that kind what the run over all
\* says.  A rule's references lead to other kinds, which that run does not
\* load: for automation rules PAYLOAD007 is left out.
FilterHidesOnlyOthers(files, kind, policy) ==
  LET part == LintAssets(files, kind, policy)
      whole == LintAssets(files, "all", policy)
      kept(s) == {x \in s : kind = "automation" => x.rule # "PAYLOAD007"} IN
  \A f \in DOMAIN whole :
    IF f.kind = kind \/ f.yaml # "mapping" \/ f.kind \notin Kinds
    THEN kept(part[f]) = kept(whole[f]) ELSE part[f] = {}

\* A rule that validates and that lint lets pass is resolved without an error
\* and reaches the tenant without a reference (two walks over the conditions:
\* analytic_refs and _resolve_condition).
CleanRulesResolve(files) ==
  \A f \in {g \in files : Loads(g) /\ ~NotDiscovered(g) /\ g.kind = "automation"} :
    RuleValid(f.payload) /\ Passes(LintAssets(files, "all", FALSE)[f]) /\ RulePlanned(f.status, f.payload) = "update" =>
      LET loaded == {g \in files : Loads(g) /\ ~NotDiscovered(g)}
          sent == RuleBody(f.payload, [i \in IdsOf(loaded, "analytic") |-> i], "t") IN
      \A v \in ValuesIn(sent["conditions"]) : ~IsReference(v) /\ v[1] # "raises"

\* Lint and the models read a file alike: a rule that closes incidents and
\* validates is scoped, or lint warns of it; one that lint refuses does not
\* validate; a connector that no table knows is refused or warned of; two rules
\* that take the same turn are both warned of.
LintAgreesWithModels(files) ==
  \A f \in {g \in files : Loads(g) /\ ~NotDiscovered(g)} :
    LET said == LintAssets(files, "all", FALSE)[f] IN
    /\ f.kind = "automation" =>
         /\ RuleValid(f.payload) /\ Closes(f.payload) =>
              ScopeConditions(f.payload) # <<>> \/ Finding("PAYLOAD014", "warning") \in said
         /\ Finding("PAYLOAD014", "error") \in said => ~RuleValid(f.payload)
         /\ f.status = "production" =>
              (RulePlanned(f.status, f.payload) = "skip" <=> Finding("PAYLOAD008", "warning") \in said)
    /\ f.kind = "playbook" /\ PlaybookValid(Inlined(f)) =>
         \A c \in Range(f.payload["connections"]) :
           Api(c) \in DOMAIN ManagedIdentity \/ Finding("PAYLOAD010", "warning") \in said
=============================================================================
