------------------------------ MODULE MCOffline ------------------------------
(* The parts of the tool that compute and do not keep state, each over the  *)
(* inputs that matter to it.  An input is chosen, then looked at; the past  *)
(* of two assets is made, event by event, and then looked at.               *)
EXTENDS Doctor, Health, Payloads, Lint, AttackCoverage, StatusViews, TLC

-----------------------------------------------------------------------------
(* Conformance and doctor: an installation where all is well, for each      *)
(* identity and what it holds, with at most two things that are not.        *)

Well ==
  {[python |-> "new", imports |-> "ok", detections |-> "ok", audit |-> "ok", tenant |-> "ok",
    tenantId |-> "guid", workspaces |-> "one", subs |-> "guid", client |-> "set", az |-> "in",
    arm |-> "ok", graph |-> "ok", claim |-> "no", principal |-> "200", assignments |-> "200",
    page2 |-> "none", onPage2 |-> "write", expected |-> "some", application |-> "200",
    credentials |-> "200", subjects |-> "legacy", workspace |-> "200", onboarded |-> "200",
    perms |-> "200", groupPerms |-> "200", logic |-> "write", managed |-> "both",
    alertRules |-> "200", detectionRules |-> "200", gh |-> "there", repo |-> "ok",
    secrets |-> "all", variables |-> "all", checks |-> "some", protection |-> "required",
    rulesets |-> "required", environments |-> "200", integration |-> "reviewed",
    automation |-> "reviewed", dotenv |-> "loaded", example |-> "there", git |-> "ok",
    health |-> "rows", project |-> "there", pip |-> "works",
    identity |-> i, mode |-> m, holds |-> h, rbac |-> r] :
     i \in {"read", "write"}, m \in {"split", "single"}, h \in {"read", "write", "both"},
     r \in {"none", "rules", "all"}}

Otherwise ==
  [python |-> {"old"}, imports |-> {"broken"}, detections |-> {"none", "broken"},
   audit |-> {"none", "broken"}, tenant |-> {"missing", "invalid"}, tenantId |-> {"zero"},
   workspaces |-> {"none"}, subs |-> {"zero"}, client |-> {"unset"}, az |-> {"out"},
   arm |-> {"fail", "flaky"}, graph |-> {"fail", "flaky"}, claim |-> {"yes"},
   principal |-> {"403", "404"}, assignments |-> {"500"}, page2 |-> {"200", "500", "foreign"},
   onPage2 |-> {"read", "both"}, expected |-> {"none"}, application |-> {"403"},
   credentials |-> {"500"}, subjects |-> {"by id", "missing"},
   workspace |-> {"403", "404", "500", "error"}, onboarded |-> {"404", "error"},
   perms |-> {"403", "error"}, groupPerms |-> {"403", "error"}, logic |-> {"none"},
   managed |-> {"none", "playbook"}, alertRules |-> {"401", "500"}, detectionRules |-> {"403", "500"},
   gh |-> {"absent"}, repo |-> {"unnamed", "error"}, secrets |-> {"some", "error"},
   variables |-> {"some", "error"}, checks |-> {"none"}, protection |-> {"403", "404", "lacking"},
   rulesets |-> {"403", "lacking"}, environments |-> {"403"}, integration |-> {"absent", "open"},
   automation |-> {"open"}, dotenv |-> {"none"}, example |-> {"missing"}, git |-> {"missing"},
   health |-> {"none"}, project |-> {"missing"}, pip |-> {"fails"}, mode |-> {"invalid"}]

Faults == UNION {{<<k, v>> : v \in Otherwise[k]} : k \in DOMAIN Otherwise}
With(f, fault) == [f EXCEPT ![fault[1]] = fault[2]]

-----------------------------------------------------------------------------
(* Health and its kin: two rules, one of which may have gone since yesterday, *)
(* and the groups of alerts of today and of yesterday.                        *)

Rule(id, asset, name, arm, prefix, expected) ==
  [id |-> id, asset |-> asset, name |-> name, arm |-> arm, prefix |-> prefix, expected |-> expected,
   alertTitle |-> <<"alert", "title">>, owner |-> "team", enabled |-> TRUE, status |-> "production"]

Repositories ==
  {<<Rule("r1", "analytic", <<"odd", "sign">>, arm, <<>>, 0),
     Rule("r2", asset, name, NoRule, more[1], more[2])>> :
     arm \in {NoRule, "guid"}, asset \in {"analytic", "defender", "hunting"},
     name \in {<<"odd", "sign">>, <<"sign", "in">>, <<>>},
     more \in {<< <<>>, 0>>, << <<>>, 1>>, << <<"odd", "sign">>, 0>>}}

AlertGroups ==
  {[rule |-> rule, form |-> told[1], title |-> title, ruleName |-> <<>>, class |-> told[2], n |-> 6, day |-> 1] :
     rule \in {NoRule, "guid", "r2", "gone"},
     title \in {<<>>, <<"odd", "sign">>, <<"odd", "sign", "in">>, <<"alert", "title">>},
     told \in {<<"plain", "tp">>, <<"plain", "fp">>, <<"plain", "undetermined">>, <<"suffixed", "fp">>}}
    \cup {[rule |-> "r2", form |-> "plain", title |-> <<"odd", "sign">>, ruleName |-> <<>>, class |-> "fp",
          n |-> 1, day |-> 2]}
FewGroups ==
  {a \in AlertGroups : /\ a.class = "fp" \/ (a.rule = "r2" /\ a.title = <<>>)
                       /\ a.form = "plain" /\ a.title # <<"odd", "sign", "in">>}
Days == 1

-----------------------------------------------------------------------------
(* Queries of up to four tokens; and, to be expanded, with the snippet that   *)
(* one placeholder names, common and of a workspace.                          *)

MCStrict == {"{{a.yml}}"}
MCClimbing == {"{{../a.yml}}"}
MCLoose == {"{{a b}}"}
Tokens == {"(", ")", "]", "'", "@'", "\\", "//", "nl", "w", "take"}
Template == {"(", ")", "'", "//", "nl", "w"} \cup MCStrict \cup MCClimbing \cup MCLoose

Contents == {<<"none">>, <<"broken">>, <<>>, <<"w", "nl", "(", ")">>, <<"(", "'", ")", "'", ")", "//", "'">>, <<")">>}
Overrides ==
  {[common |-> [p \in MCStrict |-> c], ws |-> [p \in MCStrict |-> w]] :
     c \in Contents, w \in {<<"none">>, <<"broken">>, <<"w">>}}

-----------------------------------------------------------------------------
(* Files of each kind, with the fields that their kind asks for and some more; *)
(* and the rows of a watchlist.                                                *)

Values ==
  [enabled |-> <<"on", "off">>, alertRuleTemplateName |-> <<"", "t">>, grouping |-> <<"selected, by nothing">>,
   description |-> << <<>>, <<"d">> >>, tactics |-> << <<"a", "b">> >>, techniques |-> << <<"T1", "T2">> >>,
   tags |-> << <<[name |-> "x", value |-> <<"v">>]>>, <<[name |-> "tactics", value |-> <<"v">>]>> >>,
   version |-> <<"3">>, functionParameters |-> <<"", "p">>, category |-> <<"Hunting Queries">>,
   status |-> <<"enabled", "disabled", "autoDisabled">>, isEnabled |-> <<"yes", "no">>,
   sasUri |-> <<"https sig">>, rawContent |-> << <<"key", "row">> >>, skip |-> <<0>>]
ValuesOf(k) == IF k \in DOMAIN Values THEN Values[k] ELSE <<"v">>

\* What a kind asks for, and what its files may say besides.
Asked(kind, of) ==
  CASE kind = "analytic" -> RequiredFields[of] \cup {"kind"}
    [] kind = "hunting" -> {"displayName", "query"}
    [] kind = "parser" -> {"displayName", "query", "functionAlias"}
    [] kind = "connector" -> {"kind"}
    [] kind = "watchlist" -> {"displayName", "itemsSearchKey", "skip"}
    [] OTHER -> {"displayName", "queryCondition", "schedule", "detectionAction"}
May ==
  [analytic |-> {"enabled", "alertRuleTemplateName", "templateVersion", "grouping", "displayName", "query",
                 "severity", "triggerThreshold", "displayNamesFilter", "displayNamesExcludeFilter", "sourceSettings"},
   hunting |-> {"description", "tactics", "techniques", "tags", "version", "functionParameters", "category"},
   parser |-> {"description", "tags", "version", "functionParameters", "category"},
   connector |-> {"requiresManualConsent", "tenantId", "dataTypes"}, watchlist |-> {"rawContent", "sasUri", "description"},
   defender |-> {"status", "isEnabled", "description", "detectorId"}]

PayloadOf(keys, of, v) ==
  [k \in keys |-> IF k = "kind" THEN of ELSE ValuesOf(k)[IF k \in DOMAIN v THEN v[k] ELSE 1]]
Lines3 == UNION {[1..n -> {"key", "row", "blank"}] : n \in 1..4}

-----------------------------------------------------------------------------
(* Files for lint: one, with anything missing from its metadata and two things *)
(* wrong with it; and a rule next to what it refers to.                        *)

FileOf(kind, name, payload) ==
  [at |-> "detections", yaml |-> "mapping", id |-> "good", status |-> "production", sidecar |-> "none",
   kind |-> kind, name |-> name, payload |-> payload,
   meta |-> [k \in FullKeys(kind) \cup Authored \cup {"lastValidatedAt"} |-> "good"]]
Wrong ==
  {<<"description", v>> : v \in {"blank", "todo", "bad"}} \cup {<<"attackDescription", v>> : v \in {"blank", "todo"}}
    \cup {<<"lastValidatedAt", v>> : v \in {"old", "aging", "no date"}} \cup {<<"arm_name", v>> : v \in {"good", "bad"}}
    \cup {<<"references", "blank">>, <<"owner", "bad">>, <<"techniques", "blank">>, <<"unknown", "good">>,
          <<"severity", "high">>, <<"fpExpectedPerWeek", "high">>}
Absences ==
  SUBSET {"owner", "techniques", "description", "attackDescription", "falsePositives"}
    \cup {FullKeys("analytic") \cup Authored \cup {"lastValidatedAt"}}
WithMeta(f, absent, a, b) ==
  [f EXCEPT !.meta = (a[1] :> a[2]) @@ (b[1] :> b[2]) @@ [k \in DOMAIN f.meta \ absent |-> f.meta[k]]]

Action(type, of, order) ==
  [type |-> type, order |-> order, status |-> of, classification |-> of = "Closed", severity |-> FALSE,
   playbook |-> IF type = "RunPlaybook" THEN of ELSE "none", resource |-> NoTarget, tenant |-> "none"]
Actions == {<<>>, <<Action("ModifyProperties", "Closed", 1)>>, <<Action("RunPlaybook", "p1", 1)>>,
            <<Action("RunPlaybook", "p1", 1), Action("ModifyProperties", "Closed", 2)>>,
            <<Action("RunPlaybook", "p2", 1), Action("ModifyProperties", "Active", 1)>>}
Condition(prop, values, inner) == [prop |-> prop, values |-> values, inner |-> inner]
OnRule(id) == <<Condition("AlertAnalyticRuleIds", {<<"analytic", id>>}, <<>>)>>
ConditionLists == {<<>>, OnRule("a1"), <<Condition("Or", {}, OnRule("a1"))>>, <<Condition("Or", {}, OnRule("a2"))>>,
                   <<Condition("IncidentTitle", {<<"text", "t">>}, <<>>)>>}
Automations ==
  {[actions |-> a, conditions |-> c, order |-> 1] @@ e :
     a \in Actions, c \in ConditionLists,
     e \in {<<>>} \cup {("expires" :> v) : v \in {"past", "future", "bad"}} \cup {("triggersOn" :> "Alerts")}}

Connection(name, api, mode, as) == [name |-> name, api |-> api, mode |-> mode, as |-> as]
PlaybookOf(cs, roles, declares) ==
  [connections |-> cs, roles |-> roles, references |-> {"c"}, definition |-> "d", declares |-> declares]
Others ==
  {FileOf("analytic", "a1", [query |-> <<"(">>]), [FileOf("analytic", "a1", <<>>) EXCEPT !.yaml = "text"],
   FileOf("analytic", "a2", [displayName |-> "long", templateVersion |-> "v"]),
   FileOf("hunting", "h", [tactics |-> "v", query |-> <<"w">>]),
   FileOf("defender", "d", [query |-> <<FileProfile, "GlobalPrevalence">>, columns |-> {"w"}, recommendedActions |-> "null"]),
   FileOf("automation", "r2", [actions |-> <<Action("RunPlaybook", "p1", 1)>>, conditions |-> <<>>, order |-> 1]),
   [FileOf("playbook", "p1", [connections |-> <<>>]) EXCEPT !.at = "samples"],
   [FileOf("nothing known", "n", <<>>) EXCEPT !.meta = <<>>], [FileOf("analytic", "a1", <<>>) EXCEPT !.id = "bad"],
   FileOf("playbook", "p2", [connections |-> <<>>, roles |-> {}, references |-> {}, definitionFile |-> "bare"])}
    \cup {FileOf("playbook", "p1", PlaybookOf(<<Connection("c", api, "none", NoTarget)>>, roles, "none")) :
          api \in {"none", "azuresentinel", "office365", "slack"},
          roles \in {{}, {[role |-> "reader", scope |-> "workspace"]}}}
    \cup {FileOf("playbook", "p1", PlaybookOf(<<Connection("c", "azuresentinel", "valueSet", NoTarget)>>, {}, "none"))}

(* And what comes back of a rule and of a playbook: analytics deployed under   *)
(* other names, resources of other workspaces, connections of every kind.      *)

MCSlug == [n \in {"p1", "p2", "W 1", "w-1"} |-> IF n = "W 1" THEN "w-1" ELSE n]
Indexes == {[i \in {"a1", "a2"} |-> IF i = "a1" THEN n ELSE m] : n \in {"a1", "g"}, m \in {"a2", "g"}}
RunsByArm(target, tenant) == [Action("RunPlaybook", "none", 3) EXCEPT !.resource = target, !.tenant = tenant]
WithArmIds(p) ==
  {[p EXCEPT !["actions"] = Append(@, RunsByArm(<<place, n>>, tenant))] :
     place \in {"here", "there"}, n \in {"p1", "W 1"}, tenant \in {"none", "t", "other"}}
    \cup {[p EXCEPT !["conditions"] = Append(@, Condition("AlertAnalyticRuleIds", {v}, <<>>))] :
            v \in {<<place, n>> : place \in {"here", "there"}, n \in {"g", "a1", "x"}}}
AnyConnection ==
  {Connection("c", api, mode, as) : api \in {"none", "azuresentinel", "keyvault", "slack"},
     mode \in {"none", "alternative", "valueSet"}, as \in {NoTarget, <<"p1", "c">>, <<"w-1", "c">>, <<"shared", "c">>}}
SomeRoles == SUBSET {[role |-> r, scope |-> s] : r \in {"reader", "guid1", "responder"}, s \in {"workspace", "group"}}
HeldRoles == SUBSET {"guid1", "guid2"} \cup {{"unread"}}

-----------------------------------------------------------------------------
(* Two techniques, each with a sub-technique, and three retired ids; rules    *)
(* that name them in the ways that a rule can, and lists to compare with.     *)

MCTactics == {"Ex", "Cr"}
MCOtherTactics == {"Pre"}
MCFiledUnder == [i \in {"P1", "P2", "S1", "S2", "O1", "O2", "D"} |-> IF i \in {"P1", "S1"} THEN {"Ex"} ELSE {"Ex", "Cr"}]
MCParentOf == [i \in {"S1", "S2", "O2"} |-> IF i = "S1" THEN "P1" ELSE "P2"]
MCSpelt == [i \in {"P1", "P2", "S1", "S2", "O1", "O2", "D", "X", "s1", "o1"} |->
              CASE i = "s1" -> "S1" [] i = "o1" -> "O1" [] OTHER -> i]
MCTacticNamed == [t \in {"Ex", "Cr", "Pre", "ex"} |-> IF t = "ex" THEN "Ex" ELSE t]
MCStripped == [n \in {"A", "A ", "B", ""} |-> IF n = "A " THEN "A" ELSE n]

AttackIds == DOMAIN MCFiledUnder
Release(retired, by) ==
  [state |-> [i \in AttackIds |-> IF i \in retired THEN IF i \in DOMAIN by THEN "revoked" ELSE "deprecated" ELSE "current"],
   by |-> by]
Latest == MatrixOf(Release({"O1", "O2", "D"}, ("O1" :> "O2") @@ ("O2" :> "S2")))

AttackRule(asset, status, switch, meta, metaTactics, metaIds, tactics, ids) ==
  [id |-> "r", asset |-> asset, status |-> status, switch |-> switch, name |-> "A", cohort |-> "c", meta |-> meta,
   metaTactics |-> metaTactics, metaIds |-> metaIds, tactics |-> tactics,
   category |-> IF "Ex" \in tactics THEN "ex" ELSE "Malware", ids |-> ids, subIds |-> ids \cap {"S2"},
   defensive |-> {"F1"}]
TaggedRules ==
  {AttackRule(asset, status, switch, meta, mt, mi, t, i) :
     asset \in {"analytic", "hunting", "defender"}, status \in {"production", "test", "deprecated"},
     switch \in {"on", "off", "unset"}, meta \in {"none", "valid", "partial"},
     mt \in {{}, {"Ex"}, {"Cr", "ex"}}, mi \in {{}, {"S1"}, {"o1", "P2"}, {"junk", "D"}},
     t \in {{}, {"Ex"}}, i \in {{}, {"P1"}, {"S2", "X"}, {"O1"}}}
SecondRules ==
  {[AttackRule("analytic", "production", "on", "valid", {"Cr"}, ids, {}, {"S2"}) EXCEPT !.id = "s", !.name = name] :
     ids \in {{"P2"}, {"P1", "P2"}}, name \in {"A", "A ", "B", ""}}
FewTagged == {r \in TaggedRules : r.switch = "on" /\ r.status = "production"}
Scopes == {[productionOnly |-> p, hunting |-> h] : p, h \in BOOLEAN}
Reference(id, tactics) == [id |-> id, tactics |-> tactics]
Defences == {[id |-> "F1", tactics |-> {"Model"}], [id |-> "F2", tactics |-> {}]}
Fired == {[id |-> "s1", name |-> "A"], [id |-> "P1", name |-> "alert"], [id |-> "S2", name |-> ""]}

MCAssets == {"r", "k"}
MaxRecords == 3   \* bound: records of the trail

-----------------------------------------------------------------------------
VARIABLES subject, input, seen
vars == <<subject, input, seen>>

Init ==
  /\ seen = FALSE
  /\ \/ /\ subject = "tags"
        /\ \E r \in FewTagged, i \in {"P1", "O1", "O2", "S2", "p1"}, j \in {"P2", "S2", "D"}, t \in {{}, {"Ex"}}, curated \in BOOLEAN :
             input = [rule |-> r, list |-> <<Reference(i, t), Reference(j, {"Cr"})>>, curated |-> curated]
     \/ /\ subject = "releases"
        /\ \E gone \in SUBSET {"O1", "O2", "D"}, more \in kSubset(1, AttackIds) \cup kSubset(2, AttackIds) :
             \E by \in [gone \ {"D"} -> {"O1", "O2", "S2", "P2"}], late \in [more \ (gone \cup {"D"}) -> {"O1", "S2", "P1"}] :
               input = [before |-> Release(gone, by), after |-> Release(gone \cup more, late @@ by)]
     \/ /\ subject = "file"
        /\ \E kind \in DOMAIN May, status \in {"experimental", "production", "deprecated"} :
             \E of \in IF kind = "analytic" THEN DOMAIN RequiredFields ELSE {"k"}, more \in SUBSET May[kind] :
             LET keys == Asked(kind, of) \cup more
                 open == {k \in keys : Len(ValuesOf(k)) > 1} IN
             \E v \in {w \in [open -> 1..3] : \A k \in open : w[k] <= Len(ValuesOf(k))} :
               input = [kind |-> kind, name |-> "v", status |-> status, payload |-> PayloadOf(keys, of, v)]
     \/ /\ subject = "rows"
        /\ \E raw \in Lines3, skip \in 0..2 : input = [raw |-> raw, skip |-> skip]
     \/ /\ subject = "rule"
        /\ \E p \in Automations, index \in Indexes, tenant \in {"t", "none"} : \E q \in {p} \cup WithArmIds(p) :
             input = [payload |-> q, index |-> index, tenant |-> tenant]
     \/ /\ subject = "playbook"
        /\ \E c, d \in AnyConnection, declares \in {"none", "canonical", "own"},
              arm \in {"none", "p1", "p2", "w-1", "W 1"}, n \in 1..2 :
             input = [arm |-> arm, payload |-> PlaybookOf(SubSeq(<<c, [d EXCEPT !.name = "keyvault"]>>, 1, n), {}, declares)]
     \/ /\ subject = "roles"
        /\ \E roles \in SomeRoles, a, b \in HeldRoles : input = [roles |-> roles, held |-> [workspace |-> a, group |-> b]]
     \/ /\ subject = "metadata"
        /\ \E kind \in {"analytic", "automation"}, status \in {"experimental", "production"},
              absent \in Absences, a, b \in Wrong :
             input = [WithMeta(FileOf(kind, "f", [actions |-> <<>>]), absent, a, b) EXCEPT !.status = status]
     \/ /\ subject = "two reports"
        /\ \E repo \in Repositories, n \in 1..2, a, b \in FewGroups :
             input = [before |-> HealthRows(repo, {a}, Days), now |-> HealthRows(SubSeq(repo, 1, n), {b}, Days)]
     \/ /\ subject = "template"
        /\ \E n \in 1..4, overrides \in Overrides : \E q \in [1..n -> Template] :
             /\ Range(q) \cap (MCStrict \cup MCClimbing) # {}
             /\ input = [text |-> q, overrides |-> overrides]
     \/ /\ subject = "installation"
        /\ \E f \in Well, a, b \in Faults : input = With(With(f, a), b)
     \/ /\ subject = "alerts"
        /\ \E repo \in Repositories, a \in AlertGroups, b \in FewGroups :
             input = [repo |-> repo, alerts |-> {a, b}]
     \/ /\ subject = "coverage"
        /\ \E r \in TaggedRules, s \in SecondRules, scope \in Scopes :
             /\ s.name # "B" => r.asset = "analytic" /\ r.switch = "on" /\ scope.productionOnly
             /\ scope.hunting => r.asset = "hunting"
             /\ r.meta = "none" => r.metaTactics = {} /\ r.metaIds = {}
             /\ input = [repo |-> {r, s}, scope |-> scope]
     \/ /\ subject = "query"
        /\ \E n \in 0..4 : input \in [1..n -> Tokens]
     \/ /\ subject = "repository"
        /\ \E p \in Automations, g, h \in Others, status \in {"experimental", "production"} :
             /\ status = "experimental" => g = h
             /\ input = {[FileOf("automation", "r1", p) EXCEPT !.status = status], g, h}
     \/ subject = "past" /\ input = Start
Look == ~seen /\ seen' = TRUE /\ UNCHANGED <<subject, input>>
Happen ==
  /\ subject = "past" /\ ~seen /\ Len(input.trail) < MaxRecords
  /\ input' \in NextWorlds(input) /\ UNCHANGED <<subject, seen>>
Next == Look \/ Happen
Spec == Init /\ [][Next]_vars

-----------------------------------------------------------------------------
(* A report of conformance or of doctor that has no red row means what it says, *)
(* the two agree where they look at the same thing, and what doctor proposes    *)
(* removes what it complained of (conformance.py:1, doctor.py:1); and the page  *)
(* of deployments, with the views beside it, tells what last became of a rule   *)
(* (deployments.py:74).                                                         *)
ChecksMeanWhatTheySay ==
  /\ seen /\ subject = "installation" => GreenMeansSo(input) /\ DoctorAgrees(input) /\ FixesHold(input)
  /\ seen /\ subject = "past" => PageTellsTheLast(input) /\ ViewsOfStatusAgree(input) /\ AdoptionTellsNoLie(input)

(* Every alert of the window is told once, in one row of the health report; the *)
(* other views of the same alerts, that match them to rules by code of their    *)
(* own, tell no other story; and two reports and their delta make a third.      *)
AlertsAccountedFor ==
  /\ seen /\ subject = "alerts" =>
       /\ AlertsCountedOnce(input.repo, input.alerts, Days)
       /\ NoisyRulesShown(input.repo, input.alerts, Days)
       /\ ViewsAgree(input.repo, input.alerts, Days)
  /\ seen /\ subject = "two reports" => DeltaRebuilds(input.before, input.now)

(* Lint judges what apply will do: a query by its brackets and not by its text, *)
(* a template by what it expands to, a file by what the loader makes of it, a   *)
(* rule by the references that apply resolves.                                  *)
LintSeesWhatApplySees ==
  /\ seen /\ subject = "query" => BracketsJudged(input) /\ (Len(input) <= 3 => \A t \in Tokens : InertText(input, t))
  /\ seen /\ subject = "template" =>
       \A w \in {"common", "ws"} : CleanTextExpandsClean(input.overrides, input.text, w)
  /\ seen /\ subject = "metadata" =>
       LoadedAsWritten(input) /\ \A policy \in BOOLEAN : AuthoredAsAWhole(input, policy)
  /\ seen /\ subject = "repository" =>
       /\ CleanRulesResolve(input) /\ LintAgreesWithModels(input)
       /\ \A kind \in Kinds : FilterHidesOnlyOthers(input, kind, TRUE)

(* What a file deploys comes back as a file that deploys the same: for payloads *)
(* of every kind, and for the references, connections and roles of the assets   *)
(* that support the rules.                                                      *)
RoundTrips ==
  /\ seen /\ subject = "file" => ImportsSettle(input) /\ VerifiesItsOwn(input)
  /\ seen /\ subject = "rows" => RowsCounted(input.raw, input.skip)
  /\ seen /\ subject = "rule" => RuleComesBack(input.payload, input.index, input.tenant)
  /\ seen /\ subject = "playbook" => PlaybookComesBack("p1", input.arm, input.payload)
  /\ seen /\ subject = "roles" => RolesSaidAreHeld(input.roles, input.held)

(* A rule that names a technique, under whatever id it once had, is counted for *)
(* it in every view of the coverage, once, and a new release of ATT&CK takes no *)
(* tag away (matrix.py:66).                                                     *)
CoverageTold ==
  /\ seen /\ subject = "coverage" =>
       /\ WholeMatrix(Latest) => ViewsOfCoverageAgree(Latest, input.repo, input.scope, Defences)
       /\ DeployedScoresOnce(Latest, Counting(input.repo, input.scope), Fired)
  /\ seen /\ subject = "tags" =>
       TagsNeverVanish(Latest, input.rule) /\ NoFalseGap(Latest, {input.rule}, input.list, input.curated)
  /\ seen /\ subject = "releases" /\ LaterRelease(input.before, input.after) =>
       RefreshKeepsTags(input.before, input.after)
=============================================================================
