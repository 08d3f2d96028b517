------------------------------- MODULE Health -------------------------------
(***************************************************************************)
(* What the tool says of its rules from the alerts they raised: `alerts    *)
(* health' and its delta, `alerts report', the daily store, `silent-rules' *)
(* and `tuning preview'.  Three programs match alerts to rules, each in    *)
(* its own way.                                                            *)
(*                                                                         *)
(* repo is a sequence of rules in the order of the files; alerts a set of  *)
(* records, each for n alike alerts of one day.  A title is a sequence of  *)
(* words, and one of two words or more has the eight characters that the   *)
(* looser matches ask for.                                                 *)
(***************************************************************************)
EXTENDS Integers, Sequences, SequencesExt, FiniteSetsExt

CONSTANT NoRule          \* the rule id of an alert that has none
LongEnough(title) == Len(title) >= 2

Sum(alerts) == MapThenSumSet(LAMBDA a : a.n, alerts)
Classed(alerts, class) == Sum({a \in alerts : a.class = class})

-----------------------------------------------------------------------------
(* rule_keys.py: the id a rule is deployed under, and its names. *)
RuleIds(r) == {IF r.arm # NoRule THEN r.arm ELSE r.id}
RuleNames(r) ==
  ({r.name} \cup IF r.asset = "defender" THEN {r.alertTitle} ELSE {}) \ {<<>>}

Holds(long, short) == \E i \in 0..Len(long) - Len(short) : SubSeq(long, i + 1, i + Len(short)) = short

(* _build_detection_alert_map: the tiers, from the surest to the loosest; in *)
(* each, the first file wins (an arm name that two files carry: the last).   *)
ByRuleId(repo, a) == {i \in DOMAIN repo : a.form = "plain" /\ a.rule \in RuleIds(repo[i])}
BySuffix(repo, a) ==
  LET named == {i \in DOMAIN repo : a.form = "suffixed" /\ a.rule # NoRule /\ repo[i].arm = a.rule} IN
  IF named = {} THEN {} ELSE {Max(named)}
ByTitle(repo, a) == {i \in DOMAIN repo : a.title \in RuleNames(repo[i])}
ByPrefix(repo, a) ==
  {i \in DOMAIN repo : LongEnough(repo[i].prefix) /\ IsPrefix(repo[i].prefix, a.title)}
BySubstring(repo, a) ==
  {i \in DOMAIN repo : \E t \in RuleNames(repo[i]) :
                         LongEnough(t) /\ (Holds(a.title, t) \/ Holds(t, a.title))}

Titled(tier, a) == IF a.title = <<>> THEN {} ELSE tier
Tiers(repo, a) ==
  SelectSeq(<<ByRuleId(repo, a), BySuffix(repo, a), Titled(ByTitle(repo, a), a),
              Titled(ByPrefix(repo, a), a), Titled(BySubstring(repo, a), a)>>, LAMBDA t : t # {})

Attributed(repo, a) == IF Tiers(repo, a) = <<>> THEN 0 ELSE Min(Head(Tiers(repo, a)))

(* The rows of a report are looked up by the id of the file. *)
AlertsOf(repo, alerts, i) == {a \in alerts : Attributed(repo, a) # 0 /\ repo[Attributed(repo, a)].id = repo[i].id}
Unmatched(repo, alerts) == Sum({a \in alerts : Attributed(repo, a) = 0})

-----------------------------------------------------------------------------
(* compute_detection_health *)
Noisy(alerts) == 100 * Classed(alerts, "fp") > 40 * Sum(alerts)

Recommendation(r, alerts) ==
  CASE r.asset = "hunting" -> "EXPECTED_SILENT"
    [] r.asset # "hunting" /\ Sum(alerts) = 0 -> "SILENT"
    [] OTHER ->
       CASE Noisy(alerts) -> "TUNE"
         [] ~Noisy(alerts) /\ Sum(alerts) > 5 /\ 2 * Classed(alerts, "undetermined") > Sum(alerts) -> "CLASSIFY"
         [] OTHER -> IF 10 * Classed(alerts, "tp") > 8 * Sum(alerts) THEN "HEALTHY" ELSE "REVIEW"

(* A volume far from the expected one is told behind the recommendation, in *)
(* the same field.                                                          *)
VolumeNote(r, alerts, days) ==
  LET n == Sum(alerts) IN
  CASE r.expected > 0 /\ n > 0 /\ 10 * n < r.expected * days -> "LOW VOLUME"
    [] r.expected > 0 /\ n > 5 * r.expected * days -> "HIGH VOLUME"
    [] OTHER -> ""
Labelled(r, alerts, days) == <<Recommendation(r, alerts), VolumeNote(r, alerts, days)>>
Plain(rec) == <<rec, "">>

HealthRows(repo, alerts, days) ==
  [i \in DOMAIN repo |->
     LET own == AlertsOf(repo, alerts, i) IN
     [id |-> repo[i].id, owner |-> repo[i].owner, alerts |-> Sum(own), fp |-> Classed(own, "fp"),
      rec |-> Labelled(repo[i], own, days)]]

(* render_health_markdown lists them, _compute_owner_summary counts them. *)
Section(rows, rec) == {rows[i].id : i \in {j \in DOMAIN rows : rows[j].rec = Plain(rec)}}
OwnerCount(rows, owner, rec) ==
  Cardinality({i \in DOMAIN rows : rows[i].owner = owner /\ rows[i].rec = Plain(rec)})

-----------------------------------------------------------------------------
(* compute_health_delta, of the last snapshot before today and the report *)
RecOf(rows, id) ==
  IF \E i \in DOMAIN rows : rows[i].id = id
  THEN rows[Max({i \in DOMAIN rows : rows[i].id = id})].rec ELSE <<"", "">>
Ids(rows) == {rows[i].id : i \in DOMAIN rows}

\* Mutant: one chain of elif: a rule that leaves TUNE is not looked at further.
DeltaChained(before, now) ==
  LET all == Ids(before) \cup Ids(now)
      Became(rec) == {id \in all : RecOf(before, id) # Plain(rec) /\ RecOf(now, id) = Plain(rec)}
      Left(rec) == {id \in all : RecOf(before, id) = Plain(rec) /\ RecOf(now, id) # Plain(rec)} IN
  [newTune |-> Became("TUNE"), resolvedTune |-> Left("TUNE"),
   newSilent |-> Became("SILENT") \ Left("TUNE"), newlyActive |-> Left("SILENT"),
   changes |-> {id \in Ids(before) \cap Ids(now) : RecOf(before, id) # RecOf(now, id)}]

Delta(before, now) ==
  LET all == Ids(before) \cup Ids(now)
      Became(rec) == {id \in all : RecOf(before, id) # Plain(rec) /\ RecOf(now, id) = Plain(rec)}
      Left(rec) == {id \in all : RecOf(before, id) = Plain(rec) /\ RecOf(now, id) # Plain(rec)} IN
  [newTune |-> Became("TUNE"), resolvedTune |-> Left("TUNE"),
   newSilent |-> Became("SILENT"), newlyActive |-> Left("SILENT"),
   changes |-> {id \in Ids(before) \cap Ids(now) : RecOf(before, id) # RecOf(now, id)}]

-----------------------------------------------------------------------------
(* compute_trend_report and build_daily_rollups, by the day of the alert *)
Spelled(a) == IF a.ruleName # <<>> THEN a.ruleName ELSE a.title
NoisiestRules(alerts) ==
  LET group == [name \in {Spelled(a) : a \in alerts} |-> {a \in alerts : Spelled(a) = name}] IN
  {name \in DOMAIN group : Sum(group[name]) >= 2 /\ Classed(group[name], "fp") > 0}

(* The daily store is built anew from the whole ledger, then cut to what its *)
(* retention keeps; a title that two files carry is given to the last.       *)
StoreRule(repo, title) ==
  LET named == {i \in DOMAIN repo : (IF repo[i].name # <<>> THEN repo[i].name ELSE <<repo[i].id>>) = title} IN
  IF named = {} THEN 0 ELSE Max(named)
DailyStore(repo, alerts, cutoff) ==
  {[day |-> a.day, title |-> a.title, rule |-> StoreRule(repo, a.title),
    count |-> Sum({b \in alerts : b.day = a.day /\ b.title = a.title})] :
     a \in {b \in alerts : b.day >= cutoff}}

-----------------------------------------------------------------------------
(* The queries of workspace_kql.py: an alert of Sentinel has a rule id; one *)
(* whose type is not that of a rule of this workspace has the whole of it.  *)
IdKey(a) == IF a.rule = NoRule THEN NoRule ELSE IF a.form = "plain" THEN a.rule ELSE "other"

(* silent_rules_query, TelemetryIndex.rows_for: the alerts of the rule's id  *)
(* and those without an id under its name; failing both, those of any id     *)
(* that bear its name.                                                       *)
OwnRows(r, alerts) ==
  {a \in alerts : IF IdKey(a) # NoRule THEN IdKey(a) \in RuleIds(r) ELSE a.title \in RuleNames(r)}
RowsFor(r, alerts) ==
  IF OwnRows(r, alerts) # {} THEN OwnRows(r, alerts)
  ELSE {a \in alerts : IdKey(a) # NoRule /\ \E b \in alerts : IdKey(b) = IdKey(a) /\ b.title \in RuleNames(r)}

(* select_rules, build_report for the production workspace *)
Selected(r) == r.asset # "hunting" /\ r.enabled /\ r.status = "production"
SilentRules(repo, alerts) == {i \in DOMAIN repo : Selected(repo[i]) /\ Sum(RowsFor(repo[i], alerts)) = 0}
ListedUnmatched(repo, alerts) ==
  alerts \ UNION {RowsFor(repo[i], alerts) : i \in {j \in DOMAIN repo : Selected(repo[j])}}

\* Mutant: an alert that has an id is not looked for by name.
ImpactById(repo, alerts, i) ==
  Sum({a \in alerts : IdKey(a) \in RuleIds(repo[i])})
    + Sum({a \in alerts : IdKey(a) = NoRule /\ a.title \in RuleNames(repo[i])})

(* suppression_impact_query, impact_by_entry: the entry that a pull request *)
(* adds for rule i, the only one.  An id that is asked for goes before a    *)
(* name.                                                                    *)
Impact(repo, alerts, i) ==
  Sum({a \in alerts : IdKey(a) \in RuleIds(repo[i])})
    + Sum({a \in alerts : IdKey(a) \notin RuleIds(repo[i]) /\ a.title \in RuleNames(repo[i])})

-----------------------------------------------------------------------------
(* Properties, of a repository and of alerts. *)

DistinctIds(repo) ==
  \A i, j \in DOMAIN repo : i # j => repo[i].id # repo[j].id /\ RuleIds(repo[i]) \cap RuleIds(repo[j]) = {}

(* Every alert is counted once, for a rule or as unmatched, and one that      *)
(* bears the id of a rule for that rule, whoever's title it bears             *)
(* (detection_health.py:148-194, 298-386).  Two files with one id, of two     *)
(* kinds, would both count it.                                                *)
AlertsCountedOnce(repo, alerts, days) ==
  LET rows == HealthRows(repo, alerts, days) IN
  DistinctIds(repo) =>
    /\ Sum(alerts) = Unmatched(repo, alerts) + FoldSeq(LAMBDA row, s : row.alerts + s, 0, rows)
    /\ \A i \in DOMAIN repo : Sum({a \in alerts : a.form = "plain" /\ a.rule \in RuleIds(repo[i])}) <= rows[i].alerts

(* A rule that raises more than four false alarms in ten stands under TUNE    *)
(* and is counted for its owner (docs/operations/alerts-reporting.md:351), as *)
(* long as its volume is what was expected: a note on the volume makes the    *)
(* label another one, and the rule disappears from both                       *)
(* (detection_health.py:346-348, 404, 454).                                   *)
NoisyRulesShown(repo, alerts, days) ==
  LET rows == HealthRows(repo, alerts, days) IN
  \A i \in DOMAIN repo :
    LET own == AlertsOf(repo, alerts, i) IN
    (repo[i].asset # "hunting" /\ own # {} /\ Noisy(own) /\ VolumeNote(repo[i], own, days) = "") =>
      /\ repo[i].id \in Section(rows, "TUNE")
      /\ OwnerCount(rows, repo[i].owner, "TUNE") > 0

(* The delta tells all that happened: with it, yesterday's lists become       *)
(* today's, and a rule that is in both reports and counts as resolved raises  *)
(* few false alarms now or has a volume note (health_snapshot.py:105-154).    *)
DeltaRebuilds(before, now) ==
  LET d == Delta(before, now) IN
  /\ Section(now, "TUNE") = (Section(before, "TUNE") \ d.resolvedTune) \cup d.newTune
  /\ Section(now, "SILENT") = (Section(before, "SILENT") \ d.newlyActive) \cup d.newSilent
  /\ (d.resolvedTune \cup d.newSilent) \cap Ids(before) \cap Ids(now) \subseteq d.changes

(* The three agree as far as they can: a rule that silent-rules sees fire is  *)
(* not SILENT in the health report unless another file claims the same alert, *)
(* and the preview of a suppression never tells of fewer alerts than          *)
(* silent-rules does (rule_keys.py:184-192, workspace_kql.py:357-379).        *)
SameTitles(alerts) == \A a, b \in alerts : IdKey(a) = IdKey(b) /\ IdKey(a) # NoRule => a.title = b.title
ViewsAgree(repo, alerts, days) ==
  SameTitles(alerts) => \A i \in DOMAIN repo :
    /\ (Selected(repo[i]) /\ i \notin SilentRules(repo, alerts)
          /\ \A a \in RowsFor(repo[i], alerts) : Attributed(repo, a) \in {0, i}) =>
         Labelled(repo[i], AlertsOf(repo, alerts, i), days)[1] # "SILENT"
    /\ Sum(RowsFor(repo[i], alerts)) <= Impact(repo, alerts, i)
=============================================================================
