---------------------------- MODULE SupportAssets ----------------------------
(***************************************************************************)
(* Automation rules and playbooks as files: which payloads validate, the    *)
(* body that a payload becomes, the file that a collected resource becomes. *)
(* The requests that carry them are in Siblings.                            *)
(*                                                                         *)
(* A payload is a function from the keys it writes.  A condition of a rule  *)
(* is [prop, values, inner]; a value is a pair: <<"analytic", id>> is the   *)
(* reference `analytic:id', <<"here", name>> and <<"there", name>> are ARM  *)
(* ids in the own workspace or group and elsewhere, <<"text", t>> the rest. *)
(***************************************************************************)
EXTENDS Integers, Sequences, SequencesExt, FiniteSetsExt

CONSTANT Slug          \* displayname_slug, of the names of workflows

Has(f, k) == k \in DOMAIN f
IsIn(f, k, values) == k \in DOMAIN f /\ f[k] \in values

-----------------------------------------------------------------------------
(* Automation rules: validation and plan.                                   *)

AnalyticProperties == {"IncidentRelatedAnalyticRuleIds", "AlertAnalyticRuleIds"}
ScopeProperties == AnalyticProperties \cup {"IncidentCustomDetectionRuleIds"}
IsReference(v) == v[1] = "analytic"
On(p) == IF Has(p, "triggersOn") THEN p["triggersOn"] ELSE "Incidents"
WhenOf(p) == IF Has(p, "triggersWhen") THEN p["triggersWhen"] ELSE "Created"
Conditions(p) == IF Has(p, "conditions") THEN p["conditions"] ELSE <<>>

Closes(p) == \E a \in Range(p["actions"]) : a.type = "ModifyProperties" /\ a.status = "Closed"
ScopeConditions(p) == SelectSeq(Conditions(p), LAMBDA c : c.prop \in ScopeProperties)

(* An action runs a playbook that a file names, or a workflow by its ARM id. *)
NoTarget == <<"none">>
ActionValid(a) ==
  CASE a.type = "ModifyProperties" -> /\ (a.status = "Closed") = a.classification
                                      /\ a.status # "none" \/ a.severity
    [] a.type = "RunPlaybook" -> (a.playbook # "none") # (a.resource # NoTarget) /\ a.resource # <<"malformed">>
    [] OTHER -> TRUE
RuleValid(p) ==
  /\ p["actions"] # <<>> /\ \A a \in Range(p["actions"]) : ActionValid(a)
  /\ \A i, j \in DOMAIN p["actions"] : p["actions"][i].order = p["actions"][j].order => i = j
  /\ Has(p, "expires") => p["expires"] \in {"past", "future"}
  /\ On(p) = "Alerts" => WhenOf(p) = "Created" /\ \A a \in Range(p["actions"]) : a.type = "RunPlaybook"
  /\ Closes(p) => Conditions(p) # <<>>

RulePlanned(status, p) ==
  IF status \in {"experimental", "deprecated"} \/ IsIn(p, "expires", {"past"}) THEN "skip" ELSE "update"

(* analytic_refs and playbook_refs. *)
\* Mutant: the conditions inside a condition are not walked.
FlatReferences(cs) ==
  UNION {{v \in c.values : IsReference(v)} : c \in {d \in Range(cs) : d.prop \in AnalyticProperties}}
RECURSIVE References(_)
References(cs) ==
  UNION {(IF c.prop \in AnalyticProperties THEN {v \in c.values : IsReference(v)} ELSE {}) \cup References(c.inner) :
         c \in Range(cs)}
Playbooks(p) ==
  {a.playbook : a \in {b \in Range(p["actions"]) : b.type = "RunPlaybook" /\ b.playbook # "none"}}

-----------------------------------------------------------------------------
(* Automation rules: body and envelope.  index maps the ids of the analytics *)
(* that load to the names they are deployed under.                           *)

RECURSIVE ValuesIn(_)
ValuesIn(cs) == UNION {c.values \cup ValuesIn(c.inner) : c \in Range(cs)}
RECURSIVE OverValues(_, _)
OverValues(cs, map) ==
  [i \in DOMAIN cs |->
     [prop |-> cs[i].prop, inner |-> OverValues(cs[i].inner, map),
      values |-> IF cs[i].prop \in AnalyticProperties THEN {map[v] : v \in cs[i].values} ELSE cs[i].values]]

ArmIdOf(index, v) ==
  CASE ~IsReference(v) -> v
    [] IsReference(v) /\ v[2] \in DOMAIN index -> <<"here", index[v[2]]>>
    [] OTHER -> <<"raises", v[2]>>
Sent(a, tenant) ==
  IF a.type # "RunPlaybook" \/ a.playbook = "none" THEN a
  ELSE [a EXCEPT !.playbook = "none", !.resource = <<"here", a.playbook>>, !.tenant = IF @ = "none" THEN tenant ELSE @]
RuleBody(p, index, tenant) ==
  ("conditions" :> OverValues(Conditions(p), [v \in ValuesIn(Conditions(p)) |-> ArmIdOf(index, v)]))
    @@ ("actions" :> [i \in DOMAIN p["actions"] |-> Sent(p["actions"][i], tenant)]) @@ p

\* Mutant: an id of another workspace is taken for one of the own.
ReferenceOfAny(index, v) ==
  LET ids == {i \in DOMAIN index : index[i] = v[2]} IN IF ids = {} THEN v ELSE <<"analytic", CHOOSE i \in ids : TRUE>>
ReferenceOf(index, v) ==
  LET ids == {i \in DOMAIN index : v = <<"here", index[i]>>} IN
  IF ids = {} THEN v ELSE <<"analytic", CHOOSE i \in ids : TRUE>>
Back(a, tenant) ==
  IF a.type # "RunPlaybook" \/ a.resource[1] # "here" THEN a
  ELSE [a EXCEPT !.resource = NoTarget, !.playbook = Slug[a.resource[2]], !.tenant = IF @ = tenant THEN "none" ELSE @]
RuleEnvelope(body, index, tenant) ==
  [status |-> IF IsIn(body, "expires", {"past"}) THEN "deprecated" ELSE "production",
   payload |-> ("conditions" :> OverValues(body["conditions"], [v \in ValuesIn(body["conditions"]) |-> ReferenceOf(index, v)]))
                 @@ ("actions" :> [i \in DOMAIN body["actions"] |-> Back(body["actions"][i], tenant)]) @@ body]

(* _automation_projection: sorted, since ARM may give lists back in another  *)
(* order.                                                                    *)
Tally(s) == [x \in Range(s) |-> Cardinality({i \in DOMAIN s : s[i] = x})]
RuleProjection(b) ==
  [order |-> b["order"], on |-> On(b), when |-> WhenOf(b), expires |-> Has(b, "expires"),
   types |-> Tally([i \in DOMAIN b["actions"] |-> b["actions"][i].type]),
   runs |-> Tally([i \in DOMAIN b["actions"] |-> b["actions"][i].resource]),
   conditions |-> Tally([i \in DOMAIN b["conditions"] |-> b["conditions"][i].prop])]
Returned(b) == [b EXCEPT !["actions"] = Reverse(@), !["conditions"] = Reverse(@)]

-----------------------------------------------------------------------------
(* Playbooks: their connections, the roles they declare, their definition,   *)
(* in which the parameter $connections is declared or not.                   *)

OAuthOnly == {"office365"}
ManagedIdentity == [azuresentinel |-> "alternative", keyvault |-> "valueSet"]
Api(c) == IF c.api = "none" THEN c.name ELSE c.api
ConnectionValid(c) == Api(c) \notin OAuthOnly /\ (c.mode # "none" \/ Api(c) \in DOMAIN ManagedIdentity)
AuthMode(c) == IF c.mode # "none" THEN c.mode ELSE ManagedIdentity[Api(c)]

WellKnown == [reader |-> "guid1", responder |-> "guid2"]
RoleValid(r) ==
  /\ r.role \in DOMAIN WellKnown \cup Range(WellKnown)
  /\ r.scope \in {"workspace", "group", "/subscriptions/"}
RoleId(r) == IF r.role \in DOMAIN WellKnown THEN WellKnown[r.role] ELSE r.role

PlaybookValid(p) ==
  /\ Has(p, "definition")
  /\ \A c \in Range(p["connections"]) : ConnectionValid(c)
  /\ \A i, j \in DOMAIN p["connections"] : p["connections"][i].name = p["connections"][j].name => i = j
  /\ \A r \in p["roles"] : RoleValid(r)
  /\ p["references"] \subseteq {c.name : c \in Range(p["connections"])}

DefaultName(id, c) == <<id, c.name>>
WorkflowBody(id, p) ==
  [declares |-> IF p["connections"] # <<>> /\ p["declares"] = "none" THEN "canonical" ELSE p["declares"],
   references |-> p["references"],
   uses |-> [i \in DOMAIN p["connections"] |->
               LET c == p["connections"][i] IN
               [name |-> c.name, api |-> Api(c), mode |-> AuthMode(c),
                arm |-> IF c.as = NoTarget THEN DefaultName(id, c) ELSE c.as]]]

\* Mutant: the name of a connection is not written.
ConnectionBackUnnamed(workflow, c) ==
  [name |-> c.name, api |-> IF c.api = c.name THEN "none" ELSE c.api, mode |-> "none", as |-> NoTarget]
(* connections_from_remote; a connection that has the default name is       *)
(* written without it, and what its authentication is is not written.       *)
ConnectionBack(workflow, c) ==
  [name |-> c.name, api |-> IF c.api = c.name THEN "none" ELSE c.api, mode |-> "none",
   as |-> IF c.arm = DefaultName(workflow, c) THEN NoTarget ELSE c.arm]
PlaybookEnvelope(workflow, b) ==
  [id |-> Slug[workflow], arm |-> workflow, status |-> "production",
   payload |-> [connections |-> [i \in DOMAIN b.uses |-> ConnectionBack(workflow, b.uses[i])], definition |-> "d",
                declares |-> IF b.declares = "canonical" THEN "none" ELSE b.declares,
                roles |-> {}, references |-> b.references]]

(* _verify_role_assignments and what apply says then; held maps a scope to   *)
(* the roles that the identity of the playbook holds there, or "unread".     *)
\* Mutant: what could not be read is taken for granted.
RolesSaidTrusting(roles, held) ==
  IF \E r \in roles : held[r.scope] # {"unread"} /\ RoleId(r) \notin held[r.scope] THEN "missing" ELSE "present"
RolesSaid(roles, held) ==
  CASE \E r \in roles : held[r.scope] # {"unread"} /\ RoleId(r) \notin held[r.scope] -> "missing"
    [] (\A r \in roles : held[r.scope] # {"unread"} => RoleId(r) \in held[r.scope])
         /\ \E r \in roles : held[r.scope] = {"unread"} -> "unverified"
    [] OTHER -> IF roles = {} THEN "nothing" ELSE "present"

-----------------------------------------------------------------------------
(* Properties.                                                              *)

WithTenant(a, tenant) ==
  IF a.type = "RunPlaybook" /\ a.resource[1] = "here" /\ a.tenant = "none" THEN [a EXCEPT !.tenant = tenant] ELSE a

\* A rule that is deployed is verified whatever the order that ARM returns it
\* in, and its collected file is valid, is planned like the first, would send
\* what the tenant holds, and names by reference every rule that has a file
\* (to_automation_rule_arm_body against to_envelope).  Workflows outside the
\* slug alphabet come back under another name; one that the file names by its
\* ARM id and without a tenant gets the own tenant.
RuleComesBack(p, index, tenant) ==
  LET body == RuleBody(p, index, tenant)
      file == RuleEnvelope(Returned(body), index, tenant) IN
  RuleValid(p) /\ (\A v \in ValuesIn(body["conditions"]) : v[1] # "raises")
    /\ (\A a \in Range(body["actions"]) : a.resource[1] = "here" => Slug[a.resource[2]] = a.resource[2]) =>
    /\ RuleProjection(Returned(body)) = RuleProjection(body)
    /\ RuleValid(file.payload) /\ RulePlanned(file.status, file.payload) = RulePlanned("production", p)
    /\ RuleBody(file.payload, index, tenant) =
         [Returned(body) EXCEPT !["actions"] = [i \in DOMAIN @ |-> WithTenant(@[i], tenant)]]
    /\ \A c \in Range(file.payload["conditions"]) : c.prop \in AnalyticProperties =>
         \A v \in c.values : v[1] = "here" => v[2] \notin Range(index)

\* A playbook comes back as a file that is valid and deploys the same workflow
\* over the same connections, whatever name it was deployed under, as long as
\* its connections authenticate as their connectors do (WorkflowBody against
\* PlaybookEnvelope: the default name of a connection is made of the id of the
\* file on the way out, of the name of the workflow on the way in).
PlaybookComesBack(id, arm, p) ==
  LET workflow == IF arm = "none" THEN id ELSE arm
      file == PlaybookEnvelope(workflow, WorkflowBody(id, p)) IN
  PlaybookValid(p) /\ Slug[workflow] = workflow
    /\ (\A c \in Range(p["connections"]) :
          Api(c) \in DOMAIN ManagedIdentity /\ AuthMode(c) = ManagedIdentity[Api(c)]) =>
    /\ PlaybookValid(file.payload)
    /\ WorkflowBody(file.id, file.payload) = WorkflowBody(id, p)

\* apply says that the declared roles are there only when they are.
RolesSaidAreHeld(roles, held) ==
  RolesSaid(roles, held) = "present" => \A r \in roles : RoleId(r) \in held[r.scope]
=============================================================================
