---------------------------- MODULE Conformance ----------------------------
(***************************************************************************)
(* `contentops conformance': seven layers of read-only checks of an        *)
(* installation, each a row with a status; the report passes when no row   *)
(* failed.  What a run meets is a record f of facts, one string a field:   *)
(* what the machine, Entra, Azure and GitHub hold, and what they answer    *)
(* ("200", "403", ..., "error" for a call that raised).  A call of L4 that *)
(* raises ends the command with a traceback, and is left out.              *)
(***************************************************************************)
EXTENDS Naturals, FiniteSets

Row(layer, name, status) == {[layer |-> layer, name |-> name, status |-> status]}
Verdict(ok) == IF ok THEN "PASS" ELSE "FAIL"

(* load_config, then apply_identity_profile: an unknown identity_mode counts *)
(* as split, and the read identity of a split pair must lack the write grants. *)
Mode(f) == IF f.mode = "single" THEN "single" ELSE "split"
Profile(f) ==
  IF f.identity = "read" /\ Mode(f) = "split"
  THEN [required |-> "read", forbidden |-> {"write"}, write |-> FALSE]
  ELSE [required |-> "write", forbidden |-> {}, write |-> TRUE]

-----------------------------------------------------------------------------
(* L1 and L2: this machine and tenant.yml. *)

LocalRows(f) ==
  Row("L1", "python_version", Verdict(f.python = "new"))
    \cup Row("L1", "package_import", Verdict(f.imports = "ok"))
    \cup Row("L1", "envelopes_parse",
             IF f.detections = "none" THEN "SKIP" ELSE Verdict(f.detections = "ok"))
    \cup Row("L1", "audit_chain", IF f.audit = "none" THEN "SKIP" ELSE Verdict(f.audit = "ok"))
    \cup IF f.mode = "invalid" THEN Row("L1", "config_parse", "INFO") ELSE {}

AuthEnv(f) == CASE f.client = "set" -> "PASS" [] f.client # "set" /\ f.az = "in" -> "INFO" [] OTHER -> "FAIL"

TenantRows(f) ==
  CASE f.tenant = "missing" -> Row("L2", "tenant_yml_present", "FAIL")
    [] f.tenant = "invalid" -> Row("L2", "tenant_yml_parse", "FAIL")
    [] OTHER ->
         Row("L2", "tenant_yml_parse", "PASS")
           \cup Row("L2", "tenant_id_shape", Verdict(f.tenantId = "guid"))
           \cup Row("L2", "workspace_sub_ids",
                    CASE f.workspaces = "none" -> "INFO" [] OTHER -> Verdict(f.subs = "guid"))
           \cup Row("L2", "auth_env", AuthEnv(f))

-----------------------------------------------------------------------------
(* L3: both tokens are acquired once to see whether it works at all, and then *)
(* each again.                                                                *)
Acquired(f) == f.arm # "fail" /\ f.graph # "fail"
ArmToken(f) == Acquired(f) /\ f.arm = "ok"
GraphToken(f) == Acquired(f) /\ f.graph = "ok"

TokenRows(f) ==
  IF ~Acquired(f) THEN Row("L3", "token_acquisition", "FAIL")
  ELSE Row("L3", "arm_token", Verdict(ArmToken(f))) \cup Row("L3", "graph_token", Verdict(GraphToken(f)))

-----------------------------------------------------------------------------
(* L4.  The roles come from the token's claim, or else from the assignments *)
(* of the service principal, page by page; a page that cannot be read ends  *)
(* the list without a word.                                                 *)
Held(f) == {r \in {"read", "write"} : f.holds \in {r, "both"}}
SeenRoles(f) ==
  IF f.claim = "yes" \/ f.page2 \in {"none", "200"} THEN Held(f)
  ELSE Held(f) \ (IF f.onPage2 = "both" THEN {"read", "write"} ELSE {f.onPage2})

RoleRows(f) ==
  Row("L4", "app_role_assignments", Verdict(Profile(f).required \in SeenRoles(f)))
    \cup IF Profile(f).forbidden = {} THEN {}
         ELSE Row("L4", "least_privilege", Verdict(Profile(f).forbidden \cap SeenRoles(f) = {}))

AssignmentRows(f) ==
  IF f.assignments # "200" THEN Row("L4", "app_role_assignments", "FAIL")
  ELSE RoleRows(f)
         \cup IF f.page2 = "foreign" THEN Row("L4", "app_role_assignments_paging", "FAIL") ELSE {}

(* A subject counts in its legacy and in its ID-based form (canonical_subject). *)
FederationStatus(f) ==
  CASE f.expected = "none" -> "SKIP"
    [] f.expected # "none" /\ f.application # "200" -> "SKIP"
    [] OTHER -> Verdict(f.credentials = "200" /\ f.subjects \in {"legacy", "by id"})

GraphRows(f, token) ==
  CASE ~token \/ f.client # "set" -> Row("L4", "graph_perms", "SKIP")
    [] token /\ f.client = "set" /\ f.claim = "yes" -> RoleRows(f)
    [] OTHER ->
         CASE f.principal = "200" ->
                Row("L4", "service_principal", "PASS") \cup AssignmentRows(f)
                  \cup Row("L4", "federated_credentials", FederationStatus(f))
           [] f.principal = "403" -> Row("L4", "service_principal", "SKIP")
           [] OTHER -> Row("L4", "service_principal", "FAIL")

-----------------------------------------------------------------------------
(* L5, for the one workspace of f. *)

Managed(kind, f) == f.managed \in {kind, "both"}
Soft(kind, f) == IF Managed(kind, f) THEN "FAIL" ELSE "INFO"

(* _check_support_asset_rbac *)
SupportRows(f) ==
  IF ~Profile(f).write THEN {}
  ELSE Row("L5", "asset_modes", "INFO")
         \cup Row("L5", "rbac_automation_write",
                  IF f.rbac = "all" THEN "PASS" ELSE Soft("automation", f))
         \cup Row("L5", "rbac_playbook_write",
                  CASE f.groupPerms = "error" -> "FAIL"
                    [] f.groupPerms = "403" -> Soft("playbook", f)
                    [] OTHER -> IF f.logic = "write" THEN "PASS" ELSE Soft("playbook", f))
         \cup IF f.groupPerms = "200" THEN Row("L5", "sentinel_automation_contributor", "INFO") ELSE {}

\* Mutant: a read identity that can write is only worth a note.
PermissionRowsLenient(f) ==
  IF f.perms # "200" THEN Row("L5", "rbac_write", "FAIL")
  ELSE Row("L5", "rbac_write", IF Profile(f).write THEN Verdict(f.rbac # "none") ELSE "INFO")
         \cup SupportRows(f)

(* alertRules/write must be there for the one identity, and not for the other. *)
PermissionRows(f) ==
  IF f.perms # "200" THEN Row("L5", "rbac_write", "FAIL")
  ELSE Row("L5", "rbac_write", Verdict((f.rbac # "none") = Profile(f).write)) \cup SupportRows(f)

WorkspaceRows(f) ==
  Row("L5", "workspace", Verdict(f.workspace = "200"))
    \cup CASE f.workspace \in {"error", "500"} \/ f.onboarded = "error" -> {}
           [] OTHER ->
                Row("L5", "sentinel_onboarded", Verdict(f.onboarded = "200"))
                  \cup IF f.workspace = "200" THEN PermissionRows(f) ELSE {}

RbacRows(f, token) ==
  CASE ~token \/ f.tenant # "ok" -> Row("L5", "azure_rbac", "SKIP")
    [] token /\ f.tenant = "ok" /\ f.workspaces = "none" -> Row("L5", "azure_rbac", "INFO")
    [] OTHER -> WorkspaceRows(f)

-----------------------------------------------------------------------------
(* L6: the two listings the tool lives on. *)
ReachRows(f, arm, graph) ==
  IF ~arm /\ ~graph THEN Row("L6", "functional_reach", "SKIP")
  ELSE (IF arm /\ f.tenant = "ok" /\ f.workspaces = "one"
        THEN Row("L6", "list_alertRules", Verdict(f.alertRules = "200")) ELSE {})
         \cup IF graph THEN Row("L6", "list_detectionRules", Verdict(f.detectionRules = "200")) ELSE {}

-----------------------------------------------------------------------------
(* L7: GitHub, by way of the gh CLI. *)

(* The names are pooled from what could be read of secrets and variables. *)
CredentialStatus(f) ==
  IF f.secrets = "error" /\ f.variables = "error" THEN "SKIP"
  ELSE Verdict(f.secrets = "all" /\ f.variables = "all")

(* _check_branch_rulesets, where classic protection is not there. *)
RulesetStatus(f) ==
  CASE f.rulesets = "403" -> "WARN" [] OTHER -> Verdict(f.rulesets = "required")
ProtectionStatus(f) ==
  CASE f.checks = "none" -> "SKIP"
    [] f.checks # "none" /\ f.protection = "403" -> "SKIP"
    [] f.checks # "none" /\ f.protection = "404" -> RulesetStatus(f)
    [] OTHER -> Verdict(f.protection = "required")

(* _check_pr_environments *)
EnvironmentStatus(name, f) ==
  CASE f[name] = "absent" -> "SKIP"
    [] f[name] = "reviewed" -> "PASS"
    [] OTHER -> IF name = "automation" /\ Mode(f) = "split" THEN "INFO" ELSE "WARN"
EnvironmentRows(f) ==
  IF f.environments # "200" THEN Row("L7", "environment_protection", "SKIP")
  ELSE UNION {Row("L7", n, EnvironmentStatus(n, f)) : n \in {"integration", "automation"}}

GitHubRows(f) ==
  CASE f.gh = "absent" -> Row("L7", "gh_cli", "SKIP")
    [] f.gh # "absent" /\ f.repo = "unnamed" -> Row("L7", "github_repo", "SKIP")
    [] f.gh # "absent" /\ f.repo = "error" -> Row("L7", "github_repo", "FAIL")
    [] OTHER -> Row("L7", "github_repo", "PASS")
                  \cup Row("L7", "github_credentials", CredentialStatus(f))
                  \cup Row("L7", "branch_protection", ProtectionStatus(f))
                  \cup EnvironmentRows(f)

-----------------------------------------------------------------------------
(* run_conformance: the tokens exist only when L3 is in scope. *)
Report(f, scope) ==
  LET arm == "L3" \in scope /\ ArmToken(f)
      graph == "L3" \in scope /\ GraphToken(f) IN
  UNION {CASE l = "L1" -> LocalRows(f) [] l = "L2" -> TenantRows(f) [] l = "L3" -> TokenRows(f)
           [] l = "L4" -> GraphRows(f, graph) [] l = "L5" -> RbacRows(f, arm)
           [] l = "L6" -> ReachRows(f, arm, graph) [] OTHER -> GitHubRows(f) : l \in scope}

Layers == {"L1", "L2", "L3", "L4", "L5", "L6", "L7"}

(* ConformanceReport.passed; the command exits 1 otherwise. *)
Passed(report) == \A r \in report : r.status # "FAIL"
=============================================================================
