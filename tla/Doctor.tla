------------------------------- MODULE Doctor -------------------------------
(***************************************************************************)
(* `contentops doctor': checks of the working copy and, with --auth or     *)
(* --matrix, of the tenant, and the fixes of --fix, which write.  It reads *)
(* the same machine and the same tenant as conformance (the same facts f), *)
(* by code of its own.                                                     *)
(***************************************************************************)
EXTENDS Conformance

Check(name, status) == Row("doctor", name, status)
Warned(ok) == IF ok THEN "PASS" ELSE "WARN"

TenantYml(f) == CASE f.tenant = "missing" -> "WARN" [] OTHER -> Verdict(f.tenant = "ok")

(* _check_workspace_reachable: a request that raised may be transient. *)
WorkspaceReachable(f) ==
  CASE f.tenant # "ok" -> "FAIL"
    [] f.tenant = "ok" /\ f.workspaces = "none" -> "WARN"
    [] OTHER -> IF ~ArmToken(f) THEN "WARN"
                ELSE CASE f.alertRules = "200" -> "PASS"
                       [] f.alertRules \in {"401", "403"} -> "FAIL" [] OTHER -> "WARN"

(* _check_graph_reachable: the client's own retries are behind it. *)
GraphReachable(f) ==
  CASE ~GraphToken(f) -> "FAIL"
    [] GraphToken(f) /\ f.detectionRules = "403" -> "WARN"
    [] OTHER -> Verdict(f.detectionRules = "200")

(* _classify_handler_matrix_failure *)
Listing(answer, token) ==
  CASE token /\ answer = "200" -> "PASS" [] token /\ answer = "403" -> "WARN" [] OTHER -> "FAIL"

(* _check_handler_matrix: every kind of the engines that tenant.yml turns on. *)
MatrixRows(f) ==
  IF f.tenant # "ok" THEN Check("handler_matrix", "FAIL")
  ELSE (IF f.workspaces = "one" THEN Check("handler:sentinel", Listing(f.alertRules, ArmToken(f))) ELSE {})
         \cup Check("handler:defender", Listing(f.detectionRules, GraphToken(f)))

LiveRows(f) ==
  Check("token_acquisition", Warned(ArmToken(f) /\ GraphToken(f)))
    \cup Check("workspace_reachable", WorkspaceReachable(f))
    \cup Check("sentinel_health", Warned(f.health = "rows" /\ ArmToken(f)))
    \cup Check("graph_reachable", GraphReachable(f))

(* run_checks *)
Checks(f, auth, matrix) ==
  Check("python_version", Verdict(f.python = "new"))
    \cup Check("python_deps", Verdict(f.imports = "ok"))
    \cup Check("dotenv", Warned(f.dotenv = "loaded"))
    \cup Check("auth_env", Warned(f.client = "set" /\ f.az = "in"))
    \cup Check("tenant_yml", TenantYml(f))
    \cup Check("detections_dir", Verdict(f.detections # "none"))
    \cup Check("detections_parse", Verdict(f.detections = "ok"))
    \cup Check("git", Warned(f.git = "ok"))
    \cup IF auth \/ matrix THEN LiveRows(f) ELSE Check("token_acquisition", "WARN")
    \cup IF matrix THEN MatrixRows(f) ELSE {}

-----------------------------------------------------------------------------
(* apply_safe_fixes: a fixer for each check that did not pass; a fix that did *)
(* something has the checks run again.                                        *)

\* Mutant: the directory that the fix makes is not the one that the checks read.
FixDetectionsElsewhere(f) == f

FixDotenv(f) == IF f.dotenv = "none" /\ f.example = "there" THEN [f EXCEPT !.dotenv = "found"] ELSE f
FixDetections(f) == IF f.detections = "none" THEN [f EXCEPT !.detections = "ok"] ELSE f
FixDeps(f) == IF f.project = "there" /\ f.pip = "works" THEN [f EXCEPT !.imports = "ok"] ELSE f

Failing(f, name) == \E r \in Checks(f, FALSE, FALSE) : r.name = name /\ r.status # "PASS"

Fixed(f) ==
  LET f1 == IF Failing(f, "dotenv") THEN FixDotenv(f) ELSE f
      f2 == IF Failing(f, "detections_dir") THEN FixDetections(f1) ELSE f1 IN
  IF Failing(f, "python_deps") THEN FixDeps(f2) ELSE f2

-----------------------------------------------------------------------------
(* Properties, of a record of facts. *)

(* Every answer that the verdict rests on came back whole: an assignment page *)
(* that fails ends the list silently (conformance.py:965), an onboarding      *)
(* probe that raises skips the permission check (conformance.py:1265), and a  *)
(* principal that may not be read is skipped (conformance.py:917).            *)
Complete(f) ==
  /\ f.client = "set" /\ f.tenant = "ok" /\ f.workspaces = "one"
  /\ f.claim = "yes" \/ (f.principal = "200" /\ f.page2 \in {"none", "200"})
  /\ f.onboarded # "error"

(* A report of all layers that passes, when every answer came back, says what *)
(* it is for: the deploy identity can write rules, and playbooks where they   *)
(* are managed, and the read identity of a split pair can write nothing that  *)
(* is looked at (conformance.py:309, 810, 1279, 1358).                        *)
GreenMeansSo(f) ==
  Complete(f) /\ Passed(Report(f, Layers)) =>
    IF f.identity = "read" /\ f.mode # "single"
    THEN f.holds = "read" /\ f.rbac = "none"
    ELSE /\ "write" \in Held(f) /\ f.rbac # "none"
         /\ Managed("playbook", f) => f.logic = "write"
         /\ Managed("automation", f) => f.rbac = "all"

(* The two checkers agree: where conformance passes in full and there is a    *)
(* detections directory, `doctor --auth' finds nothing that fails (doctor.py: *)
(* 203-414 against conformance.py:677-728, 1512-1606).                        *)
DoctorAgrees(f) ==
  Passed(Report(f, Layers)) /\ f.detections # "none" =>
    Passed(Checks(f, TRUE, FALSE))

(* --fix leaves nothing that it could have fixed: a second --fix changes       *)
(* nothing, and the directories and, where pip works, the imports pass the    *)
(* checks that are run again (doctor.py:810, cli doctor.py:110-140).          *)
FixesHold(f) ==
  /\ Fixed(Fixed(f)) = Fixed(f)
  /\ ~Failing(Fixed(f), "detections_dir")
  /\ f.project = "there" /\ f.pip = "works" => ~Failing(Fixed(f), "python_deps")
=============================================================================
