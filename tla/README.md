# ContentOps: specifications, model checking and proofs

ContentOps keeps Microsoft Sentinel and Defender detections as YAML files in a
git repository, deploys them from CI with the CLI `contentops`, brings portal
edits back as pull requests, and reports on what the rules do. This directory
specifies the parts of it where order, failure, concurrency or two readings of
the same data decide what is true: TLA+ modules, TLC configurations that check
them on small instances, and TLAPS proofs of what matters most for every
instance. `PROJECT.json` lists the runs, the theorems, the hazards, and the
source lines each definition stands for.

    tlc -config MCPipelineGroup.cfg MCPipeline      # one run
    tlapm Pipeline_proofs.tla                       # one proof module

Contents: 1 the system; 2 the modules and how they correspond to the code;
3 the runs, their bounds and fairness; 4 the proofs; 5 what does not hold;
6 what is not modelled; 7 the plan.

## 1 The system

### Components, their state, their operations

| component | state it keeps | operations |
|---|---|---|
| audit trail (`audit/writer.py`) | `audit/<date>.jsonl`, a hash chain across days; `<date>.jsonl.tmp`; `<date>.jsonl.orphan` | `write_records`, `write_records_with_retry`, `write_orphan_records`; `verify_chain` reads it |
| HTTP retry (`utils/http_retry.py`) | none (attempts of one call) | `request_with_retry` |
| Sentinel provider and analytic handler (`providers/sentinel_arm.py`, `handlers/sentinel_analytic.py`) | the resource at ARM and its etag | `apply` = GET, PUT with If-Match, GET and compare hashes; `delete` |
| sibling handlers (`handlers/sentinel_{playbook,automation_rule,hunting,parser,watchlist,data_connector}.py`, `core/dependencies.py`) | workflows, API connections, rules and saved searches at ARM, each under a name of its own making | `apply`, `adopt`, `list_remote`, `to_envelope`, `delete` |
| Defender handler (`defender/`, `handlers/defender_custom_detection.py`) | the rules at Graph; `_name_map` and `_graph_ids`, cached per run | list, resolve, PATCH or POST, verify |
| deploy pipeline (`cli/commands/apply.py`, `prune.py`, `rollback.py`, `lifecycle.py`; `.github/workflows/{deploy,prune,rollback,retry-failed}.yml`) | what is live; the checkout of each run; the runs of each concurrency group; the newest audit artefact | merge, dispatch, and each run's pull, gates, writes, report, push |
| state file (`state.py`, `state_sync.py`) | `state/<env>/state.json` and the orphan branch `refs/heads/state/<env>` | `merge_apply_results`, `save`, `sync pull`, `sync push`, `forget`, `adopt` |
| scope (`config.py`, `cli/handler_factories.py`, `cli/commands/_shared.py`, `apply_support.py`) | `tenant.yml`, `PIPELINE_WORKSPACE_NAME` | select, gate, filter, one pass per workspace |
| lifecycle (`lifecycle.py`, `cli/commands/lifecycle.py`, two scripts of the pull request checks) | `status`, `localCustomization`, `version` and stamps in the YAML | promote, disable, enable, lock, unlock; detect promotions, check version bumps |
| drift and collect (`core/drift.py`, `drift_resolve.py`, `cli/commands/collect.py`) | YAML files written from the tenant, suppressions, pull requests | `drift --write`, `collect --clear`, `drift-resolve` |
| alerts (`alerts/`) | a file per day, the ledger, rollups; a cache between jobs | `alerts sync`, overlays, reconciliation, retention, `rollup` |
| health, silent rules, tuning | none: they read alerts and files | `alerts health` and its delta, `silent-rules`, `tuning preview` |
| snippets and lint | none: they read files | expansion; the rules of lint, strict mode |
| payload models of every kind | none | validate, build the body, read the answer back |
| coverage, navigator, portfolio, D3FEND | none: they read files and a release of ATT&CK | extract, resolve, count |
| status and audit queries | none: they read files, the state file and the trail | deployments page, undeployed, `state list`, deploy dates, `state adopt` |
| conformance and doctor | none; `doctor --fix` writes into the working copy | read-only checks of an installation |

### How they interact

A merge to `main` triggers `deploy.yml`; operators dispatch `rollback.yml`,
`retry-failed.yml` and `prune.yml`. A run checks out the commit it was triggered
with, waits for its GitHub concurrency group and perhaps for an approval, pulls
the state branch, selects workspaces and gates them, loads its files and filters
them (changed since the commit before, status allowed in the environment, not
locked), calls one handler per file, and then writes audit records, merges the
results into the state file and force-pushes it. Handlers call their provider,
and that calls the retry loop. Drift and collect run on a schedule and open pull
requests; lifecycle commands run in clones and end in pull requests, which two
checks look at. The alert sync runs daily and feeds the health report. The
components share the tenant (with the people who edit it in the portal), the
audit directory, the state branch, the files and `main`. Nothing runs in threads
or callbacks: the concurrency is between processes, with GitHub, and with the
services.

### What is hard, and what makes it correct

* **Audit**: appends by read, stage, re-check and replace, on files other
  processes use as well. Correct: every record links to the one before it,
  across days; a batch is in the trail whole and once exactly when its writer
  returned; no line is ever changed; retries neither starve nor duplicate.
* **ARM**: answers get lost, requests are repeated and may be acted on late, and
  the portal changes the resource between GET and PUT. Correct: nothing unseen
  is overwritten, one run changes the resource at most once, success is told
  only of what took effect, and nothing happens after a verdict.
* **Defender**: no upsert and no etag, reads that lag, and a POST that may have
  been committed although it failed. Correct: no second rule of a display name
  that one file claims; a rename happens in place.
* **Pipeline**: runs work on checkouts that grow stale while they queue; they
  crash between any two writes; locks, statuses and deletions change meanwhile.
  Correct: nothing uncleared goes live, no stale deploy undoes a newer one, locks
  and caps hold, and the state file remembers.
* **Siblings**: one file becomes several resources, references are by ids and
  resources by names. Correct: no workflow over missing connections, rules run
  workflows that exist, deletes take nothing from others.
* **Scope**: what is selected, gated and shown is computed by one piece of code
  and what is written by another. Correct: the safeguards hold for what is
  written, and plan has shown it.
* **Lifecycle**: a file is changed, then told of; the checks of a pull request
  see the base of its opening. Correct: stamps are earned, records are of changes
  that were made, a promotion carries a stamp, versions move.
* **Drift**: files know their rules by names that the portal changes and reuses.
  Correct: what is imported is in sync, one file per rule, nothing lost that only
  the file has.
* **Alerts**: three stores written in sequence, with runs that die in between,
  two sources, and verdicts that come late. Correct: after a sync the recent days
  are whole in the ledger, nothing within the retention is lost, and the ledger
  comes to say what the analysts said.
* **Checks and reports**: many programs read the same facts, each in its own way.
  Correct: a green check means what it says, views of the same thing agree, what
  is deployed and collected again deploys the same.

`PROJECT.json` lists the hazards line by line, each with the properties that
cover it or the reason why none does.

## 2 The modules

| module | models | uses |
|---|---|---|
| `AuditRecords` | records, chaining, the tail, `verify_chain`: pure functions | |
| `AuditChain` | `write_records` and its retry, one file operation per step, with crashes and midnight | `AuditRecords` |
| `AuditLog` | what the trail promises: an abstract log that grows batch by batch | |
| `AuditTrail` | the readers' view, and the refinement of `AuditLog` | `AuditChain`, `AuditLog` |
| `HttpRetry` | which faults are retried, and how often | |
| `ArmApply` | one ARM resource, the runs that apply and delete it, the network, the portal | `HttpRetry` |
| `DefenderApply` | the Defender rules, consecutive runs over several files, Graph, the portal | `HttpRetry` |
| `Pipeline` | the four commands as the workflows run them, `main`, groups, the state branch | |
| `RunScope` | which workspaces and files a command selects, gates and writes | |
| `Siblings` | playbooks with connections, automation rules, saved searches, watchlists: apply, adopt, collect, prune | |
| `GitMerge` | three-way merges of records (git itself, not this repository) | |
| `PromotionGates` | what `lifecycle promote` asks of the file and the workspace | |
| `Lifecycle` | the commands in clones, the pull request checks, the merge | `PromotionGates`, `GitMerge` |
| `DriftImport` | portal edits, deploys, drift and collect and their pull requests | `GitMerge` |
| `AlertSync` | the alert sync, one write per step, on a workstation and on a runner | |
| `Health` | the views of alerts by rule | |
| `RuleText` | the text of queries: lint, snippets | |
| `SupportAssets` | automation rules and playbooks as files | |
| `Lint` | what lint says of a file against what the loader and the models make of it | `RuleText`, `SupportAssets` |
| `Payloads` | the other kinds as payload, body, answer, envelope | |
| `AttackCoverage` | the coverage of ATT&CK in each view | |
| `StatusViews` | the page of deployments and its siblings over the past of a rule | |
| `Conformance`, `Doctor` | the checks of an installation | |
| `MC...` | instances for TLC | |
| `..._proofs` | proofs; `Siblings_proofs` has those about `DriftImport`, too, which it instantiates as `D`; `ArmApply_proofs` those about `Conformance`, `Doctor`, `StatusViews` and `Health`, which it extends | |

Definitions named in a comment as `Mutant` are plausible bugs of the definition
after them. They occur in no specification; each makes a property fail, which
shows that the property depends on the code.

### Audit

`AuditChain` has one action per file operation of `write_records`: `PickFile`
fixes the day's name, `ReadTail` finds the last record, `ReadExisting` reads the
day's bytes, `Stage` truncates and writes the shared temporary file,
`RecheckPasses` and `RecheckFails` read the tail again, `Replace` and
`ReplaceMissing` are `os.replace`, and `WriteOrphanRecords` is the fallback of
`apply`. `Retrying` are the writers that call `write_records_with_retry`, the
others call `write_records` and raise. `Crash` and `Midnight` come between any
two of them. A SHA-256 hash is modelled by what it commits to, the sequence of
bodies up to its record, so that equal hashes mean equal prefixes.

The constant `Overlap` says how far processes interleave. `"free"`: without
limits. `"staging"`: they overlap, but no other writer stages while one is
between staging and replacing, and the day does not change while one works;
this is what the re-check suffices for. `"serial"`: a concurrency group runs one
after the other.

### ARM and HTTP retry

A client's call is `Send`, what it sees (`Serve`, `Refuse`, `ConnectFault`,
`ReadTimeout`), and then `Retry` or the handler's reaction (`Got`,
`PutAnswered`, `Verified`, `Deleted`), one action per place where the handler
branches. A request its client has given up stays on the wire and may be acted
on later. `HttpRetry` is the policy: an idempotent call is repeated after 429,
5xx and every transport fault, a POST only after 429 and faults that prove that
it never left. `writes` is a history of who changed the resource over which
etag. Late GETs are dropped, since they change nothing.

### Defender

Runs follow each other in one group. `ListRules` builds the index once per run
and refuses duplicates; `Resolve` matches by recorded id, then by name;
`Compare`, `Patch`, `PostRule` and `Verify` are the calls, each with its faults;
`Crash` ends a run anywhere. `lagging` is the older state that a GET may return.
Assumed of Graph: a POST that its client gives up has been committed by then or
never will be, the listing does not lag, and ids are given out one after the
other and are in no file before.

### Pipeline

A file is abstracted to the commit that wrote its body, its status and its
lock: enough to tell which text is newer and which was cleared for production.
`history` holds the trees of `main`; `Merge` appends one and triggers a deploy
with the range of that push; `Dispatch` triggers the others with the head of
`main`. `Queue` and `Leave` are GitHub's concurrency groups: one run holds the
group, the newest other waits, and a newer one cancels the one that waits.
`StartDeploy`, `StartRollback`, `StartRetry` and `StartPrune` are checkout, pull
and gates, and fix what the run will write; `Write` takes one rule through its
handler, where a failure may have taken effect; `ReportDeploy` and
`ReportDispatched` write records, merge the state and decide the exit;
`Publish` is the push, which may fail; `Crash` is a denied approval, a lost
runner or a timeout.

The rules of the tenant are `live`, the text of each. The handlers are at the
granularity of one write: `ArmApply`, `DefenderApply` and `Siblings` look inside
it. The trail that `ReportDeploy` leaves is `failures`, the failed rules of the
newest artefact, which `retry-failed` reads; `AuditChain` looks inside that one.
Which workspace a run writes is the subject of `RunScope`, where a command is a
sequence of passes over workspaces (`NextPass`) and the handlers find the
workspace by code of their own (`Active`).

### Scope

`RunScope` starts from a `tenant.yml`, a command line and the environment
(`Init`), and takes one of `Apply`, `Rollback`, `Prune` or `Adopt` through its
selection (`Select`, `Single`), its gates (`WriteAllowed`, `Safeguards`,
`IntegrationAbsent`), its filters (`Loaded`, `EnvStatus`, `Unlocked`), and then
file by file (`Process`) and pass by pass (`NextPass`). A pass is known by the
position of its workspace in `tenant.yml`. `Planned` is what `plan`
would show for the same command. A write is remembered with the workspace it
went to, which `Active` finds anew as the handlers do.

### Siblings

A resource has an address, a namespace and a name (`RemoteName` by kind).
`StartApply` takes up the deployed files in `APPLY_ORDER`; `PutConnection` and
`ConnectionFails` are the requests before the workflow's, `PutResource` and
`PutFails` the last; `DeleteResource` and `DropConnections` are `delete()`;
`Adopt` and `Collect` turn resources into files. People commit, remove, build and
edit by hand at any time, and a run may die at each step. GET, etag and read-back
are in `ArmApply`, so that a PUT here takes effect or fails.

### Lifecycle

Each clone holds a checkout, a command in progress and at most one pull request.
A command is `Start`, `Rewrite` (one file of its cohort) and then `Report` (the
audit record or the batch), and `Die` between them; the gates of `promote` are
`CheckGates` over what the file and the workspace say. `Push` runs the two
checks against `main` of that moment, `MergePr` is git's three-way merge, which
takes effect whatever `main` has become, unless it conflicts. `MirrorTenant` is
the pull request of a collect.

### Drift

One analytic rule kind. `Match` is `detect_drift`'s search through `LocalIndex`:
by remote name, then by the id derived from the display name, which
`disambiguate_envelope_ids` may lengthen. `Import` writes new and changed
entries (`WriteNew`, `WriteChanged`, with what `Preserve` keeps of the file), one
after the other in any order that has the new ones first (`Writing`), into a pull
request of its lane; a lane's pull request is replaced by the next import.
`CollectClear` writes all. The portal creates, edits, renames, switches and
deletes; engineers author, edit, disable, enable, deploy and resolve.

### Alerts

One action per write of a sync: `Fetch`, then a day after another `ExportDay`
(`NextDay` is the order: what the mode asks for from its first day on, then the
recent days backwards),
`OverlayFiles`, `TruncateLedger` and `AppendLedger`, `Reconcile` and `RepairDay`,
`PruneDailyFiles`; `...Dies` are the deaths inside a write. On a runner only
what `alerts-report.yml` caches comes back, and it is saved only after a
success. An alert known to both sources has two ids; `MergeAlerts` and
`SameAlert` join them. Analysts triage between any two steps.

### What computes and keeps no state

`MCOffline` takes `Health`, `RuleText`, `SupportAssets`, `Lint`, `Payloads`,
`AttackCoverage`, `StatusViews`, `Conformance` and `Doctor` together: an initial
state is an input of one of them (`subject` says of which), and the one step
looks at it. A property relates two programs that read the same input, or an
input and what comes back, over every input of the bounded set. `StatusViews` is
the exception: its input is a past of at most `MaxRecords` events (`Happen`:
applies in the modes and outcomes the commands have, rollbacks, prunes,
adoptions, edits), so that files, state and trail are as the commands leave them.

## 3 The runs

All properties are in the modules, each with a comment that says which
behaviour of the code it is about.

| run | configuration | question |
|---|---|---|
| `audit_overlap` | 3 writers, 2 of them retrying, 2 days, overlap `staging` | is the trail linked, append-only, all-or-nothing and complete, and does it implement the abstract log? |
| `audit_race` | 3 writers of one record each, 2 days, overlap `free`, fair | are collisions paid for by others' progress, does every writer finish? |
| `arm` | 1 apply, 1 delete, 2 portal edits, every answer lost, refused or late | is anything unseen overwritten, applied twice or after the verdict, is a success earned? |
| `defender_runs` | 3 runs of 3 checkouts: two files of one name, a rename beside a new rule, a third file; 1 portal edit, crashes; fair | are duplicates impossible, are renames in place, do runs end? |
| `pipeline_group` | 2 rules, 3 commits, 3 runs of deploy, rollback, retry | cleared texts, no stale deploy, locks, memory of the state |
| `pipeline_prune` | 3 rules, 2 commits, 2 runs of deploy, prune, failing fetches; fair | do the caps hold, does every run end? |
| `scope` | 7 sets of workspaces, 4 Defender sides, every selector, kind and command | do the safeguards hold for what is written, was it foretold? |
| `siblings` | a playbook with two connections, a rule, an analytic, six things built by hand; 5 runs, 3 commits, 3 edits, 1 fault | half deployed workflows, dangling references, collect then apply, prunes |
| `lifecycle` | 2 clones, 2 rules and their cohort, 2 pull requests, 2 commands | are stamps and records earned, do the checks mean what they say after the merge? |
| `drift` | 2 names, 2 remote names, 2 bodies, 2 portal changes, 2 commits, 2 imports | is what is imported in sync, one file per rule, nothing lost? |
| `alerts_sync` | an alert of each of two sources, 5 days, workstation and runner, 1 fault, 1 triage; fair | recent days whole, ledger kept, verdicts taken up? |
| `offline` | the inputs of nine modules, 1.1 million states | do checks mean what they say, do views agree, does what is deployed come back? |

**Bounds.** The smallest that let each hazard happen. Audit: a collision needs
two writers, a collision of the retry a third; two days are needed for a link
across files; `MCBatches` has a batch of two whose second clock reading goes
back. ARM: one retry is enough for a duplicate and for a duplicate that arrives
after the verdict; the second edit is one after it. Defender: two runs for a
repeated create, a third that meets what they left, two files of one name, and a
rename, together with one portal edit. Pipeline: three runs are a holder, a run
that waits and one that takes its place; three commits are a text, its successor
and a status or lock change; two rules, so that one can be left out. Lifecycle:
two clones whose pull requests overlap, a cohort of two that may stop in the
middle, a day on which a stamp grows old. Drift: two rules so that one can take
the other's name, two changes for a rename and what follows it, two lanes.
Siblings: five runs are commit, apply, adopt, collect and apply again or prune.
Alerts: the retention, the re-export and the backfill all end within five days.
Scope: two workspaces of the same and of different roles. The inputs of `offline` are listed
in `MCOffline`, with the fields that a definition branches on varied and the
rest fixed; a query has four tokens, a template four lines, an installation two
faults, a past three records.

`MaxFiles`, `MaxCommits`, `MaxRuns`, `MaxEdits`, `MaxDay`, `MaxPrs`,
`MaxCommands`, `MaxVersion`, `MaxPortal`, `MaxGit`, `MaxFaults`, `MaxTriage`,
`LastDay` and `MaxRecords` bound TLC's search and are no limits of the code;
`MaxRetries`, `MaxAttempts`, `MaxVerify`, `MaxDeletes`, `MaxApply`, `MaxAge`,
`ReexportDays`, `BackfillDays`, `ArmDays` and `RetentionDays` are the code's own
limits with smaller values. `pipeline_group` takes the rules, `lifecycle` the
clones and `drift` the bodies as interchangeable, which they are: no definition
tells one from another, and none of these runs has a liveness property.

**Deadlock** is checked in the audit runs and in `alerts_sync`, where every end
is explicit. The other specifications do come to rest, when all runs are over and
the bounds are used up, and their configurations say so.

**Fairness.** `AuditChain!FairSpec`: a process that has started goes on with its
own steps; a crash is a step, too, and midnight is owed by nobody.
`DefenderApply`: a client's own steps, for every call has a timeout, so that the
wait for an answer ends; nothing is assumed of the service. `Pipeline`: a run
that holds its group gets a runner or ends (GitHub's approval and job timeouts),
and the commands' loops are finite. `AlertSync`: a sync that has started goes on
and the schedule of `alerts-report.yml` starts one again. `Siblings` states the
same of a run's steps, though its properties are of single steps. No property
relies on fairness between processes, or on people doing anything.

## 4 The proofs

Every theorem is proved for all values of the constants that satisfy the named
assumptions of the modules; no bound of section 3 enters.

**Audit** (`AuditTrail_proofs`). `TypeCorrect` and `CollisionsArePaidFor` hold for
every `Overlap` and any finite number of writers. The others assume `Guarded`,
that is `serial` or `staging`: `TrailStaysLinked`, `BatchesWholeOrAbsent`,
`LinesStay`, `NothingLostSilently`, `TrailStaysWhole`, and the refinement
`LogImplemented`. None of these is inductive alone: `IInv` adds that writers past
the stage exclude each other, that the trail only grows beyond what a writer has
read, and that the staged file is the file as it was read followed by the batch.
From these, an unmoved tail at the re-check means an unmoved file, and `Replace`
is an append. `CollisionsArePaidFor` needs none of it: `PaidInv` says that a writer
whose tail is no longer the last has collided less often than batches were
recorded. For `TrailStaysWhole` and `LogImplemented` the files of all days are one
sequence, in which a record's place is the number of bodies its hash commits to:
`LogInv` says that this numbers the whole trail in order, so that to append to one
file is to append to the trail. A step of
`AuditChain` then maps to one of `AuditLog`: `Replace` to the append of a batch,
the ends of writers to their verdicts, everything else to a stutter.

**ARM** (`ArmApply_proofs`). `EditsSurvive`, `AtMostOnce`, `SuccessIsEarned`,
`NothingAfterTheVerdict`, for any number of runs, retries and portal edits.
`IInv` says that what is on the wire carries what its run read, that etags are
never issued twice, so that an etag once replaced never matches again, and that
what a client has been told has happened.

**Defender** (`DefenderApply_proofs`). `NeverASecondRule` and `RenamesInPlace`,
for any number of runs, checkouts, YAMLs, retries and portal edits, from
`InitialRulesAssumption` (the tenant starts without duplicates, ids were given
out in order). `IInv` adds `Known`, that while a claimed name is still to come in
a run, every rule that bears it is the one the index points at, and `Told`, that
what the run was told of is in the index under its own name only. A POST whose
answer is lost breaks neither: `HttpRetry` does not repeat it, so the run has
moved past the only YAML of the name. The steps are first sorted by what they do
(`NextCases`): begin, index, PATCH, POST, or nothing to the names.

**Pipeline** (`Pipeline_proofs`). `OneWriter`, `OnlyCleared`, `PruneBounds`,
`LocksHonoured`, `NoStaleDeploy`, for every set of rules, flows and caps and any
number of commits and runs; `StateRemembers` where fetches do not fail and no
prune pushes the branch (`Reliable`). The argument behind `NoStaleDeploy`: runs
of a group are served in the order of their commits (`Ordered`), so the commit
at which a live text was cleared is never later than that of a run that may
still write (`Traced`); texts of a file only get newer along `main` (`Texts`);
hence a deploy or a retry never writes an older text. `Scoped` and `Bounded`
carry what the gates admitted from the start of a run to its last write. The
steps are first sorted by what they do to the runs (a run begins, writes,
reports, ends, or is triggered), and the invariant is preserved by each sort.
For `StateRemembers`, `RInv` adds that the run that holds the group holds what
the branch holds.

**Siblings** (`Siblings_proofs`). `WorkflowsAreWired` and `RulesAreWired`, for any
files, references, faults, deaths and work by hand; of the files,
`DraftsAssumption` says that automation rules refer to playbooks and analytics
only, which is what their model has fields for. While an apply runs nothing is
deleted and no file changes, so that `IInv` can carry what it has done: `Placed`,
that a file which the run has left behind without a fault has its resource, and
`Wired`, that the connections it has put are there. `APPLY_ORDER` then gives
the rest: what a rule runs comes before it. `CollectsApplyAsNoOps` has an
invariant of its own, `CollectInv`: every resource has the shape of its kind, and a
collected file `Mirrors` what it was read from. The lemmas `RunsComeBack` and
`UsesComeBack` say what the way through a file does to references (a playbook
returns under its slug, an analytic through the file that deploys it) and to
connections (a default name is left out, and made again). To prove it is what
showed that the file must not only be unchanged itself: a rule that was collected
with an analytic follows that analytic when a commit gives it another
`arm_name`, so `fresh` ends with a change of what a file refers to.

**Drift and collect** (second half of `Siblings_proofs`). `ImportsKeepFiles`,
`ImportsRoundTrip` and `FilesStayApart`, for any names, bodies, listings and
suppressions, any order in which `discover_assets` yields the paths and any
number of changes in the portal, merges and imports, from `ConstantsAssumption`
(two paths are never yielded at once, display names and GUIDs differ).
An import is as many writes as it has entries, and `UpTo` is the induction over
them, by a least counterexample. It is made three times. `KeptFrom` is what no write
undoes of a file, even if two rules lead to it: this is `ImportKeepsFiles`.
`Drawn` is what no write undoes of the types: a file without an `arm_name` is as it
was. `Settled` is what each write settles for good where no two rules lead to one
file: the entries that were written have their content in the file that they led to or in
a new one, and no other file was touched. From it, `Origins` says which entry a
changed file comes from, `HoldersAfter` that no key of a rule moves to the file of
another, so that each rule leads to the same file in the next listing
(`WrittenIsFound`, `UnwrittenStays`). `DriftTyped` is the invariant `IInv` that the
three rest on: `TypeOK`, `Authored` and `HeadOfBase`. That a deploy never sends a
rule under an id with a suffix is not inductive as a type: a merge may take the id
from one side and the `arm_name` from another. `HeadOfBase` rules it out, since the head
of a pull request only has files without `arm_name` that it has from its base.

The premises of the last two are needed, and the attempt to prove them without is
what found `AtHome` and `KeysApart`; TLC has the counterexample at three changes
in the portal (section 5).

**Lifecycle** (`Lifecycle_proofs`). `NothingUnearned`, `PromotionsCarryStamps` and
`VersionsOnlyMove`, for any number of rules, clones, commands, days and pull
requests. `IInv` has four parts for each clone: `Framed` (a branch is a tree
beside the tree it started from, and no command changes it once it is green),
`Backed` (its stamps are earned, its versions not behind those it started from), `Vetted` (what
a green check saw, of the main it saw), `Recorded` (the changes a command will
tell of have been made and not yet told). Since a step moves one clone, `OneClone`
reduces the invariant to that clone and to `main`. `GitMerge` merges field by
field, so that a stamp or a version on `main` comes from one of the two sides
whole.

**Scope** (`RunScope_proofs`). `SafeguardsAlwaysHold` and `NeverSurprising`, for
every `tenant.yml` that loads, any number of workspaces, files and kinds, and
every command line. `ScopeInv` has a part for `apply`, whose passes each enter
their workspace, and one for the commands that enter one workspace and have one
pass. It carries what the gates let through at the start to the writes: the gates
look at a list of workspaces, the handlers find one by its name in the
environment, and `ActiveIs` and `OneTarget` say when the two are the same. Where
they are not (no workspace selected, a Defender file), the parts say so, and
these are the places where `WriteAllowedHolds` fails.

**Alerts** (`AlertSync_proofs`). `RecentDaysAreWhole` and `LedgerAlwaysKeeps`, for
any finite set of alerts, any lengths of the windows, faults, deaths and verdicts
that change between any two steps. `SyncInv` says what the stores hold whatever
happened before (a file holds alerts of its day, each once, also after an overlay, a
repair or a cut), how far the run is (a recent day is still to do or whole; after
the append the ledger is the union of the files until a repair rewrites one), and
of what a workstation once reported that its file tells of it, unless a death cut that file or
the retention is over (`Safe`). The merge of two sources is where it is won:
`MergeAlerts` drops a Graph alert only for a Sentinel alert that it joins.

**Checks and reports** (second half of `ArmApply_proofs`). `MCOffline` enumerates
installations and pasts of a few steps; these hold for all of them.
`GreenReportsMeanSo` is about any installation. `DoctorsAgree` supposes
`Installation` (the values that `tenant.yml` and its workspaces can have) and
`FixesAreDone` `Facts` (the record has the facts that a fix looks at). A report
is a union of rows, so `LayersPass` and `RowsPass` take it apart, and each check is
then a lemma about its own rows (`BothTokens`, `RolesFit`, `GrantsFit`).
`PageTellsThePast` and `AdoptionTellsThePast` are about `Past`, the steps of
`NextWorlds` without a bound, with any set of assets. `PastInv` says of every
past that its records are numbered in order and each asset with a record has a last one
(`LatestRecords` chooses by number), that an entry "success" or "failed" has a
record that says so, and that what was tried last is in the last record: in the
state file, too, where it was deployed and published. `OneMore` is what a further
record does to this, the same for all operations. `DeltasRebuild` is about any two
reports in which no rule has two rows. `ChecksMeanWhatTheySay` and
`AlertsAccountedFor` have parts beside these that are only model-checked, so that
no theorem has their names.

The proofs of the last steps could not go through as long as `Classify`,
`Replayed` and `Payloads!Planned` had CASE arms that overlap: TLC takes the first
that is true, but the logic leaves open which. They are now disjoint.

**Assumptions** on the constants are those the code enforces or that say what the
constants stand for. `Writers` and `Alerts` are finite. `ConfigAssumption` of
`RunScope` is what loading a `tenant.yml` checks: names of workspaces are distinct
(`_validate_workspace_uniqueness`, `config.py:347`), `maxDelete` is not negative
(`config.py:109`), and no Sentinel role is called "defender". `NoneAssumption` says that the
model's mark for nothing is no kind. In `Siblings`, `NamesAssumption`,
`ConnectionsAssumption` and `HandMadeAssumption` say that files and resources have
names, and that connections, the managed tag and the things to run are on the
kinds that have them. The rest are in the paragraphs above.

**Only model-checked.** Liveness (`EveryWriterFinishes`, `EveryRunEnds`,
`VerdictsReachLedger`), which is out of the prover's reach; `PrunesSpareOthers` of
`Siblings`, which depends on which files share a connection and so on the
instance; and most of the offline modules, whose questions are about computations over
enumerated inputs: lint, the round trips and the coverage of ATT&CK use recursion,
and that the views of the status agree and that each alert is counted once are
about folds and filtered sequences, which are induction over data.

## 5 What does not hold

The following definitions are in the modules, marked *It does not hold*, and are
checked by no run. Each is what a document or a comment suggests, or what one
might hope for, and the model shows how the code misses it.

| definition | what happens instead |
|---|---|
| `ConflictIsReal` (`ArmApply`) | a PUT whose answer is lost is repeated and refused by the etag it changed itself: the run reports a conflict with nobody |
| `NoSilentLoss`, `TrailVerifies` under `Overlap = "free"` | midnight, or a third writer, between the re-check of one and the move of another lets a batch follow one that is then overwritten (`writer.py:55-60`) |
| `PruneSparesMain` (`Pipeline`) | `prune.yml` has a group of its own: its run compares the tenant of now with the checkout of its dispatch and deletes a rule merged meanwhile (`workflows.md:74`, `cli-workflow-matrix.md:91`) |
| `LocksHold` (`Pipeline`) | `retry-failed` does not look at locks (`lifecycle.py:502`, against `glossary.md:229`, `team-routine.md:78`) |
| `MergesLand` (`Pipeline`) | a third merge cancels the pending deploy of the second and deploys only what it changed itself (`deploy.yml:39-41`, `:228`, against `how-it-works.md:84`) |
| `LedgerPersists` (`AlertSync`) | the job's cache keeps the ledger and not the files of the days, from which every sync rebuilds it (`ledger.py:321`, against `alerts-reporting.md:178`) |
| `EnableRestores` (`DriftImport`) | an import between `disable` and `enable` copies `enabled: false` into the payload, and `enable` changes the status alone (`drift.py:291`, against `lifecycle.py:213`) |
| `AdoptedPlaybooksFound` (`Siblings`) | an adopted workflow keeps its name in `metadata.arm_name`, and a collected rule is sent to the id (`sentinel_automation_rule.py:199`, against `asset-coverage.md:58`) |
| `HandEditsRejected` (`Lifecycle`) | the check accepts any stamp of the last thirty days, of whatever commit (`detect_production_promotions.py:139`, against `feature-catalog.md:338`) |
| `WriteAllowedHolds` (`RunScope`) | a `--role` that no workspace has selects nothing, so nothing is gated, and the handlers fall back on the only workspace (`handler_factories.py:69`, against `tenant-config-modes.md:311`) |
| `SuccessIsRemembered` (`Pipeline`) | a failed fetch of the branch is taken for an empty state and pushed; it holds, and is proved, where fetches do not fail and no prune runs |

### What the properties leave out

Where a property has a premise, or an instance a restriction, it is because the
code does the following. These are limits of the code that the models know of and
the properties do not judge.

* *Defender*: a rename in the YAML into a name that another rule bears.
* *Drift*: a name reused or an id that clashes makes `detect_drift` take another
  file (premise `Unclaimed`); `_local_index` keeps ids and `arm_name`s in one
  dictionary, so that the id of a file hides the `arm_name` of another, which is
  "authoritative" (`drift.py:131-136`), and its rule is found under the
  wrong file or gets a second one (premise `KeysApart`); `drift-resolve remote` may leave a
  file whose id is not its path, and an import of a new rule by the name of
  that path overwrites it (`drift.py:432`, against `:311`; premise `AtHome`); the pull requests of drift and of collect, both
  merged, leave two files of one rule; `--enrich` overwrites metadata;
  `drift-resolve remote` resets version and id; `--rename-existing` may
  overwrite; `disable`, `lock` and `unlock` do not bump the version, so that
  their pull requests fail `check_version_bump.py` (`validate.yml:95-101`); an
  import drops the lock and the promotion stamp and takes the status from the
  tenant; a suppression matches the derived id; an import between the merge of a
  `disable` and its deployment undoes it.
* *Lifecycle*: a status line with a comment is refused; a cohort that stops
  midway leaves earlier files changed and unrecorded; the checks are of
  the main of the last push: of two pull requests that change one file and bump it
  to the same version the second is merged under the version of the first (premise
  of `VersionsMove`).
* *Siblings*: `delete` finds connections by the tag of the remote name where
  `apply` wrote the envelope's id; a playbook that gave up a connection shared
  with another keeps its tag on it, so that its prune takes the connection away
  from the other; `connections_from_remote` uses a default
  name; hunting ignores `arm_name`; three kinds share the namespace of saved
  searches; the dependency check accepts experimental and deprecated
  references.
* *Scope*: with several workspaces and a role that matches none, Defender is
  still deployed; `collect --adopt` does not ask `writeAllowed` though
  `collect.py:142` says so; without a `tenant.yml` the filter of statuses is off.
* *Conformance*: a second page that cannot be read (`conformance.py:965`), the
  exception of the onboarding probe (`:1265`), and of the read identity only
  `alertRules/write` is looked for.
* *Health*: the note on volume stops the TUNE verdict; a removed rule counts as
  newly active or resolved; two files of one id both count; the daily store is
  rebuilt from the ledger.
* *Text and lint*: a placeholder in a comment; the text of a snippet is never
  linted; dropped lines may leave an empty query; `lint --asset
  sentinel_automation_rule` reports PAYLOAD007 falsely (`runner.py:208-271`); a
  loose block escapes META008; `analytic_scope_conditions` ignores the operator;
  "TODO, ..." is no placeholder; metadata that is no mapping is ignored.
* *Payloads and playbooks*: an extra tag named like a field; a watchlist
  collected without its rows is then skipped; `requiresManualConsent` is lost;
  `itemsCount` is not dropped, whatever the comment says
  (`sentinel_watchlist.py:77-81`); a Fusion rule has an empty template;
  `authMode` and `roleAssignments` are not collected; `logicAppResourceId`
  without `tenantId`; the projection compares no values; `_verify_role_assignments`
  reads the first page only.
* *Coverage*: ids of a custom techniques file are not normalised; of two entries
  that lead to one id the tactics of the first stay; D3FEND counts disabled
  rules but drops those that are not strictly valid; `enabled` is blank in the
  portfolio when unset; a display name with blanks scores twice;
  `covered_ids` drops a parent that is absent from the matrix (premise
  `WholeMatrix`).
* *Alerts*: of two Sentinel alerts of one Graph alert the second is dropped
  (`merge.py:110`, `:366`); reconciliation drops the alerts only Graph knew.
* *Status*: an edit whose record is "ok", or a skip, after an unpublished state
  or a failed rollback makes the page say in sync; so does a second workspace
  that succeeds after the first failed; a failed first deploy counts as managed,
  so that `undeployed` does not list it; when unpublished it is "unmanaged" and
  `--failures-only` hides it; a retry that succeeds, or an adoption, leaves
  the state "failed"; the trail's index and the deploy dates are keyed by id
  alone; a pruned rule's entry stays an "orphan".

## 6 What is not modelled

* **Rendering**: reports, generated documentation, the catalog, the navigator's
  layout, workbooks. They write what the modelled programs compute.
* **KQL itself**: `workspace_kql.py`, table schemas and the rules of lint that
  parse queries; `RuleText` has the text at the granularity of tokens.
* **Restore and archive**, the **upstream watchers**, token acquisition,
  bootstrap, scaffolding and `enrich`: file input and output, or calls to services
  without an order that matters.
* **Operations left out of modelled components**: `--pattern`, dry runs beside
  `plan`, `--force-overwrite`, `--allow-empty-kind`, `--include-locked`, monitor
  mode and several workspaces per run in `Pipeline` (the last is in `RunScope`),
  the tenant mirror's bot merges, items of watchlists and role assignments as
  steps of `Siblings`, and the push of `state-adopt.yml`, which is in a
  concurrency group of its own.
* **The services**: GitHub's queue, ARM, Graph and git are modelled from how the
  code uses them and marked external in `PROJECT.json`.

## 7 The plan

Done, in this order: audit, HTTP retry and ARM, Defender, Pipeline with their
proofs; then scope, siblings, lifecycle, drift, alerts; then what computes over
files; then the proofs about Defender, siblings, lifecycle, scope and alerts, and
the refinement of the abstract audit log; then the proofs about drift; last those about
the checks, the page of deployments and the report. Left, by
importance:

1. The state branch as a module that composes deploys with `state adopt` and
   `forget`, which push from other groups.
2. An abstract tenant (the text of each rule, and who may change it) that
   `Pipeline` implements, with `ArmApply` and `DefenderApply` below it.
3. A Graph listing that lags, under which the first half of `NoSecondRule` is in
   doubt.
