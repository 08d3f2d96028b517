------------------------------ MODULE Pipeline ------------------------------
(***************************************************************************)
(* The commands that write to the production tenant, as the workflows run  *)
(* them: contentops apply on every merge to main, and rollback,            *)
(* retry-failed and prune when an operator dispatches them.  A run works   *)
(* on the commit it was triggered with, however long it waits for its      *)
(* concurrency group or for an approval; it pulls the durable state file,  *)
(* writes one rule after the other, reports, and pushes the state file it  *)
(* holds.  Edits of main go on meanwhile.                                  *)
(***************************************************************************)
EXTENDS Integers, Sequences, FiniteSets

CONSTANTS
  Rules,          \* the rules, by envelope id
  Kind,           \* Kind[r]: the asset kind of r
  Statuses,       \* the values `status' is given in the edits of main
  Flows,          \* the workflows operators dispatch
  MaxDeletes,     \* prune's cap, after the clamp by tenant.yml
  MaxApply,       \* rollback's cap
  FetchMayFail,   \* whether a run's fetch of the state branch may fail
  MaxFiles,       \* bound: files changed by one merge
  MaxCommits,     \* bound: commits on main
  MaxRuns         \* bound: runs triggered

ASSUME PipelineAssumption ==
  /\ IsFiniteSet(Rules)
  /\ MaxDeletes \in Nat /\ MaxApply \in Nat
  /\ MaxCommits \in Nat \ {0} /\ MaxFiles \in Nat /\ MaxRuns \in Nat
  /\ FetchMayFail \in BOOLEAN
  /\ Flows \subseteq {"rollback", "retry", "prune"}

VARIABLES
  history,   \* the trees of main, one per commit
  live,      \* live[r]: the text of r in the tenant, 0 when it is not there
  durable,   \* the state file on refs/heads/state/<env>
  failures,  \* the failed rules in the newest audit artefact of a deploy
  jobs       \* the runs, in the order they were triggered

vars == <<history, live, durable, failures, jobs>>
-----------------------------------------------------------------------------
(* A file is the commit that wrote its body, its status and its lock.      *)

Absent == [text |-> 0, status |-> "none", locked |-> FALSE]
Present(f) == f.text # 0
Main == history[Len(history)]
Source(k, r) == history[k][r]

IsLocked(f) == f.locked

\* The statuses `apply' may deploy to prod.
AllowedStatuses == {"production", "deprecated"}
EnvStatus(f) == Present(f) /\ f.status \in AllowedStatuses

ChangedSince(base, sha, r) == Source(base, r) # Source(sha, r)

(* The state file: present or not, and what it records of each rule.       *)

NoState == [exists |-> FALSE, entries |-> {}]

MergeApplyResults(state, sha, outcome) ==
  LET applied == {r \in Rules : outcome[r] # "none"}
  IN  IF applied = {} THEN state
      ELSE [exists  |-> TRUE,
            entries |-> {e \in state.entries : e.rule \notin applied} \cup
                        {[rule |-> r, sha |-> sha, ok |-> outcome[r] = "success"] :
                             r \in applied}]
-----------------------------------------------------------------------------
(* Concurrency groups: one run holds the group, the newest other waits,    *)
(* and a newer one takes the place of the one that waits.                  *)

\* Mutant: retry-failed.yml in a group of its own, as it is outside prod.
RetryApart(flow) ==
  CASE flow = "prune" -> "prune-prod"
    [] flow = "retry" -> "retry-failed-prod"
    [] OTHER          -> "deploy-prod"

Group(flow) == IF flow = "prune" THEN "prune-prod" ELSE "deploy-prod"
SameGroup(i, flow) == Group(jobs[i].flow) = Group(flow)

Holding == {"waiting", "writing", "publishing"}
Over == {"done", "failed", "cancelled"}

Queue(flow, sha, base, todo) ==
  LET busy == \E i \in DOMAIN jobs : SameGroup(i, flow) /\ jobs[i].pc \in Holding
      run  == [flow |-> flow, sha |-> sha, base |-> base, todo |-> todo,
               pc |-> IF busy THEN "pending" ELSE "waiting",
               outcome |-> [r \in Rules |-> "none"], state |-> NoState]
      rest == [i \in DOMAIN jobs |->
                 IF jobs[i].pc = "pending" /\ SameGroup(i, flow)
                 THEN [jobs[i] EXCEPT !.pc = "cancelled"] ELSE jobs[i]]
  IN  /\ Len(jobs) < MaxRuns
      /\ jobs' = Append(rest, run)

\* Mutant: nobody takes the run that waits for the group.
LeaveOnly(i, pc) == jobs' = [jobs EXCEPT ![i].pc = pc]

Leave(i, pc) ==
  jobs' = [j \in DOMAIN jobs |->
             CASE j = i -> [jobs[j] EXCEPT !.pc = pc]
               [] j # i /\ jobs[j].pc = "pending" /\ SameGroup(j, jobs[i].flow) ->
                    [jobs[j] EXCEPT !.pc = "waiting"]
               [] OTHER -> jobs[j]]
-----------------------------------------------------------------------------
(* Triggers.                                                               *)

\* What a merge may make of the file of r: as it is, rewritten, deleted,
\* locked or unlocked.
Edits(r) ==
  {Main[r], Absent}
    \cup [text : {Len(history) + 1}, status : Statuses, locked : {Main[r].locked}]
    \cup (IF Present(Main[r]) THEN {[Main[r] EXCEPT !.locked = ~@]} ELSE {})

Merge ==
  /\ Len(history) < MaxCommits
  /\ \E tree \in [Rules -> UNION {Edits(r) : r \in Rules}] :
       /\ \A r \in Rules : tree[r] \in Edits(r)
       /\ Cardinality({r \in Rules : tree[r] # Main[r]}) \in 1..MaxFiles
       /\ history' = Append(history, tree)
  /\ Queue("deploy", Len(history) + 1, Len(history), {})
  /\ UNCHANGED <<live, durable, failures>>

Dispatch(flow) ==
  /\ flow \in Flows
  /\ IF flow = "rollback"
     THEN \E target \in 1..Len(history),
             scope \in {Rules} \cup {{r} : r \in Rules} :
            Queue(flow, Len(history), target, scope)
     ELSE Queue(flow, Len(history), Len(history), {})
  /\ UNCHANGED <<history, live, durable, failures>>
-----------------------------------------------------------------------------
(* A run gets its runner: checkout, state sync pull, and the gates of its  *)
(* command, all of which read only the checkout it was triggered with.     *)

Begin(i, todo) ==
  /\ \E state \in {durable} \cup (IF FetchMayFail THEN {NoState} ELSE {}) :
       jobs' = [jobs EXCEPT ![i].pc = "writing", ![i].todo = todo, ![i].state = state]
  /\ UNCHANGED <<history, live, durable, failures>>

Refuse(i) == Leave(i, "failed") /\ UNCHANGED <<history, live, durable, failures>>

DeployScope(run) ==
  {r \in Rules : /\ ChangedSince(run.base, run.sha, r)
                 /\ EnvStatus(Source(run.sha, r))
                 /\ ~IsLocked(Source(run.sha, r))}

\* Mutant: the lock is read from the tree of the target commit.
LockAtTarget(run) ==
  {r \in run.todo : EnvStatus(Source(run.base, r)) /\ ~IsLocked(Source(run.base, r))}

\* The body and the status are those of the target commit, the lock is
\* today's.
RollbackScope(run) ==
  {r \in run.todo : EnvStatus(Source(run.base, r)) /\ ~IsLocked(Source(run.sha, r))}

\* Mutant: retry-failed without apply's env-status gate.
RetryUngated(run) == {r \in failures : Present(Source(run.sha, r))}

RetryScope(run) ==
  {r \in failures : EnvStatus(Source(run.sha, r))}

Unsourced(run) == {r \in Rules : live[r] # 0 /\ ~Present(Source(run.sha, r))}

\* Mutant: --allow-empty-kind is always on.
AllowEmptyKinds(run, listed) == {}

EmptyKinds(run, listed) ==
  {k \in listed : /\ \E r \in Rules : Kind[r] = k /\ live[r] # 0
                  /\ \A r \in Rules : Kind[r] = k => ~Present(Source(run.sha, r))}

Orphans(run, listed) == {r \in Unsourced(run) : Kind[r] \in listed}

StartDeploy(i) ==
  /\ jobs[i].flow = "deploy" /\ jobs[i].pc = "waiting"
  /\ Begin(i, DeployScope(jobs[i]))

StartRollback(i) ==
  /\ jobs[i].flow = "rollback" /\ jobs[i].pc = "waiting"
  /\ \/ /\ Cardinality(RollbackScope(jobs[i])) <= MaxApply
        /\ Begin(i, RollbackScope(jobs[i]))
     \/ /\ Cardinality(RollbackScope(jobs[i])) > MaxApply
        /\ Refuse(i)
     \/ /\ RollbackScope(jobs[i]) # {}      \* the plan found an error
        /\ Refuse(i)

StartRetry(i) ==
  /\ jobs[i].flow = "retry" /\ jobs[i].pc = "waiting"
  /\ Begin(i, RetryScope(jobs[i]))

StartPrune(i) ==
  /\ jobs[i].flow = "prune" /\ jobs[i].pc = "waiting"
  /\ \E listed \in SUBSET {Kind[r] : r \in Rules} :
       IF \/ listed = {}
          \/ EmptyKinds(jobs[i], listed) # {}
          \/ Cardinality(Orphans(jobs[i], listed)) > MaxDeletes
       THEN Refuse(i)
       ELSE Begin(i, Orphans(jobs[i], listed))
-----------------------------------------------------------------------------
(* One rule through its handler.  A failure may have taken effect.         *)

Payload(run, r) ==
  CASE run.flow = "rollback" -> Source(run.base, r).text
    [] run.flow = "prune"    -> 0
    [] OTHER                 -> Source(run.sha, r).text

Results(flow) ==
  IF flow = "prune" THEN {"success", "error"} ELSE {"success", "error", "unverified"}

Write(i) ==
  /\ jobs[i].pc = "writing"
  /\ \E r \in jobs[i].todo, result \in Results(jobs[i].flow) :
       /\ jobs' = [jobs EXCEPT ![i].todo = @ \ {r}, ![i].outcome[r] = result]
       /\ \/ live' = [live EXCEPT ![r] = Payload(jobs[i], r)]
          \/ result # "success" /\ UNCHANGED live
  /\ UNCHANGED <<history, durable, failures>>

Failed(run) == {r \in Rules : run.outcome[r] \in {"error", "unverified"}}
Unverified(run) == {r \in Rules : run.outcome[r] = "unverified"}

\* deploy: audit records, the state file merged, the exit code suppressed,
\* and the smoke check that fails the job on an unverified rule.
ReportDeploy(i) ==
  LET run == jobs[i] IN
  /\ run.flow = "deploy" /\ run.pc = "writing" /\ run.todo = {}
  /\ failures' = IF \E r \in Rules : run.outcome[r] # "none" THEN Failed(run) ELSE failures
  /\ IF Unverified(run) # {} THEN Leave(i, "failed")
     ELSE jobs' = [jobs EXCEPT
                     ![i].pc = "publishing",
                     ![i].state = MergeApplyResults(run.state, run.sha, run.outcome)]
  /\ UNCHANGED <<history, live, durable>>

\* rollback, retry-failed, prune: audit records, and exit 1 on a failure.
ReportDispatched(i) ==
  LET run == jobs[i] IN
  /\ run.flow # "deploy" /\ run.pc = "writing" /\ run.todo = {}
  /\ IF Failed(run) # {} THEN Leave(i, "failed")
     ELSE jobs' = [jobs EXCEPT ![i].pc = "publishing"]
  /\ UNCHANGED <<history, live, durable, failures>>

\* state sync push: the run's file replaces whatever the branch holds.
Publish(i) ==
  /\ jobs[i].pc = "publishing"
  /\ \/ /\ durable' = IF jobs[i].state.exists THEN jobs[i].state ELSE durable
        /\ Leave(i, "done")
     \/ /\ jobs[i].state.exists
        /\ Leave(i, "failed")
        /\ UNCHANGED durable
  /\ UNCHANGED <<history, live, failures>>

\* The approval is denied, the runner is lost or the job times out.
Crash(i) ==
  /\ jobs[i].pc \in Holding
  /\ Leave(i, "failed")
  /\ UNCHANGED <<history, live, durable, failures>>
-----------------------------------------------------------------------------
Init ==
  /\ \E S \in SUBSET Rules :
       /\ history = <<[r \in Rules |->
                         IF r \in S
                         THEN [text |-> 1, status |-> "production", locked |-> FALSE]
                         ELSE Absent]>>
       /\ live = [r \in Rules |-> IF r \in S THEN 1 ELSE 0]
       /\ durable = [exists  |-> S # {},
                     entries |-> {[rule |-> r, sha |-> 1, ok |-> TRUE] : r \in S}]
  /\ failures = {}
  /\ jobs = <<>>

Step(i) ==
  \/ StartDeploy(i) \/ StartRollback(i) \/ StartRetry(i) \/ StartPrune(i)
  \/ Write(i) \/ ReportDeploy(i) \/ ReportDispatched(i) \/ Publish(i)

Next ==
  \/ Merge
  \/ \E flow \in Flows : Dispatch(flow)
  \/ \E i \in DOMAIN jobs : Step(i) \/ Crash(i)

Spec == Init /\ [][Next]_vars

\* GitHub gives a run that holds its group a runner, or ends it, and the
\* commands do not stop of themselves.
FairSpec ==
  Spec /\ \A i \in 1..MaxRuns : WF_vars(i \in DOMAIN jobs /\ Step(i))
-----------------------------------------------------------------------------
(* What the runs promise.                                                  *)

File == [text : Nat, status : Statuses \cup {"none", "production"}, locked : BOOLEAN]
StateFile(shas) ==
  [exists : BOOLEAN, entries : SUBSET [rule : Rules, sha : shas, ok : BOOLEAN]]
Run(shas) ==
  [flow : {"deploy"} \cup Flows, sha : shas, base : shas, todo : SUBSET Rules,
   pc : {"pending"} \cup Holding \cup Over,
   outcome : [Rules -> {"none", "success", "error", "unverified"}],
   state : StateFile(shas)]

\* Type invariant.
TypeOK ==
  /\ history \in Seq([Rules -> File]) /\ Len(history) \in 1..MaxCommits
  /\ live \in [Rules -> 0..Len(history)]
  /\ durable \in StateFile(1..Len(history))
  /\ failures \subseteq Rules
  /\ jobs \in Seq(Run(1..Len(history))) /\ Len(jobs) <= MaxRuns

\* Two runs of a concurrency group are never both past its queue, and at
\* most one waits in it: a rollback or a retry does not race a deploy.
OneWriterPerGroup ==
  \A i, j \in DOMAIN jobs :
    /\ i # j
    /\ jobs[i].flow = "prune" <=> jobs[j].flow = "prune"
    => /\ ~(jobs[i].pc \in Holding /\ jobs[j].pc \in Holding)
       /\ ~(jobs[i].pc = "pending" /\ jobs[j].pc = "pending")

\* What is live was at some commit of main in a status that may go to prod,
\* with that body: no flow, and no sequence of failures, edits, rollbacks and
\* retries, brings a text live that was never cleared for it.
OnlyClearedTextsLive ==
  \A r \in Rules : live[r] # 0 =>
    \E k \in DOMAIN history : Source(k, r).text = live[r] /\ EnvStatus(Source(k, r))

\* Run i put rule r through its handler in this step.
Handled(i, r) ==
  i \in DOMAIN jobs /\ jobs[i].pc = "writing" /\ r \in jobs[i].todo \ jobs'[i].todo

\* A rule's text goes back to an older one by a rollback alone: a deploy or a
\* retry that waited in the queue never undoes a newer one.
OnlyRollbackGoesBack ==
  [][\A r \in Rules : 0 < live'[r] /\ live'[r] < live[r] =>
       \E i \in DOMAIN jobs : jobs[i].flow = "rollback" /\ Handled(i, r)]_vars

\* apply and rollback write no rule that is locked in their own checkout,
\* though a rollback replays the body of a commit before the lock.
ReplaysHonourLocks ==
  [][\A i \in DOMAIN jobs, r \in Rules :
       Handled(i, r) /\ jobs[i].flow # "retry" => ~IsLocked(Source(jobs[i].sha, r))]_vars

\* Nor does any run: a lock keeps deploys away from the rule (glossary.md:229).
\* It does not hold: retry-failed does not look at locks (lifecycle.py:502).
LocksHold ==
  [][\A i \in DOMAIN jobs, r \in Rules :
       Handled(i, r) => ~IsLocked(Source(jobs[i].sha, r))]_vars

\* The durable state tells of every rule a successful deploy wrote, at that
\* deploy's commit or a later one, whatever ran or failed since.
SuccessIsRemembered ==
  \A i \in DOMAIN jobs, r \in Rules :
    jobs[i].flow = "deploy" /\ jobs[i].pc = "done" /\ jobs[i].outcome[r] = "success"
      => \E e \in durable.entries : e.rule = r /\ e.sha >= jobs[i].sha

\* A prune deletes no more than its cap, nothing its checkout has a file for,
\* and nothing of a kind its checkout has no file of.
PruneStaysInBounds ==
  \A i \in DOMAIN jobs : jobs[i].flow = "prune" =>
    LET deleted == {r \in Rules : jobs[i].outcome[r] # "none"} IN
    /\ Cardinality(deleted) <= MaxDeletes
    /\ \A r \in deleted :
         /\ ~Present(Source(jobs[i].sha, r))
         /\ \E s \in Rules : Kind[s] = Kind[r] /\ Present(Source(jobs[i].sha, s))

\* A prune deletes only what has no file on main (workflows.md:74).  It does not
\* hold: prune.yml has a group of its own, and its run compares the tenant of now
\* with the checkout of its dispatch.
PruneSparesMain ==
  [][\A r \in Rules : live[r] # 0 /\ live'[r] = 0 => ~Present(Main[r])]_vars

\* When no run is left, what main has cleared and not locked is live, unless
\* a run took it up and it failed, or the run itself did (how-it-works.md:84).
\* It does not hold: a third merge cancels the pending deploy of the second, and
\* deploys only what it changed itself (deploy.yml:228).
MergesLand ==
  (\A i \in DOMAIN jobs : jobs[i].pc \in Over) =>
    \A r \in Rules :
      EnvStatus(Main[r]) /\ ~IsLocked(Main[r]) /\ live[r] # Main[r].text =>
        \E i \in DOMAIN jobs :
          /\ Source(jobs[i].sha, r).text = Main[r].text
          /\ jobs[i].pc = "failed" \/ jobs[i].outcome[r] \in {"error", "unverified"}

\* Every run that is triggered ends: it finishes, fails or gives up its place.
EveryRunEnds ==
  \A i \in 1..MaxRuns : i \in DOMAIN jobs ~> i \in DOMAIN jobs /\ jobs[i].pc \in Over
=============================================================================
