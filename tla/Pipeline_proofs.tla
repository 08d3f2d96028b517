-------------------------- MODULE Pipeline_proofs --------------------------
(***************************************************************************)
(* Proofs about Pipeline, for every set of rules, kinds and bounds.        *)
(***************************************************************************)
EXTENDS Pipeline, FiniteSetTheorems, SequenceTheorems, TLAPS

Shas == 1..Len(history)
Ids == 1..Len(jobs)

\* A function on 1..n with values in S is a sequence over S.
LEMMA FunctionIsSeq ==
  ASSUME NEW S, NEW n \in Nat, NEW f \in [1..n -> S]
  PROVE  f \in Seq(S) /\ Len(f) = n /\ DOMAIN f = 1..n
  OBVIOUS

LEMMA AppendFacts ==
  ASSUME NEW S, NEW s \in Seq(S), NEW e \in S
  PROVE  /\ Append(s, e) \in Seq(S)
         /\ Len(Append(s, e)) = Len(s) + 1
         /\ \A i \in 1..Len(s) : Append(s, e)[i] = s[i]
         /\ Append(s, e)[Len(s) + 1] = e
  OBVIOUS

\* What the type invariant says of one run and of the sequences.
LEMMA Types ==
  ASSUME TypeOK
  PROVE  /\ Len(history) \in Nat /\ Len(jobs) \in Nat
         /\ DOMAIN history = Shas /\ DOMAIN jobs = Ids
         /\ \A i \in Ids : jobs[i] \in Run(Shas)
         /\ \A k \in Shas : history[k] \in [Rules -> File]
         /\ jobs \in [Ids -> Run(Shas)]
  BY LenProperties, ElementOfSeq, PipelineAssumption DEF TypeOK, Shas, Ids
-----------------------------------------------------------------------------
(* What the operators that change the runs do to each of them.             *)

\* Run j is of the same flow, for the same commits.
Fixed(j) ==
  /\ jobs'[j].flow = jobs[j].flow /\ jobs'[j].sha = jobs[j].sha
  /\ jobs'[j].base = jobs[j].base

\* Run j keeps everything but its place.
Keeps(j) ==
  /\ Fixed(j) /\ jobs'[j].todo = jobs[j].todo
  /\ jobs'[j].outcome = jobs[j].outcome /\ jobs'[j].state = jobs[j].state

Nothing == [r \in Rules |-> "none"]

\* A run that has just been triggered.
Triggered(flow, sha, base, todo) ==
  [flow : {flow}, sha : {sha}, base : {base}, todo : {todo},
   pc : {"pending", "waiting"}, outcome : {Nothing}, state : {NoState}]

Waits(j, flow) == jobs[j].pc = "pending" /\ SameGroup(j, flow)

LEMMA QueueEffect ==
  ASSUME TypeOK, NEW flow \in {"deploy"} \cup Flows, NEW T, Shas \subseteq T,
         NEW sha \in T, NEW base \in T, NEW todo \in SUBSET Rules,
         Queue(flow, sha, base, todo)
  PROVE  /\ jobs' \in Seq(Run(T)) /\ Len(jobs') = Len(jobs) + 1 /\ Len(jobs') <= MaxRuns
         /\ \A j \in Ids :
              /\ Keeps(j)
              /\ jobs'[j].pc = IF Waits(j, flow) THEN "cancelled" ELSE jobs[j].pc
         /\ jobs'[Len(jobs) + 1] \in Triggered(flow, sha, base, todo)
         /\ jobs'[Len(jobs) + 1].pc = "waiting" =>
              \A j \in Ids : SameGroup(j, flow) => jobs[j].pc \notin Holding
  <1> DEFINE busy == \E j \in DOMAIN jobs : SameGroup(j, flow) /\ jobs[j].pc \in Holding
             run  == [flow |-> flow, sha |-> sha, base |-> base, todo |-> todo,
                      pc |-> IF busy THEN "pending" ELSE "waiting",
                      outcome |-> [r \in Rules |-> "none"], state |-> NoState]
             rest == [j \in DOMAIN jobs |->
                        IF jobs[j].pc = "pending" /\ SameGroup(j, flow)
                        THEN [jobs[j] EXCEPT !.pc = "cancelled"] ELSE jobs[j]]
  <1>1. jobs' = Append(rest, run) /\ Len(jobs) < MaxRuns
    BY DEF Queue
  <1>2. \A j \in Ids : jobs[j] \in Run(Shas) /\ jobs[j] \in Run(T)
    BY Types DEF Run, StateFile
  <1>3. rest \in [1..Len(jobs) -> Run(T)]
    <2>1. \A j \in Ids : [jobs[j] EXCEPT !.pc = "cancelled"] \in Run(T)
      BY <1>2 DEF Run, Over
    <2> QED
      BY <1>2, <2>1, Types DEF Ids
  <1>4. rest \in Seq(Run(T)) /\ Len(rest) = Len(jobs) /\ DOMAIN rest = Ids
    BY <1>3, Types, FunctionIsSeq DEF Ids
  <1>5. run \in Run(T)
    BY DEF Run, StateFile, NoState, Holding
  <1> HIDE DEF rest, run
  <1>6. /\ Append(rest, run) \in Seq(Run(T))
        /\ Len(Append(rest, run)) = Len(rest) + 1
        /\ \A j \in 1..Len(rest) : Append(rest, run)[j] = rest[j]
        /\ Append(rest, run)[Len(rest) + 1] = run
    BY <1>4, <1>5, AppendFacts
  <1>7. \A j \in Ids : jobs'[j] = rest[j]
    BY <1>1, <1>4, <1>6 DEF Ids
  <1>8. jobs'[Len(jobs) + 1] = run
    BY <1>1, <1>4, <1>6
  <1>9. jobs' \in Seq(Run(T)) /\ Len(jobs') = Len(jobs) + 1 /\ Len(jobs') <= MaxRuns
    BY <1>1, <1>4, <1>6, Types, PipelineAssumption
  <1>10. ASSUME NEW j \in Ids
         PROVE  Keeps(j) /\ jobs'[j].pc = IF Waits(j, flow) THEN "cancelled" ELSE jobs[j].pc
    BY <1>2, <1>7, Types DEF rest, Keeps, Fixed, Waits, Run
  <1>11. run \in Triggered(flow, sha, base, todo)
    BY DEF run, Nothing, Triggered
  <1>12. run.pc = "waiting" => \A j \in Ids : SameGroup(j, flow) => jobs[j].pc \notin Holding
    BY Types DEF run
  <1> QED
    BY <1>8, <1>9, <1>10, <1>11, <1>12

LEMMA LeaveEffect ==
  ASSUME TypeOK, NEW i \in Ids, NEW p \in Over, Leave(i, p)
  PROVE  /\ jobs' \in Seq(Run(Shas)) /\ Len(jobs') = Len(jobs)
         /\ \A j \in Ids : Keeps(j)
         /\ jobs'[i].pc = p
         /\ \A j \in Ids \ {i} :
              jobs'[j].pc = IF Waits(j, jobs[i].flow) THEN "waiting" ELSE jobs[j].pc
  <1>1. \A j \in Ids : jobs[j] \in Run(Shas)
    BY Types
  <1>2. \A j \in Ids, q \in Over \cup Holding : [jobs[j] EXCEPT !.pc = q] \in Run(Shas)
    BY <1>1 DEF Run
  <1>3. /\ jobs'[i] = [jobs[i] EXCEPT !.pc = p]
        /\ \A j \in Ids \ {i} :
             jobs'[j] = IF Waits(j, jobs[i].flow) THEN [jobs[j] EXCEPT !.pc = "waiting"] ELSE jobs[j]
        /\ DOMAIN jobs' = Ids
    BY Types DEF Leave, Waits
  <1>4. \A j \in Ids : jobs'[j] \in Run(Shas)
    BY <1>1, <1>2, <1>3 DEF Holding
  <1>5. jobs' \in [1..Len(jobs) -> Run(Shas)]
    BY <1>3, <1>4, Types DEF Leave, Ids
  <1>6. jobs' \in Seq(Run(Shas)) /\ Len(jobs') = Len(jobs)
    BY <1>5, Types, FunctionIsSeq
  <1>7. \A j \in Ids : Keeps(j)
    BY <1>1, <1>3 DEF Keeps, Fixed, Run
  <1>8. jobs'[i].pc = p
    BY <1>1, <1>3 DEF Run
  <1>9. \A j \in Ids \ {i} :
              jobs'[j].pc = IF Waits(j, jobs[i].flow) THEN "waiting" ELSE jobs[j].pc
    BY <1>1, <1>3 DEF Run
  <1> QED
    BY <1>6, <1>7, <1>8, <1>9

\* A step that replaces the record of one run.
LEMMA UpdateEffect ==
  ASSUME TypeOK, NEW i \in Ids, NEW run \in Run(Shas), jobs' = [jobs EXCEPT ![i] = run]
  PROVE  /\ jobs' \in Seq(Run(Shas)) /\ Len(jobs') = Len(jobs)
         /\ jobs'[i] = run
         /\ \A j \in Ids \ {i} : jobs'[j] = jobs[j]
  <1>1. jobs \in Seq(Run(Shas)) /\ i \in 1..Len(jobs)
    BY DEF TypeOK, Ids, Shas
  <1> QED
    BY <1>1, ExceptSeq, Types DEF Ids

-----------------------------------------------------------------------------
(* The inductive invariant.                                                *)

Active == Holding \cup {"pending"}

\* The commit a run takes the texts from.
From(run) == IF run.flow = "rollback" THEN run.base ELSE run.sha

\* A text is as old as it says, and a file that stays never gets an older one.
Texts ==
  \A k \in Shas, r \in Rules :
    /\ Source(k, r).text <= k
    /\ ~Present(Source(k, r)) => ~IsLocked(Source(k, r))
    /\ \A m \in Shas :
         k <= m /\ Present(Source(k, r)) /\ Present(Source(m, r))
           => Source(k, r).text <= Source(m, r).text

\* Runs of a group get it in the order of the commits they are for.
Ordered ==
  \A i, j \in Ids :
    /\ i # j /\ SameGroup(i, jobs[j].flow)
    /\ jobs[i].pc \in Holding \cup {"done"} /\ jobs[j].pc \in Active
    => jobs[i].sha <= jobs[j].sha

\* A run that has not begun has written nothing.
Fresh ==
  \A i \in Ids :
    /\ jobs[i].base <= jobs[i].sha
    /\ jobs[i].pc \in {"pending", "waiting"} => jobs[i].outcome = Nothing
    /\ jobs[i].pc \in {"pending", "waiting"} /\ jobs[i].flow = "prune" => jobs[i].todo = {}

\* What a run may take up.
Admits(run, todo) ==
  /\ run.flow # "prune" => \A r \in todo : EnvStatus(Source(From(run), r))
  /\ run.flow # "retry" => \A r \in todo : ~IsLocked(Source(run.sha, r))

Scoped == \A i \in Ids : jobs[i].pc = "writing" => Admits(jobs[i], jobs[i].todo)

\* What a prune may delete.
Spares(run, doomed) ==
  /\ Cardinality(doomed) <= MaxDeletes
  /\ \A r \in doomed :
       /\ ~Present(Source(run.sha, r))
       /\ \E s \in Rules : Kind[s] = Kind[r] /\ Present(Source(run.sha, s))

\* What a run has written or is about to.
Touched(run) == run.todo \cup {r \in Rules : run.outcome[r] # "none"}

Bounded == \A i \in Ids : jobs[i].flow = "prune" => Spares(jobs[i], Touched(jobs[i]))

\* What is live was cleared at a commit no later than that of any run that
\* may still write.
Traced ==
  \A r \in Rules : live[r] # 0 =>
    \E k \in Shas :
      /\ Source(k, r).text = live[r] /\ EnvStatus(Source(k, r))
      /\ \A i \in Ids :
           jobs[i].flow # "prune" /\ jobs[i].pc \in Active => k <= jobs[i].sha

IInv ==
  /\ TypeOK /\ OneWriterPerGroup /\ Texts /\ Ordered /\ Fresh
  /\ Scoped /\ Bounded /\ Traced
-----------------------------------------------------------------------------
(* The steps, by what they do to the runs.                                 *)

\* Run i begins.
Begins(i) ==
  /\ jobs[i].pc = "waiting"
  /\ \E todo \in SUBSET Rules :
       /\ Begin(i, todo)
       /\ Admits(jobs[i], todo)
       /\ jobs[i].flow = "prune" => Spares(jobs[i], todo)

\* Run i ends.
Ends(i) ==
  /\ jobs[i].pc \in Holding
  /\ \/ Leave(i, "failed") /\ UNCHANGED durable
     \/ /\ jobs[i].pc = "publishing" /\ Leave(i, "done")
        /\ durable' = IF jobs[i].state.exists THEN jobs[i].state ELSE durable
  /\ UNCHANGED <<history, live>>
  /\ failures' \in {failures, Failed(jobs[i])}

\* The state file of a run after its report.
Reported(run) ==
  IF run.flow = "deploy" THEN MergeApplyResults(run.state, run.sha, run.outcome) ELSE run.state

\* Run i has reported and goes on to push its state.
Reports(i) ==
  /\ jobs[i].pc = "writing"
  /\ jobs' = [jobs EXCEPT ![i].pc = "publishing", ![i].state = Reported(jobs[i])]
  /\ UNCHANGED <<history, live, durable>>
  /\ failures' \in {failures, Failed(jobs[i])}

LEMMA StartsBegin ==
  ASSUME TypeOK, Texts, Fresh, NEW i \in Ids,
         StartDeploy(i) \/ StartRollback(i) \/ StartRetry(i) \/ StartPrune(i)
  PROVE  Begins(i) \/ Ends(i)
  <1> USE DEF Begins, Ends, Refuse, Holding
  <1>0. jobs[i] \in Run(Shas)
    BY Types
  <1>1. CASE StartDeploy(i)
    <2>1. DeployScope(jobs[i]) \subseteq Rules /\ Admits(jobs[i], DeployScope(jobs[i]))
      BY <1>1 DEF StartDeploy, DeployScope, Admits, From
    <2> QED
      BY <1>1, <2>1 DEF StartDeploy
  <1>2. CASE StartRollback(i)
    <2>1. RollbackScope(jobs[i]) \subseteq Rules /\ Admits(jobs[i], RollbackScope(jobs[i]))
      BY <1>0, <1>2 DEF StartRollback, RollbackScope, Admits, From, Run
    <2> QED
      BY <1>2, <2>1 DEF StartRollback
  <1>3. CASE StartRetry(i)
    <2>1. RetryScope(jobs[i]) \subseteq Rules /\ Admits(jobs[i], RetryScope(jobs[i]))
      BY <1>0, <1>3 DEF StartRetry, RetryScope, Admits, From, TypeOK
    <2> QED
      BY <1>3, <2>1 DEF StartRetry
  <1>4. CASE StartPrune(i)
    <2>1. PICK listed \in SUBSET {Kind[r] : r \in Rules} :
            IF \/ listed = {}
               \/ EmptyKinds(jobs[i], listed) # {}
               \/ Cardinality(Orphans(jobs[i], listed)) > MaxDeletes
            THEN Refuse(i)
            ELSE Begin(i, Orphans(jobs[i], listed))
      BY <1>4 DEF StartPrune
    <2>2. CASE Refuse(i)
      BY <1>4, <2>2 DEF StartPrune
    <2>3. CASE ~Refuse(i)
      <3>1. /\ EmptyKinds(jobs[i], listed) = {}
            /\ ~(Cardinality(Orphans(jobs[i], listed)) > MaxDeletes)
            /\ Begin(i, Orphans(jobs[i], listed))
        BY <2>1, <2>3
      <3>2. Orphans(jobs[i], listed) \subseteq Rules
        BY DEF Orphans, Unsourced
      <3>3. Cardinality(Orphans(jobs[i], listed)) <= MaxDeletes
        <4>1. Cardinality(Orphans(jobs[i], listed)) \in Nat
          BY <3>2, FS_Subset, FS_CardinalityType, PipelineAssumption
        <4> QED
          BY <3>1, <4>1, PipelineAssumption
      <3>4. \A r \in Orphans(jobs[i], listed) : ~Present(Source(jobs[i].sha, r))
        BY DEF Orphans, Unsourced
      <3>5. \A r \in Orphans(jobs[i], listed) :
              \E s \in Rules : Kind[s] = Kind[r] /\ Present(Source(jobs[i].sha, s))
        BY <3>1 DEF Orphans, Unsourced, EmptyKinds
      <3>6. \A r \in Orphans(jobs[i], listed) : ~IsLocked(Source(jobs[i].sha, r))
        BY <1>0, <3>2, <3>4 DEF Texts, Run
      <3> QED
        BY <1>4, <3>1, <3>2, <3>3, <3>4, <3>5, <3>6 DEF StartPrune, Admits, Spares
    <2> QED
      BY <2>2, <2>3
  <1> QED
    BY <1>1, <1>2, <1>3, <1>4

LEMMA OthersEndOrReport ==
  ASSUME TypeOK, NEW i \in Ids,
         ReportDeploy(i) \/ ReportDispatched(i) \/ Publish(i) \/ Crash(i)
  PROVE  Ends(i) \/ Reports(i)
  <1>0. jobs[i] \in Run(Shas)
    BY Types
  <1>1. CASE ReportDeploy(i)
    BY <1>1 DEF ReportDeploy, Ends, Reports, Reported, Holding
  <1>2. CASE ReportDispatched(i)
    <2>1. CASE Failed(jobs[i]) # {}
      BY <1>2, <2>1 DEF ReportDispatched, Ends, Holding
    <2>2. CASE Failed(jobs[i]) = {}
      <3>1. jobs' = [jobs EXCEPT ![i].pc = "publishing", ![i].state = jobs[i].state]
        BY <1>0, <1>2, <2>2, Types DEF ReportDispatched, Run
      <3> QED
        BY <1>2, <3>1 DEF ReportDispatched, Reports, Reported
    <2> QED
      BY <2>1, <2>2
  <1>3. CASE Publish(i)
    BY <1>3 DEF Publish, Ends, Holding
  <1>4. CASE Crash(i)
    BY <1>4 DEF Crash, Ends
  <1> QED
    BY <1>1, <1>2, <1>3, <1>4

LEMMA MergeType ==
  ASSUME NEW shas, NEW state \in StateFile(shas), NEW sha \in shas, NEW outcome
  PROVE  MergeApplyResults(state, sha, outcome) \in StateFile(shas)
  <1> DEFINE applied == {r \in Rules : outcome[r] # "none"}
             Entry == [rule : Rules, sha : shas, ok : BOOLEAN]
             kept == {e \in state.entries : e.rule \notin applied}
             new == {[rule |-> r, sha |-> sha, ok |-> outcome[r] = "success"] : r \in applied}
  <1>1. kept \subseteq Entry
    BY DEF StateFile
  <1>2. \A r \in applied : [rule |-> r, sha |-> sha, ok |-> outcome[r] = "success"] \in Entry
    OBVIOUS
  <1>3. new \subseteq Entry
    BY <1>2
  <1> HIDE DEF kept, new
  <1>4. [exists |-> TRUE, entries |-> kept \cup new] \in StateFile(shas)
    BY <1>1, <1>3 DEF StateFile
  <1>5. MergeApplyResults(state, sha, outcome)
          \in {state, [exists |-> TRUE, entries |-> kept \cup new]}
    BY DEF MergeApplyResults, kept, new
  <1> QED
    BY <1>4, <1>5

LEMMA BeginEffect ==
  ASSUME TypeOK, NEW i \in Ids, NEW todo \in SUBSET Rules, Begin(i, todo)
  PROVE  /\ jobs' \in Seq(Run(Shas)) /\ Len(jobs') = Len(jobs)
         /\ \A j \in Ids \ {i} : jobs'[j] = jobs[j]
         /\ Fixed(i) /\ jobs'[i].pc = "writing" /\ jobs'[i].todo = todo
         /\ jobs'[i].outcome = jobs[i].outcome
         /\ jobs'[i].state \in {durable} \cup (IF FetchMayFail THEN {NoState} ELSE {})
  <1>1. PICK state \in {durable} \cup (IF FetchMayFail THEN {NoState} ELSE {}) :
          jobs' = [jobs EXCEPT ![i].pc = "writing", ![i].todo = todo, ![i].state = state]
    BY DEF Begin
  <1> DEFINE run == [jobs[i] EXCEPT !.pc = "writing", !.todo = todo, !.state = state]
  <1>2. jobs[i] \in Run(Shas) /\ jobs \in [Ids -> Run(Shas)]
    BY Types
  <1>3. state \in StateFile(Shas)
    <2>1. durable \in StateFile(Shas)
      BY DEF TypeOK, Shas
    <2>2. NoState \in StateFile(Shas)
      BY DEF NoState, StateFile
    <2> QED
      BY <2>1, <2>2
  <1>4. run \in Run(Shas)
    BY <1>2, <1>3 DEF Run, Holding
  <1>5. jobs' = [jobs EXCEPT ![i] = run]
    BY <1>1, <1>2
  <1>6. /\ run.flow = jobs[i].flow /\ run.sha = jobs[i].sha /\ run.base = jobs[i].base
        /\ run.pc = "writing" /\ run.todo = todo /\ run.outcome = jobs[i].outcome
        /\ run.state = state
    BY <1>2 DEF Run
  <1> HIDE DEF run
  <1> QED
    BY <1>4, <1>5, <1>6, UpdateEffect DEF Fixed

LEMMA ReportEffect ==
  ASSUME TypeOK, NEW i \in Ids, Reports(i)
  PROVE  /\ jobs' \in Seq(Run(Shas)) /\ Len(jobs') = Len(jobs)
         /\ \A j \in Ids \ {i} : jobs'[j] = jobs[j]
         /\ Fixed(i) /\ jobs'[i].pc = "publishing" /\ jobs'[i].todo = jobs[i].todo
         /\ jobs'[i].outcome = jobs[i].outcome /\ jobs'[i].state = Reported(jobs[i])
  <1>1. PICK state : /\ state = Reported(jobs[i])
                     /\ jobs' = [jobs EXCEPT ![i].pc = "publishing", ![i].state = state]
    BY DEF Reports
  <1> DEFINE run == [jobs[i] EXCEPT !.pc = "publishing", !.state = state]
  <1>2. jobs[i] \in Run(Shas) /\ jobs \in [Ids -> Run(Shas)]
    BY Types
  <1>3. jobs[i].state \in StateFile(Shas) /\ jobs[i].sha \in Shas
    BY <1>2 DEF Run
  <1>4. state \in StateFile(Shas)
    BY <1>1, <1>3, MergeType DEF Reported
  <1>5. run \in Run(Shas)
    BY <1>2, <1>3, <1>4 DEF Run, Holding
  <1>6. jobs' = [jobs EXCEPT ![i] = run]
    BY <1>1, <1>2
  <1>7. /\ run.flow = jobs[i].flow /\ run.sha = jobs[i].sha /\ run.base = jobs[i].base
        /\ run.pc = "publishing" /\ run.todo = jobs[i].todo /\ run.outcome = jobs[i].outcome
        /\ run.state = Reported(jobs[i])
    BY <1>1, <1>2 DEF Run
  <1> HIDE DEF run
  <1> QED
    BY <1>5, <1>6, <1>7, UpdateEffect DEF Fixed

LEMMA WriteEffect ==
  ASSUME TypeOK, NEW i \in Ids, Write(i)
  PROVE  /\ jobs' \in Seq(Run(Shas)) /\ Len(jobs') = Len(jobs)
         /\ \A j \in Ids \ {i} : jobs'[j] = jobs[j]
         /\ Fixed(i) /\ jobs'[i].pc = "writing" /\ jobs'[i].state = jobs[i].state
         /\ \E r \in jobs[i].todo :
              /\ jobs'[i].todo = jobs[i].todo \ {r}
              /\ jobs'[i].outcome[r] \in {"success", "error", "unverified"}
              /\ \A q \in Rules \ {r} : jobs'[i].outcome[q] = jobs[i].outcome[q]
              /\ live' \in {live, [live EXCEPT ![r] = Payload(jobs[i], r)]}
  <1>1. PICK r \in jobs[i].todo, result \in Results(jobs[i].flow) :
          /\ jobs' = [jobs EXCEPT ![i].todo = @ \ {r}, ![i].outcome[r] = result]
          /\ \/ live' = [live EXCEPT ![r] = Payload(jobs[i], r)]
             \/ result # "success" /\ UNCHANGED live
    BY DEF Write
  <1> DEFINE run == [jobs[i] EXCEPT !.todo = jobs[i].todo \ {r},
                                   !.outcome = [jobs[i].outcome EXCEPT ![r] = result]]
  <1>2. /\ jobs[i] \in Run(Shas) /\ jobs \in [Ids -> Run(Shas)]
        /\ result \in {"success", "error", "unverified"}
    BY Types DEF Results
  <1>3. jobs[i].todo \subseteq Rules
    BY <1>2 DEF Run
  <1>4. [jobs[i].outcome EXCEPT ![r] = result]
          \in [Rules -> {"none", "success", "error", "unverified"}]
    BY <1>2, <1>3 DEF Run
  <1>5. run \in Run(Shas)
    BY <1>2, <1>3, <1>4 DEF Run
  <1>6. jobs' = [jobs EXCEPT ![i] = run]
    BY <1>1, <1>2
  <1>7. /\ run.flow = jobs[i].flow /\ run.sha = jobs[i].sha /\ run.base = jobs[i].base
        /\ run.pc = jobs[i].pc /\ run.todo = jobs[i].todo \ {r} /\ run.state = jobs[i].state
        /\ run.outcome = [jobs[i].outcome EXCEPT ![r] = result]
    BY <1>2 DEF Run
  <1>8. /\ run.outcome[r] = result
        /\ \A q \in Rules \ {r} : run.outcome[q] = jobs[i].outcome[q]
    BY <1>2, <1>3, <1>7 DEF Run
  <1>9. jobs[i].pc = "writing"
    BY DEF Write
  <1> HIDE DEF run
  <1>10. /\ jobs' \in Seq(Run(Shas)) /\ Len(jobs') = Len(jobs) /\ jobs'[i] = run
         /\ \A j \in Ids \ {i} : jobs'[j] = jobs[j]
    BY <1>5, <1>6, UpdateEffect
  <1>11. Fixed(i) /\ jobs'[i].pc = "writing" /\ jobs'[i].state = jobs[i].state
    BY <1>7, <1>9, <1>10 DEF Fixed
  <1>12. live' \in {live, [live EXCEPT ![r] = Payload(jobs[i], r)]}
    BY <1>1
  <1>13. /\ jobs'[i].todo = jobs[i].todo \ {r}
         /\ jobs'[i].outcome[r] \in {"success", "error", "unverified"}
         /\ \A q \in Rules \ {r} : jobs'[i].outcome[q] = jobs[i].outcome[q]
    BY <1>2, <1>7, <1>8, <1>10
  <1> QED
    BY <1>10, <1>11, <1>12, <1>13

-----------------------------------------------------------------------------
(* The invariant is inductive: one lemma per kind of step.                 *)

LEMMA PcTypes ==
  ASSUME TypeOK
  PROVE  /\ \A i \in Ids :
              /\ jobs[i].pc \in Active \cup Over /\ jobs[i].todo \subseteq Rules
              /\ jobs[i].sha \in Shas /\ jobs[i].base \in Shas /\ From(jobs[i]) \in Shas
         /\ \A i \in Ids : \A flow :
              SameGroup(i, flow) <=> (jobs[i].flow = "prune" <=> flow = "prune")
  BY Types DEF Run, Active, From, SameGroup, Group

LEMMA Alone ==
  ASSUME TypeOK
  PROVE  OneWriterPerGroup <=>
           \A i, j \in Ids :
             i # j /\ SameGroup(i, jobs[j].flow)
               => /\ ~(jobs[i].pc \in Holding /\ jobs[j].pc \in Holding)
                  /\ ~(jobs[i].pc = "pending" /\ jobs[j].pc = "pending")
  BY Types, PcTypes DEF OneWriterPerGroup

LEMMA SparesKept ==
  ASSUME NEW j, Spares(jobs[j], Touched(jobs[j])), Fixed(j),
         history'[jobs[j].sha] = history[jobs[j].sha],
         Touched(jobs[j])' = Touched(jobs[j])
  PROVE  Spares(jobs[j], Touched(jobs[j]))'
  BY DEF Spares, Fixed, Source

LEMMA EndStep ==
  ASSUME IInv, NEW i \in Ids, Ends(i)
  PROVE  IInv'
  <1> USE DEF IInv
  <1>1. PICK p \in {"done", "failed"} : Leave(i, p)
    BY DEF Ends
  <1>2. jobs[i].pc \in Holding /\ UNCHANGED <<history, live>>
    BY DEF Ends
  <1>3. /\ jobs' \in Seq(Run(Shas)) /\ Len(jobs') = Len(jobs)
        /\ \A j \in Ids : Keeps(j)
        /\ jobs'[i].pc = p
        /\ \A j \in Ids \ {i} :
             jobs'[j].pc = IF Waits(j, jobs[i].flow) THEN "waiting" ELSE jobs[j].pc
    BY <1>1, LeaveEffect DEF Over
  <1>4. TypeOK'
    <2>1. durable' \in StateFile(Shas) /\ failures' \subseteq Rules
      BY Types DEF Ends, Failed, TypeOK, Shas, Run
    <2> QED
      BY <1>2, <1>3, <2>1 DEF TypeOK, Shas
  <1>5. Ids' = Ids /\ Shas' = Shas
    BY <1>2, <1>3 DEF Ids, Shas
  <1>6. \A j, k \in Ids : SameGroup(j, jobs[k].flow)' <=> SameGroup(j, jobs[k].flow)
    BY <1>3 DEF SameGroup, Keeps, Fixed
  <1>7. \A j \in Ids \ {i} :
          \/ jobs'[j].pc = jobs[j].pc
          \/ Waits(j, jobs[i].flow) /\ jobs'[j].pc = "waiting"
    BY <1>3
  <1>8. OneWriterPerGroup'
    <2>1. DOMAIN jobs' = Ids
      BY <1>3, LenProperties DEF Ids
    <2> SUFFICES ASSUME NEW a \in Ids, NEW b \in Ids, a # b, SameGroup(a, jobs[b].flow)
                 PROVE  /\ ~(jobs'[a].pc \in Holding /\ jobs'[b].pc \in Holding)
                        /\ ~(jobs'[a].pc = "pending" /\ jobs'[b].pc = "pending")
      BY <1>3, <2>1, PcTypes DEF OneWriterPerGroup, Keeps, Fixed
    <2> QED
      BY <1>2, <1>3, <1>7, PcTypes, Alone DEF Waits, Holding
  <1>9. Texts'
    BY <1>2, <1>5 DEF Texts, Source
  <1>10. Ordered'
    <2> SUFFICES ASSUME NEW a \in Ids, NEW b \in Ids, a # b, SameGroup(a, jobs[b].flow),
                        jobs'[a].pc \in Holding \cup {"done"}, jobs'[b].pc \in Active
                 PROVE  jobs[a].sha <= jobs[b].sha
      BY <1>3, <1>5, <1>6 DEF Ordered, Keeps, Fixed
    <2> QED
      BY <1>2, <1>3, <1>7, PcTypes, Alone DEF Ordered, Waits, Holding, Active
  <1>11. Fresh'
    BY <1>3, <1>5, <1>7 DEF Fresh, Keeps, Fixed, Waits
  <1>12. \A j \in Ids : jobs'[j].pc = "writing" => jobs[j].pc = "writing"
    BY <1>3, <1>7
  <1>13. \A k \in Shas, r \in Rules : Source(k, r)' = Source(k, r)
    BY <1>2 DEF Source
  <1>14. Scoped'
    BY <1>3, <1>5, <1>12, <1>13, PcTypes DEF Scoped, Admits, Keeps, Fixed, From, Source
  <1>15. Bounded'
    <2> SUFFICES ASSUME NEW j \in Ids, jobs[j].flow = "prune"
                 PROVE  Spares(jobs[j], Touched(jobs[j]))'
      BY <1>3, <1>5 DEF Bounded, Keeps, Fixed
    <2>1. Touched(jobs[j])' = Touched(jobs[j])
      BY <1>3 DEF Touched, Keeps
    <2> QED
      BY <1>2, <1>3, <2>1, SparesKept DEF Bounded, Keeps
  <1>16. Traced'
    <2>1. \A j \in Ids : jobs'[j].pc \in Active => jobs[j].pc \in Active
      BY <1>3, <1>7 DEF Waits, Active, Holding
    <2> QED
      BY <1>2, <1>3, <1>5, <2>1 DEF Traced, Keeps, Fixed, Source
  <1> QED
    BY <1>4, <1>8, <1>9, <1>10, <1>11, <1>14, <1>15, <1>16

\* What holds because run i keeps its group and the others do not move.
LEMMA HolderStays ==
  ASSUME IInv, NEW i \in Ids, jobs[i].pc \in Holding, UNCHANGED history,
         jobs' \in Seq(Run(Shas)), Len(jobs') = Len(jobs),
         \A j \in Ids \ {i} : jobs'[j] = jobs[j],
         Fixed(i), jobs'[i].pc \in Holding
  PROVE  /\ Ids' = Ids /\ Shas' = Shas /\ DOMAIN jobs' = Ids
         /\ OneWriterPerGroup' /\ Texts' /\ Ordered'
         /\ \A j \in Ids : Fixed(j) /\ (jobs'[j].pc \in Active => jobs[j].pc \in Active)
  <1> USE DEF IInv
  <1>1. Ids' = Ids /\ Shas' = Shas /\ DOMAIN jobs' = Ids
    BY LenProperties DEF Ids, Shas
  <1>2. \A j \in Ids : /\ Fixed(j)
                       /\ jobs'[j].pc \in Active => jobs[j].pc \in Active
                       /\ jobs'[j].pc \in Holding => jobs[j].pc \in Holding
                       /\ jobs'[j].pc = "pending" => jobs[j].pc = "pending"
                       /\ jobs'[j].pc = "done" => jobs[j].pc = "done"
    BY DEF Fixed, Holding, Active
  <1>3. OneWriterPerGroup'
    BY <1>1, <1>2, Types DEF OneWriterPerGroup, Fixed
  <1>4. Texts'
    BY <1>1 DEF Texts, Source
  <1>5. Ordered'
    <2>1. \A j, k \in Ids : SameGroup(j, jobs[k].flow)' => SameGroup(j, jobs[k].flow)
      BY <1>2 DEF SameGroup, Fixed
    <2> SUFFICES ASSUME NEW a \in Ids, NEW b \in Ids, a # b, SameGroup(a, jobs[b].flow),
                        jobs'[a].pc \in Holding \cup {"done"}, jobs'[b].pc \in Active
                 PROVE  jobs[a].sha <= jobs[b].sha
      BY <1>1, <1>2, <2>1 DEF Ordered, Fixed
    <2> QED
      BY <1>2 DEF Ordered
  <1> QED
    BY <1>1, <1>2, <1>3, <1>4, <1>5

LEMMA BeginStep ==
  ASSUME IInv, NEW i \in Ids, Begins(i)
  PROVE  IInv'
  <1> USE DEF IInv
  <1>1. PICK todo \in SUBSET Rules :
          Begin(i, todo) /\ Admits(jobs[i], todo)
          /\ (jobs[i].flow = "prune" => Spares(jobs[i], todo))
    BY DEF Begins
  <1>2. /\ jobs' \in Seq(Run(Shas)) /\ Len(jobs') = Len(jobs)
        /\ \A j \in Ids \ {i} : jobs'[j] = jobs[j]
        /\ Fixed(i) /\ jobs'[i].pc = "writing" /\ jobs'[i].todo = todo
        /\ jobs'[i].outcome = jobs[i].outcome
    BY <1>1, BeginEffect
  <1>3. jobs[i].pc = "waiting" /\ UNCHANGED <<history, live, durable, failures>>
    BY <1>1 DEF Begins, Begin
  <1>4. /\ Ids' = Ids /\ Shas' = Shas /\ DOMAIN jobs' = Ids
        /\ OneWriterPerGroup' /\ Texts' /\ Ordered'
        /\ \A j \in Ids : Fixed(j) /\ (jobs'[j].pc \in Active => jobs[j].pc \in Active)
    BY <1>2, <1>3, HolderStays DEF Holding
  <1>5. TypeOK'
    BY <1>2, <1>3 DEF TypeOK, Shas
  <1>6. Fresh'
    BY <1>2, <1>4 DEF Fresh, Fixed
  <1>7. Scoped'
    <2> SUFFICES ASSUME NEW j \in Ids, jobs'[j].pc = "writing"
                 PROVE  Admits(jobs[j], jobs[j].todo)'
      BY <1>4 DEF Scoped
    <2>1. CASE j = i
      BY <1>1, <1>2, <1>3, <2>1 DEF Admits, Fixed, From, Source
    <2>2. CASE j # i
      BY <1>2, <1>3, <2>2 DEF Scoped, Admits, From, Source
    <2> QED
      BY <2>1, <2>2
  <1>8. Bounded'
    <2> SUFFICES ASSUME NEW j \in Ids, jobs[j].flow = "prune"
                 PROVE  Spares(jobs[j], Touched(jobs[j]))'
      BY <1>4 DEF Bounded, Fixed
    <2>1. CASE j = i
      <3>1. Touched(jobs[j])' = todo
        BY <1>2, <1>3, <2>1 DEF Touched, Fresh, Nothing
      <3> QED
        BY <1>1, <1>2, <1>3, <2>1, <3>1 DEF Spares, Fixed, Source
    <2>2. CASE j # i
      <3>1. Touched(jobs[j])' = Touched(jobs[j])
        BY <1>2, <2>2 DEF Touched
      <3> QED
        BY <1>3, <1>4, <3>1, SparesKept DEF Bounded
    <2> QED
      BY <2>1, <2>2
  <1>9. Traced'
    BY <1>3, <1>4 DEF Traced, Fixed, Source
  <1> QED
    BY <1>4, <1>5, <1>6, <1>7, <1>8, <1>9

LEMMA ReportStep ==
  ASSUME IInv, NEW i \in Ids, Reports(i)
  PROVE  IInv'
  <1> USE DEF IInv
  <1>1. /\ jobs' \in Seq(Run(Shas)) /\ Len(jobs') = Len(jobs)
        /\ \A j \in Ids \ {i} : jobs'[j] = jobs[j]
        /\ Fixed(i) /\ jobs'[i].pc = "publishing" /\ jobs'[i].todo = jobs[i].todo
        /\ jobs'[i].outcome = jobs[i].outcome
    BY ReportEffect
  <1>2. jobs[i].pc = "writing" /\ UNCHANGED <<history, live, durable>>
    BY DEF Reports
  <1>3. /\ Ids' = Ids /\ Shas' = Shas /\ DOMAIN jobs' = Ids
        /\ OneWriterPerGroup' /\ Texts' /\ Ordered'
        /\ \A j \in Ids : Fixed(j) /\ (jobs'[j].pc \in Active => jobs[j].pc \in Active)
    BY <1>1, <1>2, HolderStays DEF Holding
  <1>4. TypeOK'
    BY <1>1, <1>2 DEF TypeOK, Shas, Reports, Failed
  <1>5. Fresh'
    BY <1>1, <1>3 DEF Fresh, Fixed
  <1>6. Scoped'
    BY <1>1, <1>2, <1>3 DEF Scoped, Admits, From, Source
  <1>7. Bounded'
    <2> SUFFICES ASSUME NEW j \in Ids, jobs[j].flow = "prune"
                 PROVE  Spares(jobs[j], Touched(jobs[j]))'
      BY <1>3 DEF Bounded, Fixed
    <2>1. Touched(jobs[j])' = Touched(jobs[j])
      BY <1>1 DEF Touched
    <2> QED
      BY <1>2, <1>3, <2>1, SparesKept DEF Bounded
  <1>8. Traced'
    BY <1>2, <1>3 DEF Traced, Fixed, Source
  <1> QED
    BY <1>3, <1>4, <1>5, <1>6, <1>7, <1>8

LEMMA PayloadFacts ==
  ASSUME IInv, NEW i \in Ids, jobs[i].pc = "writing", NEW r \in jobs[i].todo,
         jobs[i].flow # "prune"
  PROVE  /\ Payload(jobs[i], r) = Source(From(jobs[i]), r).text
         /\ EnvStatus(Source(From(jobs[i]), r))
         /\ From(jobs[i]) \in Shas /\ From(jobs[i]) <= jobs[i].sha
  BY PcTypes DEF IInv, Scoped, Admits, Payload, From, Fresh, Shas, TypeOK

LEMMA WriteStep ==
  ASSUME IInv, NEW i \in Ids, Write(i)
  PROVE  IInv'
  <1> USE DEF IInv
  <1>1. /\ jobs' \in Seq(Run(Shas)) /\ Len(jobs') = Len(jobs)
        /\ \A j \in Ids \ {i} : jobs'[j] = jobs[j]
        /\ Fixed(i) /\ jobs'[i].pc = "writing"
    BY WriteEffect
  <1>2. PICK r \in jobs[i].todo :
          /\ jobs'[i].todo = jobs[i].todo \ {r}
          /\ jobs'[i].outcome[r] \in {"success", "error", "unverified"}
          /\ \A q \in Rules \ {r} : jobs'[i].outcome[q] = jobs[i].outcome[q]
          /\ live' \in {live, [live EXCEPT ![r] = Payload(jobs[i], r)]}
    BY WriteEffect
  <1>3. jobs[i].pc = "writing" /\ UNCHANGED <<history, durable, failures>>
    BY DEF Write
  <1>4. /\ Ids' = Ids /\ Shas' = Shas /\ DOMAIN jobs' = Ids
        /\ OneWriterPerGroup' /\ Texts' /\ Ordered'
        /\ \A j \in Ids : Fixed(j) /\ (jobs'[j].pc \in Active => jobs[j].pc \in Active)
    BY <1>1, <1>3, HolderStays DEF Holding
  <1>5. r \in Rules
    BY <1>2, PcTypes
  <1>6. TypeOK'
    <2>1. Payload(jobs[i], r) \in 0..Len(history)
      <3>1. CASE jobs[i].flow = "prune"
        BY <3>1, Types DEF Payload
      <3>2. CASE jobs[i].flow # "prune"
        <4>1. Source(From(jobs[i]), r) \in File
          BY <1>3, <1>5, <3>2, PayloadFacts, Types DEF Source
        <4> QED
          BY <1>3, <1>5, <3>2, <4>1, PayloadFacts, Types DEF Texts, File, Shas
      <3> QED
        BY <3>1, <3>2
    <2>2. live' \in [Rules -> 0..Len(history)]
      BY <1>2, <2>1 DEF TypeOK
    <2> QED
      BY <1>1, <1>3, <2>2 DEF TypeOK, Shas
  <1>7. Fresh'
    BY <1>1, <1>4 DEF Fresh, Fixed
  <1>8. Scoped'
    BY <1>1, <1>2, <1>3, <1>4 DEF Scoped, Admits, Fixed, From, Source
  <1>9. Bounded'
    <2> SUFFICES ASSUME NEW j \in Ids, jobs[j].flow = "prune"
                 PROVE  Spares(jobs[j], Touched(jobs[j]))'
      BY <1>4 DEF Bounded, Fixed
    <2>1. Touched(jobs[j])' = Touched(jobs[j])
      BY <1>1, <1>2, <1>5 DEF Touched
    <2> QED
      BY <1>3, <1>4, <2>1, SparesKept DEF Bounded
  <1>10. Traced'
    <2> SUFFICES ASSUME NEW q \in Rules, live'[q] # 0
                 PROVE  \E k \in Shas :
                          /\ Source(k, q).text = live'[q] /\ EnvStatus(Source(k, q))
                          /\ \A j \in Ids :
                               jobs[j].flow # "prune" /\ jobs[j].pc \in Active => k <= jobs[j].sha
      BY <1>3, <1>4 DEF Traced, Fixed, Source
    <2>1. CASE live'[q] = live[q]
      BY <2>1 DEF Traced
    <2>2. CASE live'[q] # live[q]
      <3>1. q = r /\ live'[q] = Payload(jobs[i], r)
        BY <1>2, <1>5, <2>2 DEF TypeOK
      <3>2. jobs[i].flow # "prune"
        BY <3>1 DEF Payload
      <3>3. /\ Source(From(jobs[i]), q).text = live'[q]
            /\ EnvStatus(Source(From(jobs[i]), q))
            /\ From(jobs[i]) \in Shas /\ From(jobs[i]) <= jobs[i].sha
        BY <1>3, <3>1, <3>2, PayloadFacts
      <3>4. ASSUME NEW j \in Ids, jobs[j].flow # "prune", jobs[j].pc \in Active
            PROVE  From(jobs[i]) <= jobs[j].sha
        <4>1. jobs[i].sha <= jobs[j].sha
          BY <1>3, <3>2, <3>4, PcTypes DEF Ordered, Holding, Shas
        <4> QED
          BY <3>3, <4>1, PcTypes DEF Shas
      <3> QED
        BY <3>3, <3>4
    <2> QED
      BY <2>1, <2>2
  <1> QED
    BY <1>4, <1>6, <1>7, <1>8, <1>9, <1>10

\* A run is triggered: it joins the others, and the one that waited may go.
Joins ==
  /\ UNCHANGED durable /\ Len(jobs') = Len(jobs) + 1
  /\ \A j \in Ids : Keeps(j) /\ jobs'[j].pc \in {jobs[j].pc, "cancelled"}
  /\ jobs'[Len(jobs) + 1].pc \in {"pending", "waiting"}

LEMMA TriggerStep ==
  ASSUME IInv, NEW flow \in {"deploy"} \cup Flows, NEW sha \in Shas', NEW base \in Shas',
         NEW todo \in SUBSET Rules, Queue(flow, sha, base, todo),
         flow = "prune" => todo = {},
         sha = Len(history'), UNCHANGED <<live, durable, failures>>,
         history' \in Seq([Rules -> File]), Len(history') \in Len(history)..MaxCommits,
         \A k \in Shas : history'[k] = history[k], Texts'
  PROVE  IInv' /\ Joins
  <1> USE DEF IInv
  <1>0. PICK n \in Nat : n = Len(jobs) + 1
    BY Types
  <1>1. Shas \subseteq Shas' /\ \A k \in Shas' : k <= sha
    BY Types DEF Shas
  <1>2. /\ jobs' \in Seq(Run(Shas')) /\ Len(jobs') = Len(jobs) + 1 /\ Len(jobs') <= MaxRuns
        /\ \A j \in Ids :
             /\ Keeps(j)
             /\ jobs'[j].pc = IF Waits(j, flow) THEN "cancelled" ELSE jobs[j].pc
        /\ jobs'[n].flow = flow /\ jobs'[n].sha = sha /\ jobs'[n].base = base
        /\ jobs'[n].todo = todo /\ jobs'[n].outcome = Nothing
        /\ jobs'[n].pc \in {"pending", "waiting"}
        /\ jobs'[n].pc = "waiting" =>
             \A j \in Ids : SameGroup(j, flow) => jobs[j].pc \notin Holding
    <2>1. /\ jobs' \in Seq(Run(Shas')) /\ Len(jobs') = Len(jobs) + 1 /\ Len(jobs') <= MaxRuns
          /\ \A j \in Ids :
               /\ Keeps(j)
               /\ jobs'[j].pc = IF Waits(j, flow) THEN "cancelled" ELSE jobs[j].pc
      BY <1>0, <1>1, QueueEffect
    <2>2. /\ jobs'[n].flow = flow /\ jobs'[n].sha = sha /\ jobs'[n].base = base
          /\ jobs'[n].todo = todo /\ jobs'[n].outcome = Nothing
          /\ jobs'[n].pc \in {"pending", "waiting"}
      <3>1. jobs'[Len(jobs) + 1] \in Triggered(flow, sha, base, todo)
        BY <1>1, QueueEffect
      <3> QED
        BY <1>0, <3>1 DEF Triggered
    <2>3. jobs'[n].pc = "waiting" =>
            \A j \in Ids : SameGroup(j, flow) => jobs[j].pc \notin Holding
      BY <1>0, <1>1, QueueEffect
    <2> QED
      BY <2>1, <2>2, <2>3
  <1>3. Ids' = Ids \cup {n} /\ n \notin Ids /\ DOMAIN jobs' = Ids'
    BY <1>0, <1>2, Types, LenProperties DEF Ids
  <1>4. \A j \in Ids :
          \/ jobs'[j].pc = jobs[j].pc /\ ~Waits(j, flow)
          \/ jobs'[j].pc = "cancelled" /\ Waits(j, flow)
    BY <1>2
  <1>5. TypeOK'
    <2>1. live' \in [Rules -> 0..Len(history')]
      BY Types DEF TypeOK
    <2>2. durable' \in StateFile(Shas')
      BY <1>1 DEF TypeOK, StateFile, Shas
    <2>3. Len(history') \in 1..MaxCommits
      BY Types, PipelineAssumption DEF TypeOK
    <2> QED
      BY <1>2, <2>1, <2>2, <2>3 DEF TypeOK, Shas
  <1>6. \A j \in Ids' : Group(jobs'[j].flow) = IF j = n THEN Group(flow) ELSE Group(jobs[j].flow)
    BY <1>2, <1>3 DEF Keeps, Fixed
  <1>7. /\ \A j, k \in Ids : SameGroup(j, jobs[k].flow) <=> Group(jobs[j].flow) = Group(jobs[k].flow)
        /\ \A j \in Ids : SameGroup(j, flow) <=> Group(jobs[j].flow) = Group(flow)
    BY DEF SameGroup
  <1>8. OneWriterPerGroup'
    <2>1. \A a, b \in Ids' : (jobs'[a].flow = "prune" <=> jobs'[b].flow = "prune")
                              => Group(jobs'[a].flow) = Group(jobs'[b].flow)
      BY DEF Group
    <2> SUFFICES ASSUME NEW a \in Ids', NEW b \in Ids', a # b, Group(jobs'[a].flow) = Group(jobs'[b].flow)
                 PROVE  /\ ~(jobs'[a].pc \in Holding /\ jobs'[b].pc \in Holding)
                        /\ ~(jobs'[a].pc = "pending" /\ jobs'[b].pc = "pending")
      BY <1>3, <2>1 DEF OneWriterPerGroup
    <2>2. CASE a \in Ids /\ b \in Ids
      BY <1>3, <1>4, <1>6, <1>7, <2>2, Alone DEF Holding
    <2>3. CASE a = n /\ b \in Ids
      <3>1. SameGroup(b, flow)
        BY <1>3, <1>6, <1>7, <2>3
      <3> QED
        BY <1>2, <1>4, <2>3, <3>1 DEF Holding, Waits
    <2>4. CASE b = n /\ a \in Ids
      <3>1. SameGroup(a, flow)
        BY <1>3, <1>6, <1>7, <2>4
      <3> QED
        BY <1>2, <1>4, <2>4, <3>1 DEF Holding, Waits
    <2> QED
      BY <1>3, <2>2, <2>3, <2>4
  <1>9. Ordered'
    <2> SUFFICES ASSUME NEW a \in Ids', NEW b \in Ids', a # b, Group(jobs'[a].flow) = Group(jobs'[b].flow),
                        jobs'[a].pc \in Holding \cup {"done"}, jobs'[b].pc \in Active
                 PROVE  jobs'[a].sha <= jobs'[b].sha
      BY DEF Ordered, SameGroup
    <2>1. CASE a \in Ids /\ b \in Ids
      <3>1. jobs[a].pc \in Holding \cup {"done"} /\ jobs[b].pc \in Active
        BY <1>4, <2>1 DEF Holding, Active
      <3>2. jobs'[a].sha = jobs[a].sha /\ jobs'[b].sha = jobs[b].sha
        BY <1>2, <2>1 DEF Keeps, Fixed
      <3>3. a # n /\ b # n
        BY <1>3, <2>1
      <3>4. SameGroup(a, jobs[b].flow)
        BY <1>6, <1>7, <2>1, <3>3
      <3>5. jobs[a].sha <= jobs[b].sha
        BY <2>1, <3>1, <3>4 DEF Ordered
      <3> QED
        BY ONLY <3>2, <3>5
    <2>2. CASE b = n /\ a \in Ids
      <3>1. jobs'[a].sha = jobs[a].sha /\ jobs'[b].sha = sha
        BY <1>2, <2>2 DEF Keeps, Fixed
      <3>2. jobs[a].sha \in Shas'
        BY <1>1, <2>2, PcTypes
      <3> QED
        BY <1>1, <3>1, <3>2
    <2>3. CASE a = n /\ b \in Ids
      <3>1. SameGroup(b, flow)
        BY <1>3, <1>6, <1>7, <2>3
      <3> QED
        BY <1>2, <1>4, <2>3, <3>1 DEF Holding, Active, Waits
    <2> QED
      BY <1>3, <2>1, <2>2, <2>3
  <1>10. Fresh'
    <2> SUFFICES ASSUME NEW j \in Ids'
                 PROVE  /\ jobs'[j].base <= jobs'[j].sha
                        /\ jobs'[j].pc \in {"pending", "waiting"} =>
                             /\ jobs'[j].outcome = Nothing
                             /\ jobs'[j].flow = "prune" => jobs'[j].todo = {}
      BY DEF Fresh
    <2>1. CASE j = n
      BY <1>1, <1>2, <2>1
    <2>2. CASE j \in Ids
      BY <1>2, <1>4, <2>2 DEF Fresh, Keeps, Fixed, Waits
    <2> QED
      BY <1>3, <2>1, <2>2
  <1>11. Scoped'
    <2> SUFFICES ASSUME NEW j \in Ids', jobs'[j].pc = "writing"
                 PROVE  Admits(jobs[j], jobs[j].todo)'
      BY DEF Scoped
    <2>1. j \in Ids /\ jobs[j].pc = "writing"
      BY <1>2, <1>3, <1>4
    <2>2. /\ jobs'[j].flow = jobs[j].flow /\ jobs'[j].sha = jobs[j].sha
          /\ jobs'[j].todo = jobs[j].todo /\ From(jobs[j])' = From(jobs[j])
      BY <1>2, <2>1 DEF Keeps, Fixed, From
    <2>3. jobs[j].sha \in Shas /\ From(jobs[j]) \in Shas
      BY <2>1, PcTypes DEF From
    <2>4. Admits(jobs[j], jobs[j].todo)
      BY <2>1 DEF Scoped
    <2> QED
      BY <2>2, <2>3, <2>4 DEF Admits, Source, EnvStatus, Present, IsLocked
  <1>12. Bounded'
    <2> SUFFICES ASSUME NEW j \in Ids', jobs'[j].flow = "prune"
                 PROVE  Spares(jobs[j], Touched(jobs[j]))'
      BY DEF Bounded
    <2>1. CASE j = n
      <3>1. Touched(jobs[j])' = {}
        BY <1>2, <2>1 DEF Touched, Nothing
      <3> QED
        BY <3>1, FS_EmptySet, PipelineAssumption DEF Spares
    <2>2. CASE j \in Ids
      <3>1. Touched(jobs[j])' = Touched(jobs[j])
        BY <1>2, <2>2 DEF Touched, Keeps
      <3> QED
        BY <1>2, <2>2, <3>1, SparesKept, PcTypes DEF Bounded, Keeps, Fixed
    <2> QED
      BY <1>3, <2>1, <2>2
  <1>13. Traced'
    <2> SUFFICES ASSUME NEW q \in Rules, live[q] # 0
                 PROVE  \E k \in Shas' :
                          /\ Source(k, q)'.text = live[q] /\ EnvStatus(Source(k, q))'
                          /\ \A j \in Ids' :
                               jobs'[j].flow # "prune" /\ jobs'[j].pc \in Active => k <= jobs'[j].sha
      BY DEF Traced
    <2>1. PICK k \in Shas :
            /\ Source(k, q).text = live[q] /\ EnvStatus(Source(k, q))
            /\ \A j \in Ids : jobs[j].flow # "prune" /\ jobs[j].pc \in Active => k <= jobs[j].sha
      BY DEF Traced
    <2>2. Source(k, q)' = Source(k, q) /\ k \in Shas' /\ k <= sha
      BY <1>1 DEF Source
    <2>3. ASSUME NEW j \in Ids', jobs'[j].flow # "prune", jobs'[j].pc \in Active
          PROVE  k <= jobs'[j].sha
      <3>1. CASE j = n
        BY <1>2, <2>2, <3>1
      <3>2. CASE j \in Ids
        BY <1>2, <1>4, <2>1, <2>3, <3>2 DEF Keeps, Fixed, Active, Holding
      <3> QED
        BY <1>3, <3>1, <3>2
    <2> QED
      BY <2>1, <2>2, <2>3 DEF EnvStatus, Present
  <1>14. Joins
    BY <1>0, <1>2, <1>4 DEF Joins
  <1> QED
    BY <1>5, <1>8, <1>9, <1>10, <1>11, <1>12, <1>13, <1>14

LEMMA EditFacts ==
  ASSUME TypeOK, Texts, NEW r \in Rules, NEW f \in Edits(r)
  PROVE  /\ f \in File /\ f.text <= Len(history) + 1
         /\ ~Present(f) => ~IsLocked(f)
         /\ Present(f) => \/ f.text = Len(history) + 1
                          \/ Present(Main[r]) /\ f.text = Main[r].text
  <1> DEFINE last == Len(history)
  <1>1. last \in Shas /\ last \in Nat \ {0}
    BY Types DEF TypeOK, Shas
  <1>2. /\ Main[r] \in File /\ Main[r].text \in Nat /\ Main[r].text <= last
        /\ ~Present(Main[r]) => ~IsLocked(Main[r])
    BY <1>1, Types DEF Texts, Source, Main, File
  <1>3. \/ f = Main[r] \/ f = Absent
        \/ f \in [text : {last + 1}, status : Statuses, locked : {Main[r].locked}]
        \/ Present(Main[r]) /\ f = [Main[r] EXCEPT !.locked = ~@]
    BY DEF Edits
  <1>4. CASE f = Main[r]
    BY <1>1, <1>2, <1>4
  <1>5. CASE f = Absent
    BY <1>1, <1>5 DEF Absent, File, Present, IsLocked
  <1>6. CASE f \in [text : {last + 1}, status : Statuses, locked : {Main[r].locked}]
    <2>1. f.text = last + 1 /\ f.status \in Statuses /\ f.locked = Main[r].locked
      BY <1>6
    <2>2. f \in File
      BY <1>1, <1>2, <1>6, <2>1 DEF File
    <2> QED
      BY <1>1, <2>1, <2>2 DEF Present
  <1>7. CASE Present(Main[r]) /\ f = [Main[r] EXCEPT !.locked = ~@]
    <2>1. PICK b \in BOOLEAN : f = [Main[r] EXCEPT !.locked = b]
      BY <1>7
    <2>2. f \in File /\ f.text = Main[r].text
      BY <1>2, <2>1 DEF File
    <2> QED
      BY <1>1, <1>2, <1>7, <2>2 DEF Present
  <1> QED
    BY <1>3, <1>4, <1>5, <1>6, <1>7

LEMMA MergeStep ==
  ASSUME IInv, Merge
  PROVE  IInv' /\ Joins
  <1> USE DEF IInv
  <1>1. PICK tree \in [Rules -> UNION {Edits(r) : r \in Rules}] :
          /\ \A r \in Rules : tree[r] \in Edits(r)
          /\ history' = Append(history, tree)
    BY DEF Merge
  <1>2. PICK last \in Nat \ {0} : last = Len(history)
    <2>1. Len(history) \in Nat \ {0}
      BY Types DEF TypeOK
    <2> QED
      BY <2>1
  <1>3. \A r \in Rules :
          /\ tree[r] \in File /\ tree[r].text <= last + 1
          /\ ~Present(tree[r]) => ~IsLocked(tree[r])
          /\ Present(tree[r]) => \/ tree[r].text = last + 1
                                 \/ Present(Main[r]) /\ tree[r].text = Main[r].text
    BY <1>1, <1>2, EditFacts
  <1>4. tree \in [Rules -> File]
    BY <1>1, <1>3
  <1>5. /\ history' \in Seq([Rules -> File]) /\ Len(history') = last + 1
        /\ \A k \in Shas : history'[k] = history[k]
        /\ history'[last + 1] = tree
    BY <1>1, <1>2, <1>4, AppendFacts DEF TypeOK, Shas
  <1>6. Shas' = Shas \cup {last + 1} /\ Shas = 1..last
    BY <1>2, <1>5 DEF Shas
  <1>7. Texts'
    <2>1. \A k \in Shas, r \in Rules : Source(k, r)' = Source(k, r) /\ Source(k, r) \in File
      BY <1>5, Types DEF Source
    <2>2. \A r \in Rules : Source(last + 1, r)' = tree[r]
      BY <1>5 DEF Source
    <2>3. \A r \in Rules : Main[r] = Source(last, r) /\ last \in Shas
      BY <1>2, <1>6 DEF Main, Source
    <2> SUFFICES ASSUME NEW k \in Shas', NEW r \in Rules
                 PROVE  /\ Source(k, r)'.text <= k
                        /\ ~Present(Source(k, r)') => ~IsLocked(Source(k, r)')
                        /\ \A m \in Shas' :
                             k <= m /\ Present(Source(k, r)') /\ Present(Source(m, r)')
                               => Source(k, r)'.text <= Source(m, r)'.text
      BY DEF Texts, Present, IsLocked
    <2>4. CASE k \in Shas
      <3>1. Source(k, r)'.text <= k /\ (~Present(Source(k, r)') => ~IsLocked(Source(k, r)'))
        BY <2>1, <2>4 DEF Texts
      <3>2. ASSUME NEW m \in Shas', k <= m, Present(Source(k, r)'), Present(Source(m, r)')
            PROVE  Source(k, r)'.text <= Source(m, r)'.text
        <4>1. CASE m \in Shas
          BY <2>1, <2>4, <3>2, <4>1 DEF Texts
        <4>2. CASE m = last + 1
          <5>1. Present(Main[r]) => Source(k, r).text <= Main[r].text
            BY <1>6, <2>1, <2>3, <2>4, <3>2 DEF Texts
          <5>2. Source(k, r).text <= last + 1
            BY <1>6, <2>1, <2>4, <3>1 DEF File
          <5> QED
            BY <1>3, <2>1, <2>2, <2>4, <3>2, <4>2, <5>1, <5>2
        <4> QED
          BY <1>6, <4>1, <4>2
      <3> QED
        BY <3>1, <3>2
    <2>5. CASE k = last + 1
      <3>1. \A m \in Shas' : k <= m => m = last + 1
        BY <1>6, <2>5
      <3>2. tree[r].text <= tree[r].text
        BY <1>3 DEF File
      <3> QED
        BY <1>3, <2>2, <2>5, <3>1, <3>2
    <2> QED
      BY <1>6, <2>4, <2>5
  <1>8. /\ Queue("deploy", last + 1, last, {}) /\ UNCHANGED <<live, durable, failures>>
        /\ last + 1 \in Shas' /\ last \in Shas' /\ last + 1 = Len(history')
        /\ Len(history') \in Len(history)..MaxCommits
    BY <1>2, <1>5, <1>6, PipelineAssumption DEF Merge
  <1> QED
    BY <1>5, <1>7, <1>8, TriggerStep

LEMMA DispatchStep ==
  ASSUME IInv, NEW flow \in Flows, Dispatch(flow)
  PROVE  IInv' /\ Joins
  <1> USE DEF IInv
  <1>1. UNCHANGED <<history, live, durable, failures>>
    BY DEF Dispatch
  <1>2. /\ Shas' = Shas /\ Len(history) \in Shas /\ Texts'
        /\ history' \in Seq([Rules -> File]) /\ Len(history') \in Len(history)..MaxCommits
    BY <1>1, Types, PipelineAssumption DEF Shas, Texts, Source, TypeOK
  <1>3. PICK target \in Shas, scope \in SUBSET Rules :
          Queue(flow, Len(history), target, scope) /\ (flow = "prune" => scope = {})
    <2>1. CASE flow = "rollback"
      <3>1. PICK target \in 1..Len(history), scope \in {Rules} \cup {{r} : r \in Rules} :
              Queue(flow, Len(history), target, scope)
        BY <2>1 DEF Dispatch
      <3>2. scope \in SUBSET Rules
        OBVIOUS
      <3> QED
        BY <2>1, <3>1, <3>2 DEF Shas
    <2>2. CASE flow # "rollback"
      <3>1. Queue(flow, Len(history), Len(history), {})
        BY <2>2 DEF Dispatch
      <3> QED
        BY <1>2, <3>1
    <2> QED
      BY <2>1, <2>2
  <1> QED
    BY <1>1, <1>2, <1>3, TriggerStep

LEMMA Start ==
  ASSUME Init
  PROVE  IInv
  <1>1. PICK S \in SUBSET Rules :
          /\ history = <<[r \in Rules |->
                            IF r \in S
                            THEN [text |-> 1, status |-> "production", locked |-> FALSE]
                            ELSE Absent]>>
          /\ live = [r \in Rules |-> IF r \in S THEN 1 ELSE 0]
          /\ durable = [exists  |-> S # {},
                        entries |-> {[rule |-> r, sha |-> 1, ok |-> TRUE] : r \in S}]
    BY DEF Init
  <1> DEFINE tree == [r \in Rules |->
                        IF r \in S
                        THEN [text |-> 1, status |-> "production", locked |-> FALSE]
                        ELSE Absent]
  <1>2. failures = {} /\ jobs = <<>> /\ Ids = {}
    BY DEF Init, Ids
  <1>3. tree \in [Rules -> File]
    BY DEF File, Absent
  <1>4. history = <<tree>> /\ Len(history) = 1 /\ Shas = {1} /\ history[1] = tree
    BY <1>1 DEF Shas
  <1>5. history \in Seq([Rules -> File])
    BY <1>3, <1>4
  <1>6. \A r \in Rules : Source(1, r) = IF r \in S
                 THEN [text |-> 1, status |-> "production", locked |-> FALSE] ELSE Absent
    BY <1>4 DEF Source
  <1> HIDE DEF tree
  <1>7. TypeOK
    <2>1. live \in [Rules -> 0..Len(history)]
      BY <1>1, <1>4
    <2>2. durable \in StateFile(1..Len(history))
      <3>1. \A r \in S : [rule |-> r, sha |-> 1, ok |-> TRUE] \in [rule : Rules, sha : {1}, ok : BOOLEAN]
        OBVIOUS
      <3>2. 1..Len(history) = {1}
        BY <1>4
      <3>3. {[rule |-> r, sha |-> 1, ok |-> TRUE] : r \in S}
               \in SUBSET [rule : Rules, sha : {1}, ok : BOOLEAN]
        BY ONLY <3>1
      <3>4. durable \in [exists : BOOLEAN, entries : SUBSET [rule : Rules, sha : {1}, ok : BOOLEAN]]
        BY ONLY <1>1, <3>3
      <3> QED
        BY ONLY <3>2, <3>4 DEF StateFile
    <2>3. jobs \in Seq(Run(1..Len(history))) /\ Len(jobs) <= MaxRuns
      BY <1>2, PipelineAssumption
    <2> QED
      BY <1>2, <1>4, <1>5, <2>1, <2>2, <2>3, PipelineAssumption DEF TypeOK
  <1>8. Texts
    BY <1>4, <1>6 DEF Texts, Present, IsLocked, Absent
  <1>9. Traced
    <2>1. \A r \in Rules : live[r] # 0 => Source(1, r).text = live[r] /\ EnvStatus(Source(1, r))
      BY <1>1, <1>6 DEF EnvStatus, Present, AllowedStatuses
    <2> QED
      BY <1>2, <1>4, <2>1 DEF Traced
  <1>10. OneWriterPerGroup /\ Ordered /\ Fresh /\ Scoped /\ Bounded
    BY <1>2 DEF OneWriterPerGroup, Ordered, Fresh, Scoped, Bounded, Ids
  <1> QED
    BY <1>7, <1>8, <1>9, <1>10 DEF IInv

(***************************************************************************)
(* Every state of every execution satisfies the inductive invariant.       *)
(***************************************************************************)
THEOREM Invariance == Spec => []IInv
  <1>1. ASSUME IInv, [Next]_vars
        PROVE  IInv'
    <2>0. DOMAIN jobs = Ids
      BY <1>1, Types DEF IInv
    <2>1. CASE Merge
      BY <1>1, <2>1, MergeStep
    <2>2. ASSUME NEW flow \in Flows, Dispatch(flow)
          PROVE  IInv'
      BY <1>1, <2>2, DispatchStep
    <2>3. ASSUME NEW i \in Ids, Step(i) \/ Crash(i)
          PROVE  IInv'
      <3>1. CASE StartDeploy(i) \/ StartRollback(i) \/ StartRetry(i) \/ StartPrune(i)
        <4>1. Begins(i) \/ Ends(i)
          BY <1>1, <3>1, StartsBegin DEF IInv
        <4> QED
          BY <1>1, <4>1, BeginStep, EndStep
      <3>2. CASE Write(i)
        BY <1>1, <3>2, WriteStep
      <3>3. CASE ReportDeploy(i) \/ ReportDispatched(i) \/ Publish(i) \/ Crash(i)
        <4>1. Ends(i) \/ Reports(i)
          BY <1>1, <3>3, OthersEndOrReport DEF IInv
        <4> QED
          BY <1>1, <4>1, EndStep, ReportStep
      <3> QED
        BY <2>3, <3>1, <3>2, <3>3 DEF Step
    <2>4. CASE UNCHANGED vars
      <3>1. /\ history' = history /\ live' = live /\ durable' = durable
            /\ failures' = failures /\ jobs' = jobs /\ IInv
        BY <1>1, <2>4 DEF vars
      <3>2. TypeOK' /\ OneWriterPerGroup'
        BY <3>1 DEF IInv, TypeOK, OneWriterPerGroup
      <3>3. Texts' /\ Ordered' /\ Fresh'
        BY <3>1 DEF IInv, Texts, Ordered, Fresh, Ids, Shas, SameGroup, Source
      <3>4. Scoped'
        BY <3>1 DEF IInv, Scoped, Ids, Admits, From, Source
      <3>6. Bounded'
        <4>1. \A i \in Ids : Spares(jobs[i], Touched(jobs[i]))' = Spares(jobs[i], Touched(jobs[i]))
          BY <3>1 DEF Spares, Touched, Source
        <4> QED
          BY <3>1, <4>1 DEF IInv, Bounded, Ids
      <3>5. Traced'
        BY <3>1 DEF IInv, Traced, Ids, Shas, Source
      <3> QED
        BY <3>2, <3>3, <3>4, <3>5, <3>6 DEF IInv
    <2> QED
      BY <1>1, <2>0, <2>1, <2>2, <2>3, <2>4 DEF Next
  <1> QED
    BY <1>1, Start, PTL DEF Spec
-----------------------------------------------------------------------------
(***************************************************************************)
(* The trees of main, what is live, the state file and the runs keep their *)
(* types, and no text in the tenant or commit in the state file is newer   *)
(* than main.                                                              *)
(***************************************************************************)
THEOREM TypeCorrect == Spec => []TypeOK
  BY Invariance, PTL DEF IInv

(***************************************************************************)
(* deploy, rollback and retry-failed share a concurrency group, so one of  *)
(* them alone writes to the tenant, and one alone waits.                   *)
(***************************************************************************)
THEOREM OneWriter == Spec => []OneWriterPerGroup
  BY Invariance, PTL DEF IInv

(***************************************************************************)
(* Nothing is live that no commit of main had cleared for prod, whatever   *)
(* was edited, replayed, retried, denied or lost on the way.               *)
(***************************************************************************)
THEOREM OnlyCleared == Spec => []OnlyClearedTextsLive
  <1>1. IInv => OnlyClearedTextsLive
    BY Types DEF IInv, Traced, OnlyClearedTextsLive
  <1> QED
    BY <1>1, Invariance, PTL

(***************************************************************************)
(* Whatever a prune listed of the tenant and whatever failed, it deletes   *)
(* no more than its cap, and no rule its checkout has a file for.          *)
(***************************************************************************)
THEOREM PruneBounds == Spec => []PruneStaysInBounds
  <1>1. ASSUME IInv, NEW i \in Ids, jobs[i].flow = "prune"
        PROVE  LET deleted == {r \in Rules : jobs[i].outcome[r] # "none"} IN
               /\ Cardinality(deleted) <= MaxDeletes
               /\ \A r \in deleted :
                    /\ ~Present(Source(jobs[i].sha, r))
                    /\ \E s \in Rules : Kind[s] = Kind[r] /\ Present(Source(jobs[i].sha, s))
    <2> DEFINE deleted == {r \in Rules : jobs[i].outcome[r] # "none"}
    <2>1. Spares(jobs[i], Touched(jobs[i])) /\ deleted \subseteq Touched(jobs[i])
      BY <1>1 DEF IInv, Bounded, Touched
    <2>2. Touched(jobs[i]) \subseteq Rules
      BY <1>1, PcTypes DEF IInv, Touched
    <2>3. /\ IsFiniteSet(Touched(jobs[i])) /\ IsFiniteSet(deleted)
          /\ Cardinality(deleted) <= Cardinality(Touched(jobs[i]))
      BY <2>1, <2>2, FS_Subset, PipelineAssumption
    <2>4. Cardinality(deleted) \in Nat /\ Cardinality(Touched(jobs[i])) \in Nat
      BY <2>3, FS_CardinalityType
    <2> QED
      BY <2>1, <2>3, <2>4, PipelineAssumption DEF Spares
  <1>2. IInv => PruneStaysInBounds
    BY <1>1, Types DEF IInv, PruneStaysInBounds
  <1> QED
    BY <1>2, Invariance, PTL

(***************************************************************************)
(* What a deploy, a rollback or a prune handles is not locked in its own   *)
(* checkout, though a rollback takes bodies from a commit before the lock. *)
(***************************************************************************)
THEOREM LocksHonoured == Spec => ReplaysHonourLocks
  <1>1. IInv => \A i \in DOMAIN jobs, r \in Rules :
                  Handled(i, r) /\ jobs[i].flow # "retry" => ~IsLocked(Source(jobs[i].sha, r))
    BY Types DEF IInv, Scoped, Admits, Handled
  <1>2. IInv /\ [Next]_vars =>
          [\A i \in DOMAIN jobs, r \in Rules :
             Handled(i, r) /\ jobs[i].flow # "retry" => ~IsLocked(Source(jobs[i].sha, r))]_vars
    BY <1>1
  <1> QED
    BY <1>2, Invariance, PTL DEF Spec, ReplaysHonourLocks

LEMMA LiveChanges ==
  ASSUME IInv, [Next]_vars, live' # live
  PROVE  \E i \in Ids : Write(i)
  <1>1. DOMAIN jobs = Ids
    BY Types DEF IInv
  <1>2. ~Merge /\ ~(\E flow \in Flows : Dispatch(flow)) /\ ~UNCHANGED vars
    BY DEF Merge, Dispatch, vars
  <1>3. PICK i \in Ids : Step(i) \/ Crash(i)
    BY <1>1, <1>2 DEF Next
  <1>4. ~Begins(i) /\ ~Ends(i) /\ ~Reports(i)
    BY DEF Begins, Begin, Ends, Reports
  <1> QED
    BY <1>3, <1>4, StartsBegin, OthersEndOrReport DEF IInv, Step

(***************************************************************************)
(* A run that waited for the group while newer commits were deployed never *)
(* undoes them, unless it is the rollback that was asked to.               *)
(***************************************************************************)
THEOREM NoStaleDeploy == Spec => OnlyRollbackGoesBack
  <1>1. ASSUME IInv, [Next]_vars, NEW r \in Rules, 0 < live'[r], live'[r] < live[r]
        PROVE  \E i \in DOMAIN jobs : jobs[i].flow = "rollback" /\ Handled(i, r)
    <2>1. PICK i \in Ids : Write(i)
      BY <1>1, LiveChanges, Types DEF IInv, TypeOK
    <2>2. jobs[i].pc = "writing" /\ i \in DOMAIN jobs
      BY <1>1, <2>1, Types DEF IInv, Write
    <2>3. PICK q \in jobs[i].todo :
            /\ jobs'[i].todo = jobs[i].todo \ {q}
            /\ live' \in {live, [live EXCEPT ![q] = Payload(jobs[i], q)]}
      BY <1>1, <2>1, WriteEffect DEF IInv
    <2>4. q = r /\ live'[r] = Payload(jobs[i], r)
      BY <1>1, <2>3, Types DEF IInv, TypeOK
    <2>5. jobs[i].flow # "prune"
      BY <1>1, <2>4 DEF Payload
    <2>6. /\ live'[r] = Source(From(jobs[i]), r).text
          /\ EnvStatus(Source(From(jobs[i]), r)) /\ From(jobs[i]) \in Shas
      BY <1>1, <2>2, <2>3, <2>4, <2>5, PayloadFacts
    <2>7. PICK k \in Shas :
            /\ Source(k, r).text = live[r] /\ EnvStatus(Source(k, r)) /\ k <= jobs[i].sha
      <3>1. live[r] \in Nat
        BY <1>1, Types DEF IInv, TypeOK
      <3>2. live[r] # 0 /\ jobs[i].pc \in Active
        <4>1. live'[r] \in Nat
          BY <1>1, <2>6, Types DEF IInv, File, Source
        <4> QED
          BY <1>1, <2>2, <3>1, <4>1 DEF Active, Holding
      <3> QED
        BY <1>1, <2>5, <3>2 DEF IInv, Traced
    <2>8. jobs[i].flow = "rollback"
      <3> SUFFICES ASSUME jobs[i].flow # "rollback"
                   PROVE  FALSE
        OBVIOUS
      <3>1. From(jobs[i]) = jobs[i].sha
        BY DEF From
      <3>2. live[r] <= live'[r]
        BY <1>1, <2>6, <2>7, <3>1 DEF IInv, Texts, EnvStatus
      <3>3. live[r] \in Nat /\ live'[r] \in Nat
        BY <1>1, <2>6, <2>7, Types DEF IInv, File, Source
      <3> QED
        BY <1>1, <3>2, <3>3
    <2> QED
      BY <2>2, <2>3, <2>4, <2>8 DEF Handled
  <1>2. IInv /\ [Next]_vars =>
          [\A r \in Rules : 0 < live'[r] /\ live'[r] < live[r] =>
             \E i \in DOMAIN jobs : jobs[i].flow = "rollback" /\ Handled(i, r)]_vars
    BY <1>1
  <1> QED
    BY <1>2, Invariance, PTL DEF Spec, OnlyRollbackGoesBack
-----------------------------------------------------------------------------
(* What the state file remembers, when fetches do not fail and no prune,   *)
(* which has a group of its own, pushes it too.                            *)

Reliable == "prune" \notin Flows /\ FetchMayFail = FALSE

\* A run that writes holds what the branch holds.
Carries(i) ==
  /\ jobs[i].pc = "writing" => jobs[i].state = durable
  /\ jobs[i].pc = "publishing" =>
       jobs[i].state = IF jobs[i].flow = "deploy"
                       THEN MergeApplyResults(durable, jobs[i].sha, jobs[i].outcome)
                       ELSE durable

Remembered(state, r, sha) == \E e \in state.entries : e.rule = r /\ e.sha >= sha

\* The branch tells of what run i did.
Recalls(i) ==
  jobs[i].flow = "deploy" /\ jobs[i].pc = "done" =>
    \A r \in Rules : jobs[i].outcome[r] = "success" => Remembered(durable, r, jobs[i].sha)

RInv == \A i \in Ids : Carries(i) /\ Recalls(i)

LEMMA MergeRemembers ==
  ASSUME TypeOK, NEW sha \in Shas, NEW outcome, NEW r \in Rules
  PROVE  /\ outcome[r] # "none" =>
              /\ MergeApplyResults(durable, sha, outcome).exists
              /\ Remembered(MergeApplyResults(durable, sha, outcome), r, sha)
         /\ \A old \in Shas : old <= sha /\ Remembered(durable, r, old) =>
              Remembered(MergeApplyResults(durable, sha, outcome), r, old)
  <1> DEFINE applied == {q \in Rules : outcome[q] # "none"}
             merged == MergeApplyResults(durable, sha, outcome)
             entry == [rule |-> r, sha |-> sha, ok |-> outcome[r] = "success"]
  <1>1. CASE r \in applied
    <2>1. merged.exists /\ entry \in merged.entries
      BY <1>1 DEF MergeApplyResults
    <2>2. entry.rule = r /\ entry.sha = sha /\ sha >= sha
      BY Types DEF Shas
    <2>3. Remembered(merged, r, sha)
      BY <2>1, <2>2 DEF Remembered
    <2>4. ASSUME NEW old \in Shas, old <= sha
          PROVE  Remembered(merged, r, old)
      BY <2>1, <2>2, <2>4, Types DEF Remembered, Shas
    <2> QED
      BY <2>1, <2>3, <2>4
  <1>2. CASE r \notin applied
    <2>1. \A e \in durable.entries : e.rule = r => e \in merged.entries
      BY <1>2 DEF MergeApplyResults
    <2> QED
      BY <1>2, <2>1 DEF Remembered
  <1> QED
    BY <1>1, <1>2

\* A step that leaves alone the branch and a run, or takes it to a place
\* of which nothing is said.
LEMMA Undisturbed ==
  ASSUME RInv, UNCHANGED durable, NEW j \in Ids, Keeps(j),
         \/ jobs'[j].pc = jobs[j].pc
         \/ jobs'[j].pc \in {"pending", "waiting", "cancelled", "failed"}
  PROVE  Carries(j)' /\ Recalls(j)'
  <1>1. /\ jobs'[j].flow = jobs[j].flow /\ jobs'[j].sha = jobs[j].sha
        /\ jobs'[j].outcome = jobs[j].outcome /\ jobs'[j].state = jobs[j].state
        /\ durable' = durable
    BY DEF Keeps, Fixed
  <1>2. jobs'[j].pc \in {"writing", "publishing", "done"} => jobs'[j].pc = jobs[j].pc
    OBVIOUS
  <1>3. Carries(j) /\ Recalls(j)
    BY DEF RInv
  <1>4. Carries(j)'
    BY <1>1, <1>2, <1>3 DEF Carries
  <1>5. Recalls(j)'
    BY <1>1, <1>2, <1>3 DEF Recalls, Remembered
  <1> QED
    BY <1>4, <1>5

\* Every run is in the same group.
LEMMA OneGroup ==
  ASSUME Reliable, IInv, NEW i \in Ids, jobs[i].pc \in Holding
  PROVE  /\ \A j \in Ids \ {i} : jobs[j].pc \notin Holding
         /\ \A j \in Ids \ {i} : jobs[j].pc = "done" => jobs[j].sha <= jobs[i].sha
  <1>1. \A j \in Ids : jobs[j].flow # "prune"
    BY Types DEF IInv, Run, Reliable
  <1>2. \A j \in Ids : SameGroup(j, jobs[i].flow)
    BY <1>1, PcTypes DEF IInv
  <1> QED
    BY <1>2, Alone DEF IInv, Ordered, Active

LEMMA RememberTrigger ==
  ASSUME IInv, RInv, Joins
  PROVE  RInv'
  <1>1. PICK n \in Nat : n = Len(jobs) + 1
    BY Types DEF IInv
  <1>2. Ids' = Ids \cup {n}
    BY <1>1, Types DEF IInv, Joins, Ids
  <1>3. \A j \in Ids : Carries(j)' /\ Recalls(j)'
    BY Undisturbed DEF Joins
  <1>4. Carries(n)' /\ Recalls(n)'
    BY <1>1 DEF Joins, Carries, Recalls
  <1> QED
    BY <1>2, <1>3, <1>4 DEF RInv

LEMMA RememberBegin ==
  ASSUME Reliable, IInv, RInv, NEW i \in Ids, Begins(i)
  PROVE  RInv'
  <1>1. PICK todo \in SUBSET Rules : Begin(i, todo)
    BY DEF Begins
  <1>2. /\ Len(jobs') = Len(jobs) /\ \A j \in Ids \ {i} : jobs'[j] = jobs[j]
        /\ jobs'[i].pc = "writing" /\ jobs'[i].state = durable /\ UNCHANGED durable
    BY <1>1, BeginEffect DEF IInv, Reliable, Begin
  <1>3. Ids' = Ids
    BY <1>2 DEF Ids
  <1>4. \A j \in Ids \ {i} : Carries(j)' /\ Recalls(j)'
    BY <1>2, Undisturbed DEF Keeps, Fixed
  <1>5. Carries(i)' /\ Recalls(i)'
    BY <1>2 DEF Carries, Recalls
  <1> QED
    BY <1>3, <1>4, <1>5 DEF RInv

LEMMA RememberWrite ==
  ASSUME IInv, RInv, NEW i \in Ids, Write(i)
  PROVE  RInv'
  <1>1. /\ Len(jobs') = Len(jobs) /\ \A j \in Ids \ {i} : jobs'[j] = jobs[j]
        /\ jobs'[i].pc = "writing" /\ jobs'[i].state = jobs[i].state /\ UNCHANGED durable
    BY WriteEffect DEF IInv, Write
  <1>2. Ids' = Ids
    BY <1>1 DEF Ids
  <1>3. \A j \in Ids \ {i} : Carries(j)' /\ Recalls(j)'
    BY <1>1, Undisturbed DEF Keeps, Fixed
  <1>4. Carries(i)' /\ Recalls(i)'
    BY <1>1 DEF RInv, Carries, Recalls, Write
  <1> QED
    BY <1>2, <1>3, <1>4 DEF RInv

LEMMA RememberReport ==
  ASSUME IInv, RInv, NEW i \in Ids, Reports(i)
  PROVE  RInv'
  <1>1. /\ Len(jobs') = Len(jobs) /\ \A j \in Ids \ {i} : jobs'[j] = jobs[j]
        /\ Fixed(i) /\ jobs'[i].pc = "publishing" /\ jobs'[i].outcome = jobs[i].outcome
        /\ jobs'[i].state = Reported(jobs[i]) /\ UNCHANGED durable
    BY ReportEffect DEF IInv, Reports
  <1>2. Ids' = Ids
    BY <1>1 DEF Ids
  <1>3. \A j \in Ids \ {i} : Carries(j)' /\ Recalls(j)'
    BY <1>1, Undisturbed DEF Keeps, Fixed
  <1>4. jobs[i].state = durable
    BY DEF RInv, Carries, Reports
  <1>5. Carries(i)' /\ Recalls(i)'
    BY <1>1, <1>4 DEF Carries, Recalls, Reported, Fixed
  <1> QED
    BY <1>2, <1>3, <1>5 DEF RInv

LEMMA RememberEnd ==
  ASSUME Reliable, IInv, RInv, NEW i \in Ids, Ends(i)
  PROVE  RInv'
  <1>1. PICK p \in {"done", "failed"} :
          /\ Leave(i, p)
          /\ \/ p = "failed" /\ UNCHANGED durable
             \/ /\ p = "done" /\ jobs[i].pc = "publishing"
                /\ durable' = IF jobs[i].state.exists THEN jobs[i].state ELSE durable
    BY DEF Ends
  <1>2. /\ Len(jobs') = Len(jobs) /\ jobs'[i].pc = p
        /\ \A j \in Ids : Keeps(j)
        /\ \A j \in Ids \ {i} : jobs'[j].pc \in {jobs[j].pc, "waiting"}
    BY <1>1, LeaveEffect DEF IInv, Over
  <1>3. Ids' = Ids
    BY <1>2 DEF Ids
  <1>4. CASE p = "failed"
    <2>1. \A j \in Ids : Carries(j)' /\ Recalls(j)'
      BY <1>1, <1>2, <1>4, Undisturbed
    <2> QED
      BY <1>3, <2>1 DEF RInv
  <1>5. CASE p = "done"
    <2>1. /\ jobs[i].pc = "publishing" /\ jobs[i].sha \in Shas
          /\ durable' = IF jobs[i].state.exists THEN jobs[i].state ELSE durable
          /\ jobs[i].state = IF jobs[i].flow = "deploy"
                             THEN MergeApplyResults(durable, jobs[i].sha, jobs[i].outcome)
                             ELSE durable
      BY <1>1, <1>5, PcTypes DEF RInv, Carries, IInv
    <2>2. \A r \in Rules, old \in Shas :
            old <= jobs[i].sha /\ Remembered(durable, r, old) => Remembered(durable', r, old)
      BY <2>1, MergeRemembers DEF IInv
    <2>3. \A j \in Ids : /\ jobs'[j].flow = jobs[j].flow /\ jobs'[j].sha = jobs[j].sha
                         /\ jobs'[j].outcome = jobs[j].outcome
      BY <1>2 DEF Keeps, Fixed
    <2>4. \A j \in Ids \ {i} : jobs[j].pc \notin Holding
      BY <2>1, OneGroup DEF Holding
    <2>5. ASSUME NEW j \in Ids \ {i}
          PROVE  Carries(j)' /\ Recalls(j)'
      <3>1. Carries(j)'
        BY <1>2, <2>4 DEF Carries, Holding
      <3>2. ASSUME NEW r \in Rules, jobs[j].flow = "deploy", jobs'[j].pc = "done",
                   jobs[j].outcome[r] = "success"
            PROVE  Remembered(durable', r, jobs[j].sha)
        <4>1. jobs[j].pc = "done" /\ Remembered(durable, r, jobs[j].sha)
          BY <1>2, <3>2 DEF RInv, Recalls
        <4>2. jobs[j].sha <= jobs[i].sha /\ jobs[j].sha \in Shas
          BY <2>1, <4>1, OneGroup, PcTypes DEF Holding, IInv
        <4> QED
          BY <2>2, <4>1, <4>2
      <3>3. Recalls(j)'
        BY <2>3, <3>2 DEF Recalls, Remembered
      <3> QED
        BY <3>1, <3>3
    <2>6. Carries(i)'
      BY <1>2, <1>5 DEF Carries
    <2>7. ASSUME NEW r \in Rules, jobs[i].flow = "deploy", jobs[i].outcome[r] = "success"
          PROVE  Remembered(durable', r, jobs[i].sha)
      BY <2>1, <2>7, MergeRemembers DEF IInv
    <2>8. Recalls(i)'
      BY <2>3, <2>7 DEF Recalls, Remembered
    <2> QED
      BY <1>3, <2>5, <2>6, <2>8 DEF RInv
  <1> QED
    BY <1>4, <1>5

(***************************************************************************)
(* With a reliable fetch and no prune, the branch tells of every rule that *)
(* a finished deploy wrote, at that deploy's commit or a later one.        *)
(***************************************************************************)
THEOREM StateRemembers == Reliable => (Spec => []SuccessIsRemembered)
  <1> SUFFICES ASSUME Reliable
               PROVE  Spec => []SuccessIsRemembered
    OBVIOUS
  <1>1. Init => RInv
    BY DEF Init, RInv, Ids
  <1>2. ASSUME IInv, IInv', RInv, [Next]_vars
        PROVE  RInv'
    <2>0. DOMAIN jobs = Ids
      BY <1>2, Types DEF IInv
    <2>1. CASE Merge
      BY <1>2, <2>1, MergeStep, RememberTrigger
    <2>2. ASSUME NEW flow \in Flows, Dispatch(flow)
          PROVE  RInv'
      BY <1>2, <2>2, DispatchStep, RememberTrigger
    <2>3. ASSUME NEW i \in Ids, Step(i) \/ Crash(i)
          PROVE  RInv'
      <3>1. Begins(i) \/ Write(i) \/ Ends(i) \/ Reports(i)
        BY <1>2, <2>3, StartsBegin, OthersEndOrReport DEF Step, IInv
      <3> QED
        BY <1>2, <3>1, RememberBegin, RememberWrite, RememberEnd, RememberReport
    <2>4. CASE UNCHANGED vars
      BY <1>2, <2>4 DEF vars, RInv, Ids, Carries, Recalls, Remembered
    <2> QED
      BY <1>2, <2>0, <2>1, <2>2, <2>3, <2>4 DEF Next
  <1>3. IInv /\ RInv => SuccessIsRemembered
    BY Types DEF IInv, RInv, Recalls, Remembered, SuccessIsRemembered
  <1> QED
    BY <1>1, <1>2, <1>3, Invariance, PTL DEF Spec
=============================================================================
