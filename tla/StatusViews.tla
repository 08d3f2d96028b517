---------------------------- MODULE StatusViews ----------------------------
(***************************************************************************)
(* What is told of a rule once it has a past: the page of deployments, the *)
(* list of what was never deployed, the queries of the audit trail and the *)
(* report's deploy dates read the files, the state file and the trail,     *)
(* each in its own way.  A world is what they read, and what really was    *)
(* tried last on each rule, that nothing reads.                            *)
(***************************************************************************)
EXTENDS Integers, FiniteSets, Sequences, SequencesExt

CONSTANT
  Assets      \* the assets, by kind and id; no two kinds share an id

-----------------------------------------------------------------------------
(* The state file: the assets it has, and the status of each.              *)

IsManaged(state, a) == a \in DOMAIN state.managed

\* What an apply did is merged into the entries; what it skipped is not.
MergeResults(state, outcome) ==
  LET did == {a \in DOMAIN outcome : outcome[a] # "skipped"} IN
  [applied |-> TRUE,
   managed |-> [a \in DOMAIN state.managed \cup did |->
                  IF a \in did THEN [status |-> outcome[a]] ELSE state.managed[a]]]

ClassifyRemote(state, a, inLocal) ==
  CASE inLocal /\ IsManaged(state, a)   -> "in-sync"
    [] inLocal /\ ~IsManaged(state, a)  -> "new-local"
    [] ~inLocal /\ IsManaged(state, a)  -> "orphan"
    [] OTHER                            -> "unmanaged"

(* state adopt: what drift finds in sync is remembered, unless it was      *)
(* before; a kind that could not be listed ends it.                        *)
Adopt(w, listed, refresh) ==
  IF ~listed THEN w.state
  ELSE LET new == {a \in w.sync : refresh \/ ~IsManaged(w.state, a)} IN
       [w.state EXCEPT !.managed =
          [a \in DOMAIN @ \cup new |-> IF a \in new THEN [status |-> "adopted"] ELSE @[a]]]

-----------------------------------------------------------------------------
(* A world, and what happens in it: an apply, whose state file may fail to *)
(* be published; a retry, a rollback and a prune, that only leave records; *)
(* a lifecycle command; a file removed; an adoption.                       *)

\* idle: the files whose status has apply skip them (experimental; for some kinds deprecated).
Start == [git |-> Assets, idle |-> {}, sync |-> {}, state |-> [applied |-> FALSE, managed |-> <<>>],
          trail |-> <<>>, tried |-> [a \in Assets |-> "nothing"]]

Recorded(w, a, action, status) ==
  [w EXCEPT !.trail = Append(@, [at |-> Len(w.trail) + 1, id |-> a, action |-> action, status |-> status])]

\* A result's status in the trail and in the state file.
OutcomeOf(w, a, ok) == IF ~ok THEN "failed" ELSE IF a \in w.idle THEN "skipped" ELSE "success"
Applied(w, a, ok, published) ==
  LET outcome == OutcomeOf(w, a, ok) IN
  [Recorded(w, a, "apply", outcome) EXCEPT
     !.state = IF published THEN MergeResults(@, [b \in {a} |-> outcome]) ELSE @,
     !.sync  = IF outcome = "success" THEN @ \cup {a} ELSE @,
     !.tried[a] = IF outcome = "success" /\ published THEN "applied" ELSE outcome]

FailedBefore(w) == {w.trail[n].id : n \in {m \in DOMAIN w.trail : w.trail[m].status = "failed"}}
Replayed(w, a, ok, action) ==
  LET outcome == OutcomeOf(w, a, ok) IN
  [Recorded(w, a, action, outcome) EXCEPT
     !.sync = IF outcome # "success" THEN @ ELSE IF action = "retry" THEN @ \cup {a} ELSE @ \ {a},
     !.tried[a] = outcome]
Pruned(w, a, ok) ==
  LET outcome == IF ok THEN "success" ELSE "failed" IN
  [Recorded(w, a, "delete", outcome) EXCEPT !.tried[a] = outcome]
Edited(w, a, idle) ==
  [Recorded(w, a, "edit", "ok") EXCEPT !.idle = IF idle THEN @ \cup {a} ELSE @ \ {a}, !.tried[a] = "edited"]
FileRemoved(w, a) == [w EXCEPT !.git = @ \ {a}, !.idle = @ \ {a}, !.sync = @ \ {a}]

NextWorlds(w) ==
  {Applied(w, a, ok, published) : a \in w.git, ok, published \in BOOLEAN}
    \cup {Replayed(w, a, ok, "retry") : a \in w.git \cap FailedBefore(w), ok \in BOOLEAN}
    \cup {Replayed(w, a, ok, "rollback") : a \in w.git, ok \in BOOLEAN}
    \cup {Pruned(w, a, ok) : a \in Assets \ w.git, ok \in BOOLEAN}
    \cup {Edited(w, a, idle) : a \in w.git, idle \in BOOLEAN}
    \cup {FileRemoved(w, a) : a \in w.git}
    \cup {[w EXCEPT !.sync = @ \cup {a}] : a \in w.git}   \* deployed by hand
    \cup {[w EXCEPT !.sync = @ \ {a}] : a \in w.git}      \* changed in the portal, or in the file
    \cup {[w EXCEPT !.state = Adopt(w, TRUE, refresh)] : refresh \in BOOLEAN}
-----------------------------------------------------------------------------
(* The views.                                                              *)

LatestRecords(w) ==
  [a \in {w.trail[n].id : n \in DOMAIN w.trail} |->
     LET of == {n \in DOMAIN w.trail : w.trail[n].id = a} IN
     w.trail[CHOOSE n \in of : \A m \in of : w.trail[m].at <= w.trail[n].at]]

Classify(inGit, entry, audit) ==
  CASE ~inGit /\ entry # "none" -> "orphan"
    [] inGit /\ entry = "none"  -> "unmanaged"
    [] OTHER -> IF "failed" \in {entry, audit} THEN "failed" ELSE "in-sync"

\* The rows: what git has and what the state file has.
Rows(w) == w.git \cup DOMAIN w.state.managed
EntryOf(w, a) == IF IsManaged(w.state, a) THEN w.state.managed[a].status ELSE "none"
AuditOf(w, a) == IF a \in DOMAIN LatestRecords(w) THEN LatestRecords(w)[a].status ELSE "none"
ClassOf(w, a) == Classify(a \in w.git, EntryOf(w, a), AuditOf(w, a))
Totals(w) == [c \in {"in-sync", "failed", "unmanaged", "orphan"} |-> Cardinality({a \in Rows(w) : ClassOf(w, a) = c})]
Shown(w, failuresOnly) == {a \in Rows(w) : failuresOnly => ClassOf(w, a) \in {"failed", "orphan"}}

FindUndeployed(w) == {a \in w.git : ~IsManaged(w.state, a)}

QueryTimeline(w, a) == SelectSeq(w.trail, LAMBDA r : r.id = a)
QueryFailures(w, since) == SelectSeq(w.trail, LAMBDA r : r.status = "failed" /\ r.at >= since)
QueryLatest(w, a) ==
  FoldLeft(LAMBDA latest, r : IF r.id = a /\ (latest = <<>> \/ r.at > latest[1].at) THEN <<r>> ELSE latest,
           <<>>, w.trail)

DeployDates(w) ==
  LET of(a) == {n \in DOMAIN w.trail : w.trail[n].id = a /\ w.trail[n].status = "success"}
      told == {a \in Assets : of(a) # {}} IN
  [a \in told |-> Max({w.trail[n].at : n \in of(a)})]

-----------------------------------------------------------------------------
(* The page tells what happened: a file whose deploy succeeded last is in   *)
(* sync, one that was tried last and failed is not called so, and of one in *)
(* sync that was not adopted the trail has a deploy (deployments.py:74,     *)
(* assemble.py:256).  A deploy that failed and was then edited is excepted: *)
(* the edit's record hides the failure that was not published.              *)
PageTellsTheLast(w) ==
  \A a \in w.git :
    /\ w.tried[a] = "applied" /\ EntryOf(w, a) # "adopted" => ClassOf(w, a) = "in-sync"
    /\ w.tried[a] = "failed" => ClassOf(w, a) # "in-sync"
    /\ ClassOf(w, a) = "in-sync" /\ EntryOf(w, a) # "adopted" => a \in DOMAIN DeployDates(w)
    /\ ClassOf(w, a) = "failed" => a \in FailedBefore(w)

(* The views agree: what undeployed lists are the unmanaged rows, what drift *)
(* calls orphaned or new are the page's, the latest record of the page is    *)
(* the one the query gives and the last of the timeline, the failures of all *)
(* time are the failed records of the timelines, and the totals count every  *)
(* row (undeployed.py:50, state.py:180, audit_query.py:105, deployments.py:  *)
(* 193).                                                                     *)
ViewsOfStatusAgree(w) ==
  /\ FindUndeployed(w) = {a \in Rows(w) : ClassOf(w, a) = "unmanaged"}
  /\ \A a \in Rows(w) :
       LET class == ClassifyRemote(w.state, a, a \in w.git) IN
       /\ class = "orphan" <=> ClassOf(w, a) = "orphan"
       /\ class = "new-local" <=> a \in FindUndeployed(w)
  /\ \A a \in Assets :
       LET line == QueryTimeline(w, a) IN
       IF line = <<>> THEN QueryLatest(w, a) = <<>> /\ a \notin DOMAIN LatestRecords(w)
       ELSE QueryLatest(w, a) = <<LatestRecords(w)[a]>> /\ Last(line) = LatestRecords(w)[a]
  /\ FailedBefore(w) = {a \in Assets : \E r \in Range(QueryTimeline(w, a)) : r \in Range(QueryFailures(w, 0))}
  /\ Cardinality(Rows(w)) = FoldSet(LAMBDA c, n : n + Totals(w)[c], 0, DOMAIN Totals(w))
  /\ Cardinality(Shown(w, TRUE)) = Totals(w)["failed"] + Totals(w)["orphan"]

(* Adoption takes the rules that are in sync and no other, leaves what the  *)
(* state file says of the rest and of the last apply, clears no failure,    *)
(* and has nothing left to do when it is done; a listing that failed        *)
(* changes nothing (cli state.py:214).                                      *)
AdoptionTellsNoLie(w) ==
  \A refresh \in BOOLEAN :
    LET after == [w EXCEPT !.state = Adopt(w, TRUE, refresh)] IN
    /\ Adopt(w, FALSE, refresh) = w.state
    /\ Adopt(after, TRUE, refresh) = after.state /\ after.state.applied = w.state.applied
    /\ w.sync \subseteq DOMAIN after.state.managed
    /\ FindUndeployed(after) = FindUndeployed(w) \ w.sync
    /\ \A a \in Rows(w) \ (IF refresh THEN w.sync ELSE {b \in w.sync : ~IsManaged(w.state, b)}) :
         ClassOf(after, a) = ClassOf(w, a)
    /\ \A a \in w.sync : AuditOf(w, a) = "failed" => ClassOf(after, a) # "in-sync"
=============================================================================
