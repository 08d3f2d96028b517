----------------------------- MODULE DefenderApply -----------------------------
(***************************************************************************)
(* Defender custom detections: contentops/defender/client.py, deploy.py    *)
(* and contentops/handlers/defender_custom_detection.py.                   *)
(*                                                                         *)
(* Graph gives a rule its id when it is created, there is no upsert and no *)
(* etag: a run lists the rules once, matches each YAML by the recorded id  *)
(* or by display name, and PATCHes or POSTs it. What must not happen is a  *)
(* second rule of the same display name: from then on every run refuses    *)
(* to deploy. Runs follow each other (one concurrency group), may crash    *)
(* between any two calls, and are repeated; a POST is committed before its *)
(* client gives it up or never.                                            *)
(***************************************************************************)
EXTENDS HttpRetry, FiniteSets, Sequences, Functions

CONSTANTS Names, Bodies,
          Checkouts,     \* the YAMLs a run may deploy, in order
          InitialRules,  \* rules the tenant may hold: from ids to rules
          MaxVerify,     \* _VERIFY_ATTEMPTS (6 in the code)
          MaxRuns,       \* bound: runs
          MaxEdits       \* bound: edits and deletions in the portal

None == 0    \* no Graph id
Yaml == [name : Names, arm : Nat, body : Bodies]
Rule == [name : Names, body : Bodies]

ASSUME CheckoutsAssumption == Checkouts \subseteq Seq(Yaml)

\* The ids of the tenant were given out one after the other, and no two of its
\* rules share a display name: otherwise no run deploys anything.
ASSUME InitialRulesAssumption ==
    \A f \in InitialRules :
        /\ Cardinality(DOMAIN f) \in Nat
        /\ f \in [1..Cardinality(DOMAIN f) -> Rule]
        /\ \A i, j \in DOMAIN f : f[i].name = f[j].name => i = j
ASSUME BoundsAssumption == MaxVerify \in Nat \ {0} /\ MaxRuns \in Nat /\ MaxEdits \in Nat

VARIABLES rules,     \* the rules of the tenant: from ids to rules
          lagging,   \* what a GET may still return of them
          lastId,    \* the last id Graph gave out
          edits,     \* edits in the portal so far
          run,       \* number of the current run
          yamls,     \* its checkout
          at,        \* the YAML it is at
          pc,        \* the call it is at
          listed,    \* whether the index is built
          nameMap,   \* _name_map
          graphIds,  \* _graph_ids
          graphId,   \* the rule the YAML resolved to
          tries,     \* retries of this call, or reads of the verification
          results,   \* the results of this run
          posts      \* history: the rules created by POSTs

vars == <<rules, lagging, lastId, edits, run, yamls, at, pc, listed, nameMap,
          graphIds, graphId, tries, results, posts>>
tenant == <<rules, lagging, lastId, edits, posts>>

Partial(D, S) == UNION {[d -> S] : d \in SUBSET D}
Ids == 1..lastId
Statuses == {"noop", "verified", "unverified", "error-status", "error-apply"}
Post == [id : Nat \ {0}, run : 1..MaxRuns, at : Nat, name : Names, told : BOOLEAN]

TypeOK ==
    /\ rules \in Partial(Ids, Rule) /\ lagging \in Partial(Ids, Rule)
    /\ lastId \in Nat /\ edits \in 0..MaxEdits /\ run \in 0..MaxRuns
    /\ yamls \in Checkouts \cup {<<>>} /\ at \in 1..(Len(yamls) + 1)
    /\ pc \in {"idle", "resolve", "compare", "patch", "post", "verify"}
    /\ listed \in BOOLEAN
    /\ nameMap \in Partial(Names, Ids) /\ graphIds \subseteq Ids
    /\ graphId \in Ids \cup {None}
    /\ tries \in 0..(MaxRetries + MaxVerify)
    /\ results \in Seq(Statuses) /\ Len(results) <= Len(yamls)
    /\ posts \subseteq Post

Init ==
    /\ rules \in InitialRules /\ lagging = rules
    /\ lastId = Cardinality(DOMAIN rules)
    /\ edits = 0 /\ run = 0 /\ yamls = <<>> /\ at = 1 /\ pc = "idle"
    /\ listed = FALSE /\ nameMap = <<>> /\ graphIds = {} /\ graphId = None
    /\ tries = 0 /\ results = <<>> /\ posts = {}

Current == yamls[at]

-----------------------------------------------------------------------------
(* The index of the rules: deploy.py.                                      *)

Duplicated(name) == \E i, j \in DOMAIN rules :
                        i # j /\ rules[i].name = name /\ rules[j].name = name

\* build_rule_index raises when a display name is taken twice.
BuildNameMap ==
    [n \in {rules[i].name : i \in DOMAIN rules} |->
        CHOOSE i \in DOMAIN rules : rules[i].name = n]

\* Mutant: the rules are matched by display name only.
ResolveByName(yaml) ==
    IF yaml.name \in DOMAIN nameMap THEN nameMap[yaml.name] ELSE None

\* resolve_graph_id: the recorded id wins while that rule exists.
ResolveGraphId(yaml) ==
    IF yaml.arm \in graphIds THEN yaml.arm
    ELSE IF yaml.name \in DOMAIN nameMap THEN nameMap[yaml.name] ELSE None

\* record_graph_id: `name` points at `id` for the rest of the run, and no other
\* name does.
RecordGraphId(name, id) ==
    /\ nameMap' = [n \in {m \in DOMAIN nameMap : nameMap[m] # id} \cup {name} |->
                      IF n = name THEN id ELSE nameMap[n]]
    /\ graphIds' = graphIds \cup {id}

-----------------------------------------------------------------------------
Goto(call) == pc' = call /\ tries' = 0

\* An ActionResult for this YAML; the run goes on with the next one.
Return(status) ==
    /\ results' = Append(results, status)
    /\ at' = at + 1
    /\ Goto(IF at = Len(yamls) THEN "idle" ELSE "resolve")
    /\ graphId' = None

\* What a request shows when it does not succeed, and whether Graph acted on it:
\* after a 5xx or a transport fault nobody knows.
Fault(seen, committed) ==
    /\ seen \in Refusals \cup Exceptions
    /\ committed \in BOOLEAN
    /\ committed => seen \in {"5xx", "transport"}

\* The request is repeated, or the YAML's apply ends in an error.
RetryOrFail(idempotent, seen) ==
    IF Retries(idempotent, seen, tries)
    THEN /\ tries' = tries + 1
         /\ UNCHANGED <<pc, at, results, graphId>>
    ELSE Return(IF Raises(seen) THEN "error-apply" ELSE "error-status")

\* A YAML records an id only after Graph has given it out.
Start ==
    /\ pc = "idle" /\ run < MaxRuns
    /\ run' = run + 1
    /\ yamls' \in {c \in Checkouts : \A k \in DOMAIN c : c[k].arm <= lastId}
    /\ at' = 1 /\ results' = <<>> /\ graphId' = None
    /\ listed' = FALSE /\ nameMap' = <<>> /\ graphIds' = {}
    /\ Goto(IF yamls' = <<>> THEN "idle" ELSE "resolve")
    /\ UNCHANGED tenant

\* _name_map_or_build: listed once per run; while that fails, each YAML fails.
ListRules ==
    /\ pc = "resolve" /\ ~listed
    /\ \/ /\ \A n \in Names : ~Duplicated(n)
          /\ listed' = TRUE
          /\ nameMap' = BuildNameMap
          /\ graphIds' = DOMAIN rules
          /\ UNCHANGED <<at, pc, graphId, tries, results>>
       \/ /\ Return("error-apply")     \* duplicates, or the listing failed
          /\ UNCHANGED <<listed, nameMap, graphIds>>
    /\ UNCHANGED <<tenant, run, yamls>>

Resolve ==
    /\ pc = "resolve" /\ listed
    /\ graphId' = ResolveGraphId(Current)
    /\ Goto(IF graphId' = None THEN "post" ELSE "compare")
    /\ UNCHANGED <<tenant, run, yamls, at, listed, nameMap, graphIds, results>>

\* A GET returns the rule as it is or as it was before the last change.
Reads == {f \in {rules, lagging} : graphId \in DOMAIN f}
MayBeGone == graphId \notin DOMAIN rules \cap DOMAIN lagging
Wanted(rule) == rule = [name |-> Current.name, body |-> Current.body]

\* Push only when the rule differs; a GET that fails for good fails the YAML.
Compare ==
    /\ pc = "compare"
    /\ \/ \E f \in Reads :
            \/ Wanted(f[graphId]) /\ Return("noop")
            \/ ~Wanted(f[graphId]) /\ Goto("patch") /\ UNCHANGED <<at, graphId, results>>
       \/ MayBeGone /\ Goto("patch") /\ UNCHANGED <<at, graphId, results>>
       \/ Return("error-apply")
    /\ UNCHANGED <<tenant, run, yamls, listed, nameMap, graphIds>>

Change(newRules) == rules' = newRules /\ lagging' = rules

Patched == [rules EXCEPT ![graphId] = [name |-> Current.name, body |-> Current.body]]

Patch ==
    /\ pc = "patch"
    /\ \/ /\ graphId \in DOMAIN rules
          /\ Change(Patched)
          /\ RecordGraphId(Current.name, graphId)
          /\ Goto("verify")
          /\ UNCHANGED <<at, graphId, results>>
       \/ /\ graphId \notin DOMAIN rules      \* 404
          /\ Return("error-status")
          /\ UNCHANGED <<rules, lagging, nameMap, graphIds>>
       \/ \E seen \in Refusals \cup Exceptions, committed \in BOOLEAN :
            /\ Fault(seen, committed)
            /\ IF committed /\ graphId \in DOMAIN rules
               THEN Change(Patched) ELSE UNCHANGED <<rules, lagging>>
            /\ RetryOrFail(TRUE, seen)
            /\ UNCHANGED <<nameMap, graphIds>>
    /\ UNCHANGED <<lastId, edits, posts, run, yamls, listed>>

\* Graph creates the rule; `told` says whether this run learns its id.
Create(told) ==
    /\ lastId' = lastId + 1
    /\ Change([i \in DOMAIN rules \cup {lastId + 1} |->
                  IF i = lastId + 1 THEN [name |-> Current.name, body |-> Current.body]
                  ELSE rules[i]])
    /\ posts' = posts \cup {[id |-> lastId + 1, run |-> run, at |-> at,
                             name |-> Current.name, told |-> told]}

\* create_rule; a 201 whose body is not JSON leaves the id unknown.
PostRule ==
    /\ pc = "post"
    /\ \/ /\ Create(TRUE)
          /\ graphId' = lastId + 1
          /\ RecordGraphId(Current.name, lastId + 1)
          /\ Goto("verify")
          /\ UNCHANGED <<at, results>>
       \/ /\ Create(FALSE)
          /\ Return("unverified")
          /\ UNCHANGED <<nameMap, graphIds>>
       \/ \E seen \in Refusals \cup Exceptions, committed \in BOOLEAN :
            /\ Fault(seen, committed)
            /\ IF committed THEN Create(FALSE) ELSE UNCHANGED <<rules, lagging, lastId, posts>>
            /\ RetryOrFail(FALSE, seen)
            /\ UNCHANGED <<nameMap, graphIds>>
    /\ UNCHANGED <<edits, run, yamls, listed>>

\* Mutant: the attempts start over when the last one was stale.
VerifyAgain ==
    /\ pc = "verify"
    /\ \/ \E f \in Reads : Wanted(f[graphId]) /\ Return("verified")
       \/ /\ MayBeGone \/ \E f \in Reads : ~Wanted(f[graphId])
          /\ tries' = (tries + 1) % MaxVerify
          /\ UNCHANGED <<at, pc, graphId, results>>
    /\ UNCHANGED <<tenant, run, yamls, listed, nameMap, graphIds>>

\* The reads are repeated while they are stale, MaxVerify times in all. A GET
\* that raises ends the YAML as a success that is not verified.
Verify ==
    /\ pc = "verify"
    /\ \/ \E f \in Reads : Wanted(f[graphId]) /\ Return("verified")
       \/ /\ MayBeGone \/ \E f \in Reads : ~Wanted(f[graphId])
          /\ IF tries + 1 < MaxVerify
             THEN tries' = tries + 1 /\ UNCHANGED <<at, pc, graphId, results>>
             ELSE Return("unverified")
       \/ Return("unverified")
    /\ UNCHANGED <<tenant, run, yamls, listed, nameMap, graphIds>>

-----------------------------------------------------------------------------
Crash ==
    /\ pc # "idle"
    /\ Goto("idle")
    /\ UNCHANGED <<tenant, run, yamls, at, listed, nameMap, graphIds, graphId, results>>

Converge ==
    /\ lagging # rules
    /\ lagging' = rules
    /\ UNCHANGED <<rules, lastId, edits, posts, run, yamls, at, pc, listed, nameMap,
                   graphIds, graphId, tries, results>>

\* The portal changes a rule's content or deletes the rule.
PortalEdit ==
    /\ edits < MaxEdits
    /\ edits' = edits + 1
    /\ \E i \in DOMAIN rules :
         \/ \E b \in Bodies : Change([rules EXCEPT ![i].body = b])
         \/ Change(Restrict(rules, DOMAIN rules \ {i}))
    /\ UNCHANGED <<lastId, posts, run, yamls, at, pc, listed, nameMap, graphIds,
                   graphId, tries, results>>

RunStep == ListRules \/ Resolve \/ Compare \/ Patch \/ PostRule \/ Verify

Next == Start \/ RunStep \/ Crash \/ Converge \/ PortalEdit

Spec == Init /\ [][Next]_vars

\* A run's calls return (they have timeouts) and its loop goes on.
FairSpec == Spec /\ WF_vars(RunStep)

-----------------------------------------------------------------------------
\* No YAML brings the name to a rule that it knows by a recorded id.
Unrenamed(name) == \A c \in Checkouts : \A k \in DOMAIN c : c[k].name = name => c[k].arm = None

\* In one run a display name is POSTed again only when the run was not told the
\* id of the rule its earlier POST created: record_graph_id makes the second
\* YAML PATCH it.
SecondYamlPatches ==
    \A p, q \in posts :
        p.run = q.run /\ p.name = q.name /\ p.at <= q.at /\ p.id < q.id /\ Unrenamed(p.name) => ~p.told

\* A YAML that carries the id of a rule the run saw is never deployed as a
\* second rule: a rename happens in place.
RenamedInPlace ==
    [][\A p \in posts' \ posts : yamls[p.at].arm \notin graphIds]_vars

Unshared(name) ==
    \A c \in Checkouts : \A k, l \in DOMAIN c : c[k].name = name /\ c[l].name = name => k = l

\* However often runs fail, crash between a POST and its answer, and are
\* repeated, no display name that one YAML of a checkout claims is ever
\* taken twice. A rename is excepted: it may bring the name of another rule.
OneRulePerName == \A n \in Names : Unshared(n) /\ Unrenamed(n) => ~Duplicated(n)

\* A run that is not cut short deals with each of its YAMLs.
EveryRunEnds == [](pc # "idle" => <>(pc = "idle"))

\* No YAML makes a second rule of a name, within a run or by repeating one.
NoSecondRule == SecondYamlPatches /\ OneRulePerName
=============================================================================
