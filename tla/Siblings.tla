------------------------------ MODULE Siblings ------------------------------
(***************************************************************************)
(* What surrounds the analytics: playbooks with their API connections,     *)
(* automation rules that run playbooks, saved searches (parsers and hunts) *)
(* and watchlists; how `apply' writes them, `collect' reads them, `prune'  *)
(* deletes them, and what people build by hand meanwhile.                  *)
(*                                                                         *)
(* Every kind finds its resource by a name of its own making: the id of    *)
(* the envelope, metadata.arm_name, an alias, a GUID computed from the id. *)
(* References between files are by envelope id.  GET, conditional PUT and  *)
(* read-back of one resource are the subject of ArmApply: here a PUT takes *)
(* effect or fails.                                                        *)
(***************************************************************************)
EXTENDS Naturals, FiniteSets, Functions

CONSTANTS
  Drafts,      \* the files that engineers may commit
  Slug,        \* the id that displayname_slug derives for the resource of a name
  Guid,        \* envelope_id_to_guid: uuid5 of the id
  HandMade,    \* the resources that people may build, as <<space, name, resource>>
  Bodies,
  None,
  MaxGit,      \* bound: files committed or removed
  MaxPortal,   \* bound: changes by hand
  MaxRuns,     \* bound: runs of apply, collect and prune
  MaxFaults    \* bound: requests refused, runs that die

Kinds == {"playbook", "parser", "hunting", "watchlist", "automation", "analytic"}

ASSUME BoundsAssumption == {MaxGit, MaxPortal, MaxRuns, MaxFaults} \subseteq Nat

(* The sugar of a rule's actions knows `playbook:' and `analytic:'. *)
ASSUME DraftsAssumption ==
  \A f \in Drafts : f.kind = "automation" =>
    /\ \A ref \in f.refs : ref[1] \in {"playbook", "analytic"}
    /\ \A t \in f.plain : t = <<t[1], t[2]>>

VARIABLES
  files,    \* main: the files, by <<kind, id>>
  remote,   \* the resources, by <<space, name>>
  conns,    \* the API connections, by name: whose tag they carry, who made them
  run,      \* the run in progress: what it does, what is left, whether all went well
  fresh,    \* history: what a collected file was read from, until either changes,
            \* or a file that it refers to
  counts    \* the bounded counters

vars == <<files, remote, conns, run, fresh, counts>>

NoRun == [does |-> "nothing", todo |-> {}, now |-> None, wired |-> {}, ok |-> TRUE]
Empty == [x \in {} |-> None]

-----------------------------------------------------------------------------
(* Names. *)

Space(kind) == IF kind \in {"parser", "hunting"} THEN "savedSearch" ELSE kind

\* Mutant: a collected playbook is deployed under its id.
RemoteNameById(f) == IF f.kind = "automation" THEN Guid[f.id] ELSE f.id

(* The watchlistAlias of a payload plays the part of arm_name.  A saved search *)
(* is always named by the id, whatever arm_name says.                          *)
RemoteName(f) ==
  IF f.kind \in {"parser", "hunting"} \/ f.arm = None
  THEN (IF f.kind = "automation" THEN Guid[f.id] ELSE f.id)
  ELSE f.arm
Address(f) == <<Space(f.kind), RemoteName(f)>>

(* Ids are required, and an empty arm_name counts as none. *)
ASSUME NamesAssumption == \A f \in Drafts : RemoteName(f) # None

(* connection_arm_name *)
ConnName(id, c) == IF c.as = None THEN <<id, c.name>> ELSE c.as

(* Connections are named, and belong to playbooks. *)
ASSUME ConnectionsAssumption ==
  \A f \in Drafts : /\ f.kind # "playbook" => f.conns = {}
                    /\ \A c \in f.conns : ConnName(f.id, c) # None

(* What the portal makes: workflows use connections, rules run things, and the *)
(* managed tag is on workflows alone.                                          *)
ASSUME HandMadeAssumption ==
  \A h \in HandMade :
    LET r == h[3] IN
    /\ h[1] = Space(r.cat) /\ h[2] # None
    /\ r = [cat |-> r.cat, body |-> r.body, managed |-> r.managed,
            uses |-> [l \in DOMAIN r.uses |-> r.uses[l]], runs |-> r.runs]
    /\ r.managed \in BOOLEAN
    /\ r.cat # "playbook" => ~r.managed /\ DOMAIN r.uses = {}
    /\ r.cat # "automation" => r.runs = {}
    /\ \A l \in DOMAIN r.uses : r.uses[l] # None

(* `playbook:' becomes a workflow named by the id; `analytic:' is looked up in  *)
(* the files, and a plain ARM id stays.  The references of the other kinds are  *)
(* their entries in dependencies.yml.                                           *)
Resolve(fs, ref) == IF ref[1] = "playbook" THEN ref ELSE Address(fs[ref])
Runs(fs, f) ==
  IF f.kind = "automation" THEN {Resolve(fs, ref) : ref \in f.refs} \cup f.plain ELSE {}

-----------------------------------------------------------------------------
(* Files and bodies. *)

(* dependencies.validate, as pull requests run it; payload validation lets a *)
(* playbook use only the connections that it declares.                       *)
Validated(fs) ==
  \A k \in DOMAIN fs : fs[k].refs \subseteq DOMAIN fs

(* plan(): experimental and deprecated files, and watchlists that carry no *)
(* content because they were collected, are skipped.                       *)
Deployed(f) == f.status = "production" /\ f.content

Body(fs, f) ==
  [cat |-> f.kind, body |-> f.body, managed |-> f.kind = "playbook",
   uses |-> [l \in {c.name : c \in f.conns} |->
               ConnName(f.id, CHOOSE c \in f.conns : c.name = l)],
   runs |-> Runs(fs, f)]

Uses(r) == {r.uses[l] : l \in DOMAIN r.uses}

(* connections_from_remote: a connection that has the default name of the *)
(* workflow is written without it.                                        *)
CollectedConns(name, r) ==
  {[name |-> l, as |-> IF r.uses[l] = <<name, l>> THEN None ELSE r.uses[l]] :
     l \in DOMAIN r.uses}

(* A workflow in the playbook resource group reads back as the slug of its  *)
(* name, an analytics rule as the envelope that deploys it, if there is one. *)
Reversed(fs, target) ==
  IF target[1] = "playbook" THEN {<<"playbook", Slug[target[2]]>>}
  ELSE {k \in DOMAIN fs : k[1] = "analytic" /\ Address(fs[k]) = target}

Envelope(fs, space, name, r) ==
  [kind |-> r.cat,
   id |-> IF r.cat \in {"parser", "hunting"} THEN name ELSE Slug[name],
   arm |-> IF r.cat = "parser" THEN None ELSE name,
   status |-> "production", body |-> r.body,
   content |-> r.cat # "watchlist",
   conns |-> CollectedConns(name, r),
   refs |-> UNION {Reversed(fs, t) : t \in r.runs},
   plain |-> {t \in r.runs : Reversed(fs, t) = {}}]

(* list_remote: workflows by the managed tag, saved searches by category. *)
Listed ==
  {a \in DOMAIN remote : /\ remote[a].cat # "analytic"
                         /\ remote[a].cat = "playbook" => remote[a].managed}

(* A resource has a file when one knows its name, or has the derived id. *)
Local(a) ==
  {k \in DOMAIN files : /\ files[k].kind = remote[a].cat
                        /\ {files[k].id, files[k].arm} \cap {a[2], Slug[a[2]]} # {}}
Orphans == {a \in Listed : Local(a) = {}}

-----------------------------------------------------------------------------
(* People. *)

Count(c) == counts' = [counts EXCEPT ![c] = @ - 1]
Same(fs, j) == j \in DOMAIN fs /\ fs[j] = files[j]
Fresh(fs, rm) ==
  [k \in {j \in DOMAIN fresh :
            /\ Same(fs, j) /\ \A ref \in files[j].refs : Same(fs, ref)
            /\ fresh[j] \in DOMAIN rm /\ rm[fresh[j]] = remote[fresh[j]]} |-> fresh[k]]

Commit(f) ==
  /\ counts["git"] > 0
  /\ LET fs == [k \in DOMAIN files \cup {<<f.kind, f.id>>} |->
                  IF k = <<f.kind, f.id>> THEN f ELSE files[k]] IN
       /\ fs # files /\ Validated(fs)
       /\ files' = fs
       /\ fresh' = Fresh(fs, remote)
  /\ Count("git")
  /\ UNCHANGED <<remote, conns, run>>

Remove(k) ==
  /\ counts["git"] > 0
  /\ Validated(Restrict(files, DOMAIN files \ {k}))
  /\ files' = Restrict(files, DOMAIN files \ {k})
  /\ fresh' = Fresh(files', remote)
  /\ Count("git")
  /\ UNCHANGED <<remote, conns, run>>

BuildByHand(h) ==
  LET r == h[3] IN
  /\ counts["portal"] > 0
  /\ <<h[1], h[2]>> \notin DOMAIN remote
  /\ r.runs \subseteq DOMAIN remote
  /\ remote' = [a \in DOMAIN remote \cup {<<h[1], h[2]>>} |->
                  IF a = <<h[1], h[2]>> THEN r ELSE remote[a]]
  /\ conns' = [c \in DOMAIN conns \cup Uses(r) |->
                 IF c \in DOMAIN conns THEN conns[c] ELSE [tag |-> None, made |-> "hand"]]
  /\ Count("portal")
  /\ UNCHANGED <<files, run, fresh>>

EditByHand(a, b) ==
  /\ counts["portal"] > 0
  /\ remote[a].body # b
  /\ remote' = [remote EXCEPT ![a].body = b]
  /\ fresh' = Fresh(files, remote')
  /\ Count("portal")
  /\ UNCHANGED <<files, conns, run>>

-----------------------------------------------------------------------------
(* collect *)

(* collect --asset sentinel_playbook --adopt: the tag, then the import. *)
Adopt(a) ==
  /\ run = NoRun /\ counts["runs"] > 0
  /\ remote[a].cat = "playbook"
  /\ remote' = [remote EXCEPT ![a].managed = TRUE]
  /\ Count("runs")
  /\ UNCHANGED <<files, conns, run, fresh>>

(* One resource that has no file; what changed in one that has is the subject *)
(* of DriftImport.  The pull request is merged as it is, if its checks pass.  *)
Collect(a) ==
  LET f == Envelope(files, a[1], a[2], remote[a])
      key == <<f.kind, f.id>>
      fs == [k \in DOMAIN files \cup {key} |-> IF k = key THEN f ELSE files[k]] IN
  /\ run = NoRun /\ counts["runs"] > 0
  /\ a \in Orphans /\ key \notin DOMAIN files
  /\ Validated(fs)
  /\ files' = fs
  /\ fresh' = [k \in DOMAIN Fresh(fs, remote) \cup {key} |-> IF k = key THEN a ELSE fresh[k]]
  /\ Count("runs")
  /\ UNCHANGED <<remote, conns, run>>

-----------------------------------------------------------------------------
(* apply *)

\* Mutant: every kind has the same place in the order, and paths decide.
ApplyOrderFlat(kind) ==
  CASE kind = "analytic" -> 1 [] kind = "automation" -> 2 [] kind = "hunting" -> 3
    [] kind = "parser" -> 4 [] kind = "playbook" -> 5 [] kind = "watchlist" -> 6
ApplyOrder(kind) == CASE kind = "playbook" -> 10 [] kind = "automation" -> 90 [] OTHER -> 50

StartApply ==
  /\ run = NoRun /\ counts["runs"] > 0
  /\ run' = [NoRun EXCEPT !.does = "apply",
                          !.todo = {k \in DOMAIN files : Deployed(files[k])}]
  /\ run'.todo # {}
  /\ Count("runs")
  /\ UNCHANGED <<files, remote, conns, fresh>>

(* The run reads the checkout it was started on: no merge meanwhile. *)
Current(k) ==
  /\ run.does = "apply" /\ k \in run.todo
  /\ run.now \in {None, k}
  /\ \A j \in run.todo : ApplyOrder(files[k].kind) <= ApplyOrder(files[j].kind)
Unwired(k) == {c \in files[k].conns : ConnName(files[k].id, c) \notin run.wired}

Leave(k, ok) ==
  run' = [run EXCEPT !.todo = @ \ {k}, !.now = None, !.wired = {}, !.ok = @ /\ ok]

(* _apply_connection: whoever made the connection, it now carries this tag. *)
PutConnection(k) ==
  /\ Current(k)
  /\ \E c \in Unwired(k) :
       LET n == ConnName(files[k].id, c) IN
       /\ conns' = [m \in DOMAIN conns \cup {n} |->
                      IF m # n THEN conns[m]
                      ELSE [tag |-> files[k].id,
                            made |-> IF n \in DOMAIN conns THEN conns[n].made ELSE "tool"]]
       /\ run' = [run EXCEPT !.now = k, !.wired = @ \cup {n}]
  /\ UNCHANGED <<files, remote, fresh, counts>>

(* A connection that ARM refuses, or that does not read back as a managed *)
(* identity's, ends the file there.                                       *)
ConnectionFails(k) ==
  /\ Current(k) /\ Unwired(k) # {} /\ counts["faults"] > 0
  /\ Leave(k, FALSE)
  /\ Count("faults")
  /\ UNCHANGED <<files, remote, conns, fresh>>

\* Mutant: the workflow is written whatever became of its connections.
PutResourceUnwired(k) ==
  /\ Current(k)
  /\ remote' = [a \in DOMAIN remote \cup {Address(files[k])} |->
                  IF a = Address(files[k]) THEN Body(files, files[k]) ELSE remote[a]]
  /\ fresh' = Fresh(files, remote')
  /\ Leave(k, TRUE)
  /\ UNCHANGED <<files, conns, counts>>

PutResource(k) ==
  /\ Current(k) /\ Unwired(k) = {}
  /\ remote' = [a \in DOMAIN remote \cup {Address(files[k])} |->
                  IF a = Address(files[k]) THEN Body(files, files[k]) ELSE remote[a]]
  /\ fresh' = Fresh(files, remote')
  /\ Leave(k, TRUE)
  /\ UNCHANGED <<files, conns, counts>>

(* An etag conflict, or an error of the API: the next file is tried. *)
PutFails(k) ==
  /\ Current(k) /\ Unwired(k) = {} /\ counts["faults"] > 0
  /\ Leave(k, FALSE)
  /\ Count("faults")
  /\ UNCHANGED <<files, remote, conns, fresh>>

FinishApply ==
  /\ run.does = "apply" /\ run.todo = {}
  /\ run' = NoRun
  /\ UNCHANGED <<files, remote, conns, fresh, counts>>

Apply == \E k \in run.todo :
           PutConnection(k) \/ ConnectionFails(k) \/ PutResource(k) \/ PutFails(k)

-----------------------------------------------------------------------------
(* prune *)

(* delete(): the resource first. *)
DeleteResource(a) ==
  /\ run = NoRun /\ counts["runs"] > 0
  /\ a \in Orphans
  /\ remote' = Restrict(remote, DOMAIN remote \ {a})
  /\ fresh' = Fresh(files, remote')
  /\ run' = IF a[1] # "playbook" THEN NoRun
            ELSE [NoRun EXCEPT !.does = "prune", !.todo = {a}, !.wired = Uses(remote[a])]
  /\ Count("runs")
  /\ UNCHANGED <<files, conns>>

\* Mutant: the connections are those that carry the managed tag.
TaggedManaged(name) == {c \in DOMAIN conns : conns[c].tag # None}

(* Then the connections whose contentops-playbook tag is the remote name. *)
Tagged(name) == {c \in DOMAIN conns : conns[c].tag = name}

DropConnections ==
  /\ run.does = "prune"
  /\ \E a \in run.todo :
       \E kept \in IF counts["faults"] > 0 THEN SUBSET Tagged(a[2]) ELSE {{}} :
         /\ conns' = Restrict(conns, DOMAIN conns \ (Tagged(a[2]) \ kept))
         /\ IF kept = {} THEN UNCHANGED counts ELSE Count("faults")
  /\ run' = NoRun
  /\ UNCHANGED <<files, remote, fresh>>

-----------------------------------------------------------------------------

Crash ==
  /\ run # NoRun /\ counts["faults"] > 0
  /\ run' = NoRun
  /\ Count("faults")
  /\ UNCHANGED <<files, remote, conns, fresh>>

Init ==
  /\ files = Empty /\ remote = Empty /\ conns = Empty /\ fresh = Empty
  /\ run = NoRun
  /\ counts = [git |-> MaxGit, portal |-> MaxPortal, runs |-> MaxRuns, faults |-> MaxFaults]

People ==
  \/ run = NoRun /\ (\E f \in Drafts : Commit(f))
  \/ run = NoRun /\ (\E k \in DOMAIN files : Remove(k))
  \/ \E h \in HandMade : BuildByHand(h)
  \/ \E a \in DOMAIN remote, b \in Bodies : EditByHand(a, b)
Collecting ==
  \/ \E a \in DOMAIN remote : Adopt(a)
  \/ \E a \in DOMAIN remote : Collect(a)
Deploying == Apply \/ FinishApply
Pruning == DropConnections
Next == \/ People \/ Collecting \/ StartApply \/ Deploying
        \/ (\E a \in DOMAIN remote : DeleteResource(a)) \/ Pruning \/ Crash

Spec == Init /\ [][Next]_vars /\ WF_vars(Deploying) /\ WF_vars(Pruning)

-----------------------------------------------------------------------------
(* Properties. *)

(* The resource that apply writes in this step, if any. *)
Puts(a) == /\ run.does = "apply" /\ run' # run
           /\ a \in DOMAIN remote'
           /\ a \in DOMAIN remote => remote'[a] # remote[a]

(* "Any connection failure aborts BEFORE the workflow PUT so a half-deployed   *)
(* playbook never references a missing connection" (sentinel_playbook.py:17):  *)
(* whatever fails, and wherever the last run died, a workflow is written only  *)
(* when every connection that it uses is there.                                *)
NeverHalfDeployed ==
  [][\A a \in DOMAIN remote' :
       Puts(a) /\ a[1] = "playbook" => Uses(remote'[a]) \subseteq DOMAIN conns']_vars

(* The references of a rule that name what its file can rely on: playbooks *)
(* and analytics that are deployed.                                        *)
Reliable(k) == \A ref \in files[k].refs : Deployed(files[ref])

(* The rule that this step writes, in a run in which nothing has failed so far. *)
WritesRule(k) ==
  /\ run'.does = "apply" /\ k \in run.todo \ run'.todo /\ run'.ok
  /\ k[1] = "automation" /\ Reliable(k)

(* Playbooks "must exist before any automation rule that runs them" (asset.py:97): *)
(* as long as no request failed, a rule is written when what it runs is there, if  *)
(* its references are deployed and its playbooks bear their ids.                   *)
RulesFindTheirTargets ==
  [][\A k \in DOMAIN files :
       /\ WritesRule(k)
       /\ \A ref \in files[k].refs :
            ref[1] = "playbook" => files[ref].arm \in {None, files[ref].id}
       => Runs(files, files[k]) \subseteq DOMAIN remote \cup files[k].plain]_vars

(* The same without the last condition: "`playbook:` / `analytic:` envelope-id *)
(* sugar resolved at apply, reversed on collect" (asset-coverage.md:58).  It   *)
(* does not hold: a workflow that was adopted under a name of its own keeps it *)
(* in metadata.arm_name (sentinel_playbook.py:242), and a rule that was        *)
(* collected with it is sent to the id (sentinel_automation_rule.py:199).      *)
AdoptedPlaybooksFound ==
  [][\A k \in DOMAIN files :
       WritesRule(k) => Runs(files, files[k]) \subseteq DOMAIN remote \cup files[k].plain]_vars

(* The names in a resource that survive the way through a file: those that *)
(* are their own slugs.                                                    *)
Slugged(a) ==
  /\ a[1] = "playbook" => Slug[a[2]] = a[2]
  /\ \A t \in remote[a].runs : t[1] = "playbook" => Slug[t[2]] = t[2]

(* A file as collect wrote it (to_envelope of every handler) is applied without *)
(* effect, as long as neither it, nor its resource, nor a file that it refers   *)
(* to changed: what is collected is what was deployed, under the name it had.   *)
CollectedAppliesAsNoOp ==
  [][\A k \in DOMAIN fresh :
       /\ run'.does = "apply" /\ k \in run.todo \ run'.todo /\ run'.ok
       /\ Slugged(fresh[k])
       => remote' = remote]_vars

(* A prune (sentinel_playbook.py:428) takes away no connection that another *)
(* workflow uses, unless the pruned one used it too, as long as workflows   *)
(* bear the ids of their files.  A file that gave up a connection which it  *)
(* shared is not among the drafts: its tag stays, and its prune takes it.   *)
PrunesSpareOthers ==
  [][\A c \in DOMAIN conns \ DOMAIN conns' :
       (\A a \in DOMAIN remote \cup run.todo : a[1] = "playbook" => Slug[a[2]] = a[2]) =>
         c \in run.wired \/ (\A a \in DOMAIN remote : c \notin Uses(remote[a]))]_vars
=============================================================================
