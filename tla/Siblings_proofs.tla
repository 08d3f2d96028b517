---------------------------- MODULE Siblings_proofs ----------------------------
(***************************************************************************)
(* Why no workflow is written over missing connections, and why a rule     *)
(* finds what it runs, for any files, any resources built by hand and any  *)
(* number of runs and faults.  Nothing is deleted while an apply goes on,  *)
(* so that what the run has written is there when it needs it.             *)
(* Then what comes back from the tenant: why an import loses no file and   *)
(* leaves nothing for the next one to find.                                *)
(***************************************************************************)
EXTENDS Siblings, Sequences, FiniteSetTheorems, NaturalsInduction, WellFoundedInduction, TLAPS

\* A run is a record of these fields.
RunTyped ==
  /\ run = [does |-> run.does, todo |-> run.todo, now |-> run.now,
            wired |-> run.wired, ok |-> run.ok]
  /\ run.ok \in BOOLEAN

\* A file stands under its kind and id, and a rule runs playbooks and analytics.
KeyedIn(fs) ==
  /\ \A k \in DOMAIN fs : k = <<fs[k].kind, fs[k].id>>
  /\ \A k \in DOMAIN fs : fs[k].kind = "automation" =>
       \A ref \in fs[k].refs : ref[1] \in {"playbook", "analytic"}

\* The connections that an apply has seen to are there.
Wired == run.does = "apply" => run.wired \subseteq DOMAIN conns

\* What an apply without failures has left behind is there.
Placed ==
  run.does = "apply" /\ run.ok =>
    \A k \in DOMAIN files \ run.todo :
      Deployed(files[k]) => Address(files[k]) \in DOMAIN remote

IInv == RunTyped /\ KeyedIn(files) /\ Validated(files) /\ Wired /\ Placed

-----------------------------------------------------------------------------
(* What the actions do. *)

LEMMA IdleRun ==
  /\ NoRun.does = "nothing" /\ NoRun.todo = {} /\ NoRun.ok = TRUE /\ NoRun.wired = {}
  /\ NoRun = [does |-> NoRun.does, todo |-> NoRun.todo, now |-> NoRun.now,
              wired |-> NoRun.wired, ok |-> NoRun.ok]
  BY DEF NoRun

\* Files change between runs alone, and what is merged has passed its checks.
Merges ==
  /\ run = NoRun /\ run' = NoRun
  /\ KeyedIn(files') /\ Validated(files')

\* A run begins: nothing is wired, and what is deployed is still to be done.
Begins ==
  /\ run = NoRun /\ files' = files
  /\ RunTyped'
  /\ run'.does = "apply" =>
       /\ run'.wired = {}
       /\ \A k \in DOMAIN files : Deployed(files[k]) => k \in run'.todo

\* An apply goes on with one file, and deletes nothing.
Proceeds ==
  \E k \in run.todo :
    PutConnection(k) \/ ConnectionFails(k) \/ PutResource(k) \/ PutFails(k)

\* Nothing about an apply changes, but for what people add.
Rests ==
  /\ files' = files /\ run' = run
  /\ DOMAIN remote \subseteq DOMAIN remote' /\ DOMAIN conns \subseteq DOMAIN conns'

\* The run is over.
Ends ==
  /\ files' = files /\ run' = NoRun
  /\ run # NoRun => remote' = remote

LEMMA CommitMerges ==
  ASSUME IInv, run = NoRun, NEW f \in Drafts, Commit(f)
  PROVE  Merges
  <1> DEFINE fs == [k \in DOMAIN files \cup {<<f.kind, f.id>>} |->
                      IF k = <<f.kind, f.id>> THEN f ELSE files[k]]
  <1>1. files' = fs /\ Validated(fs) /\ run' = run
    BY DEF Commit
  <1>2. KeyedIn(fs)
    BY DraftsAssumption DEF IInv, KeyedIn
  <1> QED
    BY <1>1, <1>2 DEF Merges

LEMMA RemoveMerges ==
  ASSUME IInv, run = NoRun, NEW k \in DOMAIN files, Remove(k)
  PROVE  Merges
  <1> DEFINE fs == Restrict(files, DOMAIN files \ {k})
  <1>1. files' = fs /\ Validated(fs) /\ run' = run
    BY DEF Remove
  <1>2. KeyedIn(fs)
    BY DEF IInv, KeyedIn, Restrict
  <1> QED
    BY <1>1, <1>2 DEF Merges

\* A collected rule names playbooks by their slugs and analytics by their files.
LEMMA CollectMerges ==
  ASSUME IInv, NEW a \in DOMAIN remote, Collect(a)
  PROVE  Merges
  <1> DEFINE f == Envelope(files, a[1], a[2], remote[a])
             key == <<f.kind, f.id>>
             fs == [k \in DOMAIN files \cup {key} |-> IF k = key THEN f ELSE files[k]]
  <1>1. files' = fs /\ Validated(fs) /\ run = NoRun /\ run' = run
    BY DEF Collect
  <1>2. \A t : \A ref \in Reversed(files, t) : ref[1] \in {"playbook", "analytic"}
    BY DEF Reversed
  <1>3. f.refs = UNION {Reversed(files, t) : t \in remote[a].runs}
    BY DEF Envelope
  <1>4. \A ref \in f.refs : ref[1] \in {"playbook", "analytic"}
    BY <1>2, <1>3
  <1>5. KeyedIn(fs)
    BY <1>4 DEF IInv, KeyedIn
  <1> QED
    BY <1>1, <1>5 DEF Merges

LEMMA NextCases ==
  ASSUME IInv, Next
  PROVE  Merges \/ Begins \/ Proceeds \/ Rests \/ Ends
  <1>1. ASSUME NEW f \in Drafts, run = NoRun, Commit(f) PROVE Merges
    BY <1>1, CommitMerges
  <1>2. ASSUME NEW k \in DOMAIN files, run = NoRun, Remove(k) PROVE Merges
    BY <1>2, RemoveMerges
  <1>3. ASSUME NEW h \in HandMade, BuildByHand(h) PROVE Rests
    BY <1>3 DEF BuildByHand, Rests
  <1>4. ASSUME NEW a \in DOMAIN remote, NEW b \in Bodies, EditByHand(a, b) PROVE Rests
    BY <1>4 DEF EditByHand, Rests
  <1>5. ASSUME NEW a \in DOMAIN remote, Adopt(a) PROVE Ends
    BY <1>5 DEF Adopt, Ends
  <1>6. ASSUME NEW a \in DOMAIN remote, Collect(a) PROVE Merges
    BY <1>6, CollectMerges
  <1>7. ASSUME StartApply PROVE Begins
    BY <1>7 DEF StartApply, Begins, RunTyped, NoRun
  <1>8. ASSUME Apply PROVE Proceeds
    BY <1>8 DEF Apply, Proceeds
  <1>9. ASSUME FinishApply PROVE Ends
    BY <1>9 DEF FinishApply, Ends
  <1>10. ASSUME NEW a \in DOMAIN remote, DeleteResource(a) PROVE Begins
    BY <1>10 DEF DeleteResource, Begins, RunTyped, NoRun
  <1>11. ASSUME DropConnections PROVE Ends
    BY <1>11 DEF DropConnections, Ends
  <1>12. ASSUME Crash PROVE Ends
    BY <1>12 DEF Crash, Ends
  <1> QED
    BY <1>1, <1>2, <1>3, <1>4, <1>5, <1>6, <1>7, <1>8, <1>9, <1>10, <1>11, <1>12
       DEF Next, People, Collecting, Deploying, Pruning

\* A file of an apply is left, in success or not, or a connection more is there.
LEMMA ProceedCases ==
  ASSUME RunTyped, NEW k \in run.todo,
         PutConnection(k) \/ ConnectionFails(k) \/ PutResource(k) \/ PutFails(k)
  PROVE  /\ run.does = "apply" /\ run'.does = "apply" /\ files' = files /\ RunTyped'
         /\ \/ /\ PutConnection(k) /\ remote' = remote
               /\ run'.todo = run.todo /\ run'.ok = run.ok
               /\ \E n : /\ DOMAIN conns' = DOMAIN conns \cup {n}
                         /\ run'.wired = run.wired \cup {n}
            \/ /\ PutResource(k) /\ conns' = conns
               /\ run'.todo = run.todo \ {k} /\ run'.ok = run.ok /\ run'.wired = {}
               /\ DOMAIN remote' = DOMAIN remote \cup {Address(files[k])}
            \/ /\ remote' = remote /\ conns' = conns
               /\ run'.todo = run.todo \ {k} /\ run'.ok = FALSE /\ run'.wired = {}
  <1> USE DEF RunTyped, Current, Leave
  <1>1. CASE PutConnection(k)
    BY <1>1 DEF PutConnection
  <1>2. CASE PutResource(k)
    BY <1>2 DEF PutResource
  <1>3. CASE ConnectionFails(k)
    BY <1>3 DEF ConnectionFails
  <1>4. CASE PutFails(k)
    BY <1>4 DEF PutFails
  <1> QED
    BY <1>1, <1>2, <1>3, <1>4

-----------------------------------------------------------------------------
(* The invariant. *)

LEMMA InitStep == Init => IInv
  BY IdleRun DEF Init, IInv, RunTyped, KeyedIn, Validated, Wired, Placed, Empty

LEMMA ProceedKeeps ==
  ASSUME IInv, Proceeds
  PROVE  IInv'
  <1>1. PICK k \in run.todo :
          PutConnection(k) \/ ConnectionFails(k) \/ PutResource(k) \/ PutFails(k)
    BY DEF Proceeds
  <1>2. RunTyped
    BY DEF IInv
  <1>3. files' = files /\ RunTyped' /\ run.does = "apply" /\ run'.does = "apply"
    BY <1>1, <1>2, ProceedCases
  <1>4. KeyedIn(files)' /\ Validated(files)'
    BY <1>3 DEF IInv, KeyedIn, Validated
  <1>5. Wired'
    BY <1>1, <1>2, ProceedCases DEF IInv, Wired
  <1>6. Placed'
    <2>1. CASE run'.ok = FALSE
      BY <2>1 DEF Placed
    <2>2. CASE run'.ok = run.ok /\ run'.todo = run.todo /\ remote' = remote
      BY <2>2, <1>3 DEF IInv, Placed, Deployed, Address, Space, RemoteName
    <2>3. CASE /\ run'.ok = run.ok /\ run'.todo = run.todo \ {k}
               /\ DOMAIN remote' = DOMAIN remote \cup {Address(files[k])}
      BY <2>3, <1>3 DEF IInv, Placed
    <2> QED
      BY <1>1, <1>2, <2>1, <2>2, <2>3, ProceedCases
  <1> QED
    BY <1>3, <1>4, <1>5, <1>6 DEF IInv

LEMMA Inductive == IInv /\ [Next]_vars => IInv'
  <1> SUFFICES ASSUME IInv, [Next]_vars PROVE IInv'
    OBVIOUS
  <1>1. CASE Merges
    BY <1>1, IdleRun DEF IInv, Merges, RunTyped, Wired, Placed
  <1>2. CASE Begins
    BY <1>2 DEF IInv, Begins, RunTyped, Wired, Placed
  <1>3. CASE Proceeds
    BY <1>3, ProceedKeeps
  <1>4. CASE Rests
    BY <1>4 DEF IInv, Rests, RunTyped, Wired, Placed
  <1>5. CASE Ends
    BY <1>5, IdleRun DEF IInv, Ends, RunTyped, Wired, Placed
  <1>6. CASE UNCHANGED vars
    BY <1>6 DEF IInv, vars, RunTyped, Wired, Placed
  <1> QED
    BY <1>1, <1>2, <1>3, <1>4, <1>5, <1>6, NextCases

LEMMA Invariance == Spec => []IInv
  BY InitStep, Inductive, PTL DEF Spec

-----------------------------------------------------------------------------
(* The theorems. *)

\* "Any connection failure aborts BEFORE the workflow PUT" (sentinel_playbook.py:17):
\* a workflow that apply writes uses connections that are there.
THEOREM WorkflowsAreWired == Spec => NeverHalfDeployed
  <1>1. IInv /\ [Next]_vars =>
          [\A a \in DOMAIN remote' :
             Puts(a) /\ a[1] = "playbook" => Uses(remote'[a]) \subseteq DOMAIN conns']_vars
    <2> SUFFICES ASSUME IInv, Next, NEW a \in DOMAIN remote', Puts(a)
                 PROVE  Uses(remote'[a]) \subseteq DOMAIN conns'
      OBVIOUS
    <2>1. run.does = "apply" /\ run' # run /\ run # NoRun /\ remote' # remote
      BY IdleRun DEF Puts
    <2>2. Proceeds
      BY <2>1, NextCases DEF Merges, Begins, Rests, Ends
    <2>3. PICK k \in run.todo :
            PutConnection(k) \/ ConnectionFails(k) \/ PutResource(k) \/ PutFails(k)
      BY <2>2 DEF Proceeds
    <2>4. PutResource(k)
      BY <2>1, <2>3 DEF PutConnection, ConnectionFails, PutFails
    <2>5. a = Address(files[k]) /\ remote'[a] = Body(files, files[k])
      BY <2>4 DEF PutResource, Puts
    <2>6. \A c \in files[k].conns : ConnName(files[k].id, c) \in DOMAIN conns
      BY <2>1, <2>4 DEF PutResource, Unwired, IInv, Wired
    <2>7. Uses(Body(files, files[k])) \subseteq DOMAIN conns
      <3> DEFINE f == files[k]
                 labels == {c.name : c \in f.conns}
                 conn(l) == CHOOSE c \in f.conns : c.name = l
                 uses == [l \in labels |-> ConnName(f.id, conn(l))]
      <3>1. \A l \in labels : conn(l) \in f.conns
        OBVIOUS
      <3>2. \A l \in DOMAIN uses : uses[l] \in DOMAIN conns
        <4> HIDE DEF conn
        <4> QED
          BY <2>6, <3>1
      <3> DEFINE written == Body(files, f)
      <3>3. written.uses = uses
        BY DEF Body
      <3>4. \A l \in DOMAIN written.uses : written.uses[l] \in DOMAIN conns
        <4> HIDE DEF uses, written
        <4> QED
          BY <3>2, <3>3
      <3> HIDE DEF written
      <3>5. Uses(written) \subseteq DOMAIN conns
        BY <3>4 DEF Uses
      <3> QED
        BY <3>5 DEF written
    <2> QED
      BY <2>4, <2>5, <2>7 DEF PutResource
  <1> QED
    BY <1>1, Invariance, PTL DEF Spec, NeverHalfDeployed

\* What a rule runs has been put before it, by APPLY_ORDER.
LEMMA TargetsPlaced ==
  ASSUME IInv, NEW k \in run.todo, Current(k), k \in DOMAIN files, run.ok,
         files[k].kind = "automation", Reliable(k),
         \A ref \in files[k].refs :
           ref[1] = "playbook" => files[ref].arm \in {None, files[ref].id}
  PROVE  Runs(files, files[k]) \subseteq DOMAIN remote \cup files[k].plain
  <1> SUFFICES ASSUME NEW ref \in files[k].refs PROVE Resolve(files, ref) \in DOMAIN remote
    BY DEF Runs
  <1>1. ref \in DOMAIN files /\ ref[1] \in {"playbook", "analytic"}
    BY DEF IInv, Validated, KeyedIn
  <1>2. ref = <<files[ref].kind, files[ref].id>> /\ files[ref].kind = ref[1]
    BY <1>1 DEF IInv, KeyedIn
  <1>3. ref \notin run.todo
    BY <1>1, <1>2 DEF Current, ApplyOrder
  <1>4. Address(files[ref]) \in DOMAIN remote
    BY <1>1, <1>3 DEF Current, IInv, Placed, Reliable
  <1>5. ref[1] = "playbook" => Address(files[ref]) = ref
    BY <1>2 DEF Address, Space, RemoteName
  <1> QED
    BY <1>4, <1>5 DEF Resolve

\* Playbooks "must exist before any automation rule that runs them" (asset.py:97):
\* APPLY_ORDER sees to it, for any files and any tenant.
THEOREM RulesAreWired == Spec => RulesFindTheirTargets
  <1> DEFINE Found ==
        \A k \in DOMAIN files :
          /\ WritesRule(k)
          /\ \A ref \in files[k].refs :
               ref[1] = "playbook" => files[ref].arm \in {None, files[ref].id}
          => Runs(files, files[k]) \subseteq DOMAIN remote \cup files[k].plain
  <1>1. IInv /\ [Next]_vars => [Found]_vars
    <2> SUFFICES ASSUME IInv, Next, NEW k \in DOMAIN files, WritesRule(k),
                        \A ref \in files[k].refs :
                          ref[1] = "playbook" => files[ref].arm \in {None, files[ref].id}
                 PROVE  Runs(files, files[k]) \subseteq DOMAIN remote \cup files[k].plain
      BY DEF Found
    <2>1. /\ k \in run.todo /\ k \notin run'.todo
          /\ run'.does = "apply" /\ run'.ok /\ Reliable(k)
      BY DEF WritesRule
    <2>2. files[k].kind = "automation"
      BY DEF WritesRule, IInv, KeyedIn
    <2>3. Proceeds
      BY <2>1, IdleRun, NextCases DEF Merges, Begins, Rests, Ends
    <2>4. PICK j \in run.todo :
            PutConnection(j) \/ ConnectionFails(j) \/ PutResource(j) \/ PutFails(j)
      BY <2>3 DEF Proceeds
    <2>5. PutResource(j) /\ run'.todo = run.todo \ {j} /\ run'.ok = run.ok
      BY <2>1, <2>4, ProceedCases DEF IInv
    <2>6. k = j /\ run.ok /\ Current(k)
      BY <2>1, <2>5 DEF PutResource
    <2> QED
      BY <2>1, <2>2, <2>6, TargetsPlaced
  <1> HIDE DEF Found
  <1> QED
    BY <1>1, Invariance, PTL DEF Spec, RulesFindTheirTargets, Found

-----------------------------------------------------------------------------
(* What is collected and applied again: the names, bodies, connections and    *)
(* references of a resource survive the way through its file.                 *)

\* What is at an address of the tenant.
Shaped(a, r) ==
  /\ a = <<Space(r.cat), a[2]>> /\ a[2] # None
  /\ r = [cat |-> r.cat, body |-> r.body, managed |-> r.managed,
          uses |-> [l \in DOMAIN r.uses |-> r.uses[l]], runs |-> r.runs]
  /\ r.managed \in BOOLEAN
  /\ r.cat # "playbook" => ~r.managed /\ DOMAIN r.uses = {}
  /\ r.cat # "automation" => r.runs = {}
  /\ \A t \in r.runs : t = <<t[1], t[2]>>
  /\ Slug[a[2]] = a[2] => \A l \in DOMAIN r.uses : r.uses[l] # None

\* What a file may say, so that its resource is shaped like that.
Filed(f) ==
  /\ RemoteName(f) # None
  /\ f.kind # "playbook" => f.conns = {}
  /\ f.kind = "automation" => \A t \in f.plain : t = <<t[1], t[2]>>
  /\ Slug[RemoteName(f)] = RemoteName(f) => \A c \in f.conns : ConnName(f.id, c) # None

\* Slugged, of the resource r at a.
Kept(a, r) ==
  /\ a[1] = "playbook" => Slug[a[2]] = a[2]
  /\ \A t \in r.runs : t[1] = "playbook" => Slug[t[2]] = t[2]

\* The file k deploys what is at a already.
Mirrors(fs, rm, k, a) ==
  /\ k \in DOMAIN fs /\ a \in DOMAIN rm
  /\ Kept(a, rm[a]) => Address(fs[k]) = a /\ Body(fs, fs[k]) = rm[a]

RemoteInv(rm) ==
  /\ rm = [a \in DOMAIN rm |-> rm[a]]
  /\ \A a \in DOMAIN rm : Shaped(a, rm[a])
FilesInv(fs) == \A k \in DOMAIN fs : Filed(fs[k])
FreshInv(fs, rm, fr) == \A k \in DOMAIN fr : Mirrors(fs, rm, k, fr[k])

CollectInv == RemoteInv(remote) /\ FilesInv(files) /\ FreshInv(files, remote, fresh)

\* A body depends on the files that it refers to, and on no others.
LEMMA BodySame ==
  ASSUME NEW fs, NEW gs, NEW f, \A ref \in f.refs : gs[ref] = fs[ref]
  PROVE  Body(gs, f) = Body(fs, f)
  <1>1. \A ref \in f.refs : Resolve(gs, ref) = Resolve(fs, ref)
    BY DEF Resolve
  <1>2. Runs(gs, f) = Runs(fs, f)
    BY <1>1 DEF Runs
  <1> QED
    BY <1>2 DEF Body

\* What an apply writes has the shape of its kind.
LEMMA BodyShaped ==
  ASSUME NEW fs, KeyedIn(fs), Validated(fs), NEW k \in DOMAIN fs, Filed(fs[k])
  PROVE  Shaped(Address(fs[k]), Body(fs, fs[k]))
  <1> DEFINE f == fs[k]
             labels == {c.name : c \in f.conns}
             conn(l) == CHOOSE c \in f.conns : c.name = l
             uses == [l \in labels |-> ConnName(f.id, conn(l))]
             r == Body(fs, f)
  <1>1. /\ r.cat = f.kind /\ r.managed = (f.kind = "playbook") /\ r.uses = uses
        /\ r.runs = Runs(fs, f) /\ r.body = f.body
        /\ r = [cat |-> r.cat, body |-> r.body, managed |-> r.managed,
                uses |-> uses, runs |-> r.runs]
    BY DEF Body
  <1>2. uses = [l \in DOMAIN uses |-> uses[l]] /\ DOMAIN uses = labels
    OBVIOUS
  <1>3. \A l \in labels : conn(l) \in f.conns
    OBVIOUS
  <1>4. \A t \in Runs(fs, f) : t = <<t[1], t[2]>>
    <2>1. SUFFICES ASSUME f.kind = "automation", NEW t \in Runs(fs, f)
                   PROVE  t = <<t[1], t[2]>>
      BY DEF Runs
    <2>2. CASE t \in f.plain
      BY <2>1, <2>2 DEF Filed
    <2>3. CASE \E ref \in f.refs : t = Resolve(fs, ref)
      <3>1. PICK ref \in f.refs : t = Resolve(fs, ref)
        BY <2>3
      <3>2. ref = <<fs[ref].kind, fs[ref].id>>
        BY DEF Validated, KeyedIn
      <3> QED
        BY <3>1, <3>2 DEF Resolve, Address
    <2> QED
      BY <2>1, <2>2, <2>3 DEF Runs
  <1>5. Address(f) = <<Space(f.kind), Address(f)[2]>> /\ Address(f)[2] = RemoteName(f)
    BY DEF Address
  <1>6. f.kind # "playbook" => labels = {}
    BY DEF Filed
  <1>7. f.kind # "automation" => Runs(fs, f) = {}
    BY DEF Runs
  <1>8. Slug[RemoteName(f)] = RemoteName(f) => \A l \in labels : uses[l] # None
    <2> HIDE DEF conn
    <2> QED
      BY <1>3 DEF Filed
  <1>9. RemoteName(f) # None
    BY DEF Filed
  <1> HIDE DEF r, uses, labels
  <1>10. r.managed \in BOOLEAN /\ (r.cat # "playbook" => ~r.managed)
    BY <1>1
  <1>11. Shaped(Address(f), r)
    BY <1>1, <1>2, <1>4, <1>5, <1>6, <1>7, <1>8, <1>9, <1>10 DEF Shaped
  <1> QED
    BY <1>11 DEF r

LEMMA EnvelopeIs ==
  ASSUME NEW fs, NEW a, NEW r, Shaped(a, r)
  PROVE  LET f == Envelope(fs, a[1], a[2], r) IN
         /\ f.kind = r.cat /\ f.body = r.body /\ f.conns = CollectedConns(a[2], r)
         /\ f.refs = UNION {Reversed(fs, t) : t \in r.runs}
         /\ f.plain = {t \in r.runs : Reversed(fs, t) = {}}
         /\ RemoteName(f) = a[2]
         /\ r.cat = "playbook" => f.id = Slug[a[2]]
  BY DEF Envelope, RemoteName, Shaped

LEMMA CollectedFiled ==
  ASSUME NEW fs, NEW a, NEW r, Shaped(a, r)
  PROVE  Filed(Envelope(fs, a[1], a[2], r))
  <1> DEFINE f == Envelope(fs, a[1], a[2], r)
  <1>1. f.kind = r.cat /\ f.conns = CollectedConns(a[2], r) /\ RemoteName(f) = a[2]
    BY EnvelopeIs
  <1>2. f.plain = {t \in r.runs : Reversed(fs, t) = {}}
    BY DEF Envelope
  <1>3. r.cat = "playbook" => f.id = Slug[a[2]]
    BY EnvelopeIs
  <1> HIDE DEF f
  <1>4. f.kind # "playbook" => f.conns = {}
    BY <1>1 DEF Shaped, CollectedConns
  <1>5. ASSUME Slug[a[2]] = a[2], NEW c \in f.conns PROVE ConnName(f.id, c) # None
    <2>1. PICK l \in DOMAIN r.uses :
            c = [name |-> l, as |-> IF r.uses[l] = <<a[2], l>> THEN None ELSE r.uses[l]]
      BY <1>1 DEF CollectedConns
    <2>2. r.uses[l] # None /\ f.id = a[2]
      BY <1>1, <1>3, <1>4, <1>5, <2>1 DEF Shaped
    <2>3. CASE r.uses[l] = <<a[2], l>>
      BY <2>1, <2>2, <2>3 DEF ConnName
    <2>4. CASE r.uses[l] # <<a[2], l>>
      BY <2>1, <2>2, <2>4 DEF ConnName
    <2> QED
      BY <2>3, <2>4
  <1>6. Filed(f)
    BY <1>1, <1>2, <1>4, <1>5 DEF Filed, Shaped
  <1> QED
    BY <1>6 DEF f

\* What a rule runs comes back from its file: a playbook under its slug, an
\* analytic through the file that deploys it, anything else as it is.
LEMMA RunsComeBack ==
  ASSUME NEW fs, NEW gs, \A ref \in DOMAIN fs : gs[ref] = fs[ref],
         NEW a, NEW r, Shaped(a, r), Kept(a, r)
  PROVE  Runs(gs, Envelope(fs, a[1], a[2], r)) = r.runs
  <1> DEFINE f == Envelope(fs, a[1], a[2], r)
  <1>1. /\ f.kind = r.cat
        /\ f.refs = UNION {Reversed(fs, t) : t \in r.runs}
        /\ f.plain = {t \in r.runs : Reversed(fs, t) = {}}
    BY EnvelopeIs
  <1> SUFFICES Runs(gs, f) = r.runs
    OBVIOUS
  <1> HIDE DEF f
  <1>2. ASSUME NEW t \in r.runs, NEW ref \in Reversed(fs, t)
        PROVE  Resolve(gs, ref) = t
    <2>1. t = <<t[1], t[2]>> /\ (t[1] = "playbook" => Slug[t[2]] = t[2])
      BY DEF Shaped, Kept
    <2>2. CASE t[1] = "playbook"
      <3>1. ref = t
        BY <1>2, <2>1, <2>2 DEF Reversed
      <3> QED
        BY <2>2, <3>1 DEF Resolve
    <2>3. CASE t[1] # "playbook"
      <3>1. ref \in DOMAIN fs /\ ref[1] = "analytic" /\ Address(fs[ref]) = t
        BY <1>2, <2>3 DEF Reversed
      <3> QED
        BY <3>1 DEF Resolve
    <2> QED
      BY <2>2, <2>3
  <1>3. CASE r.cat # "automation"
    BY <1>1, <1>3 DEF Runs, Shaped
  <1>4. CASE r.cat = "automation"
    <2>1. Runs(gs, f) = {Resolve(gs, ref) : ref \in f.refs} \cup f.plain
      BY <1>1, <1>4 DEF Runs
    <2>2. \A t \in Runs(gs, f) : t \in r.runs
      <3>1. \A ref \in f.refs : Resolve(gs, ref) \in r.runs
        BY <1>1, <1>2
      <3> QED
        BY <1>1, <2>1, <3>1
    <2>3. ASSUME NEW t \in r.runs PROVE t \in Runs(gs, f)
      <3>1. CASE Reversed(fs, t) = {}
        BY <1>1, <2>1, <3>1
      <3>2. CASE Reversed(fs, t) # {}
        <4>1. PICK ref \in Reversed(fs, t) : TRUE
          BY <3>2
        <4>2. ref \in f.refs /\ Resolve(gs, ref) = t
          BY <1>1, <1>2, <4>1
        <4> QED
          BY <2>1, <4>2
      <3> QED
        BY <3>1, <3>2
    <2> QED
      BY <2>2, <2>3
  <1> QED
    BY <1>3, <1>4

\* So do its connections: the default name is left out, and made again.
LEMMA UsesComeBack ==
  ASSUME NEW fs, NEW a, NEW r, Shaped(a, r), r.cat = "playbook", Slug[a[2]] = a[2],
         NEW S, S = CollectedConns(a[2], r)
  PROVE  [l \in {c.name : c \in S} |-> ConnName(a[2], CHOOSE c \in S : c.name = l)] = r.uses
  <1> DEFINE entry(l) == [name |-> l, as |-> IF r.uses[l] = <<a[2], l>> THEN None ELSE r.uses[l]]
             conn(l) == CHOOSE c \in S : c.name = l
  <1>1. S = {entry(l) : l \in DOMAIN r.uses}
    BY DEF CollectedConns
  <1>2. \A l : entry(l).name = l
    OBVIOUS
  <1>3. {c.name : c \in S} = DOMAIN r.uses
    <2> HIDE DEF entry
    <2> QED
      BY <1>1, <1>2
  <1>4. ASSUME NEW l \in DOMAIN r.uses PROVE ConnName(a[2], conn(l)) = r.uses[l]
    <2>1. entry(l) \in S /\ entry(l).name = l
      BY <1>1
    <2>2. conn(l) \in S /\ conn(l).name = l
      <3> HIDE DEF entry
      <3> QED
        BY <2>1
    <2>3. conn(l) = entry(l)
      <3> HIDE DEF entry, conn
      <3> QED
        BY <1>1, <1>2, <2>2
    <2>4. ConnName(a[2], entry(l)) = r.uses[l]
      <3>1. r.uses[l] # None
        BY DEF Shaped
      <3>2. CASE r.uses[l] = <<a[2], l>>
        BY <3>2 DEF ConnName
      <3>3. CASE r.uses[l] # <<a[2], l>>
        BY <3>1, <3>3 DEF ConnName
      <3> QED
        BY <3>2, <3>3
    <2> QED
      BY <2>3, <2>4
  <1>5. r.uses = [l \in DOMAIN r.uses |-> r.uses[l]]
    BY DEF Shaped
  <1> HIDE DEF conn
  <1>6. [l \in {c.name : c \in S} |-> ConnName(a[2], conn(l))] = r.uses
    BY <1>3, <1>4, <1>5
  <1> QED
    BY <1>6 DEF conn

\* A collected file deploys the resource that it was read from.
LEMMA CollectedMirrors ==
  ASSUME NEW fs, NEW gs, \A ref \in DOMAIN fs : gs[ref] = fs[ref],
         NEW a, NEW r, Shaped(a, r), Kept(a, r), r.cat = "playbook" => r.managed
  PROVE  LET f == Envelope(fs, a[1], a[2], r) IN Address(f) = a /\ Body(gs, f) = r
  <1> DEFINE f == Envelope(fs, a[1], a[2], r)
             uses == [l \in {c.name : c \in f.conns} |->
                        ConnName(f.id, CHOOSE c \in f.conns : c.name = l)]
  <1>1. /\ f.kind = r.cat /\ f.body = r.body /\ f.conns = CollectedConns(a[2], r)
        /\ RemoteName(f) = a[2] /\ (r.cat = "playbook" => f.id = Slug[a[2]])
    BY EnvelopeIs
  <1>2. Runs(gs, f) = r.runs
    BY RunsComeBack
  <1> HIDE DEF f
  <1>3. Address(f) = a
    BY <1>1 DEF Address, Shaped
  <1>4. uses = r.uses
    <2>1. CASE r.cat = "playbook"
      <3>1. a[1] = "playbook"
        BY <2>1 DEF Shaped, Space
      <3>2. Slug[a[2]] = a[2] /\ f.id = a[2]
        BY <1>1, <2>1, <3>1 DEF Kept
      <3> QED
        BY <1>1, <2>1, <3>2, UsesComeBack
    <2>2. CASE r.cat # "playbook"
      <3>1. f.conns = {} /\ DOMAIN r.uses = {}
        BY <1>1, <2>2 DEF CollectedConns, Shaped
      <3>2. r.uses = [l \in {} |-> r.uses[l]]
        BY <3>1 DEF Shaped
      <3> QED
        BY <3>1, <3>2
    <2> QED
      BY <2>1, <2>2
  <1>5. r.managed = (r.cat = "playbook")
    BY DEF Shaped
  <1>6. Body(gs, f) = [cat |-> f.kind, body |-> f.body, managed |-> f.kind = "playbook",
                       uses |-> uses, runs |-> Runs(gs, f)]
    BY DEF Body
  <1> HIDE DEF uses
  <1>7. Body(gs, f) = r
    <2>1. r = [cat |-> r.cat, body |-> r.body, managed |-> r.managed, uses |-> r.uses,
               runs |-> r.runs]
      BY DEF Shaped
    <2> QED
      BY <1>1, <1>2, <1>4, <1>5, <1>6, <2>1
  <1> QED
    BY <1>3, <1>7 DEF f

-----------------------------------------------------------------------------
(* The files that were collected deploy what there is, whatever the steps. *)

LEMMA InitCollect == Init => CollectInv
  BY DEF Init, Empty, CollectInv, RemoteInv, FilesInv, FreshInv

\* A file that is still fresh, and all that it depends on, is as it was.
LEMMA FreshMirrors ==
  ASSUME FreshInv(files, remote, fresh), NEW fs, NEW rm
  PROVE  FreshInv(fs, rm, Fresh(fs, rm))
  <1> DEFINE fr == Fresh(fs, rm)
  <1> SUFFICES ASSUME NEW k \in DOMAIN fr PROVE Mirrors(fs, rm, k, fr[k])
    BY DEF FreshInv
  <1>1. /\ k \in DOMAIN fresh /\ fr[k] = fresh[k]
        /\ Same(fs, k) /\ \A ref \in files[k].refs : Same(fs, ref)
        /\ fresh[k] \in DOMAIN rm /\ rm[fresh[k]] = remote[fresh[k]]
    BY DEF Fresh
  <1>2. Mirrors(files, remote, k, fresh[k])
    BY <1>1 DEF FreshInv
  <1>3. Body(fs, files[k]) = Body(files, files[k])
    BY <1>1, BodySame DEF Same
  <1> QED
    BY <1>1, <1>2, <1>3 DEF Mirrors, Same

LEMMA CommitCollect ==
  ASSUME CollectInv, NEW f \in Drafts, Commit(f)
  PROVE  CollectInv'
  <1> DEFINE fs == [k \in DOMAIN files \cup {<<f.kind, f.id>>} |->
                      IF k = <<f.kind, f.id>> THEN f ELSE files[k]]
  <1>1. files' = fs /\ fresh' = Fresh(fs, remote) /\ remote' = remote
    BY DEF Commit
  <1>2. Filed(f)
    BY NamesAssumption, ConnectionsAssumption, DraftsAssumption DEF Filed
  <1>3. FilesInv(fs)
    BY <1>2 DEF CollectInv, FilesInv
  <1>4. FreshInv(fs, remote, Fresh(fs, remote))
    BY FreshMirrors DEF CollectInv
  <1> HIDE DEF fs
  <1> QED
    BY <1>1, <1>3, <1>4 DEF CollectInv

LEMMA RemoveCollect ==
  ASSUME CollectInv, NEW k \in DOMAIN files, Remove(k)
  PROVE  CollectInv'
  <1>1. /\ files' = Restrict(files, DOMAIN files \ {k})
        /\ fresh' = Fresh(files', remote) /\ remote' = remote
    BY DEF Remove
  <1>2. FilesInv(files')
    BY <1>1 DEF CollectInv, FilesInv, Restrict
  <1>3. FreshInv(files', remote, Fresh(files', remote))
    BY FreshMirrors DEF CollectInv
  <1> QED
    BY <1>1, <1>2, <1>3 DEF CollectInv

\* A resource is put, by hand or by an apply.
LEMMA PutShaped ==
  ASSUME RemoteInv(remote), NEW a, NEW r, Shaped(a, r)
  PROVE  RemoteInv([b \in DOMAIN remote \cup {a} |-> IF b = a THEN r ELSE remote[b]])
  BY DEF RemoteInv

LEMMA BuildCollect ==
  ASSUME CollectInv, NEW h \in HandMade, BuildByHand(h)
  PROVE  CollectInv'
  <1> DEFINE a == <<h[1], h[2]>>
             r == h[3]
             rm == [b \in DOMAIN remote \cup {a} |-> IF b = a THEN r ELSE remote[b]]
  <1>1. /\ a \notin DOMAIN remote /\ r.runs \subseteq DOMAIN remote
        /\ remote' = rm /\ files' = files /\ fresh' = fresh
    BY DEF BuildByHand
  <1>2. Shaped(a, r)
    <2>1. \A t \in r.runs : t = <<t[1], t[2]>>
      BY <1>1 DEF CollectInv, RemoteInv, Shaped
    <2> QED
      BY <2>1, HandMadeAssumption DEF Shaped
  <1>3. RemoteInv(rm)
    <2> HIDE DEF a, r
    <2> QED
      BY <1>2, PutShaped DEF CollectInv
  <1>4. \A b \in DOMAIN remote : b \in DOMAIN rm /\ rm[b] = remote[b]
    BY <1>1
  <1> HIDE DEF rm
  <1>5. FreshInv(files, rm, fresh)
    BY <1>4 DEF CollectInv, FreshInv, Mirrors
  <1> QED
    BY <1>1, <1>3, <1>5 DEF CollectInv

LEMMA EditCollect ==
  ASSUME CollectInv, NEW a \in DOMAIN remote, NEW b \in Bodies, EditByHand(a, b)
  PROVE  CollectInv'
  <1>1. /\ remote' = [remote EXCEPT ![a].body = b]
        /\ files' = files /\ fresh' = Fresh(files, remote')
    BY DEF EditByHand
  <1>2. DOMAIN remote' = DOMAIN remote /\ \A c \in DOMAIN remote : c # a => remote'[c] = remote[c]
    BY <1>1
  <1>3. remote'[a] = [remote[a] EXCEPT !.body = b]
    BY <1>1
  <1>4. Shaped(a, remote'[a])
    BY <1>3 DEF CollectInv, RemoteInv, Shaped
  <1>5. remote' = [c \in DOMAIN remote' |-> remote'[c]]
    BY <1>1
  <1>6. RemoteInv(remote')
    BY <1>2, <1>4, <1>5 DEF CollectInv, RemoteInv
  <1>7. FreshInv(files, remote', Fresh(files, remote'))
    BY FreshMirrors DEF CollectInv
  <1> QED
    BY <1>1, <1>6, <1>7 DEF CollectInv

LEMMA Retagged ==
  ASSUME NEW a, NEW r, Shaped(a, r), r.cat = "playbook", NEW v \in BOOLEAN
  PROVE  Shaped(a, [r EXCEPT !.managed = v])
  <1> DEFINE q == [r EXCEPT !.managed = v]
             u == [l \in DOMAIN r.uses |-> r.uses[l]]
  <1>1. r = [cat |-> r.cat, body |-> r.body, managed |-> r.managed, uses |-> u, runs |-> r.runs]
    BY DEF Shaped
  <1>2. u = r.uses
    BY DEF Shaped
  <1> HIDE DEF u
  <1>3. q = [cat |-> r.cat, body |-> r.body, managed |-> v, uses |-> u, runs |-> r.runs]
    BY <1>1
  <1> HIDE DEF q
  <1>4. /\ q.cat = r.cat /\ q.body = r.body /\ q.managed = v /\ q.runs = r.runs
        /\ q.uses = r.uses
    BY <1>2, <1>3
  <1>5. q = [cat |-> q.cat, body |-> q.body, managed |-> q.managed,
             uses |-> [l \in DOMAIN q.uses |-> q.uses[l]], runs |-> q.runs]
    BY <1>2, <1>3, <1>4 DEF u
  <1>6. Shaped(a, q)
    BY <1>4, <1>5 DEF Shaped
  <1> QED
    BY <1>6 DEF q

\* To tag a workflow again changes nothing of it.
LEMMA AdoptCollect ==
  ASSUME CollectInv, NEW a \in DOMAIN remote, Adopt(a)
  PROVE  CollectInv'
  <1>1. /\ remote' = [remote EXCEPT ![a].managed = TRUE] /\ remote[a].cat = "playbook"
        /\ files' = files /\ fresh' = fresh
    BY DEF Adopt
  <1>2. DOMAIN remote' = DOMAIN remote /\ \A c \in DOMAIN remote : c # a => remote'[c] = remote[c]
    BY <1>1
  <1>3. remote'[a] = [remote[a] EXCEPT !.managed = TRUE]
    BY <1>1
  <1>4. Shaped(a, remote'[a])
    <2>1. Shaped(a, remote[a])
      BY DEF CollectInv, RemoteInv
    <2>2. Shaped(a, [remote[a] EXCEPT !.managed = TRUE])
      BY <1>1, <2>1, Retagged
    <2> QED
      BY <1>3, <2>2
  <1>5. remote' = [c \in DOMAIN remote' |-> remote'[c]]
    BY <1>1
  <1>6. RemoteInv(remote')
    BY <1>2, <1>4, <1>5 DEF CollectInv, RemoteInv
  <1>7. ASSUME NEW k \in DOMAIN fresh PROVE Mirrors(files, remote', k, fresh[k])
    <2>1. Mirrors(files, remote, k, fresh[k])
      BY DEF CollectInv, FreshInv
    <2>2. CASE fresh[k] # a
      BY <1>2, <2>1, <2>2 DEF Mirrors
    <2>3. CASE fresh[k] = a /\ ~Kept(a, remote[a])
      <3>1. ~Kept(a, remote'[a])
        BY <1>3, <2>3 DEF Kept, CollectInv, RemoteInv, Shaped
      <3> QED
        BY <1>2, <2>1, <2>3, <3>1 DEF Mirrors
    <2>4. CASE fresh[k] = a /\ Body(files, files[k]) = remote[a]
      <3>1. remote[a].managed = TRUE
        <4>1. remote[a].managed = (remote[a].cat = "playbook")
          BY <2>4 DEF Body
        <4> QED
          BY <1>1, <4>1
      <3>2. remote[a] = [cat |-> remote[a].cat, body |-> remote[a].body,
                         managed |-> remote[a].managed, uses |-> remote[a].uses,
                         runs |-> remote[a].runs]
        BY DEF CollectInv, RemoteInv, Shaped
      <3>3. remote'[a] = remote[a]
        BY <1>3, <3>1, <3>2
      <3> QED
        BY <1>2, <2>1, <2>4, <3>3 DEF Mirrors
    <2> QED
      BY <2>1, <2>2, <2>3, <2>4 DEF Mirrors
  <1> QED
    BY <1>1, <1>6, <1>7 DEF CollectInv, FreshInv

LEMMA CollectCollect ==
  ASSUME IInv, CollectInv, NEW a \in DOMAIN remote, Collect(a)
  PROVE  CollectInv'
  <1> DEFINE f == Envelope(files, a[1], a[2], remote[a])
             key == <<f.kind, f.id>>
             fs == [k \in DOMAIN files \cup {key} |-> IF k = key THEN f ELSE files[k]]
             fr == Fresh(fs, remote)
  <1>1. /\ files' = fs /\ remote' = remote /\ key \notin DOMAIN files /\ a \in Orphans
        /\ fresh' = [k \in DOMAIN fr \cup {key} |-> IF k = key THEN a ELSE fresh[k]]
    BY DEF Collect
  <1>2. Shaped(a, remote[a])
    BY DEF CollectInv, RemoteInv
  <1>3. remote[a].cat = "playbook" => remote[a].managed
    BY <1>1 DEF Orphans, Listed
  <1>4. Filed(f)
    BY <1>2, CollectedFiled
  <1>5. \A k \in DOMAIN files : fs[k] = files[k]
    BY <1>1
  <1>6. Kept(a, remote[a]) => Address(f) = a /\ Body(fs, f) = remote[a]
    BY <1>2, <1>3, <1>5, CollectedMirrors
  <1>7. key \in DOMAIN fs /\ fs[key] = f
    OBVIOUS
  <1>8. FilesInv(fs)
    BY <1>4 DEF CollectInv, FilesInv
  <1>9. FreshInv(fs, remote, fr)
    BY FreshMirrors DEF CollectInv
  <1>10. \A k \in DOMAIN fr : fr[k] = fresh[k]
    BY DEF Fresh
  <1> HIDE DEF f, key, fs, fr
  <1>11. Mirrors(fs, remote, key, a)
    BY <1>6, <1>7 DEF Mirrors
  <1>12. FreshInv(fs, remote, fresh')
    BY <1>1, <1>9, <1>10, <1>11 DEF FreshInv
  <1> QED
    BY <1>1, <1>8, <1>12 DEF CollectInv

LEMMA PutCollect ==
  ASSUME IInv, CollectInv, NEW k \in DOMAIN files, PutResource(k)
  PROVE  CollectInv'
  <1> DEFINE a == Address(files[k])
             r == Body(files, files[k])
             rm == [b \in DOMAIN remote \cup {a} |-> IF b = a THEN r ELSE remote[b]]
  <1>1. remote' = rm /\ files' = files /\ fresh' = Fresh(files, rm)
    BY DEF PutResource
  <1>2. Shaped(a, r)
    BY BodyShaped DEF IInv, CollectInv, FilesInv
  <1>3. RemoteInv(rm)
    <2> HIDE DEF a, r
    <2> QED
      BY <1>2, PutShaped DEF CollectInv
  <1> HIDE DEF rm
  <1>4. FreshInv(files, rm, Fresh(files, rm))
    BY FreshMirrors DEF CollectInv
  <1> QED
    BY <1>1, <1>3, <1>4 DEF CollectInv

LEMMA DeleteCollect ==
  ASSUME CollectInv, NEW a \in DOMAIN remote, DeleteResource(a)
  PROVE  CollectInv'
  <1>1. /\ remote' = Restrict(remote, DOMAIN remote \ {a})
        /\ files' = files /\ fresh' = Fresh(files, remote')
    BY DEF DeleteResource
  <1>2. RemoteInv(remote')
    BY <1>1 DEF CollectInv, RemoteInv, Restrict
  <1>3. FreshInv(files, remote', Fresh(files, remote'))
    BY FreshMirrors DEF CollectInv
  <1> QED
    BY <1>1, <1>2, <1>3 DEF CollectInv

\* While an apply runs, its files are there.
Standing == run.does = "apply" => run.todo \subseteq DOMAIN files
RoundInv == IInv /\ CollectInv /\ Standing

LEMMA CollectStep ==
  ASSUME RoundInv, Next
  PROVE  CollectInv'
  <1> USE DEF RoundInv
  <1>1. ASSUME NEW f \in Drafts, Commit(f) PROVE CollectInv'
    BY <1>1, CommitCollect
  <1>2. ASSUME NEW k \in DOMAIN files, Remove(k) PROVE CollectInv'
    BY <1>2, RemoveCollect
  <1>3. ASSUME NEW h \in HandMade, BuildByHand(h) PROVE CollectInv'
    BY <1>3, BuildCollect
  <1>4. ASSUME NEW a \in DOMAIN remote, NEW b \in Bodies, EditByHand(a, b) PROVE CollectInv'
    BY <1>4, EditCollect
  <1>5. ASSUME NEW a \in DOMAIN remote, Adopt(a) PROVE CollectInv'
    BY <1>5, AdoptCollect
  <1>6. ASSUME NEW a \in DOMAIN remote, Collect(a) PROVE CollectInv'
    BY <1>6, CollectCollect
  <1>7. ASSUME NEW k \in run.todo, PutResource(k) PROVE CollectInv'
    <2>1. k \in DOMAIN files
      BY <1>7 DEF PutResource, Current, Standing
    <2> QED
      BY <1>7, <2>1, PutCollect
  <1>8. ASSUME NEW a \in DOMAIN remote, DeleteResource(a) PROVE CollectInv'
    BY <1>8, DeleteCollect
  <1>9. ASSUME UNCHANGED <<files, remote, fresh>> PROVE CollectInv'
    BY <1>9 DEF CollectInv
  <1>10. ASSUME NEW k \in run.todo, PutConnection(k) \/ ConnectionFails(k) \/ PutFails(k)
         PROVE  CollectInv'
    BY <1>9, <1>10 DEF PutConnection, ConnectionFails, PutFails
  <1>11. ASSUME StartApply \/ FinishApply \/ DropConnections \/ Crash PROVE CollectInv'
    BY <1>9, <1>11 DEF StartApply, FinishApply, DropConnections, Crash
  <1> QED
    BY <1>1, <1>2, <1>3, <1>4, <1>5, <1>6, <1>7, <1>8, <1>10, <1>11
       DEF Next, People, Collecting, Deploying, Pruning, Apply

LEMMA StandingStep ==
  ASSUME RoundInv, Next
  PROVE  Standing'
  <1> USE DEF RoundInv
  <1>1. CASE Merges \/ Ends
    BY <1>1, IdleRun DEF Merges, Ends, Standing
  <1>2. CASE Rests
    BY <1>2 DEF Rests, Standing
  <1>3. CASE Proceeds
    <2>1. PICK k \in run.todo :
            PutConnection(k) \/ ConnectionFails(k) \/ PutResource(k) \/ PutFails(k)
      BY <1>3 DEF Proceeds
    <2>2. files' = files /\ run.does = "apply" /\ run'.todo \subseteq run.todo
      BY <2>1, ProceedCases DEF IInv
    <2> QED
      BY <2>2 DEF Standing
  <1>4. CASE StartApply
    <2>1. /\ files' = files /\ run'.todo = {k \in DOMAIN files : Deployed(files[k])}
      BY <1>4 DEF StartApply, NoRun
    <2> QED
      BY <2>1 DEF Standing
  <1>5. ASSUME NEW a \in DOMAIN remote, DeleteResource(a) PROVE Standing'
    BY <1>5 DEF DeleteResource, NoRun, Standing
  <1>6. Merges \/ Ends \/ Rests \/ Proceeds \/ StartApply \/ \E a \in DOMAIN remote : DeleteResource(a)
    <2>1. ASSUME NEW f \in Drafts, run = NoRun, Commit(f) PROVE Merges
      BY <2>1, CommitMerges
    <2>2. ASSUME NEW k \in DOMAIN files, run = NoRun, Remove(k) PROVE Merges
      BY <2>2, RemoveMerges
    <2>3. ASSUME NEW a \in DOMAIN remote, Collect(a) PROVE Merges
      BY <2>3, CollectMerges
    <2>4. ASSUME NEW h \in HandMade, BuildByHand(h) PROVE Rests
      BY <2>4 DEF BuildByHand, Rests
    <2>5. ASSUME NEW a \in DOMAIN remote, NEW b \in Bodies, EditByHand(a, b) PROVE Rests
      BY <2>5 DEF EditByHand, Rests
    <2>6. ASSUME NEW a \in DOMAIN remote, Adopt(a) PROVE Ends
      BY <2>6 DEF Adopt, Ends
    <2>7. FinishApply \/ DropConnections \/ Crash => Ends
      BY DEF FinishApply, DropConnections, Crash, Ends
    <2>8. Apply => Proceeds
      BY DEF Apply, Proceeds
    <2> QED
      BY <2>1, <2>2, <2>3, <2>4, <2>5, <2>6, <2>7, <2>8
         DEF Next, People, Collecting, Deploying, Pruning
  <1> QED
    BY <1>1, <1>2, <1>3, <1>4, <1>5, <1>6

LEMMA RoundInvariance == Spec => []RoundInv
  <1>1. Init => RoundInv
    BY InitStep, InitCollect, IdleRun DEF RoundInv, Standing, Init
  <1>2. RoundInv /\ [Next]_vars => RoundInv'
    <2> SUFFICES ASSUME RoundInv, [Next]_vars PROVE RoundInv'
      OBVIOUS
    <2>1. IInv'
      BY Inductive DEF RoundInv
    <2>2. CASE Next
      BY <2>1, <2>2, CollectStep, StandingStep DEF RoundInv
    <2>3. CASE UNCHANGED vars
      BY <2>1, <2>3 DEF RoundInv, CollectInv, Standing, vars
    <2> QED
      BY <2>2, <2>3
  <1> QED
    BY <1>1, <1>2, PTL DEF Spec

\* What is collected is what was deployed, under the name it had (to_envelope of
\* every handler): its file applies without effect, whatever people, applies and
\* prunes have done to other things meanwhile.
THEOREM CollectsApplyAsNoOps == Spec => CollectedAppliesAsNoOp
  <1> DEFINE Quiet ==
        \A k \in DOMAIN fresh :
          /\ run'.does = "apply" /\ k \in run.todo \ run'.todo /\ run'.ok
          /\ Slugged(fresh[k])
          => remote' = remote
  <1>1. RoundInv /\ [Next]_vars => [Quiet]_vars
    <2> SUFFICES ASSUME RoundInv, Next, NEW k \in DOMAIN fresh,
                        run'.does = "apply", k \in run.todo, k \notin run'.todo, run'.ok,
                        Slugged(fresh[k])
                 PROVE  remote' = remote
      BY DEF Quiet
    <2>1. Proceeds
      BY IdleRun, NextCases DEF Merges, Begins, Rests, Ends, RoundInv
    <2>2. PICK j \in run.todo :
            PutConnection(j) \/ ConnectionFails(j) \/ PutResource(j) \/ PutFails(j)
      BY <2>1 DEF Proceeds
    <2>3. PutResource(j) /\ run'.todo = run.todo \ {j}
      BY <2>2, ProceedCases DEF IInv, RoundInv
    <2>4. k = j
      BY <2>3
    <2>5. Mirrors(files, remote, k, fresh[k]) /\ Kept(fresh[k], remote[fresh[k]])
      BY DEF RoundInv, CollectInv, FreshInv, Kept, Slugged
    <2>6. /\ Address(files[k]) \in DOMAIN remote
          /\ Body(files, files[k]) = remote[Address(files[k])]
      BY <2>5 DEF Mirrors
    <2>7. remote' = [a \in DOMAIN remote \cup {Address(files[k])} |->
                       IF a = Address(files[k]) THEN Body(files, files[k]) ELSE remote[a]]
      BY <2>3, <2>4 DEF PutResource
    <2>8. remote = [a \in DOMAIN remote |-> remote[a]]
      BY DEF RoundInv, CollectInv, RemoteInv
    <2> QED
      BY <2>6, <2>7, <2>8
  <1> HIDE DEF Quiet
  <1> QED
    BY <1>1, RoundInvariance, PTL DEF Spec, CollectedAppliesAsNoOp, Quiet

------------------------------------------------------------------------------
(* Drift and collect, D: what `contentops drift --write' and `collect' promise, for *)
(* any names, any rules, any suppressions and any number of changes in the portal   *)
(* and in git.  An import is a sequence of writes, so that what it promises is what *)
(* each write keeps (KeptFrom, Drawn) or settles for good (Settled).                *)

CONSTANTS Slugs, Guids, PathRank, Suppressions, MaxVersion
VARIABLES tenant, prs, off, portals, gits, runs

\* files, Bodies, None and the bounds that both have go by their names.
D == INSTANCE DriftImport

(* What the two specifications both import is the same. *)

LEMMA SameFinite ==
  /\ \A S : D!IsFiniteSet(S) <=> IsFiniteSet(S)
  /\ \A S : D!Cardinality(S) = Cardinality(S)
  /\ \A f : D!Range(f) = Range(f)
<1>1. ASSUME NEW S PROVE D!IsFiniteSet(S) <=> IsFiniteSet(S)
  BY DEF IsFiniteSet, D!IsFiniteSet
<1>2. ASSUME NEW S PROVE D!Cardinality(S) = Cardinality(S)
  BY DEF Cardinality, D!Cardinality
<1>3. ASSUME NEW f PROVE D!Range(f) = Range(f)
  BY DEF Range, D!Range
<1> QED BY <1>1, <1>2, <1>3

------------------------------------------------------------------------------
(* Counting up. *)

\* In place of induction: the least counterexample is none.
LEMMA LeastOf ==
  ASSUME NEW T \in SUBSET Nat, T # {}
  PROVE  \E m \in T : \A k \in T : m <= k
<1>1. PICK m \in T : \A k \in T : ~(<<k, m>> \in OpToRel(<, Nat))
  <2>1. IsWellFoundedOn(OpToRel(<, Nat), Nat)
    BY NatLessThanWellFounded
  <2> QED BY <2>1, WFMin
<1>2. \A k \in T : ~(k < m)
  BY <1>1 DEF OpToRel
<1> QED BY <1>2

\* What the first has and each has from the one before, all have.
LEMMA UpTo ==
  ASSUME NEW n \in Nat,
         NEW Good, 0 \in Good, \A i \in 1 .. n : i - 1 \in Good => i \in Good
  PROVE  \A i \in 0 .. n : i \in Good
<1> SUFFICES ASSUME (0 .. n) \ Good # {} PROVE FALSE
  OBVIOUS
<1>1. PICK m \in (0 .. n) \ Good : \A k \in (0 .. n) \ Good : m <= k
  <2>1. (0 .. n) \ Good \in SUBSET Nat
    OBVIOUS
  <2> QED BY <2>1, LeastOf
<1>2. m # 0 /\ m \in 1 .. n
  BY <1>1
<1>3. m - 1 \in 0 .. n /\ ~(m <= m - 1)
  BY <1>2
<1>4. m - 1 \in Good
  BY <1>1, <1>3
<1> QED BY <1>1, <1>2, <1>4

------------------------------------------------------------------------------
(* The index. *)

\* A checkout of the kind, and the files of it that answer to a key.
Paths(fs) == DOMAIN fs \subseteq D!Ids
Holders(fs, key) == {p \in DOMAIN fs : key \in D!Keys(fs[p])}

LEMMA RanksDiffer ==
  ASSUME D!ConstantsAssumption
  PROVE  /\ \A p \in D!Ids : PathRank[p] \in Nat
         /\ \A p, q \in D!Ids : PathRank[p] = PathRank[q] => p = q
         /\ None \notin D!Ids /\ None \notin D!Remotes
BY DEF D!ConstantsAssumption

LEMMA IndexIsHolder ==
  ASSUME NEW fs, NEW key
  PROVE  D!LocalIndex(fs, key) = {p \in Holders(fs, key) :
                                  \A q \in Holders(fs, key) : PathRank[p] <= PathRank[q]}
BY DEF D!LocalIndex, Holders

\* No two paths have one rank, so that an index knows one file under a key, if any.
LEMMA IndexKnowsOne ==
  ASSUME D!ConstantsAssumption, NEW fs, Paths(fs), NEW key,
         NEW p \in D!LocalIndex(fs, key), NEW q \in D!LocalIndex(fs, key)
  PROVE  p = q
BY RanksDiffer, IndexIsHolder DEF Paths, Holders

LEMMA IndexFinds ==
  ASSUME D!ConstantsAssumption, NEW fs, Paths(fs), NEW key, Holders(fs, key) # {}
  PROVE  D!LocalIndex(fs, key) # {}
<1> DEFINE ranks == {PathRank[p] : p \in Holders(fs, key)}
<1>1. ranks \in SUBSET Nat /\ ranks # {}
  BY RanksDiffer DEF Paths, Holders
<1>2. PICK m \in ranks : \A k \in ranks : m <= k
  BY <1>1, LeastOf
<1> QED BY <1>2, IndexIsHolder

LEMMA MatchKnowsOne ==
  ASSUME D!ConstantsAssumption, NEW fs, Paths(fs), NEW listing, NEW r,
         NEW p \in D!Match(fs, listing, r)
  PROVE  /\ p \in DOMAIN fs
         /\ D!Match(fs, listing, r) = {p}
         /\ (CHOOSE q \in D!Match(fs, listing, r) : TRUE) = p
<1>1. \A q \in D!Match(fs, listing, r) : q = p
  BY IndexKnowsOne DEF D!Match
<1>2. p \in DOMAIN fs
  BY DEF D!Match, D!LocalIndex
<1> QED BY <1>1, <1>2

------------------------------------------------------------------------------
(* One write. *)

LEMMA WithIs ==
  ASSUME NEW f, NEW x, NEW v
  PROVE  /\ DOMAIN D!With(f, x, v) = {x} \cup DOMAIN f
         /\ D!With(f, x, v)[x] = v
         /\ \A y \in DOMAIN f \ {x} : D!With(f, x, v)[y] = f[y]
BY DEF D!With

\* A file is a record of these fields, and its payload of those.
Framed(f) ==
  f = [id |-> f.id, arm |-> f.arm, payload |-> f.payload,
       owned |-> f.owned, status |-> f.status, version |-> f.version]

LEMMA EnvelopeKeeps ==
  ASSUME NEW listing, NEW r
  PROVE  LET env == D!Envelope(listing, r) IN
         /\ env.id = D!EnvelopeId(listing, r) /\ env.arm = r /\ env.payload = listing[r]
         /\ env.owned = FALSE /\ env.version = 0
         /\ env.status = IF listing[r].enabled THEN "production" ELSE "deprecated"
         /\ Framed(env)
BY DEF D!Envelope, Framed

LEMMA KeptIs ==
  ASSUME NEW env, NEW old, NEW kept,
         env = [id |-> env.id, arm |-> env.arm, payload |-> env.payload,
                owned |-> env.owned, status |-> env.status, version |-> env.version],
         kept = [env EXCEPT !.id = old.id, !.owned = old.owned, !.version = old.version]
  PROVE  kept = [id |-> old.id, arm |-> env.arm, payload |-> env.payload,
                 owned |-> old.owned, status |-> env.status, version |-> old.version]
OBVIOUS

LEMMA BumpedIs ==
  ASSUME NEW f, NEW g, NEW n,
         f = [id |-> f.id, arm |-> f.arm, payload |-> f.payload,
              owned |-> f.owned, status |-> f.status, version |-> f.version],
         g = [f EXCEPT !.version = n]
  PROVE  /\ g = [id |-> f.id, arm |-> f.arm, payload |-> f.payload,
                 owned |-> f.owned, status |-> f.status, version |-> n]
         /\ n = f.version => g = f
OBVIOUS

\* A changed file keeps its id, takes the remote name and the content of the rule,
\* and loses nothing of what an operator wrote; it is the same or a later version.
LEMMA PreserveIs ==
  ASSUME NEW env, NEW old, Framed(env)
  PROVE  LET new == D!Preserve(env, old) IN
         /\ Framed(new)
         /\ new.id = old.id /\ new.arm = env.arm /\ new.payload = env.payload
         /\ new.owned = old.owned /\ new.status = env.status
         /\ new = old \/ new.version = old.version + 1
<1> DEFINE kept == [env EXCEPT !.id = old.id, !.owned = old.owned, !.version = old.version]
           same == [kept EXCEPT !.version = old.version]
           next == [kept EXCEPT !.version = @ + 1]
<1>1. D!Preserve(env, old) = IF D!SameButVersion(kept, old) THEN kept ELSE next
  BY DEF D!Preserve
<1>2. kept = [id |-> old.id, arm |-> env.arm, payload |-> env.payload,
              owned |-> old.owned, status |-> env.status, version |-> old.version]
  BY KeptIs DEF Framed
<1>3. D!SameButVersion(kept, old) <=> same = old
  BY DEF D!SameButVersion
<1>4. next = [kept EXCEPT !.version = kept.version + 1]
  OBVIOUS
<1> HIDE DEF kept, same, next
<1>5. same = kept
  <2>1. same = [kept EXCEPT !.version = old.version]
    BY DEF same
  <2> QED BY <1>2, <2>1, BumpedIs
<1>6. next = [id |-> old.id, arm |-> env.arm, payload |-> env.payload,
              owned |-> old.owned, status |-> env.status, version |-> old.version + 1]
  BY <1>2, <1>4, BumpedIs
<1>7. CASE D!SameButVersion(kept, old)
  <2>1. D!Preserve(env, old) = kept /\ kept = old
    BY <1>1, <1>3, <1>5, <1>7
  <2> QED BY <1>2, <2>1 DEF Framed
<1>8. CASE ~D!SameButVersion(kept, old)
  <2>1. D!Preserve(env, old) = next
    BY <1>1, <1>8
  <2> QED BY <1>6, <2>1 DEF Framed
<1> QED BY <1>7, <1>8

------------------------------------------------------------------------------
(* One write after the other. *)

\* What write_drift is given: the entries that no suppression takes out.
Entries(fs, listing, S) == D!Drifted(fs, listing) \ D!Suppressed(fs, listing, S)

\* Every entry is written, and only entries are.
LEMMA OrderIs ==
  ASSUME NEW fs, NEW listing, NEW S, NEW order \in D!Orders(fs, listing, S),
         IsFiniteSet(DOMAIN listing)
  PROVE  /\ Len(order) \in Nat
         /\ \A i \in 1 .. Len(order) : order[i] \in Entries(fs, listing, S)
         /\ \A r \in Entries(fs, listing, S) : \E i \in 1 .. Len(order) : order[i] = r
<1> DEFINE E == Entries(fs, listing, S)
           n == Cardinality(E)
<1>1. n \in Nat
  <2>1. E \subseteq DOMAIN listing
    BY DEF Entries, D!Drifted, D!Added, D!Changed
  <2> QED BY <2>1, FS_Subset, FS_CardinalityType
<1>2. order \in [1 .. n -> E] /\ Range(order) = E
  BY SameFinite DEF D!Orders, Entries
<1> HIDE DEF n, E
<1>3. order \in Seq(E) /\ Len(order) = n
  BY <1>1, <1>2
<1>4. \A r \in E : \E i \in 1 .. n : order[i] = r
  BY <1>2 DEF Range
<1> QED BY <1>1, <1>2, <1>3, <1>4 DEF E

\* g is what the first m writes leave, one after the other.
Follows(g, fs, listing, order, m) ==
  g = [i \in 0 .. m |-> IF i = 0 THEN fs ELSE D!Write(g[i - 1], fs, listing, order[i])]

LEMMA StepsExist ==
  ASSUME NEW fs, NEW listing, NEW order, NEW n \in Nat
  PROVE  \E g : Follows(g, fs, listing, order, n)
<1> DEFINE w(f, i) == D!Write(f, fs, listing, order[i])
           Good == {m \in 0 .. n :
                      \E g : g = [i \in 0 .. m |-> IF i = 0 THEN fs ELSE w(g[i - 1], i)]}
<1> HIDE DEF w
<1>1. 0 \in Good
  <2> DEFINE g == [i \in 0 .. 0 |-> fs]
  <2>1. g = [i \in 0 .. 0 |-> IF i = 0 THEN fs ELSE w(g[i - 1], i)]
    OBVIOUS
  <2> HIDE DEF g
  <2> QED BY <2>1
<1>2. ASSUME NEW k \in 1 .. n, k - 1 \in Good PROVE k \in Good
  <2>1. PICK g : g = [i \in 0 .. k - 1 |-> IF i = 0 THEN fs ELSE w(g[i - 1], i)]
    BY <1>2
  <2> DEFINE h == [i \in 0 .. k |-> IF i = k THEN w(g[k - 1], k) ELSE g[i]]
  <2>2. \A i \in 0 .. k - 1 : h[i] = g[i] /\ g[i] = IF i = 0 THEN fs ELSE w(g[i - 1], i)
    BY <2>1
  <2>3. \A i \in 0 .. k : h[i] = IF i = 0 THEN fs ELSE w(h[i - 1], i)
    <3>1. \A i \in 0 .. k : i = k \/ i \in 0 .. k - 1
      OBVIOUS
    <3>2. \A i \in 0 .. k : i # 0 => i - 1 \in 0 .. k - 1
      OBVIOUS
    <3> QED BY <2>2, <3>1, <3>2
  <2>4. h = [i \in 0 .. k |-> IF i = 0 THEN fs ELSE w(h[i - 1], i)]
    <3> HIDE DEF h
    <3>1. h = [i \in 0 .. k |-> h[i]]
      BY DEF h
    <3> QED BY <2>3, <3>1
  <2> HIDE DEF h
  <2> QED BY <2>4
<1>3. n \in Good
  <2> HIDE DEF Good
  <2>1. \A i \in 1 .. n : i - 1 \in Good => i \in Good
    BY <1>2
  <2>2. \A i \in 0 .. n : i \in Good
    BY <1>1, <2>1, UpTo
  <2> QED BY <2>2
<1> QED BY <1>3 DEF Follows, w

LEMMA WritingIs ==
  ASSUME NEW fs, NEW listing, NEW order, Len(order) \in Nat
  PROVE  LET after == D!Writing(fs, listing, order) IN
         /\ after[0] = fs
         /\ \A i \in 1 .. Len(order) : after[i] = D!Write(after[i - 1], fs, listing, order[i])
<1> DEFINE after == D!Writing(fs, listing, order)
<1>1. Follows(after, fs, listing, order, Len(order))
  <2>1. PICK g : Follows(g, fs, listing, order, Len(order))
    BY StepsExist
  <2>2. after = CHOOSE f : Follows(f, fs, listing, order, Len(order))
    BY DEF D!Writing, Follows
  <2> QED BY <2>1, <2>2
<1> HIDE DEF after
<1>2. \A i \in 0 .. Len(order) :
        after[i] = IF i = 0 THEN fs ELSE D!Write(after[i - 1], fs, listing, order[i])
  BY <1>1 DEF Follows
<1> QED BY <1>2 DEF after

------------------------------------------------------------------------------
(* What a write changes. *)

LEMMA WriteIs ==
  ASSUME D!ConstantsAssumption, NEW fs, Paths(fs), NEW h, NEW listing, NEW r
  PROVE  /\ D!Match(fs, listing, r) = {} =>
              D!Write(h, fs, listing, r) = D!With(h, D!EnvelopeId(listing, r), D!Envelope(listing, r))
         /\ \A p \in D!Match(fs, listing, r) : p \in DOMAIN h =>
              /\ DOMAIN D!Write(h, fs, listing, r) = DOMAIN h
              /\ D!Write(h, fs, listing, r)[p] = D!Preserve(D!Envelope(listing, r), h[p])
              /\ \A q \in DOMAIN h \ {p} : D!Write(h, fs, listing, r)[q] = h[q]
<1>1. D!Match(fs, listing, r) = {} =>
        D!Write(h, fs, listing, r) = D!With(h, D!EnvelopeId(listing, r), D!Envelope(listing, r))
  BY DEF D!Write, D!WriteNew
<1>2. ASSUME NEW p \in D!Match(fs, listing, r), p \in DOMAIN h
      PROVE  /\ DOMAIN D!Write(h, fs, listing, r) = DOMAIN h
             /\ D!Write(h, fs, listing, r)[p] = D!Preserve(D!Envelope(listing, r), h[p])
             /\ \A q \in DOMAIN h \ {p} : D!Write(h, fs, listing, r)[q] = h[q]
  <2> DEFINE new == D!Preserve(D!Envelope(listing, r), h[p])
  <2>1. (CHOOSE q \in D!Match(fs, listing, r) : TRUE) = p
    BY MatchKnowsOne
  <2>2. D!Write(h, fs, listing, r) = [h EXCEPT ![p] = new]
    BY <1>2, <2>1 DEF D!Write, D!WriteChanged
  <2> HIDE DEF new
  <2>3. D!Write(h, fs, listing, r)[p] = new
    BY <1>2, <2>2
  <2> QED BY <2>2, <2>3 DEF new
<1> QED BY <1>1, <1>2

\* A new file lands where no file stands.
LEMMA NewPathIsFree ==
  ASSUME D!ConstantsAssumption, NEW fs, Paths(fs), D!AtHome(fs), NEW listing, NEW r,
         D!Match(fs, listing, r) = {}
  PROVE  D!EnvelopeId(listing, r) \notin DOMAIN fs
<1> DEFINE e == D!EnvelopeId(listing, r)
<1>1. D!LocalIndex(fs, e) = {}
  BY DEF D!Match
<1>2. Holders(fs, e) = {}
  BY <1>1, IndexFinds
<1> QED BY <1>2 DEF Holders, D!Keys, D!AtHome

Versions(fs) == \A p \in DOMAIN fs : fs[p].version \in Nat

\* What no write undoes: no file goes, none changes its id, its operator's metadata
\* or its content without a later version.
KeptFrom(fs, h) ==
  /\ DOMAIN fs \subseteq DOMAIN h
  /\ \A p \in DOMAIN fs :
       /\ h[p].id = fs[p].id
       /\ fs[p].owned => h[p].owned
       /\ h[p].version \in Nat
       /\ h[p] # fs[p] => h[p].version > fs[p].version

LEMMA WriteKeeps ==
  ASSUME D!ConstantsAssumption, NEW fs, Paths(fs), D!AtHome(fs), Versions(fs),
         NEW h, KeptFrom(fs, h), NEW listing, NEW r
  PROVE  KeptFrom(fs, D!Write(h, fs, listing, r))
<1> DEFINE g == D!Write(h, fs, listing, r)
           e == D!EnvelopeId(listing, r)
<1>1. CASE D!Match(fs, listing, r) = {}
  <2>1. e \notin DOMAIN fs
    BY <1>1, NewPathIsFree
  <2>2. DOMAIN h \subseteq DOMAIN g /\ \A p \in DOMAIN h \ {e} : g[p] = h[p]
    <3>1. g = D!With(h, e, D!Envelope(listing, r))
      BY <1>1, WriteIs
    <3> HIDE DEF g, e
    <3>2. DOMAIN g = {e} \cup DOMAIN h /\ \A p \in DOMAIN h \ {e} : g[p] = h[p]
      BY <3>1 DEF D!With
    <3> QED BY <3>2
  <2> QED BY <2>1, <2>2 DEF KeptFrom
<1>2. ASSUME NEW p \in D!Match(fs, listing, r) PROVE KeptFrom(fs, g)
  <2>1. p \in DOMAIN fs /\ p \in DOMAIN h
    BY MatchKnowsOne DEF KeptFrom
  <2>2. DOMAIN g = DOMAIN h /\ g[p] = D!Preserve(D!Envelope(listing, r), h[p])
        /\ \A q \in DOMAIN h \ {p} : g[q] = h[q]
    BY <2>1, WriteIs
  <2>3. /\ g[p].id = h[p].id /\ g[p].owned = h[p].owned
        /\ g[p] = h[p] \/ g[p].version = h[p].version + 1
    <3>1. Framed(D!Envelope(listing, r))
      BY EnvelopeKeeps
    <3> HIDE DEF g
    <3> QED BY <2>2, <3>1, PreserveIs
  <2> HIDE DEF g
  <2>4. /\ g[p].id = fs[p].id
        /\ fs[p].owned => g[p].owned
        /\ g[p].version \in Nat
        /\ g[p] # fs[p] => g[p].version > fs[p].version
    <3>1. /\ h[p].id = fs[p].id /\ (fs[p].owned => h[p].owned)
          /\ h[p].version \in Nat /\ fs[p].version \in Nat
          /\ h[p] # fs[p] => h[p].version > fs[p].version
      BY <2>1 DEF KeptFrom, Versions
    <3>2. CASE g[p] = h[p]
      BY <3>1, <3>2
    <3>3. CASE g[p].version = h[p].version + 1
      <4>1. h[p] = fs[p] => h[p].version = fs[p].version
        OBVIOUS
      <4>2. g[p].version \in Nat /\ g[p].version > fs[p].version
        BY <3>1, <3>3, <4>1
      <4> QED BY <2>3, <3>1, <4>2
    <3> QED BY <2>3, <3>2, <3>3
  <2> QED BY <2>1, <2>2, <2>4 DEF KeptFrom
<1> QED BY <1>1, <1>2

LEMMA ImportKeeps ==
  ASSUME D!ConstantsAssumption, NEW fs, Paths(fs), D!AtHome(fs), Versions(fs),
         NEW listing, NEW order, Len(order) \in Nat
  PROVE  KeptFrom(fs, D!Imported(fs, listing, order))
<1> DEFINE after == D!Writing(fs, listing, order)
<1>1. PICK n \in Nat : n = Len(order)
  OBVIOUS
<1>2. after[0] = fs /\ \A i \in 1 .. n : after[i] = D!Write(after[i - 1], fs, listing, order[i])
  BY <1>1, WritingIs
<1> HIDE DEF after
<1> DEFINE Good == {i \in 0 .. n : KeptFrom(fs, after[i])}
<1>3. 0 \in Good
  BY <1>2 DEF KeptFrom, Versions
<1>4. ASSUME NEW i \in 1 .. n, i - 1 \in Good PROVE i \in Good
  BY <1>2, <1>4, WriteKeeps
<1>5. n \in Good
  <2> HIDE DEF Good
  <2>1. \A i \in 1 .. n : i - 1 \in Good => i \in Good
    BY <1>4
  <2>2. \A i \in 0 .. n : i \in Good
    BY <1>3, <2>1, UpTo
  <2> QED BY <2>2
<1> QED BY <1>1, <1>5 DEF D!Imported, after

------------------------------------------------------------------------------
(* Where no two rules lead to one file, each write settles its rule for good. *)

\* After the writes of done: a new file for each rule that had none, as its envelope,
\* the content of its rule in the file of each other one, and no other file touched.
Settled(fs, listing, done, h) ==
  /\ DOMAIN h = DOMAIN fs \cup {D!EnvelopeId(listing, r) : r \in done \cap D!Added(fs, listing)}
  /\ \A p \in DOMAIN fs : (\A r \in done : p \notin D!Match(fs, listing, r)) => h[p] = fs[p]
  /\ \A r \in done \cap D!Added(fs, listing) :
       h[D!EnvelopeId(listing, r)] = D!Envelope(listing, r)
  /\ \A r \in done : \A p \in D!Match(fs, listing, r) :
       h[p].id = fs[p].id /\ h[p].arm = r /\ h[p].payload = listing[r]

LEMMA NewFileSettles ==
  ASSUME D!ConstantsAssumption, NEW fs, Paths(fs), D!AtHome(fs),
         NEW listing, D!Unclaimed(fs, listing),
         NEW done, done \subseteq DOMAIN listing, NEW h, Settled(fs, listing, done, h),
         NEW r \in DOMAIN listing, D!Match(fs, listing, r) = {}
  PROVE  Settled(fs, listing, done \cup {r}, D!Write(h, fs, listing, r))
<1> DEFINE g == D!Write(h, fs, listing, r)
           e(q) == D!EnvelopeId(listing, q)
<1>1. g = D!With(h, e(r), D!Envelope(listing, r))
  BY WriteIs
<1> HIDE DEF g
<1>2. DOMAIN g = {e(r)} \cup DOMAIN h /\ g[e(r)] = D!Envelope(listing, r)
      /\ \A p \in DOMAIN h \ {e(r)} : g[p] = h[p]
  BY <1>1 DEF D!With
<1>3. e(r) \notin DOMAIN fs
  BY NewPathIsFree
<1>4. r \in D!Added(fs, listing)
  BY DEF D!Added
<1>5. DOMAIN g = DOMAIN fs \cup {e(q) : q \in (done \cup {r}) \cap D!Added(fs, listing)}
  BY <1>2, <1>4 DEF Settled
<1>6. \A p \in DOMAIN fs : p \in DOMAIN h /\ g[p] = h[p]
  BY <1>2, <1>3 DEF Settled
<1>7. ASSUME NEW q \in (done \cup {r}) \cap D!Added(fs, listing)
      PROVE g[e(q)] = D!Envelope(listing, q)
  <2>1. CASE q = r
    BY <1>2, <2>1
  <2>2. CASE q # r
    <3>1. q \in done \cap D!Added(fs, listing) /\ e(q) # e(r)
      BY <1>7, <2>2 DEF D!Unclaimed
    <3> QED BY <1>2, <3>1 DEF Settled
  <2> QED BY <2>1, <2>2
<1>8. ASSUME NEW q \in done \cup {r}, NEW p \in D!Match(fs, listing, q)
      PROVE  g[p].id = fs[p].id /\ g[p].arm = q /\ g[p].payload = listing[q]
  <2>1. q \in done /\ p \in DOMAIN fs
    BY MatchKnowsOne
  <2> QED BY <1>6, <2>1 DEF Settled
<1> QED BY <1>5, <1>6, <1>7, <1>8 DEF Settled, g

LEMMA ChangedFileSettles ==
  ASSUME D!ConstantsAssumption, NEW fs, Paths(fs), D!AtHome(fs),
         NEW listing, D!Unclaimed(fs, listing),
         NEW done, done \subseteq DOMAIN listing, NEW h, Settled(fs, listing, done, h),
         NEW r \in DOMAIN listing, NEW p \in D!Match(fs, listing, r)
  PROVE  Settled(fs, listing, done \cup {r}, D!Write(h, fs, listing, r))
<1> DEFINE g == D!Write(h, fs, listing, r)
           e(q) == D!EnvelopeId(listing, q)
<1>1. p \in DOMAIN fs /\ p \in DOMAIN h
  BY MatchKnowsOne DEF Settled
<1>2. DOMAIN g = DOMAIN h /\ g[p] = D!Preserve(D!Envelope(listing, r), h[p])
      /\ \A q \in DOMAIN h \ {p} : g[q] = h[q]
  BY <1>1, WriteIs
<1> HIDE DEF g
<1>3. g[p].id = h[p].id /\ g[p].arm = r /\ g[p].payload = listing[r]
  <2>1. Framed(D!Envelope(listing, r)) /\ D!Envelope(listing, r).arm = r
        /\ D!Envelope(listing, r).payload = listing[r]
    BY DEF D!Envelope, Framed
  <2> QED BY <1>2, <2>1, PreserveIs
<1>4. h[p].id = fs[p].id
  BY <1>1 DEF Settled
<1>5. r \notin D!Added(fs, listing)
  BY DEF D!Added
<1>6. DOMAIN g = DOMAIN fs \cup {e(q) : q \in (done \cup {r}) \cap D!Added(fs, listing)}
  BY <1>2, <1>5 DEF Settled
<1>7. ASSUME NEW q \in DOMAIN fs, \A x \in done \cup {r} : q \notin D!Match(fs, listing, x)
      PROVE  g[q] = fs[q]
  <2>1. q # p /\ \A x \in done : q \notin D!Match(fs, listing, x)
    BY <1>7
  <2>2. h[q] = fs[q] /\ q \in DOMAIN h
    BY <2>1 DEF Settled
  <2> QED BY <1>2, <2>1, <2>2
<1>8. ASSUME NEW q \in (done \cup {r}) \cap D!Added(fs, listing)
      PROVE g[e(q)] = D!Envelope(listing, q)
  <2>1. q \in done \cap D!Added(fs, listing) /\ D!Match(fs, listing, q) = {}
    BY <1>5, <1>8 DEF D!Added
  <2>2. e(q) # p /\ e(q) \in DOMAIN h
    BY <1>1, <2>1, NewPathIsFree DEF Settled
  <2> QED BY <1>2, <2>1, <2>2 DEF Settled
<1>9. ASSUME NEW q \in done \cup {r}, NEW x \in D!Match(fs, listing, q)
      PROVE  g[x].id = fs[x].id /\ g[x].arm = q /\ g[x].payload = listing[q]
  <2>1. CASE q = r
    <3>1. x = p
      BY <2>1, MatchKnowsOne
    <3> QED BY <1>3, <1>4, <2>1, <3>1
  <2>2. CASE q # r
    <3>1. q \in done /\ x # p
      BY <1>9, <2>2 DEF D!Unclaimed
    <3>2. x \in DOMAIN h
      BY MatchKnowsOne DEF Settled
    <3> QED BY <1>2, <3>1, <3>2 DEF Settled
  <2> QED BY <2>1, <2>2
<1> QED BY <1>6, <1>7, <1>8, <1>9 DEF Settled, g

LEMMA ImportSettles ==
  ASSUME D!ConstantsAssumption, NEW fs, Paths(fs), D!AtHome(fs),
         NEW listing, D!Unclaimed(fs, listing),
         IsFiniteSet(DOMAIN listing), NEW S, NEW order \in D!Orders(fs, listing, S)
  PROVE  Settled(fs, listing, Entries(fs, listing, S), D!Imported(fs, listing, order))
<1> DEFINE after == D!Writing(fs, listing, order)
           E == Entries(fs, listing, S)
           done(i) == {order[j] : j \in 1 .. i}
<1>1. PICK n \in Nat : n = Len(order)
  BY OrderIs
<1>2. after[0] = fs /\ \A i \in 1 .. n : after[i] = D!Write(after[i - 1], fs, listing, order[i])
  BY <1>1, WritingIs
<1>3. \A i \in 1 .. n : order[i] \in E
  BY <1>1, OrderIs
<1>4. E = done(n)
  <2>1. \A r \in E : \E i \in 1 .. n : order[i] = r
    BY <1>1, OrderIs
  <2> HIDE DEF E
  <2> QED BY <1>3, <2>1
<1>5. E \subseteq DOMAIN listing
  BY DEF Entries, D!Drifted, D!Added, D!Changed
<1> HIDE DEF after, E
<1> DEFINE Good == {i \in 0 .. n : Settled(fs, listing, done(i), after[i])}
<1>6. 0 \in Good
  <2>1. done(0) = {}
    OBVIOUS
  <2> HIDE DEF done
  <2>2. Settled(fs, listing, {}, fs)
    BY DEF Settled
  <2> QED BY <1>2, <2>1, <2>2
<1>7. ASSUME NEW i \in 1 .. n, i - 1 \in Good PROVE i \in Good
  <2>1. done(i) = done(i - 1) \cup {order[i]}
    <3>1. 1 .. i = (1 .. i - 1) \cup {i}
      OBVIOUS
    <3> QED BY <3>1
  <2>2. done(i - 1) \subseteq DOMAIN listing /\ order[i] \in DOMAIN listing
    BY <1>3, <1>5
  <2> HIDE DEF done
  <2>3. Settled(fs, listing, done(i - 1), after[i - 1])
    BY <1>7
  <2>4. Settled(fs, listing, done(i - 1) \cup {order[i]},
                D!Write(after[i - 1], fs, listing, order[i]))
    <3>1. CASE D!Match(fs, listing, order[i]) = {}
      BY <2>2, <2>3, <3>1, NewFileSettles
    <3>2. ASSUME NEW p \in D!Match(fs, listing, order[i])
          PROVE  Settled(fs, listing, done(i - 1) \cup {order[i]},
                         D!Write(after[i - 1], fs, listing, order[i]))
      BY <2>2, <2>3, ChangedFileSettles
    <3> QED BY <3>1, <3>2
  <2> QED BY <1>2, <2>1, <2>4
<1>8. n \in Good
  <2> HIDE DEF Good
  <2>1. \A i \in 1 .. n : i - 1 \in Good => i \in Good
    BY <1>7
  <2>2. \A i \in 0 .. n : i \in Good
    BY <1>6, <2>1, UpTo
  <2> QED BY <2>2
<1> HIDE DEF done
<1>9. Settled(fs, listing, E, after[n])
  BY <1>4, <1>8
<1> QED BY <1>1, <1>9 DEF D!Imported, after, E

------------------------------------------------------------------------------
(* What the next listing finds. *)

\* h is the import of listing into fs, and no two rules lead to one file.
Outcome(fs, listing, S, h) ==
  /\ Paths(fs) /\ D!AtHome(fs) /\ D!Unclaimed(fs, listing)
  /\ \A r \in DOMAIN listing : r # None /\ D!EnvelopeId(listing, r) \in D!Ids
  /\ Settled(fs, listing, Entries(fs, listing, S), h)

LEMMA EntriesAre ==
  ASSUME NEW fs, NEW listing, NEW S
  PROVE  /\ Entries(fs, listing, S) \subseteq DOMAIN listing
         /\ \A r \in Entries(fs, listing, S) :
              r \in D!Added(fs, listing) <=> D!Match(fs, listing, r) = {}
BY DEF Entries, D!Drifted, D!Added, D!Changed

\* Where a file of the result comes from.
LEMMA Origins ==
  ASSUME D!ConstantsAssumption, NEW fs, NEW listing, NEW S,
         NEW h, Outcome(fs, listing, S, h),
         NEW p \in DOMAIN h
  PROVE  \/ p \in DOMAIN fs /\ h[p] = fs[p]
         \/ \E r \in Entries(fs, listing, S) :
              /\ p \in D!Match(fs, listing, r) /\ p \in DOMAIN fs
              /\ h[p].id = fs[p].id /\ D!Keys(h[p]) = {fs[p].id, r}
              /\ h[p].payload = listing[r]
         \/ \E r \in Entries(fs, listing, S) :
              /\ D!Match(fs, listing, r) = {} /\ p = D!EnvelopeId(listing, r)
              /\ p \notin DOMAIN fs
              /\ h[p].id = p /\ D!Keys(h[p]) = {p, r} /\ h[p].payload = listing[r]
<1> DEFINE E == Entries(fs, listing, S)
<1>1. Settled(fs, listing, E, h) /\ E \subseteq DOMAIN listing /\ Paths(fs) /\ D!AtHome(fs)
      /\ \A r \in DOMAIN listing : r # None
  BY EntriesAre DEF Outcome
<1> HIDE DEF E
<1>2. CASE p \in DOMAIN fs /\ \A r \in E : p \notin D!Match(fs, listing, r)
  BY <1>1, <1>2 DEF Settled
<1>3. ASSUME NEW r \in E, p \in D!Match(fs, listing, r)
      PROVE  /\ p \in DOMAIN fs /\ h[p].id = fs[p].id
             /\ D!Keys(h[p]) = {fs[p].id, r} /\ h[p].payload = listing[r]
  <2>1. h[p].id = fs[p].id /\ h[p].arm = r /\ h[p].payload = listing[r] /\ r # None
    BY <1>1, <1>3 DEF Settled
  <2>2. p \in DOMAIN fs
    BY <1>1, <1>3, MatchKnowsOne
  <2> QED BY <2>1, <2>2 DEF D!Keys
<1>4. CASE p \notin DOMAIN fs
  <2>1. PICK r \in E \cap D!Added(fs, listing) : p = D!EnvelopeId(listing, r)
    BY <1>1, <1>4 DEF Settled
  <2>2. h[p] = D!Envelope(listing, r) /\ r # None
    BY <1>1, <2>1 DEF Settled
  <2>3. h[p].id = p /\ h[p].arm = r /\ h[p].payload = listing[r]
    BY <2>1, <2>2 DEF D!Envelope
  <2>4. D!Keys(h[p]) = {p, r}
    BY <2>2, <2>3 DEF D!Keys
  <2>5. D!Match(fs, listing, r) = {}
    BY <2>1 DEF D!Added
  <2> QED BY <1>4, <2>1, <2>3, <2>4, <2>5 DEF E
<1> QED BY <1>2, <1>3, <1>4 DEF E

\* The import gives no key of a rule to a file of another.
LEMMA HoldersAfter ==
  ASSUME D!ConstantsAssumption, NEW fs, NEW listing, NEW S,
         NEW h, Outcome(fs, listing, S, h),
         NEW r \in DOMAIN listing, NEW key \in {r, D!EnvelopeId(listing, r)},
         NEW p \in Holders(h, key)
  PROVE  \/ p \in Holders(fs, key)
         \/ /\ r \in Entries(fs, listing, S)
            /\ \/ p \in D!Match(fs, listing, r)
               \/ D!Match(fs, listing, r) = {} /\ p = D!EnvelopeId(listing, r)
<1> DEFINE E == Entries(fs, listing, S)
<1>1. p \in DOMAIN h /\ key \in D!Keys(h[p])
  BY DEF Holders
<1>2. E \subseteq DOMAIN listing /\ D!Unclaimed(fs, listing)
  BY EntriesAre DEF Outcome
<1>3. CASE p \in DOMAIN fs /\ h[p] = fs[p]
  BY <1>1, <1>3 DEF Holders
<1>4. ASSUME NEW q \in E, p \in D!Match(fs, listing, q), p \in DOMAIN fs,
             D!Keys(h[p]) = {fs[p].id, q}
      PROVE  p \in Holders(fs, key) \/ (r \in E /\ p \in D!Match(fs, listing, r))
  <2>1. CASE key = fs[p].id
    BY <1>4, <2>1 DEF Holders, D!Keys
  <2>2. CASE key = q
    <3>1. q = r
      BY <1>2, <2>2 DEF D!Unclaimed
    <3> QED BY <1>4, <3>1
  <2> QED BY <1>1, <1>4, <2>1, <2>2
<1>5. ASSUME NEW q \in E, D!Match(fs, listing, q) = {}, p = D!EnvelopeId(listing, q),
             D!Keys(h[p]) = {p, q}
      PROVE  r \in E /\ D!Match(fs, listing, r) = {} /\ p = D!EnvelopeId(listing, r)
  <2>1. key \in {q, D!EnvelopeId(listing, q)}
    BY <1>1, <1>5
  <2>2. q = r
    BY <1>2, <2>1 DEF D!Unclaimed
  <2> QED BY <1>5, <2>2
<1> HIDE DEF E
<1>6. \/ p \in DOMAIN fs /\ h[p] = fs[p]
      \/ \E q \in E :
           p \in D!Match(fs, listing, q) /\ p \in DOMAIN fs /\ D!Keys(h[p]) = {fs[p].id, q}
      \/ \E q \in E :
           D!Match(fs, listing, q) = {} /\ p = D!EnvelopeId(listing, q) /\ D!Keys(h[p]) = {p, q}
  BY <1>1, Origins DEF E
<1> QED BY <1>3, <1>4, <1>5, <1>6 DEF E

LEMMA PathsAfter ==
  ASSUME D!ConstantsAssumption, NEW fs, NEW listing, NEW S,
         NEW h, Outcome(fs, listing, S, h)
  PROVE  Paths(h) /\ D!AtHome(h)
<1>1. Paths(h)
  BY EntriesAre DEF Outcome, Settled, Paths
<1>2. D!AtHome(h)
  <2>1. D!AtHome(fs)
    BY DEF Outcome
  <2> QED BY <2>1, Origins DEF D!AtHome
<1> QED BY <1>1, <1>2

\* A rule that was not written leads where it led, and nothing was written there.
LEMMA UnwrittenStays ==
  ASSUME D!ConstantsAssumption, NEW fs, NEW listing, NEW S,
         NEW h, Outcome(fs, listing, S, h),
         NEW r \in DOMAIN listing, r \notin Entries(fs, listing, S)
  PROVE  /\ D!Match(h, listing, r) = D!Match(fs, listing, r)
         /\ \A p \in D!Match(fs, listing, r) : h[p] = fs[p]
<1> DEFINE E == Entries(fs, listing, S)
           e == D!EnvelopeId(listing, r)
<1>1. /\ E \subseteq DOMAIN listing /\ D!Unclaimed(fs, listing)
      /\ Settled(fs, listing, E, h)
      /\ Paths(fs) /\ Paths(h)
  BY EntriesAre, PathsAfter DEF Outcome
<1>2. \A p \in D!Match(fs, listing, r) : p \in DOMAIN fs /\ p \in DOMAIN h /\ h[p] = fs[p]
  <2> TAKE p \in D!Match(fs, listing, r)
  <2>1. p \in DOMAIN fs
    BY <1>1, MatchKnowsOne
  <2>2. \A q \in E : p \notin D!Match(fs, listing, q)
    BY <1>1 DEF D!Unclaimed
  <2> HIDE DEF E
  <2> QED BY <1>1, <2>1, <2>2 DEF Settled
<1>3. \A key \in {r, e} : Holders(h, key) \subseteq Holders(fs, key)
  BY HoldersAfter
<1> HIDE DEF E, e
<1>4. ASSUME NEW key \in {r, e}, NEW p \in D!LocalIndex(fs, key), p \in D!Match(fs, listing, r)
      PROVE  D!LocalIndex(h, key) = {p}
  <2>1. p \in Holders(h, key)
    BY <1>2, <1>4, IndexIsHolder DEF Holders
  <2>2. p \in D!LocalIndex(h, key)
    BY <1>3, <2>1, IndexIsHolder
  <2> QED BY <1>1, <2>2, IndexKnowsOne
<1>5. ASSUME NEW key \in {r, e}, D!LocalIndex(fs, key) = {}
      PROVE  D!LocalIndex(h, key) = {}
  BY <1>1, <1>3, <1>5, IndexFinds, IndexIsHolder
<1>6. CASE D!LocalIndex(fs, r) # {}
  <2>1. PICK p \in D!LocalIndex(fs, r) : TRUE
    BY <1>6
  <2>2. D!Match(fs, listing, r) = {p}
    BY <1>1, <1>6, <2>1, MatchKnowsOne DEF D!Match
  <2>3. D!LocalIndex(h, r) = {p}
    BY <1>4, <2>1, <2>2
  <2>4. D!Match(h, listing, r) = {p}
    BY <2>3 DEF D!Match
  <2> QED BY <1>2, <2>2, <2>4
<1>7. CASE D!LocalIndex(fs, r) = {}
  <2>1. D!LocalIndex(h, r) = {}
    BY <1>5, <1>7
  <2>2. D!Match(fs, listing, r) = D!LocalIndex(fs, e) /\ D!Match(h, listing, r) = D!LocalIndex(h, e)
    BY <1>7, <2>1 DEF D!Match, e
  <2>3. CASE D!LocalIndex(fs, e) = {}
    BY <1>2, <1>5, <2>2, <2>3
  <2>4. ASSUME NEW p \in D!LocalIndex(fs, e) PROVE D!LocalIndex(h, e) = D!LocalIndex(fs, e)
    <3>1. D!Match(fs, listing, r) = {p}
      BY <1>1, <2>2, <2>4, MatchKnowsOne
    <3>2. D!LocalIndex(h, e) = {p}
      BY <1>4, <2>4, <3>1
    <3> QED BY <2>2, <3>1, <3>2
  <2> QED BY <1>2, <2>2, <2>3, <2>4
<1> QED BY <1>6, <1>7

\* A rule that was written leads to what was written of it.
LEMMA WrittenIsFound ==
  ASSUME D!ConstantsAssumption, NEW fs, NEW listing, NEW S,
         NEW h, Outcome(fs, listing, S, h),
         NEW r \in Entries(fs, listing, S)
  PROVE  \E p \in DOMAIN h : D!Match(h, listing, r) = {p} /\ h[p].payload = listing[r]
<1> DEFINE E == Entries(fs, listing, S)
           e == D!EnvelopeId(listing, r)
<1>1. /\ r \in DOMAIN listing /\ Settled(fs, listing, E, h) /\ Paths(fs) /\ Paths(h)
      /\ r # None
  BY EntriesAre, PathsAfter DEF Outcome
<1>2. ASSUME NEW p \in DOMAIN h, D!LocalIndex(h, r) = {p}
      PROVE D!Match(h, listing, r) = {p}
  BY <1>2 DEF D!Match
<1>3. CASE D!Match(fs, listing, r) = {}
  <2>1. e \in DOMAIN h /\ h[e] = D!Envelope(listing, r)
    BY <1>1, <1>3 DEF Settled, D!Added
  <2>2. h[e].arm = r /\ h[e].payload = listing[r]
    BY <2>1 DEF D!Envelope
  <2>3. e \in Holders(h, r)
    BY <1>1, <2>1, <2>2 DEF Holders, D!Keys
  <2>4. Holders(fs, r) = {}
    BY <1>1, <1>3, IndexFinds DEF D!Match
  <2>5. \A q \in Holders(h, r) : q = e
    BY <1>1, <1>3, <2>4, HoldersAfter
  <2> HIDE DEF e
  <2>6. e \in D!LocalIndex(h, r)
    BY <1>1, <2>1, <2>3, <2>5, IndexIsHolder, RanksDiffer DEF Paths
  <2>7. D!LocalIndex(h, r) = {e}
    BY <1>1, <2>6, IndexKnowsOne
  <2> QED BY <1>2, <2>1, <2>2, <2>7
<1>4. ASSUME NEW p \in D!Match(fs, listing, r)
      PROVE  \E q \in DOMAIN h : D!Match(h, listing, r) = {q} /\ h[q].payload = listing[r]
  <2>1. p \in DOMAIN fs /\ p \in DOMAIN h /\ D!Match(fs, listing, r) = {p}
    BY <1>1, MatchKnowsOne DEF Settled
  <2>2. h[p].arm = r /\ h[p].payload = listing[r]
    BY <1>1 DEF Settled
  <2>3. p \in Holders(h, r)
    BY <1>1, <2>1, <2>2 DEF Holders, D!Keys
  <2>4. \A q \in Holders(h, r) : q \in Holders(fs, r) \/ q = p
    BY <1>1, <2>1, HoldersAfter
  <2>5. \A q \in Holders(fs, r) : PathRank[p] <= PathRank[q]
    <3>1. CASE Holders(fs, r) = {}
      BY <3>1
    <3>2. CASE Holders(fs, r) # {}
      <4>1. D!LocalIndex(fs, r) # {}
        BY <1>1, <3>2, IndexFinds
      <4>2. p \in D!LocalIndex(fs, r)
        BY <4>1 DEF D!Match
      <4> QED BY <4>2, IndexIsHolder
    <3> QED BY <3>1, <3>2
  <2>6. p \in D!LocalIndex(h, r)
    BY <1>1, <2>1, <2>3, <2>4, <2>5, IndexIsHolder, RanksDiffer DEF Paths
  <2>7. D!LocalIndex(h, r) = {p}
    BY <1>1, <2>6, IndexKnowsOne
  <2> QED BY <1>2, <2>1, <2>2, <2>7
<1> QED BY <1>3, <1>4

\* The next listing finds in sync what was written, and the rest as it was.
LEMMA ImportRoundTrips ==
  ASSUME D!ConstantsAssumption, NEW fs, NEW listing, NEW S,
         NEW h, Outcome(fs, listing, S, h)
  PROVE  D!Drifted(h, listing) = D!Suppressed(fs, listing, S)
<1> DEFINE E == Entries(fs, listing, S)
<1>1. ASSUME NEW r \in E
      PROVE r \notin D!Drifted(h, listing) /\ r \notin D!Suppressed(fs, listing, S)
  <2>1. PICK p \in DOMAIN h : D!Match(h, listing, r) = {p} /\ h[p].payload = listing[r]
    BY WrittenIsFound
  <2>2. r \notin D!Drifted(h, listing)
    BY <2>1 DEF D!Drifted, D!Added, D!Changed
  <2> QED BY <2>2 DEF Entries
<1>2. ASSUME NEW r \in DOMAIN listing, r \notin E
      PROVE  r \in D!Drifted(h, listing) <=> r \in D!Suppressed(fs, listing, S)
  <2>1. /\ D!Match(h, listing, r) = D!Match(fs, listing, r)
        /\ \A p \in D!Match(fs, listing, r) : h[p] = fs[p]
    BY <1>2, UnwrittenStays
  <2>2. r \in D!Drifted(h, listing) <=> r \in D!Drifted(fs, listing)
    BY <2>1 DEF D!Drifted, D!Added, D!Changed
  <2> QED BY <1>2, <2>2 DEF Entries, D!Suppressed
<1>3. /\ D!Drifted(h, listing) \subseteq DOMAIN listing
      /\ D!Suppressed(fs, listing, S) \subseteq DOMAIN listing
  BY DEF D!Suppressed, D!Drifted, D!Added, D!Changed
<1> HIDE DEF E
<1> QED BY <1>1, <1>2, <1>3

\* Who answers to a key after the import.
LEMMA KeysAfter ==
  ASSUME D!ConstantsAssumption, NEW fs, NEW listing, NEW S,
         NEW h, Outcome(fs, listing, S, h),
         NEW p \in DOMAIN h, NEW k \in D!Keys(h[p])
  PROVE  \/ p \in Holders(fs, k)
         \/ k \in Entries(fs, listing, S) /\ p \in D!Match(fs, listing, k)
         \/ \E r \in Entries(fs, listing, S) :
              /\ D!Match(fs, listing, r) = {} /\ p = D!EnvelopeId(listing, r)
              /\ k \in {r, D!EnvelopeId(listing, r)}
<1> DEFINE E == Entries(fs, listing, S)
<1> HIDE DEF E
<1>1. \/ p \in DOMAIN fs /\ h[p] = fs[p]
      \/ \E q \in E :
           p \in D!Match(fs, listing, q) /\ p \in DOMAIN fs /\ D!Keys(h[p]) = {fs[p].id, q}
      \/ \E q \in E :
           D!Match(fs, listing, q) = {} /\ p = D!EnvelopeId(listing, q) /\ D!Keys(h[p]) = {p, q}
  BY Origins DEF E
<1> QED BY <1>1 DEF E, Holders, D!Keys

\* A key of two files before or after the import would be a key of two rules.
LEMMA KeysStayApart ==
  ASSUME D!ConstantsAssumption, NEW fs, NEW listing, NEW S,
         NEW h, Outcome(fs, listing, S, h),
         D!KeysApart(fs)
  PROVE  D!KeysApart(h)
<1> DEFINE E == Entries(fs, listing, S)
           e(r) == D!EnvelopeId(listing, r)
           ByMatch(p, k) == k \in E /\ p \in D!Match(fs, listing, k)
           ByName(p, k) == \E r \in E : D!Match(fs, listing, r) = {} /\ p = e(r) /\ k \in {r, e(r)}
<1>1. E \subseteq DOMAIN listing /\ D!Unclaimed(fs, listing) /\ Paths(fs)
  BY EntriesAre DEF Outcome
<1>2. \A p \in DOMAIN h : \A k \in D!Keys(h[p]) : p \in Holders(fs, k) \/ ByMatch(p, k) \/ ByName(p, k)
  BY KeysAfter
<1>3. \A k, p, q : p \in Holders(fs, k) /\ q \in Holders(fs, k) => p = q
  BY DEF Holders, D!KeysApart
<1>4. \A k, p, q : p \in Holders(fs, k) /\ ByMatch(q, k) => p = q
  <2> SUFFICES ASSUME NEW k, NEW p \in Holders(fs, k), NEW q \in D!Match(fs, listing, k) PROVE p = q
    OBVIOUS
  <2>1. D!LocalIndex(fs, k) # {}
    BY <1>1, IndexFinds
  <2>2. q \in Holders(fs, k)
    BY <2>1, IndexIsHolder DEF D!Match
  <2> QED BY <1>3, <2>2
<1>5. \A k, p, q : p \in Holders(fs, k) => ~ByName(q, k)
  <2> SUFFICES ASSUME NEW k, NEW p \in Holders(fs, k), NEW r, k \in {r, e(r)}
               PROVE  D!Match(fs, listing, r) # {}
    OBVIOUS
  <2>1. D!LocalIndex(fs, k) # {}
    BY <1>1, IndexFinds
  <2> QED BY <2>1 DEF D!Match
<1>6. \A k, p, q : ByMatch(p, k) /\ ByMatch(q, k) => p = q
  BY <1>1, MatchKnowsOne
<1>7. \A k, p, q : ByMatch(p, k) => ~ByName(q, k)
  <2> SUFFICES ASSUME NEW k \in E, NEW p \in D!Match(fs, listing, k), NEW r \in E,
                      D!Match(fs, listing, r) = {}, k \in {r, e(r)}
               PROVE  FALSE
    OBVIOUS
  <2>1. k = r
    BY <1>1 DEF D!Unclaimed
  <2> QED BY <2>1
<1>8. \A k, p, q : ByName(p, k) /\ ByName(q, k) => p = q
  <2> SUFFICES ASSUME NEW k, NEW r \in E, NEW x \in E, k \in {r, e(r)}, k \in {x, e(x)}
               PROVE  r = x
    OBVIOUS
  <2> QED BY <1>1 DEF D!Unclaimed
<1> HIDE DEF ByMatch, ByName
<1>9. ASSUME NEW p \in DOMAIN h, NEW q \in DOMAIN h, NEW k \in D!Keys(h[p]), k \in D!Keys(h[q])
      PROVE  p = q
  BY <1>2, <1>3, <1>4, <1>5, <1>6, <1>7, <1>8, <1>9
<1> QED BY <1>9 DEF D!KeysApart

------------------------------------------------------------------------------
(* Types. *)

\* A file before the bound on versions: only Open asks for that.
LooseFile ==
  [id : D!Ids, arm : D!Remotes \cup {None}, payload : D!Rule, owned : BOOLEAN,
   status : {"production", "deprecated"}, version : Nat]
Tenant(listing) == DOMAIN listing \subseteq D!Remotes /\ listing \in [DOMAIN listing -> D!Rule]

\* What no write undoes of the types: a file without an arm_name is one of fs as it
\* was, and a file keeps its id or has that of its path.
Drawn(fs, h) ==
  /\ DOMAIN h \subseteq D!Ids /\ h \in [DOMAIN h -> LooseFile]
  /\ DOMAIN fs \subseteq DOMAIN h
  /\ \A p \in DOMAIN h :
       /\ h[p].arm = None => p \in DOMAIN fs /\ h[p] = fs[p]
       /\ h[p].id = p \/ (p \in DOMAIN fs /\ h[p].id = fs[p].id)

LEMMA FileIsLoose ==
  ASSUME D!ConstantsAssumption
  PROVE  /\ \A f \in D!File : f \in LooseFile
         /\ \A f \in LooseFile : f.version <= MaxVersion => f \in D!File
<1>1. \A f \in D!File : f \in LooseFile
  BY DEF D!File, LooseFile
<1>2. \A f \in LooseFile : f.version <= MaxVersion => f \in D!File
  <2> SUFFICES ASSUME NEW f \in LooseFile, f.version <= MaxVersion PROVE f \in D!File
    OBVIOUS
  <2>1. f.version \in 0 .. MaxVersion
    BY DEF LooseFile, D!ConstantsAssumption
  <2> QED BY <2>1 DEF D!File, LooseFile
<1> QED BY <1>1, <1>2

LEMMA EnvelopeTyped ==
  ASSUME D!ConstantsAssumption, NEW listing, Tenant(listing), NEW r \in DOMAIN listing
  PROVE  /\ D!EnvelopeId(listing, r) \in D!Ids /\ r # None
         /\ D!Envelope(listing, r) \in LooseFile
<1>1. listing[r] \in D!Rule /\ r \in D!Remotes
  BY DEF Tenant
<1>2. listing[r].name \in Slugs /\ listing[r].enabled \in BOOLEAN
  BY <1>1 DEF D!Rule
<1>3. D!EnvelopeId(listing, r) \in D!Ids
  BY <1>1, <1>2 DEF D!EnvelopeId, D!Ids
<1>4. r # None
  BY <1>1, RanksDiffer
<1>5. D!Envelope(listing, r) \in LooseFile
  BY <1>1, <1>2, <1>3 DEF D!Envelope, LooseFile
<1> QED BY <1>3, <1>4, <1>5

LEMMA WriteDraws ==
  ASSUME D!ConstantsAssumption, NEW fs, Paths(fs), NEW listing, Tenant(listing),
         NEW h, Drawn(fs, h), NEW r \in DOMAIN listing
  PROVE  Drawn(fs, D!Write(h, fs, listing, r))
<1> DEFINE g == D!Write(h, fs, listing, r)
           e == D!EnvelopeId(listing, r)
           env == D!Envelope(listing, r)
<1>1. e \in D!Ids /\ r # None /\ env \in LooseFile
  BY EnvelopeTyped
<1>2. env.id = e /\ env.arm = r /\ Framed(env)
  BY DEF D!Envelope, Framed
<1>3. CASE D!Match(fs, listing, r) = {}
  <2>1. g = D!With(h, e, env)
    BY <1>3, WriteIs
  <2> HIDE DEF g, e, env
  <2>2. g \in [{e} \cup DOMAIN h -> LooseFile] /\ DOMAIN g = {e} \cup DOMAIN h
    BY <1>1, <2>1 DEF D!With, Drawn
  <2>3. g[e] = env /\ \A p \in DOMAIN h \ {e} : g[p] = h[p]
    BY <2>1 DEF D!With
  <2>4. ASSUME NEW p \in DOMAIN g
        PROVE  /\ g[p].arm = None => p \in DOMAIN fs /\ g[p] = fs[p]
               /\ g[p].id = p \/ (p \in DOMAIN fs /\ g[p].id = fs[p].id)
    <3>1. CASE p = e
      BY <1>1, <1>2, <2>3, <3>1
    <3>2. CASE p # e
      <4>1. p \in DOMAIN h /\ g[p] = h[p]
        BY <2>2, <2>3, <3>2
      <4> QED BY <4>1 DEF Drawn
    <3> QED BY <3>1, <3>2
  <2> QED BY <1>1, <2>2, <2>4 DEF Drawn, g
<1>4. ASSUME NEW p \in D!Match(fs, listing, r) PROVE Drawn(fs, g)
  <2>1. p \in DOMAIN fs /\ p \in DOMAIN h
    BY MatchKnowsOne DEF Drawn
  <2> DEFINE new == D!Preserve(env, h[p])
  <2>2. g = [h EXCEPT ![p] = new]
    <3>1. (CHOOSE q \in D!Match(fs, listing, r) : TRUE) = p
      BY MatchKnowsOne
    <3> QED BY <1>4, <3>1 DEF D!Write, D!WriteChanged
  <2>3. /\ Framed(new) /\ new.id = h[p].id /\ new.arm = r /\ new.payload = env.payload
        /\ new.owned = h[p].owned /\ new.status = env.status
        /\ new = h[p] \/ new.version = h[p].version + 1
    <3> HIDE DEF env
    <3> QED BY <1>2, PreserveIs
  <2> HIDE DEF new, g, env, e
  <2>4. h[p] \in LooseFile
    BY <2>1 DEF Drawn
  <2>5. new \in LooseFile
    <3>1. h[p].id \in D!Ids /\ h[p].owned \in BOOLEAN /\ h[p].version \in Nat
      BY <2>4 DEF LooseFile
    <3>2. /\ env.payload \in D!Rule /\ env.status \in {"production", "deprecated"}
          /\ env.arm \in D!Remotes \cup {None}
      BY <1>1 DEF LooseFile
    <3>3. new.version \in Nat
      BY <2>3, <3>1
    <3> QED BY <1>2, <2>3, <3>1, <3>2, <3>3 DEF LooseFile, Framed
  <2>6. g \in [DOMAIN h -> LooseFile] /\ DOMAIN g = DOMAIN h
        /\ g[p] = new /\ \A q \in DOMAIN h \ {p} : g[q] = h[q]
    BY <2>1, <2>2, <2>5 DEF Drawn
  <2>7. ASSUME NEW q \in DOMAIN g
        PROVE  /\ g[q].arm = None => q \in DOMAIN fs /\ g[q] = fs[q]
               /\ g[q].id = q \/ (q \in DOMAIN fs /\ g[q].id = fs[q].id)
    <3>1. CASE q = p
      BY <1>1, <2>1, <2>3, <2>6, <3>1 DEF Drawn
    <3>2. CASE q # p
      BY <2>6, <3>2 DEF Drawn
    <3> QED BY <3>1, <3>2
  <2> QED BY <2>6, <2>7 DEF Drawn, g
<1> QED BY <1>3, <1>4

LEMMA ImportDraws ==
  ASSUME D!ConstantsAssumption, NEW fs, D!FileMap(fs), NEW listing, Tenant(listing),
         IsFiniteSet(DOMAIN listing), NEW S, NEW order \in D!Orders(fs, listing, S)
  PROVE  Drawn(fs, D!Imported(fs, listing, order))
<1> DEFINE after == D!Writing(fs, listing, order)
<1>1. PICK n \in Nat : n = Len(order)
  BY OrderIs
<1>2. after[0] = fs /\ \A i \in 1 .. n : after[i] = D!Write(after[i - 1], fs, listing, order[i])
  BY <1>1, WritingIs
<1>3. \A i \in 1 .. n : order[i] \in DOMAIN listing
  BY <1>1, OrderIs, EntriesAre
<1>4. Paths(fs)
  BY DEF D!FileMap, Paths
<1> HIDE DEF after
<1> DEFINE Good == {i \in 0 .. n : Drawn(fs, after[i])}
<1>5. 0 \in Good
  <2>1. fs \in [DOMAIN fs -> LooseFile]
    BY FileIsLoose DEF D!FileMap
  <2>2. Drawn(fs, fs)
    BY <2>1 DEF Drawn, D!FileMap
  <2> QED BY <1>2, <2>2
<1>6. ASSUME NEW i \in 1 .. n, i - 1 \in Good PROVE i \in Good
  <2>1. Drawn(fs, after[i - 1]) /\ order[i] \in DOMAIN listing
    BY <1>3, <1>6
  <2> QED BY <1>2, <1>4, <2>1, WriteDraws
<1>7. n \in Good
  <2> HIDE DEF Good
  <2>1. \A i \in 1 .. n : i - 1 \in Good => i \in Good
    BY <1>6
  <2>2. \A i \in 0 .. n : i \in Good
    BY <1>5, <2>1, UpTo
  <2> QED BY <2>2
<1> QED BY <1>1, <1>7 DEF D!Imported, after

------------------------------------------------------------------------------
(* Merges. *)

FileShape(f) ==
  /\ Framed(f)
  /\ f.id \in D!Ids /\ f.arm \in D!Remotes \cup {None} /\ f.payload \in D!Rule
  /\ f.owned \in BOOLEAN
  /\ f.status \in {"production", "deprecated"} /\ f.version \in 0 .. MaxVersion

LEMMA FileIs == \A f : f \in D!File <=> FileShape(f)
BY DEF D!File, FileShape, Framed

LEMMA RuleIs ==
  \A r : r \in D!Rule <=>
    /\ r = [name |-> r.name, body |-> r.body, enabled |-> r.enabled]
    /\ r.name \in Slugs /\ r.body \in Bodies /\ r.enabled \in BOOLEAN
BY DEF D!Rule

LEMMA RulesMerged ==
  ASSUME NEW b \in D!Rule, NEW m \in D!Rule, NEW h \in D!Rule
  PROVE  D!FieldsMerged(b, m, h) \in D!Rule
<1> DEFINE r == D!FieldsMerged(b, m, h)
<1>1. DOMAIN b = {"name", "body", "enabled"}
  BY DEF D!Rule
<1>2. r = [name |-> r.name, body |-> r.body, enabled |-> r.enabled]
  BY <1>1 DEF D!FieldsMerged
<1>3. r.name \in Slugs /\ r.body \in Bodies /\ r.enabled \in BOOLEAN
  BY <1>1 DEF D!FieldsMerged, D!Merged, D!Rule
<1> QED BY <1>2, <1>3 DEF D!Rule

LEMMA PayloadSet ==
  ASSUME NEW f, NEW g, NEW y, Framed(f), g = [f EXCEPT !.payload = y]
  PROVE  g = [id |-> f.id, arm |-> f.arm, payload |-> y,
              owned |-> f.owned, status |-> f.status, version |-> f.version]
BY DEF Framed

LEMMA FilesMerged ==
  ASSUME NEW b \in D!File, NEW m \in D!File, NEW h \in D!File, D!Differ(b, m, h)
  PROVE  /\ D!Merge(b, m, h) \in D!File
         /\ D!Merge(b, m, h).id = D!Merged(b.id, m.id, h.id)
         /\ D!Merge(b, m, h).arm = D!Merged(b.arm, m.arm, h.arm)
<1> DEFINE fields == D!FieldsMerged(b, m, h)
           y == D!FieldsMerged(b.payload, m.payload, h.payload)
           new == [fields EXCEPT !.payload = y]
<1>1. D!Merge(b, m, h) = new
  BY DEF D!Merge
<1>2. DOMAIN b = {"id", "arm", "payload", "owned", "status", "version"}
  BY DEF D!File
<1>3. Framed(fields)
  BY <1>2 DEF D!FieldsMerged, Framed
<1>4. y \in D!Rule
  BY RulesMerged DEF D!File
<1>5. /\ fields.id \in D!Ids /\ fields.arm \in D!Remotes \cup {None}
      /\ fields.owned \in BOOLEAN
      /\ fields.status \in {"production", "deprecated"}
      /\ fields.version \in 0 .. MaxVersion
      /\ fields.id = D!Merged(b.id, m.id, h.id)
      /\ fields.arm = D!Merged(b.arm, m.arm, h.arm)
  <2>1. /\ fields.id = D!Merged(b.id, m.id, h.id)
        /\ fields.arm = D!Merged(b.arm, m.arm, h.arm)
        /\ fields.owned = D!Merged(b.owned, m.owned, h.owned)
        /\ fields.status = D!Merged(b.status, m.status, h.status)
        /\ fields.version = D!Merged(b.version, m.version, h.version)
    BY <1>2 DEF D!FieldsMerged
  <2> HIDE DEF fields
  <2>2. FileShape(b) /\ FileShape(m) /\ FileShape(h)
    BY FileIs
  <2> QED BY <2>1, <2>2 DEF FileShape, D!Merged
<1> HIDE DEF fields, y, new
<1>6. new = [id |-> fields.id, arm |-> fields.arm, payload |-> y,
             owned |-> fields.owned, status |-> fields.status, version |-> fields.version]
  BY <1>3, PayloadSet DEF new
<1>7. FileShape(new) /\ new.id = fields.id /\ new.arm = fields.arm
  BY <1>4, <1>5, <1>6 DEF FileShape, Framed
<1> QED BY <1>1, <1>5, <1>7, FileIs

LEMMA AtIs ==
  ASSUME D!ConstantsAssumption, NEW fs, D!FileMap(fs), NEW p
  PROVE  /\ p \in DOMAIN fs => D!At(fs, p) = fs[p] /\ fs[p] \in D!File
         /\ D!At(fs, p) = D!Absent \/ (p \in DOMAIN fs /\ D!At(fs, p) \in D!File)
         /\ D!Absent \notin D!File
<1>1. D!Absent \notin D!File
  BY RanksDiffer DEF D!Absent, D!File
<1> QED BY <1>1 DEF D!At, D!FileMap

\* What a merge leaves at a path is of one side, or field by field of three files.
LEMMA MergedAt ==
  ASSUME D!ConstantsAssumption, NEW base, D!FileMap(base), NEW main, D!FileMap(main),
         NEW head, D!FileMap(head),
         NEW p, ~D!Conflicts(D!At(base, p), D!At(main, p), D!At(head, p)),
         NEW f, f = D!Merge(D!At(base, p), D!At(main, p), D!At(head, p)), f # D!Absent
  PROVE  /\ f \in D!File
         /\ \/ p \in DOMAIN main /\ f = main[p]
            \/ p \in DOMAIN head /\ f = head[p]
            \/ /\ p \in DOMAIN base /\ p \in DOMAIN main /\ p \in DOMAIN head
               /\ head[p] # base[p]
               /\ f.id = D!Merged(base[p].id, main[p].id, head[p].id)
               /\ f.arm = D!Merged(base[p].arm, main[p].arm, head[p].arm)
<1> DEFINE b == D!At(base, p)
           m == D!At(main, p)
           h == D!At(head, p)
<1>1. /\ b = D!Absent \/ (p \in DOMAIN base /\ b \in D!File /\ b = base[p])
      /\ m = D!Absent \/ (p \in DOMAIN main /\ m \in D!File /\ m = main[p])
      /\ h = D!Absent \/ (p \in DOMAIN head /\ h \in D!File /\ h = head[p])
  BY AtIs
<1> HIDE DEF b, m, h
<1>2. ~D!Conflicts(b, m, h) /\ f = D!Merge(b, m, h)
  BY DEF b, m, h
<1>3. CASE ~D!Differ(b, m, h)
  <2>1. f \in {m, h}
    BY <1>2, <1>3 DEF D!Merge, D!Merged
  <2> QED BY <1>1, <2>1
<1>4. CASE D!Differ(b, m, h)
  <2>1. b # D!Absent /\ m # D!Absent /\ h # D!Absent
    BY <1>2, <1>4 DEF D!Conflicts
  <2>2. b \in D!File /\ m \in D!File /\ h \in D!File
    BY <1>1, <2>1
  <2>3. h # b
    BY <1>4 DEF D!Differ
  <2> QED BY <1>1, <1>2, <1>4, <2>1, <2>2, <2>3, FilesMerged
<1> QED BY <1>3, <1>4

------------------------------------------------------------------------------
(* The steps. *)

\* The invariant in parts: the files, the tenant, the open pull requests.
FilesOK(fs) == D!FileMap(fs) /\ D!Authored(fs)
TenantOK(listing) == Tenant(listing) /\ IsFiniteSet(DOMAIN listing)
PrOK(pr) ==
  /\ pr = [base |-> pr.base, head |-> pr.head]
  /\ FilesOK(pr.base) /\ D!FileMap(pr.head) /\ D!HeadOfBase(pr.base, pr.head)
PrsOK(ps) == ps = [l \in D!Lanes |-> ps[l]] /\ \A l \in D!Lanes : PrOK(ps[l])

LEMMA Parts ==
  ASSUME D!IInv
  PROVE  FilesOK(files) /\ TenantOK(tenant) /\ PrsOK(prs) /\ off \subseteq D!Remotes
BY SameFinite DEF D!IInv, D!TypeOK, FilesOK, TenantOK, PrsOK, PrOK, Tenant

LEMMA Whole ==
  ASSUME FilesOK(files), TenantOK(tenant), PrsOK(prs), off \subseteq D!Remotes
  PROVE  D!IInv
<1>1. prs = [l \in D!Lanes |-> [base |-> prs[l].base, head |-> prs[l].head]]
  BY DEF PrsOK, PrOK
<1> QED BY <1>1, SameFinite DEF D!IInv, D!TypeOK, FilesOK, TenantOK, PrsOK, PrOK, Tenant

LEMMA WholeAfter ==
  ASSUME FilesOK(files'), TenantOK(tenant'), PrsOK(prs'), off' \subseteq D!Remotes
  PROVE  D!IInv'
<1>1. prs' = [l \in D!Lanes |-> [base |-> prs'[l].base, head |-> prs'[l].head]]
  BY DEF PrsOK, PrOK
<1> QED BY <1>1, SameFinite DEF D!IInv, D!TypeOK, FilesOK, TenantOK, PrsOK, PrOK, Tenant

LEMMA NothingYet == FilesOK(<<>>) /\ PrOK(D!NoPr)
<1>1. DOMAIN <<>> = {} /\ <<>> \in [DOMAIN <<>> -> D!File]
  OBVIOUS
<1>2. FilesOK(<<>>)
  BY <1>1 DEF FilesOK, D!FileMap, D!Authored
<1>3. D!HeadOfBase(<<>>, <<>>)
  BY <1>1 DEF D!HeadOfBase
<1> QED BY <1>2, <1>3 DEF PrOK, D!NoPr, FilesOK

LEMMA StartOK == D!Init => D!IInv
<1> SUFFICES ASSUME D!Init PROVE D!IInv
  OBVIOUS
<1>1. FilesOK(files)
  BY NothingYet DEF D!Init
<1>2. TenantOK(tenant)
  <2>1. tenant = <<>> /\ DOMAIN tenant = {} /\ tenant \in [DOMAIN tenant -> D!Rule]
    BY DEF D!Init
  <2> QED BY <2>1, FS_EmptySet DEF TenantOK, Tenant
<1>3. PrsOK(prs) /\ off \subseteq D!Remotes
  BY NothingYet DEF D!Init, PrsOK
<1> QED BY <1>1, <1>2, <1>3, Whole

LEMMA OpenOK ==
  ASSUME D!ConstantsAssumption, D!IInv, NEW l \in D!Lanes, NEW fs,
         NEW head, Drawn(fs, head),
         fs = files \/ DOMAIN fs = {}, D!Open(l, head)
  PROVE  D!IInv'
<1>1. FilesOK(files) /\ TenantOK(tenant) /\ PrsOK(prs) /\ off \subseteq D!Remotes
  BY Parts
<1>2. D!FileMap(head)
  <2>1. \A p \in DOMAIN head : head[p] \in D!File
    BY FileIsLoose DEF Drawn, D!Open
  <2> QED BY <2>1 DEF Drawn, D!FileMap
<1>3. D!HeadOfBase(files, head)
  BY DEF Drawn, D!HeadOfBase
<1> DEFINE pr == [base |-> files, head |-> head]
<1>4. PrOK(pr)
  BY <1>1, <1>2, <1>3 DEF PrOK
<1> HIDE DEF pr
<1>5. prs' = [prs EXCEPT ![l] = pr] \/ prs' = prs
  <2>1. prs' = [prs EXCEPT ![l] = IF head = files THEN @ ELSE pr]
    BY DEF D!Open, pr
  <2>2. [prs EXCEPT ![l] = prs[l]] = prs
    BY <1>1 DEF PrsOK
  <2> QED BY <2>1, <2>2
<1>6. PrsOK(prs')
  BY <1>1, <1>4, <1>5 DEF PrsOK
<1>7. FilesOK(files') /\ TenantOK(tenant') /\ off' \subseteq D!Remotes
  BY <1>1 DEF D!Open
<1> QED BY <1>6, <1>7, WholeAfter

LEMMA ImportOK ==
  ASSUME D!ConstantsAssumption, D!IInv, NEW l \in D!Lanes, NEW S, D!Import(l, S)
  PROVE  D!IInv'
<1>1. PICK order \in D!Orders(files, tenant, S) : D!Open(l, D!Imported(files, tenant, order))
  BY DEF D!Import
<1>2. Drawn(files, D!Imported(files, tenant, order))
  BY Parts, ImportDraws DEF FilesOK, TenantOK
<1> QED BY <1>1, <1>2, OpenOK

LEMMA CollectClearOK ==
  ASSUME D!ConstantsAssumption, D!IInv, D!CollectClear
  PROVE  D!IInv'
<1> DEFINE none == <<>>
<1>1. D!FileMap(none) /\ DOMAIN none = {}
  BY NothingYet DEF FilesOK
<1> HIDE DEF none
<1>2. PICK order \in D!Orders(none, tenant, {}) : D!Open("collect", D!Imported(none, tenant, order))
  BY DEF D!CollectClear, none
<1>3. Drawn(none, D!Imported(none, tenant, order))
  BY <1>1, Parts, ImportDraws DEF TenantOK
<1>4. "collect" \in D!Lanes
  BY DEF D!Lanes
<1> QED BY <1>1, <1>2, <1>3, <1>4, OpenOK

LEMMA MergePrOK ==
  ASSUME D!ConstantsAssumption, D!IInv, NEW l \in D!Lanes, D!MergePr(l)
  PROVE  D!IInv'
<1> DEFINE base == prs[l].base
           head == prs[l].head
           paths == DOMAIN files \cup DOMAIN base \cup DOMAIN head
           merged == [p \in paths |-> D!Merge(D!At(base, p), D!At(files, p), D!At(head, p))]
<1>1. FilesOK(files) /\ TenantOK(tenant) /\ PrsOK(prs) /\ off \subseteq D!Remotes
  BY Parts
<1>2. /\ FilesOK(base) /\ D!FileMap(head) /\ D!HeadOfBase(base, head)
      /\ D!FileMap(files) /\ D!FileMap(base)
  BY <1>1 DEF PrsOK, PrOK, FilesOK
<1>3. /\ \A p \in paths : ~D!Conflicts(D!At(base, p), D!At(files, p), D!At(head, p))
      /\ files' = [p \in {q \in paths : merged[q] # D!Absent} |-> merged[p]]
      /\ prs' = [prs EXCEPT ![l] = D!NoPr] /\ tenant' = tenant /\ off' = off
  BY DEF D!MergePr
<1>4. paths \subseteq D!Ids
  BY <1>2 DEF D!FileMap
<1>5. \A p \in DOMAIN files' :
        /\ p \in paths
        /\ files'[p] = D!Merge(D!At(base, p), D!At(files, p), D!At(head, p))
        /\ files'[p] # D!Absent
  BY <1>3
<1>6. files' = [p \in DOMAIN files' |-> files'[p]]
  BY <1>3
<1> HIDE DEF base, head, paths, merged
<1>7. ASSUME NEW p \in DOMAIN files'
      PROVE  /\ files'[p] \in D!File
             /\ \/ p \in DOMAIN files /\ files'[p] = files[p]
                \/ p \in DOMAIN head /\ files'[p] = head[p]
                \/ /\ p \in DOMAIN base /\ p \in DOMAIN files /\ p \in DOMAIN head
                   /\ head[p] # base[p]
                   /\ files'[p].id = D!Merged(base[p].id, files[p].id, head[p].id)
                   /\ files'[p].arm = D!Merged(base[p].arm, files[p].arm, head[p].arm)
  <2> DEFINE f == files'[p]
  <2>1. /\ ~D!Conflicts(D!At(base, p), D!At(files, p), D!At(head, p))
        /\ f = D!Merge(D!At(base, p), D!At(files, p), D!At(head, p)) /\ f # D!Absent
    BY <1>3, <1>5
  <2> HIDE DEF f
  <2>2. /\ f \in D!File
        /\ \/ p \in DOMAIN files /\ f = files[p]
           \/ p \in DOMAIN head /\ f = head[p]
           \/ /\ p \in DOMAIN base /\ p \in DOMAIN files /\ p \in DOMAIN head
              /\ head[p] # base[p]
              /\ f.id = D!Merged(base[p].id, files[p].id, head[p].id)
              /\ f.arm = D!Merged(base[p].arm, files[p].arm, head[p].arm)
    BY <1>2, <2>1, MergedAt
  <2> QED BY <2>2 DEF f
<1>8. D!FileMap(files')
  BY <1>4, <1>5, <1>6, <1>7 DEF D!FileMap
<1>9. D!Authored(files')
  <2> SUFFICES ASSUME NEW p \in DOMAIN files', files'[p].arm = None
               PROVE  p \in Slugs /\ files'[p].id = p
    BY DEF D!Authored
  <2>1. CASE p \in DOMAIN files /\ files'[p] = files[p]
    BY <1>1, <2>1 DEF FilesOK, D!Authored
  <2>2. CASE p \in DOMAIN head /\ files'[p] = head[p]
    BY <1>2, <2>2 DEF FilesOK, D!Authored, D!HeadOfBase
  <2>3. CASE /\ p \in DOMAIN base /\ p \in DOMAIN files /\ p \in DOMAIN head
             /\ head[p] # base[p]
             /\ files'[p].id = D!Merged(base[p].id, files[p].id, head[p].id)
             /\ files'[p].arm = D!Merged(base[p].arm, files[p].arm, head[p].arm)
    <3>1. head[p].arm # None /\ head[p].id \in {base[p].id, p}
      BY <1>2, <2>3 DEF D!HeadOfBase
    <3>2. files[p].arm = None
      BY <2>3, <3>1 DEF D!Merged
    <3>3. p \in Slugs /\ files[p].id = p
      BY <1>1, <2>3, <3>2 DEF FilesOK, D!Authored
    <3> QED BY <2>3, <3>1, <3>3 DEF D!Merged
  <2> QED BY <1>7, <2>1, <2>2, <2>3
<1>10. PrsOK(prs')
  BY <1>1, <1>3, NothingYet DEF PrsOK
<1>11. FilesOK(files')
  BY <1>8, <1>9 DEF FilesOK
<1> QED BY <1>1, <1>3, <1>10, <1>11, WholeAfter

LEMMA SwitchSet ==
  ASSUME NEW r \in D!Rule, NEW v \in BOOLEAN, NEW g, g = [r EXCEPT !.enabled = v]
  PROVE  g \in D!Rule
BY DEF D!Rule

LEMMA PortalOK ==
  ASSUME D!ConstantsAssumption, D!IInv, D!Portal,
         \/ \E g \in Guids : D!CreateInPortal(g)
         \/ \E r \in DOMAIN tenant :
              D!EditInPortal(r) \/ D!RenameInPortal(r) \/ D!SwitchInPortal(r) \/ D!DeleteInPortal(r)
  PROVE  D!IInv'
<1>1. FilesOK(files) /\ TenantOK(tenant) /\ PrsOK(prs) /\ off \subseteq D!Remotes
  BY Parts
<1>2. FilesOK(files') /\ PrsOK(prs')
  BY <1>1 DEF D!Portal
<1>3. DOMAIN tenant \subseteq D!Remotes /\ IsFiniteSet(DOMAIN tenant)
      /\ tenant \in [DOMAIN tenant -> D!Rule]
  BY <1>1 DEF TenantOK, Tenant
<1>4. ASSUME NEW g \in Guids, D!CreateInPortal(g)
      PROVE  TenantOK(tenant') /\ off' \subseteq D!Remotes
  <2>1. PICK s \in Slugs, b \in Bodies :
          tenant' = D!With(tenant, g, [name |-> s, body |-> b, enabled |-> TRUE])
    BY <1>4 DEF D!CreateInPortal
  <2>2. [name |-> s, body |-> b, enabled |-> TRUE] \in D!Rule
    BY DEF D!Rule
  <2>3. DOMAIN tenant' = DOMAIN tenant \cup {g} /\ tenant' \in [DOMAIN tenant' -> D!Rule]
    BY <1>3, <2>1, <2>2 DEF D!With
  <2>4. IsFiniteSet(DOMAIN tenant')
    BY <1>3, <2>3, FS_AddElement
  <2> QED BY <1>1, <1>3, <1>4, <2>3, <2>4 DEF TenantOK, Tenant, D!Remotes, D!CreateInPortal
<1>5. ASSUME NEW r \in DOMAIN tenant, NEW new \in D!Rule, tenant' = [tenant EXCEPT ![r] = new]
      PROVE  TenantOK(tenant')
  BY <1>3, <1>5 DEF TenantOK, Tenant
<1>6. ASSUME NEW r \in DOMAIN tenant, D!EditInPortal(r)
      PROVE  TenantOK(tenant') /\ off' \subseteq D!Remotes
  <2>1. PICK b \in Bodies : tenant' = [tenant EXCEPT ![r].body = b]
    BY <1>6 DEF D!EditInPortal
  <2>2. [tenant[r] EXCEPT !.body = b] \in D!Rule
    BY <1>3 DEF D!Rule
  <2> QED BY <1>1, <1>5, <1>6, <2>1, <2>2 DEF D!EditInPortal
<1>7. ASSUME NEW r \in DOMAIN tenant, D!RenameInPortal(r)
      PROVE  TenantOK(tenant') /\ off' \subseteq D!Remotes
  <2>1. PICK s \in Slugs : tenant' = [tenant EXCEPT ![r].name = s]
    BY <1>7 DEF D!RenameInPortal
  <2>2. [tenant[r] EXCEPT !.name = s] \in D!Rule
    BY <1>3 DEF D!Rule
  <2> QED BY <1>1, <1>5, <1>7, <2>1, <2>2 DEF D!RenameInPortal
<1>8. ASSUME NEW r \in DOMAIN tenant, D!SwitchInPortal(r)
      PROVE  TenantOK(tenant') /\ off' \subseteq D!Remotes
  <2> DEFINE v == ~tenant[r].enabled
             new == [tenant[r] EXCEPT !.enabled = v]
  <2>1. tenant' = [tenant EXCEPT ![r] = new] /\ off' = off \cup {r}
    BY <1>8 DEF D!SwitchInPortal
  <2>2. tenant[r] \in D!Rule /\ v \in BOOLEAN
    BY <1>3
  <2> HIDE DEF v
  <2>3. new \in D!Rule
    BY <2>2, SwitchSet
  <2> HIDE DEF new
  <2> QED BY <1>1, <1>3, <1>5, <2>1, <2>3
<1>9. ASSUME NEW r \in DOMAIN tenant, D!DeleteInPortal(r)
      PROVE  TenantOK(tenant') /\ off' \subseteq D!Remotes
  <2>1. DOMAIN tenant' = DOMAIN tenant \ {r} /\ tenant' \in [DOMAIN tenant' -> D!Rule]
    BY <1>3, <1>9 DEF D!DeleteInPortal
  <2>2. IsFiniteSet(DOMAIN tenant')
    BY <1>3, <2>1, FS_Subset
  <2> QED BY <1>1, <1>3, <1>9, <2>1, <2>2 DEF TenantOK, Tenant, D!DeleteInPortal
<1>10. TenantOK(tenant') /\ off' \subseteq D!Remotes
  BY <1>4, <1>6, <1>7, <1>8, <1>9
<1> QED BY <1>2, <1>10, WholeAfter

LEMMA EditedIs ==
  ASSUME NEW f \in D!File, f.version < MaxVersion, D!ConstantsAssumption,
         NEW b \in Bodies,
         NEW g, g = D!Edited(f, b)
  PROVE  g \in D!File /\ g.id = f.id /\ g.arm = f.arm
<1> DEFINE y == [f.payload EXCEPT !.body = b]
<1>1. FileShape(f) /\ MaxVersion \in Nat
  BY FileIs DEF D!ConstantsAssumption
<1>2. y \in D!Rule
  BY <1>1 DEF FileShape, D!Rule
<1>3. g = [f EXCEPT !.payload = y, !.owned = TRUE, !.version = f.version + 1]
  BY DEF D!Edited
<1> HIDE DEF y
<1>4. g = [id |-> f.id, arm |-> f.arm, payload |-> y, owned |-> TRUE,
           status |-> f.status, version |-> f.version + 1]
  BY <1>1, <1>3 DEF FileShape, Framed
<1>5. f.version + 1 \in 0 .. MaxVersion
  BY <1>1 DEF FileShape
<1>6. FileShape(g)
  BY <1>1, <1>2, <1>4, <1>5 DEF FileShape, Framed
<1> QED BY <1>4, <1>6, FileIs

LEMMA TurnedIs ==
  ASSUME NEW f \in D!File, f.version < MaxVersion, D!ConstantsAssumption,
         NEW status \in {"production", "deprecated"}, NEW g, g = D!Turned(f, status)
  PROVE  g \in D!File /\ g.id = f.id /\ g.arm = f.arm
<1>1. FileShape(f) /\ MaxVersion \in Nat
  BY FileIs DEF D!ConstantsAssumption
<1>2. g = [f EXCEPT !.status = status, !.version = f.version + 1]
  BY DEF D!Turned
<1>3. g = [id |-> f.id, arm |-> f.arm, payload |-> f.payload, owned |-> f.owned,
           status |-> status, version |-> f.version + 1]
  BY <1>1, <1>2 DEF FileShape, Framed
<1>4. f.version + 1 \in 0 .. MaxVersion
  BY <1>1 DEF FileShape
<1>5. FileShape(g)
  BY <1>1, <1>3, <1>4 DEF FileShape, Framed
<1> QED BY <1>3, <1>5, FileIs

LEMMA SentIs ==
  ASSUME NEW f \in D!File
  PROVE  D!Sent(f) \in D!Rule
<1> DEFINE v == f.payload.enabled /\ f.status # "deprecated"
           g == [f.payload EXCEPT !.enabled = v]
<1>1. D!Sent(f) = g
  BY DEF D!Sent
<1>2. f.payload \in D!Rule /\ v \in BOOLEAN
  BY FileIs, RuleIs DEF FileShape
<1> HIDE DEF v
<1>3. g \in D!Rule
  BY <1>2, SwitchSet
<1> QED BY <1>1, <1>3

LEMMA GitOK ==
  ASSUME D!ConstantsAssumption, D!IInv, D!Git,
         \/ \E s \in Slugs : D!Author(s)
         \/ \E r \in DOMAIN tenant : D!ResolveRemote(r)
         \/ \E p \in DOMAIN files : D!EditFile(p) \/ D!Disable(p) \/ D!Enable(p) \/ D!Deploy(p)
  PROVE  D!IInv'
<1>1. FilesOK(files) /\ TenantOK(tenant) /\ PrsOK(prs) /\ off \subseteq D!Remotes
  BY Parts
<1>2. PrsOK(prs') /\ off' \subseteq D!Remotes
  BY <1>1 DEF D!Git
<1>3. DOMAIN files \subseteq D!Ids /\ files \in [DOMAIN files -> D!File]
      /\ \A p \in DOMAIN files : files[p].arm = None => p \in Slugs /\ files[p].id = p
  BY <1>1 DEF FilesOK, D!FileMap, D!Authored
<1>4. ASSUME NEW p \in D!Ids, NEW f \in D!File, f.arm = None => p \in Slugs /\ f.id = p,
             files' = D!With(files, p, f)
      PROVE  FilesOK(files')
  <2>1. /\ DOMAIN files' = {p} \cup DOMAIN files /\ files' \in [DOMAIN files' -> D!File]
        /\ files'[p] = f /\ \A q \in DOMAIN files \ {p} : files'[q] = files[q]
    BY <1>3, <1>4 DEF D!With
  <2>2. ASSUME NEW q \in DOMAIN files', files'[q].arm = None PROVE q \in Slugs /\ files'[q].id = q
    <3>1. CASE q = p
      BY <1>4, <2>1, <2>2, <3>1
    <3>2. CASE q # p
      BY <1>3, <2>1, <2>2, <3>2
    <3> QED BY <3>1, <3>2
  <2> QED BY <1>3, <2>1, <2>2 DEF FilesOK, D!FileMap, D!Authored
<1>5. ASSUME NEW p \in DOMAIN files, NEW f \in D!File, f.id = files[p].id, f.arm = files[p].arm,
             files' = [files EXCEPT ![p] = f]
      PROVE  FilesOK(files')
  <2>1. /\ DOMAIN files' = DOMAIN files /\ files' \in [DOMAIN files -> D!File]
        /\ files'[p] = f /\ \A q \in DOMAIN files \ {p} : files'[q] = files[q]
    BY <1>3, <1>5
  <2> QED BY <1>3, <1>5, <2>1 DEF FilesOK, D!FileMap, D!Authored
<1>6. ASSUME NEW s \in Slugs, D!Author(s) PROVE FilesOK(files') /\ TenantOK(tenant')
  <2>1. PICK b \in Bodies :
          files' = D!With(files, s,
            [id |-> s, arm |-> None, payload |-> [name |-> s, body |-> b, enabled |-> TRUE],
             owned |-> TRUE, status |-> "production", version |-> 0])
    BY <1>6 DEF D!Author
  <2> DEFINE f == [id |-> s, arm |-> None,
                   payload |-> [name |-> s, body |-> b, enabled |-> TRUE],
                   owned |-> TRUE, status |-> "production", version |-> 0]
  <2>2. f \in D!File /\ f.id = s /\ s \in D!Ids
    <3>1. [name |-> s, body |-> b, enabled |-> TRUE] \in D!Rule
      BY DEF D!Rule
    <3>2. 0 \in 0 .. MaxVersion
      BY DEF D!ConstantsAssumption
    <3> QED BY <3>1, <3>2 DEF D!File, D!Ids
  <2>3. files' = D!With(files, s, f)
    BY <2>1
  <2> HIDE DEF f
  <2> QED BY <1>1, <1>4, <1>6, <2>2, <2>3 DEF D!Author
<1>7. ASSUME NEW r \in DOMAIN tenant, D!ResolveRemote(r)
      PROVE FilesOK(files') /\ TenantOK(tenant')
  <2> DEFINE target == D!LocalIndex(files, D!EnvelopeId(tenant, r))
             path == IF target = {} THEN D!EnvelopeId(tenant, r) ELSE CHOOSE p \in target : TRUE
             env == D!Envelope(tenant, r)
  <2>1. D!EnvelopeId(tenant, r) \in D!Ids /\ r # None /\ env \in LooseFile
    BY <1>1, EnvelopeTyped DEF TenantOK
  <2>2. env.arm = r /\ env.version = 0
    BY DEF D!Envelope
  <2>3. files' = D!With(files, path, env) /\ tenant' = tenant
    BY <1>7 DEF D!ResolveRemote
  <2>4. path \in D!Ids
    <3>1. \A p \in target : p \in D!Ids
      BY <1>3 DEF D!LocalIndex
    <3> HIDE DEF target
    <3> QED BY <2>1, <3>1
  <2> HIDE DEF path, env
  <2>5. env \in D!File
    <3>1. env.version <= MaxVersion
      BY <2>2 DEF D!ConstantsAssumption
    <3> QED BY <2>1, <3>1, FileIsLoose
  <2> QED BY <1>1, <1>4, <2>1, <2>2, <2>3, <2>4, <2>5
<1>8. ASSUME NEW p \in DOMAIN files, D!EditFile(p)
      PROVE FilesOK(files') /\ TenantOK(tenant')
  <2>1. PICK b \in Bodies : files' = [files EXCEPT ![p] = D!Edited(files[p], b)]
    BY <1>8 DEF D!EditFile
  <2>2. files[p] \in D!File /\ files[p].version < MaxVersion /\ tenant' = tenant
    BY <1>3, <1>8 DEF D!EditFile
  <2> DEFINE g == D!Edited(files[p], b)
  <2>3. g \in D!File /\ g.id = files[p].id /\ g.arm = files[p].arm
    BY <2>2, EditedIs
  <2> HIDE DEF g
  <2>4. files' = [files EXCEPT ![p] = g]
    BY <2>1 DEF g
  <2> QED BY <1>1, <1>5, <2>2, <2>3, <2>4
<1>9. ASSUME NEW p \in DOMAIN files, D!Disable(p) \/ D!Enable(p)
      PROVE FilesOK(files') /\ TenantOK(tenant')
  <2>1. PICK status \in {"production", "deprecated"} :
          files' = [files EXCEPT ![p] = D!Turned(files[p], status)]
    BY <1>9 DEF D!Disable, D!Enable
  <2>2. files[p] \in D!File /\ files[p].version < MaxVersion /\ tenant' = tenant
    BY <1>3, <1>9 DEF D!Disable, D!Enable
  <2> DEFINE g == D!Turned(files[p], status)
  <2>3. g \in D!File /\ g.id = files[p].id /\ g.arm = files[p].arm
    BY <2>2, TurnedIs
  <2> HIDE DEF g
  <2>4. files' = [files EXCEPT ![p] = g]
    BY <2>1 DEF g
  <2> QED BY <1>1, <1>5, <2>2, <2>3, <2>4
<1>10. ASSUME NEW p \in DOMAIN files, D!Deploy(p)
       PROVE FilesOK(files') /\ TenantOK(tenant')
  <2> DEFINE r == D!RemoteOf(files[p])
  <2>1. r \in D!Remotes
    BY <1>3 DEF D!RemoteOf, D!File, D!Remotes
  <2>2. D!Sent(files[p]) \in D!Rule
    BY <1>3, SentIs
  <2>3. tenant' = D!With(tenant, r, D!Sent(files[p])) /\ files' = files
    BY <1>10 DEF D!Deploy
  <2> HIDE DEF r
  <2>4. DOMAIN tenant' = DOMAIN tenant \cup {r} /\ tenant' \in [DOMAIN tenant' -> D!Rule]
    BY <1>1, <2>2, <2>3 DEF D!With, TenantOK, Tenant
  <2>5. IsFiniteSet(DOMAIN tenant')
    BY <1>1, <2>4, FS_AddElement DEF TenantOK
  <2> QED BY <1>1, <2>1, <2>3, <2>4, <2>5 DEF TenantOK, Tenant
<1>11. FilesOK(files') /\ TenantOK(tenant')
  BY <1>6, <1>7, <1>8, <1>9, <1>10
<1> QED BY <1>2, <1>11, WholeAfter

LEMMA StepOK ==
  ASSUME D!ConstantsAssumption, D!IInv, [D!Next]_(D!vars)
  PROVE  D!IInv'
<1>1. ASSUME NEW l \in D!Lanes, D!MergePr(l) PROVE D!IInv'
  BY <1>1, MergePrOK
<1>2. ASSUME NEW l \in D!Lanes, NEW S, D!Import(l, S) PROVE D!IInv'
  BY <1>2, ImportOK
<1>3. CASE D!CollectClear
  BY <1>3, CollectClearOK
<1>4. CASE UNCHANGED D!vars
  BY <1>4, Parts, WholeAfter DEF D!vars
<1> QED BY <1>1, <1>2, <1>3, <1>4, PortalOK, GitOK DEF D!Next

\* Every file of main, of a base and of a head stays a file, and a file without an
\* arm_name stands under a plain slug that is its id, so that a deploy never sends a
\* rule under a suffixed id: what Author writes, imports and merges keep.
THEOREM DriftTyped == ASSUME D!ConstantsAssumption PROVE D!Spec => []D!IInv
<1>1. D!Init => D!IInv
  BY StartOK
<1>2. D!IInv /\ [D!Next]_(D!vars) => D!IInv'
  BY StepOK
<1> QED BY <1>1, <1>2, PTL DEF D!Spec

------------------------------------------------------------------------------
(* What an import promises. *)

\* An import step is Imported of the checkout and the tenant of now.
LEMMA ImportOutcome ==
  ASSUME D!ConstantsAssumption, D!IInv, NEW l \in D!Lanes, NEW S, D!ImportStep(l, S)
  PROVE  /\ D!AtHome(files) => KeptFrom(files, D!Result(l))
         /\ D!AtHome(files) /\ D!Unclaimed(files, tenant) => Outcome(files, tenant, S, D!Result(l))
<1>1. FilesOK(files) /\ TenantOK(tenant) /\ PrsOK(prs)
  BY Parts
<1>2. PICK order \in D!Orders(files, tenant, S) : D!Open(l, D!Imported(files, tenant, order))
  BY DEF D!ImportStep, D!Import
<1> DEFINE head == D!Imported(files, tenant, order)
<1>3. D!Result(l) = head
  <2>1. prs' = [prs EXCEPT ![l] = IF head = files THEN @ ELSE [base |-> files, head |-> head]]
    BY <1>2 DEF D!Open
  <2> HIDE DEF head
  <2>2. prs'[l] = IF head = files THEN prs[l] ELSE [base |-> files, head |-> head]
    BY <1>1, <2>1 DEF PrsOK
  <2>3. prs'[l] = [base |-> files, head |-> head]
    BY <2>2 DEF D!ImportStep
  <2> QED BY <2>3 DEF D!Result
<1>4. Paths(files) /\ Versions(files)
  BY <1>1 DEF FilesOK, D!FileMap, Paths, Versions, D!File
<1>5. IsFiniteSet(DOMAIN tenant) /\ Tenant(tenant)
  BY <1>1 DEF TenantOK
<1>6. Len(order) \in Nat
  BY <1>5, OrderIs
<1>7. ASSUME D!AtHome(files) PROVE KeptFrom(files, head)
  BY <1>4, <1>6, <1>7, ImportKeeps
<1>8. ASSUME D!AtHome(files), D!Unclaimed(files, tenant)
      PROVE Outcome(files, tenant, S, head)
  <2>1. Settled(files, tenant, Entries(files, tenant, S), head)
    BY <1>4, <1>5, <1>8, ImportSettles
  <2>2. \A r \in DOMAIN tenant : r # None /\ D!EnvelopeId(tenant, r) \in D!Ids
    BY <1>5, EnvelopeTyped
  <2> HIDE DEF head
  <2> QED BY <1>4, <1>8, <2>1, <2>2 DEF Outcome
<1> HIDE DEF head
<1> QED BY <1>3, <1>7, <1>8

\* An import never removes a file, renames it, drops what its operator wrote or changes
\* it under the version it had, in whatever order the entries are written and however
\* many rules lead to it (_preserve_operator_fields and the version bump of write_drift).
THEOREM ImportsKeepFiles == ASSUME D!ConstantsAssumption PROVE D!Spec => D!ImportKeepsFiles
<1> DEFINE Keeps ==
      \A l \in D!Lanes, S \in Suppressions : D!ImportStep(l, S) /\ D!AtHome(files) =>
        \A p \in DOMAIN files :
          /\ p \in DOMAIN D!Result(l)
          /\ D!Result(l)[p].id = files[p].id
          /\ files[p].owned => D!Result(l)[p].owned
          /\ D!Result(l)[p] # files[p] => D!Result(l)[p].version > files[p].version
<1>1. D!IInv /\ [D!Next]_(D!vars) => Keeps
  BY ImportOutcome DEF KeptFrom
<1>2. D!Spec => []D!IInv
  BY DriftTyped
<1>3. [][Keeps]_(D!vars) => D!ImportKeepsFiles
  BY PTL DEF D!ImportKeepsFiles
<1> QED BY <1>1, <1>2, <1>3, PTL DEF D!Spec

\* Once an import is written, the same tenant has no NEW and no CHANGED entries but the
\* suppressed ones (collect.py:171), when no two rules lead to one file.
THEOREM ImportsRoundTrip == ASSUME D!ConstantsAssumption PROVE D!Spec => D!RoundTrip
<1> DEFINE InSync ==
      \A l \in D!Lanes, S \in Suppressions :
        D!ImportStep(l, S) /\ D!Unclaimed(files, tenant) /\ D!AtHome(files) =>
          D!Drifted(D!Result(l), tenant) = D!Suppressed(files, tenant, S)
<1>1. D!IInv /\ [D!Next]_(D!vars) => InSync
  BY ImportOutcome, ImportRoundTrips
<1>2. D!Spec => []D!IInv
  BY DriftTyped
<1>3. [][InSync]_(D!vars) => D!RoundTrip
  BY PTL DEF D!RoundTrip
<1> QED BY <1>1, <1>2, <1>3, PTL DEF D!Spec

\* An import gives a rule that has a file no second one, and no file a key of another,
\* when that was so before (the match by arm_name of collect_support.py:123-126).
THEOREM FilesStayApart == ASSUME D!ConstantsAssumption PROVE D!Spec => D!OneFilePerRule
<1> DEFINE Apart ==
      \A l \in D!Lanes, S \in Suppressions :
        D!ImportStep(l, S) /\ D!Unclaimed(files, tenant) /\
        D!AtHome(files) /\ D!KeysApart(files) =>
          D!AtHome(D!Result(l)) /\ D!KeysApart(D!Result(l))
<1>1. D!IInv /\ [D!Next]_(D!vars) => Apart
  BY ImportOutcome, PathsAfter, KeysStayApart
<1>2. D!Spec => []D!IInv
  BY DriftTyped
<1>3. [][Apart]_(D!vars) => D!OneFilePerRule
  BY PTL DEF D!OneFilePerRule
<1> QED BY <1>1, <1>2, <1>3, PTL DEF D!Spec
=============================================================================
