---------------------------- MODULE Lifecycle_proofs ----------------------------
(***************************************************************************)
(* Why stamps are earned, records are of changes, and what the checks of a *)
(* pull request passed is what is merged, for any number of clones, pull   *)
(* requests and commands.  All that is said of a clone rests on the clone  *)
(* alone; of main, a clone knows what it has checked out.                  *)
(***************************************************************************)
EXTENDS Lifecycle, TLAPS

USE LifecycleAssumption

\* Every clean stamp of the tree has been earned.
Earned(tree, stamps) ==
  \A r \in Rules :
    tree[r].stamp.at # Never /\ ~tree[r].stamp.forced => <<r, tree[r].stamp.at>> \in stamps

\* A command runs in a branch whose checks have not passed, and what a check has
\* looked at is there.
Framed(c) ==
  /\ job[c] # Idle => pr[c].open /\ pr[c].check # "green"
  /\ pr[c].open => pr[c].base \in Tree /\ pr[c].head \in Tree
  /\ pr[c].check # "none" => pr[c].open /\ pr[c].seen \in Tree

\* Stamps in the branch are earned, and its versions are not behind its base.
Backed(c) ==
  pr[c].open =>
    /\ Earned(pr[c].base, earned) /\ Earned(pr[c].head, earned)
    /\ \A r \in Rules : pr[c].head[r].version >= pr[c].base[r].version

\* What a green check has found in the file of a rule.
Result(c, r) == FieldsMerged(pr[c].base[r], pr[c].seen[r], pr[c].head[r])
Vetted(c) ==
  pr[c].check = "green" =>
    \A r \in Rules :
      /\ /\ ~pr[c].mirror /\ Result(c, r).status = "production"
         /\ pr[c].seen[r].status # "production"
         => Result(c, r).stamp.at # Never
      /\ Result(c, r) # pr[c].seen[r] => Result(c, r).version # pr[c].seen[r].version

\* Records, those to come included, are of changes that were made.
Pending(c, r) == IF Records(job[c]) /\ r \in job[c].changed THEN 1 ELSE 0
Recorded(c) == \A r \in Rules : told[c][r] + Pending(c, r) <= made[c][r]

Sound(c) == Framed(c) /\ Backed(c) /\ Vetted(c) /\ Recorded(c)

IInv == TypeOK /\ Earned(main, earned) /\ \A c \in Clones : Sound(c)

-----------------------------------------------------------------------------
(* Files, merges and commands. *)

LEMMA FileShape ==
  \A f : f \in File <=>
    /\ f = [status |-> f.status, plain |-> f.plain, stamp |-> f.stamp,
            validated |-> f.validated, locked |-> f.locked, version |-> f.version]
    /\ f.status \in Statuses /\ f.plain \in BOOLEAN /\ f.stamp \in Stamps
    /\ f.validated \in Days \cup {Never} /\ f.locked \in BOOLEAN /\ f.version \in 0 .. MaxVersion
  BY DEF File

LEMMA MergedFile ==
  ASSUME NEW b \in File, NEW o \in File, NEW t \in File
  PROVE  FieldsMerged(b, o, t) \in File
  <1> DEFINE m == FieldsMerged(b, o, t)
  <1>1. DOMAIN b = {"status", "plain", "stamp", "validated", "locked", "version"}
    BY DEF File
  <1>2. m = [status |-> m.status, plain |-> m.plain, stamp |-> m.stamp,
             validated |-> m.validated, locked |-> m.locked, version |-> m.version]
    BY <1>1 DEF FieldsMerged
  <1>3. m.status \in Statuses /\ m.plain \in BOOLEAN /\ m.locked \in BOOLEAN
    BY DEF FieldsMerged, Merged, File
  <1>4. m.stamp \in Stamps /\ m.validated \in Days \cup {Never} /\ m.version \in 0 .. MaxVersion
    BY DEF FieldsMerged, Merged, File
  <1> QED
    BY <1>2, <1>3, <1>4 DEF File

LEMMA MergedField ==
  ASSUME NEW b \in File, NEW o \in File, NEW t \in File
  PROVE  /\ FieldsMerged(b, o, t).stamp \in {o.stamp, t.stamp}
         /\ FieldsMerged(b, o, t).status = Merged(b.status, o.status, t.status)
         /\ FieldsMerged(b, o, t).version = Merged(b.version, o.version, t.version)
  BY DEF FieldsMerged, Merged, File

\* Files that differ in no field but the version are the same when that agrees.
LEMMA SameFile ==
  ASSUME NEW f \in File, NEW g \in File, SameButVersion(f, g), f.version = g.version
  PROVE  f = g
  BY DEF SameButVersion, File

\* A gate that passes is evidence.
LEMMA GatesAreEvidence ==
  ASSUME NEW f, NEW ws, CheckGates(f, today, ws)
  PROVE  Evidence(f, ws)
  BY DEF CheckGates, Evidence, LiveTestPass, FpRateThreshold, NoWorkspaceGate

Jobs == {j \in Job : j.verb = "enable" => j.to # "none"}

\* What a command makes of a file: the version stays, and a new stamp is flagged
\* or that of a promotion whose gates passed.
LEMMA RewrittenFile ==
  ASSUME TypeOK, NEW f \in File, NEW j \in Jobs, NEW ws
  PROVE  /\ Rewritten(f, j, ws) \in File
         /\ Rewritten(f, j, ws).version = f.version
         /\ \/ Rewritten(f, j, ws).stamp = f.stamp
            \/ Rewritten(f, j, ws).stamp.forced
            \/ /\ j.verb = "promote" /\ CheckGates(f, today, ws)
               /\ Rewritten(f, j, ws).stamp.at = today
  <1> DEFINE passed == CheckGates(f, today, ws)
  <1>1. \A b \in BOOLEAN : [at |-> today, forced |-> b] \in Stamps
    BY DEF TypeOK, Stamps
  <1>2. passed \in BOOLEAN
    BY DEF CheckGates
  <1> HIDE DEF passed
  <1>3. CASE j.verb = "promote" /\ (passed \/ j.force)
    <2>1. Rewritten(f, j, ws) = [f EXCEPT !.status = "production",
                                          !.stamp = [at |-> today, forced |-> ~passed]]
      BY <1>3 DEF Rewritten, Promoted, StampPromotion, passed
    <2>2. [at |-> today, forced |-> ~passed] \in Stamps
      BY <1>1, <1>2
    <2> DEFINE g == Rewritten(f, j, ws)
    <2>3. g \in File /\ g.version = f.version /\ g.stamp = [at |-> today, forced |-> ~passed]
      BY <2>1, <2>2 DEF File, Statuses
    <2>4. g.stamp.at = today
      BY <2>3
    <2>5. ASSUME ~passed PROVE g.stamp.forced
      <3>1. (~passed) = TRUE
        BY <2>5
      <3>2. g.stamp = [at |-> today, forced |-> TRUE]
        BY <2>3, <3>1
      <3> QED
        BY <3>2
    <2> QED
      BY <1>3, <2>3, <2>4, <2>5 DEF passed
  <1>4. CASE j.verb = "promote" /\ ~(passed \/ j.force)
    BY <1>4 DEF Rewritten, passed
  <1>5. CASE j.verb = "disable"
    BY <1>5 DEF Rewritten, Disabled, File, Statuses
  <1>6. CASE j.verb = "enable"
    BY <1>1, <1>6 DEF Rewritten, Enabled, StampPromotion, File, Statuses, Jobs, Job
  <1>7. CASE j.verb = "lock"
    BY <1>7 DEF Rewritten, File
  <1>8. CASE j.verb = "unlock"
    BY <1>8 DEF Rewritten, File
  <1> QED
    BY <1>3, <1>4, <1>5, <1>6, <1>7, <1>8 DEF Jobs, Job

-----------------------------------------------------------------------------
(* The invariant is one of clones: a step of one leaves the others alone. *)

LEMMA ToldMade ==
  ASSUME TypeOK, NEW c \in Clones, Recorded(c), NEW r \in Rules
  PROVE  told[c][r] <= made[c][r]
  <1>1. told[c][r] \in Nat /\ made[c][r] \in Nat
    BY DEF TypeOK
  <1>2. Pending(c, r) \in Nat
    BY DEF Pending
  <1>3. told[c][r] + Pending(c, r) <= made[c][r]
    BY DEF Recorded
  <1> HIDE DEF Pending
  <1> QED
    BY <1>1, <1>2, <1>3

Others(c) ==
  \A d \in Clones \ {c} :
    pr'[d] = pr[d] /\ job'[d] = job[d] /\ told'[d] = told[d] /\ made'[d] = made[d]

LEMMA OneClone ==
  ASSUME IInv, NEW c \in Clones, Others(c), earned \subseteq earned',
         TypeOK', Earned(main, earned)', Sound(c)'
  PROVE  IInv'
  <1> SUFFICES ASSUME NEW d \in Clones \ {c} PROVE Sound(d)'
    BY DEF IInv
  <1>1. Sound(d) /\ pr'[d] = pr[d] /\ job'[d] = job[d] /\ told'[d] = told[d] /\ made'[d] = made[d]
    BY DEF IInv, Others
  <1>2. Framed(d)' /\ Vetted(d)' /\ Recorded(d)'
    BY <1>1 DEF Sound, Framed, Vetted, Recorded, Result, Pending
  <1>3. Backed(d)'
    BY <1>1 DEF Sound, Backed, Earned
  <1> QED
    BY <1>2, <1>3 DEF Sound

LEMMA InitStep == Init => IInv
  <1> SUFFICES ASSUME Init PROVE IInv
    OBVIOUS
  <1>1. TypeOK
    <2>1. main \in Tree /\ today \in Days
      BY DEF Init, Tree, Days
    <2>2. NoPr \in PullRequest
      BY DEF NoPr, PullRequest
    <2>3. \A r \in Rules : main[r].stamp.at \in Days \cup {Never}
      BY <2>1 DEF Tree, File, Stamps
    <2> QED
      BY <2>1, <2>2, <2>3 DEF Init, TypeOK
  <1>2. Earned(main, earned)
    BY DEF Init, Earned
  <1>3. \A c \in Clones : Sound(c)
    BY DEF Init, Sound, Framed, Backed, Vetted, Recorded, Pending, NoPr, Idle, Records
  <1> QED
    BY <1>1, <1>2, <1>3 DEF IInv

LEMMA CheckoutKeeps ==
  ASSUME IInv, NEW c \in Clones, Checkout(c)
  PROVE  IInv'
  <1> DEFINE p == [NoPr EXCEPT !.open = TRUE, !.base = main, !.head = main]
  <1>1. p \in PullRequest /\ p.open /\ p.check = "none" /\ p.base = main /\ p.head = main
    BY DEF IInv, TypeOK, NoPr, PullRequest
  <1>2. pr' = [pr EXCEPT ![c] = p]
    BY DEF Checkout
  <1> HIDE DEF p
  <1>3. TypeOK' /\ pr'[c] = p /\ Others(c)
    BY <1>1, <1>2 DEF Checkout, IInv, TypeOK, Others
  <1>4. Earned(main, earned)' /\ job[c] = Idle /\ job' = job
    BY DEF Checkout, IInv, Earned
  <1>5. Framed(c)' /\ Vetted(c)'
    BY <1>1, <1>3, <1>4 DEF Framed, Vetted, IInv, TypeOK
  <1>6. Backed(c)'
    <2>1. pr'[c].base = main /\ pr'[c].head = main /\ main' = main
      BY <1>1, <1>3 DEF Checkout
    <2>2. \A r \in Rules : main[r].version >= main[r].version
      BY DEF IInv, TypeOK, Tree, File
    <2>3. Earned(pr[c].base, earned)' /\ Earned(pr[c].head, earned)'
      BY <1>4, <2>1 DEF Earned
    <2> QED
      BY <2>1, <2>2, <2>3 DEF Backed
  <1>7. Recorded(c)'
    BY <1>4 DEF Checkout, IInv, Sound, Recorded, Pending
  <1> QED
    BY <1>3, <1>4, <1>5, <1>6, <1>7, OneClone DEF Sound, Checkout

LEMMA StartKeeps ==
  ASSUME IInv, NEW c \in Clones, NEW cmd \in Commands, Start(c, cmd)
  PROVE  IInv'
  <1>1. cmd \in Jobs /\ cmd.changed = {}
    BY DEF Commands, Command, Jobs, Job
  <1>2. TypeOK' /\ job'[c] = cmd /\ Others(c)
    BY <1>1 DEF Start, IInv, TypeOK, Others, Jobs
  <1>3. Earned(main, earned)'
    BY DEF Start, IInv, Earned
  <1>4. Framed(c)'
    BY DEF Start, Working, IInv, Sound, Framed
  <1>5. Backed(c)' /\ Vetted(c)'
    BY DEF Start, IInv, Sound, Backed, Earned, Vetted, Result
  <1>6. Recorded(c)'
    <2>1. \A r \in Rules : told[c][r] <= made[c][r]
      BY ToldMade DEF IInv, Sound
    <2> QED
      BY <1>1, <1>2, <2>1 DEF Start, Recorded, Pending, IInv, TypeOK
  <1> QED
    BY <1>2, <1>3, <1>4, <1>5, <1>6, OneClone DEF Sound, Start

\* An editor or a command has changed the head of an open branch.
LEMMA HeadMoves ==
  ASSUME IInv, NEW c \in Clones, Others(c), earned \subseteq earned', main' = main,
         TypeOK', Recorded(c)', pr[c].open, pr[c].check # "green", pr'[c].open,
         pr'[c].base = pr[c].base, pr'[c].seen = pr[c].seen, pr'[c].check = pr[c].check,
         pr'[c].head \in Tree, Earned(pr[c].head, earned)',
         \A r \in Rules : pr'[c].head[r].version >= pr[c].head[r].version
  PROVE  IInv'
  <1>1. Earned(main, earned)' /\ Earned(pr[c].base, earned)'
    BY DEF IInv, Sound, Backed, Earned
  <1>2. \A r \in Rules : pr'[c].head[r].version >= pr'[c].base[r].version
    <2>1. pr[c].head \in Tree /\ pr[c].base \in Tree
      BY DEF IInv, Sound, Framed
    <2>2. \A r \in Rules : /\ pr[c].head[r].version \in Nat /\ pr[c].base[r].version \in Nat
                           /\ pr'[c].head[r].version \in Nat
                           /\ pr[c].head[r].version >= pr[c].base[r].version
      BY <2>1 DEF IInv, Sound, Backed, Tree, File
    <2> QED
      BY <2>2
  <1>3. Backed(c)'
    BY <1>1, <1>2 DEF Backed
  <1>4. Framed(c)' /\ Vetted(c)'
    BY DEF IInv, Sound, Framed, Vetted
  <1> QED
    BY <1>1, <1>3, <1>4, OneClone DEF Sound

LEMMA HeadChange ==
  ASSUME NEW c, pr[c] \in PullRequest, pr[c].head \in Tree,
         NEW r \in Rules, NEW f \in File, NEW S \in SUBSET Rules,
         pr'[c] = [pr[c] EXCEPT !.head = [pr[c].head EXCEPT ![r] = f], !.byHand = S]
  PROVE  /\ pr'[c] \in PullRequest /\ pr'[c].head \in Tree
         /\ pr'[c].head = [pr[c].head EXCEPT ![r] = f]
         /\ pr'[c].open = pr[c].open /\ pr'[c].base = pr[c].base
         /\ pr'[c].seen = pr[c].seen /\ pr'[c].check = pr[c].check
  <1>1. [pr[c].head EXCEPT ![r] = f] \in Tree
    BY DEF Tree
  <1>2. pr'[c].head = [pr[c].head EXCEPT ![r] = f]
    BY DEF PullRequest
  <1> QED
    BY <1>1, <1>2 DEF PullRequest

\* The next file of a command: a new stamp is flagged, or earned at that moment,
\* and every change that is to be recorded counts.
LEMMA RewriteKeeps ==
  ASSUME IInv, NEW c \in Clones, NEW ws \in Workspaces, Rewrite(c, ws)
  PROVE  IInv'
  <1> DEFINE j == job[c]
             r == Head(j.todo)
             old == pr[c].head[r]
             new == IF Refused(j, old) THEN old ELSE Rewritten(old, j, ws)
  <1>1. j \in Jobs /\ j.todo \in Seq(Rules) /\ j.todo # <<>>
    BY DEF Rewrite, IInv, TypeOK, Jobs, Job
  <1>2. r \in Rules /\ Tail(j.todo) \in Seq(Rules)
    BY <1>1
  <1>3. pr[c] \in PullRequest /\ pr[c].open /\ pr[c].check # "green" /\ pr[c].head \in Tree
    BY DEF Rewrite, IInv, TypeOK, Sound, Framed
  <1>4. old \in File /\ new \in File /\ new.version = old.version
    BY <1>1, <1>2, <1>3, RewrittenFile DEF IInv, Tree
  <1>5. /\ pr' = [pr EXCEPT ![c].head[r] = new,
                           ![c].byHand = IF new.status = old.status THEN @ ELSE @ \ {r}]
        /\ job' = [job EXCEPT ![c] =
                     IF Refused(j, old) /\ Records(j) THEN Idle
                     ELSE [j EXCEPT !.todo = Tail(@),
                                    !.changed = IF new # old THEN @ \cup {r} ELSE @]]
        /\ made' = IF new # old /\ Records(j) THEN [made EXCEPT ![c][r] = @ + 1] ELSE made
        /\ earned' = IF j.verb = "promote" /\ Evidence(old, ws)
                     THEN earned \cup {<<r, today>>} ELSE earned
        /\ today' = today /\ main' = main /\ told' = told
    BY DEF Rewrite
  <1>6. Earned([pr[c].head EXCEPT ![r] = new], earned')
    <2>1. Earned(pr[c].head, earned) /\ earned \subseteq earned'
      BY <1>3, <1>5 DEF IInv, Sound, Backed
    <2>2. \/ new.stamp = old.stamp \/ new.stamp.forced
          \/ new.stamp.at = today /\ <<r, today>> \in earned'
      BY <1>1, <1>4, <1>5, RewrittenFile, GatesAreEvidence DEF IInv
    <2> DEFINE h == pr[c].head
               tree == [h EXCEPT ![r] = new]
    <2>3. DOMAIN h = Rules /\ old = h[r] /\ r \in Rules
      BY <1>2, <1>3 DEF Tree
    <2> HIDE DEF new, old, r, j, h
    <2>4. tree[r] = new /\ \A s \in Rules \ {r} : tree[s] = h[s]
      BY <2>3
    <2>5. \A s \in Rules \ {r} : h[s].stamp.at # Never /\ ~h[s].stamp.forced
                                => <<s, h[s].stamp.at>> \in earned'
      BY <2>1 DEF Earned, h
    <2>6. new.stamp.at # Never /\ ~new.stamp.forced => <<r, new.stamp.at>> \in earned'
      BY <2>1, <2>2, <2>3 DEF Earned, h
    <2>7. Earned(tree, earned')
      BY <2>4, <2>5, <2>6 DEF Earned
    <2> QED
      BY <2>7 DEF h
  <1>7. old = pr[c].head[r]
    OBVIOUS
  <1> HIDE DEF new, old, r, j
  <1>8. PICK S \in SUBSET Rules :
          pr'[c] = [pr[c] EXCEPT !.head = [pr[c].head EXCEPT ![r] = new], !.byHand = S]
    BY <1>2, <1>3, <1>5 DEF IInv, TypeOK, PullRequest
  <1>9. /\ pr'[c] \in PullRequest /\ pr'[c].head \in Tree
        /\ pr'[c].head = [pr[c].head EXCEPT ![r] = new]
        /\ pr'[c].open = pr[c].open /\ pr'[c].base = pr[c].base
        /\ pr'[c].seen = pr[c].seen /\ pr'[c].check = pr[c].check
    BY <1>2, <1>3, <1>4, <1>8, HeadChange
  <1>10. Earned(pr[c].head, earned)'
    BY <1>6, <1>9
  <1>11. \A s \in Rules : pr'[c].head[s].version >= pr[c].head[s].version
    <2>1. \A s \in Rules : pr'[c].head[s].version = pr[c].head[s].version
      BY <1>2, <1>3, <1>4, <1>7, <1>9 DEF Tree
    <2>2. \A s \in Rules : pr[c].head[s].version \in Nat
      BY <1>3 DEF Tree, File
    <2> QED
      BY <2>1, <2>2
  <1>12. job'[c] \in {Idle} \cup Jobs /\ earned \subseteq earned'
    BY <1>1, <1>2, <1>5 DEF IInv, TypeOK, Jobs, Job
  <1>13. TypeOK'
    <2>1. pr' \in [Clones -> PullRequest]
      <3>1. \A d \in Clones \ {c} : pr'[d] = pr[d]
        BY <1>5 DEF IInv, TypeOK
      <3> QED
        BY <1>5, <1>9, <3>1 DEF IInv, TypeOK
    <2>2. job' \in [Clones -> {Idle} \cup Jobs]
      <3>1. \A d \in Clones \ {c} : job'[d] = job[d]
        BY <1>5 DEF IInv, TypeOK
      <3>2. job \in [Clones -> {Idle} \cup Jobs]
        BY DEF IInv, TypeOK, Jobs
      <3>3. DOMAIN job' = Clones /\ job' = [d \in Clones |-> job'[d]]
        BY <1>5, <3>2
      <3> QED
        BY <1>12, <3>1, <3>2, <3>3
    <2>3. made' \in [Clones -> [Rules -> Nat]] /\ earned' \subseteq Rules \X (Days \cup {Never})
      BY <1>2, <1>5 DEF IInv, TypeOK
    <2> QED
      BY <1>5, <2>1, <2>2, <2>3 DEF IInv, TypeOK, Jobs
  <1>14. Others(c)
    BY <1>5 DEF Others, IInv, TypeOK
  <1>15. Recorded(c)'
    <2> DEFINE stop == Refused(j, old) /\ Records(j)
    <2>1. \A s \in Rules : /\ told[c][s] \in Nat /\ made[c][s] \in Nat
                           /\ told[c][s] <= made[c][s]
                           /\ told[c][s] + Pending(c, s) <= made[c][s]
      BY ToldMade DEF IInv, TypeOK, Sound, Recorded
    <2>2. CASE stop
      <3>1. job'[c] = Idle /\ made' = made
        BY <1>5, <1>12, <2>2 DEF IInv, TypeOK, new
      <3>2. \A s \in Rules : Pending(c, s)' = 0
        BY <3>1 DEF Pending, Idle
      <3> QED
        BY <1>5, <2>1, <3>1, <3>2 DEF Recorded
    <2>3. CASE ~stop
      <3>1. job'[c] = [j EXCEPT !.todo = Tail(@),
                                !.changed = IF new # old THEN @ \cup {r} ELSE @]
        BY <1>5, <2>3 DEF IInv, TypeOK
      <3>2. job'[c].verb = j.verb
            /\ job'[c].changed = IF new # old THEN j.changed \cup {r} ELSE j.changed
        BY <1>1, <3>1 DEF Jobs, Job
      <3>3. Records(job'[c]) = Records(j)
        BY <3>2 DEF Records
      <3>4. ASSUME NEW s \in Rules PROVE told'[c][s] + Pending(c, s)' <= made'[c][s]
        <4>1. CASE s = r /\ new # old /\ Records(j)
          <5>1. made'[c][s] = made[c][s] + 1
            BY <1>5, <4>1 DEF IInv, TypeOK
          <5>2. Pending(c, s)' = 1
            BY <3>2, <3>3, <4>1 DEF Pending
          <5> QED
            BY <1>5, <2>1, <5>1, <5>2
        <4>2. CASE ~(s = r /\ new # old /\ Records(j))
          <5>1. made'[c][s] = made[c][s]
            BY <1>5, <4>2 DEF IInv, TypeOK
          <5>2. Pending(c, s)' = Pending(c, s)
            BY <3>2, <3>3, <4>2 DEF Pending, j
          <5> QED
            BY <1>5, <2>1, <5>1, <5>2
        <4> QED
          BY <4>1, <4>2
      <3> QED
        BY <3>4 DEF Recorded
    <2> QED
      BY <2>2, <2>3
  <1> QED
    BY <1>3, <1>5, <1>9, <1>10, <1>11, <1>12, <1>13, <1>14, <1>15, HeadMoves

LEMMA ReportKeeps ==
  ASSUME IInv, NEW c \in Clones, Report(c)
  PROVE  IInv'
  <1>1. /\ pr' = pr /\ main' = main /\ made' = made /\ earned' = earned /\ today' = today
        /\ job' = [job EXCEPT ![c] = Idle]
        /\ told' = IF Records(job[c])
                   THEN [told EXCEPT ![c] = [r \in Rules |-> @[r] + IF r \in job[c].changed THEN 1 ELSE 0]]
                   ELSE told
    BY DEF Report
  <1>2. TypeOK' /\ Others(c) /\ job'[c] = Idle
    <2>1. \A r \in Rules : told[c][r] + (IF r \in job[c].changed THEN 1 ELSE 0) \in Nat
      BY DEF IInv, TypeOK
    <2>2. told' \in [Clones -> [Rules -> Nat]]
      BY <1>1, <2>1 DEF IInv, TypeOK
    <2> QED
      BY <1>1, <2>2 DEF IInv, TypeOK, Others
  <1>3. Framed(c)' /\ Backed(c)' /\ Vetted(c)' /\ Earned(main, earned)'
    BY <1>1, <1>2 DEF IInv, Sound, Framed, Backed, Vetted, Result, Earned
  <1>4. Recorded(c)'
    <2>1. \A r \in Rules : Pending(c, r)' = 0
      BY <1>2 DEF Pending, Idle
    <2>2. \A r \in Rules : told'[c][r] = told[c][r] + Pending(c, r) /\ told'[c][r] \in Nat
      BY <1>1, <1>2 DEF Pending, IInv, TypeOK
    <2> QED
      BY <1>1, <2>1, <2>2 DEF IInv, Sound, Recorded
  <1> QED
    BY <1>1, <1>2, <1>3, <1>4, OneClone DEF Sound

LEMMA DieKeeps ==
  ASSUME IInv, NEW c \in Clones, Die(c)
  PROVE  IInv'
  <1>1. /\ pr' = pr /\ main' = main /\ made' = made /\ earned' = earned /\ today' = today
        /\ told' = told /\ job' = [job EXCEPT ![c] = Idle]
    BY DEF Die
  <1>2. TypeOK' /\ Others(c) /\ job'[c] = Idle
    BY <1>1 DEF IInv, TypeOK, Others
  <1>3. Framed(c)' /\ Backed(c)' /\ Vetted(c)' /\ Earned(main, earned)'
    BY <1>1, <1>2 DEF IInv, Sound, Framed, Backed, Vetted, Result, Earned
  <1>4. Recorded(c)'
    <2>1. \A r \in Rules : Pending(c, r)' = 0
      BY <1>2 DEF Pending, Idle
    <2>2. \A r \in Rules : told[c][r] <= made[c][r] /\ told[c][r] \in Nat
      BY ToldMade DEF IInv, Sound, TypeOK
    <2> QED
      BY <1>1, <2>1, <2>2 DEF Recorded
  <1> QED
    BY <1>1, <1>2, <1>3, <1>4, OneClone DEF Sound

LEMMA Unmoved ==
  ASSUME IInv, UNCHANGED <<main, pr, job, told, made, earned>>
  PROVE  Earned(main, earned)' /\ \A c \in Clones : Sound(c)'
  <1>1. Earned(main, earned)'
    BY DEF IInv
  <1>2. ASSUME NEW c \in Clones PROVE Sound(c)'
    <2>1. Framed(c)' /\ Backed(c)'
      BY DEF IInv, Sound, Framed, Backed
    <2>2. Vetted(c)'
      BY DEF IInv, Sound, Vetted, Result
    <2>3. Recorded(c)'
      BY DEF IInv, Sound, Recorded, Pending
    <2> QED
      BY <2>1, <2>2, <2>3 DEF Sound
  <1> QED
    BY <1>1, <1>2

LEMMA MidnightKeeps == ASSUME IInv, Midnight PROVE IInv'
  <1>1. TypeOK'
    BY DEF IInv, TypeOK, Midnight, Days
  <1> QED
    BY <1>1, Unmoved DEF IInv, Midnight

\* An edit that leaves the stamp and the version of the file.
LEMMA EditKeeps ==
  ASSUME IInv, NEW c \in Clones, NEW r \in Rules, NEW f \in File, NEW S \in SUBSET Rules,
         Working(c), f.stamp = pr[c].head[r].stamp, f.version = pr[c].head[r].version,
         pr' = [pr EXCEPT ![c] = [pr[c] EXCEPT !.head = [pr[c].head EXCEPT ![r] = f], !.byHand = S]],
         UNCHANGED <<today, main, job, told, made, earned>>
  PROVE  IInv'
  <1>1. pr[c] \in PullRequest /\ pr[c].open /\ pr[c].check # "green" /\ pr[c].head \in Tree
    BY DEF Working, IInv, TypeOK, Sound, Framed
  <1>2. pr'[c] = [pr[c] EXCEPT !.head = [pr[c].head EXCEPT ![r] = f], !.byHand = S]
    BY DEF IInv, TypeOK
  <1>3. /\ pr'[c] \in PullRequest /\ pr'[c].head \in Tree
        /\ pr'[c].head = [pr[c].head EXCEPT ![r] = f]
        /\ pr'[c].open = pr[c].open /\ pr'[c].base = pr[c].base
        /\ pr'[c].seen = pr[c].seen /\ pr'[c].check = pr[c].check
    BY <1>1, <1>2, HeadChange
  <1>4. \A s \in Rules : /\ pr'[c].head[s].version = pr[c].head[s].version
                         /\ pr'[c].head[s].stamp = pr[c].head[s].stamp
                         /\ pr[c].head[s].version \in Nat
    BY <1>1, <1>3 DEF Tree, File
  <1>5. TypeOK' /\ Others(c)
    BY <1>2, <1>3 DEF IInv, TypeOK, Others
  <1>6. Earned(pr[c].head, earned)'
    BY <1>1, <1>4 DEF IInv, Sound, Backed, Earned
  <1>7. Recorded(c)'
    BY DEF IInv, Sound, Recorded, Pending
  <1>8. \A s \in Rules : pr'[c].head[s].version >= pr[c].head[s].version
    BY <1>4
  <1> QED
    BY <1>1, <1>3, <1>5, <1>6, <1>7, <1>8, HeadMoves

LEMMA EditStatusKeeps ==
  ASSUME IInv, NEW c \in Clones, NEW r \in Rules, NEW s \in Statuses, EditStatus(c, r, s)
  PROVE  IInv'
  <1> DEFINE old == pr[c].head[r]
             f == [old EXCEPT !.status = s]
             S == pr[c].byHand \cup {r}
  <1>1. pr[c] \in PullRequest /\ pr[c].head \in Tree /\ old \in File
    BY DEF EditStatus, Working, IInv, TypeOK, Sound, Framed, Tree
  <1>2. f \in File /\ f.stamp = old.stamp /\ f.version = old.version
    BY <1>1 DEF File
  <1>3. S \in SUBSET Rules
    BY <1>1 DEF PullRequest
  <1>4. pr' = [pr EXCEPT ![c] = [pr[c] EXCEPT !.head = [pr[c].head EXCEPT ![r] = f], !.byHand = S]]
    BY <1>1 DEF EditStatus, IInv, TypeOK, PullRequest, Tree
  <1> HIDE DEF f, S
  <1> QED
    BY <1>2, <1>3, <1>4, EditKeeps DEF EditStatus

LEMMA ValidateKeeps ==
  ASSUME IInv, NEW c \in Clones, NEW r \in Rules, Validate(c, r)
  PROVE  IInv'
  <1> DEFINE old == pr[c].head[r]
             f == [old EXCEPT !.validated = today]
             S == pr[c].byHand
  <1>1. pr[c] \in PullRequest /\ pr[c].head \in Tree /\ old \in File
    BY DEF Validate, Working, IInv, TypeOK, Sound, Framed, Tree
  <1>2. f \in File /\ f.stamp = old.stamp /\ f.version = old.version
    BY <1>1 DEF File, IInv, TypeOK
  <1>3. S \in SUBSET Rules
    BY <1>1 DEF PullRequest
  <1>4. pr' = [pr EXCEPT ![c] = [pr[c] EXCEPT !.head = [pr[c].head EXCEPT ![r] = f], !.byHand = S]]
    BY <1>1 DEF Validate, IInv, TypeOK, PullRequest, Tree
  <1> HIDE DEF f, S
  <1> QED
    BY <1>2, <1>3, <1>4, EditKeeps DEF Validate

\* What a green check means for the file of a rule.
LEMMA GreenMeans ==
  ASSUME main \in Tree, NEW p, p.base \in Tree, p.head \in Tree, Checked(p) = "green",
         NEW r \in Rules
  PROVE  LET result == FieldsMerged(p.base[r], main[r], p.head[r]) IN
         /\ /\ ~p.mirror /\ result.status = "production" /\ main[r].status # "production"
            => result.stamp.at # Never
         /\ result # main[r] => result.version # main[r].version
  <1> DEFINE result == MergeOf(p, main)
  <1>1. /\ \A s \in Promotions(p, result) : FreshStamp(result[s])
        /\ Unbumped(result) = {}
    BY DEF Checked
  <1>2. result[r] = FieldsMerged(p.base[r], main[r], p.head[r]) /\ result[r] \in File
    BY MergedFile DEF MergeOf, Tree
  <1> HIDE DEF result
  <1>3. /\ ~p.mirror /\ result[r].status = "production" /\ main[r].status # "production"
        => result[r].stamp.at # Never
    BY <1>1 DEF Promotions, FreshStamp
  <1>4. result[r].version = main[r].version => result[r] = main[r]
    <2> SUFFICES ASSUME result[r].version = main[r].version PROVE result[r] = main[r]
      OBVIOUS
    <2>1. SameButVersion(result[r], main[r])
      BY <1>1 DEF Unbumped
    <2> QED
      BY <1>2, <2>1, SameFile DEF Tree
  <1> QED
    BY <1>2, <1>3, <1>4

\* A branch that has been checked against main.
LEMMA PushedIsSound ==
  ASSUME IInv, NEW c \in Clones, NEW p \in PullRequest, p.open,
         p.base \in Tree, p.head \in Tree, Earned(p.base, earned), Earned(p.head, earned),
         \A r \in Rules : p.head[r].version >= p.base[r].version,
         job[c] = Idle, pr' = [pr EXCEPT ![c] = Pushed(p)],
         UNCHANGED <<today, main, job, told, made, earned>>
  PROVE  IInv'
  <1> DEFINE q == Pushed(p)
  <1>1. Checked(p) \in {"none", "green", "red"}
    BY DEF Checked
  <1>2. main \in Tree
    BY DEF IInv, TypeOK
  <1>3. /\ q \in PullRequest /\ q.open /\ q.mirror = p.mirror /\ q.base = p.base
        /\ q.head = p.head /\ q.seen = main /\ q.check = Checked(p)
    BY <1>1, <1>2 DEF Pushed, PullRequest
  <1> HIDE DEF q
  <1>4. pr' = [pr EXCEPT ![c] = q] /\ pr'[c] = q
    BY DEF q, IInv, TypeOK
  <1>5. TypeOK' /\ Others(c)
    BY <1>3, <1>4 DEF IInv, TypeOK, Others
  <1>6. Framed(c)'
    BY <1>2, <1>3, <1>4 DEF Framed
  <1>7. Backed(c)'
    BY <1>3, <1>4 DEF Backed
  <1>8. Vetted(c)'
    <2> SUFFICES ASSUME Checked(p) = "green", NEW r \in Rules
                 PROVE  LET result == FieldsMerged(p.base[r], main[r], p.head[r]) IN
                        /\ /\ ~p.mirror /\ result.status = "production" /\ main[r].status # "production"
                           => result.stamp.at # Never
                        /\ result # main[r] => result.version # main[r].version
      BY <1>3, <1>4 DEF Vetted, Result
    <2> QED
      BY <1>2, GreenMeans
  <1>9. Recorded(c)' /\ Earned(main, earned)'
    BY DEF IInv, Sound, Recorded, Pending
  <1> QED
    BY <1>5, <1>6, <1>7, <1>8, <1>9, OneClone DEF Sound

LEMMA PushKeeps ==
  ASSUME IInv, NEW c \in Clones, NEW bump \in BOOLEAN, Push(c, bump)
  PROVE  IInv'
  <1> DEFINE p == pr[c]
             bumped == {r \in Rules : bump /\ p.head[r] # p.base[r]}
             head == [r \in Rules |-> IF r \in bumped THEN Bump(p.head[r]) ELSE p.head[r]]
             q == [p EXCEPT !.head = head]
  <1>1. /\ p \in PullRequest /\ p.open /\ p.base \in Tree /\ p.head \in Tree /\ job[c] = Idle
        /\ Earned(p.base, earned) /\ Earned(p.head, earned)
        /\ \A r \in Rules : p.head[r].version >= p.base[r].version
    BY DEF Push, Working, IInv, TypeOK, Sound, Framed, Backed
  <1>2. ASSUME NEW r \in Rules
        PROVE  /\ head[r] \in File /\ head[r].stamp = p.head[r].stamp
               /\ head[r].version >= p.head[r].version
    <2>1. p.head[r] \in File
      BY <1>1 DEF Tree
    <2>2. CASE r \in bumped
      <3>1. p.head[r].version < MaxVersion
        BY <2>2 DEF Push
      <3>2. head[r] = [p.head[r] EXCEPT !.version = @ + 1]
        BY <2>2 DEF Bump
      <3> DEFINE f == p.head[r]
      <3> HIDE DEF f, head, p
      <3>3. f.version \in 0 .. MaxVersion
        BY <2>1 DEF File, f
      <3>4. f.version + 1 \in 0 .. MaxVersion /\ f.version + 1 >= f.version
        BY <3>1, <3>3 DEF f
      <3>5. [f EXCEPT !.version = @ + 1] \in File
        BY <2>1, <3>4 DEF File, f
      <3>6. [f EXCEPT !.version = @ + 1].version = f.version + 1
            /\ [f EXCEPT !.version = @ + 1].stamp = f.stamp
        BY <2>1 DEF File, f
      <3> QED
        BY <3>2, <3>4, <3>5, <3>6 DEF f
    <2>3. CASE r \notin bumped
      <3>1. head[r] = p.head[r]
        BY <2>3
      <3> QED
        BY <2>1, <3>1 DEF File
    <2> QED
      BY <2>2, <2>3
  <1>3. pr' = [pr EXCEPT ![c] = Pushed(q)]
    BY DEF Push
  <1>4. head \in Tree
    BY <1>2 DEF Tree
  <1> HIDE DEF head, p
  <1>5. q \in PullRequest /\ q.open /\ q.base = p.base /\ q.head = head
    BY <1>1, <1>4 DEF PullRequest
  <1>6. Earned(head, earned)
    BY <1>1, <1>2 DEF Earned
  <1>7. \A r \in Rules : head[r].version >= p.base[r].version
    <2>1. \A r \in Rules : /\ head[r].version \in Nat /\ p.head[r].version \in Nat
                           /\ p.base[r].version \in Nat
      BY <1>1, <1>2 DEF Tree, File
    <2> QED
      BY <1>1, <1>2, <2>1
  <1> HIDE DEF q
  <1> QED
    BY <1>1, <1>3, <1>4, <1>5, <1>6, <1>7, PushedIsSound DEF Push

LEMMA MirrorTenantKeeps ==
  ASSUME IInv, NEW c \in Clones, NEW r \in Rules, NEW on \in BOOLEAN, MirrorTenant(c, r, on)
  PROVE  IInv'
  <1> DEFINE f == Mirrored(main[r], on)
             head == [main EXCEPT ![r] = f]
             q == [NoPr EXCEPT !.open = TRUE, !.mirror = TRUE, !.base = main, !.head = head]
  <1>1. main \in Tree /\ main[r] \in File /\ main[r].version < MaxVersion /\ Earned(main, earned)
    BY DEF MirrorTenant, IInv, TypeOK, Tree
  <1>2. f \in File /\ f.stamp.at = Never /\ f.version = main[r].version + 1
    <2>1. NoStamp \in Stamps /\ NoStamp.at = Never
      BY DEF NoStamp, Stamps
    <2>2. (IF on THEN "production" ELSE "deprecated") \in Statuses
      BY DEF Statuses
    <2>3. main[r].version + 1 \in 0 .. MaxVersion
      BY <1>1 DEF File
    <2> HIDE DEF NoStamp
    <2> QED
      BY <1>1, <2>1, <2>2, <2>3 DEF Mirrored, File
  <1>3. pr' = [pr EXCEPT ![c] = Pushed(q)] /\ job[c] = Idle
    BY <1>1 DEF MirrorTenant, Tree
  <1> HIDE DEF f
  <1>4. head \in Tree
    BY <1>1, <1>2 DEF Tree
  <1>5. q \in PullRequest /\ q.open /\ q.base = main /\ q.head = head
    BY <1>1, <1>4 DEF NoPr, PullRequest
  <1>6. Earned(head, earned)
    BY <1>1, <1>2 DEF Earned, Tree
  <1>7. \A s \in Rules : head[s].version >= main[s].version
    BY <1>1, <1>2 DEF Tree, File
  <1> HIDE DEF q, head
  <1> QED
    BY <1>1, <1>3, <1>4, <1>5, <1>6, <1>7, PushedIsSound DEF MirrorTenant

\* What git makes of main: no stamp of its own, and no version that goes back.
LEMMA MergedMain ==
  ASSUME IInv, NEW c \in Clones, MergePr(c)
  PROVE  /\ main' \in Tree /\ Earned(main, earned)'
         /\ pr[c].open /\ pr[c].base \in Tree /\ pr[c].head \in Tree /\ pr[c].seen \in Tree
         /\ \A r \in Rules :
              /\ main'[r] = FieldsMerged(pr[c].base[r], main[r], pr[c].head[r])
              /\ main'[r].version >= main[r].version
  <1>1. /\ main' = MergeOf(pr[c], main) /\ earned' = earned /\ main \in Tree
        /\ pr[c].open /\ pr[c].base \in Tree /\ pr[c].head \in Tree /\ pr[c].seen \in Tree
        /\ Earned(main, earned) /\ Earned(pr[c].head, earned)
        /\ \A r \in Rules : pr[c].head[r].version >= pr[c].base[r].version
    BY DEF MergePr, IInv, TypeOK, Sound, Framed, Backed
  <1>2. ASSUME NEW r \in Rules
        PROVE  /\ main'[r] \in File
               /\ main'[r] = FieldsMerged(pr[c].base[r], main[r], pr[c].head[r])
               /\ main'[r].stamp \in {main[r].stamp, pr[c].head[r].stamp}
               /\ main'[r].version = Merged(pr[c].base[r].version, main[r].version, pr[c].head[r].version)
               /\ main[r].version \in Nat
    <2>1. pr[c].base[r] \in File /\ main[r] \in File /\ pr[c].head[r] \in File
      BY <1>1 DEF Tree
    <2>2. main'[r] = FieldsMerged(pr[c].base[r], main[r], pr[c].head[r])
      BY <1>1 DEF MergeOf
    <2>3. main[r].version \in Nat
      BY <2>1 DEF File
    <2> DEFINE b == pr[c].base[r]
               o == main[r]
               t == pr[c].head[r]
               m == FieldsMerged(b, o, t)
    <2> HIDE DEF b, o, t
    <2>4. m \in File /\ m.stamp \in {o.stamp, t.stamp}
          /\ m.version = Merged(b.version, o.version, t.version)
      BY <2>1, MergedFile, MergedField DEF b, o, t
    <2> QED
      BY <2>2, <2>3, <2>4 DEF b, o, t
  <1>3. main' \in Tree
    BY <1>1, <1>2 DEF MergeOf, Tree
  <1>4. Earned(main, earned)'
    BY <1>1, <1>2 DEF Earned
  <1>5. \A r \in Rules : main'[r].version >= main[r].version
    BY <1>1, <1>2 DEF Merged
  <1> QED
    BY <1>1, <1>2, <1>3, <1>4, <1>5

LEMMA MergePrKeeps ==
  ASSUME IInv, NEW c \in Clones, MergePr(c)
  PROVE  IInv'
  <1>1. NoPr \in PullRequest /\ ~NoPr.open /\ NoPr.check = "none"
    BY DEF NoPr, PullRequest
  <1>2. main' \in Tree /\ Earned(main, earned)'
    BY MergedMain
  <1> HIDE DEF NoPr
  <1>3. TypeOK' /\ Others(c) /\ pr'[c] = NoPr
    BY <1>1, <1>2 DEF MergePr, IInv, TypeOK, Others
  <1>4. Sound(c)'
    BY <1>1, <1>3 DEF MergePr, Sound, Framed, Backed, Vetted, Recorded, Pending, IInv
  <1> QED
    BY <1>2, <1>3, <1>4, OneClone DEF MergePr

LEMMA Inductive == IInv /\ [Next]_vars => IInv'
  <1> SUFFICES ASSUME IInv, [Next]_vars PROVE IInv'
    OBVIOUS
  <1>1. CASE Midnight
    BY <1>1, MidnightKeeps
  <1>2. ASSUME NEW c \in Clones, Step(c) PROVE IInv'
    BY <1>2, CheckoutKeeps, ReportKeeps, DieKeeps, MergePrKeeps, StartKeeps, RewriteKeeps,
       EditStatusKeeps, ValidateKeeps, MirrorTenantKeeps, PushKeeps DEF Step
  <1>3. CASE UNCHANGED vars
    <2>1. TypeOK'
      BY <1>3 DEF IInv, TypeOK, vars
    <2> QED
      BY <1>3, <2>1, Unmoved DEF IInv, vars
  <1> QED
    BY <1>1, <1>2, <1>3 DEF Next

LEMMA Invariance == Spec => []IInv
  BY InitStep, Inductive, PTL DEF Spec

-----------------------------------------------------------------------------
(* The theorems. *)

\* Trees, branches, commands and counts stay what they are taken for.
THEOREM TypeCorrect == Spec => []TypeOK
  BY Invariance, PTL DEF IInv

\* However commands fail, repeat and merge over each other, a stamp without the
\* flag was earned on its day, and every audit record is of a change.
THEOREM NothingUnearned == Spec => []NothingToldUnearned
  <1>1. IInv => NothingToldUnearned
    <2> SUFFICES ASSUME IInv PROVE NothingToldUnearned
      OBVIOUS
    <2>1. CleanStampsAreEarned
      BY DEF IInv, Sound, Backed, Earned, CleanStampsAreEarned
    <2>2. RecordsOfChanges
      BY ToldMade DEF IInv, Sound, RecordsOfChanges
    <2> QED
      BY <2>1, <2>2 DEF NothingToldUnearned
  <1> QED
    BY <1>1, Invariance, PTL

\* detect_production_promotions.py looks at a merge with the main of its day: it
\* speaks of the merge that happens as long as that file is still the same.
THEOREM PromotionsCarryStamps == Spec => PromotionsStamped
  <1> DEFINE A ==
        \A c \in Clones, r \in Rules :
          /\ MergePr(c) /\ ~pr[c].mirror /\ main[r] = pr[c].seen[r]
          /\ main'[r].status = "production" /\ main[r].status # "production"
          => main'[r].stamp # NoStamp
  <1>1. IInv /\ [Next]_vars => [A]_vars
    <2> SUFFICES ASSUME IInv, NEW c \in Clones, NEW r \in Rules,
                        MergePr(c), ~pr[c].mirror, main[r] = pr[c].seen[r],
                        main'[r].status = "production", main[r].status # "production"
                 PROVE  main'[r].stamp # NoStamp
      BY DEF A
    <2>1. main'[r] = Result(c, r) /\ pr[c].check = "green"
      BY MergedMain DEF Result, MergePr
    <2>2. main'[r].stamp.at # Never
      BY <2>1 DEF IInv, Sound, Vetted
    <2> QED
      BY <2>2 DEF NoStamp
  <1> HIDE DEF A
  <1> QED
    BY <1>1, Invariance, PTL DEF Spec, PromotionsStamped, A

\* check_version_bump.py, and git: a version on main never goes back, and a change
\* of the file that the check saw has moved it.
THEOREM VersionsOnlyMove == Spec => VersionsMove
  <1> DEFINE A ==
        \A c \in Clones, r \in Rules : MergePr(c) =>
          /\ main'[r].version >= main[r].version
          /\ main[r] = pr[c].seen[r] /\ main'[r] # main[r] => main'[r].version # main[r].version
  <1>1. IInv /\ [Next]_vars => [A]_vars
    <2> SUFFICES ASSUME IInv, NEW c \in Clones, NEW r \in Rules, MergePr(c)
                 PROVE  /\ main'[r].version >= main[r].version
                        /\ main[r] = pr[c].seen[r] /\ main'[r] # main[r]
                             => main'[r].version # main[r].version
      BY DEF A
    <2>1. main[r] = pr[c].seen[r] => main'[r] = Result(c, r)
      BY MergedMain DEF Result
    <2>2. Vetted(c) /\ pr[c].check = "green"
      BY DEF IInv, Sound, MergePr
    <2> QED
      BY <2>1, <2>2, MergedMain DEF Vetted
  <1> HIDE DEF A
  <1> QED
    BY <1>1, Invariance, PTL DEF Spec, VersionsMove, A
=============================================================================
