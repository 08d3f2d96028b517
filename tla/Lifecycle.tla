------------------------------ MODULE Lifecycle ------------------------------
(***************************************************************************)
(* The life of a rule's file: experimental, production, deprecated.        *)
(* Operators run `contentops lifecycle promote', `disable', `enable',      *)
(* `lock' and `unlock' in a clone, or edit the file; a pull request, which *)
(* two checks look at when it is pushed, brings it to main.  Imports from  *)
(* the tenant come as pull requests of their own.                          *)
(***************************************************************************)
EXTENDS PromotionGates, GitMerge, Sequences, FiniteSets

CONSTANTS
  Rules,
  Clones,       \* the clones, each with one pull request at a time
  Workspaces,   \* what a promotion may learn of the workspace
  Selections,   \* what operators select: a rule, or a cohort in the order of its ids
  InitialFiles, \* what a file may be at first
  MaxDay,       \* bound
  MaxVersion,   \* bound: the patch component of a file's version
  MaxPrs,       \* bound: pull requests opened
  MaxCommands   \* bound: commands started

Days == 0 .. MaxDay
Stamps == [at : Days \cup {Never}, forced : BOOLEAN]
Statuses == {"experimental", "production", "deprecated"}
(* `plain': the status line carries no comment, as the templates have one. *)
File == [status : Statuses, plain : BOOLEAN, stamp : Stamps, validated : Days \cup {Never},
         locked : BOOLEAN, version : 0 .. MaxVersion]
Tree == [Rules -> File]

ASSUME LifecycleAssumption ==
  /\ {MaxDay, MaxVersion, MaxPrs, MaxCommands} \subseteq Nat
  /\ InitialFiles \subseteq File /\ Selections \subseteq Seq(Rules)

(* The commands; a lock is of one rule.  `changed' are the files changed so far. *)
Command(verbs, sels, targets, forces, lookups) ==
  [verb : verbs, todo : sels, to : targets, force : forces, lookup : lookups, changed : {{}}]
Commands ==
  Command({"promote"}, Selections, {"none"}, BOOLEAN, {ws.lookup : ws \in Workspaces})
  \cup Command({"disable"}, Selections, {"none"}, {FALSE}, {"none"})
  \cup Command({"enable"}, Selections, {"experimental", "production"}, {FALSE}, {"none"})
  \cup Command({"lock", "unlock"}, {sel \in Selections : Len(sel) = 1}, {"none"}, {FALSE}, {"none"})

VARIABLES
  today,
  main,        \* the files at the head of main
  pr,          \* pr[c]: the branch of the clone and what its checks said
  job,         \* job[c]: the command that runs in the clone
  told,        \* told[c][r]: audit records of r that the clone's trail has
  made,        \* history: the changes of r by a command that records
  earned,      \* history: the promotions that the evidence of their day supported
  opened, started

counters == <<opened, started>>
vars == <<today, main, pr, job, told, made, earned, counters>>

NoStamp == [at |-> Never, forced |-> FALSE]
(* `seen' is the main of the last check; `byHand' is history: the rules whose *)
(* status was last set in an editor.                                          *)
NoPr == [open |-> FALSE, mirror |-> FALSE, base |-> <<>>, head |-> <<>>,
         seen |-> <<>>, check |-> "none", byHand |-> {}]
Idle == [verb |-> "none", changed |-> {}]

------------------------------------------------------------------------------
(* What a command makes of one file. *)

StampPromotion(old, forced) == [at |-> today, forced |-> forced]

Promoted(f, passed) ==
  [f EXCEPT !.status = "production", !.stamp = StampPromotion(@, ~passed)]

Disabled(f) == [f EXCEPT !.status = "deprecated"]

\* A direct way back to production is stamped, and flagged.
Enabled(f, to) ==
  IF f.status # "deprecated" THEN f
  ELSE [f EXCEPT !.status = to,
                 !.stamp = IF to = "production" THEN StampPromotion(@, TRUE) ELSE @]

Rewritten(f, j, ws) ==
  LET passed == CheckGates(f, today, ws) IN
  CASE j.verb = "promote" -> IF passed \/ j.force THEN Promoted(f, passed) ELSE f
    [] j.verb = "disable" -> Disabled(f)
    [] j.verb = "enable"  -> Enabled(f, j.to)
    [] j.verb = "lock"    -> [f EXCEPT !.locked = TRUE]
    [] j.verb = "unlock"  -> [f EXCEPT !.locked = FALSE]

------------------------------------------------------------------------------
(* The commands, one file after the other, in a clone. *)

Init ==
  /\ today = 0 /\ main \in [Rules -> InitialFiles]
  /\ pr = [c \in Clones |-> NoPr] /\ job = [c \in Clones |-> Idle]
  /\ told = [c \in Clones |-> [r \in Rules |-> 0]] /\ made = told
  /\ earned = {<<r, main[r].stamp.at>> : r \in Rules}
  /\ opened = 0 /\ started = 0

Midnight == /\ today < MaxDay /\ today' = today + 1
            /\ UNCHANGED <<main, pr, job, told, made, earned, counters>>

Checkout(c) ==
  /\ pr[c] = NoPr /\ job[c] = Idle /\ opened < MaxPrs /\ opened' = opened + 1
  /\ pr' = [pr EXCEPT ![c] = [NoPr EXCEPT !.open = TRUE, !.base = main, !.head = main]]
  /\ UNCHANGED <<today, main, job, told, made, earned, started>>

Working(c) == pr[c].open /\ ~pr[c].mirror /\ job[c] = Idle /\ pr[c].check # "green"

Start(c, cmd) ==
  /\ Working(c) /\ started < MaxCommands /\ started' = started + 1
  /\ job' = [job EXCEPT ![c] = cmd]
  /\ UNCHANGED <<today, main, pr, told, made, earned, opened>>

Refused(j, f) == ~f.plain /\ j.verb \notin {"lock", "unlock"}
Records(j) == j.verb # "promote"

\* What a promotion of that day is to rest on.
Evidence(f, ws) ==
  /\ CurrentlyExperimental(f) /\ RecentValidation(f, today)
  /\ \/ ws.lookup = "declined"
     \/ ws.lookup = "found" /\ ws.runs /\ ws.read /\ FpAccepted(ws.rows)

\* The next file.  At one that it cannot rewrite, disable or enable stops;
\* a promotion goes on with the others.
Rewrite(c, ws) ==
  LET j == job[c]
      r == Head(j.todo)
      old == pr[c].head[r]
      new == IF Refused(j, old) THEN old ELSE Rewritten(old, j, ws)
  IN
  /\ j # Idle /\ j.todo # <<>>
  /\ j.verb = "promote" => ws.lookup = j.lookup
  /\ j.verb # "promote" => ws = CHOOSE w \in Workspaces : TRUE
  /\ pr' = [pr EXCEPT ![c].head[r] = new,
                      ![c].byHand = IF new.status = old.status THEN @ ELSE @ \ {r}]
  /\ job' = [job EXCEPT ![c] =
               IF Refused(j, old) /\ Records(j) THEN Idle
               ELSE [j EXCEPT !.todo = Tail(@),
                              !.changed = IF new # old THEN @ \cup {r} ELSE @]]
  /\ made' = IF new # old /\ Records(j) THEN [made EXCEPT ![c][r] = @ + 1] ELSE made
  /\ earned' = IF j.verb = "promote" /\ Evidence(old, ws) THEN earned \cup {<<r, today>>} ELSE earned
  /\ UNCHANGED <<today, main, told, counters>>

\* When all files are done, the records are written, in one batch.
Report(c) ==
  /\ job[c] # Idle /\ job[c].todo = <<>>
  /\ told' = IF Records(job[c])
             THEN [told EXCEPT ![c] = [r \in Rules |-> @[r] + IF r \in job[c].changed THEN 1 ELSE 0]]
             ELSE told
  /\ job' = [job EXCEPT ![c] = Idle]
  /\ UNCHANGED <<today, main, pr, made, earned, counters>>

\* The process dies, or the batch is refused: the files stay as they are.
Die(c) ==
  /\ job[c] # Idle /\ job' = [job EXCEPT ![c] = Idle]
  /\ UNCHANGED <<today, main, pr, told, made, earned, counters>>

\* Edits by hand: a status, and a fresh lastValidatedAt.
EditStatus(c, r, s) ==
  /\ Working(c) /\ started < MaxCommands /\ started' = started + 1
  /\ s # pr[c].head[r].status
  /\ pr' = [pr EXCEPT ![c].head[r].status = s, ![c].byHand = @ \cup {r}]
  /\ UNCHANGED <<today, main, job, told, made, earned, opened>>

Validate(c, r) ==
  /\ Working(c) /\ started < MaxCommands /\ started' = started + 1
  /\ pr' = [pr EXCEPT ![c].head[r].validated = today]
  /\ UNCHANGED <<today, main, job, told, made, earned, opened>>

------------------------------------------------------------------------------
(* The checks of a pull request, of its merge with the main of that moment. *)

Conflict(p, tree) == \E r \in Rules : FieldsDiffer(p.base[r], tree[r], p.head[r])
MergeOf(p, tree) == [r \in Rules |-> FieldsMerged(p.base[r], tree[r], p.head[r])]

FreshStamp(f) == f.stamp.at # Never /\ today - f.stamp.at \in 0 .. MaxAge

\* Mutant: only what was experimental counts as a promotion.
PromotionsFromExperimental(p, result) ==
  {r \in Rules : result[r].status = "production" /\ main[r].status = "experimental"}

\* detect_promotions; a branch that mirrors the tenant is not looked at.
Promotions(p, result) ==
  IF p.mirror THEN {}
  ELSE {r \in Rules : result[r].status = "production" /\ main[r].status # "production"}

\* Mutant: only a new status asks for a new version.
SameStatus(f, g) == f.status = g.status
SameButVersion(f, g) == [f EXCEPT !.version = g.version] = g
Unbumped(result) ==
  {r \in Rules : ~SameButVersion(result[r], main[r]) /\ result[r].version = main[r].version}

Checked(p) ==
  LET result == MergeOf(p, main) IN
  CASE Conflict(p, main) -> "none"
    [] ~Conflict(p, main) /\ (\A r \in Promotions(p, result) : FreshStamp(result[r]))
         /\ Unbumped(result) = {} -> "green"
    [] OTHER -> "red"

Pushed(p) == [p EXCEPT !.check = Checked(p), !.seen = main]

\* The author sets the versions of what changed, or forgets: no command does.
Bump(f) == [f EXCEPT !.version = @ + 1]
Push(c, bump) ==
  LET p == pr[c]
      bumped == {r \in Rules : bump /\ p.head[r] # p.base[r]}
      head == [r \in Rules |-> IF r \in bumped THEN Bump(p.head[r]) ELSE p.head[r]]
  IN
  /\ Working(c) /\ \A r \in bumped : p.head[r].version < MaxVersion
  /\ pr' = [pr EXCEPT ![c] = Pushed([p EXCEPT !.head = head])]
  /\ UNCHANGED <<today, main, job, told, made, earned, counters>>

\* The tenant is on or off, and an import has no stamp and no lock to keep.
Mirrored(f, on) ==
  [f EXCEPT !.status = IF on THEN "production" ELSE "deprecated", !.plain = TRUE,
            !.stamp = NoStamp, !.locked = FALSE, !.version = @ + 1]

MirrorTenant(c, r, on) ==
  /\ pr[c] = NoPr /\ job[c] = Idle /\ opened < MaxPrs /\ opened' = opened + 1
  /\ main[r].version < MaxVersion
  /\ pr' = [pr EXCEPT ![c] = Pushed([NoPr EXCEPT !.open = TRUE, !.mirror = TRUE, !.base = main,
                                       !.head = [main EXCEPT ![r] = Mirrored(@, on)]])]
  /\ UNCHANGED <<today, main, job, told, made, earned, started>>

\* A reviewer merges what is green and free of conflicts, whatever main is by now.
MergePr(c) ==
  /\ pr[c].check = "green" /\ job[c] = Idle /\ ~Conflict(pr[c], main)
  /\ main' = MergeOf(pr[c], main)
  /\ pr' = [pr EXCEPT ![c] = NoPr]
  /\ UNCHANGED <<today, job, told, made, earned, counters>>

------------------------------------------------------------------------------
Step(c) ==
  \/ Checkout(c) \/ Report(c) \/ Die(c) \/ MergePr(c)
  \/ \E cmd \in Commands : Start(c, cmd)
  \/ \E ws \in Workspaces : Rewrite(c, ws)
  \/ \E r \in Rules : \/ \E s \in Statuses : EditStatus(c, r, s)
                      \/ Validate(c, r)
                      \/ \E on \in BOOLEAN : MirrorTenant(c, r, on)
  \/ \E bump \in BOOLEAN : Push(c, bump)

Next == Midnight \/ \E c \in Clones : Step(c)
Spec == Init /\ [][Next]_vars

------------------------------------------------------------------------------
(* Properties. *)

PullRequest ==
  [open : BOOLEAN, mirror : BOOLEAN, base : Tree \cup {<<>>}, head : Tree \cup {<<>>},
   seen : Tree \cup {<<>>}, check : {"none", "green", "red"}, byHand : SUBSET Rules]
Job ==
  [verb : {"promote", "disable", "enable", "lock", "unlock"}, todo : Seq(Rules),
   to : {"none", "experimental", "production"}, force : BOOLEAN,
   lookup : {ws.lookup : ws \in Workspaces} \cup {"none"}, changed : SUBSET Rules]

TypeOK ==
  /\ today \in Days /\ main \in Tree
  /\ pr \in [Clones -> PullRequest]
  /\ job \in [Clones -> {Idle} \cup {j \in Job : j.verb = "enable" => j.to # "none"}]
  /\ told \in [Clones -> [Rules -> Nat]] /\ made \in [Clones -> [Rules -> Nat]]
  /\ earned \subseteq Rules \X (Days \cup {Never})

\* A stamp without the flag means that all gates of `lifecycle promote' had
\* passed that day (lifecycle.py:525), in every branch and on main, through
\* forced promotions over old stamps, restores, imports and merges.
CleanStampsAreEarned ==
  LET earnedIn(tree) == \A r \in Rules :
        tree[r].stamp.at # Never /\ ~tree[r].stamp.forced => <<r, tree[r].stamp.at>> \in earned
  IN earnedIn(main) /\ \A c \in Clones : pr[c].open => earnedIn(pr[c].head)

\* No audit record is of a change that was not made, however often a command
\* died and was repeated over files that it had already changed.
RecordsOfChanges == \A c \in Clones, r \in Rules : told[c][r] <= made[c][r]

\* Neither a stamp nor a record tells of what did not happen.
NothingToldUnearned == CleanStampsAreEarned /\ RecordsOfChanges

\* What the checks passed is what is merged, as long as the file on main is the
\* one they saw: a promotion brings a stamp (detect_production_promotions.py:15).
PromotionsStamped ==
  [][\A c \in Clones, r \in Rules :
       /\ MergePr(c) /\ ~pr[c].mirror /\ main[r] = pr[c].seen[r]
       /\ main'[r].status = "production" /\ main[r].status # "production"
       => main'[r].stamp # NoStamp]_vars

\* A version on main never goes back, and two contents of a file on main have two
\* versions (check_version_bump.py:6), unless another pull request changed the
\* file after the check.
VersionsMove ==
  [][\A c \in Clones, r \in Rules : MergePr(c) =>
       /\ main'[r].version >= main[r].version
       /\ main[r] = pr[c].seen[r] /\ main'[r] # main[r] => main'[r].version # main[r].version]_vars

\* "A direct YAML edit flipping status: production has no stamp and fails"
\* (docs/reference/feature-catalog.md:338).  It does not hold: the check accepts
\* a stamp of the last thirty days, of whatever commit
\* (detect_production_promotions.py:139).
HandEditsRejected ==
  [][\A c \in Clones, r \in Rules :
       MergePr(c) /\ main'[r].status = "production" /\ main[r].status # "production"
         => r \notin pr[c].byHand]_vars
==============================================================================
