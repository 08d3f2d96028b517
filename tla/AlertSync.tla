----------------------------- MODULE AlertSync -----------------------------
(***************************************************************************)
(* `contentops alerts sync' and the rollup that follows it.  A run exports *)
(* days of alerts into one file each, patches all files with what ARM says *)
(* of the incidents, rebuilds the ledger from the files, checks the ledger *)
(* against the incidents as they are now, and deletes old files.           *)
(*                                                                         *)
(* The run is sequential; analysts triage incidents between its steps, the *)
(* sources fail, and the run may die at each of its writes.  A run happens *)
(* on a workstation, where all files stay, or on a runner, where only what *)
(* alerts-report.yml caches stays, and only when the job succeeds.         *)
(***************************************************************************)
EXTENDS Naturals, FiniteSetsExt

CONSTANTS
  SentinelOnly,   \* alerts that only Log Analytics tells of
  GraphOnly,      \* alerts that only Graph alerts_v2 tells of
  Both,           \* alerts that both tell of, under different ids
  DayOf,          \* the day on which each alert was raised
  LastDay,        \* bound: the last day of the calendar
  ReexportDays,   \* alerts.reexportDays
  BackfillDays,   \* alerts.defenderLookbackDays
  ArmDays,        \* alerts.armOverlayDays
  RetentionDays,  \* alerts.ledgerRetentionDays
  Places,         \* where runs happen: "workstation", "runner"
  MaxFaults,      \* bound: failed calls and crashes
  MaxTriage       \* bound: changes that analysts make

Alerts == SentinelOnly \cup GraphOnly \cup Both
InSentinel == SentinelOnly \cup Both
InGraph == GraphOnly \cup Both
Days == 1 .. LastDay

(* An incident is open or closed, classified or not.  Open and unclassified is *)
(* the classification "" of ARM; closed and unclassified is its "Undetermined". *)
Verdict == [class : {"undetermined", "truePositive"}, closed : BOOLEAN]
New == [class |-> "undetermined", closed |-> FALSE]
Named(v) == v.closed \/ v.class # "undetermined"

(* SystemAlertId or Graph's id: the two never coincide. *)
Scheme == {"system", "graph"}
LedgerEntry == [alert : Alerts, id : Scheme, verdict : Verdict]
Entry(a, id, v) == [alert |-> a, id |-> id, verdict |-> v]

ASSUME ConfigAssumption ==
  /\ IsFiniteSet(Alerts)
  /\ DayOf \in [Alerts -> Days]
  /\ SentinelOnly \cap GraphOnly = {} /\ Both \cap (SentinelOnly \cup GraphOnly) = {}
  /\ {LastDay, ReexportDays, BackfillDays, ArmDays, RetentionDays, MaxFaults, MaxTriage} \subseteq Nat

VARIABLES
  place,      \* where the runs of this behaviour happen
  today,
  verdict,    \* the incident of each alert, as it is now
  touched,    \* the day on which each incident last changed
  files,      \* alerts-reports/daily: the days that have a file, and its entries
  ledger,     \* alert-ledger.jsonl
  rollups,    \* daily-rollups.jsonl: what it counts for each day it has
  cache,      \* what actions/cache keeps for the next job
  pc,
  mode, target, force,  \* --backfill, --date with its date, --force, or none of them
  todo,       \* the days it has still to export
  arm, graph, \* what it fetched once: incidents and Graph alerts
  repaired,   \* whether the reconciliation has exported a day again
  reported,   \* history: the alerts that the ledger of a finished run had
  torn,       \* history: the days whose file a crash cut short, until they are exported again
  faults, triages

config == <<place>>
live == <<verdict, touched, triages>>
disk == <<files, ledger, rollups, cache>>
fetched == <<arm, graph>>
request == <<mode, target, force>>
history == <<reported, torn>>
vars == <<config, today, live, disk, pc, request, todo, fetched, repaired, history, faults>>

Nothing == [d \in {} |-> {}]
Subtract(d, n) == IF d > n THEN d - n ELSE 0

------------------------------------------------------------------------------
(* What a run exports. *)

Primary ==
  CASE mode = "yesterday" -> {today - 1}
    [] mode = "backfill" -> (Subtract(today, BackfillDays) .. (today - 1)) \cap Days
    [] mode = "date" -> {target}
Reexported ==
  IF mode = "backfill" THEN {} ELSE ((Subtract(today, ReexportDays) .. (today - 1)) \cap Days) \ Primary

(* The primary days first, the days to export again from yesterday back; a     *)
(* reconciliation takes its days as they come in the calendar.                *)
NextDay ==
  IF pc = "repair" THEN Min(todo)
  ELSE IF todo \cap Primary # {} THEN Min(todo \cap Primary) ELSE Max(todo)

------------------------------------------------------------------------------
(* One day: the query, the merge with Graph, the overlay. *)

(* The joined query tells of the incidents, the plain one does not. *)
KqlRows(d, joined) ==
  {Entry(a, "system", IF joined THEN verdict[a] ELSE New) : a \in {x \in InSentinel : DayOf[x] = d}}

(* A Graph alert and a SecurityAlert row are the same alert when they share the *)
(* vendor's id: Graph's id is VendorOriginalId, never SystemAlertId.            *)
SameAlert(g, s) == g.alert = s.alert

Merged(g, s) ==
  Entry(g.alert, g.id, [class |-> IF g.verdict.class # "undetermined" THEN g.verdict.class ELSE s.verdict.class,
                        closed |-> g.verdict.closed \/ s.verdict.closed])

MergeAlerts(gs, ss) ==
  {Merged(p[1], p[2]) : p \in {q \in gs \X ss : SameAlert(q[1], q[2])}}
    \cup {g \in gs : \A s \in ss : ~SameAlert(g, s)}
    \cup {s \in ss : \A g \in gs : ~SameAlert(g, s)}

(* ARM knows an alert by its SystemAlertId only. *)
Patched(e) == e.id = "system" /\ e.alert \in DOMAIN arm

(* In memory an incident without a classification leaves the alert's as it is. *)
OverlayAlert(e) ==
  IF ~Patched(e) THEN e
  ELSE LET v == arm[e.alert] IN
       Entry(e.alert, e.id, [class |-> IF Named(v) THEN v.class ELSE e.verdict.class, closed |-> v.closed])

(* In a file it leaves it too, unless the entry was closed. *)
OverlayEntry(e) ==
  IF ~Patched(e) THEN e
  ELSE LET v == arm[e.alert] IN
       Entry(e.alert, e.id,
             [class |-> IF Named(v) THEN v.class
                        ELSE IF e.verdict.closed THEN "undetermined" ELSE e.verdict.class,
              closed |-> v.closed])

DayAlerts(d, joined) ==
  {OverlayAlert(e) : e \in MergeAlerts({g \in graph : DayOf[g.alert] = d}, KqlRows(d, joined))}

With(d, content) == [x \in DOMAIN files \cup {d} |-> IF x = d THEN content ELSE files[x]]

WriteDay(d, content) ==
  /\ files' = With(d, content)
  /\ torn' = torn \ {d}

(* The process dies while it fills the file. *)
CutDay(d, content) ==
  \E rest \in SUBSET content \ {content} :
    /\ files' = With(d, rest)
    /\ torn' = torn \cup {d}

------------------------------------------------------------------------------
Init ==
  /\ place \in Places
  /\ today = 2
  /\ verdict = [a \in Alerts |-> New]
  /\ touched = DayOf
  /\ files = Nothing /\ ledger = {} /\ rollups = Nothing
  /\ cache = [ledger |-> {}, rollups |-> Nothing]
  /\ pc = "idle" /\ mode = "yesterday" /\ target = 1 /\ force = FALSE
  /\ todo = {} /\ arm = Nothing /\ graph = {} /\ repaired = FALSE
  /\ reported = {} /\ torn = {}
  /\ faults = 0 /\ triages = 0

Fault == faults < MaxFaults /\ faults' = faults + 1

(* No run starts before midnight and ends after it. *)
Tomorrow ==
  /\ pc = "idle" /\ today < LastDay
  /\ today' = today + 1
  /\ UNCHANGED <<config, live, disk, pc, request, todo, fetched, repaired, history, faults>>

(* An analyst closes, classifies or reopens the incident of an alert; only the *)
(* steps before a read of the incidents are told apart.                        *)
Triage(a, v) ==
  /\ pc \in {"idle", "export", "reconcile", "repair"}
  /\ triages < MaxTriage /\ DayOf[a] < today /\ v # verdict[a]
  /\ verdict' = [verdict EXCEPT ![a] = v]
  /\ touched' = [touched EXCEPT ![a] = today]
  /\ triages' = triages + 1
  /\ UNCHANGED <<config, today, disk, pc, request, todo, fetched, repaired, history, faults>>

(* A job restores the cache: the ledger and the rollups, not the days' files. *)
Sync(m, t, f) ==
  /\ pc = "idle"
  /\ IF m = "date" THEN t < today ELSE t = 1
  /\ place = "runner" => m # "date" /\ ~f
  /\ mode' = m /\ target' = t /\ force' = f /\ pc' = "fetch"
  /\ IF place = "runner"
     THEN /\ files' = Nothing /\ torn' = {}
          /\ ledger' = cache.ledger /\ rollups' = cache.rollups
     ELSE UNCHANGED <<files, torn, ledger, rollups>>
  /\ UNCHANGED <<config, today, live, cache, todo, fetched, repaired, reported, faults>>

(* The probe finds no source: detect_source raises. *)
NoSource ==
  /\ pc = "fetch" /\ Fault
  /\ pc' = "idle"
  /\ UNCHANGED <<config, today, live, disk, request, todo, fetched, repaired, history>>

RecentIncidents == {a \in InSentinel : DayOf[a] < today /\ touched[a] >= Subtract(today, ArmDays)}
GraphWindow == {a \in InGraph : \E first, last \in Primary \cup Reexported : DayOf[a] \in first .. last}

(* A source that fails, or a probe that finds no Graph, leaves an empty list. *)
Fetch ==
  /\ pc = "fetch"
  /\ todo' = Primary \cup Reexported
  /\ \/ /\ arm' = [a \in RecentIncidents |-> verdict[a]]
        /\ graph' = {Entry(a, "graph", verdict[a]) : a \in GraphWindow}
        /\ UNCHANGED faults
     \/ /\ Fault
        /\ arm' = Nothing
        /\ graph' = {Entry(a, "graph", verdict[a]) : a \in GraphWindow}
     \/ /\ Fault
        /\ arm' = [a \in RecentIncidents |-> verdict[a]]
        /\ graph' = {}
  /\ pc' = "export"
  /\ UNCHANGED <<config, today, live, disk, request, repaired, history>>

\* Mutant: a day to export again is skipped when it has a file.
ForcedByFlag(d) == force
Forced(d) == force \/ d \in Reexported

Exported(d) == d \notin DOMAIN files \/ Forced(d)

ExportDay ==
  /\ pc = "export" /\ todo # {}
  /\ IF Exported(NextDay)
     THEN \/ WriteDay(NextDay, DayAlerts(NextDay, TRUE)) /\ UNCHANGED faults
          \/ WriteDay(NextDay, DayAlerts(NextDay, FALSE)) /\ Fault
     ELSE UNCHANGED <<files, torn, faults>>
  /\ todo' = todo \ {NextDay}
  /\ UNCHANGED <<config, today, live, ledger, rollups, cache, pc, request, fetched, repaired, reported>>

(* Both queries fail, or the process dies before or in the middle of the file. *)
ExportDies ==
  /\ pc = "export" /\ todo # {} /\ Exported(NextDay) /\ Fault
  /\ \/ UNCHANGED <<files, torn>>
     \/ CutDay(NextDay, DayAlerts(NextDay, TRUE))
  /\ pc' = "idle"
  /\ UNCHANGED <<config, today, live, ledger, rollups, cache, request, todo, fetched, repaired, reported>>

Overlaid == [d \in DOMAIN files |-> {OverlayEntry(e) : e \in files[d]}]

OverlayFiles ==
  /\ pc = "export" /\ todo = {}
  /\ files' = Overlaid
  /\ pc' = "truncate"
  /\ UNCHANGED <<config, today, live, ledger, rollups, cache, request, todo, fetched, repaired, history, faults>>

(* The files before the one it dies in are patched, that one is cut short. *)
OverlayDies ==
  /\ pc = "export" /\ todo = {} /\ Fault
  /\ \E d \in {x \in DOMAIN files : Overlaid[x] # files[x]} : \E rest \in SUBSET Overlaid[d] \ {Overlaid[d]} :
       /\ files' = [x \in DOMAIN files |-> IF x < d THEN Overlaid[x] ELSE IF x = d THEN rest ELSE files[x]]
       /\ torn' = torn \cup {d}
  /\ pc' = "idle"
  /\ UNCHANGED <<config, today, live, ledger, rollups, cache, request, todo, fetched, repaired, reported>>

------------------------------------------------------------------------------
(* The ledger is emptied, then the union of the files is appended to it. *)

\* Mutant: the union of the days of this run only.
UnionOfRun == UNION {files[d] : d \in DOMAIN files \cap (Primary \cup Reexported)}
UnionOfFiles ==
  {e \in UNION {files[d] : d \in DOMAIN files} :
     \E d \in DOMAIN files : e \in files[d]
        /\ \A later \in DOMAIN files : later > d => \A x \in files[later] : <<x.alert, x.id>> # <<e.alert, e.id>>}

TruncateLedger ==
  /\ pc = "truncate"
  /\ ledger' = {}
  /\ pc' = "append"
  /\ UNCHANGED <<config, today, live, files, rollups, cache, request, todo, fetched, repaired, history, faults>>

AppendLedger ==
  /\ pc = "append"
  /\ ledger' = UnionOfFiles
  /\ pc' = IF repaired THEN "prune" ELSE "reconcile"
  /\ UNCHANGED <<config, today, live, files, rollups, cache, request, todo, fetched, repaired, history, faults>>

AppendDies ==
  /\ pc = "append" /\ Fault
  /\ \E part \in SUBSET UnionOfFiles \ {UnionOfFiles} : ledger' = part
  /\ pc' = "idle"
  /\ repaired' = FALSE
  /\ UNCHANGED <<config, today, live, files, rollups, cache, request, todo, fetched, history>>

(* An entry is stale when its incident, looked up by SystemAlertId, says otherwise. *)
\* Mutant: only the status is compared, not the classification.
StaleStatus(e) == e.id = "system" /\ verdict[e.alert].closed # e.verdict.closed
Stale(e) == e.id = "system" /\ verdict[e.alert] # e.verdict

Reconcile ==
  /\ pc = "reconcile"
  /\ LET stale == {DayOf[e.alert] : e \in {x \in ledger : Stale(x)}} IN
       /\ todo' = stale
       /\ pc' = IF stale = {} THEN "prune" ELSE "repair"
  /\ UNCHANGED <<config, today, live, disk, request, fetched, repaired, history, faults>>

ReconcileFails ==
  /\ pc = "reconcile" /\ Fault
  /\ pc' = "prune"
  /\ UNCHANGED <<config, today, live, disk, request, todo, fetched, repaired, history>>

(* A stale day is exported again with the query alone; a failure skips the day. *)
RepairDay ==
  /\ pc = "repair"
  /\ \/ /\ WriteDay(NextDay, KqlRows(NextDay, TRUE))
        /\ repaired' = TRUE
        /\ UNCHANGED faults
     \/ /\ Fault
        /\ UNCHANGED <<files, torn, repaired>>
  /\ todo' = todo \ {NextDay}
  /\ pc' = IF todo' # {} THEN "repair" ELSE IF repaired' THEN "truncate" ELSE "prune"
  /\ UNCHANGED <<config, today, live, ledger, rollups, cache, request, fetched, reported>>

RepairDies ==
  /\ pc = "repair" /\ Fault
  /\ CutDay(NextDay, KqlRows(NextDay, TRUE))
  /\ pc' = "idle" /\ repaired' = FALSE
  /\ UNCHANGED <<config, today, live, ledger, rollups, cache, request, todo, fetched, reported>>

Kept == IF mode = "date" THEN Primary ELSE {}

(* The last step of a sync deletes old files, after the ledger was rebuilt from them. *)
PruneDailyFiles ==
  /\ pc = "prune"
  /\ files' = Restrict(files, {d \in DOMAIN files : d >= Subtract(today, RetentionDays) \/ d \in Kept})
  /\ reported' = reported \cup {e.alert : e \in ledger}
  /\ pc' = "synced" /\ repaired' = FALSE
  /\ todo' = {} /\ arm' = Nothing /\ graph' = {}
  /\ UNCHANGED <<config, today, live, ledger, rollups, cache, request, torn, faults>>

------------------------------------------------------------------------------
Counts(S) == [alerts |-> Cardinality({<<e.alert, e.id>> : e \in S}),
              closed |-> Cardinality({e \in S : e.verdict.closed}),
              tp |-> Cardinality({e \in S : e.verdict.class = "truePositive"})]

(* The store is rewritten from the ledger, unless the ledger is empty. *)
BuildRollups ==
  IF ledger = {} THEN rollups
  ELSE [d \in {DayOf[e.alert] : e \in ledger} |-> Counts({e \in ledger : DayOf[e.alert] = d})]

(* `alerts rollup'; a job ends with it and the runner saves the cache. *)
Rollup ==
  /\ pc = "synced"
  /\ rollups' = BuildRollups
  /\ cache' = IF place = "runner" THEN [ledger |-> ledger, rollups |-> rollups'] ELSE cache
  /\ pc' = "idle"
  /\ UNCHANGED <<config, today, live, files, ledger, request, todo, fetched, repaired, history, faults>>

Next ==
  \/ Tomorrow
  \/ \E a \in InSentinel, v \in Verdict : Triage(a, v)
  \/ \E m \in {"yesterday", "backfill", "date"}, t \in Days, f \in BOOLEAN : Sync(m, t, f)
  \/ NoSource \/ Fetch
  \/ ExportDay \/ ExportDies \/ OverlayFiles \/ OverlayDies
  \/ TruncateLedger \/ AppendLedger \/ AppendDies
  \/ Reconcile \/ ReconcileFails \/ RepairDay \/ RepairDies
  \/ PruneDailyFiles \/ Rollup

(* The schedule starts a run every day, and a run that is not lost goes on.  Nothing *)
(* is assumed of the analysts, the operators or the faults.                          *)
Run == Fetch \/ ExportDay \/ OverlayFiles \/ TruncateLedger \/ AppendLedger
         \/ Reconcile \/ RepairDay \/ PruneDailyFiles \/ Rollup
Spec == Init /\ [][Next]_vars /\ WF_vars(Run) /\ WF_vars(Sync("yesterday", 1, FALSE))
------------------------------------------------------------------------------
TypeOK ==
  /\ place \in Places /\ today \in Days
  /\ verdict \in [Alerts -> Verdict] /\ touched \in [Alerts -> Days]
  /\ DOMAIN files \subseteq 1 .. (today - 1) /\ \A d \in DOMAIN files : files[d] \subseteq LedgerEntry
  /\ {ledger, cache.ledger} \subseteq SUBSET LedgerEntry
  /\ \A r \in {rollups, cache.rollups} : DOMAIN r \subseteq Days
  /\ pc \in {"idle", "fetch", "export", "truncate", "append", "reconcile", "repair", "prune", "synced"}
  /\ mode \in {"yesterday", "backfill", "date"} /\ target \in Days /\ force \in BOOLEAN /\ repaired \in BOOLEAN
  /\ todo \subseteq 1 .. (today - 1)
  /\ DOMAIN arm \subseteq InSentinel /\ graph \subseteq LedgerEntry
  /\ reported \subseteq Alerts /\ torn \subseteq Days

Tells(S, a) == \E e \in S : e.alert = a

(* No alert is counted under two ids, in a file, in the ledger or in the rollups, *)
(* however exports with Graph, without Graph and repairs of its day follow one    *)
(* another (merge.py:38, sync.py:69).                                            *)
CountedOnce ==
  /\ \A S \in {files[d] : d \in DOMAIN files} \cup {ledger} : \A e, f \in S : e.alert = f.alert => e = f
  /\ \A d \in DOMAIN rollups : rollups[d].alerts =< Cardinality({a \in Alerts : DayOf[a] = d})

(* A finished sync has every SecurityAlert of the days it exports again in the    *)
(* ledger, whatever a run that died has left in their files (sync.py:326).        *)
RecentDaysWhole ==
  pc = "synced" => \A a \in InSentinel : DayOf[a] \in Reexported => Tells(ledger, a)

(* On a workstation a SecurityAlert that a finished sync has reported stays in    *)
(* the ledger for the retention, unless a run died while it wrote the file of its *)
(* day and no run has exported that day since (ledger.py:300, 320).               *)
KeptUnlessTorn ==
  pc = "synced" /\ place = "workstation" =>
    \A a \in reported \cap InSentinel :
      Tells(ledger, a) \/ DayOf[a] \in torn \/ DayOf[a] < Subtract(today, RetentionDays)

(* A sync of a given date, however old, ends with the file of that date there     *)
(* (ledger.py:344).                                                              *)
AskedDateSurvives == pc = "synced" /\ mode = "date" => target \in DOMAIN files

(* What the ledger is for: every alert once, as long as its days are kept.        *)
LedgerKeeps == CountedOnce /\ KeptUnlessTorn /\ AskedDateSurvives

(* Once analysts and faults have come to rest, every finished sync leaves each    *)
(* SecurityAlert of the ledger with the verdict its incident has: the overlay, the *)
(* re-export and the reconciliation together miss nothing (sync.py:150, 362, 386). *)
VerdictsReachLedger ==
  /\ []<>(pc = "synced")
  /\ <>[](pc = "synced" => \A e \in ledger : e.id = "system" => e.verdict = verdict[e.alert])

(* alerts-reporting.md:178 "The alert ledger is a persistent, PII-free JSONL file": *)
(* what a finished sync has reported is there after the next ones, for the retention. *)
(* It does not hold on a runner: the job's cache (alerts-report.yml:70) keeps the     *)
(* ledger, and not the days' files that every sync rebuilds it from (ledger.py:321).  *)
LedgerPersists ==
  pc = "synced" => \A a \in reported : Tells(ledger, a) \/ DayOf[a] < Subtract(today, RetentionDays)
==============================================================================
