------------------------------ MODULE AuditChain ------------------------------
(***************************************************************************)
(* The audit trail: contentops/audit/writer.py.                            *)
(*                                                                         *)
(* `contentops apply`, `prune`, `rollback`, `retry-failed`, `promote` ...  *)
(* each end with one batch of records appended to audit/<today>.jsonl.     *)
(* A writer is one such process. It reads the tail of the chain, chains    *)
(* its batch off it, stages the day's file in a temporary file whose name  *)
(* every writer of that day shares, reads the tail again, and moves the    *)
(* temporary file into place. Each of those file operations is a step, so  *)
(* that other writers, midnight and crashes come in between.               *)
(***************************************************************************)
EXTENDS AuditRecords

CONSTANTS Retrying,     \* the writers that call write_records_with_retry
          MaxAttempts,  \* its "attempts" (3 in the code)
          MaxDay,       \* bound: calendar days, the names of the day files
          Batches,      \* batches a writer may have: candidate timestamps
          Overlap       \* how far writers may overlap, see MayStart, MayStage, MayPass

ASSUME WritersAssumption == IsFiniteSet(Writers)
ASSUME RetryingAssumption == Retrying \subseteq Writers
ASSUME AttemptsAssumption == MaxAttempts \in Nat \ {0}
ASSUME DayAssumption == MaxDay \in Nat \ {0}
ASSUME BatchAssumption ==
    Batches \subseteq {b \in Seq(Nat \ {0}) : Len(b) > 0}
ASSUME OverlapAssumption == Overlap \in {"serial", "staging", "free"}

VARIABLES files,     \* files[d]: the lines of audit/<d>.jsonl
          tmp,       \* tmp[d]: the lines of audit/<d>.jsonl.tmp, <<>> if none
          orphans,   \* writers whose batch is in an audit/<d>.jsonl.orphan
          today,     \* date.today()
          pc,        \* where each writer is in write_records
          batch,     \* the candidate timestamps of its records
          day,       \* the day of the file it picked
          seen,      \* the tail it read: prev_hash and prev_timestamp
          existing,  \* the lines of the day's file it read
          collided   \* attempts that ended in AuditConcurrentWriteError

vars == <<files, tmp, orphans, today, pc, batch, day, seen, existing, collided>>

Days == 1..MaxDay
RecordTail == [hash : Hash, ts : Nat]

Working == {"picked", "chained", "read", "staged", "cleared", "retry", "exhausted"}
Final == {"ok", "raised", "orphaned", "missing", "crashed"}

TypeOK ==
    /\ files \in [Days -> Seq(Record)]
    /\ tmp \in [Days -> Seq(Record)]
    /\ orphans \subseteq Writers
    /\ today \in Days
    /\ pc \in [Writers -> {"start"} \cup Working \cup Final]
    /\ batch \in [Writers -> Batches]
    /\ day \in [Writers -> Days]
    /\ seen \in [Writers -> RecordTail]
    /\ existing \in [Writers -> Seq(Record)]
    /\ collided \in [Writers -> Nat]

-----------------------------------------------------------------------------
LastRecordTail == TailWithin(files, Days)

\* The concurrency group of the workflows: one process of a group at a time,
\* from its start to its end. Local runs have none.
MayStart(w) ==
    Overlap = "serial" => \A v \in Writers \ {w} : pc[v] \notin Working

\* "staging" lets processes overlap, but not between writing the temporary file
\* and moving it, and not across midnight: what the re-check is enough for.
MayStage(w) ==
    Overlap = "staging" => \A v \in Writers \ {w} : pc[v] \notin {"staged", "cleared"}

MayPass == Overlap = "staging" => \A w \in Writers : pc[w] \notin Working

-----------------------------------------------------------------------------
Init ==
    /\ files = [d \in Days |-> <<>>]
    /\ tmp = [d \in Days |-> <<>>]
    /\ orphans = {}
    /\ today = 1
    /\ pc = [w \in Writers |-> "start"]
    /\ batch \in [Writers -> Batches]
    /\ day = [w \in Writers |-> 1]
    /\ seen = [w \in Writers |-> NoTail]
    /\ existing = [w \in Writers |-> <<>>]
    /\ collided = [w \in Writers |-> 0]

Goto(w, label) == pc' = [pc EXCEPT ![w] = label]

PickFile(w) ==
    /\ pc[w] = "retry" \/ (pc[w] = "start" /\ MayStart(w))
    /\ day' = [day EXCEPT ![w] = today]
    /\ Goto(w, "picked")
    /\ UNCHANGED <<files, tmp, orphans, today, batch, seen, existing, collided>>

ReadTail(w) ==
    /\ pc[w] = "picked"
    /\ seen' = [seen EXCEPT ![w] = LastRecordTail]
    /\ Goto(w, "chained")
    /\ UNCHANGED <<files, tmp, orphans, today, batch, day, existing, collided>>

ReadExisting(w) ==
    /\ pc[w] = "chained"
    /\ existing' = [existing EXCEPT ![w] = files[day[w]]]
    /\ Goto(w, "read")
    /\ UNCHANGED <<files, tmp, orphans, today, batch, day, seen, collided>>

\* Mutant: the temporary file holds the new lines only.
StageNewLinesOnly(w) ==
    /\ pc[w] = "read"
    /\ MayStage(w)
    /\ tmp' = [tmp EXCEPT ![day[w]] = ChainRecords(w, batch[w], seen[w])]
    /\ Goto(w, "staged")
    /\ UNCHANGED <<files, orphans, today, batch, day, seen, existing, collided>>

\* Mutant: the temporary file is a lock that must not exist yet.
StageWhenFree(w) ==
    /\ pc[w] = "read"
    /\ MayStage(w)
    /\ tmp[day[w]] = <<>>
    /\ tmp' = [tmp EXCEPT ![day[w]] =
                  existing[w] \o ChainRecords(w, batch[w], seen[w])]
    /\ Goto(w, "staged")
    /\ UNCHANGED <<files, orphans, today, batch, day, seen, existing, collided>>

\* open(tmp, "wb") truncates whatever is there, another writer's lines too.
Stage(w) ==
    /\ pc[w] = "read"
    /\ MayStage(w)
    /\ tmp' = [tmp EXCEPT ![day[w]] =
                  existing[w] \o ChainRecords(w, batch[w], seen[w])]
    /\ Goto(w, "staged")
    /\ UNCHANGED <<files, orphans, today, batch, day, seen, existing, collided>>

\* Mutant: the tail is held against the last staged record, not against the one
\* the batch is chained off.
TailIsStaged(w) ==
    tmp[day[w]] # <<>> /\ LastRecordTail.hash = tmp[day[w]][Len(tmp[day[w]])].hash

TailUnmoved(w) == LastRecordTail.hash = seen[w].hash

RecheckPasses(w) ==
    /\ pc[w] = "staged"
    /\ TailUnmoved(w)
    /\ Goto(w, "cleared")
    /\ UNCHANGED <<files, tmp, orphans, today, batch, day, seen, existing, collided>>

\* Mutant: the collision is swallowed and the caller told all is well.
CollisionSwallowed(w) ==
    /\ pc[w] = "staged"
    /\ ~TailUnmoved(w)
    /\ tmp' = [tmp EXCEPT ![day[w]] = <<>>]
    /\ collided' = [collided EXCEPT ![w] = @ + 1]
    /\ Goto(w, "ok")
    /\ UNCHANGED <<files, orphans, today, batch, day, seen, existing>>

\* unlink(tmp), whoever wrote it, and raise AuditConcurrentWriteError. The
\* retrying caller tries again until its attempts are used up.
RecheckFails(w) ==
    /\ pc[w] = "staged"
    /\ ~TailUnmoved(w)
    /\ tmp' = [tmp EXCEPT ![day[w]] = <<>>]
    /\ collided' = [collided EXCEPT ![w] = @ + 1]
    /\ Goto(w, IF w \notin Retrying THEN "raised"
               ELSE IF collided[w] + 1 < MaxAttempts THEN "retry" ELSE "exhausted")
    /\ UNCHANGED <<files, orphans, today, batch, day, seen, existing>>

Replace(w) ==
    /\ pc[w] = "cleared"
    /\ tmp[day[w]] # <<>>
    /\ files' = [files EXCEPT ![day[w]] = tmp[day[w]]]
    /\ tmp' = [tmp EXCEPT ![day[w]] = <<>>]
    /\ Goto(w, "ok")
    /\ UNCHANGED <<orphans, today, batch, day, seen, existing, collided>>

\* The temporary file is gone: os.replace raises FileNotFoundError.
ReplaceMissing(w) ==
    /\ pc[w] = "cleared"
    /\ tmp[day[w]] = <<>>
    /\ Goto(w, "missing")
    /\ UNCHANGED <<files, tmp, orphans, today, batch, day, seen, existing, collided>>

\* Mutant: the exhausted batch is dropped.
DropOrphanRecords(w) ==
    /\ pc[w] = "exhausted"
    /\ Goto(w, "orphaned")
    /\ UNCHANGED <<files, tmp, orphans, today, batch, day, seen, existing, collided>>

WriteOrphanRecords(w) ==
    /\ pc[w] = "exhausted"
    /\ orphans' = orphans \cup {w}
    /\ Goto(w, "orphaned")
    /\ UNCHANGED <<files, tmp, today, batch, day, seen, existing, collided>>

\* The process dies (a cancelled or timed-out job, Ctrl-C); a temporary file it
\* has written stays behind.
Crash(w) ==
    /\ pc[w] \in Working
    /\ Goto(w, "crashed")
    /\ UNCHANGED <<files, tmp, orphans, today, batch, day, seen, existing, collided>>

Midnight ==
    /\ today < MaxDay
    /\ MayPass
    /\ today' = today + 1
    /\ UNCHANGED <<files, tmp, orphans, pc, batch, day, seen, existing, collided>>

Terminated ==
    /\ \A w \in Writers : pc[w] \in Final
    /\ UNCHANGED vars

Step(w) ==
    \/ PickFile(w)      \/ ReadTail(w)      \/ ReadExisting(w)
    \/ Stage(w)         \/ RecheckPasses(w) \/ RecheckFails(w)
    \/ Replace(w)       \/ ReplaceMissing(w) \/ WriteOrphanRecords(w)

Next ==
    \/ \E w \in Writers : Step(w) \/ Crash(w)
    \/ Midnight
    \/ Terminated

Spec == Init /\ [][Next]_vars

\* A started process keeps executing unless it crashes; nobody owes midnight.
FairSpec == Spec /\ \A w \in Writers : WF_vars(Step(w))

-----------------------------------------------------------------------------
\* The tail of the trail just before line i of day d.
Before(trail, d, i) ==
    IF i > 1 THEN [hash |-> trail[d][i - 1].hash, ts |-> trail[d][i - 1].body.ts]
    ELSE TailWithin(trail, {e \in Days : e < d})

Linked(trail) ==
    \A d \in Days : \A i \in DOMAIN trail[d] :
        LET r == trail[d][i]
            b == Before(trail, d, i)
        IN  /\ r.prev = b.hash
            /\ r.hash = Append(r.prev, r.body)
            /\ r.body.ts > b.ts

\* Every record commits to the record before it, across the day files, and is
\* later than it: what verify_chain checks and what _chain_records builds
\* (writer.py), for whatever writers overlapped.
ChainLinked == Linked(files)

By(w, d, i) == files[d][i].body.by = w
Absent(w) == \A d \in Days : \A i \in DOMAIN files[d] : ~By(w, d, i)

\* The whole batch of w, once and in order, from line k + 1 of day d.
BatchAt(w, d, k) ==
    /\ k + Len(batch[w]) <= Len(files[d])
    /\ \A e \in Days : \A i \in DOMAIN files[e] :
          By(w, e, i) <=> e = d /\ i \in (k + 1)..(k + Len(batch[w]))
    /\ \A j \in DOMAIN batch[w] : /\ files[d][k + j].body.nth = j
                                  /\ files[d][k + j].body.ts >= batch[w][j]

\* A batch is in the trail, whole, in order and once, when write_records has
\* returned to its caller, and not at all otherwise: a batch that raised, went to the
\* orphan file or died with its process left no record behind (writer.py).
AllOrNothing ==
    \A w \in Writers :
        IF pc[w] = "ok" THEN \E d \in Days : \E k \in 0..Len(files[d]) : BatchAt(w, d, k)
        ELSE Absent(w)

\* A step of any process keeps every line that is in a day file: os.replace
\* puts a longer version of the file in place (writer.py:278-307).
AppendOnly ==
    [][\A d \in Days : /\ Len(files[d]) <= Len(files'[d])
                       /\ \A i \in DOMAIN files[d] : files'[d][i] = files[d][i]]_vars

\* write_records never returns without its batch being in the trail: what the
\* re-check before the move is there for (AuditConcurrentWriteError, writer.py).
NoSilentLoss == \A w \in Writers : pc[w] = "ok" => ~Absent(w)
=============================================================================
