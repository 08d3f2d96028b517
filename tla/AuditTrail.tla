------------------------------ MODULE AuditTrail ------------------------------
(***************************************************************************)
(* The audit trail as its readers see it: verify_chain over all day files, *)
(* and the log (AuditLog) that the writers of AuditChain implement.        *)
(***************************************************************************)
EXTENDS AuditChain

\* verify_chain finds no break at any moment (writer.py:360).  Under "free" it
\* does not hold: midnight, or a third writer, between the re-check and the move
\* of another lets a batch follow one that is then overwritten.
TrailVerifies ==
    \A d \in Days : \A i \in DOMAIN files[d] : BreaksAt(files, Days, d, i) = {}

\* Every AuditConcurrentWriteError is caused by another batch that made it:
\* retrying writers cannot starve each other, and a batch goes to the orphan
\* file only when MaxAttempts others were recorded meanwhile (writer.py:311-357).
CollisionsPaidFor ==
    \A w \in Writers :
        collided[w] <= Cardinality({v \in Writers : pc[v] = "ok"})

\* No batch of `apply` is dropped without a trace: unless its process died, it is
\* in the trail or in the orphan file, and never in both (writer.py:338-357).
TrailOrOrphanFile ==
    \A w \in Retrying :
        pc[w] \in Final \ {"crashed"} => (Absent(w) <=> w \in orphans)

-----------------------------------------------------------------------------
\* What the hash of the trail's last record commits to, as a log of bodies.
LogOfTrail == LastRecordTail.hash

\* Where a line stands in the log: its hash commits to all bodies up to its own.
Position(d, i) == Len(files[d][i].hash)

\* The last record commits to every line of every day file, each once and in the
\* order of days and lines: nobody can drop, swap or replace a line before it
\* without verify_chain seeing it (writer.py:184-252).
TailCommitsToTrail ==
    /\ \A d \in Days : \A i \in DOMAIN files[d] :
          /\ Position(d, i) \in DOMAIN LogOfTrail
          /\ LogOfTrail[Position(d, i)] = files[d][i].body
    /\ \A p \in DOMAIN LogOfTrail :
          \E d \in Days : \E i \in DOMAIN files[d] : Position(d, i) = p
    /\ \A d, e \in Days : \A i \in DOMAIN files[d] : \A j \in DOMAIN files[e] :
          d < e \/ (d = e /\ i < j) => Position(d, i) < Position(e, j)

\* What a reader may rely on where writers do not interleave freely.
TrailIsWhole == TrailVerifies /\ TrailOrOrphanFile /\ TailCommitsToTrail

\* Every process that starts writing finishes, in success or in an error.
EveryWriterFinishes ==
    \A w \in Writers : pc[w] \in Working ~> pc[w] \in Final

-----------------------------------------------------------------------------
Verdict(w) ==
    IF pc[w] = "ok" THEN "recorded"
    ELSE IF pc[w] \in Final THEN "refused" ELSE "pending"

Log == INSTANCE AuditLog WITH
          size <- [w \in Writers |-> Len(batch[w])],
          log <- LogOfTrail,
          verdict <- [w \in Writers |-> Verdict(w)]

\* Replacing whole day files under optimistic re-checks implements a log that
\* grows by one whole batch at a time.
ImplementsAuditLog == Log!Spec
=============================================================================
