----------------------------- MODULE AuditRecords -----------------------------
(***************************************************************************)
(* Records of the audit trail and the pure functions over them:            *)
(* chaining a batch, finding the tail, verify_chain                        *)
(* (contentops/audit/writer.py).                                           *)
(*                                                                         *)
(* A SHA-256 record hash is modelled by what it commits to: the record's   *)
(* body and its prev_hash, which commits to the body before it, and so on. *)
(* A hash is therefore the sequence of the bodies up to its record, and    *)
(* ZERO_HASH is the empty sequence. Timestamps are microseconds, 0 stands  *)
(* for "no timestamp".                                                     *)
(***************************************************************************)
EXTENDS Naturals, Sequences, FiniteSetsExt

CONSTANT Writers        \* processes that write one batch each

Body == [by : Writers, nth : Nat, ts : Nat]
Hash == Seq(Body)
Record == [body : Body, prev : Hash, hash : Hash]

\* A line that json.loads rejects or that carries no hashes.
Torn == [torn |-> TRUE]
Readable(line) == "hash" \in DOMAIN line

-----------------------------------------------------------------------------
\* The rule for one record: keep a candidate that is later, else bump.
MonotonicTimestamp(prev, candidate) ==
    IF candidate > prev THEN candidate ELSE prev + 1

\* Mutant: candidates are written as they are, without the bump.
StampAsGiven(b, ts, i) == b[i]

\* The timestamp of the i-th record of a batch of candidates chained off ts:
\* the rule above applied i times.
Stamp(b, ts, i) == Max({ts + i} \cup {b[j] + (i - j) : j \in 1..i})

\* Mutant: the last record of the batch is left out.
ChainAllButLast(w, b, tail) ==
    [i \in 1..(Len(b) - 1) |->
        LET body(j) == [by |-> w, nth |-> j, ts |-> Stamp(b, tail.ts, j)]
        IN  [body |-> body(i),
             prev |-> tail.hash \o [j \in 1..(i - 1) |-> body(j)],
             hash |-> tail.hash \o [j \in 1..i |-> body(j)]]]

\* A batch of w with candidate timestamps b, chained off a tail.
ChainRecords(w, b, tail) ==
    LET body(j) == [by |-> w, nth |-> j, ts |-> Stamp(b, tail.ts, j)]
    IN  [i \in 1..Len(b) |->
            [body |-> body(i),
             prev |-> tail.hash \o [j \in 1..(i - 1) |-> body(j)],
             hash |-> tail.hash \o [j \in 1..i |-> body(j)]]]

-----------------------------------------------------------------------------
NoTail == [hash |-> <<>>, ts |-> 0]

ReadableLines(lines) == {i \in DOMAIN lines : Readable(lines[i])}

\* The tail over the days in S of a trail: the last readable line of the latest
\* file that has one.
TailWithin(trail, S) ==
    LET written == {d \in S : ReadableLines(trail[d]) # {}}
    IN  IF written = {} THEN NoTail
        ELSE LET lines == trail[Max(written)]
                 r == lines[Max(ReadableLines(lines))]
             IN  [hash |-> r.hash, ts |-> r.body.ts]

-----------------------------------------------------------------------------
\* What verify_chain holds line i of day d against: the last readable line before
\* it, in its own file or in an earlier one.
Expected(trail, days, d, i) ==
    LET before == {j \in ReadableLines(trail[d]) : j < i}
        r == trail[d][Max(before)]
    IN  IF before = {} THEN TailWithin(trail, {e \in days : e < d})
        ELSE [hash |-> r.hash, ts |-> r.body.ts]

HashInvalid(line) == line.hash # Append(line.prev, line.body)

\* The reasons of the breaks verify_chain reports for line i of day d.
BreaksAt(trail, days, d, i) ==
    LET line == trail[d][i]
        expected == Expected(trail, days, d, i)
    IN  IF ~Readable(line) THEN {"missing_field"}
        ELSE (IF HashInvalid(line) THEN {"record_hash_invalid"}
              ELSE IF line.prev # expected.hash THEN {"prev_hash_mismatch"} ELSE {})
             \cup (IF line.body.ts < expected.ts THEN {"timestamp_regression"} ELSE {})
=============================================================================
