--------------------------- MODULE AuditTrail_proofs ---------------------------
(***************************************************************************)
(* Proofs about the audit trail for any finite set of writers, any batches *)
(* and any number of days: facts about the records and the tail, then      *)
(* AuditChain's invariants, then what a reader of the trail relies on and  *)
(* the log it implements. Typing and CollisionsPaidFor hold for every      *)
(* Overlap. The others hold where the re-check before the move is enough:  *)
(* one writer at a time, as the workflows run, or overlapping writers that *)
(* interleave neither between staging and moving nor across midnight.      *)
(***************************************************************************)
EXTENDS AuditTrail, TLAPS, WellFoundedInduction, NaturalsInduction, FiniteSetTheorems

\* Least and greatest elements of sets of naturals.
LEMMA LeastNatural ==
    ASSUME NEW T \in SUBSET Nat, T # {}
    PROVE  \E m \in T : \A n \in T : m <= n
<1>1. PICK m \in T : \A n \in T : ~(<<n, m>> \in OpToRel(<, Nat))
  <2>1. IsWellFoundedOn(OpToRel(<, Nat), Nat)
    BY NatLessThanWellFounded
  <2> QED BY <2>1, WFMin
<1>2. \A n \in T : ~(n < m)
  BY <1>1 DEF OpToRel
<1> QED BY <1>2

LEMMA MaxOfBounded ==
    ASSUME NEW S \in SUBSET Nat, S # {}, NEW b \in Nat, \A x \in S : x <= b
    PROVE  Max(S) \in S /\ \A y \in S : Max(S) >= y
<1> DEFINE Bounds == {n \in Nat : \A x \in S : x <= n}
<1>1. PICK m \in Bounds : \A n \in Bounds : m <= n
  <2>1. Bounds \in SUBSET Nat /\ Bounds # {}
    OBVIOUS
  <2> QED BY <2>1, LeastNatural
<1>2. m \in S
  <2>1. SUFFICES ASSUME m \notin S PROVE FALSE
    OBVIOUS
  <2>2. \A x \in S : x <= m - 1
    BY <2>1
  <2>3. PICK x \in S : TRUE
    OBVIOUS
  <2>4. m - 1 \in Nat
    BY <2>2, <2>3
  <2>5. m - 1 \in Bounds
    BY <2>2, <2>4
  <2> QED BY <1>1, <2>5
<1>3. \A y \in S : m >= y
  OBVIOUS
<1> QED BY <1>2, <1>3 DEF Max

LEMMA MaxIs ==
    ASSUME NEW S \in SUBSET Nat, NEW m \in S, \A x \in S : x <= m
    PROVE  Max(S) = m
<1>1. Max(S) \in S /\ \A y \in S : Max(S) >= y
  BY MaxOfBounded
<1>2. Max(S) \in Nat /\ m \in Nat /\ Max(S) <= m /\ m <= Max(S)
  BY <1>1
<1> QED BY <1>2

LEMMA BoundedSequence ==
    ASSUME NEW b \in Seq(Nat), NEW k \in 0..Len(b)
    PROVE  \E u \in Nat : \A j \in 1..k : b[j] <= u
<1> DEFINE Bounded(n) == \E u \in Nat : \A j \in 1..n : b[j] <= u
           Unbounded == {n \in 0..Len(b) : ~Bounded(n)}
<1>0. Len(b) \in Nat /\ \A j \in 1..Len(b) : b[j] \in Nat
  OBVIOUS
<1>1. Bounded(0)
  OBVIOUS
<1>2. ASSUME NEW n \in 1..Len(b), Bounded(n - 1) PROVE Bounded(n)
  <2>1. PICK u \in Nat : \A j \in 1..(n - 1) : b[j] <= u
    BY <1>2
  <2>2. b[n] \in Nat /\ n \in Nat
    BY <1>0
  <2>3. ASSUME NEW j \in 1..n PROVE b[j] <= u + b[n]
    <3>1. CASE j = n
      BY <3>1, <2>2
    <3>2. CASE j # n
      <4>1. j \in 1..(n - 1) /\ j \in 1..Len(b)
        BY <3>2, <1>0, <2>2
      <4>2. b[j] <= u /\ b[j] \in Nat
        BY <4>1, <2>1, <1>0
      <4> QED BY <4>2, <2>2
    <3> QED BY <3>1, <3>2
  <2>4. u + b[n] \in Nat
    BY <2>2
  <2> QED BY <2>3, <2>4
<1> HIDE DEF Bounded
<1>3. SUFFICES ASSUME Unbounded # {} PROVE FALSE
  BY DEF Bounded
<1>4. PICK n \in Unbounded : \A i \in Unbounded : n <= i
  <2>1. Unbounded \in SUBSET Nat
    BY <1>0
  <2> QED BY <2>1, <1>3, LeastNatural
<1>5. n \in 1..Len(b) /\ n - 1 \in 0..Len(b)
  BY <1>0, <1>1, <1>4
<1>6. Bounded(n - 1)
  BY <1>0, <1>4, <1>5
<1> QED BY <1>2, <1>4, <1>5, <1>6

-----------------------------------------------------------------------------
\* The timestamps of a chained batch: the first is later than the tail, each is
\* later than the one before it, and none is earlier than its candidate.
LEMMA StampFacts ==
    ASSUME NEW b \in Seq(Nat \ {0}), NEW ts \in Nat, NEW i \in 1..Len(b)
    PROVE  /\ Stamp(b, ts, i) \in Nat
           /\ Stamp(b, ts, i) >= ts + i
           /\ \A j \in 1..i : Stamp(b, ts, i) >= b[j] + (i - j)
           /\ \/ Stamp(b, ts, i) = ts + i
              \/ \E j \in 1..i : Stamp(b, ts, i) = b[j] + (i - j)
<1> DEFINE S == {ts + i} \cup {b[j] + (i - j) : j \in 1..i}
<1>0. Len(b) \in Nat /\ i \in Nat
  OBVIOUS
<1>1. \A j \in 1..i : b[j] \in Nat /\ i - j \in Nat /\ i - j <= i
  BY <1>0
<1>2. S \in SUBSET Nat /\ S # {}
  BY <1>0, <1>1
<1>3. PICK u \in Nat : \A j \in 1..i : b[j] <= u
  <2>1. b \in Seq(Nat) /\ i \in 0..Len(b)
    BY <1>0
  <2> QED BY <2>1, BoundedSequence
<1>4. \A x \in S : x <= ts + u + i
  BY <1>0, <1>1, <1>3
<1>5. ts + u + i \in Nat
  BY <1>0
<1>6. Max(S) \in S /\ \A y \in S : Max(S) >= y
  BY <1>2, <1>4, <1>5, MaxOfBounded
<1>7. Stamp(b, ts, i) = Max(S)
  BY DEF Stamp
<1> HIDE DEF S
<1>8. Stamp(b, ts, i) \in S /\ \A y \in S : Stamp(b, ts, i) >= y
  BY <1>6, <1>7
<1> QED BY <1>2, <1>8 DEF S

\* _monotonic_timestamp, record by record: the closed form is the code's rule.
LEMMA StampIsMonotonicTimestamp ==
    ASSUME NEW b \in Seq(Nat \ {0}), NEW ts \in Nat, NEW i \in 1..Len(b)
    PROVE  Stamp(b, ts, i) =
              MonotonicTimestamp(IF i = 1 THEN ts ELSE Stamp(b, ts, i - 1), b[i])
<1>0. Len(b) \in Nat /\ i \in Nat /\ \A j \in 1..Len(b) : b[j] \in Nat
  OBVIOUS
<1> DEFINE x == Stamp(b, ts, i)
<1>1. /\ x \in Nat /\ x >= ts + i
      /\ \A j \in 1..i : x >= b[j] + (i - j)
      /\ x = ts + i \/ \E j \in 1..i : x = b[j] + (i - j)
  BY StampFacts
<1>2. CASE i = 1
  <2> HIDE DEF x
  <2>1. b[1] \in Nat /\ 1 \in 1..i /\ \A j \in 1..i : j = 1
    BY <1>0, <1>2
  <2>2. x >= b[1] /\ (x = ts + 1 \/ x = b[1]) /\ x >= ts + 1
    BY <1>0, <1>1, <1>2, <2>1
  <2>3. x = IF b[1] > ts THEN b[1] ELSE ts + 1
    BY <2>1, <2>2, <1>1
  <2> QED BY <2>3, <1>2 DEF x, MonotonicTimestamp
<1>3. CASE i # 1
  <2> DEFINE y == Stamp(b, ts, i - 1)
  <2>1. i - 1 \in 1..Len(b) /\ i \in 1..i
    BY <1>0, <1>3
  <2>2. /\ y \in Nat /\ y >= ts + (i - 1)
        /\ \A j \in 1..(i - 1) : y >= b[j] + (i - 1 - j)
        /\ y = ts + (i - 1) \/ \E j \in 1..(i - 1) : y = b[j] + (i - 1 - j)
    BY <2>1, StampFacts
  <2> HIDE DEF x, y
  <2>3. x >= b[i]
    BY <1>0, <1>1, <2>1
  <2>4. x >= y + 1
    <3>1. CASE y = ts + (i - 1)
      BY <3>1, <1>0, <1>1
    <3>2. ASSUME NEW j \in 1..(i - 1), y = b[j] + (i - 1 - j) PROVE x >= y + 1
      <4>1. j \in 1..i /\ b[j] \in Nat
        BY <1>0
      <4>2. x >= b[j] + (i - j)
        BY <4>1, <1>1, <2>2
      <4>3. i \in Nat /\ j \in Nat /\ x \in Nat
        BY <4>1, <1>0, <1>1
      <4> DEFINE p == b[j]
      <4>4. p \in Nat /\ y = p + (i - 1 - j) /\ x >= p + (i - j)
        BY <3>2, <4>1, <4>2
      <4> HIDE DEF p
      <4> QED BY ONLY <4>3, <4>4
    <3> QED BY <3>1, <3>2, <2>2
  <2>5. x = b[i] \/ x <= y + 1
    <3>1. CASE x = ts + i
      BY <3>1, <1>0, <1>1, <2>2
    <3>2. ASSUME NEW j \in 1..i, x = b[j] + (i - j) PROVE x = b[i] \/ x <= y + 1
      <4>1. CASE j = i
        BY <4>1, <3>2, <1>0
      <4>2. CASE j # i
        <5>1. j \in 1..(i - 1) /\ b[j] \in Nat
          BY <4>2, <1>0
        <5>2. y >= b[j] + (i - 1 - j)
          BY <5>1, <2>2
        <5>3. i \in Nat /\ j \in Nat /\ y \in Nat /\ x = b[j] + (i - j)
          BY ONLY <1>0, <2>2, <3>2, <5>1
        <5> QED BY ONLY <5>1, <5>2, <5>3
      <4> QED BY <4>1, <4>2
    <3> QED BY <3>1, <3>2, <1>1
  <2>6. b[i] \in Nat
    BY <1>0
  <2>7. x = IF b[i] > y THEN b[i] ELSE y + 1
    BY <2>2, <2>3, <2>4, <2>5, <2>6, <1>1
  <2> QED BY <2>7, <1>3 DEF x, y, MonotonicTimestamp
<1> QED BY <1>2, <1>3

-----------------------------------------------------------------------------
LEMMA ConcatLength ==
    ASSUME NEW S, NEW s \in Seq(S), NEW t \in Seq(S)
    PROVE  Len(s \o t) = Len(s) + Len(t)
OBVIOUS

LEMMA ConcatFacts ==
    ASSUME NEW S, NEW s \in Seq(S), NEW t \in Seq(S)
    PROVE  /\ s \o t \in Seq(S)
           /\ Len(s) \in Nat /\ Len(t) \in Nat /\ Len(s \o t) = Len(s) + Len(t)
           /\ \A p \in 1..Len(s) : (s \o t)[p] = s[p]
           /\ \A j \in 1..Len(t) : (s \o t)[Len(s) + j] = t[j]
OBVIOUS

LEMMA ConcatNotEmpty ==
    ASSUME NEW S, NEW s \in Seq(S), NEW t \in Seq(S), Len(t) # 0
    PROVE  s \o t # <<>>
<1>1. Len(s \o t) = Len(s) + Len(t) /\ Len(s) \in Nat /\ Len(t) \in Nat
  BY ConcatLength
<1>2. Len(s \o t) # 0
  BY <1>1
<1> QED BY <1>2

LEMMA AppendToConcat ==
    ASSUME NEW S, NEW s \in Seq(S), NEW t \in Seq(S), NEW e \in S
    PROVE  s \o Append(t, e) = Append(s \o t, e)
<1>1. Len(s) \in Nat /\ Len(t) \in Nat
  OBVIOUS
<1>2. s \o Append(t, e) \in Seq(S) /\ Append(s \o t, e) \in Seq(S)
  OBVIOUS
<1>3. Len(s \o Append(t, e)) = Len(Append(s \o t, e))
  BY <1>1
<1>4. ASSUME NEW i \in 1..Len(s \o Append(t, e))
      PROVE  (s \o Append(t, e))[i] = Append(s \o t, e)[i]
  BY <1>1
<1>5. s \o Append(t, e) = Append(s \o t, e)
  BY <1>2, <1>3, <1>4
<1> QED BY <1>1, <1>5

\* What makes c the records of batch b of w, chained off a tail.
ChainedOff(c, w, b, tail) ==
    /\ c \in Seq(Record)
    /\ Len(c) = Len(b)
    /\ \A i \in 1..Len(b) :
          /\ c[i].body.by = w
          /\ c[i].body.nth = i
          /\ c[i].body.ts >= b[i]
          /\ c[i].hash = Append(c[i].prev, c[i].body)
          /\ Len(c[i].hash) = Len(tail.hash) + i
          /\ i = 1 => c[i].prev = tail.hash /\ c[i].body.ts > tail.ts
          /\ i # 1 => c[i].prev = c[i - 1].hash /\ c[i].body.ts > c[i - 1].body.ts

\* _chain_records: every record of a chained batch commits to its predecessor,
\* the first one to the tail, and is later than it.
LEMMA ChainRecordsFacts ==
    ASSUME NEW w \in Writers, NEW b \in Seq(Nat \ {0}), NEW tail \in [hash : Hash, ts : Nat]
    PROVE  ChainedOff(ChainRecords(w, b, tail), w, b, tail)
<1> DEFINE body(j) == [by |-> w, nth |-> j, ts |-> Stamp(b, tail.ts, j)]
           bodies(i) == [j \in 1..i |-> body(j)]
           c == ChainRecords(w, b, tail)
<1>0. Len(b) \in Nat /\ tail.ts \in Nat /\ tail.hash \in Hash
  OBVIOUS
<1>1. ASSUME NEW i \in 1..Len(b)
      PROVE  /\ body(i) \in Body
             /\ body(i).by = w /\ body(i).nth = i /\ body(i).ts = Stamp(b, tail.ts, i)
  <2>1. Stamp(b, tail.ts, i) \in Nat /\ i \in Nat
    BY <1>0, StampFacts
  <2> QED BY <2>1 DEF Body
<1>2. ASSUME NEW i \in 1..Len(b) PROVE b[i] \in Nat /\ body(i).ts >= b[i]
  <2>1. i \in 1..i /\ b[i] \in Nat
    BY <1>0
  <2>2. Stamp(b, tail.ts, i) >= b[i] + (i - i) /\ Stamp(b, tail.ts, i) \in Nat
    BY <1>0, <2>1, StampFacts
  <2> QED BY <2>1, <2>2, <1>0
<1>3. ASSUME NEW i \in 1..Len(b), i = 1 PROVE body(i).ts > tail.ts
  <2>1. Stamp(b, tail.ts, i) >= tail.ts + i /\ Stamp(b, tail.ts, i) \in Nat
    BY <1>0, StampFacts
  <2> QED BY <2>1, <1>3, <1>0
<1>4. ASSUME NEW i \in 1..Len(b), i # 1 PROVE body(i).ts > body(i - 1).ts
  <2>1. i - 1 \in 1..Len(b) /\ b[i] \in Nat
    BY <1>0, <1>4
  <2>2. Stamp(b, tail.ts, i - 1) \in Nat
    BY <1>0, <2>1, StampFacts
  <2>3. Stamp(b, tail.ts, i) = MonotonicTimestamp(Stamp(b, tail.ts, i - 1), b[i])
    BY <1>0, <1>4, StampIsMonotonicTimestamp
  <2> QED BY <2>1, <2>2, <2>3 DEF MonotonicTimestamp
<1>5. \A i \in 1..Len(b) : /\ c[i].body = body(i)
                           /\ c[i].prev = tail.hash \o bodies(i - 1)
                           /\ c[i].hash = tail.hash \o bodies(i)
  BY DEF ChainRecords
<1>6. DOMAIN c = 1..Len(b)
  BY DEF ChainRecords
<1> HIDE DEF body
<1>7. ASSUME NEW i \in 0..Len(b)
      PROVE  bodies(i) \in Seq(Body) /\ Len(bodies(i)) = i
  <2>1. i \in Nat /\ \A j \in 1..i : body(j) \in Body
    BY <1>0, <1>1
  <2> QED BY <2>1
<1>8. ASSUME NEW i \in 1..Len(b)
      PROVE  bodies(i) = Append(bodies(i - 1), body(i))
  <2>1. i - 1 \in 0..Len(b) /\ i \in Nat
    BY <1>0
  <2>2. bodies(i - 1) \in Seq(Body) /\ Len(bodies(i - 1)) = i - 1
    BY <2>1, <1>7
  <2>3. \A j \in 1..i : bodies(i)[j] = Append(bodies(i - 1), body(i))[j]
    BY <2>1, <2>2
  <2>4. bodies(i) \in Seq(Body) /\ Len(bodies(i)) = i
    BY <2>1, <1>7
  <2>5. Append(bodies(i - 1), body(i)) \in Seq(Body) /\ Len(Append(bodies(i - 1), body(i))) = i
    BY <2>1, <2>2, <1>1
  <2> HIDE DEF bodies
  <2> QED BY <2>3, <2>4, <2>5
<1>9. bodies(0) = <<>>
  OBVIOUS
<1> HIDE DEF bodies
<1>10. ASSUME NEW i \in 1..Len(b)
       PROVE  /\ c[i] \in Record
              /\ c[i].hash = Append(c[i].prev, c[i].body)
              /\ Len(c[i].hash) = Len(tail.hash) + i
  <2>1. i - 1 \in 0..Len(b) /\ i \in 0..Len(b)
    BY <1>0
  <2>2. /\ bodies(i - 1) \in Seq(Body) /\ Len(bodies(i - 1)) = i - 1
        /\ bodies(i) \in Seq(Body) /\ Len(bodies(i)) = i
    BY <2>1, <1>7
  <2>0. tail.hash \in Seq(Body) /\ body(i) \in Body
    BY <1>0, <1>1 DEF Hash
  <2>3. tail.hash \o bodies(i) = Append(tail.hash \o bodies(i - 1), body(i))
    <3>1. bodies(i) = Append(bodies(i - 1), body(i))
      BY <1>8
    <3>2. tail.hash \o Append(bodies(i - 1), body(i)) = Append(tail.hash \o bodies(i - 1), body(i))
      <4> DEFINE h == tail.hash
                 t == bodies(i - 1)
                 e == body(i)
      <4>1. h \in Seq(Body) /\ t \in Seq(Body) /\ e \in Body
        BY <2>0, <2>2
      <4> HIDE DEF h, t, e
      <4>2. h \o Append(t, e) = Append(h \o t, e)
        BY ONLY <4>1, AppendToConcat
      <4> QED BY <4>2 DEF h, t, e
    <3> QED BY <3>1, <3>2
  <2>4. tail.hash \o bodies(i - 1) \in Hash /\ tail.hash \o bodies(i) \in Hash
    BY <2>2, <1>0 DEF Hash
  <2>5. c[i] = [body |-> body(i), prev |-> tail.hash \o bodies(i - 1),
                hash |-> tail.hash \o bodies(i)]
    BY DEF ChainRecords, bodies, body
  <2>6. c[i] \in Record
    BY <2>4, <2>5, <1>1 DEF Record
  <2>7. Len(tail.hash \o bodies(i)) = Len(tail.hash) + i
    <3>1. tail.hash \in Seq(Body) /\ bodies(i) \in Seq(Body) /\ Len(bodies(i)) = i
      BY <2>0, <2>2
    <3>2. Len(tail.hash \o bodies(i)) = Len(tail.hash) + Len(bodies(i))
      BY ONLY <3>1, ConcatLength
    <3> QED BY ONLY <3>1, <3>2
  <2> HIDE DEF c
  <2> QED BY <2>3, <2>6, <2>7, <1>5
<1>11. c \in Seq(Record) /\ Len(c) = Len(b)
  <2>1. c = [i \in 1..Len(b) |-> c[i]]
    BY DEF ChainRecords
  <2> HIDE DEF c
  <2> QED BY <2>1, <1>0, <1>10
<1>12. ASSUME NEW i \in 1..Len(b), i = 1 PROVE c[i].prev = tail.hash
  <2>1. tail.hash \o bodies(0) = tail.hash
    BY <1>0, <1>9 DEF Hash
  <2>2. c[i].prev = tail.hash \o bodies(i - 1) /\ i - 1 = 0
    BY <1>5, <1>12
  <2> HIDE DEF c
  <2> QED BY <2>1, <2>2
<1>13. ASSUME NEW i \in 1..Len(b), i # 1 PROVE c[i].prev = c[i - 1].hash
  <2>1. i - 1 \in 1..Len(b)
    BY <1>0, <1>13
  <2> HIDE DEF c
  <2> QED BY <2>1, <1>5
<1> HIDE DEF c
<1>14. ASSUME NEW i \in 1..Len(b)
       PROVE  /\ c[i].body.by = w
              /\ c[i].body.nth = i
              /\ c[i].body.ts >= b[i]
              /\ c[i].hash = Append(c[i].prev, c[i].body)
              /\ Len(c[i].hash) = Len(tail.hash) + i
              /\ i = 1 => c[i].prev = tail.hash /\ c[i].body.ts > tail.ts
              /\ i # 1 => c[i].prev = c[i - 1].hash /\ c[i].body.ts > c[i - 1].body.ts
  <2>1. i # 1 => i - 1 \in 1..Len(b)
    BY <1>0
  <2>2. i # 1 => c[i - 1].body = body(i - 1)
    BY <2>1, <1>5
  <2> QED BY <1>1, <1>2, <1>3, <1>4, <1>5, <1>10, <1>12, <1>13, <2>2
<1> QED BY <1>11, <1>14 DEF c, ChainedOff

-----------------------------------------------------------------------------
\* Where the tail of a trail of records is.
LEMMA RecordsAreReadable ==
    ASSUME NEW lines \in Seq(Record)
    PROVE  ReadableLines(lines) = 1..Len(lines)
<1>1. \A i \in 1..Len(lines) : lines[i] \in Record
  OBVIOUS
<1>2. \A r \in Record : "hash" \in DOMAIN r
  BY DEF Record
<1>3. DOMAIN lines = 1..Len(lines)
  OBVIOUS
<1> QED BY <1>1, <1>2, <1>3 DEF ReadableLines, Readable

LEMMA TailOfNothing ==
    ASSUME NEW S, NEW f \in [S -> Seq(Record)], NEW T \in SUBSET S,
           \A d \in T : f[d] = <<>>
    PROVE  TailWithin(f, T) = NoTail
<1>1. \A d \in T : ReadableLines(f[d]) = {}
  BY DEF ReadableLines
<1> QED BY <1>1 DEF TailWithin

LEMMA TailOfLatest ==
    ASSUME NEW S \in SUBSET Nat, NEW f \in [S -> Seq(Record)], NEW T \in SUBSET S,
           NEW d \in T, f[d] # <<>>, \A e \in T : f[e] # <<>> => e <= d
    PROVE  /\ Len(f[d]) \in Nat \ {0}
           /\ TailWithin(f, T) = [hash |-> f[d][Len(f[d])].hash, ts |-> f[d][Len(f[d])].body.ts]
<1> DEFINE written == {e \in T : ReadableLines(f[e]) # {}}
<1>1. \A e \in T : f[e] \in Seq(Record) /\ (ReadableLines(f[e]) # {} <=> f[e] # <<>>)
  <2>1. TAKE e \in T
  <2>2. f[e] \in Seq(Record) /\ Len(f[e]) \in Nat
    OBVIOUS
  <2>3. ReadableLines(f[e]) = 1..Len(f[e])
    BY <2>2, RecordsAreReadable
  <2>4. f[e] # <<>> <=> Len(f[e]) # 0
    BY <2>2
  <2>5. 1..Len(f[e]) # {} <=> Len(f[e]) # 0
    <3> DEFINE n == Len(f[e])
    <3>1. n \in Nat
      BY <2>2
    <3> HIDE DEF n
    <3>2. n # 0 => 1 \in 1..n
      BY <3>1
    <3>3. n = 0 => 1..n = {}
      BY <3>1
    <3> QED BY <3>2, <3>3 DEF n
  <2> QED BY <2>2, <2>3, <2>4, <2>5
<1>2. Len(f[d]) \in Nat \ {0}
  BY <1>1
<1>3. Max(written) = d
  <2>1. written \in SUBSET Nat /\ d \in written /\ \A e \in written : e <= d
    BY <1>1
  <2> QED BY <2>1, MaxIs
<1>4. Max(ReadableLines(f[d])) = Len(f[d])
  <2>1. ReadableLines(f[d]) = 1..Len(f[d])
    BY <1>1, RecordsAreReadable
  <2>2. /\ 1..Len(f[d]) \in SUBSET Nat /\ Len(f[d]) \in 1..Len(f[d])
        /\ \A x \in 1..Len(f[d]) : x <= Len(f[d])
    BY <1>2
  <2> QED BY <2>1, <2>2, MaxIs
<1>5. written # {}
  BY <1>1
<1> QED BY <1>2, <1>3, <1>4, <1>5 DEF TailWithin

LEMMA TailOfSameFiles ==
    ASSUME NEW n \in Nat, NEW T \in SUBSET (1..n), NEW f, NEW g, \A d \in T : f[d] = g[d]
    PROVE  TailWithin(f, T) = TailWithin(g, T)
<1> DEFINE written(h) == {d \in T : ReadableLines(h[d]) # {}}
<1>1. written(f) = written(g)
  OBVIOUS
<1>2. CASE written(f) = {}
  BY <1>1, <1>2 DEF TailWithin
<1>3. CASE written(f) # {}
  <2>1. written(f) \in SUBSET Nat /\ \A x \in written(f) : x <= n
    <3>1. \A x \in 1..n : x \in Nat /\ x <= n
      OBVIOUS
    <3>2. written(f) \subseteq 1..n
      OBVIOUS
    <3> QED BY <3>1, <3>2
  <2>2. Max(written(f)) \in written(f)
    BY <1>3, <2>1, MaxOfBounded
  <2>3. f[Max(written(f))] = g[Max(written(f))]
    BY <2>2
  <2> QED BY <1>1, <1>3, <2>3 DEF TailWithin
<1> QED BY <1>2, <1>3

-----------------------------------------------------------------------------
Guarded == Overlap \in {"serial", "staging"}

InTmp == {"staged", "cleared"}

\* Writers exclude each other as far as Overlap says.
Exclusion ==
    /\ Overlap = "serial" =>
          \A v, w \in Writers : pc[v] \in Working /\ pc[w] \in Working => v = w
    /\ \A v, w \in Writers : pc[v] \in InTmp /\ pc[w] \in InTmp => v = w

\* No file is of a later day than today or than the file a writer will move.
NoLaterFile ==
    /\ \A w \in Writers : day[w] <= today
    /\ \A d \in Days : files[d] # <<>> => d <= today
    /\ \A w \in Writers :
          pc[w] \in {"picked", "chained", "read", "staged", "cleared"} =>
             /\ \A d \in Days : files[d] # <<>> => d <= day[w]
             /\ Overlap = "staging" => day[w] = today

\* The trail only grows, so a writer that still sees the hash it read sees the
\* tail and the file it read.
SeenIsPast ==
    \A w \in Writers :
        /\ pc[w] \in {"chained", "read", "staged", "cleared"} =>
              /\ Len(seen[w].hash) <= Len(LastRecordTail.hash)
              /\ TailUnmoved(w) => seen[w] = LastRecordTail
              /\ TailUnmoved(w) /\ pc[w] # "chained" => existing[w] = files[day[w]]
        /\ pc[w] = "cleared" => TailUnmoved(w)

StagedBatch ==
    \A w \in Writers :
        pc[w] \in InTmp =>
            tmp[day[w]] = existing[w] \o ChainRecords(w, batch[w], seen[w])

IInv ==
    /\ TypeOK
    /\ Exclusion
    /\ NoLaterFile
    /\ SeenIsPast
    /\ StagedBatch
    /\ ChainLinked
    /\ AllOrNothing

-----------------------------------------------------------------------------
\* Type correctness, for every Overlap.
LEMMA BatchType ==
    ASSUME NEW b \in Batches
    PROVE  b \in Seq(Nat \ {0}) /\ Len(b) \in Nat \ {0}
BY BatchAssumption

LEMMA LatestDay ==
    ASSUME NEW f, NEW T \in SUBSET Days, \E d \in T : f[d] # <<>>
    PROVE  \E d \in T : f[d] # <<>> /\ \A e \in T : f[e] # <<>> => e <= d
<1> DEFINE S == {d \in T : f[d] # <<>>}
<1>1. S \in SUBSET Nat /\ S # {} /\ MaxDay \in Nat /\ \A x \in S : x <= MaxDay
  <2>1. \A x \in Days : x \in Nat /\ x <= MaxDay
    BY DayAssumption DEF Days
  <2> QED BY <2>1, DayAssumption
<1>2. Max(S) \in S /\ \A y \in S : Max(S) >= y
  BY <1>1, MaxOfBounded
<1>3. \A y \in S : y \in Nat /\ Max(S) \in Nat /\ y <= Max(S)
  BY <1>1, <1>2
<1> QED BY <1>2, <1>3

LEMMA TailType ==
    ASSUME NEW f \in [Days -> Seq(Record)], NEW T \in SUBSET Days
    PROVE  TailWithin(f, T) \in RecordTail
<1>1. CASE \A d \in T : f[d] = <<>>
  <2>1. TailWithin(f, T) = NoTail
    BY <1>1, TailOfNothing
  <2>2. NoTail \in RecordTail
    BY DEF NoTail, RecordTail, Hash
  <2> QED BY <2>1, <2>2
<1>2. CASE \E d \in T : f[d] # <<>>
  <2>1. PICK d \in T : f[d] # <<>> /\ \A e \in T : f[e] # <<>> => e <= d
    BY <1>2, LatestDay
  <2>2. Days \in SUBSET Nat
    BY DayAssumption DEF Days
  <2>3. /\ Len(f[d]) \in Nat \ {0}
        /\ TailWithin(f, T) = [hash |-> f[d][Len(f[d])].hash, ts |-> f[d][Len(f[d])].body.ts]
    BY <2>1, <2>2, TailOfLatest
  <2>4. f[d][Len(f[d])] \in Record
    BY <2>3
  <2> QED BY <2>3, <2>4 DEF Record, Body, RecordTail
<1> QED BY <1>1, <1>2

LEMMA TypeInit == Init => TypeOK
<1> SUFFICES ASSUME Init PROVE TypeOK
  OBVIOUS
<1>1. 1 \in Days /\ NoTail \in RecordTail
  BY DayAssumption DEF Days, NoTail, RecordTail, Hash
<1> QED BY <1>1 DEF Init, TypeOK

LEMMA TypeNext == TypeOK /\ [Next]_vars => TypeOK'
<1> SUFFICES ASSUME TypeOK, [Next]_vars PROVE TypeOK'
  OBVIOUS
<1> USE DEF TypeOK, Goto, Working, Final
<1>1. ASSUME NEW w \in Writers, PickFile(w) PROVE TypeOK'
  BY <1>1 DEF PickFile
<1>2. ASSUME NEW w \in Writers, ReadTail(w) PROVE TypeOK'
  <2>1. LastRecordTail \in RecordTail
    BY TailType DEF LastRecordTail
  <2> QED BY <1>2, <2>1 DEF ReadTail
<1>3. ASSUME NEW w \in Writers, ReadExisting(w) PROVE TypeOK'
  BY <1>3 DEF ReadExisting
<1>4. ASSUME NEW w \in Writers, Stage(w) PROVE TypeOK'
  <2>1. ChainRecords(w, batch[w], seen[w]) \in Seq(Record)
    BY BatchType, ChainRecordsFacts DEF RecordTail, ChainedOff
  <2>2. existing[w] \o ChainRecords(w, batch[w], seen[w]) \in Seq(Record)
    BY <2>1
  <2> QED BY <1>4, <2>2 DEF Stage
<1>5. ASSUME NEW w \in Writers, RecheckPasses(w) PROVE TypeOK'
  BY <1>5 DEF RecheckPasses
<1>6. ASSUME NEW w \in Writers, RecheckFails(w) PROVE TypeOK'
  <2>1. <<>> \in Seq(Record)
    OBVIOUS
  <2> QED BY <1>6, <2>1 DEF RecheckFails
<1>7. ASSUME NEW w \in Writers, Replace(w) PROVE TypeOK'
  <2>1. <<>> \in Seq(Record)
    OBVIOUS
  <2> QED BY <1>7, <2>1 DEF Replace
<1>8. ASSUME NEW w \in Writers, ReplaceMissing(w) PROVE TypeOK'
  BY <1>8 DEF ReplaceMissing
<1>9. ASSUME NEW w \in Writers, WriteOrphanRecords(w) PROVE TypeOK'
  BY <1>9 DEF WriteOrphanRecords
<1>10. ASSUME NEW w \in Writers, Crash(w) PROVE TypeOK'
  BY <1>10 DEF Crash
<1>11. CASE Midnight
  BY <1>11, DayAssumption DEF Midnight, Days
<1>12. CASE UNCHANGED vars
  BY <1>12 DEF vars
<1> QED BY <1>1, <1>2, <1>3, <1>4, <1>5, <1>6, <1>7, <1>8, <1>9, <1>10, <1>11, <1>12
       DEF Next, Step, Terminated

\* Every state the writers reach is well-formed, whatever Overlap is.
THEOREM TypeCorrect == Spec => []TypeOK
BY TypeInit, TypeNext, PTL DEF Spec

-----------------------------------------------------------------------------
\* Appending a batch chained off the tail to the latest day keeps a trail linked.
LEMMA TailOfTrail ==
    ASSUME NEW f \in [Days -> Seq(Record)], NEW d \in Days, f[d] # <<>>,
           \A e \in Days : f[e] # <<>> => e <= d
    PROVE  TailWithin(f, Days) = [hash |-> f[d][Len(f[d])].hash, ts |-> f[d][Len(f[d])].body.ts]
<1>1. Days \in SUBSET Nat
  BY DayAssumption DEF Days
<1>2. Days \in SUBSET Days
  OBVIOUS
<1> QED BY ONLY <1>1, <1>2, TailOfLatest, f \in [Days -> Seq(Record)], d \in Days, f[d] # <<>>,
                \A e \in Days : f[e] # <<>> => e <= d

\* Without a record at D or later, the days before D hold the whole tail.
LEMMA TailBeforeLatest ==
    ASSUME NEW f \in [Days -> Seq(Record)], NEW D \in Days, f[D] = <<>>,
           \A d \in Days : f[d] # <<>> => d <= D
    PROVE  TailWithin(f, {e \in Days : e < D}) = TailWithin(f, Days)
<1> DEFINE T == {e \in Days : e < D}
<1>0. Days \in SUBSET Nat /\ Days \in SUBSET Days
  BY DayAssumption DEF Days
<1>1. T \in SUBSET Days
  OBVIOUS
<1>2. ASSUME NEW d \in Days, f[d] # <<>> PROVE d \in T
  <2>1. d <= D /\ d # D /\ d \in Nat /\ D \in Nat
    BY <1>0, <1>2
  <2> QED BY <2>1
<1> HIDE DEF T
<1>3. CASE \A d \in Days : f[d] = <<>>
  <2>1. \A d \in T : f[d] = <<>>
    BY <1>1, <1>3
  <2>2. TailWithin(f, T) = NoTail
    BY ONLY <1>1, <2>1, TailOfNothing, f \in [Days -> Seq(Record)]
  <2>3. TailWithin(f, Days) = NoTail
    BY ONLY <1>0, <1>3, TailOfNothing, f \in [Days -> Seq(Record)]
  <2> QED BY <2>2, <2>3 DEF T
<1>4. CASE \E d \in Days : f[d] # <<>>
  <2>1. PICK d \in Days : f[d] # <<>> /\ \A e \in Days : f[e] # <<>> => e <= d
    BY <1>0, <1>4, LatestDay
  <2>2. TailWithin(f, Days) = [hash |-> f[d][Len(f[d])].hash, ts |-> f[d][Len(f[d])].body.ts]
    BY <2>1, TailOfTrail
  <2>3. d \in T /\ \A e \in T : f[e] # <<>> => e <= d
    BY <1>1, <1>2, <2>1
  <2>4. TailWithin(f, T) = [hash |-> f[d][Len(f[d])].hash, ts |-> f[d][Len(f[d])].body.ts]
    BY ONLY <1>0, <1>1, <2>1, <2>3, TailOfLatest, f \in [Days -> Seq(Record)]
  <2> QED BY <2>2, <2>4 DEF T
<1> QED BY <1>3, <1>4

LEMMA AppendedFile ==
    ASSUME NEW f \in [Days -> Seq(Record)], NEW D \in Days, NEW c \in Seq(Record),
           NEW g, g = [f EXCEPT ![D] = f[D] \o c]
    PROVE  /\ g \in [Days -> Seq(Record)]
           /\ \A d \in Days : d # D => g[d] = f[d]
           /\ Len(f[D]) \in Nat /\ Len(c) \in Nat /\ Len(g[D]) = Len(f[D]) + Len(c)
           /\ \A i \in 1..Len(f[D]) : g[D][i] = f[D][i]
           /\ \A j \in 1..Len(c) : g[D][Len(f[D]) + j] = c[j]
<1>1. f[D] \in Seq(Record)
  OBVIOUS
<1> QED BY <1>1

LEMMA LinkedAppend ==
    ASSUME NEW f \in [Days -> Seq(Record)], NEW D \in Days, NEW c \in Seq(Record),
           Linked(f), c # <<>>,
           \A d \in Days : f[d] # <<>> => d <= D,
           \A i \in 1..Len(c) :
              /\ c[i].hash = Append(c[i].prev, c[i].body)
              /\ i = 1 => /\ c[i].prev = TailWithin(f, Days).hash
                          /\ c[i].body.ts > TailWithin(f, Days).ts
              /\ i # 1 => c[i].prev = c[i - 1].hash /\ c[i].body.ts > c[i - 1].body.ts
    PROVE  LET g == [f EXCEPT ![D] = f[D] \o c]
           IN  /\ Linked(g)
               /\ TailWithin(g, Days).hash = c[Len(c)].hash
<1> DEFINE g == [f EXCEPT ![D] = f[D] \o c]
           L == Len(f[D])
<1>0. Days \in SUBSET Nat /\ Days = 1..MaxDay /\ MaxDay \in Nat
  BY DayAssumption DEF Days
<1>1. /\ g \in [Days -> Seq(Record)]
      /\ \A d \in Days : d # D => g[d] = f[d]
      /\ L \in Nat /\ Len(c) \in Nat /\ Len(g[D]) = L + Len(c)
      /\ \A i \in 1..L : g[D][i] = f[D][i]
      /\ \A j \in 1..Len(c) : g[D][L + j] = c[j]
  BY AppendedFile
<1>2. Len(c) # 0
  OBVIOUS
<1>3. f[D] # <<>> <=> L # 0
  OBVIOUS
<1> HIDE DEF g, L
<1>4. ASSUME NEW d \in Days, d <= D
      PROVE  TailWithin(g, {e \in Days : e < d}) = TailWithin(f, {e \in Days : e < d})
  <2>1. \A e \in {x \in Days : x < d} : g[e] = f[e]
    BY <1>0, <1>1, <1>4
  <2>2. {x \in Days : x < d} \in SUBSET (1..MaxDay)
    BY <1>0
  <2> QED BY <1>0, <2>1, <2>2, TailOfSameFiles
<1>5. ASSUME NEW d \in Days, NEW i \in 1..Len(f[d])
      PROVE  /\ g[d][i] = f[d][i]
             /\ Before(g, d, i) = Before(f, d, i)
  <2>1. f[d] \in Seq(Record) /\ Len(f[d]) \in Nat /\ f[d] # <<>>
    OBVIOUS
  <2>2. d <= D
    BY <2>1
  <2>3. \A k \in 1..Len(f[d]) : g[d][k] = f[d][k]
    BY <1>1 DEF L
  <2>4. i > 1 => i - 1 \in 1..Len(f[d])
    BY <2>1
  <2> QED BY <2>2, <2>3, <2>4, <1>4 DEF Before
<1>6. ASSUME NEW j \in 1..Len(c)
      PROVE  LET r == g[D][L + j]
                 b == Before(g, D, L + j)
             IN  r.prev = b.hash /\ r.hash = Append(r.prev, r.body) /\ r.body.ts > b.ts
  <2>1. g[D][L + j] = c[j] /\ j \in Nat
    BY <1>1
  <2>2. CASE j # 1
    <3>1. j - 1 \in 1..Len(c) /\ L + j > 1 /\ (L + j) - 1 = L + (j - 1)
      BY <1>1, <2>2
    <3>2. g[D][(L + j) - 1] = c[j - 1]
      BY <1>1, <3>1
    <3>3. Before(g, D, L + j) = [hash |-> c[j - 1].hash, ts |-> c[j - 1].body.ts]
      BY <3>1, <3>2 DEF Before
    <3>4. /\ c[j].hash = Append(c[j].prev, c[j].body)
          /\ c[j].prev = c[j - 1].hash /\ c[j].body.ts > c[j - 1].body.ts
      BY <2>2
    <3> QED BY <2>1, <2>2, <3>3
  <2>3. CASE j = 1 /\ L = 0
    <3>1. Before(g, D, L + j) = TailWithin(g, {e \in Days : e < D})
      <4>1. L + j = 1
        BY <2>3
      <4>2. Before(g, D, 1) = TailWithin(g, {e \in Days : e < D})
        BY DEF Before
      <4> QED BY <4>1, <4>2
    <3>2. @ = TailWithin(f, {e \in Days : e < D})
      <4>1. D <= D
        BY <1>0
      <4> QED BY <4>1, <1>4
    <3>3. @ = TailWithin(f, Days)
      BY <1>3, <2>3, TailBeforeLatest
    <3> QED BY <2>1, <2>3, <3>1, <3>2, <3>3
  <2>4. CASE j = 1 /\ L # 0
    <3>1. L + j > 1 /\ (L + j) - 1 = L /\ L \in 1..L
      BY <1>1, <2>4
    <3>2. Before(g, D, L + j) = [hash |-> f[D][L].hash, ts |-> f[D][L].body.ts]
      BY <1>1, <3>1 DEF Before
    <3>3. TailWithin(f, Days) = [hash |-> f[D][L].hash, ts |-> f[D][L].body.ts]
      BY <1>3, <2>4, TailOfTrail DEF L
    <3> QED BY <2>1, <2>4, <3>2, <3>3
  <2> QED BY <2>2, <2>3, <2>4
<1>7. Linked(g)
  <2>1. SUFFICES ASSUME NEW d \in Days, NEW i \in DOMAIN g[d]
                 PROVE  LET r == g[d][i]
                            b == Before(g, d, i)
                        IN  r.prev = b.hash /\ r.hash = Append(r.prev, r.body) /\ r.body.ts > b.ts
    BY DEF Linked
  <2>2. i \in 1..Len(g[d]) /\ Len(g[d]) \in Nat /\ Len(f[d]) \in Nat
    BY <1>1
  <2>3. CASE i \in 1..Len(f[d])
    <3>1. i \in DOMAIN f[d]
      BY <2>3
    <3> QED BY <1>5, <2>3, <3>1 DEF Linked
  <2>4. CASE i \notin 1..Len(f[d])
    <3>1. d = D /\ i - L \in 1..Len(c) /\ i = L + (i - L)
      BY <1>1, <2>2, <2>4 DEF L
    <3> QED BY <1>6, <3>1
  <2> QED BY <2>3, <2>4
<1>8. TailWithin(g, Days).hash = c[Len(c)].hash
  <2>1. g[D] # <<>> /\ \A e \in Days : g[e] # <<>> => e <= D
    <3>1. Len(g[D]) # 0
      BY <1>1, <1>2
    <3>2. g[D] # <<>>
      BY <3>1
    <3>3. \A e \in Days : g[e] # <<>> => e <= D
      BY <1>0, <1>1
    <3> QED BY <3>2, <3>3
  <2>2. TailWithin(g, Days) = [hash |-> g[D][Len(g[D])].hash, ts |-> g[D][Len(g[D])].body.ts]
    BY <1>1, <2>1, TailOfTrail
  <2>3. g[D][Len(g[D])] = c[Len(c)]
    BY <1>1, <1>2
  <2> QED BY <2>2, <2>3
<1> QED BY <1>7, <1>8 DEF g

-----------------------------------------------------------------------------
\* Steps that move no file.
LEMMA NoFileMoved ==
    ASSUME files' = files, batch' = batch,
           \A w \in Writers : pc'[w] = "ok" <=> pc[w] = "ok",
           ChainLinked, AllOrNothing
    PROVE  ChainLinked' /\ AllOrNothing' /\ LastRecordTail' = LastRecordTail
<1>1. ChainLinked' /\ LastRecordTail' = LastRecordTail
  BY DEF ChainLinked, LastRecordTail
<1>2. \A w \in Writers : /\ Absent(w)' <=> Absent(w)
                         /\ \A d, k : BatchAt(w, d, k)' <=> BatchAt(w, d, k)
  BY DEF Absent, BatchAt, By
<1>3. AllOrNothing'
  BY <1>2 DEF AllOrNothing
<1> QED BY <1>1, <1>3

LEMMA InitIInv == Init => IInv
<1> SUFFICES ASSUME Init PROVE IInv
  OBVIOUS
<1>1. TypeOK
  BY TypeInit
<1>2. Exclusion /\ SeenIsPast /\ StagedBatch
  BY DEF Init, Exclusion, SeenIsPast, StagedBatch, Working, InTmp
<1>3. NoLaterFile
  BY DEF Init, NoLaterFile
<1>4. \A d \in Days : files[d] = <<>> /\ DOMAIN files[d] = {}
  BY DEF Init
<1>5. ChainLinked
  BY <1>4 DEF ChainLinked, Linked
<1>6. AllOrNothing
  BY <1>4 DEF Init, AllOrNothing, Absent
<1> QED BY <1>1, <1>2, <1>3, <1>5, <1>6 DEF IInv

LEMMA QuietIInv ==
    ASSUME Guarded, IInv, Next, ~\E w \in Writers : Replace(w)
    PROVE  IInv'
<1>1. TypeOK /\ TypeOK'
  BY TypeNext DEF IInv
<1> DEFINE Rest == Exclusion' /\ NoLaterFile' /\ SeenIsPast' /\ StagedBatch'
<1>2. /\ files' = files /\ batch' = batch
      /\ \A w \in Writers : pc'[w] = "ok" <=> pc[w] = "ok"
  <2> USE <1>1 DEF TypeOK, Goto, Working
  <2>1. ASSUME NEW w \in Writers, Step(w) \/ Crash(w), ~Replace(w) PROVE <1>2
    BY <2>1 DEF Step, Crash, PickFile, ReadTail, ReadExisting, Stage, RecheckPasses,
                RecheckFails, ReplaceMissing, WriteOrphanRecords
  <2>2. CASE Midnight
    BY <2>2 DEF Midnight
  <2>3. CASE Terminated
    BY <2>3 DEF Terminated, vars
  <2> QED BY <2>1, <2>2, <2>3 DEF Next
<1>3. ChainLinked' /\ AllOrNothing' /\ LastRecordTail' = LastRecordTail
  BY <1>2, NoFileMoved DEF IInv
<1>4. Exclusion /\ NoLaterFile /\ SeenIsPast /\ StagedBatch
  BY DEF IInv
<1>5. ASSUME NEW w \in Writers, PickFile(w) PROVE Rest
  <2>1. /\ pc[w] \in {"start", "retry"} /\ pc'[w] = "picked" /\ day'[w] = today
        /\ \A v \in Writers : v # w => pc'[v] = pc[v] /\ day'[v] = day[v]
        /\ today' = today /\ tmp' = tmp /\ seen' = seen /\ existing' = existing
    BY <1>1, <1>5 DEF PickFile, Goto, TypeOK
  <2>2. Exclusion'
    BY <1>4, <1>5, <2>1 DEF Exclusion, PickFile, MayStart, Working, InTmp
  <2>3. NoLaterFile'
    <3>1. today <= today
      BY <1>1, DayAssumption DEF TypeOK, Days
    <3> QED BY <1>2, <1>4, <2>1, <3>1 DEF NoLaterFile
  <2>4. SeenIsPast'
    BY <1>2, <1>3, <1>4, <2>1 DEF SeenIsPast, TailUnmoved
  <2>5. StagedBatch'
    BY <1>2, <1>4, <2>1 DEF StagedBatch, InTmp
  <2> QED BY <2>2, <2>3, <2>4, <2>5
<1>6. ASSUME NEW w \in Writers, ReadTail(w) PROVE Rest
  <2>1. /\ pc[w] = "picked" /\ pc'[w] = "chained" /\ seen'[w] = LastRecordTail
        /\ \A v \in Writers : v # w => pc'[v] = pc[v] /\ seen'[v] = seen[v]
        /\ today' = today /\ tmp' = tmp /\ day' = day /\ existing' = existing
    BY <1>1, <1>6 DEF ReadTail, Goto, TypeOK
  <2>2. Exclusion'
    BY <1>4, <2>1 DEF Exclusion, Working, InTmp
  <2>3. NoLaterFile'
    BY <1>2, <1>4, <2>1 DEF NoLaterFile
  <2>4. SeenIsPast'
    <3>1. Len(LastRecordTail.hash) <= Len(LastRecordTail.hash)
      <4>1. LastRecordTail \in RecordTail
        BY <1>1, TailType DEF TypeOK, LastRecordTail
      <4>2. Len(LastRecordTail.hash) \in Nat
        BY <4>1 DEF RecordTail, Hash
      <4> QED BY <4>2
    <3> QED BY <1>2, <1>3, <1>4, <2>1, <3>1 DEF SeenIsPast, TailUnmoved
  <2>5. StagedBatch'
    BY <1>2, <1>4, <2>1 DEF StagedBatch, InTmp
  <2> QED BY <2>2, <2>3, <2>4, <2>5
<1>7. ASSUME NEW w \in Writers, ReadExisting(w) PROVE Rest
  <2>1. /\ pc[w] = "chained" /\ pc'[w] = "read" /\ existing'[w] = files[day[w]]
        /\ \A v \in Writers : v # w => pc'[v] = pc[v] /\ existing'[v] = existing[v]
        /\ today' = today /\ tmp' = tmp /\ day' = day /\ seen' = seen
    BY <1>1, <1>7 DEF ReadExisting, Goto, TypeOK
  <2>2. Exclusion'
    BY <1>4, <2>1 DEF Exclusion, Working, InTmp
  <2>3. NoLaterFile'
    BY <1>2, <1>4, <2>1 DEF NoLaterFile
  <2>4. SeenIsPast'
    BY <1>2, <1>3, <1>4, <2>1 DEF SeenIsPast, TailUnmoved
  <2>5. StagedBatch'
    BY <1>2, <1>4, <2>1 DEF StagedBatch, InTmp
  <2> QED BY <2>2, <2>3, <2>4, <2>5
<1>8. ASSUME NEW w \in Writers, Stage(w) PROVE Rest
  <2>1. /\ pc[w] = "read" /\ pc'[w] = "staged"
        /\ tmp'[day[w]] = existing[w] \o ChainRecords(w, batch[w], seen[w])
        /\ \A v \in Writers : v # w => pc'[v] = pc[v]
        /\ today' = today /\ existing' = existing /\ day' = day /\ seen' = seen
    BY <1>1, <1>8 DEF Stage, Goto, TypeOK
  <2>2. \A v \in Writers \ {w} : pc[v] \notin InTmp
    BY <1>4, <1>8, <2>1 DEF Exclusion, Stage, MayStage, Guarded, Working, InTmp
  <2>3. Exclusion'
    BY <1>4, <2>1, <2>2 DEF Exclusion, Working, InTmp
  <2>4. NoLaterFile'
    BY <1>2, <1>4, <2>1 DEF NoLaterFile
  <2>5. SeenIsPast'
    BY <1>2, <1>3, <1>4, <2>1 DEF SeenIsPast, TailUnmoved
  <2>6. StagedBatch'
    <3>1. \A v \in Writers : pc'[v] \in InTmp => v = w
      BY <2>1, <2>2
    <3> QED BY <1>2, <2>1, <3>1 DEF StagedBatch
  <2> QED BY <2>3, <2>4, <2>5, <2>6
<1>9. ASSUME NEW w \in Writers, RecheckPasses(w) PROVE Rest
  <2>1. /\ pc[w] = "staged" /\ pc'[w] = "cleared" /\ TailUnmoved(w)
        /\ \A v \in Writers : v # w => pc'[v] = pc[v]
        /\ today' = today /\ tmp' = tmp /\ day' = day /\ seen' = seen /\ existing' = existing
    BY <1>1, <1>9 DEF RecheckPasses, Goto, TypeOK
  <2>2. Exclusion'
    BY <1>4, <2>1 DEF Exclusion, Working, InTmp
  <2>3. NoLaterFile'
    BY <1>2, <1>4, <2>1 DEF NoLaterFile
  <2>4. SeenIsPast'
    BY <1>2, <1>3, <1>4, <2>1 DEF SeenIsPast, TailUnmoved
  <2>5. StagedBatch'
    BY <1>2, <1>4, <2>1 DEF StagedBatch, InTmp
  <2> QED BY <2>2, <2>3, <2>4, <2>5
<1>10. ASSUME NEW w \in Writers, RecheckFails(w) PROVE Rest
  <2>1. /\ pc[w] = "staged" /\ pc'[w] \in {"raised", "retry", "exhausted"}
        /\ \A v \in Writers : v # w => pc'[v] = pc[v]
        /\ today' = today /\ day' = day /\ seen' = seen /\ existing' = existing
    BY <1>1, <1>10 DEF RecheckFails, Goto, TypeOK
  <2>2. Exclusion'
    BY <1>4, <2>1 DEF Exclusion, Working, InTmp
  <2>3. NoLaterFile'
    BY <1>2, <1>4, <2>1 DEF NoLaterFile
  <2>4. SeenIsPast'
    BY <1>2, <1>3, <1>4, <2>1 DEF SeenIsPast, TailUnmoved
  <2>5. StagedBatch'
    <3>1. \A v \in Writers : pc'[v] \notin InTmp
      BY <1>4, <2>1 DEF Exclusion, InTmp
    <3> QED BY <3>1 DEF StagedBatch
  <2> QED BY <2>2, <2>3, <2>4, <2>5
<1>11. ASSUME NEW w \in Writers, ReplaceMissing(w) \/ WriteOrphanRecords(w) \/ Crash(w)
       PROVE  Rest
  <2>1. /\ pc[w] \in Working /\ pc'[w] \in {"missing", "orphaned", "crashed"}
        /\ \A v \in Writers : v # w => pc'[v] = pc[v]
        /\ today' = today /\ tmp' = tmp /\ day' = day /\ seen' = seen /\ existing' = existing
    BY <1>1, <1>11 DEF ReplaceMissing, WriteOrphanRecords, Crash, Goto, TypeOK, Working
  <2>2. Exclusion'
    BY <1>4, <2>1 DEF Exclusion, Working, InTmp
  <2>3. NoLaterFile'
    BY <1>2, <1>4, <2>1 DEF NoLaterFile
  <2>4. SeenIsPast'
    BY <1>2, <1>3, <1>4, <2>1 DEF SeenIsPast, TailUnmoved
  <2>5. StagedBatch'
    BY <1>2, <1>4, <2>1 DEF StagedBatch, InTmp
  <2> QED BY <2>2, <2>3, <2>4, <2>5
<1>12. ASSUME Midnight PROVE Rest
  <2>1. /\ UNCHANGED <<pc, day, tmp, seen, existing>> /\ today' = today + 1
    BY <1>12 DEF Midnight
  <2>2. NoLaterFile'
    <3>1. \A d \in Days : d <= today => d <= today + 1
      BY <1>1, DayAssumption DEF TypeOK, Days
    <3>2. \A w \in Writers : day[w] \in Days
      BY <1>1 DEF TypeOK
    <3>3. Overlap = "staging" => \A w \in Writers : pc[w] \notin Working
      BY <1>12 DEF Midnight, MayPass
    <3> QED BY <1>2, <1>4, <2>1, <3>1, <3>2, <3>3 DEF NoLaterFile, Working
  <2>3. Exclusion' /\ SeenIsPast' /\ StagedBatch'
    BY <1>2, <1>3, <1>4, <2>1 DEF Exclusion, SeenIsPast, StagedBatch, TailUnmoved
  <2> QED BY <2>2, <2>3
<1>13. ASSUME Terminated PROVE Rest
  <2>1. UNCHANGED <<pc, day, tmp, seen, existing, today>>
    BY <1>13 DEF Terminated, vars
  <2> QED BY <1>2, <1>3, <1>4, <2>1
          DEF Exclusion, NoLaterFile, SeenIsPast, StagedBatch, TailUnmoved
<1> HIDE DEF Rest
<1>14. Rest
  BY <1>5, <1>6, <1>7, <1>8, <1>9, <1>10, <1>11, <1>12, <1>13 DEF Next, Step
<1> QED BY <1>1, <1>3, <1>14 DEF IInv, Rest

-----------------------------------------------------------------------------
\* The step that moves a staged file into place.
LEMMA BatchAppended ==
    ASSUME TypeOK, TypeOK', AllOrNothing, NEW w \in Writers, NEW D \in Days,
           NEW c, NEW tail, ChainedOff(c, w, batch[w], tail),
           files' = [files EXCEPT ![D] = files[D] \o c],
           batch' = batch, pc[w] # "ok", pc'[w] = "ok",
           \A v \in Writers : v # w => pc'[v] = pc[v]
    PROVE  AllOrNothing'
<1>0. /\ files \in [Days -> Seq(Record)] /\ files' \in [Days -> Seq(Record)]
      /\ c \in Seq(Record) /\ Len(c) = Len(batch[w])
      /\ \A i \in 1..Len(c) : /\ c[i].body.by = w /\ c[i].body.nth = i
                              /\ c[i].body.ts >= batch[w][i]
  BY DEF TypeOK, ChainedOff
<1> PICK L \in Nat : L = Len(files[D])
  <2>1. files[D] \in Seq(Record)
    BY ONLY <1>0, D \in Days
  <2>2. Len(files[D]) \in Nat
    BY ONLY <2>1
  <2> QED BY ONLY <2>2
<1>1. /\ \A d \in Days : d # D => files'[d] = files[d]
      /\ L = Len(files[D]) /\ Len(c) \in Nat /\ Len(files'[D]) = L + Len(c)
      /\ \A i \in 1..L : files'[D][i] = files[D][i]
      /\ \A j \in 1..Len(c) : files'[D][L + j] = c[j]
  <2>1. files'[D] = files[D] \o c /\ \A d \in Days : d # D => files'[d] = files[d]
    BY <1>0
  <2>2. files[D] \in Seq(Record) /\ c \in Seq(Record)
    BY <1>0
  <2>3. L = Len(files[D]) /\ Len(c) \in Nat
    BY <2>2
  <2> QED BY <2>1, <2>2, <2>3
<1>2. /\ \A d \in Days : Len(files[d]) \in Nat /\ DOMAIN files[d] = 1..Len(files[d])
      /\ \A d \in Days : Len(files'[d]) \in Nat /\ DOMAIN files'[d] = 1..Len(files'[d])
      /\ \A v \in Writers : Len(batch[v]) \in Nat /\ DOMAIN batch[v] = 1..Len(batch[v])
  <2>1. \A v \in Writers : batch[v] \in Seq(Nat \ {0})
    BY BatchType DEF TypeOK
  <2>2. \A d \in Days : files[d] \in Seq(Record) /\ files'[d] \in Seq(Record)
    BY <1>0
  <2> QED BY <2>1, <2>2
<1>3. \A d \in Days : /\ Len(files[d]) <= Len(files'[d])
                      /\ \A i \in 1..Len(files[d]) : /\ i \in 1..Len(files'[d])
                                                     /\ files'[d][i] = files[d][i]
  <2>1. ASSUME NEW d \in Days, d = D
        PROVE  /\ Len(files[d]) <= Len(files'[d])
               /\ \A i \in 1..Len(files[d]) : /\ i \in 1..Len(files'[d])
                                              /\ files'[d][i] = files[d][i]
    BY <1>1, <2>1
  <2>2. ASSUME NEW d \in Days, d # D
        PROVE  files'[d] = files[d] /\ Len(files[d]) <= Len(files[d])
    BY <1>1, <1>2, <2>2
  <2> QED BY <2>1, <2>2
<1>4. ASSUME NEW d \in Days, NEW i \in 1..Len(files'[d]), i \notin 1..Len(files[d])
      PROVE  /\ d = D /\ i - L \in 1..Len(c) /\ i \in (L + 1)..(L + Len(c))
             /\ files'[d][i].body.by = w
  <2>1. d = D
    BY <1>1, <1>4
  <2>2. i - L \in 1..Len(c) /\ i = L + (i - L) /\ i \in (L + 1)..(L + Len(c))
    <3>1. i \in 1..(L + Len(c)) /\ i \notin 1..L /\ Len(c) \in Nat
      BY <1>1, <1>4, <2>1
    <3> QED BY <3>1
  <2> QED BY <1>0, <1>1, <2>1, <2>2
<1>5. ASSUME NEW v \in Writers, v # w, pc[v] = "ok"
      PROVE  \E d \in Days : \E k \in 0..Len(files'[d]) : BatchAt(v, d, k)'
  <2>0. PICK d \in Days : \E k \in 0..Len(files[d]) : BatchAt(v, d, k)
    BY <1>5 DEF AllOrNothing
  <2>1. PICK k \in 0..Len(files[d]) : BatchAt(v, d, k)
    BY <2>0
  <2>2. k \in 0..Len(files'[d]) /\ k + Len(batch[v]) <= Len(files'[d])
    BY <1>2, <1>3, <2>1 DEF BatchAt
  <2>3. ASSUME NEW e \in Days, NEW i \in 1..Len(files'[e])
        PROVE  files'[e][i].body.by = v <=> e = d /\ i \in (k + 1)..(k + Len(batch[v]))
    <3>1. CASE i \in 1..Len(files[e])
      BY <1>2, <1>3, <2>1, <3>1 DEF BatchAt, By
    <3>2. CASE i \notin 1..Len(files[e])
      <4>1. files'[e][i].body.by # v
        BY <1>4, <1>5, <3>2
      <4>2. ~(e = d /\ i \in (k + 1)..(k + Len(batch[v])))
        BY <1>2, <2>1, <3>2 DEF BatchAt
      <4> QED BY <4>1, <4>2
    <3> QED BY <3>1, <3>2
  <2>4. ASSUME NEW j \in DOMAIN batch[v]
        PROVE  files'[d][k + j].body.nth = j /\ files'[d][k + j].body.ts >= batch[v][j]
    <3>1. k + j \in 1..Len(files[d])
      BY <1>2, <2>1 DEF BatchAt
    <3> QED BY <1>3, <2>1, <3>1 DEF BatchAt
  <2>5. \A e \in Days : \A i \in DOMAIN files'[e] :
           By(v, e, i)' <=> e = d /\ i \in (k + 1)..(k + Len(batch'[v]))
    BY <1>2, <2>3 DEF By
  <2>6. \A j \in DOMAIN batch'[v] : /\ files'[d][k + j].body.nth = j
                                    /\ files'[d][k + j].body.ts >= batch'[v][j]
    BY <2>4
  <2>7. k + Len(batch'[v]) <= Len(files'[d])
    BY <2>2
  <2>8. BatchAt(v, d, k)'
    BY <2>5, <2>6, <2>7 DEF BatchAt
  <2> QED BY <2>2, <2>8
<1>6. ASSUME NEW v \in Writers, v # w, pc[v] # "ok"
      PROVE  Absent(v)'
  <2>1. Absent(v)
    BY <1>6 DEF AllOrNothing
  <2>2. ASSUME NEW e \in Days, NEW i \in 1..Len(files'[e])
        PROVE  files'[e][i].body.by # v
    <3>1. CASE i \in 1..Len(files[e])
      BY <1>2, <1>3, <2>1, <3>1 DEF Absent, By
    <3>2. CASE i \notin 1..Len(files[e])
      BY <1>4, <1>6, <3>2
    <3> QED BY <3>1, <3>2
  <2> QED BY <1>2, <2>2 DEF Absent, By
<1>7. L \in 0..Len(files'[D]) /\ BatchAt(w, D, L)'
  <2>1. Absent(w)
    BY DEF AllOrNothing
  <2>2. L \in 0..Len(files'[D]) /\ L + Len(batch[w]) <= Len(files'[D])
    BY <1>0, <1>1
  <2>3. ASSUME NEW e \in Days, NEW i \in 1..Len(files'[e])
        PROVE  files'[e][i].body.by = w <=> e = D /\ i \in (L + 1)..(L + Len(batch[w]))
    <3>1. CASE i \in 1..Len(files[e])
      <4>1. files'[e][i].body.by # w
        BY <1>2, <1>3, <2>1, <3>1 DEF Absent, By
      <4>2. e = D => i \in 1..L
        BY <1>1, <3>1
      <4>3. ~(e = D /\ i \in (L + 1)..(L + Len(batch[w])))
        BY <1>0, <1>1, <4>2
      <4> QED BY <4>1, <4>3
    <3>2. CASE i \notin 1..Len(files[e])
      BY <1>0, <1>4, <3>2
    <3> QED BY <3>1, <3>2
  <2>4. ASSUME NEW j \in DOMAIN batch[w]
        PROVE  files'[D][L + j].body.nth = j /\ files'[D][L + j].body.ts >= batch[w][j]
    <3>1. j \in 1..Len(c)
      BY <1>0, <1>2
    <3>2. files'[D][L + j] = c[j]
      BY ONLY <1>1, <3>1
    <3>3. c[j].body.nth = j /\ c[j].body.ts >= batch[w][j]
      BY ONLY <1>0, <3>1
    <3> QED BY ONLY <3>2, <3>3
  <2>5. \A e \in Days : \A i \in DOMAIN files'[e] :
           By(w, e, i)' <=> e = D /\ i \in (L + 1)..(L + Len(batch'[w]))
    <3>1. Len(batch'[w]) = Len(batch[w])
      OBVIOUS
    <3>2. ASSUME NEW e \in Days, NEW i \in DOMAIN files'[e] PROVE i \in 1..Len(files'[e])
      BY ONLY <1>2, <3>2
    <3>3. ASSUME NEW e \in Days, NEW i \in DOMAIN files'[e]
          PROVE  files'[e][i].body.by = w <=> e = D /\ i \in (L + 1)..(L + Len(batch'[w]))
      BY ONLY <2>3, <3>1, <3>2, <3>3
    <3> QED BY ONLY <3>3 DEF By
  <2>6. \A j \in DOMAIN batch'[w] : /\ files'[D][L + j].body.nth = j
                                    /\ files'[D][L + j].body.ts >= batch'[w][j]
    <3>1. batch'[w] = batch[w]
      OBVIOUS
    <3> QED BY ONLY <2>4, <3>1
  <2>7. L + Len(batch'[w]) <= Len(files'[D])
    BY <2>2
  <2>8. BatchAt(w, D, L)'
    BY <2>5, <2>6, <2>7 DEF BatchAt
  <2> QED BY <2>2, <2>8
<1> QED BY <1>5, <1>6, <1>7 DEF AllOrNothing

LEMMA ReplaceAppends ==
    ASSUME IInv, NEW w \in Writers, Replace(w)
    PROVE  LET c == ChainRecords(w, batch[w], seen[w])
           IN  /\ seen[w] = LastRecordTail
               /\ files' = [files EXCEPT ![day[w]] = files[day[w]] \o c]
               /\ ChainedOff(c, w, batch[w], seen[w])
               /\ Len(batch[w]) \in Nat \ {0}
<1>1. pc[w] = "cleared" /\ files' = [files EXCEPT ![day[w]] = tmp[day[w]]]
  BY DEF Replace
<1>2. TailUnmoved(w) /\ seen[w] = LastRecordTail /\ existing[w] = files[day[w]]
  BY <1>1 DEF IInv, SeenIsPast
<1>3. tmp[day[w]] = files[day[w]] \o ChainRecords(w, batch[w], seen[w])
  BY <1>1, <1>2 DEF IInv, StagedBatch, InTmp
<1>4. batch[w] \in Seq(Nat \ {0}) /\ Len(batch[w]) \in Nat \ {0}
  BY BatchType DEF IInv, TypeOK
<1>5. ChainedOff(ChainRecords(w, batch[w], seen[w]), w, batch[w], seen[w])
  <2>1. seen[w] \in [hash : Hash, ts : Nat]
    BY DEF IInv, TypeOK, RecordTail
  <2> QED BY <1>4, <2>1, ChainRecordsFacts
<1> QED BY <1>1, <1>2, <1>3, <1>4, <1>5

LEMMA ReplaceIInv ==
    ASSUME Guarded, IInv, NEW w \in Writers, Replace(w)
    PROVE  IInv'
<1> DEFINE c == ChainRecords(w, batch[w], seen[w])
           D == day[w]
<1>0. TypeOK' /\ TypeOK
  <2>1. Next
    BY DEF Next, Step
  <2> QED BY <2>1, TypeNext DEF IInv
<1>1. /\ seen[w] = LastRecordTail
      /\ files' = [files EXCEPT ![D] = files[D] \o c]
      /\ ChainedOff(c, w, batch[w], seen[w])
      /\ Len(batch[w]) \in Nat \ {0}
  BY ReplaceAppends
<1> HIDE DEF c
<1>2. /\ pc[w] = "cleared" /\ pc'[w] = "ok"
      /\ \A v \in Writers : v # w => pc'[v] = pc[v]
      /\ UNCHANGED <<today, batch, day, seen, existing>>
      /\ \A d \in Days : files'[d] # <<>> => files[d] # <<>> \/ d = D
      /\ D \in Days
  BY <1>0 DEF Replace, Goto, TypeOK
<1>3. Exclusion /\ NoLaterFile /\ SeenIsPast /\ StagedBatch /\ ChainLinked /\ AllOrNothing
  BY DEF IInv
<1>4. \A d \in Days : files[d] # <<>> => d <= D
  BY <1>2, <1>3 DEF NoLaterFile
<1>5. ChainLinked' /\ Len(LastRecordTail'.hash) > Len(LastRecordTail.hash)
  <2>1. files \in [Days -> Seq(Record)] /\ Linked(files)
    BY <1>0, <1>3 DEF TypeOK, ChainLinked
  <2>2. /\ c \in Seq(Record) /\ Len(c) \in Nat \ {0}
        /\ \A i \in 1..Len(c) :
              /\ c[i].hash = Append(c[i].prev, c[i].body)
              /\ Len(c[i].hash) = Len(LastRecordTail.hash) + i
              /\ i = 1 => /\ c[i].prev = LastRecordTail.hash
                          /\ c[i].body.ts > LastRecordTail.ts
              /\ i # 1 => c[i].prev = c[i - 1].hash /\ c[i].body.ts > c[i - 1].body.ts
    BY <1>1 DEF ChainedOff
  <2>3. c # <<>> /\ Len(c) \in 1..Len(c)
    BY <2>2
  <2>4. Linked(files') /\ TailWithin(files', Days).hash = c[Len(c)].hash
    <3> DEFINE g == [files EXCEPT ![D] = files[D] \o c]
    <3>1. \A i \in 1..Len(c) :
             /\ c[i].hash = Append(c[i].prev, c[i].body)
             /\ i = 1 => /\ c[i].prev = TailWithin(files, Days).hash
                         /\ c[i].body.ts > TailWithin(files, Days).ts
             /\ i # 1 => c[i].prev = c[i - 1].hash /\ c[i].body.ts > c[i - 1].body.ts
      BY <2>2 DEF LastRecordTail
    <3>2. c \in Seq(Record) /\ D \in Days
      BY <1>2, <2>2
    <3> HIDE DEF D
    <3>3. Linked(g) /\ TailWithin(g, Days).hash = c[Len(c)].hash
      BY <1>4, <2>1, <2>3, <3>1, <3>2, LinkedAppend
    <3>4. files' = g
      BY <1>1
    <3> HIDE DEF g
    <3> QED BY <3>3, <3>4
  <2>5. Len(LastRecordTail.hash) \in Nat
    <3>1. LastRecordTail \in RecordTail
      BY <2>1, TailType DEF LastRecordTail
    <3> QED BY <3>1 DEF RecordTail, Hash
  <2>6. LastRecordTail'.hash = c[Len(c)].hash
    BY <2>4 DEF LastRecordTail
  <2>7. Len(c[Len(c)].hash) = Len(LastRecordTail.hash) + Len(c)
    BY <2>2, <2>3
  <2>8. ChainLinked'
    BY <2>4 DEF ChainLinked
  <2> QED BY <2>2, <2>5, <2>6, <2>7, <2>8
<1>6. AllOrNothing'
  BY <1>0, <1>1, <1>2, <1>3, BatchAppended
<1>7. ASSUME NEW v \in Writers, v # w, pc[v] \in Working
      PROVE  Overlap = "staging" /\ pc[v] \notin InTmp
  BY <1>2, <1>3, <1>7 DEF Guarded, Exclusion, Working, InTmp
<1>8. Exclusion'
  BY <1>2, <1>3 DEF Exclusion, Working, InTmp
<1>9. NoLaterFile'
  <2>1. \A d \in Days : files'[d] # <<>> => d <= today
    BY <1>2, <1>3 DEF NoLaterFile
  <2>2. ASSUME NEW v \in Writers, pc'[v] \in {"picked", "chained", "read", "staged", "cleared"}
        PROVE  /\ \A d \in Days : files'[d] # <<>> => d <= day[v]
               /\ Overlap = "staging" => day[v] = today
    <3>1. pc[v] \in {"picked", "chained", "read", "staged", "cleared"}
      BY <1>2, <2>2
    <3>2. v # w /\ Overlap = "staging"
      BY <1>2, <1>7, <2>2, <3>1 DEF Working
    <3>3. day[v] = today
      BY <1>3, <3>1, <3>2 DEF NoLaterFile
    <3> QED BY <2>1, <3>3
  <2> QED BY <1>2, <1>3, <2>1, <2>2 DEF NoLaterFile
<1>10. SeenIsPast'
  <2>1. SUFFICES ASSUME NEW v \in Writers, pc'[v] \in {"chained", "read", "staged", "cleared"}
                 PROVE  /\ Len(seen[v].hash) <= Len(LastRecordTail'.hash)
                        /\ LastRecordTail'.hash # seen[v].hash
                        /\ pc'[v] # "cleared"
    BY <1>2 DEF SeenIsPast, TailUnmoved
  <2>2. v # w /\ pc[v] = pc'[v] /\ pc[v] \in Working
    BY <1>2, <2>1 DEF Working
  <2>3. pc[v] \notin InTmp
    BY <1>7, <2>2
  <2>4. Len(seen[v].hash) <= Len(LastRecordTail.hash)
    BY <1>3, <2>1, <2>2 DEF SeenIsPast
  <2>5. Len(seen[v].hash) \in Nat /\ Len(LastRecordTail.hash) \in Nat /\ Len(LastRecordTail'.hash) \in Nat
    <3>1. LastRecordTail \in RecordTail /\ LastRecordTail' \in RecordTail /\ seen[v] \in RecordTail
      BY <1>0, TailType DEF TypeOK, LastRecordTail
    <3> QED BY <3>1 DEF RecordTail, Hash
  <2>6. Len(seen[v].hash) < Len(LastRecordTail'.hash)
    BY <1>5, <2>4, <2>5
  <2> QED BY <2>2, <2>3, <2>5, <2>6 DEF InTmp
<1>11. StagedBatch'
  BY <1>2, <1>3 DEF StagedBatch, Exclusion, InTmp
<1> QED BY <1>0, <1>5, <1>6, <1>8, <1>9, <1>10, <1>11 DEF IInv

-----------------------------------------------------------------------------
LEMMA NextIInv == Guarded /\ IInv /\ [Next]_vars => IInv'
<1> SUFFICES ASSUME Guarded, IInv, [Next]_vars PROVE IInv'
  OBVIOUS
<1>1. CASE \E w \in Writers : Replace(w)
  BY <1>1, ReplaceIInv
<1>2. CASE Next /\ ~\E w \in Writers : Replace(w)
  BY <1>2, QuietIInv
<1>3. CASE UNCHANGED vars
  <2>1. TypeOK'
    BY <1>3, TypeNext DEF IInv
  <2>2. (Exclusion /\ NoLaterFile /\ StagedBatch)'
    BY <1>3 DEF vars, IInv, Exclusion, NoLaterFile, StagedBatch
  <2>3. SeenIsPast'
    BY <1>3 DEF vars, IInv, SeenIsPast, TailUnmoved, LastRecordTail
  <2>4. ChainLinked' /\ AllOrNothing'
    BY <1>3, NoFileMoved DEF vars, IInv
  <2> QED BY <2>1, <2>2, <2>3, <2>4 DEF IInv
<1> QED BY <1>1, <1>2, <1>3

\* The inductive invariant holds in every reachable state.
THEOREM Inductive == ASSUME Guarded PROVE Spec => []IInv
BY InitIInv, NextIInv, PTL DEF Spec

\* Every record commits to its predecessor and is later than it, across the day
\* files: AuditChain's ChainLinked, for any number of writers, batches and days.
THEOREM TrailStaysLinked == ASSUME Guarded PROVE Spec => []ChainLinked
<1>1. IInv => ChainLinked
  BY DEF IInv
<1> QED BY <1>1, Inductive, PTL

\* A writer's batch is in the trail exactly when its write_records returned: whole,
\* in order, once; a collision, an orphan file or a crash leaves no part of it.
THEOREM BatchesWholeOrAbsent == ASSUME Guarded PROVE Spec => []AllOrNothing
<1>1. IInv => AllOrNothing
  BY DEF IInv
<1> QED BY <1>1, Inductive, PTL

LEMMA WrittenIsThere == IInv => NoSilentLoss
<1> SUFFICES ASSUME IInv, NEW w \in Writers, pc[w] = "ok" PROVE ~Absent(w)
  BY DEF NoSilentLoss
<1>1. PICK d \in Days : \E k \in 0..Len(files[d]) : BatchAt(w, d, k)
  BY DEF IInv, AllOrNothing
<1>2. PICK k \in 0..Len(files[d]) : BatchAt(w, d, k)
  BY <1>1
<1>3. Len(batch[w]) \in Nat \ {0}
  BY BatchType DEF IInv, TypeOK
<1>4. files[d] \in Seq(Record) /\ Len(files[d]) \in Nat
  BY DEF IInv, TypeOK
<1>5. k + 1 \in DOMAIN files[d] /\ k + 1 \in (k + 1)..(k + Len(batch[w]))
  BY <1>2, <1>3, <1>4 DEF BatchAt
<1>6. By(w, d, k + 1)
  BY <1>2, <1>5 DEF BatchAt
<1> QED BY <1>5, <1>6 DEF Absent

\* No writer is told that its batch is written when it is not: what the runs show
\* to fail as soon as two writers interleave between staging and moving.
THEOREM NothingLostSilently == ASSUME Guarded PROVE Spec => []NoSilentLoss
BY WrittenIsThere, Inductive, PTL

\* No step of any writer changes or drops a line that is in a day file.
THEOREM LinesStay == ASSUME Guarded PROVE Spec => AppendOnly
<1> DEFINE Keeps == \A d \in Days : /\ Len(files[d]) <= Len(files'[d])
                                    /\ \A i \in DOMAIN files[d] : files'[d][i] = files[d][i]
<1>1. IInv /\ [Next]_vars => [Keeps]_vars
  <2> SUFFICES ASSUME IInv, [Next]_vars PROVE [Keeps]_vars
    OBVIOUS
  <2>1. ASSUME NEW w \in Writers, Replace(w) PROVE Keeps
    <3> DEFINE c == ChainRecords(w, batch[w], seen[w])
    <3>1. /\ files \in [Days -> Seq(Record)] /\ day[w] \in Days
          /\ files' = [files EXCEPT ![day[w]] = files[day[w]] \o c]
          /\ c \in Seq(Record)
      BY <2>1, ReplaceAppends DEF IInv, TypeOK, ChainedOff
    <3> HIDE DEF c
    <3>2. ASSUME NEW d \in Days, d # day[w]
          PROVE  files'[d] = files[d] /\ Len(files[d]) <= Len(files[d])
      BY <3>1, <3>2
    <3>3. files'[day[w]] = files[day[w]] \o c /\ files[day[w]] \in Seq(Record)
      BY <3>1
    <3>4. /\ Len(files[day[w]]) <= Len(files'[day[w]])
          /\ \A i \in DOMAIN files[day[w]] : files'[day[w]][i] = files[day[w]][i]
      BY <3>1, <3>3
    <3> QED BY <3>2, <3>4
  <2>2. CASE Next /\ ~\E w \in Writers : Replace(w)
    <3>1. files' = files
      BY <2>2 DEF Next, Step, Crash, PickFile, ReadTail, ReadExisting, Stage, RecheckPasses,
             RecheckFails, ReplaceMissing, WriteOrphanRecords, Midnight, Terminated, vars
    <3>2. \A d \in Days : Len(files[d]) <= Len(files[d])
      BY DEF IInv, TypeOK
    <3> QED BY <3>1, <3>2
  <2> HIDE DEF Keeps
  <2> QED BY <2>1, <2>2
<1>2. Spec => []IInv
  BY Inductive
<1>3. Spec => [][Keeps]_vars
  <2> HIDE DEF Keeps
  <2> QED BY <1>1, <1>2, PTL DEF Spec
<1> QED BY <1>3 DEF AppendOnly

-----------------------------------------------------------------------------
\* Collisions, for every Overlap: the tail a writer has read only moves when
\* another writer's batch is moved into place.
Recorded == {v \in Writers : pc[v] = "ok"}

PaidInv ==
    /\ TypeOK
    /\ CollisionsPaidFor
    /\ \A w \in Writers :
          pc[w] \in {"chained", "read", "staged"} /\ ~TailUnmoved(w) =>
             collided[w] + 1 <= Cardinality(Recorded)

LEMMA RecordedCount ==
    /\ IsFiniteSet(Recorded) /\ Cardinality(Recorded) \in Nat
    /\ CollisionsPaidFor <=> \A w \in Writers : collided[w] <= Cardinality(Recorded)
<1>1. IsFiniteSet(Recorded)
  <2>1. Recorded \subseteq Writers
    BY DEF Recorded
  <2> QED BY <2>1, WritersAssumption, FS_Subset
<1>2. Cardinality(Recorded) \in Nat
  BY <1>1, FS_CardinalityType
<1>3. CollisionsPaidFor <=> \A w \in Writers : collided[w] <= Cardinality(Recorded)
  BY DEF CollisionsPaidFor, Recorded
<1> QED BY <1>1, <1>2, <1>3

LEMMA InitPaid == Init => PaidInv
<1> SUFFICES ASSUME Init PROVE PaidInv
  OBVIOUS
<1>1. TypeOK
  BY TypeInit
<1>2. \A w \in Writers : collided[w] = 0 /\ pc[w] = "start"
  BY DEF Init
<1>3. CollisionsPaidFor
  BY <1>2, RecordedCount
<1> QED BY <1>1, <1>2, <1>3 DEF PaidInv

\* A step that moves no file and tells no writer that its batch is written.
LEMMA QuietPaid ==
    ASSUME PaidInv, TypeOK', files' = files,
           \A v \in Writers : pc'[v] = "ok" <=> pc[v] = "ok",
           \A v \in Writers : collided'[v] <= Cardinality(Recorded),
           \A v \in Writers :
              pc'[v] \in {"chained", "read", "staged"} =>
                 /\ collided'[v] = collided[v]
                 /\ \/ pc[v] \in {"chained", "read", "staged"} /\ seen'[v] = seen[v]
                    \/ seen'[v] = LastRecordTail
    PROVE  PaidInv'
<1>1. Recorded' = Recorded /\ LastRecordTail' = LastRecordTail
  BY DEF Recorded, LastRecordTail
<1>2. CollisionsPaidFor'
  <2>1. \A v \in Writers : collided'[v] <= Cardinality(Recorded')
    BY <1>1
  <2> QED BY <2>1 DEF CollisionsPaidFor, Recorded
<1>3. ASSUME NEW v \in Writers, pc'[v] \in {"chained", "read", "staged"}, ~TailUnmoved(v)'
      PROVE  collided'[v] + 1 <= Cardinality(Recorded')
  <2>1. LastRecordTail.hash # seen'[v].hash
    BY <1>1, <1>3 DEF TailUnmoved
  <2>2. pc[v] \in {"chained", "read", "staged"} /\ ~TailUnmoved(v) /\ collided'[v] = collided[v]
    BY <1>3, <2>1 DEF TailUnmoved
  <2> QED BY <1>1, <2>2 DEF PaidInv
<1> QED BY <1>2, <1>3 DEF PaidInv

LEMMA NextPaid == PaidInv /\ [Next]_vars => PaidInv'
<1> SUFFICES ASSUME PaidInv, [Next]_vars PROVE PaidInv'
  OBVIOUS
<1>0. TypeOK /\ TypeOK'
  BY TypeNext DEF PaidInv
<1>1. \A w \in Writers : collided[w] <= Cardinality(Recorded) /\ collided[w] \in Nat
  BY <1>0, RecordedCount DEF PaidInv, TypeOK
<1>2. ASSUME NEW w \in Writers, Replace(w) PROVE PaidInv'
  <2>1. /\ pc[w] = "cleared" /\ pc'[w] = "ok" /\ collided' = collided
        /\ \A v \in Writers : v # w => pc'[v] = pc[v]
    BY <1>0, <1>2 DEF Replace, Goto, TypeOK
  <2>2. Recorded' = Recorded \cup {w} /\ w \notin Recorded
    BY <2>1 DEF Recorded
  <2>3. Cardinality(Recorded') = Cardinality(Recorded) + 1
    BY <2>2, RecordedCount, FS_AddElement
  <2>4. \A v \in Writers : collided'[v] + 1 <= Cardinality(Recorded')
    BY <1>1, <2>1, <2>3, RecordedCount
  <2>5. \A v \in Writers : collided'[v] <= Cardinality(Recorded')
    BY <1>1, <2>1, <2>3, RecordedCount
  <2>6. CollisionsPaidFor'
    BY <2>5 DEF CollisionsPaidFor, Recorded
  <2> QED BY <1>0, <2>4, <2>6 DEF PaidInv
<1>3. ASSUME NEW w \in Writers, RecheckFails(w) PROVE PaidInv'
  <2>1. /\ pc[w] = "staged" /\ pc'[w] \in {"raised", "retry", "exhausted"}
        /\ \A v \in Writers : v # w => pc'[v] = pc[v] /\ collided'[v] = collided[v]
        /\ collided'[w] = collided[w] + 1 /\ files' = files /\ seen' = seen
    BY <1>0, <1>3 DEF RecheckFails, Goto, TypeOK
  <2>2. collided'[w] <= Cardinality(Recorded)
    BY <1>3, <2>1 DEF RecheckFails, PaidInv
  <2> QED BY <1>0, <1>1, <2>1, <2>2, QuietPaid
<1>4. ASSUME NEW w \in Writers, Step(w) \/ Crash(w), ~Replace(w), ~RecheckFails(w)
      PROVE  PaidInv'
  <2>1. /\ files' = files /\ collided' = collided
        /\ \A v \in Writers : pc'[v] = "ok" <=> pc[v] = "ok"
    BY <1>0, <1>4 DEF Step, Crash, PickFile, ReadTail, ReadExisting, Stage, RecheckPasses,
          ReplaceMissing, WriteOrphanRecords, Goto, TypeOK, Working
  <2>2. ASSUME NEW v \in Writers, pc'[v] \in {"chained", "read", "staged"}
        PROVE  \/ pc[v] \in {"chained", "read", "staged"} /\ seen'[v] = seen[v]
               \/ seen'[v] = LastRecordTail
    BY <1>0, <1>4, <2>2 DEF Step, Crash, PickFile, ReadTail, ReadExisting, Stage,
          RecheckPasses, ReplaceMissing, WriteOrphanRecords, Goto, TypeOK
  <2> QED BY <1>0, <1>1, <2>1, <2>2, QuietPaid
<1>5. CASE Midnight \/ UNCHANGED vars
  <2>1. UNCHANGED <<files, pc, seen, collided>>
    BY <1>5 DEF Midnight, vars
  <2> QED BY <1>0, <1>1, <2>1, QuietPaid
<1> QED BY <1>2, <1>3, <1>4, <1>5 DEF Next, Terminated

\* A writer collides at most as often as batches of others are recorded, however
\* freely the writers interleave: AuditTrail's CollisionsPaidFor.
THEOREM CollisionsArePaidFor == Spec => []CollisionsPaidFor
<1>1. PaidInv => CollisionsPaidFor
  BY DEF PaidInv
<1> QED BY <1>1, InitPaid, NextPaid, PTL DEF Spec

-----------------------------------------------------------------------------
\* Every batch of a retrying writer that ended is in the trail or set aside.
EndsInv ==
    /\ orphans = {w \in Writers : pc[w] = "orphaned"}
    /\ \A w \in Writers : pc[w] # "missing"
    /\ \A w \in Retrying : pc[w] # "raised"

LEMMA NextEnds == IInv /\ EndsInv /\ [Next]_vars => EndsInv'
<1> SUFFICES ASSUME IInv, EndsInv, [Next]_vars PROVE EndsInv'
  OBVIOUS
<1>0. TypeOK /\ TypeOK' /\ Retrying \subseteq Writers
  BY TypeNext, RetryingAssumption DEF IInv
<1>1. ASSUME NEW w \in Writers PROVE ~ReplaceMissing(w)
  <2>1. SUFFICES ASSUME pc[w] = "cleared" PROVE tmp[day[w]] # <<>>
    BY DEF ReplaceMissing
  <2>2. tmp[day[w]] = existing[w] \o ChainRecords(w, batch[w], seen[w])
    BY <2>1 DEF IInv, StagedBatch, InTmp
  <2>3. batch[w] \in Seq(Nat \ {0}) /\ Len(batch[w]) \in Nat \ {0}
    BY <1>0, BatchType DEF TypeOK
  <2>4. ChainedOff(ChainRecords(w, batch[w], seen[w]), w, batch[w], seen[w])
    <3>1. seen[w] \in [hash : Hash, ts : Nat]
      BY <1>0 DEF TypeOK, RecordTail
    <3> QED BY <2>3, <3>1, ChainRecordsFacts
  <2>5. /\ existing[w] \in Seq(Record) /\ ChainRecords(w, batch[w], seen[w]) \in Seq(Record)
        /\ Len(ChainRecords(w, batch[w], seen[w])) # 0
    BY <1>0, <2>3, <2>4 DEF TypeOK, ChainedOff
  <2> QED BY <2>2, <2>5, ConcatNotEmpty
<1>2. ASSUME NEW w \in Writers, WriteOrphanRecords(w) PROVE EndsInv'
  <2>1. /\ pc'[w] = "orphaned" /\ orphans' = orphans \cup {w}
        /\ \A v \in Writers : v # w => pc'[v] = pc[v]
    BY <1>0, <1>2 DEF WriteOrphanRecords, Goto, TypeOK
  <2> QED BY <1>0, <2>1 DEF EndsInv
<1>3. ASSUME NEW w \in Writers, Step(w) \/ Crash(w), ~WriteOrphanRecords(w) PROVE EndsInv'
  <2>1. /\ orphans' = orphans /\ \A v \in Writers : v # w => pc'[v] = pc[v]
        /\ pc[w] # "orphaned" /\ pc'[w] \notin {"orphaned", "missing"}
        /\ pc'[w] = "raised" => w \notin Retrying
    BY <1>0, <1>1, <1>3 DEF Step, Crash, PickFile, ReadTail, ReadExisting, Stage,
          RecheckPasses, RecheckFails, Replace, Goto, TypeOK, Working
  <2> QED BY <1>0, <2>1 DEF EndsInv
<1>4. CASE Midnight \/ UNCHANGED vars
  BY <1>4 DEF Midnight, vars, EndsInv
<1> QED BY <1>2, <1>3, <1>4 DEF Next, Terminated

LEMMA EndedIsKept == IInv /\ EndsInv => TrailOrOrphanFile
<1> SUFFICES ASSUME IInv, EndsInv, NEW w \in Retrying, pc[w] \in Final \ {"crashed"}
             PROVE  Absent(w) <=> w \in orphans
  BY DEF TrailOrOrphanFile
<1>1. w \in Writers /\ pc[w] \in {"ok", "orphaned"}
  BY RetryingAssumption DEF EndsInv, Final
<1>2. CASE pc[w] = "ok"
  BY <1>1, <1>2, WrittenIsThere DEF NoSilentLoss, EndsInv
<1>3. CASE pc[w] = "orphaned"
  BY <1>1, <1>3 DEF IInv, AllOrNothing, EndsInv
<1> QED BY <1>1, <1>2, <1>3

-----------------------------------------------------------------------------
\* What verify_chain expects before a line is what the line was chained off.
LEMMA ExpectedIsBefore ==
    ASSUME NEW f \in [Days -> Seq(Record)], NEW d \in Days, NEW i \in 1..Len(f[d])
    PROVE  Expected(f, Days, d, i) = Before(f, d, i)
<1> DEFINE before == {j \in ReadableLines(f[d]) : j < i}
<1>0. f[d] \in Seq(Record) /\ Len(f[d]) \in Nat /\ i \in Nat
  OBVIOUS
<1>1. before = {j \in 1..Len(f[d]) : j < i}
  BY <1>0, RecordsAreReadable
<1>2. CASE i > 1
  <2>1. i - 1 \in before /\ \A j \in before : j <= i - 1
    BY <1>0, <1>1, <1>2
  <2>2. before \in SUBSET Nat
    BY <1>0, <1>1
  <2>3. Max(before) = i - 1
    <3> HIDE DEF before
    <3> QED BY <2>1, <2>2, MaxIs
  <2> QED BY <1>2, <2>1, <2>3 DEF Expected, Before
<1>3. CASE ~(i > 1)
  <2>1. before = {}
    BY <1>0, <1>1, <1>3
  <2> QED BY <1>3, <2>1 DEF Expected, Before
<1> QED BY <1>2, <1>3

LEMMA LinkedVerifies == TypeOK /\ ChainLinked => TrailVerifies
<1> SUFFICES ASSUME TypeOK, ChainLinked, NEW d \in Days, NEW i \in DOMAIN files[d]
             PROVE  BreaksAt(files, Days, d, i) = {}
  BY DEF TrailVerifies
<1>1. files \in [Days -> Seq(Record)] /\ files[d] \in Seq(Record) /\ i \in 1..Len(files[d])
  BY DEF TypeOK
<1> DEFINE r == files[d][i]
           b == Expected(files, Days, d, i)
<1>2. r \in Record /\ r.body.ts \in Nat /\ Readable(r)
  <2>1. r \in Record
    BY <1>1
  <2> HIDE DEF r
  <2> QED BY <2>1 DEF Record, Body, Readable
<1>3. r.prev = b.hash /\ r.hash = Append(r.prev, r.body) /\ r.body.ts > b.ts
  BY <1>1, ExpectedIsBefore DEF ChainLinked, Linked
<1>4. b.ts \in Nat
  <2>1. CASE i > 1
    <3>1. i - 1 \in 1..Len(files[d])
      BY <1>1, <2>1
    <3>2. files[d][i - 1] \in Record
      BY <1>1, <3>1
    <3>3. b = [hash |-> files[d][i - 1].hash, ts |-> files[d][i - 1].body.ts]
      BY <1>1, <2>1, ExpectedIsBefore DEF Before
    <3> QED BY <3>2, <3>3 DEF Record, Body
  <2>2. CASE ~(i > 1)
    <3>1. b = TailWithin(files, {e \in Days : e < d})
      BY <1>1, <2>2, ExpectedIsBefore DEF Before
    <3>2. b \in RecordTail
      BY <1>1, <3>1, TailType
    <3> QED BY <3>2 DEF RecordTail
  <2> QED BY <2>1, <2>2
<1>5. ~(r.body.ts < b.ts)
  BY <1>2, <1>3, <1>4
<1>6. BreaksAt(files, Days, d, i) =
        IF ~Readable(r) THEN {"missing_field"}
        ELSE (IF HashInvalid(r) THEN {"record_hash_invalid"}
              ELSE IF r.prev # b.hash THEN {"prev_hash_mismatch"} ELSE {})
             \cup (IF r.body.ts < b.ts THEN {"timestamp_regression"} ELSE {})
  BY DEF BreaksAt
<1>7. ~HashInvalid(r)
  BY <1>3 DEF HashInvalid
<1> HIDE DEF r, b
<1> QED BY <1>2, <1>3, <1>5, <1>6, <1>7

-----------------------------------------------------------------------------
\* The log that the last record commits to.
LogInv ==
    /\ TailCommitsToTrail
    /\ Log!Increasing(LogOfTrail)

\* The last hash of a chained batch: the tail's bodies, then the batch's.
LEMMA ChainHash ==
    ASSUME NEW w \in Writers, NEW b \in Seq(Nat \ {0}), NEW tail \in [hash : Hash, ts : Nat],
           NEW n \in Nat \ {0}, n = Len(b)
    PROVE  LET c == ChainRecords(w, b, tail)
               m == Len(tail.hash)
           IN  /\ m \in Nat
               /\ c[n].hash \in Seq(Body) /\ Len(c[n].hash) = m + n
               /\ \A p \in 1..m : c[n].hash[p] = tail.hash[p]
               /\ \A j \in 1..n : c[n].hash[m + j] = c[j].body
<1> DEFINE c == ChainRecords(w, b, tail)
           bodies == [j \in 1..n |-> c[j].body]
<1>1. c \in Seq(Record) /\ Len(c) = n
  BY ChainRecordsFacts DEF ChainedOff
<1>2. c[n].hash = tail.hash \o bodies
  <2>1. n \in 1..n /\ n \in 1..Len(b)
    OBVIOUS
  <2>2. bodies = [j \in 1..n |-> [by |-> w, nth |-> j, ts |-> Stamp(b, tail.ts, j)]]
    BY DEF ChainRecords
  <2> QED BY <2>1, <2>2 DEF ChainRecords
<1> HIDE DEF c
<1>3. \A j \in 1..n : c[j] \in Record /\ c[j].body \in Body
  <2>1. \A j \in 1..n : c[j] \in Record
    BY <1>1
  <2> QED BY <2>1 DEF Record
<1>4. bodies \in Seq(Body) /\ Len(bodies) = n /\ \A j \in 1..n : bodies[j] = c[j].body
  <2>1. bodies \in [1..n -> Body] /\ n \in Nat /\ \A j \in 1..n : bodies[j] = c[j].body
    BY <1>3
  <2> HIDE DEF bodies
  <2>2. bodies \in Seq(Body) /\ Len(bodies) = n
    BY ONLY <2>1
  <2> QED BY <2>1, <2>2
<1>5. tail.hash \in Seq(Body)
  BY DEF Hash
<1> HIDE DEF bodies
<1>6. /\ Len(tail.hash) \in Nat
      /\ tail.hash \o bodies \in Seq(Body)
      /\ Len(tail.hash \o bodies) = Len(tail.hash) + n
      /\ \A p \in 1..Len(tail.hash) : (tail.hash \o bodies)[p] = tail.hash[p]
      /\ \A j \in 1..n : (tail.hash \o bodies)[Len(tail.hash) + j] = bodies[j]
  <2> DEFINE h == tail.hash
  <2> HIDE DEF h
  <2>1. h \in Seq(Body) /\ bodies \in Seq(Body)
    BY <1>4, <1>5 DEF h
  <2>2. /\ h \o bodies \in Seq(Body)
        /\ Len(h) \in Nat /\ Len(bodies) \in Nat /\ Len(h \o bodies) = Len(h) + Len(bodies)
        /\ \A p \in 1..Len(h) : (h \o bodies)[p] = h[p]
        /\ \A j \in 1..Len(bodies) : (h \o bodies)[Len(h) + j] = bodies[j]
    BY ONLY <2>1, ConcatFacts
  <2> QED BY <1>4, <2>2 DEF h
<1> QED BY <1>2, <1>4, <1>6 DEF c

\* The tail's timestamp is the one of the last body its hash commits to.
LEMMA LastBody ==
    ASSUME TypeOK, ChainLinked
    PROVE  /\ LogOfTrail \in Seq(Body) /\ Len(LogOfTrail) \in Nat
           /\ LogOfTrail # <<>> => LogOfTrail[Len(LogOfTrail)].ts = LastRecordTail.ts
<1>0. files \in [Days -> Seq(Record)] /\ Days \in SUBSET Days
  BY DEF TypeOK
<1>1. LogOfTrail \in Seq(Body)
  <2>1. LastRecordTail \in RecordTail
    BY <1>0, TailType DEF LastRecordTail
  <2> QED BY <2>1 DEF LogOfTrail, RecordTail, Hash
<1>2. CASE \A d \in Days : files[d] = <<>>
  <2>1. LastRecordTail = NoTail
    BY <1>0, <1>2, TailOfNothing DEF LastRecordTail
  <2> QED BY <1>1, <2>1 DEF LogOfTrail, NoTail
<1>3. CASE \E d \in Days : files[d] # <<>>
  <2>1. PICK d \in Days : files[d] # <<>> /\ \A e \in Days : files[e] # <<>> => e <= d
    BY <1>0, <1>3, LatestDay
  <2> DEFINE n == Len(files[d])
             r == files[d][n]
  <2>2. LastRecordTail = [hash |-> r.hash, ts |-> r.body.ts]
    BY <1>0, <2>1, TailOfTrail DEF LastRecordTail
  <2>3. n \in DOMAIN files[d] /\ r \in Record
    <3>1. files[d] \in Seq(Record) /\ files[d] # <<>>
      BY <1>0, <2>1
    <3> QED BY <3>1
  <2>4. r.hash = Append(r.prev, r.body)
    BY <2>3 DEF ChainLinked, Linked
  <2>5. r.prev \in Seq(Body) /\ r.body \in Body
    BY <2>3 DEF Record, Hash
  <2> HIDE DEF r, n
  <2>6. r.hash[Len(r.hash)] = r.body
    BY <2>4, <2>5
  <2> QED BY <1>1, <2>2, <2>6 DEF LogOfTrail
<1> QED BY <1>1, <1>2, <1>3

\* What moving a staged file into place does to the log.
LEMMA ReplaceLog ==
    ASSUME IInv, NEW w \in Writers, Replace(w)
    PROVE  LET c == ChainRecords(w, batch[w], seen[w])
               m == Len(LogOfTrail)
               n == Len(batch[w])
           IN  /\ m \in Nat /\ n \in Nat \ {0} /\ Len(c) = n
               /\ LogOfTrail \in Seq(Body) /\ LogOfTrail' \in Seq(Body)
               /\ Len(LogOfTrail') = m + n
               /\ \A p \in 1..m : LogOfTrail'[p] = LogOfTrail[p]
               /\ \A j \in 1..n : LogOfTrail'[m + j] = c[j].body
<1> DEFINE c == ChainRecords(w, batch[w], seen[w])
           D == day[w]
           n == Len(batch[w])
<1>0. TypeOK /\ ChainLinked /\ files \in [Days -> Seq(Record)] /\ D \in Days
  BY DEF IInv, TypeOK
<1>1. /\ seen[w] = LastRecordTail
      /\ files' = [files EXCEPT ![D] = files[D] \o c]
      /\ ChainedOff(c, w, batch[w], seen[w])
      /\ n \in Nat \ {0}
  BY ReplaceAppends
<1>2. c \in Seq(Record) /\ Len(c) = n /\ n \in 1..n
  BY <1>1 DEF ChainedOff
<1>3. batch[w] \in Seq(Nat \ {0}) /\ seen[w] \in [hash : Hash, ts : Nat]
  BY BatchType DEF IInv, TypeOK, RecordTail
<1>4. \A d \in Days : files[d] # <<>> => d <= D
  BY DEF IInv, NoLaterFile, Replace
<1>5. LogOfTrail' = c[n].hash
  <2> HIDE DEF c, D, n
  <2>1. /\ files' \in [Days -> Seq(Record)]
        /\ \A d \in Days : d # D => files'[d] = files[d]
        /\ Len(files[D]) \in Nat /\ Len(files'[D]) = Len(files[D]) + n
        /\ files'[D][Len(files[D]) + n] = c[n]
    BY <1>0, <1>1, <1>2, AppendedFile
  <2>2. files'[D] # <<>>
    <3>1. Len(files'[D]) # 0
      BY <1>1, <2>1
    <3> QED BY <3>1
  <2>3. \A e \in Days : files'[e] # <<>> => e <= D
    <3>1. D <= D
      BY <1>0, DayAssumption DEF Days
    <3> QED BY <1>4, <2>1, <3>1
  <2>4. TailWithin(files', Days).hash = files'[D][Len(files'[D])].hash
    BY <1>0, <2>1, <2>2, <2>3, TailOfTrail
  <2> QED BY <2>1, <2>4 DEF LogOfTrail, LastRecordTail
<1>6. LET m == Len(seen[w].hash)
      IN  /\ m \in Nat
          /\ c[n].hash \in Seq(Body) /\ Len(c[n].hash) = m + n
          /\ \A p \in 1..m : c[n].hash[p] = seen[w].hash[p]
          /\ \A j \in 1..n : c[n].hash[m + j] = c[j].body
  <2> DEFINE b == batch[w]
             tail == seen[w]
  <2>1. n = Len(b) /\ n \in Nat \ {0} /\ b \in Seq(Nat \ {0}) /\ tail \in [hash : Hash, ts : Nat]
    BY <1>1, <1>3
  <2> HIDE DEF n, b, tail
  <2>2. LET ch == ChainRecords(w, b, tail)
            m == Len(tail.hash)
        IN  /\ m \in Nat
            /\ ch[n].hash \in Seq(Body) /\ Len(ch[n].hash) = m + n
            /\ \A p \in 1..m : ch[n].hash[p] = tail.hash[p]
            /\ \A j \in 1..n : ch[n].hash[m + j] = ch[j].body
    BY ONLY <2>1, w \in Writers, ChainHash
  <2> QED BY <2>2 DEF b, tail
<1>7. LogOfTrail \in Seq(Body) /\ seen[w].hash = LogOfTrail
  BY <1>0, <1>1, LastBody DEF LogOfTrail
<1> HIDE DEF c, n, D
<1> QED BY <1>1, <1>2, <1>5, <1>6, <1>7 DEF c, n

LEMMA ReplaceLogInv ==
    ASSUME IInv, LogInv, NEW w \in Writers, Replace(w)
    PROVE  LogInv'
<1> DEFINE c == ChainRecords(w, batch[w], seen[w])
           D == day[w]
           L == Len(files[D])
           m == Len(LogOfTrail)
           n == Len(batch[w])
<1>0. TypeOK /\ ChainLinked /\ files \in [Days -> Seq(Record)] /\ D \in Days /\ Days \in SUBSET Nat
  BY DayAssumption DEF IInv, TypeOK, Days
<1>1. /\ m \in Nat /\ n \in Nat \ {0} /\ Len(c) = n
      /\ LogOfTrail \in Seq(Body) /\ LogOfTrail' \in Seq(Body)
      /\ Len(LogOfTrail') = m + n
      /\ \A p \in 1..m : LogOfTrail'[p] = LogOfTrail[p]
      /\ \A j \in 1..n : LogOfTrail'[m + j] = c[j].body
  BY ReplaceLog
<1>2. /\ seen[w] = LastRecordTail
      /\ files' = [files EXCEPT ![D] = files[D] \o c]
      /\ ChainedOff(c, w, batch[w], seen[w])
  BY ReplaceAppends
<1>3. \A d \in Days : files[d] # <<>> => d <= D
  BY DEF IInv, NoLaterFile, Replace
<1>4. c \in Seq(Record)
  BY <1>2 DEF ChainedOff
<1> HIDE DEF c, D
<1>5. /\ files' \in [Days -> Seq(Record)]
      /\ \A d \in Days : d # D => files'[d] = files[d]
      /\ L \in Nat /\ Len(files'[D]) = L + n
      /\ \A i \in 1..L : files'[D][i] = files[D][i]
      /\ \A j \in 1..n : files'[D][L + j] = c[j]
  <2> HIDE DEF n, m
  <2>1. /\ files' \in [Days -> Seq(Record)]
        /\ \A d \in Days : d # D => files'[d] = files[d]
        /\ Len(files[D]) \in Nat /\ Len(files'[D]) = Len(files[D]) + Len(c)
        /\ \A i \in 1..Len(files[D]) : files'[D][i] = files[D][i]
        /\ \A j \in 1..Len(c) : files'[D][Len(files[D]) + j] = c[j]
    BY ONLY <1>0, <1>2, <1>4, AppendedFile
  <2> QED BY ONLY <1>1, <2>1
<1>6. \A j \in 1..n : Len(c[j].hash) = m + j
  BY <1>1, <1>2 DEF ChainedOff, LogOfTrail
<1> HIDE DEF m, n, L
\* A line is one that was there or the j-th of the batch.
<1> DEFINE Old(d, i) == i \in 1..Len(files[d]) /\ files'[d][i] = files[d][i]
           New(d, i) == d = D /\ \E j \in 1..n : i = L + j /\ files'[d][i] = c[j]
<1>7. ASSUME NEW d \in Days, NEW i \in 1..Len(files'[d])
      PROVE  Old(d, i) \/ New(d, i)
  <2>1. CASE d # D
    BY <1>5, <2>1
  <2>2. CASE d = D /\ i \in 1..L
    BY <1>5, <2>2 DEF L
  <2>3. CASE d = D /\ i \notin 1..L
    <3>1. i - L \in 1..n /\ i = L + (i - L)
      BY <1>1, <1>5, <2>3
    <3> QED BY <1>5, <2>3, <3>1
  <2> QED BY <2>1, <2>2, <2>3
<1>8. ASSUME NEW d \in Days, NEW i \in 1..Len(files[d])
      PROVE  /\ i \in 1..Len(files'[d]) /\ files'[d][i] = files[d][i]
             /\ Len(files[d][i].hash) \in 1..m
             /\ LogOfTrail[Len(files[d][i].hash)] = files[d][i].body
             /\ d <= D
  <2>1. i \in 1..Len(files'[d]) /\ files'[d][i] = files[d][i]
    <3>1. CASE d = D
      <4>1. i \in 1..L /\ i \in 1..(L + n)
        BY <1>1, <1>5, <3>1 DEF L
      <4> QED BY <1>5, <3>1, <4>1
    <3>2. CASE d # D
      BY <1>5, <3>2
    <3> QED BY <3>1, <3>2
  <2>2. i \in DOMAIN files[d] /\ files[d] # <<>> /\ DOMAIN LogOfTrail = 1..m
    BY <1>0, <1>1 DEF m
  <2>3. Position(d, i) \in DOMAIN LogOfTrail /\ LogOfTrail[Position(d, i)] = files[d][i].body
    BY <2>2 DEF LogInv, TailCommitsToTrail
  <2> QED BY <1>3, <2>1, <2>2, <2>3 DEF Position
<1>9. \A d \in Days : DOMAIN files'[d] = 1..Len(files'[d]) /\ DOMAIN files[d] = 1..Len(files[d])
  BY <1>0, <1>5
<1>10. DOMAIN LogOfTrail' = 1..(m + n) /\ DOMAIN LogOfTrail = 1..m
  BY <1>1 DEF m
<1> HIDE DEF Old, New
<1>11. ASSUME NEW d \in Days, NEW i \in 1..Len(files'[d])
       PROVE  /\ Len(files'[d][i].hash) \in 1..(m + n)
              /\ LogOfTrail'[Len(files'[d][i].hash)] = files'[d][i].body
  <2>1. CASE Old(d, i)
    <3> DEFINE p == Len(files[d][i].hash)
    <3>1. p \in 1..m /\ LogOfTrail[p] = files[d][i].body /\ files'[d][i] = files[d][i]
      BY <1>8, <2>1 DEF Old
    <3> HIDE DEF p
    <3>2. p \in 1..(m + n) /\ LogOfTrail'[p] = files[d][i].body
      BY <1>1, <3>1
    <3> QED BY <3>1, <3>2 DEF p
  <2>2. CASE New(d, i)
    <3>1. PICK j \in 1..n : files'[d][i] = c[j]
      BY <2>2 DEF New
    <3>2. Len(c[j].hash) = m + j /\ m + j \in 1..(m + n)
      BY <1>1, <1>6
    <3> QED BY <1>1, <3>1, <3>2
  <2> QED BY <1>7, <2>1, <2>2
<1>12. ASSUME NEW p \in 1..(m + n)
       PROVE  \E d \in Days : \E i \in DOMAIN files'[d] : Len(files'[d][i].hash) = p
  <2>1. CASE p \in 1..m
    <3>1. PICK d \in Days : \E i \in DOMAIN files[d] : Position(d, i) = p
      BY <1>10, <2>1 DEF LogInv, TailCommitsToTrail
    <3>2. PICK i \in DOMAIN files[d] : Len(files[d][i].hash) = p
      BY <3>1 DEF Position
    <3> QED BY <1>8, <1>9, <3>2
  <2>2. CASE p \notin 1..m
    <3>1. p - m \in 1..n /\ m + (p - m) = p
      BY <1>1, <2>2
    <3>2. L + (p - m) \in 1..Len(files'[D]) /\ files'[D][L + (p - m)] = c[p - m]
      BY <1>1, <1>5, <3>1
    <3> QED BY <1>0, <1>6, <1>9, <3>1, <3>2
  <2> QED BY <2>1, <2>2
<1>13. ASSUME NEW d \in Days, NEW e \in Days, NEW i \in 1..Len(files'[d]),
              NEW j \in 1..Len(files'[e]), d < e \/ (d = e /\ i < j)
       PROVE  Len(files'[d][i].hash) < Len(files'[e][j].hash)
  <2>1. CASE Old(d, i) /\ Old(e, j)
    <3>1. Position(d, i) < Position(e, j)
      BY <1>9, <1>13, <2>1 DEF Old, LogInv, TailCommitsToTrail
    <3> QED BY <2>1, <3>1 DEF Old, Position
  <2>2. CASE Old(d, i) /\ New(e, j)
    <3>1. PICK k \in 1..n : files'[e][j] = c[k]
      BY <2>2 DEF New
    <3>2. Len(files'[d][i].hash) \in 1..m
      BY <1>8, <2>2 DEF Old
    <3>3. Len(files'[e][j].hash) = m + k
      BY <1>6, <3>1
    <3> QED BY ONLY <1>1, <3>2, <3>3
  <2>3. CASE New(d, i) /\ Old(e, j)
    <3>1. PICK k \in 1..n : i = L + k
      BY <2>3 DEF New
    <3>2. d = D /\ e <= D /\ (e = D => j \in 1..L)
      BY <1>8, <2>3 DEF Old, New, L
    <3>3. d \in Nat /\ e \in Nat
      BY <1>0
    <3>4. d = e /\ i < j /\ j \in 1..L
      BY ONLY <1>13, <3>2, <3>3
    <3>5. L \in Nat
      BY <1>5
    <3> QED BY ONLY <3>1, <3>4, <3>5
  <2>4. CASE New(d, i) /\ New(e, j)
    <3>1. PICK k \in 1..n : i = L + k /\ files'[d][i] = c[k]
      BY <2>4 DEF New
    <3>2. PICK l \in 1..n : j = L + l /\ files'[e][j] = c[l]
      BY <2>4 DEF New
    <3>3. d = D /\ e = D /\ D \in Nat
      BY <1>0, <2>4 DEF New
    <3>4. k < l
      BY <1>5, <1>13, <3>1, <3>2, <3>3
    <3>5. Len(c[k].hash) = m + k /\ Len(c[l].hash) = m + l
      BY <1>6
    <3>6. m + k < m + l
      BY <1>1, <3>4
    <3> QED BY <3>1, <3>2, <3>5, <3>6
  <2> QED BY <1>7, <2>1, <2>2, <2>3, <2>4
<1>14. TailCommitsToTrail'
  <2>1. \A d \in Days : \A i \in DOMAIN files'[d] :
           /\ Len(files'[d][i].hash) \in DOMAIN LogOfTrail'
           /\ LogOfTrail'[Len(files'[d][i].hash)] = files'[d][i].body
    BY <1>9, <1>10, <1>11
  <2>2. \A p \in DOMAIN LogOfTrail' :
           \E d \in Days : \E i \in DOMAIN files'[d] : Len(files'[d][i].hash) = p
    BY <1>10, <1>12
  <2>3. \A d, e \in Days : \A i \in DOMAIN files'[d] : \A j \in DOMAIN files'[e] :
           d < e \/ (d = e /\ i < j) => Len(files'[d][i].hash) < Len(files'[e][j].hash)
    BY <1>9, <1>13
  <2> QED BY <2>1, <2>2, <2>3 DEF TailCommitsToTrail, Position
<1>15. ASSUME NEW i \in 1..(Len(LogOfTrail') - 1)
       PROVE  LogOfTrail'[i].ts < LogOfTrail'[i + 1].ts
  <2>1. CASE i < m
    <3>1. i \in 1..(Len(LogOfTrail) - 1) /\ i \in 1..m /\ i + 1 \in 1..m
      BY <1>1, <2>1 DEF m
    <3> QED BY <1>1, <3>1 DEF LogInv, Log!Increasing
  <2>2. CASE i = m
    <3>1. 1 \in 1..n /\ m \in 1..m /\ LogOfTrail # <<>>
      BY <1>1, <2>2 DEF m
    <3>2. LogOfTrail'[m].ts = LastRecordTail.ts
      BY <1>0, <1>1, <3>1, LastBody DEF m
    <3>3. LogOfTrail'[m + 1] = c[1].body
      BY <1>1, <3>1
    <3>4. c[1].body.ts > LastRecordTail.ts
      BY <1>1, <1>2, <3>1 DEF ChainedOff, n
    <3>5. c[1].body.ts \in Nat /\ LastRecordTail.ts \in Nat
      <4>1. c[1] \in Record
        BY <1>1, <1>4, <3>1
      <4>2. LastRecordTail \in RecordTail
        BY <1>0, TailType DEF LastRecordTail
      <4> QED BY <4>1, <4>2 DEF Record, Body, RecordTail
    <3> QED BY <2>2, <3>2, <3>3, <3>4, <3>5
  <2>3. CASE i > m
    <3>1. i - m \in 1..n /\ (i - m) + 1 \in 1..n /\ m + (i - m) = i /\ m + ((i - m) + 1) = i + 1
      BY <1>1, <2>3
    <3> DEFINE k == (i - m) + 1
    <3>2. LogOfTrail'[i] = c[i - m].body /\ LogOfTrail'[i + 1] = c[k].body
      BY <1>1, <3>1
    <3>3. k # 1 /\ k - 1 = i - m /\ k \in 1..Len(batch[w])
      BY <1>1, <3>1 DEF n
    <3>4. c[k].body.ts > c[k - 1].body.ts
      <4> HIDE DEF k
      <4> QED BY <1>2, <3>3 DEF ChainedOff
    <3>5. c[k].body.ts \in Nat /\ c[i - m].body.ts \in Nat
      <4>1. c[k] \in Record /\ c[i - m] \in Record
        <5>1. k \in 1..Len(c) /\ i - m \in 1..Len(c)
          BY <1>1, <3>1
        <5> HIDE DEF k
        <5> QED BY ONLY <1>4, <5>1
      <4> QED BY <4>1 DEF Record, Body
    <3> QED BY <3>2, <3>3, <3>4, <3>5
  <2> QED BY <1>1, <2>1, <2>2, <2>3
<1> QED BY <1>14, <1>15 DEF LogInv, Log!Increasing

LEMMA NextLogInv == IInv /\ LogInv /\ [Next]_vars => LogInv'
<1> SUFFICES ASSUME IInv, LogInv, [Next]_vars PROVE LogInv'
  OBVIOUS
<1>1. CASE \E w \in Writers : Replace(w)
  BY <1>1, ReplaceLogInv
<1>2. CASE ~\E w \in Writers : Replace(w)
  <2>1. files' = files
    BY <1>2 DEF Next, Step, Crash, PickFile, ReadTail, ReadExisting, Stage, RecheckPasses,
           RecheckFails, ReplaceMissing, WriteOrphanRecords, Midnight, Terminated, vars
  <2>2. LogOfTrail' = LogOfTrail
    BY <2>1 DEF LogOfTrail, LastRecordTail
  <2> QED BY <2>1, <2>2 DEF LogInv, TailCommitsToTrail, Position, Log!Increasing
<1> QED BY <1>1, <1>2

LEMMA InitReader == Init => EndsInv /\ LogInv /\ LogOfTrail = <<>>
<1> SUFFICES ASSUME Init PROVE EndsInv /\ LogInv /\ LogOfTrail = <<>>
  OBVIOUS
<1>1. EndsInv
  BY RetryingAssumption DEF Init, EndsInv
<1>2. files \in [Days -> Seq(Record)] /\ \A d \in Days : files[d] = <<>> /\ DOMAIN files[d] = {}
  BY TypeInit DEF Init, TypeOK
<1>3. LogOfTrail = <<>>
  <2>1. LastRecordTail = NoTail
    BY <1>2, TailOfNothing DEF LastRecordTail
  <2> QED BY <2>1 DEF LogOfTrail, NoTail
<1>4. TailCommitsToTrail
  <2>1. DOMAIN LogOfTrail = {}
    BY <1>3
  <2> QED BY <1>2, <2>1 DEF TailCommitsToTrail
<1>5. Log!Increasing(LogOfTrail)
  <2>1. Len(LogOfTrail) = 0
    BY <1>3
  <2>2. 1..(Len(LogOfTrail) - 1) = {}
    BY <2>1
  <2> QED BY <2>2 DEF Log!Increasing
<1> QED BY <1>1, <1>3, <1>4, <1>5 DEF LogInv

\* All that a reader relies on, as an invariant.
LEMMA ReaderInv == ASSUME Guarded PROVE Spec => [](IInv /\ EndsInv /\ LogInv)
<1>1. Init => IInv /\ EndsInv /\ LogInv
  BY InitIInv, InitReader
<1>2. IInv /\ EndsInv /\ LogInv /\ [Next]_vars => (IInv /\ EndsInv /\ LogInv)'
  BY NextIInv, NextEnds, NextLogInv
<1> QED BY <1>1, <1>2, PTL DEF Spec

\* verify_chain finds no break, no batch of a retrying writer that ended is missing
\* from both the trail and the orphan file, and the last record commits to every
\* line there is: AuditTrail's TrailIsWhole.
THEOREM TrailStaysWhole == ASSUME Guarded PROVE Spec => []TrailIsWhole
<1>1. IInv /\ EndsInv /\ LogInv => TrailIsWhole
  BY LinkedVerifies, EndedIsKept DEF IInv, LogInv, TrailIsWhole
<1> QED BY <1>1, ReaderInv, PTL

-----------------------------------------------------------------------------
\* The writers implement AuditLog: moving a staged file is Record, an end without
\* the batch in the trail is Refuse, and every other step changes nothing of the log.
LEMMA LogInit == Init => Log!Init
<1> SUFFICES ASSUME Init PROVE Log!Init
  OBVIOUS
<1>1. [w \in Writers |-> Len(batch[w])] \in [Writers -> Nat \ {0}]
  BY BatchType DEF Init
<1>2. [w \in Writers |-> Verdict(w)] = [w \in Writers |-> "pending"]
  BY DEF Init, Verdict, Final
<1> QED BY <1>1, <1>2, InitReader DEF Log!Init

\* The verdicts after a step of w that leaves the other writers where they are.
LEMMA VerdictMoves ==
    ASSUME NEW w \in Writers, \A v \in Writers : v # w => pc'[v] = pc[v]
    PROVE  [v \in Writers |-> Verdict(v)'] =
              [[v \in Writers |-> Verdict(v)] EXCEPT ![w] = Verdict(w)']
BY DEF Verdict

LEMMA RecordStep ==
    ASSUME IInv, LogInv, LogInv', NEW w \in Writers, Replace(w)
    PROVE  Log!Record(w)
<1>0. TypeOK
  BY DEF IInv
<1>1. /\ pc[w] = "cleared" /\ pc'[w] = "ok" /\ batch' = batch
      /\ \A v \in Writers : v # w => pc'[v] = pc[v]
  BY <1>0 DEF Replace, Goto, TypeOK
<1>2. Verdict(w) = "pending" /\ Verdict(w)' = "recorded"
  BY <1>1 DEF Verdict, Final
<1> DEFINE c == ChainRecords(w, batch[w], seen[w])
           m == Len(LogOfTrail)
           n == Len(batch[w])
<1>3. /\ m \in Nat /\ n \in Nat \ {0} /\ Len(c) = n
      /\ LogOfTrail \in Seq(Body) /\ LogOfTrail' \in Seq(Body)
      /\ Len(LogOfTrail') = m + n
      /\ \A p \in 1..m : LogOfTrail'[p] = LogOfTrail[p]
      /\ \A j \in 1..n : LogOfTrail'[m + j] = c[j].body
  BY ReplaceLog
<1>4. \A j \in 1..n : c[j].body.by = w /\ c[j].body.nth = j
  <2>1. ChainedOff(c, w, batch[w], seen[w])
    BY ReplaceAppends
  <2> HIDE DEF c
  <2> QED BY <2>1 DEF ChainedOff
<1> HIDE DEF c
<1>5. \A j \in 1..n : /\ LogOfTrail'[Len(LogOfTrail) + j].by = w
                      /\ LogOfTrail'[Len(LogOfTrail) + j].nth = j
  BY <1>3, <1>4
<1>6. SubSeq(LogOfTrail', 1, Len(LogOfTrail)) = LogOfTrail
  <2> HIDE DEF m, n
  <2>1. SubSeq(LogOfTrail', 1, m) \in Seq(Body) /\ Len(SubSeq(LogOfTrail', 1, m)) = m
    BY ONLY <1>3
  <2>2. \A p \in 1..m : SubSeq(LogOfTrail', 1, m)[p] = LogOfTrail[p]
    BY ONLY <1>3
  <2>3. m = Len(LogOfTrail)
    BY DEF m
  <2> QED BY <1>3, <2>1, <2>2, <2>3
<1>7. Log!Increasing(LogOfTrail')
  BY DEF LogInv, Log!Increasing
<1>8. [v \in Writers |-> Verdict(v)'] =
        [[v \in Writers |-> Verdict(v)] EXCEPT ![w] = "recorded"]
  BY <1>1, <1>2, VerdictMoves
<1> QED BY <1>1, <1>2, <1>3, <1>5, <1>6, <1>7, <1>8 DEF Log!Record

LEMMA OtherStep ==
    ASSUME IInv, [Next]_vars, ~\E w \in Writers : Replace(w)
    PROVE  (\E w \in Writers : Log!Refuse(w)) \/ UNCHANGED Log!vars
<1>0. TypeOK
  BY DEF IInv
<1>1. files' = files /\ batch' = batch
  BY DEF Next, Step, Crash, PickFile, ReadTail, ReadExisting, Stage, RecheckPasses,
         RecheckFails, ReplaceMissing, WriteOrphanRecords, Midnight, Terminated, vars
<1>2. LogOfTrail' = LogOfTrail
  BY <1>1 DEF LogOfTrail, LastRecordTail
<1>3. ASSUME NEW w \in Writers, Step(w) \/ Crash(w)
      PROVE  (\E v \in Writers : Log!Refuse(v)) \/ UNCHANGED Log!vars
  <2>1. /\ pc[w] \notin Final /\ pc'[w] # "ok"
        /\ \A v \in Writers : v # w => pc'[v] = pc[v]
    BY <1>0, <1>3 DEF Step, Crash, PickFile, ReadTail, ReadExisting, Stage, RecheckPasses,
       RecheckFails, ReplaceMissing, WriteOrphanRecords, Goto, TypeOK, Final, Working
  <2>2. Verdict(w) = "pending" /\ Verdict(w)' \in {"refused", "pending"}
    BY <2>1 DEF Verdict, Final
  <2>3. [v \in Writers |-> Verdict(v)'] =
          [[v \in Writers |-> Verdict(v)] EXCEPT ![w] = Verdict(w)']
    BY <2>1, VerdictMoves
  <2>4. CASE Verdict(w)' = "refused"
    <3>1. Log!Refuse(w)
      BY <1>1, <1>2, <2>2, <2>3, <2>4 DEF Log!Refuse
    <3> QED BY <3>1
  <2>5. CASE Verdict(w)' = "pending"
    <3>1. [v \in Writers |-> Verdict(v)'] = [v \in Writers |-> Verdict(v)]
      BY <2>2, <2>3, <2>5
    <3> QED BY <1>1, <1>2, <3>1 DEF Log!vars
  <2> QED BY <2>2, <2>4, <2>5
<1>4. CASE Midnight \/ Terminated \/ UNCHANGED vars
  <2>1. pc' = pc
    BY <1>4 DEF Midnight, Terminated, vars
  <2>2. [v \in Writers |-> Verdict(v)'] = [v \in Writers |-> Verdict(v)]
    BY <2>1 DEF Verdict
  <2> QED BY <1>1, <1>2, <2>2 DEF Log!vars
<1> QED BY <1>3, <1>4 DEF Next

\* Day files that are replaced whole under an optimistic re-check behave as the log
\* of AuditLog, in which each batch appears at once, whole and after all others.
THEOREM LogImplemented == ASSUME Guarded PROVE Spec => ImplementsAuditLog
<1>1. IInv /\ LogInv /\ LogInv' /\ [Next]_vars => [Log!Next]_(Log!vars)
  <2> SUFFICES ASSUME IInv, LogInv, LogInv', [Next]_vars PROVE Log!Next \/ UNCHANGED Log!vars
    OBVIOUS
  <2>1. CASE \E w \in Writers : Replace(w)
    BY <2>1, RecordStep DEF Log!Next
  <2>2. CASE ~\E w \in Writers : Replace(w)
    BY <2>2, OtherStep DEF Log!Next
  <2> QED BY <2>1, <2>2
<1>2. Spec => Log!Spec
  BY <1>1, LogInit, ReaderInv, PTL DEF Spec, Log!Spec
<1> QED BY <1>2 DEF ImplementsAuditLog
=============================================================================
