--------------------------- MODULE AlertSync_proofs ---------------------------
(***************************************************************************)
(* Proofs about AlertSync for any finite set of alerts, any calendar and   *)
(* any number of faults and changes.  The invariant says what a file holds *)
(* (the alerts of its day, each once), how far an export has come (a day   *)
(* that is still to do, or whole), and from which files the ledger is.     *)
(***************************************************************************)
EXTENDS AlertSync, FiniteSetTheorems, NaturalsInduction, WellFoundedInduction, TLAPS

\* Each alert once.
Once(S) == \A e, f \in S : e.alert = f.alert => e = f

\* What a file, or a part of it, may hold.
OfDay(S, d) == Once(S) /\ \A e \in S : e.alert \in Alerts /\ DayOf[e.alert] = d

\* The file has every SecurityAlert of its day.
Whole(d) == d \in DOMAIN files /\ \A a \in InSentinel : DayOf[a] = d => Tells(files[d], a)

LedgerOK(S) == Once(S) /\ \A e \in S : e.alert \in Alerts
RollupsOK(r) == \A d \in DOMAIN r : r[d].alerts <= Cardinality({a \in Alerts : DayOf[a] = d})

Running == {"fetch", "export", "truncate", "append", "reconcile", "repair", "prune", "synced"}
AfterExport == {"truncate", "append", "reconcile", "repair", "prune"}

StoresInv ==
  /\ place \in Places /\ today \in Nat /\ today >= 2
  /\ pc \in Running \cup {"idle"}
  /\ DOMAIN files \subseteq 1 .. (today - 1)
  /\ \A d \in DOMAIN files : OfDay(files[d], d)
  /\ LedgerOK(ledger) /\ LedgerOK(cache.ledger)
  /\ RollupsOK(rollups) /\ RollupsOK(cache.rollups)
  /\ Once(graph) /\ \A e \in graph : e.alert \in Alerts
  /\ pc \in Running => Primary \cup Reexported \subseteq 1 .. (today - 1)
  /\ pc \in {"export", "repair"} => todo \subseteq 1 .. (today - 1)
  /\ pc = "repair" => todo # {}

\* How far the run has come: what it had to export is in the files, and what
\* it had to rebuild is in the ledger.
ProgressInv ==
  /\ pc = "export" => \A d \in Reexported : d \in todo \/ Whole(d)
  /\ pc \in AfterExport => \A d \in Reexported : Whole(d)
  /\ pc = "export" /\ mode = "date" => target \in todo \/ target \in DOMAIN files
  /\ pc \in AfterExport \cup {"synced"} /\ mode = "date" => target \in DOMAIN files
  /\ repaired => pc \in {"truncate", "append", "repair", "prune"}
  /\ pc \in {"reconcile", "prune"} \/ (pc = "repair" /\ ~repaired) => ledger = UnionOfFiles
  /\ RecentDaysWhole

Old(a) == DayOf[a] < Subtract(today, RetentionDays)

\* What a workstation has reported is in its files, and, when a sync ends, in the ledger.
Safe(a) ==
  \/ DayOf[a] \in torn \/ Old(a)
  \/ DayOf[a] \in DOMAIN files /\ Tells(files[DayOf[a]], a)

ReportedInv ==
  /\ place = "workstation" => \A a \in reported \cap InSentinel : Safe(a)
  /\ KeptUnlessTorn

SyncInv == StoresInv /\ ProgressInv /\ ReportedInv

-----------------------------------------------------------------------------
LEMMA LeastOf ==
    ASSUME NEW T \in SUBSET Nat, T # {}
    PROVE  Min(T) \in T
<1>1. PICK m \in T : \A n \in T : ~(<<n, m>> \in OpToRel(<, Nat))
  <2>1. IsWellFoundedOn(OpToRel(<, Nat), Nat)
    BY NatLessThanWellFounded
  <2> QED BY <2>1, WFMin
<1>2. \A n \in T : ~(n < m)
  BY <1>1 DEF OpToRel
<1>3. \A n \in T : m <= n
  BY <1>2
<1> QED BY <1>3 DEF Min

\* A bounded set has a greatest element: its distance from the bound is least.
LEMMA GreatestOf ==
    ASSUME NEW n \in Nat, NEW T \in SUBSET (1 .. n), T # {}
    PROVE  Max(T) \in T
<1> DEFINE D == {n - t : t \in T}
<1>1. D \in SUBSET Nat /\ D # {}
  <2>1. \A t \in T : n - t \in Nat
    OBVIOUS
  <2> QED BY <2>1
<1>2. PICK m \in D : \A k \in D : ~(<<k, m>> \in OpToRel(<, Nat))
  <2>1. IsWellFoundedOn(OpToRel(<, Nat), Nat)
    BY NatLessThanWellFounded
  <2> HIDE DEF D
  <2> QED BY <1>1, <2>1, WFMin
<1>3. \A k \in D : ~(k < m)
  <2> HIDE DEF D
  <2> QED BY <1>1, <1>2 DEF OpToRel
<1>4. PICK t \in T : m = n - t
  OBVIOUS
<1>5. \A u \in T : t >= u
  <2>1. SUFFICES ASSUME NEW u \in T PROVE t >= u
    OBVIOUS
  <2>2. ~(n - u < n - t)
    BY <1>3, <1>4
  <2> QED BY <2>2
<1> QED BY <1>5 DEF Max

LEMMA NextDayIs ==
    ASSUME today \in Nat, todo \in SUBSET (1 .. (today - 1)), todo # {}
    PROVE  NextDay \in todo
<1>1. Max(todo) \in todo
  <2>1. todo \in SUBSET (1 .. today)
    OBVIOUS
  <2> QED BY <2>1, GreatestOf
<1>2. Min(todo) \in todo
  <2>1. todo \in SUBSET Nat
    OBVIOUS
  <2> QED BY <2>1, LeastOf
<1>3. todo \cap Primary # {} => Min(todo \cap Primary) \in todo
  <2>1. \A d \in todo : d \in Nat
    OBVIOUS
  <2>2. todo \cap Primary \in SUBSET Nat
    BY <2>1
  <2> QED BY <2>2, LeastOf
<1> QED BY <1>1, <1>2, <1>3 DEF NextDay

-----------------------------------------------------------------------------
(* What a day's file is written from. *)

LEMMA EntryIs ==
    ASSUME NEW a, NEW id, NEW v
    PROVE  /\ Entry(a, id, v).alert = a /\ Entry(a, id, v).id = id /\ Entry(a, id, v).verdict = v
BY DEF Entry

LEMMA SidesAreAlerts == InSentinel \subseteq Alerts /\ InGraph \subseteq Alerts
BY DEF InSentinel, InGraph, Alerts

\* The rows of a query: each SecurityAlert of the day once.
LEMMA RowsOfDay ==
    ASSUME NEW d, NEW joined
    PROVE  /\ OfDay(KqlRows(d, joined), d)
           /\ \A a \in InSentinel : DayOf[a] = d => Tells(KqlRows(d, joined), a)
<1> DEFINE v(a) == IF joined THEN verdict[a] ELSE New
<1> DEFINE row(a) == Entry(a, "system", v(a))
<1>1. KqlRows(d, joined) = {row(a) : a \in {x \in InSentinel : DayOf[x] = d}}
  BY DEF KqlRows
<1>2. \A a : row(a).alert = a
  BY EntryIs
<1> HIDE DEF row
<1>3. \A e \in KqlRows(d, joined) : e = row(e.alert) /\ e.alert \in InSentinel /\ DayOf[e.alert] = d
  BY <1>1, <1>2
<1>4. OfDay(KqlRows(d, joined), d)
  BY <1>3, SidesAreAlerts DEF OfDay, Once
<1>5. \A a \in InSentinel : DayOf[a] = d => Tells(KqlRows(d, joined), a)
  BY <1>1, <1>2 DEF Tells
<1> QED BY <1>4, <1>5

\* The merge keeps every alert of either side, and makes one of what is the same.
LEMMA MergeKeeps ==
    ASSUME NEW d, NEW gs, NEW ss, OfDay(gs, d), OfDay(ss, d)
    PROVE  /\ OfDay(MergeAlerts(gs, ss), d)
           /\ \A a : Tells(ss, a) => Tells(MergeAlerts(gs, ss), a)
<1> DEFINE M == MergeAlerts(gs, ss)
<1>1. \A e \in M : \/ \E g \in gs, s \in ss : g.alert = s.alert /\ e = Merged(g, s)
                   \/ e \in gs /\ \A s \in ss : e.alert # s.alert
                   \/ e \in ss /\ \A g \in gs : g.alert # e.alert
  BY DEF MergeAlerts, SameAlert
<1>2. \A g \in gs, s \in ss : g.alert = s.alert => Merged(g, s) \in M
  <2>1. SUFFICES ASSUME NEW g \in gs, NEW s \in ss, g.alert = s.alert PROVE Merged(g, s) \in M
    OBVIOUS
  <2>2. <<g, s>> \in {q \in gs \X ss : SameAlert(q[1], q[2])}
    BY <2>1 DEF SameAlert
  <2> QED BY <2>2 DEF MergeAlerts
<1>3. \A s \in ss : (\A g \in gs : g.alert # s.alert) => s \in M
  BY DEF MergeAlerts, SameAlert
<1>4. \A g, s : Merged(g, s).alert = g.alert
  BY EntryIs DEF Merged
<1> HIDE DEF M
<1>5. Once(M)
  <2>1. SUFFICES ASSUME NEW e \in M, NEW f \in M, e.alert = f.alert PROVE e = f
    BY DEF Once
  <2>2. \A g \in gs, s \in ss : g.alert = s.alert => Merged(g, s).alert = g.alert
    BY <1>4
  <2>3. CASE \E g \in gs, s \in ss : g.alert = s.alert /\ e = Merged(g, s)
    <3>1. PICK g \in gs, s \in ss : g.alert = s.alert /\ e = Merged(g, s)
      BY <2>3
    <3>2. e.alert = g.alert /\ e.alert = s.alert
      BY <1>4, <3>1
    <3>3. PICK g2 \in gs, s2 \in ss : g2.alert = s2.alert /\ f = Merged(g2, s2)
      BY <1>1, <2>1, <3>2
    <3>4. f.alert = g2.alert /\ f.alert = s2.alert
      BY <1>4, <3>3
    <3>5. g = g2 /\ s = s2
      BY <2>1, <3>2, <3>4 DEF OfDay, Once
    <3> QED BY <3>1, <3>3, <3>5
  <2>4. CASE \E g \in gs, s \in ss : g.alert = s.alert /\ f = Merged(g, s)
    <3>1. PICK g \in gs, s \in ss : g.alert = s.alert /\ f = Merged(g, s)
      BY <2>4
    <3>2. f.alert = g.alert /\ f.alert = s.alert
      BY <1>4, <3>1
    <3>3. PICK g2 \in gs, s2 \in ss : g2.alert = s2.alert /\ e = Merged(g2, s2)
      BY <1>1, <2>1, <3>2
    <3>4. e.alert = g2.alert /\ e.alert = s2.alert
      BY <1>4, <3>3
    <3>5. g = g2 /\ s = s2
      BY <2>1, <3>2, <3>4 DEF OfDay, Once
    <3> QED BY <3>1, <3>3, <3>5
  <2>5. CASE (e \in gs /\ f \in gs) \/ (e \in ss /\ f \in ss)
    BY <2>1, <2>5 DEF OfDay, Once
  <2> QED BY <1>1, <2>1, <2>3, <2>4, <2>5
<1>6. \A e \in M : e.alert \in Alerts /\ DayOf[e.alert] = d
  <2>1. SUFFICES ASSUME NEW e \in M PROVE e.alert \in Alerts /\ DayOf[e.alert] = d
    OBVIOUS
  <2>2. \E x \in gs \cup ss : x.alert = e.alert
    BY <1>1, <1>4
  <2> QED BY <2>2 DEF OfDay
<1>7. \A a : Tells(ss, a) => Tells(M, a)
  <2>1. SUFFICES ASSUME NEW s \in ss PROVE \E e \in M : e.alert = s.alert
    BY DEF Tells
  <2>2. CASE \E g \in gs : g.alert = s.alert
    BY <1>2, <1>4, <2>2
  <2>3. CASE \A g \in gs : g.alert # s.alert
    BY <1>3, <2>3
  <2> QED BY <2>2, <2>3
<1> QED BY <1>5, <1>6, <1>7 DEF M, OfDay

\* The overlays change verdicts only.
LEMMA OverlayIs ==
    ASSUME NEW e
    PROVE  OverlayAlert(e).alert = e.alert /\ OverlayEntry(e).alert = e.alert
BY EntryIs DEF OverlayAlert, OverlayEntry

LEMMA OverlayKeeps ==
    ASSUME NEW S, NEW d, OfDay(S, d)
    PROVE  /\ OfDay({OverlayAlert(e) : e \in S}, d) /\ OfDay({OverlayEntry(e) : e \in S}, d)
           /\ \A a : Tells(S, a) => /\ Tells({OverlayAlert(e) : e \in S}, a)
                                    /\ Tells({OverlayEntry(e) : e \in S}, a)
BY OverlayIs DEF OfDay, Once, Tells

LEMMA DayOfAlerts ==
    ASSUME Once(graph), \A e \in graph : e.alert \in Alerts, NEW d, NEW joined
    PROVE  /\ OfDay(DayAlerts(d, joined), d)
           /\ \A a \in InSentinel : DayOf[a] = d => Tells(DayAlerts(d, joined), a)
<1> DEFINE gs == {g \in graph : DayOf[g.alert] = d}
<1> DEFINE ss == KqlRows(d, joined)
<1> DEFINE M == MergeAlerts(gs, ss)
<1>1. OfDay(gs, d)
  BY DEF OfDay, Once
<1>2. OfDay(ss, d) /\ \A a \in InSentinel : DayOf[a] = d => Tells(ss, a)
  BY RowsOfDay
<1>3. DayAlerts(d, joined) = {OverlayAlert(e) : e \in M}
  BY DEF DayAlerts
<1> HIDE DEF gs, ss
<1>4. OfDay(M, d) /\ \A a : Tells(ss, a) => Tells(M, a)
  BY <1>1, <1>2, MergeKeeps
<1> HIDE DEF M
<1>5. OfDay({OverlayAlert(e) : e \in M}, d) /\ \A a : Tells(M, a) => Tells({OverlayAlert(e) : e \in M}, a)
  BY <1>4, OverlayKeeps
<1> QED BY <1>2, <1>3, <1>4, <1>5

-----------------------------------------------------------------------------
(* The files, the ledger and the rollups. *)

\* Files of different days share no alert, so that the ledger is simply their union.
LEMMA UnionIs ==
    ASSUME DOMAIN files \subseteq Nat, \A d \in DOMAIN files : OfDay(files[d], d)
    PROVE  /\ LedgerOK(UnionOfFiles)
           /\ \A d \in DOMAIN files : \A a : Tells(files[d], a) => Tells(UnionOfFiles, a)
           /\ \A e \in UnionOfFiles : DayOf[e.alert] \in DOMAIN files /\ e \in files[DayOf[e.alert]]
<1>1. \A e \in UnionOfFiles : \E d \in DOMAIN files : e \in files[d]
  BY DEF UnionOfFiles
<1>2. \A d \in DOMAIN files : \A e \in files[d] : e.alert \in Alerts /\ DayOf[e.alert] = d
  BY DEF OfDay
<1>3. \A e \in UnionOfFiles : DayOf[e.alert] \in DOMAIN files /\ e \in files[DayOf[e.alert]]
  BY <1>1, <1>2
<1>4. LedgerOK(UnionOfFiles)
  BY <1>2, <1>3 DEF LedgerOK, Once, OfDay
<1>5. \A d \in DOMAIN files : \A e \in files[d] : e \in UnionOfFiles
  <2>1. SUFFICES ASSUME NEW d \in DOMAIN files, NEW e \in files[d] PROVE e \in UnionOfFiles
    OBVIOUS
  <2>2. e \in UNION {files[x] : x \in DOMAIN files}
    BY <2>1
  <2>3. \A later \in DOMAIN files : later > d =>
          \A x \in files[later] : <<x.alert, x.id>> # <<e.alert, e.id>>
    <3>1. SUFFICES ASSUME NEW later \in DOMAIN files, later > d, NEW x \in files[later], x.alert = e.alert
                   PROVE  FALSE
      OBVIOUS
    <3>2. later = d
      BY <1>2, <2>1, <3>1
    <3>3. d \in Nat
      OBVIOUS
    <3> QED BY <3>1, <3>2, <3>3
  <2> QED BY <2>2, <2>3 DEF UnionOfFiles
<1>6. \A d \in DOMAIN files : \A a : Tells(files[d], a) => Tells(UnionOfFiles, a)
  BY <1>5 DEF Tells
<1> QED BY <1>3, <1>4, <1>6

\* An alert that is in the ledger once is counted once.
LEMMA CountsBound ==
    ASSUME NEW S, LedgerOK(S), NEW d
    PROVE  Counts({e \in S : DayOf[e.alert] = d}).alerts <= Cardinality({a \in Alerts : DayOf[a] = d})
<1> DEFINE T == {e \in S : DayOf[e.alert] = d}
<1> DEFINE P == {<<e.alert, e.id>> : e \in T}
<1> DEFINE A == {e.alert : e \in T}
<1> DEFINE B == {a \in Alerts : DayOf[a] = d}
<1> DEFINE g == [a \in A |-> <<a, (CHOOSE e \in T : e.alert = a).id>>]
<1>1. IsFiniteSet(B) /\ A \in SUBSET B
  <2>1. IsFiniteSet(Alerts)
    BY ConfigAssumption
  <2>2. IsFiniteSet(B)
    BY <2>1, FS_Subset
  <2>3. A \in SUBSET B
    BY DEF LedgerOK
  <2> QED BY <2>2, <2>3
<1>2. \A e \in T : (CHOOSE f \in T : f.alert = e.alert) = e
  BY DEF LedgerOK, Once
<1>3. \A e \in T : e.alert \in A /\ <<e.alert, e.id>> \in P /\ g[e.alert] = <<e.alert, e.id>>
  BY <1>2
<1>4. g \in Surjection(A, P)
  <2>1. \A a \in A : \E e \in T : e.alert = a
    OBVIOUS
  <2>2. \A p \in P : \E e \in T : p = <<e.alert, e.id>>
    OBVIOUS
  <2>3. \A a \in A : g[a] \in P
    <3> HIDE DEF A, P, g, T
    <3> QED BY <1>3, <2>1
  <2>4. g \in [A -> P]
    <3>1. \A a \in A : <<a, (CHOOSE e \in T : e.alert = a).id>> \in P
      BY <2>3
    <3> HIDE DEF A, P, T
    <3> QED BY <3>1
  <2>5. \A p \in P : \E a \in A : g[a] = p
    <3> HIDE DEF A, P, g, T
    <3> QED BY <1>3, <2>2
  <2> HIDE DEF A, P, g
  <2> QED BY <2>4, <2>5 DEF Surjection
<1> HIDE DEF A, B, P, g
<1>5. IsFiniteSet(A) /\ Cardinality(A) <= Cardinality(B)
  BY <1>1, FS_Subset
<1>6. IsFiniteSet(P) /\ Cardinality(P) <= Cardinality(A)
  BY <1>4, <1>5, FS_Surjection
<1>7. Cardinality(A) \in Nat /\ Cardinality(B) \in Nat /\ Cardinality(P) \in Nat
  BY <1>1, <1>5, <1>6, FS_CardinalityType
<1>8. Cardinality(P) <= Cardinality(B)
  BY <1>5, <1>6, <1>7
<1> HIDE DEF T
<1>9. Counts(T).alerts = Cardinality(P)
  BY DEF Counts, P
<1> QED BY <1>8, <1>9 DEF T, B

LEMMA RollupsCount ==
    ASSUME LedgerOK(ledger), RollupsOK(rollups)
    PROVE  RollupsOK(BuildRollups)
<1>1. CASE ledger = {}
  BY <1>1 DEF BuildRollups
<1>2. CASE ledger # {}
  <2>1. BuildRollups = [d \in {DayOf[e.alert] : e \in ledger} |-> Counts({e \in ledger : DayOf[e.alert] = d})]
    BY <1>2 DEF BuildRollups
  <2>2. \A d \in DOMAIN BuildRollups : BuildRollups[d] = Counts({e \in ledger : DayOf[e.alert] = d})
    BY <2>1
  <2> QED BY <2>2, CountsBound DEF RollupsOK
<1> QED BY <1>1, <1>2

\* A new file of a day.
LEMMA WriteFacts ==
    ASSUME DOMAIN files \subseteq 1 .. (today - 1), \A x \in DOMAIN files : OfDay(files[x], x),
           UNCHANGED today, NEW d \in 1 .. (today - 1), NEW S, OfDay(S, d), files' = With(d, S)
    PROVE  /\ DOMAIN files' = DOMAIN files \cup {d} /\ DOMAIN files' \subseteq 1 .. (today' - 1)
           /\ files'[d] = S /\ \A x \in DOMAIN files : x # d => files'[x] = files[x]
           /\ \A x \in DOMAIN files' : OfDay(files'[x], x)
<1>1. /\ DOMAIN files' = DOMAIN files \cup {d}
      /\ files'[d] = S /\ \A x \in DOMAIN files : x # d => files'[x] = files[x]
  BY DEF With
<1> QED BY <1>1

\* A whole file makes its day whole, and leaves the others as they are.
LEMMA WholeFileKeeps ==
    ASSUME NEW d, NEW S, \A a \in InSentinel : DayOf[a] = d => Tells(S, a),
           DOMAIN files' = DOMAIN files \cup {d}, files'[d] = S,
           \A x \in DOMAIN files : x # d => files'[x] = files[x],
           torn' = torn \ {d}, UNCHANGED today
    PROVE  /\ Whole(d)' /\ \A x : Whole(x) => Whole(x)'
           /\ \A a \in InSentinel : Safe(a) => Safe(a)'
<1>1. Whole(d)' /\ \A x : Whole(x) => Whole(x)'
  BY DEF Whole
<1>2. \A a : Old(a)' <=> Old(a)
  BY DEF Old
<1>3. \A a \in InSentinel : Safe(a) => Safe(a)'
  BY <1>2 DEF Safe
<1> QED BY <1>1, <1>3

\* A file that was cut short is remembered as torn.
LEMMA CutFileKeeps ==
    ASSUME NEW d, DOMAIN files' = DOMAIN files \cup {d},
           \A x \in DOMAIN files : x # d => files'[x] = files[x],
           torn' = torn \cup {d}, UNCHANGED today
    PROVE  \A a \in InSentinel : Safe(a) => Safe(a)'
<1>1. \A a : Old(a)' <=> Old(a)
  BY DEF Old
<1> QED BY <1>1 DEF Safe

LEMMA PartOfDay ==
    ASSUME NEW S, NEW d, OfDay(S, d), NEW rest \in SUBSET S
    PROVE  OfDay(rest, d)
BY DEF OfDay, Once

\* The days of a request that stays.
LEMMA SameRequest ==
    ASSUME UNCHANGED <<today, mode, target>>
    PROVE  Primary' = Primary /\ Reexported' = Reexported
BY DEF Primary, Reexported

-----------------------------------------------------------------------------
(* The invariant, step by step. *)

LEMMA SyncInit == Init => SyncInv
<1>1. SUFFICES ASSUME Init PROVE SyncInv
  OBVIOUS
<1>2. DOMAIN Nothing = {}
  BY DEF Nothing
<1>3. StoresInv
  BY <1>1, <1>2 DEF Init, StoresInv, Running, LedgerOK, RollupsOK, Once
<1>4. ProgressInv
  BY <1>1 DEF Init, ProgressInv, AfterExport, RecentDaysWhole
<1>5. ReportedInv
  BY <1>1 DEF Init, ReportedInv, KeptUnlessTorn
<1> QED BY <1>3, <1>4, <1>5 DEF SyncInv

\* Between runs nothing is promised but what the stores hold.
LEMMA TomorrowKeeps == SyncInv /\ Tomorrow => SyncInv'
<1>1. SUFFICES ASSUME SyncInv, Tomorrow PROVE SyncInv'
  OBVIOUS
<1>2. /\ pc = "idle" /\ today' = today + 1 /\ today \in Nat
      /\ UNCHANGED <<place, verdict, touched, triages, files, ledger, rollups, cache, pc>>
      /\ UNCHANGED <<mode, target, force, todo, arm, graph, repaired, reported, torn, faults>>
  BY <1>1 DEF SyncInv, StoresInv, Tomorrow, config, live, disk, request, fetched, history
<1>3. StoresInv'
  <2>1. 1 .. (today - 1) \subseteq 1 .. (today' - 1) /\ today' \in Nat /\ today' >= 2
    BY <1>1, <1>2 DEF SyncInv, StoresInv
  <2> QED BY <1>1, <1>2, <2>1 DEF SyncInv, StoresInv, Running
<1>4. ProgressInv'
  BY <1>1, <1>2 DEF SyncInv, ProgressInv, AfterExport, RecentDaysWhole
<1>5. ReportedInv'
  <2>1. \A a \in InSentinel : Old(a) => Old(a)'
    <3>1. \A a \in InSentinel : DayOf[a] \in Nat
      BY ConfigAssumption, SidesAreAlerts DEF Days
    <3>2. RetentionDays \in Nat
      BY ConfigAssumption
    <3> QED BY <1>2, <3>1, <3>2 DEF Old, Subtract
  <2> QED BY <1>1, <1>2, <2>1 DEF SyncInv, ReportedInv, Safe, KeptUnlessTorn
<1> QED BY <1>3, <1>4, <1>5 DEF SyncInv

\* What an incident says is nothing that the stores promise to say.
LEMMA SameStores ==
    ASSUME SyncInv,
           UNCHANGED <<place, today, files, ledger, rollups, cache, pc, mode, target, todo, graph, repaired, reported, torn>>
    PROVE  SyncInv'
<1>1. Primary' = Primary /\ Reexported' = Reexported
  BY SameRequest
<1>2. UnionOfFiles' = UnionOfFiles
  BY DEF UnionOfFiles
<1>3. StoresInv'
  BY <1>1 DEF SyncInv, StoresInv
<1>4. \A d : Whole(d)' <=> Whole(d)
  BY DEF Whole
<1>5. RecentDaysWhole' <=> RecentDaysWhole
  BY <1>1 DEF RecentDaysWhole
<1>6. ProgressInv'
  BY <1>1, <1>2, <1>4, <1>5 DEF SyncInv, ProgressInv
<1>7. ReportedInv'
  BY DEF SyncInv, ReportedInv, Safe, Old, KeptUnlessTorn
<1> QED BY <1>3, <1>6, <1>7 DEF SyncInv

LEMMA TriageKeeps ==
    ASSUME SyncInv, NEW a \in InSentinel, NEW v \in Verdict, Triage(a, v)
    PROVE  SyncInv'
BY SameStores DEF Triage, config, disk, request, fetched, history

\* A run that ends before it has exported anything, or that dies.
LEMMA IdleKeeps ==
    ASSUME SyncInv, UNCHANGED <<place, today, rollups, cache, graph, reported>>, pc' = "idle", ~repaired',
           DOMAIN files' \subseteq 1 .. (today - 1), \A d \in DOMAIN files' : OfDay(files'[d], d),
           LedgerOK(ledger'), \A a \in InSentinel : Safe(a) => Safe(a)'
    PROVE  SyncInv'
<1>1. StoresInv'
  BY DEF SyncInv, StoresInv, Running
<1>2. ProgressInv'
  BY DEF ProgressInv, AfterExport, RecentDaysWhole
<1>3. ReportedInv'
  BY DEF SyncInv, ReportedInv, KeptUnlessTorn
<1> QED BY <1>1, <1>2, <1>3 DEF SyncInv

LEMMA SyncKeeps ==
    ASSUME SyncInv, NEW m \in {"yesterday", "backfill", "date"}, NEW t \in Days, NEW f \in BOOLEAN, Sync(m, t, f)
    PROVE  SyncInv'
<1>1. /\ pc = "idle" /\ pc' = "fetch" /\ mode' = m /\ target' = t
      /\ IF m = "date" THEN t < today ELSE t = 1
      /\ UNCHANGED <<place, today, cache, todo, graph, repaired, reported>>
  BY DEF Sync, config, fetched
<1>2. /\ DOMAIN files' \subseteq 1 .. (today - 1) /\ \A d \in DOMAIN files' : OfDay(files'[d], d)
      /\ LedgerOK(ledger') /\ RollupsOK(rollups')
  <2>1. CASE place = "runner"
    <3>1. files' = Nothing /\ ledger' = cache.ledger /\ rollups' = cache.rollups
      BY <2>1 DEF Sync
    <3>2. DOMAIN files' = {}
      BY <3>1 DEF Nothing
    <3> QED BY <3>1, <3>2 DEF SyncInv, StoresInv
  <2>2. CASE place # "runner"
    <3>1. UNCHANGED <<files, ledger, rollups>>
      BY <2>2 DEF Sync
    <3> QED BY <3>1 DEF SyncInv, StoresInv
  <2> QED BY <2>1, <2>2
<1>3. (Primary \cup Reexported)' \subseteq 1 .. (today - 1)
  <2>1. today \in Nat /\ today >= 2 /\ t \in Nat /\ t >= 1
    BY DEF SyncInv, StoresInv, Days
  <2>2. \A n : (Subtract(today, n) .. (today - 1)) \cap Days \subseteq 1 .. (today - 1)
    <3>1. Days \subseteq Nat \ {0}
      BY ConfigAssumption DEF Days
    <3>2. SUFFICES ASSUME NEW n, NEW x \in (Subtract(today, n) .. (today - 1)), x \in Nat \ {0}
                   PROVE  x \in 1 .. (today - 1)
      BY <3>1
    <3>3. x <= today - 1
      OBVIOUS
    <3> QED BY <2>1, <3>2, <3>3
  <2>3. Primary' \subseteq 1 .. (today - 1)
    <3>1. CASE m = "yesterday"
      BY <1>1, <2>1, <3>1 DEF Primary
    <3>2. CASE m = "backfill"
      <4>1. Primary' = (Subtract(today, BackfillDays) .. (today - 1)) \cap Days
        BY <1>1, <3>2 DEF Primary
      <4> QED BY <2>2, <4>1
    <3>3. CASE m = "date"
      <4>1. Primary' = {t}
        BY <1>1, <3>3 DEF Primary
      <4> QED BY <1>1, <2>1, <3>3, <4>1
    <3> QED BY <3>1, <3>2, <3>3
  <2>4. Reexported' \subseteq 1 .. (today - 1)
    <3>1. Reexported' \subseteq (Subtract(today, ReexportDays) .. (today - 1)) \cap Days
      BY <1>1 DEF Reexported
    <3> QED BY <2>2, <3>1
  <2> QED BY <2>3, <2>4
<1>4. StoresInv'
  BY <1>1, <1>2, <1>3 DEF SyncInv, StoresInv, Running
<1>5. ProgressInv'
  BY <1>1 DEF SyncInv, ProgressInv, AfterExport, RecentDaysWhole
<1>6. ReportedInv'
  <2>1. place = "workstation" => UNCHANGED <<files, torn>>
    BY DEF Sync
  <2> QED BY <1>1, <2>1 DEF SyncInv, ReportedInv, Safe, Old, KeptUnlessTorn
<1> QED BY <1>4, <1>5, <1>6 DEF SyncInv

LEMMA NoSourceKeeps == SyncInv /\ NoSource => SyncInv'
<1>1. SUFFICES ASSUME SyncInv, NoSource PROVE SyncInv'
  OBVIOUS
<1>2. /\ pc = "fetch" /\ pc' = "idle"
      /\ UNCHANGED <<place, today, files, ledger, rollups, cache, graph, repaired, reported, torn>>
  BY <1>1 DEF NoSource, config, disk, fetched, history
<1>3. ~repaired'
  BY <1>1, <1>2 DEF SyncInv, ProgressInv
<1>4. \A a \in InSentinel : Safe(a) => Safe(a)'
  BY <1>2 DEF Safe, Old
<1>5. /\ DOMAIN files' \subseteq 1 .. (today - 1) /\ \A d \in DOMAIN files' : OfDay(files'[d], d)
      /\ LedgerOK(ledger')
  BY <1>1, <1>2 DEF SyncInv, StoresInv
<1> QED BY <1>1, <1>2, <1>3, <1>4, <1>5, IdleKeeps

LEMMA FetchKeeps == SyncInv /\ Fetch => SyncInv'
<1>1. SUFFICES ASSUME SyncInv, Fetch PROVE SyncInv'
  OBVIOUS
<1>2. /\ pc = "fetch" /\ pc' = "export" /\ todo' = Primary \cup Reexported
      /\ graph' \in {{}, {Entry(a, "graph", verdict[a]) : a \in GraphWindow}}
      /\ UNCHANGED <<place, today, files, ledger, rollups, cache, mode, target, repaired, reported, torn>>
  BY <1>1 DEF Fetch, config, disk, request, history
<1>3. Primary' = Primary /\ Reexported' = Reexported
  BY <1>2, SameRequest
<1>4. Once(graph') /\ \A e \in graph' : e.alert \in Alerts
  <2> DEFINE G == {Entry(a, "graph", verdict[a]) : a \in GraphWindow}
  <2>1. \A e \in G : e.alert \in GraphWindow /\ e = Entry(e.alert, "graph", verdict[e.alert])
    BY EntryIs
  <2>2. GraphWindow \subseteq Alerts
    BY SidesAreAlerts DEF GraphWindow
  <2>3. Once(G) /\ \A e \in G : e.alert \in Alerts
    <3> HIDE DEF G
    <3> QED BY <2>1, <2>2 DEF Once
  <2> HIDE DEF G
  <2>4. Once({})
    BY DEF Once
  <2> QED BY <1>2, <2>3, <2>4 DEF G
<1>5. StoresInv'
  BY <1>1, <1>2, <1>3, <1>4 DEF SyncInv, StoresInv, Running
<1>6. ProgressInv'
  <2>1. mode = "date" => target \in Primary
    BY DEF Primary
  <2> QED BY <1>1, <1>2, <1>3, <2>1 DEF SyncInv, ProgressInv, AfterExport, RecentDaysWhole
<1>7. ReportedInv'
  BY <1>1, <1>2 DEF SyncInv, ReportedInv, Safe, Old, KeptUnlessTorn
<1> QED BY <1>5, <1>6, <1>7 DEF SyncInv

\* A run that dies in the middle of a file.
LEMMA CutKeeps ==
    ASSUME SyncInv, UNCHANGED <<place, today, ledger, rollups, cache, graph, reported>>, pc' = "idle", ~repaired',
           NEW d \in 1 .. (today - 1), NEW S, OfDay(S, d), CutDay(d, S)
    PROVE  SyncInv'
<1>1. PICK rest \in SUBSET S : files' = With(d, rest) /\ torn' = torn \cup {d}
  BY DEF CutDay
<1>2. /\ DOMAIN files \subseteq 1 .. (today - 1) /\ LedgerOK(ledger)
      /\ \A x \in DOMAIN files : OfDay(files[x], x)
  BY DEF SyncInv, StoresInv
<1>3. OfDay(rest, d)
  BY PartOfDay
<1>4. /\ DOMAIN files' = DOMAIN files \cup {d} /\ DOMAIN files' \subseteq 1 .. (today' - 1)
      /\ \A x \in DOMAIN files : x # d => files'[x] = files[x]
      /\ \A x \in DOMAIN files' : OfDay(files'[x], x)
  BY <1>1, <1>2, <1>3, WriteFacts
<1>5. \A a \in InSentinel : Safe(a) => Safe(a)'
  BY <1>1, <1>4, CutFileKeeps
<1>6. DOMAIN files' \subseteq 1 .. (today - 1)
  BY <1>4
<1> QED BY <1>2, <1>4, <1>5, <1>6, IdleKeeps

\* The overlay leaves every file its alerts.
LEMMA OverlaidIs ==
    ASSUME \A d \in DOMAIN files : OfDay(files[d], d)
    PROVE  /\ DOMAIN Overlaid = DOMAIN files
           /\ \A d \in DOMAIN files : OfDay(Overlaid[d], d) /\ \A a : Tells(files[d], a) => Tells(Overlaid[d], a)
<1>1. DOMAIN Overlaid = DOMAIN files /\ \A d \in DOMAIN files : Overlaid[d] = {OverlayEntry(e) : e \in files[d]}
  BY DEF Overlaid
<1>2. SUFFICES ASSUME NEW d \in DOMAIN files
               PROVE  OfDay(Overlaid[d], d) /\ \A a : Tells(files[d], a) => Tells(Overlaid[d], a)
  BY <1>1
<1> DEFINE F == files[d]
<1>3. OfDay(F, d) /\ Overlaid[d] = {OverlayEntry(e) : e \in F}
  BY <1>1, <1>2
<1> HIDE DEF F
<1>4. OfDay({OverlayEntry(e) : e \in F}, d) /\ \A a : Tells(F, a) => Tells({OverlayEntry(e) : e \in F}, a)
  BY <1>3, OverlayKeeps
<1> QED BY <1>3, <1>4 DEF F

LEMMA ExportDayKeeps == SyncInv /\ ExportDay => SyncInv'
<1>1. SUFFICES ASSUME SyncInv, ExportDay PROVE SyncInv'
  OBVIOUS
<1>0. PICK d : d = NextDay
  OBVIOUS
<1>2. /\ pc = "export" /\ todo # {} /\ todo' = todo \ {d}
      /\ UNCHANGED <<place, today, ledger, rollups, cache, pc, mode, target, graph, repaired, reported>>
  BY <1>0, <1>1 DEF ExportDay, config, request, fetched
<1>3. /\ today \in Nat /\ todo \in SUBSET (1 .. (today - 1)) /\ d \in todo /\ d \in 1 .. (today - 1)
      /\ DOMAIN files \subseteq 1 .. (today - 1) /\ \A x \in DOMAIN files : OfDay(files[x], x)
      /\ Once(graph) /\ \A e \in graph : e.alert \in Alerts
  <2>1. /\ today \in Nat /\ todo \in SUBSET (1 .. (today - 1))
        /\ DOMAIN files \subseteq 1 .. (today - 1) /\ \A x \in DOMAIN files : OfDay(files[x], x)
        /\ Once(graph) /\ \A e \in graph : e.alert \in Alerts
    BY <1>1, <1>2 DEF SyncInv, StoresInv
  <2>2. d \in todo
    BY <1>0, <1>2, <2>1, NextDayIs
  <2> QED BY <2>1, <2>2
\* What the day's export leaves, whether it writes the file or not.
<1>4. /\ DOMAIN files' \subseteq 1 .. (today' - 1) /\ \A x \in DOMAIN files' : OfDay(files'[x], x)
      /\ d \in DOMAIN files' /\ DOMAIN files \subseteq DOMAIN files'
      /\ \A x : Whole(x) => Whole(x)'
      /\ d \in Reexported => Whole(d)'
      /\ \A a \in InSentinel : Safe(a) => Safe(a)'
  <2>1. CASE Exported(d)
    <3>1. PICK j \in BOOLEAN : WriteDay(d, DayAlerts(d, j))
      BY <1>0, <1>1, <2>1 DEF ExportDay
    <3> DEFINE S == DayAlerts(d, j)
    <3>2. OfDay(S, d) /\ \A a \in InSentinel : DayOf[a] = d => Tells(S, a)
      BY <1>3, DayOfAlerts
    <3>3. files' = With(d, S) /\ torn' = torn \ {d}
      BY <3>1 DEF WriteDay
    <3> HIDE DEF S
    <3>4. /\ DOMAIN files' = DOMAIN files \cup {d} /\ DOMAIN files' \subseteq 1 .. (today' - 1)
          /\ files'[d] = S /\ \A x \in DOMAIN files : x # d => files'[x] = files[x]
          /\ \A x \in DOMAIN files' : OfDay(files'[x], x)
      BY <1>2, <1>3, <3>2, <3>3, WriteFacts
    <3>5. today' = today /\ \A a \in InSentinel : DayOf[a] = d => Tells(S, a)
      BY <1>2, <3>2
    <3>6. /\ Whole(d)' /\ \A x : Whole(x) => Whole(x)'
          /\ \A a \in InSentinel : Safe(a) => Safe(a)'
      BY <3>3, <3>4, <3>5, WholeFileKeeps
    <3> QED BY <3>4, <3>6
  <2>2. CASE ~Exported(d)
    <3>1. UNCHANGED <<files, torn, today>> /\ d \in DOMAIN files /\ d \notin Reexported
      BY <1>0, <1>1, <1>2, <2>2 DEF ExportDay, Exported, Forced
    <3> QED BY <1>3, <3>1 DEF Whole, Safe, Old
  <2> QED BY <2>1, <2>2
<1>5. Primary' = Primary /\ Reexported' = Reexported
  BY <1>2, SameRequest
<1>6. StoresInv'
  BY <1>1, <1>2, <1>3, <1>4, <1>5 DEF SyncInv, StoresInv, Running
<1>7. ProgressInv'
  <2>1. \A x \in Reexported : x \in todo' \/ Whole(x)'
    BY <1>1, <1>2, <1>4 DEF SyncInv, ProgressInv
  <2>2. mode = "date" => target \in todo' \/ target \in DOMAIN files'
    BY <1>1, <1>2, <1>4 DEF SyncInv, ProgressInv
  <2>3. ~repaired'
    BY <1>1, <1>2 DEF SyncInv, ProgressInv
  <2> QED BY <1>2, <1>5, <2>1, <2>2, <2>3 DEF ProgressInv, AfterExport, RecentDaysWhole
<1>8. ReportedInv'
  BY <1>1, <1>2, <1>4, SidesAreAlerts DEF SyncInv, ReportedInv, KeptUnlessTorn
<1> QED BY <1>6, <1>7, <1>8 DEF SyncInv

LEMMA ExportDiesKeeps == SyncInv /\ ExportDies => SyncInv'
<1> DEFINE d == NextDay
<1>1. SUFFICES ASSUME SyncInv, ExportDies PROVE SyncInv'
  OBVIOUS
<1>2. /\ pc = "export" /\ todo # {} /\ pc' = "idle"
      /\ UNCHANGED <<place, today, ledger, rollups, cache, graph, repaired, reported>>
      /\ UNCHANGED <<files, torn>> \/ CutDay(d, DayAlerts(d, TRUE))
  BY <1>1 DEF ExportDies, config, fetched
<1>3. /\ today \in Nat /\ todo \in SUBSET (1 .. (today - 1)) /\ LedgerOK(ledger)
      /\ DOMAIN files \subseteq 1 .. (today - 1) /\ \A x \in DOMAIN files : OfDay(files[x], x)
      /\ Once(graph) /\ \A e \in graph : e.alert \in Alerts
  BY <1>1, <1>2 DEF SyncInv, StoresInv
<1>4. ~repaired'
  BY <1>1, <1>2 DEF SyncInv, ProgressInv
<1>5. d \in 1 .. (today - 1)
  BY <1>2, <1>3, NextDayIs
<1> HIDE DEF d
<1>6. CASE UNCHANGED <<files, torn>>
  <2>1. \A a \in InSentinel : Safe(a) => Safe(a)'
    BY <1>2, <1>6 DEF Safe, Old
  <2> QED BY <1>1, <1>2, <1>3, <1>4, <1>6, <2>1, IdleKeeps
<1>7. CASE CutDay(d, DayAlerts(d, TRUE))
  <2>1. OfDay(DayAlerts(d, TRUE), d)
    BY <1>3, DayOfAlerts
  <2> QED BY <1>1, <1>2, <1>3, <1>4, <1>5, <1>7, <2>1, CutKeeps
<1> QED BY <1>2, <1>6, <1>7

LEMMA OverlayFilesKeeps == SyncInv /\ OverlayFiles => SyncInv'
<1>1. SUFFICES ASSUME SyncInv, OverlayFiles PROVE SyncInv'
  OBVIOUS
<1>2. /\ pc = "export" /\ todo = {} /\ pc' = "truncate" /\ files' = Overlaid
      /\ UNCHANGED <<place, today, ledger, rollups, cache, mode, target, todo, graph, repaired, reported, torn>>
  BY <1>1 DEF OverlayFiles, config, request, fetched, history
<1>3. /\ DOMAIN files' = DOMAIN files
      /\ \A x \in DOMAIN files : OfDay(files'[x], x) /\ \A a : Tells(files[x], a) => Tells(files'[x], a)
  BY <1>1, <1>2, OverlaidIs DEF SyncInv, StoresInv
<1>4. \A x : Whole(x) => Whole(x)'
  BY <1>3 DEF Whole
<1>5. \A a : Safe(a) => Safe(a)'
  BY <1>2, <1>3 DEF Safe, Old
<1>6. Primary' = Primary /\ Reexported' = Reexported
  BY <1>2, SameRequest
<1>7. StoresInv'
  BY <1>1, <1>2, <1>3, <1>6 DEF SyncInv, StoresInv, Running
<1>8. ProgressInv'
  BY <1>1, <1>2, <1>3, <1>4, <1>6 DEF SyncInv, ProgressInv, AfterExport, RecentDaysWhole
<1>9. ReportedInv'
  BY <1>1, <1>2, <1>5 DEF SyncInv, ReportedInv, KeptUnlessTorn
<1> QED BY <1>7, <1>8, <1>9 DEF SyncInv

LEMMA OverlayDiesKeeps == SyncInv /\ OverlayDies => SyncInv'
<1>1. SUFFICES ASSUME SyncInv, OverlayDies PROVE SyncInv'
  OBVIOUS
<1>2. /\ pc = "export" /\ pc' = "idle"
      /\ UNCHANGED <<place, today, ledger, rollups, cache, graph, repaired, reported>>
  BY <1>1 DEF OverlayDies, config, fetched
<1>3. PICK d \in DOMAIN files : \E rest \in SUBSET Overlaid[d] :
        /\ files' = [x \in DOMAIN files |-> IF x < d THEN Overlaid[x] ELSE IF x = d THEN rest ELSE files[x]]
        /\ torn' = torn \cup {d}
  BY <1>1 DEF OverlayDies
<1>4. PICK rest \in SUBSET Overlaid[d] :
        /\ files' = [x \in DOMAIN files |-> IF x < d THEN Overlaid[x] ELSE IF x = d THEN rest ELSE files[x]]
        /\ torn' = torn \cup {d}
  BY <1>3
<1>5. /\ DOMAIN Overlaid = DOMAIN files /\ DOMAIN files \subseteq 1 .. (today - 1)
      /\ \A x \in DOMAIN files : OfDay(files[x], x)
      /\ \A x \in DOMAIN files : OfDay(Overlaid[x], x) /\ \A a : Tells(files[x], a) => Tells(Overlaid[x], a)
  BY <1>1, OverlaidIs DEF SyncInv, StoresInv
<1>6. OfDay(rest, d)
  BY <1>4, <1>5, PartOfDay
<1>7. /\ DOMAIN files' = DOMAIN files
      /\ \A x \in DOMAIN files : files'[x] \in {Overlaid[x], files[x]} \/ (x = d /\ files'[x] = rest)
  BY <1>4
<1>8. \A x \in DOMAIN files' : OfDay(files'[x], x)
  BY <1>5, <1>6, <1>7
<1>9. \A a \in InSentinel : Safe(a) => Safe(a)'
  BY <1>2, <1>4, <1>5, <1>7 DEF Safe, Old
<1>10. ~repaired' /\ LedgerOK(ledger')
  BY <1>1, <1>2 DEF SyncInv, StoresInv, ProgressInv
<1> QED BY <1>1, <1>2, <1>5, <1>7, <1>8, <1>9, <1>10, IdleKeeps

LEMMA TruncateKeeps == SyncInv /\ TruncateLedger => SyncInv'
<1>1. SUFFICES ASSUME SyncInv, TruncateLedger PROVE SyncInv'
  OBVIOUS
<1>2. /\ pc = "truncate" /\ pc' = "append" /\ ledger' = {}
      /\ UNCHANGED <<place, today, files, rollups, cache, mode, target, todo, graph, repaired, reported, torn>>
  BY <1>1 DEF TruncateLedger, config, request, fetched, history
<1>3. Primary' = Primary /\ Reexported' = Reexported /\ \A d : Whole(d)' <=> Whole(d)
  BY <1>2, SameRequest DEF Whole
<1>4. StoresInv'
  BY <1>1, <1>2, <1>3 DEF SyncInv, StoresInv, Running, LedgerOK, Once
<1>5. ProgressInv'
  BY <1>1, <1>2, <1>3 DEF SyncInv, ProgressInv, AfterExport, RecentDaysWhole
<1>6. ReportedInv'
  BY <1>1, <1>2 DEF SyncInv, ReportedInv, Safe, Old, KeptUnlessTorn
<1> QED BY <1>4, <1>5, <1>6 DEF SyncInv

LEMMA LedgerFromFiles ==
    ASSUME StoresInv
    PROVE  /\ LedgerOK(UnionOfFiles)
           /\ \A d \in DOMAIN files : \A a : Tells(files[d], a) => Tells(UnionOfFiles, a)
           /\ \A e \in UnionOfFiles : /\ DayOf[e.alert] \in DOMAIN files /\ e \in files[DayOf[e.alert]]
                                      /\ DayOf[e.alert] \in 1 .. (today - 1)
<1>1. DOMAIN files \subseteq 1 .. (today - 1) /\ \A d \in DOMAIN files : OfDay(files[d], d)
  BY DEF StoresInv
<1>2. DOMAIN files \subseteq Nat
  BY <1>1
<1> QED BY <1>1, <1>2, UnionIs

LEMMA AppendKeeps == SyncInv /\ AppendLedger => SyncInv'
<1>1. SUFFICES ASSUME SyncInv, AppendLedger PROVE SyncInv'
  OBVIOUS
<1>2. /\ pc = "append" /\ ledger' = UnionOfFiles /\ pc' = IF repaired THEN "prune" ELSE "reconcile"
      /\ UNCHANGED <<place, today, files, rollups, cache, mode, target, todo, graph, repaired, reported, torn>>
  BY <1>1 DEF AppendLedger, config, request, fetched, history
<1>3. Primary' = Primary /\ Reexported' = Reexported /\ \A d : Whole(d)' <=> Whole(d)
  BY <1>2, SameRequest DEF Whole
<1>4. UnionOfFiles' = UnionOfFiles
  BY <1>2 DEF UnionOfFiles
<1>5. LedgerOK(ledger')
  BY <1>1, <1>2, LedgerFromFiles DEF SyncInv
<1>6. StoresInv'
  BY <1>1, <1>2, <1>3, <1>5 DEF SyncInv, StoresInv, Running
<1>7. ProgressInv'
  BY <1>1, <1>2, <1>3, <1>4 DEF SyncInv, ProgressInv, AfterExport, RecentDaysWhole
<1>8. ReportedInv'
  BY <1>1, <1>2 DEF SyncInv, ReportedInv, Safe, Old, KeptUnlessTorn
<1> QED BY <1>6, <1>7, <1>8 DEF SyncInv

LEMMA AppendDiesKeeps == SyncInv /\ AppendDies => SyncInv'
<1>1. SUFFICES ASSUME SyncInv, AppendDies PROVE SyncInv'
  OBVIOUS
<1>2. /\ pc' = "idle" /\ ~repaired' /\ UNCHANGED <<place, today, files, rollups, cache, graph, reported, torn>>
      /\ ledger' \in SUBSET UnionOfFiles
  BY <1>1 DEF AppendDies, config, fetched, history
<1>3. LedgerOK(UnionOfFiles)
  BY <1>1, LedgerFromFiles DEF SyncInv
<1>4. LedgerOK(ledger')
  BY <1>2, <1>3 DEF LedgerOK, Once
<1>5. \A a \in InSentinel : Safe(a) => Safe(a)'
  BY <1>2 DEF Safe, Old
<1>6. DOMAIN files' \subseteq 1 .. (today - 1) /\ \A d \in DOMAIN files' : OfDay(files'[d], d)
  BY <1>1, <1>2 DEF SyncInv, StoresInv
<1> QED BY <1>1, <1>2, <1>4, <1>5, <1>6, IdleKeeps

LEMMA ReconcileKeeps == SyncInv /\ Reconcile => SyncInv'
<1> DEFINE stale == {DayOf[e.alert] : e \in {x \in ledger : Stale(x)}}
<1>1. SUFFICES ASSUME SyncInv, Reconcile PROVE SyncInv'
  OBVIOUS
<1>2. /\ pc = "reconcile" /\ todo' = stale /\ pc' = IF stale = {} THEN "prune" ELSE "repair"
      /\ UNCHANGED <<place, today, files, ledger, rollups, cache, mode, target, graph, repaired, reported, torn>>
  BY <1>1 DEF Reconcile, config, disk, request, fetched, history
<1>3. Primary' = Primary /\ Reexported' = Reexported /\ \A d : Whole(d)' <=> Whole(d)
  BY <1>2, SameRequest DEF Whole
<1>4. UnionOfFiles' = UnionOfFiles
  BY <1>2 DEF UnionOfFiles
<1>5. stale \subseteq 1 .. (today - 1)
  <2>1. ledger = UnionOfFiles
    BY <1>1, <1>2 DEF SyncInv, ProgressInv
  <2>2. \A e \in ledger : DayOf[e.alert] \in 1 .. (today - 1)
    BY <1>1, <2>1, LedgerFromFiles DEF SyncInv
  <2> QED BY <2>2
<1> HIDE DEF stale
<1>6. StoresInv'
  BY <1>1, <1>2, <1>3, <1>5 DEF SyncInv, StoresInv, Running
<1>7. ProgressInv'
  BY <1>1, <1>2, <1>3, <1>4 DEF SyncInv, ProgressInv, AfterExport, RecentDaysWhole
<1>8. ReportedInv'
  BY <1>1, <1>2 DEF SyncInv, ReportedInv, Safe, Old, KeptUnlessTorn
<1> QED BY <1>6, <1>7, <1>8 DEF SyncInv

LEMMA ReconcileFailsKeeps == SyncInv /\ ReconcileFails => SyncInv'
<1>1. SUFFICES ASSUME SyncInv, ReconcileFails PROVE SyncInv'
  OBVIOUS
<1>2. /\ pc = "reconcile" /\ pc' = "prune"
      /\ UNCHANGED <<place, today, files, ledger, rollups, cache, mode, target, graph, repaired, reported, torn>>
  BY <1>1 DEF ReconcileFails, config, disk, request, fetched, history
<1>3. Primary' = Primary /\ Reexported' = Reexported /\ \A d : Whole(d)' <=> Whole(d)
  BY <1>2, SameRequest DEF Whole
<1>4. UnionOfFiles' = UnionOfFiles
  BY <1>2 DEF UnionOfFiles
<1>5. StoresInv'
  BY <1>1, <1>2, <1>3 DEF SyncInv, StoresInv, Running
<1>6. ProgressInv'
  BY <1>1, <1>2, <1>3, <1>4 DEF SyncInv, ProgressInv, AfterExport, RecentDaysWhole
<1>7. ReportedInv'
  BY <1>1, <1>2 DEF SyncInv, ReportedInv, Safe, Old, KeptUnlessTorn
<1> QED BY <1>5, <1>6, <1>7 DEF SyncInv

LEMMA RepairKeeps == SyncInv /\ RepairDay => SyncInv'
<1>1. SUFFICES ASSUME SyncInv, RepairDay PROVE SyncInv'
  OBVIOUS
<1>0. PICK d : d = NextDay
  OBVIOUS
<1>2. /\ pc = "repair" /\ todo' = todo \ {d}
      /\ pc' = IF todo' # {} THEN "repair" ELSE IF repaired' THEN "truncate" ELSE "prune"
      /\ \/ WriteDay(d, KqlRows(d, TRUE)) /\ repaired' = TRUE
         \/ UNCHANGED <<files, torn, repaired>>
      /\ UNCHANGED <<place, today, ledger, rollups, cache, mode, target, graph, reported>>
  BY <1>0, <1>1 DEF RepairDay, config, request, fetched
<1>3. /\ today \in Nat /\ todo \in SUBSET (1 .. (today - 1)) /\ todo # {}
      /\ DOMAIN files \subseteq 1 .. (today - 1) /\ \A x \in DOMAIN files : OfDay(files[x], x)
  BY <1>1, <1>2 DEF SyncInv, StoresInv
<1>4. d \in todo /\ d \in 1 .. (today - 1)
  BY <1>0, <1>3, NextDayIs
\* What the repair leaves, whether it writes the file or not.
<1>5. /\ DOMAIN files' \subseteq 1 .. (today' - 1) /\ \A x \in DOMAIN files' : OfDay(files'[x], x)
      /\ DOMAIN files \subseteq DOMAIN files'
      /\ \A x : Whole(x) => Whole(x)'
      /\ \A a \in InSentinel : Safe(a) => Safe(a)'
  <2>1. CASE WriteDay(d, KqlRows(d, TRUE))
    <3> DEFINE S == KqlRows(d, TRUE)
    <3>1. OfDay(S, d) /\ \A a \in InSentinel : DayOf[a] = d => Tells(S, a)
      BY RowsOfDay
    <3>2. files' = With(d, S) /\ torn' = torn \ {d}
      BY <2>1 DEF WriteDay
    <3> HIDE DEF S
    <3>3. /\ DOMAIN files' = DOMAIN files \cup {d} /\ DOMAIN files' \subseteq 1 .. (today' - 1)
          /\ files'[d] = S /\ \A x \in DOMAIN files : x # d => files'[x] = files[x]
          /\ \A x \in DOMAIN files' : OfDay(files'[x], x)
      BY <1>2, <1>3, <1>4, <3>1, <3>2, WriteFacts
    <3>4. /\ Whole(d)' /\ \A x : Whole(x) => Whole(x)'
          /\ \A a \in InSentinel : Safe(a) => Safe(a)'
      BY <1>2, <3>1, <3>2, <3>3, WholeFileKeeps
    <3> QED BY <3>3, <3>4
  <2>2. CASE UNCHANGED <<files, torn, repaired>>
    BY <1>2, <1>3, <2>2 DEF Whole, Safe, Old
  <2> QED BY <1>2, <2>1, <2>2
<1>6. Primary' = Primary /\ Reexported' = Reexported
  BY <1>2, SameRequest
<1>7. StoresInv'
  BY <1>1, <1>2, <1>3, <1>5, <1>6 DEF SyncInv, StoresInv, Running
<1>8. ProgressInv'
  <2>1. \A x \in Reexported : Whole(x)'
    BY <1>1, <1>2, <1>5 DEF SyncInv, ProgressInv, AfterExport
  <2>2. mode = "date" => target \in DOMAIN files'
    BY <1>1, <1>2, <1>5 DEF SyncInv, ProgressInv, AfterExport
  <2>3. ~repaired' => ledger = UnionOfFiles /\ UNCHANGED files
    BY <1>1, <1>2 DEF SyncInv, ProgressInv
  <2>4. ~repaired' => (ledger = UnionOfFiles)'
    BY <1>2, <2>3 DEF UnionOfFiles
  <2>5. pc' \in {"repair", "truncate", "prune"} /\ (pc' = "prune" => ~repaired')
    BY <1>2
  <2> QED BY <1>2, <1>6, <2>1, <2>2, <2>4, <2>5 DEF ProgressInv, AfterExport, RecentDaysWhole
<1>9. ReportedInv'
  BY <1>1, <1>2, <1>5 DEF SyncInv, ReportedInv, KeptUnlessTorn
<1> QED BY <1>7, <1>8, <1>9 DEF SyncInv

LEMMA RepairDiesKeeps == SyncInv /\ RepairDies => SyncInv'
<1> DEFINE d == NextDay
<1>1. SUFFICES ASSUME SyncInv, RepairDies PROVE SyncInv'
  OBVIOUS
<1>2. /\ pc = "repair" /\ pc' = "idle" /\ ~repaired' /\ CutDay(d, KqlRows(d, TRUE))
      /\ UNCHANGED <<place, today, ledger, rollups, cache, graph, reported>>
  BY <1>1 DEF RepairDies, config, fetched
<1>3. d \in 1 .. (today - 1)
  <2>1. today \in Nat /\ todo \in SUBSET (1 .. (today - 1)) /\ todo # {}
    BY <1>1, <1>2 DEF SyncInv, StoresInv
  <2> QED BY <2>1, NextDayIs
<1> HIDE DEF d
<1>4. OfDay(KqlRows(d, TRUE), d)
  BY RowsOfDay
<1> QED BY <1>1, <1>2, <1>3, <1>4, CutKeeps

\* The last step of a sync: the ledger still has what the deleted files had.
LEMMA PruneKeeps == SyncInv /\ PruneDailyFiles => SyncInv'
<1> DEFINE keep == {d \in DOMAIN files : d >= Subtract(today, RetentionDays) \/ d \in Kept}
<1>1. SUFFICES ASSUME SyncInv, PruneDailyFiles PROVE SyncInv'
  OBVIOUS
<1>2. /\ pc = "prune" /\ pc' = "synced" /\ ~repaired' /\ todo' = {} /\ graph' = {}
      /\ files' = Restrict(files, keep)
      /\ reported' = reported \cup {e.alert : e \in ledger}
      /\ UNCHANGED <<place, today, ledger, rollups, cache, mode, target, torn>>
  BY <1>1 DEF PruneDailyFiles, config, request
<1>3. DOMAIN files' = keep /\ \A d \in keep : files'[d] = files[d]
  BY <1>2 DEF Restrict
<1>4. Primary' = Primary /\ Reexported' = Reexported
  BY <1>2, SameRequest
<1>5. /\ LedgerOK(ledger)
      /\ \A d \in DOMAIN files : \A a : Tells(files[d], a) => Tells(ledger, a)
      /\ \A e \in ledger : DayOf[e.alert] \in DOMAIN files /\ e \in files[DayOf[e.alert]]
  <2>1. ledger = UnionOfFiles
    BY <1>1, <1>2 DEF SyncInv, ProgressInv
  <2> QED BY <1>1, <2>1, LedgerFromFiles DEF SyncInv
<1>6. StoresInv'
  <2>1. DOMAIN files' \subseteq 1 .. (today' - 1) /\ \A d \in DOMAIN files' : OfDay(files'[d], d)
    BY <1>1, <1>2, <1>3 DEF SyncInv, StoresInv
  <2> QED BY <1>1, <1>2, <1>4, <2>1 DEF SyncInv, StoresInv, Running, Once
<1>7. ProgressInv'
  <2>1. RecentDaysWhole'
    <3>1. \A d \in Reexported : Whole(d)
      BY <1>1, <1>2 DEF SyncInv, ProgressInv, AfterExport
    <3> QED BY <1>2, <1>4, <1>5, <3>1 DEF RecentDaysWhole, Whole
  <2>2. mode = "date" => target \in DOMAIN files'
    <3>1. mode = "date" => target \in DOMAIN files /\ target \in Kept
      BY <1>1, <1>2 DEF SyncInv, ProgressInv, AfterExport, Kept, Primary
    <3> QED BY <1>3, <3>1
  <2> QED BY <1>2, <1>4, <2>1, <2>2 DEF ProgressInv, AfterExport
<1>8. ReportedInv'
  <2>1. Subtract(today, RetentionDays) \in Nat /\ \A d \in DOMAIN files : d \in Nat
    <3>1. RetentionDays \in Nat
      BY ConfigAssumption
    <3>2. today \in Nat /\ DOMAIN files \subseteq 1 .. (today - 1)
      BY <1>1 DEF SyncInv, StoresInv
    <3> QED BY <3>1, <3>2 DEF Subtract
  <2>2. \A a \in InSentinel : DayOf[a] \in DOMAIN files \ keep => Old(a)
    BY <2>1 DEF Old
  <2>3. place = "workstation" => \A a \in reported' \cap InSentinel : Safe(a) /\ (Tells(ledger, a) \/ DayOf[a] \in torn \/ Old(a))
    <3>1. SUFFICES ASSUME place = "workstation", NEW a \in reported' \cap InSentinel
                   PROVE  Safe(a) /\ (Tells(ledger, a) \/ DayOf[a] \in torn \/ Old(a))
      OBVIOUS
    <3>2. CASE a \in reported
      BY <1>1, <1>5, <3>1, <3>2 DEF SyncInv, ReportedInv, Safe
    <3>3. CASE a \notin reported
      <4>1. PICK e \in ledger : e.alert = a
        BY <1>2, <3>3
      <4> QED BY <1>5, <4>1 DEF Safe, Tells
    <3> QED BY <3>2, <3>3
  <2>4. \A a \in InSentinel : Safe(a) => Safe(a)'
    <3>1. SUFFICES ASSUME NEW a \in InSentinel, Safe(a), DayOf[a] \notin torn, ~Old(a) PROVE Safe(a)'
      BY <1>2 DEF Safe, Old
    <3>2. DayOf[a] \in keep /\ Tells(files[DayOf[a]], a)
      BY <2>2, <3>1 DEF Safe
    <3> HIDE DEF keep
    <3> QED BY <1>3, <3>2 DEF Safe
  <2> QED BY <1>2, <2>3, <2>4 DEF ReportedInv, KeptUnlessTorn, Old
<1> QED BY <1>6, <1>7, <1>8 DEF SyncInv

LEMMA RollupKeeps == SyncInv /\ Rollup => SyncInv'
<1>1. SUFFICES ASSUME SyncInv, Rollup PROVE SyncInv'
  OBVIOUS
<1>2. /\ pc = "synced" /\ pc' = "idle" /\ rollups' = BuildRollups
      /\ cache' = IF place = "runner" THEN [ledger |-> ledger, rollups |-> rollups'] ELSE cache
      /\ UNCHANGED <<place, today, files, ledger, graph, repaired, reported, torn>>
  BY <1>1 DEF Rollup, config, fetched, history
<1>3. RollupsOK(rollups')
  BY <1>1, <1>2, RollupsCount DEF SyncInv, StoresInv
<1>4. RollupsOK(cache'.rollups) /\ LedgerOK(cache'.ledger)
  BY <1>1, <1>2, <1>3 DEF SyncInv, StoresInv
<1>5. StoresInv'
  BY <1>1, <1>2, <1>3, <1>4 DEF SyncInv, StoresInv, Running
<1>6. ProgressInv'
  BY <1>1, <1>2 DEF SyncInv, ProgressInv, AfterExport, RecentDaysWhole
<1>7. ReportedInv'
  BY <1>1, <1>2 DEF SyncInv, ReportedInv, Safe, Old, KeptUnlessTorn
<1> QED BY <1>5, <1>6, <1>7 DEF SyncInv

LEMMA SyncStep == SyncInv /\ [Next]_vars => SyncInv'
<1>1. SUFFICES ASSUME SyncInv, [Next]_vars PROVE SyncInv'
  OBVIOUS
<1>2. CASE Next
  BY <1>1, <1>2, TomorrowKeeps, TriageKeeps, SyncKeeps, NoSourceKeeps, FetchKeeps, ExportDayKeeps,
     ExportDiesKeeps, OverlayFilesKeeps, OverlayDiesKeeps, TruncateKeeps, AppendKeeps, AppendDiesKeeps,
     ReconcileKeeps, ReconcileFailsKeeps, RepairKeeps, RepairDiesKeeps, PruneKeeps, RollupKeeps
  DEF Next
<1>3. CASE UNCHANGED vars
  BY <1>1, <1>3, SameStores DEF vars, config, live, disk, request, fetched, history
<1> QED BY <1>1, <1>2, <1>3

(* Every file holds the alerts of its day, each once, a run exports or repairs *)
(* whole days, and the ledger of a run is the union of the files.              *)
THEOREM SyncInvariant == Spec => []SyncInv
<1> QED BY SyncInit, SyncStep, PTL DEF Spec

(* A finished sync has every SecurityAlert of the days it exports again in the *)
(* ledger, whatever runs that died have left (sync.py:326).                    *)
THEOREM RecentDaysAreWhole == Spec => []RecentDaysWhole
<1>1. SyncInv => RecentDaysWhole
  BY DEF SyncInv, ProgressInv
<1> QED BY <1>1, SyncInvariant, PTL

(* No alert is counted twice, what a workstation has reported stays for the    *)
(* retention unless a crash cut its file short, and the date that was asked    *)
(* for is there (merge.py:38, ledger.py:300, 320, 344).                        *)
THEOREM LedgerAlwaysKeeps == Spec => []LedgerKeeps
<1>1. SyncInv => CountedOnce
  BY DEF SyncInv, StoresInv, CountedOnce, OfDay, LedgerOK, Once, RollupsOK
<1>2. SyncInv => KeptUnlessTorn
  BY DEF SyncInv, ReportedInv
<1>3. SyncInv => AskedDateSurvives
  BY DEF SyncInv, ProgressInv, AskedDateSurvives
<1> QED BY <1>1, <1>2, <1>3, SyncInvariant, PTL DEF LedgerKeeps
===============================================================================
