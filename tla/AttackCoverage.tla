---------------------------- MODULE AttackCoverage ----------------------------
(***************************************************************************)
(* What the repository's rules cover of MITRE ATT&CK, as each view says:   *)
(* the heatmap, the gaps, the badge, the Navigator layer, the portfolio    *)
(* and the D3FEND report.                                                  *)
(*                                                                         *)
(* A rule is a record of its metadata, whose tags are read from the raw    *)
(* block when the block is not valid, and of its payload.  A technique id  *)
(* and a tactic are written in several ways; m is the matrix, one release  *)
(* of ATT&CK as the refresh script has written it.                         *)
(***************************************************************************)
EXTENDS Integers, Sequences, SequencesExt, FiniteSetsExt

CONSTANTS Tactics, OtherTactics,   \* of Enterprise; further ones that ARM accepts
          FiledUnder,              \* id -> the tactics that ATT&CK files it under
          ParentOf,                \* a sub-technique's id -> its parent's
          Spelt,                   \* what is written, when well-formed -> id
          TacticNamed,             \* what is written, when it names one -> tactic
          NoId                     \* what an id resolves to that is not in the matrix

AllTactics == Tactics \cup OtherTactics
AsIds(written) == {Spelt[w] : w \in written \cap DOMAIN Spelt}
AsTactics(written) == {TacticNamed[w] : w \in written \cap DOMAIN TacticNamed}
IsSub(id) == id \in DOMAIN ParentOf
OrParent(id) == IF IsSub(id) THEN ParentOf[id] ELSE id

-----------------------------------------------------------------------------
(* refresh_attack_matrix.py: a release says of every id whether it is       *)
(* current, revoked or deprecated, and which id has replaced it.  A chain   *)
(* of replacements is followed to its end, unless it goes round.            *)

RECURSIVE EndOfChain(_, _, _, _)
EndOfChain(edges, current, id, been) ==
  IF id \in current \/ id \notin DOMAIN edges \/ id \in been THEN id
  ELSE EndOfChain(edges, current, edges[id], been \cup {id})

\* Mutant: only one replacement is followed.
OneHop(release) ==
  LET current == {i \in DOMAIN release.state : release.state[i] = "current"}
      revoked == {i \in DOMAIN release.by \ current : release.by[i] \in current} IN
  [current |-> current, revoked |-> [i \in revoked |-> release.by[i]],
   deprecated |-> DOMAIN release.state \ (current \cup revoked)]

MatrixOf(release) ==
  LET current == {i \in DOMAIN release.state : release.state[i] = "current"}
      edges == [i \in {j \in DOMAIN release.by \ current : release.by[j] \in DOMAIN release.state \ {j}} |->
                  release.by[i]]
      revoked == {i \in DOMAIN edges : EndOfChain(edges, current, edges[i], {i}) \in current} IN
  [current |-> current, revoked |-> [i \in revoked |-> EndOfChain(edges, current, edges[i], {i})],
   deprecated |-> DOMAIN release.state \ (current \cup revoked)]

(* AttackMatrix *)
Status(m, id) ==
  CASE id \in m.current -> "current"
    [] id \in DOMAIN m.revoked \ m.current /\ m.revoked[id] \in m.current -> "revoked"
    [] OTHER -> IF id \in m.deprecated THEN "deprecated" ELSE "unknown"
Resolved(m, id) ==
  CASE Status(m, id) = "current" -> id
    [] Status(m, id) = "revoked" -> m.revoked[id]
    [] OTHER -> NoId
TacticsFor(m, id) == IF id \in m.current THEN FiledUnder[id] ELSE {}
Parents(m) == {i \in m.current : ~IsSub(i)}
Subs(m) == {i \in m.current : IsSub(i)}

-----------------------------------------------------------------------------
(* coverage/extract.py: the tags of one rule. *)

Valid(r) == /\ r.meta = "valid" /\ r.metaTactics # {} /\ r.metaTactics \subseteq AllTactics
            /\ \A w \in r.metaIds : w \in DOMAIN Spelt /\ Spelt[w] = w

FromMetadata(r) ==
  CASE Valid(r) -> [tactics |-> r.metaTactics, ids |-> r.metaIds]
    [] ~Valid(r) /\ r.meta # "none" -> [tactics |-> AsTactics(r.metaTactics), ids |-> r.metaIds]
    [] OTHER -> [tactics |-> {}, ids |-> {}]

FromPayload(r) ==
  CASE r.asset = "defender" -> [tactics |-> AsTactics({r.category}), ids |-> r.ids]
    [] r.asset \in {"analytic", "hunting"} -> [tactics |-> AsTactics(r.tactics), ids |-> r.ids \cup r.subIds]

Extracted(m, r) ==
  LET written == FromMetadata(r).ids \cup FromPayload(r).ids
      ids == AsIds(written)
      counted == {Resolved(m, i) : i \in ids} \ {NoId}
      display == counted \cup {i \in ids : Resolved(m, i) = NoId}
      claimed == FromMetadata(r).tactics \cup FromPayload(r).tactics
      inferred == claimed = {} /\ counted # {}
      tactics == IF inferred THEN UNION {TacticsFor(m, i) : i \in counted} ELSE claimed
      under == [t \in tactics |-> {i \in counted : t \in TacticsFor(m, i)}] IN
  [tactics |-> tactics, counted |-> counted, display |-> display, under |-> under,
   inferred |-> inferred, invalid |-> written \ DOMAIN Spelt,
   homeless |-> display \ UNION {under[t] : t \in tactics}]

-----------------------------------------------------------------------------
(* coverage/corpus.py: which rules count. *)

Detecting == {"analytic", "hunting", "defender"}
IsOn(r) ==
  CASE r.asset = "analytic" -> r.switch # "off"
    [] r.asset = "defender" -> r.switch \notin {"off", "auto"}
    [] OTHER -> TRUE
Exclusion(scope, r) ==
  CASE r.status = "deprecated" \/ ~IsOn(r) -> "disabled"
    [] r.status # "deprecated" /\ IsOn(r) /\ r.asset = "hunting" /\ ~scope.hunting -> "hunting"
    [] OTHER -> IF scope.productionOnly /\ r.status # "production" THEN "non_production" ELSE "none"
Corpus(repo) == {r \in repo : r.asset \in Detecting}
Counting(repo, scope) == {r \in Corpus(repo) : Exclusion(scope, r) = "none"}

Covered(m, rules) ==
  LET counted == UNION {Extracted(m, r).counted : r \in rules} IN
  [tactics |-> UNION {Extracted(m, r).tactics : r \in rules} \cap Tactics,
   techniques |-> {OrParent(i) : i \in counted} \cap Parents(m), subs |-> counted \cap Subs(m)]
CoveredIds(m, rules) == Covered(m, rules).techniques \cup Covered(m, rules).subs

(* coverage/report.py: the heatmap, without its severities, and the badge.  *)
Heatmap(m, rules) ==
  [t \in AllTactics |->
     LET claim == {r \in rules : t \in Extracted(m, r).tactics} IN
     [count |-> Cardinality(claim), production |-> Cardinality({r \in claim : r.status = "production"}),
      techniques |-> UNION {Extracted(m, r).under[t] : r \in claim}]]
Badge(m, rules) ==
  [tactics |-> <<Cardinality(Covered(m, rules).tactics), Cardinality(Tactics)>>,
   techniques |-> <<Cardinality(Covered(m, rules).techniques), Cardinality(Parents(m))>>,
   subs |-> <<Cardinality(Covered(m, rules).subs), Cardinality(Subs(m))>>]
Outside(m, rules) == UNION {Extracted(m, r).homeless : r \in rules} \cap m.current

-----------------------------------------------------------------------------
(* coverage/gaps.py: a reference list, of which the first entry of an id is *)
(* kept, and what of it no counting rule names.                             *)

FirstOfEach(refs) ==
  {refs[k] : k \in {k \in DOMAIN refs : \A j \in 1..(k - 1) : refs[j].id # refs[k].id}}
Pointed(m, ref, curated) ==
  LET now == Resolved(m, ref.id) IN
  CASE now # NoId /\ curated -> [id |-> now, tactics |-> TacticsFor(m, now)]
    [] now # NoId /\ ~curated /\ Status(m, ref.id) = "revoked" ->
         [id |-> now, tactics |-> IF ref.tactics = {} THEN TacticsFor(m, now) ELSE ref.tactics]
    [] OTHER -> ref
Listed(m, refs, curated) == FirstOfEach([k \in DOMAIN refs |-> Pointed(m, refs[k], curated)])
FullList(m) == {[id |-> i, tactics |-> TacticsFor(m, i)] : i \in m.current}

\* Mutant: a sub-technique does not cover its parent.
NoRollUp(list, covered) ==
  LET have == {i \in covered : IsSub(i)} IN
  [missing |-> [t \in AllTactics |-> {x.id : x \in {y \in list : t \in y.tactics /\ y.id \notin have}}],
   techniques |-> 0, subs |-> Cardinality({x.id : x \in list} \cap have)]

Gaps(list, covered) ==
  LET have == covered \cup {OrParent(i) : i \in covered}
      met == {x.id : x \in list} \cap have IN
  [missing |-> [t \in AllTactics |-> {x.id : x \in {y \in list : t \in y.tactics /\ y.id \notin have}}],
   techniques |-> Cardinality({i \in met : ~IsSub(i)}), subs |-> Cardinality({i \in met : IsSub(i)})]

-----------------------------------------------------------------------------
(* navigator/extract.py: for each technique, the names of the rules that     *)
(* have it, in the repository, in the tenant and among the alerts raised.    *)

CONSTANT Stripped          \* a name -> that name without blanks around it
NameInRepo(r) == IF Stripped[r.name] # "" THEN Stripped[r.name] ELSE r.id
Hits(ids, name, axis) == {[id |-> i, name |-> name, axis |-> axis] : i \in ids}
RepoHits(m, rules) == UNION {Hits(Extracted(m, r).counted, NameInRepo(r), "repo") : r \in rules}

(* What is deployed has the payload's tags only. *)
DeployedHits(m, deployed) ==
  LET on == {r \in deployed : r.asset # "hunting" /\ IsOn(r)} IN
  UNION {Hits({Resolved(m, i) : i \in AsIds(FromPayload(r).ids)} \ {NoId},
              IF r.name # "" THEN r.name ELSE r.id, "deployed") : r \in on}
FiringHits(m, alerts) ==
  UNION {Hits({Resolved(m, i) : i \in AsIds({a.id})} \ {NoId}, a.name, "firings") : a \in {b \in alerts : b.name # ""}}

Layer(hits) ==
  LET named == {h.id : h \in hits}
      tiles == named \cup {OrParent(i) : i \in named}
      Names(id, axes) == {h.name : h \in {g \in hits : g.id = id /\ g.axis \in axes}} IN
  [id \in tiles |-> [score |-> Cardinality(Names(id, {"repo", "deployed", "firings"})),
                     repo |-> Cardinality(Names(id, {"repo"})), deployed |-> Cardinality(Names(id, {"deployed"})),
                     firings |-> Cardinality(Names(id, {"firings"}))]]

(* An axis that cannot be read is left out, and the run fails unless told   *)
(* that this may be.                                                        *)
LayerOf(hitsOf, readable, softly) ==
  [layer |-> Layer(UNION {hitsOf[a] : a \in readable}), ok |-> softly \/ readable = DOMAIN hitsOf]

-----------------------------------------------------------------------------
(* coverage/d3fend.py: here every file with a valid block counts, whatever   *)
(* its status, and no other.                                                 *)

D3fend(repo, techniques) ==
  LET covered == UNION {r.defensive : r \in {s \in repo : Valid(s)}} IN
  [covered |-> {t.id : t \in techniques} \cap covered,
   missing |-> [k \in UNION {t.tactics : t \in techniques} |->
                  {t.id : t \in {u \in techniques : k \in u.tactics /\ u.id \notin covered}}]]

(* portfolio/report.py: one row for every detection, counting or not. *)
PortfolioRow(m, r) ==
  [id |-> r.id, asset |-> r.asset, tactics |-> Extracted(m, r).tactics, techniques |-> Extracted(m, r).display,
   cohort |-> r.cohort,
   enabled |-> IF r.asset = "hunting" \/ r.switch = "unset" THEN "unsaid" ELSE IF IsOn(r) THEN "yes" ELSE "no"]
Portfolio(m, repo, cohort) ==
  {PortfolioRow(m, r) : r \in {s \in Corpus(repo) : cohort = "any" \/ s.cohort = cohort}}

-----------------------------------------------------------------------------
(* The views agree.  The techniques that the badge counts are those that    *)
(* the gaps of the whole matrix call covered, and those of the repository's *)
(* Navigator layer; the heatmap shows none that the gaps call missing under *)
(* that tactic; a counted technique that it does not show is named in the   *)
(* notes below it; and the rows of the portfolio that may count name each   *)
(* of them (coverage/corpus.py:6, gaps.py:17).  The same of what a valid    *)
(* block says of D3FEND.  ATT&CK has the parent of each sub-technique.      *)
WholeMatrix(m) == \A i \in Subs(m) : ParentOf[i] \in m.current
ViewsOfCoverageAgree(m, repo, scope, defences) ==
  LET rules == Counting(repo, scope)
      covered == CoveredIds(m, rules)
      gaps == Gaps(FullList(m), covered)
      heat == Heatmap(m, rules)
      rows == UNION {p.techniques : p \in {q \in Portfolio(m, repo, "any") : q.enabled # "no"}} IN
  /\ Badge(m, rules).techniques[1] = gaps.techniques /\ Badge(m, rules).subs[1] = gaps.subs
  /\ covered = DOMAIN Layer(RepoHits(m, rules))
  /\ covered \cap UNION {gaps.missing[t] : t \in AllTactics} = {}
  /\ \A t \in AllTactics : heat[t].techniques \cap gaps.missing[t] = {}
  /\ UNION {Extracted(m, r).counted : r \in rules} = UNION {heat[t].techniques : t \in AllTactics} \cup Outside(m, rules)
  /\ \A r \in rules : Valid(r) =>
       r.defensive \cap UNION Range(D3fend(repo, defences).missing) = {}
  /\ covered \subseteq rows \cup {OrParent(i) : i \in rows}

(* Hand-written tags never vanish: a metadata block with a wrong field      *)
(* elsewhere covers what it would cover without it (coverage/corpus.py:15), *)
(* and a rule that bears a technique's revoked id what it would under the   *)
(* new one.                                                                 *)
Renamed(m, written) ==
  {IF w \in DOMAIN Spelt /\ Status(m, Spelt[w]) = "revoked" THEN m.revoked[Spelt[w]] ELSE w : w \in written}
TagsNeverVanish(m, r) ==
  LET seen(s) == [Extracted(m, s) EXCEPT !.invalid = {}]
      fresh == [r EXCEPT !.metaIds = Renamed(m, @), !.ids = Renamed(m, @), !.subIds = Renamed(m, @)] IN
  /\ r.meta = "valid" => seen(r) = seen([r EXCEPT !.meta = "partial"])
  /\ seen(fresh) = seen(r)

(* No false gap: a technique that a counting rule names, or whose           *)
(* sub-technique it names, is missing from no list that has it, under its   *)
(* id of today or an older one.                                             *)
NoFalseGap(m, rules, refs, curated) ==
  LET gaps == Gaps(Listed(m, refs, curated), CoveredIds(m, rules)) IN
  \A r \in rules, t \in AllTactics, k \in DOMAIN refs :
    \A i \in AsIds(FromMetadata(r).ids \cup FromPayload(r).ids) :
      LET now == Resolved(m, i) IN
      (now # NoId /\ Resolved(m, refs[k].id) \in {now, OrParent(now)}) =>
        {refs[k].id, Resolved(m, refs[k].id)} \cap gaps.missing[t] = {}

(* A rule that is seen in the repository and in the tenant, with the        *)
(* payload as it was written, scores once (navigator/extract.py:80), and    *)
(* what the other axes add or lack changes nothing of the repository's.     *)
DeployedScoresOnce(m, rules, alerts) ==
  LET named == {r \in rules : r.name = Stripped[r.name] /\ r.name # ""}
      repo == Layer(RepoHits(m, named))
      both == Layer(RepoHits(m, named) \cup DeployedHits(m, named))
      hitsOf == [repo |-> RepoHits(m, named), deployed |-> DeployedHits(m, named), firings |-> FiringHits(m, alerts)] IN
  /\ DOMAIN both = DOMAIN repo /\ \A i \in DOMAIN repo : both[i].score = repo[i].score
  /\ \A axes \in SUBSET DOMAIN hitsOf : "repo" \in axes =>
       LET layer == LayerOf(hitsOf, axes, TRUE).layer IN
       \A i \in DOMAIN repo : layer[i].repo = repo[i].repo /\ layer[i].score >= layer[i].deployed

(* A release that replaces or retires techniques changes no tag's meaning:  *)
(* a tag comes to what its technique has become, and one that ATT&CK knew   *)
(* is never taken for a misspelling.                                        *)
LaterRelease(r1, r2) ==
  /\ DOMAIN r1.state \subseteq DOMAIN r2.state
  /\ \A i \in DOMAIN r1.by : r1.state[i] # "current" /\ i \in DOMAIN r2.by /\ r2.by[i] = r1.by[i]
  /\ \A i \in DOMAIN r2.by : r2.state[i] = "revoked"
  /\ \A i \in DOMAIN r1.state : r2.state[i] = "current" => r1.state[i] = "current"
RefreshKeepsTags(r1, r2) ==
  LET m1 == MatrixOf(r1)  m2 == MatrixOf(r2) IN
  \A i \in DOMAIN r1.state :
    /\ Status(m2, i) # "unknown"
    /\ Resolved(m1, i) # NoId => Resolved(m2, i) = Resolved(m2, Resolved(m1, i))
=============================================================================
