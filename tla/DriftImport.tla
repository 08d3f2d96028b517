----------------------------- MODULE DriftImport -----------------------------
(***************************************************************************)
(* `contentops drift --write' and `contentops collect': what people change *)
(* in the portal comes back into the files through a pull request.         *)
(*                                                                         *)
(* One asset kind.  Rules live in the tenant under a remote name: a GUID   *)
(* when they were made in the portal, the id of their file when they were  *)
(* deployed from it.  A file knows its rule by metadata.arm_name, or by    *)
(* its id.  A rule has no id: an import derives one from the display name, *)
(* which two rules may share and which the portal may change at any time.  *)
(***************************************************************************)
EXTENDS GitMerge, Naturals, FiniteSets, Sequences, Functions

CONSTANTS
  Slugs,       \* display names, as displayname_slug writes them
  Guids,       \* remote names that the portal gives
  Bodies,      \* everything else in a rule: its query, its severity
  None,
  PathRank,    \* the paths from the last that discover_assets yields to the first
  Suppressions, \* the sets of ids that drift_suppressions.yml may hold
  MaxVersion,  \* bound: the patch component of a file's version
  MaxPortal,   \* bound: changes in the portal
  MaxGit,      \* bound: changes that engineers merge
  MaxRuns      \* bound: runs of drift and collect

Remotes == Slugs \cup Guids
Ids == Slugs \cup (Slugs \X Remotes)

ASSUME ConstantsAssumption ==
  /\ Slugs \cap Guids = {} /\ None \notin Ids \cup Remotes
  /\ PathRank \in [Ids -> Nat]
  /\ \A p, q \in Ids : PathRank[p] = PathRank[q] => p = q
  /\ {MaxVersion, MaxPortal, MaxGit, MaxRuns} \subseteq Nat

Rule == [name : Slugs, body : Bodies, enabled : BOOLEAN]
(* `owned' stands for the metadata that only an operator writes. *)
File == [id : Ids, arm : Remotes \cup {None}, payload : Rule, owned : BOOLEAN,
         status : {"production", "deprecated"}, version : 0 .. MaxVersion]

VARIABLES
  files,     \* the head of main: the files, by path
  tenant,    \* the rules, by remote name
  prs,       \* the open pull request of each lane: its base and its head
  off,       \* history: the rules that people ever switched off in the portal
  portals, gits, runs

Lanes == {"drift", "collect"}
counters == <<portals, gits, runs>>
vars == <<files, tenant, prs, off, counters>>

NoPr == [base |-> <<>>, head |-> <<>>]
With(f, x, v) == [y \in {x} \cup DOMAIN f |-> IF y = x THEN v ELSE f[y]]

------------------------------------------------------------------------------
(* Matching. *)

(* discover_assets yields the paths in order: under each of its keys, a later *)
(* file overrides an earlier one.                                             *)
Keys(f) == {f.id} \cup (IF f.arm = None THEN {} ELSE {f.arm})
LocalIndex(fs, key) ==
  LET holders == {p \in DOMAIN fs : key \in Keys(fs[p])} IN
  {p \in holders : \A q \in holders : PathRank[p] <= PathRank[q]}

(* displayname_slug, and for rules that share it disambiguate_envelope_ids. *)
EnvelopeId(listing, r) ==
  LET slug == listing[r].name IN
  IF \E q \in DOMAIN listing \ {r} : listing[q].name = slug THEN <<slug, r>> ELSE slug

(* By the remote name first, then by the derived id. *)
\* Mutant: by the id alone, as collect did before.
MatchById(fs, listing, r) == LocalIndex(fs, EnvelopeId(listing, r))
Match(fs, listing, r) ==
  IF LocalIndex(fs, r) # {} THEN LocalIndex(fs, r) ELSE LocalIndex(fs, EnvelopeId(listing, r))

Added(fs, listing) == {r \in DOMAIN listing : Match(fs, listing, r) = {}}
Changed(fs, listing) ==
  {r \in DOMAIN listing : \E p \in Match(fs, listing, r) : fs[p].payload # listing[r]}
Drifted(fs, listing) == Added(fs, listing) \cup Changed(fs, listing)

(* apply_suppressions: an active suppression names the id of the entry. *)
Suppressed(fs, listing, S) == {r \in Drifted(fs, listing) : EnvelopeId(listing, r) \in S}

------------------------------------------------------------------------------
(* Writing. *)

(* to_envelope: everything that the tenant can tell, the rest at its baseline. *)
Envelope(listing, r) ==
  [id |-> EnvelopeId(listing, r), arm |-> r, payload |-> listing[r], owned |-> FALSE,
   status |-> IF listing[r].enabled THEN "production" ELSE "deprecated", version |-> 0]

SameButVersion(f, g) == [f EXCEPT !.version = g.version] = g

(* The id and the metadata of the file stay, and a new content is a new version. *)
\* Mutant: the envelope as it came, at the baseline version.
KeepNothing(env, old) == env
\* Mutant: the file also keeps its switch.
KeepSwitch(env, old) ==
  [env EXCEPT !.id = old.id, !.owned = old.owned, !.version = old.version + 1,
              !.payload.enabled = old.payload.enabled]
Preserve(env, old) ==
  LET kept == [env EXCEPT !.id = old.id, !.owned = old.owned, !.version = old.version] IN
  IF SameButVersion(kept, old) THEN kept ELSE [kept EXCEPT !.version = @ + 1]

WriteNew(fs, listing, r) == With(fs, EnvelopeId(listing, r), Envelope(listing, r))
WriteChanged(fs, index, listing, r) ==
  LET p == CHOOSE q \in Match(index, listing, r) : TRUE IN
  [fs EXCEPT ![p] = Preserve(Envelope(listing, r), @)]

Write(fs, index, listing, r) ==
  IF Match(index, listing, r) = {} THEN WriteNew(fs, listing, r)
  ELSE WriteChanged(fs, index, listing, r)

(* write_drift: the new ones first, then the changed ones.  The matches are those *)
(* of before the first write.                                                     *)
Orders(fs, listing, S) ==
  LET entries == Drifted(fs, listing) \ Suppressed(fs, listing, S) IN
  {o \in [1 .. Cardinality(entries) -> entries] :
     /\ Range(o) = entries
     /\ \A i, j \in DOMAIN o :
          o[i] \in Added(fs, listing) /\ o[j] \in Changed(fs, listing) => i < j}

Writing(fs, listing, order) ==
  LET after[i \in 0 .. Len(order)] ==
        IF i = 0 THEN fs ELSE Write(after[i - 1], fs, listing, order[i])
  IN after
Imported(fs, listing, order) == Writing(fs, listing, order)[Len(order)]

------------------------------------------------------------------------------
(* The runs. *)

Init ==
  /\ files = <<>> /\ tenant = <<>> /\ prs = [l \in Lanes |-> NoPr]
  /\ off = {}
  /\ portals = 0 /\ gits = 0 /\ runs = 0

(* A run whose tree changed opens a pull request and closes the one before it. *)
Open(l, head) ==
  /\ runs < MaxRuns /\ runs' = runs + 1
  /\ \A p \in DOMAIN head : head[p].version <= MaxVersion
  /\ prs' = [prs EXCEPT ![l] = IF head = files THEN @ ELSE [base |-> files, head |-> head]]
  /\ UNCHANGED <<files, tenant, off, portals, gits>>

(* A listing that fails writes nothing.  Only drift reads the suppressions. *)
Import(l, S) ==
  /\ l = "collect" => S = {}
  /\ \E order \in Orders(files, tenant, S) : Open(l, Imported(files, tenant, order))

(* collect --clear, of a kind that listed: the files of the kind go first. *)
CollectClear ==
  /\ files # <<>>
  /\ \E order \in Orders(<<>>, tenant, {}) : Open("collect", Imported(<<>>, tenant, order))

(* git merges what one side changed, or both in the same way. *)
Absent == [id |-> None]
At(fs, p) == IF p \in DOMAIN fs THEN fs[p] ELSE Absent

Conflicts(b, m, h) ==
  /\ Differ(b, m, h)
  /\ \/ Absent \in {b, m, h}
     \/ \E k \in DOMAIN b \ {"payload"} : Differ(b[k], m[k], h[k])
     \/ FieldsDiffer(b.payload, m.payload, h.payload)
Merge(b, m, h) ==
  IF ~Differ(b, m, h) THEN Merged(b, m, h)
  ELSE [FieldsMerged(b, m, h) EXCEPT !.payload = FieldsMerged(b.payload, m.payload, h.payload)]

MergePr(l) ==
  LET paths == DOMAIN files \cup DOMAIN prs[l].base \cup DOMAIN prs[l].head
      merged == [p \in paths |-> Merge(At(prs[l].base, p), At(files, p), At(prs[l].head, p))]
  IN
  /\ prs[l] # NoPr
  /\ ~\E p \in paths : Conflicts(At(prs[l].base, p), At(files, p), At(prs[l].head, p))
  /\ files' = [p \in {q \in paths : merged[q] # Absent} |-> merged[p]]
  /\ prs' = [prs EXCEPT ![l] = NoPr]
  /\ UNCHANGED <<tenant, off, counters>>

------------------------------------------------------------------------------
(* The portal. *)

Portal ==
  /\ portals < MaxPortal /\ portals' = portals + 1
  /\ UNCHANGED <<files, prs, gits, runs>>

CreateInPortal(g) ==
  /\ g \notin DOMAIN tenant
  /\ \E s \in Slugs, b \in Bodies :
       tenant' = With(tenant, g, [name |-> s, body |-> b, enabled |-> TRUE])
  /\ UNCHANGED off

EditInPortal(r) ==
  /\ \E b \in Bodies \ {tenant[r].body} : tenant' = [tenant EXCEPT ![r].body = b]
  /\ UNCHANGED off

RenameInPortal(r) ==
  /\ \E s \in Slugs \ {tenant[r].name} : tenant' = [tenant EXCEPT ![r].name = s]
  /\ UNCHANGED off

SwitchInPortal(r) ==
  /\ tenant' = [tenant EXCEPT ![r].enabled = ~@]
  /\ off' = off \cup {r}

DeleteInPortal(r) ==
  /\ tenant' = [q \in DOMAIN tenant \ {r} |-> tenant[q]]
  /\ UNCHANGED off

------------------------------------------------------------------------------
(* The engineers, whose pull requests carry a new version, and the deploys. *)

Git ==
  /\ gits < MaxGit /\ gits' = gits + 1
  /\ UNCHANGED <<prs, off, portals, runs>>

RemoteOf(f) == IF f.arm = None THEN f.id ELSE f.arm

Author(s) ==
  /\ s \notin DOMAIN files
  /\ \A p \in DOMAIN files : RemoteOf(files[p]) # s
  /\ \E b \in Bodies :
       files' = With(files, s,
         [id |-> s, arm |-> None, payload |-> [name |-> s, body |-> b, enabled |-> TRUE],
          owned |-> TRUE, status |-> "production", version |-> 0])
  /\ UNCHANGED tenant

Edited(f, b) == [f EXCEPT !.payload.body = b, !.owned = TRUE, !.version = @ + 1]
EditFile(p) ==
  /\ files[p].version < MaxVersion
  /\ \E b \in Bodies \ {files[p].payload.body} : files' = [files EXCEPT ![p] = Edited(@, b)]
  /\ UNCHANGED tenant

Turned(f, status) == [f EXCEPT !.status = status, !.version = @ + 1]
Disable(p) ==
  /\ files[p].status # "deprecated" /\ files[p].version < MaxVersion
  /\ files' = [files EXCEPT ![p] = Turned(@, "deprecated")]
  /\ UNCHANGED tenant

Enable(p) ==
  /\ files[p].status = "deprecated" /\ files[p].version < MaxVersion
  /\ files' = [files EXCEPT ![p] = Turned(@, "production")]
  /\ UNCHANGED tenant

(* apply, of a rule under its remote name: a deprecated one is sent disabled. *)
Sent(f) == [f.payload EXCEPT !.enabled = @ /\ f.status # "deprecated"]
Deploy(p) ==
  /\ tenant' = With(tenant, RemoteOf(files[p]), Sent(files[p]))
  /\ UNCHANGED files

(* drift-resolve --strategy remote: the envelope as it came, at the path that its *)
(* id leads to.  check_version_bump lets it pass when the version differs.        *)
ResolveRemote(r) ==
  LET target == LocalIndex(files, EnvelopeId(tenant, r)) IN
  /\ \A p \in target : files[p].payload # tenant[r] /\ files[p].version # 0
  /\ files' = With(files, IF target = {} THEN EnvelopeId(tenant, r) ELSE CHOOSE p \in target : TRUE,
                   Envelope(tenant, r))
  /\ UNCHANGED tenant

Next ==
  \/ \E l \in Lanes : MergePr(l) \/ \E S \in Suppressions : Import(l, S)
  \/ CollectClear
  \/ Portal /\ \E g \in Guids : CreateInPortal(g)
  \/ Portal /\ \E r \in DOMAIN tenant :
       \/ EditInPortal(r) \/ RenameInPortal(r) \/ SwitchInPortal(r) \/ DeleteInPortal(r)
  \/ Git /\ \E s \in Slugs : Author(s)
  \/ Git /\ \E r \in DOMAIN tenant : ResolveRemote(r)
  \/ Git /\ \E p \in DOMAIN files : EditFile(p) \/ Disable(p) \/ Enable(p) \/ Deploy(p)

Spec == Init /\ [][Next]_vars

------------------------------------------------------------------------------
(* Properties. *)

FileMap(fs) == DOMAIN fs \subseteq Ids /\ fs \in [DOMAIN fs -> File]

\* Files and rules are of their types, and a rule is deployed under a remote
\* name only: a file with a suffixed id always has its arm_name (sentinel_analytic.py:324).
TypeOK ==
  /\ FileMap(files)
  /\ DOMAIN tenant \subseteq Remotes /\ IsFiniteSet(DOMAIN tenant)
  /\ tenant \in [DOMAIN tenant -> Rule]
  /\ prs = [l \in Lanes |-> [base |-> prs[l].base, head |-> prs[l].head]]
  /\ \A l \in Lanes : FileMap(prs[l].base) /\ FileMap(prs[l].head)
  /\ off \subseteq Remotes

\* Why no merge brings about a file without an arm_name under a suffixed id: only
\* Author writes one without, and an import keeps the id of a file or names it
\* after its path.
Authored(fs) == \A p \in DOMAIN fs : fs[p].arm = None => p \in Slugs /\ fs[p].id = p
HeadOfBase(b, h) ==
  \A p \in DOMAIN h :
    /\ h[p].arm = None => p \in DOMAIN b /\ h[p] = b[p]
    /\ p \in DOMAIN b => h[p].id \in {b[p].id, p}
IInv ==
  /\ TypeOK
  /\ Authored(files)
  /\ \A l \in Lanes : Authored(prs[l].base) /\ HeadOfBase(prs[l].base, prs[l].head)

ImportStep(l, S) == runs' # runs /\ prs'[l] # prs[l] /\ Import(l, S)
Result(l) == prs'[l].head

(* No two rules of the tenant lead to one file, nor would. *)
Unclaimed(fs, listing) ==
  LET keys(r) == {r, EnvelopeId(listing, r)} IN
  \A r, q \in DOMAIN listing : r # q =>
    keys(r) \cap keys(q) = {} /\ Match(fs, listing, r) \cap Match(fs, listing, q) = {}

\* "every lookup keyed on path.stem == id" (drift.py:311): a file stands at the
\* path of its id.  It does after Author and after an import, not after a
\* drift-resolve of a rule that another name led to.
AtHome(fs) == \A p \in DOMAIN fs : fs[p].id = p

\* collect.py:171: "collect -> drift returns no NEW or CHANGED entries": what an
\* import has written, the next one finds in sync, but for what is suppressed.
\* The premise is needed: a name that one rule gave up and another took makes
\* both lead to the file of the first.
RoundTrip ==
  [][\A l \in Lanes, S \in Suppressions :
       ImportStep(l, S) /\ Unclaimed(files, tenant) /\ AtHome(files) =>
         Drifted(Result(l), tenant) = Suppressed(files, tenant, S)]_vars

\* An import never makes a second file for a rule that has one, whatever the
\* portal renamed (collect_support.py:123-126), nor a file that answers to a key
\* of another.  The premise asks for no less: of two files with one key the index
\* knows the last (drift.py:131-136), be the key the arm_name of the one and only
\* the id of the other.
KeysApart(fs) == \A p, q \in DOMAIN fs : p # q => Keys(fs[p]) \cap Keys(fs[q]) = {}
OneFilePerRule ==
  [][\A l \in Lanes, S \in Suppressions :
       ImportStep(l, S) /\ Unclaimed(files, tenant) /\ AtHome(files) /\ KeysApart(files) =>
         AtHome(Result(l)) /\ KeysApart(Result(l))]_vars

\* Every file survives an import with its id and the operator's metadata, and
\* with a higher version when anything in it changed (drift.py:304-390), even
\* when two rules are written to it in one import.
ImportKeepsFiles ==
  [][\A l \in Lanes, S \in Suppressions : ImportStep(l, S) /\ AtHome(files) =>
       \A p \in DOMAIN files :
         /\ p \in DOMAIN Result(l)
         /\ Result(l)[p].id = files[p].id
         /\ files[p].owned => Result(l)[p].owned
         /\ Result(l)[p] # files[p] => Result(l)[p].version > files[p].version]_vars

\* enable is the "Inverse of contentops disable" (lifecycle.py:213): a deploy of
\* a production file leaves the rule on, unless people switched it off.  It does
\* not hold: an import between the two copies enabled: false into the payload
\* (drift.py:291), and enable changes the status alone.
EnableRestores ==
  [][\A p \in DOMAIN files :
       Git /\ Deploy(p) /\ files[p].status = "production" /\ RemoteOf(files[p]) \notin off
         => tenant'[RemoteOf(files[p])].enabled]_vars
==============================================================================
