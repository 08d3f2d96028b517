---------------------------- MODULE RunScope_proofs ----------------------------
(***************************************************************************)
(* Proofs about RunScope for every tenant.yml that loads, any number of    *)
(* workspaces, any files and any command: the invariant says, for each     *)
(* command, which passes are left, what the gates let through, and that    *)
(* every write went to the workspace of its pass.                          *)
(***************************************************************************)
EXTENDS RunScope, FiniteSetTheorems, NaturalsInduction, WellFoundedInduction, TLAPS

Tenant == Configs \ {NoConfig}

\* What a command may write at most.
ApplyFiles == Unlocked(EnvStatus(cfg, Select(cfg).at, Loaded(cfg)))
RollbackFiles == Unlocked(EnvStatus(cfg, RollbackTarget(cfg, env), Loaded(cfg)))
Playbooks == {f \in Files : f.kind = "playbook"}

\* apply: a pass per selected workspace, with that workspace in the environment.
ApplyInv ==
  LET at == Select(cfg).at IN
  /\ Select(cfg).ok
  /\ cmd.real => WriteAllowed(cfg, at)
  /\ DOMAIN todo \subseteq (IF at = {} THEN {0} ELSE at)
  /\ \A i \in DOMAIN todo : todo[i] \subseteq ApplyFiles
  /\ pc = "run" => DOMAIN todo # {} /\ (at # {} => env = cfg.ws[Current].name)
  /\ \A w \in writes :
       /\ cmd.real /\ w.file \in ApplyFiles
       /\ IF w.file.kind = "defender" THEN w.to = cfg.defender
          ELSE \E i \in at : w.to = cfg.ws[i] /\ Managed(cfg, w.file.kind, cfg.ws[i].name, None)

\* The commands that know one workspace enter it, pass their gate there, and have
\* a single pass, from which every write comes.
Started ==
  /\ Single(cfg).ok
  /\ Single(cfg).at # {} => env = First(cfg, Single(cfg).at).name

Gated ==
  /\ cmd.verb = "rollback" /\ cmd.real => WriteAllowed(cfg, RollbackTarget(cfg, env))
  /\ cmd.verb = "prune" =>
       \A g \in Safeguards(cfg, env) : /\ cmd.real => g.purge
                                       /\ ~(Cardinality(Orphans(cfg, env)) > g.max)

Work == CASE cmd.verb = "rollback" -> RollbackFiles
          [] cmd.verb = "prune" -> Orphans(cfg, env)
          [] OTHER -> Playbooks

OnePass ==
  /\ \A i, j \in DOMAIN todo : i = j
  /\ \A i \in DOMAIN todo : i \in Nat /\ todo[i] \subseteq Work
  /\ pc = "run" => DOMAIN todo # {}
  /\ \A w \in writes :
       /\ cmd.real /\ w.file \in Work /\ Registered(cfg, w.file.kind)
       /\ w.to = Target(w.file) /\ w.to # None
       /\ w = [to |-> w.to, file |-> w.file]

OneInv == cmd.verb \in {"rollback", "prune", "adopt"} /\ Started /\ Gated /\ OnePass

ScopeInv ==
  /\ cfg \in Configs
  /\ pc \in {"start", "run", "done", "refused", "skipped"}
  /\ pc \notin {"run", "done"} => writes = {}
  /\ Matched /\ pc \in {"run", "done"} => IF cmd.verb = "apply" THEN ApplyInv ELSE OneInv

-----------------------------------------------------------------------------
LEMMA LeastOf ==
    ASSUME NEW T \in SUBSET Nat, T # {}
    PROVE  Min(T) \in T /\ \A n \in T : Min(T) <= n
<1>1. PICK m \in T : \A n \in T : ~(<<n, m>> \in OpToRel(<, Nat))
  <2>1. IsWellFoundedOn(OpToRel(<, Nat), Nat)
    BY NatLessThanWellFounded
  <2> QED BY <2>1, WFMin
<1>2. \A n \in T : ~(n < m)
  BY <1>1 DEF OpToRel
<1>3. \A n \in T : m <= n
  BY <1>2
<1> QED BY <1>3 DEF Min

\* A loaded tenant.yml: positions are numbers, names tell workspaces apart.
LEMMA Loads ==
    ASSUME NEW c \in Tenant
    PROVE  /\ Len(c.ws) \in Nat /\ DOMAIN c.ws = 1..Len(c.ws) /\ DOMAIN c.ws \in SUBSET (Nat \ {0})
           /\ c.ws = <<>> <=> DOMAIN c.ws = {}
           /\ \A i, j \in DOMAIN c.ws : c.ws[i].name = c.ws[j].name => i = j
           /\ \A i \in DOMAIN c.ws : /\ c.ws[i].name # None /\ c.ws[i] # None
                                     /\ c.ws[i].role # "defender" /\ c.ws[i].max \in Nat
           /\ c.defender # None => c.defender.role = "defender" /\ c.defender.max \in Nat
<1>1. /\ c.ws \in Seq({c.ws[i] : i \in DOMAIN c.ws})
      /\ \A i, j \in DOMAIN c.ws : c.ws[i].name = c.ws[j].name => i = j
      /\ \A i \in DOMAIN c.ws : /\ c.ws[i].name # None /\ c.ws[i] # None
                                /\ c.ws[i].role # "defender" /\ c.ws[i].max \in Nat
      /\ c.defender # None => c.defender.role = "defender" /\ c.defender.max \in Nat
  BY ConfigAssumption DEF Tenant
<1>2. \A S : \A s \in Seq(S) : /\ Len(s) \in Nat /\ DOMAIN s = 1..Len(s)
                               /\ s = <<>> <=> Len(s) = 0
  OBVIOUS
<1>3. /\ Len(c.ws) \in Nat /\ DOMAIN c.ws = 1..Len(c.ws)
      /\ c.ws = <<>> <=> Len(c.ws) = 0
  BY <1>1, <1>2
<1>4. Len(c.ws) = 0 <=> 1..Len(c.ws) = {}
  <2> DEFINE n == Len(c.ws)
  <2> HIDE DEF n
  <2>1. n \in Nat => (n = 0 <=> 1..n = {})
    <3>1. n \in Nat /\ n # 0 => 1 \in 1..n
      OBVIOUS
    <3>2. n = 0 => 1..n = {}
      OBVIOUS
    <3> QED BY <3>1, <3>2
  <2> QED BY <1>3, <2>1 DEF n
<1>5. DOMAIN c.ws \in SUBSET (Nat \ {0})
  BY <1>3
<1> QED BY <1>1, <1>3, <1>4, <1>5

LEMMA KindsFinite == IsFiniteSet(Kinds)
<1>1. Kinds = ({"analytic"} \cup {"playbook"}) \cup {"defender"}
  BY DEF Kinds
<1>2. IsFiniteSet({"analytic"}) /\ IsFiniteSet({"playbook"}) /\ IsFiniteSet({"defender"})
  BY FS_Singleton
<1> QED BY <1>1, <1>2, FS_Union

LEMMA PositionsFinite ==
    ASSUME NEW c \in Tenant, NEW at, at \subseteq DOMAIN c.ws
    PROVE  at \in SUBSET Nat /\ IsFiniteSet(at)
<1>1. IsFiniteSet(1..Len(c.ws))
  <2>1. Len(c.ws) \in Int
    BY Loads
  <2> QED BY <2>1, FS_Interval
<1> QED BY <1>1, Loads, FS_Subset

LEMMA FirstOf ==
    ASSUME NEW c \in Tenant, NEW at \in SUBSET (DOMAIN c.ws), at # {}
    PROVE  Min(at) \in at /\ First(c, at) = c.ws[Min(at)]
<1>1. at \in SUBSET Nat
  BY Loads
<1> QED BY <1>1, LeastOf DEF First

LEMMA FirstOfOne ==
    ASSUME NEW c \in Tenant, NEW i \in DOMAIN c.ws
    PROVE  First(c, {i}) = c.ws[i] /\ Named(c, c.ws[i].name) = {i}
<1>1. First(c, {i}) = c.ws[i]
  <2>1. {i} \in SUBSET (DOMAIN c.ws) /\ {i} # {}
    OBVIOUS
  <2> QED BY <2>1, FirstOf
<1>2. Named(c, c.ws[i].name) = {i}
  BY Loads DEF Named
<1> QED BY <1>1, <1>2

\* What a handler resolves from the environment is one of the tenant's workspaces.
LEMMA ActiveByName ==
    ASSUME NEW c \in Tenant, NEW i \in DOMAIN c.ws
    PROVE  Active(c, c.ws[i].name) = c.ws[i]
<1> DEFINE e == c.ws[i].name
<1>1. c # NoConfig /\ e # None /\ Named(c, e) = {i} /\ First(c, {i}) = c.ws[i]
  BY Loads, FirstOfOne DEF Tenant
<1>2. Named(c, e) # {}
  BY <1>1
<1> HIDE DEF e
<1>3. Active(c, e) = First(c, Named(c, e))
  BY <1>1, <1>2 DEF Active
<1> QED BY <1>1, <1>3 DEF e

LEMMA ActiveIs ==
    ASSUME NEW c \in Tenant, NEW e, Active(c, e) # None
    PROVE  \E i \in DOMAIN c.ws : /\ Active(c, e) = c.ws[i]
                                  /\ IF e # None THEN Named(c, e) = {i} ELSE DOMAIN c.ws = {i}
<1>0. c # NoConfig
  BY DEF Tenant
<1>1. CASE e # None
  <2>1. Named(c, e) # {} /\ Active(c, e) = First(c, Named(c, e))
    BY <1>0, <1>1 DEF Active
  <2>2. PICK i \in Named(c, e) : TRUE
    BY <2>1
  <2>3. i \in DOMAIN c.ws /\ c.ws[i].name = e
    BY <2>2 DEF Named
  <2>4. Named(c, e) = {i} /\ First(c, {i}) = c.ws[i]
    BY <2>3, FirstOfOne
  <2> QED BY <1>1, <2>1, <2>3, <2>4
<1>2. CASE e = None
  <2>1. Len(c.ws) = 1 /\ Active(c, e) = c.ws[1]
    BY <1>0, <1>2 DEF Active
  <2>2. DOMAIN c.ws = {1}
    BY <2>1, Loads
  <2> QED BY <1>2, <2>1, <2>2
<1> QED BY <1>1, <1>2

\* What a successful selection selects.
LEMMA Selected ==
    ASSUME cfg \in Tenant, Select(cfg).ok
    PROVE  LET at == Select(cfg).at
           IN  /\ at \in SUBSET (DOMAIN cfg.ws)
               /\ \A i \in at : /\ cmd.workspace # None => cfg.ws[i].name = cmd.workspace
                                /\ cmd.role # None => cfg.ws[i].role = cmd.role
               /\ \A i, j \in at : cfg.ws[i].role = cfg.ws[j].role
               /\ Matched /\ at = {} => ~Explicit /\ cfg.ws = <<>>
               /\ cmd.workspace # None => at = Named(cfg, cmd.workspace)
               /\ ~Explicit => at = DOMAIN cfg.ws /\ Len(cfg.ws) <= 1
<1>0. cfg # NoConfig
  BY DEF Tenant
<1>1. CASE cmd.workspace # None
  <2>1. Select(cfg).at = Named(cfg, cmd.workspace) /\ cmd.role = None /\ Named(cfg, cmd.workspace) # {}
    BY <1>0, <1>1 DEF Select
  <2>2. \A i \in Named(cfg, cmd.workspace) : i \in DOMAIN cfg.ws /\ cfg.ws[i].name = cmd.workspace
    BY DEF Named
  <2>3. \A i, j \in Named(cfg, cmd.workspace) : i = j
    BY <2>2, Loads
  <2> QED BY <1>1, <2>1, <2>2, <2>3 DEF Explicit
<1>2. CASE cmd.workspace = None /\ cmd.role # None
  <2>1. Select(cfg).at = WithRole(cfg, cmd.role)
    BY <1>0, <1>2 DEF Select
  <2> QED BY <1>2, <2>1 DEF WithRole, Explicit, Matched
<1>3. CASE ~Explicit
  <2>1. Select(cfg).at = DOMAIN cfg.ws /\ Len(cfg.ws) <= 1
    BY <1>0, <1>3 DEF Select, Explicit
  <2>2. \A i, j \in DOMAIN cfg.ws : i = j
    BY <2>1, Loads
  <2> QED BY <1>3, <2>1, <2>2, Loads DEF Explicit
<1> QED BY <1>1, <1>2, <1>3 DEF Explicit

\* What a command that knows one workspace is about, when it was told which.
LEMMA Told ==
    ASSUME cfg \in Tenant, Single(cfg).ok, Explicit, cfg.ws # <<>>
    PROVE  /\ Select(cfg).ok
           /\ \E i \in DOMAIN cfg.ws : Single(cfg).at = {i} /\ Select(cfg).at = {i}
<1> DEFINE one == Select(cfg).ok /\ Cardinality(Select(cfg).at) = 1
<1>1. Single(cfg) = [ok |-> one, at |-> Select(cfg).at]
  BY DEF Single, Tenant
<1>2. one /\ Single(cfg).at = Select(cfg).at
  <2> HIDE DEF one
  <2>1. Single(cfg).ok = one /\ Single(cfg).at = Select(cfg).at
    BY <1>1
  <2> QED BY <2>1
<1>3. Select(cfg).at \in SUBSET (DOMAIN cfg.ws)
  BY <1>2, Selected
<1>4. IsFiniteSet(Select(cfg).at)
  BY <1>3, PositionsFinite
<1>5. PICK i : Select(cfg).at = {i}
  BY <1>2, <1>4, FS_Singleton
<1> QED BY <1>2, <1>3, <1>5

-----------------------------------------------------------------------------
\* What stays when tenant.yml and the command line stay, and when the environment does.
LEMMA SameLine ==
    ASSUME UNCHANGED <<cfg, cmd>>
    PROVE  /\ Select(cfg)' = Select(cfg) /\ Single(cfg)' = Single(cfg)
           /\ Matched' <=> Matched
           /\ ApplyFiles' = ApplyFiles
           /\ \A at : WriteAllowed(cfg, at)' <=> WriteAllowed(cfg, at)
<1>1. Select(cfg)' = Select(cfg) /\ (Explicit' <=> Explicit) /\ (Matched' <=> Matched)
  BY DEF Select, Explicit, Matched
<1>2. Single(cfg)' = Single(cfg)
  BY <1>1 DEF Single
<1>3. Loaded(cfg)' = Loaded(cfg)
  BY DEF Loaded
<1>4. ApplyFiles' = ApplyFiles
  BY <1>1, <1>3 DEF ApplyFiles
<1>5. \A at : WriteAllowed(cfg, at)' <=> WriteAllowed(cfg, at)
  BY DEF WriteAllowed
<1> QED BY <1>1, <1>2, <1>4, <1>5

LEMMA SameEnv ==
    ASSUME UNCHANGED <<cfg, cmd, env>>
    PROVE  /\ Work' = Work
           /\ Started' <=> Started
           /\ Gated' <=> Gated
           /\ \A f : Target(f)' = Target(f)
<1>1. Orphans(cfg, env)' = Orphans(cfg, env)
  BY DEF Orphans, Listed
<1>2. Safeguards(cfg, env)' = Safeguards(cfg, env)
  BY DEF Safeguards
<1>3. Loaded(cfg)' = Loaded(cfg)
  BY DEF Loaded
<1>4. RollbackFiles' = RollbackFiles
  BY <1>3 DEF RollbackFiles
<1>5. Work' = Work
  BY <1>1, <1>4 DEF Work, Playbooks
<1>6. Started' <=> Started
  BY SameLine DEF Started
<1>7. WriteAllowed(cfg, RollbackTarget(cfg, env))' <=> WriteAllowed(cfg, RollbackTarget(cfg, env))
  BY DEF WriteAllowed
<1>8. Gated' <=> Gated
  BY <1>1, <1>2, <1>7 DEF Gated
<1>9. \A f : Target(f)' = Target(f)
  BY DEF Target
<1> QED BY <1>5, <1>6, <1>8, <1>9

LEMMA ScopeInit == Init => ScopeInv
BY DEF Init, ScopeInv

\* A command that ends before it writes.
LEMMA EndKeeps ==
    ASSUME ScopeInv, pc = "start", NEW how \in {"refused", "skipped"}, End(how)
    PROVE  ScopeInv'
BY DEF ScopeInv, End

\* The passes that an action leaves.
LEMMA ApplyKeeps == ScopeInv /\ Apply => ScopeInv'
<1> DEFINE at == Select(cfg).at
<1> DEFINE e == IF at = {} THEN env ELSE First(cfg, at).name
<1>1. SUFFICES ASSUME ScopeInv, Apply, Go(Passes(at, ApplyFiles), e),
                      Select(cfg).ok, ~(cmd.real /\ ~WriteAllowed(cfg, at))
               PROVE  ScopeInv'
  <2>1. SUFFICES ASSUME ScopeInv, Apply PROVE ScopeInv'
    OBVIOUS
  <2>2. \/ End("refused") \/ End("skipped")
        \/ /\ Go(Passes(at, ApplyFiles), e)
           /\ Select(cfg).ok /\ ~(cmd.real /\ ~WriteAllowed(cfg, at))
    BY <2>1 DEF Apply, ApplyFiles
  <2>3. pc = "start"
    BY <2>1 DEF Apply
  <2> QED BY <1>1, <2>1, <2>2, <2>3, EndKeeps
<1>2. /\ pc = "start" /\ cmd.verb = "apply" /\ writes = {} /\ cfg \in Configs
      /\ pc' = "run" /\ todo' = Passes(at, ApplyFiles) /\ env' = e /\ UNCHANGED <<cfg, cmd, writes>>
  BY <1>1 DEF Apply, Go, ScopeInv
<1>3. SUFFICES ASSUME Matched PROVE ApplyInv'
  BY <1>2, SameLine DEF ScopeInv
<1>4. cfg \in Tenant /\ at \in SUBSET (DOMAIN cfg.ws)
  BY <1>1, <1>2, <1>3, Selected DEF Matched, Tenant
<1>5. /\ DOMAIN todo' = (IF at = {} THEN {0} ELSE at)
      /\ \A i \in DOMAIN todo' : todo'[i] \subseteq ApplyFiles
  BY <1>2 DEF Passes
<1>6. at # {} => env' = cfg'.ws[Current'].name
  <2>1. SUFFICES ASSUME at # {} PROVE env' = cfg.ws[Current'].name
    BY <1>2
  <2>2. First(cfg, at) = cfg.ws[Min(at)]
    BY <1>4, <2>1, FirstOf
  <2>3. Current' = Min(at)
    BY <1>5, <2>1 DEF Current
  <2> QED BY <1>2, <2>1, <2>2, <2>3
<1>7. Select(cfg)' = Select(cfg) /\ ApplyFiles' = ApplyFiles /\ (WriteAllowed(cfg, at)' <=> WriteAllowed(cfg, at))
  BY <1>2, SameLine
<1> QED BY <1>1, <1>2, <1>5, <1>6, <1>7 DEF ApplyInv

\* The commands with a single pass.
LEMMA OneKeeps ==
    ASSUME ScopeInv, pc = "start", cmd.verb \in {"rollback", "prune", "adopt"}, Single(cfg).ok,
           NEW i \in Nat, NEW fs, Go([k \in {i} |-> fs], Entered(cfg)),
           (Gated /\ fs = Work)'
    PROVE  ScopeInv'
<1>1. /\ writes = {} /\ cfg \in Configs /\ pc' = "run" /\ todo' = [k \in {i} |-> fs]
      /\ env' = Entered(cfg) /\ UNCHANGED <<cfg, cmd, writes>>
  BY DEF ScopeInv, Go
<1>2. Single(cfg)' = Single(cfg)
  BY <1>1, SameLine
<1>3. Started'
  BY <1>1, <1>2 DEF Started, Entered
<1>4. OnePass'
  BY <1>1 DEF OnePass
<1> QED BY <1>1, <1>3, <1>4 DEF ScopeInv, OneInv

LEMMA RollbackKeeps == ScopeInv /\ Rollback => ScopeInv'
<1> DEFINE e == Entered(cfg)
<1> DEFINE at == RollbackTarget(cfg, e)
<1> DEFINE fs == Unlocked(EnvStatus(cfg, at, Loaded(cfg)))
<1>1. SUFFICES ASSUME ScopeInv, Rollback, Single(cfg).ok, ~(cmd.real /\ ~WriteAllowed(cfg, at)),
                      Go([i \in (IF Cardinality(at) = 1 THEN at ELSE {0}) |-> fs], e)
               PROVE  ScopeInv'
  <2>1. SUFFICES ASSUME ScopeInv, Rollback PROVE ScopeInv'
    OBVIOUS
  <2>2. \/ End("refused") \/ End("skipped")
        \/ /\ Go([i \in (IF Cardinality(at) = 1 THEN at ELSE {0}) |-> fs], e)
           /\ Single(cfg).ok /\ ~(cmd.real /\ ~WriteAllowed(cfg, at))
    BY <2>1 DEF Rollback
  <2>3. pc = "start"
    BY <2>1 DEF Rollback
  <2> QED BY <1>1, <2>1, <2>2, <2>3, EndKeeps
<1>2. pc = "start" /\ cmd.verb = "rollback"
  BY <1>1 DEF Rollback
<1>3. env' = e /\ UNCHANGED <<cfg, cmd>>
  BY <1>1 DEF Go
<1>4. RollbackTarget(cfg, env)' = at
  BY <1>3
<1>5. Loaded(cfg)' = Loaded(cfg)
  BY <1>3 DEF Loaded
<1>6. Work' = fs
  BY <1>2, <1>3, <1>4, <1>5 DEF Work, RollbackFiles
<1>7. Gated'
  BY <1>1, <1>2, <1>3, <1>4, SameLine DEF Gated
<1>8. \E i \in Nat : (IF Cardinality(at) = 1 THEN at ELSE {0}) = {i}
  <2>1. CASE cfg = NoConfig
    <3>1. at = {}
      BY <2>1 DEF RollbackTarget
    <3>2. Cardinality(at) = 0
      BY <3>1, FS_EmptySet
    <3> QED BY <3>2
  <2>2. CASE cfg # NoConfig
    <3>1. cfg \in Tenant
      BY <1>1, <2>2 DEF ScopeInv, Tenant
    <3>2. at \subseteq DOMAIN cfg.ws
      BY <2>2 DEF RollbackTarget, Named
    <3>3. at \in SUBSET Nat /\ IsFiniteSet(at)
      BY <3>1, <3>2, PositionsFinite
    <3> QED BY <3>3, FS_Singleton
  <2> QED BY <2>1, <2>2
<1> QED BY <1>1, <1>2, <1>6, <1>7, <1>8, OneKeeps

LEMMA PruneKeeps == ScopeInv /\ Prune => ScopeInv'
<1> DEFINE e == Entered(cfg)
<1>1. SUFFICES ASSUME ScopeInv, Prune, Single(cfg).ok,
                      ~(cmd.real /\ \E g \in Safeguards(cfg, e) : ~g.purge),
                      ~(\E g \in Safeguards(cfg, e) : Cardinality(Orphans(cfg, e)) > g.max),
                      Go([i \in {0} |-> Orphans(cfg, e)], e)
               PROVE  ScopeInv'
  <2>1. SUFFICES ASSUME ScopeInv, Prune PROVE ScopeInv'
    OBVIOUS
  <2>2. \/ End("refused") \/ End("skipped")
        \/ /\ Go([i \in {0} |-> Orphans(cfg, e)], e)
           /\ Single(cfg).ok
           /\ ~(cmd.real /\ \E g \in Safeguards(cfg, e) : ~g.purge)
           /\ ~(\E g \in Safeguards(cfg, e) : Cardinality(Orphans(cfg, e)) > g.max)
    BY <2>1 DEF Prune
  <2>3. pc = "start"
    BY <2>1 DEF Prune
  <2> QED BY <1>1, <2>1, <2>2, <2>3, EndKeeps
<1>2. pc = "start" /\ cmd.verb = "prune"
  BY <1>1 DEF Prune
<1>3. env' = e /\ UNCHANGED <<cfg, cmd>>
  BY <1>1 DEF Go
<1>4. Orphans(cfg, env)' = Orphans(cfg, e) /\ Safeguards(cfg, env)' = Safeguards(cfg, e)
  BY <1>3 DEF Orphans, Listed, Safeguards
<1>5. Work' = Orphans(cfg, e)
  BY <1>2, <1>3, <1>4 DEF Work
<1>6. Gated'
  BY <1>1, <1>2, <1>3, <1>4 DEF Gated
<1> QED BY <1>1, <1>2, <1>5, <1>6, OneKeeps

LEMMA AdoptKeeps == ScopeInv /\ Adopt => ScopeInv'
<1>1. SUFFICES ASSUME ScopeInv, Adopt, Single(cfg).ok, Go([i \in {0} |-> Playbooks], Entered(cfg))
               PROVE  ScopeInv'
  <2>1. SUFFICES ASSUME ScopeInv, Adopt PROVE ScopeInv'
    OBVIOUS
  <2>2. \/ End("refused") \/ End("skipped")
        \/ Go([i \in {0} |-> Playbooks], Entered(cfg)) /\ Single(cfg).ok
    BY <2>1 DEF Adopt, Playbooks
  <2>3. pc = "start"
    BY <2>1 DEF Adopt
  <2> QED BY <1>1, <2>1, <2>2, <2>3, EndKeeps
<1>2. pc = "start" /\ cmd.verb = "adopt" /\ UNCHANGED cmd
  BY <1>1 DEF Adopt, Go
<1>3. (Gated /\ Playbooks = Work)'
  BY <1>2 DEF Gated, Work, Playbooks
<1> QED BY <1>1, <1>2, <1>3, OneKeeps

\* The pass in progress is one of those that are left.
LEMMA CurrentIs ==
    ASSUME DOMAIN todo \in SUBSET Nat, DOMAIN todo # {}
    PROVE  Current \in DOMAIN todo
BY LeastOf DEF Current

LEMMA PassesLeft ==
    ASSUME cfg \in Tenant, ApplyInv
    PROVE  DOMAIN todo \in SUBSET Nat /\ Select(cfg).at \in SUBSET (DOMAIN cfg.ws)
BY Selected, Loads DEF ApplyInv

\* With a name, the environment does not decide what is managed.
LEMMA ManagedByName ==
    ASSUME NEW c, NEW kind, NEW name, name # None, NEW e
    PROVE  Managed(c, kind, name, e) <=> Managed(c, kind, name, None)
BY DEF Managed

\* What apply writes in a pass.
LEMMA ApplyWrites ==
    ASSUME cfg \in Tenant, Matched, ApplyInv, cmd.verb = "apply", pc = "run",
           NEW f \in todo[Current], Writes(Current, f)
    PROVE  /\ cmd.real /\ f \in ApplyFiles
           /\ IF f.kind = "defender" THEN Target(f) = cfg.defender
              ELSE \E i \in Select(cfg).at :
                      Target(f) = cfg.ws[i] /\ Managed(cfg, f.kind, cfg.ws[i].name, None)
<1> DEFINE at == Select(cfg).at
<1>1. /\ cmd.real /\ Registered(cfg, f.kind)
      /\ Managed(cfg, f.kind, PassName(Current), env) /\ Target(f) # None
  BY DEF Writes
<1>2. Current \in DOMAIN todo /\ at \in SUBSET (DOMAIN cfg.ws)
  BY PassesLeft, CurrentIs DEF ApplyInv
<1>3. f \in ApplyFiles
  BY <1>2 DEF ApplyInv
<1>4. CASE f.kind = "defender"
  BY <1>1, <1>3, <1>4 DEF Target, Tenant
<1>5. CASE f.kind # "defender"
  <2>1. cfg.ws # <<>>
    BY <1>1, <1>5 DEF Registered, SentinelOn, Tenant
  <2>2. at # {}
    BY <2>1, Selected DEF ApplyInv
  <2>3. Current \in at /\ env = cfg.ws[Current].name
    BY <1>2, <2>2 DEF ApplyInv
  <2>4. Current \in DOMAIN cfg.ws
    BY <1>2, <2>3
  <2>5. Current # 0 /\ cfg.ws[Current].name # None
    BY <2>4, Loads
  <2>6. Target(f) = cfg.ws[Current]
    BY <1>5, <2>3, <2>4, ActiveByName DEF Target
  <2>7. PassName(Current) = cfg.ws[Current].name
    BY <2>5 DEF PassName
  <2>8. Managed(cfg, f.kind, cfg.ws[Current].name, None)
    BY <1>1, <2>5, <2>7, ManagedByName
  <2> QED BY <1>1, <1>3, <1>5, <2>3, <2>6, <2>8
<1> QED BY <1>4, <1>5

LEMMA ProcessKeeps == ScopeInv /\ Process => ScopeInv'
<1>1. SUFFICES ASSUME ScopeInv, Process, Matched
               PROVE  (IF cmd.verb = "apply" THEN ApplyInv ELSE OneInv)'
  BY SameLine DEF ScopeInv, Process
<1>2. pc = "run" /\ UNCHANGED <<cfg, cmd, env, pc>>
  BY <1>1 DEF Process
<1>3. PICK f \in todo[Current] :
        /\ todo' = [todo EXCEPT ![Current] = @ \ {f}]
        /\ \/ Writes(Current, f) /\ writes' = writes \cup {[to |-> Target(f), file |-> f]}
           \/ writes' = writes
  BY <1>1 DEF Process
<1>4. cfg \in Tenant
  BY <1>1 DEF ScopeInv, Matched, Tenant
<1>5. DOMAIN todo' = DOMAIN todo /\ \A i \in DOMAIN todo : todo'[i] \subseteq todo[i]
  BY <1>3
<1>6. Current' = Current
  BY <1>5 DEF Current
<1>7. CASE cmd.verb = "apply"
  <2> DEFINE at == Select(cfg).at
  <2>1. ApplyInv
    BY <1>1, <1>2, <1>7 DEF ScopeInv
  <2>2. /\ Select(cfg)' = Select(cfg) /\ ApplyFiles' = ApplyFiles
        /\ WriteAllowed(cfg, at)' <=> WriteAllowed(cfg, at)
    BY <1>2, SameLine
  <2>3. \A w \in writes' :
          /\ cmd.real /\ w.file \in ApplyFiles
          /\ IF w.file.kind = "defender" THEN w.to = cfg.defender
             ELSE \E i \in at : w.to = cfg.ws[i] /\ Managed(cfg, w.file.kind, cfg.ws[i].name, None)
    <3>1. SUFFICES ASSUME NEW w \in writes', w \notin writes
                   PROVE  /\ cmd.real /\ w.file \in ApplyFiles
                          /\ IF w.file.kind = "defender" THEN w.to = cfg.defender
                             ELSE \E i \in at : w.to = cfg.ws[i] /\ Managed(cfg, w.file.kind, cfg.ws[i].name, None)
      BY <2>1 DEF ApplyInv
    <3>2. Writes(Current, f) /\ w.to = Target(f) /\ w.file = f
      BY <1>3, <3>1
    <3> QED BY <1>1, <1>2, <1>3, <1>4, <1>7, <2>1, <3>2, ApplyWrites
  <2>4. \A i \in DOMAIN todo' : todo'[i] \subseteq ApplyFiles
    BY <1>5, <2>1 DEF ApplyInv
  <2>5. ApplyInv'
    BY <1>2, <1>5, <1>6, <2>1, <2>2, <2>3, <2>4 DEF ApplyInv
  <2> QED BY <1>2, <1>7, <2>5
<1>8. CASE cmd.verb # "apply"
  <2>1. OneInv
    BY <1>1, <1>2, <1>8 DEF ScopeInv
  <2>2. Work' = Work /\ (Started' <=> Started) /\ (Gated' <=> Gated) /\ \A g : Target(g)' = Target(g)
    BY <1>2, SameEnv
  <2>3. Current \in DOMAIN todo
    BY <1>2, <2>1, CurrentIs DEF OneInv, OnePass
  <2>4. \A w \in writes' :
          /\ cmd.real /\ w.file \in Work /\ Registered(cfg, w.file.kind)
          /\ w.to = Target(w.file) /\ w.to # None
          /\ w = [to |-> w.to, file |-> w.file]
    <3>1. SUFFICES ASSUME NEW w \in writes', w \notin writes
                   PROVE  /\ cmd.real /\ w.file \in Work /\ Registered(cfg, w.file.kind)
                          /\ w.to = Target(w.file) /\ w.to # None
                          /\ w = [to |-> w.to, file |-> w.file]
      BY <2>1 DEF OneInv, OnePass
    <3>2. Writes(Current, f) /\ w = [to |-> Target(f), file |-> f]
      BY <1>3, <3>1
    <3>3. f \in Work
      BY <1>3, <2>1, <2>3 DEF OneInv, OnePass
    <3>4. w.to = Target(f) /\ w.file = f
      BY <3>2
    <3> QED BY <3>2, <3>3, <3>4 DEF Writes
  <2>5. OnePass'
    BY <1>2, <1>5, <2>1, <2>2, <2>4 DEF OneInv, OnePass
  <2>6. OneInv'
    BY <1>2, <2>1, <2>2, <2>5 DEF OneInv
  <2> QED BY <1>2, <1>8, <2>6
<1> QED BY <1>7, <1>8

LEMMA NextPassKeeps == ScopeInv /\ NextPass => ScopeInv'
<1> DEFINE left == DOMAIN todo \ {Current}
<1>1. SUFFICES ASSUME ScopeInv, NextPass, Matched
               PROVE  (IF cmd.verb = "apply" THEN ApplyInv ELSE OneInv)'
  BY SameLine DEF ScopeInv, NextPass
<1>2. /\ pc = "run" /\ UNCHANGED <<cfg, cmd, writes>>
      /\ todo' = [i \in left |-> todo[i]]
      /\ pc' = IF left = {} THEN "done" ELSE pc
      /\ env' = IF left = {} THEN env ELSE cfg.ws[Min(left)].name
  BY <1>1 DEF NextPass
<1>3. cfg \in Tenant
  BY <1>1 DEF ScopeInv, Matched, Tenant
<1>4. CASE cmd.verb = "apply"
  <2> DEFINE at == Select(cfg).at
  <2>1. ApplyInv
    BY <1>1, <1>2, <1>4 DEF ScopeInv
  <2>2. /\ Select(cfg)' = Select(cfg) /\ ApplyFiles' = ApplyFiles
        /\ WriteAllowed(cfg, at)' <=> WriteAllowed(cfg, at)
    BY <1>2, SameLine
  <2>3. DOMAIN todo' = left /\ \A i \in DOMAIN todo' : todo'[i] \subseteq ApplyFiles
    BY <1>2, <2>1 DEF ApplyInv
  <2>4. pc' = "run" => DOMAIN todo' # {} /\ env' = cfg.ws[Current'].name
    BY <1>2, <2>3 DEF Current
  <2>5. \A w \in writes' : \A i : Managed(cfg, w.file.kind, cfg.ws[i].name, None)' <=> Managed(cfg, w.file.kind, cfg.ws[i].name, None)
    BY <1>2
  <2>6. ApplyInv'
    BY <1>2, <2>1, <2>2, <2>3, <2>4, <2>5 DEF ApplyInv
  <2> QED BY <1>2, <1>4, <2>6
<1>5. CASE cmd.verb # "apply"
  <2>1. OneInv
    BY <1>1, <1>2, <1>5 DEF ScopeInv
  <2>2. left = {}
    <3>1. Current \in DOMAIN todo
      BY <1>2, <2>1, CurrentIs DEF OneInv, OnePass
    <3> QED BY <2>1, <3>1 DEF OneInv, OnePass
  <2>3. UNCHANGED <<cfg, cmd, env>> /\ pc' = "done" /\ DOMAIN todo' = {}
    BY <1>2, <2>2
  <2>4. Work' = Work /\ (Started' <=> Started) /\ (Gated' <=> Gated) /\ \A g : Target(g)' = Target(g)
    BY <2>3, SameEnv
  <2>5. OnePass'
    BY <1>2, <2>1, <2>3, <2>4 DEF OneInv, OnePass
  <2>6. OneInv'
    BY <1>2, <2>1, <2>4, <2>5 DEF OneInv
  <2> QED BY <1>2, <1>5, <2>6
<1> QED BY <1>4, <1>5

LEMMA StutterKeeps == ScopeInv /\ UNCHANGED vars => ScopeInv'
<1>1. SUFFICES ASSUME ScopeInv, UNCHANGED vars PROVE ScopeInv'
  OBVIOUS
<1>2. UNCHANGED <<cfg, cmd, env>> /\ UNCHANGED <<pc, todo, writes>>
  BY <1>1 DEF vars
<1>3. ApplyInv' <=> ApplyInv
  BY <1>2, SameLine DEF ApplyInv, Current
<1>4. OneInv' <=> OneInv
  BY <1>2, SameEnv DEF OneInv, OnePass
<1> QED BY <1>1, <1>2, <1>3, <1>4, SameLine DEF ScopeInv

\* Every command keeps to the workspaces and the gates it started with.
THEOREM ScopeInvariant == Spec => []ScopeInv
<1>1. ScopeInv /\ [Next]_vars => ScopeInv'
  BY ApplyKeeps, RollbackKeeps, PruneKeeps, AdoptKeeps, ProcessKeeps, NextPassKeeps, StutterKeeps
  DEF Next
<1> QED BY <1>1, ScopeInit, PTL DEF Spec

-----------------------------------------------------------------------------
\* What the filters leave.
LEMMA EnvStatusLeaves ==
    ASSUME NEW c \in Tenant, NEW at, NEW fs, NEW f \in Unlocked(EnvStatus(c, at, fs))
    PROVE  /\ f \in fs /\ ~f.locked
           /\ f.status \in Allowed(IF at # {} THEN First(c, at).role ELSE c.name)
           /\ f.kind = "defender" => at = {} \/ First(c, at).role = "prod"
BY DEF EnvStatus, Unlocked, Tenant

LEMMA LoadedIs ==
    ASSUME NEW f \in Loaded(cfg)
    PROVE  f \in Files /\ f.kind \in Kinds /\ cmd.asset \in {None, f.kind} /\ Registered(cfg, f.kind)
BY FilesAssumption DEF Loaded

\* A kind that is registered has a target in the tenant.
LEMMA RegisteredIs ==
    ASSUME NEW c \in Tenant, NEW kind, Registered(c, kind)
    PROVE  IF kind = "defender" THEN c.defender # None /\ c.defender.role = "defender" ELSE c.ws # <<>>
BY Loads DEF Registered, DefenderOn, SentinelOn, Tenant

\* Content in test is not let through to production.
LEMMA TestIsNotProd ==
    ASSUME NEW key, "test" \in Allowed(key)
    PROVE  key # "prod"
BY DEF Allowed

\* A single pass without a workspace of its own is about the workspace that the
\* handlers resolve.
LEMMA OneDefender ==
    ASSUME cfg \in Tenant, OneInv, NEW w \in writes, w.file.kind = "defender"
    PROVE  w.to = cfg.defender /\ cfg.defender # None
BY DEF OneInv, OnePass, Target, Tenant

LEMMA OneTarget ==
    ASSUME cfg \in Tenant, OneInv, NEW w \in writes, w.file.kind # "defender"
    PROVE  \E i \in DOMAIN cfg.ws :
              w.to = cfg.ws[i] /\ Active(cfg, env) = cfg.ws[i] /\ RollbackTarget(cfg, env) = {i}
<1>1. /\ Registered(cfg, w.file.kind) /\ w.to = Target(w.file) /\ w.to # None
  BY DEF OneInv, OnePass
<1>2. w.to = Active(cfg, env)
  BY <1>1 DEF Target
<1>3. PICK i \in DOMAIN cfg.ws : /\ Active(cfg, env) = cfg.ws[i]
                                 /\ IF env # None THEN Named(cfg, env) = {i} ELSE DOMAIN cfg.ws = {i}
  BY <1>1, <1>2, ActiveIs
<1>4. RollbackTarget(cfg, env) = {i}
  BY <1>3 DEF RollbackTarget, Tenant
<1> QED BY <1>2, <1>3, <1>4

\* What a rollback is about, when it was told which workspace.
LEMMA OneTold ==
    ASSUME cfg \in Tenant, OneInv, Explicit, cfg.ws # <<>>
    PROVE  \E i \in DOMAIN cfg.ws :
              /\ Select(cfg).ok /\ Select(cfg).at = {i} /\ First(cfg, {i}) = cfg.ws[i]
              /\ Active(cfg, env) = cfg.ws[i] /\ RollbackTarget(cfg, env) = {i}
<1>1. Single(cfg).ok /\ (Single(cfg).at # {} => env = First(cfg, Single(cfg).at).name)
  BY DEF OneInv, Started
<1>2. PICK i \in DOMAIN cfg.ws : Single(cfg).at = {i} /\ Select(cfg).at = {i} /\ Select(cfg).ok
  BY <1>1, Told
<1>3. First(cfg, {i}) = cfg.ws[i] /\ Named(cfg, cfg.ws[i].name) = {i}
  BY FirstOfOne
<1>4. env = cfg.ws[i].name
  BY <1>1, <1>2, <1>3
<1>5. Active(cfg, env) = cfg.ws[i]
  BY <1>4, ActiveByName
<1>6. env # None
  BY <1>4, Loads
<1>7. RollbackTarget(cfg, env) = {i}
  BY <1>3, <1>4, <1>6 DEF RollbackTarget, Tenant
<1> QED BY <1>2, <1>3, <1>5, <1>7

\* Where apply writes, from its invariant.
LEMMA ApplyTarget ==
    ASSUME cfg \in Tenant, ApplyInv, NEW w \in writes
    PROVE  /\ cmd.real /\ w.file \in ApplyFiles /\ w.file \in Loaded(cfg)
           /\ Registered(cfg, w.file.kind)
           /\ IF w.file.kind = "defender" THEN w.to = cfg.defender /\ cfg.defender # None
              ELSE \E i \in Select(cfg).at : w.to = cfg.ws[i] /\ Managed(cfg, w.file.kind, cfg.ws[i].name, None)
<1>1. cmd.real /\ w.file \in ApplyFiles
  BY DEF ApplyInv
<1>2. w.file \in Loaded(cfg)
  BY <1>1, EnvStatusLeaves DEF ApplyFiles
<1>3. Registered(cfg, w.file.kind)
  BY <1>2, LoadedIs
<1>4. w.file.kind = "defender" => cfg.defender # None
  BY <1>3, RegisteredIs
<1> QED BY <1>1, <1>2, <1>3, <1>4 DEF ApplyInv

-----------------------------------------------------------------------------
\* The gates of apply and rollback.
LEMMA WriteGate ==
    ASSUME cfg \in Tenant, NEW at, WriteAllowed(cfg, at), NEW f \in Loaded(cfg), NEW to,
           IF f.kind = "defender" THEN to = cfg.defender /\ cfg.defender # None
           ELSE \E i \in at : to = cfg.ws[i]
    PROVE  to.write
<1>1. /\ \A i \in at : cfg.ws[i].write
      /\ cmd.asset \in {None, "defender"} /\ cfg.defender # None => cfg.defender.write
  BY DEF WriteAllowed, Tenant
<1>2. cmd.asset \in {None, f.kind}
  BY LoadedIs
<1> QED BY <1>1, <1>2

\* prune: the safeguards are those of the target of every orphan.
LEMMA PruneGate ==
    ASSUME cfg \in Tenant, OneInv, cmd.verb = "prune", NEW w \in writes
    PROVE  w.to \in Safeguards(cfg, env) /\ w.to.max \in Nat
<1>1. w.file \in Orphans(cfg, env)
  BY DEF OneInv, OnePass, Work
<1>2. w.file.kind \in Kinds /\ cmd.asset \in {None, w.file.kind}
  <2>1. PICK k \in Listed(cfg, env) : w.file = [kind |-> k, status |-> "orphan", locked |-> FALSE]
    BY <1>1 DEF Orphans
  <2>2. w.file.kind = k
    BY <2>1
  <2> QED BY <2>2 DEF Listed
<1>3. CASE w.file.kind = "defender"
  <2>1. w.to = cfg.defender /\ cfg.defender # None
    BY <1>3, OneDefender
  <2>2. cfg.defender.max \in Nat
    BY <2>1, Loads
  <2> QED BY <1>2, <1>3, <2>1, <2>2 DEF Safeguards, Tenant
<1>4. CASE w.file.kind # "defender"
  <2>1. PICK i \in DOMAIN cfg.ws : w.to = cfg.ws[i] /\ w.to = Active(cfg, env)
    BY <1>4, OneTarget
  <2>2. w.to # None /\ w.to.max \in Nat
    BY <2>1, Loads
  <2>3. cmd.asset # "defender"
    BY <1>2, <1>4, NoneAssumption DEF Kinds
  <2> QED BY <2>1, <2>2, <2>3 DEF Safeguards, Tenant
<1> QED BY <1>3, <1>4

\* prune: one delete per orphan.
LEMMA PruneCounts ==
    ASSUME OneInv, cmd.verb = "prune"
    PROVE  /\ Cardinality(writes) \in Nat /\ Cardinality(Orphans(cfg, env)) \in Nat
           /\ Cardinality(writes) <= Cardinality(Orphans(cfg, env))
<1> DEFINE O == Orphans(cfg, env)
<1> DEFINE All == {[to |-> Target(o), file |-> o] : o \in O}
<1> DEFINE K == Listed(cfg, env) \ Empty(Listed(cfg, env))
<1>1. IsFiniteSet(K)
  <2>1. IsFiniteSet(Kinds)
    BY KindsFinite
  <2>2. K \in SUBSET Kinds
    BY DEF Listed
  <2> QED BY <2>1, <2>2, FS_Subset
<1>2. IsFiniteSet(O)
  <2> DEFINE g == [k \in K |-> [kind |-> k, status |-> "orphan", locked |-> FALSE]]
  <2>1. O = {[kind |-> k, status |-> "orphan", locked |-> FALSE] : k \in K}
    BY DEF Orphans
  <2> HIDE DEF O, K
  <2>2. g \in Surjection(K, O)
    BY <2>1 DEF Surjection
  <2> QED BY <1>1, <2>2, FS_Surjection
<1>3. IsFiniteSet(All) /\ Cardinality(All) <= Cardinality(O)
  <2> DEFINE h == [o \in O |-> [to |-> Target(o), file |-> o]]
  <2> HIDE DEF O
  <2>1. h \in Surjection(O, All)
    BY DEF Surjection
  <2> HIDE DEF All, h
  <2> QED BY <1>2, <2>1, FS_Surjection
<1>4. writes \in SUBSET All
  BY DEF OneInv, OnePass, Work
<1>5. IsFiniteSet(writes) /\ Cardinality(writes) <= Cardinality(All)
  <2> HIDE DEF All
  <2> QED BY <1>3, <1>4, FS_Subset
<1>6. Cardinality(writes) \in Nat /\ Cardinality(All) \in Nat /\ Cardinality(O) \in Nat
  <2> HIDE DEF All, O
  <2> QED BY <1>2, <1>3, <1>5, FS_CardinalityType
<1> HIDE DEF All, O
<1>7. Cardinality(writes) <= Cardinality(O)
  BY <1>3, <1>5, <1>6
<1> QED BY <1>6, <1>7 DEF O

LEMMA GatesHold == ScopeInv => SafeguardsHold
<1>1. SUFFICES ASSUME ScopeInv, Matched, cmd.verb # "adopt", NEW w \in writes
               PROVE  Allows(w) /\ (cmd.verb = "prune" => Cardinality(writes) <= w.to.max)
  BY DEF SafeguardsHold
<1>2. cfg \in Tenant
  BY <1>1 DEF ScopeInv, Matched, Tenant
<1>3. CASE cmd.verb = "apply"
  <2>1. ApplyInv
    BY <1>1, <1>3 DEF ScopeInv
  <2>2. WriteAllowed(cfg, Select(cfg).at)
    BY <1>2, <2>1, ApplyTarget DEF ApplyInv
  <2>3. w.to.write
    BY <1>2, <2>1, <2>2, ApplyTarget, WriteGate
  <2> QED BY <1>3, <2>3 DEF Allows
<1>4. CASE cmd.verb = "rollback"
  <2>1. OneInv
    BY <1>1, <1>4 DEF ScopeInv
  <2>2. cmd.real /\ w.file \in RollbackFiles
    BY <1>4, <2>1 DEF OneInv, OnePass, Work
  <2>3. w.file \in Loaded(cfg)
    BY <1>2, <2>2, EnvStatusLeaves DEF RollbackFiles
  <2>4. WriteAllowed(cfg, RollbackTarget(cfg, env))
    BY <1>4, <2>1, <2>2 DEF OneInv, Gated
  <2>5. IF w.file.kind = "defender" THEN w.to = cfg.defender /\ cfg.defender # None
        ELSE \E i \in RollbackTarget(cfg, env) : w.to = cfg.ws[i]
    <3>1. CASE w.file.kind = "defender"
      BY <1>2, <2>1, <3>1, OneDefender
    <3>2. CASE w.file.kind # "defender"
      <4>1. PICK i \in DOMAIN cfg.ws : w.to = cfg.ws[i] /\ RollbackTarget(cfg, env) = {i}
        BY <1>2, <2>1, <3>2, OneTarget
      <4> QED BY <3>2, <4>1
    <3> QED BY <3>1, <3>2
  <2>6. w.to.write
    BY <1>2, <2>3, <2>4, <2>5, WriteGate
  <2> QED BY <1>4, <2>6 DEF Allows
<1>5. CASE cmd.verb = "prune"
  <2>1. OneInv
    BY <1>1, <1>5 DEF ScopeInv
  <2>2. w.to \in Safeguards(cfg, env) /\ w.to.max \in Nat
    BY <1>2, <1>5, <2>1, PruneGate
  <2>3. cmd.real
    BY <2>1 DEF OneInv, OnePass
  <2>4. w.to.purge /\ ~(Cardinality(Orphans(cfg, env)) > w.to.max)
    BY <1>5, <2>1, <2>2, <2>3 DEF OneInv, Gated
  <2>5. Cardinality(writes) <= w.to.max
    BY <1>5, <2>1, <2>2, <2>4, PruneCounts
  <2> QED BY <1>5, <2>4, <2>5 DEF Allows
<1>6. cmd.verb \in {"apply", "rollback", "prune"}
  BY <1>1 DEF ScopeInv, OneInv
<1> QED BY <1>3, <1>4, <1>5, <1>6

(* apply, rollback and prune write only where tenant.yml lets them, and prune *)
(* stays below the smallest maxDelete, whatever the tenant and the command    *)
(* (apply_support.py:101, prune.py:163, handler_factories.py:69).             *)
THEOREM SafeguardsAlwaysHold == Spec => []SafeguardsHold
<1> QED BY GatesHold, ScopeInvariant, PTL

-----------------------------------------------------------------------------
LEMMA KeepsToItsLine == ScopeInv => WritesWhereItWasTold
<1>1. SUFFICES ASSUME ScopeInv, Matched, Explicit, NEW w \in writes
               PROVE  IF w.file.kind # "defender"
                      THEN /\ cmd.workspace # None => w.to.name = cmd.workspace
                           /\ cmd.role # None => w.to.role = cmd.role
                      ELSE cmd.verb \in {"apply", "rollback"} /\ cfg.ws # <<>> =>
                             IF cmd.role # None THEN cmd.role = "prod"
                             ELSE First(cfg, Named(cfg, cmd.workspace)).role = "prod"
  BY DEF WritesWhereItWasTold
<1>2. cfg \in Tenant
  BY <1>1 DEF ScopeInv, Matched, Tenant
<1> DEFINE at == Select(cfg).at
<1>3. CASE cmd.verb = "apply"
  <2>1. ApplyInv /\ Select(cfg).ok
    BY <1>1, <1>3 DEF ScopeInv, ApplyInv
  <2>2. at # {} /\ at \in SUBSET (DOMAIN cfg.ws)
    BY <1>1, <1>2, <2>1, Selected
  <2>3. \A i \in at : /\ cmd.workspace # None => cfg.ws[i].name = cmd.workspace
                      /\ cmd.role # None => cfg.ws[i].role = cmd.role
    BY <1>2, <2>1, Selected
  <2>4. CASE w.file.kind # "defender"
    <3>1. PICK i \in at : w.to = cfg.ws[i]
      BY <1>2, <2>1, <2>4, ApplyTarget
    <3>2. /\ cmd.workspace # None => w.to.name = cmd.workspace
          /\ cmd.role # None => w.to.role = cmd.role
      <4> HIDE DEF at
      <4> QED BY <2>3, <3>1
    <3> QED BY <2>4, <3>2
  <2>5. CASE w.file.kind = "defender"
    <3>1. w.file \in ApplyFiles
      BY <1>2, <2>1, ApplyTarget
    <3>2. First(cfg, at).role = "prod"
      BY <1>2, <2>2, <2>5, <3>1, EnvStatusLeaves DEF ApplyFiles
    <3>3. cmd.role # None => First(cfg, at).role = cmd.role
      <4>1. Min(at) \in at /\ First(cfg, at) = cfg.ws[Min(at)]
        BY <1>2, <2>2, FirstOf
      <4> HIDE DEF at
      <4> QED BY <2>3, <4>1
    <3>4. cmd.role = None => at = Named(cfg, cmd.workspace)
      BY <1>1, <1>2, <2>1, Selected DEF Explicit
    <3> QED BY <2>5, <3>2, <3>3, <3>4
  <2> QED BY <2>4, <2>5
<1>4. CASE cmd.verb # "apply"
  <2>1. OneInv
    BY <1>1, <1>4 DEF ScopeInv
  <2>2. CASE cfg.ws = <<>>
    <3>1. w.file.kind = "defender"
      <4>1. SUFFICES ASSUME w.file.kind # "defender" PROVE FALSE
        OBVIOUS
      <4>2. DOMAIN cfg.ws # {}
        BY <1>2, <2>1, <4>1, OneTarget
      <4> QED BY <1>2, <2>2, <4>2, Loads
    <3> QED BY <2>2, <3>1
  <2>3. CASE cfg.ws # <<>>
    <3>1. PICK i \in DOMAIN cfg.ws :
             /\ Select(cfg).ok /\ at = {i} /\ First(cfg, {i}) = cfg.ws[i]
             /\ Active(cfg, env) = cfg.ws[i] /\ RollbackTarget(cfg, env) = {i}
      BY <1>1, <1>2, <2>1, <2>3, OneTold
    <3>2. /\ cmd.workspace # None => cfg.ws[i].name = cmd.workspace /\ Named(cfg, cmd.workspace) = {i}
          /\ cmd.role # None => cfg.ws[i].role = cmd.role
      <4>1. \A k \in at : /\ cmd.workspace # None => cfg.ws[k].name = cmd.workspace
                          /\ cmd.role # None => cfg.ws[k].role = cmd.role
        BY <1>2, <3>1, Selected
      <4>2. cmd.workspace # None => at = Named(cfg, cmd.workspace)
        BY <1>2, <3>1, Selected
      <4>3. i \in at
        BY <3>1
      <4> HIDE DEF at
      <4> QED BY <3>1, <4>1, <4>2, <4>3
    <3>3. CASE w.file.kind # "defender"
      <4>1. w.to = cfg.ws[i]
        BY <1>2, <2>1, <3>1, <3>3, OneTarget
      <4> QED BY <3>2, <3>3, <4>1
    <3>4. CASE w.file.kind = "defender"
      <4>1. SUFFICES ASSUME cmd.verb = "rollback"
                     PROVE  IF cmd.role # None THEN cmd.role = "prod"
                            ELSE First(cfg, Named(cfg, cmd.workspace)).role = "prod"
        BY <1>4, <3>4
      <4>2. w.file \in RollbackFiles
        BY <2>1, <4>1 DEF OneInv, OnePass, Work
      <4>3. First(cfg, {i}).role = "prod"
        BY <1>2, <3>1, <3>4, <4>2, EnvStatusLeaves DEF RollbackFiles
      <4> QED BY <1>1, <3>1, <3>2, <4>3 DEF Explicit
    <3> QED BY <3>3, <3>4
  <2> QED BY <2>2, <2>3
<1> QED BY <1>3, <1>4

LEMMA TestStaysOut == ScopeInv => TestStaysOutOfProduction
<1>1. SUFFICES ASSUME ScopeInv, Matched, cmd.verb \in {"apply", "rollback"}, NEW w \in writes
               PROVE  /\ ~w.file.locked
                      /\ w.file.status = "test" =>
                           /\ w.to.role # "prod"
                           /\ w.to.role = "defender" => cfg.ws = <<>> /\ cfg.name # "prod"
  BY DEF TestStaysOutOfProduction
<1>2. cfg \in Tenant
  BY <1>1 DEF ScopeInv, Matched, Tenant
<1>3. CASE cmd.verb = "apply"
  <2> DEFINE at == Select(cfg).at
  <2>1. ApplyInv /\ Select(cfg).ok
    BY <1>1, <1>3 DEF ScopeInv, ApplyInv
  <2>2. /\ at \in SUBSET (DOMAIN cfg.ws) /\ (at = {} => cfg.ws = <<>>)
        /\ \A i, j \in at : cfg.ws[i].role = cfg.ws[j].role
    BY <1>1, <1>2, <2>1, Selected
  <2>3. w.file \in ApplyFiles
    BY <1>2, <2>1, ApplyTarget
  <2>4. /\ ~w.file.locked
        /\ w.file.status \in Allowed(IF at # {} THEN First(cfg, at).role ELSE cfg.name)
        /\ w.file.kind = "defender" => at = {} \/ First(cfg, at).role = "prod"
    BY <1>2, <2>3, EnvStatusLeaves DEF ApplyFiles
  <2>5. w.file.status = "test" => (IF at # {} THEN First(cfg, at).role ELSE cfg.name) # "prod"
    BY <2>4, TestIsNotProd
  <2>6. CASE w.file.kind # "defender"
    <3>1. PICK i \in at : w.to = cfg.ws[i]
      BY <1>2, <2>1, <2>6, ApplyTarget
    <3>2. w.to.role # "defender"
      BY <1>2, <2>2, <3>1, Loads
    <3>3. First(cfg, at).role = w.to.role
      BY <1>2, <2>2, <3>1, FirstOf
    <3> QED BY <2>4, <2>5, <3>1, <3>2, <3>3
  <2>7. CASE w.file.kind = "defender"
    <3>1. w.to.role = "defender"
      BY <1>2, <2>1, <2>7, ApplyTarget, Loads
    <3> QED BY <2>2, <2>4, <2>5, <2>7, <3>1
  <2> QED BY <2>6, <2>7
<1>4. CASE cmd.verb = "rollback"
  <2> DEFINE at == RollbackTarget(cfg, env)
  <2>1. OneInv
    BY <1>1, <1>4 DEF ScopeInv
  <2>2. at = {} => cfg.ws = <<>>
    <3>1. at = {} => DOMAIN cfg.ws = {}
      BY <1>2 DEF RollbackTarget, Tenant
    <3> QED BY <1>2, <3>1, Loads
  <2>3. w.file \in RollbackFiles
    BY <1>4, <2>1 DEF OneInv, OnePass, Work
  <2>4. /\ ~w.file.locked
        /\ w.file.status \in Allowed(IF at # {} THEN First(cfg, at).role ELSE cfg.name)
        /\ w.file.kind = "defender" => at = {} \/ First(cfg, at).role = "prod"
    BY <1>2, <2>3, EnvStatusLeaves DEF RollbackFiles
  <2>5. w.file.status = "test" => (IF at # {} THEN First(cfg, at).role ELSE cfg.name) # "prod"
    BY <2>4, TestIsNotProd
  <2>6. CASE w.file.kind # "defender"
    <3>1. PICK i \in DOMAIN cfg.ws : w.to = cfg.ws[i] /\ at = {i}
      BY <1>2, <2>1, <2>6, OneTarget
    <3>2. w.to.role # "defender"
      BY <1>2, <3>1, Loads
    <3>3. First(cfg, at) = w.to
      BY <1>2, <3>1, FirstOfOne
    <3> QED BY <2>4, <2>5, <3>1, <3>2, <3>3
  <2>7. CASE w.file.kind = "defender"
    <3>1. w.to.role = "defender"
      BY <1>2, <2>1, <2>7, OneDefender, Loads
    <3> QED BY <2>2, <2>4, <2>5, <2>7, <3>1
  <2> QED BY <2>6, <2>7
<1> QED BY <1>1, <1>3, <1>4

LEMMA PlanShows == ScopeInv => PlanForetells
<1>1. SUFFICES ASSUME ScopeInv, Matched, cmd.verb = "apply", Single(cfg).ok, NEW w \in writes
               PROVE  w.file \in Planned(cfg, env)
  BY DEF PlanForetells
<1> DEFINE at == Select(cfg).at
<1>2. cfg \in Tenant
  BY <1>1 DEF ScopeInv, Matched, Tenant
<1>3. ApplyInv /\ Select(cfg).ok
  BY <1>1 DEF ScopeInv, ApplyInv
<1>4. ~IntegrationAbsent(cfg)
  BY <1>1, NoneAssumption DEF IntegrationAbsent, Matched
<1>5. w.file \in Loaded(cfg) /\ w.file.kind \in Kinds
  BY <1>2, <1>3, ApplyTarget, LoadedIs
<1>6. Managed(cfg, w.file.kind, IF at = {} THEN None ELSE First(cfg, at).name, env)
  <2>1. CASE w.file.kind = "defender"
    BY <2>1 DEF Managed
  <2>2. CASE w.file.kind # "defender"
    <3>1. PICK i \in at : Managed(cfg, w.file.kind, cfg.ws[i].name, None)
      BY <1>2, <1>3, <2>2, ApplyTarget
    <3>2. i \in DOMAIN cfg.ws /\ cfg.ws # <<>>
      BY <1>2, <1>3, <3>1, Selected, Loads
    <3>3. at = {i}
      <4>1. CASE Explicit
        BY <1>1, <1>2, <3>1, <3>2, <4>1, Told
      <4>2. CASE ~Explicit
        <5>1. at = DOMAIN cfg.ws /\ Len(cfg.ws) <= 1
          BY <1>2, <1>3, <4>2, Selected
        <5>2. \A j \in DOMAIN cfg.ws : j = 1
          BY <1>2, <5>1, Loads
        <5> QED BY <3>1, <5>1, <5>2
      <4> QED BY <4>1, <4>2
    <3>4. First(cfg, at) = cfg.ws[i]
      BY <1>2, <3>2, <3>3, FirstOfOne
    <3>5. cfg.ws[i].name # None
      BY <1>2, <3>2, Loads
    <3>6. Managed(cfg, w.file.kind, cfg.ws[i].name, env)
      BY <3>1, <3>5, ManagedByName
    <3> QED BY <3>1, <3>4, <3>6
  <2> QED BY <2>1, <2>2
<1> QED BY <1>1, <1>3, <1>4, <1>5, <1>6 DEF Planned

(* A command writes where its line says, test content stays out of production, *)
(* no locked file is written, and what apply writes a plan of the same line    *)
(* has shown (_shared.py:378, apply_support.py:157, rollback.py:236,           *)
(* apply.py:140).                                                              *)
THEOREM NeverSurprising == Spec => []NoSurprises
<1>1. ScopeInv => NoSurprises
  BY KeepsToItsLine, TestStaysOut, PlanShows DEF NoSurprises
<1> QED BY <1>1, ScopeInvariant, PTL
=============================================================================
