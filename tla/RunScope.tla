------------------------------ MODULE RunScope ------------------------------
(***************************************************************************)
(* Where a command writes.  tenant.yml names the Sentinel workspaces of    *)
(* the tenant, each with a role and its safeguards, and the Defender side, *)
(* which has no workspace.  A command picks workspaces by --role or        *)
(* --workspace, passes the gates, filters the files, and runs the handlers *)
(* once per workspace.  The handlers do not take the workspace from the    *)
(* command: they read it from the environment, or, when nothing is there,  *)
(* from the tenant.yml.                                                    *)
(***************************************************************************)
EXTENDS Naturals, Sequences, FiniteSetsExt

CONSTANTS
  Configs,     \* what tenant.yml may hold, NoConfig among them
  NoConfig,    \* there is no tenant.yml
  Commands,    \* [verb, role, workspace, asset, real]
  Files,       \* the files: [kind, status, locked]
  Preset,      \* what PIPELINE_WORKSPACE_NAME may hold when the command starts
  MaxApply,    \* --max-apply of rollback
  None

Kinds == {"analytic", "playbook", "defender"}

(* What loading tenant.yml guarantees (_validate_workspace_uniqueness, and the *)
(* types of the fields): a list of workspaces that differ in their names.      *)
ASSUME ConfigAssumption ==
  \A c \in Configs \ {NoConfig} :
    /\ c.ws \in Seq({c.ws[i] : i \in DOMAIN c.ws})
    /\ \A i, j \in DOMAIN c.ws : c.ws[i].name = c.ws[j].name => i = j
    /\ \A i \in DOMAIN c.ws : /\ c.ws[i].name # None /\ c.ws[i] # None
                              /\ c.ws[i].role # "defender" /\ c.ws[i].max \in Nat
    /\ c.defender # None => c.defender.role = "defender" /\ c.defender.max \in Nat
ASSUME FilesAssumption == \A f \in Files : f.kind \in Kinds
ASSUME NoneAssumption == None \notin Kinds \cup {"integration"}

VARIABLES
  cfg,      \* tenant.yml
  cmd,      \* the command
  env,      \* PIPELINE_WORKSPACE_NAME
  pc,       \* "start", "run", "done", or how the command ended before it wrote
  todo,     \* the passes left, by the position of their workspace (0: none), and
            \* the files left of each
  writes    \* history: what was written, and where

vars == <<cfg, cmd, env, pc, todo, writes>>

-----------------------------------------------------------------------------
(* tenant.yml is [name, ws, defender]; a workspace is [name, role, write,    *)
(* purge, max, managed]; the Defender side is None, or the same with `on'.   *)

(* A selection is a set of positions in ws: they are visited in that order.  *)

Named(c, n) == {i \in DOMAIN c.ws : c.ws[i].name = n}
WithRole(c, r) == {i \in DOMAIN c.ws : c.ws[i].role = r}
First(c, at) == c.ws[Min(at)]

(* select_workspaces; resolve_workspaces_for_run turns its errors into an exit. *)
Select(c) ==
  CASE c = NoConfig -> [ok |-> TRUE, at |-> {}]
    [] c # NoConfig /\ cmd.workspace # None ->
         [ok |-> cmd.role = None /\ Named(c, cmd.workspace) # {}, at |-> Named(c, cmd.workspace)]
    [] c # NoConfig /\ cmd.workspace = None /\ cmd.role # None ->
         [ok |-> TRUE, at |-> WithRole(c, cmd.role)]
    [] OTHER -> [ok |-> Len(c.ws) <= 1, at |-> DOMAIN c.ws]

Explicit == cmd.role # None \/ cmd.workspace # None

(* _resolve_single_workspace_or_exit: the workspace of the commands that know *)
(* only one, none when they go on without; collect falls back on role prod.   *)
Single(c) ==
  CASE c = NoConfig -> [ok |-> ~Explicit, at |-> {}]
    [] c # NoConfig /\ ~Explicit ->
         IF cmd.verb # "adopt" THEN [ok |-> TRUE, at |-> {}]
         ELSE LET at == IF Len(c.ws) > 1 THEN WithRole(c, "prod") ELSE DOMAIN c.ws IN
              [ok |-> Cardinality(at) <= 1, at |-> at]
    [] c # NoConfig /\ Explicit /\ c.ws = <<>> -> [ok |-> TRUE, at |-> {}]
    [] OTHER -> [ok |-> Select(c).ok /\ Cardinality(Select(c).at) = 1, at |-> Select(c).at]

(* _skip_if_integration_role_absent, before anything else. *)
IntegrationAbsent(c) ==
  /\ cmd.role = "integration" /\ cmd.workspace = None
  /\ c # NoConfig /\ WithRole(c, "integration") = {}

(* _active_workspace, for the handler factories. *)
Active(c, e) ==
  CASE c = NoConfig -> None
    [] c # NoConfig /\ e # None -> IF Named(c, e) = {} THEN None ELSE First(c, Named(c, e))
    [] OTHER -> IF Len(c.ws) = 1 THEN c.ws[1] ELSE None

DefenderOn(c) == IF c = NoConfig THEN TRUE ELSE c.defender # None /\ c.defender.on
SentinelOn(c) == IF c = NoConfig THEN TRUE ELSE c.ws # <<>>
Registered(c, kind) == IF kind = "defender" THEN DefenderOn(c) ELSE SentinelOn(c)

(* asset_mode_for: automation rules and playbooks are only monitored unless *)
(* the workspace says otherwise.                                            *)
Managed(c, kind, name, e) ==
  LET n == IF name # None THEN name ELSE e
      at == IF n # None THEN Named(c, n) ELSE IF Len(c.ws) = 1 THEN DOMAIN c.ws ELSE {} IN
  IF c = NoConfig \/ kind = "defender" THEN kind # "playbook"
  ELSE IF at # {} THEN kind \in First(c, at).managed ELSE kind # "playbook"

-----------------------------------------------------------------------------
(* Gates and filters. *)

\* Mutant: apply looks at the first workspace that it writes to.
WriteAllowedFirst(c, at) == at = {} \/ First(c, at).write

(* _check_apply_write_allowed_or_exit *)
WriteAllowed(c, at) ==
  c # NoConfig =>
    /\ \A i \in at : c.ws[i].write
    /\ cmd.asset \in {None, "defender"} /\ c.defender # None => c.defender.write

(* allowed_statuses_for_env: an unknown name is taken for production. *)
Allowed(key) ==
  CASE key = "dev" -> {"production", "test"} [] key = "test" -> {"test"}
    [] key = "integration" -> {"production", "test"} [] OTHER -> {"production"}

\* Mutant: Defender content goes where the rest goes.
EnvStatusEverywhere(c, at, fs) ==
  IF c = NoConfig THEN fs
  ELSE {f \in fs : f.status \in Allowed(IF at # {} THEN First(c, at).role ELSE c.name)}

(* _filter_loaded_by_env_status: by the role of the first workspace, or by the *)
(* name of the tenant; Defender content passes only with production.           *)
EnvStatus(c, at, fs) ==
  LET key == IF at # {} THEN First(c, at).role ELSE c.name IN
  IF c = NoConfig THEN fs
  ELSE {f \in fs : /\ f.status \in Allowed(key)
                   /\ f.kind = "defender" => at = {} \/ key = "prod"}

(* _load_assets_for_run: --asset, then the engines that the tenant has. *)
Loaded(c) ==
  {f \in Files : cmd.asset \in {None, f.kind} /\ Registered(c, f.kind)}
Unlocked(fs) == {f \in fs : ~f.locked}

(* _run_workspace_iteration: Defender content in the first pass only. *)
Passes(at, fs) ==
  [i \in (IF at = {} THEN {0} ELSE at) |->
     IF at = {} \/ i = Min(at) THEN fs ELSE {f \in fs : f.kind # "defender"}]
NoPasses == [i \in {} |-> {}]

End(how) == pc' = how /\ todo' = NoPasses /\ UNCHANGED <<cfg, cmd, env, writes>>
Go(passes, e) == pc' = "run" /\ todo' = passes /\ env' = e /\ UNCHANGED <<cfg, cmd, writes>>

-----------------------------------------------------------------------------
(* The commands. *)

Apply ==
  LET at == Select(cfg).at
      fs == EnvStatus(cfg, at, Loaded(cfg)) IN
  /\ pc = "start" /\ cmd.verb = "apply"
  /\ IF ~Select(cfg).ok \/ (cmd.real /\ ~WriteAllowed(cfg, at)) THEN End("refused")
     ELSE IF at = {} /\ cmd.role = "integration" THEN End("skipped")
     ELSE Go(Passes(at, Unlocked(fs)), IF at = {} THEN env ELSE First(cfg, at).name)

(* plan shows what it is given: neither the status gate nor the locks. *)
Planned(c, e) ==
  LET at == Select(c).at IN
  IF IntegrationAbsent(c) \/ ~Single(c).ok \/ ~Select(c).ok THEN {}
  ELSE {f \in Loaded(c) : Managed(c, f.kind, IF at = {} THEN None ELSE First(c, at).name, e)}

(* The target of a rollback: the workspace in the environment, or all. *)
RollbackTarget(c, e) ==
  IF c = NoConfig THEN {}
  ELSE IF e # None /\ Named(c, e) # {} THEN Named(c, e) ELSE DOMAIN c.ws

Entered(c) == IF Single(c).at = {} THEN env ELSE First(c, Single(c).at).name

Rollback ==
  LET e == Entered(cfg)
      at == RollbackTarget(cfg, e)
      fs == Unlocked(EnvStatus(cfg, at, Loaded(cfg))) IN
  /\ pc = "start" /\ cmd.verb = "rollback"
  /\ IF IntegrationAbsent(cfg) THEN End("skipped")
     ELSE IF \/ ~Single(cfg).ok
             \/ (cmd.real /\ ~WriteAllowed(cfg, at))
             \/ Cardinality(fs) > MaxApply
          THEN End("refused")
          ELSE Go([i \in (IF Cardinality(at) = 1 THEN at ELSE {0}) |-> fs], e)

(* prune deletes what has no file: here one resource of each kind.  It lists *)
(* the kinds that are managed; a kind without one file is not touched, and   *)
(* refuses the whole run when it is a real one.                              *)
Listed(c, e) ==
  {k \in Kinds : /\ cmd.asset \in {None, k} /\ Registered(c, k) /\ Managed(c, k, None, e)
                 /\ k # "defender" => Active(c, e) # None}
Empty(kinds) == {k \in kinds : ~\E f \in Files : f.kind = k}
Orphans(c, e) ==
  {[kind |-> k, status |-> "orphan", locked |-> FALSE] :
     k \in Listed(c, e) \ Empty(Listed(c, e))}

(* _resolve_safeguards_for_target *)
Safeguards(c, e) ==
  IF c = NoConfig THEN {}
  ELSE (IF cmd.asset = "defender" \/ Active(c, e) = None THEN {} ELSE {Active(c, e)})
       \cup (IF cmd.asset \in {None, "defender"} /\ c.defender # None THEN {c.defender} ELSE {})

Prune ==
  LET e == Entered(cfg)
      guards == Safeguards(cfg, e) IN
  /\ pc = "start" /\ cmd.verb = "prune"
  /\ IF IntegrationAbsent(cfg) THEN End("skipped")
     ELSE IF \/ ~Single(cfg).ok
             \/ (cmd.real /\ \E g \in guards : ~g.purge)
             \/ (cmd.real /\ Empty(Listed(cfg, e)) # {})
             \/ \E g \in guards : Cardinality(Orphans(cfg, e)) > g.max
          THEN End("refused")
          ELSE Go([i \in {0} |-> Orphans(cfg, e)], e)

(* collect --asset sentinel_playbook --adopt writes a tag. *)
Adopt ==
  /\ pc = "start" /\ cmd.verb = "adopt"
  /\ IF IntegrationAbsent(cfg) THEN End("skipped")
     ELSE IF ~Single(cfg).ok \/ cmd.asset # "playbook" \/ ~Registered(cfg, "playbook")
          THEN End("refused")
          ELSE Go([i \in {0} |-> {f \in Files : f.kind = "playbook"}], Entered(cfg))

-----------------------------------------------------------------------------
(* The passes. *)

(* The handler resolves the workspace by itself, from the environment; a file *)
(* whose workspace cannot be resolved is an error.                            *)
Target(f) ==
  IF f.kind # "defender" THEN Active(cfg, env)
  ELSE IF cfg = NoConfig THEN NoConfig ELSE cfg.defender

(* A rollback names the workspace that it found, or the one in the environment. *)
PassName(i) == IF i = 0 THEN None ELSE cfg.ws[i].name

Writes(i, f) ==
  /\ cmd.real
  /\ Registered(cfg, f.kind)
  /\ cmd.verb \in {"apply", "rollback"} => Managed(cfg, f.kind, PassName(i), env)
  /\ Target(f) # None

Current == Min(DOMAIN todo)

(* One file: written, refused by the API, or not written at all. *)
Process ==
  /\ pc = "run"
  /\ \E f \in todo[Current] :
       /\ todo' = [todo EXCEPT ![Current] = @ \ {f}]
       /\ \/ /\ Writes(Current, f)
             /\ writes' = writes \cup {[to |-> Target(f), file |-> f]}
          \/ UNCHANGED writes
  /\ UNCHANGED <<cfg, cmd, env, pc>>

NextPass ==
  LET left == DOMAIN todo \ {Current} IN
  /\ pc = "run" /\ todo[Current] = {}
  /\ todo' = [i \in left |-> todo[i]]
  /\ pc' = IF left = {} THEN "done" ELSE pc
  /\ env' = IF left = {} THEN env ELSE cfg.ws[Min(left)].name
  /\ UNCHANGED <<cfg, cmd, writes>>

Init ==
  /\ cfg \in Configs
  /\ cmd \in Commands
  /\ env \in Preset
  /\ pc = "start" /\ todo = NoPasses /\ writes = {}

Next == Apply \/ Rollback \/ Prune \/ Adopt \/ Process \/ NextPass

Spec == Init /\ [][Next]_vars

-----------------------------------------------------------------------------
(* Properties. *)

(* The selector found a workspace, and the environment, where nothing was    *)
(* selected, names one of the tenant's.                                      *)
Matched ==
  /\ cfg # NoConfig
  /\ cmd.role # None => WithRole(cfg, cmd.role) # {}

Allows(w) == IF cmd.verb = "prune" THEN w.to.purge ELSE w.to.write

(* apply, rollback and prune write only where tenant.yml lets them, whatever  *)
(* they were told to write to, and prune stays below the smallest maxDelete   *)
(* (apply_support.py:101, prune.py:163, _active_workspace of                  *)
(* handler_factories.py:69, which resolves the workspace a second time).      *)
SafeguardsHold ==
  Matched /\ cmd.verb # "adopt" =>
    /\ \A w \in writes : Allows(w)
    /\ cmd.verb = "prune" => \A w \in writes : Cardinality(writes) <= w.to.max

(* The same without the premise, as docs/operations/tenant-config-modes.md:311 *)
(* has it: a real apply of a read-only workspace ends with exit code 2.  It   *)
(* does not hold: a --role that no workspace has selects nothing, so nothing  *)
(* is gated, and the handlers fall back on the only workspace there is.       *)
WriteAllowedHolds ==
  cfg # NoConfig /\ cmd.verb = "apply" => \A w \in writes : w.to.write

(* A command that names a workspace or a role writes in that workspace, or in *)
(* workspaces of that role, and besides them at most in Defender, which apply *)
(* and rollback reach for production only (_shared.py:378, apply_support.py:157). *)
WritesWhereItWasTold ==
  Matched /\ Explicit => \A w \in writes :
    IF w.file.kind # "defender"
    THEN /\ cmd.workspace # None => w.to.name = cmd.workspace
         /\ cmd.role # None => w.to.role = cmd.role
    ELSE cmd.verb \in {"apply", "rollback"} /\ cfg.ws # <<>> =>
           IF cmd.role # None THEN cmd.role = "prod"
           ELSE First(cfg, Named(cfg, cmd.workspace)).role = "prod"

(* Content in test reaches neither a production workspace nor Defender, unless *)
(* the tenant has no workspace and is not called a production one, and a locked *)
(* file is not written, by any pass of any command (apply_support.py:157, 228, *)
(* 426; rollback.py:236).  collect --adopt is not about content: it tags.      *)
TestStaysOutOfProduction ==
  Matched /\ cmd.verb \in {"apply", "rollback"} => \A w \in writes :
    /\ ~w.file.locked
    /\ w.file.status = "test" =>
         /\ w.to.role # "prod"
         /\ w.to.role = "defender" => cfg.ws = <<>> /\ cfg.name # "prod"

(* What apply writes, plan has shown, where plan accepts the same command: the *)
(* two pick their workspace and their modes by code of their own (apply.py:140, *)
(* 320; _shared.py:251).                                                      *)
PlanForetells ==
  Matched /\ cmd.verb = "apply" /\ Single(cfg).ok =>
    \A w \in writes : w.file \in Planned(cfg, env)

(* A command writes where its line says, nothing that its target has no business *)
(* with, and nothing that a plan of the same line would not have shown.          *)
NoSurprises == WritesWhereItWasTold /\ TestStaysOutOfProduction /\ PlanForetells
=============================================================================
