----------------------------- MODULE MCRunScope -----------------------------
(* Tenants with no, one and two workspaces, with and without Defender, and *)
(* every combination of selector, kind and command.                        *)
EXTENDS RunScope

Workspace(n, r, w, p, m, ks) ==
  [name |-> n, role |-> r, write |-> w, purge |-> p, max |-> m, managed |-> ks]
Both == {"analytic", "playbook"}

Tenants ==
  {<<>>,
   <<Workspace("w1", "prod", TRUE, TRUE, 1, Both)>>,
   <<Workspace("w1", "prod", FALSE, FALSE, 5, Both)>>,
   <<Workspace("w1", "integration", TRUE, FALSE, 5, {"analytic"})>>,
   <<Workspace("w1", "prod", FALSE, TRUE, 5, Both), Workspace("w2", "integration", TRUE, TRUE, 5, Both)>>,
   <<Workspace("w1", "prod", TRUE, TRUE, 5, {"analytic"}), Workspace("w2", "prod", TRUE, FALSE, 5, Both)>>,
   <<Workspace("w1", "test", TRUE, FALSE, 5, Both), Workspace("w2", "prod", TRUE, TRUE, 5, Both)>>}

Defender(on, w, p) ==
  [name |-> "defender", role |-> "defender", write |-> w, purge |-> p, max |-> 5,
   managed |-> {}, on |-> on]

TheConfigs ==
  {NoConfig} \cup
  {[name |-> n, ws |-> t, defender |-> d] :
     n \in {"prod", "integration"}, t \in Tenants,
     d \in {None, Defender(TRUE, TRUE, TRUE), Defender(TRUE, FALSE, FALSE), Defender(FALSE, TRUE, FALSE)}}

Selectors ==
  [role : {None, "prod", "test", "integration"}, workspace : {None}]
    \cup [role : {None}, workspace : {"w1", "w2"}] \cup [role : {"prod"}, workspace : {"w1"}]

TheCommands ==
  {[verb |-> v, role |-> s.role, workspace |-> s.workspace, asset |-> a, real |-> r] :
     v \in {"apply", "rollback", "prune"}, s \in Selectors, a \in {None, "defender"}, r \in {TRUE}}
  \cup {[verb |-> "adopt", role |-> s.role, workspace |-> s.workspace, asset |-> "playbook", real |-> r] :
          s \in Selectors, r \in BOOLEAN}
  \cup {[verb |-> v, role |-> None, workspace |-> None, asset |-> "playbook", real |-> FALSE] :
          v \in {"apply", "rollback", "prune"}}

TheFiles ==
  {[kind |-> "analytic", status |-> "production", locked |-> FALSE],
   [kind |-> "analytic", status |-> "test", locked |-> FALSE],
   [kind |-> "playbook", status |-> "production", locked |-> TRUE],
   [kind |-> "playbook", status |-> "production", locked |-> FALSE],
   [kind |-> "defender", status |-> "production", locked |-> FALSE],
   [kind |-> "defender", status |-> "test", locked |-> FALSE]}

ThePreset == {None, "w1", "gone"}
=============================================================================
