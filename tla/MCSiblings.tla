----------------------------- MODULE MCSiblings -----------------------------
(* A playbook of the repository, one that is built by hand, a rule that runs *)
(* either, an analytics rule, a hunt and a watchlist.                        *)
EXTENDS Siblings

CONSTANTS NoArm, Old, New

File(kind, id, arm, body, conn, refs) ==
  [kind |-> kind, id |-> id, arm |-> arm, status |-> "production", body |-> body,
   content |-> TRUE, conns |-> conn, refs |-> refs, plain |-> {}]
Conn(name, as) == [name |-> name, as |-> as]

MCSlug ==
  [n \in {"block", "Block_It", "notify", "g-rule", "g-hand", "users", "seek", "scan"} |->
     CASE n = "Block_It" -> "block" [] n = "g-rule" -> "rule" [] n = "g-hand" -> "rule"
       [] OTHER -> n]
MCGuid == [i \in {"rule"} |-> "g-rule"]

MCDrafts ==
  {File("playbook", "notify", NoArm, New, {Conn("kv", NoArm), Conn("sn", NoArm)}, {}),
   File("automation", "rule", NoArm, New, {}, {<<"playbook", "notify">>, <<"analytic", "scan">>}),
   File("analytic", "scan", NoArm, New, {}, {})}

Made(kind, uses, runs) ==
  [cat |-> kind, body |-> Old, managed |-> FALSE, uses |-> uses, runs |-> runs]
MCHandMade ==
  {<<"playbook", "Block_It", Made("playbook", [l \in {"kv"} |-> <<"block", "kv">>], {})>>,
   <<"playbook", "block", Made("playbook", [l \in {"kv"} |-> <<"hand", "kv">>], {})>>,
   <<"automation", "g-hand", Made("automation", Empty, {<<"playbook", "Block_It">>})>>,
   <<"automation", "g-hand", Made("automation", Empty, {<<"playbook", "block">>})>>,
   <<"savedSearch", "seek", Made("hunting", Empty, {})>>,
   <<"watchlist", "users", Made("watchlist", Empty, {})>>}
=============================================================================
