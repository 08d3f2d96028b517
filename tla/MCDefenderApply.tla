---------------------------- MODULE MCDefenderApply ----------------------------
(* Instances of DefenderApply for TLC. *)
EXTENDS DefenderApply, TLC

Yml(n, arm, b) == [name |-> n, arm |-> arm, body |-> b]

\* Two YAMLs of one display name; or rule 1 under a new name, and another rule,
\* which a third checkout changes.
MCCheckouts ==
    {<<Yml("x", 0, "b"), Yml("x", 0, "c")>>,
     <<Yml("z", 1, "b"), Yml("y", 0, "b")>>,
     <<Yml("y", 0, "c")>>}

MCInitialRules ==
    {<<>>, 1 :> [name |-> "x", body |-> "c"]}
=============================================================================
