------------------------------ MODULE MCArmApply ------------------------------
(* Instances of ArmApply for TLC: runs, bodies and bounds are given in the   *)
(* configurations.                                                           *)
EXTENDS ArmApply
=============================================================================
