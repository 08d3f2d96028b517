---------------------------- MODULE PromotionGates ----------------------------
(***************************************************************************)
(* The gates of `contentops lifecycle promote': what the file says, and    *)
(* what the workspace says about the rule.                                 *)
(***************************************************************************)
EXTENDS Integers, FiniteSetsExt

CONSTANTS
  MaxAge,       \* --max-validation-age-days, and the age a stamp may have
  Threshold     \* fp_rate_threshold as config/lifecycle.yml has it, in percent

Never == -1     \* no date
DefaultThreshold == 50

\* A threshold that is not a number between 0 and 1 is not taken.
FpThreshold == IF Threshold \in 0 .. 100 THEN Threshold ELSE DefaultThreshold

(* The telemetry of a rule: the closed incidents by verdict, in a row under  *)
(* its id, one under its name, and one under another id with its name.       *)
Keys == {"id", "name", "alias"}
Own == {"id", "name"}

RowsFor(rows) ==
  LET own == DOMAIN rows \cap Own IN IF own # {} THEN own ELSE DOMAIN rows
Total(rows, verdict) == MapThenSumSet(LAMBDA k : rows[k][verdict], RowsFor(rows))
Closed(rows) == Total(rows, "tp") + Total(rows, "fp") + Total(rows, "bp")

\* closed_fp_rate: a rule without a verdict has no rate, and passes.
FpAccepted(rows) == Total(rows, "fp") * 100 <= FpThreshold * Closed(rows)

(* A workspace: whether it was found, whether the rule's query ran, and the *)
(* telemetry or that it could not be read.                                   *)
\* Mutant: without a workspace the gates are skipped, whatever the reason.
GateOpen(ws) == TRUE
NoWorkspaceGate(ws) == ws.lookup = "declined"

LiveTestPass(ws) == IF ws.lookup = "found" THEN ws.runs ELSE NoWorkspaceGate(ws)
FpRateThreshold(ws) ==
  IF ws.lookup = "found" THEN ws.read /\ FpAccepted(ws.rows) ELSE NoWorkspaceGate(ws)

CurrentlyExperimental(f) == f.status = "experimental"
RecentValidation(f, day) == f.validated # Never /\ day - f.validated \in 0 .. MaxAge

CheckGates(f, day, ws) ==
  /\ CurrentlyExperimental(f) /\ RecentValidation(f, day)
  /\ LiveTestPass(ws) /\ FpRateThreshold(ws)
==============================================================================
