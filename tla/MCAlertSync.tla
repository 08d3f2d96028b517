---------------------------- MODULE MCAlertSync ----------------------------
EXTENDS AlertSync, TLC
CONSTANTS s, b

MCDayOf == (s :> 1) @@ (b :> 2)
==============================================================================
