SPECIFICATION Spec
CONSTANTS
  s = s
  b = b
  SentinelOnly = {s}
  GraphOnly = {}
  Both = {b}
  DayOf <- MCDayOf
  LastDay = 5
  ReexportDays = 2
  BackfillDays = 2
  ArmDays = 1
  RetentionDays = 3
  Places = {"workstation", "runner"}
  MaxFaults = 1
  MaxTriage = 1
INVARIANTS RecentDaysWhole LedgerKeeps
PROPERTY VerdictsReachLedger
