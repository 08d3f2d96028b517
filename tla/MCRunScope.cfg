SPECIFICATION Spec
CONSTANTS
  None = None
  NoConfig = NoConfig
  Configs <- TheConfigs
  Commands <- TheCommands
  Files <- TheFiles
  Preset <- ThePreset
  MaxApply = 5
CHECK_DEADLOCK FALSE
INVARIANTS
  SafeguardsHold
  
