SPECIFICATION FairSpec
CONSTANTS
  Machines = {m1, m2}
  MaxSetbacks = 1
  Noticed = TRUE
  Unnoticed = TRUE
  None = None
CHECK_DEADLOCK FALSE
INVARIANTS
  HookInv
  RegistrationsAreFew
  DoneMeansReady
  SecretsKept
  SecretsDoNotPileUp
PROPERTY
  EveryMachineFinishes
