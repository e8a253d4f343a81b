SPECIFICATION FairSpec
CONSTANTS
  Machines = {m1, m2}
  app = app
  migrations = migrations
  ci = ci
  Samples <- MCSamples
  ClientTitles = {app}
  MaxCopies = 2
  MaxRuns = 1
  MaxFailures = 1
CHECK_DEADLOCK FALSE
INVARIANTS
  DeployInv
  DoneMeansUsable
  SeededTogether
PROPERTIES
  RevisionGetsItsSchema
  EveryRunCompletes
