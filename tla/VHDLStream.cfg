SPECIFICATION Spec
CONSTANTS
  Programs <- SomePrograms
  Instances <- SomeInstances
  Timings <- SomeTimings
  MaxCycle = 1
  MaxStatements = 2
INVARIANTS DependenciesAreExact TextIsPreserved RegistersAreRight
CHECK_DEADLOCK FALSE
