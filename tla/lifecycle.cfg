CONSTANTS
  MaxTroubles = 2
  MaxCalls = 1
SPECIFICATION FairLifeSpec
INVARIANTS LifeTypeOK CallsKeepDependencies UniqueUnlessCut
PROPERTIES SignalEnds BothServe
