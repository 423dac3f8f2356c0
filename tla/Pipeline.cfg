SPECIFICATION FairSpec
CONSTANTS
  Canvases <- Drawn
  Mitigations <- AnyMitigation
  LongerNames <- Longer
INVARIANTS
  GraphStaysSound
  TrainingSeesNoTestData
  NoWireIsLost
PROPERTIES
  PreparationEnds
CHECK_DEADLOCK FALSE
