SPECIFICATION Spec
CONSTANTS
  Offered = {"schema","sales","host","allocation"}
  Build = {{11},{11,21},{11,22}}
  Process = {1,2}
  Deployed = {11}
  Server = {1,2}
  Legacy = {1}
  Plan = {1,2}
  Worker = {1,2}
  App = {1,2,3}
  Amount = {1,2}
  MaxStarts = 2
  MaxGeneration = 2
  MaxApps = 2
CHECK_DEADLOCK FALSE
INVARIANTS
  SchemaIsRecorded
  GrantsAreSound
  ComputesPlacement
PROPERTIES
  StaysQuarantined
