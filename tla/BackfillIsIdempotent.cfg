SPECIFICATION Spec
CONSTANTS
  Offered = {"sales"}
  Build = {{11},{11,21},{11,22}}
  Process = {1,2}
  Deployed = {11}
  Server = {1,2}
  Legacy = {1}
  Plan = {1,2}
  Worker = {1,2}
  App = {1}
  Amount = {1}
  MaxStarts = 2
  MaxGeneration = 3
  MaxApps = 2
CHECK_DEADLOCK FALSE
INVARIANTS
  BackfillIsIdempotent
