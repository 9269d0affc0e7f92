SPECIFICATION Spec
CONSTANTS
  Forms <- MCForms
  Networks <- MCNetworks
  Unset = Unset
  Empty = ""
  DefaultPort = "9000"
  TooLong = {"long"}
  Addresses = {"host1", "host2"}
  Polls = 2
  MaxForms = 4
  MaxCuts = 3
CHECK_DEADLOCK FALSE
INVARIANTS TypeOK EngineRunsStored StopsOnBadForm
