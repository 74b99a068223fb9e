SPECIFICATION FairSpec
CONSTANTS
  None = None
  ParamFile = TRUE
  MaxRetries = 2
  MaxEpoch = 3
INVARIANTS TypeOK ParamsBeforeCommunication
PROPERTIES StopEndsStopped ImplementsService ServicesAnswer ExitCompletes
