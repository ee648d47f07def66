SPECIFICATION FairSpec
CONSTANTS
  h1 = h1
  h2 = h2
  h3 = h3
  p1 = p1
  p2 = p2
  NoPid = NoPid
  Handlers = {h1, h2}
  PidOf <- MCPidOf
  Requests <- MCBoth
  MaxTokens = 2
  CanStop = TRUE
INVARIANTS
  HubInv
PROPERTIES
  LostEngineIsNoticed
  GoneClientIsReleased
  StopDrains
CHECK_DEADLOCK FALSE
