CONSTANTS
  h1 = h1
  h2 = h2
  h3 = h3
  Handlers = {h1, h3}
  PidOf <- MCPidOf
  NoPid = 0
  Requests = {{"HQ"}, {"IR"}}
  Settings = {{"HQ"}}
  MaxTokens = 2
  CanStop = TRUE
  Demands = {{}, {"RGB"}, {"IR"}, {"DEPTH", "LEASE"}}
  MaxChanges = 3
  MaxFaults = 2
  MaxFrames = 3
  MaxSwitches = 2
  Slots = {1, 2, 3}
  P = 5
  SeqMod = 8
  MaxLoss = 2
  MaxGap = 9
  Kinects = {1, 2}
  Grace = 2
  MaxMoves = 2
  Viewers = {v1, v2}
  MaxClients = 2
  AuthFailureLimit = 2
  Sources = {1}
  IpMoves = 2
  Threads = {c1, c2}
  Nobody = Nobody
  Contexts = {"auto", "scoped"}
  Kinds = {"1414", "1473"}
  MaxTilt = 1
  Commands <- MCCommands
  Faults <- MCFaults
  ControlClients = {c1, c2}
  SdkClients = {s1}
  Silent = {c2, s1}
  Host = Host
  Free = Free
  Clients = {c1, c2}
  AudioFrames = 2
  Opaque = {2}
  Nothing = Nothing
  Ports = {1, 2}
  Pages = 2
  DisconnectPasses = 2
  BootFaults = 4
  Parts = {"frames"}
SPECIFICATION Spec
INVARIANTS
  EvenWhenStable
CHECK_DEADLOCK FALSE
