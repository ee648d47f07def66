CONSTANTS
  Clients = {c1, c2}
  Nobody = Nobody
  Sessions = {"auto", "scoped"}
  Kinds = {"1414", "1473"}
  MaxTilt = 1
  MinQuiet = 0
  Margin = 0
  Commands <- MCCommands
  Faults <- MCFaults
SPECIFICATION FairSpec
INVARIANTS
  BrokerInv
PROPERTIES
  TiltSuccessIsMine
  SilentTravel
  EveryRequestAnswered
