SPECIFICATION Spec
CONSTANTS
  h1 = h1
  h2 = h2
  h3 = h3
  p1 = p1
  p2 = p2
  NoPid = NoPid
  Handlers = {h1, h2, h3}
  PidOf <- MCPidOf
  Requests <- MCColor
  MaxTokens = 3
  CanStop = FALSE
PROPERTIES
  OnlySupersededAreWoken
