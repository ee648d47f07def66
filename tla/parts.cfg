CONSTANTS
  Late = {"ack"}
  MaxOwed = 3
  P = 4
  SeqMod = 7
  MaxLoss = 2
  MaxGap = 8
  Streams = {"video", "depth"}
  N = 2
  Consumers = {c1, c2}
  Depth = 2
  MaxFrames = 3
  MaxTick = 2
  Viewers = {v1, v2, v3}
  MaxClients = 2
  Kinects = {k1, k2}
  Deep = {k2}
  Cards = {hw0, hw1}
  NoKinect = NoKinect
  NoCard = NoCard
  Pages = 2
  DisconnectPasses = 2
  MaxFaults = 4
  Nobody = Nobody
  Ids = {k1, k2}
  VideoSlots = 2
  Grace = 2
  MaxChanges = 3
  MaxEvents = 6
  Parts = {"channel", "assembler", "iso", "queues", "ip", "audio", "firmware", "registry", "webcam"}
SPECIFICATION Spec
INVARIANTS
  BooksAreRight
  FreshReading
  LaunchedWhole
  SlotsAreDistinct
  WholeFrames
PROPERTIES
  MergedInOrder
CHECK_DEADLOCK FALSE
