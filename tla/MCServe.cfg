SPECIFICATION MCSpec
CONSTANTS
  c1 = c1
  c2 = c2
  BkCallers <- TwoCallers
  BkMixes <- Mixes
  BkKey <- OneConversation
  BkQueueCap = 1
  TgKinds <- Updates
  TgMax = 2
  TgFaults = 1
  TgChunks = 2
  DcEvents = 2
  DcInFlight = 1
  DcFaults = 2
  DcMaxAttempts = 2
  WsRequests = 2
  WsInFlight = 2
  WsFactor = 2
  McCalls <- TwoCallers
  McTransports = {"stdio", "sse"}
  McNoise = 1
  PrProcs = {1}
  PrClients = {"reader", "writer"}
  PrUses <- Uses
  PrMaxLog = 2
  PrPage = 1
  AkQuestions = {1, 2}
  AkUsers = {1, 2}
  DmFiles <- Files
  DmWants <- Wants
  DmTicks = 2
  DmJobs = 2
  SwDirs = {1, 2}
  SwModes = {"events", "poll", "file"}
  SwChanges = 2
CHECK_DEADLOCK FALSE
INVARIANTS
  GatewayTypeOK
  BkRecordFaithful
  AdaptersKeep
  ServicesTypeOK
  ToldTruly
PROPERTIES
  TgDeliversInOrder
  GatewayServes
  DmFaithful
  AkOneAnswer
  ServicesEnd
