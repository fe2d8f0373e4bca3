CONSTANTS
  NoKey = nokey
  GUID <- MCGUID
  Key <- MCKey
  KeyCut <- MCKeyCut
  SHA1 <- MCSHA1
  Plan <- MCPlan
  Message <- MCMessage
  MaxMessages = 3
  BUFF_SIZE = 1024
  SendBuffer = 65700
SPECIFICATION Spec
INVARIANTS KeyIsStandard RequestsAreClients MessagesArrive
CHECK_DEADLOCK FALSE
