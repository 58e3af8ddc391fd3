SPECIFICATION Spec
CONSTANTS
  n1 = n1
  n2 = n2
  k1 = k1
  k2 = k2
  Conn <- Conns
  Tcp = Tcp
  Client <- Clients
  NBuf = 2
  TcpSlots = 1
  ConnSlots = 2
  MaxYields = 3
  Window = 2
  Push = {TRUE, FALSE}
  MaxReq <- Reqs
  Sharing = FALSE
INVARIANTS
  SleepsOnlyWhenIdle
  CallsComplete
  TokensMatch
  PanicsExplained
CHECK_DEADLOCK FALSE
PROPERTIES
  EofAfterAllData
  CallsAnswered
