SPECIFICATION LiveSpec
CONSTANTS
  SeqSpace = 16
  Iss <- MCIss
  TCP_MSS = 2
  TCP_WND = 3
  TCP_SND_BUF = 4
  TCP_SND_QUEUELEN = 3
  TCP_MAXRTX = 1
  TCP_SYNMAXRTX = 1
  NrtxSpace = 4
  DupAcks = 2
  Limits <- MCLimits
INVARIANTS StreamIntact AckedWasReceived QueuesAccounted
PROPERTIES DataSettles HalfOpenEnds
CHECK_DEADLOCK FALSE
