SPECIFICATION Spec
CONSTANTS
  e1 = e1  e2 = e2
  Env <- TwoEnvs
  Started <- OneEnv
  Path = {1}
  MAXOPEN = 2
  MAXFD = 2
  PGSIZE = 2
  Mode <- FewModes
  Count = {1}
  MaxSize = 1
  MaxOpens = 2
INVARIANTS LookupSucceeds
PROPERTIES DescriptorKeepsFile NoByteReadTwice
CHECK_DEADLOCK FALSE
