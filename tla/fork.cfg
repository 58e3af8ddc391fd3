SPECIFICATION Spec
CONSTANTS
  e1 = e1  e2 = e2  e3 = e3
  p1 = p1  p2 = p2  p3 = p3
  NoPage = NoPage  NoEnv = NoEnv
  Env <- ThreeEnvs
  Root = e1
  Page <- Pages3
  NPAGE = 2
  Stack = 1
  Value = {0, 1}
SYMMETRY Symm
INVARIANTS WritableAlone ProgramsSeeTheirStores
CHECK_DEADLOCK FALSE
