SPECIFICATION Spec
CONSTANTS
    p1 = p1  p2 = p2  p3 = p3  p4 = p4  p5 = p5
    e1 = e1  e2 = e2  c1 = c1  c2 = c2
    NoPage = NoPage  NoEnv = NoEnv
    Page <- Pages5
    Env <- Envs
    Boot = e1
    CPU <- CPUs
    NPD = 2
    NPT = 2
    RefMod = 65536
SYMMETRY Symm
INVARIANTS CountsExact TablesSound TlbCoherent
PROPERTY ReadOnlyStays
