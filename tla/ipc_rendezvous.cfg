SPECIFICATION Spec
CONSTANTS
    a = a  b = b  s = s  v1 = v1  v2 = v2
    NoEnv = NoEnv  NoMsg = NoMsg
    Env <- Three
    Asks <- Servers
    Value <- Values
SYMMETRY Symm
PROPERTY ImplementsRendezvous
CHECK_DEADLOCK FALSE
