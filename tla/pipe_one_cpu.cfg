SPECIFICATION Spec
CONSTANTS
    a = a  b = b  d = d  c1 = c1  c2 = c2
    NoProc = NoProc
    Proc <- Two
    Started <- Two
    CPU <- OneCPU
    NFD = 2
    PIPEBUFSIZ = 2
    MaxBytes = 3
SYMMETRY Symm
INVARIANTS NoFalseClosed Fifo SlotsWhole
CHECK_DEADLOCK FALSE
