SPECIFICATION LiveSpec
CONSTANTS
    a = a  b = b  d = d  c1 = c1  c2 = c2
    NoProc = NoProc
    Proc <- Two
    Started <- Two
    CPU <- TwoCPUs
    NFD = 2
    PIPEBUFSIZ = 1
    MaxBytes = 2
PROPERTY NobodyWaitsForTheGone
CHECK_DEADLOCK FALSE
