SPECIFICATION RpcSpec
CONSTANTS
    a = a  b = b  s = s  v1 = v1  v2 = v2
    NoEnv = NoEnv  NoMsg = NoMsg
    Env <- Two
    Asks <- Servers
    Value <- Values
    Request <- Requests
    Server = s
    Opens <- OpenV1
INVARIANTS ReplyMatches PermMeansPage
PROPERTIES Answered ServerGoesOn
CHECK_DEADLOCK FALSE
