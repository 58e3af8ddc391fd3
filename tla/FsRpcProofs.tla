---------------------------- MODULE FsRpcProofs ----------------------------
(***************************************************************************)
(* Proof that a client of the file server gets the answer to its own       *)
(* request, for any number of clients and requests.                        *)
(***************************************************************************)
EXTENDS FsRpc, IpcProofs

\* A client that waits for the answer to a request the server has taken.
Pending(c) == (job[c] = "sending" /\ pc[c] = "idle") \/ (job[c] = "waiting" /\ pc[c] = "recv")

\* What the server knows of a request: v is what c asked, and c still waits, or
\* is dead.
Holds(c, v) ==
    /\ c \in Client /\ v \in Request /\ asked[c] = v
    /\ pc[c] = "dead" \/ Pending(c)

JobInv ==
    /\ job \in [Env -> {"ready", "sending", "waiting", "serving", "replying"}]
    /\ asked \in [Client -> Request \cup {NoMsg}]
    /\ \A e \in Env : env_ipc_recving[e] /\ pc[e] # "dead" => pc[e] = "recv"
    /\ \A e \in Env : pc[e] \in Reading => env_ipc_value[e] \in Value
    /\ \A e \in Env : pc[e] = "perm" => env_ipc_perm[e] = page[e]

\* A client, from fsipc's ipc_send to its return.
ClientInv(c) ==
    /\ job[c] \in {"ready", "sending", "waiting"}
    /\ job[c] = "ready" => pc[c] \in {"idle", "dead"}
    /\ job[c] = "sending" => pc[c] \in {"try", "idle", "dead"}
    /\ job[c] = "waiting" => pc[c] \in Reading \cup {"recv", "idle", "dead"}
    /\ job[c] # "ready" => asked[c] \in Request
    /\ pc[c] = "try" => arg[c] = [to |-> Server, value |-> asked[c], page |-> TRUE]
    /\ pc[c] = "recv" => env_ipc_dstva[c] = (asked[c] \in Opens)
    /\ pc[c] \in Reading => env_ipc_from[c] = Server
    /\ pc[c] = "perm" => Answer(asked[c], env_ipc_value[c], env_ipc_perm[c])
    /\ pc[c] \in {"from", "value"} => Answer(asked[c], env_ipc_value[c], local[c].page)
    /\ pc[c] = "value" => local[c].from = Server
    /\ job[c] = "waiting" /\ pc[c] = "idle"
       => ret[c].from = Server /\ Answer(asked[c], ret[c].value, ret[c].page)

\* The server, once around the loop of serve: whatever it holds is the request
\* of a client that still waits for it.
ServerInv ==
    /\ job[Server] = "ready" => pc[Server] = "idle"
    /\ job[Server] = "serving" => pc[Server] \in Reading \cup {"recv", "idle"}
    /\ job[Server] = "replying" => pc[Server] \in {"try", "idle", "dead"}
    /\ job[Server] \in {"ready", "serving", "replying"}
    /\ pc[Server] = "recv" => env_ipc_dstva[Server]
    /\ pc[Server] \in Reading => Holds(env_ipc_from[Server], env_ipc_value[Server])
    /\ pc[Server] = "perm" => env_ipc_perm[Server]
    /\ pc[Server] \in {"from", "value"} => local[Server].page
    /\ pc[Server] = "value" => local[Server].from = env_ipc_from[Server]
    /\ job[Server] = "serving" /\ pc[Server] = "idle"
       => ret[Server] \in Ret /\ ret[Server].page /\ Holds(ret[Server].from, ret[Server].value)
    /\ pc[Server] = "try"
       => /\ Holds(arg[Server].to, asked[arg[Server].to])
          /\ Answer(asked[arg[Server].to], arg[Server].value, arg[Server].page)

RpcInv == Typed /\ JobInv /\ ServerInv /\ \A c \in Client : ClientInv(c)
-----------------------------------------------------------------------------
\* Nothing the invariant says about e changes.
Same(e) ==
    /\ pc'[e] = pc[e] /\ job'[e] = job[e] /\ arg'[e] = arg[e]
    /\ local'[e] = local[e] /\ ret'[e] = ret[e]
    /\ env_ipc_recving'[e] = env_ipc_recving[e] /\ env_ipc_dstva'[e] = env_ipc_dstva[e]
    /\ env_ipc_from'[e] = env_ipc_from[e] /\ env_ipc_value'[e] = env_ipc_value[e]
    /\ env_ipc_perm'[e] = env_ipc_perm[e] /\ page'[e] = page[e]

\* What the server may answer is a value, and a page goes only with an open.
LEMMA AnswerIsValue ==
    ASSUME NEW v \in Request, NEW x, NEW pg, Answer(v, x, pg)
    PROVE  x \in Value /\ pg \in BOOLEAN /\ (pg => v \in Opens)
  BY RpcAssumption DEF Answer

LEMMA ServerIsNoClient == Server \in Env /\ Server \notin Client /\ Client \subseteq Env
  BY RpcAssumption DEF Client

\* A client whose entries do not change keeps its invariant.
LEMMA ClientSame ==
    ASSUME NEW c \in Client, ClientInv(c), Same(c), asked'[c] = asked[c]
    PROVE  ClientInv(c)'
  BY DEF ClientInv, Same

\* A client the server holds is held until it takes a step of its own.
LEMMA HoldsSame ==
    ASSUME NEW c, NEW v, Holds(c, v), asked'[c] = asked[c],
           pc'[c] = "dead" \/ (pc'[c] = pc[c] /\ job'[c] = job[c])
    PROVE  Holds(c, v)'
  BY DEF Holds, Pending

\* A step of clients that leaves the server's entries alone, and the clients it
\* holds waiting.
LEMMA ServerSame ==
    ASSUME RpcInv, Same(Server), \A c, v : Holds(c, v) => Holds(c, v)'
    PROVE  ServerInv'
<1>1. ServerInv
  BY DEF RpcInv
<1>2. \A c, v : Holds(c, v) => Holds(c, v)'
  OBVIOUS
<1>3. pc[Server] = "try" => asked'[arg[Server].to] = asked[arg[Server].to]
  BY <1>1, <1>2 DEF ServerInv, Holds
<1> QED
  BY <1>1, <1>2, <1>3 DEF ServerInv, Same

\* The server has returned from ipc_recv with the request of c.
LEMMA ServerReturned ==
    ASSUME NEW c, NEW v, Holds(c, v)', pc'[Server] = "idle", job'[Server] = "serving",
           ret'[Server].from = c, ret'[Server].value = v, ret'[Server].page, ret'[Server] \in Ret
    PROVE  ServerInv'
  BY DEF ServerInv, Reading

LEMMA InitRpcInv == RpcInit => RpcInv
<1> SUFFICES ASSUME RpcInit PROVE RpcInv
  OBVIOUS
<1>1. Typed
  BY InitTyped DEF RpcInit
<1>2. JobInv
  BY DEF RpcInit, Init, JobInv, Reading
<1>3. ServerInv
  BY ServerIsNoClient DEF RpcInit, Init, ServerInv, Reading
<1>4. ASSUME NEW c \in Client PROVE ClientInv(c)
  BY ServerIsNoClient DEF RpcInit, Init, ClientInv, Reading
<1> QED
  BY <1>1, <1>2, <1>3, <1>4 DEF RpcInv

-----------------------------------------------------------------------------
\* One lemma per step.

LEMMA SendPreserves ==
    ASSUME RpcInv, NEW c \in Client, NEW v \in Request, FsipcSend(c, v)
    PROVE  JobInv' /\ ServerInv' /\ \A d \in Client : ClientInv(d)'
<1> USE ServerIsNoClient
<1>1. /\ job[c] = "ready" /\ job' = [job EXCEPT ![c] = "sending"]
      /\ pc[c] = "idle" /\ pc' = [pc EXCEPT ![c] = "try"]
      /\ arg' = [arg EXCEPT ![c] = [to |-> Server, value |-> v, page |-> TRUE]]
      /\ asked' = [asked EXCEPT ![c] = v]
      /\ UNCHANGED <<fields, local, ret>>
  BY DEF FsipcSend, Job, IpcSend
<1>2. JobInv'
  BY <1>1 DEF RpcInv, JobInv, Typed, TypeOK, fields, Reading
<1>3. \A d \in Env : d # c => Same(d)
  BY <1>1 DEF Same, RpcInv, JobInv, Typed, TypeOK, fields
<1>4. ASSUME NEW d, NEW w, Holds(d, w) PROVE Holds(d, w)'
  <2>1. d # c
    BY <1>1, <1>4 DEF Holds, Pending
  <2> QED
    BY <1>1, <1>3, <1>4, <2>1, HoldsSame DEF Holds, Same, RpcInv, JobInv
<1>5. ServerInv'
  BY <1>3, <1>4, ServerSame
<1>6. ClientInv(c)'
  BY <1>1 DEF ClientInv, RpcInv, JobInv, Typed, TypeOK, Reading
<1>7. ASSUME NEW d \in Client, d # c PROVE ClientInv(d)'
  BY <1>1, <1>3, <1>7, ClientSame DEF RpcInv, JobInv
<1> QED
  BY <1>2, <1>5, <1>6, <1>7

LEMMA RecvPreserves ==
    ASSUME RpcInv, NEW c \in Client, FsipcRecv(c)
    PROVE  JobInv' /\ ServerInv' /\ \A d \in Client : ClientInv(d)'
<1> USE ServerIsNoClient
<1> DEFINE wants == asked[c] \in Opens
<1>1. /\ job[c] = "sending" /\ job' = [job EXCEPT ![c] = "waiting"]
      /\ pc[c] = "idle" /\ pc' = [pc EXCEPT ![c] = "recv"]
      /\ env_ipc_dstva' = [env_ipc_dstva EXCEPT ![c] = wants]
      /\ env_ipc_recving' = [env_ipc_recving EXCEPT ![c] = TRUE]
      /\ asked' = asked
      /\ UNCHANGED <<env_ipc_from, env_ipc_value, env_ipc_perm, page, arg, local, ret>>
  BY DEF FsipcRecv, Job, IpcRecv
<1> HIDE DEF wants
<1>2. JobInv'
  BY <1>1 DEF RpcInv, JobInv, Typed, TypeOK, Reading
<1>3. \A d \in Env : d # c => Same(d)
  BY <1>1 DEF Same, RpcInv, JobInv, Typed, TypeOK
<1>4. ASSUME NEW d, NEW w, Holds(d, w) PROVE Holds(d, w)'
  <2>1. CASE d = c
    BY <1>1, <1>4, <2>1 DEF Holds, Pending, RpcInv, JobInv, Typed, TypeOK
  <2>2. CASE d # c
    BY <1>1, <1>3, <1>4, <2>2, HoldsSame DEF Holds, Same
  <2> QED
    BY <2>1, <2>2
<1>5. ServerInv'
  BY <1>3, <1>4, ServerSame
<1>6. ClientInv(c)'
  <2>1. env_ipc_dstva'[c] = (asked'[c] \in Opens)
    BY <1>1 DEF wants, RpcInv, Typed, TypeOK
  <2> QED
    BY <1>1, <2>1, Zenon DEF ClientInv, RpcInv, JobInv, Typed, TypeOK, Reading
<1>7. ASSUME NEW d \in Client, d # c PROVE ClientInv(d)'
  BY <1>1, <1>3, <1>7, ClientSame DEF RpcInv
<1> QED
  BY <1>2, <1>5, <1>6, <1>7

LEMMA ReturnPreserves ==
    ASSUME RpcInv, NEW c \in Client, FsipcReturn(c)
    PROVE  JobInv' /\ ServerInv' /\ \A d \in Client : ClientInv(d)'
<1> USE ServerIsNoClient
<1>1. /\ job[c] = "waiting" /\ job' = [job EXCEPT ![c] = "ready"]
      /\ pc[c] = "idle" /\ asked' = asked /\ UNCHANGED vars
  BY DEF FsipcReturn, Job
<1>2. JobInv'
  BY <1>1 DEF RpcInv, JobInv, vars, fields
<1>3. \A d \in Env : d # c => Same(d)
  BY <1>1 DEF Same, RpcInv, JobInv, vars, fields
<1>4. ASSUME NEW d, NEW w, Holds(d, w) PROVE Holds(d, w)'
  <2>1. d # c
    BY <1>1, <1>4 DEF Holds, Pending
  <2> QED
    BY <1>1, <1>3, <1>4, <2>1, HoldsSame DEF Holds, Same
<1>5. ServerInv'
  BY <1>3, <1>4, ServerSame
<1>6. ClientInv(c)'
  BY <1>1 DEF ClientInv, RpcInv, JobInv, vars, fields, Reading
<1>7. ASSUME NEW d \in Client, d # c PROVE ClientInv(d)'
  BY <1>1, <1>3, <1>7, ClientSame DEF RpcInv
<1> QED
  BY <1>2, <1>5, <1>6, <1>7

\* A step of the server alone.
LEMMA OnlyServer ==
    ASSUME RpcInv, asked' = asked, \A d \in Client : Same(d)
    PROVE  (\A d \in Client : ClientInv(d)') /\ \A d, w : Holds(d, w) => Holds(d, w)'
<1>1. \A d \in Client : ClientInv(d)'
  BY ClientSame DEF RpcInv
<1>2. ASSUME NEW d, NEW w, Holds(d, w) PROVE Holds(d, w)'
  BY <1>2, HoldsSame DEF Holds, Same
<1> QED
  BY <1>1, <1>2

LEMMA ServePreserves ==
    ASSUME RpcInv, Serve
    PROVE  JobInv' /\ ServerInv' /\ \A d \in Client : ClientInv(d)'
<1> USE ServerIsNoClient
<1>1. CASE ServeRecv
  <2>1. /\ job[Server] = "ready" /\ job' = [job EXCEPT ![Server] = "serving"]
        /\ pc[Server] = "idle" /\ pc' = [pc EXCEPT ![Server] = "recv"]
        /\ env_ipc_dstva' = [env_ipc_dstva EXCEPT ![Server] = TRUE]
        /\ env_ipc_recving' = [env_ipc_recving EXCEPT ![Server] = TRUE]
        /\ asked' = asked
        /\ UNCHANGED <<env_ipc_from, env_ipc_value, env_ipc_perm, page, arg, local, ret>>
    BY <1>1 DEF ServeRecv, Job, IpcRecv
  <2>2. JobInv'
    BY <2>1 DEF RpcInv, JobInv, Typed, TypeOK, Reading
  <2>3. \A d \in Client : Same(d)
    BY <2>1, Zenon DEF Same, RpcInv, JobInv, Typed, TypeOK
  <2>4. ServerInv'
    BY <2>1 DEF ServerInv, RpcInv, JobInv, Typed, TypeOK, Reading
  <2> QED
    BY <2>1, <2>2, <2>3, <2>4, OnlyServer
<1>2. CASE ServeReply
  <2>0. PICK c, v : c = ret[Server].from /\ v = ret[Server].value
    OBVIOUS
  <2>1. PICK x \in Value, pg \in BOOLEAN :
        /\ Answer(v, x, pg)
        /\ job[Server] = "serving" /\ job' = [job EXCEPT ![Server] = "replying"]
        /\ pc[Server] = "idle" /\ pc' = [pc EXCEPT ![Server] = "try"]
        /\ arg' = [arg EXCEPT ![Server] = [to |-> c, value |-> x, page |-> pg]]
        /\ asked' = asked
        /\ UNCHANGED <<fields, local, ret>>
    BY <1>2, <2>0, Zenon DEF ServeReply, Job, IpcSend
  <2>2. Holds(c, v)
    BY <2>0, <2>1 DEF RpcInv, ServerInv
  <2>4. JobInv'
    BY <2>1 DEF RpcInv, JobInv, Typed, TypeOK, fields, Reading
  <2>5. \A d \in Client : Same(d)
    BY <2>1 DEF Same, RpcInv, JobInv, Typed, TypeOK, fields
  <2>6. Holds(c, v)' /\ \A d \in Client : ClientInv(d)'
    BY <2>1, <2>2, <2>5, OnlyServer
  <2>7. /\ pc'[Server] = "try" /\ job'[Server] = "replying"
        /\ arg'[Server] = [to |-> c, value |-> x, page |-> pg] /\ asked'[c] = v
    BY <2>1, <2>2 DEF RpcInv, JobInv, Typed, TypeOK, Holds
  <2>8. ServerInv'
    BY <2>1, <2>6, <2>7 DEF ServerInv, Reading
  <2> QED
    BY <2>4, <2>6, <2>8
<1>3. CASE ServeAgain
  <2>1. /\ job[Server] = "replying" /\ job' = [job EXCEPT ![Server] = "ready"]
        /\ pc[Server] = "idle" /\ asked' = asked /\ UNCHANGED vars
    BY <1>3 DEF ServeAgain, Job
  <2>2. JobInv'
    BY <2>1 DEF RpcInv, JobInv, vars, fields
  <2>3. \A d \in Client : Same(d)
    BY <2>1 DEF Same, RpcInv, JobInv, vars, fields
  <2>4. ServerInv'
    BY <2>1 DEF ServerInv, RpcInv, JobInv, vars, fields, Reading
  <2> QED
    BY <2>1, <2>2, <2>3, <2>4, OnlyServer
<1> QED
  BY <1>1, <1>2, <1>3 DEF Serve

LEMMA DiePreserves ==
    ASSUME RpcInv, NEW e \in Env, Die(e), UNCHANGED <<job, asked>>,
           e = Server => pc[e] = "try"
    PROVE  JobInv' /\ ServerInv' /\ \A d \in Client : ClientInv(d)'
<1> USE ServerIsNoClient
<1>1. /\ pc' = [pc EXCEPT ![e] = "dead"]
      /\ arg' = [arg EXCEPT ![e] = NoMsg] /\ local' = [local EXCEPT ![e] = NoMsg]
      /\ UNCHANGED <<fields, ret, job, asked>>
  BY DEF Die
<1>2. JobInv'
  BY <1>1 DEF RpcInv, JobInv, Typed, TypeOK, fields, Reading
<1>3. \A d \in Env : d # e => Same(d)
  BY <1>1 DEF Same, RpcInv, JobInv, Typed, TypeOK, fields
<1>4. ASSUME NEW d, NEW w, Holds(d, w) PROVE Holds(d, w)'
  <2>1. d \in Env /\ (pc'[d] = "dead" \/ pc'[d] = pc[d])
    BY <1>1, <1>4 DEF Holds, RpcInv, Typed, TypeOK
  <2> QED
    BY <1>1, <1>4, <2>1, HoldsSame
<1>5. ASSUME NEW d \in Client PROVE ClientInv(d)'
  <2>1. CASE d # e
    BY <1>1, <1>3, <2>1, ClientSame, SMTT(30) DEF RpcInv
  <2>2. CASE d = e
    <3>1. pc'[d] = "dead"
      BY <1>1, <2>2 DEF RpcInv, Typed, TypeOK
    <3>2. ClientInv(d)
      BY DEF RpcInv
    <3> QED
      BY <1>1, <3>1, <3>2 DEF ClientInv, Reading
  <2> QED
    BY <2>1, <2>2
<1>6. ServerInv'
  <2>1. CASE e # Server
    BY <1>3, <1>4, <2>1, ServerSame, SMTT(30)
  <2>2. CASE e = Server
    <3>1. pc'[Server] = "dead" /\ job'[Server] = "replying"
      BY <1>1, <2>2 DEF RpcInv, Typed, TypeOK, ServerInv, Reading
    <3> QED
      BY <3>1 DEF ServerInv, Reading
  <2> QED
    BY <2>1, <2>2
<1> QED
  BY <1>2, <1>5, <1>6

\* A client's request reaches the server.
LEMMA RequestPreserves ==
    ASSUME RpcInv, NEW c \in Client, IpcTrySend(c), UNCHANGED <<job, asked>>
    PROVE  JobInv' /\ ServerInv' /\ \A d \in Client : ClientInv(d)'
<1> USE ServerIsNoClient
<1>1. /\ pc[c] = "try" /\ arg[c] = [to |-> Server, value |-> asked[c], page |-> TRUE]
      /\ job[c] = "sending" /\ asked[c] \in Request
  BY Zenon DEF IpcTrySend, RpcInv, ClientInv, Reading
<1>2. pc[Server] = "recv" /\ env_ipc_dstva[Server] /\ job[Server] = "serving"
  BY <1>1 DEF IpcTrySend, RpcInv, JobInv, ServerInv, Reading
<1>3. /\ pc' = [pc EXCEPT ![c] = "idle", ![Server] = "perm"]
      /\ env_ipc_recving' = [env_ipc_recving EXCEPT ![Server] = FALSE]
      /\ env_ipc_from' = [env_ipc_from EXCEPT ![Server] = c]
      /\ env_ipc_value' = [env_ipc_value EXCEPT ![Server] = asked[c]]
      /\ arg' = [arg EXCEPT ![c] = NoMsg]
      /\ UNCHANGED <<env_ipc_dstva, local, ret, job, asked>>
  BY <1>1 DEF IpcTrySend
<1>0. /\ env_ipc_perm'[Server] = TRUE /\ page'[Server] = TRUE
      /\ \A d \in Env : d # Server => env_ipc_perm'[d] = env_ipc_perm[d] /\ page'[d] = page[d]
  BY <1>1, <1>2 DEF IpcTrySend, Transferred, RpcInv, Typed, TypeOK
<1>10. asked[c] \in Value
  BY <1>1, RpcAssumption
<1>4. JobInv'
  BY <1>0, <1>1, <1>3, <1>10, ZenonT(40) DEF RpcInv, JobInv, Typed, TypeOK, Reading
<1>5. \A d \in Client : d # c => Same(d)
  BY <1>0, <1>3, Zenon DEF Same, RpcInv, Typed, TypeOK
<1>6. ASSUME NEW d \in Client PROVE ClientInv(d)'
  <2>1. CASE d # c
    BY <1>3, <1>5, <2>1, ClientSame DEF RpcInv
  <2>2. CASE d = c
    <3>1. pc'[d] = "idle" /\ job'[d] = "sending" /\ asked'[d] \in Request
      BY <1>1, <1>3, <2>2 DEF RpcInv, Typed, TypeOK
    <3> QED
      BY <3>1 DEF ClientInv, Reading
  <2> QED
    BY <2>1, <2>2
<1>7. /\ pc'[Server] = "perm" /\ job'[Server] = "serving" /\ env_ipc_perm'[Server]
      /\ env_ipc_from'[Server] = c /\ env_ipc_value'[Server] = asked[c]
  BY <1>0, <1>2, <1>3 DEF RpcInv, Typed, TypeOK
<1>8. Holds(env_ipc_from[Server], env_ipc_value[Server])'
  BY <1>1, <1>3, <1>7, SMTT(30) DEF Holds, Pending, RpcInv, Typed, TypeOK
<1>9. ServerInv'
  BY <1>7, <1>8 DEF ServerInv, Reading
<1> QED
  BY <1>4, <1>6, <1>9

\* The server's answer reaches the client it is for.
LEMMA AnswerPreserves ==
    ASSUME RpcInv, IpcTrySend(Server), UNCHANGED <<job, asked>>
    PROVE  JobInv' /\ ServerInv' /\ \A d \in Client : ClientInv(d)'
<1> USE ServerIsNoClient
<1>1. PICK c : c = arg[Server].to
  BY SMTT(30)
<1>2. /\ pc[Server] = "try" /\ job[Server] = "replying"
      /\ Holds(c, asked[c]) /\ Answer(asked[c], arg[Server].value, arg[Server].page)
  BY <1>1, SMTT(30) DEF IpcTrySend, RpcInv, ServerInv, Reading
<1>0. PICK x, pg : x = arg[Server].value /\ pg = arg[Server].page
  BY SMTT(30)
<1>3. /\ c \in Client /\ asked[c] \in Request /\ Answer(asked[c], x, pg)
      /\ x \in Value /\ pg \in BOOLEAN /\ (pg => asked[c] \in Opens)
  BY <1>0, <1>2, AnswerIsValue DEF Holds
<1>4. pc[c] = "recv" /\ job[c] = "waiting" /\ env_ipc_dstva[c] = (asked[c] \in Opens)
  <2>1. ClientInv(c) /\ pc[c] = "recv"
    BY <1>1, <1>3 DEF IpcTrySend, RpcInv, JobInv
  <2> QED
    BY <2>1, <1>3 DEF ClientInv
<1>5. /\ pc' = [pc EXCEPT ![Server] = "idle", ![c] = "perm"]
      /\ env_ipc_recving' = [env_ipc_recving EXCEPT ![c] = FALSE]
      /\ env_ipc_from' = [env_ipc_from EXCEPT ![c] = Server]
      /\ env_ipc_value' = [env_ipc_value EXCEPT ![c] = x]
      /\ arg' = [arg EXCEPT ![Server] = NoMsg]
      /\ UNCHANGED <<env_ipc_dstva, local, ret, job, asked>>
  BY <1>0, <1>1, <1>3, SMTT(30) DEF IpcTrySend
<1>6. /\ env_ipc_perm'[c] = pg /\ page'[c] = pg
      /\ \A d \in Env : d # c => env_ipc_perm'[d] = env_ipc_perm[d] /\ page'[d] = page[d]
  BY <1>0, <1>1, <1>2, <1>3, <1>4, Zenon DEF IpcTrySend, Transferred, RpcInv, Typed, TypeOK
<1>7. JobInv'
  <2>1. ASSUME NEW d \in Env, pc'[d] = "perm" PROVE env_ipc_perm'[d] = page'[d]
    BY <1>3, <1>5, <1>6, <2>1 DEF RpcInv, JobInv, Typed, TypeOK
  <2>2. ASSUME NEW d \in Env PROVE
          /\ env_ipc_recving'[d] /\ pc'[d] # "dead" => pc'[d] = "recv"
          /\ pc'[d] \in Reading => env_ipc_value'[d] \in Value
    BY <1>2, <1>3, <1>5, SMTT(30) DEF RpcInv, JobInv, Typed, TypeOK, Reading
  <2> QED
    BY <1>5, <2>1, <2>2, Zenon DEF RpcInv, JobInv
<1>8. \A d \in Client : d # c => Same(d)
  BY <1>3, <1>5, <1>6 DEF Same, RpcInv, Typed, TypeOK
<1>9. ASSUME NEW d \in Client PROVE ClientInv(d)'
  <2>1. CASE d # c
    BY <1>5, <1>8, <2>1, ClientSame DEF RpcInv
  <2>2. CASE d = c
    <3>1. /\ pc'[d] = "perm" /\ job'[d] = "waiting" /\ asked'[d] = asked[c]
          /\ env_ipc_from'[d] = Server /\ env_ipc_value'[d] = x
          /\ env_ipc_perm'[d] = pg
      BY <1>4, <1>5, <1>6, <2>2 DEF RpcInv, Typed, TypeOK
    <3> QED
      BY <1>3, <3>1, SMTT(30) DEF ClientInv, Reading
  <2> QED
    BY <2>1, <2>2
<1>10. pc'[Server] = "idle" /\ job'[Server] = "replying"
  BY <1>2, <1>3, <1>5, SMTT(30) DEF RpcInv, Typed, TypeOK
<1>11. ServerInv'
  BY <1>10 DEF ServerInv, Reading
<1> QED
  BY <1>7, <1>9, <1>11

\* ipc_recv reads on, in a client or in the server.
LEMMA ReadPreserves ==
    ASSUME RpcInv, NEW e \in Env, ReadPerm(e) \/ ReadFrom(e) \/ ReadValue(e),
           UNCHANGED <<job, asked>>
    PROVE  JobInv' /\ ServerInv' /\ \A d \in Client : ClientInv(d)'
<1> USE ServerIsNoClient
<1>1. PICK p \in {"from", "value", "idle"} :
        /\ pc[e] \in Reading /\ pc' = [pc EXCEPT ![e] = p]
        /\ \A d \in Env : d # e => local'[d] = local[d] /\ ret'[d] = ret[d]
        /\ UNCHANGED <<fields, arg, job, asked>>
  BY SMTT(30) DEF ReadPerm, ReadFrom, ReadValue, Reading, RpcInv, Typed, TypeOK
<1>2. JobInv'
  BY <1>1, SMTT(30) DEF RpcInv, JobInv, Typed, TypeOK, fields, Reading
<1>3. \A d \in Env : d # e => Same(d)
  BY <1>1 DEF Same, RpcInv, JobInv, Typed, TypeOK, fields
<1>4. ASSUME NEW d, NEW w, Holds(d, w) PROVE Holds(d, w)'
  <2>1. d # e /\ d \in Env
    BY <1>1, <1>4 DEF Holds, Pending, Reading
  <2> QED
    BY <1>1, <1>3, <1>4, <2>1, HoldsSame, SMTT(30) DEF Same
<1>5. /\ pc'[e] = p
      /\ ReadPerm(e) => /\ pc[e] = "perm" /\ p = "from"
                        /\ local'[e].page = env_ipc_perm[e] /\ ret'[e] = ret[e]
      /\ ReadFrom(e) => /\ pc[e] = "from" /\ p = "value" /\ local'[e].page = local[e].page
                        /\ local'[e].from = env_ipc_from[e] /\ ret'[e] = ret[e]
      /\ ReadValue(e) => /\ pc[e] = "value" /\ p = "idle"
                         /\ ret'[e] = [from |-> local[e].from, value |-> env_ipc_value[e],
                                       page |-> local[e].page]
  BY <1>1 DEF ReadPerm, ReadFrom, ReadValue, RpcInv, Typed, TypeOK, Ret
<1>6. ASSUME NEW d \in Client PROVE ClientInv(d)'
  <2>1. CASE d # e
    BY <1>1, <1>3, <2>1, ClientSame, SMTT(30) DEF RpcInv
  <2>2. CASE d = e
    <3>1. ClientInv(d)
      BY DEF RpcInv
    <3> QED
      BY <1>1, <1>5, <2>2, <3>1, SMTT(30) DEF ClientInv, Reading, fields
  <2> QED
    BY <2>1, <2>2
<1>7. ServerInv'
  <2>1. CASE e # Server
    BY <1>3, <1>4, <2>1, ServerSame
  <2>2. CASE e = Server
    <3>1. PICK c, v : c = env_ipc_from[e] /\ v = env_ipc_value[e]
      OBVIOUS
    <3>2. ServerInv /\ Holds(c, v) /\ Holds(c, v)'
      BY <1>1, <1>4, <2>2, <3>1, SMTT(30) DEF RpcInv, ServerInv
    <3>3. env_ipc_from'[e] = c /\ env_ipc_value'[e] = v /\ job'[e] = job[e] /\ job[e] = "serving"
      BY <1>1, <2>2, <3>1, <3>2, ZenonT(40) DEF fields, ServerInv, Reading
    <3>4. CASE ReadPerm(e)
      BY <1>5, <2>2, <3>2, <3>3, <3>4, ZenonT(40) DEF ServerInv, Reading
    <3>5. CASE ReadFrom(e)
      BY <1>5, <2>2, <3>1, <3>2, <3>3, <3>5, ZenonT(40) DEF ServerInv, Reading
    <3>6. CASE ReadValue(e)
      <4>1. /\ pc'[e] = "idle" /\ local[e].from = c /\ local[e].page
            /\ ret'[e] = [from |-> local[e].from, value |-> env_ipc_value[e], page |-> local[e].page]
        BY <1>5, <2>2, <3>1, <3>2, <3>6, ZenonT(40) DEF ServerInv
      <4>2. c \in Env /\ v \in Value /\ local[e].page \in BOOLEAN
        <5>1. local[e] \in Ret
          BY <1>5, <3>6 DEF RpcInv, Typed
        <5> QED
          BY <5>1, <3>2, RpcAssumption DEF Holds, Client, Ret
      <4>3. ret'[e] \in Ret /\ ret'[e].from = c /\ ret'[e].value = v /\ ret'[e].page
        BY <4>1, <4>2, <3>1 DEF Ret
      <4> QED
        BY <2>2, <3>2, <3>3, <4>1, <4>3, ServerReturned
    <3> QED
      BY <3>4, <3>5, <3>6
  <2> QED
    BY <2>1, <2>2
<1> QED
  BY <1>2, <1>6, <1>7

-----------------------------------------------------------------------------
\* A step of the clients and the server is a use of the message calls.
LEMMA RpcIsIpc == RpcInv /\ [RpcNext]_rpc => [AnyNext]_vars
<1> SUFFICES ASSUME RpcInv, RpcNext PROVE AnyNext \/ UNCHANGED vars
  BY DEF rpc
<1> USE ServerIsNoClient
<1>1. CASE Serve
  <2>1. CASE ServeRecv
    BY <2>1, Zenon DEF ServeRecv, AnyNext
  <2>2. CASE ServeReply
    <3>1. ret[Server].from \in Env
      BY <2>2 DEF ServeReply, Job, RpcInv, ServerInv, Holds
    <3> QED
      BY <2>2, <3>1, Zenon DEF ServeReply, AnyNext
  <2>3. CASE ServeAgain
    BY <2>3 DEF ServeAgain
  <2> QED
    BY <1>1, <2>1, <2>2, <2>3 DEF Serve
<1>2. ASSUME NEW e \in Env, Inside(e) \/ Dies(e) PROVE AnyNext
  BY <1>2 DEF Inside, Dies, AnyNext
<1>3. ASSUME NEW c \in Client, Fsipc(c) PROVE AnyNext \/ UNCHANGED vars
  <2>1. ASSUME NEW v \in Request, FsipcSend(c, v) PROVE AnyNext
    <3>1. v \in Value
      BY RpcAssumption
    <3> QED
      BY <2>1, <3>1, Zenon DEF FsipcSend, AnyNext
  <2>2. CASE FsipcRecv(c)
    <3>1. (asked[c] \in Opens) \in BOOLEAN
      OBVIOUS
    <3> QED
      BY <2>2, <3>1, Zenon DEF FsipcRecv, AnyNext
  <2>3. CASE FsipcReturn(c)
    BY <2>3 DEF FsipcReturn
  <2> QED
    BY <1>3, <2>1, <2>2, <2>3 DEF Fsipc
<1> QED
  BY <1>1, <1>2, <1>3 DEF RpcNext

LEMMA RpcStep == RpcInv /\ [RpcNext]_rpc => RpcInv'
<1> SUFFICES ASSUME RpcInv, [RpcNext]_rpc PROVE RpcInv'
  OBVIOUS
<1>1. Typed'
  BY RpcIsIpc, TypedStep DEF RpcInv
<1>2. JobInv' /\ ServerInv' /\ \A d \in Client : ClientInv(d)'
  <2>1. CASE Serve
    BY <2>1, ServePreserves
  <2>2. ASSUME NEW e \in Env, Inside(e) PROVE JobInv' /\ ServerInv' /\ \A d \in Client : ClientInv(d)'
    <3>1. CASE IpcTrySend(e)
      BY <2>2, <3>1, RequestPreserves, AnswerPreserves DEF Inside, Client
    <3>2. CASE ReadPerm(e) \/ ReadFrom(e) \/ ReadValue(e)
      BY <2>2, <3>2, ReadPreserves DEF Inside
    <3> QED
      BY <2>2, <3>1, <3>2 DEF Inside, Deliver
  <2>3. ASSUME NEW e \in Env, Dies(e) PROVE JobInv' /\ ServerInv' /\ \A d \in Client : ClientInv(d)'
    <3>1. Die(e) /\ UNCHANGED <<job, asked>> /\ (e = Server => pc[e] = "try")
      BY <2>3, ServerIsNoClient DEF Dies, IpcSendPanic
    <3> QED
      BY <3>1, DiePreserves
  <2>4. ASSUME NEW c \in Client, Fsipc(c) PROVE JobInv' /\ ServerInv' /\ \A d \in Client : ClientInv(d)'
    BY <2>4, SendPreserves, RecvPreserves, ReturnPreserves, SMTT(30) DEF Fsipc
  <2>5. CASE UNCHANGED rpc
    <3>1. UNCHANGED <<pc, env_ipc_recving, env_ipc_from, env_ipc_value, env_ipc_perm, env_ipc_dstva, page>>
      BY <2>5, Zenon DEF rpc, vars, fields
    <3>2. UNCHANGED <<arg, local, ret, job, asked>>
      BY <2>5, Zenon DEF rpc, vars
    <3>3. JobInv'
      BY <3>1, <3>2, Zenon DEF RpcInv, JobInv
    <3>4. \A d, w : Holds(d, w)' <=> Holds(d, w)
      BY <3>1, <3>2, Zenon DEF Holds, Pending
    <3>5. ServerInv'
      BY <3>1, <3>2, <3>4 DEF RpcInv, ServerInv
    <3>6. \A d \in Client : ClientInv(d)'
      BY <3>1, <3>2 DEF RpcInv, ClientInv
    <3> QED
      BY <3>3, <3>5, <3>6
  <2> QED
    BY <2>1, <2>2, <2>3, <2>4, <2>5 DEF RpcNext
<1> QED
  BY <1>1, <1>2 DEF RpcInv

\* The inductive invariant of clients and server.
THEOREM RpcInvariance == RpcSpec => []RpcInv
  BY InitRpcInv, RpcStep, PTL DEF RpcSpec

\* fsipc returns the file server's answer to the request it sent, and the page is
\* mapped exactly if the request was an open that succeeded, for any number of
\* clients and requests and also when clients die: no answer is for another
\* client or an earlier request.
THEOREM AnswersMatch == RpcSpec => []ReplyMatches
<1>1. RpcInv => ReplyMatches
  BY ZenonT(40) DEF RpcInv, ClientInv, ReplyMatches
<1> QED
  BY RpcInvariance, <1>1, PTL

\* In fsipc and serve a permission is never left over from an earlier message,
\* although a client asks for a page in one ipc_recv and for none in the next:
\* the server sends a page only to a receive that asks for one, and an open that
\* fails, which is sent none, has its permission cleared.
THEOREM PermissionsMatch == RpcSpec => []PermMeansPage
<1>1. RpcInv => PermMeansPage
  BY DEF RpcInv, JobInv, PermMeansPage
<1> QED
  BY RpcInvariance, <1>1, PTL
=============================================================================
