------------------------------- MODULE FsRpc -------------------------------
(***************************************************************************)
(* Requests to the file server on top of module Ipc: fsipc of lib/file.c   *)
(* (nsipc of lib/nsipc.c is the same) and the loop serve of fs/serv.c.     *)
(* The answer to request v is <<v, TRUE>>, a result >= 0, or <<v, FALSE>>, *)
(* an error; a page comes with the answer to an open that succeeded.       *)
(***************************************************************************)
EXTENDS Ipc

CONSTANTS Server, Request, Opens

ASSUME RpcAssumption ==
    /\ Server \in Env
    /\ Opens \subseteq Request
    /\ Request \subseteq Value /\ Request \X BOOLEAN \subseteq Value

\* The handler of request v may answer x, and pg says whether a page goes with it:
\* serve_open stores the page to send only when it succeeds.
Answer(v, x, pg) == \E ok \in BOOLEAN : x = <<v, ok>> /\ pg = (ok /\ v \in Opens)

Client == Env \ {Server}

VARIABLES
    job,    \* where a client is in fsipc, the server in serve
    asked   \* the request of the client's last fsipc

rpc == <<vars, job, asked>>

RpcInit ==
    /\ Init
    /\ job = [e \in Env |-> "ready"]
    /\ asked = [c \in Client |-> NoMsg]

Job(e, from, to) == job[e] = from /\ job' = [job EXCEPT ![e] = to]

\* fsipc: ipc_send to the server with the request page.
FsipcSend(c, v) ==
    /\ Job(c, "ready", "sending")
    /\ IpcSend(c, Server, v, TRUE)
    /\ asked' = [asked EXCEPT ![c] = v]

\* ipc_send has returned: ipc_recv(NULL, dstva, NULL).
FsipcRecv(c) ==
    /\ Job(c, "sending", "waiting")
    /\ IpcRecv(c, asked[c] \in Opens)
    /\ UNCHANGED asked

\* ipc_recv has returned, and fsipc returns what it returned.
FsipcReturn(c) ==
    /\ pc[c] = "idle"
    /\ Job(c, "waiting", "ready")
    /\ UNCHANGED <<vars, asked>>

ServeRecv ==
    /\ Job(Server, "ready", "serving")
    /\ IpcRecv(Server, TRUE)
    /\ UNCHANGED asked

\* Fault: the handler does not return.
ServeReplyHangs ==
    /\ pc[Server] = "idle"
    /\ Job(Server, "serving", "serving")
    /\ UNCHANGED <<vars, asked>>

\* Fault: the answer to every request carries a page.
ServeReplyAlwaysPage ==
    /\ pc[Server] = "idle"
    /\ Job(Server, "serving", "replying")
    /\ ret[Server].page
    /\ \E x \in Value, pg \in BOOLEAN :
        /\ Answer(ret[Server].value, x, pg)
        /\ IpcSend(Server, ret[Server].from, x, TRUE)
    /\ UNCHANGED asked

\* ipc_recv has returned a request (with its page, as fsipc always sends it);
\* the handler runs and ipc_send is called.
ServeReply ==
    /\ pc[Server] = "idle"
    /\ Job(Server, "serving", "replying")
    /\ ret[Server].page
    /\ \E x \in Value, pg \in BOOLEAN :
        /\ Answer(ret[Server].value, x, pg)
        /\ IpcSend(Server, ret[Server].from, x, pg)
    /\ UNCHANGED asked

\* Fault: the server does not go back to ipc_recv.
ServeAgainStops ==
    /\ pc[Server] = "idle"
    /\ Job(Server, "replying", "replying")
    /\ UNCHANGED <<vars, asked>>

\* ipc_send has returned: unmap the request and loop.
ServeAgain ==
    /\ pc[Server] = "idle"
    /\ Job(Server, "replying", "ready")
    /\ UNCHANGED <<vars, asked>>

Serve == ServeRecv \/ ServeReply \/ ServeAgain
Inside(e) == Deliver(e) /\ UNCHANGED <<job, asked>>
Dies(e) == (IpcSendPanic(e) \/ (e \in Client /\ Die(e))) /\ UNCHANGED <<job, asked>>
Fsipc(c) == (\E v \in Request : FsipcSend(c, v)) \/ FsipcRecv(c) \/ FsipcReturn(c)

\* Clients may end at any time; the server panics when it answers one that has.
RpcNext ==
    \/ Serve
    \/ \E e \in Env : Inside(e) \/ Dies(e)
    \/ \E c \in Client : Fsipc(c)

\* Every environment that can run does (module Kernel); a client that is not in
\* a call may never make one.
RpcFairness ==
    /\ WF_rpc(Serve)
    /\ \A e \in Env : WF_rpc(Inside(e))
    /\ \A c \in Client : WF_rpc(FsipcRecv(c)) /\ WF_rpc(FsipcReturn(c))

RpcSpec == RpcInit /\ [][RpcNext]_rpc /\ RpcFairness

-----------------------------------------------------------------------------
\* Properties.

\* fsipc returns the file server's result for the request it sent, and the page of
\* an open is mapped exactly when that result is not an error: open, which takes
\* the descriptor for valid then, is right to.  No client gets the answer meant
\* for another, or for an earlier request, also when clients die.
ReplyMatches ==
    \A c \in Client :
        job[c] = "waiting" /\ pc[c] = "idle"
        => ret[c].from = Server /\ Answer(asked[c], ret[c].value, ret[c].page)

SomeoneDied == \E e \in Env : pc[e] = "dead"

\* A request the server has taken is answered, unless a client dies or the server
\* panics.
Answered == \A c \in Client : job[c] = "waiting" ~> (job[c] = "ready" \/ SomeoneDied)

\* While a client retries its ipc_send, the server goes on taking requests,
\* unless a client dies or the server panics.
ServerGoesOn ==
    <>SomeoneDied \/ \A c \in Client : []<>(pc[c] # "try") \/ []<>(pc[Server] = "perm")
=============================================================================
