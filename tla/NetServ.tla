------------------------------ MODULE NetServ ------------------------------
(***************************************************************************)
(* The network server: the loop serve and the serve_threads of net/serv.c, *)
(* the cooperative threads of jos/arch/thread.c, the semaphores and        *)
(* mailboxes of jos/arch/sys_arch.c, and the socket calls of lwIP down to  *)
(* the functions the tcpip thread runs (sockets.c, api_lib.c, api_msg.c,   *)
(* tcpip.c).  TCP itself is the choice of what a call or a segment does to *)
(* its connection.  One thread, cur, runs; it gives the processor away     *)
(* only in thread_yield, and the whole environment sleeps in ipc_recv.     *)
(***************************************************************************)
EXTENDS Integers, Sequences, FiniteSets

CONSTANTS
    Conn,       \* netconns (memp pool MEMP_NUM_NETCONN), and their sockets
    Tcp,        \* names the mailbox of the tcpip thread
    Client,     \* environments that use sockets
    NBuf,       \* QUEUE_SIZE
    TcpSlots,   \* MBOXSLOTS, for the tcpip mailbox
    ConnSlots,  \* MBOXSLOTS, for the mailbox of a netconn
    MaxYields,  \* the 32 of serve
    Window,     \* segments a peer sends on a connection
    Push,       \* values of the PUSH flag of segments
    MaxReq,     \* the numbers of requests the clients may make
    Sharing     \* may two clients use one socket (after fork)?

Main == 0
Tcpip == NBuf + 1
Tmr == NBuf + 2             \* the three net_timer threads
Serve == 1 .. NBuf          \* a serve_thread is named by the buffer it holds
Thread == 0 .. NBuf + 2

Mbox == Conn \cup {Tcp}
Slots(m) == IF m = Tcp THEN TcpSlots ELSE ConnSlots
Sem == {"queued", "free", "op"} \X Mbox     \* queued_msg, free_msg; op_completed
Nil == "nil"                                \* a NULL posted to a mailbox

VARIABLES
    queue,  \* thread_queue
    cur,    \* cur_tc
    th,     \* thread contexts, with the call each thread is in
    sem,    \* sems
    mbox,   \* mboxes
    conn,   \* netconns and sockets
    spins,  \* i, of serve
    buse,   \* the buffers in use
    cl      \* clients

vars == <<queue, cur, th, sem, mbox, conn, spins, buse, cl>>

\* A request: a socket call of a client, or a segment from the input environment.
Call == {"socket", "listen", "accept", "connect", "recv", "write", "close"}
Segment == {"syn", "synack", "data", "fin", "ack", "rst"}
NoReq == [op |-> "none", who |-> "none", c |-> "none", push |-> TRUE]

NoWait == <<"none", Tcp>>
NewThread(pc, req) ==
    [pc |-> pc, req |-> req,
     sem |-> NoWait, ret |-> "none", gen |-> 0, ok |-> TRUE,    \* sys_arch_sem_wait
     val |-> <<0, 0>>, wakeup |-> FALSE,                    \* thread_wait
     fn |-> "none", tgt |-> "none", acked |-> FALSE,        \* tcpip_apimsg
     n |-> "none", off |-> 0]                               \* newconn; bytes read

NoConn == [used |-> FALSE, sock |-> FALSE, pcb |-> FALSE, up |-> FALSE, lis |-> FALSE,
           fatal |-> FALSE, state |-> "none", ev |-> 0,
           in |-> 0, posted |-> 0, read |-> 0]
NoMbox == [live |-> FALSE, head |-> -1, nextq |-> 0, msg |-> <<>>]
NoSem == [freed |-> TRUE, gen |-> 0, counter |-> 0, waiters |-> 0]

V(s) == <<sem[s].counter, sem[s].waiters>>

\* sys_sem_new: the waiters of an earlier use stay.
sys_sem_new(S, s, count) ==
    [S EXCEPT ![s] = [freed |-> FALSE, gen |-> @.gen + 1, counter |-> count, waiters |-> @.waiters]]
\* sys_sem_free wakes nobody.
sys_sem_free(S, s) == [S EXCEPT ![s].freed = TRUE, ![s].gen = @ + 1]

\* sys_mbox_new and sys_mbox_free.
MboxSems(S, m) == sys_sem_new(sys_sem_new(S, <<"queued", m>>, 0), <<"free", m>>, Slots(m))
MboxSemsFree(S, m) == sys_sem_free(sys_sem_free(S, <<"queued", m>>), <<"free", m>>)
Empty(m) == IF m = Tcp THEN Main ELSE Nil
NewMbox(m) == [live |-> TRUE, head |-> -1, nextq |-> 0, msg |-> [i \in 0 .. Slots(m) - 1 |-> Empty(m)]]

\* The state after serve_init, when the main thread enters serve.
Init ==
    /\ queue = <<Tcpip, Tmr>>
    /\ cur = Main
    /\ th = [t \in Thread |->
               NewThread(CASE t = Main -> "serve" [] t = Tcpip -> "fetch"
                           [] t = Tmr -> "tmr" [] OTHER -> "none", NoReq)]
    /\ sem = MboxSems([s \in Sem |-> NoSem], Tcp)
    /\ mbox = [m \in Mbox |-> IF m = Tcp THEN NewMbox(Tcp) ELSE NoMbox]
    /\ conn = [c \in Conn |-> NoConn]
    /\ spins = 0
    /\ buse = {}
    /\ \E m \in MaxReq :
         cl = [k \in Client |-> [st |-> "idle", left |-> m[k], socks |-> {}, ret |-> "none"]]

-----------------------------------------------------------------------------
\* Threads.

At(t, pc) == cur = t /\ th[t].pc = pc
Goto(T, pc) == [T EXCEPT ![cur].pc = pc]

\* thread_yield, with T the contexts it leaves.
Yield(T) ==
    /\ th' = T
    /\ IF queue = <<>> THEN UNCHANGED <<queue, cur>>
       ELSE cur' = Head(queue) /\ queue' = Append(Tail(queue), cur)

Stay(T) == th' = T /\ UNCHANGED <<queue, cur>>

\* thread_halt: the context is not pushed again.
Halt(T) ==
    /\ th' = [T EXCEPT ![cur] = NewThread("none", NoReq)]
    /\ cur' = Head(queue)
    /\ queue' = Tail(queue)

\* panic in the network server: the whole environment ends.  `why' is "overflow"
\* for the panic of get_buffer, "misuse" for a call that lwIP asserts not to get,
\* "orphan" when a mailbox is freed under a thread that waits for room in it, and
\* "panic" for anything else.
Ended == {"overflow", "misuse", "orphan", "panic"}
Panic(why) == cur' = Main /\ queue' = <<>> /\ th' = [th EXCEPT ![Main].pc = why]

wakeups_pending == \E i \in 1 .. Len(queue) : th[queue[i]].wakeup

-----------------------------------------------------------------------------
\* Semaphores and mailboxes.

\* Call sys_arch_sem_wait(s, 0) and go on at ret.
Wait(T, s, ret) ==
    [T EXCEPT ![cur].pc = "sem", ![cur].sem = s, ![cur].ret = ret,
              ![cur].gen = sem[s].gen]
Return(T, ok) ==
    [T EXCEPT ![cur].pc = th[cur].ret, ![cur].ok = ok, ![cur].sem = NoWait,
              ![cur].ret = "none", ![cur].gen = 0, ![cur].val = <<0, 0>>]

\* sys_sem_signal, its effect on the semaphores and, by thread_wakeup, on the
\* threads.
SignalSem(S, s) == [S EXCEPT ![s].counter = @ + 1, ![s].waiters = 0]
thread_wakeup(T, s) ==
    [t \in Thread |-> [T[t] EXCEPT !.wakeup = @ \/ (T[t].pc = "wait" /\ T[t].sem = s)]]
\* Fault: one waiter is not enough.
SignalThreadsTwo(T, S, s) == IF S[s].waiters > 1 THEN thread_wakeup(T, s) ELSE T
SignalThreads(T, S, s) == IF S[s].waiters # 0 THEN thread_wakeup(T, s) ELSE T

\* One turn of the loop of sys_arch_sem_wait.
SemWait ==
    /\ th[cur].pc = "sem"
    /\ LET s == th[cur].sem IN
       IF sem[s].freed THEN Panic("panic") /\ UNCHANGED sem
       ELSE IF sem[s].counter > 0
       THEN /\ sem' = [sem EXCEPT ![s].counter = @ - 1]
            /\ Stay(Return(th, TRUE))
       ELSE /\ sem' = [sem EXCEPT ![s].waiters = 1]
            /\ Yield([th EXCEPT ![cur].pc = "wait", ![cur].wakeup = FALSE,
                                ![cur].val = <<sem[s].counter, 1>>])
    /\ UNCHANGED <<mbox, conn, spins, buse, cl>>

\* thread_wait is resumed.  When it returns, a semaphore freed meanwhile makes
\* sys_arch_sem_wait return SYS_ARCH_TIMEOUT; who waited for room in a mailbox does
\* not look at that and goes on to use the mailbox, which is gone.
ThreadWait ==
    /\ th[cur].pc = "wait"
    /\ LET s == th[cur].sem IN
       IF V(s) # th[cur].val \/ th[cur].wakeup
       THEN LET T == [th EXCEPT ![cur].wakeup = FALSE] IN
            IF sem[s].gen # th[cur].gen
            THEN IF th[cur].ret \in {"rput", "errput"} THEN Panic("orphan") ELSE Stay(Return(T, FALSE))
            ELSE Stay(Goto(T, "sem"))
       ELSE Yield(th)
    /\ UNCHANGED <<sem, mbox, conn, spins, buse, cl>>

\* The rest of sys_mbox_trypost, after sys_arch_sem_wait(free_msg).
Full(m) == mbox[m].nextq = mbox[m].head
Post(m, msg) ==
    LET slot == mbox[m].nextq IN
    mbox' = [mbox EXCEPT ![m].nextq = (slot + 1) % Slots(m), ![m].msg[slot] = msg,
                         ![m].head = IF @ = -1 THEN slot ELSE @]

\* The rest of sys_arch_mbox_fetch, after sys_arch_sem_wait(queued_msg).
Front(m) == mbox[m].msg[mbox[m].head]
\* Fault: the ring is never marked empty.
FetchOn(m) ==
    mbox' = [mbox EXCEPT ![m].head = (@ + 1) % Slots(m), ![m].msg[mbox[m].head] = Empty(m)]
Fetch(m) ==
    LET next == (mbox[m].head + 1) % Slots(m) IN
    mbox' = [mbox EXCEPT ![m].head = IF next = mbox[m].nextq THEN -1 ELSE next,
                         ![m].msg[mbox[m].head] = Empty(m)]

-----------------------------------------------------------------------------
\* The tcpip thread.

\* tcpip_apimsg(fn) on netconn c: post a message that lies on this stack.
Api(T, fn, c) ==
    [Wait(T, <<"free", Tcp>>, "put") EXCEPT ![cur].fn = fn, ![cur].tgt = c, ![cur].acked = FALSE]

\* sys_mbox_post has a free slot; then wait for op_completed.
ApiPut ==
    /\ th[cur].pc = "put"
    /\ IF Full(Tcp) THEN Panic("panic") /\ UNCHANGED <<sem, mbox>>
       ELSE /\ Post(Tcp, cur)
            /\ sem' = SignalSem(sem, <<"queued", Tcp>>)
            /\ Stay(Wait(SignalThreads(th, sem, <<"queued", Tcp>>), <<"op", th[cur].tgt>>, "acked"))
    /\ UNCHANGED <<conn, spins, buse, cl>>

TcpipFetch ==
    /\ At(Tcpip, "fetch")
    /\ Stay(Wait(th, <<"queued", Tcp>>, "got"))
    /\ UNCHANGED <<sem, mbox, conn, spins, buse, cl>>

\* What the functions do_* may leave of netconn c, and whether they signal
\* op_completed now.  do_writemore may find no room to send, tcp_close no memory.
Outcome(cs, ack) == [conn |-> cs, ack |-> ack]
Closed(c) == [conn[c] EXCEPT !.pcb = FALSE, !.up = FALSE, !.state = "none"]
Failed(c) == [conn[c] EXCEPT !.fatal = TRUE]            \* ERR_CONN
Unused(c) == ~conn[c].up /\ ~conn[c].lis /\ conn[c].state = "none"   \* the pcb is CLOSED
do_write(c) ==
    IF conn[c].fatal \/ ~conn[c].pcb THEN {Outcome(conn[c], TRUE)}
    ELSE IF Unused(c) \/ conn[c].lis THEN {Outcome(Failed(c), TRUE)}
    ELSE {Outcome([conn[c] EXCEPT !.state = "none"], TRUE),
          Outcome([conn[c] EXCEPT !.state = "write"], FALSE)}
do_connect(c) ==
    IF conn[c].pcb THEN {Outcome([conn[c] EXCEPT !.state = "connect"], FALSE)}
    ELSE {Outcome(conn[c], TRUE)}
\* Fault: nobody is told that a listening pcb is closed.
do_delconn_silent(c) ==
    IF ~conn[c].pcb THEN {Outcome(conn[c], TRUE)} ELSE {Outcome(Closed(c), ~conn[c].lis)}
do_delconn(c) ==
    IF ~conn[c].pcb THEN {Outcome(conn[c], TRUE)}
    ELSE {Outcome(Closed(c), TRUE)}
         \cup {o \in {Outcome([conn[c] EXCEPT !.state = "close"], FALSE)} : ~conn[c].lis}
Listens(c) == conn[c].pcb /\ ~conn[c].fatal /\ Unused(c)
do_listen(c) ==
    IF conn[c].fatal \/ ~conn[c].pcb THEN {Outcome(conn[c], TRUE)}
    ELSE {Outcome(IF Unused(c) THEN [conn[c] EXCEPT !.lis = TRUE] ELSE Failed(c), TRUE)}
Do(fn, c) ==
    CASE fn = "newconn" -> {Outcome([conn[c] EXCEPT !.pcb = TRUE], TRUE)}
      [] fn = "listen" -> do_listen(c)
      [] fn = "connect" -> do_connect(c)
      [] fn = "write" -> do_write(c)
      [] fn = "delconn" -> do_delconn(c)
      [] OTHER -> {Outcome(conn[c], TRUE)}      \* do_recv, do_getaddr

\* One turn of tcpip_thread: fetch a message and run its function.  do_listen
\* replaces recvmbox by acceptmbox; tcp_connect takes only a CLOSED pcb.
TcpipRun ==
    /\ At(Tcpip, "got")
    /\ LET t == Front(Tcp)
           c == th[t].tgt
           S1 == SignalSem(sem, <<"free", Tcp>>)
           T1 == SignalThreads(th, sem, <<"free", Tcp>>)
           swap == th[t].fn = "listen" /\ Listens(c)
           S2 == IF swap THEN MboxSems(MboxSemsFree(S1, c), c) ELSE S1
       IN  IF th[t].fn = "connect" /\ conn[c].pcb /\ ~Unused(c)
           THEN Panic("misuse") /\ UNCHANGED <<sem, mbox, conn>>
           ELSE \E o \in Do(th[t].fn, c) :
             /\ conn' = [conn EXCEPT ![c] = o.conn]
             /\ Fetch(Tcp)
             /\ sem' = IF o.ack THEN SignalSem(S2, <<"op", c>>) ELSE S2
             /\ LET T2 == Goto(IF o.ack THEN SignalThreads(T1, S2, <<"op", c>>) ELSE T1, "fetch")
                IN  Stay([T2 EXCEPT ![t].acked = o.ack])
    /\ UNCHANGED <<spins, buse, cl>>

-----------------------------------------------------------------------------
\* Callbacks from TCP, in the thread that runs it: a serve_thread with a segment
\* or a timer thread.

\* do_writemore or do_close_internal is called again and now succeeds.
Finished(c) ==
    /\ conn[c].pcb
    /\ conn[c].state \in {"write", "close"}
    /\ conn' = [conn EXCEPT ![c] = IF @.state = "close" THEN Closed(c) ELSE [@ EXCEPT !.state = "none"]]

\* op_completed is signalled for the thread that waits in a call on c.
SignalOp(T, c) ==
    LET T1 == SignalThreads(T, sem, <<"op", c>>) IN
    [t \in Thread |-> IF T1[t].tgt = c /\ T1[t].fn \in {"write", "connect", "delconn"}
                      THEN [T1[t] EXCEPT !.acked = TRUE] ELSE T1[t]]

\* err_tcp, up to sys_mbox_post(recvmbox, NULL).
err_tcp(c) ==
    /\ conn[c].pcb /\ ~conn[c].lis
    /\ conn[c].up \/ conn[c].state = "connect"
    /\ conn' = [conn EXCEPT ![c].pcb = FALSE, ![c].up = FALSE, ![c].fatal = TRUE, ![c].ev = @ + 1]
    /\ Stay([Wait(th, <<"free", c>>, "errput") EXCEPT ![cur].n = c])

\* Fault: whatever the state of the connection.
PendingAlways(c) == conn[c].state \in {"none", "connect", "write", "close"}
\* The rest of err_tcp: the NULL is posted and whoever waits is woken.
Pending(c) == conn[c].state \in {"connect", "write", "close"}
ErrPut ==
    /\ th[cur].pc = "errput"
    /\ LET c == th[cur].n
           q == <<"queued", c>>
           S1 == SignalSem(sem, q)
           T1 == SignalThreads(th, sem, q)
       IN  IF Full(c) \/ sem[q].freed THEN Panic("panic") /\ UNCHANGED <<sem, mbox, conn>>
           ELSE /\ Post(c, Nil)
                /\ conn' = [conn EXCEPT ![c].state = IF Pending(c) THEN "none" ELSE @]
                /\ sem' = IF Pending(c) THEN SignalSem(S1, <<"op", c>>) ELSE S1
                /\ Stay([(IF Pending(c) THEN SignalOp(T1, c) ELSE T1) EXCEPT
                           ![cur].pc = IF cur = Tmr THEN "tmr" ELSE "end", ![cur].n = "none"])
    /\ UNCHANGED <<spins, buse, cl>>

\* net_timer: the timer functions poll connections that wait to write or to
\* close, give up connections after too many retransmissions, or do nothing.
TmrPoll(c) ==
    /\ At(Tmr, "tmr")
    /\ Finished(c)
    /\ sem' = SignalSem(sem, <<"op", c>>)
    /\ Yield(SignalOp(th, c))
    /\ UNCHANGED <<mbox, spins, buse, cl>>
TmrAbort(c) ==
    /\ At(Tmr, "tmr")
    /\ err_tcp(c)
    /\ UNCHANGED <<sem, mbox, spins, buse, cl>>
TmrIdle ==
    /\ At(Tmr, "tmr")
    /\ Yield(th)
    /\ UNCHANGED <<sem, mbox, conn, spins, buse, cl>>

\* A serve_thread with a segment for connection c: jif_input, and what tcp_input
\* calls back.  TCP may drop any segment: it is out of order, or its connection
\* is gone.
Req == th[cur].req
SegIgnored == Stay(Goto(th, "end")) /\ UNCHANGED <<sem, mbox, conn>>

\* recv_tcp, up to sys_mbox_trypost.
recv_tcp(c) ==
    /\ Req.op \in {"data", "fin"}
    /\ conn[c].pcb /\ conn[c].up /\ conn[c].state # "close"
    /\ conn' = [conn EXCEPT ![c].fatal = FALSE, ![c].ev = @ + 1, ![c].posted = IF Req.op = "data" THEN @ + 1 ELSE @]
    /\ Stay(Wait(th, <<"free", c>>, "rput"))
    /\ UNCHANGED <<sem, mbox>>

\* sys_sem_new, sys_mbox_new of netconn_alloc.
NewConnSems(S, c) == MboxSems(sys_sem_new(S, <<"op", c>>, 0), c)

\* accept_function, up to sys_mbox_trypost(acceptmbox); without a free netconn
\* the new connection is aborted.
accept_function(c) ==
    /\ Req.op = "syn"
    /\ conn[c].pcb /\ conn[c].lis
    /\ IF \A x \in Conn : conn[x].used THEN SegIgnored
       ELSE \E x \in {y \in Conn : ~conn[y].used} :
            /\ conn' = [conn EXCEPT ![c].ev = @ + 1,
                                    ![x] = [NoConn EXCEPT !.used = TRUE, !.pcb = TRUE, !.up = TRUE]]
            /\ sem' = NewConnSems(sem, x)
            /\ mbox' = [mbox EXCEPT ![x] = NewMbox(x)]
            /\ Stay([Wait(th, <<"free", c>>, "rput") EXCEPT ![cur].n = x])

\* sent_tcp: room to send, or to close; do_connected.
sent_tcp(c) ==
    /\ Req.op = "ack"
    /\ Finished(c)
    /\ sem' = SignalSem(sem, <<"op", c>>)
    /\ Stay(Goto(SignalOp(th, c), "end"))
    /\ UNCHANGED mbox
do_connected(c) ==
    /\ Req.op = "synack"
    /\ conn[c].pcb /\ conn[c].state = "connect"
    /\ conn' = [conn EXCEPT ![c].state = "none", ![c].up = TRUE]
    /\ sem' = SignalSem(sem, <<"op", c>>)
    /\ Stay(Goto(SignalOp(th, c), "end"))
    /\ UNCHANGED mbox

ServeSegment ==
    /\ th[cur].pc = "begin" /\ Req.op \in Segment
    /\ LET c == Req.c IN
       \/ recv_tcp(c) \/ accept_function(c) \/ sent_tcp(c) \/ do_connected(c)
       \/ Req.op = "rst" /\ err_tcp(c) /\ UNCHANGED <<sem, mbox>>
       \/ SegIgnored
    /\ UNCHANGED <<spins, buse, cl>>

\* The segment, or the accepted netconn, is posted: the rest of recv_tcp and of
\* accept_function.
SegPut ==
    /\ th[cur].pc = "rput"
    /\ LET c == Req.c
           q == <<"queued", c>>
           msg == CASE Req.op = "syn" -> th[cur].n [] Req.op = "fin" -> Nil
                    [] OTHER -> IF Req.push THEN "push" ELSE "more"
       IN  IF sem[q].freed THEN Panic("panic") /\ UNCHANGED <<sem, mbox>>
           ELSE IF Full(c) THEN Stay(Goto(th, "end")) /\ UNCHANGED <<sem, mbox>>
           ELSE /\ Post(c, msg)
                /\ sem' = SignalSem(sem, q)
                /\ Stay(Goto(SignalThreads(th, sem, q), "end"))
    /\ UNCHANGED <<conn, spins, buse, cl>>

\* The end of serve_thread: ipc_send the answer to a client, put_buffer, halt.
ServeEnd ==
    /\ th[cur].pc = "end"
    /\ buse' = buse \ {cur}
    /\ Halt(th)
    /\ UNCHANGED <<sem, mbox, conn, spins, cl>>
Answer(k, ret, new) ==
    /\ cl' = [cl EXCEPT ![k].st = "idle", ![k].ret = ret, ![k].socks = (@ \ {Req.c}) \cup new]
    /\ buse' = buse \ {cur}
    /\ Halt(th)
Kept == {Req.c} \cap cl[Req.who].socks

-----------------------------------------------------------------------------
\* Socket calls of a client, in a serve_thread.

ApiName(op) == IF op = "close" THEN "delconn" ELSE op

\* lwip_socket: netconn_alloc, then do_newconn; no netconn left is an error.
ServeSocket ==
    /\ th[cur].pc = "begin" /\ Req.op = "socket"
    /\ IF \A x \in Conn : conn[x].used
       THEN Answer(Req.who, "error", {}) /\ UNCHANGED <<sem, mbox, conn>>
       ELSE \E x \in {y \in Conn : ~conn[y].used} :
            /\ conn' = [conn EXCEPT ![x] = [NoConn EXCEPT !.used = TRUE]]
            /\ sem' = NewConnSems(sem, x)
            /\ mbox' = [mbox EXCEPT ![x] = NewMbox(x)]
            /\ Stay([Wait(th, <<"free", Tcp>>, "put") EXCEPT ![cur].fn = "newconn", ![cur].tgt = x])
            /\ UNCHANGED <<buse, cl>>
    /\ UNCHANGED spins

\* get_socket fails for a socket that is not open; lwip_listen, lwip_connect,
\* lwip_send and lwip_close call the tcpip thread.
ServeCall ==
    /\ th[cur].pc = "begin" /\ Req.op \in {"listen", "connect", "write", "close"}
    /\ IF conn[Req.c].sock
       THEN Stay(Api(th, ApiName(Req.op), Req.c)) /\ UNCHANGED <<buse, cl>>
       ELSE Answer(Req.who, "error", Kept)
    /\ UNCHANGED <<sem, mbox, conn, spins>>

\* lwip_accept and lwip_recv up to the wait for a message: netconn_accept asserts
\* an acceptmbox; netconn_recv needs a recvmbox and a connection without error.
ServeFetch ==
    /\ th[cur].pc \in {"begin", "again"} /\ Req.op \in {"accept", "recv"}
    /\ LET c == Req.c
           accepts == Req.op = "accept"
           fails == ~accepts /\ (conn[c].lis \/ conn[c].fatal)
       IN  /\ conn' = IF conn[c].sock /\ fails THEN [conn EXCEPT ![c].fatal = TRUE] ELSE conn
           /\ IF ~conn[c].sock THEN Answer(Req.who, "error", Kept)
              ELSE IF fails THEN Answer(Req.who, "eof", Kept)
              ELSE IF accepts /\ ~conn[c].lis THEN Panic("misuse") /\ UNCHANGED <<buse, cl>>
              ELSE Stay(Wait(th, <<"queued", c>>, "rtake")) /\ UNCHANGED <<buse, cl>>
    /\ UNCHANGED <<sem, mbox, spins>>

\* A message arrived: the rest of sys_arch_mbox_fetch and of netconn_accept or
\* netconn_recv.  lwip_recvfrom answers a NULL with 0.  When the mailbox was
\* freed meanwhile the message is an uninitialized pointer.
ServeTake ==
    /\ th[cur].pc = "rtake"
    /\ LET c == Req.c
           f == <<"free", c>>
       IN  IF ~th[cur].ok THEN Panic("panic") /\ UNCHANGED <<sem, mbox, conn, buse, cl>>
           ELSE /\ Fetch(c)
                /\ sem' = SignalSem(sem, f)
                /\ conn' = [conn EXCEPT ![c].ev = @ - 1, ![c].fatal = @ \/ Front(c) = Nil]
                /\ LET msg == Front(c)
                       T == SignalThreads(th, sem, f)
                   IN  IF msg = Nil
                       THEN /\ cl' = [cl EXCEPT ![Req.who].st = "idle", ![Req.who].ret = "eof"]
                            /\ buse' = buse \ {cur}
                            /\ Halt(T)
                       ELSE /\ IF Req.op = "accept"
                               THEN Stay([Api(T, "getaddr", msg) EXCEPT ![cur].n = msg])
                               ELSE Stay([Api(T, "recv", c) EXCEPT ![cur].off = @ + 1,
                                                                 ![cur].req.push = msg = "push"])
                            /\ UNCHANGED <<buse, cl>>
    /\ UNCHANGED spins

\* tcpip_apimsg has returned.
Acked(fns) == th[cur].pc = "acked" /\ th[cur].fn \in fns

ServeDone ==
    /\ Acked({"listen", "connect", "write"})
    /\ Answer(Req.who, IF conn[Req.c].fatal THEN "error" ELSE "ok", Kept)
    /\ UNCHANGED <<sem, mbox, conn, spins>>

\* alloc_socket, at the end of lwip_socket and of lwip_accept.  netconn_peer
\* fails when the connection is gone, and the new netconn is deleted.
ServeNew ==
    /\ Acked({"newconn", "getaddr"})
    /\ LET x == th[cur].tgt IN
       IF conn[x].pcb
       THEN /\ conn' = [conn EXCEPT ![x].sock = TRUE]
            /\ Answer(Req.who, "ok", {x} \cup (IF Req.op = "accept" THEN Kept ELSE {}))
       ELSE Stay(Api(th, "delconn", x)) /\ UNCHANGED <<conn, buse, cl>>
    /\ UNCHANGED <<sem, mbox, spins>>

\* Fault: PUSH is ignored.
ServeReadOn ==
    /\ Acked({"recv"})
    /\ IF conn[Req.c].ev = 0
       THEN /\ conn' = [conn EXCEPT ![Req.c].read = @ + th[cur].off]
            /\ Answer(Req.who, "ok", Kept)
       ELSE Stay(Goto(th, "again")) /\ UNCHANGED <<conn, buse, cl>>
    /\ UNCHANGED <<sem, mbox, spins>>
\* lwip_recvfrom after netconn_recv: more is read while the last segment had no
\* PUSH and rcvevent tells of another message.
ServeRead ==
    /\ Acked({"recv"})
    /\ IF Req.push \/ conn[Req.c].ev = 0
       THEN /\ conn' = [conn EXCEPT ![Req.c].read = @ + th[cur].off]
            /\ Answer(Req.who, "ok", Kept)
       ELSE Stay(Goto(th, "again")) /\ UNCHANGED <<conn, buse, cl>>
    /\ UNCHANGED <<sem, mbox, spins>>

ServeDeleted ==
    /\ Acked({"delconn"})
    /\ Stay(Goto(th, "free"))
    /\ UNCHANGED <<sem, mbox, conn, spins, buse, cl>>

\* netconn_free: connections that wait in an acceptmbox are deleted one by one;
\* a recvmbox is drained, each message signalling free_msg; then everything is
\* freed.  After the last, lwip_close clears the socket and answers.
Queued(m) == sem[<<"queued", m>>].counter
Drained(S, m) ==
    [S EXCEPT ![<<"free", m>>].counter = @ + Queued(m), ![<<"free", m>>].waiters = 0,
              ![<<"queued", m>>].counter = 0]
ServeFree ==
    /\ th[cur].pc = "free"
    /\ LET x == th[cur].tgt
           f == <<"free", x>>
           woken == IF Queued(x) > 0 THEN SignalThreads(th, sem, f) ELSE th
           drained == IF Queued(x) > 0 THEN Drained(sem, x) ELSE sem
       IN  IF sem[<<"op", x>>].freed THEN Panic("panic") /\ UNCHANGED <<sem, mbox, conn, buse, cl>>
           ELSE IF conn[x].lis /\ Queued(x) > 0
           THEN /\ Fetch(x)
                /\ sem' = SignalSem([sem EXCEPT ![<<"queued", x>>].counter = @ - 1], f)
                /\ Stay(Api(SignalThreads(th, sem, f), "delconn", Front(x)))
                /\ UNCHANGED <<conn, buse, cl>>
           ELSE /\ mbox' = [mbox EXCEPT ![x] = NoMbox]
                /\ sem' = sys_sem_free(MboxSemsFree(drained, x), <<"op", x>>)
                /\ conn' = [conn EXCEPT ![x] = NoConn]
                /\ IF Req.op = "close" /\ x # Req.c
                   THEN Stay([woken EXCEPT ![cur].tgt = Req.c]) /\ UNCHANGED <<buse, cl>>
                   ELSE /\ cl' = [cl EXCEPT ![Req.who].st = "idle", ![Req.who].socks = @ \ {x},
                                            ![Req.who].ret = IF x = Req.c THEN "ok" ELSE "error"]
                        /\ buse' = buse \ {cur}
                        /\ Halt(woken)
    /\ UNCHANGED spins

-----------------------------------------------------------------------------
\* The main thread, and the environments it talks to.

\* serve: run the threads that were woken, then get_buffer and ipc_recv.
MainServe ==
    /\ At(Main, "serve")
    /\ IF wakeups_pending /\ spins < MaxYields
       THEN spins' = spins + 1 /\ Yield(th) /\ UNCHANGED buse
       ELSE IF Serve \subseteq buse THEN Panic("overflow") /\ UNCHANGED <<spins, buse>>
       ELSE LET b == CHOOSE x \in Serve \ buse : \A y \in Serve \ buse : x <= y IN
            /\ buse' = buse \cup {b}
            /\ Stay([th EXCEPT ![Main].pc = "recv", ![Main].off = b])
            /\ UNCHANGED spins
    /\ UNCHANGED <<sem, mbox, conn, cl>>

\* A request with its page arrives: thread_create, and thread_yield.
Receive(req) ==
    /\ At(Main, "recv")
    /\ LET b == th[Main].off
           q == Append(queue, b)
       IN  /\ th' = [th EXCEPT ![Main].pc = "serve", ![Main].off = 0, ![b] = NewThread("begin", req)]
           /\ cur' = Head(q)
           /\ queue' = Append(Tail(q), Main)
    /\ spins' = 0
    /\ UNCHANGED <<sem, mbox, buse>>

\* A request without a page: the buffer is not put back, and nobody answers.
NoArgumentPage(k) ==
    /\ At(Main, "recv")
    /\ cl[k].st = "idle" /\ cl[k].left > 0
    /\ cl' = [cl EXCEPT ![k].st = "hung", ![k].left = @ - 1]
    /\ Stay([th EXCEPT ![Main].pc = "serve", ![Main].off = 0, ![th[Main].off].pc = "hung"])
    /\ spins' = 0
    /\ UNCHANGED <<sem, mbox, conn, buse>>

\* nsipc: a client with a socket sends a request and waits.
Request(k, op, c) ==
    /\ cl[k].st = "idle" /\ cl[k].left > 0
    /\ cl' = [cl EXCEPT ![k].st = op, ![k].left = @ - 1, ![k].ret = "none"]
    /\ Receive([op |-> op, who |-> k, c |-> c, push |-> TRUE])
    /\ UNCHANGED conn

\* The input environment sends a segment; a peer answers SYN and data.
Segments(c) ==
    (IF conn[c].up THEN {"data", "fin", "rst"} ELSE {})
    \cup (IF conn[c].lis THEN {"syn"} ELSE {})
    \cup (IF conn[c].state = "connect" THEN {"synack", "rst"} ELSE {})
    \cup (IF conn[c].state \in {"write", "close"} THEN {"ack"} ELSE {})
Input(c, op, push) ==
    /\ op \in Segments(c)
    /\ op \in {"ack", "synack"} \/ conn[c].in < Window
    /\ conn' = [conn EXCEPT ![c].in = CASE op \in {"ack", "synack"} -> @
                                         [] op = "fin" -> Window [] OTHER -> @ + 1]
    /\ Receive([op |-> op, who |-> "none", c |-> c, push |-> push])
    /\ UNCHANGED cl

\* timer.c sends NSREQ_TIMER; process_timer yields once and answers it.
Timer ==
    /\ At(Main, "recv")
    /\ Yield([th EXCEPT ![Main].pc = "timer"])
    /\ UNCHANGED <<sem, mbox, conn, spins, buse, cl>>
\* Fault: the buffer is not put back.
process_timer_keeps ==
    /\ At(Main, "timer")
    /\ spins' = 0
    /\ Stay([th EXCEPT ![Main].pc = "serve", ![Main].off = 0])
    /\ UNCHANGED <<sem, mbox, conn, buse, cl>>
process_timer ==
    /\ At(Main, "timer")
    /\ buse' = buse \ {th[Main].off}
    /\ spins' = 0
    /\ Stay([th EXCEPT ![Main].pc = "serve", ![Main].off = 0])
    /\ UNCHANGED <<sem, mbox, conn, cl>>

-----------------------------------------------------------------------------
TcpTimer == \E c \in Conn : TmrPoll(c) \/ TmrAbort(c)
ServeThread ==
    \/ ServeSegment \/ SegPut \/ ServeEnd
    \/ ServeSocket \/ ServeCall \/ ServeFetch \/ ServeTake
    \/ ServeDone \/ ServeNew \/ ServeRead \/ ServeDeleted \/ ServeFree
Run ==
    \/ SemWait \/ ThreadWait \/ ApiPut \/ TcpipFetch \/ TcpipRun
    \/ ErrPut \/ TcpTimer \/ TmrIdle
    \/ ServeThread \/ MainServe \/ process_timer

Usable(k) == IF Sharing THEN UNION {cl[j].socks : j \in Client} ELSE cl[k].socks
Requests(k) ==
    \/ Request(k, "socket", "none")
    \/ \E op \in Call \ {"socket"} : \E c \in Usable(k) : Request(k, op, c)

Next ==
    \/ Run
    \/ Timer
    \/ \E k \in Client : Requests(k) \/ NoArgumentPage(k)
    \/ \E c \in Conn : \E op \in Segment :
          \E push \in IF op = "data" THEN Push ELSE {TRUE} : Input(c, op, push)

\* The kernel schedules the server, the timer environment goes on sending, and
\* tcp_slowtmr gives up a SYN after TCP_SYNMAXRTX retransmissions.  Nothing is
\* assumed of data: the window of a peer may stay closed for ever.
GiveUpSyn == \E c \in Conn : conn[c].state = "connect" /\ TmrAbort(c)
Fairness == WF_vars(Run) /\ WF_vars(Timer) /\ SF_vars(GiveUpSyn)

Spec == Init /\ [][Next]_vars /\ Fairness

-----------------------------------------------------------------------------
\* Properties.

TypeOK ==
    /\ cur \in Thread /\ queue \in Seq(Thread)
    /\ \A i \in 1 .. Len(queue) : queue[i] # cur /\ \A j \in 1 .. Len(queue) : queue[i] = queue[j] => i = j
    /\ \A s \in Sem : sem[s].counter \in 0 .. Slots(s[2]) /\ sem[s].waiters \in {0, 1}
    /\ buse \subseteq Serve
    /\ \A c \in Conn : conn[c].ev >= 0 /\ (conn[c].sock => conn[c].used)

Waiting(t) == th[t].pc = "wait"

\* ipc_recv puts the whole server to sleep.  Unless the limit of yields was
\* reached, serve calls it only when no thread can go on: thread_wakeups_pending
\* misses none.
SleepsOnlyWhenIdle ==
    At(Main, "recv") /\ spins < MaxYields
    => \A t \in Thread : Waiting(t) => ~th[t].wakeup /\ V(th[t].sem) = th[t].val

\* tcpip_apimsg posts a message that lies on the caller's stack: while it is in
\* the mailbox its owner is still in the call, with nobody having answered it.
\* tcpip_apimsg returns only when the function it asked for has completed: a
\* call never takes the signal of op_completed that was meant for another.
CallsComplete ==
    /\ \A i \in 0 .. TcpSlots - 1 :
        LET t == mbox[Tcp].msg[i] IN
        t # Main => th[t].ret = "acked" /\ ~th[t].acked
    /\ \A t \in Thread : th[t].pc = "acked" => th[t].acked

\* The two semaphores of a mailbox and its ring agree: queued_msg counts the
\* messages nobody has claimed, free_msg the slots nobody has claimed.  So
\* sys_arch_mbox_fetch never finds "no message" and sys_mbox_post never ERR_MEM.
Length(m) ==
    IF mbox[m].head = -1 THEN 0
    ELSE ((mbox[m].nextq - mbox[m].head - 1) % Slots(m)) + 1
Fetching(m) ==
    {t \in Thread : th[t].ok /\ (\/ m = Tcp /\ th[t].pc = "got"
                                 \/ th[t].pc = "rtake" /\ th[t].req.c = m)}
Posting(m) ==
    {t \in Thread : th[t].ok /\ (\/ m = Tcp /\ th[t].pc = "put"
                                 \/ th[t].pc = "rput" /\ th[t].req.c = m
                                 \/ th[t].pc = "errput" /\ th[t].n = m)}
TokensMatch ==
    /\ TypeOK
    /\ \A m \in Mbox : mbox[m].live =>
        /\ Queued(m) + Cardinality(Fetching(m)) = Length(m)
        /\ sem[<<"free", m>>].counter + Cardinality(Posting(m)) + Length(m) = Slots(m)

\* The server panics for three reasons only.  get_buffer finds no buffer, and
\* then each is held by a request that is still being served or that came without
\* a page: no thread that has ended keeps one.  A program has accepted on a socket
\* that does not listen, or connected one in use.  A socket was closed while a
\* segment waited for room in its mailbox.  No other assertion fails: in
\* particular no semaphore is used after it was freed.
PanicsExplained ==
    /\ th[Main].pc # "panic"
    /\ th[Main].pc = "overflow" => \A b \in Serve : th[b].pc # "none"

\* When lwip_recv answers 0 and the connection was not reset, every segment that
\* arrived in order before has been read: by earlier calls, or by this one.  This
\* one has read only segments without PUSH, and their bytes are lost with the 0.
EofAfterAllData ==
    [][\A k \in Client :
         cl[k].st = "recv" /\ cl'[k].st = "idle" /\ cl'[k].ret = "eof" /\ ~conn[Req.c].fatal
         => /\ conn[Req.c].read + th[cur].off = conn[Req.c].posted
            /\ th[cur].off > 0 => ~Req.push]_vars

\* The call of client k waits for its peer: TCP has no room for the data or for the
\* FIN, or the thread of the slow timer, which would give up the SYN, waits itself
\* for room in a full mailbox.
WaitsForPeer(k) ==
    \/ \E t \in Serve : /\ th[t].req.who = k /\ th[t].fn \in {"write", "delconn"} /\ ~th[t].acked
                         /\ conn[th[t].tgt].state \in {"write", "close"}
    \/ cl[k].st = "connect" /\ th[Tmr].ret = "errput"

\* A call that does not wait for its peer is answered or comes to wait for it, and
\* a client that waits to read is answered once something is in the mailbox.
Dead == th[Main].pc \in Ended
CallsAnswered ==
    /\ \A k \in Client :
        (cl[k].st \in Call \ {"accept", "recv"} /\ ~WaitsForPeer(k))
        ~> (cl[k].st = "idle" \/ WaitsForPeer(k) \/ Dead)
    /\ \A k \in Client :
        (\E t \in Serve : th[t].req.who = k /\ cl[k].st \in {"recv", "accept"}
                          /\ th[t].ret = "rtake" /\ Length(th[t].req.c) > 0)
        ~> (cl[k].st = "idle" \/ Dead)
=============================================================================
