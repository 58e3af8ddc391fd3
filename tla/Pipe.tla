-------------------------------- MODULE Pipe --------------------------------
(***************************************************************************)
(* Pipes and file descriptors: lib/pipe.c, the parts of lib/fd.c a pipe    *)
(* uses, and what fork does to both.  A pipe is three shared pages: one    *)
(* Fd page for each end and one page with the buffer.  Nobody counts the   *)
(* readers and writers; an end is known to be closed when the Fd page of   *)
(* this end and the buffer page have the same pp_ref.  A step is one       *)
(* system call or one access to shared memory, and between any two of      *)
(* them the CPU may run another environment.  That pp_ref is the number of *)
(* mappings is RefExact of module Pages.                                   *)
(***************************************************************************)
EXTENDS Integers, Sequences, FiniteSets

CONSTANTS
    Proc, NoProc,   \* environments; "none"
    Started,        \* the ones that share the pipe at the start, after fork
    CPU,
    NFD,            \* MAXFD, 32 in the code
    PIPEBUFSIZ,
    MaxBytes        \* bound: bytes ever written

ASSUME PipeAssumption ==
    /\ NoProc \notin Proc /\ Started \subseteq Proc /\ IsFiniteSet(Proc)
    /\ NFD \in Nat /\ NFD > 1
    /\ PIPEBUFSIZ \in Nat \ {0} /\ MaxBytes \in Nat

FD == 0 .. NFD - 1

VARIABLES
    fdt,        \* fdt[p][f]: the Fd page and the data page mapped for f
    status,     \* free, new (made by sys_exofork, not runnable yet) or run
    cpu,        \* the environment each CPU runs
    ran,        \* env_runs has changed since _pipeisclosed read it
    task,       \* the library call each environment is in, and its locals
    p_rpos, p_wpos, p_buf,
    taken       \* history: the bytes that readers got, in order

vars == <<fdt, status, cpu, ran, task, p_rpos, p_wpos, p_buf, taken>>
pipe == <<p_rpos, p_wpos, p_buf, taken>>

End == {"none", "R", "W"}
Slot == [end : End, data : BOOLEAN]
Unmapped == [end |-> "none", data |-> FALSE]

Op == {"none", "read", "write", "isclosed", "close", "dup", "fork"}
Pc == {"idle", "loop", "copy", "inc", "snap", "first", "second", "again", "eof",
       "unmap", "dupdata", "dupfd", "forkfd", "forkdata", "forkrun"}
Task == [op : Op, pc : Pc,
         fd : FD, new : FD,             \* arguments
         n : 0 .. MaxBytes,
         i : 0 .. MaxBytes + NFD,       \* loop counter of read, write and fork
         byte : 0 .. MaxBytes,
         first : {"fd", "data"}, ref : Nat, closed : BOOLEAN,
         kid : Proc \cup {NoProc}]
Idle == [op |-> "none", pc |-> "idle", fd |-> 0, new |-> 0, n |-> 0, i |-> 0,
         byte |-> 0, first |-> "fd", ref |-> 0, closed |-> FALSE, kid |-> NoProc]

TypeOK ==
    /\ fdt \in [Proc -> [FD -> Slot]]
    /\ status \in [Proc -> {"free", "new", "run"}]
    /\ cpu \in [CPU -> Proc \cup {NoProc}]
    /\ ran \in [Proc -> BOOLEAN]
    /\ task \in [Proc -> Task]
    /\ p_rpos \in 0 .. MaxBytes /\ p_wpos \in 0 .. MaxBytes
    /\ p_buf \in [0 .. PIPEBUFSIZ - 1 -> 0 .. MaxBytes]
    /\ taken \in Seq(1 .. MaxBytes)

\* pipe() has returned descriptors 0 and 1, and fork has copied them.
Init ==
    /\ fdt = [p \in Proc |-> [f \in FD |->
                IF p \in Started /\ f = 0 THEN [end |-> "R", data |-> TRUE]
                ELSE IF p \in Started /\ f = 1 THEN [end |-> "W", data |-> TRUE]
                ELSE Unmapped]]
    /\ status = [p \in Proc |-> IF p \in Started THEN "run" ELSE "free"]
    /\ cpu = [c \in CPU |-> NoProc]
    /\ ran = [p \in Proc |-> FALSE]
    /\ task = [p \in Proc |-> Idle]
    /\ p_rpos = 0 /\ p_wpos = 0
    /\ p_buf = [k \in 0 .. PIPEBUFSIZ - 1 |-> 0]
    /\ taken = << >>

-----------------------------------------------------------------------------
Running(p) == \E c \in CPU : cpu[c] = p
At(p, pc) == Running(p) /\ task[p].pc = pc
Goto(p, pc) == task' = [task EXCEPT ![p].pc = pc]
Done(p) == task' = [task EXCEPT ![p] = Idle]
Call(p, t) == At(p, "idle") /\ task' = [task EXCEPT ![p] = t]

Mapped(p, f) == fdt[p][f].end # "none"

\* pageref of the Fd page of end x, and of the buffer page.
Ends(x) == {s \in Proc \X FD : fdt[s[1]][s[2]].end = x}
Datas == {s \in Proc \X FD : fdt[s[1]][s[2]].data}
MyEnd(p) == fdt[p][task[p].fd].end
Pageref(p, which) == Cardinality(IF which = "fd" THEN Ends(MyEnd(p)) ELSE Datas)

-----------------------------------------------------------------------------
\* _pipeisclosed.  C leaves the order of the two pageref calls open.

Pipeisclosed(p, f) ==
    /\ Mapped(p, f)
    /\ Call(p, [Idle EXCEPT !.op = "isclosed", !.pc = "snap", !.fd = f])
    /\ UNCHANGED <<fdt, status, cpu, ran, pipe>>

\* n = thisenv->env_runs
Snap(p) ==
    /\ At(p, "snap")
    /\ ran' = [ran EXCEPT ![p] = FALSE]
    /\ \E x \in {"fd", "data"} :
        task' = [task EXCEPT ![p].pc = "first", ![p].first = x]
    /\ UNCHANGED <<fdt, status, cpu, pipe>>

First(p) ==
    /\ At(p, "first")
    /\ task' = [task EXCEPT ![p].pc = "second", ![p].ref = Pageref(p, task[p].first)]
    /\ UNCHANGED <<fdt, status, cpu, ran, pipe>>

Second(p) ==
    /\ At(p, "second")
    /\ LET other == IF task[p].first = "fd" THEN "data" ELSE "fd"
       IN  task' = [task EXCEPT ![p].pc = "again", ![p].ref = 0,
                                ![p].closed = task[p].ref = Pageref(p, other)]
    /\ UNCHANGED <<fdt, status, cpu, ran, pipe>>

\* Fault: the answer is used although the environment was descheduled.
AgainNoRetry(p) ==
    /\ At(p, "again")
    /\ LET t == [task[p] EXCEPT !.closed = FALSE, !.first = "fd"]
       IN  CASE task[p].closed -> task' = [task EXCEPT ![p] = [t EXCEPT !.pc = "eof"]]
             [] ~task[p].closed /\ t.op = "isclosed" -> Done(p)
             [] OTHER -> task' = [task EXCEPT ![p] = [t EXCEPT !.pc = "loop"]]
    /\ ran' = [ran EXCEPT ![p] = FALSE]
    /\ UNCHANGED <<fdt, status, cpu, pipe>>

\* nn = thisenv->env_runs, and the return; devpipe_read and devpipe_write yield
\* and look again when the pipe is not closed.
Again(p) ==
    /\ At(p, "again")
    /\ LET t == [task[p] EXCEPT !.closed = FALSE, !.first = "fd"]
           next == CASE ran[p] -> "snap"
                     [] ~ran[p] /\ task[p].closed -> "eof"
                     [] OTHER -> "loop"
       IN  IF next = "loop" /\ t.op = "isclosed"
           THEN Done(p)
           ELSE task' = [task EXCEPT ![p] = [t EXCEPT !.pc = next]]
    /\ ran' = [ran EXCEPT ![p] = FALSE]
    /\ UNCHANGED <<fdt, status, cpu, pipe>>

Eof(p) ==
    /\ At(p, "eof")
    /\ Done(p)
    /\ UNCHANGED <<fdt, status, cpu, ran, pipe>>

-----------------------------------------------------------------------------
\* devpipe_read and devpipe_write.  A pipe has no lock: one environment at a
\* time may use each end (Alone), as in a shell pipeline.

Alone(op) == \A q \in Proc : task[q].op # op

Read(p, f, n) ==
    /\ fdt[p][f].end = "R" /\ Alone("read")
    /\ Call(p, [Idle EXCEPT !.op = "read", !.pc = "loop", !.fd = f, !.n = n])
    /\ UNCHANGED <<fdt, status, cpu, ran, pipe>>

Write(p, f, n) ==
    /\ fdt[p][f].end = "W" /\ Alone("write") /\ p_wpos + n <= MaxBytes
    /\ Call(p, [Idle EXCEPT !.op = "write", !.pc = "loop", !.fd = f, !.n = n])
    /\ UNCHANGED <<fdt, status, cpu, ran, pipe>>

\* Fault: off by one in the test for a full buffer.
MustWaitOffByOne(op) ==
    IF op = "read" THEN p_rpos = p_wpos ELSE p_wpos > p_rpos + PIPEBUFSIZ

\* The pipe is empty (for a reader), full (for a writer).
MustWait(op) ==
    IF op = "read" THEN p_rpos = p_wpos ELSE p_wpos >= p_rpos + PIPEBUFSIZ

\* Fault: a reader that waits never looks whether the writers are gone.
LoopNoCheck(p) ==
    /\ At(p, "loop")
    /\ LET t == task[p]
       IN  CASE ~MustWait(t.op) -> Goto(p, "copy")
             [] MustWait(t.op) /\ t.op = "read" /\ t.i > 0 -> Done(p)
             [] OTHER -> Goto(p, "loop")
    /\ UNCHANGED <<fdt, status, cpu, ran, pipe>>

Loop(p) ==
    /\ At(p, "loop")
    /\ LET t == task[p]
       IN  CASE ~MustWait(t.op) -> Goto(p, "copy")
             [] MustWait(t.op) /\ t.op = "read" /\ t.i > 0 -> Done(p)
             [] OTHER -> Goto(p, "snap")
    /\ UNCHANGED <<fdt, status, cpu, ran, pipe>>

\* One byte is loaded or stored; the k-th byte written is k.
Copy(p) ==
    /\ At(p, "copy")
    /\ IF task[p].op = "read"
       THEN /\ task' = [task EXCEPT ![p].pc = "inc",
                                    ![p].byte = p_buf[p_rpos % PIPEBUFSIZ]]
            /\ UNCHANGED p_buf
       ELSE /\ Goto(p, "inc")
            /\ p_buf' = [p_buf EXCEPT ![p_wpos % PIPEBUFSIZ] = p_wpos + 1]
    /\ UNCHANGED <<fdt, status, cpu, ran, p_rpos, p_wpos, taken>>

\* p_rpos++ or p_wpos++, i++ and the loop test.
Inc(p) ==
    /\ At(p, "inc")
    /\ IF task[p].op = "read"
       THEN /\ p_rpos' = p_rpos + 1
            /\ taken' = Append(taken, task[p].byte)
            /\ UNCHANGED p_wpos
       ELSE /\ p_wpos' = p_wpos + 1
            /\ UNCHANGED <<p_rpos, taken>>
    /\ IF task[p].i + 1 = task[p].n
       THEN Done(p)
       ELSE task' = [task EXCEPT ![p].pc = "loop", ![p].i = @ + 1, ![p].byte = 0]
    /\ UNCHANGED <<fdt, status, cpu, ran, p_buf>>

-----------------------------------------------------------------------------
\* lib/fd.c: close and dup.

\* close, up to the first sys_page_unmap of devpipe_close.
Close(p, f) ==
    /\ Mapped(p, f)
    /\ Call(p, [Idle EXCEPT !.op = "close", !.pc = "unmap", !.new = f])
    /\ fdt' = [fdt EXCEPT ![p][f].end = "none"]
    /\ UNCHANGED <<status, cpu, ran, pipe>>

\* Fault: the buffer page stays mapped.
UnmapForgets(p) ==
    /\ At(p, "unmap")
    /\ IF task[p].op = "dup" THEN Goto(p, "dupdata") ELSE Done(p)
    /\ UNCHANGED <<fdt, status, cpu, ran, pipe>>

\* The second one, and the (then idle) unmap of the Fd page in fd_close.
Unmap(p) ==
    /\ At(p, "unmap")
    /\ fdt' = [fdt EXCEPT ![p][task[p].new] = Unmapped]
    /\ IF task[p].op = "dup" THEN Goto(p, "dupdata") ELSE Done(p)
    /\ UNCHANGED <<status, cpu, ran, pipe>>

\* dup(f, g) closes g first.  Its sys_page_map calls cannot run out of memory:
\* all Fd and data pages share one page table, which f shows to be there.
Dup(p, f, g) ==
    /\ Mapped(p, f)
    /\ Call(p, [Idle EXCEPT !.op = "dup", !.fd = f, !.new = g,
                            !.pc = IF Mapped(p, g) THEN "unmap" ELSE "dupdata"])
    /\ fdt' = [fdt EXCEPT ![p][g].end = "none"]
    /\ UNCHANGED <<status, cpu, ran, pipe>>

DupData(p) ==
    /\ At(p, "dupdata")
    /\ LET t == task[p]
       IN  fdt' = [fdt EXCEPT ![p][t.new].data = @ \/ fdt[p][t.fd].data]
    /\ Goto(p, "dupfd")
    /\ UNCHANGED <<status, cpu, ran, pipe>>

\* With f = g, f is closed by now: the call fails and unmaps both pages.
DupFd(p) ==
    /\ At(p, "dupfd")
    /\ LET t == task[p]
       IN  fdt' = [fdt EXCEPT ![p][t.new] =
                     IF Mapped(p, t.fd) THEN [@ EXCEPT !.end = MyEnd(p)] ELSE Unmapped]
    /\ Done(p)
    /\ UNCHANGED <<status, cpu, ran, pipe>>

-----------------------------------------------------------------------------
\* fork (and copy_shared_pages of spawn): the pages of the parent are mapped in
\* the child from low to high addresses, all Fd pages before all data pages.

Fork(p, q) ==
    /\ status[q] = "free"
    /\ Call(p, [Idle EXCEPT !.op = "fork", !.pc = "forkfd", !.kid = q])
    /\ status' = [status EXCEPT ![q] = "new"]
    /\ UNCHANGED <<fdt, cpu, ran, pipe>>

\* The loop counter moves to the next page.
NextPage(p, next) ==
    task' = [task EXCEPT ![p].i = (@ + 1) % NFD,
                         ![p].pc = IF task[p].i + 1 = NFD THEN next ELSE @]

ForkFd(p) ==
    /\ At(p, "forkfd")
    /\ LET t == task[p]
       IN  fdt' = [fdt EXCEPT ![t.kid][t.i].end = fdt[p][t.i].end]
    /\ NextPage(p, "forkdata")
    /\ UNCHANGED <<status, cpu, ran, pipe>>

ForkData(p) ==
    /\ At(p, "forkdata")
    /\ LET t == task[p]
       IN  fdt' = [fdt EXCEPT ![t.kid][t.i].data = fdt[p][t.i].data]
    /\ NextPage(p, "forkrun")
    /\ UNCHANGED <<status, cpu, ran, pipe>>

ForkRun(p) ==
    /\ At(p, "forkrun")
    /\ status' = [status EXCEPT ![task[p].kid] = "run"]
    /\ Done(p)
    /\ UNCHANGED <<fdt, cpu, ran, pipe>>

-----------------------------------------------------------------------------
\* exit or a fault: env_free unmaps all.  To be destroyed by the parent while
\* descheduled is the same as to be scheduled and die at once: the parent comes
\* back from a system call, so its env_runs changes too.
Destroy(p) ==
    /\ Running(p)
    /\ status' = [status EXCEPT ![p] = "free"]
    /\ fdt' = [fdt EXCEPT ![p] = [f \in FD |-> Unmapped]]
    /\ cpu' = [c \in CPU |-> IF cpu[c] = p THEN NoProc ELSE cpu[c]]
    /\ ran' = [ran EXCEPT ![p] = FALSE]
    /\ Done(p)
    /\ UNCHANGED pipe

\* env_run counts every return to user mode, also to the same environment; only
\* _pipeisclosed reads the counter.
EnvRun(c, p) ==
    /\ status[p] = "run"
    /\ cpu[c] = p \/ ~Running(p)
    /\ cpu' = [cpu EXCEPT ![c] = p]
    /\ ran' = [ran EXCEPT ![p] = task[p].pc \in {"first", "second", "again"}]
    /\ UNCHANGED <<fdt, status, task, pipe>>

Check(p) == Snap(p) \/ First(p) \/ Second(p) \/ Again(p) \/ Eof(p)
Transfer(p) == Loop(p) \/ Copy(p) \/ Inc(p)
Descriptors(p) == Unmap(p) \/ DupData(p) \/ DupFd(p)
Continue(p) == Check(p) \/ Transfer(p) \/ Descriptors(p)

CloseOrDup(p) ==
    \E f \in FD : Pipeisclosed(p, f) \/ Close(p, f) \/ \E g \in FD : Dup(p, f, g)
ReadOrWrite(p) == \E f \in FD, n \in 1 .. MaxBytes : Read(p, f, n) \/ Write(p, f, n)
ForkStep(p) == (\E q \in Proc : Fork(p, q)) \/ ForkFd(p) \/ ForkData(p) \/ ForkRun(p)

\* Environments that share a pipe, once every fork has returned.
Next ==
    \/ \E p \in Proc : Continue(p) \/ CloseOrDup(p) \/ ReadOrWrite(p) \/ Destroy(p)
    \/ \E c \in CPU, p \in Proc : EnvRun(c, p)

\* The same, and they fork.
ForkNext == Next \/ \E p \in Proc : ForkStep(p)

Spec == Init /\ [][Next]_vars
ForkSpec == Init /\ [][ForkNext]_vars

\* A CPU per environment: no time slice ends, a call that has started goes on.
Fairness ==
    /\ \A p \in Proc : WF_vars(Continue(p))
    /\ \A p \in Proc, c \in CPU : WF_vars(EnvRun(c, p) /\ cpu[c] = NoProc)

\* Without the clock: an environment is only put on a CPU that has none.
SlicelessNext ==
    \/ \E p \in Proc : Continue(p) \/ CloseOrDup(p) \/ ReadOrWrite(p) \/ Destroy(p)
    \/ \E c \in CPU, p \in Proc : EnvRun(c, p) /\ cpu[c] = NoProc
LiveSpec == Init /\ [][SlicelessNext]_vars /\ Fairness

-----------------------------------------------------------------------------
\* Properties.

Opposite(x) == IF x = "R" THEN "W" ELSE "R"
Gone(x) == Ends(x) = {}

\* _pipeisclosed says "closed" only when no environment has the other end open:
\* a reader does not take a writer that is busy with dup or close for gone.
NoFalseClosed ==
    \A p \in Proc : task[p].pc = "eof" => Gone(Opposite(MyEnd(p)))

\* devpipe_read returns 0 (end of file) only when the pipe is empty and stays so.
EofMeansDrained ==
    \A p \in Proc : task[p].pc = "eof" /\ task[p].op = "read" => p_rpos = p_wpos

\* What readers get is what writers wrote, in order, nothing lost, repeated or
\* overwritten, also when a reader or writer dies between the two halves of a
\* byte's transfer.
Fifo ==
    /\ p_rpos <= p_wpos /\ p_wpos <= p_rpos + PIPEBUFSIZ
    /\ taken = [k \in 1 .. p_rpos |-> k]

\* Whatever close and dup do in between, a descriptor at rest has both its pages
\* or none, so the counts that _pipeisclosed compares mean something.
SlotsWhole ==
    \A p \in Proc, f \in FD :
        status[p] = "run" /\ task[p].op \notin {"close", "dup"}
        => (fdt[p][f].data <=> Mapped(p, f))

\* A reader does not wait for ever for writers that are gone, nor a writer for
\* readers, unless others dup and close descriptors for ever.
NobodyWaitsForTheGone ==
    \A p \in Proc : \A x \in {"R", "W"} :
        ~<>[](/\ task[p].op \in {"read", "write"} /\ MyEnd(p) = x
              /\ Gone(Opposite(x))
              /\ \A q \in Proc : task[q].op \notin {"close", "dup"})
=============================================================================
