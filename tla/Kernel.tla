------------------------------- MODULE Kernel -------------------------------
(***************************************************************************)
(* Environments, CPUs and the big kernel lock of JOS: kern/env.c,          *)
(* kern/sched.c, kern/trap.c, kern/spinlock.c and the system calls of      *)
(* kern/syscall.c that change an environment's status.                     *)
(*                                                                         *)
(* A CPU runs user code, spins for the lock, works in the kernel, or is    *)
(* halted.  All kernel work is done under one lock, so everything from     *)
(* taking the lock to giving it up (dispatch of the trap, the system call, *)
(* the choice of the next environment, env_run) is one step; entering the  *)
(* trap and taking the lock are steps of their own, so that the other CPUs *)
(* act in between.                                                         *)
(***************************************************************************)
EXTENDS Integers, Sequences

CONSTANTS
    NENV,       \* number of slots in envs[]
    NCPU,       \* number of CPUs; CPU 0 is the boot CPU
    NGEN,       \* number of generations before env_id wraps around
    BootTypes   \* types of the environments i386_init creates, in order

EnvType == {"USER", "FS", "NS", "IN_NS", "OUT_NS"}
EnvStatus == {"FREE", "DYING", "RUNNABLE", "RUNNING", "NOT_RUNNABLE"}

ASSUME SizesAssumption == /\ NENV \in Nat \ {0}
                          /\ NCPU \in Nat \ {0}
                          /\ NGEN \in Nat \ {0}
ASSUME BootAssumption == /\ BootTypes \in Seq(EnvType)
                         /\ Len(BootTypes) <= NENV

Slot == 0 .. NENV - 1
CPU == 0 .. NCPU - 1
NULL == -1      \* no environment
NoCPU == -1     \* the lock is free

\* An env_id is a generation number above a slot number; 0 means "the caller".
EnvId == (0 .. NGEN) \X Slot
Self == <<0, 0>>
ENVX(id) == id[2]

VARIABLES
    kernel_lock,        \* the CPU that holds the big kernel lock, or NoCPU
    mode,               \* what each CPU is doing
    tf_cs,              \* where the CPU's last trap came from
    cpu_status,         \* CPU_STARTED or CPU_HALTED
    curenv,             \* the environment each CPU works for, or NULL
    env_status, env_type, env_id, env_parent_id, env_ipc_recving,
    env_free_list       \* free slots, head first

cpuVars == <<kernel_lock, mode, tf_cs, cpu_status, curenv>>
envVars == <<env_type, env_id, env_parent_id, env_ipc_recving, env_free_list>>
vars == <<cpuVars, env_status, envVars>>

Mode == {"user", "spin", "kernel", "halt", "monitor"}

\* One type invariant for the state of the CPUs and of the environment table.
TypeOK ==
    /\ kernel_lock \in CPU \cup {NoCPU}
    /\ mode \in [CPU -> Mode]
    /\ tf_cs \in [CPU -> {"user", "kernel"}]
    /\ cpu_status \in [CPU -> {"STARTED", "HALTED"}]
    /\ curenv \in [CPU -> Slot \cup {NULL}]
    /\ env_status \in [Slot -> EnvStatus]
    /\ env_type \in [Slot -> EnvType]
    /\ env_id \in [Slot -> EnvId]
    /\ env_parent_id \in [Slot -> EnvId]
    /\ env_ipc_recving \in [Slot -> BOOLEAN]
    /\ env_free_list \in Seq(Slot)

-----------------------------------------------------------------------------
\* The state when the boot CPU calls sched_yield: it holds the lock, the
\* application processors spin for it in mp_main, and env_create has made the
\* boot environments from the head of the free list.
Booted(e) == e < Len(BootTypes)

Init ==
    /\ kernel_lock = 0
    /\ mode = [c \in CPU |-> IF c = 0 THEN "kernel" ELSE "spin"]
    /\ tf_cs = [c \in CPU |-> "kernel"]
    /\ cpu_status = [c \in CPU |-> "STARTED"]
    /\ curenv = [c \in CPU |-> NULL]
    /\ env_status = [e \in Slot |-> IF Booted(e) THEN "RUNNABLE" ELSE "FREE"]
    /\ env_type = [e \in Slot |-> IF Booted(e) THEN BootTypes[e + 1] ELSE "USER"]
    /\ env_id = [e \in Slot |-> IF Booted(e) THEN <<1, e>> ELSE <<0, 0>>]
    /\ env_parent_id = [e \in Slot |-> <<0, 0>>]
    /\ env_ipc_recving = [e \in Slot |-> FALSE]
    /\ env_free_list = [i \in 1 .. NENV - Len(BootTypes) |-> Len(BootTypes) + i - 1]

-----------------------------------------------------------------------------
\* Entering and leaving the kernel.

\* trap() up to its lock_kernel calls: one if the CPU had halted in
\* sched_halt, one if the trap came from user mode.
TrapEntry(c) ==
    /\ mode[c] \in {"user", "halt"}
    /\ tf_cs' = [tf_cs EXCEPT ![c] = IF mode[c] = "user" THEN "user" ELSE "kernel"]
    /\ mode' = [mode EXCEPT ![c] = IF cpu_status[c] = "HALTED" \/ mode[c] = "user"
                                   THEN "spin" ELSE "kernel"]
    /\ cpu_status' = [cpu_status EXCEPT ![c] = "STARTED"]
    /\ UNCHANGED <<kernel_lock, curenv, env_status, envVars>>

\* spin_lock: the xchg that finds the lock free.
SpinLock(c) ==
    /\ mode[c] = "spin"
    /\ kernel_lock = NoCPU
    /\ kernel_lock' = c
    /\ mode' = [mode EXCEPT ![c] = "kernel"]
    /\ UNCHANGED <<tf_cs, cpu_status, curenv, env_status, envVars>>

\* env_run: put the environment that ran here back, switch, release the lock.
EnvRun(c, e, cur, st) ==
    LET put == IF cur # NULL /\ st[cur] = "RUNNING"
               THEN [st EXCEPT ![cur] = "RUNNABLE"] ELSE st
    IN  /\ env_status' = [put EXCEPT ![e] = "RUNNING"]
        /\ curenv' = [curenv EXCEPT ![c] = e]
        /\ mode' = [mode EXCEPT ![c] = "user"]
        /\ kernel_lock' = NoCPU
        /\ UNCHANGED <<tf_cs, cpu_status>>

\* Fault: the CPU halts without saying so.
SchedHaltUnmarked(c, cur, st) ==
    /\ env_status' = st
    /\ IF \E e \in Slot : st[e] # "FREE" /\ env_type[e] = "USER"
       THEN /\ curenv' = [curenv EXCEPT ![c] = NULL]
            /\ mode' = [mode EXCEPT ![c] = "halt"]
            /\ kernel_lock' = NoCPU
       ELSE /\ curenv' = [curenv EXCEPT ![c] = cur]
            /\ mode' = [mode EXCEPT ![c] = "monitor"]
            /\ UNCHANGED kernel_lock
    /\ UNCHANGED <<tf_cs, cpu_status>>

\* Fault: zombies do not count as user environments that are left.
SchedHaltIgnoresZombies(c, cur, st) ==
    /\ env_status' = st
    /\ IF \E e \in Slot : st[e] \notin {"FREE", "DYING"} /\ env_type[e] = "USER"
       THEN /\ curenv' = [curenv EXCEPT ![c] = NULL]
            /\ cpu_status' = [cpu_status EXCEPT ![c] = "HALTED"]
            /\ mode' = [mode EXCEPT ![c] = "halt"]
            /\ kernel_lock' = NoCPU
       ELSE /\ curenv' = [curenv EXCEPT ![c] = cur]
            /\ mode' = [mode EXCEPT ![c] = "monitor"]
            /\ UNCHANGED <<cpu_status, kernel_lock>>
    /\ UNCHANGED tf_cs

\* sched_halt: the kernel monitor if no user environment is left (it keeps the
\* lock and never returns), else halt with the lock released.
SchedHalt(c, cur, st) ==
    /\ env_status' = st
    /\ IF \E e \in Slot : st[e] # "FREE" /\ env_type[e] = "USER"
       THEN /\ curenv' = [curenv EXCEPT ![c] = NULL]
            /\ cpu_status' = [cpu_status EXCEPT ![c] = "HALTED"]
            /\ mode' = [mode EXCEPT ![c] = "halt"]
            /\ kernel_lock' = NoCPU
       ELSE /\ curenv' = [curenv EXCEPT ![c] = cur]
            /\ mode' = [mode EXCEPT ![c] = "monitor"]
            /\ UNCHANGED <<cpu_status, kernel_lock>>
    /\ UNCHANGED tf_cs

\* Fault: a scan that takes zombies.
ScanTakesZombies(cur, st, e) ==
    st[e] \in {"RUNNABLE", "DYING"}

\* The scan of sched_yield stops at slot e: it starts just after cur and no
\* slot passed on the way is RUNNABLE.
Scan(cur, st, e) ==
    LET start == IF cur = NULL THEN 0 ELSE cur + 1
    IN  \E j \in 0 .. NENV - 1 :
            /\ e = (start + j) % NENV
            /\ st[e] = "RUNNABLE"
            /\ \A k \in 0 .. j - 1 : st[(start + k) % NENV] # "RUNNABLE"

\* Fault: the current environment goes on whenever it can.
SchedYieldStays(c, cur, st) ==
    IF cur # NULL /\ st[cur] = "RUNNING"
    THEN EnvRun(c, cur, cur, st)
    ELSE \/ \E e \in Slot : Scan(cur, st, e) /\ EnvRun(c, e, cur, st)
         \/ /\ \A e \in Slot : st[e] # "RUNNABLE"
            /\ SchedHalt(c, cur, st)

\* sched_yield on CPU c, whose environment is cur, when the table shows st.
SchedYield(c, cur, st) ==
    \/ \E e \in Slot : Scan(cur, st, e) /\ EnvRun(c, e, cur, st)
    \/ /\ \A e \in Slot : st[e] # "RUNNABLE"
       /\ IF cur # NULL /\ st[cur] = "RUNNING"
          THEN EnvRun(c, cur, cur, st)
          ELSE SchedHalt(c, cur, st)

\* The end of trap(): go on with the current environment if that makes sense.
TrapReturn(c, st) ==
    IF curenv[c] # NULL /\ st[curenv[c]] = "RUNNING"
    THEN EnvRun(c, curenv[c], curenv[c], st)
    ELSE SchedYield(c, curenv[c], st)

\* CPU c holds the lock and dispatches a trap of the environment it runs,
\* which trap() has found not to be a zombie.
Dispatch(c) ==
    /\ mode[c] = "kernel"
    /\ tf_cs[c] = "user"
    /\ curenv[c] # NULL
    /\ env_status[curenv[c]] # "DYING"

-----------------------------------------------------------------------------
\* The environment table.

\* envid2env succeeds on CPU c and yields slot e.
Envid2env(c, id, checkperm, e) ==
    IF id = Self
    THEN e = curenv[c]
    ELSE /\ e = ENVX(id)
         /\ env_status[e] # "FREE"
         /\ env_id[e] = id
         /\ checkperm => e = curenv[c] \/ env_parent_id[e] = env_id[curenv[c]]

NextGeneration(e) == IF env_id[e][1] = NGEN THEN 1 ELSE env_id[e][1] + 1

\* env_free: the slot goes to the head of the free list; its other fields stay.
EnvFree(e) ==
    /\ env_free_list' = <<e>> \o env_free_list
    /\ UNCHANGED <<env_type, env_id, env_parent_id, env_ipc_recving>>

\* Fault: the environment is freed even while another CPU runs it.
EnvDestroyAtOnce(c, e) ==
    LET st == [env_status EXCEPT ![e] = "FREE"]
    IN  /\ EnvFree(e)
        /\ IF curenv[c] = e THEN SchedYield(c, NULL, st) ELSE TrapReturn(c, st)

\* env_destroy(e) called on CPU c, up to the return to user mode.
EnvDestroy(c, e) ==
    IF env_status[e] = "RUNNING" /\ curenv[c] # e
    THEN /\ TrapReturn(c, [env_status EXCEPT ![e] = "DYING"])
         /\ UNCHANGED envVars
    ELSE LET st == [env_status EXCEPT ![e] = "FREE"]
         IN  /\ EnvFree(e)
             /\ IF curenv[c] = e THEN SchedYield(c, NULL, st) ELSE TrapReturn(c, st)

-----------------------------------------------------------------------------
\* The traps.

\* trap(): the environment was destroyed by another CPU while it ran here.
ReapZombie(c) ==
    /\ mode[c] = "kernel"
    /\ tf_cs[c] = "user"
    /\ curenv[c] # NULL
    /\ env_status[curenv[c]] = "DYING"
    /\ EnvFree(curenv[c])
    /\ SchedYield(c, NULL, [env_status EXCEPT ![curenv[c]] = "FREE"])

\* A clock interrupt in user mode or in a halted CPU, sys_yield, and the
\* sched_yield that ends i386_init and mp_main.
ClockIntr(c) ==
    /\ mode[c] = "kernel"
    /\ tf_cs[c] = "user" => Dispatch(c)
    /\ SchedYield(c, curenv[c], env_status)
    /\ UNCHANGED envVars

\* A trap that changes no environment: the other interrupts, a page fault taken
\* by the user's handler, a system call that fails or is about something else.
OtherTrap(c) ==
    /\ Dispatch(c)
    /\ TrapReturn(c, env_status)
    /\ UNCHANGED envVars

\* An exception or page fault without a handler: env_destroy(curenv).
Fault(c) == Dispatch(c) /\ EnvDestroy(c, curenv[c])

SysEnvDestroy(c, id) ==
    /\ Dispatch(c)
    /\ \E e \in Slot : Envid2env(c, id, TRUE, e) /\ EnvDestroy(c, e)

\* Fault: env_alloc does not commit the allocation.
SysExoforkNoCommit(c) ==
    /\ Dispatch(c)
    /\ env_free_list # <<>>
    /\ LET e == Head(env_free_list)
       IN  /\ env_id' = [env_id EXCEPT ![e] = <<NextGeneration(e), e>>]
           /\ env_parent_id' = [env_parent_id EXCEPT ![e] = env_id[curenv[c]]]
           /\ TrapReturn(c, [env_status EXCEPT ![e] = "NOT_RUNNABLE"])
    /\ UNCHANGED <<env_free_list, env_type, env_ipc_recving>>

\* sys_exofork and env_alloc; the child waits for its parent to start it.
SysExofork(c) ==
    /\ Dispatch(c)
    /\ env_free_list # <<>>
    /\ LET e == Head(env_free_list)
       IN  /\ env_free_list' = Tail(env_free_list)
           /\ env_id' = [env_id EXCEPT ![e] = <<NextGeneration(e), e>>]
           /\ env_parent_id' = [env_parent_id EXCEPT ![e] = env_id[curenv[c]]]
           /\ env_type' = [env_type EXCEPT ![e] = "USER"]
           /\ env_ipc_recving' = [env_ipc_recving EXCEPT ![e] = FALSE]
           /\ TrapReturn(c, [env_status EXCEPT ![e] = "NOT_RUNNABLE"])

SysEnvSetStatus(c, id, status) ==
    /\ Dispatch(c)
    /\ \E e \in Slot :
        /\ Envid2env(c, id, TRUE, e)
        /\ TrapReturn(c, [env_status EXCEPT ![e] = status])
    /\ UNCHANGED envVars

SysIpcRecv(c) ==
    /\ Dispatch(c)
    /\ env_ipc_recving' = [env_ipc_recving EXCEPT ![curenv[c]] = TRUE]
    /\ SchedYield(c, curenv[c], [env_status EXCEPT ![curenv[c]] = "NOT_RUNNABLE"])
    /\ UNCHANGED <<env_type, env_id, env_parent_id, env_free_list>>

\* Fault: a send leaves the receiver open for the next one.
SysIpcTrySendKeepsRecving(c, id) ==
    /\ Dispatch(c)
    /\ \E e \in Slot :
        /\ Envid2env(c, id, FALSE, e)
        /\ env_ipc_recving[e]
        /\ TrapReturn(c, [env_status EXCEPT ![e] = "RUNNABLE"])
    /\ UNCHANGED envVars

\* A successful sys_ipc_try_send; what is sent is the subject of module Ipc.
SysIpcTrySend(c, id) ==
    /\ Dispatch(c)
    /\ \E e \in Slot :
        /\ Envid2env(c, id, FALSE, e)
        /\ env_ipc_recving[e]
        /\ env_ipc_recving' = [env_ipc_recving EXCEPT ![e] = FALSE]
        /\ TrapReturn(c, [env_status EXCEPT ![e] = "RUNNABLE"])
    /\ UNCHANGED <<env_type, env_id, env_parent_id, env_free_list>>

\* sched_halt's while (1) monitor(NULL).
Monitor(c) == mode[c] = "monitor" /\ UNCHANGED vars

-----------------------------------------------------------------------------
\* Specifications.  They differ only in the system calls programs make.

\* A child that sys_exofork made and nobody has started yet.
NotStarted(id) ==
    LET e == ENVX(id)
    IN  id # Self /\ env_status[e] = "NOT_RUNNABLE" /\ ~env_ipc_recving[e]

\* Programs that never end, written with the library: fork and spawn start each
\* child once, nothing else sets a status.
ServerStep(c) ==
    \/ TrapEntry(c) \/ SpinLock(c) \/ ReapZombie(c) \/ ClockIntr(c) \/ OtherTrap(c)
    \/ SysExofork(c) \/ SysIpcRecv(c) \/ Monitor(c)
    \/ \E id \in EnvId : SysIpcTrySend(c, id)
    \/ \E id \in EnvId : NotStarted(id) /\ SysEnvSetStatus(c, id, "RUNNABLE")

\* A parent destroys a child at most once, so never one that is DYING.
LibDestroy(c, id) ==
    (id # Self => env_status[ENVX(id)] # "DYING") /\ SysEnvDestroy(c, id)

\* Library programs that also exit, fault, and destroy their children.
LibStep(c) ==
    \/ ServerStep(c)
    \/ Fault(c)
    \/ \E id \in EnvId : LibDestroy(c, id)

\* Programs that make any system call with any argument.
AnyStep(c) ==
    \/ LibStep(c)
    \/ \E id \in EnvId : SysEnvDestroy(c, id)
    \/ \E id \in EnvId, s \in {"RUNNABLE", "NOT_RUNNABLE"} : SysEnvSetStatus(c, id, s)

Next == \E c \in CPU : LibStep(c)
AnyNext == \E c \in CPU : AnyStep(c)

Spec == Init /\ [][Next]_vars
AnySpec == Init /\ [][AnyNext]_vars

\* User code traps sooner or later and a halted CPU is woken, because the
\* clock interrupts every CPU.  A CPU that spins gets the lock if it is
\* released again and again.  A CPU in the kernel leaves it.  Whatever else a
\* CPU's program does, the clock interrupts it again and again.
Fairness ==
    \A c \in CPU :
        /\ WF_vars(TrapEntry(c))
        /\ SF_vars(SpinLock(c))
        /\ WF_vars(ReapZombie(c))
        /\ SF_vars(ClockIntr(c))

LiveSpec == Spec /\ Fairness

-----------------------------------------------------------------------------
\* Properties.

\* lock_kernel/unlock_kernel: kernel code runs with the lock held, so at most
\* one CPU is in the kernel; a CPU that runs user code, halts or spins does not
\* hold the lock, so no acquire can find the lock held by its own CPU.
KernelHoldsLock ==
    \A c \in CPU : mode[c] \in {"kernel", "monitor"} <=> kernel_lock = c

\* sched_yield never chooses an environment that runs on another CPU: no
\* environment is the current one of two CPUs.
OneCpuPerEnv ==
    \A c, d \in CPU : curenv[c] = curenv[d] /\ curenv[c] # NULL => c = d

\* curenv, as every trap uses it: a CPU that runs or has left user code has an
\* environment that is RUNNING or a zombie, never a freed or a blocked one; a
\* CPU that halted or came from there or from boot has none.
InUserEnv(c) == mode[c] = "user" \/ (mode[c] \in {"spin", "kernel"} /\ tf_cs[c] = "user")
CurenvAlive ==
    \A c \in CPU :
        mode[c] # "monitor" =>
            IF InUserEnv(c)
            THEN curenv[c] # NULL /\ env_status[curenv[c]] \in {"RUNNING", "DYING"}
            ELSE curenv[c] = NULL

\* An environment that is RUNNING or a zombie is on some CPU: a RUNNING one
\* is not forgotten by the scheduler, and a zombie has a CPU that will free it.
NoOrphan ==
    \A e \in Slot : env_status[e] \in {"RUNNING", "DYING"} => \E c \in CPU : curenv[c] = e

\* What the scheduler and the CPUs think of each other agrees: the three facts
\* above, of which each needs the other two to last.
CpusAgree == OneCpuPerEnv /\ CurenvAlive /\ NoOrphan

\* env_free_list holds every FREE slot exactly once and no other, so env_alloc
\* never hands out a slot in use and never loses one.
FreeListExact ==
    /\ \A i, j \in 1 .. Len(env_free_list) : env_free_list[i] = env_free_list[j] => i = j
    /\ \A e \in Slot : env_status[e] = "FREE" <=>
                       \E i \in 1 .. Len(env_free_list) : env_free_list[i] = e

\* env_ipc_recving says that the environment is blocked in sys_ipc_recv: only
\* then may a sender make it runnable.
RecvingBlocked ==
    \A e \in Slot : env_ipc_recving[e] => env_status[e] \in {"NOT_RUNNABLE", "FREE"}

\* A zombie is freed by the CPU it runs on, when it traps (env_destroy).
ZombieFreedByItsTrap ==
    [][\A e \in Slot : env_status[e] = "DYING" /\ env_status'[e] # "DYING" =>
          \E c \in CPU : curenv[c] = e /\ mode[c] = "kernel"]_vars

\* Round robin starves nobody: an environment stays RUNNABLE for ever only if
\* others are created and end for ever (each end restarts the scan at slot 0).
RunnableRuns ==
    \A e \in Slot : \A k \in 0 .. NENV :
        ~<>[](env_status[e] = "RUNNABLE" /\ Len(env_free_list) = k)

\* A zombie is freed, whatever the other CPUs do, halting included.
ZombieReaped ==
    \A e \in Slot : env_status[e] = "DYING" ~> env_status[e] # "DYING"
=============================================================================
