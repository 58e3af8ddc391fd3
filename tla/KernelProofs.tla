---------------------------- MODULE KernelProofs ----------------------------
(***************************************************************************)
(* The invariants of module Kernel, proved for any number of slots, CPUs   *)
(* and generations and any boot environments.                              *)
(***************************************************************************)
EXTENDS Kernel, TLAPS

\* A halted CPU is marked, so that the trap that wakes it takes the lock.
HaltedMarked ==
    \A c \in CPU : mode[c] = "halt" => cpu_status[c] = "HALTED"

\* What the state of the CPUs and the statuses must satisfy together.
CpuInv ==
    /\ KernelHoldsLock
    /\ OneCpuPerEnv
    /\ CurenvAlive
    /\ NoOrphan
    /\ HaltedMarked

\* The inductive invariant.
IInv == TypeOK /\ CpuInv /\ FreeListExact /\ RecvingBlocked

\* Inside the kernel, just before CPU c looks for an environment to run: c works
\* for cur, the table shows st, and the other CPUs are as CpuInv says.
Ready(c, cur, st) ==
    /\ mode[c] = "kernel"
    /\ cur \in Slot \cup {NULL}
    /\ st \in [Slot -> EnvStatus]
    /\ cur # NULL => st[cur] \in {"RUNNING", "NOT_RUNNABLE"}
    /\ \A d \in CPU : d # c /\ curenv[d] # NULL =>
          curenv[d] # cur /\ st[curenv[d]] \in {"RUNNING", "DYING"}
    /\ \A e \in Slot : st[e] \in {"RUNNING", "DYING"} =>
          e = cur \/ \E d \in CPU : d # c /\ curenv[d] = e

\* The scheduler frees, blocks and kills nobody: it only moves environments
\* between RUNNABLE and RUNNING.
OnlyDispatches(st) ==
    \A e \in Slot : \/ env_status'[e] = st[e]
                    \/ {env_status'[e], st[e]} \subseteq {"RUNNABLE", "RUNNING"}

CpuTypes ==
    /\ kernel_lock \in CPU \cup {NoCPU}
    /\ mode \in [CPU -> Mode]
    /\ tf_cs \in [CPU -> {"user", "kernel"}]
    /\ cpu_status \in [CPU -> {"STARTED", "HALTED"}]
    /\ curenv \in [CPU -> Slot \cup {NULL}]
    /\ env_status \in [Slot -> EnvStatus]

-----------------------------------------------------------------------------
\* env_run on an environment that no other CPU has keeps the CPUs consistent.
LEMMA EnvRunInv ==
    ASSUME TypeOK, CpuInv,
           NEW c \in CPU, NEW cur, NEW st, Ready(c, cur, st),
           NEW e \in Slot, st[e] = "RUNNABLE" \/ (e = cur /\ st[e] = "RUNNING"),
           EnvRun(c, e, cur, st)
    PROVE  CpuTypes' /\ CpuInv' /\ OnlyDispatches(st)
<1> USE SizesAssumption
<1> DEFINE put == IF cur # NULL /\ st[cur] = "RUNNING"
                  THEN [st EXCEPT ![cur] = "RUNNABLE"] ELSE st
<1>1. /\ put \in [Slot -> EnvStatus]
      /\ env_status' = [put EXCEPT ![e] = "RUNNING"]
      /\ curenv' = [curenv EXCEPT ![c] = e]
      /\ mode' = [mode EXCEPT ![c] = "user"]
      /\ kernel_lock' = NoCPU
      /\ tf_cs' = tf_cs /\ cpu_status' = cpu_status
  BY DEF EnvRun, Ready, EnvStatus
<1>2. CpuTypes'
  BY <1>1 DEF CpuTypes, TypeOK, Mode, EnvStatus
<1>3. \A d \in CPU : d # c => curenv'[d] = curenv[d] /\ mode'[d] = mode[d]
  BY <1>1 DEF TypeOK
<1>4. curenv'[c] = e /\ mode'[c] = "user" /\ env_status'[e] = "RUNNING" /\ e # NULL
  BY <1>1 DEF TypeOK, NULL, Slot
<1>b. \A x \in Slot : env_status'[x] = IF x = e THEN "RUNNING"
                                      ELSE IF x = cur /\ st[cur] = "RUNNING" THEN "RUNNABLE"
                                      ELSE st[x]
  BY <1>1 DEF Ready, NULL, Slot
<1> HIDE DEF put
<1>5. \A d \in CPU : d # c /\ curenv[d] # NULL =>
          curenv[d] # e /\ env_status'[curenv[d]] \in {"RUNNING", "DYING"}
  BY <1>b DEF Ready, TypeOK
<1>6. KernelHoldsLock'
  BY <1>1, <1>3, <1>4 DEF KernelHoldsLock, CpuInv, Ready, NoCPU, CPU
<1>7. OneCpuPerEnv'
  BY <1>3, <1>4, <1>5 DEF OneCpuPerEnv, CpuInv
<1>8. CurenvAlive'
  <2>1. ASSUME NEW d \in CPU, mode'[d] # "monitor"
        PROVE  IF InUserEnv(d)'
               THEN curenv'[d] # NULL /\ env_status'[curenv'[d]] \in {"RUNNING", "DYING"}
               ELSE curenv'[d] = NULL
    <3>1. CASE d = c
      BY <3>1, <1>4 DEF InUserEnv
    <3>2. CASE d # c
      BY <3>2, <2>1, <1>1, <1>3, <1>5 DEF CurenvAlive, CpuInv, InUserEnv
    <3> QED BY <3>1, <3>2
  <2> QED BY <2>1 DEF CurenvAlive
<1>9. NoOrphan'
  <2>1. ASSUME NEW x \in Slot, env_status'[x] \in {"RUNNING", "DYING"}
        PROVE  \E d \in CPU : curenv'[d] = x
    <3>1. CASE x = e
      BY <3>1, <1>4
    <3>2. CASE x # e
      <4>1. x # cur /\ st[x] \in {"RUNNING", "DYING"}
        BY <3>2, <2>1, <1>b DEF Ready, NULL, Slot
      <4> QED BY <4>1, <1>3 DEF Ready
    <3> QED BY <3>1, <3>2
  <2> QED BY <2>1 DEF NoOrphan
<1>10. HaltedMarked'
  BY <1>1, <1>3, <1>4 DEF HaltedMarked, CpuInv
<1>11. OnlyDispatches(st)
  BY <1>b DEF OnlyDispatches, Ready
<1> QED
  BY <1>2, <1>6, <1>7, <1>8, <1>9, <1>10, <1>11 DEF CpuInv

\* sched_halt: halting or entering the monitor.
LEMMA SchedHaltInv ==
    ASSUME TypeOK, CpuInv,
           NEW c \in CPU, NEW cur, NEW st, Ready(c, cur, st),
           cur # NULL => st[cur] # "RUNNING",
           SchedHalt(c, cur, st)
    PROVE  CpuTypes' /\ CpuInv' /\ OnlyDispatches(st)
<1> USE SizesAssumption
<1>1. /\ env_status' = st /\ tf_cs' = tf_cs
      /\ \/ /\ curenv' = [curenv EXCEPT ![c] = NULL]
            /\ cpu_status' = [cpu_status EXCEPT ![c] = "HALTED"]
            /\ mode' = [mode EXCEPT ![c] = "halt"] /\ kernel_lock' = NoCPU
         \/ /\ curenv' = [curenv EXCEPT ![c] = cur] /\ cpu_status' = cpu_status
            /\ mode' = [mode EXCEPT ![c] = "monitor"] /\ kernel_lock' = kernel_lock
      /\ CpuTypes'
  <2>1. CASE \E e \in Slot : st[e] # "FREE" /\ env_type[e] = "USER"
    BY <2>1, SMTT(30) DEF SchedHalt, TypeOK, CpuTypes, Ready, Mode
  <2>2. CASE ~ \E e \in Slot : st[e] # "FREE" /\ env_type[e] = "USER"
    BY <2>2 DEF SchedHalt, TypeOK, CpuTypes, Ready, Mode
  <2> QED BY <2>1, <2>2
<1>2. KernelHoldsLock'
  BY <1>1 DEF TypeOK, KernelHoldsLock, CpuInv, Ready, NoCPU, CPU
<1>3. OneCpuPerEnv'
  BY <1>1 DEF TypeOK, OneCpuPerEnv, CpuInv, Ready
<1>4. CurenvAlive'
  BY <1>1 DEF TypeOK, CurenvAlive, CpuInv, Ready, InUserEnv
<1>5. NoOrphan'
  BY <1>1 DEF TypeOK, NoOrphan, Ready
<1>6. HaltedMarked'
  BY <1>1 DEF TypeOK, HaltedMarked, CpuInv
<1>7. OnlyDispatches(st)
  BY <1>1 DEF OnlyDispatches
<1> QED
  BY <1>1, <1>2, <1>3, <1>4, <1>5, <1>6, <1>7 DEF CpuInv

\* sched_yield, from the state Ready describes.
LEMMA SchedYieldInv ==
    ASSUME TypeOK, CpuInv,
           NEW c \in CPU, NEW cur, NEW st, Ready(c, cur, st),
           SchedYield(c, cur, st)
    PROVE  CpuTypes' /\ CpuInv' /\ OnlyDispatches(st)
<1>1. CASE \E e \in Slot : Scan(cur, st, e) /\ EnvRun(c, e, cur, st)
  <2>1. PICK e \in Slot : Scan(cur, st, e) /\ EnvRun(c, e, cur, st)
    BY <1>1
  <2>2. st[e] = "RUNNABLE"
    BY <2>1 DEF Scan
  <2> QED BY <2>1, <2>2, EnvRunInv
<1>2. CASE /\ \A e \in Slot : st[e] # "RUNNABLE"
           /\ IF cur # NULL /\ st[cur] = "RUNNING"
              THEN EnvRun(c, cur, cur, st) ELSE SchedHalt(c, cur, st)
  <2>1. CASE cur # NULL /\ st[cur] = "RUNNING"
    <3>1. cur \in Slot
      BY <2>1 DEF Ready
    <3> QED BY <1>2, <2>1, <3>1, EnvRunInv
  <2>2. CASE ~(cur # NULL /\ st[cur] = "RUNNING")
    BY <1>2, <2>2, SchedHaltInv
  <2> QED BY <2>1, <2>2
<1> QED BY <1>1, <1>2 DEF SchedYield

\* The end of trap().
LEMMA TrapReturnInv ==
    ASSUME TypeOK, CpuInv,
           NEW c \in CPU, NEW st, Ready(c, curenv[c], st),
           TrapReturn(c, st)
    PROVE  CpuTypes' /\ CpuInv' /\ OnlyDispatches(st)
<1>1. CASE curenv[c] # NULL /\ st[curenv[c]] = "RUNNING"
  <2>1. curenv[c] \in Slot
    BY <1>1 DEF Ready
  <2> QED BY <1>1, <2>1, EnvRunInv DEF TrapReturn
<1>2. CASE ~(curenv[c] # NULL /\ st[curenv[c]] = "RUNNING")
  BY <1>2, SchedYieldInv DEF TrapReturn
<1> QED BY <1>1, <1>2

\* What a CPU that holds the lock knows of the others before it changes anything.
LEMMA KernelView ==
    ASSUME TypeOK, CpuInv, NEW c \in CPU, mode[c] = "kernel"
    PROVE  /\ curenv[c] # NULL => env_status[curenv[c]] \in {"RUNNING", "DYING"}
           /\ \A d \in CPU : d # c /\ curenv[d] # NULL =>
                 curenv[d] # curenv[c] /\ env_status[curenv[d]] \in {"RUNNING", "DYING"}
           /\ \A e \in Slot : env_status[e] \in {"RUNNING", "DYING"} =>
                 e = curenv[c] \/ \E d \in CPU : d # c /\ curenv[d] = e
<1>1. \A d \in CPU : mode[d] # "monitor"
  BY DEF CpuInv, KernelHoldsLock
<1>2. \A d \in CPU : curenv[d] # NULL => env_status[curenv[d]] \in {"RUNNING", "DYING"}
  BY <1>1 DEF CpuInv, CurenvAlive
<1>3. \A d \in CPU : d # c /\ curenv[d] # NULL => curenv[d] # curenv[c]
  BY DEF CpuInv, OneCpuPerEnv
<1>4. \A e \in Slot : env_status[e] \in {"RUNNING", "DYING"} =>
                 e = curenv[c] \/ \E d \in CPU : d # c /\ curenv[d] = e
  BY DEF CpuInv, NoOrphan
<1> QED BY <1>2, <1>3, <1>4

-----------------------------------------------------------------------------
\* The free list and the receive flags, once the scheduler has run.

LEMMA PushFacts ==
    ASSUME NEW S, NEW s \in Seq(S), NEW e \in S
    PROVE  /\ <<e>> \o s \in Seq(S)
           /\ Len(<<e>> \o s) = Len(s) + 1
           /\ \A i \in 1 .. Len(s) + 1 : (<<e>> \o s)[i] = IF i = 1 THEN e ELSE s[i - 1]
  OBVIOUS

\* The head taken from a list: what env_alloc does to env_free_list.
LEMMA PopFacts ==
    ASSUME NEW S, NEW s \in Seq(S), s # <<>>
    PROVE  /\ Head(s) \in S /\ Head(s) = s[1] /\ Len(s) \in Nat /\ Len(s) >= 1
           /\ Tail(s) \in Seq(S)
           /\ Len(Tail(s)) = Len(s) - 1
           /\ \A i \in 1 .. Len(s) - 1 : Tail(s)[i] = s[i + 1]
  OBVIOUS

\* A step that changes neither the list nor who is FREE keeps the list exact.
LEMMA FreeListKept ==
    ASSUME FreeListExact, NEW st, OnlyDispatches(st), env_free_list' = env_free_list,
           \A e \in Slot : st[e] = "FREE" <=> env_status[e] = "FREE"
    PROVE  FreeListExact'
<1>1. \A e \in Slot : env_status'[e] = "FREE" <=> st[e] = "FREE"
  BY DEF OnlyDispatches
<1> QED BY <1>1 DEF FreeListExact

\* env_free adds a slot that was not free.
LEMMA FreeListPush ==
    ASSUME TypeOK, FreeListExact, NEW f \in Slot, env_status[f] # "FREE",
           OnlyDispatches([env_status EXCEPT ![f] = "FREE"]),
           env_free_list' = <<f>> \o env_free_list
    PROVE  FreeListExact'
<1>1. \A e \in Slot : env_status'[e] = "FREE" <=> e = f \/ env_status[e] = "FREE"
  BY DEF OnlyDispatches, TypeOK
<1> DEFINE n == Len(env_free_list)
<1>2. /\ Len(env_free_list') = n + 1 /\ n \in Nat
      /\ \A i \in 1 .. n + 1 : env_free_list'[i] = IF i = 1 THEN f ELSE env_free_list[i - 1]
  BY PushFacts DEF TypeOK
<1>3. \A i \in 1 .. n : env_free_list[i] # f /\ env_free_list[i] \in Slot
  BY DEF FreeListExact, TypeOK
<1>4. ASSUME NEW i \in 1 .. n + 1, NEW j \in 1 .. n + 1, env_free_list'[i] = env_free_list'[j]
      PROVE  i = j
  <2>1. CASE i = 1 \/ j = 1
    BY <2>1, <1>2, <1>3, <1>4
  <2>2. CASE i # 1 /\ j # 1
    <3>1. i - 1 \in 1 .. n /\ j - 1 \in 1 .. n /\ env_free_list[i - 1] = env_free_list[j - 1]
      BY <2>2, <1>2, <1>4
    <3> QED BY <3>1 DEF FreeListExact
  <2> QED BY <2>1, <2>2
<1>5. ASSUME NEW e \in Slot
      PROVE  env_status'[e] = "FREE" <=> \E i \in 1 .. n + 1 : env_free_list'[i] = e
  <2>1. CASE e = f
    BY <2>1, <1>1, <1>2
  <2>2. CASE e # f
    <3>1. ASSUME env_status[e] = "FREE" PROVE \E i \in 1 .. n + 1 : env_free_list'[i] = e
      <4>1. PICK i \in 1 .. n : env_free_list[i] = e
        BY <3>1 DEF FreeListExact
      <4>2. i + 1 \in 1 .. n + 1 /\ env_free_list'[i + 1] = e
        BY <4>1, <1>2
      <4> QED BY <4>2, Zenon
    <3>2. ASSUME NEW i \in 1 .. n + 1, env_free_list'[i] = e PROVE env_status[e] = "FREE"
      <4>1. i # 1 /\ i - 1 \in 1 .. n /\ env_free_list[i - 1] = e
        BY <3>2, <2>2, <1>2
      <4> QED BY <4>1 DEF FreeListExact
    <3> QED BY <2>2, <3>1, <3>2, <1>1
  <2> QED BY <2>1, <2>2
<1> QED BY <1>2, <1>4, <1>5 DEF FreeListExact

\* env_alloc takes the slot at the head.
LEMMA FreeListPop ==
    ASSUME TypeOK, FreeListExact, env_free_list # <<>>,
           NEW f, f = Head(env_free_list),
           OnlyDispatches([env_status EXCEPT ![f] = "NOT_RUNNABLE"]),
           env_free_list' = Tail(env_free_list)
    PROVE  FreeListExact'
<1> DEFINE n == Len(env_free_list)
<1>1. /\ f \in Slot /\ f = env_free_list[1] /\ n \in Nat /\ n >= 1
      /\ Len(env_free_list') = n - 1
      /\ \A i \in 1 .. n - 1 : env_free_list'[i] = env_free_list[i + 1]
  BY PopFacts DEF TypeOK
<1>2. \A e \in Slot : env_status'[e] = "FREE" <=> e # f /\ env_status[e] = "FREE"
  BY <1>1 DEF OnlyDispatches, TypeOK
<1>3. ASSUME NEW i \in 1 .. n - 1, NEW j \in 1 .. n - 1, env_free_list'[i] = env_free_list'[j]
      PROVE  i = j
  <2>1. i + 1 \in 1 .. n /\ j + 1 \in 1 .. n /\ env_free_list[i + 1] = env_free_list[j + 1]
    BY <1>1, <1>3
  <2>2. i + 1 = j + 1
    BY <2>1 DEF FreeListExact
  <2> QED BY <2>2
<1>4. ASSUME NEW e \in Slot
      PROVE  env_status'[e] = "FREE" <=> \E i \in 1 .. n - 1 : env_free_list'[i] = e
  <2>1. ASSUME e # f, env_status[e] = "FREE" PROVE \E i \in 1 .. n - 1 : env_free_list'[i] = e
    <3>1. PICK i \in 1 .. n : env_free_list[i] = e
      BY <2>1 DEF FreeListExact
    <3>2. i - 1 \in 1 .. n - 1 /\ env_free_list'[i - 1] = e
      BY <3>1, <2>1, <1>1
    <3> QED BY <3>2
  <2>2. ASSUME NEW i \in 1 .. n - 1, env_free_list'[i] = e PROVE e # f /\ env_status[e] = "FREE"
    <3>1. i + 1 \in 1 .. n /\ 1 \in 1 .. n /\ i + 1 # 1 /\ env_free_list[i + 1] = e
      BY <2>2, <1>1
    <3> QED BY <3>1, <1>1 DEF FreeListExact
  <2> QED BY <2>1, <2>2, <1>2, Zenon
<1> QED BY <1>1, <1>3, <1>4 DEF FreeListExact

\* A step that lets only blocked or freed slots have env_ipc_recving.
LEMMA RecvingKept ==
    ASSUME NEW st, OnlyDispatches(st),
           \A e \in Slot : env_ipc_recving'[e] => st[e] \in {"NOT_RUNNABLE", "FREE"}
    PROVE  RecvingBlocked'
  BY DEF OnlyDispatches, RecvingBlocked

-----------------------------------------------------------------------------
\* One lemma per action.  Each also shows that no zombie is freed but by the
\* CPU it is on.
ZombieStep ==
    \A e \in Slot : env_status[e] = "DYING" /\ env_status'[e] # "DYING" =>
        \E c \in CPU : curenv[c] = e /\ mode[c] = "kernel"

\* trap() before the lock: keeps the invariant.
LEMMA TrapEntryStep ==
    ASSUME IInv, NEW c \in CPU, TrapEntry(c)
    PROVE  IInv' /\ ZombieStep
<1> USE SizesAssumption DEF TrapEntry, IInv, CpuInv
<1>1. /\ \A d \in CPU : d # c => /\ mode'[d] = mode[d] /\ tf_cs'[d] = tf_cs[d]
                                 /\ cpu_status'[d] = cpu_status[d]
      /\ mode'[c] = "spin"
      /\ tf_cs'[c] = IF mode[c] = "user" THEN "user" ELSE "kernel"
      /\ cpu_status'[c] = "STARTED"
      /\ kernel_lock' = kernel_lock /\ curenv' = curenv /\ env_status' = env_status
  BY DEF TypeOK, HaltedMarked
<1>2. TypeOK'
  BY DEF TypeOK, Mode, envVars
<1>3. KernelHoldsLock'
  BY <1>1 DEF KernelHoldsLock
<1>4. OneCpuPerEnv' /\ NoOrphan' /\ HaltedMarked'
  BY <1>1 DEF OneCpuPerEnv, NoOrphan, HaltedMarked
<1>5. CurenvAlive'
  BY <1>1 DEF CurenvAlive, InUserEnv
<1>6. FreeListExact' /\ RecvingBlocked'
  BY <1>1 DEF FreeListExact, RecvingBlocked, envVars
<1>7. ZombieStep
  BY <1>1 DEF ZombieStep
<1> QED BY <1>2, <1>3, <1>4, <1>5, <1>6, <1>7

\* Taking the lock keeps the invariant.
LEMMA SpinLockStep ==
    ASSUME IInv, NEW c \in CPU, SpinLock(c)
    PROVE  IInv' /\ ZombieStep
<1> USE SizesAssumption DEF SpinLock, IInv, CpuInv
<1>1. /\ \A d \in CPU : d # c => mode'[d] = mode[d]
      /\ mode'[c] = "kernel" /\ kernel_lock' = c
      /\ tf_cs' = tf_cs /\ cpu_status' = cpu_status
      /\ curenv' = curenv /\ env_status' = env_status
  BY DEF TypeOK
<1>2. TypeOK'
  BY DEF TypeOK, Mode, envVars
<1>3. KernelHoldsLock'
  BY <1>1 DEF KernelHoldsLock, NoCPU, CPU
<1>4. OneCpuPerEnv' /\ NoOrphan' /\ HaltedMarked'
  BY <1>1 DEF OneCpuPerEnv, NoOrphan, HaltedMarked
<1>5. CurenvAlive'
  BY <1>1 DEF CurenvAlive, InUserEnv
<1>6. FreeListExact' /\ RecvingBlocked'
  BY <1>1 DEF FreeListExact, RecvingBlocked, envVars
<1>7. ZombieStep
  BY <1>1 DEF ZombieStep
<1> QED BY <1>2, <1>3, <1>4, <1>5, <1>6, <1>7

\* A kernel step that leaves the list, the flags, and who is FREE, blocked or
\* DYING as they were.
LEMMA QuietStep ==
    ASSUME IInv, NEW st, CpuTypes', CpuInv', OnlyDispatches(st), UNCHANGED envVars,
           \A e \in Slot : /\ st[e] = "FREE" <=> env_status[e] = "FREE"
                           /\ env_ipc_recving[e] => st[e] = env_status[e]
                           /\ env_status[e] = "DYING" => st[e] = "DYING"
    PROVE  IInv' /\ ZombieStep
<1>1. TypeOK'
  BY DEF IInv, TypeOK, CpuTypes, envVars
<1>2. FreeListExact'
  BY FreeListKept DEF IInv, envVars
<1>3. RecvingBlocked'
  BY RecvingKept DEF IInv, RecvingBlocked, envVars
<1>4. ZombieStep
  BY DEF ZombieStep, OnlyDispatches
<1> QED BY <1>1, <1>2, <1>3, <1>4 DEF IInv

\* A clock interrupt, sys_yield or the first sched_yield of a CPU.
LEMMA ClockIntrStep ==
    ASSUME IInv, NEW c \in CPU, ClockIntr(c)
    PROVE  IInv' /\ ZombieStep
<1>1. Ready(c, curenv[c], env_status)
  <2>1. curenv[c] # NULL => env_status[curenv[c]] # "DYING"
    BY DEF ClockIntr, Dispatch, IInv, CpuInv, CurenvAlive, InUserEnv, TypeOK
  <2> QED BY <2>1, KernelView DEF ClockIntr, Ready, IInv, TypeOK
<1>2. CpuTypes' /\ CpuInv' /\ OnlyDispatches(env_status)
  BY <1>1, SchedYieldInv DEF ClockIntr, IInv
<1> QED BY <1>2, QuietStep DEF ClockIntr

\* A trap dispatched for a live environment starts from a Ready state.
LEMMA DispatchReady ==
    ASSUME IInv, NEW c \in CPU, Dispatch(c)
    PROVE  /\ Ready(c, curenv[c], env_status)
           /\ curenv[c] \in Slot
           /\ env_status[curenv[c]] = "RUNNING"
           /\ \A d \in CPU : d # c => curenv[d] # curenv[c]
<1>1. curenv[c] \in Slot /\ env_status[curenv[c]] = "RUNNING"
  BY KernelView DEF Dispatch, IInv, TypeOK
<1>2. \A d \in CPU : d # c => curenv[d] # curenv[c]
  BY DEF Dispatch, IInv, CpuInv, OneCpuPerEnv
<1> QED BY <1>1, <1>2, KernelView DEF Dispatch, Ready, IInv, TypeOK

\* To change the status of an environment that is on no CPU, to one that is on
\* no CPU either, disturbs nothing the scheduler relies on.
LEMMA ReadyKept ==
    ASSUME curenv \in [CPU -> Slot \cup {NULL}], NEW c \in CPU,
           NEW e \in Slot, NEW st \in [Slot -> EnvStatus],
           Ready(c, curenv[c], env_status), curenv[c] \in Slot,
           env_status[curenv[c]] = "RUNNING",
           env_status[e] \notin {"RUNNING", "DYING"}, st[e] \notin {"RUNNING", "DYING"},
           \A x \in Slot : x # e => st[x] = env_status[x]
    PROVE  Ready(c, curenv[c], st)
<1>1. st[curenv[c]] = "RUNNING"
  OBVIOUS
<1>2. \A d \in CPU : d # c /\ curenv[d] # NULL =>
          curenv[d] # curenv[c] /\ st[curenv[d]] \in {"RUNNING", "DYING"}
  <2> TAKE d \in CPU
  <2> HAVE d # c /\ curenv[d] # NULL
  <2>1. curenv[d] \in Slot
    OBVIOUS
  <2>2. curenv[d] # curenv[c] /\ env_status[curenv[d]] \in {"RUNNING", "DYING"}
    BY DEF Ready
  <2> QED BY <2>1, <2>2
<1>3. \A x \in Slot : st[x] \in {"RUNNING", "DYING"} =>
          x = curenv[c] \/ \E d \in CPU : d # c /\ curenv[d] = x
  <2> TAKE x \in Slot
  <2> HAVE st[x] \in {"RUNNING", "DYING"}
  <2>1. env_status[x] \in {"RUNNING", "DYING"}
    OBVIOUS
  <2> QED BY <2>1 DEF Ready
<1> QED BY <1>1, <1>2, <1>3 DEF Ready

\* A trap that changes no environment.
LEMMA OtherTrapStep ==
    ASSUME IInv, NEW c \in CPU, OtherTrap(c)
    PROVE  IInv' /\ ZombieStep
<1>1. CpuTypes' /\ CpuInv' /\ OnlyDispatches(env_status)
  BY DispatchReady, TrapReturnInv DEF OtherTrap, IInv
<1> QED BY <1>1, QuietStep DEF OtherTrap

\* sys_env_set_status as fork and spawn use it to start a child.
LEMMA SetStatusStep ==
    ASSUME IInv, NEW c \in CPU, NEW id \in EnvId, NotStarted(id),
           SysEnvSetStatus(c, id, "RUNNABLE")
    PROVE  IInv' /\ ZombieStep
<1>1. PICK e \in Slot : /\ Envid2env(c, id, TRUE, e)
                        /\ TrapReturn(c, [env_status EXCEPT ![e] = "RUNNABLE"])
  BY Zenon DEF SysEnvSetStatus
<1>2. env_status[e] = "NOT_RUNNABLE" /\ ~env_ipc_recving[e]
  BY <1>1 DEF NotStarted, Envid2env
<1> DEFINE st == [env_status EXCEPT ![e] = "RUNNABLE"]
<1>3. \A x \in Slot : st[x] = IF x = e THEN "RUNNABLE" ELSE env_status[x]
  BY DEF IInv, TypeOK
<1>4. st \in [Slot -> EnvStatus]
  BY DEF IInv, TypeOK, EnvStatus
<1> HIDE DEF st
<1>5. Ready(c, curenv[c], st)
  <2>1. st[e] \notin {"RUNNING", "DYING"} /\ \A x \in Slot : x # e => st[x] = env_status[x]
    BY <1>3
  <2>2. curenv \in [CPU -> Slot \cup {NULL}]
    BY DEF IInv, TypeOK
  <2> QED BY <1>2, <1>4, <2>1, <2>2, DispatchReady, ReadyKept DEF SysEnvSetStatus
<1>6. CpuTypes' /\ CpuInv' /\ OnlyDispatches(st)
  BY <1>1, <1>5, TrapReturnInv DEF IInv, st
<1> QED BY <1>2, <1>3, <1>6, QuietStep DEF SysEnvSetStatus

\* sys_ipc_recv blocks the caller.
LEMMA IpcRecvStep ==
    ASSUME IInv, NEW c \in CPU, SysIpcRecv(c)
    PROVE  IInv' /\ ZombieStep
<1> DEFINE cur == curenv[c]
           st == [env_status EXCEPT ![cur] = "NOT_RUNNABLE"]
<1>1. /\ Ready(c, cur, env_status) /\ cur \in Slot /\ env_status[cur] = "RUNNING"
      /\ \A d \in CPU : d # c => curenv[d] # cur
  BY DispatchReady DEF SysIpcRecv
<1>2. \A x \in Slot : st[x] = IF x = cur THEN "NOT_RUNNABLE" ELSE env_status[x]
  BY DEF IInv, TypeOK
<1>3. st \in [Slot -> EnvStatus]
  BY Zenon DEF IInv, TypeOK, EnvStatus
<1>4. SchedYield(c, cur, st)
  BY DEF SysIpcRecv
<1> HIDE DEF st
<1>5. Ready(c, cur, st)
  BY <1>1, <1>2, <1>3 DEF Ready, IInv, TypeOK
<1>6. CpuTypes' /\ CpuInv' /\ OnlyDispatches(st)
  BY <1>4, <1>5, SchedYieldInv DEF IInv
<1>7. env_ipc_recving' \in [Slot -> BOOLEAN]
  BY Zenon DEF SysIpcRecv, IInv, TypeOK
<1>8. \A x \in Slot : env_ipc_recving'[x] => x = cur \/ env_ipc_recving[x]
  BY DEF SysIpcRecv, IInv, TypeOK
<1>9. TypeOK'
  BY <1>6, <1>7, Zenon DEF SysIpcRecv, IInv, TypeOK, CpuTypes
<1>10. FreeListExact'
  BY <1>1, <1>2, <1>6, FreeListKept DEF SysIpcRecv, IInv
<1>11. RecvingBlocked'
  BY <1>2, <1>6, <1>8, RecvingKept DEF IInv, RecvingBlocked
<1>12. ZombieStep
  BY <1>1, <1>2, <1>6 DEF ZombieStep, OnlyDispatches
<1> QED BY <1>6, <1>9, <1>10, <1>11, <1>12 DEF IInv

\* sys_ipc_try_send wakes a blocked receiver, which is on no CPU.
LEMMA IpcTrySendStep ==
    ASSUME IInv, NEW c \in CPU, NEW id \in EnvId, SysIpcTrySend(c, id)
    PROVE  IInv' /\ ZombieStep
<1>1. PICK e \in Slot :
        /\ Envid2env(c, id, FALSE, e)
        /\ env_ipc_recving[e]
        /\ env_ipc_recving' = [env_ipc_recving EXCEPT ![e] = FALSE]
        /\ TrapReturn(c, [env_status EXCEPT ![e] = "RUNNABLE"])
  BY Zenon DEF SysIpcTrySend
<1>2. /\ Ready(c, curenv[c], env_status) /\ curenv[c] \in Slot
      /\ env_status[curenv[c]] = "RUNNING"
  BY DispatchReady DEF SysIpcTrySend
<1>3. env_status[e] = "NOT_RUNNABLE"
  <2>1. env_status[e] \in {"NOT_RUNNABLE", "FREE"}
    BY <1>1 DEF IInv, RecvingBlocked
  <2> QED BY <2>1, <1>1, <1>2 DEF Envid2env
<1> DEFINE st == [env_status EXCEPT ![e] = "RUNNABLE"]
<1>4. \A x \in Slot : st[x] = IF x = e THEN "RUNNABLE" ELSE env_status[x]
  BY DEF IInv, TypeOK
<1>5. st \in [Slot -> EnvStatus]
  BY DEF IInv, TypeOK, EnvStatus
<1>6. TrapReturn(c, st)
  BY <1>1
<1> HIDE DEF st
<1>7. Ready(c, curenv[c], st)
  <2>1. st[e] \notin {"RUNNING", "DYING"} /\ \A x \in Slot : x # e => st[x] = env_status[x]
    BY <1>4
  <2>2. curenv \in [CPU -> Slot \cup {NULL}]
    BY DEF IInv, TypeOK
  <2> QED BY <1>2, <1>3, <1>5, <2>1, <2>2, ReadyKept
<1>8. CpuTypes' /\ CpuInv' /\ OnlyDispatches(st)
  BY <1>6, <1>7, TrapReturnInv DEF IInv
<1>9. /\ env_ipc_recving' \in [Slot -> BOOLEAN]
      /\ \A x \in Slot : env_ipc_recving'[x] => x # e /\ env_ipc_recving[x]
  BY <1>1 DEF IInv, TypeOK
<1>10. TypeOK'
  BY <1>8, <1>9 DEF SysIpcTrySend, IInv, TypeOK, CpuTypes
<1>11. FreeListExact'
  BY <1>3, <1>4, <1>8, FreeListKept, Zenon DEF SysIpcTrySend, IInv
<1>12. RecvingBlocked'
  BY <1>4, <1>8, <1>9, RecvingKept DEF IInv, RecvingBlocked
<1>13. ZombieStep
  BY <1>3, <1>4, <1>8 DEF ZombieStep, OnlyDispatches
<1> QED BY <1>8, <1>10, <1>11, <1>12, <1>13 DEF IInv

\* sys_exofork takes a slot from the free list.
LEMMA ExoforkStep ==
    ASSUME IInv, NEW c \in CPU, SysExofork(c)
    PROVE  IInv' /\ ZombieStep
<1> DEFINE e == Head(env_free_list)
           st == [env_status EXCEPT ![e] = "NOT_RUNNABLE"]
<1>1. /\ Ready(c, curenv[c], env_status) /\ curenv[c] \in Slot
      /\ env_status[curenv[c]] = "RUNNING"
  BY DispatchReady DEF SysExofork
<1>2. /\ e \in Slot /\ env_status[e] = "FREE"
      /\ env_free_list' \in Seq(Slot)
  BY PopFacts DEF SysExofork, IInv, TypeOK, FreeListExact
<1>3. \A x \in Slot : st[x] = IF x = e THEN "NOT_RUNNABLE" ELSE env_status[x]
  BY DEF IInv, TypeOK
<1>4. st \in [Slot -> EnvStatus]
  BY Zenon DEF IInv, TypeOK, EnvStatus
<1>5. TrapReturn(c, st)
  BY DEF SysExofork
<1>6. Ready(c, curenv[c], st)
  <2>1. curenv \in [CPU -> Slot \cup {NULL}]
    BY DEF IInv, TypeOK
  <2> HIDE DEF st, e
  <2>2. st[e] \notin {"RUNNING", "DYING"} /\ \A x \in Slot : x # e => st[x] = env_status[x]
    BY <1>2, <1>3
  <2> QED BY <1>1, <1>2, <1>4, <2>1, <2>2, ReadyKept
<1>7. CpuTypes' /\ CpuInv' /\ OnlyDispatches(st)
  <2> HIDE DEF st
  <2> QED BY <1>5, <1>6, TrapReturnInv DEF IInv
<1>8. /\ env_ipc_recving' \in [Slot -> BOOLEAN]
      /\ \A x \in Slot : env_ipc_recving'[x] => x # e /\ env_ipc_recving[x]
  BY <1>2 DEF SysExofork, IInv, TypeOK
<1>9. <<NextGeneration(e), e>> \in EnvId
  <2>1. env_id[e] \in (0 .. NGEN) \X Slot
    BY <1>2 DEF IInv, TypeOK, EnvId
  <2> QED BY <2>1, <1>2, SizesAssumption DEF NextGeneration, EnvId
<1>10. /\ env_id' \in [Slot -> EnvId] /\ env_parent_id' \in [Slot -> EnvId]
       /\ env_type' \in [Slot -> EnvType]
  BY <1>1, <1>9 DEF SysExofork, IInv, TypeOK, EnvType
<1>11. TypeOK'
  BY <1>2, <1>7, <1>8, <1>10 DEF TypeOK, CpuTypes
<1>12. FreeListExact'
  BY <1>7, FreeListPop DEF SysExofork, IInv
<1>13. RecvingBlocked'
  <2> HIDE DEF st, e
  <2> QED BY <1>3, <1>7, <1>8, RecvingKept DEF IInv, RecvingBlocked
<1>14. ZombieStep
  <2> HIDE DEF st, e
  <2> QED BY <1>2, <1>3, <1>7 DEF ZombieStep, OnlyDispatches
<1> QED BY <1>7, <1>11, <1>12, <1>13, <1>14 DEF IInv

\* A kernel step that frees slot f.
LEMMA FreeingStep ==
    ASSUME IInv, NEW c \in CPU, NEW f \in Slot, EnvFree(f), env_status[f] # "FREE",
           CpuTypes', CpuInv', OnlyDispatches([env_status EXCEPT ![f] = "FREE"]),
           env_status[f] = "DYING" => curenv[c] = f /\ mode[c] = "kernel"
    PROVE  IInv' /\ ZombieStep
<1> DEFINE st == [env_status EXCEPT ![f] = "FREE"]
<1>1. \A x \in Slot : st[x] = IF x = f THEN "FREE" ELSE env_status[x]
  BY SMTT(30) DEF IInv, TypeOK
<1>2. TypeOK'
  BY PushFacts DEF IInv, TypeOK, CpuTypes, EnvFree
<1>3. FreeListExact'
  BY FreeListPush, Zenon DEF IInv, EnvFree
<1>4. RecvingBlocked'
  <2> HIDE DEF st
  <2> QED BY <1>1, RecvingKept, Zenon DEF IInv, RecvingBlocked, EnvFree, st
<1>5. ZombieStep
  <2>1. OnlyDispatches(st)
    OBVIOUS
  <2> HIDE DEF st
  <2> QED BY <1>1, <2>1 DEF ZombieStep, OnlyDispatches
<1> QED BY <1>2, <1>3, <1>4, <1>5 DEF IInv

\* Freeing the environment this CPU runs, then looking for another.
LEMMA FreeCurrent ==
    ASSUME IInv, NEW c \in CPU, mode[c] = "kernel", curenv[c] # NULL, EnvFree(curenv[c]),
           SchedYield(c, NULL, [env_status EXCEPT ![curenv[c]] = "FREE"])
    PROVE  IInv' /\ ZombieStep
<1> DEFINE f == curenv[c]
           st == [env_status EXCEPT ![f] = "FREE"]
<1>1. f \in Slot /\ env_status[f] \in {"RUNNING", "DYING"}
  BY KernelView DEF IInv, TypeOK
<1>2. /\ st \in [Slot -> EnvStatus]
      /\ \A x \in Slot : st[x] = IF x = f THEN "FREE" ELSE env_status[x]
  BY DEF IInv, TypeOK, EnvStatus
<1>3. Ready(c, NULL, st)
  <2> HIDE DEF st
  <2> QED BY <1>1, <1>2, KernelView, SMTT(30) DEF Ready, IInv, TypeOK
<1>4. CpuTypes' /\ CpuInv' /\ OnlyDispatches(st)
  <2>1. SchedYield(c, NULL, st)
    OBVIOUS
  <2> HIDE DEF st
  <2> QED BY <2>1, <1>3, SchedYieldInv DEF IInv
<1> QED BY <1>1, <1>4, FreeingStep

\* env_destroy of an environment that is not a zombie.
LEMMA DestroyStep ==
    ASSUME IInv, NEW c \in CPU, Dispatch(c), NEW e \in Slot,
           env_status[e] \notin {"FREE", "DYING"}, EnvDestroy(c, e)
    PROVE  IInv' /\ ZombieStep
<1>1. /\ Ready(c, curenv[c], env_status) /\ curenv[c] \in Slot
      /\ env_status[curenv[c]] = "RUNNING"
  BY DispatchReady, SMTT(30)
<1>2. CASE env_status[e] = "RUNNING" /\ curenv[c] # e
  <2> DEFINE st == [env_status EXCEPT ![e] = "DYING"]
  <2>1. TrapReturn(c, st) /\ UNCHANGED envVars
    BY <1>2 DEF EnvDestroy
  <2>2. /\ st \in [Slot -> EnvStatus]
        /\ \A x \in Slot : st[x] = IF x = e THEN "DYING" ELSE env_status[x]
    BY SMTT(30) DEF IInv, TypeOK, EnvStatus
  <2> HIDE DEF st
  <2>3. Ready(c, curenv[c], st)
    BY <1>1, <1>2, <2>2, SMTT(30) DEF Ready, IInv, TypeOK
  <2>4. CpuTypes' /\ CpuInv' /\ OnlyDispatches(st)
    BY <2>1, <2>3, TrapReturnInv, SMTT(30) DEF IInv
  <2>5. ~env_ipc_recving[e]
    BY <1>2 DEF IInv, RecvingBlocked
  <2> QED BY <1>2, <2>1, <2>2, <2>4, <2>5, QuietStep, Zenon
<1>3. CASE env_status[e] # "RUNNING" /\ curenv[c] # e
  <2> DEFINE st == [env_status EXCEPT ![e] = "FREE"]
  <2>1. TrapReturn(c, st) /\ EnvFree(e)
    BY <1>3 DEF EnvDestroy
  <2>2. /\ st \in [Slot -> EnvStatus]
        /\ \A x \in Slot : st[x] = IF x = e THEN "FREE" ELSE env_status[x]
    BY DEF IInv, TypeOK, EnvStatus
  <2>3. Ready(c, curenv[c], st)
    <3>1. curenv \in [CPU -> Slot \cup {NULL}] /\ env_status[e] \notin {"RUNNING", "DYING"}
      BY <1>3 DEF IInv, TypeOK
    <3> HIDE DEF st
    <3>2. st[e] \notin {"RUNNING", "DYING"} /\ \A x \in Slot : x # e => st[x] = env_status[x]
      BY <2>2
    <3> QED BY <1>1, <2>2, <3>1, <3>2, ReadyKept
  <2>4. CpuTypes' /\ CpuInv' /\ OnlyDispatches(st)
    <3> HIDE DEF st
    <3> QED BY <2>1, <2>3, TrapReturnInv DEF IInv
  <2> QED BY <2>1, <2>4, FreeingStep, SMTT(30)
<1>4. CASE curenv[c] = e
  BY <1>4, FreeCurrent DEF EnvDestroy, Dispatch
<1> QED BY <1>2, <1>3, <1>4

\* trap() frees the zombie it came from.
LEMMA ReapZombieStep ==
    ASSUME IInv, NEW c \in CPU, ReapZombie(c)
    PROVE  IInv' /\ ZombieStep
  BY FreeCurrent DEF ReapZombie

\* An environment destroyed by its own fault.
LEMMA FaultStep ==
    ASSUME IInv, NEW c \in CPU, Fault(c)
    PROVE  IInv' /\ ZombieStep
  BY DispatchReady, DestroyStep DEF Fault

\* sys_env_destroy of an environment that is not yet a zombie.
LEMMA LibDestroyStep ==
    ASSUME IInv, NEW c \in CPU, NEW id \in EnvId, LibDestroy(c, id)
    PROVE  IInv' /\ ZombieStep
<1>1. Dispatch(c)
  BY DEF LibDestroy, SysEnvDestroy
<1>2. PICK e \in Slot : Envid2env(c, id, TRUE, e) /\ EnvDestroy(c, e)
  BY Zenon DEF LibDestroy, SysEnvDestroy
<1>3. env_status[e] \notin {"FREE", "DYING"}
  BY <1>1, <1>2, DispatchReady DEF Envid2env, LibDestroy
<1> QED BY <1>1, <1>2, <1>3, DestroyStep

-----------------------------------------------------------------------------
\* The state after boot satisfies the invariant.
LEMMA InitIInv ==
    ASSUME Init
    PROVE  IInv
<1> USE SizesAssumption, BootAssumption DEF Init
<1> DEFINE n == Len(BootTypes)
<1>1. n \in Nat /\ n <= NENV /\ NENV \in Nat
  OBVIOUS
<1>2. /\ Len(env_free_list) = NENV - n
      /\ \A i \in 1 .. NENV - n : env_free_list[i] = n + i - 1
      /\ env_free_list \in Seq(Slot)
  <2>1. NENV - n \in Nat
    BY <1>1
  <2>2. \A i \in 1 .. NENV - n : n + i - 1 \in Slot
    BY <1>1 DEF Slot
  <2> QED BY <2>1, <2>2
<1>3. TypeOK
  <2>1. \A e \in Slot : Booted(e) => BootTypes[e + 1] \in EnvType
    BY <1>1 DEF Booted, Slot
  <2>2. env_type \in [Slot -> EnvType]
    BY <2>1 DEF EnvType
  <2>3. env_id \in [Slot -> EnvId] /\ env_parent_id \in [Slot -> EnvId]
    BY DEF EnvId, Slot
  <2> QED BY <2>2, <2>3, <1>2 DEF TypeOK, CPU, Mode, EnvStatus
<1>4. CpuInv
  BY DEF CpuInv, KernelHoldsLock, OneCpuPerEnv, CurenvAlive, NoOrphan, HaltedMarked, InUserEnv
<1>5. FreeListExact
  <2>1. ASSUME NEW e \in Slot
        PROVE  env_status[e] = "FREE" <=> \E i \in 1 .. Len(env_free_list) : env_free_list[i] = e
    <3>1. env_status[e] = "FREE" <=> e >= n
      BY <1>1 DEF Booted, Slot
    <3>2. ASSUME e >= n PROVE e - n + 1 \in 1 .. NENV - n /\ env_free_list[e - n + 1] = e
      BY <3>2, <1>1, <1>2 DEF Slot
    <3>3. \A i \in 1 .. NENV - n : env_free_list[i] = e => e >= n
      BY <1>1, <1>2
    <3> QED BY <3>1, <3>2, <3>3, <1>2, Zenon
  <2>2. \A i, j \in 1 .. Len(env_free_list) : env_free_list[i] = env_free_list[j] => i = j
    BY <1>1, <1>2
  <2> QED BY <2>1, <2>2 DEF FreeListExact
<1>6. RecvingBlocked
  BY DEF RecvingBlocked
<1> QED BY <1>3, <1>4, <1>5, <1>6 DEF IInv

\* The invariant is inductive: every step of every program written with the
\* library keeps it, and frees no zombie but on the CPU it runs on.
LEMMA NextIInv ==
    ASSUME IInv, [Next]_vars
    PROVE  IInv' /\ ZombieStep
<1>1. CASE UNCHANGED vars
  BY <1>1 DEF IInv, TypeOK, CpuInv, KernelHoldsLock, OneCpuPerEnv, CurenvAlive, NoOrphan,
              HaltedMarked, InUserEnv, FreeListExact, RecvingBlocked, ZombieStep,
              vars, cpuVars, envVars
<1>2. ASSUME NEW c \in CPU, LibStep(c) PROVE IInv' /\ ZombieStep
  <2>1. CASE Monitor(c)
    BY <2>1, <1>1 DEF Monitor
  <2>2. CASE \E id \in EnvId : SysIpcTrySend(c, id)
    BY <2>2, IpcTrySendStep
  <2>3. CASE \E id \in EnvId : NotStarted(id) /\ SysEnvSetStatus(c, id, "RUNNABLE")
    BY <2>3, SetStatusStep
  <2>4. CASE \E id \in EnvId : LibDestroy(c, id)
    BY <2>4, LibDestroyStep
  <2> QED BY <1>2, <2>1, <2>2, <2>3, <2>4, TrapEntryStep, SpinLockStep, ReapZombieStep,
             ClockIntrStep, OtherTrapStep, ExoforkStep, IpcRecvStep, FaultStep
          DEF LibStep, ServerStep
<1> QED BY <1>1, <1>2 DEF Next

\* The inductive invariant holds in every reachable state.
THEOREM Invariance == Spec => []IInv
<1>1. Init => IInv
  BY InitIInv
<1>2. IInv /\ [Next]_vars => IInv'
  BY NextIInv
<1> QED BY <1>1, <1>2, PTL DEF Spec

\* trap, sched_yield and the system calls keep the state of the kernel typed.
THEOREM TypeCorrect == Spec => []TypeOK
<1>1. IInv => TypeOK
  BY DEF IInv
<1> QED BY <1>1, Invariance, PTL

\* Kernel code runs under the big kernel lock, on any number of CPUs.
THEOREM LockDiscipline == Spec => []KernelHoldsLock
<1>1. IInv => KernelHoldsLock
  BY DEF IInv, CpuInv
<1> QED BY <1>1, Invariance, PTL

\* No environment ever runs on two CPUs.
THEOREM NeverOnTwoCpus == Spec => []OneCpuPerEnv
<1>1. IInv => OneCpuPerEnv
  BY DEF IInv, CpuInv
<1> QED BY <1>1, Invariance, PTL

\* curenv is never freed or blocked under a CPU that works for it.
THEOREM CurenvStaysAlive == Spec => []CurenvAlive
<1>1. IInv => CurenvAlive
  BY DEF IInv, CpuInv
<1> QED BY <1>1, Invariance, PTL

\* RUNNING environments and zombies are on a CPU.
THEOREM RunningIsOnACpu == Spec => []NoOrphan
<1>1. IInv => NoOrphan
  BY DEF IInv, CpuInv
<1> QED BY <1>1, Invariance, PTL

\* All three: scheduler and CPUs agree on who runs where.
THEOREM CpusConsistent == Spec => []CpusAgree
<1>1. IInv => CpusAgree
  BY DEF IInv, CpuInv, CpusAgree
<1> QED BY <1>1, Invariance, PTL

\* The free list is exactly the FREE slots.
THEOREM FreeListCorrect == Spec => []FreeListExact
<1>1. IInv => FreeListExact
  BY DEF IInv
<1> QED BY <1>1, Invariance, PTL

\* Only a blocked receiver is open for a send.
THEOREM RecvingIsBlocked == Spec => []RecvingBlocked
<1>1. IInv => RecvingBlocked
  BY DEF IInv
<1> QED BY <1>1, Invariance, PTL

\* env_destroy's promise: a zombie is freed only by the CPU it runs on.
THEOREM ZombieSafety == Spec => ZombieFreedByItsTrap
<1>1. IInv /\ [Next]_vars => [\A e \in Slot : env_status[e] = "DYING" /\ env_status'[e] # "DYING" =>
          \E c \in CPU : curenv[c] = e /\ mode[c] = "kernel"]_vars
  BY NextIInv DEF ZombieStep
<1> QED BY <1>1, Invariance, PTL DEF Spec, ZombieFreedByItsTrap
=============================================================================
