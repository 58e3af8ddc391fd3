------------------------------- MODULE Pages -------------------------------
(***************************************************************************)
(* Physical pages, page tables and TLBs of JOS: kern/pmap.c, the page      *)
(* system calls of kern/syscall.c, and what kern/env.c does to address     *)
(* spaces.  Each system call is one step, because it runs under the big    *)
(* kernel lock (module Kernel); the MMU of every CPU loads translations    *)
(* between any two steps.                                                  *)
(***************************************************************************)
EXTENDS Integers, FiniteSets

CONSTANTS
    Page, NoPage,   \* physical pages; "no page"
    Env, NoEnv,     \* address spaces; "no environment"
    Boot,           \* the environment that exists at boot
    CPU,
    NPD, NPT,       \* entries of a page directory, of a page table
    RefMod          \* 2^16: pp_ref is a uint16_t

ASSUME PagesAssumption ==
    /\ NoPage \notin Page /\ NoEnv \notin Env /\ Boot \in Env
    /\ IsFiniteSet(Env)
    /\ NPD \in Nat /\ NPT \in Nat /\ RefMod \in Nat /\ RefMod > 1

\* The pointers that pp_ref counts: <<e, 0, 0>> is e's env_pgdir, <<e, i, 0>> its
\* page directory entry i, <<e, i, j>> entry j of its page table i.
Name == Env \X (0 .. NPD) \X (0 .. NPT)
Pte == Env \X (1 .. NPD) \X (1 .. NPT)
Table(n) == <<n[1], n[2], 0>>
Root(e) == <<e, 0, 0>>

VARIABLES
    mem,    \* free: the free list; ref: pp_ref; ptr: the pointers; w: writable PTEs
    env_parent, \* the live parent of each environment, or NoEnv
    curenv, \* the environment each CPU runs, or NoEnv
    tlb     \* the translations each CPU caches: <<PTE, page, writable>>

vars == <<mem, env_parent, curenv, tlb>>

Mem == [free : SUBSET Page, ref : [Page -> 0 .. RefMod - 1],
        ptr : [Name -> Page \cup {NoPage}], w : SUBSET Pte]

\* One type invariant for memory, CPUs and TLBs.
TypeOK ==
    /\ mem \in Mem
    /\ env_parent \in [Env -> Env \cup {NoEnv}]
    /\ curenv \in [CPU -> Env \cup {NoEnv}]
    /\ tlb \in [CPU -> SUBSET (Pte \X Page \X BOOLEAN)]

Alive(m, e) == m.ptr[Root(e)] # NoPage

Init ==
    /\ \E p \in Page :
        mem = [free |-> Page \ {p},
               ref |-> [q \in Page |-> IF q = p THEN 1 ELSE 0],
               ptr |-> [n \in Name |-> IF n = Root(Boot) THEN p ELSE NoPage],
               w |-> {}]
    /\ env_parent = [e \in Env |-> NoEnv]
    /\ curenv = [c \in CPU |-> NoEnv]
    /\ tlb = [c \in CPU |-> {}]

-----------------------------------------------------------------------------
\* kern/pmap.c, as functions from one memory state to the next.

\* page_alloc takes p off the free list and does not count a reference.
PageAlloc(m, p) == [m EXCEPT !.free = @ \ {p}]

\* page_free puts p on the free list.
PageFree(m, p) == [m EXCEPT !.free = @ \cup {p}]

\* page_decref, and page_free when the last reference goes.
PageDecref(m, p) ==
    LET k == (m.ref[p] - 1) % RefMod
    IN  [m EXCEPT !.ref[p] = k, !.free = IF k = 0 THEN @ \cup {p} ELSE @]

\* pgdir_walk with create set: the states in which the page table of PTE n
\* exists; none if it is missing and memory is exhausted.
PgdirWalk(m, n) ==
    IF m.ptr[Table(n)] # NoPage
    THEN {m}
    ELSE {[PageAlloc(m, q) EXCEPT !.ref[q] = 1, !.ptr[Table(n)] = q] : q \in m.free}

PageRemove(m, n) ==
    IF m.ptr[n] = NoPage
    THEN m
    ELSE [PageDecref(m, m.ptr[n]) EXCEPT !.ptr[n] = NoPage, !.w = @ \ {n}]

\* page_insert once pgdir_walk has succeeded.
PageInsert(m, p, n, wr) ==
    LET W(s) == IF wr THEN s \cup {n} ELSE s \ {n}
    IN  IF m.ptr[n] = p
        THEN [m EXCEPT !.w = W(@)]
        ELSE [PageRemove(m, n) EXCEPT !.ref[p] = (@ + 1) % RefMod,
                                      !.ptr[n] = p, !.w = W(@)]

\* tlb_invalidate: only on this CPU, and only if it runs the address space
\* (which is the only one it has cached translations of).
TlbInvalidate(c, n) == {t \in tlb[c] : t[1] # n}

\* What page_insert and page_remove leave in this CPU's TLB.
InsertTlb(c, m, p, n) == IF m.ptr[n] = p THEN tlb[c] ELSE TlbInvalidate(c, n)

\* Fault: cr3 is not reloaded on return to the same environment.
Lcr3Skipped(cached) == cached

\* The lcr3 in env_run, on every return to user mode.
Lcr3(cached) == {}

-----------------------------------------------------------------------------
\* Steps.

\* A system call of the environment on CPU c ends: env_run on the same one.
Return(c, cached) ==
    /\ tlb' = [tlb EXCEPT ![c] = Lcr3(cached)]
    /\ UNCHANGED curenv

\* envid2env with checkperm: e is the caller or a child of it.
May(c, e) ==
    /\ curenv[c] # NoEnv
    /\ Alive(mem, e)
    /\ e = curenv[c] \/ env_parent[e] = curenv[c]

\* sys_page_alloc(e, va, perm), e and va being those of PTE n, when page_alloc and
\* page_insert succeed.
AllocInsert(c, n, wr) ==
    \E p \in mem.free :
        \E m \in PgdirWalk(PageAlloc(mem, p), n) :
            /\ mem' = PageInsert(m, p, n, wr)
            /\ Return(c, InsertTlb(c, m, p, n))

\* Fault: the page is not freed when page_insert fails.
AllocNoMemLeaks(c, n) ==
    /\ \/ mem.free = {} /\ mem' = mem
       \/ \E p \in mem.free :
            /\ PgdirWalk(PageAlloc(mem, p), n) = {}
            /\ mem' = PageAlloc(mem, p)
    /\ Return(c, tlb[c])

\* -E_NO_MEM: there is no page, or none for the page table that page_insert needs;
\* in the second case the page that was allocated is freed again.
AllocNoMem(c, n) ==
    /\ \/ mem.free = {} /\ mem' = mem
       \/ \E p \in mem.free :
            /\ PgdirWalk(PageAlloc(mem, p), n) = {}
            /\ mem' = PageFree(PageAlloc(mem, p), p)
    /\ Return(c, tlb[c])

SysPageAlloc(c, n, wr) ==
    /\ May(c, n[1])
    /\ AllocInsert(c, n, wr) \/ AllocNoMem(c, n)
    /\ UNCHANGED env_parent

\* Fault: the write permission of the source is not checked.
MapPageUnchecked(c, s, n, wr) ==
    /\ mem.ptr[s] # NoPage
    /\ \E m \in PgdirWalk(mem, n) :
        /\ mem' = PageInsert(m, mem.ptr[s], n, wr)
        /\ Return(c, InsertTlb(c, m, mem.ptr[s], n))
    /\ UNCHANGED env_parent

\* The page at PTE s is mapped at PTE n as well, or -E_NO_MEM.
MapPage(c, s, n, wr) ==
    /\ mem.ptr[s] # NoPage
    /\ wr => s \in mem.w
    /\ \/ \E m \in PgdirWalk(mem, n) :
            /\ mem' = PageInsert(m, mem.ptr[s], n, wr)
            /\ Return(c, InsertTlb(c, m, mem.ptr[s], n))
       \/ PgdirWalk(mem, n) = {} /\ mem' = mem /\ Return(c, tlb[c])
    /\ UNCHANGED env_parent

SysPageMap(c, s, n, wr) == May(c, s[1]) /\ May(c, n[1]) /\ MapPage(c, s, n, wr)

\* sys_ipc_try_send with a page, to any environment that is blocked receiving.
IpcSendPage(c, s, n, wr) ==
    /\ s[1] = curenv[c]
    /\ Alive(mem, n[1]) /\ \A d \in CPU : curenv[d] # n[1]
    /\ MapPage(c, s, n, wr)

SysPageUnmap(c, n) ==
    /\ May(c, n[1])
    /\ mem' = PageRemove(mem, n)
    /\ Return(c, TlbInvalidate(c, n))
    /\ UNCHANGED env_parent

\* sys_exofork: env_setup_vm allocates the page directory, or returns -E_NO_MEM.
SysExofork(c, e) ==
    /\ curenv[c] # NoEnv /\ ~Alive(mem, e)
    /\ \/ /\ \E p \in mem.free :
              mem' = [PageAlloc(mem, p) EXCEPT !.ref[p] = (@ + 1) % RefMod,
                                               !.ptr[Root(e)] = p]
          /\ env_parent' = [env_parent EXCEPT ![e] = curenv[c]]
       \/ mem.free = {} /\ UNCHANGED <<mem, env_parent>>
    /\ Return(c, tlb[c])

\* Fault: the page tables of the environment are not released.
EnvFreeKeepsTables(e) ==
    LET own(p) == {n \in Pte \cup {Root(e)} : n[1] = e /\ mem.ptr[n] = p}
        ref == [p \in Page |-> (mem.ref[p] - Cardinality(own(p))) % RefMod]
    IN  [free |-> mem.free \cup {p \in Page : own(p) # {} /\ ref[p] = 0},
         ref |-> ref,
         ptr |-> [n \in Name |-> IF n \in Pte \cup {Root(e)} /\ n[1] = e THEN NoPage
                                 ELSE mem.ptr[n]],
         w |-> {n \in mem.w : n[1] # e}]

\* env_free: drop every page, every page table and the page directory of e.
\* The references are dropped one by one; what is left is what counts.
EnvFree(e) ==
    LET own(p) == {n \in Name : n[1] = e /\ mem.ptr[n] = p}
        ref == [p \in Page |-> (mem.ref[p] - Cardinality(own(p))) % RefMod]
    IN  [free |-> mem.free \cup {p \in Page : own(p) # {} /\ ref[p] = 0},
         ref |-> ref,
         ptr |-> [n \in Name |-> IF n[1] = e THEN NoPage ELSE mem.ptr[n]],
         w |-> {n \in mem.w : n[1] # e}]

\* env_destroy of the caller (the CPU is left on kern_pgdir) or of a child; one
\* that runs on another CPU is freed later, by that CPU (module Kernel).  Its
\* children's env_parent_id is stale from then on.
EnvDestroy(c, e) ==
    /\ May(c, e) /\ \A d \in CPU \ {c} : curenv[d] # e
    /\ mem' = EnvFree(e)
    /\ env_parent' = [x \in Env |-> IF x = e \/ env_parent[x] = e THEN NoEnv
                                    ELSE env_parent[x]]
    /\ IF curenv[c] = e
       THEN /\ curenv' = [curenv EXCEPT ![c] = NoEnv]
            /\ tlb' = [tlb EXCEPT ![c] = Lcr3(@)]
       ELSE Return(c, tlb[c])

\* env_run of another environment, or sched_halt (e = NoEnv).
EnvRun(c, e) ==
    /\ e # NoEnv => Alive(mem, e) /\ \A d \in CPU : curenv[d] # e
    /\ curenv' = [curenv EXCEPT ![c] = e]
    /\ tlb' = [tlb EXCEPT ![c] = Lcr3(@)]
    /\ UNCHANGED <<mem, env_parent>>

\* The MMU of CPU c walks the tables of the environment it runs.
TlbLoad(c, n) ==
    /\ curenv[c] = n[1]
    /\ mem.ptr[n] # NoPage
    /\ tlb' = [tlb EXCEPT ![c] = @ \cup {<<n, mem.ptr[n], n \in mem.w>>}]
    /\ UNCHANGED <<mem, env_parent, curenv>>

-----------------------------------------------------------------------------
\* Library programs change their own address space or that of a child they have
\* not started: never one in use on another CPU.
Quiet(c, e) == \A d \in CPU \ {c} : curenv[d] # e

LibStep(c) ==
    \/ \E e \in Env : SysExofork(c, e) \/ EnvDestroy(c, e)
    \/ \E e \in Env \cup {NoEnv} : EnvRun(c, e)
    \/ \E n \in Pte : TlbLoad(c, n)
    \/ \E n \in Pte, wr \in BOOLEAN : Quiet(c, n[1]) /\ SysPageAlloc(c, n, wr)
    \/ \E s, n \in Pte, wr \in BOOLEAN : Quiet(c, n[1]) /\ SysPageMap(c, s, n, wr)
    \/ \E s, n \in Pte, wr \in BOOLEAN : IpcSendPage(c, s, n, wr)
    \/ \E n \in Pte : Quiet(c, n[1]) /\ SysPageUnmap(c, n)

\* The kernel also lets a parent change the address space of a running child.
AnyStep(c) ==
    \/ LibStep(c)
    \/ \E n \in Pte, wr \in BOOLEAN : SysPageAlloc(c, n, wr)
    \/ \E s, n \in Pte, wr \in BOOLEAN : SysPageMap(c, s, n, wr)
    \/ \E n \in Pte : SysPageUnmap(c, n)

Next == \E c \in CPU : LibStep(c)
AnyNext == \E c \in CPU : AnyStep(c)
Spec == Init /\ [][Next]_vars
AnySpec == Init /\ [][AnyNext]_vars

-----------------------------------------------------------------------------
\* Properties.

Refs(m, p) == {n \in Name : m.ptr[n] = p}

\* inc/memlayout.h: pp_ref is the count of pointers to the page.
RefExact == \A p \in Page : mem.ref[p] = Cardinality(Refs(mem, p))

\* page_free_list holds exactly the pages nobody points to: a mapped page is
\* never handed out again, and a page that is unmapped everywhere is not lost,
\* on the out-of-memory paths either.
FreeExact == \A p \in Page : p \in mem.free <=> Refs(mem, p) = {}

\* pp_ref and the free list agree with the page tables.
CountsExact == RefExact /\ FreeExact

\* A page directory or page table belongs to one environment and is mapped
\* nowhere as data, so no program can write its own translations.
TablesPrivate ==
    \A n \in Name \ Pte : mem.ptr[n] # NoPage => Refs(mem, mem.ptr[n]) = {n}

\* Page tables hang from a live page directory and pages from a page table:
\* pgdir_walk never returns an entry of a table that is not there.
TableShape ==
    \A n \in Pte :
        /\ mem.ptr[n] # NoPage => mem.ptr[Table(n)] # NoPage
        /\ mem.ptr[Table(n)] # NoPage => Alive(mem, n[1])

\* The tables of an environment are a tree of its own.
TablesSound == TablesPrivate /\ TableShape

\* sys_page_map and page_insert: what a CPU caches is what the tables say, so
\* user code neither reads a page that was unmapped nor writes one that was
\* made read-only.
TlbCoherent ==
    \A c \in CPU : \A t \in tlb[c] :
        mem.ptr[t[1]] = t[2] /\ (t[3] => t[1] \in mem.w)

\* sys_page_map must not grant write access to a read-only page: a page in use
\* that nobody may write stays so until it is free again.
ReadOnlyStays ==
    [][\A p \in Page :
          Refs(mem, p) # {} /\ Refs(mem, p) \cap mem.w = {}
          => Refs(mem', p) \cap mem'.w = {}]_vars
=============================================================================
