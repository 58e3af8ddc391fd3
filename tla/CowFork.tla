------------------------------ MODULE CowFork ------------------------------
(***************************************************************************)
(* fork and its page fault handler, lib/fork.c: copy-on-write built from   *)
(* system calls by the program itself.                                     *)
(*                                                                         *)
(* The kernel sees unrelated calls of sys_page_map and sys_page_alloc, each*)
(* atomic under the big kernel lock.  Between two of them other programs   *)
(* run, and so does the forking program: it goes on writing to its stack,  *)
(* one of the pages it is sharing out, and every such write may fault.     *)
(***************************************************************************)
EXTENDS Naturals

CONSTANTS Env,      \* environments
          Root,     \* the one that runs at the start
          Page,     \* physical pages
          NoPage,
          NPAGE,    \* virtual pages below USTACKTOP
          Stack,    \* the one that holds the stack of the function fork
          Value,    \* contents of a page
          NoEnv

ASSUME ForkAssumption ==
    /\ NPAGE \in Nat /\ Stack \in 0 .. NPAGE - 1
    /\ Root \in Env /\ NoEnv \notin Env /\ NoPage \notin Page /\ 0 \in Value

VARIABLES status,   \* per environment: "free", "embryo" (not runnable yet), "runs" or "panicked"
          pte,      \* per environment and virtual page: the page mapped there and its permission
          pftemp,   \* per environment: the page mapped at PFTEMP
          content,  \* per page: what it holds
          fault,    \* per environment: the page fault it is handling
          forking,  \* per environment: the fork it is in
          view      \* per environment and virtual page: what the program last put there

vars == <<status, pte, pftemp, content, fault, forking, view>>

VPage == 0 .. NPAGE - 1
Unmapped == [page |-> NoPage, perm |-> "none"]
Perm == {"RO", "COW", "W", "SHARE"}
Pte == [page : Page, perm : Perm] \cup {Unmapped}

NoFault == [step |-> "none", va |-> 0, value |-> 0]
NoFork == [step |-> "none", child |-> NoEnv, va |-> 0]

Used == {pte[e][v].page : e \in Env, v \in VPage} \cup {pftemp[e] : e \in Env}
FreePages == Page \ Used

\* What a program reads at a virtual page.
Held(e, v) == content[pte[e][v].page]

(***************************************************************************)
(* Stores, which the MMU checks against the permission of the entry.  A    *)
(* program stores anywhere it may; inside fork only to its stack.  A store *)
(* to a PTE_SHARE page is meant for everybody who has it.                  *)
(***************************************************************************)
MayStore(e, v) ==
    /\ status[e] = "runs" /\ fault[e] = NoFault
    /\ forking[e] # NoFork => v = Stack

Stored(e, v, x) ==
    /\ content' = [content EXCEPT ![pte[e][v].page] = x]
    /\ view' = [d \in Env |-> [view[d] EXCEPT ![v] =
                  IF d = e \/ (pte[e][v].perm = "SHARE" /\ pte[d][v] = pte[e][v]) THEN x ELSE @]]

Store(e, v, x) ==
    /\ MayStore(e, v)
    /\ pte[e][v].perm \in {"W", "SHARE"}
    /\ Stored(e, v, x)
    /\ UNCHANGED <<status, pte, pftemp, fault, forking>>

\* The store traps, and page_fault_handler enters pgfault on the exception
\* stack.
StoreFaults(e, v, x) ==
    /\ MayStore(e, v)
    /\ pte[e][v].perm = "COW"
    /\ fault' = [fault EXCEPT ![e] = [step |-> "alloc", va |-> v, value |-> x]]
    /\ UNCHANGED <<status, pte, pftemp, content, forking, view>>

(***************************************************************************)
(* pgfault.                                                                *)
(***************************************************************************)
InFault(e, step) == status[e] = "runs" /\ fault[e].step = step
FaultGoes(e, step) ==
    fault' = [fault EXCEPT ![e] = [step |-> step, va |-> fault[e].va, value |-> fault[e].value]]
Panic(e) == status' = [status EXCEPT ![e] = "panicked"]

pgfault_alloc(e) ==
    /\ InFault(e, "alloc")
    /\ \/ \E p \in FreePages : pftemp' = [pftemp EXCEPT ![e] = p]
          /\ FaultGoes(e, "copy") /\ UNCHANGED status
       \/ FreePages = {} /\ Panic(e) /\ UNCHANGED <<pftemp, fault>>
    /\ UNCHANGED <<pte, content, forking, view>>

pgfault_copy(e) ==
    /\ InFault(e, "copy")
    /\ content' = [content EXCEPT ![pftemp[e]] = Held(e, fault[e].va)]
    /\ FaultGoes(e, "map")
    /\ UNCHANGED <<status, pte, pftemp, forking, view>>

pgfault_map(e) ==
    /\ InFault(e, "map")
    /\ pte' = [pte EXCEPT ![e][fault[e].va] = [page |-> pftemp[e], perm |-> "W"]]
    /\ FaultGoes(e, "unmap")
    /\ UNCHANGED <<status, pftemp, content, forking, view>>

\* Fault: the copy stays mapped at PFTEMP.
pgfault_unmap_skipped(e) ==
    /\ InFault(e, "unmap")
    /\ FaultGoes(e, "retry")
    /\ UNCHANGED <<status, pte, pftemp, content, forking, view>>

pgfault_unmap(e) ==
    /\ InFault(e, "unmap")
    /\ pftemp' = [pftemp EXCEPT ![e] = NoPage]
    /\ FaultGoes(e, "retry")
    /\ UNCHANGED <<status, pte, content, forking, view>>

\* The upcall returns to the store that faulted.
Retry(e) ==
    /\ InFault(e, "retry")
    /\ Stored(e, fault[e].va, fault[e].value)
    /\ fault' = [fault EXCEPT ![e] = NoFault]
    /\ UNCHANGED <<status, pte, pftemp, forking>>

(***************************************************************************)
(* fork.  The child is filled page by page, in the order of addresses.     *)
(***************************************************************************)
Fork(e, c) ==
    /\ status[e] = "runs" /\ fault[e] = NoFault /\ forking[e] = NoFork
    /\ status[c] = "free"
    /\ status' = [status EXCEPT ![c] = "embryo"]
    /\ forking' = [forking EXCEPT ![e] = [step |-> "look", child |-> c, va |-> 0]]
    /\ UNCHANGED <<pte, pftemp, content, fault, view>>

InFork(e, step) == status[e] = "runs" /\ fault[e] = NoFault /\ forking[e].step = step
ForkAt(e, step, v) == forking' = [forking EXCEPT ![e] = [step |-> step, child |-> forking[e].child, va |-> v]]
ForkGoes(e, step) == ForkAt(e, step, forking[e].va)
NextPage(e) == ForkAt(e, "look", forking[e].va + 1)

\* The program reads its page table entry and takes one of duppage's branches.
duppage(e) ==
    LET v == forking[e].va
    IN /\ InFork(e, "look") /\ v \in VPage
       /\ CASE pte[e][v] = Unmapped -> NextPage(e)
            [] pte[e][v].perm = "SHARE" -> ForkGoes(e, "share")
            [] pte[e][v].perm \in {"COW", "W"} -> ForkGoes(e, "cow_child")
            [] pte[e][v].perm = "RO" -> ForkGoes(e, "ro")
       /\ UNCHANGED <<status, pte, pftemp, content, fault, view>>

\* sys_page_map of what is mapped now, into the child, with the permission the
\* branch asks for.
MapChild(e, step, perm) ==
    LET v == forking[e].va  c == forking[e].child
    IN /\ InFork(e, step)
       /\ pte' = [pte EXCEPT ![c][v] = [page |-> pte[e][v].page, perm |-> perm]]
       /\ view' = [view EXCEPT ![c][v] = Held(e, v)]
       /\ UNCHANGED <<status, pftemp, content, fault>>

share_page(e) == MapChild(e, "share", "SHARE") /\ NextPage(e)
share_read_only(e) == MapChild(e, "ro", "RO") /\ NextPage(e)
cow_child(e) == MapChild(e, "cow_child", "COW") /\ ForkGoes(e, "cow_self")

\* Fault: the page stays writable in the parent.
cow_self_skipped(e) ==
    LET v == forking[e].va  c == forking[e].child
    IN /\ InFork(e, "cow_self")
       /\ view' = [view EXCEPT ![c][v] = Held(c, v)]
       /\ NextPage(e)
       /\ UNCHANGED <<status, pte, pftemp, content, fault>>

\* The child's copy is taken here: a store to the stack since cow_child went
\* to the page both have if it was writable.
cow_self(e) ==
    LET v == forking[e].va  c == forking[e].child
    IN /\ InFork(e, "cow_self")
       /\ pte' = [pte EXCEPT ![e][v] = [page |-> pte[e][v].page, perm |-> "COW"]]
       /\ view' = [view EXCEPT ![c][v] = Held(c, v)]
       /\ NextPage(e)
       /\ UNCHANGED <<status, pftemp, content, fault>>

\* The exception stack is the child's own page, the upcall is set and the
\* child may run.  (The exception stack takes a page nobody else ever sees.)
fork_done(e) ==
    /\ InFork(e, "look") /\ forking[e].va = NPAGE
    /\ status' = [status EXCEPT ![forking[e].child] = "runs"]
    /\ forking' = [forking EXCEPT ![e] = NoFork]
    /\ UNCHANGED <<pte, pftemp, content, fault, view>>

\* sys_exofork finds no environment, or a mapping in the child or its exception
\* stack finds no page: fork panics, and the child stays as it is.
ForkPanics(e) ==
    /\ status[e] = "runs" /\ fault[e] = NoFault
    /\ forking[e] # NoFork \/ \A c \in Env : status[c] # "free"
    /\ Panic(e)
    /\ UNCHANGED <<pte, pftemp, content, fault, forking, view>>

\* The kernel destroys the program: exit, or a kill at any moment.  A child it
\* has not finished stays as it is.
Destroy(e) ==
    /\ status[e] \in {"runs", "panicked"}
    /\ status' = [status EXCEPT ![e] = "free"]
    /\ pte' = [pte EXCEPT ![e] = [v \in VPage |-> Unmapped]]
    /\ pftemp' = [pftemp EXCEPT ![e] = NoPage]
    /\ fault' = [fault EXCEPT ![e] = NoFault]
    /\ forking' = [forking EXCEPT ![e] = NoFork]
    /\ UNCHANGED <<content, view>>

Init ==
    /\ status = [e \in Env |-> IF e = Root THEN "runs" ELSE "free"]
    /\ \E table \in [VPage -> Pte] :
         /\ \A v, w \in VPage : v # w /\ table[v] # Unmapped => table[v].page # table[w].page
         /\ table[Stack].perm = "W"
         /\ pte = [e \in Env |-> IF e = Root THEN table ELSE [v \in VPage |-> Unmapped]]
    /\ pftemp = [e \in Env |-> NoPage]
    /\ content \in [Page -> Value]
    /\ fault = [e \in Env |-> NoFault]
    /\ forking = [e \in Env |-> NoFork]
    /\ view = [e \in Env |-> [v \in VPage |-> IF pte[e][v] = Unmapped THEN CHOOSE x \in Value : TRUE
                                             ELSE Held(e, v)]]

Next ==
    \E e \in Env :
      \/ \E v \in VPage, x \in Value : Store(e, v, x) \/ StoreFaults(e, v, x)
      \/ pgfault_alloc(e) \/ pgfault_copy(e) \/ pgfault_map(e) \/ pgfault_unmap(e) \/ Retry(e)
      \/ \E c \in Env : Fork(e, c)
      \/ duppage(e) \/ share_page(e) \/ share_read_only(e) \/ cow_child(e) \/ cow_self(e)
      \/ fork_done(e) \/ ForkPanics(e)
      \/ Destroy(e)

Spec == Init /\ [][Next]_vars

(***************************************************************************)
(* What fork promises.                                                     *)
(***************************************************************************)
\* Every variable has its type, and a child under construction has exactly
\* one parent at work on it, if that is still alive.
TypeOK ==
    /\ status \in [Env -> {"free", "embryo", "runs", "panicked"}]
    /\ pte \in [Env -> [VPage -> Pte]]
    /\ pftemp \in [Env -> Page \cup {NoPage}]
    /\ content \in [Page -> Value]
    /\ fault \in [Env -> [step : {"none", "alloc", "copy", "map", "unmap", "retry"}, va : VPage, value : Value]]
    /\ forking \in [Env -> [step : {"none", "look", "share", "ro", "cow_child", "cow_self"},
                            child : Env \cup {NoEnv}, va : 0 .. NPAGE]]
    /\ view \in [Env -> [VPage -> Value]]

\* The page is on its way to c: mapped there, and still writable in the parent.
HalfShared(e, c, v) == forking[e] = [step |-> "cow_self", child |-> c, va |-> v]

\* A page some program may store to without a fault is mapped nowhere else,
\* PTE_SHARE apart: not in a child, a parent or a sibling, and not at the PFTEMP
\* of a fault handler, where the handler's memcpy would overwrite it.  duppage
\* breaks this for the moment between its two calls of sys_page_map, and pgfault
\* for the moment between sys_page_map of the copy and sys_page_unmap of PFTEMP,
\* when it no longer writes there.
WritableAlone ==
    \A e, d \in Env, v \in VPage :
      pte[e][v].perm = "W" =>
        /\ \A w \in VPage : pte[d][w].page = pte[e][v].page =>
             (d = e /\ w = v) \/ (w = v /\ HalfShared(e, d, v))
        /\ pftemp[d] = pte[e][v].page => d = e /\ fault[e].va = v /\ fault[e].step = "unmap"

\* Every program reads what it last stored: what its parent, its children or
\* anybody else store after the fork is never seen through a page that is not
\* PTE_SHARE, and always seen through one that is, whichever faults,
\* forks and exits happen in between.
ProgramsSeeTheirStores ==
    \A c \in Env, v \in VPage :
      pte[c][v] # Unmapped /\ status[c] # "embryo" => Held(c, v) = view[c][v]
=============================================================================
