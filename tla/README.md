# TLA+ models of JOS

JOS (`src/lab`) is a small exokernel for x86 multiprocessors with most of its
operating system in user mode: fork, pipes, file descriptors, a file server and
a network server are library code and ordinary environments ("environment" is
JOS for process). This directory holds TLA+ modules for its concurrent and
fallible parts, TLC configurations that check them on small instances, and TLAPS
proofs for instances of any size.

## 1. The system

| part | state | what makes it hard | module |
|---|---|---|---|
| environments, scheduler, lock, traps (`kern/env.c`, `sched.c`, `trap.c`, `spinlock.c`) | `envs[]`, free list, `curenv` and status of each CPU, the big kernel lock | an environment may be killed while another CPU runs it (a zombie); halting CPUs; ids with generations | `Kernel` |
| memory (`kern/pmap.c`) | free list, `pp_ref`, two-level tables, a TLB per CPU | sharing, out of memory half way, stale TLBs, 16-bit counts | `Pages` |
| messages (`kern/syscall.c`, `lib/ipc.c`) | `env_ipc_*` fields | many senders, death of either side, fields read in user mode after waking | `Rendezvous`, `Ipc` |
| requests (`lib/file.c`, `lib/nsipc.c`, `fs/serv.c`) | none beyond messages | the answer is simply the next message; a dead client | `FsRpc` |
| pipes (`lib/pipe.c`, `lib/fd.c`) | shared Fd pages and buffer page, no lock | "closed" is a comparison of two reference counts read at different times | `Pipe` |
| fork (`lib/fork.c`, `lib/pgfault.c`) | page tables of parent and child | copy-on-write out of unrelated system calls, by a program that goes on storing to its stack | `CowFork` |
| file system (`fs/fs.c`, `fs/bc.c`) | bitmap, Files, indirect blocks, cache, disk | power fails between two block writes; full disk | `FileStore`, `FsBlocks` |
| open files (`fs/serv.c`, `lib/fd.c`, `lib/file.c`) | `opentab`, Fd pages shared by server and programs | the server learns of a close from a reference count only; the offset has no lock | `OpenFiles` |
| network server (`net/serv.c`, lwIP's `api/` and `jos/arch/`) | threads, semaphores, mailboxes, sockets | lost wakeups, rings at their limit, calls whose message lies on the caller's stack | `NetServ` |
| TCP (lwIP's `core/tcp*.c`) | pcbs, segment queues, timers | loss, reordering, sequence numbers that wrap, timers at any moment | `Tcp` |

The parts meet in few places. The kernel's system calls run one at a time under
the lock (proved in `KernelProofs`), so `Pages`, `Ipc`, `Pipe` and `CowFork` take
a system call as one step. `Pipe` and `OpenFiles` take `pp_ref` to be the number
of mappings, which is `CountsExact` of `Pages`. `FsRpc` extends `Ipc`;
`OpenFiles` takes from it that a client gets the answer to its own request.
`OpenFiles` knows a file by its size; the bytes are in `FsBlocks`. The network
server blocks where TCP would refuse data, so `Tcp` never refuses any.

## 2. Modules

Every operator that models code has its source lines in `PROJECT.json` ("map").
Some operators stand before a definition and differ from it by one error (a
dropped guard, a missing flush); with such an operator in place of the one it
precedes, TLC finds a property violated. `PROJECT.json` ("mutants") says which.

**Kernel.** `kernel_lock`, and per CPU `mode` (user, spin, kernel, halt,
monitor), `tf_cs`, `cpu_status`, `curenv`; per slot the fields of `struct Env`
that decide about scheduling, ids and messages. `TrapEntry` and `SpinLock` are
steps of their own, so that other CPUs act between a trap and the kernel's
answer. The rest of a trap (dispatch, system call, `sched_yield`, `env_run` or
`sched_halt`) is one step, since it holds the lock throughout. `Spec` has the
programs the library makes: children are started once and destroyed at most
once. `AnySpec` allows every `sys_env_set_status` and `sys_env_destroy` the
kernel allows.

**Pages.** `mem` is the free list, `pp_ref` (modulo `RefMod`), every counted
pointer (page directory, page tables, pages) and the writable entries. The
functions of `pmap.c` are operators from one memory to the next. A call that
runs out of memory half way leaves what the code leaves: `sys_page_alloc` frees
the page it could not map (`AllocNoMem`), a table that was made stays. The MMU of each
CPU loads translations at any time (`TlbLoad`); `lcr3` in `env_run` empties the
TLB. `env_parent` decides who may change whose space. In `Spec` no program
changes a space that another CPU is running; in `AnySpec` a parent may.

**Rendezvous** and **Ipc.** `Rendezvous` is the promise: a send and a receive
meet once, and the receive returns what that send carried. `Ipc` is the code:
polling `sys_ipc_try_send`, the fields of the environment table, and the
three reads `ipc_recv` does after it wakes. The refinement mapping takes
`env_ipc_recving` and the program counter to the abstract state and the fields
to the abstract message. `Asks` is the set of environments that always give
`ipc_recv` an address for a page; the others never do and are never sent a
page. Without that discipline (`AnySpec`) `env_ipc_perm` is wrong, see 4.

**FsRpc.** Clients in `fsipc` and the server's loop over `Ipc`. Requests and
results are values. A client asks for a page with every open; the answer to an
open brings one, or is negative and brings none (`Answer`).

**Pipe.** A step is one system call or one access to the shared buffer page.
`fdt` says which Fd and buffer pages each environment has mapped, `task` is the
library call it is in. One environment at a time reads and one writes: a pipe
has no lock and two readers would race for `p_rpos`. `ran` is whether `env_runs`
has changed since `_pipeisclosed` read it. The compiler may evaluate the two
`pageref` calls in either order, and both are tried. `ForkSpec` adds fork.

**CowFork.** Per environment the page and permission of each virtual page, the
page at PFTEMP (mapped there until `pgfault` has unmapped it), the fault and the fork it is in; per page its contents. `duppage`
of a writable page is two steps (child, then parent), the fault handler four.
Between any two of them other programs run, and the forking program itself
stores to its stack. `view` is what each program last put at each place (a child
starts with what the parent had when the page was given to it), and is read by
no action.

**FsBlocks** and **FileStore.** `mem` is the blocks as the server sees them,
`disk` what has been written, `dirty` the blocks with PTE_D. A request runs to
its end before the next, but each step writes at most one block, so `disk` is at
every moment what a power failure can leave. A block is cleared, a directory of
Files, an array of pointers, bytes, or the set of free blocks a bitmap block
stands for. There is one bitmap block (`DiskAssumption`): `fsformat.c:231` makes no
disk of more than 1024 blocks, and a bitmap block has 32768 bits. `alloc_block`
flushes the first bitmap block whatever the block number, so a larger disk would
not be safe: with `BLKBITSIZE = 4` and without the assumption TLC finds
`CrashKeepsFilesApart` violated. `FileStore` is the promise: a file is a size and bytes. It says what
the code does with the bytes beyond the size: those in the last block of a file
that was cut stay and come back when it grows again. `CrashSpec` adds `Crash`:
the cache is lost and the disk read again.

**OpenFiles.** `opentab` of the server, the Fd pages, the descriptors of each
program, the request it is in. An id goes out in `fsipcbuf` and is looked up
later (`openfile_lookup`), with closes, dups, forks, exits and opens of others in
between. The update of `fd_offset` is a step of its own (`Advance`), since
programs seek in the shared page meanwhile. `read` records which bytes have been
read through an entry. `serve_read` may also fail, when `file_read` needs a block
and the disk is full, and then answers the error. `fsipcbuf` is whether that page is copy-on-write since a
fork: `sync` puts nothing into it, and then panics in `ipc_send`.

**NetServ.** The cooperative threads of the server: the main loop, a
`serve_thread` per request, the tcpip thread, and one for the three timers. A
step runs a thread to where it waits or yields. Semaphores and mailboxes are
those of `jos/arch/sys_arch.c`: `thread_wait` on a counter's value, `waiters`, the
ring with `head` and `nextq`. A request without an argument page keeps its buffer
for ever (`NoArgumentPage`), as `serve` says it does. Ways for the server to end
are states (`Ended`): no buffer left ("overflow"), a call lwIP asserts not to get
("misuse"), a mailbox freed under a thread that waits for room in it ("orphan"),
and anything else ("panic"). TCP is the choice of what a segment or a call does
to its connection. Of lwIP's pools only the netconns run out.

**Tcp.** Two hosts run the code of `tcp.c`, `tcp_in.c` and `tcp_out.c`; one
connects, the other listens. The network is a set of segments that may be
delivered in any order or never; retransmission duplicates them. Each byte
carries its place in the stream. The slow timer may find any of its clocks
expired (`Maybe`: of those that matter to the connection's state). `persist` is
whether the persist timer runs: `tcp_output` starts it when the next segment does
not fit the window, which may be open and just too small, and `tcp_slowtmr` then
only probes. `cwnd` and `ssthresh` are capped at `TCP_WND`, which loses nothing: they
are only used in a minimum with a window that is no larger. The three duplicate
ACKs of a fast retransmit are the constant `DupAcks`.

## 3. Passing runs

| run | instance | checks |
|---|---|---|
| `kernel` | 3 slots, 2 CPUs, a file server and a user program at boot | kernel code holds the lock; CPUs and status table agree (`CpusAgree`: one CPU per environment, no freed `curenv`, no running environment or zombie without a CPU); exact free list; only blocked environments can be sent to; zombies are freed by their own trap, and are freed; no runnable environment starves while none is created or ends |
| `pages_lib` | 2 spaces, 2 CPUs, 5 pages, 2 tables of 2 entries each | `pp_ref` and free list exact, out-of-memory paths included; tables private and well shaped; TLBs agree with the tables; read-only pages stay read-only |
| `pipe_one_cpu` | 2 environments, 1 CPU, 2 descriptors each, a 2-byte buffer, 3 bytes | no open end is reported closed; bytes arrive once and in order also when someone dies half way; descriptors at rest have both pages or none |
| `pipe_live` | 2 environments, a CPU each, 1-byte buffer, 2 bytes | nobody waits for ever for an end that is gone |
| `ipc_rendezvous` | 3 environments, 2 values | `Ipc` implements `Rendezvous` |
| `rpc` | 2 clients and the server | each client gets its own answer, and a permission exactly when a page came with it; requests are answered; the server goes on |
| `fork` | 3 programs, 3 pages, 2 virtual pages | a page that can be stored to without a fault has one owner, and nobody else has it at PFTEMP; every program reads what it last stored |
| `fs` | 3 names, 8 blocks, 1 direct and 2 indirect pointers, writes of 1 and 2 bytes, 6 requests | no block in two files, lost, or free and in use; the Files on the disk, and the indirect entries that are also in the cache, share no block and lead to none that is free, whenever power fails; what was flushed is durable; `FsBlocks` implements `FileStore` |
| `files` | 2 programs, 1 file, 2 entries, 2 descriptors, 2 opens | a held descriptor is never refused; its entry keeps its file; no byte is read twice through one open file |
| `net` | 2 clients with 4 calls in all (4 and 0, or 3 and 1), 2 netconns, 2 request pages, mailboxes of 2, tcpip mailbox of 1, data with and without PUSH | no sleep with work to do; no call takes another's signal; semaphores and rings agree; panics only for lack of pages that are really in use, a misused socket, or one closed under a full mailbox; end of file after all data that was pushed; calls are answered or wait for their peer |
| `tcp` | sequence space 16, window 3, segments of 2, send buffer 4 | the stream arrives intact and ends after all of it; acknowledged means received; queues, `snd_buf` and `snd_queuelen` agree; what is queued is acknowledged or given up, unless the persist timer runs for ever; half-open and half-closed connections end |

Where a property has `TypeOK` as a conjunct (`BlocksAccounted`,
`LookupSucceeds`, `TokensMatch`, `QueuesAccounted`) it is checked there; for the
other modules it is proved (section 5).

Bounds. Three slots are the fewest with a killer, a victim and a third choice
for the scheduler; two CPUs are the fewest at which anything races. Five pages
are enough for both spaces to have their tables and for memory to run out between
a page and its table. A
two-byte buffer with three bytes is filled, emptied and wrapped around. Three
programs let a child fork again while its parent does; three pages run out in the
middle of a fault. Of the eight blocks five are for the directory and the files,
fewer than two full files need, so the disk fills up with a file in its indirect
range; the third name needs a second block of the directory. Six requests create,
fill, cut, extend and remove. Two entries of `opentab` let one be used again while the other is held.
Four calls open, connect, use and close one socket, or three do while another
client acts; two request pages are the fewest with which one call can wait while
another is served, and they run out.
The initial sequence numbers of `tcp` are chosen so that one wraps;
`MCLimits` is a set of scenarios: four bytes, one more than the window, over a
narrow network with unlimited expiries (several segments, probes of a window that
is closed or too small); three bytes with reordering; both sides closing with data
and one expiry; and closes of one side after a byte and of both sides without
data, with unlimited expiries (all states that have a time-out).
Deadlock is checked in `kernel` and `pages_lib`; in the others all
environments may end or the bounds be reached, after which nothing happens.

Fairness. `Kernel`: the clock interrupts every CPU, so user code and halted CPUs
trap (weak fairness of `TrapEntry`); a spinning CPU gets a lock that is released
again and again (strong fairness of `SpinLock`: xchg gives no such guarantee by
itself, but contention of two CPUs with long user phases between makes it the
only reasonable reading); a CPU's program does not avoid the clock for ever
(strong fairness of `ClockIntr`). `Pipe`: with a CPU per environment a call
goes on (weak fairness of its steps); that the scheduler gives an environment a
CPU is the subject of `RunnableRuns`. `FsRpc`: environments that can run do.
`NetServ`: the server runs, the timer environment goes on sending, and the slow
timer gives up a SYN (strong fairness of `GiveUpSyn`; a SYN always fits the
window, so `HalfOpenEnds` of `Tcp` is the reason). Nothing is assumed of data,
since a closed window is probed for ever: `CallsAnswered` excepts calls that wait
for their peer (`WaitsForPeer`). `Tcp`: every clock of the slow timer runs out and
its `tcp_output` at the end comes, since the timer thread runs for ever; the
network is not fair at all.

## 4. Where code and text disagree

`fs_crash` is the run that ends in a violation, quoted under "findings":
`file_truncate_blocks` clears entries of an indirect block that it keeps, and
`file_set_size` flushes the File but not that block. After a crash, a file that
was cut and extended again leads to blocks the bitmap calls free, where
`bc_pgfault` panics.

Known from the same modules, each found by TLC with the property and
specification named; none has a configuration here:

- `ZombieFreedByItsTrap` under `AnySpec` of `Kernel`: destroying a child twice,
  while another CPU runs it, frees it under that CPU (`env.c:483` defers only for
  `ENV_RUNNING`). `CpusAgree` fails there too: `sys_env_set_status` over a running
  environment lets a second CPU run it.
- `TlbCoherent` under `AnySpec` of `Pages`: a parent that unmaps or replaces a
  page of a child running on another CPU leaves that CPU's TLB entry in place.
- `CountsExact` with `RefMod = 4` and more pointers than that: `pp_ref` wraps.
- `NoFalseClosed` under `ForkSpec` of `Pipe`: fork maps Fd pages before buffer
  pages. Parent: Fd page of the child mapped. Interrupt. Somebody who has both
  pages mapped as often as the one Fd page now is calls `_pipeisclosed`, which
  finds the counts equal and `env_runs` unchanged.
- `NoFalseClosed` with two CPUs: `env_runs` does not change while another CPU
  closes or dups.
- `EofMeansDrained` of `Pipe`: a reader sees the pipe empty; the writer writes and
  closes; the reader finds the pipe closed and reports end of file with bytes
  left.
- `PermMeansPage` under `AnySpec` of `Ipc`: a receive that asked for a page gets
  one, and `env_ipc_perm` is set; the next receive asks for none, a page is sent
  to it, and `env_ipc_perm` is neither set nor cleared.
- In `FsRpc` a message from one client to another would be taken for the
  server's answer: `fsipc` does not look at the sender.
- `ReadFitsPage` of `OpenFiles` (PGSIZE 1, reads of 2, a file of 2):
  `devfile_read` asks for more than a page and asserts that it gets no more.
- `NetServ`: a socket that is closed under a full mailbox ends the server
  ("orphan"), and so do as many requests without a page as there are buffers
  ("overflow"); both are in the `net` run, and `PanicsExplained` allows for them.
  `err_tcp` blocks the timer thread when the mailbox is full, which
  `CallsAnswered` excepts. Bytes of segments without PUSH that come right before a
  FIN are lost (`sockets.c:494`), which `EofAfterAllData` says. `CallsComplete`
  fails with `Sharing = TRUE`: two programs that share a socket use one
  `op_completed`.
- `DataSettles` of `Tcp` without its exception, or with a closed window
  (`snd_wnd = 0`) for the persist timer: the comment at `tcp.c:581` speaks of a window
  of zero, but an open window that is too small for the next segment stops
  retransmission as well, and if the network loses all probes nobody gives up.
- `ClosedIsFreed` of `Tcp`: after a retransmission timeout an ACK of the whole
  queue, the FIN included, leaves `snd_nxt` behind, the FIN does not count as
  acknowledged, and FIN_WAIT_1 lasts for ever (`CloseLimits`, `TCP_MAXRTX = 2`).

## 5. Proofs

Each theorem is about every value of the constants that satisfies the `ASSUME` of
the component's module (sizes are naturals, sets that are counted are finite,
special values are outside the sets they are special for).

**KernelProofs** proves, for any number of slots, CPUs and generations (each at
least one) and any boot environments that fit, all the safety properties of
`kernel`. None is inductive alone: that `sched_yield` may run what it finds
RUNNABLE needs that RUNNING environments are exactly those of some CPU, that
needs the lock discipline, and the lock discipline needs that a halted CPU is
marked `CPU_HALTED`. The invariant is

    IInv == TypeOK /\ CpuInv /\ FreeListExact /\ RecvingBlocked

where `CpuInv` joins the lock, `HaltedMarked`, `OneCpuPerEnv`, `CurenvAlive` and
`NoOrphan`. `Ready(c, cur, st)` says what holds in the middle of a step, when
the status table is `st` and CPU `c` is about to choose; `EnvRunInv`,
`SchedHaltInv`, `SchedYieldInv` and `TrapReturnInv` lead from it to the next
state, and each action only has to establish it. The free list has its own
lemmas for push and pop. `ZombieSafety` is the action property, proved from the
same invariant.

**PagesProofs** proves the safety properties of `pages_lib` for any pages,
environments, CPUs and table sizes. The assumption is `Counted`: along the
behaviour no page has `RefMod` pointers to it or more, because beyond that
`pp_ref` wraps around (section 4). All but `TlbCoherent` are proved for
`AnySpec`, whatever system calls programs make. `MemInv(m, held)` is the
invariant of memory inside a system call: `page_alloc` takes a page off the free
list before anybody points to it, so the free list is exact only up to the pages
`held`. There is one lemma per function of `kern/pmap.c` (`WalkInv`,
`RemoveInv`, `InsertInv`, `EnvFreeInv`), each from `MemInv` to `MemInv`, and one
per action. `InsertInv` needs that the page is no table, which is why
`TablesPrivate` is part of the invariant. `TlbsCorrect` is for `Spec` only. It
adds that an environment runs on one CPU and that a CPU caches only what it runs
(`TlbInv`); each step changes only the address space of an environment that no
other CPU runs (`Spares`).

**IpcProofs** proves `Spec => ImplementsRendezvous` for any environments and
values. `SendInv` says that an environment with `env_ipc_recving` set is blocked
in `sys_ipc_recv` with the address it gave, `ReadInv` that the fields an
`ipc_recv` has read and will read belong to one message. Each action is then
simulated by an abstract step or a stutter. Types are proved for `AnySpec`.

**FsRpcProofs** proves `ReplyMatches` and `PermMeansPage` for any number of
clients and requests. That the next message a client receives is the answer to
its request needs the whole round trip: `ClientInv` says for each place in
`fsipc` what was asked and what will come, `ServerInv` that whatever the server
holds, in its fields, in a local or in the send it is about to do, is the request
of a client that still waits for it or is dead (`Holds`). `RpcIsIpc` shows that
every step is a step of `Ipc`. The permission is right although
`sys_ipc_try_send` alone does not make it so: a page goes only to a client that
asked for one, which is a conjunct of `ClientInv`, and an open that failed is
answered without a page and clears the field.

**PipeProofs** proves `Fifo` and `SlotsWhole` on any number of CPUs, and
`NoFalseClosed` on one. `PipeInv` says where each library call is and that the
bytes between the two positions are in the buffer; a reader between its test
and `p_rpos++` still has a byte before it, because only one environment reads.
The heart of `ClosedMeansGone` is `Slots`: an Fd page is never mapped without the
buffer page, because close unmaps it first and dup maps it last. So the mappings
of one end are a subset of the mappings of the buffer, and when both numbers are
equal nobody has the other end (`EqualCounts`). `Checked` says that the two counts
`_pipeisclosed` has read belong to one moment as long as `env_runs` has not
changed, which on one CPU means that nobody else took a step; and an end that is
gone stays gone, since dup copies only what is mapped (`GoneStays`). Fork is not
part of this: section 4 says why.

**CowForkInv** and **CowForkProofs** prove `WritableAlone` and
`ProgramsSeeTheirStores` for any number of programs and pages. Neither is
inductive: `IInv` adds how far each fault handler and each fork has come
(`FaultSteps`, `ForkSteps`), that the page at PFTEMP is nobody else's until it has
its place (`TempAlone`), that a writable page is mapped once but for the moment
inside `duppage` (`WritableOnce`), that PTE_SHARE pages are shared at the same address, and
that a page given to a child for good holds what the child should see (`Seen`).
The delicate step is `cow_self`: between the two mappings of `duppage` the child
has the page copy-on-write while the parent can still store to it.

**OpenFilesProofs** proves all three properties of `files` for any number of
programs, files, descriptors and entries of `opentab`. `OpenInv` says that a
mapped Fd page belongs to an open entry and carries its id (`HeldWhole`), that a
program with a request about a file still maps that file (`AskerHolds`), that the
server serves only programs that wait (`ServesWaiting`), and that what was read
lies below the offset (`ReadBelow`). A mapped entry has two references, one of
them the server's, so `openfile_alloc` passes it over (`AllocUnheld`) and
`openfile_lookup` accepts it (`LookupFinds`). `ReadBelow` has to allow for a seek
between the transfer and the update of the offset: then nothing counts as read.

Only model-checked:
- everything under fairness (`ZombieReaped`, `RunnableRuns`,
  `NobodyWaitsForTheGone`, `Answered`, `ServerGoesOn`, `CallsAnswered`,
  `DataSettles`, `HalfOpenEnds`), which is outside the prover's reach;
- `Tcp`, whose `tcp_output` and reassembly are recursive operators on queues, and
  whose properties would need induction over those queues;
- `NetServ`, whose state is a control point of each thread in a call graph of
  six files, and `FsBlocks` with its refinement of `FileStore`: not proved yet.

## 6. Not modelled

`PROJECT.json` lists every part. Not modelled yet: the e1000 rings and the
network helpers, `malloc`, the input rings of console and mouse, `spawn`. Left
out for good: device registers and boot-time discovery, the boot loader, the
monitor, drawing, string and format functions, the test programs (read as
statements of intent), and the builds with `SCHED_CHALLANGE` or `EVICT_CHALLENGE`
(the source comments them out).

Inside the modelled parts these are left out. `FsBlocks`: nested directories
(the server has no mkdir), IDE commands that fail. `OpenFiles`: devices other
than files, running out of pages for an Fd page. `NetServ`: UDP and raw sockets,
bind, select, DHCP, the death of clients. `Tcp`: refused data, keepalive,
options, urgent data, round-trip estimates, exhausted pools. `Kernel`: the
e1000 interrupt, `sys_env_set_type`, register files.

## 7. Plan

1. `FsBlocksProofs`: `BlocksAccounted`, then `CrashKeepsFilesApart`, which needs that a
   pointer on the disk is in the cache too or its block is allocated on the disk.
2. `E1000`: rings, interrupt, input and output helpers with `env_status`; no lost
   wakeup, no packet lost or sent twice, no buffer reused while in use.
3. `Malloc` and `Rings` (console and mouse).
4. An abstract life cycle of environments that `Kernel` implements.
