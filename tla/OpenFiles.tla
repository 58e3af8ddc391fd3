----------------------------- MODULE OpenFiles -----------------------------
(***************************************************************************)
(* Open files: the file server's opentab (fs/serv.c), the programs' file   *)
(* descriptors (lib/fd.c) and the stubs between them (lib/file.c).         *)
(*                                                                         *)
(* An open file is a page with a struct Fd in it.  The server keeps one    *)
(* such page per entry of opentab, and a program that has the file open    *)
(* maps it; dup and fork map it again.  The server learns that a file was  *)
(* closed from the page's reference count alone, and programs and server   *)
(* store to the page without a lock.                                       *)
(*                                                                         *)
(* The files are those of FileStore, kept by their size.  A request and    *)
(* its answer travel as in FsRpc: the server takes one request at a time   *)
(* and answers it before it takes the next.                                *)
(***************************************************************************)
EXTENDS Integers, FiniteSets, FiniteSetsExt, Functions

CONSTANTS Env,      \* programs
          Started,  \* the programs that run at the start; fork starts the others
          Path,     \* file names
          MAXOPEN,  \* entries of opentab
          MAXFD,    \* file descriptors of a program
          PGSIZE,   \* bytes in a page, and in the page a request is made with
          Mode,     \* the modes programs open files with
          Count,    \* the lengths they read and write
          MaxSize,  \* bound on the size of a file
          MaxOpens  \* bound on the opens served

VARIABLES opentab,   \* per entry: o_fileid, o_file, and whether its Fd page exists
          fdpage,    \* per entry: what the Fd page holds
          fds,       \* per program and descriptor: the entry whose page is mapped there
          files,     \* per path: the file's size, or None
          call,      \* per program: the call it is in
          fsipcbuf,  \* per program: whether fsipcbuf is copy-on-write since a fork
          srv,       \* the request the server is in, and its result
          read       \* per entry: the bytes read through it since it was opened or sought

vars == <<opentab, fdpage, fds, files, call, fsipcbuf, srv, read>>

None == -1
E_INVAL == 3
E_NO_DISK == 9
E_MAX_OPEN == 10
E_NOT_FOUND == 11
E_FILE_EXISTS == 13

Entry == 0 .. MAXOPEN - 1
FD == 0 .. MAXFD - 1
Modes == [access : {"RDONLY", "WRONLY", "RDWR"}, creat : BOOLEAN, excl : BOOLEAN, trunc : BOOLEAN]

ASSUME OpenAssumption ==
    /\ IsFiniteSet(Env) /\ MAXOPEN \in Nat \ {0} /\ MAXFD \in Nat
    /\ PGSIZE \in Nat \ {0} /\ MaxSize \in Nat /\ Count \subseteq Nat /\ Mode \subseteq Modes

\* A call: the operation, the descriptor it is about, the id and the length
\* put into fsipcbuf, the path and mode of an open, the old descriptor of a dup.
Idle == [op |-> "idle"]
Dead == [op |-> "dead"]
Panicked == [op |-> "panicked"]
Waiting(e) == call[e].op \notin {"idle", "dead", "panicked"}

NoRequest == [pc |-> "recv"]
Served(e) == srv.pc # "recv" /\ srv.env = e
NoPage == None

(***************************************************************************)
(* The kernel's part: the reference count of an entry's page, as the       *)
(* server's and the programs' page tables hold it.                         *)
(***************************************************************************)
Holders(o) == {h \in Env \X FD : fds[h[1]][h[2]] = o}
pageref(o) == Cardinality(Holders(o)) + (IF opentab[o].page THEN 1 ELSE 0)

(***************************************************************************)
(* Programs.  Filling fsipcbuf makes it the program's own page again, if a *)
(* fork had made it copy-on-write.                                         *)
(***************************************************************************)
Ask(e, c) ==
    /\ call[e] = Idle
    /\ call' = [call EXCEPT ![e] = c]
    /\ fsipcbuf' = [fsipcbuf EXCEPT ![e] = FALSE]
    /\ UNCHANGED <<opentab, fdpage, fds, files, srv, read>>

\* fd_lookup: the entry whose page is mapped at a descriptor.
Mapped(e, fd) == fds[e][fd] # None
Page(e, fd) == fdpage[fds[e][fd]]

fd_alloc(e) == LET free == {fd \in FD : ~Mapped(e, fd)}
               IN IF free = {} THEN None ELSE Min(free)

Open(e, path, mode) ==
    /\ fd_alloc(e) # None
    /\ Ask(e, [op |-> "open", fd |-> fd_alloc(e), path |-> path, mode |-> mode])

Read(e, fd, n) ==
    /\ Mapped(e, fd) /\ Page(e, fd).omode # "WRONLY"
    /\ Ask(e, [op |-> "read", id |-> Page(e, fd).id, n |-> n])

\* devfile_write sends at most what fits into the page beside id and length.
Write(e, fd, n) ==
    /\ Mapped(e, fd) /\ Page(e, fd).omode # "RDONLY"
    /\ Ask(e, [op |-> "write", id |-> Page(e, fd).id, n |-> IF n > PGSIZE - 1 THEN PGSIZE - 1 ELSE n])

Truncate(e, fd, n) ==
    /\ Mapped(e, fd) /\ Page(e, fd).omode # "RDONLY"
    /\ Ask(e, [op |-> "set_size", id |-> Page(e, fd).id, n |-> n])

Stat(e, fd) == Mapped(e, fd) /\ Ask(e, [op |-> "stat", id |-> Page(e, fd).id])

\* close flushes the file and unmaps the page; exit closes every descriptor
\* and then destroys the program, which a kill does as well.
Close(e, fd) ==
    Mapped(e, fd) /\ Ask(e, [op |-> "flush", id |-> Page(e, fd).id, fd |-> fd, old |-> None])

Map(e, fd, old) == fds' = [fds EXCEPT ![e][fd] = fds[e][old]]

\* dup closes the new descriptor first, if it is open.
DupOverOpen(e, old, new) ==
    /\ Mapped(e, old) /\ Mapped(e, new)
    /\ Ask(e, [op |-> "flush", id |-> Page(e, new).id, fd |-> new, old |-> old])

DupOnFree(e, old, new) ==
    /\ call[e] = Idle /\ Mapped(e, old) /\ ~Mapped(e, new)
    /\ Map(e, new, old)
    /\ UNCHANGED <<opentab, fdpage, files, call, fsipcbuf, srv, read>>

\* seek stores to the shared page, whatever the server is doing with it.
Seek(e, fd, offset) ==
    /\ call[e] = Idle /\ Mapped(e, fd)
    /\ fdpage' = [fdpage EXCEPT ![fds[e][fd]].offset = offset]
    /\ read' = [read EXCEPT ![fds[e][fd]] = {}]
    /\ UNCHANGED <<opentab, fds, files, call, fsipcbuf, srv>>

\* sync puts nothing into fsipcbuf.  If the page is copy-on-write the kernel
\* refuses to send it writable, and ipc_send panics.
Sync(e) ==
    /\ call[e] = Idle
    /\ call' = [call EXCEPT ![e] = IF fsipcbuf[e] THEN Panicked ELSE [op |-> "sync"]]
    /\ UNCHANGED <<opentab, fdpage, fds, files, fsipcbuf, srv, read>>

\* duppage shares the Fd pages (PTE_SHARE) and makes fsipcbuf copy-on-write.
Fork(e, c) ==
    /\ call[e] = Idle /\ call[c] = Dead
    /\ call' = [call EXCEPT ![c] = Idle]
    /\ fds' = [fds EXCEPT ![c] = fds[e]]
    /\ fsipcbuf' = [fsipcbuf EXCEPT ![e] = TRUE, ![c] = TRUE]
    /\ UNCHANGED <<opentab, fdpage, files, srv, read>>

\* env_free drops every mapping of the program.  (The server panics if its
\* client is gone when it answers: see FsRpc.)
Die(e) ==
    /\ call[e] # Dead
    /\ ~Served(e)
    /\ call' = [call EXCEPT ![e] = Dead]
    /\ fds' = [fds EXCEPT ![e] = [fd \in FD |-> None]]
    /\ UNCHANGED <<opentab, fdpage, files, fsipcbuf, srv, read>>

Program(e) ==
    \/ \E path \in Path, mode \in Mode : Open(e, path, mode)
    \/ \E fd \in FD, n \in Count : Read(e, fd, n) \/ Write(e, fd, n)
    \/ \E fd \in FD : Close(e, fd) \/ Truncate(e, fd, 0) \/ Stat(e, fd) \/ Seek(e, fd, 0)
    \/ \E old, new \in FD : DupOverOpen(e, old, new) \/ DupOnFree(e, old, new)
    \/ Sync(e)
    \/ \E c \in Env : Fork(e, c)
    \/ Die(e)

(***************************************************************************)
(* The server.                                                             *)
(***************************************************************************)
Result(e, r, page) == srv' = [pc |-> "send", env |-> e, r |-> r, page |-> page]

\* The entries an open may take: nobody but the server maps their page.
Unused == {o \in Entry : pageref(o) <= 1}

openfile_alloc_held == LET held == {o \in Entry : pageref(o) <= 2} IN IF held = {} THEN None ELSE Min(held)
openfile_alloc == IF Unused = {} THEN None ELSE Min(Unused)

\* The id of an entry is unlike any it had before.
NextId(o) == opentab[o].o_fileid + MAXOPEN

\* The new size of the file an open request leads to, None if it fails.
Opened(path, mode) ==
    IF files[path] = None THEN IF mode.creat THEN 0 ELSE None
    ELSE IF mode.creat /\ mode.excl THEN None
    ELSE IF mode.trunc THEN 0 ELSE files[path]

OpensServed == FoldFunction(LAMBDA t, n : n + t.o_fileid \div MAXOPEN, 0, opentab)

\* A failing serve_open leaves the entry it has taken with a new id and a
\* cleared page.
serve_open(e) ==
    LET o == openfile_alloc  c == call[e]  id == NextId(o)
    IN /\ c.op = "open" /\ srv = NoRequest
       /\ IF o = None THEN Result(e, -E_MAX_OPEN, NoPage) /\ UNCHANGED <<opentab, fdpage, files, read>>
          ELSE /\ OpensServed < MaxOpens
               /\ read' = [read EXCEPT ![o] = {}]
               /\ IF Opened(c.path, c.mode) = None
                  THEN /\ opentab' = [opentab EXCEPT ![o].o_fileid = id, ![o].page = TRUE]
                       /\ fdpage' = [fdpage EXCEPT ![o] = [id |-> 0, offset |-> 0, omode |-> "RDONLY"]]
                       /\ Result(e, IF files[c.path] = None THEN -E_NOT_FOUND ELSE -E_FILE_EXISTS, NoPage) /\ UNCHANGED files
                  ELSE /\ opentab' = [opentab EXCEPT ![o] = [o_fileid |-> id, o_file |-> c.path, page |-> TRUE]]
                       /\ fdpage' = [fdpage EXCEPT ![o] = [id |-> id, offset |-> 0, omode |-> c.mode.access]]
                       /\ files' = [files EXCEPT ![c.path] = Opened(c.path, c.mode)]
                       /\ Result(e, 0, o)

openfile_lookup_fresh(id) ==
    LET o == id % MAXOPEN IN IF pageref(o) <= 2 \/ opentab[o].o_fileid # id THEN None ELSE o
openfile_lookup(id) ==
    LET o == id % MAXOPEN IN IF pageref(o) <= 1 \/ opentab[o].o_fileid # id THEN None ELSE o

\* The handlers of requests on an open file start alike.
Handler(e, op) == call[e].op = op /\ srv = NoRequest
Target(e) == openfile_lookup(call[e].id)
Bad(e) == Target(e) = None /\ Result(e, -E_INVAL, NoPage) /\ UNCHANGED <<opentab, fdpage, files, read>>

\* file_read clips at the end of the file.  A hole needs a block to read from, and
\* when there is none the error is returned before the offset moves.
serve_read(e) ==
    /\ Handler(e, "read")
    /\ \/ Bad(e)
       \/ LET o == Target(e)
              from == fdpage[o].offset
              left == files[opentab[o].o_file] - from
              r == IF left <= 0 THEN 0 ELSE IF call[e].n < left THEN call[e].n ELSE left
          IN /\ o # None
             /\ \/ /\ srv' = [pc |-> "advance", env |-> e, r |-> r, o |-> o, from |-> from, bytes |-> from .. from + r - 1]
                   /\ read' = [read EXCEPT ![o] = @ \cup (from .. from + r - 1)]
                \/ r > 0 /\ Result(e, -E_NO_DISK, NoPage) /\ UNCHANGED read
             /\ UNCHANGED <<opentab, fdpage, files>>

\* file_write makes the file larger before it finds the disk full.
serve_write(e) ==
    /\ Handler(e, "write")
    /\ \/ Bad(e)
       \/ LET o == Target(e)  from == fdpage[o].offset  end == from + call[e].n  f == opentab[o].o_file
          IN /\ o # None /\ end <= MaxSize
             /\ files' = [files EXCEPT ![f] = IF end > @ THEN end ELSE @]
             /\ \/ srv' = [pc |-> "advance", env |-> e, r |-> call[e].n, o |-> o, from |-> from, bytes |-> {}]
                \/ Result(e, -E_NO_DISK, NoPage)
             /\ UNCHANGED <<opentab, fdpage, read>>

\* fd_offset += r.  A seek since the offset was used for the transfer counts;
\* one between the load and the store of this update is lost.
AdvanceForgotten == srv.pc = "advance" /\ Result(srv.env, srv.r, NoPage) /\ UNCHANGED <<opentab, fdpage, files, read>>
Advance ==
    /\ srv.pc = "advance"
    /\ \E offset \in {fdpage[srv.o].offset, srv.from} :
         fdpage' = [fdpage EXCEPT ![srv.o].offset = offset + srv.r]
    /\ Result(srv.env, srv.r, NoPage)
    /\ UNCHANGED <<opentab, files, read>>

serve_set_size(e) ==
    /\ Handler(e, "set_size")
    /\ \/ Bad(e)
       \/ /\ Target(e) # None
          /\ files' = [files EXCEPT ![opentab[Target(e)].o_file] = call[e].n]
          /\ Result(e, 0, NoPage) /\ UNCHANGED <<opentab, fdpage, read>>

serve_stat(e) ==
    /\ Handler(e, "stat")
    /\ Bad(e) \/ (Target(e) # None /\ Result(e, 0, NoPage) /\ UNCHANGED <<opentab, fdpage, files, read>>)

serve_flush(e) ==
    /\ Handler(e, "flush")
    /\ Bad(e) \/ (Target(e) # None /\ Result(e, 0, NoPage) /\ UNCHANGED <<opentab, fdpage, files, read>>)

serve_sync(e) == Handler(e, "sync") /\ Result(e, 0, NoPage) /\ UNCHANGED <<opentab, fdpage, files, read>>

\* ipc_send gives the client its answer, and an open the Fd page; the client
\* runs its stub to the end: close unmaps the page, and dup maps the old one.
Reply ==
    LET e == srv.env  c == call[srv.env]
    IN /\ srv.pc = "send"
       /\ srv' = NoRequest
       /\ call' = [call EXCEPT ![e] = Idle]
       /\ CASE c.op = "open" /\ srv.page # NoPage -> fds' = [fds EXCEPT ![e][c.fd] = srv.page]
            [] c.op = "flush" -> fds' = [fds EXCEPT ![e][c.fd] = IF c.old = None \/ c.old = c.fd THEN None ELSE fds[e][c.old]]
            [] OTHER -> UNCHANGED fds
       /\ UNCHANGED <<opentab, fdpage, files, fsipcbuf, read>>

Server ==
    \/ \E e \in Env :
         /\ serve_open(e) \/ serve_read(e) \/ serve_write(e) \/ serve_set_size(e) \/ serve_stat(e)
            \/ serve_flush(e) \/ serve_sync(e)
         /\ UNCHANGED <<fds, call, fsipcbuf>>
    \/ Advance /\ UNCHANGED <<fds, call, fsipcbuf>>
    \/ Reply

Init ==
    /\ opentab = [o \in Entry |-> [o_fileid |-> o, o_file |-> None, page |-> FALSE]]
    /\ fdpage = [o \in Entry |-> [id |-> 0, offset |-> 0, omode |-> "RDONLY"]]
    /\ fds = [e \in Env |-> [fd \in FD |-> None]]
    /\ files \in [Path -> {None, MaxSize}]
    /\ call = [e \in Env |-> IF e \in Started THEN Idle ELSE Dead]
    /\ fsipcbuf = [e \in Env |-> FALSE]
    /\ srv = NoRequest
    /\ read = [o \in Entry |-> {}]

Next == (\E e \in Env : Program(e)) \/ Server

Spec == Init /\ [][Next]_vars

(***************************************************************************)
(* What open files promise.                                                *)
(***************************************************************************)
\* Every variable has its type: entry o of opentab has an id that names it
\* (openfile_alloc, openfile_lookup), and a page that is mapped exists.
TypeOK ==
    /\ \A o \in Entry :
         /\ opentab[o].o_fileid % MAXOPEN = o
         /\ opentab[o].o_file \in Path \cup {None}
         /\ fdpage[o].offset \in Nat
         /\ read[o] \subseteq 0 .. MaxSize - 1
    /\ fds \in [Env -> [FD -> {o \in Entry : opentab[o].page} \cup {None}]]
    /\ files \in [Path -> 0 .. MaxSize \cup {None}]
    /\ fsipcbuf \in [Env -> BOOLEAN]

\* A program that holds a descriptor is never told that it is not one: between
\* the moment a stub reads the id out of the Fd page and the moment
\* openfile_lookup checks it, no close, exit, fork or open of anybody makes the
\* id stale.  Each id names its entry of opentab (TypeOK).
LookupSucceeds == TypeOK /\ (srv.pc = "send" => srv.r # -E_INVAL)

\* As long as a program holds a descriptor, the entry behind it keeps its file
\* and its id: openfile_alloc gives no entry away that some program still maps,
\* whoever opened it and whatever has been closed, duplicated, forked or
\* killed since.
DescriptorKeepsFile ==
    [][\A e \in Env, fd \in FD :
         Mapped(e, fd) /\ fds'[e][fd] = fds[e][fd] =>
           LET o == fds[e][fd]
           IN opentab'[o] = opentab[o] /\ fdpage'[o].id = opentab[o].o_fileid]_vars

\* Programs that share an open file take turns: until one of them seeks, no
\* byte is read twice through it, since serve_read moves fd_offset on before
\* the next request is taken.
NoByteReadTwice ==
    [][srv.pc = "recv" /\ srv'.pc = "advance" => read[srv'.o] \cap srv'.bytes = {}]_vars

\* "assert(r <= PGSIZE)" in devfile_read: an answer to a read fits the page it
\* travels in.
ReadFitsPage == srv.pc = "advance" /\ call[srv.env].op = "read" => srv.r <= PGSIZE
=============================================================================
