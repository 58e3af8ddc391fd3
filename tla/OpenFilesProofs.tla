-------------------------- MODULE OpenFilesProofs --------------------------
(***************************************************************************)
(* The properties of open files for any programs, files, descriptors and   *)
(* entries of opentab.                                                     *)
(***************************************************************************)
EXTENDS OpenFiles, FiniteSetTheorems, WellFoundedInduction, TLAPS

-----------------------------------------------------------------------------
\* The inductive invariant.

FileOp == {"read", "write", "set_size", "stat", "flush"}
CallType ==
    [op : {"idle", "dead", "panicked", "sync"}]
      \cup [op : {"open"}, fd : FD, path : Path, mode : Mode]
      \cup [op : {"read", "write"}, id : Nat, n : Nat]
      \cup [op : {"set_size"}, id : Nat, n : {0}]
      \cup [op : {"stat"}, id : Nat]
      \cup [op : {"flush"}, id : Nat, fd : FD, old : FD \cup {None}]
SrvType ==
    [pc : {"recv"}]
      \cup [pc : {"send"}, env : Env, r : Int, page : Entry \cup {None}]
      \cup [pc : {"advance"}, env : Env, r : Nat, o : Entry, from : Nat, bytes : SUBSET Nat]

Typed ==
    /\ opentab \in [Entry -> [o_fileid : Nat, o_file : Path \cup {None}, page : BOOLEAN]]
    /\ fdpage \in [Entry -> [id : Nat, offset : Nat, omode : {"RDONLY", "WRONLY", "RDWR"}]]
    /\ fds \in [Env -> [FD -> Entry \cup {None}]]
    /\ files \in [Path -> 0 .. MaxSize \cup {None}]
    /\ call \in [Env -> CallType]
    /\ fsipcbuf \in [Env -> BOOLEAN]
    /\ srv \in SrvType
    /\ read \in [Entry -> SUBSET (0 .. MaxSize - 1)]
    /\ \A o \in Entry : opentab[o].o_fileid % MAXOPEN = o

\* Entry o is an open file, and its Fd page carries its id.
Whole(o) ==
    /\ o \in Entry /\ opentab[o].page /\ opentab[o].o_file \in Path
    /\ fdpage[o].id = opentab[o].o_fileid

\* Whoever maps an Fd page has an open file.
HeldWhole == \A e \in Env, fd \in FD : Mapped(e, fd) => Whole(fds[e][fd])

\* A program that asks about a file still maps its page, under the id it sent.
AskerHolds ==
    \A e \in Env : call[e].op \in FileOp =>
        \E fd \in FD : Mapped(e, fd) /\ opentab[fds[e][fd]].o_fileid = call[e].id

\* The server serves a program that waits, and has not refused it.
ServesWaiting ==
    /\ srv.pc # "recv" => Waiting(srv.env)
    /\ srv.pc = "send" => srv.r # -E_INVAL /\ (srv.page # NoPage => Whole(srv.page))

\* What has been read through an entry is below its offset.  While the server
\* has yet to move the offset on, a seek may have come between.
ReadBelow ==
    \A o \in Entry :
        IF srv.pc = "advance" /\ srv.o = o
        THEN \/ read[o] = {}
             \/ fdpage[o].offset = srv.from /\ read[o] \subseteq 0 .. srv.from + srv.r - 1
        ELSE read[o] \subseteq 0 .. fdpage[o].offset - 1

OpenInv == Typed /\ HeldWhole /\ AskerHolds /\ ServesWaiting /\ ReadBelow

-----------------------------------------------------------------------------
\* Operators.

\* The next id of an entry names the same entry.
LEMMA NextIdMod == ASSUME NEW n \in Nat PROVE (n + MAXOPEN) % MAXOPEN = n % MAXOPEN
<1>1. PICK M \in Nat : M = MAXOPEN /\ M > 0
  BY OpenAssumption
<1>2. PICK i \in Int, j \in Int : i = n \div M /\ j = (n + M) \div M
  BY <1>1
<1>3. /\ n = M * (n \div M) + (n % M) /\ n + M = M * ((n + M) \div M) + ((n + M) % M)
      /\ n % M \in 0 .. M - 1 /\ (n + M) % M \in 0 .. M - 1
  BY <1>1
<1>4. PICK d \in Int : d = j - i - 1
  OBVIOUS
<1>5. M * d = (n % M) - ((n + M) % M)
  BY <1>2, <1>3, <1>4
<1>6. (d >= 1 => M * d >= M) /\ (d <= -1 => M * d <= -M)
  OBVIOUS
<1>7. d = 0
  BY <1>1, <1>3, <1>5, <1>6
<1>8. M * d = 0
  BY <1>7
<1> QED
  BY <1>1, <1>3, <1>5, <1>8

LEMMA SmallMod == ASSUME NEW M \in Nat, NEW n \in Nat, n < M PROVE n % M = n
  OBVIOUS

\* Min is an element, for sets of naturals.
LEMMA MinIn == ASSUME NEW S \in SUBSET Nat, S # {} PROVE Min(S) \in S
<1>1. OpToRel(<, Nat) = {ss \in Nat \X Nat : ss[1] < ss[2]}
  BY Zenon DEF OpToRel
<1>2. PICK R : R = {ss \in Nat \X Nat : ss[1] < ss[2]}
  BY Zenon
<1>3. IsWellFoundedOn(R, Nat)
  BY <1>1, <1>2, NatLessThanWellFounded, Zenon
<1>4. PICK x \in S : \A y \in S : ~(<<y, x>> \in R)
  BY <1>3, WFMin, Zenon
<1>5. ASSUME NEW y \in S PROVE x <= y
  <2>1. x \in Nat /\ y \in Nat
    OBVIOUS
  <2>2. y < x => <<y, x>> \in R
    BY <1>2, <2>1
  <2> QED  BY <1>4, <2>1, <2>2
<1> QED
  BY <1>5, Zenon DEF Min

LEMMA EntryTypes == /\ Entry \subseteq Nat /\ FD \subseteq Nat /\ None \notin Entry /\ None \notin FD
                    /\ IsFiniteSet(Env \X FD)
<1>1. IsFiniteSet(FD)
  BY FS_Interval, OpenAssumption DEF FD
<1> QED
  BY <1>1, FS_Product, OpenAssumption DEF Entry, FD, None

\* A page that the server and a program map has two references.
LEMMA HeldCount ==
  ASSUME NEW o, NEW e \in Env, NEW fd \in FD, fds[e][fd] = o, opentab[o].page
  PROVE  pageref(o) >= 2
<1>1. Holders(o) \subseteq Env \X FD /\ <<e, fd>> \in Holders(o)
  BY DEF Holders
<1>2. IsFiniteSet(Holders(o))
  BY <1>1, EntryTypes, FS_Subset
<1>3. Cardinality(Holders(o)) \in Nat /\ Cardinality(Holders(o)) # 0
  BY <1>1, <1>2, FS_CardinalityType, FS_EmptySet
<1> QED
  BY <1>3 DEF pageref

\* openfile_alloc gives out an entry that no program maps.
LEMMA AllocUnheld ==
  ASSUME Typed, HeldWhole, openfile_alloc # None
  PROVE  openfile_alloc \in Entry /\ \A e \in Env, fd \in FD : fds[e][fd] # openfile_alloc
<1>1. openfile_alloc \in Unused
  BY MinIn, EntryTypes DEF openfile_alloc, Unused
<1>2. openfile_alloc \in Entry /\ pageref(openfile_alloc) <= 1
  BY <1>1 DEF Unused
<1>3. ASSUME NEW e \in Env, NEW fd \in FD, fds[e][fd] = openfile_alloc PROVE FALSE
  <2>1. opentab[openfile_alloc].page
    BY <1>2, <1>3, EntryTypes DEF HeldWhole, Whole, Mapped
  <2>2. pageref(openfile_alloc) >= 2
    BY <2>1, <1>3, HeldCount
  <2>3. pageref(openfile_alloc) \in Int
    <3>1. IsFiniteSet(Holders(openfile_alloc))
      BY EntryTypes, FS_Subset DEF Holders
    <3> QED  BY <3>1, FS_CardinalityType DEF pageref
  <2> QED  BY <1>2, <2>2, <2>3
<1> QED
  BY <1>2, <1>3

\* openfile_lookup finds the entry of a program that asks.
LEMMA LookupFinds ==
  ASSUME OpenInv, NEW e \in Env, call[e].op \in FileOp
  PROVE  Target(e) # None /\ Whole(Target(e))
<1>1. PICK fd \in FD : Mapped(e, fd) /\ opentab[fds[e][fd]].o_fileid = call[e].id
  BY DEF OpenInv, AskerHolds
<1>2. Whole(fds[e][fd])
  BY <1>1 DEF OpenInv, HeldWhole
<1>3. PICK o \in Entry : o = fds[e][fd] /\ opentab[o].page /\ opentab[o].o_fileid = call[e].id
  BY <1>1, <1>2 DEF Whole
<1>4. call[e].id % MAXOPEN = o
  BY <1>3 DEF OpenInv, Typed
<1>5. pageref(o) >= 2 /\ pageref(o) \in Int
  <2>1. IsFiniteSet(Holders(o))
    BY EntryTypes, FS_Subset DEF Holders
  <2> QED  BY <1>3, <2>1, HeldCount, FS_CardinalityType DEF pageref
<1>6. Target(e) = o
  BY <1>3, <1>4, <1>5 DEF Target, openfile_lookup
<1> QED
  BY <1>2, <1>3, <1>6, EntryTypes

\* The fields of a call and of the server's request.
LEMMA CallShape ==
  ASSUME NEW c \in CallType
  PROVE  /\ c.op = "open" => c.fd \in FD /\ c.path \in Path /\ c.mode \in Mode
         /\ c.op \in {"read", "write"} => c.n \in Nat
         /\ c.op = "set_size" => c.n = 0
         /\ c.op = "flush" => c.fd \in FD /\ c.old \in FD \cup {None}
  BY DEF CallType

LEMMA SrvShape ==
  ASSUME Typed
  PROVE  /\ srv.pc \in {"recv", "send", "advance"}
         /\ srv.pc # "recv" => srv.env \in Env
         /\ srv.pc = "send" => srv.r \in Int /\ srv.page \in Entry \cup {None}
         /\ srv.pc = "advance" => srv.r \in Nat /\ srv.o \in Entry /\ srv.from \in Nat
  BY DEF Typed, SrvType

-----------------------------------------------------------------------------
\* The invariant holds at the start, and every step keeps it.

LEMMA InitOpen == Init => OpenInv
<1> SUFFICES ASSUME Init PROVE OpenInv
  OBVIOUS
<1> USE EntryTypes DEF Init
<1>1. Typed
  <2>1. ASSUME NEW o \in Entry PROVE o % MAXOPEN = o
    <3>1. PICK M \in Nat : M = MAXOPEN /\ M > 0
      BY OpenAssumption
    <3>2. o \in Nat /\ o < M
      BY <3>1 DEF Entry
    <3> QED  BY <3>1, <3>2, SmallMod
  <2>2. \A e \in Env : call[e] \in CallType
    BY DEF CallType, Idle, Dead
  <2>3. srv \in SrvType
    BY DEF SrvType, NoRequest
  <2>4. files \in [Path -> 0 .. MaxSize \cup {None}]
    BY OpenAssumption
  <2> QED  BY <2>1, <2>2, <2>3, <2>4 DEF Typed
<1>2. HeldWhole
  BY DEF HeldWhole, Mapped
<1>3. AskerHolds
  BY DEF AskerHolds, FileOp, Idle, Dead
<1>4. ServesWaiting /\ ReadBelow
  BY DEF ServesWaiting, ReadBelow, NoRequest
<1> QED
  BY <1>1, <1>2, <1>3, <1>4 DEF OpenInv

\* A program makes a call.
LEMMA AskStep ==
  ASSUME OpenInv, NEW e \in Env, NEW c \in CallType, call[e] = Idle,
         call' = [call EXCEPT ![e] = c], fsipcbuf' \in [Env -> BOOLEAN],
         UNCHANGED <<opentab, fdpage, fds, files, srv, read>>,
         c.op \in FileOp => \E fd \in FD : Mapped(e, fd) /\ opentab[fds[e][fd]].o_fileid = c.id
  PROVE  OpenInv'
<1>1. \A d \in Env : call'[d] = IF d = e THEN c ELSE call[d]
  BY DEF OpenInv, Typed
<1>2. Typed'
  BY Zenon DEF OpenInv, Typed
<1>3. HeldWhole'
  BY DEF OpenInv, HeldWhole, Mapped, Whole
<1>4. AskerHolds'
  BY <1>1 DEF OpenInv, AskerHolds, Mapped
<1>5. ServesWaiting'
  <2>1. srv.pc # "recv" => srv.env \in Env /\ srv.env # e
    BY SrvShape DEF OpenInv, ServesWaiting, Waiting, Idle
  <2> QED  BY <1>1, <2>1 DEF OpenInv, ServesWaiting, Waiting, Whole
<1>6. ReadBelow'
  BY DEF OpenInv, ReadBelow
<1> QED
  BY <1>2, <1>3, <1>4, <1>5, <1>6 DEF OpenInv

LEMMA ProgramAsks ==
  ASSUME OpenInv, NEW e \in Env,
         \/ \E path \in Path, mode \in Mode : Open(e, path, mode)
         \/ \E fd \in FD, n \in Count : Read(e, fd, n) \/ Write(e, fd, n)
         \/ \E fd \in FD : Close(e, fd) \/ Truncate(e, fd, 0) \/ Stat(e, fd)
         \/ \E old, new \in FD : DupOverOpen(e, old, new)
  PROVE  OpenInv'
<1> DEFINE Kept(c) == \E fd \in FD : Mapped(e, fd) /\ opentab[fds[e][fd]].o_fileid = c.id
<1>1. ASSUME NEW c \in CallType, Ask(e, c), c.op \in FileOp => Kept(c) PROVE OpenInv'
  <2>1. fsipcbuf' \in [Env -> BOOLEAN]
    BY <1>1 DEF Ask, OpenInv, Typed
  <2> QED  BY <1>1, <2>1, AskStep, Zenon DEF Ask
<1>2. ASSUME NEW fd \in FD, Mapped(e, fd)
      PROVE  Page(e, fd).id \in Nat /\ opentab[fds[e][fd]].o_fileid = Page(e, fd).id
  <2>1. Whole(fds[e][fd])
    BY <1>2 DEF OpenInv, HeldWhole
  <2> QED  BY <2>1 DEF Whole, Page, OpenInv, Typed
<1>3. ASSUME NEW path \in Path, NEW mode \in Mode, Open(e, path, mode) PROVE OpenInv'
  <2>1. {fd \in FD : ~Mapped(e, fd)} \in SUBSET Nat
    BY EntryTypes, Zenon
  <2>2. fd_alloc(e) \in FD
    BY <1>3, <2>1, MinIn DEF Open, fd_alloc
  <2>3. PICK c : c = [op |-> "open", fd |-> fd_alloc(e), path |-> path, mode |-> mode]
    BY Zenon
  <2>4. c \in CallType /\ c.op \notin FileOp
    BY <2>2, <2>3 DEF CallType, FileOp
  <2> QED  BY <1>1, <1>3, <2>3, <2>4 DEF Open
<1>4. ASSUME NEW fd \in FD, NEW n \in Count, Read(e, fd, n) \/ Write(e, fd, n) PROVE OpenInv'
  <2>1. Mapped(e, fd)
    BY <1>4 DEF Read, Write
  <2>2. PICK k \in Nat, op \in {"read", "write"} :
          Ask(e, [op |-> op, id |-> Page(e, fd).id, n |-> k])
    <3>1. n \in Nat /\ (IF n > PGSIZE - 1 THEN PGSIZE - 1 ELSE n) \in Nat
      BY OpenAssumption
    <3>2. CASE Read(e, fd, n)
      BY <3>1, <3>2 DEF Read
    <3>3. CASE Write(e, fd, n)
      BY <3>1, <3>3 DEF Write
    <3> QED  BY <1>4, <3>2, <3>3
  <2>3. PICK c : c = [op |-> op, id |-> Page(e, fd).id, n |-> k]
    BY Zenon
  <2>4. c \in CallType /\ c.id = Page(e, fd).id
    BY <1>2, <2>1, <2>3 DEF CallType
  <2> QED  BY <1>1, <1>2, <2>1, <2>2, <2>3, <2>4
<1>5. ASSUME NEW fd \in FD, Close(e, fd) PROVE OpenInv'
  <2>1. PICK c : c = [op |-> "flush", id |-> Page(e, fd).id, fd |-> fd, old |-> None]
    BY Zenon
  <2>2. Mapped(e, fd) /\ Ask(e, c)
    BY <1>5, <2>1 DEF Close
  <2>3. c \in CallType /\ c.id = Page(e, fd).id
    BY <1>2, <2>1, <2>2 DEF CallType
  <2> QED  BY <1>1, <1>2, <2>2, <2>3
<1>6. ASSUME NEW fd \in FD, Truncate(e, fd, 0) PROVE OpenInv'
  <2>1. PICK c : c = [op |-> "set_size", id |-> Page(e, fd).id, n |-> 0]
    BY Zenon
  <2>2. Mapped(e, fd) /\ Ask(e, c)
    BY <1>6, <2>1 DEF Truncate
  <2>3. c \in CallType /\ c.id = Page(e, fd).id
    BY <1>2, <2>1, <2>2 DEF CallType
  <2> QED  BY <1>1, <1>2, <2>2, <2>3
<1>7. ASSUME NEW fd \in FD, Stat(e, fd) PROVE OpenInv'
  <2>1. PICK c : c = [op |-> "stat", id |-> Page(e, fd).id]
    BY Zenon
  <2>2. Mapped(e, fd) /\ Ask(e, c)
    BY <1>7, <2>1 DEF Stat
  <2>3. c \in CallType /\ c.id = Page(e, fd).id
    BY <1>2, <2>1, <2>2 DEF CallType
  <2> QED  BY <1>1, <1>2, <2>2, <2>3
<1>8. ASSUME NEW old \in FD, NEW new \in FD, DupOverOpen(e, old, new) PROVE OpenInv'
  <2>1. PICK c : c = [op |-> "flush", id |-> Page(e, new).id, fd |-> new, old |-> old]
    BY Zenon
  <2>2. Mapped(e, new) /\ Ask(e, c)
    BY <1>8, <2>1 DEF DupOverOpen
  <2>3. c \in CallType /\ c.id = Page(e, new).id
    BY <1>2, <2>1, <2>2 DEF CallType
  <2> QED  BY <1>1, <1>2, <2>2, <2>3
<1> QED
  BY <1>3, <1>4, <1>5, <1>6, <1>7, <1>8

LEMMA SyncStep == ASSUME OpenInv, NEW e \in Env, Sync(e) PROVE OpenInv'
<1>1. PICK c : c = IF fsipcbuf[e] THEN Panicked ELSE [op |-> "sync"]
  BY Zenon
<1>2. c \in CallType /\ c.op \notin FileOp
  BY <1>1 DEF CallType, FileOp, Panicked
<1>3. fsipcbuf' \in [Env -> BOOLEAN]
  BY DEF Sync, OpenInv, Typed
<1> QED
  BY <1>1, <1>2, <1>3, AskStep, Zenon DEF Sync

LEMMA SeekStep == ASSUME OpenInv, NEW e \in Env, NEW fd \in FD, Seek(e, fd, 0) PROVE OpenInv'
<1>1. PICK o \in Entry : o = fds[e][fd]
  BY DEF Seek, Mapped, OpenInv, Typed
<1>2. /\ fdpage' = [fdpage EXCEPT ![o].offset = 0] /\ read' = [read EXCEPT ![o] = {}]
      /\ UNCHANGED <<opentab, fds, files, call, fsipcbuf, srv>>
  BY <1>1 DEF Seek
<1>3. \A x \in Entry : /\ fdpage'[x].id = fdpage[x].id
                       /\ x # o => fdpage'[x].offset = fdpage[x].offset
                       /\ read'[x] = IF x = o THEN {} ELSE read[x]
  BY <1>2 DEF OpenInv, Typed
<1>4. Typed'
  BY <1>2, Zenon DEF OpenInv, Typed
<1>5. HeldWhole'
  BY <1>2, <1>3 DEF OpenInv, HeldWhole, Mapped, Whole
<1>6. AskerHolds'
  BY <1>2 DEF OpenInv, AskerHolds, Mapped
<1>7. ServesWaiting'
  BY <1>2, <1>3 DEF OpenInv, ServesWaiting, Waiting, Whole
<1>8. ReadBelow'
  BY <1>2, <1>3 DEF OpenInv, ReadBelow
<1> QED
  BY <1>4, <1>5, <1>6, <1>7, <1>8 DEF OpenInv

\* Descriptors are mapped and unmapped, and calls end.
LEMMA FdsStep ==
  ASSUME OpenInv, UNCHANGED <<opentab, fdpage, files, read>>,
         fds' \in [Env -> [FD -> Entry \cup {None}]], call' \in [Env -> CallType],
         fsipcbuf' \in [Env -> BOOLEAN],
         srv' = srv \/ (srv' = NoRequest /\ srv.pc = "send"),
         \A e \in Env, fd \in FD : fds'[e][fd] # None => Whole(fds'[e][fd]),
         \A e \in Env : call'[e].op \in FileOp =>
            call'[e] = call[e] /\ \A fd \in FD : Mapped(e, fd) => fds'[e][fd] = fds[e][fd],
         srv' = srv /\ srv.pc # "recv" => call'[srv.env] = call[srv.env]
  PROVE  OpenInv'
<1>1. srv' \in SrvType
  BY DEF OpenInv, Typed, SrvType, NoRequest
<1>2. Typed'
  BY <1>1 DEF OpenInv, Typed
<1>3. HeldWhole'
  BY DEF HeldWhole, Mapped, Whole
<1>4. AskerHolds'
  <2> SUFFICES ASSUME NEW e \in Env, call'[e].op \in FileOp
               PROVE  \E fd \in FD : Mapped(e, fd)' /\ opentab'[fds'[e][fd]].o_fileid = call'[e].id
    BY DEF AskerHolds
  <2>1. call'[e] = call[e]
    OBVIOUS
  <2>2. PICK fd \in FD : Mapped(e, fd) /\ opentab[fds[e][fd]].o_fileid = call[e].id
    BY <2>1 DEF OpenInv, AskerHolds
  <2>3. fds'[e][fd] = fds[e][fd]
    BY <2>2
  <2> QED  BY <2>1, <2>2, <2>3 DEF Mapped
<1>5. ServesWaiting'
  <2>1. CASE srv' = srv
    BY <2>1 DEF OpenInv, ServesWaiting, Waiting, Whole
  <2>2. CASE srv' = NoRequest
    BY <2>2 DEF ServesWaiting, NoRequest
  <2> QED  BY <2>1, <2>2
<1>6. ReadBelow'
  <2>1. srv'.pc = "advance" <=> srv.pc = "advance"
    BY DEF NoRequest
  <2>2. srv.pc = "advance" => srv' = srv
    OBVIOUS
  <2> QED  BY <2>1, <2>2 DEF OpenInv, ReadBelow
<1> QED
  BY <1>2, <1>3, <1>4, <1>5, <1>6 DEF OpenInv

LEMMA DupOnFreeStep ==
  ASSUME OpenInv, NEW e \in Env, NEW old \in FD, NEW new \in FD, DupOnFree(e, old, new)
  PROVE  OpenInv'
<1>1. fds' = [fds EXCEPT ![e][new] = fds[e][old]] /\ call[e].op = "idle"
  BY DEF DupOnFree, Map, Idle
<1>2. /\ \A d \in Env, fd \in FD : fds'[d][fd] = IF d = e /\ fd = new THEN fds[e][old] ELSE fds[d][fd]
      /\ fds' \in [Env -> [FD -> Entry \cup {None}]]
  BY <1>1 DEF OpenInv, Typed
<1>3. \A d \in Env, fd \in FD : fds'[d][fd] # None => Whole(fds'[d][fd])
  BY <1>2 DEF OpenInv, HeldWhole, Mapped
<1>4. UNCHANGED <<opentab, fdpage, files, call, fsipcbuf, srv, read>>
  BY DEF DupOnFree
<1>5. call' \in [Env -> CallType] /\ fsipcbuf' \in [Env -> BOOLEAN]
  BY <1>4 DEF OpenInv, Typed
<1>6. \A d \in Env : call'[d].op \in FileOp =>
        call'[d] = call[d] /\ \A fd \in FD : Mapped(d, fd) => fds'[d][fd] = fds[d][fd]
  BY <1>1, <1>2, <1>4 DEF FileOp
<1> QED
  BY <1>2, <1>3, <1>4, <1>5, <1>6, FdsStep

LEMMA ForkStep == ASSUME OpenInv, NEW e \in Env, NEW c \in Env, Fork(e, c) PROVE OpenInv'
<1>1. /\ fds' = [fds EXCEPT ![c] = fds[e]] /\ call' = [call EXCEPT ![c] = Idle]
      /\ call[c].op = "dead" /\ UNCHANGED <<opentab, fdpage, files, srv, read>>
  BY DEF Fork, Dead
<1>2. /\ \A d \in Env : fds'[d] = (IF d = c THEN fds[e] ELSE fds[d])
      /\ fds' \in [Env -> [FD -> Entry \cup {None}]]
  BY <1>1 DEF OpenInv, Typed
<1>3. Idle \in CallType /\ Idle.op = "idle"
  BY DEF CallType, Idle
<1>4. /\ \A d \in Env : call'[d] = (IF d = c THEN Idle ELSE call[d])
      /\ call' \in [Env -> CallType]
  BY <1>1, <1>3 DEF OpenInv, Typed
<1>5. fsipcbuf' \in [Env -> BOOLEAN]
  BY Zenon DEF Fork, OpenInv, Typed
<1>6. \A d \in Env, fd \in FD : fds'[d][fd] # None => Whole(fds'[d][fd])
  BY <1>2 DEF OpenInv, HeldWhole, Mapped
<1>7. \A d \in Env : call'[d].op \in FileOp =>
        call'[d] = call[d] /\ \A fd \in FD : Mapped(d, fd) => fds'[d][fd] = fds[d][fd]
  BY <1>2, <1>3, <1>4 DEF FileOp
<1>8. srv.pc # "recv" => call'[srv.env] = call[srv.env]
  BY <1>1, <1>4, SrvShape DEF OpenInv, ServesWaiting, Waiting
<1> QED
  BY <1>1, <1>2, <1>4, <1>5, <1>6, <1>7, <1>8, FdsStep

LEMMA DieStep == ASSUME OpenInv, NEW e \in Env, Die(e) PROVE OpenInv'
<1>1. /\ fds' = [fds EXCEPT ![e] = [fd \in FD |-> None]] /\ call' = [call EXCEPT ![e] = Dead]
      /\ ~Served(e) /\ UNCHANGED <<opentab, fdpage, files, fsipcbuf, srv, read>>
  BY DEF Die
<1>2. /\ \A d \in Env : fds'[d] = (IF d = e THEN [fd \in FD |-> None] ELSE fds[d])
      /\ fds' \in [Env -> [FD -> Entry \cup {None}]]
  BY <1>1 DEF OpenInv, Typed
<1>3. Dead \in CallType /\ Dead.op = "dead"
  BY DEF CallType, Dead
<1>4. /\ \A d \in Env : call'[d] = (IF d = e THEN Dead ELSE call[d])
      /\ call' \in [Env -> CallType]
  BY <1>1, <1>3 DEF OpenInv, Typed
<1>5. fsipcbuf' \in [Env -> BOOLEAN]
  BY <1>1 DEF OpenInv, Typed
<1>6. \A d \in Env, fd \in FD : fds'[d][fd] # None => Whole(fds'[d][fd])
  BY <1>2 DEF OpenInv, HeldWhole, Mapped
<1>7. \A d \in Env : call'[d].op \in FileOp =>
        call'[d] = call[d] /\ \A fd \in FD : Mapped(d, fd) => fds'[d][fd] = fds[d][fd]
  BY <1>2, <1>3, <1>4, SMTT(30) DEF FileOp
<1>8. srv.pc # "recv" => call'[srv.env] = call[srv.env]
  BY <1>1, <1>4, SrvShape DEF OpenInv, Served
<1> QED
  BY <1>1, <1>2, <1>4, <1>5, <1>6, <1>7, <1>8, FdsStep

LEMMA ReplyStep == ASSUME OpenInv, Reply PROVE OpenInv'
<1>1. PICK e \in Env, c \in CallType : e = srv.env /\ c = call[e]
  BY SrvShape DEF Reply, OpenInv, Typed
<1>2. /\ srv.pc = "send" /\ srv' = NoRequest /\ call' = [call EXCEPT ![e] = Idle]
      /\ UNCHANGED <<opentab, fdpage, files, fsipcbuf, read>>
  BY <1>1 DEF Reply
<1>3. fds' = fds \/ \E fd \in FD, o \in Entry \cup {None} :
        fds' = [fds EXCEPT ![e][fd] = o] /\ (o # None => Whole(o))
  <2>1. CASE c.op = "open" /\ srv.page # NoPage
    <3>1. fds' = [fds EXCEPT ![e][c.fd] = srv.page]
      BY <1>1, <2>1 DEF Reply
    <3>2. c.fd \in FD /\ srv.page \in Entry \cup {None} /\ Whole(srv.page)
      BY <1>2, <2>1, CallShape, SrvShape DEF OpenInv, ServesWaiting
    <3> QED  BY <3>1, <3>2, Zenon
  <2>2. CASE c.op = "flush"
    <3>1. PICK o : o = IF c.old = None \/ c.old = c.fd THEN None ELSE fds[e][c.old]
      OBVIOUS
    <3>2. fds' = [fds EXCEPT ![e][c.fd] = o]
      BY <1>1, <2>2, <3>1 DEF Reply
    <3>3. c.fd \in FD /\ c.old \in FD \cup {None}
      BY <2>2, CallShape
    <3>4. o \in Entry \cup {None} /\ (o # None => Whole(o))
      BY <3>1, <3>3 DEF OpenInv, Typed, HeldWhole, Mapped
    <3> QED  BY <3>2, <3>3, <3>4, Zenon
  <2>3. CASE c.op # "flush" /\ ~(c.op = "open" /\ srv.page # NoPage)
    BY <1>1, <2>3 DEF Reply
  <2> QED  BY <2>1, <2>2, <2>3
<1>4. /\ \A d \in Env : d # e => fds'[d] = fds[d]
      /\ \A x \in FD : fds'[e][x] = fds[e][x] \/ (fds'[e][x] # None => Whole(fds'[e][x]))
      /\ fds' \in [Env -> [FD -> Entry \cup {None}]]
  <2>1. CASE fds' = fds
    BY <2>1 DEF OpenInv, Typed
  <2>2. ASSUME NEW fd \in FD, NEW o \in Entry \cup {None},
               fds' = [fds EXCEPT ![e][fd] = o], o # None => Whole(o)
        PROVE  <1>4!1 /\ <1>4!2 /\ <1>4!3
    BY <2>2 DEF OpenInv, Typed
  <2> QED  BY <1>3, <2>1, <2>2
<1>5. Idle \in CallType /\ Idle.op = "idle"
  BY DEF CallType, Idle
<1>6. /\ \A d \in Env : call'[d] = (IF d = e THEN Idle ELSE call[d])
      /\ call' \in [Env -> CallType]
  BY <1>2, <1>5 DEF OpenInv, Typed
<1>7. fsipcbuf' \in [Env -> BOOLEAN]
  BY <1>2 DEF OpenInv, Typed
<1>8. \A d \in Env, x \in FD : fds'[d][x] # None => Whole(fds'[d][x])
  BY <1>3, <1>4 DEF OpenInv, HeldWhole, Mapped
<1>9. \A d \in Env : call'[d].op \in FileOp =>
        call'[d] = call[d] /\ \A x \in FD : Mapped(d, x) => fds'[d][x] = fds[d][x]
  BY <1>4, <1>5, <1>6 DEF FileOp
<1>10. srv' # srv
  BY <1>2 DEF NoRequest
<1> QED
  BY <1>2, <1>4, <1>6, <1>7, <1>8, <1>9, <1>10, FdsStep

\* An answer of the server, a transfer it has done, and where it reads.
LEMMA ResultShape ==
  ASSUME NEW e \in Env, NEW r \in Int, NEW page \in Entry \cup {None}, Result(e, r, page)
  PROVE  srv' \in SrvType /\ srv'.pc = "send" /\ srv'.env = e /\ srv'.r = r /\ srv'.page = page
  BY DEF Result, SrvType

LEMMA TransferShape ==
  ASSUME NEW e \in Env, NEW r \in Nat, NEW o \in Entry, NEW from \in Nat, NEW bytes \in SUBSET Nat, NEW s,
         s = [pc |-> "advance", env |-> e, r |-> r, o |-> o, from |-> from, bytes |-> bytes]
  PROVE  s \in SrvType /\ s.pc = "advance" /\ s.env = e /\ s.r = r /\ s.o = o /\ s.from = from /\ s.bytes = bytes
  BY DEF SrvType

LEMMA WithinSize ==
  ASSUME NEW from \in Nat, NEW r \in Nat, from + r <= MaxSize \/ r = 0
  PROVE  from .. from + r - 1 \subseteq 0 .. MaxSize - 1
  BY OpenAssumption

LEMMA BelowDisjoint ==
  ASSUME NEW S, NEW from \in Nat, NEW r \in Nat, S \subseteq 0 .. from - 1
  PROVE  S \cap (from .. from + r - 1) = {}
  OBVIOUS

\* The server has an answer, and has changed at most the size of a file.
LEMMA ResultStep ==
  ASSUME OpenInv, NEW e \in Env, Waiting(e), srv.pc = "recv",
         UNCHANGED <<opentab, fdpage, fds, call, fsipcbuf, read>>,
         files' \in [Path -> 0 .. MaxSize \cup {None}],
         NEW r \in Int, r # -E_INVAL, Result(e, r, NoPage)
  PROVE  OpenInv'
<1>1. srv' \in SrvType /\ srv'.pc = "send" /\ srv'.env = e /\ srv'.r = r /\ srv'.page = NoPage
  BY ResultShape DEF NoPage
<1>2. Typed'
  BY <1>1, SMTT(30) DEF OpenInv, Typed
<1>3. HeldWhole' /\ AskerHolds'
  BY DEF OpenInv, HeldWhole, AskerHolds, Mapped, Whole
<1>4. ServesWaiting'
  BY <1>1, SMTT(30) DEF ServesWaiting, Waiting
<1>5. ReadBelow'
  BY <1>1, SMTT(30) DEF OpenInv, ReadBelow
<1> QED
  BY <1>2, <1>3, <1>4, <1>5 DEF OpenInv

\* The server has read or written at the offset, and has yet to move it on.
LEMMA TransferStep ==
  ASSUME OpenInv, NEW e \in Env, Waiting(e), srv.pc = "recv",
         UNCHANGED <<opentab, fdpage, fds, call, fsipcbuf>>,
         files' \in [Path -> 0 .. MaxSize \cup {None}],
         NEW o \in Entry, NEW r \in Nat, NEW from \in Nat, NEW bytes \in SUBSET Nat,
         from = fdpage[o].offset,
         srv' = [pc |-> "advance", env |-> e, r |-> r, o |-> o, from |-> from, bytes |-> bytes],
         \/ read' = read
         \/ /\ read' = [read EXCEPT ![o] = @ \cup (from .. from + r - 1)]
            /\ from + r <= MaxSize \/ r = 0
  PROVE  OpenInv'
<1>1. /\ srv' \in SrvType /\ srv'.pc = "advance" /\ srv'.env = e /\ srv'.r = r /\ srv'.o = o
      /\ srv'.from = from
  BY TransferShape
<1>2. /\ \A x \in Entry : x # o => read'[x] = read[x]
      /\ read'[o] \subseteq read[o] \cup (from .. from + r - 1)
      /\ read' \in [Entry -> SUBSET (0 .. MaxSize - 1)]
  <2>1. CASE read' = read
    BY <2>1 DEF OpenInv, Typed
  <2>2. CASE read' = [read EXCEPT ![o] = @ \cup (from .. from + r - 1)] /\ (from + r <= MaxSize \/ r = 0)
    <3>1. from .. from + r - 1 \subseteq 0 .. MaxSize - 1
      BY <2>2, WithinSize
    <3> QED  BY <2>2, <3>1, Zenon DEF OpenInv, Typed
  <2> QED  BY <2>1, <2>2
<1>3. Typed'
  BY <1>1, <1>2, Zenon DEF OpenInv, Typed
<1>4. HeldWhole' /\ AskerHolds'
  BY Zenon DEF OpenInv, HeldWhole, AskerHolds, Mapped, Whole
<1>5. ServesWaiting'
  BY <1>1, Zenon DEF ServesWaiting, Waiting
<1>6. ReadBelow'
  <2>1. read[o] \subseteq 0 .. from - 1
    BY DEF OpenInv, ReadBelow
  <2>2. read'[o] \subseteq 0 .. from + r - 1
    BY <1>2, <2>1
  <2> QED  BY <1>1, <1>2, <2>2, Zenon DEF OpenInv, ReadBelow
<1> QED
  BY <1>3, <1>4, <1>5, <1>6, Zenon DEF OpenInv

LEMMA AdvanceStep ==
  ASSUME OpenInv, Advance, UNCHANGED <<fds, call, fsipcbuf>>
  PROVE  OpenInv'
<1>1. PICK o \in Entry, e \in Env, r \in Nat, from \in Nat :
        srv.pc = "advance" /\ o = srv.o /\ e = srv.env /\ r = srv.r /\ from = srv.from
  BY SrvShape DEF Advance, OpenInv
<1>2. PICK offset \in {fdpage[o].offset, from} : fdpage' = [fdpage EXCEPT ![o].offset = offset + r]
  BY <1>1, Zenon DEF Advance
<1>3. offset \in Nat
  BY <1>2 DEF OpenInv, Typed
<1>4. /\ fdpage' \in [Entry -> [id : Nat, offset : Nat, omode : {"RDONLY", "WRONLY", "RDWR"}]]
      /\ \A x \in Entry : /\ fdpage'[x].id = fdpage[x].id
                          /\ fdpage'[x].offset = IF x = o THEN offset + r ELSE fdpage[x].offset
  <2>1. PICK k \in Nat : k = offset + r
    BY <1>3
  <2>2. fdpage' = [fdpage EXCEPT ![o].offset = k]
    BY <1>2, <2>1, Zenon
  <2>3. PICK p : p = [fdpage[o] EXCEPT !.offset = k]
    BY Zenon
  <2>4. p \in [id : Nat, offset : Nat, omode : {"RDONLY", "WRONLY", "RDWR"}] /\ p.id = fdpage[o].id /\ p.offset = k
    BY <2>3, Zenon DEF OpenInv, Typed
  <2>5. fdpage' = [fdpage EXCEPT ![o] = p]
    BY <2>2, <2>3, Zenon
  <2>6. fdpage' \in [Entry -> [id : Nat, offset : Nat, omode : {"RDONLY", "WRONLY", "RDWR"}]]
    BY <2>4, <2>5 DEF OpenInv, Typed
  <2>7. \A x \in Entry : fdpage'[x] = IF x = o THEN p ELSE fdpage[x]
    BY <2>5 DEF OpenInv, Typed
  <2> QED  BY <2>1, <2>4, <2>6, <2>7
<1>5. /\ srv' \in SrvType /\ srv'.pc = "send" /\ srv'.env = e /\ srv'.r = r /\ srv'.page = NoPage
  <2>1. Result(e, r, NoPage) /\ r \in Int /\ NoPage \in Entry \cup {None}
    BY <1>1 DEF Advance, NoPage
  <2> QED  BY <2>1, ResultShape
<1>6. UNCHANGED <<opentab, files, read>>
  BY DEF Advance
<1>7. Typed'
  BY <1>4, <1>5, <1>6, SMTT(30) DEF OpenInv, Typed
<1>8. HeldWhole' /\ AskerHolds'
  BY <1>4, <1>6, Zenon DEF OpenInv, HeldWhole, AskerHolds, Mapped, Whole
<1>9. ServesWaiting'
  BY <1>1, <1>5 DEF OpenInv, ServesWaiting, Waiting, E_INVAL
<1>10. ReadBelow'
  <2>1. read[o] = {} \/ (fdpage[o].offset = from /\ read[o] \subseteq 0 .. from + r - 1)
    BY <1>1 DEF OpenInv, ReadBelow
  <2>2. read[o] \subseteq 0 .. offset + r - 1
    BY <1>2, <2>1
  <2>3. \A x \in Entry : x # o => read[x] \subseteq 0 .. fdpage[x].offset - 1
    BY <1>1 DEF OpenInv, ReadBelow
  <2>4. \A x \in Entry : read'[x] \subseteq 0 .. fdpage'[x].offset - 1
    <3> SUFFICES ASSUME NEW x \in Entry PROVE read[x] \subseteq 0 .. fdpage'[x].offset - 1
      BY <1>6
    <3>1. CASE x = o
      <4>1. PICK k : k = offset + r
        OBVIOUS
      <4>2. fdpage'[o].offset = k
        BY <1>4, <4>1
      <4>3. read[o] \subseteq 0 .. k - 1
        BY <1>3, <2>2, <4>1
      <4> QED  BY <3>1, <4>2, <4>3
    <3>2. CASE x # o
      BY <1>4, <2>3, <3>2
    <3> QED  BY <3>1, <3>2
  <2> QED  BY <1>5, <2>4, Zenon DEF ReadBelow
<1> QED
  BY <1>7, <1>8, <1>9, <1>10 DEF OpenInv

\* A request on a file, from a program that still has it, is not refused.
LEMMA HandlerFinds ==
  ASSUME OpenInv, NEW e \in Env, NEW op \in FileOp, Handler(e, op)
  PROVE  /\ srv.pc = "recv" /\ Waiting(e) /\ ~Bad(e)
         /\ Target(e) \in Entry /\ Whole(Target(e))
<1>1. srv.pc = "recv" /\ call[e].op \in FileOp /\ Waiting(e)
  BY DEF Handler, NoRequest, Waiting, FileOp
<1>2. Target(e) # None /\ Whole(Target(e))
  BY <1>1, LookupFinds
<1> QED
  BY <1>1, <1>2, Zenon DEF Bad, Whole

LEMMA FilesType ==
  ASSUME Typed, NEW f \in Path, NEW n \in Nat, n <= MaxSize \/ n = 0
  PROVE  [files EXCEPT ![f] = n] \in [Path -> 0 .. MaxSize \cup {None}]
  BY OpenAssumption DEF Typed

LEMMA ServeReadStep ==
  ASSUME OpenInv, NEW e \in Env, serve_read(e), UNCHANGED <<fds, call, fsipcbuf>>
  PROVE  OpenInv'
<1>1. Handler(e, "read") /\ call[e].op = "read"
  BY Zenon DEF serve_read, Handler
<1>2. srv.pc = "recv" /\ Waiting(e) /\ ~Bad(e) /\ Target(e) \in Entry /\ Whole(Target(e))
  BY <1>1, HandlerFinds DEF FileOp
<1>3. PICK o \in Entry : o = Target(e)
  BY <1>2
<1>4. PICK n \in Nat, from \in Nat, size \in 0 .. MaxSize \cup {None} :
        n = call[e].n /\ from = fdpage[o].offset /\ size = files[opentab[o].o_file]
  BY <1>1, <1>2, <1>3, CallShape, Zenon DEF OpenInv, Typed, Whole
<1>5. PICK r : r = IF size - from <= 0 THEN 0 ELSE IF n < size - from THEN n ELSE size - from
  OBVIOUS
<1>6. /\ \/ /\ srv' = [pc |-> "advance", env |-> e, r |-> r, o |-> o, from |-> from,
                       bytes |-> from .. from + r - 1]
            /\ read' = [read EXCEPT ![o] = @ \cup (from .. from + r - 1)]
         \/ Result(e, -E_NO_DISK, NoPage) /\ UNCHANGED read
      /\ UNCHANGED <<opentab, fdpage, files>>
  BY <1>2, <1>3, <1>4, <1>5, Zenon DEF serve_read
<1>7. files' \in [Path -> 0 .. MaxSize \cup {None}]
  BY <1>6 DEF OpenInv, Typed
<1>8. CASE Result(e, -E_NO_DISK, NoPage) /\ UNCHANGED read
  <2>1. -E_NO_DISK \in Int /\ -E_NO_DISK # -E_INVAL
    BY SMTT(30) DEF E_NO_DISK, E_INVAL
  <2> QED  BY <1>2, <1>6, <1>7, <1>8, <2>1, ResultStep
<1>9. CASE /\ srv' = [pc |-> "advance", env |-> e, r |-> r, o |-> o, from |-> from,
                      bytes |-> from .. from + r - 1]
           /\ read' = [read EXCEPT ![o] = @ \cup (from .. from + r - 1)]
  <2>1. r \in Nat /\ (from + r <= MaxSize \/ r = 0)
    BY <1>4, <1>5, OpenAssumption DEF None
  <2>2. from .. from + r - 1 \in SUBSET Nat
    BY <1>4, <2>1
  <2>3. PICK bytes \in SUBSET Nat : bytes = from .. from + r - 1
    BY <2>2, Zenon
  <2> QED  BY <1>2, <1>4, <1>6, <1>7, <1>9, <2>1, <2>3, TransferStep, ZenonT(30)
<1> QED
  BY <1>6, <1>8, <1>9, Zenon

LEMMA ServeWriteStep ==
  ASSUME OpenInv, NEW e \in Env, serve_write(e), UNCHANGED <<fds, call, fsipcbuf>>
  PROVE  OpenInv'
<1>1. Handler(e, "write") /\ call[e].op = "write"
  BY Zenon DEF serve_write, Handler
<1>2. srv.pc = "recv" /\ Waiting(e) /\ ~Bad(e) /\ Target(e) \in Entry /\ Whole(Target(e))
  BY <1>1, HandlerFinds, Zenon DEF FileOp
<1>3. PICK o \in Entry, f \in Path : o = Target(e) /\ f = opentab[o].o_file
  BY <1>2 DEF Whole
<1>4. PICK n \in Nat, from \in Nat : n = call[e].n /\ from = fdpage[o].offset
  BY <1>1, <1>3, CallShape, Zenon DEF OpenInv, Typed
<1>5. /\ from + n <= MaxSize
      /\ files' = [files EXCEPT ![f] = IF from + n > files[f] THEN from + n ELSE files[f]]
      /\ \/ srv' = [pc |-> "advance", env |-> e, r |-> n, o |-> o, from |-> from, bytes |-> {}]
         \/ Result(e, -E_NO_DISK, NoPage)
      /\ UNCHANGED <<opentab, fdpage, read>>
  BY <1>2, <1>3, <1>4, Zenon DEF serve_write
<1>6. files' \in [Path -> 0 .. MaxSize \cup {None}]
  <2>1. files[f] \in 0 .. MaxSize \cup {None} /\ from + n \in 0 .. MaxSize
    BY <1>3, <1>4, <1>5, OpenAssumption DEF OpenInv, Typed
  <2> QED  BY <1>5, <2>1 DEF OpenInv, Typed
<1>7. CASE Result(e, -E_NO_DISK, NoPage)
  <2>1. -E_NO_DISK \in Int /\ -E_NO_DISK # -E_INVAL
    BY SMTT(30) DEF E_NO_DISK, E_INVAL
  <2> QED  BY <1>2, <1>5, <1>6, <1>7, <2>1, ResultStep
<1>8. CASE srv' = [pc |-> "advance", env |-> e, r |-> n, o |-> o, from |-> from, bytes |-> {}]
  <2>1. PICK none \in SUBSET Nat : none = {}
    BY Zenon
  <2>2. srv' = [pc |-> "advance", env |-> e, r |-> n, o |-> o, from |-> from, bytes |-> none]
    BY <1>8, <2>1, Zenon
  <2> QED  BY <1>2, <1>4, <1>5, <1>6, <2>2, TransferStep, ZenonT(40)
<1> QED
  BY <1>5, <1>7, <1>8, Zenon

\* The requests that only change a size, if anything.
LEMMA ServeOtherStep ==
  ASSUME OpenInv, NEW e \in Env, UNCHANGED <<fds, call, fsipcbuf>>,
         serve_set_size(e) \/ serve_stat(e) \/ serve_flush(e) \/ serve_sync(e)
  PROVE  OpenInv'
<1>1. 0 \in Int /\ 0 # -E_INVAL
  BY DEF E_INVAL
<1>2. UNCHANGED files => files' \in [Path -> 0 .. MaxSize \cup {None}]
  BY DEF OpenInv, Typed
<1>3. CASE serve_set_size(e)
  <2>1. Handler(e, "set_size") /\ call[e].op = "set_size"
    BY <1>3 DEF serve_set_size, Handler
  <2>2. srv.pc = "recv" /\ Waiting(e) /\ ~Bad(e) /\ Target(e) \in Entry /\ Whole(Target(e))
    BY <2>1, HandlerFinds, Zenon DEF FileOp
  <2>3. PICK f \in Path : f = opentab[Target(e)].o_file
    BY <2>2 DEF Whole
  <2>4. call[e].n = 0
    BY <2>1, CallShape, Zenon DEF OpenInv, Typed
  <2>5. /\ files' = [files EXCEPT ![f] = 0] /\ Result(e, 0, NoPage)
        /\ UNCHANGED <<opentab, fdpage, read>>
    BY <1>3, <2>2, <2>3, <2>4, Zenon DEF serve_set_size
  <2>6. files' \in [Path -> 0 .. MaxSize \cup {None}]
    BY <2>5, FilesType DEF OpenInv
  <2> QED  BY <1>1, <2>2, <2>5, <2>6, ResultStep
<1>4. CASE serve_stat(e)
  <2>1. srv.pc = "recv" /\ Waiting(e) /\ ~Bad(e)
    BY <1>4, HandlerFinds DEF serve_stat, FileOp
  <2>2. Result(e, 0, NoPage) /\ UNCHANGED <<opentab, fdpage, files, read>>
    BY <1>4, <2>1 DEF serve_stat
  <2> QED  BY <1>1, <1>2, <2>1, <2>2, ResultStep
<1>5. CASE serve_flush(e)
  <2>1. srv.pc = "recv" /\ Waiting(e) /\ ~Bad(e)
    BY <1>5, HandlerFinds DEF serve_flush, FileOp
  <2>2. Result(e, 0, NoPage) /\ UNCHANGED <<opentab, fdpage, files, read>>
    BY <1>5, <2>1 DEF serve_flush
  <2> QED  BY <1>1, <1>2, <2>1, <2>2, ResultStep
<1>6. CASE serve_sync(e)
  <2>1. srv.pc = "recv" /\ Waiting(e)
    BY <1>6 DEF serve_sync, Handler, NoRequest, Waiting
  <2>2. Result(e, 0, NoPage) /\ UNCHANGED <<opentab, fdpage, files, read>>
    BY <1>6, Zenon DEF serve_sync
  <2> QED  BY <1>1, <1>2, <2>1, <2>2, ResultStep
<1> QED
  BY <1>3, <1>4, <1>5, <1>6

\* An open takes an entry that nobody maps, whether it succeeds or fails.
LEMMA EntryStep ==
  ASSUME OpenInv, NEW e \in Env, Waiting(e), srv.pc = "recv",
         UNCHANGED <<fds, call, fsipcbuf>>,
         NEW o \in Entry, \A d \in Env, fd \in FD : fds[d][fd] # o,
         Typed', srv'.pc = "send", srv'.env = e, srv'.r # -E_INVAL,
         srv'.page = NoPage \/ (srv'.page = o /\ Whole(o)'),
         \A x \in Entry : x # o => /\ opentab'[x] = opentab[x] /\ fdpage'[x] = fdpage[x]
                                   /\ read'[x] = read[x],
         read'[o] = {}
  PROVE  OpenInv'
<1>1. HeldWhole'
  <2>1. \A d \in Env, fd \in FD : Mapped(d, fd) => fds[d][fd] \in Entry /\ fds[d][fd] # o
    BY SMTT(30) DEF OpenInv, Typed, Mapped
  <2> QED  BY <2>1, SMTT(30) DEF OpenInv, HeldWhole, Mapped, Whole
<1>2. AskerHolds'
  <2>1. \A d \in Env, fd \in FD : Mapped(d, fd) => opentab'[fds[d][fd]] = opentab[fds[d][fd]]
    BY DEF OpenInv, Typed, Mapped
  <2> QED  BY <2>1, SMTT(30) DEF OpenInv, AskerHolds, Mapped
<1>3. ServesWaiting'
  BY Zenon DEF ServesWaiting, Waiting, NoPage
<1>4. ReadBelow'
  BY DEF OpenInv, ReadBelow
<1> QED
  BY <1>1, <1>2, <1>3, <1>4, Zenon DEF OpenInv

LEMMA OpenedSize ==
  ASSUME NEW path, NEW mode, files[path] \in 0 .. MaxSize \cup {None}, Opened(path, mode) # None
  PROVE  Opened(path, mode) \in 0 .. MaxSize
  BY OpenAssumption DEF Opened

LEMMA ServeOpenStep ==
  ASSUME OpenInv, NEW e \in Env, serve_open(e), UNCHANGED <<fds, call, fsipcbuf>>
  PROVE  OpenInv'
<1>1. call[e].op = "open" /\ srv.pc = "recv" /\ Waiting(e)
  BY DEF serve_open, NoRequest, Waiting
<1>2. PICK c \in CallType : c = call[e]
  BY DEF OpenInv, Typed
<1>3. c.path \in Path /\ c.mode \in Mode /\ c.mode.access \in {"RDONLY", "WRONLY", "RDWR"}
  BY <1>1, <1>2, CallShape, OpenAssumption, Zenon DEF Modes
<1>4. CASE openfile_alloc = None
  <2>1. Result(e, -E_MAX_OPEN, NoPage) /\ UNCHANGED <<opentab, fdpage, files, read>>
    BY <1>4 DEF serve_open
  <2>2. -E_MAX_OPEN \in Int /\ -E_MAX_OPEN # -E_INVAL
    BY DEF E_MAX_OPEN, E_INVAL
  <2>3. files' \in [Path -> 0 .. MaxSize \cup {None}]
    BY <2>1 DEF OpenInv, Typed
  <2> QED  BY <1>1, <2>1, <2>2, <2>3, ResultStep
<1>5. CASE openfile_alloc # None
  <2>1. PICK o \in Entry : o = openfile_alloc /\ \A d \in Env, fd \in FD : fds[d][fd] # o
    BY <1>5, AllocUnheld DEF OpenInv
  <2>2. PICK id \in Nat : id = NextId(o) /\ id % MAXOPEN = o
    <3>1. opentab[o].o_fileid \in Nat /\ opentab[o].o_fileid % MAXOPEN = o
      BY DEF OpenInv, Typed
    <3>2. (opentab[o].o_fileid + MAXOPEN) % MAXOPEN = opentab[o].o_fileid % MAXOPEN
      BY <3>1, NextIdMod
    <3>3. NextId(o) = opentab[o].o_fileid + MAXOPEN /\ NextId(o) \in Nat
      BY <3>1, OpenAssumption DEF NextId
    <3> QED  BY <3>1, <3>2, <3>3
  <2>3. read' = [read EXCEPT ![o] = {}]
    BY <1>5, <2>1 DEF serve_open
  <2>4. /\ read' \in [Entry -> SUBSET (0 .. MaxSize - 1)] /\ read'[o] = {}
        /\ \A x \in Entry : x # o => read'[x] = read[x]
    BY <2>3, Zenon DEF OpenInv, Typed
  <2>5. CASE Opened(c.path, c.mode) = None
    <3>1. PICK p : p = [id |-> 0, offset |-> 0, omode |-> "RDONLY"]
      BY Zenon
    <3>2. PICK r : r = IF files[c.path] = None THEN -E_NOT_FOUND ELSE -E_FILE_EXISTS
      OBVIOUS
    <3>3. /\ opentab' = [opentab EXCEPT ![o].o_fileid = id, ![o].page = TRUE]
          /\ fdpage' = [fdpage EXCEPT ![o] = p] /\ Result(e, r, NoPage) /\ UNCHANGED files
      BY <1>2, <1>5, <2>1, <2>2, <2>5, <3>1, <3>2 DEF serve_open
    <3>4. /\ opentab' \in [Entry -> [o_fileid : Nat, o_file : Path \cup {None}, page : BOOLEAN]]
          /\ opentab'[o].o_fileid = id /\ \A x \in Entry : x # o => opentab'[x] = opentab[x]
      BY <3>3, ZenonT(30) DEF OpenInv, Typed
    <3>5. /\ fdpage' \in [Entry -> [id : Nat, offset : Nat, omode : {"RDONLY", "WRONLY", "RDWR"}]]
          /\ \A x \in Entry : x # o => fdpage'[x] = fdpage[x]
      BY <3>1, <3>3 DEF OpenInv, Typed
    <3>6. r \in Int /\ r # -E_INVAL
      BY <3>2 DEF E_NOT_FOUND, E_FILE_EXISTS, E_INVAL
    <3>7. /\ srv' \in SrvType /\ srv'.pc = "send" /\ srv'.env = e /\ srv'.r # -E_INVAL
          /\ srv'.page = NoPage
      BY <3>3, <3>6, ResultShape DEF NoPage
    <3>8. Typed'
      BY <2>2, <2>4, <3>3, <3>4, <3>5, <3>7, SMTT(30) DEF OpenInv, Typed
    <3> QED  BY <1>1, <2>1, <2>4, <3>4, <3>5, <3>7, <3>8, EntryStep
  <2>6. CASE Opened(c.path, c.mode) # None
    <3>1. PICK t : t = [o_fileid |-> id, o_file |-> c.path, page |-> TRUE]
      BY Zenon
    <3>2. PICK p : p = [id |-> id, offset |-> 0, omode |-> c.mode.access]
      BY ZenonT(40)
    <3>3. PICK n : n = Opened(c.path, c.mode)
      OBVIOUS
    <3>4. /\ opentab' = [opentab EXCEPT ![o] = t] /\ fdpage' = [fdpage EXCEPT ![o] = p]
          /\ files' = [files EXCEPT ![c.path] = n] /\ Result(e, 0, o)
      BY <1>2, <1>5, <2>1, <2>2, <2>6, <3>1, <3>2, <3>3, Zenon DEF serve_open
    <3>5. n \in 0 .. MaxSize
      <4>1. files[c.path] \in 0 .. MaxSize \cup {None}
        BY <1>3, Zenon DEF OpenInv, Typed
      <4> QED  BY <2>6, <3>3, <4>1, OpenedSize, Zenon
    <3>6. files' \in [Path -> 0 .. MaxSize \cup {None}]
      BY <3>4, <3>5, <1>3, Zenon DEF OpenInv, Typed
    <3>7. /\ t \in [o_fileid : Nat, o_file : Path \cup {None}, page : BOOLEAN]
          /\ t.o_fileid = id /\ t.page /\ t.o_file \in Path
      BY <1>3, <3>1, Zenon
    <3>8. p \in [id : Nat, offset : Nat, omode : {"RDONLY", "WRONLY", "RDWR"}] /\ p.id = id
      BY <1>3, <3>2, Zenon
    <3>9. /\ opentab' \in [Entry -> [o_fileid : Nat, o_file : Path \cup {None}, page : BOOLEAN]]
          /\ fdpage' \in [Entry -> [id : Nat, offset : Nat, omode : {"RDONLY", "WRONLY", "RDWR"}]]
          /\ opentab'[o] = t /\ fdpage'[o] = p
          /\ \A x \in Entry : x # o => opentab'[x] = opentab[x] /\ fdpage'[x] = fdpage[x]
      BY <3>4, <3>7, <3>8, SMTT(30) DEF OpenInv, Typed
    <3>10. /\ srv' \in SrvType /\ srv'.pc = "send" /\ srv'.env = e /\ srv'.r # -E_INVAL
           /\ srv'.page = o
      <4>1. 0 \in Int /\ 0 # -E_INVAL
        BY DEF E_INVAL
      <4> QED  BY <3>4, <4>1, ResultShape
    <3>11. Typed'
      BY <2>2, <2>4, <3>6, <3>7, <3>9, <3>10, Zenon DEF OpenInv, Typed
    <3>12. Whole(o)'
      BY <3>7, <3>8, <3>9, Zenon DEF Whole
    <3> QED  BY <1>1, <2>1, <2>4, <3>9, <3>10, <3>11, <3>12, EntryStep
  <2> QED  BY <2>5, <2>6
<1> QED
  BY <1>4, <1>5

LEMMA OpenStep == OpenInv /\ [Next]_vars => OpenInv'
<1> SUFFICES ASSUME OpenInv, [Next]_vars PROVE OpenInv'
  BY Zenon
<1>1. CASE UNCHANGED vars
  <2>1. UNCHANGED <<opentab, fdpage, fds, files>> /\ UNCHANGED <<call, fsipcbuf, srv, read>>
    BY <1>1, Zenon DEF vars
  <2>2. Typed' /\ ReadBelow'
    BY <2>1, Zenon DEF OpenInv, Typed, ReadBelow
  <2>3. HeldWhole' /\ AskerHolds'
    BY <2>1, Zenon DEF OpenInv, HeldWhole, AskerHolds, Mapped, Whole
  <2>4. ServesWaiting'
    BY <2>1, Zenon DEF OpenInv, ServesWaiting, Waiting, Whole
  <2> QED  BY <2>2, <2>3, <2>4, Zenon DEF OpenInv
<1>2. ASSUME NEW e \in Env, Program(e) PROVE OpenInv'
  BY <1>2, ProgramAsks, SyncStep, SeekStep, DupOnFreeStep, ForkStep, DieStep DEF Program
<1>3. CASE Server
  BY <1>3, ServeOpenStep, ServeReadStep, ServeWriteStep, ServeOtherStep, AdvanceStep, ReplyStep DEF Server
<1> QED
  BY <1>1, <1>2, <1>3 DEF Next

\* The programs leave opentab and the server's state to the server.
LEMMA ProgramKeeps ==
  ASSUME NEW e \in Env, Program(e)
  PROVE  UNCHANGED <<opentab, srv>>
<1>1. ASSUME NEW c, Ask(e, c) PROVE UNCHANGED <<opentab, srv>>
  BY <1>1, Zenon DEF Ask
<1>2. ASSUME NEW fd \in FD, NEW n, Read(e, fd, n) \/ Write(e, fd, n) \/ Truncate(e, fd, n)
      PROVE  UNCHANGED <<opentab, srv>>
  BY <1>1, <1>2, Zenon DEF Read, Write, Truncate
<1>3. ASSUME NEW fd \in FD, NEW old \in FD, Close(e, fd) \/ Stat(e, fd) \/ DupOverOpen(e, old, fd)
      PROVE  UNCHANGED <<opentab, srv>>
  BY <1>1, <1>3, Zenon DEF Close, Stat, DupOverOpen
<1>4. ASSUME NEW path, NEW mode, Open(e, path, mode) PROVE UNCHANGED <<opentab, srv>>
  BY <1>1, <1>4, Zenon DEF Open
<1>5. ASSUME NEW fd \in FD, NEW old \in FD, Seek(e, fd, 0) \/ DupOnFree(e, old, fd) PROVE UNCHANGED <<opentab, srv>>
  BY <1>5, Zenon DEF Seek, DupOnFree
<1>6. ASSUME NEW c \in Env, Sync(e) \/ Fork(e, c) \/ Die(e) PROVE UNCHANGED <<opentab, srv>>
  BY <1>6, Zenon DEF Sync, Fork, Die
<1> QED
  BY <1>2, <1>3, <1>4, <1>5, <1>6, Zenon DEF Program

-----------------------------------------------------------------------------
\* The invariant of open files holds in every reachable state: every mapped Fd
\* page belongs to an open entry and carries its id, and what was read lies
\* below the offset.
THEOREM OpenInvariance == Spec => []OpenInv
<1> QED
  BY InitOpen, OpenStep, PTL DEF Spec

\* A program that holds a descriptor is never told that it is not one
\* (openfile_lookup), however many programs open, close, dup, fork and die while
\* its request travels.
THEOREM HeldIsFound == Spec => []LookupSucceeds
<1>1. OpenInv => LookupSucceeds
  <2> SUFFICES ASSUME OpenInv PROVE LookupSucceeds
    OBVIOUS
  <2>1. fds \in [Env -> [FD -> {o \in Entry : opentab[o].page} \cup {None}]]
    BY SMTT(30) DEF OpenInv, Typed, HeldWhole, Mapped, Whole
  <2>2. TypeOK
    BY <2>1 DEF TypeOK, OpenInv, Typed
  <2> QED  BY <2>2 DEF LookupSucceeds, OpenInv, ServesWaiting
<1> QED
  BY <1>1, OpenInvariance, PTL

\* An entry of opentab that some program maps keeps its file and its id:
\* openfile_alloc takes only entries whose page nobody but the server maps.
THEOREM DescriptorsKeepFiles == Spec => DescriptorKeepsFile
<1> DEFINE Keeps == \A e \in Env, fd \in FD :
             Mapped(e, fd) /\ fds'[e][fd] = fds[e][fd] =>
               LET o == fds[e][fd]
               IN opentab'[o] = opentab[o] /\ fdpage'[o].id = opentab[o].o_fileid
<1>1. OpenInv /\ OpenInv' /\ [Next]_vars => [Keeps]_vars
  <2> SUFFICES ASSUME OpenInv, OpenInv', Next, NEW e \in Env, NEW fd \in FD,
                      Mapped(e, fd), fds'[e][fd] = fds[e][fd]
               PROVE  /\ opentab'[fds[e][fd]] = opentab[fds[e][fd]]
                      /\ fdpage'[fds[e][fd]].id = opentab[fds[e][fd]].o_fileid
    BY Zenon DEF vars
  <2>1. PICK o \in Entry : o = fds[e][fd]
    BY DEF OpenInv, Typed, Mapped
  <2>2. opentab'[o] = opentab[o]
    <3>1. CASE UNCHANGED opentab
      BY <3>1
    <3>2. ASSUME NEW d \in Env, serve_open(d) PROVE opentab'[o] = opentab[o]
      <4>1. CASE openfile_alloc = None
        BY <3>2, <4>1 DEF serve_open
      <4>2. CASE openfile_alloc # None
        <5>1. PICK x \in Entry : x = openfile_alloc /\ x # o
          BY <2>1, <4>2, AllocUnheld DEF OpenInv
        <5>2. \/ \E id : opentab' = [opentab EXCEPT ![x].o_fileid = id, ![x].page = TRUE]
              \/ \E t : opentab' = [opentab EXCEPT ![x] = t]
          BY <3>2, <4>2, <5>1 DEF serve_open
        <5> QED  BY <5>1, <5>2, Zenon DEF OpenInv, Typed
      <4> QED  BY <4>1, <4>2
    <3>3. UNCHANGED opentab \/ \E d \in Env : serve_open(d)
      <4>1. ASSUME NEW d \in Env,
                   \/ serve_read(d) \/ serve_write(d) \/ serve_set_size(d) \/ serve_stat(d)
                   \/ serve_flush(d) \/ serve_sync(d)
            PROVE  UNCHANGED opentab
        BY <4>1, Zenon DEF serve_read, serve_write, serve_set_size, serve_stat, serve_flush, serve_sync, Bad
      <4>2. Advance \/ Reply => UNCHANGED opentab
        BY Zenon DEF Advance, Reply
      <4>3. Server => UNCHANGED opentab \/ \E d \in Env : serve_open(d)
        BY <4>1, <4>2, Zenon DEF Server
      <4> QED  BY <4>3, ProgramKeeps DEF Next
    <3> QED  BY <3>1, <3>2, <3>3
  <2>3. Whole(o)'
    BY <2>1 DEF OpenInv, HeldWhole, Mapped, Whole
  <2> QED  BY <2>1, <2>2, <2>3, Zenon DEF Whole
<1> QED
  BY <1>1, OpenInvariance, PTL DEF Spec, DescriptorKeepsFile

\* Programs that share an open file never read a byte twice through it unless
\* one of them seeks: serve_read starts at fd_offset, and everything read so far
\* lies below it when the server takes a request.
THEOREM ReadsAdvance == Spec => NoByteReadTwice
<1> DEFINE Fresh == srv.pc = "recv" /\ srv'.pc = "advance" => read[srv'.o] \cap srv'.bytes = {}
<1>1. OpenInv /\ OpenInv' /\ [Next]_vars => [Fresh]_vars
  <2> SUFFICES ASSUME OpenInv, OpenInv', Next, srv.pc = "recv", srv'.pc = "advance"
               PROVE  read[srv'.o] \cap srv'.bytes = {}
    BY DEF vars
  <2>1. \E e \in Env : serve_read(e) \/ serve_write(e)
    <3>1. srv' # srv
      OBVIOUS
    <3>2. ~\E e \in Env : Program(e)
      BY <3>1, ProgramKeeps
    <3>3. ASSUME NEW e, NEW r, NEW pg PROVE ~Result(e, r, pg)
      BY DEF Result
    <3>4. ~Reply /\ ~Advance
      BY DEF Reply, Advance, NoRequest
    <3>5. ASSUME NEW e \in Env PROVE ~(serve_set_size(e) \/ serve_stat(e) \/ serve_flush(e) \/ serve_sync(e))
      BY <3>3 DEF serve_set_size, serve_stat, serve_flush, serve_sync, Bad
    <3>6. ASSUME NEW e \in Env PROVE ~serve_open(e)
      BY <3>3 DEF serve_open
    <3> QED  BY <3>2, <3>4, <3>5, <3>6 DEF Next, Server
  <2>2. PICK e \in Env, op \in {"read", "write"} : Handler(e, op) /\ (serve_read(e) \/ serve_write(e))
    BY <2>1, Zenon DEF serve_read, serve_write
  <2>3. ~Bad(e) /\ Target(e) \in Entry
    BY <2>2, HandlerFinds, SMTT(30) DEF FileOp
  <2>4. PICK o \in Entry, from \in Nat : o = Target(e) /\ from = fdpage[o].offset
    BY <2>3, Zenon DEF OpenInv, Typed
  <2>5. srv'.o = o /\ (srv'.bytes = {} \/ srv'.bytes = from .. from + srv'.r - 1)
    <3>1. CASE serve_read(e)
      <4>1. \/ \E r : srv' = [pc |-> "advance", env |-> e, r |-> r, o |-> o, from |-> from,
                              bytes |-> from .. from + r - 1]
            \/ \E r : Result(e, r, NoPage)
        BY <2>3, <2>4, <3>1, Zenon DEF serve_read
      <4> QED  BY <4>1 DEF Result
    <3>2. CASE serve_write(e)
      <4>1. \/ \E r : srv' = [pc |-> "advance", env |-> e, r |-> r, o |-> o, from |-> from, bytes |-> {}]
            \/ \E r : Result(e, r, NoPage)
        BY <2>3, <2>4, <3>2, Zenon DEF serve_write
      <4> QED  BY <4>1 DEF Result
    <3> QED  BY <2>2, <3>1, <3>2, Zenon
  <2>6. read[o] \subseteq 0 .. from - 1
    BY <2>4, ZenonT(40) DEF OpenInv, ReadBelow
  <2>7. srv'.r \in Nat
    BY Zenon DEF OpenInv, Typed, SrvType
  <2>8. PICK r \in Nat : r = srv'.r
    BY <2>7, Zenon
  <2>9. read[o] \cap (from .. from + r - 1) = {}
    BY <2>4, <2>6, <2>8, BelowDisjoint
  <2> QED  BY <2>5, <2>8, <2>9, Zenon
<1> QED
  BY <1>1, OpenInvariance, PTL DEF Spec, NoByteReadTwice
=============================================================================
