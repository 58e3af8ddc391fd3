------------------------------ MODULE FsBlocks ------------------------------
(***************************************************************************)
(* The file server's disk: the block cache of fs/bc.c and the file layer   *)
(* of fs/fs.c.  The server runs a request to its end before it takes the   *)
(* next, but power may go off between any two of the blocks it writes: a   *)
(* step writes at most one block, so that `disk' is at every moment what a *)
(* crash can leave.                                                        *)
(*                                                                         *)
(* Paths are names in the root directory: the server has no mkdir.         *)
(***************************************************************************)
EXTENDS Integers, Sequences, FiniteSets, FiniteSetsExt

CONSTANTS Name, NoName,  \* file names, and the empty f_name of an unused File
          Zeroed,        \* the contents of a block after memset(blk, 0, BLKSIZE)
          s_nblocks,     \* blocks of the disk
          BLKSIZE,       \* bytes in a block
          BLKFILES,      \* File structures in a directory block
          BLKBITSIZE,    \* bits in a bitmap block
          NDIRECT, NINDIRECT,
          Buf, Count,    \* the byte sequences programs write, the lengths they read
          Size, Offset,  \* the sizes and offsets they ask for
          MaxDir,        \* bound on the blocks of the root directory
          MaxRequests    \* bound on the requests served

\* fsformat makes no disk of more than 1024 blocks, so the bitmap fits one block.
\* Of a longer bitmap alloc_block would flush the first block only.
ASSUME DiskAssumption ==
    /\ s_nblocks \in Nat /\ BLKSIZE \in Nat \ {0} /\ BLKFILES \in Nat \ {0}
    /\ BLKBITSIZE \in Nat \ {0} /\ NDIRECT \in Nat /\ NINDIRECT \in Nat
    /\ NoName \notin Name /\ s_nblocks <= BLKBITSIZE

VARIABLES mem,    \* the blocks as the server sees them, through the cache
          dirty,  \* the blocks whose page has PTE_D
          disk,   \* the blocks on the disk
          req,    \* the request the server is in, and how far it is
          ret,    \* the request it last returned from, and the result
          served  \* the number of requests taken up

vars == <<mem, dirty, disk, req, ret, served>>

(***************************************************************************)
(* Layout.  Block 1 holds the superblock, and in it the root's File; the   *)
(* bitmap starts at block 2.                                               *)
(***************************************************************************)
Block == 1 .. s_nblocks - 1
BitmapBlock(b) == 2 + b \div BLKBITSIZE
Bitmap == {BitmapBlock(b) : b \in Block}
DataBlock == Block \ ({1} \cup Bitmap)
MAXBLOCKS == NDIRECT + NINDIRECT
Blocks(size) == (size + BLKSIZE - 1) \div BLKSIZE

NoFile == [name |-> NoName, size |-> 0, direct |-> [i \in 0 .. NDIRECT - 1 |-> 0], indirect |-> 0]

\* What a block means to the code that reads it as a directory, as an
\* indirect block, or as data.
DirOf(c) == IF c = Zeroed THEN [j \in 0 .. BLKFILES - 1 |-> NoFile] ELSE c
IndOf(c) == IF c = Zeroed THEN [i \in 0 .. NINDIRECT - 1 |-> 0] ELSE c
BytesOf(c) == IF c = Zeroed THEN [i \in 0 .. BLKSIZE - 1 |-> 0] ELSE c

\* A struct File * is the block it lies in and its index there.
Root == <<1, 0>>
Inode(m, f) == IF f = Root THEN m[1] ELSE DirOf(m[f[1]])[f[2]]

\* The pointer to the n-th block of f, 0 if it has none.
Slot(m, f, n) ==
    IF n < NDIRECT THEN Inode(m, f).direct[n]
    ELSE IF Inode(m, f).indirect = 0 \/ n >= MAXBLOCKS THEN 0
    ELSE IndOf(m[Inode(m, f).indirect])[n - NDIRECT]

\* The Files of the root directory that have a name.
Named(m) ==
    {f \in {Slot(m, Root, n) : n \in 0 .. Blocks(m[1].size) - 1} \X (0 .. BLKFILES - 1) :
       f[1] # 0 /\ Inode(m, f).name # NoName}

\* m after a store through the pointer f, or through the n-th slot of f.
SetInode(m, f, i) ==
    [m EXCEPT ![f[1]] = IF f = Root THEN i ELSE [DirOf(@) EXCEPT ![f[2]] = i]]
SetSlot(m, f, n, b) ==
    LET i == Inode(m, f)
    IN IF n < NDIRECT THEN SetInode(m, f, [i EXCEPT !.direct[n] = b])
       ELSE [m EXCEPT ![i.indirect] = [IndOf(@) EXCEPT ![n - NDIRECT] = b]]
SlotBlock(m, f, n) == IF n < NDIRECT THEN f[1] ELSE Inode(m, f).indirect

Free(m) == UNION {m[b] : b \in Bitmap}

(***************************************************************************)
(* The cache.  The hardware sets PTE_D when a block is stored to, and      *)
(* flush_block(b) writes b if it is dirty.                                 *)
(***************************************************************************)
\* The server stores m over mem, touching the blocks in `touched', and then
\* flushes b; 0 for no flush.
StoreAndFlush(m, touched, b) ==
    /\ mem' = m
    /\ dirty' = (dirty \cup touched) \ {b}
    /\ disk' = IF b \in dirty \cup touched THEN [disk EXCEPT ![b] = m[b]] ELSE disk

flush_block(b) == StoreAndFlush(mem, {}, b)

(***************************************************************************)
(* The request in progress.  n runs over the blocks lo .. hi of file f.    *)
(***************************************************************************)
None == [op |-> "none", name |-> NoName, err |-> "ok", bytes |-> <<>>]

Begin(op, name, f, lo, hi, buf, offset) ==
    /\ req.op = "none"
    /\ req' = [op |-> op, name |-> name, f |-> f, n |-> lo, hi |-> hi, buf |-> buf, offset |-> offset,
               pc |-> IF op \in {"flush", "sync"} THEN op ELSE "get", got |-> 0]
    /\ ret' = None

Return(err, bytes) ==
    /\ req' = None
    /\ ret' = [op |-> IF req.op = "create_slot" THEN "create" ELSE req.op, name |-> req.name, err |-> err, bytes |-> bytes]
    /\ UNCHANGED <<mem, dirty, disk>>

At(pc) == req.op # "none" /\ req.pc = pc
Go(pc) == req' = [req EXCEPT !.pc = pc] /\ UNCHANGED ret
NextBlock == req' = [req EXCEPT !.n = @ + 1] /\ UNCHANGED ret

(***************************************************************************)
(* file_get_block(f, n), from which every loop over a file starts: the     *)
(* indirect block and then the block itself are allocated and cleared if   *)
(* the file has none.                                                      *)
(***************************************************************************)
NeedsIndirect == req.n >= NDIRECT /\ Inode(mem, req.f).indirect = 0
HasBlock == /\ At("get") /\ req.n <= req.hi /\ req.n < MAXBLOCKS
            /\ Slot(mem, req.f, req.n) # 0
TheBlock == Slot(mem, req.f, req.n)

BlockOutOfRange ==
    /\ At("get") /\ req.n <= req.hi /\ req.n >= MAXBLOCKS
    /\ Return("INVAL", <<>>)

NoDisk ==
    /\ At("get") /\ req.n <= req.hi /\ req.n < MAXBLOCKS /\ ~HasBlock
    /\ Free(mem) = {}
    /\ Return("NO_DISK", <<>>)

AllocUnflushed(i) == StoreAndFlush([mem EXCEPT ![BitmapBlock(i)] = @ \ {i}], {BitmapBlock(i)}, 0)

\* The first free block is taken, and `bitmap', the first bitmap block, is
\* flushed.
Alloc(i) == StoreAndFlush([mem EXCEPT ![BitmapBlock(i)] = @ \ {i}], {BitmapBlock(i)}, 2)

alloc_block ==
    /\ At("get") /\ req.n <= req.hi /\ req.n < MAXBLOCKS /\ ~HasBlock
    /\ Free(mem) # {}
    /\ Alloc(Min(Free(mem)))
    /\ req' = [req EXCEPT !.pc = "link", !.got = Min(Free(mem))]
    /\ UNCHANGED ret

LinkUncleared ==
    LET b == req.got
        m == IF NeedsIndirect THEN SetInode(mem, req.f, [Inode(mem, req.f) EXCEPT !.indirect = b])
             ELSE SetSlot(mem, req.f, req.n, b)
    IN StoreAndFlush(m, {IF NeedsIndirect THEN req.f[1] ELSE SlotBlock(mem, req.f, req.n)}, b)

\* The pointer is stored, the block cleared and flushed.
Link ==
    LET b == req.got
        m == IF NeedsIndirect THEN SetInode(mem, req.f, [Inode(mem, req.f) EXCEPT !.indirect = b])
             ELSE SetSlot(mem, req.f, req.n, b)
    IN StoreAndFlush([m EXCEPT ![b] = Zeroed],
                     {b, IF NeedsIndirect THEN req.f[1] ELSE SlotBlock(mem, req.f, req.n)}, b)

link_block == At("link") /\ Link /\ Go("get")

(***************************************************************************)
(* file_write: the size first, flushed, then the bytes block by block.     *)
(***************************************************************************)
Resized(m, f, newsize) == SetInode(m, f, [Inode(m, f) EXCEPT !.size = newsize])

Write(f, buf, offset) ==
    LET end == offset + Len(buf)
    IN /\ Begin("write", Inode(mem, f).name, f, offset \div BLKSIZE,
                IF buf = <<>> THEN -1 ELSE Blocks(end) - 1, buf, offset)
       /\ IF end > Inode(mem, f).size THEN StoreAndFlush(Resized(mem, f, end), {f[1]}, f[1])
          ELSE UNCHANGED <<mem, dirty, disk>>

\* Block c of the file with the bytes of the request that fall into it.
Copied(c) ==
    [k \in 0 .. BLKSIZE - 1 |->
       LET pos == req.n * BLKSIZE + k - req.offset
       IN IF pos \in 0 .. Len(req.buf) - 1 THEN req.buf[pos + 1] ELSE BytesOf(c)[k]]

write_block ==
    /\ req.op = "write" /\ HasBlock
    /\ StoreAndFlush([mem EXCEPT ![TheBlock] = Copied(@)], {TheBlock}, 0)
    /\ NextBlock

write_done == req.op = "write" /\ At("get") /\ req.n > req.hi /\ Return("ok", <<>>)

(***************************************************************************)
(* file_read: up to the end of the file; buf holds the count.              *)
(***************************************************************************)
Read(f, count, offset) ==
    LET size == Inode(mem, f).size
        end == Min({offset + count, size})
    IN /\ Begin("read", Inode(mem, f).name, f, offset \div BLKSIZE,
                IF offset >= size \/ count = 0 THEN -1 ELSE Blocks(end) - 1,
                IF offset >= size THEN 0 ELSE end - offset, offset)
       /\ UNCHANGED <<mem, dirty, disk>>

read_block == req.op = "read" /\ HasBlock /\ NextBlock /\ UNCHANGED <<mem, dirty, disk>>

ByteAt(m, f, pos) ==
    IF Slot(m, f, pos \div BLKSIZE) = 0 THEN 0
    ELSE BytesOf(m[Slot(m, f, pos \div BLKSIZE)])[pos % BLKSIZE]

read_done ==
    /\ req.op = "read" /\ At("get") /\ req.n > req.hi
    /\ Return("ok", [k \in 1 .. req.buf |-> ByteAt(mem, req.f, req.offset + k - 1)])

(***************************************************************************)
(* file_set_size and file_truncate_blocks: no disk write but the File's    *)
(* block, at the end.                                                      *)
(***************************************************************************)
\* The blocks of f that a file of newsize bytes does not need.
Gone(m, f, newsize) ==
    {n \in Blocks(newsize) .. Blocks(Inode(m, f).size) - 1 : Slot(m, f, n) # 0}
DropsIndirect(m, f, newsize) == Blocks(newsize) <= NDIRECT /\ Inode(m, f).indirect # 0
Freed(m, f, newsize) ==
    {Slot(m, f, n) : n \in Gone(m, f, newsize)}
      \cup (IF DropsIndirect(m, f, newsize) THEN {Inode(m, f).indirect} ELSE {})

TruncatedKeepingIndirect(m, f, newsize) ==
    LET i == Inode(m, f)
        gone == Gone(m, f, newsize)
        freed == {Slot(m, f, n) : n \in gone}
        cut == [b \in Block |->
                  IF b \in Bitmap THEN m[b] \cup {d \in freed : BitmapBlock(d) = b}
                  ELSE IF b = i.indirect /\ \E n \in gone : n >= NDIRECT
                  THEN [n \in 0 .. NINDIRECT - 1 |-> IF n + NDIRECT \in gone THEN 0 ELSE IndOf(m[b])[n]]
                  ELSE m[b]]
    IN SetInode(cut, f, [i EXCEPT !.direct = [n \in DOMAIN @ |-> IF n \in gone THEN 0 ELSE @[n]],
                                  !.indirect = IF DropsIndirect(m, f, newsize) THEN 0 ELSE @])

Truncated(m, f, newsize) ==
    LET i == Inode(m, f)
        gone == Gone(m, f, newsize)
        freed == Freed(m, f, newsize)
        cut == [b \in Block |->
                  IF b \in Bitmap THEN m[b] \cup {d \in freed : BitmapBlock(d) = b}
                  ELSE IF b = i.indirect /\ \E n \in gone : n >= NDIRECT
                  THEN [n \in 0 .. NINDIRECT - 1 |-> IF n + NDIRECT \in gone THEN 0 ELSE IndOf(m[b])[n]]
                  ELSE m[b]]
    IN SetInode(cut, f, [i EXCEPT !.direct = [n \in DOMAIN @ |-> IF n \in gone THEN 0 ELSE @[n]],
                                  !.indirect = IF DropsIndirect(m, f, newsize) THEN 0 ELSE @])

\* The blocks file_truncate_blocks stores to, besides the File's.
Cut(m, f, newsize) ==
    {BitmapBlock(b) : b \in Freed(m, f, newsize)}
      \cup (IF Gone(m, f, newsize) \ (0 .. NDIRECT - 1) = {} THEN {} ELSE {Inode(m, f).indirect})

SetSize(f, newsize) ==
    /\ req.op = "none"
    /\ IF Inode(mem, f).size > newsize
       THEN StoreAndFlush(Resized(Truncated(mem, f, newsize), f, newsize),
                          Cut(mem, f, newsize) \cup {f[1]}, f[1])
       ELSE StoreAndFlush(Resized(mem, f, newsize), {f[1]}, f[1])
    /\ ret' = [None EXCEPT !.op = "set_size", !.name = Inode(mem, f).name]
    /\ UNCHANGED req

(***************************************************************************)
(* file_open and file_create.  dir_lookup reads the directory block by     *)
(* block; dir_alloc_file reads it again for an unused File, and else adds  *)
(* a block to it: its size grows first, and stays if the block cannot be   *)
(* had.                                                                    *)
(***************************************************************************)
Scan(op, name) ==
    /\ Begin(op, name, Root, 0, Blocks(mem[1].size) - 1, <<>>, 0)
    /\ UNCHANGED <<mem, dirty, disk>>

Open(name) == Scan("open", name)
Create(name) == Blocks(mem[1].size) <= MaxDir /\ Scan("create", name)

Matches(name) == {j \in 0 .. BLKFILES - 1 : DirOf(mem[TheBlock])[j].name = name}

lookup_hit ==
    /\ req.op \in {"open", "create"} /\ HasBlock
    /\ Matches(req.name) # {}
    /\ Return(IF req.op = "open" THEN "ok" ELSE "FILE_EXISTS", <<>>)

lookup_miss ==
    /\ req.op \in {"open", "create"} /\ HasBlock
    /\ Matches(req.name) = {}
    /\ NextBlock /\ UNCHANGED <<mem, dirty, disk>>

lookup_fails ==
    /\ req.op \in {"open", "create"} /\ At("get") /\ req.n > req.hi
    /\ IF req.op = "open" THEN Return("NOT_FOUND", <<>>)
       ELSE /\ req' = [req EXCEPT !.op = "create_slot", !.n = 0]
            /\ UNCHANGED <<mem, dirty, disk, ret>>

next_dir_block ==
    /\ req.op = "create_slot" /\ HasBlock
    /\ Matches(NoName) = {}
    /\ NextBlock /\ UNCHANGED <<mem, dirty, disk>>

grow_dir ==
    /\ req.op = "create_slot" /\ At("get") /\ req.n > req.hi
    /\ StoreAndFlush(Resized(mem, Root, mem[1].size + BLKSIZE), {1}, 0)
    /\ req' = [req EXCEPT !.hi = @ + 1]
    /\ UNCHANGED ret

\* The File is named, and the directory flushed.
name_file ==
    /\ req.op = "create_slot" /\ HasBlock
    /\ Matches(NoName) # {}
    /\ LET f == <<TheBlock, Min(Matches(NoName))>>
       IN StoreAndFlush(SetInode(mem, f, [Inode(mem, f) EXCEPT !.name = req.name]), {f[1]}, 0)
    /\ req' = [req EXCEPT !.pc = "flush", !.n = 0]
    /\ UNCHANGED ret

(***************************************************************************)
(* file_flush: the data blocks, then the block the File is in, then the    *)
(* indirect block.  fs_sync: every block.                                  *)
(***************************************************************************)
Flush(f) ==
    /\ Begin("flush", Inode(mem, f).name, f, 0, Blocks(Inode(mem, f).size) - 1, <<>>, 0)
    /\ UNCHANGED <<mem, dirty, disk>>

flush_data ==
    /\ At("flush") /\ req.n <= req.hi
    /\ flush_block(Slot(mem, req.f, req.n))
    /\ NextBlock

flush_file == At("flush") /\ req.n > req.hi /\ flush_block(req.f[1]) /\ Go("flush_indirect")

flush_indirect_forgotten ==
    /\ At("flush_indirect")
    /\ UNCHANGED <<mem, dirty, disk>>
    /\ Go("flushed")

flush_indirect ==
    /\ At("flush_indirect")
    /\ flush_block(Inode(mem, req.f).indirect)
    /\ Go("flushed")

flush_done == At("flushed") /\ Return("ok", <<>>)

Sync == Begin("sync", NoName, Root, 1, s_nblocks - 1, <<>>, 0) /\ UNCHANGED <<mem, dirty, disk>>
sync_block == At("sync") /\ req.n <= req.hi /\ flush_block(req.n) /\ NextBlock
sync_done == At("sync") /\ req.n > req.hi /\ Return("ok", <<>>)

(***************************************************************************)
(* The server.  fsformat leaves an empty root directory.                   *)
(***************************************************************************)
Formatted == [b \in Block |-> IF b = 1 THEN NoFile
                              ELSE IF b \in Bitmap THEN {d \in DataBlock : BitmapBlock(d) = b}
                              ELSE Zeroed]

Init == /\ mem = Formatted /\ disk = Formatted /\ dirty = {}
        /\ req = None /\ ret = None /\ served = 0

Request ==
    \/ \E name \in Name : Open(name) \/ Create(name)
    \/ \E f \in Named(mem) :
          \/ \E buf \in Buf, offset \in Offset : Write(f, buf, offset)
          \/ \E count \in Count, offset \in Offset : Read(f, count, offset)
          \/ \E newsize \in Size : SetSize(f, newsize)
          \/ Flush(f)
    \/ Sync

Serve ==
    \/ BlockOutOfRange \/ NoDisk \/ alloc_block \/ link_block
    \/ write_block \/ write_done \/ read_block \/ read_done
    \/ lookup_hit \/ lookup_miss \/ lookup_fails
    \/ next_dir_block \/ grow_dir \/ name_file
    \/ flush_data \/ flush_file \/ flush_indirect \/ flush_done
    \/ sync_block \/ sync_done

\* The machine stops and boots again: the cache is read from the disk.
Crash == mem' = disk /\ dirty' = {} /\ req' = None /\ ret' = None /\ UNCHANGED <<disk, served>>

Next ==
    \/ Request /\ served < MaxRequests /\ served' = served + 1
    \/ Serve /\ UNCHANGED served

Spec == Init /\ [][Next]_vars
CrashSpec == Init /\ [][Next \/ Crash]_vars

(***************************************************************************)
(* Properties.                                                             *)
(***************************************************************************)
\* Every pointer of a file system image, with the place it is in.
InodePointers(m) ==
    {<<f, "direct", n, Inode(m, f).direct[n]>> : f \in Named(m) \cup {Root}, n \in 0 .. NDIRECT - 1}
      \cup {<<f, "indirect", 0, Inode(m, f).indirect>> : f \in Named(m) \cup {Root}}
IndirectPointers(m) ==
    {<<f, "entry", n, Slot(m, f, n)>> : f \in Named(m) \cup {Root}, n \in NDIRECT .. MAXBLOCKS - 1}

\* No pointer to a free block, and no two pointers to one block.
Sound(ps, free) ==
    LET used == {p \in ps : p[4] # 0}
    IN /\ \A p \in used : p[4] \notin free
       /\ Cardinality({p[4] : p \in used}) = Cardinality(used)

\* A block that is not dirty is on the disk as the server sees it, and every
\* pointer the server follows names a data block.
TypeOK ==
    /\ dirty \subseteq Block
    /\ \A p \in InodePointers(mem) \cup IndirectPointers(mem) : p[4] \in DataBlock \cup {0}
    /\ \A b \in Block \ dirty : mem[b] = disk[b]

\* Through any sequence of creations, writes, truncations and failures on a
\* full disk, no block belongs to two files, none in use is marked free, and
\* none is lost: what the bitmap calls used is exactly what files point to,
\* but for the block alloc_block has just handed out.  A block that is not
\* dirty is on the disk as it is in the cache (TypeOK).
BlocksAccounted ==
    LET ps == InodePointers(mem) \cup IndirectPointers(mem)
        held == IF At("link") THEN {req.got} ELSE {}
    IN /\ TypeOK
       /\ Sound(ps, Free(mem))
       /\ DataBlock \ Free(mem) = ({p[4] : p \in ps} \ {0}) \cup held

\* What the disk holds when power goes off: no two pointers on it claim one
\* block, and no block they claim is free in the disk's bitmap, whether a File or
\* an entry of an indirect block has the pointer.  alloc_block flushes the bitmap
\* before the pointer can be written, and file_set_size flushes the File's cleared
\* pointers before the bitmap that frees their blocks.  Excepted are the entries
\* file_truncate_blocks has cleared in an indirect block that stays, which the
\* disk still has (NoFreeBlockRead is about those).
CrashKeepsFilesApart ==
    Sound(InodePointers(disk) \cup (IndirectPointers(disk) \cap IndirectPointers(mem)), Free(disk))

\* No file on the disk leads the server, after a boot, to a block that the
\* disk's bitmap calls free: bc_pgfault panics ("reading free block") there.
\* The entries file_truncate_blocks clears in an indirect block it keeps are
\* not flushed with the File, so they come back.
NoFreeBlockRead ==
    \A f \in Named(disk) : \A n \in 0 .. Blocks(Inode(disk, f).size) - 1 :
        Slot(disk, f, n) \notin Free(disk)

Has(m, name) == \E f \in Named(m) : Inode(m, f).name = name
Contents(m, i) ==
    LET entries == IF i.indirect = 0 THEN IndOf(Zeroed) ELSE IndOf(m[i.indirect])
        blocks == [n \in 0 .. MAXBLOCKS - 1 |-> IF n < NDIRECT THEN i.direct[n] ELSE entries[n - NDIRECT]]
        bytes == [n \in 0 .. MAXBLOCKS - 1 |-> BytesOf(IF blocks[n] = 0 THEN Zeroed ELSE m[blocks[n]])]
    IN [pos \in 0 .. MAXBLOCKS * BLKSIZE - 1 |-> bytes[pos \div BLKSIZE][pos % BLKSIZE]]
View(m) ==
    LET inodes == {Inode(m, f) : f \in Named(m)}
        Of(name) == {i \in inodes : i.name = name}
    IN [name \in Name |->
          IF Of(name) = {} THEN [exists |-> FALSE, size |-> 0, data |-> Contents(m, NoFile)]
          ELSE LET i == CHOOSE j \in Of(name) : TRUE
               IN [exists |-> TRUE, size |-> i.size, data |-> Contents(m, i)]]

\* What FSREQ_FLUSH or FSREQ_SYNC has returned for can be read back whole
\* from the disk after a crash: the name, the size, and every byte, through
\* the directory, the File and its indirect block.  A file that has been
\* created is there too.
FlushedIsDurable ==
    /\ ret.op = "flush" => View(disk)[ret.name] = View(mem)[ret.name]
    /\ ret.op = "sync" => View(disk) = View(mem)
    /\ ret.op = "create" /\ ret.err = "ok" => Has(disk, ret.name)

Store == INSTANCE FileStore
    WITH files <- View(mem),
         req <- IF req.op = "write" THEN [name |-> req.name, buf |-> req.buf, offset |-> req.offset]
                ELSE [name |-> NoName, buf |-> <<>>, offset |-> 0],
         Cap <- MAXBLOCKS * BLKSIZE

\* The server implements files that are arrays of bytes: a write changes one
\* file only and only where it was told to, a read gives what was last
\* written and zeros where nothing was, and a full disk cuts a write short
\* at a block boundary.
ImplementsFiles == Store!Spec
=============================================================================
