------------------------------ MODULE FileStore -----------------------------
(***************************************************************************)
(* What the file server promises of its files, with no blocks in it: a     *)
(* file is a size and its bytes up to the largest size possible.  Bytes    *)
(* beyond the size can be seen when the file is extended again; they are   *)
(* zero, but for the ones in the last block of a file that was cut inside  *)
(* that block, which the server keeps.                                     *)
(***************************************************************************)
EXTENDS Integers, Sequences

CONSTANTS Name, NoName, BLKSIZE, Cap, Buf, Count, Size, Offset

VARIABLES files,  \* name |-> [exists, size, data]
          req,    \* the write in progress, or NoWrite
          ret     \* the request that returned last, and the result

RoundUp(n) == ((n + BLKSIZE - 1) \div BLKSIZE) * BLKSIZE
Larger(x, y) == IF x > y THEN x ELSE y
Smaller(x, y) == IF x < y THEN x ELSE y

None == [op |-> "none", name |-> NoName, err |-> "ok", bytes |-> <<>>]
NoWrite == [name |-> NoName, buf |-> <<>>, offset |-> 0]
Failures == {"NO_DISK", "INVAL"}
Returns(op, name, err, bytes) ==
    ret' = [op |-> op, name |-> name, err |-> err, bytes |-> bytes]

Init == /\ files = [name \in Name |->
                      [exists |-> FALSE, size |-> 0, data |-> [pos \in 0 .. Cap - 1 |-> 0]]]
        /\ req = NoWrite /\ ret = None

\* A request other than a write is taken up.
Take == ret' = None /\ UNCHANGED <<files, req>>

Create(name) ==
    /\ ret = None /\ req = NoWrite /\ UNCHANGED <<req, ret>>
    /\ ~files[name].exists
    /\ files' = [files EXCEPT ![name].exists = TRUE]

Created(name, err) ==
    /\ Returns("create", name, err, <<>>)
    /\ files[name].exists <=> err \in {"ok", "FILE_EXISTS"}
    /\ UNCHANGED <<files, req>>

Opened(name, err) ==
    /\ Returns("open", name, err, <<>>)
    /\ err = "ok" <=> files[name].exists
    /\ UNCHANGED <<files, req>>

\* A write extends the file at once, and then stores its bytes piece by
\* piece; it fails between two pieces, or has stored them all.
Write(name, buf, offset) ==
    /\ req = NoWrite /\ req' = [name |-> name, buf |-> buf, offset |-> offset]
    /\ ret' = None
    /\ files[name].exists
    /\ files' = [files EXCEPT ![name].size = Larger(@, offset + Len(buf))]

Piece(lo) ==
    /\ req # NoWrite /\ UNCHANGED <<req, ret>>
    /\ files' = [files EXCEPT ![req.name].data =
                   [pos \in 0 .. Cap - 1 |->
                      IF pos \in Larger(lo, req.offset) .. Smaller(lo + BLKSIZE, req.offset + Len(req.buf)) - 1
                      THEN req.buf[pos - req.offset + 1] ELSE @[pos]]]

Wrote(err) ==
    /\ req # NoWrite
    /\ Returns("write", req.name, err, <<>>)
    /\ err = "ok" => /\ req.buf = <<>> \/ req.offset + Len(req.buf) <= Cap
                     /\ \A k \in 1 .. Len(req.buf) : files[req.name].data[req.offset + k - 1] = req.buf[k]
    /\ req' = NoWrite /\ UNCHANGED files

HasRead(name, count, offset) ==
    /\ ret'.op = "read" /\ ret'.name = name
    /\ files[name].exists
    /\ LET n == Larger(0, Smaller(offset + count, files[name].size) - offset)
       IN \/ /\ n = 0 \/ offset + n <= Cap
             /\ Returns("read", name, "ok", [k \in 1 .. n |-> files[name].data[offset + k - 1]])
          \/ n > 0 /\ \E err \in Failures : Returns("read", name, err, <<>>)
    /\ UNCHANGED <<files, req>>

SetSize(name, newsize) ==
    /\ Returns("set_size", name, "ok", <<>>)
    /\ UNCHANGED req /\ req = NoWrite
    /\ files[name].exists
    /\ files' = [files EXCEPT ![name] =
                   [@ EXCEPT !.size = newsize,
                             !.data = [pos \in 0 .. Cap - 1 |->
                                         IF newsize < files[name].size /\ pos >= RoundUp(newsize) THEN 0
                                         ELSE @[pos]]]]

Saved(name) == Returns("flush", name, "ok", <<>>) /\ UNCHANGED <<files, req>>
SavedAll == Returns("sync", NoName, "ok", <<>>) /\ UNCHANGED <<files, req>>

Next ==
    \/ Take \/ SavedAll
    \/ \E lo \in {p \in 0 .. Cap - 1 : p % BLKSIZE = 0} : Piece(lo)
    \/ \E err \in Failures \cup {"ok"} : Wrote(err)
    \/ \E name \in Name :
          \/ Create(name) \/ Saved(name)
          \/ \E err \in Failures \cup {"ok", "FILE_EXISTS"} : Created(name, err)
          \/ \E err \in Failures \cup {"ok", "NOT_FOUND"} : Opened(name, err)
          \/ \E buf \in Buf, offset \in Offset : Write(name, buf, offset)
          \/ \E count \in Count, offset \in Offset : HasRead(name, count, offset)
          \/ \E newsize \in Size : SetSize(name, newsize)

Spec == Init /\ [][Next]_<<files, req, ret>>
=============================================================================
