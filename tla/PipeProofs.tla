----------------------------- MODULE PipeProofs -----------------------------
(***************************************************************************)
(* The safety properties of module Pipe for any environments, descriptors, *)
(* buffer size and number of bytes.  Fifo and SlotsWhole hold on any       *)
(* number of CPUs, NoFalseClosed on one.                                   *)
(***************************************************************************)
EXTENDS Pipe, FiniteSetTheorems, TLAPS

-----------------------------------------------------------------------------
\* The inductive invariant.

Checking == {"snap", "first", "second", "again", "eof"}

\* The place in a library call fits the call.
Control(p) ==
    LET t == task[p]
    IN  /\ t.pc = "idle" => t.op = "none"
        /\ t.pc \in {"loop", "copy", "inc"} => t.op \in {"read", "write"}
        /\ t.pc \in Checking => t.op \in {"read", "write", "isclosed"}
        /\ t.pc = "unmap" => t.op \in {"close", "dup"}
        /\ t.pc \in {"dupdata", "dupfd"} => t.op = "dup"
        /\ t.pc \notin {"forkfd", "forkdata", "forkrun"}
        /\ t.op \in {"read", "write"} => t.i < t.n

\* An Fd page is never mapped without its data page: close unmaps the Fd page
\* first and dup maps it last.  The other way round happens only to the
\* descriptor that is being closed or made.
Slots(p) ==
    LET t == task[p]
    IN  /\ \A f \in FD : Mapped(p, f) => fdt[p][f].data
        /\ \A f \in FD : fdt[p][f].data /\ ~Mapped(p, f)
                         => t.op \in {"close", "dup"} /\ t.new = f
        /\ t.op \in {"read", "write", "isclosed"} => Mapped(p, t.fd)
        /\ t.op = "dup" /\ t.fd # t.new => Mapped(p, t.fd)
        /\ t.pc = "dupfd" /\ Mapped(p, t.fd) => fdt[p][t.new].data

\* A reader between the test for an empty pipe and p_rpos++, a writer between the
\* test for a full one and p_wpos++.
Moving(p) ==
    LET t == task[p]
    IN  /\ t.op = "read" /\ t.pc \in {"copy", "inc"} => p_rpos < p_wpos
        /\ t.op = "read" /\ t.pc = "inc" => t.byte = p_rpos + 1
        /\ t.op = "write" => p_wpos + (t.n - t.i) <= MaxBytes
        /\ t.op = "write" /\ t.pc \in {"copy", "inc"} => p_wpos < p_rpos + PIPEBUFSIZ
        /\ t.op = "write" /\ t.pc = "inc" => p_buf[p_wpos % PIPEBUFSIZ] = p_wpos + 1

\* One environment reads and one writes.
OneEach == \A p, q \in Proc : task[p].op = task[q].op /\ task[p].op \in {"read", "write"} => p = q

\* The bytes between p_rpos and p_wpos are in the buffer.
Buffered == \A k \in p_rpos .. p_wpos - 1 : p_buf[k % PIPEBUFSIZ] = k + 1

PipeInv ==
    /\ TypeOK /\ OneEach /\ Buffered /\ Fifo
    /\ \A p \in Proc : Control(p) /\ Slots(p) /\ Moving(p)

\* What _pipeisclosed has found out on one CPU, as long as it was not interrupted.
Checked(p) ==
    LET t == task[p]
    IN  /\ Running(p) /\ ~ran[p] /\ t.pc = "second" => t.ref = Pageref(p, t.first)
        /\ Running(p) /\ ~ran[p] /\ t.pc = "again" /\ t.closed
           => Pageref(p, "fd") = Pageref(p, "data")
        /\ t.pc = "eof" => Gone(Opposite(MyEnd(p)))

ClosedInv == \A p \in Proc : Checked(p)

-----------------------------------------------------------------------------
\* Positions in the buffer.

LEMMA ModRange == ASSUME NEW a \in Nat PROVE a % PIPEBUFSIZ \in 0 .. PIPEBUFSIZ - 1
  BY PipeAssumption

\* Two positions less than the size of the buffer apart are two places.
LEMMA ModDistinct ==
  ASSUME NEW a \in Nat, NEW b \in Nat, a < b, b < a + PIPEBUFSIZ
  PROVE  a % PIPEBUFSIZ # b % PIPEBUFSIZ
<1>1. PICK B \in Nat : B = PIPEBUFSIZ /\ B > 0
  BY PipeAssumption
<1>2. PICK i \in Int, j \in Int : i = a \div B /\ j = b \div B
  BY <1>1
<1>3. a = B * (a \div B) + (a % B) /\ b = B * (b \div B) + (b % B)
  BY <1>1
<1>4. SUFFICES ASSUME a % B = b % B PROVE FALSE
  BY <1>1
<1>5. b - a = B * (j - i)
  BY <1>2, <1>3, <1>4
<1>6. j - i >= 1 => B * (j - i) >= B
  OBVIOUS
<1>7. j - i <= 0 => B * (j - i) <= 0
  OBVIOUS
<1> QED
  BY <1>1, <1>5, <1>6, <1>7

-----------------------------------------------------------------------------
\* Types.

LEMMA Finite == IsFiniteSet(Proc \X FD) /\ 0 \in FD /\ 1 \in FD
<1>1. IsFiniteSet(FD)
  BY FS_Interval, PipeAssumption DEF FD
<1> QED
  BY <1>1, FS_Product, PipeAssumption DEF FD

LEMMA CountsFinite ==
  /\ \A x : IsFiniteSet(Ends(x)) /\ Cardinality(Ends(x)) \in Nat
  /\ IsFiniteSet(Datas) /\ Cardinality(Datas) \in Nat
<1>1. \A x : Ends(x) \subseteq Proc \X FD
  BY DEF Ends
<1>2. Datas \subseteq Proc \X FD
  BY DEF Datas
<1> QED
  BY <1>1, <1>2, Finite, FS_Subset, FS_CardinalityType

LEMMA PagerefType == \A p, which : Pageref(p, which) \in Nat
  BY CountsFinite DEF Pageref

LEMMA IdleType == Idle \in Task
  BY Finite, PipeAssumption DEF Idle, Task, Op, Pc

LEMMA InitPipeInv == Init => PipeInv
<1> SUFFICES ASSUME Init PROVE PipeInv
  OBVIOUS
<1> USE PipeAssumption, Finite
<1>1. TypeOK
  <2>1. fdt \in [Proc -> [FD -> Slot]]
    BY DEF Init, Slot, End, Unmapped
  <2>2. p_buf \in [0 .. PIPEBUFSIZ - 1 -> 0 .. MaxBytes]
    BY DEF Init
  <2> QED
    BY <2>1, <2>2, IdleType DEF Init, TypeOK
<1>2. \A p \in Proc : task[p] = Idle
  BY DEF Init
<1>3. OneEach /\ \A p \in Proc : Control(p) /\ Moving(p)
  BY <1>2 DEF OneEach, Control, Moving, Idle, Checking
<1>4. Buffered /\ Fifo
  BY DEF Init, Buffered, Fifo
<1>5. ASSUME NEW p \in Proc PROVE Slots(p)
  BY <1>2 DEF Init, Slots, Mapped, Unmapped, Idle
<1> QED
  BY <1>1, <1>3, <1>4, <1>5 DEF PipeInv

-----------------------------------------------------------------------------
\* A step of p that leaves the buffer alone.

LEMMA ProcStep ==
  ASSUME PipeInv, NEW p \in Proc, TypeOK', UNCHANGED pipe,
         \A q \in Proc \ {p} : task'[q] = task[q] /\ fdt'[q] = fdt[q],
         Control(p)', Slots(p)', Moving(p)',
         task'[p].op \in {"read", "write"} => task'[p].op = task[p].op \/ Alone(task'[p].op)
  PROVE  PipeInv'
<1>1. Buffered' /\ Fifo'
  BY DEF PipeInv, Buffered, Fifo, pipe
<1>2. OneEach'
  BY DEF PipeInv, OneEach, Alone
<1>3. ASSUME NEW q \in Proc \ {p} PROVE Control(q)' /\ Slots(q)' /\ Moving(q)'
  <2>1. Control(q) /\ Slots(q) /\ Moving(q)
    BY DEF PipeInv
  <2>2. task'[q] = task[q] /\ fdt'[q] = fdt[q]
    OBVIOUS
  <2>3. Control(q)'
    BY <2>1, <2>2 DEF Control
  <2>4. Slots(q)'
    BY <2>1, <2>2, ZenonT(30) DEF Slots, Mapped
  <2>5. Moving(q)'
    BY <2>1, <2>2 DEF Moving, pipe
  <2> QED
    BY <2>3, <2>4, <2>5
<1> QED
  BY <1>1, <1>2, <1>3 DEF PipeInv

\* A step inside a call of p that changes neither descriptors nor buffer and
\* leaves what the call is about as it was.
LEMMA CallStep ==
  ASSUME PipeInv, NEW p \in Proc, NEW t \in Task,
         task' = [task EXCEPT ![p] = t],
         ran' \in [Proc -> BOOLEAN], UNCHANGED <<fdt, status, cpu, pipe>>,
         t = Idle \/ (/\ t.op = task[p].op /\ t.fd = task[p].fd
                      /\ t.n = task[p].n /\ t.i = task[p].i
                      /\ t.op \in {"read", "write", "isclosed"}
                      /\ \/ t.pc \in Checking
                         \/ t.op # "isclosed" /\ t.pc = "loop"
                         \/ t.op # "isclosed" /\ t.pc = "copy" /\ ~MustWait(t.op)),
         task[p].op \notin {"close", "dup"}
  PROVE  PipeInv'
<1> USE PipeAssumption
<1>1. TypeOK'
  BY Zenon DEF PipeInv, TypeOK, pipe
<1>2. task'[p] = t /\ \A q \in Proc \ {p} : task'[q] = task[q] /\ fdt'[q] = fdt[q]
  BY DEF PipeInv, TypeOK
<1>3. Control(p) /\ Slots(p) /\ Moving(p)
  BY DEF PipeInv
<1>4. Control(p)'
  BY <1>2, <1>3, SMTT(30) DEF Control, Checking, Idle
<1>5. Slots(p)'
  BY <1>2, <1>3, SMTT(30) DEF Slots, Mapped, Idle, Checking
<1>6. Moving(p)'
  BY <1>2, <1>3 DEF Moving, MustWait, Idle, Checking, PipeInv, TypeOK, Fifo, pipe
<1> QED
  BY <1>1, <1>2, <1>4, <1>5, <1>6, ProcStep DEF Idle

LEMMA CheckStep == ASSUME PipeInv, NEW p \in Proc, Check(p) PROVE PipeInv'
<1> USE PipeAssumption
<1>1. task[p] \in Task /\ Control(p) /\ task \in [Proc -> Task] /\ ran \in [Proc -> BOOLEAN]
  BY DEF PipeInv, TypeOK
<1>2. CASE Snap(p)
  <2>1. PICK x \in {"fd", "data"} : task' = [task EXCEPT ![p].pc = "first", ![p].first = x]
    BY <1>2, Zenon DEF Snap
  <2>2. PICK t : t = [task[p] EXCEPT !.pc = "first", !.first = x]
    OBVIOUS
  <2>3. t \in Task /\ task' = [task EXCEPT ![p] = t]
    BY <1>1, <2>1, <2>2, Zenon DEF Task, Pc
  <2>4. ran' \in [Proc -> BOOLEAN] /\ UNCHANGED <<fdt, status, cpu, pipe>> /\ task[p].pc = "snap"
    BY <1>1, <1>2 DEF Snap, At
  <2> QED
    BY <1>1, <2>2, <2>3, <2>4, CallStep, Zenon DEF Control, Checking, Task
<1>3. CASE First(p)
  <2>1. PICK r : r = Pageref(p, task[p].first)
    OBVIOUS
  <2>2. PICK t : t = [task[p] EXCEPT !.pc = "second", !.ref = r]
    OBVIOUS
  <2>3. t \in Task
    BY <1>1, <2>1, <2>2, PagerefType, Zenon DEF Task, Pc
  <2>4. task' = [task EXCEPT ![p] = t]
    BY <1>1, <1>3, <2>1, <2>2, Zenon DEF First
  <2>5. ran' \in [Proc -> BOOLEAN] /\ UNCHANGED <<fdt, status, cpu, pipe>> /\ task[p].pc = "first"
    BY <1>1, <1>3 DEF First, At
  <2> QED
    BY <1>1, <2>2, <2>3, <2>4, <2>5, CallStep, Zenon DEF Control, Checking, Task
<1>4. CASE Second(p)
  <2>1. PICK c \in BOOLEAN :
          task' = [task EXCEPT ![p].pc = "again", ![p].ref = 0, ![p].closed = c]
    <3>1. PICK o : o = IF task[p].first = "fd" THEN "data" ELSE "fd"
      OBVIOUS
    <3>2. (task[p].ref = Pageref(p, o)) \in BOOLEAN
      OBVIOUS
    <3> QED
      BY <1>4, <3>1, <3>2, Zenon DEF Second
  <2>2. PICK t : t = [task[p] EXCEPT !.pc = "again", !.ref = 0, !.closed = c]
    OBVIOUS
  <2>3. t \in Task /\ task' = [task EXCEPT ![p] = t]
    BY <1>1, <2>1, <2>2, Zenon DEF Task, Pc
  <2>4. ran' \in [Proc -> BOOLEAN] /\ UNCHANGED <<fdt, status, cpu, pipe>> /\ task[p].pc = "second"
    BY <1>1, <1>4 DEF Second, At
  <2> QED
    BY <1>1, <2>2, <2>3, <2>4, CallStep, Zenon DEF Control, Checking, Task
<1>5. CASE Again(p)
  <2>1. ran' \in [Proc -> BOOLEAN] /\ UNCHANGED <<fdt, status, cpu, pipe>> /\ task[p].pc = "again"
    BY <1>1, <1>5 DEF Again, At
  <2>2. PICK x \in {"snap", "eof", "loop"} :
          IF x = "loop" /\ task[p].op = "isclosed"
          THEN Done(p)
          ELSE task' = [task EXCEPT ![p] = [task[p] EXCEPT !.closed = FALSE, !.first = "fd", !.pc = x]]
    BY <1>1, <1>5, Zenon DEF Again, Task
  <2>3. CASE Done(p)
    BY <1>1, <2>1, <2>3, IdleType, CallStep, Zenon DEF Done, Control, Checking
  <2>4. CASE ~Done(p)
    <3>1. PICK t : t = [task[p] EXCEPT !.closed = FALSE, !.first = "fd", !.pc = x]
      OBVIOUS
    <3>2. t \in Task /\ task' = [task EXCEPT ![p] = t]
      BY <1>1, <2>2, <2>4, <3>1, Zenon DEF Task, Pc
    <3>3. t.op = task[p].op /\ t.fd = task[p].fd /\ t.n = task[p].n /\ t.i = task[p].i /\ t.pc = x
      BY <1>1, <3>1 DEF Task
    <3>4. t.op \in {"read", "write", "isclosed"} /\ (x = "loop" => t.op # "isclosed")
      BY <1>1, <2>1, <2>2, <2>4, <3>3 DEF Control, Checking
    <3> QED
      BY <2>1, <2>2, <3>2, <3>3, <3>4, CallStep, Zenon DEF Checking
  <2> QED
    BY <2>3, <2>4
<1>6. CASE Eof(p)
  BY <1>1, <1>6, IdleType, CallStep, Zenon DEF Eof, Done, At, Control, Checking
<1> QED
  BY <1>2, <1>3, <1>4, <1>5, <1>6 DEF Check

LEMMA LoopStep == ASSUME PipeInv, NEW p \in Proc, Loop(p) PROVE PipeInv'
<1> USE PipeAssumption
<1>1. task[p] \in Task /\ Control(p) /\ task \in [Proc -> Task] /\ ran \in [Proc -> BOOLEAN]
  BY DEF PipeInv, TypeOK
<1>2. ran' \in [Proc -> BOOLEAN] /\ UNCHANGED <<fdt, status, cpu, pipe>> /\ task[p].pc = "loop"
  BY <1>1 DEF Loop, At
<1>3. CASE Done(p)
  BY <1>1, <1>2, <1>3, IdleType, CallStep, Zenon DEF Done, Control
<1>4. CASE ~Done(p)
  <2>1. PICK x \in {"copy", "snap"} : Goto(p, x) /\ (x = "copy" => ~MustWait(task[p].op))
    BY <1>4 DEF Loop
  <2>2. PICK t : t = [task[p] EXCEPT !.pc = x]
    BY Zenon
  <2>3. t \in Task /\ task' = [task EXCEPT ![p] = t]
    BY <1>1, <2>1, <2>2 DEF Goto, Task, Pc
  <2>4. t.op = task[p].op /\ t.fd = task[p].fd /\ t.n = task[p].n /\ t.i = task[p].i /\ t.pc = x
    BY <1>1, <2>2 DEF Task
  <2> QED
    BY <1>1, <1>2, <2>1, <2>3, <2>4, CallStep, Zenon DEF Control, Checking
<1> QED
  BY <1>3, <1>4

\* A call begins.
LEMMA BeginStep ==
  ASSUME PipeInv, NEW p \in Proc, NEW t \in Task, Call(p, t),
         UNCHANGED <<fdt, status, cpu, ran, pipe>>,
         t.op \in {"read", "write", "isclosed"}, Mapped(p, t.fd),
         t.pc = IF t.op = "isclosed" THEN "snap" ELSE "loop",
         t.op # "isclosed" => Alone(t.op) /\ t.i = 0 /\ t.n > 0,
         t.op = "write" => p_wpos + t.n <= MaxBytes
  PROVE  PipeInv'
<1> USE PipeAssumption
<1>1. TypeOK'
  BY DEF PipeInv, TypeOK, pipe, Call
<1>2. task'[p] = t /\ \A q \in Proc \ {p} : task'[q] = task[q] /\ fdt'[q] = fdt[q]
  BY DEF PipeInv, TypeOK, Call
<1>3. Control(p) /\ Slots(p) /\ task[p].pc = "idle"
  BY DEF PipeInv, Call, At
<1>4. Control(p)'
  BY <1>2, Zenon DEF Control, Checking
<1>5. Slots(p)'
  BY <1>2, <1>3 DEF Slots, Control, Mapped
<1>6. Moving(p)'
  BY <1>2 DEF Moving, PipeInv, TypeOK, Task, pipe
<1> QED
  BY <1>1, <1>2, <1>4, <1>5, <1>6, ProcStep

LEMMA ReadWriteStep ==
  ASSUME PipeInv, NEW p \in Proc, NEW f \in FD, NEW n \in 1 .. MaxBytes,
         Read(p, f, n) \/ Write(p, f, n)
  PROVE  PipeInv'
<1> USE PipeAssumption
<1>1. n \in 0 .. MaxBytes /\ n > 0
  OBVIOUS
<1>2. PICK x \in {"read", "write"} :
        /\ Call(p, [Idle EXCEPT !.op = x, !.pc = "loop", !.fd = f, !.n = n])
        /\ Mapped(p, f) /\ Alone(x) /\ (x = "write" => p_wpos + n <= MaxBytes)
        /\ UNCHANGED <<fdt, status, cpu, ran, pipe>>
  BY DEF Read, Write, Mapped
<1>3. PICK t : t = [Idle EXCEPT !.op = x, !.pc = "loop", !.fd = f, !.n = n]
  OBVIOUS
<1>4. t.op = x /\ t.pc = "loop" /\ t.fd = f /\ t.n = n /\ t.i = 0
  BY <1>3 DEF Idle
<1>5. t \in Task
  BY <1>1, <1>3, IdleType, Zenon DEF Task, Op, Pc
<1> QED
  BY <1>1, <1>2, <1>3, <1>4, <1>5, BeginStep, Zenon

LEMMA IsclosedStep ==
  ASSUME PipeInv, NEW p \in Proc, NEW f \in FD, Pipeisclosed(p, f) PROVE PipeInv'
<1>1. PICK t : t = [Idle EXCEPT !.op = "isclosed", !.pc = "snap", !.fd = f]
  OBVIOUS
<1>2. t \in Task
  BY <1>1, IdleType, Zenon DEF Task, Op, Pc
<1>3. t.op = "isclosed" /\ t.pc = "snap" /\ t.fd = f
  BY <1>1, IdleType DEF Task
<1> QED
  BY <1>1, <1>2, <1>3, BeginStep, Zenon DEF Pipeisclosed

-----------------------------------------------------------------------------
\* A byte is moved.

LEMMA CopyStep == ASSUME PipeInv, NEW p \in Proc, Copy(p) PROVE PipeInv'
<1> USE PipeAssumption
<1>1. task \in [Proc -> Task] /\ task[p] \in Task /\ p_rpos \in Nat /\ p_wpos \in Nat
      /\ p_buf \in [0 .. PIPEBUFSIZ - 1 -> 0 .. MaxBytes]
  BY DEF PipeInv, TypeOK
<1>2. Control(p) /\ Slots(p) /\ Moving(p) /\ task[p].pc = "copy" /\ task[p].op \in {"read", "write"}
  BY DEF PipeInv, Control, Copy, At
<1>3. CASE task[p].op = "read"
  <2>1. p_rpos < p_wpos /\ p_buf[p_rpos % PIPEBUFSIZ] = p_rpos + 1
    <3>1. p_rpos \in p_rpos .. p_wpos - 1
      BY <1>1, <1>2, <1>3 DEF Moving
    <3>2. \A k \in p_rpos .. p_wpos - 1 : p_buf[k % PIPEBUFSIZ] = k + 1
      BY DEF PipeInv, Buffered
    <3>3. p_buf[p_rpos % PIPEBUFSIZ] = p_rpos + 1
      BY <3>1, <3>2, Zenon
    <3> QED
      BY <1>1, <3>1, <3>3
  <2>2. p_rpos + 1 \in 0 .. MaxBytes
    BY <1>1, <2>1 DEF PipeInv, TypeOK
  <2>3. task' = [task EXCEPT ![p].pc = "inc", ![p].byte = p_rpos + 1] /\ UNCHANGED pipe
        /\ UNCHANGED <<fdt, status, cpu, ran>>
    BY <1>3, <2>1 DEF Copy, pipe
  <2>4. PICK t : t = [task[p] EXCEPT !.pc = "inc", !.byte = p_rpos + 1]
    OBVIOUS
  <2>5. t \in Task /\ task' = [task EXCEPT ![p] = t]
    BY <1>1, <2>2, <2>3, <2>4, Zenon DEF Task, Pc
  <2>6. t.op = "read" /\ t.fd = task[p].fd /\ t.i = task[p].i /\ t.n = task[p].n
        /\ t.pc = "inc" /\ t.byte = p_rpos + 1
    BY <1>1, <1>3, <2>4 DEF Task
  <2>7. TypeOK'
    <3>1. task' \in [Proc -> Task]
      BY <1>1, <2>5
    <3> QED
      BY <2>3, <3>1 DEF PipeInv, TypeOK, pipe
  <2>8. task'[p] = t /\ \A q \in Proc \ {p} : task'[q] = task[q] /\ fdt'[q] = fdt[q]
    BY <1>1, <2>3, <2>5, Zenon
  <2>9. Control(p)' /\ Slots(p)'
    BY <1>2, <1>3, <2>3, <2>6, <2>8 DEF Control, Checking, Slots, Mapped
  <2>10. Moving(p)'
    BY <2>1, <2>3, <2>6, <2>8, Zenon DEF Moving, pipe
  <2> QED
    BY <1>3, <2>3, <2>6, <2>7, <2>8, <2>9, <2>10, ProcStep, Zenon
<1>4. CASE task[p].op = "write"
  <2>1. /\ task' = [task EXCEPT ![p].pc = "inc"]
        /\ p_buf' = [p_buf EXCEPT ![p_wpos % PIPEBUFSIZ] = p_wpos + 1]
        /\ UNCHANGED <<fdt, status, cpu, ran, p_rpos, p_wpos, taken>>
    BY <1>4 DEF Copy, Goto
  <2>2. PICK t : t = [task[p] EXCEPT !.pc = "inc"]
    BY Zenon
  <2>3. t \in Task /\ task' = [task EXCEPT ![p] = t]
    BY <1>1, <2>1, <2>2, Zenon DEF Task, Pc
  <2>4. t.op = "write" /\ t.fd = task[p].fd /\ t.i = task[p].i /\ t.n = task[p].n /\ t.pc = "inc"
    BY <1>1, <1>4, <2>2 DEF Task
  <2>5. p_wpos < p_rpos + PIPEBUFSIZ /\ p_wpos + (t.n - t.i) <= MaxBytes /\ t.i < t.n
    BY <1>2, <1>4, <2>4 DEF Moving, Control
  <2>6. p_wpos + 1 \in 0 .. MaxBytes
    BY <1>1, <2>3, <2>5 DEF Task
  <2>7. TypeOK'
    <3>1. task' \in [Proc -> Task]
      BY <1>1, <2>3
    <3>2. p_buf' \in [0 .. PIPEBUFSIZ - 1 -> 0 .. MaxBytes]
      BY <1>1, <2>1, <2>6
    <3> QED
      BY <2>1, <3>1, <3>2 DEF PipeInv, TypeOK
  <2>8. task'[p] = t /\ \A q \in Proc \ {p} : task'[q] = task[q] /\ fdt'[q] = fdt[q]
    BY <1>1, <2>1, <2>3
  <2>9. \A q \in Proc \ {p} : task[q].op # "write"
    BY <1>4 DEF PipeInv, OneEach
  <2>10. p_buf'[p_wpos % PIPEBUFSIZ] = p_wpos + 1
    BY <1>1, <2>1, ModRange
  <2>11. Buffered'
    <3> SUFFICES ASSUME NEW k \in p_rpos .. p_wpos - 1 PROVE p_buf'[k % PIPEBUFSIZ] = k + 1
      BY <2>1 DEF Buffered
    <3>1. k \in Nat /\ k < p_wpos /\ p_wpos < k + PIPEBUFSIZ
      BY <1>1, <2>5
    <3>2. k % PIPEBUFSIZ # p_wpos % PIPEBUFSIZ
      BY <1>1, <3>1, ModDistinct, Zenon
    <3>3. p_buf[k % PIPEBUFSIZ] = k + 1
      BY DEF PipeInv, Buffered
    <3> QED
      BY <1>1, <2>1, <3>1, <3>2, <3>3, ModRange
  <2>12. Fifo'
    BY <2>1 DEF PipeInv, Fifo
  <2>13. OneEach'
    BY <1>4, <2>4, <2>8 DEF PipeInv, OneEach
  <2>14. Control(p)' /\ Slots(p)'
    BY <1>2, <1>4, <2>1, <2>4, <2>8 DEF Control, Checking, Slots, Mapped
  <2>15. Moving(p)'
    BY <2>1, <2>4, <2>5, <2>8, <2>10, Zenon DEF Moving
  <2>16. ASSUME NEW q \in Proc \ {p} PROVE Control(q)' /\ Slots(q)' /\ Moving(q)'
    <3>1. Control(q) /\ Slots(q) /\ Moving(q) /\ task'[q] = task[q] /\ task[q].op # "write"
          /\ fdt' = fdt
      BY <2>1, <2>8, <2>9, Zenon DEF PipeInv
    <3>2. Control(q)' /\ Slots(q)'
      BY <3>1 DEF Control, Slots, Mapped
    <3>3. Moving(q)'
      BY <2>1, <3>1 DEF Moving
    <3> QED
      BY <3>2, <3>3
  <2> QED
    BY <2>7, <2>11, <2>12, <2>13, <2>14, <2>15, <2>16 DEF PipeInv
<1> QED
  BY <1>2, <1>3, <1>4

LEMMA IncStep == ASSUME PipeInv, NEW p \in Proc, Inc(p) PROVE PipeInv'
<1> USE PipeAssumption
<1>1. /\ task \in [Proc -> Task] /\ task[p] \in Task /\ p_rpos \in Nat /\ p_wpos \in 0 .. MaxBytes
      /\ task[p].i \in Nat /\ task[p].n \in 0 .. MaxBytes
  BY DEF PipeInv, TypeOK, Task
<1>2. /\ Control(p) /\ Slots(p) /\ Moving(p) /\ task[p].pc = "inc"
      /\ task[p].op \in {"read", "write"} /\ task[p].i < task[p].n
  BY DEF PipeInv, Control, Inc, At
<1>3. PICK t \in Task :
        /\ task' = [task EXCEPT ![p] = t]
        /\ \/ t = Idle
           \/ /\ t.op = task[p].op /\ t.fd = task[p].fd /\ t.n = task[p].n
              /\ t.i = task[p].i + 1 /\ t.i < t.n /\ t.pc = "loop"
  <2>1. CASE task[p].i + 1 = task[p].n
    BY <2>1, IdleType DEF Inc, Done
  <2>2. CASE task[p].i + 1 # task[p].n
    <3>1. PICK t : t = [task[p] EXCEPT !.pc = "loop", !.i = task[p].i + 1, !.byte = 0]
      OBVIOUS
    <3>2. task[p].i + 1 \in 0 .. MaxBytes + NFD /\ 0 \in 0 .. MaxBytes
      BY <1>1, <1>2
    <3>3. t \in Task
      BY <1>1, <3>1, <3>2, Zenon DEF Task, Pc
    <3>4. task' = [task EXCEPT ![p] = t]
      BY <1>1, <2>2, <3>1, Zenon DEF Inc
    <3>5. /\ t.op = task[p].op /\ t.fd = task[p].fd /\ t.n = task[p].n
          /\ t.i = task[p].i + 1 /\ t.pc = "loop"
      BY <1>1, <3>1 DEF Task
    <3>6. t.i < t.n
      BY <1>1, <1>2, <2>2, <3>5
    <3> QED
      BY <3>3, <3>4, <3>5, <3>6, Zenon
  <2> QED
    BY <2>1, <2>2
<1>4. /\ task'[p] = t /\ task' \in [Proc -> Task]
      /\ \A q \in Proc \ {p} : task'[q] = task[q] /\ task[q].op # task[p].op
      /\ UNCHANGED <<fdt, status, cpu, ran, p_buf>>
  BY <1>1, <1>2, <1>3, Zenon DEF Inc, PipeInv, OneEach
<1>5. Control(p)' /\ Slots(p)'
  BY <1>2, <1>3, <1>4, SMTT(30) DEF Control, Checking, Slots, Mapped, Idle
<1>6. OneEach'
  BY <1>2, <1>3, <1>4, SMTT(30) DEF PipeInv, OneEach, Idle
<1>7. ASSUME NEW q \in Proc \ {p} PROVE Control(q)' /\ Slots(q)'
  BY <1>4, SMTT(30) DEF PipeInv, Control, Slots, Mapped
<1>8. CASE task[p].op = "read"
  <2>1. p_rpos < p_wpos /\ task[p].byte = p_rpos + 1
    BY <1>2, <1>8 DEF Moving
  <2>2. p_rpos' = p_rpos + 1 /\ taken' = Append(taken, p_rpos + 1) /\ UNCHANGED p_wpos
    BY <1>8, <2>1 DEF Inc
  <2>3. TypeOK'
    BY <1>1, <1>4, <2>1, <2>2 DEF PipeInv, TypeOK
  <2>4. Buffered'
    <3> SUFFICES ASSUME NEW k \in p_rpos + 1 .. p_wpos - 1 PROVE p_buf[k % PIPEBUFSIZ] = k + 1
      BY <1>4, <2>2 DEF Buffered
    <3>1. k \in p_rpos .. p_wpos - 1
      BY <1>1
    <3> QED
      BY <3>1 DEF PipeInv, Buffered
  <2>5. Fifo'
    <3>1. taken = [k \in 1 .. p_rpos |-> k]
      BY DEF PipeInv, Fifo
    <3>2. taken \in Seq(Nat) /\ Len(taken) = p_rpos
      BY <1>1, <3>1
    <3>3. taken' = [k \in 1 .. p_rpos + 1 |-> k]
      BY <1>1, <2>2, <3>1, <3>2
    <3> QED
      BY <1>1, <1>4, <2>1, <2>2, <3>3 DEF PipeInv, Fifo
  <2>6. Moving(p)'
    BY <1>3, <1>4, <1>8 DEF Moving, Idle
  <2>7. ASSUME NEW q \in Proc \ {p} PROVE Moving(q)'
    BY <1>1, <1>4, <1>8, <2>2, SMTT(30) DEF PipeInv, Moving
  <2> QED
    BY <1>5, <1>6, <1>7, <2>3, <2>4, <2>5, <2>6, <2>7, Zenon DEF PipeInv
<1>9. CASE task[p].op = "write"
  <2>1. /\ p_wpos < p_rpos + PIPEBUFSIZ /\ p_buf[p_wpos % PIPEBUFSIZ] = p_wpos + 1
        /\ p_wpos + (task[p].n - task[p].i) <= MaxBytes
    BY <1>2, <1>9 DEF Moving
  <2>2. p_wpos' = p_wpos + 1 /\ UNCHANGED <<p_rpos, taken>>
    BY <1>9 DEF Inc
  <2>3. TypeOK'
    <3>1. p_wpos + 1 \in 0 .. MaxBytes
      BY <1>1, <1>2, <2>1
    <3> QED
      BY <1>4, <2>2, <3>1 DEF PipeInv, TypeOK
  <2>4. Buffered'
    <3> SUFFICES ASSUME NEW k \in p_rpos .. p_wpos PROVE p_buf[k % PIPEBUFSIZ] = k + 1
      BY <1>1, <1>4, <2>2, SMTT(30) DEF Buffered
    <3>1. CASE k = p_wpos
      BY <2>1, <3>1
    <3>2. CASE k # p_wpos
      <4>1. k \in p_rpos .. p_wpos - 1
        BY <1>1, <3>2
      <4> QED
        BY <4>1 DEF PipeInv, Buffered
    <3> QED
      BY <3>1, <3>2
  <2>5. Fifo'
    BY <1>1, <2>1, <2>2 DEF PipeInv, Fifo
  <2>6. Moving(p)'
    BY <1>1, <1>3, <1>4, <1>9, <2>1, <2>2 DEF Moving, Idle
  <2>7. ASSUME NEW q \in Proc \ {p} PROVE Moving(q)'
    BY <1>1, <1>4, <1>9, <2>2, SMTT(30) DEF PipeInv, Moving
  <2> QED
    BY <1>5, <1>6, <1>7, <2>3, <2>4, <2>5, <2>6, <2>7 DEF PipeInv
<1> QED
  BY <1>2, <1>8, <1>9

-----------------------------------------------------------------------------
\* Descriptors are closed and duplicated.

\* p goes to task t and descriptors d.
LEMMA DescriptorStep ==
  ASSUME PipeInv, NEW p \in Proc, NEW t \in Task, NEW d \in [FD -> Slot],
         task' = [task EXCEPT ![p] = t], fdt' = [fdt EXCEPT ![p] = d],
         UNCHANGED <<status, cpu, ran, pipe>>,
         \/ t = Idle
         \/ t.op = "close" /\ t.pc = "unmap"
         \/ t.op = "dup" /\ t.pc \in {"unmap", "dupdata", "dupfd"},
         \A f \in FD : d[f].end # "none" => d[f].data,
         \A f \in FD : d[f].data /\ d[f].end = "none" => t.op \in {"close", "dup"} /\ t.new = f,
         t.op = "dup" /\ t.fd # t.new => d[t.fd].end # "none",
         t.pc = "dupfd" /\ d[t.fd].end # "none" => d[t.new].data
  PROVE  PipeInv'
<1>1. task \in [Proc -> Task] /\ fdt \in [Proc -> [FD -> Slot]]
  BY Zenon DEF PipeInv, TypeOK
<1>2. TypeOK'
  <2>1. task' \in [Proc -> Task] /\ fdt' \in [Proc -> [FD -> Slot]]
    BY <1>1
  <2> QED
    BY <2>1 DEF PipeInv, TypeOK, pipe
<1>3. /\ task'[p] = t /\ fdt'[p] = d
      /\ \A q \in Proc \ {p} : task'[q] = task[q] /\ fdt'[q] = fdt[q]
  BY <1>1
<1>4. t.op \notin {"read", "write", "isclosed"}
  BY DEF Idle
<1>5. Control(p)'
  BY <1>3, <1>4, SMTT(30) DEF Control, Checking, Idle
<1>6. Slots(p)'
  BY <1>3, <1>4 DEF Slots, Mapped
<1>7. Moving(p)'
  BY <1>3, <1>4 DEF Moving
<1> QED
  BY <1>2, <1>3, <1>4, <1>5, <1>6, <1>7, ProcStep, Zenon

LEMMA CloseStep ==
  ASSUME PipeInv, NEW p \in Proc, NEW f \in FD, Close(p, f) PROVE PipeInv'
<1>1. task[p] \in Task /\ fdt \in [Proc -> [FD -> Slot]] /\ fdt[p] \in [FD -> Slot]
      /\ Slots(p) /\ Control(p) /\ task[p].pc = "idle"
  BY DEF PipeInv, TypeOK, Close, Call, At
<1>2. PICK t : t = [Idle EXCEPT !.op = "close", !.pc = "unmap", !.new = f]
  OBVIOUS
<1>3. t \in Task /\ t.op = "close" /\ t.pc = "unmap" /\ t.new = f
  BY <1>2, IdleType, Zenon DEF Task, Op, Pc
<1>4. PICK d : d = [fdt[p] EXCEPT ![f].end = "none"]
  BY Zenon
<1>5. d \in [FD -> Slot] /\ d[f].end = "none" /\ \A g \in FD \ {f} : d[g] = fdt[p][g]
  BY <1>1, <1>4 DEF Slot, End
<1>6. fdt' = [fdt EXCEPT ![p] = d]
  BY <1>1, <1>4 DEF Close
<1>7. task' = [task EXCEPT ![p] = t] /\ UNCHANGED <<status, cpu, ran, pipe>>
  BY <1>2 DEF Close, Call
<1>8. \A g \in FD : d[g].end # "none" => d[g].data
  BY <1>1, <1>5, Zenon DEF Slots, Mapped
<1>9. \A g \in FD : d[g].data /\ d[g].end = "none" => t.new = g
  BY <1>1, <1>3, <1>5, SMTT(30) DEF Slots, Mapped, Control
<1> QED
  BY <1>3, <1>5, <1>6, <1>7, <1>8, <1>9, DescriptorStep, Zenon

LEMMA DupStep ==
  ASSUME PipeInv, NEW p \in Proc, NEW f \in FD, NEW g \in FD, Dup(p, f, g) PROVE PipeInv'
<1>1. task[p] \in Task /\ fdt \in [Proc -> [FD -> Slot]] /\ fdt[p] \in [FD -> Slot]
      /\ Slots(p) /\ Control(p) /\ task[p].pc = "idle"
  BY DEF PipeInv, TypeOK, Dup, Call, At
<1>2. PICK x \in {"unmap", "dupdata"} : x = IF Mapped(p, g) THEN "unmap" ELSE "dupdata"
  OBVIOUS
<1>3. PICK t : t = [Idle EXCEPT !.op = "dup", !.fd = f, !.new = g, !.pc = x]
  OBVIOUS
<1>4. t \in Task /\ t.op = "dup" /\ t.pc = x /\ t.new = g /\ t.fd = f
  BY <1>3, IdleType, Zenon DEF Task, Op, Pc
<1>5. PICK d : d = [fdt[p] EXCEPT ![g].end = "none"]
  BY Zenon
<1>6. d \in [FD -> Slot] /\ d[g].end = "none" /\ \A h \in FD \ {g} : d[h] = fdt[p][h]
  BY <1>1, <1>5 DEF Slot, End
<1>7. fdt' = [fdt EXCEPT ![p] = d]
  BY <1>1, <1>5 DEF Dup
<1>8. task' = [task EXCEPT ![p] = t] /\ UNCHANGED <<status, cpu, ran, pipe>> /\ Mapped(p, f)
  BY <1>2, <1>3 DEF Dup, Call
<1>9. \A h \in FD : d[h].end # "none" => d[h].data
  BY <1>1, <1>6, Zenon DEF Slots, Mapped
<1>10. \A h \in FD : d[h].data /\ d[h].end = "none" => t.new = h
  BY <1>1, <1>4, <1>6 DEF Slots, Mapped, Control
<1>11. t.fd # t.new => d[t.fd].end # "none"
  BY <1>4, <1>6, <1>8 DEF Mapped
<1> QED
  BY <1>4, <1>6, <1>7, <1>8, <1>9, <1>10, <1>11, DescriptorStep, Zenon

LEMMA DescriptorsStep == ASSUME PipeInv, NEW p \in Proc, Descriptors(p) PROVE PipeInv'
<1>1. /\ task \in [Proc -> Task] /\ task[p] \in Task /\ fdt \in [Proc -> [FD -> Slot]]
      /\ fdt[p] \in [FD -> Slot] /\ Slots(p) /\ Control(p)
  BY DEF PipeInv, TypeOK
<1>2. PICK f \in FD, g \in FD : f = task[p].fd /\ g = task[p].new
  BY <1>1 DEF Task
<1>3. CASE Unmap(p)
  <2>1. PICK d : d = [fdt[p] EXCEPT ![g] = Unmapped]
    BY Zenon
  <2>2. d \in [FD -> Slot] /\ d[g] = Unmapped /\ \A h \in FD \ {g} : d[h] = fdt[p][h]
    BY <1>1, <2>1, Zenon DEF Slot, End, Unmapped
  <2>3. fdt' = [fdt EXCEPT ![p] = d] /\ UNCHANGED <<status, cpu, ran, pipe>>
        /\ task[p].pc = "unmap" /\ task[p].op \in {"close", "dup"}
    BY <1>1, <1>2, <1>3, <2>1, Zenon DEF Unmap, At, Control
  <2>4. \A h \in FD : d[h].end # "none" => d[h].data
    BY <1>1, <2>2, SMTT(30) DEF Slots, Mapped, Unmapped
  <2>5. \A h \in FD : ~(d[h].data /\ d[h].end = "none")
    BY <1>1, <1>2, <2>2, SMTT(30) DEF Slots, Mapped, Unmapped
  <2>6. CASE task[p].op = "dup"
    <3>1. PICK t : t = [task[p] EXCEPT !.pc = "dupdata"]
      BY Zenon
    <3>2. t \in Task /\ t.op = "dup" /\ t.pc = "dupdata" /\ t.fd = f /\ t.new = g
      BY <1>1, <1>2, <2>6, <3>1 DEF Task, Pc
    <3>3. task' = [task EXCEPT ![p] = t]
      BY <1>1, <1>3, <2>6, <3>1, Zenon DEF Unmap, Goto
    <3>4. f # g => d[f].end # "none"
      BY <1>1, <1>2, <2>2, <2>6, SMTT(30) DEF Slots, Mapped
    <3> QED
      BY <2>2, <2>3, <2>4, <2>5, <3>2, <3>3, <3>4, DescriptorStep, Zenon
  <2>7. CASE task[p].op # "dup"
    <3>1. task' = [task EXCEPT ![p] = Idle]
      BY <1>3, <2>7 DEF Unmap, Done
    <3>2. Idle.op = "none" /\ Idle.pc = "idle"
      BY DEF Idle
    <3> QED
      BY <2>2, <2>3, <2>4, <2>5, <3>1, <3>2, IdleType, DescriptorStep, Zenon
  <2> QED
    BY <2>6, <2>7
<1>4. CASE DupData(p)
  <2>1. task[p].pc = "dupdata" /\ task[p].op = "dup"
    BY <1>1, <1>4 DEF DupData, At, Control
  <2>2. PICK b \in BOOLEAN : b = (fdt[p][g].data \/ fdt[p][f].data)
    BY <1>1 DEF Slot
  <2>3. PICK d : d = [fdt[p] EXCEPT ![g].data = b]
    BY Zenon
  <2>4. d \in [FD -> Slot] /\ d[g].data = b /\ d[g].end = fdt[p][g].end
        /\ \A h \in FD \ {g} : d[h] = fdt[p][h]
    BY <1>1, <2>2, <2>3, Zenon DEF Slot
  <2>5. fdt' = [fdt EXCEPT ![p] = d] /\ UNCHANGED <<status, cpu, ran, pipe>>
    BY <1>1, <1>2, <1>4, <2>2, <2>3 DEF DupData
  <2>6. PICK t : t = [task[p] EXCEPT !.pc = "dupfd"]
    BY Zenon
  <2>7. t \in Task /\ t.op = "dup" /\ t.pc = "dupfd" /\ t.fd = f /\ t.new = g
    BY <1>1, <1>2, <2>1, <2>6 DEF Task, Pc
  <2>8. task' = [task EXCEPT ![p] = t]
    BY <1>1, <1>4, <2>6 DEF DupData, Goto
  <2>9. \A h \in FD : d[h].end # "none" => d[h].data
    BY <1>1, <2>2, <2>4, Zenon DEF Slots, Mapped
  <2>10. \A h \in FD : d[h].data /\ d[h].end = "none" => g = h
    BY <1>1, <1>2, <2>4, Zenon DEF Slots, Mapped
  <2>11. f # g => d[f].end # "none"
    BY <1>1, <1>2, <2>1, <2>4 DEF Slots, Mapped
  <2>12. d[f].end # "none" => d[g].data
    BY <2>2, <2>4, <2>9, Zenon
  <2> QED
    BY <2>4, <2>5, <2>7, <2>8, <2>9, <2>10, <2>11, <2>12, DescriptorStep, Zenon
<1>5. CASE DupFd(p)
  <2>1. task[p].pc = "dupfd" /\ task[p].op = "dup"
    BY <1>1, <1>5 DEF DupFd, At, Control
  <2>2. PICK s : s = IF Mapped(p, f) THEN [fdt[p][g] EXCEPT !.end = fdt[p][f].end] ELSE Unmapped
    BY Zenon
  <2>3. s \in Slot /\ (s.end = "none" => ~s.data) /\ (s.end # "none" => s.data)
    <3>1. fdt[p][f] \in Slot /\ fdt[p][g] \in Slot
      BY <1>1
    <3>2. CASE Mapped(p, f)
      <4>1. fdt[p][g].data /\ fdt[p][f].end # "none"
        BY <1>1, <1>2, <2>1, <3>2 DEF Slots, Mapped
      <4> QED
        BY <2>2, <3>1, <3>2, <4>1, Zenon DEF Slot
    <3>3. CASE ~Mapped(p, f)
      BY <2>2, <3>3 DEF Slot, Unmapped, End
    <3> QED
      BY <3>2, <3>3
  <2>4. PICK d : d = [fdt[p] EXCEPT ![g] = s]
    BY Zenon
  <2>5. d \in [FD -> Slot] /\ d[g] = s /\ \A h \in FD \ {g} : d[h] = fdt[p][h]
    BY <1>1, <2>3, <2>4
  <2>6. fdt' = [fdt EXCEPT ![p] = d] /\ UNCHANGED <<status, cpu, ran, pipe>>
        /\ task' = [task EXCEPT ![p] = Idle]
    BY <1>1, <1>2, <1>5, <2>2, <2>4, Zenon DEF DupFd, MyEnd, Done
  <2>7. \A h \in FD : d[h].end # "none" => d[h].data
    BY <1>1, <2>3, <2>5, Zenon DEF Slots, Mapped
  <2>8. \A h \in FD : ~(d[h].data /\ d[h].end = "none")
    BY <1>1, <1>2, <2>3, <2>5, Zenon DEF Slots, Mapped
  <2>9. Idle.op = "none" /\ Idle.pc = "idle"
    BY DEF Idle
  <2> QED
    BY <2>5, <2>6, <2>7, <2>8, <2>9, IdleType, DescriptorStep, Zenon
<1> QED
  BY <1>3, <1>4, <1>5 DEF Descriptors

-----------------------------------------------------------------------------
\* The end of an environment, and the scheduler.

LEMMA DestroyStep == ASSUME PipeInv, NEW p \in Proc, Destroy(p) PROVE PipeInv'
<1>1. /\ task \in [Proc -> Task] /\ fdt \in [Proc -> [FD -> Slot]] /\ cpu \in [CPU -> Proc \cup {NoProc}]
      /\ ran \in [Proc -> BOOLEAN] /\ status \in [Proc -> {"free", "new", "run"}]
  BY DEF PipeInv, TypeOK
<1>2. /\ task'[p] = Idle /\ fdt'[p] = [f \in FD |-> Unmapped]
      /\ \A q \in Proc \ {p} : task'[q] = task[q] /\ fdt'[q] = fdt[q]
  BY <1>1 DEF Destroy, Done
<1>3. TypeOK'
  <2>1. Unmapped \in Slot
    BY DEF Unmapped, Slot, End
  <2>2. task' \in [Proc -> Task] /\ fdt' \in [Proc -> [FD -> Slot]]
    BY <1>1, <2>1, IdleType DEF Destroy, Done
  <2>3. /\ cpu' \in [CPU -> Proc \cup {NoProc}] /\ ran' \in [Proc -> BOOLEAN]
        /\ status' \in [Proc -> {"free", "new", "run"}]
    BY <1>1, Zenon DEF Destroy
  <2> QED
    BY <2>2, <2>3 DEF PipeInv, TypeOK, Destroy, pipe
<1>4. Control(p)' /\ Moving(p)'
  BY <1>2, SMTT(30) DEF Control, Moving, Checking, Idle
<1>5. Slots(p)'
  BY <1>2, SMTT(30) DEF Slots, Mapped, Idle, Unmapped
<1> QED
  BY <1>2, <1>3, <1>4, <1>5, ProcStep, SMTT(30) DEF Destroy, Idle

\* A step that leaves pipe, descriptors and tasks alone.
LEMMA PipeSame == ASSUME PipeInv, TypeOK', UNCHANGED <<fdt, task, pipe>> PROVE PipeInv'
<1>1. UNCHANGED <<p_rpos, p_wpos, p_buf>>
  BY Zenon DEF pipe
<1>2. OneEach' /\ Buffered' /\ Fifo'
  BY Zenon DEF PipeInv, OneEach, Buffered, Fifo, pipe
<1>3. ASSUME NEW p \in Proc PROVE Control(p)' /\ Slots(p)' /\ Moving(p)'
  <2>1. Control(p) /\ Slots(p) /\ Moving(p)
    BY Zenon DEF PipeInv
  <2>2. Control(p)'
    BY <2>1, Zenon DEF Control
  <2>3. Slots(p)'
    BY <2>1, Zenon DEF Slots, Mapped
  <2>4. Moving(p)'
    BY <1>1, <2>1, Zenon DEF Moving
  <2> QED
    BY <2>2, <2>3, <2>4
<1> QED
  BY <1>2, <1>3, Zenon DEF PipeInv

LEMMA EnvRunStep == ASSUME PipeInv, NEW c \in CPU, NEW p \in Proc, EnvRun(c, p) PROVE PipeInv'
<1>1. cpu' \in [CPU -> Proc \cup {NoProc}] /\ ran' \in [Proc -> BOOLEAN]
  <2>1. (task[p].pc \in {"first", "second", "again"}) \in BOOLEAN
    OBVIOUS
  <2> QED
    BY <2>1 DEF PipeInv, TypeOK, EnvRun
<1>2. UNCHANGED <<fdt, status, task, pipe>>
  BY DEF EnvRun
<1>3. TypeOK'
  BY <1>1, <1>2 DEF PipeInv, TypeOK, pipe
<1> QED
  BY <1>2, <1>3, PipeSame

LEMMA PipeStep == PipeInv /\ [Next]_vars => PipeInv'
<1> SUFFICES ASSUME PipeInv, [Next]_vars PROVE PipeInv'
  OBVIOUS
<1>1. ASSUME NEW p \in Proc, Continue(p) PROVE PipeInv'
  BY <1>1, CheckStep, LoopStep, CopyStep, IncStep, DescriptorsStep DEF Continue, Transfer
<1>2. ASSUME NEW p \in Proc, CloseOrDup(p) PROVE PipeInv'
  BY <1>2, IsclosedStep, CloseStep, DupStep DEF CloseOrDup
<1>3. ASSUME NEW p \in Proc, ReadOrWrite(p) PROVE PipeInv'
  BY <1>3, ReadWriteStep, Zenon DEF ReadOrWrite
<1>4. CASE UNCHANGED vars
  <2>1. UNCHANGED <<fdt, task, pipe>> /\ UNCHANGED <<status, cpu, ran>>
    BY <1>4, Zenon DEF vars, pipe
  <2>2. TypeOK'
    BY <2>1, Zenon DEF PipeInv, TypeOK, pipe
  <2> QED
    BY <2>1, <2>2, PipeSame
<1> QED
  BY <1>1, <1>2, <1>3, <1>4, DestroyStep, EnvRunStep DEF Next

\* The inductive invariant, on any number of CPUs.
THEOREM PipeInvariance == Spec => []PipeInv
  BY InitPipeInv, PipeStep, PTL DEF Spec

\* Every variable keeps its type: no position runs past what was written.
THEOREM PipeTypes == Spec => []TypeOK
<1>1. PipeInv => TypeOK
  BY DEF PipeInv
<1> QED
  BY PipeInvariance, <1>1, PTL

\* devpipe_read gets what devpipe_write wrote, in order, nothing lost, repeated
\* or overwritten, for any buffer size, also if one dies between the two halves
\* of a byte's transfer.
THEOREM BytesInOrder == Spec => []Fifo
<1>1. PipeInv => Fifo
  BY Zenon DEF PipeInv
<1> QED
  BY PipeInvariance, <1>1, PTL

\* close and dup leave a descriptor with both pages or none.
THEOREM DescriptorsWhole == Spec => []SlotsWhole
<1>1. PipeInv => SlotsWhole
  BY DEF PipeInv, Slots, SlotsWhole, Mapped
<1> QED
  BY PipeInvariance, <1>1, PTL

-----------------------------------------------------------------------------
\* _pipeisclosed on one CPU.

\* Equal counts mean that all mappings of the buffer belong to this end.
LEMMA EqualCounts ==
  ASSUME PipeInv, NEW x \in {"R", "W"}, Cardinality(Ends(x)) = Cardinality(Datas)
  PROVE  Gone(Opposite(x))
<1>1. \A y \in {"R", "W"} : Ends(y) \subseteq Datas
  BY Zenon DEF PipeInv, Slots, Mapped, Ends, Datas
<1>2. Ends(x) = Datas
  <2>1. Ends(x) \subseteq Datas
    BY <1>1
  <2> QED
    BY <2>1, CountsFinite, FS_Subset
<1>3. Opposite(x) \in {"R", "W"} /\ Opposite(x) # x
  BY DEF Opposite
<1>4. Ends(Opposite(x)) \cap Ends(x) = {}
  BY <1>3, SMTT(30) DEF Ends
<1> QED
  BY <1>1, <1>2, <1>3, <1>4, Zenon DEF Gone

\* The steps of p itself.
Step(p) == Continue(p) \/ CloseOrDup(p) \/ ReadOrWrite(p) \/ Destroy(p)

\* Only the owner's own steps change its descriptors and its call.
LEMMA OwnOnly ==
  ASSUME PipeInv, NEW p \in Proc, Step(p)
  PROVE  /\ Running(p)
         /\ \A q \in Proc \ {p} : task'[q] = task[q] /\ fdt'[q] = fdt[q]
         /\ \A c \in CPU : cpu'[c] = cpu[c] \/ cpu'[c] = NoProc
<1>1. task \in [Proc -> Task] /\ fdt \in [Proc -> [FD -> Slot]] /\ cpu \in [CPU -> Proc \cup {NoProc}]
  BY DEF PipeInv, TypeOK
<1>2. CASE Check(p)
  BY <1>1, <1>2 DEF Check, Snap, First, Second, Again, Eof, At, Done
<1>3. CASE Transfer(p)
  BY <1>1, <1>3 DEF Transfer, Loop, Copy, Inc, At, Done, Goto
<1>4. CASE Descriptors(p)
  BY <1>1, <1>4, SMTT(30) DEF Descriptors, Unmap, DupData, DupFd, At, Done, Goto
<1>5. CASE CloseOrDup(p)
  BY <1>1, <1>5, Zenon DEF CloseOrDup, Pipeisclosed, Close, Dup, Call, At
<1>6. CASE ReadOrWrite(p)
  BY <1>1, <1>6 DEF ReadOrWrite, Read, Write, Call, At
<1>7. CASE Destroy(p)
  BY <1>1, <1>7, SMTT(30) DEF Destroy, Done
<1> QED
  BY <1>2, <1>3, <1>4, <1>5, <1>6, <1>7, Zenon DEF Step, Continue

\* An end is opened only by who has it open: dup maps what it finds mapped.
LEMMA EndsFrom ==
  ASSUME PipeInv, NEW p \in Proc, Step(p), NEW f \in FD, fdt'[p][f].end # "none"
  PROVE  \E g \in FD : fdt[p][g].end = fdt'[p][f].end
<1>1. /\ task \in [Proc -> Task] /\ fdt \in [Proc -> [FD -> Slot]]
      /\ task[p].fd \in FD /\ task[p].new \in FD
  BY Zenon DEF PipeInv, TypeOK, Task
<1>2. CASE UNCHANGED fdt
  BY <1>2, Zenon
<1>3. CASE Unmap(p)
  BY <1>1, <1>3 DEF Unmap, Unmapped
<1>4. CASE DupData(p)
  BY <1>1, <1>4 DEF DupData, Slot
<1>5. CASE DupFd(p)
  <2>1. fdt'[p][f] = IF f # task[p].new THEN fdt[p][f]
                     ELSE IF Mapped(p, task[p].fd)
                     THEN [fdt[p][f] EXCEPT !.end = fdt[p][task[p].fd].end] ELSE Unmapped
    BY <1>1, <1>5, Zenon DEF DupFd, MyEnd
  <2> QED
    BY <1>1, <2>1 DEF Unmapped, Slot
<1>6. ASSUME NEW g \in FD, Close(p, g) PROVE fdt[p][f].end = fdt'[p][f].end
  BY <1>1, <1>6 DEF Close, Slot
<1>7. ASSUME NEW g \in FD, NEW h \in FD, Dup(p, h, g) PROVE fdt[p][f].end = fdt'[p][f].end
  BY <1>1, <1>7, Zenon DEF Dup, Slot
<1>8. CASE Destroy(p)
  BY <1>1, <1>8 DEF Destroy, Unmapped
<1> QED
  BY <1>2, <1>3, <1>4, <1>5, <1>6, <1>7, <1>8, ZenonT(40)
  DEF Step, Continue, Check, Snap, First, Second, Again, Eof, Transfer, Loop, Copy, Inc,
      Descriptors, CloseOrDup, Pipeisclosed, ReadOrWrite, Read, Write

\* So an end that is closed everywhere stays closed.
LEMMA GoneStays ==
  ASSUME PipeInv, NEW p \in Proc, Step(p), NEW x \in {"R", "W"}, Gone(x) PROVE Gone(x)'
<1>1. ASSUME NEW q \in Proc, NEW f \in FD, fdt[q][f].end = x PROVE FALSE
  <2>1. <<q, f>> \in Ends(x)
    BY <1>1 DEF Ends
  <2> QED
    BY <2>1 DEF Gone
<1>2. \A q \in Proc, f \in FD : fdt'[q][f].end # x
  BY <1>1, OwnOnly, EndsFrom, SMTT(30)
<1> QED
  BY <1>2 DEF Gone, Ends

\* One step of p and what p knows.
LEMMA OwnChecked ==
  ASSUME PipeInv, NEW p \in Proc, Checked(p), Step(p) PROVE Checked(p)'
<1> USE PipeAssumption
<1>1. /\ task \in [Proc -> Task] /\ task[p] \in Task /\ fdt \in [Proc -> [FD -> Slot]]
      /\ ran \in [Proc -> BOOLEAN] /\ Control(p) /\ Slots(p)
  BY SMTT(30) DEF PipeInv, TypeOK
<1>2. CASE First(p)
  <2>1. /\ task'[p].pc = "second" /\ task'[p].ref = Pageref(p, task[p].first)
        /\ task'[p].first = task[p].first /\ task'[p].fd = task[p].fd /\ UNCHANGED fdt
    BY <1>1, <1>2, Zenon DEF First, Task
  <2>2. Pageref(p, task[p].first)' = Pageref(p, task[p].first)
    BY <2>1, Zenon DEF Pageref, Ends, Datas, MyEnd
  <2> QED
    BY <2>1, <2>2, Zenon DEF Checked, Pageref, Ends, Datas, MyEnd
<1>3. CASE Second(p)
  <2>1. PICK o : o = IF task[p].first = "fd" THEN "data" ELSE "fd"
    OBVIOUS
  <2>2. /\ task'[p].pc = "again" /\ task'[p].closed = (task[p].ref = Pageref(p, o))
        /\ task'[p].fd = task[p].fd /\ UNCHANGED <<fdt, cpu, ran>> /\ task[p].pc = "second"
        /\ task[p].first \in {"fd", "data"}
    BY <1>1, <1>3, <2>1, SMTT(30) DEF Second, Task, At
  <2>3. Running(p) /\ ~ran[p] /\ task'[p].closed => Pageref(p, "fd") = Pageref(p, "data")
    BY <2>1, <2>2, ZenonT(40) DEF Checked
  <2>4. Running(p)' = Running(p) /\ ran'[p] = ran[p]
    BY <2>2, Zenon DEF Running
  <2>5. Pageref(p, "fd")' = Pageref(p, "fd") /\ Pageref(p, "data")' = Pageref(p, "data")
    BY <2>2, Zenon DEF Pageref, Ends, Datas, MyEnd
  <2> QED
    BY <2>2, <2>3, <2>4, <2>5, Zenon DEF Checked
<1>4. CASE Again(p) /\ task'[p].pc = "eof"
  <2>1. /\ Running(p) /\ ~ran[p] /\ task[p].pc = "again" /\ task[p].closed
        /\ task'[p].fd = task[p].fd /\ UNCHANGED fdt
    <3>1. /\ Running(p) /\ task[p].pc = "again" /\ UNCHANGED fdt /\ Idle.pc # "eof"
          /\ task[p].closed \in BOOLEAN /\ ran[p] \in BOOLEAN
      BY <1>1, <1>4, SMTT(30) DEF Again, At, Idle, Task
    <3>2. PICK x : /\ x = CASE ran[p] -> "snap" [] ~ran[p] /\ task[p].closed -> "eof" [] OTHER -> "loop"
                   /\ IF x = "loop" /\ task[p].op = "isclosed"
                      THEN task' = [task EXCEPT ![p] = Idle]
                      ELSE task' = [task EXCEPT ![p] = [task[p] EXCEPT !.closed = FALSE,
                                                                       !.first = "fd", !.pc = x]]
      BY <1>1, <1>4, Zenon DEF Again, Done, Task
    <3>3. task'[p].pc = x /\ task'[p].fd = task[p].fd
      <4>1. PICK t : t = [task[p] EXCEPT !.closed = FALSE, !.first = "fd", !.pc = x]
        OBVIOUS
      <4>2. t.pc = x /\ t.fd = task[p].fd
        BY <1>1, <4>1 DEF Task
      <4>3. task'[p] = Idle \/ task'[p] = t
        BY <1>1, <3>2, <4>1, Zenon
      <4> QED
        BY <1>4, <3>1, <4>2, <4>3
    <3> QED
      BY <1>4, <3>1, <3>2, <3>3
  <2>2. Pageref(p, "fd") = Pageref(p, "data")
    BY <2>1 DEF Checked
  <2>3. MyEnd(p) \in {"R", "W"}
    <3>1. task[p].op \in {"read", "write", "isclosed"} /\ task[p].fd \in FD
      BY <1>1, <2>1, Zenon DEF Control, Checking, Task
    <3>2. fdt[p][task[p].fd] \in Slot /\ fdt[p][task[p].fd].end # "none"
      BY <1>1, <3>1, SMTT(30) DEF Slots, Mapped
    <3> QED
      BY <3>2 DEF Slot, End, MyEnd
  <2>4. Gone(Opposite(MyEnd(p)))
    BY <2>2, <2>3, EqualCounts, Zenon DEF Pageref
  <2>5. MyEnd(p)' = MyEnd(p)
    BY <2>1 DEF MyEnd
  <2>6. Gone(Opposite(MyEnd(p)))'
    BY <2>1, <2>4, <2>5, Zenon DEF Gone, Ends, Opposite
  <2> QED
    BY <1>4, <2>6, Zenon DEF Checked
<1>5. CASE task'[p].pc \notin {"second", "again", "eof"}
  BY <1>5, SMTT(30) DEF Checked
<1>6. First(p) \/ Second(p) \/ (Again(p) /\ task'[p].pc = "eof")
      \/ task'[p].pc \notin {"second", "again", "eof"}
  <2>1. CASE Snap(p) \/ Eof(p)
    BY <1>1, <2>1 DEF Snap, Eof, Done, Idle, Task
  <2>7. CASE Again(p)
    <3>1. PICK x \in {"snap", "eof", "loop"} :
            \/ task' = [task EXCEPT ![p] = Idle]
            \/ task' = [task EXCEPT ![p] = [task[p] EXCEPT !.closed = FALSE, !.first = "fd", !.pc = x]]
      BY <1>1, <2>7, Zenon DEF Again, Done, Task
    <3>2. task'[p].pc \in {"idle", x}
      <4>1. PICK t : t = [task[p] EXCEPT !.closed = FALSE, !.first = "fd", !.pc = x]
        OBVIOUS
      <4>2. t.pc = x /\ Idle.pc = "idle"
        BY <1>1, <4>1 DEF Task, Idle
      <4>3. task'[p] = Idle \/ task'[p] = t
        BY <1>1, <3>1, <4>1
      <4> QED
        BY <4>2, <4>3
    <3> QED
      BY <2>7, <3>2
  <2>2. CASE Transfer(p)
    BY <1>1, <2>2 DEF Transfer, Loop, Copy, Inc, Goto, Done, Idle, Task
  <2>3. CASE Descriptors(p)
    BY <1>1, <2>3 DEF Descriptors, Unmap, DupData, DupFd, Goto, Done, Idle, Task
  <2>4. CASE CloseOrDup(p)
    <3>1. PICK t : task' = [task EXCEPT ![p] = t] /\ t.pc \in {"snap", "unmap", "dupdata"}
      <4>1. ASSUME NEW f \in FD, Pipeisclosed(p, f)
            PROVE  \E t : task' = [task EXCEPT ![p] = t] /\ t.pc \in {"snap", "unmap", "dupdata"}
        <5> WITNESS [Idle EXCEPT !.op = "isclosed", !.pc = "snap", !.fd = f]
        <5> QED
          BY <4>1 DEF Pipeisclosed, Call, Idle
      <4>2. ASSUME NEW f \in FD, Close(p, f)
            PROVE  \E t : task' = [task EXCEPT ![p] = t] /\ t.pc \in {"snap", "unmap", "dupdata"}
        <5> WITNESS [Idle EXCEPT !.op = "close", !.pc = "unmap", !.new = f]
        <5> QED
          BY <4>2 DEF Close, Call, Idle
      <4>3. ASSUME NEW f \in FD, NEW g \in FD, Dup(p, f, g)
            PROVE  \E t : task' = [task EXCEPT ![p] = t] /\ t.pc \in {"snap", "unmap", "dupdata"}
        <5> WITNESS [Idle EXCEPT !.op = "dup", !.fd = f, !.new = g,
                                 !.pc = IF Mapped(p, g) THEN "unmap" ELSE "dupdata"]
        <5> QED
          BY <4>3 DEF Dup, Call, Idle
      <4> QED
        BY <2>4, <4>1, <4>2, <4>3 DEF CloseOrDup
    <3> QED
      BY <1>1, <3>1, Zenon
  <2>5. CASE ReadOrWrite(p)
    <3>1. PICK f \in FD, n \in 1 .. MaxBytes, x \in {"read", "write"} :
            task' = [task EXCEPT ![p] = [Idle EXCEPT !.op = x, !.pc = "loop", !.fd = f, !.n = n]]
      BY <2>5, Zenon DEF ReadOrWrite, Read, Write, Call
    <3>2. PICK t : t = [Idle EXCEPT !.op = x, !.pc = "loop", !.fd = f, !.n = n]
      OBVIOUS
    <3> QED
      BY <1>1, <3>1, <3>2 DEF Idle
  <2>6. CASE Destroy(p)
    BY <1>1, <2>6 DEF Destroy, Done, Idle
  <2> QED
    BY <2>1, <2>2, <2>3, <2>4, <2>5, <2>6, <2>7, Zenon DEF Step, Continue, Check
<1> QED
  BY <1>2, <1>3, <1>4, <1>5, <1>6, Zenon

LEMMA ClosedStep ==
  ASSUME \A c, d \in CPU : c = d PROVE PipeInv /\ ClosedInv /\ [Next]_vars => ClosedInv'
<1> SUFFICES ASSUME PipeInv, ClosedInv, [Next]_vars, NEW p \in Proc PROVE Checked(p)'
  BY DEF ClosedInv
<1> USE PipeAssumption
<1>1. Checked(p) /\ cpu \in [CPU -> Proc \cup {NoProc}] /\ ran \in [Proc -> BOOLEAN]
      /\ task[p] \in Task /\ fdt \in [Proc -> [FD -> Slot]]
  BY DEF ClosedInv, PipeInv, TypeOK
<1>2. CASE Step(p)
  BY <1>1, <1>2, OwnChecked, SMTT(30)
<1>3. ASSUME NEW q \in Proc \ {p}, Step(q) PROVE Checked(p)'
  <2>1. Running(q) /\ task'[p] = task[p] /\ fdt'[p] = fdt[p]
        /\ \A c \in CPU : cpu'[c] = cpu[c] \/ cpu'[c] = NoProc
    BY <1>3, OwnOnly
  <2>2. ~Running(p)'
    BY <2>1, Zenon DEF Running
  <2>3. MyEnd(p)' = MyEnd(p)
    BY <2>1, Zenon DEF MyEnd
  <2>4. task[p].pc = "eof" => Gone(Opposite(MyEnd(p)))'
    <3>1. PICK x \in {"R", "W"} : x = Opposite(MyEnd(p))
      BY DEF Opposite
    <3>2. Opposite(MyEnd(p))' = x
      BY <2>3, <3>1, Zenon DEF Opposite
    <3>3. task[p].pc = "eof" => Gone(x)'
      BY <1>1, <1>3, <3>1, GoneStays, Zenon DEF Checked
    <3> QED
      BY <3>2, <3>3 DEF Gone, Ends
  <2> QED
    BY <2>1, <2>2, <2>4, Zenon DEF Checked
<1>4. ASSUME NEW c \in CPU, NEW q \in Proc, EnvRun(c, q) PROVE Checked(p)'
  <2>1. UNCHANGED <<fdt, task>>
    BY <1>4, Zenon DEF EnvRun
  <2>2. Running(p)' /\ task[p].pc \in {"second", "again"} => ran'[p]
    <3>1. CASE q = p
      BY <1>1, <1>4, <3>1, ZenonT(40) DEF EnvRun
    <3>2. CASE q # p
      BY <1>1, <1>4, <3>2, Zenon DEF EnvRun, Running
    <3> QED
      BY <3>1, <3>2, SMTT(30)
  <2>3. task[p].pc = "eof" => Gone(Opposite(MyEnd(p)))'
    BY <1>1, <2>1 DEF Checked, Gone, Ends, MyEnd, Opposite
  <2> QED
    BY <2>1, <2>2, <2>3, Zenon DEF Checked
<1>5. CASE UNCHANGED vars
  BY <1>1, <1>5, ZenonT(40) DEF vars, Checked, Running, Pageref, Ends, Datas, MyEnd, Gone, Opposite
<1> QED
  BY <1>2, <1>3, <1>4, <1>5 DEF Next, Step

\* _pipeisclosed is never wrong on one CPU: when it says "closed", nobody has the
\* other end open, however reads, writes, dup, close and exits interleave and in
\* whichever order the two reference counts are read.
THEOREM ClosedMeansGone ==
  ASSUME \A c, d \in CPU : c = d PROVE Spec => []NoFalseClosed
<1>1. Init => ClosedInv
  BY SMTT(30) DEF Init, ClosedInv, Checked, Idle
<1>2. PipeInv /\ ClosedInv /\ [Next]_vars => ClosedInv'
  BY ClosedStep, Zenon
<1>3. ClosedInv => NoFalseClosed
  BY DEF ClosedInv, Checked, NoFalseClosed
<1> QED
  BY PipeInvariance, <1>1, <1>2, <1>3, PTL DEF Spec
=============================================================================
