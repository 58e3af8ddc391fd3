---- MODULE Tcp ----
(***************************************************************************)
(* The TCP of the network server: lwIP's tcp.c, tcp_in.c and tcp_out.c.    *)
(*                                                                         *)
(* Two hosts run that code: "A" connects, "B" listens.  Each side is one   *)
(* tcp_pcb; the network between them loses and reorders segments, and      *)
(* retransmission duplicates them.  Sequence numbers are counted modulo    *)
(* SeqSpace (2^32 in the code) with the code's signed comparisons, and     *)
(* every byte carries its place in the stream it was written to, so that a *)
(* wrong trim of a segment shows up in what the reader is given.           *)
(*                                                                         *)
(* Time is abstracted: the slow timer may find any of its clocks expired.  *)
(* Clocks, round-trip estimates, PSH, options, ports and the MSS exchange  *)
(* are left out.  Memory does not run out except where a constant of the   *)
(* code bounds it (send buffer, queue length, the pcb of a new connection).*)
(* The receive callback never refuses data: the JOS port blocks instead    *)
(* (sys_mbox_trypost), which NetServ models.                               *)
(***************************************************************************)
EXTENDS Integers, FiniteSets, SequencesExt

CONSTANTS
  SeqSpace,          \* size of the space of sequence numbers
  Iss,               \* the value tcp_next_iss returns, for each side
  TCP_MSS, TCP_WND, TCP_SND_BUF, TCP_SND_QUEUELEN,
  TCP_MAXRTX, TCP_SYNMAXRTX,
  NrtxSpace,         \* range of the counter nrtx (u8_t in the code)
  DupAcks,           \* duplicate ACKs that start a fast retransmit (3 in the code)
  Limits             \* the bounds of the instances: see lim

VARIABLES
  pcb,               \* the protocol control block of each side
  net,               \* the segments on their way to each side
  app,               \* what the program of each side did and saw
  ticks,             \* expiries of the slow timer so far, where they are bounded
  lim                \* bounds: bytes each program writes, programs that close,
                     \* segments in flight towards each side, expiries of the
                     \* slow timer (-1: no bound)

vars == <<pcb, net, app, ticks, lim>>

Side == {"A", "B"}
Peer(x) == IF x = "A" THEN "B" ELSE "A"

(***************************************************************************)
(* Sequence numbers                                                        *)
(***************************************************************************)
Seq32(n) == n % SeqSpace
SEQ_LT(a, b) == Seq32(a - b) >= SeqSpace \div 2
SEQ_LEQ(a, b) == a = b \/ SEQ_LT(a, b)
SEQ_BETWEEN(a, b, c) == ~SEQ_LT(a, b) /\ SEQ_LEQ(a, c)

Capped(n) == IF n > TCP_WND THEN TCP_WND ELSE n
Least(a, b) == IF a < b THEN a ELSE b
Most(a, b) == IF a > b THEN a ELSE b
U16 == 65536

(***************************************************************************)
(* Segments: on the wire, and on the queues of a pcb (n counts the pbufs)  *)
(***************************************************************************)
Controls(s) == s.flags \cap {"SYN", "FIN"}
TCPLEN(s) == Len(s.data) + Cardinality(Controls(s))
End(s) == Seq32(s.seq + TCPLEN(s))

tcp_rst(seq, ack) ==
  [seq |-> Seq32(seq), ack |-> Seq32(ack), wnd |-> TCP_WND, flags |-> {"RST", "ACK"}, data |-> <<>>]

EmptyAck_ooseq(p) ==
  [seq |-> p.snd_nxt, wnd |-> p.rcv_ann_wnd, flags |-> {"ACK"}, data |-> <<>>,
   ack |-> IF p.ooseq = <<>> THEN p.rcv_nxt ELSE End(Last(p.ooseq))]
EmptyAck(p) ==
  [seq |-> p.snd_nxt, ack |-> p.rcv_nxt, wnd |-> p.rcv_ann_wnd, flags |-> {"ACK"}, data |-> <<>>]

tcp_output_segment(s, p) ==
  [seq |-> s.seq, ack |-> p.rcv_nxt, wnd |-> p.rcv_ann_wnd, data |-> s.data,
   flags |-> IF p.state = "SYN_SENT" THEN s.flags ELSE s.flags \cup {"ACK"}]

\* the longest run at the front of q whose members all satisfy Test
Front1(q, Test(_)) ==
  CHOOSE k \in 0 .. Len(q) :
    /\ \A i \in 1 .. k : Test(i)
    /\ k = Len(q) \/ ~Test(k + 1)
Rest(q, k) == SubSeq(q, k + 1, Len(q))
Pbufs(q) == FoldLeft(LAMBDA n, s : n + s.n, 0, q)

(***************************************************************************)
(* Protocol control blocks                                                 *)
(***************************************************************************)
tcp_alloc(x) ==
  [state |-> "CLOSED", ackDelay |-> FALSE, ackNow |-> FALSE, infr |-> FALSE,
   fin |-> FALSE, memerr |-> FALSE, persist |-> FALSE,
   rcv_nxt |-> 0, rcv_wnd |-> TCP_WND, rcv_ann_wnd |-> TCP_WND,
   snd_nxt |-> Iss[x], snd_max |-> Iss[x], lastack |-> Iss[x], snd_lbb |-> Iss[x],
   snd_wl1 |-> 0, snd_wl2 |-> Iss[x], snd_wnd |-> 0, snd_buf |-> TCP_SND_BUF,
   qlen |-> 0, unsent |-> <<>>, unacked |-> <<>>, ooseq |-> <<>>,
   cwnd |-> 1, ssthresh |-> 0, dupacks |-> 0, nrtx |-> 0]

tcp_pcb_purge(p) == [p EXCEPT !.unsent = <<>>, !.unacked = <<>>, !.ooseq = <<>>, !.qlen = 0]

\* A side whose pcb is in no list: the fields of a freed pcb are gone
Free(x) == tcp_alloc(x)

\* the state of a pcb and what it sent, as the handlers hand it on
With(p, out) == [p |-> p, out |-> out]

(***************************************************************************)
(* tcp_out.c                                                               *)
(***************************************************************************)
\* tcp_enqueue breaks the data into segments of TCP_MSS bytes
Pieces(data) == IF data = <<>> THEN 1 ELSE (Len(data) + TCP_MSS - 1) \div TCP_MSS

Segments(p, data, flags) ==
  [i \in 1 .. Pieces(data) |->
    [seq |-> Seq32(p.snd_lbb + (i - 1) * TCP_MSS), flags |-> flags, n |-> 1,
     data |-> SubSeq(data, (i - 1) * TCP_MSS + 1, Least(i * TCP_MSS, Len(data)))]]

HasRoom(p, data) ==
  /\ Len(data) <= p.snd_buf
  /\ p.qlen < TCP_SND_QUEUELEN
  /\ p.qlen + Pieces(data) <= TCP_SND_QUEUELEN

\* whether the first new segment is chained to the last unsent one
Chains(p, segs) ==
  /\ p.unsent # <<>>
  /\ Controls(Last(p.unsent)) = {} /\ Controls(segs[1]) = {}
  /\ Len(Last(p.unsent).data) + Len(segs[1].data) <= TCP_MSS

Chained(p, segs) ==
  LET u == Last(p.unsent)
  IN  Front(p.unsent)
      \o <<[u EXCEPT !.data = @ \o segs[1].data, !.n = @ + segs[1].n]>>
      \o Tail(segs)

tcp_enqueue(p, data, flags) ==
  LET segs == Segments(p, data, flags)
      len  == Len(data) + Cardinality(flags \cap {"SYN", "FIN"})
  IN  IF ~HasRoom(p, data)
      THEN [p EXCEPT !.memerr = TRUE]
      ELSE [p EXCEPT !.unsent  = IF Chains(p, segs) THEN Chained(p, segs) ELSE @ \o segs,
                     !.snd_lbb = Seq32(@ + len),
                     !.snd_buf = (@ - len) % U16,
                     !.qlen    = @ + Pieces(data),
                     !.fin     = @ \/ "FIN" \in flags]

\* whether the window v lets segment s of the unsent queue go (unsigned arithmetic)
Fits(p, s, v) == Seq32(s.seq - p.lastack + Len(s.data)) <= v

\* a segment sent again by fast retransmit goes to the head of the unacked queue
Enlist(q, s) == IF q # <<>> /\ SEQ_LT(s.seq, Last(q).seq) THEN <<s>> \o q ELSE Append(q, s)

tcp_do_output_nagle(p) == p.unacked = <<>> \/ Len(p.unsent) > 1

\* the i-th unsent segment may go: the window allows it and Nagle does not hold it
MayGo(p, i) ==
  /\ Fits(p, p.unsent[i], Least(p.snd_wnd, p.cwnd))
  /\ (i = 1 /\ p.unacked = <<>>) \/ i < Len(p.unsent) \/ p.memerr \/ p.fin

SendQueued(w) ==
  LET p    == w.p
      k    == Front1(p.unsent, LAMBDA i : MayGo(p, i))
      sent == SubSeq(p.unsent, 1, k)
      rest == Rest(p.unsent, k)
      nxt  == IF k = 0 THEN p.snd_nxt ELSE End(Last(sent))
      acks == k > 0 /\ p.state # "SYN_SENT"
  IN  With([p EXCEPT !.unsent   = rest,
                     !.unacked  = FoldLeft(Enlist, @, sent),
                     !.snd_nxt  = nxt,
                     !.snd_max  = IF SEQ_LT(@, nxt) THEN nxt ELSE @,
                     !.ackDelay = @ /\ ~acks,
                     !.ackNow   = @ /\ ~acks,
                     !.persist  = @ \/ (rest # <<>> /\ ~Fits(p, rest[1], p.snd_wnd)),
                     !.memerr   = FALSE],
           w.out \cup {tcp_output_segment(sent[i], p) : i \in 1 .. k})

tcp_output(w) ==
  LET p == w.p
  IN  IF p.ackNow /\ (p.unsent = <<>> \/ ~Fits(p, p.unsent[1], Least(p.snd_wnd, p.cwnd)))
      THEN With([p EXCEPT !.ackNow = FALSE, !.ackDelay = FALSE], w.out \cup {EmptyAck(p)})
      ELSE SendQueued(w)

tcp_ack_now(p) == [p EXCEPT !.ackNow = TRUE]

\* Retransmission: all unacked segments (timeout), or the first one (duplicate ACKs)
tcp_rexmit_rto(p) ==
  [p EXCEPT !.unsent = p.unacked \o @, !.unacked = <<>>,
            !.snd_nxt = p.unacked[1].seq, !.nrtx = (@ + 1) % NrtxSpace]

tcp_rexmit(p) ==
  [p EXCEPT !.unsent = <<p.unacked[1]>> \o @, !.unacked = Tail(@),
            !.snd_nxt = p.unacked[1].seq, !.nrtx = (@ + 1) % NrtxSpace]

\* the probe of a closed window carries one byte and no ACK flag
tcp_zero_window_probe(p) ==
  LET q == p.unacked \o p.unsent
  IN  IF q = <<>> THEN {}
      ELSE {[seq |-> q[1].seq, ack |-> p.rcv_nxt, wnd |-> p.rcv_ann_wnd, flags |-> {},
             data |-> IF q[1].data = <<>> THEN <<0>> ELSE <<q[1].data[1]>>]}

(***************************************************************************)
(* tcp_receive: the acknowledgement                                        *)
(***************************************************************************)
WindowUpdate(p, s) ==
  IF \/ SEQ_LT(p.snd_wl1, s.seq)
     \/ p.snd_wl1 = s.seq /\ SEQ_LT(p.snd_wl2, s.ack)
     \/ p.snd_wl2 = s.ack /\ s.wnd > p.snd_wnd
  THEN [p EXCEPT !.snd_wnd = s.wnd, !.snd_wl1 = s.seq, !.snd_wl2 = s.ack,
                 !.persist = @ /\ s.wnd = 0]
  ELSE p

\* the third duplicate ACK retransmits, the later ones inflate the window
FastRetransmit(p) ==
  LET half == Most(Least(p.cwnd, p.snd_wnd) \div 2, 2 * TCP_MSS)
  IN  IF p.infr THEN [p EXCEPT !.cwnd = Capped(@ + TCP_MSS)]
      ELSE [tcp_rexmit(p) EXCEPT !.ssthresh = Capped(half), !.infr = TRUE,
                                 !.cwnd = Capped(half + 3 * TCP_MSS)]

\* old is the pcb before the window update
DuplicateAck(old, p) ==
  LET q == [p EXCEPT !.dupacks = Least(@ + 1, DupAcks)]
  IN  IF Seq32(p.snd_wl1 + p.snd_wnd) # Seq32(old.snd_wl1 + old.snd_wnd) THEN p
      ELSE IF q.dupacks >= DupAcks /\ q.unacked # <<>> THEN FastRetransmit(q) ELSE q

Grown(p) ==
  IF p.cwnd < p.ssthresh THEN Capped(p.cwnd + TCP_MSS)
  ELSE Capped(p.cwnd + (TCP_MSS * TCP_MSS) \div p.cwnd)

NewAck_one(p, s) ==
  [p EXCEPT !.nrtx = 0, !.dupacks = 0, !.lastack = s.ack,
            !.snd_buf = (@ + Seq32(s.ack - p.lastack)) % U16,
            !.cwnd    = Grown(p),
            !.unacked = Tail(@), !.qlen = @ - p.unacked[1].n]
NewAck(p, s) ==
  LET q == IF p.infr THEN [p EXCEPT !.infr = FALSE, !.cwnd = p.ssthresh] ELSE p
      k == Front1(q.unacked, LAMBDA i : SEQ_LEQ(End(q.unacked[i]), s.ack))
  IN  [q EXCEPT !.nrtx = 0, !.dupacks = 0, !.lastack = s.ack,
                !.snd_buf = (@ + Seq32(s.ack - p.lastack)) % U16,
                !.cwnd    = Grown(q),
                !.unacked = Rest(@, k),
                !.qlen    = @ - Pbufs(SubSeq(q.unacked, 1, k))]

\* segments queued again for retransmission may be acknowledged meanwhile
AckUnsent(p, s) ==
  LET k == Front1(p.unsent, LAMBDA i : SEQ_BETWEEN(s.ack, End(p.unsent[i]), p.snd_max))
      last == Least(k + 1, Len(p.unsent))      \* the last one that was at the front
  IN  [p EXCEPT !.unsent = Rest(@, k),
                !.qlen = @ - Pbufs(SubSeq(p.unsent, 1, k)),
                !.snd_nxt = IF k > 0 /\ last > 1 THEN p.unsent[last].seq ELSE @]

ReceiveAck(p, s) ==
  LET q == WindowUpdate(p, s)
  IN  IF "ACK" \notin s.flags THEN p
      ELSE AckUnsent(IF q.lastack = s.ack THEN DuplicateAck(p, q)
                     ELSE IF SEQ_BETWEEN(s.ack, Seq32(q.lastack + 1), q.snd_max) THEN NewAck(q, s)
                     ELSE q, s)

(***************************************************************************)
(* tcp_receive: the data.  r is the receive in progress: the pcb, the data *)
(* for the program, whether a FIN was reached and whether the segment was  *)
(* the next in sequence (accepted_inseq).                                  *)
(***************************************************************************)
Nothing(p) == [p |-> p, data |-> <<>>, fin |-> FALSE, inseq |-> FALSE]

InWindow(p, seq) == SEQ_BETWEEN(seq, p.rcv_nxt, Seq32(p.rcv_nxt + p.rcv_wnd - 1))

\* the part of the segment below rcv_nxt is cut off
TrimFirstEdge_seq(p, s) ==
  IF SEQ_BETWEEN(p.rcv_nxt, Seq32(s.seq + 1), Seq32(s.seq + TCPLEN(s) - 1))
  THEN [s EXCEPT !.seq = p.rcv_nxt] ELSE s
TrimFirstEdge(p, s) ==
  IF SEQ_BETWEEN(p.rcv_nxt, Seq32(s.seq + 1), Seq32(s.seq + TCPLEN(s) - 1))
  THEN [s EXCEPT !.data = Rest(@, Seq32(p.rcv_nxt - s.seq)), !.seq = p.rcv_nxt]
  ELSE s

TrimSecondEdge(s, edge) ==
  IF Len(s.data) > Seq32(edge - s.seq)
  THEN [s EXCEPT !.data = SubSeq(@, 1, Seq32(edge - s.seq))] ELSE s

\* what is left of an in-sequence segment, and of the ooseq queue, where they overlap
MeetsOoseq(p, s) ==
  p.ooseq # <<>> /\ SEQ_LEQ(p.ooseq[1].seq, Seq32(s.seq + Len(s.data)))
TrimToOoseq(p, s) ==
  IF MeetsOoseq(p, s) /\ p.ooseq[1].data # <<>>
  THEN [s EXCEPT !.data = SubSeq(@, 1, Seq32(p.ooseq[1].seq - s.seq))] ELSE s
DropSameFlags(p, s) ==
  IF MeetsOoseq(p, s) /\ p.ooseq[1].data = <<>> /\ Controls(s) = Controls(p.ooseq[1])
  THEN Tail(p.ooseq) ELSE p.ooseq

\* rcv_nxt and the windows move over a segment taken in
Take(r, s) ==
  LET len == TCPLEN(s)
  IN  [r EXCEPT !.p.rcv_nxt = Seq32(@ + len),
                !.p.rcv_wnd = Most(@ - len, 0), !.p.rcv_ann_wnd = Most(@ - len, 0),
                !.data = @ \o s.data,
                !.fin = @ \/ "FIN" \in s.flags]

\* segments of the ooseq queue that are now in sequence
RECURSIVE Dequeue(_)
Dequeue(r) ==
  IF r.p.ooseq = <<>> \/ r.p.ooseq[1].seq # r.p.rcv_nxt THEN r
  ELSE LET s == r.p.ooseq[1]
           t == Take(r, s)
       IN  Dequeue([t EXCEPT !.p.ooseq = Tail(@),
                             !.p.state = IF "FIN" \in s.flags /\ @ = "ESTABLISHED"
                                         THEN "CLOSE_WAIT" ELSE @])

\* every other segment is acknowledged at once
tcp_ack(p) == [p EXCEPT !.ackNow = @ \/ p.ackDelay, !.ackDelay = ~@]

InSequence(p, s0) ==
  LET s == TrimToOoseq(p, s0)
      r == Take(Nothing([p EXCEPT !.ooseq = DropSameFlags(p, s0)]), s)
      \* a FIN seen again in CLOSE_WAIT is not counted again
      t == IF p.state = "CLOSE_WAIT" THEN [r EXCEPT !.p.rcv_nxt = p.rcv_nxt] ELSE r
      d == Dequeue(t)
  IN  [d EXCEPT !.p = tcp_ack(d.p), !.inseq = TRUE]

\* the ooseq queue is ordered by sequence number; of two segments that start
\* together the longer stays, and neighbours are trimmed where they overlap
Queue(q, s) ==
  LET j == Cardinality({i \in 1 .. Len(q) : SEQ_LT(q[i].seq, s.seq)})
      t == IF j < Len(q) THEN TrimSecondEdge(s, q[j + 1].seq) ELSE s
  IN  IF j < Len(q) /\ q[j + 1].seq = s.seq
      THEN IF Len(s.data) <= Len(q[j + 1].data) THEN q
           ELSE [q EXCEPT ![j + 1] = IF j + 1 < Len(q) THEN TrimSecondEdge(s, q[j + 2].seq) ELSE s]
      ELSE (IF j = 0 THEN <<>> ELSE Append(SubSeq(q, 1, j - 1), TrimSecondEdge(q[j], s.seq)))
           \o <<t>> \o Rest(q, j)

ReceiveData(p, s) ==
  LET t == TrimFirstEdge(p, s)
      q == IF SEQ_LT(t.seq, p.rcv_nxt) THEN tcp_ack_now(p) ELSE p
      o == [seq |-> t.seq, flags |-> t.flags, data |-> t.data]
  IN  IF TCPLEN(s) = 0
      THEN Nothing(IF InWindow(p, s.seq) THEN p ELSE tcp_ack_now(p))
      ELSE IF ~InWindow(q, t.seq) THEN Nothing(tcp_ack_now(q))
      ELSE IF t.seq = q.rcv_nxt THEN InSequence(q, t)
      ELSE Nothing([tcp_ack_now(q) EXCEPT !.ooseq = Queue(@, o)])

tcp_receive(p, s) == ReceiveData(ReceiveAck(p, s), s)

(***************************************************************************)
(* tcp_process: the state machine.  The result says what became of the     *)
(* connection (event), what to hand to the program and what was sent.      *)
(***************************************************************************)
Done(r, out, event) == [p |-> r.p, out |-> out, data |-> r.data, fin |-> r.fin, event |-> event]
Quiet(p) == Done(Nothing(p), {}, "none")
Enter(r, state) == [r EXCEPT !.p.state = state]
Reset(s) == {tcp_rst(s.ack, s.seq + TCPLEN(s))}

RstAcceptable(p, s) ==
  IF p.state = "SYN_SENT" THEN s.ack = p.snd_nxt
  ELSE SEQ_BETWEEN(s.seq, p.rcv_nxt, Seq32(p.rcv_nxt + p.rcv_wnd))

SynSent(p, s) ==
  IF {"ACK", "SYN"} \subseteq s.flags /\ s.ack = Seq32(p.unacked[1].seq + 1)
  THEN Done(Nothing(tcp_ack_now(
         [p EXCEPT !.state = "ESTABLISHED", !.snd_buf = @ + 1, !.rcv_nxt = Seq32(s.seq + 1),
                   !.lastack = s.ack, !.snd_wnd = s.wnd, !.snd_wl1 = Seq32(s.seq - 1),
                   !.ssthresh = Capped(TCP_MSS * 10),
                   !.cwnd = IF @ = 1 THEN Capped(2 * TCP_MSS) ELSE TCP_MSS,
                   !.qlen = @ - 1, !.unacked = Tail(@),
                   !.nrtx = IF Len(p.unacked) > 1 THEN 0 ELSE @])), {}, "connected")
  ELSE IF "ACK" \in s.flags THEN Done(Nothing(p), Reset(s), "none")
  ELSE Quiet(p)

\* the FIN is the end of the data that is in sequence
PassiveClose(r, s) ==
  IF "FIN" \in s.flags /\ r.inseq THEN Enter([r EXCEPT !.p = tcp_ack_now(@)], "CLOSE_WAIT") ELSE r

\* accepts: whether the accept callback takes the connection
SynRcvd(p, s, accepts) ==
  LET r == tcp_receive([p EXCEPT !.state = "ESTABLISHED"], s)
      w == [r EXCEPT !.p.cwnd = IF p.cwnd = 1 THEN Capped(2 * TCP_MSS) ELSE TCP_MSS]
  IN  IF "ACK" \notin s.flags THEN Quiet(p)
      ELSE IF ~SEQ_BETWEEN(s.ack, Seq32(p.lastack + 1), p.snd_nxt)
           THEN Done(Nothing(p), Reset(s), "none")
      ELSE IF ~accepts THEN Done(Nothing(p), {tcp_rst(p.snd_nxt, p.rcv_nxt)}, "aborted")
      ELSE Done(PassiveClose(w, s), {}, "accepted")

\* our FIN is acknowledged
FinAcked(r, s) == "ACK" \in s.flags /\ s.ack = r.p.snd_nxt
TimeWait(r) == Enter([r EXCEPT !.p = tcp_pcb_purge(tcp_ack_now(@))], "TIME_WAIT")

Closing(r, s) ==
  CASE r.p.state = "FIN_WAIT_1" /\ "FIN" \in s.flags ->
         IF FinAcked(r, s) THEN TimeWait(r) ELSE Enter([r EXCEPT !.p = tcp_ack_now(@)], "CLOSING")
    [] r.p.state = "FIN_WAIT_1" /\ FinAcked(r, s) -> Enter(r, "FIN_WAIT_2")
    [] r.p.state = "FIN_WAIT_2" /\ "FIN" \in s.flags -> TimeWait(r)
    [] r.p.state = "CLOSING" /\ FinAcked(r, s) -> TimeWait(r)
    [] OTHER -> r

tcp_process(p, s, accepts) ==
  LET r == tcp_receive(p, s)
  IN  CASE "RST" \in s.flags ->
             Done(Nothing([p EXCEPT !.ackDelay = @ /\ ~RstAcceptable(p, s)]), {},
                  IF RstAcceptable(p, s) THEN "reset" ELSE "none")
        [] p.state = "SYN_SENT" -> SynSent(p, s)
        [] p.state = "SYN_RCVD" -> SynRcvd(p, s, accepts)
        [] p.state \in {"ESTABLISHED", "CLOSE_WAIT"} -> Done(PassiveClose(r, s), {}, "none")
        [] p.state = "LAST_ACK" -> Done(r, {}, IF FinAcked(r, s) THEN "closed" ELSE "none")
        [] OTHER -> Done(Closing(r, s), {}, "none")

(***************************************************************************)
(* tcp_input: the rest of the handler, and the segments that reach no      *)
(* active pcb                                                              *)
(***************************************************************************)
\* a delayed ACK is sent before the pcb goes (tcp_pcb_remove)
LastAck(p) == IF p.ackDelay THEN {EmptyAck(p)} ELSE {}

ToActive(x, s, accepts) ==
  LET d == tcp_process(pcb[x], s, accepts)
  IN  CASE d.event \in {"reset", "aborted"} -> [d EXCEPT !.p = Free(x)]
        [] d.event = "closed" -> [d EXCEPT !.p = Free(x), !.out = @ \cup LastAck(d.p)]
        [] OTHER -> LET w == tcp_output(With(d.p, d.out)) IN [d EXCEPT !.p = w.p, !.out = w.out]

tcp_timewait_input(p, s) ==
  LET q == [p EXCEPT !.rcv_nxt = IF SEQ_LT(@, End(s)) THEN End(s) ELSE @,
                     !.ackNow = @ \/ TCPLEN(s) > 0]
      w == tcp_output(With(q, {}))
  IN  Done(Nothing(w.p), w.out, "none")

\* allocates: whether tcp_alloc has a pcb for the connection
tcp_listen_input(x, s, allocates) ==
  LET p == [tcp_alloc(x) EXCEPT !.state = "SYN_RCVD", !.rcv_nxt = Seq32(s.seq + 1),
                                !.snd_wnd = s.wnd, !.ssthresh = s.wnd,
                                !.snd_wl1 = Seq32(s.seq - 1)]
      w == tcp_output(With(tcp_enqueue(p, <<>>, {"SYN", "ACK"}), {}))
  IN  IF "ACK" \in s.flags
      THEN Done(Nothing(pcb[x]), {tcp_rst(s.ack + 1, s.seq + TCPLEN(s))}, "none")
      ELSE IF "SYN" \in s.flags /\ allocates THEN Done(Nothing(w.p), w.out, "none")
      ELSE Quiet(pcb[x])

NoMatch(x, s) ==
  Done(Nothing(pcb[x]), IF "RST" \in s.flags THEN {} ELSE Reset(s), "none")

\* B's pcb is allocated once: for later connections tcp_alloc finds none
tcp_input(x, s, ok) ==
  CASE pcb[x].state = "TIME_WAIT" -> tcp_timewait_input(pcb[x], s)
    [] pcb[x].state # "CLOSED" -> ToActive(x, s, ok)
    [] pcb[x].state = "CLOSED" /\ x = "B" -> tcp_listen_input(x, s, ok /\ ~app[x].used)
    [] OTHER -> NoMatch(x, s)

(***************************************************************************)
(* The network: a segment sent may be lost, at once or by never arriving   *)
(***************************************************************************)
Transmit(x, taken, out) ==
  \E kept \in SUBSET out :
    LET to == net[Peer(x)] \cup kept
    IN  /\ Cardinality(to) <= lim.cap[Peer(x)]
        /\ net' = [net EXCEPT ![Peer(x)] = to, ![x] = @ \ taken]
        /\ UNCHANGED lim

\* what the callbacks tell the program
Told(a, d) ==
  [a EXCEPT !.up   = @ \/ d.event \in {"connected", "accepted"},
            !.err  = @ \/ (d.event = "reset" /\ ~a.closed),
            !.got  = IF a.closed THEN @ ELSE @ \o d.data,
            !.unread = IF a.closed THEN @ ELSE @ + Len(d.data),
            !.eof  = @ \/ (d.fin /\ ~a.closed),
            !.used = @ \/ d.p.state # "CLOSED"]

\* a choice that matters only in some states
Maybe(matters) == IF matters THEN BOOLEAN ELSE {FALSE}

\* ok: there is a pcb for a new connection, or the program accepts it
Deliver(x) ==
  \E s \in net[x], ok \in Maybe(pcb[x].state \in {"CLOSED", "SYN_RCVD"}) :
    LET d == tcp_input(x, s, ok)
    IN  /\ pcb' = [pcb EXCEPT ![x] = d.p]
        /\ app' = [app EXCEPT ![x] = Told(@, d)]
        /\ Transmit(x, {s}, d.out)
        /\ UNCHANGED ticks

(***************************************************************************)
(* The program's calls                                                     *)
(***************************************************************************)
Put(x, w) == /\ pcb' = [pcb EXCEPT ![x] = w.p]
             /\ Transmit(x, {}, w.out)

\* tcp_connect draws a second initial number, one tick after tcp_alloc's
tcp_connect(p) ==
  LET iss == Seq32(p.snd_lbb + 1)
      q == [p EXCEPT !.state = "SYN_SENT", !.snd_nxt = iss, !.lastack = Seq32(iss - 1),
                     !.snd_lbb = Seq32(iss - 1), !.snd_wnd = TCP_WND,
                     !.ssthresh = Capped(TCP_MSS * 10)]
  IN  tcp_output(With(tcp_enqueue(q, <<>>, {"SYN"}), {}))

Call(x, w) == Put(x, w) /\ UNCHANGED ticks

Connect ==
  /\ ~app["A"].used
  /\ app' = [app EXCEPT !["A"].used = TRUE]
  /\ Call("A", tcp_connect(tcp_alloc("A")))

tcp_output_nagle(w) == IF tcp_do_output_nagle(w.p) THEN tcp_output(w) ELSE w

\* do_writemore hands TCP as much of the program's n bytes as the send buffer takes
Write(x) ==
  /\ app[x].up /\ ~app[x].closed
  /\ pcb[x].state \in {"ESTABLISHED", "CLOSE_WAIT"}
  /\ \E n \in 1 .. lim.bytes[x] - app[x].wrote :
       LET p    == pcb[x]
           len  == Least(n, p.snd_buf)
           data == [i \in 1 .. len |-> app[x].wrote + i]
           q    == tcp_enqueue(p, data, {})
       IN  IF len = 0 \/ HasRoom(p, data)
           THEN /\ Call(x, tcp_output_nagle(With(IF len = 0 THEN p ELSE q, {})))
                /\ app' = [app EXCEPT ![x].wrote = @ + len]
           ELSE Call(x, tcp_output(With(q, {}))) /\ UNCHANGED app

\* tcp_recved opens the window again when the program has taken the data
tcp_recved(p, len) ==
  LET full == p.rcv_wnd + len > TCP_WND
      q == [p EXCEPT !.rcv_wnd = Least(@ + len, TCP_WND),
                     !.rcv_ann_wnd = IF full \/ p.rcv_wnd + len >= TCP_MSS
                                     THEN Least(p.rcv_wnd + len, TCP_WND) ELSE @]
  IN  IF ~q.ackDelay /\ ~q.ackNow THEN With(tcp_ack(q), {})
      ELSE IF q.ackDelay /\ q.rcv_wnd >= TCP_WND \div 2 THEN tcp_output(With(tcp_ack_now(q), {}))
      ELSE With(q, {})

Read(x) ==
  /\ ~app[x].closed /\ pcb[x].state # "CLOSED"
  /\ \E len \in 1 .. app[x].unread :
       /\ Call(x, tcp_recved(pcb[x], len))
       /\ app' = [app EXCEPT ![x].unread = @ - len]

\* where tcp_close leads: the FIN is queued, or the pcb is freed
SendFin(p, state) ==
  LET q == tcp_enqueue(p, <<>>, {"FIN"})
  IN  IF HasRoom(p, <<>>) THEN tcp_output(With([q EXCEPT !.state = state], {})) ELSE With(q, {})

tcp_close(x) ==
  CASE pcb[x].state = "SYN_SENT" -> With(Free(x), LastAck(pcb[x]))
    [] pcb[x].state = "ESTABLISHED" -> SendFin(pcb[x], "FIN_WAIT_1")
    [] pcb[x].state = "CLOSE_WAIT" -> SendFin(pcb[x], "LAST_ACK")

\* do_close_internal takes back the callbacks; it is called again if it failed
Close(x) ==
  /\ x \in lim.closes
  /\ app[x].up \/ x = "A"
  /\ pcb[x].state \in {"SYN_SENT", "ESTABLISHED", "CLOSE_WAIT"}
  /\ app' = [app EXCEPT ![x].closed = TRUE]
  /\ Call(x, tcp_close(x))

(***************************************************************************)
(* The timers                                                              *)
(***************************************************************************)
FastTmr(x) ==
  /\ pcb[x].ackDelay /\ pcb[x].state # "TIME_WAIT"
  /\ LET w == tcp_output(With(tcp_ack_now(pcb[x]), {}))
     IN  Call(x, [w EXCEPT !.p.ackDelay = FALSE, !.p.ackNow = FALSE])
  /\ UNCHANGED app

GaveUp_syn(p) == p.state = "SYN_SENT" /\ p.nrtx = TCP_SYNMAXRTX
GaveUp_data(p) == p.state # "SYN_SENT" /\ p.nrtx = TCP_MAXRTX
GaveUp(p) == (p.state = "SYN_SENT" /\ p.nrtx = TCP_SYNMAXRTX) \/ p.nrtx = TCP_MAXRTX

Retransmit(p) ==
  LET eff == Least(p.cwnd, p.snd_wnd) \div 2
  IN  tcp_output(With(tcp_rexmit_rto([p EXCEPT
        !.ssthresh = IF eff < TCP_MSS THEN Capped(2 * TCP_MSS) ELSE eff, !.cwnd = TCP_MSS]), {}))

Expired(p) ==
  IF p.persist THEN With(p, tcp_zero_window_probe(p))
  ELSE IF p.unacked # <<>> THEN Retransmit(p) ELSE With(p, {})

\* due: the retransmission or persist timer expired; old: the connection was
\* idle for as long as its state allows; poll: the poll interval is over
SlowTmr(x, due, old, poll) ==
  LET p == pcb[x]
      w == IF due /\ ~GaveUp(p) THEN Expired(p) ELSE With(p, {})
      v == IF old THEN [w EXCEPT !.p.ooseq = <<>>] ELSE w
      remove == GaveUp(p) \/ (old /\ p.state \in {"FIN_WAIT_2", "SYN_RCVD", "LAST_ACK"})
  IN  /\ p.state # "CLOSED"
      /\ lim.ticks = -1 \/ ticks < lim.ticks
      /\ ticks' = IF lim.ticks = -1 THEN ticks ELSE ticks + 1
      /\ CASE p.state = "TIME_WAIT" ->
                Put(x, With(IF old THEN Free(x) ELSE p, {})) /\ UNCHANGED app
           [] p.state # "TIME_WAIT" /\ remove ->
                /\ Put(x, With(Free(x), v.out))
                /\ app' = [app EXCEPT ![x].err = @ \/ ~app[x].closed]
           [] OTHER -> Put(x, IF poll THEN tcp_output(v) ELSE v) /\ UNCHANGED app

Queued(p) == p.unacked \o p.unsent

(***************************************************************************)
(* The system                                                              *)
(***************************************************************************)
Init ==
  /\ pcb = [x \in Side |-> Free(x)]
  /\ net = [x \in Side |-> {}]
  /\ app = [x \in Side |-> [used |-> FALSE, up |-> FALSE, wrote |-> 0, got |-> <<>>, unread |-> 0,
                            eof |-> FALSE, err |-> FALSE, closed |-> FALSE]]
  /\ ticks = 0
  /\ lim \in Limits

Tick(x) ==
  LET p == pcb[x]
  IN  \E due  \in Maybe(p.unacked # <<>> \/ p.persist),
         old  \in Maybe(p.ooseq # <<>> \/ p.state \in {"SYN_RCVD", "FIN_WAIT_2", "LAST_ACK", "TIME_WAIT"}),
         poll \in Maybe(Queued(p) # <<>> \/ p.ackNow \/ p.memerr) : SlowTmr(x, due, old, poll)

Next ==
  \/ Connect
  \/ \E x \in Side : Write(x) \/ Read(x) \/ Close(x) \/ Deliver(x) \/ FastTmr(x) \/ Tick(x)

Spec == Init /\ [][Next]_vars

\* the slow timer has something to do for x: a state to time out, a segment to
\* retransmit, or one to send that tcp_output left behind to send an empty ACK
TimerDue(x) ==
  \/ pcb[x].state \in {"SYN_RCVD", "FIN_WAIT_2", "LAST_ACK", "TIME_WAIT"}
  \/ pcb[x].state # "CLOSED" /\ Queued(pcb[x]) # <<>> /\ ~pcb[x].persist

\* The timer thread of the network server runs for ever, and every clock runs out.
\* TimerDue stands for the ENABLED of weak fairness, which it implies.
Fairness ==
  \A x \in Side : ([]<>~TimerDue(x)) \/ ([]<><<SlowTmr(x, TRUE, TRUE, TRUE)>>_vars)

LiveSpec == Spec /\ Fairness

(***************************************************************************)
(* Properties                                                              *)
(***************************************************************************)
States == {"CLOSED", "SYN_SENT", "SYN_RCVD", "ESTABLISHED", "FIN_WAIT_1", "FIN_WAIT_2",
           "CLOSE_WAIT", "CLOSING", "LAST_ACK", "TIME_WAIT"}
Seqs == 0 .. SeqSpace - 1
Active(p) == p.state \notin {"CLOSED", "TIME_WAIT"}

\* The fields of the pcbs stay in their ranges (struct tcp_pcb), and a program is
\* never handed more than the window it was promised (rcv_wnd).
TypeOK ==
  \A x \in Side :
    LET p == pcb[x]
    IN  /\ p.state \in States
        /\ {p.rcv_nxt, p.snd_nxt, p.snd_max, p.lastack, p.snd_lbb, p.snd_wl1, p.snd_wl2} \subseteq Seqs
        /\ {p.rcv_wnd, p.rcv_ann_wnd, p.snd_wnd} \subseteq 0 .. TCP_WND
        /\ p.cwnd \in 1 .. TCP_WND /\ p.nrtx \in 0 .. NrtxSpace - 1
        /\ p.qlen \in 0 .. TCP_SND_QUEUELEN
        /\ \A i \in 1 .. Len(Queued(p)) : Queued(p)[i].seq \in Seqs
        /\ app[x].wrote \in 0 .. lim.bytes[x] /\ app[x].unread \in 0 .. TCP_WND

\* What the program reads is what the other program wrote, byte for byte and in
\* order, whatever the network loses, repeats or reorders and however segments
\* are chained, trimmed and reassembled (tcp_enqueue, tcp_receive).  It sees the
\* end of the stream only after all of it (TF_GOT_FIN).
StreamIntact ==
  \A x \in Side :
    /\ Len(app[x].got) <= app[Peer(x)].wrote
    /\ \A i \in 1 .. Len(app[x].got) : app[x].got[i] = i
    /\ app[x].eof => Len(app[x].got) = app[Peer(x)].wrote

\* A sender frees data only when the receiver has it, so that no byte is lost
\* between them: what lastack covers was given to the program of the other side,
\* unless that program closed the connection (tcp_receive, NewAck's loop).
AckedWasReceived ==
  \A x \in Side :
    Active(pcb[x]) /\ pcb[x].state \notin {"SYN_SENT", "SYN_RCVD"} /\ ~app[Peer(x)].closed
      => Least(app[x].wrote, Seq32(pcb[x].lastack - Iss[x] - 1)) <= Len(app[Peer(x)].got)

\* The queues hold, without gap, everything from the last acknowledged byte to
\* the last one written, and snd_queuelen and snd_buf account for it exactly: the
\* assertions of tcp_enqueue and tcp_receive about them can not fail (the ranges
\* of TypeOK included).
QueuesAccounted ==
  /\ TypeOK
  /\ \A x \in Side :
    LET p == pcb[x]
        q == Queued(p)
    IN  Active(p) =>
        /\ p.qlen = Pbufs(q)
        /\ (p.snd_buf + Seq32(p.snd_lbb - p.lastack)) % U16 = TCP_SND_BUF
        /\ \A n \in 0 .. Seq32(p.snd_lbb - p.lastack) - 1 :
             Cardinality({i \in 1 .. Len(q) : Seq32(p.lastack + n - q[i].seq) < TCPLEN(q[i])}) = 1
        /\ p.state = "SYN_SENT" => p.unacked # <<>>

\* x has something queued: data, a SYN or a FIN
Unsettled(x) == lim.ticks = -1 /\ Active(pcb[x]) /\ Queued(pcb[x]) # <<>>

\* Whatever is queued is acknowledged in the end, or the connection is given up
\* (nrtx counts the retransmissions and they run out in tcp_slowtmr), with one
\* exception: the persist timer runs for ever.  tcp_output starts it when the next
\* segment does not fit the window of the peer, which may be closed or just too
\* small, and while it runs tcp_slowtmr sends probes, retransmits nothing and
\* counts nothing.  tcp_output may return without starting it, after an empty ACK;
\* the tcp_output at the end of tcp_slowtmr makes up for that.
DataSettles ==
  \A x \in Side : []<>~Unsettled(x) \/ <>[](pcb[x].persist)

HalfOpen(x) ==
  lim.ticks = -1 /\ pcb[x].state \in {"SYN_SENT", "SYN_RCVD", "FIN_WAIT_2", "LAST_ACK", "TIME_WAIT"}

\* No connection stays half open or half closed for ever (the time-outs of
\* tcp_slowtmr for SYN_SENT, SYN_RCVD, FIN_WAIT_2, LAST_ACK and TIME_WAIT).
HalfOpenEnds ==
  \A x \in Side : []<>~HalfOpen(x)

Leaving(x) ==
  /\ lim.ticks = -1 /\ ~pcb[x].persist
  /\ pcb[x].state \in {"FIN_WAIT_1", "FIN_WAIT_2", "CLOSING", "LAST_ACK", "TIME_WAIT"}

\* A connection that tcp_close took over gives its pcb back ("The pcb is then
\* automatically freed in tcp_slowtmr()", tcp_close), unless its peer keeps the
\* window closed.
ClosedIsFreed == \A x \in Side : Leaving(x) ~> ~Leaving(x)
====
