-------------------------------- MODULE Tcp --------------------------------
(***************************************************************************)
(* One end of a TCP connection: the control block `Tcb` of                 *)
(* kernel/net/src/tcp.rs and the operations the stack drives it with, as   *)
(* operators from a control block to a control block.  A byte is a value,  *)
(* the receive ring is an array indexed modulo RING as in the code, and    *)
(* the send ring is the sequence of the bytes it holds.  A deadline is     *)
(* armed or it is not: which instant it names, the round-trip estimate     *)
(* and the backing-off of the timeout are left out, and a timer that is    *)
(* armed may run out at any poll.                                          *)
(***************************************************************************)
EXTENDS Integers, Sequences, FiniteSets, SequencesExt, FiniteSetsExt

CONSTANTS SEQ,                \* the size of the sequence space: 2^32
          RING,               \* bytes in a receive or send ring
          MSS,                \* what a window is announced open again at
          SEND_SEG,           \* bytes in the largest segment sent
          INITIAL_WINDOW,     \* segments in the first congestion window
          DUP_ACK_THRESHOLD,  \* duplicate acknowledgements that mean a loss
          OOO_SEGMENTS,       \* runs held past a hole
          SACK_BLOCKS,        \* runs reported to the peer
          RETRIES,            \* timeouts in a row before giving up
          SEGMENTS_PER_FLUSH  \* segments one flush sends for a connection

ASSUME TcpConstants ==
  /\ {SEQ, RING, MSS, SEND_SEG, INITIAL_WINDOW, DUP_ACK_THRESHOLD, OOO_SEGMENTS,
      SACK_BLOCKS, RETRIES, SEGMENTS_PER_FLUSH} \subseteq Nat \ {0}
  /\ SEND_SEG <= MSS /\ MSS <= RING /\ 4 * RING <= SEQ

Plus(a, n) == (a + n) % SEQ
Minus(a, b) == (a - b) % SEQ

\* `a` comes before `b` in sequence space
Lt(a, b) == a # b /\ 2 * Minus(b, a) < SEQ
Le(a, b) == a = b \/ Lt(a, b)

Acceptable(rcv, wnd, seq, len) ==
  LET inside(s) == Minus(s, rcv) < wnd
  IN  IF wnd = 0 THEN seq = rcv
      ELSE inside(seq) \/ (len > 0 /\ inside(Plus(seq, len - 1)))

NoSeq == SEQ              \* no sequence number: Option::None
NoThreshold == SEQ        \* u32::MAX, above every congestion window

Synchronized == {"Established", "FinWait1", "FinWait2", "CloseWait", "Closing",
                 "LastAck", "TimeWait"}
Sending == {"Established", "CloseWait", "FinWait1", "Closing", "LastAck"}
Receiving == {"Established", "FinWait1", "FinWait2"}

\* a control block no connection uses
EMPTY ==
  [active |-> FALSE, generation |-> 0, state |-> "Closed", error |-> "none",
   iss |-> 0, snd_una |-> 0, snd_nxt |-> 0, snd_max |-> 0, snd_wnd |-> 0,
   rcv_nxt |-> 0, rings |-> FALSE, buf |-> [i \in 0 .. RING - 1 |-> 0],
   head |-> 0, len |-> 0, ooo |-> {}, tx |-> << >>, tx_seq |-> 0,
   fin_queued |-> FALSE, fin_seq |-> NoSeq, peer_fin |-> FALSE,
   ack_now |-> FALSE, rst_now |-> FALSE, cwnd |-> 0, ssthresh |-> NoThreshold,
   dup_acks |-> 0, recovering |-> FALSE, recover |-> 0, resend |-> FALSE,
   sacked |-> {}, armed |-> FALSE, probe |-> FALSE, retries |-> 0,
   released |-> FALSE, waiting |-> FALSE]

\* a fresh connection in a slot used `generation` times before
Install(t, state, iss) ==
  [EMPTY EXCEPT !.active = TRUE, !.generation = t.generation + 1,
                !.state = state, !.rings = TRUE, !.iss = iss, !.snd_una = iss,
                !.snd_nxt = iss, !.snd_max = iss, !.tx_seq = Plus(iss, 1)]

RunEnd(r) == Plus(r.seq, r.len)

Past(t) == Max({0} \cup {Minus(r.seq, t.rcv_nxt) + r.len : r \in t.ooo})

RxFree(t) == IF t.rings THEN Max({0, RING - t.len - Past(t)}) ELSE 0

Flight(t) == Minus(t.snd_nxt, t.snd_una)

(* The runs held once `len` bytes at `seq` are to be: what they touch is    *)
(* merged with them, and with every slot taken the furthest gives way to a  *)
(* nearer one.                                                              *)
Hold(t, seq, len) ==
  LET end == Plus(seq, len)
      ahead(s) == Minus(s, t.rcv_nxt)
      touching == {r \in t.ooo : Le(r.seq, end) /\ Le(seq, RunEnd(r))}
      first == Min({ahead(seq)} \cup {ahead(r.seq) : r \in touching})
      last == Max({ahead(end)} \cup {ahead(RunEnd(r)) : r \in touching})
      run == [seq |-> Plus(t.rcv_nxt, first), len |-> last - first]
      others == t.ooo \ touching
      furthest == CHOOSE r \in others : \A o \in others : ahead(o.seq) <= ahead(r.seq)
  IN  CASE Cardinality(others) < OOO_SEGMENTS -> [held |-> TRUE, ooo |-> others \cup {run}]
        [] first < ahead(furthest.seq) -> [held |-> TRUE, ooo |-> (others \ {furthest}) \cup {run}]
        [] OTHER -> [held |-> FALSE, ooo |-> t.ooo]

(* The stream takes the run its bytes joined up with, and forgets the runs  *)
(* it has passed.  Runs never touch one another, so one can be joined.      *)
Coalesce(t) ==
  LET joined == {r \in t.ooo : Le(r.seq, t.rcv_nxt) /\ Lt(t.rcv_nxt, RunEnd(r))}
      rcv == IF joined = {} THEN t.rcv_nxt ELSE RunEnd(CHOOSE r \in joined : TRUE)
  IN  [t EXCEPT !.rcv_nxt = rcv, !.len = @ + Minus(rcv, t.rcv_nxt),
                !.ooo = {r \in @ : ~Le(RunEnd(r), rcv)}]

\* `data` copied into the ring from position `at`
RingWrite(buf, at, data) ==
  [i \in DOMAIN buf |-> LET k == (i - at) % RING IN IF k < Len(data) THEN data[k + 1] ELSE buf[i]]

RingRead(buf, at, n) == [k \in 1 .. n |-> buf[(at + k - 1) % RING]]

Grow(t, acked) ==
  Min({RING, t.cwnd + IF t.cwnd < t.ssthresh THEN Min({acked, SEND_SEG})
                      ELSE Max({1, (SEND_SEG * SEND_SEG) \div Max({1, t.cwnd})})})

\* the peer's blocks that name data sent and not acknowledged
RecordSack(t, blocks) ==
  {b \in blocks : Lt(b[1], b[2]) /\ Le(t.snd_una, b[1]) /\ Le(b[2], t.snd_max)}

\* the first byte at or after `from` the peer has not said it holds
FirstHole(sacked, from) ==
  LET covered(s) == \E b \in sacked : Le(b[1], s) /\ Lt(s, b[2])
  IN  Plus(from, Min({k \in 0 .. SEQ - 1 : ~covered(Plus(from, k))}))

\* how far a segment from `from` may run before a run the peer holds
ToNextBlock(sacked, from) ==
  Min({SEQ} \cup {Minus(b[1], from) : b \in {c \in sacked : Lt(from, c[1])}})

BeginRecovery(t) ==
  LET half == Max({Flight(t) \div 2, 2 * SEND_SEG})
  IN  [t EXCEPT !.ssthresh = half, !.cwnd = half + DUP_ACK_THRESHOLD * SEND_SEG,
                !.recover = t.snd_max, !.recovering = TRUE, !.resend = TRUE,
                !.snd_nxt = FirstHole(t.sacked, t.snd_una)]

Collapse(t) ==
  [t EXCEPT !.ssthresh = Max({Flight(t) \div 2, 2 * SEND_SEG}), !.cwnd = SEND_SEG,
            !.dup_acks = 0, !.recovering = FALSE, !.sacked = {}]

Enter(t, state) ==
  [t EXCEPT !.state = state, !.armed = @ /\ state \notin {"Closed", "TimeWait"}]

EnterEstablished(t) ==
  [Enter(t, IF t.fin_queued THEN "FinWait1" ELSE "Established")
     EXCEPT !.cwnd = INITIAL_WINDOW * SEND_SEG]

\* `n` units of sequence space sent from snd_nxt
Advance(t, n) ==
  LET nxt == Plus(t.snd_nxt, n)
  IN  [t EXCEPT !.snd_nxt = nxt, !.snd_max = IF Lt(@, nxt) THEN nxt ELSE @,
                !.armed = TRUE]

\* mutant of Acknowledge: the timer stops although more is in flight
AcknowledgeDisarms(t, ack) ==
  LET acked == Minus(ack, t.snd_una)
      data == Min({acked - (IF t.snd_una = t.iss THEN 1 ELSE 0), Len(t.tx)})
      sacked == {b \in t.sacked : ~Le(b[2], ack)}
      partial == t.recovering /\ ~Le(t.recover, ack)
  IN  [t EXCEPT
        !.tx = SubSeq(@, data + 1, Len(@)), !.tx_seq = Plus(@, data),
        !.snd_una = ack,
        !.snd_nxt = IF partial THEN FirstHole(sacked, ack) ELSE IF Lt(@, ack) THEN ack ELSE @,
        !.cwnd = IF partial THEN Max({@ - acked, SEND_SEG})
                 ELSE IF t.recovering THEN t.ssthresh ELSE Grow(t, acked),
        !.recovering = partial, !.resend = @ \/ partial,
        !.sacked = IF t.recovering /\ ~partial THEN {} ELSE sacked,
        !.dup_acks = 0, !.retries = 0, !.probe = FALSE,
        !.armed = FALSE]

(* An acknowledgement that lies after snd_una and no later than snd_max.    *)
Acknowledge(t, ack) ==
  LET acked == Minus(ack, t.snd_una)
      data == Min({acked - (IF t.snd_una = t.iss THEN 1 ELSE 0), Len(t.tx)})
      sacked == {b \in t.sacked : ~Le(b[2], ack)}
      partial == t.recovering /\ ~Le(t.recover, ack)
  IN  [t EXCEPT
        !.tx = SubSeq(@, data + 1, Len(@)), !.tx_seq = Plus(@, data),
        !.snd_una = ack,
        !.snd_nxt = IF partial THEN FirstHole(sacked, ack) ELSE IF Lt(@, ack) THEN ack ELSE @,
        !.cwnd = IF partial THEN Max({@ - acked, SEND_SEG})
                 ELSE IF t.recovering THEN t.ssthresh ELSE Grow(t, acked),
        !.recovering = partial, !.resend = @ \/ partial,
        !.sacked = IF t.recovering /\ ~partial THEN {} ELSE sacked,
        !.dup_acks = 0, !.retries = 0, !.probe = FALSE,
        !.armed = ack # t.snd_max]

FinAcknowledged(t) == t.fin_seq # NoSeq /\ Le(Plus(t.fin_seq, 1), t.snd_una)

-----------------------------------------------------------------------------
(* What a program does with its connection.                                *)

CanSend(t) ==
  /\ t.active /\ t.error = "none" /\ ~t.fin_queued
  /\ t.state \in {"Established", "CloseWait"} /\ Len(t.tx) < RING

\* as much of `data` as the send ring has room for
Send(t, data) == [t EXCEPT !.tx = @ \o SubSeq(data, 1, Min({Len(data), RING - Len(@)}))]

\* the end of the stream: recv answers zero
AtEnd(t) == t.active /\ t.len = 0 /\ t.peer_fin

Recv(t, n) ==
  LET read == [t EXCEPT !.head = (@ + n) % RING, !.len = @ - n]
  IN  [read EXCEPT !.ack_now = @ \/ (RxFree(t) < MSS /\ RxFree(read) >= MSS)]

Shutdown(t) ==
  CASE t.state = "Listen" -> Enter(t, "Closed")
    [] t.state \in {"SynSent", "SynReceived"} -> [t EXCEPT !.fin_queued = TRUE]
    [] t.state = "Established" -> Enter([t EXCEPT !.fin_queued = TRUE], "FinWait1")
    [] t.state = "CloseWait" -> Enter([t EXCEPT !.fin_queued = TRUE], "LastAck")
    [] OTHER -> t

Abort(t) ==
  Enter([t EXCEPT !.released = TRUE,
                  !.rst_now = t.state \in Synchronized \cup {"SynReceived"}], "Closed")

Close(t) ==
  IF t.len > 0 THEN Abort(t)
  ELSE LET let_go == [t EXCEPT !.released = TRUE]
       IN  IF t.state = "SynSent" THEN Enter(let_go, "Closed") ELSE Shutdown(let_go)

\* the listener's program takes a connection off the backlog
CanAccept(t) == t.active /\ t.waiting /\ t.state \in Synchronized

-----------------------------------------------------------------------------
(* What the stack does.                                                    *)

\* a connection that is over gives its rings back, and its slot once closed
Reap(t) ==
  IF ~(t.active /\ (t.released \/ t.waiting) /\ ~t.rst_now /\ t.state \in {"Closed", "TimeWait"})
  THEN t
  ELSE IF t.state = "Closed" THEN [EMPTY EXCEPT !.generation = t.generation]
       ELSE [t EXCEPT !.rings = FALSE, !.buf = EMPTY.buf, !.head = 0, !.len = 0, !.tx = << >>]

(* The timers, when the one that is armed has run out.                     *)
TimerRunning(t) == t.active /\ (t.state = "TimeWait" \/ t.armed)

Timers(t) ==
  CASE t.state = "TimeWait" -> Enter(t, "Closed")
    [] t.state # "TimeWait" /\ t.snd_una = t.snd_max ->
         [t EXCEPT !.probe = TRUE, !.armed = FALSE]
    [] t.state # "TimeWait" /\ t.snd_una # t.snd_max /\ t.retries >= RETRIES ->
         Enter([t EXCEPT !.retries = @ + 1, !.error = "TimedOut",
                         !.rst_now = t.state \in Synchronized], "Closed")
    [] OTHER -> [Collapse(t) EXCEPT !.retries = @ + 1, !.snd_nxt = t.snd_una]

\* the runs a segment reports, nearest first
SackBlocks(t) ==
  LET nearer(r) == {o \in t.ooo : Minus(o.seq, t.rcv_nxt) < Minus(r.seq, t.rcv_nxt)}
  IN  {<<r.seq, RunEnd(r)>> : r \in {q \in t.ooo : Cardinality(nearer(q)) < SACK_BLOCKS}}

Header(t, flags) ==
  [flags |-> flags, seq |-> t.snd_nxt, ack |-> t.rcv_nxt, window |-> RxFree(t),
   data |-> << >>, sack |-> SackBlocks(t)]

\* room between snd_nxt and a limit that `room` past snd_una puts on it
Upto(t, room) ==
  LET limit == Plus(t.snd_una, room)
  IN  IF Lt(t.snd_nxt, limit) THEN Minus(limit, t.snd_nxt) ELSE 0

Resending(t) == Lt(t.snd_nxt, t.snd_max)
Sent(t) == Minus(t.snd_nxt, t.tx_seq)
Unsent(t) == IF t.state \in Sending THEN Max({0, Len(t.tx) - Sent(t)}) ELSE 0

\* how many bytes of data the next segment carries
NextLen(t) ==
  LET room == Min({Upto(t, t.snd_wnd), Upto(t, t.cwnd)})
      usable == IF room = 0 /\ t.probe THEN 1 ELSE room
      gap == IF Resending(t) THEN ToNextBlock(t.sacked, t.snd_nxt) ELSE SEQ
  IN  IF Resending(t) /\ t.recovering /\ ~t.resend THEN 0
      ELSE Min({Unsent(t), usable, SEND_SEG, gap})

\* the segment of `n` bytes at snd_nxt, past which what the peer holds is stepped over
SendData(t, n) ==
  LET sent == Advance([t EXCEPT !.probe = FALSE, !.ack_now = FALSE,
                                !.resend = @ /\ ~Resending(t)], n)
  IN  [sent EXCEPT !.snd_nxt = IF Resending(t) THEN FirstHole(t.sacked, @) ELSE @]

(* The next segment a connection has to send, none or one, and the          *)
(* connection as though it was sent.                                        *)
NextSegment(t) ==
  LET none(u) == [t |-> u, out |-> << >>]
      one(u, s) == [t |-> u, out |-> <<s>>]
      n == NextLen(t)
      fin == /\ t.state \in Sending /\ t.fin_queued
             /\ t.snd_nxt = Plus(t.tx_seq, Len(t.tx))
             /\ t.fin_seq \in {NoSeq, t.snd_nxt}
      \* the window is shut with nothing in flight: probe when this runs out
      waits == [t EXCEPT !.armed = @ \/ Unsent(t) > 0]
  IN  CASE ~t.active -> none(t)
        [] t.active /\ t.rst_now ->
             one([t EXCEPT !.rst_now = FALSE], Header(t, {"RST", "ACK"}))
        [] t.active /\ ~t.rst_now /\ t.state \in {"Closed", "Listen"} -> none(t)
        [] t.active /\ ~t.rst_now /\ t.state \in {"SynSent", "SynReceived"} ->
             LET quiet == [t EXCEPT !.ack_now = FALSE]
                 syn == IF t.state = "SynSent" THEN [Header(t, {"SYN"}) EXCEPT !.ack = 0]
                        ELSE Header(t, {"SYN", "ACK"})
             IN  IF t.snd_nxt # t.iss THEN none(quiet) ELSE one(Advance(quiet, 1), syn)
        [] t.active /\ ~t.rst_now /\ t.state \in Synchronized ->
             IF n > 0 THEN one(SendData(t, n),
                               [Header(t, {"ACK"}) EXCEPT
                                  !.data = SubSeq(t.tx, Sent(t) + 1, Sent(t) + n)])
             ELSE IF fin THEN one(Advance([waits EXCEPT !.ack_now = FALSE,
                                                        !.fin_seq = t.snd_nxt], 1),
                                  Header(t, {"FIN", "ACK"}))
             ELSE IF t.ack_now THEN one([waits EXCEPT !.ack_now = FALSE], Header(t, {"ACK"}))
             ELSE none(waits)

-----------------------------------------------------------------------------
(* A segment arrives (RFC 793, section 3.9).                               *)

OwesAck(t) == [t EXCEPT !.ack_now = TRUE]

ResetBy(t) == Enter([t EXCEPT !.error = "Reset"], "Closed")

InSynSent(t, s) ==
  LET opened == [t EXCEPT !.rcv_nxt = Plus(s.seq, 1), !.snd_wnd = s.window, !.ack_now = TRUE]
  IN  CASE "ACK" \in s.flags /\ s.ack # Plus(t.iss, 1) -> [t |-> t, reset |-> "RST" \notin s.flags]
        [] s.flags = {"RST", "ACK"} /\ s.ack = Plus(t.iss, 1) -> [t |-> ResetBy(t), reset |-> FALSE]
        [] s.flags = {"SYN", "ACK"} /\ s.ack = Plus(t.iss, 1) ->
             [t |-> EnterEstablished(Acknowledge(opened, s.ack)), reset |-> FALSE]
        [] s.flags = {"SYN"} ->
             [t |-> [Enter(opened, "SynReceived") EXCEPT !.snd_nxt = t.iss], reset |-> FALSE]
        [] OTHER -> [t |-> t, reset |-> FALSE]

\* a duplicate acknowledgement: the peer has data it cannot use yet
IsDuplicateAck(t, s) ==
  /\ s.ack = t.snd_una /\ s.data = << >> /\ "FIN" \notin s.flags
  /\ s.window = t.snd_wnd /\ t.snd_una # t.snd_max

DuplicateAck(t, s) ==
  LET noted == [t EXCEPT !.dup_acks = @ + 1, !.sacked = RecordSack(t, s.sack)]
  IN  IF t.recovering THEN [noted EXCEPT !.cwnd = @ + SEND_SEG]
      ELSE IF noted.dup_acks = DUP_ACK_THRESHOLD THEN BeginRecovery(noted) ELSE noted

\* the acknowledgement and the window of an acceptable segment
TakeAck(t, s) ==
  LET acked == IF Lt(t.snd_una, s.ack) THEN Acknowledge(t, s.ack)
               ELSE IF IsDuplicateAck(t, s) THEN DuplicateAck(t, s) ELSE t
  IN  IF t.state = "SynReceived"
      THEN EnterEstablished(Acknowledge([t EXCEPT !.snd_wnd = s.window], s.ack))
      ELSE [acked EXCEPT !.snd_wnd = IF Le(acked.snd_una, s.ack) THEN s.window ELSE @]

\* what the acknowledgement of this end's FIN moves it to
FinIsAcknowledged(t) ==
  IF ~FinAcknowledged(t) THEN t
  ELSE CASE t.state = "FinWait1" -> Enter(t, "FinWait2")
         [] t.state = "Closing" -> Enter(t, "TimeWait")
         [] t.state = "LastAck" -> Enter(t, "Closed")
         [] OTHER -> t

\* payload ahead of what is expected, kept where the stream will read it from
HoldAhead(t, s) ==
  LET ahead == Minus(s.seq, t.rcv_nxt)
      take == Min({Len(s.data), Max({0, RING - t.len - ahead})})
      kept == Hold(t, s.seq, take)
  IN  IF take = 0 \/ ~kept.held THEN OwesAck(t)
      ELSE [OwesAck(t) EXCEPT
              !.ooo = kept.ooo,
              !.buf = RingWrite(@, (t.head + t.len + ahead) % RING, SubSeq(s.data, 1, take))]

\* mutants of TakeData: bytes from the start of the segment, more than fits, unstored
TakeDataFromStart(t, s) ==
  LET skip == Minus(t.rcv_nxt, s.seq)
      take == Min({Max({0, Len(s.data) - skip}), RING - t.len})
      stored == [t EXCEPT !.len = @ + take, !.rcv_nxt = Plus(@, take),
                          !.buf = RingWrite(@, (t.head + t.len) % RING,
                                            SubSeq(s.data, 1, take))]
  IN  OwesAck(IF take > 0 THEN Coalesce(stored) ELSE t)

TakeDataUnstored(t, s) ==
  LET skip == Minus(t.rcv_nxt, s.seq)
      take == Min({Max({0, Len(s.data) - skip}), RING - t.len})
      stored == [t EXCEPT !.len = @ + take, !.rcv_nxt = Plus(@, take),
                          !.buf = RingWrite(@, (t.head + t.len) % RING,
                                            SubSeq(s.data, skip + 1, skip + take))]
  IN  OwesAck(IF take > 0 THEN Coalesce(stored)
              ELSE [t EXCEPT !.rcv_nxt = Plus(@, Max({0, Len(s.data) - skip}))])

\* payload at what is expected, or overlapping it
TakeData(t, s) ==
  LET skip == Minus(t.rcv_nxt, s.seq)
      take == Min({Max({0, Len(s.data) - skip}), RING - t.len})
      stored == [t EXCEPT !.len = @ + take, !.rcv_nxt = Plus(@, take),
                          !.buf = RingWrite(@, (t.head + t.len) % RING,
                                            SubSeq(s.data, skip + 1, skip + take))]
  IN  OwesAck(IF take > 0 THEN Coalesce(stored) ELSE t)

\* the peer's FIN, once everything before it has been taken
TakeFin(t, s, whole) ==
  IF ~("FIN" \in s.flags /\ whole /\ Le(Plus(s.seq, Len(s.data)), t.rcv_nxt)) THEN t
  ELSE LET got == OwesAck([t EXCEPT !.rcv_nxt = Plus(@, 1), !.peer_fin = TRUE])
       IN  CASE t.state = "Established" -> Enter(got, "CloseWait")
             [] t.state = "FinWait1" -> Enter(got, "Closing")
             [] t.state = "FinWait2" -> Enter(got, "TimeWait")
             [] OTHER -> got

\* the payload and the FIN, after the acknowledgement
TakePayload(t, s) ==
  LET ahead == Lt(t.rcv_nxt, s.seq)
      skip == Minus(t.rcv_nxt, s.seq)
  IN  IF s.data = << >> \/ t.state \notin Receiving THEN TakeFin(t, s, TRUE)
      ELSE IF ahead THEN HoldAhead(t, s)
      ELSE TakeFin(TakeData(t, s), s,
                   skip + Min({Max({0, Len(s.data) - skip}), RING - t.len}) = Len(s.data))

SegmentArrives(t, s) ==
  LET len == Len(s.data) + Cardinality(s.flags \cap {"SYN", "FIN"})
      is(u) == [t |-> u, reset |-> FALSE]
      acknowledged == FinIsAcknowledged(TakeAck(t, s))
  IN  IF t.state = "SynSent" THEN InSynSent(t, s)
      ELSE IF t.state \in {"Closed", "Listen"} THEN [t |-> t, reset |-> "RST" \notin s.flags]
      ELSE IF ~Acceptable(t.rcv_nxt, RxFree(t), s.seq, len)
      THEN is(IF "RST" \in s.flags THEN t
              ELSE [OwesAck(t) EXCEPT
                      !.snd_nxt = IF t.state = "SynReceived" /\ "SYN" \in s.flags THEN t.iss ELSE @])
      ELSE IF "RST" \in s.flags THEN is(IF s.seq = t.rcv_nxt THEN ResetBy(t) ELSE OwesAck(t))
      ELSE IF "SYN" \in s.flags THEN is(OwesAck(t))
      ELSE IF "ACK" \notin s.flags THEN is(t)
      ELSE IF t.state = "SynReceived" /\ ~(Lt(t.snd_una, s.ack) /\ Le(s.ack, t.snd_max))
      THEN [t |-> t, reset |-> TRUE]
      ELSE IF Lt(t.snd_max, s.ack) THEN is(OwesAck(t))
      ELSE IF acknowledged.state = "Closed" THEN is(acknowledged)
      ELSE is(TakePayload(acknowledged, s))
=============================================================================
