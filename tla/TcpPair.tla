------------------------------ MODULE TcpPair ------------------------------
(***************************************************************************)
(* Two hosts of kernel/net/src/stack.rs and the network between them.      *)
(* Host "a" opens the connection, host "b" listens.  Every call of a       *)
(* program and every poll is one step of its host: the stack's lock is     *)
(* held for the whole of it, so what the call queues is on the wire when   *)
(* it ends (tcp_flush).  The network may lose, repeat or overtake as many  *)
(* segments as the scene allows; a segment a host fails to send for want   *)
(* of a buffer or of the next hop's address is one the network lost.       *)
(***************************************************************************)
EXTENDS Tcp

CONSTANT Scenes   \* what the programs do and what the network may do

VARIABLES scene,   \* the scene, with the faults still to come
          conn,    \* conn[h]: the slot of host h's connection
          net,     \* net[h]: the segments on their way to h
          written, \* written[h]: how many bytes h's program has handed over
          got      \* got[h]: the bytes h's program has read

pairVars == <<scene, conn, net, written, got>>

Hosts == {"a", "b"}
Peer(h) == CHOOSE p \in Hosts : p # h

\* the bytes a program has to send, and those it has handed over
Bytes(n) == [k \in 1 .. n |-> k]

Init ==
  /\ scene \in Scenes
  /\ conn = [h \in Hosts |-> EMPTY]
  /\ net = [h \in Hosts |-> << >>]
  /\ written = [h \in Hosts |-> 0]
  /\ got = [h \in Hosts |-> << >>]

-----------------------------------------------------------------------------
(* What every connection of a host has to send, then the resets it owes:   *)
(* tcp_flush, after the SYNs waiting for a connection were given one.      *)

InitialSequence(h, t) == Plus(scene.iss[h], 3 * t.generation)

OpenPassive(h, t, syn) ==
  [Install(t, "SynReceived", InitialSequence(h, t)) EXCEPT
     !.snd_wnd = syn.window, !.rcv_nxt = Plus(syn.seq, 1), !.waiting = TRUE]

FlushSegments(t) ==
  FoldLeft(LAMBDA p, i : LET r == NextSegment(p.t) IN [t |-> r.t, out |-> p.out \o r.out],
           [t |-> t, out |-> << >>], Bytes(SEGMENTS_PER_FLUSH))

Flush(h, host, ahead) ==
  LET t == IF host.syns # << >> /\ ~host.t.active THEN OpenPassive(h, host.t, host.syns[1])
           ELSE host.t
      flushed == FlushSegments(t)
  IN  /\ conn' = [conn EXCEPT ![h] = Reap(flushed.t)]
      /\ net' = [net EXCEPT ![h] = ahead, ![Peer(h)] = @ \o flushed.out \o host.resets]

\* a host in which only its connection is of interest
With(t) == [t |-> t, syns |-> << >>, resets |-> << >>]

\* a program's call on its connection, and the flush after it
Call(h, t) == Flush(h, With(t), net[h])

ResetFor(s) ==
  LET len == Len(s.data) + Cardinality(s.flags \cap {"SYN", "FIN"})
      blank == [flags |-> {"RST"}, seq |-> 0, ack |-> 0, window |-> 0,
                data |-> << >>, sack |-> {}]
  IN  IF "RST" \in s.flags THEN << >>
      ELSE IF "ACK" \in s.flags THEN <<[blank EXCEPT !.seq = s.ack]>>
      ELSE <<[blank EXCEPT !.flags = {"RST", "ACK"}, !.ack = Plus(s.seq, len)]>>

\* a segment for no connection: a SYN waits at the listener, others are reset
Unmatched(h, host, s) ==
  IF h = "b" /\ s.flags = {"SYN"}
  THEN [host EXCEPT !.syns = IF @ = << >> THEN <<s>> ELSE @]
  ELSE [host EXCEPT !.resets = @ \o ResetFor(s)]

Input(h, host, s) ==
  LET r == SegmentArrives(host.t, s)
  IN  IF ~host.t.active THEN Unmatched(h, host, s)
      ELSE [host EXCEPT !.t = r.t, !.resets = @ \o (IF r.reset THEN ResetFor(s) ELSE << >>)]

-----------------------------------------------------------------------------
(* The programs.                                                           *)

Mine(h) == conn[h].active /\ ~conn[h].waiting /\ ~conn[h].released

MayConnect == conn["a"].generation = 0

Connect ==
  /\ MayConnect
  /\ Call("a", Install(EMPTY, "SynSent", InitialSequence("a", EMPTY)))
  /\ UNCHANGED <<scene, written, got>>

Accept ==
  /\ CanAccept(conn["b"])
  /\ conn' = [conn EXCEPT !["b"].waiting = FALSE]
  /\ UNCHANGED <<scene, net, written, got>>

MayWrite(h) == Mine(h) /\ CanSend(conn[h]) /\ written[h] < scene.bytes[h]

Write(h) ==
  LET upto == Min({written[h] + scene.piece, scene.bytes[h]})
      t == Send(conn[h], SubSeq(Bytes(upto), written[h] + 1, upto))
  IN  /\ MayWrite(h)
      /\ written' = [written EXCEPT ![h] = @ + Len(t.tx) - Len(conn[h].tx)]
      /\ Call(h, t)
      /\ UNCHANGED <<scene, got>>

MayRead(h) == Mine(h) /\ conn[h].len > 0

Read(h) ==
  LET n == Min({scene.read, conn[h].len})
  IN  /\ MayRead(h)
      /\ got' = [got EXCEPT ![h] = @ \o RingRead(conn[h].buf, conn[h].head, n)]
      /\ Call(h, Recv(conn[h], n))
      /\ UNCHANGED <<scene, written>>

\* a program that has nothing more to write says so, at once or after its peer
MayEndWrites(h) ==
  /\ Mine(h) /\ written[h] = scene.bytes[h]
  /\ h \in scene.first \/ AtEnd(conn[h])
  /\ conn[h].state \in {"Established", "CloseWait"}

EndWrites(h) ==
  /\ MayEndWrites(h)
  /\ Call(h, Shutdown(conn[h]))
  /\ UNCHANGED <<scene, written, got>>

\* a program lets go at the end of both streams, on an error, or in haste
MayLetGo(h) ==
  /\ Mine(h)
  /\ \/ h \in scene.hasty
     \/ conn[h].error # "none" /\ conn[h].len = 0
     \/ AtEnd(conn[h]) /\ conn[h].fin_queued

LetGo(h) ==
  /\ MayLetGo(h)
  /\ Call(h, Close(conn[h]))
  /\ UNCHANGED <<scene, written, got>>

-----------------------------------------------------------------------------
(* The stack's poll: the timers, the frames that have arrived, the flush.  *)

\* a timer may run out early, while what would stop it is on its way
Early == net["a"] # << >> \/ net["b"] # << >>

Poll(h, k, due) ==
  LET ran == IF due THEN Timers(conn[h]) ELSE conn[h]
      host == FoldLeft(LAMBDA p, s : Input(h, p, s), With(ran), SubSeq(net[h], 1, k))
  IN  /\ k <= Len(net[h]) /\ (k > 0 \/ due)
      /\ due => TimerRunning(conn[h])
      /\ due /\ Early => scene.early > 0
      /\ Flush(h, host, SubSeq(net[h], k + 1, Len(net[h])))
      /\ scene' = [scene EXCEPT !.early = IF due /\ Early THEN @ - 1 ELSE @]
      /\ got' = IF conn'[h].generation = conn[h].generation THEN got
                ELSE [got EXCEPT ![h] = << >>]
      /\ UNCHANGED written

Arrive(h) == \E k \in 1 .. scene.frames : Poll(h, k, FALSE)
TimeOut(h) == \E k \in 0 .. scene.frames : Poll(h, k, TRUE)

-----------------------------------------------------------------------------
(* The network, on the way to the hosts the scene names, while at least as *)
(* many segments as the scene says are under way.                          *)

Troubled(h) == h \in scene.faulty /\ Len(net[h]) >= scene.busy

Lose(h) ==
  /\ Troubled(h) /\ scene.lose > 0
  /\ scene' = [scene EXCEPT !.lose = @ - 1]
  /\ net' = [net EXCEPT ![h] = Tail(@)]
  /\ UNCHANGED <<conn, written, got>>

Repeat(h) ==
  /\ Troubled(h) /\ scene.repeat > 0
  /\ scene' = [scene EXCEPT !.repeat = @ - 1]
  /\ net' = [net EXCEPT ![h] = Append(@, Head(@))]
  /\ UNCHANGED <<conn, written, got>>

Overtake(h) ==
  /\ Troubled(h) /\ scene.overtake > 0 /\ Len(net[h]) > 1
  /\ scene' = [scene EXCEPT !.overtake = @ - 1]
  /\ net' = [net EXCEPT ![h] = Append(Tail(@), Head(@))]
  /\ UNCHANGED <<conn, written, got>>

Progress ==
  \/ Connect \/ Accept
  \/ \E h \in Hosts :
       Write(h) \/ Read(h) \/ EndWrites(h) \/ LetGo(h) \/ Arrive(h) \/ TimeOut(h)

Next == Progress \/ \E h \in Hosts : Lose(h) \/ Repeat(h) \/ Overtake(h)

Spec == Init /\ [][Next]_pairVars

\* nothing of Progress can happen
Idle ==
  /\ ~MayConnect /\ ~CanAccept(conn["b"]) /\ ~Early
  /\ \A h \in Hosts :
       ~(MayWrite(h) \/ MayRead(h) \/ MayEndWrites(h) \/ MayLetGo(h) \/ TimerRunning(conn[h]))

FaultsLeft == <<scene.lose, scene.repeat, scene.overtake>>

(* Weak fairness of Progress, spelt out: again and again nothing of it can  *)
(* happen, or a step of it does, which is a step that spends no fault.      *)
(* While there is a call to make, a frame to take or a timer running, one   *)
(* of them happens: the network thread polls while frames wait and until    *)
(* the next deadline.  Which of them comes first is left open, and the      *)
(* network's faults are never required.                                     *)
FairSpec == Spec /\ ([]<>Idle \/ []<><<FaultsLeft' = FaultsLeft>>_pairVars)

-----------------------------------------------------------------------------
(* A program reads its peer's bytes in the order they were written, each    *)
(* once, whatever the network lost, repeated or overtook; and recv answers  *)
(* the end of the stream only when it has read every one of them.           *)
StreamIntact ==
  \A h \in Hosts :
    LET sent == written[Peer(h)]
    IN  /\ got[h] = Bytes(Len(got[h])) /\ Len(got[h]) <= sent
        /\ Mine(h) /\ AtEnd(conn[h]) => Len(got[h]) = sent

(* A byte leaves the send ring, acknowledged, only once the peer's program  *)
(* has read it or its receive ring holds it in the stream: a run held past  *)
(* a hole, which a nearer one may displace, is never acknowledged.  What a  *)
(* ring holds fits it, the gap before each run included, so that no byte    *)
(* lands on another that waits to be read; and the runs held past a hole    *)
(* lie beyond the stream, apart from one another.                           *)
AcknowledgedIsHeld ==
  \A h \in Hosts :
    LET p == Peer(h)
        t == conn[h]
    IN  /\ conn[h].rings /\ conn[p].rings /\ conn[p].generation = 1 /\ ~conn[p].released
             => written[h] - Len(conn[h].tx) <= Len(got[p]) + conn[p].len
        /\ t.len + Past(t) <= RING
        /\ \A r \in t.ooo : Lt(t.rcv_nxt, r.seq)
        /\ \A r, o \in t.ooo : r # o => Lt(RunEnd(r), o.seq) \/ Lt(RunEnd(o), r.seq)

(* Less than a ring of data, between programs that wait for the end of      *)
(* each other's stream, arrives whole and both slots are given back,        *)
(* provided the network's faults are fewer than the retries.                *)
Completes ==
  scene.hasty = {} /\ (\A h \in Hosts : scene.bytes[h] < RING)
    => /\ <>(\A h \in Hosts : Len(got[h]) = scene.bytes[Peer(h)])
       /\ <>[](\A h \in Hosts : ~conn[h].active)

(* A ring of data, which the peer has room for, is never given up: no       *)
(* connection times out for a segment the network lost, when it loses fewer *)
(* than the retries.  "a segment the device then refuses is a lost segment, *)
(* which retransmission repairs".                                           *)
LossRepaired ==
  scene.hasty = {} /\ (\A h \in Hosts : scene.bytes[h] <= RING)
    => \A h \in Hosts : conn[h].error # "TimedOut"
=============================================================================
