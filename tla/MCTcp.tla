------------------------------- MODULE MCTcp -------------------------------
(***************************************************************************)
(* The scenes in which TLC runs the pair.  A ring of five segments of two  *)
(* bytes stands for the code's ring of eight, and sequence numbers begin    *)
(* where host a's wrap within its first bytes.  Host b reads to the end of *)
(* the stream and then closes, unless the scene says otherwise.            *)
(***************************************************************************)
EXTENDS TcpPair

CONSTANT Size   \* bytes in the scene that fills a ring

Quiet == [bytes |-> [a |-> 4, b |-> 0], iss |-> [a |-> SEQ - 3, b |-> 5], piece |-> 3,
          read |-> RING, frames |-> 2, faulty |-> Hosts, lose |-> 0, repeat |-> 0,
          overtake |-> 0, busy |-> 1, early |-> 0, hasty |-> {}, first |-> {"a"}]

\* holes in the stream, runs past them, and a run displaced by a nearer one
Holes == [Quiet EXCEPT !.bytes.a = 6, !.frames = 1, !.faulty = {"b"},
                          !.lose = 2, !.overtake = 1, !.busy = 3]
\* a lost segment and one that arrives twice, in either direction, the SYN and FIN included
Twice == [Quiet EXCEPT !.bytes.a = 3, !.lose = 1, !.repeat = 1]
\* acknowledgements lost and overtaken
Acks == [Quiet EXCEPT !.piece = 4, !.faulty = {"a"}, !.lose = 1, !.overtake = 1]
\* a timer that runs out while the acknowledgement is on its way
Hurried == [Quiet EXCEPT !.piece = 4, !.early = 1]
\* both ends write and both close at once
Both == [Quiet EXCEPT !.bytes.a = 1, !.bytes.b = 1, !.frames = 1, !.faulty = {"b"},
                         !.lose = 1, !.first = Hosts]
\* more than a ring of data, read in parts, so that the rings wrap and the window shuts
Long == [Quiet EXCEPT !.bytes.a = RING + 2, !.piece = RING, !.frames = 1, !.read = 6,
                         !.faulty = {"b"}, !.lose = 1]
\* a program that lets go with data unread, or still to come
Hasty == [Quiet EXCEPT !.read = 1, !.hasty = {"b"}]

AllScenes == {Holes, Twice, Acks, Hurried, Both, Long, Hasty}

\* a ring of data and one lost segment
Full == {[Quiet EXCEPT !.bytes.a = Size, !.piece = Size, !.lose = 1]}
=============================================================================
