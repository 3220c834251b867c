----------------------------- MODULE LinkStream -----------------------------
(***************************************************************************)
(* One link of a Donar client, byte by byte: the SOCKS5 exchange that      *)
(* makes it (src/socks5.c), then the cells that arrive over it             *)
(* (src/packet.c), on one TCP connection that may cut any message at any   *)
(* byte.                                                                   *)
(*                                                                         *)
(*   client --- up ---> Tor           the SOCKS5 messages of the client    *)
(*   client <-- down -- Tor           those of Tor, then the cells         *)
(*                      Tor <-- far -- the server's proxy, writing cells   *)
(*                                                                         *)
(* Tor's half is that of src/faketor.c, the stand-in for Tor of the        *)
(* repository, which may here also refuse, answer with any address, close  *)
(* the connection or reset it.  What the client sends over the link when   *)
(* it is up, and the buffer pool, are in Proxy.                            *)
(***************************************************************************)
EXTENDS Socks5, SequencesExt

CONSTANTS
  UpRoom, DownRoom, FarRoom,   (* bounds: the bytes a stream holds        *)
  Answers,                     (* what Tor may answer, and the cells that *)
                               (* are then sent: sequences of packets     *)
  Stale,                       (* what a buffer of the pool may hold      *)
  UdpFailures                  (* whether a write to UDP may fail         *)

ASSUME LinkStreamAssumption ==
  /\ \A a \in Answers : \A i \in DOMAIN a.traffic : a.traffic[i] # <<>>
  /\ \A m \in Stale : \A i \in DOMAIN m : m[i] \in Byte

VARIABLES
  c,         (* the client's descriptor: its category and its socks5_ctx  *)
  t,         (* Tor's descriptor                                          *)
  up, down,  (* the two directions of the connection                      *)
  far,       (* the bytes the server's proxy wrote to Tor                 *)
  broken,    (* the connection was reset                                  *)
  reply,     (* what Tor answers this time                                *)
  traffic,   (* what the server's proxy has to send                       *)
  srv,       (* its writer: the cells left, and awrite                    *)
  bp,        (* the client's buffer for this link                         *)
  got,       (* the cells given to on_stream                              *)
  udp,       (* the client's UDP writer: its buffers, and awrite          *)
  out,       (* the datagrams written to UDP                              *)
  fate       (* "fine"; "spins": the client's loop calls back for ever;   *)
             (* "endless": buffer_count_ap does not return; "wild":       *)
             (* write_packet_to_udp works outside the buffer              *)

link == <<c, t, up, down, far, broken, reply, traffic, srv>>
data == <<bp, got, udp, out>>
vars == <<link, data, fate>>

Sending   == {"socks5-send-handshake", "socks5-send-client-req"}
Receiving == {"socks5-recv-handshake", "socks5-recv-server-reply"}
ClientEnd == {"socks5-failed", "closed"}

TSending   == {"socks5-server-send-handshake", "socks5-server-send-server-reply"}
TReceiving == {"socks5-server-recv-handshake", "socks5-server-recv-client-req"}
TorUp      == "ctos-read"

Init ==
  /\ c = [stage |-> "socks5-send-handshake", pc |-> "once", edge |-> TRUE,
          ch_cursor |-> 0, sh |-> <<>>, cr_cursor |-> 0, sr |-> <<>>,
          host_read |-> FALSE]
  /\ t = [stage |-> "socks5-listen", pc |-> "idle", edge |-> TRUE, ch |-> <<>>,
          sh_cursor |-> 0, cr |-> <<>>, host_read |-> FALSE, sr_cursor |-> 0]
  /\ up = NewStream(UpRoom) /\ down = NewStream(DownRoom) /\ far = <<>>
  /\ broken = FALSE /\ reply = FaketorReply /\ traffic = <<>>
  /\ srv = [left |-> <<>>, awrite |-> 0]
  /\ bp = [mem |-> <<>>, aread |-> 0, ap_count |-> 0]
  /\ got = <<>> /\ out = <<>> /\ udp = [queue |-> <<>>, awrite |-> 0]
  /\ fate = "fine"

(* The client still has the link, and its process has not gone astray.     *)
Alive == c.stage \notin ClientEnd /\ fate = "fine"

----------------------------------------------------------------------------
(* The client's half of the exchange. *)

Calls(stage) == Alive /\ c.pc # "idle" /\ c.stage = stage

CReady == \/ broken
          \/ c.stage \in Sending /\ Space(up) > 0
          \/ c.stage \notin Sending /\ Readable(down)

CFail == MvTo(c, "socks5-failed", FALSE)

(* EPOLL_CTL_MOD reports what already holds for the new category. *)
CMove(x, stage) ==
  MvTo(x, stage, broken \/ (IF stage \in Sending THEN Space(up) > 0 ELSE Readable(down)))

(* write() fails on a broken connection. *)
UpTakes(bs) == IF broken THEN <<>> ELSE Taken(up, bs)

(* Mutant: write() answers -1 into a signed number, still not looked at. *)
WrittenSigned(cursor, sent) ==
  IF broken THEN cursor - 1 ELSE cursor + Len(sent)

(* The cursor after write(): -1 in a size_t is never below 0, and is added  *)
(* to a cursor that counts modulo WordSize.                                *)
Written(cursor, sent) ==
  IF broken THEN (cursor - 1) % WordSize ELSE cursor + Len(sent)

(* on_socks5_send_handshake. *)
CSendHandshake ==
  /\ Calls("socks5-send-handshake")
  /\ LET size   == Len(ClientHandshake)
         sent   == UpTakes(Beyond(ClientHandshake, c.ch_cursor))
         cursor == Written(c.ch_cursor, sent)
         moved  == [c EXCEPT !.ch_cursor = cursor]
     IN  /\ up' = IF broken THEN up ELSE Sent(up, sent)
         /\ c' = IF ~ broken /\ sent = <<>> THEN Done(c)
                 ELSE IF cursor < size THEN Again(moved)
                 ELSE CMove(moved, "socks5-recv-handshake")
  /\ UNCHANGED <<t, down, far, broken, reply, traffic, srv, data, fate>>

(* on_socks5_send_client_req. *)
CSendRequest ==
  /\ Calls("socks5-send-client-req")
  /\ LET sent   == UpTakes(Beyond(ClientRequest, c.cr_cursor))
         moved  == [c EXCEPT !.cr_cursor = @ + Len(sent)]
     IN  /\ up' = IF broken THEN up ELSE Sent(up, sent)
         /\ c' = IF broken THEN CFail
                 ELSE IF sent = <<>> THEN Done(c)
                 ELSE IF moved.cr_cursor < Len(ClientRequest) THEN Again(moved)
                 ELSE CMove(moved, "socks5-recv-server-reply")
  /\ UNCHANGED <<t, down, far, broken, reply, traffic, srv, data, fate>>

(* read() makes room for Tor. *)
CReads(n) ==
  /\ down' = Consumed(down, n)
  /\ t' = [t EXCEPT !.edge = @ \/ (t.stage \in TSending /\ Reads(down, n) # <<>>)]

(* read() of n bytes in the exchange; with some, next is what comes of it.  *)
(* At the end of the stream read() returns 0: the callback answers 0 and    *)
(* the loop calls it again, for ever.                                      *)
CRead(n, next) ==
  LET some == Reads(down, n) # <<>>
  IN  /\ CReads(n)
      /\ c' = IF some THEN next
              ELSE IF broken THEN CFail
              ELSE IF AtEof(down) THEN Again(c)
              ELSE Done(c)
      /\ fate' = IF ~ some /\ ~ broken /\ AtEof(down) /\ c.pc = "loop"
                 THEN "spins" ELSE fate
      /\ UNCHANGED <<up, far, broken, reply, traffic, srv, data>>

(* on_socks5_recv_handshake. *)
CRecvHandshake ==
  /\ Calls("socks5-recv-handshake")
  /\ LET n == 2 - Len(c.sh)
         x == [c EXCEPT !.sh = @ \o Reads(down, n)]
     IN  CRead(n, IF Len(x.sh) < 2 THEN Again(x)
                  ELSE IF x.sh # <<VER_SOCKS5, METHOD_NOAUTH>> THEN CFail
                  ELSE CMove(x, "socks5-send-client-req"))

(* The whole reply has been read: its code is checked in a call of its own. *)
Complete(x) == Len(x.sr) >= Fixed /\ x.host_read /\ ReplyWant(x) = 0

(* on_socks5_recv_server_reply, while there is something to read. *)
CRecvReply ==
  /\ Calls("socks5-recv-server-reply")
  /\ ~ Complete(c)
  /\ IF Len(c.sr) < Fixed \/ Supported(c.sr)
     THEN LET n == ReplyWant(c) IN CRead(n, Again(ReplyRead(c, Reads(down, n))))
     ELSE /\ c' = CFail
          /\ UNCHANGED <<t, up, down, far, broken, reply, traffic, srv, data, fate>>

(* The memory of the buffer that get_read_buffer takes from the pool. *)
FreshBuffer == \E m \in Stale : bp' = [mem |-> m, aread |-> 0, ap_count |-> 0]

(* Its end; on_socks5_success registers copies of the descriptor in         *)
(* tcp-write and tcp-read, whose callback it calls.                        *)
CCheckReply ==
  /\ Calls("socks5-recv-server-reply")
  /\ Complete(c)
  /\ IF c.sr[2] = SOCKS5_REP_SUCCESS
     THEN c' = CMove(c, "tcp-read") /\ FreshBuffer
     ELSE c' = CFail /\ UNCHANGED bp
  /\ UNCHANGED <<t, up, down, far, broken, reply, traffic, srv, got, udp, out, fate>>

(* The loop takes an event.  An error goes to on_socks5_err, or to the      *)
(* repair of the link; only the link is told that the other side closed.   *)
CPoll ==
  /\ Alive /\ c.pc = "idle" /\ c.edge /\ CReady
  /\ c' = IF c.stage = "tcp-read" /\ (broken \/ down.fin = "here")
          THEN [c EXCEPT !.stage = "closed", !.edge = FALSE]
          ELSE IF broken THEN CFail
          ELSE [c EXCEPT !.pc = "loop", !.edge = FALSE]
  /\ UNCHANGED <<t, up, down, far, broken, reply, traffic, srv, data, fate>>

----------------------------------------------------------------------------
(* The client reads cells and passes them on. *)

BytesOf(ps, k) == FoldSeq(LAMBDA p, n : n + Len(p), 0, SubSeq(ps, 1, k))

(* Mutant: an interrupted buffer is written again from its start. *)
UdpWriteAgain(queue) ==
  LET ps == Payloads(Head(queue))
  IN  \E k \in 0 .. Len(ps) :
        /\ out' = out \o SubSeq(ps, 1, k)
        /\ UNCHANGED fate
        /\ \/ /\ k = Len(ps) \/ UdpFailures
              /\ udp' = [queue |-> Tail(queue), awrite |-> 0]
           \/ /\ k < Len(ps)
              /\ udp' = [queue |-> queue, awrite |-> 0]

(* main_on_udp_write: the first buffer is written, whole or up to the      *)
(* datagram the socket has no room for; a failed write drops the rest.     *)
(* What awrite then counts are payload bytes, which the next call uses as  *)
(* a number of buffers to skip.                                            *)
UdpWrite(queue) ==
  \/ /\ udp.awrite # 0
     /\ fate' = "wild"
     /\ udp' = [udp EXCEPT !.queue = queue]
     /\ UNCHANGED out
  \/ /\ udp.awrite = 0
     /\ UNCHANGED fate
     /\ LET ps == Payloads(Head(queue))
        IN  \E k \in 0 .. Len(ps) :
              /\ out' = out \o SubSeq(ps, 1, k)
              /\ \/ /\ k = Len(ps) \/ UdpFailures
                    /\ udp' = [queue |-> Tail(queue), awrite |-> 0]
                 \/ /\ k < Len(ps)
                    /\ udp' = [queue |-> queue, awrite |-> BytesOf(ps, k)]

(* Mutant: on_stream answers that there is no more to read. *)
OnStreamStops(x) == Done(x)

(* What on_stream answers when it has passed a cell on. *)
OnStreamAnswers(x) == Again(x)

(* One read() of main_on_tcp_read.  read_packet_from_tcp goes on within    *)
(* the same call until the cell is whole or there is nothing to read.      *)
TcpRead ==
  /\ Calls("tcp-read")
  /\ \E n \in {Want(bp)} : \E b \in {Filled(bp, Reads(down, n))} :
         /\ CReads(n)
         /\ \/ /\ Reads(down, n) = <<>>
               /\ c' = IF broken THEN [c EXCEPT !.stage = "closed", !.pc = "idle"]
                       ELSE Done(c)
               /\ UNCHANGED <<data, fate>>
            \/ /\ Reads(down, n) # <<>> /\ WalkStuck(bp, b)
               /\ bp' = b /\ fate' = "endless"
               /\ UNCHANGED <<c, got, udp, out>>
            \/ /\ Reads(down, n) # <<>> /\ ~ WalkStuck(bp, b) /\ ~ WholeCell(bp, b)
               /\ bp' = b
               /\ UNCHANGED <<c, got, udp, out, fate>>
            \/ /\ Reads(down, n) # <<>> /\ WholeCell(bp, b)
               /\ got' = Append(got, SubSeq(b.mem, 1, buffer_full_size(b.mem)))
               /\ FreshBuffer
               /\ UdpWrite(Append(udp.queue, b.mem))
               /\ c' = OnStreamAnswers(c)
  /\ UNCHANGED <<up, far, broken, reply, traffic, srv>>

(* The loop finds the UDP socket writable again. *)
UdpWritable ==
  /\ Alive /\ c.pc = "idle" /\ udp.queue # <<>>
  /\ UdpWrite(udp.queue)
  /\ UNCHANGED <<link, bp, got>>

----------------------------------------------------------------------------
(* Tor's half of the exchange, as faketor has it. *)

TCalls(stage) == Alive /\ t.pc # "idle" /\ t.stage = stage

(* The reply is sent from a category that waits for input; Tor itself,     *)
(* unlike faketor, is taken to wait for room.                              *)
TReady == \/ t.stage = "socks5-server-send-handshake" /\ Space(down) > 0
          \/ t.stage = "socks5-server-send-server-reply" /\ Readable(up)
          \/ /\ t.stage = "socks5-server-send-server-reply"
             /\ reply # FaketorReply /\ Space(down) > 0
          \/ t.stage \in TReceiving /\ Readable(up)

TMove(x, stage) == MvTo(x, stage, IF stage \in TReceiving THEN Readable(up) ELSE TRUE)

(* recv() by Tor makes room for the client. *)
TReads(n) ==
  /\ up' = Consumed(up, n)
  /\ c' = IF c.stage \in Sending /\ Reads(up, n) # <<>> THEN [c EXCEPT !.edge = TRUE] ELSE c

(* faketor_socks5_listen, socks5_server_handle_req. *)
TAccept ==
  /\ Alive /\ t.stage = "socks5-listen"
  /\ t' = TMove(t, "socks5-server-recv-handshake")
  /\ UNCHANGED <<c, up, down, far, broken, reply, traffic, srv, data, fate>>

(* on_socks5_server_recv_handshake: two bytes, as many methods as they     *)
(* say, and in a call of its own the choice.                               *)
TRecvHandshake ==
  /\ TCalls("socks5-server-recv-handshake")
  /\ LET n  == IF Len(t.ch) < 2 THEN 2 - Len(t.ch) ELSE 2 + t.ch[2] - Len(t.ch)
         bs == Reads(up, n)
     IN  \/ /\ n > 0
            /\ TReads(n)
            /\ UNCHANGED reply
            /\ t' = IF bs = <<>> THEN Done(t) ELSE Again([t EXCEPT !.ch = @ \o bs])
         \/ /\ n = 0
            /\ METHOD_NOAUTH \in ToSet(Beyond(t.ch, 2))
            /\ t' = TMove(t, "socks5-server-send-handshake")
            /\ reply' \in {a.reply : a \in Answers}
            /\ UNCHANGED <<c, up>>
  /\ UNCHANGED <<down, far, broken, traffic, srv, data, fate>>

(* on_socks5_server_send_handshake sends from the start of sh each time. *)
TSendHandshake ==
  /\ TCalls("socks5-server-send-handshake")
  /\ LET sent == Taken(down, Upto(ServerHandshake(reply), 2 - t.sh_cursor))
     IN  /\ down' = Sent(down, sent)
         /\ t' = IF t.sh_cursor = 2 THEN TMove(t, "socks5-server-recv-client-req")
                 ELSE IF sent = <<>> THEN Done(t)
                 ELSE Again([t EXCEPT !.sh_cursor = @ + Len(sent)])
  /\ UNCHANGED <<c, up, far, broken, reply, traffic, srv, data, fate>>

(* on_socks5_server_recv_client_req goes on from the header to the name     *)
(* and from the name to the port when all it asked for was there.          *)
TRecvRequest ==
  /\ TCalls("socks5-server-recv-client-req")
  /\ LET n  == RequestWant(t)
         bs == Reads(up, n)
         x  == RequestRead(t, bs)
     IN  /\ TReads(n)
         /\ t' = IF bs = <<>> THEN Done(t)
                 ELSE IF x.host_read /\ RequestWant(x) = 0
                      THEN TMove(x, "socks5-server-send-server-reply")
                 ELSE IF Len(bs) = n /\ (Len(x.cr) = Fixed \/ x.host_read) THEN x
                 ELSE Again(x)
  /\ UNCHANGED <<down, far, broken, reply, traffic, srv, data, fate>>

Granted == reply.method = METHOD_NOAUTH /\ reply.rep = SOCKS5_REP_SUCCESS

(* What the server's proxy has to send over the new link. *)
Bridged ==
  /\ \E a \in Answers : a.reply = reply /\ traffic' = a.traffic
  /\ srv' = [left |-> [i \in DOMAIN traffic' |-> Encoded(traffic'[i])], awrite |-> 0]

(* on_socks5_server_send_server_reply; then the connection is bridged. *)
TSendReply ==
  /\ TCalls("socks5-server-send-server-reply")
  /\ LET rest == Beyond(ServerReply(reply), t.sr_cursor)
         sent == Taken(down, rest)
         x    == [t EXCEPT !.sr_cursor = @ + Len(sent)]
     IN  /\ down' = Sent(down, sent)
         /\ t' = IF sent = <<>> THEN Done(t)
                 ELSE IF sent # rest THEN Again(x)
                 ELSE Done([x EXCEPT !.stage = IF Granted THEN TorUp ELSE "refused"])
         /\ IF sent = rest /\ Granted THEN Bridged ELSE UNCHANGED <<traffic, srv>>
  /\ UNCHANGED <<c, up, far, broken, reply, data, fate>>

TPoll ==
  /\ Alive /\ t.pc = "idle" /\ t.edge /\ TReady
  /\ t' = [t EXCEPT !.pc = "loop", !.edge = FALSE]
  /\ UNCHANGED <<c, up, down, far, broken, reply, traffic, srv, data, fate>>

(* One turn of faketor_bridge: what it peeks at, as far as send takes it. *)
TBridge ==
  /\ Alive /\ t.stage = TorUp /\ Taken(down, far) # <<>>
  /\ down' = Sent(down, far)
  /\ far' = Beyond(far, Len(Taken(down, far)))
  /\ UNCHANGED <<c, t, up, broken, reply, traffic, srv, data, fate>>

(* write_packet_to_tcp at the server's proxy: a cell, as much as fits. *)
SWrite ==
  /\ Alive /\ t.stage = TorUp /\ srv.left # <<>> /\ Len(far) < FarRoom
  /\ LET mem  == Head(srv.left)
         rest == SubSeq(mem, srv.awrite + 1, buffer_full_size(mem))
         sent == Upto(rest, FarRoom - Len(far))
     IN  /\ far' = far \o sent
         /\ srv' = IF sent = rest THEN [left |-> Tail(srv.left), awrite |-> 0]
                   ELSE [srv EXCEPT !.awrite = @ + Len(sent)]
  /\ UNCHANGED <<c, t, up, down, broken, reply, traffic, data, fate>>

----------------------------------------------------------------------------
(* The network. *)

UpArrives ==
  /\ Alive /\ ~ broken /\ t.stage # "closed" /\ CanArrive(up)
  /\ up' = Arrived(up)
  /\ t' = [t EXCEPT !.edge = TRUE]
  /\ UNCHANGED <<c, down, far, broken, reply, traffic, srv, data, fate>>

DownArrives ==
  /\ Alive /\ ~ broken /\ CanArrive(down)
  /\ down' = Arrived(down)
  /\ c' = [c EXCEPT !.edge = @ \/ c.stage \notin Sending]
  /\ UNCHANGED <<t, up, far, broken, reply, traffic, srv, data, fate>>

(* Tor closes its end, having read all there was. *)
TorCloses ==
  /\ Alive /\ ~ broken /\ t.stage \notin {"socks5-listen", "closed"} /\ up.buf = <<>>
  /\ t' = Done([t EXCEPT !.stage = "closed"])
  /\ down' = [down EXCEPT !.fin = "sent"]
  /\ UNCHANGED <<c, up, far, broken, reply, traffic, srv, data, fate>>

Reset ==
  /\ broken' = TRUE
  /\ down' = [down EXCEPT !.net = <<>>]
  /\ c' = [c EXCEPT !.edge = TRUE]
  /\ t' = Done([t EXCEPT !.stage = "closed"])
  /\ UNCHANGED <<up, far, reply, traffic, srv, data, fate>>

TorResets == Alive /\ ~ broken /\ t.stage # "socks5-listen" /\ Reset

(* What arrives at a closed end is answered by a reset. *)
UpRefused == Alive /\ ~ broken /\ t.stage = "closed" /\ up.net # <<>> /\ Reset

----------------------------------------------------------------------------

Client == \/ CSendHandshake \/ CRecvHandshake \/ CSendRequest
          \/ CRecvReply \/ CCheckReply \/ TcpRead \/ CPoll
Tor == \/ TAccept \/ TRecvHandshake \/ TSendHandshake \/ TRecvRequest \/ TSendReply
       \/ TPoll \/ TBridge
Network == UpArrives \/ DownArrives \/ UpRefused

Next == Client \/ UdpWritable \/ Tor \/ SWrite \/ Network \/ TorCloses \/ TorResets

(* The processes run, and bytes on their way arrive, in each direction.     *)
(* Tor need not close, and the UDP socket need not become writable.        *)
Fairness ==
  /\ WF_vars(Client) /\ WF_vars(Tor) /\ WF_vars(SWrite)
  /\ WF_vars(UpArrives) /\ WF_vars(UpRefused) /\ WF_vars(DownArrives)

Spec == Init /\ [][Next]_vars /\ Fairness

----------------------------------------------------------------------------

TypeOK ==
  /\ c.stage \in Sending \cup Receiving \cup ClientEnd \cup {"tcp-read"}
  /\ t.stage \in TSending \cup TReceiving \cup {"socks5-listen", TorUp, "refused", "closed"}
  /\ {c.pc, t.pc} \subseteq {"idle", "loop", "once"}
  /\ c.ch_cursor \in 0 .. WordSize - 1 /\ c.cr_cursor \in 0 .. Len(ClientRequest)
  /\ {up, down} \subseteq Stream /\ far \in Seq(Byte) /\ broken \in BOOLEAN
  /\ bp.aread \in Nat /\ bp.ap_count \in 0 .. 255
  /\ fate \in {"fine", "spins", "endless", "wild"}

Cells == [i \in DOMAIN traffic |-> Encoded(traffic[i])]

(* The cells that on_stream is given are those the server wrote, byte for   *)
(* byte and in order, wherever the connection cut them, however the reply  *)
(* of the exchange before them was cut, and whatever was left in the       *)
(* buffer they are read into.                                              *)
CellsIntact == IsPrefix(got, Cells)

(* A client that takes its link to be up has been granted it: it got a      *)
(* whole reply that says so, and Tor read its whole request.               *)
UpIsGranted ==
  c.stage = "tcp-read" =>
    /\ Granted /\ c.sr = ServerReply(reply)
    /\ t.cr = ClientRequest /\ t.stage \in {TorUp, "closed"}

AllPayloads(cells) == FlattenSeq([i \in DOMAIN cells |-> Payloads(cells[i])])

(* The datagrams that come out at the client are those of the cells it      *)
(* read, each at most once and in order, however often the socket had no   *)
(* room, and only a cell with several datagrams (the padding of the        *)
(* lightning algorithm) lets write_packet_to_udp leave its buffer.         *)
DatagramsInOrder ==
  /\ \E S \in SUBSET (1 .. Len(AllPayloads(got))) :
       out = [i \in 1 .. Cardinality(S) |-> AllPayloads(got)[SetToSortSeq(S, <)[i]]]
  /\ fate = "wild" => \E i \in DOMAIN got : Len(Payloads(got[i])) > 1

(* Every attempt ends: the link is up, or it failed and will be tried       *)
(* again, however the messages were cut and whatever was answered; only a  *)
(* close in the middle of the exchange makes the loop spin instead.        *)
ExchangeEnds == <>(c.stage \in ClientEnd \cup {"tcp-read"} \/ fate = "spins")

(* Once the link is up, every cell gets to on_stream, if the link stays up: *)
(* no wake-up of the edge-triggered descriptor is missed between two reads. *)
CellsArrive == <>[](c.stage = "tcp-read" /\ fate = "fine" => got = Cells)

============================================================================
