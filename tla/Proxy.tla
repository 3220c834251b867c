------------------------------- MODULE Proxy -------------------------------
(***************************************************************************)
(* A Donar server at work: the event loop of src/evt_core.c, the five      *)
(* handlers of src/proxy.c, the naive, the dup2 and the lightning          *)
(* algorithm, and donar_server_stream_repair, over the buffers of module   *)
(* BufferPool and the registry of module EvtCore.                          *)
(*                                                                         *)
(* One process runs everything, so a handler is never preempted.  But a    *)
(* handler calls other handlers (a reader calls the writer it has a packet *)
(* for, a writer calls, in notify_read, the reader that waits for the      *)
(* buffer it gives back), so that handlers nest, and the sockets change    *)
(* between any two of their steps.  `stack' holds the calls in progress,   *)
(* the innermost first.  A call that is the last thing its caller does     *)
(* replaces its caller in it, and is marked `zero' when the caller answers *)
(* 0 whatever the call returns: only dup2 and lightning, which send a      *)
(* datagram more than once, stay below the calls they make.                *)
(*                                                                         *)
(* Descriptors.  1 and 2 are the two descriptors of the UDP socket         *)
(* (udp-read and udp-write), 2 + p listens on port p, and the numbers      *)
(* above go to accepted connections, the lowest closed one first.          *)
(* Sockets.  0 is the UDP socket and 1, 2, ... the connections, in the     *)
(* order they were made.  A connection has two descriptors, one made with  *)
(* dup, so that epoll watches one socket under two numbers.                *)
(***************************************************************************)
EXTENDS BufferPool, EvtLoop

CONSTANTS
  NPorts,        (* ap.links: the links, each on a port of its own         *)
  MaxConns,      (* bound: the connections ever made                       *)
  MaxPackets,    (* bound: the packets that ever arrive, and the errors the *)
                 (* network reports on the UDP socket                      *)
  MaxEvents,     (* EVT_CORE_MAX_EVENTS                                    *)
  Algos,         (* the algorithms a run considers                         *)
  WaitBootstrap  (* ap.is_waiting_bootstrap                                *)

Ports     == 1 .. NPorts
UR        == 1
UW        == 2
Listen(p) == 2 + p
ConnFds   == (3 + NPorts) .. (2 + NPorts + 2 * MaxConns)

UdpSock    == 0
Conns      == 1 .. MaxConns
ListenSock == MaxConns + 1
Sockets    == 0 .. MaxConns

CatNames == {"tcp-listen", "tcp-read", "tcp-write", "udp-read", "udp-write"}
Readers  == {"tcp-read", "udp-read"}
Writers  == {"tcp-write", "udp-write"}

ASSUME ProxyAssumption ==
  /\ NPorts \in Nat \ {0} /\ MaxConns \in Nat /\ MaxPackets \in Nat
  /\ MaxEvents \in Nat \ {0} /\ PoolSize > 0
  /\ Algos \subseteq {"naive", "dup2", "lightning"} /\ WaitBootstrap \in BOOLEAN
  /\ Fds = 1 .. (2 + NPorts + 2 * MaxConns)
  /\ Cats = CatNames /\ NoSock # UdpSock
  /\ Urls = CatNames \X (0 .. NPorts)
  /\ Packets = 0 .. MaxPackets

VARIABLES
  algo,       (* the algorithm this process runs                           *)
  pool,       (* app_ctx->br                                               *)
  reg,        (* the registry of the evt_core_ctx                          *)
  stack,      (* the calls in progress                                     *)
  uniq_pkt_sent_id, (* of struct light_ctx: the number of the next datagram *)
  current,    (* the descriptor whose callback evt_core_loop is repeating  *)
  accepting,  (* the second descriptor of the connection tcp_co is adding  *)
  batch,      (* the events of the last epoll_wait still to be handled     *)
  is_rdy,     (* app_ctx->is_rdy                                           *)
  kern,       (* the sockets and the epoll instance                        *)
  left,       (* how many packets or errors may still arrive               *)
  stamp,      (* how many datagrams have been read                         *)
  sent,       (* sent[fd]: the last datagram written through fd            *)
  fate        (* "run", or how the process ended                           *)

(* What a run of the algorithm keeps, beside pool and is_rdy. *)
app_ctx == <<algo, uniq_pkt_sent_id>>

vars == <<app_ctx, pool, reg, stack, current, accepting, batch, is_rdy, kern,
          left, stamp, sent, fate>>

----------------------------------------------------------------------------
(* The kernel keeps, beside the fields of module EvtLoop,                  *)
(*   rx[s]        the whole packets that can be read from s                *)
(*   full         the sockets whose send buffer is full                    *)
(*   link[c]      "none", "open" or "broken"                               *)
(*   backlog[p]   the connections port p has not accepted yet              *)

Broken(s) == s \in Conns /\ kern.link[s] = "broken"

(* What epoll_wait can report.  A listening socket is level-triggered. *)
Pending ==
  kern.ready \cup kern.hup \cup
  {w \in Watches(kern, ListenSock) : kern.backlog[w[2] - 2] # <<>>}

----------------------------------------------------------------------------
(* Calls.                                                                  *)

(* i is where dup2 is in its loop, and links is what lightning has still    *)
(* to send over.                                                           *)

Frame == [pc : CatNames \cup {"dup2", "lightning"}, fd : Fds,
          bp : Buffers \cup {NoBuffer}, i : Nat, links : Seq(Ports),
          zero : BOOLEAN]

(* The callback of the category fd is in, called on fd. *)
Callback(r, fd, zero) ==
  [pc |-> r.info[fd].cat, fd |-> fd, bp |-> NoBuffer, i |-> 0, links |-> <<>>,
   zero |-> zero]

Running(pc) == fate = "run" /\ stack # <<>> /\ Head(stack).pc = pc

Top == Head(stack)

(* The call on top is over and its place taken by call f. *)
TailCall(f) ==
  stack' = <<f>> \o Tail(stack) /\ UNCHANGED <<current, accepting, fate>>

(***************************************************************************)
(* The call on top returns v.  evt_core_add_fd and dup2 ignore the result; *)
(* evt_core_loop calls the callback again while it is 0, through an fdinfo *)
(* that the calls it made may have freed.                                  *)
(***************************************************************************)
Return(v) ==
  LET again == Len(stack) = 1 /\ accepting = NoFd /\ v = 0
      alive == IsRegistered(reg', current)
  IN  /\ stack' = IF again /\ alive THEN <<Callback(reg', current, FALSE)>>
                  ELSE Tail(stack)
      /\ current' = IF Len(stack) = 1 /\ accepting = NoFd /\ v # 0
                    THEN NoFd ELSE current
      /\ fate' = IF again /\ ~ alive THEN "dangling" ELSE fate
      /\ UNCHANGED accepting

(* The call on top returns v, unless its caller answers 0 for it. *)
Answer(v) == Return(IF Top.zero THEN 0 ELSE v)

(* evt_core_rm_fd of a registered fd, with free_fdinfo, on pool p. *)
rm_fd(p, fd) ==
  /\ reg' = RmFd(reg, fd)
  /\ kern' = Close(kern, fd)
  /\ pool' = ForgetFd(p, fd)

(* Mutant: the entry of read_waiting is trusted to be registered. *)
NotifyUnchecked(p) ==
  IF p.readWaiting = <<>> THEN pool' = p /\ Return(0)
  ELSE /\ pool' = PopWaiter(p)
       /\ \E n \in IF Head(p.readWaiting) = Stale THEN Fds
                   ELSE {Head(p.readWaiting)} :
            TailCall(Callback(reg, n, TRUE))

(* Mutant: the writer answers EVT_CORE_FD_EXHAUSTED after each packet. *)
NotifyExhausted(p) ==
  IF p.readWaiting = <<>> THEN pool' = p /\ Answer(1)
  ELSE /\ pool' = PopWaiter(p)
       /\ \E n \in IF Head(p.readWaiting) = Stale THEN Fds
                   ELSE {Head(p.readWaiting)} :
            IF IsRegistered(reg, n) /\ reg.info[n].cat \in Readers
            THEN TailCall(Callback(reg, n, TRUE))
            ELSE /\ fate' = "exit"
                 /\ UNCHANGED <<stack, current, accepting>>

(***************************************************************************)
(* notify_read, the last thing a writer does before it answers 0, on pool  *)
(* p.  An entry of read_waiting whose fdinfo has been freed is read from   *)
(* freed memory: any number may be found there.                            *)
(***************************************************************************)
notify_read(p) ==
  IF p.readWaiting = <<>> THEN pool' = p /\ Return(0)
  ELSE /\ pool' = PopWaiter(p)
       /\ \E n \in IF Head(p.readWaiting) = Stale THEN Fds
                   ELSE {Head(p.readWaiting)} :
            IF IsRegistered(reg, n) /\ reg.info[n].cat \in Readers
            THEN TailCall(Callback(reg, n, TRUE))
            ELSE /\ fate' = "exit"
                 /\ UNCHANGED <<stack, current, accepting>>

----------------------------------------------------------------------------
(* The state after donar_server has set everything up: every listening     *)
(* socket and both descriptors of the UDP socket are registered, and the   *)
(* call evt_core_add_fd makes has given the UDP reader its first buffer.   *)

AddListeners ==
  [EmptyRegistry EXCEPT
     !.info = [fd \in Fds |->
                 IF fd \in {Listen(p) : p \in Ports}
                 THEN [cat |-> "tcp-listen", url |-> <<"tcp-listen", fd - 2>>]
                 ELSE @[fd]],
     !.list["tcp-listen"] = [p \in Ports |-> Listen(p)],
     !.url = [u \in Urls |-> IF u[1] = "tcp-listen" /\ u[2] \in Ports
                             THEN Listen(u[2]) ELSE @[u]],
     !.key = [u \in Urls |-> IF u[1] = "tcp-listen" /\ u[2] \in Ports
                             THEN Listen(u[2]) ELSE @[u]]]

InitKern ==
  [sock    |-> [fd \in Fds |-> IF fd \in {UR, UW} THEN UdpSock
                              ELSE IF fd \in ConnFds THEN NoSock
                              ELSE ListenSock],
   watch   |-> {<<UdpSock, UR, "in">>, <<UdpSock, UW, "out">>} \cup
               {<<ListenSock, Listen(p), "in">> : p \in Ports},
   ready   |-> {<<UdpSock, UW, "out">>},
   hup     |-> {},
   rx      |-> [s \in Sockets |-> 0],
   full    |-> {},
   link    |-> [c \in Conns |-> "none"],
   backlog |-> [p \in Ports |-> <<>>]]

Init ==
  /\ algo \in Algos
  /\ pool = get_read_buffer(InitPool, UR)
  /\ reg = AddFd(AddFd(AddListeners, UR, "udp-read", <<"udp-read", 0>>),
                 UW, "udp-write", <<"udp-write", 0>>)
  /\ stack = <<>> /\ current = NoFd /\ accepting = NoFd
  /\ uniq_pkt_sent_id = 1
  /\ batch = EmptyBatch
  /\ is_rdy = FALSE
  /\ kern = InitKern
  /\ left = MaxPackets /\ stamp = 0
  /\ sent = [fd \in Fds |-> 0]
  /\ fate = "run"

----------------------------------------------------------------------------
(* evt_core_loop                                                           *)

AtLoop == fate = "run" /\ stack = <<>> /\ current = NoFd

(* epoll_wait *)
Poll ==
  /\ AtLoop /\ batch = EmptyBatch
  /\ \E ws \in SUBSET Pending :
       /\ ws # {} /\ Cardinality(ws) <= MaxEvents
       /\ batch' = BatchOf(kern, ws)
       /\ kern' = Reported(kern, ws)
  /\ reg' = ClearBlacklist(reg)
  /\ UNCHANGED <<app_ctx, pool, stack, current, accepting, is_rdy, left, stamp,
                 sent, fate>>

(* The descriptors donar_server_stream_repair removes, in its order: those *)
(* the URLs of the port of fd lead to.                                     *)
Repaired(fd) ==
  LET p       == reg.info[fd].url[2]
      At(cat) == LET g == FromUrl(reg, <<cat, p>>)
                 IN  IF g = NoFd THEN <<>> ELSE <<g>>
  IN  At("tcp-read") \o At("tcp-write")

(* The error phase: main_on_err, which hands a TCP descriptor to           *)
(* donar_server_stream_repair.  Both answer 1, so the loop removes nothing *)
(* itself.                                                                 *)
HandleError ==
  /\ AtLoop
  /\ \E e \in batch.err :
       /\ batch' = [batch EXCEPT !.err = @ \ {e}]
       /\ IF Ignored(reg, e.fd) THEN UNCHANGED <<pool, reg, kern>>
          ELSE LET p == ReleaseAll(pool, e.fd)
                   r == Repaired(e.fd)
               IN  IF reg.info[e.fd].cat \in {"udp-read", "udp-write"} \/ r = <<>>
                   THEN pool' = p /\ UNCHANGED <<reg, kern>>
                   ELSE IF Len(r) = 1 THEN rm_fd(p, r[1])
                   ELSE /\ reg' = RmFd(RmFd(reg, r[1]), r[2])
                        /\ kern' = Close(Close(kern, r[1]), r[2])
                        /\ pool' = ForgetFd(ForgetFd(p, r[1]), r[2])
  /\ UNCHANGED <<app_ctx, stack, current, accepting, is_rdy, left, stamp, sent,
                 fate>>

(* The second phase: the callback, again and again while it answers 0. *)
HandleEvent ==
  /\ AtLoop /\ batch.err = {}
  /\ \E e \in batch.cb :
       /\ batch' = [batch EXCEPT !.cb = @ \ {e}]
       /\ IF Ignored(reg, e.fd) THEN UNCHANGED <<stack, current>>
          ELSE stack' = <<Callback(reg, e.fd, FALSE)>> /\ current' = e.fd
  /\ UNCHANGED <<app_ctx, pool, reg, accepting, is_rdy, kern, left, stamp, sent,
                 fate>>

----------------------------------------------------------------------------
(* main_on_tcp_co                                                          *)

TcpCoNone ==
  /\ Running("tcp-listen") /\ kern.backlog[Top.fd - 2] = <<>>
  /\ UNCHANGED <<app_ctx, pool, reg, batch, is_rdy, kern, left, stamp, sent>>
  /\ Answer(1)

(* accept, dup, and the registration of the reading side. *)
TcpCo ==
  /\ Running("tcp-listen") /\ kern.backlog[Top.fd - 2] # <<>>
  /\ \E r, w \in Closed(kern), inherit \in BOOLEAN :
       LET p == Top.fd - 2
           c == Head(kern.backlog[p])
           k == [kern EXCEPT !.sock[r] = c, !.sock[w] = c, !.backlog[p] = Tail(@)]
       IN  /\ r < w /\ \A fd \in Closed(kern) : fd = r \/ fd >= w
           /\ reg' = AddFd(reg, r, "tcp-read", <<"tcp-read", p>>)
           /\ kern' = Watch(k, <<c, r, "in">>, kern.rx[c] > 0, Broken(c))
           /\ pool' = AdoptFd(pool, r, inherit)
           /\ accepting' = w
           /\ stack' = <<Callback(reg', r, FALSE)>>
  /\ UNCHANGED <<app_ctx, current, batch, is_rdy, left, stamp, sent, fate>>

(* The call on the reading side is over: the writing side. *)
TcpCoWriter ==
  /\ fate = "run" /\ stack = <<>> /\ accepting # NoFd
  /\ \E inherit \in BOOLEAN :
       LET w == accepting
           c == kern.sock[w]
       IN  /\ reg' = AddFd(reg, w, "tcp-write", <<"tcp-write", current - 2>>)
           /\ kern' = Watch(kern, <<c, w, "out">>, c \notin kern.full, Broken(c))
           /\ pool' = AdoptFd(pool, w, inherit)
           /\ stack' = <<Callback(reg', w, TRUE)>>
  /\ accepting' = NoFd
  /\ UNCHANGED <<app_ctx, current, batch, is_rdy, left, stamp, sent, fate>>

----------------------------------------------------------------------------
(* The readers.  A packet that was read is in the buffer fd holds in pool  *)
(* p; the algorithm takes it from there.                                   *)

SockOf(fd) == kern.sock[fd]

(* What the model tells of a packet that came over a link; a datagram is   *)
(* known by its rank among the datagrams read.                             *)
Cell == 0

(* One of the packets of s has been read.  epoll_wait looks again at what  *)
(* it is about to report, and drops what is no longer true.                *)
Consume(s) ==
  [kern EXCEPT !.rx[s] = @ - 1,
               !.ready = IF kern.rx[s] = 1 THEN @ \ Ins(kern, s) ELSE @]

(* The on_stream of each algorithm: to the UDP writer, unless no such port *)
(* is exposed, or dup2 has delivered that packet already.                  *)
on_stream(p, fd) ==
  \/ /\ pool' = mv_buffer_rtow(p, fd, UW)
     /\ TailCall(Callback(reg, UW, TRUE))
  \/ pool' = mv_buffer_rtof(p, fd) /\ Answer(1)
  \/ algo = "dup2" /\ pool' = mv_buffer_rtof(p, fd) /\ Answer(0)

(* Mutant: a datagram that no link can take is not released. *)
NaiveKeeps(p, fd) ==
  LET links == reg.list["tcp-write"]
  IN  IF links = <<>> THEN pool' = p /\ Answer(1)
      ELSE /\ pool' = mv_buffer_rtow(p, fd, links[1])
           /\ TailCall(Callback(reg, links[1], TRUE))

(* algo_naive_on_datagram: to the first link. *)
NaiveOnDatagram(p, fd) ==
  LET links == reg.list["tcp-write"]
  IN  IF links = <<>> THEN pool' = mv_buffer_wtof(p, fd) /\ Answer(1)
      ELSE /\ pool' = mv_buffer_rtow(p, fd, links[1])
           /\ TailCall(Callback(reg, links[1], TRUE))

(* algo_dup2_on_datagram, up to its loop over the links. *)
Dup2OnDatagram(p, fd) ==
  /\ pool' = p
  /\ TailCall([pc |-> "dup2", fd |-> fd, bp |-> p.used[fd], i |-> 1,
               links |-> <<>>, zero |-> Top.zero])

(***************************************************************************)
(* algo_lightning_on_datagram, up to its first send_message.               *)
(* algo_lightning_pad keeps a copy of the datagram, if a buffer is free,   *)
(* under a key that is advanced only after the sending: the key may still  *)
(* be in use.  It then releases the copy that is NPorts datagrams old.     *)
(* The links are a fast one and a slow one, as module LightningSched says; *)
(* either may be missing.                                                  *)
(***************************************************************************)
LightningOnDatagram(p, fd) ==
  IF p.free # <<>> /\ HasApp(p, uniq_pkt_sent_id)
  THEN fate' = "exit" /\ pool' = p /\ UNCHANGED <<stack, current, accepting>>
  ELSE LET q   == IF p.free = <<>> THEN p
                  ELSE dup_buffer_toa(p, p.used[fd], uniq_pkt_sent_id)
           old == uniq_pkt_sent_id - NPorts
       IN  /\ pool' = IF HasApp(q, old) THEN mv_buffer_atof(q, old) ELSE q
           /\ \E links \in {<<>>} \cup {<<l>> : l \in Ports}
                    \cup {<<f, g>> : f \in Ports, g \in Ports} :
                /\ Len(links) = 2 => links[1] # links[2]
                /\ TailCall([pc |-> "lightning", fd |-> fd, bp |-> p.used[fd], i |-> 0,
                             links |-> links, zero |-> Top.zero])

on_datagram(p, fd) ==
  CASE algo = "naive"     -> NaiveOnDatagram(p, fd)
    [] algo = "dup2"      -> Dup2OnDatagram(p, fd)
    [] algo = "lightning" -> LightningOnDatagram(p, fd)

ReadVars == <<app_ctx, batch, is_rdy, left, sent>>

(* main_on_tcp_read *)
TcpRead ==
  /\ Running("tcp-read")
  /\ LET fd == Top.fd
         s  == SockOf(fd)
         p  == get_read_buffer(pool, fd)
         b  == p.used[fd]
     IN  \/ /\ b = NoBuffer
            /\ UNCHANGED <<reg, kern>> /\ pool' = p /\ Answer(1)
         \/ (* FDS_AGAIN: part of a packet, nothing, or the end of the stream *)
            /\ b # NoBuffer /\ p.pkt[b] = Blank /\ (kern.rx[s] = 0 \/ Broken(s))
            /\ UNCHANGED <<reg, kern>> /\ pool' = p /\ Answer(1)
         \/ (* FDS_ERR *)
            /\ b # NoBuffer /\ p.pkt[b] = Blank /\ Broken(s)
            /\ rm_fd(mv_buffer_rtof(p, fd), fd) /\ Answer(1)
         \/ (* FDS_READY *)
            /\ b # NoBuffer /\ p.pkt[b] = Blank /\ kern.rx[s] > 0
            /\ kern' = Consume(s) /\ UNCHANGED reg
            /\ on_stream(FillBuffer(p, fd, Cell), fd)
         \/ (* the buffer is not in reading mode *)
            /\ b # NoBuffer /\ p.pkt[b] # Blank
            /\ UNCHANGED <<reg, kern>>
            /\ on_stream(p, fd)
  /\ UNCHANGED <<ReadVars, stamp>>

(* main_on_udp_read *)
UdpRead ==
  /\ Running("udp-read")
  /\ LET fd == Top.fd
         p  == get_read_buffer(pool, fd)
         b  == p.used[fd]
     IN  /\ UNCHANGED reg
         /\ \/ /\ b = NoBuffer
               /\ UNCHANGED <<kern, stamp>> /\ pool' = p /\ Answer(1)
            \/ (* FDS_ERR: the buffer is not in reading mode *)
               /\ b # NoBuffer /\ p.pkt[b] # Blank
               /\ pool' = mv_buffer_rtof(p, fd) /\ Answer(0)
               /\ UNCHANGED <<kern, stamp>>
            \/ (* FDS_AGAIN *)
               /\ b # NoBuffer /\ p.pkt[b] = Blank /\ kern.rx[UdpSock] = 0
               /\ UNCHANGED <<kern, stamp>> /\ pool' = p /\ Answer(1)
            \/ (* FDS_AGAIN: a datagram with no payload *)
               /\ b # NoBuffer /\ p.pkt[b] = Blank /\ kern.rx[UdpSock] > 0
               /\ kern' = Consume(UdpSock) /\ UNCHANGED stamp
               /\ pool' = p /\ Answer(1)
            \/ (* FDS_ERR: the datagram was truncated *)
               /\ b # NoBuffer /\ p.pkt[b] = Blank /\ kern.rx[UdpSock] > 0
               /\ kern' = Consume(UdpSock) /\ UNCHANGED stamp
               /\ pool' = mv_buffer_rtof(p, fd) /\ Answer(0)
            \/ (* FDS_READY *)
               /\ b # NoBuffer /\ p.pkt[b] = Blank /\ kern.rx[UdpSock] > 0
               /\ kern' = Consume(UdpSock) /\ stamp' = stamp + 1
               /\ on_datagram(FillBuffer(p, fd, stamp + 1), fd)
  /\ UNCHANGED ReadVars

(* Mutant: the loop over the links does not advance. *)
Dup2SameLink ==
  /\ Running("dup2") /\ Top.i <= NPorts /\ Top.i <= Len(reg.list["tcp-write"])
  /\ IF pool.free = <<>>
     THEN fate' = "crash" /\ UNCHANGED <<pool, stack>>
     ELSE LET to == reg.list["tcp-write"][Top.i]
          IN  /\ pool' = dup_buffer_tow(pool, Top.bp, to)
              /\ stack' = <<Callback(reg, to, FALSE)>> \o stack
              /\ UNCHANGED fate
  /\ UNCHANGED <<app_ctx, reg, current, accepting, batch, is_rdy, kern, left,
                 stamp, sent>>

(* The body of the loop of algo_dup2_on_datagram for one link.  The list   *)
(* of links may have changed since the last.  Without a free buffer        *)
(* dup_buffer_tow copies to NULL.                                          *)
Dup2Link ==
  /\ Running("dup2") /\ Top.i <= NPorts /\ Top.i <= Len(reg.list["tcp-write"])
  /\ IF pool.free = <<>>
     THEN fate' = "crash" /\ UNCHANGED <<pool, stack>>
     ELSE LET to == reg.list["tcp-write"][Top.i]
          IN  /\ pool' = dup_buffer_tow(pool, Top.bp, to)
              /\ stack' = <<Callback(reg, to, FALSE), [Top EXCEPT !.i = @ + 1]>>
                          \o Tail(stack)
              /\ UNCHANGED fate
  /\ UNCHANGED <<app_ctx, reg, current, accepting, batch, is_rdy, kern, left,
                 stamp, sent>>

(* The links that are missing are skipped, and the datagram released. *)
Dup2Done ==
  /\ Running("dup2") /\ ~ (Top.i <= NPorts /\ Top.i <= Len(reg.list["tcp-write"]))
  /\ UNCHANGED <<app_ctx, reg, batch, is_rdy, kern, left, stamp, sent>>
  /\ pool' = mv_buffer_rtof(pool, Top.fd)
  /\ Answer(0)

(* send_message: over the link of that port, if it has a descriptor. *)
LightningSend ==
  /\ Running("lightning") /\ Top.links # <<>>
  /\ LET to   == FromUrl(reg, <<"tcp-write", Head(Top.links)>>)
         rest == <<[Top EXCEPT !.links = Tail(@)]>> \o Tail(stack)
     IN  IF to = NoFd THEN stack' = rest /\ UNCHANGED <<pool, fate>>
         ELSE IF pool.free = <<>>
         THEN fate' = "crash" /\ UNCHANGED <<pool, stack>>
         ELSE /\ pool' = dup_buffer_tow(pool, Top.bp, to)
              /\ stack' = <<Callback(reg, to, FALSE)>> \o rest
              /\ UNCHANGED fate
  /\ UNCHANGED <<app_ctx, reg, current, accepting, batch, is_rdy,
                 kern, left, stamp, sent>>

LightningDone ==
  /\ Running("lightning") /\ Top.links = <<>>
  /\ uniq_pkt_sent_id' = uniq_pkt_sent_id + 1
  /\ UNCHANGED <<algo, reg, batch, is_rdy, kern, left, stamp, sent>>
  /\ pool' = mv_buffer_rtof(pool, Top.fd)
  /\ Answer(0)

----------------------------------------------------------------------------
(* The writers.                                                            *)

WriteVars == <<app_ctx, batch, left, stamp>>

(* A send of a whole packet through fd: what it can answer. *)
CanSend(fd) == SockOf(fd) \notin kern.full

(* EAGAIN: epoll will report fd again when there is room. *)
FillUp(s) == [kern EXCEPT !.full = @ \cup {s}, !.ready = @ \ Outs(kern, s)]

(* Mutant: the tunnel never waits. *)
NeverBootstrapping == FALSE

(* Not all the links have been up at once yet, and the tunnel waits. *)
Bootstrapping == WaitBootstrap /\ ~ is_rdy'

(* main_on_tcp_write *)
TcpWrite ==
  /\ Running("tcp-write")
  /\ is_rdy' = (is_rdy \/ Len(reg.list["tcp-write"]) >= NPorts)
  /\ LET fd == Top.fd
         s  == SockOf(fd)
         p  == get_write_buffer(pool, fd)
         b  == p.used[fd]
     IN  \/ /\ b = NoBuffer
            /\ UNCHANGED <<reg, kern, sent>> /\ pool' = p /\ Answer(1)
         \/ (* still bootstrapping: the packet is dropped *)
            /\ b # NoBuffer /\ Bootstrapping
            /\ UNCHANGED <<reg, kern, sent>> /\ notify_read(mv_buffer_wtof(p, fd))
         \/ (* FDS_READY *)
            /\ b # NoBuffer /\ ~ Bootstrapping /\ p.pkt[b] # Blank /\ CanSend(fd)
            /\ sent' = [sent EXCEPT ![fd] = p.pkt[b]]
            /\ UNCHANGED <<reg, kern>> /\ notify_read(mv_buffer_wtof(p, fd))
         \/ (* FDS_AGAIN *)
            /\ b # NoBuffer /\ ~ Bootstrapping /\ p.pkt[b] # Blank
            /\ UNCHANGED <<reg, sent>> /\ kern' = FillUp(s) /\ pool' = p /\ Answer(1)
         \/ (* FDS_ERR: the link broke, or the buffer holds no packet *)
            /\ b # NoBuffer /\ ~ Bootstrapping /\ (p.pkt[b] = Blank \/ Broken(s))
            /\ rm_fd(mv_buffer_wtof(p, fd), fd) /\ Answer(1) /\ UNCHANGED sent
  /\ UNCHANGED WriteVars

(* main_on_udp_write *)
UdpWrite ==
  /\ Running("udp-write")
  /\ UNCHANGED <<WriteVars, reg, is_rdy>>
  /\ LET fd == Top.fd
         p  == get_write_buffer(pool, fd)
         b  == p.used[fd]
     IN  \/ /\ b = NoBuffer
            /\ UNCHANGED <<kern, sent>> /\ pool' = p /\ Answer(1)
         \/ (* FDS_READY *)
            /\ b # NoBuffer /\ p.pkt[b] # Blank /\ CanSend(fd)
            /\ sent' = [sent EXCEPT ![fd] = p.pkt[b]]
            /\ UNCHANGED kern /\ notify_read(mv_buffer_wtof(p, fd))
         \/ (* FDS_AGAIN *)
            /\ b # NoBuffer /\ p.pkt[b] # Blank
            /\ UNCHANGED sent /\ kern' = FillUp(UdpSock) /\ pool' = p /\ Answer(1)
         \/ (* FDS_ERR: nobody to send to yet, an error the network reported, *)
            (* or a buffer that holds no packet                               *)
            /\ b # NoBuffer
            /\ UNCHANGED <<kern, sent>> /\ pool' = mv_buffer_wtof(p, fd) /\ Answer(0)

----------------------------------------------------------------------------
(* What the outside world does between two steps of the process.           *)

EnvVars == <<app_ctx, pool, reg, stack, current, accepting, batch, is_rdy, stamp,
             sent, fate>>

Connect ==
  /\ fate = "run"
  /\ \E c \in Conns, p \in Ports :
       /\ kern.link[c] = "none" /\ \A d \in Conns : d < c => kern.link[d] # "none"
       /\ kern' = [kern EXCEPT !.link[c] = "open", !.backlog[p] = Append(@, c)]
  /\ UNCHANGED <<EnvVars, left>>

Arrive ==
  /\ fate = "run" /\ left > 0 /\ left' = left - 1
  /\ \E s \in Sockets :
       /\ s \in Conns => kern.link[s] = "open"
       /\ kern' = [kern EXCEPT !.rx[s] = @ + 1, !.ready = @ \cup Ins(kern, s)]
  /\ UNCHANGED EnvVars

Break ==
  /\ fate = "run"
  /\ \E c \in Conns :
       /\ kern.link[c] = "open"
       /\ kern' = [kern EXCEPT !.link[c] = "broken", !.hup = @ \cup Watches(kern, c)]
  /\ UNCHANGED <<EnvVars, left>>

(* An ICMP error on the UDP socket. *)
UdpError ==
  /\ fate = "run" /\ left > 0 /\ left' = left - 1
  /\ kern' = [kern EXCEPT !.hup = @ \cup Watches(kern, UdpSock)]
  /\ UNCHANGED EnvVars

Drain ==
  /\ fate = "run"
  /\ \E s \in kern.full :
       kern' = [kern EXCEPT !.full = @ \ {s}, !.ready = @ \cup Outs(kern, s)]
  /\ UNCHANGED <<EnvVars, left>>

Step == \/ Poll \/ HandleError \/ HandleEvent
        \/ TcpCoNone \/ TcpCo \/ TcpCoWriter
        \/ TcpRead \/ UdpRead \/ Dup2Link \/ Dup2Done
        \/ LightningSend \/ LightningDone
        \/ TcpWrite \/ UdpWrite

Env == Connect \/ Arrive \/ Break \/ UdpError \/ Drain

Next == Step \/ Env

Spec == Init /\ [][Next]_vars

(* The process is scheduled: it never stops taking the step it can take. *)
FairSpec == Spec /\ WF_vars(Step)

----------------------------------------------------------------------------
(* Properties.                                                             *)

TypeOK ==
  /\ algo \in Algos
  /\ pool \in Pool
  /\ reg \in Registry
  /\ stack \in Seq(Frame)
  /\ uniq_pkt_sent_id \in 1 .. (stamp + 1)
  /\ current \in Fds \cup {NoFd} /\ accepting \in Fds \cup {NoFd}
  /\ is_rdy \in BOOLEAN
  /\ left \in 0 .. MaxPackets /\ stamp \in 0 .. MaxPackets
  /\ sent \in [Fds -> Packets]
  /\ fate \in {"run", "exit", "dangling", "crash"}

(* However the handlers nest, and whichever of them fails on the way, every *)
(* buffer is in exactly one place: free, held by one descriptor, queued     *)
(* once for one, or in an entry of a closed descriptor.                     *)
BuffersAccounted == PoolInv(pool)

(* No lookup by category or by URL returns an fdinfo that was freed, and a  *)
(* registered descriptor is open.                                           *)
RegistryConsistent ==
  RegistryInv(reg) /\ \A fd \in Registered(reg) : SockOf(fd) # NoSock

(* The datagrams a link has sent and those waiting for it are in the order  *)
(* they were read, without repetition, whatever was dropped and however     *)
(* the handlers that read and write them nest (with dup2, up to two links). *)
Outgoing(fd) ==
  <<sent[fd], IF pool.used[fd] = NoBuffer THEN Blank ELSE pool.pkt[pool.used[fd]]>>
  \o [i \in DOMAIN pool.writeWaiting[fd] |-> pool.pkt[pool.writeWaiting[fd][i]]]

TunnelOrder ==
  \A fd \in Registered(reg) : reg.info[fd].cat = "tcp-write" =>
    LET o == Outgoing(fd)
    IN  \A i, j \in DOMAIN o : i < j /\ o[i] # Blank /\ o[j] # Blank => o[i] < o[j]

(* At rest in epoll_wait, a descriptor that still has a packet to write     *)
(* has a full socket, or an event is due that will have it written: with    *)
(* edge-triggered notifications, one callback that stops too early would    *)
(* leave the packet there for ever.                                         *)
AtRest == AtLoop /\ batch = EmptyBatch

WritersPumped ==
  AtRest => \A fd \in Registered(reg) :
    reg.info[fd].cat \in Writers
      /\ (pool.used[fd] # NoBuffer \/ pool.writeWaiting[fd] # <<>>)
    => SockOf(fd) \in kern.full \/ \E w \in Pending : w[2] = fd

(* The loop is never kept in one event for ever by handlers that call each  *)
(* other: they all return, and epoll_wait is reached again.                 *)
HandlersReturn == []<>(stack = <<>> \/ fate # "run")

(* While the tunnel bootstraps, datagrams are dropped and not kept for       *)
(* later: no link has sent one, and at rest none is left for a link.         *)
BootstrapDrops ==
  WaitBootstrap /\ ~ is_rdy =>
    \A fd \in ConnFds :
      /\ sent[fd] = 0
      /\ AtRest /\ IsRegistered(reg, fd) /\ reg.info[fd].cat = "tcp-write" =>
           pool.used[fd] = NoBuffer /\ pool.writeWaiting[fd] = <<>>

(* packet.c: "Buffer packet is not in reading mode".  A reader finds a      *)
(* packet in its buffer only when dup2 or lightning is still sending that   *)
(* packet and a writer it called has woken the reader up, or in the call    *)
(* that evt_core_add_fd makes, when a writer that was closed under that     *)
(* number left the packet there.  It is given away or freed at once.        *)
FoundBlank ==
  (Running("udp-read") \/ Running("tcp-read")) /\ pool.used[Top.fd] # NoBuffer
    => \/ pool.pkt[pool.used[Top.fd]] = Blank
       \/ \E i \in 2 .. Len(stack) :
            stack[i].pc \in {"dup2", "lightning"} /\ stack[i].bp = pool.used[Top.fd]
       \/ accepting # NoFd /\ ~ Top.zero

(* net_tools.c: "if configured as edge triggered and not level triggered    *)
(* You need to read everything before going back to epoll".  A reader that  *)
(* leaves packets unread must be waiting for a buffer.                      *)
ReadEverything ==
  AtRest => \A fd \in Registered(reg) :
    reg.info[fd].cat \in Readers /\ kern.rx[SockOf(fd)] > 0
    => (\E w \in Pending : w[2] = fd)
         \/ (\E i \in DOMAIN pool.readWaiting : pool.readWaiting[i] = fd)

============================================================================
