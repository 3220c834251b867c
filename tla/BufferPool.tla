----------------------------- MODULE BufferPool -----------------------------
(***************************************************************************)
(* The packet buffers of src/algo_utils.c: a fixed set of buffers that     *)
(* readers and writers hand to each other.  A function of the file that    *)
(* moves a buffer is a function of the pool here; the handlers of          *)
(* src/proxy.c, in module Proxy, apply them to their variable.             *)
(*                                                                         *)
(* A pool is a record                                                      *)
(*   free          the buffers nobody holds, oldest first (free_buffer)    *)
(*   used[fd]      the buffer fd is reading into or writing from           *)
(*   writeWaiting[fd]  the packets queued for fd, oldest first             *)
(*   readWaiting   the readers to call when a buffer is free again         *)
(*   app           pairs of a key and a buffer: what the algorithm keeps   *)
(*                 for itself (application_waiting)                        *)
(*   orphaned      buffers in table entries no lookup finds any more       *)
(*   pkt[b]        the packet in buffer b; Blank for a zeroed buffer       *)
(*                                                                         *)
(* A buffer's mode is part of what pkt tells: BP_WRITING when it holds a   *)
(* whole packet, BP_READING (which is 0, what memset leaves) otherwise.    *)
(*                                                                         *)
(* used_buffer and write_waiting are keyed by the address of fdinfo->fd.   *)
(* When evt_core_rm_fd frees the fdinfo of fd while an entry of fd is      *)
(* left, the entry stays, under a key that is freed memory: ForgetFd and   *)
(* AdoptFd say what that means for readWaiting and for the next fdinfo     *)
(* with the same number.                                                   *)
(***************************************************************************)
EXTENDS EvtCore

CONSTANTS
  PoolSize, (* PACKET_BUFFER_SIZE                                          *)
  Packets,  (* what a whole packet can be                                  *)
  Blank     (* the content of a zeroed buffer                              *)

Buffers == 1 .. PoolSize

(* "NULL" where a buffer is expected. *)
NoBuffer == 0

(* The address of the fd field of an fdinfo that has been freed. *)
Stale == NoFd

ASSUME BufferPoolAssumption == PoolSize \in Nat /\ Blank \notin Packets

Pool ==
  [free : Seq(Buffers), used : [Fds -> Buffers \cup {NoBuffer}],
   writeWaiting : [Fds -> Seq(Buffers)],
   readWaiting : Seq(Fds \cup {Stale}), app : SUBSET (Nat \X Buffers),
   orphaned : SUBSET Buffers,
   pkt : [Buffers -> Packets \cup {Blank}]]

(* init_buffer_management *)
InitPool ==
  [free |-> [i \in Buffers |-> i], used |-> [fd \in Fds |-> NoBuffer],
   writeWaiting |-> [fd \in Fds |-> <<>>],
   readWaiting |-> <<>>, app |-> {}, orphaned |-> {},
   pkt |-> [b \in Buffers |-> Blank]]

----------------------------------------------------------------------------

(* __push_to_free: the buffer is zeroed and goes to the end of the queue. *)
push_to_free(p, b) ==
  [p EXCEPT !.free = Append(@, b), !.pkt[b] = Blank]

(***************************************************************************)
(* get_read_buffer: the buffer fd holds already, or a free one, which fd   *)
(* then holds, or none, and fd waits to be notified.  Afterwards used[fd]  *)
(* is what the function returns.                                           *)
(***************************************************************************)
get_read_buffer(p, fd) ==
  IF p.used[fd] # NoBuffer THEN p
  ELSE IF p.free = <<>>
       THEN [p EXCEPT !.readWaiting = Append(@, fd)]
       ELSE [p EXCEPT !.used[fd] = Head(p.free), !.free = Tail(@)]

(***************************************************************************)
(* get_write_buffer: the buffer fd is writing already, or the next one of  *)
(* its queue.  Afterwards used[fd] is what the function returns.           *)
(***************************************************************************)
get_write_buffer(p, fd) ==
  IF p.used[fd] # NoBuffer \/ p.writeWaiting[fd] = <<>> THEN p
  ELSE [p EXCEPT !.used[fd] = Head(p.writeWaiting[fd]),
                 !.writeWaiting[fd] = Tail(@)]

(* Mutant: the buffer stays in the hands of the reader. *)
RtowKeepsUsed(p, from, to) ==
  [p EXCEPT !.writeWaiting[to] = Append(@, p.used[from])]

(* mv_buffer_rtow, for a `from` that holds a buffer. *)
mv_buffer_rtow(p, from, to) ==
  [p EXCEPT !.used[from] = NoBuffer,
            !.writeWaiting[to] = Append(@, p.used[from])]

(* Mutant: the buffer is not released. *)
RtofForgets(p, fd) == p

(* mv_buffer_rtof and mv_buffer_wtof have one body, and do nothing for an  *)
(* fd that holds no buffer.                                                *)
mv_buffer_rtof(p, fd) ==
  IF p.used[fd] = NoBuffer THEN p
  ELSE push_to_free([p EXCEPT !.used[fd] = NoBuffer], p.used[fd])

mv_buffer_wtof(p, fd) == mv_buffer_rtof(p, fd)

(* inject_buffer_tow, when a buffer is free: Head(p.free) is its result. *)
inject_buffer_tow(p, to) ==
  [p EXCEPT !.free = Tail(@),
            !.writeWaiting[to] = Append(@, Head(p.free))]

(* dup_buffer_tow of buffer b, when a buffer is free. *)
dup_buffer_tow(p, b, to) ==
  [inject_buffer_tow(p, to) EXCEPT !.pkt[Head(p.free)] = p.pkt[b]]

(* get_app_buffer: whether the algorithm keeps a buffer under this key. *)
HasApp(p, key) == \E x \in p.app : x[1] = key

(* dup_buffer_toa of buffer b, when a buffer is free and the key is not in *)
(* use.                                                                    *)
dup_buffer_toa(p, b, key) ==
  [p EXCEPT !.free = Tail(@), !.app = @ \cup {<<key, Head(p.free)>>},
            !.pkt[Head(p.free)] = p.pkt[b]]

(* mv_buffer_atof, for a key under which a buffer is kept. *)
mv_buffer_atof(p, key) ==
  LET b == CHOOSE b \in Buffers : <<key, b>> \in p.app
  IN  push_to_free([p EXCEPT !.app = @ \ {<<key, b>>}], b)

(* A whole packet x has been read into the buffer fd holds. *)
FillBuffer(p, fd, x) == [p EXCEPT !.pkt[p.used[fd]] = x]

(* The head of read_waiting leaves the queue, as in notify_read. *)
PopWaiter(p) == [p EXCEPT !.readWaiting = Tail(@)]

(* g_queue_remove_all: the entries of s other than x, in their order. *)
WithoutAll(s, x) ==
  LET kept   == {i \in DOMAIN s : s[i] # x}
      nth(n) == CHOOSE i \in kept : Cardinality({j \in kept : j <= i}) = n
  IN  [n \in 1 .. Cardinality(kept) |-> s[nth(n)]]

(***************************************************************************)
(* What main_on_err gives back for fd: the buffer fd holds, then every     *)
(* packet queued for it, then its subscriptions.                           *)
(***************************************************************************)
ReleaseAll(p, fd) ==
  LET held  == IF p.used[fd] = NoBuffer THEN <<>> ELSE <<p.used[fd]>>
      given == held \o p.writeWaiting[fd]
  IN  [p EXCEPT !.used[fd] = NoBuffer,
                !.writeWaiting[fd] = <<>>,
                !.free = @ \o given,
                !.pkt = [b \in Buffers |->
                           IF \E i \in DOMAIN given : given[i] = b
                           THEN Blank ELSE @[b]],
                !.readWaiting = WithoutAll(@, fd)]

(* The fdinfo of fd is freed: what read_waiting has of it now dangles. *)
ForgetFd(p, fd) ==
  [p EXCEPT !.readWaiting =
     [i \in DOMAIN @ |-> IF @[i] = fd THEN Stale ELSE @[i]]]

(***************************************************************************)
(* A new fdinfo gets number fd while entries of a freed one with the same  *)
(* number may be left.  Their hash is the number, so a lookup compares the *)
(* new number with freed memory: it may match (inherit), and the new       *)
(* fdinfo takes over what the old one held, or not, and then no lookup     *)
(* reaches those buffers again.                                            *)
(***************************************************************************)
AdoptFd(p, fd, inherit) ==
  IF inherit THEN p
  ELSE [p EXCEPT !.used[fd] = NoBuffer,
                 !.writeWaiting[fd] = <<>>,
                 !.orphaned = @ \cup ({p.used[fd]} \ {NoBuffer})
                                \cup ToSet(p.writeWaiting[fd])]

----------------------------------------------------------------------------

FreeBuffers(p)   == {p.free[i] : i \in DOMAIN p.free}
UsedBuffers(p)   == {p.used[fd] : fd \in Fds} \ {NoBuffer}
QueuedBuffers(p) == UNION {ToSet(p.writeWaiting[fd]) : fd \in Fds}
AppBuffers(p)    == {x[2] : x \in p.app}

(* No table holds a buffer twice ... *)
NoDuplicates(p) ==
  /\ \A i, j \in DOMAIN p.free : p.free[i] = p.free[j] => i = j
  /\ \A f, g \in Fds : p.used[f] = p.used[g] /\ p.used[f] # NoBuffer => f = g
  /\ \A f, g \in Fds : \A i \in DOMAIN p.writeWaiting[f],
                           j \in DOMAIN p.writeWaiting[g] :
        p.writeWaiting[f][i] = p.writeWaiting[g][j] => f = g /\ i = j
  /\ \A x, y \in p.app : x[1] = y[1] \/ x[2] = y[2] => x = y

(* ... no two tables hold the same buffer ... *)
Disjoint(p) ==
  /\ FreeBuffers(p) \cap UsedBuffers(p) = {}
  /\ FreeBuffers(p) \cap QueuedBuffers(p) = {}
  /\ FreeBuffers(p) \cap p.orphaned = {}
  /\ UsedBuffers(p) \cap QueuedBuffers(p) = {}
  /\ UsedBuffers(p) \cap p.orphaned = {}
  /\ QueuedBuffers(p) \cap p.orphaned = {}
  /\ AppBuffers(p) \cap (FreeBuffers(p) \cup UsedBuffers(p) \cup QueuedBuffers(p)
                          \cup p.orphaned) = {}

(* ... every buffer is in one of them ... *)
NoneLost(p) ==
  Buffers \subseteq FreeBuffers(p) \cup UsedBuffers(p) \cup QueuedBuffers(p)
                      \cup AppBuffers(p) \cup p.orphaned

(* ... and a free buffer has been zeroed. *)
FreeAreBlank(p) == \A b \in FreeBuffers(p) : p.pkt[b] = Blank

PoolInv(p) == NoDuplicates(p) /\ Disjoint(p) /\ NoneLost(p) /\ FreeAreBlank(p)

============================================================================
