------------------------------- MODULE Packet -------------------------------
(***************************************************************************)
(* src/packet.c: how a cell lies in a buffer and how it is read from TCP   *)
(* and written to UDP.                                                     *)
(*                                                                         *)
(* A cell is one abstract packet or several in a row; all but the last     *)
(* have FLAG_READ_NEXT.  A packet is its size in two bytes, a command, the *)
(* flags, and its content (for a datagram here just the payload).  The     *)
(* memory of a buffer is a sequence of bytes, and zero beyond it: what an  *)
(* earlier packet left stays there until it is overwritten, and the walk   *)
(* of buffer_count_ap looks at it.  An offset stands for a pointer.        *)
(***************************************************************************)
EXTENDS Tcp

CMD_UDP_ENCAPSULATED == 1
FLAG_READ_NEXT == 1
HeaderSize == 4

At(mem, i) == IF i <= Len(mem) THEN mem[i] ELSE 0

ap_size(mem, p) == At(mem, p + 1) + 256 * At(mem, p + 2)

ap_cmd(mem, p) == At(mem, p + 3)

(* The condition of ap_next; the next packet is then at p + ap_size. *)
HasNext(mem, p) == ap_cmd(mem, p) # 0 /\ At(mem, p + 4) % 2 = FLAG_READ_NEXT

(* The offset of packet n, by n steps of ap_next. *)
Offset(mem, n) ==
  LET f[i \in 0 .. n] == IF i = 0 THEN 0 ELSE f[i - 1] + ap_size(mem, f[i - 1])
  IN  f[n]

(* More than ap_count can hold: a packet of size 0 is its own successor.   *)
Endless == 256

buffer_count_ap(mem) ==
  LET walk[p \in 0 .. Len(mem)] ==
        IF ~ HasNext(mem, p) THEN 1
        ELSE IF ap_size(mem, p) = 0 THEN Endless
        ELSE IF p + ap_size(mem, p) > Len(mem) THEN 2
        ELSE 1 + walk[p + ap_size(mem, p)]
  IN  walk[0]

(* Mutant: the size bytes are not counted as read. *)
WantPastSize(b) ==
  LET p   == Offset(b.mem, b.ap_count)
      cur == b.aread - p
  IN  IF cur < 2 THEN 2 - cur ELSE ap_size(b.mem, p) - (cur - 2)

(***************************************************************************)
(* A buffer in reading mode is a record of mem, aread and ap_count.        *)
(* read_packet_from_tcp asks for the bytes of the size first, then for the *)
(* rest of the packet.                                                     *)
(***************************************************************************)
Want(b) ==
  LET p   == Offset(b.mem, b.ap_count)
      cur == b.aread - p
  IN  IF cur < 2 THEN 2 - cur ELSE ap_size(b.mem, p) - cur

Overlay(mem, at, bs) ==
  [i \in 1 .. (IF Len(mem) < at + Len(bs) THEN at + Len(bs) ELSE Len(mem)) |->
     IF i \in at + 1 .. at + Len(bs) THEN bs[i - at] ELSE mem[i]]

(* The bytes bs have been read, and perhaps the packet is complete. *)
Filled(b, bs) ==
  LET mem == Overlay(b.mem, b.aread, bs)
      n   == b.aread + Len(bs)
      p   == Offset(mem, b.ap_count)
      end == n - p >= 2 /\ n - p >= ap_size(mem, p)
  IN  [mem |-> mem, aread |-> n,
       ap_count |-> b.ap_count + (IF end THEN 1 ELSE 0)]

(* When a packet is complete, and only then, the packets are counted: the  *)
(* buffer b0 has become b.                                                 *)
ApComplete(b0, b) == b.ap_count > b0.ap_count

WholeCell(b0, b) == ApComplete(b0, b) /\ b.ap_count = buffer_count_ap(b.mem)

WalkStuck(b0, b) == ApComplete(b0, b) /\ buffer_count_ap(b.mem) >= Endless

(* The bytes write_packet_to_tcp sends. *)
buffer_full_size(mem) == Offset(mem, buffer_count_ap(mem))

(***************************************************************************)
(* write_packet_to_udp: the payloads of the cell to send, in order.  The   *)
(* other packets of a cell are passed over.                                *)
(***************************************************************************)
Payloads(mem) ==
  LET n == buffer_count_ap(mem)
      pay(i) == SubSeq(mem, Offset(mem, i) + HeaderSize + 1, Offset(mem, i + 1))
      f[i \in 0 .. n] ==
        IF i = 0 THEN <<>>
        ELSE IF ap_cmd(mem, Offset(mem, i - 1)) # CMD_UDP_ENCAPSULATED THEN f[i - 1]
        ELSE Append(f[i - 1], pay(i - 1))
  IN  f[n]

(* The bytes of a cell of packets [cmd, content], as append and pad make them. *)
Encoded(aps) ==
  LET bytes(i) ==
        LET size == HeaderSize + Len(aps[i].content)
        IN  <<size % 256, size \div 256, aps[i].cmd,
              IF i < Len(aps) THEN FLAG_READ_NEXT ELSE 0>> \o aps[i].content
      f[i \in 0 .. Len(aps)] == IF i = 0 THEN <<>> ELSE f[i - 1] \o bytes(i)
  IN  f[Len(aps)]

============================================================================
