-------------------------------- MODULE Tcp --------------------------------
(***************************************************************************)
(* One direction of a TCP connection, as the non-blocking read, recv,      *)
(* write and send of src/socks5.c, src/packet.c and src/faketor.c see it.  *)
(* TCP is outside the program: this is what its callers rely on.           *)
(*                                                                         *)
(* A stream is a record of                                                 *)
(*   net   the bytes sent that have not arrived                            *)
(*   buf   the bytes that can be read                                      *)
(*   fin   whether the sender closed it, and that has arrived              *)
(*   room  how many bytes it holds; send takes no more                     *)
(* Bytes arrive one at a time, so that a reader can find a message cut at  *)
(* any place.                                                              *)
(***************************************************************************)
EXTENDS Integers, Sequences

Byte == 0 .. 255

Stream == [net : Seq(Byte), buf : Seq(Byte), fin : {"no", "sent", "here"},
           room : Nat]

NewStream(n) == [net |-> <<>>, buf |-> <<>>, fin |-> "no", room |-> n]

Least(m, n) == IF m <= n THEN m ELSE n

(* The first n bytes of s, and what comes after them. *)
Upto(s, n) == SubSeq(s, 1, Least(n, Len(s)))
Beyond(s, n) == SubSeq(s, n + 1, Len(s))

Space(t) == t.room - Len(t.net) - Len(t.buf)

(* What send(bs) takes, possibly not all; <<>> is EAGAIN. *)
Taken(t, bs) == Upto(bs, Space(t))

Sent(t, bs) == [t EXCEPT !.net = @ \o Taken(t, bs)]

(* What read(n) returns; <<>> is EAGAIN, or 0 at the end of the stream. *)
Reads(t, n) == Upto(t.buf, n)

Consumed(t, n) == [t EXCEPT !.buf = Beyond(@, n)]

AtEof(t) == t.fin = "here" /\ t.buf = <<>>

Readable(t) == t.buf # <<>> \/ AtEof(t)

CanArrive(t) == t.net # <<>> \/ t.fin = "sent"

(* The next byte arrives, or the end after the last one. *)
Arrived(t) ==
  IF t.net = <<>> THEN [t EXCEPT !.fin = "here"]
  ELSE [t EXCEPT !.net = Tail(@), !.buf = Append(@, Head(t.net))]

============================================================================
