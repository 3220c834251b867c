---------------------------- MODULE MCLinkStream ----------------------------
(* LinkStream for TLC: what Tor answers, and what the server sends.        *)
EXTENDS LinkStream

Datagram(x) == [cmd |-> CMD_UDP_ENCAPSULATED, content |-> <<x>>]
Metadata == [cmd |-> 3, content |-> <<>>]

Answer(method, rep, atyp, host, cells) ==
  [reply |-> [method |-> method, rep |-> rep, atyp |-> atyp, host |-> host],
   traffic |-> cells]

(* faketor's answer, then two cells, one of them with metadata, or one     *)
(* cell with a second datagram; the other kinds of address, one that is no *)
(* kind; a refusal; no method accepted.                                    *)
MCAnswers ==
  {[reply |-> FaketorReply, traffic |-> <<<<Datagram(7), Metadata>>, <<Datagram(8)>>>>],
   [reply |-> FaketorReply, traffic |-> <<<<Datagram(7), Metadata, Datagram(8)>>>>],
   Answer(0, 0, ATYP_IPV6, Zeros(16), <<<<Datagram(7)>>>>),
   Answer(0, 0, ATYP_DOMAINNAME, <<1, 9>>, <<<<Datagram(7)>>>>),
   Answer(0, 0, 2, <<>>, <<>>),
   Answer(0, 5, ATYP_IPV4, Zeros(4), <<>>),
   Answer(255, 0, ATYP_IPV4, Zeros(4), <<>>)}

(* An empty buffer, and one in which the bytes after a first packet look   *)
(* like a packet of size 0 with a successor.                               *)
MCStale == {<<>>, <<0, 0, 0, 0, 0, 0, 0, 1, 1>>}

============================================================================
