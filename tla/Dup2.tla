-------------------------------- MODULE Dup2 --------------------------------
(***************************************************************************)
(* The dup2 algorithm of src/algo_dup2.c end to end: the sender numbers    *)
(* each datagram with a 16-bit identifier and sends a copy over every      *)
(* link; the receiver keeps the identifier it accepted last, and drops     *)
(* what ring_ge (src/utils.c) finds not newer.                             *)
(*                                                                         *)
(* A link is a TCP stream through Tor: it delivers its cells in order, and *)
(* loses those on their way when it breaks.  Links know nothing of each    *)
(* other, so the copies of one datagram arrive in any order.  What happens *)
(* inside the two processes is in module Proxy.                            *)
(*                                                                         *)
(* The identifiers have their real width.  TLC starts near the values      *)
(* where they matter; Starts holds pairs <<sent, accepted>>, which the     *)
(* program reaches by sending that many datagrams and losing some.         *)
(***************************************************************************)
EXTENDS Integers, Sequences

CONSTANTS
  Links,      (* the links                                                 *)
  Reliable,   (* those that never break, in the liveness property          *)
  Starts,     (* where the runs start                                      *)
  MaxLag,     (* bound: how far the receiver, or a copy on its way, may be *)
              (* behind the sender                                         *)
  MaxSent     (* bound: how many datagrams a run sends                     *)

ASSUME Dup2Assumption ==
  /\ Reliable \subseteq Links
  /\ \A s \in Starts : s[1] \in Nat /\ s[2] \in Nat /\ s[2] <= s[1]
                         /\ s[1] - s[2] <= MaxLag
  /\ MaxLag \in Nat /\ MaxLag <= 32767
  /\ MaxSent \in Nat

VARIABLES
  emit_id,    (* the sender's dup2c->emit_id                               *)
  recv_id,    (* the receiver's dup2c->recv_id                             *)
  up,         (* the links that are up                                     *)
  cells,      (* cells[l]: the cells on their way over link l, oldest first *)
  sent,       (* how many datagrams the sender has read                    *)
  accepted,   (* the datagram whose identifier recv_id is                  *)
  out,        (* the last datagram given to the UDP writer                 *)
  budget      (* how many more the run sends                               *)

vars == <<emit_id, recv_id, up, cells, sent, accepted, out, budget>>

UINT16_MAX == 65535

(* Mutants of ring_ge: an integer comparison; equal identifiers pass; the *)
(* operands swapped.                                                       *)
PlainGe(v1, v2) == v1 >= v2
RingGt(v1, v2) == (v1 - v2) % UINT16_MAX \in 1 .. (UINT16_MAX \div 2)
RingLe(v1, v2) == (v2 - v1) % UINT16_MAX <= UINT16_MAX \div 2

(* ring_ge.  The differences are taken modulo UINT16_MAX, though there are *)
(* UINT16_MAX + 1 identifiers.                                             *)
ring_ge(v1, v2) == (v1 - v2) % UINT16_MAX <= UINT16_MAX \div 2

(* The cell that carries datagram n, with the identifier in its metadata.  *)
Cell(n, id) == [n |-> n, id |-> id]

Init ==
  /\ \E s \in Starts : /\ sent = s[1] /\ accepted = s[2] /\ out = s[2]
                       /\ emit_id = s[1] % (UINT16_MAX + 1)
                       /\ recv_id = s[2] % (UINT16_MAX + 1)
  /\ up = Links
  /\ cells = [l \in Links |-> <<>>]
  /\ budget = MaxSent

(* Mutant: the identifier is a plain integer. *)
OnDatagramNoWrap ==
  /\ budget > 0 /\ budget' = budget - 1
  /\ sent' = sent + 1
  /\ emit_id' = emit_id + 1
  /\ cells' = [l \in Links |-> IF l \in up THEN Append(cells[l], Cell(sent', emit_id'))
                               ELSE cells[l]]
  /\ UNCHANGED <<recv_id, up, accepted, out>>

(* algo_dup2_on_datagram: the identifier is consumed even when no link is up. *)
OnDatagram ==
  /\ budget > 0 /\ budget' = budget - 1
  /\ sent + 1 - accepted <= MaxLag
  /\ \A l \in Links : \A i \in DOMAIN cells[l] : sent + 1 - cells[l][i].n <= MaxLag
  /\ sent' = sent + 1
  /\ emit_id' = (emit_id + 1) % (UINT16_MAX + 1)
  /\ cells' = [l \in Links |-> IF l \in up THEN Append(cells[l], Cell(sent', emit_id'))
                               ELSE cells[l]]
  /\ UNCHANGED <<recv_id, up, accepted, out>>

(* algo_dup2_on_stream: an identifier that is not newer is dropped, and a  *)
(* newer one is accepted before the packet's port is looked up.            *)
OnStream(l) ==
  /\ cells[l] # <<>>
  /\ cells' = [cells EXCEPT ![l] = Tail(@)]
  /\ LET c == Head(cells[l])
     IN  IF ring_ge(recv_id, c.id) THEN UNCHANGED <<recv_id, accepted, out>>
         ELSE /\ recv_id' = c.id /\ accepted' = c.n
              /\ \/ out' = c.n
                 \/ UNCHANGED out        (* no such port: dropped *)
  /\ UNCHANGED <<emit_id, up, sent, budget>>

(* A link breaks, and is made anew. *)
BreakLink ==
  /\ \E l \in up \ Reliable : up' = up \ {l} /\ cells' = [cells EXCEPT ![l] = <<>>]
  /\ UNCHANGED <<emit_id, recv_id, sent, accepted, out, budget>>

Reconnect ==
  /\ \E l \in Links \ up : up' = up \cup {l}
  /\ UNCHANGED <<emit_id, recv_id, cells, sent, accepted, out, budget>>

Next == OnDatagram \/ (\E l \in Links : OnStream(l)) \/ BreakLink \/ Reconnect

Spec == Init /\ [][Next]_vars

(* TCP delivers, and the receiver's event loop reads what is there. *)
FairSpec == Spec /\ \A l \in Reliable : WF_vars(OnStream(l))

----------------------------------------------------------------------------

TypeOK ==
  /\ emit_id \in 0 .. UINT16_MAX /\ recv_id \in 0 .. UINT16_MAX
  /\ up \in SUBSET Links
  /\ cells \in [Links -> Seq([n : Nat, id : 0 .. UINT16_MAX])]
  /\ sent \in Nat /\ accepted \in Nat /\ out \in Nat
  /\ budget \in Nat

(* Datagrams come out once, and in order: this protocol does what LossyOrder *)
(* says, across the wrap of the identifiers, as long as copies are less than *)
(* half the identifiers apart.                                               *)
Promise == INSTANCE LossyOrder
OnceInOrder == Promise!Spec

(* A datagram newer than all the accepted ones is only refused when its     *)
(* identifier is 0 and the last accepted one is UINT16_MAX.                 *)
OnlyTheWrapLoses ==
  \A l \in Links : cells[l] # <<>> =>
    LET c == Head(cells[l])
    IN  c.n > accepted /\ ring_ge(recv_id, c.id) => c.id = 0 /\ recv_id = UINT16_MAX

(* With a link that does not break, each datagram is accepted, overtaken by *)
(* a later one, or the one the wrap loses.                                  *)
EachArrives ==
  Reliable # {} =>
    \A n \in {s[1] + k : s \in Starts, k \in 1 .. MaxSent} :
      n % (UINT16_MAX + 1) # 0 => (sent = n ~> accepted >= n)

=============================================================================
