----------------------------- MODULE Dup2Proofs -----------------------------
(***************************************************************************)
(* Proofs about Dup2, for any links, any start and any number of           *)
(* datagrams.  The identifiers have their real width.                      *)
(*                                                                         *)
(* TypeOK says nothing of what identifiers mean.  The invariant that is    *)
(* inductive, IInv, relates each to the datagram it numbers, modulo 2^16,  *)
(* and keeps every cell and the receiver within MaxLag of the sender: then *)
(* comparing two identifiers is comparing the datagrams they stand for,    *)
(* except at the wrap.                                                     *)
(***************************************************************************)
EXTENDS Dup2, SequenceTheorems, TLAPS

Id(n) == n % (UINT16_MAX + 1)

Cells == [n : Nat, id : 0 .. UINT16_MAX]

CellOK(c, s) == c.id = Id(c.n) /\ c.n <= s /\ s - c.n <= MaxLag

CellsOK == \A l \in Links : \A i \in DOMAIN cells[l] : CellOK(cells[l][i], sent)

IInv ==
  /\ TypeOK
  /\ emit_id = Id(sent) /\ recv_id = Id(accepted)
  /\ out <= accepted /\ accepted <= sent /\ sent - accepted <= MaxLag
  /\ CellsOK

(* An identifier is a 16-bit number, and the next datagram has the next one. *)
LEMMA IdType == \A n \in Nat : Id(n) \in 0 .. UINT16_MAX
  BY DEF Id, UINT16_MAX

LEMMA IdNext == \A n \in Nat : (Id(n) + 1) % (UINT16_MAX + 1) = Id(n + 1)
  BY DEF Id, UINT16_MAX

(* Within the window, ring_ge refuses every datagram that is not newer. *)
LEMMA RefusesOld ==
  ASSUME NEW n \in Nat, NEW m \in Nat, m <= n, n - m <= 32767
  PROVE  ring_ge(Id(n), Id(m))
  BY DEF ring_ge, Id, UINT16_MAX

(* Within the window, the only newer datagram ring_ge refuses is the one    *)
(* just after the wrap, when the last before it has been accepted.          *)
LEMMA RefusesNewAtWrap ==
  ASSUME NEW n \in Nat, NEW m \in Nat, n < m, m - n <= 32767,
         ring_ge(Id(n), Id(m))
  PROVE  Id(m) = 0 /\ Id(n) = UINT16_MAX
  BY DEF ring_ge, Id, UINT16_MAX

-----------------------------------------------------------------------------

LEMMA InitIInv == Init => IInv
<1> SUFFICES ASSUME Init PROVE IInv
  OBVIOUS
<1>1. PICK s \in Starts : /\ sent = s[1] /\ accepted = s[2] /\ out = s[2]
                          /\ emit_id = Id(s[1]) /\ recv_id = Id(s[2])
  BY DEF Init, Id
<1>2. /\ sent \in Nat /\ accepted \in Nat /\ accepted <= sent
      /\ sent - accepted <= MaxLag
  BY <1>1, Dup2Assumption
<1>3. cells \in [Links -> Seq(Cells)] /\ CellsOK
  BY DEF Init, CellsOK, Cells
<1>4. up \in SUBSET Links /\ budget \in Nat
  BY Dup2Assumption DEF Init
<1>5. emit_id \in 0 .. UINT16_MAX /\ recv_id \in 0 .. UINT16_MAX
  BY <1>1, IdType, Dup2Assumption
<1>6. emit_id = Id(sent) /\ recv_id = Id(accepted) /\ out = accepted
  BY <1>1
<1>7. TypeOK
  BY <1>2, <1>3, <1>4, <1>5, <1>6 DEF TypeOK, Cells
<1> QED
  BY <1>2, <1>3, <1>6, <1>7 DEF IInv

(* The sender: the new cell and the old ones stay within MaxLag. *)
LEMMA OnDatagramIInv == IInv /\ OnDatagram => IInv'
<1> SUFFICES ASSUME IInv, OnDatagram PROVE IInv'
  OBVIOUS
<1> DEFINE new == Cell(sent', emit_id')
<1>1. sent' = sent + 1 /\ sent' \in Nat
  BY DEF IInv, TypeOK, OnDatagram
<1>2. emit_id' = Id(sent') /\ emit_id' \in 0 .. UINT16_MAX
  BY <1>1, IdNext, IdType DEF IInv, TypeOK, OnDatagram
<1>3. new \in Cells /\ CellOK(new, sent')
  <2>1. new.n = sent' /\ new.id = emit_id'
    BY DEF Cell
  <2>2. new \in Cells
    BY <1>1, <1>2 DEF Cell, Cells
  <2> QED
    BY <2>1, <2>2, <1>1, <1>2, Dup2Assumption DEF CellOK, Id
<1>4. ASSUME NEW l \in Links
      PROVE  /\ cells'[l] \in Seq(Cells)
             /\ \A i \in DOMAIN cells'[l] : CellOK(cells'[l][i], sent')
  <2>1. cells[l] \in Seq(Cells)
    BY DEF IInv, TypeOK, Cells
  <2>2. \A i \in DOMAIN cells[l] : cells[l][i] \in Cells /\ CellOK(cells[l][i], sent')
    <3>1. ASSUME NEW i \in DOMAIN cells[l]
          PROVE  cells[l][i] \in Cells /\ CellOK(cells[l][i], sent')
      <4>1. cells[l][i] \in Cells
        BY <2>1, ElementOfSeq
      <4>2. CellOK(cells[l][i], sent)
        BY <3>1 DEF IInv, CellsOK
      <4>3. sent + 1 - cells[l][i].n <= MaxLag
        BY <3>1 DEF OnDatagram
      <4> QED
        BY <4>1, <4>2, <4>3, <1>1 DEF CellOK, Cells, IInv, TypeOK
    <3> QED
      BY <3>1
  <2>3. CASE l \in up
    <3>1. cells'[l] = Append(cells[l], new)
      BY <2>3 DEF OnDatagram
    <3>2. /\ Append(cells[l], new) \in Seq(Cells)
          /\ Len(Append(cells[l], new)) = Len(cells[l]) + 1
          /\ \A i \in 1 .. Len(cells[l]) : Append(cells[l], new)[i] = cells[l][i]
          /\ Append(cells[l], new)[Len(cells[l]) + 1] = new
      BY <1>3, <2>1, AppendProperties
    <3>3. DOMAIN Append(cells[l], new) = 1 .. (Len(cells[l]) + 1)
      BY <3>2
    <3>4. DOMAIN cells[l] = 1 .. Len(cells[l]) /\ Len(cells[l]) \in Nat
      BY <2>1
    <3>5. ASSUME NEW i \in DOMAIN cells'[l] PROVE CellOK(cells'[l][i], sent')
      <4>1. i \in DOMAIN cells[l] \/ i = Len(cells[l]) + 1
        BY <3>1, <3>3, <3>4
      <4> QED
        BY <4>1, <3>1, <3>2, <3>4, <2>2, <1>3
    <3> QED
      BY <3>1, <3>2, <3>5
  <2>4. CASE l \notin up
    BY <2>1, <2>2, <2>4 DEF OnDatagram
  <2> QED
    BY <2>3, <2>4
<1>5. cells' \in [Links -> Seq(Cells)] /\ CellsOK'
  BY <1>4 DEF OnDatagram, CellsOK
<1>6. recv_id' = recv_id /\ accepted' = accepted /\ out' = out /\ up' = up
  BY DEF OnDatagram
<1>7. budget' \in Nat
  BY DEF IInv, TypeOK, OnDatagram
<1>8. accepted <= sent' /\ sent' - accepted <= MaxLag
  BY <1>1 DEF IInv, TypeOK, OnDatagram
<1> QED
  BY <1>1, <1>2, <1>5, <1>6, <1>7, <1>8 DEF IInv, TypeOK, Cells

(* What a reader of a link may conclude of the cell it takes. *)
LEMMA HeadOK ==
  ASSUME IInv, NEW l \in Links, cells[l] # <<>>
  PROVE  Head(cells[l]) \in Cells /\ CellOK(Head(cells[l]), sent)
<1>1. cells[l] \in Seq(Cells)
  BY DEF IInv, TypeOK, Cells
<1>2. Head(cells[l]) = cells[l][1] /\ 1 \in DOMAIN cells[l]
  BY <1>1
<1> QED
  BY <1>1, <1>2, ElementOfSeq DEF IInv, CellsOK

(* What the receiver accepts is newer than all it has accepted. *)
LEMMA AcceptsNewer ==
  ASSUME IInv, NEW c \in Cells, CellOK(c, sent), ~ ring_ge(recv_id, c.id)
  PROVE  accepted < c.n
<1>1. c.n \in Nat /\ accepted \in Nat /\ sent \in Nat
  BY DEF IInv, TypeOK, Cells
<1>2. CASE c.n <= accepted
  <2>1. accepted - c.n <= 32767
    BY <1>1, Dup2Assumption DEF IInv, CellOK
  <2> QED
    BY <1>1, <1>2, <2>1, RefusesOld DEF IInv, CellOK
<1> QED
  BY <1>1, <1>2

LEMMA OnStreamIInv == ASSUME IInv, NEW l \in Links, OnStream(l) PROVE IInv'
<1> DEFINE c == Head(cells[l])
<1>1. c \in Cells /\ CellOK(c, sent)
  BY HeadOK DEF OnStream
<1>2. cells[l] \in Seq(Cells) /\ cells[l] # <<>>
  BY DEF IInv, TypeOK, Cells, OnStream
<1>3. sent' = sent /\ emit_id' = emit_id /\ up' = up /\ budget' = budget
  BY DEF OnStream
<1>4. /\ Tail(cells[l]) \in Seq(Cells)
      /\ \A i \in DOMAIN Tail(cells[l]) :
           i + 1 \in DOMAIN cells[l] /\ Tail(cells[l])[i] = cells[l][i + 1]
  <2>1. /\ Tail(cells[l]) \in Seq(Cells)
        /\ Len(Tail(cells[l])) = Len(cells[l]) - 1
        /\ \A i \in 1 .. Len(Tail(cells[l])) : Tail(cells[l])[i] = cells[l][i + 1]
    BY <1>2, HeadTailProperties
  <2>2. /\ DOMAIN Tail(cells[l]) = 1 .. Len(Tail(cells[l]))
        /\ DOMAIN cells[l] = 1 .. Len(cells[l]) /\ Len(cells[l]) \in Nat
    BY <1>2, <2>1
  <2> QED
    BY <2>1, <2>2
<1>5. cells' = [cells EXCEPT ![l] = Tail(@)]
  BY DEF OnStream
<1>6. cells' \in [Links -> Seq(Cells)]
  BY <1>4, <1>5 DEF IInv, TypeOK, Cells
<1>7. CellsOK'
  <2>1. ASSUME NEW k \in Links, NEW i \in DOMAIN cells'[k]
        PROVE  CellOK(cells'[k][i], sent')
    <3>1. CASE k = l
      <4>1. i + 1 \in DOMAIN cells[l] /\ cells'[k][i] = cells[l][i + 1]
        BY <3>1, <2>1, <1>4, <1>5, <1>6 DEF IInv, TypeOK
      <4> QED
        BY <4>1, <1>3 DEF IInv, CellsOK, CellOK
    <3>2. CASE k # l
      <4>1. cells'[k] = cells[k]
        BY <3>2, <1>5 DEF IInv, TypeOK
      <4> QED
        BY <4>1, <2>1, <1>3 DEF IInv, CellsOK, CellOK
    <3> QED
      BY <3>1, <3>2
  <2> QED
    BY <2>1 DEF CellsOK
<1>8. CASE ring_ge(recv_id, c.id)
  BY <1>3, <1>6, <1>7, <1>8 DEF OnStream, IInv, TypeOK, Cells
<1>9. CASE ~ ring_ge(recv_id, c.id)
  <2>1. recv_id' = c.id /\ accepted' = c.n /\ (out' = c.n \/ out' = out)
    BY <1>9 DEF OnStream
  <2>2. accepted < c.n
    BY <1>1, <1>9, AcceptsNewer
  <2>3. c.n \in Nat /\ c.id \in 0 .. UINT16_MAX
    BY <1>1 DEF Cells
  <2>4. TypeOK'
    BY <2>1, <2>3, <1>3, <1>6 DEF IInv, TypeOK, Cells
  <2>5. recv_id' = Id(accepted') /\ emit_id' = Id(sent')
    BY <2>1, <1>1, <1>3 DEF IInv, CellOK
  <2>6. accepted' <= sent' /\ sent' - accepted' <= MaxLag
    BY <2>1, <1>1, <1>3 DEF CellOK
  <2>7. out' <= accepted'
    BY <2>1, <2>2, <2>3 DEF IInv, TypeOK
  <2> QED
    BY <2>4, <2>5, <2>6, <2>7, <1>7 DEF IInv
<1> QED
  BY <1>8, <1>9

LEMMA BreakLinkIInv == IInv /\ BreakLink => IInv'
<1> SUFFICES ASSUME IInv, BreakLink PROVE IInv'
  OBVIOUS
<1>1. PICK l \in up \ Reliable : up' = up \ {l} /\ cells' = [cells EXCEPT ![l] = <<>>]
  BY DEF BreakLink
<1>2. l \in Links /\ up' \in SUBSET Links
  BY <1>1 DEF IInv, TypeOK
<1>3. /\ sent' = sent /\ emit_id' = emit_id /\ recv_id' = recv_id
      /\ accepted' = accepted /\ out' = out /\ budget' = budget
  BY DEF BreakLink
<1>4. cells' \in [Links -> Seq(Cells)]
  <2>1. cells \in [Links -> Seq(Cells)]
    BY DEF IInv, TypeOK, Cells
  <2>2. <<>> \in Seq(Cells)
    BY EmptySeq
  <2> QED
    BY <2>1, <2>2, <1>1
<1>5. CellsOK'
  BY <1>1, <1>2, <1>3 DEF IInv, TypeOK, CellsOK, CellOK
<1> QED
  BY <1>2, <1>3, <1>4, <1>5 DEF IInv, TypeOK, Cells

LEMMA StepIInv == IInv /\ [Next]_vars => IInv'
<1> SUFFICES ASSUME IInv, [Next]_vars PROVE IInv'
  OBVIOUS
<1>1. CASE OnDatagram
  BY <1>1, OnDatagramIInv
<1>2. CASE \E l \in Links : OnStream(l)
  BY <1>2, OnStreamIInv
<1>3. CASE BreakLink
  BY <1>3, BreakLinkIInv
<1>4. CASE Reconnect
  BY <1>4 DEF Reconnect, IInv, TypeOK, CellsOK, CellOK
<1>5. CASE UNCHANGED vars
  BY <1>5 DEF vars, IInv, TypeOK, CellsOK, CellOK
<1> QED
  BY <1>1, <1>2, <1>3, <1>4, <1>5 DEF Next

(* Identifiers always stand for the datagrams they were given to, and       *)
(* nothing falls more than MaxLag behind (algo_dup2.c: emit_id, recv_id).   *)
THEOREM Invariant == Spec => []IInv
<1> QED
  BY InitIInv, StepIInv, PTL DEF Spec

(* Every variable keeps its type; the identifiers keep their 16 bits. *)
THEOREM TypeCorrect == Spec => []TypeOK
<1>1. IInv => TypeOK
  BY DEF IInv
<1> QED
  BY <1>1, Invariant, PTL

(* The receiver of algo_dup2.c only refuses a datagram newer than all it    *)
(* has accepted when that datagram has identifier 0 and the last accepted   *)
(* one UINT16_MAX.                                                          *)
THEOREM WrapOnly == Spec => []OnlyTheWrapLoses
<1>1. IInv => OnlyTheWrapLoses
  <2> SUFFICES ASSUME IInv, NEW l \in Links, cells[l] # <<>>,
                      Head(cells[l]).n > accepted,
                      ring_ge(recv_id, Head(cells[l]).id)
               PROVE  Head(cells[l]).id = 0 /\ recv_id = UINT16_MAX
    BY DEF OnlyTheWrapLoses
  <2> DEFINE c == Head(cells[l])
  <2>1. c \in Cells /\ CellOK(c, sent)
    BY HeadOK
  <2>2. c.n \in Nat /\ accepted \in Nat /\ sent \in Nat
    BY <2>1 DEF IInv, TypeOK, Cells
  <2>3. c.n - accepted <= 32767
    BY <2>1, <2>2, Dup2Assumption DEF IInv, CellOK
  <2> QED
    BY <2>1, <2>2, <2>3, RefusesNewAtWrap DEF IInv, CellOK
<1> QED
  BY <1>1, Invariant, PTL

(* dup2 implements LossyOrder: whatever the links do, and across any number *)
(* of wraps of the identifiers, the datagrams that come out come out once   *)
(* and in the order they went in.                                           *)
THEOREM Refinement == Spec => OnceInOrder
<1>1. Init => Promise!Init
  BY DEF Init, Promise!Init
<1>2. IInv /\ [Next]_vars => [Promise!Next]_<<sent, out>>
  <2> SUFFICES ASSUME IInv, [Next]_vars PROVE [Promise!Next]_<<sent, out>>
    OBVIOUS
  <2>1. CASE OnDatagram
    BY <2>1 DEF OnDatagram, Promise!Next, Promise!In
  <2>2. ASSUME NEW l \in Links, OnStream(l)
        PROVE  [Promise!Next]_<<sent, out>>
    <3> DEFINE c == Head(cells[l])
    <3>1. sent' = sent /\ cells[l] # <<>>
      BY <2>2 DEF OnStream
    <3>2. CASE out' = out
      BY <3>1, <3>2
    <3>3. CASE out' # out
      <4>1. ~ ring_ge(recv_id, c.id) /\ out' = c.n
        BY <2>2, <3>3 DEF OnStream
      <4>2. c \in Cells /\ CellOK(c, sent)
        BY <3>1, HeadOK
      <4>3. accepted < c.n
        BY <4>1, <4>2, AcceptsNewer
      <4>4. c.n \in (out + 1) .. sent
        BY <4>2, <4>3 DEF IInv, TypeOK, CellOK, Cells
      <4> QED
        BY <3>1, <4>1, <4>4 DEF Promise!Next, Promise!Out
    <3> QED
      BY <3>2, <3>3
  <2>3. CASE BreakLink
    BY <2>3 DEF BreakLink
  <2>4. CASE Reconnect
    BY <2>4 DEF Reconnect
  <2>5. CASE UNCHANGED vars
    BY <2>5 DEF vars
  <2> QED
    BY <2>1, <2>2, <2>3, <2>4, <2>5 DEF Next
<1> QED
  BY <1>1, <1>2, Invariant, PTL DEF Spec, OnceInOrder, Promise!Spec

=============================================================================
