------------------------ MODULE LightningMonitorProofs ------------------------
(***************************************************************************)
(* What the cells of the lightning algorithm carry and what the receiver   *)
(* notes of them, for any number of links, any length of the list of past  *)
(* links, any ring of notes longer than it, any datagrams and any room.    *)
(***************************************************************************)
EXTENDS LightningMonitor, TLAPS

LEMMA ParametersAre ==
  /\ TotalLinks \in Nat \ {0} /\ TotalLinks <= MaxLinks
  /\ SentPastLinks \in Nat /\ SentPastLinks <= MaxLinks
  /\ MaxLinks \in Nat \ {0}
  /\ HistoricSize \in Nat \ {0} /\ SentPastLinks < HistoricSize
  /\ Sizes \in Seq(Nat) /\ Room \in Nat
  BY MonitorAssumption

(* Two numbers of the same slot are at least a ring apart. *)
LEMMA SameSlot ==
  ASSUME NEW N \in Nat \ {0}, NEW x \in Nat, NEW y \in Nat, x < y, x % N = y % N
  PROVE  x + N <= y
<1> DEFINE p == x \div N
           q == y \div N
<1>1. p \in Int /\ q \in Int /\ x = (N * p) + (x % N) /\ y = (N * q) + (y % N)
  OBVIOUS
<1>2. x % N \in Int /\ y % N \in Int
  OBVIOUS
<1> HIDE DEF p, q
<1>3. y - x = N * (q - p)
  BY <1>1, <1>2
<1>4. q - p >= 1
  <2>1. CASE q - p <= 0
    <3>1. N * (q - p) <= 0
      BY <1>1, <2>1
    <3> QED
      BY <1>3, <3>1
  <2> QED
    BY <1>1, <2>1
<1>5. N * (q - p) >= N
  BY <1>1, <1>4
<1> QED
  BY <1>3, <1>5

LEMMA SlotOf ==
  ASSUME NEW N \in Nat \ {0}, NEW x \in Int
  PROVE  x % N \in 0 .. (N - 1)
  OBVIOUS

-----------------------------------------------------------------------------
(* The cells on their way.                                                 *)

Ends     == Links \cup {Unknown}
LinkRing == [0 .. (MaxLinks - 1) -> Ends]
Sent     == [link : Links, datagram : Nat]
Cells    == [id : Nat \ {0}, links : [Past -> Ends], data : SUBSET Nat, place : Nat \ {0}]

(* The number of the cell at a place of sentOn, if the run before sent b. *)
Number(p, b) == IF p > b THEN p - b ELSE p

(* What a cell on link l says is true. *)
Genuine(c, l, sent, b) ==
  /\ c.place \in 1 .. Len(sent) /\ sent[c.place].link = l
  /\ c.id = Number(c.place, b)
  /\ \A i \in Past : i < c.id => c.links[i] = sent[c.place - i].link

(* A link keeps the order of its cells. *)
Wires(ch, sent, b) ==
  /\ ch \in [Links -> Seq(Cells)]
  /\ \A l \in Links : \A i \in 1 .. Len(ch[l]) : Genuine(ch[l][i], l, sent, b)
  /\ \A l \in Links : \A i, j \in 1 .. Len(ch[l]) :
       i < j => ch[l][i].place < ch[l][j].place

(* The ring of links used last. *)
Ring(id, prev, sent, b) ==
  /\ id \in Nat \ {0} /\ prev \in LinkRing /\ sent \in Seq(Sent)
  /\ Len(sent) = b + id - 1
  /\ \A n \in Nat \ {0} :
       n < id /\ id <= n + MaxLinks => prev[n % MaxLinks] = sent[b + n].link

(* The datagrams that a cell carries with datagram e. *)
Carried(e, sn, uk) ==
  {d \in DOMAIN Sizes :
     \/ d = e
     \/ /\ d < e /\ e < d + TotalLinks /\ (d > sn \/ e <= sn)
        /\ d .. (e - 1) \cap uk = {}
        /\ Bytes(d, e) <= Room}

Loads(ch, sent, sn, uk) ==
  \A l \in Links : \A i \in 1 .. Len(ch[l]) :
    ch[l][i].data = Carried(sent[ch[l][i].place].datagram, sn, uk)

(* What arrived was sent, and is not on its way any more. *)
Pending(ch, sent, lg) ==
  /\ \A j \in 1 .. Len(lg) : lg[j] \in 1 .. Len(sent)
  /\ \A l \in Links : \A i \in 1 .. Len(ch[l]) : \A j \in 1 .. Len(lg) :
       ch[l][i].place # lg[j]

(* Where a sequence of cells goes on. *)
LEMMA Appended ==
  ASSUME NEW S, NEW s \in Seq(S), NEW x \in S
  PROVE  /\ Append(s, x) \in Seq(S) /\ Len(s) \in Nat
         /\ Len(Append(s, x)) = Len(s) + 1
         /\ Append(s, x)[Len(s) + 1] = x
         /\ \A i \in 1 .. Len(s) : Append(s, x)[i] = s[i] /\ s[i] \in S
  OBVIOUS

LEMMA Rest ==
  ASSUME NEW S, NEW s \in Seq(S), s # <<>>
  PROVE  /\ Tail(s) \in Seq(S) /\ Head(s) = s[1] /\ Head(s) \in S
         /\ Len(s) \in Nat \ {0} /\ Len(Tail(s)) = Len(s) - 1
         /\ \A i \in 1 .. (Len(s) - 1) : Tail(s)[i] = s[i + 1]
  OBVIOUS

(* What is said of a cell stays true when other cells are sent. *)
LEMMA GenuineStays ==
  ASSUME NEW sent \in Seq(Sent), NEW x \in Sent, NEW b \in Nat, NEW l, NEW c \in Cells,
         Genuine(c, l, sent, b)
  PROVE  Genuine(c, l, Append(sent, x), b)
<1>1. /\ c.place \in 1 .. Len(sent) /\ sent[c.place].link = l /\ c.id = Number(c.place, b)
      /\ \A i \in Past : i < c.id => c.links[i] = sent[c.place - i].link
  BY DEF Genuine
<1>2. c.place \in Nat /\ c.id \in Nat /\ c.id <= c.place
  BY <1>1 DEF Number, Cells
<1>3. /\ Len(sent) \in Nat /\ Len(Append(sent, x)) = Len(sent) + 1
      /\ \A i \in 1 .. Len(sent) : Append(sent, x)[i] = sent[i]
  BY Appended
<1>4. c.place \in 1 .. Len(Append(sent, x)) /\ Append(sent, x)[c.place].link = l
  BY <1>1, <1>3
<1>5. ASSUME NEW i \in Past, i < c.id
      PROVE  c.links[i] = Append(sent, x)[c.place - i].link
  <2>1. i \in Nat \ {0}
    BY DEF Past
  <2>2. c.place - i \in 1 .. Len(sent)
    BY <1>1, <1>2, <1>3, <1>5, <2>1
  <2> QED
    BY <1>1, <1>3, <1>5, <2>2
<1> QED
  BY <1>1, <1>4, <1>5 DEF Genuine

(* A sequence of cells sent goes on with cells for datagram e. *)
Continues(new, old, e) ==
  /\ Len(new) >= Len(old)
  /\ \A p \in 1 .. Len(old) : new[p] = old[p]
  /\ \A p \in 1 .. Len(new) : p > Len(old) => new[p].datagram = e

(* What send_message is given and leaves, as one. *)
Sound(s, uk) ==
  /\ Ring(s.id, s.prev, s.sent, base)
  /\ Wires(s.chan, s.sent, base)
  /\ Loads(s.chan, s.sent, since, uk)
  /\ Pending(s.chan, s.sent, log)

(* A message that is sent names the links used last and carries its data. *)
LEMMA SendKeeps ==
  ASSUME NEW s, NEW l \in Ends, NEW ref \in Nat, NEW data \in SUBSET Nat, NEW uk,
         base \in Nat, since \in Nat, Sound(s, uk),
         data = Carried(since + ref, since, uk)
  PROVE  /\ Sound(SendMessage(s, l, ref, data), uk)
         /\ Continues(SendMessage(s, l, ref, data).sent, s.sent, since + ref)
<1> DEFINE t == SendMessage(s, l, ref, data)
<1>1. CASE l = Unknown
  <2>1. t = s
    BY <1>1 DEF SendMessage
  <2>2. Len(s.sent) \in Nat
    BY DEF Sound, Ring
  <2> QED
    BY <2>1, <2>2 DEF Continues
<1>2. CASE l # Unknown
  <2> DEFINE c == Cell(s.id, PastLinks(s.id, s.prev), data, base + s.id)
             x == [link |-> l, datagram |-> since + ref]
             q == Append(s.chan[l], c)
  <2>1. l \in Links
    BY <1>2 DEF Ends
  <2>2. /\ s.id \in Nat \ {0} /\ s.prev \in LinkRing /\ s.sent \in Seq(Sent)
        /\ Len(s.sent) = base + s.id - 1
        /\ \A n \in Nat \ {0} :
             n < s.id /\ s.id <= n + MaxLinks => s.prev[n % MaxLinks] = s.sent[base + n].link
    BY DEF Sound, Ring
  <2>3. /\ s.chan \in [Links -> Seq(Cells)]
        /\ \A k \in Links : \A i \in 1 .. Len(s.chan[k]) : Genuine(s.chan[k][i], k, s.sent, base)
        /\ \A k \in Links : \A i, j \in 1 .. Len(s.chan[k]) :
             i < j => s.chan[k][i].place < s.chan[k][j].place
    BY DEF Sound, Wires
  <2>4. \A k \in Links : \A i \in 1 .. Len(s.chan[k]) :
          s.chan[k][i].data = Carried(s.sent[s.chan[k][i].place].datagram, since, uk)
    BY DEF Sound, Loads
  <2>5. /\ t.id = s.id + 1 /\ t.prev = [s.prev EXCEPT ![s.id % MaxLinks] = l]
        /\ t.chan = [s.chan EXCEPT ![l] = q] /\ t.sent = Append(s.sent, x)
    BY <1>2 DEF SendMessage
  <2>6. x \in Sent /\ x.link = l /\ x.datagram = since + ref
    BY <2>1 DEF Sent
  <2>7. \A n \in Int : n % MaxLinks \in 0 .. (MaxLinks - 1)
    BY ParametersAre, SlotOf
  <2>8. c \in Cells
    <3>1. PastLinks(s.id, s.prev) \in [Past -> Ends]
      <4> SUFFICES ASSUME NEW i \in Past PROVE s.prev[(s.id - i) % MaxLinks] \in Ends
        BY DEF PastLinks
      <4>1. s.id - i \in Int
        BY <2>2 DEF Past
      <4>2. (s.id - i) % MaxLinks \in 0 .. (MaxLinks - 1)
        BY <2>7, <4>1
      <4> QED
        BY <2>2, <4>2 DEF LinkRing
    <3>2. base + s.id \in Nat \ {0}
      BY <2>2
    <3> QED
      BY <2>2, <3>1, <3>2 DEF Cells, Cell
  <2>9. /\ c.id = s.id /\ c.place = base + s.id /\ c.data = data
        /\ \A i \in Past : c.links[i] = s.prev[(s.id - i) % MaxLinks]
    BY DEF Cell, PastLinks
  <2> HIDE DEF x, c, t
  <2>10. /\ Append(s.sent, x) \in Seq(Sent) /\ Len(s.sent) \in Nat
         /\ Len(Append(s.sent, x)) = Len(s.sent) + 1
         /\ Append(s.sent, x)[Len(s.sent) + 1] = x
         /\ \A i \in 1 .. Len(s.sent) : Append(s.sent, x)[i] = s.sent[i]
    BY <2>2, <2>6, Appended
  <2>11. Len(s.sent) + 1 = base + s.id
    BY <2>2
  <2>12. s.chan[l] \in Seq(Cells)
    BY <2>1, <2>3
  <2>13. /\ q \in Seq(Cells) /\ Len(s.chan[l]) \in Nat /\ Len(q) = Len(s.chan[l]) + 1
         /\ q[Len(s.chan[l]) + 1] = c
         /\ \A i \in 1 .. Len(s.chan[l]) : q[i] = s.chan[l][i]
    BY <2>8, <2>12, Appended
  <2> HIDE DEF q
  <2>14. /\ t.chan[l] = q /\ \A k \in Links \ {l} : t.chan[k] = s.chan[k]
         /\ t.chan \in [Links -> Seq(Cells)]
    BY <2>1, <2>3, <2>5, <2>13
  <2>15. \A k \in Links : \A i \in 1 .. Len(t.chan[k]) :
           \/ i \in 1 .. Len(s.chan[k]) /\ t.chan[k][i] = s.chan[k][i]
           \/ k = l /\ i = Len(q) /\ t.chan[k][i] = c
    <3>1. ASSUME NEW i \in 1 .. Len(q)
          PROVE  \/ i \in 1 .. Len(s.chan[l]) /\ q[i] = s.chan[l][i]
                 \/ i = Len(q) /\ q[i] = c
      BY <2>13
    <3> QED
      BY <2>14, <3>1
  <2>16. Continues(t.sent, s.sent, since + ref)
    <3>1. Len(t.sent) = Len(s.sent) + 1 /\ Len(t.sent) >= Len(s.sent)
      BY <2>5, <2>10
    <3>2. ASSUME NEW p \in 1 .. Len(t.sent), p > Len(s.sent)
          PROVE  t.sent[p].datagram = since + ref
      <4>1. p = Len(s.sent) + 1
        BY <2>10, <3>1, <3>2
      <4> QED
        BY <2>5, <2>6, <2>10, <4>1
    <3> QED
      BY <2>5, <2>10, <3>1, <3>2 DEF Continues
  <2>17. Ring(t.id, t.prev, t.sent, base)
    <3>1. t.prev \in LinkRing
      BY <1>2, <2>1, <2>2, <2>5 DEF LinkRing, Ends
    <3>2. ASSUME NEW n \in Nat \ {0}, n < t.id, t.id <= n + MaxLinks
          PROVE  t.prev[n % MaxLinks] = t.sent[base + n].link
      <4> n \in Int /\ s.id \in Int
        BY <2>2
      <4>1. n % MaxLinks \in 0 .. (MaxLinks - 1) /\ s.id % MaxLinks \in 0 .. (MaxLinks - 1)
        BY <2>7
      <4>2. CASE n = s.id
        <5>1. t.prev[n % MaxLinks] = l
          BY <2>2, <2>5, <4>1, <4>2 DEF LinkRing
        <5>2. t.sent[base + n] = x
          BY <2>5, <2>10, <2>11, <4>2
        <5> QED
          BY <2>6, <5>1, <5>2
      <4>3. CASE n # s.id
        <5> t.id = s.id + 1 /\ MaxLinks \in Nat
          BY <2>5, ParametersAre
        <5>1. n < s.id /\ s.id <= n + MaxLinks /\ ~ (n + MaxLinks <= s.id)
          BY <3>2, <4>3
        <5>2. n % MaxLinks # s.id % MaxLinks
          BY <2>2, <5>1, ParametersAre, SameSlot
        <5>3. t.prev[n % MaxLinks] = s.prev[n % MaxLinks]
          BY <2>2, <2>5, <4>1, <5>2 DEF LinkRing
        <5>4. base + n \in 1 .. Len(s.sent)
          BY <2>2, <5>1
        <5> QED
          BY <2>2, <2>5, <2>10, <5>1, <5>3, <5>4
      <4> QED
        BY <4>2, <4>3
    <3>3. t.id \in Nat \ {0} /\ Len(t.sent) = base + t.id - 1
      BY <2>2, <2>5, <2>10
    <3> QED
      BY <2>5, <2>10, <3>1, <3>2, <3>3 DEF Ring
  <2>18. Genuine(c, l, t.sent, base)
    <3>1. c.place \in 1 .. Len(t.sent) /\ t.sent[c.place].link = l
      BY <2>2, <2>5, <2>6, <2>9, <2>10, <2>11
    <3>2. c.id = Number(c.place, base)
      BY <2>2, <2>9 DEF Number
    <3>3. ASSUME NEW i \in Past, i < c.id PROVE c.links[i] = t.sent[c.place - i].link
      <4>1. i \in Nat \ {0} /\ i <= MaxLinks
        BY ParametersAre DEF Past
      <4>2. /\ s.id - i \in Nat \ {0} /\ s.id - i < s.id /\ s.id <= (s.id - i) + MaxLinks
            /\ base + (s.id - i) = c.place - i /\ c.place - i \in 1 .. Len(s.sent)
        <5>1. i < s.id /\ s.id \in Nat /\ c.place = base + s.id /\ MaxLinks \in Nat
          BY <2>2, <2>9, <3>3, ParametersAre
        <5>2. Len(s.sent) = base + s.id - 1
          BY <2>2
        <5>3. /\ s.id - i \in Nat \ {0} /\ s.id - i < s.id /\ s.id <= (s.id - i) + MaxLinks
          BY <4>1, <5>1
        <5>4. base + (s.id - i) = c.place - i
          BY <4>1, <5>1
        <5>5. base + (s.id - i) \in 1 .. Len(s.sent)
          BY <4>1, <5>1, <5>2
        <5> QED
          BY <5>3, <5>4, <5>5
      <4>3. s.prev[(s.id - i) % MaxLinks] = s.sent[base + (s.id - i)].link
        BY <2>2, <4>2
      <4> QED
        BY <2>5, <2>9, <2>10, <4>2, <4>3
    <3> QED
      BY <3>1, <3>2, <3>3 DEF Genuine
  <2>19. Wires(t.chan, t.sent, base)
    <3>1. ASSUME NEW k \in Links, NEW i \in 1 .. Len(t.chan[k])
          PROVE  Genuine(t.chan[k][i], k, t.sent, base)
      <4>1. CASE i \in 1 .. Len(s.chan[k]) /\ t.chan[k][i] = s.chan[k][i]
        <5>1. s.chan[k][i] \in Cells /\ Genuine(s.chan[k][i], k, s.sent, base)
          BY <2>3, <4>1
        <5> QED
          BY <2>2, <2>5, <2>6, <4>1, <5>1, GenuineStays
      <4>2. CASE k = l /\ i = Len(q) /\ t.chan[k][i] = c
        BY <2>18, <4>2
      <4> QED
        BY <2>15, <4>1, <4>2
    <3>2. ASSUME NEW k \in Links, NEW i \in 1 .. Len(t.chan[k]), NEW j \in 1 .. Len(t.chan[k]),
                 i < j
          PROVE  t.chan[k][i].place < t.chan[k][j].place
      <4>1. \A m \in 1 .. Len(s.chan[k]) : s.chan[k][m].place < base + s.id
        <5> SUFFICES ASSUME NEW m \in 1 .. Len(s.chan[k])
                     PROVE  s.chan[k][m].place < base + s.id
          OBVIOUS
        <5>1. s.chan[k][m].place \in 1 .. Len(s.sent)
          BY <2>3 DEF Genuine
        <5> QED
          BY <2>10, <2>11, <5>1
      <4>2. k # l => t.chan[k] = s.chan[k]
        BY <2>14
      <4>3. CASE k # l
        BY <2>3, <3>2, <4>2, <4>3
      <4>4. CASE k = l /\ j = Len(q)
        <5>1. i \in 1 .. Len(s.chan[l])
          BY <2>13, <2>14, <3>2, <4>4
        <5> QED
          BY <2>9, <2>13, <2>14, <4>1, <4>4, <5>1
      <4>5. CASE k = l /\ j # Len(q)
        <5>1. i \in 1 .. Len(s.chan[l]) /\ j \in 1 .. Len(s.chan[l])
          BY <2>13, <2>14, <3>2, <4>5
        <5> QED
          BY <2>3, <2>13, <2>14, <3>2, <4>5, <5>1
      <4> QED
        BY <4>3, <4>4, <4>5
    <3> QED
      BY <2>14, <3>1, <3>2 DEF Wires
  <2>20. Loads(t.chan, t.sent, since, uk)
    <3> SUFFICES ASSUME NEW k \in Links, NEW i \in 1 .. Len(t.chan[k])
                 PROVE  t.chan[k][i].data
                          = Carried(t.sent[t.chan[k][i].place].datagram, since, uk)
      BY DEF Loads
    <3>1. CASE i \in 1 .. Len(s.chan[k]) /\ t.chan[k][i] = s.chan[k][i]
      <4>1. s.chan[k][i].place \in 1 .. Len(s.sent)
        BY <2>3, <3>1 DEF Genuine
      <4>2. t.sent[s.chan[k][i].place] = s.sent[s.chan[k][i].place]
        BY <2>5, <2>10, <4>1
      <4> QED
        BY <2>4, <3>1, <4>2
    <3>2. CASE k = l /\ i = Len(q) /\ t.chan[k][i] = c
      <4>1. t.sent[c.place] = x
        BY <2>5, <2>9, <2>10, <2>11
      <4> QED
        BY <2>6, <2>9, <3>2, <4>1
    <3> QED
      BY <2>15, <3>1, <3>2
  <2>21. Pending(t.chan, t.sent, log)
    <3>1. /\ \A j \in 1 .. Len(log) : log[j] \in 1 .. Len(s.sent)
          /\ \A k \in Links : \A i \in 1 .. Len(s.chan[k]) : \A j \in 1 .. Len(log) :
               s.chan[k][i].place # log[j]
      BY DEF Sound, Pending
    <3>2. \A j \in 1 .. Len(log) : log[j] \in 1 .. Len(t.sent) /\ c.place # log[j]
      <4> SUFFICES ASSUME NEW j \in 1 .. Len(log)
                   PROVE  log[j] \in 1 .. Len(t.sent) /\ c.place # log[j]
        OBVIOUS
      <4>1. log[j] \in 1 .. Len(s.sent)
        BY <3>1
      <4> QED
        BY <2>5, <2>9, <2>10, <2>11, <4>1
    <3>3. ASSUME NEW k \in Links, NEW i \in 1 .. Len(t.chan[k]), NEW j \in 1 .. Len(log)
          PROVE  t.chan[k][i].place # log[j]
      BY <2>15, <3>1, <3>2
    <3> QED
      BY <3>2, <3>3 DEF Pending
  <2> QED
    BY <2>16, <2>17, <2>19, <2>20, <2>21 DEF Sound, t
<1> QED
  BY <1>1, <1>2

-----------------------------------------------------------------------------
(* What a cell carries.                                                    *)

(* The copies the sender keeps: those of the last TotalLinks datagrams of  *)
(* this run, where there was a buffer.                                     *)
Kept ==
  stored = {d \in Nat \ {0} : /\ d < uniq_pkt_sent_id /\ uniq_pkt_sent_id <= d + TotalLinks
                              /\ since + d \notin unkept}

Counters ==
  /\ uniq_pkt_sent_id \in Nat \ {0} /\ base \in Nat /\ since \in Nat
  /\ run = 1 => base = 0 /\ since = 0
  /\ unkept \in SUBSET Nat /\ \A n \in unkept : n < since + uniq_pkt_sent_id
  /\ \A p \in 1 .. Len(sentOn) : sentOn[p].datagram < since + uniq_pkt_sent_id

LEMMA DomainOfSizes ==
  /\ Len(Sizes) \in Nat /\ \A d : d \in DOMAIN Sizes <=> d \in Nat /\ 1 <= d /\ d <= Len(Sizes)
<1>1. Sizes \in Seq(Nat)
  BY ParametersAre
<1>2. Len(Sizes) \in Nat /\ DOMAIN Sizes = 1 .. Len(Sizes)
  BY <1>1
<1> QED
  BY <1>2

(* The padding of a cell is what was said above, when the new datagram is  *)
(* kept and when it is not.                                                *)
LEMMA PaddingCarries ==
  ASSUME Counters, Kept, NEW keep \in BOOLEAN,
         NEW ref, ref = uniq_pkt_sent_id, since + ref \in DOMAIN Sizes,
         NEW st, st = (stored \cup (IF keep THEN {ref} ELSE {})) \ {Cleaned(ref)},
         NEW uk, uk = IF keep THEN unkept ELSE unkept \cup {since + ref}
  PROVE  {since + d : d \in {ref} \cup Padding(ref, st)} = Carried(since + ref, since, uk)
<1> DEFINE e == since + ref
<1>1. ref \in Nat \ {0} /\ since \in Nat /\ unkept \in SUBSET Nat /\ TotalLinks \in Nat \ {0}
  BY ParametersAre DEF Counters
<1>2. e \in Nat /\ e <= Len(Sizes) /\ Len(Sizes) \in Nat
  BY <1>1, DomainOfSizes
<1>3. ASSUME NEW d \in Nat \ {0}, d < ref
      PROVE  d .. (ref - 1) \subseteq st
               <=> e < (since + d) + TotalLinks /\ (since + d) .. (e - 1) \cap uk = {}
  <2>1. ASSUME d .. (ref - 1) \subseteq st
        PROVE  e < (since + d) + TotalLinks /\ (since + d) .. (e - 1) \cap uk = {}
    <3>1. d \in st /\ d # ref
      BY <1>1, <1>3, <2>1
    <3>2. d \in stored /\ d # ref - TotalLinks
      BY <3>1 DEF Cleaned
    <3>3. ref <= d + TotalLinks
      BY <3>2 DEF Kept
    <3>4. e < (since + d) + TotalLinks
      BY <1>1, <3>2, <3>3
    <3>5. ASSUME NEW n \in (since + d) .. (e - 1) PROVE n \notin uk
      <4>1. n - since \in d .. (ref - 1) /\ n - since # ref /\ n # e
        BY <1>1
      <4>2. n - since \in stored
        BY <2>1, <4>1
      <4>3. since + (n - since) \notin unkept
        BY <4>2 DEF Kept
      <4>4. since + (n - since) = n
        BY <1>1
      <4> QED
        BY <4>1, <4>3, <4>4
    <3> QED
      BY <3>4, <3>5
  <2>2. ASSUME e < (since + d) + TotalLinks, (since + d) .. (e - 1) \cap uk = {},
               NEW m \in d .. (ref - 1)
        PROVE  m \in st
    <3>1. /\ m \in Nat \ {0} /\ m < ref /\ ref <= m + TotalLinks /\ m # ref - TotalLinks
          /\ m # ref /\ since + m \in (since + d) .. (e - 1)
      BY <1>1, <2>2
    <3>2. since + m \notin unkept
      BY <2>2, <3>1
    <3>3. m \in stored
      BY <3>1, <3>2 DEF Kept
    <3> QED
      BY <3>1, <3>3 DEF Cleaned
  <2> QED
    BY <2>1, <2>2
<1>4. ASSUME NEW x, x \in {since + d : d \in {ref} \cup Padding(ref, st)}
      PROVE  x \in Carried(e, since, uk)
  <2>1. PICK d \in {ref} \cup Padding(ref, st) : x = since + d
    BY <1>4
  <2>2. CASE d = ref
    BY <2>1, <2>2 DEF Carried
  <2>3. CASE d \in Padding(ref, st) /\ d # ref
    <3>1. /\ d \in Nat \ {0} /\ d < ref /\ d .. (ref - 1) \subseteq st
          /\ Bytes(since + d, e) <= Room
      BY <1>1, <2>3 DEF Padding
    <3>2. e < x + TotalLinks /\ x .. (e - 1) \cap uk = {}
      BY <1>3, <2>1, <3>1
    <3>3. x < e /\ x > since /\ x \in Nat /\ 1 <= x /\ x <= Len(Sizes)
      BY <1>1, <1>2, <2>1, <3>1
    <3>4. x \in DOMAIN Sizes
      BY <3>3, DomainOfSizes
    <3> QED
      BY <2>1, <3>1, <3>2, <3>3, <3>4 DEF Carried
  <2> QED
    BY <2>1, <2>2, <2>3
<1>5. ASSUME NEW x, x \in Carried(e, since, uk)
      PROVE  x \in {since + d : d \in {ref} \cup Padding(ref, st)}
  <2>1. CASE x = e
    BY <2>1
  <2>2. CASE x # e
    <3>1. /\ x \in DOMAIN Sizes /\ x < e /\ e < x + TotalLinks /\ (x > since \/ e <= since)
          /\ x .. (e - 1) \cap uk = {} /\ Bytes(x, e) <= Room
      BY <1>5, <2>2 DEF Carried
    <3>2. x \in Nat
      BY <3>1, DomainOfSizes
    <3> DEFINE d == x - since
    <3>3. d \in Nat \ {0} /\ d < ref /\ since + d = x
      BY <1>1, <3>1, <3>2
    <3> HIDE DEF d
    <3>4. d .. (ref - 1) \subseteq st
      BY <1>3, <3>1, <3>3
    <3>5. d \in 1 .. (ref - 1)
      BY <1>1, <3>3
    <3>6. d \in Padding(ref, st)
      BY <3>1, <3>3, <3>4, <3>5 DEF Padding
    <3> QED
      BY <3>3, <3>6
  <2> QED
    BY <2>1, <2>2
<1> QED
  BY <1>4, <1>5

(* What a cell that was sent carries, in the same words later. *)
LEMMA CarriedStays ==
  ASSUME Counters, NEW e \in Nat, e < since + uniq_pkt_sent_id,
         NEW uk, uk = unkept \/ uk = unkept \cup {since + uniq_pkt_sent_id}
  PROVE  Carried(e, since, uk) = Carried(e, since, unkept)
<1>1. \A d \in DOMAIN Sizes : d .. (e - 1) \cap uk = {} <=> d .. (e - 1) \cap unkept = {}
  BY DomainOfSizes DEF Counters
<1> QED
  BY <1>1 DEF Carried

LEMMA CarriedRestarts ==
  ASSUME Counters, run = 1, NEW e \in Nat, e < since + uniq_pkt_sent_id,
         NEW sn, sn = uniq_pkt_sent_id - 1
  PROVE  Carried(e, sn, unkept) = Carried(e, since, unkept)
<1>1. since = 0 /\ e <= sn
  BY DEF Counters
<1>2. \A d \in DOMAIN Sizes : (d > sn \/ e <= sn) /\ (d > since \/ e <= since)
  BY <1>1, DomainOfSizes
<1> QED
  BY <1>2 DEF Carried

-----------------------------------------------------------------------------
(* The invariant of what is sent, and of what comes out.                   *)

Wiring ==
  /\ Ring(pkt_sent_id, prev_links, sentOn, base)
  /\ Wires(chan, sentOn, base)
  /\ Loads(chan, sentOn, since, unkept)
  /\ Pending(chan, sentOn, log)

Arrivals ==
  /\ log \in Seq(Nat)
  /\ \A i, j \in 1 .. Len(log) : log[i] = log[j] => i = j

HandedOut ==
  got = {d \in DOMAIN Sizes :
           \E i \in 1 .. Len(log) : d \in Carried(sentOn[log[i]].datagram, since, unkept)}

Transport == Counters /\ Kept /\ Wiring /\ Arrivals /\ HandedOut

LEMMA InitTransport == Init => Transport
<1> SUFFICES ASSUME Init PROVE Transport
  OBVIOUS
<1>1. /\ uniq_pkt_sent_id = 1 /\ stored = {} /\ pkt_sent_id = 1 /\ prev_links = NoLinks
      /\ chan = [l \in Links |-> <<>>] /\ got = {} /\ run = 1 /\ base = 0 /\ since = 0
      /\ unkept = {} /\ sentOn = <<>> /\ log = <<>>
  BY DEF Init
<1>2. Len(log) = 0 /\ Len(sentOn) = 0 /\ \A l \in Links : Len(chan[l]) = 0
  BY <1>1
<1>3. Counters
  BY <1>1, <1>2 DEF Counters
<1>4. Kept
  BY <1>1 DEF Kept
<1>5. Ring(pkt_sent_id, prev_links, sentOn, base)
  <2>1. prev_links \in LinkRing
    BY <1>1, ParametersAre DEF NoLinks, LinkRing, Ends, Links
  <2>2. sentOn \in Seq(Sent)
    BY <1>1
  <2> QED
    BY <1>1, <1>2, <2>1, <2>2 DEF Ring
<1>6. Wires(chan, sentOn, base)
  <2>1. chan \in [Links -> Seq(Cells)]
    BY <1>1
  <2> QED
    BY <1>2, <2>1 DEF Wires
<1>7. Loads(chan, sentOn, since, unkept) /\ Pending(chan, sentOn, log)
  BY <1>2 DEF Loads, Pending
<1>8. Arrivals
  BY <1>1, <1>2 DEF Arrivals
<1>9. HandedOut
  BY <1>1, <1>2 DEF HandedOut
<1> QED
  BY <1>3, <1>4, <1>5, <1>6, <1>7, <1>8, <1>9 DEF Transport, Wiring

(* A datagram goes out in up to two cells.  What the other half of the     *)
(* proof needs of the step is the second part.                             *)
LEMMA OnDatagramTransport ==
  ASSUME Transport, OnDatagram
  PROVE  /\ Transport'
         /\ Len(sentOn') >= Len(sentOn)
         /\ \A p \in 1 .. Len(sentOn) : sentOn'[p] = sentOn[p]
<1>1. PICK keep \in BOOLEAN, fast \in Links \cup {Unknown}, slow \in Links \cup {Unknown} :
       LET ref  == uniq_pkt_sent_id
           st   == (stored \cup (IF keep THEN {ref} ELSE {})) \ {Cleaned(ref)}
           data == {since + d : d \in {ref} \cup Padding(ref, st)}
           s0   == [id |-> pkt_sent_id, prev |-> prev_links, chan |-> chan, sent |-> sentOn]
           s1   == SendMessage(s0, fast, ref, data)
           s2   == SendMessage(s1, slow, ref, data)
       IN  /\ fast = slow => fast = Unknown
           /\ base + s2.id <= MaxPackets + 1
           /\ ~ keep /\ Cleaned(ref) \notin stored => fast = Unknown /\ slow = Unknown
           /\ stored' = st
           /\ unkept' = IF keep THEN unkept ELSE unkept \cup {since + ref}
           /\ Cardinality(unkept') <= MaxUnkept
           /\ pkt_sent_id' = s2.id /\ prev_links' = s2.prev /\ chan' = s2.chan
           /\ sentOn' = s2.sent
  BY Zenon DEF OnDatagram
<1> DEFINE ref  == uniq_pkt_sent_id
           st   == (stored \cup (IF keep THEN {ref} ELSE {})) \ {Cleaned(ref)}
           uk   == IF keep THEN unkept ELSE unkept \cup {since + ref}
           data == {since + d : d \in {ref} \cup Padding(ref, st)}
           s0   == [id |-> pkt_sent_id, prev |-> prev_links, chan |-> chan, sent |-> sentOn]
           s1   == SendMessage(s0, fast, ref, data)
           s2   == SendMessage(s1, slow, ref, data)
<1>2. /\ stored' = st /\ unkept' = uk
      /\ pkt_sent_id' = s2.id /\ prev_links' = s2.prev /\ chan' = s2.chan /\ sentOn' = s2.sent
  BY <1>1
<1>3. /\ since + ref \in DOMAIN Sizes /\ uniq_pkt_sent_id' = ref + 1
      /\ run' = run /\ base' = base /\ since' = since
      /\ pkt_rcv_id' = pkt_rcv_id /\ historic' = historic /\ got' = got /\ log' = log
  BY DEF OnDatagram, receiver
<1>4. /\ Counters /\ Kept /\ Wiring /\ Arrivals /\ HandedOut
  BY DEF Transport
<1>5. ref \in Nat \ {0} /\ base \in Nat /\ since \in Nat /\ unkept \in SUBSET Nat
  BY <1>4 DEF Counters
<1>6. data = Carried(since + ref, since, uk)
  BY <1>3, <1>4, PaddingCarries
<1>7. data \in SUBSET Nat
  <2> HIDE DEF ref, st
  <2>1. \A d \in Padding(ref, st) : d \in Nat
    BY <1>5 DEF Padding
  <2>2. \A d \in {ref} \cup Padding(ref, st) : d \in Nat
    BY <1>5, <2>1
  <2>3. \A d \in Nat : since + d \in Nat
    BY <1>5
  <2>4. ASSUME NEW x \in data PROVE x \in Nat
    <3>1. PICK d \in {ref} \cup Padding(ref, st) : x = since + d
      OBVIOUS
    <3> QED
      BY <2>2, <2>3, <3>1
  <2> QED
    BY <2>4
<1>8. uk = unkept \/ uk = unkept \cup {since + ref}
  OBVIOUS
<1>9. \A e \in Nat : e < since + ref => Carried(e, since, uk) = Carried(e, since, unkept)
  BY <1>4, <1>8, CarriedStays
<1>10. s0.id = pkt_sent_id /\ s0.prev = prev_links /\ s0.chan = chan /\ s0.sent = sentOn
  OBVIOUS
<1>11. sentOn \in Seq(Sent) /\ Len(sentOn) \in Nat /\ \A p \in 1 .. Len(sentOn) : sentOn[p] \in Sent
  BY <1>4 DEF Wiring, Ring
<1>12. \A p \in 1 .. Len(sentOn) :
          sentOn[p].datagram \in Nat /\ sentOn[p].datagram < since + ref
  BY <1>4, <1>11 DEF Counters, Sent
<1> HIDE DEF st, uk, data, s0
<1> fast \in Ends /\ slow \in Ends
  BY DEF Ends
<1>13. Sound(s0, uk)
  <2>1. Loads(chan, sentOn, since, uk)
    <3> SUFFICES ASSUME NEW l \in Links, NEW i \in 1 .. Len(chan[l])
                 PROVE  chan[l][i].data
                          = Carried(sentOn[chan[l][i].place].datagram, since, uk)
      BY DEF Loads
    <3>1. chan[l][i].data = Carried(sentOn[chan[l][i].place].datagram, since, unkept)
      BY <1>4 DEF Wiring, Loads
    <3>2. chan[l][i].place \in 1 .. Len(sentOn)
      BY <1>4 DEF Wiring, Wires, Genuine
    <3> QED
      BY <1>9, <1>12, <3>1, <3>2
  <2> QED
    BY <1>4, <1>10, <2>1 DEF Sound, Wiring
<1>14. Sound(s1, uk) /\ Continues(s1.sent, s0.sent, since + ref)
  BY <1>5, <1>6, <1>7, <1>13, SendKeeps
<1> HIDE DEF s1
<1>15. Sound(s2, uk) /\ Continues(s2.sent, s1.sent, since + ref)
  BY <1>5, <1>6, <1>7, <1>14, SendKeeps
<1> HIDE DEF s2
<1>16. Continues(sentOn', sentOn, since + ref)
  <2>1. Len(s0.sent) \in Nat /\ Len(s1.sent) \in Nat /\ Len(s2.sent) \in Nat
    BY <1>13, <1>14, <1>15 DEF Sound, Ring
  <2> QED
    BY <1>2, <1>10, <1>14, <1>15, <2>1 DEF Continues
<1>17. Counters'
  <2>1. Len(sentOn') \in Nat
    BY <1>2, <1>15 DEF Sound, Ring
  <2>2. ASSUME NEW p \in 1 .. Len(sentOn') PROVE sentOn'[p].datagram < since + (ref + 1)
    <3>1. CASE p <= Len(sentOn)
      <4>1. p \in 1 .. Len(sentOn)
        BY <1>11, <2>1, <3>1
      <4>2. sentOn'[p] = sentOn[p]
        BY <1>16, <4>1 DEF Continues
      <4> QED
        BY <1>5, <1>12, <4>1, <4>2
    <3>2. CASE p > Len(sentOn)
      <4>1. sentOn'[p].datagram = since + ref
        BY <1>16, <3>2 DEF Continues
      <4> QED
        BY <1>5, <4>1
    <3> QED
      BY <1>11, <2>1, <3>1, <3>2
  <2>3. unkept' \in SUBSET Nat /\ \A n \in unkept' : n < since + (ref + 1)
    <3>1. ASSUME NEW n \in unkept' PROVE n \in Nat /\ n < since + (ref + 1)
      <4>1. n \in unkept \/ n = since + ref
        BY <1>2, <1>8
      <4>2. \A m \in unkept : m \in Nat /\ m < since + ref
        BY <1>4 DEF Counters
      <4>3. CASE n \in unkept
        <5>1. n \in Nat /\ n < since + ref
          BY <4>2, <4>3
        <5> QED
          BY <1>5, <5>1
      <4>4. CASE n = since + ref
        BY <1>5, <4>4
      <4> QED
        BY <4>1, <4>3, <4>4
    <3> QED
      BY <3>1
  <2>4. run' = 1 => base' = 0 /\ since' = 0
    BY <1>3, <1>4 DEF Counters
  <2> QED
    BY <1>3, <1>5, <2>2, <2>3, <2>4 DEF Counters
<1>18. Kept'
  <2>1. ASSUME NEW d
        PROVE  d \in st <=> /\ d \in Nat \ {0} /\ d < ref + 1 /\ ref + 1 <= d + TotalLinks
                            /\ since + d \notin uk
    <3>1. d \in stored <=> /\ d \in Nat \ {0} /\ d < ref /\ ref <= d + TotalLinks
                           /\ since + d \notin unkept
      BY <1>4 DEF Kept
    <3>2. since + ref \notin unkept
      BY <1>4, <1>5 DEF Counters
    <3>3. TotalLinks \in Nat \ {0}
      BY ParametersAre
    <3>4. CASE d \in Nat \ {0} /\ d < ref
      <4>1. d # ref /\ since + d # since + ref /\ d < ref + 1
        BY <1>5, <3>4
      <4>2. d \in st <=> d \in stored /\ d # ref - TotalLinks
        BY <4>1 DEF st, Cleaned
      <4>3. since + d \in uk <=> since + d \in unkept
        BY <4>1 DEF uk
      <4>4. (ref <= d + TotalLinks /\ d # ref - TotalLinks) <=> ref + 1 <= d + TotalLinks
        BY <1>5, <3>3, <3>4
      <4> QED
        BY <3>1, <3>4, <4>1, <4>2, <4>3, <4>4
    <3>5. CASE d = ref
      <4>1. d # ref - TotalLinks /\ d \in Nat \ {0} /\ d < ref + 1 /\ ref + 1 <= d + TotalLinks
        BY <1>5, <3>3, <3>5
      <4>2. d \notin stored
        BY <1>5, <3>1, <3>5
      <4>3. d \in st <=> keep
        BY <3>5, <4>1, <4>2 DEF st, Cleaned
      <4>4. since + d \in uk <=> ~ keep
        BY <3>2, <3>5 DEF uk
      <4> QED
        BY <4>1, <4>3, <4>4
    <3>6. CASE ~ (d \in Nat \ {0} /\ d < ref) /\ d # ref
      <4>1. d \notin stored /\ d \notin st
        BY <3>1, <3>6 DEF st
      <4>2. ~ (d \in Nat \ {0} /\ d < ref + 1)
        BY <1>5, <3>6
      <4> QED
        BY <4>1, <4>2
    <3> QED
      BY <3>4, <3>5, <3>6
  <2> QED
    BY <1>2, <1>3, <2>1 DEF Kept
<1>19. Wiring'
  BY <1>2, <1>3, <1>15 DEF Wiring, Sound
<1>20. Arrivals'
  BY <1>3, <1>4 DEF Arrivals
<1>21. HandedOut'
  <2>1. ASSUME NEW i \in 1 .. Len(log)
        PROVE  Carried(sentOn'[log[i]].datagram, since, uk)
                 = Carried(sentOn[log[i]].datagram, since, unkept)
    <3>1. log[i] \in 1 .. Len(sentOn)
      BY <1>4 DEF Wiring, Pending
    <3>2. sentOn'[log[i]] = sentOn[log[i]]
      BY <1>16, <3>1 DEF Continues
    <3> QED
      BY <1>9, <1>12, <3>1, <3>2
  <2> QED
    BY <1>2, <1>3, <1>4, <2>1 DEF HandedOut
<1> QED
  BY <1>16, <1>17, <1>18, <1>19, <1>20, <1>21 DEF Transport, Continues

(* The cell that comes leaves its link.  What the other half of the proof  *)
(* needs is the second part.                                               *)
LEMMA OnStreamTransport ==
  ASSUME Transport, NEW l \in Links, OnStream(l)
  PROVE  /\ Transport'
         /\ Head(chan[l]) \in Cells /\ Genuine(Head(chan[l]), l, sentOn, base)
         /\ \A j \in 1 .. Len(log) : log[j] # Head(chan[l]).place
<1> DEFINE c == Head(chan[l])
           s == chan[l]
<1>1. /\ s # <<>> /\ got' = got \cup c.data /\ log' = Append(log, c.place)
      /\ chan' = [chan EXCEPT ![l] = Tail(s)]
  BY DEF OnStream
<1>2. /\ uniq_pkt_sent_id' = uniq_pkt_sent_id /\ stored' = stored /\ pkt_sent_id' = pkt_sent_id
      /\ prev_links' = prev_links /\ run' = run /\ base' = base /\ since' = since
      /\ unkept' = unkept /\ sentOn' = sentOn
  BY DEF OnStream, sender
<1>3. Counters /\ Kept /\ Wiring /\ Arrivals /\ HandedOut
  BY DEF Transport
<1>4. /\ chan \in [Links -> Seq(Cells)]
      /\ \A k \in Links : \A i \in 1 .. Len(chan[k]) : Genuine(chan[k][i], k, sentOn, base)
      /\ \A k \in Links : \A i, j \in 1 .. Len(chan[k]) :
           i < j => chan[k][i].place < chan[k][j].place
  BY <1>3 DEF Wiring, Wires
<1>5. /\ \A j \in 1 .. Len(log) : log[j] \in 1 .. Len(sentOn)
      /\ \A k \in Links : \A i \in 1 .. Len(chan[k]) : \A j \in 1 .. Len(log) :
           chan[k][i].place # log[j]
  BY <1>3 DEF Wiring, Pending
<1>6. log \in Seq(Nat) /\ \A i, j \in 1 .. Len(log) : log[i] = log[j] => i = j
  BY <1>3 DEF Arrivals
<1>7. s \in Seq(Cells)
  BY <1>4
<1>8. /\ Tail(s) \in Seq(Cells) /\ c = s[1] /\ c \in Cells
      /\ Len(s) \in Nat \ {0} /\ Len(Tail(s)) = Len(s) - 1
      /\ \A i \in 1 .. (Len(s) - 1) : Tail(s)[i] = s[i + 1]
  BY <1>1, <1>7, Rest
<1>9. 1 \in 1 .. Len(s)
  BY <1>8
<1>10. Genuine(c, l, sentOn, base)
  BY <1>4, <1>8, <1>9
<1>11. \A j \in 1 .. Len(log) : log[j] # c.place
  BY <1>5, <1>8, <1>9
<1>12. /\ chan'[l] = Tail(s) /\ \A k \in Links \ {l} : chan'[k] = chan[k]
       /\ chan' \in [Links -> Seq(Cells)]
  BY <1>1, <1>4, <1>8
<1> HIDE DEF c, s
<1>13. c.place \in Nat /\ c.place \in 1 .. Len(sentOn)
  BY <1>8, <1>10 DEF Cells, Genuine
<1>14. /\ log' \in Seq(Nat) /\ Len(log) \in Nat /\ Len(log') = Len(log) + 1
       /\ log'[Len(log) + 1] = c.place /\ \A i \in 1 .. Len(log) : log'[i] = log[i]
  BY <1>1, <1>6, <1>13, Appended
<1>15. \A j \in 1 .. Len(log') : j \in 1 .. Len(log) \/ j = Len(log) + 1
  BY <1>14
<1>16. ASSUME NEW k \in Links, NEW i \in 1 .. Len(chan'[k])
       PROVE  \E m \in 1 .. Len(chan[k]) :
                chan'[k][i] = chan[k][m] /\ (k = l => m = i + 1)
  <2>1. CASE k = l
    <3>1. i + 1 \in 1 .. Len(s) /\ i \in 1 .. (Len(s) - 1)
      BY <1>8, <1>12, <1>16, <2>1
    <3>2. Tail(s)[i] = s[i + 1]
      BY <1>8, <3>1
    <3>3. s = chan[k] /\ chan'[k] = Tail(s)
      BY <1>12, <2>1 DEF s
    <3> QED
      BY <3>1, <3>2, <3>3
  <2>2. CASE k # l
    BY <1>12, <1>16, <2>2
  <2> QED
    BY <2>1, <2>2
<1>17. Counters' /\ Kept'
  BY <1>2, <1>3 DEF Counters, Kept
<1>18. Wires(chan', sentOn, base)
  <2>1. ASSUME NEW k \in Links, NEW i \in 1 .. Len(chan'[k])
        PROVE  Genuine(chan'[k][i], k, sentOn, base)
    BY <1>4, <1>16
  <2>2. ASSUME NEW k \in Links, NEW i \in 1 .. Len(chan'[k]), NEW j \in 1 .. Len(chan'[k]),
               i < j
        PROVE  chan'[k][i].place < chan'[k][j].place
    <3>1. CASE k = l
      <4>1. PICK m \in 1 .. Len(chan[k]) : chan'[k][i] = chan[k][m] /\ m = i + 1
        BY <1>16, <3>1
      <4>2. PICK n \in 1 .. Len(chan[k]) : chan'[k][j] = chan[k][n] /\ n = j + 1
        BY <1>16, <3>1
      <4>3. m < n
        BY <2>2, <4>1, <4>2
      <4> QED
        BY <1>4, <4>1, <4>2, <4>3
    <3>2. CASE k # l
      <4>1. chan'[k] = chan[k]
        BY <1>12, <3>2
      <4> QED
        BY <1>4, <2>2, <4>1
    <3> QED
      BY <3>1, <3>2
  <2> QED
    BY <1>12, <2>1, <2>2 DEF Wires
<1>19. Loads(chan', sentOn, since, unkept)
  <2>1. \A k \in Links : \A i \in 1 .. Len(chan[k]) :
          chan[k][i].data = Carried(sentOn[chan[k][i].place].datagram, since, unkept)
    BY <1>3 DEF Wiring, Loads
  <2> QED
    BY <1>16, <2>1 DEF Loads
<1>20. Pending(chan', sentOn, log')
  <2>1. \A j \in 1 .. Len(log') : log'[j] \in 1 .. Len(sentOn)
    BY <1>5, <1>13, <1>14, <1>15
  <2>2. ASSUME NEW k \in Links, NEW i \in 1 .. Len(chan'[k]), NEW j \in 1 .. Len(log')
        PROVE  chan'[k][i].place # log'[j]
    <3>1. PICK m \in 1 .. Len(chan[k]) : chan'[k][i] = chan[k][m] /\ (k = l => m = i + 1)
      BY <1>16
    <3>2. CASE j \in 1 .. Len(log)
      BY <1>5, <1>14, <3>1, <3>2
    <3>3. CASE j = Len(log) + 1
      <4>1. log'[j] = c.place
        BY <1>14, <3>3
      <4>2. CASE k = l
        <5>1. m > 1 /\ 1 \in 1 .. Len(chan[k]) /\ chan[k][1] = c
          BY <1>8, <1>9, <3>1, <4>2 DEF s
        <5>2. c.place < chan[k][m].place
          BY <1>4, <5>1
        <5>3. chan[k][m].place \in 1 .. Len(sentOn)
          BY <1>4 DEF Genuine
        <5> QED
          BY <1>13, <3>1, <4>1, <5>2, <5>3
      <4>3. CASE k # l
        <5>1. sentOn[chan[k][m].place].link = k /\ sentOn[c.place].link = l
          BY <1>4, <1>10 DEF Genuine
        <5> QED
          BY <3>1, <4>1, <4>3, <5>1
      <4> QED
        BY <4>2, <4>3
    <3> QED
      BY <1>15, <3>2, <3>3
  <2> QED
    BY <2>1, <2>2 DEF Pending
<1>21. Wiring'
  BY <1>2, <1>3, <1>18, <1>19, <1>20 DEF Wiring
<1>22. Arrivals'
  <2>1. ASSUME NEW i \in 1 .. Len(log'), NEW j \in 1 .. Len(log'), log'[i] = log'[j]
        PROVE  i = j
    <3>1. CASE i \in 1 .. Len(log) /\ j \in 1 .. Len(log)
      BY <1>6, <1>14, <2>1, <3>1
    <3>2. CASE i \in 1 .. Len(log) /\ j = Len(log) + 1
      BY <1>11, <1>14, <2>1, <3>2
    <3>3. CASE i = Len(log) + 1 /\ j \in 1 .. Len(log)
      BY <1>11, <1>14, <2>1, <3>3
    <3> QED
      BY <1>15, <3>1, <3>2, <3>3
  <2> QED
    BY <1>14, <2>1 DEF Arrivals
<1>23. HandedOut'
  <2>1. c.data = Carried(sentOn[c.place].datagram, since, unkept)
    BY <1>3, <1>8, <1>9 DEF Wiring, Loads, s
  <2>2. \A d : d \in got <=> /\ d \in DOMAIN Sizes
                             /\ \E i \in 1 .. Len(log) :
                                  d \in Carried(sentOn[log[i]].datagram, since, unkept)
    BY <1>3 DEF HandedOut
  <2>3. \A d \in Carried(sentOn[c.place].datagram, since, unkept) : d \in DOMAIN Sizes
    BY DEF Carried
  <2>4. Len(log) + 1 \in 1 .. Len(log')
    BY <1>14
  <2>5. \A i \in 1 .. Len(log) : i \in 1 .. Len(log')
    BY <1>14
  <2>6. ASSUME NEW d
        PROVE  d \in got' <=> /\ d \in DOMAIN Sizes
                              /\ \E i \in 1 .. Len(log') :
                                   d \in Carried(sentOn[log'[i]].datagram, since, unkept)
    <3>1. d \in got' <=> d \in got \/ d \in Carried(sentOn[c.place].datagram, since, unkept)
      BY <1>1, <2>1
    <3>2. (\E i \in 1 .. Len(log') : d \in Carried(sentOn[log'[i]].datagram, since, unkept))
            <=> \/ \E i \in 1 .. Len(log) :
                     d \in Carried(sentOn[log[i]].datagram, since, unkept)
                \/ d \in Carried(sentOn[c.place].datagram, since, unkept)
      BY <1>14, <1>15, <2>4, <2>5
    <3> QED
      BY <2>2, <2>3, <3>1, <3>2
  <2> QED
    BY <1>2, <2>6 DEF HandedOut
<1> QED
  BY <1>8, <1>10, <1>11, <1>17, <1>21, <1>22, <1>23 DEF Transport, c

(* Where cells are lost, what is said of the others stays true. *)
LEMMA LostWires ==
  ASSUME Transport, NEW ls \in SUBSET Links, chan' = Lost(ls)
  PROVE  /\ Wires(chan', sentOn, base)
         /\ Loads(chan', sentOn, since, unkept)
         /\ Pending(chan', sentOn, log)
<1>1. /\ Wires(chan, sentOn, base) /\ Loads(chan, sentOn, since, unkept)
      /\ Pending(chan, sentOn, log)
  BY DEF Transport, Wiring
<1>2. chan' = [l \in Links |-> IF l \in ls THEN <<>> ELSE chan[l]]
  BY DEF Lost
<1>3. \A l \in Links : chan'[l] = chan[l] \/ Len(chan'[l]) = 0
  BY <1>2
<1>4. chan' \in [Links -> Seq(Cells)]
  BY <1>1, <1>2 DEF Wires
<1>5. ASSUME NEW l \in Links, NEW i \in 1 .. Len(chan'[l]) PROVE chan'[l] = chan[l]
  BY <1>3
<1>6. Wires(chan', sentOn, base)
  BY <1>1, <1>4, <1>5 DEF Wires
<1>7. Loads(chan', sentOn, since, unkept)
  BY <1>1, <1>5 DEF Loads
<1>8. Pending(chan', sentOn, log)
  BY <1>1, <1>5 DEF Pending
<1> QED
  BY <1>6, <1>7, <1>8

LEMMA BreakTransport ==
  ASSUME Transport, NEW l \in Links, Break(l)
  PROVE  Transport'
<1>1. Counters /\ Kept /\ Wiring /\ Arrivals /\ HandedOut
  BY DEF Transport
<1>2. /\ uniq_pkt_sent_id' = uniq_pkt_sent_id /\ stored' = stored /\ pkt_sent_id' = pkt_sent_id
      /\ prev_links' = prev_links /\ run' = run /\ base' = base /\ since' = since
      /\ unkept' = unkept /\ sentOn' = sentOn /\ got' = got /\ log' = log
      /\ chan' = Lost({l}) /\ {l} \in SUBSET Links
  BY DEF Break, sender, receiver
<1>3. Wiring'
  BY <1>1, <1>2, LostWires DEF Wiring
<1> QED
  BY <1>1, <1>2, <1>3 DEF Transport, Counters, Kept, Arrivals, HandedOut

(* The run that ends was the first: the numbers of all cells so far are    *)
(* their places, before and after.                                         *)
LEMMA RestartTransport ==
  ASSUME Transport, Restart
  PROVE  Transport' /\ base = 0 /\ base' = Len(sentOn) /\ sentOn' = sentOn
<1>1. Counters /\ Kept /\ Wiring /\ Arrivals /\ HandedOut
  BY DEF Transport
<1>2. PICK ls \in SUBSET Links : chan' = Lost(ls)
  BY DEF Restart
<1>3. /\ run = 1 /\ run' = 2 /\ base' = Len(sentOn) /\ since' = uniq_pkt_sent_id - 1
      /\ uniq_pkt_sent_id' = 1 /\ stored' = {} /\ pkt_sent_id' = 1 /\ prev_links' = NoLinks
      /\ unkept' = unkept /\ sentOn' = sentOn /\ got' = got /\ log' = log
  BY DEF Restart, receiver
<1>4. /\ base = 0 /\ since = 0 /\ uniq_pkt_sent_id \in Nat \ {0} /\ since' \in Nat
      /\ unkept \in SUBSET Nat
  BY <1>1, <1>3 DEF Counters
<1>5. sentOn \in Seq(Sent) /\ Len(sentOn) \in Nat /\ \A p \in 1 .. Len(sentOn) : sentOn[p] \in Sent
  BY <1>1 DEF Wiring, Ring
<1>6. \A p \in 1 .. Len(sentOn) :
        sentOn[p].datagram \in Nat /\ sentOn[p].datagram < since + uniq_pkt_sent_id
  BY <1>1, <1>5 DEF Counters, Sent
<1>7. \A p \in 1 .. Len(sentOn) :
        Carried(sentOn[p].datagram, since', unkept) = Carried(sentOn[p].datagram, since, unkept)
  BY <1>1, <1>3, <1>6, CarriedRestarts
<1>8. /\ Wires(chan', sentOn, base) /\ Loads(chan', sentOn, since, unkept)
      /\ Pending(chan', sentOn, log)
  BY <1>2, LostWires
<1>9. Counters'
  <2>1. \A n \in unkept : n < 1 + since'
    BY <1>1, <1>3, <1>4 DEF Counters
  <2>2. \A p \in 1 .. Len(sentOn) : sentOn[p].datagram < since' + 1
    BY <1>3, <1>4, <1>6
  <2> QED
    BY <1>3, <1>4, <1>5, <2>1, <2>2 DEF Counters
<1>10. Kept'
  BY <1>3, <1>4 DEF Kept
<1>11. Ring(1, NoLinks, sentOn, base')
  <2>1. NoLinks \in LinkRing
    BY ParametersAre DEF NoLinks, LinkRing, Ends, Links
  <2> QED
    BY <1>3, <1>5, <2>1 DEF Ring
<1>12. Wires(chan', sentOn, base')
  <2>1. ASSUME NEW l \in Links, NEW i \in 1 .. Len(chan'[l])
        PROVE  Genuine(chan'[l][i], l, sentOn, base')
    <3>1. Genuine(chan'[l][i], l, sentOn, base)
      BY <1>8 DEF Wires
    <3>2. chan'[l][i].place \in 1 .. Len(sentOn)
      BY <3>1 DEF Genuine
    <3>3. Number(chan'[l][i].place, base') = Number(chan'[l][i].place, base)
      BY <1>3, <1>4, <1>5, <3>2 DEF Number
    <3> QED
      BY <3>1, <3>3 DEF Genuine
  <2> QED
    BY <1>8, <2>1 DEF Wires
<1>13. Loads(chan', sentOn, since', unkept)
  <2> SUFFICES ASSUME NEW l \in Links, NEW i \in 1 .. Len(chan'[l])
               PROVE  chan'[l][i].data
                        = Carried(sentOn[chan'[l][i].place].datagram, since', unkept)
    BY DEF Loads
  <2>1. chan'[l][i].data = Carried(sentOn[chan'[l][i].place].datagram, since, unkept)
    BY <1>8 DEF Loads
  <2>2. chan'[l][i].place \in 1 .. Len(sentOn)
    BY <1>8 DEF Wires, Genuine
  <2> QED
    BY <1>7, <2>1, <2>2
<1>14. Wiring'
  BY <1>3, <1>8, <1>11, <1>12, <1>13 DEF Wiring
<1>15. HandedOut'
  <2>1. \A i \in 1 .. Len(log) : log[i] \in 1 .. Len(sentOn)
    BY <1>8 DEF Pending
  <2>2. \A i \in 1 .. Len(log) :
          Carried(sentOn[log[i]].datagram, since', unkept)
            = Carried(sentOn[log[i]].datagram, since, unkept)
    BY <1>7, <2>1
  <2> QED
    BY <1>1, <1>3, <2>2 DEF HandedOut
<1>16. Arrivals'
  BY <1>1, <1>3 DEF Arrivals
<1> QED
  BY <1>3, <1>4, <1>9, <1>10, <1>14, <1>15, <1>16 DEF Transport

LEMMA TransportStays == Transport /\ UNCHANGED vars => Transport'
  BY DEF vars, sender, receiver, Transport, Counters, Kept, Wiring, Arrivals, HandedOut

LEMMA NextTransport == Transport /\ [Next]_vars => Transport'
<1> SUFFICES ASSUME Transport, [Next]_vars PROVE Transport'
  OBVIOUS
<1>1. CASE OnDatagram
  BY <1>1, OnDatagramTransport
<1>2. CASE Restart
  BY <1>2, RestartTransport
<1>3. ASSUME NEW l \in Links, OnStream(l) PROVE Transport'
  BY <1>3, OnStreamTransport
<1>4. ASSUME NEW l \in Links, Break(l) PROVE Transport'
  BY <1>4, BreakTransport
<1>5. CASE UNCHANGED vars
  BY <1>5, TransportStays
<1> QED
  BY <1>1, <1>2, <1>3, <1>4, <1>5 DEF Next

(* A datagram comes out exactly if a cell comes that had it: its own, or   *)
(* one of those after it that it was appended to (OnDatagram, OnStream,    *)
(* across links that break and a sender that is restarted).                *)
THEOREM DatagramsComeOut == Spec => []Redundancy
<1>1. Transport => Redundancy
  <2> SUFFICES ASSUME Transport PROVE Redundancy
    OBVIOUS
  <2>1. HandedOut /\ log \in Seq(Nat)
    BY DEF Transport, Arrivals
  <2>2. DOMAIN log = 1 .. Len(log)
    BY <2>1
  <2>3. \A d \in DOMAIN Sizes : \A i \in 1 .. Len(log) :
          d \in Carried(sentOn[log[i]].datagram, since, unkept)
            <=> LET e == sentOn[log[i]].datagram
                IN  \/ d = e
                    \/ /\ d < e /\ e < d + TotalLinks /\ (d > since \/ e <= since)
                       /\ d .. (e - 1) \cap unkept = {}
                       /\ Bytes(d, e) <= Room
    BY DEF Carried
  <2> QED
    BY <2>1, <2>2, <2>3 DEF HandedOut, Redundancy
<1> QED
  BY <1>1, InitTransport, NextTransport, PTL DEF Spec

-----------------------------------------------------------------------------
(* The order of arrival, as a function of the log and of what the run      *)
(* before sent.                                                            *)

NumberAt(lg, b, i) == Number(lg[i], b)
HasCome(lg, b, p)  == \E i \in 1 .. Len(lg) : NumberAt(lg, b, i) = p
PlaceIn(lg, b, p)  ==
  IF HasCome(lg, b, p) THEN CHOOSE i \in 1 .. Len(lg) : NumberAt(lg, b, i) = p ELSE Len(lg) + 1
Overtook(lg, b, p) == {i \in 1 .. (PlaceIn(lg, b, p) - 1) : NumberAt(lg, b, i) > p}

NamedIn(lg, b, p) ==
  \E i \in Overtook(lg, b, p) : /\ \A j \in Overtook(lg, b, p) : i <= j
                                /\ NumberAt(lg, b, i) - p \in Past
TakenIn(lg, b, p) ==
  \/ \E i \in Overtook(lg, b, p) : NumberAt(lg, b, i) >= p + HistoricSize
  \/ \E i \in Overtook(lg, b, p), j \in 1 .. (PlaceIn(lg, b, p) - 1) :
       /\ i < j /\ NumberAt(lg, b, j) < p
       /\ NumberAt(lg, b, j) % HistoricSize = p % HistoricSize

(* A log: places, each at most once. *)
IsLog(lg) ==
  /\ lg \in Seq(Nat) /\ \A i \in 1 .. Len(lg) : lg[i] > 0
  /\ \A i, j \in 1 .. Len(lg) : lg[i] = lg[j] => i = j

LEMMA NumbersAre ==
  ASSUME NEW lg, IsLog(lg), NEW b \in Nat
  PROVE  /\ Len(lg) \in Nat
         /\ \A i \in 1 .. Len(lg) : /\ lg[i] \in Nat \ {0} /\ NumberAt(lg, b, i) \in Nat \ {0}
                                    /\ \A p \in Nat : p > b /\ NumberAt(lg, b, i) = p
                                                        => lg[i] = b + p
  BY DEF IsLog, NumberAt, Number

(* Above b, each number comes at one place. *)
LEMMA PlaceIs ==
  ASSUME NEW lg, IsLog(lg), NEW b \in Nat, NEW p \in Nat, p > b
  PROVE  /\ PlaceIn(lg, b, p) \in 1 .. (Len(lg) + 1)
         /\ ~ HasCome(lg, b, p) => PlaceIn(lg, b, p) = Len(lg) + 1
         /\ HasCome(lg, b, p) => /\ PlaceIn(lg, b, p) \in 1 .. Len(lg)
                                 /\ NumberAt(lg, b, PlaceIn(lg, b, p)) = p
         /\ \A i \in 1 .. Len(lg) : NumberAt(lg, b, i) = p => PlaceIn(lg, b, p) = i
<1>1. Len(lg) \in Nat
  BY NumbersAre
<1>2. CASE ~ HasCome(lg, b, p)
  <2>1. PlaceIn(lg, b, p) = Len(lg) + 1
    BY <1>2 DEF PlaceIn
  <2> QED
    BY <1>1, <1>2, <2>1 DEF HasCome
<1>3. CASE HasCome(lg, b, p)
  <2> DEFINE k == CHOOSE i \in 1 .. Len(lg) : NumberAt(lg, b, i) = p
  <2>1. PlaceIn(lg, b, p) = k
    BY <1>3 DEF PlaceIn
  <2>2. k \in 1 .. Len(lg) /\ NumberAt(lg, b, k) = p
    BY <1>3 DEF HasCome
  <2> HIDE DEF k
  <2>3. ASSUME NEW i \in 1 .. Len(lg), NumberAt(lg, b, i) = p PROVE i = k
    <3>1. lg[i] = b + p /\ lg[k] = b + p
      BY <2>2, <2>3, NumbersAre
    <3> QED
      BY <2>2, <3>1 DEF IsLog
  <2> QED
    BY <1>1, <1>3, <2>1, <2>2, <2>3
<1> QED
  BY <1>2, <1>3

LEMMA PlaceOf ==
  ASSUME NEW lg, IsLog(lg), NEW b \in Nat, NEW p \in Nat, p > b,
         NEW i \in 1 .. Len(lg), NumberAt(lg, b, i) = p
  PROVE  PlaceIn(lg, b, p) = i
  BY PlaceIs

(* Whether the link was named depends on those that overtook alone. *)
LEMMA SameOvertaking ==
  ASSUME NEW lg, NEW lg2, NEW b, NEW p, Overtook(lg2, b, p) = Overtook(lg, b, p),
         \A i \in Overtook(lg, b, p) : NumberAt(lg2, b, i) = NumberAt(lg, b, i)
  PROVE  NamedIn(lg2, b, p) <=> NamedIn(lg, b, p)
  BY DEF NamedIn

(* What an arrival, after which the log is lg2, changes for a number p that *)
(* is not its own number, id.                                              *)
AfterOther(lg, lg2, b, id, p) ==
  /\ HasCome(lg2, b, p) <=> HasCome(lg, b, p)
  /\ NamedIn(lg, b, p) => NamedIn(lg2, b, p)
  /\ TakenIn(lg, b, p) => TakenIn(lg2, b, p)
  /\ HasCome(lg, b, p) => (NamedIn(lg2, b, p) <=> NamedIn(lg, b, p))
  /\ ~ HasCome(lg, b, p) /\ Overtook(lg, b, p) # {}
       => (NamedIn(lg2, b, p) <=> NamedIn(lg, b, p))
  /\ ~ HasCome(lg, b, p) /\ Overtook(lg, b, p) = {}
       => (NamedIn(lg2, b, p) <=> id > p /\ id - p \in Past)
  /\ ~ HasCome(lg, b, p) /\ id >= p + HistoricSize => TakenIn(lg2, b, p)
  /\ ~ HasCome(lg, b, p) /\ Overtook(lg, b, p) # {} /\ id < p
       /\ id % HistoricSize = p % HistoricSize => TakenIn(lg2, b, p)

LEMMA OtherArrival ==
  ASSUME NEW lg, IsLog(lg), NEW b \in Nat, NEW x \in Nat \ {0},
         \A i \in 1 .. Len(lg) : lg[i] # x,
         NEW lg2, lg2 = Append(lg, x), NEW id, id = Number(x, b),
         NEW p \in Nat, p > b, p # id
  PROVE  AfterOther(lg, lg2, b, id, p)
<1> DEFINE n == Len(lg)
           O == Overtook(lg, b, p)
           O2 == Overtook(lg2, b, p)
<1>1. lg \in Seq(Nat) /\ x \in Nat
  BY DEF IsLog
<1>2. /\ lg2 \in Seq(Nat) /\ n \in Nat /\ Len(lg2) = n + 1 /\ lg2[n + 1] = x
      /\ \A i \in 1 .. n : lg2[i] = lg[i]
  BY <1>1, Appended
<1>3. \A i \in 1 .. Len(lg2) : i \in 1 .. n \/ i = n + 1
  BY <1>2
<1>4. IsLog(lg2)
  <2>1. \A i \in 1 .. n : lg[i] > 0 /\ \A j \in 1 .. n : lg[i] = lg[j] => i = j
    BY DEF IsLog
  <2> QED
    BY <1>2, <1>3, <2>1 DEF IsLog
<1>5. /\ \A i \in 1 .. n : NumberAt(lg2, b, i) = NumberAt(lg, b, i)
      /\ NumberAt(lg2, b, n + 1) = id
  BY <1>2 DEF NumberAt
<1>6. /\ \A i \in 1 .. n : NumberAt(lg, b, i) \in Nat \ {0}
      /\ id \in Nat \ {0} /\ HistoricSize \in Nat \ {0}
  <2>1. n + 1 \in 1 .. Len(lg2)
    BY <1>2
  <2>2. NumberAt(lg2, b, n + 1) \in Nat \ {0}
    BY <1>4, <2>1, NumbersAre
  <2> QED
    BY <1>5, <2>2, NumbersAre, ParametersAre
<1>7. HasCome(lg2, b, p) <=> HasCome(lg, b, p)
  <2>1. \A i \in 1 .. n : i \in 1 .. Len(lg2)
    BY <1>2
  <2> QED
    BY <1>3, <1>5, <2>1 DEF HasCome
<1>8. CASE HasCome(lg, b, p)
  <2>1. PlaceIn(lg2, b, p) = PlaceIn(lg, b, p) /\ PlaceIn(lg, b, p) \in 1 .. n
    <3>1. PlaceIn(lg, b, p) \in 1 .. n /\ NumberAt(lg, b, PlaceIn(lg, b, p)) = p
      BY <1>8, PlaceIs
    <3>2. PlaceIn(lg, b, p) \in 1 .. Len(lg2) /\ NumberAt(lg2, b, PlaceIn(lg, b, p)) = p
      BY <1>2, <1>5, <3>1
    <3>3. \A i \in 1 .. Len(lg2) : NumberAt(lg2, b, i) = p => PlaceIn(lg2, b, p) = i
      BY <1>4, PlaceOf
    <3> QED
      BY <3>1, <3>2, <3>3
  <2>2. \A i \in 1 .. (PlaceIn(lg, b, p) - 1) :
          i \in 1 .. n /\ NumberAt(lg2, b, i) = NumberAt(lg, b, i)
    BY <1>2, <1>5, <2>1
  <2>3. O2 = O /\ \A i \in O : NumberAt(lg2, b, i) = NumberAt(lg, b, i)
    BY <2>1, <2>2 DEF Overtook
  <2>4. NamedIn(lg2, b, p) <=> NamedIn(lg, b, p)
    BY <2>3, SameOvertaking
  <2>5. TakenIn(lg, b, p) => TakenIn(lg2, b, p)
    BY <2>1, <2>2, <2>3 DEF TakenIn
  <2> QED
    BY <1>7, <1>8, <2>4, <2>5 DEF AfterOther
<1>9. CASE ~ HasCome(lg, b, p)
  <2>1. PlaceIn(lg, b, p) = n + 1 /\ PlaceIn(lg2, b, p) = n + 2
    <3>1. PlaceIn(lg, b, p) = n + 1
      BY <1>9, PlaceIs
    <3>2. PlaceIn(lg2, b, p) = Len(lg2) + 1
      BY <1>4, <1>7, <1>9, PlaceIs
    <3> QED
      BY <1>2, <3>1, <3>2
  <2>2. \A i : i \in O <=> i \in 1 .. n /\ NumberAt(lg, b, i) > p
    BY <1>2, <2>1 DEF Overtook
  <2>3. \A i : i \in O2 <=> i \in O \/ (i = n + 1 /\ id > p)
    <3>1. \A i : i \in 1 .. (PlaceIn(lg2, b, p) - 1) <=> i \in 1 .. n \/ i = n + 1
      BY <1>2, <2>1
    <3>2. \A i : i \in O2 <=> i \in 1 .. (PlaceIn(lg2, b, p) - 1) /\ NumberAt(lg2, b, i) > p
      BY DEF Overtook
    <3> QED
      BY <1>5, <2>2, <3>1, <3>2
  <2>4. \A i \in O : /\ i \in 1 .. n /\ i <= n + 1 /\ ~ (n + 1 <= i)
                     /\ NumberAt(lg2, b, i) = NumberAt(lg, b, i)
    BY <1>2, <1>5, <2>2
  <2> HIDE DEF O, O2
  <2>5. ASSUME O # {} PROVE NamedIn(lg2, b, p) <=> NamedIn(lg, b, p)
    <3>1. ASSUME NEW i \in O
          PROVE  (\A j \in O2 : i <= j) <=> (\A j \in O : i <= j)
      BY <2>3, <2>4
    <3>2. ASSUME n + 1 \in O2, \A j \in O2 : n + 1 <= j PROVE FALSE
      BY <2>3, <2>4, <2>5, <3>2
    <3>3. NamedIn(lg2, b, p) <=> \E i \in O2 : /\ \A j \in O2 : i <= j
                                               /\ NumberAt(lg2, b, i) - p \in Past
      BY DEF NamedIn, O2
    <3>4. NamedIn(lg, b, p) <=> \E i \in O : /\ \A j \in O : i <= j
                                             /\ NumberAt(lg, b, i) - p \in Past
      BY DEF NamedIn, O
    <3> QED
      BY <2>3, <2>4, <3>1, <3>2, <3>3, <3>4
  <2>6. ASSUME O = {} PROVE NamedIn(lg2, b, p) <=> id > p /\ id - p \in Past
    <3>1. NamedIn(lg2, b, p) <=> \E i \in O2 : /\ \A j \in O2 : i <= j
                                               /\ NumberAt(lg2, b, i) - p \in Past
      BY DEF NamedIn, O2
    <3>2. \A i : i \in O2 <=> i = n + 1 /\ id > p
      BY <2>3, <2>6
    <3>3. n + 1 <= n + 1
      BY <1>2
    <3> QED
      BY <1>5, <3>1, <3>2, <3>3
  <2>7. NamedIn(lg, b, p) => O # {}
    BY DEF NamedIn, O
  <2>8. \A j \in 1 .. (PlaceIn(lg, b, p) - 1) :
          j \in 1 .. (PlaceIn(lg2, b, p) - 1) /\ NumberAt(lg2, b, j) = NumberAt(lg, b, j)
    BY <1>2, <1>5, <2>1
  <2>9. TakenIn(lg, b, p) => TakenIn(lg2, b, p)
    <3>1. \A i \in O : i \in O2
      BY <2>3
    <3> QED
      BY <2>4, <2>8, <3>1 DEF TakenIn, O, O2
  <2>10. ASSUME id >= p + HistoricSize PROVE TakenIn(lg2, b, p)
    <3>1. n + 1 \in O2
      BY <1>6, <2>3, <2>10
    <3> QED
      BY <1>5, <2>10, <3>1 DEF TakenIn, O2
  <2>11. ASSUME O # {}, id < p, id % HistoricSize = p % HistoricSize PROVE TakenIn(lg2, b, p)
    <3>1. PICK i \in O : TRUE
      BY <2>11
    <3>2. i \in O2 /\ i < n + 1 /\ n + 1 \in 1 .. (PlaceIn(lg2, b, p) - 1)
      BY <1>2, <2>1, <2>3, <2>4
    <3> QED
      BY <1>5, <2>11, <3>2 DEF TakenIn, O2
  <2> QED
    BY <1>7, <1>9, <2>5, <2>6, <2>7, <2>9, <2>10, <2>11 DEF O, AfterOther
<1> QED
  BY <1>8, <1>9

(* What an arrival changes for its own number: nothing but that it has     *)
(* come.                                                                   *)
LEMMA OwnArrival ==
  ASSUME NEW lg, IsLog(lg), NEW b \in Nat, NEW x \in Nat \ {0},
         \A i \in 1 .. Len(lg) : lg[i] # x,
         NEW lg2, lg2 = Append(lg, x), NEW id, id = Number(x, b), id > b
  PROVE  /\ ~ HasCome(lg, b, id) /\ HasCome(lg2, b, id)
         /\ NamedIn(lg2, b, id) <=> NamedIn(lg, b, id)
         /\ TakenIn(lg2, b, id) <=> TakenIn(lg, b, id)
<1> DEFINE n == Len(lg)
<1>1. lg \in Seq(Nat) /\ x \in Nat
  BY DEF IsLog
<1>2. /\ lg2 \in Seq(Nat) /\ n \in Nat /\ Len(lg2) = n + 1 /\ lg2[n + 1] = x
      /\ \A i \in 1 .. n : lg2[i] = lg[i]
  BY <1>1, Appended
<1>3. \A i \in 1 .. Len(lg2) : i \in 1 .. n \/ i = n + 1
  BY <1>2
<1>4. IsLog(lg2)
  <2>1. \A i \in 1 .. n : lg[i] > 0 /\ \A j \in 1 .. n : lg[i] = lg[j] => i = j
    BY DEF IsLog
  <2> QED
    BY <1>2, <1>3, <2>1 DEF IsLog
<1>5. /\ \A i \in 1 .. n : NumberAt(lg2, b, i) = NumberAt(lg, b, i)
      /\ NumberAt(lg2, b, n + 1) = id
  BY <1>2 DEF NumberAt
<1>6. id \in Nat /\ x = b + id
  BY DEF Number
<1>7. ~ HasCome(lg, b, id)
  BY <1>6, NumbersAre DEF HasCome
<1>8. n + 1 \in 1 .. Len(lg2)
  BY <1>2
<1>9. HasCome(lg2, b, id)
  BY <1>5, <1>8 DEF HasCome
<1>10. PlaceIn(lg, b, id) = n + 1 /\ PlaceIn(lg2, b, id) = n + 1
  <2>1. PlaceIn(lg, b, id) = n + 1
    BY <1>6, <1>7, PlaceIs
  <2>2. \A i \in 1 .. Len(lg2) : NumberAt(lg2, b, i) = id => PlaceIn(lg2, b, id) = i
    BY <1>4, <1>6, PlaceOf
  <2> QED
    BY <1>5, <1>8, <2>1, <2>2
<1>11. \A i \in 1 .. (PlaceIn(lg, b, id) - 1) : NumberAt(lg2, b, i) = NumberAt(lg, b, i)
  BY <1>2, <1>5, <1>10
<1>12. /\ Overtook(lg2, b, id) = Overtook(lg, b, id)
       /\ \A i \in Overtook(lg, b, id) : NumberAt(lg2, b, i) = NumberAt(lg, b, i)
  BY <1>10, <1>11 DEF Overtook
<1>13. NamedIn(lg2, b, id) <=> NamedIn(lg, b, id)
  BY <1>12, SameOvertaking
<1>14. TakenIn(lg2, b, id) <=> TakenIn(lg, b, id)
  BY <1>10, <1>11, <1>12 DEF TakenIn
<1> QED
  BY <1>7, <1>9, <1>13, <1>14

-----------------------------------------------------------------------------
(* The invariant of the notes.                                             *)

States == {"IN_ORDER", "ONGOING", "DONE"}

(* Charged and MissingNoticed, in these words. *)
ChargedFor(n, lg, b, sent) ==
  /\ n.link = sent[b + n.id].link
  /\ HasCome(lg, b, n.id) <=> n.state # "ONGOING"
  /\ n.state \in {"ONGOING", "DONE"} => NamedIn(lg, b, n.id)
  /\ n.state = "IN_ORDER" => ~ NamedIn(lg, b, n.id) \/ TakenIn(lg, b, n.id)

ChargedIn(h, lg, b, sent) ==
  \A s \in Slots : h[s].id > b => ChargedFor(h[s], lg, b, sent)

NoticedIn(h, lg, b, sent, r) ==
  \A p \in (b + 1) .. r :
    ~ HasCome(lg, b, p) /\ NamedIn(lg, b, p) =>
      \/ h[p % HistoricSize] = Note("ONGOING", sent[b + p].link, p)
      \/ TakenIn(lg, b, p)

(* A note is in the slot of its number, and no number is above the         *)
(* greatest that came, which did come.                                     *)
Slotted(h, lg, b, r) ==
  /\ r \in Nat
  /\ \A i \in 1 .. Len(lg) : NumberAt(lg, b, i) <= r
  /\ r > 0 => HasCome(lg, b, r)
  /\ h \in [Slots -> [state : States, link : Ends, id : Nat]]
  /\ \A s \in Slots : h[s].id <= r /\ (h[s].id > 0 => h[s].id % HistoricSize = s)

Notes(h, lg, b, sent, r) ==
  Slotted(h, lg, b, r) /\ ChargedIn(h, lg, b, sent) /\ NoticedIn(h, lg, b, sent, r)

LEMMA NoteFields ==
  ASSUME NEW state, NEW link, NEW id
  PROVE  /\ Note(state, link, id).state = state /\ Note(state, link, id).link = link
         /\ Note(state, link, id).id = id
         /\ state \in States /\ link \in Ends /\ id \in Nat
              => Note(state, link, id) \in [state : States, link : Ends, id : Nat]
  BY DEF Note

LEMMA SlotIs ==
  ASSUME NEW x \in Int
  PROVE  x % HistoricSize \in Slots
  BY ParametersAre, SlotOf DEF Slots

(* Nothing has overtaken a number above the greatest. *)
LEMMA NoneAbove ==
  ASSUME NEW lg, IsLog(lg), NEW b \in Nat, NEW r \in Nat, NEW p \in Nat, p > b, p > r,
         \A i \in 1 .. Len(lg) : NumberAt(lg, b, i) <= r
  PROVE  ~ HasCome(lg, b, p) /\ Overtook(lg, b, p) = {}
<1>1. Len(lg) \in Nat /\ \A i \in 1 .. Len(lg) : NumberAt(lg, b, i) \in Nat
  BY NumbersAre
<1>2. ~ HasCome(lg, b, p)
  BY <1>1 DEF HasCome
<1>3. PlaceIn(lg, b, p) = Len(lg) + 1
  BY <1>2, PlaceIs
<1>4. \A i \in 1 .. (PlaceIn(lg, b, p) - 1) : ~ (NumberAt(lg, b, i) > p)
  BY <1>1, <1>3
<1> QED
  BY <1>2, <1>4 DEF Overtook

(* Something has overtaken a number below it, until it comes. *)
LEMMA SomeAbove ==
  ASSUME NEW lg, IsLog(lg), NEW b \in Nat, NEW r \in Nat, NEW p \in Nat, p > b, p < r,
         HasCome(lg, b, r), ~ HasCome(lg, b, p)
  PROVE  Overtook(lg, b, p) # {}
<1>1. PICK i \in 1 .. Len(lg) : NumberAt(lg, b, i) = r
  BY DEF HasCome
<1>2. PlaceIn(lg, b, p) = Len(lg) + 1 /\ Len(lg) \in Nat
  BY PlaceIs, NumbersAre
<1>3. i \in 1 .. (PlaceIn(lg, b, p) - 1)
  BY <1>2
<1> QED
  BY <1>1, <1>3 DEF Overtook

(* The notes after a cell: one for each missing number, one for its own,   *)
(* and the others as they were.                                            *)
LEMMA NotesAfter ==
  ASSUME NEW c \in Cells, NEW l \in Links, pkt_rcv_id \in Nat,
         historic \in [Slots -> [state : States, link : Ends, id : Nat]],
         \A s \in Slots : historic[s].id <= pkt_rcv_id,
         NEW h, h = Recorded(Detected(historic, c, MissingBefore(c.id)), c.id, l)
  PROVE  /\ h \in [Slots -> [state : States, link : Ends, id : Nat]]
         /\ \A m \in MissingBefore(c.id) :
              /\ m \in Nat /\ pkt_rcv_id < m /\ m < c.id /\ c.id - m \in Past
              /\ c.id < m + HistoricSize
              /\ h[m % HistoricSize] = Note("ONGOING", c.links[c.id - m], m)
         /\ LET s == c.id % HistoricSize
            IN  h[s] = Note(IF historic[s].id = c.id THEN "DONE" ELSE "IN_ORDER", l, c.id)
         /\ \A s \in Slots : \/ h[s] = historic[s]
                             \/ s = c.id % HistoricSize
                             \/ \E m \in MissingBefore(c.id) : s = m % HistoricSize
<1> DEFINE id == c.id
           M == MissingBefore(id)
           D == Detected(historic, c, M)
           Found(s) == {n \in M : n % HistoricSize = s /\ historic[s].id < n}
           type == [state : States, link : Ends, id : Nat]
<1>1. id \in Nat \ {0} /\ c.links \in [Past -> Ends] /\ HistoricSize \in Nat \ {0}
  BY ParametersAre DEF Cells
<1>2. id % HistoricSize \in Slots
  BY <1>1, SlotIs
<1>3. \A m \in M : /\ m \in Nat /\ pkt_rcv_id < m /\ m < id /\ id - m \in Past
                   /\ id < m + HistoricSize
  <2> SUFFICES ASSUME NEW m \in M
               PROVE  /\ m \in Nat /\ pkt_rcv_id < m /\ m < id /\ id - m \in Past
                      /\ id < m + HistoricSize
    OBVIOUS
  <2>1. m \in (pkt_rcv_id + 1) .. (id - 1) /\ id - m \in Past
    BY DEF MissingBefore
  <2>2. m \in Nat /\ pkt_rcv_id < m /\ m < id
    BY <1>1, <2>1
  <2>3. id - m <= SentPastLinks
    BY <2>1 DEF Past
  <2> HIDE DEF id
  <2> QED
    BY <1>1, <2>1, <2>2, <2>3, ParametersAre
<1> HIDE DEF id, M
<1>4. \A m, n \in M : m % HistoricSize = n % HistoricSize => m = n
  <2> SUFFICES ASSUME NEW m \in M, NEW n \in M, m % HistoricSize = n % HistoricSize, m # n
               PROVE  FALSE
    OBVIOUS
  <2>1. /\ m \in Nat /\ m < id /\ id < m + HistoricSize
        /\ n \in Nat /\ n < id /\ id < n + HistoricSize
    BY <1>3
  <2>2. CASE m < n
    <3>1. m + HistoricSize <= n
      BY <1>1, <2>1, <2>2, SameSlot
    <3> QED
      BY <1>1, <2>1, <3>1
  <2>3. CASE n < m
    <3>1. n + HistoricSize <= m
      BY <1>1, <2>1, <2>3, SameSlot
    <3> QED
      BY <1>1, <2>1, <3>1
  <2> QED
    BY <2>1, <2>2, <2>3
<1>5. \A m \in M : m % HistoricSize \in Slots /\ m % HistoricSize # id % HistoricSize
  <2> SUFFICES ASSUME NEW m \in M
               PROVE  m % HistoricSize \in Slots /\ m % HistoricSize # id % HistoricSize
    OBVIOUS
  <2>1. m \in Nat /\ m < id /\ id < m + HistoricSize
    BY <1>3
  <2>2. m % HistoricSize # id % HistoricSize
    <3> SUFFICES ASSUME m % HistoricSize = id % HistoricSize PROVE FALSE
      OBVIOUS
    <3>1. m + HistoricSize <= id
      BY <1>1, <2>1, SameSlot
    <3> QED
      BY <1>1, <2>1, <3>1
  <2> QED
    BY <2>1, <2>2, SlotIs
<1>6. \A s \in Slots : D[s] = IF Found(s) = {} THEN historic[s]
                              ELSE Note("ONGOING", c.links[id - (CHOOSE n \in Found(s) : TRUE)],
                                        CHOOSE n \in Found(s) : TRUE)
  BY DEF Detected, id
<1>7. DOMAIN D = Slots /\ D = [s \in Slots |-> D[s]]
  BY DEF Detected
<1> HIDE DEF D
<1>8. \A m \in M : D[m % HistoricSize] = Note("ONGOING", c.links[id - m], m)
  <2> SUFFICES ASSUME NEW m \in M
               PROVE  D[m % HistoricSize] = Note("ONGOING", c.links[id - m], m)
    OBVIOUS
  <2> DEFINE s == m % HistoricSize
             n == CHOOSE n \in Found(s) : TRUE
  <2>1. s \in Slots /\ historic[s].id \in Nat /\ historic[s].id <= pkt_rcv_id
    BY <1>5
  <2>2. m \in Found(s)
    BY <1>3, <2>1
  <2>3. n \in Found(s)
    BY <2>2
  <2>4. n = m
    BY <1>4, <2>3
  <2> HIDE DEF n, s
  <2>5. D[s] = Note("ONGOING", c.links[id - n], n)
    BY <1>6, <2>1, <2>2 DEF n
  <2> QED
    BY <2>4, <2>5 DEF s
<1>9. \A s \in Slots : (\A m \in M : s # m % HistoricSize) => D[s] = historic[s]
  BY <1>6
<1>10. D \in [Slots -> type]
  <2> SUFFICES ASSUME NEW s \in Slots PROVE D[s] \in type
    BY <1>7
  <2>1. CASE \A m \in M : s # m % HistoricSize
    BY <1>9, <2>1
  <2>2. CASE \E m \in M : s = m % HistoricSize
    <3>1. PICK m \in M : s = m % HistoricSize
      BY <2>2
    <3>2. c.links[id - m] \in Ends /\ m \in Nat
      BY <1>1, <1>3
    <3>3. "ONGOING" \in States
      BY DEF States
    <3> QED
      BY <1>8, <3>1, <3>2, <3>3, NoteFields
  <2> QED
    BY <2>1, <2>2
<1> DEFINE s0 == id % HistoricSize
           own == Note(IF historic[s0].id = id THEN "DONE" ELSE "IN_ORDER", l, id)
<1>11. D[s0] = historic[s0]
  BY <1>2, <1>5, <1>9 DEF id
<1>12. own \in type
  <2>1. (IF historic[s0].id = id THEN "DONE" ELSE "IN_ORDER") \in States /\ l \in Ends /\ id \in Nat
    BY <1>1 DEF States, Ends
  <2> QED
    BY <2>1, NoteFields
<1>13. h = [D EXCEPT ![s0] = own]
  <2>1. h = [D EXCEPT ![s0] = Note(IF D[s0].id = id THEN "DONE" ELSE "IN_ORDER", l, id)]
    BY DEF Recorded, D, M, id
  <2> QED
    BY <1>11, <2>1
<1> HIDE DEF own
<1>14. /\ h \in [Slots -> type] /\ h[s0] = own
       /\ \A s \in Slots : s # s0 => h[s] = D[s]
  BY <1>2, <1>10, <1>12, <1>13 DEF id
<1> QED
  BY <1>3, <1>5, <1>8, <1>9, <1>14 DEF id, M, own

(* The cell that comes keeps the notes right. *)
LEMMA NotesHeard ==
  ASSUME NEW c \in Cells, NEW l \in Links, NEW lg, IsLog(lg), base \in Nat,
         Genuine(c, l, sentOn, base), \A i \in 1 .. Len(lg) : lg[i] # c.place,
         Notes(historic, lg, base, sentOn, pkt_rcv_id),
         NEW h, h = Recorded(Detected(historic, c, MissingBefore(c.id)), c.id, l),
         NEW lg2, lg2 = Append(lg, c.place), NEW r, r = Newest(c.id)
  PROVE  Notes(h, lg2, base, sentOn, r)
<1> DEFINE id == c.id
           M == MissingBefore(id)
           s0 == id % HistoricSize
           At(p) == p % HistoricSize
<1>1. /\ pkt_rcv_id \in Nat
      /\ \A i \in 1 .. Len(lg) : NumberAt(lg, base, i) <= pkt_rcv_id
      /\ pkt_rcv_id > 0 => HasCome(lg, base, pkt_rcv_id)
      /\ historic \in [Slots -> [state : States, link : Ends, id : Nat]]
      /\ \A s \in Slots : /\ historic[s].id \in Nat /\ historic[s].state \in States
                          /\ historic[s].id <= pkt_rcv_id
                          /\ historic[s].id > 0 => historic[s].id % HistoricSize = s
  BY DEF Notes, Slotted
<1>2. ChargedIn(historic, lg, base, sentOn) /\ NoticedIn(historic, lg, base, sentOn, pkt_rcv_id)
  BY DEF Notes
<1>3. /\ id \in Nat \ {0} /\ c.place \in Nat \ {0} /\ id = Number(c.place, base)
      /\ c.links \in [Past -> Ends]
      /\ sentOn[c.place].link = l
      /\ \A i \in Past : i < id => c.links[i] = sentOn[c.place - i].link
      /\ HistoricSize \in Nat \ {0}
  BY ParametersAre DEF Cells, Genuine
<1>4. /\ h \in [Slots -> [state : States, link : Ends, id : Nat]]
      /\ \A m \in M : /\ m \in Nat /\ pkt_rcv_id < m /\ m < id /\ id - m \in Past
                      /\ id < m + HistoricSize
                      /\ h[At(m)] = Note("ONGOING", c.links[id - m], m)
      /\ h[s0] = Note(IF historic[s0].id = id THEN "DONE" ELSE "IN_ORDER", l, id)
      /\ \A s \in Slots : h[s] = historic[s] \/ s = s0 \/ \E m \in M : s = At(m)
  BY <1>1, NotesAfter
<1>5. s0 \in Slots /\ \A m \in M : At(m) \in Slots
  BY <1>3, <1>4, SlotIs
<1>6. r = IF id > pkt_rcv_id THEN id ELSE pkt_rcv_id
  BY DEF Newest
<1>7. r \in Nat /\ id <= r /\ pkt_rcv_id <= r
  BY <1>1, <1>3, <1>6
<1>8. id > base => c.place = base + id
  BY <1>3 DEF Number
<1>9. \A m \in (pkt_rcv_id + 1) .. (id - 1) : id - m \in Past => m \in M
  BY DEF MissingBefore
<1> HIDE DEF id, M
<1>10. /\ Len(lg) \in Nat /\ Len(lg2) = Len(lg) + 1
       /\ \A i \in 1 .. Len(lg) : NumberAt(lg2, base, i) = NumberAt(lg, base, i)
       /\ NumberAt(lg2, base, Len(lg) + 1) = id
  <2>1. lg \in Seq(Nat) /\ c.place \in Nat
    BY <1>3 DEF IsLog
  <2>2. /\ Len(lg) \in Nat /\ Len(lg2) = Len(lg) + 1 /\ lg2[Len(lg) + 1] = c.place
        /\ \A i \in 1 .. Len(lg) : lg2[i] = lg[i]
    BY <2>1, Appended
  <2> QED
    BY <1>3, <2>2 DEF NumberAt
<1>11. \A i \in 1 .. Len(lg2) : i \in 1 .. Len(lg) \/ i = Len(lg) + 1
  BY <1>10
<1>12. /\ HasCome(lg2, base, id)
       /\ \A p : HasCome(lg, base, p) => HasCome(lg2, base, p)
  <2>1. Len(lg) + 1 \in 1 .. Len(lg2) /\ \A i \in 1 .. Len(lg) : i \in 1 .. Len(lg2)
    BY <1>10
  <2> QED
    BY <1>10, <2>1 DEF HasCome
(* A number that is not that of the cell, with what OtherArrival says. *)
<1>13. ASSUME NEW p \in Nat, p > base, p # id
       PROVE  /\ HasCome(lg2, base, p) <=> HasCome(lg, base, p)
              /\ NamedIn(lg, base, p) => NamedIn(lg2, base, p)
              /\ TakenIn(lg, base, p) => TakenIn(lg2, base, p)
              /\ HasCome(lg, base, p) => (NamedIn(lg2, base, p) <=> NamedIn(lg, base, p))
              /\ ~ HasCome(lg, base, p) /\ Overtook(lg, base, p) # {}
                   => (NamedIn(lg2, base, p) <=> NamedIn(lg, base, p))
              /\ ~ HasCome(lg, base, p) /\ Overtook(lg, base, p) = {}
                   => (NamedIn(lg2, base, p) <=> id > p /\ id - p \in Past)
              /\ ~ HasCome(lg, base, p) /\ id >= p + HistoricSize => TakenIn(lg2, base, p)
              /\ ~ HasCome(lg, base, p) /\ Overtook(lg, base, p) # {} /\ id < p
                   /\ At(id) = At(p) => TakenIn(lg2, base, p)
  <2> DEFINE x == c.place
  <2>1. x \in Nat \ {0} /\ (\A i \in 1 .. Len(lg) : lg[i] # x) /\ lg2 = Append(lg, x)
    BY <1>3
  <2>2. id = Number(x, base)
    BY <1>3
  <2> HIDE DEF x
  <2>3. AfterOther(lg, lg2, base, id, p)
    BY <1>13, <2>1, <2>2, OtherArrival
  <2> QED
    BY <2>3 DEF AfterOther
<1>14. id > base => /\ ~ HasCome(lg, base, id)
                    /\ NamedIn(lg2, base, id) <=> NamedIn(lg, base, id)
                    /\ TakenIn(lg2, base, id) <=> TakenIn(lg, base, id)
  <2> SUFFICES ASSUME id > base
               PROVE  /\ ~ HasCome(lg, base, id)
                      /\ NamedIn(lg2, base, id) <=> NamedIn(lg, base, id)
                      /\ TakenIn(lg2, base, id) <=> TakenIn(lg, base, id)
    OBVIOUS
  <2> DEFINE x == c.place
  <2>1. x \in Nat \ {0} /\ (\A i \in 1 .. Len(lg) : lg[i] # x) /\ lg2 = Append(lg, x)
    BY <1>3
  <2>2. id = Number(x, base)
    BY <1>3
  <2> HIDE DEF x
  <2> QED
    BY <2>1, <2>2, OwnArrival
<1>15. ASSUME NEW p \in Nat, p > base, p > pkt_rcv_id
       PROVE  ~ HasCome(lg, base, p) /\ Overtook(lg, base, p) = {}
  BY <1>1, <1>15, NoneAbove
<1>16. ASSUME NEW m \in M, m > base
       PROVE  /\ h[At(m)] = Note("ONGOING", sentOn[base + m].link, m)
              /\ ~ HasCome(lg2, base, m) /\ NamedIn(lg2, base, m)
  <2>1. /\ m \in Nat /\ pkt_rcv_id < m /\ m < id /\ id - m \in Past
        /\ h[At(m)] = Note("ONGOING", c.links[id - m], m)
    BY <1>4
  <2>2. id - m < id /\ c.place - (id - m) = base + m
    <3>1. id \in Nat /\ base \in Nat
      BY <1>1, <1>3
    <3>2. id > base
      BY <1>16, <2>1, <3>1
    <3>3. c.place = base + id
      BY <1>8, <3>2
    <3>4. m \in Nat /\ m > base
      BY <1>16, <2>1
    <3>5. \A i, b, n \in Nat : n > b => i - n < i /\ (b + i) - (i - n) = b + n
      OBVIOUS
    <3> HIDE DEF M
    <3> QED
      BY <3>1, <3>3, <3>4, <3>5
  <2>3. c.links[id - m] = sentOn[base + m].link
    BY <1>3, <2>1, <2>2
  <2>4. ~ HasCome(lg, base, m) /\ Overtook(lg, base, m) = {}
    BY <1>15, <1>16, <2>1
  <2>5. m # id
    BY <1>3, <2>1
  <2> QED
    BY <1>13, <1>16, <2>1, <2>3, <2>4, <2>5
<1>17. Slotted(h, lg2, base, r)
  <2>1. ASSUME NEW i \in 1 .. Len(lg2) PROVE NumberAt(lg2, base, i) <= r
    <3>1. CASE i \in 1 .. Len(lg)
      <4>1. NumberAt(lg2, base, i) <= pkt_rcv_id /\ NumberAt(lg2, base, i) \in Nat
        BY <1>1, <1>10, <3>1, NumbersAre
      <4> QED
        BY <1>1, <1>7, <4>1
    <3> QED
      BY <1>7, <1>10, <1>11, <3>1
  <2>2. HasCome(lg2, base, r)
    BY <1>1, <1>3, <1>6, <1>12
  <2>3. ASSUME NEW s \in Slots
        PROVE  h[s].id <= r /\ (h[s].id > 0 => h[s].id % HistoricSize = s)
    <3>1. CASE h[s] = historic[s]
      <4>1. historic[s].id \in Nat /\ historic[s].id <= pkt_rcv_id
        BY <1>1
      <4> QED
        BY <1>1, <1>7, <3>1, <4>1
    <3>2. CASE s = s0
      BY <1>4, <1>7, <3>2, NoteFields
    <3>3. ASSUME NEW m \in M, s = At(m)
          PROVE  h[s].id <= r /\ (h[s].id > 0 => h[s].id % HistoricSize = s)
      <4>1. h[s].id = m
        BY <1>4, <3>3, NoteFields
      <4>2. m \in Nat /\ m < id
        BY <1>4
      <4>3. m <= r
        BY <1>3, <1>7, <4>2
      <4> QED
        BY <3>3, <4>1, <4>3
    <3> QED
      BY <1>4, <3>1, <3>2, <3>3
  <2> QED
    BY <1>4, <1>7, <2>1, <2>2, <2>3 DEF Slotted
<1>18. ChargedIn(h, lg2, base, sentOn)
  <2> SUFFICES ASSUME NEW s \in Slots, h[s].id > base
               PROVE  ChargedFor(h[s], lg2, base, sentOn)
    BY DEF ChargedIn
  <2>1. CASE s = s0
    <3> DEFINE st == IF historic[s0].id = id THEN "DONE" ELSE "IN_ORDER"
    <3>1. h[s].id = id /\ h[s].link = l /\ h[s].state = st
      BY <1>4, <2>1, NoteFields
    <3>2. id > base
      BY <3>1
    <3>3. h[s].link = sentOn[base + id].link
      BY <1>3, <1>8, <3>1, <3>2
    <3>4. st # "ONGOING"
      OBVIOUS
    <3>5. ASSUME st \in {"ONGOING", "DONE"} PROVE NamedIn(lg2, base, id)
      <4>1. historic[s0].id = id
        BY <3>5
      <4>2. ChargedFor(historic[s0], lg, base, sentOn)
        BY <1>2, <1>5, <3>2, <4>1 DEF ChargedIn
      <4>3. historic[s0].state \in {"ONGOING", "DONE"}
        BY <1>14, <3>2, <4>1, <4>2 DEF ChargedFor
      <4>4. NamedIn(lg, base, id)
        BY <4>1, <4>2, <4>3 DEF ChargedFor
      <4> QED
        BY <1>14, <3>2, <4>4
    <3>6. ASSUME st = "IN_ORDER" PROVE ~ NamedIn(lg2, base, id) \/ TakenIn(lg2, base, id)
      <4>1. historic[s0].id # id
        BY <3>6
      <4>2. CASE id > pkt_rcv_id
        <5>1. Overtook(lg, base, id) = {}
          BY <1>3, <1>15, <3>2, <4>2
        <5> QED
          BY <1>14, <3>2, <5>1 DEF NamedIn
      <4>3. CASE ~ (id > pkt_rcv_id)
        <5>1. id \in (base + 1) .. pkt_rcv_id
          BY <1>1, <1>3, <3>2, <4>3
        <5>2. ~ HasCome(lg, base, id)
          BY <1>14, <3>2
        <5>3. NamedIn(lg, base, id) =>
                \/ historic[s0] = Note("ONGOING", sentOn[base + id].link, id)
                \/ TakenIn(lg, base, id)
          BY <1>2, <5>1, <5>2 DEF NoticedIn
        <5>4. historic[s0] # Note("ONGOING", sentOn[base + id].link, id)
          BY <4>1, NoteFields
        <5> QED
          BY <1>14, <3>2, <5>3, <5>4
      <4> QED
        BY <4>2, <4>3
    <3> HIDE DEF st
    <3> QED
      BY <1>12, <3>1, <3>3, <3>4, <3>5, <3>6 DEF ChargedFor
  <2>2. ASSUME NEW m \in M, s = At(m) PROVE ChargedFor(h[s], lg2, base, sentOn)
    <3>1. h[s].id = m /\ h[s].state = "ONGOING"
      BY <1>4, <2>2, NoteFields
    <3>2. m > base
      BY <3>1
    <3>3. /\ h[s] = Note("ONGOING", sentOn[base + m].link, m)
          /\ ~ HasCome(lg2, base, m) /\ NamedIn(lg2, base, m)
      BY <1>16, <2>2, <3>2
    <3>4. h[s].link = sentOn[base + m].link
      BY <3>3, NoteFields
    <3> QED
      BY <3>1, <3>3, <3>4 DEF ChargedFor
  <2>3. CASE h[s] = historic[s] /\ s # s0
    <3> DEFINE p == h[s].id
    <3>1. p \in Nat /\ p > base /\ historic[s].id = p /\ historic[s].state \in States
      BY <1>1, <2>3
    <3>2. p % HistoricSize = s
      BY <1>1, <2>3, <3>1
    <3>3. p # id
      BY <2>3, <3>2
    <3>4. ChargedFor(historic[s], lg, base, sentOn)
      BY <1>2, <3>1 DEF ChargedIn
    <3> HIDE DEF p
    <3>5. /\ HasCome(lg2, base, p) <=> HasCome(lg, base, p)
          /\ NamedIn(lg, base, p) => NamedIn(lg2, base, p)
          /\ TakenIn(lg, base, p) => TakenIn(lg2, base, p)
          /\ HasCome(lg, base, p) => (NamedIn(lg2, base, p) <=> NamedIn(lg, base, p))
      BY <1>13, <3>1, <3>3
    <3>6. /\ historic[s].link = sentOn[base + p].link
          /\ HasCome(lg, base, p) <=> historic[s].state # "ONGOING"
          /\ historic[s].state \in {"ONGOING", "DONE"} => NamedIn(lg, base, p)
          /\ historic[s].state = "IN_ORDER" => ~ NamedIn(lg, base, p) \/ TakenIn(lg, base, p)
      BY <3>1, <3>4 DEF ChargedFor
    <3>7. "IN_ORDER" # "ONGOING"
      OBVIOUS
    <3>8. h[s].id = p
      BY DEF p
    <3> QED
      BY <2>3, <3>5, <3>6, <3>7, <3>8 DEF ChargedFor
  <2> QED
    BY <1>4, <2>1, <2>2, <2>3
<1>19. NoticedIn(h, lg2, base, sentOn, r)
  <2> SUFFICES ASSUME NEW p \in (base + 1) .. r, ~ HasCome(lg2, base, p), NamedIn(lg2, base, p)
               PROVE  \/ h[At(p)] = Note("ONGOING", sentOn[base + p].link, p)
                      \/ TakenIn(lg2, base, p)
    BY DEF NoticedIn
  <2>1. p \in Nat /\ p > base /\ p <= r
    BY <1>7
  <2>2. p # id
    BY <1>12
  <2>3. ~ HasCome(lg, base, p)
    BY <1>13, <2>1, <2>2
  <2>4. CASE p \in M
    BY <1>16, <2>1, <2>4
  <2>5. CASE p \notin M /\ p > pkt_rcv_id
    <3>1. r = id /\ p < id /\ p \in (pkt_rcv_id + 1) .. (id - 1)
      BY <1>1, <1>3, <1>6, <2>1, <2>2, <2>5
    <3>2. ~ (id - p \in Past)
      BY <1>9, <2>5, <3>1
    <3>3. Overtook(lg, base, p) = {}
      BY <1>15, <2>1, <2>5
    <3> QED
      BY <1>13, <2>1, <2>2, <2>3, <3>2, <3>3
  <2>6. CASE p \notin M /\ p <= pkt_rcv_id
    <3>1. HasCome(lg, base, pkt_rcv_id) /\ p # pkt_rcv_id
      BY <1>1, <2>1, <2>3, <2>6
    <3>2. p < pkt_rcv_id
      BY <1>1, <2>1, <2>6, <3>1
    <3>3. Overtook(lg, base, p) # {}
      BY <1>1, <2>1, <2>3, <3>1, <3>2, SomeAbove
    <3>4. NamedIn(lg, base, p)
      BY <1>13, <2>1, <2>2, <2>3, <3>3
    <3>5. p \in (base + 1) .. pkt_rcv_id
      BY <1>1, <2>1, <2>6
    <3>6. \/ historic[At(p)] = Note("ONGOING", sentOn[base + p].link, p)
          \/ TakenIn(lg, base, p)
      BY <1>2, <2>3, <3>4, <3>5 DEF NoticedIn
    <3>7. CASE TakenIn(lg, base, p)
      BY <1>13, <2>1, <2>2, <3>7
    <3>8. CASE historic[At(p)] = Note("ONGOING", sentOn[base + p].link, p)
      <4>1. At(p) \in Slots
        BY <2>1, SlotIs
      <4>2. CASE h[At(p)] = historic[At(p)]
        BY <3>8, <4>2
      <4>3. CASE At(p) = s0
        <5>1. CASE id < p
          BY <1>13, <2>1, <2>2, <2>3, <3>3, <4>3, <5>1
        <5>2. CASE p < id
          <6>1. p + HistoricSize <= id
            BY <1>3, <2>1, <4>3, <5>2, SameSlot
          <6>2. id >= p + HistoricSize
            BY <1>3, <2>1, <6>1
          <6> QED
            BY <1>13, <2>1, <2>2, <2>3, <6>2
        <5> QED
          BY <1>3, <2>1, <2>2, <5>1, <5>2
      <4>4. ASSUME NEW m \in M, At(p) = At(m) PROVE TakenIn(lg2, base, p)
        <5>1. m \in Nat /\ pkt_rcv_id < m /\ m < id
          BY <1>4
        <5>2. p < m
          BY <1>1, <2>1, <2>6, <5>1
        <5>3. p + HistoricSize <= m
          BY <1>3, <2>1, <4>4, <5>1, <5>2, SameSlot
        <5>4. id >= p + HistoricSize
          BY <1>3, <2>1, <5>1, <5>3
        <5> QED
          BY <1>13, <2>1, <2>2, <2>3, <5>4
      <4> QED
        BY <1>4, <4>1, <4>2, <4>3, <4>4
    <3> QED
      BY <3>6, <3>7, <3>8
  <2> QED
    BY <1>1, <2>1, <2>4, <2>5, <2>6
<1> QED
  BY <1>17, <1>18, <1>19 DEF Notes

-----------------------------------------------------------------------------
(* The steps.                                                              *)

NotesInv == Notes(historic, log, base, sentOn, pkt_rcv_id)

LEMMA LogIs ==
  ASSUME Transport
  PROVE  /\ IsLog(log) /\ base \in Nat /\ Len(sentOn) \in Nat
         /\ \A i \in 1 .. Len(log) : log[i] \in 1 .. Len(sentOn)
<1>1. \A i \in 1 .. Len(log) : log[i] \in 1 .. Len(sentOn)
  BY DEF Transport, Wiring, Pending
<1>2. \A i \in 1 .. Len(log) : log[i] > 0
  BY <1>1
<1>3. sentOn \in Seq(Sent) /\ base \in Nat
  BY DEF Transport, Wiring, Ring, Counters
<1>4. Len(sentOn) \in Nat
  BY <1>3
<1> QED
  BY <1>1, <1>2, <1>3, <1>4 DEF Transport, Arrivals, IsLog

LEMMA InitNotes == Init => NotesInv
<1> SUFFICES ASSUME Init PROVE NotesInv
  OBVIOUS
<1>1. /\ base = 0 /\ sentOn = <<>> /\ log = <<>> /\ pkt_rcv_id = 0
      /\ historic = [s \in Slots |-> Note("IN_ORDER", 0, 0)]
  BY DEF Init
<1>2. Len(log) = 0
  BY <1>1
<1>3. 0 \in Ends /\ "IN_ORDER" \in States
  BY ParametersAre DEF Ends, Links, States
<1>4. Note("IN_ORDER", 0, 0) \in [state : States, link : Ends, id : Nat]
  BY <1>3, NoteFields
<1>5. \A s \in Slots : historic[s] = Note("IN_ORDER", 0, 0) /\ historic[s].id = 0
  BY <1>1, NoteFields
<1>6. Slotted(historic, log, base, pkt_rcv_id)
  BY <1>1, <1>2, <1>4, <1>5 DEF Slotted
<1>7. ChargedIn(historic, log, base, sentOn)
  BY <1>1, <1>5 DEF ChargedIn
<1>8. NoticedIn(historic, log, base, sentOn, pkt_rcv_id)
  BY <1>1 DEF NoticedIn
<1> QED
  BY <1>6, <1>7, <1>8 DEF NotesInv, Notes

(* Where more cells are sent, what is known of the earlier ones stays. *)
LEMMA OnDatagramNotes ==
  ASSUME Transport, NotesInv, OnDatagram
  PROVE  NotesInv'
<1>1. /\ base' = base /\ historic' = historic /\ log' = log /\ pkt_rcv_id' = pkt_rcv_id
  BY DEF OnDatagram, receiver
<1>2. /\ Len(sentOn') >= Len(sentOn) /\ \A p \in 1 .. Len(sentOn) : sentOn'[p] = sentOn[p]
  BY OnDatagramTransport
<1>3. /\ IsLog(log) /\ base \in Nat /\ Len(sentOn) \in Nat
      /\ \A i \in 1 .. Len(log) : log[i] \in 1 .. Len(sentOn)
  BY LogIs
<1>4. /\ Slotted(historic, log, base, pkt_rcv_id) /\ ChargedIn(historic, log, base, sentOn)
      /\ NoticedIn(historic, log, base, sentOn, pkt_rcv_id)
  BY DEF NotesInv, Notes
<1>5. /\ pkt_rcv_id \in Nat
      /\ pkt_rcv_id > 0 => HasCome(log, base, pkt_rcv_id)
      /\ \A s \in Slots : historic[s].id \in Nat /\ historic[s].id <= pkt_rcv_id
  BY <1>4 DEF Slotted
<1>6. ASSUME NEW p \in Nat, p > base, p <= pkt_rcv_id
      PROVE  sentOn'[base + p] = sentOn[base + p]
  <2>1. pkt_rcv_id > base /\ pkt_rcv_id > 0
    BY <1>3, <1>5, <1>6
  <2>2. PICK i \in 1 .. Len(log) : NumberAt(log, base, i) = pkt_rcv_id
    BY <1>5, <2>1 DEF HasCome
  <2>3. log[i] = base + pkt_rcv_id
    BY <1>3, <1>5, <2>1, <2>2, NumbersAre
  <2>4. log[i] \in 1 .. Len(sentOn)
    BY <1>3
  <2>5. base + p \in 1 .. Len(sentOn)
    BY <1>3, <1>5, <1>6, <2>3, <2>4
  <2> QED
    BY <1>2, <2>5
<1>7. ChargedIn(historic, log, base, sentOn')
  <2> SUFFICES ASSUME NEW s \in Slots, historic[s].id > base
               PROVE  ChargedFor(historic[s], log, base, sentOn')
    BY DEF ChargedIn
  <2>1. ChargedFor(historic[s], log, base, sentOn)
    BY <1>4 DEF ChargedIn
  <2>2. sentOn'[base + historic[s].id] = sentOn[base + historic[s].id]
    BY <1>5, <1>6
  <2> QED
    BY <2>1, <2>2 DEF ChargedFor
<1>8. NoticedIn(historic, log, base, sentOn', pkt_rcv_id)
  <2>1. \A p \in (base + 1) .. pkt_rcv_id : p \in Nat /\ p > base /\ p <= pkt_rcv_id
    BY <1>3, <1>5
  <2>2. \A p \in (base + 1) .. pkt_rcv_id : sentOn'[base + p] = sentOn[base + p]
    BY <1>6, <2>1
  <2> QED
    BY <1>4, <2>2 DEF NoticedIn
<1> QED
  BY <1>1, <1>4, <1>7, <1>8 DEF NotesInv, Notes

LEMMA OnStreamNotes ==
  ASSUME Transport, NotesInv, NEW l \in Links, OnStream(l)
  PROVE  NotesInv'
<1> DEFINE c == Head(chan[l])
<1>1. /\ historic' = Recorded(Detected(historic, c, MissingBefore(c.id)), c.id, l)
      /\ pkt_rcv_id' = Newest(c.id) /\ log' = Append(log, c.place)
  BY DEF OnStream
<1>2. base' = base /\ sentOn' = sentOn
  BY DEF OnStream, sender
<1>3. /\ c \in Cells /\ Genuine(c, l, sentOn, base)
      /\ \A j \in 1 .. Len(log) : log[j] # c.place
  BY OnStreamTransport
<1>4. IsLog(log) /\ base \in Nat
  BY LogIs
<1>5. Notes(historic, log, base, sentOn, pkt_rcv_id)
  BY DEF NotesInv
<1> HIDE DEF c
<1>6. Notes(historic', log', base, sentOn, pkt_rcv_id')
  BY <1>1, <1>3, <1>4, <1>5, NotesHeard
<1> QED
  BY <1>2, <1>6 DEF NotesInv

(* After a restart no number that came is one of the new run's. *)
LEMMA RestartNotes ==
  ASSUME Transport, NotesInv, Restart
  PROVE  NotesInv'
<1>1. base = 0 /\ base' = Len(sentOn) /\ sentOn' = sentOn
  BY RestartTransport
<1>2. historic' = historic /\ log' = log /\ pkt_rcv_id' = pkt_rcv_id
  BY DEF Restart, receiver
<1>3. /\ IsLog(log) /\ Len(sentOn) \in Nat
      /\ \A i \in 1 .. Len(log) : log[i] \in 1 .. Len(sentOn)
  BY LogIs
<1>4. Slotted(historic, log, base, pkt_rcv_id)
  BY DEF NotesInv, Notes
<1>5. \A i \in 1 .. Len(log) : /\ NumberAt(log, base', i) = log[i]
                               /\ NumberAt(log, base, i) = log[i]
  BY <1>1, <1>3 DEF NumberAt, Number
<1>6. \A p : HasCome(log, base', p) <=> HasCome(log, base, p)
  BY <1>5 DEF HasCome
<1>7. Slotted(historic, log, base', pkt_rcv_id)
  BY <1>4, <1>5, <1>6 DEF Slotted
<1>8. pkt_rcv_id \in Nat /\ pkt_rcv_id <= base'
  <2>1. pkt_rcv_id \in Nat /\ (pkt_rcv_id > 0 => HasCome(log, base, pkt_rcv_id))
    BY <1>4 DEF Slotted
  <2>2. CASE pkt_rcv_id > 0
    <3>1. PICK i \in 1 .. Len(log) : log[i] = pkt_rcv_id
      BY <1>5, <2>1, <2>2 DEF HasCome
    <3> QED
      BY <1>1, <1>3, <2>1, <3>1
  <2> QED
    BY <1>1, <1>3, <2>1, <2>2
<1>9. ChargedIn(historic, log, base', sentOn)
  <2>1. \A s \in Slots : historic[s].id \in Nat /\ historic[s].id <= pkt_rcv_id
    BY <1>4 DEF Slotted
  <2>2. \A s \in Slots : ~ (historic[s].id > base')
    BY <1>1, <1>3, <1>8, <2>1
  <2> QED
    BY <2>2 DEF ChargedIn
<1>10. NoticedIn(historic, log, base', sentOn, pkt_rcv_id)
  <2>1. (base' + 1) .. pkt_rcv_id = {}
    BY <1>1, <1>3, <1>8
  <2> QED
    BY <2>1 DEF NoticedIn
<1> QED
  BY <1>1, <1>2, <1>7, <1>9, <1>10 DEF NotesInv, Notes

LEMMA NextNotes == Transport /\ NotesInv /\ [Next]_vars => NotesInv'
<1> SUFFICES ASSUME Transport, NotesInv, [Next]_vars PROVE NotesInv'
  OBVIOUS
<1>1. CASE OnDatagram
  BY <1>1, OnDatagramNotes
<1>2. CASE Restart
  BY <1>2, RestartNotes
<1>3. ASSUME NEW l \in Links, OnStream(l) PROVE NotesInv'
  BY <1>3, OnStreamNotes
<1>4. ASSUME NEW l \in Links, Break(l) PROVE NotesInv'
  BY <1>4 DEF Break, sender, receiver, NotesInv
<1>5. CASE UNCHANGED vars
  BY <1>5 DEF vars, sender, receiver, NotesInv
<1> QED
  BY <1>1, <1>2, <1>3, <1>4, <1>5 DEF Next

(* The properties of the runs, in the words of the invariant. *)
LEMMA SameWords ==
  ASSUME Transport
  PROVE  /\ \A i : Came(i) = NumberAt(log, base, i)
         /\ \A p : Arrived(p) <=> HasCome(log, base, p)
         /\ \A p : Named(p) <=> NamedIn(log, base, p)
         /\ \A p : SlotTaken(p) <=> TakenIn(log, base, p)
<1>1. DOMAIN log = 1 .. Len(log)
  <2>1. log \in Seq(Nat)
    BY DEF Transport, Arrivals
  <2> QED
    BY <2>1
<1>2. \A i : Came(i) = NumberAt(log, base, i)
  BY DEF Came, NumberAt, Number
<1>3. \A p : Arrived(p) <=> HasCome(log, base, p)
  BY <1>1, <1>2 DEF Arrived, HasCome
<1>4. \A p : Place(p) = PlaceIn(log, base, p)
  <2> SUFFICES ASSUME NEW p PROVE Place(p) = PlaceIn(log, base, p)
    OBVIOUS
  <2> DEFINE Choice(D) ==
               CHOOSE i \in D : (IF log[i] > base THEN log[i] - base ELSE log[i]) = p
  <2>1. Place(p) = IF Arrived(p) THEN Choice(DOMAIN log) ELSE Len(log) + 1
    BY DEF Place, Came
  <2>2. PlaceIn(log, base, p)
          = IF HasCome(log, base, p) THEN Choice(1 .. Len(log)) ELSE Len(log) + 1
    BY DEF PlaceIn, NumberAt, Number
  <2> HIDE DEF Choice
  <2> QED
    BY <1>1, <1>3, <2>1, <2>2
<1>5. \A p : Overtaking(p) = Overtook(log, base, p)
  BY <1>2, <1>4 DEF Overtaking, Overtook
<1>6. \A p : Named(p) <=> NamedIn(log, base, p)
  BY <1>2, <1>5 DEF Named, NamedIn
<1>7. \A p : SlotTaken(p) <=> TakenIn(log, base, p)
  BY <1>2, <1>4, <1>5 DEF SlotTaken, TakenIn
<1> QED
  BY <1>2, <1>3, <1>6, <1>7

LEMMA NotesMean == Transport /\ NotesInv => Charged /\ MissingNoticed
<1> SUFFICES ASSUME Transport, NotesInv PROVE Charged /\ MissingNoticed
  OBVIOUS
<1>1. /\ ChargedIn(historic, log, base, sentOn)
      /\ NoticedIn(historic, log, base, sentOn, pkt_rcv_id)
  BY DEF NotesInv, Notes
<1>2. Charged
  <2> SUFFICES ASSUME NEW s \in Slots, historic[s].id > base
               PROVE  LET n == historic[s]
                      IN  /\ n.link = SentAs(n.id).link
                          /\ Arrived(n.id) <=> n.state # "ONGOING"
                          /\ n.state \in {"ONGOING", "DONE"} => Named(n.id)
                          /\ n.state = "IN_ORDER" => ~ Named(n.id) \/ SlotTaken(n.id)
    BY Zenon DEF Charged
  <2>1. ChargedFor(historic[s], log, base, sentOn)
    BY <1>1 DEF ChargedIn
  <2> QED
    BY <2>1, SameWords DEF ChargedFor, SentAs
<1>3. MissingNoticed
  BY <1>1, SameWords DEF NoticedIn, MissingNoticed, Numbers, SentAs
<1> QED
  BY <1>2, <1>3

(* A link is charged with its own cells only, from what the cells say      *)
(* (send_message) through the detection of a gap to the note that a late   *)
(* cell leaves (monitoring), in any order of arrival across the links.     *)
THEOREM LinksAreCharged == Spec => []Charged
  BY InitTransport, NextTransport, InitNotes, NextNotes, NotesMean, PTL DEF Spec

(* A gap that a cell can tell of is noted, and stays so until the missing  *)
(* cell comes or another takes its slot.                                   *)
THEOREM MissingIsNoticed == Spec => []MissingNoticed
  BY InitTransport, NextTransport, InitNotes, NextNotes, NotesMean, PTL DEF Spec

=============================================================================
