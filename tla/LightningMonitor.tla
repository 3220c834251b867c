--------------------------- MODULE LightningMonitor ---------------------------
(***************************************************************************)
(* One direction of the tunnel under the lightning algorithm,              *)
(* src/algo_lightning.c: what it puts in a cell and what the other end     *)
(* makes of it.                                                            *)
(*                                                                         *)
(* A cell carries a datagram and, as far as there is room, those before    *)
(* it, which the sender keeps for that.  It also carries a number and the  *)
(* links that the cells just before it were sent over.  The receiver       *)
(* notices a cell that others overtake, blames the link the sender named   *)
(* for it, and notes when it comes after all.  The notes are kept in a     *)
(* ring, by number; module LightningSched takes what they say of a link as *)
(* an arbitrary measure, and here which links it chooses is arbitrary.     *)
(*                                                                         *)
(* A link keeps the order of its cells and loses what is on its way when   *)
(* it breaks.  The sender may be restarted: it then numbers cells and      *)
(* datagrams from 1 again, while the receiver still has the numbers and    *)
(* the notes of the run before.  A handler that is called again while it   *)
(* sends is not modelled (module Proxy has that for dup2).                 *)
(***************************************************************************)
EXTENDS Integers, Sequences, FiniteSets

CONSTANTS
  TotalLinks,     (* total_links                                           *)
  SentPastLinks,  (* sent_past_links                                       *)
  MaxLinks,       (* MAX_LINKS, the size of the ring of links used last    *)
  HistoricSize,   (* HISTORIC_SIZE                                         *)
  Sizes,          (* the sizes of the datagrams that come, a sequence      *)
  Room,           (* TOR_CELL_SIZE - monit_pkt_size                        *)
  MaxPackets,     (* bound: the cells sent, in both runs of the sender     *)
  MaxUnkept       (* bound: the datagrams no copy is kept of               *)

(* The daemon does not check it, but a longer list would not fit the ring. *)
ASSUME MonitorAssumption ==
  /\ TotalLinks \in Nat \ {0} /\ TotalLinks <= MaxLinks
  /\ SentPastLinks \in 0 .. MaxLinks
  /\ MaxLinks \in Nat \ {0}
  /\ HistoricSize \in Nat /\ SentPastLinks < HistoricSize
  /\ Sizes \in Seq(Nat) /\ Room \in Nat /\ MaxPackets \in Nat /\ MaxUnkept \in Nat

Links   == 0 .. (TotalLinks - 1)
Unknown == -1                                  (* UINT8_MAX *)
Slots   == 0 .. (HistoricSize - 1)
Past    == 1 .. SentPastLinks

VARIABLES
  uniq_pkt_sent_id, (* the number of the next datagram                     *)
  stored,       (* application_waiting: the datagrams the sender keeps     *)
  pkt_sent_id,  (* the number of the next cell                             *)
  prev_links,   (* the link each of the last cells was sent over           *)
  chan,         (* what is on its way on each link                         *)
  pkt_rcv_id,   (* the greatest number that has arrived                    *)
  historic,     (* the notes                                               *)
  got,          (* the datagrams the receiver has handed out               *)
  run,          (* which run of the sender this is, 1 or 2                 *)
  base,         (* history: the cells the run before this one sent         *)
  since,        (* history: the datagrams the run before this one read     *)
  unkept,       (* history: the datagrams no buffer was free to keep       *)
  sentOn,       (* history: each cell sent: its link and its datagram      *)
  log           (* history: the cells that arrived, by place in sentOn     *)

sender   == <<uniq_pkt_sent_id, stored, pkt_sent_id, prev_links, run, base, since,
              unkept, sentOn>>
receiver == <<pkt_rcv_id, historic, got, log>>

vars == <<sender, chan, receiver>>

(* links[i] is the link of cell id - i; data are datagrams, by the place   *)
(* they came at; place is the place of the cell in sentOn.                 *)
Cell(id, links, data, place) ==
  [id |-> id, links |-> links, data |-> data, place |-> place]

NoLinks == [i \in 0 .. (MaxLinks - 1) |-> IF i < SentPastLinks THEN Unknown ELSE 0]

Note(state, link, id) == [state |-> state, link |-> link, id |-> id]

Init ==
  /\ uniq_pkt_sent_id = 1 /\ stored = {}
  /\ pkt_sent_id = 1
  /\ prev_links = NoLinks
  /\ chan = [l \in Links |-> <<>>]
  /\ pkt_rcv_id = 0
  /\ historic = [s \in Slots |-> Note("IN_ORDER", 0, 0)]
  /\ got = {}
  /\ run = 1 /\ base = 0 /\ since = 0 /\ unkept = {} /\ sentOn = <<>> /\ log = <<>>

----------------------------------------------------------------------------
(* The sender.                                                             *)

(* Mutant: the list starts with the link of this cell. *)
PastLinksOff(id, prev) == [i \in Past |-> prev[(id - i + 1) % MaxLinks]]

(* The list of links that send_message appends to cell id. *)
PastLinks(id, prev) == [i \in Past |-> prev[(id - i) % MaxLinks]]

(* What send_message changes, the same for both copies of a datagram: the  *)
(* cell gets a number and the link is noted.  No cell leaves when no link  *)
(* is selected, or one without descriptor.                                 *)
SendMessage(s, l, ref, data) ==
  IF l = Unknown THEN s
  ELSE [id   |-> s.id + 1,
        prev |-> [s.prev EXCEPT ![s.id % MaxLinks] = l],
        chan |-> [s.chan EXCEPT ![l] =
                    Append(@, Cell(s.id, PastLinks(s.id, s.prev), data, base + s.id))],
        sent |-> Append(s.sent, [link |-> l, datagram |-> since + ref])]

(* The bytes of the datagrams that came at d to e. *)
Bytes(d, e) ==
  LET upTo[n \in (d - 1) .. e] == IF n < d THEN 0 ELSE upTo[n - 1] + Sizes[n]
  IN  upTo[e]

(* Mutant: one datagram more is kept. *)
CleanedLate(ref) == ref - TotalLinks - 1

(* "Clean old buffers": the datagram that leaves when ref comes. *)
Cleaned(ref) == ref - TotalLinks

(* "Append abstract packets stored in our buffers": the older datagrams,   *)
(* newest first, until one is missing or does not fit.                     *)
Padding(ref, st) ==
  {d \in 1 .. (ref - 1) : /\ d .. (ref - 1) \subseteq st
                          /\ Bytes(since + d, since + ref) <= Room}

(***************************************************************************)
(* algo_lightning_on_datagram.  A copy of the datagram is kept if there is *)
(* a buffer.  The cell goes over a fast link and over a slow one; either   *)
(* may be missing, or be without descriptor.  If no buffer was left for    *)
(* the copy and none is freed, the process does not survive the sending.   *)
(***************************************************************************)
OnDatagram ==
  /\ since + uniq_pkt_sent_id \in DOMAIN Sizes
  /\ \E keep \in BOOLEAN, fast, slow \in Links \cup {Unknown} :
       LET ref  == uniq_pkt_sent_id
           st   == (stored \cup (IF keep THEN {ref} ELSE {})) \ {Cleaned(ref)}
           data == {since + d : d \in {ref} \cup Padding(ref, st)}
           s0   == [id |-> pkt_sent_id, prev |-> prev_links, chan |-> chan, sent |-> sentOn]
           s1   == SendMessage(s0, fast, ref, data)
           s2   == SendMessage(s1, slow, ref, data)
       IN  /\ fast = slow => fast = Unknown
           /\ base + s2.id <= MaxPackets + 1
           /\ ~ keep /\ Cleaned(ref) \notin stored => fast = Unknown /\ slow = Unknown
           /\ stored' = st
           /\ unkept' = IF keep THEN unkept ELSE unkept \cup {since + ref}
           /\ Cardinality(unkept') <= MaxUnkept
           /\ pkt_sent_id' = s2.id /\ prev_links' = s2.prev /\ chan' = s2.chan
           /\ sentOn' = s2.sent
  /\ uniq_pkt_sent_id' = uniq_pkt_sent_id + 1
  /\ UNCHANGED <<run, base, since, receiver>>

----------------------------------------------------------------------------
(* The receiver.                                                           *)

(* Mutant: the one right after the greatest is not looked at. *)
MissingButNext(id) == {m \in (pkt_rcv_id + 2) .. (id - 1) : id - m \in Past}

(* The numbers below id that a packet with that number shows to be missing *)
(* and of which it names the links.                                        *)
MissingBefore(id) == {m \in (pkt_rcv_id + 1) .. (id - 1) : id - m \in Past}

(* "Detect OoO": a note for each, unless its slot has a later one. *)
Detected(h, c, missing) ==
  [s \in Slots |->
     LET m == {n \in missing : n % HistoricSize = s /\ h[s].id < n}
     IN  IF m = {} THEN h[s]
         ELSE LET n == CHOOSE n \in m : TRUE
              IN  Note("ONGOING", c.links[c.id - n], n)]

(* "Update current packet status" *)
Recorded(h, id, l) ==
  [h EXCEPT ![id % HistoricSize] =
     Note(IF @.id = id THEN "DONE" ELSE "IN_ORDER", l, id)]

(* pkt_rcv_id after a packet. *)
Newest(id) == IF id > pkt_rcv_id THEN id ELSE pkt_rcv_id

(* algo_lightning_on_stream, for a cell that comes over link l: monitoring, *)
(* then deliver, whose writer hands out every datagram of the cell.        *)
OnStream(l) ==
  /\ chan[l] # <<>>
  /\ LET c == Head(chan[l])
     IN  /\ historic' = Recorded(Detected(historic, c, MissingBefore(c.id)), c.id, l)
         /\ pkt_rcv_id' = Newest(c.id)
         /\ got' = got \cup c.data
         /\ log' = Append(log, c.place)
  /\ chan' = [chan EXCEPT ![l] = Tail(@)]
  /\ UNCHANGED sender

(* What is on its way on the links in ls is lost; what comes before the     *)
(* loss is what OnStream takes first.                                      *)
Lost(ls) == [l \in Links |-> IF l \in ls THEN <<>> ELSE chan[l]]

(* A link breaks. *)
Break(l) ==
  /\ chan[l] # <<>> /\ chan' = Lost({l})
  /\ UNCHANGED <<sender, receiver>>

(* The sender is killed and started again.  What its connections still     *)
(* hold may reach the receiver or not.                                     *)
Restart ==
  /\ run = 1 /\ run' = 2 /\ base' = Len(sentOn) /\ since' = uniq_pkt_sent_id - 1
  /\ uniq_pkt_sent_id' = 1 /\ stored' = {}
  /\ pkt_sent_id' = 1 /\ prev_links' = NoLinks
  /\ \E ls \in SUBSET Links : chan' = Lost(ls)
  /\ UNCHANGED <<unkept, sentOn, receiver>>

Next == OnDatagram \/ Restart \/ \E l \in Links : OnStream(l) \/ Break(l)

Spec == Init /\ [][Next]_vars

----------------------------------------------------------------------------
(* Properties.                                                             *)

(* The numbers above those of the run before are the numbers of this run's *)
(* cells.  What is said below of a number is said of those.                *)
Numbers   == (base + 1) .. pkt_rcv_id
SentAs(p) == sentOn[base + p]

(* The number of the cell that came at place i of the log. *)
Came(i) == IF log[i] > base THEN log[i] - base ELSE log[i]

(* Whether a number has come, and its place in the log, or that of the     *)
(* next arrival.                                                           *)
Arrived(p) == \E i \in DOMAIN log : Came(i) = p
Place(p)   == IF Arrived(p) THEN CHOOSE i \in DOMAIN log : Came(i) = p ELSE Len(log) + 1

(* The places of the cells that overtook p. *)
Overtaking(p) == {i \in 1 .. (Place(p) - 1) : Came(i) > p}

(* The first of them named the link of p. *)
Named(p) ==
  \E i \in Overtaking(p) : /\ \A j \in Overtaking(p) : i <= j
                           /\ Came(i) - p \in Past

(* Another cell took the slot of p after p was noted to be missing:        *)
(* HistoricSize newer cells were sent before p came, or one as much older  *)
(* came late.                                                              *)
SlotTaken(p) ==
  \/ \E i \in Overtaking(p) : Came(i) >= p + HistoricSize
  \/ \E i \in Overtaking(p), j \in 1 .. (Place(p) - 1) :
       i < j /\ Came(j) < p /\ Came(j) % HistoricSize = p % HistoricSize

(* No link is charged with what is not its own: a note names the link its   *)
(* cell was sent over, it says of a cell that it is missing only until it   *)
(* comes, that it came late only if it was overtaken, and that it came in   *)
(* order only if it was not, or by cells too new to name its link, or if    *)
(* its slot was taken in between.  After a restart of the sender this is so *)
(* again once its numbers pass those of the run before.                     *)
Charged ==
  \A s \in Slots :
    LET n == historic[s]
    IN  n.id > base =>
          /\ n.link = SentAs(n.id).link
          /\ Arrived(n.id) <=> n.state # "ONGOING"
          /\ n.state \in {"ONGOING", "DONE"} => Named(n.id)
          /\ n.state = "IN_ORDER" => ~ Named(n.id) \/ SlotTaken(n.id)

(* A lost or late cell does not escape: as soon as one of the SentPastLinks *)
(* cells after it comes first, it is noted to be missing, until it comes or *)
(* its slot is taken.  A restart of the sender delays this as above.        *)
MissingNoticed ==
  \A p \in Numbers :
    ~ Arrived(p) /\ Named(p) =>
      \/ historic[p % HistoricSize] = Note("ONGOING", SentAs(p).link, p)
      \/ SlotTaken(p)

(* Lightning pays for the loss of cells with room in the next ones: a       *)
(* datagram comes out exactly if its own cell arrives or that of one of the *)
(* TotalLinks - 1 datagrams after it with room for all from the one to the  *)
(* other, unless no buffer was free to keep one of them.  That the numbers  *)
(* start again when the sender does changes nothing.                        *)
Redundancy ==
  got = {d \in DOMAIN Sizes :
           \E i \in DOMAIN log :
             LET e == sentOn[log[i]].datagram
             IN  \/ d = e
                 \/ /\ d < e /\ e < d + TotalLinks /\ (d > since \/ e <= since)
                    /\ d .. (e - 1) \cap unkept = {}
                    /\ Bytes(d, e) <= Room}

============================================================================
