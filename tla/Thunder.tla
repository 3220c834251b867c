------------------------------- MODULE Thunder -------------------------------
(***************************************************************************)
(* The thunder algorithm of src/algo_thunder.c, between a client and a     *)
(* server that both send and receive.  A datagram goes over the next link, *)
(* in turn, together with those before it that fit into the cell.  A cell  *)
(* says how many turns its link had since the last one, so that the        *)
(* receiver sees which links are behind; it blacklists those that stay     *)
(* behind, at once or when a timer expires, and sends what it sends over a *)
(* blacklisted link over the next one too.                                 *)
(*                                                                         *)
(* A blacklist is that of the receiver of a direction, and is used when it *)
(* sends in the other.  How long a link has been behind decides between    *)
(* the timer and the blacklist; it is arbitrary here.  There are buffers   *)
(* enough, and both ends have the same ports open; the calls of handlers   *)
(* inside each other are in module Proxy.                                  *)
(***************************************************************************)
EXTENDS Integers, Sequences, FiniteSets

CONSTANTS
  TotalLinks, (* total_links                                               *)
  Room,       (* how many older datagrams fit into a cell                  *)
  Activated,  (* scheduler_activated                                       *)
  Starts,     (* how many datagrams each end has sent when a run starts    *)
  MaxSent,    (* bound: how many datagrams each end sends in a run         *)
  MaxBreaks   (* bound: how often a link breaks                            *)

Links == 0 .. (TotalLinks - 1)
Peers == {"client", "server"}
Other(p) == IF p = "client" THEN "server" ELSE "client"

PROBE_EVERY == 2
UINT8_MAX   == 255
UINT16_MAX  == 65535

ASSUME ThunderAssumption ==
  /\ TotalLinks \in Nat \ {0} /\ Room \in Nat /\ Activated \in BOOLEAN
  /\ Starts \subseteq 0 .. (UINT16_MAX - 1)
  /\ MaxSent \in [Peers -> Nat] /\ MaxBreaks \in Nat

VARIABLES
  emit_id,      (* [p] the identifier of the last datagram                 *)
  recv_id,      (* [p] the last identifier delivered                       *)
  stored,       (* [p] br.application_waiting: the datagrams kept          *)
  selected,     (* [p] selected_link                                       *)
  to_increment, (* [p][l] the turns of a link that no cell has told yet    *)
  received,     (* [p][l] received_pkts_on_link                            *)
  blacklisted,  (* [p][l]                                                  *)
  timers,       (* [p] the timers of on_block: a link and what it misses   *)
  up,           (* [p] the links whose URL leads to a descriptor           *)
  alive,        (* the links that are connected                            *)
  chan,         (* [p][l] the cells that p has sent and that are on their way *)
  breaks,       (* how often a link may still break                        *)
  budget,       (* [p] how many more datagrams p sends                     *)
  sent,         (* history: [p] the datagrams p has sent                   *)
  out,          (* history: [p] the newest datagram p has delivered        *)
  skipped,      (* history: [p] older ones that p has not delivered        *)
  turns,        (* history: [p] the turns p has given to links             *)
  exact         (* history: [p] no cell to p was lost, no count of p reset *)

sending   == <<emit_id, stored, selected, to_increment, sent, turns, budget>>
receiving == <<recv_id, timers, out, skipped>>
vars == <<sending, receiving, received, blacklisted, up, alive, chan, breaks, exact>>

Smaller(m, n) == IF m < n THEN m ELSE n

(* Mutant: the identifier is a plain integer. *)
DatagramNoWrap(n) == [n |-> n, id |-> n + 1]

(* A datagram, with its identifier; the first one has identifier 2. *)
Datagram(n) == [n |-> n, id |-> (n + 1) % (UINT16_MAX + 1)]

(* How many of the first n turns are those of link l. *)
TurnsOf(n, l) == (n + TotalLinks - 1 - l) \div TotalLinks

(* At the start, or when s datagrams have gone each way without trouble. *)
Init ==
  \E s \in Starts :
    /\ emit_id = [p \in Peers |-> s + 1] /\ recv_id = emit_id
    /\ stored = [p \in Peers |->
                   {Datagram(n) : n \in {n \in 1 .. s : n > s - TotalLinks}}]
    /\ selected = [p \in Peers |-> (s + TotalLinks - 1) % TotalLinks]
    /\ to_increment = [p \in Peers |-> [l \in Links |-> 0]]
    /\ received = [p \in Peers |-> [l \in Links |-> 1 + TurnsOf(s, l)]]
    /\ blacklisted = [p \in Peers |-> [l \in Links |-> 0]]
    /\ timers = [p \in Peers |-> {}]
    /\ up = [p \in Peers |-> Links] /\ alive = Links
    /\ chan = [p \in Peers |-> [l \in Links |-> <<>>]]
    /\ breaks = MaxBreaks /\ budget = MaxSent
    /\ sent = [p \in Peers |-> s] /\ out = sent
    /\ skipped = [p \in Peers |-> {}]
    /\ turns = [p \in Peers |-> s] /\ exact = [p \in Peers |-> TRUE]

is_blacklisted(p, l) == Activated /\ blacklisted[p][l] >= received[p][l]

----------------------------------------------------------------------------
(* prepare and pad                                                         *)

(* What is kept once d is stored: not the one TotalLinks before it.  (That *)
(* the identifier is taken would end the process; it takes a second wrap.) *)
Kept(p, d) ==
  {e \in stored[p] : ~ (d.id > TotalLinks /\ e.id = d.id - TotalLinks)} \cup {d}

(* The identifiers below d's that are kept without a gap, as far as they   *)
(* fit into the cell.                                                      *)
Padding(kept, d) ==
  {e \in kept : /\ e.id < d.id /\ d.id - e.id <= Room
                /\ \A i \in e.id .. d.id : \E f \in kept : f.id = i}

----------------------------------------------------------------------------
(* schedule                                                                *)

(* How many turns it takes from link s to the next one that is up. *)
Distance(p, s) ==
  CHOOSE k \in 1 .. TotalLinks :
    /\ (s + k) % TotalLinks \in up[p]
    /\ \A j \in 1 .. (k - 1) : (s + j) % TotalLinks \notin up[p]

(* Mutant: a link that is not up has no turn. *)
TurnedUp(inc, s, k) ==
  [inc EXCEPT ![(s + k) % TotalLinks] = (@ + 1) % (UINT8_MAX + 1)]

(* The turns of links after s, k in all. *)
Turned(inc, s, k) ==
  [l \in Links |->
     (inc[l] + Cardinality({j \in 1 .. k : (s + j) % TotalLinks = l})) % (UINT8_MAX + 1)]

(* Where the outer loop is: the link selected, the turns not told, the     *)
(* turns given, the cells on their way, whether all that left did so over  *)
(* a link that is connected, and whether the loop goes on.                 *)
Start(p) ==
  [sel |-> selected[p], inc |-> to_increment[p], n |-> 0, chan |-> chan[p],
   whole |-> TRUE, more |-> TRUE]

(* Mutant: a link that is passed over ends the loop. *)
IterationBreaks(p, dgs, st) ==
  LET k   == Distance(p, st.sel)
      l   == (st.sel + k) % TotalLinks
      inc == Turned(st.inc, st.sel, k)
      use == ~ is_blacklisted(p, l) \/ inc[l] >= PROBE_EVERY
  IN  [sel |-> l, inc |-> IF use THEN [inc EXCEPT ![l] = 0] ELSE inc, n |-> st.n + k,
       chan |-> IF use /\ l \in alive
                THEN [st.chan EXCEPT ![l] = Append(@, [inc |-> inc[l], dgs |-> dgs])]
                ELSE st.chan,
       whole |-> st.whole /\ (use => l \in alive),
       more |-> use /\ is_blacklisted(p, l)]

(* One iteration, when a link is up, with the datagrams dgs to send.  A    *)
(* blacklisted link is only used every PROBE_EVERY turns.                  *)
Iteration(p, dgs, st) ==
  LET k   == Distance(p, st.sel)
      l   == (st.sel + k) % TotalLinks
      inc == Turned(st.inc, st.sel, k)
      use == ~ is_blacklisted(p, l) \/ inc[l] >= PROBE_EVERY
  IN  [sel |-> l, inc |-> IF use THEN [inc EXCEPT ![l] = 0] ELSE inc, n |-> st.n + k,
       chan |-> IF use /\ l \in alive
                THEN [st.chan EXCEPT ![l] = Append(@, [inc |-> inc[l], dgs |-> dgs])]
                ELSE st.chan,
       whole |-> st.whole /\ (use => l \in alive),
       more |-> is_blacklisted(p, l)]

(* The loop, until a link is not blacklisted or `protect' is used up. *)
Loop(p, dgs) ==
  LET after[i \in 0 .. (TotalLinks + 1)] ==
        IF i = 0 THEN Start(p)
        ELSE IF after[i - 1].more THEN Iteration(p, dgs, after[i - 1]) ELSE after[i - 1]
  IN  after[TotalLinks + 1]

(* No URL leads to a link: the datagram is dropped, before the loop when    *)
(* tcp-write is empty, else after TotalLinks + 1 turns.                     *)
NoLink(p) ==
  {Start(p),
   [Start(p) EXCEPT !.sel = (@ + 1) % TotalLinks,
                    !.inc = Turned(@, selected[p], TotalLinks + 1),
                    !.n = TotalLinks + 1]}

(* "all links were blacklisted, resetting" *)
Resets(p, st) == st.more /\ up[p] # {}

(* algo_thunder_on_datagram *)
OnDatagram(p) ==
  /\ budget[p] > 0 /\ budget' = [budget EXCEPT ![p] = @ - 1]
  /\ LET d    == Datagram(sent[p] + 1)
         kept == Kept(p, d)
         dgs  == {d} \cup Padding(kept, d)
     IN  \E st \in IF up[p] = {} THEN NoLink(p) ELSE {Loop(p, dgs)} :
           /\ emit_id' = [emit_id EXCEPT ![p] = d.id]
           /\ stored' = [stored EXCEPT ![p] = kept]
           /\ sent' = [sent EXCEPT ![p] = d.n]
           /\ selected' = [selected EXCEPT ![p] = st.sel]
           /\ to_increment' = [to_increment EXCEPT ![p] = st.inc]
           /\ turns' = [turns EXCEPT ![p] = @ + st.n]
           /\ chan' = [chan EXCEPT ![p] = st.chan]
           /\ received' = IF Resets(p, st)
                          THEN [received EXCEPT ![p] = [l \in Links |-> blacklisted[p][l] + 1]]
                          ELSE received
           /\ exact' = [exact EXCEPT
                ![p] = @ /\ ~ Resets(p, st),
                ![Other(p)] = @ /\ st.whole]
  /\ UNCHANGED <<receiving, blacklisted, up, alive, breaks>>

----------------------------------------------------------------------------
(* classify, unpad and adapt                                               *)

(* Mutant: one turn more than the links can have had. *)
ExpectedNext(l, i, n) == IF i <= l THEN n + 1 ELSE n

(* The count of turns that link i should have when a cell of link l makes  *)
(* it n: links have their turns in order.                                  *)
Expected(l, i, n) == IF i <= l THEN n ELSE n - 1

(* Mutant: the newest datagram of a cell is looked at first. *)
FreshNewest(q, dgs) ==
  {d \in dgs : d.id > recv_id[q] /\ \A e \in dgs : e.id <= d.id}

(* Mutant: only the one delivered last is known. *)
FreshOther(q, dgs) == {d \in dgs : d.id # recv_id[q]}

(* The datagrams of a cell that are delivered, from the oldest. *)
Fresh(q, dgs) == {d \in dgs : d.id > recv_id[q]}

Newest(S) == CHOOSE d \in S : \A e \in S : e.id <= d.id

(* algo_thunder_on_stream *)
OnStream(q, l) ==
  /\ chan[Other(q)][l] # <<>>
  /\ LET c     == Head(chan[Other(q)][l])
         count == [received[q] EXCEPT ![l] = @ + c.inc]
         late  == {i \in Links : count[i] < Expected(l, i, count[l])}
         fresh == Fresh(q, c.dgs)
     IN  /\ received' = [received EXCEPT ![q] = count]
         /\ \E now \in SUBSET late :   (* the links whose time is over *)
              /\ blacklisted' = [blacklisted EXCEPT ![q] = [i \in Links |->
                   IF i \in now /\ @[i] < Expected(l, i, count[l])
                   THEN Expected(l, i, count[l]) ELSE @[i]]]
              /\ timers' = [timers EXCEPT ![q] =
                   @ \cup {<<i, Expected(l, i, count[l])>> : i \in late \ now}]
         /\ IF fresh = {} THEN UNCHANGED <<recv_id, out, skipped>>
            ELSE /\ recv_id' = [recv_id EXCEPT ![q] = Newest(fresh).id]
                 /\ out' = [out EXCEPT ![q] = Newest(fresh).n]
                 /\ skipped' = [skipped EXCEPT ![q] =
                      @ \cup {n \in (out[q] + 1) .. Newest(fresh).n : \A d \in fresh : d.n # n}]
  /\ chan' = [chan EXCEPT ![Other(q)][l] = Tail(@)]
  /\ UNCHANGED <<sending, up, alive, breaks, exact>>

(* on_block, from a timer *)
OnBlock(q) ==
  /\ \E t \in timers[q] :
       /\ timers' = [timers EXCEPT ![q] = @ \ {t}]
       /\ blacklisted' =
            IF received[q][t[1]] >= t[2] \/ blacklisted[q][t[1]] >= t[2] THEN blacklisted
            ELSE [blacklisted EXCEPT ![q][t[1]] = t[2]]
  /\ UNCHANGED <<sending, recv_id, out, skipped, received, up, alive, chan, breaks, exact>>

----------------------------------------------------------------------------
(* The links.                                                              *)

(* What was on its way is lost: the loop looks at the error first. *)
Break(l) ==
  /\ l \in alive /\ breaks > 0 /\ breaks' = breaks - 1
  /\ alive' = alive \ {l}
  /\ chan' = [p \in Peers |-> [chan[p] EXCEPT ![l] = <<>>]]
  /\ exact' = [p \in Peers |-> exact[p] /\ chan[Other(p)][l] = <<>>]
  /\ UNCHANGED <<sending, receiving, received, blacklisted, up>>

(* An end finds out, and removes its descriptors: algo_thunder_on_err does *)
(* not have the link repaired, so it never comes back.                     *)
Notice(p) ==
  /\ \E l \in up[p] \ alive : up' = [up EXCEPT ![p] = @ \ {l}]
  /\ UNCHANGED <<sending, receiving, received, blacklisted, alive, chan, breaks, exact>>

Next ==
  \/ \E p \in Peers : OnDatagram(p) \/ OnBlock(p) \/ Notice(p)
                       \/ \E l \in Links : OnStream(p, l)
  \/ (\E l \in Links : Break(l))

Spec == Init /\ [][Next]_vars

----------------------------------------------------------------------------
(* Properties.                                                             *)

Datagrams == [n : Nat, id : 0 .. UINT16_MAX]
Cells     == [inc : 0 .. UINT8_MAX, dgs : SUBSET Datagrams]

TypeOK ==
  /\ emit_id \in [Peers -> 0 .. UINT16_MAX] /\ recv_id \in [Peers -> 0 .. UINT16_MAX]
  /\ stored \in [Peers -> SUBSET Datagrams]
  /\ selected \in [Peers -> Links]
  /\ to_increment \in [Peers -> [Links -> 0 .. UINT8_MAX]]
  /\ received \in [Peers -> [Links -> Nat]] /\ blacklisted \in [Peers -> [Links -> Nat]]
  /\ timers \in [Peers -> SUBSET (Links \X Nat)]
  /\ up \in [Peers -> SUBSET Links] /\ alive \in SUBSET Links
  /\ chan \in [Peers -> [Links -> Seq(Cells)]]
  /\ breaks \in 0 .. MaxBreaks /\ budget \in [Peers -> Nat]
  /\ sent \in [Peers -> Nat] /\ out \in [Peers -> Nat] /\ turns \in [Peers -> Nat]
  /\ skipped \in [Peers -> SUBSET Nat]
  /\ exact \in [Peers -> BOOLEAN]

(* Each direction does what LossyOrder says: whatever links deliver, drop   *)
(* or delay, the copies and the padding, datagrams come out once and in the *)
(* order they were sent in.                                                 *)
ToServer == INSTANCE LossyOrder WITH Starts <- {<<s, s>> : s \in Starts},
                                     sent <- sent["client"], out <- out["server"]
ToClient == INSTANCE LossyOrder WITH Starts <- {<<s, s>> : s \in Starts},
                                     sent <- sent["server"], out <- out["client"]
OnceInOrder == ToServer!Spec /\ ToClient!Spec

(* Padding makes up for cells that are lost or overtaken: a datagram that   *)
(* newer ones overtake for good was carried by none of the cells that       *)
(* arrived, and so it is overtaken by one that is newer by as many as are   *)
(* kept and fit into a cell: those of it and of the next ones were all lost *)
(* or late.                                                                 *)
Window == 1 + Smaller(Room, TotalLinks - 1)

LostOnlyTogether ==
  \A q \in Peers : \A n \in skipped[q] : n + Window <= out[q]

(* A datagram is never held back by the blacklist: if a link is up it is    *)
(* sent over one, and over one that is not blacklisted if there is one.     *)
Gets(p, l) == Len(chan'[p][l]) > Len(chan[p][l]) \/ l \notin alive

DatagramSent ==
  [][\A p \in Peers : sent'[p] # sent[p] =>
       LET good == {l \in up[p] : ~ is_blacklisted(p, l)}
       IN  /\ up[p] # {} => \E l \in up[p] : Gets(p, l)
           /\ good # {} => \E l \in good : Gets(p, l)]_vars

(* While all its links are up, an end never blacklists them all, however    *)
(* late cells come and timers expire: the link that is ahead of the others  *)
(* is never taken to be behind.  So the counts are only ever reset when a   *)
(* link is down, and then the message "all links were blacklisted" is not   *)
(* true of that one.                                                        *)
SomeLinkTrusted ==
  \A p \in Peers : up[p] = Links => \E l \in Links : ~ is_blacklisted(p, l)

(* The receiver's counts are exact, as long as no cell is lost and the      *)
(* counts are not reset: what the sender has given a link in turns is       *)
(* received, on its way, or not told yet, whichever links are down,         *)
(* blacklisted or probed.  Else a sound link would be taken to be behind.   *)
(* The turns of a link that is down are told to nobody, and their count,    *)
(* of 8 bits, wraps.                                                        *)
InFlight(s) ==
  LET sum[i \in 0 .. Len(s)] == IF i = 0 THEN 0 ELSE sum[i - 1] + s[i].inc IN sum[Len(s)]

Uncounted(p, l) ==
  (1 + TurnsOf(turns[p], l))
    - (received[Other(p)][l] + InFlight(chan[p][l]) + to_increment[p][l])

CountsExact ==
  \A p \in Peers : exact[Other(p)] =>
    \A l \in Links : /\ Uncounted(p, l) % (UINT8_MAX + 1) = 0
                     /\ l \in up[p] => Uncounted(p, l) = 0

(* algo_thunder.c: "already delivered".  A datagram that is passed over as  *)
(* delivered already was delivered, or a newer one was.                     *)
SkipsOnlyDelivered ==
  \A q \in Peers : \A l \in Links : chan[Other(q)][l] # <<>> =>
    \A d \in Head(chan[Other(q)][l]).dgs \ Fresh(q, Head(chan[Other(q)][l]).dgs) :
      d.n <= out[q]

=============================================================================
