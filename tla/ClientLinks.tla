----------------------------- MODULE ClientLinks -----------------------------
(***************************************************************************)
(* How a Donar client keeps its links: src/donar_client.c, with the timers *)
(* of src/timer.c, the SOCKS5 connections of src/socks5.c (whose exchange  *)
(* is reduced to: it goes on, it succeeds, or it fails) and what proxy.c   *)
(* and evt_core.c do with the descriptors of a link.                       *)
(*                                                                         *)
(* A link is in turn a timer, a SOCKS5 connection to Tor, and two          *)
(* descriptors of that connection, tcp-read and tcp-write, both made with  *)
(* dup.  The first descriptor is then closed, but epoll goes on watching   *)
(* the connection under its number (see EvtLoop), and the next descriptor  *)
(* the process opens is the lowest closed one.                             *)
(*                                                                         *)
(* What the handlers of tcp-read and tcp-write do with packets is in       *)
(* Proxy.  Here they do nothing, until a send or a read fails.             *)
(***************************************************************************)
EXTENDS EvtLoop

CONSTANTS
  NLinks,      (* dp->links                                                *)
  NObjects,    (* bound: the timers and sockets that exist at a time, or   *)
               (* that events still to be handled are about                *)
  MaxFailures, (* bound: how often Tor closes, resets or refuses a connection *)
  MaxEvents    (* EVT_CORE_MAX_EVENTS                                      *)

Links   == 1 .. NLinks
Objects == 1 .. NObjects

(* Why a timer was set, which gives its delay, and its URL. *)
Delays == {"start", "failed", "broke"}

CatNames == {"set_timeout", "socks5", "tcp-read", "tcp-write"}

ASSUME ClientLinksAssumption ==
  /\ NLinks \in Nat \ {0} /\ MaxEvents \in Nat \ {0}
  /\ Fds = 1 .. (2 * NLinks + 2)
  /\ NObjects \in Nat /\ NObjects > Cardinality(Fds) + 2 * MaxEvents
  /\ MaxFailures \in Nat
  /\ Cats = CatNames
  /\ Urls = (Delays \cup (CatNames \ {"set_timeout"})) \X Links
  /\ NoFd \notin Objects

VARIABLES
  reg,      (* the registry of ctx->evts                                   *)
  kern,     (* the descriptors and the epoll instance                      *)
  batch,    (* the events of the last epoll_wait still to be handled       *)
  left,     (* how many failures may still come                            *)
  reset,    (* whether an established link was ever reset by its peer      *)
  fate      (* "run", or "exit" when the process has ended                 *)

vars == <<reg, kern, batch, left, reset, fate>>

(* A kernel also has                                                       *)
(*   data     the timers that expired and the sockets with something to    *)
(*            read                                                         *)
(*   broken   the sockets that were reset                                  *)
Kernel == [sock : [Fds -> Objects \cup {NoSock}],
           watch : SUBSET (Objects \X Fds \X {"in", "out", "none"}),
           ready : SUBSET (Objects \X Fds \X {"in", "out", "none"}),
           hup : SUBSET (Objects \X Fds \X {"in", "out", "none"}),
           data : SUBSET Objects, broken : SUBSET Objects]

----------------------------------------------------------------------------
(* The operations work on a record of the registry and the kernel.         *)

Lowest(S) == CHOOSE n \in S : \A m \in S : n <= m

NewFd(s) == Lowest(Closed(s.kern))

(* An object that neither the kernel nor the batch refers to. *)
NewObject(s) ==
  Lowest({o \in Objects : /\ \A fd \in Fds : s.kern.sock[fd] # o
                          /\ \A e \in batch.err \cup batch.cb :
                               e.w[1] # o /\ e.was # o})

(* Descriptor fd is opened on object o, registered and watched. *)
Open(s, fd, o, c, u, dir) ==
  [s EXCEPT !.reg  = AddFd(@, fd, c, u),
            !.kern = Watch([@ EXCEPT !.sock[fd] = o], <<o, fd, dir>>,
                           dir = "in" /\ o \in @.data, o \in @.broken)]

(* evt_core_rm_fd, with free_fdinfo.  What is known of an object goes with it. *)
rm_fd(s, fd) ==
  LET k == Close(s.kern, fd)
      o == s.kern.sock[fd]
      gone == IF \E g \in Fds : k.sock[g] = o THEN {} ELSE {o}
  IN  [s EXCEPT !.reg  = RmFd(@, fd),
                !.kern = [k EXCEPT !.data = @ \ gone, !.broken = @ \ gone]]

LinkOf(s, fd) == s.reg.info[fd].url[2]

set_timeout(s, delay, l) ==
  Open(s, NewFd(s), NewObject(s), "set_timeout", <<delay, l>>, "in")

(* Mutant: the failed connection stays. *)
FailedKeepsFd(s, fd) == set_timeout(s, "failed", LinkOf(s, fd))

on_socks5_failed(s, fd) == rm_fd(set_timeout(s, "failed", LinkOf(s, fd)), fd)

(* update_fd_epoll, to a category that watches nothing but errors, which   *)
(* epoll always reports.                                                   *)
Muted(k, w, none) ==
  [k EXCEPT !.watch = (@ \ {w}) \cup {none}, !.ready = @ \ {w},
            !.hup = IF w \in @ THEN (@ \ {w}) \cup {none} ELSE @]

(* Mutant: one dup for both sides. *)
SuccessOneDup(s, fd) ==
  LET l == LinkOf(s, fd)
      o == s.kern.sock[fd]
      q == [s EXCEPT !.kern = Muted(@, <<o, fd, "in">>, <<o, fd, "none">>)]
      w == Open(q, NewFd(q), o, "tcp-write", <<"tcp-write", l>>, "out")
      r == Open(w, NewFd(q), o, "tcp-read", <<"tcp-read", l>>, "in")
  IN  rm_fd(r, fd)

(* on_socks5_success, in its category. *)
on_socks5_success(s, fd) ==
  LET l == LinkOf(s, fd)
      o == s.kern.sock[fd]
      q == [s EXCEPT !.kern = Muted(@, <<o, fd, "in">>, <<o, fd, "none">>)]
      w == Open(q, NewFd(q), o, "tcp-write", <<"tcp-write", l>>, "out")
      r == Open(w, NewFd(w), o, "tcp-read", <<"tcp-read", l>>, "in")
  IN  rm_fd(r, fd)

(* What the SOCKS5 exchange on fd can come to when it takes its next step. *)
socks5(s, fd) ==
  {s, on_socks5_success(s, fd)} \cup
  (IF left > 0 THEN {[on_socks5_failed(s, fd) EXCEPT !.left = @ - 1]} ELSE {})

(* A connection to Tor, registered for its first call, which is made by    *)
(* evt_core_add_fd.                                                        *)
socks5_create_dns_client(s, l) ==
  Open(s, NewFd(s), NewObject(s), "socks5", <<"socks5", l>>, "in")

(* Mutant: the port is off by one. *)
ReinitNext(s, l) == socks5(socks5_create_dns_client(s, l + 1), NewFd(s))

(* reinit_socks5 with init_socks5_client. *)
reinit_socks5(s, l) == socks5(socks5_create_dns_client(s, l), NewFd(s))

Read(s, o) == [s EXCEPT !.kern.data = @ \ {o}]

(* Mutant: the timer's callback is not called. *)
HandleNothing(s, fd) == {Read(s, s.kern.sock[fd])}

(* set_timeout_handle *)
set_timeout_handle(s, fd) ==
  LET o == s.kern.sock[fd]
  IN  IF o \notin s.kern.data THEN {s}
      ELSE {rm_fd(t, fd) : t \in reinit_socks5(Read(s, o), LinkOf(s, fd))}

(* Mutant: only the read side is looked up. *)
RepairReader(s, fd) ==
  LET r == FromUrl(s.reg, <<"tcp-read", LinkOf(s, fd)>>)
  IN  IF r = NoFd THEN s ELSE rm_fd(s, r)

(* donar_client_stream_repair: the timer is set when both descriptors are  *)
(* still there, and only then.  With one left the function ends without a  *)
(* return; if the loop reads anything but 1 it removes fd itself, which is *)
(* then the one descriptor that has just been removed.                     *)
donar_client_stream_repair(s, fd) ==
  LET l == LinkOf(s, fd)
      r == FromUrl(s.reg, <<"tcp-read", l>>)
      w == FromUrl(s.reg, <<"tcp-write", l>>)
  IN  CASE r # NoFd /\ w # NoFd -> set_timeout(rm_fd(rm_fd(s, r), w), "broke", l)
        [] r # NoFd /\ w = NoFd -> rm_fd(s, r)
        [] r = NoFd /\ w # NoFd -> rm_fd(s, w)
        [] OTHER -> s

----------------------------------------------------------------------------

State == [reg |-> reg, kern |-> kern, left |-> left]

(* The tcp descriptors of an object: it is an established link's. *)
Established(s, o) ==
  \E fd \in Fds : /\ s.kern.sock[fd] = o /\ IsRegistered(s.reg, fd)
                  /\ s.reg.info[fd].cat \in {"tcp-read", "tcp-write"}

(* The process goes to state t. *)
Become(t) ==
  /\ reg' = t.reg /\ kern' = t.kern /\ left' = t.left
  /\ reset' = (reset \/ \E o \in t.kern.broken : Established(t, o))

(* donar_client, for the links: one timer each, l of delay 3 * (l - 1). *)
Init ==
  /\ reg = [EmptyRegistry EXCEPT
              !.info = [fd \in Fds |-> IF fd \in Links
                          THEN [cat |-> "set_timeout", url |-> <<"start", fd>>]
                          ELSE NoInfo],
              !.list["set_timeout"] = [l \in Links |-> l],
              !.url = [u \in Urls |-> IF u[1] = "start" THEN u[2] ELSE NoFd],
              !.key = [u \in Urls |-> IF u[1] = "start" THEN u[2] ELSE NoFd]]
  /\ kern = [sock |-> [fd \in Fds |-> IF fd \in Links THEN fd ELSE NoSock],
             watch |-> {<<l, l, "in">> : l \in Links},
             ready |-> {}, hup |-> {}, data |-> {}, broken |-> {}]
  /\ batch = EmptyBatch
  /\ left = MaxFailures /\ reset = FALSE
  /\ fate = "run"

(* epoll_wait: all there is to report, or as much of it as fits. *)
Poll ==
  /\ fate = "run" /\ batch = EmptyBatch
  /\ LET pending == kern.ready \cup kern.hup
     IN  \E ws \in SUBSET pending :
           /\ ws # {} /\ Cardinality(ws) <= MaxEvents
           /\ ws = pending \/ Cardinality(ws) = MaxEvents
           /\ batch' = BatchOf(kern, ws)
           /\ kern' = Reported(kern, ws)
  /\ reg' = ClearBlacklist(reg)
  /\ UNCHANGED <<left, reset, fate>>

(* The error phase: main_on_err, on_socks5_err, and, for a timer, which    *)
(* has no err_cb, the loop's own evt_core_rm_fd.                           *)
HandleError ==
  /\ fate = "run"
  /\ \E e \in batch.err :
       /\ batch' = [batch EXCEPT !.err = @ \ {e}]
       /\ IF Ignored(reg, e.fd) THEN UNCHANGED <<reg, kern, left, reset>>
          ELSE LET c == reg.info[e.fd].cat
               IN  \/ c \in {"tcp-read", "tcp-write"}
                        /\ Become(donar_client_stream_repair(State, e.fd))
                   \/ c = "socks5" /\ Become(on_socks5_failed(State, e.fd))
                   \/ c = "set_timeout" /\ Become(rm_fd(State, e.fd))
  /\ UNCHANGED fate

(* The callbacks of timers and SOCKS5 connections.  When Tor cannot be     *)
(* reached the process exits.                                              *)
HandleEvent ==
  /\ fate = "run" /\ batch.err = {}
  /\ \E e \in batch.cb :
       /\ batch' = [batch EXCEPT !.cb = @ \ {e}]
       /\ IF Ignored(reg, e.fd) THEN UNCHANGED <<reg, kern, left, reset, fate>>
          ELSE LET c == reg.info[e.fd].cat
                   o == kern.sock[e.fd]
               IN  \/ /\ c = "set_timeout" /\ fate' = fate
                      /\ \E t \in set_timeout_handle(State, e.fd) : Become(t)
                   \/ /\ c = "set_timeout" /\ o \in kern.data /\ fate' = "exit"
                      /\ UNCHANGED <<reg, kern, left, reset>>
                   \/ /\ c = "socks5" /\ fate' = fate
                      /\ \E t \in socks5(Read(State, o), e.fd) : Become(t)
                   \/ /\ c \in {"tcp-read", "tcp-write"}
                      /\ UNCHANGED <<reg, kern, left, reset, fate>>

(* main_on_tcp_read or main_on_tcp_write, for whatever event, finds the    *)
(* link broken, and removes its descriptor, without the other.             *)
TcpFails ==
  /\ fate = "run" /\ batch.err = {}
  /\ \E fd \in Registered(reg) :
       /\ reg.info[fd].cat \in {"tcp-read", "tcp-write"}
       /\ kern.sock[fd] \in kern.broken
       /\ Become(rm_fd(State, fd))
  /\ UNCHANGED <<batch, fate>>

----------------------------------------------------------------------------
(* The outside world.                                                      *)

(* A timer expires. *)
TimerExpires(l) ==
  /\ fate = "run"
  /\ \E fd \in Registered(reg) :
       /\ reg.info[fd].cat = "set_timeout" /\ reg.info[fd].url[2] = l
       /\ kern.sock[fd] \notin kern.data
       /\ kern' = [kern EXCEPT !.data = @ \cup {kern.sock[fd]},
                               !.ready = @ \cup Ins(kern, kern.sock[fd])]
  /\ UNCHANGED <<reg, batch, left, reset, fate>>

(* Tor answers a SOCKS5 connection, or has room for what it sends. *)
TorAnswers ==
  /\ fate = "run"
  /\ \E fd \in Registered(reg) :
       /\ reg.info[fd].cat = "socks5" /\ kern.sock[fd] \notin kern.data
       /\ kern' = [kern EXCEPT !.data = @ \cup {kern.sock[fd]},
                               !.ready = @ \cup Ins(kern, kern.sock[fd])]
  /\ UNCHANGED <<reg, batch, left, reset, fate>>

(* Tor closes an established link: the descriptors watched with EPOLLRDHUP. *)
TorCloses ==
  /\ fate = "run" /\ left > 0
  /\ \E o \in Objects :
       /\ Established(State, o) /\ o \notin kern.broken
       /\ kern' = [kern EXCEPT !.hup = @ \cup {w \in Watches(kern, o) : w[3] # "none"}]
  /\ left' = left - 1
  /\ UNCHANGED <<reg, batch, reset, fate>>

(* Tor resets a connection: whatever epoll watches it under. *)
TorResets ==
  /\ fate = "run" /\ left > 0
  /\ \E fd \in Registered(reg) :
       /\ reg.info[fd].cat # "set_timeout" /\ kern.sock[fd] \notin kern.broken
       /\ LET o == kern.sock[fd]
          IN  Become([State EXCEPT !.left = @ - 1, !.kern.broken = @ \cup {o},
                                   !.kern.hup = @ \cup Watches(kern, o)])
  /\ UNCHANGED <<batch, fate>>

Step == Poll \/ HandleError \/ HandleEvent

Env == (\E l \in Links : TimerExpires(l)) \/ TorAnswers \/ TorCloses \/ TorResets

Next == Step \/ TcpFails \/ Env

Spec == Init /\ [][Next]_vars

(* The process is scheduled as long as it has something to do, and timers   *)
(* expire.  The first conjunct is WF_vars(Step): Step is enabled exactly     *)
(* when Awake, and it is what changes batch.                                 *)
Awake == fate = "run" /\ (batch # EmptyBatch \/ kern.ready \cup kern.hup # {})

FairSpec ==
  /\ Spec
  /\ []<>(~ Awake) \/ []<><<batch' # batch>>_vars
  /\ \A l \in Links : WF_vars(TimerExpires(l))

----------------------------------------------------------------------------
(* Properties.                                                             *)

(* The descriptors of link l in category c. *)
Of(l, c) == {fd \in Registered(reg) : reg.info[fd].cat = c /\ reg.info[fd].url[2] = l}

Up(l) == Of(l, "tcp-read") # {} /\ Of(l, "tcp-write") # {}

TypeOK ==
  /\ reg \in Registry /\ kern \in Kernel
  /\ batch.err \in SUBSET [w : Objects \X Fds \X {"in", "out", "none"},
                           fd : Fds, was : Objects \cup {NoSock}]
  /\ batch.cb \in SUBSET [w : Objects \X Fds \X {"in", "out", "none"},
                          fd : Fds, was : Objects \cup {NoSock}]
  /\ left \in 0 .. MaxFailures /\ reset \in BOOLEAN /\ fate \in {"run", "exit"}

(* No lookup leads to a freed fdinfo, and no descriptor is leaked or closed *)
(* behind the registry's back.                                              *)
RegistryConsistent ==
  RegistryInv(reg) /\ \A fd \in Fds : IsRegistered(reg, fd) <=> kern.sock[fd] # NoSock

(* However events of timers, of connections and of descriptors that are    *)
(* gone come together in a batch, a link never has two attempts to connect  *)
(* in progress, nor one beside its descriptors: donar_client_stream_repair  *)
(* finds descriptors by URL, and would remove those of the newer one.       *)
OneAttempt ==
  \A l \in Links :
    /\ Cardinality(Of(l, "set_timeout") \cup Of(l, "socks5")) <= 1
    /\ Of(l, "set_timeout") \cup Of(l, "socks5") # {} =>
         Of(l, "tcp-read") \cup Of(l, "tcp-write") = {}
    /\ Cardinality(Of(l, "tcp-read")) <= 1 /\ Cardinality(Of(l, "tcp-write")) <= 1

(* What epoll_wait said of an open descriptor is not applied to what has    *)
(* been opened under the same number by handlers that ran earlier in the    *)
(* batch.                                                                   *)
BatchFresh ==
  \A e \in batch.err \cup batch.cb :
    Ignored(reg, e.fd) \/ e.was = NoSock \/ kern.sock[e.fd] = e.was

(* As long as Tor only closes established links and never resets one, a     *)
(* link that is not up is on its way: a timer or a SOCKS5 connection is     *)
(* there for it, whatever fails when.                                       *)
NoLinkLost ==
  ~ reset => \A l \in Links : Up(l) \/ Of(l, "set_timeout") \cup Of(l, "socks5") # {}

(* And then the client goes on trying: a timer comes to a SOCKS5 connection. *)
Reconnects ==
  [](~ reset) => \A l \in Links :
    Of(l, "set_timeout") # {} ~> (Of(l, "socks5") # {} \/ Up(l) \/ fate = "exit")

(* donar_client.c: "Retriggering socks5 in %ld seconds for port %d".  The   *)
(* timer stays until a SOCKS5 connection is made in its place, or the       *)
(* attempt it made has failed and set another.                              *)
RetriggerKept ==
  [][\A l \in Links : Of(l, "set_timeout") # {} =>
       (Of(l, "set_timeout") \cup Of(l, "socks5") # {} \/ Up(l))']_vars

============================================================================
