------------------------------- MODULE Socks5 -------------------------------
(***************************************************************************)
(* The SOCKS5 exchange of src/socks5.c that makes a link, stage by stage:  *)
(* the client's half, which runs in Donar, and the server's half, which    *)
(* runs in faketor and stands for Tor here, except that Tor may also       *)
(* refuse and may answer with any kind of address.                         *)
(*                                                                         *)
(* A stage is a category of the event loop.  Each half is a record with    *)
(*   stage   the category of its descriptor                                *)
(*   pc      "idle"  the process is in epoll_wait                          *)
(*           "loop"  the event loop calls the callback, and again when it  *)
(*                   answers 0                                             *)
(*           "once"  evt_core_add_fd or evt_core_mv_fd calls it, which     *)
(*                   ignore what it answers                                *)
(*   edge    whether epoll has something to report                         *)
(* A callback that moves the descriptor to another category calls that     *)
(* category's callback from inside and then answers 1.                     *)
(***************************************************************************)
EXTENDS Packet

CONSTANTS
  NameLen,   (* the length of the onion address asked for                  *)
  WordSize   (* bound: 2^64 scaled down, what a size_t counts modulo       *)

ASSUME Socks5Assumption == NameLen \in 1 .. 255 /\ WordSize \in Nat /\ WordSize > 8

VER_SOCKS5 == 5
METHOD_NOAUTH == 0
ATYP_IPV4 == 1
ATYP_DOMAINNAME == 3
ATYP_IPV6 == 4
SOCKS5_REP_SUCCESS == 0

Zeros(n) == [i \in 1 .. n |-> 0]

(* What socks5_create_dns_client prepares to send. *)
ClientHandshake == <<VER_SOCKS5, 1, METHOD_NOAUTH>>
ClientRequest ==
  <<VER_SOCKS5, 1, 0, ATYP_DOMAINNAME, NameLen>> \o Zeros(NameLen + 2)

(* What a server answers: its handshake, and its reply to the request. *)
ServerHandshake(r) == <<VER_SOCKS5, r.method>>
ServerReply(r) == <<VER_SOCKS5, r.rep, 0, r.atyp>> \o r.host \o <<0, 0>>

(* socks5_server_handle_req: the one answer faketor has. *)
FaketorReply == [method |-> METHOD_NOAUTH, rep |-> SOCKS5_REP_SUCCESS,
                 atyp |-> ATYP_IPV4, host |-> <<127, 0, 0, 1>>]

Fixed == 4    (* the bytes of a request or reply before its address *)

(* Mutant: the length byte of a name is not part of the address. *)
HostSizeNoLen(sr) ==
  CASE sr[4] = ATYP_IPV4       -> 4
    [] sr[4] = ATYP_IPV6       -> 16
    [] sr[4] = ATYP_DOMAINNAME -> IF Len(sr) <= Fixed THEN 1 ELSE At(sr, 5)

(* The size of the address in sr, as far as sr has been read. *)
HostSize(sr) ==
  CASE sr[4] = ATYP_IPV4       -> 4
    [] sr[4] = ATYP_IPV6       -> 16
    [] sr[4] = ATYP_DOMAINNAME -> 1 + At(sr, 5)

Supported(sr) == sr[4] \in {ATYP_IPV4, ATYP_IPV6, ATYP_DOMAINNAME}

(* What the next read of on_socks5_recv_server_reply asks for. *)
ReplyWant(c) ==
  IF Len(c.sr) < Fixed THEN Fixed - Len(c.sr)
  ELSE IF ~ c.host_read THEN Fixed + HostSize(c.sr) - Len(c.sr)
  ELSE Fixed + HostSize(c.sr) + 2 - Len(c.sr)

ReplyRead(c, bs) ==
  LET sr == c.sr \o bs
  IN  [c EXCEPT !.sr = sr,
                !.host_read = @ \/ (Len(sr) > Fixed /\ Len(sr) >= Fixed + HostSize(sr))]

(* What on_socks5_server_recv_client_req asks for: the header, the address  *)
(* (its length first, which is 0 until it is read), the port.              *)
RequestWant(t) ==
  LET n == Len(t.cr)
  IN  IF n < Fixed THEN Fixed - n
      ELSE IF ~ t.host_read THEN Fixed + 1 + At(t.cr, 5) - n
      ELSE Fixed + 1 + At(t.cr, 5) + 2 - n

RequestRead(t, bs) ==
  LET cr == t.cr \o bs
  IN  [t EXCEPT !.cr = cr,
                !.host_read = @ \/ (Len(cr) > Fixed /\ Len(cr) >= Fixed + 1 + At(cr, 5))]

(* What a callback answers: 0, be called again, or 1, wait for an event. *)
Again(x) == IF x.pc = "loop" THEN x ELSE [x EXCEPT !.pc = "idle"]

Done(x)  == [x EXCEPT !.pc = "idle"]

(* Mutant: nobody looks for what came before the descriptor was moved. *)
MvToUnseen(x, stage, ready) == [x EXCEPT !.stage = stage, !.pc = "idle", !.edge = FALSE]

(* evt_core_mv_fd2; EPOLL_CTL_MOD reports what is already so. *)
MvTo(x, stage, ready) == [x EXCEPT !.stage = stage, !.pc = "once", !.edge = ready]

============================================================================
