------------------------------ MODULE EvtLoop ------------------------------
(***************************************************************************)
(* What the event loop of src/evt_core.c has under it, the descriptors and *)
(* the epoll instance of the kernel, and the batch of events an iteration  *)
(* of evt_core_loop works on.                                              *)
(*                                                                         *)
(* A kernel is a record with at least the fields                           *)
(*   sock[fd]     the socket fd refers to, NoSock when fd is closed        *)
(*   watch        the epoll interest list, of <<socket, fd, direction>>    *)
(*   ready, hup   the watches with readiness, or an error, to report       *)
(*                                                                         *)
(* epoll watches open files, not descriptors: close removes a watch only   *)
(* with the last descriptor of its socket.  Both ends of Donar make a      *)
(* second descriptor of each socket with dup, and evt_core_rm_fd closes    *)
(* without EPOLL_CTL_DEL, so that a watch can outlive the descriptor whose *)
(* number its events carry, and the number can by then be another's.       *)
(***************************************************************************)
EXTENDS EvtCore, FiniteSets

NoSock == NoFd

Watches(k, s) == {w \in k.watch : w[1] = s}

Ins(k, s) == {w \in Watches(k, s) : w[3] = "in"}

Outs(k, s) == {w \in Watches(k, s) : w[3] = "out"}

Closed(k) == {fd \in Fds : k.sock[fd] = NoSock}

(* add_fd_to_epoll: what is already so is reported at once. *)
Watch(k, w, isReady, isBroken) ==
  [k EXCEPT !.watch = @ \cup {w},
            !.ready = IF isReady THEN @ \cup {w} ELSE @,
            !.hup = IF isBroken THEN @ \cup {w} ELSE @]

(* close, in free_fdinfo *)
Close(k, fd) ==
  LET s    == k.sock[fd]
      last == \A g \in Fds : k.sock[g] = s => g = fd
      gone == IF last THEN Watches(k, s) ELSE {}
  IN  [k EXCEPT !.sock[fd] = NoSock, !.watch = @ \ gone,
                !.ready = @ \ gone, !.hup = @ \ gone]

(* epoll_wait reports the watches ws: edge-triggered, each once. *)
Reported(k, ws) == [k EXCEPT !.ready = @ \ ws, !.hup = @ \ ws]

(***************************************************************************)
(* The events of one epoll_wait, those with an error apart: the loop       *)
(* handles all the errors first, then calls the callbacks of the others.   *)
(* An event knows the watch it comes from, which has the number the loop   *)
(* knows it by, and (for the properties) what that number was then.        *)
(***************************************************************************)
Event(k, w) == [w |-> w, fd |-> w[2], was |-> k.sock[w[2]]]

BatchOf(k, ws) == [err |-> {Event(k, w) : w \in ws \cap k.hup},
                   cb  |-> {Event(k, w) : w \in ws \ k.hup}]

EmptyBatch == [err |-> {}, cb |-> {}]

(* Events of descriptors removed in this batch, or not registered. *)
Ignored(r, fd) == IsBlacklisted(r, fd) \/ ~ IsRegistered(r, fd)

============================================================================
