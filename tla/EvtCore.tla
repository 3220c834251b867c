------------------------------ MODULE EvtCore ------------------------------
(***************************************************************************)
(* The descriptor registry of src/evt_core.c: which file descriptors the   *)
(* event loop watches, in which category each one is, and by which URL it  *)
(* can be found again.  The module holds the operations as functions of    *)
(* the registry; the modules that model the handlers keep a registry in a  *)
(* variable and apply them.                                                *)
(*                                                                         *)
(* A registry is a record                                                  *)
(*   info[fd]   the fdinfo registered under descriptor fd (ctx->socklist)  *)
(*   list[c]    the socklist of category c, in registration order          *)
(*   url[u]     the descriptor of the fdinfo found at URL u (ctx->urltofd) *)
(*   key[u]     the descriptor of the fdinfo that OWNS the string GLib     *)
(*              uses as the key of that entry                              *)
(*   black      ctx->blacklisted_fds, the descriptors removed since the    *)
(*              loop last called epoll_wait                                *)
(*                                                                         *)
(* g_hash_table_insert keeps the key that is already in the table and      *)
(* replaces only the value.  Two fdinfos registered under one URL          *)
(* therefore share one entry, whose key is memory of the first and whose   *)
(* value is the second.                                                    *)
(***************************************************************************)
EXTENDS Naturals, Sequences, SequencesExt

CONSTANTS
  Fds,      (* the descriptor numbers the kernel can hand out              *)
  Cats,     (* the names of the categories                                 *)
  Urls,     (* the URLs under which descriptors are registered             *)
  NoFd      (* "NULL": no such descriptor                                  *)

ASSUME EvtCoreAssumption == NoFd \notin Fds /\ NoFd \notin Cats /\ NoFd \notin Urls

NoInfo == [cat |-> NoFd, url |-> NoFd]
Info == [cat : Cats, url : Urls]

Registry ==
  [info : [Fds -> Info \cup {NoInfo}], list : [Cats -> Seq(Fds)],
   url : [Urls -> Fds \cup {NoFd}], key : [Urls -> Fds \cup {NoFd}],
   black : Seq(Fds)]

(* evt_core_init and the evt_core_add_cat calls that follow it. *)
EmptyRegistry ==
  [info |-> [fd \in Fds |-> NoInfo], list |-> [c \in Cats |-> <<>>],
   url |-> [u \in Urls |-> NoFd], key |-> [u \in Urls |-> NoFd],
   black |-> <<>>]

----------------------------------------------------------------------------

(* evt_core_get_from_fd finds an fdinfo. *)
IsRegistered(r, fd) == r.info[fd] # NoInfo

Registered(r) == {fd \in Fds : IsRegistered(r, fd)}

(* evt_core_get_from_url: the descriptor of the fdinfo it returns. *)
FromUrl(r, u) == r.url[u]

(* evt_core_fd_bl: was this descriptor removed in the current batch? *)
IsBlacklisted(r, fd) == \E i \in DOMAIN r.black : r.black[i] = fd

(* The categories' GArray without its entry for fd, the rest in order. *)
WithoutFd(s, fd) ==
  IF \E i \in DOMAIN s : s[i] = fd
  THEN LET k == CHOOSE i \in DOMAIN s : s[i] = fd
       IN  [j \in 1 .. (Len(s) - 1) |-> IF j < k THEN s[j] ELSE s[j + 1]]
  ELSE s

(***************************************************************************)
(* evt_core_add_fd up to the callback it ends with: the modules that use   *)
(* it run the category's callback as their next step.                      *)
(***************************************************************************)
AddFd(r, fd, c, u) ==
  [r EXCEPT !.info[fd] = [cat |-> c, url |-> u],
            !.list[c] = Append(@, fd),
            !.url[u] = fd,
            !.key[u] = IF r.url[u] = NoFd THEN fd ELSE @]

(* Mutant: the entry of the URL table stays. *)
RmFdKeepsUrl(r, fd) ==
  IF ~ IsRegistered(r, fd) THEN r
  ELSE LET c == r.info[fd].cat
       IN  [r EXCEPT !.list[c] = WithoutFd(@, fd), !.info[fd] = NoInfo,
                     !.black = Append(@, fd)]

(* Mutant: the descriptor is not blacklisted. *)
RmFdNotBlack(r, fd) ==
  IF ~ IsRegistered(r, fd) THEN r
  ELSE LET c == r.info[fd].cat
           u == r.info[fd].url
       IN  [r EXCEPT !.list[c] = WithoutFd(@, fd), !.url[u] = NoFd,
                     !.key[u] = NoFd, !.info[fd] = NoInfo]

(***************************************************************************)
(* evt_core_rm_fd.  The URL is looked up by content, so the entry that     *)
(* goes is the one this URL has now, whichever fdinfo it leads to.         *)
(***************************************************************************)
RmFd(r, fd) ==
  IF ~ IsRegistered(r, fd) THEN r
  ELSE LET c == r.info[fd].cat
           u == r.info[fd].url
       IN  [r EXCEPT !.list[c] = WithoutFd(@, fd),
                     !.url[u] = NoFd,
                     !.key[u] = NoFd,
                     !.info[fd] = NoInfo,
                     !.black = Append(@, fd)]

(* The start of an iteration of evt_core_loop. *)
ClearBlacklist(r) == [r EXCEPT !.black = <<>>]

----------------------------------------------------------------------------

(* Every category lists exactly the descriptors registered in it, once. *)
ListsAgree(r) ==
  /\ \A c \in Cats : \A i, j \in DOMAIN r.list[c] :
        r.list[c][i] = r.list[c][j] => i = j
  /\ \A c \in Cats : \A i \in DOMAIN r.list[c] : r.info[r.list[c][i]].cat = c
  /\ \A fd \in Registered(r) : \E i \in DOMAIN r.list[r.info[fd].cat] :
        r.list[r.info[fd].cat][i] = fd

(***************************************************************************)
(* An entry of the URL table leads to a registered fdinfo of that URL, and *)
(* its key is a string a registered fdinfo of that URL still owns: neither *)
(* the value nor the key is memory that evt_core_rm_fd has freed.          *)
(***************************************************************************)
UrlsLive(r) ==
  \A u \in Urls :
    /\ r.url[u] # NoFd => r.info[r.url[u]].url = u /\ r.info[r.key[u]].url = u
    /\ r.url[u] = NoFd <=> r.key[u] = NoFd

(* The registry's invariant. *)
RegistryInv(r) == ListsAgree(r) /\ UrlsLive(r)

============================================================================
