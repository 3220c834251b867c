----------------------------- MODULE OnionKeys -----------------------------
(***************************************************************************)
(* The onion service of a Donar server over its crashes and restarts:      *)
(* src/tor_os.c keeps its key in two files, src/tor_ctl.c gives the key to *)
(* Tor or has Tor make one, src/donar_server.c does both at each start,    *)
(* and a client is given a copy of the public file (src/donar_client.c).   *)
(*                                                                         *)
(* A key stands for the pair of a private key and the address made from    *)
(* it.  The server keeps one (tor_os_create is called with size 1).  Tor   *)
(* serves an address as long as the control connection over which it was   *)
(* added is open.                                                          *)
(*                                                                         *)
(* A file is "absent", "empty" (fopen "w" has cut it, and what was printed *)
(* is still in the buffer of the FILE) or holds a key.                     *)
(***************************************************************************)
EXTENDS Integers

CONSTANTS
  Keys,        (* the keys Tor may make                                     *)
  MaxFailures  (* bound: how often the server or Tor fails                  *)

ASSUME OnionKeysAssumption ==
  /\ Keys \cap {"null", "absent", "empty", "crash"} = {}
  /\ MaxFailures \in Nat

NoKey == "null"

VARIABLES
  pub, priv,   (* onion_services.pub and onion_services.txt                 *)
  pc,          (* where the server is in create_onion_services              *)
  filled, key, (* tos->filled and tos->keys[0]                              *)
  conn,        (* the control connection of this run is open                *)
  served,      (* the address Tor serves for it                             *)
  dying,       (* those of earlier runs that Tor has not dropped yet        *)
  made,        (* the keys made so far                                      *)
  copy,        (* the client's copy of the public file                      *)
  client,      (* the address the client dials                              *)
  failures     (* of the server and of Tor                                  *)

server == <<filled, key>>
tor == <<conn, served, dying, made>>
users == <<copy, client>>
vars == <<pub, priv, pc, server, tor, users, failures>>

Files == Keys \cup {"absent", "empty"}
Steps == {"down", "connect", "add", "open-pub", "write-pub", "open-priv", "write-priv", "up"}

(* A copy is sure when it was taken from a server that was up. *)
Copies == [key : Files \cup {"crash"}, sure : BOOLEAN]
NoCopy == [key |-> "absent", sure |-> FALSE]

Init ==
  /\ pub = "absent" /\ priv = "absent" /\ pc = "down"
  /\ filled = 0 /\ key = NoKey
  /\ conn = FALSE /\ served = NoKey /\ dying = {} /\ made = {}
  /\ copy = NoCopy /\ client = NoCopy
  /\ failures = 0

----------------------------------------------------------------------------
(* The server. *)

(* Mutant: the keys read from the file are not counted. *)
StartUncounted ==
  /\ pc = "down" /\ pc' = "connect"
  /\ filled' = 0
  /\ key' = IF priv \in Keys THEN priv ELSE NoKey
  /\ UNCHANGED <<pub, priv, tor, users, failures>>

(* tor_os_create and tor_os_read.  tor_os_append_cursor counts a key before *)
(* it is read: in an empty file there is none, and it counts all the same. *)
Start ==
  /\ pc = "down" /\ pc' = "connect"
  /\ filled' = IF priv = "absent" THEN 0 ELSE 1
  /\ key' = IF priv \in Keys THEN priv ELSE NoKey
  /\ UNCHANGED <<pub, priv, tor, users, failures>>

(* tor_ctl_connect, the authentication included. *)
Connect ==
  /\ pc = "connect" /\ pc' = "add"
  /\ conn' = TRUE
  /\ UNCHANGED <<pub, priv, server, served, dying, made, users, failures>>

(* The process ends, with its memory and its control connection. *)
Exit ==
  /\ pc' = "down" /\ filled' = 0 /\ key' = NoKey
  /\ conn' = FALSE /\ served' = NoKey
  /\ dying' = dying \cup ({served} \ {NoKey})
  /\ UNCHANGED <<pub, priv, made, users>>

(* Tor takes a key, and no address twice. *)
TorTakes(k) == conn /\ k \in Keys /\ k \notin dying

(* Mutant: the server waits for the answer it knows. *)
AddFromFileWaits ==
  /\ pc = "add" /\ filled = 1 /\ TorTakes(key)
  /\ pc' = "up" /\ served' = key
  /\ UNCHANGED <<pub, priv, server, conn, dying, made, users, failures>>

(* tor_ctl_add_onion, the key from the file.  Nothing is to be created, so  *)
(* the files stay; what Tor refuses ends the server.                       *)
AddFromFile ==
  /\ pc = "add" /\ filled = 1
  /\ \/ /\ TorTakes(key)
        /\ pc' = "up" /\ served' = key
        /\ UNCHANGED <<pub, priv, server, conn, dying, made, users>>
     \/ ~ TorTakes(key) /\ Exit
  /\ UNCHANGED failures

(* Mutant: the new key is counted, and not copied. *)
AddNewCounted ==
  /\ pc = "add" /\ filled = 0 /\ conn
  /\ \E k \in Keys \ made : made' = made \cup {k} /\ served' = k
  /\ filled' = 1 /\ pc' = "open-pub"
  /\ UNCHANGED <<pub, priv, key, conn, dying, users, failures>>

(* tor_ctl_add_onion, a new key, and tor_os_append. *)
AddNew ==
  /\ pc = "add" /\ filled = 0 /\ conn
  /\ \E k \in Keys \ made :
       /\ made' = made \cup {k} /\ served' = k
       /\ key' = k /\ filled' = 1
  /\ pc' = "open-pub"
  /\ UNCHANGED <<pub, priv, conn, dying, users, failures>>

(* Its connection is gone: no answer. *)
AddNewFails == pc = "add" /\ filled = 0 /\ ~ conn /\ Exit /\ UNCHANGED failures

(* tor_os_persist, four steps: fopen() cuts a file, fclose() writes it. *)
OpenPub ==
  /\ pc = "open-pub" /\ pc' = "write-pub"
  /\ pub' = "empty"
  /\ UNCHANGED <<priv, server, tor, users, failures>>

WritePub ==
  /\ pc = "write-pub" /\ pc' = "open-priv"
  /\ pub' = key
  /\ UNCHANGED <<priv, server, tor, users, failures>>

OpenPriv ==
  /\ pc = "open-priv" /\ pc' = "write-priv"
  /\ priv' = "empty"
  /\ UNCHANGED <<pub, server, tor, users, failures>>

WritePriv ==
  /\ pc = "write-priv" /\ pc' = "up"
  /\ priv' = key
  /\ UNCHANGED <<pub, server, tor, users, failures>>

----------------------------------------------------------------------------
(* Failures, Tor and the client. *)

(* The server is killed or stopped, Tor cannot be reached, a file cannot be *)
(* opened.                                                                 *)
Fail ==
  /\ pc # "down" /\ failures < MaxFailures
  /\ failures' = failures + 1
  /\ Exit

(* Tor restarts.  Nobody watches the control connection once it was used.  *)
TorRestarts ==
  /\ failures < MaxFailures
  /\ failures' = failures + 1
  /\ conn' = FALSE /\ served' = NoKey /\ dying' = {}
  /\ UNCHANGED <<pub, priv, pc, server, made, users>>

(* Tor notices that the connection of an earlier run was closed. *)
TorDrops ==
  /\ \E k \in dying : dying' = dying \ {k}
  /\ UNCHANGED <<pub, priv, pc, server, conn, served, made, users, failures>>

(* The public file is copied to the client, at any time. *)
Copy ==
  /\ copy' = [key |-> pub, sure |-> pc = "up"]
  /\ UNCHANGED <<pub, priv, pc, server, tor, client, failures>>

(* load_onion_services and init_socks5_client.  Without a key in the file   *)
(* the client takes the length of a string that is not there.              *)
ClientStarts ==
  /\ copy.key # "absent"
  /\ client' = IF copy.key \in Keys THEN copy ELSE [key |-> "crash", sure |-> FALSE]
  /\ UNCHANGED <<pub, priv, pc, server, tor, copy, failures>>

Server == \/ Start \/ Connect \/ AddFromFile \/ AddNew \/ AddNewFails
          \/ OpenPub \/ WritePub \/ OpenPriv \/ WritePriv

Next == Server \/ Fail \/ TorRestarts \/ TorDrops \/ Copy \/ ClientStarts

(* The server is started again when it has ended, and goes on; Tor notices  *)
(* closed connections.                                                     *)
Spec == Init /\ [][Next]_vars /\ WF_vars(Server) /\ WF_vars(TorDrops)

----------------------------------------------------------------------------

TypeOK ==
  /\ pub \in Files /\ priv \in Files /\ pc \in Steps
  /\ filled \in {0, 1} /\ key \in Keys \cup {NoKey}
  /\ conn \in BOOLEAN /\ served \in Keys \cup {NoKey}
  /\ dying \subseteq Keys /\ made \subseteq Keys
  /\ copy \in Copies /\ client \in Copies
  /\ failures \in Nat

(* An address that a client was given while the server was up is the one    *)
(* every later run serves, if it gets up and keeps its connection to Tor,  *)
(* wherever earlier runs failed: a key that clients know is never replaced *)
(* by a new one.                                                           *)
AddressKept ==
  pc = "up" /\ client.sure => key = client.key /\ (conn => served = client.key)

(* A server that is started again gets up, whatever failed before, and then *)
(* serves its key unless Tor restarted: only a failure between the two     *)
(* steps that rewrite the private file ends that for good.                 *)
ServesAgain ==
  \/ <>[](pc = "up" /\ (conn => served = key /\ key = priv))
  \/ <>[](priv = "empty")

============================================================================
