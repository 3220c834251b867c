---------------------------- MODULE MCClientLinks ----------------------------
(* Values for the constants of ClientLinks that a configuration cannot     *)
(* spell.                                                                  *)
EXTENDS ClientLinks

MCFds  == 1 .. (2 * NLinks + 2)
MCUrls == {"start", "failed", "broke", "socks5", "tcp-read", "tcp-write"} \X (1 .. NLinks)

============================================================================
