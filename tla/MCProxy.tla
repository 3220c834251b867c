------------------------------ MODULE MCProxy ------------------------------
(* Values for the constants of Proxy that a configuration cannot spell.    *)
EXTENDS Proxy

MCFds  == 1 .. (2 + NPorts + 2 * MaxConns)
MCUrls == CatNames \X (0 .. NPorts)
MCPackets == 0 .. MaxPackets

============================================================================
