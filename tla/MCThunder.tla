------------------------------ MODULE MCThunder ------------------------------
(* Thunder for TLC: what the two ends send.                                *)
EXTENDS Thunder

MCMaxSent == [p \in Peers |-> IF p = "client" THEN 3 ELSE 2]

============================================================================
