--------------------------- MODULE MCLightningSched ---------------------------
(* The lightning scheduler for TLC.                                        *)
EXTENDS LightningSched

============================================================================
