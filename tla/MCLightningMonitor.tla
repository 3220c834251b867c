------------------------- MODULE MCLightningMonitor -------------------------
(* The lightning monitor for TLC.  With Room = 3 the first three datagrams *)
(* would fit one cell, which two links rule out; the fourth fits no cell   *)
(* but its own.                                                            *)
EXTENDS LightningMonitor

MCSizes == <<1, 1, 1, 3>>

============================================================================
