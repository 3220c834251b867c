----------------------------- MODULE LossyOrder -----------------------------
(***************************************************************************)
(* What Donar promises of the datagrams of one direction when it           *)
(* deduplicates: some may be lost, but those that come out come out once   *)
(* and in the order they went in.  Datagrams are numbered from 1 as they   *)
(* go in.                                                                  *)
(***************************************************************************)
EXTENDS Naturals

CONSTANT Starts   (* pairs <<datagrams in so far, last one out>> to start from *)

VARIABLES
  sent,   (* how many datagrams went in                                    *)
  out     (* the last one that came out, 0 before the first                *)

Init == \E s \in Starts : sent = s[1] /\ out = s[2]

In == sent' = sent + 1 /\ UNCHANGED out

Out == \E n \in (out + 1) .. sent : out' = n /\ UNCHANGED sent

Next == In \/ Out

Spec == Init /\ [][Next]_<<sent, out>>

=============================================================================
