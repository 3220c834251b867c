------------------------------- MODULE MCDup2 -------------------------------
(* Instances of Dup2 for TLC: from the start, in the middle of the         *)
(* identifiers, around the wrap, and at the edge of the window.            *)
EXTENDS Dup2

MCStarts == {<<0, 0>>, <<65533, 65533>>, <<65536, 65534>>, <<32770, 4>>,
             <<98300, 65535>>}

=============================================================================
