----------------------------- MODULE MCBioPair -----------------------------
(***************************************************************************)
(* A small instance of BioPair for TLC: one direction has a ring buffer of *)
(* up to three bytes, the other of one.                                    *)
(***************************************************************************)
EXTENDS BioPair

CONSTANTS b1, b2

MCBios == {b1, b2}
MCSizes == [b \in MCBios |-> IF b = b1 THEN {3} ELSE {}]

=============================================================================
