------------------------- MODULE MCDtlsRecordLayer -------------------------
(***************************************************************************)
(* A small instance of DtlsRecordLayer for TLC: two handshakes, records    *)
(* that leave the window, forged ones in every epoch, the one that never   *)
(* comes included.                                                         *)
(***************************************************************************)
EXTENDS DtlsRecordLayer

Rec(e, s, t, g) == [epoch |-> e, seq |-> s, type |-> t, good |-> g]

\* Sequence numbers 0 to 5 under a window of three.  A flight that is
\* retransmitted, here the CCS and the Finished, gets new numbers.
MCSent ==
    {Rec(0, 0, "handshake", TRUE), Rec(0, 1, "ccs", TRUE),
     Rec(0, 4, "ccs", TRUE),
     Rec(1, 0, "finished", TRUE), Rec(1, 0, "finished", FALSE),
     Rec(1, 1, "finished", TRUE), Rec(1, 2, "data", TRUE),
     Rec(1, 3, "alert", TRUE), Rec(1, 3, "data", FALSE),
     Rec(1, 5, "ccs", TRUE),
     Rec(2, 0, "finished", TRUE), Rec(2, 0, "alert", FALSE),
     Rec(2, 1, "alert", TRUE), Rec(2, 2, "data", TRUE),
     Rec(3, 0, "handshake", FALSE)}

=============================================================================
