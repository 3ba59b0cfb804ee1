-------------------------- MODULE MCDtlsHandshake --------------------------
(***************************************************************************)
(* A small instance of DtlsHandshake for TLC: a ClientHello of one byte;   *)
(* three messages of the server, one of them empty; a ClientKeyExchange    *)
(* and a Finished; a NewSessionTicket and the other Finished.  Messages of *)
(* five and seven bytes do not fit into a datagram.                        *)
(***************************************************************************)
EXTENDS DtlsHandshake

MCFlights == << <<1>>, <<7, 0, 5>>, <<5, 1>>, <<5, 1>> >>

=============================================================================
