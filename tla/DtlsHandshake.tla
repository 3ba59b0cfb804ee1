--------------------------- MODULE DtlsHandshake ---------------------------
(***************************************************************************)
(* How OpenSSL carries the handshake of DTLS over datagrams:               *)
(* ssl/statem/statem_dtls.c, ssl/d1_lib.c and the parts of                 *)
(* ssl/statem/statem.c and ssl/record/rec_layer_d1.c that call them.  The  *)
(* two peers send flights of messages in turn.  A message is cut into      *)
(* fragments; the network loses, repeats and reorders them; the receiver   *)
(* puts them together and takes the messages in order.  A flight is kept   *)
(* and sent again at a timeout until the whole answer is there.  What a    *)
(* message says is left out, and so are the ChangeCipherSpecs, which       *)
(* travel with the Finished messages here (see DtlsRecordLayer).           *)
(***************************************************************************)
EXTENDS Integers, Sequences, FiniteSets

CONSTANTS
    Client, Server,
    Flights,          \* the lengths of the messages of each flight
    MTU, FALLBACK_MTU,\* room for a fragment's body in a datagram
    BITS,             \* bits in a byte of the reassembly bitmask, 8
    WINDOW,           \* how far ahead a message may be, 10
    ALERT_COUNT,      \* DTLS1_TMO_ALERT_COUNT, 12
    MTU_ALERTS,       \* timeouts before the MTU is reduced, 2
    NULL

ASSUME HandshakeAssumption ==
    /\ Client # Server
    /\ Len(Flights) \in {4}
    /\ \A k \in 1..Len(Flights) : Flights[k] \in Seq(Nat) /\ Flights[k] # <<>>
    /\ FALLBACK_MTU \in Nat \ {0} /\ MTU \in Nat /\ MTU >= FALLBACK_MTU
    /\ BITS \in Nat \ {0} /\ WINDOW \in Nat \ {0}
    /\ ALERT_COUNT \in Nat /\ MTU_ALERTS \in Nat
    /\ \A k \in 1..Len(Flights) : \A i \in 1..Len(Flights[k]) :
         \A mask \in SUBSET (0..Flights[k][i] - 1) : mask # NULL
    /\ NULL \notin [got : SUBSET Nat, reassembly : {NULL} \cup SUBSET Nat]

Peers == {Client, Server}
Other(p) == CHOOSE q \in Peers : q # p

VARIABLES
    peer,  \* the state of each peer's connection
    net    \* the fragments that the network can bring to each peer

vars == <<peer, net>>

-----------------------------------------------------------------------------
(***************************************************************************)
(* Messages.  Flight k is of the client for odd k; handshake_write_seq     *)
(* counts the messages of one peer over all its flights.                   *)
(***************************************************************************)

Author(k) == IF k % 2 = 1 THEN Client ELSE Server

\* The first sequence number of flight k: after those of flight k - 2.
Start(k) == IF k <= 2 THEN 0 ELSE Len(Flights[k - 2])

SeqsOf(k) == Start(k)..Start(k) + Len(Flights[k]) - 1

LastFlight == Len(Flights)

\* The flight of message seq of peer p, and its length.
FlightOf(p, seq) ==
    CHOOSE k \in 1..LastFlight : Author(k) = p /\ seq \in SeqsOf(k)

MsgLen(p, seq) ==
    LET k == FlightOf(p, seq) IN Flights[k][seq - Start(k) + 1]

\* The last message of each peer is its Finished.
IsFinished(p, seq) ==
    LET k == FlightOf(p, seq)
    IN  k >= LastFlight - 1 /\ seq = Start(k) + Len(Flights[k]) - 1

Positions(len) == 0..len - 1

\* dtls1_do_write: the fragments that a message may be sent in.  Where it is
\* cut depends on the room that is left in the datagram under way
\* (BIO_wpending) and on max_send_fragment, so it is anywhere, and elsewhere
\* when the message is sent again.  Only an empty message has an empty one.
Fragments(p, seq, mtu) ==
    LET len == MsgLen(p, seq)
    IN  {f \in [seq : {seq}, off : 0..len, len : 0..mtu] :
           /\ f.off + f.len <= len
           /\ f.len = 0 => len = 0}

-----------------------------------------------------------------------------
(***************************************************************************)
(* The reassembly bitmask, a set of positions.                             *)
(***************************************************************************)

\* RSMBLY_BITMASK_MARK with a last byte that is filled up.
MarkWholeLastByte(start, end) ==
    IF end - start <= BITS
      THEN start..end - 1
      ELSE start..((end - 1) \div BITS + 1) * BITS - 1

\* RSMBLY_BITMASK_MARK: bit by bit, or the first byte from start on, whole
\* bytes, and the last byte up to end.
RSMBLY_BITMASK_MARK(start, end) ==
    LET first == start \div BITS
        last == (end - 1) \div BITS
    IN  IF end - start <= BITS
          THEN start..end - 1
          ELSE (start..(first + 1) * BITS - 1)
                 \cup ((first + 1) * BITS..last * BITS - 1)
                 \cup (last * BITS..last * BITS
                         + (IF end % BITS = 0 THEN BITS ELSE end % BITS) - 1)

\* RSMBLY_BITMASK_IS_COMPLETE: the last byte has the bits up to len, and
\* those before it have all bits.
RSMBLY_BITMASK_IS_COMPLETE(mask, len) ==
    LET last == (len - 1) \div BITS
    IN  /\ {x \in mask : x >= last * BITS} = last * BITS..len - 1
        /\ 0..last * BITS - 1 \subseteq mask

-----------------------------------------------------------------------------
MaxSeq == Start(LastFlight) + Len(Flights[LastFlight])
            + Start(LastFlight - 1) + Len(Flights[LastFlight - 1])

Seqs == 0..MaxSeq

\* A message under reassembly: the bytes it has, and the bitmask, NULL when
\* it is complete.
Buffered == [got : SUBSET Nat, reassembly : {NULL} \cup SUBSET Nat]

Connection ==
    [state : {"writing", "reading", "done", "failed"},
     flight : 1..LastFlight + 1,
     read_seq : Seqs, write_seq : Seqs,
     buffered : [Seqs -> Buffered \cup {NULL}],
     sent : SUBSET Seqs,
     timer : BOOLEAN,
     num_alerts : 0..ALERT_COUNT + 1,
     mtu : {MTU, FALLBACK_MTU}]

Fragment == [seq : Seqs, off : Nat, len : 0..MTU]

\* The state has its types; timeouts are counted up to the one that ends the
\* connection (dtls1_check_timeout_num) and no further.
TypeOK ==
    /\ peer \in [Peers -> Connection]
    /\ net \in [Peers -> SUBSET Fragment]
    /\ \A p \in Peers :
         peer[p].state # "failed" => peer[p].num_alerts <= ALERT_COUNT

Init ==
    /\ peer = [p \in Peers |->
         [state |-> IF p = Client THEN "writing" ELSE "reading",
          flight |-> 1,                          \* the one it is at
          read_seq |-> 0, write_seq |-> 0,
          buffered |-> [q \in Seqs |-> NULL],    \* d1->buffered_messages
          sent |-> {},                           \* d1->sent_messages
          timer |-> FALSE, num_alerts |-> 0, mtu |-> MTU]]
    /\ net = [p \in Peers |-> {}]

-----------------------------------------------------------------------------
(***************************************************************************)
(* Sending.                                                                *)
(***************************************************************************)

\* The timer is not used for a flight with a Finished.
UseTimerNoFinished(k) == k < LastFlight - 1

\* st->use_timer: the last flight is sent again only when it is asked for.
UseTimer(k) == k < LastFlight

\* tls_finish_handshake.
EndHandshake(d) ==
    [d EXCEPT !.state = "done", !.read_seq = 0, !.write_seq = 0,
              !.buffered = [q \in Seqs |-> NULL]]

\* write_state_machine, for one message: it is numbered, kept, and sent.
WriteMessage(p) ==
    LET d == peer[p]
        seq == d.write_seq
        isLast == seq = Start(d.flight) + Len(Flights[d.flight]) - 1
        e == [d EXCEPT !.write_seq = seq + 1, !.sent = @ \cup {seq},
                       !.timer = @ \/ UseTimer(d.flight)]
    IN  /\ d.state = "writing"
        /\ net' = [net EXCEPT ![Other(p)] = @ \cup Fragments(p, seq, d.mtu)]
        /\ peer' = [peer EXCEPT ![p] =
             IF ~isLast THEN e
             ELSE IF d.flight = LastFlight
                    THEN EndHandshake([e EXCEPT !.flight = @ + 1])
                    ELSE [e EXCEPT !.state = "reading", !.flight = @ + 1]]

\* dtls1_check_timeout_num, on the connection that it returns.
dtls1_check_timeout_num(d) ==
    [d EXCEPT !.num_alerts = @ + 1,
              !.mtu = IF d.num_alerts + 1 > MTU_ALERTS THEN FALLBACK_MTU ELSE @,
              !.state = IF d.num_alerts + 1 > ALERT_COUNT THEN "failed" ELSE @]

\* dtls1_retransmit_buffered_messages, unless the connection has failed.
Retransmit(p, d) ==
    net' = IF d.state = "failed"
             THEN net
             ELSE [net EXCEPT ![Other(p)] =
                    @ \cup UNION {Fragments(p, seq, d.mtu) : seq \in d.sent}]

\* dtls1_handle_timeout, of a peer that waits for a flight: a write does not
\* block here, so none is under way when the application handles a timeout.
dtls1_handle_timeout(p) ==
    LET d == dtls1_check_timeout_num(peer[p])
    IN  /\ peer[p].state = "reading" /\ peer[p].timer
        /\ peer' = [peer EXCEPT ![p] = d]
        /\ Retransmit(p, d)

dtls1_stop_timer(d) ==
    [d EXCEPT !.timer = FALSE, !.num_alerts = 0, !.sent = {}]

-----------------------------------------------------------------------------
(***************************************************************************)
(* Receiving.                                                              *)
(***************************************************************************)

\* The first message of a flight is taken for all of it.
EndsReadingAtFirst(d) == d.read_seq = Start(d.flight)

\* Whether the message just read ends the flight that is being read.
EndsReading(d) ==
    d.read_seq = Start(d.flight) + Len(Flights[d.flight]) - 1

\* It is the peer's turn, or the handshake is over.
Turn(d) ==
    IF d.flight = LastFlight
      THEN EndHandshake([d EXCEPT !.flight = @ + 1])
      ELSE [d EXCEPT !.state = "writing", !.flight = @ + 1]

\* What was sent is given up when the answer begins.
HandUpStopsEarly(d) ==
    LET e == dtls1_stop_timer([d EXCEPT !.read_seq = @ + 1])
    IN  IF EndsReading(d) THEN Turn(e) ELSE e

\* A message is handed to the state machine, after which dtls_get_message
\* expects the next one; at the end of the flight the timer is stopped.
HandUp(d) ==
    LET e == [d EXCEPT !.read_seq = @ + 1]
    IN  IF EndsReading(d) THEN Turn(dtls1_stop_timer(e)) ELSE e

\* The loop of dtls1_retrieve_buffered_fragment: stale messages go.
DropStale(d) ==
    [d EXCEPT !.buffered =
       [q \in Seqs |-> IF q < d.read_seq THEN NULL ELSE d.buffered[q]]]

\* Whether dtls1_retrieve_buffered_fragment has the next message.  The queue
\* is sorted, so that a message at this number is the first.
HasNext(d) ==
    /\ d.buffered[d.read_seq] # NULL
    /\ d.buffered[d.read_seq].reassembly = NULL

RetrieveBuffered(p) ==
    LET d == DropStale(peer[p])
    IN  /\ peer[p].state = "reading" /\ HasNext(d)
        /\ peer' = [peer EXCEPT ![p] =
             HandUp([d EXCEPT !.buffered[d.read_seq] = NULL])]
        /\ UNCHANGED net

\* dtls1_reassemble_fragment.
dtls1_reassemble_fragment(d, f, msg_len) ==
    LET b == IF d.buffered[f.seq] = NULL
               THEN [got |-> {}, reassembly |-> {}]
               ELSE d.buffered[f.seq]
        mask == b.reassembly \cup RSMBLY_BITMASK_MARK(f.off, f.off + f.len)
        c == [got |-> b.got \cup (f.off..f.off + f.len - 1),
              reassembly |-> IF RSMBLY_BITMASK_IS_COMPLETE(mask, msg_len)
                               THEN NULL ELSE mask]
    IN  IF b.reassembly = NULL
          THEN d   \* a retransmit of a message that is complete
          ELSE [d EXCEPT !.buffered[f.seq] = c]

\* What dtls1_process_out_of_seq_message throws away.
Discard(p, d, f) ==
    \/ f.seq <= d.read_seq
    \/ f.seq > d.read_seq + WINDOW
    \/ d.buffered[f.seq] # NULL /\ f.len = MsgLen(Other(p), f.seq)
    \/ d.read_seq = 0 /\ IsFinished(Other(p), f.seq)

dtls1_process_out_of_seq_message(p, d, f) ==
    LET msg_len == MsgLen(Other(p), f.seq)
    IN  IF Discard(p, d, f)
          THEN d
          ELSE IF f.len # msg_len
                 THEN dtls1_reassemble_fragment(d, f, msg_len)
                 ELSE [d EXCEPT !.buffered[f.seq] =
                         [got |-> Positions(msg_len), reassembly |-> NULL]]

\* dtls_get_reassembled_message, once it has read a fragment.
ReadFragment(p) ==
    LET d == DropStale(peer[p])
    IN  /\ peer[p].state = "reading" /\ ~HasNext(d)
        /\ \E f \in net[p] :
             LET msg_len == MsgLen(Other(p), f.seq)
             IN  peer' = [peer EXCEPT ![p] =
                   IF f.seq # d.read_seq
                     THEN dtls1_process_out_of_seq_message(p, d, f)
                     ELSE IF f.len > 0 /\ f.len < msg_len
                            THEN dtls1_reassemble_fragment(d, f, msg_len)
                            ELSE HandUp(d)]
        /\ UNCHANGED net

\* dtls1_read_bytes out of a handshake: a repeated Finished asks for the last
\* flight again.  Other messages are of an older epoch and are dropped.
RepeatedFinished(p) ==
    LET d == dtls1_check_timeout_num(peer[p])
    IN  /\ peer[p].state = "done"
        /\ \E f \in net[p] : IsFinished(Other(p), f.seq)
        /\ peer' = [peer EXCEPT ![p] = d]
        /\ Retransmit(p, d)

Next ==
    \E p \in Peers :
      \/ WriteMessage(p) \/ dtls1_handle_timeout(p) \/ RetrieveBuffered(p)
      \/ ReadFragment(p) \/ RepeatedFinished(p)

Spec == Init /\ [][Next]_vars

\* A peer does what it can without the network, and its timers go off.
FairSpec ==
    /\ Spec
    /\ \A p \in Peers :
         /\ WF_vars(WriteMessage(p))
         /\ WF_vars(RetrieveBuffered(p))
         /\ WF_vars(dtls1_handle_timeout(p))

-----------------------------------------------------------------------------
(***************************************************************************)
(* What the transport promises.                                            *)
(***************************************************************************)

\* The number after the last one of flight k.
EndOf(k) == Start(k) + Len(Flights[k])

\* How many messages a peer has numbered, also when the count starts over.
Numbered(p) ==
    IF peer[p].flight <= LastFlight
      THEN peer[p].write_seq
      ELSE EndOf(IF Author(LastFlight) = p THEN LastFlight ELSE LastFlight - 1)

\* dtls1_reassemble_fragment: a message is taken for complete when all its
\* bytes have come, and no sooner, whatever the sizes of the fragments that
\* brought them; until then the bitmask says which have, and nothing is put
\* behind the end of the message.
ReassembledIsWhole ==
    \A p \in Peers, q \in Seqs :
      LET b == peer[p].buffered[q]
      IN  b # NULL =>
            IF b.reassembly = NULL
              THEN b.got = Positions(MsgLen(Other(p), q))
              ELSE /\ b.reassembly = b.got
                   /\ b.got \subseteq Positions(MsgLen(Other(p), q))
                   /\ b.got # Positions(MsgLen(Other(p), q))

\* dtls1_process_out_of_seq_message: a peer buffers nothing that is too far
\* ahead, however the messages come; so what it buffers is bounded.
BufferIsBounded ==
    \A p \in Peers :
      Cardinality({q \in Seqs : DropStale(peer[p]).buffered[q] # NULL})
        <= WINDOW + 1

\* dtls1_stop_timer and dtls1_clear_sent_buffer: while a peer waits for a
\* flight that the other has sent, the other keeps all of it, also after it
\* has ended the handshake; and one of the two has a timer that makes it send
\* something.  So nothing that is lost is lost for good.
LastFlightIsKept ==
    \A p \in Peers :
      LET q == Other(p)
      IN  peer[q].state = "reading" /\ peer[p].flight = peer[q].flight + 1
            => /\ peer[p].sent = SeqsOf(peer[q].flight)
               /\ \/ peer[p].state = "failed"
                  \/ \E x \in Peers : peer[x].timer /\ peer[x].sent # {}

\* read_state_machine: the peers take turns, at most one flight apart, and
\* none of them ends the handshake before the other's Finished was sent.
PeersInStep ==
    LET c == peer[Client].flight
        s == peer[Server].flight
    IN  /\ c - s \in {-1, 0, 1}
        /\ \A p \in Peers :
             peer[p].state = "done" =>
               \E f \in net[p] : IsFinished(Other(p), f.seq)

\* A peer writes at its own flights, while the other is at the same one, and
\* reads, or has given up, at those of the other.
TurnsAreTaken ==
    \A p \in Peers :
      LET k == peer[p].flight
      IN  /\ IF k > LastFlight
               THEN peer[p].state \in {"done", "failed"}
               ELSE IF Author(k) = p
                      THEN peer[p].state = "writing"
                      ELSE peer[p].state \in {"reading", "failed"}
          /\ k <= LastFlight /\ Author(k) = p => peer[Other(p)].flight = k

\* handshake_write_seq and next_handshake_write_seq, and handshake_read_seq,
\* go through the messages of the flights in turn.
SeqsFollowFlights ==
    \A p \in Peers :
      LET d == peer[p]
          k == d.flight
      IN  /\ d.state = "writing" =>
               /\ d.write_seq \in SeqsOf(k)
               /\ k < LastFlight => d.read_seq = Start(k + 1)
          /\ k <= LastFlight /\ d.state # "writing" =>
               d.write_seq = IF k = 1 THEN 0 ELSE EndOf(k - 1)
          /\ d.state = "reading" => d.read_seq \in SeqsOf(k)

\* d1->sent_messages: a peer keeps the part of its flight that it has sent,
\* and all of it, with a timer that runs, while it reads the answer; the
\* timeouts of one flight do not count for the next (d1->timeout).
FlightIsKept ==
    \A p \in Peers :
      LET d == peer[p]
          k == d.flight
      IN  /\ d.state = "writing" =>
               d.sent = Start(k)..d.write_seq - 1 /\ d.num_alerts = 0
          /\ k <= LastFlight /\ d.state # "writing" =>
               IF k = 1 THEN d.sent = {} ELSE d.sent = SeqsOf(k - 1) /\ d.timer
          /\ k > LastFlight =>
               d.sent = IF Author(LastFlight) = p THEN SeqsOf(LastFlight) ELSE {}

\* Whatever the network does, it brings fragments of the messages that the
\* other peer has numbered so far, and has brought some of each of them; and
\* what is buffered came that way, within the window.
NothingMadeUp ==
    \A p \in Peers :
      LET q == Other(p)
      IN  /\ {f.seq : f \in net[q]} = 0..Numbered(p) - 1
          /\ \A f \in net[q] : f.off + f.len <= MsgLen(p, f.seq)
          /\ \A m \in Seqs :
               peer[q].buffered[m] # NULL =>
                 m < Numbered(p) /\ m <= peer[q].read_seq + WINDOW

\* What holds of both peers at any time: their types, the bound on what they
\* buffer before it is authenticated, that they take turns, that they count
\* and keep messages accordingly, and that none is made up.
HandshakeInvariant ==
    /\ TypeOK
    /\ BufferIsBounded
    /\ PeersInStep
    /\ TurnsAreTaken
    /\ SeqsFollowFlights
    /\ FlightIsKept
    /\ NothingMadeUp

\* dtls1_check_timeout_num: a peer that has started a handshake gets to its
\* end, or gives up after so many timeouts; it does not wait for ever.
HandshakeEnds ==
    \A p \in Peers :
      peer[p].state = "writing" ~> peer[p].state \in {"done", "failed"}

=============================================================================
