-------------------------- MODULE DtlsRecordLayer --------------------------
(***************************************************************************)
(* The receiving side of OpenSSL's DTLS record layer: dtls1_read_bytes,    *)
(* dtls1_get_record, the buffering of records of the next epoch            *)
(* (ssl/record/rec_layer_d1.c, ssl3_record.c) and the replay window        *)
(* (dtls1_bitmap.c).                                                       *)
(*                                                                         *)
(* The network delivers any record of the peer at any time, again and      *)
(* again, or never, and forged records, with any header and a bad MAC; a   *)
(* datagram carries several records.  A record is [epoch, seq, type,       *)
(* good].  The 64-bit map is the set of the shifts whose bit is 1.         *)
(***************************************************************************)
EXTENDS Integers, FiniteSets

CONSTANTS
    Sent,         \* records that can arrive
    WINDOW,       \* bits of DTLS1_BITMAP.map, 64
    QUEUE_LIMIT,  \* records dtls1_buffer_record keeps, 100
    MAX_EPOCH,    \* bound: handshakes
    MAX_LEFT,     \* bound: further records in one datagram
    NoRecord      \* rr->length == 0

Types == {"handshake", "finished", "ccs", "alert", "data"}

Records == [epoch : 0..MAX_EPOCH + 1, seq : Nat, type : Types, good : BOOLEAN]

\* The rest of a datagram: how many records are left in it, and the newest
\* epoch that the peer had keys for when it arrived.
Datagrams == [left : 0..MAX_LEFT, epoch : 0..MAX_EPOCH + 1]
NoData == [left |-> 0, epoch |-> 0]

Queues == {"unprocessed", "processed", "buffered_app"}

Bitmaps == [max_seq_num : Nat, map : SUBSET (0..WINDOW - 1)]

ASSUME RecordLayerAssumption ==
    /\ Sent \subseteq Records
    /\ WINDOW \in Nat \ {0}
    /\ QUEUE_LIMIT \in Nat \ {0}
    /\ MAX_EPOCH \in Nat
    /\ MAX_LEFT \in Nat
    /\ NoRecord \notin Records

VARIABLES
    pc,            \* where dtls1_read_bytes is
    r_epoch,       \* the epoch of the read keys
    bitmap,        \* replay window of r_epoch
    next_bitmap,   \* replay window of r_epoch + 1
    unprocessed,   \* unprocessed_rcds.q
    unprocessed_epoch,  \* unprocessed_rcds.epoch
    processed,     \* processed_rcds.q
    buffered_app,  \* buffered_app_data.q
    rrec,          \* the record being handed up
    rbuf,          \* the rest of the current datagram
    kept,          \* the rests kept with the records in the queues
    in_init,       \* SSL_in_init
    change_cipher_spec,  \* between the peer's CCS and its Finished
    in_error,      \* ossl_statem_in_error
    accepted,      \* history: records that passed dtls1_process_record
    handed         \* history: records given to the caller of read_bytes

windows == <<bitmap, next_bitmap>>
queues == <<unprocessed, unprocessed_epoch, processed, buffered_app>>
buffers == <<rbuf, kept>>
handshake == <<r_epoch, next_bitmap, in_init, change_cipher_spec>>
vars == <<pc, r_epoch, bitmap, next_bitmap, unprocessed, unprocessed_epoch,
          processed, buffered_app, rrec, rbuf, kept, in_init, change_cipher_spec,
          in_error, accepted, handed>>

-----------------------------------------------------------------------------
(***************************************************************************)
(* The replay window.                                                      *)
(***************************************************************************)

EmptyBitmap == [max_seq_num |-> 0, map |-> {}]

\* A difference of twice the window counts as far away in either direction.
satsub64be(a, b) ==
    IF a - b > 2 * WINDOW THEN 2 * WINDOW
    ELSE IF a - b < -2 * WINDOW THEN -2 * WINDOW ELSE a - b

dtls1_record_replay_check(b, seq) ==
    LET cmp == satsub64be(seq, b.max_seq_num)
    IN  cmp > 0 \/ (-cmp < WINDOW /\ -cmp \notin b.map)

\* The old map is kept where it lies when the window moves.
BitmapUpdateUnshifted(b, seq) ==
    LET cmp == satsub64be(seq, b.max_seq_num)
    IN  IF cmp > 0
          THEN [max_seq_num |-> seq, map |-> b.map \cup {0}]
          ELSE [b EXCEPT !.map = @ \cup ({-cmp} \cap 0..WINDOW - 1)]

\* map <<= shift, and map |= 1UL << shift within the window.
dtls1_record_bitmap_update(b, seq) ==
    LET cmp == satsub64be(seq, b.max_seq_num)
    IN  IF cmp > 0
          THEN [max_seq_num |-> seq,
                map |-> ({s + cmp : s \in b.map} \cap 0..WINDOW - 1)
                         \cup {0}]
          ELSE [b EXCEPT !.map = @ \cup ({-cmp} \cap 0..WINDOW - 1)]

-----------------------------------------------------------------------------
(***************************************************************************)
(* Queues, ordered by sequence number, which does not include the epoch.   *)
(***************************************************************************)

\* The queue grows with what arrives.
BufferRecordUnlimited(q, r) ==
    IF \E x \in q : x.seq = r.seq THEN q ELSE q \cup {r}

\* pqueue_insert keeps the record that came first under a number.
dtls1_buffer_record(q, r) ==
    IF Cardinality(q) >= QUEUE_LIMIT \/ \E x \in q : x.seq = r.seq
      THEN q ELSE q \cup {r}

\* Unless the queue is full, dtls1_buffer_record takes the buffer with the
\* rest of the datagram away and sets up an empty one.  The rest is kept with
\* the record, or freed with a duplicate.
BufferIsTaken(q) == Cardinality(q) < QUEUE_LIMIT
IsInserted(q, r) == BufferIsTaken(q) /\ \A x \in q : x.seq # r.seq

TakeBuffer(name, q, r, rest) ==
    /\ rbuf' = IF BufferIsTaken(q) THEN NoData ELSE rest
    /\ kept' = IF IsInserted(q, r) THEN [kept EXCEPT ![name][r] = rest] ELSE kept

\* dtls1_copy_record releases the current buffer, whatever is left in it, and
\* puts back the one that was kept.
CopyBuffer(name, r) ==
    /\ rbuf' = kept[name][r]
    /\ kept' = [kept EXCEPT ![name][r] = NoData]

pqueue_peek(q) == CHOOSE r \in q : \A x \in q : r.seq <= x.seq

\* dtls1_get_bitmap: "current", "next", or "none" for a record that is
\* dropped.  While records of this epoch wait to be processed, none of the
\* next is taken.
dtls1_get_bitmap(r) ==
    IF r.epoch = r_epoch THEN "current"
    ELSE IF /\ r.epoch = r_epoch + 1
            /\ unprocessed_epoch # r_epoch
            /\ r.type \in {"handshake", "finished", "alert"}
      THEN "next" ELSE "none"

-----------------------------------------------------------------------------
(***************************************************************************)
(* dtls1_read_bytes and dtls1_get_record.                                  *)
(***************************************************************************)

\* start: data buffered during a handshake comes first, once it is finished.
Start ==
    /\ pc = "start"
    /\ ~in_error
    /\ IF ~in_init /\ buffered_app # {}
         THEN /\ rrec' = pqueue_peek(buffered_app)
              /\ buffered_app' = buffered_app \ {rrec'}
              /\ CopyBuffer("buffered_app", rrec')
              /\ pc' = "deliver"
         ELSE /\ pc' = "again"
              /\ UNCHANGED <<rrec, buffered_app, buffers>>
    /\ UNCHANGED <<handshake, bitmap, unprocessed, unprocessed_epoch,
                   processed, in_error, accepted, handed>>

\* The queue's epoch follows once nothing of this epoch waits.
SyncEpochs == unprocessed_epoch' = r_epoch + 1

\* The epochs are synchronised although records wait for the end of the
\* datagram.
BeginBufferedSyncsEarly ==
    /\ pc = "again"
    /\ IF unprocessed # {} /\ unprocessed_epoch = r_epoch /\ rbuf.left = 0
         THEN pc' = "buffered" /\ UNCHANGED unprocessed_epoch
         ELSE pc' = "next" /\ SyncEpochs
    /\ UNCHANGED <<handshake, bitmap, unprocessed, processed, buffered_app,
                   rrec, buffers, in_error, accepted, handed>>

\* The buffered records are left alone until the handshake is over, for which
\* the Finished among them is needed.
BeginBufferedAfterInit ==
    /\ pc = "again"
    /\ IF unprocessed # {} /\ unprocessed_epoch = r_epoch /\ rbuf.left = 0 /\ ~in_init
         THEN pc' = "buffered" /\ UNCHANGED unprocessed_epoch
         ELSE /\ pc' = "next"
              /\ IF unprocessed = {} THEN SyncEpochs
                                     ELSE UNCHANGED unprocessed_epoch
    /\ UNCHANGED <<handshake, bitmap, unprocessed, processed, buffered_app,
                   rrec, buffers, in_error, accepted, handed>>

\* dtls1_process_buffered_records up to its loop.
BeginBuffered ==
    /\ pc = "again"
    /\ IF unprocessed # {} /\ unprocessed_epoch = r_epoch /\ rbuf.left = 0
         THEN pc' = "buffered" /\ UNCHANGED unprocessed_epoch
         ELSE /\ pc' = "next"
              /\ IF unprocessed = {} THEN SyncEpochs
                                     ELSE UNCHANGED unprocessed_epoch
    /\ UNCHANGED <<handshake, bitmap, unprocessed, processed, buffered_app,
                   rrec, buffers, in_error, accepted, handed>>

\* The record goes from one queue into the other, and its buffer with it.
MoveToProcessed(r) ==
    /\ processed' = dtls1_buffer_record(processed, r)
    /\ rbuf' = IF BufferIsTaken(processed) THEN NoData ELSE kept["unprocessed"][r]
    /\ kept' = [kept EXCEPT
                 !["unprocessed"][r] = NoData,
                 !["processed"][r] = IF IsInserted(processed, r)
                                       THEN kept["unprocessed"][r] ELSE @]

\* The window was checked when the record came in.
BufferedUnchecked(r) ==
    /\ \/ /\ r.good
          /\ bitmap' = dtls1_record_bitmap_update(bitmap, r.seq)
          /\ accepted' = accepted \cup {r}
          /\ MoveToProcessed(r)
       \/ /\ ~r.good
          /\ CopyBuffer("unprocessed", r)
          /\ UNCHANGED <<bitmap, accepted, processed>>
    /\ UNCHANGED <<pc, in_error>>

\* One buffered record: refused by the window or by its MAC, silently or
\* fatally, or accepted.  A fatal error returns -1, which dtls1_get_record
\* does not take for a failure, and it goes on.
BufferedRecord(r) ==
    \/ /\ r.good
       /\ dtls1_record_replay_check(bitmap, r.seq)
       /\ bitmap' = dtls1_record_bitmap_update(bitmap, r.seq)
       /\ accepted' = accepted \cup {r}
       /\ MoveToProcessed(r)
       /\ UNCHANGED <<pc, in_error>>
    \/ /\ ~r.good \/ ~dtls1_record_replay_check(bitmap, r.seq)
       /\ CopyBuffer("unprocessed", r)
       /\ UNCHANGED <<pc, in_error, bitmap, accepted, processed>>
    \/ /\ ~r.good /\ dtls1_record_replay_check(bitmap, r.seq)
       /\ CopyBuffer("unprocessed", r)
       /\ pc' = "next"
       /\ in_error' = TRUE
       /\ UNCHANGED <<bitmap, accepted, processed>>

\* The loop of dtls1_process_buffered_records.
ProcessBuffered ==
    /\ pc = "buffered"
    /\ unprocessed # {}
    /\ BufferedRecord(pqueue_peek(unprocessed))
    /\ unprocessed' = unprocessed \ {pqueue_peek(unprocessed)}
    /\ UNCHANGED <<handshake, unprocessed_epoch, buffered_app, rrec, handed>>

EndBuffered ==
    /\ pc = "buffered"
    /\ unprocessed = {}
    /\ pc' = "next"
    /\ SyncEpochs
    /\ UNCHANGED <<handshake, bitmap, unprocessed, processed, buffered_app,
                   rrec, buffers, in_error, accepted, handed>>

\* dtls1_get_processed_record.
GetProcessed ==
    /\ pc = "next"
    /\ processed # {}
    /\ rrec' = pqueue_peek(processed)
    /\ processed' = processed \ {rrec'}
    /\ CopyBuffer("processed", rrec')
    /\ pc' = "deliver"
    /\ UNCHANGED <<handshake, bitmap, unprocessed, unprocessed_epoch,
                   buffered_app, in_error, accepted, handed>>

\* The newest epoch that the peer has keys for: the next one only during a
\* handshake that this side has not changed to them yet.
PeerEpoch == IF in_init /\ ~change_cipher_spec THEN r_epoch + 1 ELSE r_epoch

\* A record with a good MAC is of an epoch that the peer had keys for, and its
\* CCS in an epoch ends the handshake for the next one.  The header of any
\* other record is whatever the network made of it.
CanCarry(epoch, r) ==
    r.good => r.epoch <= epoch /\ (r.type = "ccs" => r.epoch < epoch)

\* The rest of a datagram is read before another one.
ReadsDatagram(r, rest) ==
    IF rbuf.left > 0
      THEN /\ CanCarry(rbuf.epoch, r)
           /\ rest = IF rbuf.left = 1 THEN NoData ELSE [rbuf EXCEPT !.left = @ - 1]
      ELSE /\ CanCarry(PeerEpoch, r)
           /\ rest = NoData \/ (rest.left > 0 /\ rest.epoch = PeerEpoch)

\* A record that is dropped on the floor: of another epoch, seen before, too
\* old, or of the next epoch outside a handshake.
DropFromWire(r, rest) ==
    /\ \/ dtls1_get_bitmap(r) = "none"
       \/ /\ dtls1_get_bitmap(r) = "current"
          /\ ~dtls1_record_replay_check(bitmap, r.seq)
       \/ /\ dtls1_get_bitmap(r) = "next"
          /\ ~in_init \/ ~dtls1_record_replay_check(next_bitmap, r.seq)
    /\ rbuf' = rest
    /\ pc' = "again"
    /\ UNCHANGED <<bitmap, unprocessed, kept, rrec, in_error, accepted>>

\* A record of the next epoch is kept until its keys are there.
BufferFromWire(r, rest) ==
    /\ dtls1_get_bitmap(r) = "next"
    /\ dtls1_record_replay_check(next_bitmap, r.seq)
    /\ in_init
    /\ unprocessed' = dtls1_buffer_record(unprocessed, r)
    /\ TakeBuffer("unprocessed", unprocessed, r, rest)
    /\ pc' = "again"
    /\ UNCHANGED <<bitmap, rrec, in_error, accepted>>

\* dtls1_process_record marks the receipt of a record whose MAC is right.
AcceptFromWire(r, rest) ==
    /\ dtls1_get_bitmap(r) = "current"
    /\ dtls1_record_replay_check(bitmap, r.seq)
    /\ r.good
    /\ bitmap' = dtls1_record_bitmap_update(bitmap, r.seq)
    /\ accepted' = accepted \cup {r}
    /\ rrec' = r
    /\ rbuf' = rest
    /\ pc' = "deliver"
    /\ UNCHANGED <<unprocessed, kept, in_error>>

\* A bad record is ignored, or fatal (encrypt-then-MAC, an overlong record).
RefuseFromWire(r, rest) ==
    /\ dtls1_get_bitmap(r) = "current"
    /\ dtls1_record_replay_check(bitmap, r.seq)
    /\ ~r.good
    /\ \/ pc' = "again" /\ UNCHANGED in_error
       \/ pc' = "start" /\ in_error' = TRUE
    /\ rbuf' = rest
    /\ UNCHANGED <<bitmap, unprocessed, kept, rrec, accepted>>

ReadFromWire ==
    /\ pc = "next"
    /\ processed = {}
    /\ \E r \in Sent, rest \in Datagrams :
         /\ ReadsDatagram(r, rest)
         /\ \/ DropFromWire(r, rest)
            \/ BufferFromWire(r, rest)
            \/ AcceptFromWire(r, rest)
            \/ RefuseFromWire(r, rest)
    /\ UNCHANGED <<handshake, unprocessed_epoch, processed, buffered_app,
                   handed>>

\* Nothing to read: the call returns and the application calls again.
WouldBlock ==
    /\ pc = "next"
    /\ processed = {}
    /\ rbuf.left = 0
    /\ pc' = "start"
    /\ UNCHANGED <<handshake, windows, queues, rrec, buffers, in_error,
                   accepted, handed>>

\* Without the test of change_cipher_spec.
MustWaitForFinishedNever(r) == FALSE

\* Whatever is not a handshake message between CCS and Finished is put off.
MustWaitForFinished(r) ==
    change_cipher_spec /\ r.type \notin {"handshake", "finished"}

BufferAppData ==
    /\ pc = "deliver"
    /\ MustWaitForFinished(rrec)
    /\ buffered_app' = dtls1_buffer_record(buffered_app, rrec)
    /\ TakeBuffer("buffered_app", buffered_app, rrec, rbuf)
    /\ rrec' = NoRecord
    /\ pc' = "start"
    /\ UNCHANGED <<handshake, windows, unprocessed, unprocessed_epoch,
                   processed, in_error, accepted, handed>>

HandUp ==
    /\ pc = "deliver"
    /\ ~MustWaitForFinished(rrec)
    /\ handed' = handed \cup {rrec}
    /\ rrec' = NoRecord
    /\ pc' = "start"
    /\ UNCHANGED <<queues, buffers, in_error, accepted>>

\* dtls1_reset_seq_numbers(s, SSL3_CC_READ).
ResetSeqNumbers ==
    /\ r_epoch' = r_epoch + 1
    /\ bitmap' = next_bitmap
    /\ next_bitmap' = EmptyBitmap

\* tls_process_change_cipher_spec, or a CCS that comes too early or too late
\* and is dropped.
HandUpChangeCipherSpec ==
    /\ rrec # NoRecord /\ rrec.type = "ccs"
    /\ HandUp
    /\ \/ /\ in_init /\ ~change_cipher_spec /\ r_epoch < MAX_EPOCH
          /\ change_cipher_spec' = TRUE
          /\ ResetSeqNumbers
       \/ UNCHANGED <<r_epoch, windows, change_cipher_spec>>
    /\ UNCHANGED in_init

\* tls_process_finished, or a stale Finished.
HandUpFinished ==
    /\ rrec # NoRecord /\ rrec.type = "finished"
    /\ HandUp
    /\ in_init' = (in_init /\ ~change_cipher_spec)
    /\ change_cipher_spec' = FALSE
    /\ UNCHANGED <<r_epoch, windows>>

HandUpOther ==
    /\ rrec # NoRecord /\ rrec.type \in {"handshake", "alert", "data"}
    /\ HandUp
    /\ UNCHANGED <<handshake, bitmap>>

\* A new handshake, by either side.
Renegotiate ==
    /\ pc = "start"
    /\ ~in_init
    /\ r_epoch < MAX_EPOCH
    /\ in_init' = TRUE
    /\ UNCHANGED <<pc, r_epoch, windows, queues, rrec, buffers,
                   change_cipher_spec, in_error, accepted, handed>>

-----------------------------------------------------------------------------
\* DTLS_RECORD_LAYER_clear: everything is zero.
Init ==
    /\ pc = "start"
    /\ r_epoch = 0
    /\ bitmap = EmptyBitmap
    /\ next_bitmap = EmptyBitmap
    /\ unprocessed = {}
    /\ unprocessed_epoch = 0
    /\ processed = {}
    /\ buffered_app = {}
    /\ rrec = NoRecord
    /\ rbuf = NoData
    /\ kept = [q \in Queues |-> [r \in Sent |-> NoData]]
    /\ in_init = TRUE
    /\ change_cipher_spec = FALSE
    /\ in_error = FALSE
    /\ accepted = {}
    /\ handed = {}

Read ==
    \/ Start
    \/ BeginBuffered
    \/ ProcessBuffered
    \/ EndBuffered
    \/ GetProcessed
    \/ ReadFromWire
    \/ WouldBlock
    \/ BufferAppData
    \/ HandUpChangeCipherSpec
    \/ HandUpFinished
    \/ HandUpOther

Next == Read \/ Renegotiate

Spec == Init /\ [][Next]_vars

\* The application keeps reading.  Nothing is assumed of the network.
FairSpec == Spec /\ WF_vars(Read)

-----------------------------------------------------------------------------
(***************************************************************************)
(* Properties.                                                             *)
(***************************************************************************)

\* The state has its types, and no queue outgrows dtls1_buffer_record's limit.
TypeOK ==
    /\ pc \in {"start", "again", "buffered", "next", "deliver"}
    /\ r_epoch \in 0..MAX_EPOCH
    /\ bitmap \in Bitmaps
    /\ next_bitmap \in Bitmaps
    /\ unprocessed \subseteq Sent
    /\ unprocessed_epoch \in 0..MAX_EPOCH + 1
    /\ processed \subseteq Sent
    /\ buffered_app \subseteq Sent
    /\ \A q \in {unprocessed, processed, buffered_app} :
         IsFiniteSet(q) /\ Cardinality(q) <= QUEUE_LIMIT
    /\ rrec \in Sent \cup {NoRecord}
    /\ (pc = "deliver") = (rrec # NoRecord)
    /\ rbuf \in Datagrams
    /\ kept \in [Queues -> [Sent -> Datagrams]]
    /\ {in_init, change_cipher_spec, in_error} \subseteq BOOLEAN

AcceptedNow == {r.seq : r \in {x \in accepted : x.epoch = r_epoch}}

\* The bitmap remembers exactly the records of this epoch that were accepted,
\* as far back as it reaches, whichever way they came (from the wire, or
\* buffered before the epoch began): nothing it forgets can come again, and
\* it refuses no record it has not seen.
BitmapIsExact ==
    /\ IF AcceptedNow = {}
         THEN bitmap.max_seq_num = 0
         ELSE /\ bitmap.max_seq_num \in AcceptedNow
              /\ \A s \in AcceptedNow : s <= bitmap.max_seq_num
    /\ \A s \in 0..bitmap.max_seq_num :
         bitmap.max_seq_num - s < WINDOW =>
             (s \in AcceptedNow <=> bitmap.max_seq_num - s \in bitmap.map)
    /\ next_bitmap = EmptyBitmap

Places ==
    <<handed, processed, buffered_app, {rrec} \ {NoRecord}>>

\* A record is handed up at most once, however often the network repeats it
\* and though it may wait in three queues on its way: at any moment it is in
\* one place only, and what waits there was accepted.
HandedUpOnce ==
    /\ \A i, j \in 1..4 : i # j => Places[i] \cap Places[j] = {}
    /\ \A i \in 1..4 : Places[i] \subseteq accepted
    /\ \A r, q \in accepted : r.epoch = q.epoch /\ r.seq = q.seq => r = q

\* "This will only ever be NULL when the current record is from a different
\* epoch. But that cannot be the case" (dtls1_process_buffered_records): the
\* records in the loop are of the current epoch.
BufferedAreCurrent ==
    /\ pc = "buffered" => \A r \in unprocessed : r.epoch = r_epoch
    /\ \A r \in processed : r.epoch = r_epoch

\* Application data of an epoch is not handed up before its Finished has been
\* verified, in whatever order the two arrive.
DataAfterFinished ==
    change_cipher_spec => \A r \in handed : r.epoch = r_epoch =>
        r.type \in {"handshake", "finished"}

\* What waits for its keys is of the epoch that the queue is marked with,
\* this one or the next, unless a fatal error stopped the reading; and only
\* handshake messages and alerts were let in.
QueuesAreOfEpoch ==
    /\ unprocessed_epoch \in {r_epoch, r_epoch + 1} \/ (in_error /\ pc = "start")
    /\ pc = "buffered" => unprocessed_epoch = r_epoch
    /\ \A r \in unprocessed : r.epoch = unprocessed_epoch
    /\ \A r \in unprocessed \cup processed :
         r.type \in {"handshake", "finished", "alert"}

\* No datagram that is not read to its end yet is newer.
RestsUpTo(epoch) ==
    /\ rbuf.epoch <= epoch
    /\ \A q \in Queues, r \in Sent : kept[q][r].epoch <= epoch

\* A CCS that changes the keys finds the queues ready for the next epoch:
\* what waited for these keys has been processed and handed up.  Until it has
\* been processed, no datagram that could carry such a CCS is read, or is
\* among the rests that come back with the records of a queue.
ReadyForNextEpoch ==
    /\ RestsUpTo(PeerEpoch)
    /\ ~in_error /\ unprocessed_epoch = r_epoch => RestsUpTo(r_epoch)
    /\ ~in_error /\ pc = "next" /\ rbuf.left = 0 => unprocessed_epoch = r_epoch + 1
    /\ in_init /\ pc = "deliver" /\ rrec.type = "ccs" =>
         /\ processed = {}
         /\ unprocessed_epoch = r_epoch + 1 \/ change_cipher_spec \/ in_error

\* No record is accepted before its keys are there, or with a bad MAC.
AcceptedHadKeys ==
    \A r \in accepted : r \in Records /\ r.epoch <= r_epoch /\ r.good

\* How the queues, the epochs and the reading go together: with the four
\* properties above, the inductive invariant of the record layer.
RecordLayerInvariant ==
    /\ TypeOK
    /\ QueuesAreOfEpoch
    /\ ReadyForNextEpoch
    /\ AcceptedHadKeys

\* Records that came before their keys are looked at once the keys are there.
BufferedAreProcessed ==
    (\E r \in unprocessed : r.epoch = r_epoch)
        ~> (in_error \/ \A r \in unprocessed : r.epoch # r_epoch)

\* "dtls1_process_record called SSLfatal()" (dtls1_process_buffered_records):
\* after a fatal error the call hands no record to its caller.
NothingAfterFatal == [][in_error => handed' = handed]_vars

=============================================================================
