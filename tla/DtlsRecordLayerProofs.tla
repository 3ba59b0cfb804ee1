----------------------- MODULE DtlsRecordLayerProofs -----------------------
(***************************************************************************)
(* Proofs about DtlsRecordLayer for every set of records that the network  *)
(* may deliver, every window, queue limit and number of handshakes.        *)
(***************************************************************************)
EXTENDS DtlsRecordLayer, FiniteSetTheorems, WellFoundedInduction, TLAPS

(***************************************************************************)
(* The queues.                                                             *)
(***************************************************************************)

\* pqueue_peek returns an element of a queue that is not empty: sequence
\* numbers are natural numbers, so one of them is the least.
LEMMA PeekIsInQueue ==
    ASSUME NEW q, q \subseteq Records, q # {}
    PROVE  pqueue_peek(q) \in q
  <1> DEFINE Seqs == {r.seq : r \in q}
             Less == OpToRel(<, Nat)
  <1>1. Seqs \subseteq Nat /\ Seqs # {}
    BY DEF Records
  <1>2. IsWellFoundedOn(Less, Nat)
    BY NatLessThanWellFounded
  <1>3. Less = {ss \in Nat \X Nat : ss[1] < ss[2]}
    BY Zenon DEF OpToRel
  <1>4. \E n \in Seqs : \A m \in Seqs : n <= m
    <2> HIDE DEF Less, Seqs
    <2>1. PICK n \in Seqs : \A m \in Seqs : ~(<<m, n>> \in Less)
      BY <1>1, <1>2, WFMin
    <2>2. \A m \in Nat : m < n => <<m, n>> \in Less
      BY <1>1, <1>3
    <2>3. \A m \in Seqs : m \in Nat /\ ~(m < n)
      BY <1>1, <2>1, <2>2, Zenon
    <2>4. n \in Nat
      BY <1>1
    <2>5. \A m \in Seqs : n <= m
      BY <2>3, <2>4
    <2> QED
      BY <2>5
  <1>5. \E r \in q : \A x \in q : r.seq <= x.seq
    BY <1>4
  <1> QED
    BY <1>5 DEF pqueue_peek

\* Taking from a queue leaves a queue.
LEMMA TakeFromQueue ==
    ASSUME NEW q, IsFiniteSet(q), Cardinality(q) <= QUEUE_LIMIT, NEW r
    PROVE  /\ IsFiniteSet(q \ {r})
           /\ Cardinality(q \ {r}) <= QUEUE_LIMIT
  <1>1. Cardinality(q) \in Nat
    BY FS_CardinalityType
  <1>2. /\ IsFiniteSet(q \ {r})
        /\ Cardinality(q \ {r}) \in {Cardinality(q), Cardinality(q) - 1}
    BY FS_RemoveElement
  <1> QED
    BY <1>1, <1>2, RecordLayerAssumption

\* dtls1_buffer_record adds its record or leaves the queue as it is, and
\* stops at the limit.
LEMMA BufferFacts ==
    ASSUME NEW q, IsFiniteSet(q), Cardinality(q) <= QUEUE_LIMIT, NEW r
    PROVE  /\ dtls1_buffer_record(q, r) \in {q, q \cup {r}}
           /\ IsFiniteSet(dtls1_buffer_record(q, r))
           /\ Cardinality(dtls1_buffer_record(q, r)) <= QUEUE_LIMIT
  <1>1. Cardinality(q) \in Nat
    BY FS_CardinalityType
  <1>2. /\ IsFiniteSet(q \cup {r})
        /\ Cardinality(q \cup {r}) \in {Cardinality(q), Cardinality(q) + 1}
    BY FS_AddElement
  <1>3. CASE dtls1_buffer_record(q, r) = q
    BY <1>3
  <1>4. CASE dtls1_buffer_record(q, r) # q
    <2>1. dtls1_buffer_record(q, r) = q \cup {r} /\ ~(Cardinality(q) >= QUEUE_LIMIT)
      BY <1>4 DEF dtls1_buffer_record
    <2> QED
      BY <1>1, <1>2, <2>1, RecordLayerAssumption
  <1> QED
    BY <1>3, <1>4

(***************************************************************************)
(* The buffers that go with the records.                                   *)
(***************************************************************************)

KeptT == [Queues -> [Sent -> Datagrams]]

\* No rest of a datagram is newer than the epoch.
Below(b, k, epoch) ==
    /\ b.epoch <= epoch
    /\ \A q \in Queues, r \in Sent : k[q][r].epoch <= epoch

\* An empty buffer is one, and is not newer than anything.
LEMMA NoDataFacts == NoData \in Datagrams /\ NoData.epoch = 0 /\ NoData.left = 0
    BY RecordLayerAssumption DEF NoData, Datagrams

\* Keeping a rest with one record leaves the others.
LEMMA KeepFacts ==
    ASSUME NEW k \in KeptT, NEW n \in Queues, NEW r \in Sent, NEW d \in Datagrams,
           NEW g, g = [k EXCEPT ![n][r] = d]
    PROVE  /\ g \in KeptT
           /\ \A m \in Queues, x \in Sent : g[m][x] \in {k[m][x], d}
    BY DEF KeptT

\* A bound that grows stays a bound.
LEMMA BelowGrows ==
    ASSUME NEW b \in Datagrams, NEW k \in KeptT, NEW e \in Nat, Below(b, k, e)
    PROVE  Below(b, k, e + 1)
  <1>1. b.epoch \in Nat /\ \A q \in Queues, r \in Sent : k[q][r].epoch \in Nat
    BY DEF KeptT, Datagrams
  <1> QED
    BY <1>1 DEF Below

\* dtls1_buffer_record brings in no rest but that of its record.
LEMMA TakeBufferFacts ==
    ASSUME rbuf \in Datagrams, kept \in KeptT, NEW n \in Queues, NEW q,
           NEW r \in Sent, NEW rest \in Datagrams, TakeBuffer(n, q, r, rest)
    PROVE  /\ rbuf' \in Datagrams /\ kept' \in KeptT
           /\ \A e \in Nat : Below(rbuf, kept, e) /\ rest.epoch <= e
                              => Below(rbuf', kept', e)
  <1>1. rbuf' \in {NoData, rest}
    BY DEF TakeBuffer
  <1>2. kept' = kept \/ kept' = [kept EXCEPT ![n][r] = rest]
    BY DEF TakeBuffer
  <1>3. kept' \in KeptT /\ \A m \in Queues, x \in Sent : kept'[m][x] \in {kept[m][x], rest}
    BY <1>2, KeepFacts
  <1> QED
    BY <1>1, <1>3, NoDataFacts DEF Below

\* dtls1_copy_record brings in none.
LEMMA CopyBufferFacts ==
    ASSUME rbuf \in Datagrams, kept \in KeptT, NEW n \in Queues,
           NEW r \in Sent, CopyBuffer(n, r)
    PROVE  /\ rbuf' \in Datagrams /\ kept' \in KeptT
           /\ \A e \in Nat : Below(rbuf, kept, e) => Below(rbuf', kept', e)
  <1>1. rbuf' = kept[n][r] /\ kept[n][r] \in Datagrams
    BY DEF CopyBuffer, KeptT
  <1>2. kept' \in KeptT /\ \A m \in Queues, x \in Sent : kept'[m][x] \in {kept[m][x], NoData}
    BY NoDataFacts, KeepFacts DEF CopyBuffer
  <1> QED
    BY <1>1, <1>2, NoDataFacts DEF Below

\* Neither does moving a record from one queue to another.
LEMMA MoveFacts ==
    ASSUME rbuf \in Datagrams, kept \in KeptT, NEW r \in Sent, MoveToProcessed(r)
    PROVE  /\ rbuf' \in Datagrams /\ kept' \in KeptT
           /\ \A e \in Nat : Below(rbuf, kept, e) => Below(rbuf', kept', e)
  <1> DEFINE d == kept["unprocessed"][r]
             c == kept["processed"][r]
             b == IF IsInserted(processed, r) THEN d ELSE c
             g == [kept EXCEPT !["unprocessed"][r] = NoData]
  <1>1. "unprocessed" \in Queues /\ "processed" \in Queues
    BY DEF Queues
  <1>2. d \in Datagrams /\ c \in Datagrams /\ b \in {c, d} /\ b \in Datagrams
    BY <1>1 DEF KeptT
  <1>3. rbuf' \in {NoData, d}
    BY DEF MoveToProcessed
  <1>4. kept' = [g EXCEPT !["processed"][r] = b]
    BY <1>1 DEF MoveToProcessed, KeptT
  <1> HIDE DEF g, b, c, d
  <1>5. g \in KeptT /\ \A m \in Queues, x \in Sent : g[m][x] \in {kept[m][x], NoData}
    BY <1>1, NoDataFacts, KeepFacts DEF g
  <1>6. kept' \in KeptT /\ \A m \in Queues, x \in Sent : kept'[m][x] \in {g[m][x], b}
    BY <1>1, <1>2, <1>4, <1>5, KeepFacts
  <1>7. rbuf' \in Datagrams
    BY <1>2, <1>3, NoDataFacts
  <1>8. ASSUME NEW e \in Nat, Below(rbuf, kept, e) PROVE Below(rbuf', kept', e)
    <2>1. c.epoch <= e /\ d.epoch <= e /\ b.epoch <= e /\ NoData.epoch <= e
      BY <1>1, <1>2, <1>8, NoDataFacts DEF Below, c, d
    <2>2. \A m \in Queues, x \in Sent : kept'[m][x].epoch <= e
      BY <1>5, <1>6, <1>8, <2>1 DEF Below
    <2> QED
      BY <1>3, <2>1, <2>2 DEF Below
  <1> QED
    BY <1>6, <1>7, <1>8

-----------------------------------------------------------------------------
(***************************************************************************)
(* The replay window.                                                      *)
(***************************************************************************)

\* A window that has seen exactly the numbers in S.
ExactFor(b, S) ==
    /\ IF S = {}
         THEN b.max_seq_num = 0
         ELSE /\ b.max_seq_num \in S
              /\ \A s \in S : s <= b.max_seq_num
    /\ \A s \in 0..b.max_seq_num :
         b.max_seq_num - s < WINDOW => (s \in S <=> b.max_seq_num - s \in b.map)

\* The saturating subtraction is exact near zero and keeps the sign.
LEMMA SatsubFacts ==
    ASSUME NEW a \in Nat, NEW b \in Nat
    PROVE  /\ satsub64be(a, b) \in Int
           /\ satsub64be(a, b) > 0 <=> a > b
           /\ satsub64be(a, b) < 2 * WINDOW /\ satsub64be(a, b) > -2 * WINDOW
                => satsub64be(a, b) = a - b
           /\ satsub64be(a, b) >= 2 * WINDOW => a - b >= 2 * WINDOW
    BY RecordLayerAssumption DEF satsub64be

\* What an exact window lets through it has not seen.
LEMMA CheckedIsNew ==
    ASSUME NEW b \in Bitmaps, NEW S \in SUBSET Nat, ExactFor(b, S),
           NEW seq \in Nat, dtls1_record_replay_check(b, seq)
    PROVE  /\ seq \notin S
           /\ ~(seq > b.max_seq_num) =>
                /\ satsub64be(seq, b.max_seq_num) = seq - b.max_seq_num
                /\ b.max_seq_num - seq < WINDOW
                /\ b.max_seq_num - seq \notin b.map
  <1> DEFINE max == b.max_seq_num
             cmp == satsub64be(seq, max)
  <1>1. max \in Nat /\ WINDOW \in Nat \ {0}
    BY RecordLayerAssumption DEF Bitmaps
  <1>2. /\ cmp \in Int /\ (cmp > 0 <=> seq > max)
        /\ cmp < 2 * WINDOW /\ cmp > -2 * WINDOW => cmp = seq - max
    BY <1>1, SatsubFacts
  <1>3. cmp > 0 \/ (-cmp < WINDOW /\ -cmp \notin b.map)
    BY DEF dtls1_record_replay_check
  <1>4. CASE seq > max
    BY <1>1, <1>4 DEF ExactFor
  <1>5. CASE ~(seq > max)
    <2> HIDE DEF cmp
    <2>1. cmp = seq - max /\ max - seq < WINDOW /\ -cmp = max - seq
      BY <1>1, <1>2, <1>3, <1>5
    <2>2. max - seq \notin b.map
      BY <1>2, <1>3, <1>5, <2>1
    <2>3. seq \in 0..max
      BY <1>1, <1>5
    <2>4. seq \notin S
      BY <2>1, <2>2, <2>3 DEF ExactFor
    <2> QED
      BY <2>1, <2>2, <2>4 DEF cmp
  <1> QED
    BY <1>4, <1>5

\* Marking a number that the window let through leaves an exact window: a
\* move of the window keeps every number that it still reaches.
LEMMA UpdateIsExact ==
    ASSUME NEW b \in Bitmaps, NEW S \in SUBSET Nat, ExactFor(b, S),
           NEW seq \in Nat, dtls1_record_replay_check(b, seq)
    PROVE  /\ dtls1_record_bitmap_update(b, seq) \in Bitmaps
           /\ ExactFor(dtls1_record_bitmap_update(b, seq), S \cup {seq})
  <1> DEFINE max == b.max_seq_num
             cmp == satsub64be(seq, max)
             new == dtls1_record_bitmap_update(b, seq)
  <1>1. max \in Nat /\ WINDOW \in Nat \ {0} /\ b.map \subseteq 0..WINDOW - 1
    BY RecordLayerAssumption DEF Bitmaps
  <1>2. /\ cmp \in Int /\ (cmp > 0 <=> seq > max)
        /\ cmp < 2 * WINDOW /\ cmp > -2 * WINDOW => cmp = seq - max
        /\ cmp >= 2 * WINDOW => seq - max >= 2 * WINDOW
    BY <1>1, SatsubFacts
  <1>3. CASE seq > max
    <2>1. new = [max_seq_num |-> seq,
                 map |-> ({s + cmp : s \in b.map} \cap 0..WINDOW - 1) \cup {0}]
      BY <1>2, <1>3 DEF dtls1_record_bitmap_update
    <2>2. /\ new.max_seq_num = seq
          /\ new.map = ({s + cmp : s \in b.map} \cap 0..WINDOW - 1) \cup {0}
      BY <2>1
    <2> HIDE DEF cmp, new
    <2>3. new \in Bitmaps
      BY <1>1, <2>1 DEF Bitmaps
    <2>4. \A s \in S : s <= max
      BY DEF ExactFor
    <2>5. \A s \in S \cup {seq} : s <= seq
      BY <1>1, <1>3, <2>4
    <2>6. ASSUME NEW s \in 0..seq, seq - s < WINDOW
          PROVE  s \in S \cup {seq} <=> seq - s \in new.map
      <3>1. CASE s = seq
        BY <2>2, <3>1
      <3>2. CASE s # seq /\ s > max
        <4>1. s \notin S \cup {seq}
          BY <1>1, <2>4, <3>2
        <4>2. \A t \in b.map : t + cmp # seq - s
          BY <1>1, <1>2, <1>3, <2>6, <3>2
        <4> QED
          BY <2>2, <2>6, <3>2, <4>1, <4>2
      <3>3. CASE s # seq /\ ~(s > max)
        <4>1. cmp = seq - max
          BY <1>1, <1>2, <1>3, <2>6, <3>3
        <4>2. s \in 0..max /\ max - s < WINDOW
          BY <1>1, <1>3, <2>6, <3>3
        <4>3. s \in S <=> max - s \in b.map
          BY <4>2 DEF ExactFor
        <4>4. seq - s \in {t + cmp : t \in b.map} <=> max - s \in b.map
          <5>1. \A t \in b.map : t + cmp = seq - s <=> t = max - s
            BY <1>1, <4>1, <4>2
          <5> QED
            BY <5>1
        <4>5. seq - s \in 0..WINDOW - 1 /\ seq - s # 0
          BY <1>1, <2>6, <3>3
        <4> QED
          BY <2>2, <3>3, <4>3, <4>4, <4>5
      <3> QED
        BY <3>1, <3>2, <3>3
    <2> QED
      BY <2>2, <2>3, <2>5, <2>6 DEF ExactFor, new
  <1>4. CASE ~(seq > max)
    <2>1. cmp = seq - max /\ max - seq < WINDOW
      BY <1>4, CheckedIsNew
    <2>2. new = [b EXCEPT !.map = @ \cup ({-cmp} \cap 0..WINDOW - 1)]
      BY <1>2, <1>4 DEF dtls1_record_bitmap_update
    <2> HIDE DEF cmp, new
    <2>3. -cmp = max - seq /\ max - seq \in 0..WINDOW - 1
      BY <1>1, <1>4, <2>1
    <2>4. new.max_seq_num = max /\ new.map = b.map \cup {max - seq}
      BY <2>2, <2>3 DEF Bitmaps
    <2>5. new \in Bitmaps
      BY <1>1, <2>2, <2>3 DEF Bitmaps
    <2>6. /\ max \in S \cup {seq}
          /\ \A s \in S \cup {seq} : s <= max
      <3>1. CASE S = {}
        BY <1>1, <1>4, <3>1 DEF ExactFor
      <3>2. CASE S # {}
        BY <1>1, <1>4, <3>2 DEF ExactFor
      <3> QED
        BY <3>1, <3>2
    <2>7. ASSUME NEW s \in 0..max, max - s < WINDOW
          PROVE  s \in S \cup {seq} <=> max - s \in new.map
      <3>1. s \in S <=> max - s \in b.map
        BY <2>7 DEF ExactFor
      <3>2. s = seq <=> max - s = max - seq
        BY <1>1
      <3> QED
        BY <2>4, <3>1, <3>2
    <2> QED
      BY <2>4, <2>5, <2>6, <2>7 DEF ExactFor, new
  <1> QED
    BY <1>3, <1>4

-----------------------------------------------------------------------------
(***************************************************************************)
(* The inductive invariant.                                                *)
(***************************************************************************)

\* The four properties together with what relates queues and epochs.
RecordIInv ==
    /\ RecordLayerInvariant
    /\ BitmapIsExact
    /\ HandedUpOnce
    /\ BufferedAreCurrent
    /\ DataAfterFinished

\* HandedUpOnce, place by place.
PlacesApart ==
    /\ handed \cap processed = {}
    /\ handed \cap buffered_app = {}
    /\ processed \cap buffered_app = {}
    /\ rrec \notin handed \cup processed \cup buffered_app
    /\ handed \cup processed \cup buffered_app \subseteq accepted
    /\ rrec # NoRecord => rrec \in accepted
    /\ \A r, q \in accepted : r.epoch = q.epoch /\ r.seq = q.seq => r = q

\* The two ways of saying it agree.
LEMMA OnceIsApart ==
    ASSUME AcceptedHadKeys
    PROVE  HandedUpOnce <=> PlacesApart
  <1>1. NoRecord \notin accepted
    BY RecordLayerAssumption DEF AcceptedHadKeys
  <1> DEFINE W == {rrec} \ {NoRecord}
  <1>2. /\ Places[1] = handed /\ Places[2] = processed
        /\ Places[3] = buffered_app /\ Places[4] = W
    BY DEF Places
  <1>3. 1..4 = {1, 2, 3, 4}
    OBVIOUS
  <1>4. HandedUpOnce <=>
          /\ handed \cap processed = {}
          /\ handed \cap buffered_app = {}
          /\ processed \cap buffered_app = {}
          /\ W \cap handed = {} /\ W \cap processed = {} /\ W \cap buffered_app = {}
          /\ handed \subseteq accepted /\ processed \subseteq accepted
          /\ buffered_app \subseteq accepted /\ W \subseteq accepted
          /\ \A r, q \in accepted : r.epoch = q.epoch /\ r.seq = q.seq => r = q
    <2> HIDE DEF W
    <2> QED
      BY <1>2, <1>3 DEF HandedUpOnce
  <1> QED
    BY <1>1, <1>4 DEF PlacesApart

\* BitmapIsExact says that the window is exact for the numbers accepted in
\* this epoch.
LEMMA ExactIsExactFor ==
    BitmapIsExact <=> ExactFor(bitmap, AcceptedNow) /\ next_bitmap = EmptyBitmap
    BY DEF BitmapIsExact, ExactFor

\* The invariant, in the form that the steps are proved from.
LEMMA InvForm ==
    RecordIInv <=>
        /\ TypeOK /\ QueuesAreOfEpoch /\ ReadyForNextEpoch /\ AcceptedHadKeys
        /\ ExactFor(bitmap, AcceptedNow) /\ next_bitmap = EmptyBitmap
        /\ PlacesApart
        /\ BufferedAreCurrent
        /\ DataAfterFinished
    BY OnceIsApart, ExactIsExactFor DEF RecordIInv, RecordLayerInvariant

\* The same of the next state.
LEMMA InvFormPrimed ==
    RecordIInv' <=>
        /\ TypeOK' /\ QueuesAreOfEpoch' /\ ReadyForNextEpoch' /\ AcceptedHadKeys'
        /\ ExactFor(bitmap', AcceptedNow') /\ next_bitmap' = EmptyBitmap'
        /\ PlacesApart'
        /\ BufferedAreCurrent'
        /\ DataAfterFinished'
  <1>1. RecordIInv <=>
          /\ TypeOK /\ QueuesAreOfEpoch /\ ReadyForNextEpoch /\ AcceptedHadKeys
          /\ BitmapIsExact /\ PlacesApart /\ BufferedAreCurrent /\ DataAfterFinished
    BY OnceIsApart DEF RecordIInv, RecordLayerInvariant
  <1>2. RecordIInv' <=>
          /\ TypeOK' /\ QueuesAreOfEpoch' /\ ReadyForNextEpoch' /\ AcceptedHadKeys'
          /\ BitmapIsExact' /\ PlacesApart' /\ BufferedAreCurrent'
          /\ DataAfterFinished'
    BY <1>1, PTL
  <1>3. BitmapIsExact' <=>
          ExactFor(bitmap', AcceptedNow') /\ next_bitmap' = EmptyBitmap'
    BY DEF BitmapIsExact, ExactFor
  <1> QED
    BY <1>2, <1>3

\* The epoch of the peer is this one or the next.
LEMMA PeerFacts ==
    ASSUME TypeOK
    PROVE  /\ r_epoch \in Nat /\ unprocessed_epoch \in Nat
           /\ PeerEpoch \in Nat /\ PeerEpoch \in {r_epoch, r_epoch + 1}
    BY RecordLayerAssumption DEF TypeOK, PeerEpoch

\* ReadyForNextEpoch, with the bound on the rests as one fact.
LEMMA ReadyForm ==
    ReadyForNextEpoch <=>
        /\ Below(rbuf, kept, PeerEpoch)
        /\ ~in_error /\ unprocessed_epoch = r_epoch => Below(rbuf, kept, r_epoch)
        /\ ~in_error /\ pc = "next" /\ rbuf.left = 0 => unprocessed_epoch = r_epoch + 1
        /\ in_init /\ pc = "deliver" /\ rrec.type = "ccs" =>
             /\ processed = {}
             /\ unprocessed_epoch = r_epoch + 1 \/ change_cipher_spec \/ in_error
    BY DEF ReadyForNextEpoch, RestsUpTo, Below

\* The same of the next state.
LEMMA ReadyFormPrimed ==
    ReadyForNextEpoch' <=>
        /\ Below(rbuf', kept', PeerEpoch')
        /\ ~in_error' /\ unprocessed_epoch' = r_epoch' => Below(rbuf', kept', r_epoch')
        /\ ~in_error' /\ pc' = "next" /\ rbuf'.left = 0
             => unprocessed_epoch' = r_epoch' + 1
        /\ in_init' /\ pc' = "deliver" /\ rrec'.type = "ccs" =>
             /\ processed' = {}
             /\ unprocessed_epoch' = r_epoch' + 1 \/ change_cipher_spec' \/ in_error'
    BY DEF ReadyForNextEpoch, RestsUpTo, Below

\* A step that only copies, keeps or drops rests, and leaves the epochs.
LEMMA ReadyStays ==
    ASSUME TypeOK, ReadyForNextEpoch,
           \A e \in Nat : Below(rbuf, kept, e) => Below(rbuf', kept', e),
           UNCHANGED <<r_epoch, in_init, change_cipher_spec, unprocessed_epoch>>,
           in_error => in_error',
           pc' = "next" => in_error',
           pc' = "deliver" => rrec'.type # "ccs" \/ ~in_init
    PROVE  ReadyForNextEpoch'
  <1>1. PeerEpoch' = PeerEpoch
    BY DEF PeerEpoch
  <1> QED
    BY <1>1, PeerFacts, ReadyForm, ReadyFormPrimed

\* A record that passes the window of its epoch was not accepted before, and
\* accepting it keeps the window exact and the records distinct.
LEMMA AcceptFacts ==
    ASSUME RecordIInv, NEW r \in Records, r.epoch = r_epoch, r.good,
           dtls1_record_replay_check(bitmap, r.seq),
           bitmap' = dtls1_record_bitmap_update(bitmap, r.seq),
           accepted' = accepted \cup {r}, r_epoch' = r_epoch
    PROVE  /\ r \notin accepted
           /\ bitmap' \in Bitmaps
           /\ ExactFor(bitmap', AcceptedNow')
           /\ AcceptedHadKeys'
           /\ \A x, q \in accepted' : x.epoch = q.epoch /\ x.seq = q.seq => x = q
  <1>1. /\ TypeOK /\ AcceptedHadKeys /\ ExactFor(bitmap, AcceptedNow)
        /\ PlacesApart
    BY InvForm
  <1>2. r.seq \in Nat /\ AcceptedNow \in SUBSET Nat /\ bitmap \in Bitmaps
    BY <1>1 DEF Records, AcceptedNow, AcceptedHadKeys, TypeOK
  <1>3. r.seq \notin AcceptedNow
    BY <1>1, <1>2, CheckedIsNew
  <1>4. AcceptedNow' = AcceptedNow \cup {r.seq}
    BY DEF AcceptedNow
  <1>5. bitmap' \in Bitmaps /\ ExactFor(bitmap', AcceptedNow')
    BY <1>1, <1>2, <1>4, UpdateIsExact
  <1>6. \A x \in accepted : x.epoch = r.epoch => x.seq # r.seq
    BY <1>3 DEF AcceptedNow
  <1>7. r_epoch \in Int
    BY <1>1, RecordLayerAssumption DEF TypeOK
  <1>8. AcceptedHadKeys'
    BY <1>1, <1>7 DEF AcceptedHadKeys
  <1>9. \A x, q \in accepted' : x.epoch = q.epoch /\ x.seq = q.seq => x = q
    BY <1>1, <1>6 DEF PlacesApart
  <1> QED
    BY <1>5, <1>6, <1>8, <1>9

\* A step that leaves alone which records were accepted and the window.
LEMMA WindowUntouched ==
    ASSUME RecordIInv, UNCHANGED <<r_epoch, bitmap, next_bitmap, accepted>>
    PROVE  /\ ExactFor(bitmap', AcceptedNow')
           /\ next_bitmap' = EmptyBitmap'
           /\ AcceptedHadKeys'
    BY InvForm DEF AcceptedNow, AcceptedHadKeys, EmptyBitmap

-----------------------------------------------------------------------------
(***************************************************************************)
(* The steps of dtls1_read_bytes.                                          *)
(***************************************************************************)

\* Data that was put off is taken out of its queue.
LEMMA StartInv == ASSUME RecordIInv, Start PROVE RecordIInv'
  <1>1. /\ TypeOK /\ QueuesAreOfEpoch /\ ReadyForNextEpoch /\ PlacesApart
        /\ BufferedAreCurrent /\ DataAfterFinished
    BY InvForm
  <1>2. /\ ~in_error /\ pc = "start"
        /\ UNCHANGED <<r_epoch, next_bitmap, in_init, change_cipher_spec, bitmap,
             unprocessed, unprocessed_epoch, processed, in_error, accepted, handed>>
    BY DEF Start, handshake
  <1>3. ExactFor(bitmap', AcceptedNow') /\ next_bitmap' = EmptyBitmap' /\ AcceptedHadKeys'
    BY <1>2, WindowUntouched
  <1>4. BufferedAreCurrent' /\ DataAfterFinished'
    BY <1>1, <1>2 DEF BufferedAreCurrent, DataAfterFinished, Start
  <1>5. CASE pc' = "again" /\ UNCHANGED <<rrec, buffered_app, rbuf, kept>>
    <2>1. TypeOK'
      BY <1>1, <1>2, <1>5 DEF TypeOK
    <2>2. QueuesAreOfEpoch'
      BY <1>1, <1>2, <1>5 DEF QueuesAreOfEpoch
    <2>4. ReadyForNextEpoch'
      BY <1>1, <1>2, <1>5, ReadyStays
    <2>3. PlacesApart'
      BY <1>1, <1>2, <1>5 DEF PlacesApart
    <2> QED
      BY <1>3, <1>4, <2>1, <2>2, <2>3, <2>4, InvFormPrimed
  <1>6. CASE /\ ~in_init /\ buffered_app # {}
             /\ rrec' = pqueue_peek(buffered_app)
             /\ buffered_app' = buffered_app \ {rrec'}
             /\ CopyBuffer("buffered_app", rrec')
             /\ pc' = "deliver"
    <2>1. rrec' \in buffered_app /\ rrec' \in Sent /\ rrec' # NoRecord
      BY <1>1, <1>6, PeekIsInQueue, RecordLayerAssumption DEF TypeOK
    <2>2. IsFiniteSet(buffered_app') /\ Cardinality(buffered_app') <= QUEUE_LIMIT
      BY <1>1, <1>6, TakeFromQueue DEF TypeOK
    <2>6. /\ rbuf' \in Datagrams /\ kept' \in KeptT
          /\ \A e \in Nat : Below(rbuf, kept, e) => Below(rbuf', kept', e)
      <3>1. rbuf \in Datagrams /\ kept \in KeptT /\ "buffered_app" \in Queues
        BY <1>1 DEF TypeOK, KeptT, Queues
      <3> QED
        BY <1>6, <2>1, <3>1, CopyBufferFacts
    <2>3. TypeOK'
      BY <1>1, <1>2, <1>6, <2>1, <2>2, <2>6 DEF TypeOK, KeptT
    <2>4. QueuesAreOfEpoch' /\ ReadyForNextEpoch'
      <3>1. QueuesAreOfEpoch'
        BY <1>1, <1>2, <1>6 DEF QueuesAreOfEpoch
      <3> QED
        BY <1>1, <1>2, <1>6, <2>6, <3>1, ReadyStays
    <2>5. PlacesApart'
      BY <1>1, <1>2, <1>6, <2>1 DEF PlacesApart
    <2> QED
      BY <1>3, <1>4, <2>3, <2>4, <2>5, InvFormPrimed
  <1> QED
    BY <1>5, <1>6 DEF Start, buffers

\* The buffered records are looked at, or left until the datagram is read.
LEMMA BeginBufferedInv == ASSUME RecordIInv, BeginBuffered PROVE RecordIInv'
  <1> USE RecordLayerAssumption
  <1>1. /\ TypeOK /\ QueuesAreOfEpoch /\ ReadyForNextEpoch /\ PlacesApart
        /\ BufferedAreCurrent /\ DataAfterFinished
    BY InvForm
  <1>2. /\ pc = "again"
        /\ UNCHANGED <<r_epoch, next_bitmap, in_init, change_cipher_spec, bitmap,
             unprocessed, processed, buffered_app, rrec, rbuf, kept, in_error,
             accepted, handed>>
    BY DEF BeginBuffered, handshake, buffers
  <1>3. ExactFor(bitmap', AcceptedNow') /\ next_bitmap' = EmptyBitmap' /\ AcceptedHadKeys'
    BY <1>2, WindowUntouched
  <1>4. PlacesApart' /\ DataAfterFinished'
    BY <1>1, <1>2 DEF PlacesApart, DataAfterFinished
  <1>5. r_epoch \in Nat /\ unprocessed_epoch \in Nat
    BY <1>1 DEF TypeOK
  <1>6. /\ pc' \in {"buffered", "next"}
        /\ pc' = "buffered" =>
             unprocessed_epoch = r_epoch /\ rbuf.left = 0 /\ UNCHANGED unprocessed_epoch
        /\ pc' = "next" =>
             \/ unprocessed = {} /\ unprocessed_epoch' = r_epoch + 1
             \/ /\ unprocessed # {} /\ (unprocessed_epoch # r_epoch \/ rbuf.left # 0)
                /\ UNCHANGED unprocessed_epoch
    BY DEF BeginBuffered, SyncEpochs
  <1>7. TypeOK'
    BY <1>1, <1>2, <1>5, <1>6 DEF TypeOK
  <1>8. QueuesAreOfEpoch'
    BY <1>1, <1>2, <1>5, <1>6 DEF QueuesAreOfEpoch
  <1>9. ReadyForNextEpoch'
    <2>1. PeerEpoch' = PeerEpoch
      BY <1>2 DEF PeerEpoch
    <2>2. pc' = "next" /\ rbuf.left = 0 => unprocessed_epoch' = r_epoch + 1
      BY <1>1, <1>2, <1>5, <1>6 DEF QueuesAreOfEpoch
    <2>3. unprocessed_epoch' = r_epoch => unprocessed_epoch = r_epoch
      BY <1>5, <1>6
    <2> QED
      BY <1>1, <1>2, <1>6, <2>1, <2>2, <2>3, ReadyForm, ReadyFormPrimed
  <1>10. BufferedAreCurrent'
    BY <1>1, <1>2, <1>6 DEF BufferedAreCurrent, QueuesAreOfEpoch
  <1> QED
    BY <1>3, <1>4, <1>7, <1>8, <1>9, <1>10, InvFormPrimed

\* One buffered record is checked and moved to the processed ones, dropped,
\* or found fatal.
LEMMA ProcessBufferedInv == ASSUME RecordIInv, ProcessBuffered PROVE RecordIInv'
  <1> USE RecordLayerAssumption
  <1> DEFINE r == pqueue_peek(unprocessed)
  <1>1. /\ TypeOK /\ QueuesAreOfEpoch /\ ReadyForNextEpoch /\ AcceptedHadKeys
        /\ PlacesApart /\ BufferedAreCurrent /\ DataAfterFinished
        /\ next_bitmap = EmptyBitmap
    BY InvForm
  <1>2. /\ pc = "buffered" /\ unprocessed # {}
        /\ BufferedRecord(r)
        /\ unprocessed' = unprocessed \ {r}
        /\ UNCHANGED <<r_epoch, next_bitmap, in_init, change_cipher_spec,
             unprocessed_epoch, buffered_app, rrec, handed>>
    BY DEF ProcessBuffered, handshake
  <1>3. r \in unprocessed
    BY <1>1, <1>2, PeekIsInQueue DEF TypeOK
  <1> HIDE DEF r
  <1>4. r \in Sent /\ r \in Records /\ r.epoch = r_epoch /\ r # NoRecord
    BY <1>1, <1>2, <1>3 DEF BufferedAreCurrent, TypeOK
  <1>5. /\ unprocessed' \subseteq unprocessed /\ IsFiniteSet(unprocessed')
        /\ Cardinality(unprocessed') <= QUEUE_LIMIT
    BY <1>1, <1>2, TakeFromQueue DEF TypeOK
  <1>6. next_bitmap' = EmptyBitmap'
    BY <1>1, <1>2 DEF EmptyBitmap
  <1>7. DataAfterFinished'
    BY <1>1, <1>2 DEF DataAfterFinished
  <1>8. CASE /\ r.good /\ dtls1_record_replay_check(bitmap, r.seq)
             /\ bitmap' = dtls1_record_bitmap_update(bitmap, r.seq)
             /\ accepted' = accepted \cup {r}
             /\ MoveToProcessed(r)
             /\ UNCHANGED <<pc, in_error>>
    <2>1. /\ r \notin accepted /\ bitmap' \in Bitmaps
          /\ ExactFor(bitmap', AcceptedNow') /\ AcceptedHadKeys'
          /\ \A x, q \in accepted' : x.epoch = q.epoch /\ x.seq = q.seq => x = q
      BY <1>2, <1>4, <1>8, AcceptFacts
    <2>7. processed' = dtls1_buffer_record(processed, r)
      BY <1>8 DEF MoveToProcessed
    <2>8. /\ rbuf' \in Datagrams /\ kept' \in KeptT
          /\ \A e \in Nat : Below(rbuf, kept, e) => Below(rbuf', kept', e)
      <3>1. rbuf \in Datagrams /\ kept \in KeptT
        BY <1>1 DEF TypeOK, KeptT
      <3> QED
        BY <1>4, <1>8, <3>1, MoveFacts
    <2>2. /\ processed' \in {processed, processed \cup {r}}
          /\ IsFiniteSet(processed') /\ Cardinality(processed') <= QUEUE_LIMIT
      BY <1>1, <2>7, BufferFacts DEF TypeOK
    <2>3. TypeOK'
      BY <1>1, <1>2, <1>4, <1>5, <1>8, <2>1, <2>2, <2>8 DEF TypeOK, KeptT
    <2>4. QueuesAreOfEpoch' /\ BufferedAreCurrent'
      BY <1>1, <1>2, <1>3, <1>4, <1>5, <1>8, <2>2
      DEF QueuesAreOfEpoch, BufferedAreCurrent
    <2>5. ReadyForNextEpoch'
      BY <1>1, <1>2, <1>8, <2>8, ReadyStays
    <2>6. PlacesApart'
      BY <1>1, <1>2, <1>4, <1>8, <2>1, <2>2 DEF PlacesApart
    <2> QED
      BY <1>6, <1>7, <2>1, <2>3, <2>4, <2>5, <2>6, InvFormPrimed
  <1>9. CASE /\ UNCHANGED <<bitmap, accepted, processed>>
             /\ CopyBuffer("unprocessed", r)
             /\ \/ UNCHANGED <<pc, in_error>>
                \/ pc' = "next" /\ in_error' = TRUE
    <2>1. ExactFor(bitmap', AcceptedNow') /\ AcceptedHadKeys'
      BY <1>2, <1>9, WindowUntouched
    <2>6. /\ rbuf' \in Datagrams /\ kept' \in KeptT
          /\ \A e \in Nat : Below(rbuf, kept, e) => Below(rbuf', kept', e)
      <3>1. rbuf \in Datagrams /\ kept \in KeptT /\ "unprocessed" \in Queues
        BY <1>1 DEF TypeOK, KeptT, Queues
      <3> QED
        BY <1>4, <1>9, <3>1, CopyBufferFacts
    <2>2. TypeOK'
      BY <1>1, <1>2, <1>5, <1>9, <2>6 DEF TypeOK, KeptT
    <2>3. QueuesAreOfEpoch' /\ BufferedAreCurrent'
      BY <1>1, <1>2, <1>5, <1>9 DEF QueuesAreOfEpoch, BufferedAreCurrent
    <2>4. ReadyForNextEpoch'
      BY <1>1, <1>2, <1>9, <2>6, ReadyStays
    <2>5. PlacesApart'
      BY <1>1, <1>2, <1>9 DEF PlacesApart
    <2> QED
      BY <1>6, <1>7, <2>1, <2>2, <2>3, <2>4, <2>5, InvFormPrimed
  <1> QED
    BY <1>2, <1>8, <1>9 DEF BufferedRecord

\* The loop ends and the queue waits for the next epoch.
LEMMA EndBufferedInv == ASSUME RecordIInv, EndBuffered PROVE RecordIInv'
  <1> USE RecordLayerAssumption
  <1>1. /\ TypeOK /\ QueuesAreOfEpoch /\ ReadyForNextEpoch /\ PlacesApart
        /\ BufferedAreCurrent /\ DataAfterFinished
    BY InvForm
  <1>2. /\ pc = "buffered" /\ pc' = "next" /\ unprocessed = {}
        /\ unprocessed_epoch' = r_epoch + 1
        /\ UNCHANGED <<r_epoch, next_bitmap, in_init, change_cipher_spec, bitmap,
             unprocessed, processed, buffered_app, rrec, rbuf, kept, in_error,
             accepted, handed>>
    BY DEF EndBuffered, handshake, SyncEpochs, buffers
  <1>3. ExactFor(bitmap', AcceptedNow') /\ next_bitmap' = EmptyBitmap' /\ AcceptedHadKeys'
    BY <1>2, WindowUntouched
  <1>4. PlacesApart' /\ DataAfterFinished' /\ BufferedAreCurrent'
    BY <1>1, <1>2 DEF PlacesApart, DataAfterFinished, BufferedAreCurrent
  <1>5. TypeOK'
    BY <1>1, <1>2 DEF TypeOK
  <1>6. QueuesAreOfEpoch'
    BY <1>1, <1>2 DEF QueuesAreOfEpoch
  <1>7. ReadyForNextEpoch'
    <2>1. PeerEpoch' = PeerEpoch /\ r_epoch \in Nat
      BY <1>1, <1>2 DEF PeerEpoch, TypeOK
    <2> QED
      BY <1>1, <1>2, <2>1, ReadyForm, ReadyFormPrimed
  <1> QED
    BY <1>3, <1>4, <1>5, <1>6, <1>7, InvFormPrimed

\* A processed record is taken out of its queue.
LEMMA GetProcessedInv == ASSUME RecordIInv, GetProcessed PROVE RecordIInv'
  <1> USE RecordLayerAssumption
  <1>1. /\ TypeOK /\ QueuesAreOfEpoch /\ ReadyForNextEpoch /\ PlacesApart
        /\ BufferedAreCurrent /\ DataAfterFinished
    BY InvForm
  <1>2. /\ pc = "next" /\ pc' = "deliver" /\ processed # {}
        /\ rrec' = pqueue_peek(processed)
        /\ processed' = processed \ {rrec'}
        /\ CopyBuffer("processed", rrec')
        /\ UNCHANGED <<r_epoch, next_bitmap, in_init, change_cipher_spec, bitmap,
             unprocessed, unprocessed_epoch, buffered_app, in_error,
             accepted, handed>>
    BY DEF GetProcessed, handshake
  <1>3. ExactFor(bitmap', AcceptedNow') /\ next_bitmap' = EmptyBitmap' /\ AcceptedHadKeys'
    BY <1>2, WindowUntouched
  <1>4. rrec' \in processed /\ rrec' \in Sent /\ rrec' # NoRecord
    BY <1>1, <1>2, PeekIsInQueue DEF TypeOK
  <1>5. IsFiniteSet(processed') /\ Cardinality(processed') <= QUEUE_LIMIT
    BY <1>1, <1>2, TakeFromQueue DEF TypeOK
  <1>6. PlacesApart'
    BY <1>1, <1>2, <1>4 DEF PlacesApart
  <1>7. DataAfterFinished' /\ BufferedAreCurrent'
    BY <1>1, <1>2 DEF DataAfterFinished, BufferedAreCurrent
  <1>12. /\ rbuf' \in Datagrams /\ kept' \in KeptT
         /\ \A e \in Nat : Below(rbuf, kept, e) => Below(rbuf', kept', e)
    <2>1. rbuf \in Datagrams /\ kept \in KeptT /\ "processed" \in Queues
      BY <1>1 DEF TypeOK, KeptT, Queues
    <2> QED
      BY <1>2, <1>4, <2>1, CopyBufferFacts
  <1>8. TypeOK'
    BY <1>1, <1>2, <1>4, <1>5, <1>12 DEF TypeOK, KeptT
  <1>9. QueuesAreOfEpoch'
    BY <1>1, <1>2 DEF QueuesAreOfEpoch
  <1>10. rrec'.type # "ccs"
    BY <1>1, <1>4 DEF QueuesAreOfEpoch
  <1>11. ReadyForNextEpoch'
    BY <1>1, <1>2, <1>10, <1>12, ReadyStays
  <1> QED
    BY <1>3, <1>6, <1>7, <1>8, <1>9, <1>11, InvFormPrimed

\* A record read from the wire is dropped, kept for the next epoch, accepted
\* or refused.
LEMMA ReadFromWireInv == ASSUME RecordIInv, ReadFromWire PROVE RecordIInv'
  <1> USE RecordLayerAssumption
  <1>1. /\ TypeOK /\ QueuesAreOfEpoch /\ ReadyForNextEpoch /\ AcceptedHadKeys
        /\ PlacesApart /\ BufferedAreCurrent /\ DataAfterFinished
        /\ next_bitmap = EmptyBitmap
    BY InvForm
  <1>2. PICK r \in Sent, rest \in Datagrams :
          /\ ReadsDatagram(r, rest)
          /\ \/ DropFromWire(r, rest) \/ BufferFromWire(r, rest)
             \/ AcceptFromWire(r, rest) \/ RefuseFromWire(r, rest)
    BY DEF ReadFromWire
  <1>3. /\ pc = "next" /\ processed = {}
        /\ UNCHANGED <<r_epoch, next_bitmap, in_init, change_cipher_spec,
             unprocessed_epoch, processed, buffered_app, handed>>
    BY DEF ReadFromWire, handshake
  <1>4. rbuf \in Datagrams /\ kept \in KeptT
    BY <1>1 DEF TypeOK, KeptT
  <1>5. r \in Records /\ r # NoRecord
    OBVIOUS
  <1>6. DataAfterFinished' /\ next_bitmap' = EmptyBitmap'
    BY <1>1, <1>3 DEF DataAfterFinished, EmptyBitmap
  <1>7. r_epoch \in Nat
    BY <1>1 DEF TypeOK
  <1>10. PeerEpoch' = PeerEpoch
    BY <1>3 DEF PeerEpoch
  <1>11. /\ unprocessed_epoch \in {r_epoch, r_epoch + 1}
         /\ PeerEpoch \in Nat /\ unprocessed_epoch \in Nat
         /\ Below(rbuf, kept, PeerEpoch)
         /\ ~in_error /\ unprocessed_epoch = r_epoch => Below(rbuf, kept, r_epoch)
         /\ ~in_error /\ rbuf.left = 0 => unprocessed_epoch = r_epoch + 1
    BY <1>1, <1>3, PeerFacts, ReadyForm DEF QueuesAreOfEpoch
  <1>12. /\ rest.epoch <= PeerEpoch
         /\ ~in_error /\ unprocessed_epoch = r_epoch => rest.epoch <= r_epoch
    <2>1. CASE rbuf.left > 0
      <3>1. rest.epoch \in {0, rbuf.epoch}
        BY <1>2, <1>4, <2>1, NoDataFacts DEF ReadsDatagram, Datagrams
      <3> QED
        BY <1>7, <1>11, <3>1 DEF Below
    <2>2. CASE ~(rbuf.left > 0)
      <3>1. rbuf.left = 0
        BY <1>4, <2>2 DEF Datagrams
      <3>2. rest.epoch \in {0, PeerEpoch}
        BY <1>2, <2>2, NoDataFacts DEF ReadsDatagram
      <3> QED
        BY <1>7, <1>11, <3>1, <3>2
    <2> QED
      BY <2>1, <2>2
  <1>13. r.good /\ r.type = "ccs" /\ r.epoch = r_epoch
           => unprocessed_epoch = r_epoch + 1 \/ in_error
    <2>1. CASE rbuf.left > 0
      <3>1. r.good /\ r.type = "ccs" /\ r.epoch = r_epoch => r_epoch < rbuf.epoch
        BY <1>2, <2>1 DEF ReadsDatagram, CanCarry
      <3>2. rbuf.epoch \in Nat
        BY <1>4 DEF Datagrams
      <3> QED
        BY <1>7, <1>11, <3>1, <3>2 DEF Below
    <2>2. CASE ~(rbuf.left > 0)
      BY <1>4, <1>11, <2>2 DEF Datagrams
    <2> QED
      BY <2>1, <2>2
  <1>14. ASSUME rbuf' = rest, kept' = kept
         PROVE  /\ rbuf' \in Datagrams /\ kept' \in KeptT
                /\ \A e \in Nat : Below(rbuf, kept, e) /\ rest.epoch <= e
                                     => Below(rbuf', kept', e)
    BY <1>4, <1>14 DEF Below
  <1>8. CASE AcceptFromWire(r, rest)
    <2>1. /\ r.epoch = r_epoch /\ r.good /\ dtls1_record_replay_check(bitmap, r.seq)
          /\ bitmap' = dtls1_record_bitmap_update(bitmap, r.seq)
          /\ accepted' = accepted \cup {r} /\ rrec' = r /\ pc' = "deliver"
          /\ rbuf' = rest /\ UNCHANGED <<unprocessed, kept, in_error>>
      BY <1>8 DEF AcceptFromWire, dtls1_get_bitmap
    <2>2. /\ r \notin accepted /\ bitmap' \in Bitmaps
          /\ ExactFor(bitmap', AcceptedNow') /\ AcceptedHadKeys'
          /\ \A x, q \in accepted' : x.epoch = q.epoch /\ x.seq = q.seq => x = q
      BY <1>3, <1>5, <2>1, AcceptFacts
    <2>3. TypeOK'
      BY <1>1, <1>3, <1>5, <1>14, <2>1, <2>2 DEF TypeOK, KeptT
    <2>4. QueuesAreOfEpoch' /\ BufferedAreCurrent'
      BY <1>1, <1>3, <2>1 DEF QueuesAreOfEpoch, BufferedAreCurrent
    <2>5. ReadyForNextEpoch'
      BY <1>3, <1>7, <1>10, <1>11, <1>12, <1>13, <1>14, <2>1, ReadyFormPrimed
    <2>6. PlacesApart'
      BY <1>1, <1>3, <1>5, <2>1, <2>2 DEF PlacesApart
    <2> QED
      BY <1>6, <2>2, <2>3, <2>4, <2>5, <2>6, InvFormPrimed
  <1>9. CASE /\ UNCHANGED <<bitmap, rrec, accepted>>
             /\ \/ unprocessed' = unprocessed /\ rbuf' = rest /\ kept' = kept
                \/ BufferFromWire(r, rest)
             /\ \/ pc' = "again" /\ UNCHANGED in_error
                \/ pc' = "start" /\ in_error' = TRUE
    <2>1. ExactFor(bitmap', AcceptedNow') /\ AcceptedHadKeys'
      BY <1>3, <1>9, WindowUntouched
    <2>2. \/ unprocessed' = unprocessed
          \/ /\ unprocessed' \in {unprocessed, unprocessed \cup {r}}
             /\ IsFiniteSet(unprocessed') /\ Cardinality(unprocessed') <= QUEUE_LIMIT
             /\ r.epoch = r_epoch + 1 /\ unprocessed_epoch # r_epoch
             /\ r.type \in {"handshake", "finished", "alert"}
      <3>1. CASE BufferFromWire(r, rest)
        <4>1. unprocessed' = dtls1_buffer_record(unprocessed, r)
          BY <3>1 DEF BufferFromWire
        <4>2. /\ r.epoch = r_epoch + 1 /\ unprocessed_epoch # r_epoch
              /\ r.type \in {"handshake", "finished", "alert"}
          BY <3>1 DEF BufferFromWire, dtls1_get_bitmap
        <4> QED
          BY <1>1, <4>1, <4>2, BufferFacts DEF TypeOK
      <3> QED
        BY <1>9, <3>1
    <2>7. /\ rbuf' \in Datagrams /\ kept' \in KeptT
          /\ \A e \in Nat : Below(rbuf, kept, e) /\ rest.epoch <= e
                               => Below(rbuf', kept', e)
      <3>1. CASE BufferFromWire(r, rest)
        <4>1. TakeBuffer("unprocessed", unprocessed, r, rest) /\ "unprocessed" \in Queues
          BY <3>1 DEF BufferFromWire, Queues
        <4> QED
          BY <1>4, <4>1, TakeBufferFacts
      <3> QED
        BY <1>9, <1>14, <3>1
    <2>3. TypeOK'
      BY <1>1, <1>3, <1>5, <1>9, <2>2, <2>7 DEF TypeOK, KeptT
    <2>4. QueuesAreOfEpoch' /\ BufferedAreCurrent'
      BY <1>1, <1>3, <1>7, <1>9, <2>2 DEF QueuesAreOfEpoch, BufferedAreCurrent
    <2>5. ReadyForNextEpoch'
      BY <1>3, <1>7, <1>9, <1>10, <1>11, <1>12, <2>7, ReadyFormPrimed
    <2>6. PlacesApart'
      BY <1>1, <1>3, <1>9 DEF PlacesApart
    <2> QED
      BY <1>6, <2>1, <2>3, <2>4, <2>5, <2>6, InvFormPrimed
  <1> QED
    BY <1>2, <1>8, <1>9 DEF DropFromWire, BufferFromWire, RefuseFromWire

\* Nothing to read.
LEMMA WouldBlockInv == ASSUME RecordIInv, WouldBlock PROVE RecordIInv'
  <1>1. /\ TypeOK /\ QueuesAreOfEpoch /\ ReadyForNextEpoch /\ PlacesApart
        /\ BufferedAreCurrent /\ DataAfterFinished
    BY InvForm
  <1>2. /\ pc = "next" /\ pc' = "start"
        /\ UNCHANGED <<r_epoch, bitmap, next_bitmap, in_init, change_cipher_spec,
             unprocessed, unprocessed_epoch, processed, buffered_app, rrec,
             rbuf, kept, in_error, accepted, handed>>
    BY DEF WouldBlock, handshake, windows, queues, buffers
  <1>3. ExactFor(bitmap', AcceptedNow') /\ next_bitmap' = EmptyBitmap' /\ AcceptedHadKeys'
    BY <1>2, WindowUntouched
  <1>4. PlacesApart' /\ DataAfterFinished' /\ BufferedAreCurrent'
    BY <1>1, <1>2 DEF PlacesApart, DataAfterFinished, BufferedAreCurrent
  <1>5. TypeOK'
    BY <1>1, <1>2 DEF TypeOK
  <1>6. QueuesAreOfEpoch'
    BY <1>1, <1>2 DEF QueuesAreOfEpoch
  <1>7. ReadyForNextEpoch'
    BY <1>1, <1>2, ReadyStays
  <1> QED
    BY <1>3, <1>4, <1>5, <1>6, <1>7, InvFormPrimed

\* A record between CCS and Finished is put off.
LEMMA BufferAppDataInv == ASSUME RecordIInv, BufferAppData PROVE RecordIInv'
  <1> USE RecordLayerAssumption
  <1>1. /\ TypeOK /\ QueuesAreOfEpoch /\ ReadyForNextEpoch /\ PlacesApart
        /\ BufferedAreCurrent /\ DataAfterFinished /\ AcceptedHadKeys
    BY InvForm
  <1>2. /\ pc = "deliver" /\ pc' = "start" /\ rrec' = NoRecord
        /\ change_cipher_spec
        /\ buffered_app' = dtls1_buffer_record(buffered_app, rrec)
        /\ TakeBuffer("buffered_app", buffered_app, rrec, rbuf)
        /\ UNCHANGED <<r_epoch, bitmap, next_bitmap, in_init, change_cipher_spec,
             unprocessed, unprocessed_epoch, processed, in_error,
             accepted, handed>>
    BY DEF BufferAppData, handshake, windows, MustWaitForFinished
  <1>3. ExactFor(bitmap', AcceptedNow') /\ next_bitmap' = EmptyBitmap' /\ AcceptedHadKeys'
    BY <1>2, WindowUntouched
  <1>4. /\ buffered_app' \in {buffered_app, buffered_app \cup {rrec}}
        /\ IsFiniteSet(buffered_app') /\ Cardinality(buffered_app') <= QUEUE_LIMIT
    BY <1>1, <1>2, BufferFacts DEF TypeOK
  <1>5. rrec \in accepted /\ rrec \in Sent /\ NoRecord \notin accepted
    BY <1>1, <1>2 DEF TypeOK, PlacesApart, AcceptedHadKeys
  <1>6. PlacesApart'
    BY <1>1, <1>2, <1>4, <1>5 DEF PlacesApart
  <1>7. DataAfterFinished' /\ BufferedAreCurrent'
    BY <1>1, <1>2 DEF DataAfterFinished, BufferedAreCurrent
  <1>10. /\ rbuf' \in Datagrams /\ kept' \in KeptT
         /\ \A e \in Nat : Below(rbuf, kept, e) => Below(rbuf', kept', e)
    <2>1. rbuf \in Datagrams /\ kept \in KeptT /\ "buffered_app" \in Queues
      BY <1>1 DEF TypeOK, KeptT, Queues
    <2>2. /\ rbuf' \in Datagrams /\ kept' \in KeptT
          /\ \A e \in Nat : Below(rbuf, kept, e) /\ rbuf.epoch <= e
                               => Below(rbuf', kept', e)
      BY <1>2, <1>5, <2>1, TakeBufferFacts
    <2>3. \A e \in Nat : Below(rbuf, kept, e) => rbuf.epoch <= e
      BY DEF Below
    <2> QED
      BY <2>2, <2>3
  <1>8. TypeOK'
    BY <1>1, <1>2, <1>4, <1>5, <1>10 DEF TypeOK, KeptT
  <1>9. QueuesAreOfEpoch' /\ ReadyForNextEpoch'
    <2>1. QueuesAreOfEpoch'
      BY <1>1, <1>2 DEF QueuesAreOfEpoch
    <2> QED
      BY <1>1, <1>2, <1>10, <2>1, ReadyStays
  <1> QED
    BY <1>3, <1>6, <1>7, <1>8, <1>9, InvFormPrimed

\* What handing a record up changes, whatever its type.
LEMMA HandUpFacts ==
    ASSUME RecordIInv, HandUp
    PROVE  /\ pc = "deliver" /\ pc' = "start"
           /\ rrec \in accepted /\ rrec \in Records /\ rrec.epoch <= r_epoch
           /\ handed' = handed \cup {rrec} /\ rrec' = NoRecord
           /\ change_cipher_spec => rrec.type \in {"handshake", "finished"}
           /\ PlacesApart'
           /\ UNCHANGED <<unprocessed, unprocessed_epoch, processed,
                          buffered_app, rbuf, kept, in_error, accepted>>
  <1> USE RecordLayerAssumption
  <1>1. TypeOK /\ PlacesApart /\ AcceptedHadKeys
    BY InvForm
  <1>2. /\ pc = "deliver" /\ pc' = "start"
        /\ handed' = handed \cup {rrec} /\ rrec' = NoRecord
        /\ change_cipher_spec => rrec.type \in {"handshake", "finished"}
        /\ UNCHANGED <<unprocessed, unprocessed_epoch, processed,
                       buffered_app, rbuf, kept, in_error, accepted>>
    BY DEF HandUp, queues, buffers, MustWaitForFinished
  <1>3. /\ rrec \in accepted /\ rrec \in Records /\ rrec.epoch <= r_epoch
        /\ NoRecord \notin accepted
    BY <1>1, <1>2 DEF TypeOK, PlacesApart, AcceptedHadKeys
  <1>4. PlacesApart'
    BY <1>1, <1>2, <1>3 DEF PlacesApart
  <1> QED
    BY <1>2, <1>3, <1>4

\* A record is handed up and the epoch stays.
LEMMA HandUpStays ==
    ASSUME RecordIInv, HandUp, UNCHANGED <<r_epoch, bitmap, next_bitmap>>,
           \/ UNCHANGED <<in_init, change_cipher_spec>>
           \/ /\ change_cipher_spec' = FALSE
              /\ in_init' \in BOOLEAN
              /\ in_init' = (in_init /\ ~change_cipher_spec)
    PROVE  RecordIInv'
  <1> USE RecordLayerAssumption
  <1>1. /\ TypeOK /\ QueuesAreOfEpoch /\ ReadyForNextEpoch
        /\ BufferedAreCurrent /\ DataAfterFinished
    BY InvForm
  <1>2. /\ pc = "deliver" /\ pc' = "start"
        /\ rrec \in accepted /\ rrec \in Records
        /\ handed' = handed \cup {rrec} /\ rrec' = NoRecord
        /\ change_cipher_spec => rrec.type \in {"handshake", "finished"}
        /\ PlacesApart'
        /\ UNCHANGED <<unprocessed, unprocessed_epoch, processed,
                       buffered_app, rbuf, kept, in_error, accepted>>
    BY HandUpFacts
  <1>3. ExactFor(bitmap', AcceptedNow') /\ next_bitmap' = EmptyBitmap' /\ AcceptedHadKeys'
    BY <1>2, WindowUntouched
  <1>4. DataAfterFinished' /\ BufferedAreCurrent'
    BY <1>1, <1>2 DEF DataAfterFinished, BufferedAreCurrent
  <1>5. TypeOK'
    BY <1>1, <1>2 DEF TypeOK
  <1>6. QueuesAreOfEpoch' /\ ReadyForNextEpoch'
    <2>1. QueuesAreOfEpoch'
      BY <1>1, <1>2 DEF QueuesAreOfEpoch
    <2>2. PeerEpoch' = PeerEpoch
      BY DEF PeerEpoch
    <2>3. ReadyForNextEpoch'
      BY <1>1, <1>2, <2>2, ReadyForm, ReadyFormPrimed
    <2> QED
      BY <2>1, <2>3
  <1> QED
    BY <1>2, <1>3, <1>4, <1>5, <1>6, InvFormPrimed

\* A CCS that is due changes the keys: nothing of the new epoch was accepted
\* before, and what waits for the new keys is marked with the new epoch.
LEMMA ChangeCipherSpecInv ==
    ASSUME RecordIInv, HandUp, rrec.type = "ccs", in_init, ~change_cipher_spec,
           r_epoch < MAX_EPOCH, change_cipher_spec' = TRUE, ResetSeqNumbers,
           UNCHANGED in_init
    PROVE  RecordIInv'
  <1> USE RecordLayerAssumption
  <1>1. /\ TypeOK /\ QueuesAreOfEpoch /\ ReadyForNextEpoch /\ AcceptedHadKeys
        /\ BufferedAreCurrent /\ DataAfterFinished /\ next_bitmap = EmptyBitmap
        /\ PlacesApart
    BY InvForm
  <1>2. /\ pc = "deliver" /\ pc' = "start"
        /\ rrec \in accepted /\ rrec \in Records /\ rrec.epoch <= r_epoch
        /\ handed' = handed \cup {rrec} /\ rrec' = NoRecord
        /\ PlacesApart'
        /\ UNCHANGED <<unprocessed, unprocessed_epoch, processed,
                       buffered_app, rbuf, kept, in_error, accepted>>
    BY HandUpFacts
  <1>3. /\ r_epoch' = r_epoch + 1 /\ r_epoch \in Nat
        /\ bitmap' = EmptyBitmap /\ next_bitmap' = EmptyBitmap'
    BY <1>1 DEF ResetSeqNumbers, TypeOK, EmptyBitmap
  <1>4. \A r \in accepted : r.epoch \in Nat /\ r.epoch <= r_epoch
    BY <1>1 DEF AcceptedHadKeys, Records
  <1>5. AcceptedHadKeys'
    BY <1>1, <1>2, <1>3, <1>4 DEF AcceptedHadKeys
  <1>6. AcceptedNow' = {}
    BY <1>2, <1>3, <1>4 DEF AcceptedNow
  <1>7. EmptyBitmap \in Bitmaps
    BY DEF EmptyBitmap, Bitmaps
  <1>8. ExactFor(bitmap', AcceptedNow')
    BY <1>3, <1>6 DEF ExactFor, EmptyBitmap
  <1>9. processed = {} /\ (in_error \/ unprocessed_epoch = r_epoch + 1)
    BY <1>1, <1>2 DEF ReadyForNextEpoch
  <1>10. TypeOK'
    <2>1. r_epoch' \in 0..MAX_EPOCH
      BY <1>3
    <2>2. bitmap' \in Bitmaps /\ next_bitmap' \in Bitmaps
      BY <1>3, <1>7 DEF EmptyBitmap
    <2> QED
      BY <1>1, <1>2, <2>1, <2>2 DEF TypeOK
  <1>11. QueuesAreOfEpoch' /\ ReadyForNextEpoch'
    <2>1. QueuesAreOfEpoch'
      BY <1>1, <1>2, <1>3, <1>9 DEF QueuesAreOfEpoch
    <2>2. PeerEpoch' = r_epoch' /\ PeerEpoch = r_epoch'
      BY <1>3 DEF PeerEpoch
    <2>3. ReadyForNextEpoch'
      BY <1>1, <1>2, <2>2, ReadyForm, ReadyFormPrimed
    <2> QED
      BY <2>1, <2>3
  <1>12. BufferedAreCurrent'
    BY <1>2, <1>9 DEF BufferedAreCurrent
  <1>13. DataAfterFinished'
    <2>1. \A r \in handed' : r.epoch # r_epoch'
      BY <1>1, <1>2, <1>3, <1>4 DEF PlacesApart
    <2> QED
      BY <2>1 DEF DataAfterFinished
  <1> QED
    BY <1>2, <1>3, <1>5, <1>8, <1>10, <1>11, <1>12, <1>13, InvFormPrimed

\* A new handshake begins, wherever the reading of a datagram stands.
LEMMA RenegotiateInv == ASSUME RecordIInv, Renegotiate PROVE RecordIInv'
  <1>1. /\ TypeOK /\ QueuesAreOfEpoch /\ ReadyForNextEpoch /\ PlacesApart
        /\ BufferedAreCurrent /\ DataAfterFinished
    BY InvForm
  <1>2. /\ pc = "start" /\ ~in_init /\ in_init' = TRUE
        /\ UNCHANGED <<pc, r_epoch, bitmap, next_bitmap, change_cipher_spec,
             unprocessed, unprocessed_epoch, processed, buffered_app, rrec,
             rbuf, kept, in_error, accepted, handed>>
    BY DEF Renegotiate, windows, queues, buffers
  <1>3. ExactFor(bitmap', AcceptedNow') /\ next_bitmap' = EmptyBitmap' /\ AcceptedHadKeys'
    BY <1>2, WindowUntouched
  <1>4. PlacesApart' /\ DataAfterFinished' /\ BufferedAreCurrent'
    BY <1>1, <1>2 DEF PlacesApart, DataAfterFinished, BufferedAreCurrent
  <1>5. TypeOK'
    BY <1>1, <1>2 DEF TypeOK
  <1>6. QueuesAreOfEpoch' /\ ReadyForNextEpoch'
    <2>1. QueuesAreOfEpoch'
      BY <1>1, <1>2 DEF QueuesAreOfEpoch
    <2>2. /\ PeerEpoch = r_epoch /\ PeerEpoch' \in {r_epoch, r_epoch + 1}
          /\ r_epoch \in Nat
      BY <1>1, <1>2, PeerFacts DEF PeerEpoch
    <2>3. Below(rbuf, kept, r_epoch) => Below(rbuf, kept, r_epoch + 1)
      BY <1>1, <2>2, BelowGrows DEF TypeOK, KeptT
    <2>4. ReadyForNextEpoch'
      BY <1>1, <1>2, <2>2, <2>3, ReadyForm, ReadyFormPrimed
    <2> QED
      BY <2>1, <2>4
  <1> QED
    BY <1>3, <1>4, <1>5, <1>6, InvFormPrimed

-----------------------------------------------------------------------------
(***************************************************************************)
(* The theorems.                                                           *)
(***************************************************************************)

\* Every step keeps the invariant.
LEMMA RecordStep == RecordIInv /\ [Next]_vars => RecordIInv'
  <1> SUFFICES ASSUME RecordIInv, [Next]_vars PROVE RecordIInv'
    OBVIOUS
  <1>1. CASE HandUpChangeCipherSpec
    BY <1>1, HandUpStays, ChangeCipherSpecInv DEF HandUpChangeCipherSpec, windows
  <1>2. CASE HandUpFinished
    <2>1. {in_init, change_cipher_spec} \subseteq BOOLEAN
      BY InvForm DEF TypeOK
    <2>2. /\ in_init' \in BOOLEAN
          /\ in_init' = (in_init /\ ~change_cipher_spec)
      BY <1>2, <2>1 DEF HandUpFinished
    <2> QED
      BY <1>2, <2>2, HandUpStays DEF HandUpFinished, windows
  <1>3. CASE HandUpOther
    BY <1>3, HandUpStays DEF HandUpOther, handshake
  <1>4. CASE UNCHANGED vars
    <2>1. /\ TypeOK' /\ QueuesAreOfEpoch' /\ ReadyForNextEpoch'
          /\ AcceptedHadKeys' /\ PlacesApart' /\ BufferedAreCurrent'
          /\ DataAfterFinished'
      BY <1>4, InvForm
      DEF TypeOK, QueuesAreOfEpoch, ReadyForNextEpoch, RestsUpTo, PeerEpoch, AcceptedHadKeys,
          PlacesApart, BufferedAreCurrent, DataAfterFinished, vars
    <2>2. ExactFor(bitmap', AcceptedNow') /\ next_bitmap' = EmptyBitmap'
      BY <1>4, WindowUntouched DEF vars
    <2> QED
      BY <2>1, <2>2, InvFormPrimed
  <1> QED
    BY <1>1, <1>2, <1>3, <1>4, StartInv, BeginBufferedInv, ProcessBufferedInv,
       EndBufferedInv, GetProcessedInv, ReadFromWireInv, WouldBlockInv,
       BufferAppDataInv, RenegotiateInv
    DEF Next, Read

\* The cleared record layer satisfies the invariant.
LEMMA RecordStart == Init => RecordIInv
  <1> USE RecordLayerAssumption
  <1> SUFFICES ASSUME Init PROVE RecordIInv
    OBVIOUS
  <1>1. IsFiniteSet({}) /\ Cardinality({}) <= QUEUE_LIMIT
    <2>1. IsFiniteSet({}) /\ Cardinality({}) = 0
      BY FS_EmptySet
    <2> QED
      BY <2>1
  <1>2. EmptyBitmap \in Bitmaps
    BY DEF EmptyBitmap, Bitmaps
  <1>3. TypeOK
    <2>1. \A q \in {unprocessed, processed, buffered_app} :
            IsFiniteSet(q) /\ Cardinality(q) <= QUEUE_LIMIT
      BY <1>1, Zenon DEF Init
    <2>2. {in_init, change_cipher_spec, in_error} \subseteq BOOLEAN
      BY Zenon DEF Init
    <2>3. rbuf \in Datagrams /\ kept \in [Queues -> [Sent -> Datagrams]]
      BY NoDataFacts DEF Init
    <2> QED
      BY <1>2, <2>1, <2>2, <2>3 DEF Init, TypeOK
  <1>4. QueuesAreOfEpoch /\ ReadyForNextEpoch /\ AcceptedHadKeys
    <2>1. QueuesAreOfEpoch /\ AcceptedHadKeys
      BY DEF Init, QueuesAreOfEpoch, AcceptedHadKeys
    <2>2. Below(rbuf, kept, 0) /\ Below(rbuf, kept, 1)
      BY NoDataFacts DEF Init, Below
    <2>3. PeerEpoch \in {0, 1} /\ r_epoch = 0 /\ pc = "start"
      BY DEF Init, PeerEpoch
    <2> QED
      BY <2>1, <2>2, <2>3, ReadyForm
  <1>5. AcceptedNow = {}
    BY DEF Init, AcceptedNow
  <1>6. ExactFor(bitmap, AcceptedNow) /\ next_bitmap = EmptyBitmap
    BY <1>5 DEF Init, ExactFor, EmptyBitmap
  <1>7. PlacesApart /\ BufferedAreCurrent /\ DataAfterFinished
    BY DEF Init, PlacesApart, BufferedAreCurrent, DataAfterFinished
  <1> QED
    BY <1>3, <1>4, <1>6, <1>7, InvForm

\* The inductive invariant holds of every behaviour of the record layer.
LEMMA RecordInvariant == Spec => []RecordIInv
  <1>1. Init => RecordIInv
    BY RecordStart
  <1>2. RecordIInv /\ [Next]_vars => RecordIInv'
    BY RecordStep
  <1> QED
    BY <1>1, <1>2, PTL DEF Spec

\* Types, and how queues, epochs and the reading go together: no queue
\* outgrows the limit of dtls1_buffer_record, and a CCS that changes the keys
\* finds the queues ready.
THEOREM RecordLayerInvariantHolds == Spec => []RecordLayerInvariant
  <1>1. RecordIInv => RecordLayerInvariant
    BY DEF RecordIInv
  <1> QED
    BY <1>1, RecordInvariant, PTL

\* dtls1_record_bitmap_update keeps the window exact for whatever records
\* arrive, in whatever order, at whatever distance.
THEOREM BitmapExact == Spec => []BitmapIsExact
  <1>1. RecordIInv => BitmapIsExact
    BY DEF RecordIInv
  <1> QED
    BY <1>1, RecordInvariant, PTL

\* A record is handed up at most once.
THEOREM HandedUpOnceHolds == Spec => []HandedUpOnce
  <1>1. RecordIInv => HandedUpOnce
    BY DEF RecordIInv
  <1> QED
    BY <1>1, RecordInvariant, PTL

\* The records in the loop of dtls1_process_buffered_records are of the
\* current epoch, as its comment says.
THEOREM BufferedCurrent == Spec => []BufferedAreCurrent
  <1>1. RecordIInv => BufferedAreCurrent
    BY DEF RecordIInv
  <1> QED
    BY <1>1, RecordInvariant, PTL

\* Application data of an epoch waits for the epoch's Finished.
THEOREM DataWaitsForFinished == Spec => []DataAfterFinished
  <1>1. RecordIInv => DataAfterFinished
    BY DEF RecordIInv
  <1> QED
    BY <1>1, RecordInvariant, PTL

=============================================================================
