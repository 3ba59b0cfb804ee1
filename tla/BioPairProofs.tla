--------------------------- MODULE BioPairProofs ---------------------------
(***************************************************************************)
(* Proofs about BioPair for every set of BIOs and bytes, every buffer size *)
(* and every number of bytes in a call: the invariants of struct           *)
(* bio_bio_st, and that a pair is a pipe of bytes.                         *)
(***************************************************************************)
EXTENDS BioPair, SequenceTheorems, TLAPS

(***************************************************************************)
(* One half of a pair.                                                     *)
(***************************************************************************)

\* What StructInvariant says of the ring buffer of one half.
RingOK(h) ==
    /\ h \in Half
    /\ h.len <= h.size
    /\ h.offset < h.size
    /\ h.len = 0 => h.offset = 0

\* The constants are numbers and marks as the code has them.
LEMMA Constants ==
    /\ MAX_SIZE \in Nat \ {0} /\ MAX_NUM \in Nat \ {0}
    /\ DEFAULT_SIZE \in 1..MAX_SIZE
    /\ NoPeer \notin Bios /\ NoBuf \notin [Offsets -> Bytes]
    /\ \A b \in Bios : Sizes[b] \subseteq 1..MAX_SIZE
    BY BioAssumption DEF Offsets

\* The fields of a half are numbers within the largest size.
LEMMA Fields ==
    ASSUME NEW h, RingOK(h)
    PROVE  /\ h.len \in Nat /\ h.offset \in Nat /\ h.size \in Nat /\ h.request \in Nat
           /\ h.len <= h.size /\ h.offset < h.size
           /\ h.size \in 1..MAX_SIZE /\ h.len \in 0..MAX_SIZE
           /\ h.closed \in BOOLEAN
           /\ h.buf # NoBuf => h.buf \in [Offsets -> Bytes]
    BY Constants DEF RingOK, Half

\* bio_new makes an empty ring buffer.
LEMMA FreshIsOK == RingOK(Fresh) /\ Fresh.len = 0 /\ Fresh.closed = FALSE
    BY Constants DEF RingOK, Fresh, Half

\* Wrapping a place that is less than two turns away gives a place of the
\* buffer.
LEMMA WrapInBuffer ==
    ASSUME NEW h, RingOK(h), NEW x \in Nat, x < 2 * h.size
    PROVE  /\ Wrap(h, x) \in Nat
           /\ Wrap(h, x) < h.size
           /\ Wrap(h, x) \in Offsets
           /\ Wrap(h, x) = IF x >= h.size THEN x - h.size ELSE x
    BY Fields, Constants DEF Wrap, Offsets

\* Consuming bytes keeps the ring buffer in order.
LEMMA ConsumeIsOK ==
    ASSUME NEW h, RingOK(h), NEW n \in 1..h.len
    PROVE  /\ RingOK(Consume(h, n))
           /\ Consume(h, n).len = h.len - n
           /\ Consume(h, n).offset = IF h.len = n THEN 0 ELSE Wrap(h, h.offset + n)
           /\ Consume(h, n).size = h.size /\ Consume(h, n).buf = h.buf
           /\ Consume(h, n).closed = h.closed
  <1>1. /\ h.len \in Nat /\ h.offset \in Nat /\ h.size \in Nat
        /\ h.len <= h.size /\ h.offset < h.size /\ h.size \in 1..MAX_SIZE
        /\ n \in Nat /\ n <= h.len
    BY Fields
  <1>2. /\ Wrap(h, h.offset + n) \in Nat /\ Wrap(h, h.offset + n) < h.size
    BY <1>1, WrapInBuffer
  <1> DEFINE off == IF h.len = n THEN 0 ELSE Wrap(h, h.offset + n)
  <1>3. off \in 0..MAX_SIZE /\ off < h.size /\ h.len - n \in 0..MAX_SIZE
        /\ h.len - n <= h.size /\ (h.len - n = 0 => off = 0)
    BY <1>1, <1>2, Constants
  <1>4. Consume(h, n) = [h EXCEPT !.len = h.len - n, !.offset = off]
    BY DEF Consume
  <1> HIDE DEF off
  <1>5. /\ Consume(h, n) \in Half
        /\ Consume(h, n).len = h.len - n /\ Consume(h, n).offset = off
        /\ Consume(h, n).size = h.size /\ Consume(h, n).buf = h.buf
        /\ Consume(h, n).closed = h.closed
    BY <1>3, <1>4 DEF Half, RingOK
  <1>6. RingOK(Consume(h, n))
    BY <1>3, <1>5 DEF RingOK
  <1> QED
    BY <1>5, <1>6 DEF off

\* The place that bio_write's chunks give the byte with this distance from
\* the first free one.
StoreIndex(h, x) ==
    LET start == Wrap(h, h.offset + h.len)
    IN  IF x >= start THEN x - start ELSE x - start + h.size

\* Storing bytes for which there is space keeps the ring buffer in order.
LEMMA StoreIsOK ==
    ASSUME NEW h, RingOK(h), h.buf # NoBuf, NEW n \in Nat, n > 0,
           NEW data \in [1..n -> Bytes], Len(data) = n, n <= h.size - h.len
    PROVE  /\ RingOK(Store(h, data))
           /\ Store(h, data).len = h.len + n
           /\ Store(h, data).offset = h.offset
           /\ Store(h, data).size = h.size
           /\ Store(h, data).closed = h.closed
           /\ Store(h, data).buf \in [Offsets -> Bytes]
           /\ \A x \in Offsets : Store(h, data).buf[x] =
                IF x < h.size /\ StoreIndex(h, x) < n
                  THEN data[StoreIndex(h, x) + 1] ELSE h.buf[x]
  <1>1. /\ h.len \in Nat /\ h.offset \in Nat /\ h.size \in Nat
        /\ h.len <= h.size /\ h.offset < h.size /\ h.size \in 1..MAX_SIZE
        /\ h.buf \in [Offsets -> Bytes]
    BY Fields
  <1>2. /\ Wrap(h, h.offset + h.len) \in Nat
        /\ Wrap(h, h.offset + h.len) < h.size
    BY <1>1, WrapInBuffer
  <1>3. \A x \in Offsets : x \in Nat
    BY Constants DEF Offsets
  <1>4. \A x \in Offsets : StoreIndex(h, x) \in Int /\
          (x < h.size /\ StoreIndex(h, x) < n => StoreIndex(h, x) + 1 \in 1..n)
    <2> DEFINE w == Wrap(h, h.offset + h.len)
    <2> HIDE DEF w
    <2>1. \A x \in Offsets : StoreIndex(h, x) = IF x >= w THEN x - w ELSE x - w + h.size
      BY DEF StoreIndex, w
    <2>2. w \in Nat /\ w < h.size
      BY <1>2 DEF w
    <2> QED
      BY <1>1, <1>3, <2>1, <2>2
  <1> DEFINE new == [x \in Offsets |->
                       IF x < h.size /\ StoreIndex(h, x) < n
                         THEN data[StoreIndex(h, x) + 1] ELSE h.buf[x]]
  <1>5. new \in [Offsets -> Bytes]
    BY <1>1, <1>4
  <1>6. Store(h, data) = [h EXCEPT !.len = h.len + n, !.buf = new]
    BY DEF Store, StoreIndex
  <1>7. \A x \in Offsets : new[x] =
          IF x < h.size /\ StoreIndex(h, x) < n
            THEN data[StoreIndex(h, x) + 1] ELSE h.buf[x]
    OBVIOUS
  <1> HIDE DEF new
  <1>8. h.len + n \in 0..MAX_SIZE /\ h.len + n <= h.size /\ h.len + n # 0
    BY <1>1, Constants
  <1>9. /\ Store(h, data) \in Half
        /\ Store(h, data).len = h.len + n /\ Store(h, data).offset = h.offset
        /\ Store(h, data).size = h.size /\ Store(h, data).closed = h.closed
        /\ Store(h, data).buf = new
    BY <1>5, <1>6, <1>8 DEF Half, RingOK
  <1>10. RingOK(Store(h, data))
    BY <1>1, <1>8, <1>9 DEF RingOK
  <1> QED
    BY <1>5, <1>7, <1>9, <1>10

-----------------------------------------------------------------------------
(***************************************************************************)
(* The bytes in a ring buffer.                                             *)
(***************************************************************************)

\* Stored is a sequence of bytes, one for each place from the offset on.
LEMMA StoredIsSeq ==
    ASSUME NEW h, RingOK(h), h.buf # NoBuf, NEW n \in 0..h.len
    PROVE  /\ Stored(h, n) \in Seq(Bytes)
           /\ Len(Stored(h, n)) = n
           /\ \A i \in 1..n : Stored(h, n)[i] = h.buf[Wrap(h, h.offset + i - 1)]
  <1>1. /\ h.len \in Nat /\ h.offset \in Nat /\ h.size \in Nat
        /\ h.len <= h.size /\ h.offset < h.size
        /\ h.buf \in [Offsets -> Bytes]
    BY Fields
  <1>2. \A i \in 1..n : Wrap(h, h.offset + i - 1) \in Offsets
    BY <1>1, WrapInBuffer
  <1>3. Stored(h, n) \in [1..n -> Bytes]
    BY <1>1, <1>2 DEF Stored
  <1>4. n \in Nat
    BY <1>1
  <1>5. Stored(h, n) \in Seq(Bytes) /\ Len(Stored(h, n)) = n
    BY <1>3, <1>4
  <1> QED
    BY <1>5 DEF Stored

\* An empty ring buffer holds the empty sequence, whatever its buffer.
LEMMA NothingStored == \A h : Stored(h, 0) = <<>>
    BY DEF Stored

\* The first n bytes are a prefix of all of them.
LEMMA StoredPrefix ==
    ASSUME NEW h, RingOK(h), h.buf # NoBuf, NEW n \in 1..h.len
    PROVE  Stored(h, n) = SubSeq(Stored(h, h.len), 1, n)
  <1>1. h.len \in Nat /\ n \in 0..h.len /\ h.len \in 0..h.len
    BY Fields
  <1>2. /\ Stored(h, n) \in Seq(Bytes) /\ Len(Stored(h, n)) = n
        /\ \A i \in 1..n : Stored(h, n)[i] = h.buf[Wrap(h, h.offset + i - 1)]
    BY <1>1, StoredIsSeq
  <1> DEFINE all == Stored(h, h.len)
  <1>3. /\ all \in Seq(Bytes) /\ Len(all) = h.len
        /\ \A i \in 1..h.len : all[i] = h.buf[Wrap(h, h.offset + i - 1)]
    BY <1>1, StoredIsSeq
  <1> HIDE DEF all
  <1>4. /\ SubSeq(all, 1, n) \in Seq(Bytes) /\ Len(SubSeq(all, 1, n)) = n
        /\ \A i \in 1..n : SubSeq(all, 1, n)[i] = all[i]
    BY <1>1, <1>3
  <1>5. \A i \in 1..n : Stored(h, n)[i] = SubSeq(all, 1, n)[i]
    <2>1. \A i \in 1..n : i \in 1..h.len
      BY <1>1
    <2> QED
      BY <1>2, <1>3, <1>4, <2>1, Zenon
  <1>6. Stored(h, n) = SubSeq(all, 1, n)
    BY <1>2, <1>4, <1>5, SeqEqual
  <1> QED
    BY <1>6 DEF all

\* What is left after n bytes were consumed are the bytes from n + 1 on.
LEMMA ConsumeStored ==
    ASSUME NEW h, RingOK(h), h.buf # NoBuf, NEW n \in 1..h.len
    PROVE  Stored(Consume(h, n), h.len - n) =
             SubSeq(Stored(h, h.len), n + 1, h.len)
  <1>1. /\ h.len \in Nat /\ h.offset \in Nat /\ h.size \in Nat /\ n \in Nat
        /\ h.len <= h.size /\ h.offset < h.size /\ n <= h.len /\ n >= 1
        /\ h.len \in 0..h.len
    BY Fields
  <1> DEFINE c == Consume(h, n)
             all == Stored(h, h.len)
             rest == SubSeq(all, n + 1, h.len)
  <1>2. /\ RingOK(c) /\ c.len = h.len - n /\ c.size = h.size /\ c.buf = h.buf
        /\ c.offset = IF h.len = n THEN 0 ELSE Wrap(h, h.offset + n)
    BY ConsumeIsOK
  <1>3. /\ all \in Seq(Bytes) /\ Len(all) = h.len
        /\ \A i \in 1..h.len : all[i] = h.buf[Wrap(h, h.offset + i - 1)]
    BY <1>1, StoredIsSeq
  <1> HIDE DEF c, all
  <1>4. /\ Stored(c, h.len - n) \in Seq(Bytes)
        /\ Len(Stored(c, h.len - n)) = h.len - n
        /\ \A i \in 1..(h.len - n) :
             Stored(c, h.len - n)[i] = c.buf[Wrap(c, c.offset + i - 1)]
    <2>1. c.buf # NoBuf /\ h.len - n \in 0..c.len
      BY <1>1, <1>2
    <2> QED
      BY <1>2, <2>1, StoredIsSeq
  <1>5. /\ rest \in Seq(Bytes) /\ Len(rest) = h.len - n
        /\ \A i \in 1..(h.len - n) : rest[i] = all[n + i]
    <2>1. rest \in Seq(Bytes)
      BY <1>1, <1>3
    <2>2. Len(rest) = h.len - n
      BY <1>1, <1>3
    <2>3. \A i \in 1..(h.len - n) : rest[i] = all[n + i]
      BY <1>1, <1>3
    <2> QED
      BY <2>1, <2>2, <2>3
  <1>6. ASSUME NEW i \in 1..(h.len - n)
        PROVE  Wrap(c, c.offset + i - 1) = Wrap(h, h.offset + (n + i) - 1)
    <2>1. i \in Nat /\ h.len # n /\ i >= 1 /\ n + i <= h.len
      BY <1>1
    <2>2. c.offset = Wrap(h, h.offset + n)
      BY <1>2, <2>1
    <2> QED
      BY <1>1, <1>2, <2>1, <2>2 DEF Wrap
  <1>7. \A i \in 1..(h.len - n) : Stored(c, h.len - n)[i] = rest[i]
    <2> TAKE i \in 1..(h.len - n)
    <2>1. n + i \in 1..h.len
      BY <1>1
    <2>2. all[n + i] = h.buf[Wrap(h, h.offset + (n + i) - 1)]
      BY <1>3, <2>1
    <2> QED
      BY <1>2, <1>4, <1>5, <1>6, <2>2
  <1> HIDE DEF rest
  <1>8. Stored(c, h.len - n) = rest
    BY <1>4, <1>5, <1>7, SeqEqual
  <1> QED
    BY <1>8 DEF c, all, rest

\* The place where the byte at distance i from the first one lies: bio_write
\* leaves the places of the bytes that wait alone, and puts the new bytes
\* one after the other behind them.
LEMMA StorePlaces ==
    ASSUME NEW h, RingOK(h), NEW n \in Nat, n > 0, n <= h.size - h.len
    PROVE  /\ \A i \in 1..h.len :
                LET x == Wrap(h, h.offset + i - 1)
                IN  x \in Offsets /\ x < h.size /\ ~(StoreIndex(h, x) < n)
           /\ \A i \in 1..n :
                LET x == Wrap(h, h.offset + (h.len + i) - 1)
                IN  x \in Offsets /\ x < h.size /\ StoreIndex(h, x) = i - 1
  <1>1. /\ h.len \in Nat /\ h.offset \in Nat /\ h.size \in Nat
        /\ h.len <= h.size /\ h.offset < h.size
    BY Fields
  <1> DEFINE start == Wrap(h, h.offset + h.len)
  <1>2. start = IF h.offset + h.len >= h.size
                  THEN h.offset + h.len - h.size ELSE h.offset + h.len
    BY <1>1 DEF Wrap
  <1>3. \A x : StoreIndex(h, x) = IF x >= start THEN x - start
                                               ELSE x - start + h.size
    BY DEF StoreIndex
  <1> HIDE DEF start
  <1>4. ASSUME NEW i \in 1..h.len
        PROVE  LET x == Wrap(h, h.offset + i - 1)
               IN  x \in Offsets /\ x < h.size /\ ~(StoreIndex(h, x) < n)
    <2> DEFINE x == Wrap(h, h.offset + i - 1)
    <2>1. /\ x \in Nat /\ x < h.size /\ x \in Offsets
          /\ x = IF h.offset + i - 1 >= h.size
                   THEN h.offset + i - 1 - h.size ELSE h.offset + i - 1
      BY <1>1, WrapInBuffer
    <2> HIDE DEF x
    <2>2. ~(StoreIndex(h, x) < n)
      BY <1>1, <1>2, <1>3, <2>1
    <2> QED
      BY <2>1, <2>2 DEF x
  <1>5. ASSUME NEW i \in 1..n
        PROVE  LET x == Wrap(h, h.offset + (h.len + i) - 1)
               IN  x \in Offsets /\ x < h.size /\ StoreIndex(h, x) = i - 1
    <2> DEFINE x == Wrap(h, h.offset + (h.len + i) - 1)
    <2>1. /\ x \in Nat /\ x < h.size /\ x \in Offsets
          /\ x = IF h.offset + (h.len + i) - 1 >= h.size
                   THEN h.offset + (h.len + i) - 1 - h.size
                   ELSE h.offset + (h.len + i) - 1
      BY <1>1, WrapInBuffer
    <2> HIDE DEF x
    <2>2. StoreIndex(h, x) = i - 1
      BY <1>1, <1>2, <1>3, <2>1
    <2> QED
      BY <2>1, <2>2 DEF x
  <1> QED
    BY <1>4, <1>5

\* What bio_write stores follows what was there.
LEMMA StoreStored ==
    ASSUME NEW h, RingOK(h), h.buf # NoBuf, NEW n \in Nat, n > 0,
           NEW data \in Seq(Bytes), Len(data) = n, n <= h.size - h.len
    PROVE  Stored(Store(h, data), h.len + n) = Stored(h, h.len) \o data
  <1>1. /\ h.len \in Nat /\ h.offset \in Nat /\ h.size \in Nat
        /\ h.len <= h.size /\ h.offset < h.size /\ h.len \in 0..h.len
        /\ data \in [1..n -> Bytes]
    BY Fields
  <1> DEFINE s == Store(h, data)
             all == Stored(h, h.len)
             new == Stored(s, h.len + n)
  <1>2. /\ RingOK(s) /\ s.len = h.len + n /\ s.offset = h.offset
        /\ s.size = h.size /\ s.buf \in [Offsets -> Bytes]
        /\ \A x \in Offsets : s.buf[x] =
             IF x < h.size /\ StoreIndex(h, x) < n
               THEN data[StoreIndex(h, x) + 1] ELSE h.buf[x]
    BY <1>1, StoreIsOK
  <1>3. /\ all \in Seq(Bytes) /\ Len(all) = h.len
        /\ \A i \in 1..h.len : all[i] = h.buf[Wrap(h, h.offset + i - 1)]
    BY <1>1, StoredIsSeq
  <1>4. s.buf # NoBuf /\ h.len + n \in 0..s.len
    BY <1>1, <1>2, Constants
  <1> HIDE DEF s, all
  <1>5. /\ new \in Seq(Bytes) /\ Len(new) = h.len + n
        /\ \A i \in 1..(h.len + n) : new[i] = s.buf[Wrap(s, s.offset + i - 1)]
    BY <1>2, <1>4, StoredIsSeq
  <1>6. \A x : Wrap(s, x) = Wrap(h, x)
    BY <1>2 DEF Wrap
  <1>7. \A i \in 1..h.len : new[i] = all[i]
    <2> TAKE i \in 1..h.len
    <2> DEFINE x == Wrap(h, h.offset + i - 1)
    <2>1. x \in Offsets /\ x < h.size /\ ~(StoreIndex(h, x) < n)
      BY StorePlaces
    <2>2. i \in 1..(h.len + n)
      BY <1>1
    <2>3. new[i] = s.buf[x] /\ all[i] = h.buf[x]
      BY <1>2, <1>3, <1>5, <1>6, <2>2
    <2> HIDE DEF x, new
    <2> QED
      BY <1>2, <2>1, <2>3
  <1>8. \A i \in 1..n : new[h.len + i] = data[i]
    <2> TAKE i \in 1..n
    <2> DEFINE x == Wrap(h, h.offset + (h.len + i) - 1)
    <2>1. x \in Offsets /\ x < h.size /\ StoreIndex(h, x) = i - 1
      BY StorePlaces
    <2>2. h.len + i \in 1..(h.len + n) /\ i - 1 < n /\ i - 1 + 1 = i
      BY <1>1
    <2>3. new[h.len + i] = s.buf[x]
      BY <1>2, <1>5, <1>6, <2>2
    <2> HIDE DEF x, new
    <2> QED
      BY <1>2, <2>1, <2>2, <2>3
  <1> HIDE DEF new
  <1>9. /\ all \o data \in Seq(Bytes)
        /\ Len(all \o data) = h.len + n
        /\ \A i \in 1..(h.len + n) : (all \o data)[i] =
             IF i <= h.len THEN all[i] ELSE data[i - h.len]
    <2>1. /\ all \o data \in Seq(Bytes)
          /\ Len(all \o data) = Len(all) + Len(data)
          /\ \A i \in 1..(Len(all) + Len(data)) : (all \o data)[i] =
               IF i <= Len(all) THEN all[i] ELSE data[i - Len(all)]
      BY <1>3, ConcatProperties, Zenon
    <2> QED
      BY <1>3, <2>1, Zenon
  <1>10. \A i \in 1..(h.len + n) : new[i] = (all \o data)[i]
    <2> TAKE i \in 1..(h.len + n)
    <2>1. CASE i <= h.len
      BY <1>1, <1>7, <1>9, <2>1
    <2>2. CASE ~(i <= h.len)
      <3>1. i - h.len \in 1..n /\ h.len + (i - h.len) = i
        BY <1>1, <2>2
      <3> QED
        BY <1>8, <1>9, <2>2, <3>1
    <2> QED
      BY <2>1, <2>2
  <1>11. new = all \o data
    BY <1>5, <1>9, <1>10, SeqEqual
  <1> QED
    BY <1>11 DEF s, all, new

-----------------------------------------------------------------------------
(***************************************************************************)
(* A pair as the abstract specification sees it, and how the calls change  *)
(* one half of it.                                                         *)
(***************************************************************************)

\* The streams and the ends that will write no more.
streamBar == [b \in Bios |-> Stored(half[b], half[b].len)]

shutBar == {b \in Bios : half[b].closed}

\* What StructInvariant says of one BIO, p being its peer.
HalfOK(p, h) ==
    /\ RingOK(h)
    /\ p # NoPeer => h.buf # NoBuf
    /\ p = NoPeer => h.len = 0
    /\ p # NoPeer /\ h.request # 0 => h.len = 0 /\ h.request <= h.size

\* StructInvariant, BIO by BIO.
LEMMA StructByHalf ==
    StructInvariant <=>
      /\ peer \in [Bios -> Bios \cup {NoPeer}]
      /\ half \in [Bios -> Half]
      /\ \A b \in Bios : HalfOK(peer[b], half[b])
      /\ \A b \in Bios : peer[b] # NoPeer => peer[peer[b]] = b
  <1>1. half \in [Bios -> Half] => \A b \in Bios : half[b] \in Half
    OBVIOUS
  <1> QED
    BY <1>1 DEF StructInvariant, TypeOK, HalfOK, RingOK

\* The same, in the next state.
LEMMA StructByHalfNext ==
    StructInvariant' <=>
      /\ peer' \in [Bios -> Bios \cup {NoPeer}]
      /\ half' \in [Bios -> Half]
      /\ \A b \in Bios : HalfOK(peer'[b], half'[b])
      /\ \A b \in Bios : peer'[b] # NoPeer => peer'[peer'[b]] = b
  <1>1. half' \in [Bios -> Half] => \A b \in Bios : half'[b] \in Half
    OBVIOUS
  <1> QED
    BY <1>1 DEF StructInvariant, TypeOK, HalfOK, RingOK

\* A BIO's peer is a BIO, whose peer it is.
LEMMA PeerOfPeer ==
    ASSUME StructInvariant, NEW b \in Bios, peer[b] # NoPeer
    PROVE  /\ peer[b] \in Bios /\ peer[peer[b]] = b
           /\ peer[peer[b]] # NoPeer
           /\ HalfOK(peer[peer[b]], half[peer[b]])
  <1>1. peer[b] \in Bios /\ peer[peer[b]] = b
    BY StructByHalf
  <1> QED
    BY <1>1, StructByHalf, Constants

\* The bytes depend on the ring buffer alone.
LEMMA SameBytes ==
    ASSUME NEW g, NEW h, g.offset = h.offset, g.size = h.size, g.buf = h.buf,
           NEW n
    PROVE  Stored(g, n) = Stored(h, n)
    BY DEF Stored, Wrap

\* A read request leaves the ring buffer alone.
LEMMA RequestIsOK ==
    ASSUME NEW h, RingOK(h), NEW v \in Nat
    PROVE  LET r == [h EXCEPT !.request = v]
           IN  /\ RingOK(r) /\ r.request = v
               /\ r.len = h.len /\ r.size = h.size /\ r.buf = h.buf
               /\ r.closed = h.closed /\ r.offset = h.offset
               /\ \A n : Stored(r, n) = Stored(h, n)
  <1> DEFINE r == [h EXCEPT !.request = v]
  <1>1. /\ RingOK(r) /\ r.request = v
        /\ r.len = h.len /\ r.size = h.size /\ r.buf = h.buf
        /\ r.closed = h.closed /\ r.offset = h.offset
    <2>1. h \in Half
      BY DEF RingOK
    <2>2. /\ r \in Half /\ r.request = v
          /\ r.len = h.len /\ r.size = h.size /\ r.buf = h.buf
          /\ r.closed = h.closed /\ r.offset = h.offset
      BY <2>1 DEF Half
    <2> HIDE DEF r
    <2> QED
      BY <2>2 DEF RingOK
  <1> HIDE DEF r
  <1>2. \A n : Stored(r, n) = Stored(h, n)
    BY <1>1, SameBytes
  <1> QED
    BY <1>1, <1>2 DEF r

\* A call that leaves one half in order and touches no other keeps
\* StructInvariant, and changes one stream.
LEMMA OneHalf ==
    ASSUME StructInvariant, NEW b \in Bios, NEW h, HalfOK(peer[b], h),
           half' = [half EXCEPT ![b] = h], peer' = peer
    PROVE  /\ StructInvariant'
           /\ streamBar' = [streamBar EXCEPT ![b] = Stored(h, h.len)]
           /\ shutBar' = IF h.closed THEN shutBar \cup {b} ELSE shutBar \ {b}
  <1>1. h \in Half
    BY DEF HalfOK, RingOK
  <1>2. /\ half \in [Bios -> Half] /\ half' \in [Bios -> Half]
        /\ half'[b] = h
        /\ \A c \in Bios : c # b => half'[c] = half[c]
    BY <1>1, StructByHalf
  <1>3. StructInvariant'
    <2>1. \A c \in Bios : HalfOK(peer'[c], half'[c])
      BY <1>2, StructByHalf
    <2> QED
      BY <1>2, <2>1, StructByHalf, StructByHalfNext
  <1>4. streamBar' = [streamBar EXCEPT ![b] = Stored(h, h.len)]
    BY <1>2 DEF streamBar
  <1>5. shutBar' = IF h.closed THEN shutBar \cup {b} ELSE shutBar \ {b}
    BY <1>2 DEF shutBar
  <1> QED
    BY <1>3, <1>4, <1>5

-----------------------------------------------------------------------------
(***************************************************************************)
(* The steps of the pipe.                                                  *)
(***************************************************************************)

\* A step that changes nothing the pipe shows.
LEMMA PipeStutter ==
    ASSUME peer' = peer, streamBar' = streamBar, shutBar' = shutBar, last' = last
    PROVE  [Pipe!Next]_(Pipe!vars)
    BY DEF Pipe!vars, streamBar, shutBar

\* Bytes are put into an end that will write more.
LEMMA PipePut ==
    ASSUME NEW b \in Bios, NEW n \in 1..MAX_NUM, NEW data \in [1..n -> Bytes],
           peer[b] # NoPeer, b \notin shutBar,
           streamBar' = [streamBar EXCEPT ![b] = @ \o data],
           last' = <<"put", b, data>>, peer' = peer, shutBar' = shutBar
    PROVE  [Pipe!Next]_(Pipe!vars)
  <1>1. Pipe!Put(b, data)
    BY DEF Pipe!Put, streamBar, shutBar
  <1> QED
    BY <1>1 DEF Pipe!Next

\* Some of the bytes that wait are taken, from the first on.
LEMMA PipeGet ==
    ASSUME NEW b \in Bios, peer[b] # NoPeer,
           NEW s, s = streamBar[peer[b]], NEW n \in 1..Len(s),
           streamBar' = [streamBar EXCEPT ![peer[b]] = SubSeq(s, n + 1, Len(s))],
           last' = <<"get", b, SubSeq(s, 1, n)>>, peer' = peer, shutBar' = shutBar
    PROVE  [Pipe!Next]_(Pipe!vars)
  <1>1. Pipe!Get(b)
    BY DEF Pipe!Get, streamBar, shutBar
  <1> QED
    BY <1>1 DEF Pipe!Next

\* There is nothing to take: the end of the stream, or not yet.
LEMMA PipeGetNothing ==
    ASSUME NEW b \in Bios, peer[b] # NoPeer, streamBar[peer[b]] = <<>>,
           last' = <<IF peer[b] \in shutBar THEN "eof" ELSE "retry", b, <<>>>>,
           peer' = peer, streamBar' = streamBar, shutBar' = shutBar
    PROVE  [Pipe!Next]_(Pipe!vars)
  <1>1. Pipe!GetNothing(b)
    BY DEF Pipe!GetNothing, streamBar, shutBar
  <1> QED
    BY <1>1 DEF Pipe!Next

\* Two ends become mates.
LEMMA PipeJoin ==
    ASSUME NEW b \in Bios, NEW c \in Bios, b # c,
           peer[b] = NoPeer, peer[c] = NoPeer,
           peer' = [peer EXCEPT ![b] = c, ![c] = b],
           shutBar' = shutBar \ {b, c}, streamBar' = streamBar, last' = last
    PROVE  [Pipe!Next]_(Pipe!vars)
  <1>1. Pipe!Join(b, c)
    BY DEF Pipe!Join, streamBar, shutBar
  <1> QED
    BY <1>1 DEF Pipe!Next

\* Mates are parted; one of them may start over.
LEMMA PipePart ==
    ASSUME NEW b \in Bios, peer[b] # NoPeer,
           peer' = [peer EXCEPT ![b] = NoPeer, ![peer[b]] = NoPeer],
           streamBar' = [streamBar EXCEPT ![b] = <<>>, ![peer[b]] = <<>>],
           shutBar' \in {shutBar, shutBar \ {b}}, last' = last
    PROVE  [Pipe!Next]_(Pipe!vars)
  <1>1. Pipe!Part(b)
    BY DEF Pipe!Part, streamBar, shutBar
  <1> QED
    BY <1>1 DEF Pipe!Next

\* A writer takes back what was not read.
LEMMA PipeDiscard ==
    ASSUME NEW b \in Bios, streamBar' = [streamBar EXCEPT ![b] = <<>>],
           peer' = peer, shutBar' = shutBar, last' = last
    PROVE  [Pipe!Next]_(Pipe!vars)
  <1>1. Pipe!Discard(b)
    BY DEF Pipe!Discard, streamBar, shutBar
  <1> QED
    BY <1>1 DEF Pipe!Next

\* An end will write no more.
LEMMA PipeShut ==
    ASSUME NEW b \in Bios, shutBar' = shutBar \cup {b},
           peer' = peer, streamBar' = streamBar, last' = last
    PROVE  [Pipe!Next]_(Pipe!vars)
  <1>1. Pipe!Shut(b)
    BY DEF Pipe!Shut, streamBar, shutBar
  <1> QED
    BY <1>1 DEF Pipe!Next

\* An end without a mate starts over.
LEMMA PipeReopen ==
    ASSUME NEW b \in Bios, peer[b] = NoPeer, shutBar' = shutBar \ {b},
           peer' = peer, streamBar' = streamBar, last' = last
    PROVE  [Pipe!Next]_(Pipe!vars)
  <1>1. Pipe!Reopen(b)
    BY DEF Pipe!Reopen, streamBar, shutBar
  <1> QED
    BY <1>1 DEF Pipe!Next

-----------------------------------------------------------------------------
(***************************************************************************)
(* The calls: each keeps StructInvariant, and is a step of the pipe.       *)
(***************************************************************************)

\* The streams and the ends that are shut, BIO by BIO.
LEMMA BarFields ==
    /\ streamBar = [b \in Bios |-> streamBar[b]]
    /\ \A b \in Bios : streamBar[b] = Stored(half[b], half[b].len)
    /\ \A b \in Bios : b \in shutBar <=> half[b].closed
    BY DEF streamBar, shutBar

\* A change of one half that the pipe does not show.
LEMMA QuietHalf ==
    ASSUME StructInvariant, NEW b \in Bios, NEW h, HalfOK(peer[b], h),
           half' = [half EXCEPT ![b] = h], peer' = peer,
           h.closed = half[b].closed
    PROVE  /\ StructInvariant' /\ shutBar' = shutBar
           /\ Stored(h, h.len) = Stored(half[b], half[b].len) =>
                streamBar' = streamBar
  <1>1. /\ StructInvariant'
        /\ streamBar' = [streamBar EXCEPT ![b] = Stored(h, h.len)]
        /\ shutBar' = IF h.closed THEN shutBar \cup {b} ELSE shutBar \ {b}
    BY OneHalf
  <1>2. shutBar' = shutBar
    BY <1>1, BarFields
  <1>3. ASSUME Stored(h, h.len) = Stored(half[b], half[b].len)
        PROVE  streamBar' = streamBar
    <2>1. streamBar[b] = Stored(h, h.len)
      BY <1>3, BarFields
    <2>2. streamBar' = [streamBar EXCEPT ![b] = streamBar[b]]
      BY <1>1, <2>1
    <2> QED
      BY <2>2, BarFields
  <1> QED
    BY <1>1, <1>2, <1>3

\* A change of a read request, to a value the writer can rely on.
LEMMA RequestStep ==
    ASSUME StructInvariant, NEW c \in Bios, NEW v \in Nat,
           v # 0 => half[c].len = 0 /\ v <= half[c].size,
           half' = [half EXCEPT ![c].request = v], peer' = peer
    PROVE  StructInvariant' /\ streamBar' = streamBar /\ shutBar' = shutBar
  <1> DEFINE h == half[c]
             r == [h EXCEPT !.request = v]
  <1>1. HalfOK(peer[c], h)
    BY StructByHalf
  <1>2. /\ RingOK(r) /\ r.request = v
        /\ r.len = h.len /\ r.size = h.size /\ r.buf = h.buf
        /\ r.closed = h.closed
        /\ \A n : Stored(r, n) = Stored(h, n)
    BY <1>1, RequestIsOK DEF HalfOK
  <1>3. half' = [half EXCEPT ![c] = r]
    OBVIOUS
  <1> HIDE DEF r
  <1>4. HalfOK(peer[c], r)
    BY <1>1, <1>2 DEF HalfOK
  <1>5. Stored(r, r.len) = Stored(h, h.len)
    BY <1>2
  <1> QED
    BY <1>2, <1>3, <1>4, <1>5, QuietHalf

\* bio_read and bio_nread find nothing.
LEMMA ReadNothingStep ==
    ASSUME StructInvariant, NEW b \in Bios, NEW num \in Nat \ {0},
           peer[b] # NoPeer, ReadNothing(b, num)
    PROVE  StructInvariant' /\ [Pipe!Next]_(Pipe!vars)
  <1> DEFINE p == peer[b]
             v == IF half[p].closed THEN 0 ELSE Smaller(num, half[p].size)
  <1>1. p \in Bios /\ HalfOK(peer[p], half[p])
    BY PeerOfPeer
  <1>2. /\ half[p].len = 0 /\ peer' = peer
        /\ half' = [half EXCEPT ![p].request = v]
        /\ last' = <<IF half[p].closed THEN "eof" ELSE "retry", b, <<>>>>
    BY DEF ReadNothing
  <1>3. v \in Nat /\ v <= half[p].size
    <2>1. half[p].size \in Nat
      BY <1>1, Fields DEF HalfOK
    <2> QED
      BY <2>1 DEF Smaller
  <1> HIDE DEF v
  <1>4. StructInvariant' /\ streamBar' = streamBar /\ shutBar' = shutBar
    BY <1>1, <1>2, <1>3, RequestStep
  <1>5. streamBar[p] = <<>>
    BY <1>1, <1>2, BarFields, NothingStored
  <1>6. p \in shutBar <=> half[p].closed
    BY <1>1, BarFields
  <1>7. last' = <<IF p \in shutBar THEN "eof" ELSE "retry", b, <<>>>>
    BY <1>2, <1>6
  <1> QED
    BY <1>2, <1>4, <1>5, <1>7, PipeGetNothing

\* bio_read and bio_nread take some bytes.
LEMMA ReadBytesStep ==
    ASSUME StructInvariant, NEW b \in Bios, peer[b] # NoPeer,
           NEW n \in 1..half[peer[b]].len, ReadBytes(b, n)
    PROVE  StructInvariant' /\ [Pipe!Next]_(Pipe!vars)
  <1> DEFINE p == peer[b]
             h == half[p]
             c == Consume(h, n)
             r == [c EXCEPT !.request = 0]
  <1>1. p \in Bios /\ HalfOK(peer[p], h) /\ peer[p] # NoPeer
    BY PeerOfPeer
  <1>2. RingOK(h) /\ h.buf # NoBuf /\ h.len \in Nat
    BY <1>1, Fields DEF HalfOK
  <1>3. /\ RingOK(c) /\ c.len = h.len - n
        /\ c.size = h.size /\ c.buf = h.buf /\ c.closed = h.closed
    BY <1>2, ConsumeIsOK
  <1>4. /\ half' = [half EXCEPT ![p] = r] /\ peer' = peer
        /\ last' = <<"get", b, Stored(h, n)>>
    BY DEF ReadBytes
  <1>5. Stored(c, h.len - n) = SubSeq(Stored(h, h.len), n + 1, h.len)
    BY <1>2, ConsumeStored
  <1>6. Stored(h, n) = SubSeq(Stored(h, h.len), 1, n)
    BY <1>2, StoredPrefix
  <1> HIDE DEF c
  <1>7. /\ RingOK(r) /\ r.request = 0 /\ r.len = h.len - n /\ r.buf = h.buf
        /\ r.closed = h.closed /\ \A m : Stored(r, m) = Stored(c, m)
    BY <1>3, RequestIsOK
  <1> HIDE DEF r
  <1>8. HalfOK(peer[p], r)
    BY <1>1, <1>2, <1>7 DEF HalfOK
  <1>9. StructInvariant' /\ shutBar' = shutBar
    BY <1>1, <1>4, <1>7, <1>8, QuietHalf
  <1>10. streamBar' = [streamBar EXCEPT ![p] = Stored(r, r.len)]
    BY <1>1, <1>4, <1>8, OneHalf
  <1>11. streamBar[p] = Stored(h, h.len) /\ Len(Stored(h, h.len)) = h.len
    <2>1. h.len \in 0..h.len
      BY <1>2
    <2> QED
      BY <1>1, <1>2, <2>1, BarFields, StoredIsSeq
  <1>12. [Pipe!Next]_(Pipe!vars)
    <2> DEFINE s == Stored(h, h.len)
    <2>1. streamBar[p] = s /\ Len(s) = h.len
      BY <1>11
    <2>2. streamBar' = [streamBar EXCEPT ![p] = SubSeq(s, n + 1, Len(s))]
      BY <1>5, <1>7, <1>10, <2>1
    <2>3. last' = <<"get", b, SubSeq(s, 1, n)>>
      BY <1>4, <1>6
    <2> HIDE DEF s
    <2> QED
      BY <1>4, <1>9, <2>1, <2>2, <2>3, PipeGet
  <1> QED
    BY <1>9, <1>12

\* bio_nwrite0 offers something whenever there is space, and never more.
LEMMA NwriteSpaceFits ==
    ASSUME NEW h, RingOK(h), h.len < h.size
    PROVE  NwriteSpace(h) \in 1..(h.size - h.len)
  <1>1. /\ h.len \in Nat /\ h.offset \in Nat /\ h.size \in Nat
        /\ h.offset < h.size
    BY Fields
  <1>2. /\ Wrap(h, h.offset + h.len) \in Nat
        /\ Wrap(h, h.offset + h.len) < h.size
    BY <1>1, WrapInBuffer
  <1> QED
    BY <1>1, <1>2 DEF NwriteSpace, Smaller

\* bio_write and bio_nwrite store bytes for which there is space.
LEMMA WriteBytesStep ==
    ASSUME StructInvariant, NEW b \in Bios, peer[b] # NoPeer, ~half[b].closed,
           NEW n \in 1..MAX_NUM, NEW data \in [1..n -> Bytes],
           n <= half[b].size - half[b].len, WriteBytes(b, data), peer' = peer
    PROVE  StructInvariant' /\ [Pipe!Next]_(Pipe!vars)
  <1> DEFINE h == half[b]
             c == Store(h, data)
             r == [c EXCEPT !.request = 0]
  <1>1. HalfOK(peer[b], h)
    BY StructByHalf
  <1>2. RingOK(h) /\ h.buf # NoBuf /\ h.len \in Nat
    BY <1>1, Fields DEF HalfOK
  <1>3. n \in Nat /\ n > 0 /\ data \in Seq(Bytes) /\ Len(data) = n
    BY Constants
  <1>4. /\ RingOK(c) /\ c.len = h.len + n /\ c.size = h.size
        /\ c.closed = h.closed /\ c.buf \in [Offsets -> Bytes]
    BY <1>2, <1>3, StoreIsOK
  <1>5. Stored(c, h.len + n) = Stored(h, h.len) \o data
    BY <1>2, <1>3, StoreStored
  <1>6. half' = [half EXCEPT ![b] = r] /\ last' = <<"put", b, data>>
    BY DEF WriteBytes
  <1> HIDE DEF c
  <1>7. /\ RingOK(r) /\ r.request = 0 /\ r.len = c.len /\ r.buf = c.buf
        /\ r.closed = h.closed /\ \A m : Stored(r, m) = Stored(c, m)
    <2>1. RingOK(c) /\ 0 \in Nat
      BY <1>4
    <2>2. /\ RingOK(r) /\ r.request = 0 /\ r.len = c.len /\ r.buf = c.buf
          /\ r.closed = c.closed /\ \A m : Stored(r, m) = Stored(c, m)
      BY ONLY <2>1, RequestIsOK
    <2> QED
      BY <1>4, <2>2
  <1> HIDE DEF r
  <1>8. HalfOK(peer[b], r)
    BY <1>4, <1>7, Constants DEF HalfOK
  <1>9. StructInvariant' /\ shutBar' = shutBar
    BY <1>6, <1>7, <1>8, QuietHalf
  <1>10. streamBar' = [streamBar EXCEPT ![b] = Stored(r, r.len)]
    BY <1>6, <1>8, OneHalf
  <1>11. streamBar[b] = Stored(h, h.len) /\ b \notin shutBar
    BY BarFields
  <1>12. streamBar' = [streamBar EXCEPT ![b] = @ \o data]
    BY <1>4, <1>5, <1>7, <1>10, <1>11
  <1> QED
    BY <1>6, <1>9, <1>11, <1>12, PipePut

\* bio_write and bio_nwrite: refused, or as many bytes as there is space for.
LEMMA WriteUpToStep ==
    ASSUME StructInvariant, NEW b \in Bios,
           NEW m \in 1..MAX_NUM, NEW data \in [1..m -> Bytes],
           NEW space,
           half[b].len < half[b].size => space \in 1..(half[b].size - half[b].len),
           WriteUpTo(b, data, space)
    PROVE  StructInvariant' /\ [Pipe!Next]_(Pipe!vars)
  <1>1. peer[b] # NoPeer /\ peer' = peer
    BY DEF WriteUpTo
  <1>2. HalfOK(peer[b], half[b]) /\ half[b].len \in Nat /\ half[b].size \in Nat
    <2>1. HalfOK(peer[b], half[b])
      BY StructByHalf
    <2> QED
      BY <2>1, Fields DEF HalfOK
  <1>3. CASE WriteRefused(b)
    <2>1. half' = [half EXCEPT ![b].request = 0] /\ last' = last
      BY <1>3 DEF WriteRefused
    <2>2. StructInvariant' /\ streamBar' = streamBar /\ shutBar' = shutBar
      BY <1>1, <2>1, RequestStep
    <2> QED
      BY <1>1, <2>1, <2>2, PipeStutter
  <1>4. CASE /\ ~half[b].closed
             /\ half[b].len < half[b].size
             /\ WriteBytes(b, SubSeq(data, 1, Smaller(Len(data), space)))
    <2> DEFINE k == Smaller(Len(data), space)
    <2>1. data \in Seq(Bytes) /\ Len(data) = m /\ m \in Nat /\ m <= MAX_NUM /\ m >= 1
          /\ MAX_NUM \in Nat
      BY Constants
    <2>2. space \in Nat /\ space >= 1 /\ space <= half[b].size - half[b].len
      BY <1>2, <1>4
    <2>3. k \in 1..MAX_NUM /\ k <= half[b].size - half[b].len /\ k <= m
      BY <1>2, <2>1, <2>2 DEF Smaller
    <2> HIDE DEF k
    <2>4. SubSeq(data, 1, k) \in [1..k -> Bytes]
      <3>1. k \in Nat /\ k >= 1 /\ k <= Len(data)
        BY <2>1, <2>3
      <3>2. SubSeq(data, 1, k) \in Seq(Bytes) /\ Len(SubSeq(data, 1, k)) = k
        BY <2>1, <3>1
      <3>3. SubSeq(data, 1, k) \in [1..Len(SubSeq(data, 1, k)) -> Bytes]
        BY <3>2, LenProperties
      <3> QED
        BY <3>2, <3>3
    <2>5. WriteBytes(b, SubSeq(data, 1, k))
      BY <1>4 DEF k
    <2> QED
      BY <1>1, <1>4, <2>3, <2>4, <2>5, WriteBytesStep
  <1> QED
    BY <1>3, <1>4 DEF WriteUpTo

\* bio_write.
LEMMA WriteStep ==
    ASSUME StructInvariant, NEW b \in Bios,
           NEW m \in 1..MAX_NUM, NEW data \in [1..m -> Bytes], Write(b, data)
    PROVE  StructInvariant' /\ [Pipe!Next]_(Pipe!vars)
  <1>1. HalfOK(peer[b], half[b])
    BY StructByHalf
  <1>2. half[b].len \in Nat /\ half[b].size \in Nat
    BY <1>1, Fields DEF HalfOK
  <1>3. half[b].len < half[b].size =>
          half[b].size - half[b].len \in 1..(half[b].size - half[b].len)
    BY <1>2
  <1> QED
    BY <1>3, WriteUpToStep DEF Write

\* bio_nwrite.
LEMMA NwriteStep ==
    ASSUME StructInvariant, NEW b \in Bios,
           NEW m \in 1..MAX_NUM, NEW data \in [1..m -> Bytes], Nwrite(b, data)
    PROVE  StructInvariant' /\ [Pipe!Next]_(Pipe!vars)
  <1>1. RingOK(half[b])
    BY StructByHalf DEF HalfOK
  <1>2. half[b].len < half[b].size =>
          NwriteSpace(half[b]) \in 1..(half[b].size - half[b].len)
    BY <1>1, NwriteSpaceFits
  <1> QED
    BY <1>2, WriteUpToStep DEF Nwrite

\* bio_read takes at most what waits.
LEMMA ReadStep ==
    ASSUME StructInvariant, NEW b \in Bios, NEW num \in 1..MAX_NUM, Read(b, num)
    PROVE  StructInvariant' /\ [Pipe!Next]_(Pipe!vars)
  <1>1. peer[b] # NoPeer /\ num \in Nat \ {0} /\ num >= 1
    BY Constants DEF Read
  <1>2. CASE ReadNothing(b, num)
    BY <1>1, <1>2, ReadNothingStep
  <1>3. CASE ReadBytes(b, Smaller(num, half[peer[b]].len))
    <2>1. RingOK(half[peer[b]])
      BY <1>1, PeerOfPeer DEF HalfOK
    <2>2. half[peer[b]].len \in Nat /\ half[peer[b]].len > 0
      BY <1>3, <2>1, Fields DEF ReadBytes
    <2>3. Smaller(num, half[peer[b]].len) \in 1..half[peer[b]].len
      BY <1>1, <2>2 DEF Smaller
    <2> QED
      BY <1>1, <1>3, <2>3, ReadBytesStep
  <1> QED
    BY <1>2, <1>3 DEF Read

\* bio_nread takes at most what waits in one piece, which is something.
LEMMA NreadStep ==
    ASSUME StructInvariant, NEW b \in Bios, NEW num \in 1..MAX_NUM, Nread(b, num)
    PROVE  StructInvariant' /\ [Pipe!Next]_(Pipe!vars)
  <1>1. peer[b] # NoPeer /\ num \in Nat \ {0} /\ num >= 1 /\ 1 \in Nat \ {0}
    BY Constants DEF Nread
  <1>2. CASE ReadNothing(b, 1)
    BY <1>1, <1>2, ReadNothingStep
  <1>3. CASE ReadBytes(b, Smaller(num, NreadSpace(half[peer[b]])))
    <2> DEFINE h == half[peer[b]]
               k == Smaller(num, NreadSpace(h))
    <2>1. RingOK(h)
      BY <1>1, PeerOfPeer DEF HalfOK
    <2>2. h.len \in Nat /\ h.len > 0 /\ h.offset \in Nat /\ h.size \in Nat
          /\ h.offset < h.size
      BY <1>3, <2>1, Fields DEF ReadBytes
    <2>3. k \in 1..h.len
      BY <1>1, <2>2 DEF NreadSpace, Smaller
    <2> HIDE DEF k
    <2>4. ReadBytes(b, k)
      BY <1>3 DEF k
    <2> QED
      BY <1>1, <2>3, <2>4, ReadBytesStep
  <1> QED
    BY <1>2, <1>3 DEF Nread

\* An emptied ring buffer.
LEMMA EmptyIsOK ==
    ASSUME NEW h, RingOK(h)
    PROVE  LET e == [h EXCEPT !.len = 0, !.offset = 0]
           IN  /\ RingOK(e) /\ e.len = 0 /\ e.offset = 0
               /\ e.size = h.size /\ e.buf = h.buf
               /\ e.closed = h.closed /\ e.request = h.request
  <1> DEFINE e == [h EXCEPT !.len = 0, !.offset = 0]
  <1>1. 0 \in 0..MAX_SIZE /\ 0 <= h.size /\ 0 < h.size
    BY Fields, Constants
  <1>2. h \in Half
    BY DEF RingOK
  <1>3. /\ e \in Half /\ e.len = 0 /\ e.offset = 0
        /\ e.size = h.size /\ e.buf = h.buf
        /\ e.closed = h.closed /\ e.request = h.request
    BY <1>1, <1>2 DEF Half
  <1> HIDE DEF e
  <1>4. RingOK(e)
    BY <1>1, <1>3 DEF RingOK
  <1> QED
    BY <1>3, <1>4 DEF e

\* BIO_C_SET_WRITE_BUF_SIZE.
LEMMA SetWriteBufSizeStep ==
    ASSUME StructInvariant, NEW b \in Bios, NEW n \in Sizes[b],
           SetWriteBufSize(b, n)
    PROVE  StructInvariant' /\ [Pipe!Next]_(Pipe!vars)
  <1> DEFINE h == half[b]
             r == [h EXCEPT !.buf = NoBuf, !.size = n]
  <1>1. /\ peer[b] = NoPeer /\ peer' = peer /\ last' = last
        /\ half' = [half EXCEPT ![b] = r]
    BY DEF SetWriteBufSize
  <1>2. RingOK(h) /\ h.len = 0 /\ h.offset = 0
    BY <1>1, StructByHalf DEF HalfOK, RingOK
  <1>3. n \in 1..MAX_SIZE /\ n > 0
    BY Constants
  <1>4. RingOK(r) /\ r.len = 0 /\ r.closed = h.closed
    <2>1. h \in Half
      BY <1>2 DEF RingOK
    <2>2. /\ r \in Half /\ r.len = h.len /\ r.offset = h.offset /\ r.size = n
          /\ r.closed = h.closed
      BY <1>3, <2>1 DEF Half
    <2> HIDE DEF r
    <2> QED
      BY <1>2, <1>3, <2>2 DEF RingOK
  <1> HIDE DEF r
  <1>5. HalfOK(peer[b], r)
    BY <1>1, <1>4 DEF HalfOK
  <1>6. Stored(r, r.len) = Stored(h, h.len)
    BY <1>2, <1>4, NothingStored
  <1>7. StructInvariant' /\ shutBar' = shutBar /\ streamBar' = streamBar
    BY <1>1, <1>4, <1>5, <1>6, QuietHalf
  <1> QED
    BY <1>1, <1>7, PipeStutter

\* BIO_C_SHUTDOWN_WR.
LEMMA ShutdownWrStep ==
    ASSUME StructInvariant, NEW b \in Bios, ShutdownWr(b)
    PROVE  StructInvariant' /\ [Pipe!Next]_(Pipe!vars)
  <1> DEFINE h == half[b]
             r == [h EXCEPT !.closed = TRUE]
  <1>1. /\ peer' = peer /\ last' = last
        /\ half' = [half EXCEPT ![b] = r]
    BY DEF ShutdownWr
  <1>2. HalfOK(peer[b], h)
    BY StructByHalf
  <1>3. /\ RingOK(r) /\ r.len = h.len /\ r.closed = TRUE /\ r.offset = h.offset
        /\ r.size = h.size /\ r.buf = h.buf /\ r.request = h.request
    <2>1. h \in Half /\ RingOK(h)
      BY <1>2 DEF HalfOK, RingOK
    <2>2. /\ r \in Half /\ r.len = h.len /\ r.closed = TRUE
          /\ r.offset = h.offset /\ r.size = h.size /\ r.buf = h.buf
          /\ r.request = h.request
      BY <2>1 DEF Half
    <2> HIDE DEF r
    <2> QED
      BY <2>1, <2>2 DEF RingOK
  <1> HIDE DEF r
  <1>4. HalfOK(peer[b], r)
    BY <1>2, <1>3 DEF HalfOK
  <1>5. Stored(r, r.len) = streamBar[b]
    BY <1>3, SameBytes, BarFields
  <1>6. /\ StructInvariant'
        /\ streamBar' = [streamBar EXCEPT ![b] = streamBar[b]]
        /\ shutBar' = shutBar \cup {b}
    BY <1>1, <1>3, <1>4, <1>5, OneHalf
  <1>7. streamBar' = streamBar
    BY <1>6, BarFields
  <1> QED
    BY <1>1, <1>6, <1>7, PipeShut

\* BIO_CTRL_RESET: the bytes in a buffer are lost, if there is one.
LEMMA ResetStep ==
    ASSUME StructInvariant, NEW b \in Bios, Reset(b)
    PROVE  StructInvariant' /\ [Pipe!Next]_(Pipe!vars)
  <1> DEFINE h == half[b]
             r == [h EXCEPT !.len = 0, !.offset = 0]
  <1>1. peer' = peer /\ last' = last
    BY DEF Reset
  <1>2. HalfOK(peer[b], h)
    BY StructByHalf
  <1>3. CASE h.buf = NoBuf
    <2>1. half' = half
      BY <1>3 DEF Reset
    <2>2. StructInvariant' /\ streamBar' = streamBar /\ shutBar' = shutBar
      BY <1>1, <2>1 DEF StructInvariant, TypeOK, streamBar, shutBar
    <2> QED
      BY <1>1, <2>2, PipeStutter
  <1>4. CASE h.buf # NoBuf
    <2>1. half' = [half EXCEPT ![b] = r]
      BY <1>4 DEF Reset
    <2>2. /\ RingOK(r) /\ r.len = 0 /\ r.size = h.size /\ r.buf = h.buf
          /\ r.closed = h.closed /\ r.request = h.request
      BY <1>2, EmptyIsOK DEF HalfOK
    <2> HIDE DEF r
    <2>3. HalfOK(peer[b], r)
      BY <1>2, <2>2 DEF HalfOK
    <2>4. StructInvariant' /\ shutBar' = shutBar
      BY <1>1, <2>1, <2>2, <2>3, QuietHalf
    <2>5. streamBar' = [streamBar EXCEPT ![b] = Stored(r, r.len)]
      BY <1>1, <2>1, <2>3, OneHalf
    <2>6. streamBar' = [streamBar EXCEPT ![b] = <<>>]
      BY <2>2, <2>5, NothingStored
    <2> QED
      BY <1>1, <2>4, <2>6, PipeDiscard
  <1> QED
    BY <1>3, <1>4

\* BIO_C_MAKE_BIO_PAIR without memory for the second buffer.
LEMMA MakePairFailsStep ==
    ASSUME StructInvariant, NEW b \in Bios, NEW c \in Bios, MakePairFails(b, c)
    PROVE  StructInvariant' /\ [Pipe!Next]_(Pipe!vars)
  <1> DEFINE h == half[b]
  <1>1. PICK junk \in Bytes :
          half' = [half EXCEPT ![b].buf = [o \in Offsets |-> junk],
                               ![b].len = 0, ![b].offset = 0]
    BY DEF MakePairFails
  <1> DEFINE new == [o \in Offsets |-> junk]
             r == [h EXCEPT !.buf = new, !.len = 0, !.offset = 0]
  <1>2. /\ peer[b] = NoPeer /\ peer' = peer /\ last' = last
        /\ half' = [half EXCEPT ![b] = r]
    BY <1>1 DEF MakePairFails
  <1>3. RingOK(h) /\ h.len = 0 /\ h.offset = 0
    BY <1>2, StructByHalf DEF HalfOK, RingOK
  <1>4. new \in [Offsets -> Bytes]
    OBVIOUS
  <1> HIDE DEF new
  <1>5. RingOK(r) /\ r.len = 0 /\ r.closed = h.closed
    <2>1. h \in Half /\ 0 \in 0..MAX_SIZE
      BY <1>3, Constants DEF RingOK
    <2>2. /\ r \in Half /\ r.len = h.len /\ r.offset = h.offset /\ r.size = h.size
          /\ r.closed = h.closed
      BY <1>3, <1>4, <2>1 DEF Half
    <2> HIDE DEF r
    <2> QED
      BY <1>3, <2>2 DEF RingOK
  <1> HIDE DEF r
  <1>6. HalfOK(peer[b], r)
    BY <1>2, <1>5 DEF HalfOK
  <1>7. Stored(r, r.len) = Stored(h, h.len)
    BY <1>3, <1>5, NothingStored
  <1>8. StructInvariant' /\ shutBar' = shutBar /\ streamBar' = streamBar
    BY <1>2, <1>5, <1>6, <1>7, QuietHalf
  <1> QED
    BY <1>2, <1>8, PipeStutter

\* BIO_C_MAKE_BIO_PAIR: both streams are empty, and stay so.
LEMMA MakePairStep ==
    ASSUME StructInvariant, NEW b \in Bios, NEW c \in Bios, MakePair(b, c)
    PROVE  StructInvariant' /\ [Pipe!Next]_(Pipe!vars)
  <1>1. /\ b # c /\ peer[b] = NoPeer /\ peer[c] = NoPeer /\ last' = last
        /\ peer' = [peer EXCEPT ![b] = c, ![c] = b]
    BY DEF MakePair
  <1>2. PICK junk \in Bytes : half' = [x \in Bios |->
           IF x \notin {b, c} THEN half[x]
           ELSE [half[x] EXCEPT
                   !.closed = FALSE, !.request = 0,
                   !.buf = IF @ = NoBuf THEN [o \in Offsets |-> junk] ELSE @]]
    BY DEF MakePair
  <1>3. /\ peer \in [Bios -> Bios \cup {NoPeer}]
        /\ peer' \in [Bios -> Bios \cup {NoPeer}]
        /\ peer'[b] = c /\ peer'[c] = b
        /\ \A x \in Bios : x \notin {b, c} => peer'[x] = peer[x]
    BY <1>1, StructByHalf
  <1>4. \A x \in Bios : x \notin {b, c} =>
          half'[x] = half[x] /\ HalfOK(peer'[x], half'[x])
    BY <1>2, <1>3, StructByHalf
  <1>5. \A x \in {b, c} : /\ RingOK(half'[x]) /\ half'[x].len = 0
                          /\ half'[x].closed = FALSE /\ half'[x].request = 0
                          /\ half'[x].buf # NoBuf
    <2> TAKE x \in {b, c}
    <2>1. x \in Bios /\ RingOK(half[x]) /\ half[x].len = 0
      BY <1>1, StructByHalf DEF HalfOK
    <2> DEFINE buf == IF half[x].buf = NoBuf THEN [o \in Offsets |-> junk]
                                             ELSE half[x].buf
    <2>2. half'[x] = [half[x] EXCEPT !.closed = FALSE, !.request = 0, !.buf = buf]
      BY <1>2, <2>1
    <2>3. buf \in [Offsets -> Bytes]
      BY <2>1, Fields
    <2> HIDE DEF buf
    <2>4. buf # NoBuf
      BY <2>3, Constants
    <2> DEFINE r == [half[x] EXCEPT !.closed = FALSE, !.request = 0, !.buf = buf]
    <2>5. half[x] \in Half
      BY <2>1 DEF RingOK
    <2>6. /\ r \in Half /\ r.len = half[x].len /\ r.offset = half[x].offset
          /\ r.size = half[x].size /\ r.closed = FALSE /\ r.request = 0
          /\ r.buf = buf
      BY <2>3, <2>5 DEF Half
    <2>7. half'[x] = r
      BY <2>2
    <2> HIDE DEF r
    <2>8. RingOK(r)
      BY <2>1, <2>6 DEF RingOK
    <2> QED
      BY <2>1, <2>4, <2>6, <2>7, <2>8
  <1>6. \A x \in Bios : HalfOK(peer'[x], half'[x])
    <2> TAKE x \in Bios
    <2>1. CASE x \notin {b, c}
      BY <1>4, <2>1
    <2>2. CASE x \in {b, c}
      <3>1. peer'[x] # NoPeer
        BY <1>3, <2>2, Constants
      <3> QED
        BY <1>5, <2>2, <3>1 DEF HalfOK
    <2> QED
      BY <2>1, <2>2
  <1>7. half' \in [Bios -> Half]
    <2>1. \A x \in Bios : half'[x] \in Half
      BY <1>6 DEF HalfOK, RingOK
    <2>2. half' = [x \in Bios |-> half'[x]]
      BY <1>2
    <2> QED
      BY <2>1, <2>2
  <1>8. \A x \in Bios : peer'[x] # NoPeer => peer'[peer'[x]] = x
    <2> TAKE x \in Bios
    <2> HAVE peer'[x] # NoPeer
    <2>1. CASE x \in {b, c}
      BY <1>3, <2>1
    <2>2. CASE x \notin {b, c}
      <3>1. peer'[x] = peer[x] /\ peer[x] # NoPeer /\ peer[peer[x]] = x /\ peer[x] \in Bios
        BY <1>3, <2>2, StructByHalf
      <3>2. peer[x] \notin {b, c}
        BY <1>1, <3>1, Constants
      <3> QED
        BY <1>3, <3>1, <3>2
    <2> QED
      BY <2>1, <2>2
  <1>9. StructInvariant'
    BY <1>3, <1>6, <1>7, <1>8, StructByHalfNext
  <1>10. \A x \in Bios : Stored(half'[x], half'[x].len) = Stored(half[x], half[x].len)
    <2> TAKE x \in Bios
    <2>1. CASE x \notin {b, c}
      BY <1>4, <2>1
    <2>2. CASE x \in {b, c}
      <3>1. half[x].len = 0
        BY <1>1, <2>2, StructByHalf DEF HalfOK
      <3> QED
        BY <1>5, <2>2, <3>1, NothingStored
    <2> QED
      BY <2>1, <2>2
  <1>11. streamBar' = streamBar
    BY <1>10 DEF streamBar
  <1>12. shutBar' = shutBar \ {b, c}
    BY <1>4, <1>5 DEF shutBar
  <1>13. [Pipe!Next]_(Pipe!vars)
    BY <1>1, <1>11, <1>12, PipeJoin
  <1> QED
    BY <1>9, <1>13

\* BIO_C_DESTROY_BIO_PAIR and bio_free, as far as they agree: the two are
\* parted and hold nothing, and at most b itself is opened again.
LEMMA PartedStep ==
    ASSUME StructInvariant, NEW b \in Bios, peer[b] # NoPeer, last' = last,
           peer' = [peer EXCEPT ![b] = NoPeer, ![peer[b]] = NoPeer],
           half' = [x \in Bios |-> half'[x]],
           \A x \in Bios : x \notin {b, peer[b]} => half'[x] = half[x],
           \A x \in {b, peer[b]} : RingOK(half'[x]) /\ half'[x].len = 0,
           \A x \in Bios : half'[x].closed = half[x].closed
                           \/ (x = b /\ half'[x].closed = FALSE)
    PROVE  StructInvariant' /\ [Pipe!Next]_(Pipe!vars)
  <1> DEFINE p == peer[b]
  <1>1. p \in Bios /\ peer[p] = b
    BY PeerOfPeer
  <1>2. peer \in [Bios -> Bios \cup {NoPeer}]
    BY StructByHalf
  <1>3. /\ peer' \in [Bios -> Bios \cup {NoPeer}]
        /\ \A x \in Bios : peer'[x] = IF x \in {b, p} THEN NoPeer ELSE peer[x]
    BY <1>1, <1>2
  <1>4. \A x \in Bios : HalfOK(peer'[x], half'[x])
    <2> TAKE x \in Bios
    <2>1. CASE x \in {b, p}
      BY <1>3, <2>1 DEF HalfOK
    <2>2. CASE x \notin {b, p}
      BY <1>3, <2>2, StructByHalf
    <2> QED
      BY <2>1, <2>2
  <1>5. half' \in [Bios -> Half]
    <2>1. \A x \in Bios : half'[x] \in Half
      BY <1>4 DEF HalfOK, RingOK
    <2> QED
      BY <2>1
  <1>6. \A x \in Bios : peer'[x] # NoPeer => peer'[peer'[x]] = x
    <2> TAKE x \in Bios
    <2> HAVE peer'[x] # NoPeer
    <2>1. x \notin {b, p} /\ peer'[x] = peer[x] /\ peer[x] # NoPeer
      BY <1>3
    <2>2. peer[x] \in Bios /\ peer[peer[x]] = x
      BY <2>1, PeerOfPeer
    <2>3. peer[x] \notin {b, p}
      BY <1>1, <2>1, <2>2
    <2> QED
      BY <1>3, <2>1, <2>2, <2>3
  <1>7. StructInvariant'
    BY <1>3, <1>4, <1>5, <1>6, StructByHalfNext
  <1>8. streamBar' = [streamBar EXCEPT ![b] = <<>>, ![p] = <<>>]
    <2>1. \A x \in Bios : Stored(half'[x], half'[x].len) =
             IF x \in {b, p} THEN <<>> ELSE Stored(half[x], half[x].len)
      BY NothingStored
    <2> QED
      BY <1>1, <2>1 DEF streamBar
  <1>9. shutBar' \in {shutBar, shutBar \ {b}}
    <2>1. CASE half'[b].closed = half[b].closed
      <3>1. \A x \in Bios : half'[x].closed = half[x].closed
        BY <2>1
      <3> QED
        BY <3>1 DEF shutBar
    <2>2. CASE half'[b].closed # half[b].closed
      <3>1. /\ \A x \in Bios : x # b => half'[x].closed = half[x].closed
            /\ half'[b].closed = FALSE
        BY <2>2
      <3>2. shutBar' = shutBar \ {b}
        BY <3>1 DEF shutBar
      <3> QED
        BY <3>2
    <2> QED
      BY <2>1, <2>2
  <1>10. [Pipe!Next]_(Pipe!vars)
    BY <1>8, <1>9, PipePart
  <1> QED
    BY <1>7, <1>10

\* What bio_destroy_pair leaves.
LEMMA DestroyedHalves ==
    ASSUME StructInvariant, NEW b \in Bios, peer[b] # NoPeer
    PROVE  /\ DestroyHalves(b) \in [Bios -> Half]
           /\ \A x \in Bios : x \notin {b, peer[b]} => DestroyHalves(b)[x] = half[x]
           /\ \A x \in {b, peer[b]} :
                RingOK(DestroyHalves(b)[x]) /\ DestroyHalves(b)[x].len = 0
           /\ \A x \in Bios : DestroyHalves(b)[x].closed = half[x].closed
  <1> DEFINE p == peer[b]
             D == DestroyHalves(b)
             E(h) == [h EXCEPT !.len = 0, !.offset = 0]
  <1>1. p \in Bios
    BY PeerOfPeer
  <1>2. /\ half \in [Bios -> Half]
        /\ \A x \in Bios : RingOK(half[x])
    BY StructByHalf DEF HalfOK
  <1>3. \A x \in Bios : /\ RingOK(E(half[x])) /\ E(half[x]).len = 0
                        /\ E(half[x]).closed = half[x].closed
                        /\ E(half[x]) \in Half
    BY <1>2, EmptyIsOK DEF RingOK
  <1>4. /\ D = [x \in Bios |-> D[x]]
        /\ \A x \in Bios : D[x] = IF x \in {b, p} THEN E(half[x]) ELSE half[x]
    <2>1. CASE p = b
      BY <1>1, <1>2, <2>1 DEF DestroyHalves, Half
    <2>2. CASE p # b
      BY <1>1, <1>2, <2>2 DEF DestroyHalves
    <2> QED
      BY <2>1, <2>2
  <1> HIDE DEF D, E
  <1>5. D \in [Bios -> Half]
    BY <1>2, <1>3, <1>4
  <1>6. \A x \in Bios : x \notin {b, p} => D[x] = half[x]
    BY <1>4
  <1>7. \A x \in {b, p} : RingOK(D[x]) /\ D[x].len = 0
    <2>1. \A x \in {b, p} : x \in Bios /\ D[x] = E(half[x])
      BY <1>1, <1>4
    <2> QED
      BY <1>3, <2>1, Zenon
  <1>8. \A x \in Bios : D[x].closed = half[x].closed
    BY <1>3, <1>4
  <1> QED
    BY <1>5, <1>6, <1>7, <1>8 DEF D

\* BIO_C_DESTROY_BIO_PAIR.
LEMMA DestroyPairStep ==
    ASSUME StructInvariant, NEW b \in Bios, DestroyPair(b)
    PROVE  StructInvariant' /\ [Pipe!Next]_(Pipe!vars)
  <1>1. /\ peer[b] # NoPeer /\ half' = DestroyHalves(b) /\ last' = last
        /\ peer' = [peer EXCEPT ![b] = NoPeer, ![peer[b]] = NoPeer]
    BY DEF DestroyPair
  <1>2. /\ half' \in [Bios -> Half]
        /\ \A x \in Bios : x \notin {b, peer[b]} => half'[x] = half[x]
        /\ \A x \in {b, peer[b]} : RingOK(half'[x]) /\ half'[x].len = 0
        /\ \A x \in Bios : half'[x].closed = half[x].closed
    BY <1>1, DestroyedHalves
  <1>3. half' = [x \in Bios |-> half'[x]]
    BY <1>2
  <1>4. \A x \in Bios : half'[x].closed = half[x].closed
                        \/ (x = b /\ half'[x].closed = FALSE)
    BY <1>2, Zenon
  <1> QED
    BY <1>1, <1>2, <1>3, <1>4, PartedStep

\* bio_free.
LEMMA FreeStep ==
    ASSUME StructInvariant, NEW b \in Bios, Free(b)
    PROVE  StructInvariant' /\ [Pipe!Next]_(Pipe!vars)
  <1>1. CASE peer[b] = NoPeer
    <2>1. half' = [half EXCEPT ![b] = Fresh] /\ peer' = peer /\ last' = last
      BY <1>1 DEF Free
    <2>2. RingOK(Fresh) /\ Fresh.len = 0 /\ Fresh.closed = FALSE
      BY FreshIsOK
    <2>3. HalfOK(peer[b], Fresh)
      BY <1>1, <2>2 DEF HalfOK
    <2>4. /\ StructInvariant'
          /\ streamBar' = [streamBar EXCEPT ![b] = Stored(Fresh, Fresh.len)]
          /\ shutBar' = shutBar \ {b}
      BY <2>1, <2>2, <2>3, OneHalf
    <2>5. half[b].len = 0
      BY <1>1, StructByHalf DEF HalfOK
    <2>6. streamBar[b] = Stored(Fresh, Fresh.len)
      BY <2>2, <2>5, NothingStored, BarFields
    <2>7. streamBar' = [streamBar EXCEPT ![b] = streamBar[b]]
      BY <2>4, <2>6
    <2>8. streamBar' = streamBar
      BY <2>7, BarFields
    <2> QED
      BY <1>1, <2>1, <2>4, <2>8, PipeReopen
  <1>2. CASE peer[b] # NoPeer
    <2> DEFINE D == DestroyHalves(b)
    <2>1. /\ half' = [D EXCEPT ![b] = Fresh] /\ last' = last
          /\ peer' = [peer EXCEPT ![b] = NoPeer, ![peer[b]] = NoPeer]
      BY <1>2 DEF Free
    <2>2. /\ D \in [Bios -> Half]
          /\ \A x \in Bios : x \notin {b, peer[b]} => D[x] = half[x]
          /\ \A x \in {b, peer[b]} : RingOK(D[x]) /\ D[x].len = 0
          /\ \A x \in Bios : D[x].closed = half[x].closed
      BY <1>2, DestroyedHalves
    <2> HIDE DEF D
    <2>3. /\ half' = [x \in Bios |-> half'[x]] /\ half'[b] = Fresh
          /\ \A x \in Bios : x # b => half'[x] = D[x]
      BY <2>1, <2>2
    <2>4. peer[b] \in Bios
      BY <1>2, PeerOfPeer
    <2>5. \A x \in Bios : x \notin {b, peer[b]} => half'[x] = half[x]
      BY <2>2, <2>3
    <2>6. \A x \in {b, peer[b]} : RingOK(half'[x]) /\ half'[x].len = 0
      BY <2>2, <2>3, <2>4, FreshIsOK
    <2>7. \A x \in Bios : half'[x].closed = half[x].closed
                          \/ (x = b /\ half'[x].closed = FALSE)
      <3> TAKE x \in Bios
      <3>1. CASE x = b
        BY <2>3, <3>1, FreshIsOK, Zenon
      <3>2. CASE x # b
        BY <2>2, <2>3, <3>2, Zenon
      <3> QED
        BY <3>1, <3>2
    <2> QED
      BY <1>2, <2>1, <2>3, <2>5, <2>6, <2>7, PartedStep
  <1> QED
    BY <1>1, <1>2

\* BIO_C_RESET_READ_REQUEST, and a read of no bytes.
LEMMA ClearRequestStep ==
    ASSUME StructInvariant, NEW b \in Bios, ReadZero(b) \/ ResetReadRequest(b)
    PROVE  StructInvariant' /\ [Pipe!Next]_(Pipe!vars)
  <1>1. PICK c \in Bios : /\ half' = [half EXCEPT ![c].request = 0]
                          /\ peer' = peer /\ last' = last
    <2>1. CASE ReadZero(b)
      <3>1. peer[b] \in Bios
        BY <2>1, PeerOfPeer DEF ReadZero
      <3> QED
        BY <2>1, <3>1 DEF ReadZero
    <2>2. CASE ResetReadRequest(b)
      BY <2>2 DEF ResetReadRequest
    <2> QED
      BY <2>1, <2>2
  <1>2. StructInvariant' /\ streamBar' = streamBar /\ shutBar' = shutBar
    BY <1>1, RequestStep
  <1> QED
    BY <1>1, <1>2, PipeStutter

\* Every step.
LEMMA NextStep ==
    ASSUME StructInvariant, [Next]_vars
    PROVE  StructInvariant' /\ [Pipe!Next]_(Pipe!vars)
  <1>1. CASE UNCHANGED vars
    <2>1. peer' = peer /\ half' = half /\ last' = last
      BY <1>1 DEF vars
    <2>2. StructInvariant' /\ streamBar' = streamBar /\ shutBar' = shutBar
      BY <2>1 DEF StructInvariant, TypeOK, streamBar, shutBar
    <2> QED
      BY <2>1, <2>2, PipeStutter
  <1>2. CASE Next
    <2>1. PICK b \in Bios :
            \/ \E num \in 1..MAX_NUM : Read(b, num) \/ Nread(b, num)
            \/ ReadZero(b)
            \/ \E n \in 1..MAX_NUM : \E data \in [1..n -> Bytes] :
                 Write(b, data) \/ Nwrite(b, data)
            \/ \E n \in Sizes[b] : SetWriteBufSize(b, n)
            \/ \E c \in Bios : MakePair(b, c) \/ MakePairFails(b, c)
            \/ DestroyPair(b)
            \/ Free(b)
            \/ ShutdownWr(b)
            \/ Reset(b)
            \/ ResetReadRequest(b)
      BY <1>2 DEF Next
    <2>2. CASE \E num \in 1..MAX_NUM : Read(b, num) \/ Nread(b, num)
      BY <2>2, ReadStep, NreadStep
    <2>3. CASE ReadZero(b) \/ ResetReadRequest(b)
      BY <2>3, ClearRequestStep
    <2>4. CASE \E n \in 1..MAX_NUM : \E data \in [1..n -> Bytes] :
                 Write(b, data) \/ Nwrite(b, data)
      BY <2>4, WriteStep, NwriteStep
    <2>5. CASE \E n \in Sizes[b] : SetWriteBufSize(b, n)
      BY <2>5, SetWriteBufSizeStep
    <2>6. CASE \E c \in Bios : MakePair(b, c) \/ MakePairFails(b, c)
      BY <2>6, MakePairStep, MakePairFailsStep
    <2>7. CASE DestroyPair(b)
      BY <2>7, DestroyPairStep
    <2>8. CASE Free(b)
      BY <2>8, FreeStep
    <2>9. CASE ShutdownWr(b)
      BY <2>9, ShutdownWrStep
    <2>10. CASE Reset(b)
      BY <2>10, ResetStep
    <2> QED
      BY <2>1, <2>2, <2>3, <2>4, <2>5, <2>6, <2>7, <2>8, <2>9, <2>10
  <1> QED
    BY <1>1, <1>2

-----------------------------------------------------------------------------
\* The comments of struct bio_bio_st hold in every state: peers point at each
\* other and have buffers, an unpaired BIO holds nothing, no index leaves a
\* buffer, and a read request is one that the writer can rely on.
THEOREM StructInvariantHolds == Spec => []StructInvariant
  <1>1. Init => StructInvariant
    <2> SUFFICES ASSUME Init PROVE StructInvariant
      OBVIOUS
    <2>1. RingOK(Fresh) /\ Fresh.len = 0 /\ Fresh \in Half
      BY FreshIsOK DEF RingOK
    <2>2. HalfOK(NoPeer, Fresh)
      BY <2>1 DEF HalfOK
    <2> QED
      BY <2>1, <2>2, StructByHalf DEF Init
  <1>2. StructInvariant /\ [Next]_vars => StructInvariant'
    BY NextStep
  <1> QED
    BY <1>1, <1>2, PTL DEF Spec

\* BIO_nwrite need not be called more than twice to write what
\* BIO_ctrl_get_write_guarantee promised: the free places lie in at most two
\* pieces, and the second call finds the second one.
THEOREM TwoNwritesSufficeHolds == Spec => []TwoNwritesSuffice
  <1>1. StructInvariant => TwoNwritesSuffice
    <2> SUFFICES ASSUME StructInvariant, NEW b \in Bios
                 PROVE  LET h == half[b]
                            n == NwriteSpace(h)
                        IN  n < WriteGuarantee(b) =>
                              n + NwriteSpace([h EXCEPT !.len = @ + n]) =
                                WriteGuarantee(b)
      BY DEF TwoNwritesSuffice
    <2> DEFINE h == half[b]
               n == NwriteSpace(h)
               w == WriteGuarantee(b)
               g == [h EXCEPT !.len = h.len + n]
    <2>1. /\ h.len \in Nat /\ h.offset \in Nat /\ h.size \in Nat
          /\ h.len <= h.size /\ h.offset < h.size
      BY StructByHalf, Fields DEF HalfOK
    <2>2. w = 0 \/ w = h.size - h.len
      BY DEF WriteGuarantee
    <2>3. /\ g.offset = h.offset /\ g.size = h.size /\ g.len = h.len + n
      <3>1. h \in Half
        BY StructByHalf
      <3> HIDE DEF n
      <3> QED
        BY <3>1 DEF Half
    <2>4. n = Smaller(h.size - h.len, h.size - Wrap(h, h.offset + h.len))
      BY DEF NwriteSpace
    <2>5. NwriteSpace(g) =
            Smaller(h.size - (h.len + n),
                    h.size - Wrap(h, h.offset + (h.len + n)))
      BY <2>3 DEF NwriteSpace, Wrap
    <2> HIDE DEF g, n, w
    <2>6. ASSUME n < w PROVE n + NwriteSpace(g) = w
      BY <2>1, <2>2, <2>4, <2>5, <2>6 DEF Smaller, Wrap
    <2> QED
      BY <2>6 DEF g, n, w
  <1> QED
    BY <1>1, StructInvariantHolds, PTL

\* A BIO pair is a pipe of bytes in both directions: the specification of
\* bss_bio.c implements BytePipe, for any mixture of copying and in-place
\* calls, wherever the ring buffers wrap, and however often BIOs are paired.
THEOREM PairIsPipe == Spec => ImplementsPipe
  <1>1. Init => Pipe!Init
    <2>1. ASSUME Init PROVE streamBar = [b \in Bios |-> <<>>] /\ shutBar = {}
      BY <2>1, NothingStored, FreshIsOK DEF Init, streamBar, shutBar
    <2> QED
      BY <2>1 DEF Init, Pipe!Init, streamBar, shutBar
  <1>2. StructInvariant /\ [Next]_vars => [Pipe!Next]_(Pipe!vars)
    BY NextStep
  <1> QED
    BY <1>1, <1>2, StructInvariantHolds, PTL DEF Spec, ImplementsPipe, Pipe!Spec

=============================================================================
