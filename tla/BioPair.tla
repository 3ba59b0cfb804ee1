------------------------------ MODULE BioPair ------------------------------
(***************************************************************************)
(* OpenSSL's BIO pairs, crypto/bio/bss_bio.c: two BIOs with a ring buffer  *)
(* each.  What a BIO writes goes to its own buffer, and its peer reads it  *)
(* from there, copying or in place.  A call is atomic, as the two BIOs of  *)
(* a pair are used by one thread.                                          *)
(***************************************************************************)
EXTENDS Integers, Sequences

CONSTANTS
    Bios,
    Bytes,
    Sizes,      \* bound: sizes that each BIO's buffer is given
    MAX_SIZE,   \* bound: the largest of them
    MAX_NUM,    \* bound: bytes in one call
    DEFAULT_SIZE, \* 17 * 1024
    NoPeer,     \* b->peer == NULL
    NoBuf       \* b->buf == NULL

ASSUME BioAssumption ==
    /\ MAX_SIZE \in Nat \ {0}
    /\ Sizes \in [Bios -> SUBSET (1..MAX_SIZE)]
    /\ MAX_NUM \in Nat \ {0}
    /\ DEFAULT_SIZE \in 1..MAX_SIZE
    /\ Bytes # {}
    /\ NoPeer \notin Bios
    /\ NoBuf \notin [0..MAX_SIZE - 1 -> Bytes]

VARIABLES
    peer,  \* b->peer
    half,  \* the rest of struct bio_bio_st
    last   \* what the last transfer was, at which BIO, and its bytes

vars == <<peer, half, last>>

Offsets == 0..MAX_SIZE - 1

Half == [closed : BOOLEAN, len : 0..MAX_SIZE, offset : 0..MAX_SIZE,
         size : 1..MAX_SIZE, buf : [Offsets -> Bytes] \cup {NoBuf},
         request : Nat]

Smaller(a, b) == IF a < b THEN a ELSE b

\* bio_new.
Fresh ==
    [closed |-> FALSE, len |-> 0, offset |-> 0, size |-> DEFAULT_SIZE,
     buf |-> NoBuf, request |-> 0]

-----------------------------------------------------------------------------
(***************************************************************************)
(* The ring buffer.                                                        *)
(***************************************************************************)

\* The end of the buffer is taken for one of its places.
WrapLate(h, x) == IF x > h.size THEN x - h.size ELSE x

\* Where the byte at distance x from the start of the buffer is.
Wrap(h, x) == IF x >= h.size THEN x - h.size ELSE x

\* The bytes from the offset on.
Stored(h, n) == [i \in 1..n |-> h.buf[Wrap(h, h.offset + i - 1)]]

\* A second chunk starts where the first one did.
StoreOneChunk(h, data) ==
    [h EXCEPT !.len = @ + Len(data),
              !.buf = [x \in Offsets |->
                 LET i == x - Wrap(h, h.offset + h.len)
                 IN  IF i \in 0..Len(data) - 1 THEN data[i + 1] ELSE h.buf[x]]]

\* The one or two chunks of bio_write.
Store(h, data) ==
    [h EXCEPT !.len = @ + Len(data),
              !.buf = [x \in Offsets |->
                 LET start == Wrap(h, h.offset + h.len)
                     i == IF x >= start THEN x - start ELSE x - start + h.size
                 IN  IF x < h.size /\ i < Len(data)
                       THEN data[i + 1] ELSE h.buf[x]]]

\* n bytes were read: an empty buffer starts over.
Consume(h, n) ==
    [h EXCEPT !.len = @ - n,
              !.offset = IF h.len = n THEN 0 ELSE Wrap(h, @ + n)]

\* bio_nread0 and bio_nwrite0 offer what lies in one piece.
NreadSpace(h) == Smaller(h.len, h.size - h.offset)

\* One place stays free, to tell a full buffer from an empty one.
NwriteSpaceOneFree(h) ==
    Smaller(h.size - h.len - 1, h.size - Wrap(h, h.offset + h.len))

NwriteSpace(h) ==
    Smaller(h.size - h.len, h.size - Wrap(h, h.offset + h.len))

-----------------------------------------------------------------------------
(***************************************************************************)
(* The operations.                                                         *)
(***************************************************************************)

\* Reading from an empty buffer: the end, or a request to the writer for
\* what it can deliver in one write.
ReadNothing(b, num) ==
    LET p == peer[b]
    IN  /\ half[p].len = 0
        /\ half' = [half EXCEPT ![p].request =
                      IF half[p].closed THEN 0 ELSE Smaller(num, half[p].size)]
        /\ last' = <<IF half[p].closed THEN "eof" ELSE "retry", b, <<>>>>
        /\ UNCHANGED peer

ReadBytes(b, num) ==
    LET p == peer[b]
    IN  /\ half[p].len > 0
        /\ half' = [half EXCEPT ![p] = [Consume(@, num) EXCEPT !.request = 0]]
        /\ last' = <<"get", b, Stored(half[p], num)>>
        /\ UNCHANGED peer

\* bio_read; a read of no bytes only clears the request.
Read(b, num) ==
    /\ peer[b] # NoPeer
    /\ \/ ReadNothing(b, num)
       \/ ReadBytes(b, Smaller(num, half[peer[b]].len))

\* bio_nread, whose caller takes the bytes before anyone writes again.
Nread(b, num) ==
    /\ peer[b] # NoPeer
    /\ \/ ReadNothing(b, 1)
       \/ ReadBytes(b, Smaller(num, NreadSpace(half[peer[b]])))

ReadZero(b) ==
    /\ peer[b] # NoPeer
    /\ half' = [half EXCEPT ![peer[b]].request = 0]
    /\ UNCHANGED <<peer, last>>

WriteBytes(b, data) ==
    /\ half' = [half EXCEPT ![b] = [Store(@, data) EXCEPT !.request = 0]]
    /\ last' = <<"put", b, data>>

\* After BIO_C_SHUTDOWN_WR, or with a full buffer.
WriteRefused(b) ==
    /\ half[b].closed \/ half[b].len = half[b].size
    /\ half' = [half EXCEPT ![b].request = 0]
    /\ UNCHANGED last

WriteUpTo(b, data, space) ==
    /\ peer[b] # NoPeer
    /\ \/ WriteRefused(b)
       \/ /\ ~half[b].closed
          /\ half[b].len < half[b].size
          /\ WriteBytes(b, SubSeq(data, 1, Smaller(Len(data), space)))
    /\ UNCHANGED peer

\* bio_write, and bio_nwrite with what its caller puts there.
Write(b, data) == WriteUpTo(b, data, half[b].size - half[b].len)

Nwrite(b, data) == WriteUpTo(b, data, NwriteSpace(half[b]))

\* BIO_C_SET_WRITE_BUF_SIZE, refused for a BIO in use.
SetWriteBufSize(b, n) ==
    /\ peer[b] = NoPeer
    /\ n # half[b].size
    /\ half' = [half EXCEPT ![b].buf = NoBuf, ![b].size = n]
    /\ UNCHANGED <<peer, last>>

\* BIO_C_MAKE_BIO_PAIR: a buffer that is kept is taken to be empty.  The
\* contents of a new buffer are undefined.  A caller pairs two BIOs, not one
\* with itself.
MakePair(b, c) ==
    /\ b # c
    /\ peer[b] = NoPeer /\ peer[c] = NoPeer
    /\ peer' = [peer EXCEPT ![b] = c, ![c] = b]
    /\ \E junk \in Bytes :
         half' = [x \in Bios |->
           IF x \notin {b, c} THEN half[x]
           ELSE [half[x] EXCEPT
                   !.closed = FALSE, !.request = 0,
                   !.buf = IF @ = NoBuf THEN [o \in Offsets |-> junk] ELSE @]]
    /\ UNCHANGED last

\* There is memory for the first buffer, which is kept, and not for the
\* second.
MakePairFails(b, c) ==
    /\ b # c
    /\ peer[b] = NoPeer /\ peer[c] = NoPeer
    /\ half[b].buf = NoBuf /\ half[c].buf = NoBuf
    /\ \E junk \in Bytes :
         half' = [half EXCEPT ![b].buf = [o \in Offsets |-> junk],
                              ![b].len = 0, ![b].offset = 0]
    /\ UNCHANGED <<peer, last>>

\* Both buffers are emptied and kept.
DestroyHalves(b) ==
    [half EXCEPT ![b].len = 0, ![b].offset = 0,
                 ![peer[b]].len = 0, ![peer[b]].offset = 0]

DestroyPair(b) ==
    /\ peer[b] # NoPeer
    /\ peer' = [peer EXCEPT ![b] = NoPeer, ![peer[b]] = NoPeer]
    /\ half' = DestroyHalves(b)
    /\ UNCHANGED last

\* bio_free, and bio_new for the next user of the name.
Free(b) ==
    /\ IF peer[b] = NoPeer
         THEN /\ half' = [half EXCEPT ![b] = Fresh]
              /\ UNCHANGED peer
         ELSE /\ half' = [DestroyHalves(b) EXCEPT ![b] = Fresh]
              /\ peer' = [peer EXCEPT ![b] = NoPeer, ![peer[b]] = NoPeer]
    /\ UNCHANGED last

\* BIO_C_SHUTDOWN_WR, BIO_CTRL_RESET and BIO_C_RESET_READ_REQUEST.
ShutdownWr(b) ==
    /\ half' = [half EXCEPT ![b].closed = TRUE]
    /\ UNCHANGED <<peer, last>>

Reset(b) ==
    /\ half' = IF half[b].buf = NoBuf THEN half
               ELSE [half EXCEPT ![b].len = 0, ![b].offset = 0]
    /\ UNCHANGED <<peer, last>>

ResetReadRequest(b) ==
    /\ half' = [half EXCEPT ![b].request = 0]
    /\ UNCHANGED <<peer, last>>

\* BIO_C_GET_WRITE_GUARANTEE.
WriteGuarantee(b) ==
    IF peer[b] = NoPeer \/ half[b].closed THEN 0 ELSE half[b].size - half[b].len

-----------------------------------------------------------------------------
Init ==
    /\ peer = [b \in Bios |-> NoPeer]
    /\ half = [b \in Bios |-> Fresh]
    /\ last = <<"none", NoPeer, <<>>>>

Next ==
    \E b \in Bios :
        \/ \E num \in 1..MAX_NUM : Read(b, num) \/ Nread(b, num)
        \/ ReadZero(b)
        \/ \E n \in 1..MAX_NUM : \E data \in [1..n -> Bytes] :
             Write(b, data) \/ Nwrite(b, data)
        \/ \E n \in Sizes[b] : SetWriteBufSize(b, n)
        \/ \E c \in Bios : MakePair(b, c) \/ MakePairFails(b, c)
        \/ DestroyPair(b)
        \/ Free(b)
        \/ ShutdownWr(b)
        \/ Reset(b)
        \/ ResetReadRequest(b)

Spec == Init /\ [][Next]_vars

-----------------------------------------------------------------------------
(***************************************************************************)
(* Properties.                                                             *)
(***************************************************************************)

\* The fields have their types; in particular no index leaves the buffer.
TypeOK ==
    /\ peer \in [Bios -> Bios \cup {NoPeer}]
    /\ half \in [Bios -> Half]
    /\ \A b \in Bios : half[b].len <= half[b].size
                       /\ half[b].offset < half[b].size

\* The comments of struct bio_bio_st, which several functions rely on: peers
\* point at each other and have buffers, an unpaired BIO holds nothing, an
\* empty buffer starts at 0, and a read request stands only while the buffer
\* is empty and never exceeds what one write can deliver.
StructInvariant ==
    /\ TypeOK
    /\ \A b \in Bios :
        /\ peer[b] # NoPeer => peer[peer[b]] = b /\ half[b].buf # NoBuf
        /\ peer[b] = NoPeer => half[b].len = 0
        /\ half[b].len = 0 => half[b].offset = 0
        /\ peer[b] # NoPeer /\ half[b].request # 0 =>
             /\ half[b].len = 0
             /\ half[b].request <= half[b].size

\* "to fulfil the promise by BIO_ctrl_get_write_guarantee, BIO_nwrite may have
\* to be called twice" (bio_nwrite0): twice is enough, wherever the ring
\* buffer stands.
TwoNwritesSuffice ==
    \A b \in Bios :
        LET h == half[b]
            n == NwriteSpace(h)
        IN  n < WriteGuarantee(b) =>
              n + NwriteSpace([h EXCEPT !.len = @ + n]) = WriteGuarantee(b)

Pipe == INSTANCE BytePipe WITH
          Ends <- Bios, MaxPut <- MAX_NUM, NoMate <- NoPeer, mate <- peer,
          stream <- [b \in Bios |-> Stored(half[b], half[b].len)],
          shut <- {b \in Bios : half[b].closed}

\* A BIO pair is a pipe of bytes in both directions: whatever the mixture of
\* copying and in-place calls, wherever the buffers wrap, and however often
\* BIOs are paired again, the bytes come out as they went in.
ImplementsPipe == Pipe!Spec

=============================================================================
