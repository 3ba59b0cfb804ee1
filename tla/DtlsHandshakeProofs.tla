------------------------ MODULE DtlsHandshakeProofs ------------------------
(***************************************************************************)
(* Proofs about DtlsHandshake for every choice of messages, MTUs, bits in  *)
(* a byte, window and number of timeouts: that a message is taken for      *)
(* complete exactly when all of it has come, that the peers take turns,    *)
(* and that what may still be needed is kept and sent again.               *)
(***************************************************************************)
EXTENDS DtlsHandshake, FiniteSetTheorems, TLAPS

(***************************************************************************)
(* The reassembly bitmask.                                                 *)
(***************************************************************************)

\* Division with remainder, for all integers and for natural numbers.
LEMMA DivisionInt ==
    \A a \in Int : \A b \in Int : b > 0 => a = b * (a \div b) + (a % b)
    BY Z3

\* The quotient and the remainder of natural numbers.
LEMMA Division ==
    ASSUME NEW a \in Nat, NEW b \in Nat \ {0}
    PROVE  /\ a \div b \in Nat /\ a % b \in 0..b - 1
           /\ a = b * (a \div b) + (a % b)
  <1>1. a % b \in 0..b - 1
    OBVIOUS
  <1>2. a \div b \in Nat
    OBVIOUS
  <1>3. a = b * (a \div b) + (a % b)
    <2>1. a \in Int /\ b \in Int /\ b > 0
      OBVIOUS
    <2> QED
      BY <2>1, DivisionInt, Zenon
  <1> QED
    BY <1>1, <1>2, <1>3

\* A multiple that is not above the quotient is not above the number.
LEMMA BelowQuotient ==
    ASSUME NEW a \in Nat, NEW b \in Nat \ {0}, NEW n \in 0..(a \div b)
    PROVE  n * b \in Nat /\ n * b <= a
  <1>1. a \div b \in Nat /\ b * (a \div b) <= a
    BY Division
  <1>2. n * b <= (a \div b) * b
    BY <1>1
  <1> QED
    BY <1>1, <1>2

\* Multiplication keeps the order.
LEMMA Monotone ==
    ASSUME NEW x \in Nat, NEW y \in Nat, NEW b \in Nat \ {0}
    PROVE  /\ x <= y => b * x <= b * y
           /\ b * x < b * y => x < y
  <1>1. x <= y => b * x <= b * y
    OBVIOUS
  <1>2. y <= x => b * y <= b * x
    OBVIOUS
  <1>3. b * x \in Nat /\ b * y \in Nat
    OBVIOUS
  <1> QED
    BY <1>1, <1>2, <1>3

\* The remainder is the only one.
LEMMA Remainder ==
    ASSUME NEW a \in Nat, NEW b \in Nat \ {0}, NEW q \in Nat, NEW r \in 0..b - 1,
           a = b * q + r
    PROVE  a % b = r
  <1> DEFINE Q == a \div b
             R == a % b
  <1>1. Q \in Nat /\ R \in 0..b - 1 /\ a = b * Q + R
    BY Division
  <1> HIDE DEF Q, R
  <1>2. b * Q \in Nat /\ b * q \in Nat /\ b * (Q + 1) = b * Q + b
        /\ b * (q + 1) = b * q + b
    BY <1>1
  <1>3. b * Q < b * (q + 1) /\ b * q < b * (Q + 1)
    BY <1>1, <1>2
  <1>4. Q < q + 1 /\ q < Q + 1
    BY <1>1, <1>3, Monotone
  <1>5. Q = q
    BY <1>1, <1>4
  <1>6. R = r
    BY <1>1, <1>2, <1>5
  <1> QED
    BY <1>6 DEF R

\* RSMBLY_BITMASK_MARK marks the bytes from start to end, whether the marks
\* are made bit by bit or byte by byte.
LEMMA MarkIsInterval ==
    ASSUME NEW start \in Nat, NEW end \in Nat, start <= end
    PROVE  RSMBLY_BITMASK_MARK(start, end) = start..end - 1
  <1>0. BITS \in Nat \ {0}
    BY HandshakeAssumption
  <1>1. CASE end - start <= BITS
    BY <1>1 DEF RSMBLY_BITMASK_MARK
  <1>2. CASE ~(end - start <= BITS)
    <2> DEFINE first == start \div BITS
               last == (end - 1) \div BITS
               fb == (first + 1) * BITS
               lb == last * BITS
               rest == IF end % BITS = 0 THEN BITS ELSE end % BITS
    <2>1. end - 1 \in Nat
      BY <1>0, <1>2
    <2>2. /\ first \in Nat /\ start = BITS * first + (start % BITS)
          /\ start % BITS \in 0..BITS - 1
      BY <1>0, Division
    <2>3. /\ last \in Nat /\ end - 1 = BITS * last + ((end - 1) % BITS)
          /\ (end - 1) % BITS \in 0..BITS - 1
      BY <1>0, <2>1, Division
    <2>4. fb \in Nat /\ lb \in Nat /\ start < fb /\ fb <= start + BITS
      BY <1>0, <2>2, <2>3
    <2>5. lb <= end - 1 /\ end - 1 < lb + BITS
      BY <1>0, <2>3
    <2>6. lb + rest = end
      <3> DEFINE m == (end - 1) % BITS
      <3>1. m \in 0..BITS - 1 /\ end = BITS * last + (m + 1) /\ lb = BITS * last
        BY <1>0, <2>1, <2>3
      <3>2. CASE m = BITS - 1
        <4>1. end = BITS * (last + 1) + 0 /\ 0 \in 0..BITS - 1 /\ last + 1 \in Nat
          BY <1>0, <2>3, <3>1, <3>2
        <4>2. end % BITS = 0
          BY <1>0, <4>1, Remainder
        <4> QED
          BY <1>0, <3>1, <3>2, <4>2
      <3>3. CASE m # BITS - 1
        <4>1. m + 1 \in 0..BITS - 1 /\ m + 1 # 0
          BY <1>0, <3>1, <3>3
        <4>2. end % BITS = m + 1
          <5> HIDE DEF m
          <5> QED
            BY <1>0, <2>3, <3>1, <4>1, Remainder
        <4>3. rest = m + 1
          BY <4>1, <4>2
        <4> HIDE DEF m, last, lb, rest
        <4> QED
          BY <1>0, <2>3, <3>1, <4>3
      <3> QED
        BY <3>2, <3>3
    <2>7. fb <= lb
      <3>1. BITS * first < BITS * last
        BY <1>0, <1>2, <2>2, <2>3
      <3>2. first < last
        BY <1>0, <2>2, <2>3, <3>1, Monotone
      <3>3. BITS * (first + 1) <= BITS * last
        BY <1>0, <2>2, <2>3, <3>2, Monotone
      <3> QED
        BY <1>0, <2>2, <2>3, <3>3
    <2>8. RSMBLY_BITMASK_MARK(start, end) =
            (start..fb - 1) \cup (fb..lb - 1) \cup (lb..lb + rest - 1)
      BY <1>2 DEF RSMBLY_BITMASK_MARK
    <2>9. lb + rest - 1 = end - 1
      <3>1. rest \in Int /\ lb \in Int
        BY <1>0, <2>4, Division
      <3> HIDE DEF rest, lb
      <3> QED
        BY <2>6, <3>1
    <2> HIDE DEF first, last, fb, lb, rest
    <2>10. RSMBLY_BITMASK_MARK(start, end) =
            (start..fb - 1) \cup (fb..lb - 1) \cup (lb..end - 1)
      BY <2>8, <2>9, Zenon
    <2>11. lb \in Nat /\ fb \in Nat /\ start < fb /\ fb <= lb /\ lb <= end - 1
      BY <2>4, <2>5, <2>7
    <2>12. (start..fb - 1) \cup (fb..lb - 1) = start..lb - 1
      BY <2>11
    <2>13. (start..lb - 1) \cup (lb..end - 1) = start..end - 1
      BY <2>11
    <2> QED
      BY <2>10, <2>12, <2>13
  <1> QED
    BY <1>1, <1>2

\* RSMBLY_BITMASK_IS_COMPLETE, which looks at whole bytes and at the last one,
\* says that all positions of the message are marked, and no other.
LEMMA CompleteIsAll ==
    ASSUME NEW mask \in SUBSET Nat, NEW len \in Nat \ {0}
    PROVE  RSMBLY_BITMASK_IS_COMPLETE(mask, len) <=> mask = Positions(len)
  <1>0. BITS \in Nat \ {0} /\ len - 1 \in Nat
    BY HandshakeAssumption
  <1> DEFINE last == (len - 1) \div BITS
             lb == last * BITS
  <1>1. last \in Nat /\ lb \in Nat /\ lb <= len - 1
    <2>1. last \in Nat
      BY <1>0, Division
    <2>2. last \in 0..last
      BY <2>1
    <2> QED
      BY <1>0, <2>1, <2>2, BelowQuotient
  <1>2. RSMBLY_BITMASK_IS_COMPLETE(mask, len) <=>
          /\ {x \in mask : x >= lb} = lb..len - 1
          /\ 0..lb - 1 \subseteq mask
    BY DEF RSMBLY_BITMASK_IS_COMPLETE
  <1> HIDE DEF last, lb
  <1>3. ASSUME {x \in mask : x >= lb} = lb..len - 1, 0..lb - 1 \subseteq mask
        PROVE  mask = 0..len - 1
    <2>1. ASSUME NEW x \in mask PROVE x \in 0..len - 1
      <3>1. x \in Nat
        OBVIOUS
      <3>2. CASE x >= lb
        <4>1. x \in lb..len - 1
          BY <1>3, <3>2
        <4> QED
          BY <1>1, <3>1, <4>1
      <3>3. CASE x < lb
        BY <1>0, <1>1, <3>1, <3>3
      <3> QED
        BY <1>1, <3>1, <3>2, <3>3
    <2>2. ASSUME NEW x \in 0..len - 1 PROVE x \in mask
      <3>1. CASE x >= lb
        <4>1. x \in lb..len - 1
          BY <1>0, <1>1, <3>1
        <4> QED
          BY <1>3, <4>1
      <3>2. CASE x < lb
        <4>1. x \in 0..lb - 1
          BY <1>0, <1>1, <3>2
        <4> QED
          BY <1>3, <4>1
      <3> QED
        BY <1>0, <1>1, <3>1, <3>2
    <2> QED
      BY <2>1, <2>2
  <1>4. ASSUME mask = 0..len - 1
        PROVE  {x \in mask : x >= lb} = lb..len - 1 /\ 0..lb - 1 \subseteq mask
    BY <1>0, <1>1, <1>4
  <1> QED
    BY <1>2, <1>3, <1>4 DEF Positions

-----------------------------------------------------------------------------
(***************************************************************************)
(* The flights and their messages.                                         *)
(***************************************************************************)

\* The constants are numbers as the code has them.
LEMMA Numbers ==
    /\ MTU \in Nat \ {0} /\ FALLBACK_MTU \in Nat \ {0} /\ FALLBACK_MTU <= MTU
    /\ WINDOW \in Nat \ {0} /\ ALERT_COUNT \in Nat /\ MTU_ALERTS \in Nat
    /\ NULL \notin Buffered
    BY HandshakeAssumption DEF Buffered

\* The two peers.
LEMMA TwoPeers ==
    /\ Client # Server /\ Peers = {Client, Server}
    /\ Other(Client) = Server /\ Other(Server) = Client
  <1>1. Client # Server
    BY HandshakeAssumption
  <1>2. Other(Client) = Server
    BY <1>1 DEF Other, Peers
  <1>3. Other(Server) = Client
    BY <1>1 DEF Other, Peers
  <1> QED
    BY <1>1, <1>2, <1>3 DEF Peers

\* Each peer is the other's other.
LEMMA OtherFacts ==
    ASSUME NEW p \in Peers
    PROVE  /\ Other(p) \in Peers /\ Other(p) # p /\ Other(Other(p)) = p
           /\ \A x \in Peers : x # p => x = Other(p)
    BY TwoPeers

\* The four flights, whose they are, and their first numbers.
LEMMA FlightFacts ==
    /\ LastFlight = 4
    /\ Author(1) = Client /\ Author(2) = Server
    /\ Author(3) = Client /\ Author(4) = Server
    /\ Start(1) = 0 /\ Start(2) = 0
    /\ Start(3) = Len(Flights[1]) /\ Start(4) = Len(Flights[2])
    /\ \A k \in 1..4 : Len(Flights[k]) \in Nat \ {0} /\ Flights[k] \in Seq(Nat)
  <1>1. Len(Flights) = 4
    BY HandshakeAssumption
  <1>2. \A k \in 1..4 : Flights[k] \in Seq(Nat) /\ Flights[k] # <<>>
    BY <1>1, HandshakeAssumption
  <1>3. \A k \in 1..4 : Len(Flights[k]) \in Nat \ {0} /\ Flights[k] \in Seq(Nat)
    <2>1. ASSUME NEW s \in Seq(Nat), s # <<>>
          PROVE  Len(s) \in Nat \ {0}
      BY <2>1
    <2> QED
      BY <1>2, <2>1, Zenon
  <1>4. /\ Author(1) = Client /\ Author(2) = Server
        /\ Author(3) = Client /\ Author(4) = Server
    BY DEF Author
  <1>5. /\ Start(1) = 0 /\ Start(2) = 0
        /\ Start(3) = Len(Flights[1]) /\ Start(4) = Len(Flights[2])
    BY DEF Start
  <1> QED
    BY <1>1, <1>3, <1>4, <1>5 DEF LastFlight

\* The numbers of a peer's messages: those of its first flight, then those of
\* its second.
LEMMA FlightSeqs ==
    /\ \A k \in 1..4 : /\ Start(k) \in Nat /\ EndOf(k) \in Nat /\ Start(k) < EndOf(k)
                       /\ SeqsOf(k) = Start(k)..EndOf(k) - 1
                       /\ SeqsOf(k) \subseteq Seqs /\ EndOf(k) \in Seqs
    /\ Start(3) = EndOf(1) /\ Start(4) = EndOf(2) /\ 0 \in Seqs
    /\ \A k \in 1..4 : k = 1 \/ k = 2 \/ k = 3 \/ k = 4
    /\ Seqs \subseteq Nat
  <1>1. \A k \in 1..4 : k = 1 \/ k = 2 \/ k = 3 \/ k = 4
    OBVIOUS
  <1> DEFINE L(k) == Len(Flights[k])
  <1>2. /\ L(1) \in Nat \ {0} /\ L(2) \in Nat \ {0}
        /\ L(3) \in Nat \ {0} /\ L(4) \in Nat \ {0}
    BY FlightFacts
  <1> HIDE DEF L
  <1>3. /\ Start(1) = 0 /\ Start(2) = 0 /\ Start(3) = L(1) /\ Start(4) = L(2)
        /\ EndOf(1) = L(1) /\ EndOf(2) = L(2)
        /\ EndOf(3) = L(1) + L(3) /\ EndOf(4) = L(2) + L(4)
    <2>1. /\ Start(1) = 0 /\ Start(2) = 0 /\ Start(3) = L(1) /\ Start(4) = L(2)
      BY FlightFacts DEF L
    <2>2. /\ EndOf(1) = 0 + L(1) /\ EndOf(2) = 0 + L(2)
          /\ EndOf(3) = L(1) + L(3) /\ EndOf(4) = L(2) + L(4)
      BY <2>1, Zenon DEF EndOf, L
    <2> QED
      BY <1>2, <2>1, <2>2
  <1>4. MaxSeq = L(2) + L(4) + L(1) + L(3)
    <2>1. /\ LastFlight = 4 /\ LastFlight - 1 = 3
      BY FlightFacts
    <2> QED
      BY <1>3, <2>1, Zenon DEF MaxSeq, L
  <1>5. \A k \in 1..4 : Start(k) \in Nat /\ EndOf(k) \in Nat /\ Start(k) < EndOf(k)
    BY <1>1, <1>2, <1>3
  <1>6. Seqs = 0..(L(2) + L(4) + L(1) + L(3))
    BY <1>4 DEF Seqs
  <1>7. \A k \in 1..4 : SeqsOf(k) = Start(k)..EndOf(k) - 1
    <2> TAKE k \in 1..4
    <2>1. Start(k) \in Nat /\ Len(Flights[k]) \in Nat
      BY <1>5, FlightFacts
    <2>2. Start(k) + Len(Flights[k]) - 1 = EndOf(k) - 1
      BY <2>1 DEF EndOf
    <2> QED
      BY <2>2, Zenon DEF SeqsOf
  <1>8. \A k \in 1..4 : EndOf(k) <= L(2) + L(4) + L(1) + L(3)
    BY <1>1, <1>2, <1>3
  <1>9. \A k \in 1..4 : SeqsOf(k) \subseteq Seqs /\ EndOf(k) \in Seqs
    <2> DEFINE M == L(2) + L(4) + L(1) + L(3)
    <2>1. M \in Nat /\ Seqs = 0..M
      BY <1>2, <1>6
    <2> HIDE DEF M
    <2> TAKE k \in 1..4
    <2>2. Start(k) \in Nat /\ EndOf(k) \in Nat /\ EndOf(k) <= M
      BY <1>5, <1>8 DEF M
    <2>3. EndOf(k) \in Seqs
      BY <2>1, <2>2
    <2>4. Start(k)..EndOf(k) - 1 \subseteq 0..M
      BY <2>1, <2>2
    <2> QED
      BY <1>7, <2>1, <2>3, <2>4, Zenon
  <1>10. 0 \in Seqs /\ Seqs \subseteq Nat
    BY <1>2, <1>6
  <1>11. Start(3) = EndOf(1) /\ Start(4) = EndOf(2)
    BY <1>3
  <1> QED
    BY <1>1, <1>5, <1>7, <1>9, <1>10, <1>11

\* A peer's message is found by its number, its length is a number, and the
\* masks of its bytes are not NULL.
LEMMA MessageFacts ==
    ASSUME NEW k \in 1..4, NEW seq \in SeqsOf(k)
    PROVE  /\ FlightOf(Author(k), seq) = k
           /\ MsgLen(Author(k), seq) \in Nat
           /\ \A mask \in SUBSET Positions(MsgLen(Author(k), seq)) : mask # NULL
  <1>1. \A j \in 1..4 : Author(j) = Author(k) /\ seq \in SeqsOf(j) => j = k
    <2> TAKE j \in 1..4
    <2> HAVE Author(j) = Author(k) /\ seq \in SeqsOf(j)
    <2>1. /\ seq \in Start(k)..EndOf(k) - 1 /\ seq \in Start(j)..EndOf(j) - 1
          /\ k \in {1, 2, 3, 4} /\ j \in {1, 2, 3, 4}
      BY FlightSeqs
    <2>2. \/ {j, k} \subseteq {1, 3} \/ {j, k} \subseteq {2, 4}
      BY <2>1, FlightFacts, TwoPeers
    <2>3. EndOf(1) \in Nat /\ EndOf(2) \in Nat
      BY FlightSeqs
    <2>4. \/ {j, k} = {1, 3} \/ {j, k} = {2, 4} \/ j = k
      BY <2>2
    <2>5. ~(seq \in SeqsOf(1) /\ seq \in SeqsOf(3))
      <3>1. /\ SeqsOf(1) = Start(1)..EndOf(1) - 1 /\ SeqsOf(3) = EndOf(1)..EndOf(3) - 1
            /\ Start(1) \in Int /\ EndOf(3) \in Int
        BY FlightSeqs
      <3>2. seq \in SeqsOf(1) => seq <= EndOf(1) - 1 /\ seq \in Int
        BY <2>3, <3>1
      <3>3. seq \in SeqsOf(3) => EndOf(1) <= seq
        BY <2>3, <3>1
      <3> QED
        BY <2>3, <3>2, <3>3
    <2>6. ~(seq \in SeqsOf(2) /\ seq \in SeqsOf(4))
      <3>1. /\ SeqsOf(2) = Start(2)..EndOf(2) - 1 /\ SeqsOf(4) = EndOf(2)..EndOf(4) - 1
            /\ Start(2) \in Int /\ EndOf(4) \in Int
        BY FlightSeqs
      <3>2. seq \in SeqsOf(2) => seq <= EndOf(2) - 1 /\ seq \in Int
        BY <2>3, <3>1
      <3>3. seq \in SeqsOf(4) => EndOf(2) <= seq
        BY <2>3, <3>1
      <3> QED
        BY <2>3, <3>2, <3>3
    <2>7. CASE {j, k} = {1, 3}
      <3>1. j = k \/ (j = 1 /\ k = 3) \/ (j = 3 /\ k = 1)
        BY <2>7
      <3> QED
        BY <2>5, <3>1
    <2>8. CASE {j, k} = {2, 4}
      <3>1. j = k \/ (j = 2 /\ k = 4) \/ (j = 4 /\ k = 2)
        BY <2>8
      <3> QED
        BY <2>6, <3>1
    <2> QED
      BY <2>4, <2>7, <2>8
  <1>2. FlightOf(Author(k), seq) = k
    <2>1. FlightOf(Author(k), seq) =
            CHOOSE j \in 1..4 : Author(j) = Author(k) /\ seq \in SeqsOf(j)
      BY FlightFacts, Zenon DEF FlightOf
    <2> QED
      BY <1>1, <2>1
  <1>3. seq - Start(k) + 1 \in 1..Len(Flights[k])
    <2>1. /\ seq \in Start(k)..Start(k) + Len(Flights[k]) - 1
          /\ Start(k) \in Nat /\ Len(Flights[k]) \in Nat
      BY FlightFacts, FlightSeqs DEF SeqsOf
    <2> QED
      BY <2>1
  <1>4. MsgLen(Author(k), seq) = Flights[k][seq - Start(k) + 1]
    BY <1>2, Zenon DEF MsgLen
  <1>5. MsgLen(Author(k), seq) \in Nat
    <2> DEFINE i == seq - Start(k) + 1
    <2>1. i \in 1..Len(Flights[k]) /\ Flights[k] \in Seq(Nat)
      BY <1>3, FlightFacts
    <2> HIDE DEF i
    <2>2. Flights[k][i] \in Nat
      BY <2>1
    <2> QED
      BY <1>4, <2>2 DEF i
  <1>6. \A mask \in SUBSET Positions(MsgLen(Author(k), seq)) : mask # NULL
    <2>1. k \in 1..Len(Flights)
      BY FlightFacts DEF LastFlight
    <2> QED
      BY <1>3, <1>4, <2>1, HandshakeAssumption, Zenon DEF Positions
  <1> QED
    BY <1>2, <1>5, <1>6

\* How many messages a peer sends in all.
Total(p) == EndOf(IF Author(LastFlight) = p THEN LastFlight ELSE LastFlight - 1)

\* All of a peer's messages have lengths and masks.
LEMMA PeerMessages ==
    /\ Total(Client) = EndOf(3) /\ Total(Server) = EndOf(4)
    /\ \A p \in Peers : Total(p) \in Nat
    /\ \A p \in Peers : \A seq \in Nat : seq < Total(p) =>
         /\ \E k \in 1..4 : Author(k) = p /\ seq \in SeqsOf(k)
         /\ seq \in Seqs
         /\ MsgLen(p, seq) \in Nat
         /\ \A mask \in SUBSET Positions(MsgLen(p, seq)) : mask # NULL
  <1>1. Total(Client) = EndOf(3) /\ Total(Server) = EndOf(4)
    BY FlightFacts, TwoPeers DEF Total
  <1>2. \A p \in Peers : Total(p) \in Nat
    BY <1>1, TwoPeers, FlightSeqs
  <1>3. ASSUME NEW p \in Peers, NEW seq \in Nat, seq < Total(p)
        PROVE  \E k \in 1..4 : Author(k) = p /\ seq \in SeqsOf(k)
    <2>1. /\ 1 \in 1..4 /\ 2 \in 1..4 /\ 3 \in 1..4 /\ 4 \in 1..4
      OBVIOUS
    <2>2. /\ SeqsOf(1) = 0..EndOf(1) - 1 /\ SeqsOf(2) = 0..EndOf(2) - 1
          /\ SeqsOf(3) = EndOf(1)..EndOf(3) - 1
          /\ SeqsOf(4) = EndOf(2)..EndOf(4) - 1
      BY <2>1, FlightSeqs, FlightFacts
    <2>3. EndOf(1) \in Nat /\ EndOf(2) \in Nat /\ EndOf(3) \in Nat /\ EndOf(4) \in Nat
      BY <2>1, FlightSeqs
    <2>4. CASE p = Client
      <3>1. seq \in SeqsOf(1) \/ seq \in SeqsOf(3)
        BY <1>1, <1>3, <2>2, <2>3, <2>4
      <3> QED
        BY <2>1, <2>4, <3>1, FlightFacts
    <2>5. CASE p = Server
      <3>1. seq \in SeqsOf(2) \/ seq \in SeqsOf(4)
        BY <1>1, <1>3, <2>2, <2>3, <2>5
      <3> QED
        BY <2>1, <2>5, <3>1, FlightFacts
    <2> QED
      BY <2>4, <2>5, TwoPeers
  <1>4. ASSUME NEW p \in Peers, NEW seq \in Nat, seq < Total(p)
        PROVE  /\ seq \in Seqs /\ MsgLen(p, seq) \in Nat
               /\ \A mask \in SUBSET Positions(MsgLen(p, seq)) : mask # NULL
    <2>1. PICK k \in 1..4 : Author(k) = p /\ seq \in SeqsOf(k)
      BY <1>3, <1>4
    <2>2. seq \in Seqs
      BY <2>1, FlightSeqs
    <2> QED
      BY <2>1, <2>2, MessageFacts
  <1> QED
    BY <1>1, <1>2, <1>3, <1>4

\* dtls1_do_write: there is a fragment of every message, also of an empty
\* one, and no fragment leaves its message or the datagram.
LEMMA FragmentsFit ==
    ASSUME NEW p \in Peers, NEW seq \in Nat, seq < Total(p),
           NEW mtu \in {MTU, FALLBACK_MTU}
    PROVE  /\ Fragments(p, seq, mtu) \subseteq Fragment
           /\ \A f \in Fragments(p, seq, mtu) :
                f.seq = seq /\ f.off + f.len <= MsgLen(p, seq)
           /\ Fragments(p, seq, mtu) # {}
  <1> DEFINE len == MsgLen(p, seq)
             F == [seq |-> seq, off |-> 0, len |-> IF len = 0 THEN 0 ELSE 1]
  <1>1. seq \in Seqs /\ len \in Nat /\ mtu \in Nat \ {0} /\ mtu <= MTU /\ MTU \in Nat
    BY PeerMessages, Numbers
  <1>2. Fragments(p, seq, mtu) =
          {f \in [seq : {seq}, off : 0..len, len : 0..mtu] :
             f.off + f.len <= len /\ (f.len = 0 => len = 0)}
    BY Zenon DEF Fragments
  <1> HIDE DEF len
  <1>3. F \in [seq : {seq}, off : 0..len, len : 0..mtu]
    BY <1>1
  <1>4. F.off + F.len <= len /\ (F.len = 0 => len = 0)
    BY <1>1
  <1>5. \A f \in Fragments(p, seq, mtu) :
          f \in Fragment /\ f.seq = seq /\ f.off + f.len <= len
    BY <1>1, <1>2 DEF Fragment
  <1> QED
    BY <1>2, <1>3, <1>4, <1>5 DEF len

\* The flights alternate, and a peer's numbers go on from its flight before.
LEMMA Alternation ==
    /\ \A k \in 1..4 : Author(k) \in Peers
    /\ \A k \in 1..3 : /\ k + 1 \in 1..4
                       /\ \A p \in Peers : Author(k) = p <=> Author(k + 1) # p
    /\ \A k \in 2..3 : Start(k + 1) = EndOf(k - 1)
    /\ Start(2) = 0 /\ Start(1) = 0
    /\ \A p \in Peers : Author(4) = p => Total(p) = EndOf(4)
    /\ \A p \in Peers : Author(4) # p => Total(p) = EndOf(3)
    /\ \A p \in Peers : \A k \in 1..4 : Author(k) = p => EndOf(k) <= Total(p)
  <1>1. \A k \in 1..4 : k = 1 \/ k = 2 \/ k = 3 \/ k = 4
    OBVIOUS
  <1>2. /\ Author(1) = Client /\ Author(2) = Server
        /\ Author(3) = Client /\ Author(4) = Server
        /\ Client # Server /\ Peers = {Client, Server}
    BY FlightFacts, TwoPeers
  <1>3. \A k \in 1..4 : Author(k) \in Peers
    BY <1>1, <1>2
  <1>4. \A k \in 1..3 : /\ k + 1 \in 1..4
                        /\ \A p \in Peers : Author(k) = p <=> Author(k + 1) # p
    <2> TAKE k \in 1..3
    <2>1. k + 1 \in 1..4
      OBVIOUS
    <2>2. (k = 1 /\ k + 1 = 2) \/ (k = 2 /\ k + 1 = 3) \/ (k = 3 /\ k + 1 = 4)
      OBVIOUS
    <2> HIDE DEF Author
    <2> QED
      BY <1>2, <2>1, <2>2
  <1>5. \A k \in 2..3 : Start(k + 1) = EndOf(k - 1)
    <2> TAKE k \in 2..3
    <2>1. (k + 1 = 3 /\ k - 1 = 1) \/ (k + 1 = 4 /\ k - 1 = 2)
      OBVIOUS
    <2> QED
      BY <2>1, FlightSeqs
  <1>6. \A p \in Peers : Author(4) = p => Total(p) = EndOf(4)
    BY <1>2, PeerMessages
  <1>7. \A p \in Peers : Author(4) # p => Total(p) = EndOf(3)
    BY <1>2, PeerMessages
  <1>8. \A p \in Peers : \A k \in 1..4 : Author(k) = p => EndOf(k) <= Total(p)
    <2>1. /\ EndOf(1) \in Nat /\ EndOf(2) \in Nat /\ EndOf(3) \in Nat /\ EndOf(4) \in Nat
          /\ EndOf(1) < EndOf(3) /\ EndOf(2) < EndOf(4)
      <3>1. 1 \in 1..4 /\ 2 \in 1..4 /\ 3 \in 1..4 /\ 4 \in 1..4
        OBVIOUS
      <3> QED
        BY <3>1, FlightSeqs
    <2> TAKE p \in Peers
    <2> TAKE k \in 1..4
    <2> HAVE Author(k) = p
    <2>2. (p = Client /\ (k = 1 \/ k = 3)) \/ (p = Server /\ (k = 2 \/ k = 4))
      BY <1>1, <1>2
    <2> QED
      BY <2>1, <2>2, PeerMessages
  <1>9. Start(2) = 0 /\ Start(1) = 0
    BY FlightFacts
  <1> QED
    BY <1>3, <1>4, <1>5, <1>6, <1>7, <1>8, <1>9

-----------------------------------------------------------------------------
(***************************************************************************)
(* The invariant, connection by connection.                                *)
(***************************************************************************)

\* The state a peer may be in at its flight.
StatesOK(p, d) ==
    IF d.flight > 4
      THEN d.state \in {"done", "failed"}
      ELSE IF Author(d.flight) = p
             THEN d.state = "writing"
             ELSE d.state \in {"reading", "failed"}

\* Its counts.
CountsOK(d) ==
    /\ d.state = "writing" =>
         /\ d.write_seq \in SeqsOf(d.flight)
         /\ d.flight < 4 => d.read_seq = Start(d.flight + 1)
    /\ d.flight <= 4 /\ d.state # "writing" =>
         d.write_seq = IF d.flight = 1 THEN 0 ELSE EndOf(d.flight - 1)
    /\ d.state = "reading" => d.read_seq \in SeqsOf(d.flight)

\* What it has kept.
KeptOK(p, d) ==
    /\ d.state = "writing" =>
         d.sent = Start(d.flight)..d.write_seq - 1 /\ d.num_alerts = 0
    /\ d.flight <= 4 /\ d.state # "writing" =>
         IF d.flight = 1 THEN d.sent = {}
                         ELSE d.sent = SeqsOf(d.flight - 1) /\ d.timer
    /\ d.flight > 4 => d.sent = IF Author(4) = p THEN SeqsOf(4) ELSE {}

LocalOK(p, d) ==
    /\ d \in Connection
    /\ d.state # "failed" => d.num_alerts <= ALERT_COUNT
    /\ StatesOK(p, d)
    /\ CountsOK(d)
    /\ KeptOK(p, d)

\* How many messages it has numbered.
Num(p, d) == IF d.flight <= 4 THEN d.write_seq ELSE Total(p)

\* What is buffered of message m, of length len.
WholeOK(b, len) ==
    IF b.reassembly = NULL
      THEN b.got = Positions(len)
      ELSE /\ b.reassembly = b.got
           /\ b.got \subseteq Positions(len)
           /\ b.got # Positions(len)

\* What peer p has buffered, of the n messages that the other has numbered.
BufferOK(p, d, n) ==
    \A m \in Seqs :
      d.buffered[m] # NULL =>
        /\ m < n /\ m <= d.read_seq + WINDOW
        /\ WholeOK(d.buffered[m], MsgLen(Other(p), m))

\* The fragments of peer p's messages, of which it has numbered n.
FragmentsOK(N, p, n) ==
    /\ N \subseteq Fragment
    /\ {f.seq : f \in N} = 0..n - 1
    /\ \A f \in N : f.off + f.len <= MsgLen(p, f.seq)

\* The flights that p and the other peer are at.
TurnsOK(p, k, l) ==
    /\ k <= 4 /\ Author(k) = p => l = k
    /\ k - l \in {-1, 0, 1}

PeersOK ==
    /\ DOMAIN peer = Peers /\ peer = [p \in Peers |-> peer[p]]
    /\ \A p \in Peers :
         /\ LocalOK(p, peer[p])
         /\ BufferOK(p, peer[p], Num(Other(p), peer[Other(p)]))
         /\ TurnsOK(p, peer[p].flight, peer[Other(p)].flight)

IInv ==
    /\ PeersOK
    /\ DOMAIN net = Peers /\ net = [p \in Peers |-> net[p]]
    /\ \A p \in Peers : FragmentsOK(net[Other(p)], p, Num(p, peer[p]))

\* The fields of a connection.
LEMMA ConnFields ==
    ASSUME NEW d \in Connection
    PROVE  /\ d.flight \in 1..5 /\ d.read_seq \in Seqs /\ d.write_seq \in Seqs
           /\ d.read_seq \in Nat /\ d.write_seq \in Nat
           /\ d.buffered \in [Seqs -> Buffered \cup {NULL}]
           /\ d.sent \in SUBSET Seqs /\ d.timer \in BOOLEAN
           /\ d.num_alerts \in 0..ALERT_COUNT + 1
           /\ d.mtu \in {MTU, FALLBACK_MTU}
           /\ d.state \in {"writing", "reading", "done", "failed"}
  <1>1. LastFlight + 1 = 5 /\ Seqs \subseteq Nat
    BY FlightFacts, FlightSeqs
  <1> QED
    BY <1>1 DEF Connection

\* A peer has numbered at most all its messages, and keeps only such as it
\* has numbered.
LEMMA NumFacts ==
    ASSUME NEW p \in Peers, NEW d, LocalOK(p, d)
    PROVE  /\ Num(p, d) \in Nat /\ Num(p, d) <= Total(p) /\ Num(p, d) \in Seqs \cup {Total(p)}
           /\ \A m \in d.sent : m \in Nat /\ m < Num(p, d)
  <1> DEFINE k == d.flight
  <1>1. /\ d \in Connection /\ k \in 1..5 /\ d.write_seq \in Nat /\ d.write_seq \in Seqs
        /\ Total(p) \in Nat
    BY ConnFields, PeerMessages DEF LocalOK
  <1>2. CASE k > 4
    <2>1. k = 5 /\ Num(p, d) = Total(p)
      BY <1>1, <1>2 DEF Num
    <2>2. d.sent = IF Author(4) = p THEN SeqsOf(4) ELSE {}
      BY <1>2 DEF LocalOK, KeptOK
    <2>3. Author(4) = p => SeqsOf(4) = Start(4)..EndOf(4) - 1 /\ Total(p) = EndOf(4)
          /\ Start(4) \in Nat
      BY Alternation, FlightSeqs
    <2> QED
      BY <1>1, <2>1, <2>2, <2>3
  <1>3. CASE k <= 4 /\ Author(k) = p
    <2>1. k \in 1..4 /\ Num(p, d) = d.write_seq /\ d.state = "writing"
      BY <1>1, <1>3 DEF Num, LocalOK, StatesOK
    <2>2. /\ d.write_seq \in SeqsOf(k) /\ d.sent = Start(k)..d.write_seq - 1
      BY <2>1 DEF LocalOK, CountsOK, KeptOK
    <2>3. /\ SeqsOf(k) = Start(k)..EndOf(k) - 1 /\ Start(k) \in Nat /\ EndOf(k) \in Nat
          /\ EndOf(k) <= Total(p)
      BY <1>3, <2>1, Alternation, FlightSeqs
    <2> QED
      BY <1>1, <2>1, <2>2, <2>3
  <1>4. CASE k <= 4 /\ Author(k) # p
    <2>1. k \in 1..4 /\ Num(p, d) = d.write_seq /\ d.state # "writing"
      BY <1>1, <1>4 DEF Num, LocalOK, StatesOK
    <2>2. /\ d.write_seq = IF k = 1 THEN 0 ELSE EndOf(k - 1)
          /\ d.sent = IF k = 1 THEN {} ELSE SeqsOf(k - 1)
      BY <1>4, <2>1 DEF LocalOK, CountsOK, KeptOK
    <2>3. CASE k = 1
      BY <1>1, <2>1, <2>2, <2>3
    <2>4. CASE k # 1
      <3>1. k - 1 \in 1..3 /\ k - 1 \in 1..4 /\ (k - 1) + 1 = k
        BY <2>1, <2>4
      <3>2. Author(k - 1) = p
        <4>1. Author(k - 1) = p <=> Author((k - 1) + 1) # p
          BY <3>1, Alternation
        <4> QED
          BY <1>4, <3>1, <4>1
      <3>3. /\ SeqsOf(k - 1) = Start(k - 1)..EndOf(k - 1) - 1
            /\ Start(k - 1) \in Nat /\ EndOf(k - 1) \in Nat
            /\ EndOf(k - 1) <= Total(p)
        BY <3>1, <3>2, Alternation, FlightSeqs
      <3> HIDE DEF k
      <3> QED
        BY <1>1, <2>1, <2>2, <2>4, <3>3
    <2> QED
      BY <2>3, <2>4
  <1> QED
    BY <1>1, <1>2, <1>3, <1>4

\* A step of one peer keeps the invariant if it leaves its own connection in
\* order and what it sends belongs to messages that it has numbered.
LEMMA OneConnection ==
    ASSUME IInv, NEW p \in Peers, NEW e,
           peer' = [peer EXCEPT ![p] = e],
           net' = [net EXCEPT ![Other(p)] = net'[Other(p)]],
           LocalOK(p, e),
           BufferOK(p, e, Num(Other(p), peer[Other(p)])),
           Num(p, peer[p]) <= Num(p, e),
           TurnsOK(p, e.flight, peer[Other(p)].flight),
           TurnsOK(Other(p), peer[Other(p)].flight, e.flight),
           FragmentsOK(net'[Other(p)], p, Num(p, e))
    PROVE  IInv'
  <1> DEFINE q == Other(p)
  <1>1. q \in Peers /\ q # p /\ Other(q) = p /\ \A x \in Peers : x = p \/ x = q
    BY OtherFacts
  <1>2. /\ DOMAIN peer = Peers /\ peer = [x \in Peers |-> peer[x]]
        /\ DOMAIN net = Peers /\ net = [x \in Peers |-> net[x]]
    BY DEF IInv, PeersOK
  <1>3. /\ DOMAIN peer' = Peers /\ peer' = [x \in Peers |-> peer'[x]]
        /\ peer'[p] = e /\ peer'[q] = peer[q]
    BY <1>1, <1>2
  <1>4. /\ DOMAIN net' = Peers /\ net' = [x \in Peers |-> net'[x]]
        /\ net'[p] = net[p]
    BY <1>1, <1>2
  <1>5. LocalOK(q, peer[q]) /\ FragmentsOK(net[p], q, Num(q, peer[q]))
    BY <1>1 DEF IInv, PeersOK
  <1>6. BufferOK(q, peer[q], Num(p, e))
    <2>1. BufferOK(q, peer[q], Num(p, peer[p]))
      BY <1>1 DEF IInv, PeersOK
    <2>2. LocalOK(p, peer[p])
      BY DEF IInv, PeersOK
    <2>3. Num(p, peer[p]) \in Nat /\ Num(p, e) \in Nat /\ Seqs \subseteq Nat
      BY <2>2, NumFacts, FlightSeqs
    <2>4. \A m \in Seqs : m < Num(p, peer[p]) => m < Num(p, e)
      BY <2>3
    <2> QED
      BY <2>1, <2>4 DEF BufferOK
  <1>7. PeersOK'
    <2>1. \A x \in Peers :
            /\ LocalOK(x, peer'[x])
            /\ BufferOK(x, peer'[x], Num(Other(x), peer'[Other(x)]))
            /\ TurnsOK(x, peer'[x].flight, peer'[Other(x)].flight)
      BY <1>1, <1>3, <1>5, <1>6
    <2> QED
      BY <1>3, <2>1 DEF PeersOK
  <1>8. \A x \in Peers : FragmentsOK(net'[Other(x)], x, Num(x, peer'[x]))
    BY <1>1, <1>3, <1>4, <1>5
  <1> QED
    BY <1>4, <1>7, <1>8 DEF IInv

-----------------------------------------------------------------------------
(***************************************************************************)
(* Sending.                                                                *)
(***************************************************************************)

\* The fragments of more messages.
LEMMA MoreFragments ==
    ASSUME NEW p \in Peers, NEW N, NEW n \in Nat, NEW m \in Nat, n <= m,
           FragmentsOK(N, p, n), NEW G \in SUBSET Fragment,
           \A f \in G : f.seq < m /\ f.off + f.len <= MsgLen(p, f.seq),
           \A x \in n..m - 1 : \E f \in G : f.seq = x
    PROVE  FragmentsOK(N \cup G, p, m)
  <1>1. /\ N \subseteq Fragment /\ {f.seq : f \in N} = 0..n - 1
        /\ \A f \in N : f.off + f.len <= MsgLen(p, f.seq)
    BY DEF FragmentsOK
  <1>2. \A f \in Fragment : f.seq \in Nat
    BY FlightSeqs DEF Fragment
  <1>3. ASSUME NEW f \in N \cup G PROVE f.seq \in 0..m - 1
    <2>1. CASE f \in N
      <3>1. f.seq \in 0..n - 1
        BY <1>1, <2>1
      <3>2. 0..n - 1 \subseteq 0..m - 1
        OBVIOUS
      <3> QED
        BY <3>1, <3>2, Zenon
    <2>2. CASE f \in G
      BY <1>2, <2>2
    <2> QED
      BY <1>3, <2>1, <2>2
  <1>4. ASSUME NEW x \in 0..m - 1 PROVE \E f \in N \cup G : f.seq = x
    <2>1. CASE x < n
      <3>1. x \in 0..n - 1
        BY <2>1
      <3>2. x \in {f.seq : f \in N}
        BY <1>1, <3>1, Zenon
      <3> QED
        BY <3>2, Zenon
    <2>2. CASE ~(x < n)
      <3>1. x \in n..m - 1
        BY <2>2
      <3> QED
        BY <3>1
    <2> QED
      BY <2>1, <2>2
  <1>5. {f.seq : f \in N \cup G} = 0..m - 1
    BY <1>3, <1>4, Zenon
  <1> QED
    BY <1>1, <1>5 DEF FragmentsOK

\* dtls1_retransmit_buffered_messages sends fragments of messages that are
\* numbered.
LEMMA RetransmitOK ==
    ASSUME NEW p \in Peers, NEW d, LocalOK(p, d), NEW N,
           FragmentsOK(N, p, Num(p, d))
    PROVE  FragmentsOK(N \cup UNION {Fragments(p, seq, d.mtu) : seq \in d.sent},
                       p, Num(p, d))
  <1> DEFINE G == UNION {Fragments(p, seq, d.mtu) : seq \in d.sent}
             n == Num(p, d)
  <1>1. /\ n \in Nat /\ n <= Total(p) /\ Total(p) \in Nat
        /\ \A m \in d.sent : m \in Nat /\ m < n
    BY NumFacts, PeerMessages
  <1>2. d.mtu \in {MTU, FALLBACK_MTU}
    BY ConnFields DEF LocalOK
  <1> HIDE DEF n
  <1>3. \A m \in d.sent : /\ Fragments(p, m, d.mtu) \subseteq Fragment
                          /\ \A f \in Fragments(p, m, d.mtu) :
                               f.seq = m /\ f.off + f.len <= MsgLen(p, m)
    <2> TAKE m \in d.sent
    <2>1. m \in Nat /\ m < Total(p)
      BY <1>1
    <2> QED
      BY <1>2, <2>1, FragmentsFit
  <1>4. /\ G \in SUBSET Fragment
        /\ \A f \in G : f.seq < n /\ f.off + f.len <= MsgLen(p, f.seq)
    BY <1>1, <1>3
  <1> HIDE DEF G
  <1>5. \A x \in n..n - 1 : \E f \in G : f.seq = x
    BY <1>1
  <1>6. FragmentsOK(N, p, n)
    BY DEF n
  <1>7. FragmentsOK(N \cup G, p, n)
    BY <1>1, <1>4, <1>5, <1>6, MoreFragments
  <1> QED
    BY <1>7 DEF G, n

\* dtls1_check_timeout_num changes no count and gives nothing up.
LEMMA CheckTimeout ==
    ASSUME NEW p \in Peers, NEW d, LocalOK(p, d), d.state \in {"reading", "done"}
    PROVE  LET e == dtls1_check_timeout_num(d)
           IN  /\ LocalOK(p, e) /\ Num(p, e) = Num(p, d)
               /\ e.flight = d.flight /\ e.read_seq = d.read_seq
               /\ e.buffered = d.buffered
  <1> DEFINE e == dtls1_check_timeout_num(d)
             n == d.num_alerts + 1
             mtu == IF n > MTU_ALERTS THEN FALLBACK_MTU ELSE d.mtu
             state == IF n > ALERT_COUNT THEN "failed" ELSE d.state
  <1>1. /\ d \in Connection /\ d.num_alerts \in 0..ALERT_COUNT + 1
        /\ d.num_alerts <= ALERT_COUNT /\ ALERT_COUNT \in Nat
        /\ d.mtu \in {MTU, FALLBACK_MTU}
    BY ConnFields, Numbers DEF LocalOK
  <1>2. /\ n \in 0..ALERT_COUNT + 1 /\ mtu \in {MTU, FALLBACK_MTU}
        /\ state \in {"writing", "reading", "done", "failed"}
        /\ state # "failed" => n <= ALERT_COUNT /\ state = d.state
        /\ state \in {"failed", d.state}
    BY <1>1
  <1>3. e = [d EXCEPT !.num_alerts = n, !.mtu = mtu, !.state = state]
    BY DEF dtls1_check_timeout_num
  <1> HIDE DEF n, mtu, state, e
  <1>4. /\ e \in Connection /\ e.num_alerts = n /\ e.mtu = mtu /\ e.state = state
        /\ e.flight = d.flight /\ e.read_seq = d.read_seq
        /\ e.write_seq = d.write_seq /\ e.buffered = d.buffered
        /\ e.sent = d.sent /\ e.timer = d.timer
    BY <1>1, <1>2, <1>3 DEF Connection
  <1>5. StatesOK(p, e)
    BY <1>2, <1>4 DEF LocalOK, StatesOK
  <1>6. CountsOK(e)
    BY <1>2, <1>4 DEF LocalOK, CountsOK
  <1>7. KeptOK(p, e)
    BY <1>2, <1>4 DEF LocalOK, KeptOK
  <1>8. LocalOK(p, e)
    BY <1>2, <1>4, <1>5, <1>6, <1>7 DEF LocalOK
  <1>9. Num(p, e) = Num(p, d)
    BY <1>4 DEF Num
  <1> QED
    BY <1>4, <1>8, <1>9 DEF e

\* dtls1_handle_timeout, and the answer to a repeated Finished.
LEMMA TimeoutStep ==
    ASSUME IInv, NEW p \in Peers, peer[p].state \in {"reading", "done"},
           peer' = [peer EXCEPT ![p] = dtls1_check_timeout_num(peer[p])],
           Retransmit(p, dtls1_check_timeout_num(peer[p]))
    PROVE  IInv'
  <1> DEFINE q == Other(p)
             d == peer[p]
             e == dtls1_check_timeout_num(d)
  <1>1. q \in Peers /\ Other(q) = p
    BY OtherFacts
  <1>2. /\ LocalOK(p, d) /\ BufferOK(p, d, Num(q, peer[q]))
        /\ TurnsOK(p, d.flight, peer[q].flight)
        /\ TurnsOK(q, peer[q].flight, d.flight)
        /\ FragmentsOK(net[q], p, Num(p, d))
        /\ net = [x \in Peers |-> net[x]] /\ DOMAIN net = Peers
    BY <1>1 DEF IInv, PeersOK
  <1>3. /\ LocalOK(p, e) /\ Num(p, e) = Num(p, d)
        /\ e.flight = d.flight /\ e.read_seq = d.read_seq
        /\ e.buffered = d.buffered
    BY <1>2, CheckTimeout
  <1>4. net' = [net EXCEPT ![q] = net'[q]] /\ FragmentsOK(net'[q], p, Num(p, e))
    <2>1. CASE e.state = "failed"
      <3>1. net' = net
        BY <2>1 DEF Retransmit
      <3> HIDE DEF e
      <3> QED
        BY <1>1, <1>2, <1>3, <3>1
    <2>2. CASE e.state # "failed"
      <3> DEFINE G == UNION {Fragments(p, seq, e.mtu) : seq \in e.sent}
      <3>1. net' = [net EXCEPT ![q] = @ \cup G]
        BY <2>2 DEF Retransmit
      <3>2. FragmentsOK(net[q] \cup G, p, Num(p, e))
        BY <1>2, <1>3, RetransmitOK
      <3> HIDE DEF G, e
      <3> QED
        BY <1>1, <1>2, <3>1, <3>2
    <2> QED
      BY <2>1, <2>2
  <1>5. BufferOK(p, e, Num(q, peer[q]))
    BY <1>2, <1>3 DEF BufferOK
  <1>6. Num(p, d) <= Num(p, e)
    BY <1>2, <1>3, NumFacts
  <1>7. peer' = [peer EXCEPT ![p] = e]
    OBVIOUS
  <1> HIDE DEF e
  <1> QED
    BY <1>2, <1>3, <1>4, <1>5, <1>6, <1>7, OneConnection

\* tls_finish_handshake, of a peer that is past the last flight.
LEMMA EndHandshakeFields ==
    ASSUME NEW d \in Connection
    PROVE  LET e == EndHandshake(d)
           IN  /\ e \in Connection /\ e.state = "done"
               /\ e.read_seq = 0 /\ e.write_seq = 0 /\ e.flight = d.flight
               /\ \A m \in Seqs : e.buffered[m] = NULL
               /\ e.sent = d.sent /\ e.num_alerts = d.num_alerts
               /\ e.timer = d.timer
  <1> DEFINE B == [m \in Seqs |-> NULL]
             e == [d EXCEPT !.state = "done", !.read_seq = 0, !.write_seq = 0,
                            !.buffered = B]
  <1>1. B \in [Seqs -> Buffered \cup {NULL}] /\ \A m \in Seqs : B[m] = NULL
    OBVIOUS
  <1>2. 0 \in Seqs
    BY FlightSeqs
  <1>3. EndHandshake(d) = e
    BY DEF EndHandshake
  <1> HIDE DEF B
  <1>4. /\ e \in Connection /\ e.state = "done"
        /\ e.read_seq = 0 /\ e.write_seq = 0 /\ e.flight = d.flight
        /\ e.buffered = B /\ e.sent = d.sent /\ e.num_alerts = d.num_alerts
        /\ e.timer = d.timer
    BY <1>1, <1>2 DEF Connection
  <1> HIDE DEF e
  <1> QED
    BY <1>1, <1>3, <1>4

\* A message that is not the last of its flight.
LEMMA WriteMore ==
    ASSUME NEW p \in Peers, NEW d, LocalOK(p, d), d.state = "writing",
           NEW e, e \in Connection,
           d.write_seq + 1 \in SeqsOf(d.flight),
           e.write_seq = d.write_seq + 1, e.sent = d.sent \cup {d.write_seq},
           e.state = "writing", e.flight = d.flight, e.read_seq = d.read_seq,
           e.num_alerts = d.num_alerts
    PROVE  LocalOK(p, e) /\ Num(p, e) = Num(p, d) + 1
  <1>1. /\ d \in Connection /\ d.flight \in 1..5 /\ d.write_seq \in Nat
    BY ConnFields DEF LocalOK
  <1>2. d.flight \in 1..4 /\ Author(d.flight) = p
    BY <1>1 DEF LocalOK, StatesOK
  <1>3. /\ d.write_seq \in SeqsOf(d.flight)
        /\ SeqsOf(d.flight) = Start(d.flight)..EndOf(d.flight) - 1
        /\ Start(d.flight) \in Nat /\ EndOf(d.flight) \in Nat
    BY <1>2, FlightSeqs DEF LocalOK, CountsOK
  <1>4. StatesOK(p, e)
    BY <1>2 DEF StatesOK
  <1>5. CountsOK(e)
    BY <1>2 DEF LocalOK, CountsOK
  <1>6. KeptOK(p, e)
    <2>1. d.sent = Start(d.flight)..d.write_seq - 1 /\ e.num_alerts = 0
      BY DEF LocalOK, KeptOK
    <2>2. d.sent \cup {d.write_seq} = Start(d.flight)..(d.write_seq + 1) - 1
      BY <1>1, <1>3, <2>1
    <2> QED
      BY <1>2, <2>1, <2>2 DEF KeptOK
  <1>7. Num(p, e) = Num(p, d) + 1
    BY <1>2 DEF Num
  <1> QED
    BY <1>4, <1>5, <1>6, <1>7 DEF LocalOK

\* The last message of a flight: the peer reads the answer, or is done.
LEMMA WriteLast ==
    ASSUME NEW p \in Peers, NEW d, LocalOK(p, d), d.state = "writing",
           NEW e, e \in Connection,
           d.write_seq = EndOf(d.flight) - 1,
           e.flight = d.flight + 1, e.sent = d.sent \cup {d.write_seq},
           e.num_alerts = d.num_alerts,
           d.flight < 4 => /\ e.state = "reading" /\ e.timer
                           /\ e.write_seq = d.write_seq + 1
                           /\ e.read_seq = d.read_seq,
           d.flight = 4 => e.state = "done"
    PROVE  LocalOK(p, e) /\ Num(p, e) = Num(p, d) + 1
  <1> DEFINE k == d.flight
  <1>1. /\ d \in Connection /\ k \in 1..5 /\ d.write_seq \in Nat
    BY ConnFields DEF LocalOK
  <1>2. k \in 1..4 /\ Author(k) = p /\ e.flight = k + 1
    BY <1>1 DEF LocalOK, StatesOK
  <1>3. /\ SeqsOf(k) = Start(k)..EndOf(k) - 1
        /\ Start(k) \in Nat /\ EndOf(k) \in Nat /\ Start(k) < EndOf(k)
    BY <1>2, FlightSeqs
  <1>4. e.sent = SeqsOf(k)
    <2>1. d.sent = Start(k)..d.write_seq - 1
      BY DEF LocalOK, KeptOK
    <2>2. d.sent \cup {d.write_seq} = Start(k)..EndOf(k) - 1
      BY <1>1, <1>3, <2>1
    <2> QED
      BY <1>3, <2>2
  <1>5. CASE k < 4
    <2>1. /\ k \in 1..3 /\ k + 1 \in 1..4 /\ k + 1 # 1 /\ (k + 1) - 1 = k
          /\ ~(k + 1 > 4) /\ k + 1 <= 4
      BY <1>2, <1>5
    <2>2. Author(k + 1) # p
      BY <1>2, <2>1, Alternation
    <2>3. /\ e.state = "reading" /\ e.timer /\ e.write_seq = d.write_seq + 1
          /\ e.read_seq = d.read_seq /\ d.read_seq = Start(k + 1)
      BY <1>5 DEF LocalOK, CountsOK
    <2>4. e.write_seq = EndOf(k)
      BY <1>3, <2>3
    <2>5. e.read_seq \in SeqsOf(k + 1)
      <3>1. /\ SeqsOf(k + 1) = Start(k + 1)..EndOf(k + 1) - 1
            /\ Start(k + 1) \in Nat /\ EndOf(k + 1) \in Nat
            /\ Start(k + 1) < EndOf(k + 1)
        BY <2>1, FlightSeqs
      <3> QED
        BY <2>3, <3>1
    <2> HIDE DEF k
    <2>6. StatesOK(p, e)
      BY <1>2, <2>1, <2>2, <2>3 DEF StatesOK
    <2>7. CountsOK(e)
      BY <1>2, <2>1, <2>3, <2>4, <2>5 DEF CountsOK
    <2>8. KeptOK(p, e)
      BY <1>2, <1>4, <2>1, <2>3 DEF KeptOK
    <2>9. Num(p, e) = Num(p, d) + 1
      BY <1>2, <1>5, <2>1, <2>3 DEF Num, k
    <2>10. e.num_alerts <= ALERT_COUNT
      BY DEF LocalOK
    <2> QED
      BY <2>6, <2>7, <2>8, <2>9, <2>10 DEF LocalOK
  <1>6. CASE k = 4
    <2>1. e.flight = 5 /\ e.state = "done" /\ Author(4) = p
      BY <1>2, <1>6
    <2>2. StatesOK(p, e) /\ CountsOK(e) /\ KeptOK(p, e)
      BY <1>4, <1>6, <2>1 DEF StatesOK, CountsOK, KeptOK
    <2>3. Num(p, e) = Num(p, d) + 1
      <3>1. Num(p, e) = EndOf(4) /\ Num(p, d) = d.write_seq
        BY <1>6, <2>1, Alternation DEF Num
      <3> QED
        BY <1>3, <1>6, <3>1
    <2>4. e.num_alerts <= ALERT_COUNT
      BY DEF LocalOK
    <2> QED
      BY <2>2, <2>3, <2>4 DEF LocalOK
  <1> QED
    BY <1>2, <1>5, <1>6

\* write_state_machine, for one message.
LEMMA WriteMessageStep ==
    ASSUME IInv, NEW p \in Peers, WriteMessage(p)
    PROVE  IInv'
  <1> DEFINE q == Other(p)
             d == peer[p]
             k == d.flight
             seq == d.write_seq
             t == d.timer \/ UseTimer(k)
             isLast == seq = Start(k) + Len(Flights[k]) - 1
             e == [d EXCEPT !.write_seq = seq + 1, !.sent = @ \cup {seq}, !.timer = t]
             g == [e EXCEPT !.flight = @ + 1]
             r == [e EXCEPT !.state = "reading", !.flight = @ + 1]
             c == IF ~isLast THEN e
                  ELSE IF k = LastFlight THEN EndHandshake(g) ELSE r
             G == Fragments(p, seq, d.mtu)
  <1>1. q \in Peers /\ q # p /\ Other(q) = p
    BY OtherFacts
  <1>2. /\ LocalOK(p, d) /\ BufferOK(p, d, Num(q, peer[q]))
        /\ TurnsOK(p, k, peer[q].flight) /\ LocalOK(q, peer[q])
        /\ FragmentsOK(net[q], p, Num(p, d))
        /\ net = [x \in Peers |-> net[x]] /\ DOMAIN net = Peers
    BY <1>1 DEF IInv, PeersOK
  <1>3. /\ d.state = "writing"
        /\ net' = [net EXCEPT ![q] = @ \cup G]
        /\ peer' = [peer EXCEPT ![p] = c]
    BY Zenon DEF WriteMessage
  <1>4. /\ d \in Connection /\ k \in 1..5 /\ seq \in Nat /\ seq \in Seqs
        /\ d.mtu \in {MTU, FALLBACK_MTU} /\ d.timer \in BOOLEAN /\ LastFlight = 4
        /\ d.sent \in SUBSET Seqs
    BY <1>2, ConnFields, FlightFacts DEF LocalOK
  <1>5. k \in 1..4 /\ Author(k) = p /\ peer[q].flight = k
    <2>1. k <= 4 /\ Author(k) = p
      BY <1>2, <1>3, <1>4 DEF LocalOK, StatesOK
    <2> QED
      BY <1>2, <1>4, <2>1 DEF TurnsOK
  <1>6. /\ seq \in Start(k)..EndOf(k) - 1 /\ SeqsOf(k) = Start(k)..EndOf(k) - 1
        /\ Start(k) \in Nat /\ EndOf(k) \in Nat
        /\ seq + 1 \in Seqs /\ EndOf(k) <= Total(p)
    <2>1. seq \in SeqsOf(k)
      BY <1>2, <1>3 DEF LocalOK, CountsOK
    <2>2. /\ SeqsOf(k) = Start(k)..EndOf(k) - 1 /\ SeqsOf(k) \subseteq Seqs
          /\ EndOf(k) \in Seqs /\ Start(k) \in Nat /\ EndOf(k) \in Nat
      BY <1>5, FlightSeqs
    <2>3. seq + 1 \in SeqsOf(k) \/ seq + 1 = EndOf(k)
      BY <1>4, <2>1, <2>2
    <2> QED
      BY <1>5, <2>1, <2>2, <2>3, Alternation
  <1>7. isLast <=> seq = EndOf(k) - 1
    <2>1. Start(k) \in Nat /\ Len(Flights[k]) \in Nat
      BY <1>5, <1>6, FlightFacts
    <2>2. Start(k) + Len(Flights[k]) - 1 = EndOf(k) - 1
      BY <2>1 DEF EndOf
    <2> QED
      BY <2>2
  <1>8. t \in BOOLEAN /\ (k < 4 => t)
    BY <1>4 DEF UseTimer
  <1> HIDE DEF t, isLast
  <1>9. /\ e \in Connection /\ e.write_seq = seq + 1 /\ e.sent = d.sent \cup {seq}
        /\ e.timer = t /\ e.state = "writing" /\ e.flight = k
        /\ e.read_seq = d.read_seq /\ e.num_alerts = d.num_alerts
        /\ e.buffered = d.buffered
    <2>1. d.sent \cup {seq} \in SUBSET Seqs
      BY <1>4
    <2> QED
      BY <1>3, <1>4, <1>6, <1>8, <2>1 DEF Connection
  <1> HIDE DEF e
  <1>10. LocalOK(p, c) /\ Num(p, c) = Num(p, d) + 1
         /\ c.flight \in {k, k + 1} /\ BufferOK(p, c, Num(q, peer[q]))
    <2>1. CASE ~isLast
      <3>1. c = e
        BY <2>1
      <3>2. seq + 1 \in SeqsOf(k)
        BY <1>4, <1>6, <1>7, <2>1
      <3>3. LocalOK(p, e) /\ Num(p, e) = Num(p, d) + 1
        BY <1>2, <1>3, <1>9, <3>2, WriteMore
      <3>4. BufferOK(p, e, Num(q, peer[q]))
        BY <1>2, <1>9 DEF BufferOK
      <3> QED
        BY <1>9, <3>1, <3>3, <3>4
    <2>2. CASE isLast /\ k = 4
      <3>1. c = EndHandshake(g)
        BY <1>4, <2>2
      <3>2. /\ g \in Connection /\ g.flight = k + 1 /\ g.sent = e.sent
            /\ g.num_alerts = e.num_alerts
        <4>1. k + 1 \in 1..LastFlight + 1
          BY <1>4, <1>5
        <4> QED
          BY <1>9, <4>1 DEF Connection
      <3> HIDE DEF g, c
      <3>3. /\ c \in Connection /\ c.state = "done" /\ c.flight = g.flight
            /\ c.sent = g.sent /\ c.num_alerts = g.num_alerts
            /\ \A m \in Seqs : c.buffered[m] = NULL
        BY <3>1, <3>2, EndHandshakeFields
      <3>4. LocalOK(p, c) /\ Num(p, c) = Num(p, d) + 1
        BY <1>2, <1>3, <1>7, <1>9, <2>2, <3>2, <3>3, WriteLast
      <3>5. BufferOK(p, c, Num(q, peer[q]))
        BY <3>3 DEF BufferOK
      <3> QED
        BY <3>2, <3>3, <3>4, <3>5
    <2>3. CASE isLast /\ k # 4
      <3>1. c = r
        BY <1>4, <2>3
      <3>2. /\ r \in Connection /\ r.flight = k + 1 /\ r.sent = e.sent
            /\ r.num_alerts = e.num_alerts /\ r.state = "reading"
            /\ r.timer = e.timer /\ r.write_seq = e.write_seq
            /\ r.read_seq = e.read_seq /\ r.buffered = e.buffered
        <4>1. k + 1 \in 1..LastFlight + 1
          BY <1>4, <1>5
        <4> QED
          BY <1>9, <4>1 DEF Connection
      <3> HIDE DEF r, c
      <3>3. k < 4 /\ r.timer
        BY <1>5, <1>8, <1>9, <2>3, <3>2
      <3>4. LocalOK(p, r) /\ Num(p, r) = Num(p, d) + 1
        BY <1>2, <1>3, <1>7, <1>9, <2>3, <3>2, <3>3, WriteLast
      <3>5. BufferOK(p, r, Num(q, peer[q]))
        BY <1>2, <1>9, <3>2 DEF BufferOK
      <3> QED
        BY <3>1, <3>2, <3>4, <3>5
    <2> QED
      BY <2>1, <2>2, <2>3
  <1> HIDE DEF c
  <1>11. TurnsOK(p, c.flight, peer[q].flight) /\ TurnsOK(q, peer[q].flight, c.flight)
    <2>1. c.flight = k \/ (c.flight = k + 1 /\ (k + 1 <= 4 => Author(k + 1) # p))
      <3>1. k + 1 <= 4 => Author(k + 1) # p
        <4>1. k + 1 <= 4 => k \in 1..3
          BY <1>5
        <4> QED
          BY <1>5, <4>1, Alternation
      <3> QED
        BY <1>10, <3>1
    <2>2. Author(k) # q
      BY <1>1, <1>5
    <2> QED
      BY <1>5, <2>1, <2>2 DEF TurnsOK
  <1>12. Num(p, d) = seq /\ Num(p, c) = seq + 1 /\ Num(p, d) <= Num(p, c)
    BY <1>4, <1>5, <1>10 DEF Num
  <1>13. FragmentsOK(net[q] \cup G, p, Num(p, c))
    <2>1. seq < Total(p)
      BY <1>4, <1>6, PeerMessages
    <2>2. /\ G \in SUBSET Fragment /\ G # {}
          /\ \A f \in G : f.seq = seq /\ f.off + f.len <= MsgLen(p, seq)
      BY <1>4, <2>1, FragmentsFit
    <2> HIDE DEF G
    <2>3. \A f \in G : f.seq < seq + 1 /\ f.off + f.len <= MsgLen(p, f.seq)
      BY <1>4, <2>2
    <2>4. \A x \in seq..(seq + 1) - 1 : \E f \in G : f.seq = x
      BY <1>4, <2>2
    <2>5. seq + 1 \in Nat /\ seq <= seq + 1
      BY <1>4
    <2> QED
      BY <1>2, <1>4, <1>12, <2>2, <2>3, <2>4, <2>5, MoreFragments
  <1>14. net' = [net EXCEPT ![q] = net'[q]] /\ net'[q] = net[q] \cup G
    BY <1>1, <1>2, <1>3
  <1> QED
    BY <1>3, <1>10, <1>11, <1>12, <1>13, <1>14, OneConnection

-----------------------------------------------------------------------------
(***************************************************************************)
(* Receiving.                                                              *)
(***************************************************************************)

\* Who has numbered all of a flight is past it.
LEMMA OtherIsAhead ==
    ASSUME NEW q \in Peers, NEW d, LocalOK(q, d), NEW k \in 1..4, Author(k) = q,
           k - d.flight \in {-1, 0, 1}, EndOf(k) <= Num(q, d)
    PROVE  d.flight = k + 1
  <1>1. d \in Connection /\ d.flight \in 1..5 /\ d.write_seq \in Nat
    BY ConnFields DEF LocalOK
  <1>2. /\ Start(k) \in Nat /\ EndOf(k) \in Nat /\ Start(k) < EndOf(k)
        /\ SeqsOf(k) = Start(k)..EndOf(k) - 1
    BY FlightSeqs
  <1>3. d.flight \in {k - 1, k, k + 1}
    BY <1>1
  <1>4. d.flight # k
    <2> SUFFICES ASSUME d.flight = k PROVE FALSE
      OBVIOUS
    <2>1. d.flight <= 4 /\ ~(d.flight > 4) /\ Author(d.flight) = q
      OBVIOUS
    <2>2. d.state = "writing"
      BY <2>1 DEF LocalOK, StatesOK
    <2>3. d.write_seq \in SeqsOf(k) /\ Num(q, d) = d.write_seq
      BY <2>1, <2>2 DEF LocalOK, CountsOK, Num
    <2> QED
      BY <1>2, <2>3
  <1>5. d.flight # k - 1
    <2> SUFFICES ASSUME d.flight = k - 1 PROVE FALSE
      OBVIOUS
    <2> DEFINE j == d.flight
    <2>1. j \in 1..3 /\ j + 1 = k /\ j <= 4 /\ ~(j > 4)
      BY <1>1
    <2>2. Author(j) # q
      BY <2>1, Alternation
    <2>3. d.state # "writing"
      BY <2>1, <2>2 DEF LocalOK, StatesOK
    <2>4. Num(q, d) = IF j = 1 THEN 0 ELSE EndOf(j - 1)
      BY <2>1, <2>3 DEF LocalOK, CountsOK, Num
    <2>5. CASE j = 1
      BY <1>2, <2>4, <2>5
    <2>6. CASE j # 1
      <3>1. j \in 2..3
        BY <2>1, <2>6
      <3>2. Start(j + 1) = EndOf(j - 1)
        BY <3>1, Alternation
      <3>3. Num(q, d) = Start(k)
        BY <2>1, <2>4, <2>6, <3>2
      <3> QED
        BY <1>2, <3>3
    <2> QED
      BY <2>5, <2>6
  <1> QED
    BY <1>3, <1>4, <1>5

\* The fields that the end of a flight leaves.
LEMMA TurnFields ==
    ASSUME NEW d \in Connection, d.flight <= 4
    PROVE  LET c == Turn(dtls1_stop_timer(d))
           IN  /\ c \in Connection /\ c.flight = d.flight + 1
               /\ c.sent = {} /\ c.num_alerts = 0
               /\ d.flight = 4 => /\ c.state = "done"
                                  /\ \A m \in Seqs : c.buffered[m] = NULL
               /\ d.flight # 4 => /\ c.state = "writing" /\ c.buffered = d.buffered
                                  /\ c.read_seq = d.read_seq
                                  /\ c.write_seq = d.write_seq
  <1> DEFINE f == [d EXCEPT !.timer = FALSE, !.num_alerts = 0, !.sent = {}]
             g == [f EXCEPT !.flight = @ + 1]
             w == [f EXCEPT !.state = "writing", !.flight = @ + 1]
             c == Turn(dtls1_stop_timer(d))
  <1>1. /\ LastFlight = 4 /\ d.flight \in 1..5 /\ d.flight + 1 \in 1..LastFlight + 1
        /\ 0 \in 0..ALERT_COUNT + 1 /\ {} \in SUBSET Seqs /\ FALSE \in BOOLEAN
    <2>1. LastFlight = 4 /\ d.flight \in 1..5 /\ ALERT_COUNT \in Nat
      BY ConnFields, FlightFacts, Numbers
    <2>2. d.flight + 1 \in 1..LastFlight + 1 /\ 0 \in 0..ALERT_COUNT + 1
      BY <2>1
    <2> QED
      BY <2>1, <2>2
  <1>2. /\ f \in Connection /\ f.flight = d.flight /\ f.sent = {}
        /\ f.num_alerts = 0 /\ f.buffered = d.buffered
        /\ f.read_seq = d.read_seq /\ f.write_seq = d.write_seq
    BY <1>1 DEF Connection
  <1>3. c = IF f.flight = LastFlight THEN EndHandshake(g) ELSE w
    BY Zenon DEF Turn, dtls1_stop_timer
  <1> HIDE DEF f, c
  <1>4. CASE d.flight = 4
    <2>1. c = EndHandshake(g)
      BY <1>1, <1>2, <1>3, <1>4
    <2>2. /\ g \in Connection /\ g.flight = d.flight + 1 /\ g.sent = {}
          /\ g.num_alerts = 0
      BY <1>1, <1>2 DEF Connection
    <2> HIDE DEF g
    <2>3. /\ c \in Connection /\ c.state = "done" /\ c.flight = g.flight
          /\ c.sent = g.sent /\ c.num_alerts = g.num_alerts
          /\ \A m \in Seqs : c.buffered[m] = NULL
      BY <2>1, <2>2, EndHandshakeFields
    <2> QED
      BY <1>4, <2>2, <2>3 DEF c
  <1>5. CASE d.flight # 4
    <2>1. c = w
      BY <1>1, <1>2, <1>3, <1>5
    <2>2. /\ w \in Connection /\ w.flight = d.flight + 1 /\ w.sent = {}
          /\ w.num_alerts = 0 /\ w.state = "writing" /\ w.buffered = d.buffered
          /\ w.read_seq = d.read_seq /\ w.write_seq = d.write_seq
      BY <1>1, <1>2 DEF Connection
    <2> HIDE DEF w
    <2> QED
      BY <1>5, <2>1, <2>2 DEF c
  <1> QED
    BY <1>4, <1>5

\* The number behind the last one of a flight, as EndsReading has it.
LEMMA EndsAt ==
    ASSUME NEW d, d.flight \in 1..4
    PROVE  EndsReading(d) <=> d.read_seq = EndOf(d.flight) - 1
  <1>1. Start(d.flight) \in Nat /\ Len(Flights[d.flight]) \in Nat
    BY FlightSeqs, FlightFacts
  <1>2. Start(d.flight) + Len(Flights[d.flight]) - 1 = EndOf(d.flight) - 1
    BY <1>1 DEF EndOf
  <1> QED
    BY <1>2 DEF EndsReading

\* A message is handed up: the flight goes on, or it is this peer's turn, and
\* the other one is waiting for it.
LEMMA HandUpOK ==
    ASSUME NEW p \in Peers, NEW d, LocalOK(p, d), d.state = "reading",
           NEW q \in Peers, q = Other(p), NEW dq, LocalOK(q, dq),
           BufferOK(p, d, Num(q, dq)), d.read_seq < Num(q, dq),
           TurnsOK(p, d.flight, dq.flight), TurnsOK(q, dq.flight, d.flight)
    PROVE  LET c == HandUp(d)
           IN  /\ LocalOK(p, c) /\ Num(p, c) = Num(p, d)
               /\ BufferOK(p, c, Num(q, dq))
               /\ TurnsOK(p, c.flight, dq.flight)
               /\ TurnsOK(q, dq.flight, c.flight)
  <1> DEFINE k == d.flight
             c == HandUp(d)
             e == [d EXCEPT !.read_seq = @ + 1]
  <1>1. /\ d \in Connection /\ k \in 1..5 /\ d.read_seq \in Nat /\ d.write_seq \in Nat
        /\ dq \in Connection /\ dq.flight \in 1..5
    BY ConnFields DEF LocalOK
  <1>2. /\ k \in 1..4 /\ k <= 4 /\ ~(k > 4) /\ Author(k) # p /\ Author(k) = q
    <2>1. k \in 1..4 /\ Author(k) # p
      BY <1>1 DEF LocalOK, StatesOK
    <2> QED
      BY <2>1, OtherFacts, Alternation
  <1>3. /\ d.read_seq \in SeqsOf(k) /\ SeqsOf(k) = Start(k)..EndOf(k) - 1
        /\ Start(k) \in Nat /\ EndOf(k) \in Nat
        /\ SeqsOf(k) \subseteq Seqs /\ EndOf(k) \in Seqs
    BY <1>2, FlightSeqs DEF LocalOK, CountsOK
  <1>4. d.read_seq + 1 \in SeqsOf(k) \/ d.read_seq + 1 = EndOf(k)
    BY <1>1, <1>3
  <1>5. /\ e \in Connection /\ e.read_seq = d.read_seq + 1 /\ e.state = "reading"
        /\ e.flight = k /\ e.write_seq = d.write_seq /\ e.sent = d.sent
        /\ e.timer = d.timer /\ e.num_alerts = d.num_alerts
        /\ e.buffered = d.buffered
    <2>1. d.read_seq + 1 \in Seqs
      BY <1>3, <1>4
    <2> QED
      BY <1>1, <2>1 DEF Connection
  <1>6. /\ c = IF EndsReading(d) THEN Turn(dtls1_stop_timer(e)) ELSE e
        /\ EndsReading(d) <=> d.read_seq = EndOf(k) - 1
    BY <1>2, EndsAt DEF HandUp
  <1>7. /\ d.write_seq = IF k = 1 THEN 0 ELSE EndOf(k - 1)
    BY <1>2 DEF LocalOK, CountsOK
  <1>8. \A m \in Seqs : m <= d.read_seq + WINDOW => m <= (d.read_seq + 1) + WINDOW
    <2>1. \A r, w, m \in Nat : m <= r + w => m <= (r + 1) + w
      OBVIOUS
    <2>2. d.read_seq \in Nat /\ WINDOW \in Nat /\ Seqs \subseteq Nat
      BY <1>1, FlightSeqs, Numbers
    <2> QED
      BY <2>1, <2>2, Zenon
  <1> HIDE DEF c, e
  <1>9. CASE ~EndsReading(d)
    <2>1. c = e /\ d.read_seq + 1 \in SeqsOf(k)
      BY <1>1, <1>3, <1>4, <1>6, <1>9
    <2>2. StatesOK(p, e)
      BY <1>2, <1>5 DEF StatesOK
    <2>3. CountsOK(e)
      BY <1>5, <1>7, <2>1 DEF CountsOK
    <2>4. KeptOK(p, e)
      BY <1>2, <1>5 DEF LocalOK, KeptOK
    <2>5. LocalOK(p, e)
      BY <1>5, <2>2, <2>3, <2>4 DEF LocalOK
    <2>6. Num(p, e) = Num(p, d)
      BY <1>5 DEF Num
    <2>7. BufferOK(p, e, Num(q, dq))
      BY <1>5, <1>8 DEF BufferOK
    <2> QED
      BY <1>5, <2>1, <2>5, <2>6, <2>7 DEF c
  <1>10. CASE EndsReading(d)
    <2>1. d.read_seq = EndOf(k) - 1 /\ e.read_seq = EndOf(k)
      BY <1>1, <1>3, <1>5, <1>6, <1>10
    <2>2. /\ c \in Connection /\ c.flight = k + 1
          /\ c.sent = {} /\ c.num_alerts = 0
          /\ k = 4 => c.state = "done" /\ \A m \in Seqs : c.buffered[m] = NULL
          /\ k # 4 => /\ c.state = "writing" /\ c.buffered = d.buffered
                      /\ c.read_seq = EndOf(k) /\ c.write_seq = d.write_seq
      BY <1>2, <1>5, <1>6, <1>10, <2>1, TurnFields
    <2>3. dq.flight = k + 1
      <3>1. Num(q, dq) \in Nat
        BY NumFacts
      <3>2. EndOf(k) <= Num(q, dq)
        BY <1>3, <2>1, <3>1
      <3>3. k - dq.flight \in {-1, 0, 1}
        BY DEF TurnsOK
      <3> QED
        BY <1>2, <3>2, <3>3, OtherIsAhead
    <2>4. TurnsOK(p, c.flight, dq.flight)
      BY <1>2, <2>2, <2>3 DEF TurnsOK
    <2>5. TurnsOK(q, dq.flight, c.flight)
      BY <1>2, <2>2, <2>3 DEF TurnsOK
    <2>6. c.num_alerts <= ALERT_COUNT
      BY <2>2, Numbers
    <2>7. CASE k = 4
      <3>1. c.flight = 5 /\ c.state = "done" /\ Author(4) # p
        BY <1>2, <2>2, <2>7
      <3>2. StatesOK(p, c) /\ CountsOK(c) /\ KeptOK(p, c)
        BY <2>2, <3>1 DEF StatesOK, CountsOK, KeptOK
      <3>3. Num(p, c) = Num(p, d)
        BY <1>7, <2>7, <3>1, Alternation DEF Num
      <3>4. BufferOK(p, c, Num(q, dq))
        BY <2>2, <2>7 DEF BufferOK
      <3> QED
        BY <2>2, <2>4, <2>5, <2>6, <3>2, <3>3, <3>4 DEF LocalOK, c
    <2>8. CASE k # 4
      <3>1. k \in 1..3 /\ k + 1 \in 1..4 /\ k + 1 <= 4 /\ ~(k + 1 > 4)
            /\ (k + 1) - 1 = k
        BY <1>2, <2>8
      <3>2. Author(k + 1) = p
        BY <1>2, <3>1, Alternation
      <3>3. d.write_seq = Start(k + 1)
        <4>1. CASE k = 1
          BY <1>7, <4>1, Alternation
        <4>2. CASE k # 1
          <5>1. k \in 2..3
            BY <3>1, <4>2
          <5> QED
            BY <1>7, <4>2, <5>1, Alternation
        <4> QED
          BY <4>1, <4>2
      <3>4. k + 1 < 4 => EndOf(k) = Start((k + 1) + 1)
        <4>1. k + 1 < 4 => k + 1 \in 2..3
          BY <3>1
        <4> QED
          BY <3>1, <4>1, Alternation
      <3>5. /\ Start(k + 1) \in SeqsOf(k + 1)
            /\ {} = Start(k + 1)..Start(k + 1) - 1
        <4>1. /\ Start(k + 1) \in Nat /\ EndOf(k + 1) \in Nat
              /\ Start(k + 1) < EndOf(k + 1)
              /\ SeqsOf(k + 1) = Start(k + 1)..EndOf(k + 1) - 1
          BY <3>1, FlightSeqs
        <4> QED
          BY <4>1
      <3>6. c.flight = k + 1 /\ c.state = "writing" /\ c.read_seq = EndOf(k)
            /\ c.write_seq = Start(k + 1) /\ c.sent = {} /\ c.num_alerts = 0
        BY <2>2, <2>8, <3>3
      <3> HIDE DEF k
      <3>7. StatesOK(p, c)
        BY <3>1, <3>2, <3>6 DEF StatesOK
      <3>8. CountsOK(c)
        BY <3>4, <3>5, <3>6 DEF CountsOK
      <3>9. KeptOK(p, c)
        BY <3>1, <3>5, <3>6 DEF KeptOK
      <3>10. Num(p, c) = Num(p, d)
        BY <1>2, <3>1, <3>3, <3>6 DEF Num, k
      <3>11. BufferOK(p, c, Num(q, dq))
        <4>1. c.buffered = d.buffered /\ c.read_seq = d.read_seq + 1
          BY <1>1, <1>5, <2>1, <2>2, <2>8, <3>6
        <4> QED
          BY <1>8, <4>1 DEF BufferOK
      <3> QED
        BY <2>2, <2>4, <2>5, <2>6, <3>7, <3>8, <3>9, <3>10, <3>11 DEF LocalOK, c
    <2> QED
      BY <2>7, <2>8
  <1> QED
    BY <1>9, <1>10

\* A change of what is buffered leaves the rest of a connection alone.
LEMMA BufferChange ==
    ASSUME NEW p \in Peers, NEW d, LocalOK(p, d),
           NEW B \in [Seqs -> Buffered \cup {NULL}]
    PROVE  LET e == [d EXCEPT !.buffered = B]
           IN  /\ LocalOK(p, e) /\ Num(p, e) = Num(p, d) /\ e.buffered = B
               /\ e.flight = d.flight /\ e.read_seq = d.read_seq
               /\ e.state = d.state
  <1> DEFINE e == [d EXCEPT !.buffered = B]
  <1>1. d \in Connection
    BY DEF LocalOK
  <1>2. /\ e \in Connection /\ e.buffered = B /\ e.flight = d.flight
        /\ e.read_seq = d.read_seq /\ e.state = d.state
        /\ e.write_seq = d.write_seq /\ e.sent = d.sent /\ e.timer = d.timer
        /\ e.num_alerts = d.num_alerts
    BY <1>1 DEF Connection
  <1> HIDE DEF e
  <1>3. StatesOK(p, e) /\ CountsOK(e)
    BY <1>2 DEF LocalOK, StatesOK, CountsOK
  <1>4. KeptOK(p, e)
    BY <1>2 DEF LocalOK, KeptOK
  <1>5. LocalOK(p, e)
    BY <1>2, <1>3, <1>4 DEF LocalOK
  <1>6. Num(p, e) = Num(p, d)
    BY <1>2 DEF Num
  <1> QED
    BY <1>2, <1>5, <1>6 DEF e

\* The loop of dtls1_retrieve_buffered_fragment drops only.
LEMMA DropStaleOK ==
    ASSUME NEW p \in Peers, NEW d, LocalOK(p, d), NEW n, BufferOK(p, d, n)
    PROVE  LET e == DropStale(d)
           IN  /\ LocalOK(p, e) /\ Num(p, e) = Num(p, d) /\ BufferOK(p, e, n)
               /\ e.flight = d.flight /\ e.read_seq = d.read_seq
               /\ e.state = d.state
  <1> DEFINE B == [m \in Seqs |-> IF m < d.read_seq THEN NULL ELSE d.buffered[m]]
             e == DropStale(d)
  <1>1. d.buffered \in [Seqs -> Buffered \cup {NULL}]
    BY ConnFields DEF LocalOK
  <1>2. /\ B \in [Seqs -> Buffered \cup {NULL}]
        /\ \A m \in Seqs : B[m] = NULL \/ B[m] = d.buffered[m]
    BY <1>1
  <1>3. e = [d EXCEPT !.buffered = B]
    BY DEF DropStale
  <1> HIDE DEF B, e
  <1>4. /\ LocalOK(p, e) /\ Num(p, e) = Num(p, d) /\ e.buffered = B
        /\ e.flight = d.flight /\ e.read_seq = d.read_seq /\ e.state = d.state
    BY <1>2, <1>3, BufferChange
  <1>5. BufferOK(p, e, n)
    BY <1>2, <1>4 DEF BufferOK
  <1> QED
    BY <1>4, <1>5 DEF e

\* One buffered message is put, replaced or dropped.
LEMMA BufferOne ==
    ASSUME NEW p \in Peers, NEW d, LocalOK(p, d), NEW n, BufferOK(p, d, n),
           NEW x \in Seqs, NEW b \in Buffered \cup {NULL},
           b # NULL => /\ x < n /\ x <= d.read_seq + WINDOW
                       /\ WholeOK(b, MsgLen(Other(p), x))
    PROVE  LET e == [d EXCEPT !.buffered[x] = b]
           IN  /\ LocalOK(p, e) /\ Num(p, e) = Num(p, d) /\ BufferOK(p, e, n)
               /\ e.flight = d.flight /\ e.read_seq = d.read_seq
               /\ e.state = d.state
  <1> DEFINE B == [d.buffered EXCEPT ![x] = b]
             e == [d EXCEPT !.buffered = B]
  <1>1. d.buffered \in [Seqs -> Buffered \cup {NULL}]
    BY ConnFields DEF LocalOK
  <1>2. /\ B \in [Seqs -> Buffered \cup {NULL}]
        /\ \A m \in Seqs : B[m] = IF m = x THEN b ELSE d.buffered[m]
    BY <1>1
  <1> HIDE DEF B
  <1>3. /\ LocalOK(p, e) /\ Num(p, e) = Num(p, d) /\ e.buffered = B
        /\ e.flight = d.flight /\ e.read_seq = d.read_seq /\ e.state = d.state
    BY <1>2, BufferChange
  <1> HIDE DEF e
  <1>4. BufferOK(p, e, n)
    BY <1>2, <1>3 DEF BufferOK
  <1>5. e = [d EXCEPT !.buffered[x] = b]
    BY DEF e, B
  <1> QED
    BY <1>3, <1>4, <1>5

\* A fragment that came belongs to a message that the other has numbered, and
\* lies within it.
LEMMA ArrivedFragment ==
    ASSUME IInv, NEW p \in Peers, NEW f \in net[p]
    PROVE  /\ f.seq \in Seqs /\ f.seq \in Nat /\ f.off \in Nat /\ f.len \in Nat
           /\ f.seq < Num(Other(p), peer[Other(p)])
           /\ MsgLen(Other(p), f.seq) \in Nat
           /\ f.off + f.len <= MsgLen(Other(p), f.seq)
           /\ \A mask \in SUBSET Positions(MsgLen(Other(p), f.seq)) : mask # NULL
  <1> DEFINE q == Other(p)
             n == Num(q, peer[q])
  <1>1. q \in Peers /\ Other(q) = p
    BY OtherFacts
  <1>2. FragmentsOK(net[p], q, n) /\ LocalOK(q, peer[q])
    BY <1>1 DEF IInv, PeersOK
  <1>3. n \in Nat /\ n <= Total(q) /\ Total(q) \in Nat
    BY <1>1, <1>2, NumFacts, PeerMessages
  <1> HIDE DEF n
  <1>4. /\ f \in Fragment /\ {g.seq : g \in net[p]} = 0..n - 1
        /\ f.off + f.len <= MsgLen(q, f.seq)
    BY <1>2 DEF FragmentsOK
  <1>5. f.seq \in 0..n - 1
    BY <1>4, Zenon
  <1>6. f.seq \in Seqs /\ f.off \in Nat /\ f.len \in 0..MTU
    BY <1>4 DEF Fragment
  <1>7. f.len \in Nat /\ f.seq \in Nat /\ f.seq < n /\ f.seq < Total(q)
    BY <1>3, <1>5, <1>6, Numbers
  <1> QED
    BY <1>1, <1>4, <1>6, <1>7, PeerMessages DEF n

\* dtls1_reassemble_fragment: what a fragment brings is marked, and the
\* message is complete exactly when nothing is missing.
LEMMA ReassembleOK ==
    ASSUME NEW p \in Peers, NEW d, LocalOK(p, d), NEW n, BufferOK(p, d, n),
           NEW f, f.seq \in Seqs, f.off \in Nat, f.len \in Nat,
           f.seq < n, f.seq <= d.read_seq + WINDOW,
           NEW len \in Nat \ {0}, len = MsgLen(Other(p), f.seq),
           f.off + f.len <= len,
           \A mask \in SUBSET Positions(len) : mask # NULL
    PROVE  LET e == dtls1_reassemble_fragment(d, f, len)
           IN  /\ LocalOK(p, e) /\ Num(p, e) = Num(p, d) /\ BufferOK(p, e, n)
               /\ e.flight = d.flight /\ e.read_seq = d.read_seq
               /\ e.state = d.state
  <1> DEFINE e == dtls1_reassemble_fragment(d, f, len)
             b == IF d.buffered[f.seq] = NULL
                    THEN [got |-> {}, reassembly |-> {}]
                    ELSE d.buffered[f.seq]
             piece == f.off..f.off + f.len - 1
             mask == b.reassembly \cup RSMBLY_BITMASK_MARK(f.off, f.off + f.len)
             c == [got |-> b.got \cup piece,
                   reassembly |-> IF RSMBLY_BITMASK_IS_COMPLETE(mask, len)
                                    THEN NULL ELSE mask]
  <1>1. e = IF b.reassembly = NULL THEN d ELSE [d EXCEPT !.buffered[f.seq] = c]
    BY Zenon DEF dtls1_reassemble_fragment
  <1>2. CASE b.reassembly = NULL
    BY <1>1, <1>2
  <1>3. CASE b.reassembly # NULL
    <2>1. b.reassembly = b.got /\ b.got \subseteq Positions(len)
      <3>1. CASE d.buffered[f.seq] = NULL
        <4>1. b = [got |-> {}, reassembly |-> {}]
          BY <3>1
        <4> HIDE DEF b
        <4>2. b.got = {} /\ b.reassembly = {}
          BY <4>1
        <4> QED
          BY <4>2
      <3>2. CASE d.buffered[f.seq] # NULL
        <4>1. b = d.buffered[f.seq] /\ WholeOK(b, len)
          <5>1. b = d.buffered[f.seq]
            BY <3>2
          <5>2. WholeOK(d.buffered[f.seq], len)
            BY <3>2 DEF BufferOK
          <5> QED
            BY <5>1, <5>2
        <4> HIDE DEF b
        <4> QED
          BY <1>3, <4>1 DEF WholeOK
      <3> QED
        BY <3>1, <3>2
    <2> HIDE DEF b
    <2>2. RSMBLY_BITMASK_MARK(f.off, f.off + f.len) = piece
      <3>1. f.off + f.len \in Nat /\ f.off <= f.off + f.len
            /\ (f.off + f.len) - 1 = f.off + f.len - 1
        OBVIOUS
      <3> QED
        BY <3>1, MarkIsInterval
    <2>3. piece \subseteq Positions(len) /\ Positions(len) \subseteq Nat
      BY DEF Positions
    <2> HIDE DEF piece
    <2>4. mask = b.got \cup piece
      BY <2>1, <2>2
    <2>5. mask \in SUBSET Positions(len) /\ mask \in SUBSET Nat /\ mask # NULL
      BY <2>1, <2>3, <2>4
    <2> HIDE DEF mask
    <2>6. RSMBLY_BITMASK_IS_COMPLETE(mask, len) <=> mask = Positions(len)
      BY <2>5, CompleteIsAll
    <2>7. /\ c.got = mask
          /\ c.reassembly = IF mask = Positions(len) THEN NULL ELSE mask
      BY <2>4, <2>6
    <2>8. c \in Buffered
      BY <2>4, <2>5 DEF Buffered
    <2> HIDE DEF c
    <2>9. WholeOK(c, len)
      BY <2>5, <2>7 DEF WholeOK
    <2>10. e = [d EXCEPT !.buffered[f.seq] = c]
      BY <1>1, <1>3
    <2> HIDE DEF e
    <2> QED
      BY <2>8, <2>9, <2>10, BufferOne DEF e
  <1> QED
    BY <1>2, <1>3

\* dtls1_process_out_of_seq_message: a fragment of a later message is thrown
\* away or buffered, within the window.
LEMMA OutOfSeqOK ==
    ASSUME NEW p \in Peers, NEW d, LocalOK(p, d), NEW n, BufferOK(p, d, n),
           NEW f, f.seq \in Seqs, f.off \in Nat, f.len \in Nat, f.seq < n,
           MsgLen(Other(p), f.seq) \in Nat,
           f.off + f.len <= MsgLen(Other(p), f.seq),
           \A mask \in SUBSET Positions(MsgLen(Other(p), f.seq)) : mask # NULL
    PROVE  LET e == dtls1_process_out_of_seq_message(p, d, f)
           IN  /\ LocalOK(p, e) /\ Num(p, e) = Num(p, d) /\ BufferOK(p, e, n)
               /\ e.flight = d.flight /\ e.read_seq = d.read_seq
               /\ e.state = d.state
  <1> DEFINE len == MsgLen(Other(p), f.seq)
             e == dtls1_process_out_of_seq_message(p, d, f)
             whole == [got |-> Positions(len), reassembly |-> NULL]
  <1>1. e = IF Discard(p, d, f) THEN d
            ELSE IF f.len # len
                   THEN dtls1_reassemble_fragment(d, f, len)
                   ELSE [d EXCEPT !.buffered[f.seq] = whole]
    BY Zenon DEF dtls1_process_out_of_seq_message
  <1>2. CASE Discard(p, d, f)
    BY <1>1, <1>2
  <1>3. ASSUME ~Discard(p, d, f) PROVE f.seq <= d.read_seq + WINDOW
    <2>1. d.read_seq \in Nat /\ WINDOW \in Nat /\ f.seq \in Nat
      BY ConnFields, Numbers, FlightSeqs DEF LocalOK
    <2>2. ~(f.seq > d.read_seq + WINDOW)
      BY <1>3 DEF Discard
    <2> QED
      BY <2>1, <2>2
  <1>4. CASE ~Discard(p, d, f) /\ f.len # len
    <2>1. len \in Nat \ {0}
      BY <1>4
    <2>2. e = dtls1_reassemble_fragment(d, f, len)
      BY <1>1, <1>4
    <2> HIDE DEF e
    <2> QED
      BY <1>3, <1>4, <2>1, <2>2, ReassembleOK DEF e
  <1>5. CASE ~Discard(p, d, f) /\ f.len = len
    <2>1. e = [d EXCEPT !.buffered[f.seq] = whole]
      BY <1>1, <1>5
    <2>2. whole \in Buffered
      BY DEF Buffered, Positions
    <2>3. whole.got = Positions(len) /\ whole.reassembly = NULL
      OBVIOUS
    <2> HIDE DEF whole, e
    <2>4. WholeOK(whole, len)
      BY <2>3 DEF WholeOK
    <2> QED
      BY <1>3, <1>5, <2>1, <2>2, <2>4, BufferOne DEF e
  <1> QED
    BY <1>2, <1>4, <1>5

\* What a step of a peer that reads can rely on.
LEMMA ReadingPeer ==
    ASSUME IInv, NEW p \in Peers
    PROVE  LET q == Other(p)
               d == DropStale(peer[p])
               n == Num(q, peer[q])
           IN  /\ q \in Peers /\ LocalOK(q, peer[q])
               /\ LocalOK(p, peer[p]) /\ LocalOK(p, d)
               /\ Num(p, d) = Num(p, peer[p]) /\ BufferOK(p, d, n)
               /\ d.flight = peer[p].flight /\ d.state = peer[p].state
               /\ d.read_seq \in Seqs /\ d.read_seq \in Nat
               /\ TurnsOK(p, d.flight, peer[q].flight)
               /\ TurnsOK(q, peer[q].flight, d.flight)
  <1> DEFINE q == Other(p)
             d == DropStale(peer[p])
  <1>1. q \in Peers /\ Other(q) = p
    BY OtherFacts
  <1>2. /\ LocalOK(p, peer[p]) /\ BufferOK(p, peer[p], Num(q, peer[q]))
        /\ TurnsOK(p, peer[p].flight, peer[q].flight)
        /\ TurnsOK(q, peer[q].flight, peer[p].flight) /\ LocalOK(q, peer[q])
    BY <1>1 DEF IInv, PeersOK
  <1>3. /\ LocalOK(p, d) /\ Num(p, d) = Num(p, peer[p])
        /\ BufferOK(p, d, Num(q, peer[q]))
        /\ d.flight = peer[p].flight /\ d.state = peer[p].state
    BY <1>2, DropStaleOK
  <1> HIDE DEF d
  <1>4. d.read_seq \in Seqs /\ d.read_seq \in Nat
    BY <1>3, ConnFields DEF LocalOK
  <1> QED
    BY <1>1, <1>2, <1>3, <1>4 DEF d

\* A peer that reads and sends nothing.
LEMMA QuietStep ==
    ASSUME IInv, NEW p \in Peers, NEW e, peer' = [peer EXCEPT ![p] = e],
           net' = net, LocalOK(p, e), Num(p, e) = Num(p, peer[p]),
           BufferOK(p, e, Num(Other(p), peer[Other(p)])),
           TurnsOK(p, e.flight, peer[Other(p)].flight),
           TurnsOK(Other(p), peer[Other(p)].flight, e.flight)
    PROVE  IInv'
  <1> DEFINE q == Other(p)
  <1>1. q \in Peers /\ Other(q) = p
    BY OtherFacts
  <1>2. /\ net = [x \in Peers |-> net[x]] /\ DOMAIN net = Peers
        /\ FragmentsOK(net[q], p, Num(p, peer[p]))
    BY <1>1 DEF IInv
  <1>3. net' = [net EXCEPT ![q] = net'[q]]
    BY <1>1, <1>2
  <1>4. FragmentsOK(net'[q], p, Num(p, e))
    BY <1>2
  <1>5. Num(p, peer[p]) <= Num(p, e)
    BY NumFacts
  <1> QED
    BY <1>3, <1>4, <1>5, OneConnection

\* dtls1_retrieve_buffered_fragment.
LEMMA RetrieveBufferedStep ==
    ASSUME IInv, NEW p \in Peers, RetrieveBuffered(p)
    PROVE  IInv'
  <1> DEFINE q == Other(p)
             d == DropStale(peer[p])
             n == Num(q, peer[q])
             e == [d EXCEPT !.buffered[d.read_seq] = NULL]
             c == HandUp(e)
  <1>1. /\ q \in Peers /\ LocalOK(q, peer[q])
        /\ LocalOK(p, d) /\ Num(p, d) = Num(p, peer[p]) /\ BufferOK(p, d, n)
        /\ d.flight = peer[p].flight /\ d.state = peer[p].state
        /\ d.read_seq \in Seqs /\ d.read_seq \in Nat
        /\ TurnsOK(p, d.flight, peer[q].flight)
        /\ TurnsOK(q, peer[q].flight, d.flight)
    BY ReadingPeer
  <1>2. /\ peer[p].state = "reading" /\ d.buffered[d.read_seq] # NULL
        /\ peer' = [peer EXCEPT ![p] = c] /\ net' = net
    BY DEF RetrieveBuffered, HasNext
  <1> HIDE DEF d, n
  <1>3. d.read_seq < n
    BY <1>1, <1>2 DEF BufferOK
  <1>4. /\ LocalOK(p, e) /\ Num(p, e) = Num(p, d) /\ BufferOK(p, e, n)
        /\ e.flight = d.flight /\ e.read_seq = d.read_seq /\ e.state = d.state
    BY <1>1, BufferOne
  <1> HIDE DEF e
  <1>5. /\ LocalOK(p, c) /\ Num(p, c) = Num(p, e) /\ BufferOK(p, c, n)
        /\ TurnsOK(p, c.flight, peer[q].flight)
        /\ TurnsOK(q, peer[q].flight, c.flight)
    BY <1>1, <1>2, <1>3, <1>4, HandUpOK DEF n
  <1> HIDE DEF c
  <1>6. Num(p, c) = Num(p, peer[p])
    BY <1>1, <1>4, <1>5
  <1> QED
    BY <1>2, <1>5, <1>6, QuietStep DEF n

\* dtls_get_reassembled_message.
LEMMA ReadFragmentStep ==
    ASSUME IInv, NEW p \in Peers, ReadFragment(p)
    PROVE  IInv'
  <1> DEFINE q == Other(p)
             d == DropStale(peer[p])
             n == Num(q, peer[q])
             c(f) == IF f.seq # d.read_seq
                       THEN dtls1_process_out_of_seq_message(p, d, f)
                       ELSE IF f.len > 0 /\ f.len < MsgLen(q, f.seq)
                              THEN dtls1_reassemble_fragment(d, f, MsgLen(q, f.seq))
                              ELSE HandUp(d)
  <1>1. /\ q \in Peers /\ LocalOK(q, peer[q])
        /\ LocalOK(p, d) /\ Num(p, d) = Num(p, peer[p]) /\ BufferOK(p, d, n)
        /\ d.flight = peer[p].flight /\ d.state = peer[p].state
        /\ d.read_seq \in Seqs /\ d.read_seq \in Nat
        /\ TurnsOK(p, d.flight, peer[q].flight)
        /\ TurnsOK(q, peer[q].flight, d.flight)
    BY ReadingPeer
  <1>2. PICK f \in net[p] : peer' = [peer EXCEPT ![p] = c(f)]
    BY Zenon DEF ReadFragment
  <1>3. peer[p].state = "reading" /\ net' = net
    BY DEF ReadFragment
  <1> DEFINE len == MsgLen(q, f.seq)
             e == c(f)
  <1>4. /\ f.seq \in Seqs /\ f.seq \in Nat /\ f.off \in Nat /\ f.len \in Nat
        /\ f.seq < n /\ len \in Nat /\ f.off + f.len <= len
        /\ \A mask \in SUBSET Positions(len) : mask # NULL
    BY ArrivedFragment
  <1>5. peer' = [peer EXCEPT ![p] = e]
    BY <1>2
  <1>6. e = IF f.seq # d.read_seq
              THEN dtls1_process_out_of_seq_message(p, d, f)
              ELSE IF f.len > 0 /\ f.len < len
                     THEN dtls1_reassemble_fragment(d, f, len)
                     ELSE HandUp(d)
    BY Zenon
  <1> HIDE DEF d, n, c, e
  <1>7. /\ LocalOK(p, e) /\ Num(p, e) = Num(p, d) /\ BufferOK(p, e, n)
        /\ TurnsOK(p, e.flight, peer[q].flight)
        /\ TurnsOK(q, peer[q].flight, e.flight)
    <2>1. CASE f.seq # d.read_seq
      <3>1. e = dtls1_process_out_of_seq_message(p, d, f)
        BY <1>6, <2>1
      <3>2. /\ LocalOK(p, e) /\ Num(p, e) = Num(p, d) /\ BufferOK(p, e, n)
            /\ e.flight = d.flight
        BY <1>1, <1>4, <3>1, OutOfSeqOK
      <3> QED
        BY <1>1, <3>2
    <2>2. CASE f.seq = d.read_seq /\ f.len > 0 /\ f.len < len
      <3>1. e = dtls1_reassemble_fragment(d, f, len)
        BY <1>6, <2>2
      <3>2. len \in Nat \ {0} /\ f.seq <= d.read_seq + WINDOW
        BY <1>1, <1>4, <2>2, Numbers
      <3>3. /\ LocalOK(p, e) /\ Num(p, e) = Num(p, d) /\ BufferOK(p, e, n)
            /\ e.flight = d.flight
        BY <1>1, <1>4, <3>1, <3>2, ReassembleOK
      <3> QED
        BY <1>1, <3>3
    <2>3. CASE f.seq = d.read_seq /\ ~(f.len > 0 /\ f.len < len)
      <3>1. e = HandUp(d)
        BY <1>6, <2>3
      <3>2. d.read_seq < n /\ d.state = "reading"
        BY <1>1, <1>3, <1>4, <2>3
      <3> QED
        BY <1>1, <3>1, <3>2, HandUpOK DEF n
    <2> QED
      BY <2>1, <2>2, <2>3
  <1>8. Num(p, e) = Num(p, peer[p])
    BY <1>1, <1>7
  <1> QED
    BY <1>3, <1>5, <1>7, <1>8, QuietStep DEF n
-----------------------------------------------------------------------------
(***************************************************************************)
(* The invariant holds always.                                             *)
(***************************************************************************)

\* It holds at the start, where the client writes and the server reads.
LEMMA InitOK ==
    ASSUME Init
    PROVE  IInv
  <1> DEFINE none == [q \in Seqs |-> NULL]
             st(p) == IF p = Client THEN "writing" ELSE "reading"
             d(p) == [state |-> st(p), flight |-> 1, read_seq |-> 0, write_seq |-> 0,
                      buffered |-> none, sent |-> {},
                      timer |-> FALSE, num_alerts |-> 0, mtu |-> MTU]
  <1>1. peer = [p \in Peers |-> d(p)] /\ net = [p \in Peers |-> {}]
    BY DEF Init
  <1>2. /\ Client # Server /\ Peers = {Client, Server}
        /\ Author(1) = Client /\ Start(1) = 0 /\ Start(2) = 0 /\ 0 \in Seqs
        /\ 1 \in 1..4 /\ LastFlight = 4 /\ ALERT_COUNT \in Nat
        /\ none \in [Seqs -> Buffered \cup {NULL}]
    BY TwoPeers, FlightFacts, FlightSeqs, Numbers
  <1>3. 0 \in SeqsOf(1)
    <2>1. SeqsOf(1) = Start(1)..EndOf(1) - 1 /\ EndOf(1) \in Nat /\ Start(1) < EndOf(1)
      BY <1>2, FlightSeqs
    <2> QED
      BY <1>2, <2>1
  <1> HIDE DEF none, st
  <1>4. ASSUME NEW p \in Peers
        PROVE  /\ d(p) \in Connection
               /\ d(p).state = st(p) /\ d(p).flight = 1 /\ d(p).read_seq = 0
               /\ d(p).write_seq = 0 /\ d(p).buffered = none /\ d(p).sent = {}
               /\ d(p).num_alerts = 0
    <2>1. st(p) \in {"writing", "reading", "done", "failed"}
      BY DEF st
    <2>2. 0 \in 0..ALERT_COUNT + 1 /\ 1 \in 1..LastFlight + 1
      BY <1>2
    <2> QED
      BY <1>2, <2>1, <2>2 DEF Connection
  <1> HIDE DEF d
  <1>5. ASSUME NEW p \in Peers
        PROVE  LocalOK(p, d(p)) /\ Num(p, d(p)) = 0
    <2>1. ~(1 > 4) /\ 1 <= 4 /\ 1 < 4 /\ 1 + 1 = 2 /\ 0 <= ALERT_COUNT
      BY <1>2
    <2>2. (st(p) = "writing" /\ Author(1) = p) \/ (st(p) = "reading" /\ Author(1) # p)
      BY <1>2 DEF st
    <2>3. StatesOK(p, d(p))
      BY <1>4, <2>1, <2>2 DEF StatesOK
    <2>4. CountsOK(d(p))
      BY <1>2, <1>3, <1>4, <2>1 DEF CountsOK
    <2>5. KeptOK(p, d(p))
      <3>1. Start(1)..0 - 1 = {}
        BY <1>2
      <3> QED
        BY <1>4, <2>1, <3>1 DEF KeptOK
    <2> QED
      BY <1>4, <2>1, <2>3, <2>4, <2>5 DEF LocalOK, Num
  <1>6. ASSUME NEW p \in Peers
        PROVE  BufferOK(p, d(p), 0)
    BY <1>4 DEF BufferOK, none
  <1>7. ASSUME NEW p \in Peers
        PROVE  TurnsOK(p, 1, 1)
    BY DEF TurnsOK
  <1>8. ASSUME NEW p \in Peers
        PROVE  FragmentsOK({}, p, 0)
    <2>1. 0..0 - 1 = {}
      OBVIOUS
    <2> QED
      BY <2>1 DEF FragmentsOK
  <1>9. \A p \in Peers : Other(p) \in Peers
    BY OtherFacts
  <1>10. /\ DOMAIN peer = Peers /\ DOMAIN net = Peers
         /\ peer = [p \in Peers |-> peer[p]] /\ net = [p \in Peers |-> net[p]]
         /\ \A p \in Peers : peer[p] = d(p) /\ net[p] = {}
    BY <1>1
  <1>11. PeersOK
    BY <1>4, <1>5, <1>6, <1>7, <1>9, <1>10 DEF PeersOK
  <1> QED
    BY <1>5, <1>8, <1>9, <1>10, <1>11 DEF IInv

\* Every step keeps it.
LEMMA NextOK ==
    ASSUME IInv, [Next]_vars
    PROVE  IInv'
  <1>1. CASE UNCHANGED vars
    BY <1>1 DEF vars, IInv, PeersOK
  <1>2. ASSUME NEW p \in Peers, WriteMessage(p) PROVE IInv'
    BY <1>2, WriteMessageStep
  <1>3. ASSUME NEW p \in Peers, dtls1_handle_timeout(p) PROVE IInv'
    BY <1>3, TimeoutStep DEF dtls1_handle_timeout
  <1>4. ASSUME NEW p \in Peers, RetrieveBuffered(p) PROVE IInv'
    BY <1>4, RetrieveBufferedStep
  <1>5. ASSUME NEW p \in Peers, ReadFragment(p) PROVE IInv'
    BY <1>5, ReadFragmentStep
  <1>6. ASSUME NEW p \in Peers, RepeatedFinished(p) PROVE IInv'
    BY <1>6, TimeoutStep DEF RepeatedFinished
  <1> QED
    BY <1>1, <1>2, <1>3, <1>4, <1>5, <1>6 DEF Next

-----------------------------------------------------------------------------
(***************************************************************************)
(* What it says of the transport.                                          *)
(***************************************************************************)

\* Types, turns, counts and what is kept are said connection by connection.
LEMMA LocalParts ==
    ASSUME IInv
    PROVE  TypeOK /\ TurnsAreTaken /\ SeqsFollowFlights /\ FlightIsKept
  <1>1. \A p \in Peers : LocalOK(p, peer[p])
    BY DEF IInv, PeersOK
  <1>2. \A p \in Peers : Other(p) \in Peers /\ Other(Other(p)) = p
    BY OtherFacts
  <1>3. LastFlight = 4
    BY FlightFacts
  <1>4. TypeOK
    <2>1. peer \in [Peers -> Connection]
      <3>1. \A p \in Peers : peer[p] \in Connection
        BY <1>1 DEF LocalOK
      <3>2. peer = [p \in Peers |-> peer[p]]
        BY DEF IInv, PeersOK
      <3> QED
        BY <3>1, <3>2
    <2>2. net \in [Peers -> SUBSET Fragment]
      <3>1. \A p \in Peers : net[Other(p)] \subseteq Fragment
        BY DEF IInv, FragmentsOK
      <3>2. \A p \in Peers : net[p] \subseteq Fragment
        BY <1>2, <3>1
      <3>3. net = [p \in Peers |-> net[p]]
        BY DEF IInv
      <3> QED
        BY <3>2, <3>3
    <2>3. \A p \in Peers :
            peer[p].state # "failed" => peer[p].num_alerts <= ALERT_COUNT
      BY <1>1 DEF LocalOK
    <2> QED
      BY <2>1, <2>2, <2>3 DEF TypeOK
  <1>5. TurnsAreTaken
    <2>1. \A p \in Peers : TurnsOK(p, peer[p].flight, peer[Other(p)].flight)
      BY DEF IInv, PeersOK
    <2>2. \A p \in Peers : StatesOK(p, peer[p])
      BY <1>1 DEF LocalOK
    <2> QED
      BY <1>3, <2>1, <2>2, Zenon DEF TurnsAreTaken, TurnsOK, StatesOK
  <1>6. SeqsFollowFlights
    <2>1. \A p \in Peers : CountsOK(peer[p])
      BY <1>1 DEF LocalOK
    <2> QED
      BY <1>3, <2>1, Zenon DEF SeqsFollowFlights, CountsOK
  <1>7. FlightIsKept
    <2>1. \A p \in Peers : KeptOK(p, peer[p])
      BY <1>1 DEF LocalOK
    <2> QED
      BY <1>3, <2>1, Zenon DEF FlightIsKept, KeptOK
  <1> QED
    BY <1>4, <1>5, <1>6, <1>7

\* No fragment is made up, and no buffered message.
LEMMA FragmentParts ==
    ASSUME IInv
    PROVE  NothingMadeUp /\ ReassembledIsWhole
  <1>1. \A p \in Peers : Numbered(p) = Num(p, peer[p])
    BY FlightFacts, Zenon DEF Numbered, Num, Total
  <1>2. \A p \in Peers : FragmentsOK(net[Other(p)], p, Num(p, peer[p]))
    BY DEF IInv
  <1>3. \A p \in Peers : BufferOK(p, peer[p], Num(Other(p), peer[Other(p)]))
    BY DEF IInv, PeersOK
  <1>4. \A p \in Peers : Other(p) \in Peers /\ Other(Other(p)) = p
    BY OtherFacts
  <1>5. \A p \in Peers : BufferOK(Other(p), peer[Other(p)], Num(p, peer[p]))
    BY <1>3, <1>4, Zenon
  <1>6. NothingMadeUp
    BY <1>1, <1>2, <1>5, Zenon DEF NothingMadeUp, FragmentsOK, BufferOK
  <1>7. ReassembledIsWhole
    BY <1>3, Zenon DEF ReassembledIsWhole, BufferOK, WholeOK
  <1> QED
    BY <1>6, <1>7

\* The window bounds what is buffered.
LEMMA BufferPart ==
    ASSUME IInv
    PROVE  BufferIsBounded
  <1> SUFFICES ASSUME NEW p \in Peers
               PROVE  Cardinality({q \in Seqs : DropStale(peer[p]).buffered[q] # NULL})
                        <= WINDOW + 1
    BY DEF BufferIsBounded
  <1> DEFINE d == DropStale(peer[p])
             r == peer[p].read_seq
             S == {q \in Seqs : d.buffered[q] # NULL}
             n == Num(Other(p), peer[Other(p)])
  <1>1. LocalOK(p, peer[p]) /\ BufferOK(p, peer[p], n)
    BY DEF IInv, PeersOK
  <1>2. peer[p] \in Connection /\ r \in Nat /\ Seqs \subseteq Nat /\ WINDOW \in Nat
    BY <1>1, ConnFields, FlightSeqs, Numbers DEF LocalOK
  <1>3. d.buffered = [q \in Seqs |-> IF q < r THEN NULL ELSE peer[p].buffered[q]]
    BY <1>2 DEF DropStale, Connection
  <1> HIDE DEF d
  <1>4. \A q \in S : q \in r..r + WINDOW
    <2> TAKE q \in S
    <2>1. q \in Seqs /\ q \in Nat /\ ~(q < r) /\ peer[p].buffered[q] # NULL
      BY <1>2, <1>3
    <2>2. q <= r + WINDOW
      BY <1>1, <2>1 DEF BufferOK
    <2> HIDE DEF r
    <2> QED
      BY <1>2, <2>1, <2>2
  <1> HIDE DEF r, S
  <1>5. IsFiniteSet(r..r + WINDOW) /\ Cardinality(r..r + WINDOW) = WINDOW + 1
    <2>1. r \in Int /\ r + WINDOW \in Int /\ ~(r > r + WINDOW)
          /\ (r + WINDOW) - r + 1 = WINDOW + 1
      BY <1>2
    <2> QED
      BY <2>1, FS_Interval
  <1>6. Cardinality(S) <= Cardinality(r..r + WINDOW)
    BY <1>4, <1>5, FS_Subset
  <1> QED
    BY <1>5, <1>6 DEF S, d

\* Who is past the last flight has been sent the other's Finished.
LEMMA StepPart ==
    ASSUME IInv
    PROVE  PeersInStep
  <1>1. \A p \in Peers : /\ LocalOK(p, peer[p]) /\ peer[p].flight \in 1..5
                         /\ TurnsOK(p, peer[p].flight, peer[Other(p)].flight)
    BY ConnFields DEF IInv, PeersOK, LocalOK
  <1>2. peer[Client].flight - peer[Server].flight \in {-1, 0, 1}
    BY <1>1, TwoPeers DEF TurnsOK
  <1>3. ASSUME NEW p \in Peers, peer[p].state = "done"
        PROVE  \E f \in net[p] : IsFinished(Other(p), f.seq)
    <2> DEFINE q == Other(p)
               l == peer[q].flight
               k == IF Author(4) = q THEN 4 ELSE 3
    <2>1. q \in Peers /\ Other(q) = p /\ q # p
      BY OtherFacts
    <2>2. LocalOK(q, peer[q]) /\ l \in 1..5 /\ LocalOK(p, peer[p]) /\ peer[p].flight \in 1..5
      BY <1>1, <2>1
    <2>3. peer[p].flight = 5
      <3>1. peer[p].flight > 4
        BY <1>3, <2>2 DEF LocalOK, StatesOK
      <3> QED
        BY <2>2, <3>1
    <2>4. TurnsOK(p, 5, l) /\ TurnsOK(q, l, 5)
      BY <1>1, <2>1, <2>3
    <2>5. l = 4 \/ l = 5
      <3>1. 5 - l \in {-1, 0, 1}
        BY <2>4 DEF TurnsOK
      <3> QED
        BY <2>2, <3>1
    <2>6. Num(q, peer[q]) = Total(q)
      <3>1. CASE l = 5
        BY <3>1 DEF Num
      <3>2. CASE l = 4
        <4>1. Author(4) # q
          BY <2>4, <3>2 DEF TurnsOK
        <4>2. l <= 4 /\ ~(l > 4) /\ l # 1 /\ l - 1 = 3
          BY <3>2
        <4>3. peer[q].state # "writing"
          BY <2>2, <3>2, <4>1, <4>2 DEF LocalOK, StatesOK
        <4>4. peer[q].write_seq = EndOf(3)
          BY <2>2, <4>2, <4>3 DEF LocalOK, CountsOK
        <4> QED
          BY <2>1, <4>1, <4>2, <4>4, Alternation DEF Num
      <3> QED
        BY <2>5, <3>1, <3>2
    <2>7. k \in 1..4 /\ k >= 4 - 1 /\ Author(k) = q /\ Total(q) = EndOf(k)
      <3>1. Author(4) = q \/ Author(3) = q
        BY <2>1, FlightFacts, TwoPeers
      <3> QED
        BY <2>1, <3>1, Alternation
    <2> HIDE DEF k
    <2>8. /\ Start(k) \in Nat /\ EndOf(k) \in Nat /\ Start(k) < EndOf(k)
          /\ SeqsOf(k) = Start(k)..EndOf(k) - 1
          /\ Len(Flights[k]) \in Nat /\ EndOf(k) = Start(k) + Len(Flights[k])
      BY <2>7, FlightSeqs, FlightFacts DEF EndOf
    <2> DEFINE m == EndOf(k) - 1
    <2>9. m \in SeqsOf(k) /\ m = Start(k) + Len(Flights[k]) - 1 /\ m \in 0..EndOf(k) - 1
      BY <2>8
    <2>10. FlightOf(q, m) = k
      BY <2>7, <2>9, MessageFacts
    <2>11. IsFinished(q, m)
      BY <2>7, <2>9, <2>10, FlightFacts, Zenon DEF IsFinished
    <2>12. {f.seq : f \in net[p]} = 0..EndOf(k) - 1
      BY <2>1, <2>6, <2>7 DEF IInv, FragmentsOK
    <2>13. PICK f \in net[p] : f.seq = m
      BY <2>9, <2>12
    <2> QED
      BY <2>11, <2>13
  <1> QED
    BY <1>2, <1>3, Zenon DEF PeersInStep

\* A flight that is waited for is kept, and a timer runs.
LEMMA KeptPart ==
    ASSUME IInv
    PROVE  LastFlightIsKept
  <1> SUFFICES ASSUME NEW p \in Peers, peer[Other(p)].state = "reading",
                      peer[p].flight = peer[Other(p)].flight + 1
               PROVE  /\ peer[p].sent = SeqsOf(peer[Other(p)].flight)
                      /\ \E x \in Peers : peer[x].timer /\ peer[x].sent # {}
    BY Zenon DEF LastFlightIsKept
  <1> DEFINE q == Other(p)
             k == peer[q].flight
  <1>1. q \in Peers /\ Other(q) = p /\ q # p
    BY OtherFacts
  <1>2. LocalOK(p, peer[p]) /\ LocalOK(q, peer[q]) /\ k \in 1..5
    BY <1>1, ConnFields DEF IInv, PeersOK, LocalOK
  <1>3. k <= 4 /\ Author(k) # q
    BY <1>2 DEF LocalOK, StatesOK
  <1>4. k \in 1..4 /\ Author(k) = p
    <2>1. k \in 1..4
      BY <1>2, <1>3
    <2> QED
      BY <1>1, <1>3, <2>1, Alternation, OtherFacts
  <1>5. \A j \in 1..4 : SeqsOf(j) # {}
    <2> TAKE j \in 1..4
    <2>1. /\ SeqsOf(j) = Start(j)..EndOf(j) - 1
          /\ Start(j) \in Nat /\ EndOf(j) \in Nat /\ Start(j) < EndOf(j)
      BY FlightSeqs
    <2>2. Start(j) \in SeqsOf(j)
      BY <2>1
    <2> QED
      BY <2>2
  <1>6. CASE k + 1 <= 4
    <2>1. k \in 1..3 /\ k + 1 # 1 /\ (k + 1) - 1 = k /\ ~(k + 1 > 4)
      BY <1>4, <1>6
    <2>2. Author(k + 1) # p
      BY <1>4, <2>1, Alternation
    <2>3. peer[p].state # "writing"
      BY <1>2, <2>1, <2>2 DEF LocalOK, StatesOK
    <2>4. peer[p].sent = SeqsOf(k) /\ peer[p].timer
      BY <1>2, <1>6, <2>1, <2>3 DEF LocalOK, KeptOK
    <2> QED
      BY <1>4, <1>5, <2>4
  <1>7. CASE ~(k + 1 <= 4)
    <2>1. k = 4 /\ k + 1 > 4 /\ k - 1 = 3 /\ 3 \in 1..4 /\ k # 1 /\ k <= 4
      BY <1>4, <1>7
    <2>2. peer[p].sent = SeqsOf(4)
      BY <1>2, <1>4, <2>1 DEF LocalOK, KeptOK
    <2>3. peer[q].sent = SeqsOf(3) /\ peer[q].timer
      BY <1>2, <2>1 DEF LocalOK, KeptOK
    <2> QED
      BY <1>1, <1>5, <2>1, <2>2, <2>3
  <1> QED
    BY <1>6, <1>7

-----------------------------------------------------------------------------
(***************************************************************************)
(* The theorems.                                                           *)
(***************************************************************************)

\* The invariant holds in every state.
LEMMA IInvHolds ==
    Spec => []IInv
  <1>1. Init => IInv
    BY InitOK
  <1>2. IInv /\ [Next]_vars => IInv'
    BY NextOK
  <1> QED
    BY <1>1, <1>2, PTL DEF Spec

\* Whatever the network loses, repeats or reorders, and however often the
\* timers go off, the peers of statem_dtls.c take their flights in turn, count
\* and keep their messages accordingly, buffer no more than the window, and
\* end the handshake only when the other's Finished was sent: for flights of
\* any lengths, any MTU, and bitmasks with bytes of any number of bits.
THEOREM HandshakeInvariantHolds ==
    Spec => []HandshakeInvariant
  <1>1. IInv => HandshakeInvariant
    BY LocalParts, FragmentParts, BufferPart, StepPart DEF HandshakeInvariant
  <1> QED
    BY <1>1, IInvHolds, PTL

\* The bitmask of dtls1_reassemble_fragment, with its first and last bytes
\* that are marked and compared in part, takes a message for complete exactly
\* when all its bytes have come.
THEOREM ReassembledIsWholeHolds ==
    Spec => []ReassembledIsWhole
  <1>1. IInv => ReassembledIsWhole
    BY FragmentParts
  <1> QED
    BY <1>1, IInvHolds, PTL

\* dtls1_clear_sent_buffer gives up no flight that the other peer still waits
\* for, and one of the two always has a timer that makes it send something.
THEOREM LastFlightIsKeptHolds ==
    Spec => []LastFlightIsKept
  <1>1. IInv => LastFlightIsKept
    BY KeptPart
  <1> QED
    BY <1>1, IInvHolds, PTL


=============================================================================
