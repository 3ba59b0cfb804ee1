----------------------- MODULE SslSessionCacheProofs -----------------------
(***************************************************************************)
(* Proofs about SslSessionCache for every set of sessions, ids, threads    *)
(* and contexts: the list of the cache is its hash table, the references   *)
(* are exact, no session that was marked is left in the cache, and a       *)
(* ticket is used once.                                                    *)
(***************************************************************************)
EXTENDS SslSessionCache, FiniteSetTheorems, WellFoundedInduction, TLAPS

(***************************************************************************)
(* Induction, as the least counterexample.                                 *)
(***************************************************************************)

\* Every set of numbers that is not empty has a least one.
LEMMA Least ==
    ASSUME NEW T \in SUBSET Nat, T # {}
    PROVE  \E m \in T : \A k \in T : m <= k
  <1> DEFINE R == OpToRel(<, Nat)
  <1>1. IsWellFoundedOn(R, Nat)
    BY NatLessThanWellFounded, Zenon
  <1>2. \A x, y \in Nat : <<x, y>> \in R <=> x < y
    BY DEF OpToRel
  <1> HIDE DEF R
  <1>3. PICK m \in T : \A y \in T : ~(<<y, m>> \in R)
    BY <1>1, WFMin
  <1>4. \A k \in T : ~(k < m)
    BY <1>2, <1>3
  <1> QED
    BY <1>4

(***************************************************************************)
(* A store x, the sessions C that its list is to hold, and a count K of    *)
(* the references that are held outside of the cache and the application.  *)
(***************************************************************************)

Plus(K, s) == [q \in Structs |-> IF q = s THEN K[q] + 1 ELSE K[q]]

Minus(K, s) == [q \in Structs |-> IF q = s THEN K[q] - 1 ELSE K[q]]

In(s, C) == IF s \in C THEN 1 ELSE 0

\* The list is L[1], ..., L[n], from the head to the tail.
IsList(x, C, n, L) ==
    /\ n \in Nat /\ L \in [1..n -> Structs]
    /\ \A a, b \in 1..n : L[a] = L[b] => a = b
    /\ \A a \in 1..n : L[a] \in C
    /\ \A s \in C : \E a \in 1..n : L[a] = s
    /\ x.head = IF n = 0 THEN NULL ELSE L[1]
    /\ x.tail = IF n = 0 THEN NULL ELSE L[n]
    /\ \A a \in 1..n :
         /\ x.mem[L[a]].next = IF a = n THEN TailMark ELSE L[a + 1]
         /\ x.mem[L[a]].prev = IF a = 1 THEN HeadMark ELSE L[a - 1]
    /\ \A s \in Structs \ C : x.mem[s].next = NULL /\ x.mem[s].prev = NULL

Linked(x, C) == \E n, L : IsList(x, C, n, L)

Counted(x, C, K) ==
    \A s \in Structs :
      x.mem[s].references = In(s, C) + In(s, Kept(x)) + K[s]

Sound(x, C, K) ==
    /\ x \in Store /\ C \subseteq Structs /\ K \in [Structs -> Nat]
    /\ Linked(x, C)
    /\ Counted(x, C, K)
    /\ KeptUnderTheirIds(x)

Hashed(x) ==
    \A i \in Ids : x.sessions[i] # NULL => x.mem[x.sessions[i]].id = i

Good(x, K) == Sound(x, Cached(x), K) /\ Hashed(x)

\* The marks are no sessions, and not NULL.
LEMMA Marks ==
    /\ NULL \notin Structs /\ NULL # HeadMark /\ NULL # TailMark /\ NULL # Encoded
    /\ HeadMark \notin Structs /\ TailMark \notin Structs /\ Encoded \notin Structs
    /\ HeadMark # TailMark
    /\ NoId \notin Ids
    BY SessionCacheAssumption DEF HeadMark, TailMark, Encoded

\* The fields of a store.
LEMMA StoreFields ==
    ASSUME NEW x \in Store
    PROVE  /\ \A q \in Structs :
                /\ x.mem[q] \in Session
                /\ x.mem[q].references \in Nat
                /\ x.mem[q].id \in Ids \cup {NoId}
                /\ x.mem[q].not_resumable \in BOOLEAN
                /\ x.mem[q].next \in Links /\ x.mem[q].prev \in Links
           /\ \A i \in Ids : x.sessions[i] \in Structs \cup {NULL}
           /\ \A i \in Ids : x.ext[i] \in Structs \cup {NULL, Encoded}
           /\ x.head \in Structs \cup {NULL} /\ x.tail \in Structs \cup {NULL}
           /\ x.mem \in [Structs -> Session]
           /\ x.sessions \in [Ids -> Structs \cup {NULL}]
           /\ x.ext \in [Ids -> Structs \cup {NULL, Encoded}]
    BY DEF Store, Session

\* The sessions of the cache are sessions.
LEMMA CachedInStructs ==
    ASSUME NEW x \in Store
    PROVE  /\ Cached(x) \subseteq Structs
           /\ Kept(x) \subseteq Structs
           /\ \A s \in Structs : s \in Cached(x) <=> \E i \in Ids : x.sessions[i] = s
           /\ \A s \in Structs : s \in Kept(x) <=> \E i \in Ids : x.ext[i] = s
    BY StoreFields, Marks DEF Cached, Kept

(***************************************************************************)
(* The doubly linked list.                                                 *)
(***************************************************************************)

\* Only head, tail, next and prev count.
LEMMA LinkedFrame ==
    ASSUME NEW x, NEW y, NEW C \in SUBSET Structs, Linked(x, C),
           y.head = x.head, y.tail = x.tail,
           \A s \in Structs : /\ y.mem[s].next = x.mem[s].next
                              /\ y.mem[s].prev = x.mem[s].prev
    PROVE  Linked(y, C)
  <1>1. PICK n, L : IsList(x, C, n, L)
    BY DEF Linked
  <1>2. IsList(y, C, n, L)
    <2>1. \A a \in 1..n : L[a] \in Structs
      BY <1>1 DEF IsList
    <2>2. \A a \in 1..n : /\ y.mem[L[a]].next = x.mem[L[a]].next
                          /\ y.mem[L[a]].prev = x.mem[L[a]].prev
      BY <2>1
    <2> QED
      BY <1>1, <2>2 DEF IsList
  <1> QED
    BY <1>2 DEF Linked

\* The tail is a session of the list, unless the list is empty; the sessions
\* of the list, and no others, have links.
LEMMA TailIsLinked ==
    ASSUME NEW x, NEW C \in SUBSET Structs, Linked(x, C)
    PROVE  /\ x.tail = NULL => C = {}
           /\ x.tail # NULL => x.tail \in C
           /\ \A s \in Structs : s \in C <=> x.mem[s].next # NULL
           /\ \A s \in Structs : s \in C <=> x.mem[s].prev # NULL
  <1>1. PICK n, L : IsList(x, C, n, L)
    BY DEF Linked
  <1>2. n \in Nat /\ \A a \in 1..n : L[a] \in Structs
    BY <1>1 DEF IsList
  <1>3. CASE n = 0
    BY <1>1, <1>3, Marks DEF IsList
  <1>4. CASE n > 0
    <2>1. x.tail = L[n] /\ L[n] \in C /\ L[n] \in Structs
      BY <1>1, <1>2, <1>4 DEF IsList
    <2>2. \A s \in C : x.mem[s].next # NULL /\ x.mem[s].prev # NULL
      <3> SUFFICES ASSUME NEW s \in C
                   PROVE  x.mem[s].next # NULL /\ x.mem[s].prev # NULL
        OBVIOUS
      <3>1. PICK a \in 1..n : L[a] = s
        BY <1>1 DEF IsList
      <3>2. x.mem[s].next = IF a = n THEN TailMark ELSE L[a + 1]
        BY <1>1, <3>1 DEF IsList
      <3>3. x.mem[s].prev = IF a = 1 THEN HeadMark ELSE L[a - 1]
        BY <1>1, <3>1 DEF IsList
      <3>4. (a # n => L[a + 1] \in Structs) /\ (a # 1 => L[a - 1] \in Structs)
        BY <1>2
      <3> QED
        BY <3>2, <3>3, <3>4, Marks
    <2>3. \A s \in Structs \ C : x.mem[s].next = NULL /\ x.mem[s].prev = NULL
      BY <1>1 DEF IsList
    <2> QED
      BY <2>1, <2>2, <2>3, Marks
  <1> QED
    BY <1>2, <1>3, <1>4

\* What two stores have in common when only their lists may differ.
SameButLinks(x, y) ==
    /\ y.sessions = x.sessions /\ y.ext = x.ext
    /\ \A q \in Structs :
         /\ y.mem[q].references = x.mem[q].references
         /\ y.mem[q].id = x.mem[q].id
         /\ y.mem[q].not_resumable = x.mem[q].not_resumable

\* A session between p and n is unlinked.
LEMMA RemoveFields ==
    ASSUME NEW x \in Store, NEW s \in Structs, NEW n, NEW p,
           n = x.mem[s].next, p = x.mem[s].prev,
           n \in Structs \cup {TailMark}, p \in Structs \cup {HeadMark}
    PROVE  LET y == SSL_SESSION_list_remove(x, s)
           IN  /\ y \in Store
               /\ SameButLinks(x, y)
               /\ y.head = IF p # HeadMark THEN x.head
                           ELSE IF n = TailMark THEN NULL ELSE n
               /\ y.tail = IF n # TailMark THEN x.tail
                           ELSE IF p = HeadMark THEN NULL ELSE p
               /\ \A q \in Structs :
                    /\ y.mem[q].next = IF q = s THEN NULL
                                       ELSE IF q = p THEN n ELSE x.mem[q].next
                    /\ y.mem[q].prev = IF q = s THEN NULL
                                       ELSE IF q = n THEN p ELSE x.mem[q].prev
  <1> DEFINE h == IF p # HeadMark THEN x.head ELSE IF n = TailMark THEN NULL ELSE n
             l == IF n # TailMark THEN x.tail ELSE IF p = HeadMark THEN NULL ELSE p
             nx(q) == IF q = s THEN NULL ELSE IF q = p THEN n ELSE x.mem[q].next
             pv(q) == IF q = s THEN NULL ELSE IF q = n THEN p ELSE x.mem[q].prev
             m == [q \in Structs |-> [x.mem[q] EXCEPT !.next = nx(q), !.prev = pv(q)]]
             y == [x EXCEPT !.head = h, !.tail = l, !.mem = m]
  <1>1. SSL_SESSION_list_remove(x, s) = y
    BY Marks DEF SSL_SESSION_list_remove
  <1>2. h \in Structs \cup {NULL} /\ l \in Structs \cup {NULL}
    BY StoreFields, Marks
  <1>3. \A q \in Structs : nx(q) \in Links /\ pv(q) \in Links
    BY StoreFields DEF Links
  <1>4. \A q \in Structs :
          /\ m[q] \in Session
          /\ m[q].references = x.mem[q].references /\ m[q].id = x.mem[q].id
          /\ m[q].not_resumable = x.mem[q].not_resumable
          /\ m[q].next = nx(q) /\ m[q].prev = pv(q)
    <2> TAKE q \in Structs
    <2> DEFINE w == x.mem[q]
               a == nx(q)
               b == pv(q)
    <2>1. w \in Session /\ a \in Links /\ b \in Links
      BY <1>3, StoreFields
    <2>2. m[q] = [w EXCEPT !.next = a, !.prev = b]
      OBVIOUS
    <2> HIDE DEF w, a, b, m
    <2>3. /\ m[q] \in Session
          /\ m[q].references = w.references /\ m[q].id = w.id
          /\ m[q].not_resumable = w.not_resumable /\ m[q].next = a /\ m[q].prev = b
      BY <2>1, <2>2 DEF Session
    <2> QED
      BY <2>3 DEF w, a, b
  <1>5. /\ y.head = h /\ y.tail = l /\ y.mem = m
        /\ y.sessions = x.sessions /\ y.ext = x.ext
    <2> HIDE DEF h, l, m
    <2> QED
      BY DEF Store
  <1>6. y \in Store
    <2>1. m \in [Structs -> Session]
      <3> HIDE DEF nx, pv
      <3> QED
        BY <1>4
    <2> HIDE DEF h, l, m
    <2> QED
      BY <2>1, <1>2 DEF Store
  <1> HIDE DEF h, l, m, nx, pv, y
  <1>7. SameButLinks(x, y)
    BY <1>4, <1>5 DEF SameButLinks
  <1>8. \A q \in Structs : y.mem[q].next = nx(q) /\ y.mem[q].prev = pv(q)
    BY <1>4, <1>5
  <1> QED
    BY <1>1, <1>5, <1>6, <1>7, <1>8 DEF h, l, nx, pv

\* SSL_SESSION_list_remove of a session of the list takes it out of the list.
LEMMA ListRemove ==
    ASSUME NEW x \in Store, NEW C \in SUBSET Structs, Linked(x, C), NEW s \in C
    PROVE  LET y == SSL_SESSION_list_remove(x, s)
           IN  y \in Store /\ SameButLinks(x, y) /\ Linked(y, C \ {s})
  <1>1. PICK n, L : IsList(x, C, n, L)
    BY DEF Linked
  <1>2. n \in Nat /\ \A b \in 1..n : L[b] \in Structs
    BY <1>1 DEF IsList
  <1>3. PICK a \in 1..n : L[a] = s
    BY <1>1 DEF IsList
  <1> DEFINE nx == x.mem[s].next
             pv == x.mem[s].prev
             y == SSL_SESSION_list_remove(x, s)
             M == [b \in 1..n - 1 |-> IF b < a THEN L[b] ELSE L[b + 1]]
  <1>4. /\ nx = IF a = n THEN TailMark ELSE L[a + 1]
        /\ pv = IF a = 1 THEN HeadMark ELSE L[a - 1]
    BY <1>1, <1>3 DEF IsList
  <1>5. nx \in Structs \cup {TailMark} /\ pv \in Structs \cup {HeadMark}
    BY <1>2, <1>4
  <1>6. /\ y \in Store /\ SameButLinks(x, y)
        /\ y.head = IF pv # HeadMark THEN x.head ELSE IF nx = TailMark THEN NULL ELSE nx
        /\ y.tail = IF nx # TailMark THEN x.tail ELSE IF pv = HeadMark THEN NULL ELSE pv
        /\ \A q \in Structs :
             /\ y.mem[q].next = IF q = s THEN NULL
                                ELSE IF q = pv THEN nx ELSE x.mem[q].next
             /\ y.mem[q].prev = IF q = s THEN NULL
                                ELSE IF q = nx THEN pv ELSE x.mem[q].prev
    BY <1>5, RemoveFields
  <1> HIDE DEF nx, pv, y
  <1>7. n - 1 \in Nat /\ M \in [1..n - 1 -> Structs]
    BY <1>2
  <1>8. \A b \in 1..n - 1 : M[b] = IF b < a THEN L[b] ELSE L[b + 1]
    OBVIOUS
  <1> HIDE DEF M
  <1>9. \A b, c \in 1..n : L[b] = L[c] => b = c
    BY <1>1 DEF IsList
  <1>10. \A b, c \in 1..n - 1 : M[b] = M[c] => b = c
    BY <1>2, <1>8, <1>9
  <1>11. \A b \in 1..n - 1 : M[b] \in C \ {s}
    <2>1. \A b \in 1..n : L[b] \in C
      BY <1>1 DEF IsList
    <2> QED
      BY <2>1, <1>2, <1>3, <1>8, <1>9
  <1>12. \A q \in C \ {s} : \E b \in 1..n - 1 : M[b] = q
    <2> SUFFICES ASSUME NEW q \in C, q # s
                 PROVE  \E b \in 1..n - 1 : M[b] = q
      OBVIOUS
    <2>1. PICK b \in 1..n : L[b] = q
      BY <1>1 DEF IsList
    <2>2. CASE b < a
      BY <2>1, <2>2, <1>2, <1>8
    <2>3. CASE b > a
      <3>1. b - 1 \in 1..n - 1 /\ ~(b - 1 < a) /\ (b - 1) + 1 = b
        BY <2>3, <1>2
      <3>2. M[b - 1] = L[b]
        BY <3>1, <1>8
      <3> QED
        BY <3>1, <3>2, <2>1
    <2>4. b # a
      BY <2>1, <1>3
    <2> QED
      BY <2>2, <2>3, <2>4, <1>2
  <1>13. /\ y.head = IF n - 1 = 0 THEN NULL ELSE M[1]
         /\ y.tail = IF n - 1 = 0 THEN NULL ELSE M[n - 1]
    <2>1. x.head = L[1] /\ x.tail = L[n]
      BY <1>1, <1>2, <1>3 DEF IsList
    <2>2. /\ pv = HeadMark <=> a = 1
          /\ nx = TailMark <=> a = n
      BY <1>2, <1>4, Marks
    <2>3. CASE n = 1
      BY <2>2, <2>3, <1>6
    <2>4. CASE n > 1
      <3>1. M[1] = IF 1 < a THEN L[1] ELSE L[2]
        BY <2>4, <1>2, <1>8
      <3>2. M[n - 1] = IF n - 1 < a THEN L[n - 1] ELSE L[n]
        BY <2>4, <1>2, <1>8
      <3> QED
        BY <3>1, <3>2, <2>1, <2>2, <2>4, <1>2, <1>4, <1>6
    <2> QED
      BY <2>3, <2>4, <1>2
  <1>14. ASSUME NEW b \in 1..n - 1
         PROVE  /\ y.mem[M[b]].next = IF b = n - 1 THEN TailMark ELSE M[b + 1]
                /\ y.mem[M[b]].prev = IF b = 1 THEN HeadMark ELSE M[b - 1]
    <2> DEFINE c == IF b < a THEN b ELSE b + 1
    <2>1. c \in 1..n /\ c # a /\ M[b] = L[c]
      BY <1>2, <1>8
    <2>2. /\ x.mem[L[c]].next = IF c = n THEN TailMark ELSE L[c + 1]
          /\ x.mem[L[c]].prev = IF c = 1 THEN HeadMark ELSE L[c - 1]
      BY <2>1, <1>1 DEF IsList
    <2>3. L[c] # s /\ L[c] \in Structs
      BY <2>1, <1>2, <1>3, <1>9
    <2>4. /\ L[c] = pv <=> c = a - 1
          /\ L[c] = nx <=> c = a + 1
      BY <2>1, <1>2, <1>4, <1>9, Marks
    <2>5. /\ y.mem[L[c]].next = IF c = a - 1 THEN nx ELSE x.mem[L[c]].next
          /\ y.mem[L[c]].prev = IF c = a + 1 THEN pv ELSE x.mem[L[c]].prev
      BY <2>3, <2>4, <1>6
    <2>6. y.mem[M[b]].next = IF b = n - 1 THEN TailMark ELSE M[b + 1]
      <3>1. CASE b + 1 < a
        BY <3>1, <2>1, <2>2, <2>5, <1>2, <1>8
      <3>2. CASE b + 1 = a
        BY <3>2, <2>1, <2>2, <2>5, <1>2, <1>4, <1>8
      <3>3. CASE b + 1 > a
        BY <3>3, <2>1, <2>2, <2>5, <1>2, <1>8
      <3> QED
        BY <3>1, <3>2, <3>3, <1>2
    <2>7. y.mem[M[b]].prev = IF b = 1 THEN HeadMark ELSE M[b - 1]
      <3>1. CASE b < a
        BY <3>1, <2>1, <2>2, <2>5, <1>2, <1>8
      <3>2. CASE b = a
        BY <3>2, <2>1, <2>2, <2>5, <1>2, <1>4, <1>8
      <3>3. CASE b > a
        BY <3>3, <2>1, <2>2, <2>5, <1>2, <1>8
      <3> QED
        BY <3>1, <3>2, <3>3, <1>2
    <2> QED
      BY <2>6, <2>7
  <1>15. \A q \in Structs \ (C \ {s}) : y.mem[q].next = NULL /\ y.mem[q].prev = NULL
    <2> SUFFICES ASSUME NEW q \in Structs, q \notin C, q # s
                 PROVE  y.mem[q].next = NULL /\ y.mem[q].prev = NULL
      BY <1>6
    <2>1. x.mem[q].next = NULL /\ x.mem[q].prev = NULL
      BY <1>1 DEF IsList
    <2>2. q # pv /\ q # nx
      <3>1. \A b \in 1..n : q # L[b]
        BY <1>1 DEF IsList
      <3> QED
        BY <3>1, <1>2, <1>4, Marks
    <2> QED
      BY <2>1, <2>2, <1>6
  <1>16. IsList(y, C \ {s}, n - 1, M)
    BY <1>7, <1>10, <1>11, <1>12, <1>13, <1>14, <1>15 DEF IsList
  <1> QED
    BY <1>6, <1>16 DEF Linked, y

\* SSL_SESSION_list_add puts a session that is not in the list before its
\* head.
LEMMA ListAdd ==
    ASSUME NEW x \in Store, NEW C \in SUBSET Structs, Linked(x, C),
           NEW s \in Structs, s \notin C
    PROVE  LET y == SSL_SESSION_list_add(x, s)
           IN  y \in Store /\ SameButLinks(x, y) /\ Linked(y, C \cup {s})
  <1>1. PICK n, L : IsList(x, C, n, L)
    BY DEF Linked
  <1>2. n \in Nat /\ \A b \in 1..n : L[b] \in Structs
    BY <1>1 DEF IsList
  <1>3. x.mem[s].next = NULL
    BY <1>1 DEF IsList
  <1>4. SSL_SESSION_list_remove(x, s) = x
    BY <1>3 DEF SSL_SESSION_list_remove
  <1> DEFINE old == x.head
             nx == IF old = NULL THEN TailMark ELSE old
             l == IF old = NULL THEN s ELSE x.tail
             linked == [x.mem EXCEPT ![s].prev = HeadMark, ![s].next = nx]
             m == IF old = NULL THEN linked ELSE [linked EXCEPT ![old].prev = s]
             y == SSL_SESSION_list_add(x, s)
  <1>5. y = [x EXCEPT !.head = s, !.tail = l, !.mem = m]
    BY <1>4 DEF SSL_SESSION_list_add
  <1>6. /\ old \in Structs \cup {NULL} /\ l \in Structs \cup {NULL}
        /\ nx \in Links /\ HeadMark \in Links
        /\ \A q \in Structs : q \in Links
    BY StoreFields DEF Links
  <1>7. old # s
    BY <1>1, <1>2, Marks DEF IsList
  <1>8. /\ linked \in [Structs -> Session]
        /\ \A q \in Structs :
             /\ linked[q].references = x.mem[q].references
             /\ linked[q].id = x.mem[q].id
             /\ linked[q].not_resumable = x.mem[q].not_resumable
             /\ linked[q].next = IF q = s THEN nx ELSE x.mem[q].next
             /\ linked[q].prev = IF q = s THEN HeadMark ELSE x.mem[q].prev
    <2> HIDE DEF nx, old
    <2> QED
      BY <1>6, StoreFields DEF Session
  <1>9. /\ m \in [Structs -> Session]
        /\ \A q \in Structs :
             /\ m[q].references = x.mem[q].references
             /\ m[q].id = x.mem[q].id
             /\ m[q].not_resumable = x.mem[q].not_resumable
             /\ m[q].next = IF q = s THEN nx ELSE x.mem[q].next
             /\ m[q].prev = IF q = s THEN HeadMark
                            ELSE IF q = old THEN s ELSE x.mem[q].prev
    <2> HIDE DEF nx, linked
    <2>1. CASE old = NULL
      BY <2>1, <1>8, Marks
    <2>2. CASE old # NULL
      <3>1. old \in Structs /\ m = [linked EXCEPT ![old].prev = s]
        BY <2>2, <1>6
      <3> HIDE DEF old, m
      <3>2. m \in [Structs -> Session]
        BY <3>1, <1>6, <1>8 DEF Session
      <3>3. ASSUME NEW q \in Structs
            PROVE  /\ m[q].references = linked[q].references
                   /\ m[q].id = linked[q].id
                   /\ m[q].not_resumable = linked[q].not_resumable
                   /\ m[q].next = linked[q].next
                   /\ m[q].prev = IF q = old THEN s ELSE linked[q].prev
        <4>1. linked[q] \in Session
          BY <1>8
        <4>2. CASE q = old
          <5>1. m[q] = [linked[q] EXCEPT !.prev = s]
            BY <4>2, <3>1, <1>8
          <5> QED
            BY <5>1, <4>1, <4>2 DEF Session
        <4>3. CASE q # old
          BY <4>3, <3>1, <1>8
        <4> QED
          BY <4>2, <4>3
      <3> QED
        BY <3>2, <3>3, <1>7, <1>8
    <2> QED
      BY <2>1, <2>2
  <1>10. /\ y \in Store /\ y.head = s /\ y.tail = l /\ y.mem = m
         /\ y.sessions = x.sessions /\ y.ext = x.ext
    <2>1. m \in [Structs -> Session] /\ l \in Structs \cup {NULL}
      BY <1>6, <1>9
    <2> HIDE DEF m, l, y
    <2> QED
      BY <1>5, <2>1 DEF Store
  <1> HIDE DEF m, linked, y
  <1>11. SameButLinks(x, y)
    BY <1>9, <1>10 DEF SameButLinks
  <1>12. \A q \in Structs :
           /\ y.mem[q].next = IF q = s THEN nx ELSE x.mem[q].next
           /\ y.mem[q].prev = IF q = s THEN HeadMark
                              ELSE IF q = old THEN s ELSE x.mem[q].prev
    BY <1>9, <1>10
  <1> DEFINE M == [b \in 1..n + 1 |-> IF b = 1 THEN s ELSE L[b - 1]]
  <1>13. M \in [1..n + 1 -> Structs] /\ n + 1 \in Nat
    BY <1>2
  <1>14. \A b \in 1..n + 1 : M[b] = IF b = 1 THEN s ELSE L[b - 1]
    OBVIOUS
  <1> HIDE DEF M
  <1>15. /\ \A b \in 1..n : L[b] \in C
         /\ \A b, c \in 1..n : L[b] = L[c] => b = c
         /\ \A q \in C : \E b \in 1..n : L[b] = q
         /\ old = IF n = 0 THEN NULL ELSE L[1]
         /\ x.tail = IF n = 0 THEN NULL ELSE L[n]
         /\ \A b \in 1..n :
              /\ x.mem[L[b]].next = IF b = n THEN TailMark ELSE L[b + 1]
              /\ x.mem[L[b]].prev = IF b = 1 THEN HeadMark ELSE L[b - 1]
         /\ \A q \in Structs \ C : x.mem[q].next = NULL /\ x.mem[q].prev = NULL
    BY <1>1 DEF IsList
  <1>16. old = NULL <=> n = 0
    BY <1>2, <1>15, Marks
  <1> HIDE DEF old
  <1>17. \A b, c \in 1..n + 1 : M[b] = M[c] => b = c
    BY <1>2, <1>14, <1>15
  <1>18. \A b \in 1..n + 1 : M[b] \in C \cup {s}
    BY <1>2, <1>14, <1>15
  <1>19. \A q \in C \cup {s} : \E b \in 1..n + 1 : M[b] = q
    <2>1. M[1] = s /\ 1 \in 1..n + 1
      BY <1>2, <1>14
    <2>2. \A b \in 1..n : b + 1 \in 1..n + 1 /\ M[b + 1] = L[b]
      BY <1>2, <1>14
    <2> QED
      BY <2>1, <2>2, <1>15
  <1>20. y.head = M[1] /\ y.tail = M[n + 1]
    BY <1>2, <1>10, <1>14, <1>15, <1>16
  <1>21. ASSUME NEW b \in 1..n + 1
         PROVE  /\ y.mem[M[b]].next = IF b = n + 1 THEN TailMark ELSE M[b + 1]
                /\ y.mem[M[b]].prev = IF b = 1 THEN HeadMark ELSE M[b - 1]
    <2>1. CASE b = 1
      <3>1. M[b] = s /\ (n # 0 => M[b + 1] = L[1])
        BY <2>1, <1>2, <1>14
      <3> QED
        BY <2>1, <3>1, <1>2, <1>12, <1>15, <1>16
    <2>2. CASE b # 1
      <3>1. /\ b - 1 \in 1..n /\ M[b] = L[b - 1] /\ L[b - 1] \in Structs /\ L[b - 1] # s
            /\ b # n + 1 => M[b + 1] = L[b]
            /\ M[b - 1] = IF b = 2 THEN s ELSE L[b - 2]
        BY <2>2, <1>2, <1>14, <1>15
      <3>2. L[b - 1] = old <=> b = 2
        BY <2>2, <3>1, <1>2, <1>15
      <3>3. /\ x.mem[L[b - 1]].next = IF b - 1 = n THEN TailMark ELSE L[b]
            /\ x.mem[L[b - 1]].prev = IF b - 1 = 1 THEN HeadMark ELSE L[b - 2]
        BY <3>1, <1>2, <1>15
      <3> QED
        BY <2>2, <3>1, <3>2, <3>3, <1>2, <1>12
    <2> QED
      BY <2>1, <2>2
  <1>22. \A q \in Structs \ (C \cup {s}) : y.mem[q].next = NULL /\ y.mem[q].prev = NULL
    <2>1. old # NULL => old \in C
      BY <1>2, <1>15, <1>16
    <2> QED
      BY <2>1, <1>12, <1>15, Marks
  <1>23. IsList(y, C \cup {s}, n + 1, M)
    <2>1. n + 1 # 0
      BY <1>2
    <2> QED
      BY <2>1, <1>13, <1>17, <1>18, <1>19, <1>20, <1>21, <1>22 DEF IsList
  <1> QED
    BY <1>10, <1>11, <1>23 DEF Linked, y

(***************************************************************************)
(* The references.                                                         *)
(***************************************************************************)

\* Adding to and subtracting from a count.
LEMMA PlusMinus ==
    ASSUME NEW K \in [Structs -> Nat], NEW s
    PROVE  /\ Plus(K, s) \in [Structs -> Nat]
           /\ \A q \in Structs : Plus(K, s)[q] = IF q = s THEN K[q] + 1 ELSE K[q]
           /\ \A q \in Structs : Minus(K, s)[q] = IF q = s THEN K[q] - 1 ELSE K[q]
           /\ (s \in Structs => K[s] > 0) => Minus(K, s) \in [Structs -> Nat]
           /\ Minus(Plus(K, s), s) = K
           /\ s \notin Structs => Plus(K, s) = K /\ Minus(K, s) = K
  <1>1. \A q \in Structs : K[q] \in Nat
    OBVIOUS
  <1>2. /\ Plus(K, s) \in [Structs -> Nat]
        /\ \A q \in Structs : Plus(K, s)[q] = IF q = s THEN K[q] + 1 ELSE K[q]
        /\ \A q \in Structs : Minus(K, s)[q] = IF q = s THEN K[q] - 1 ELSE K[q]
    BY <1>1 DEF Plus, Minus
  <1>3. ASSUME s \in Structs => K[s] > 0
        PROVE  Minus(K, s) \in [Structs -> Nat]
    BY <1>1, <1>3 DEF Minus
  <1>4. Minus(Plus(K, s), s) = K
    <2>1. \A q \in Structs : Minus(Plus(K, s), s)[q] = K[q]
      BY <1>1, <1>2 DEF Minus
    <2> QED
      BY <2>1 DEF Minus
  <1>5. s \notin Structs => Plus(K, s) = K /\ Minus(K, s) = K
    BY <1>1 DEF Plus, Minus
  <1> QED
    BY <1>2, <1>3, <1>4, <1>5

\* Linking or unlinking moves a reference between the cache and its caller.
LEMMA SoundMove ==
    ASSUME NEW x, NEW C, NEW K, Sound(x, C, K), NEW y \in Store, SameButLinks(x, y),
           NEW D \in SUBSET Structs, NEW H \in [Structs -> Nat], Linked(y, D),
           \A q \in Structs : In(q, C) + K[q] = In(q, D) + H[q]
    PROVE  Sound(y, D, H)
  <1>1. Kept(y) = Kept(x)
    BY DEF SameButLinks, Kept
  <1>2. KeptUnderTheirIds(y)
    BY DEF SameButLinks, KeptUnderTheirIds, Sound
  <1>3. Counted(y, D, H)
    <2> SUFFICES ASSUME NEW q \in Structs
                 PROVE  y.mem[q].references = In(q, D) + In(q, Kept(y)) + H[q]
      BY DEF Counted
    <2>1. y.mem[q].references = In(q, C) + In(q, Kept(x)) + K[q]
      BY DEF SameButLinks, Sound, Counted
    <2>2. /\ In(q, C) \in Nat /\ In(q, D) \in Nat /\ In(q, Kept(x)) \in Nat
          /\ K[q] \in Nat /\ H[q] \in Nat
      BY DEF In, Sound
    <2> QED
      BY <2>1, <2>2, <1>1
  <1> QED
    BY <1>2, <1>3 DEF Sound

\* SSL_SESSION_list_remove: the reference of the list becomes its caller's.
LEMMA SoundRemove ==
    ASSUME NEW x, NEW C, NEW K, Sound(x, C, K), NEW s \in C
    PROVE  /\ Sound(SSL_SESSION_list_remove(x, s), C \ {s}, Plus(K, s))
           /\ SameButLinks(x, SSL_SESSION_list_remove(x, s))
  <1> DEFINE y == SSL_SESSION_list_remove(x, s)
             D == C \ {s}
             H == Plus(K, s)
  <1>1. y \in Store /\ SameButLinks(x, y) /\ Linked(y, D)
    BY ListRemove DEF Sound
  <1>2. \A q \in Structs : In(q, C) + K[q] = In(q, D) + H[q]
    BY PlusMinus DEF In, Sound
  <1>3. H \in [Structs -> Nat] /\ D \in SUBSET Structs
    BY PlusMinus DEF Sound
  <1> HIDE DEF y, D, H
  <1>4. Sound(y, D, H)
    BY <1>1, <1>2, <1>3, SoundMove
  <1> QED
    BY <1>1, <1>4 DEF y, D, H

\* SSL_SESSION_list_add: the caller's reference becomes that of the list.
LEMMA SoundAdd ==
    ASSUME NEW x, NEW C, NEW K, Sound(x, C, K),
           NEW s \in Structs, s \notin C, K[s] > 0
    PROVE  /\ Sound(SSL_SESSION_list_add(x, s), C \cup {s}, Minus(K, s))
           /\ SameButLinks(x, SSL_SESSION_list_add(x, s))
  <1> DEFINE y == SSL_SESSION_list_add(x, s)
  <1>1. y \in Store /\ SameButLinks(x, y) /\ Linked(y, C \cup {s})
    BY ListAdd DEF Sound
  <1>2. \A q \in Structs : In(q, C) + K[q] = In(q, C \cup {s}) + Minus(K, s)[q]
    BY PlusMinus DEF In, Sound
  <1>3. Minus(K, s) \in [Structs -> Nat] /\ C \cup {s} \in SUBSET Structs
    BY PlusMinus DEF Sound
  <1> HIDE DEF y
  <1>4. Sound(y, C \cup {s}, Minus(K, s))
    BY <1>1, <1>2, <1>3, SoundMove
  <1> QED
    BY <1>1, <1>4 DEF y

\* A new reference is its caller's.
LEMMA SoundUpRef ==
    ASSUME NEW x, NEW C, NEW K, Sound(x, C, K), NEW s \in Structs
    PROVE  LET y == SSL_SESSION_up_ref(x, s)
           IN  /\ Sound(y, C, Plus(K, s))
               /\ y.sessions = x.sessions /\ y.ext = x.ext
               /\ \A q \in Structs : /\ y.mem[q].id = x.mem[q].id
                                     /\ y.mem[q].not_resumable = x.mem[q].not_resumable
               /\ \A q \in Structs : q # s => y.mem[q].references = x.mem[q].references
  <1> DEFINE y == SSL_SESSION_up_ref(x, s)
             m == [x.mem EXCEPT ![s].references = @ + 1]
  <1>1. x \in Store
    BY DEF Sound
  <1>2. y = [x EXCEPT !.mem = m]
    BY <1>1 DEF SSL_SESSION_up_ref, Store
  <1>3. /\ m \in [Structs -> Session]
        /\ \A q \in Structs :
             /\ m[q].references = IF q = s THEN x.mem[q].references + 1
                                           ELSE x.mem[q].references
             /\ m[q].id = x.mem[q].id
             /\ m[q].not_resumable = x.mem[q].not_resumable
             /\ m[q].next = x.mem[q].next
             /\ m[q].prev = x.mem[q].prev
    BY <1>1, StoreFields DEF Session
  <1>4. /\ y \in Store /\ y.mem = m /\ y.head = x.head /\ y.tail = x.tail
        /\ y.sessions = x.sessions /\ y.ext = x.ext
    <2>1. m \in [Structs -> Session]
      BY <1>3
    <2> HIDE DEF m, y
    <2> QED
      BY <1>1, <1>2, <2>1 DEF Store
  <1> HIDE DEF m, y
  <1>5. Linked(y, C)
    BY <1>3, <1>4, LinkedFrame DEF Sound
  <1>6. Kept(y) = Kept(x)
    BY <1>4 DEF Kept
  <1>7. KeptUnderTheirIds(y)
    BY <1>3, <1>4 DEF KeptUnderTheirIds, Sound
  <1>8. Counted(y, C, Plus(K, s))
    <2> SUFFICES ASSUME NEW q \in Structs
                 PROVE  y.mem[q].references = In(q, C) + In(q, Kept(y)) + Plus(K, s)[q]
      BY DEF Counted
    <2>1. x.mem[q].references = In(q, C) + In(q, Kept(x)) + K[q]
      BY DEF Sound, Counted
    <2>2. In(q, C) \in Nat /\ In(q, Kept(x)) \in Nat /\ K[q] \in Nat
      BY DEF In, Sound
    <2>3. Plus(K, s)[q] = IF q = s THEN K[q] + 1 ELSE K[q]
      BY PlusMinus DEF Sound
    <2> QED
      BY <2>1, <2>2, <2>3, <1>3, <1>4, <1>6
  <1>9. Plus(K, s) \in [Structs -> Nat]
    BY PlusMinus DEF Sound
  <1>10. Sound(y, C, Plus(K, s))
    BY <1>4, <1>5, <1>7, <1>8, <1>9 DEF Sound
  <1> QED
    BY <1>3, <1>4, <1>10 DEF y

\* Who is still referred to was so before, and keeps its id.
Alive(x, y) ==
    \A q \in Structs :
      y.mem[q].references > 0 =>
        x.mem[q].references > 0 /\ y.mem[q].id = x.mem[q].id

\* SSL_SESSION_free gives a reference up.  It clears no session that the
\* cache, the application or somebody else still has.
LEMMA SoundFree ==
    ASSUME NEW x, NEW C, NEW K, Sound(x, C, K), NEW s \in Structs \cup {NULL},
           s \in Structs => K[s] > 0
    PROVE  LET y == SSL_SESSION_free(x, s)
           IN  /\ Sound(y, C, Minus(K, s))
               /\ y.sessions = x.sessions /\ y.ext = x.ext
               /\ \A q \in Structs : y.mem[q].id \in {x.mem[q].id, NoId}
               /\ \A q \in Structs :
                    y.mem[q].not_resumable => x.mem[q].not_resumable
               /\ \A q \in Structs : q \in C \/ q # s => y.mem[q].id = x.mem[q].id
               /\ Alive(x, y)
  <1> DEFINE y == SSL_SESSION_free(x, s)
             H == Minus(K, s)
  <1>1. x \in Store /\ C \subseteq Structs /\ K \in [Structs -> Nat]
        /\ Linked(x, C) /\ Counted(x, C, K) /\ KeptUnderTheirIds(x)
    BY DEF Sound
  <1>2. CASE s = NULL
    <2>1. y = x /\ H = K
      BY <1>1, <1>2, PlusMinus, Marks DEF SSL_SESSION_free
    <2> QED
      BY <2>1 DEF Alive
  <1>3. CASE s # NULL
    <2>1. s \in Structs /\ K[s] > 0
      BY <1>3
    <2>2. /\ H \in [Structs -> Nat]
          /\ \A q \in Structs : H[q] = IF q = s THEN K[q] - 1 ELSE K[q]
      BY <2>1, <1>1, PlusMinus
    <2>3. \A q \in Structs :
            /\ x.mem[q].references = In(q, C) + In(q, Kept(x)) + K[q]
            /\ In(q, C) \in Nat /\ In(q, Kept(x)) \in Nat /\ K[q] \in Nat
      BY <1>1 DEF Counted, In
    <2> HIDE DEF H
    <2>4. CASE x.mem[s].references > 1
      <3> DEFINE m == [x.mem EXCEPT ![s].references = @ - 1]
      <3>1. y = [x EXCEPT !.mem = m]
        BY <2>4, <1>1, <1>3 DEF SSL_SESSION_free, Store
      <3>2. x.mem[s].references - 1 \in Nat
        BY <2>1, <2>4, <1>1, StoreFields
      <3>3. /\ m \in [Structs -> Session]
            /\ \A q \in Structs :
                 /\ m[q].references = IF q = s THEN x.mem[q].references - 1
                                               ELSE x.mem[q].references
                 /\ m[q].id = x.mem[q].id
                 /\ m[q].not_resumable = x.mem[q].not_resumable
                 /\ m[q].next = x.mem[q].next
                 /\ m[q].prev = x.mem[q].prev
        BY <3>2, <2>1, <1>1, StoreFields DEF Session
      <3>4. /\ y \in Store /\ y.mem = m /\ y.head = x.head /\ y.tail = x.tail
            /\ y.sessions = x.sessions /\ y.ext = x.ext
        <4>1. m \in [Structs -> Session]
          BY <3>3
        <4> HIDE DEF m, y
        <4> QED
          BY <3>1, <4>1, <1>1 DEF Store
      <3> HIDE DEF m, y
      <3>5. Linked(y, C)
        BY <3>3, <3>4, <1>1, LinkedFrame
      <3>6. Kept(y) = Kept(x)
        BY <3>4 DEF Kept
      <3>7. KeptUnderTheirIds(y)
        BY <3>3, <3>4, <1>1 DEF KeptUnderTheirIds
      <3>8. Counted(y, C, H)
        BY <3>3, <3>4, <3>6, <2>2, <2>3 DEF Counted
      <3>9. Sound(y, C, H)
        BY <3>4, <3>5, <3>7, <3>8, <2>2, <1>1 DEF Sound
      <3>10. Alive(x, y)
        <4> SUFFICES ASSUME NEW q \in Structs, y.mem[q].references > 0
                     PROVE  x.mem[q].references > 0 /\ y.mem[q].id = x.mem[q].id
          BY DEF Alive
        <4>1. x.mem[q].references \in Nat
          BY <1>1, StoreFields
        <4>2. q # s => x.mem[q].references > 0
          BY <3>3, <3>4
        <4>3. y.mem[q].id = x.mem[q].id
          BY <3>3, <3>4
        <4> QED
          BY <4>1, <4>2, <4>3, <2>4
      <3> QED
        BY <3>3, <3>4, <3>9, <3>10 DEF y, H
    <2>5. CASE ~(x.mem[s].references > 1)
      <3> DEFINE m == [x.mem EXCEPT ![s] = Blank]
      <3>1. y = [x EXCEPT !.mem = m]
        BY <2>5, <1>1, <1>3 DEF SSL_SESSION_free, Store
      <3>2. Blank \in Session
        BY DEF Blank, Session, Links
      <3>3. /\ m \in [Structs -> Session]
            /\ \A q \in Structs : m[q] = IF q = s THEN Blank ELSE x.mem[q]
        BY <3>2, <2>1, <1>1, StoreFields
      <3>4. /\ y \in Store /\ y.mem = m /\ y.head = x.head /\ y.tail = x.tail
            /\ y.sessions = x.sessions /\ y.ext = x.ext
        <4>1. m \in [Structs -> Session]
          BY <3>3
        <4> HIDE DEF m, y
        <4> QED
          BY <3>1, <4>1, <1>1 DEF Store
      <3> HIDE DEF m, y
      <3>5. /\ Blank.references = 0 /\ Blank.id = NoId /\ Blank.not_resumable = FALSE
            /\ Blank.next = NULL /\ Blank.prev = NULL
        BY DEF Blank
      <3>6. In(s, C) = 0 /\ In(s, Kept(x)) = 0 /\ K[s] = 1
        BY <2>1, <2>3, <2>5
      <3>7. s \notin C /\ s \notin Kept(x)
        BY <3>6 DEF In
      <3>8. x.mem[s].next = NULL /\ x.mem[s].prev = NULL
        BY <3>7, <2>1, <1>1, TailIsLinked
      <3>9. Linked(y, C)
        BY <3>3, <3>4, <3>5, <3>8, <1>1, LinkedFrame
      <3>10. Kept(y) = Kept(x)
        BY <3>4 DEF Kept
      <3>11. KeptUnderTheirIds(y)
        <4>1. \A i \in Ids : x.ext[i] # s
          BY <3>7, <2>1 DEF Kept
        <4> QED
          BY <4>1, <3>3, <3>4, <1>1 DEF KeptUnderTheirIds
      <3>12. Counted(y, C, H)
        <4> SUFFICES ASSUME NEW q \in Structs
                     PROVE  y.mem[q].references = In(q, C) + In(q, Kept(x)) + H[q]
          BY <3>10 DEF Counted
        <4>1. CASE q = s
          <5>1. y.mem[q].references = 0 /\ H[q] = 0
            BY <4>1, <3>3, <3>4, <3>5, <3>6, <2>2
          <5> QED
            BY <5>1, <4>1, <3>6
        <4>2. CASE q # s
          <5>1. y.mem[q].references = x.mem[q].references /\ H[q] = K[q]
            BY <4>2, <3>3, <3>4, <2>2
          <5> QED
            BY <5>1, <2>3
        <4> QED
          BY <4>1, <4>2
      <3>13. Sound(y, C, H)
        BY <3>4, <3>9, <3>11, <3>12, <2>2, <1>1 DEF Sound
      <3>14. Alive(x, y)
        <4> SUFFICES ASSUME NEW q \in Structs, y.mem[q].references > 0
                     PROVE  x.mem[q].references > 0 /\ y.mem[q].id = x.mem[q].id
          BY DEF Alive
        <4>1. q # s
          BY <3>3, <3>4, <3>5
        <4> QED
          BY <4>1, <3>3, <3>4
      <3> QED
        BY <3>3, <3>4, <3>5, <3>7, <3>13, <3>14 DEF y, H
    <2> QED
      BY <2>4, <2>5
  <1> QED
    BY <1>2, <1>3

\* The application keeps v instead of what it kept under the id i: the
\* reference that it had is its caller's.
LEMMA SoundKeep ==
    ASSUME NEW x, NEW C, NEW K, Sound(x, C, K), NEW i \in Ids,
           NEW v \in Structs \cup {NULL, Encoded},
           v \in Structs => K[v] > 0 /\ x.mem[v].id = i
    PROVE  LET y == [x EXCEPT !.ext[i] = v]
           IN  /\ Sound(y, C, Plus(Minus(K, v), x.ext[i]))
               /\ y.sessions = x.sessions /\ y.mem = x.mem
               /\ y.ext = [x.ext EXCEPT ![i] = v]
  <1> DEFINE y == [x EXCEPT !.ext[i] = v]
             H == Plus(Minus(K, v), x.ext[i])
  <1>1. x \in Store /\ C \subseteq Structs /\ K \in [Structs -> Nat]
        /\ Linked(x, C) /\ Counted(x, C, K) /\ KeptUnderTheirIds(x)
    BY DEF Sound
  <1>2. /\ y \in Store /\ y.mem = x.mem /\ y.head = x.head /\ y.tail = x.tail
        /\ y.sessions = x.sessions /\ y.ext = [x.ext EXCEPT ![i] = v]
    BY <1>1 DEF Store
  <1>3. \A j \in Ids : y.ext[j] = IF j = i THEN v ELSE x.ext[j]
    BY <1>1, <1>2, StoreFields
  <1>4. Minus(K, v) \in [Structs -> Nat]
    BY <1>1, PlusMinus
  <1>5. /\ H \in [Structs -> Nat]
        /\ \A q \in Structs :
             H[q] = IF q = x.ext[i] THEN Minus(K, v)[q] + 1 ELSE Minus(K, v)[q]
        /\ \A q \in Structs : Minus(K, v)[q] = IF q = v THEN K[q] - 1 ELSE K[q]
    BY <1>1, <1>4, PlusMinus
  <1> HIDE DEF y, H
  <1>6. Linked(y, C)
    BY <1>1, <1>2, LinkedFrame
  <1>7. ASSUME NEW j \in Ids, x.ext[j] = v, v \in Structs
        PROVE  j = i
    BY <1>1, <1>7, Marks DEF KeptUnderTheirIds
  <1>8. KeptUnderTheirIds(y)
    BY <1>1, <1>2, <1>3, <1>7, Marks DEF KeptUnderTheirIds
  <1>9. \A q \in Structs :
          In(q, Kept(x)) = IF \E j \in Ids : x.ext[j] = q THEN 1 ELSE 0
    BY <1>1, CachedInStructs DEF In
  <1>10. \A q \in Structs :
          In(q, Kept(y)) = IF \E j \in Ids : y.ext[j] = q THEN 1 ELSE 0
    BY <1>2, CachedInStructs DEF In
  <1>11. ASSUME NEW q \in Structs
         PROVE  In(q, Kept(y)) + H[q] = In(q, Kept(x)) + K[q]
    <2>1. K[q] \in Nat
      BY <1>1
    <2>2. CASE q = v /\ q = x.ext[i]
      BY <2>1, <2>2, <1>3, <1>5, <1>9, <1>10
    <2>3. CASE q = v /\ q # x.ext[i]
      <3>1. ~\E j \in Ids : x.ext[j] = q
        BY <2>3, <1>7
      <3>2. \E j \in Ids : y.ext[j] = q
        BY <2>3, <1>3
      <3> QED
        BY <3>1, <3>2, <2>1, <2>3, <1>5, <1>9, <1>10
    <2>4. CASE q # v /\ q = x.ext[i]
      <3>1. ~\E j \in Ids : y.ext[j] = q
        BY <2>4, <1>1, <1>3 DEF KeptUnderTheirIds
      <3> QED
        BY <3>1, <2>1, <2>4, <1>5, <1>9, <1>10
    <2>5. CASE q # v /\ q # x.ext[i]
      <3>1. (\E j \in Ids : y.ext[j] = q) <=> (\E j \in Ids : x.ext[j] = q)
        BY <2>5, <1>3
      <3> QED
        BY <3>1, <2>1, <2>5, <1>5, <1>9, <1>10
    <2> QED
      BY <2>2, <2>3, <2>4, <2>5
  <1>12. Counted(y, C, H)
    <2> SUFFICES ASSUME NEW q \in Structs
                 PROVE  y.mem[q].references = In(q, C) + In(q, Kept(y)) + H[q]
      BY DEF Counted
    <2>1. y.mem[q].references = In(q, C) + In(q, Kept(x)) + K[q]
      BY <1>1, <1>2 DEF Counted
    <2>2. /\ In(q, C) \in Nat /\ In(q, Kept(x)) \in Nat /\ In(q, Kept(y)) \in Nat
          /\ K[q] \in Nat /\ H[q] \in Nat
      BY <1>1, <1>5 DEF In
    <2> QED
      BY <2>1, <2>2, <1>11
  <1>13. Sound(y, C, H)
    BY <1>1, <1>2, <1>5, <1>6, <1>8, <1>12 DEF Sound
  <1> QED
    BY <1>2, <1>13 DEF y, H

\* The hash table and the flags of the sessions do not matter to the list
\* and the references.
LEMMA SoundFlags ==
    ASSUME NEW x, NEW C, NEW K, Sound(x, C, K), NEW y \in Store,
           y.head = x.head, y.tail = x.tail, y.ext = x.ext, KeptUnderTheirIds(y),
           \A q \in Structs : /\ y.mem[q].references = x.mem[q].references
                              /\ y.mem[q].next = x.mem[q].next
                              /\ y.mem[q].prev = x.mem[q].prev
    PROVE  Sound(y, C, K)
  <1>1. Linked(y, C)
    BY LinkedFrame DEF Sound
  <1>2. Kept(y) = Kept(x)
    BY DEF Kept
  <1>3. Counted(y, C, K)
    BY <1>2 DEF Counted, Sound
  <1> QED
    BY <1>1, <1>3 DEF Sound

(***************************************************************************)
(* Removals.                                                               *)
(***************************************************************************)

\* What a removal may do: the cache and the application lose sessions, what
\* is cleared loses its id, and what is marked leaves the cache.
Drops(x, y) ==
    /\ \A i \in Ids : y.sessions[i] \in {x.sessions[i], NULL}
    /\ \A i \in Ids : y.ext[i] \in {x.ext[i], NULL}
    /\ \A q \in Structs : y.mem[q].id \in {x.mem[q].id, NoId}
    /\ \A q \in Structs :
         y.mem[q].not_resumable =>
           x.mem[q].not_resumable \/ (q \in Cached(x) /\ q \notin Cached(y))
    /\ Alive(x, y)

\* Less is in the cache and with the application after a removal.
LEMMA DropsShrink ==
    ASSUME NEW x \in Store, NEW y \in Store, Drops(x, y)
    PROVE  Cached(y) \subseteq Cached(x) /\ Kept(y) \subseteq Kept(x)
    BY Marks DEF Drops, Cached, Kept

\* Two removals, one after the other, are one.
LEMMA DropsTransitive ==
    ASSUME NEW x \in Store, NEW y \in Store, NEW z \in Store, Drops(x, y), Drops(y, z)
    PROVE  Drops(x, z)
  <1>1. Cached(y) \subseteq Cached(x) /\ Cached(z) \subseteq Cached(y)
    BY DropsShrink
  <1>2. \A i \in Ids : z.sessions[i] \in {x.sessions[i], NULL}
    BY DEF Drops
  <1>3. \A i \in Ids : z.ext[i] \in {x.ext[i], NULL}
    BY DEF Drops
  <1>4. \A q \in Structs : z.mem[q].id \in {x.mem[q].id, NoId}
    BY DEF Drops
  <1>5. \A q \in Structs :
          z.mem[q].not_resumable =>
            x.mem[q].not_resumable \/ (q \in Cached(x) /\ q \notin Cached(z))
    BY <1>1 DEF Drops
  <1>6. Alive(x, z)
    BY DEF Drops, Alive
  <1> QED
    BY <1>2, <1>3, <1>4, <1>5, <1>6 DEF Drops

\* The application's remove_session_cb drops the reference that it has, if
\* it has one.
LEMMA RemoveCb ==
    ASSUME NEW x, NEW C, NEW K, Sound(x, C, K), NEW c \in Structs
    PROVE  LET y == remove_session_cb(x, c)
           IN  /\ Sound(y, C, K)
               /\ y.sessions = x.sessions
               /\ \A i \in Ids : y.ext[i] \in {x.ext[i], NULL}
               /\ \A q \in Structs : y.mem[q].id \in {x.mem[q].id, NoId}
               /\ \A q \in Structs :
                    y.mem[q].not_resumable => x.mem[q].not_resumable
               /\ \A q \in Structs : q \in C => y.mem[q].id = x.mem[q].id
               /\ Alive(x, y)
  <1> DEFINE i == x.mem[c].id
             kept == IF x.ext[i] \in Structs THEN x.ext[i] ELSE NULL
             z == [x EXCEPT !.ext[i] = NULL]
             y == remove_session_cb(x, c)
  <1>1. x \in Store /\ K \in [Structs -> Nat]
    BY DEF Sound
  <1>2. CASE ~External \/ ~Removes \/ i = NoId
    <2>1. y = x
      BY <1>2 DEF remove_session_cb
    <2> QED
      BY <2>1 DEF Alive
  <1>3. CASE External /\ Removes /\ i # NoId
    <2>1. y = SSL_SESSION_free(z, kept)
      BY <1>3 DEF remove_session_cb
    <2>2. i \in Ids
      BY <1>1, <1>3, StoreFields
    <2>3. Minus(K, NULL) = K
      BY <1>1, PlusMinus, Marks
    <2> HIDE DEF i
    <2>4. /\ Sound(z, C, Plus(K, x.ext[i]))
          /\ z.sessions = x.sessions /\ z.mem = x.mem
          /\ z.ext = [x.ext EXCEPT ![i] = NULL]
      BY <2>2, <2>3, SoundKeep, Marks
    <2>5. \A j \in Ids : z.ext[j] \in {x.ext[j], NULL}
      BY <2>2, <2>4, <1>1, StoreFields
    <2> DEFINE H == Plus(K, x.ext[i])
    <2>6. H \in [Structs -> Nat] /\ (kept \in Structs => H[kept] > 0)
      <3>1. \A q \in Structs : H[q] = IF q = x.ext[i] THEN K[q] + 1 ELSE K[q]
        BY <1>1, PlusMinus
      <3>2. kept \in Structs => kept = x.ext[i] /\ K[kept] \in Nat
        BY <1>1, Marks
      <3>3. H \in [Structs -> Nat]
        BY <1>1, PlusMinus
      <3> HIDE DEF H, kept
      <3> QED
        BY <3>1, <3>2, <3>3
    <2>7. Minus(H, kept) = K
      BY <2>3, <1>1, PlusMinus, Marks
    <2>8. kept \in Structs \cup {NULL}
      OBVIOUS
    <2> HIDE DEF H, kept, z
    <2>9. /\ Sound(SSL_SESSION_free(z, kept), C, Minus(H, kept))
          /\ SSL_SESSION_free(z, kept).sessions = z.sessions
          /\ SSL_SESSION_free(z, kept).ext = z.ext
          /\ \A q \in Structs :
               /\ SSL_SESSION_free(z, kept).mem[q].id \in {z.mem[q].id, NoId}
               /\ SSL_SESSION_free(z, kept).mem[q].not_resumable
                    => z.mem[q].not_resumable
               /\ q \in C => SSL_SESSION_free(z, kept).mem[q].id = z.mem[q].id
          /\ Alive(z, SSL_SESSION_free(z, kept))
      <3>1. Sound(z, C, H)
        BY <2>4 DEF H
      <3> QED
        BY <3>1, <2>6, <2>8, SoundFree
    <2>10. Alive(x, y)
      BY <2>1, <2>4, <2>9 DEF Alive
    <2> QED
      BY <2>1, <2>4, <2>5, <2>7, <2>9, <2>10
  <1> QED
    BY <1>2, <1>3

\* Under its own id, and only under it, a session of the cache is found.
LEMMA FoundById ==
    ASSUME NEW x \in Store, Hashed(x), NEW s \in Structs
    PROVE  /\ s \in Cached(x) <=> Retrieve(x, x.mem[s].id) = s
           /\ \A i \in Ids : x.sessions[i] = s => i = x.mem[s].id
  <1>1. x.mem[s].id \in Ids \cup {NoId}
    BY StoreFields
  <1>2. \A i \in Ids : x.sessions[i] = s => i = x.mem[s].id
    BY Marks DEF Hashed
  <1> QED
    BY <1>1, <1>2, CachedInStructs, Marks DEF Retrieve

\* Under the lock, remove_session_lock takes a session out of the hash table
\* and out of the list, and its reference is the caller's.
LEMMA DetachIsGood ==
    ASSUME NEW x, NEW K, Good(x, K), NEW c \in Structs
    PROVE  LET y == Detach(x, c)
               r == Retrieve(x, x.mem[c].id)
           IN  /\ Good(y, Plus(K, r))
               /\ r \in Structs \cup {NULL}
               /\ Cached(y) = Cached(x) \ {r}
               /\ c \notin Cached(y)
               /\ c \in Cached(x) => r = c
               /\ \A i \in Ids : y.sessions[i] \in {x.sessions[i], NULL}
               /\ x.mem[c].id \in Ids => y.sessions[x.mem[c].id] = NULL
               /\ y.ext = x.ext
               /\ \A q \in Structs : y.mem[q].id = x.mem[q].id
               /\ Alive(x, y)
               /\ \A q \in Structs :
                    y.mem[q].not_resumable => x.mem[q].not_resumable \/ q = c
  <1> DEFINE i == x.mem[c].id
             r == Retrieve(x, i)
             C == Cached(x)
             D == Cached(x) \ {r}
             H == Plus(K, r)
             y == Detach(x, c)
             z == IF r = NULL
                    THEN x
                    ELSE SSL_SESSION_list_remove(
                           [x EXCEPT !.sessions[x.mem[r].id] = NULL], r)
  <1>1. /\ x \in Store /\ K \in [Structs -> Nat] /\ Sound(x, C, K) /\ Hashed(x)
        /\ C \subseteq Structs
    BY DEF Good, Sound
  <1>2. i \in Ids \cup {NoId} /\ r \in Structs \cup {NULL}
    BY <1>1, StoreFields DEF Retrieve
  <1>3. c \in C <=> r = c
    BY <1>1, FoundById
  <1>4. H \in [Structs -> Nat]
    BY <1>1, PlusMinus
  <1>5. /\ Sound(z, D, H) /\ SameButLinks([x EXCEPT !.sessions = z.sessions], z)
        /\ \A j \in Ids : z.sessions[j] = IF j = i THEN NULL ELSE x.sessions[j]
    <2>1. CASE r = NULL
      <3>1. z = x /\ D = C /\ H = K
        BY <2>1, <1>1, PlusMinus, Marks
      <3>2. \A j \in Ids : j = i => x.sessions[j] = NULL
        BY <2>1, Marks DEF Retrieve
      <3>3. SameButLinks([x EXCEPT !.sessions = x.sessions], x)
        BY <1>1 DEF SameButLinks, Store
      <3> HIDE DEF z, D, H, C, i, r
      <3> QED
        BY <3>1, <3>2, <3>3, <1>1
    <2>2. CASE r # NULL
      <3>1. i \in Ids /\ x.sessions[i] = r /\ r \in C /\ x.mem[r].id = i
        BY <2>2, <1>1, <1>2, CachedInStructs DEF Retrieve, Hashed
      <3> DEFINE w == [x EXCEPT !.sessions[i] = NULL]
      <3>2. z = SSL_SESSION_list_remove(w, r)
        BY <2>2, <3>1
      <3>3. /\ w \in Store /\ w.mem = x.mem /\ w.head = x.head /\ w.tail = x.tail
            /\ w.ext = x.ext /\ w.sessions = [x.sessions EXCEPT ![i] = NULL]
        <4> HIDE DEF i
        <4> QED
          BY <3>1, <1>1 DEF Store
      <3> HIDE DEF w, z, C, i, r
      <3>4. KeptUnderTheirIds(w)
        BY <3>3, <1>1 DEF KeptUnderTheirIds, Sound
      <3>5. Sound(w, C, K)
        BY <3>3, <3>4, <1>1, SoundFlags
      <3>6. Sound(z, C \ {r}, Plus(K, r)) /\ SameButLinks(w, z)
        BY <3>1, <3>2, <3>5, SoundRemove
      <3>7. z.sessions = w.sessions
        BY <3>6 DEF SameButLinks
      <3>8. [x EXCEPT !.sessions = z.sessions] = w
        BY <3>3, <3>7, <1>1 DEF Store
      <3>9. \A j \in Ids : z.sessions[j] = IF j = i THEN NULL ELSE x.sessions[j]
        BY <3>1, <3>3, <3>7, <1>1, StoreFields
      <3> QED
        BY <3>6, <3>8, <3>9 DEF C
    <2> QED
      BY <2>1, <2>2
  <1>6. /\ z \in Store /\ z.ext = x.ext
        /\ \A q \in Structs : /\ z.mem[q].id = x.mem[q].id
                              /\ z.mem[q].not_resumable = x.mem[q].not_resumable
                              /\ z.mem[q].references = x.mem[q].references
    <2> HIDE DEF z, D, H
    <2>1. /\ [x EXCEPT !.sessions = z.sessions].ext = x.ext
          /\ [x EXCEPT !.sessions = z.sessions].mem = x.mem
      BY <1>1 DEF Store
    <2> QED
      BY <2>1, <1>5 DEF SameButLinks, Sound
  <1>7. y = [z EXCEPT !.mem[c].not_resumable = TRUE]
    BY DEF Detach
  <1> HIDE DEF y, z, H, D, r, C
  <1> DEFINE m == [z.mem EXCEPT ![c].not_resumable = TRUE]
  <1>8. y = [z EXCEPT !.mem = m]
    BY <1>6, <1>7 DEF Store
  <1>9. /\ m \in [Structs -> Session]
        /\ \A q \in Structs :
             /\ m[q].references = z.mem[q].references
             /\ m[q].id = z.mem[q].id
             /\ m[q].next = z.mem[q].next /\ m[q].prev = z.mem[q].prev
             /\ m[q].not_resumable => z.mem[q].not_resumable \/ q = c
    <2>1. \A q \in Structs : m[q] = IF q = c THEN [z.mem[q] EXCEPT !.not_resumable = TRUE]
                                              ELSE z.mem[q]
      BY <1>6, StoreFields
    <2>2. ASSUME NEW q \in Structs
          PROVE  LET u == [z.mem[q] EXCEPT !.not_resumable = TRUE]
                 IN  /\ u \in Session
                     /\ u.references = z.mem[q].references
                     /\ u.id = z.mem[q].id
                     /\ u.next = z.mem[q].next /\ u.prev = z.mem[q].prev
      <3>1. z.mem[q] \in Session
        BY <1>6, StoreFields
      <3> QED
        BY <3>1 DEF Session
    <2>3. \A q \in Structs : z.mem[q] \in Session
      BY <1>6, StoreFields
    <2>4. z.mem \in [Structs -> Session]
      BY <1>6, StoreFields
    <2>5. m \in [Structs -> Session]
      <3>1. [z.mem[c] EXCEPT !.not_resumable = TRUE] \in Session
        BY <2>2
      <3> QED
        BY <3>1, <2>4
    <2> HIDE DEF m
    <2>6. ASSUME NEW q \in Structs
          PROVE  /\ m[q].references = z.mem[q].references
                 /\ m[q].id = z.mem[q].id
                 /\ m[q].next = z.mem[q].next /\ m[q].prev = z.mem[q].prev
                 /\ m[q].not_resumable => z.mem[q].not_resumable \/ q = c
      <3>1. CASE q = c
        <4>1. m[q] = [z.mem[q] EXCEPT !.not_resumable = TRUE]
          BY <3>1, <2>1
        <4> QED
          BY <4>1, <3>1, <2>2
      <3>2. CASE q # c
        <4>1. m[q] = z.mem[q]
          BY <3>2, <2>1
        <4> QED
          BY <4>1
      <3> QED
        BY <3>1, <3>2
    <2> QED
      BY <2>5, <2>6
  <1> HIDE DEF m
  <1>10. /\ y \in Store /\ y.mem = m /\ y.head = z.head /\ y.tail = z.tail
         /\ y.sessions = z.sessions /\ y.ext = z.ext
    BY <1>6, <1>8, <1>9 DEF Store
  <1>11. KeptUnderTheirIds(y)
    <2>1. KeptUnderTheirIds(z)
      BY <1>5 DEF Sound
    <2>2. \A q \in Structs : y.mem[q].id = z.mem[q].id
      BY <1>9, <1>10
    <2> QED
      BY <2>1, <2>2, <1>10 DEF KeptUnderTheirIds
  <1>12. Sound(y, D, H)
    <2>1. \A q \in Structs : /\ y.mem[q].references = z.mem[q].references
                             /\ y.mem[q].next = z.mem[q].next
                             /\ y.mem[q].prev = z.mem[q].prev
      BY <1>9, <1>10
    <2> QED
      BY <2>1, <1>5, <1>10, <1>11, SoundFlags
  <1>13. \A q \in Structs : y.mem[q].id = x.mem[q].id
    BY <1>6, <1>9, <1>10
  <1>14. \A j \in Ids : y.sessions[j] = IF j = i THEN NULL ELSE x.sessions[j]
    BY <1>5, <1>10
  <1>15. Hashed(y)
    <2>1. \A j \in Ids : x.sessions[j] \in Structs \cup {NULL}
      BY <1>1, StoreFields
    <2> QED
      BY <2>1, <1>1, <1>13, <1>14 DEF Hashed
  <1>16. Cached(y) = D
    <2>1. \A s \in Structs : s \in Cached(y) <=> s \in D
      <3> TAKE s \in Structs
      <3>1. s \in Cached(y) <=> \E j \in Ids : y.sessions[j] = s
        BY <1>10, CachedInStructs
      <3>2. s \in C <=> \E j \in Ids : x.sessions[j] = s
        BY <1>1, CachedInStructs DEF C
      <3>3. \A j \in Ids : y.sessions[j] = s <=> x.sessions[j] = s /\ j # i
        BY <1>14, Marks
      <3>4. s = r <=> i \in Ids /\ x.sessions[i] = s
        BY <1>2, Marks DEF r, Retrieve
      <3>5. \A j \in Ids : x.sessions[j] = s => j = x.mem[s].id
        BY <1>1, FoundById
      <3> QED
        BY <3>1, <3>2, <3>3, <3>4, <3>5 DEF D, C
    <2>2. Cached(y) \subseteq Structs /\ D \subseteq Structs
      BY <1>1, <1>10, CachedInStructs DEF D, C
    <2> QED
      BY <2>1, <2>2
  <1>17. Good(y, H)
    BY <1>12, <1>15, <1>16 DEF Good
  <1>18. c \notin D /\ (c \in C => r = c)
    BY <1>3 DEF D, C
  <1>19. \A q \in Structs : y.mem[q].not_resumable => x.mem[q].not_resumable \/ q = c
    BY <1>6, <1>9, <1>10
  <1>20. \A j \in Ids : y.sessions[j] \in {x.sessions[j], NULL}
    BY <1>14
  <1>21. Alive(x, y)
    BY <1>6, <1>9, <1>10, <1>13 DEF Alive
  <1> QED
    BY <1>2, <1>6, <1>10, <1>13, <1>14, <1>16, <1>17, <1>18, <1>19, <1>20, <1>21
       DEF D, H, C, r, y

\* What leaves the hash table and the ids of its sessions alone leaves it in
\* order.
LEMMA GoodFrame ==
    ASSUME NEW x \in Store, Hashed(x), NEW y, NEW K, Sound(y, Cached(x), K),
           y.sessions = x.sessions,
           \A q \in Structs : q \in Cached(x) => y.mem[q].id = x.mem[q].id
    PROVE  Good(y, K) /\ Cached(y) = Cached(x)
  <1>1. Cached(y) = Cached(x)
    BY DEF Cached
  <1>2. Hashed(y)
    <2> SUFFICES ASSUME NEW i \in Ids, x.sessions[i] # NULL
                 PROVE  y.mem[x.sessions[i]].id = i
      BY DEF Hashed
    <2>1. x.sessions[i] \in Structs /\ x.sessions[i] \in Cached(x)
      BY StoreFields DEF Cached
    <2> QED
      BY <2>1 DEF Hashed
  <1> QED
    BY <1>1, <1>2 DEF Good

\* timeout_cb drops a session of the cache, and so does the loop of
\* SSL_CTX_add_session.
LEMMA TimeoutIsGood ==
    ASSUME NEW x, NEW K, Good(x, K), NEW s \in Cached(x)
    PROVE  LET y == timeout_cb(x, s)
           IN  /\ Good(y, K)
               /\ Drops(x, y)
               /\ Cached(y) = Cached(x) \ {s}
  <1> DEFINE w == Detach(x, s)
             v == remove_session_cb(w, s)
             y == timeout_cb(x, s)
             H == Plus(K, s)
  <1>1. x \in Store /\ K \in [Structs -> Nat] /\ s \in Structs
    BY CachedInStructs DEF Good, Sound
  <1>2. y = SSL_SESSION_free(v, s)
    BY DEF timeout_cb
  <1>3. /\ Good(w, H) /\ Cached(w) = Cached(x) \ {s}
        /\ \A i \in Ids : w.sessions[i] \in {x.sessions[i], NULL}
        /\ w.ext = x.ext
        /\ \A q \in Structs : w.mem[q].id = x.mem[q].id
        /\ \A q \in Structs :
             w.mem[q].not_resumable => x.mem[q].not_resumable \/ q = s
        /\ Alive(x, w)
    BY <1>1, DetachIsGood
  <1> HIDE DEF w
  <1>4. w \in Store /\ Hashed(w) /\ Sound(w, Cached(w), H)
    BY <1>3 DEF Good, Sound
  <1>5. /\ Sound(v, Cached(w), H) /\ v.sessions = w.sessions
        /\ \A i \in Ids : v.ext[i] \in {w.ext[i], NULL}
        /\ \A q \in Structs :
             /\ v.mem[q].id \in {w.mem[q].id, NoId}
             /\ v.mem[q].not_resumable => w.mem[q].not_resumable
             /\ q \in Cached(w) => v.mem[q].id = w.mem[q].id
        /\ Alive(w, v)
    <2> HIDE DEF H
    <2> QED
      BY <1>1, <1>4, RemoveCb
  <1> HIDE DEF v
  <1>6. H \in [Structs -> Nat] /\ H[s] > 0 /\ Minus(H, s) = K
    BY <1>1, PlusMinus
  <1> HIDE DEF H
  <1>7. /\ Sound(y, Cached(w), K) /\ y.sessions = v.sessions /\ y.ext = v.ext
        /\ \A q \in Structs :
             /\ y.mem[q].id \in {v.mem[q].id, NoId}
             /\ y.mem[q].not_resumable => v.mem[q].not_resumable
             /\ q \in Cached(w) => y.mem[q].id = v.mem[q].id
        /\ Alive(v, y)
    BY <1>1, <1>2, <1>5, <1>6, SoundFree
  <1> HIDE DEF y
  <1>8. Good(y, K) /\ Cached(y) = Cached(w)
    BY <1>4, <1>5, <1>7, GoodFrame
  <1>9. Drops(x, y)
    <2>1. \A i \in Ids : y.sessions[i] \in {x.sessions[i], NULL}
      BY <1>3, <1>5, <1>7
    <2>2. \A i \in Ids : y.ext[i] \in {x.ext[i], NULL}
      BY <1>3, <1>5, <1>7
    <2>3. \A q \in Structs : y.mem[q].id \in {x.mem[q].id, NoId}
      BY <1>3, <1>5, <1>7
    <2>4. \A q \in Structs :
            y.mem[q].not_resumable => x.mem[q].not_resumable \/ q = s
      BY <1>3, <1>5, <1>7
    <2>5. s \in Cached(x) /\ s \notin Cached(y)
      BY <1>3, <1>8
    <2>6. Alive(x, y)
      BY <1>3, <1>5, <1>7 DEF Alive
    <2> QED
      BY <2>1, <2>2, <2>3, <2>4, <2>5, <2>6 DEF Drops
  <1> QED
    BY <1>3, <1>8, <1>9 DEF y

\* The number of the sessions of the cache is finite, and one less without
\* one of them.
LEMMA NumberDrops ==
    ASSUME NEW x \in Store, Hashed(x), NEW y \in Store,
           \A i \in Ids : y.sessions[i] \in {x.sessions[i], NULL}
    PROVE  /\ Number(x) \in Nat /\ Number(y) \in Nat
           /\ Number(y) <= Number(x)
           /\ Cached(y) # Cached(x) => Number(y) <= Number(x) - 1
           /\ Cached(x) = {} => Number(x) = 0
  <1> DEFINE X == {i \in Ids : x.sessions[i] # NULL}
             Y == {i \in Ids : y.sessions[i] # NULL}
  <1>1. IsFiniteSet(Ids)
    BY SessionCacheAssumption
  <1>2. IsFiniteSet(X) /\ IsFiniteSet(Y) /\ Y \subseteq X
    BY <1>1, FS_Subset
  <1>3. /\ Cardinality(X) \in Nat /\ Cardinality(Y) \in Nat
        /\ Cardinality(Y) <= Cardinality(X)
        /\ Y # X => Cardinality(Y) < Cardinality(X)
    BY <1>2, FS_CardinalityType, FS_Subset
  <1>4. Y = X => Cached(y) = Cached(x)
    <2> SUFFICES ASSUME Y = X PROVE Cached(y) = Cached(x)
      OBVIOUS
    <2>1. \A i \in Ids : y.sessions[i] = x.sessions[i]
      OBVIOUS
    <2> QED
      BY <2>1 DEF Cached
  <1>5. Cached(x) = {} => X = {}
    BY DEF Cached
  <1>6. Cached(x) = {} => Cardinality(X) = 0
    BY <1>5, FS_EmptySet
  <1>7. Number(x) = Cardinality(X) /\ Number(y) = Cardinality(Y)
    BY DEF Number
  <1> HIDE DEF X, Y
  <1> QED
    BY <1>3, <1>4, <1>6, <1>7

\* The loop of SSL_CTX_add_session for a cache that has one session too many
\* at most: it ends after one turn.
LEMMA EvictIsGood ==
    ASSUME NEW x, NEW K, Good(x, K), Ids # {}, CacheSize \in Nat,
           CacheSize > 0 => Number(x) <= CacheSize + 1
    PROVE  LET y == Evict(x)
           IN  /\ Good(y, K)
               /\ Drops(x, y)
               /\ CacheSize > 0 => Number(y) <= CacheSize
  <1> DEFINE N == Cardinality(Ids)
             z == EvictTail(x)
             g == [n \in 0..N |-> IF n = 0 THEN x ELSE IF TooMany(x) THEN z ELSE x]
             after == CHOOSE f : f = [n \in 0..N |->
                IF n = 0 THEN x
                ELSE IF TooMany(f[n - 1]) THEN EvictTail(f[n - 1]) ELSE f[n - 1]]
  <1>1. x \in Store /\ Hashed(x)
    BY DEF Good, Sound
  <1>2. N \in Nat /\ N > 0
    BY SessionCacheAssumption, FS_CardinalityType, FS_EmptySet
  <1>3. ASSUME TooMany(x)
        PROVE  Good(z, K) /\ Drops(x, z) /\ ~TooMany(z) /\ Number(z) <= CacheSize
    <2>1. CacheSize > 0 /\ Number(x) > CacheSize
      BY <1>3 DEF TooMany
    <2>2. Number(x) \in Nat /\ (Cached(x) = {} => Number(x) = 0)
      BY <1>1, NumberDrops
    <2>3. Cached(x) # {}
      BY <2>1, <2>2
    <2>4. x.tail \in Cached(x)
      BY <2>3, <1>1, CachedInStructs, TailIsLinked DEF Good, Sound
    <2>5. z = timeout_cb(x, x.tail)
      BY DEF EvictTail, timeout_cb
    <2> HIDE DEF z
    <2>6. Good(z, K) /\ Drops(x, z) /\ Cached(z) = Cached(x) \ {x.tail}
      BY <2>4, <2>5, TimeoutIsGood
    <2>7. Number(z) \in Nat /\ Number(z) <= Number(x) - 1
      <3>1. z \in Store /\ Cached(z) # Cached(x)
        BY <2>4, <2>6 DEF Good, Sound
      <3> QED
        BY <3>1, <2>6, <1>1, NumberDrops DEF Drops
    <2> QED
      BY <2>1, <2>2, <2>6, <2>7 DEF TooMany
  <1>4. Evict(x) = after[N]
    BY DEF Evict
  <1>5. g = [n \in 0..N |->
              IF n = 0 THEN x
              ELSE IF TooMany(g[n - 1]) THEN EvictTail(g[n - 1]) ELSE g[n - 1]]
    <2>1. ASSUME NEW n \in 0..N
          PROVE  g[n] = IF n = 0 THEN x
                        ELSE IF TooMany(g[n - 1]) THEN EvictTail(g[n - 1]) ELSE g[n - 1]
      <3>1. CASE n = 0
        BY <3>1, <1>2
      <3>2. CASE n = 1
        BY <3>2, <1>2
      <3>3. CASE n > 1
        <4>1. /\ g[n - 1] = IF TooMany(x) THEN z ELSE x
              /\ g[n] = IF TooMany(x) THEN z ELSE x
          BY <3>3, <1>2
        <4>2. ~TooMany(g[n - 1])
          BY <4>1, <1>3
        <4> QED
          BY <3>3, <4>1, <4>2
      <3> QED
        BY <3>1, <3>2, <3>3, <1>2
    <2> QED
      BY <2>1
  <1>6. after = [n \in 0..N |->
              IF n = 0 THEN x
              ELSE IF TooMany(after[n - 1]) THEN EvictTail(after[n - 1])
                                            ELSE after[n - 1]]
    <2> HIDE DEF g
    <2> QED
      BY <1>5
  <1> HIDE DEF after
  <1>7. /\ g[0] = x /\ after[0] = x
        /\ \A n \in 1..N :
             /\ g[n] = IF TooMany(g[n - 1]) THEN EvictTail(g[n - 1]) ELSE g[n - 1]
             /\ after[n] = IF TooMany(after[n - 1]) THEN EvictTail(after[n - 1])
                                                    ELSE after[n - 1]
    <2>1. \A n \in 1..N : n \in 0..N /\ n # 0
      BY <1>2
    <2>2. 0 \in 0..N
      BY <1>2
    <2> HIDE DEF g
    <2>3. g[0] = x /\ after[0] = x
      BY <2>2, <1>5, <1>6
    <2>4. ASSUME NEW n \in 1..N
          PROVE  /\ g[n] = IF TooMany(g[n - 1]) THEN EvictTail(g[n - 1]) ELSE g[n - 1]
                 /\ after[n] = IF TooMany(after[n - 1]) THEN EvictTail(after[n - 1])
                                                        ELSE after[n - 1]
      <3>1. n \in 0..N /\ n # 0
        BY <2>1
      <3>2. g[n] = IF TooMany(g[n - 1]) THEN EvictTail(g[n - 1]) ELSE g[n - 1]
        BY <3>1, <1>5
      <3>3. after[n] = IF TooMany(after[n - 1]) THEN EvictTail(after[n - 1])
                                                ELSE after[n - 1]
        BY <3>1, <1>6
      <3> QED
        BY <3>2, <3>3
    <2> QED
      BY <2>3, <2>4
  <1>8. g[N] = IF TooMany(x) THEN z ELSE x
    BY <1>2
  <1> HIDE DEF g, z
  <1>9. after[N] = g[N]
    <2> DEFINE T == {n \in 0..N : after[n] # g[n]}
    <2> SUFFICES ASSUME T # {} PROVE FALSE
      BY <1>2
    <2>1. PICK m \in T : \A k \in T : m <= k
      <3>1. T \in SUBSET Nat
        BY <1>2
      <3> HIDE DEF T
      <3> QED
        BY <3>1, Least
    <2>2. m \in 1..N /\ m - 1 \in 0..N /\ ~(m <= m - 1)
      BY <2>1, <1>2, <1>7
    <2>3. after[m - 1] = g[m - 1]
      BY <2>1, <2>2
    <2> QED
      BY <2>1, <2>2, <2>3, <1>7
  <1>10. Evict(x) = IF TooMany(x) THEN z ELSE x
    BY <1>4, <1>8, <1>9
  <1>11. CASE TooMany(x)
    BY <1>3, <1>10, <1>11
  <1>12. CASE ~TooMany(x)
    <2>1. Drops(x, x)
      BY DEF Drops, Alive
    <2>2. Number(x) \in Nat
      BY <1>1, NumberDrops
    <2> QED
      BY <2>1, <2>2, <1>10, <1>12 DEF TooMany
  <1> QED
    BY <1>11, <1>12

\* SSL_CTX_flush_sessions drops the sessions that are due, and no others.
LEMMA FlushIsGood ==
    ASSUME NEW x, NEW K, Good(x, K), NEW due \in SUBSET Cached(x)
    PROVE  LET y == Flush(x, due)
           IN  /\ Good(y, K)
               /\ Drops(x, y)
               /\ Cached(y) = Cached(x) \ due
  <1> DEFINE first(S) == CHOOSE q \in S : TRUE
             doall == CHOOSE f : f = [S \in SUBSET due |->
                IF S = {} THEN x ELSE timeout_cb(f[S \ {first(S)}], first(S))]
             Upto(f, n) == \A S \in SUBSET due :
                Cardinality(S) <= n =>
                  f[S] = IF S = {} THEN x ELSE timeout_cb(f[S \ {first(S)}], first(S))
  <1>1. x \in Store /\ Cached(x) \subseteq Structs
    BY CachedInStructs DEF Good, Sound
  <1>2. IsFiniteSet(due)
    BY <1>1, FS_Subset, SessionCacheAssumption
  <1>3. \A S \in SUBSET due :
          /\ Cardinality(S) \in Nat /\ Cardinality(S) <= Cardinality(due)
          /\ S = {} <=> Cardinality(S) = 0
          /\ S # {} => /\ first(S) \in S /\ S \ {first(S)} \in SUBSET due
                       /\ Cardinality(S \ {first(S)}) = Cardinality(S) - 1
    <2> TAKE S \in SUBSET due
    <2>1. IsFiniteSet(S) /\ Cardinality(S) <= Cardinality(due)
      BY <1>2, FS_Subset
    <2>2. Cardinality(S) \in Nat /\ (S = {} <=> Cardinality(S) = 0)
      BY <2>1, FS_CardinalityType, FS_EmptySet
    <2>3. S # {} => first(S) \in S
      OBVIOUS
    <2> HIDE DEF first
    <2>4. S # {} => Cardinality(S \ {first(S)}) = Cardinality(S) - 1
      BY <2>1, <2>3, FS_RemoveElement
    <2> QED
      BY <2>1, <2>2, <2>3, <2>4
  <1> HIDE DEF first
  <1>4. \A n \in Nat : \E f : f = [S \in SUBSET due |-> f[S]] /\ Upto(f, n)
    <2> DEFINE E(n) == \E f : f = [S \in SUBSET due |-> f[S]] /\ Upto(f, n)
               T == {n \in Nat : ~E(n)}
    <2> SUFFICES ASSUME T # {} PROVE FALSE
      OBVIOUS
    <2>1. PICK m \in T : \A k \in T : m <= k
      <3>1. T \in SUBSET Nat
        OBVIOUS
      <3> HIDE DEF T
      <3> QED
        BY <3>1, Least
    <2>2. m \in Nat /\ ~E(m)
      BY <2>1
    <2>3. CASE m = 0
      <3> DEFINE f == [S \in SUBSET due |-> x]
      <3>1. f = [S \in SUBSET due |-> f[S]]
        OBVIOUS
      <3>2. Upto(f, 0)
        <4> SUFFICES ASSUME NEW S \in SUBSET due, Cardinality(S) <= 0
                     PROVE  S = {} /\ f[S] = x
          OBVIOUS
        <4>1. Cardinality(S) \in Nat /\ (S = {} <=> Cardinality(S) = 0)
          BY <1>3, Zenon
        <4>2. S = {}
          BY <4>1
        <4> QED
          BY <4>2
      <3> QED
        BY <3>1, <3>2, <2>2, <2>3
    <2>4. CASE m > 0
      <3>1. m - 1 \in Nat /\ ~(m <= m - 1)
        BY <2>2, <2>4
      <3>2. E(m - 1)
        <4>1. m - 1 \notin T
          BY <2>1, <3>1
        <4> QED
          BY <4>1, <3>1
      <3>3. PICK f : f = [S \in SUBSET due |-> f[S]] /\ Upto(f, m - 1)
        BY <3>2
      <3> DEFINE h == [S \in SUBSET due |->
                         IF Cardinality(S) = m
                           THEN timeout_cb(f[S \ {first(S)}], first(S)) ELSE f[S]]
      <3>4. h = [S \in SUBSET due |-> h[S]]
        OBVIOUS
      <3>5. ASSUME NEW S \in SUBSET due, Cardinality(S) <= m
            PROVE  h[S] = IF S = {} THEN x
                          ELSE timeout_cb(h[S \ {first(S)}], first(S))
        <4>1. CASE S = {}
          <5>0. Cardinality(S) = 0
            BY <4>1, <1>3, Zenon
          <5>1. Cardinality(S) = 0 /\ Cardinality(S) <= m - 1 /\ Cardinality(S) # m
            BY <5>0, <3>1, <2>2, <2>4
          <5>2. f[S] = x
            BY <5>1, <4>1, <3>3
          <5> QED
            BY <5>1, <5>2, <4>1
        <4>2. CASE S # {}
          <5> DEFINE R == S \ {first(S)}
          <5>1. /\ R \in SUBSET due /\ Cardinality(R) = Cardinality(S) - 1
                /\ Cardinality(S) \in Nat
            BY <4>2, <1>3
          <5> HIDE DEF R
          <5>2. h[R] = f[R]
            BY <5>1, <3>5, <2>2
          <5>3. CASE Cardinality(S) = m
            BY <5>2, <5>3, <4>2 DEF R
          <5>4. CASE Cardinality(S) # m
            <6>1. Cardinality(S) <= m - 1
              BY <5>1, <5>4, <3>5, <2>2
            <6>2. f[S] = timeout_cb(f[R], first(S))
              BY <6>1, <4>2, <3>3 DEF R
            <6>3. h[S] = f[S]
              BY <5>4
            <6> QED
              BY <6>2, <6>3, <5>2, <4>2 DEF R
          <5> QED
            BY <5>3, <5>4
        <4> QED
          BY <4>1, <4>2
      <3>6. Upto(h, m)
        <4> HIDE DEF h
        <4> QED
          BY <3>5
      <3> HIDE DEF h
      <3> QED
        BY <3>4, <3>6, <2>2
    <2> QED
      BY <2>2, <2>3, <2>4
  <1>5. Flush(x, due) = doall[due]
    BY DEF Flush, first
  <1>6. doall = [S \in SUBSET due |->
          IF S = {} THEN x ELSE timeout_cb(doall[S \ {first(S)}], first(S))]
    <2>1. PICK f : f = [S \in SUBSET due |-> f[S]] /\ Upto(f, Cardinality(due))
      BY <1>2, <1>4, FS_CardinalityType
    <2>2. f = [S \in SUBSET due |->
            IF S = {} THEN x ELSE timeout_cb(f[S \ {first(S)}], first(S))]
      BY <2>1, <1>3
    <2> QED
      BY <2>2
  <1> HIDE DEF doall
  <1> DEFINE P(S) == /\ Good(doall[S], K) /\ Drops(x, doall[S])
                     /\ Cached(doall[S]) = Cached(x) \ S
             T == {n \in Nat : \E S \in SUBSET due : Cardinality(S) = n /\ ~P(S)}
  <1>7. T = {}
    <2> SUFFICES ASSUME T # {} PROVE FALSE
      OBVIOUS
    <2>1. PICK m \in T : \A k \in T : m <= k
      <3>1. T \in SUBSET Nat
        OBVIOUS
      <3> HIDE DEF T
      <3> QED
        BY <3>1, Least
    <2>2. PICK S \in SUBSET due : Cardinality(S) = m /\ ~P(S)
      BY <2>1
    <2>3. CASE S = {}
      <3>1. doall[S] = x
        BY <2>3, <1>6
      <3>2. Drops(x, x)
        BY DEF Drops, Alive
      <3> QED
        BY <3>1, <3>2, <2>2, <2>3
    <2>4. CASE S # {}
      <3> DEFINE R == S \ {first(S)}
                 s == first(S)
      <3>1. s \in S /\ R \in SUBSET due /\ Cardinality(R) = m - 1 /\ m \in Nat
        BY <2>1, <2>2, <2>4, <1>3
      <3>2. P(R)
        <4> SUFFICES ASSUME ~P(R) PROVE FALSE
          OBVIOUS
        <4> HIDE DEF P, R, s
        <4>1. m - 1 \in T
          <5>0. Cardinality(R) \in Nat
            BY <3>1, <1>3, Zenon
          <5>1. m - 1 \in Nat
            BY <5>0, <3>1
          <5> QED
            BY <5>1, <3>1
        <4> QED
          BY <4>1, <3>1, <2>1
      <3>3. doall[S] = timeout_cb(doall[R], s)
        BY <2>4, <1>6
      <3>4. s \in Cached(doall[R])
        BY <3>1, <3>2
      <3>5. Cached(x) \ S = (Cached(x) \ R) \ {s}
        BY <3>1
      <3> HIDE DEF R, s
      <3>6. /\ Good(doall[S], K) /\ Drops(doall[R], doall[S])
            /\ Cached(doall[S]) = Cached(doall[R]) \ {s}
        BY <3>2, <3>3, <3>4, TimeoutIsGood
      <3>7. Drops(x, doall[S])
        <4>1. doall[R] \in Store /\ doall[S] \in Store
          BY <3>2, <3>6 DEF Good, Sound
        <4> QED
          BY <4>1, <3>2, <3>6, <1>1, DropsTransitive
      <3> QED
        BY <3>2, <3>5, <3>6, <3>7, <2>2
    <2> QED
      BY <2>3, <2>4
  <1>8. P(due)
    <2>1. Cardinality(due) \in Nat
      BY <1>2, FS_CardinalityType
    <2> HIDE DEF P
    <2> QED
      BY <2>1, <1>7
  <1> QED
    BY <1>5, <1>8

(***************************************************************************)
(* Additions.                                                              *)
(***************************************************************************)

\* What an addition of c may do besides the drops that come with it.
Adds(x, y, c) ==
    /\ \A i \in Ids : y.sessions[i] \in {x.sessions[i], NULL}
                        \/ (i = x.mem[c].id /\ y.sessions[i] = c)
    /\ \A i \in Ids : y.ext[i] \in {x.ext[i], NULL}
    /\ \A q \in Structs : y.mem[q].id \in {x.mem[q].id, NoId}
    /\ \A q \in Structs :
         y.mem[q].not_resumable =>
           \/ x.mem[q].not_resumable
           \/ (q \in Cached(x) \/ q = c) /\ q \notin Cached(y)
    /\ Alive(x, y)

\* SSL_CTX_add_session links and hashes a session of its caller's, instead of
\* another one with the same id, and then evicts what is too much.
LEMMA AddIsGood ==
    ASSUME NEW x, NEW K, Good(x, K), NEW c \in Structs, c \notin Cached(x),
           x.mem[c].id \in Ids, x.mem[c].references > 0,
           CacheSize \in Nat, CacheSize > 0 => Number(x) <= CacheSize
    PROVE  LET y == SSL_CTX_add_session(x, c)
           IN  /\ Good(y, K)
               /\ Adds(x, y, c)
               /\ CacheSize > 0 => Number(y) <= CacheSize
  <1> DEFINE i == x.mem[c].id
             s == x.sessions[i]
             C == Cached(x)
             D == C \ {s}
             H == Plus(K, c)
             u == SSL_SESSION_up_ref(x, c)
             v == [u EXCEPT !.sessions[i] = c]
             z == IF s = NULL THEN v
                  ELSE SSL_SESSION_free(SSL_SESSION_list_remove(v, s), s)
             w == SSL_SESSION_list_add(z, c)
             y == SSL_CTX_add_session(x, c)
  <1>1. /\ x \in Store /\ K \in [Structs -> Nat] /\ Sound(x, C, K) /\ Hashed(x)
        /\ C \subseteq Structs
    BY DEF Good, Sound
  <1>2. i \in Ids /\ s \in Structs \cup {NULL} /\ s # c
        /\ (s # NULL => s \in C /\ x.mem[s].id = i)
    BY <1>1, StoreFields, CachedInStructs DEF Hashed
  <1>3. y = Evict(w)
    BY <1>2 DEF SSL_CTX_add_session
  <1> HIDE DEF y
  <1>4. /\ Sound(u, C, H) /\ u.sessions = x.sessions /\ u.ext = x.ext
        /\ \A q \in Structs : /\ u.mem[q].id = x.mem[q].id
                              /\ u.mem[q].not_resumable = x.mem[q].not_resumable
        /\ \A q \in Structs : q # c => u.mem[q].references = x.mem[q].references
    <2> HIDE DEF C
    <2> QED
      BY <1>1, SoundUpRef
  <1> HIDE DEF u
  <1>5. u \in Store /\ KeptUnderTheirIds(u)
    BY <1>4 DEF Sound
  <1>6. /\ v \in Store /\ v.mem = u.mem /\ v.head = u.head /\ v.tail = u.tail
        /\ v.ext = u.ext /\ v.sessions = [x.sessions EXCEPT ![i] = c]
    <2> HIDE DEF i
    <2> QED
      BY <1>2, <1>4, <1>5 DEF Store
  <1>7. \A j \in Ids : v.sessions[j] = IF j = i THEN c ELSE x.sessions[j]
    BY <1>1, <1>2, <1>6, StoreFields
  <1> HIDE DEF i, s, v, H
  <1>8. Sound(v, C, H)
    <2>1. KeptUnderTheirIds(v)
      BY <1>5, <1>6 DEF KeptUnderTheirIds
    <2> HIDE DEF C
    <2> QED
      BY <2>1, <1>4, <1>6, SoundFlags
  <1>9. /\ H \in [Structs -> Nat] /\ H[c] > 0 /\ Minus(H, c) = K
        /\ Minus(Plus(H, s), s) = H /\ Plus(H, s) \in [Structs -> Nat]
        /\ s \in Structs => Plus(H, s)[s] > 0
    <2>1. H \in [Structs -> Nat] /\ H[c] > 0 /\ Minus(H, c) = K
      BY <1>1, PlusMinus DEF H
    <2>2. /\ Minus(Plus(H, s), s) = H /\ Plus(H, s) \in [Structs -> Nat]
          /\ s \in Structs => Plus(H, s)[s] > 0
      BY <2>1, PlusMinus
    <2> QED
      BY <2>1, <2>2
  <1>10. /\ Sound(z, D, H) /\ z.sessions = v.sessions /\ z.ext = v.ext
         /\ \A q \in Structs :
              /\ z.mem[q].id \in {v.mem[q].id, NoId}
              /\ z.mem[q].not_resumable => v.mem[q].not_resumable
              /\ q \in D \/ q = c => z.mem[q].id = v.mem[q].id
         /\ Alive(v, z)
    <2>1. CASE s = NULL
      <3>1. z = v /\ D = C
        BY <2>1, <1>1, Marks
      <3> HIDE DEF z, D, C
      <3> QED
        BY <3>1, <1>8 DEF Alive
    <2>2. CASE s # NULL
      <3> DEFINE l == SSL_SESSION_list_remove(v, s)
                 J == Plus(H, s)
      <3>1. s \in C /\ s \in Structs /\ z = SSL_SESSION_free(l, s)
        BY <2>2, <1>2
      <3>2. Sound(l, D, J) /\ SameButLinks(v, l)
        <4> HIDE DEF C
        <4> QED
          BY <3>1, <1>8, SoundRemove
      <3> HIDE DEF l, D, C, z, J
      <3>3. J[s] > 0 /\ Minus(J, s) = H
        BY <3>1, <1>9 DEF J
      <3>4. /\ Sound(z, D, H) /\ z.sessions = l.sessions /\ z.ext = l.ext
            /\ \A q \in Structs :
                 /\ z.mem[q].id \in {l.mem[q].id, NoId}
                 /\ z.mem[q].not_resumable => l.mem[q].not_resumable
                 /\ q \in D \/ q # s => z.mem[q].id = l.mem[q].id
            /\ Alive(l, z)
        BY <3>1, <3>2, <3>3, SoundFree
      <3>5. Alive(v, z)
        BY <3>2, <3>4 DEF SameButLinks, Alive
      <3> QED
        BY <3>2, <3>4, <3>5, <1>2 DEF SameButLinks
    <2> QED
      BY <2>1, <2>2
  <1> HIDE DEF z
  <1>11. Sound(w, D \cup {c}, K) /\ SameButLinks(z, w)
    <2>1. c \notin D
      OBVIOUS
    <2> HIDE DEF D
    <2> QED
      BY <2>1, <1>9, <1>10, SoundAdd
  <1> HIDE DEF w
  <1>12. /\ w \in Store /\ w.ext = x.ext
         /\ \A j \in Ids : w.sessions[j] = IF j = i THEN c ELSE x.sessions[j]
         /\ \A q \in Structs :
              /\ w.mem[q].id \in {x.mem[q].id, NoId}
              /\ w.mem[q].not_resumable => x.mem[q].not_resumable
              /\ q \in D \/ q = c => w.mem[q].id = x.mem[q].id
         /\ Alive(x, w)
    <2>1. w \in Store
      BY <1>11 DEF Sound
    <2>2. w.ext = x.ext /\ w.sessions = v.sessions
      BY <1>4, <1>6, <1>10, <1>11 DEF SameButLinks
    <2> HIDE DEF D
    <2>3. \A q \in Structs :
              /\ w.mem[q].id \in {x.mem[q].id, NoId}
              /\ w.mem[q].not_resumable => x.mem[q].not_resumable
              /\ q \in D \/ q = c => w.mem[q].id = x.mem[q].id
      <3> TAKE q \in Structs
      <3>1. w.mem[q].id = z.mem[q].id /\ w.mem[q].not_resumable = z.mem[q].not_resumable
        BY <1>11 DEF SameButLinks
      <3>2. v.mem[q].id = x.mem[q].id /\ v.mem[q].not_resumable = x.mem[q].not_resumable
        BY <1>4, <1>6
      <3> QED
        BY <3>1, <3>2, <1>10
    <2>4. Alive(x, w)
      <3> SUFFICES ASSUME NEW q \in Structs, w.mem[q].references > 0
                   PROVE  x.mem[q].references > 0 /\ w.mem[q].id = x.mem[q].id
        BY DEF Alive
      <3>1. w.mem[q].id = z.mem[q].id /\ w.mem[q].references = z.mem[q].references
        BY <1>11 DEF SameButLinks
      <3>2. z.mem[q].id = v.mem[q].id /\ v.mem[q].references > 0
        BY <3>1, <1>10 DEF Alive
      <3> QED
        BY <3>1, <3>2, <1>4, <1>6
    <2> QED
      BY <2>1, <2>2, <2>3, <2>4, <1>7
  <1>13. Cached(w) = D \cup {c}
    <2>1. \A q \in Structs : q \in Cached(w) <=> q \in D \cup {c}
      <3> TAKE q \in Structs
      <3>1. q \in Cached(w) <=> \E j \in Ids : w.sessions[j] = q
        BY <1>12, CachedInStructs
      <3>2. q \in C <=> \E j \in Ids : x.sessions[j] = q
        BY <1>1, CachedInStructs
      <3>3. \A j \in Ids : w.sessions[j] = q <=>
              (j = i /\ q = c) \/ (j # i /\ x.sessions[j] = q)
        BY <1>12
      <3>4. \A j \in Ids : x.sessions[j] = q => j = x.mem[q].id
        BY <1>1, FoundById
      <3>5. s = x.sessions[i]
        BY DEF s
      <3> HIDE DEF C
      <3> QED
        BY <3>1, <3>2, <3>3, <3>4, <3>5, <1>2
    <2>2. Cached(w) \subseteq Structs /\ D \cup {c} \subseteq Structs
      BY <1>1, <1>12, CachedInStructs
    <2> QED
      BY <2>1, <2>2
  <1>14. Hashed(w)
    <2> SUFFICES ASSUME NEW j \in Ids, w.sessions[j] # NULL
                 PROVE  w.mem[w.sessions[j]].id = j
      BY DEF Hashed
    <2>1. w.sessions[j] \in Structs /\ w.sessions[j] \in D \cup {c}
      BY <1>12, <1>13, StoreFields, CachedInStructs
    <2>2. w.mem[w.sessions[j]].id = x.mem[w.sessions[j]].id
      <3> HIDE DEF D
      <3> QED
        BY <2>1, <1>12
    <2>3. CASE j = i
      BY <2>2, <2>3, <1>12 DEF i
    <2>4. CASE j # i
      BY <2>2, <2>4, <1>1, <1>12 DEF Hashed
    <2> QED
      BY <2>3, <2>4
  <1>15. Good(w, K)
    BY <1>11, <1>13, <1>14 DEF Good
  <1>16. CacheSize > 0 => Number(w) <= CacheSize + 1
    <2> DEFINE X == {j \in Ids : x.sessions[j] # NULL}
               W == {j \in Ids : w.sessions[j] # NULL}
    <2>1. W \subseteq X \cup {i}
      BY <1>12
    <2>2. IsFiniteSet(X) /\ IsFiniteSet(X \cup {i})
      BY SessionCacheAssumption, FS_Subset, FS_AddElement
    <2>3. Cardinality(X \cup {i}) <= Cardinality(X) + 1
          /\ Cardinality(X \cup {i}) \in Nat /\ Cardinality(X) \in Nat
      BY <2>2, FS_AddElement, FS_CardinalityType
    <2>4. IsFiniteSet(W) /\ Cardinality(W) <= Cardinality(X \cup {i})
          /\ Cardinality(W) \in Nat
      BY <2>1, <2>2, FS_Subset, FS_CardinalityType
    <2>5. Number(x) = Cardinality(X) /\ Number(w) = Cardinality(W)
      BY DEF Number
    <2> HIDE DEF X, W
    <2> QED
      BY <2>3, <2>4, <2>5
  <1>17. /\ Good(y, K) /\ Drops(w, y)
         /\ CacheSize > 0 => Number(y) <= CacheSize
    BY <1>2, <1>3, <1>15, <1>16, EvictIsGood
  <1>18. Adds(x, y, c)
    <2>1. Cached(y) \subseteq Cached(w)
      <3>1. y \in Store
        BY <1>17 DEF Good, Sound
      <3> QED
        BY <3>1, <1>12, <1>17, DropsShrink
    <2>2. \A j \in Ids : y.sessions[j] \in {x.sessions[j], NULL}
                            \/ (j = i /\ y.sessions[j] = c)
      BY <1>12, <1>17 DEF Drops
    <2>3. \A j \in Ids : y.ext[j] \in {x.ext[j], NULL}
      BY <1>12, <1>17 DEF Drops
    <2>4. \A q \in Structs : y.mem[q].id \in {x.mem[q].id, NoId}
      BY <1>12, <1>17 DEF Drops
    <2>5. \A q \in Structs :
            y.mem[q].not_resumable =>
              \/ x.mem[q].not_resumable
              \/ (q \in Cached(x) \/ q = c) /\ q \notin Cached(y)
      <3> TAKE q \in Structs
      <3>1. y.mem[q].not_resumable =>
              w.mem[q].not_resumable \/ (q \in Cached(w) /\ q \notin Cached(y))
        BY <1>17 DEF Drops
      <3>2. w.mem[q].not_resumable => x.mem[q].not_resumable
        BY <1>12
      <3>3. q \in Cached(w) => q \in Cached(x) \/ q = c
        BY <1>13
      <3> QED
        BY <3>1, <3>2, <3>3
    <2>6. Alive(x, y)
      BY <1>12, <1>17 DEF Drops, Alive
    <2> QED
      BY <2>2, <2>3, <2>4, <2>5, <2>6 DEF Adds, i
  <1> QED
    BY <1>17, <1>18 DEF y

\* What new_session_cb keeps it has a reference to, and what it kept before
\* it frees.
LEMMA KeepIsSound ==
    ASSUME NEW x, NEW C, NEW K, Sound(x, C, K), NEW i \in Ids,
           NEW v \in Structs \cup {Encoded},
           v \in Structs => K[v] > 0 /\ x.mem[v].id = i
    PROVE  LET y == Keep(x, i, v)
           IN  /\ Sound(y, C, Minus(K, v))
               /\ y.sessions = x.sessions
               /\ \A j \in Ids : y.ext[j] = IF j = i THEN v ELSE x.ext[j]
               /\ \A q \in Structs : y.mem[q].id \in {x.mem[q].id, NoId}
               /\ \A q \in Structs :
                    y.mem[q].not_resumable => x.mem[q].not_resumable
               /\ \A q \in Structs : q \in C => y.mem[q].id = x.mem[q].id
               /\ Alive(x, y)
  <1> DEFINE kept == IF x.ext[i] \in Structs THEN x.ext[i] ELSE NULL
             z == [x EXCEPT !.ext[i] = v]
             y == Keep(x, i, v)
             M == Minus(K, v)
             H == Plus(M, x.ext[i])
  <1>1. x \in Store /\ K \in [Structs -> Nat]
    BY DEF Sound
  <1>2. y = SSL_SESSION_free(z, kept)
    BY DEF Keep
  <1>3. M \in [Structs -> Nat]
    BY <1>1, PlusMinus
  <1>4. /\ Sound(z, C, H) /\ z.sessions = x.sessions /\ z.mem = x.mem
        /\ z.ext = [x.ext EXCEPT ![i] = v]
    BY SoundKeep
  <1>5. \A j \in Ids : z.ext[j] = IF j = i THEN v ELSE x.ext[j]
    BY <1>1, <1>4, StoreFields
  <1> HIDE DEF z, M, y
  <1>6. Minus(H, kept) = M
    BY <1>3, PlusMinus, Marks
  <1>7. kept \in Structs \cup {NULL} /\ (kept \in Structs => H[kept] > 0)
    <2>1. \A q \in Structs : H[q] = IF q = x.ext[i] THEN M[q] + 1 ELSE M[q]
      BY <1>3, PlusMinus
    <2>2. kept \in Structs => kept = x.ext[i] /\ M[kept] \in Nat
      BY <1>3, Marks
    <2>3. kept \in Structs \cup {NULL}
      OBVIOUS
    <2> HIDE DEF H, kept
    <2> QED
      BY <2>1, <2>2, <2>3
  <1> HIDE DEF H, kept
  <1>8. /\ Sound(y, C, M) /\ y.sessions = z.sessions /\ y.ext = z.ext
        /\ \A q \in Structs :
             /\ y.mem[q].id \in {z.mem[q].id, NoId}
             /\ y.mem[q].not_resumable => z.mem[q].not_resumable
             /\ q \in C => y.mem[q].id = z.mem[q].id
        /\ Alive(z, y)
    BY <1>2, <1>4, <1>6, <1>7, SoundFree
  <1>9. Alive(x, y)
    BY <1>4, <1>8 DEF Alive
  <1> QED
    BY <1>4, <1>5, <1>8, <1>9 DEF y, M

\* Memory that nobody has takes a new session, whose reference is its
\* maker's.
LEMMA NewIsGood ==
    ASSUME NEW x, NEW K, Good(x, K), NEW s \in Free(x),
           NEW new \in Session, new.references = 1, new.next = NULL, new.prev = NULL
    PROVE  LET y == [x EXCEPT !.mem[s] = new]
           IN  /\ Good(y, Plus(K, s))
               /\ y.sessions = x.sessions /\ y.ext = x.ext
               /\ \A q \in Structs : y.mem[q] = IF q = s THEN new ELSE x.mem[q]
               /\ K[s] = 0 /\ s \notin Cached(x) /\ s \notin Kept(x) /\ s \in Structs
  <1> DEFINE y == [x EXCEPT !.mem[s] = new]
             C == Cached(x)
             H == Plus(K, s)
  <1>1. /\ x \in Store /\ K \in [Structs -> Nat] /\ Sound(x, C, K) /\ Hashed(x)
        /\ C \subseteq Structs /\ Linked(x, C) /\ Counted(x, C, K) /\ KeptUnderTheirIds(x)
    BY DEF Good, Sound
  <1>2. s \in Structs /\ x.mem[s].references = 0
    BY DEF Free
  <1>3. In(s, C) = 0 /\ In(s, Kept(x)) = 0 /\ K[s] = 0
    BY <1>1, <1>2 DEF Counted, In
  <1>4. s \notin C /\ s \notin Kept(x)
    BY <1>3 DEF In
  <1>5. /\ y \in Store /\ y.head = x.head /\ y.tail = x.tail
        /\ y.sessions = x.sessions /\ y.ext = x.ext
        /\ \A q \in Structs : y.mem[q] = IF q = s THEN new ELSE x.mem[q]
    BY <1>1, <1>2 DEF Store
  <1>6. H \in [Structs -> Nat] /\ \A q \in Structs : H[q] = IF q = s THEN K[q] + 1 ELSE K[q]
    BY <1>1, PlusMinus
  <1> HIDE DEF y, C, H
  <1>7. x.mem[s].next = NULL /\ x.mem[s].prev = NULL
    BY <1>1, <1>2, <1>4, TailIsLinked
  <1>8. Linked(y, C)
    BY <1>1, <1>5, <1>7, LinkedFrame
  <1>9. Kept(y) = Kept(x)
    BY <1>5 DEF Kept
  <1>10. KeptUnderTheirIds(y)
    <2>1. \A i \in Ids : x.ext[i] # s
      BY <1>2, <1>4 DEF Kept
    <2> QED
      BY <2>1, <1>1, <1>5 DEF KeptUnderTheirIds
  <1>11. Counted(y, C, H)
    <2> SUFFICES ASSUME NEW q \in Structs
                 PROVE  y.mem[q].references = In(q, C) + In(q, Kept(x)) + H[q]
      BY <1>9 DEF Counted
    <2>1. CASE q = s
      <3>1. y.mem[q].references = 1 /\ H[q] = 1
        BY <2>1, <1>3, <1>5, <1>6
      <3> QED
        BY <3>1, <2>1, <1>3
    <2>2. CASE q # s
      <3>1. y.mem[q].references = x.mem[q].references /\ H[q] = K[q]
        BY <2>2, <1>5, <1>6
      <3> QED
        BY <3>1, <1>1 DEF Counted
    <2> QED
      BY <2>1, <2>2
  <1>12. Sound(y, C, H)
    BY <1>1, <1>5, <1>6, <1>8, <1>10, <1>11 DEF Sound
  <1>13. \A q \in Structs : q \in C => y.mem[q].id = x.mem[q].id
    BY <1>4, <1>5
  <1>14. Good(y, H)
    BY <1>1, <1>5, <1>12, <1>13, GoodFrame DEF C
  <1> QED
    BY <1>2, <1>3, <1>4, <1>5, <1>14 DEF y, C, H

\* The flags of a session do not matter, nor does the id of one that is
\* neither in the cache nor kept.
LEMMA GoodFlags ==
    ASSUME NEW x, NEW K, Good(x, K), NEW y \in Store,
           y.head = x.head, y.tail = x.tail, y.ext = x.ext, y.sessions = x.sessions,
           \A q \in Structs :
             /\ y.mem[q].references = x.mem[q].references
             /\ y.mem[q].next = x.mem[q].next
             /\ y.mem[q].prev = x.mem[q].prev
             /\ q \in Cached(x) => y.mem[q].id = x.mem[q].id
             /\ q \in Kept(x) => y.mem[q].id \in {x.mem[q].id, NoId}
    PROVE  Good(y, K) /\ Cached(y) = Cached(x) /\ Kept(y) = Kept(x)
  <1>1. x \in Store /\ Hashed(x) /\ Sound(x, Cached(x), K) /\ KeptUnderTheirIds(x)
    BY DEF Good, Sound
  <1>2. KeptUnderTheirIds(y)
    <2>1. \A i \in Ids : x.ext[i] \in Structs => x.ext[i] \in Kept(x)
      BY DEF Kept
    <2> QED
      BY <2>1, <1>1 DEF KeptUnderTheirIds
  <1>3. Sound(y, Cached(x), K)
    BY <1>1, <1>2, SoundFlags
  <1>4. Kept(y) = Kept(x)
    BY DEF Kept
  <1> QED
    BY <1>1, <1>3, <1>4, GoodFrame

(***************************************************************************)
(* What the connections hold.                                              *)
(***************************************************************************)

\* The references of one connection to s.
Holds(d, s) == In(s, {d.session}) + In(s, {d.ret}) + In(s, {d.r})

HeldBy(cn, U, s) ==
    Cardinality({u \in U : cn[u].session = s})
      + Cardinality({u \in U : cn[u].ret = s})
      + Cardinality({u \in U : cn[u].r = s})

Held(cn) == [s \in Structs |-> HeldBy(cn, Threads, s)]

\* A set of threads counts one more with a thread than without it.
LEMMA CountSplit ==
    ASSUME NEW P \in SUBSET Threads, NEW t
    PROVE  /\ Cardinality(P) \in Nat /\ Cardinality(P \ {t}) \in Nat
           /\ Cardinality(P) = Cardinality(P \ {t}) + In(t, P)
           /\ Cardinality(P) <= Cardinality(Threads)
           /\ P # {} => Cardinality(P) > 0
  <1>1. IsFiniteSet(P) /\ IsFiniteSet(P \ {t})
    BY SessionCacheAssumption, FS_Subset
  <1>2. Cardinality(P) \in Nat /\ Cardinality(P \ {t}) \in Nat
    BY <1>1, FS_CardinalityType
  <1>3. t \in P => Cardinality(P \ {t}) = Cardinality(P) - 1
    BY <1>1, FS_RemoveElement
  <1>4. t \notin P => P \ {t} = P
    OBVIOUS
  <1>5. Cardinality(P) <= Cardinality(Threads)
    BY SessionCacheAssumption, FS_Subset
  <1>6. P # {} => Cardinality(P) # 0
    BY <1>1, FS_EmptySet
  <1> QED
    BY <1>2, <1>3, <1>4, <1>5, <1>6 DEF In

\* What all connections hold is what one of them holds and what the others
\* hold.
LEMMA HeldSplit ==
    ASSUME NEW cn, NEW t \in Threads, NEW s
    PROVE  /\ HeldBy(cn, Threads \ {t}, s) \in Nat
           /\ Holds(cn[t], s) \in Nat
           /\ HeldBy(cn, Threads, s) = HeldBy(cn, Threads \ {t}, s) + Holds(cn[t], s)
           /\ HeldBy(cn, Threads, s) <= Cardinality(Threads) * 3
           /\ Cardinality(Threads) \in Nat
           /\ \A u \in Threads \ {t} :
                Holds(cn[u], s) > 0 => HeldBy(cn, Threads \ {t}, s) > 0
  <1> DEFINE A(U) == {u \in U : cn[u].session = s}
             B(U) == {u \in U : cn[u].ret = s}
             C(U) == {u \in U : cn[u].r = s}
             V == Threads \ {t}
  <1>1. A(V) = A(Threads) \ {t} /\ B(V) = B(Threads) \ {t} /\ C(V) = C(Threads) \ {t}
    OBVIOUS
  <1>2. /\ A(Threads) \in SUBSET Threads /\ B(Threads) \in SUBSET Threads
        /\ C(Threads) \in SUBSET Threads
    OBVIOUS
  <1>3. /\ In(t, A(Threads)) = In(s, {cn[t].session})
        /\ In(t, B(Threads)) = In(s, {cn[t].ret})
        /\ In(t, C(Threads)) = In(s, {cn[t].r})
    BY DEF In
  <1>4. ASSUME NEW u \in V, Holds(cn[u], s) > 0
        PROVE  A(V) # {} \/ B(V) # {} \/ C(V) # {}
    BY <1>4 DEF Holds, In
  <1>5. HeldBy(cn, V, s) = Cardinality(A(V)) + Cardinality(B(V)) + Cardinality(C(V))
    BY DEF HeldBy
  <1>6. HeldBy(cn, Threads, s) =
          Cardinality(A(Threads)) + Cardinality(B(Threads)) + Cardinality(C(Threads))
    BY DEF HeldBy
  <1>7. A(V) \in SUBSET Threads /\ B(V) \in SUBSET Threads /\ C(V) \in SUBSET Threads
    OBVIOUS
  <1>8. /\ In(s, {cn[t].session}) \in Nat /\ In(s, {cn[t].ret}) \in Nat
        /\ In(s, {cn[t].r}) \in Nat
    BY DEF In
  <1>9. Cardinality(Threads) \in Nat
    BY SessionCacheAssumption, FS_CardinalityType
  <1> HIDE DEF A, B, C
  <1>10. /\ Cardinality(A(Threads)) = Cardinality(A(V)) + In(s, {cn[t].session})
         /\ Cardinality(A(V)) \in Nat /\ Cardinality(A(Threads)) <= Cardinality(Threads)
         /\ A(V) # {} => Cardinality(A(V)) > 0
    BY <1>1, <1>2, <1>3, <1>7, CountSplit
  <1>11. /\ Cardinality(B(Threads)) = Cardinality(B(V)) + In(s, {cn[t].ret})
         /\ Cardinality(B(V)) \in Nat /\ Cardinality(B(Threads)) <= Cardinality(Threads)
         /\ B(V) # {} => Cardinality(B(V)) > 0
    BY <1>1, <1>2, <1>3, <1>7, CountSplit
  <1>12. /\ Cardinality(C(Threads)) = Cardinality(C(V)) + In(s, {cn[t].r})
         /\ Cardinality(C(V)) \in Nat /\ Cardinality(C(Threads)) <= Cardinality(Threads)
         /\ C(V) # {} => Cardinality(C(V)) > 0
    BY <1>1, <1>2, <1>3, <1>7, CountSplit
  <1>13. Holds(cn[t], s) =
           In(s, {cn[t].session}) + In(s, {cn[t].ret}) + In(s, {cn[t].r})
    BY DEF Holds
  <1>14. \A u \in V : Holds(cn[u], s) > 0 => HeldBy(cn, V, s) > 0
    <2> HIDE DEF V
    <2>1. ASSUME A(V) # {} \/ B(V) # {} \/ C(V) # {}
          PROVE  HeldBy(cn, V, s) > 0
      BY <2>1, <1>5, <1>10, <1>11, <1>12
    <2> QED
      BY <2>1, <1>4
  <1>15. HeldBy(cn, Threads, s) = HeldBy(cn, V, s) + Holds(cn[t], s)
    BY <1>5, <1>6, <1>8, <1>10, <1>11, <1>12, <1>13
  <1>16. HeldBy(cn, V, s) \in Nat /\ Holds(cn[t], s) \in Nat
    BY <1>5, <1>8, <1>10, <1>11, <1>12, <1>13
  <1>17. HeldBy(cn, Threads, s) <= Cardinality(Threads) * 3
    BY <1>6, <1>8, <1>9, <1>10, <1>11, <1>12
  <1> HIDE DEF V
  <1> QED
    BY <1>9, <1>14, <1>15, <1>16, <1>17 DEF V

(***************************************************************************)
(* The invariant, and what a step of one connection must not do to the     *)
(* others.                                                                 *)
(***************************************************************************)

\* The parts of CacheInvariant, ReferencesAreExact and CachedAreResumable in
\* terms of the store and of what the connections hold.
Inv ==
    /\ ctx \in Contexts
    /\ conn \in [Threads -> Connection]
    /\ issued \subseteq Ids /\ resumed \in [Ids -> Nat]
    /\ Good(st, Held(conn))
    /\ WithinSize
    /\ CachedAreResumable
    /\ \A t \in Threads :
         /\ PointersFollowSteps(conn[t])
         /\ OwnIsPrivate(conn[t], st)
         /\ FoundAndRemoved(conn[t], st)

\* A step of a connection from d to e, which takes the store from x to y,
\* caches and keeps only what d has, takes hold only of what is in the cache,
\* is the application's or is nobody's, and neither renames nor marks what only others have.
LeavesOthers(d, e, x, y) ==
    /\ \A s \in Structs :
         s \in Cached(y) =>
           \/ s \in Cached(x)
           \/ (x.mem[s].references = 1 \/ Shared) /\ Holds(d, s) > 0
    /\ \A s \in Structs : s \in Kept(y) => s \in Kept(x) \/ Holds(d, s) > 0
    /\ \A s \in Structs :
         Holds(e, s) > 0 =>
           \/ Holds(d, s) > 0 \/ s \in Cached(x) \cup Kept(x)
           \/ x.mem[s].references = 0
    /\ \A s \in Structs :
         \/ y.mem[s].id = x.mem[s].id
         \/ y.mem[s].id = NoId /\ (y.mem[s].references = 0 \/ Holds(d, s) > 0)
         \/ x.mem[s].references <= Holds(d, s)
    /\ \A s \in Structs :
         y.mem[s].not_resumable =>
           \/ x.mem[s].not_resumable \/ s \in Cached(x)
           \/ Holds(d, s) > 0 \/ x.mem[s].references = 0

\* Each reference of a connection is counted.
LEMMA HeldIsCounted ==
    ASSUME NEW x, NEW cn, Good(x, Held(cn)), NEW t \in Threads, NEW s \in Structs
    PROVE  /\ x.mem[s].references =
                In(s, Cached(x)) + In(s, Kept(x)) + HeldBy(cn, Threads \ {t}, s)
                  + Holds(cn[t], s)
           /\ In(s, Cached(x)) \in Nat /\ In(s, Kept(x)) \in Nat
           /\ x.mem[s].references \in Nat
           /\ HeldBy(cn, Threads \ {t}, s) \in Nat /\ Holds(cn[t], s) \in Nat
           /\ Holds(cn[t], s) <= x.mem[s].references
           /\ \A u \in Threads \ {t} :
                Holds(cn[u], s) > 0 => x.mem[s].references > Holds(cn[t], s)
  <1>1. x.mem[s].references =
          In(s, Cached(x)) + In(s, Kept(x)) + HeldBy(cn, Threads, s)
    BY DEF Good, Sound, Counted, Held
  <1>2. In(s, Cached(x)) \in Nat /\ In(s, Kept(x)) \in Nat
    BY DEF In
  <1> DEFINE others == HeldBy(cn, Threads \ {t}, s)
             own == Holds(cn[t], s)
  <1>3. /\ others \in Nat /\ own \in Nat
        /\ HeldBy(cn, Threads, s) = others + own
        /\ \A u \in Threads \ {t} : Holds(cn[u], s) > 0 => others > 0
    BY HeldSplit
  <1> HIDE DEF others, own
  <1>4. x.mem[s].references = In(s, Cached(x)) + In(s, Kept(x)) + others + own
    BY <1>1, <1>2, <1>3
  <1>5. ASSUME others > 0
        PROVE  x.mem[s].references > own
    BY <1>2, <1>3, <1>4, <1>5
  <1>6. x.mem[s].references \in Nat /\ own <= x.mem[s].references
    BY <1>2, <1>3, <1>4
  <1>7. \A u \in Threads \ {t} : Holds(cn[u], s) > 0 => x.mem[s].references > own
    BY <1>3, <1>5
  <1> QED
    BY <1>2, <1>3, <1>4, <1>6, <1>7 DEF others, own

\* The session that a connection may cache is one that it holds.
LEMMA OwnIsHeld ==
    ASSUME NEW d \in Connection, PointersFollowSteps(d)
    PROVE  /\ \A s \in Own(d) : s \in Structs /\ Holds(d, s) > 0
           /\ d.ret # NULL => d.ret \in Structs /\ Holds(d, d.ret) > 0
           /\ d.session # NULL => d.session \in Structs /\ Holds(d, d.session) > 0
           /\ d.r # NULL => d.r \in Structs /\ Holds(d, d.r) > 0
           /\ d.c # NULL => d.c \in Structs /\ Holds(d, d.c) > 0
  <1>1. /\ d.ret \in Structs \cup {NULL} /\ d.session \in Structs \cup {NULL}
        /\ d.c \in Structs \cup {NULL} /\ d.r \in Structs \cup {NULL}
    BY DEF Connection
  <1>2. \A s : s = d.session \/ s = d.ret \/ s = d.r => Holds(d, s) > 0
    BY DEF Holds, In
  <1>3. ASSUME NEW s \in Own(d)
        PROVE  s # NULL /\ (s = d.session \/ s = d.ret)
    <2>1. CASE d.pc = "store" /\ ~Shared
      <3>1. s = d.ret
        BY <1>3, <2>1 DEF Own
      <3> QED
        BY <3>1, <2>1 DEF PointersFollowSteps
    <2>2. CASE ~(d.pc = "store" /\ ~Shared)
      <3>1. s = d.session /\ d.pc \in {"update", "handshake", "finish", "ticket"}
        BY <1>3, <2>2 DEF Own
      <3> QED
        BY <3>1 DEF PointersFollowSteps, Serving
    <2> QED
      BY <2>1, <2>2
  <1>4. d.c # NULL => d.c = d.ret \/ d.c = d.session
    BY DEF PointersFollowSteps
  <1>5. \A s \in Own(d) : s \in Structs /\ Holds(d, s) > 0
    <2> TAKE s \in Own(d)
    <2>1. s # NULL /\ (s = d.session \/ s = d.ret)
      BY <1>3
    <2>2. Holds(d, s) > 0
      BY <2>1, <1>2, Zenon
    <2> QED
      BY <2>1, <2>2, <1>1
  <1>6. /\ d.ret # NULL => Holds(d, d.ret) > 0
        /\ d.session # NULL => Holds(d, d.session) > 0
        /\ d.r # NULL => Holds(d, d.r) > 0
        /\ d.c # NULL => Holds(d, d.c) > 0
    BY <1>2, <1>4, Zenon
  <1>7. /\ d.ret # NULL => d.ret \in Structs
        /\ d.session # NULL => d.session \in Structs
        /\ d.r # NULL => d.r \in Structs
        /\ d.c # NULL => d.c \in Structs
    BY <1>1
  <1> QED
    BY <1>5, <1>6, <1>7, Zenon

\* What LeavesOthers is for: the other connections' sessions stay as they
\* are.
LEMMA OthersAreLeft ==
    ASSUME NEW x, NEW y, NEW cn, NEW cm, Good(x, Held(cn)), Good(y, Held(cm)),
           NEW t \in Threads, NEW u \in Threads, u # t,
           \A v \in Threads \ {t} : cm[v] = cn[v],
           cn[u] \in Connection, PointersFollowSteps(cn[u]),
           OwnIsPrivate(cn[u], x), FoundAndRemoved(cn[u], x),
           LeavesOthers(cn[t], cm[t], x, y)
    PROVE  OwnIsPrivate(cn[u], y) /\ FoundAndRemoved(cn[u], y)
  <1> DEFINE d == cn[u]
  <1>1. ASSUME NEW s \in Structs, Holds(d, s) > 0
        PROVE  /\ x.mem[s].references > Holds(cn[t], s)
               /\ x.mem[s].references \in Nat /\ Holds(cn[t], s) \in Nat
    <2>1. u \in Threads \ {t}
      OBVIOUS
    <2>2. /\ x.mem[s].references \in Nat /\ Holds(cn[t], s) \in Nat
          /\ \A v \in Threads \ {t} :
               Holds(cn[v], s) > 0 => x.mem[s].references > Holds(cn[t], s)
      BY HeldIsCounted
    <2> QED
      BY <1>1, <2>1, <2>2
  <1>2. ASSUME NEW s \in Structs, Holds(d, s) > 0
        PROVE  /\ s \in Cached(y) => s \in Cached(x) \/ (Shared /\ Holds(cn[t], s) > 0)
               /\ y.mem[s].id \in {x.mem[s].id, NoId}
               /\ \/ y.mem[s].id = x.mem[s].id \/ y.mem[s].references = 0
                  \/ Holds(cn[t], s) > 0
               /\ x.mem[s].references = 1 => Holds(cn[t], s) = 0
               /\ x.mem[s].references # 0
    <2> DEFINE n == x.mem[s].references
               k == Holds(cn[t], s)
    <2>1. n \in Nat /\ k \in Nat /\ n > k
      BY <1>1, <1>2
    <2>2. /\ s \in Cached(y) => s \in Cached(x) \/ ((n = 1 \/ Shared) /\ k > 0)
          /\ \/ y.mem[s].id = x.mem[s].id
             \/ y.mem[s].id = NoId /\ (y.mem[s].references = 0 \/ k > 0)
             \/ n <= k
      BY DEF LeavesOthers
    <2> HIDE DEF n, k
    <2>3. ~(n <= k) /\ ~(n = 1 /\ k > 0) /\ (n = 1 => k = 0) /\ n # 0
      BY <2>1
    <2> QED
      BY <2>2, <2>3 DEF n, k
  <1>3. /\ \A s \in Own(d) : s \in Structs /\ Holds(d, s) > 0
        /\ d.ret # NULL => d.ret \in Structs /\ Holds(d, d.ret) > 0
        /\ d.session # NULL => d.session \in Structs /\ Holds(d, d.session) > 0
        /\ d.c # NULL => d.c \in Structs /\ Holds(d, d.c) > 0
    BY OwnIsHeld
  <1>4. ASSUME NEW s \in Own(d)
        PROVE  /\ s \notin Cached(y) \cup Kept(y)
               /\ y.mem[s].references = 1
               /\ ~TLS13 => ~y.mem[s].not_resumable
               /\ y.mem[s].id = x.mem[s].id
    <2>1. s \in Structs /\ Holds(d, s) > 0
      BY <1>3, <1>4
    <2>2. /\ s \notin Cached(x) /\ s \notin Kept(x) /\ x.mem[s].references = 1
          /\ ~TLS13 => ~x.mem[s].not_resumable
      BY <1>4 DEF OwnIsPrivate
    <2>3. Holds(cn[t], s) = 0
      BY <2>1, <2>2, <1>2
    <2>4. s \notin Cached(y)
      BY <2>1, <2>2, <2>3, <1>2
    <2>5. s \notin Kept(y)
      BY <2>1, <2>2, <2>3 DEF LeavesOthers
    <2>6. Holds(cm[t], s) = 0
      <3>1. Holds(cm[t], s) \in Nat
        BY HeldSplit
      <3>2. ~(Holds(cm[t], s) > 0)
        BY <2>1, <2>2, <2>3 DEF LeavesOthers
      <3> QED
        BY <3>1, <3>2
    <2>7. HeldBy(cm, Threads \ {t}, s) = HeldBy(cn, Threads \ {t}, s)
      <3>1. /\ {v \in Threads \ {t} : cm[v].session = s}
                 = {v \in Threads \ {t} : cn[v].session = s}
            /\ {v \in Threads \ {t} : cm[v].ret = s}
                 = {v \in Threads \ {t} : cn[v].ret = s}
            /\ {v \in Threads \ {t} : cm[v].r = s}
                 = {v \in Threads \ {t} : cn[v].r = s}
        OBVIOUS
      <3> QED
        BY <3>1 DEF HeldBy
    <2>8. In(s, Cached(x)) = 0 /\ In(s, Kept(x)) = 0
          /\ In(s, Cached(y)) = 0 /\ In(s, Kept(y)) = 0
      BY <2>2, <2>4, <2>5 DEF In
    <2> DEFINE others == HeldBy(cn, Threads \ {t}, s)
    <2>9. /\ x.mem[s].references =
               In(s, Cached(x)) + In(s, Kept(x)) + others + Holds(cn[t], s)
          /\ others \in Nat
      BY <2>1, HeldIsCounted
    <2>10. y.mem[s].references =
             In(s, Cached(y)) + In(s, Kept(y)) + others + Holds(cm[t], s)
      BY <2>1, <2>7, HeldIsCounted
    <2>11. y.mem[s].references = 1
      <3> HIDE DEF others
      <3> QED
        BY <2>2, <2>3, <2>6, <2>8, <2>9, <2>10
    <2>12. ~TLS13 => ~y.mem[s].not_resumable
      <3>1. ~(Holds(cn[t], s) > 0) /\ x.mem[s].references # 0
        BY <2>2, <2>3
      <3> QED
        BY <3>1, <2>1, <2>2 DEF LeavesOthers
    <2>13. y.mem[s].id = x.mem[s].id
      BY <2>1, <2>3, <2>11, <1>2
    <2> QED
      BY <2>4, <2>5, <2>11, <2>12, <2>13
  <1>5. FoundAndRemoved(d, y)
    <2>1. d.ret # NULL => y.mem[d.ret].id \in {d.id, NoId}
      BY <1>2, <1>3 DEF FoundAndRemoved
    <2>2. ~Shared /\ d.c # NULL => d.c \notin Cached(y)
      BY <1>2, <1>3 DEF FoundAndRemoved
    <2>3. ~Shared /\ TLS13 /\ d.hit /\ d.pc = "handshake" => d.session \notin Cached(y)
      <3>1. d.pc = "handshake" => d.session # NULL
        BY DEF PointersFollowSteps, Serving
      <3> QED
        BY <3>1, <1>2, <1>3 DEF FoundAndRemoved
    <2>4. ~Shared /\ d.pc = "store" => y.mem[d.ret].id = d.id
      <3>1. ~Shared /\ d.pc = "store" => d.ret \in Own(d)
        BY DEF Own
      <3> QED
        BY <3>1, <1>4 DEF FoundAndRemoved
    <2> QED
      BY <2>1, <2>2, <2>3, <2>4 DEF FoundAndRemoved
  <1> QED
    BY <1>4, <1>5 DEF OwnIsPrivate

\* What the connections hold after a step of one of them.
LEMMA HeldIs ==
    ASSUME NEW cn, NEW cm, NEW t \in Threads, NEW K \in [Structs -> Nat],
           \A v \in Threads \ {t} : cm[v] = cn[v],
           \A s \in Structs : K[s] + Holds(cn[t], s) = Held(cn)[s] + Holds(cm[t], s)
    PROVE  K = Held(cm)
  <1>1. ASSUME NEW s \in Structs
        PROVE  K[s] = HeldBy(cm, Threads, s)
    <2>1. /\ {v \in Threads \ {t} : cm[v].session = s}
               = {v \in Threads \ {t} : cn[v].session = s}
          /\ {v \in Threads \ {t} : cm[v].ret = s}
               = {v \in Threads \ {t} : cn[v].ret = s}
          /\ {v \in Threads \ {t} : cm[v].r = s}
               = {v \in Threads \ {t} : cn[v].r = s}
      OBVIOUS
    <2>2. HeldBy(cm, Threads \ {t}, s) = HeldBy(cn, Threads \ {t}, s)
      BY <2>1 DEF HeldBy
    <2> DEFINE others == HeldBy(cn, Threads \ {t}, s)
    <2>3. /\ others \in Nat /\ Holds(cn[t], s) \in Nat /\ Holds(cm[t], s) \in Nat
          /\ HeldBy(cn, Threads, s) = others + Holds(cn[t], s)
          /\ HeldBy(cm, Threads, s) = others + Holds(cm[t], s)
      BY <2>2, HeldSplit
    <2>4. K[s] + Holds(cn[t], s) = HeldBy(cn, Threads, s) + Holds(cm[t], s)
      BY DEF Held
    <2>5. K[s] \in Nat
      OBVIOUS
    <2> HIDE DEF others
    <2> QED
      BY <2>3, <2>4, <2>5
  <1> QED
    BY <1>1 DEF Held

\* A count of references, one for each number of them.
LEMMA HeldType ==
    ASSUME NEW cn
    PROVE  Held(cn) \in [Structs -> Nat]
  <1>1. ASSUME NEW s \in Structs
        PROVE  HeldBy(cn, Threads, s) \in Nat
    <2>1. /\ Cardinality({u \in Threads : cn[u].session = s}) \in Nat
          /\ Cardinality({u \in Threads : cn[u].ret = s}) \in Nat
          /\ Cardinality({u \in Threads : cn[u].r = s}) \in Nat
      BY CountSplit
    <2> QED
      BY <2>1 DEF HeldBy
  <1> QED
    BY <1>1 DEF Held

\* A step of one connection that leaves the others alone keeps the invariant
\* if it keeps what the invariant says of the store and of that connection.
LEMMA StepKeeps ==
    ASSUME Inv, NEW t \in Threads,
           conn' \in [Threads -> Connection],
           \A u \in Threads \ {t} : conn'[u] = conn[u],
           ctx' = ctx, issued' \subseteq Ids, resumed' \in [Ids -> Nat],
           Good(st', Held(conn')),
           LeavesOthers(conn[t], conn'[t], st, st'),
           PointersFollowSteps(conn'[t]),
           OwnIsPrivate(conn'[t], st'),
           FoundAndRemoved(conn'[t], st'),
           CacheSize > 0 => Number(st') <= CacheSize,
           ~TLS13 /\ ~Shared => \A s \in Cached(st') : ~st'.mem[s].not_resumable
    PROVE  Inv'
  <1>1. ASSUME NEW u \in Threads
        PROVE  /\ PointersFollowSteps(conn'[u])
               /\ OwnIsPrivate(conn'[u], st')
               /\ FoundAndRemoved(conn'[u], st')
    <2>1. CASE u = t
      BY <2>1
    <2>2. CASE u # t
      <3>1. conn'[u] = conn[u]
        BY <2>2
      <3>2. /\ conn[u] \in Connection /\ PointersFollowSteps(conn[u])
            /\ OwnIsPrivate(conn[u], st) /\ FoundAndRemoved(conn[u], st)
            /\ Good(st, Held(conn))
        BY DEF Inv
      <3>3. OwnIsPrivate(conn[u], st') /\ FoundAndRemoved(conn[u], st')
        BY <2>2, <3>2, OthersAreLeft
      <3> QED
        BY <3>1, <3>2, <3>3
    <2> QED
      BY <2>1, <2>2
  <1>2. (\A u \in Threads : PointersFollowSteps(conn[u]))'
    BY <1>1 DEF PointersFollowSteps, TLS13, External, Shared
  <1>3. (\A u \in Threads : OwnIsPrivate(conn[u], st))'
    BY <1>1 DEF OwnIsPrivate, Own, TLS13, External, Shared
  <1>4. (\A u \in Threads : FoundAndRemoved(conn[u], st))'
    BY <1>1 DEF FoundAndRemoved, TLS13, External, Shared
  <1>5. (\A u \in Threads : /\ PointersFollowSteps(conn[u])
                            /\ OwnIsPrivate(conn[u], st)
                            /\ FoundAndRemoved(conn[u], st))'
    BY <1>2, <1>3, <1>4
  <1>6. WithinSize'
    BY DEF WithinSize, CacheSize
  <1>7. CachedAreResumable'
    BY DEF CachedAreResumable, TLS13, External, Shared
  <1>8. ctx' \in Contexts
    BY DEF Inv
  <1> QED
    BY <1>5, <1>6, <1>7, <1>8 DEF Inv

\* The sessions that a connection holds are those that it points to.
LEMMA HoldsOne ==
    ASSUME NEW d, NEW s
    PROVE  /\ Holds(d, s) > 0 <=> s = d.session \/ s = d.ret \/ s = d.r
           /\ Holds(d, s) \in Nat
    BY DEF Holds, In

\* A removal does not touch the sessions that other connections have to
\* themselves, caches nothing and marks nothing that is in the cache.
LEMMA DropsLeave ==
    ASSUME NEW x \in Store, NEW y \in Store, Hashed(x), Drops(x, y), NEW d, NEW e,
           \A s \in Structs :
             s = e.session \/ s = e.ret \/ s = e.r =>
               \/ s = d.session \/ s = d.ret \/ s = d.r
               \/ s \in Cached(x) \/ s \in Kept(x) \/ x.mem[s].references = 0
    PROVE  /\ LeavesOthers(d, e, x, y)
           /\ Number(x) \in Nat /\ Number(y) \in Nat /\ Number(y) <= Number(x)
           /\ (~TLS13 /\ ~Shared => \A s \in Cached(x) : ~x.mem[s].not_resumable)
                => (~TLS13 /\ ~Shared => \A s \in Cached(y) : ~y.mem[s].not_resumable)
  <1>1. Cached(y) \subseteq Cached(x) /\ Kept(y) \subseteq Kept(x)
    BY DropsShrink
  <1>2. \A s \in Structs :
          Holds(e, s) > 0 =>
            \/ Holds(d, s) > 0 \/ s \in Cached(x) \cup Kept(x)
            \/ x.mem[s].references = 0
    BY HoldsOne
  <1>3. \A s \in Structs :
         y.mem[s].not_resumable => x.mem[s].not_resumable \/ s \in Cached(x)
    BY DEF Drops
  <1>4. ASSUME NEW s \in Structs
        PROVE  \/ y.mem[s].id = x.mem[s].id
               \/ y.mem[s].id = NoId /\ y.mem[s].references = 0
    <2>1. y.mem[s].references \in Nat
      BY StoreFields
    <2> QED
      BY <2>1 DEF Drops, Alive
  <1>5. LeavesOthers(d, e, x, y)
    BY <1>1, <1>2, <1>3, <1>4 DEF LeavesOthers
  <1>6. Number(x) \in Nat /\ Number(y) \in Nat /\ Number(y) <= Number(x)
    BY NumberDrops DEF Drops
  <1>7. Cached(y) \subseteq Structs
    BY CachedInStructs
  <1>8. \A s \in Cached(y) : y.mem[s].not_resumable => x.mem[s].not_resumable
    BY <1>7 DEF Drops
  <1> QED
    BY <1>1, <1>5, <1>6, <1>8

\* What the invariant says at a step of a connection.
LEMMA InvFacts ==
    ASSUME Inv, NEW t \in Threads
    PROVE  /\ Good(st, Held(conn)) /\ st \in Store /\ Hashed(st)
           /\ Held(conn) \in [Structs -> Nat]
           /\ conn[t] \in Connection
           /\ PointersFollowSteps(conn[t])
           /\ OwnIsPrivate(conn[t], st)
           /\ FoundAndRemoved(conn[t], st)
           /\ CacheSize \in Nat
           /\ CacheSize > 0 => Number(st) <= CacheSize
           /\ ~TLS13 /\ ~Shared => \A s \in Cached(st) : ~st.mem[s].not_resumable
           /\ ctx \in Contexts /\ conn \in [Threads -> Connection]
           /\ issued \subseteq Ids /\ resumed \in [Ids -> Nat]
           /\ TLS13 \in BOOLEAN /\ External \in BOOLEAN /\ Shared \in BOOLEAN
  <1>1. ctx \in [tls13 : BOOLEAN, external : BOOLEAN, remove : BOOLEAN,
                 shared : BOOLEAN, size : Nat]
    BY SessionCacheAssumption DEF Inv
  <1>2. /\ CacheSize \in Nat /\ TLS13 \in BOOLEAN /\ External \in BOOLEAN
        /\ Shared \in BOOLEAN
    BY <1>1 DEF CacheSize, TLS13, External, Shared
  <1>3. st \in Store /\ Hashed(st)
    BY DEF Inv, Good, Sound
  <1> QED
    BY <1>2, <1>3, HeldType DEF Inv, WithinSize, CachedAreResumable

\* A step that removes sessions, if anything, and leaves its connection
\* without one to cache.
LEMMA DropKeeps ==
    ASSUME Inv, NEW t \in Threads,
           conn' \in [Threads -> Connection],
           \A u \in Threads \ {t} : conn'[u] = conn[u],
           ctx' = ctx, issued' = issued, resumed' \in [Ids -> Nat],
           Good(st', Held(conn')), Drops(st, st'),
           \A s \in Structs :
             s = conn'[t].session \/ s = conn'[t].ret \/ s = conn'[t].r =>
               \/ s = conn[t].session \/ s = conn[t].ret \/ s = conn[t].r
               \/ s \in Cached(st) \/ s \in Kept(st) \/ st.mem[s].references = 0,
           PointersFollowSteps(conn'[t]),
           Own(conn'[t]) = {},
           FoundAndRemoved(conn'[t], st')
    PROVE  Inv'
  <1>1. /\ st \in Store /\ Hashed(st) /\ CacheSize \in Nat
        /\ CacheSize > 0 => Number(st) <= CacheSize
        /\ ~TLS13 /\ ~Shared => \A s \in Cached(st) : ~st.mem[s].not_resumable
        /\ issued \subseteq Ids
    BY InvFacts
  <1>2. st' \in Store
    BY DEF Good, Sound
  <1>3. /\ LeavesOthers(conn[t], conn'[t], st, st')
        /\ Number(st) \in Nat /\ Number(st') \in Nat /\ Number(st') <= Number(st)
        /\ (~TLS13 /\ ~Shared => \A s \in Cached(st) : ~st.mem[s].not_resumable)
             => (~TLS13 /\ ~Shared => \A s \in Cached(st') : ~st'.mem[s].not_resumable)
    <2> DEFINE d == conn[t]
               e == conn'[t]
    <2>1. /\ Drops(st, st')
          /\ \A s \in Structs :
               s = e.session \/ s = e.ret \/ s = e.r =>
                 \/ s = d.session \/ s = d.ret \/ s = d.r
                 \/ s \in Cached(st) \/ s \in Kept(st) \/ st.mem[s].references = 0
      OBVIOUS
    <2>2. /\ LeavesOthers(d, e, st, st')
          /\ Number(st) \in Nat /\ Number(st') \in Nat /\ Number(st') <= Number(st)
          /\ (~TLS13 /\ ~Shared => \A s \in Cached(st) : ~st.mem[s].not_resumable)
               => (~TLS13 /\ ~Shared => \A s \in Cached(st') : ~st'.mem[s].not_resumable)
      <3> HIDE DEF d, e
      <3> QED
        BY ONLY <1>1, <1>2, <2>1, DropsLeave
    <2> QED
      BY <2>2
  <1>4. OwnIsPrivate(conn'[t], st')
    BY DEF OwnIsPrivate
  <1>5. CacheSize > 0 => Number(st') <= CacheSize
    BY <1>1, <1>3
  <1>6. ~TLS13 /\ ~Shared => \A s \in Cached(st') : ~st'.mem[s].not_resumable
    BY <1>1, <1>3
  <1> QED
    BY <1>1, <1>3, <1>4, <1>5, <1>6, StepKeeps

\* A step that leaves the store alone.
LEMMA MoveKeeps ==
    ASSUME Inv, NEW t \in Threads,
           conn' \in [Threads -> Connection],
           \A u \in Threads \ {t} : conn'[u] = conn[u],
           ctx' = ctx, issued' = issued, resumed' \in [Ids -> Nat], st' = st,
           \A s \in Structs : Holds(conn'[t], s) = Holds(conn[t], s),
           PointersFollowSteps(conn'[t]),
           Own(conn'[t]) \subseteq Own(conn[t]),
           FoundAndRemoved(conn'[t], st)
    PROVE  Inv'
  <1>1. /\ st \in Store /\ Hashed(st) /\ Good(st, Held(conn))
        /\ CacheSize > 0 => Number(st) <= CacheSize
        /\ ~TLS13 /\ ~Shared => \A s \in Cached(st) : ~st.mem[s].not_resumable
        /\ issued \subseteq Ids /\ Held(conn) \in [Structs -> Nat]
        /\ OwnIsPrivate(conn[t], st)
    BY InvFacts
  <1>2. Held(conn) = Held(conn')
    <2>1. \A s \in Structs : Held(conn)[s] + Holds(conn[t], s)
                                = Held(conn)[s] + Holds(conn'[t], s)
      OBVIOUS
    <2> QED
      BY <2>1, <1>1, HeldIs
  <1>3. Drops(st, st)
    BY DEF Drops, Alive
  <1>4. LeavesOthers(conn[t], conn'[t], st, st')
    <2>1. \A s \in Structs :
             s = conn'[t].session \/ s = conn'[t].ret \/ s = conn'[t].r =>
               s = conn[t].session \/ s = conn[t].ret \/ s = conn[t].r
      BY HoldsOne
    <2> QED
      BY <2>1, <1>1, <1>3, DropsLeave
  <1>5. OwnIsPrivate(conn'[t], st')
    BY <1>1 DEF OwnIsPrivate
  <1> QED
    BY <1>1, <1>2, <1>4, <1>5, StepKeeps

(***************************************************************************)
(* The steps of a connection.                                              *)
(***************************************************************************)

\* Goto changes the step of one connection, and nothing else of it.
LEMMA GotoFields ==
    ASSUME conn \in [Threads -> Connection], NEW t \in Threads, NEW pc \in Pcs,
           Goto(t, pc)
    PROVE  /\ conn' \in [Threads -> Connection]
           /\ \A u \in Threads \ {t} : conn'[u] = conn[u]
           /\ conn'[t].pc = pc /\ conn'[t].id = conn[t].id
           /\ conn'[t].session = conn[t].session /\ conn'[t].hit = conn[t].hit
           /\ conn'[t].ret = conn[t].ret /\ conn'[t].c = conn[t].c
           /\ conn'[t].r = conn[t].r /\ conn'[t].sent = conn[t].sent
           /\ \A s : Holds(conn'[t], s) = Holds(conn[t], s)
  <1>1. /\ conn' \in [Threads -> Connection]
        /\ \A u \in Threads \ {t} : conn'[u] = conn[u]
        /\ conn'[t].pc = pc /\ conn'[t].id = conn[t].id
        /\ conn'[t].session = conn[t].session /\ conn'[t].hit = conn[t].hit
        /\ conn'[t].ret = conn[t].ret /\ conn'[t].c = conn[t].c
        /\ conn'[t].r = conn[t].r /\ conn'[t].sent = conn[t].sent
    BY DEF Goto, Connection
  <1> QED
    BY <1>1 DEF Holds

\* Miss forgets the id too.
LEMMA MissFields ==
    ASSUME conn \in [Threads -> Connection], NEW t \in Threads, Miss(t)
    PROVE  /\ conn' \in [Threads -> Connection]
           /\ \A u \in Threads \ {t} : conn'[u] = conn[u]
           /\ conn'[t].pc = "new"
           /\ conn'[t].session = conn[t].session /\ conn'[t].hit = conn[t].hit
           /\ conn'[t].ret = conn[t].ret /\ conn'[t].c = conn[t].c
           /\ conn'[t].r = conn[t].r /\ conn'[t].sent = conn[t].sent
           /\ \A s : Holds(conn'[t], s) = Holds(conn[t], s)
  <1>1. /\ conn' \in [Threads -> Connection]
        /\ \A u \in Threads \ {t} : conn'[u] = conn[u]
        /\ conn'[t].pc = "new"
        /\ conn'[t].session = conn[t].session /\ conn'[t].hit = conn[t].hit
        /\ conn'[t].ret = conn[t].ret /\ conn'[t].c = conn[t].c
        /\ conn'[t].r = conn[t].r /\ conn'[t].sent = conn[t].sent
    <2> DEFINE d == conn[t]
               e == [d EXCEPT !.pc = "new", !.id = NoId]
    <2>1. conn' = [conn EXCEPT ![t] = e]
      BY DEF Miss
    <2>2. d \in Connection
      OBVIOUS
    <2>3. /\ e \in Connection /\ e.pc = "new" /\ e.session = d.session
          /\ e.hit = d.hit /\ e.ret = d.ret /\ e.c = d.c /\ e.r = d.r
          /\ e.sent = d.sent
      BY <2>2 DEF Connection, Pcs
    <2> HIDE DEF e
    <2> QED
      BY <2>1, <2>3
  <1> QED
    BY <1>1 DEF Holds

\* ClientHello: a connection begins, with nothing of its own.
LEMMA ClientHelloKeeps ==
    ASSUME Inv, NEW t \in Threads, ClientHello(t)
    PROVE  Inv'
  <1> DEFINE d == conn[t]
             e == conn'[t]
  <1>1. /\ conn \in [Threads -> Connection] /\ d \in Connection
        /\ PointersFollowSteps(d) /\ resumed \in [Ids -> Nat]
    BY InvFacts
  <1>2. /\ d.pc = "idle" /\ ctx' = ctx /\ st' = st /\ issued' = issued
        /\ resumed' = resumed
    BY DEF ClientHello, At
  <1>3. d.session = NULL /\ d.ret = NULL /\ d.c = NULL /\ d.r = NULL
    BY <1>1, <1>2 DEF PointersFollowSteps
  <1>4. /\ conn' \in [Threads -> Connection]
        /\ \A u \in Threads \ {t} : conn'[u] = conn[u]
        /\ e.session = d.session /\ e.ret = d.ret /\ e.c = d.c /\ e.r = d.r
        /\ e.hit = d.hit /\ e.sent = d.sent
        /\ e.pc = "new" \/ (e.pc = "lookup" /\ e.id \in Ids)
    <2>1. CASE Goto(t, "new")
      BY <2>1, <1>1, GotoFields DEF Pcs
    <2>2. CASE \E i \in Ids : conn' = [conn EXCEPT ![t].pc = "lookup", ![t].id = i]
      <3>1. PICK i \in Ids : conn' = [conn EXCEPT ![t].pc = "lookup", ![t].id = i]
        BY <2>2
      <3> QED
        BY <3>1, <1>1 DEF Connection, Pcs
    <2> QED
      BY <2>1, <2>2 DEF ClientHello
  <1> HIDE DEF d, e
  <1>5. \A s \in Structs : Holds(e, s) = Holds(d, s)
    BY <1>4 DEF Holds
  <1>6. PointersFollowSteps(e)
    BY <1>1, <1>2, <1>3, <1>4 DEF PointersFollowSteps, Serving
  <1>7. Own(e) = {}
    BY <1>4 DEF Own
  <1>8. FoundAndRemoved(e, st)
    BY <1>3, <1>4 DEF FoundAndRemoved
  <1> QED
    BY <1>1, <1>2, <1>4, <1>5, <1>6, <1>7, <1>8, MoveKeeps DEF d, e

\* lookup_sess_in_cache: what is found in the cache is held before the lock
\* is released.
LEMMA LookupKeeps ==
    ASSUME Inv, NEW t \in Threads, lookup_sess_in_cache(t)
    PROVE  Inv'
  <1> DEFINE d == conn[t]
             e == conn'[t]
             s == Retrieve(st, conn[t].id)
             K == Held(conn)
             H == Plus(K, s)
  <1>1. /\ conn \in [Threads -> Connection] /\ d \in Connection
        /\ PointersFollowSteps(d) /\ resumed \in [Ids -> Nat]
        /\ Good(st, K) /\ st \in Store /\ Hashed(st) /\ K \in [Structs -> Nat]
    BY InvFacts
  <1>2. d.pc = "lookup" /\ ctx' = ctx /\ issued' = issued /\ resumed' = resumed
    BY DEF lookup_sess_in_cache, At
  <1>3. d.session = NULL /\ d.ret = NULL /\ d.c = NULL /\ d.r = NULL /\ d.id \in Ids
        /\ ~d.hit /\ d.sent = 0
    BY <1>1, <1>2 DEF PointersFollowSteps
  <1>4. CASE s # NULL
    <2>1. s \in Cached(st) /\ s \in Structs /\ st.mem[s].id = d.id
      BY <1>1, <1>3, <1>4, StoreFields, CachedInStructs, Marks DEF Retrieve, Hashed
    <2>2. /\ st' = SSL_SESSION_up_ref(st, s)
          /\ conn' = [conn EXCEPT ![t].pc = "found", ![t].ret = s]
      BY <1>4 DEF lookup_sess_in_cache, Hold
    <2> HIDE DEF s
    <2>3. /\ conn' \in [Threads -> Connection]
          /\ \A u \in Threads \ {t} : conn'[u] = conn[u]
          /\ e.session = d.session /\ e.ret = s /\ e.c = d.c /\ e.r = d.r
          /\ e.hit = d.hit /\ e.sent = d.sent /\ e.pc = "found" /\ e.id = d.id
      BY <2>1, <2>2, <1>1 DEF Connection, Pcs
    <2>4. /\ Sound(st', Cached(st), H)
          /\ st'.sessions = st.sessions /\ st'.ext = st.ext
          /\ \A q \in Structs : /\ st'.mem[q].id = st.mem[q].id
                                /\ st'.mem[q].not_resumable = st.mem[q].not_resumable
                                /\ q # s => st'.mem[q].references = st.mem[q].references
      BY <2>1, <2>2, <1>1, SoundUpRef DEF Good
    <2> HIDE DEF d, e, K
    <2>5. \A q \in Structs : H[q] + Holds(d, q) = K[q] + Holds(e, q)
      <3> TAKE q \in Structs
      <3>1. Holds(d, q) = 0 /\ Holds(e, q) = IF q = s THEN 1 ELSE 0
        BY <2>1, <2>3, <1>3, Marks DEF Holds, In
      <3>2. H[q] = (IF q = s THEN K[q] + 1 ELSE K[q]) /\ K[q] \in Nat
        BY <1>1, PlusMinus
      <3> HIDE DEF H
      <3> QED
        BY <3>1, <3>2
    <2>6. H = Held(conn')
      <3>1. H \in [Structs -> Nat]
        BY <1>1, PlusMinus
      <3> HIDE DEF H
      <3> QED
        BY <3>1, <2>3, <2>5, HeldIs DEF d, e, K
    <2> HIDE DEF H
    <2>7. Good(st', Held(conn'))
      BY <2>4, <2>6, <1>1, GoodFrame
    <2>8. Drops(st, st')
      <3>1. st.mem[s].references > 0
        <4>1. /\ st.mem[s].references = In(s, Cached(st)) + In(s, Kept(st)) + K[s]
              /\ K[s] \in Nat
          BY <2>1, <1>1 DEF Good, Sound, Counted
        <4>2. In(s, Cached(st)) = 1 /\ In(s, Kept(st)) \in Nat
          BY <2>1 DEF In
        <4> QED
          BY <4>1, <4>2
      <3> QED
        BY <3>1, <2>4 DEF Drops, Alive
    <2>9. PointersFollowSteps(e)
      BY <2>1, <2>3, <1>3, Marks DEF PointersFollowSteps, Serving
    <2>10. Own(e) = {}
      BY <2>3 DEF Own
    <2>11. FoundAndRemoved(e, st')
      BY <2>1, <2>3, <2>4, <1>3 DEF FoundAndRemoved
    <2> QED
      BY <2>1, <2>3, <2>7, <2>8, <2>9, <2>10, <2>11, <1>1, <1>2, <1>3, Marks, DropKeeps
         DEF d, e
  <1>5. CASE s = NULL
    <2>1. st' = st /\ IF External THEN Goto(t, "ask") ELSE Miss(t)
      BY <1>5 DEF lookup_sess_in_cache
    <2>2. /\ conn' \in [Threads -> Connection]
          /\ \A u \in Threads \ {t} : conn'[u] = conn[u]
          /\ e.session = d.session /\ e.ret = d.ret /\ e.c = d.c /\ e.r = d.r
          /\ e.hit = d.hit /\ e.sent = d.sent
          /\ IF External THEN e.pc = "ask" /\ e.id = d.id ELSE e.pc = "new"
          /\ \A q : Holds(e, q) = Holds(d, q)
      BY <2>1, <1>1, GotoFields, MissFields DEF Pcs
    <2> HIDE DEF d, e
    <2>3. PointersFollowSteps(e)
      BY <2>2, <1>3 DEF PointersFollowSteps, Serving
    <2>4. Own(e) = {}
      BY <2>2 DEF Own
    <2>5. FoundAndRemoved(e, st)
      BY <2>2, <1>3 DEF FoundAndRemoved
    <2> QED
      BY <2>1, <2>2, <2>3, <2>4, <2>5, <1>1, <1>2, MoveKeeps DEF d, e
  <1> QED
    BY <1>4, <1>5

\* SSL_SESSION_free by one who holds the session, as a removal.
LEMMA FreeIsGood ==
    ASSUME NEW x, NEW K, Good(x, K), NEW s \in Structs \cup {NULL},
           s \in Structs => K[s] > 0
    PROVE  LET y == SSL_SESSION_free(x, s)
           IN  /\ Good(y, Minus(K, s))
               /\ Drops(x, y)
               /\ Cached(y) = Cached(x)
  <1> DEFINE y == SSL_SESSION_free(x, s)
  <1>1. x \in Store /\ Hashed(x) /\ Sound(x, Cached(x), K)
    BY DEF Good, Sound
  <1>2. /\ Sound(y, Cached(x), Minus(K, s))
        /\ y.sessions = x.sessions /\ y.ext = x.ext
        /\ \A q \in Structs :
             /\ y.mem[q].id \in {x.mem[q].id, NoId}
             /\ y.mem[q].not_resumable => x.mem[q].not_resumable
             /\ q \in Cached(x) => y.mem[q].id = x.mem[q].id
        /\ Alive(x, y)
    BY <1>1, SoundFree
  <1> HIDE DEF y
  <1>3. Good(y, Minus(K, s)) /\ Cached(y) = Cached(x)
    BY <1>1, <1>2, GoodFrame
  <1>4. Drops(x, y)
    BY <1>2 DEF Drops
  <1> QED
    BY <1>3, <1>4 DEF y

\* What remove_session_lock does after the unlock: the application drops what
\* it has under the id of c, and r is freed.
LEMMA UnlockIsGood ==
    ASSUME NEW x, NEW K, Good(x, K), NEW c \in Structs,
           NEW r \in Structs \cup {NULL}, r \in Structs => K[r] > 0
    PROVE  LET y == SSL_SESSION_free(IF x.mem[c].id = NoId
                                       THEN x ELSE remove_session_cb(x, c), r)
           IN  /\ Good(y, Minus(K, r))
               /\ Drops(x, y)
               /\ Cached(y) = Cached(x)
  <1> DEFINE z == IF x.mem[c].id = NoId THEN x ELSE remove_session_cb(x, c)
             y == SSL_SESSION_free(z, r)
  <1>1. x \in Store /\ Hashed(x) /\ Sound(x, Cached(x), K)
    BY DEF Good, Sound
  <1>2. Good(z, K) /\ Drops(x, z) /\ Cached(z) = Cached(x)
    <2>1. CASE x.mem[c].id = NoId
      BY <2>1 DEF Drops, Alive
    <2>2. CASE x.mem[c].id # NoId
      <3>1. z = remove_session_cb(x, c)
        BY <2>2
      <3>2. /\ Sound(z, Cached(x), K)
            /\ z.sessions = x.sessions
            /\ \A i \in Ids : z.ext[i] \in {x.ext[i], NULL}
            /\ \A q \in Structs :
                 /\ z.mem[q].id \in {x.mem[q].id, NoId}
                 /\ z.mem[q].not_resumable => x.mem[q].not_resumable
                 /\ q \in Cached(x) => z.mem[q].id = x.mem[q].id
            /\ Alive(x, z)
        BY <3>1, <1>1, RemoveCb
      <3> HIDE DEF z
      <3>3. Good(z, K) /\ Cached(z) = Cached(x)
        BY <3>2, <1>1, GoodFrame
      <3>4. Drops(x, z)
        BY <3>2 DEF Drops
      <3> QED
        BY <3>3, <3>4
    <2> QED
      BY <2>1, <2>2
  <1> HIDE DEF z
  <1>3. Good(y, Minus(K, r)) /\ Drops(z, y) /\ Cached(y) = Cached(z)
    BY <1>2, FreeIsGood
  <1>4. Drops(x, y)
    <2>1. z \in Store /\ y \in Store
      BY <1>2, <1>3 DEF Good, Sound
    <2> QED
      BY <2>1, <1>1, <1>2, <1>3, DropsTransitive
  <1> QED
    BY <1>2, <1>3, <1>4 DEF y, z

\* A step that makes a session and gives it to its connection.
LEMMA NewKeeps ==
    ASSUME Inv, NEW t \in Threads, NEW s \in Free(st),
           NEW new \in Session, new.references = 1, new.next = NULL, new.prev = NULL,
           new.not_resumable = FALSE,
           st' = [st EXCEPT !.mem[s] = new],
           conn' \in [Threads -> Connection],
           \A u \in Threads \ {t} : conn'[u] = conn[u],
           ctx' = ctx, issued' = issued, resumed' = resumed,
           conn[t].session = NULL, conn[t].ret = NULL, conn[t].r = NULL,
           conn'[t].r = NULL,
           \/ conn'[t].session = s /\ conn'[t].ret = NULL
           \/ conn'[t].ret = s /\ conn'[t].session = NULL,
           PointersFollowSteps(conn'[t]),
           Own(conn'[t]) \subseteq {s},
           FoundAndRemoved(conn'[t], st')
    PROVE  Inv'
  <1> DEFINE d == conn[t]
             e == conn'[t]
             K == Held(conn)
             H == Plus(K, s)
  <1>1. /\ Good(st, K) /\ st \in Store /\ Hashed(st) /\ K \in [Structs -> Nat]
        /\ CacheSize > 0 => Number(st) <= CacheSize
        /\ ~TLS13 /\ ~Shared => \A q \in Cached(st) : ~st.mem[q].not_resumable
        /\ issued \subseteq Ids /\ resumed \in [Ids -> Nat]
    BY InvFacts
  <1>2. /\ Good(st', H)
        /\ st'.sessions = st.sessions /\ st'.ext = st.ext
        /\ \A q \in Structs : st'.mem[q] = IF q = s THEN new ELSE st.mem[q]
        /\ K[s] = 0 /\ s \notin Cached(st) /\ s \notin Kept(st) /\ s \in Structs
    BY <1>1, NewIsGood
  <1>3. Cached(st') = Cached(st) /\ Kept(st') = Kept(st)
    BY <1>2 DEF Cached, Kept
  <1> HIDE DEF K, e, d
  <1>4. \A q \in Structs : H[q] + Holds(d, q) = K[q] + Holds(e, q)
    <2> TAKE q \in Structs
    <2>1. Holds(d, q) = 0 /\ Holds(e, q) = IF q = s THEN 1 ELSE 0
      BY <1>2, Marks DEF Holds, In, d, e
    <2>2. H[q] = (IF q = s THEN K[q] + 1 ELSE K[q]) /\ K[q] \in Nat
      BY <1>1, PlusMinus
    <2> HIDE DEF H
    <2> QED
      BY <2>1, <2>2
  <1>5. H = Held(conn')
    <2>1. H \in [Structs -> Nat]
      BY <1>1, PlusMinus
    <2> HIDE DEF H
    <2> QED
      BY <2>1, <1>4, HeldIs DEF d, e, K
  <1> HIDE DEF H
  <1>6. st.mem[s].references = 0
    BY DEF Free
  <1>7. LeavesOthers(d, e, st, st')
    <2>1. \A q \in Structs : Holds(e, q) > 0 => q = s
      BY <1>2, HoldsOne, Marks DEF e
    <2>2. \A q \in Structs :
            \/ st'.mem[q].id = st.mem[q].id
            \/ st.mem[q].references <= Holds(d, q)
      BY <1>2, <1>6, HoldsOne
    <2>3. \A q \in Structs :
            st'.mem[q].not_resumable =>
              st.mem[q].not_resumable \/ st.mem[q].references = 0
      BY <1>2, <1>6
    <2> QED
      BY <2>1, <2>2, <2>3, <1>3, <1>6 DEF LeavesOthers
  <1>8. OwnIsPrivate(e, st')
    BY <1>2, <1>3 DEF OwnIsPrivate, e
  <1>9. CacheSize > 0 => Number(st') <= CacheSize
    BY <1>1, <1>2 DEF Number
  <1>10. ~TLS13 /\ ~Shared => \A q \in Cached(st') : ~st'.mem[q].not_resumable
    <2>1. Cached(st) \subseteq Structs
      BY <1>1, CachedInStructs
    <2> QED
      BY <2>1, <1>1, <1>2, <1>3
  <1> QED
    BY <1>1, <1>2, <1>5, <1>7, <1>8, <1>9, <1>10, StepKeeps DEF d, e

\* New makes a session of memory that nobody has.
LEMMA NewFields ==
    ASSUME NEW i \in Ids \cup {NoId}
    PROVE  LET new == [Blank EXCEPT !.references = 1, !.id = i]
           IN  /\ new \in Session /\ new.references = 1 /\ new.id = i
               /\ new.next = NULL /\ new.prev = NULL /\ new.not_resumable = FALSE
    BY DEF Blank, Session, Links

\* GetSessionCb: what the application decodes is the connection's own, unless
\* it may be shared; what it shares is held before others can drop it.
LEMMA GetSessionCbKeeps ==
    ASSUME Inv, NEW t \in Threads, GetSessionCb(t)
    PROVE  Inv'
  <1> DEFINE d == conn[t]
             e == conn'[t]
             kept == st.ext[conn[t].id]
  <1>1. /\ conn \in [Threads -> Connection] /\ d \in Connection /\ st \in Store
        /\ PointersFollowSteps(d) /\ resumed \in [Ids -> Nat]
    BY InvFacts
  <1>2. d.pc = "ask" /\ ctx' = ctx /\ issued' = issued /\ resumed' = resumed
    BY DEF GetSessionCb, At
  <1>3. d.session = NULL /\ d.ret = NULL /\ d.c = NULL /\ d.r = NULL /\ d.id \in Ids
        /\ ~d.hit /\ d.sent = 0 /\ External
    BY <1>1, <1>2 DEF PointersFollowSteps
  <1>4. CASE Miss(t) /\ UNCHANGED st
    <2>1. /\ conn' \in [Threads -> Connection]
          /\ \A u \in Threads \ {t} : conn'[u] = conn[u]
          /\ e.session = d.session /\ e.ret = d.ret /\ e.c = d.c /\ e.r = d.r
          /\ e.hit = d.hit /\ e.sent = d.sent /\ e.pc = "new"
          /\ \A q : Holds(e, q) = Holds(d, q)
      BY <1>1, <1>4, MissFields
    <2> HIDE DEF d, e
    <2>2. PointersFollowSteps(e)
      BY <2>1, <1>3 DEF PointersFollowSteps, Serving
    <2>3. Own(e) = {}
      BY <2>1 DEF Own
    <2>4. FoundAndRemoved(e, st)
      BY <2>1, <1>3 DEF FoundAndRemoved
    <2> QED
      BY <2>1, <2>2, <2>3, <2>4, <1>1, <1>2, <1>4, MoveKeeps DEF d, e
  <1>5. CASE ReturnDecoded(t)
    <2>1. PICK s \in Free(st) :
               /\ st' = New(st, s, d.id)
               /\ conn' = [conn EXCEPT ![t].pc = "store", ![t].ret = s]
      BY <1>5 DEF ReturnDecoded
    <2> DEFINE new == [Blank EXCEPT !.references = 1, !.id = d.id]
    <2>2. /\ new \in Session /\ new.references = 1 /\ new.id = d.id
          /\ new.next = NULL /\ new.prev = NULL /\ new.not_resumable = FALSE
      BY <1>3, NewFields
    <2>3. st' = [st EXCEPT !.mem[s] = new]
      BY <2>1 DEF New
    <2>4. s \in Structs
      BY DEF Free
    <2>5. /\ conn' \in [Threads -> Connection]
          /\ \A u \in Threads \ {t} : conn'[u] = conn[u]
          /\ e.session = d.session /\ e.ret = s /\ e.c = d.c /\ e.r = d.r
          /\ e.hit = d.hit /\ e.sent = d.sent /\ e.id = d.id /\ e.pc = "store"
      BY <2>1, <2>4, <1>1 DEF Connection, Pcs
    <2> HIDE DEF new
    <2>6. st'.mem[s] = new
      BY <2>3, <2>4, <1>1 DEF Store
    <2> HIDE DEF d, e
    <2>7. PointersFollowSteps(e)
      BY <2>4, <2>5, <1>3, Marks DEF PointersFollowSteps, Serving
    <2>8. Own(e) \subseteq {s}
      BY <2>5 DEF Own
    <2>9. FoundAndRemoved(e, st')
      BY <2>2, <2>5, <2>6, <1>3 DEF FoundAndRemoved
    <2> QED
      BY <2>2, <2>3, <2>5, <2>7, <2>8, <2>9, <1>2, <1>3, NewKeeps DEF d, e
  <1>6. CASE kept \in Structs /\ Shared /\ ReturnKept(t, kept)
    <2> DEFINE s == kept
               K == Held(conn)
               H == Plus(K, s)
    <2>1. /\ Good(st, K) /\ K \in [Structs -> Nat] /\ Sound(st, Cached(st), K)
          /\ KeptUnderTheirIds(st)
      BY InvFacts DEF Good, Sound
    <2>2. /\ s \in Structs /\ s \in Kept(st) /\ st.mem[s].id \in {d.id, NoId}
      BY <2>1, <1>3, <1>6 DEF KeptUnderTheirIds, Kept
    <2>3. /\ st' = SSL_SESSION_up_ref(st, s)
          /\ conn' = [conn EXCEPT ![t].pc = "store", ![t].ret = s]
      BY <1>6 DEF ReturnKept
    <2> HIDE DEF s, kept
    <2>4. /\ conn' \in [Threads -> Connection]
          /\ \A u \in Threads \ {t} : conn'[u] = conn[u]
          /\ e.session = d.session /\ e.ret = s /\ e.c = d.c /\ e.r = d.r
          /\ e.hit = d.hit /\ e.sent = d.sent /\ e.id = d.id /\ e.pc = "store"
      BY <2>2, <2>3, <1>1 DEF Connection, Pcs
    <2>5. /\ Sound(st', Cached(st), H)
          /\ st'.sessions = st.sessions /\ st'.ext = st.ext
          /\ \A q \in Structs : /\ st'.mem[q].id = st.mem[q].id
                                /\ st'.mem[q].not_resumable = st.mem[q].not_resumable
                                /\ q # s => st'.mem[q].references = st.mem[q].references
      BY <2>1, <2>2, <2>3, SoundUpRef
    <2> HIDE DEF d, e, K
    <2>6. H = Held(conn')
      <3>1. H \in [Structs -> Nat]
        BY <2>1, PlusMinus
      <3>2. \A q \in Structs : H[q] + Holds(d, q) = K[q] + Holds(e, q)
        <4> TAKE q \in Structs
        <4>1. Holds(d, q) = 0 /\ Holds(e, q) = IF q = s THEN 1 ELSE 0
          BY <2>2, <2>4, <1>3, Marks DEF Holds, In
        <4>2. H[q] = (IF q = s THEN K[q] + 1 ELSE K[q]) /\ K[q] \in Nat
          BY <2>1, PlusMinus
        <4> HIDE DEF H
        <4> QED
          BY <4>1, <4>2
      <3> HIDE DEF H
      <3> QED
        BY <3>1, <3>2, <2>4, HeldIs DEF d, e, K
    <2> HIDE DEF H
    <2>7. Good(st', Held(conn'))
      BY <2>1, <2>5, <2>6, <1>1, GoodFrame DEF Good
    <2>8. Drops(st, st')
      <3>1. st.mem[s].references > 0
        <4>1. /\ st.mem[s].references = In(s, Cached(st)) + In(s, Kept(st)) + K[s]
              /\ K[s] \in Nat
          BY <2>1, <2>2 DEF Sound, Counted
        <4>2. In(s, Kept(st)) = 1 /\ In(s, Cached(st)) \in Nat
          BY <2>2 DEF In
        <4> QED
          BY <4>1, <4>2
      <3> QED
        BY <3>1, <2>5 DEF Drops, Alive
    <2>9. PointersFollowSteps(e)
      BY <2>2, <2>4, <1>3, Marks DEF PointersFollowSteps, Serving
    <2>10. Own(e) = {}
      BY <2>4, <1>6 DEF Own
    <2>11. FoundAndRemoved(e, st')
      BY <2>2, <2>4, <2>5, <1>3, <1>6 DEF FoundAndRemoved
    <2> QED
      BY <2>2, <2>4, <2>7, <2>8, <2>9, <2>10, <2>11, <1>1, <1>2, <1>3, Marks, DropKeeps
         DEF d, e
  <1> QED
    BY <1>4, <1>5, <1>6 DEF GetSessionCb

\* ssl_get_new_session: a new session is the connection's own.
LEMMA NewSessionKeeps ==
    ASSUME Inv, NEW t \in Threads, ssl_get_new_session(t)
    PROVE  Inv'
  <1> DEFINE d == conn[t]
             e == conn'[t]
  <1>1. /\ conn \in [Threads -> Connection] /\ d \in Connection /\ st \in Store
        /\ PointersFollowSteps(d) /\ resumed \in [Ids -> Nat]
    BY InvFacts
  <1>2. d.pc = "new" /\ ctx' = ctx /\ issued' = issued /\ resumed' = resumed
    BY DEF ssl_get_new_session, At
  <1>3. d.session = NULL /\ d.ret = NULL /\ d.c = NULL /\ d.r = NULL
        /\ ~d.hit /\ d.sent = 0
    BY <1>1, <1>2 DEF PointersFollowSteps
  <1>4. CASE Goto(t, "close") /\ UNCHANGED st
    <2>1. /\ conn' \in [Threads -> Connection]
          /\ \A u \in Threads \ {t} : conn'[u] = conn[u]
          /\ e.session = d.session /\ e.ret = d.ret /\ e.c = d.c /\ e.r = d.r
          /\ e.hit = d.hit /\ e.sent = d.sent /\ e.id = d.id /\ e.pc = "close"
          /\ \A q : Holds(e, q) = Holds(d, q)
      BY <1>1, <1>4, GotoFields DEF Pcs
    <2> HIDE DEF d, e
    <2>2. PointersFollowSteps(e)
      BY <2>1, <1>3 DEF PointersFollowSteps, Serving
    <2>3. Own(e) = {}
      BY <2>1 DEF Own
    <2>4. FoundAndRemoved(e, st)
      BY <2>1, <1>3 DEF FoundAndRemoved
    <2> QED
      BY <2>1, <2>2, <2>3, <2>4, <1>1, <1>2, <1>4, MoveKeeps DEF d, e
  <1>5. CASE \E s \in Free(st), i \in Ids \cup {NoId} :
               /\ st' = New(st, s, i)
               /\ conn' = [conn EXCEPT ![t].pc = "handshake", ![t].session = s]
    <2>1. PICK s \in Free(st), i \in Ids \cup {NoId} :
               /\ st' = New(st, s, i)
               /\ conn' = [conn EXCEPT ![t].pc = "handshake", ![t].session = s]
      BY <1>5
    <2> DEFINE new == [Blank EXCEPT !.references = 1, !.id = i]
    <2>2. /\ new \in Session /\ new.references = 1
          /\ new.next = NULL /\ new.prev = NULL /\ new.not_resumable = FALSE
      BY NewFields
    <2>3. st' = [st EXCEPT !.mem[s] = new]
      BY <2>1 DEF New
    <2>4. s \in Structs
      BY DEF Free
    <2>5. /\ conn' \in [Threads -> Connection]
          /\ \A u \in Threads \ {t} : conn'[u] = conn[u]
          /\ e.session = s /\ e.ret = d.ret /\ e.c = d.c /\ e.r = d.r
          /\ e.hit = d.hit /\ e.sent = d.sent /\ e.id = d.id /\ e.pc = "handshake"
      BY <2>1, <2>4, <1>1 DEF Connection, Pcs
    <2> HIDE DEF new, d, e
    <2>6. PointersFollowSteps(e)
      BY <2>4, <2>5, <1>3, Marks DEF PointersFollowSteps, Serving
    <2>7. Own(e) = {s}
      BY <2>5, <1>3 DEF Own
    <2>8. FoundAndRemoved(e, st')
      BY <2>5, <1>3 DEF FoundAndRemoved
    <2> QED
      BY <2>2, <2>3, <2>5, <2>6, <2>7, <2>8, <1>2, <1>3, NewKeeps DEF d, e
  <1> QED
    BY <1>4, <1>5 DEF ssl_get_new_session

\* Resume: the session that was found becomes the connection's.
LEMMA ResumeKeeps ==
    ASSUME Inv, NEW t \in Threads, Resume(t)
    PROVE  Inv'
  <1> DEFINE d == conn[t]
             e == conn'[t]
  <1>1. /\ conn \in [Threads -> Connection] /\ d \in Connection
        /\ PointersFollowSteps(d) /\ resumed \in [Ids -> Nat]
    BY InvFacts
  <1>2. /\ d.pc = "found" /\ ctx' = ctx /\ issued' = issued /\ resumed' = resumed
        /\ st' = st /\ ~TLS13
        /\ conn' = [conn EXCEPT ![t].pc = "handshake", ![t].id = NoId,
                                ![t].ret = NULL, ![t].session = conn[t].ret, ![t].hit = TRUE]
    BY DEF Resume, At
  <1>3. /\ d.session = NULL /\ d.ret # NULL /\ d.c = NULL /\ d.r = NULL
        /\ d.sent = 0 /\ d.ret \in Structs
    BY <1>1, <1>2 DEF PointersFollowSteps, Connection
  <1>4. /\ conn' \in [Threads -> Connection]
        /\ \A u \in Threads \ {t} : conn'[u] = conn[u]
        /\ e.session = d.ret /\ e.ret = NULL /\ e.c = d.c /\ e.r = d.r
        /\ e.hit = TRUE /\ e.sent = d.sent /\ e.pc = "handshake"
    BY <1>1, <1>2, <1>3 DEF Connection, Pcs
  <1> HIDE DEF d, e
  <1>5. \A s \in Structs : Holds(e, s) = Holds(d, s)
    BY <1>3, <1>4, Marks DEF Holds, In
  <1>6. PointersFollowSteps(e)
    BY <1>3, <1>4 DEF PointersFollowSteps, Serving
  <1>7. Own(e) = {}
    BY <1>4 DEF Own
  <1>8. FoundAndRemoved(e, st)
    BY <1>2, <1>3, <1>4 DEF FoundAndRemoved
  <1> QED
    BY <1>1, <1>2, <1>4, <1>5, <1>6, <1>7, <1>8, MoveKeeps DEF d, e

\* DropFound: the reference that the lookup took is given up.
LEMMA DropFoundKeeps ==
    ASSUME Inv, NEW t \in Threads, DropFound(t)
    PROVE  Inv'
  <1> DEFINE d == conn[t]
             e == conn'[t]
             K == Held(conn)
             H == Minus(K, d.ret)
  <1>1. /\ conn \in [Threads -> Connection] /\ d \in Connection
        /\ PointersFollowSteps(d) /\ resumed \in [Ids -> Nat]
        /\ Good(st, K) /\ K \in [Structs -> Nat]
    BY InvFacts
  <1>2. /\ d.pc = "found" /\ ctx' = ctx /\ issued' = issued /\ resumed' = resumed
        /\ st' = SSL_SESSION_free(st, d.ret)
    BY DEF DropFound, At
  <1>3. PICK pc \in {"new", "close"} :
          conn' = [conn EXCEPT ![t].pc = pc, ![t].id = NoId, ![t].ret = NULL]
    BY DEF DropFound
  <1>4. /\ d.session = NULL /\ d.ret # NULL /\ d.c = NULL /\ d.r = NULL
        /\ d.sent = 0 /\ ~d.hit /\ d.ret \in Structs
    BY <1>1, <1>2 DEF PointersFollowSteps, Connection
  <1>5. /\ conn' \in [Threads -> Connection]
        /\ \A u \in Threads \ {t} : conn'[u] = conn[u]
        /\ e.session = d.session /\ e.ret = NULL /\ e.c = d.c /\ e.r = d.r
        /\ e.hit = d.hit /\ e.sent = d.sent /\ e.pc = pc
    <2>1. /\ e = [d EXCEPT !.pc = pc, !.id = NoId, !.ret = NULL]
          /\ \A u \in Threads \ {t} : conn'[u] = conn[u]
          /\ e \in Connection => conn' \in [Threads -> Connection]
      BY <1>1, <1>3
    <2>2. pc \in Pcs
      BY DEF Pcs
    <2> HIDE DEF d, e
    <2>3. e \in Connection
          /\ e.session = d.session /\ e.ret = NULL /\ e.c = d.c /\ e.r = d.r
          /\ e.hit = d.hit /\ e.sent = d.sent /\ e.pc = pc
      BY <2>1, <2>2, <1>1 DEF Connection
    <2> QED
      BY <2>1, <2>3
  <1>6. K[d.ret] > 0
    <2>1. Holds(d, d.ret) > 0
      BY HoldsOne
    <2>2. /\ HeldBy(conn, Threads \ {t}, d.ret) \in Nat /\ Holds(d, d.ret) \in Nat
          /\ K[d.ret] = HeldBy(conn, Threads \ {t}, d.ret) + Holds(d, d.ret)
      BY <1>4, HeldSplit DEF Held
    <2> HIDE DEF K, d
    <2> QED
      BY <2>1, <2>2
  <1> HIDE DEF d, e, K
  <1>7. Good(st', H) /\ Drops(st, st')
    BY <1>1, <1>2, <1>4, <1>6, FreeIsGood
  <1>8. H = Held(conn')
    <2>1. H \in [Structs -> Nat]
      BY <1>1, <1>6, PlusMinus
    <2>2. \A q \in Structs : H[q] + Holds(d, q) = K[q] + Holds(e, q)
      <3> TAKE q \in Structs
      <3>1. Holds(e, q) = 0 /\ Holds(d, q) = IF q = d.ret THEN 1 ELSE 0
        BY <1>4, <1>5, Marks DEF Holds, In
      <3>2. H[q] = (IF q = d.ret THEN K[q] - 1 ELSE K[q]) /\ K[q] \in Nat
        BY <1>1, PlusMinus
      <3> HIDE DEF H
      <3> QED
        BY <3>1, <3>2
    <2> HIDE DEF H
    <2>3. t \in Threads /\ \A u \in Threads \ {t} : conn'[u] = conn[u]
      BY <1>5
    <2> QED
      BY ONLY <2>1, <2>2, <2>3, HeldIs DEF d, e, K
  <1> HIDE DEF H
  <1>9. PointersFollowSteps(e)
    BY <1>4, <1>5 DEF PointersFollowSteps, Serving
  <1>10. Own(e) = {}
    BY <1>5 DEF Own
  <1>11. FoundAndRemoved(e, st')
    BY <1>4, <1>5 DEF FoundAndRemoved
  <1> QED
    BY <1>1, <1>2, <1>4, <1>5, <1>7, <1>8, <1>9, <1>10, <1>11, Marks, DropKeeps DEF d, e

\* Who points to a session is counted among its references.
LEMMA HeldIsPositive ==
    ASSUME NEW cn, NEW t \in Threads, NEW s \in Structs,
           s = cn[t].session \/ s = cn[t].ret \/ s = cn[t].r
    PROVE  Held(cn)[s] > 0
  <1>1. Holds(cn[t], s) > 0
    BY HoldsOne
  <1>2. /\ HeldBy(cn, Threads \ {t}, s) \in Nat /\ Holds(cn[t], s) \in Nat
        /\ Held(cn)[s] = HeldBy(cn, Threads \ {t}, s) + Holds(cn[t], s)
    BY HeldSplit DEF Held
  <1> QED
    BY <1>1, <1>2

\* SSL_CTX_remove_session up to the unlock, with or without an id.
LEMMA BeginIsGood ==
    ASSUME NEW x, NEW K, Good(x, K), NEW c \in Structs
    PROVE  LET y == IF x.mem[c].id = NoId THEN x ELSE Detach(x, c)
               r == Retrieve(x, x.mem[c].id)
           IN  /\ Good(y, Plus(K, r))
               /\ r \in Structs \cup {NULL}
               /\ r # NULL => r \in Cached(x)
               /\ Cached(y) = Cached(x) \ {r}
               /\ c \notin Cached(y)
               /\ \A i \in Ids : y.sessions[i] \in {x.sessions[i], NULL}
               /\ x.mem[c].id \in Ids => y.sessions[x.mem[c].id] = NULL
               /\ Kept(y) = Kept(x)
               /\ \A q \in Structs : y.mem[q].id = x.mem[q].id
               /\ \A q \in Structs :
                    y.mem[q].not_resumable => x.mem[q].not_resumable \/ q = c
  <1> DEFINE i == x.mem[c].id
             r == Retrieve(x, i)
  <1>1. x \in Store /\ Hashed(x) /\ K \in [Structs -> Nat]
    BY DEF Good, Sound
  <1>2. i \in Ids \cup {NoId}
    BY <1>1, StoreFields
  <1>3. r # NULL => r \in Cached(x)
    BY <1>2 DEF Retrieve, Cached
  <1>4. CASE i = NoId
    <2>1. r = NULL
      BY <1>4 DEF Retrieve
    <2>2. Plus(K, NULL) = K
      BY <1>1, Marks DEF Plus
    <2>3. c \notin Cached(x)
      BY <1>1, <2>1, FoundById, Marks
    <2>4. Cached(x) = Cached(x) \ {NULL}
      BY DEF Cached
    <2> QED
      BY <1>4, <2>1, <2>2, <2>3, <2>4, <1>3, Marks
  <1>5. CASE i # NoId
    <2> DEFINE y == Detach(x, c)
    <2>1. /\ Good(y, Plus(K, r)) /\ r \in Structs \cup {NULL}
          /\ Cached(y) = Cached(x) \ {r} /\ c \notin Cached(y)
          /\ \A j \in Ids : y.sessions[j] \in {x.sessions[j], NULL}
          /\ x.mem[c].id \in Ids => y.sessions[x.mem[c].id] = NULL
          /\ y.ext = x.ext
          /\ \A q \in Structs : y.mem[q].id = x.mem[q].id
          /\ \A q \in Structs :
               y.mem[q].not_resumable => x.mem[q].not_resumable \/ q = c
      BY DetachIsGood
    <2>2. Kept(y) = Kept(x)
      BY <2>1 DEF Kept
    <2> QED
      BY <2>1, <2>2, <1>3, <1>5
  <1> QED
    BY <1>4, <1>5

\* A removal begins: the session and its reference are the connection's, and
\* what is marked is out of the cache.
LEMMA BeginRemoveKeeps ==
    ASSUME Inv, NEW t \in Threads, NEW c \in Structs, BeginRemove(t, c),
           \/ conn[t].pc = "found" /\ c = conn[t].ret
           \/ /\ conn[t].pc \in {"handshake", "finish", "ticket", "open"}
              /\ c = conn[t].session
    PROVE  Inv'
  <1> DEFINE d == conn[t]
             e == conn'[t]
             K == Held(conn)
             r == Retrieve(st, st.mem[c].id)
             H == Plus(K, r)
  <1>1. /\ conn \in [Threads -> Connection] /\ d \in Connection
        /\ PointersFollowSteps(d) /\ FoundAndRemoved(d, st)
        /\ resumed \in [Ids -> Nat] /\ issued \subseteq Ids
        /\ Good(st, K) /\ K \in [Structs -> Nat] /\ st \in Store /\ Hashed(st)
        /\ CacheSize > 0 => Number(st) <= CacheSize
        /\ CacheSize \in Nat
        /\ ~TLS13 /\ ~Shared => \A q \in Cached(st) : ~st.mem[q].not_resumable
    BY InvFacts
  <1>2. /\ ctx' = ctx /\ issued' = issued /\ resumed' = resumed
        /\ st' = IF st.mem[c].id = NoId THEN st ELSE Detach(st, c)
        /\ conn' = [conn EXCEPT ![t].pc = "removed", ![t].c = c, ![t].r = r]
    BY DEF BeginRemove
  <1>3. /\ Good(st', H) /\ r \in Structs \cup {NULL}
        /\ r # NULL => r \in Cached(st)
        /\ Cached(st') = Cached(st) \ {r}
        /\ c \notin Cached(st')
        /\ \A i \in Ids : st'.sessions[i] \in {st.sessions[i], NULL}
        /\ Kept(st') = Kept(st)
        /\ \A q \in Structs : st'.mem[q].id = st.mem[q].id
        /\ \A q \in Structs :
             st'.mem[q].not_resumable => st.mem[q].not_resumable \/ q = c
    BY <1>1, <1>2, BeginIsGood
  <1>4. /\ d.c = NULL /\ d.r = NULL /\ (d.session = NULL => ~d.hit /\ d.sent = 0)
        /\ d.ret # NULL => d.session = NULL /\ d.id \in Ids
        /\ c = d.ret \/ (d.ret = NULL /\ c = d.session)
    BY <1>1, Marks DEF PointersFollowSteps
  <1> HIDE DEF r
  <1>5. /\ conn' \in [Threads -> Connection]
        /\ \A u \in Threads \ {t} : conn'[u] = conn[u]
        /\ e.session = d.session /\ e.ret = d.ret /\ e.c = c /\ e.r = r
        /\ e.hit = d.hit /\ e.sent = d.sent /\ e.id = d.id /\ e.pc = "removed"
    <2>1. /\ e = [d EXCEPT !.pc = "removed", !.c = c, !.r = r]
          /\ \A u \in Threads \ {t} : conn'[u] = conn[u]
          /\ e \in Connection => conn' \in [Threads -> Connection]
      BY <1>1, <1>2
    <2>2. "removed" \in Pcs
      BY DEF Pcs
    <2> HIDE DEF d, e
    <2>3. e \in Connection
          /\ e.session = d.session /\ e.ret = d.ret /\ e.c = c /\ e.r = r
          /\ e.hit = d.hit /\ e.sent = d.sent /\ e.id = d.id /\ e.pc = "removed"
      BY <2>1, <2>2, <1>1, <1>3 DEF Connection
    <2> QED
      BY <2>1, <2>3
  <1> HIDE DEF d, e, K
  <1>6. H = Held(conn')
    <2>1. H \in [Structs -> Nat]
      BY <1>1, PlusMinus
    <2>2. \A q \in Structs : H[q] + Holds(d, q) = K[q] + Holds(e, q)
      <3> TAKE q \in Structs
      <3>1. Holds(e, q) = Holds(d, q) + IF q = r THEN 1 ELSE 0
        BY <1>4, <1>5, Marks DEF Holds, In
      <3>2. H[q] = (IF q = r THEN K[q] + 1 ELSE K[q]) /\ K[q] \in Nat
        BY <1>1, PlusMinus
      <3>3. Holds(d, q) \in Nat
        BY HoldsOne
      <3> HIDE DEF H
      <3> QED
        BY <3>1, <3>2, <3>3
    <2> HIDE DEF H
    <2>3. t \in Threads /\ \A u \in Threads \ {t} : conn'[u] = conn[u]
      BY <1>5
    <2> QED
      BY ONLY <2>1, <2>2, <2>3, HeldIs DEF d, e, K
  <1> HIDE DEF H
  <1>7. LeavesOthers(d, e, st, st')
    <2>1. \A q \in Structs : Holds(e, q) > 0 => Holds(d, q) > 0 \/ q \in Cached(st)
      BY <1>3, <1>5, HoldsOne, Marks
    <2>2. Holds(d, c) > 0
      BY <1>4, HoldsOne
    <2> QED
      BY <2>1, <2>2, <1>3 DEF LeavesOthers
  <1>8. PointersFollowSteps(e)
    BY <1>4, <1>5, Marks DEF PointersFollowSteps, Serving
  <1>9. Own(e) = {}
    BY <1>5 DEF Own
  <1>10. FoundAndRemoved(e, st')
    <2>1. d.ret # NULL => st'.mem[d.ret].id \in {d.id, NoId}
      <3>1. d.ret # NULL => d.ret \in Structs
        BY <1>1 DEF Connection
      <3> QED
        BY <3>1, <1>1, <1>3 DEF FoundAndRemoved
    <2> QED
      BY <2>1, <1>3, <1>5 DEF FoundAndRemoved
  <1>11. CacheSize > 0 => Number(st') <= CacheSize
    <2>1. st' \in Store
      BY <1>3 DEF Good, Sound
    <2>2. Number(st) \in Nat /\ Number(st') \in Nat /\ Number(st') <= Number(st)
      BY <2>1, <1>1, <1>3, NumberDrops
    <2> QED
      BY <2>2, <1>1
  <1>12. ~TLS13 /\ ~Shared => \A q \in Cached(st') : ~st'.mem[q].not_resumable
    <2>1. Cached(st) \subseteq Structs
      BY <1>1, CachedInStructs
    <2> QED
      BY <2>1, <1>1, <1>3
  <1>13. OwnIsPrivate(e, st')
    BY <1>9 DEF OwnIsPrivate
  <1> QED
    BY <1>1, <1>2, <1>5, <1>3, <1>6, <1>7, <1>8, <1>10, <1>11, <1>12, <1>13, StepKeeps
    DEF d, e

\* RemoveFound: a session that was looked up leaves the cache.
LEMMA RemoveFoundKeeps ==
    ASSUME Inv, NEW t \in Threads, RemoveFound(t)
    PROVE  Inv'
  <1>1. conn[t] \in Connection /\ PointersFollowSteps(conn[t])
    BY InvFacts
  <1>2. conn[t].pc = "found" /\ BeginRemove(t, conn[t].ret)
    BY DEF RemoveFound, At
  <1>3. conn[t].ret \in Structs
    BY <1>1, <1>2 DEF PointersFollowSteps, Connection
  <1> QED
    BY <1>2, <1>3, BeginRemoveKeeps

\* RemoveBad: the session of a connection that failed leaves the cache.
LEMMA RemoveBadKeeps ==
    ASSUME Inv, NEW t \in Threads, RemoveBad(t)
    PROVE  Inv'
  <1>1. conn[t] \in Connection /\ PointersFollowSteps(conn[t])
    BY InvFacts
  <1>2. /\ conn[t].pc \in {"handshake", "finish", "ticket", "open"}
        /\ BeginRemove(t, conn[t].session)
    BY DEF RemoveBad
  <1>3. conn[t].session \in Structs
    BY <1>1, <1>2 DEF PointersFollowSteps, Connection, Serving
  <1> QED
    BY <1>2, <1>3, BeginRemoveKeeps

\* FinishRemoveFound: the reference of the cache is given up, and then the
\* connection has the ticket to itself or gives it up too.
LEMMA FinishRemoveFoundKeeps ==
    ASSUME Inv, NEW t \in Threads, FinishRemoveFound(t)
    PROVE  Inv'
  <1> DEFINE d == conn[t]
             e == conn'[t]
             K == Held(conn)
             y == AfterUnlock(t)
             G == Minus(K, d.r)
             H == Minus(G, d.ret)
  <1>1. /\ conn \in [Threads -> Connection] /\ d \in Connection
        /\ PointersFollowSteps(d) /\ FoundAndRemoved(d, st)
        /\ resumed \in [Ids -> Nat] /\ st \in Store
        /\ Good(st, K) /\ K \in [Structs -> Nat]
    BY InvFacts
  <1>2. /\ d.pc = "removed" /\ d.ret # NULL /\ ctx' = ctx /\ issued' = issued
    BY DEF FinishRemoveFound, At
  <1>3. /\ d.session = NULL /\ d.c = d.ret /\ d.c # NULL /\ d.sent = 0 /\ ~d.hit
        /\ d.ret \in Structs /\ d.id \in Ids /\ d.r \in Structs \cup {NULL}
        /\ ~Shared => d.ret \notin Cached(st)
    BY <1>1, <1>2 DEF PointersFollowSteps, Connection, FoundAndRemoved
  <1>4. K[d.ret] > 0 /\ (d.r \in Structs => K[d.r] > 0)
    BY <1>3, HeldIsPositive
  <1>5. Good(y, G) /\ Drops(st, y) /\ Cached(y) = Cached(st)
    <2> HIDE DEF K, d
    <2> QED
      BY <1>1, <1>3, <1>4, UnlockIsGood DEF AfterUnlock, d
  <1>6. y \in Store /\ G \in [Structs -> Nat]
    BY <1>5 DEF Good, Sound
  <1> HIDE DEF K, y
  <1>7. \A q \in Structs : /\ K[q] \in Nat
                           /\ G[q] = IF q = d.r THEN K[q] - 1 ELSE K[q]
    BY <1>1, PlusMinus
  <1>8. CASE /\ st' = y
             /\ conn' = [conn EXCEPT ![t].pc = "handshake", ![t].id = NoId,
                          ![t].ret = NULL, ![t].c = NULL, ![t].r = NULL,
                          ![t].session = conn[t].ret, ![t].hit = TRUE]
             /\ resumed' = [resumed EXCEPT ![conn[t].id] = @ + 1]
    <2>1. /\ conn' \in [Threads -> Connection]
          /\ \A u \in Threads \ {t} : conn'[u] = conn[u]
          /\ e.session = d.ret /\ e.ret = NULL /\ e.c = NULL /\ e.r = NULL
          /\ e.hit = TRUE /\ e.sent = d.sent /\ e.pc = "handshake"
      BY <1>1, <1>3, <1>8 DEF Connection, Pcs
    <2>2. resumed' \in [Ids -> Nat]
      BY <1>1, <1>3, <1>8
    <2> HIDE DEF d, e, G
    <2>3. \A q \in Structs : G[q] + Holds(d, q) = K[q] + Holds(e, q)
      <3> TAKE q \in Structs
      <3>1. /\ Holds(e, q) = IF q = d.ret THEN 1 ELSE 0
            /\ Holds(d, q) = Holds(e, q) + IF q = d.r THEN 1 ELSE 0
        BY <1>3, <2>1, Marks DEF Holds, In
      <3> QED
        BY <3>1, <1>7
    <2>4. G = Held(conn')
      BY <2>1, <2>3, <1>6, HeldIs DEF d, e, K
    <2>5. PointersFollowSteps(e)
      BY <1>3, <2>1 DEF PointersFollowSteps, Serving
    <2>6. Own(e) = {}
      BY <2>1 DEF Own
    <2>7. FoundAndRemoved(e, st')
      BY <1>3, <1>5, <1>8, <2>1 DEF FoundAndRemoved
    <2>8. Good(st', Held(conn')) /\ Drops(st, st')
      BY <2>4, <1>5, <1>8
    <2>9. \A q \in Structs :
            q = e.session \/ q = e.ret \/ q = e.r =>
              \/ q = d.session \/ q = d.ret \/ q = d.r
              \/ q \in Cached(st) \/ st.mem[q].references = 0
      BY <2>1, Marks
    <2> QED
      BY <2>1, <2>2, <2>5, <2>6, <2>7, <2>8, <2>9, <1>2, DropKeeps DEF d, e
  <1>9. CASE /\ st' = SSL_SESSION_free(y, d.ret)
             /\ \E pc \in {"new", "close"} :
                  conn' = [conn EXCEPT ![t].pc = pc, ![t].id = NoId,
                                       ![t].ret = NULL, ![t].c = NULL, ![t].r = NULL]
             /\ resumed' = resumed
    <2>1. PICK pc \in {"new", "close"} :
                  conn' = [conn EXCEPT ![t].pc = pc, ![t].id = NoId,
                                       ![t].ret = NULL, ![t].c = NULL, ![t].r = NULL]
      BY <1>9
    <2>2. /\ conn' \in [Threads -> Connection]
          /\ \A u \in Threads \ {t} : conn'[u] = conn[u]
          /\ e.session = d.session /\ e.ret = NULL /\ e.c = NULL /\ e.r = NULL
          /\ e.hit = d.hit /\ e.sent = d.sent /\ e.pc = pc
      <3>1. /\ e = [d EXCEPT !.pc = pc, !.id = NoId, !.ret = NULL, !.c = NULL, !.r = NULL]
            /\ \A u \in Threads \ {t} : conn'[u] = conn[u]
            /\ e \in Connection => conn' \in [Threads -> Connection]
        BY <1>1, <2>1
      <3>2. pc \in Pcs
        BY DEF Pcs
      <3> HIDE DEF d, e
      <3>3. e \in Connection
            /\ e.session = d.session /\ e.ret = NULL /\ e.c = NULL /\ e.r = NULL
            /\ e.hit = d.hit /\ e.sent = d.sent /\ e.pc = pc
        BY <3>1, <3>2, <1>1 DEF Connection
      <3> QED
        BY <3>1, <3>3
    <2>3. /\ HeldBy(conn, Threads \ {t}, d.ret) \in Nat
          /\ K[d.ret] = HeldBy(conn, Threads \ {t}, d.ret) + Holds(d, d.ret)
      BY <1>3, HeldSplit DEF Held, K
    <2> HIDE DEF d, e, G
    <2>4. \A q \in Structs :
            /\ Holds(e, q) = 0
            /\ Holds(d, q) = (IF q = d.ret THEN 1 ELSE 0) + IF q = d.r THEN 1 ELSE 0
      BY <1>3, <2>2, Marks DEF Holds, In
    <2>5. G[d.ret] > 0
      BY <1>3, <1>7, <2>3, <2>4
    <2>6. Good(st', H) /\ Drops(y, st')
      BY <1>3, <1>5, <1>9, <2>5, FreeIsGood
    <2>7. st' \in Store /\ H \in [Structs -> Nat]
      BY <2>6 DEF Good, Sound
    <2>8. Drops(st, st')
      BY <1>1, <1>5, <1>6, <2>6, <2>7, DropsTransitive
    <2>9. \A q \in Structs : H[q] = IF q = d.ret THEN G[q] - 1 ELSE G[q]
      BY <1>6, PlusMinus
    <2> HIDE DEF H
    <2>10. \A q \in Structs : H[q] + Holds(d, q) = K[q] + Holds(e, q)
      <3> TAKE q \in Structs
      <3>1. H[q] = IF q = d.ret THEN G[q] - 1 ELSE G[q]
        BY <2>9
      <3> QED
        BY <3>1, <2>4, <1>7
    <2>11. H = Held(conn')
      BY <2>2, <2>7, <2>10, HeldIs DEF d, e, K
    <2>12. PointersFollowSteps(e)
      BY <1>3, <2>2 DEF PointersFollowSteps, Serving
    <2>13. Own(e) = {}
      BY <2>2 DEF Own
    <2>14. FoundAndRemoved(e, st')
      BY <1>3, <2>2 DEF FoundAndRemoved
    <2>15. Good(st', Held(conn')) /\ resumed' \in [Ids -> Nat]
      BY <2>6, <2>11, <1>1, <1>9
    <2>16. \A q \in Structs :
             q = e.session \/ q = e.ret \/ q = e.r =>
               \/ q = d.session \/ q = d.ret \/ q = d.r
               \/ q \in Cached(st) \/ st.mem[q].references = 0
      BY <2>2, Marks
    <2> HIDE DEF H
    <2> QED
      BY <2>2, <2>8, <2>12, <2>13, <2>14, <2>15, <2>16, <1>2, DropKeeps DEF d, e
  <1> QED
    BY <1>8, <1>9 DEF FinishRemoveFound, y

\* FinishRemoveBad: the reference of the cache is given up.
LEMMA FinishRemoveBadKeeps ==
    ASSUME Inv, NEW t \in Threads, FinishRemoveBad(t)
    PROVE  Inv'
  <1> DEFINE d == conn[t]
             e == conn'[t]
             K == Held(conn)
             H == Minus(K, d.r)
  <1>1. /\ conn \in [Threads -> Connection] /\ d \in Connection
        /\ PointersFollowSteps(d) /\ resumed \in [Ids -> Nat]
        /\ Good(st, K) /\ K \in [Structs -> Nat]
    BY InvFacts
  <1>2. /\ d.pc = "removed" /\ d.ret = NULL
        /\ ctx' = ctx /\ issued' = issued /\ resumed' = resumed
        /\ st' = AfterUnlock(t)
        /\ conn' = [conn EXCEPT ![t].pc = "close", ![t].c = NULL, ![t].r = NULL]
    BY DEF FinishRemoveBad, At
  <1>3. /\ d.c = d.session /\ d.c # NULL /\ d.c \in Structs
        /\ d.r \in Structs \cup {NULL}
    BY <1>1, <1>2 DEF PointersFollowSteps, Connection
  <1>4. d.r \in Structs => K[d.r] > 0
    BY HeldIsPositive
  <1>5. /\ conn' \in [Threads -> Connection]
        /\ \A u \in Threads \ {t} : conn'[u] = conn[u]
        /\ e.session = d.session /\ e.ret = d.ret /\ e.c = NULL /\ e.r = NULL
        /\ e.hit = d.hit /\ e.sent = d.sent /\ e.id = d.id /\ e.pc = "close"
    <2>1. /\ e = [d EXCEPT !.pc = "close", !.c = NULL, !.r = NULL]
          /\ \A u \in Threads \ {t} : conn'[u] = conn[u]
          /\ e \in Connection => conn' \in [Threads -> Connection]
      BY <1>1, <1>2
    <2>2. "close" \in Pcs
      BY DEF Pcs
    <2> HIDE DEF d, e
    <2>3. e \in Connection
          /\ e.session = d.session /\ e.ret = d.ret /\ e.c = NULL /\ e.r = NULL
          /\ e.hit = d.hit /\ e.sent = d.sent /\ e.id = d.id /\ e.pc = "close"
      BY <2>1, <2>2, <1>1 DEF Connection
    <2> QED
      BY <2>1, <2>3
  <1>6. Good(st', H) /\ Drops(st, st')
    <2> HIDE DEF K, d
    <2> QED
      BY <1>1, <1>2, <1>3, <1>4, UnlockIsGood DEF AfterUnlock, d
  <1> HIDE DEF d, e, K
  <1>7. H = Held(conn')
    <2>1. H \in [Structs -> Nat]
      BY <1>6 DEF Good, Sound
    <2>2. \A q \in Structs : H[q] + Holds(d, q) = K[q] + Holds(e, q)
      <3> TAKE q \in Structs
      <3>1. /\ Holds(e, q) = IF q = d.session THEN 1 ELSE 0
            /\ Holds(d, q) = Holds(e, q) + IF q = d.r THEN 1 ELSE 0
        BY <1>2, <1>5, Marks DEF Holds, In
      <3>2. H[q] = (IF q = d.r THEN K[q] - 1 ELSE K[q]) /\ K[q] \in Nat
        BY <1>1, PlusMinus
      <3> HIDE DEF H
      <3> QED
        BY <3>1, <3>2
    <2> HIDE DEF H
    <2>3. t \in Threads /\ \A u \in Threads \ {t} : conn'[u] = conn[u]
      BY <1>5
    <2> QED
      BY ONLY <2>1, <2>2, <2>3, HeldIs DEF d, e, K
  <1> HIDE DEF H
  <1>8. PointersFollowSteps(e)
    BY <1>1, <1>2, <1>3, <1>5 DEF PointersFollowSteps, Serving
  <1>9. Own(e) = {}
    BY <1>5 DEF Own
  <1>10. FoundAndRemoved(e, st')
    BY <1>2, <1>5 DEF FoundAndRemoved
  <1>11. Good(st', Held(conn')) /\ resumed' \in [Ids -> Nat]
    BY <1>1, <1>2, <1>6, <1>7
  <1>12. \A q \in Structs :
           q = e.session \/ q = e.ret \/ q = e.r =>
             \/ q = d.session \/ q = d.ret \/ q = d.r
             \/ q \in Cached(st) \/ st.mem[q].references = 0
    BY <1>5, Marks
  <1> QED
    BY <1>2, <1>5, <1>6, <1>8, <1>9, <1>10, <1>11, <1>12, DropKeeps DEF d, e

\* SSL_CTX_add_session of a session of the connection's own, or of one that
\* the application shares, whether the hash table takes it or not.
LEMMA AddKeeps ==
    ASSUME Inv, NEW t \in Threads, NEW c \in Structs, st.mem[c].id \in Ids,
           Holds(conn[t], c) > 0, c \in Own(conn[t]) \/ Shared,
           st' \in AddOutcomes(st, c),
           NEW pc \in Pcs, pc \notin {"store", "handshake", "removed"}, Goto(t, pc),
           ctx' = ctx, issued' = issued, resumed' = resumed,
           PointersFollowSteps(conn'[t]), Own(conn'[t]) = {}
    PROVE  Inv'
  <1> DEFINE d == conn[t]
             e == conn'[t]
             K == Held(conn)
  <1>1. /\ conn \in [Threads -> Connection] /\ d \in Connection
        /\ PointersFollowSteps(d) /\ FoundAndRemoved(d, st) /\ OwnIsPrivate(d, st)
        /\ resumed \in [Ids -> Nat] /\ issued \subseteq Ids
        /\ Good(st, K) /\ K \in [Structs -> Nat] /\ st \in Store
        /\ CacheSize > 0 => Number(st) <= CacheSize
        /\ CacheSize \in Nat
        /\ ~TLS13 /\ ~Shared => \A q \in Cached(st) : ~st.mem[q].not_resumable
    BY InvFacts
  <1>2. /\ conn' \in [Threads -> Connection]
        /\ \A u \in Threads \ {t} : conn'[u] = conn[u]
        /\ e.pc = pc /\ e.ret = d.ret /\ e.id = d.id /\ e.c = d.c
        /\ \A q : Holds(e, q) = Holds(d, q)
    BY <1>1, GotoFields
  <1>3. /\ c \in Structs /\ Holds(d, c) > 0
        /\ d.ret # NULL => d.ret \in Structs
        /\ st.mem[c].references > 0
    <2>1. Holds(d, c) <= st.mem[c].references /\ Holds(d, c) \in Nat
          /\ st.mem[c].references \in Nat
      BY <1>1, HeldIsCounted
    <2> QED
      BY <2>1, <1>1, OwnIsHeld
  <1> HIDE DEF d, e, K
  <1>4. e.c = NULL
    BY <1>2 DEF PointersFollowSteps, e
  <1>5. ~Shared => /\ c \notin Cached(st) /\ st.mem[c].references = 1
                   /\ ~TLS13 => ~st.mem[c].not_resumable
    BY <1>1 DEF OwnIsPrivate, d
  <1>6. CASE st' = st
    <2>1. FoundAndRemoved(e, st)
      BY <1>1, <1>2, <1>4 DEF FoundAndRemoved
    <2> QED
      BY <2>1, <1>1, <1>2, <1>6, MoveKeeps DEF d, e
  <1>7. CASE st' = SSL_CTX_add_session(st, c) /\ c \notin Cached(st)
    <2>1. /\ Good(st', K) /\ Adds(st, st', c)
          /\ CacheSize > 0 => Number(st') <= CacheSize
      BY <1>1, <1>3, <1>7, AddIsGood
    <2>2. st' \in Store
      BY <2>1 DEF Good, Sound
    <2>3. /\ \A q \in Cached(st') : q \in Structs /\ (q \in Cached(st) \/ q = c)
          /\ \A q \in Kept(st') : q \in Kept(st)
      <3>1. \A q \in Cached(st') : \E i \in Ids : st'.sessions[i] = q /\ q # NULL
        BY DEF Cached
      <3>2. \A q \in Cached(st') : q \in Cached(st) \/ q = c
        BY <3>1, <2>1 DEF Adds, Cached
      <3>3. \A q \in Kept(st') : q \in Kept(st)
        BY <2>1, Marks DEF Adds, Kept
      <3> QED
        BY <3>2, <3>3, <2>2, CachedInStructs
    <2>4. /\ \A q \in Structs : st'.mem[q].id \in {st.mem[q].id, NoId}
          /\ \A q \in Structs :
               st'.mem[q].not_resumable =>
                 \/ st.mem[q].not_resumable
                 \/ (q \in Cached(st) \/ q = c) /\ q \notin Cached(st')
          /\ \A q \in Structs :
               st'.mem[q].references > 0 => st'.mem[q].id = st.mem[q].id
          /\ \A q \in Structs : st'.mem[q].references \in Nat
      BY <2>1, <2>2, StoreFields DEF Adds, Alive
    <2>5. LeavesOthers(d, e, st, st')
      <3>1. \A q \in Structs :
              \/ st'.mem[q].id = st.mem[q].id
              \/ st'.mem[q].id = NoId /\ st'.mem[q].references = 0
        BY <2>4
      <3> QED
        BY <3>1, <2>3, <2>4, <1>2, <1>3, <1>5 DEF LeavesOthers
    <2>6. K = Held(conn')
      BY <1>1, <1>2, HeldIs DEF K, d, e
    <2>7. OwnIsPrivate(e, st')
      BY DEF OwnIsPrivate, e
    <2>8. FoundAndRemoved(e, st')
      BY <1>1, <1>2, <1>3, <1>4, <2>4 DEF FoundAndRemoved
    <2>9. ~TLS13 /\ ~Shared => \A q \in Cached(st') : ~st'.mem[q].not_resumable
      BY <1>1, <1>5, <2>3, <2>4
    <2> QED
      BY <2>1, <2>5, <2>6, <2>7, <2>8, <2>9, <1>1, <1>2, StepKeeps DEF d, e
  <1>8. CASE st' = SSL_CTX_add_session(st, c) /\ c \in Cached(st)
    <2>1. st.sessions[st.mem[c].id] = c
      BY <1>1, <1>8 DEF Good, Hashed, Cached
    <2>2. st' = st
      BY <2>1, <1>8 DEF SSL_CTX_add_session
    <2> QED
      BY <2>2, <1>6
  <1> QED
    BY <1>6, <1>7, <1>8 DEF AddOutcomes

\* StoreExternal: what the application returned is put into the cache.
LEMMA StoreExternalKeeps ==
    ASSUME Inv, ~IdIsGone, NEW t \in Threads, StoreExternal(t)
    PROVE  Inv'
  <1> DEFINE d == conn[t]
             e == conn'[t]
  <1>1. /\ conn \in [Threads -> Connection] /\ d \in Connection
        /\ PointersFollowSteps(d) /\ FoundAndRemoved(d, st)
    BY InvFacts
  <1>2. /\ d.pc = "store" /\ ctx' = ctx /\ issued' = issued /\ resumed' = resumed
        /\ st' \in AddOutcomes(st, d.ret) /\ Goto(t, "found")
    BY DEF StoreExternal, At
  <1>3. /\ e.session = d.session /\ e.ret = d.ret /\ e.c = d.c /\ e.r = d.r
        /\ e.hit = d.hit /\ e.sent = d.sent /\ e.id = d.id /\ e.pc = "found"
    BY <1>1, <1>2, GotoFields DEF Pcs
  <1> HIDE DEF d, e
  <1>4. /\ d.ret \in Own(d) \/ Shared
        /\ d.ret \in Structs /\ Holds(d, d.ret) > 0
        /\ st.mem[d.ret].id \in Ids
    <2>1. d.ret # NULL /\ d.id \in Ids /\ st.mem[d.ret].id \in {d.id, NoId}
      BY <1>1, <1>2 DEF FoundAndRemoved, PointersFollowSteps
    <2>2. st.mem[d.ret].id # NoId
      BY <1>2 DEF IdIsGone, At, d
    <2> QED
      BY <2>1, <2>2, <1>1, <1>2, OwnIsHeld DEF Own
  <1>5. PointersFollowSteps(e)
    BY <1>1, <1>2, <1>3 DEF PointersFollowSteps, Serving
  <1>6. Own(e) = {}
    BY <1>3 DEF Own
  <1> QED
    BY <1>2, <1>4, <1>5, <1>6, AddKeeps DEF d, e, Pcs

\* ssl_update_cache: a new session, or the session of a new ticket, is put
\* into the cache.
LEMMA UpdateCacheKeeps ==
    ASSUME Inv, NEW t \in Threads, ssl_update_cache(t)
    PROVE  Inv'
  <1> DEFINE d == conn[t]
             e == conn'[t]
             pc == IF MustCache(t) /\ External THEN "notify" ELSE "kept"
  <1>1. /\ conn \in [Threads -> Connection] /\ d \in Connection
        /\ PointersFollowSteps(d) /\ st \in Store /\ resumed \in [Ids -> Nat]
    BY InvFacts
  <1>2. /\ d.pc = IF TLS13 THEN "update" ELSE "finish"
        /\ ctx' = ctx /\ issued' = issued /\ resumed' = resumed
        /\ Goto(t, pc)
        /\ MustCache(t) => st' \in AddOutcomes(st, d.session)
        /\ ~MustCache(t) => st' = st
    BY DEF ssl_update_cache, At
  <1>3. pc \in Pcs /\ pc \in {"notify", "kept"} /\ (pc = "notify" => External)
    BY DEF Pcs
  <1> HIDE DEF pc
  <1>4. /\ conn' \in [Threads -> Connection]
        /\ \A u \in Threads \ {t} : conn'[u] = conn[u]
        /\ e.session = d.session /\ e.ret = d.ret /\ e.c = d.c /\ e.r = d.r
        /\ e.hit = d.hit /\ e.sent = d.sent /\ e.id = d.id /\ e.pc = pc
        /\ \A q : Holds(e, q) = Holds(d, q)
    BY <1>1, <1>2, <1>3, GotoFields
  <1> HIDE DEF d, e
  <1>5. /\ d.session # NULL /\ d.session \in Structs /\ d.ret = NULL /\ d.c = NULL
        /\ d.r = NULL
        /\ d.pc = "finish" => d.sent = 0
        /\ TLS13 => d.sent > 0
    BY <1>1, <1>2 DEF PointersFollowSteps, Serving, Connection
  <1>6. PointersFollowSteps(e)
    BY <1>3, <1>4, <1>5 DEF PointersFollowSteps, Serving
  <1>7. Own(e) = {}
    BY <1>3, <1>4 DEF Own
  <1>8. CASE MustCache(t)
    <2>1. st.mem[d.session].id # NoId /\ (~d.hit \/ TLS13)
      BY <1>8 DEF MustCache, SessionOf, d
    <2>2. st.mem[d.session].id \in Ids
      BY <2>1, <1>1, <1>5, StoreFields
    <2>3. d.session \in Own(d) /\ d.session \in Structs /\ Holds(d, d.session) > 0
      BY <2>1, <1>2, <1>5, HoldsOne DEF Own
    <2> QED
      BY <2>2, <2>3, <1>2, <1>3, <1>6, <1>7, <1>8, AddKeeps DEF d, e
  <1>9. CASE ~MustCache(t)
    <2>1. FoundAndRemoved(e, st)
      BY <1>3, <1>4, <1>5 DEF FoundAndRemoved
    <2> QED
      BY <2>1, <1>1, <1>2, <1>4, <1>6, <1>7, <1>9, MoveKeeps DEF d, e
  <1> QED
    BY <1>8, <1>9

\* What two stores have in common when only the id of s and flags that do not
\* matter here differ.
SameButId(x, y, s) ==
    /\ y \in Store
    /\ y.head = x.head /\ y.tail = x.tail /\ y.ext = x.ext /\ y.sessions = x.sessions
    /\ \A q \in Structs :
         /\ y.mem[q].references = x.mem[q].references
         /\ y.mem[q].not_resumable = x.mem[q].not_resumable
         /\ y.mem[q].next = x.mem[q].next /\ y.mem[q].prev = x.mem[q].prev
         /\ q # s => y.mem[q].id = x.mem[q].id

\* Setting one flag of a session leaves the others.
LEMMA ExpiredFields ==
    ASSUME NEW f \in [Structs -> Session], NEW s \in Structs, NEW b \in BOOLEAN
    PROVE  LET m == [f EXCEPT ![s].expired = b]
           IN  /\ m \in [Structs -> Session]
               /\ \A q \in Structs :
                    /\ m[q].references = f[q].references
                    /\ m[q].not_resumable = f[q].not_resumable
                    /\ m[q].next = f[q].next /\ m[q].prev = f[q].prev
                    /\ m[q].id = f[q].id
  <1> DEFINE w == f[s]
             v == [w EXCEPT !.expired = b]
             m == [f EXCEPT ![s] = v]
  <1>1. w \in Session /\ [f EXCEPT ![s].expired = b] = m
    OBVIOUS
  <1> HIDE DEF w
  <1>2. /\ v \in Session /\ v.references = w.references
        /\ v.not_resumable = w.not_resumable /\ v.next = w.next /\ v.prev = w.prev
        /\ v.id = w.id
    BY <1>1 DEF Session
  <1> HIDE DEF v
  <1>3. m \in [Structs -> Session] /\ \A q \in Structs : m[q] = IF q = s THEN v ELSE f[q]
    BY <1>2
  <1> HIDE DEF m
  <1> QED
    BY <1>1, <1>2, <1>3 DEF w

\* So does setting its id.
LEMMA IdFields ==
    ASSUME NEW f \in [Structs -> Session], NEW s \in Structs, NEW i \in Ids \cup {NoId}
    PROVE  LET m == [f EXCEPT ![s].id = i]
           IN  /\ m \in [Structs -> Session]
               /\ \A q \in Structs :
                    /\ m[q].references = f[q].references
                    /\ m[q].not_resumable = f[q].not_resumable
                    /\ m[q].next = f[q].next /\ m[q].prev = f[q].prev
                    /\ m[q].id = IF q = s THEN i ELSE f[q].id
  <1> DEFINE w == f[s]
             v == [w EXCEPT !.id = i]
             m == [f EXCEPT ![s] = v]
  <1>1. w \in Session /\ [f EXCEPT ![s].id = i] = m
    OBVIOUS
  <1> HIDE DEF w
  <1>2. /\ v \in Session /\ v.references = w.references
        /\ v.not_resumable = w.not_resumable /\ v.next = w.next /\ v.prev = w.prev
        /\ v.id = i
    BY <1>1 DEF Session
  <1> HIDE DEF v
  <1>3. m \in [Structs -> Session] /\ \A q \in Structs : m[q] = IF q = s THEN v ELSE f[q]
    BY <1>2
  <1> HIDE DEF m
  <1> QED
    BY <1>1, <1>2, <1>3 DEF w

\* A step that only changes flags of the connection's session s, which is not
\* in the cache: it takes its id away, or s is the connection's own.
LEMMA FlagsKeep ==
    ASSUME Inv, NEW t \in Threads, NEW s \in Structs, s = conn[t].session,
           s \notin Cached(st), SameButId(st, st', s),
           st'.mem[s].id \in {st.mem[s].id, NoId} \/ s \in Own(conn[t]),
           conn' \in [Threads -> Connection],
           \A u \in Threads \ {t} : conn'[u] = conn[u],
           ctx' = ctx, issued' \subseteq Ids, resumed' = resumed,
           \A q \in Structs : Holds(conn'[t], q) = Holds(conn[t], q),
           PointersFollowSteps(conn'[t]),
           Own(conn'[t]) \subseteq Own(conn[t]),
           FoundAndRemoved(conn'[t], st')
    PROVE  Inv'
  <1> DEFINE d == conn[t]
             e == conn'[t]
             K == Held(conn)
  <1>1. /\ PointersFollowSteps(d) /\ OwnIsPrivate(d, st) /\ d \in Connection
        /\ resumed \in [Ids -> Nat]
        /\ Good(st, K) /\ K \in [Structs -> Nat] /\ st \in Store
        /\ CacheSize > 0 => Number(st) <= CacheSize
        /\ ~TLS13 /\ ~Shared => \A q \in Cached(st) : ~st.mem[q].not_resumable
    BY InvFacts
  <1>2. Holds(d, s) > 0 /\ Holds(d, s) \in Nat
    BY HoldsOne
  <1>3. /\ st' \in Store
         /\ st'.head = st.head /\ st'.tail = st.tail /\ st'.ext = st.ext
         /\ st'.sessions = st.sessions
         /\ \A q \in Structs :
              /\ st'.mem[q].references = st.mem[q].references
              /\ st'.mem[q].not_resumable = st.mem[q].not_resumable
              /\ st'.mem[q].next = st.mem[q].next /\ st'.mem[q].prev = st.mem[q].prev
              /\ q # s => st'.mem[q].id = st.mem[q].id
    BY DEF SameButId
  <1> HIDE DEF d, e, K
  <1>4. s \in Own(d) => s \notin Kept(st) /\ st.mem[s].references = 1
    BY <1>1 DEF OwnIsPrivate
  <1>5. \A q \in Structs :
          /\ q \in Cached(st) => st'.mem[q].id = st.mem[q].id
          /\ q \in Kept(st) => st'.mem[q].id \in {st.mem[q].id, NoId}
    BY <1>4, <1>3 DEF d
  <1>6. Good(st', K) /\ Cached(st') = Cached(st) /\ Kept(st') = Kept(st)
    BY <1>1, <1>5, <1>3, GoodFlags
  <1>7. K = Held(conn')
    <2>1. /\ t \in Threads /\ \A u \in Threads \ {t} : conn'[u] = conn[u]
          /\ \A q \in Structs : Holds(e, q) = Holds(d, q)
      BY DEF d, e
    <2>2. \A q \in Structs : K[q] + Holds(d, q) = K[q] + Holds(e, q)
      BY <2>1
    <2>3. K \in [Structs -> Nat]
      BY <1>1
    <2> QED
      BY ONLY <2>1, <2>2, <2>3, HeldIs DEF K, d, e
  <1>8. LeavesOthers(d, e, st, st')
    <2>1. \A q \in Structs :
            \/ st'.mem[q].id = st.mem[q].id
            \/ st'.mem[q].id = NoId /\ Holds(d, q) > 0
            \/ st.mem[q].references <= Holds(d, q)
      <3>1. \/ st'.mem[s].id = st.mem[s].id
            \/ st'.mem[s].id = NoId
            \/ st.mem[s].references <= Holds(d, s)
        <4>1. CASE s \in Own(d)
          BY <4>1, <1>2, <1>4
        <4>2. CASE s \notin Own(d)
          BY <4>2 DEF d
        <4> QED
          BY <4>1, <4>2
      <3> QED
        BY <3>1, <1>2, <1>3
    <2>2. \A q \in Structs : Holds(e, q) = Holds(d, q)
      BY DEF d, e
    <2> QED
      BY <2>1, <2>2, <1>6, <1>3 DEF LeavesOthers
  <1>9. OwnIsPrivate(e, st')
    <2>1. Own(e) \subseteq Own(d) /\ \A q \in Own(d) : q \in Structs
      BY <1>1, OwnIsHeld DEF d, e
    <2> QED
      BY <2>1, <1>1, <1>6, <1>3 DEF OwnIsPrivate
  <1>10. CacheSize > 0 => Number(st') <= CacheSize
    BY <1>1, <1>3 DEF Number
  <1>11. ~TLS13 /\ ~Shared => \A q \in Cached(st') : ~st'.mem[q].not_resumable
    <2>1. Cached(st) \subseteq Structs
      BY <1>1, CachedInStructs
    <2> QED
      BY <2>1, <1>1, <1>6, <1>3
  <1> QED
    BY <1>1, <1>6, <1>7, <1>8, <1>9, <1>10, <1>11, <1>3, StepKeeps DEF d, e

\* The session of t was marked, and is in the cache all the same.
MarkedIsCached(t) == SessionOf(t).not_resumable /\ conn[t].session \in Cached(st)

\* ServerHello: unless the application shares it, a session that was marked is
\* not in the cache when it loses its id.
LEMMA ServerHelloKeeps ==
    ASSUME Inv, NEW t \in Threads, ServerHello(t), ~(Shared /\ MarkedIsCached(t))
    PROVE  Inv'
  <1> DEFINE d == conn[t]
             e == conn'[t]
             s == d.session
  <1>1. /\ conn \in [Threads -> Connection] /\ d \in Connection
        /\ PointersFollowSteps(d) /\ OwnIsPrivate(d, st) /\ FoundAndRemoved(d, st)
        /\ resumed \in [Ids -> Nat] /\ issued \subseteq Ids /\ st \in Store
        /\ ~TLS13 /\ ~Shared => \A q \in Cached(st) : ~st.mem[q].not_resumable
    BY InvFacts
  <1>2. /\ d.pc = "handshake" /\ ctx' = ctx /\ issued' = issued /\ resumed' = resumed
        /\ st' = IF st.mem[s].not_resumable
                   THEN [st EXCEPT !.mem[s].id = NoId] ELSE st
        /\ Goto(t, "finish")
    BY DEF ServerHello, At, SessionOf
  <1>3. /\ conn' \in [Threads -> Connection]
        /\ \A u \in Threads \ {t} : conn'[u] = conn[u]
        /\ e.session = d.session /\ e.ret = d.ret /\ e.c = d.c /\ e.r = d.r
        /\ e.hit = d.hit /\ e.sent = d.sent /\ e.id = d.id /\ e.pc = "finish"
        /\ \A q : Holds(e, q) = Holds(d, q)
    BY <1>1, <1>2, GotoFields DEF Pcs
  <1> HIDE DEF d, e
  <1>4. /\ s # NULL /\ s \in Structs /\ d.ret = NULL /\ d.c = NULL /\ d.r = NULL
        /\ d.sent = 0
    BY <1>1, <1>2 DEF PointersFollowSteps, Serving, Connection
  <1>5. PointersFollowSteps(e)
    BY <1>2, <1>3, <1>4 DEF PointersFollowSteps, Serving
  <1>6. Own(e) = Own(d)
    BY <1>2, <1>3 DEF Own
  <1>7. \A y : FoundAndRemoved(e, y)
    BY <1>3, <1>4 DEF FoundAndRemoved
  <1>8. CASE ~st.mem[s].not_resumable
    BY <1>8, <1>1, <1>2, <1>3, <1>5, <1>6, <1>7, MoveKeeps DEF d, e
  <1>9. CASE st.mem[s].not_resumable
    <2>1. s \notin Cached(st)
      <3>0. CASE Shared
        BY <3>0, <1>9 DEF MarkedIsCached, SessionOf, d
      <3>1. CASE ~TLS13 /\ ~Shared
        BY <3>1, <1>1, <1>9
      <3>2. CASE TLS13 /\ d.hit /\ ~Shared
        BY <3>2, <1>1, <1>2 DEF FoundAndRemoved
      <3>3. CASE ~d.hit
        <4>1. s \in Own(d)
          BY <3>3, <1>2, <1>4 DEF Own
        <4> QED
          BY <4>1, <1>1 DEF OwnIsPrivate
      <3> QED
        BY <3>0, <3>1, <3>2, <3>3
    <2> HIDE DEF s
    <2>2. st' = [st EXCEPT !.mem[s].id = NoId]
      BY <1>2, <1>9
    <2> DEFINE m == [st.mem EXCEPT ![s].id = NoId]
    <2>3. /\ m \in [Structs -> Session] /\ m[s].id = NoId
          /\ \A q \in Structs :
               /\ m[q].references = st.mem[q].references
               /\ m[q].not_resumable = st.mem[q].not_resumable
               /\ m[q].next = st.mem[q].next /\ m[q].prev = st.mem[q].prev
               /\ q # s => m[q].id = st.mem[q].id
      <3>1. /\ st.mem \in [Structs -> Session] /\ NoId \in Ids \cup {NoId}
            /\ s \in Structs
        BY <1>1, <1>4, StoreFields
      <3>2. /\ m \in [Structs -> Session]
            /\ \A q \in Structs :
                 /\ m[q].references = st.mem[q].references
                 /\ m[q].not_resumable = st.mem[q].not_resumable
                 /\ m[q].next = st.mem[q].next /\ m[q].prev = st.mem[q].prev
                 /\ m[q].id = IF q = s THEN NoId ELSE st.mem[q].id
        BY ONLY <3>1, IdFields
      <3> HIDE DEF m
      <3> QED
        BY ONLY <3>1, <3>2
    <2>4. st' = [st EXCEPT !.mem = m]
      BY <2>2, <1>1 DEF Store
    <2> HIDE DEF m
    <2>5. /\ st' \in Store
          /\ st'.head = st.head /\ st'.tail = st.tail /\ st'.ext = st.ext
          /\ st'.sessions = st.sessions /\ st'.mem = m
      BY <2>3, <2>4, <1>1 DEF Store
    <2>6. issued' \subseteq Ids /\ s = d.session /\ s \in Structs
      BY <1>1, <1>2, <1>4 DEF s
    <2>7. st'.mem[s].id = NoId /\ SameButId(st, st', s)
      BY <2>3, <2>5 DEF SameButId
    <2>8. /\ Inv /\ t \in Threads /\ s \in Structs /\ s = conn[t].session
          /\ s \notin Cached(st) /\ SameButId(st, st', s)
          /\ st'.mem[s].id \in {st.mem[s].id, NoId}
          /\ \A u \in Threads \ {t} : conn'[u] = conn[u]
          /\ conn' \in [Threads -> Connection]
      BY <2>1, <2>6, <2>7, <1>3 DEF d
    <2>9. /\ ctx' = ctx /\ issued' \subseteq Ids /\ resumed' = resumed
          /\ \A q \in Structs : Holds(conn'[t], q) = Holds(conn[t], q)
          /\ PointersFollowSteps(conn'[t])
          /\ Own(conn'[t]) \subseteq Own(conn[t])
          /\ FoundAndRemoved(conn'[t], st')
      BY <2>6, <1>2, <1>3, <1>5, <1>6, <1>7 DEF d, e
    <2> HIDE DEF s
    <2> QED
      BY ONLY <2>8, <2>9, FlagsKeep
  <1> QED
    BY <1>8, <1>9

\* Finish: the connection goes on to its tickets.
LEMMA FinishKeeps ==
    ASSUME Inv, NEW t \in Threads, Finish(t)
    PROVE  Inv'
  <1> DEFINE d == conn[t]
             e == conn'[t]
  <1>1. /\ conn \in [Threads -> Connection] /\ d \in Connection
        /\ PointersFollowSteps(d) /\ resumed \in [Ids -> Nat]
    BY InvFacts
  <1>2. /\ d.pc = "finish" /\ TLS13
        /\ ctx' = ctx /\ issued' = issued /\ resumed' = resumed /\ st' = st
        /\ Goto(t, "ticket")
    BY DEF Finish, At
  <1>3. /\ conn' \in [Threads -> Connection]
        /\ \A u \in Threads \ {t} : conn'[u] = conn[u]
        /\ e.session = d.session /\ e.ret = d.ret /\ e.c = d.c /\ e.r = d.r
        /\ e.hit = d.hit /\ e.sent = d.sent /\ e.id = d.id /\ e.pc = "ticket"
        /\ \A q : Holds(e, q) = Holds(d, q)
    BY <1>1, <1>2, GotoFields DEF Pcs
  <1> HIDE DEF d, e
  <1>4. /\ d.session # NULL /\ d.ret = NULL /\ d.c = NULL /\ d.r = NULL
    BY <1>1, <1>2 DEF PointersFollowSteps, Serving
  <1>5. PointersFollowSteps(e)
    BY <1>2, <1>3, <1>4 DEF PointersFollowSteps, Serving
  <1>6. Own(e) = Own(d)
    BY <1>2, <1>3 DEF Own
  <1>7. FoundAndRemoved(e, st)
    BY <1>3, <1>4 DEF FoundAndRemoved
  <1> QED
    BY <1>1, <1>2, <1>3, <1>5, <1>6, <1>7, MoveKeeps DEF d, e

\* NoMoreTickets: the connection has its tickets.
LEMMA NoMoreTicketsKeeps ==
    ASSUME Inv, NEW t \in Threads, NoMoreTickets(t)
    PROVE  Inv'
  <1> DEFINE d == conn[t]
             e == conn'[t]
  <1>1. /\ conn \in [Threads -> Connection] /\ d \in Connection
        /\ PointersFollowSteps(d) /\ resumed \in [Ids -> Nat]
    BY InvFacts
  <1>2. /\ d.pc = "ticket"
        /\ ctx' = ctx /\ issued' = issued /\ resumed' = resumed /\ st' = st
        /\ Goto(t, "open")
    BY DEF NoMoreTickets, At
  <1>3. /\ conn' \in [Threads -> Connection]
        /\ \A u \in Threads \ {t} : conn'[u] = conn[u]
        /\ e.session = d.session /\ e.ret = d.ret /\ e.c = d.c /\ e.r = d.r
        /\ e.hit = d.hit /\ e.sent = d.sent /\ e.id = d.id /\ e.pc = "open"
        /\ \A q : Holds(e, q) = Holds(d, q)
    BY <1>1, <1>2, GotoFields DEF Pcs
  <1> HIDE DEF d, e
  <1>4. /\ d.session # NULL /\ d.ret = NULL /\ d.c = NULL /\ d.r = NULL
    BY <1>1, <1>2 DEF PointersFollowSteps, Serving
  <1>5. PointersFollowSteps(e)
    BY <1>3, <1>4 DEF PointersFollowSteps, Serving
  <1>6. Own(e) = {}
    BY <1>3 DEF Own
  <1>7. FoundAndRemoved(e, st)
    BY <1>3, <1>4 DEF FoundAndRemoved
  <1> QED
    BY <1>1, <1>2, <1>3, <1>5, <1>6, <1>7, MoveKeeps DEF d, e

\* The first ticket of a connection: its session, still its own, gets an id.
LEMMA FirstTicketKeeps ==
    ASSUME Inv, NEW t \in Threads, conn[t].pc = "ticket", MoreTickets(t),
           ~MustCopy(t), NEW i \in Ids, issued' = issued \cup {i},
           st' = [st EXCEPT !.mem[conn[t].session].id = i,
                            !.mem[conn[t].session].expired = FALSE],
           conn' = [conn EXCEPT ![t].pc = "update", ![t].sent = @ + 1],
           ctx' = ctx, resumed' = resumed
    PROVE  Inv'
  <1> DEFINE d == conn[t]
             e == conn'[t]
             s == d.session
             l == [st.mem EXCEPT ![s].id = i]
             m == [l EXCEPT ![s].expired = FALSE]
             y == [st EXCEPT !.mem[s].id = i]
  <1>1. /\ conn \in [Threads -> Connection] /\ d \in Connection
        /\ PointersFollowSteps(d) /\ OwnIsPrivate(d, st)
        /\ issued \subseteq Ids /\ st \in Store
    BY InvFacts
  <1>2. /\ s # NULL /\ s \in Structs /\ d.ret = NULL /\ d.c = NULL /\ d.r = NULL
        /\ TLS13
    BY <1>1 DEF PointersFollowSteps, Serving, Connection
  <1>3. ~d.hit /\ d.sent = 0 /\ d.sent < Tickets /\ d.sent \in 0..Tickets
    BY <1>1 DEF MustCopy, MoreTickets, Connection
  <1>4. d.sent + 1 \in 0..Tickets
    BY <1>3, SessionCacheAssumption
  <1>5. /\ conn' \in [Threads -> Connection]
        /\ \A u \in Threads \ {t} : conn'[u] = conn[u]
        /\ e.session = d.session /\ e.ret = d.ret /\ e.c = d.c /\ e.r = d.r
        /\ e.hit = d.hit /\ e.id = d.id /\ e.pc = "update" /\ e.sent = d.sent + 1
    BY <1>1, <1>4 DEF Connection, Pcs
  <1>6. st' = [y EXCEPT !.mem[s].expired = FALSE]
    OBVIOUS
  <1>7. d.pc = "ticket"
    OBVIOUS
  <1> HIDE DEF d, e, s
  <1>8. /\ l \in [Structs -> Session]
         /\ \A q \in Structs :
              /\ l[q].references = st.mem[q].references
              /\ l[q].not_resumable = st.mem[q].not_resumable
              /\ l[q].next = st.mem[q].next /\ l[q].prev = st.mem[q].prev
              /\ q # s => l[q].id = st.mem[q].id
    BY <1>1, <1>2, StoreFields, IdFields
  <1>9. y = [st EXCEPT !.mem = l]
    BY <1>1 DEF Store
  <1> HIDE DEF l
  <1>10. /\ y \in Store
         /\ y.head = st.head /\ y.tail = st.tail /\ y.ext = st.ext
         /\ y.sessions = st.sessions /\ y.mem = l
    BY <1>1, <1>8, <1>9 DEF Store
  <1> HIDE DEF y
  <1>11. st' = [y EXCEPT !.mem = m]
    BY <1>6, <1>10 DEF Store
  <1>12. /\ m \in [Structs -> Session]
        /\ \A q \in Structs :
             /\ m[q].references = st.mem[q].references
             /\ m[q].not_resumable = st.mem[q].not_resumable
             /\ m[q].next = st.mem[q].next /\ m[q].prev = st.mem[q].prev
             /\ q # s => m[q].id = st.mem[q].id
    <2>1. /\ m \in [Structs -> Session]
          /\ \A q \in Structs :
               /\ m[q].references = l[q].references
               /\ m[q].not_resumable = l[q].not_resumable
               /\ m[q].next = l[q].next /\ m[q].prev = l[q].prev
               /\ m[q].id = l[q].id
      <3>1. l \in [Structs -> Session] /\ s \in Structs /\ FALSE \in BOOLEAN
        BY <1>2, <1>8
      <3> QED
        BY ONLY <3>1, ExpiredFields
    <2> HIDE DEF m
    <2> QED
      BY <2>1, <1>8
  <1> HIDE DEF m
  <1>13. /\ st' \in Store
        /\ st'.head = st.head /\ st'.tail = st.tail /\ st'.ext = st.ext
        /\ st'.sessions = st.sessions /\ st'.mem = m
    BY <1>12, <1>10, <1>11 DEF Store
  <1>14. \A q \in Structs : Holds(e, q) = Holds(d, q)
    BY <1>5 DEF Holds
  <1>15. PointersFollowSteps(e)
    BY <1>2, <1>3, <1>5 DEF PointersFollowSteps, Serving, s
  <1>16. Own(e) = {s} /\ Own(d) = {s}
    BY <1>3, <1>5, <1>7 DEF Own, s
  <1>17. FoundAndRemoved(e, st')
    BY <1>2, <1>5 DEF FoundAndRemoved
  <1>18. s \notin Cached(st) /\ s = d.session /\ issued' \subseteq Ids
    BY <1>1, <1>16 DEF OwnIsPrivate, s
  <1>19. SameButId(st, st', s)
    BY <1>12, <1>13 DEF SameButId
  <1>20. s \in Own(d) /\ Own(e) \subseteq Own(d)
    BY <1>16
  <1> QED
    BY <1>2, <1>5, <1>14, <1>15, <1>17, <1>18, <1>19, <1>20, FlagsKeep DEF d, e

\* Another ticket: the connection leaves its session, which the cache may
\* have, for a copy of it.
LEMMA CopyTicketKeeps ==
    ASSUME Inv, NEW t \in Threads, conn[t].pc = "ticket", MoreTickets(t),
           NEW i \in Ids, issued' = issued \cup {i}, NEW s \in Free(st),
           st' = SSL_SESSION_free(
                   [st EXCEPT !.mem[s] =
                      [SessionOf(t) EXCEPT
                         !.references = 1, !.next = NULL, !.prev = NULL,
                         !.id = i, !.expired = FALSE]],
                   conn[t].session),
           conn' = [conn EXCEPT
                      ![t].pc = "update", ![t].sent = @ + 1, ![t].session = s],
           ctx' = ctx, resumed' = resumed
    PROVE  Inv'
  <1> DEFINE d == conn[t]
             e == conn'[t]
             o == d.session
             K == Held(conn)
             old == st.mem[o]
             new == [old EXCEPT
                         !.references = 1, !.next = NULL, !.prev = NULL,
                         !.id = i, !.expired = FALSE]
             y == [st EXCEPT !.mem[s] = new]
             G == Plus(K, s)
             H == Minus(G, o)
  <1>1. /\ conn \in [Threads -> Connection] /\ d \in Connection
        /\ PointersFollowSteps(d) /\ issued \subseteq Ids /\ st \in Store
        /\ Good(st, K) /\ K \in [Structs -> Nat] /\ resumed \in [Ids -> Nat]
        /\ CacheSize > 0 => Number(st) <= CacheSize
        /\ CacheSize \in Nat
    BY InvFacts
  <1>2. /\ o # NULL /\ o \in Structs /\ d.ret = NULL /\ d.c = NULL /\ d.r = NULL
        /\ TLS13
    BY <1>1 DEF PointersFollowSteps, Serving, Connection
  <1>3. s \in Structs /\ st.mem[s].references = 0
    BY DEF Free
  <1>4. d.sent + 1 \in 0..Tickets /\ d.sent + 1 > 0
    <2>1. d.sent < Tickets /\ d.sent \in 0..Tickets
      BY <1>1 DEF MoreTickets, Connection
    <2> QED
      BY <2>1, SessionCacheAssumption
  <1>5. /\ conn' \in [Threads -> Connection]
        /\ \A u \in Threads \ {t} : conn'[u] = conn[u]
        /\ e.session = s /\ e.ret = d.ret /\ e.c = d.c /\ e.r = d.r
        /\ e.hit = d.hit /\ e.id = d.id /\ e.pc = "update" /\ e.sent = d.sent + 1
    BY <1>1, <1>3, <1>4 DEF Connection, Pcs
  <1>6. st' = SSL_SESSION_free(y, o)
    BY DEF SessionOf
  <1>7. K[o] > 0
    BY <1>2, HeldIsPositive
  <1> HIDE DEF d, e, o, K
  <1>8. new \in Session /\ new.references = 1 /\ new.next = NULL /\ new.prev = NULL
    <2>1. old \in Session
      BY <1>1, <1>2, StoreFields
    <2>2. NULL \in Links
      BY DEF Links
    <2> HIDE DEF old
    <2> QED
      BY <2>1, <2>2 DEF Session
  <1> HIDE DEF old, new
  <1>9. /\ Good(y, G) /\ y.sessions = st.sessions /\ y.ext = st.ext
        /\ \A q \in Structs : y.mem[q] = IF q = s THEN new ELSE st.mem[q]
        /\ K[s] = 0 /\ s \notin Cached(st) /\ s \notin Kept(st)
    BY <1>1, <1>8, NewIsGood
  <1>10. y \in Store /\ G \in [Structs -> Nat]
    BY <1>9 DEF Good, Sound
  <1> HIDE DEF y
  <1>11. \A q \in Structs : K[q] \in Nat /\ G[q] = IF q = s THEN K[q] + 1 ELSE K[q]
    BY <1>1, PlusMinus
  <1> HIDE DEF G
  <1>12. s # o /\ G[o] > 0
    BY <1>2, <1>7, <1>9, <1>11
  <1>13. Good(st', H) /\ Drops(y, st') /\ Cached(st') = Cached(y)
    BY <1>2, <1>6, <1>9, <1>12, FreeIsGood
  <1>14. st' \in Store /\ H \in [Structs -> Nat]
    BY <1>13 DEF Good, Sound
  <1>15. \A q \in Structs : H[q] = IF q = o THEN G[q] - 1 ELSE G[q]
    BY <1>10, PlusMinus
  <1> HIDE DEF H
  <1>16. Cached(st') = Cached(st) /\ Kept(st') \subseteq Kept(st)
    <2>1. Cached(y) = Cached(st) /\ Kept(y) = Kept(st)
      BY <1>9 DEF Cached, Kept
    <2> QED
      BY <2>1, <1>10, <1>13, <1>14, DropsShrink
  <1>17. H = Held(conn')
    <2>1. \A q \in Structs : H[q] + Holds(d, q) = K[q] + Holds(e, q)
      <3> TAKE q \in Structs
      <3>1. /\ Holds(e, q) = IF q = s THEN 1 ELSE 0
            /\ Holds(d, q) = IF q = o THEN 1 ELSE 0
        BY <1>2, <1>5, Marks DEF Holds, In, o
      <3>2. /\ H[q] = IF q = o THEN G[q] - 1 ELSE G[q]
            /\ K[q] \in Nat /\ G[q] = IF q = s THEN K[q] + 1 ELSE K[q]
        BY <1>11, <1>15
      <3> QED
        BY <3>1, <3>2, <1>12
    <2>2. H \in [Structs -> Nat] /\ \A u \in Threads \ {t} : conn'[u] = conn[u]
      BY <1>5, <1>14
    <2>3. t \in Threads
      OBVIOUS
    <2> QED
      BY ONLY <2>1, <2>2, <2>3, HeldIs DEF d, e, K
  <1>18. LeavesOthers(d, e, st, st')
    <2>1. \A q \in Structs : Holds(e, q) > 0 => st.mem[q].references = 0
      BY <1>2, <1>3, <1>5, HoldsOne, Marks
    <2>2. /\ \A q \in Structs : st'.mem[q].id \in {y.mem[q].id, NoId}
          /\ \A q \in Structs :
               st'.mem[q].references > 0 => st'.mem[q].id = y.mem[q].id
          /\ \A q \in Structs :
               st'.mem[q].not_resumable => y.mem[q].not_resumable \/ q \in Cached(st)
          /\ \A q \in Structs : st'.mem[q].references \in Nat
      BY <1>13, <1>14, <1>16, StoreFields DEF Drops, Alive
    <2>3. \A q \in Structs :
            \/ st'.mem[q].id = st.mem[q].id
            \/ st'.mem[q].id = NoId /\ st'.mem[q].references = 0
            \/ st.mem[q].references <= Holds(d, q)
      <3> TAKE q \in Structs
      <3>1. Holds(d, q) \in Nat
        BY HoldsOne
      <3> QED
        BY <3>1, <2>2, <1>3, <1>9
    <2>4. \A q \in Structs :
            st'.mem[q].not_resumable =>
              st.mem[q].not_resumable \/ q \in Cached(st) \/ st.mem[q].references = 0
      BY <2>2, <1>3, <1>9
    <2> QED
      BY <2>1, <2>3, <2>4, <1>16 DEF LeavesOthers
  <1>19. PointersFollowSteps(e)
    BY <1>2, <1>3, <1>4, <1>5, Marks DEF PointersFollowSteps, Serving
  <1>20. Own(e) = {s}
    BY <1>5 DEF Own
  <1>21. OwnIsPrivate(e, st')
    <2>1. st'.mem[s].references = In(s, Cached(st')) + In(s, Kept(st')) + H[s]
      BY <1>3, <1>13 DEF Good, Sound, Counted
    <2>2. H[s] = 1 /\ s \notin Cached(st') /\ s \notin Kept(st')
      BY <1>3, <1>9, <1>11, <1>12, <1>15, <1>16
    <2>3. st'.mem[s].references = 1
      BY <2>1, <2>2 DEF In
    <2> QED
      BY <2>2, <2>3, <1>2, <1>20 DEF OwnIsPrivate
  <1>22. FoundAndRemoved(e, st')
    BY <1>2, <1>5 DEF FoundAndRemoved
  <1>23. CacheSize > 0 => Number(st') <= CacheSize
    <2>1. \A j \in Ids : st'.sessions[j] \in {st.sessions[j], NULL}
      BY <1>9, <1>13 DEF Drops
    <2>2. Hashed(st)
      BY <1>1 DEF Good
    <2>3. Number(st) \in Nat /\ Number(st') \in Nat /\ Number(st') <= Number(st)
      BY <2>1, <2>2, <1>1, <1>14, NumberDrops
    <2> QED
      BY <2>3, <1>1
  <1>24. issued' \subseteq Ids /\ Good(st', Held(conn'))
    BY <1>1, <1>13, <1>17
  <1> QED
    BY <1>1, <1>2, <1>5, <1>18, <1>19, <1>21, <1>22, <1>23, <1>24, StepKeeps DEF d, e

\* NewSessionTicket: the session of a new ticket is the connection's own.
LEMMA NewSessionTicketKeeps ==
    ASSUME Inv, NEW t \in Threads, NewSessionTicket(t)
    PROVE  Inv'
  <1>1. /\ conn[t].pc = "ticket" /\ MoreTickets(t) /\ ctx' = ctx /\ resumed' = resumed
    BY DEF NewSessionTicket, At
  <1>2. PICK i \in Ids \ issued :
         /\ issued' = issued \cup {i}
         /\ IF MustCopy(t)
              THEN \E s \in Free(st) :
                     /\ st' = SSL_SESSION_free(
                          [st EXCEPT !.mem[s] =
                             [SessionOf(t) EXCEPT
                                !.references = 1, !.next = NULL, !.prev = NULL,
                                !.id = i, !.expired = FALSE]],
                          conn[t].session)
                     /\ conn' = [conn EXCEPT
                          ![t].pc = "update", ![t].sent = @ + 1, ![t].session = s]
              ELSE /\ st' = [st EXCEPT !.mem[conn[t].session].id = i,
                                       !.mem[conn[t].session].expired = FALSE]
                   /\ conn' = [conn EXCEPT ![t].pc = "update", ![t].sent = @ + 1]
    BY DEF NewSessionTicket
  <1>3. CASE MustCopy(t)
    BY <1>1, <1>2, <1>3, CopyTicketKeeps
  <1>4. CASE ~MustCopy(t)
    BY <1>1, <1>2, <1>4, FirstTicketKeeps
  <1> QED
    BY <1>3, <1>4

\* NewSessionCb: the application keeps the session and a reference to it, or
\* a copy, and frees what it kept under the same id.
LEMMA NewSessionCbKeeps ==
    ASSUME Inv, NEW t \in Threads, NewSessionCb(t)
    PROVE  Inv'
  <1> DEFINE d == conn[t]
             e == conn'[t]
             s == d.session
             i == st.mem[s].id
             K == Held(conn)
             x == SSL_SESSION_up_ref(st, s)
  <1>1. /\ conn \in [Threads -> Connection] /\ d \in Connection
        /\ PointersFollowSteps(d) /\ st \in Store /\ Hashed(st)
        /\ resumed \in [Ids -> Nat] /\ issued \subseteq Ids
        /\ Good(st, K) /\ K \in [Structs -> Nat]
        /\ CacheSize > 0 => Number(st) <= CacheSize
        /\ ~TLS13 /\ ~Shared => \A q \in Cached(st) : ~st.mem[q].not_resumable
    BY InvFacts
  <1>2. /\ d.pc = "notify" /\ ctx' = ctx /\ issued' = issued /\ resumed' = resumed
        /\ \/ i # NoId /\ st' = Keep(x, i, s) /\ Goto(t, "kept")
           \/ i # NoId /\ st' = Keep(st, i, Encoded) /\ Goto(t, "refused")
           \/ st' = st /\ Goto(t, "refused")
    BY DEF NewSessionCb, At
  <1>3. /\ conn' \in [Threads -> Connection]
        /\ \A u \in Threads \ {t} : conn'[u] = conn[u]
        /\ e.session = d.session /\ e.ret = d.ret /\ e.c = d.c /\ e.r = d.r
        /\ e.hit = d.hit /\ e.sent = d.sent /\ e.id = d.id
        /\ e.pc \in {"kept", "refused"}
        /\ \A q : Holds(e, q) = Holds(d, q)
    BY <1>1, <1>2, GotoFields DEF Pcs
  <1> HIDE DEF d, e, K
  <1>4. /\ s # NULL /\ s \in Structs /\ d.ret = NULL /\ d.c = NULL /\ d.r = NULL
        /\ TLS13 => d.sent > 0
    BY <1>1, <1>2 DEF PointersFollowSteps, Serving, Connection
  <1>5. PointersFollowSteps(e)
    BY <1>3, <1>4 DEF PointersFollowSteps, Serving
  <1>6. Own(e) = {}
    BY <1>3 DEF Own
  <1>7. \A y : FoundAndRemoved(e, y)
    BY <1>3, <1>4 DEF FoundAndRemoved
  <1>8. CASE st' = st
    BY <1>8, <1>1, <1>2, <1>3, <1>5, <1>6, <1>7, MoveKeeps DEF d, e
  <1> HIDE DEF s, i
  <1>9. CASE /\ i # NoId
             /\ st' = Keep(x, i, s) \/ st' = Keep(st, i, Encoded)
    <2>1. i \in Ids /\ i = st.mem[s].id /\ Sound(st, Cached(st), K)
      BY <1>1, <1>4, <1>9, StoreFields DEF i, Good
    <2>2. /\ Sound(st', Cached(st), K)
          /\ st'.sessions = st.sessions
          /\ \A j \in Ids : j # i => st'.ext[j] = st.ext[j]
          /\ st'.ext[i] \in {s, Encoded}
          /\ \A q \in Structs : st'.mem[q].id \in {st.mem[q].id, NoId}
          /\ \A q \in Structs : st'.mem[q].not_resumable => st.mem[q].not_resumable
          /\ \A q \in Structs : q \in Cached(st) => st'.mem[q].id = st.mem[q].id
          /\ \A q \in Structs :
               st'.mem[q].references > 0 => st'.mem[q].id = st.mem[q].id
      <3>1. CASE st' = Keep(st, i, Encoded)
        <4>1. /\ Sound(st', Cached(st), Minus(K, Encoded))
              /\ st'.sessions = st.sessions
              /\ \A j \in Ids : st'.ext[j] = IF j = i THEN Encoded ELSE st.ext[j]
              /\ \A q \in Structs : st'.mem[q].id \in {st.mem[q].id, NoId}
              /\ \A q \in Structs :
                   st'.mem[q].not_resumable => st.mem[q].not_resumable
              /\ \A q \in Structs :
                   q \in Cached(st) => st'.mem[q].id = st.mem[q].id
              /\ Alive(st, st')
          BY <2>1, <3>1, Marks, KeepIsSound
        <4>2. Minus(K, Encoded) = K
          BY <1>1, Marks, PlusMinus
        <4> QED
          BY <4>1, <4>2, <2>1 DEF Alive
      <3>2. CASE st' = Keep(x, i, s)
        <4>1. /\ Sound(x, Cached(st), Plus(K, s))
              /\ x.sessions = st.sessions /\ x.ext = st.ext
              /\ \A q \in Structs :
                   /\ x.mem[q].id = st.mem[q].id
                   /\ x.mem[q].not_resumable = st.mem[q].not_resumable
          BY <1>4, <2>1, SoundUpRef
        <4>2. Plus(K, s)[s] > 0 /\ Minus(Plus(K, s), s) = K
          BY <1>1, <1>4, PlusMinus
        <4> DEFINE G == Plus(K, s)
        <4> HIDE DEF x, G
        <4>3. /\ Sound(st', Cached(st), Minus(G, s))
              /\ st'.sessions = x.sessions
              /\ \A j \in Ids : st'.ext[j] = IF j = i THEN s ELSE x.ext[j]
              /\ \A q \in Structs : st'.mem[q].id \in {x.mem[q].id, NoId}
              /\ \A q \in Structs :
                   st'.mem[q].not_resumable => x.mem[q].not_resumable
              /\ \A q \in Structs :
                   q \in Cached(st) => st'.mem[q].id = x.mem[q].id
              /\ Alive(x, st')
          <5>1. Sound(x, Cached(st), G) /\ G[s] > 0 /\ x.mem[s].id = i
            BY <1>4, <2>1, <4>1, <4>2 DEF G
          <5> QED
            BY <5>1, <1>4, <2>1, <3>2, KeepIsSound
        <4> QED
          BY <4>1, <4>2, <4>3, <2>1 DEF Alive, G
      <3> QED
        BY <3>1, <3>2, <1>9
    <2>3. Good(st', K) /\ Cached(st') = Cached(st)
      BY <1>1, <2>2, GoodFrame
    <2>4. \A q \in Structs : q \in Kept(st') => q \in Kept(st) \/ q = s
      <3>1. st' \in Store
        BY <2>2 DEF Sound
      <3> QED
        BY <3>1, <1>1, <2>2, CachedInStructs, Marks
    <2>5. K = Held(conn')
      BY <1>1, <1>3, HeldIs DEF K, d, e
    <2>6. LeavesOthers(d, e, st, st')
      <3>1. Holds(d, s) > 0
        BY HoldsOne DEF s
      <3>2. st' \in Store
        BY <2>2 DEF Sound
      <3>3. \A q \in Structs :
              \/ st'.mem[q].id = st.mem[q].id
              \/ st'.mem[q].id = NoId /\ st'.mem[q].references = 0
        <4>1. \A q \in Structs : st'.mem[q].references \in Nat
          BY <3>2, StoreFields
        <4> QED
          BY <4>1, <2>2
      <3> QED
        BY <3>1, <3>3, <1>3, <2>2, <2>3, <2>4 DEF LeavesOthers
    <2>7. OwnIsPrivate(e, st')
      BY <1>6 DEF OwnIsPrivate
    <2>8. CacheSize > 0 => Number(st') <= CacheSize
      BY <1>1, <2>2 DEF Number
    <2>9. ~TLS13 /\ ~Shared => \A q \in Cached(st') : ~st'.mem[q].not_resumable
      <3>1. Cached(st) \subseteq Structs
        BY <1>1, CachedInStructs
      <3> QED
        BY <3>1, <1>1, <2>2, <2>3
    <2> QED
      BY <2>3, <2>5, <2>6, <2>7, <2>8, <2>9, <1>1, <1>2, <1>3, <1>5, <1>7, StepKeeps
      DEF d, e
  <1> QED
    BY <1>2, <1>8, <1>9

\* AutoFlush: what has expired leaves the cache, and no other connection is
\* left with freed memory.
LEMMA AutoFlushKeeps ==
    ASSUME Inv, NEW t \in Threads, AutoFlush(t)
    PROVE  Inv'
  <1> DEFINE d == conn[t]
             e == conn'[t]
             K == Held(conn)
             due == {s \in Cached(st) : st.mem[s].expired}
             pc == IF TLS13 /\ MoreTickets(t) THEN "ticket" ELSE "open"
  <1>1. /\ conn \in [Threads -> Connection] /\ d \in Connection
        /\ PointersFollowSteps(d) /\ st \in Store
        /\ resumed \in [Ids -> Nat] /\ Good(st, K) /\ K \in [Structs -> Nat]
    BY InvFacts
  <1>2. /\ d.pc \in {"kept", "refused"}
        /\ ctx' = ctx /\ issued' = issued /\ resumed' = resumed
        /\ st' = Flush(st, due) \/ st' = st
        /\ Goto(t, pc)
    BY DEF AutoFlush
  <1>3. /\ conn' \in [Threads -> Connection]
        /\ \A u \in Threads \ {t} : conn'[u] = conn[u]
        /\ e.session = d.session /\ e.ret = d.ret /\ e.c = d.c /\ e.r = d.r
        /\ e.hit = d.hit /\ e.sent = d.sent /\ e.id = d.id /\ e.pc = pc
        /\ \A q : Holds(e, q) = Holds(d, q)
    BY <1>1, <1>2, GotoFields DEF Pcs
  <1>4. pc = "open" \/ (pc = "ticket" /\ TLS13)
    OBVIOUS
  <1> HIDE DEF d, e, K, due, pc
  <1>5. /\ d.session # NULL /\ d.ret = NULL /\ d.c = NULL /\ d.r = NULL
        /\ TLS13 => d.sent > 0
    BY <1>1, <1>2 DEF PointersFollowSteps, Serving
  <1>6. PointersFollowSteps(e)
    BY <1>3, <1>4, <1>5 DEF PointersFollowSteps, Serving
  <1>7. Own(e) = {}
    <2>1. pc = "ticket" => e.sent # 0
      <3>1. d.sent \in 0..Tickets
        BY <1>1 DEF Connection
      <3> QED
        BY <3>1, <1>3, <1>4, <1>5, SessionCacheAssumption
    <2> QED
      BY <2>1, <1>3, <1>4 DEF Own
  <1>8. FoundAndRemoved(e, st')
    BY <1>3, <1>4, <1>5 DEF FoundAndRemoved
  <1>9. CASE st' = st
    <2> QED
      BY <1>9, <1>1, <1>2, <1>3, <1>6, <1>7, <1>8, MoveKeeps DEF d, e
  <1>10. CASE st' = Flush(st, due)
    <2>1. due \in SUBSET Cached(st)
      BY DEF due
    <2>2. Good(st', K) /\ Drops(st, st')
      BY <2>1, <1>1, <1>10, FlushIsGood
    <2>3. K = Held(conn')
      BY <1>1, <1>3, HeldIs DEF K, d, e
    <2> QED
      BY <2>2, <2>3, <1>1, <1>2, <1>3, <1>6, <1>7, <1>8, DropKeeps DEF d, e
  <1> QED
    BY <1>2, <1>9, <1>10

\* SSL_free: the connection gives its session up.
LEMMA SslFreeKeeps ==
    ASSUME Inv, NEW t \in Threads, SSL_free(t)
    PROVE  Inv'
  <1> DEFINE d == conn[t]
             e == conn'[t]
             K == Held(conn)
             H == Minus(K, d.session)
  <1>1. /\ conn \in [Threads -> Connection] /\ d \in Connection
        /\ PointersFollowSteps(d) /\ resumed \in [Ids -> Nat]
        /\ Good(st, K) /\ K \in [Structs -> Nat]
    BY InvFacts
  <1>2. /\ d.pc \in {"open", "close"}
        /\ ctx' = ctx /\ issued' = issued /\ resumed' = resumed
        /\ st' = SSL_SESSION_free(st, d.session)
        /\ conn' = [conn EXCEPT ![t] = Idle]
    BY DEF SSL_free
  <1>3. /\ Idle \in Connection /\ Idle.pc = "idle" /\ Idle.session = NULL
        /\ Idle.ret = NULL /\ Idle.c = NULL /\ Idle.r = NULL
        /\ Idle.hit = FALSE /\ Idle.sent = 0
    BY SessionCacheAssumption DEF Idle, Connection, Pcs
  <1>4. /\ conn' \in [Threads -> Connection] /\ e = Idle
        /\ \A u \in Threads \ {t} : conn'[u] = conn[u]
    BY <1>1, <1>2, <1>3
  <1>5. d.session \in Structs => K[d.session] > 0
    BY HeldIsPositive
  <1> HIDE DEF d, e, K
  <1>6. d.session \in Structs \cup {NULL} /\ d.ret = NULL /\ d.r = NULL
    BY <1>1, <1>2 DEF PointersFollowSteps, Connection
  <1>7. Good(st', H) /\ Drops(st, st')
    BY <1>1, <1>2, <1>5, <1>6, FreeIsGood
  <1>8. H = Held(conn')
    <2>1. H \in [Structs -> Nat]
      BY <1>7 DEF Good, Sound
    <2>2. \A q \in Structs : H[q] + Holds(d, q) = K[q] + Holds(e, q)
      <3> TAKE q \in Structs
      <3>1. Holds(e, q) = 0 /\ Holds(d, q) = IF q = d.session THEN 1 ELSE 0
        BY <1>3, <1>4, <1>6, Marks DEF Holds, In
      <3>2. H[q] = (IF q = d.session THEN K[q] - 1 ELSE K[q]) /\ K[q] \in Nat
        BY <1>1, PlusMinus
      <3> HIDE DEF H
      <3> QED
        BY <3>1, <3>2
    <2> HIDE DEF H
    <2> QED
      BY <2>1, <2>2, <1>4, HeldIs DEF d, e, K
  <1> HIDE DEF H
  <1>9. PointersFollowSteps(e)
    BY <1>3, <1>4 DEF PointersFollowSteps, Serving
  <1>10. Own(e) = {}
    BY <1>3, <1>4 DEF Own
  <1>11. FoundAndRemoved(e, st')
    BY <1>3, <1>4 DEF FoundAndRemoved
  <1>12. Good(st', Held(conn')) /\ resumed' \in [Ids -> Nat]
    BY <1>1, <1>2, <1>7, <1>8
  <1>13. \A q \in Structs : q # e.session /\ q # e.ret /\ q # e.r
    BY <1>3, <1>4, Marks
  <1> QED
    BY <1>2, <1>4, <1>7, <1>9, <1>10, <1>11, <1>12, <1>13, DropKeeps DEF d, e

\* SSL_CTX_free: the cache is emptied when no connection is left.
LEMMA CtxFreeKeeps ==
    ASSUME Inv, SSL_CTX_free
    PROVE  Inv'
  <1>1. /\ \A t \in Threads : conn[t].pc = "idle"
        /\ st' = Flush(st, Cached(st))
        /\ ctx' = ctx /\ conn' = conn /\ issued' = issued /\ resumed' = resumed
    BY DEF SSL_CTX_free, At
  <1>2. Good(st, Held(conn)) /\ st \in Store /\ Hashed(st)
    BY DEF Inv, Good, Sound
  <1>3. Good(st', Held(conn)) /\ Drops(st, st')
    BY <1>1, <1>2, FlushIsGood
  <1>4. st' \in Store
    BY <1>3 DEF Good, Sound
  <1>5. /\ Number(st) \in Nat /\ Number(st') \in Nat /\ Number(st') <= Number(st)
        /\ Cached(st') \subseteq Cached(st) /\ Cached(st) \subseteq Structs
    BY <1>2, <1>3, <1>4, NumberDrops, DropsShrink, CachedInStructs DEF Drops
  <1>6. ASSUME NEW t \in Threads
        PROVE  /\ PointersFollowSteps(conn[t])
               /\ OwnIsPrivate(conn[t], st')
               /\ FoundAndRemoved(conn[t], st')
    <2>1. conn[t].pc = "idle" /\ PointersFollowSteps(conn[t])
      BY <1>1 DEF Inv
    <2> DEFINE d == conn[t]
    <2> HIDE DEF d
    <2>2. d.pc = "idle" /\ d.ret = NULL /\ d.c = NULL
      BY <2>1 DEF PointersFollowSteps, d
    <2>3. OwnIsPrivate(d, st') /\ FoundAndRemoved(d, st')
      BY <2>2 DEF OwnIsPrivate, Own, FoundAndRemoved
    <2> QED
      BY <2>1, <2>3 DEF d
  <1>7. CacheSize \in Nat
    BY SessionCacheAssumption DEF Inv, CacheSize
  <1>8. WithinSize'
    BY <1>1, <1>5, <1>7 DEF Inv, WithinSize, CacheSize
  <1>9. CachedAreResumable'
    BY <1>1, <1>3, <1>5 DEF Inv, CachedAreResumable, TLS13, External, Shared, Drops
  <1>10. \A t \in Threads : /\ PointersFollowSteps(conn[t])'
                            /\ OwnIsPrivate(conn[t], st)'
                            /\ FoundAndRemoved(conn[t], st)'
    BY <1>1, <1>6 DEF PointersFollowSteps, OwnIsPrivate, Own, FoundAndRemoved, TLS13,
       External, Shared
  <1>11. Good(st, Held(conn))'
    BY <1>1, <1>3
  <1> QED
    BY <1>1, <1>8, <1>9, <1>10, <1>11 DEF Inv

\* Expire: what time does to a session does not matter here.
LEMMA ExpireKeeps ==
    ASSUME Inv, Expire
    PROVE  Inv'
  <1>1. ctx' = ctx /\ conn' = conn /\ issued' = issued /\ resumed' = resumed
    BY DEF Expire
  <1>2. PICK s \in Structs : st' = [st EXCEPT !.mem[s].expired = TRUE]
    BY DEF Expire
  <1>3. Good(st, Held(conn)) /\ st \in Store
    BY DEF Inv, Good, Sound
  <1> DEFINE m == [st.mem EXCEPT ![s].expired = TRUE]
  <1>4. /\ m \in [Structs -> Session]
        /\ \A q \in Structs :
             /\ m[q].references = st.mem[q].references
             /\ m[q].not_resumable = st.mem[q].not_resumable
             /\ m[q].next = st.mem[q].next /\ m[q].prev = st.mem[q].prev
             /\ m[q].id = st.mem[q].id
    <2>1. st.mem \in [Structs -> Session] /\ s \in Structs /\ TRUE \in BOOLEAN
      BY <1>3, StoreFields
    <2> DEFINE f == st.mem
    <2> HIDE DEF f
    <2>2. f \in [Structs -> Session] /\ s \in Structs /\ TRUE \in BOOLEAN
      BY <2>1 DEF f
    <2>3. LET n == [f EXCEPT ![s].expired = TRUE]
          IN  /\ n \in [Structs -> Session]
              /\ \A q \in Structs :
                   /\ n[q].references = f[q].references
                   /\ n[q].not_resumable = f[q].not_resumable
                   /\ n[q].next = f[q].next /\ n[q].prev = f[q].prev
                   /\ n[q].id = f[q].id
      BY ONLY <2>2, ExpiredFields, Zenon
    <2> QED
      BY <2>3, Zenon DEF f
  <1>5. st' = [st EXCEPT !.mem = m]
    BY <1>2, <1>3 DEF Store
  <1> HIDE DEF m
  <1>6. /\ st' \in Store
        /\ st'.head = st.head /\ st'.tail = st.tail /\ st'.ext = st.ext
        /\ st'.sessions = st.sessions /\ st'.mem = m
    BY <1>3, <1>4, <1>5 DEF Store
  <1>7. \A q \in Structs :
          /\ st'.mem[q].references = st.mem[q].references
          /\ st'.mem[q].not_resumable = st.mem[q].not_resumable
          /\ st'.mem[q].next = st.mem[q].next /\ st'.mem[q].prev = st.mem[q].prev
          /\ st'.mem[q].id = st.mem[q].id
    BY <1>4, <1>6
  <1>8. Good(st', Held(conn)) /\ Cached(st') = Cached(st) /\ Kept(st') = Kept(st)
    BY <1>3, <1>6, <1>7, GoodFlags
  <1>9. ASSUME NEW t \in Threads
        PROVE  /\ PointersFollowSteps(conn[t])
               /\ OwnIsPrivate(conn[t], st')
               /\ FoundAndRemoved(conn[t], st')
    <2> DEFINE d == conn[t]
    <2>1. /\ PointersFollowSteps(d) /\ OwnIsPrivate(d, st) /\ FoundAndRemoved(d, st)
          /\ d \in Connection
      BY DEF Inv
    <2> HIDE DEF d
    <2>2. OwnIsPrivate(d, st')
      BY <2>1, <1>7, <1>8, OwnIsHeld DEF OwnIsPrivate
    <2>3. FoundAndRemoved(d, st')
      <3>1. /\ d.ret # NULL => d.ret \in Structs
            /\ d.pc = "store" => d.ret # NULL
        BY <2>1 DEF PointersFollowSteps, Connection
      <3> QED
        BY <3>1, <2>1, <1>7, <1>8 DEF FoundAndRemoved
    <2> QED
      BY <2>1, <2>2, <2>3 DEF d
  <1>10. WithinSize'
    BY <1>1, <1>6 DEF Inv, WithinSize, CacheSize, Number
  <1>11. CachedAreResumable'
    <2>1. Cached(st) \subseteq Structs
      BY <1>3, CachedInStructs
    <2> QED
      BY <2>1, <1>1, <1>7, <1>8 DEF Inv, CachedAreResumable, TLS13, External, Shared
  <1>12. \A t \in Threads : /\ PointersFollowSteps(conn[t])'
                            /\ OwnIsPrivate(conn[t], st)'
                            /\ FoundAndRemoved(conn[t], st)'
    BY <1>1, <1>9 DEF PointersFollowSteps, OwnIsPrivate, Own, FoundAndRemoved, TLS13,
       External, Shared
  <1>13. Good(st, Held(conn))'
    BY <1>1, <1>8
  <1> QED
    BY <1>1, <1>10, <1>11, <1>12, <1>13 DEF Inv

\* The cache is empty at the start and no connection is there.
LEMMA InitInv == Init => Inv
  <1> SUFFICES ASSUME Init PROVE Inv
    OBVIOUS
  <1> DEFINE K == Held(conn)
  <1>1. /\ Idle \in Connection /\ Idle.pc = "idle" /\ Idle.session = NULL
        /\ Idle.ret = NULL /\ Idle.c = NULL /\ Idle.r = NULL
        /\ Idle.hit = FALSE /\ Idle.sent = 0
    BY SessionCacheAssumption DEF Idle, Connection, Pcs
  <1>2. /\ conn \in [Threads -> Connection]
        /\ \A t \in Threads : conn[t] = Idle
    BY <1>1 DEF Init
  <1>3. /\ st \in Store
        /\ \A q \in Structs :
             /\ st.mem[q].references = 0 /\ st.mem[q].not_resumable = FALSE
             /\ st.mem[q].next = NULL /\ st.mem[q].prev = NULL
        /\ \A i \in Ids : st.sessions[i] = NULL /\ st.ext[i] = NULL
        /\ st.head = NULL /\ st.tail = NULL
    <2>1. /\ Blank \in Session /\ Blank.references = 0 /\ Blank.not_resumable = FALSE
          /\ Blank.next = NULL /\ Blank.prev = NULL
      BY DEF Blank, Session, Links
    <2> QED
      BY <2>1 DEF Init, Store
  <1>4. Cached(st) = {} /\ Kept(st) = {}
    BY <1>3, Marks DEF Cached, Kept
  <1>5. \A s \in Structs : K[s] = 0
    <2> SUFFICES ASSUME NEW s \in Structs PROVE K[s] = 0
      OBVIOUS
    <2>1. /\ {u \in Threads : conn[u].session = s} = {}
          /\ {u \in Threads : conn[u].ret = s} = {}
          /\ {u \in Threads : conn[u].r = s} = {}
      BY <1>1, <1>2, Marks
    <2>2. Cardinality({}) = 0
      BY FS_EmptySet
    <2>3. K[s] = HeldBy(conn, Threads, s)
      BY DEF Held
    <2> HIDE DEF K
    <2> QED
      BY <2>1, <2>2, <2>3 DEF HeldBy
  <1>6. K \in [Structs -> Nat]
    BY HeldType
  <1> HIDE DEF K
  <1>7. Linked(st, {})
    <2>1. IsList(st, {}, 0, [a \in 1..0 |-> NULL])
      BY <1>3 DEF IsList
    <2> QED
      BY <2>1 DEF Linked
  <1>8. Good(st, K)
    <2>1. Counted(st, {}, K)
      BY <1>3, <1>4, <1>5 DEF Counted, In
    <2>2. KeptUnderTheirIds(st)
      BY <1>3, Marks DEF KeptUnderTheirIds
    <2> QED
      BY <2>1, <2>2, <1>3, <1>4, <1>6, <1>7 DEF Good, Sound, Hashed
  <1>9. WithinSize
    <2>1. Number(st) = 0
      <3>1. {i \in Ids : st.sessions[i] # NULL} = {}
        BY <1>3
      <3> QED
        BY <3>1, FS_EmptySet DEF Number
    <2>2. CacheSize \in Nat
      BY SessionCacheAssumption DEF Init, CacheSize
    <2> QED
      BY <2>1, <2>2 DEF WithinSize
  <1>10. CachedAreResumable
    BY <1>4 DEF CachedAreResumable
  <1>11. /\ PointersFollowSteps(Idle)
         /\ OwnIsPrivate(Idle, st)
         /\ FoundAndRemoved(Idle, st)
    <2> DEFINE d == Idle
    <2> HIDE DEF d
    <2>1. PointersFollowSteps(d)
      BY <1>1 DEF PointersFollowSteps, Serving, d
    <2>2. OwnIsPrivate(d, st) /\ FoundAndRemoved(d, st)
      BY <1>1 DEF OwnIsPrivate, Own, FoundAndRemoved, d
    <2> QED
      BY <2>1, <2>2 DEF d
  <1>12. ctx \in Contexts /\ issued \subseteq Ids /\ resumed \in [Ids -> Nat]
    BY DEF Init
  <1> QED
    BY <1>2, <1>8, <1>9, <1>10, <1>11, <1>12 DEF Inv, K

(***************************************************************************)
(* What the invariant means.                                               *)
(***************************************************************************)

\* A session has one id, so that the cache and the application each count
\* once.
LEMMA CountedOnce ==
    ASSUME NEW f \in [Ids -> Structs \cup {NULL, Encoded}], NEW s,
           \A i, j \in Ids : f[i] = s /\ f[j] = s => i = j
    PROVE  Cardinality({i \in Ids : f[i] = s}) = IF \E i \in Ids : f[i] = s THEN 1 ELSE 0
  <1>1. CASE \E i \in Ids : f[i] = s
    <2>1. PICK i \in Ids : f[i] = s
      BY <1>1
    <2>2. {j \in Ids : f[j] = s} = {i}
      BY <2>1
    <2>3. Cardinality({i}) = 1
      BY FS_Singleton
    <2> QED
      BY <1>1, <2>2, <2>3
  <1>2. CASE ~\E i \in Ids : f[i] = s
    <2>1. {j \in Ids : f[j] = s} = {}
      BY <1>2
    <2> QED
      BY <1>2, <2>1, FS_EmptySet
  <1> QED
    BY <1>1, <1>2

\* The references are those that the sets of ReferencesAreExact count.
LEMMA InvReferences == Inv => ReferencesAreExact
  <1> SUFFICES ASSUME Inv PROVE ReferencesAreExact
    OBVIOUS
  <1> SUFFICES ASSUME NEW s \in Structs
               PROVE  st.mem[s].references =
                        Cardinality({i \in Ids : st.sessions[i] = s})
                          + Cardinality({i \in Ids : st.ext[i] = s})
                          + Cardinality({t \in Threads : conn[t].session = s})
                          + Cardinality({t \in Threads : conn[t].ret = s})
                          + Cardinality({t \in Threads : conn[t].r = s})
    BY DEF ReferencesAreExact
  <1>1. /\ st \in Store /\ Hashed(st) /\ KeptUnderTheirIds(st)
        /\ st.mem[s].references = In(s, Cached(st)) + In(s, Kept(st)) + Held(conn)[s]
    BY DEF Inv, Good, Sound, Counted
  <1>2. Cardinality({i \in Ids : st.sessions[i] = s}) = In(s, Cached(st))
    <2>1. \A i, j \in Ids : st.sessions[i] = s /\ st.sessions[j] = s => i = j
      BY <1>1 , FoundById
    <2>2. st.sessions \in [Ids -> Structs \cup {NULL, Encoded}]
      BY <1>1, StoreFields
    <2>3. Cardinality({i \in Ids : st.sessions[i] = s}) =
            IF \E i \in Ids : st.sessions[i] = s THEN 1 ELSE 0
      BY <2>1, <2>2, CountedOnce
    <2> QED
      BY <2>3, <1>1, CachedInStructs DEF In
  <1>3. Cardinality({i \in Ids : st.ext[i] = s}) = In(s, Kept(st))
    <2>1. \A i, j \in Ids : st.ext[i] = s /\ st.ext[j] = s => i = j
      BY <1>1 DEF KeptUnderTheirIds
    <2>2. st.ext \in [Ids -> Structs \cup {NULL, Encoded}]
      BY <1>1, StoreFields
    <2>3. Cardinality({i \in Ids : st.ext[i] = s}) =
            IF \E i \in Ids : st.ext[i] = s THEN 1 ELSE 0
      BY <2>1, <2>2, CountedOnce
    <2> QED
      BY <2>3, <1>1, CachedInStructs DEF In
  <1>4. Held(conn)[s] = Cardinality({t \in Threads : conn[t].session = s})
                          + Cardinality({t \in Threads : conn[t].ret = s})
                          + Cardinality({t \in Threads : conn[t].r = s})
    BY DEF Held, HeldBy
  <1>5. /\ In(s, Cached(st)) \in Nat /\ In(s, Kept(st)) \in Nat
        /\ Cardinality({t \in Threads : conn[t].session = s}) \in Nat
        /\ Cardinality({t \in Threads : conn[t].ret = s}) \in Nat
        /\ Cardinality({t \in Threads : conn[t].r = s}) \in Nat
    BY CountSplit DEF In
  <1> QED
    BY <1>1, <1>2, <1>3, <1>4, <1>5

\* The number of the sessions that are hashed is the length of the list.
LEMMA NumberIsLength ==
    ASSUME NEW x \in Store, Hashed(x), NEW n, NEW L, IsList(x, Cached(x), n, L)
    PROVE  Number(x) = n
  <1> DEFINE D == {i \in Ids : x.sessions[i] # NULL}
             f == [a \in 1..n |-> x.mem[L[a]].id]
  <1>1. /\ n \in Nat
        /\ \A a \in 1..n : L[a] \in Structs /\ L[a] \in Cached(x)
        /\ \A a, b \in 1..n : L[a] = L[b] => a = b
        /\ \A s \in Cached(x) : \E a \in 1..n : L[a] = s
    BY DEF IsList
  <1>2. \A a \in 1..n : f[a] \in D /\ x.sessions[f[a]] = L[a]
    <2> TAKE a \in 1..n
    <2>1. Retrieve(x, x.mem[L[a]].id) = L[a] /\ x.mem[L[a]].id \in Ids \cup {NoId}
      BY <1>1, FoundById, StoreFields
    <2>2. x.mem[L[a]].id \in Ids /\ x.sessions[x.mem[L[a]].id] = L[a]
      BY <2>1, <1>1, Marks DEF Retrieve
    <2> QED
      BY <2>2, <1>1, Marks
  <1>3. \A i \in D : \E a \in 1..n : f[a] = i
    <2> TAKE i \in D
    <2>1. x.sessions[i] \in Cached(x) /\ x.mem[x.sessions[i]].id = i
      BY DEF Cached, Hashed
    <2> QED
      BY <2>1, <1>1
  <1>4. f \in [1..n -> D]
    BY <1>2
  <1>5. \A a, b \in 1..n : f[a] = f[b] => a = b
    <2> HIDE DEF f, D
    <2> QED
      BY <1>1, <1>2
  <1>6. ExistsBijection(1..n, D)
    <2> HIDE DEF f, D
    <2>1. f \in Bijection(1..n, D)
      BY <1>3, <1>4, <1>5 DEF Bijection, Injection, Surjection, IsInjective
    <2> QED
      BY <2>1 DEF ExistsBijection
  <1>7. IsFiniteSet(1..n) /\ Cardinality(1..n) = n
    BY <1>1, FS_Interval
  <1>8. Cardinality(D) = n
    <2> HIDE DEF D
    <2> QED
      BY <1>6, <1>7, FS_Bijection
  <1> QED
    BY <1>8 DEF Number

\* The walk of ListIsTheHash meets the list.
LEMMA InvList == Inv => ListIsTheHash
  <1> SUFFICES ASSUME Inv PROVE ListIsTheHash
    OBVIOUS
  <1>1. st \in Store /\ Hashed(st) /\ Linked(st, Cached(st))
    BY DEF Inv, Good, Sound
  <1>2. PICK n, L : IsList(st, Cached(st), n, L)
    BY <1>1 DEF Linked
  <1>3. /\ n \in Nat
        /\ \A a \in 1..n : L[a] \in Structs /\ L[a] \in Cached(st)
        /\ \A s \in Cached(st) : \E a \in 1..n : L[a] = s
        /\ st.head = IF n = 0 THEN NULL ELSE L[1]
        /\ st.tail = IF n = 0 THEN NULL ELSE L[n]
        /\ \A a \in 1..n :
             /\ st.mem[L[a]].next = IF a = n THEN TailMark ELSE L[a + 1]
             /\ st.mem[L[a]].prev = IF a = 1 THEN HeadMark ELSE L[a - 1]
        /\ \A s \in Structs \ Cached(st) :
             st.mem[s].next = NULL /\ st.mem[s].prev = NULL
    BY <1>2 DEF IsList
  <1>4. Number(st) = n
    BY <1>1, <1>2, NumberIsLength
  <1> DEFINE g == [k \in 0..n |-> IF k < n THEN L[k + 1]
                                  ELSE IF n = 0 THEN NULL ELSE TailMark]
             walk == CHOOSE f : f = [k \in 0..n |->
                       IF k = 0 THEN st.head
                       ELSE IF f[k - 1] \in Structs THEN st.mem[f[k - 1]].next ELSE NULL]
  <1>5. /\ g[0] = st.head
        /\ \A k \in 1..n :
             g[k] = IF g[k - 1] \in Structs THEN st.mem[g[k - 1]].next ELSE NULL
    <2>1. g[0] = st.head
      BY <1>3
    <2>2. ASSUME NEW k \in 1..n
          PROVE  g[k] = IF g[k - 1] \in Structs THEN st.mem[g[k - 1]].next ELSE NULL
      <3>1. g[k - 1] = L[k] /\ g[k] = IF k = n THEN TailMark ELSE L[k + 1]
        BY <1>3
      <3> HIDE DEF g
      <3> QED
        BY <3>1, <1>3
    <2> QED
      BY <2>1, <2>2
  <1>6. g = [k \in 0..n |->
              IF k = 0 THEN st.head
              ELSE IF g[k - 1] \in Structs THEN st.mem[g[k - 1]].next ELSE NULL]
    <2>1. ASSUME NEW k \in 0..n
          PROVE  g[k] = IF k = 0 THEN st.head
                        ELSE IF g[k - 1] \in Structs THEN st.mem[g[k - 1]].next ELSE NULL
      <3>1. CASE k = 0
        <4> HIDE DEF g
        <4> QED
          BY <3>1, <1>5
      <3>2. CASE k # 0
        <4>1. k \in 1..n
          BY <3>2, <1>3
        <4> HIDE DEF g
        <4> QED
          BY <3>2, <4>1, <1>5
      <3> QED
        BY <3>1, <3>2
    <2> QED
      BY <2>1
  <1>7. walk = [k \in 0..n |->
              IF k = 0 THEN st.head
              ELSE IF walk[k - 1] \in Structs THEN st.mem[walk[k - 1]].next ELSE NULL]
    <2> HIDE DEF g
    <2> QED
      BY <1>6
  <1>8. \A k \in 0..n : g[k] = IF k < n THEN L[k + 1]
                               ELSE IF n = 0 THEN NULL ELSE TailMark
    OBVIOUS
  <1> HIDE DEF g
  <1>9. /\ walk[0] = st.head
        /\ \A k \in 1..n :
             walk[k] = IF walk[k - 1] \in Structs THEN st.mem[walk[k - 1]].next ELSE NULL
    <2> HIDE DEF walk
    <2>1. 0 \in 0..n /\ \A k \in 1..n : k \in 0..n /\ k # 0
      BY <1>3
    <2> QED
      BY <2>1, <1>7
  <1>10. ListIsTheHash <=>
           LET w == walk
           IN  /\ \A i \in Ids :
                    st.sessions[i] # NULL => st.mem[st.sessions[i]].id = i
               /\ {w[k] : k \in 0..n - 1} = Cached(st)
               /\ IF n = 0
                    THEN st.head = NULL /\ st.tail = NULL
                    ELSE w[n] = TailMark /\ w[n - 1] = st.tail
               /\ \A k \in 0..n - 1 :
                    st.mem[w[k]].prev = IF k = 0 THEN HeadMark ELSE w[k - 1]
               /\ \A s \in Structs \ Cached(st) :
                    st.mem[s].next = NULL /\ st.mem[s].prev = NULL
    BY <1>4 DEF ListIsTheHash
  <1> HIDE DEF walk
  <1>11. \A k \in 0..n : walk[k] = g[k]
    <2> DEFINE T == {k \in 0..n : walk[k] # g[k]}
    <2> SUFFICES ASSUME T # {} PROVE FALSE
      OBVIOUS
    <2>1. T \in SUBSET Nat
      BY <1>3
    <2>2. PICK m \in T : \A k \in T : m <= k
      <3> HIDE DEF T
      <3> QED
        BY <2>1, Least
    <2>3. m # 0 /\ m \in 1..n
      BY <1>3, <1>5, <1>9
    <2>4. m - 1 \in 0..n /\ m - 1 \notin T
      BY <2>2, <2>3, <1>3
    <2>5. walk[m - 1] = g[m - 1]
      BY <2>4
    <2>6. walk[m] = g[m]
      BY <2>3, <2>5, <1>5, <1>9
    <2> QED
      BY <2>6
  <1>12. \A k \in 0..n : walk[k] = IF k < n THEN L[k + 1]
                                   ELSE IF n = 0 THEN NULL ELSE TailMark
    BY <1>8, <1>11
  <1>13. {walk[k] : k \in 0..n - 1} = Cached(st)
    <2>1. \A k \in 0..n - 1 : walk[k] \in Cached(st)
      <3> TAKE k \in 0..n - 1
      <3>1. k \in 0..n /\ k < n /\ k + 1 \in 1..n
        BY <1>3
      <3> QED
        BY <3>1, <1>3, <1>12
    <2>2. \A s \in Cached(st) : \E k \in 0..n - 1 : walk[k] = s
      <3> TAKE s \in Cached(st)
      <3>1. PICK a \in 1..n : L[a] = s
        BY <1>3
      <3>2. a - 1 \in 0..n - 1 /\ a - 1 \in 0..n /\ a - 1 < n /\ (a - 1) + 1 = a
        BY <1>3
      <3>3. walk[a - 1] = s
        BY <3>1, <3>2, <1>12
      <3> QED
        BY <3>2, <3>3
    <2> QED
      BY <2>1, <2>2
  <1>14. n # 0 => walk[n] = TailMark /\ walk[n - 1] = st.tail
    <2> SUFFICES ASSUME n # 0 PROVE walk[n] = TailMark /\ walk[n - 1] = st.tail
      OBVIOUS
    <2>1. n \in 0..n /\ ~(n < n) /\ n - 1 \in 0..n /\ n - 1 < n /\ (n - 1) + 1 = n
      BY <1>3
    <2> QED
      BY <2>1, <1>3, <1>12
  <1>15. \A k \in 0..n - 1 :
           st.mem[walk[k]].prev = IF k = 0 THEN HeadMark ELSE walk[k - 1]
    <2> TAKE k \in 0..n - 1
    <2>1. k \in 0..n /\ k < n /\ k + 1 \in 1..n /\ (k + 1) - 1 = k
      BY <1>3
    <2>2. walk[k] = L[k + 1]
      BY <2>1, <1>12
    <2>3. st.mem[L[k + 1]].prev = IF k + 1 = 1 THEN HeadMark ELSE L[k]
      BY <2>1, <1>3
    <2>4. k # 0 => walk[k - 1] = L[k]
      <3> SUFFICES ASSUME k # 0 PROVE walk[k - 1] = L[k]
        OBVIOUS
      <3>1. k - 1 \in 0..n /\ k - 1 < n /\ (k - 1) + 1 = k
        BY <1>3
      <3> QED
        BY <3>1, <1>12
    <2> QED
      BY <2>1, <2>2, <2>3, <2>4
  <1> QED
    BY <1>1, <1>3, <1>10, <1>13, <1>14, <1>15 DEF Hashed

\* The parts of CacheInvariant.
LEMMA InvCache == Inv => CacheInvariant /\ TypeOK
  <1> SUFFICES ASSUME Inv PROVE CacheInvariant /\ TypeOK
    OBVIOUS
  <1>1. ListIsTheHash
    BY InvList
  <1>2. st \in Store /\ KeptUnderTheirIds(st) /\ Counted(st, Cached(st), Held(conn))
    BY DEF Inv, Good, Sound
  <1>3. \A s \in Structs : st.mem[s].references <= Cardinality(Threads) * 3 + 2
    <2> TAKE s \in Structs
    <2> DEFINE a == Cardinality({t \in Threads : conn[t].session = s})
               b == Cardinality({t \in Threads : conn[t].ret = s})
               c == Cardinality({t \in Threads : conn[t].r = s})
               N == Cardinality(Threads)
    <2>1. a \in Nat /\ b \in Nat /\ c \in Nat /\ a <= N /\ b <= N /\ c <= N
      BY CountSplit
    <2>2. N \in Nat
      BY SessionCacheAssumption, FS_CardinalityType
    <2>3. st.mem[s].references = In(s, Cached(st)) + In(s, Kept(st)) + Held(conn)[s]
      BY <1>2 DEF Counted
    <2>4. Held(conn)[s] = (a + b) + c
      BY DEF Held, HeldBy
    <2>5. In(s, Cached(st)) \in 0..1 /\ In(s, Kept(st)) \in 0..1
      BY DEF In
    <2> HIDE DEF a, b, c, N
    <2>6. st.mem[s].references <= N * 3 + 2
      BY <2>1, <2>2, <2>3, <2>4, <2>5
    <2> QED
      BY <2>6 DEF N
  <1>4. TypeOK
    BY <1>2, <1>3 DEF Inv, TypeOK
  <1>5. IdIsGone => Shared
    <2> SUFFICES ASSUME IdIsGone, ~Shared PROVE FALSE
      OBVIOUS
    <2>1. ~\E i \in Ids : st.sessions[i] # NULL /\ st.mem[st.sessions[i]].id # i
      BY DEF Inv, Good, Hashed
    <2>2. PICK t \in Threads : At(t, "store") /\ st.mem[conn[t].ret].id = NoId
      BY <2>1 DEF IdIsGone
    <2>3. /\ conn[t].pc = "store" /\ conn[t].id \in Ids
          /\ st.mem[conn[t].ret].id = conn[t].id
      BY <2>2, InvFacts DEF At, FoundAndRemoved, PointersFollowSteps
    <2> QED
      BY <2>2, <2>3, Marks
  <1> QED
    BY <1>1, <1>2, <1>4, <1>5 DEF Inv, CacheInvariant

(***************************************************************************)
(* A session that the application shares may lose its id in the cache;     *)
(* what then is still known of the connections and of the references.      *)
(***************************************************************************)

Ends ==
    /\ IdIsGone /\ Shared /\ TypeOK /\ ReferencesAreExact
    /\ \A t \in Threads : PointersFollowSteps(conn[t])

\* ServerHello of a session that is in the cache again takes its id away, and
\* nothing else.
LEMMA ServerHelloEnds ==
    ASSUME Inv, NEW t \in Threads, ServerHello(t), Shared, MarkedIsCached(t)
    PROVE  Ends'
  <1> DEFINE d == conn[t]
             e == conn'[t]
             s == conn[t].session
  <1>1. /\ conn \in [Threads -> Connection] /\ d \in Connection
        /\ PointersFollowSteps(d) /\ Hashed(st) /\ st \in Store
    BY InvFacts
  <1>2. TypeOK /\ ReferencesAreExact /\ \A u \in Threads : PointersFollowSteps(conn[u])
    BY InvCache, InvReferences DEF Inv
  <1>3. /\ d.pc = "handshake" /\ ctx' = ctx /\ issued' = issued /\ resumed' = resumed
        /\ st' = [st EXCEPT !.mem[s].id = NoId]
        /\ Goto(t, "finish") /\ s \in Cached(st)
    BY DEF ServerHello, At, SessionOf, MarkedIsCached
  <1>4. /\ conn' \in [Threads -> Connection]
        /\ \A u \in Threads \ {t} : conn'[u] = conn[u]
        /\ e.session = d.session /\ e.ret = d.ret /\ e.c = d.c /\ e.r = d.r
        /\ e.hit = d.hit /\ e.sent = d.sent /\ e.id = d.id /\ e.pc = "finish"
    BY <1>1, <1>3, GotoFields DEF Pcs
  <1>5. s \in Structs
    BY <1>1, <1>3, CachedInStructs
  <1> HIDE DEF d, e, s
  <1> DEFINE m == [st.mem EXCEPT ![s].id = NoId]
  <1>6. /\ m \in [Structs -> Session] /\ m[s].id = NoId
        /\ \A q \in Structs : m[q].references = st.mem[q].references
    <2>1. /\ st.mem \in [Structs -> Session] /\ NoId \in Ids \cup {NoId}
          /\ s \in Structs
      BY <1>1, <1>5, StoreFields
    <2>2. /\ m \in [Structs -> Session]
          /\ \A q \in Structs :
               /\ m[q].references = st.mem[q].references
               /\ m[q].id = IF q = s THEN NoId ELSE st.mem[q].id
      BY ONLY <2>1, IdFields
    <2> HIDE DEF m
    <2> QED
      BY ONLY <2>1, <2>2
  <1>7. st' = [st EXCEPT !.mem = m]
    BY <1>1, <1>3 DEF Store
  <1> HIDE DEF m
  <1>8. /\ st' \in Store /\ st'.ext = st.ext /\ st'.sessions = st.sessions
        /\ st'.mem = m
    BY <1>1, <1>6, <1>7 DEF Store
  <1>9. TypeOK'
    BY <1>2, <1>3, <1>4, <1>6, <1>8 DEF TypeOK
  <1>10. IdIsGone'
    <2>1. PICK i \in Ids : st.sessions[i] = s /\ s # NULL
      BY <1>3 DEF Cached
    <2>2. st'.sessions[i] # NULL /\ st'.mem[st'.sessions[i]].id # i
      BY <2>1, <1>6, <1>8, Marks
    <2> QED
      BY <2>2 DEF IdIsGone
  <1>11. Shared'
    BY <1>3 DEF Shared, External
  <1>12. ReferencesAreExact'
    <2>1. \A u \in Threads : /\ conn'[u].session = conn[u].session
                             /\ conn'[u].ret = conn[u].ret /\ conn'[u].r = conn[u].r
      BY <1>4 DEF d, e
    <2>2. ASSUME NEW q \in Structs
          PROVE  /\ {i \in Ids : st'.sessions[i] = q} = {i \in Ids : st.sessions[i] = q}
                 /\ {i \in Ids : st'.ext[i] = q} = {i \in Ids : st.ext[i] = q}
                 /\ {u \in Threads : conn'[u].session = q}
                      = {u \in Threads : conn[u].session = q}
                 /\ {u \in Threads : conn'[u].ret = q} = {u \in Threads : conn[u].ret = q}
                 /\ {u \in Threads : conn'[u].r = q} = {u \in Threads : conn[u].r = q}
                 /\ st'.mem[q].references = st.mem[q].references
      BY <2>1, <1>6, <1>8
    <2> QED
      BY <2>2, <1>2 DEF ReferencesAreExact
  <1>13. \A u \in Threads : PointersFollowSteps(conn'[u])
    <2>1. PointersFollowSteps(e)
      <3>1. /\ d.session # NULL /\ d.ret = NULL /\ d.c = NULL /\ d.r = NULL
            /\ d.sent = 0
        BY <1>1, <1>3 DEF PointersFollowSteps, Serving
      <3> QED
        BY <3>1, <1>4 DEF PointersFollowSteps, Serving
    <2> QED
      BY <2>1, <1>2, <1>4 DEF e
  <1>14. (\A u \in Threads : PointersFollowSteps(conn[u]))'
    BY <1>3, <1>13 DEF PointersFollowSteps, TLS13, External
  <1> QED
    BY <1>9, <1>10, <1>11, <1>12, <1>14 DEF Ends

\* Every step keeps the invariant, or is the last that is followed.
LEMMA NextInv == (Inv \/ Ends) /\ [Next]_vars => (Inv \/ Ends)'
  <1> SUFFICES ASSUME Inv \/ Ends, [Next]_vars PROVE (Inv \/ Ends)'
    OBVIOUS
  <1>1. CASE UNCHANGED vars
    <2>1. CASE Inv
      <3>1. ctx' = ctx /\ st' = st /\ conn' = conn /\ issued' = issued
            /\ resumed' = resumed
        BY <1>1 DEF vars
      <3>2. WithinSize' /\ CachedAreResumable'
        BY <2>1, <3>1 DEF Inv, WithinSize, CachedAreResumable, CacheSize, TLS13,
           External, Shared
      <3>3. ASSUME NEW t \in Threads
            PROVE  /\ PointersFollowSteps(conn[t])'
                   /\ FoundAndRemoved(conn[t], st)'
        BY <2>1, <3>1 DEF Inv, PointersFollowSteps, FoundAndRemoved, TLS13, External,
           Shared
      <3>4. ASSUME NEW t \in Threads PROVE OwnIsPrivate(conn[t], st)'
        BY <2>1, <3>1 DEF Inv, OwnIsPrivate, Own, TLS13, External, Shared
      <3> QED
        BY <2>1, <3>1, <3>2, <3>3, <3>4 DEF Inv
    <2>2. CASE Ends
      <3>1. ctx' = ctx /\ st' = st /\ conn' = conn /\ issued' = issued
            /\ resumed' = resumed
        BY <1>1 DEF vars
      <3>2. IdIsGone' /\ Shared'
        BY <2>2, <3>1 DEF Ends, IdIsGone, At, Shared, External
      <3>3. TypeOK'
        BY <2>2, <3>1 DEF Ends, TypeOK
      <3>4. ReferencesAreExact'
        BY <2>2, <3>1 DEF Ends, ReferencesAreExact
      <3>5. ASSUME NEW t \in Threads PROVE PointersFollowSteps(conn[t])'
        BY <2>2, <3>1 DEF Ends, PointersFollowSteps, TLS13, External
      <3> QED
        BY <3>2, <3>3, <3>4, <3>5 DEF Ends
    <2> QED
      BY <2>1, <2>2
  <1>2. CASE ~IdIsGone /\ Step
    <2>1. Inv
      BY <1>2 DEF Ends
    <2>2. CASE SSL_CTX_free
      BY <2>1, <2>2, CtxFreeKeeps
    <2>3. CASE Expire
      BY <2>1, <2>3, ExpireKeeps
    <2>4. ASSUME NEW t \in Threads, ServerHello(t)
          PROVE  (Inv \/ Ends)'
      BY <2>1, <2>4, ServerHelloKeeps, ServerHelloEnds
    <2>5. ASSUME NEW t \in Threads,
                 \/ ClientHello(t) \/ lookup_sess_in_cache(t) \/ GetSessionCb(t)
                 \/ StoreExternal(t) \/ DropFound(t) \/ Resume(t) \/ RemoveFound(t)
                 \/ RemoveBad(t) \/ FinishRemoveFound(t) \/ FinishRemoveBad(t)
                 \/ ssl_get_new_session(t) \/ Finish(t)
                 \/ NewSessionTicket(t) \/ NoMoreTickets(t) \/ ssl_update_cache(t)
                 \/ NewSessionCb(t) \/ AutoFlush(t) \/ SSL_free(t)
          PROVE  Inv'
      BY <1>2, <2>1, <2>5, ClientHelloKeeps, LookupKeeps, GetSessionCbKeeps,
         StoreExternalKeeps, DropFoundKeeps, ResumeKeeps, RemoveFoundKeeps,
         RemoveBadKeeps, FinishRemoveFoundKeeps, FinishRemoveBadKeeps, NewSessionKeeps,
         FinishKeeps, NewSessionTicketKeeps, NoMoreTicketsKeeps, UpdateCacheKeeps,
         NewSessionCbKeeps, AutoFlushKeeps, SslFreeKeeps
    <2> QED
      BY <1>2, <2>2, <2>3, <2>4, <2>5 DEF Step
  <1> QED
    BY <1>1, <1>2 DEF Next

\* The invariant holds from the start on.
LEMMA InvHolds == Spec => [](Inv \/ Ends)
    BY InitInv, NextInv, PTL DEF Spec

\* SSL_CTX_add_session, remove_session_lock and timeout_cb: whatever the
\* connections, the application's callbacks and the time do in between, the
\* list of the cache holds exactly the sessions of its hash table, in the
\* same order from both ends, and never more than its size; where
\* get_session_cb hands out the structures that the application keeps, until
\* one of them loses its id in the cache.
THEOREM CacheInvariantHolds == Spec => []CacheInvariant
  <1>1. Inv \/ Ends => CacheInvariant
    BY InvCache DEF Ends, CacheInvariant
  <1> QED
    BY <1>1, InvHolds, PTL

\* SSL_SESSION_up_ref and SSL_SESSION_free: each session counts exactly those
\* who point to it, so that nobody is left with freed memory and what nobody
\* points to is freed; an application that shares its structures between
\* threads and counts what it hands out (get_session_cb with copy = 0) changes
\* nothing in that.
THEOREM ReferencesAreExactHolds == Spec => []ReferencesAreExact
  <1>1. Inv \/ Ends => ReferencesAreExact
    BY InvReferences DEF Ends
  <1> QED
    BY <1>1, InvHolds, PTL

\* SSL_CTX_remove_session: up to TLS 1.2 no session that was marked as not to
\* be resumed is in the cache, unless get_session_cb hands out the structures
\* that the application keeps.
THEOREM CachedAreResumableHolds == Spec => []CachedAreResumable
  <1>1. Inv \/ Ends => CachedAreResumable
    BY DEF Inv, Ends, CachedAreResumable
  <1> QED
    BY <1>1, InvHolds, PTL

(***************************************************************************)
(* Tickets.  A ticket is a token that exists once: in the hash table, or   *)
(* with a connection, or spent.                                            *)
(***************************************************************************)

\* A connection has the ticket i when it has taken it out of the cache, and
\* when it has made it and not yet cached.
Has(d, x, i) ==
    \/ d.pc = "removed" /\ d.ret # NULL /\ d.r # NULL /\ d.id = i
    \/ d.pc = "update" /\ x.mem[d.session].id = i

\* The ticket i is in one place at most, and nowhere before it was issued.
OneToken(i) ==
    /\ resumed[i] \in {0, 1}
    /\ resumed[i] = 1 \/ st.sessions[i] # NULL => i \in issued
    /\ \A t \in Threads : Has(conn[t], st, i) => i \in issued
    /\ resumed[i] = 1 => /\ st.sessions[i] = NULL
                         /\ \A t \in Threads : ~Has(conn[t], st, i)
    /\ st.sessions[i] # NULL => \A t \in Threads : ~Has(conn[t], st, i)
    /\ \A t, u \in Threads : Has(conn[t], st, i) /\ Has(conn[u], st, i) => t = u

Tokens ==
    /\ ~(TLS13 /\ External)
    /\ ~TLS13 => \A i \in Ids : resumed[i] = 0
    /\ TLS13 => \A i \in Ids : OneToken(i)

\* A step of a connection may move a ticket that it has or that is in the
\* cache, or make one that was not issued; others get none by it.
LEMMA MoveTokens ==
    ASSUME Tokens, TLS13, ctx' = ctx, NEW t \in Threads, issued \subseteq issued',
           \A u \in Threads \ {t}, i \in Ids : Has(conn'[u], st', i) => Has(conn[u], st, i),
           \A i \in Ids :
             st'.sessions[i] # NULL =>
               \/ st.sessions[i] # NULL
               \/ Has(conn[t], st, i) /\ ~Has(conn'[t], st', i),
           \A i \in Ids :
             Has(conn'[t], st', i) =>
               \/ Has(conn[t], st, i)
               \/ st.sessions[i] # NULL /\ st'.sessions[i] = NULL
               \/ i \notin issued /\ i \in issued',
           \A i \in Ids :
             \/ resumed'[i] = resumed[i]
             \/ /\ resumed'[i] = resumed[i] + 1 /\ st'.sessions[i] = NULL
                /\ Has(conn[t], st, i) /\ ~Has(conn'[t], st', i)
    PROVE  Tokens'
  <1>1. ASSUME NEW i \in Ids
        PROVE  OneToken(i)'
    <2>1. OneToken(i)
      BY DEF Tokens
    <2>2. \A u \in Threads :
            Has(conn'[u], st', i) =>
              \/ Has(conn[u], st, i)
              \/ u = t /\ st.sessions[i] # NULL /\ st'.sessions[i] = NULL
              \/ u = t /\ i \notin issued /\ i \in issued'
      OBVIOUS
    <2>3. \/ resumed'[i] = resumed[i]
          \/ /\ resumed[i] = 0 /\ resumed'[i] = 1 /\ st'.sessions[i] = NULL
             /\ Has(conn[t], st, i) /\ ~Has(conn'[t], st', i)
      BY <2>1 DEF OneToken
    <2>4. st'.sessions[i] # NULL =>
            \/ st.sessions[i] # NULL
            \/ Has(conn[t], st, i) /\ ~Has(conn'[t], st', i)
      OBVIOUS
    <2>5. issued \subseteq issued'
      OBVIOUS
    <2>6. t \in Threads
      OBVIOUS
    <2> QED
      BY ONLY <2>1, <2>2, <2>3, <2>4, <2>5, <2>6 DEF OneToken
  <1>2. (~(TLS13 /\ External))' /\ TLS13'
    BY DEF Tokens, TLS13, External, Shared
  <1> QED
    BY <1>1, <1>2 DEF Tokens

\* The cache loses sessions, and sessions lose their ids.
Fades(x, y) ==
    /\ \A i \in Ids : y.sessions[i] \in {x.sessions[i], NULL}
    /\ \A q \in Structs : y.mem[q].id \in {x.mem[q].id, NoId}

\* Another connection that stays where it is has no more tickets than before.
LEMMA FadesTokens ==
    ASSUME NEW x, NEW y, NEW d \in Connection, PointersFollowSteps(d),
           d.pc = "update" => y.mem[d.session].id \in {x.mem[d.session].id, NoId},
           NEW i \in Ids, Has(d, y, i)
    PROVE  Has(d, x, i)
    BY Marks DEF Has

\* A step that leaves a connection where it is or without a ticket, and uses
\* none.
LEMMA LoseTokens ==
    ASSUME Inv, Tokens, ctx' = ctx, issued' = issued, resumed' = resumed, Fades(st, st'),
           \A u \in Threads :
             \/ conn'[u] = conn[u]
             \/ conn'[u].pc \notin {"removed", "update"}
             \/ conn'[u].pc = "removed" /\ conn'[u].ret = NULL
    PROVE  Tokens'
  <1>1. ASSUME NEW u \in Threads, NEW i \in Ids, Has(conn'[u], st', i)
        PROVE  Has(conn[u], st, i)
    <2>1. conn[u] \in Connection /\ PointersFollowSteps(conn[u])
      BY InvFacts
    <2>2. conn'[u] = conn[u]
      BY <1>1 DEF Has
    <2>3. conn[u].pc = "update" => conn[u].session \in Structs
      BY <2>1 DEF PointersFollowSteps, Serving, Connection
    <2> QED
      BY <1>1, <2>1, <2>2, <2>3, FadesTokens DEF Fades
  <1>2. \A i \in Ids : st'.sessions[i] # NULL => st.sessions[i] # NULL
    BY DEF Fades
  <1>3. ASSUME NEW i \in Ids, OneToken(i) PROVE OneToken(i)'
    BY <1>1, <1>2, <1>3 DEF OneToken
  <1> QED
    BY <1>3 DEF Tokens, TLS13, External, Shared

\* The steps of a connection that make, take and use no ticket.
LEMMA StepsLoseTokens ==
    ASSUME Inv, Tokens, TLS13, NEW t \in Threads,
           \/ ClientHello(t) \/ lookup_sess_in_cache(t) \/ RemoveBad(t)
           \/ FinishRemoveBad(t) \/ ssl_get_new_session(t) \/ ServerHello(t)
           \/ Finish(t) \/ NoMoreTickets(t) \/ AutoFlush(t) \/ SSL_free(t)
    PROVE  Tokens'
  <1> DEFINE d == conn[t]
             K == Held(conn)
             Off == /\ \A u \in Threads \ {t} : conn'[u] = conn[u]
                    /\ \/ conn'[t].pc \notin {"removed", "update"}
                       \/ conn'[t].pc = "removed" /\ conn'[t].ret = NULL
  <1>1. /\ conn \in [Threads -> Connection] /\ d \in Connection
        /\ PointersFollowSteps(d) /\ FoundAndRemoved(d, st)
        /\ Good(st, K) /\ K \in [Structs -> Nat] /\ st \in Store /\ Hashed(st)
    BY InvFacts
  <1>2. ASSUME Off, Fades(st, st'), ctx' = ctx, issued' = issued, resumed' = resumed
        PROVE  Tokens'
    BY <1>2, LoseTokens
  <1>3. /\ \A pc \in Pcs \ {"removed", "update"} : Goto(t, pc) => Off
        /\ st' = st => Fades(st, st')
        /\ Drops(st, st') => Fades(st, st')
    <2>1. \A pc \in Pcs \ {"removed", "update"} : Goto(t, pc) => Off
      BY <1>1, GotoFields
    <2> QED
      BY <2>1 DEF Fades, Drops
  <1> HIDE DEF Off
  <1>4. CASE ClientHello(t)
    <2>1. Off
      <3>1. CASE Goto(t, "new")
        BY <3>1, <1>3 DEF Pcs
      <3>2. CASE \E i \in Ids : conn' = [conn EXCEPT ![t].pc = "lookup", ![t].id = i]
        BY <3>2, <1>1 DEF Off, Connection
      <3> QED
        BY <3>1, <3>2, <1>4 DEF ClientHello
    <2> QED
      BY <2>1, <1>2, <1>3, <1>4 DEF ClientHello
  <1>5. CASE lookup_sess_in_cache(t)
    <2> DEFINE s == Retrieve(st, d.id)
    <2>1. ctx' = ctx /\ issued' = issued /\ resumed' = resumed
      BY <1>5 DEF lookup_sess_in_cache
    <2>2. CASE s = NULL
      <3>1. st' = st /\ (Goto(t, "ask") \/ Miss(t))
        BY <1>5, <2>2 DEF lookup_sess_in_cache
      <3>2. Goto(t, "ask") => Off
        BY <1>3 DEF Pcs
      <3>3. Miss(t) => Off
        BY <1>1, MissFields DEF Off
      <3> QED
        BY <3>1, <3>2, <3>3, <2>1, <1>2, <1>3
    <2>3. CASE s # NULL
      <3>1. /\ st' = SSL_SESSION_up_ref(st, s)
            /\ conn' = [conn EXCEPT ![t].pc = "found", ![t].ret = s]
        BY <1>5, <2>3 DEF lookup_sess_in_cache, Hold
      <3>2. s \in Structs
        BY <1>1, <2>3, StoreFields DEF Retrieve, Connection
      <3> HIDE DEF s
      <3>3. Off
        BY <3>1, <1>1 DEF Off, Connection
      <3>4. Fades(st, st')
        <4>1. /\ st'.sessions = st.sessions
              /\ \A q \in Structs : st'.mem[q].id = st.mem[q].id
          BY <1>1, <3>1, <3>2, SoundUpRef DEF Good
        <4> QED
          BY <4>1 DEF Fades
      <3> QED
        BY <3>3, <3>4, <2>1, <1>2
    <2> QED
      BY <2>2, <2>3
  <1>6. CASE RemoveBad(t)
    <2> DEFINE c == d.session
               r == Retrieve(st, st.mem[c].id)
    <2>1. /\ d.pc \in {"handshake", "finish", "ticket", "open"}
          /\ ctx' = ctx /\ issued' = issued /\ resumed' = resumed
          /\ st' = IF st.mem[c].id = NoId THEN st ELSE Detach(st, c)
          /\ conn' = [conn EXCEPT ![t].pc = "removed", ![t].c = c, ![t].r = r]
      BY <1>6 DEF RemoveBad, BeginRemove
    <2>2. c \in Structs /\ d.ret = NULL
      BY <1>1, <2>1 DEF PointersFollowSteps, Serving, Connection
    <2> HIDE DEF r
    <2>3. Off
      BY <1>1, <2>1, <2>2 DEF Off, Connection
    <2> HIDE DEF c
    <2>4. Fades(st, st')
      <3>1. /\ \A i \in Ids : st'.sessions[i] \in {st.sessions[i], NULL}
            /\ \A q \in Structs : st'.mem[q].id = st.mem[q].id
        BY <1>1, <2>1, <2>2, BeginIsGood
      <3> QED
        BY ONLY <3>1 DEF Fades
    <2> QED
      BY <2>1, <2>3, <2>4, <1>2
  <1>7. CASE FinishRemoveBad(t)
    <2>1. /\ d.pc = "removed" /\ d.ret = NULL
          /\ ctx' = ctx /\ issued' = issued /\ resumed' = resumed
          /\ st' = AfterUnlock(t)
          /\ conn' = [conn EXCEPT ![t].pc = "close", ![t].c = NULL, ![t].r = NULL]
      BY <1>7 DEF FinishRemoveBad, At
    <2>2. Off
      BY <1>1, <2>1 DEF Off, Connection
    <2>3. d.c \in Structs /\ d.r \in Structs \cup {NULL}
      BY <1>1, <2>1 DEF PointersFollowSteps, Connection
    <2>4. d.r \in Structs => K[d.r] > 0
      BY HeldIsPositive
    <2>5. Drops(st, st')
      <3> HIDE DEF K, d
      <3> QED
        BY <1>1, <2>1, <2>3, <2>4, UnlockIsGood DEF AfterUnlock, d
    <2> QED
      BY <2>1, <2>2, <2>5, <1>2, <1>3
  <1>8. CASE ssl_get_new_session(t)
    <2>1. ctx' = ctx /\ issued' = issued /\ resumed' = resumed
      BY <1>8 DEF ssl_get_new_session
    <2>2. CASE Goto(t, "close") /\ UNCHANGED st
      BY <2>1, <2>2, <1>2, <1>3 DEF Pcs
    <2>3. CASE \E s \in Free(st) :
                 /\ st' = New(st, s, NoId)
                 /\ conn' = [conn EXCEPT ![t].pc = "handshake", ![t].session = s]
      <3>1. PICK s \in Free(st) :
                 /\ st' = New(st, s, NoId)
                 /\ conn' = [conn EXCEPT ![t].pc = "handshake", ![t].session = s]
        BY <2>3
      <3>2. Off
        BY <3>1, <1>1 DEF Off, Connection
      <3> DEFINE new == [Blank EXCEPT !.references = 1, !.id = NoId]
      <3>3. /\ new \in Session /\ new.references = 1 /\ new.id = NoId
            /\ new.next = NULL /\ new.prev = NULL
        BY NewFields
      <3>4. st' = [st EXCEPT !.mem[s] = new]
        BY <3>1 DEF New
      <3> HIDE DEF new
      <3>5. /\ st'.sessions = st.sessions
            /\ \A q \in Structs : st'.mem[q] = IF q = s THEN new ELSE st.mem[q]
        BY <3>3, <3>4, <1>1, NewIsGood
      <3>6. Fades(st, st')
        BY <3>3, <3>5 DEF Fades
      <3> QED
        BY <3>2, <3>6, <2>1, <1>2
    <2> QED
      BY <1>8, <2>2, <2>3 DEF ssl_get_new_session
  <1>9. CASE ServerHello(t)
    <2> DEFINE s == d.session
    <2>1. /\ d.pc = "handshake" /\ ctx' = ctx /\ issued' = issued /\ resumed' = resumed
          /\ \/ st' = [st EXCEPT !.mem[s].id = NoId]
             \/ st' = st
          /\ Goto(t, "finish")
      BY <1>9 DEF ServerHello, At, SessionOf
    <2>2. Off
      BY <2>1, <1>3 DEF Pcs
    <2>3. s \in Structs
      BY <1>1, <2>1 DEF PointersFollowSteps, Serving, Connection
    <2> HIDE DEF s
    <2>4. Fades(st, st')
      <3>1. CASE st' = [st EXCEPT !.mem[s].id = NoId]
        <4>1. /\ st'.sessions = st.sessions
              /\ st'.mem = [st.mem EXCEPT ![s].id = NoId]
          BY <1>1, <3>1 DEF Store
        <4>2. \A q \in Structs : st'.mem[q].id \in {st.mem[q].id, NoId}
          BY <4>1, <1>1, <2>3, StoreFields DEF Session
        <4> QED
          BY <4>1, <4>2 DEF Fades
      <3> QED
        BY <3>1, <2>1, <1>3
    <2> QED
      BY <2>1, <2>2, <2>4, <1>2
  <1>10. CASE Finish(t) \/ NoMoreTickets(t)
    BY <1>10, <1>2, <1>3 DEF Finish, NoMoreTickets, Pcs
  <1>11. CASE AutoFlush(t)
    <2> DEFINE due == {s \in Cached(st) : st.mem[s].expired}
    <2>1. /\ ctx' = ctx /\ issued' = issued /\ resumed' = resumed
          /\ st' = Flush(st, due) \/ st' = st
          /\ Goto(t, "ticket") \/ Goto(t, "open")
      BY <1>11 DEF AutoFlush
    <2>2. Off
      BY <2>1, <1>3 DEF Pcs
    <2>3. due \in SUBSET Cached(st)
      OBVIOUS
    <2> HIDE DEF due
    <2>4. st' = Flush(st, due) => Drops(st, st')
      BY <2>3, <1>1, FlushIsGood
    <2> QED
      BY <2>1, <2>2, <2>4, <1>2, <1>3
  <1>12. CASE SSL_free(t)
    <2>1. /\ ctx' = ctx /\ issued' = issued /\ resumed' = resumed
          /\ st' = SSL_SESSION_free(st, d.session)
          /\ conn' = [conn EXCEPT ![t] = Idle]
      BY <1>12 DEF SSL_free
    <2>2. Off
      BY <2>1, <1>1 DEF Off, Idle
    <2>3. d.session \in Structs \cup {NULL}
      BY <1>1 DEF Connection
    <2>4. d.session \in Structs => K[d.session] > 0
      BY HeldIsPositive
    <2> HIDE DEF d, K
    <2>5. Drops(st, st')
      BY <1>1, <2>1, <2>3, <2>4, FreeIsGood
    <2> QED
      BY <2>1, <2>2, <2>5, <1>2, <1>3
  <1> QED
    BY <1>4, <1>5, <1>6, <1>7, <1>8, <1>9, <1>10, <1>11, <1>12

\* RemoveFound: who gets r from the cache has the ticket that was there.
LEMMA RemoveFoundTokens ==
    ASSUME Inv, Tokens, TLS13, NEW t \in Threads, RemoveFound(t)
    PROVE  Tokens'
  <1> DEFINE d == conn[t]
             e == conn'[t]
             c == d.ret
             r == Retrieve(st, st.mem[c].id)
  <1>1. /\ conn \in [Threads -> Connection] /\ d \in Connection
        /\ PointersFollowSteps(d) /\ FoundAndRemoved(d, st)
        /\ Good(st, Held(conn))
    BY InvFacts
  <1>2. /\ d.pc = "found" /\ ctx' = ctx /\ issued' = issued /\ resumed' = resumed
        /\ st' = IF st.mem[c].id = NoId THEN st ELSE Detach(st, c)
        /\ conn' = [conn EXCEPT ![t].pc = "removed", ![t].c = c, ![t].r = r]
    BY DEF RemoveFound, BeginRemove, At
  <1>3. c # NULL /\ c \in Structs /\ d.id \in Ids /\ st.mem[c].id \in {d.id, NoId}
    BY <1>1, <1>2 DEF PointersFollowSteps, FoundAndRemoved, Connection
  <1> HIDE DEF r
  <1>4. /\ \A u \in Threads \ {t} : conn'[u] = conn[u]
        /\ e.pc = "removed" /\ e.r = r /\ e.id = d.id
    BY <1>1, <1>2 DEF Connection
  <1> HIDE DEF c
  <1>5. /\ \A i \in Ids : st'.sessions[i] \in {st.sessions[i], NULL}
        /\ st.mem[c].id \in Ids => st'.sessions[st.mem[c].id] = NULL
        /\ \A q \in Structs : st'.mem[q].id = st.mem[q].id
    BY <1>1, <1>2, <1>3, BeginIsGood
  <1>6. r # NULL => st.sessions[d.id] # NULL /\ st'.sessions[d.id] = NULL
    BY <1>3, <1>5 DEF Retrieve, r
  <1>7. ASSUME NEW u \in Threads \ {t}, NEW i \in Ids, Has(conn'[u], st', i)
        PROVE  Has(conn[u], st, i)
    <2>1. conn[u] \in Connection /\ PointersFollowSteps(conn[u])
      BY InvFacts
    <2>2. conn[u].pc = "update" => conn[u].session \in Structs
      BY <2>1 DEF PointersFollowSteps, Serving, Connection
    <2> QED
      BY <1>4, <1>5, <1>7, <2>1, <2>2, FadesTokens
  <1>8. \A i \in Ids :
          Has(e, st', i) => st.sessions[i] # NULL /\ st'.sessions[i] = NULL
    BY <1>4, <1>6 DEF Has
  <1> QED
    BY <1>2, <1>5, <1>7, <1>8, MoveTokens DEF e

\* FinishRemoveFound: who resumes a ticket had it, and has it no more.
LEMMA FinishRemoveFoundTokens ==
    ASSUME Inv, Tokens, TLS13, NEW t \in Threads, FinishRemoveFound(t)
    PROVE  Tokens'
  <1> DEFINE d == conn[t]
             e == conn'[t]
             K == Held(conn)
             y == AfterUnlock(t)
             G == Minus(K, d.r)
  <1>1. /\ conn \in [Threads -> Connection] /\ d \in Connection
        /\ PointersFollowSteps(d) /\ FoundAndRemoved(d, st)
        /\ resumed \in [Ids -> Nat] /\ st \in Store
        /\ Good(st, K) /\ K \in [Structs -> Nat]
    BY InvFacts
  <1>2. /\ d.pc = "removed" /\ d.ret # NULL /\ ctx' = ctx /\ issued' = issued
    BY DEF FinishRemoveFound, At
  <1>3. /\ d.session = NULL /\ d.c = d.ret /\ d.c # NULL
        /\ d.ret \in Structs /\ d.id \in Ids /\ d.r \in Structs \cup {NULL}
    BY <1>1, <1>2 DEF PointersFollowSteps, Connection, FoundAndRemoved
  <1>4. d.r \in Structs => K[d.r] > 0
    BY <1>3, HeldIsPositive
  <1>5. Good(y, G) /\ Drops(st, y)
    <2> HIDE DEF K, d
    <2> QED
      BY <1>1, <1>3, <1>4, UnlockIsGood DEF AfterUnlock, d
  <1>6. y \in Store /\ G \in [Structs -> Nat]
    BY <1>5 DEF Good, Sound
  <1> HIDE DEF y
  <1>7. CASE /\ MayResume(t)
             /\ st' = y
             /\ conn' = [conn EXCEPT ![t].pc = "handshake", ![t].id = NoId,
                          ![t].ret = NULL, ![t].c = NULL, ![t].r = NULL,
                          ![t].session = conn[t].ret, ![t].hit = TRUE]
             /\ resumed' = [resumed EXCEPT ![conn[t].id] = @ + 1]
    <2>1. /\ \A u \in Threads \ {t} : conn'[u] = conn[u]
          /\ e.pc = "handshake"
      BY <1>1, <1>7 DEF Connection
    <2>2. \A i \in Ids : resumed'[i] = IF i = d.id THEN resumed[i] + 1 ELSE resumed[i]
      BY <1>1, <1>7
    <2>3. Has(d, st, d.id) /\ \A i \in Ids : ~Has(e, st', i)
      BY <1>2, <1>7, <2>1 DEF Has, MayResume
    <2>4. \A i \in Ids : st'.sessions[i] \in {st.sessions[i], NULL}
      BY <1>5, <1>7 DEF Drops
    <2>5. st.sessions[d.id] = NULL
      BY <2>3, <1>3 DEF Tokens, OneToken
    <2>6. ASSUME NEW u \in Threads \ {t}, NEW i \in Ids, Has(conn'[u], st', i)
          PROVE  Has(conn[u], st, i)
      <3>1. conn[u] \in Connection /\ PointersFollowSteps(conn[u])
        BY InvFacts
      <3>2. conn[u].pc = "update" => conn[u].session \in Structs
        BY <3>1 DEF PointersFollowSteps, Serving, Connection
      <3>3. \A q \in Structs : st'.mem[q].id \in {st.mem[q].id, NoId}
        BY <1>5, <1>7 DEF Drops
      <3> QED
        BY <2>1, <2>6, <3>1, <3>2, <3>3, FadesTokens
    <2>7. \A i \in Ids : st'.sessions[i] # NULL => st.sessions[i] # NULL
      BY <2>4
    <2>8. \A i \in Ids :
            \/ resumed'[i] = resumed[i]
            \/ /\ resumed'[i] = resumed[i] + 1 /\ st'.sessions[i] = NULL
               /\ Has(d, st, i) /\ ~Has(e, st', i)
      BY <2>2, <2>3, <2>4, <2>5, <1>3
    <2>9. issued \subseteq issued'
      BY <1>2
    <2> HIDE DEF d, e
    <2> QED
      BY <2>3, <2>6, <2>7, <2>8, <2>9, <1>2, MoveTokens DEF d, e
  <1>8. CASE /\ st' = SSL_SESSION_free(y, d.ret)
             /\ \E pc \in {"new", "close"} :
                  conn' = [conn EXCEPT ![t].pc = pc, ![t].id = NoId,
                                       ![t].ret = NULL, ![t].c = NULL, ![t].r = NULL]
             /\ resumed' = resumed
    <2>1. /\ \A u \in Threads \ {t} : conn'[u] = conn[u]
          /\ e.pc \in {"new", "close"}
      BY <1>1, <1>8 DEF Connection
    <2>2. G[d.ret] > 0
      <3>1. /\ HeldBy(conn, Threads \ {t}, d.ret) \in Nat
            /\ K[d.ret] = HeldBy(conn, Threads \ {t}, d.ret) + Holds(d, d.ret)
        BY <1>3, HeldSplit DEF Held
      <3> HIDE DEF d, K
      <3>2. Holds(d, d.ret) = 1 + IF d.ret = d.r THEN 1 ELSE 0
        BY <1>3, Marks DEF Holds, In
      <3>3. K[d.ret] \in Nat /\ G[d.ret] = IF d.ret = d.r THEN K[d.ret] - 1 ELSE K[d.ret]
        BY <1>1, <1>3, PlusMinus
      <3> HIDE DEF G
      <3> QED
        BY <3>1, <3>2, <3>3
    <2> HIDE DEF d, K, G
    <2>3. Drops(y, st') /\ st' \in Store
      BY <1>3, <1>5, <1>8, <2>2, FreeIsGood DEF Good, Sound
    <2>4. Drops(st, st')
      BY <1>1, <1>5, <1>6, <2>3, DropsTransitive
    <2>5. Fades(st, st')
      BY <2>4 DEF Drops, Fades
    <2> QED
      BY <2>1, <2>5, <1>2, <1>8, LoseTokens DEF e
  <1> QED
    BY <1>7, <1>8 DEF FinishRemoveFound, y

\* ssl_update_cache: the ticket that the connection has made goes into the
\* cache, or is lost.
LEMMA UpdateCacheTokens ==
    ASSUME Inv, Tokens, TLS13, NEW t \in Threads, ssl_update_cache(t)
    PROVE  Tokens'
  <1> DEFINE d == conn[t]
             e == conn'[t]
             c == d.session
             K == Held(conn)
  <1>1. /\ conn \in [Threads -> Connection] /\ d \in Connection
        /\ PointersFollowSteps(d) /\ OwnIsPrivate(d, st) /\ st \in Store
        /\ Good(st, K) /\ CacheSize \in Nat
        /\ CacheSize > 0 => Number(st) <= CacheSize
    BY InvFacts
  <1>2. /\ d.pc = "update" /\ ctx' = ctx /\ issued' = issued /\ resumed' = resumed
        /\ Goto(t, "notify") \/ Goto(t, "kept")
        /\ MustCache(t) => st' \in AddOutcomes(st, c)
        /\ ~MustCache(t) => st' = st
    BY DEF ssl_update_cache, At
  <1>3. /\ \A u \in Threads \ {t} : conn'[u] = conn[u]
        /\ e.pc \in {"notify", "kept"}
    BY <1>1, <1>2, GotoFields DEF Pcs
  <1>4. c \in Structs /\ c \in Own(d)
    BY <1>1, <1>2 DEF PointersFollowSteps, Serving, Connection, Own
  <1>5. CASE st' = st
    <2>1. Fades(st, st')
      BY <1>5 DEF Fades
    <2> QED
      BY <2>1, <1>2, <1>3, LoseTokens DEF e
  <1>6. CASE MustCache(t) /\ st' = SSL_CTX_add_session(st, c)
    <2>1. st.mem[c].id \in Ids
      BY <1>1, <1>4, <1>6, StoreFields DEF MustCache, SessionOf
    <2> HIDE DEF K, d
    <2>2. Adds(st, st', c)
      <3>1. c \notin Cached(st) /\ st.mem[c].references > 0
        BY <1>1, <1>4 DEF OwnIsPrivate
      <3> HIDE DEF c
      <3> QED
        BY <3>1, <2>1, <1>1, <1>4, <1>6, AddIsGood
    <2>3. \A i \in Ids :
            /\ Has(d, st, i) <=> i = st.mem[c].id
            /\ ~Has(e, st', i)
      BY <1>2, <1>3 DEF Has
    <2>4. \A i \in Ids : st'.sessions[i] # NULL => st.sessions[i] # NULL \/ Has(d, st, i)
      BY <2>2, <2>3 DEF Adds
    <2>5. ASSUME NEW u \in Threads \ {t}, NEW i \in Ids, Has(conn'[u], st', i)
          PROVE  Has(conn[u], st, i)
      <3>1. conn[u] \in Connection /\ PointersFollowSteps(conn[u])
        BY InvFacts
      <3>2. conn[u].pc = "update" => conn[u].session \in Structs
        BY <3>1 DEF PointersFollowSteps, Serving, Connection
      <3>3. \A q \in Structs : st'.mem[q].id \in {st.mem[q].id, NoId}
        BY <2>2 DEF Adds
      <3> QED
        BY <1>3, <2>5, <3>1, <3>2, <3>3, FadesTokens
    <2>6. issued \subseteq issued' /\ \A i \in Ids : resumed'[i] = resumed[i]
      BY <1>2
    <2> HIDE DEF e
    <2> QED
      BY <2>3, <2>4, <2>5, <2>6, <1>2, MoveTokens DEF d, e
  <1> QED
    BY <1>2, <1>5, <1>6 DEF AddOutcomes

\* The session of a ticket that another connection is about to cache is
\* neither free nor one that this connection has to itself.
LEMMA OthersTicket ==
    ASSUME Inv, NEW t \in Threads, NEW u \in Threads \ {t}, conn[u].pc = "update"
    PROVE  /\ conn[u].session \in Structs
           /\ st.mem[conn[u].session].references # 0
           /\ \A s \in Own(conn[t]) : conn[u].session # s
  <1> DEFINE q == conn[u].session
  <1>1. /\ Good(st, Held(conn))
        /\ conn[t] \in Connection /\ PointersFollowSteps(conn[t])
        /\ OwnIsPrivate(conn[t], st)
        /\ conn[u] \in Connection /\ PointersFollowSteps(conn[u])
    BY InvFacts
  <1>2. q \in Structs
    BY <1>1 DEF PointersFollowSteps, Serving, Connection
  <1>3. Holds(conn[u], q) > 0
    BY HoldsOne
  <1>4. /\ st.mem[q].references > Holds(conn[t], q)
        /\ st.mem[q].references \in Nat /\ Holds(conn[t], q) \in Nat
    BY <1>1, <1>2, <1>3, HeldIsCounted
  <1>5. \A s \in Own(conn[t]) : Holds(conn[t], s) > 0 /\ st.mem[s].references = 1
    BY <1>1, OwnIsHeld DEF OwnIsPrivate
  <1> HIDE DEF q
  <1>6. \A s \in Own(conn[t]) : q # s
    BY <1>4, <1>5
  <1> QED
    BY <1>2, <1>4, <1>6 DEF q

\* NewSessionTicket: the connection has a ticket that was not there before.
LEMMA NewTicketTokens ==
    ASSUME Inv, Tokens, TLS13, NEW t \in Threads, NewSessionTicket(t)
    PROVE  Tokens'
  <1> DEFINE d == conn[t]
             e == conn'[t]
             o == d.session
             K == Held(conn)
  <1>1. /\ conn \in [Threads -> Connection] /\ d \in Connection
        /\ PointersFollowSteps(d) /\ st \in Store
        /\ Good(st, K) /\ K \in [Structs -> Nat]
    BY InvFacts
  <1>2. d.pc = "ticket" /\ ctx' = ctx /\ resumed' = resumed
    BY DEF NewSessionTicket, At
  <1>3. PICK i \in Ids \ issued :
         /\ issued' = issued \cup {i}
         /\ IF MustCopy(t)
              THEN \E s \in Free(st) :
                     /\ st' = SSL_SESSION_free(
                          [st EXCEPT !.mem[s] =
                             [SessionOf(t) EXCEPT
                                !.references = 1, !.next = NULL, !.prev = NULL,
                                !.id = i, !.expired = FALSE]],
                          conn[t].session)
                     /\ conn' = [conn EXCEPT
                          ![t].pc = "update", ![t].sent = @ + 1, ![t].session = s]
              ELSE /\ st' = [st EXCEPT !.mem[conn[t].session].id = i,
                                       !.mem[conn[t].session].expired = FALSE]
                   /\ conn' = [conn EXCEPT ![t].pc = "update", ![t].sent = @ + 1]
    BY DEF NewSessionTicket
  <1>4. o # NULL /\ o \in Structs
    BY <1>1, <1>2 DEF PointersFollowSteps, Serving, Connection
  <1>5. K[o] > 0
    BY <1>4, HeldIsPositive
  <1>6. /\ \A u \in Threads \ {t} : conn'[u] = conn[u]
        /\ \A j \in Ids : st'.sessions[j] \in {st.sessions[j], NULL}
        /\ e.pc = "update" /\ st'.mem[e.session].id \in {i, NoId}
        /\ \A u \in Threads \ {t} :
             conn[u].pc = "update" =>
               st'.mem[conn[u].session].id \in {st.mem[conn[u].session].id, NoId}
    <2>1. CASE MustCopy(t)
      <3>1. PICK s \in Free(st) :
                     /\ st' = SSL_SESSION_free(
                          [st EXCEPT !.mem[s] =
                             [SessionOf(t) EXCEPT
                                !.references = 1, !.next = NULL, !.prev = NULL,
                                !.id = i, !.expired = FALSE]],
                          conn[t].session)
                     /\ conn' = [conn EXCEPT
                          ![t].pc = "update", ![t].sent = @ + 1, ![t].session = s]
        BY <1>3, <2>1
      <3> DEFINE old == st.mem[o]
                 new == [old EXCEPT
                         !.references = 1, !.next = NULL, !.prev = NULL,
                         !.id = i, !.expired = FALSE]
                 y == [st EXCEPT !.mem[s] = new]
                 G == Plus(K, s)
      <3>2. s \in Structs /\ st.mem[s].references = 0
        BY DEF Free
      <3>3. st' = SSL_SESSION_free(y, o)
        BY <3>1 DEF SessionOf
      <3>4. /\ \A u \in Threads \ {t} : conn'[u] = conn[u]
            /\ e.pc = "update" /\ e.session = s
        BY <3>1, <1>1 DEF Connection
      <3>5. /\ new \in Session /\ new.references = 1 /\ new.next = NULL
            /\ new.prev = NULL /\ new.id = i
        <4>1. old \in Session
          BY <1>1, <1>4, StoreFields
        <4>2. NULL \in Links
          BY DEF Links
        <4> HIDE DEF old
        <4> QED
          BY <4>1, <4>2 DEF Session
      <3> HIDE DEF old, new, K, o
      <3>6. /\ Good(y, G) /\ y.sessions = st.sessions
            /\ \A q \in Structs : y.mem[q] = IF q = s THEN new ELSE st.mem[q]
            /\ K[s] = 0
        BY <1>1, <3>5, NewIsGood
      <3>7. G[o] > 0
        <4>1. K[o] \in Nat /\ G[o] = IF o = s THEN K[o] + 1 ELSE K[o]
          BY <1>1, <1>4, PlusMinus
        <4> HIDE DEF G
        <4> QED
          BY <4>1, <1>5
      <3> HIDE DEF y, G
      <3>8. Drops(y, st')
        BY <1>4, <3>3, <3>6, <3>7, FreeIsGood
      <3>9. /\ \A j \in Ids : st'.sessions[j] \in {st.sessions[j], NULL}
            /\ st'.mem[s].id \in {i, NoId}
            /\ \A q \in Structs : q # s => st'.mem[q].id \in {st.mem[q].id, NoId}
        BY <3>2, <3>5, <3>6, <3>8 DEF Drops
      <3>10. \A u \in Threads \ {t} :
               conn[u].pc = "update" => conn[u].session \in Structs /\ conn[u].session # s
        BY <3>2, OthersTicket
      <3> QED
        BY <3>4, <3>9, <3>10
    <2>2. CASE ~MustCopy(t)
      <3> DEFINE l == [st.mem EXCEPT ![o].id = i]
                 y == [st EXCEPT !.mem[o].id = i]
      <3>1. /\ st' = [y EXCEPT !.mem[o].expired = FALSE]
            /\ conn' = [conn EXCEPT ![t].pc = "update", ![t].sent = @ + 1]
        BY <1>3, <2>2
      <3>2. /\ \A u \in Threads \ {t} : conn'[u] = conn[u]
            /\ e.pc = "update" /\ e.session = o
        BY <3>1, <1>1 DEF Connection
      <3>3. o \in Own(d)
        BY <1>2, <2>2 DEF Own, MustCopy
      <3>4. \A u \in Threads \ {t} :
              conn[u].pc = "update" => conn[u].session \in Structs /\ conn[u].session # o
        BY <3>3, OthersTicket
      <3> HIDE DEF o
      <3>5. /\ l \in [Structs -> Session]
            /\ \A q \in Structs : l[q].id = IF q = o THEN i ELSE st.mem[q].id
        BY <1>1, <1>4, StoreFields DEF Session
      <3>6. y.mem = l /\ y.sessions = st.sessions /\ y \in Store
        <4>1. y = [st EXCEPT !.mem = l]
          BY <1>1 DEF Store
        <4> HIDE DEF l, y
        <4> QED
          BY <4>1, <3>5, <1>1 DEF Store
      <3> HIDE DEF l, y
      <3>7. /\ st'.sessions = y.sessions
            /\ st'.mem = [l EXCEPT ![o].expired = FALSE]
        BY <3>1, <3>6 DEF Store
      <3>8. \A q \in Structs : st'.mem[q].id = l[q].id
        BY <3>5, <3>7 DEF Session
      <3> QED
        BY <3>2, <3>4, <3>5, <3>6, <3>7, <3>8, <1>4
    <2> QED
      BY <2>1, <2>2
  <1>7. ASSUME NEW u \in Threads \ {t}, NEW j \in Ids, Has(conn'[u], st', j)
        PROVE  Has(conn[u], st, j)
    <2>1. conn[u] \in Connection /\ PointersFollowSteps(conn[u])
      BY InvFacts
    <2> QED
      BY <1>6, <1>7, <2>1, FadesTokens
  <1>8. \A j \in Ids : Has(e, st', j) => j \notin issued /\ j \in issued'
    BY <1>3, <1>6, Marks DEF Has
  <1>9. \A j \in Ids : st'.sessions[j] # NULL => st.sessions[j] # NULL
    BY <1>6
  <1>10. issued \subseteq issued'
    BY <1>3
  <1> QED
    BY <1>2, <1>7, <1>8, <1>9, <1>10, MoveTokens DEF e

\* Each ticket stays in one place.
LEMMA NextTokens == (Inv \/ Ends) /\ Tokens /\ [Next]_vars => Tokens'
  <1> SUFFICES ASSUME Inv \/ Ends, Tokens, [Next]_vars PROVE Tokens'
    OBVIOUS
  <1>1. CASE UNCHANGED vars
    BY <1>1 DEF vars, Tokens, OneToken, Has, TLS13, External, Shared
  <1>2. CASE ~IdIsGone /\ Step
    <2>1. Inv
      BY <1>2 DEF Ends
    <2>2. CASE SSL_CTX_free
      <3>1. Good(st, Held(conn))
        BY <2>1 DEF Inv
      <3>2. Drops(st, st')
        BY <2>2, <3>1, FlushIsGood DEF SSL_CTX_free
      <3>3. Fades(st, st')
        BY <3>2 DEF Drops, Fades
      <3> QED
        BY <2>1, <2>2, <3>3, LoseTokens DEF SSL_CTX_free
    <2>3. CASE Expire
      <3>1. PICK s \in Structs : st' = [st EXCEPT !.mem[s].expired = TRUE]
        BY <2>3 DEF Expire
      <3>2. st \in Store
        BY <2>1 DEF Inv, Good, Sound
      <3>3. st'.sessions = st.sessions /\ st'.mem = [st.mem EXCEPT ![s].expired = TRUE]
        BY <3>1, <3>2 DEF Store
      <3>4. \A q \in Structs : st'.mem[q].id = st.mem[q].id
        BY <3>2, <3>3, StoreFields DEF Session
      <3>5. Fades(st, st')
        BY <3>3, <3>4 DEF Fades
      <3> QED
        BY <2>1, <2>3, <3>5, LoseTokens DEF Expire
    <2>4. ASSUME NEW t \in Threads,
                 \/ ClientHello(t) \/ lookup_sess_in_cache(t) \/ GetSessionCb(t)
                 \/ StoreExternal(t) \/ DropFound(t) \/ Resume(t) \/ RemoveFound(t)
                 \/ RemoveBad(t) \/ FinishRemoveFound(t) \/ FinishRemoveBad(t)
                 \/ ssl_get_new_session(t) \/ ServerHello(t) \/ Finish(t)
                 \/ NewSessionTicket(t) \/ NoMoreTickets(t) \/ ssl_update_cache(t)
                 \/ NewSessionCb(t) \/ AutoFlush(t) \/ SSL_free(t)
          PROVE  Tokens'
      <3>1. CASE ~TLS13
        <4>1. ctx' = ctx /\ resumed' = resumed
          BY <2>4, <3>1 DEF ClientHello, lookup_sess_in_cache, GetSessionCb, StoreExternal,
             DropFound, Resume, RemoveFound, RemoveBad, BeginRemove, FinishRemoveFound,
             MayResume, FinishRemoveBad, ssl_get_new_session, ServerHello, Finish,
             NewSessionTicket, NoMoreTickets, ssl_update_cache, NewSessionCb, AutoFlush,
             SSL_free
        <4> QED
          BY <3>1, <4>1 DEF Tokens, TLS13, External, Shared
      <3>2. CASE TLS13
        <4>1. ~External
          BY <3>2 DEF Tokens
        <4>2. PointersFollowSteps(conn[t])
          BY <2>1, InvFacts
        <4>3. ~GetSessionCb(t) /\ ~StoreExternal(t) /\ ~NewSessionCb(t)
          BY <4>1, <4>2 DEF GetSessionCb, StoreExternal, NewSessionCb, At,
             PointersFollowSteps
        <4>4. ~DropFound(t) /\ ~Resume(t)
          BY <3>2 DEF DropFound, Resume
        <4> QED
          BY <2>1, <2>4, <3>2, <4>3, <4>4, StepsLoseTokens, RemoveFoundTokens,
             FinishRemoveFoundTokens, UpdateCacheTokens, NewTicketTokens
      <3> QED
        BY <3>1, <3>2
    <2> QED
      BY <1>2, <2>2, <2>3, <2>4 DEF Step
  <1> QED
    BY <1>1, <1>2 DEF Next

\* tls_parse_ctos_psk with the internal cache only: a ticket is resumed once
\* at most, however many connections present it at the same time and whatever
\* the cache evicts and flushes.  (An application that keeps sessions itself
\* may return a ticket again after it was used.)
THEOREM TicketsAreSingleUseHolds ==
    Spec /\ ~(TLS13 /\ External) => []TicketsAreSingleUse
  <1>1. Init /\ ~(TLS13 /\ External) => Tokens
    <2> SUFFICES ASSUME Init, ~(TLS13 /\ External) PROVE Tokens
      OBVIOUS
    <2>1. \A t \in Threads : conn[t].pc = "idle"
      BY DEF Init, Idle
    <2>2. \A i \in Ids : resumed[i] = 0 /\ st.sessions[i] = NULL
      BY DEF Init
    <2>3. \A t \in Threads, i \in Ids : ~Has(conn[t], st, i)
      BY <2>1 DEF Has
    <2>4. \A i \in Ids : OneToken(i)
      BY <2>2, <2>3 DEF OneToken
    <2> QED
      BY <2>2, <2>4 DEF Tokens
  <1>2. Tokens => TicketsAreSingleUse
    BY DEF Tokens, OneToken, TicketsAreSingleUse
  <1> QED
    BY <1>1, <1>2, InvHolds, NextTokens, PTL DEF Spec

=============================================================================
