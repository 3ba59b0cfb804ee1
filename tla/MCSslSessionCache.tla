------------------------- MODULE MCSslSessionCache -------------------------
(***************************************************************************)
(* A small instance of SslSessionCache for TLC: contexts of TLS 1.2 whose  *)
(* cache is full with one session and whose application keeps sessions     *)
(* too, which it decodes anew or shares, and drops when told to or not;    *)
(* and a context of TLS 1.3 with early data.  Sessions and threads are     *)
(* interchangeable, and so are the ids.                                    *)
(***************************************************************************)
EXTENDS SslSessionCache, TLC

MCContexts ==
    {[tls13 |-> FALSE, external |-> TRUE, remove |-> TRUE, shared |-> FALSE, size |-> 1],
     [tls13 |-> FALSE, external |-> TRUE, remove |-> TRUE, shared |-> TRUE, size |-> 1],
     [tls13 |-> FALSE, external |-> TRUE, remove |-> FALSE, shared |-> FALSE, size |-> 1],
     [tls13 |-> TRUE, external |-> FALSE, remove |-> FALSE, shared |-> FALSE, size |-> 0]}

Symmetry ==
    Permutations(Structs) \cup Permutations(Ids) \cup Permutations(Threads)

=============================================================================
