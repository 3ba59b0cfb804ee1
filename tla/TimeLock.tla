------------------------------ MODULE TimeLock ------------------------------
(***************************************************************************)
(* What the lock service promises, without accounts, signatures, rent or   *)
(* transactions: every holder may put a quantity on hold at any moment,    *)
(* which starts a full Period from that moment and replaces what was on    *)
(* hold, and a hold ends only once its whole Period has passed.            *)
(***************************************************************************)
EXTENDS Integers

CONSTANTS
    Holders,     \* who may put something on hold
    Quantities,  \* how much may be put on hold
    Period,      \* how long a hold lasts
    NotHeld      \* marks a holder with nothing on hold

VARIABLES
    now,         \* the current time
    held         \* for each holder, its hold or NotHeld

vars == <<now, held>>

Init ==
    /\ now \in Nat
    /\ held = [h \in Holders |-> NotHeld]

\* Time passes, by any amount.
Pass ==
    /\ now' \in Nat
    /\ now' > now
    /\ UNCHANGED held

\* A hold starts now, whether or not an earlier one is still running.
Hold(h, q) ==
    /\ held' = [held EXCEPT ![h] = [quantity |-> q, since |-> now]]
    /\ UNCHANGED now

\* A hold ends, a full Period after it started or later.
Release(h) ==
    /\ held[h] # NotHeld
    /\ now >= held[h].since + Period
    /\ held' = [held EXCEPT ![h] = NotHeld]
    /\ UNCHANGED now

Next ==
    \/ Pass
    \/ \E h \in Holders, q \in Quantities : Hold(h, q)
    \/ \E h \in Holders : Release(h)

Spec == Init /\ [][Next]_vars

=============================================================================
