------------------------------ MODULE BytePipe ------------------------------
(***************************************************************************)
(* What a BIO pair promises: two ends, each of which sends the other a     *)
(* stream of bytes.  Bytes arrive in order, none is lost, repeated or made *)
(* up, and the end of the stream is seen only after everything written.    *)
(***************************************************************************)
EXTENDS Integers, Sequences

CONSTANTS Ends, Bytes, MaxPut, NoMate

VARIABLES
    mate,    \* the other end, NoMate if there is none
    stream,  \* bytes each end has written and the other has not read
    shut,    \* ends that will write no more
    last     \* what the last transfer was: "put", "get", "eof" or "retry", at
             \* which end, and the bytes

vars == <<mate, stream, shut, last>>

Init ==
    /\ mate = [e \in Ends |-> NoMate]
    /\ stream = [e \in Ends |-> <<>>]
    /\ shut = {}
    /\ last = <<"none", NoMate, <<>>>>

Join(e, f) ==
    /\ e # f
    /\ mate[e] = NoMate
    /\ mate[f] = NoMate
    /\ mate' = [mate EXCEPT ![e] = f, ![f] = e]
    /\ shut' = shut \ {e, f}
    /\ UNCHANGED <<stream, last>>

\* What was not read is gone.
Part(e) ==
    /\ mate[e] # NoMate
    /\ mate' = [mate EXCEPT ![e] = NoMate, ![mate[e]] = NoMate]
    /\ stream' = [stream EXCEPT ![e] = <<>>, ![mate[e]] = <<>>]
    /\ shut' \in {shut, shut \ {e}}
    /\ UNCHANGED last

Put(e, bytes) ==
    /\ mate[e] # NoMate
    /\ e \notin shut
    /\ stream' = [stream EXCEPT ![e] = @ \o bytes]
    /\ last' = <<"put", e, bytes>>
    /\ UNCHANGED <<mate, shut>>

\* Some of the bytes that wait, from the first on.
Get(e) ==
    /\ mate[e] # NoMate
    /\ LET s == stream[mate[e]]
       IN  \E n \in 1..Len(s) :
             /\ last' = <<"get", e, SubSeq(s, 1, n)>>
             /\ stream' = [stream EXCEPT ![mate[e]] = SubSeq(s, n + 1, Len(s))]
    /\ UNCHANGED <<mate, shut>>

GetNothing(e) ==
    /\ mate[e] # NoMate
    /\ stream[mate[e]] = <<>>
    /\ last' = <<IF mate[e] \in shut THEN "eof" ELSE "retry", e, <<>>>>
    /\ UNCHANGED <<mate, stream, shut>>

\* The writer takes back what has not been read.
Discard(e) ==
    /\ stream' = [stream EXCEPT ![e] = <<>>]
    /\ UNCHANGED <<mate, shut, last>>

Shut(e) ==
    /\ shut' = shut \cup {e}
    /\ UNCHANGED <<mate, stream, last>>

Reopen(e) ==
    /\ mate[e] = NoMate
    /\ shut' = shut \ {e}
    /\ UNCHANGED <<mate, stream, last>>

Next ==
    \E e \in Ends :
        \/ \E f \in Ends : Join(e, f)
        \/ Part(e)
        \/ \E n \in 1..MaxPut : \E bytes \in [1..n -> Bytes] : Put(e, bytes)
        \/ Get(e)
        \/ GetNothing(e)
        \/ Discard(e)
        \/ Shut(e)
        \/ Reopen(e)

Spec == Init /\ [][Next]_vars

=============================================================================
