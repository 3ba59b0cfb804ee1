-------------------------- MODULE SslSessionCache --------------------------
(***************************************************************************)
(* OpenSSL's internal session cache, ssl/ssl_sess.c, as the connections of *)
(* one server SSL_CTX use it.  A SSL_SESSION is counted by its references; *)
(* the cache reaches it by a hash table and by a doubly linked list, under *)
(* ctx->lock.  What the lock covers is one step here, what it leaves       *)
(* outside (the application's callbacks, the last SSL_SESSION_free) is a   *)
(* step of its own.  Connections are either all of TLS 1.2, resumed by     *)
(* session id, or all of TLS 1.3 with early data allowed, resumed by a     *)
(* stateful ticket that is good for one use.  The application may keep     *)
(* sessions of its own, and hand out the structures that it keeps.         *)
(***************************************************************************)
EXTENDS Integers, FiniteSets

CONSTANTS
    Structs,     \* bound: memory for SSL_SESSIONs
    Ids,         \* bound: session ids
    Threads,     \* each serves one connection after the other
    Contexts,    \* how the application may have set its SSL_CTX up
    Tickets,     \* bound: tickets a TLS 1.3 server sends, num_tickets
    NULL,
    NoId         \* session_id_length == 0

HeadMark == "&session_cache_head"
TailMark == "&session_cache_tail"
Encoded == "i2d_SSL_SESSION"

ASSUME SessionCacheAssumption ==
    /\ IsFiniteSet(Structs) /\ IsFiniteSet(Ids) /\ IsFiniteSet(Threads)
    /\ NULL \notin Structs /\ NULL \notin {HeadMark, TailMark, Encoded}
    /\ {HeadMark, TailMark, Encoded} \cap Structs = {}
    /\ NoId \notin Ids
    /\ Contexts \subseteq [tls13 : BOOLEAN, external : BOOLEAN, remove : BOOLEAN,
                            shared : BOOLEAN, size : Nat]
    /\ Tickets \in Nat \ {0}

VARIABLES
    ctx,      \* what the SSL_CTX is set to, from the start
    st,       \* the memory, the cache, and the application's own cache
    conn,     \* the connection of each thread
    issued,   \* history: the ids of the TLS 1.3 tickets issued so far
    resumed   \* history: how often each of these was accepted

vars == <<ctx, st, conn, issued, resumed>>

\* SSL_IS_TLS13, with max_early_data > 0.
TLS13 == ctx.tls13

\* The application has set new_session_cb and get_session_cb.
External == ctx.external

\* It has set remove_session_cb too.
Removes == ctx.remove

\* Its get_session_cb hands out the very structure that it keeps.
Shared == External /\ ctx.shared

\* SSL_CTX_sess_get_cache_size, 0 for no limit.
CacheSize == ctx.size

\* Unused memory.
Blank ==
    [references |-> 0, id |-> NoId, not_resumable |-> FALSE,
     expired |-> FALSE, next |-> NULL, prev |-> NULL]

Links == Structs \cup {NULL, HeadMark, TailMark}

Pcs == {"idle", "lookup", "ask", "store", "found", "removed", "new",
        "handshake", "finish", "ticket", "update", "notify", "kept", "refused",
        "open", "close"}

\* Where a connection has its session, s->session.
Serving == {"handshake", "finish", "ticket", "update", "notify", "kept",
            "refused", "open"}

Session ==
    [references : Nat, id : Ids \cup {NoId},
     not_resumable : BOOLEAN, expired : BOOLEAN, next : Links, prev : Links]

Store ==
    [mem : [Structs -> Session], sessions : [Ids -> Structs \cup {NULL}],
     head : Structs \cup {NULL}, tail : Structs \cup {NULL},
     ext : [Ids -> Structs \cup {NULL, Encoded}]]

Connection ==
    [pc : Pcs, id : Ids \cup {NoId}, session : Structs \cup {NULL},
     hit : BOOLEAN, ret : Structs \cup {NULL}, c : Structs \cup {NULL},
     r : Structs \cup {NULL}, sent : 0..Tickets]

\* The fields of the sessions and connections have their types; a connection
\* sends no more tickets than it was told to (tls_construct_new_session_ticket).
TypeOK ==
    /\ ctx \in Contexts
    /\ st \in Store
    /\ \A s \in Structs :
         st.mem[s].references <= Cardinality(Threads) * 3 + 2
    /\ conn \in [Threads -> Connection]
    /\ issued \subseteq Ids
    /\ resumed \in [Ids -> Nat]

Idle ==
    [pc |-> "idle", id |-> NoId, session |-> NULL, hit |-> FALSE,
     ret |-> NULL, c |-> NULL, r |-> NULL, sent |-> 0]

Init ==
    /\ ctx \in Contexts
    /\ st = [mem |-> [s \in Structs |-> Blank],
             sessions |-> [i \in Ids |-> NULL], head |-> NULL, tail |-> NULL,
             ext |-> [i \in Ids |-> NULL]]
    /\ conn = [t \in Threads |-> Idle]
    /\ issued = {}
    /\ resumed = [i \in Ids |-> 0]

-----------------------------------------------------------------------------
(***************************************************************************)
(* The operations on a store x: the value of st, or one on the way to it.  *)
(***************************************************************************)

\* SSL_SESSION_new, and d2i_SSL_SESSION.
New(x, s, i) ==
    [x EXCEPT !.mem[s] = [Blank EXCEPT !.references = 1, !.id = i]]

Free(x) == {s \in Structs : x.mem[s].references = 0}

SSL_SESSION_up_ref(x, s) == [x EXCEPT !.mem[s].references = @ + 1]

\* The last reference clears the memory too.
SSL_SESSION_free(x, s) ==
    IF s = NULL
      THEN x
      ELSE IF x.mem[s].references > 1
             THEN [x EXCEPT !.mem[s].references = @ - 1]
             ELSE [x EXCEPT !.mem[s] = Blank]

Retrieve(x, i) == IF i = NoId THEN NULL ELSE x.sessions[i]

SSL_SESSION_list_remove(x, s) ==
    LET n == x.mem[s].next
        p == x.mem[s].prev
    IN  IF n = NULL \/ p = NULL
          THEN x
          ELSE [x EXCEPT
            !.head = IF p # HeadMark THEN @ ELSE IF n = TailMark THEN NULL ELSE n,
            !.tail = IF n # TailMark THEN @ ELSE IF p = HeadMark THEN NULL ELSE p,
            !.mem = [q \in Structs |->
               [x.mem[q] EXCEPT
                 !.next = IF q = s THEN NULL ELSE IF q = p THEN n ELSE @,
                 !.prev = IF q = s THEN NULL ELSE IF q = n THEN p ELSE @]]]

SSL_SESSION_list_add(x, s) ==
    LET y == SSL_SESSION_list_remove(x, s)
        old == y.head
        linked == [y.mem EXCEPT
            ![s].prev = HeadMark,
            ![s].next = IF old = NULL THEN TailMark ELSE old]
    IN  [y EXCEPT
           !.head = s,
           !.tail = IF old = NULL THEN s ELSE @,
           !.mem = IF old = NULL THEN linked
                                 ELSE [linked EXCEPT ![old].prev = s]]

\* The application's remove_session_cb drops what it keeps under c's id.
remove_session_cb(x, c) ==
    LET i == x.mem[c].id
    IN  IF ~External \/ ~Removes \/ i = NoId
          THEN x
          ELSE LET kept == IF x.ext[i] \in Structs THEN x.ext[i] ELSE NULL
               IN  SSL_SESSION_free([x EXCEPT !.ext[i] = NULL], kept)

\* The part of remove_session_lock that ctx->lock covers: r, found under the
\* id of c, leaves the cache, and c is marked.
Detach(x, c) ==
    LET r == Retrieve(x, x.mem[c].id)
        y == IF r = NULL
               THEN x
               ELSE SSL_SESSION_list_remove(
                      [x EXCEPT !.sessions[x.mem[r].id] = NULL], r)
    IN  [y EXCEPT !.mem[c].not_resumable = TRUE]

\* remove_session_lock of the tail, for a caller that holds ctx->lock.  The
\* loop stops when it removes nothing: never here, as the tail has an id and
\* is found by it (ListIsTheHash) in every state that Step starts from.
EvictTail(x) ==
    LET c == x.tail
    IN  SSL_SESSION_free(remove_session_cb(Detach(x, c), c), c)

Number(x) == Cardinality({i \in Ids : x.sessions[i] # NULL})

TooMany(x) == CacheSize > 0 /\ Number(x) > CacheSize

\* The loop of SSL_CTX_add_session.
Evict(x) ==
    LET after[n \in 0..Cardinality(Ids)] ==
          IF n = 0
            THEN x
            ELSE IF TooMany(after[n - 1])
                   THEN EvictTail(after[n - 1])
                   ELSE after[n - 1]
    IN  after[Cardinality(Ids)]

\* The replaced session keeps its place in the list.
AddSessionLeavesOld(x, c) ==
    LET i == x.mem[c].id
        s == x.sessions[i]
    IN  IF s = c
          THEN x
          ELSE LET y == [SSL_SESSION_up_ref(x, c) EXCEPT !.sessions[i] = c]
                   z == IF s = NULL THEN y ELSE SSL_SESSION_free(y, s)
               IN  Evict(SSL_SESSION_list_add(z, c))

\* SSL_CTX_add_session of a session with an id: a no-op for one that is
\* cached, while another one with the same id is replaced.
SSL_CTX_add_session(x, c) ==
    LET i == x.mem[c].id
        s == x.sessions[i]
    IN  IF s = c
          THEN x
          ELSE LET y == [SSL_SESSION_up_ref(x, c) EXCEPT !.sessions[i] = c]
                   z == IF s = NULL
                          THEN y
                          ELSE SSL_SESSION_free(SSL_SESSION_list_remove(y, s), s)
               IN  Evict(SSL_SESSION_list_add(z, c))

\* What it may do to the store: the insertion of a new key may fail.
AddOutcomes(x, c) ==
    {SSL_CTX_add_session(x, c)}
      \cup (IF x.sessions[x.mem[c].id] = NULL THEN {x} ELSE {})

\* timeout_cb, for one session of the cache.
timeout_cb(x, s) ==
    SSL_SESSION_free(remove_session_cb(Detach(x, s), s), s)

\* SSL_CTX_flush_sessions: timeout_cb for each of the sessions.
Flush(x, due) ==
    LET doall[S \in SUBSET due] ==
          IF S = {} THEN x
          ELSE LET s == CHOOSE q \in S : TRUE IN timeout_cb(doall[S \ {s}], s)
    IN  doall[due]

Cached(x) == {x.sessions[i] : i \in Ids} \ {NULL}

-----------------------------------------------------------------------------
(***************************************************************************)
(* The steps of a connection.                                              *)
(***************************************************************************)

At(t, pc) == conn[t].pc = pc

Goto(t, pc) == conn' = [conn EXCEPT ![t].pc = pc]

\* No session is found: the client's id is not looked at again.
Miss(t) == conn' = [conn EXCEPT ![t].pc = "new", ![t].id = NoId]

SessionOf(t) == st.mem[conn[t].session]

\* A ClientHello arrives, with the id of a session or without one.
ClientHello(t) ==
    /\ At(t, "idle")
    /\ \/ \E i \in Ids : conn' = [conn EXCEPT ![t].pc = "lookup", ![t].id = i]
       \/ Goto(t, "new")
    /\ UNCHANGED <<ctx, st, issued, resumed>>

\* Another thread may release the session before its reference is taken.
Steal(t, s) ==
    /\ st' = st
    /\ conn' = [conn EXCEPT ![t].pc = "found", ![t].ret = s]

\* The session found is kept from being freed by other threads.
Hold(t, s) ==
    /\ st' = SSL_SESSION_up_ref(st, s)
    /\ conn' = [conn EXCEPT ![t].pc = "found", ![t].ret = s]

\* lookup_sess_in_cache, under the read lock.
lookup_sess_in_cache(t) ==
    /\ At(t, "lookup")
    /\ LET s == Retrieve(st, conn[t].id)
       IN  IF s # NULL
             THEN Hold(t, s)
             ELSE /\ IF External THEN Goto(t, "ask") ELSE Miss(t)
                  /\ UNCHANGED st
    /\ UNCHANGED <<ctx, issued, resumed>>

\* get_session_cb returns the structure that the application keeps, shared
\* between threads: as the comment there asks for, it counts the reference
\* itself, before another thread can drop the structure, and sets copy to 0.
ReturnKept(t, s) ==
    /\ st' = SSL_SESSION_up_ref(st, s)
    /\ conn' = [conn EXCEPT ![t].pc = "store", ![t].ret = s]

\* get_session_cb returns a structure that it has just decoded.
ReturnDecoded(t) ==
    \E s \in Free(st) :
      /\ st' = New(st, s, conn[t].id)
      /\ conn' = [conn EXCEPT ![t].pc = "store", ![t].ret = s]

\* get_session_cb has the session in either form, or not at all.
GetSessionCb(t) ==
    LET kept == st.ext[conn[t].id]
    IN
    /\ At(t, "ask")
    /\ \/ kept \in Structs /\ Shared /\ ReturnKept(t, kept)
       \/ kept # NULL /\ ~(kept \in Structs /\ Shared) /\ ReturnDecoded(t)
       \/ Miss(t) /\ UNCHANGED st
    /\ UNCHANGED <<ctx, issued, resumed>>

\* The rest of lookup_sess_in_cache: the session is cached here too.
StoreExternal(t) ==
    /\ At(t, "store")
    /\ st' \in AddOutcomes(st, conn[t].ret)
    /\ Goto(t, "found")
    /\ UNCHANGED <<ctx, issued, resumed>>

\* ssl_get_prev_session drops what it has found: it is not for this
\* context, or the handshake is aborted over it.
DropFound(t) ==
    /\ At(t, "found") /\ ~TLS13
    /\ st' = SSL_SESSION_free(st, conn[t].ret)
    /\ \E pc \in {"new", "close"} :
         conn' = [conn EXCEPT ![t].pc = pc, ![t].id = NoId, ![t].ret = NULL]
    /\ UNCHANGED <<ctx, issued, resumed>>

Resume(t) ==
    /\ At(t, "found") /\ ~TLS13
    /\ ~st.mem[conn[t].ret].expired
    /\ conn' = [conn EXCEPT ![t].pc = "handshake", ![t].id = NoId, ![t].ret = NULL,
                            ![t].session = conn[t].ret, ![t].hit = TRUE]
    /\ UNCHANGED <<ctx, st, issued, resumed>>

\* SSL_CTX_remove_session up to the unlock; nothing for a session that has
\* no id.
BeginRemove(t, c) ==
    LET r == Retrieve(st, st.mem[c].id)
    IN  /\ st' = IF st.mem[c].id = NoId THEN st ELSE Detach(st, c)
        /\ conn' = [conn EXCEPT ![t].pc = "removed", ![t].c = c, ![t].r = r]
        /\ UNCHANGED <<ctx, issued, resumed>>

\* A session that has timed out is removed; a ticket is, always.
RemoveFound(t) ==
    /\ At(t, "found")
    /\ TLS13 \/ st.mem[conn[t].ret].expired
    /\ BeginRemove(t, conn[t].ret)

\* ssl3_send_alert of a fatal alert, or ssl_clear_bad_session when the
\* connection was not shut down.
RemoveBad(t) ==
    /\ conn[t].pc \in {"handshake", "finish", "ticket", "open"}
    /\ BeginRemove(t, conn[t].session)

\* remove_session_lock after the unlock.
AfterUnlock(t) ==
    SSL_SESSION_free(IF st.mem[conn[t].c].id = NoId
                       THEN st ELSE remove_session_cb(st, conn[t].c),
                     conn[t].r)

\* tls_parse_ctos_psk whatever SSL_CTX_remove_session says.
MayResumeAlways(t) == TLS13

\* Only who has removed the ticket from the cache may resume it.
MayResume(t) == TLS13 /\ conn[t].r # NULL

\* The removal ends: the ticket is good, unless it has expired or is refused
\* later; another session is let go.
FinishRemoveFound(t) ==
    /\ At(t, "removed") /\ conn[t].ret # NULL
    /\ \/ /\ MayResume(t)
          /\ ~st.mem[conn[t].ret].expired
          /\ st' = AfterUnlock(t)
          /\ conn' = [conn EXCEPT ![t].pc = "handshake", ![t].id = NoId,
                       ![t].ret = NULL, ![t].c = NULL, ![t].r = NULL,
                       ![t].session = conn[t].ret, ![t].hit = TRUE]
          /\ resumed' = [resumed EXCEPT ![conn[t].id] = @ + 1]
       \/ /\ st' = SSL_SESSION_free(AfterUnlock(t), conn[t].ret)
          /\ \E pc \in {"new", "close"} :
               /\ pc = "new" \/ MayResume(t)
               /\ conn' = [conn EXCEPT ![t].pc = pc, ![t].id = NoId,
                                       ![t].ret = NULL, ![t].c = NULL, ![t].r = NULL]
          /\ UNCHANGED resumed
    /\ UNCHANGED <<ctx, issued>>

FinishRemoveBad(t) ==
    /\ At(t, "removed") /\ conn[t].ret = NULL
    /\ st' = AfterUnlock(t)
    /\ conn' = [conn EXCEPT ![t].pc = "close", ![t].c = NULL, ![t].r = NULL]
    /\ UNCHANGED <<ctx, issued, resumed>>

\* ssl_get_new_session: the id has no match in the cache at this time.  A
\* client that expects a ticket gets none, as every client of TLS 1.3 does.
ssl_get_new_session(t) ==
    /\ At(t, "new")
    /\ \/ \E s \in Free(st), i \in Ids \cup {NoId} :
            /\ TLS13 => i = NoId
            /\ Retrieve(st, i) = NULL
            /\ st' = New(st, s, i)
            /\ conn' = [conn EXCEPT ![t].pc = "handshake", ![t].session = s]
       \/ /\ Goto(t, "close")  \* no memory, or a conflict
          /\ UNCHANGED st
    /\ UNCHANGED <<ctx, issued, resumed>>

\* tls_construct_server_hello: a session that must not be resumed loses its
\* id.
ServerHello(t) ==
    /\ At(t, "handshake")
    /\ st' = IF SessionOf(t).not_resumable
               THEN [st EXCEPT !.mem[conn[t].session].id = NoId] ELSE st
    /\ Goto(t, "finish")
    /\ UNCHANGED <<ctx, issued, resumed>>

\* The handshake is over; in TLS 1.3, tickets follow.
Finish(t) ==
    /\ At(t, "finish") /\ TLS13
    /\ Goto(t, "ticket")
    /\ UNCHANGED <<ctx, st, issued, resumed>>

\* A resumed connection gets one.
MoreTickets(t) ==
    conn[t].sent < Tickets /\ (conn[t].hit => conn[t].sent = 0)

\* The session may be in the cache already.
MustCopy(t) == conn[t].sent # 0 \/ conn[t].hit

\* tls_construct_new_session_ticket up to its call of ssl_update_cache.
NewSessionTicket(t) ==
    /\ At(t, "ticket") /\ MoreTickets(t)
    /\ \E i \in Ids \ issued :
         /\ issued' = issued \cup {i}
         /\ IF MustCopy(t)
              THEN \E s \in Free(st) :
                     /\ st' = SSL_SESSION_free(
                          [st EXCEPT !.mem[s] =
                             [SessionOf(t) EXCEPT
                                !.references = 1, !.next = NULL, !.prev = NULL,
                                !.id = i, !.expired = FALSE]],
                          conn[t].session)
                     /\ conn' = [conn EXCEPT
                          ![t].pc = "update", ![t].sent = @ + 1, ![t].session = s]
              ELSE /\ st' = [st EXCEPT !.mem[conn[t].session].id = i,
                                       !.mem[conn[t].session].expired = FALSE]
                   /\ conn' = [conn EXCEPT ![t].pc = "update", ![t].sent = @ + 1]
    /\ UNCHANGED <<ctx, resumed>>

\* As many tickets are sent as the server is told to send.
NoMoreTickets(t) ==
    /\ At(t, "ticket")
    /\ Goto(t, "open")
    /\ UNCHANGED <<ctx, st, issued, resumed>>

\* A resumed session is cached again.
MustCacheAlways(t) == SessionOf(t).id # NoId

MustCache(t) == SessionOf(t).id # NoId /\ (~conn[t].hit \/ TLS13)

\* ssl_update_cache up to its callback, at the end of a handshake of TLS 1.2
\* and of each ticket of TLS 1.3.
ssl_update_cache(t) ==
    /\ At(t, IF TLS13 THEN "update" ELSE "finish")
    /\ IF MustCache(t)
         THEN /\ st' \in AddOutcomes(st, conn[t].session)
              /\ Goto(t, IF External THEN "notify" ELSE "kept")
         ELSE /\ Goto(t, "kept")
              /\ UNCHANGED st
    /\ UNCHANGED <<ctx, issued, resumed>>

\* The application keeps v under the id of the session.
Keep(x, i, v) ==
    SSL_SESSION_free([x EXCEPT !.ext[i] = v],
                     IF x.ext[i] \in Structs THEN x.ext[i] ELSE NULL)

\* new_session_cb returns 1 and has the session, or returns 0 with the
\* session encoded or not at all.
NewSessionCb(t) ==
    LET s == conn[t].session
        i == st.mem[s].id
    IN  /\ At(t, "notify")
        /\ \/ /\ i # NoId
              /\ st' = Keep(SSL_SESSION_up_ref(st, s), i, s)
              /\ Goto(t, "kept")
           \/ /\ i # NoId
              /\ st' = Keep(st, i, Encoded)
              /\ Goto(t, "refused")
           \/ /\ Goto(t, "refused")
              /\ UNCHANGED st
        /\ UNCHANGED <<ctx, issued, resumed>>

\* The rest of ssl_update_cache: every so often, the cache is flushed.
AutoFlush(t) ==
    /\ conn[t].pc \in {"kept", "refused"}
    /\ \/ st' = Flush(st, {s \in Cached(st) : st.mem[s].expired})
       \/ UNCHANGED st
    /\ Goto(t, IF TLS13 /\ MoreTickets(t) THEN "ticket" ELSE "open")
    /\ UNCHANGED <<ctx, issued, resumed>>

\* SSL_free, after a shutdown or after the session was removed.
SSL_free(t) ==
    /\ conn[t].pc \in {"open", "close"}
    /\ st' = SSL_SESSION_free(st, conn[t].session)
    /\ conn' = [conn EXCEPT ![t] = Idle]
    /\ UNCHANGED <<ctx, issued, resumed>>

\* SSL_CTX_free, which flushes everything; another context follows it.
SSL_CTX_free ==
    /\ \A t \in Threads : At(t, "idle")
    /\ st' = Flush(st, Cached(st))
    /\ UNCHANGED <<ctx, conn, issued, resumed>>

\* Time passes: a session outlives its timeout.
Expire ==
    /\ \E s \in Structs \ Free(st) :
         ~st.mem[s].expired /\ st' = [st EXCEPT !.mem[s].expired = TRUE]
    /\ UNCHANGED <<ctx, conn, issued, resumed>>

\* A session is in the hash table, or on its way there, that has no id: its
\* id was cleared while another thread put it back (tls_construct_server_hello
\* of a session that the application shares).
IdIsGone ==
    \/ \E i \in Ids : st.sessions[i] # NULL /\ st.mem[st.sessions[i]].id # i
    \/ \E t \in Threads : At(t, "store") /\ st.mem[conn[t].ret].id = NoId

Step ==
    \/ \E t \in Threads :
         \/ ClientHello(t) \/ lookup_sess_in_cache(t) \/ GetSessionCb(t)
         \/ StoreExternal(t) \/ DropFound(t) \/ Resume(t) \/ RemoveFound(t)
         \/ RemoveBad(t) \/ FinishRemoveFound(t) \/ FinishRemoveBad(t)
         \/ ssl_get_new_session(t) \/ ServerHello(t) \/ Finish(t)
         \/ NewSessionTicket(t) \/ NoMoreTickets(t) \/ ssl_update_cache(t)
         \/ NewSessionCb(t) \/ AutoFlush(t) \/ SSL_free(t)
    \/ SSL_CTX_free
    \/ Expire

\* Bound: from then on lookups pass the session over and timeout_cb frees it
\* without taking it out of the table; a behaviour is followed up to there.
Next ==
    \/ ~IdIsGone /\ Step
    \/ IdIsGone /\ UNCHANGED vars

Spec == Init /\ [][Next]_vars

-----------------------------------------------------------------------------
(***************************************************************************)
(* What the cache promises.                                                *)
(***************************************************************************)

\* SSL_CTX_add_session, remove_session_lock and timeout_cb keep the two ways
\* into the cache together: the sessions met from the head on are those of
\* the hash table, in the order in which they are met from the tail, each
\* hashed under the id it has, and no other session is linked.
ListIsTheHash ==
    LET n == Number(st)
        walk[k \in 0..n] ==
          IF k = 0 THEN st.head
          ELSE IF walk[k - 1] \in Structs THEN st.mem[walk[k - 1]].next ELSE NULL
    IN  /\ \A i \in Ids : st.sessions[i] # NULL => st.mem[st.sessions[i]].id = i
        /\ {walk[k] : k \in 0..n - 1} = Cached(st)
        /\ IF n = 0
             THEN st.head = NULL /\ st.tail = NULL
             ELSE walk[n] = TailMark /\ walk[n - 1] = st.tail
        /\ \A k \in 0..n - 1 :
             st.mem[walk[k]].prev = IF k = 0 THEN HeadMark ELSE walk[k - 1]
        /\ \A s \in Structs \ Cached(st) :
             st.mem[s].next = NULL /\ st.mem[s].prev = NULL

\* The loop at the end of SSL_CTX_add_session: the cache never outgrows its
\* size, whatever the connections add to it.
WithinSize == CacheSize > 0 => Number(st) <= CacheSize

\* What a connection points to at each of its steps: ret from the lookup on,
\* c and r within remove_session_lock, s->session from there to SSL_free.
PointersFollowSteps(d) ==
    /\ d.pc \in {"store", "found"} => d.ret # NULL
    /\ d.ret # NULL => /\ d.pc \in {"store", "found", "removed"}
                       /\ d.session = NULL /\ d.id \in Ids
    /\ d.c # NULL <=> d.pc = "removed"
    /\ d.c # NULL => d.c = IF d.ret # NULL THEN d.ret ELSE d.session
    /\ d.c = NULL => d.r = NULL
    /\ d.pc \in {"idle", "lookup", "ask", "new"} => d.session = NULL
    /\ d.pc \in Serving => d.session # NULL
    /\ d.session = NULL => ~d.hit /\ d.sent = 0
    /\ d.pc \in {"lookup", "ask"} => d.id \in Ids
    /\ d.pc \in {"handshake", "finish"} => d.sent = 0
    /\ TLS13 /\ d.pc \in {"update", "notify", "kept", "refused"} => d.sent > 0
    /\ d.pc \in {"ticket", "update"} => TLS13
    /\ d.pc \in {"ask", "store", "notify"} => External

\* What the application keeps it keeps once, under the id that the session
\* has, unless the session lost it (tls_construct_server_hello).
KeptUnderTheirIds(x) ==
    \A i, j \in Ids :
      x.ext[i] \in Structs =>
        /\ x.mem[x.ext[i]].id \in {i, NoId}
        /\ x.ext[i] = x.ext[j] => i = j

Kept(x) == {x.ext[i] : i \in Ids} \cap Structs

\* The session that a connection may still give an id or put into the cache.
Own(d) ==
    IF d.pc = "store" /\ ~Shared
      THEN {d.ret}
      ELSE {s \in {d.session} :
              \/ d.pc = "update"
              \/ d.pc \in {"handshake", "finish", "ticket"} /\ ~d.hit /\ d.sent = 0}

\* That session is nobody else's yet, and up to TLS 1.2 nobody has marked it.
OwnIsPrivate(d, x) ==
    \A s \in Own(d) :
      /\ s \notin Cached(x) \cup Kept(x)
      /\ x.mem[s].references = 1
      /\ ~TLS13 => ~x.mem[s].not_resumable

\* A session that was found has the id it was looked up by, or none any more
\* when another connection resumes it too; one that was removed is out of the
\* cache for good.
FoundAndRemoved(d, x) ==
    /\ ~Shared /\ d.pc = "store" => x.mem[d.ret].id = d.id
    /\ d.ret # NULL => x.mem[d.ret].id \in {d.id, NoId}
    /\ ~Shared /\ d.c # NULL => d.c \notin Cached(x)
    /\ ~Shared /\ TLS13 /\ d.hit /\ d.pc = "handshake" =>
         d.session \notin Cached(x)

\* Only where get_session_cb hands out what the application keeps can a
\* session of the cache lose its id; until it does, all of the above holds.
CacheInvariant ==
    /\ TypeOK
    /\ \A t \in Threads : PointersFollowSteps(conn[t])
    /\ IdIsGone => Shared
    /\ ~IdIsGone =>
         /\ ListIsTheHash
         /\ WithinSize
         /\ KeptUnderTheirIds(st)
         /\ \A t \in Threads :
              OwnIsPrivate(conn[t], st) /\ FoundAndRemoved(conn[t], st)

\* SSL_SESSION_up_ref and SSL_SESSION_free: the references of a session are
\* those of the cache, of the connections that have, look at or have just
\* removed it, and of the application.  So it is freed by the last of them
\* and none of them is left with freed memory.
ReferencesAreExact ==
    \A s \in Structs :
      st.mem[s].references =
        Cardinality({i \in Ids : st.sessions[i] = s})
          + Cardinality({i \in Ids : st.ext[i] = s})
          + Cardinality({t \in Threads : conn[t].session = s})
          + Cardinality({t \in Threads : conn[t].ret = s})
          + Cardinality({t \in Threads : conn[t].r = s})

\* SSL_CTX_remove_session marks a session that is no longer to be resumed: up
\* to TLS 1.2 no marked session is in the cache, where a client could resume
\* it, with or without a remove_session_cb.  Not so where get_session_cb hands
\* out the structures themselves: lookup_sess_in_cache then puts a marked one
\* back, as nothing there looks at not_resumable.
CachedAreResumable ==
    ~TLS13 /\ ~Shared => \A s \in Cached(st) : ~st.mem[s].not_resumable

\* tls_parse_ctos_psk: however many connections present a ticket, and whatever
\* the cache drops meanwhile, one of them at most resumes its session.
TicketsAreSingleUse == \A i \in Ids : resumed[i] <= 1

=============================================================================
