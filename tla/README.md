# Verification of blocklockcore

TLA+ models of the Solana program `blocklockcore`, of the scripts that use it,
and of five stateful parts of the OpenSSL that the repository carries; TLC
configurations that check them on small instances; and TLAPS proofs, for every
value of the constants, of the safety properties of the program, its client, the
set-up scripts and the five parts of OpenSSL.

## The system

| part | source | state | operations |
|---|---|---|---|
| program | `programs/blocklockcore/src/lib.rs` | one `UserLockInfo` per user (amount, unlock time, owner) at a program-derived address | `lock_tokens`, `unlock_tokens` |
| lock client | `app/src/lock_usdc.js` | where `main()` is, its transactions, what it printed | check an account, create the token account if missing, lock 100 USDC, print the status, unlock |
| token set-up scripts | `app/src/check_token_account.js`, `createUSDCAccount.js`, `createAndMintTestUSDC.js` | where each run is, its transactions, what it printed | look up and create token accounts, create a mint, mint tokens |
| read-only scripts | `app/src/balanceChecker.js`, `check_account_owner.js`, `check_mint_account_owner.js`, `programs/blocklockcore/app/src/balanceChecker.js` | none | read an account and print it |
| IDL types | `app/src/idl/blocklockcore.ts` | none | declarations only |
| deployment hook | `migrations/deploy.ts` | none | sets the provider |
| tests | `tests/blocklockcore.ts` | none | lock; unlock before the period must fail |
| DTLS record layer, receiving | `openssl-1.1.1l/ssl/record/` | epoch, replay windows, three queues of records | read a record from the wire or a queue, hand it up, change the epoch |
| DTLS handshake transport | `openssl-1.1.1l/ssl/statem/statem_dtls.c`, `ssl/d1_lib.c` | sequence numbers, messages under reassembly, the flight kept for retransmission, timer | send a flight, read a fragment, time out, answer a repeated Finished |
| BIO pairs | `openssl-1.1.1l/crypto/bio/bss_bio.c` | two ring buffers | read, write, both in place, pair, destroy, reset, shut down |
| session cache | `openssl-1.1.1l/ssl/ssl_sess.c` and its callers | hash table, linked list, reference counts; the connections | look up, add, evict, remove, expire; the application's callbacks |
| secure heap | `openssl-1.1.1l/crypto/mem_sec.c` | two bit tables, free lists in the arena, bytes in use | set up, allocate, free, give back |
| the rest of OpenSSL 1.1.1l | `openssl-1.1.1l/` | - | vendored, nothing here calls it |

The scripts talk to the program only through transactions that a validator
executes atomically, one after the other, and read the ledger through JSON-RPC
at commitment `confirmed` or `finalized`, which lag behind the tip.  Everything hard comes
from this: several runs share one key file, a transaction executes late or
never, a confirmation times out although the transaction executes, a read is
older than a write, and the accounts of a transaction are the sender's choice.
`PROJECT.json` lists each such place under `hazards`.

OpenSSL is carried as source and not called by the program.  The parts of it
that are modelled are those that keep state over many calls or share it between
threads, and that meet loss, repetition and reordering: where a test hardly
reaches and a model checker does.

What makes the parts correct:

* program: a record changes only by its own user's signature; a lock cannot be
  ended, or its deadline brought forward, before its period has passed; its user
  can always release it afterwards; the rent is charged once; it behaves like
  the abstract time lock of `TimeLock`;
* client: what a run printed (a lock's signature, an unlock time) stays true
  for as long as it claims; no unlock hits a young lock; the lock fails on
  chain only for reasons outside the script; every run ends;
* set-up scripts: what is printed is so; an account is created once and paid
  once; the minting never fails on chain; every run ends;
* DTLS records: each record is handed up once, none too early, and what came
  before its keys is not forgotten;
* DTLS handshake: a message is whole when it is used; no loss is for good while
  both peers live; a peer does not wait for ever;
* BIO pairs: the bytes that come out are those that went in, in order;
* session cache: hash, list and reference counts agree at every unlock; a ticket
  of TLS 1.3 is good for one use;
* secure heap: no two owners of one byte, no free memory that is not found, no
  memory handed out that still holds something.

## Modules

| module | what it is |
|---|---|
| `TimeLock` | the abstract promise: hold, pass of time, release after a full period |
| `BlocklockCore` | the program and the part of the ledger it reads and writes |
| `BlocklockCoreProofs` | proofs about `BlocklockCore`, and that it implements `TimeLock` |
| `LockUsdc` | extends `BlocklockCore` with runs of `lock_usdc.js` and the cluster between them and the ledger |
| `LockUsdcProofs` | proofs about `LockUsdc` |
| `TokenScripts` | extends `BlocklockCore` with runs of the three set-up scripts and two lagging views |
| `TokenScriptsProofs` | proofs about `TokenScripts` |
| `DtlsRecordLayer` | `dtls1_read_bytes` and what it calls |
| `DtlsRecordLayerProofs` | proofs about `DtlsRecordLayer` |
| `DtlsHandshake` | two peers, their flights and the network between them |
| `DtlsHandshakeProofs` | proofs about `DtlsHandshake`, and about its bitmask |
| `BytePipe` | the abstract promise of a BIO pair: a stream of bytes each way |
| `BioPair` | the ring buffers; implements `BytePipe` |
| `BioPairProofs` | proofs about `BioPair`, and that it implements `BytePipe` |
| `SslSessionCache` | the cache of one `SSL_CTX` and the threads that use it |
| `SslSessionCacheProofs` | proofs about `SslSessionCache` |
| `SecureHeap` | the buddy allocator |
| `SecureHeapProofs` | proofs about `SecureHeap`, and about powers of two |
| `MC...` | instances for TLC |

### BlocklockCore

| in the model | in the code |
|---|---|
| `user_lock_info[u]` | the account at the address derived from `[b"user_lock_info", u]`, `NoAccount` before it exists |
| `clock` | `Clock::unix_timestamp` |
| `token`, `ata_lamports` | token accounts (written `<<owner, mint>>`) and the lamports at their addresses |
| `lamports`, `pda_lamports` | lamports of the wallets and of the records |
| `receipt` | signer and result of the last program transaction |
| `LockTokensResult`, `UnlockTokensResult` | the first failing check of `#[derive(Accounts)]` and of the `require!`s, in the order Anchor makes them |
| `InitIfNeeded`, `LockedInfo`, `LockTokens` | `init_if_needed` with its payer, then the handler's three assignments |
| `UnlockedInfo`, `UnlockTokens` | the two assignments of `unlock_tokens`; account and owner stay |
| `LockTokensFails`, `UnlockTokensFails` | an error rolls the transaction back, the creation of the record included |

A context ranges over all combinations of signer, user, record, token account,
mint and owner, right or wrong.  `Environment` is the rest of the ledger: the
clock, transfers of lamports to addresses that hold no account yet, the
associated token program, minting and token transfers.  These are external and
modelled as far as the program or the scripts depend on them.

The code's 24 hours are `LOCK_DURATION`; the proofs hold for every positive
duration.  The addition of clock and duration is integer addition under
`NoOverflowAssumption`: timestamps are nine orders of magnitude below the end
of i64, so that checked and wrapping arithmetic do not differ.

### LockUsdc

`pc[r]` follows `main()` of run `r`: `checkAccountOwnership`, `lockUSDC` (look
up the token account), `createAccount`/`awaitCreate`, `lockTokens`/`awaitLock`,
`checkLockStatus`, `unlockTokens`/`awaitUnlock`, `ended`.  `tx[r][ix]` is the
run's transaction of each kind: unsent, sent, failed, landed, confirmed.

* `Send*` gives a transaction a blockhash of the current time.  The cluster
  executes it (`Execute*`, an action of `BlocklockCore` with the accounts the
  script passes) at most once within `BLOCKHASH_TTL`, or never.
* `LockErrors` and `UnlockErrors` are the `catch` blocks: refused by the node's
  simulation, not sent, failed, or not confirmed in time.  They are possible
  whatever the transaction does later, so a "failed" lock may still execute.
* `Throws` is an error outside the `try` blocks, which rejects `main()`;
  `Killed` stops the process anywhere.
* `Confirm` moves the confirmed view (`seen_lock_info`, `seen_ata`) to the tip.
  Reads use that view.

Of the output only the lock's signature or error and the unlock time shown are
kept; the rest of the text is left out.

### TokenScripts

`pc[r]`, `tx[r]` and `printed[r]` follow run `r` of one of the scripts.
`check_token_account.js` opens its `Connection` without a commitment and so
reads and waits at `finalized`; the other two use `confirmed`.  `view` has the
state of each token account at both commitments; `Confirm` and `Finalize` move
them on.  `GetOrCreateAccount`, `SendCreateAccount`, `CreateSettles` and
`GetAccountAgain` are the stages of `getOrCreateAssociatedTokenAccount`, which
ignores every error of the creation and looks again.  `OtherClients` create or
fund the same addresses, `lock_usdc.js` among them.

### DtlsRecordLayer

A record is `[epoch, seq, type, good]`; `good` says whether its MAC verifies.
The network delivers any of `Sent` at any time and as often as it likes, with
one proviso (`CanCarry`): a record whose MAC verifies is of an epoch that the
peer has keys for, which is the next one only during a handshake in which this
side has not changed its keys (`PeerEpoch`), and a CCS is protected with the
keys before the ones it announces.  A forged record has any header.  `rbuf` is
the rest of the datagram being read.  `dtls1_buffer_record` takes it away with
the record (`TakeBuffer`, `kept`) and `dtls1_copy_record` puts it back later
(`CopyBuffer`), dropping what was left of the current one; each rest carries the
newest epoch that the peer had keys for when its datagram arrived, so an old
rest that comes back cannot hold a record made later.
`pc` is where one call of `dtls1_read_bytes` is: `start` (take over buffered
application data), `again` and `buffered` (`dtls1_process_buffered_records`,
one record of the loop per step), `next` (a processed record, or one from the
wire), `deliver`.  The queues are sets, taken by the smallest sequence number as
`pqueue` does.  `HandUpChangeCipherSpec` and `HandUpFinished` are what the
handshake does with the two messages that matter here: the new epoch with fresh
windows, and the end of the time in which application data must wait.

### DtlsHandshake

`peer[p]` has `read_seq` and `write_seq`, the messages under reassembly with
their bitmasks, the flight kept for retransmission, the timer, the count of
timeouts and the MTU.  `net[p]` are the fragments that can come to `p`: reading
does not remove them, and none need be read, which is loss, repetition and
reordering.  A message is its length.  `dtls1_do_write` cuts it by the room left
in the datagram under way (`BIO_wpending`), the MTU and `max_send_fragment`, so
that a cut can be anywhere and is elsewhere when the message is sent again;
`Fragments` has every fragment that some cutting makes, and the network loses
those that this one did not.  `dtls1_check_timeout_num` reduces the MTU.  A write
does not block in the model, so a timeout is handled while a peer reads, not in
the middle of its own flight.  `BITS` is the width of a byte of the bitmask, so that marking
within one byte, across bytes and up to the last byte all occur.

### BioPair and BytePipe

`half[b]` is `struct bio_bio_st`.  Each function of `bss_bio.c` that changes it
is an action: `Read` and `Nread`, `Write` and `Nwrite`, `SetWriteBufSize`,
`MakePair` (and `MakePairFails`, without memory for the second buffer),
`DestroyPair`, `Free`, `ShutdownWr`, `Reset`, `ResetReadRequest`.  Pairing a BIO
with itself is left out.  The two BIOs of a pair are used by one thread, as the code has no lock.
`ImplementsPipe` maps a ring buffer to the sequence of the bytes stored in it.

### SslSessionCache

`st` is the memory of the sessions with their reference counts and links, the
hash table, the two ends of the list, and what the application keeps; what
`ctx->lock` covers is one step.  Outside of it are the callbacks
(`GetSessionCb`, `NewSessionCb`), the `SSL_SESSION_free` after an unlock and
everything a connection does between two calls.  `ctx` is how the application
has set its context up: TLS 1.2 or TLS 1.3 with early data, with its own
`new_session_cb` and `get_session_cb` or not, with a `remove_session_cb` or not,
and the size of the cache.  `conn[t]` is the connection that
thread `t` serves, and `c` and `r` in it the locals of `remove_session_lock`
between the unlock and the return.  `Expire` is the passing of time.

`get_session_cb` returns a session that it decodes (`ReturnDecoded`) or, where
`shared` is set, the structure that the application keeps (`ReturnKept`).  The
application then counts the reference itself and sets `copy` to 0, as
`ssl_sess.c:455-460` demands of structures shared between threads.  Sharing has a
consequence that decoding has not: between the unlock of `remove_session_lock`
and the application's `remove_session_cb`, or for good if there is none, another
thread is handed the session that was just marked as not resumable and puts it
back into the cache.  When the connection that has it sends its ServerHello,
`tls_construct_server_hello` clears the id of a marked session
(`statem_srvr.c:2406-2409`), which is then hashed under an id it does not have.
`IdIsGone` is that state, or one with such a session on its way there.  From
there on lookups, evictions and flushes no longer find the session by its id, and
a behaviour is followed up to there and no further (`Next`).  `CacheInvariant` says that it is reached in shared contexts
only; `CachedAreResumable` does not hold of those and leaves them out;
`ReferencesAreExact` holds of all.  The `break` of the eviction loop
(`ssl_sess.c:703-704`), for a tail without an id, is beyond that bound.

### SecureHeap

Addresses and sizes are in units of `minsize`.  `sh.bittable` and
`sh.bitmalloc` are the sets of the bits that are set, `sh.freelist[l]` the
blocks of list `l` in order, and `sh.mem` whether a unit is zero, holds links or
holds data.  Every `OPENSSL_assert` of the allocator that could fail is noted in
`sh.ok`.  Allocating and freeing hold `sec_malloc_lock` and are one step each.
`CRYPTO_secure_malloc_init` and `CRYPTO_secure_malloc_done` hold no lock, and
the model lets nothing run beside them, as programs do that call them at their
start and end.

## Runs

| run | configuration | instance | result |
|---|---|---|---|
| `core` | `MCBlocklockCore.cfg` | 2 users, 2 mints, 2 token accounts of one mint, duration 2, clock to 3; 99,616 states | all properties hold |
| `amount_locked` | `AmountLocked.cfg` | same | violated, see findings |
| `client` | `MCLockUsdc.cfg` | 2 runs on one wallet, duration 2, blockhash lifetime 1, clock to 3; 771,395 states | all properties hold |
| `client_ends` | `RunsEnd.cfg` | 2 runs on one wallet, clock to 1 | holds |
| `usdc_held` | `LockedUsdcIsHeld.cfg` | as `client` | violated, see findings |
| `scripts` | `MCTokenScripts.cfg` | two runs of the first script beside one that mints, or the second script beside one that mints; 296,926 states | all properties hold |
| `dtls_records` | `MCDtlsRecordLayer.cfg` | three epochs, 15 records, window 3, queues of 2, two records to a datagram; 282,929 states | all properties hold |
| `dtls_after_fatal` | `NothingAfterFatal.cfg` | same | violated, see findings |
| `bio_pair` | `MCBioPair.cfg` | buffers of 1 and of up to 3 bytes, calls of up to 2; 33,616 states | all properties hold |
| `sessions` | `MCSslSessionCache.cfg` | two threads, three sessions, two ids, four contexts; 1,776,073 states | all properties hold |
| `dtls_handshake` | `MCDtlsHandshake.cfg` | four flights, eight messages of up to seven bytes in any fragments, four timeouts; 29,545 states | all properties hold |
| `secure_heap` | `MCSecureHeap.cfg` | an arena of eight units, requests for every size of block; 70,424 states | all properties hold |

Bounds of `core`.  Two users are enough for one to interfere with the other's
record.  With duration 2 and the clock running to 3 a lock can be made, renewed
half-way, run out, be released and be made again, at and around the deadline.
Rent 2 for a record lets its address be empty, half funded or funded.  Lamports
3 let a wallet run out.  `U64Max` 1 gives two amounts, enough to tell more from
less.  The second mint has no token account and serves for mismatches.

Bounds of `client`.  Two runs on the same wallet are the smallest case in which
the unlock of one meets the lock of the other; runs on different wallets touch
different records (`OnlyOwnSignature`).  With lifetime 1 a transaction can
execute after its run gave up and after the other run's.  `LAST_SEND` bounds
when a lock is sent; locks sent at 0 and 1 execute at 0, 1 or 2 and the clock
reaches the deadline of the first two.  The two runs are interchangeable, so the
run uses symmetry; `client_ends` checks liveness and does not.  Deadlock is not
checked in the client's runs: the scripts end.

Bounds of `scripts`.  Two runs of `check_token_account.js` on one account are
what its looking first can go wrong with.  `createUSDCAccount.js` creates
without looking, for another mint.  All share a wallet with two lamports, so
that it can run out between two transactions.  The clock plays no part.

Bounds of `dtls_records`.  Sequence numbers 0 to 5 under a window of three leave
the window, come back into it, and jump by more than its width.  Three epochs
are two handshakes, the second during the life of the first one's queues.  A
forged record has the number of a good one, or an epoch that never comes.
Queues of two fill up.  Two records to a datagram leave a rest that is kept with
a queued record and comes back; three (1,286,700 states) show nothing else.

Bounds of `bio_pair`.  Three bytes with an offset are the smallest ring in which
data wraps with something before and behind it; one byte is full or empty.  Two
byte values tell an old byte from a new one.

Bounds of `sessions`.  Three sessions for two ids let two of them have the same
id, and one more live on in a connection after it was replaced.  A cache of one
evicts at every second insertion, the session just added included.  Two tickets
are as many as one connection is given.  The four contexts are those of TLS 1.2
whose application decodes sessions, with and without a `remove_session_cb`, and
shares them, and one of TLS 1.3; the proofs are for every context.

Bounds of `dtls_handshake`.  The second flight has one message more than may be
ahead (`WINDOW` is 1 there, 10 in the code).  With two bits to a byte, messages
of five and seven bytes end within a byte of the bitmask, and fragments of up to
four begin and end at any bit, overlapping.

Bounds of `secure_heap`.  Eight units are three rounds of splitting and of
coalescing; a request for no bytes, for a full block, for a part of one, for
the arena and for more than it are all made.

Symmetry is used in `client` and `sessions`, which check no liveness.
Deadlock is not checked where a system may end: scripts, handshakes, and
connections that the application stops reading from.

Fairness.

* `client_ends` and `scripts`: every `await` of a script settles, because the
  JSON-RPC client answers, fails or times out.  Nothing is assumed of the
  cluster: a sent transaction need never execute and a block need never be
  confirmed.
* `dtls_records`: the application keeps calling `SSL_read`.  Nothing is assumed
  of the network.
* `dtls_handshake`: a peer writes the messages of its turn, takes what it has
  buffered, and its timer goes off when it runs (the application calls
  `DTLSv1_handle_timeout`, as it must).  Nothing is assumed of the network.

Each property has a mutant, a plausible slip in the code (defined next to the
definition it replaces), that TLC finds violating it.

## Findings

* `amount_locked`: `lock_tokens` overwrites `locked_amount` while a lock is in
  force, so a second lock of a smaller amount, zero included, frees what was
  locked, while `tests/blocklockcore.ts:47` says "Fails to unlock tokens before
  lock period".  The deadline itself is kept (`DeadlineNeverBroughtForward`).
* `usdc_held`: `app/src/lock_usdc.js:215` says "Lock 100 USDC", but
  `lock_tokens` moves no tokens and looks at no balance, so a lock succeeds on
  an empty token account.
* `dtls_after_fatal`: `dtls1_process_buffered_records` returns -1 after a fatal
  error (`ssl/record/rec_layer_d1.c:286`), and `dtls1_get_record` tests it with
  `!` (`ssl/record/ssl3_record.c:1851`), which -1 passes.  So the call goes on
  in the error state and hands the next record up.

Two remarks on the session cache that no run is about.  The manual says that a
session for which `new_session_cb` returned 0 is removed from the internal cache
(`doc/man3/SSL_CTX_sess_set_get_cb.pod:63`); `ssl_update_cache`
(`ssl/ssl_lib.c:3549`) releases a reference only.  And a TLS 1.3 session resumed
under anti-replay is marked as not resumable, a mark that `ssl_session_dup`
copies into the session of the next ticket, which is cached all the same; this
is why `CachedAreResumable` is about TLS 1.2.

## Proofs

All constants are arbitrary: any users, mints, token accounts, runs, wallets,
duration, rents and blockhash lifetime.  The assumptions are
`ConstantsAssumption` (types; duration and rents positive),
`NoOverflowAssumption`, `NoAccountAssumption` (the marker is not a value of the
types) and `ClientAssumption` (types of the client's constants).  TLC evaluates
them in every run.

`BlocklockCoreProofs`.  None of the safety properties is inductive alone.
`IInv` adds to the types that the owner in a record is the user whose seed
derives its address (otherwise `has_one` could fail), that an address never
holds more than its rent (otherwise the first lock would not bring it to exactly
the rent) and that no deadline is further ahead than one duration (otherwise a
second lock could bring it forward).  From `IInv`:
`TypeCorrect`, `InvariantHolds`, `RentIsPaidOnce`, `DeadlinesWithinPeriod`,
`UnlockIsDecidedByClock`, `OnlyOwnSignatureHolds`,
`DeadlinesNeverBroughtForward`.  `Refinement` maps a record to the hold that
started one duration before its unlock time; `lock_tokens` becomes `Hold`, an
`unlock_tokens` of a lock `Release`, the tick `Pass`, all else a stutter.

`LockUsdcProofs`.  The composition takes only ledger steps of `BlocklockCore`
(`RunsAreCore`, by its definition), so `IInv` carries over.  `ClientInv` then
ties the runs to the ledger: a printed signature means a confirmed lock
(`RunOrder`); an address once seen or created keeps its lamports
(`AccountExists`); a lock that executed holds for its period whatever executes
after it (`LandedLocks`: every lock of a wallet has the same amount and a later
lock a later deadline); the confirmed view is a lower bound for the tip and
includes every confirmed lock (`SeenRecords`).  From it: `PrintedLocksLast`,
`ShownTimesHold`, `OwnLockIsShown`, `UnlocksHitOldLocks`,
`LockFailuresExplained`, and from `ClientInv` alone `ClientTypeCorrect`.  The
type invariants `TypeOK` and `ClientTypeOK` are conjuncts of `IInv` and
`ClientInv`, under which the runs check them.

`TokenScriptsProofs`.  `ScriptsInvariant` is inductive as it stands.  An account
is open at the tip whenever a view shows it open (`ViewsLag`), and nothing closes
one, so what a run has seen stays so.  A creation that executed is visible as far
as its block is (`CreationsAreSeen`), which is why "created" is true although the
run waited at another commitment than it reads at.  A mint belongs to one run, so
its supply and the balance of its account are told by the state of that run's
minting (`MintedOnce`).  Under it `MintToSucceedsHolds` and
`CheckIsRepeatableHolds` are action properties: no step makes the minting fail,
and none lets a second check go on to create what a first one has reported.

`DtlsRecordLayerProofs`.  The inductive invariant is `RecordLayerInvariant` with
the four properties `BitmapIsExact`, `HandedUpOnce`, `BufferedAreCurrent` and
`DataAfterFinished`: a record leaves a queue into another, and is not handed up
twice, only because the bitmap knows it was accepted; and the bitmap of the next
epoch is exact at a change of keys only because what waited for those keys was
neither accepted before (`AcceptedHadKeys`) nor left behind
(`ReadyForNextEpoch`).  The latter bounds the age of every rest of a datagram, in
use or kept in a queue: while records wait for the end of the datagram, no rest
is from a time when the peer could announce yet another epoch, because a new
datagram is read only after the waiting records have been processed.  It rests
on `CanCarry`, that a CCS with a good MAC belongs to the handshake in progress.
The lemmas on the bitmap say what a shift and a mark make
of the set of sequence numbers it stands for, for every width.

`BioPairProofs`.  `StructInvariant` is inductive.  For the refinement, `streamBar`
reads the ring from its offset on, around its end, and `shutBar` is the set of
BIOs whose writing side is closed.  Lemmas on the ring say that storing bytes
behind the data, in one piece or two, appends them to the stream and that taking
bytes from the offset drops its front, whether or not the data wraps.
`PairIsPipe` then has one lemma per call of `bss_bio.c`.  `BioAssumption` says
that the mark `NoBuf` of a missing buffer is not a buffer.

`DtlsHandshakeProofs`.  `IInv` is `HandshakeInvariant` and `ReassembledIsWhole`,
said connection by connection: the state, counts and kept flight of a peer follow
from its flight, the other is at the same one or one apart, and the fragments on
the network and the messages buffered are of messages that the other has
numbered.  The last part gives the turns their order: who has read a whole flight
knows that its sender is past it (`OtherIsAhead`).  `MarkIsInterval` shows that
`RSMBLY_BITMASK_MARK`, with its partial first and last byte, marks exactly the
bytes of the fragment, and `CompleteIsAll` that `RSMBLY_BITMASK_IS_COMPLETE` is
true of exactly the mask of all bytes, for every number of bits in a byte and
every length but 0 (a message of no bytes is never reassembled).
`FragmentsFit` shows the cuts of `dtls1_do_write` to stay within the message.
Arbitrary are the lengths of the flights and of their messages, both MTUs, the
window and the limits on timeouts; the number of flights is four, a full
handshake.  `HandshakeAssumption` says that `NULL` is neither a bitmask of a
message nor a buffered message.

`SslSessionCacheProofs`.  `Inv` says of the store that it is `Good`: there is a
sequence of distinct sessions, those of the hash table, that the links follow in
both directions (links that agree pairwise would not rule out a second cycle),
each is hashed under its id, and each count is what the cache, the application
and the connections hold (`Held`).  It says of each connection where its pointers
are at each step, that the session it may still name or cache is its own, and
that what it removed is out of the cache, where structures are not shared.
`NextInv` is about `Inv` or `Ends`, the end of a behaviour at a session of the
cache that lost its id: only `ServerHello` in a shared context leads there
(`ServerHelloEnds`), with the counts still exact.  Three kinds of lemmas carry it.

* What an operation makes of a store and a count of holders: `SoundFree`,
  `SoundUpRef`, `DetachIsGood`, `AddIsGood` and so on.  `EvictIsGood` and
  `FlushIsGood` go by induction over the sessions dropped, as the least
  counterexample (`Least`), since a theorem that takes a predicate as its
  parameter is of no use to the provers here.
* Why a step leaves the other connections alone (`LeavesOthers`,
  `OthersAreLeft`): a count of one belongs to whoever holds it, so what another
  connection calls its own is neither found, renamed nor freed.
* One lemma per action, which `NextInv` puts together.

For `TicketsAreSingleUseHolds` a ticket is a token (`OneToken`): it is in the hash
table, or with the one connection that has taken it out or has made it and not
yet cached it, or spent.  `lookup_sess_in_cache` hands the session to many
connections and the token to none; `SSL_CTX_remove_session` hands it to the first
that calls it.  The theorem leaves out contexts of TLS 1.3 whose application has
a cache of its own, because its `get_session_cb` may return a ticket that was
used before, and what is then cached is a second token; the run leaves out the
same contexts.  `SessionCacheAssumption` says that the sets of sessions, ids and
threads are finite and that `NULL` and the marks for the two ends of the list are
none of the sessions.

`SecureHeapProofs`.  The arena has any number of levels from two on, which is what
`sh_init` accepts (`HeapAssumption`), and the program may ask for any sizes.  A
block is a pair of an address and a list; powers of two are a recursive
function, and lemmas by induction (as a set of numbers with 0 and all successors)
give what the addresses need: two aligned blocks are disjoint or one is in the
other (`Nested`), the bits of different blocks differ, and the block whose bit is
next to it is the other half of the block one list up (`MateFacts`).  `IInv` says
that a heap that is set up stands for a tiling (`Rep`):

* `Stands`: there are sets `B`, `A` and `F` of aligned blocks; the bit tables are
  the bits of `B` and `A`, the list of each size has the blocks of `F` of that
  size, each once, and no assertion has failed;
* `Tiles`: each unit is in exactly one block of `B`, and `B` is the disjoint union
  of `A` and `F`;
* `Linked`: a free block is zero but for the links in its first unit, which is
  why wiping those is enough for `AllocatedIsZeroHolds`;
* `Coalesced`: no two blocks of `F` are the halves of a block;
* `Accounts`: the pointers of the program are the blocks of `A`, large enough, and
  `secure_mem_used` is what they cover.

Inside `sh_malloc` and `sh_free`, `Coalesced` does not hold.  `ReadyPeels` goes
through the splitting by induction over the lists: the heap still stands for a
tiling, and it is coalesced without the one block that will be taken.
`CoalesceLoop` does the same for `sh_free`: after each round the free blocks without
the one in hand are coalesced, and the loop ends when that one has no free other
half.  `EveryFitIsFoundHolds` then rests on `FitIsFound`: all tiles that meet a
region without memory in use are free; if they were all smaller than the region,
the other half of the smallest of them would lie in the region and could not be
split further, so it would be a free tile too, against `Coalesced`.

Only model-checked:

* `RunsEnd`, `ScriptsEnd`, `BufferedAreProcessed` and `HandshakeEnds`: the prover
  does not treat liveness under fairness.

## Not modelled

* Transaction fees, forks and rollback of confirmed blocks, compute limits.
* Closing of token accounts: no part of the repository does it.
* Calls to the program for a wallet by anything but the script, while runs of
  the script use that wallet (`BlocklockCore` alone covers them).
* Wording and formatting of the output, the key file's format.
* The generated IDL types, the empty deployment hook, the read-only scripts.
* DTLS: the sending side of the record layer, the contents of alerts and
  messages, the lengths of timers, SCTP, `DTLSv1_listen`, datagram BIOs that
  refuse a write and the timeouts that go off meanwhile.
* Session cache: its use by clients, stateless tickets, sessions shared between
  contexts; what follows once a cached session has lost its id; an application
  that shares its structures without counting their references.
* Secure heap: the mapping of the arena, guard pages, `mlock`; calls that race
  with setting it up or giving it back.
* The rest of OpenSSL: some 390,000 lines of vendored third-party C, most of
  them ciphers, big numbers, curves, ASN.1 and tables.  These are sequential
  computations on long data, which TLC cannot enumerate at widths that would
  mean anything, and none of it is called by the program of this repository.
  So the models cover a small share of the lines of C, and all of the program's
  own code that changes state.

## Plan

1. Done: `TimeLock`, `BlocklockCore`, their runs and proofs.
2. Done: `LockUsdc` composed with `BlocklockCore`, its runs and proofs.
3. Done: `TokenScripts`, and the five modules on OpenSSL, with their runs.
4. Done: the proofs of `TokenScripts`, `DtlsRecordLayer`, `BioPair`,
   `DtlsHandshake`, `SslSessionCache` and `SecureHeap`.
5. A finalized view and a second wallet in `LockUsdc`, and other callers of the
   program on a wallet that runs use.
