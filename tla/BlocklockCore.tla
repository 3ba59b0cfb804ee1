---------------------------- MODULE BlocklockCore ----------------------------
(***************************************************************************)
(* The on-chain program blocklockcore (programs/blocklockcore/src/lib.rs)  *)
(* and the part of the Solana ledger it reads and writes.                  *)
(*                                                                         *)
(* A transaction carries one instruction, executes atomically, and either  *)
(* takes effect as a whole or leaves the ledger as it was.  Its accounts   *)
(* are chosen by the caller, so a context ranges over every combination of *)
(* them; what #[derive(Accounts)] and the handlers check is what decides   *)
(* between success and an error.                                           *)
(*                                                                         *)
(* Addresses.  The program-derived address of [b"user_lock_info", u] is an *)
(* injective function of u and is written u.  A token account is written   *)
(* <<owner, mint>>, the pair that its contents name.                       *)
(***************************************************************************)
EXTENDS Integers

CONSTANTS
    Users,            \* wallets: the keys that can sign
    Mints,            \* SPL mint accounts
    TokenAccounts,    \* addresses of token accounts, <<owner, mint>>
    LOCK_DURATION,    \* 24 * 60 * 60 in the code
    LOCK_INFO_RENT,   \* rent-exempt balance of 8 + 8 + 8 + 32 bytes
    TOKEN_RENT,       \* rent-exempt balance of a token account
    InitialLamports,  \* lamports of every wallet at the start
    U64Max,           \* largest u64
    I64Max,           \* largest i64
    MaxTime,          \* bound: the clock stops here
    NoAccount         \* marks an address that holds no data account

Amount == 0..U64Max

UserLockInfo ==
    [locked_amount : Amount, unlock_time : 0..I64Max, owner : Users]

ASSUME ConstantsAssumption ==
    /\ TokenAccounts \subseteq Users \X Mints
    /\ LOCK_DURATION \in Nat \ {0}
    /\ LOCK_INFO_RENT \in Nat \ {0}
    /\ TOKEN_RENT \in Nat \ {0}
    /\ InitialLamports \in Nat
    /\ U64Max \in Nat
    /\ I64Max \in Nat
    /\ MaxTime \in Nat

\* clock.unix_timestamp + lock_duration does not overflow while the clock is
\* at most MaxTime: checked and wrapping addition agree with integer addition.
ASSUME NoOverflowAssumption ==
    MaxTime + LOCK_DURATION <= I64Max

ASSUME NoAccountAssumption ==
    /\ NoAccount \notin UserLockInfo
    /\ NoAccount \notin Nat
    /\ NoAccount \notin Users
    /\ NoAccount \notin [quantity : Amount, since : Int]

VARIABLES
    clock,            \* Clock::unix_timestamp
    user_lock_info,   \* the UserLockInfo at each program-derived address
    token,            \* the balance held by each token account
    lamports,         \* lamports of each wallet
    pda_lamports,     \* lamports at each program-derived address
    ata_lamports,     \* lamports at each token account address
    receipt           \* signer and result of the last program transaction

ledger == <<user_lock_info, token, lamports, pda_lamports, ata_lamports>>
vars == <<clock, user_lock_info, token, lamports, pda_lamports, ata_lamports,
          receipt>>

Ok == "Ok"

Errors == {"AccountNotSigner", "AccountNotInitialized",
           "AccountOwnedByWrongProgram", "ConstraintSeeds",
           "InsufficientFunds", "InvalidMint", "InvalidOwner",
           "LockNotExpired"}

NoReceipt == [signer |-> NoAccount, result |-> Ok]

LockTokensContext ==
    [signer : Users, user : Users, user_lock_info : Users,
     user_token_account : TokenAccounts, mint : Mints]

UnlockTokensContext ==
    [signer : Users, user : Users, user_lock_info : Users,
     user_token_account : TokenAccounts, mint : Mints, owner : Users]

-----------------------------------------------------------------------------
(***************************************************************************)
(* Account checks.                                                         *)
(***************************************************************************)

IsInitialized(u) == user_lock_info[u] # NoAccount

IsOpen(ta) == token[ta] # NoAccount

MintOf(ta) == ta[2]

\* What is still missing from a balance that has to reach the rent exemption.
RentDue(rent, present) == IF present < rent THEN rent - present ELSE 0

\* The error of Account::try_from on an address with no account of its type:
\* an address that was never funded is told apart from one that was.
MissingAccount(present) ==
    IF present = 0 THEN "AccountNotInitialized"
                   ELSE "AccountOwnedByWrongProgram"

\* seeds = [b"user_lock_info", user.key().as_ref()]: the record passed is the
\* one at the signing user's own address.
SeedsUnchecked(ctx) == TRUE
SeedsMatch(ctx) == ctx.user_lock_info = ctx.user

\* clock.unix_timestamp >= unlock_time.
ExpiredUnchecked(info) == TRUE
ExpiredOneEarly(info) == clock + 1 >= info.unlock_time
Expired(info) == clock >= info.unlock_time

\* The first check that lock_tokens fails, in the order they are made: the
\* accounts are loaded, user_lock_info is found or created, the handler runs.
\* Neither the owner nor the balance of the token account is looked at.
LockTokensResult(ctx) ==
    IF ctx.user # ctx.signer
      THEN "AccountNotSigner"
    ELSE IF ~IsOpen(ctx.user_token_account)
      THEN MissingAccount(ata_lamports[ctx.user_token_account])
    ELSE IF ~SeedsMatch(ctx)
      THEN "ConstraintSeeds"
    ELSE IF /\ ~IsInitialized(ctx.user_lock_info)
            /\ lamports[ctx.user] <
                 RentDue(LOCK_INFO_RENT, pda_lamports[ctx.user_lock_info])
      THEN "InsufficientFunds"
    ELSE IF ctx.mint # MintOf(ctx.user_token_account)
      THEN "InvalidMint"
    ELSE Ok

\* The first check that unlock_tokens fails: accounts, seeds, has_one, clock.
\* The mint is not compared with the token account's.
UnlockTokensResult(ctx) ==
    IF ctx.user # ctx.signer
      THEN "AccountNotSigner"
    ELSE IF ~IsInitialized(ctx.user_lock_info)
      THEN MissingAccount(pda_lamports[ctx.user_lock_info])
    ELSE IF ~IsOpen(ctx.user_token_account)
      THEN MissingAccount(ata_lamports[ctx.user_token_account])
    ELSE IF ~SeedsMatch(ctx)
      THEN "ConstraintSeeds"
    ELSE IF user_lock_info[ctx.user_lock_info].owner # ctx.owner
      THEN "InvalidOwner"
    ELSE IF ~Expired(user_lock_info[ctx.user_lock_info])
      THEN "LockNotExpired"
    ELSE Ok

-----------------------------------------------------------------------------
(***************************************************************************)
(* The two instructions.                                                   *)
(***************************************************************************)

\* Charging the whole rent, whatever the address already holds.
InitAtFullRent(payer, pda) ==
    LET due == IF IsInitialized(pda) THEN 0 ELSE LOCK_INFO_RENT
    IN  /\ lamports' = [lamports EXCEPT ![payer] = @ - due]
        /\ pda_lamports' = [pda_lamports EXCEPT ![pda] = @ + due]

\* init_if_needed: the payer brings a missing account up to the rent
\* exemption, once; an account that exists is used as it is.
InitIfNeeded(payer, pda) ==
    LET due == IF IsInitialized(pda)
                 THEN 0
                 ELSE RentDue(LOCK_INFO_RENT, pda_lamports[pda])
    IN  /\ lamports' = [lamports EXCEPT ![payer] = @ - due]
        /\ pda_lamports' = [pda_lamports EXCEPT ![pda] = @ + due]

\* Locking again adds a period to the one that runs.
LockedInfoExtending(ctx, amount) ==
    [locked_amount |-> amount,
     unlock_time   |-> IF IsInitialized(ctx.user_lock_info)
                         THEN user_lock_info[ctx.user_lock_info].unlock_time
                                + LOCK_DURATION
                         ELSE clock + LOCK_DURATION,
     owner         |-> ctx.user]

\* Locking again replaces the amount and lets the running period go on.
LockedInfoSamePeriod(ctx, amount) ==
    [locked_amount |-> amount,
     unlock_time   |-> IF /\ IsInitialized(ctx.user_lock_info)
                          /\ user_lock_info[ctx.user_lock_info].unlock_time > 0
                         THEN user_lock_info[ctx.user_lock_info].unlock_time
                         ELSE clock + LOCK_DURATION,
     owner         |-> ctx.user]

\* The owner recorded is the token account's.
LockedInfoTokenOwner(ctx, amount) ==
    [locked_amount |-> amount,
     unlock_time   |-> clock + LOCK_DURATION,
     owner         |-> ctx.user_token_account[1]]

\* What lock_tokens writes, over whatever the account held before.
LockedInfo(ctx, amount) ==
    [locked_amount |-> amount,
     unlock_time   |-> clock + LOCK_DURATION,
     owner         |-> ctx.user]

\* The deadline is reset and the amount is not.
UnlockedInfoKeepsAmount(info) == [info EXCEPT !.unlock_time = 0]

\* What unlock_tokens leaves of a record: the account stays, with its owner.
UnlockedInfo(info) ==
    [info EXCEPT !.locked_amount = 0, !.unlock_time = 0]

LockTokens(ctx, amount) ==
    /\ LockTokensResult(ctx) = Ok
    /\ InitIfNeeded(ctx.user, ctx.user_lock_info)
    /\ user_lock_info' = [user_lock_info EXCEPT
                            ![ctx.user_lock_info] = LockedInfo(ctx, amount)]
    /\ receipt' = [signer |-> ctx.signer, result |-> Ok]
    /\ UNCHANGED <<clock, token, ata_lamports>>

UnlockTokens(ctx) ==
    /\ UnlockTokensResult(ctx) = Ok
    /\ user_lock_info' = [user_lock_info EXCEPT
                            ![ctx.user_lock_info] = UnlockedInfo(@)]
    /\ receipt' = [signer |-> ctx.signer, result |-> Ok]
    /\ UNCHANGED <<clock, token, lamports, pda_lamports, ata_lamports>>

\* A transaction that fails a check is rolled back, the creation of
\* user_lock_info included; only its result remains.
LockTokensFails(ctx) ==
    /\ LockTokensResult(ctx) # Ok
    /\ receipt' = [signer |-> ctx.signer, result |-> LockTokensResult(ctx)]
    /\ UNCHANGED <<clock, ledger>>

UnlockTokensFails(ctx) ==
    /\ UnlockTokensResult(ctx) # Ok
    /\ receipt' = [signer |-> ctx.signer, result |-> UnlockTokensResult(ctx)]
    /\ UNCHANGED <<clock, ledger>>

-----------------------------------------------------------------------------
(***************************************************************************)
(* The rest of the ledger: the clock, the system program, the token        *)
(* programs.                                                               *)
(***************************************************************************)

\* The cluster's timestamp never goes back; several transactions may see the
\* same one.
Tick ==
    /\ clock < MaxTime
    /\ clock' = clock + 1
    /\ UNCHANGED <<ledger, receipt>>

\* Lamports sent to a program-derived address before the account exists.
\* Bound: never more than the rent, so that the account's balance shows what
\* the program itself charged.
FundLockInfo(w, u, n) ==
    /\ ~IsInitialized(u)
    /\ n <= lamports[w]
    /\ pda_lamports[u] + n <= LOCK_INFO_RENT
    /\ lamports' = [lamports EXCEPT ![w] = @ - n]
    /\ pda_lamports' = [pda_lamports EXCEPT ![u] = @ + n]
    /\ UNCHANGED <<clock, user_lock_info, token, ata_lamports, receipt>>

\* Lamports sent to a token account's address before the account exists.
FundTokenAccount(w, ta, n) ==
    /\ ~IsOpen(ta)
    /\ n <= lamports[w]
    /\ ata_lamports[ta] + n <= TOKEN_RENT
    /\ lamports' = [lamports EXCEPT ![w] = @ - n]
    /\ ata_lamports' = [ata_lamports EXCEPT ![ta] = @ + n]
    /\ UNCHANGED <<clock, user_lock_info, token, pda_lamports, receipt>>

\* The associated token program's Create instruction: an account that is
\* already open is an error, one that was only funded is not.
CreateTokenAccountAllowed(payer, ta) ==
    /\ ~IsOpen(ta)
    /\ lamports[payer] >= RentDue(TOKEN_RENT, ata_lamports[ta])

CreateTokenAccount(payer, ta) ==
    LET due == RentDue(TOKEN_RENT, ata_lamports[ta])
    IN  /\ CreateTokenAccountAllowed(payer, ta)
        /\ token' = [token EXCEPT ![ta] = 0]
        /\ lamports' = [lamports EXCEPT ![payer] = @ - due]
        /\ ata_lamports' = [ata_lamports EXCEPT ![ta] = @ + due]
        /\ UNCHANGED <<clock, user_lock_info, pda_lamports, receipt>>

\* The mint authority issues tokens.
MintTo(ta, n) ==
    /\ IsOpen(ta)
    /\ token[ta] + n <= U64Max
    /\ token' = [token EXCEPT ![ta] = @ + n]
    /\ UNCHANGED <<clock, user_lock_info, lamports, pda_lamports,
                   ata_lamports, receipt>>

\* The owner of a token account sends from it; nothing of blocklockcore is
\* consulted.
TokenTransfer(from, to, n) ==
    /\ from # to
    /\ IsOpen(from)
    /\ IsOpen(to)
    /\ MintOf(from) = MintOf(to)
    /\ n <= token[from]
    /\ token[to] + n <= U64Max
    /\ token' = [token EXCEPT ![from] = @ - n, ![to] = @ + n]
    /\ UNCHANGED <<clock, user_lock_info, lamports, pda_lamports,
                   ata_lamports, receipt>>

-----------------------------------------------------------------------------
Init ==
    /\ clock = 0
    /\ user_lock_info = [u \in Users |-> NoAccount]
    /\ token = [ta \in TokenAccounts |-> NoAccount]
    /\ lamports = [u \in Users |-> InitialLamports]
    /\ pda_lamports = [u \in Users |-> 0]
    /\ ata_lamports = [ta \in TokenAccounts |-> 0]
    /\ receipt = NoReceipt

Program ==
    \/ \E ctx \in LockTokensContext, amount \in Amount :
         LockTokens(ctx, amount)
    \/ \E ctx \in UnlockTokensContext : UnlockTokens(ctx)
    \/ \E ctx \in LockTokensContext : LockTokensFails(ctx)
    \/ \E ctx \in UnlockTokensContext : UnlockTokensFails(ctx)

Environment ==
    \/ Tick
    \/ \E w, u \in Users, n \in 1..LOCK_INFO_RENT : FundLockInfo(w, u, n)
    \/ \E w \in Users, ta \in TokenAccounts, n \in 1..TOKEN_RENT :
         FundTokenAccount(w, ta, n)
    \/ \E w \in Users, ta \in TokenAccounts : CreateTokenAccount(w, ta)
    \/ \E ta \in TokenAccounts, n \in Amount : MintTo(ta, n)
    \/ \E from, to \in TokenAccounts, n \in Amount : TokenTransfer(from, to, n)

Next == Program \/ Environment

Spec == Init /\ [][Next]_vars

-----------------------------------------------------------------------------
(***************************************************************************)
(* Properties.                                                             *)
(***************************************************************************)

\* The ledger's variables have the types that lib.rs gives them: u64 amounts,
\* i64 times, lamports that no charge takes below zero.
TypeOK ==
    /\ clock \in 0..MaxTime
    /\ user_lock_info \in [Users -> UserLockInfo \cup {NoAccount}]
    /\ token \in [TokenAccounts -> Amount \cup {NoAccount}]
    /\ lamports \in [Users -> Nat]
    /\ pda_lamports \in [Users -> Nat]
    /\ ata_lamports \in [TokenAccounts -> Nat]
    /\ receipt \in [signer : Users \cup {NoAccount}, result : Errors \cup {Ok}]

\* The accounts that user u passes to unlock its own lock.
OwnUnlock(u, ta, m) ==
    [signer |-> u, user |-> u, user_lock_info |-> u,
     user_token_account |-> ta, mint |-> m, owner |-> u]

\* Once user u has ever locked, the clock alone decides its unlock_tokens:
\* LockNotExpired before unlock_time, success from then on, whichever open
\* token account and mint are passed.  No sequence of locks and unlocks by
\* anyone leaves a record that its user can no longer release, and none
\* produces another error where the test expects the lock period's.
UnlockDecidedByClock ==
    \A u \in Users, ta \in TokenAccounts, m \in Mints :
        IsInitialized(u) /\ IsOpen(ta) =>
            UnlockTokensResult(OwnUnlock(u, ta, m)) =
                IF clock < user_lock_info[u].unlock_time
                  THEN "LockNotExpired" ELSE Ok

\* init_if_needed charges a user's rent once: however often it locks and
\* unlocks, and whatever the address held before, the account ends up with
\* the rent exemption and not a lamport more.
RentPaidOnce ==
    \A u \in Users : IsInitialized(u) => pda_lamports[u] = LOCK_INFO_RENT

\* A lock never reaches further than one lock duration ahead: locking again
\* restarts the period and does not add up, and a released record is empty.
DeadlineWithinPeriod ==
    \A u \in Users : IsInitialized(u) =>
        LET info == user_lock_info[u]
        IN  /\ info.unlock_time <= clock + LOCK_DURATION
            /\ info.unlock_time = 0 => info.locked_amount = 0

\* The owner that has_one compares is the user whose seed the address has.
OwnerIsSeed ==
    \A u \in Users : IsInitialized(u) => user_lock_info[u].owner = u

\* A program-derived address never holds more than its rent.
FundedWithinRent ==
    \A u \in Users : pda_lamports[u] <= LOCK_INFO_RENT

\* The inductive invariant behind the safety properties: on every reachable
\* ledger a record belongs to the user whose seed derives its address, has
\* its rent, and has a deadline at most one lock duration ahead.
IInv ==
    /\ TypeOK
    /\ OwnerIsSeed
    /\ FundedWithinRent
    /\ RentPaidOnce
    /\ DeadlineWithinPeriod

\* The record at a user's program-derived address changes only in a
\* transaction that this user signed, whatever accounts others pass.
ChangesAreSigned ==
    \A u \in Users :
        user_lock_info'[u] # user_lock_info[u] =>
            receipt'.signer = u /\ receipt'.result = Ok
OnlyOwnSignature == [][ChangesAreSigned]_vars

\* While a lock is in force its deadline is never brought forward: neither
\* unlock_tokens nor a second lock_tokens ends it, or makes it end, sooner.
DeadlinesAreKept ==
    \A u \in Users :
        IsInitialized(u) /\ clock < user_lock_info[u].unlock_time =>
            /\ IsInitialized(u)'
            /\ user_lock_info'[u].unlock_time >= user_lock_info[u].unlock_time
DeadlineNeverBroughtForward == [][DeadlinesAreKept]_vars

\* The hold that a user's record stands for.  unlock_tokens leaves a zero
\* unlock_time behind, which no lock writes.
Held ==
    [u \in Users |->
        IF ~IsInitialized(u) \/ user_lock_info[u].unlock_time = 0
          THEN NoAccount
          ELSE [quantity |-> user_lock_info[u].locked_amount,
                since    |-> user_lock_info[u].unlock_time - LOCK_DURATION]]

TL == INSTANCE TimeLock WITH
        Holders <- Users, Quantities <- Amount, Period <- LOCK_DURATION,
        NotHeld <- NoAccount, now <- clock, held <- Held

\* The program implements the abstract time lock: every successful
\* lock_tokens starts a full period at the time it executes, and a hold ends
\* only by an unlock_tokens a full period after the last lock_tokens.
ImplementsTimeLock == TL!Spec

-----------------------------------------------------------------------------
(***************************************************************************)
(* What the repository says of the program and the program does not do.    *)
(***************************************************************************)

\* "Fails to unlock tokens before lock period" (tests/blocklockcore.ts): no
\* part of a locked amount is given free before the lock's unlock_time.
AmountLockedUntilDeadline ==
    [][\A u \in Users :
         IsInitialized(u) /\ clock < user_lock_info[u].unlock_time =>
             user_lock_info'[u].locked_amount >=
                 user_lock_info[u].locked_amount]_vars

=============================================================================
