------------------------------ MODULE LockUsdc ------------------------------
(***************************************************************************)
(* The client script app/src/lock_usdc.js, composed with the ledger of     *)
(* BlocklockCore.  Several runs of main() proceed at once, each with the   *)
(* wallet of its key file; two runs may share a wallet.                    *)
(*                                                                         *)
(* A transaction is sent, executes on the ledger while its blockhash is    *)
(* recent or never, and is confirmed later; a run that waits for it may    *)
(* give up first, and then the transaction can still execute.  What a run  *)
(* reads is the ledger as of the last confirmed block, not the tip.        *)
(***************************************************************************)
EXTENDS BlocklockCore

CONSTANTS
    Runs,         \* executions of the script
    WalletOf,     \* the wallet each run loads from its key file
    USDC,         \* USDC_MINT_TESTNET
    LOCK_AMOUNT,  \* 100 * 1000000 in main()
    BLOCKHASH_TTL,\* how long a sent transaction can still execute
    LAST_SEND     \* bound: no lock is sent later than this

Instructions == {"create", "lock", "unlock"}

TxStates == {"unsent", "sent", "failed", "landed", "confirmed"}

ASSUME ClientAssumption ==
    /\ WalletOf \in [Runs -> Users]
    /\ USDC \in Mints
    /\ \A r \in Runs : <<WalletOf[r], USDC>> \in TokenAccounts
    /\ LOCK_AMOUNT \in Amount
    /\ BLOCKHASH_TTL \in Nat
    /\ LAST_SEND \in Nat

VARIABLES
    pc,              \* where each run of main() is
    tx,              \* state of each run's transaction of each kind, and the
                     \* time at which it was sent, or for a lock executed
    logged,          \* what lockUSDC of each run printed
    shown,           \* the unlock time checkLockStatus printed, 0 if none
    seen_lock_info,  \* user_lock_info as of the last confirmed block
    seen_ata         \* ata_lamports as of the last confirmed block

runVars == <<pc, logged, shown>>
seenVars == <<seen_lock_info, seen_ata>>
clientVars == <<pc, tx, logged, shown, seen_lock_info, seen_ata>>
allVars == <<vars, clientVars>>

Steps == {"checkAccountOwnership", "lockUSDC", "createAccount",
          "awaitCreate", "lockTokens", "awaitLock", "checkLockStatus",
          "unlockTokens", "awaitUnlock", "ended"}

Unsent == [state |-> "unsent", at |-> 0]

Ata(r) == <<WalletOf[r], USDC>>

\* .accounts({...}) of lockTokens and of unlockTokens.
LockContext(r) ==
    [signer |-> WalletOf[r], user |-> WalletOf[r],
     user_lock_info |-> WalletOf[r], user_token_account |-> Ata(r),
     mint |-> USDC]

UnlockContext(r) ==
    [signer |-> WalletOf[r], user |-> WalletOf[r],
     user_lock_info |-> WalletOf[r], user_token_account |-> Ata(r),
     mint |-> USDC, owner |-> WalletOf[r]]

-----------------------------------------------------------------------------
(***************************************************************************)
(* The script.                                                             *)
(***************************************************************************)

Goto(r, from, to) ==
    /\ pc[r] = from
    /\ pc' = [pc EXCEPT ![r] = to]

SetTx(r, ix, state, at) ==
    tx' = [tx EXCEPT ![r][ix] = [state |-> state, at |-> at]]

Send(r, ix) == SetTx(r, ix, "sent", clock)

\* checkAccountOwnership only reads and prints.
CheckAccountOwnership(r) ==
    /\ Goto(r, "checkAccountOwnership", "lockUSDC")
    /\ UNCHANGED <<vars, tx, logged, shown, seenVars>>

\* Without the test for a missing account.
LookUpAccountSkipped(r) ==
    /\ Goto(r, "lockUSDC", "lockTokens")
    /\ UNCHANGED <<vars, tx, logged, shown, seenVars>>

\* getAccountInfo of the associated token address: an address that holds
\* lamports counts as an existing account, whatever owns it.
LookUpAccount(r) ==
    /\ Goto(r, "lockUSDC",
            IF seen_ata[Ata(r)] = 0 THEN "createAccount" ELSE "lockTokens")
    /\ UNCHANGED <<vars, tx, logged, shown, seenVars>>

SendCreate(r) ==
    /\ Goto(r, "createAccount", "awaitCreate")
    /\ Send(r, "create")
    /\ UNCHANGED <<vars, logged, shown, seenVars>>

\* Without the await: the lock is sent while the account is being created.
CreateReturnsAtOnce(r) ==
    /\ Goto(r, "awaitCreate", "lockTokens")
    /\ UNCHANGED <<vars, tx, logged, shown, seenVars>>

\* await sendAndConfirmTransaction returns once the block is confirmed.
CreateReturns(r) ==
    /\ tx[r]["create"].state = "confirmed"
    /\ Goto(r, "awaitCreate", "lockTokens")
    /\ UNCHANGED <<vars, tx, logged, shown, seenVars>>

SendLock(r) ==
    /\ clock <= LAST_SEND
    /\ Goto(r, "lockTokens", "awaitLock")
    /\ Send(r, "lock")
    /\ UNCHANGED <<vars, logged, shown, seenVars>>

\* The provider waits for "processed" while fetch reads at "confirmed".
LockReturnsProcessed(r) ==
    /\ tx[r]["lock"].state \in {"landed", "confirmed"}
    /\ Goto(r, "awaitLock", "checkLockStatus")
    /\ logged' = [logged EXCEPT ![r] = "signature"]
    /\ UNCHANGED <<vars, tx, shown, seenVars>>

\* rpc() returns the signature once the block is confirmed.
LockReturns(r) ==
    /\ tx[r]["lock"].state = "confirmed"
    /\ Goto(r, "awaitLock", "checkLockStatus")
    /\ logged' = [logged EXCEPT ![r] = "signature"]
    /\ UNCHANGED <<vars, tx, shown, seenVars>>

\* A confirmation that never times out.
LockErrorsOnSend(r) ==
    /\ Goto(r, "lockTokens", "checkLockStatus")
    /\ logged' = [logged EXCEPT ![r] = "error"]
    /\ UNCHANGED <<vars, tx, shown, seenVars>>

\* Any error of rpc() is caught and printed, and main() goes on: the node's
\* simulation refuses the transaction, it cannot be sent, it fails on chain,
\* or its confirmation does not arrive in time.
LockErrors(r) ==
    /\ \/ Goto(r, "lockTokens", "checkLockStatus")
       \/ Goto(r, "awaitLock", "checkLockStatus")
    /\ logged' = [logged EXCEPT ![r] = "error"]
    /\ UNCHANGED <<vars, tx, shown, seenVars>>

\* fetch(userLockInfoPDA) prints the confirmed record, or fails and prints
\* an error.
CheckLockStatus(r) ==
    /\ Goto(r, "checkLockStatus", "unlockTokens")
    /\ \/ /\ seen_lock_info[WalletOf[r]] # NoAccount
          /\ shown' = [shown EXCEPT
                         ![r] = seen_lock_info[WalletOf[r]].unlock_time]
       \/ UNCHANGED shown
    /\ UNCHANGED <<vars, tx, logged, seenVars>>

SendUnlock(r) ==
    /\ Goto(r, "unlockTokens", "awaitUnlock")
    /\ Send(r, "unlock")
    /\ UNCHANGED <<vars, logged, shown, seenVars>>

UnlockReturns(r) ==
    /\ tx[r]["unlock"].state = "confirmed"
    /\ Goto(r, "awaitUnlock", "ended")
    /\ UNCHANGED <<vars, tx, logged, shown, seenVars>>

UnlockErrors(r) ==
    /\ \/ Goto(r, "unlockTokens", "ended")
       \/ Goto(r, "awaitUnlock", "ended")
    /\ UNCHANGED <<vars, tx, logged, shown, seenVars>>

\* An error outside the try blocks (the first reads, the key file, the
\* creation of the token account and its confirmation) rejects main().
Throws(r) ==
    /\ pc[r] \in {"checkAccountOwnership", "lockUSDC", "createAccount",
                  "awaitCreate", "checkLockStatus", "unlockTokens"}
    /\ pc' = [pc EXCEPT ![r] = "ended"]
    /\ UNCHANGED <<vars, tx, logged, shown, seenVars>>

\* The process is stopped from outside, wherever it is.
Killed(r) ==
    /\ pc[r] # "ended"
    /\ pc' = [pc EXCEPT ![r] = "ended"]
    /\ UNCHANGED <<vars, tx, logged, shown, seenVars>>

RunStep(r) ==
    \/ CheckAccountOwnership(r)
    \/ LookUpAccount(r)
    \/ SendCreate(r)
    \/ CreateReturns(r)
    \/ SendLock(r)
    \/ LockReturns(r)
    \/ LockErrors(r)
    \/ CheckLockStatus(r)
    \/ SendUnlock(r)
    \/ UnlockReturns(r)
    \/ UnlockErrors(r)
    \/ Throws(r)

-----------------------------------------------------------------------------
(***************************************************************************)
(* The cluster, as the script depends on it.                               *)
(***************************************************************************)

\* A transaction executes at most once, while its blockhash is recent.  One
\* that is lost stays "sent" and never executes.
Executable(r, ix) ==
    /\ tx[r][ix].state = "sent"
    /\ clock <= tx[r][ix].at + BLOCKHASH_TTL

Landed(r, ix) == SetTx(r, ix, "landed", IF ix = "lock" THEN clock ELSE 0)

Failed(r, ix) == SetTx(r, ix, "failed", 0)

ExecuteCreate(r) ==
    /\ Executable(r, "create")
    /\ \/ CreateTokenAccount(WalletOf[r], Ata(r)) /\ Landed(r, "create")
       \/ /\ ~CreateTokenAccountAllowed(WalletOf[r], Ata(r))
          /\ Failed(r, "create")
          /\ UNCHANGED vars
    /\ UNCHANGED <<runVars, seenVars>>

ExecuteLock(r) ==
    /\ Executable(r, "lock")
    /\ \/ LockTokens(LockContext(r), LOCK_AMOUNT) /\ Landed(r, "lock")
       \/ LockTokensFails(LockContext(r)) /\ Failed(r, "lock")
    /\ UNCHANGED <<runVars, seenVars>>

ExecuteUnlock(r) ==
    /\ Executable(r, "unlock")
    /\ \/ UnlockTokens(UnlockContext(r)) /\ Landed(r, "unlock")
       \/ UnlockTokensFails(UnlockContext(r)) /\ Failed(r, "unlock")
    /\ UNCHANGED <<runVars, seenVars>>

\* The cluster confirms its blocks up to the tip: what executed becomes
\* visible to reads, and the runs that wait for it can learn of it.
Confirm ==
    /\ seen_lock_info' = user_lock_info
    /\ seen_ata' = ata_lamports
    /\ tx' = [r \in Runs |-> [ix \in Instructions |->
                IF tx[r][ix].state = "landed"
                  THEN [state |-> "confirmed", at |-> tx[r][ix].at]
                  ELSE tx[r][ix]]]
    /\ UNCHANGED <<vars, runVars>>

-----------------------------------------------------------------------------
ClientInit ==
    /\ Init
    /\ pc = [r \in Runs |-> "checkAccountOwnership"]
    /\ tx = [r \in Runs |-> [ix \in Instructions |-> Unsent]]
    /\ logged = [r \in Runs |-> "nothing"]
    /\ shown = [r \in Runs |-> 0]
    /\ seen_lock_info = user_lock_info
    /\ seen_ata = ata_lamports

ClientNext ==
    \/ \E r \in Runs :
         \/ RunStep(r)
         \/ Killed(r)
         \/ ExecuteCreate(r)
         \/ ExecuteLock(r)
         \/ ExecuteUnlock(r)
    \/ Confirm
    \/ Environment /\ UNCHANGED clientVars

ClientSpec == ClientInit /\ [][ClientNext]_allVars

\* Every await of the script settles: the JSON-RPC client answers or times
\* out.  Nothing makes a sent transaction execute, or confirms it.
Fairness == \A r \in Runs : WF_allVars(RunStep(r))

FairClientSpec == ClientSpec /\ Fairness

-----------------------------------------------------------------------------
(***************************************************************************)
(* Properties.                                                             *)
(***************************************************************************)

\* The client's variables have their types.
ClientTypeOK ==
    /\ pc \in [Runs -> Steps]
    /\ tx \in [Runs -> [Instructions -> [state : TxStates, at : 0..MaxTime]]]
    /\ logged \in [Runs -> {"nothing", "signature", "error"}]
    /\ shown \in [Runs -> 0..I64Max]
    /\ seen_lock_info \in [Users -> UserLockInfo \cup {NoAccount}]
    /\ seen_ata \in [TokenAccounts -> Nat]

\* A run that printed its lock's signature can rely on it for the whole lock
\* period from the moment it executed: no other run, and no transaction that
\* executes late, takes the lock away or shortens it.
PrintedLockLasts ==
    \A r \in Runs :
        /\ logged[r] = "signature"
        /\ clock < tx[r]["lock"].at + LOCK_DURATION
        => /\ IsInitialized(WalletOf[r])
           /\ user_lock_info[WalletOf[r]].locked_amount = LOCK_AMOUNT
           /\ user_lock_info[WalletOf[r]].unlock_time >=
                tx[r]["lock"].at + LOCK_DURATION

\* The unlock time that checkLockStatus printed, though read from a confirmed
\* block behind the tip, stays a lower bound until it passes: whatever else
\* executes, the wallet is not free before the time its user was shown.
ShownTimeHolds ==
    \A r \in Runs : clock < shown[r] =>
        /\ IsInitialized(WalletOf[r])
        /\ user_lock_info[WalletOf[r]].unlock_time >= shown[r]

\* A run reads its own write: the unlock time it prints after its lock's
\* signature is that of its own lock or of a later one, though the signature
\* and the record come from separate requests.  0 is a lock released since.
ShownIncludesOwnLock ==
    \A r \in Runs :
        logged[r] = "signature" /\ shown[r] # 0 =>
            shown[r] >= tx[r]["lock"].at + LOCK_DURATION

BeforeLock == {"checkAccountOwnership", "lockUSDC", "createAccount",
               "awaitCreate", "lockTokens"}

\* main() sends its lock once, and prints a signature only for a confirmed
\* lock, before any status.
RunOrder ==
    \A r \in Runs :
        /\ pc[r] \in BeforeLock => tx[r]["lock"].state = "unsent"
        /\ pc[r] \in BeforeLock \cup {"awaitLock"} =>
             logged[r] = "nothing" /\ shown[r] = 0
        /\ logged[r] = "signature" => tx[r]["lock"].state = "confirmed"

\* What a run has seen or created at its token account's address is there.
AccountExists ==
    /\ \A ta \in TokenAccounts : seen_ata[ta] # 0 => ata_lamports[ta] # 0
    /\ \A r \in Runs :
         \/ tx[r]["create"].state \in {"landed", "confirmed"}
         \/ pc[r] = "lockTokens"
         \/ tx[r]["lock"].state = "sent"
         => ata_lamports[Ata(r)] # 0

\* A record with a deadline of at least t, or released since.
ReachesOrReleased(info, t) == info.unlock_time = 0 \/ info.unlock_time >= t

\* A lock that wallet w made at time t is in force for the whole period, and
\* until it is released the wallet's deadline is no earlier than its own.
LockHolds(w, t) ==
    LET info == user_lock_info[w]
    IN  /\ IsInitialized(w)
        /\ t <= clock
        /\ ReachesOrReleased(info, t + LOCK_DURATION)
        /\ clock < t + LOCK_DURATION =>
             /\ info.unlock_time >= t + LOCK_DURATION
             /\ info.locked_amount = LOCK_AMOUNT

\* Every lock of the script that executed holds.
LandedLocks ==
    \A r \in Runs : tx[r]["lock"].state \in {"landed", "confirmed"} =>
        LockHolds(WalletOf[r], tx[r]["lock"].at)

\* A confirmed record is a lower bound for the record at the tip, and
\* includes every lock confirmed so far.
SeenRecords ==
    /\ \A u \in Users :
         /\ seen_lock_info[u] # NoAccount
         /\ clock < seen_lock_info[u].unlock_time
         => /\ IsInitialized(u)
            /\ user_lock_info[u].unlock_time >= seen_lock_info[u].unlock_time
    /\ \A r \in Runs : tx[r]["lock"].state = "confirmed" =>
         /\ seen_lock_info[WalletOf[r]] # NoAccount
         /\ ReachesOrReleased(seen_lock_info[WalletOf[r]],
                              tx[r]["lock"].at + LOCK_DURATION)

\* The inductive invariant of the composition: how far a run has come, what
\* it has printed and what is confirmed agree with the ledger at the tip.
ClientInv ==
    /\ ClientTypeOK
    /\ RunOrder
    /\ AccountExists
    /\ LandedLocks
    /\ SeenRecords
    /\ ShownTimeHolds
    /\ ShownIncludesOwnLock

\* unlockUSDC, which main() sends right after a lock whose failure it
\* ignores, never undoes a lock of that wallet younger than the lock period,
\* be it the run's own or one of another run.
UnlocksOldLocks ==
    \A r, q \in Runs :
        /\ tx[r]["unlock"].state = "sent"
        /\ tx'[r]["unlock"].state = "landed"
        /\ WalletOf[q] = WalletOf[r]
        /\ tx[q]["lock"].state \in {"landed", "confirmed"}
        => clock >= tx[q]["lock"].at + LOCK_DURATION
UnlocksOnlyOldLocks == [][UnlocksOldLocks]_allVars

\* The script never sends a lock to the ledger before the token account's
\* address exists there, and its accounts always fit the program's
\* constraints: only a missing rent, or an address that holds lamports but no
\* token account, makes lock_tokens fail.
FailuresAreExplained ==
    \A r \in Runs :
        tx[r]["lock"].state = "sent" /\ tx'[r]["lock"].state = "failed" =>
            receipt'.result \in {"InsufficientFunds",
                                 "AccountOwnedByWrongProgram"}
LockFailureReasons == [][FailuresAreExplained]_allVars

\* Every run of main() comes to an end, whatever happens to its transactions.
RunsEnd == <>(\A r \in Runs : pc[r] = "ended")

\* "Lock 100 USDC" (app/src/lock_usdc.js): while a lock is in force, its
\* wallet's token account holds the locked amount.
LockedUsdcIsHeld ==
    \A r \in Runs :
        /\ IsInitialized(WalletOf[r])
        /\ clock < user_lock_info[WalletOf[r]].unlock_time
        => /\ IsOpen(Ata(r))
           /\ token[Ata(r)] >= user_lock_info[WalletOf[r]].locked_amount

=============================================================================
