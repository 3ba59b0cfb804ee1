--------------------------- MODULE LockUsdcProofs ---------------------------
(***************************************************************************)
(* Proofs about LockUsdc: for any number of runs of the script, on any     *)
(* wallets, with any blockhash lifetime.                                   *)
(***************************************************************************)
EXTENDS LockUsdc, BlocklockCoreProofs

(***************************************************************************)
(* The runs do to the ledger only what BlocklockCore allows.               *)
(***************************************************************************)

\* The accounts the script passes are among those a caller can choose.
LEMMA ScriptContexts ==
    ASSUME NEW r \in Runs
    PROVE  /\ WalletOf[r] \in Users
           /\ Ata(r) \in TokenAccounts
           /\ LockContext(r) \in LockTokensContext
           /\ UnlockContext(r) \in UnlockTokensContext
    BY ClientAssumption
    DEF LockContext, UnlockContext, LockTokensContext, UnlockTokensContext, Ata

\* Every action of the script leaves the ledger alone.
LEMMA RunStepLedger ==
    ASSUME NEW r \in Runs, RunStep(r) \/ Killed(r)
    PROVE  UNCHANGED vars /\ UNCHANGED seenVars
    BY DEF RunStep, Killed, CheckAccountOwnership, LookUpAccount, SendCreate,
           CreateReturns, SendLock, LockReturns, LockErrors, CheckLockStatus,
           SendUnlock, UnlockReturns, UnlockErrors, Throws

\* Every step of the composition is a step of the ledger or leaves it alone.
LEMMA ClientStepsCore == [ClientNext]_allVars => [Next]_vars
  <1> SUFFICES ASSUME [ClientNext]_allVars PROVE [Next]_vars
    OBVIOUS
  <1>1. ASSUME NEW r \in Runs, RunStep(r) \/ Killed(r) PROVE [Next]_vars
    BY <1>1, RunStepLedger
  <1>2. ASSUME NEW r \in Runs, ExecuteCreate(r) PROVE [Next]_vars
    BY <1>2, ScriptContexts DEF ExecuteCreate, Next, Environment
  <1>3. ASSUME NEW r \in Runs, ExecuteLock(r) PROVE [Next]_vars
    BY <1>3, ScriptContexts, ClientAssumption DEF ExecuteLock, Next, Program
  <1>4. ASSUME NEW r \in Runs, ExecuteUnlock(r) PROVE [Next]_vars
    BY <1>4, ScriptContexts DEF ExecuteUnlock, Next, Program
  <1>5. CASE Confirm
    BY <1>5 DEF Confirm
  <1>6. CASE Environment /\ UNCHANGED clientVars
    BY <1>6 DEF Next
  <1>7. CASE UNCHANGED allVars
    BY <1>7 DEF allVars
  <1> QED
    BY <1>1, <1>2, <1>3, <1>4, <1>5, <1>6, <1>7 DEF ClientNext

\* Runs of the script, with all that can happen to their transactions, are
\* behaviours of BlocklockCore: every theorem about Spec holds of them.
LEMMA RunsAreCore == ClientSpec => Spec
  <1>1. ClientInit => Init
    BY DEF ClientInit
  <1> QED
    BY <1>1, ClientStepsCore, PTL DEF ClientSpec, Spec

\* In particular the ledger's inductive invariant holds of them.
LEMMA CoreInvariant == ClientSpec => []IInv
  BY RunsAreCore, InvariantHolds, PTL

-----------------------------------------------------------------------------
(***************************************************************************)
(* What no step of the ledger undoes.                                      *)
(***************************************************************************)

\* Time does not go back, records are not removed, deadlines in force are
\* kept, and an address that holds lamports keeps them.
LEMMA LedgerOnlyGrows ==
    ASSUME IInv, [Next]_vars
    PROVE  /\ clock' >= clock
           /\ \A u \in Users : IsInitialized(u) => IsInitialized(u)'
           /\ DeadlinesAreKept
           /\ \A ta \in TokenAccounts :
                ata_lamports[ta] # 0 => ata_lamports'[ta] # 0
  <1> USE ConstantsAssumption
  <1>1. TypeOK /\ TypeOK'
    BY StepInv DEF IInv
  <1>2. clock' >= clock
    BY <1>1 DEF TypeOK, Next, Program, Environment, LockTokens, UnlockTokens,
       LockTokensFails, UnlockTokensFails, Tick, FundLockInfo,
       FundTokenAccount, CreateTokenAccount, MintTo, TokenTransfer, vars
  <1>3. ASSUME NEW u \in Users, IsInitialized(u) PROVE IsInitialized(u)'
    <2>1. user_lock_info[u] \in UserLockInfo
      BY <1>1, <1>3 DEF TypeOK, IsInitialized
    <2>2. CASE UNCHANGED user_lock_info
      BY <1>3, <2>2 DEF IsInitialized
    <2>3. ASSUME NEW ctx \in LockTokensContext, NEW amount \in Amount,
                 LockTokens(ctx, amount)
          PROVE  IsInitialized(u)'
      <3>1. LockedInfo(ctx, amount) # NoAccount
        <4>1. LockedInfo(ctx, amount) \in UserLockInfo
          BY <1>1, LockedInfoType DEF TypeOK
        <4> QED
          BY <4>1, NoAccountAssumption
      <3> QED
        BY <1>1, <1>3, <2>3, <3>1 DEF LockTokens, TypeOK, IsInitialized
    <2>4. ASSUME NEW ctx \in UnlockTokensContext, UnlockTokens(ctx)
          PROVE  IsInitialized(u)'
      <3>1. ctx.user_lock_info \in Users
        BY DEF UnlockTokensContext
      <3>2. user_lock_info' = [user_lock_info EXCEPT ![ctx.user_lock_info] =
              UnlockedInfo(user_lock_info[ctx.user_lock_info])]
        BY <2>4 DEF UnlockTokens
      <3>3. UnlockedInfo(user_lock_info[u]) # NoAccount
        <4>1. UnlockedInfo(user_lock_info[u]) \in UserLockInfo
          BY <2>1, UnlockedInfoFacts
        <4> QED
          BY <4>1, NoAccountAssumption
      <3> QED
        BY <1>1, <1>3, <3>1, <3>2, <3>3 DEF TypeOK, IsInitialized
    <2> QED
      BY <2>2, <2>3, <2>4, RecordChanges
  <1>4. ASSUME NEW ta \in TokenAccounts, ata_lamports[ta] # 0
        PROVE  ata_lamports'[ta] # 0
    <2>1. CASE UNCHANGED ata_lamports
      BY <1>4, <2>1
    <2>2. ASSUME NEW w \in Users, NEW tb \in TokenAccounts,
                 NEW n \in 1..TOKEN_RENT, FundTokenAccount(w, tb, n)
          PROVE  ata_lamports'[ta] # 0
      BY <1>1, <1>4, <2>2 DEF FundTokenAccount, TypeOK
    <2>3. ASSUME NEW w \in Users, NEW tb \in TokenAccounts,
                 CreateTokenAccount(w, tb)
          PROVE  ata_lamports'[ta] # 0
      <3>1. ata_lamports[tb] \in Nat /\ ata_lamports[ta] \in Nat
        BY <1>1 DEF TypeOK
      <3>2. RentDue(TOKEN_RENT, ata_lamports[tb]) \in Nat
        BY <3>1, RentDueFacts
      <3> QED
        BY <1>1, <1>4, <2>3, <3>1, <3>2 DEF CreateTokenAccount, TypeOK
    <2> QED
      BY <2>1, <2>2, <2>3
      DEF Next, Program, Environment, LockTokens, UnlockTokens,
          LockTokensFails, UnlockTokensFails, Tick, FundLockInfo, MintTo,
          TokenTransfer, vars, ledger
  <1> QED
    BY <1>2, <1>3, <1>4, StepKeepsDeadlines

\* The records change only by the script's own instructions.
LEMMA ClientRecordChanges ==
    ASSUME [ClientNext]_allVars
    PROVE  \/ UNCHANGED user_lock_info
           \/ \E r \in Runs : LockTokens(LockContext(r), LOCK_AMOUNT)
           \/ \E r \in Runs : UnlockTokens(UnlockContext(r))
  <1>1. ASSUME NEW r \in Runs, RunStep(r) \/ Killed(r)
        PROVE  UNCHANGED user_lock_info
    BY <1>1, RunStepLedger DEF vars
  <1>2. ASSUME NEW r \in Runs, ExecuteCreate(r)
        PROVE  UNCHANGED user_lock_info
    BY <1>2 DEF ExecuteCreate, CreateTokenAccount, vars
  <1>3. ASSUME NEW r \in Runs, ExecuteLock(r)
        PROVE  \/ UNCHANGED user_lock_info
               \/ LockTokens(LockContext(r), LOCK_AMOUNT)
    BY <1>3 DEF ExecuteLock, LockTokensFails, ledger
  <1>4. ASSUME NEW r \in Runs, ExecuteUnlock(r)
        PROVE  \/ UNCHANGED user_lock_info
               \/ UnlockTokens(UnlockContext(r))
    BY <1>4 DEF ExecuteUnlock, UnlockTokensFails, ledger
  <1>5. CASE Confirm \/ UNCHANGED allVars
    BY <1>5 DEF Confirm, allVars, vars
  <1>6. CASE Environment
    BY <1>6 DEF Environment, Tick, FundLockInfo, FundTokenAccount,
       CreateTokenAccount, MintTo, TokenTransfer, ledger
  <1> QED
    BY <1>1, <1>2, <1>3, <1>4, <1>5, <1>6 DEF ClientNext

\* A lock that holds goes on holding: another lock of the same wallet has the
\* same amount and a deadline no earlier, and an unlock comes after the
\* deadline.
LEMMA LockGoesOnHolding ==
    ASSUME IInv, [ClientNext]_allVars, NEW w \in Users, NEW t \in Nat,
           LockHolds(w, t)
    PROVE  LockHolds(w, t)'
  <1> USE ConstantsAssumption
  <1>1. TypeOK /\ TypeOK' /\ clock' >= clock /\ IsInitialized(w)'
    BY ClientStepsCore, LedgerOnlyGrows, StepInv DEF IInv, LockHolds
  <1>2. /\ clock \in Nat /\ clock' \in Nat
        /\ user_lock_info[w] \in UserLockInfo
        /\ user_lock_info[w].unlock_time \in Nat
    BY <1>1 DEF TypeOK, LockHolds, IsInitialized, UserLockInfo
  <1>3. CASE user_lock_info'[w] = user_lock_info[w]
    BY <1>1, <1>2, <1>3 DEF LockHolds, ReachesOrReleased
  <1>4. ASSUME NEW r \in Runs, LockTokens(LockContext(r), LOCK_AMOUNT),
               user_lock_info'[w] # user_lock_info[w]
        PROVE  LockHolds(w, t)'
    <2>1. user_lock_info'[w] = LockedInfo(LockContext(r), LOCK_AMOUNT)
      BY <1>1, <1>4 DEF LockTokens, TypeOK
    <2>2. clock' = clock
      BY <1>4 DEF LockTokens
    <2> QED
      BY <1>1, <1>2, <2>1, <2>2
      DEF LockHolds, ReachesOrReleased, LockedInfo
  <1>5. ASSUME NEW r \in Runs, UnlockTokens(UnlockContext(r)),
               user_lock_info'[w] # user_lock_info[w]
        PROVE  LockHolds(w, t)'
    <2>1. UnlockContext(r) \in UnlockTokensContext
      BY ScriptContexts
    <2>2. /\ UnlockContext(r).user_lock_info = w
          /\ user_lock_info'[w] = UnlockedInfo(user_lock_info[w])
      BY <1>1, <1>5 DEF UnlockTokens, TypeOK
    <2>3. clock >= user_lock_info[w].unlock_time
      BY <1>5, <2>1, <2>2, UnlockTokensOk DEF UnlockTokens
    <2>4. user_lock_info'[w].unlock_time = 0
      BY <1>2, <2>2, UnlockedInfoFacts
    <2>5. clock' = clock
      BY <1>5 DEF UnlockTokens
    <2> QED
      BY <1>1, <1>2, <2>3, <2>4, <2>5 DEF LockHolds, ReachesOrReleased
  <1> QED
    BY <1>3, <1>4, <1>5, ClientRecordChanges

-----------------------------------------------------------------------------
(***************************************************************************)
(* The inductive invariant of the composition.                             *)
(***************************************************************************)

\* A step of a run that only moves its pc keeps the parts that do not
\* mention the pc.
LEMMA PcOnly ==
    ASSUME ClientInv, UNCHANGED <<vars, tx, logged, shown, seenVars>>,
           NEW r \in Runs, NEW to \in Steps, pc' = [pc EXCEPT ![r] = to],
           to \in BeforeLock => pc[r] \in BeforeLock,
           to = "awaitLock" => pc[r] = "awaitLock",
           to = "lockTokens" => ata_lamports[Ata(r)] # 0
    PROVE  ClientInv'
  <1>1. ClientTypeOK'
    BY DEF ClientInv, ClientTypeOK, seenVars
  <1>2. RunOrder'
    BY DEF ClientInv, ClientTypeOK, RunOrder, BeforeLock
  <1>3. AccountExists'
    BY DEF ClientInv, ClientTypeOK, AccountExists, Ata, seenVars, vars
  <1>4. LandedLocks' /\ SeenRecords'
    BY DEF ClientInv, LandedLocks, LockHolds, SeenRecords,
           ReachesOrReleased, IsInitialized, seenVars, vars
  <1>5. ShownTimeHolds' /\ ShownIncludesOwnLock'
    BY DEF ClientInv, ShownTimeHolds, ShownIncludesOwnLock, IsInitialized, vars
  <1> QED
    BY <1>1, <1>2, <1>3, <1>4, <1>5 DEF ClientInv

TxType == [state : TxStates, at : 0..MaxTime]

\* The three kinds of transactions.
LEMMA Kinds == /\ "create" \in Instructions
               /\ "lock" \in Instructions
               /\ "unlock" \in Instructions
    BY DEF Instructions

\* What assigning one transaction of one run does to the others: nothing.
LEMMA TxUpdate ==
    ASSUME ClientTypeOK, NEW r \in Runs, NEW ix \in Instructions,
           NEW st \in TxStates, NEW t \in 0..MaxTime, SetTx(r, ix, st, t)
    PROVE  /\ tx' \in [Runs -> [Instructions -> TxType]]
           /\ tx'[r][ix].state = st /\ tx'[r][ix].at = t
           /\ \A q \in Runs :
                q # r \/ ix # "create" => tx'[q]["create"] = tx[q]["create"]
           /\ \A q \in Runs :
                q # r \/ ix # "lock" => tx'[q]["lock"] = tx[q]["lock"]
           /\ \A q \in Runs :
                q # r \/ ix # "unlock" => tx'[q]["unlock"] = tx[q]["unlock"]
  <1> DEFINE rec == [state |-> st, at |-> t]
  <1>1. tx \in [Runs -> [Instructions -> TxType]]
    BY DEF ClientTypeOK, TxType
  <1>2. rec \in TxType /\ rec.state = st /\ rec.at = t
    BY DEF TxType
  <1>3. tx' = [tx EXCEPT ![r] = [tx[r] EXCEPT ![ix] = rec]]
    BY DEF SetTx
  <1> HIDE DEF rec
  <1>4. [tx[r] EXCEPT ![ix] = rec] \in [Instructions -> TxType]
    BY <1>1, <1>2
  <1>5. tx' \in [Runs -> [Instructions -> TxType]]
    BY <1>1, <1>3, <1>4
  <1>6. tx'[r] = [tx[r] EXCEPT ![ix] = rec]
    BY <1>1, <1>3
  <1>7. \A q \in Runs : q # r => tx'[q] = tx[q]
    BY <1>1, <1>3
  <1>8. tx'[r][ix] = rec
    BY <1>1, <1>6
  <1>9. \A iy \in Instructions : iy # ix => tx'[r][iy] = tx[r][iy]
    BY <1>1, <1>6
  <1> QED
    BY <1>2, <1>5, <1>7, <1>8, <1>9, Kinds

\* The states and times that are assigned are among the types.
LEMMA TxValues ==
    ASSUME TypeOK
    PROVE  /\ "sent" \in TxStates /\ "landed" \in TxStates
           /\ "failed" \in TxStates
           /\ clock \in 0..MaxTime /\ 0 \in 0..MaxTime
    BY ConstantsAssumption DEF TypeOK, TxStates

\* Every step of a run keeps the invariant.
LEMMA RunStepInv ==
    ASSUME IInv, ClientInv, NEW r \in Runs, RunStep(r) \/ Killed(r)
    PROVE  ClientInv'
  <1> USE ConstantsAssumption, ClientAssumption
  <1>1. CASE CheckAccountOwnership(r)
    BY <1>1, PcOnly DEF CheckAccountOwnership, Goto, Steps, BeforeLock
  <1>2. CASE LookUpAccount(r)
    <2>1. seen_ata[Ata(r)] # 0 => ata_lamports[Ata(r)] # 0
      BY ScriptContexts DEF ClientInv, AccountExists
    <2>2. CASE seen_ata[Ata(r)] = 0
      BY <1>2, <2>2, PcOnly DEF LookUpAccount, Goto, Steps, BeforeLock
    <2>3. CASE seen_ata[Ata(r)] # 0
      BY <1>2, <2>1, <2>3, PcOnly DEF LookUpAccount, Goto, Steps, BeforeLock
    <2> QED
      BY <2>2, <2>3
  <1>3. CASE CreateReturns(r)
    <2>1. ata_lamports[Ata(r)] # 0
      BY <1>3 DEF CreateReturns, ClientInv, AccountExists
    <2> QED
      BY <1>3, <2>1, PcOnly DEF CreateReturns, Goto, Steps, BeforeLock
  <1>4. CASE UnlockReturns(r) \/ UnlockErrors(r) \/ Throws(r) \/ Killed(r)
    BY <1>4, PcOnly
    DEF UnlockReturns, UnlockErrors, Throws, Killed, Goto, Steps, BeforeLock
  <1>5. CASE SendCreate(r)
    <2>1. /\ pc[r] = "createAccount" /\ pc' = [pc EXCEPT ![r] = "awaitCreate"]
          /\ UNCHANGED <<vars, logged, shown, seenVars>>
      BY <1>5 DEF SendCreate, Goto
    <2>2. SetTx(r, "create", "sent", clock)
      BY <1>5 DEF SendCreate, Send
    <2>4. /\ tx' \in [Runs -> [Instructions -> TxType]]
          /\ tx'[r]["create"].state = "sent"
          /\ \A q \in Runs : q # r => tx'[q]["create"] = tx[q]["create"]
          /\ \A q \in Runs : tx'[q]["lock"] = tx[q]["lock"]
      BY <2>2, TxUpdate, TxValues, Kinds DEF ClientInv, IInv
    <2>5. ClientTypeOK'
      BY <2>1, <2>4 DEF ClientInv, ClientTypeOK, TxType, Steps, seenVars
    <2>6. RunOrder'
      BY <2>1, <2>4 DEF ClientInv, ClientTypeOK, RunOrder, BeforeLock
    <2>7. AccountExists'
      BY <2>1, <2>4
      DEF ClientInv, ClientTypeOK, AccountExists, Ata, seenVars, vars
    <2>8. LandedLocks' /\ SeenRecords'
      BY <2>1, <2>4 DEF ClientInv, LandedLocks, LockHolds, SeenRecords,
                         ReachesOrReleased, IsInitialized, seenVars, vars
    <2>9. ShownTimeHolds' /\ ShownIncludesOwnLock'
      BY <2>1, <2>4 DEF ClientInv, ShownTimeHolds, ShownIncludesOwnLock,
                         IsInitialized, vars
    <2> QED
      BY <2>5, <2>6, <2>7, <2>8, <2>9 DEF ClientInv
  <1>6. CASE SendLock(r)
    <2>1. /\ pc[r] = "lockTokens" /\ pc' = [pc EXCEPT ![r] = "awaitLock"]
          /\ UNCHANGED <<vars, logged, shown, seenVars>>
      BY <1>6 DEF SendLock, Goto
    <2>2. SetTx(r, "lock", "sent", clock)
      BY <1>6 DEF SendLock, Send
    <2>5. /\ tx' \in [Runs -> [Instructions -> TxType]]
          /\ tx'[r]["lock"].state = "sent"
          /\ \A q \in Runs : q # r => tx'[q]["lock"] = tx[q]["lock"]
          /\ \A q \in Runs : tx'[q]["create"] = tx[q]["create"]
      BY <2>2, TxUpdate, TxValues, Kinds DEF ClientInv, IInv
    <2>6. /\ tx[r]["lock"].state = "unsent"
          /\ logged[r] = "nothing" /\ shown[r] = 0
      BY <2>1 DEF ClientInv, RunOrder, BeforeLock
    <2>7. ClientTypeOK'
      BY <2>1, <2>5 DEF ClientInv, ClientTypeOK, TxType, Steps, seenVars
    <2>8. RunOrder'
      BY <2>1, <2>5, <2>6 DEF ClientInv, ClientTypeOK, RunOrder, BeforeLock
    <2>9. AccountExists'
      BY <2>1, <2>5
      DEF ClientInv, ClientTypeOK, AccountExists, Ata, seenVars, vars
    <2>10. LandedLocks' /\ SeenRecords'
      BY <2>1, <2>5 DEF ClientInv, LandedLocks, LockHolds, SeenRecords,
                         ReachesOrReleased, IsInitialized, seenVars, vars
    <2>11. ShownTimeHolds' /\ ShownIncludesOwnLock'
      BY <2>1, <2>5, <2>6 DEF ClientInv, ShownTimeHolds,
                         ShownIncludesOwnLock, IsInitialized, vars
    <2> QED
      BY <2>7, <2>8, <2>9, <2>10, <2>11 DEF ClientInv
  <1>7. CASE SendUnlock(r)
    <2>1. /\ pc[r] = "unlockTokens" /\ pc' = [pc EXCEPT ![r] = "awaitUnlock"]
          /\ UNCHANGED <<vars, logged, shown, seenVars>>
      BY <1>7 DEF SendUnlock, Goto
    <2>2. SetTx(r, "unlock", "sent", clock)
      BY <1>7 DEF SendUnlock, Send
    <2>4. /\ tx' \in [Runs -> [Instructions -> TxType]]
          /\ \A q \in Runs : /\ tx'[q]["lock"] = tx[q]["lock"]
                             /\ tx'[q]["create"] = tx[q]["create"]
      BY <2>2, TxUpdate, TxValues, Kinds DEF ClientInv, IInv
    <2>5. ClientTypeOK'
      BY <2>1, <2>4 DEF ClientInv, ClientTypeOK, TxType, Steps, seenVars
    <2>6. RunOrder'
      BY <2>1, <2>4 DEF ClientInv, ClientTypeOK, RunOrder, BeforeLock
    <2>7. AccountExists'
      BY <2>1, <2>4
      DEF ClientInv, ClientTypeOK, AccountExists, Ata, seenVars, vars
    <2>8. LandedLocks' /\ SeenRecords'
      BY <2>1, <2>4 DEF ClientInv, LandedLocks, LockHolds, SeenRecords,
                         ReachesOrReleased, IsInitialized, seenVars, vars
    <2>9. ShownTimeHolds' /\ ShownIncludesOwnLock'
      BY <2>1, <2>4 DEF ClientInv, ShownTimeHolds, ShownIncludesOwnLock,
                         IsInitialized, vars
    <2> QED
      BY <2>5, <2>6, <2>7, <2>8, <2>9 DEF ClientInv
  <1>8. CASE LockReturns(r) \/ LockErrors(r)
    <2>1. /\ pc[r] \in {"lockTokens", "awaitLock"}
          /\ pc' = [pc EXCEPT ![r] = "checkLockStatus"]
          /\ UNCHANGED <<vars, tx, shown, seenVars>>
      BY <1>8 DEF LockReturns, LockErrors, Goto
    <2>2. PICK text \in {"signature", "error"} :
            /\ logged' = [logged EXCEPT ![r] = text]
            /\ text = "signature" => tx[r]["lock"].state = "confirmed"
      BY <1>8 DEF LockReturns, LockErrors
    <2>3. shown[r] = 0
      BY <2>1 DEF ClientInv, RunOrder, BeforeLock
    <2>4. ClientTypeOK'
      BY <2>1, <2>2 DEF ClientInv, ClientTypeOK, Steps, seenVars
    <2>5. RunOrder'
      BY <2>1, <2>2 DEF ClientInv, ClientTypeOK, RunOrder, BeforeLock
    <2>6. AccountExists'
      BY <2>1
      DEF ClientInv, ClientTypeOK, AccountExists, Ata, seenVars, vars
    <2>7. LandedLocks' /\ SeenRecords'
      BY <2>1 DEF ClientInv, LandedLocks, LockHolds, SeenRecords,
                   ReachesOrReleased, IsInitialized, seenVars, vars
    <2>8. ShownTimeHolds'
      BY <2>1 DEF ClientInv, ShownTimeHolds, IsInitialized, vars
    <2>9. ShownIncludesOwnLock'
      BY <2>1, <2>2, <2>3 DEF ClientInv, ClientTypeOK, ShownIncludesOwnLock
    <2> QED
      BY <2>4, <2>5, <2>6, <2>7, <2>8, <2>9 DEF ClientInv
  <1>9. CASE CheckLockStatus(r)
    <2>1. /\ pc[r] = "checkLockStatus"
          /\ pc' = [pc EXCEPT ![r] = "unlockTokens"]
          /\ UNCHANGED <<vars, tx, logged, seenVars>>
      BY <1>9 DEF CheckLockStatus, Goto
    <2>2. CASE UNCHANGED shown
      BY <2>1, <2>2, PcOnly DEF Steps, BeforeLock
    <2>3. CASE /\ seen_lock_info[WalletOf[r]] # NoAccount
               /\ shown' = [shown EXCEPT
                              ![r] = seen_lock_info[WalletOf[r]].unlock_time]
      <3> DEFINE time == seen_lock_info[WalletOf[r]].unlock_time
      <3>1. WalletOf[r] \in Users /\ time \in 0..I64Max
        BY <2>3, ScriptContexts DEF ClientInv, ClientTypeOK, UserLockInfo
      <3>2. shown' = [shown EXCEPT ![r] = time]
        BY <2>3
      <3>3. clock < time => /\ IsInitialized(WalletOf[r])
                            /\ user_lock_info[WalletOf[r]].unlock_time >= time
        BY <2>3, <3>1 DEF ClientInv, SeenRecords
      <3>4. logged[r] = "signature" /\ time # 0 =>
              time >= tx[r]["lock"].at + LOCK_DURATION
        BY DEF ClientInv, RunOrder, SeenRecords, ReachesOrReleased
      <3> HIDE DEF time
      <3>5. ClientTypeOK'
        BY <2>1, <3>1, <3>2 DEF ClientInv, ClientTypeOK, Steps, seenVars
      <3>6. RunOrder'
        BY <2>1, <3>2 DEF ClientInv, ClientTypeOK, RunOrder, BeforeLock
      <3>7. AccountExists'
        BY <2>1
        DEF ClientInv, ClientTypeOK, AccountExists, Ata, seenVars, vars
      <3>8. LandedLocks' /\ SeenRecords'
        BY <2>1 DEF ClientInv, LandedLocks, LockHolds, SeenRecords,
                     ReachesOrReleased, IsInitialized, seenVars, vars
      <3>9. ShownTimeHolds'
        BY <2>1, <3>2, <3>3
        DEF ClientInv, ClientTypeOK, ShownTimeHolds, IsInitialized, vars
      <3>10. ShownIncludesOwnLock'
        BY <2>1, <3>2, <3>4 DEF ClientInv, ClientTypeOK, ShownIncludesOwnLock
      <3> QED
        BY <3>5, <3>6, <3>7, <3>8, <3>9, <3>10 DEF ClientInv
    <2> QED
      BY <1>9, <2>2, <2>3 DEF CheckLockStatus
  <1> QED
    BY <1>1, <1>2, <1>3, <1>4, <1>5, <1>6, <1>7, <1>8, <1>9 DEF RunStep

\* A step of the ledger, with what it does to the transactions in flight,
\* keeps the invariant: what was seen and shown stays a lower bound.
LEMMA LedgerStepInv ==
    ASSUME IInv, ClientInv, [ClientNext]_allVars,
           UNCHANGED <<runVars, seenVars>>,
           tx' \in [Runs -> [Instructions -> TxType]],
           \A q \in Runs :
               \/ tx'[q]["lock"] = tx[q]["lock"]
               \/ /\ tx[q]["lock"].state = "sent"
                  /\ tx'[q]["lock"].state = "failed"
               \/ /\ tx[q]["lock"].state = "sent"
                  /\ tx'[q]["lock"].state = "landed"
                  /\ LockHolds(WalletOf[q], tx[q]["lock"].at)',
           \A q \in Runs :
               \/ tx'[q]["create"] = tx[q]["create"]
               \/ tx'[q]["create"].state = "failed"
               \/ ata_lamports'[Ata(q)] # 0
    PROVE  ClientInv'
  <1> USE ConstantsAssumption, ClientAssumption
  <1>1. /\ clock' >= clock
        /\ \A u \in Users : IsInitialized(u) => IsInitialized(u)'
        /\ DeadlinesAreKept
        /\ \A ta \in TokenAccounts :
             ata_lamports[ta] # 0 => ata_lamports'[ta] # 0
    BY ClientStepsCore, LedgerOnlyGrows
  <1>2. TypeOK /\ TypeOK'
    BY ClientStepsCore, StepInv DEF IInv
  <1>3. /\ clock \in Int /\ clock' \in Int
        /\ \A u \in Users : IsInitialized(u) =>
             user_lock_info[u].unlock_time \in Int
        /\ \A u \in Users : IsInitialized(u)' =>
             user_lock_info'[u].unlock_time \in Int
    BY <1>2 DEF TypeOK, IsInitialized, UserLockInfo
  <1>4. ASSUME NEW u \in Users, NEW time \in Int, clock' < time,
               clock < time => /\ IsInitialized(u)
                               /\ user_lock_info[u].unlock_time >= time
        PROVE  IsInitialized(u)' /\ user_lock_info'[u].unlock_time >= time
    BY <1>1, <1>3, <1>4 DEF DeadlinesAreKept
  <1>5. ClientTypeOK'
    BY DEF ClientInv, ClientTypeOK, TxType, runVars, seenVars
  <1>6. RunOrder'
    BY DEF ClientInv, RunOrder, BeforeLock, runVars
  <1>7. AccountExists'
    BY <1>1, ScriptContexts DEF ClientInv, AccountExists, Ata, runVars, seenVars
  <1>8. LandedLocks'
    <2> SUFFICES ASSUME NEW q \in Runs,
                        tx'[q]["lock"].state \in {"landed", "confirmed"}
                 PROVE  LockHolds(WalletOf[q], tx[q]["lock"].at)'
      BY DEF LandedLocks
    <2>1. CASE tx'[q]["lock"] = tx[q]["lock"]
      <3>1. /\ LockHolds(WalletOf[q], tx[q]["lock"].at)
            /\ WalletOf[q] \in Users /\ tx[q]["lock"].at \in Nat
        BY <2>1, ScriptContexts
        DEF ClientInv, LandedLocks, ClientTypeOK, Instructions
      <3>2. PICK t \in Nat : t = tx[q]["lock"].at
        BY <3>1
      <3>3. LockHolds(WalletOf[q], t)
        BY <3>1, <3>2
      <3>4. LockHolds(WalletOf[q], t)'
        BY <3>1, <3>3, LockGoesOnHolding
      <3> QED
        BY <2>1, <3>2, <3>4 DEF LockHolds
    <2> QED
      BY <2>1
  <1>9. SeenRecords'
    <2>1. ASSUME NEW u \in Users, seen_lock_info'[u] # NoAccount,
                 clock' < seen_lock_info'[u].unlock_time
          PROVE  /\ IsInitialized(u)'
                 /\ user_lock_info'[u].unlock_time
                      >= seen_lock_info'[u].unlock_time
      <3>1. seen_lock_info' = seen_lock_info
        BY DEF seenVars
      <3>2. seen_lock_info[u].unlock_time \in Int
        BY <2>1, <3>1 DEF ClientInv, ClientTypeOK, UserLockInfo
      <3> QED
        BY <1>4, <2>1, <3>1, <3>2 DEF ClientInv, SeenRecords
    <2>2. ASSUME NEW q \in Runs, tx'[q]["lock"].state = "confirmed"
          PROVE  /\ seen_lock_info'[WalletOf[q]] # NoAccount
                 /\ ReachesOrReleased(seen_lock_info'[WalletOf[q]],
                      tx'[q]["lock"].at + LOCK_DURATION)
      <3>1. tx'[q]["lock"] = tx[q]["lock"]
        BY <2>2
      <3> QED
        BY <2>2, <3>1 DEF ClientInv, SeenRecords, ReachesOrReleased, seenVars
    <2> QED
      BY <2>1, <2>2 DEF SeenRecords, ReachesOrReleased
  <1>10. ShownTimeHolds'
    <2> SUFFICES ASSUME NEW q \in Runs, clock' < shown'[q]
                 PROVE  /\ IsInitialized(WalletOf[q])'
                        /\ user_lock_info'[WalletOf[q]].unlock_time >= shown'[q]
      BY DEF ShownTimeHolds, IsInitialized
    <2>1. shown' = shown /\ shown[q] \in Int /\ WalletOf[q] \in Users
      BY ScriptContexts DEF ClientInv, ClientTypeOK, runVars
    <2> QED
      BY <1>4, <2>1 DEF ClientInv, ShownTimeHolds
  <1>11. ShownIncludesOwnLock'
    <2> SUFFICES ASSUME NEW q \in Runs, logged'[q] = "signature", shown'[q] # 0
                 PROVE  shown'[q] >= tx'[q]["lock"].at + LOCK_DURATION
      BY DEF ShownIncludesOwnLock
    <2>1. logged' = logged /\ shown' = shown
      BY DEF runVars
    <2>2. tx'[q]["lock"] = tx[q]["lock"]
      BY <2>1 DEF ClientInv, RunOrder
    <2> QED
      BY <2>1, <2>2 DEF ClientInv, ShownIncludesOwnLock
  <1> QED
    BY <1>5, <1>6, <1>7, <1>8, <1>9, <1>10, <1>11 DEF ClientInv

\* A lock that executes holds from then on.
LEMMA NewLockHolds ==
    ASSUME IInv, NEW r \in Runs, LockTokens(LockContext(r), LOCK_AMOUNT),
           NEW t \in Nat, t = clock
    PROVE  LockHolds(WalletOf[r], t)'
  <1> USE ConstantsAssumption, ClientAssumption
  <1>1. WalletOf[r] \in Users /\ LockContext(r) \in LockTokensContext
    BY ScriptContexts
  <1>2. user_lock_info'[WalletOf[r]] = LockedInfo(LockContext(r), LOCK_AMOUNT)
    BY <1>1 DEF LockTokens, LockContext, IInv, TypeOK
  <1>3. LockedInfo(LockContext(r), LOCK_AMOUNT) \in UserLockInfo
    BY <1>1, LockedInfoType DEF IInv, TypeOK
  <1>4. clock' = clock
    BY DEF LockTokens
  <1> QED
    BY <1>2, <1>3, <1>4, NoAccountAssumption
    DEF LockHolds, ReachesOrReleased, LockedInfo, IsInitialized

\* The execution of a transaction keeps the invariant.
LEMMA ExecutionInv ==
    ASSUME IInv, ClientInv, [ClientNext]_allVars, NEW r \in Runs,
           ExecuteCreate(r) \/ ExecuteLock(r) \/ ExecuteUnlock(r)
    PROVE  ClientInv'
  <1> USE ConstantsAssumption, ClientAssumption
  <1>1. TypeOK /\ ClientTypeOK /\ UNCHANGED <<runVars, seenVars>>
    BY DEF IInv, ClientInv, ExecuteCreate, ExecuteLock, ExecuteUnlock
  <1>2. CASE ExecuteCreate(r)
    <2>1. CASE CreateTokenAccount(WalletOf[r], Ata(r)) /\ Landed(r, "create")
      <3>1. SetTx(r, "create", "landed", 0)
        BY <2>1 DEF Landed
      <3>2. /\ tx' \in [Runs -> [Instructions -> TxType]]
            /\ \A q \in Runs : tx'[q]["lock"] = tx[q]["lock"]
            /\ \A q \in Runs : q # r => tx'[q]["create"] = tx[q]["create"]
        BY <1>1, <3>1, TxUpdate, TxValues, Kinds
      <3>3. ata_lamports'[Ata(r)] # 0
        <4>1. Ata(r) \in TokenAccounts /\ ata_lamports[Ata(r)] \in Nat
          BY <1>1, ScriptContexts DEF TypeOK
        <4>2. ata_lamports[Ata(r)] + RentDue(TOKEN_RENT, ata_lamports[Ata(r)])
                # 0
          BY <4>1 DEF RentDue
        <4> QED
          BY <1>1, <2>1, <4>1, <4>2 DEF CreateTokenAccount, TypeOK
      <3> QED
        BY <1>1, <3>2, <3>3, LedgerStepInv
    <2>2. CASE Failed(r, "create")
      <3>1. SetTx(r, "create", "failed", 0)
        BY <2>2 DEF Failed
      <3>2. /\ tx' \in [Runs -> [Instructions -> TxType]]
            /\ tx'[r]["create"].state = "failed"
            /\ \A q \in Runs : tx'[q]["lock"] = tx[q]["lock"]
            /\ \A q \in Runs : q # r => tx'[q]["create"] = tx[q]["create"]
        BY <1>1, <3>1, TxUpdate, TxValues, Kinds
      <3> QED
        BY <1>1, <3>2, LedgerStepInv
    <2> QED
      BY <1>2, <2>1, <2>2 DEF ExecuteCreate
  <1>3. CASE ExecuteLock(r)
    <2>1. tx[r]["lock"].state = "sent"
      BY <1>3 DEF ExecuteLock, Executable
    <2>2. CASE LockTokens(LockContext(r), LOCK_AMOUNT) /\ Landed(r, "lock")
      <3>1. SetTx(r, "lock", "landed", clock)
        BY <2>2 DEF Landed
      <3>2. /\ tx' \in [Runs -> [Instructions -> TxType]]
            /\ tx'[r]["lock"].state = "landed" /\ tx'[r]["lock"].at = clock
            /\ \A q \in Runs : q # r => tx'[q]["lock"] = tx[q]["lock"]
            /\ \A q \in Runs : tx'[q]["create"] = tx[q]["create"]
        BY <1>1, <3>1, TxUpdate, TxValues, Kinds
      <3>3. PICK t \in Nat : t = clock
        BY <1>1 DEF TypeOK
      <3>4. LockHolds(WalletOf[r], t)'
        BY <2>2, <3>3, NewLockHolds
      <3>5. LockHolds(WalletOf[r], tx[r]["lock"].at)'
        BY <3>2, <3>3, <3>4 DEF LockHolds
      <3> QED
        BY <1>1, <2>1, <3>2, <3>5, LedgerStepInv
    <2>3. CASE Failed(r, "lock")
      <3>1. SetTx(r, "lock", "failed", 0)
        BY <2>3 DEF Failed
      <3>2. /\ tx' \in [Runs -> [Instructions -> TxType]]
            /\ tx'[r]["lock"].state = "failed"
            /\ \A q \in Runs : q # r => tx'[q]["lock"] = tx[q]["lock"]
            /\ \A q \in Runs : tx'[q]["create"] = tx[q]["create"]
        BY <1>1, <3>1, TxUpdate, TxValues, Kinds
      <3> QED
        BY <1>1, <2>1, <3>2, LedgerStepInv
    <2> QED
      BY <1>3, <2>2, <2>3 DEF ExecuteLock
  <1>4. CASE ExecuteUnlock(r)
    <2>1. \/ SetTx(r, "unlock", "landed", 0)
          \/ SetTx(r, "unlock", "failed", 0)
      BY <1>4 DEF ExecuteUnlock, Landed, Failed
    <2>2. /\ tx' \in [Runs -> [Instructions -> TxType]]
          /\ \A q \in Runs : /\ tx'[q]["lock"] = tx[q]["lock"]
                             /\ tx'[q]["create"] = tx[q]["create"]
      BY <1>1, <2>1, TxUpdate, TxValues, Kinds
    <2> QED
      BY <1>1, <2>2, LedgerStepInv
  <1> QED
    BY <1>2, <1>3, <1>4

\* The confirmation of the blocks up to the tip keeps the invariant.
LEMMA ConfirmInv ==
    ASSUME IInv, ClientInv, Confirm
    PROVE  ClientInv'
  <1> USE ConstantsAssumption, ClientAssumption
  <1>1. /\ seen_lock_info' = user_lock_info /\ seen_ata' = ata_lamports
        /\ UNCHANGED <<vars, pc, logged, shown>>
    BY DEF Confirm, runVars
  <1>2. tx \in [Runs -> [Instructions -> TxType]]
    BY DEF ClientInv, ClientTypeOK, TxType
  <1>3. ASSUME NEW q \in Runs, NEW ix \in Instructions
        PROVE  /\ tx'[q][ix] \in TxType
               /\ tx'[q][ix].at = tx[q][ix].at
               /\ tx'[q][ix].state =
                    IF tx[q][ix].state = "landed"
                      THEN "confirmed" ELSE tx[q][ix].state
    BY <1>2 DEF Confirm, TxType, TxStates
  <1>4. tx' \in [Runs -> [Instructions -> TxType]]
    BY <1>3 DEF Confirm
  <1>5. ASSUME NEW q \in Runs
        PROVE  /\ tx'[q]["lock"].at = tx[q]["lock"].at
               /\ tx'[q]["lock"].state =
                    IF tx[q]["lock"].state = "landed"
                      THEN "confirmed" ELSE tx[q]["lock"].state
               /\ tx'[q]["create"].state =
                    IF tx[q]["create"].state = "landed"
                      THEN "confirmed" ELSE tx[q]["create"].state
    BY <1>3 DEF Instructions
  <1>6. ClientTypeOK'
    BY <1>1, <1>4 DEF IInv, TypeOK, ClientInv, ClientTypeOK, TxType
  <1>7. RunOrder'
    BY <1>1, <1>5 DEF ClientInv, RunOrder, BeforeLock
  <1>8. AccountExists'
    BY <1>1, <1>5 DEF ClientInv, AccountExists, Ata, vars
  <1>9. LandedLocks'
    BY <1>1, <1>5 DEF ClientInv, LandedLocks, LockHolds, ReachesOrReleased,
                      IsInitialized, vars
  <1>10. SeenRecords'
    <2>1. ASSUME NEW u \in Users, IsInitialized(u)
          PROVE  user_lock_info[u].unlock_time \in Int
      BY <2>1 DEF IInv, TypeOK, IsInitialized, UserLockInfo
    <2> QED
      BY <1>1, <1>5, <2>1, ScriptContexts
      DEF ClientInv, LandedLocks, LockHolds, SeenRecords, ReachesOrReleased,
          IsInitialized, vars
  <1>11. ShownTimeHolds' /\ ShownIncludesOwnLock'
    BY <1>1, <1>5 DEF ClientInv, ShownTimeHolds, ShownIncludesOwnLock,
                      IsInitialized, vars
  <1> QED
    BY <1>6, <1>7, <1>8, <1>9, <1>10, <1>11 DEF ClientInv

\* Every step of the composition keeps the invariant.
LEMMA ClientStepInv ==
    IInv /\ ClientInv /\ [ClientNext]_allVars => ClientInv'
  <1> SUFFICES ASSUME IInv, ClientInv, [ClientNext]_allVars PROVE ClientInv'
    OBVIOUS
  <1>1. ASSUME NEW r \in Runs, RunStep(r) \/ Killed(r) PROVE ClientInv'
    BY <1>1, RunStepInv
  <1>2. ASSUME NEW r \in Runs,
               ExecuteCreate(r) \/ ExecuteLock(r) \/ ExecuteUnlock(r)
        PROVE  ClientInv'
    BY <1>2, ExecutionInv
  <1>3. CASE Confirm
    BY <1>3, ConfirmInv
  <1>4. CASE UNCHANGED clientVars
    BY <1>4, LedgerStepInv
    DEF clientVars, runVars, seenVars, ClientInv, ClientTypeOK, TxType
  <1> QED
    BY <1>1, <1>2, <1>3, <1>4 DEF ClientNext, allVars

\* What the runs know and printed agrees with the ledger at every moment.
THEOREM ClientInvariantHolds == ClientSpec => []ClientInv
  <1>1. ClientInit => ClientInv
    <2> SUFFICES ASSUME ClientInit PROVE ClientInv
      OBVIOUS
    <2> USE ConstantsAssumption, ClientAssumption
    <2>1. \A r \in Runs, ix \in Instructions :
            tx[r][ix] = Unsent /\ tx[r][ix].state = "unsent"
      BY DEF ClientInit, Unsent
    <2>2. \A r \in Runs : /\ tx[r]["lock"].state = "unsent"
                          /\ tx[r]["create"].state = "unsent"
      BY <2>1 DEF Instructions
    <2>3. Unsent \in [state : TxStates, at : 0..MaxTime]
      BY DEF Unsent, TxStates
    <2>4. ClientTypeOK
      BY <2>3 DEF ClientInit, Init, ClientTypeOK, Steps
    <2>5. RunOrder /\ AccountExists /\ LandedLocks
      BY <2>2 DEF ClientInit, Init, RunOrder, AccountExists, LandedLocks
    <2>6. SeenRecords /\ ShownTimeHolds /\ ShownIncludesOwnLock
      BY <2>2 DEF ClientInit, Init, SeenRecords, ShownTimeHolds,
                  ShownIncludesOwnLock
    <2> QED
      BY <2>4, <2>5, <2>6 DEF ClientInv
  <1> QED
    BY <1>1, ClientStepInv, CoreInvariant, PTL DEF ClientSpec

-----------------------------------------------------------------------------
(***************************************************************************)
(* The properties of the runs.                                             *)
(***************************************************************************)

\* A run that printed its lock's signature can rely on the lock for the
\* whole period, whatever other runs and late transactions do.
THEOREM PrintedLocksLast == ClientSpec => []PrintedLockLasts
  <1>1. ClientInv => PrintedLockLasts
    BY DEF ClientInv, RunOrder, LandedLocks, LockHolds, PrintedLockLasts
  <1> QED
    BY <1>1, ClientInvariantHolds, PTL

\* The positions of the runs in main(), the states of their transactions and
\* what they were shown have their types, for any number of runs.
THEOREM ClientTypeCorrect == ClientSpec => []ClientTypeOK
  <1>1. ClientInv => ClientTypeOK
    BY DEF ClientInv
  <1> QED
    BY <1>1, ClientInvariantHolds, PTL

\* The unlock time that checkLockStatus printed holds until it passes.
THEOREM ShownTimesHold == ClientSpec => []ShownTimeHolds
  <1>1. ClientInv => ShownTimeHolds
    BY DEF ClientInv
  <1> QED
    BY <1>1, ClientInvariantHolds, PTL

\* A run that printed its lock's signature is shown that lock or a later one.
THEOREM OwnLockIsShown == ClientSpec => []ShownIncludesOwnLock
  <1>1. ClientInv => ShownIncludesOwnLock
    BY DEF ClientInv
  <1> QED
    BY <1>1, ClientInvariantHolds, PTL

\* Which step changes a transaction that is in flight: the unlock of a run
\* lands only by unlock_tokens, its lock fails only by a failing lock_tokens.
LEMMA InFlight ==
    ASSUME ClientTypeOK, TypeOK, [ClientNext]_allVars, NEW r \in Runs
    PROVE  /\ /\ tx[r]["unlock"].state = "sent"
              /\ tx'[r]["unlock"].state = "landed"
              => UnlockTokens(UnlockContext(r))
           /\ /\ tx[r]["lock"].state = "sent"
              /\ tx'[r]["lock"].state = "failed"
              => LockTokensFails(LockContext(r))
  <1> DEFINE Kept(ix) == tx'[r][ix].state = tx[r][ix].state
             Goal == /\ /\ tx[r]["unlock"].state = "sent"
                        /\ tx'[r]["unlock"].state = "landed"
                        => UnlockTokens(UnlockContext(r))
                     /\ /\ tx[r]["lock"].state = "sent"
                        /\ tx'[r]["lock"].state = "failed"
                        => LockTokensFails(LockContext(r))
  <1> USE ConstantsAssumption
  <1>1. ASSUME NEW q \in Runs, NEW ix \in Instructions, NEW st \in TxStates,
               NEW t \in 0..MaxTime, SetTx(q, ix, st, t)
        PROVE  /\ q # r \/ ix # "unlock" => Kept("unlock")
               /\ q # r \/ ix # "lock" => Kept("lock")
               /\ tx'[q][ix].state = st
    BY <1>1, TxUpdate
  <1>2. CASE UNCHANGED tx
    BY <1>2
  <1>3. ASSUME NEW q \in Runs, NEW ix \in Instructions, Send(q, ix)
        PROVE  Goal
    <2>1. SetTx(q, ix, "sent", clock)
      BY <1>3 DEF Send
    <2> QED
      BY <1>1, <2>1, TxValues
  <1>4. ASSUME NEW q \in Runs, ExecuteCreate(q) PROVE Goal
    <2>1. SetTx(q, "create", "landed", 0) \/ SetTx(q, "create", "failed", 0)
      BY <1>4 DEF ExecuteCreate, Landed, Failed
    <2> QED
      BY <1>1, <2>1, TxValues, Kinds
  <1>5. ASSUME NEW q \in Runs, ExecuteLock(q) PROVE Goal
    <2>1. \/ SetTx(q, "lock", "landed", clock)
          \/ SetTx(q, "lock", "failed", 0) /\ LockTokensFails(LockContext(q))
      BY <1>5 DEF ExecuteLock, Landed, Failed
    <2> QED
      BY <1>1, <2>1, TxValues, Kinds
  <1>6. ASSUME NEW q \in Runs, ExecuteUnlock(q) PROVE Goal
    <2>1. \/ SetTx(q, "unlock", "landed", 0) /\ UnlockTokens(UnlockContext(q))
          \/ SetTx(q, "unlock", "failed", 0)
      BY <1>6 DEF ExecuteUnlock, Landed, Failed
    <2> QED
      BY <1>1, <2>1, TxValues, Kinds
  <1>7. CASE Confirm
    BY <1>7 DEF Confirm, Instructions, ClientTypeOK
  <1>8. ASSUME NEW q \in Runs, RunStep(q) \/ Killed(q)
        PROVE  UNCHANGED tx \/ \E ix \in Instructions : Send(q, ix)
    BY <1>8
    DEF RunStep, Killed, CheckAccountOwnership, LookUpAccount, SendCreate,
        CreateReturns, SendLock, LockReturns, LockErrors, CheckLockStatus,
        SendUnlock, UnlockReturns, UnlockErrors, Throws, Instructions
  <1>9. CASE UNCHANGED clientVars
    BY <1>2, <1>9 DEF clientVars
  <1> QED
    BY <1>2, <1>3, <1>4, <1>5, <1>6, <1>7, <1>8, <1>9 DEF ClientNext, allVars

\* No unlockUSDC undoes a lock of its wallet younger than the lock period.
THEOREM UnlocksHitOldLocks == ClientSpec => UnlocksOnlyOldLocks
  <1>1. IInv /\ ClientInv /\ [ClientNext]_allVars => UnlocksOldLocks
    <2> SUFFICES ASSUME IInv, ClientInv, [ClientNext]_allVars,
                        NEW r \in Runs, NEW q \in Runs,
                        tx[r]["unlock"].state = "sent",
                        tx'[r]["unlock"].state = "landed",
                        WalletOf[q] = WalletOf[r],
                        tx[q]["lock"].state \in {"landed", "confirmed"}
                 PROVE  clock >= tx[q]["lock"].at + LOCK_DURATION
      BY DEF UnlocksOldLocks
    <2> USE ConstantsAssumption, ClientAssumption
    <2>1. UnlockTokens(UnlockContext(r))
      BY InFlight DEF ClientInv, IInv
    <2>2. /\ UnlockContext(r) \in UnlockTokensContext
          /\ UnlockContext(r).user = WalletOf[r] /\ WalletOf[r] \in Users
      BY ScriptContexts DEF UnlockContext
    <2>3. /\ IsInitialized(WalletOf[r])
          /\ clock >= user_lock_info[WalletOf[r]].unlock_time
      BY <2>1, <2>2, UnlockTokensOk DEF UnlockTokens
    <2>4. LockHolds(WalletOf[r], tx[q]["lock"].at)
      BY DEF ClientInv, LandedLocks
    <2>5. /\ clock \in Int /\ tx[q]["lock"].at \in Int
          /\ user_lock_info[WalletOf[r]].unlock_time \in Int
      BY <2>2, <2>3 DEF IInv, TypeOK, IsInitialized, UserLockInfo, ClientInv,
                         ClientTypeOK, Instructions
    <2> QED
      BY <2>3, <2>4, <2>5 DEF LockHolds
  <1> QED
    BY <1>1, ClientInvariantHolds, CoreInvariant, PTL
    DEF ClientSpec, UnlocksOnlyOldLocks

\* lock_tokens refuses the script only for missing rent, or for an address
\* that was funded and holds no token account.
THEOREM LockFailuresExplained == ClientSpec => LockFailureReasons
  <1>1. IInv /\ ClientInv /\ [ClientNext]_allVars => FailuresAreExplained
    <2> SUFFICES ASSUME IInv, ClientInv, [ClientNext]_allVars,
                        NEW r \in Runs, tx[r]["lock"].state = "sent",
                        tx'[r]["lock"].state = "failed"
                 PROVE  receipt'.result \in {"InsufficientFunds",
                                             "AccountOwnedByWrongProgram"}
      BY DEF FailuresAreExplained
    <2> USE ClientAssumption
    <2>1. LockTokensFails(LockContext(r))
      BY InFlight DEF ClientInv, IInv
    <2>2. ata_lamports[Ata(r)] # 0
      BY DEF ClientInv, AccountExists
    <2>3. /\ LockContext(r).user = WalletOf[r]
          /\ LockContext(r).signer = WalletOf[r]
          /\ LockContext(r).user_lock_info = WalletOf[r]
          /\ LockContext(r).user_token_account = Ata(r)
          /\ LockContext(r).mint = MintOf(Ata(r))
      BY DEF LockContext, Ata, MintOf
    <2> QED
      BY <2>1, <2>2, <2>3
      DEF LockTokensFails, LockTokensResult, MissingAccount, SeedsMatch, Ok
  <1> QED
    BY <1>1, ClientInvariantHolds, CoreInvariant, PTL
    DEF ClientSpec, LockFailureReasons

=============================================================================
