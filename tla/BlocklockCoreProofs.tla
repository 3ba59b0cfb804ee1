------------------------- MODULE BlocklockCoreProofs -------------------------
(***************************************************************************)
(* Proofs about BlocklockCore for every set of users, mints and token      *)
(* accounts, every lock duration, every rent and every time horizon.       *)
(***************************************************************************)
EXTENDS BlocklockCore, TLAPS

(***************************************************************************)
(* What a transaction that passes its checks has established.              *)
(***************************************************************************)

\* A lock_tokens that succeeds was signed by its user, on the user's own
\* program-derived address, and the payer can afford the rent that is due.
LEMMA LockTokensOk ==
    ASSUME NEW ctx \in LockTokensContext, LockTokensResult(ctx) = Ok
    PROVE  /\ ctx.user = ctx.signer
           /\ ctx.user_lock_info = ctx.user
           /\ IsInitialized(ctx.user) \/
                ~(lamports[ctx.user] <
                    RentDue(LOCK_INFO_RENT, pda_lamports[ctx.user]))
    BY DEF LockTokensResult, SeedsMatch, MissingAccount, Ok, LockTokensContext

\* An unlock_tokens that succeeds was signed by its user, on the user's own
\* initialized record, at or after its unlock_time.
LEMMA UnlockTokensOk ==
    ASSUME NEW ctx \in UnlockTokensContext, UnlockTokensResult(ctx) = Ok
    PROVE  /\ ctx.user = ctx.signer
           /\ ctx.user_lock_info = ctx.user
           /\ IsInitialized(ctx.user)
           /\ clock >= user_lock_info[ctx.user].unlock_time
    BY DEF UnlockTokensResult, SeedsMatch, Expired, MissingAccount, Ok, UnlockTokensContext

\* The result of a transaction is Ok or one of the program's errors.
LEMMA ResultTypes ==
    /\ \A ctx \in LockTokensContext :
         LockTokensResult(ctx) \in Errors \cup {Ok}
    /\ \A ctx \in UnlockTokensContext :
         UnlockTokensResult(ctx) \in Errors \cup {Ok}
    BY DEF LockTokensResult, UnlockTokensResult, MissingAccount, Ok, Errors

\* The rent due is what lifts a smaller balance to the rent exemption.
LEMMA RentDueFacts ==
    ASSUME NEW rent \in Nat, NEW present \in Nat
    PROVE  /\ RentDue(rent, present) \in Nat
           /\ present <= rent => present + RentDue(rent, present) = rent
    BY DEF RentDue

\* What lock_tokens writes is a record: the new unlock_time fits i64.
LEMMA LockedInfoType ==
    ASSUME clock \in 0..MaxTime, NEW ctx \in LockTokensContext,
           NEW amount \in Amount
    PROVE  LockedInfo(ctx, amount) \in UserLockInfo
    BY ConstantsAssumption, NoOverflowAssumption
    DEF LockedInfo, UserLockInfo, LockTokensContext

\* What unlock_tokens leaves is an empty record.
LEMMA UnlockedInfoFacts ==
    ASSUME NEW info \in UserLockInfo
    PROVE  /\ UnlockedInfo(info) \in UserLockInfo
           /\ UnlockedInfo(info).unlock_time = 0
           /\ UnlockedInfo(info).locked_amount = 0
           /\ UnlockedInfo(info).owner = info.owner
  <1>1. 0 \in Amount /\ 0 \in 0..I64Max
    BY ConstantsAssumption DEF Amount
  <1>2. UnlockedInfo(info) \in UserLockInfo
    BY <1>1 DEF UnlockedInfo, UserLockInfo
  <1> QED
    BY <1>2 DEF UnlockedInfo, UserLockInfo

-----------------------------------------------------------------------------
(***************************************************************************)
(* Types.                                                                  *)
(***************************************************************************)

\* lock_tokens keeps the types: in particular the new unlock_time fits i64
\* and the payer's lamports stay natural numbers.
LEMMA LockTokensType ==
    ASSUME TypeOK, NEW ctx \in LockTokensContext, NEW amount \in Amount,
           LockTokens(ctx, amount)
    PROVE  TypeOK'
  <1> USE ConstantsAssumption
  <1>1. /\ ctx.user \in Users /\ ctx.signer = ctx.user
        /\ ctx.user_lock_info = ctx.user
    BY LockTokensOk DEF LockTokens, LockTokensContext
  <1> DEFINE due == IF IsInitialized(ctx.user_lock_info)
                      THEN 0
                      ELSE RentDue(LOCK_INFO_RENT,
                                   pda_lamports[ctx.user_lock_info])
  <1>2. due \in Nat /\ due <= lamports[ctx.user]
    <2>1. CASE IsInitialized(ctx.user_lock_info)
      BY <1>1, <2>1 DEF TypeOK
    <2>2. CASE ~IsInitialized(ctx.user_lock_info)
      <3>1. RentDue(LOCK_INFO_RENT, pda_lamports[ctx.user]) \in Nat
        BY <1>1, RentDueFacts DEF TypeOK
      <3>2. ~(lamports[ctx.user] <
                RentDue(LOCK_INFO_RENT, pda_lamports[ctx.user]))
        BY <1>1, <2>2, LockTokensOk DEF LockTokens
      <3> QED
        BY <1>1, <2>2, <3>1, <3>2 DEF TypeOK
    <2> QED
      BY <2>1, <2>2
  <1>3. /\ lamports' = [lamports EXCEPT ![ctx.user] = @ - due]
        /\ pda_lamports' = [pda_lamports EXCEPT ![ctx.user_lock_info] = @ + due]
    BY DEF LockTokens, InitIfNeeded
  <1>4. lamports' \in [Users -> Nat] /\ pda_lamports' \in [Users -> Nat]
    <2> HIDE DEF due
    <2> QED BY <1>1, <1>2, <1>3 DEF TypeOK
  <1>5. clock + LOCK_DURATION \in 0..I64Max
    BY NoOverflowAssumption DEF TypeOK
  <1>6. LockedInfo(ctx, amount) \in UserLockInfo
    BY <1>1, <1>5 DEF LockedInfo, UserLockInfo
  <1>7. user_lock_info' \in [Users -> UserLockInfo \cup {NoAccount}]
    BY <1>1, <1>6 DEF LockTokens, TypeOK
  <1> QED
    BY <1>1, <1>4, <1>7 DEF LockTokens, TypeOK, Ok

\* Every step keeps the types.
LEMMA StepType == TypeOK /\ [Next]_vars => TypeOK'
  <1> SUFFICES ASSUME TypeOK, [Next]_vars PROVE TypeOK'
    OBVIOUS
  <1> USE ConstantsAssumption
  <1>1. ASSUME NEW ctx \in LockTokensContext, NEW amount \in Amount,
               LockTokens(ctx, amount)
        PROVE  TypeOK'
    BY <1>1, LockTokensType
  <1>2. ASSUME NEW ctx \in UnlockTokensContext, UnlockTokens(ctx)
        PROVE  TypeOK'
    <2>1. /\ ctx.user \in Users /\ ctx.signer = ctx.user
          /\ ctx.user_lock_info = ctx.user /\ IsInitialized(ctx.user)
      BY <1>2, UnlockTokensOk DEF UnlockTokens, UnlockTokensContext
    <2>2. UnlockedInfo(user_lock_info[ctx.user]) \in UserLockInfo
      <3>1. user_lock_info[ctx.user] \in UserLockInfo
        BY <2>1 DEF TypeOK, IsInitialized
      <3>2. 0 \in Amount /\ 0 \in 0..I64Max
        BY DEF Amount
      <3> QED
        BY <3>1, <3>2 DEF UnlockedInfo, UserLockInfo
    <2>3. user_lock_info' \in [Users -> UserLockInfo \cup {NoAccount}]
      BY <1>2, <2>1, <2>2 DEF UnlockTokens, TypeOK
    <2> QED
      BY <1>2, <2>1, <2>3 DEF UnlockTokens, TypeOK, Ok
  <1>3. ASSUME NEW ctx \in LockTokensContext, LockTokensFails(ctx)
        PROVE  TypeOK'
    BY <1>3, ResultTypes DEF LockTokensFails, TypeOK, ledger, LockTokensContext
  <1>4. ASSUME NEW ctx \in UnlockTokensContext, UnlockTokensFails(ctx)
        PROVE  TypeOK'
    BY <1>4, ResultTypes
    DEF UnlockTokensFails, TypeOK, ledger, UnlockTokensContext
  <1>5. CASE Tick
    BY <1>5 DEF Tick, TypeOK, ledger
  <1>6. ASSUME NEW w \in Users, NEW u \in Users, NEW n \in 1..LOCK_INFO_RENT,
               FundLockInfo(w, u, n)
        PROVE  TypeOK'
    BY <1>6 DEF FundLockInfo, TypeOK
  <1>7. ASSUME NEW w \in Users, NEW ta \in TokenAccounts,
               NEW n \in 1..TOKEN_RENT, FundTokenAccount(w, ta, n)
        PROVE  TypeOK'
    BY <1>7 DEF FundTokenAccount, TypeOK
  <1>8. ASSUME NEW w \in Users, NEW ta \in TokenAccounts,
               CreateTokenAccount(w, ta)
        PROVE  TypeOK'
    <2> DEFINE due == RentDue(TOKEN_RENT, ata_lamports[ta])
    <2>1. due \in Nat /\ due <= lamports[w]
      BY <1>8, RentDueFacts
      DEF CreateTokenAccount, CreateTokenAccountAllowed, TypeOK
    <2>2. /\ lamports' = [lamports EXCEPT ![w] = @ - due]
          /\ ata_lamports' = [ata_lamports EXCEPT ![ta] = @ + due]
      BY <1>8 DEF CreateTokenAccount
    <2>3. lamports' \in [Users -> Nat] /\ ata_lamports' \in [TokenAccounts -> Nat]
      <3> HIDE DEF due
      <3> QED BY <2>1, <2>2 DEF TypeOK
    <2> QED
      BY <1>8, <2>3 DEF CreateTokenAccount, TypeOK, Amount
  <1>9. ASSUME NEW ta \in TokenAccounts, NEW n \in Amount, MintTo(ta, n)
        PROVE  TypeOK'
    BY <1>9 DEF MintTo, TypeOK, Amount, IsOpen
  <1>10. ASSUME NEW from \in TokenAccounts, NEW to \in TokenAccounts,
                NEW n \in Amount, TokenTransfer(from, to, n)
         PROVE  TypeOK'
    BY <1>10 DEF TokenTransfer, TypeOK, Amount, IsOpen
  <1>11. CASE UNCHANGED vars
    BY <1>11 DEF vars, TypeOK
  <1> QED
    BY <1>1, <1>2, <1>3, <1>4, <1>5, <1>6, <1>7, <1>8, <1>9, <1>10, <1>11
    DEF Next, Program, Environment

\* The ledger always has the types that lib.rs declares, and no unlock_time
\* that lock_tokens computes leaves i64.
THEOREM TypeCorrect == Spec => []TypeOK
  <1>1. Init => TypeOK
    BY ConstantsAssumption DEF Init, TypeOK, NoReceipt, Ok
  <1> QED
    BY <1>1, StepType, PTL DEF Spec

-----------------------------------------------------------------------------
(***************************************************************************)
(* The inductive invariant.                                                *)
(***************************************************************************)

\* A step that leaves the records and their lamports alone, and does not turn
\* the clock back, keeps the invariant.
LEMMA RecordsUntouched ==
    ASSUME IInv, TypeOK', UNCHANGED <<user_lock_info, pda_lamports>>,
           clock' >= clock
    PROVE  IInv'
  <1> USE ConstantsAssumption
  <1>1. OwnerIsSeed' /\ FundedWithinRent' /\ RentPaidOnce'
    BY DEF IInv, OwnerIsSeed, FundedWithinRent, RentPaidOnce, IsInitialized
  <1>2. DeadlineWithinPeriod'
    <2> SUFFICES ASSUME NEW u \in Users, IsInitialized(u)
                 PROVE  /\ user_lock_info[u].unlock_time
                             <= clock' + LOCK_DURATION
                        /\ user_lock_info[u].unlock_time = 0 =>
                             user_lock_info[u].locked_amount = 0
      BY DEF DeadlineWithinPeriod, IsInitialized
    <2>1. user_lock_info[u] \in UserLockInfo
      BY DEF IInv, TypeOK, IsInitialized
    <2>2. user_lock_info[u].unlock_time \in Int
      BY <2>1 DEF UserLockInfo
    <2>3. clock \in Int /\ clock' \in Int
      BY DEF IInv, TypeOK
    <2> QED
      BY <2>2, <2>3 DEF IInv, DeadlineWithinPeriod
  <1> QED
    BY <1>1, <1>2 DEF IInv

\* lock_tokens keeps the invariant: the rent it collects is exactly what the
\* address lacks, and the deadline it writes is one lock duration ahead.
LEMMA LockTokensInv ==
    ASSUME IInv, NEW ctx \in LockTokensContext, NEW amount \in Amount,
           LockTokens(ctx, amount)
    PROVE  IInv'
  <1> USE ConstantsAssumption
  <1>1. TypeOK /\ TypeOK'
    BY LockTokensType DEF IInv
  <1>2. /\ ctx.user \in Users /\ ctx.signer = ctx.user
        /\ ctx.user_lock_info = ctx.user
    BY LockTokensOk DEF LockTokens, LockTokensContext
  <1>3. user_lock_info' = [user_lock_info EXCEPT
                             ![ctx.user] = LockedInfo(ctx, amount)]
    BY <1>2 DEF LockTokens
  <1>4. pda_lamports' = [pda_lamports EXCEPT ![ctx.user] = LOCK_INFO_RENT]
    <2>1. pda_lamports[ctx.user] \in Nat /\ pda_lamports[ctx.user] <= LOCK_INFO_RENT
      BY <1>1, <1>2 DEF IInv, TypeOK, FundedWithinRent
    <2>2. CASE IsInitialized(ctx.user)
      <3>1. pda_lamports[ctx.user] + 0 = LOCK_INFO_RENT
        BY <1>2, <2>1, <2>2 DEF IInv, RentPaidOnce
      <3> QED
        BY <1>2, <2>2, <3>1 DEF LockTokens, InitIfNeeded
    <2>3. CASE ~IsInitialized(ctx.user)
      <3>1. pda_lamports[ctx.user]
              + RentDue(LOCK_INFO_RENT, pda_lamports[ctx.user])
            = LOCK_INFO_RENT
        BY <2>1, RentDueFacts
      <3> QED
        BY <1>2, <2>3, <3>1 DEF LockTokens, InitIfNeeded
    <2> QED
      BY <2>2, <2>3
  <1>5. ASSUME NEW u \in Users
        PROVE  /\ u = ctx.user =>
                    /\ user_lock_info'[u] = LockedInfo(ctx, amount)
                    /\ pda_lamports'[u] = LOCK_INFO_RENT
               /\ u # ctx.user =>
                    /\ user_lock_info'[u] = user_lock_info[u]
                    /\ pda_lamports'[u] = pda_lamports[u]
    BY <1>1, <1>2, <1>3, <1>4 DEF TypeOK
  <1>6. FundedWithinRent' /\ RentPaidOnce'
    BY <1>5 DEF IInv, FundedWithinRent, RentPaidOnce, IsInitialized
  <1>7. OwnerIsSeed'
    BY <1>5 DEF IInv, OwnerIsSeed, IsInitialized, LockedInfo
  <1>8. DeadlineWithinPeriod'
    <2>1. clock' = clock /\ clock \in Nat
      BY <1>1 DEF LockTokens, TypeOK
    <2>2. /\ LockedInfo(ctx, amount).unlock_time <= clock + LOCK_DURATION
          /\ LockedInfo(ctx, amount).unlock_time # 0
      BY <2>1 DEF LockedInfo
    <2> QED
      BY <1>5, <2>1, <2>2 DEF IInv, DeadlineWithinPeriod, IsInitialized
  <1> QED
    BY <1>1, <1>6, <1>7, <1>8 DEF IInv

\* unlock_tokens keeps the invariant: it keeps the owner and the lamports.
LEMMA UnlockTokensInv ==
    ASSUME IInv, TypeOK', NEW ctx \in UnlockTokensContext, UnlockTokens(ctx)
    PROVE  IInv'
  <1> USE ConstantsAssumption
  <1>1. /\ ctx.user \in Users /\ ctx.user_lock_info = ctx.user
        /\ IsInitialized(ctx.user)
    BY UnlockTokensOk DEF UnlockTokens, UnlockTokensContext
  <1>2. /\ user_lock_info[ctx.user] \in UserLockInfo
        /\ user_lock_info[ctx.user].owner = ctx.user
    BY <1>1 DEF IInv, TypeOK, IsInitialized, OwnerIsSeed
  <1>3. ASSUME NEW u \in Users
        PROVE  /\ u = ctx.user =>
                    user_lock_info'[u] = UnlockedInfo(user_lock_info[u])
               /\ u # ctx.user => user_lock_info'[u] = user_lock_info[u]
               /\ IsInitialized(u)' => IsInitialized(u)
    BY <1>1 DEF UnlockTokens, IInv, TypeOK, IsInitialized
  <1>4. /\ UnlockedInfo(user_lock_info[ctx.user]).owner = ctx.user
        /\ UnlockedInfo(user_lock_info[ctx.user]).unlock_time = 0
        /\ UnlockedInfo(user_lock_info[ctx.user]).locked_amount = 0
    BY <1>2 DEF UnlockedInfo, UserLockInfo
  <1>5. pda_lamports' = pda_lamports /\ clock' = clock /\ clock \in Nat
    BY DEF UnlockTokens, IInv, TypeOK
  <1>6. FundedWithinRent' /\ RentPaidOnce'
    BY <1>3, <1>5 DEF IInv, FundedWithinRent, RentPaidOnce
  <1>7. OwnerIsSeed'
    BY <1>3, <1>4 DEF IInv, OwnerIsSeed
  <1>8. DeadlineWithinPeriod'
    BY <1>3, <1>4, <1>5 DEF IInv, DeadlineWithinPeriod
  <1> QED
    BY <1>6, <1>7, <1>8 DEF IInv

\* Every step keeps the invariant.
LEMMA StepInv == IInv /\ [Next]_vars => IInv'
  <1> SUFFICES ASSUME IInv, [Next]_vars PROVE IInv'
    OBVIOUS
  <1> USE ConstantsAssumption
  <1>t. TypeOK /\ TypeOK'
    BY StepType DEF IInv
  <1>c. clock \in Int
    BY <1>t DEF TypeOK
  <1>1. ASSUME NEW ctx \in LockTokensContext, NEW amount \in Amount,
               LockTokens(ctx, amount)
        PROVE  IInv'
    BY <1>1, LockTokensInv
  <1>2. ASSUME NEW ctx \in UnlockTokensContext, UnlockTokens(ctx)
        PROVE  IInv'
    BY <1>2, <1>t, UnlockTokensInv
  <1>3. ASSUME NEW ctx \in LockTokensContext, LockTokensFails(ctx)
        PROVE  IInv'
    BY <1>3, <1>t, <1>c, RecordsUntouched DEF LockTokensFails, ledger
  <1>4. ASSUME NEW ctx \in UnlockTokensContext, UnlockTokensFails(ctx)
        PROVE  IInv'
    BY <1>4, <1>t, <1>c, RecordsUntouched DEF UnlockTokensFails, ledger
  <1>5. CASE Tick
    BY <1>5, <1>t, <1>c, RecordsUntouched DEF Tick, ledger
  <1>6. ASSUME NEW w \in Users, NEW u \in Users, NEW n \in 1..LOCK_INFO_RENT,
               FundLockInfo(w, u, n)
        PROVE  IInv'
    <2>1. FundedWithinRent' /\ RentPaidOnce'
      BY <1>6, <1>t
      DEF FundLockInfo, IInv, TypeOK, FundedWithinRent, RentPaidOnce,
          IsInitialized
    <2>2. OwnerIsSeed' /\ DeadlineWithinPeriod'
      BY <1>6
      DEF FundLockInfo, IInv, OwnerIsSeed, DeadlineWithinPeriod, IsInitialized
    <2> QED
      BY <1>t, <2>1, <2>2 DEF IInv
  <1>7. ASSUME NEW w \in Users, NEW ta \in TokenAccounts,
               NEW n \in 1..TOKEN_RENT, FundTokenAccount(w, ta, n)
        PROVE  IInv'
    BY <1>7, <1>t, <1>c, RecordsUntouched DEF FundTokenAccount
  <1>8. ASSUME NEW w \in Users, NEW ta \in TokenAccounts,
               CreateTokenAccount(w, ta)
        PROVE  IInv'
    BY <1>8, <1>t, <1>c, RecordsUntouched DEF CreateTokenAccount
  <1>9. ASSUME NEW ta \in TokenAccounts, NEW n \in Amount, MintTo(ta, n)
        PROVE  IInv'
    BY <1>9, <1>t, <1>c, RecordsUntouched DEF MintTo
  <1>10. ASSUME NEW from \in TokenAccounts, NEW to \in TokenAccounts,
                NEW n \in Amount, TokenTransfer(from, to, n)
         PROVE  IInv'
    BY <1>10, <1>t, <1>c, RecordsUntouched DEF TokenTransfer
  <1>11. CASE UNCHANGED vars
    BY <1>11, <1>t, <1>c, RecordsUntouched DEF vars
  <1> QED
    BY <1>1, <1>2, <1>3, <1>4, <1>5, <1>6, <1>7, <1>8, <1>9, <1>10, <1>11
    DEF Next, Program, Environment

\* On every reachable ledger a record belongs to the user whose seed derives
\* its address, has exactly its rent, and a deadline at most one period ahead.
THEOREM InvariantHolds == Spec => []IInv
  <1>1. Init => IInv
    <2> SUFFICES ASSUME Init PROVE IInv
      OBVIOUS
    <2>1. TypeOK
      BY ConstantsAssumption DEF Init, TypeOK, NoReceipt, Ok
    <2> QED
      BY <2>1, ConstantsAssumption
      DEF Init, IInv, OwnerIsSeed, FundedWithinRent, RentPaidOnce,
          DeadlineWithinPeriod, IsInitialized
  <1> QED
    BY <1>1, StepInv, PTL DEF Spec

-----------------------------------------------------------------------------
(***************************************************************************)
(* The safety properties.                                                  *)
(***************************************************************************)

\* init_if_needed never charges a user twice, nor more than the rent.
THEOREM RentIsPaidOnce == Spec => []RentPaidOnce
  <1>1. IInv => RentPaidOnce
    BY DEF IInv
  <1> QED
    BY <1>1, InvariantHolds, PTL

\* No lock reaches further than one lock duration ahead of the clock.
THEOREM DeadlinesWithinPeriod == Spec => []DeadlineWithinPeriod
  <1>1. IInv => DeadlineWithinPeriod
    BY DEF IInv
  <1> QED
    BY <1>1, InvariantHolds, PTL

\* A user that has locked can always unlock once its time has come, and gets
\* LockNotExpired until then: has_one can never be what stands in the way.
THEOREM UnlockIsDecidedByClock == Spec => []UnlockDecidedByClock
  <1>1. IInv => UnlockDecidedByClock
    <2> SUFFICES ASSUME IInv, NEW u \in Users, NEW ta \in TokenAccounts,
                        NEW m \in Mints, IsInitialized(u), IsOpen(ta)
                 PROVE  UnlockTokensResult(OwnUnlock(u, ta, m)) =
                          IF clock < user_lock_info[u].unlock_time
                            THEN "LockNotExpired" ELSE Ok
      BY DEF UnlockDecidedByClock
    <2> DEFINE ctx == OwnUnlock(u, ta, m)
    <2>1. /\ ctx.user = u /\ ctx.signer = u /\ ctx.user_lock_info = u
          /\ ctx.owner = u /\ ctx.user_token_account = ta
      BY DEF OwnUnlock
    <2>2. user_lock_info[u].owner = u
      BY DEF IInv, OwnerIsSeed
    <2>3. user_lock_info[u] \in UserLockInfo
      BY DEF IInv, TypeOK, IsInitialized
    <2>4. clock \in Int /\ user_lock_info[u].unlock_time \in Int
      BY <2>3, ConstantsAssumption DEF IInv, TypeOK, UserLockInfo
    <2>5. Expired(user_lock_info[u]) <=>
            ~(clock < user_lock_info[u].unlock_time)
      BY <2>4 DEF Expired
    <2> HIDE DEF ctx
    <2>6. UnlockTokensResult(ctx) =
            IF clock < user_lock_info[u].unlock_time
              THEN "LockNotExpired" ELSE Ok
      BY <2>1, <2>2, <2>5 DEF UnlockTokensResult, SeedsMatch
    <2> QED
      BY <2>6 DEF ctx
  <1> QED
    BY <1>1, InvariantHolds, PTL

\* How a step may change the records: not at all, by a lock_tokens of the
\* signer's own record, or by an unlock_tokens of the signer's own record.
LEMMA RecordChanges ==
    ASSUME [Next]_vars
    PROVE  \/ UNCHANGED user_lock_info
           \/ \E ctx \in LockTokensContext, amount \in Amount :
                LockTokens(ctx, amount)
           \/ \E ctx \in UnlockTokensContext : UnlockTokens(ctx)
    BY DEF Next, Program, Environment, LockTokensFails, UnlockTokensFails,
           Tick, FundLockInfo, FundTokenAccount, CreateTokenAccount, MintTo,
           TokenTransfer, vars, ledger

\* A record changes only in a transaction that its own user signed.
THEOREM OnlyOwnSignatureHolds == Spec => OnlyOwnSignature
  <1>1. IInv /\ [Next]_vars => [ChangesAreSigned]_vars
    <2> SUFFICES ASSUME IInv, [Next]_vars PROVE ChangesAreSigned
      OBVIOUS
    <2>1. CASE UNCHANGED user_lock_info
      BY <2>1 DEF ChangesAreSigned
    <2>2. ASSUME NEW ctx \in LockTokensContext, NEW amount \in Amount,
                 LockTokens(ctx, amount)
          PROVE  ChangesAreSigned
      BY <2>2, LockTokensOk
      DEF LockTokens, ChangesAreSigned, IInv, TypeOK, LockTokensContext
    <2>3. ASSUME NEW ctx \in UnlockTokensContext, UnlockTokens(ctx)
          PROVE  ChangesAreSigned
      BY <2>3, UnlockTokensOk
      DEF UnlockTokens, ChangesAreSigned, IInv, TypeOK, UnlockTokensContext
    <2> QED
      BY <2>1, <2>2, <2>3, RecordChanges
  <1> QED
    BY <1>1, InvariantHolds, PTL DEF Spec, OnlyOwnSignature

\* No step brings the deadline of a lock in force forward.  The bound of one
\* lock duration is what makes a second lock_tokens safe: its deadline is the
\* latest any earlier lock can have.
LEMMA StepKeepsDeadlines == IInv /\ [Next]_vars => DeadlinesAreKept
  <1> SUFFICES ASSUME IInv, [Next]_vars, NEW u \in Users, IsInitialized(u),
                      clock < user_lock_info[u].unlock_time
               PROVE  /\ IsInitialized(u)'
                      /\ user_lock_info'[u].unlock_time
                           >= user_lock_info[u].unlock_time
    BY DEF DeadlinesAreKept
  <1> USE ConstantsAssumption
  <1>1. user_lock_info[u] \in UserLockInfo
    BY DEF IInv, TypeOK, IsInitialized
  <1>2. clock \in Int /\ user_lock_info[u].unlock_time \in Int
    BY <1>1 DEF IInv, TypeOK, UserLockInfo
  <1>3. CASE user_lock_info'[u] = user_lock_info[u]
    BY <1>2, <1>3 DEF IsInitialized
  <1>4. ASSUME NEW ctx \in LockTokensContext, NEW amount \in Amount,
               LockTokens(ctx, amount), user_lock_info'[u] # user_lock_info[u]
        PROVE  /\ IsInitialized(u)'
               /\ user_lock_info'[u].unlock_time
                    >= user_lock_info[u].unlock_time
    <2>1. ctx.user_lock_info = u
      BY <1>4 DEF LockTokens, IInv, TypeOK
    <2>2. user_lock_info'[u] = LockedInfo(ctx, amount)
      BY <1>4, <2>1 DEF LockTokens, IInv, TypeOK
    <2>3. user_lock_info'[u].unlock_time = clock + LOCK_DURATION
      BY <2>2 DEF LockedInfo
    <2>4. user_lock_info'[u] \in UserLockInfo
      BY <2>2, <1>4, LockTokensOk, NoOverflowAssumption
      DEF LockTokens, LockedInfo, UserLockInfo, IInv, TypeOK,
          LockTokensContext
    <2> QED
      BY <1>2, <2>3, <2>4, NoAccountAssumption
      DEF IInv, DeadlineWithinPeriod, IsInitialized
  <1>5. ASSUME NEW ctx \in UnlockTokensContext, UnlockTokens(ctx),
               user_lock_info'[u] # user_lock_info[u]
        PROVE  FALSE
    <2>1. ctx.user_lock_info = u /\ ctx.user = u
      BY <1>5, UnlockTokensOk DEF UnlockTokens, IInv, TypeOK
    <2>2. clock >= user_lock_info[u].unlock_time
      BY <1>5, <2>1, UnlockTokensOk DEF UnlockTokens
    <2> QED
      BY <1>2, <2>2
  <1> QED
    BY <1>3, <1>4, <1>5, RecordChanges

\* While a lock is in force nothing brings its deadline forward.
THEOREM DeadlinesNeverBroughtForward == Spec => DeadlineNeverBroughtForward
  <1> QED
    BY StepKeepsDeadlines, InvariantHolds, PTL
    DEF Spec, DeadlineNeverBroughtForward

-----------------------------------------------------------------------------
(***************************************************************************)
(* The program implements the abstract time lock.                          *)
(***************************************************************************)

\* Every run of the ledger is, through the mapping Held, a run of TimeLock:
\* lock_tokens is Hold, an unlock_tokens that ends a lock is Release, the
\* clock's tick is Pass, and everything else leaves the holds as they are.
THEOREM Refinement == Spec => ImplementsTimeLock
  <1> USE ConstantsAssumption
  <1>1. Init => TL!Init
    BY DEF Init, TL!Init, Held, IsInitialized
  <1>2. IInv /\ [Next]_vars => [TL!Next]_TL!vars
    <2> SUFFICES ASSUME IInv, [Next]_vars PROVE [TL!Next]_TL!vars
      OBVIOUS
    <2>1. CASE UNCHANGED user_lock_info
      <3>1. Held' = Held
        BY <2>1 DEF Held, IsInitialized
      <3>2. CASE Tick
        <4>1. clock \in Nat /\ clock' \in Nat /\ clock' > clock
          BY <3>2 DEF Tick, IInv, TypeOK
        <4> QED
          BY <3>1, <4>1 DEF TL!Next, TL!Pass
      <3>3. CASE ~Tick
        <4>1. clock' = clock
          BY <3>3
          DEF Next, Program, Environment, LockTokens, UnlockTokens,
              LockTokensFails, UnlockTokensFails, FundLockInfo,
              FundTokenAccount, CreateTokenAccount, MintTo, TokenTransfer,
              vars
        <4> QED
          BY <3>1, <4>1 DEF TL!vars
      <3> QED
        BY <3>2, <3>3
    <2>2. ASSUME NEW ctx \in LockTokensContext, NEW amount \in Amount,
                 LockTokens(ctx, amount)
          PROVE  TL!Next
      <3>1. /\ ctx.user \in Users /\ ctx.user_lock_info = ctx.user
            /\ clock' = clock /\ clock \in Nat
        BY <2>2, LockTokensOk DEF LockTokens, LockTokensContext, IInv, TypeOK
      <3> DEFINE u == ctx.user
      <3>2. user_lock_info' = [user_lock_info EXCEPT
                                 ![u] = LockedInfo(ctx, amount)]
        BY <2>2, <3>1 DEF LockTokens
      <3>3. LockedInfo(ctx, amount) \in UserLockInfo
        BY <3>1, NoOverflowAssumption
        DEF LockedInfo, UserLockInfo, IInv, TypeOK
      <3>4. /\ LockedInfo(ctx, amount) # NoAccount
            /\ LockedInfo(ctx, amount).unlock_time # 0
            /\ LockedInfo(ctx, amount).unlock_time - LOCK_DURATION = clock
            /\ LockedInfo(ctx, amount).locked_amount = amount
        BY <3>1, <3>3, NoAccountAssumption DEF LockedInfo
      <3>5. Held' = [Held EXCEPT ![u] = [quantity |-> amount, since |-> clock]]
        BY <3>1, <3>2, <3>4 DEF Held, IsInitialized, IInv, TypeOK
      <3>6. TL!Hold(u, amount)
        BY <3>1, <3>5 DEF TL!Hold
      <3> QED
        BY <3>1, <3>6 DEF TL!Next
    <2>3. ASSUME NEW ctx \in UnlockTokensContext, UnlockTokens(ctx)
          PROVE  [TL!Next]_TL!vars
      <3>1. /\ ctx.user \in Users /\ ctx.user_lock_info = ctx.user
            /\ IsInitialized(ctx.user) /\ clock' = clock
            /\ clock >= user_lock_info[ctx.user].unlock_time
        BY <2>3, UnlockTokensOk DEF UnlockTokens, UnlockTokensContext
      <3> DEFINE u == ctx.user
      <3>2. user_lock_info' = [user_lock_info EXCEPT
                                 ![u] = UnlockedInfo(user_lock_info[u])]
        BY <2>3, <3>1 DEF UnlockTokens
      <3>3. user_lock_info[u] \in UserLockInfo
        BY <3>1 DEF IInv, TypeOK, IsInitialized
      <3>4. UnlockedInfo(user_lock_info[u]).unlock_time = 0
        BY <3>3 DEF UnlockedInfo, UserLockInfo
      <3>5. Held' = [Held EXCEPT ![u] = NoAccount]
        BY <3>1, <3>2, <3>4 DEF Held, IsInitialized, IInv, TypeOK
      <3>6. CASE user_lock_info[u].unlock_time = 0
        <4>1. Held[u] = NoAccount
          BY <3>1, <3>6 DEF Held
        <4> QED
          BY <3>1, <3>5, <4>1 DEF TL!vars, Held
      <3>7. CASE user_lock_info[u].unlock_time # 0
        <4>1. Held[u] = [quantity |-> user_lock_info[u].locked_amount,
                         since |-> user_lock_info[u].unlock_time
                                     - LOCK_DURATION]
          BY <3>1, <3>7 DEF Held
        <4>2. user_lock_info[u].unlock_time \in Int
          BY <3>3 DEF UserLockInfo
        <4>3. Held[u] \in [quantity : Amount, since : Int]
          BY <3>3, <4>1, <4>2 DEF UserLockInfo
        <4>4. Held[u] # NoAccount
          BY <4>3, NoAccountAssumption
        <4>5. clock >= Held[u].since + LOCK_DURATION
          BY <3>1, <4>1, <4>2
        <4>6. TL!Release(u)
          BY <3>1, <3>5, <4>4, <4>5 DEF TL!Release
        <4> QED
          BY <3>1, <4>6 DEF TL!Next
      <3> QED
        BY <3>6, <3>7
    <2> QED
      BY <2>1, <2>2, <2>3, RecordChanges
  <1> QED
    BY <1>1, <1>2, InvariantHolds, PTL DEF Spec, ImplementsTimeLock, TL!Spec

=============================================================================
