------------------------- MODULE TokenScriptsProofs -------------------------
(***************************************************************************)
(* Proofs about TokenScripts for every set of runs of the three scripts,   *)
(* every assignment of wallets and accounts, every rent and every amount.  *)
(***************************************************************************)
EXTENDS TokenScripts, BlocklockCoreProofs

(***************************************************************************)
(* Assignments of one transaction, and what an account is worth.           *)
(***************************************************************************)

\* The three kinds of transactions.
LEMMA Kinds == /\ "createMint" \in Instructions
               /\ "createAccount" \in Instructions
               /\ "mintTo" \in Instructions
    BY DEF Instructions

\* Assigning one transaction of one run leaves every other one as it was.
LEMMA TxUpdate ==
    ASSUME tx \in [Runs -> [Instructions -> TxStates]],
           NEW r \in Runs, NEW ix \in Instructions, NEW st \in TxStates,
           tx' = [tx EXCEPT ![r][ix] = st]
    PROVE  /\ tx' \in [Runs -> [Instructions -> TxStates]]
           /\ tx'[r][ix] = st
           /\ \A q \in Runs, jx \in Instructions :
                q # r \/ jx # ix => tx'[q][jx] = tx[q][jx]
    OBVIOUS

\* No amount is the mark of an address without an account.
LEMMA AmountsAreNotMarks == /\ \A n \in Amount : n # NoAccount
                            /\ 0 \in Amount
                            /\ MINT_AMOUNT \in Amount
                            /\ Amount \subseteq Nat
    BY ConstantsAssumption, NoAccountAssumption, ScriptsAssumption DEF Amount

\* A run of createAndMintTestUSDC.js shares neither its account nor its mint.
LEMMA FreshMintIsOwn ==
    ASSUME NEW r \in Runs, NEW q \in Runs, ScriptOf[r] = "mint", q # r
    PROVE  /\ MintOf(Account[q]) # MintOf(Account[r])
           /\ Account[q] # Account[r]
    BY ScriptsAssumption DEF MintOf

\* The mint of a token account is a mint.
LEMMA MintOfAccount == \A r \in Runs : /\ Account[r] \in TokenAccounts
                                       /\ MintOf(Account[r]) \in Mints
                                       /\ Payer[r] \in Users
    BY ScriptsAssumption, ConstantsAssumption DEF MintOf

-----------------------------------------------------------------------------
(***************************************************************************)
(* The steps of the scripts.                                               *)
(***************************************************************************)

\* A step that leaves the cluster alone and moves one run keeps the
\* invariant, if the run is in order where it goes and what it prints rests
\* on what the cluster holds.
LEMMA RunMoves ==
    ASSUME ScriptsInvariant, UNCHANGED <<vars, supply, view, tx>>,
           NEW r \in Runs, NEW to \in Steps, pc' = [pc EXCEPT ![r] = to],
           ScriptOf[r] # "mint" =>
             to \in {"getAccount", "createAccount", "awaitAccount", "ended"},
           ScriptOf[r] = "mint" /\ to \notin {"createMint", "awaitMint", "ended"}
             => tx[r]["createMint"] \in {"confirmed", "finalized"},
           to \in {"mintTo", "awaitMintTo"} =>
             view["confirmed"][Account[r]] = "open",
           tx[r]["mintTo"] # "unsent" => to \in {"awaitMintTo", "ended"},
           NEW line \in {"nothing", "info", "created", "minted", "error"},
           printed' = [printed EXCEPT ![r] = line],
           line # "nothing" => to = "ended",
           line = "info" =>
             ScriptOf[r] = "check" /\ view["finalized"][Account[r]] = "open",
           line = "created" => Awaited(r, "createAccount"),
           line = "minted" => tx[r]["mintTo"] \in Happened
    PROVE  ScriptsInvariant'
  <1>1. TokenTypeOK'
    BY DEF ScriptsInvariant, TokenTypeOK, TypeOK, vars
  <1>2. AccountPaidOnce' /\ FundedUpToRent' /\ ViewsLag'
    BY DEF ScriptsInvariant, AccountPaidOnce, FundedUpToRent, ViewsLag, IsOpen, vars
  <1>3. CreationsAreSeen' /\ MintedOnce'
    BY DEF ScriptsInvariant, CreationsAreSeen, MintedOnce, IsOpen, vars
  <1>4. RunOrder'
    BY DEF ScriptsInvariant, TokenTypeOK, RunOrder
  <1>5. ReportsRestOn'
    BY DEF ScriptsInvariant, TokenTypeOK, ReportsRestOn, Awaited
  <1> QED
    BY <1>1, <1>2, <1>3, <1>4, <1>5 DEF ScriptsInvariant

\* Printing nothing new is assigning the line that is there.
LEMMA SameLine ==
    ASSUME TokenTypeOK, NEW r \in Runs, UNCHANGED printed
    PROVE  /\ printed[r] \in {"nothing", "info", "created", "minted", "error"}
           /\ printed' = [printed EXCEPT ![r] = printed[r]]
    BY DEF TokenTypeOK

\* Sending the next transaction of a run keeps the invariant: it has not
\* been sent before, and nothing that happened depends on it.
LEMMA SendInv ==
    ASSUME ScriptsInvariant, NEW r \in Runs, NEW ix \in Instructions,
           NEW from \in Steps \ {"ended"}, NEW to \in Steps \ {"ended"},
           <<ix, from, to>> \in {<<"createMint", "createMint", "awaitMint">>,
                                 <<"createAccount", "createAccount", "awaitAccount">>,
                                 <<"mintTo", "mintTo", "awaitMintTo">>},
           Send(r, ix, from, to)
    PROVE  ScriptsInvariant'
  <1> USE Kinds
  <1>1. /\ TokenTypeOK
        /\ UNCHANGED <<vars, supply, view, printed>>
        /\ pc[r] = from /\ pc' = [pc EXCEPT ![r] = to]
    BY DEF ScriptsInvariant, Send, Goto
  <1>2. /\ tx' \in [Runs -> [Instructions -> TxStates]]
        /\ tx'[r][ix] = "sent"
        /\ \A q \in Runs, jx \in Instructions :
             q # r \/ jx # ix => tx'[q][jx] = tx[q][jx]
    BY <1>1, TxUpdate DEF TokenTypeOK, TxStates, Send
  <1>3. TokenTypeOK'
    BY <1>1, <1>2 DEF TokenTypeOK, TypeOK, vars
  <1>4. AccountPaidOnce' /\ FundedUpToRent' /\ ViewsLag'
    BY <1>1, <1>2
    DEF ScriptsInvariant, AccountPaidOnce, FundedUpToRent, ViewsLag, IsOpen, vars,
        Happened
  <1>5. CreationsAreSeen'
    BY <1>1, <1>2 DEF ScriptsInvariant, CreationsAreSeen, Happened, IsOpen, vars
  <1>6. /\ ix = "mintTo" => tx[r]["mintTo"] = "unsent"
        /\ ix = "createMint" => tx[r]["mintTo"] = "unsent"
        /\ ix = "createAccount" => tx[r]["mintTo"] = "unsent"
    BY <1>1 DEF ScriptsInvariant, RunOrder
  <1>7. MintedOnce'
    BY <1>1, <1>2, <1>6
    DEF ScriptsInvariant, MintedOnce, Happened, IsOpen, vars
  <1>8. RunOrder'
    BY <1>1, <1>2, <1>6 DEF ScriptsInvariant, TokenTypeOK, RunOrder
  <1>9. ReportsRestOn'
    BY <1>1, <1>2
    DEF ScriptsInvariant, TokenTypeOK, ReportsRestOn, Awaited, Happened
  <1> QED
    BY <1>3, <1>4, <1>5, <1>7, <1>8, <1>9 DEF ScriptsInvariant

\* Every step of a script keeps the invariant.
LEMMA ScriptStepInv ==
    ASSUME ScriptsInvariant, NEW r \in Runs, ScriptStep(r) \/ Killed(r)
    PROVE  ScriptsInvariant'
  <1> USE Kinds
  <1>1. TokenTypeOK /\ RunOrder
    BY DEF ScriptsInvariant
  <1>2. CASE SendCreateMint(r) \/ SendCreateAccount(r) \/ SendMintTo(r)
    BY <1>2, SendInv
    DEF SendCreateMint, SendCreateAccount, SendMintTo, Instructions, Steps
  <1>3. printed[r] # "nothing" => pc[r] = "ended"
    BY DEF ScriptsInvariant, ReportsRestOn
  <1>4. ASSUME NEW from \in Steps, NEW to \in Steps, from # "ended",
               Goto(r, from, to), UNCHANGED <<vars, supply, view, tx, printed>>,
               ScriptOf[r] # "mint" =>
                 to \in {"getAccount", "createAccount", "awaitAccount", "ended"},
               ScriptOf[r] = "mint" /\ to \notin {"createMint", "awaitMint", "ended"}
                 => tx[r]["createMint"] \in {"confirmed", "finalized"},
               to \in {"mintTo", "awaitMintTo"} =>
                 view["confirmed"][Account[r]] = "open",
               from = "awaitMintTo" => to = "ended"
        PROVE  ScriptsInvariant'
    <2>1. pc[r] = from /\ pc' = [pc EXCEPT ![r] = to]
      BY <1>4 DEF Goto
    <2>2. printed[r] = "nothing" /\ printed' = [printed EXCEPT ![r] = "nothing"]
      BY <1>1, <1>3, <1>4, <2>1, SameLine
    <2>3. tx[r]["mintTo"] # "unsent" => to \in {"awaitMintTo", "ended"}
      BY <1>1, <1>4, <2>1 DEF RunOrder
    <2> QED
      BY <1>1, <1>4, <2>1, <2>2, <2>3, RunMoves
  <1>5. ASSUME NEW from \in Steps,
               NEW line \in {"info", "created", "minted", "error"},
               EndPrinting(r, from, line), UNCHANGED <<vars, supply, view, tx>>,
               line = "info" =>
                 ScriptOf[r] = "check" /\ view["finalized"][Account[r]] = "open",
               line = "created" => Awaited(r, "createAccount"),
               line = "minted" => tx[r]["mintTo"] \in Happened
        PROVE  ScriptsInvariant'
    <2>1. /\ pc' = [pc EXCEPT ![r] = "ended"]
          /\ printed' = [printed EXCEPT ![r] = line]
      BY <1>5 DEF EndPrinting, Goto
    <2>2. "ended" \in Steps
      BY DEF Steps
    <2> QED
      BY <1>1, <1>5, <2>1, <2>2, RunMoves
  <1>6. CASE CreateMintReturns(r)
    <2>1. pc[r] = "awaitMint" /\ ScriptOf[r] = "mint"
      BY <1>1, <1>6 DEF CreateMintReturns, Goto, RunOrder
    <2>2. tx[r]["createMint"] \in {"confirmed", "finalized"}
      BY <1>6 DEF CreateMintReturns, Awaited
    <2> QED
      BY <1>4, <1>6, <2>1, <2>2 DEF CreateMintReturns, Steps
  <1>7. CASE CheckAccount(r)
    <2>1. ScriptOf[r] = "check" /\ Commitment(r) = "finalized"
      BY <1>7 DEF CheckAccount, Commitment
    <2>2. \/ Goto(r, "getAccount", "createAccount") /\ UNCHANGED printed
          \/ EndPrinting(r, "getAccount", "error")
          \/ /\ view["finalized"][Account[r]] = "open"
             /\ EndPrinting(r, "getAccount", "info")
      BY <1>7, <2>1 DEF CheckAccount
    <2>3. UNCHANGED <<vars, supply, view, tx>>
      BY <1>7 DEF CheckAccount
    <2> QED
      BY <1>4, <1>5, <2>1, <2>2, <2>3 DEF Steps
  <1>8. CASE GetOrCreateAccount(r)
    <2>1. ScriptOf[r] = "mint" /\ pc[r] = "getAccount"
      BY <1>8 DEF GetOrCreateAccount, Goto
    <2>2. tx[r]["createMint"] \in {"confirmed", "finalized"}
      BY <1>1, <2>1 DEF RunOrder
    <2>3. Commitment(r) = "confirmed"
      BY <2>1 DEF Commitment
    <2> QED
      BY <1>4, <1>8, <2>1, <2>2, <2>3 DEF GetOrCreateAccount, Steps
  <1>9. CASE CreateAccountReturns(r)
    BY <1>5, <1>9 DEF CreateAccountReturns, Steps
  <1>10. CASE CreateSettles(r)
    <2>1. ScriptOf[r] = "mint" /\ pc[r] \in {"createAccount", "awaitAccount"}
      BY <1>10 DEF CreateSettles, Goto
    <2>2. tx[r]["createMint"] \in {"confirmed", "finalized"}
      BY <1>1, <2>1 DEF RunOrder
    <2> QED
      BY <1>4, <1>10, <2>1, <2>2 DEF CreateSettles, Steps
  <1>11. CASE GetAccountAgain(r)
    <2>1. ScriptOf[r] = "mint" /\ pc[r] = "getAccountAgain"
      BY <1>1, <1>11 DEF GetAccountAgain, EndPrinting, Goto, RunOrder
    <2>2. tx[r]["createMint"] \in {"confirmed", "finalized"}
      BY <1>1, <2>1 DEF RunOrder
    <2>3. Commitment(r) = "confirmed"
      BY <2>1 DEF Commitment
    <2> QED
      BY <1>4, <1>5, <1>11, <2>1, <2>2, <2>3 DEF GetAccountAgain, Steps
  <1>12. CASE MintToReturns(r)
    <2>1. tx[r]["mintTo"] \in Happened
      BY <1>12 DEF MintToReturns, Awaited, Happened
    <2> QED
      BY <1>5, <1>12, <2>1 DEF MintToReturns, Steps
  <1>13. CASE Catch(r)
    <2>1. pc[r] \in Steps
      BY <1>1 DEF TokenTypeOK
    <2> QED
      BY <1>5, <1>13, <2>1 DEF Catch
  <1>14. CASE Killed(r)
    <2>1. pc[r] \in Steps
      BY <1>1 DEF TokenTypeOK
    <2> QED
      BY <1>4, <1>14, <2>1 DEF Killed, Goto, Steps
  <1> QED
    BY <1>2, <1>6, <1>7, <1>8, <1>9, <1>10, <1>11, <1>12, <1>13, <1>14
    DEF ScriptStep

-----------------------------------------------------------------------------
(***************************************************************************)
(* The steps of the cluster.                                               *)
(***************************************************************************)

\* Creating a token account pays for it what its address lacks, opens it
\* empty, and touches no other account; it was not open before.
LEMMA CreateFacts ==
    ASSUME TypeOK, FundedUpToRent, NEW w \in Users, NEW ta \in TokenAccounts,
           CreateTokenAccount(w, ta)
    PROVE  /\ TypeOK'
           /\ ~IsOpen(ta)
           /\ token' = [token EXCEPT ![ta] = 0]
           /\ ata_lamports' = [ata_lamports EXCEPT ![ta] = TOKEN_RENT]
  <1> USE ConstantsAssumption
  <1> DEFINE due == RentDue(TOKEN_RENT, ata_lamports[ta])
  <1>1. /\ due \in Nat
        /\ ata_lamports[ta] + due = TOKEN_RENT
    BY RentDueFacts DEF TypeOK, FundedUpToRent
  <1>2. /\ ~IsOpen(ta)
        /\ lamports[w] >= due
        /\ token' = [token EXCEPT ![ta] = 0]
        /\ lamports' = [lamports EXCEPT ![w] = @ - due]
        /\ ata_lamports' = [ata_lamports EXCEPT ![ta] = @ + due]
        /\ UNCHANGED <<clock, user_lock_info, pda_lamports, receipt>>
    BY DEF CreateTokenAccount, CreateTokenAccountAllowed
  <1> HIDE DEF due
  <1>3. ata_lamports' = [ata_lamports EXCEPT ![ta] = TOKEN_RENT]
    BY <1>1, <1>2
  <1>4. lamports' \in [Users -> Nat]
    BY <1>1, <1>2 DEF TypeOK
  <1>5. token' \in [TokenAccounts -> Amount \cup {NoAccount}]
    BY <1>2 DEF TypeOK, Amount
  <1>6. ata_lamports' \in [TokenAccounts -> Nat]
    BY <1>3 DEF TypeOK
  <1> QED
    BY <1>2, <1>3, <1>4, <1>5, <1>6 DEF TypeOK

\* Funding an address keeps it within the rent and opens nothing.
LEMMA FundFacts ==
    ASSUME TypeOK, FundedUpToRent, NEW w \in Users, NEW ta \in TokenAccounts,
           NEW n \in 1..TOKEN_RENT, FundTokenAccount(w, ta, n)
    PROVE  /\ TypeOK'
           /\ ~IsOpen(ta)
           /\ UNCHANGED token
           /\ \A tb \in TokenAccounts \ {ta} : ata_lamports'[tb] = ata_lamports[tb]
           /\ FundedUpToRent'
  <1> USE ConstantsAssumption
  <1>1. /\ n <= lamports[w] /\ ata_lamports[ta] + n <= TOKEN_RENT
        /\ lamports' = [lamports EXCEPT ![w] = @ - n]
        /\ ata_lamports' = [ata_lamports EXCEPT ![ta] = @ + n]
        /\ UNCHANGED <<clock, user_lock_info, token, pda_lamports, receipt>>
        /\ ~IsOpen(ta)
    BY DEF FundTokenAccount
  <1>2. lamports' \in [Users -> Nat] /\ ata_lamports' \in [TokenAccounts -> Nat]
    BY <1>1 DEF TypeOK
  <1> QED
    BY <1>1, <1>2 DEF TypeOK, FundedUpToRent

\* Opening one more account keeps the parts of the invariant that are about
\* views, runs, mints and reports, whoever opens it.
LEMMA OpeningKeeps ==
    ASSUME ScriptsInvariant, NEW ta \in TokenAccounts, ~IsOpen(ta),
           token' = [token EXCEPT ![ta] = 0], UNCHANGED view
    PROVE  /\ \A tb \in TokenAccounts : IsOpen(tb)' <=> IsOpen(tb) \/ tb = ta
           /\ ViewsLag'
           /\ \A r \in Runs : tx[r]["mintTo"] \in Happened => Account[r] # ta
           /\ \A r \in Runs : ScriptOf[r] = "mint" /\ IsOpen(Account[r])' =>
                token'[Account[r]] =
                  IF tx[r]["mintTo"] \in Happened THEN MINT_AMOUNT ELSE 0
  <1>1. \A tb \in TokenAccounts : IsOpen(tb)' <=> IsOpen(tb) \/ tb = ta
    BY AmountsAreNotMarks DEF ScriptsInvariant, TokenTypeOK, TypeOK, IsOpen
  <1>2. ViewsLag'
    BY <1>1 DEF ScriptsInvariant, ViewsLag
  <1>3. \A r \in Runs : tx[r]["mintTo"] \in Happened => Account[r] # ta
    BY MintOfAccount DEF ScriptsInvariant, RunOrder, ViewsLag, Happened
  <1>4. ASSUME NEW r \in Runs, ScriptOf[r] = "mint", IsOpen(Account[r])'
        PROVE  token'[Account[r]] =
                 IF tx[r]["mintTo"] \in Happened THEN MINT_AMOUNT ELSE 0
    <2>1. CASE Account[r] = ta
      BY <1>3, <2>1 DEF ScriptsInvariant, TokenTypeOK, TypeOK
    <2>2. CASE Account[r] # ta
      BY <1>1, <1>4, <2>2, MintOfAccount
      DEF ScriptsInvariant, TokenTypeOK, TypeOK, MintedOnce
    <2> QED
      BY <2>1, <2>2
  <1> QED
    BY <1>1, <1>2, <1>3, <1>4

\* createMint executes, or fails for want of lamports.
LEMMA ExecuteCreateMintInv ==
    ASSUME ScriptsInvariant, NEW r \in Runs, ExecuteCreateMint(r)
    PROVE  ScriptsInvariant'
  <1> USE Kinds
  <1> DEFINE m == MintOf(Account[r])
  <1>1. PICK st \in {"landed", "failed"} :
          /\ Executed(r, "createMint", st)
          /\ st = "landed" => supply' = [supply EXCEPT ![m] = 0]
          /\ st = "failed" => UNCHANGED supply
          /\ UNCHANGED <<clock, user_lock_info, token, pda_lamports,
                         ata_lamports, receipt>>
          /\ lamports' \in [Users -> Nat]
    <2>1. lamports[Payer[r]] \in Nat /\ lamports \in [Users -> Nat]
      BY MintOfAccount DEF ScriptsInvariant, TokenTypeOK, TypeOK
    <2>2. CASE lamports[Payer[r]] >= MINT_RENT
      BY <2>1, <2>2, MintOfAccount, ScriptsAssumption DEF ExecuteCreateMint
    <2>3. CASE ~(lamports[Payer[r]] >= MINT_RENT)
      BY <2>1, <2>3 DEF ExecuteCreateMint, vars
    <2> QED
      BY <2>2, <2>3
  <1>2. /\ tx[r]["createMint"] = "sent"
        /\ tx' \in [Runs -> [Instructions -> TxStates]]
        /\ tx'[r]["createMint"] = st
        /\ \A q \in Runs, jx \in Instructions :
             q # r \/ jx # "createMint" => tx'[q][jx] = tx[q][jx]
        /\ UNCHANGED <<view, pc, printed>>
    BY <1>1, TxUpdate
    DEF Executed, ScriptsInvariant, TokenTypeOK, TxStates, scriptVars
  <1>3. supply' \in [Mints -> Amount \cup {NoAccount}]
    BY <1>1, MintOfAccount, AmountsAreNotMarks DEF ScriptsInvariant, TokenTypeOK
  <1>4. TokenTypeOK'
    BY <1>1, <1>2, <1>3 DEF ScriptsInvariant, TokenTypeOK, TypeOK
  <1>5. /\ AccountPaidOnce' /\ FundedUpToRent' /\ ViewsLag'
        /\ CreationsAreSeen'
    BY <1>1, <1>2
    DEF ScriptsInvariant, AccountPaidOnce, FundedUpToRent, ViewsLag,
        CreationsAreSeen, IsOpen
  <1>6. tx[r]["mintTo"] = "unsent" /\ ScriptOf[r] = "mint"
    BY <1>2 DEF ScriptsInvariant, RunOrder
  <1>7. RunOrder'
    BY <1>2, <1>6 DEF ScriptsInvariant, RunOrder
  <1>8. MintedOnce'
    <2> SUFFICES ASSUME NEW q \in Runs, ScriptOf[q] = "mint"
                 PROVE  LET issued == IF tx'[q]["mintTo"] \in Happened
                                        THEN MINT_AMOUNT ELSE 0
                        IN  /\ tx'[q]["createMint"] \in Happened =>
                                 supply'[MintOf(Account[q])] = issued
                            /\ IsOpen(Account[q])' => token'[Account[q]] = issued
      BY DEF MintedOnce
    <2>1. IsOpen(Account[q])' = IsOpen(Account[q]) /\ token' = token
      BY <1>1 DEF IsOpen
    <2>2. CASE q = r
      <3>1. tx'[q]["mintTo"] = "unsent"
        BY <1>2, <1>6, <2>2
      <3>2. tx'[q]["createMint"] \in Happened => supply'[m] = 0
        BY <1>1, <1>2, <2>2, MintOfAccount
        DEF Happened, ScriptsInvariant, TokenTypeOK
      <3> QED
        BY <1>6, <2>1, <2>2, <3>1, <3>2 DEF ScriptsInvariant, MintedOnce, Happened
    <2>3. CASE q # r
      <3>1. supply'[MintOf(Account[q])] = supply[MintOf(Account[q])]
        BY <1>1, <1>6, <2>3, FreshMintIsOwn, MintOfAccount
        DEF ScriptsInvariant, TokenTypeOK
      <3> QED
        BY <1>2, <2>1, <2>3, <3>1 DEF ScriptsInvariant, MintedOnce
    <2> QED
      BY <2>2, <2>3
  <1>9. ReportsRestOn'
    BY <1>2 DEF ScriptsInvariant, ReportsRestOn, Awaited
  <1> QED
    BY <1>4, <1>5, <1>7, <1>8, <1>9 DEF ScriptsInvariant

\* The creation of an account executes, or fails because the account is
\* open, its mint is missing, or lamports are.
LEMMA ExecuteCreateAccountInv ==
    ASSUME ScriptsInvariant, NEW r \in Runs, ExecuteCreateAccount(r)
    PROVE  ScriptsInvariant'
  <1> USE Kinds
  <1> DEFINE ta == Account[r]
  <1>1. /\ TokenTypeOK /\ TypeOK /\ FundedUpToRent
        /\ ta \in TokenAccounts /\ Payer[r] \in Users
    BY MintOfAccount DEF ScriptsInvariant, TokenTypeOK
  <1>2. PICK st \in {"landed", "failed"} :
          /\ Executed(r, "createAccount", st)
          /\ st = "landed" => CreateTokenAccount(Payer[r], ta)
          /\ st = "failed" => UNCHANGED vars
    BY DEF ExecuteCreateAccount
  <1>3. /\ tx[r]["createAccount"] = "sent"
        /\ tx' \in [Runs -> [Instructions -> TxStates]]
        /\ tx'[r]["createAccount"] = st
        /\ \A q \in Runs, jx \in Instructions :
             q # r \/ jx # "createAccount" => tx'[q][jx] = tx[q][jx]
        /\ UNCHANGED <<view, pc, printed, supply>>
    BY <1>1, <1>2, TxUpdate
    DEF Executed, TokenTypeOK, TxStates, scriptVars, ExecuteCreateAccount
  <1>4. RunOrder' /\ ReportsRestOn'
    BY <1>3 DEF ScriptsInvariant, RunOrder, ReportsRestOn, Awaited
  <1>5. CASE st = "failed"
    <2>1. TokenTypeOK'
      BY <1>1, <1>2, <1>3, <1>5 DEF TokenTypeOK, TypeOK, vars
    <2>2. AccountPaidOnce' /\ FundedUpToRent' /\ ViewsLag' /\ CreationsAreSeen'
      BY <1>2, <1>3, <1>5
      DEF ScriptsInvariant, AccountPaidOnce, FundedUpToRent, ViewsLag,
          CreationsAreSeen, IsOpen, vars, Happened
    <2>3. MintedOnce'
      BY <1>2, <1>3, <1>5 DEF ScriptsInvariant, MintedOnce, IsOpen, vars
    <2> QED
      BY <1>4, <2>1, <2>2, <2>3 DEF ScriptsInvariant
  <1>6. CASE st = "landed"
    <2>1. /\ TypeOK' /\ ~IsOpen(ta) /\ token' = [token EXCEPT ![ta] = 0]
          /\ ata_lamports' = [ata_lamports EXCEPT ![ta] = TOKEN_RENT]
      BY <1>1, <1>2, <1>6, CreateFacts
    <2>2. /\ \A tb \in TokenAccounts : IsOpen(tb)' <=> IsOpen(tb) \/ tb = ta
          /\ ViewsLag'
          /\ \A q \in Runs : ScriptOf[q] = "mint" /\ IsOpen(Account[q])' =>
               token'[Account[q]] =
                 IF tx[q]["mintTo"] \in Happened THEN MINT_AMOUNT ELSE 0
      BY <1>1, <1>3, <2>1, OpeningKeeps
    <2>3. TokenTypeOK'
      BY <1>1, <1>3, <2>1 DEF TokenTypeOK
    <2>4. FundedUpToRent'
      BY <1>1, <2>1, ConstantsAssumption DEF FundedUpToRent, TypeOK
    <2>5. AccountPaidOnce'
      <3>1. \A tb \in TokenAccounts : IsOpen(tb)' => ata_lamports'[tb] = TOKEN_RENT
        BY <1>1, <2>1, <2>2 DEF ScriptsInvariant, AccountPaidOnce, TypeOK
      <3>2. \A q \in Runs : Account[q] = ta => tx[q]["createAccount"] \notin Happened
        BY <2>1 DEF ScriptsInvariant, CreationsAreSeen
      <3> QED
        BY <1>3, <3>1, <3>2 DEF ScriptsInvariant, AccountPaidOnce
    <2>6. CreationsAreSeen'
      BY <1>3, <1>6, <2>2, MintOfAccount
      DEF ScriptsInvariant, CreationsAreSeen, Happened
    <2>7. MintedOnce'
      BY <1>3, <2>2 DEF ScriptsInvariant, MintedOnce
    <2> QED
      BY <1>4, <2>2, <2>3, <2>4, <2>5, <2>6, <2>7 DEF ScriptsInvariant
  <1> QED
    BY <1>5, <1>6

\* A minting that was sent finds its account open and empty, and its mint
\* without an issue: it executes.
LEMMA MintToFacts ==
    ASSUME ScriptsInvariant, NEW r \in Runs, tx[r]["mintTo"] = "sent"
    PROVE  /\ ScriptOf[r] = "mint"
           /\ IsOpen(Account[r])
           /\ token[Account[r]] = 0
           /\ supply[MintOf(Account[r])] = 0
    BY MintOfAccount
    DEF ScriptsInvariant, RunOrder, ViewsLag, MintedOnce, Happened

\* The minting executes.
LEMMA ExecuteMintToInv ==
    ASSUME ScriptsInvariant, NEW r \in Runs, ExecuteMintTo(r)
    PROVE  ScriptsInvariant'
  <1> USE Kinds
  <1> DEFINE ta == Account[r]
  <1>1. TokenTypeOK /\ TypeOK /\ ta \in TokenAccounts /\ MintOf(ta) \in Mints
    BY MintOfAccount DEF ScriptsInvariant, TokenTypeOK
  <1>2. tx[r]["mintTo"] = "sent"
    BY DEF ExecuteMintTo, Executed
  <1>3. /\ ScriptOf[r] = "mint" /\ IsOpen(ta) /\ token[ta] = 0
        /\ supply[MintOf(ta)] = 0
    BY <1>2, MintToFacts
  <1>4. /\ MintTo(ta, MINT_AMOUNT)
        /\ Executed(r, "mintTo", "landed")
        /\ supply' = [supply EXCEPT ![MintOf(ta)] = @ + MINT_AMOUNT]
    BY <1>3 DEF ExecuteMintTo
  <1>5. /\ tx' \in [Runs -> [Instructions -> TxStates]]
        /\ tx'[r]["mintTo"] = "landed"
        /\ \A q \in Runs, jx \in Instructions :
             q # r \/ jx # "mintTo" => tx'[q][jx] = tx[q][jx]
        /\ UNCHANGED <<view, pc, printed>>
    BY <1>1, <1>4, TxUpdate DEF Executed, TokenTypeOK, TxStates, scriptVars
  <1>6. /\ token' = [token EXCEPT ![ta] = MINT_AMOUNT]
        /\ supply' = [supply EXCEPT ![MintOf(ta)] = MINT_AMOUNT]
        /\ UNCHANGED <<clock, user_lock_info, lamports, pda_lamports,
                       ata_lamports, receipt>>
    BY <1>3, <1>4, AmountsAreNotMarks DEF MintTo
  <1>7. \A tb \in TokenAccounts : IsOpen(tb)' <=> IsOpen(tb)
    BY <1>1, <1>3, <1>6, AmountsAreNotMarks DEF IsOpen, TypeOK
  <1>8. TokenTypeOK'
    BY <1>1, <1>5, <1>6, AmountsAreNotMarks DEF TokenTypeOK, TypeOK
  <1>9. AccountPaidOnce' /\ FundedUpToRent' /\ ViewsLag'
    BY <1>5, <1>6, <1>7
    DEF ScriptsInvariant, AccountPaidOnce, FundedUpToRent, ViewsLag
  <1>10. CreationsAreSeen'
    BY <1>5, <1>7, MintOfAccount DEF ScriptsInvariant, CreationsAreSeen
  <1>11. RunOrder' /\ ReportsRestOn'
    BY <1>2, <1>5
    DEF ScriptsInvariant, RunOrder, ReportsRestOn, Awaited, Happened
  <1>12. MintedOnce'
    <2> SUFFICES ASSUME NEW q \in Runs, ScriptOf[q] = "mint"
                 PROVE  LET issued == IF tx'[q]["mintTo"] \in Happened
                                        THEN MINT_AMOUNT ELSE 0
                        IN  /\ tx'[q]["createMint"] \in Happened =>
                                 supply'[MintOf(Account[q])] = issued
                            /\ IsOpen(Account[q])' => token'[Account[q]] = issued
      BY DEF MintedOnce
    <2>1. CASE q = r
      BY <1>1, <1>5, <1>6, <2>1 DEF TokenTypeOK, TypeOK, Happened
    <2>2. CASE q # r
      <3>1. /\ supply'[MintOf(Account[q])] = supply[MintOf(Account[q])]
            /\ token'[Account[q]] = token[Account[q]]
            /\ IsOpen(Account[q])' <=> IsOpen(Account[q])
        BY <1>1, <1>3, <1>6, <1>7, <2>2, FreshMintIsOwn, MintOfAccount
        DEF TokenTypeOK, TypeOK
      <3> QED
        BY <1>5, <2>2, <3>1 DEF ScriptsInvariant, MintedOnce
    <2> QED
      BY <2>1, <2>2
  <1> QED
    BY <1>8, <1>9, <1>10, <1>11, <1>12 DEF ScriptsInvariant

\* Moving on which blocks are confirmed or finalized changes no result, only
\* how far it is seen.
LEMMA CommitmentKeeps ==
    ASSUME ScriptsInvariant, NEW from \in TxStates, NEW to \in TxStates,
           <<from, to>> \in {<<"landed", "confirmed">>, <<"confirmed", "finalized">>},
           tx' = [r \in Runs |-> [ix \in Instructions |->
                    IF tx[r][ix] = from THEN to ELSE tx[r][ix]]],
           view' \in [Commitments ->
                       [TokenAccounts -> {"missing", "foreign", "open"}]],
           \A ta \in TokenAccounts, c \in Commitments :
               view[c][ta] = "open" => view'[c][ta] = "open",
           UNCHANGED <<vars, supply, scriptVars>>
    PROVE  /\ TokenTypeOK' /\ AccountPaidOnce' /\ FundedUpToRent'
           /\ RunOrder' /\ MintedOnce' /\ ReportsRestOn'
           /\ \A r \in Runs, ix \in Instructions :
                /\ tx'[r][ix] = IF tx[r][ix] = from THEN to ELSE tx[r][ix]
                /\ tx'[r][ix] \in Happened <=> tx[r][ix] \in Happened
  <1> USE Kinds
  <1>1. \A r \in Runs, ix \in Instructions :
          /\ tx'[r][ix] = IF tx[r][ix] = from THEN to ELSE tx[r][ix]
          /\ tx'[r][ix] \in Happened <=> tx[r][ix] \in Happened
          /\ tx[r][ix] \in {"confirmed", "finalized"} =>
               tx'[r][ix] \in {"confirmed", "finalized"}
          /\ tx[r][ix] = "finalized" => tx'[r][ix] = "finalized"
          /\ tx'[r][ix] = "unsent" <=> tx[r][ix] = "unsent"
          /\ tx'[r][ix] = "failed" <=> tx[r][ix] = "failed"
    BY DEF Happened
  <1>2. tx' \in [Runs -> [Instructions -> TxStates]]
    BY DEF ScriptsInvariant, TokenTypeOK
  <1>3. TokenTypeOK'
    BY <1>2 DEF ScriptsInvariant, TokenTypeOK, TypeOK, vars, scriptVars
  <1>4. AccountPaidOnce' /\ FundedUpToRent'
    BY <1>1 DEF ScriptsInvariant, AccountPaidOnce, FundedUpToRent, IsOpen, vars
  <1>5. \A r \in Runs, c \in Commitments :
          view[c][Account[r]] = "open" => view'[c][Account[r]] = "open"
    BY MintOfAccount
  <1>6. "confirmed" \in Commitments /\ "finalized" \in Commitments
    BY DEF Commitments
  <1>7. RunOrder'
    BY <1>1, <1>5, <1>6 DEF ScriptsInvariant, RunOrder, scriptVars
  <1>8. MintedOnce'
    BY <1>1 DEF ScriptsInvariant, MintedOnce, IsOpen, vars
  <1>9. ReportsRestOn'
    BY <1>1, <1>5, <1>6 DEF ScriptsInvariant, ReportsRestOn, Awaited, scriptVars
  <1> QED
    BY <1>1, <1>3, <1>4, <1>7, <1>8, <1>9

\* Blocks are confirmed.
LEMMA ConfirmInv == ASSUME ScriptsInvariant, Confirm PROVE ScriptsInvariant'
  <1> USE Kinds
  <1>1. /\ view \in [Commitments ->
                      [TokenAccounts -> {"missing", "foreign", "open"}]]
        /\ view' = [view EXCEPT !["confirmed"] =
                     [ta \in TokenAccounts |-> AccountState(ta)]]
        /\ "confirmed" \in Commitments /\ "finalized" \in Commitments
    BY DEF Confirm, Commitments, ScriptsInvariant, TokenTypeOK
  <1>2. \A ta \in TokenAccounts :
          /\ AccountState(ta) \in {"missing", "foreign", "open"}
          /\ AccountState(ta) = "open" <=> IsOpen(ta)
    BY DEF AccountState
  <1>3. view' \in [Commitments ->
                    [TokenAccounts -> {"missing", "foreign", "open"}]]
    BY <1>1, <1>2
  <1>4. \A ta \in TokenAccounts :
          /\ view'["confirmed"][ta] = "open" <=> IsOpen(ta)
          /\ view'["finalized"][ta] = view["finalized"][ta]
    BY <1>1, <1>2
  <1>5. \A ta \in TokenAccounts, c \in Commitments :
          view[c][ta] = "open" => view'[c][ta] = "open"
    BY <1>4 DEF ScriptsInvariant, ViewsLag, Commitments
  <1>6. /\ TokenTypeOK' /\ AccountPaidOnce' /\ FundedUpToRent'
        /\ RunOrder' /\ MintedOnce' /\ ReportsRestOn'
        /\ \A r \in Runs, ix \in Instructions :
             /\ tx'[r][ix] = IF tx[r][ix] = "landed" THEN "confirmed" ELSE tx[r][ix]
             /\ tx'[r][ix] \in Happened <=> tx[r][ix] \in Happened
    BY <1>3, <1>5, CommitmentKeeps DEF Confirm, TxStates
  <1>7. \A ta \in TokenAccounts : IsOpen(ta)' <=> IsOpen(ta)
    BY DEF Confirm, vars, IsOpen
  <1>8. ViewsLag'
    BY <1>4, <1>7 DEF ScriptsInvariant, ViewsLag
  <1>9. CreationsAreSeen'
    BY <1>4, <1>6, <1>7, MintOfAccount
    DEF ScriptsInvariant, CreationsAreSeen, Happened
  <1> QED
    BY <1>6, <1>8, <1>9 DEF ScriptsInvariant

\* Confirmed blocks are finalized.
LEMMA FinalizeInv == ASSUME ScriptsInvariant, Finalize PROVE ScriptsInvariant'
  <1> USE Kinds
  <1>1. /\ view \in [Commitments ->
                      [TokenAccounts -> {"missing", "foreign", "open"}]]
        /\ view' = [view EXCEPT !["finalized"] = view["confirmed"]]
        /\ "confirmed" \in Commitments /\ "finalized" \in Commitments
    BY DEF Finalize, Commitments, ScriptsInvariant, TokenTypeOK
  <1>2. view' \in [Commitments ->
                    [TokenAccounts -> {"missing", "foreign", "open"}]]
    BY <1>1
  <1>3. \A ta \in TokenAccounts :
          /\ view'["confirmed"][ta] = view["confirmed"][ta]
          /\ view'["finalized"][ta] = view["confirmed"][ta]
    BY <1>1
  <1>4. \A ta \in TokenAccounts, c \in Commitments :
          view[c][ta] = "open" => view'[c][ta] = "open"
    BY <1>3 DEF ScriptsInvariant, ViewsLag, Commitments
  <1>5. /\ TokenTypeOK' /\ AccountPaidOnce' /\ FundedUpToRent'
        /\ RunOrder' /\ MintedOnce' /\ ReportsRestOn'
        /\ \A r \in Runs, ix \in Instructions :
             /\ tx'[r][ix] =
                  IF tx[r][ix] = "confirmed" THEN "finalized" ELSE tx[r][ix]
             /\ tx'[r][ix] \in Happened <=> tx[r][ix] \in Happened
    BY <1>2, <1>4, CommitmentKeeps DEF Finalize, TxStates
  <1>6. \A ta \in TokenAccounts : IsOpen(ta)' <=> IsOpen(ta)
    BY DEF Finalize, vars, IsOpen
  <1>7. ViewsLag'
    BY <1>3, <1>6 DEF ScriptsInvariant, ViewsLag
  <1>8. CreationsAreSeen'
    BY <1>3, <1>5, <1>6, MintOfAccount
    DEF ScriptsInvariant, CreationsAreSeen, Happened
  <1> QED
    BY <1>5, <1>7, <1>8 DEF ScriptsInvariant

\* Other clients create and fund accounts.
LEMMA OtherClientsInv ==
    ASSUME ScriptsInvariant, OtherClients PROVE ScriptsInvariant'
  <1>1. TokenTypeOK /\ TypeOK /\ FundedUpToRent
    BY DEF ScriptsInvariant, TokenTypeOK
  <1>2. UNCHANGED <<supply, view, tx, pc, printed>>
    BY DEF OtherClients, scriptVars
  <1>3. RunOrder' /\ ReportsRestOn'
    BY <1>2 DEF ScriptsInvariant, RunOrder, ReportsRestOn, Awaited
  <1>4. ASSUME NEW w \in Users, NEW ta \in TokenAccounts, CreateTokenAccount(w, ta)
        PROVE  ScriptsInvariant'
    <2>1. /\ TypeOK' /\ ~IsOpen(ta) /\ token' = [token EXCEPT ![ta] = 0]
          /\ ata_lamports' = [ata_lamports EXCEPT ![ta] = TOKEN_RENT]
      BY <1>1, <1>4, CreateFacts
    <2>2. /\ \A tb \in TokenAccounts : IsOpen(tb)' <=> IsOpen(tb) \/ tb = ta
          /\ ViewsLag'
          /\ \A q \in Runs : ScriptOf[q] = "mint" /\ IsOpen(Account[q])' =>
               token'[Account[q]] =
                 IF tx[q]["mintTo"] \in Happened THEN MINT_AMOUNT ELSE 0
      BY <1>2, <2>1, OpeningKeeps
    <2>3. TokenTypeOK'
      BY <1>1, <1>2, <2>1 DEF TokenTypeOK
    <2>4. FundedUpToRent'
      BY <1>1, <2>1, ConstantsAssumption DEF FundedUpToRent, TypeOK
    <2>5. AccountPaidOnce'
      BY <1>1, <1>2, <2>1, <2>2 DEF ScriptsInvariant, AccountPaidOnce, TypeOK
    <2>6. CreationsAreSeen'
      BY <1>2, <2>2, MintOfAccount DEF ScriptsInvariant, CreationsAreSeen
    <2>7. MintedOnce'
      BY <1>2, <2>2 DEF ScriptsInvariant, MintedOnce
    <2> QED
      BY <1>3, <2>2, <2>3, <2>4, <2>5, <2>6, <2>7 DEF ScriptsInvariant
  <1>5. ASSUME NEW w \in Users, NEW ta \in TokenAccounts,
               NEW n \in 1..TOKEN_RENT, FundTokenAccount(w, ta, n)
        PROVE  ScriptsInvariant'
    <2>1. /\ TypeOK' /\ ~IsOpen(ta) /\ UNCHANGED token
          /\ \A tb \in TokenAccounts \ {ta} : ata_lamports'[tb] = ata_lamports[tb]
          /\ FundedUpToRent'
      BY <1>1, <1>5, FundFacts
    <2>2. \A tb \in TokenAccounts : IsOpen(tb)' <=> IsOpen(tb)
      BY <2>1 DEF IsOpen
    <2>3. TokenTypeOK'
      BY <1>1, <1>2, <2>1 DEF TokenTypeOK
    <2>4. AccountPaidOnce' /\ ViewsLag'
      BY <1>2, <2>1, <2>2 DEF ScriptsInvariant, AccountPaidOnce, ViewsLag
    <2>5. CreationsAreSeen' /\ MintedOnce'
      BY <1>2, <2>1, <2>2, MintOfAccount
      DEF ScriptsInvariant, CreationsAreSeen, MintedOnce
    <2> QED
      BY <1>3, <2>1, <2>3, <2>4, <2>5 DEF ScriptsInvariant
  <1> QED
    BY <1>4, <1>5 DEF OtherClients

-----------------------------------------------------------------------------
(***************************************************************************)
(* The theorems.                                                           *)
(***************************************************************************)

\* Every step keeps the invariant.
LEMMA ScriptsStep == ScriptsInvariant /\ [TokenNext]_tokenVars => ScriptsInvariant'
  <1> SUFFICES ASSUME ScriptsInvariant, [TokenNext]_tokenVars
               PROVE  ScriptsInvariant'
    OBVIOUS
  <1>1. CASE UNCHANGED tokenVars
    <2>1. TokenTypeOK'
      BY <1>1 DEF ScriptsInvariant, TokenTypeOK, TypeOK, tokenVars, vars
    <2>2. AccountPaidOnce' /\ FundedUpToRent' /\ ViewsLag' /\ RunOrder'
      BY <1>1 DEF ScriptsInvariant, AccountPaidOnce, FundedUpToRent, ViewsLag,
         RunOrder, IsOpen, tokenVars, vars
    <2>3. CreationsAreSeen' /\ MintedOnce' /\ ReportsRestOn'
      BY <1>1 DEF ScriptsInvariant, CreationsAreSeen, MintedOnce,
         ReportsRestOn, Awaited, IsOpen, tokenVars, vars
    <2> QED
      BY <2>1, <2>2, <2>3 DEF ScriptsInvariant
  <1> QED
    BY <1>1, ScriptStepInv, ExecuteCreateMintInv, ExecuteCreateAccountInv,
       ExecuteMintToInv, ConfirmInv, FinalizeInv, OtherClientsInv
    DEF TokenNext

\* No script has run, no account is open.
LEMMA ScriptsStart == TokenInit => ScriptsInvariant
  <1> USE Kinds, ConstantsAssumption
  <1> SUFFICES ASSUME TokenInit PROVE ScriptsInvariant
    OBVIOUS
  <1>1. /\ token = [ta \in TokenAccounts |-> NoAccount]
        /\ ata_lamports = [ta \in TokenAccounts |-> 0]
        /\ view = [c \in Commitments |->
                    [ta \in TokenAccounts |-> AccountState(ta)]]
        /\ tx = [r \in Runs |-> [ix \in Instructions |-> "unsent"]]
        /\ printed = [r \in Runs |-> "nothing"]
    BY DEF TokenInit, Init
  <1>2. \A ta \in TokenAccounts : ~IsOpen(ta) /\ AccountState(ta) = "missing"
    BY <1>1 DEF IsOpen, AccountState
  <1>3. PICK started \in Together :
         pc = [r \in Runs |->
                 IF r \in started THEN FirstStep[ScriptOf[r]] ELSE "ended"]
    BY DEF TokenInit
  <1>4. \A r \in Runs :
          /\ pc[r] \in {"ended", "getAccount", "createAccount", "createMint"}
          /\ ScriptOf[r] # "mint" => pc[r] # "createMint"
          /\ ScriptOf[r] = "mint" => pc[r] \in {"createMint", "ended"}
    BY <1>3, ScriptsAssumption DEF Scripts, FirstStep
  <1>5. pc \in [Runs -> Steps]
    BY <1>3, <1>4 DEF Steps
  <1>6. TypeOK
    BY DEF TokenInit, Init, TypeOK, NoReceipt, Ok
  <1>7. supply \in [Mints -> Amount \cup {NoAccount}]
    BY AmountsAreNotMarks DEF TokenInit
  <1>8. view \in [Commitments ->
                   [TokenAccounts -> {"missing", "foreign", "open"}]]
    BY <1>1, <1>2
  <1>9. TokenTypeOK
    BY <1>1, <1>5, <1>6, <1>7, <1>8 DEF TokenTypeOK, TxStates
  <1>10. AccountPaidOnce /\ FundedUpToRent
    BY <1>1, <1>2 DEF AccountPaidOnce, FundedUpToRent, Happened
  <1>11. ViewsLag /\ CreationsAreSeen
    BY <1>1, <1>2 DEF ViewsLag, CreationsAreSeen, Happened, Commitments
  <1>12. RunOrder
    BY <1>1, <1>4 DEF RunOrder
  <1>13. MintedOnce
    BY <1>1, <1>2, MintOfAccount DEF MintedOnce, Happened
  <1>14. ReportsRestOn
    BY <1>1 DEF ReportsRestOn
  <1> QED
    BY <1>9, <1>10, <1>11, <1>12, <1>13, <1>14 DEF ScriptsInvariant

\* The set-up scripts keep their invariant: whatever the interleaving of
\* runs, late transactions and other clients, racing runs of
\* check_token_account.js and createUSDCAccount.js pay for an account once,
\* wallets stay solvent, and createAndMintTestUSDC.js mints once.
THEOREM ScriptsInvariantHolds == TokenSpec => []ScriptsInvariant
  <1>1. TokenInit => ScriptsInvariant
    BY ScriptsStart
  <1>2. ScriptsInvariant /\ [TokenNext]_tokenVars => ScriptsInvariant'
    BY ScriptsStep
  <1> QED
    BY <1>1, <1>2, PTL DEF TokenSpec

\* What the set-up scripts print is so: an account shown is open, one
\* reported as created was created by this run's transaction, and the amount
\* reported as minted is the whole supply of the new mint.
THEOREM PrintedIsTrueHolds == TokenSpec => []PrintedIsTrue
  <1>1. ScriptsInvariant => PrintedIsTrue
    <2> SUFFICES ASSUME ScriptsInvariant, NEW r \in Runs,
                        printed[r] \in {"info", "created", "minted"}
                 PROVE  /\ IsOpen(Account[r])
                        /\ printed[r] = "created" =>
                             tx[r]["createAccount"] \in Happened
                        /\ printed[r] = "minted" =>
                             /\ supply[MintOf(Account[r])] = MINT_AMOUNT
                             /\ token[Account[r]] = MINT_AMOUNT
      BY DEF PrintedIsTrue
    <2>1. CASE printed[r] = "info"
      BY <2>1, MintOfAccount DEF ScriptsInvariant, ReportsRestOn, ViewsLag
    <2>2. CASE printed[r] = "created"
      BY <2>2, MintOfAccount
      DEF ScriptsInvariant, ReportsRestOn, Awaited, CreationsAreSeen, Happened
    <2>3. CASE printed[r] = "minted"
      <3>1. tx[r]["mintTo"] \in Happened
        BY <2>3 DEF ScriptsInvariant, ReportsRestOn
      <3>2. /\ ScriptOf[r] = "mint" /\ IsOpen(Account[r])
            /\ tx[r]["createMint"] \in Happened
        BY <3>1, MintOfAccount DEF ScriptsInvariant, RunOrder, ViewsLag, Happened
      <3> QED
        BY <2>3, <3>1, <3>2 DEF ScriptsInvariant, MintedOnce
    <2> QED
      BY <2>1, <2>2, <2>3
  <1> QED
    BY <1>1, ScriptsInvariantHolds, PTL

\* The minting of createAndMintTestUSDC.js never fails on chain, although
\* getOrCreateAssociatedTokenAccount ignores every error of the creation.
THEOREM MintToSucceedsHolds == TokenSpec => MintToSucceeds
  <1>1. ScriptsInvariant' => MintToFinds
    BY DEF ScriptsInvariant, RunOrder, MintToFinds
  <1>2. ScriptsInvariant /\ [TokenNext]_tokenVars => [MintToFinds]_tokenVars
    BY <1>1, ScriptsStep
  <1> QED
    BY <1>2, ScriptsInvariantHolds, PTL DEF TokenSpec, MintToSucceeds

\* Once a run of check_token_account.js has reported an account as created
\* or shown it, no run that reads later goes on to create it.
THEOREM CheckIsRepeatableHolds == TokenSpec => CheckIsRepeatable
  <1>1. ASSUME ScriptsInvariant, [TokenNext]_tokenVars
        PROVE  [LooksAfterReport]_tokenVars
    <2> SUFFICES ASSUME NEW r \in Runs, NEW q \in Runs,
                        ScriptOf[r] = "check", ScriptOf[q] = "check",
                        Account[r] = Account[q],
                        printed[q] \in {"created", "info"},
                        pc[r] = "getAccount", pc'[r] = "createAccount"
                 PROVE  FALSE
      BY DEF LooksAfterReport
    <2>1. view["finalized"][Account[r]] = "open"
      BY <1>1 DEF ScriptsInvariant, ReportsRestOn, Awaited, Commitment,
         CreationsAreSeen
    <2>2. pc \in [Runs -> Steps]
      BY <1>1 DEF ScriptsInvariant, TokenTypeOK
    <2>3. CASE CheckAccount(r)
      <3>1. view["finalized"][Account[r]] # "open" \/ pc' = [pc EXCEPT ![r] = "ended"]
        BY <2>3 DEF CheckAccount, Commitment, EndPrinting, Goto
      <3> QED
        BY <2>1, <2>2, <3>1
    <2>4. CASE UNCHANGED pc
      BY <2>4
    <2>5. ASSUME NEW p \in Runs, ScriptStep(p) \/ Killed(p)
          PROVE  \/ CheckAccount(r)
                 \/ UNCHANGED pc
                 \/ pc'[r] # "createAccount"
      <3>1. CASE p # r
        BY <1>1, <2>2, <2>5, <3>1
        DEF ScriptStep, Killed, SendCreateMint, CreateMintReturns, CheckAccount,
            GetOrCreateAccount, SendCreateAccount, CreateAccountReturns,
            CreateSettles, GetAccountAgain, SendMintTo, MintToReturns, Catch,
            Send, EndPrinting, Goto
      <3>2. CASE p = r
        BY <1>1, <2>2, <2>5, <3>2
        DEF ScriptStep, Killed, SendCreateMint, CreateMintReturns,
            GetOrCreateAccount, SendCreateAccount, CreateAccountReturns,
            CreateSettles, GetAccountAgain, SendMintTo, MintToReturns, Catch,
            Send, EndPrinting, Goto
      <3> QED
        BY <3>1, <3>2
    <2> QED
      BY <1>1, <2>3, <2>4, <2>5
      DEF TokenNext, ExecuteCreateMint, ExecuteCreateAccount, ExecuteMintTo,
          Executed, Confirm, Finalize, OtherClients, scriptVars, tokenVars
  <1>2. ScriptsInvariant /\ [TokenNext]_tokenVars => [LooksAfterReport]_tokenVars
    BY <1>1
  <1> QED
    BY <1>2, ScriptsInvariantHolds, PTL DEF TokenSpec, CheckIsRepeatable

=============================================================================
