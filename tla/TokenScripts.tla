---------------------------- MODULE TokenScripts ----------------------------
(***************************************************************************)
(* The set-up scripts app/src/check_token_account.js,                      *)
(* createUSDCAccount.js and createAndMintTestUSDC.js, on the ledger of     *)
(* BlocklockCore.  Any number of runs proceed at once.                     *)
(*                                                                         *)
(* The first script reads and waits at commitment "finalized", the default *)
(* of its Connection, the other two at "confirmed".  Both views lag behind *)
(* the tip, finalized behind confirmed.  A transaction that was sent may   *)
(* execute at any later moment, also after its run gave up, or never.      *)
(***************************************************************************)
EXTENDS BlocklockCore

CONSTANTS
    Runs,        \* executions of the scripts
    ScriptOf,    \* which script each run executes
    Payer,       \* the wallet of the run's key file
    Account,     \* the associated token account the run works on; for "mint"
                 \* its mint is the key pair that createMint generates
    Together,    \* bound: the runs that may be started beside each other
    MINT_RENT,   \* rent-exempt balance of a mint account
    MINT_AMOUNT  \* 1000 * 10**6

Scripts == {"check", "create", "mint"}

FreshMints == {MintOf(Account[r]) : r \in {q \in Runs : ScriptOf[q] = "mint"}}

ASSUME ScriptsAssumption ==
    /\ ScriptOf \in [Runs -> Scripts]
    /\ Together \subseteq SUBSET Runs
    /\ Payer \in [Runs -> Users]
    /\ Account \in [Runs -> TokenAccounts]
    /\ \A r, q \in Runs :
         ScriptOf[r] = "mint" /\ MintOf(Account[q]) = MintOf(Account[r])
         => q = r
    /\ \A r \in Runs : ScriptOf[r] = "mint" => Account[r][1] = Payer[r]
    /\ MINT_RENT \in Nat
    /\ MINT_AMOUNT \in Amount \ {0}

Instructions == {"createMint", "createAccount", "mintTo"}

TxStates == {"unsent", "sent", "failed", "landed", "confirmed", "finalized"}

Commitments == {"confirmed", "finalized"}

VARIABLES
    supply,   \* tokens issued of each mint, NoAccount before the mint exists
    view,     \* the state of each token account at each commitment
    pc,       \* where each run is
    tx,       \* state of each run's transaction of each kind
    printed   \* the last line each run printed about its result

scriptVars == <<pc, printed>>
tokenVars == <<vars, supply, view, pc, tx, printed>>

Steps == {"createMint", "awaitMint", "getAccount", "createAccount",
          "awaitAccount", "getAccountAgain", "mintTo", "awaitMintTo", "ended"}

\* new Connection(url) reads at "finalized", new Connection(url, "confirmed")
\* at "confirmed".
Commitment(r) == IF ScriptOf[r] = "check" THEN "finalized" ELSE "confirmed"

\* sendAndConfirmTransaction with { commitment: "confirmed" }.
AwaitedConfirmed(r, ix) == tx[r][ix] \in {"confirmed", "finalized"}

\* sendAndConfirmTransaction returns when its transaction is this far.
Awaited(r, ix) ==
    tx[r][ix] \in IF Commitment(r) = "finalized"
                    THEN {"finalized"} ELSE {"confirmed", "finalized"}

\* What getAccount finds: no account, one of another program, or a token
\* account.
AccountState(ta) ==
    IF IsOpen(ta) THEN "open"
    ELSE IF ata_lamports[ta] = 0 THEN "missing" ELSE "foreign"

-----------------------------------------------------------------------------
(***************************************************************************)
(* The scripts.                                                            *)
(***************************************************************************)

Goto(r, from, to) ==
    /\ pc[r] = from
    /\ pc' = [pc EXCEPT ![r] = to]

EndPrinting(r, from, line) ==
    /\ Goto(r, from, "ended")
    /\ printed' = [printed EXCEPT ![r] = line]

Send(r, ix, from, to) ==
    /\ Goto(r, from, to)
    /\ tx' = [tx EXCEPT ![r][ix] = "sent"]
    /\ UNCHANGED <<vars, supply, view, printed>>

\* createMint of a new key pair.
SendCreateMint(r) == Send(r, "createMint", "createMint", "awaitMint")

CreateMintReturns(r) ==
    /\ Awaited(r, "createMint")
    /\ Goto(r, "awaitMint", "getAccount")
    /\ UNCHANGED <<vars, supply, view, tx, printed>>

\* check_token_account.js creates the account when none is found, prints one
\* that it finds, and rethrows the error for an account that is not a token
\* account.
CheckAccount(r) ==
    LET found == view[Commitment(r)][Account[r]]
    IN  /\ ScriptOf[r] = "check"
        /\ \/ found = "missing" /\ Goto(r, "getAccount", "createAccount")
                                /\ UNCHANGED printed
           \/ found = "foreign" /\ EndPrinting(r, "getAccount", "error")
           \/ found = "open" /\ EndPrinting(r, "getAccount", "info")
        /\ UNCHANGED <<vars, supply, view, tx>>

\* The address is derived and the account is not created.
GetOrCreateAccountNever(r) ==
    /\ ScriptOf[r] = "mint"
    /\ Goto(r, "getAccount", "mintTo")
    /\ UNCHANGED <<vars, supply, view, tx, printed>>

\* getOrCreateAssociatedTokenAccount creates the account in both cases.
GetOrCreateAccount(r) ==
    /\ ScriptOf[r] = "mint"
    /\ Goto(r, "getAccount",
            IF view[Commitment(r)][Account[r]] = "open"
              THEN "mintTo" ELSE "createAccount")
    /\ UNCHANGED <<vars, supply, view, tx, printed>>

SendCreateAccount(r) ==
    Send(r, "createAccount", "createAccount", "awaitAccount")

\* The creation is reported as soon as the transaction has executed.
CreateAccountReturnsEarly(r) ==
    /\ tx[r]["createAccount"] # "failed"
    /\ ScriptOf[r] # "mint"
    /\ EndPrinting(r, "awaitAccount", "created")
    /\ UNCHANGED <<vars, supply, view, tx>>

CreateAccountReturns(r) ==
    /\ Awaited(r, "createAccount")
    /\ ScriptOf[r] # "mint"
    /\ EndPrinting(r, "awaitAccount", "created")
    /\ UNCHANGED <<vars, supply, view, tx>>

\* getOrCreateAssociatedTokenAccount ignores every error of the creation and
\* reads the account again.
CreateSettles(r) ==
    /\ ScriptOf[r] = "mint"
    /\ \/ Goto(r, "createAccount", "getAccountAgain")
       \/ Goto(r, "awaitAccount", "getAccountAgain")
    /\ UNCHANGED <<vars, supply, view, tx, printed>>

GetAccountAgain(r) ==
    /\ \/ /\ view[Commitment(r)][Account[r]] = "open"
          /\ Goto(r, "getAccountAgain", "mintTo")
          /\ UNCHANGED printed
       \/ /\ view[Commitment(r)][Account[r]] # "open"
          /\ EndPrinting(r, "getAccountAgain", "error")
    /\ UNCHANGED <<vars, supply, view, tx>>

SendMintTo(r) == Send(r, "mintTo", "mintTo", "awaitMintTo")

MintToReturns(r) ==
    /\ Awaited(r, "mintTo")
    /\ EndPrinting(r, "awaitMintTo", "minted")
    /\ UNCHANGED <<vars, supply, view, tx>>

\* A wait without a time-out, and refusals that are tried again.
CatchOnlyReads(r) ==
    /\ pc[r] \in {"getAccount", "getAccountAgain"}
    /\ EndPrinting(r, pc[r], "error")
    /\ UNCHANGED <<vars, supply, view, tx>>

\* Errors reach the catch of all three scripts: a read fails, the node
\* refuses a transaction, it fails on chain, or its confirmation times out.
\* Only the creation inside getOrCreateAssociatedTokenAccount has a catch of
\* its own (CreateSettles).
Catch(r) ==
    /\ pc[r] # "ended"
    /\ ~(ScriptOf[r] = "mint" /\ pc[r] \in {"createAccount", "awaitAccount"})
    /\ EndPrinting(r, pc[r], "error")
    /\ UNCHANGED <<vars, supply, view, tx>>

ScriptStep(r) ==
    \/ SendCreateMint(r)
    \/ CreateMintReturns(r)
    \/ CheckAccount(r)
    \/ GetOrCreateAccount(r)
    \/ SendCreateAccount(r)
    \/ CreateAccountReturns(r)
    \/ CreateSettles(r)
    \/ GetAccountAgain(r)
    \/ SendMintTo(r)
    \/ MintToReturns(r)
    \/ Catch(r)

-----------------------------------------------------------------------------
(***************************************************************************)
(* The cluster, as the scripts depend on it, and the other clients.        *)
(***************************************************************************)

Executed(r, ix, result) ==
    /\ tx[r][ix] = "sent"
    /\ tx' = [tx EXCEPT ![r][ix] = result]
    /\ UNCHANGED <<view, scriptVars>>

\* SystemProgram.createAccount and InitializeMint in one transaction.
ExecuteCreateMint(r) ==
    LET m == MintOf(Account[r])
    IN  \/ /\ lamports[Payer[r]] >= MINT_RENT
           /\ Executed(r, "createMint", "landed")
           /\ supply' = [supply EXCEPT ![m] = 0]
           /\ lamports' = [lamports EXCEPT ![Payer[r]] = @ - MINT_RENT]
           /\ UNCHANGED <<clock, user_lock_info, token, pda_lamports,
                          ata_lamports, receipt>>
        \/ /\ lamports[Payer[r]] < MINT_RENT
           /\ Executed(r, "createMint", "failed")
           /\ UNCHANGED <<vars, supply>>

MintExists(ta) == supply[MintOf(ta)] # NoAccount

\* createAssociatedTokenAccountIdempotentInstruction in its place.
ExecuteCreateAccountIdempotent(r) ==
    /\ \/ /\ MintExists(Account[r])
          /\ CreateTokenAccount(Payer[r], Account[r])
          /\ Executed(r, "createAccount", "landed")
       \/ /\ IsOpen(Account[r])
          /\ Executed(r, "createAccount", "landed")
          /\ UNCHANGED vars
    /\ UNCHANGED supply

ExecuteCreateAccount(r) ==
    /\ \/ /\ MintExists(Account[r])
          /\ CreateTokenAccount(Payer[r], Account[r])
          /\ Executed(r, "createAccount", "landed")
       \/ /\ ~MintExists(Account[r])
               \/ ~CreateTokenAccountAllowed(Payer[r], Account[r])
          /\ Executed(r, "createAccount", "failed")
          /\ UNCHANGED vars
    /\ UNCHANGED supply

\* The token program refuses an account that does not exist.
ExecuteMintTo(r) ==
    LET ta == Account[r]
    IN  IF IsOpen(ta)
          THEN /\ MintTo(ta, MINT_AMOUNT)
               /\ Executed(r, "mintTo", "landed")
               /\ supply' = [supply EXCEPT ![MintOf(ta)] = @ + MINT_AMOUNT]
          ELSE /\ Executed(r, "mintTo", "failed")
               /\ UNCHANGED <<vars, supply>>

\* The blocks up to the tip are confirmed, those confirmed are finalized.
Confirm ==
    /\ view' = [view EXCEPT !["confirmed"] =
                  [ta \in TokenAccounts |-> AccountState(ta)]]
    /\ tx' = [r \in Runs |-> [ix \in Instructions |->
                IF tx[r][ix] = "landed" THEN "confirmed" ELSE tx[r][ix]]]
    /\ UNCHANGED <<vars, supply, scriptVars>>

Finalize ==
    /\ view' = [view EXCEPT !["finalized"] = view["confirmed"]]
    /\ tx' = [r \in Runs |-> [ix \in Instructions |->
                IF tx[r][ix] = "confirmed" THEN "finalized" ELSE tx[r][ix]]]
    /\ UNCHANGED <<vars, supply, scriptVars>>

\* Other clients, lock_usdc.js among them, create or fund token accounts.
OtherClients ==
    /\ \E w \in Users, ta \in TokenAccounts :
         \/ MintExists(ta) /\ CreateTokenAccount(w, ta)
         \/ \E n \in 1..TOKEN_RENT : FundTokenAccount(w, ta, n)
    /\ UNCHANGED <<supply, view, tx, scriptVars>>

\* The process is stopped from outside, wherever it is.
Killed(r) ==
    /\ pc[r] # "ended"
    /\ pc' = [pc EXCEPT ![r] = "ended"]
    /\ UNCHANGED <<vars, supply, view, tx, printed>>

-----------------------------------------------------------------------------
\* The first thing each script asks of the cluster.
FirstStep == [check  |-> "getAccount",
              create |-> "createAccount",
              mint   |-> "createMint"]

TokenInit ==
    /\ Init
    /\ supply = [m \in Mints |-> IF m \in FreshMints THEN NoAccount ELSE 0]
    /\ view = [c \in Commitments |->
                [ta \in TokenAccounts |-> AccountState(ta)]]
    /\ \E started \in Together :
         pc = [r \in Runs |->
                 IF r \in started THEN FirstStep[ScriptOf[r]] ELSE "ended"]
    /\ tx = [r \in Runs |-> [ix \in Instructions |-> "unsent"]]
    /\ printed = [r \in Runs |-> "nothing"]

TokenNext ==
    \/ \E r \in Runs :
         \/ ScriptStep(r)
         \/ Killed(r)
         \/ ExecuteCreateMint(r)
         \/ ExecuteCreateAccount(r)
         \/ ExecuteMintTo(r)
    \/ Confirm
    \/ Finalize
    \/ OtherClients

TokenSpec == TokenInit /\ [][TokenNext]_tokenVars

\* Every await of a script settles: the JSON-RPC client answers or times out.
FairTokenSpec ==
    TokenSpec /\ \A r \in Runs : WF_tokenVars(ScriptStep(r))

-----------------------------------------------------------------------------
(***************************************************************************)
(* Properties.                                                             *)
(***************************************************************************)

\* The variables of the scripts and of the cluster have their types, and no
\* payment of a script takes the wallet it shares with other runs below zero.
TokenTypeOK ==
    /\ TypeOK
    /\ supply \in [Mints -> Amount \cup {NoAccount}]
    /\ view \in [Commitments ->
                  [TokenAccounts -> {"missing", "foreign", "open"}]]
    /\ pc \in [Runs -> Steps]
    /\ tx \in [Runs -> [Instructions -> TxStates]]
    /\ printed \in [Runs ->
                     {"nothing", "info", "created", "minted", "error"}]

Happened == {"landed", "confirmed", "finalized"}

\* What a script prints is so, whatever executed late, was swallowed by
\* getOrCreateAssociatedTokenAccount or was done by a concurrent run: the
\* account shown is open, "created" was this run's doing, and "Minted"
\* means exactly one issue of the amount, into the account it names.
PrintedIsTrue ==
    \A r \in Runs :
        /\ printed[r] \in {"info", "created", "minted"} => IsOpen(Account[r])
        /\ printed[r] = "created" => tx[r]["createAccount"] \in Happened
        /\ printed[r] = "minted" =>
             /\ supply[MintOf(Account[r])] = MINT_AMOUNT
             /\ token[Account[r]] = MINT_AMOUNT

\* However many runs race to create one account, and whoever funded its
\* address first, at most one of them creates it and it holds its rent
\* exactly once.
AccountPaidOnce ==
    /\ \A ta \in TokenAccounts : IsOpen(ta) => ata_lamports[ta] = TOKEN_RENT
    /\ \A r, q \in Runs :
         /\ Account[r] = Account[q]
         /\ tx[r]["createAccount"] \in Happened
         /\ tx[q]["createAccount"] \in Happened
         => r = q

\* An address is never funded beyond the rent.
FundedUpToRent ==
    \A ta \in TokenAccounts : ata_lamports[ta] <= TOKEN_RENT

\* An account that is open in a view is open in everything ahead of the view.
ViewsLag ==
    \A ta \in TokenAccounts :
        /\ view["finalized"][ta] = "open" => view["confirmed"][ta] = "open"
        /\ view["confirmed"][ta] = "open" => IsOpen(ta)

\* A creation that executed is visible as far as its block is.
CreationsAreSeen ==
    \A r \in Runs :
        LET state == tx[r]["createAccount"]
            ta == Account[r]
        IN  /\ state \in Happened => IsOpen(ta)
            /\ state \in {"confirmed", "finalized"} =>
                 view["confirmed"][ta] = "open"
            /\ state = "finalized" => view["finalized"][ta] = "open"

\* createAndMintTestUSDC.js alone mints, after its mint was confirmed and
\* its account was seen open, and its minting has not failed.
RunOrder ==
    \A r \in Runs :
        /\ ScriptOf[r] # "mint" =>
             /\ pc[r] \in {"getAccount", "createAccount", "awaitAccount", "ended"}
             /\ tx[r]["createMint"] = "unsent"
             /\ tx[r]["mintTo"] = "unsent"
        /\ ScriptOf[r] = "mint" /\ pc[r] \notin {"createMint", "awaitMint", "ended"}
             => tx[r]["createMint"] \in {"confirmed", "finalized"}
        /\ pc[r] \in {"mintTo", "awaitMintTo"} =>
             view["confirmed"][Account[r]] = "open"
        /\ tx[r]["mintTo"] # "unsent" =>
             /\ pc[r] \in {"awaitMintTo", "ended"}
             /\ tx[r]["createMint"] \in {"confirmed", "finalized"}
             /\ view["confirmed"][Account[r]] = "open"
             /\ tx[r]["mintTo"] # "failed"

\* A new mint has issued nothing before its run's minting executed, and
\* that one amount, into that one account, from then on.
MintedOnce ==
    \A r \in Runs : ScriptOf[r] = "mint" =>
        LET issued == IF tx[r]["mintTo"] \in Happened THEN MINT_AMOUNT ELSE 0
        IN  /\ tx[r]["createMint"] \in Happened =>
                 supply[MintOf(Account[r])] = issued
            /\ IsOpen(Account[r]) => token[Account[r]] = issued

\* What a script printed rests on the transaction or the read it came from.
ReportsRestOn ==
    \A r \in Runs :
        /\ printed[r] # "nothing" => pc[r] = "ended"
        /\ printed[r] = "info" =>
             ScriptOf[r] = "check" /\ view["finalized"][Account[r]] = "open"
        /\ printed[r] = "created" => Awaited(r, "createAccount")
        /\ printed[r] = "minted" => tx[r]["mintTo"] \in Happened

\* The inductive invariant of the scripts.  Racing runs pay for an account
\* once because a creation that executed leaves the account open, and what
\* is printed is so because accounts stay open and views only lag.
ScriptsInvariant ==
    /\ TokenTypeOK
    /\ AccountPaidOnce
    /\ FundedUpToRent
    /\ ViewsLag
    /\ CreationsAreSeen
    /\ RunOrder
    /\ MintedOnce
    /\ ReportsRestOn

\* The minting that createAndMintTestUSDC.js sends never fails on chain:
\* although the creation's errors are ignored, the account read again is one
\* that is there to stay.
MintToFinds ==
    \A r \in Runs : tx'[r]["mintTo"] # "failed"
MintToSucceeds == [][MintToFinds]_tokenVars

\* check_token_account.js can be run again: once a run reported the account
\* as created or showed it, no run that reads later tries to create it,
\* though the report and the read are separate requests.
LooksAfterReport ==
    \A r, q \in Runs :
        /\ ScriptOf[r] = "check" /\ ScriptOf[q] = "check"
        /\ Account[r] = Account[q]
        /\ printed[q] \in {"created", "info"}
        /\ pc[r] = "getAccount"
        => pc'[r] # "createAccount"
CheckIsRepeatable == [][LooksAfterReport]_tokenVars

\* Every run of the three scripts comes to an end.
ScriptsEnd == <>(\A r \in Runs : pc[r] = "ended")

=============================================================================
