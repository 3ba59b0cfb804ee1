--------------------------- MODULE MCTokenScripts ---------------------------
(***************************************************************************)
(* A small instance of TokenScripts for TLC: runs from one key file.       *)
(* check_token_account.js and lock_usdc.js use one mint,                   *)
(* createUSDCAccount.js another, and createAndMintTestUSDC.js a new one.   *)
(* Two runs of the first script race with one of the last, and the second  *)
(* script runs beside the last.                                            *)
(***************************************************************************)
EXTENDS TokenScripts

CONSTANTS u1, m1, m2, m3, c1, c2, k1, n1

MCUsers == {u1}
MCMints == {m1, m2, m3}
MCTokenAccounts == MCUsers \X MCMints
MCRuns == {c1, c2, k1, n1}
MCTogether == {{c1, c2, n1}, {k1, n1}}
MCScriptOf ==
    [r \in MCRuns |-> CASE r \in {c1, c2} -> "check"
                        [] r = k1 -> "create"
                        [] r = n1 -> "mint"]
MCPayer == [r \in MCRuns |-> u1]
MCAccount ==
    [r \in MCRuns |-> CASE r \in {c1, c2} -> <<u1, m1>>
                        [] r = k1 -> <<u1, m2>>
                        [] r = n1 -> <<u1, m3>>]

=============================================================================
