----------------------------- MODULE MCLockUsdc -----------------------------
(***************************************************************************)
(* A small instance of LockUsdc for TLC: two runs of the script that share *)
(* one wallet.                                                             *)
(***************************************************************************)
EXTENDS LockUsdc, TLC

CONSTANTS u1, m1, r1, r2

MCUsers == {u1}
MCMints == {m1}
MCTokenAccounts == {<<u1, m1>>}
MCRuns == {r1, r2}
MCWalletOf == [r \in MCRuns |-> u1]

\* The two runs are interchangeable.
RunSymmetry == Permutations(MCRuns)

=============================================================================
