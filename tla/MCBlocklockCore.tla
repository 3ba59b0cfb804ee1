--------------------------- MODULE MCBlocklockCore ---------------------------
(***************************************************************************)
(* A small instance of BlocklockCore for TLC: two users, each with a token *)
(* account of the same mint, and a second mint for mismatches.             *)
(***************************************************************************)
EXTENDS BlocklockCore

CONSTANTS u1, u2, m1, m2

MCUsers == {u1, u2}
MCMints == {m1, m2}
MCTokenAccounts == {<<u1, m1>>, <<u2, m1>>}

=============================================================================
