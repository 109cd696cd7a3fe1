----------------------------- MODULE MCBalances -----------------------------
(* A small instance of WalletBalances.                                     *)
EXTENDS WalletBalances
=============================================================================
