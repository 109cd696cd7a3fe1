------------------------------ MODULE MCHistory ------------------------------
(* A small instance of WalletHistory: a and b are tokens of Solana, bad is *)
(* one without an account, v is of VeChain, e of neither.                  *)
EXTENDS WalletHistory, TLC

CONSTANTS l, a, b, bad, v, e

MCOpenings == {<<b, e>>, <<bad>>, <<v, a, e, b>>, <<b, bad>>}
MCMaxTxns == (a :> 3 @@ b :> 1 @@ bad :> 0)
=============================================================================
