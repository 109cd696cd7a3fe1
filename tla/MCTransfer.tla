------------------------------ MODULE MCTransfer ------------------------------
(* Small instances of TransferScreen: a Solana token of 2 tokens and a     *)
(* half, one whose balance the server did not send, one of VeChain and one *)
(* of Ethereum.                                                            *)
EXTENDS TransferScreen, TLC

CONSTANTS stop, unknown, b3tr, weth, t1, t2, sol1, sol2, eth, zero, ens

MCTokens == {stop, unknown, b3tr, weth}
MCChainOf == (stop :> "solana" @@ unknown :> "solana"
              @@ b3tr :> "vechain" @@ weth :> "ethereum")
MCAmountOf == (stop :> 5 @@ unknown :> Empty @@ b3tr :> 0 @@ weth :> 4)
MCTyped == {4, 6}

MCSymmetry == Permutations({t1, t2}) \cup Permutations({sol1, sol2})
=============================================================================
