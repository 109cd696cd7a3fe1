--------------------------- MODULE MCWalletSession ---------------------------
(* WalletSession with a generated and an imported phrase.                  *)
EXTENDS WalletSession, TLC

CONSTANTS generated, imported, t1, t2

MCPhrases == {generated, imported}
MCTasks == {t1, t2}
MCSymmetry == Permutations(MCTasks)
=============================================================================
