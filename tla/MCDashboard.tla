----------------------------- MODULE MCDashboard -----------------------------
(* Small instances of DashboardScreen: lists without tokens, with a token  *)
(* no credit converts to, and with one and two pairs.                      *)
EXTENDS DashboardScreen, TLC

CONSTANTS none, bare, one, two

MCLists == {none, bare, one, two}
MCSizeOf == (none :> 0 @@ bare :> 1 @@ one :> 1 @@ two :> 3)
MCPairsOf == (none :> 0 @@ bare :> 0 @@ one :> 1 @@ two :> 2)
=============================================================================
