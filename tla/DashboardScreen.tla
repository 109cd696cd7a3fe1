--------------------------- MODULE DashboardScreen ---------------------------
(***************************************************************************)
(* The dashboard (src/src/screens/WalletDashboard.Screen.tsx): three       *)
(* resources of the cache shown together, an interval that refreshes one   *)
(* of them, the pull that refreshes all, and the credit and token that can *)
(* be converted, picked by an index into a list that is derived from the   *)
(* resources on every render.                                              *)
(*                                                                         *)
(* A resource does here only what ResourceView lets a view do, which is    *)
(* what UseCacheManager and WalletBalances show of the hook; the three     *)
(* move in one step where the code moves them in one.  The dashboard stays *)
(* mounted, and its interval runs, below the screens opened from it.       *)
(***************************************************************************)
EXTENDS Naturals

CONSTANTS
    Lists,      \* the token lists the server may send
    SizeOf,     \* the tokens of a list
    PairsOf,    \* those of them that a credit converts to
    Known,      \* the credits, and any balances
    NoData,     \* null
    NaN,
    MaxChanges  \* bound on the changes of the context's wallets

ASSUME DashboardAssumption ==
    /\ SizeOf \in [Lists -> Nat] /\ PairsOf \in [Lists -> Nat]
    /\ \A l \in Lists : PairsOf[l] <= SizeOf[l]
    /\ NoData \notin Lists \cup {Known}
    /\ NaN \notin Nat
    /\ MaxChanges \in Nat

VARIABLES
    view,               \* tokensD, creditsD, balances and their loads
    currentPairIndex,
    focused,            \* no screen is above the dashboard
    changes,            \* changes of the wallets so far
    hung,               \* the load of the balances will never end
    crashed,            \* a render threw, the app is gone
    early,              \* history: a switch was tapped before there were pairs
    shrunk              \* history: a list came with fewer pairs than the last

dashVars ==
    <<view, currentPairIndex, focused, changes, hung, crashed, early, shrunk>>

Resources == {"tokens", "credits", "balances"}
DataOf(r) == IF r = "tokens" THEN Lists ELSE {Known}

View == [phase: {"closed", "loading", "refreshing", "idle"},
         shown: Lists \cup {Known, NoData}]

DashTypeOK ==
    /\ view \in [tokens: View, credits: View, balances: View]
    /\ \A r \in Resources : view[r].shown \in DataOf(r) \cup {NoData}
    /\ currentPairIndex \in Nat \cup {NaN}
    /\ focused \in BOOLEAN
    /\ changes \in 0 .. MaxChanges
    /\ hung \in BOOLEAN /\ crashed \in BOOLEAN
    /\ early \in BOOLEAN /\ shrunk \in BOOLEAN

Closed == [phase |-> "closed", shown |-> NoData]

DashInit ==
    /\ view = [tokens |-> Closed, credits |-> Closed, balances |-> Closed]
    /\ currentPairIndex = 0
    /\ focused = TRUE /\ changes = 0 /\ hung = FALSE
    /\ crashed = FALSE /\ early = FALSE /\ shrunk = FALSE

Mounted == view.tokens.phase # "closed" /\ ~ crashed
Focused == Mounted /\ focused

-----------------------------------------------------------------------------
(* creditAndToken.length, once all three resources are there.              *)
Pairs(v) ==
    IF \E r \in Resources : v[r].shown = NoData THEN 0
    ELSE PairsOf[v.tokens.shown]

(* The render of a pair that is not there throws.                          *)
Rendered(v, index) ==
    crashed' = (Pairs(v) > 0 /\ index \notin 0 .. Pairs(v) - 1)

(* The resources have become v.                                            *)
Becomes(v) ==
    /\ view' = v
    /\ Rendered(v, currentPairIndex)
    /\ shrunk' = (shrunk \/ Pairs(v) < Pairs(view))
    /\ UNCHANGED <<currentPairIndex, focused, early>>

(* What a load that is not forced may begin with, or be content with.      *)
Begun(r) ==
    {[phase |-> "loading", shown |-> d] : d \in DataOf(r) \cup {view[r].shown}}
    \cup {[phase |-> "idle", shown |-> d] : d \in DataOf(r)}

Reloaded(r) == IF view[r].phase = "idle" THEN Begun(r) ELSE {view[r]}

(* refresh does nothing while a load is out.                               *)
Refreshed(r) ==
    IF view[r].phase = "idle" THEN [view[r] EXCEPT !.phase = "refreshing"]
                              ELSE view[r]

Mount ==
    /\ view.tokens.phase = "closed" /\ ~ crashed
    /\ \E t \in Begun("tokens"), c \in Begun("credits"),
          b \in Begun("balances") :
          LET v == [tokens |-> t, credits |-> c, balances |-> b]
          IN  view' = v /\ Rendered(v, 0)
    /\ currentPairIndex' = 0 /\ focused' = TRUE /\ hung' = FALSE
    /\ early' = FALSE /\ shrunk' = FALSE
    /\ UNCHANGED changes

Unmount ==
    /\ Focused
    /\ view' = [tokens |-> Closed, credits |-> Closed, balances |-> Closed]
    /\ hung' = FALSE
    /\ UNCHANGED <<currentPairIndex, focused, changes, crashed, early, shrunk>>

Out(r) == view[r].phase \in {"loading", "refreshing"}

\* Mutation: after an error getBalance returns nothing, and that is set.
SettleUndefined(r) ==
    /\ Mounted /\ Out(r)
    /\ r = "balances" => ~ hung
    /\ \E d \in (IF r = "balances" THEN {NaN} ELSE {})
              \cup DataOf(r) \cup {view[r].shown} :
          Becomes([view EXCEPT ![r] = [phase |-> "idle", shown |-> d]])
    /\ UNCHANGED <<changes, hung>>

(* A load ends, with data or, after an error, with what was shown.         *)
Settle(r) ==
    /\ Mounted /\ Out(r)
    /\ r = "balances" => ~ hung
    /\ \E d \in DataOf(r) \cup {view[r].shown} :
          Becomes([view EXCEPT ![r] = [phase |-> "idle", shown |-> d]])
    /\ UNCHANGED <<changes, hung>>

(* After an error of the RPC node, getBalance of the SolanaProvider returns *)
(* a promise that never settles.                                           *)
GetBalanceFails ==
    /\ Mounted /\ Out("balances")
    /\ hung' = TRUE
    /\ UNCHANGED <<view, currentPairIndex, focused, changes, crashed, early,
                   shrunk>>

(* A render of the WalletProvider makes getSupportedCredits and getBalance *)
(* anew, not loadSupportedAssets.                                          *)
WalletsChange ==
    /\ Mounted /\ changes < MaxChanges
    /\ \E c \in Reloaded("credits"), b \in Reloaded("balances") :
          Becomes([view EXCEPT !.credits = c, !.balances = b])
    /\ changes' = changes + 1
    /\ UNCHANGED hung

\* Mutation: the interval loads, it does not refresh.
IntervalReloads ==
    /\ Mounted
    /\ \E b \in Reloaded("balances") : Becomes([view EXCEPT !.balances = b])
    /\ UNCHANGED <<changes, hung>>

Interval ==
    /\ Mounted
    /\ Becomes([view EXCEPT !.balances = Refreshed("balances")])
    /\ UNCHANGED <<changes, hung>>

-----------------------------------------------------------------------------
(* The user.                                                               *)
HandleUserRefresh ==
    /\ Focused
    /\ Becomes([tokens |-> Refreshed("tokens"),
                credits |-> Refreshed("credits"),
                balances |-> Refreshed("balances")])
    /\ UNCHANGED <<changes, hung>>

\* Mutation: the index does not wrap around.
HandleSwitchPairOn ==
    /\ Focused
    /\ currentPairIndex' = IF currentPairIndex = NaN \/ Pairs(view) = 0
                           THEN NaN ELSE currentPairIndex + 1
    /\ Rendered(view, currentPairIndex')
    /\ early' = (early \/ Pairs(view) = 0)
    /\ UNCHANGED <<view, focused, changes, hung, shrunk>>

(* x % 0 is NaN, and stays it.                                             *)
HandleSwitchPair ==
    /\ Focused
    /\ currentPairIndex' = IF currentPairIndex = NaN \/ Pairs(view) = 0
                           THEN NaN
                           ELSE (currentPairIndex + 1) % Pairs(view)
    /\ Rendered(view, currentPairIndex')
    /\ early' = (early \/ Pairs(view) = 0)
    /\ UNCHANGED <<view, focused, changes, hung, shrunk>>

OpenScreen ==
    /\ focused' = FALSE
    /\ UNCHANGED <<view, currentPairIndex, changes, hung, crashed, early, shrunk>>

(* tokensD! is null until the tokens are there; the screens throw on it,   *)
(* and Transfer throws on an empty list too.                               *)
Throws ==
    /\ crashed' = TRUE
    /\ UNCHANGED <<view, currentPairIndex, focused, changes, hung, early, shrunk>>

Send ==
    /\ Focused
    /\ IF view.tokens.shown # NoData /\ SizeOf[view.tokens.shown] > 0
       THEN OpenScreen ELSE Throws

OpenHistory ==
    /\ Focused
    /\ IF view.tokens.shown # NoData THEN OpenScreen ELSE Throws

OpenConvert ==
    /\ Focused
    /\ Pairs(view) > 0
    /\ OpenScreen

(* The way to the settings reads no resource.                              *)
OpenSettings == Focused /\ OpenScreen

Return ==
    /\ Mounted /\ ~ focused
    /\ focused' = TRUE
    /\ UNCHANGED <<view, currentPairIndex, changes, hung, crashed, early, shrunk>>

DashNext ==
    \/ Mount \/ Unmount \/ WalletsChange \/ Interval \/ GetBalanceFails
    \/ \E r \in Resources : Settle(r)
    \/ HandleUserRefresh \/ HandleSwitchPair
    \/ Send \/ OpenHistory \/ OpenConvert \/ OpenSettings \/ Return

DashSpec == DashInit /\ [][DashNext]_dashVars

(* The interval fires, and the loads answer or fail.                       *)
DashFairSpec ==
    /\ DashSpec
    /\ WF_dashVars(Interval)
    /\ \A r \in Resources : WF_dashVars(Settle(r))

-----------------------------------------------------------------------------
(* The dashboard never renders a pair that is not there, whatever order    *)
(* the three resources come in and are replaced, unless the switch was     *)
(* tapped before there were pairs or a list came that has fewer; and only  *)
(* the former makes an index that no later list can be right for.          *)
PairIsThere ==
    /\ currentPairIndex = NaN => early
    /\ ~ early /\ ~ shrunk /\ Pairs(view) > 0 =>
          currentPairIndex \in 0 .. Pairs(view) - 1

(* A dashboard that stays up keeps refreshing the balances, whatever loads *)
(* are out when the interval fires, unless a load of them never ends.      *)
Refreshing == view.balances.phase = "refreshing" \/ ~ Mounted

RefreshesIfLoadsEnd == []<>(~ hung) => []<>Refreshing

(* "This will force a refresh" (line 97): while a dashboard is up, there   *)
(* is always another refresh of the balances.                              *)
ForcesRefresh == []<>Refreshing

(* A load of the balances that will never end freezes them: whatever the   *)
(* interval, the user and the wallets do, the screen shows what it showed, *)
(* and its load is out, until the dashboard is left.                       *)
HungIsFrozen ==
    [][hung /\ hung' => Out("balances") /\ UNCHANGED view.balances]_dashVars
=============================================================================
