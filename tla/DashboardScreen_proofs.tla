----------------------- MODULE DashboardScreen_proofs -----------------------
(***************************************************************************)
(* Proofs about DashboardScreen.  PairIsThere is not inductive: the list   *)
(* of pairs is empty until the last of the three resources is there, and   *)
(* only the first index is right for every list that may come then.        *)
(***************************************************************************)
EXTENDS DashboardScreen, TLAPS

IndexFits ==
    /\ currentPairIndex = NaN => early
    /\ view.tokens.phase = "closed" => view.tokens.shown = NoData
    /\ view.tokens.phase # "closed" /\ ~ early /\ ~ shrunk =>
          currentPairIndex = 0 \/ currentPairIndex < Pairs(view)

DashInv == DashTypeOK /\ IndexFits

Views == [tokens: View, credits: View, balances: View]

(* Three resources with their own data are a view.                         *)
ViewOK(v) ==
    /\ v \in Views
    /\ \A r \in Resources : v[r].shown \in DataOf(r) \cup {NoData}

-----------------------------------------------------------------------------
LEMMA PairsNat ==
    ASSUME NEW v, ViewOK(v)
    PROVE  Pairs(v) \in Nat
<1>1. CASE \E r \in Resources : v[r].shown = NoData
  BY <1>1 DEF Pairs
<1>2. CASE ~ \E r \in Resources : v[r].shown = NoData
  <2>1. v.tokens.shown \in Lists
    BY <1>2 DEF ViewOK, Resources, DataOf
  <2> QED
    BY <1>2, <2>1, DashboardAssumption DEF Pairs
<1> QED
  BY <1>1, <1>2

LEMMA TokensNeeded ==
    ASSUME NEW v, v.tokens.shown = NoData
    PROVE  Pairs(v) = 0
BY DEF Pairs, Resources

(* What a load begins with is of its resource, and it is not closed.       *)
LEMMA BegunOK ==
    ASSUME NEW r \in Resources, view[r].shown \in DataOf(r) \cup {NoData},
           NEW w \in Begun(r)
    PROVE  /\ w \in View /\ w.phase # "closed"
           /\ w.shown \in DataOf(r) \cup {NoData}
BY DEF Begun, View, DataOf, Resources

(* The remaining conditions on the step are those of Becomes(v): every     *)
(* change of the resources keeps the index right.                          *)
LEMMA Become ==
    ASSUME DashInv, NEW v, ViewOK(v), Becomes(v), changes' \in 0 .. MaxChanges,
           UNCHANGED hung,
           Mounted, v.tokens.phase # "closed"
    PROVE  DashInv'
<1> USE DEF DashInv, Becomes
<1>1. DashTypeOK'
  BY DEF DashTypeOK, ViewOK, Views, Rendered
<1>2. Pairs(v) \in Nat /\ Pairs(view) \in Nat /\ Pairs(view)' = Pairs(v)
  <2>1. ViewOK(view)
    BY DEF DashTypeOK, ViewOK, Views
  <2> QED
    BY <2>1, PairsNat DEF Pairs
<1>3. IndexFits'
  <2>1. currentPairIndex' = NaN => early'
    BY DEF IndexFits
  <2>2. ASSUME ~ early', ~ shrunk'
        PROVE  currentPairIndex' = 0 \/ currentPairIndex' < Pairs(view)'
    <3>1. /\ ~ early /\ ~ shrunk /\ currentPairIndex' = currentPairIndex
          /\ ~ (Pairs(v) < Pairs(view))
      BY <2>2 DEF DashTypeOK
    <3>2. currentPairIndex \in Nat
      BY <3>1 DEF DashTypeOK, IndexFits
    <3>3. currentPairIndex = 0 \/ currentPairIndex < Pairs(view)
      BY <3>1 DEF IndexFits, Mounted
    <3> QED
      BY <1>2, <3>1, <3>2, <3>3
  <2> QED
    BY <2>1, <2>2 DEF IndexFits
<1> QED
  BY <1>1, <1>3

(* One resource is replaced by w.                                          *)
LEMMA ReplaceOK ==
    ASSUME ViewOK(view), NEW r \in Resources, NEW w \in View,
           w.shown \in DataOf(r) \cup {NoData}, w.phase # "closed",
           view.tokens.phase # "closed"
    PROVE  /\ ViewOK([view EXCEPT ![r] = w])
           /\ [view EXCEPT ![r] = w].tokens.phase # "closed"
BY DEF ViewOK, Views, Resources

LEMMA RefreshedOK ==
    ASSUME ViewOK(view), NEW r \in Resources, view.tokens.phase # "closed"
    PROVE  /\ Refreshed(r) \in View
           /\ Refreshed(r).shown \in DataOf(r) \cup {NoData}
           /\ view[r].phase # "closed" => Refreshed(r).phase # "closed"
<1>1. view[r] \in View
  BY DEF ViewOK, Views, Resources
<1>2. CASE view[r].phase = "idle"
  <2>1. /\ Refreshed(r) = [view[r] EXCEPT !.phase = "refreshing"]
        /\ Refreshed(r) \in View /\ Refreshed(r).phase = "refreshing"
        /\ Refreshed(r).shown = view[r].shown
    BY <1>1, <1>2 DEF Refreshed, View
  <2> QED
    BY <2>1 DEF ViewOK
<1>3. CASE view[r].phase # "idle"
  BY <1>1, <1>3 DEF Refreshed, ViewOK
<1> QED
  BY <1>2, <1>3

-----------------------------------------------------------------------------
(* The actions.                                                            *)

LEMMA InitFits == DashInit => DashInv
<1> SUFFICES ASSUME DashInit PROVE DashInv
  OBVIOUS
<1> USE DEF DashInit
<1>1. DashTypeOK
  <2>1. Closed \in View /\ Closed.shown = NoData
    BY DEF Closed, View
  <2>2. /\ view \in [tokens: View, credits: View, balances: View]
        /\ \A r \in Resources : view[r].shown \in DataOf(r) \cup {NoData}
    BY <2>1 DEF Resources
  <2>3. 0 \in 0 .. MaxChanges
    BY DashboardAssumption
  <2> QED
    BY <2>2, <2>3 DEF DashTypeOK
<1>2. IndexFits
  BY DashboardAssumption DEF IndexFits, Closed
<1> QED
  BY <1>1, <1>2 DEF DashInv

LEMMA MountFits ==
    ASSUME DashInv, Mount
    PROVE  DashInv'
<1> USE DEF DashInv
<1>1. PICK t \in Begun("tokens"), c \in Begun("credits"),
           b \in Begun("balances") :
        LET v == [tokens |-> t, credits |-> c, balances |-> b]
        IN  view' = v /\ Rendered(v, 0)
  BY DEF Mount
<1> DEFINE v == [tokens |-> t, credits |-> c, balances |-> b]
<1>2. /\ t \in View /\ t.phase # "closed" /\ t.shown \in DataOf("tokens") \cup {NoData}
      /\ c \in View /\ c.shown \in DataOf("credits") \cup {NoData}
      /\ b \in View /\ b.shown \in DataOf("balances") \cup {NoData}
  <2>1. \A r \in Resources : view[r].shown \in DataOf(r) \cup {NoData}
    BY DEF DashTypeOK
  <2> QED
    BY <2>1, BegunOK DEF Resources
<1>3. DashTypeOK'
  <2>1. view' \in Views /\ crashed' \in BOOLEAN
    BY <1>1, <1>2 DEF Views, Rendered
  <2>2. \A r \in Resources : view'[r].shown \in DataOf(r) \cup {NoData}
    BY <1>1, <1>2 DEF Resources
  <2> QED
    BY <2>1, <2>2 DEF DashTypeOK, Mount, Views
<1>4. IndexFits'
  BY <1>1, <1>2, DashboardAssumption DEF Mount, IndexFits
<1> QED
  BY <1>3, <1>4

LEMMA ResourcesFit ==
    ASSUME DashInv, Mounted,
           \/ \E r \in Resources : Settle(r)
           \/ WalletsChange \/ Interval \/ HandleUserRefresh
    PROVE  DashInv'
<1> USE DEF DashInv
<1>1. ViewOK(view) /\ view.tokens.phase # "closed"
  BY DEF DashTypeOK, ViewOK, Views, Mounted
<1>2. CASE \E r \in Resources : Settle(r)
  <2>0. PICK r \in Resources : Settle(r)
    BY <1>2
  <2>1. PICK d \in DataOf(r) \cup {view[r].shown} :
           Becomes([view EXCEPT ![r] = [phase |-> "idle", shown |-> d]])
    BY <2>0 DEF Settle
  <2> DEFINE w == [phase |-> "idle", shown |-> d]
  <2>2. /\ w \in View /\ w.phase # "closed"
        /\ w.shown \in DataOf(r) \cup {NoData}
    BY <1>1, <2>1 DEF View, DataOf, ViewOK, Resources
  <2>3. ViewOK([view EXCEPT ![r] = w])
        /\ [view EXCEPT ![r] = w].tokens.phase # "closed"
    BY <1>1, <2>2, ReplaceOK
  <2>4. changes' \in 0 .. MaxChanges
    BY <1>2 DEF Settle, DashTypeOK
  <2>5. UNCHANGED hung
    BY <1>2 DEF Settle
  <2> QED
    BY <2>1, <2>3, <2>4, <2>5, Become
<1>3. CASE WalletsChange
  <2>1. PICK c \in Reloaded("credits"), b \in Reloaded("balances") :
           Becomes([view EXCEPT !.credits = c, !.balances = b])
    BY <1>3 DEF WalletsChange
  <2> DEFINE v == [view EXCEPT !.credits = c, !.balances = b]
  <2>2. ASSUME NEW r \in Resources, NEW w \in Reloaded(r)
        PROVE  w \in View /\ w.shown \in DataOf(r) \cup {NoData}
    <3>1. view[r] \in View /\ view[r].shown \in DataOf(r) \cup {NoData}
      BY <1>1 DEF ViewOK, Views, Resources
    <3> QED
      BY <2>2, <3>1, BegunOK DEF Reloaded
  <2>3. /\ c \in View /\ c.shown \in DataOf("credits") \cup {NoData}
        /\ b \in View /\ b.shown \in DataOf("balances") \cup {NoData}
    BY <2>2 DEF Resources
  <2>4. ViewOK(v) /\ v.tokens.phase # "closed"
    BY <1>1, <2>3 DEF ViewOK, Views, Resources
  <2>5. changes' \in 0 .. MaxChanges
    <3>1. /\ changes \in 0 .. MaxChanges /\ changes < MaxChanges
          /\ changes' = changes + 1
      BY <1>3 DEF WalletsChange, DashTypeOK
    <3> QED
      BY <3>1, DashboardAssumption
  <2>6. UNCHANGED hung
    BY <1>3 DEF WalletsChange
  <2> HIDE DEF v
  <2> QED
    BY <2>1, <2>4, <2>5, <2>6, Become DEF v
<1>4. CASE Interval
  <2> DEFINE v == [view EXCEPT !.balances = Refreshed("balances")]
  <2>1. ViewOK(v) /\ v.tokens.phase # "closed"
    BY <1>1, RefreshedOK DEF ViewOK, Views, Resources
  <2>2. Becomes(v) /\ changes' \in 0 .. MaxChanges /\ UNCHANGED hung
    BY <1>4 DEF Interval, DashTypeOK
  <2> HIDE DEF v
  <2> QED
    BY <2>1, <2>2, Become
<1>5. CASE HandleUserRefresh
  <2> DEFINE v == [tokens |-> Refreshed("tokens"),
                   credits |-> Refreshed("credits"),
                   balances |-> Refreshed("balances")]
  <2>1. ViewOK(v) /\ v.tokens.phase # "closed"
    BY <1>1, RefreshedOK DEF ViewOK, Views, Resources
  <2>2. Becomes(v) /\ changes' \in 0 .. MaxChanges /\ UNCHANGED hung
    BY <1>5 DEF HandleUserRefresh, DashTypeOK
  <2> HIDE DEF v
  <2> QED
    BY <2>1, <2>2, Become
<1> QED
  BY <1>2, <1>3, <1>4, <1>5

LEMMA SwitchFits ==
    ASSUME DashInv, HandleSwitchPair
    PROVE  DashInv'
<1> USE DEF DashInv, HandleSwitchPair
<1>1. Pairs(view) \in Nat /\ Pairs(view)' = Pairs(view)
  BY PairsNat DEF DashTypeOK, ViewOK, Views, Pairs
<1>2. CASE currentPairIndex = NaN \/ Pairs(view) = 0
  <2>1. currentPairIndex' = NaN /\ early' /\ early' \in BOOLEAN
    BY <1>2 DEF DashTypeOK, IndexFits
  <2> QED
    BY <2>1 DEF DashTypeOK, IndexFits, Rendered, Focused
<1>3. CASE ~ (currentPairIndex = NaN \/ Pairs(view) = 0)
  <2>1. currentPairIndex \in Nat /\ Pairs(view) \in Nat /\ Pairs(view) > 0
    BY <1>1, <1>3 DEF DashTypeOK
  <2>2. currentPairIndex' = (currentPairIndex + 1) % Pairs(view)
    BY <1>3
  <2>3. currentPairIndex' \in 0 .. Pairs(view) - 1
    BY <2>1, <2>2
  <2>4. currentPairIndex' \in Nat /\ currentPairIndex' < Pairs(view)
    BY <2>1, <2>3
  <2>5. currentPairIndex' # NaN
    BY <2>4, DashboardAssumption
  <2>6. IndexFits'
    BY <1>1, <2>4, <2>5 DEF IndexFits
  <2> QED
    BY <2>4, <2>6 DEF DashTypeOK, Rendered
<1> QED
  BY <1>2, <1>3

LEMMA NextFits ==
    ASSUME DashInv, [DashNext]_dashVars
    PROVE  DashInv'
<1> USE DEF DashInv
<1>1. CASE Mount
  BY <1>1, MountFits
<1>2. CASE Unmount
  <2>1. DashTypeOK'
    <3>1. Closed \in View /\ Closed.shown = NoData
      BY DEF Closed, View
    <3>2. view' = [tokens |-> Closed, credits |-> Closed, balances |-> Closed]
      BY <1>2 DEF Unmount
    <3>3. /\ view' \in [tokens: View, credits: View, balances: View]
          /\ \A r \in Resources : view'[r].shown \in DataOf(r) \cup {NoData}
      BY <3>1, <3>2 DEF Resources
    <3> QED
      BY <1>2, <3>3 DEF Unmount, DashTypeOK
  <2>2. IndexFits'
    BY <1>2 DEF Unmount, IndexFits, Closed
  <2> QED
    BY <2>1, <2>2
<1>3. CASE \/ \E r \in Resources : Settle(r)
           \/ WalletsChange \/ Interval \/ HandleUserRefresh
  <2>1. Mounted
    BY <1>3 DEF Settle, WalletsChange, Interval, HandleUserRefresh, Focused
  <2> QED
    BY <1>3, <2>1, ResourcesFit
<1>4. CASE HandleSwitchPair
  BY <1>4, SwitchFits
<1>5. CASE Send \/ OpenHistory \/ OpenConvert \/ OpenSettings \/ Return
  <2>1. /\ UNCHANGED <<view, currentPairIndex, changes, hung, early, shrunk>>
        /\ focused' \in BOOLEAN /\ crashed' \in BOOLEAN
    <3>1. Send \/ OpenHistory \/ OpenConvert \/ OpenSettings =>
             OpenScreen \/ Throws
      BY DEF Send, OpenHistory, OpenConvert, OpenSettings
    <3> QED
      BY <1>5, <3>1 DEF Return, OpenScreen, Throws, DashTypeOK
  <2> QED
    BY <2>1 DEF DashTypeOK, IndexFits, Pairs
<1>6. CASE GetBalanceFails
  BY <1>6 DEF GetBalanceFails, DashTypeOK, IndexFits, Pairs
<1>7. CASE UNCHANGED dashVars
  BY <1>7 DEF dashVars, DashTypeOK, IndexFits, Pairs
<1> QED
  BY <1>1, <1>2, <1>3, <1>4, <1>5, <1>6, <1>7 DEF DashNext

LEMMA InvHolds == DashSpec => []DashInv
BY InitFits, NextFits, PTL DEF DashSpec

(* The dashboard's state has the types of the code's, for any lists of     *)
(* tokens and any number of changes of the wallets.                        *)
THEOREM DashTypeCorrect == DashSpec => []DashTypeOK
<1>1. DashInv => DashTypeOK
  BY DEF DashInv
<1> QED
  BY <1>1, InvHolds, PTL

(* In whatever order the resources come, fail and are replaced, a          *)
(* dashboard whose switch was not tapped too early and whose list did not  *)
(* become shorter renders a pair that is there.                            *)
THEOREM PairRenders == DashSpec => []PairIsThere
<1>1. DashInv => PairIsThere
  <2> SUFFICES ASSUME DashInv PROVE PairIsThere
    OBVIOUS
  <2>1. Pairs(view) \in Nat
    BY PairsNat DEF DashInv, DashTypeOK, ViewOK, Views
  <2>2. ASSUME ~ early, ~ shrunk, Pairs(view) > 0
        PROVE  currentPairIndex \in 0 .. Pairs(view) - 1
    <3>1. view.tokens.phase # "closed"
      BY <2>2, TokensNeeded DEF DashInv, IndexFits
    <3>2. currentPairIndex \in Nat
      BY <2>2 DEF DashInv, DashTypeOK, IndexFits
    <3> QED
      BY <2>1, <2>2, <3>1, <3>2 DEF DashInv, IndexFits
  <2> QED
    BY <2>2 DEF PairIsThere, DashInv, IndexFits
<1> QED
  BY <1>1, InvHolds, PTL

-----------------------------------------------------------------------------
(* The load that will never end is out for as long as it is known.         *)
HungIsOut == hung => Out("balances")

(* What an interval, a pull or a new getBalance makes of balances whose    *)
(* load is out.                                                            *)
LEMMA OutIsLeft ==
    ASSUME Out("balances")
    PROVE  /\ Refreshed("balances") = view.balances
           /\ Reloaded("balances") = {view.balances}
BY DEF Out, Refreshed, Reloaded

LEMMA StepFrozen ==
    ASSUME DashTypeOK, HungIsOut, [DashNext]_dashVars, hung, hung'
    PROVE  UNCHANGED view.balances
<1>1. Out("balances") /\ view \in [tokens: View, credits: View, balances: View]
  BY DEF HungIsOut, DashTypeOK
<1>2. ~ Mount /\ ~ Unmount
  BY DEF Mount, Unmount
<1>3. ASSUME NEW r \in Resources, Settle(r) PROVE UNCHANGED view.balances
  <2>1. r \in {"tokens", "credits"}
    BY <1>3 DEF Settle, Resources
  <2>2. PICK w : view' = [view EXCEPT ![r] = w]
    BY <1>3 DEF Settle, Becomes
  <2>3. QED
    BY <1>1, <2>1, <2>2
<1>4. CASE WalletsChange
  <2>1. PICK c : view' = [view EXCEPT !.credits = c,
                                      !.balances = view.balances]
    BY <1>1, <1>4, OutIsLeft DEF WalletsChange, Becomes
  <2>2. QED
    BY <1>1, <2>1
<1>5. CASE Interval
  <2>1. view' = [view EXCEPT !.balances = view.balances]
    BY <1>1, <1>5, OutIsLeft DEF Interval, Becomes
  <2>2. QED
    BY <1>1, <2>1
<1>6. CASE HandleUserRefresh
  <2>1. PICK t, c : view' = [tokens |-> t, credits |-> c,
                             balances |-> view.balances]
    BY <1>1, <1>6, OutIsLeft DEF HandleUserRefresh, Becomes
  <2>2. QED
    BY <2>1
<1>7. CASE \/ HandleSwitchPair \/ Send \/ OpenHistory \/ OpenConvert
           \/ OpenSettings \/ Return \/ GetBalanceFails
           \/ UNCHANGED dashVars
  BY <1>7 DEF HandleSwitchPair, Send, OpenHistory, OpenConvert, OpenSettings,
     Return, OpenScreen, Throws, GetBalanceFails, dashVars
<1>8. QED
  BY <1>2, <1>3, <1>4, <1>5, <1>6, <1>7 DEF DashNext

LEMMA StepOut ==
    ASSUME DashTypeOK, HungIsOut, [DashNext]_dashVars
    PROVE  HungIsOut'
<1>1. CASE GetBalanceFails
  BY <1>1 DEF GetBalanceFails, HungIsOut, Out
<1>2. CASE ~ hung' \/ hung
  BY <1>2, StepFrozen DEF HungIsOut, Out
<1>3. ASSUME ~ GetBalanceFails PROVE ~ hung' \/ hung
  BY <1>3 DEF DashNext, Mount, Unmount, WalletsChange, Interval, Settle,
     HandleUserRefresh, HandleSwitchPair, Send, OpenHistory, OpenConvert,
     OpenSettings, Return, OpenScreen, Throws, dashVars
<1>4. QED
  BY <1>1, <1>2, <1>3

(* Once getBalance hangs, no interval, pull or new wallet reaches the      *)
(* balances on the screen: the lock of useCacheManager keeps what is shown *)
(* until the dashboard is left.                                            *)
THEOREM HangsFreezeBalances == DashSpec => HungIsFrozen
<1>1. DashInit => HungIsOut
  BY DEF DashInit, HungIsOut
<1>2. DashTypeOK /\ HungIsOut /\ [DashNext]_dashVars => HungIsOut'
  BY StepOut
<1>3. DashTypeOK /\ HungIsOut /\ [DashNext]_dashVars =>
         [hung /\ hung' => Out("balances") /\ UNCHANGED view.balances]_dashVars
  BY StepFrozen DEF HungIsOut
<1>4. QED
  BY <1>1, <1>2, <1>3, DashTypeCorrect, PTL DEF DashSpec, HungIsFrozen
=============================================================================
