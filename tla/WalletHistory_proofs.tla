------------------------ MODULE WalletHistory_proofs ------------------------
(***************************************************************************)
(* Proofs about WalletHistory.  That the list of a load that stores is     *)
(* whole says nothing of a load on its way: the invariant tells, token by  *)
(* token, what has been listed so far, and as of which moment.  The last   *)
(* part follows a load from step to step for what the screen shows of it.  *)
(***************************************************************************)
EXTENDS WalletHistory, TLAPS

(* n is among the newest transfers as of the first m transactions of t.    *)
InNewest(ch, t, m, n) ==
    n \in 1 .. m /\ n + Limit > m /\ ch[t][n] = Transfer

(* A load that began with asked and has listed txns is through with t.     *)
Done(ch, asked, txns, t) ==
    /\ t \in VeChain => <<t, 0>> \in txns
    /\ t \in Solana =>
          \E m \in asked[t] .. Len(ch[t]) : \A n \in Nat :
              <<t, n>> \in txns <=> InNewest(ch, t, m, n)

Untouched(txns, t) ==
    t \in Solana => \A n \in Nat : <<t, n>> \notin txns

(* It has the signatures of t, and has listed those no longer in places.   *)
Halfway(ch, asked, txns, places, t) ==
    \E m \in asked[t] .. Len(ch[t]) :
        /\ \A n \in places : n \in 1 .. m /\ n + Limit > m
        /\ \A n \in Nat : <<t, n>> \in txns <=>
                             InNewest(ch, t, m, n) /\ n \notin places

Walked(ch, ld) ==
    \A i \in 1 .. Len(ld.tokens) :
        /\ i < ld.pos \/ ld.at = "storing" =>
              Done(ch, ld.asked, ld.list.txns, ld.tokens[i])
        /\ i > ld.pos /\ ld.at # "storing" =>
              Untouched(ld.list.txns, ld.tokens[i])
        /\ i = ld.pos /\ ld.at = "signatures" =>
              Untouched(ld.list.txns, ld.tokens[i])
        /\ i = ld.pos /\ ld.at = "transactions" =>
              Halfway(ch, ld.asked, ld.list.txns, ld.places, ld.tokens[i])

(* Every transaction of the list is a transfer on the chain.               *)
Real(ch, list) ==
    \A t \in Solana : \A n \in Nat :
        <<t, n>> \in list.txns => n \in 1 .. Len(ch[t]) /\ ch[t][n] = Transfer

(* What every load satisfies, wherever it is.                              *)
Sound(ch, ld) ==
    /\ ld \in Load
    /\ Real(ch, ld.list)
    /\ ld.old # NoItem => Real(ch, ld.old)
    /\ \A t \in Solana : ld.asked[t] <= Len(ch[t])
    /\ ld.pos # 0

LoadOK(ch, ld) ==
    /\ Sound(ch, ld)
    /\ ld.at # "storing" =>
          ld.pos <= Len(ld.tokens) /\ ld.tokens[ld.pos] \in Solana
    /\ ld.at = "transactions" =>
          ld.places \subseteq 1 .. Len(ch[ld.tokens[ld.pos]])
    /\ ~ ld.list.lossy => Walked(ch, ld)

(* A load that goes on from token ld.pos.                                  *)
Ready(ch, ld) ==
    /\ Sound(ch, ld)
    /\ ~ ld.list.lossy =>
          \A i \in 1 .. Len(ld.tokens) :
              /\ i < ld.pos => Done(ch, ld.asked, ld.list.txns, ld.tokens[i])
              /\ i >= ld.pos => Untouched(ld.list.txns, ld.tokens[i])

ScreenOK(ch, scr) ==
    /\ scr \in Mounted \cup {Closed}
    /\ scr.mounted /\ scr.shown # NoList => Real(ch, scr.shown)

(* What is shown above a load was there when the load began.               *)
Above(ld, scr) ==
    /\ scr.mounted /\ ld.tokens = scr.tokens
    /\ scr.shown # NoList =>
          \A t \in Solana \cap TokensOf(scr.tokens) : \A n \in Nat :
              <<t, n>> \in scr.shown.txns => n <= ld.asked[t]

LoadsOK == \A c \in Loads : load[c] # Idle => LoadOK(chain, load[c])
CacheOK == \A k \in Keys : cache[k] # NoItem => Real(chain, cache[k].list)
OwnOK == load[Own] # Idle => Above(load[Own], screen)

HistoryInv ==
    HistoryTypeOK /\ LoadsOK /\ CacheOK /\ ScreenOK(chain, screen) /\ OwnOK

(* What the steps of a load leave as it is, or well-typed.                 *)
Elsewhere ==
    /\ chain' = chain
    /\ chainToWallet' \in BOOLEAN /\ errors' \in 0 .. MaxErrors

(* scr is a screen that load ld of c may go on for.                        *)
For(c, scr, ld) ==
    /\ ScreenOK(chain, scr)
    /\ IF c = Own THEN Above(ld, scr) ELSE scr = screen

-----------------------------------------------------------------------------
LEMMA OpeningOK ==
    ASSUME NEW o \in Openings
    PROVE  /\ Len(o) \in Nat /\ DOMAIN o = 1 .. Len(o)
           /\ \A i \in 1 .. Len(o) : o[i] \in Tokens
           /\ TokensOf(o) = {o[i] : i \in 1 .. Len(o)}
           /\ \A i, j \in 1 .. Len(o) : o[i] = o[j] => i = j
           /\ KeyOf(o) \in Keys
<1>1. o \in Seq(Tokens)
  BY HistoryAssumption
<1>2. Len(o) \in Nat /\ DOMAIN o = 1 .. Len(o)
  BY <1>1
<1>3. \A i \in 1 .. Len(o) : o[i] \in Tokens
  BY <1>1
<1>4. \A i, j \in 1 .. Len(o) : o[i] = o[j] => i = j
  BY <1>2, HistoryAssumption
<1> QED
  BY <1>2, <1>3, <1>4 DEF TokensOf, KeyOf, Keys

LEMMA BoundsNat ==
    /\ MaxErrors \in Nat /\ Limit \in Nat \ {0}
    /\ \A t \in Solana : MaxTxns[t] \in Nat
BY HistoryAssumption

LEMMA LoadNotIdle == ASSUME NEW ld \in Load PROVE ld # Idle
BY DEF Load, Idle

(* A load is put in the place of another.                                  *)
LEMMA PutLoad ==
    ASSUME HistoryInv, Elsewhere, NEW c \in Loads, NEW ld, LoadOK(chain, ld),
           NEW scr, For(c, scr, ld),
           load' = [load EXCEPT ![c] = ld], screen' = scr,
           cache' \in [Keys -> Item \cup {NoItem}], CacheOK'
    PROVE  HistoryInv'
<1> USE DEF HistoryInv, Elsewhere
<1>1. ld \in Load /\ load \in [Loads -> Load \cup {Idle}]
  BY DEF LoadOK, Sound, HistoryTypeOK
<1>2. HistoryTypeOK'
  <2>1. scr \in Mounted \cup {Closed}
    BY DEF For, ScreenOK
  <2> QED
    BY <1>1, <2>1 DEF HistoryTypeOK
<1>3. LoadsOK'
  BY <1>1 DEF LoadsOK
<1>4. ScreenOK(chain, screen)'
  BY DEF For, ScreenOK
<1>5. OwnOK'
  <2>1. CASE c = Own
    BY <1>1, <2>1 DEF For, OwnOK, Loads
  <2>2. CASE c # Own
    BY <1>1, <2>2 DEF For, OwnOK, Loads
  <2> QED
    BY <2>1, <2>2
<1> QED
  BY <1>2, <1>3, <1>4, <1>5

(* A load ends.                                                            *)
LEMMA PutIdle ==
    ASSUME HistoryInv, Elsewhere, NEW c \in Loads, NEW scr,
           ScreenOK(chain, scr), c # Own => scr = screen,
           load' = [load EXCEPT ![c] = Idle], screen' = scr,
           UNCHANGED cache
    PROVE  HistoryInv'
<1> USE DEF HistoryInv, Elsewhere
<1>1. load \in [Loads -> Load \cup {Idle}]
  BY DEF HistoryTypeOK
<1>2. HistoryTypeOK'
  <2>1. scr \in Mounted \cup {Closed}
    BY DEF ScreenOK
  <2> QED
    BY <1>1, <2>1 DEF HistoryTypeOK
<1>3. LoadsOK' /\ CacheOK'
  BY <1>1 DEF LoadsOK, CacheOK
<1>4. ScreenOK(chain, screen)'
  BY DEF ScreenOK
<1>5. OwnOK'
  BY <1>1 DEF OwnOK, Loads
<1> QED
  BY <1>2, <1>3, <1>4, <1>5

(* The screen gets a list.                                                 *)
LEMMA ShowOK ==
    ASSUME NEW scr, ScreenOK(chain, scr), scr.mounted, NEW list \in List,
           Real(chain, list)
    PROVE  ScreenOK(chain, [scr EXCEPT !.shown = list])
<1>1. scr \in Mounted
  BY DEF ScreenOK, Closed
<1> DEFINE s == [scr EXCEPT !.shown = list]
<1>2. s \in Mounted /\ s.shown = list
  BY <1>1 DEF Mounted
<1> QED
  BY <1>2 DEF ScreenOK

LEMMA CaughtOK ==
    ASSUME HistoryInv, Elsewhere, NEW c \in Loads, NEW scr, NEW ld,
           Sound(chain, ld), For(c, scr, ld), Caught(c, scr, ld),
           UNCHANGED cache
    PROVE  HistoryInv'
<1>1. CASE c # Own \/ ld.old = NoItem
  BY <1>1, PutIdle DEF Caught, For
<1>2. CASE ~ (c # Own \/ ld.old = NoItem)
  <2>1. ld.old \in List /\ Real(chain, ld.old)
    BY <1>2 DEF Sound, Load
  <2>2. ScreenOK(chain, [scr EXCEPT !.shown = ld.old])
    BY <1>2, <2>1, ShowOK DEF For, Above
  <2> QED
    BY <1>2, <2>2, PutIdle DEF Caught
<1> QED
  BY <1>1, <1>2

LEMMA StoreOK ==
    ASSUME HistoryInv, Elsewhere, NEW c \in Loads, NEW scr, NEW ld,
           Sound(chain, ld), For(c, scr, ld),
           NEW list \in List, Real(chain, list), Store(c, scr, ld, list),
           ~ list.lossy => \A i \in 1 .. Len(ld.tokens) :
                              Done(chain, ld.asked, list.txns, ld.tokens[i])
    PROVE  HistoryInv'
<1> DEFINE ld2 == [ld EXCEPT !.at = "storing", !.places = {}, !.list = list]
           item == [list |-> list, young |-> ~ ld.force]
<1>0. ld \in Load
  BY DEF Sound
<1>1. /\ ld2 \in Load /\ ld2.at = "storing" /\ ld2.list = list
      /\ ld2.tokens = ld.tokens /\ ld2.asked = ld.asked
      /\ ld2.old = ld.old /\ ld2.pos = ld.pos
  BY <1>0 DEF Load
<1>2. load' = [load EXCEPT ![c] = ld2] /\ screen' = scr
  BY DEF Store
<1>3. item \in Item /\ item.list = list
  BY <1>0 DEF Load, Item
<1>4. cache' = [cache EXCEPT ![KeyOf(ld.tokens)] = item]
  BY DEF Store
<1> HIDE DEF ld2, item
<1>5. LoadOK(chain, ld2)
  <2>1. Sound(chain, ld2)
    BY <1>1 DEF Sound
  <2>2. ~ list.lossy => Walked(chain, ld2)
    BY <1>1 DEF Walked
  <2> QED
    BY <1>1, <2>1, <2>2 DEF LoadOK
<1>6. For(c, scr, ld2)
  BY <1>1 DEF For, Above
<1>7. cache' \in [Keys -> Item \cup {NoItem}] /\ CacheOK'
  BY <1>3, <1>4 DEF HistoryInv, HistoryTypeOK, CacheOK, Elsewhere
<1> QED
  BY <1>2, <1>5, <1>6, <1>7, PutLoad

(* Entries of the chain VeChain say nothing of a token of Solana.          *)
LEMMA VeChainApart ==
    ASSUME NEW passed, NEW txns, NEW t \in Solana, NEW n
    PROVE  <<t, n>> \in txns \cup ((passed \cap VeChain) \X {0})
              <=> <<t, n>> \in txns
BY HistoryAssumption

LEMMA OnwardOK ==
    ASSUME HistoryInv, Elsewhere, NEW c \in Loads, NEW scr, NEW ld,
           Ready(chain, ld), For(c, scr, ld), Onward(c, scr, ld)
    PROVE  HistoryInv'
<1>0. ld \in Load /\ Sound(chain, ld) /\ ld.tokens \in Openings
      /\ ld.list \in List /\ ld.pos \in Nat
  BY DEF Ready, Sound, Load
<1> DEFINE more(s) == ({ld.tokens[i] : i \in ld.pos .. s - 1} \cap VeChain) \X {0}
           list(s) == [ld.list EXCEPT !.txns = @ \cup more(s)]
           spot(s) == [ld EXCEPT !.at = "signatures", !.pos = s,
                                 !.places = {}, !.list = list(s)]
<1>1. PICK stop \in ld.pos .. Len(ld.tokens) + 1 :
        /\ {ld.tokens[i] : i \in ld.pos .. stop - 1} \cap Solana = {}
        /\ \/ stop > Len(ld.tokens) /\ Store(c, scr, ld, list(stop))
           \/ /\ stop <= Len(ld.tokens)
              /\ ld.tokens[stop] \in Solana \ Underivable
              /\ load' = [load EXCEPT ![c] = spot(stop)]
              /\ screen' = scr
              /\ UNCHANGED cache
           \/ /\ stop <= Len(ld.tokens)
              /\ ld.tokens[stop] \in Underivable
              /\ IF Len(ld.tokens) = 1
                 THEN Caught(c, scr, ld) /\ UNCHANGED cache
                 ELSE Store(c, scr, ld, [list(stop) EXCEPT !.lossy = TRUE])
  BY DEF Onward
<1>2. /\ Len(ld.tokens) \in Nat /\ stop \in Nat /\ stop # 0
      /\ \A i \in 1 .. Len(ld.tokens) : ld.tokens[i] \in Tokens
  BY <1>0, <1>1, OpeningOK DEF Sound
<1> DEFINE L == list(stop)
           txns == ld.list.txns \cup more(stop)
<1>3. L.txns = txns /\ L.lossy = ld.list.lossy /\ L \in List
  <2>1. more(stop) \subseteq Txn
    BY DEF Txn
  <2> QED
    BY <1>0, <2>1 DEF List
<1>4. \A t \in Solana : \A n : <<t, n>> \in txns <=> <<t, n>> \in ld.list.txns
  BY VeChainApart
<1>5. Real(chain, L)
  BY <1>0, <1>3, <1>4 DEF Sound, Real
<1>6. ASSUME ~ L.lossy, NEW i \in 1 .. Len(ld.tokens)
      PROVE  /\ i < stop => Done(chain, ld.asked, L.txns, ld.tokens[i])
             /\ i >= stop => Untouched(L.txns, ld.tokens[i])
  <2>1. CASE i < ld.pos
    <3>1. Done(chain, ld.asked, ld.list.txns, ld.tokens[i])
      BY <1>3, <1>6, <2>1 DEF Ready
    <3>2. Done(chain, ld.asked, txns, ld.tokens[i])
      BY <1>4, <3>1 DEF Done
    <3> QED
      BY <1>0, <1>1, <1>2, <1>3, <2>1, <3>2
  <2>2. CASE i >= ld.pos
    <3>1. Untouched(ld.list.txns, ld.tokens[i])
      BY <1>3, <1>6, <2>2 DEF Ready
    <3>2. Untouched(L.txns, ld.tokens[i])
      BY <1>3, <1>4, <3>1 DEF Untouched
    <3>3. ASSUME i < stop
          PROVE  Done(chain, ld.asked, L.txns, ld.tokens[i])
      <4>1. i \in ld.pos .. stop - 1
        BY <1>0, <1>2, <2>2, <3>3
      <4>2. ld.tokens[i] \notin Solana
        BY <1>1, <4>1
      <4>3. ld.tokens[i] \in VeChain => <<ld.tokens[i], 0>> \in more(stop)
        BY <4>1
      <4> QED
        BY <1>3, <4>2, <4>3 DEF Done
    <3> QED
      BY <3>2, <3>3
  <2> QED
    BY <1>0, <2>1, <2>2
<1> DEFINE ld2 == spot(stop)
           lossy == [L EXCEPT !.lossy = TRUE]
<1>7. /\ ld2 \in Load /\ ld2.at = "signatures" /\ ld2.list = L
      /\ ld2.tokens = ld.tokens /\ ld2.asked = ld.asked
      /\ ld2.old = ld.old /\ ld2.pos = stop
  BY <1>0, <1>2, <1>3 DEF Load
<1>8. lossy \in List /\ lossy.lossy = TRUE /\ lossy.txns = L.txns
  BY <1>3 DEF List
<1>9. \/ stop > Len(ld.tokens) /\ Store(c, scr, ld, L)
      \/ /\ stop <= Len(ld.tokens) /\ ld.tokens[stop] \in Solana
         /\ load' = [load EXCEPT ![c] = ld2]
         /\ screen' = scr /\ UNCHANGED cache
      \/ Caught(c, scr, ld) /\ UNCHANGED cache
      \/ Store(c, scr, ld, lossy)
  BY <1>1
<1> HIDE DEF L, ld2, lossy, txns, more, list, spot
<1>10. CASE stop > Len(ld.tokens) /\ Store(c, scr, ld, L)
  <2>1. ~ L.lossy => \A i \in 1 .. Len(ld.tokens) :
                        Done(chain, ld.asked, L.txns, ld.tokens[i])
    BY <1>2, <1>6, <1>10
  <2> QED
    BY <1>0, <1>3, <1>5, <1>10, <2>1, StoreOK
<1>11. CASE /\ stop <= Len(ld.tokens) /\ ld.tokens[stop] \in Solana
            /\ load' = [load EXCEPT ![c] = ld2]
            /\ screen' = scr /\ UNCHANGED cache
  <2>1. Sound(chain, ld2)
    BY <1>0, <1>2, <1>5, <1>7 DEF Sound
  <2>2. ~ L.lossy => Walked(chain, ld2)
    BY <1>2, <1>6, <1>7 DEF Walked
  <2>3. LoadOK(chain, ld2)
    BY <1>7, <1>11, <2>1, <2>2 DEF LoadOK
  <2>4. For(c, scr, ld2)
    BY <1>7 DEF For, Above
  <2>5. cache' \in [Keys -> Item \cup {NoItem}] /\ CacheOK'
    BY <1>11 DEF HistoryInv, HistoryTypeOK, CacheOK, Elsewhere
  <2> QED
    BY <1>11, <2>3, <2>4, <2>5, PutLoad
<1>12. CASE Caught(c, scr, ld) /\ UNCHANGED cache
  BY <1>0, <1>12, CaughtOK
<1>13. CASE Store(c, scr, ld, lossy)
  <2>1. Real(chain, lossy)
    BY <1>5, <1>8 DEF Real
  <2> QED
    BY <1>0, <1>8, <1>13, <2>1, StoreOK
<1> QED
  BY <1>9, <1>10, <1>11, <1>12, <1>13

-----------------------------------------------------------------------------
(* The user.                                                               *)

(* An empty list, as of the moment a load begins.                          *)
LEMMA GetHistoryOK ==
    ASSUME HistoryInv, Elsewhere, NEW scr, NEW force \in BOOLEAN,
           ScreenOK(chain, scr), scr.mounted, GetHistory(scr, force)
    PROVE  HistoryInv'
<1> DEFINE key == KeyOf(scr.tokens)
           none == [txns |-> {}, lossy |-> FALSE]
           asked == [t \in Solana |->
                        IF t \in TokensOf(scr.tokens) \cap Solana
                        THEN Len(chain[t]) ELSE 0]
           old == IF cache[key] = NoItem THEN NoItem ELSE cache[key].list
           ld == [at |-> "signatures", tokens |-> scr.tokens, force |-> force,
                  pos |-> 1, places |-> {}, list |-> none, old |-> old,
                  asked |-> asked]
<1>1. scr \in Mounted /\ scr.tokens \in Openings
  <2>1. scr \in Mounted
    BY DEF ScreenOK, Closed
  <2> QED
    BY <2>1 DEF Mounted
<1>2. key \in Keys
  BY <1>1, OpeningOK
<1>3. old \in List \cup {NoItem} /\ (old # NoItem => Real(chain, old))
  BY <1>2 DEF HistoryInv, HistoryTypeOK, CacheOK, Item
<1>4. \A t \in Solana : Len(chain[t]) \in Nat
  BY DEF HistoryInv, HistoryTypeOK
<1>5. /\ asked \in [Solana -> Nat]
      /\ \A t \in Solana : asked[t] <= Len(chain[t])
      /\ \A t \in Solana \cap TokensOf(scr.tokens) : asked[t] = Len(chain[t])
  BY <1>4
<1>6. none \in List /\ none.txns = {} /\ none.lossy = FALSE
  BY DEF List
<1>7. \/ Onward(Own, scr, ld)
      \/ Caught(Own, scr, ld) /\ UNCHANGED cache
  BY DEF GetHistory
<1> HIDE DEF key, none, asked, old
<1>8. /\ ld \in Load /\ ld.list = none /\ ld.old = old /\ ld.asked = asked
      /\ ld.pos = 1 /\ ld.tokens = scr.tokens
  BY <1>1, <1>3, <1>5, <1>6 DEF Load
<1> HIDE DEF ld
<1>9. Sound(chain, ld)
  BY <1>3, <1>5, <1>6, <1>8 DEF Sound, Real
<1>10. Ready(chain, ld)
  BY <1>6, <1>8, <1>9 DEF Ready, Untouched
<1>11. For(Own, scr, ld)
  <2>1. ASSUME scr.shown # NoList, NEW t \in Solana \cap TokensOf(scr.tokens),
               NEW n \in Nat, <<t, n>> \in scr.shown.txns
        PROVE  n <= ld.asked[t]
    <3>1. n \in 1 .. Len(chain[t])
      BY <2>1 DEF ScreenOK, Real
    <3> QED
      BY <1>4, <1>5, <1>8, <3>1
  <2> QED
    BY <1>8, <2>1 DEF For, Above
<1> QED
  BY <1>7, <1>9, <1>10, <1>11, OnwardOK, CaughtOK DEF Loads

LEMMA OpenFits ==
    ASSUME HistoryInv, NEW o \in Openings, Open(o)
    PROVE  HistoryInv'
<1> USE DEF HistoryInv
<1> DEFINE item == cache[KeyOf(o)]
           scr == [mounted |-> TRUE, tokens |-> o, filled |-> chainToWallet,
                   shown |-> IF item = NoItem THEN NoList ELSE item.list]
<1>1. KeyOf(o) \in Keys /\ item \in Item \cup {NoItem}
  BY OpeningOK DEF HistoryTypeOK
<1>2. ScreenOK(chain, scr) /\ scr.mounted
  <2>1. scr \in Mounted
    BY <1>1 DEF HistoryTypeOK, Mounted, Item
  <2>2. scr.shown # NoList => Real(chain, scr.shown)
    BY <1>1 DEF CacheOK
  <2> QED
    BY <2>1, <2>2 DEF ScreenOK
<1>3. Elsewhere
  BY DEF Open, Elsewhere, HistoryTypeOK
<1>4. \/ GetHistory(scr, FALSE)
      \/ screen' = scr /\ UNCHANGED <<cache, load>>
  BY DEF Open
<1>5. load[Own] = Idle
  BY DEF Open, OwnOK, Above
<1> HIDE DEF scr, item
<1>6. CASE GetHistory(scr, FALSE)
  BY <1>2, <1>3, <1>6, GetHistoryOK
<1>7. CASE screen' = scr /\ UNCHANGED <<cache, load>>
  <2>1. load' = [load EXCEPT ![Own] = Idle]
    BY <1>5, <1>7 DEF HistoryTypeOK, Loads
  <2> QED
    BY <1>2, <1>3, <1>7, <2>1, PutIdle DEF Loads
<1> QED
  BY <1>4, <1>6, <1>7

LEMMA CloseFits ==
    ASSUME HistoryInv, Close
    PROVE  HistoryInv'
<1> USE DEF HistoryInv
<1>1. /\ load \in [Loads -> Load \cup {Idle}] /\ Own \in Loads
      /\ UNCHANGED <<chain, chainToWallet, cache, errors>>
      /\ screen' = Closed
  BY DEF Close, HistoryTypeOK, Loads
<1>2. ScreenOK(chain, screen)' /\ CacheOK'
  BY <1>1 DEF ScreenOK, Closed, CacheOK
<1>3. CASE load[Own] = Idle
  <2>1. UNCHANGED load
    BY <1>3 DEF Close
  <2> QED
    BY <1>1, <1>2, <1>3, <2>1 DEF HistoryTypeOK, LoadsOK, OwnOK
<1>4. CASE load[Own] # Idle
  <2> DEFINE ld == [load[Own] EXCEPT !.old = NoItem]
  <2>1. PICK c \in Left :
           /\ load[c] = Idle
           /\ load' = [load EXCEPT ![Own] = Idle, ![c] = ld]
    BY <1>4 DEF Close
  <2>2. c \in Loads /\ c # Own
    BY HistoryAssumption DEF Loads
  <2>3. load[Own] \in Load /\ LoadOK(chain, load[Own])
    BY <1>1, <1>4 DEF LoadsOK
  <2>4. /\ ld \in Load /\ ld.old = NoItem /\ ld.at = load[Own].at
        /\ ld.tokens = load[Own].tokens /\ ld.pos = load[Own].pos
        /\ ld.places = load[Own].places /\ ld.list = load[Own].list
        /\ ld.asked = load[Own].asked
    BY <2>3 DEF Load
  <2> HIDE DEF ld
  <2>5. LoadOK(chain, ld)
    BY <2>3, <2>4 DEF LoadOK, Sound, Walked
  <2>6. /\ load' \in [Loads -> Load \cup {Idle}]
        /\ load'[Own] = Idle /\ load'[c] = ld
        /\ \A d \in Loads \ {Own, c} : load'[d] = load[d]
    BY <1>1, <2>1, <2>2, <2>4
  <2>7. LoadsOK' /\ OwnOK'
    BY <1>1, <2>5, <2>6 DEF LoadsOK, OwnOK
  <2> QED
    BY <1>1, <1>2, <2>6, <2>7 DEF HistoryTypeOK
<1> QED
  BY <1>3, <1>4

LEMMA RefreshFits ==
    ASSUME HistoryInv, HandleRefresh
    PROVE  HistoryInv'
<1>1. Elsewhere /\ ScreenOK(chain, screen)
  BY DEF HandleRefresh, Elsewhere, HistoryInv, HistoryTypeOK
<1> QED
  BY <1>1, GetHistoryOK DEF HandleRefresh

-----------------------------------------------------------------------------
(* The answers.                                                            *)

LEMMA LoadFacts ==
    ASSUME HistoryInv, NEW c \in Loads, load[c] # Idle
    PROVE  /\ load[c] \in Load /\ LoadOK(chain, load[c])
           /\ For(c, screen, load[c])
           /\ load[c].pos \in Nat \ {0} /\ load[c].tokens \in Openings
           /\ load[c].list \in List
           /\ \A t \in Solana : /\ Len(chain[t]) \in Nat
                                /\ load[c].asked[t] \in Nat
                                /\ load[c].asked[t] <= Len(chain[t])
<1>1. load[c] \in Load /\ LoadOK(chain, load[c])
  BY DEF HistoryInv, HistoryTypeOK, LoadsOK
<1>2. For(c, screen, load[c])
  BY DEF HistoryInv, For, OwnOK
<1>3. /\ load[c].pos \in Nat \ {0} /\ load[c].tokens \in Openings
      /\ load[c].list \in List /\ load[c].asked \in [Solana -> Nat]
  BY <1>1 DEF Load, LoadOK, Sound
<1>4. \A t \in Solana : /\ Len(chain[t]) \in Nat
                        /\ load[c].asked[t] \in Nat
                        /\ load[c].asked[t] <= Len(chain[t])
  BY <1>1, <1>3 DEF HistoryInv, HistoryTypeOK, LoadOK, Sound
<1> QED
  BY <1>1, <1>2, <1>3, <1>4

(* A load with some fields changed is one.                                 *)
LEMMA Fetches ==
    ASSUME NEW ld \in Load, NEW places \in SUBSET Nat
    PROVE  LET ld2 == [ld EXCEPT !.at = "transactions", !.places = places]
           IN  /\ ld2 \in Load /\ ld2.at = "transactions"
               /\ ld2.places = places /\ ld2.list = ld.list
               /\ ld2.tokens = ld.tokens /\ ld2.pos = ld.pos
               /\ ld2.asked = ld.asked /\ ld2.old = ld.old
BY DEF Load

(* The load goes on to the next token with what it has listed.             *)
LEMMA NextTokenOK ==
    ASSUME HistoryInv, Elsewhere, NEW c \in Loads, load[c] # Idle,
           load[c].at # "storing",
           NEW list \in List, Real(chain, list), NextToken(c, list),
           ~ list.lossy =>
              \A i \in 1 .. Len(load[c].tokens) :
                  /\ i <= load[c].pos =>
                        Done(chain, load[c].asked, list.txns, load[c].tokens[i])
                  /\ i > load[c].pos =>
                        Untouched(list.txns, load[c].tokens[i])
    PROVE  HistoryInv'
<1> DEFINE ld == [load[c] EXCEPT !.pos = @ + 1, !.places = {}, !.list = list]
<1>1. /\ load[c] \in Load /\ LoadOK(chain, load[c])
      /\ For(c, screen, load[c]) /\ load[c].pos \in Nat \ {0}
  BY LoadFacts
<1>2. /\ ld \in Load /\ ld.list = list /\ ld.pos = load[c].pos + 1
      /\ ld.tokens = load[c].tokens /\ ld.asked = load[c].asked
      /\ ld.old = load[c].old
  <2>1. load[c].pos + 1 \in Nat
    BY <1>1
  <2>2. ASSUME NEW lc \in Load, NEW pos \in Nat
        PROVE  LET ld2 == [lc EXCEPT !.pos = pos, !.places = {}, !.list = list]
               IN  /\ ld2 \in Load /\ ld2.list = list /\ ld2.pos = pos
                   /\ ld2.tokens = lc.tokens /\ ld2.asked = lc.asked
                   /\ ld2.old = lc.old
    BY DEF Load
  <2> HIDE DEF ld
  <2>3. ld = [load[c] EXCEPT !.pos = load[c].pos + 1, !.places = {}, !.list = list]
    BY DEF ld
  <2> QED
    BY <1>1, <2>1, <2>2, <2>3
<1>3. Onward(c, screen, ld)
  BY DEF NextToken
<1> HIDE DEF ld
<1>4. Sound(chain, ld)
  BY <1>1, <1>2 DEF Sound, LoadOK
<1>5. Ready(chain, ld)
  <2>1. ASSUME ~ list.lossy, NEW i \in 1 .. Len(ld.tokens)
        PROVE  /\ i < ld.pos => Done(chain, ld.asked, list.txns, ld.tokens[i])
               /\ i >= ld.pos => Untouched(list.txns, ld.tokens[i])
    BY <1>1, <1>2, <2>1
  <2> QED
    BY <1>2, <1>4, <2>1 DEF Ready
<1>6. For(c, screen, ld)
  BY <1>1, <1>2 DEF For, Above
<1> QED
  BY <1>3, <1>5, <1>6, OnwardOK

LEMMA SignaturesFit ==
    ASSUME HistoryInv, NEW c \in Loads, Signatures(c)
    PROVE  HistoryInv'
<1> DEFINE ld == load[c]
           t == Asked(c)
           n == Len(chain[t])
<1>1. ld.at = "signatures" /\ load[c] # Idle
  BY DEF Signatures, Idle
<1>2. /\ ld \in Load /\ LoadOK(chain, ld) /\ For(c, screen, ld)
      /\ ld.pos \in Nat \ {0} /\ ld.tokens \in Openings /\ ld.list \in List
      /\ Real(chain, ld.list)
  BY <1>1, LoadFacts DEF LoadOK, Sound
<1>3. /\ t = ld.tokens[ld.pos] /\ t \in Solana /\ t \notin VeChain
      /\ ld.pos \in 1 .. Len(ld.tokens) /\ Len(ld.tokens) \in Nat
  BY <1>1, <1>2, OpeningOK, HistoryAssumption DEF LoadOK, Asked
<1>4. n \in Nat /\ ld.asked[t] \in Nat /\ ld.asked[t] <= n
  BY <1>1, <1>3, LoadFacts
<1>5. Elsewhere
  BY DEF Signatures, Elsewhere, HistoryInv, HistoryTypeOK
<1>6. CASE n = 0
  <2>1. NextToken(c, ld.list)
    BY <1>6 DEF Signatures
  <2>2. ASSUME ~ ld.list.lossy, NEW i \in 1 .. Len(ld.tokens)
        PROVE  /\ i <= ld.pos =>
                    Done(chain, ld.asked, ld.list.txns, ld.tokens[i])
               /\ i > ld.pos => Untouched(ld.list.txns, ld.tokens[i])
    <3>1. Walked(chain, ld)
      BY <1>2, <2>2 DEF LoadOK
    <3>2. CASE i # ld.pos
      BY <1>1, <1>3, <3>1, <3>2 DEF Walked
    <3>3. CASE i = ld.pos
      <4>1. Untouched(ld.list.txns, t)
        BY <1>1, <1>3, <3>1, <3>3 DEF Walked
      <4>2. 0 \in ld.asked[t] .. Len(chain[t])
        BY <1>4, <1>6
      <4>3. \A k \in Nat : <<t, k>> \in ld.list.txns <=> InNewest(chain, t, 0, k)
        BY <1>3, <4>1 DEF Untouched, InNewest
      <4> QED
        BY <1>3, <3>3, <4>2, <4>3 DEF Done
    <3> QED
      BY <3>2, <3>3
  <2> QED
    BY <1>1, <1>2, <1>5, <2>1, <2>2, NextTokenOK
<1>7. CASE n # 0
  <2> DEFINE places == {k \in 1 .. n : k + Limit > n}
             ld2 == [ld EXCEPT !.at = "transactions", !.places = places]
  <2>1. /\ ld2 \in Load /\ ld2.at = "transactions" /\ ld2.places = places
        /\ ld2.list = ld.list /\ ld2.tokens = ld.tokens /\ ld2.pos = ld.pos
        /\ ld2.asked = ld.asked /\ ld2.old = ld.old
    <3>1. places \in SUBSET Nat
      BY <1>4
    <3> QED
      BY <1>2, <3>1, Fetches
  <2>2. /\ load' = [load EXCEPT ![c] = ld2]
        /\ UNCHANGED <<cache, screen>>
    BY <1>7 DEF Signatures
  <2>3. Halfway(chain, ld.asked, ld.list.txns, places, t)
        \/ ~ Untouched(ld.list.txns, t)
    <3>1. n \in ld.asked[t] .. Len(chain[t])
      BY <1>4
    <3>2. \A k \in places : k \in 1 .. n /\ k + Limit > n
      OBVIOUS
    <3>3. ASSUME Untouched(ld.list.txns, t), NEW k \in Nat
          PROVE  <<t, k>> \in ld.list.txns
                    <=> InNewest(chain, t, n, k) /\ k \notin places
      BY <1>3, <3>3 DEF Untouched, InNewest
    <3> QED
      BY <3>1, <3>2, <3>3 DEF Halfway
  <2>4. places \subseteq 1 .. Len(chain[t])
    OBVIOUS
  <2> HIDE DEF ld2, places
  <2>5. ~ ld.list.lossy => Walked(chain, ld2)
    <3>1. ASSUME ~ ld.list.lossy PROVE Walked(chain, ld2)
      <4>1. Walked(chain, ld)
        BY <1>2, <3>1 DEF LoadOK
      <4>2. Untouched(ld.list.txns, t)
        BY <1>1, <1>3, <4>1 DEF Walked
      <4> QED
        BY <1>1, <1>3, <2>1, <2>3, <4>1, <4>2 DEF Walked
    <3> QED
      BY <3>1
  <2>6. LoadOK(chain, ld2)
    <3>1. Sound(chain, ld2)
      BY <1>2, <2>1 DEF LoadOK, Sound
    <3> QED
      BY <1>1, <1>2, <1>3, <2>1, <2>4, <2>5, <3>1 DEF LoadOK
  <2>7. For(c, screen, ld2)
    BY <1>2, <2>1 DEF For, Above
  <2>8. cache' \in [Keys -> Item \cup {NoItem}] /\ CacheOK'
    BY <1>5, <2>2 DEF HistoryInv, HistoryTypeOK, CacheOK, Elsewhere
  <2> QED
    BY <1>5, <2>2, <2>6, <2>7, <2>8, PutLoad
<1> QED
  BY <1>6, <1>7

LEMMA ErrorElsewhere ==
    ASSUME HistoryInv, Error, UNCHANGED chain
    PROVE  Elsewhere
BY HistoryAssumption DEF HistoryInv, HistoryTypeOK, Error, Elsewhere

(* What an error marks is as real as it was.                               *)
LEMMA MarkedOK ==
    ASSUME NEW list \in List, Real(chain, list)
    PROVE  LET marked == [list EXCEPT !.lossy = TRUE]
           IN  marked \in List /\ marked.lossy = TRUE /\ Real(chain, marked)
BY DEF List, Real

LEMMA SignaturesFailFits ==
    ASSUME HistoryInv, NEW c \in Loads, SignaturesFail(c)
    PROVE  HistoryInv'
<1>1. /\ load[c].at = "signatures" /\ load[c] # Idle /\ Elsewhere
      /\ NextToken(c, [load[c].list EXCEPT !.lossy = TRUE])
  BY ErrorElsewhere DEF SignaturesFail, Error, Idle
<1>2. load[c].list \in List /\ Real(chain, load[c].list)
  BY <1>1, LoadFacts DEF LoadOK, Sound
<1> QED
  BY <1>1, <1>2, MarkedOK, NextTokenOK

LEMMA SameOfToken ==
    ASSUME NEW u, NEW asked, NEW txns, NEW more, txns \subseteq more,
           u \in Solana => \A k \in Nat : <<u, k>> \in more <=> <<u, k>> \in txns
    PROVE  /\ Done(chain, asked, txns, u) => Done(chain, asked, more, u)
           /\ Untouched(txns, u) => Untouched(more, u)
BY DEF Done, Untouched

(* The transaction of signature n is dealt with; of t it took list on from *)
(* what the load had listed, and left all other tokens alone.              *)
LEMMA DealtOK ==
    ASSUME HistoryInv, Elsewhere, NEW c \in Loads, load[c] # Idle,
           NEW n \in load[c].places, IsNext(c, n),
           NEW list \in List, Real(chain, list), Dealt(c, n, list),
           list.lossy \/
              /\ list.lossy = load[c].list.lossy
              /\ \A t \in Solana : \A k \in Nat :
                    <<t, k>> \in list.txns <=>
                       \/ <<t, k>> \in load[c].list.txns
                       \/ t = Asked(c) /\ k = n /\ chain[t][n] = Transfer
              /\ load[c].list.txns \subseteq list.txns
    PROVE  HistoryInv'
<1> DEFINE ld == load[c]
           t == Asked(c)
<1>1. /\ ld \in Load /\ LoadOK(chain, ld) /\ For(c, screen, ld)
      /\ ld.pos \in Nat \ {0} /\ ld.tokens \in Openings
      /\ ld.at = "transactions"
  BY LoadFacts DEF IsNext
<1>2. /\ t = ld.tokens[ld.pos] /\ t \in Solana /\ t \notin VeChain
      /\ ld.pos \in 1 .. Len(ld.tokens) /\ Len(ld.tokens) \in Nat
      /\ \A i \in 1 .. Len(ld.tokens) : ld.tokens[i] = t => i = ld.pos
  BY <1>1, OpeningOK, HistoryAssumption DEF LoadOK, Asked
<1>3. ld.places \subseteq 1 .. Len(chain[t]) /\ ld.places \in SUBSET Nat /\ n \in Nat
  <2>1. ld.places \subseteq 1 .. Len(chain[t])
    BY <1>1, <1>2 DEF LoadOK
  <2> QED
    BY <2>1, <1>1 DEF Load
(* What is true of list if no error took anything from it. *)
<1>4. ASSUME ~ list.lossy
      PROVE  /\ Walked(chain, ld)
             /\ \A i \in 1 .. Len(ld.tokens) : i # ld.pos =>
                   /\ Done(chain, ld.asked, ld.list.txns, ld.tokens[i]) =>
                         Done(chain, ld.asked, list.txns, ld.tokens[i])
                   /\ Untouched(ld.list.txns, ld.tokens[i]) =>
                         Untouched(list.txns, ld.tokens[i])
             /\ Halfway(chain, ld.asked, list.txns, ld.places \ {n}, t)
  <2>1. Walked(chain, ld)
    BY <1>1, <1>4 DEF LoadOK
  <2>2. ASSUME NEW i \in 1 .. Len(ld.tokens), i # ld.pos
        PROVE  /\ Done(chain, ld.asked, ld.list.txns, ld.tokens[i]) =>
                     Done(chain, ld.asked, list.txns, ld.tokens[i])
               /\ Untouched(ld.list.txns, ld.tokens[i]) =>
                     Untouched(list.txns, ld.tokens[i])
    <3> DEFINE u == ld.tokens[i]
    <3>1. u # t
      BY <1>2, <2>2
    <3>2. u \in Solana => \A k \in Nat :
             <<u, k>> \in list.txns <=> <<u, k>> \in ld.list.txns
      BY <1>4, <3>1
    <3>3. ld.list.txns \subseteq list.txns
      BY <1>4
    <3> HIDE DEF u
    <3>4. /\ Done(chain, ld.asked, ld.list.txns, u) =>
                Done(chain, ld.asked, list.txns, u)
          /\ Untouched(ld.list.txns, u) => Untouched(list.txns, u)
      BY <3>2, <3>3, SameOfToken
    <3> QED
      BY <3>4 DEF u
  <2>3. Halfway(chain, ld.asked, ld.list.txns, ld.places, t)
    BY <1>1, <1>2, <2>1 DEF Walked
  <2>4. PICK m \in ld.asked[t] .. Len(chain[t]) :
           /\ \A k \in ld.places : k \in 1 .. m /\ k + Limit > m
           /\ \A k \in Nat : <<t, k>> \in ld.list.txns <=>
                                InNewest(chain, t, m, k) /\ k \notin ld.places
    BY <2>3 DEF Halfway
  <2>5. ASSUME NEW k \in Nat
        PROVE  <<t, k>> \in list.txns <=>
                  InNewest(chain, t, m, k) /\ k \notin ld.places \ {n}
    <3>1. <<t, k>> \in list.txns <=>
             \/ <<t, k>> \in ld.list.txns
             \/ k = n /\ chain[t][n] = Transfer
      BY <1>2, <1>4
    <3>2. InNewest(chain, t, m, n) <=> chain[t][n] = Transfer
      BY <2>4 DEF InNewest
    <3> QED
      BY <2>4, <3>1, <3>2
  <2>6. Halfway(chain, ld.asked, list.txns, ld.places \ {n}, t)
    BY <2>4, <2>5 DEF Halfway
  <2> QED
    BY <2>1, <2>2, <2>6
<1>5. CASE ld.places = {n}
  <2>1. NextToken(c, list)
    BY <1>5 DEF Dealt
  <2>2. ASSUME ~ list.lossy, NEW i \in 1 .. Len(ld.tokens)
        PROVE  /\ i <= ld.pos => Done(chain, ld.asked, list.txns, ld.tokens[i])
               /\ i > ld.pos => Untouched(list.txns, ld.tokens[i])
    <3>1. CASE i = ld.pos
      <4>1. Halfway(chain, ld.asked, list.txns, {}, t)
        BY <1>4, <1>5, <2>2
      <4> QED
        BY <1>2, <3>1, <4>1 DEF Halfway, Done
    <3>2. CASE i # ld.pos
      <4>1. /\ i < ld.pos => Done(chain, ld.asked, ld.list.txns, ld.tokens[i])
            /\ i > ld.pos => Untouched(ld.list.txns, ld.tokens[i])
        BY <1>1, <1>4, <2>2 DEF Walked
      <4> QED
        BY <1>2, <1>4, <2>2, <3>2, <4>1
    <3> QED
      BY <3>1, <3>2
  <2> QED
    BY <1>1, <2>1, <2>2, NextTokenOK
<1>6. CASE ld.places # {n}
  <2> DEFINE ld2 == [load[c] EXCEPT !.places = @ \ {n}, !.list = list]
  <2>1. /\ load' = [load EXCEPT ![c] = ld2]
        /\ UNCHANGED <<cache, screen>>
    BY <1>6 DEF Dealt
  <2>2. /\ ld2 \in Load /\ ld2.places = ld.places \ {n} /\ ld2.list = list
        /\ ld2.tokens = ld.tokens /\ ld2.asked = ld.asked
        /\ ld2.old = ld.old /\ ld2.pos = ld.pos /\ ld2.at = ld.at
    <3>1. ASSUME NEW lc \in Load
          PROVE  LET l2 == [lc EXCEPT !.places = @ \ {n}, !.list = list]
                 IN  /\ l2 \in Load /\ l2.places = lc.places \ {n}
                     /\ l2.list = list /\ l2.tokens = lc.tokens
                     /\ l2.asked = lc.asked /\ l2.old = lc.old
                     /\ l2.pos = lc.pos /\ l2.at = lc.at
      BY DEF Load
    <3> QED
      BY <1>1, <3>1
  <2> HIDE DEF ld2
  <2>3. ~ list.lossy => Walked(chain, ld2)
    BY <1>1, <1>2, <1>4, <2>2 DEF Walked
  <2>4. LoadOK(chain, ld2)
    <3>1. Sound(chain, ld2)
      BY <1>1, <2>2 DEF LoadOK, Sound
    <3> QED
      BY <1>1, <1>2, <1>3, <2>2, <2>3, <3>1 DEF LoadOK
  <2>5. For(c, screen, ld2)
    BY <1>1, <2>2 DEF For, Above
  <2>6. cache' \in [Keys -> Item \cup {NoItem}] /\ CacheOK'
    BY <2>1 DEF HistoryInv, HistoryTypeOK, CacheOK, Elsewhere
  <2> QED
    BY <2>1, <2>4, <2>5, <2>6, PutLoad
<1> QED
  BY <1>5, <1>6

LEMMA ListedFits ==
    ASSUME HistoryInv, NEW c \in Loads, load[c] # Idle,
           NEW n \in load[c].places, Listed(c, n)
    PROVE  HistoryInv'
<1> DEFINE t == Asked(c)
           new == IF chain[t][n] = Transfer
                  THEN load[c].list.txns \cup {<<t, n>>} ELSE load[c].list.txns
           list == [load[c].list EXCEPT !.txns = new]
<1>1. /\ load[c] \in Load /\ LoadOK(chain, load[c]) /\ load[c].list \in List
      /\ load[c].at = "transactions" /\ Real(chain, load[c].list)
  BY LoadFacts DEF Listed, IsNext, LoadOK, Sound
<1>2. t \in Solana /\ n \in 1 .. Len(chain[t])
  BY <1>1 DEF LoadOK, Asked
<1>3. IsNext(c, n) /\ Dealt(c, n, list)
  BY DEF Listed
<1>4. Elsewhere
  BY DEF Listed, Elsewhere, HistoryInv, HistoryTypeOK
<1>5. new \subseteq Txn
  <2>1. n \in 1 .. MaxTxns[t]
    BY <1>2, HistoryAssumption DEF HistoryInv, HistoryTypeOK
  <2>2. <<t, n>> \in Txn
    BY <1>2, <2>1 DEF Txn
  <2> QED
    BY <1>1, <2>2 DEF List
<1>6. list \in List /\ list.txns = new /\ list.lossy = load[c].list.lossy
  BY <1>1, <1>5 DEF List
<1>7. /\ load[c].list.txns \subseteq new
      /\ \A u \in Solana : \A k \in Nat :
            <<u, k>> \in new <=>
               \/ <<u, k>> \in load[c].list.txns
               \/ u = t /\ k = n /\ chain[t][n] = Transfer
  OBVIOUS
<1> HIDE DEF new, list
<1>8. Real(chain, list)
  BY <1>1, <1>2, <1>6, <1>7 DEF Real
<1> QED
  BY <1>3, <1>4, <1>6, <1>7, <1>8, DealtOK

LEMMA SkippedFits ==
    ASSUME HistoryInv, NEW c \in Loads, load[c] # Idle,
           NEW n \in load[c].places, Skipped(c, n)
    PROVE  HistoryInv'
<1>1. /\ IsNext(c, n) /\ Elsewhere
      /\ Dealt(c, n, [load[c].list EXCEPT !.lossy = TRUE])
  BY ErrorElsewhere DEF Skipped, Error
<1>2. load[c].list \in List /\ Real(chain, load[c].list)
  BY LoadFacts DEF LoadOK, Sound
<1> QED
  BY <1>1, <1>2, MarkedOK, DealtOK

LEMMA StoredFits ==
    ASSUME HistoryInv, NEW c \in Loads, Stored(c) \/ StoreFails(c)
    PROVE  HistoryInv'
<1>1. load[c].at = "storing" /\ load[c] # Idle
  BY DEF Stored, StoreFails, Idle
<1>2. /\ LoadOK(chain, load[c]) /\ For(c, screen, load[c])
      /\ load[c].list \in List
  BY <1>1, LoadFacts
<1>3. CASE Stored(c)
  <2>1. Elsewhere
    BY <1>3 DEF Stored, Elsewhere, HistoryInv, HistoryTypeOK
  <2>2. CASE c # Own
    BY <1>2, <1>3, <2>1, <2>2, PutIdle DEF Stored, For
  <2>3. CASE c = Own
    <3>1. ScreenOK(chain, [screen EXCEPT !.shown = load[c].list])
      BY <1>2, <2>3, ShowOK DEF For, Above, LoadOK, Sound
    <3> QED
      BY <1>3, <2>1, <2>3, <3>1, PutIdle DEF Stored
  <2> QED
    BY <2>2, <2>3
<1>4. CASE StoreFails(c)
  <2>1. Elsewhere
    BY <1>4, ErrorElsewhere DEF StoreFails, Error
  <2> QED
    BY <1>2, <1>4, <2>1, CaughtOK DEF StoreFails, LoadOK
<1> QED
  BY <1>3, <1>4

-----------------------------------------------------------------------------
(* The chain grows.  What was true of its first transactions stays so.     *)
Grows(ch, more) ==
    \A t \in Solana :
        /\ Len(ch[t]) \in Nat /\ Len(more[t]) \in Nat
        /\ Len(ch[t]) <= Len(more[t])
        /\ \A n \in 1 .. Len(ch[t]) : more[t][n] = ch[t][n]

LEMMA RealGrown ==
    ASSUME NEW ch, NEW more, Grows(ch, more), NEW list, Real(ch, list)
    PROVE  Real(more, list)
BY DEF Grows, Real

LEMMA DoneGrown ==
    ASSUME NEW ch, NEW more, Grows(ch, more), NEW asked \in [Solana -> Nat],
           NEW txns, NEW t, Done(ch, asked, txns, t)
    PROVE  Done(more, asked, txns, t)
<1>1. ASSUME t \in Solana
      PROVE  \E m \in asked[t] .. Len(more[t]) : \A n \in Nat :
                 <<t, n>> \in txns <=> InNewest(more, t, m, n)
  <2>1. PICK m \in asked[t] .. Len(ch[t]) : \A n \in Nat :
                 <<t, n>> \in txns <=> InNewest(ch, t, m, n)
    BY <1>1 DEF Done
  <2>2. m \in asked[t] .. Len(more[t]) /\ m \in 0 .. Len(ch[t])
    BY <1>1 DEF Grows
  <2>3. \A n \in Nat : InNewest(ch, t, m, n) <=> InNewest(more, t, m, n)
    BY <1>1, <2>2 DEF Grows, InNewest
  <2> QED
    BY <2>1, <2>2, <2>3
<1> QED
  BY <1>1 DEF Done

LEMMA HalfwayGrown ==
    ASSUME NEW ch, NEW more, Grows(ch, more), NEW asked \in [Solana -> Nat],
           NEW txns, NEW places, NEW t \in Solana,
           Halfway(ch, asked, txns, places, t)
    PROVE  Halfway(more, asked, txns, places, t)
<1>1. PICK m \in asked[t] .. Len(ch[t]) :
        /\ \A n \in places : n \in 1 .. m /\ n + Limit > m
        /\ \A n \in Nat : <<t, n>> \in txns <=>
                             InNewest(ch, t, m, n) /\ n \notin places
  BY DEF Halfway
<1>2. m \in asked[t] .. Len(more[t]) /\ m \in 0 .. Len(ch[t])
  BY DEF Grows
<1>3. \A n \in Nat : InNewest(ch, t, m, n) <=> InNewest(more, t, m, n)
  BY <1>2 DEF Grows, InNewest
<1> QED
  BY <1>1, <1>2, <1>3 DEF Halfway

LEMMA LoadGrown ==
    ASSUME NEW ch, NEW more, Grows(ch, more), NEW ld, LoadOK(ch, ld)
    PROVE  LoadOK(more, ld)
<1>1. /\ ld \in Load /\ ld.asked \in [Solana -> Nat]
      /\ ld.pos \in Nat
  BY DEF LoadOK, Sound, Load
<1>2. Sound(more, ld)
  BY <1>1, RealGrown DEF LoadOK, Sound, Grows
<1>3. ASSUME ld.at = "transactions"
      PROVE  ld.places \subseteq 1 .. Len(more[ld.tokens[ld.pos]])
  BY <1>3 DEF LoadOK, Grows
<1>4. ASSUME Walked(ch, ld)
      PROVE  Walked(more, ld)
  <2>1. ASSUME NEW i \in 1 .. Len(ld.tokens), i < ld.pos \/ ld.at = "storing"
        PROVE  Done(more, ld.asked, ld.list.txns, ld.tokens[i])
    BY <1>1, <1>4, <2>1, DoneGrown DEF Walked
  <2>2. ASSUME NEW i \in 1 .. Len(ld.tokens), i = ld.pos,
               ld.at = "transactions"
        PROVE  Halfway(more, ld.asked, ld.list.txns, ld.places, ld.tokens[i])
    <3>1. ld.tokens[i] \in Solana
      BY <2>2 DEF LoadOK
    <3> QED
      BY <1>1, <1>4, <2>2, <3>1, HalfwayGrown DEF Walked
  <2> QED
    BY <1>4, <2>1, <2>2 DEF Walked
<1> QED
  BY <1>2, <1>3, <1>4 DEF LoadOK

LEMMA ArrivesFits ==
    ASSUME HistoryInv, NEW t \in Solana, NEW kind \in Kinds, Arrives(t, kind)
    PROVE  HistoryInv'
<1> USE DEF HistoryInv
<1>1. /\ chain' = [chain EXCEPT ![t] = Append(@, kind)]
      /\ UNCHANGED <<chainToWallet, cache, screen, load, errors>>
      /\ chain \in [Solana -> Seq(Kinds)] /\ Len(chain[t]) < MaxTxns[t]
  BY DEF Arrives, HistoryTypeOK
<1>2. /\ chain' \in [Solana -> Seq(Kinds)]
      /\ \A u \in Solana : Len(chain'[u]) <= MaxTxns[u]
  <2>1. /\ chain[t] \in Seq(Kinds) /\ MaxTxns[t] \in Nat
        /\ Len(chain[t]) \in Nat
    BY <1>1, BoundsNat
  <2>2. /\ Append(chain[t], kind) \in Seq(Kinds)
        /\ Len(Append(chain[t], kind)) = Len(chain[t]) + 1
    BY <2>1
  <2>3. chain' \in [Solana -> Seq(Kinds)]
    BY <1>1, <2>2
  <2>4. ASSUME NEW u \in Solana
        PROVE  Len(chain'[u]) <= MaxTxns[u]
    <3>1. CASE u = t
      BY <1>1, <2>1, <2>2, <3>1
    <3>2. CASE u # t
      BY <1>1, <3>2 DEF HistoryTypeOK
    <3> QED
      BY <3>1, <3>2
  <2> QED
    BY <2>3, <2>4
<1>3. Grows(chain, chain')
  BY <1>1, <1>2 DEF Grows
<1>4. LoadsOK' /\ CacheOK'
  BY <1>1, <1>3, LoadGrown, RealGrown DEF LoadsOK, CacheOK
<1>5. ScreenOK(chain, screen)'
  BY <1>1, <1>3, RealGrown DEF ScreenOK
<1> QED
  BY <1>1, <1>2, <1>4, <1>5 DEF HistoryTypeOK, OwnOK

LEMMA ExpiresFits ==
    ASSUME HistoryInv, NEW k \in Keys, Expires(k)
    PROVE  HistoryInv'
<1> USE DEF HistoryInv
<1> DEFINE item == [cache[k] EXCEPT !.young = FALSE]
<1>1. cache \in [Keys -> Item \cup {NoItem}] /\ cache[k] \in Item
  BY DEF Expires, HistoryTypeOK
<1>2. item \in Item /\ item.list = cache[k].list
  BY <1>1 DEF Item
<1>3. /\ cache' = [cache EXCEPT ![k] = item]
      /\ UNCHANGED <<chain, chainToWallet, screen, load, errors>>
  BY DEF Expires
<1> HIDE DEF item
<1>4. HistoryTypeOK' /\ CacheOK'
  BY <1>1, <1>2, <1>3 DEF HistoryTypeOK, CacheOK, Expires
<1> QED
  BY <1>3, <1>4 DEF LoadsOK, OwnOK

-----------------------------------------------------------------------------
LEMMA InitFits == HistoryInit => HistoryInv
<1> SUFFICES ASSUME HistoryInit PROVE HistoryInv
  OBVIOUS
<1>1. HistoryTypeOK
  <2>1. <<>> \in Seq(Kinds) /\ Len(<<>>) = 0
    OBVIOUS
  <2>2. /\ chain \in [Solana -> Seq(Kinds)]
        /\ \A t \in Solana : Len(chain[t]) <= MaxTxns[t]
    BY <2>1, BoundsNat DEF HistoryInit
  <2>3. /\ cache \in [Keys -> Item \cup {NoItem}]
        /\ screen \in Mounted \cup {Closed}
        /\ load \in [Loads -> Load \cup {Idle}]
    BY DEF HistoryInit
  <2>4. 0 \in 0 .. MaxErrors
    BY BoundsNat
  <2> QED
    BY <2>2, <2>3, <2>4 DEF HistoryTypeOK, HistoryInit
<1> QED
  BY <1>1 DEF HistoryInit, HistoryInv, LoadsOK, CacheOK, ScreenOK, OwnOK,
              Closed, Loads

LEMMA NextFits ==
    ASSUME HistoryInv, [HistoryNext]_historyVars
    PROVE  HistoryInv'
<1>1. CASE \E o \in Openings : Open(o)
  BY <1>1, OpenFits
<1>2. CASE Close \/ HandleRefresh
  BY <1>2, CloseFits, RefreshFits
<1>3. ASSUME NEW c \in Loads, Progress(c)
      PROVE  HistoryInv'
  BY <1>3, SignaturesFit, SignaturesFailFits, ListedFits, SkippedFits,
     StoredFits DEF Progress
<1>4. CASE CreateEnds
  BY <1>4 DEF CreateEnds, HistoryInv, HistoryTypeOK, LoadsOK, CacheOK, OwnOK
<1>5. CASE \E t \in Solana, kind \in Kinds : Arrives(t, kind)
  BY <1>5, ArrivesFits
<1>6. CASE \E k \in Keys : Expires(k)
  BY <1>6, ExpiresFits
<1>7. CASE UNCHANGED historyVars
  BY <1>7 DEF historyVars, HistoryInv, HistoryTypeOK, LoadsOK, CacheOK, OwnOK
<1> QED
  BY <1>1, <1>2, <1>3, <1>4, <1>5, <1>6, <1>7 DEF HistoryNext

LEMMA InvHolds == HistorySpec => []HistoryInv
BY InitFits, NextFits, PTL DEF HistorySpec

(* The history's state has the types of the code's, for any tokens, any    *)
(* number of screens that were left and any chain.                         *)
THEOREM HistoryTypeCorrect == HistorySpec => []HistoryTypeOK
<1>1. HistoryInv => HistoryTypeOK
  BY DEF HistoryInv
<1> QED
  BY <1>1, InvHolds, PTL

-----------------------------------------------------------------------------
LEMMA TxnPair ==
    ASSUME NEW x \in Txn
    PROVE  x = <<x[1], x[2]>> /\ x[2] \in Nat /\ (x[1] \in VeChain => x[2] = 0)
<1>1. CASE \E t \in Solana : x \in {t} \X (1 .. MaxTxns[t])
  <2>1. PICK t \in Solana : x \in {t} \X (1 .. MaxTxns[t])
    BY <1>1
  <2>2. x = <<x[1], x[2]>> /\ x[1] = t /\ x[2] \in 1 .. MaxTxns[t]
    BY <2>1
  <2> QED
    BY <2>2, HistoryAssumption
<1>2. CASE x \in VeChain \X {0}
  BY <1>2
<1> QED
  BY <1>1, <1>2 DEF Txn

-----------------------------------------------------------------------------
(* The lists in the cache and on the screen.  Each came from a load, late, *)
(* by way of the cache, or as what an error fell back on.                  *)
Zero == [t \in Solana |-> 0]

(* A list of the tokens of o alone, and whole unless an error is marked.   *)
Told(ch, o, list) ==
    /\ \A x \in list.txns : x[1] \in TokensOf(o)
    /\ ~ list.lossy => \A t \in TokensOf(o) : Done(ch, Zero, list.txns, t)

Kept(ch, k, list) == \E o \in Openings : KeyOf(o) = k /\ Told(ch, o, list)

LoadKept(ch, ld) ==
    /\ \A x \in ld.list.txns : x[1] \in TokensOf(ld.tokens)
    /\ ld.old # NoItem => Kept(ch, KeyOf(ld.tokens), ld.old)

ScreenKept(ch, scr) ==
    scr.mounted /\ scr.shown # NoList => Kept(ch, KeyOf(scr.tokens), scr.shown)

CacheKept ==
    \A k \in Keys : cache[k] # NoItem => Kept(chain, k, cache[k].list)

LoadsKept == \A c \in Loads : load[c] # Idle => LoadKept(chain, load[c])

KeptInv == CacheKept /\ ScreenKept(chain, screen) /\ LoadsKept

(* A step of a load: the invariant is known to hold after it too.          *)
Step == HistoryInv /\ HistoryInv' /\ KeptInv /\ UNCHANGED chain

(* The list of a load that has walked all its tokens.                      *)
LEMMA StoringKept ==
    ASSUME HistoryInv, NEW ld \in Load, LoadOK(chain, ld), LoadKept(chain, ld),
           ld.at = "storing"
    PROVE  Kept(chain, KeyOf(ld.tokens), ld.list)
<1>1. ld.tokens \in Openings /\ ld.asked \in [Solana -> Nat]
  BY DEF Load
<1>2. ASSUME ~ ld.list.lossy, NEW t \in TokensOf(ld.tokens)
      PROVE  Done(chain, Zero, ld.list.txns, t)
  <2>1. PICK i \in 1 .. Len(ld.tokens) : ld.tokens[i] = t
    BY <1>1, OpeningOK
  <2>2. Done(chain, ld.asked, ld.list.txns, t)
    BY <1>2, <2>1 DEF LoadOK, Walked
  <2>3. ASSUME t \in Solana
        PROVE  \E m \in 0 .. Len(chain[t]) : \A n \in Nat :
                   <<t, n>> \in ld.list.txns <=> InNewest(chain, t, m, n)
    <3>1. PICK m \in ld.asked[t] .. Len(chain[t]) : \A n \in Nat :
             <<t, n>> \in ld.list.txns <=> InNewest(chain, t, m, n)
      BY <2>2, <2>3 DEF Done
    <3>2. m \in 0 .. Len(chain[t])
      BY <1>1, <2>3, <3>1
    <3> QED
      BY <3>1, <3>2
  <2> QED
    BY <2>2, <2>3 DEF Done, Zero
<1> QED
  BY <1>1, <1>2 DEF Kept, Told, LoadKept

LEMMA PutLoadKept ==
    ASSUME Step, NEW c \in Loads, NEW ld \in Load, LoadKept(chain, ld),
           NEW scr, ScreenKept(chain, scr), screen' = scr,
           load' = [load EXCEPT ![c] = ld],
           \/ UNCHANGED cache
           \/ ld.at = "storing" /\ \E item :
                 /\ item.list = ld.list
                 /\ cache' = [cache EXCEPT ![KeyOf(ld.tokens)] = item]
    PROVE  KeptInv'
<1> USE DEF Step
<1>1. /\ load \in [Loads -> Load \cup {Idle}] /\ DOMAIN cache = Keys
      /\ chain' = chain
  BY DEF HistoryInv, HistoryTypeOK
<1>2. load'[c] = ld /\ \A d \in Loads \ {c} : load'[d] = load[d]
  BY <1>1
<1>3. LoadsKept'
  <2>1. ASSUME NEW d \in Loads, load'[d] # Idle
        PROVE  LoadKept(chain, load'[d])
    BY <1>2, <2>1 DEF KeptInv, LoadsKept
  <2> QED
    BY <1>1, <2>1 DEF LoadsKept
<1>4. CacheKept'
  <2>1. CASE UNCHANGED cache
    BY <1>1, <2>1 DEF KeptInv, CacheKept
  <2>2. CASE ld.at = "storing" /\ \E item :
                 /\ item.list = ld.list
                 /\ cache' = [cache EXCEPT ![KeyOf(ld.tokens)] = item]
    <3>1. PICK item : /\ item.list = ld.list
                      /\ cache' = [cache EXCEPT ![KeyOf(ld.tokens)] = item]
      BY <2>2
    <3>2. LoadOK(chain, ld)
      <4>1. load'[c] # Idle
        BY <1>2, LoadNotIdle
      <4>2. LoadOK(chain', load'[c])
        BY <4>1 DEF HistoryInv, LoadsOK
      <4> QED
        BY <1>1, <1>2, <4>2
    <3>3. Kept(chain, KeyOf(ld.tokens), ld.list)
      BY <2>2, <3>2, StoringKept
    <3>4. ASSUME NEW k \in Keys, cache'[k] # NoItem
          PROVE  Kept(chain, k, cache'[k].list)
      <4>1. CASE k = KeyOf(ld.tokens)
        BY <1>1, <3>1, <3>3, <4>1
      <4>2. CASE k # KeyOf(ld.tokens)
        BY <1>1, <3>1, <3>4, <4>2 DEF KeptInv, CacheKept
      <4> QED
        BY <4>1, <4>2
    <3> QED
      BY <1>1, <3>4 DEF CacheKept
  <2> QED
    BY <2>1, <2>2
<1>5. ScreenKept(chain, screen)'
  BY <1>1
<1> QED
  BY <1>3, <1>4, <1>5 DEF KeptInv

LEMMA PutIdleKept ==
    ASSUME Step, NEW c \in Loads, NEW scr, ScreenKept(chain, scr),
           screen' = scr, load' = [load EXCEPT ![c] = Idle], UNCHANGED cache
    PROVE  KeptInv'
<1> USE DEF Step
<1>1. load \in [Loads -> Load \cup {Idle}] /\ chain' = chain
  BY DEF HistoryInv, HistoryTypeOK
<1>2. LoadsKept'
  <2>1. ASSUME NEW d \in Loads, load'[d] # Idle
        PROVE  LoadKept(chain, load'[d])
    BY <1>1, <2>1 DEF KeptInv, LoadsKept
  <2> QED
    BY <1>1, <2>1 DEF LoadsKept
<1>3. CacheKept'
  BY <1>1 DEF KeptInv, CacheKept
<1> QED
  BY <1>1, <1>2, <1>3 DEF KeptInv

(* The screen gets what is kept under its key.                             *)
LEMMA ShowKept ==
    ASSUME NEW scr \in Mounted, NEW list,
           Kept(chain, KeyOf(scr.tokens), list)
    PROVE  ScreenKept(chain, [scr EXCEPT !.shown = list])
<1> DEFINE s == [scr EXCEPT !.shown = list]
<1>1. s.shown = list /\ s.tokens = scr.tokens
  BY DEF Mounted
<1> QED
  BY <1>1 DEF ScreenKept

LEMMA AboveMounted ==
    ASSUME NEW scr, NEW ld, For(Own, scr, ld)
    PROVE  scr \in Mounted /\ ld.tokens = scr.tokens
BY DEF For, Above, ScreenOK, Closed

LEMMA CaughtKept ==
    ASSUME Step, NEW c \in Loads, NEW scr, NEW ld, LoadKept(chain, ld),
           For(c, scr, ld), ScreenKept(chain, scr),
           Caught(c, scr, ld), UNCHANGED cache
    PROVE  KeptInv'
<1>1. CASE c # Own \/ ld.old = NoItem
  BY <1>1, PutIdleKept DEF Caught
<1>2. CASE ~ (c # Own \/ ld.old = NoItem)
  <2>1. ScreenKept(chain, [scr EXCEPT !.shown = ld.old])
    BY <1>2, AboveMounted, ShowKept DEF LoadKept
  <2> QED
    BY <1>2, <2>1, PutIdleKept DEF Caught
<1> QED
  BY <1>1, <1>2

LEMMA StoreKept ==
    ASSUME Step, NEW c \in Loads, NEW scr, NEW ld \in Load,
           LoadKept(chain, ld), ScreenKept(chain, scr), NEW list \in List,
           \A x \in list.txns : x[1] \in TokensOf(ld.tokens),
           Store(c, scr, ld, list)
    PROVE  KeptInv'
<1> DEFINE ld2 == [ld EXCEPT !.at = "storing", !.places = {}, !.list = list]
           item == [list |-> list, young |-> ~ ld.force]
<1>1. /\ ld2 \in Load /\ ld2.at = "storing" /\ ld2.list = list
      /\ ld2.tokens = ld.tokens /\ ld2.old = ld.old
  BY DEF Load
<1>2. load' = [load EXCEPT ![c] = ld2] /\ screen' = scr
  BY DEF Store
<1>3. item.list = list /\ cache' = [cache EXCEPT ![KeyOf(ld.tokens)] = item]
  BY DEF Store
<1> HIDE DEF ld2, item
<1>4. LoadKept(chain, ld2)
  BY <1>1 DEF LoadKept
<1>5. \E it : /\ it.list = ld2.list
              /\ cache' = [cache EXCEPT ![KeyOf(ld2.tokens)] = it]
  BY <1>1, <1>3
<1> QED
  BY <1>1, <1>2, <1>4, <1>5, PutLoadKept

LEMMA OnwardKept ==
    ASSUME Step, NEW c \in Loads, NEW scr, NEW ld \in Load,
           LoadKept(chain, ld), For(c, scr, ld), ScreenKept(chain, scr),
           ld.pos # 0, Onward(c, scr, ld)
    PROVE  KeptInv'
<1> DEFINE more(s) == ({ld.tokens[i] : i \in ld.pos .. s - 1} \cap VeChain) \X {0}
           list(s) == [ld.list EXCEPT !.txns = @ \cup more(s)]
           spot(s) == [ld EXCEPT !.at = "signatures", !.pos = s,
                                 !.places = {}, !.list = list(s)]
<1>1. PICK stop \in ld.pos .. Len(ld.tokens) + 1 :
        \/ stop > Len(ld.tokens) /\ Store(c, scr, ld, list(stop))
        \/ /\ load' = [load EXCEPT ![c] = spot(stop)]
           /\ screen' = scr
           /\ UNCHANGED cache
        \/ /\ stop <= Len(ld.tokens)
           /\ IF Len(ld.tokens) = 1
              THEN Caught(c, scr, ld) /\ UNCHANGED cache
              ELSE Store(c, scr, ld, [list(stop) EXCEPT !.lossy = TRUE])
  BY DEF Onward
<1>2. /\ ld.pos \in Nat \ {0} /\ ld.tokens \in Openings /\ ld.list \in List
      /\ Len(ld.tokens) \in Nat /\ stop \in Nat
      /\ TokensOf(ld.tokens) = {ld.tokens[i] : i \in 1 .. Len(ld.tokens)}
  BY <1>1, OpeningOK DEF Load
<1> DEFINE L == list(stop)
           lossy == [L EXCEPT !.lossy = TRUE]
           ld2 == spot(stop)
<1>3. L.txns = ld.list.txns \cup more(stop) /\ L \in List
  <2>1. more(stop) \subseteq Txn
    BY DEF Txn
  <2> QED
    BY <1>2, <2>1 DEF List
<1>4. \A x \in L.txns : x[1] \in TokensOf(ld.tokens)
  <2>1. ASSUME NEW x \in more(stop)
        PROVE  x[1] \in TokensOf(ld.tokens)
    <3>1. PICK i \in ld.pos .. stop - 1 : x[1] = ld.tokens[i]
      OBVIOUS
    <3>2. i \in 1 .. Len(ld.tokens)
      BY <1>1, <1>2
    <3> QED
      BY <1>2, <3>1, <3>2
  <2> QED
    BY <1>3, <2>1 DEF LoadKept
<1>5. lossy \in List /\ lossy.txns = L.txns
  BY <1>3 DEF List
<1>6. /\ ld2 \in Load /\ ld2.list = L /\ ld2.tokens = ld.tokens
      /\ ld2.old = ld.old
  BY <1>2, <1>3 DEF Load
<1>7. \/ Store(c, scr, ld, L) \/ Store(c, scr, ld, lossy)
      \/ Caught(c, scr, ld) /\ UNCHANGED cache
      \/ /\ load' = [load EXCEPT ![c] = ld2]
         /\ screen' = scr /\ UNCHANGED cache
  BY <1>1
<1> HIDE DEF L, lossy, ld2
<1>8. LoadKept(chain, ld2)
  BY <1>4, <1>6 DEF LoadKept
<1>9. CASE Store(c, scr, ld, L) \/ Store(c, scr, ld, lossy)
  BY <1>3, <1>4, <1>5, <1>9, StoreKept
<1>10. CASE Caught(c, scr, ld) /\ UNCHANGED cache
  BY <1>10, CaughtKept
<1>11. CASE /\ load' = [load EXCEPT ![c] = ld2]
            /\ screen' = scr /\ UNCHANGED cache
  BY <1>6, <1>8, <1>11, PutLoadKept
<1> QED
  BY <1>7, <1>9, <1>10, <1>11

LEMMA GetHistoryKept ==
    ASSUME Step, NEW scr, NEW force \in BOOLEAN, ScreenOK(chain, scr),
           scr.mounted, ScreenKept(chain, scr), GetHistory(scr, force)
    PROVE  KeptInv'
<1> DEFINE key == KeyOf(scr.tokens)
           none == [txns |-> {}, lossy |-> FALSE]
           asked == [t \in Solana |->
                        IF t \in TokensOf(scr.tokens) \cap Solana
                        THEN Len(chain[t]) ELSE 0]
           old == IF cache[key] = NoItem THEN NoItem ELSE cache[key].list
           ld == [at |-> "signatures", tokens |-> scr.tokens, force |-> force,
                  pos |-> 1, places |-> {}, list |-> none, old |-> old,
                  asked |-> asked]
<1>1. scr \in Mounted /\ scr.tokens \in Openings
  <2>1. scr \in Mounted
    BY DEF ScreenOK, Closed
  <2> QED
    BY <2>1 DEF Mounted
<1>2. key \in Keys
  BY <1>1, OpeningOK
<1>3. old \in List \cup {NoItem} /\ (old # NoItem => Kept(chain, key, old))
  BY <1>2 DEF Step, KeptInv, CacheKept, HistoryInv, HistoryTypeOK, Item
<1>4. \A t \in Solana : Len(chain[t]) \in Nat
  BY DEF Step, HistoryInv, HistoryTypeOK
<1>5. /\ asked \in [Solana -> Nat]
      /\ \A t \in Solana \cap TokensOf(scr.tokens) : asked[t] = Len(chain[t])
  BY <1>4
<1>6. none \in List /\ none.txns = {}
  BY DEF List
<1>7. \/ Onward(Own, scr, ld)
      \/ Caught(Own, scr, ld) /\ UNCHANGED cache
  BY DEF GetHistory
<1> HIDE DEF none, asked, old
<1>8. /\ ld \in Load /\ ld.list = none /\ ld.old = old /\ ld.asked = asked
      /\ ld.pos = 1 /\ ld.tokens = scr.tokens
  BY <1>1, <1>3, <1>5, <1>6 DEF Load
<1> HIDE DEF ld
<1>9. LoadKept(chain, ld)
  BY <1>3, <1>6, <1>8 DEF LoadKept
<1>10. For(Own, scr, ld)
  <2>1. ASSUME scr.shown # NoList, NEW t \in Solana \cap TokensOf(scr.tokens),
               NEW n \in Nat, <<t, n>> \in scr.shown.txns
        PROVE  n <= ld.asked[t]
    <3>1. n \in 1 .. Len(chain[t])
      BY <2>1 DEF ScreenOK, Real
    <3> QED
      BY <1>4, <1>5, <1>8, <3>1
  <2> QED
    BY <1>8, <2>1 DEF For, Above
<1>11. ld.pos # 0 /\ Own \in Loads
  BY <1>8 DEF Loads
<1>12. CASE Onward(Own, scr, ld)
  BY <1>8, <1>9, <1>10, <1>11, <1>12, OnwardKept
<1>13. CASE Caught(Own, scr, ld) /\ UNCHANGED cache
  BY <1>9, <1>10, <1>11, <1>13, CaughtKept
<1> QED
  BY <1>7, <1>12, <1>13

LEMMA OpenKept ==
    ASSUME Step, NEW o \in Openings, Open(o)
    PROVE  KeptInv'
<1> USE DEF Step
<1> DEFINE item == cache[KeyOf(o)]
           scr == [mounted |-> TRUE, tokens |-> o, filled |-> chainToWallet,
                   shown |-> IF item = NoItem THEN NoList ELSE item.list]
<1>1. KeyOf(o) \in Keys /\ item \in Item \cup {NoItem}
  BY OpeningOK DEF HistoryInv, HistoryTypeOK
<1>2. ScreenOK(chain, scr) /\ scr.mounted
  <2>1. scr \in Mounted
    BY <1>1 DEF HistoryInv, HistoryTypeOK, Mounted, Item
  <2>2. scr.shown # NoList => Real(chain, scr.shown)
    BY <1>1 DEF HistoryInv, CacheOK
  <2> QED
    BY <2>1, <2>2 DEF ScreenOK
<1>3. ScreenKept(chain, scr)
  BY <1>1 DEF ScreenKept, KeptInv, CacheKept
<1>4. \/ GetHistory(scr, FALSE)
      \/ screen' = scr /\ UNCHANGED <<cache, load>>
  BY DEF Open
<1>5. load[Own] = Idle
  BY DEF Open, HistoryInv, OwnOK, Above
<1> HIDE DEF scr, item
<1>6. CASE GetHistory(scr, FALSE)
  BY <1>2, <1>3, <1>6, GetHistoryKept
<1>7. CASE screen' = scr /\ UNCHANGED <<cache, load>>
  <2>1. load' = [load EXCEPT ![Own] = Idle]
    BY <1>5, <1>7 DEF HistoryInv, HistoryTypeOK, Loads
  <2> QED
    BY <1>3, <1>7, <2>1, PutIdleKept DEF Loads
<1> QED
  BY <1>4, <1>6, <1>7

LEMMA CloseKept ==
    ASSUME Step, Close
    PROVE  KeptInv'
<1> USE DEF Step
<1>1. /\ load \in [Loads -> Load \cup {Idle}] /\ Own \in Loads
      /\ UNCHANGED <<chain, cache>> /\ screen' = Closed
  BY DEF Close, HistoryInv, HistoryTypeOK, Loads
<1>2. CacheKept' /\ ScreenKept(chain, screen)'
  BY <1>1 DEF KeptInv, CacheKept, ScreenKept, Closed
<1>3. CASE load[Own] = Idle
  <2>1. UNCHANGED load
    BY <1>3 DEF Close
  <2> QED
    BY <1>1, <1>2, <2>1 DEF KeptInv, LoadsKept
<1>4. CASE load[Own] # Idle
  <2> DEFINE ld == [load[Own] EXCEPT !.old = NoItem]
  <2>1. PICK c \in Left :
           /\ load[c] = Idle
           /\ load' = [load EXCEPT ![Own] = Idle, ![c] = ld]
    BY <1>4 DEF Close
  <2>2. c \in Loads /\ c # Own
    BY HistoryAssumption DEF Loads
  <2>3. load[Own] \in Load /\ LoadKept(chain, load[Own])
    BY <1>1, <1>4 DEF KeptInv, LoadsKept
  <2>4. /\ ld.old = NoItem /\ ld.list = load[Own].list
        /\ ld.tokens = load[Own].tokens
    BY <2>3 DEF Load
  <2> HIDE DEF ld
  <2>5. LoadKept(chain, ld)
    BY <2>3, <2>4 DEF LoadKept
  <2>6. /\ load'[Own] = Idle /\ load'[c] = ld
        /\ \A d \in Loads \ {Own, c} : load'[d] = load[d]
    BY <1>1, <2>1, <2>2
  <2>7. LoadsKept'
    <3>1. ASSUME NEW d \in Loads, load'[d] # Idle
          PROVE  LoadKept(chain, load'[d])
      BY <2>5, <2>6, <3>1 DEF KeptInv, LoadsKept
    <3> QED
      BY <1>1, <3>1 DEF LoadsKept
  <2> QED
    BY <1>2, <2>7 DEF KeptInv
<1> QED
  BY <1>3, <1>4

(* The load goes on with a list of its tokens.                             *)
LEMMA NextTokenKept ==
    ASSUME Step, NEW c \in Loads, load[c] # Idle, NEW list \in List,
           \A x \in list.txns : x[1] \in TokensOf(load[c].tokens),
           NextToken(c, list)
    PROVE  KeptInv'
<1> USE DEF Step
<1> DEFINE ld == [load[c] EXCEPT !.pos = @ + 1, !.places = {}, !.list = list]
<1>1. /\ load[c] \in Load /\ For(c, screen, load[c])
      /\ load[c].pos \in Nat \ {0} /\ LoadKept(chain, load[c])
  BY LoadFacts DEF KeptInv, LoadsKept
<1>2. /\ ld \in Load /\ ld.list = list /\ ld.pos = load[c].pos + 1
      /\ ld.tokens = load[c].tokens /\ ld.old = load[c].old
      /\ ld.asked = load[c].asked
  <2>1. load[c].pos + 1 \in Nat
    BY <1>1
  <2>2. ASSUME NEW lc \in Load, NEW pos \in Nat
        PROVE  LET ld2 == [lc EXCEPT !.pos = pos, !.places = {}, !.list = list]
               IN  /\ ld2 \in Load /\ ld2.list = list /\ ld2.pos = pos
                   /\ ld2.tokens = lc.tokens /\ ld2.old = lc.old
                   /\ ld2.asked = lc.asked
    BY DEF Load
  <2> HIDE DEF ld
  <2>3. ld = [load[c] EXCEPT !.pos = load[c].pos + 1, !.places = {}, !.list = list]
    BY DEF ld
  <2> QED
    BY <1>1, <2>1, <2>2, <2>3
<1>3. Onward(c, screen, ld)
  BY DEF NextToken
<1> HIDE DEF ld
<1>4. LoadKept(chain, ld)
  BY <1>1, <1>2 DEF LoadKept
<1>5. For(c, screen, ld)
  BY <1>1, <1>2 DEF For, Above
<1>6. ld.pos # 0 /\ ScreenKept(chain, screen)
  BY <1>1, <1>2 DEF KeptInv
<1> QED
  BY <1>2, <1>3, <1>4, <1>5, <1>6, OnwardKept

LEMMA DealtKept ==
    ASSUME Step, NEW c \in Loads, load[c] # Idle, NEW n, NEW list \in List,
           \A x \in list.txns : x[1] \in TokensOf(load[c].tokens),
           Dealt(c, n, list)
    PROVE  KeptInv'
<1>1. CASE load[c].places = {n}
  BY <1>1, NextTokenKept DEF Dealt
<1>2. CASE load[c].places # {n}
  <2> DEFINE ld2 == [load[c] EXCEPT !.places = @ \ {n}, !.list = list]
  <2>1. load' = [load EXCEPT ![c] = ld2] /\ UNCHANGED <<cache, screen>>
    BY <1>2 DEF Dealt
  <2>2. load[c] \in Load /\ LoadKept(chain, load[c]) /\ ScreenKept(chain, screen)
    BY LoadFacts DEF Step, KeptInv, LoadsKept
  <2>3. /\ ld2 \in Load /\ ld2.list = list /\ ld2.tokens = load[c].tokens
        /\ ld2.old = load[c].old
    <3>1. ASSUME NEW lc \in Load
          PROVE  LET l2 == [lc EXCEPT !.places = @ \ {n}, !.list = list]
                 IN  /\ l2 \in Load /\ l2.list = list
                     /\ l2.tokens = lc.tokens /\ l2.old = lc.old
      BY DEF Load
    <3> QED
      BY <2>2, <3>1
  <2> HIDE DEF ld2
  <2>4. LoadKept(chain, ld2)
    BY <2>2, <2>3 DEF LoadKept
  <2> QED
    BY <2>1, <2>2, <2>3, <2>4, PutLoadKept
<1> QED
  BY <1>1, <1>2

LEMMA ProgressKept ==
    ASSUME HistoryInv, HistoryInv', KeptInv, NEW c \in Loads, Progress(c)
    PROVE  KeptInv'
<1>0. UNCHANGED chain /\ load[c] # Idle
  <2>1. UNCHANGED chain
    BY DEF Progress, Signatures, SignaturesFail, Listed, Skipped, Stored,
           StoreFails, Error
  <2>2. load[c] # Idle
    BY DEF Progress, Signatures, SignaturesFail, Stored, StoreFails, Idle
  <2> QED
    BY <2>1, <2>2
<1>1. /\ Step /\ load[c] \in Load /\ load[c].list \in List
      /\ LoadOK(chain, load[c]) /\ LoadKept(chain, load[c])
      /\ For(c, screen, load[c]) /\ ScreenKept(chain, screen)
      /\ load[c].tokens \in Openings
      /\ \A x \in load[c].list.txns : x[1] \in TokensOf(load[c].tokens)
  BY <1>0, LoadFacts DEF Step, KeptInv, LoadsKept, LoadKept
<1> DEFINE marked == [load[c].list EXCEPT !.lossy = TRUE]
<1>2. marked \in List /\ marked.txns = load[c].list.txns
  BY <1>1 DEF List
<1>3. CASE Signatures(c)
  <2>1. CASE NextToken(c, load[c].list)
    BY <1>0, <1>1, <2>1, NextTokenKept
  <2>2. CASE ~ NextToken(c, load[c].list)
    <3> DEFINE n == Len(chain[Asked(c)])
               places == {k \in 1 .. n : k + Limit > n}
               ld2 == [load[c] EXCEPT !.at = "transactions", !.places = places]
    <3>1. load' = [load EXCEPT ![c] = ld2] /\ UNCHANGED <<cache, screen>>
      BY <1>3, <2>2 DEF Signatures
    <3>2. Asked(c) \in Solana
      BY <1>1, <1>3 DEF Signatures, LoadOK, Asked
    <3>3. places \in SUBSET Nat
      BY <3>2 DEF Step, HistoryInv, HistoryTypeOK
    <3>4. /\ ld2 \in Load /\ ld2.list = load[c].list
          /\ ld2.tokens = load[c].tokens /\ ld2.old = load[c].old
      BY <1>1, <3>3, Fetches
    <3> HIDE DEF ld2
    <3>5. LoadKept(chain, ld2)
      BY <1>1, <3>4 DEF LoadKept
    <3> QED
      BY <1>1, <3>1, <3>4, <3>5, PutLoadKept
  <2> QED
    BY <2>1, <2>2
<1>4. CASE SignaturesFail(c)
  <2>1. NextToken(c, marked)
    BY <1>4 DEF SignaturesFail
  <2> HIDE DEF marked
  <2> QED
    BY <1>0, <1>1, <1>2, <2>1, NextTokenKept
<1>5. ASSUME NEW n \in load[c].places, Skipped(c, n)
      PROVE  KeptInv'
  <2>1. Dealt(c, n, marked)
    BY <1>5 DEF Skipped
  <2> HIDE DEF marked
  <2> QED
    BY <1>0, <1>1, <1>2, <2>1, DealtKept
<1>6. ASSUME NEW n \in load[c].places, Listed(c, n)
      PROVE  KeptInv'
  <2> DEFINE t == Asked(c)
             new == IF chain[t][n] = Transfer
                    THEN load[c].list.txns \cup {<<t, n>>}
                    ELSE load[c].list.txns
             list == [load[c].list EXCEPT !.txns = new]
  <2>1. Dealt(c, n, list) /\ load[c].at = "transactions"
    BY <1>6 DEF Listed, IsNext
  <2>2. t \in Solana /\ n \in 1 .. Len(chain[t])
    BY <1>1, <2>1 DEF LoadOK, Asked
  <2>3. new \subseteq Txn
    <3>1. n \in 1 .. MaxTxns[t]
      BY <2>2, HistoryAssumption DEF HistoryInv, HistoryTypeOK
    <3>2. <<t, n>> \in Txn
      BY <2>2, <3>1 DEF Txn
    <3> QED
      BY <1>1, <3>2 DEF List
  <2>4. list \in List /\ list.txns = new
    BY <1>1, <2>3 DEF List
  <2>5. t \in TokensOf(load[c].tokens)
    <3>1. load[c].pos \in 1 .. Len(load[c].tokens)
      <4>1. load[c].pos \in Nat \ {0} /\ Len(load[c].tokens) \in Nat
        BY <1>0, <1>1, LoadFacts, OpeningOK
      <4> QED
        BY <1>1, <2>1, <4>1 DEF LoadOK
    <3> QED
      BY <1>1, <3>1, OpeningOK DEF Asked
  <2>6. \A x \in new : x[1] \in TokensOf(load[c].tokens)
    BY <1>1, <2>5
  <2> HIDE DEF list, new
  <2> QED
    BY <1>0, <1>1, <2>1, <2>4, <2>6, DealtKept
<1>7. CASE Stored(c)
  <2>1. load[c].at = "storing" /\ load' = [load EXCEPT ![c] = Idle]
        /\ UNCHANGED cache
    BY <1>7 DEF Stored
  <2>2. CASE c # Own
    BY <1>1, <1>7, <2>1, <2>2, PutIdleKept DEF Stored
  <2>3. CASE c = Own
    <3>1. Kept(chain, KeyOf(load[c].tokens), load[c].list)
      BY <1>1, <2>1, StoringKept DEF Step
    <3>2. ScreenKept(chain, [screen EXCEPT !.shown = load[c].list])
      BY <1>1, <2>3, <3>1, AboveMounted, ShowKept
    <3>3. screen' = [screen EXCEPT !.shown = load[c].list]
      BY <1>7, <2>3 DEF Stored
    <3> QED
      BY <1>1, <2>1, <3>2, <3>3, PutIdleKept
  <2> QED
    BY <2>2, <2>3
<1>8. CASE StoreFails(c)
  BY <1>1, <1>8, CaughtKept DEF StoreFails
<1> QED
  BY <1>3, <1>4, <1>5, <1>6, <1>7, <1>8 DEF Progress

LEMMA KeptGrown ==
    ASSUME NEW ch, NEW more, Grows(ch, more), NEW k, NEW list, Kept(ch, k, list)
    PROVE  Kept(more, k, list)
<1>1. PICK o \in Openings : KeyOf(o) = k /\ Told(ch, o, list)
  BY DEF Kept
<1>2. Zero \in [Solana -> Nat]
  BY DEF Zero
<1>3. Told(more, o, list)
  BY <1>1, <1>2, DoneGrown DEF Told
<1> QED
  BY <1>1, <1>3 DEF Kept

LEMMA ArrivesKept ==
    ASSUME HistoryInv, HistoryInv', KeptInv, NEW t \in Solana,
           NEW kind \in Kinds, Arrives(t, kind)
    PROVE  KeptInv'
<1>1. /\ chain' = [chain EXCEPT ![t] = Append(@, kind)]
      /\ UNCHANGED <<cache, screen, load>>
      /\ chain \in [Solana -> Seq(Kinds)] /\ chain' \in [Solana -> Seq(Kinds)]
  BY DEF Arrives, HistoryInv, HistoryTypeOK
<1>2. Grows(chain, chain')
  BY <1>1 DEF Grows
<1>3. CacheKept' /\ LoadsKept'
  <2>1. \A k \in Keys : cache[k] # NoItem => Kept(chain', k, cache[k].list)
    BY <1>2, KeptGrown DEF KeptInv, CacheKept
  <2>2. \A c \in Loads : load[c] # Idle => LoadKept(chain', load[c])
    BY <1>2, KeptGrown DEF KeptInv, LoadsKept, LoadKept
  <2> QED
    BY <1>1, <2>1, <2>2 DEF CacheKept, LoadsKept
<1>4. ScreenKept(chain, screen)'
  BY <1>1, <1>2, KeptGrown DEF KeptInv, ScreenKept
<1> QED
  BY <1>3, <1>4 DEF KeptInv

LEMMA ExpiresKept ==
    ASSUME HistoryInv, KeptInv, NEW k \in Keys, Expires(k)
    PROVE  KeptInv'
<1>1. cache \in [Keys -> Item \cup {NoItem}] /\ cache[k] \in Item
  BY DEF Expires, HistoryInv, HistoryTypeOK
<1>2. /\ cache' = [cache EXCEPT ![k] = [cache[k] EXCEPT !.young = FALSE]]
      /\ UNCHANGED <<chain, screen, load>>
  BY DEF Expires
<1>3. \A j \in Keys : cache'[j] # NoItem =>
         cache[j] # NoItem /\ cache'[j].list = cache[j].list
  BY <1>1, <1>2 DEF Item, Expires
<1>4. CacheKept'
  BY <1>2, <1>3 DEF KeptInv, CacheKept
<1> QED
  BY <1>2, <1>4 DEF KeptInv, LoadsKept

LEMMA NextKept ==
    ASSUME HistoryInv, HistoryInv', KeptInv, [HistoryNext]_historyVars
    PROVE  KeptInv'
<1>1. ASSUME NEW o \in Openings, Open(o)
      PROVE  KeptInv'
  BY <1>1, OpenKept DEF Open, Step
<1>2. CASE Close
  BY <1>2, CloseKept DEF Close, Step
<1>3. CASE HandleRefresh
  <2>1. Step /\ ScreenOK(chain, screen) /\ ScreenKept(chain, screen)
        /\ screen.mounted /\ GetHistory(screen, TRUE)
    BY <1>3 DEF HandleRefresh, Step, HistoryInv, KeptInv
  <2> QED
    BY <2>1, GetHistoryKept
<1>4. ASSUME NEW c \in Loads, Progress(c)
      PROVE  KeptInv'
  BY <1>4, ProgressKept
<1>5. CASE CreateEnds \/ UNCHANGED historyVars
  BY <1>5 DEF CreateEnds, historyVars, KeptInv, CacheKept, LoadsKept
<1>6. CASE \E t \in Solana, kind \in Kinds : Arrives(t, kind)
  BY <1>6, ArrivesKept
<1>7. CASE \E k \in Keys : Expires(k)
  BY <1>7, ExpiresKept
<1> QED
  BY <1>1, <1>2, <1>3, <1>4, <1>5, <1>6, <1>7 DEF HistoryNext

LEMMA KeptHolds == HistorySpec => []KeptInv
<1>1. HistoryInit => KeptInv
  BY DEF HistoryInit, KeptInv, CacheKept, LoadsKept, ScreenKept, Closed
<1> QED
  BY <1>1, InvHolds, NextKept, PTL DEF HistorySpec

(* The newest transfers, as a set and one by one.                          *)
LEMMA NewestOf ==
    ASSUME HistoryInv, NEW list \in List, NEW t \in Solana,
           NEW m \in Nat, m <= Len(chain[t]),
           \A n \in Nat : <<t, n>> \in list.txns <=> InNewest(chain, t, m, n)
    PROVE  {x \in list.txns : x[1] = t} = Newest(t, m)
<1>1. ASSUME NEW x \in list.txns, x[1] = t
      PROVE  x \in Newest(t, m)
  <2>1. x = <<t, x[2]>> /\ x[2] \in Nat
    BY <1>1, TxnPair DEF List
  <2>2. InNewest(chain, t, m, x[2])
    BY <1>1, <2>1
  <2> QED
    BY <2>1, <2>2 DEF InNewest, Newest
<1>2. ASSUME NEW x \in Newest(t, m)
      PROVE  x \in list.txns /\ x[1] = t
  <2>1. PICK n \in 1 .. m : /\ x = <<t, n>> /\ n + Limit > m
                            /\ chain[t][n] = Transfer
    BY <1>2 DEF Newest
  <2> QED
    BY <2>1 DEF InNewest
<1> QED
  BY <1>1, <1>2

LEMMA KeptIsHistory ==
    ASSUME HistoryInv, NEW k, NEW list \in List, Kept(chain, k, list)
    PROVE  HistoryFor(k, list)
<1>1. PICK o \in Openings : KeyOf(o) = k /\ Told(chain, o, list)
  BY DEF Kept
<1>2. ASSUME ~ list.lossy, NEW t \in TokensOf(o), t \in Solana
      PROVE  \E m \in 0 .. Len(chain[t]) :
                {x \in list.txns : x[1] = t} = Newest(t, m)
  <2>1. PICK m \in Zero[t] .. Len(chain[t]) : \A n \in Nat :
           <<t, n>> \in list.txns <=> InNewest(chain, t, m, n)
    BY <1>1, <1>2 DEF Told, Done
  <2>2. m \in 0 .. Len(chain[t]) /\ Len(chain[t]) \in Nat
    BY <1>2, <2>1 DEF Zero, HistoryInv, HistoryTypeOK
  <2>3. m \in Nat /\ m <= Len(chain[t])
    BY <2>2
  <2> QED
    BY <1>2, <2>1, <2>2, <2>3, NewestOf
<1> QED
  BY <1>1, <1>2 DEF HistoryFor, Told, Done

(* A load that stores has of each token the newest as of one moment of it. *)
LEMMA LoadsWhole ==
    ASSUME HistoryInv, NEW c \in Loads, load[c].at = "storing",
           ~ load[c].list.lossy
    PROVE  Whole(load[c])
<1> DEFINE ld == load[c]
<1>1. load[c] # Idle
  BY DEF Idle
<1>2. LoadOK(chain, ld) /\ ld.tokens \in Openings /\ ld.list \in List
  BY <1>1, LoadFacts
<1> SUFFICES ASSUME NEW t \in TokensOf(ld.tokens) \cap Solana
             PROVE  \E m \in ld.asked[t] .. Len(chain[t]) :
                       {x \in ld.list.txns : x[1] = t} = Newest(t, m)
  BY DEF Whole
<1>3. PICK i \in 1 .. Len(ld.tokens) : ld.tokens[i] = t
  BY <1>2, OpeningOK
<1>4. Done(chain, ld.asked, ld.list.txns, t)
  BY <1>2, <1>3 DEF LoadOK, Walked
<1>5. PICK m \in ld.asked[t] .. Len(chain[t]) : \A n \in Nat :
         <<t, n>> \in ld.list.txns <=> InNewest(chain, t, m, n)
  BY <1>4 DEF Done
<1>6. m \in Nat /\ m <= Len(chain[t])
  BY <1>1, <1>5, LoadFacts
<1>7. {x \in ld.list.txns : x[1] = t} = Newest(t, m)
  BY <1>2, <1>5, <1>6, NewestOf
<1> QED
  BY <1>5, <1>7

(* Whatever comes in while a load walks its tokens, however many they are, *)
(* the list that it stores without an error has of each the newest         *)
(* transfers as of one moment of the load; and however late it is stored,  *)
(* fallen back on or left, so has every list in the cache and on a screen, *)
(* of tokens that go by its key.                                           *)
THEOREM HistoriesWhole == HistorySpec => []WholeUnlessErrors
<1>1. HistoryInv /\ KeptInv => WholeUnlessErrors
  <2> SUFFICES ASSUME HistoryInv, KeptInv PROVE WholeUnlessErrors
    OBVIOUS
  <2>1. ASSUME NEW k \in Keys, cache[k] # NoItem
        PROVE  HistoryFor(k, cache[k].list)
    <3>1. cache[k].list \in List
      BY <2>1 DEF HistoryInv, HistoryTypeOK, Item
    <3> QED
      BY <2>1, <3>1, KeptIsHistory DEF KeptInv, CacheKept
  <2>2. ASSUME screen.mounted, screen.shown # NoList
        PROVE  HistoryFor(KeyOf(screen.tokens), screen.shown)
    <3>1. screen \in Mounted
      BY <2>2 DEF HistoryInv, HistoryTypeOK, Closed
    <3>2. screen.shown \in List
      BY <2>2, <3>1 DEF Mounted
    <3> QED
      BY <2>2, <3>2, KeptIsHistory DEF KeptInv, ScreenKept
  <2> QED
    BY <2>1, <2>2, LoadsWhole DEF WholeUnlessErrors
<1> QED
  BY <1>1, InvHolds, KeptHolds, PTL

-----------------------------------------------------------------------------
(* What a step shows.                                                      *)
LEMMA OnwardShows ==
    ASSUME NEW c, NEW scr, NEW ld, Onward(c, scr, ld) \/ Caught(c, scr, ld)
    PROVE  \/ screen' = scr
           \/ c = Own /\ screen' = [scr EXCEPT !.shown = ld.old]
BY DEF Onward, Caught, Store

LEMMA ShownIs ==
    ASSUME NEW scr \in Mounted, NEW list
    PROVE  [scr EXCEPT !.shown = list].shown = list
BY DEF Mounted

(* A load that goes on without an end leaves the screen, or falls back.    *)
LEMMA LoadShows ==
    ASSUME HistoryInv, screen.mounted, NEW c \in Loads, Progress(c)
    PROVE  screen' = screen \/ FallsBack \/ Stored(Own)
<1>1. screen \in Mounted
  BY DEF HistoryInv, HistoryTypeOK, Closed
<1>2. \/ screen' = screen
      \/ /\ c = Own /\ load[Own] # Idle
         /\ screen' = [screen EXCEPT !.shown = load[Own].old]
      \/ Stored(Own)
  <2>0. load[c] # Idle => load[c] \in Load
    BY LoadFacts
  <2>1. ASSUME NEW list, NextToken(c, list), load[c] # Idle
        PROVE  \/ screen' = screen
               \/ c = Own /\ screen' = [screen EXCEPT !.shown = load[c].old]
    <3> DEFINE ld == [load[c] EXCEPT !.pos = @ + 1, !.places = {}, !.list = list]
    <3>1. ld.old = load[c].old
      <4>1. ASSUME NEW lc \in Load
            PROVE  [lc EXCEPT !.pos = @ + 1, !.places = {}, !.list = list].old
                      = lc.old
        BY DEF Load
      <4> QED
        BY <2>0, <2>1, <4>1
    <3>2. Onward(c, screen, ld)
      BY <2>1 DEF NextToken
    <3> HIDE DEF ld
    <3> QED
      BY <3>1, <3>2, OnwardShows
  <2>2. CASE Signatures(c) \/ SignaturesFail(c)
    <3>1. load[c] # Idle
      BY <2>2 DEF Signatures, SignaturesFail, Idle
    <3> QED
      BY <2>1, <2>2, <3>1 DEF Signatures, SignaturesFail
  <2>3. CASE load[c] # Idle /\
               \E n \in load[c].places : Listed(c, n) \/ Skipped(c, n)
    BY <2>1, <2>3 DEF Listed, Skipped, Dealt
  <2>4. CASE StoreFails(c)
    <3>1. load[c] # Idle /\ Caught(c, screen, load[c])
      BY <2>4 DEF StoreFails, Idle
    <3> QED
      BY <3>1, OnwardShows
  <2>5. CASE Stored(c)
    BY <2>5 DEF Stored
  <2> QED
    BY <2>2, <2>3, <2>4, <2>5 DEF Progress
<1> QED
  BY <1>1, <1>2, ShownIs DEF FallsBack

LEMMA StepShows ==
    ASSUME HistoryInv, [HistoryNext]_historyVars, screen.mounted, screen'.mounted
    PROVE  screen'.shown = screen.shown \/ FallsBack \/ Stored(Own)
<1>1. screen \in Mounted
  BY DEF HistoryInv, HistoryTypeOK, Closed
<1>2. CASE \E o \in Openings : Open(o)
  BY <1>2 DEF Open
<1>3. CASE Close
  BY <1>3 DEF Close, Closed
<1>4. CASE HandleRefresh
  <2>1. GetHistory(screen, TRUE) /\ load[Own] = Idle
    BY <1>4 DEF HandleRefresh
  <2> DEFINE item == cache[KeyOf(screen.tokens)]
             old == IF item = NoItem THEN NoItem ELSE item.list
  <2>2. \/ screen' = screen
        \/ /\ screen' = [screen EXCEPT !.shown = old]
           /\ old # NoItem
    BY <2>1 DEF GetHistory, Onward, Caught, Store
  <2> QED
    BY <1>1, <2>1, <2>2, ShownIs DEF FallsBack
<1>5. ASSUME NEW c \in Loads, Progress(c)
      PROVE  screen'.shown = screen.shown \/ FallsBack \/ Stored(Own)
  BY <1>5, LoadShows
<1>6. CASE \/ CreateEnds
           \/ \E t \in Solana, kind \in Kinds : Arrives(t, kind)
           \/ \E k \in Keys : Expires(k)
           \/ UNCHANGED historyVars
  BY <1>6 DEF CreateEnds, Arrives, Expires, historyVars
<1> QED
  BY <1>2, <1>3, <1>4, <1>5, <1>6 DEF HistoryNext

(* What the screen gets from its load has all it showed but what the limit *)
(* cut off.                                                                *)
LEMMA StoredKeeps ==
    ASSUME HistoryInv, Stored(Own), ~ load[Own].list.lossy,
           NEW x \in TxnsOf(screen.shown) \ TxnsOf(screen'.shown),
           x[1] \in TokensOf(screen.tokens)
    PROVE  x[1] \in Solana /\ x[2] + Limit <= Len(chain[x[1]])
<1> DEFINE ld == load[Own]
           t == x[1]
<1>1. /\ load[Own] # Idle /\ Own \in Loads
  BY DEF Stored, Idle, Loads
<1>2. /\ LoadOK(chain, ld) /\ Above(ld, screen) /\ ld.tokens \in Openings
      /\ ld.list \in List
  BY <1>1, LoadFacts DEF For
<1>3. screen \in Mounted /\ ScreenOK(chain, screen)
  BY <1>2 DEF HistoryInv, HistoryTypeOK, Closed, Above
<1>4. screen'.shown = ld.list
  BY <1>3, ShownIs DEF Stored
<1>5. x \notin ld.list.txns
  BY <1>2, <1>4, NotData DEF TxnsOf
<1>6. /\ screen.shown # NoList /\ x \in screen.shown.txns
      /\ screen.shown \in List
  BY <1>3 DEF TxnsOf, Mounted
<1>7. x \in Txn /\ x = <<t, x[2]>> /\ x[2] \in Nat /\ (t \in VeChain => x[2] = 0)
  BY <1>6, TxnPair DEF List
<1>8. PICK i \in 1 .. Len(ld.tokens) : ld.tokens[i] = t
  BY <1>2, OpeningOK DEF Above
<1>9. Done(chain, ld.asked, ld.list.txns, t)
  <2>1. ld.at = "storing"
    BY DEF Stored
  <2> QED
    BY <1>2, <1>8, <2>1 DEF LoadOK, Walked
<1>10. t \notin VeChain
  BY <1>5, <1>7, <1>9 DEF Done
<1>11. t \in Solana
  BY <1>7, <1>10 DEF Txn
<1>12. PICK m \in ld.asked[t] .. Len(chain[t]) : \A n \in Nat :
          <<t, n>> \in ld.list.txns <=> InNewest(chain, t, m, n)
  BY <1>9, <1>11 DEF Done
<1>13. x[2] <= ld.asked[t]
  BY <1>2, <1>6, <1>7, <1>11 DEF Above
<1>14. x[2] \in 1 .. Len(chain[t]) /\ chain[t][x[2]] = Transfer
  BY <1>3, <1>6, <1>7, <1>11 DEF ScreenOK, Real, Above, Mounted
<1>15. ld.asked[t] \in Nat /\ Len(chain[t]) \in Nat
  BY <1>1, <1>11, LoadFacts
<1>16. ~ InNewest(chain, t, m, x[2])
  BY <1>5, <1>7, <1>12
<1>17. m \in Nat /\ m <= Len(chain[t]) /\ x[2] <= m
  BY <1>7, <1>12, <1>13, <1>15
<1>18. ~ (x[2] + Limit > m)
  BY <1>14, <1>16, <1>17 DEF InNewest
<1> QED
  BY <1>7, <1>11, <1>15, <1>17, <1>18, BoundsNat

(* However loads, refreshes, errors and screens follow each other, a       *)
(* transaction goes away from the screen it is on only past the limit, by  *)
(* an error of the new list, or by a fall back.                            *)
THEOREM ShownStays == HistorySpec => NothingVanishes
<1>1. HistoryInv /\ [HistoryNext]_historyVars =>
        (screen.mounted /\ screen'.mounted /\ ~ FallsBack
         /\ ~ (screen.shown' # NoList /\ screen.shown'.lossy) =>
            \A x \in TxnsOf(screen.shown) \ TxnsOf(screen.shown') :
                x[1] \in TokensOf(screen.tokens) =>
                    x[1] \in Solana /\ x[2] + Limit <= Len(chain[x[1]]))
  <2> SUFFICES ASSUME HistoryInv, [HistoryNext]_historyVars,
                      screen.mounted, screen'.mounted, ~ FallsBack,
                      ~ (screen'.shown # NoList /\ screen'.shown.lossy),
                      NEW x \in TxnsOf(screen.shown) \ TxnsOf(screen'.shown),
                      x[1] \in TokensOf(screen.tokens)
               PROVE  x[1] \in Solana /\ x[2] + Limit <= Len(chain[x[1]])
    OBVIOUS
  <2>1. Stored(Own)
    BY StepShows
  <2>2. ~ load[Own].list.lossy
    <3>1. load[Own] # Idle /\ screen \in Mounted /\ Own \in Loads
      BY <2>1 DEF Stored, Idle, Loads, HistoryInv, HistoryTypeOK, Closed
    <3>2. load[Own].list # NoList
      BY <3>1, LoadFacts, NotData
    <3> QED
      BY <2>1, <3>1, <3>2, ShownIs DEF Stored
  <2> QED
    BY <2>1, <2>2, StoredKeeps
<1> QED
  BY <1>1, InvHolds, PTL DEF HistorySpec, NothingVanishes

-----------------------------------------------------------------------------
(* The history moves as ResourceView lets a view move.                     *)
Lists == [txns: SUBSET Txn]

PhaseOf(scr, ld) ==
    IF ~ scr.mounted THEN "closed"
    ELSE IF ld = Idle THEN "idle"
    ELSE IF ld.force THEN "refreshing" ELSE "loading"

ShownOf(scr) ==
    IF ~ scr.mounted \/ scr.shown = NoList THEN NoList
    ELSE [txns |-> scr.shown.txns]

LEMMA ViewMapped ==
    /\ Phase = PhaseOf(screen, load[Own]) /\ Shown = ShownOf(screen)
    /\ Phase' = PhaseOf(screen', load'[Own]) /\ Shown' = ShownOf(screen')
BY DEF Phase, Shown, PhaseOf, ShownOf

Begins(data) == Phase' \in {"loading", "idle"} /\ Shown' \in data

Moves ==
    \/ Phase' = Phase /\ Shown' = Shown
    \/ Phase = "closed" /\ Begins(Lists \cup {NoList})
    \/ Phase = "idle" /\ Begins(Lists \cup {Shown})
    \/ Phase = "idle" /\ Phase' = "refreshing" /\ Shown' = Shown
    \/ /\ Phase \in {"loading", "refreshing"} /\ Phase' = "idle"
       /\ Shown' \in Lists \cup {Shown}
    \/ Phase # "closed" /\ Phase' = "closed" /\ Shown' = NoList

(* What a screen shows once it is given a list.                            *)
LEMMA GivenList ==
    ASSUME NEW scr \in Mounted, NEW list \in List
    PROVE  /\ [scr EXCEPT !.shown = list].mounted
           /\ ShownOf([scr EXCEPT !.shown = list]) \in Lists
<1>1. PICK s : s = [scr EXCEPT !.shown = list]
  OBVIOUS
<1>2. s.mounted /\ s.shown = list
  BY <1>1 DEF Mounted
<1>3. list # NoList /\ list.txns \in SUBSET Txn
  BY NotData DEF List
<1> QED
  BY <1>1, <1>2, <1>3 DEF ShownOf, Lists

LEMMA ShownOK ==
    ASSUME NEW scr \in Mounted
    PROVE  scr.mounted /\ ShownOf(scr) \in Lists \cup {NoList}
BY NotData DEF Mounted, ShownOf, Lists, List

(* A load, but for its list.                                               *)
LoadWith(list) ==
    [at: {"signatures", "transactions", "storing"}, tokens: Openings,
     force: BOOLEAN, pos: Nat, places: SUBSET Nat, list: {list},
     old: List \cup {NoItem}, asked: [Solana -> Nat]]

(* A load either goes on, and then the screen stays, or it is over.        *)
LEMMA LoadGoes ==
    ASSUME NEW c, NEW scr, NEW had, NEW ld \in LoadWith(had),
           Onward(c, scr, ld) \/ Caught(c, scr, ld)
    PROVE  \E x :
              /\ load' = [load EXCEPT ![c] = x]
              /\ \/ x # Idle /\ x.force = ld.force /\ screen' = scr
                 \/ /\ x = Idle
                    /\ \/ screen' = scr
                       \/ /\ c = Own /\ ld.old # NoItem
                          /\ screen' = [scr EXCEPT !.shown = ld.old]
<1>1. ASSUME NEW pos, NEW list
      PROVE  LET x == [ld EXCEPT !.at = "signatures", !.pos = pos,
                                 !.places = {}, !.list = list]
             IN  x.at = "signatures" /\ x.force = ld.force
  BY DEF LoadWith
<1>2. ASSUME NEW list
      PROVE  LET x == [ld EXCEPT !.at = "storing", !.places = {}, !.list = list]
             IN  x.at = "storing" /\ x.force = ld.force
  BY DEF LoadWith
<1>3. Idle.at = "idle"
  BY DEF Idle
<1>4. CASE Caught(c, scr, ld)
  BY <1>4 DEF Caught
<1>5. ASSUME NEW list, Store(c, scr, ld, list)
      PROVE  \E x : /\ load' = [load EXCEPT ![c] = x]
                    /\ x # Idle /\ x.force = ld.force /\ screen' = scr
  <2>1. PICK x : x = [ld EXCEPT !.at = "storing", !.places = {}, !.list = list]
    OBVIOUS
  <2>2. x # Idle /\ x.force = ld.force
    BY <1>2, <1>3, <2>1
  <2> QED
    BY <1>5, <2>1, <2>2 DEF Store
<1>6. ASSUME NEW pos, NEW list, screen' = scr,
             load' = [load EXCEPT ![c] = [ld EXCEPT !.at = "signatures",
                         !.pos = pos, !.places = {}, !.list = list]]
      PROVE  \E x : /\ load' = [load EXCEPT ![c] = x]
                    /\ x # Idle /\ x.force = ld.force /\ screen' = scr
  <2>1. PICK x : x = [ld EXCEPT !.at = "signatures", !.pos = pos,
                                !.places = {}, !.list = list]
    OBVIOUS
  <2>2. x # Idle /\ x.force = ld.force
    BY <1>1, <1>3, <2>1
  <2> QED
    BY <1>6, <2>1, <2>2
<1>7. CASE Onward(c, scr, ld)
  <2>1. \/ Caught(c, scr, ld)
        \/ \E list : Store(c, scr, ld, list)
        \/ \E pos, list :
              /\ screen' = scr
              /\ load' = [load EXCEPT ![c] = [ld EXCEPT !.at = "signatures",
                             !.pos = pos, !.places = {}, !.list = list]]
    BY <1>7, Zenon DEF Onward
  <2> QED
    BY <1>4, <1>5, <1>6, <2>1
<1> QED
  BY <1>4, <1>7

LEMMA GetHistoryGoes ==
    ASSUME HistoryInv, NEW scr \in Mounted, NEW force \in BOOLEAN,
           GetHistory(scr, force)
    PROVE  \E had : \E ld \in LoadWith(had) :
              /\ ld.force = force
              /\ Onward(Own, scr, ld) \/ Caught(Own, scr, ld)
<1> DEFINE key == KeyOf(scr.tokens)
           none == [txns |-> {}, lossy |-> FALSE]
           asked == [t \in Solana |->
                        IF t \in TokensOf(scr.tokens) \cap Solana
                        THEN Len(chain[t]) ELSE 0]
           old == IF cache[key] = NoItem THEN NoItem ELSE cache[key].list
           ld == [at |-> "signatures", tokens |-> scr.tokens, force |-> force,
                  pos |-> 1, places |-> {}, list |-> none, old |-> old,
                  asked |-> asked]
<1>1. scr.tokens \in Openings /\ key \in Keys
  BY OpeningOK DEF Mounted
<1>2. old \in List \cup {NoItem}
  BY <1>1 DEF HistoryInv, HistoryTypeOK, Item
<1>3. asked \in [Solana -> Nat]
  BY DEF HistoryInv, HistoryTypeOK
<1>4. none \in List
  BY DEF List
<1>5. Onward(Own, scr, ld) \/ Caught(Own, scr, ld)
  BY DEF GetHistory
<1> HIDE DEF key, none, asked, old
<1>6. ld \in LoadWith(none) /\ ld.force = force
  BY <1>1, <1>2, <1>3, <1>4 DEF LoadWith
<1> HIDE DEF ld
<1> QED
  BY <1>5, <1>6

(* A load that is out goes on or ends.                                     *)
LEMMA ProgressGoes ==
    ASSUME HistoryInv, NEW c \in Loads, Progress(c)
    PROVE  \E x :
              /\ load' = [load EXCEPT ![c] = x] /\ load[c] # Idle
              /\ \/ x # Idle /\ x.force = load[c].force /\ screen' = screen
                 \/ x = Idle /\ screen' = screen
                 \/ /\ x = Idle /\ c = Own
                    /\ \E list \in List :
                          screen' = [screen EXCEPT !.shown = list]
<1>1. load[c] # Idle => /\ load[c] \in Load /\ load[c].list \in List
                        /\ load[c].old \in List \cup {NoItem}
  BY LoadFacts DEF Load
<1> DEFINE Goes ==
        \E x :
           /\ load' = [load EXCEPT ![c] = x] /\ load[c] # Idle
           /\ \/ x # Idle /\ x.force = load[c].force /\ screen' = screen
              \/ x = Idle /\ screen' = screen
              \/ /\ x = Idle /\ c = Own
                 /\ \E list \in List :
                       screen' = [screen EXCEPT !.shown = list]
<1>2. ASSUME NEW list, NextToken(c, list), load[c] # Idle
      PROVE  Goes
  <2> DEFINE ld == [load[c] EXCEPT !.pos = @ + 1, !.places = {}, !.list = list]
  <2>1. /\ ld \in LoadWith(list)
        /\ ld.old = load[c].old /\ ld.force = load[c].force
    <3>1. ASSUME NEW lc \in Load, NEW pos \in Nat, NEW y,
                 y = [lc EXCEPT !.pos = pos, !.places = {}, !.list = list]
          PROVE  /\ y \in LoadWith(list)
                 /\ y.old = lc.old /\ y.force = lc.force
      <4>1. /\ y.at = lc.at /\ y.tokens = lc.tokens /\ y.force = lc.force
            /\ y.pos = pos /\ y.places = {} /\ y.list = list
            /\ y.old = lc.old /\ y.asked = lc.asked
        BY <3>1 DEF Load
      <4>2. y = [at |-> y.at, tokens |-> y.tokens, force |-> y.force,
                 pos |-> y.pos, places |-> y.places, list |-> y.list,
                 old |-> y.old, asked |-> y.asked]
        BY <3>1 DEF Load
      <4> QED
        BY <3>1, <4>1, <4>2 DEF Load, LoadWith
    <3>2. load[c] \in Load /\ load[c].pos + 1 \in Nat
      BY <1>1, <1>2, LoadFacts DEF Load
    <3>3. ld = [load[c] EXCEPT !.pos = load[c].pos + 1, !.places = {},
                               !.list = list]
      OBVIOUS
    <3> HIDE DEF ld
    <3> QED
      BY <3>1, <3>2, <3>3
  <2>2. Onward(c, screen, ld)
    BY <1>2 DEF NextToken
  <2> HIDE DEF ld
  <2>3. PICK x :
           /\ load' = [load EXCEPT ![c] = x]
           /\ \/ x # Idle /\ x.force = ld.force /\ screen' = screen
              \/ /\ x = Idle
                 /\ \/ screen' = screen
                    \/ /\ c = Own /\ ld.old # NoItem
                       /\ screen' = [screen EXCEPT !.shown = ld.old]
    BY <2>1, <2>2, LoadGoes
  <2>4. ld.old \in List \cup {NoItem}
    BY <1>1, <1>2, <2>1
  <2> QED
    BY <1>2, <2>1, <2>3, <2>4
<1>4. CASE Signatures(c)
  <2>1. load[c].at = "signatures" /\ load[c] # Idle
    BY <1>4 DEF Signatures, Idle
  <2>2. CASE Len(chain[Asked(c)]) = 0
    BY <1>2, <1>4, <2>1, <2>2 DEF Signatures
  <2>3. CASE Len(chain[Asked(c)]) # 0
    <3>1. PICK x, places : /\ load' = [load EXCEPT ![c] = x]
                           /\ x = [load[c] EXCEPT !.at = "transactions",
                                                  !.places = places]
                           /\ screen' = screen
      BY <1>4, <2>3 DEF Signatures
    <3>2. x.at = "transactions" /\ x.force = load[c].force
      <4>1. ASSUME NEW lc \in Load, NEW y,
                   y = [lc EXCEPT !.at = "transactions", !.places = places]
            PROVE  y.at = "transactions" /\ y.force = lc.force
        BY <4>1 DEF Load
      <4> QED
        BY <1>1, <2>1, <3>1, <4>1
    <3>3. x # Idle
      BY <3>2 DEF Idle
    <3> QED
      BY <2>1, <3>1, <3>2, <3>3
  <2> QED
    BY <2>2, <2>3
<1>5. CASE SignaturesFail(c)
  <2>1. load[c] # Idle
    BY <1>5 DEF SignaturesFail, Idle
  <2> QED
    BY <1>2, <1>5, <2>1 DEF SignaturesFail
<1>6. ASSUME NEW n, NEW list, Dealt(c, n, list), load[c] # Idle,
             load[c].at = "transactions"
      PROVE  Goes
  <2>1. CASE load[c].places = {n}
    BY <1>2, <1>6, <2>1 DEF Dealt
  <2>2. CASE load[c].places # {n}
    <3>1. PICK x : /\ load' = [load EXCEPT ![c] = x]
                   /\ x = [load[c] EXCEPT !.places = @ \ {n}, !.list = list]
                   /\ screen' = screen
      BY <1>6, <2>2 DEF Dealt
    <3>2. x.at = "transactions" /\ x.force = load[c].force
      <4>1. ASSUME NEW lc \in Load, NEW y,
                   y = [lc EXCEPT !.places = @ \ {n}, !.list = list]
            PROVE  y.at = lc.at /\ y.force = lc.force
        BY <4>1 DEF Load
      <4> QED
        BY <1>1, <1>6, <3>1, <4>1
    <3>3. x # Idle
      BY <3>2 DEF Idle
    <3> QED
      BY <1>6, <3>1, <3>2, <3>3
  <2> QED
    BY <2>1, <2>2
<1>7. CASE load[c] # Idle /\
              \E n \in load[c].places : Listed(c, n) \/ Skipped(c, n)
  BY <1>6, <1>7, Zenon DEF Listed, Skipped, IsNext
<1>8. CASE Stored(c)
  <2>1. load[c] # Idle
    BY <1>8 DEF Stored, Idle
  <2> QED
    BY <1>1, <1>8, <2>1 DEF Stored
<1>9. CASE StoreFails(c)
  <2>1. load[c] # Idle
    BY <1>9 DEF StoreFails, Idle
  <2> QED
    BY <1>1, <1>9, <2>1 DEF StoreFails, Caught
<1> QED
  BY <1>4, <1>5, <1>7, <1>8, <1>9 DEF Progress

LEMMA AllMoves ==
    ASSUME HistoryInv, [HistoryNext]_historyVars
    PROVE  Moves
<1>1. /\ load \in [Loads -> Load \cup {Idle}] /\ Own \in Loads
      /\ screen \in Mounted \cup {Closed}
      /\ load[Own] # Idle => screen.mounted
      /\ screen.mounted => screen \in Mounted
      /\ load[Own] # Idle => load[Own].force \in BOOLEAN
  BY DEF HistoryInv, HistoryTypeOK, OwnOK, Above, Closed, Loads, Load
<1>2. /\ Phase = PhaseOf(screen, load[Own]) /\ Shown = ShownOf(screen)
      /\ Phase' = PhaseOf(screen', load'[Own]) /\ Shown' = ShownOf(screen')
  BY ViewMapped
<1>3. ASSUME NEW scr \in Mounted, NEW force \in BOOLEAN,
             GetHistory(scr, force)
      PROVE  \/ /\ Phase' = IF force THEN "refreshing" ELSE "loading"
                /\ Shown' = ShownOf(scr)
             \/ Phase' = "idle" /\ Shown' \in Lists \cup {ShownOf(scr)}
  <2>1. PICK had : \E ld \in LoadWith(had) :
              /\ ld.force = force
              /\ Onward(Own, scr, ld) \/ Caught(Own, scr, ld)
    BY <1>3, GetHistoryGoes
  <2>2. PICK ld \in LoadWith(had) :
              /\ ld.force = force
              /\ Onward(Own, scr, ld) \/ Caught(Own, scr, ld)
    BY <2>1
  <2>3. PICK x :
           /\ load' = [load EXCEPT ![Own] = x]
           /\ \/ x # Idle /\ x.force = ld.force /\ screen' = scr
              \/ /\ x = Idle
                 /\ \/ screen' = scr
                    \/ /\ ld.old # NoItem
                       /\ screen' = [scr EXCEPT !.shown = ld.old]
    <3>1. Onward(Own, scr, ld) \/ Caught(Own, scr, ld)
      BY <2>2
    <3>2. \E x :
             /\ load' = [load EXCEPT ![Own] = x]
             /\ \/ x # Idle /\ x.force = ld.force /\ screen' = scr
                \/ /\ x = Idle
                   /\ \/ screen' = scr
                      \/ /\ Own = Own /\ ld.old # NoItem
                         /\ screen' = [scr EXCEPT !.shown = ld.old]
      BY <3>1, LoadGoes
    <3> QED
      BY <3>2
  <2>4. load'[Own] = x /\ scr.mounted
    BY <1>1, <2>3 DEF Mounted
  <2>5. CASE x # Idle
    BY <1>2, <2>2, <2>3, <2>4, <2>5 DEF PhaseOf
  <2>6. CASE x = Idle /\ screen' = scr
    BY <1>2, <2>4, <2>6 DEF PhaseOf
  <2>7. CASE x = Idle /\ ld.old # NoItem /\ screen' = [scr EXCEPT !.shown = ld.old]
    <3>1. ld.old \in List
      BY <2>2, <2>7 DEF LoadWith
    <3>2. screen'.mounted /\ ShownOf(screen') \in Lists
      BY <2>7, <3>1, GivenList
    <3> QED
      BY <1>2, <2>4, <2>7, <3>2 DEF PhaseOf
  <2> QED
    BY <2>3, <2>5, <2>6, <2>7
<1>4. ASSUME NEW o \in Openings, Open(o)
      PROVE  Moves
  <2> DEFINE item == cache[KeyOf(o)]
             scr == [mounted |-> TRUE, tokens |-> o, filled |-> chainToWallet,
                     shown |-> IF item = NoItem THEN NoList ELSE item.list]
  <2>1. KeyOf(o) \in Keys /\ item \in Item \cup {NoItem}
    BY OpeningOK DEF HistoryInv, HistoryTypeOK
  <2>2. scr \in Mounted
    BY <2>1 DEF HistoryInv, HistoryTypeOK, Mounted, Item
  <2>3. \/ GetHistory(scr, FALSE)
        \/ screen' = scr /\ load' = load
    BY <1>4 DEF Open
  <2>4. ~ screen.mounted /\ load[Own] = Idle
    BY <1>1, <1>4 DEF Open
  <2> HIDE DEF scr, item
  <2>5. Phase = "closed" /\ ShownOf(scr) \in Lists \cup {NoList} /\ scr.mounted
    BY <1>2, <2>2, <2>4, ShownOK DEF PhaseOf
  <2>6. CASE GetHistory(scr, FALSE)
    BY <1>3, <2>2, <2>5, <2>6 DEF Moves, Begins
  <2>7. CASE screen' = scr /\ load' = load
    <3>1. Phase' = "idle" /\ Shown' = ShownOf(scr)
      BY <1>2, <2>4, <2>5, <2>7 DEF PhaseOf
    <3> QED
      BY <2>5, <3>1 DEF Moves, Begins
  <2> QED
    BY <2>3, <2>6, <2>7
<1>5. CASE HandleRefresh
  <2>1. /\ screen \in Mounted /\ screen.mounted /\ load[Own] = Idle
        /\ GetHistory(screen, TRUE)
    BY <1>1, <1>5 DEF HandleRefresh
  <2>2. Phase = "idle" /\ Shown = ShownOf(screen)
    BY <1>2, <2>1 DEF PhaseOf
  <2> QED
    BY <1>3, <2>1, <2>2 DEF Moves, Begins
<1>6. CASE Close
  <2>1. screen.mounted /\ ~ screen'.mounted
    BY <1>6 DEF Close, Closed
  <2>2. Phase # "closed" /\ Phase' = "closed" /\ Shown' = NoList
    BY <1>2, <2>1 DEF PhaseOf, ShownOf
  <2> QED
    BY <2>2 DEF Moves
<1>7. ASSUME NEW c \in Loads, Progress(c)
      PROVE  Moves
  <2>1. PICK x :
              /\ load' = [load EXCEPT ![c] = x] /\ load[c] # Idle
              /\ \/ x # Idle /\ x.force = load[c].force /\ screen' = screen
                 \/ x = Idle /\ screen' = screen
                 \/ /\ x = Idle /\ c = Own
                    /\ \E list \in List :
                          screen' = [screen EXCEPT !.shown = list]
    BY <1>7, ProgressGoes
  <2>2. CASE c # Own
    <3>1. load'[Own] = load[Own] /\ screen' = screen
      BY <1>1, <2>1, <2>2
    <3> QED
      BY <1>2, <3>1 DEF Moves
  <2>3. CASE c = Own
    <3>1. /\ load'[Own] = x /\ load[Own] # Idle /\ screen.mounted
          /\ screen \in Mounted
      BY <1>1, <2>1, <2>3
    <3>2. Phase \in {"loading", "refreshing"}
      BY <1>2, <3>1 DEF PhaseOf
    <3>3. CASE x # Idle /\ x.force = load[c].force /\ screen' = screen
      BY <1>2, <2>3, <3>1, <3>3 DEF PhaseOf, Moves
    <3>4. CASE x = Idle /\ screen' = screen
      <4>1. Phase' = "idle" /\ Shown' = Shown
        BY <1>2, <3>1, <3>4 DEF PhaseOf
      <4> QED
        BY <3>2, <4>1 DEF Moves
    <3>5. ASSUME x = Idle, NEW list \in List,
                 screen' = [screen EXCEPT !.shown = list]
          PROVE  Moves
      <4>1. screen'.mounted /\ ShownOf(screen') \in Lists
        BY <3>1, <3>5, GivenList
      <4>2. Phase' = "idle" /\ Shown' \in Lists
        BY <1>2, <3>1, <3>5, <4>1 DEF PhaseOf
      <4> QED
        BY <3>2, <4>2 DEF Moves
    <3> QED
      BY <2>1, <3>3, <3>4, <3>5
  <2> QED
    BY <2>2, <2>3
<1>8. CASE \/ CreateEnds
           \/ \E t \in Solana, kind \in Kinds : Arrives(t, kind)
           \/ \E k \in Keys : Expires(k)
           \/ UNCHANGED historyVars
  <2>1. screen' = screen /\ load' = load
    BY <1>8 DEF CreateEnds, Arrives, Expires, historyVars
  <2> QED
    BY <1>2, <2>1 DEF Moves
<1> QED
  BY <1>4, <1>5, <1>6, <1>7, <1>8 DEF HistoryNext

(* Whatever becomes of its loads, of the errors and of the cache, what a   *)
(* history shows changes as ResourceView says: a list never disappears,    *)
(* stays in place during a refresh, and changes when a load begins or ends.*)
THEOREM HistoryFollowsView == HistorySpec => FollowsView
<1>1. HistoryInit => View!ViewInit
  BY DEF HistoryInit, Closed, Phase, Shown, View!ViewInit
<1>2. HistoryInv /\ [HistoryNext]_historyVars =>
         [View!ViewNext]_(View!viewVars)
  <2> SUFFICES ASSUME HistoryInv, [HistoryNext]_historyVars
               PROVE  [View!ViewNext]_(View!viewVars)
    OBVIOUS
  <2>1. Moves
    BY AllMoves
  <2> QED
    BY <2>1
       DEF Moves, Begins, Lists, View!ViewNext, View!viewVars, View!Open,
           View!Reload, View!Refresh, View!Settle, View!Close, View!Begin,
           View!Busy
<1> QED
  BY <1>1, <1>2, InitFits, NextFits, PTL
     DEF HistorySpec, FollowsView, View!ViewSteps
=============================================================================
