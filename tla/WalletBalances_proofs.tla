------------------------ MODULE WalletBalances_proofs ------------------------
(***************************************************************************)
(* Proofs about WalletBalances.  Wallets only grow, and each load asks for *)
(* one that is no older than what was asked, cached and shown before it    *)
(* began: that order is the invariant, and only a load that another screen *)
(* overtook can answer out of it.                                          *)
(***************************************************************************)
EXTENDS WalletBalances, TLAPS

(* The cache has nothing of a wallet that is yet to come.                  *)
CacheFits == cache # NoItem => cache.of <= wallet

(* A load that was not overtaken asks for what is not behind the cache,    *)
(* which has its answer until it is overwritten.                           *)
LoadFits(c) ==
    load[c] # Idle =>
        /\ load[c].asks <= wallet
        /\ load[c].at = "fetching" /\ ~ load[c].overtaken /\ cache # NoItem =>
              cache.of <= load[c].asks
        /\ load[c].at = "storing" /\ ~ overwritten =>
              cache # NoItem /\ load[c].asks <= cache.of

(* A screen is behind its own load and, until the cache is overwritten,    *)
(* behind the cache and what its load falls back on.                       *)
BoardFits(d) ==
    /\ screen[d].mounted =>
          screen[d].asking = wallet /\ screen[d].shown <= wallet
    /\ load[d] # Idle =>
          /\ screen[d].mounted /\ screen[d].shown <= load[d].asks
          /\ load[d].old # NoItem => load[d].old.of <= load[d].asks
    /\ ~ overwritten =>
          /\ screen[d].mounted /\ screen[d].shown # None =>
                cache # NoItem /\ screen[d].shown <= cache.of
          /\ load[d] # Idle /\ load[d].old # NoItem =>
                screen[d].shown <= load[d].old.of

BalancesInv ==
    /\ BalancesTypeOK /\ CacheFits
    /\ \A c \in Loads : LoadFits(c)
    /\ \A d \in Boards : BoardFits(d)

-----------------------------------------------------------------------------
LEMMA WalletsAreNat ==
    /\ MaxWallet \in Nat \ {0} /\ MaxErrors \in Nat
    /\ 1 \in Wallets /\ None \in Nat
    /\ \A w \in Wallets : w \in Nat /\ w # None /\ None <= w
    /\ \A d \in Boards : d \in Loads /\ d \notin Left
    /\ \A c \in Left : c \in Loads /\ c \notin Boards
    /\ \A c \in Loads : c \in Boards \/ c \in Left
BY BalancesAssumption DEF Wallets, None, Loads, Boards

(* The fields of a screen and of a load, and what updates leave of them.   *)
LEMMA MountedValues ==
    ASSUME NEW s \in Mounted
    PROVE  /\ s.mounted = TRUE /\ s.shown \in Nat /\ s.asking \in Wallets
           /\ s.shown \in Wallets \cup {None}
BY WalletsAreNat DEF Mounted

Showing(s, n) == [s EXCEPT !.shown = n]
AskingFor(s, w) == [s EXCEPT !.asking = w]

LEMMA ShowingValues ==
    ASSUME NEW s \in Mounted, NEW n \in Wallets \cup {None}
    PROVE  /\ Showing(s, n) \in Mounted /\ Showing(s, n).mounted
           /\ Showing(s, n).shown = n /\ Showing(s, n).asking = s.asking
BY DEF Mounted, Showing

LEMMA AskingValues ==
    ASSUME NEW s \in Mounted, NEW w \in Wallets
    PROVE  /\ AskingFor(s, w) \in Mounted /\ AskingFor(s, w).mounted
           /\ AskingFor(s, w).shown = s.shown /\ AskingFor(s, w).asking = w
BY DEF Mounted, AskingFor

LEMMA ItemValues ==
    ASSUME NEW i \in Item
    PROVE  /\ i.of \in Wallets /\ i.of \in Nat
           /\ LET j == [i EXCEPT !.young = FALSE]
              IN  j \in Item /\ j.of = i.of
BY WalletsAreNat DEF Item

LEMMA LoadValues ==
    ASSUME NEW x \in Load
    PROVE  /\ x # Idle /\ x.at \in {"fetching", "storing", "hanging"}
           /\ x.asks \in Wallets /\ x.asks \in Nat
           /\ x.old \in Item \cup {NoItem}
           /\ x.old # NoItem => x.old.of \in Wallets /\ x.old.of \in Nat
<1>1. /\ x # Idle /\ x.at \in {"fetching", "storing", "hanging"}
      /\ x.asks \in Wallets /\ x.asks \in Nat
      /\ x.old \in Item \cup {NoItem}
  BY WalletsAreNat DEF Load, Idle
<1>2. ASSUME NEW i \in Item PROVE i.of \in Wallets /\ i.of \in Nat
  BY WalletsAreNat DEF Item
<1> QED
  BY <1>1, <1>2

LEMMA LoadMoves ==
    ASSUME NEW x \in Load, NEW at \in {"storing", "hanging"}, NEW y,
           \/ y = [x EXCEPT !.at = at] /\ y.at = at
           \/ y = [x EXCEPT !.overtaken = TRUE]
    PROVE  /\ y \in Load /\ y # Idle /\ y.asks = x.asks /\ y.old = x.old
           /\ y.force = x.force
BY DEF Load, Idle

(* What the proofs of the actions need of the types.                       *)
LEMMA WhatIsWhat ==
    ASSUME BalancesInv
    PROVE  /\ wallet \in Wallets /\ wallet \in Nat /\ errors \in 0 .. MaxErrors
           /\ cache \in Item \cup {NoItem}
           /\ cache # NoItem => /\ cache.of \in Wallets /\ cache.of \in Nat
                                /\ cache.of <= wallet
           /\ screen \in [Boards -> Mounted \cup {Closed}]
           /\ \A d \in Boards : screen[d].mounted => screen[d] \in Mounted
           /\ load \in [Loads -> Load \cup {Idle}]
           /\ \A c \in Loads : load[c] # Idle <=> load[c] \in Load
           /\ \A c \in Loads : load[c].at # "idle" => load[c] # Idle
<1> USE WalletsAreNat DEF BalancesInv, BalancesTypeOK
<1>1. /\ wallet \in Wallets /\ wallet \in Nat /\ errors \in 0 .. MaxErrors
      /\ cache \in Item \cup {NoItem}
      /\ screen \in [Boards -> Mounted \cup {Closed}]
      /\ load \in [Loads -> Load \cup {Idle}]
  OBVIOUS
<1>2. cache # NoItem => /\ cache.of \in Wallets /\ cache.of \in Nat
                        /\ cache.of <= wallet
  BY <1>1, ItemValues DEF CacheFits
<1>3. \A d \in Boards : screen[d].mounted => screen[d] \in Mounted
  BY <1>1 DEF Closed
<1>4. \A c \in Loads : load[c] # Idle <=> load[c] \in Load
  <2>1. Idle \notin Load
    BY DEF Idle, Load
  <2> QED
    BY <1>1, <2>1
<1>5. \A c \in Loads : load[c].at # "idle" => load[c] # Idle
  BY DEF Idle
<1> HIDE DEF BalancesInv, BalancesTypeOK
<1> QED
  BY <1>1, <1>2, <1>3, <1>4, <1>5

LEMMA FromCacheValues ==
    ASSUME BalancesInv, NEW scr \in Mounted
    PROVE  /\ FromCache(scr) \in Mounted
           /\ FromCache(scr).mounted /\ FromCache(scr).asking = scr.asking
           /\ FromCache(scr).shown =
                 IF cache = NoItem THEN scr.shown ELSE cache.of
<1>1. PICK n : n = IF cache = NoItem THEN scr.shown ELSE cache.of
  OBVIOUS
<1>2. n \in Wallets \cup {None}
  BY <1>1, WhatIsWhat, MountedValues
<1>3. FromCache(scr) = Showing(scr, n)
  BY <1>1, Zenon DEF FromCache, Showing
<1> QED
  BY <1>1, <1>2, <1>3, ShowingValues

LEMMA FetchingValues ==
    ASSUME BalancesInv, NEW w \in Wallets, NEW force \in BOOLEAN
    PROVE  LET ld == Fetching(w, force)
           IN  /\ ld \in Load /\ ld # Idle /\ ld.at = "fetching"
               /\ ld.asks = w /\ ld.old = cache /\ ld.force = force
               /\ ld.overtaken = FALSE
BY WhatIsWhat DEF Fetching, Load, Idle
-----------------------------------------------------------------------------
(* What an action leaves alone fits as it did.                             *)
LEMMA LoadStays ==
    ASSUME BalancesInv, NEW b \in Loads, NEW c \in Loads, load'[c] = load[b],
           wallet <= wallet', wallet' \in Nat, UNCHANGED <<cache, overwritten>>
    PROVE  LoadFits(c)'
<1>1. LoadFits(b)
  BY DEF BalancesInv
<1>2. load[b] # Idle => load[b].asks \in Nat
  BY WhatIsWhat, LoadValues
<1> QED
  BY <1>1, <1>2, WhatIsWhat DEF LoadFits

LEMMA BoardStays ==
    ASSUME BalancesInv, NEW d \in Boards, screen'[d] = screen[d],
           load'[d] = load[d], UNCHANGED <<wallet, cache, overwritten>>
    PROVE  BoardFits(d)'
BY DEF BalancesInv, BoardFits

(* The screen at d reloads or refreshes, for the wallet w.                 *)
LEMMA BeginFits ==
    ASSUME BalancesInv, NEW d \in Boards, NEW scr \in Mounted,
           NEW w \in Wallets, NEW force \in BOOLEAN,
           wallet <= w, w <= wallet', wallet' \in Wallets,
           scr.asking = wallet', scr.shown <= wallet,
           ~ overwritten /\ scr.shown # None =>
              cache # NoItem /\ scr.shown <= cache.of,
           UNCHANGED <<cache, overwritten>>,
           screen'[d] \in {scr, FromCache(scr)},
           load'[d] \in {Idle, Fetching(w, force)}
    PROVE  BoardFits(d)' /\ LoadFits(d)'
<1>1. /\ wallet \in Nat /\ w \in Nat /\ wallet' \in Nat /\ scr.shown \in Nat
      /\ cache # NoItem => cache.of \in Nat /\ cache.of <= wallet
  BY WhatIsWhat, WalletsAreNat, MountedValues
<1>2. /\ screen'[d].mounted /\ screen'[d].asking = wallet'
      /\ \/ screen'[d].shown = scr.shown
         \/ cache # NoItem /\ screen'[d].shown = cache.of
  BY FromCacheValues, MountedValues
<1>3. load'[d] # Idle => /\ load'[d].asks = w /\ load'[d].old = cache
                         /\ load'[d].at = "fetching"
  BY FetchingValues
<1>4. /\ screen'[d].shown \in Nat /\ screen'[d].shown <= wallet
      /\ ~ overwritten /\ screen'[d].shown # None =>
            cache # NoItem /\ screen'[d].shown <= cache.of
  BY <1>1, <1>2
<1>5. cache # NoItem => None <= cache.of
  BY <1>1 DEF None
<1> HIDE DEF FromCache, Fetching
<1>6. BoardFits(d)'
  BY <1>1, <1>2, <1>3, <1>4, <1>5 DEF BoardFits
<1>7. LoadFits(d)'
  BY <1>1, <1>3 DEF LoadFits
<1> QED
  BY <1>6, <1>7

LEMMA MountKeeps ==
    ASSUME BalancesInv, NEW d \in Boards, Mount(d) PROVE BalancesInv'
<1>1. PICK scr : scr = [mounted |-> TRUE, shown |-> None, asking |-> wallet]
  OBVIOUS
<1>2. /\ scr \in Mounted /\ scr.asking = wallet /\ scr.shown = None
      /\ wallet \in Wallets /\ wallet \in Nat /\ None <= wallet
  BY <1>1, WhatIsWhat, WalletsAreNat DEF Mounted
<1>3. /\ UNCHANGED <<wallet, cache, errors, overwritten>>
      /\ screen' = [screen EXCEPT ![d] = FromCache(scr)]
      /\ \/ load' = load
         \/ load' = [load EXCEPT ![d] = Fetching(wallet, FALSE)]
  BY <1>1 DEF Mount
<1>4. load[d] = Idle
  <2>1. ~ screen[d].mounted
    BY DEF Mount, Boards
  <2> QED
    BY <2>1 DEF BalancesInv, BoardFits
<1>5. FromCache(scr) \in Mounted /\ Fetching(wallet, FALSE) \in Load
  BY <1>2, FromCacheValues, FetchingValues
<1>6. /\ screen'[d] = FromCache(scr)
      /\ load'[d] \in {Idle, Fetching(wallet, FALSE)}
      /\ \A b \in Boards \ {d} : screen'[b] = screen[b]
      /\ \A c \in Loads \ {d} : load'[c] = load[c]
  BY <1>3, <1>4, WhatIsWhat, WalletsAreNat
<1>7. BalancesTypeOK'
  BY <1>2, <1>3, <1>5, WhatIsWhat DEF BalancesTypeOK, BalancesInv
<1>8. CacheFits'
  BY <1>3 DEF BalancesInv, CacheFits
<1>9. BoardFits(d)' /\ LoadFits(d)'
  <2>1. wallet <= wallet /\ wallet' \in Wallets /\ wallet <= wallet'
    BY <1>2, <1>3
  <2> QED
    BY <1>2, <1>3, <1>6, <2>1, BeginFits
<1>10. \A c \in Loads : LoadFits(c)'
  BY <1>2, <1>3, <1>6, <1>9, LoadStays
<1>11. \A b \in Boards : BoardFits(b)'
  BY <1>3, <1>6, <1>9, BoardStays, WalletsAreNat
<1> QED
  BY <1>7, <1>8, <1>10, <1>11 DEF BalancesInv

LEMMA RefreshKeeps ==
    ASSUME BalancesInv, NEW d \in Boards, Refresh(d) PROVE BalancesInv'
<1>1. /\ screen[d].mounted /\ load[d] = Idle
      /\ UNCHANGED <<wallet, cache, screen, errors, overwritten>>
      /\ load' = [load EXCEPT ![d] = Fetching(screen[d].asking, TRUE)]
  BY DEF Refresh
<1>2. /\ screen[d] \in Mounted /\ screen[d].asking = wallet
      /\ screen[d].shown <= wallet /\ wallet \in Wallets /\ wallet \in Nat
      /\ wallet <= wallet
      /\ ~ overwritten /\ screen[d].shown # None =>
            cache # NoItem /\ screen[d].shown <= cache.of
  BY <1>1, WhatIsWhat DEF BalancesInv, BoardFits
<1>3. Fetching(wallet, TRUE) \in Load
  BY <1>2, FetchingValues
<1>4. /\ load'[d] = Fetching(wallet, TRUE)
      /\ \A c \in Loads \ {d} : load'[c] = load[c]
  BY <1>1, <1>2, WhatIsWhat, WalletsAreNat
<1>5. BalancesTypeOK'
  BY <1>1, <1>2, <1>3, WhatIsWhat DEF BalancesTypeOK, BalancesInv
<1>6. CacheFits'
  BY <1>1 DEF BalancesInv, CacheFits
<1>7. BoardFits(d)' /\ LoadFits(d)'
  BY <1>1, <1>2, <1>4, BeginFits
<1>8. \A c \in Loads : LoadFits(c)'
  BY <1>1, <1>2, <1>4, <1>7, LoadStays
<1>9. \A b \in Boards : BoardFits(b)'
  BY <1>1, <1>4, <1>7, BoardStays, WalletsAreNat
<1> QED
  BY <1>5, <1>6, <1>8, <1>9 DEF BalancesInv

(* What setWallets makes of a screen and its load: a reload, for wallet w, *)
(* or only another getBalance.                                             *)
LEMMA WalletsChangeAt ==
    ASSUME BalancesInv, WalletsChange
    PROVE  /\ wallet' = wallet + 1 /\ wallet' \in Wallets
           /\ UNCHANGED <<cache, errors, overwritten>>
           /\ screen' \in [Boards -> Mounted \cup {Closed}]
           /\ load' \in [Loads -> Load \cup {Idle}]
           /\ \A d \in Boards :
                 ~ screen[d].mounted => /\ screen'[d] = screen[d]
                                        /\ load'[d] = load[d]
           /\ \A c \in Left : load'[c] = load[c]
           /\ \E w \in {wallet, wallet + 1} : \A d \in Boards :
                 screen[d].mounted =>
                    LET scr == AskingFor(screen[d], wallet + 1)
                    IN  \/ /\ load[d] = Idle
                           /\ screen'[d] = FromCache(scr)
                           /\ load'[d] \in {Idle, Fetching(w, FALSE)}
                        \/ /\ load[d] # Idle
                           /\ screen'[d] = scr /\ load'[d] = load[d]
<1> DEFINE reloads == {d \in Boards : screen[d].mounted /\ load[d] = Idle}
<1>1. /\ wallet' = wallet + 1 /\ wallet' \in Wallets
      /\ wallet \in Wallets /\ wallet + 1 \in Wallets
      /\ UNCHANGED <<cache, errors, overwritten>>
  BY WhatIsWhat, WalletsAreNat DEF WalletsChange, Wallets
<1>2. screen' = [d \in Boards |->
                    IF ~ screen[d].mounted THEN screen[d]
                    ELSE IF d \in reloads THEN FromCache(AskingFor(screen[d], wallet + 1))
                    ELSE AskingFor(screen[d], wallet + 1)]
  BY Zenon DEF WalletsChange, AskingFor
<1>3. PICK w \in {wallet, wallet + 1} :
         load' = [c \in Loads |->
                    IF c \in reloads /\ MustFetch THEN Fetching(w, FALSE)
                                                  ELSE load[c]]
  BY DEF WalletsChange
<1>4. ASSUME NEW s \in Mounted
      PROVE  LET scr == AskingFor(s, wallet + 1)
             IN  scr \in Mounted /\ FromCache(scr) \in Mounted
  <2>1. AskingFor(s, wallet + 1) \in Mounted
    BY <1>1, AskingValues
  <2> QED
    BY <2>1, FromCacheValues
<1>5. Fetching(w, FALSE) \in Load
  BY <1>1, FetchingValues
<1>6. screen' \in [Boards -> Mounted \cup {Closed}]
  BY <1>2, <1>4, WhatIsWhat
<1>7. load' \in [Loads -> Load \cup {Idle}]
  BY <1>3, <1>5, WhatIsWhat
<1>8. \A c \in Left : load'[c] = load[c]
  BY <1>3, WalletsAreNat
<1>9. ASSUME NEW d \in Boards
      PROVE  /\ ~ screen[d].mounted => /\ screen'[d] = screen[d]
                                       /\ load'[d] = load[d]
             /\ screen[d].mounted /\ load[d] = Idle =>
                   /\ screen'[d] = FromCache(AskingFor(screen[d], wallet + 1))
                   /\ load'[d] \in {Idle, Fetching(w, FALSE)}
             /\ screen[d].mounted /\ load[d] # Idle =>
                   screen'[d] = AskingFor(screen[d], wallet + 1) /\ load'[d] = load[d]
  BY <1>2, <1>3, WalletsAreNat
<1> QED
  BY <1>1, <1>6, <1>7, <1>8, <1>9

LEMMA WalletsChangeKeeps == ASSUME BalancesInv, WalletsChange PROVE BalancesInv'
<1>1. /\ wallet \in Nat /\ wallet' \in Nat /\ wallet' = wallet + 1
      /\ wallet \in Wallets /\ wallet' \in Wallets /\ wallet <= wallet'
      /\ UNCHANGED <<cache, errors, overwritten>>
  BY WhatIsWhat, WalletsChangeAt
<1>2. BalancesTypeOK'
  BY <1>1, WalletsChangeAt DEF BalancesTypeOK, BalancesInv
<1>3. CacheFits'
  BY <1>1, WhatIsWhat DEF CacheFits
<1>4. PICK w \in {wallet, wallet + 1} : \A d \in Boards :
         screen[d].mounted =>
            LET scr == AskingFor(screen[d], wallet + 1)
            IN  \/ /\ load[d] = Idle
                   /\ screen'[d] = FromCache(scr)
                   /\ load'[d] \in {Idle, Fetching(w, FALSE)}
                \/ /\ load[d] # Idle
                   /\ screen'[d] = scr /\ load'[d] = load[d]
  BY WalletsChangeAt
<1>5. w \in Wallets /\ wallet <= w /\ w <= wallet'
  BY <1>1, <1>4
<1>6. ASSUME NEW d \in Boards PROVE BoardFits(d)' /\ LoadFits(d)'
  <2>1. CASE ~ screen[d].mounted
    <3>1. screen'[d] = screen[d] /\ load'[d] = load[d]
      BY <2>1, WalletsChangeAt
    <3>2. load[d] = Idle
      BY <2>1 DEF BalancesInv, BoardFits
    <3> QED
      BY <1>1, <2>1, <3>1, <3>2 DEF BoardFits, LoadFits
  <2>2. CASE screen[d].mounted
    <3>1. PICK scr : scr = AskingFor(screen[d], wallet + 1)
      OBVIOUS
    <3>2. screen[d] \in Mounted /\ screen[d].shown \in Nat
      BY <2>2, WhatIsWhat, MountedValues, WalletsAreNat
    <3>3. /\ scr \in Mounted /\ scr.mounted /\ scr.asking = wallet'
          /\ scr.shown = screen[d].shown
      <4>1. wallet + 1 \in Wallets
        BY <1>1
      <4>2. /\ scr \in Mounted /\ scr.mounted /\ scr.asking = wallet + 1
            /\ scr.shown = screen[d].shown
        BY <3>1, <3>2, <4>1, AskingValues
      <4> QED
        BY <1>1, <4>2
    <3>4. /\ BoardFits(d) /\ LoadFits(d)
          /\ d \in Loads
      BY WalletsAreNat DEF BalancesInv
    <3>5. /\ scr.shown <= wallet
          /\ ~ overwritten /\ scr.shown # None =>
                cache # NoItem /\ scr.shown <= cache.of
      BY <2>2, <3>3, <3>4 DEF BoardFits
    <3>6. CASE /\ load[d] = Idle /\ screen'[d] = FromCache(scr)
               /\ load'[d] \in {Idle, Fetching(w, FALSE)}
      BY <1>1, <1>5, <3>3, <3>5, <3>6, BeginFits
    <3>7. CASE load[d] # Idle /\ screen'[d] = scr /\ load'[d] = load[d]
      <4>1. scr.shown <= wallet'
        BY <1>1, <3>2, <3>3, <3>5
      <4>2. BoardFits(d)'
        BY <1>1, <2>2, <3>3, <3>4, <3>7, <4>1 DEF BoardFits
      <4> QED
        BY <1>1, <3>4, <3>7, <4>2, LoadStays
    <3> QED
      BY <1>4, <2>2, <3>1, <3>6, <3>7
  <2> QED
    BY <2>1, <2>2
<1>7. ASSUME NEW c \in Left PROVE LoadFits(c)'
  BY <1>1, WalletsChangeAt, LoadStays, WalletsAreNat
<1> QED
  BY <1>2, <1>3, <1>6, <1>7, WalletsAreNat DEF BalancesInv

LEMMA UnmountKeeps ==
    ASSUME BalancesInv, NEW d \in Boards, Unmount(d) PROVE BalancesInv'
<1>1. /\ UNCHANGED <<wallet, cache, errors, overwritten>>
      /\ screen' \in [Boards -> Mounted \cup {Closed}]
      /\ ~ screen'[d].mounted
      /\ \A b \in Boards \ {d} : screen'[b] = screen[b]
  BY WhatIsWhat DEF Unmount, Closed
<1>2. /\ load' \in [Loads -> Load \cup {Idle}] /\ load'[d] = Idle
      /\ \A b \in Boards \ {d} : load'[b] = load[b]
      /\ \A c \in Loads : load'[c] = Idle \/ \E b \in Loads : load'[c] = load[b]
  <2>1. CASE load' = [load EXCEPT ![d] = Idle]
    BY <2>1, WhatIsWhat, WalletsAreNat
  <2>2. CASE \E c \in Left : load' = [load EXCEPT ![d] = Idle, ![c] = load[d]]
    <3>1. PICK c \in Left : load' = [load EXCEPT ![d] = Idle, ![c] = load[d]]
      BY <2>2
    <3>2. c # d /\ c \in Loads /\ d \in Loads /\ c \notin Boards
      BY WalletsAreNat
    <3> QED
      BY <3>1, <3>2, WhatIsWhat, WalletsAreNat
  <2> QED
    BY <2>1, <2>2 DEF Unmount
<1>3. BalancesTypeOK'
  BY <1>1, <1>2 DEF BalancesInv, BalancesTypeOK
<1>4. CacheFits'
  BY <1>1 DEF BalancesInv, CacheFits
<1>5. ASSUME NEW c \in Loads PROVE LoadFits(c)'
  <2>1. CASE load'[c] = Idle
    BY <2>1 DEF LoadFits
  <2>2. CASE \E b \in Loads : load'[c] = load[b]
    <3>1. wallet' \in Nat /\ wallet <= wallet'
      BY <1>1, WhatIsWhat
    <3> QED
      BY <1>1, <2>2, <3>1, LoadStays
  <2> QED
    BY <1>2, <2>1, <2>2
<1>6. BoardFits(d)'
  BY <1>1, <1>2 DEF BoardFits
<1>7. \A b \in Boards \ {d} : BoardFits(b)'
  BY <1>1, <1>2, BoardStays
<1> QED
  BY <1>3, <1>4, <1>5, <1>6, <1>7 DEF BalancesInv
-----------------------------------------------------------------------------
(* The load at c goes on; every other is overtaken.                        *)
LEMMA AnswerAt ==
    ASSUME BalancesInv, NEW c \in Loads, Answer(c)
    PROVE  /\ load[c] \in Load /\ load[c].at = "fetching"
           /\ UNCHANGED <<wallet, screen, errors>>
           /\ cache' \in Item /\ cache' # NoItem /\ cache'.of = load[c].asks
           /\ load' \in [Loads -> Load \cup {Idle}]
           /\ load'[c].at = "storing"
           /\ \A b \in Loads : load[b] = Idle => load'[b] = Idle
           /\ \A b \in Loads : load[b] # Idle =>
                 /\ load'[b] # Idle /\ load'[b].asks = load[b].asks
                 /\ load'[b].old = load[b].old
                 /\ load'[b].force = load[b].force
                 /\ b # c => load'[b].at = load[b].at /\ load'[b].overtaken
<1>1. /\ load[c] \in Load /\ load[c].at = "fetching" /\ load[c] # Idle
      /\ UNCHANGED <<wallet, screen, errors>>
  BY WhatIsWhat DEF Answer, Idle
<1>2. cache' \in Item /\ cache'.of = load[c].asks /\ cache' # NoItem
  <2>1. PICK w \in Wallets : w = load[c].asks
    BY <1>1, LoadValues
  <2>2. PICK young \in BOOLEAN : young = ~ load[c].force
    BY Zenon
  <2>3. cache' = [of |-> w, young |-> young]
    BY <2>1, <2>2, Zenon DEF Answer
  <2> QED
    BY <2>1, <2>3, BalancesAssumption DEF Item
<1>3. load' = [b \in Loads |->
          IF b = c THEN [load[b] EXCEPT !.at = "storing"]
          ELSE IF load[b] = Idle THEN Idle
          ELSE [load[b] EXCEPT !.overtaken = TRUE]]
  BY DEF Answer
<1>4. ASSUME NEW x \in Load
      PROVE  /\ LET y == [x EXCEPT !.at = "storing"]
                IN  /\ y \in Load /\ y # Idle /\ y.at = "storing"
                    /\ y.asks = x.asks /\ y.old = x.old /\ y.force = x.force
             /\ LET y == [x EXCEPT !.overtaken = TRUE]
                IN  /\ y \in Load /\ y # Idle /\ y.at = x.at /\ y.overtaken
                    /\ y.asks = x.asks /\ y.old = x.old /\ y.force = x.force
  BY DEF Load, Idle
<1>5. ASSUME NEW b \in Loads
      PROVE  /\ load'[b] \in Load \cup {Idle}
             /\ b = c => load'[b].at = "storing"
             /\ load[b] = Idle => load'[b] = Idle
             /\ load[b] # Idle =>
                   /\ load'[b] # Idle /\ load'[b].asks = load[b].asks
                   /\ load'[b].old = load[b].old
                   /\ load'[b].force = load[b].force
                   /\ b # c => load'[b].at = load[b].at /\ load'[b].overtaken
  <2>1. CASE b = c
    <3>1. load'[b] = [load[b] EXCEPT !.at = "storing"]
      BY <1>3, <2>1
    <3> QED
      BY <1>1, <1>4, <2>1, <3>1, Zenon
  <2>2. CASE b # c /\ load[b] = Idle
    BY <1>3, <2>2
  <2>3. CASE b # c /\ load[b] # Idle
    <3>1. load'[b] = [load[b] EXCEPT !.overtaken = TRUE]
      BY <1>3, <2>3
    <3>2. load[b] \in Load
      BY <2>3, WhatIsWhat
    <3> QED
      BY <1>4, <2>3, <3>1, <3>2, Zenon
  <2> QED
    BY <2>1, <2>2, <2>3
<1>6. load' \in [Loads -> Load \cup {Idle}]
  <2>1. load' = [b \in Loads |-> load'[b]]
    BY <1>3
  <2> QED
    BY <1>5, <2>1
<1> QED
  BY <1>1, <1>2, <1>5, <1>6

LEMMA AnswerKeeps ==
    ASSUME BalancesInv, NEW c \in Loads, Answer(c) PROVE BalancesInv'
<1>1. /\ overwritten' \in BOOLEAN
      /\ overwritten' <=> \/ overwritten
                          \/ cache # NoItem /\ load[c].asks < cache.of
  BY Zenon DEF Answer, BalancesInv, BalancesTypeOK
<1>2. /\ load[c] # Idle /\ load[c].asks \in Nat /\ load[c].asks <= wallet
      /\ wallet \in Nat /\ wallet' = wallet
      /\ cache # NoItem => cache.of \in Nat
  <2>1. load[c] # Idle /\ load[c].asks \in Nat
    BY AnswerAt, LoadValues
  <2> QED
    BY <2>1, AnswerAt, WhatIsWhat DEF BalancesInv, LoadFits
<1>3. /\ cache' # NoItem /\ cache'.of = load[c].asks
      /\ cache'.of <= cache'.of
      /\ ~ overwritten' =>
            ~ overwritten /\ (cache # NoItem => cache.of <= cache'.of)
  BY <1>1, <1>2, AnswerAt
<1>4. BalancesTypeOK'
  BY <1>1, AnswerAt DEF BalancesInv, BalancesTypeOK
<1>5. CacheFits'
  BY <1>2, <1>3 DEF CacheFits
<1>6. ASSUME NEW b \in Loads PROVE LoadFits(b)'
  <2>1. CASE load[b] = Idle
    BY <2>1, AnswerAt DEF LoadFits
  <2>2. CASE load[b] # Idle /\ b = c
    BY <1>2, <1>3, <2>2, AnswerAt DEF LoadFits
  <2>3. CASE load[b] # Idle /\ b # c
    <3>1. LoadFits(b) /\ load[b].asks \in Nat
      BY <2>3, WhatIsWhat, LoadValues DEF BalancesInv
    <3>2. /\ load'[b].asks = load[b].asks /\ load'[b].at = load[b].at
          /\ load'[b].overtaken
      BY <2>3, AnswerAt
    <3> QED
      BY <1>2, <1>3, <2>3, <3>1, <3>2 DEF LoadFits
  <2> QED
    BY <2>1, <2>2, <2>3
<1>7. ASSUME NEW d \in Boards PROVE BoardFits(d)'
  <2>1. screen' = screen /\ d \in Loads
    BY AnswerAt, WalletsAreNat
  <2>2. /\ load'[d] # Idle => load[d] # Idle
        /\ load[d] # Idle => /\ load'[d].asks = load[d].asks
                             /\ load'[d].old = load[d].old
    BY <2>1, AnswerAt
  <2>3. screen[d].mounted => screen[d].shown \in Nat
    BY WhatIsWhat, MountedValues
  <2>4. BoardFits(d)
    BY DEF BalancesInv
  <2> QED
    BY <1>2, <1>3, <2>1, <2>2, <2>3, <2>4 DEF BoardFits
<1> QED
  BY <1>4, <1>5, <1>6, <1>7 DEF BalancesInv

LEMMA HangKeeps ==
    ASSUME BalancesInv, NEW c \in Loads, Hang(c) PROVE BalancesInv'
<1>1. /\ load[c].at = "fetching" /\ load[c] \in Load
      /\ UNCHANGED <<wallet, cache, screen, overwritten>>
  BY WhatIsWhat DEF Hang, Error, Idle
<1>2. errors' \in 0 .. MaxErrors
  BY WhatIsWhat, WalletsAreNat DEF Hang, Error
<1>3. /\ load' \in [Loads -> Load \cup {Idle}]
      /\ \A b \in Loads \ {c} : load'[b] = load[b]
      /\ \/ load'[c] = Idle
         \/ /\ load'[c].at = "hanging" /\ load'[c].asks = load[c].asks
            /\ load'[c].old = load[c].old
  <2>1. CASE c \in Boards
    <3>1. PICK y : y = [load[c] EXCEPT !.at = "hanging"]
      OBVIOUS
    <3>2. ASSUME NEW x \in Load, NEW z, z = [x EXCEPT !.at = "hanging"]
          PROVE  z \in Load /\ z.at = "hanging" /\ z.asks = x.asks /\ z.old = x.old
      BY <3>2 DEF Load
    <3>3. /\ y \in Load /\ y.at = "hanging" /\ y.asks = load[c].asks
          /\ y.old = load[c].old
      BY <1>1, <3>1, <3>2, Zenon
    <3>4. load' = [load EXCEPT ![c] = y]
      BY <2>1, <3>1, Zenon DEF Hang
    <3> QED
      BY <3>3, <3>4, WhatIsWhat
  <2>2. CASE c \notin Boards
    <3>1. load' = [load EXCEPT ![c] = Idle]
      BY <2>2, Zenon DEF Hang
    <3> QED
      BY <3>1, WhatIsWhat
  <2> QED
    BY <2>1, <2>2
<1>4. BalancesTypeOK'
  BY <1>1, <1>2, <1>3 DEF BalancesInv, BalancesTypeOK
<1>5. CacheFits'
  BY <1>1 DEF BalancesInv, CacheFits
<1>6. LoadFits(c)'
  <2>1. LoadFits(c) /\ load[c] # Idle
    BY <1>1, WhatIsWhat DEF BalancesInv
  <2> QED
    BY <1>1, <1>3, <2>1 DEF LoadFits
<1>7. \A b \in Loads \ {c} : LoadFits(b)'
  <2>1. wallet' \in Nat /\ wallet <= wallet'
    BY <1>1, WhatIsWhat
  <2> QED
    BY <1>1, <1>3, <2>1, LoadStays
<1>8. ASSUME NEW d \in Boards PROVE BoardFits(d)'
  <2>1. CASE d = c
    <3>1. BoardFits(d) /\ load[c] # Idle
      BY <1>1, WhatIsWhat DEF BalancesInv
    <3> QED
      BY <1>1, <1>3, <2>1, <3>1 DEF BoardFits
  <2>2. CASE d # c
    BY <1>1, <1>3, <2>2, BoardStays, WalletsAreNat
  <2> QED
    BY <2>1, <2>2
<1> QED
  BY <1>4, <1>5, <1>6, <1>7, <1>8 DEF BalancesInv

(* What the end of a load leaves alone: its own screen shows w now.        *)
LEMMA EndKeeps ==
    ASSUME BalancesInv, NEW c \in Loads, load[c] # Idle,
           load' = [load EXCEPT ![c] = Idle], errors' \in 0 .. MaxErrors,
           UNCHANGED <<wallet, cache, overwritten>>,
           \/ screen' = screen
           \/ \E w \in Wallets :
                 /\ c \in Boards /\ w <= load[c].asks
                 /\ screen' = [screen EXCEPT ![c].shown = w]
                 /\ ~ overwritten => cache # NoItem /\ w <= cache.of
    PROVE  BalancesInv'
<1>1. /\ load'[c] = Idle /\ load' \in [Loads -> Load \cup {Idle}]
      /\ \A b \in Loads \ {c} : load'[b] = load[b]
      /\ wallet' \in Nat /\ wallet <= wallet'
  BY WhatIsWhat
<1>2. \A b \in Loads : LoadFits(b)'
  <2>1. LoadFits(c)'
    BY <1>1 DEF LoadFits
  <2> QED
    BY <1>1, <2>1, LoadStays
<1>3. CacheFits'
  BY DEF BalancesInv, CacheFits
<1>4. CASE screen' = screen
  <2>1. BalancesTypeOK'
    BY <1>1, <1>4 DEF BalancesInv, BalancesTypeOK
  <2>2. ASSUME NEW d \in Boards PROVE BoardFits(d)'
    <3>1. BoardFits(d) /\ d \in Loads
      BY WalletsAreNat DEF BalancesInv
    <3>2. load'[d] # Idle => load'[d] = load[d]
      BY <1>1, <3>1
    <3> QED
      BY <1>4, <3>1, <3>2 DEF BoardFits
  <2> QED
    BY <1>2, <1>3, <2>1, <2>2 DEF BalancesInv
<1>5. ASSUME NEW w \in Wallets, c \in Boards, w <= load[c].asks,
             screen' = [screen EXCEPT ![c].shown = w],
             ~ overwritten => cache # NoItem /\ w <= cache.of
      PROVE  BalancesInv'
  <2>1. BoardFits(c) /\ screen[c].mounted /\ screen[c] \in Mounted
    BY <1>5, WhatIsWhat DEF BalancesInv, BoardFits
  <2>2. PICK t : t = Showing(screen[c], w)
    OBVIOUS
  <2>3. t \in Mounted /\ t.mounted /\ t.shown = w /\ t.asking = screen[c].asking
    <3>1. w \in Wallets \cup {None}
      OBVIOUS
    <3> QED
      BY <2>1, <2>2, <3>1, ShowingValues
  <2>4. screen' = [screen EXCEPT ![c] = t]
    BY <1>5, <2>2, Zenon DEF Showing
  <2>5. /\ screen'[c] = t /\ screen' \in [Boards -> Mounted \cup {Closed}]
        /\ \A d \in Boards \ {c} : screen'[d] = screen[d]
    BY <1>5, <2>3, <2>4, WhatIsWhat
  <2>6. w <= wallet
    <3>1. load[c].asks <= wallet /\ load[c].asks \in Nat
      BY WhatIsWhat, LoadValues DEF BalancesInv, LoadFits
    <3>2. w \in Nat /\ wallet \in Nat
      BY WalletsAreNat, WhatIsWhat
    <3> QED
      BY <1>5, <3>1, <3>2
  <2>7. BalancesTypeOK'
    BY <1>1, <2>5 DEF BalancesInv, BalancesTypeOK
  <2>8. BoardFits(c)'
    BY <1>1, <1>5, <2>1, <2>3, <2>5, <2>6 DEF BoardFits
  <2>9. \A d \in Boards \ {c} : BoardFits(d)'
    BY <1>1, <2>5, BoardStays, WalletsAreNat
  <2> QED
    BY <1>2, <1>3, <2>7, <2>8, <2>9 DEF BalancesInv
<1> QED
  BY <1>4, <1>5

(* What the load at c shows when it ends.                                  *)
LEMMA EndAt ==
    ASSUME BalancesInv, NEW c \in Loads, Stored(c) \/ StoreFails(c)
    PROVE  /\ load[c] # Idle /\ load[c].at = "storing"
           /\ load' = [load EXCEPT ![c] = Idle]
           /\ errors' \in 0 .. MaxErrors
           /\ UNCHANGED <<wallet, cache, overwritten>>
           /\ \/ screen' = screen
              \/ \E w \in Wallets :
                    /\ c \in Boards /\ w <= load[c].asks
                    /\ screen' = [screen EXCEPT ![c].shown = w]
                    /\ ~ overwritten => cache # NoItem /\ w <= cache.of
                    /\ \/ w = load[c].asks
                       \/ /\ load[c].old # NoItem /\ w = load[c].old.of
<1>1. /\ load[c] # Idle /\ load[c] \in Load /\ load[c].at = "storing"
      /\ load' = [load EXCEPT ![c] = Idle]
      /\ UNCHANGED <<wallet, cache, overwritten>>
  BY WhatIsWhat DEF Stored, StoreFails, Error, Idle
<1>2. errors' \in 0 .. MaxErrors
  BY WhatIsWhat, WalletsAreNat DEF Stored, StoreFails, Error
<1>3. /\ load[c].asks \in Wallets /\ load[c].asks \in Nat
      /\ load[c].old # NoItem =>
            load[c].old.of \in Wallets /\ load[c].old.of \in Nat
      /\ cache # NoItem => cache.of \in Nat
      /\ ~ overwritten => cache # NoItem /\ load[c].asks <= cache.of
  BY <1>1, WhatIsWhat, LoadValues DEF BalancesInv, LoadFits
<1>4. CASE screen' = screen
  BY <1>1, <1>2, <1>4
<1>5. CASE c \in Boards /\ screen' = [screen EXCEPT ![c].shown = load[c].asks]
  <2>1. load[c].asks <= load[c].asks
    BY <1>3
  <2> QED
    BY <1>1, <1>2, <1>3, <1>5, <2>1
<1>6. CASE /\ c \in Boards /\ load[c].old # NoItem
           /\ screen' = [screen EXCEPT ![c].shown = load[c].old.of]
  <2>1. load[c].old.of <= load[c].asks
    BY <1>1, <1>6 DEF BalancesInv, BoardFits
  <2>2. ~ overwritten => cache # NoItem /\ load[c].old.of <= cache.of
    BY <1>3, <1>6, <2>1
  <2> QED
    BY <1>1, <1>2, <1>3, <1>6, <2>1, <2>2
<1> QED
  BY <1>4, <1>5, <1>6 DEF Stored, StoreFails, Shows

LEMMA LoadEndKeeps ==
    ASSUME BalancesInv, NEW c \in Loads, Stored(c) \/ StoreFails(c)
    PROVE  BalancesInv'
BY EndAt, EndKeeps

LEMMA ExpireKeeps == ASSUME BalancesInv, Expire PROVE BalancesInv'
<1>1. /\ cache # NoItem /\ cache' = [cache EXCEPT !.young = FALSE]
      /\ UNCHANGED <<wallet, screen, load, errors, overwritten>>
  BY DEF Expire
<1>2. cache' \in Item /\ cache'.of = cache.of /\ cache' # NoItem
  BY <1>1, ItemValues, WhatIsWhat, BalancesAssumption
<1> QED
  BY <1>1, <1>2
  DEF BalancesInv, BalancesTypeOK, CacheFits, LoadFits, BoardFits

-----------------------------------------------------------------------------
LEMMA InitFits == BalancesInit => BalancesInv
<1> SUFFICES ASSUME BalancesInit PROVE BalancesInv
  OBVIOUS
<1>1. BalancesTypeOK
  <2>1. 0 \in 0 .. MaxErrors
    BY WalletsAreNat
  <2>2. /\ [c \in Loads |-> Idle] \in [Loads -> Load \cup {Idle}]
        /\ [d \in Boards |-> Closed] \in [Boards -> Mounted \cup {Closed}]
    OBVIOUS
  <2>3. overwritten \in BOOLEAN
    BY Zenon DEF BalancesInit
  <2> QED
    BY <2>1, <2>2, <2>3, WalletsAreNat DEF BalancesInit, BalancesTypeOK
<1>2. /\ cache = NoItem /\ \A d \in Boards : ~ screen[d].mounted
      /\ \A c \in Loads : load[c] = Idle
      /\ \A d \in Boards : load[d] = Idle
  BY WalletsAreNat DEF BalancesInit, Closed
<1> QED
  BY <1>1, <1>2 DEF BalancesInv, CacheFits, LoadFits, BoardFits

LEMMA NextFits == BalancesInv /\ [BalancesNext]_balancesVars => BalancesInv'
<1> SUFFICES ASSUME BalancesInv, [BalancesNext]_balancesVars PROVE BalancesInv'
  OBVIOUS
<1>1. ASSUME NEW d \in Boards, Mount(d) PROVE BalancesInv'
  BY <1>1, MountKeeps
<1>2. ASSUME NEW d \in Boards, Unmount(d) PROVE BalancesInv'
  BY <1>2, UnmountKeeps
<1>3. CASE WalletsChange
  BY <1>3, WalletsChangeKeeps
<1>4. ASSUME NEW d \in Boards, Refresh(d) PROVE BalancesInv'
  BY <1>4, RefreshKeeps
<1>5. CASE Expire
  BY <1>5, ExpireKeeps
<1>6. ASSUME NEW c \in Loads, Answer(c) PROVE BalancesInv'
  BY <1>6, AnswerKeeps
<1>7. ASSUME NEW c \in Loads, Hang(c) PROVE BalancesInv'
  BY <1>7, HangKeeps
<1>8. ASSUME NEW c \in Loads, Stored(c) \/ StoreFails(c) PROVE BalancesInv'
  BY <1>8, LoadEndKeeps
<1>9. CASE UNCHANGED balancesVars
  BY <1>9 DEF balancesVars, BalancesInv, BalancesTypeOK, CacheFits, LoadFits,
              BoardFits
<1> QED
  BY <1>1, <1>2, <1>3, <1>4, <1>5, <1>6, <1>7, <1>8, <1>9 DEF BalancesNext

LEMMA InvHolds == BalancesSpec => []BalancesInv
BY InitFits, NextFits, PTL DEF BalancesSpec
-----------------------------------------------------------------------------
(* The wallets, the cache, the screens and the loads have the types that   *)
(* WalletContext, CacheManager and useCacheManager give them: what a       *)
(* screen shows is always the balances of some wallet, or nothing.         *)
THEOREM BalancesTypeCorrect == BalancesSpec => []BalancesTypeOK
<1>1. BalancesInv => BalancesTypeOK
  BY DEF BalancesInv
<1> QED
  BY <1>1, InvHolds, PTL

(* The cache goes back to an earlier wallet only in the answer of a load   *)
(* that another had overtaken.                                             *)
LEMMA CacheGoesBack ==
    ASSUME BalancesInv, BalancesNext, cache # NoItem, cache'.of < cache.of
    PROVE  WasOvertaken
<1>1. cache.of \in Nat
  BY WhatIsWhat
<1>2. CASE UNCHANGED cache
  BY <1>1, <1>2
<1>3. CASE Expire
  <2>1. cache'.of = cache.of
    BY <1>3, ItemValues, WhatIsWhat DEF Expire
  <2> QED
    BY <1>1, <2>1
<1>4. ASSUME NEW c \in Loads, Answer(c) PROVE WasOvertaken
  <2>1. /\ load[c].at = "fetching" /\ load'[c].at = "storing"
        /\ cache'.of = load[c].asks /\ load[c] # Idle /\ load[c].asks \in Nat
    BY <1>4, AnswerAt, LoadValues
  <2>2. ~ load[c].overtaken => cache.of <= load[c].asks
    BY <2>1 DEF BalancesInv, LoadFits
  <2> QED
    BY <1>1, <2>1, <2>2 DEF WasOvertaken
<1> QED
  BY <1>2, <1>3, <1>4
  DEF BalancesNext, Mount, Unmount, WalletsChange, Refresh, Hang, Error,
      Stored, StoreFails

(* Its own load puts later balances on a screen, unless its item was       *)
(* overwritten and it falls back on it.                                    *)
LEMMA ScreenGoesBack ==
    ASSUME BalancesInv, BalancesNext, NEW d \in Boards, screen[d].mounted,
           screen'[d].mounted, screen'[d].shown < screen[d].shown
    PROVE  overwritten /\ (FallsBack(d) \/ wallet' # wallet)
<1>1. /\ screen[d] \in Mounted /\ screen[d].shown \in Nat /\ d \in Loads
      /\ wallet \in Nat /\ BoardFits(d)
  BY WhatIsWhat, MountedValues, WalletsAreNat DEF BalancesInv
<1>2. screen'[d] # screen[d]
  BY <1>1
<1>3. ASSUME NEW b \in Boards PROVE ~ Mount(b) /\ ~ Unmount(b)
  <2>1. SUFFICES ASSUME Mount(b) \/ Unmount(b) PROVE FALSE
    OBVIOUS
  <2>2. b # d
    <3>1. Mount(b) => ~ screen[b].mounted
      BY DEF Mount, Boards
    <3>2. Unmount(b) => ~ screen'[b].mounted
      BY WhatIsWhat DEF Unmount, Closed
    <3> QED
      BY <2>1, <3>1, <3>2
  <2>3. screen'[d] = screen[d]
    BY <2>1, <2>2, WhatIsWhat DEF Mount, Unmount
  <2> QED
    BY <1>2, <2>3
<1>4. CASE WalletsChange
  <2>1. wallet' # wallet
    BY <1>1, <1>4, WalletsChangeAt
  <2>2. PICK scr : scr = AskingFor(screen[d], wallet + 1)
    OBVIOUS
  <2>3. scr \in Mounted /\ scr.shown = screen[d].shown
    <3>1. wallet + 1 \in Wallets
      BY <1>4, WalletsChangeAt
    <3> QED
      BY <1>1, <2>2, <3>1, AskingValues
  <2>4. screen'[d] = scr \/ screen'[d] = FromCache(scr)
    BY <1>4, <2>2, WalletsChangeAt
  <2>5. cache # NoItem /\ screen'[d].shown = cache.of /\ cache.of \in Nat
    BY <1>1, <2>3, <2>4, FromCacheValues, WhatIsWhat
  <2>6. screen[d].shown # None
    BY <1>1, <2>5 DEF None
  <2> QED
    BY <1>1, <2>1, <2>5, <2>6 DEF BoardFits
<1>5. ASSUME NEW c \in Loads, Stored(c) \/ StoreFails(c)
      PROVE  overwritten /\ FallsBack(d)
  <2>1. PICK w \in Wallets :
           /\ c \in Boards /\ screen' = [screen EXCEPT ![c].shown = w]
           /\ load[c].at = "storing" /\ load[c] # Idle
           /\ ~ overwritten => cache # NoItem /\ w <= cache.of
           /\ \/ w = load[c].asks
              \/ /\ load[c].old # NoItem /\ w = load[c].old.of
    BY <1>2, <1>5, EndAt
  <2>2. c = d
    BY <1>2, <2>1, WhatIsWhat
  <2>3. screen'[d].shown = w
    <3>1. PICK t : t = Showing(screen[d], w)
      OBVIOUS
    <3>2. t.shown = w
      <4>1. w \in Wallets \cup {None}
        OBVIOUS
      <4> QED
        BY <1>1, <3>1, <4>1, ShowingValues
    <3>3. screen' = [screen EXCEPT ![d] = t]
      BY <2>1, <2>2, <3>1, Zenon DEF Showing
    <3> QED
      BY <3>2, <3>3, WhatIsWhat
  <2>4. w \in Nat /\ w < screen[d].shown /\ screen[d].shown <= load[d].asks
        /\ load[d].asks \in Nat
    BY <1>1, <2>1, <2>2, <2>3, WalletsAreNat, WhatIsWhat, LoadValues
    DEF BoardFits
  <2>5. load[d].old # NoItem /\ w = load[d].old.of
    BY <1>1, <2>1, <2>2, <2>4
  <2>6. overwritten
    BY <1>1, <2>1, <2>2, <2>4, <2>5 DEF BoardFits
  <2> QED
    BY <2>1, <2>2, <2>3, <2>5, <2>6 DEF FallsBack
<1> QED
  BY <1>2, <1>3, <1>4, <1>5, AnswerAt
  DEF BalancesNext, Refresh, Expire, Hang

(* Balances of an earlier wallet take the place of later ones only in the  *)
(* answer of a load that the load of another dashboard overtook, one that  *)
(* was left or one below or above, and reach a screen only as what its     *)
(* load falls back on or as what a new wallet finds: the lock of           *)
(* useCacheManager keeps the loads of one screen in order, however many    *)
(* dashboards there are.                                                   *)
THEOREM LoadsInOrder == BalancesSpec => GoesBackOnlyOverwritten
<1> DEFINE Step ==
      /\ cache # NoItem /\ cache'.of < cache.of => WasOvertaken
      /\ \A d \in Boards :
            /\ screen[d].mounted /\ screen'[d].mounted
            /\ screen'[d].shown < screen[d].shown
            => overwritten /\ (FallsBack(d) \/ wallet' # wallet)
<1>1. BalancesInv /\ [BalancesNext]_balancesVars => [Step]_balancesVars
  BY CacheGoesBack, ScreenGoesBack
<1> QED
  BY <1>1, InvHolds, PTL DEF BalancesSpec, GoesBackOnlyOverwritten
-----------------------------------------------------------------------------
(* Each screen implements ResourceView: phaseAt and shownAt are what the   *)
(* refinement mapping makes of its state.                                  *)
ShownNow(d) == IF screen[d].mounted THEN screen[d].shown ELSE None

phaseAt(d) == [i \in {d} |-> Phase(i)]
shownAt(d) == [i \in {d} |-> ShownNow(i)]

LEMMA ViewMapped ==
    ASSUME NEW d \in Boards
    PROVE  /\ phaseAt(d) = [i \in {d} |-> Phase(i)]
           /\ phaseAt(d)' = [i \in {d} |-> Phase(i)]'
           /\ shownAt(d) = [i \in {d} |-> IF screen[i].mounted
                                          THEN screen[i].shown ELSE None]
           /\ shownAt(d)' = [i \in {d} |-> IF screen[i].mounted
                                           THEN screen[i].shown ELSE None]'
BY DEF phaseAt, shownAt, ShownNow, Phase

LEMMA ViewAt ==
    ASSUME NEW d \in Boards
    PROVE  /\ phaseAt(d)[d] = Phase(d) /\ shownAt(d)[d] = ShownNow(d)
           /\ phaseAt(d)' = [phaseAt(d) EXCEPT ![d] = Phase(d)']
           /\ shownAt(d)' = [shownAt(d) EXCEPT ![d] = ShownNow(d)']
           /\ ShownNow(d)' = ShownNow(d) => shownAt(d)' = shownAt(d)
BY DEF phaseAt, shownAt, ShownNow, Phase

LEMMA ViewStays ==
    ASSUME NEW d \in Boards, Phase(d)' = Phase(d), ShownNow(d)' = ShownNow(d)
    PROVE  UNCHANGED <<phaseAt(d), shownAt(d)>>
BY DEF phaseAt, shownAt, ShownNow, Phase

(* A step that leaves a screen and its load alone stutters in its view.    *)
LEMMA OthersStay ==
    ASSUME NEW d \in Boards, screen'[d] = screen[d], load'[d] = load[d]
    PROVE  UNCHANGED <<phaseAt(d), shownAt(d)>>
BY ViewStays DEF Phase, ShownNow

(* A dashboard whose load is not out is idle; a load of its own is busy.   *)
LEMMA PhaseOfOwn ==
    ASSUME BalancesInv, NEW d \in Boards
    PROVE  /\ ~ screen[d].mounted => Phase(d) = "closed" /\ load[d] = Idle
           /\ screen[d].mounted /\ load[d] = Idle => Phase(d) = "idle"
           /\ load[d] # Idle => /\ screen[d].mounted
                                /\ Phase(d) \in {"loading", "refreshing"}
BY DEF Phase, BalancesInv, BoardFits

LEMMA MountView ==
    ASSUME BalancesInv, NEW d \in Boards, NEW b \in Boards, Mount(b)
    PROVE  View(d)!ViewNext \/ UNCHANGED <<phaseAt(d), shownAt(d)>>
<1>1. CASE b # d
  BY <1>1, WhatIsWhat, WalletsAreNat, OthersStay DEF Mount
<1>2. CASE b = d
  <2>1. PICK scr : scr = [mounted |-> TRUE, shown |-> None, asking |-> wallet]
    OBVIOUS
  <2>2. scr \in Mounted /\ scr.shown = None
    BY <2>1, WhatIsWhat DEF Mounted
  <2>3. /\ screen' = [screen EXCEPT ![d] = FromCache(scr)]
        /\ \/ load' = load
           \/ load' = [load EXCEPT ![d] = Fetching(wallet, FALSE)]
    BY <1>2, <2>1 DEF Mount
  <2>4. screen'[d].mounted /\ screen'[d].shown \in Wallets \cup {None}
    BY <2>2, <2>3, FromCacheValues, WhatIsWhat
  <2>5. ~ screen[d].mounted
    BY <1>2 DEF Mount, Boards
  <2>6. load'[d] # Idle => ~ load'[d].force
    <3>1. load[d] = Idle
      BY <2>5, PhaseOfOwn
    <3>2. /\ Fetching(wallet, FALSE) # Idle
          /\ Fetching(wallet, FALSE).force = FALSE
      BY DEF Fetching, Idle
    <3> QED
      BY <2>3, <3>1, <3>2, WhatIsWhat, WalletsAreNat
  <2>7. /\ Phase(d) = "closed" /\ Phase(d)' \in {"idle", "loading"}
        /\ ShownNow(d)' \in Wallets \cup {None}
    BY <2>4, <2>5, <2>6 DEF Phase, ShownNow
  <2>8. View(d)!Open(d)
    BY <2>7, ViewAt, ViewMapped DEF View!Open, View!Begin
  <2> QED
    BY <2>8 DEF View!ViewNext
<1> QED
  BY <1>1, <1>2

LEMMA UnmountView ==
    ASSUME BalancesInv, NEW d \in Boards, NEW b \in Boards, Unmount(b)
    PROVE  View(d)!ViewNext \/ UNCHANGED <<phaseAt(d), shownAt(d)>>
<1>1. CASE b # d
  <2>1. screen'[d] = screen[d]
    BY <1>1, WhatIsWhat DEF Unmount
  <2>2. load'[d] = load[d]
    <3>1. \/ load' = [load EXCEPT ![b] = Idle]
          \/ \E c \in Left : load' = [load EXCEPT ![b] = Idle, ![c] = load[b]]
      BY DEF Unmount
    <3> QED
      BY <1>1, <3>1, WhatIsWhat, WalletsAreNat
  <2> QED
    BY <2>1, <2>2, OthersStay
<1>2. CASE b = d
  <2>1. screen[d].mounted /\ ~ screen'[d].mounted
    BY <1>2, WhatIsWhat DEF Unmount, Closed
  <2>2. Phase(d) # "closed" /\ Phase(d)' = "closed" /\ ShownNow(d)' = None
    BY <2>1 DEF Phase, ShownNow
  <2>3. View(d)!Close(d)
    BY <2>2, ViewAt, ViewMapped DEF View!Close
  <2> QED
    BY <2>3 DEF View!ViewNext
<1> QED
  BY <1>1, <1>2

LEMMA WalletsChangeView ==
    ASSUME BalancesInv, NEW d \in Boards, WalletsChange
    PROVE  View(d)!ViewNext \/ UNCHANGED <<phaseAt(d), shownAt(d)>>
<1>1. CASE ~ screen[d].mounted
  BY <1>1, WalletsChangeAt, OthersStay
<1>2. CASE screen[d].mounted
  <2>1. PICK scr : scr = AskingFor(screen[d], wallet + 1)
    OBVIOUS
  <2>2. scr \in Mounted /\ scr.mounted /\ scr.shown = screen[d].shown
    <3>1. wallet + 1 \in Wallets
      BY WalletsChangeAt
    <3>2. screen[d] \in Mounted
      BY <1>2, WhatIsWhat
    <3> QED
      BY <2>1, <3>1, <3>2, AskingValues
  <2>3. PICK w \in {wallet, wallet + 1} :
           \/ /\ load[d] = Idle /\ screen'[d] = FromCache(scr)
              /\ load'[d] \in {Idle, Fetching(w, FALSE)}
           \/ /\ load[d] # Idle /\ screen'[d] = scr /\ load'[d] = load[d]
    BY <1>2, <2>1, WalletsChangeAt
  <2>4. CASE /\ load[d] = Idle /\ screen'[d] = FromCache(scr)
             /\ load'[d] \in {Idle, Fetching(w, FALSE)}
    <3>1. /\ screen'[d].mounted
          /\ screen'[d].shown \in Wallets \cup {screen[d].shown}
      BY <2>2, <2>4, FromCacheValues, WhatIsWhat
    <3>2. w \in Wallets
      BY WhatIsWhat, WalletsChangeAt
    <3>3. load'[d] # Idle => ~ load'[d].force
      <4>1. /\ Fetching(w, FALSE) # Idle
            /\ Fetching(w, FALSE).force = FALSE
        BY DEF Fetching, Idle
      <4> QED
        BY <2>4, <4>1
    <3>4. /\ Phase(d) = "idle" /\ Phase(d)' \in {"idle", "loading"}
          /\ ShownNow(d)' \in Wallets \cup {ShownNow(d)}
      BY <1>2, <2>4, <3>1, <3>3 DEF Phase, ShownNow
    <3>5. View(d)!Reload(d)
      BY <3>4, ViewAt, ViewMapped DEF View!Reload, View!Begin
    <3> QED
      BY <3>5 DEF View!ViewNext
  <2>5. CASE load[d] # Idle /\ screen'[d] = scr /\ load'[d] = load[d]
    BY <1>2, <2>2, <2>5, ViewStays DEF Phase, ShownNow
  <2> QED
    BY <2>3, <2>4, <2>5
<1> QED
  BY <1>1, <1>2

LEMMA RefreshView ==
    ASSUME BalancesInv, NEW d \in Boards, NEW b \in Boards, Refresh(b)
    PROVE  View(d)!ViewNext \/ UNCHANGED <<phaseAt(d), shownAt(d)>>
<1>1. CASE b # d
  BY <1>1, WhatIsWhat, WalletsAreNat, OthersStay DEF Refresh
<1>2. CASE b = d
  <2>1. /\ screen[d].mounted /\ load[d] = Idle /\ UNCHANGED screen
        /\ load' = [load EXCEPT ![d] = Fetching(screen[d].asking, TRUE)]
    BY <1>2 DEF Refresh
  <2>2. screen[d].asking \in Wallets
    BY <2>1, WhatIsWhat, MountedValues
  <2>3. load'[d] # Idle /\ load'[d].force
    BY <2>1, <2>2, FetchingValues, WhatIsWhat, WalletsAreNat
  <2>4. Phase(d) = "idle" /\ Phase(d)' = "refreshing" /\ ShownNow(d)' = ShownNow(d)
    BY <2>1, <2>3 DEF Phase, ShownNow
  <2>5. View(d)!Refresh(d)
    BY <2>4, ViewAt, ViewMapped DEF View!Refresh
  <2> QED
    BY <2>5 DEF View!ViewNext
<1> QED
  BY <1>1, <1>2

(* A load that goes on: the phases are as they were, those of hung loads   *)
(* too.                                                                    *)
LEMMA GoingOnView ==
    ASSUME BalancesInv, NEW d \in Boards, NEW c \in Loads, Answer(c) \/ Hang(c)
    PROVE  UNCHANGED <<phaseAt(d), shownAt(d)>>
<1>1. CASE Answer(c)
  <2>1. /\ screen' = screen
        /\ load[d] = Idle => load'[d] = Idle
        /\ load[d] # Idle => load'[d] # Idle /\ load'[d].force = load[d].force
    BY <1>1, AnswerAt, WalletsAreNat
  <2> QED
    BY <2>1, ViewStays DEF Phase, ShownNow
<1>2. CASE Hang(c) /\ c # d
  BY <1>2, WhatIsWhat, WalletsAreNat, OthersStay DEF Hang
<1>3. CASE Hang(c) /\ c = d
  <2>1. ASSUME NEW x \in Load, NEW z, z = [x EXCEPT !.at = "hanging"]
        PROVE  z # Idle /\ z.force = x.force
    BY <2>1 DEF Load, Idle
  <2>2. PICK y : y = [load[d] EXCEPT !.at = "hanging"]
    OBVIOUS
  <2>3. load[d] \in Load /\ load[d] # Idle
    BY <1>3, WhatIsWhat DEF Hang, Idle
  <2>4. y # Idle /\ y.force = load[d].force
    BY <2>1, <2>2, <2>3, Zenon
  <2>5. load' = [load EXCEPT ![d] = y] /\ screen' = screen
    BY <1>3, <2>2, Zenon DEF Hang
  <2>6. load'[d] = y
    BY <2>5, WhatIsWhat, WalletsAreNat
  <2> QED
    BY <2>3, <2>4, <2>5, <2>6, ViewStays DEF Phase, ShownNow
<1> QED
  BY <1>1, <1>2, <1>3

(* A load that ends shows what it got, what it fell back on, or nothing    *)
(* new.                                                                    *)
LEMMA EndView ==
    ASSUME BalancesInv, NEW d \in Boards, NEW c \in Loads,
           Stored(c) \/ StoreFails(c)
    PROVE  View(d)!ViewNext \/ UNCHANGED <<phaseAt(d), shownAt(d)>>
<1>1. CASE c # d
  BY <1>1, EndAt, WhatIsWhat, WalletsAreNat, OthersStay
<1>2. CASE c = d
  <2>1. /\ screen[d].mounted /\ screen[d] \in Mounted
        /\ Phase(d) \in {"loading", "refreshing"} /\ load'[d] = Idle
    BY <1>2, EndAt, PhaseOfOwn, WhatIsWhat
  <2>2. \/ screen' = screen
        \/ \E w \in Wallets : screen' = [screen EXCEPT ![d].shown = w]
    BY <1>2, EndAt
  <2>3. /\ screen'[d].mounted
        /\ screen'[d].shown \in Wallets \cup {screen[d].shown}
    <3>1. ASSUME NEW w \in Wallets, screen' = [screen EXCEPT ![d].shown = w]
          PROVE  screen'[d].mounted /\ screen'[d].shown = w
      <4>1. PICK t : t = Showing(screen[d], w)
        OBVIOUS
      <4>2. t.mounted /\ t.shown = w
        <5>1. w \in Wallets \cup {None}
          OBVIOUS
        <5> QED
          BY <2>1, <4>1, <5>1, ShowingValues
      <4>3. screen' = [screen EXCEPT ![d] = t]
        BY <3>1, <4>1, Zenon DEF Showing
      <4> QED
        BY <4>2, <4>3, WhatIsWhat
    <3> QED
      BY <2>1, <2>2, <3>1
  <2>4. Phase(d)' = "idle" /\ ShownNow(d)' \in Wallets \cup {ShownNow(d)}
    BY <2>1, <2>3 DEF Phase, ShownNow
  <2>5. View(d)!Settle(d)
    BY <2>1, <2>4, ViewAt, ViewMapped DEF View!Settle, View!Busy
  <2> QED
    BY <2>5 DEF View!ViewNext
<1> QED
  BY <1>1, <1>2

LEMMA StepOfView ==
    ASSUME BalancesInv, NEW d \in Boards, [BalancesNext]_balancesVars
    PROVE  View(d)!ViewNext \/ UNCHANGED <<phaseAt(d), shownAt(d)>>
<1>1. CASE Expire \/ UNCHANGED balancesVars
  <2>1. UNCHANGED <<screen, load>>
    BY <1>1 DEF Expire, balancesVars
  <2> QED
    BY <2>1, OthersStay
<1> QED
  BY <1>1, MountView, UnmountView, WalletsChangeView, RefreshView,
     GoingOnView, EndView
  DEF BalancesNext

(* Each dashboard's balances implement the steps of ResourceView, loads    *)
(* that hang, loads of dashboards that were left and those of the other    *)
(* dashboards included: the balances on screen change when a load begins   *)
(* or ends, stay during a refresh and are never taken away, whichever      *)
(* wallets the loads are of.                                               *)
THEOREM BalancesImplementView == ASSUME NEW d \in Boards
                                 PROVE  BalancesSpec => View(d)!ViewSteps
<1>1. BalancesInit => View(d)!ViewInit
  <2>1. ASSUME BalancesInit PROVE Phase(d) = "closed" /\ ShownNow(d) = None
    BY <2>1 DEF BalancesInit, Closed, Phase, ShownNow
  <2> QED
    BY <2>1, ViewMapped DEF View!ViewInit, phaseAt, shownAt
<1>2. BalancesInv /\ [BalancesNext]_balancesVars =>
         [View(d)!ViewNext]_(View(d)!viewVars)
  <2>1. UNCHANGED <<phaseAt(d), shownAt(d)>> => UNCHANGED View(d)!viewVars
    BY ViewMapped DEF View!viewVars
  <2> QED
    BY <2>1, StepOfView
<1> QED
  BY <1>1, <1>2, InvHolds, PTL DEF BalancesSpec, View!ViewSteps
=============================================================================
