--------------------------- MODULE WalletBalances ---------------------------
(***************************************************************************)
(* The balances of the dashboards, from the wallets of WalletContext to    *)
(* the screens: getBalance asks for the wallet of the render that made it, *)
(* the cache keeps the answer under a key that names no wallet, and the    *)
(* hook drops the reload for a new wallet while a load for the last one is *)
(* out.                                                                    *)
(*                                                                         *)
(* There may be two dashboards: creating a wallet from the settings opens  *)
(* one above the other (WalletSession), which stays mounted, loads for     *)
(* every new wallet and refreshes every minute.  Wallets are numbered as   *)
(* they are set; a phrase that is imported again is another one.  Only     *)
(* Solana's balance is asked of a node.                                    *)
(***************************************************************************)
EXTENDS Naturals

CONSTANTS
    MaxBoards,  \* bound on the dashboards on the stack
    Left,       \* names for the loads of dashboards that were left
    MaxWallet,  \* bound on the wallets
    MaxErrors,  \* bound on the errors of the RPC node and of AsyncStorage
    NoItem

Boards == 1 .. MaxBoards    \* the places of dashboards, from the bottom
Loads == Boards \cup Left
Wallets == 1 .. MaxWallet
None == 0       \* null: nothing is shown

Item == [of: Wallets, young: BOOLEAN]

ASSUME BalancesAssumption ==
    /\ MaxBoards \in Nat \ {0} /\ Left \cap Nat = {}
    /\ MaxWallet \in Nat \ {0} /\ MaxErrors \in Nat
    /\ NoItem \notin Item

VARIABLES
    wallet,     \* solanaWallet of the WalletContext
    cache,      \* the item 'dashboard-balances'
    screen,     \* the dashboards
    load,       \* the loadData activations, of dashboards and those left
    errors,     \* errors so far
    overwritten \* history: balances of an earlier wallet were stored in the
                \* place of a later one's

balancesVars == <<wallet, cache, screen, load, errors, overwritten>>

Closed == [mounted |-> FALSE]
Mounted == [mounted: {TRUE}, shown: Wallets \cup {None},
            asking: Wallets]    \* the wallet of its getBalance

(* old is cachedItem; overtaken, a history, that another screen's load has *)
(* answered since this one began.                                          *)
Idle == [at |-> "idle"]
Load == [at: {"fetching", "storing", "hanging"}, asks: Wallets,
         force: BOOLEAN, old: Item \cup {NoItem}, overtaken: BOOLEAN]

BalancesTypeOK ==
    /\ wallet \in Wallets
    /\ cache \in Item \cup {NoItem}
    /\ screen \in [Boards -> Mounted \cup {Closed}]
    /\ load \in [Loads -> Load \cup {Idle}]
    /\ errors \in 0 .. MaxErrors
    /\ overwritten \in BOOLEAN

BalancesInit ==
    /\ wallet = 1
    /\ cache = NoItem
    /\ screen = [d \in Boards |-> Closed]
    /\ load = [c \in Loads |-> Idle]
    /\ errors = 0
    /\ overwritten = FALSE

-----------------------------------------------------------------------------
(* loadData of a mount or of a new getBalance: what is cached is shown,    *)
(* whichever wallet it is of, and fetched anew unless it is young.         *)
FromCache(scr) == [scr EXCEPT !.shown = IF cache = NoItem THEN @ ELSE cache.of]

MustFetch == cache = NoItem \/ ~ cache.young

(* getData of a load that must fetch, for the wallet of its getBalance.    *)
Fetching(w, force) ==
    [at |-> "fetching", asks |-> w, force |-> force, old |-> cache,
     overtaken |-> FALSE]

(* A dashboard opens on top of those there are.                            *)
Mount(d) ==
    /\ \A b \in Boards : screen[b].mounted <=> b < d
    /\ screen' = [screen EXCEPT ![d] =
          FromCache([mounted |-> TRUE, shown |-> None, asking |-> wallet])]
    /\ load' = IF MustFetch THEN [load EXCEPT ![d] = Fetching(wallet, FALSE)]
                            ELSE load
    /\ UNCHANGED <<wallet, cache, errors, overwritten>>

(* The top one is left.  A load that hangs does nothing any more, but that *)
(* it keeps its lock.                                                      *)
Unmount(d) ==
    /\ screen[d].mounted
    /\ \A b \in Boards : screen[b].mounted => b <= d
    /\ screen' = [screen EXCEPT ![d] = Closed]
    /\ IF load[d].at \in {"idle", "hanging"}
       THEN load' = [load EXCEPT ![d] = Idle]
       ELSE \E c \in Left :
               /\ load[c] = Idle
               /\ load' = [load EXCEPT ![d] = Idle, ![c] = load[d]]
    /\ UNCHANGED <<wallet, cache, errors, overwritten>>

\* Mutation: the wallets are missing in the dependencies of getBalance.
WalletsChangeStale ==
    /\ wallet < MaxWallet /\ wallet' = wallet + 1
    /\ UNCHANGED <<cache, screen, load, errors, overwritten>>

(* An import or a creation ends: the wallets are set one by one.  React    *)
(* renders after each or once after all, so that the first new getBalance, *)
(* which is the one that is loaded with, may have the old Solana wallet.   *)
(* Every dashboard gets it; where a load is out, the reload is dropped.    *)
WalletsChange ==
    LET asks(scr) == [scr EXCEPT !.asking = wallet + 1]
        reloads == {d \in Boards : screen[d].mounted /\ load[d] = Idle}
    IN  /\ wallet < MaxWallet /\ wallet' = wallet + 1
        /\ screen' = [d \in Boards |->
              IF ~ screen[d].mounted THEN screen[d]
              ELSE IF d \in reloads THEN FromCache(asks(screen[d]))
              ELSE asks(screen[d])]
        /\ \E w \in {wallet, wallet + 1} :
              load' = [c \in Loads |->
                 IF c \in reloads /\ MustFetch THEN Fetching(w, FALSE)
                                               ELSE load[c]]
        /\ UNCHANGED <<cache, errors, overwritten>>

(* refreshBalances, of the interval or of a pull.                          *)
Refresh(d) ==
    /\ screen[d].mounted /\ load[d] = Idle
    /\ load' = [load EXCEPT ![d] = Fetching(screen[d].asking, TRUE)]
    /\ UNCHANGED <<wallet, cache, screen, errors, overwritten>>

-----------------------------------------------------------------------------
(* getBalance answers.  setData writes memory and begins setItem; what a   *)
(* refresh stores has an expirationTime of 0.                              *)
Answer(c) ==
    /\ load[c].at = "fetching"
    /\ cache' = [of |-> load[c].asks, young |-> ~ load[c].force]
    /\ load' = [b \in Loads |->
          IF b = c THEN [load[b] EXCEPT !.at = "storing"]
          ELSE IF load[b] = Idle THEN Idle
          ELSE [load[b] EXCEPT !.overtaken = TRUE]]
    /\ overwritten' =
          (overwritten \/ (cache # NoItem /\ load[c].asks < cache.of))
    /\ UNCHANGED <<wallet, screen, errors>>

Error ==
    /\ errors < MaxErrors /\ errors' = errors + 1
    /\ UNCHANGED <<wallet, cache, overwritten>>

(* After an error of the RPC node the promise never settles.               *)
Hang(c) ==
    /\ load[c].at = "fetching"
    /\ Error
    /\ load' = [load EXCEPT ![c] =
          IF c \in Boards THEN [@ EXCEPT !.at = "hanging"] ELSE Idle]
    /\ UNCHANGED screen

(* The setter of a dashboard that was left reaches nobody.                 *)
Shows(c, w) ==
    screen' = IF c \in Boards THEN [screen EXCEPT ![c].shown = w] ELSE screen

\* Mutation: the load shows what the cache has by now.
StoredFromCache(c) ==
    /\ load[c].at = "storing"
    /\ load' = [load EXCEPT ![c] = Idle]
    /\ Shows(c, cache.of)
    /\ UNCHANGED <<wallet, cache, errors, overwritten>>

Stored(c) ==
    /\ load[c].at = "storing"
    /\ load' = [load EXCEPT ![c] = Idle]
    /\ Shows(c, load[c].asks)
    /\ UNCHANGED <<wallet, cache, errors, overwritten>>

\* Mutation: getData answers an error with what it has, be it undefined.
StoreFailsRaw(c) ==
    /\ load[c].at = "storing"
    /\ Error
    /\ load' = [load EXCEPT ![c] = Idle]
    /\ Shows(c, IF load[c].old = NoItem THEN NoItem ELSE load[c].old.of)

(* setItem fails: getData falls back on the item of its beginning.         *)
StoreFails(c) ==
    /\ load[c].at = "storing"
    /\ Error
    /\ load' = [load EXCEPT ![c] = Idle]
    /\ IF load[c].old = NoItem THEN UNCHANGED screen
                               ELSE Shows(c, load[c].old.of)

Expire ==
    /\ cache # NoItem /\ cache.young
    /\ cache' = [cache EXCEPT !.young = FALSE]
    /\ UNCHANGED <<wallet, screen, load, errors, overwritten>>

BalancesNext ==
    \/ WalletsChange \/ Expire
    \/ \E d \in Boards : Mount(d) \/ Unmount(d) \/ Refresh(d)
    \/ \E c \in Loads : Answer(c) \/ Hang(c) \/ Stored(c) \/ StoreFails(c)

BalancesSpec == BalancesInit /\ [][BalancesNext]_balancesVars

(* The intervals fire, getBalance answers unless it hangs, AsyncStorage    *)
(* answers, and time passes.                                               *)
BalancesFairSpec ==
    /\ BalancesSpec
    /\ WF_balancesVars(Expire)
    /\ \A d \in Boards : WF_balancesVars(Refresh(d))
    /\ \A c \in Loads : /\ WF_balancesVars(Answer(c))
                        /\ WF_balancesVars(Stored(c))

-----------------------------------------------------------------------------
(* Although keys name no wallet, a reload may be dropped, and a load of    *)
(* another dashboard, left or still there, may store the balances of an    *)
(* earlier wallet: once the wallets stay, a dashboard comes to show their  *)
(* balances and no others, if no load of its own hangs forever.  The       *)
(* errors are finitely many; with no end of them setItem could fail every  *)
(* time, and every load fall back.                                         *)
OfWallet(d) == screen[d].mounted => screen[d].shown \in {None, wallet}

BalancesOfWallet ==
    \A d \in Boards :
        []<>(load[d].at # "hanging") => <>[]OfWallet(d)

(* The loads of one screen never overtake each other.  Later balances give *)
(* way to those of an earlier wallet in the cache only by a load that was  *)
(* overtaken by one of another dashboard, which was left or is still under *)
(* or above it.  A screen itself goes back only after that has happened,   *)
(* and only if its load falls back or is begun anew for a new wallet: what *)
(* getBalance answers its own loads is never of an earlier wallet than     *)
(* what it shows.                                                          *)
FallsBack(d) ==
    /\ load[d].at = "storing" /\ load[d].old # NoItem
    /\ screen'[d].shown = load[d].old.of

WasOvertaken ==
    \E c \in Loads : /\ load[c].at = "fetching" /\ load'[c].at = "storing"
                     /\ load[c].overtaken

GoesBackOnlyOverwritten ==
    [][/\ cache # NoItem /\ cache'.of < cache.of => WasOvertaken
       /\ \A d \in Boards :
             /\ screen[d].mounted /\ screen'[d].mounted
             /\ screen'[d].shown < screen[d].shown
             => overwritten /\ (FallsBack(d) \/ wallet' # wallet)
      ]_balancesVars

(* Each screen, with hung loads and loads that were left behind it, keeps  *)
(* the steps of ResourceView, as every instance of the hook does in        *)
(* UseCacheManager: the cache and its hook as they are cut down here show  *)
(* nothing that those of that module would not.                            *)
Phase(d) == IF ~ screen[d].mounted THEN "closed"
            ELSE IF load[d] = Idle THEN "idle"
            ELSE IF load[d].force THEN "refreshing" ELSE "loading"

View(d) == INSTANCE ResourceView WITH
               Views <- {d}, Data <- Wallets, NoData <- None,
               phase <- [i \in {d} |-> Phase(i)],
               shown <- [i \in {d} |-> IF screen[i].mounted
                                       THEN screen[i].shown ELSE None]
=============================================================================
