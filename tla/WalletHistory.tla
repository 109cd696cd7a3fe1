---------------------------- MODULE WalletHistory ----------------------------
(***************************************************************************)
(* The history of transactions (src/src/screens/WalletHistory.Screen.tsx)  *)
(* and everything that makes its list: the hook and the cache, getHistory  *)
(* of the WalletContext, the two history functions of BlockchainFetcher    *)
(* and getPastTransactions of the providers.  An error is caught on each   *)
(* of these levels, with another outcome on each: a transaction or a token *)
(* is left out, the rest of the tokens is, or the cached list is shown.    *)
(*                                                                         *)
(* A load waits for the RPC node and for AsyncStorage; what lies between   *)
(* is one step (the derivation of an account is awaited, but of nothing    *)
(* outside JavaScript).  The load of a screen that was left runs on.       *)
(***************************************************************************)
EXTENDS Naturals, Sequences, FiniteSets

CONSTANTS
    Left,         \* names for the loads of screens that were left
    Openings,     \* the tokens a history is opened for: one, or a token list
    Solana, VeChain,  \* the tokens of each chain; there may be others
    Underivable,  \* tokens of Solana whose address is no public key
    All,          \* the key of the history of a token list
    Limit,        \* the signatures that are asked for
    MaxTxns,      \* bound on the transactions of each token
    MaxArrivals,  \* bound on the transactions of all of them
    MaxErrors,    \* bound on the errors of the RPC node and the storage
    NoItem, NoList

Transfer == "transfer"   \* what getValidTransferInstruction looks for
Kinds == {Transfer, "other"}

Own == "own"
Loads == {Own} \cup Left

TokensOf(o) == {o[i] : i \in DOMAIN o}
Tokens == UNION {TokensOf(o) : o \in Openings}

ASSUME HistoryAssumption ==
    /\ Own \notin Left
    /\ Openings \subseteq Seq(Tokens)
    /\ \A o \in Openings : \A i, j \in DOMAIN o : o[i] = o[j] => i = j
    /\ Solana \cap VeChain = {} /\ Underivable \subseteq Solana
    /\ All \notin Tokens
    /\ Limit \in Nat \ {0} /\ MaxErrors \in Nat
    /\ MaxArrivals \in Nat
    /\ MaxTxns \in [Solana -> Nat]

(* A transaction is named by its token and its place on the chain; place 0 *)
(* is the one transaction that the VeChainProvider makes up.               *)
Txn ==
    (UNION {{t} \X (1 .. MaxTxns[t]) : t \in Solana}) \cup (VeChain \X {0})

(* A list of transactions.  History: whether an error left something out.  *)
List == [txns: SUBSET Txn, lossy: BOOLEAN]

ASSUME NotData ==
    /\ NoList \notin List
    /\ NoItem \notin [list: List, young: BOOLEAN]

VARIABLES
    chain,          \* the transactions of each token's account, oldest first
    chainToWallet,  \* createWallets has filled it; importWallets never does
    cache,          \* the items of CacheManager
    screen,         \* the mounted screen: its tokens, its getHistory
    load,           \* the loadData activations, its own and those left
    errors          \* errors so far

historyVars == <<chain, chainToWallet, cache, screen, load, errors>>

Keys == {All} \cup Tokens
KeyOf(o) == IF Len(o) = 1 THEN o[1] ELSE All

Closed == [mounted |-> FALSE]
Mounted == [mounted: {TRUE}, tokens: Openings, filled: BOOLEAN,
            shown: List \cup {NoList}]

Idle == [at |-> "idle"]
Item == [list: List, young: BOOLEAN]
Load == [at: {"signatures", "transactions", "storing"}, tokens: Openings,
         force: BOOLEAN, pos: Nat, places: SUBSET Nat, list: List,
         old: List \cup {NoItem},   \* of cachedItem
         asked: [Solana -> Nat]]
            \* history: the transactions there were when the load began

HistoryTypeOK ==
    /\ chain \in [Solana -> Seq(Kinds)]
    /\ \A t \in Solana : Len(chain[t]) <= MaxTxns[t]
    /\ chainToWallet \in BOOLEAN
    /\ cache \in [Keys -> Item \cup {NoItem}]
    /\ screen \in Mounted \cup {Closed}
    /\ load \in [Loads -> Load \cup {Idle}]
    /\ errors \in 0 .. MaxErrors

HistoryInit ==
    /\ chain = [t \in Solana |-> <<>>]
    /\ chainToWallet = FALSE
    /\ cache = [k \in Keys |-> NoItem]
    /\ screen = Closed
    /\ load = [c \in Loads |-> Idle]
    /\ errors = 0

-----------------------------------------------------------------------------
(* How a load goes on from one await to the next; scr is its screen.       *)

\* Mutation: getData answers an error with what it has, be it undefined.
CaughtRaw(c, scr, ld) ==
    /\ load' = [load EXCEPT ![c] = Idle]
    /\ screen' = IF c # Own THEN scr ELSE [scr EXCEPT !.shown = ld.old]

\* Mutation: the screen answers an error with an empty list.
CaughtEmpty(c, scr, ld) ==
    /\ load' = [load EXCEPT ![c] = Idle]
    /\ screen' = IF c # Own THEN scr
                 ELSE [scr EXCEPT !.shown = [txns |-> {}, lossy |-> FALSE]]

(* getHistory or setItem failed: getData falls back on the item it began   *)
(* with; without one it throws, and loadData leaves what is shown.         *)
Caught(c, scr, ld) ==
    /\ load' = [load EXCEPT ![c] = Idle]
    /\ screen' = IF c # Own \/ ld.old = NoItem THEN scr
                 ELSE [scr EXCEPT !.shown = ld.old]

(* setData writes memory and begins setItem.  An item that a refresh       *)
(* stores has an expirationTime of 0.                                      *)
Store(c, scr, ld, list) ==
    /\ cache' = [cache EXCEPT ![KeyOf(ld.tokens)] =
          [list |-> list, young |-> ~ ld.force]]
    /\ load' = [load EXCEPT ![c] =
          [ld EXCEPT !.at = "storing", !.places = {}, !.list = list]]
    /\ screen' = scr

(* From token ld.pos on: those of VeChain are listed at once, those of     *)
(* other chains passed over, and the next one of Solana is asked for.  If  *)
(* its account cannot be derived, getTokenHistory returns undefined, which *)
(* getHistory cannot spread; getAllTokensHistory returns what it has.      *)
Onward(c, scr, ld) ==
    \E stop \in ld.pos .. Len(ld.tokens) + 1 :
        LET passed == {ld.tokens[i] : i \in ld.pos .. stop - 1}
            list == [ld.list EXCEPT
                        !.txns = @ \cup ((passed \cap VeChain) \X {0})]
        IN  /\ passed \cap Solana = {}
            /\ \/ stop > Len(ld.tokens) /\ Store(c, scr, ld, list)
               \/ /\ stop <= Len(ld.tokens)
                  /\ ld.tokens[stop] \in Solana \ Underivable
                  /\ load' = [load EXCEPT ![c] =
                        [ld EXCEPT !.at = "signatures", !.pos = stop,
                                   !.places = {}, !.list = list]]
                  /\ screen' = scr
                  /\ UNCHANGED cache
               \/ /\ stop <= Len(ld.tokens)
                  /\ ld.tokens[stop] \in Underivable
                  /\ IF Len(ld.tokens) = 1
                     THEN Caught(c, scr, ld) /\ UNCHANGED cache
                     ELSE Store(c, scr, ld, [list EXCEPT !.lossy = TRUE])

(* getData of a load that fetches: getHistory looks the addresses up for   *)
(* all tokens before it asks for any, and throws when there are none.      *)
GetHistory(scr, force) ==
    LET ofSolana == TokensOf(scr.tokens) \cap Solana
        ld == [at |-> "signatures", tokens |-> scr.tokens, force |-> force,
               pos |-> 1, places |-> {},
               list |-> [txns |-> {}, lossy |-> FALSE],
               old |-> IF cache[KeyOf(scr.tokens)] = NoItem THEN NoItem
                       ELSE cache[KeyOf(scr.tokens)].list,
               asked |-> [t \in Solana |-> IF t \in ofSolana
                                           THEN Len(chain[t]) ELSE 0]]
        unasked == TokensOf(scr.tokens) \cap VeChain = {} /\ ofSolana = {}
    IN  IF scr.filled \/ unasked
        THEN Onward(Own, scr, ld)
        ELSE Caught(Own, scr, ld) /\ UNCHANGED cache

-----------------------------------------------------------------------------
(* The user.  One history is mounted at a time; when it is left, its load  *)
(* runs on, and what that would fall back on is for nobody.                *)

(* The first render keeps this getHistory, with the chainToWallet of now:  *)
(* the effect shows the cached list and fetches, unless the list is young. *)
Open(o) ==
    /\ ~ screen.mounted
    /\ LET item == cache[KeyOf(o)]
           scr == [mounted |-> TRUE, tokens |-> o, filled |-> chainToWallet,
                   shown |-> IF item = NoItem THEN NoList ELSE item.list]
       IN  IF item = NoItem \/ ~ item.young
           THEN GetHistory(scr, FALSE)
           ELSE /\ screen' = scr
                /\ UNCHANGED <<cache, load>>
    /\ UNCHANGED <<chain, chainToWallet, errors>>

Close ==
    /\ screen.mounted
    /\ screen' = Closed
    /\ IF load[Own] = Idle THEN UNCHANGED load
       ELSE \E c \in Left :
               /\ load[c] = Idle
               /\ load' = [load EXCEPT ![Own] = Idle,
                              ![c] = [load[Own] EXCEPT !.old = NoItem]]
    /\ UNCHANGED <<chain, chainToWallet, cache, errors>>

\* Mutation: a refresh does not wait for the load that is out.
HandleRefreshUnlocked ==
    /\ screen.mounted
    /\ screen.shown # NoList /\ screen.shown.txns # {}
    /\ GetHistory(screen, TRUE)
    /\ UNCHANGED <<chain, chainToWallet, errors>>

(* Only a list that is not empty can be pulled.  While a load is out,      *)
(* refresh returns at once.                                                *)
HandleRefresh ==
    /\ screen.mounted /\ load[Own] = Idle
    /\ screen.shown # NoList /\ screen.shown.txns # {}
    /\ GetHistory(screen, TRUE)
    /\ UNCHANGED <<chain, chainToWallet, errors>>

-----------------------------------------------------------------------------
(* The RPC node and AsyncStorage.                                          *)
Asked(c) == load[c].tokens[load[c].pos]

Error ==
    /\ errors < MaxErrors /\ errors' = errors + 1
    /\ UNCHANGED <<chain, chainToWallet>>

NextToken(c, list) ==
    Onward(c, screen,
           [load[c] EXCEPT !.pos = @ + 1, !.places = {}, !.list = list])

(* getSignaturesForAddress answers with the newest signatures.             *)
Signatures(c) ==
    /\ load[c].at = "signatures"
    /\ LET n == Len(chain[Asked(c)])
       IN  IF n = 0 THEN NextToken(c, load[c].list)
           ELSE /\ load' = [load EXCEPT ![c] =
                      [@ EXCEPT !.at = "transactions",
                                !.places = {k \in 1 .. n : k + Limit > n}]]
                /\ UNCHANGED <<cache, screen>>
    /\ UNCHANGED <<chain, chainToWallet, errors>>

(* The error is logged, and the token has no transactions.                 *)
SignaturesFail(c) ==
    /\ load[c].at = "signatures"
    /\ Error
    /\ NextToken(c, [load[c].list EXCEPT !.lossy = TRUE])

(* The transaction of signature n has been dealt with, the list is list.   *)
Dealt(c, n, list) ==
    IF load[c].places = {n} THEN NextToken(c, list)
    ELSE /\ load' = [load EXCEPT ![c] =
               [load[c] EXCEPT !.places = @ \ {n}, !.list = list]]
         /\ UNCHANGED <<cache, screen>>

(* The signatures come newest first.                                       *)
IsNext(c, n) ==
    load[c].at = "transactions" /\ \A k \in load[c].places : k <= n

\* Mutation: a transaction that is no transfer ends the loop.
ListedUpToOther(c, n) ==
    /\ IsNext(c, n)
    /\ IF chain[Asked(c)][n] = Transfer
       THEN Dealt(c, n, [load[c].list EXCEPT !.txns = @ \cup {<<Asked(c), n>>}])
       ELSE NextToken(c, load[c].list)
    /\ UNCHANGED <<chain, chainToWallet, errors>>

(* getParsedTransaction and the calls after it answered: a transfer is     *)
(* listed, anything else passed over.                                      *)
Listed(c, n) ==
    /\ IsNext(c, n)
    /\ Dealt(c, n, [load[c].list EXCEPT
          !.txns = IF chain[Asked(c)][n] = Transfer
                   THEN @ \cup {<<Asked(c), n>>} ELSE @])
    /\ UNCHANGED <<chain, chainToWallet, errors>>

(* One of them failed, or the node has no such transaction yet.            *)
Skipped(c, n) ==
    /\ IsNext(c, n)
    /\ Error
    /\ Dealt(c, n, [load[c].list EXCEPT !.lossy = TRUE])

Stored(c) ==
    /\ load[c].at = "storing"
    /\ load' = [load EXCEPT ![c] = Idle]
    /\ screen' = IF c # Own THEN screen
                 ELSE [screen EXCEPT !.shown = load[c].list]
    /\ UNCHANGED <<chain, chainToWallet, cache, errors>>

(* setItem fails: memory keeps the list, the screen gets the one before.   *)
StoreFails(c) ==
    /\ load[c].at = "storing"
    /\ Error
    /\ Caught(c, screen, load[c])
    /\ UNCHANGED cache

-----------------------------------------------------------------------------
(* Elsewhere.                                                              *)
CreateEnds ==
    /\ ~ chainToWallet /\ chainToWallet' = TRUE
    /\ UNCHANGED <<chain, cache, screen, load, errors>>

OnChain == UNION {{t} \X (1 .. Len(chain[t])) : t \in Solana}

Arrives(t, kind) ==
    /\ Len(chain[t]) < MaxTxns[t] /\ Cardinality(OnChain) < MaxArrivals
    /\ chain' = [chain EXCEPT ![t] = Append(@, kind)]
    /\ UNCHANGED <<chainToWallet, cache, screen, load, errors>>

Expires(k) ==
    /\ cache[k] # NoItem /\ cache[k].young
    /\ cache' = [cache EXCEPT ![k].young = FALSE]
    /\ UNCHANGED <<chain, chainToWallet, screen, load, errors>>

(* The await of a load is over.                                            *)
Progress(c) ==
    \/ Signatures(c) \/ SignaturesFail(c)
    \/ load[c] # Idle /\
          \E n \in load[c].places : Listed(c, n) \/ Skipped(c, n)
    \/ Stored(c) \/ StoreFails(c)

HistoryNext ==
    \/ \E o \in Openings : Open(o)
    \/ Close \/ HandleRefresh
    \/ \E c \in Loads : Progress(c)
    \/ CreateEnds
    \/ \E t \in Solana, kind \in Kinds : Arrives(t, kind)
    \/ \E k \in Keys : Expires(k)

HistorySpec == HistoryInit /\ [][HistoryNext]_historyVars

-----------------------------------------------------------------------------
(* The transfers among the newest Limit of the first m transactions of t.  *)
Newest(t, m) ==
    {<<t, n>> : n \in {k \in 1 .. m :
                          k + Limit > m /\ chain[t][k] = Transfer}}

Whole(ld) ==
    \A t \in TokensOf(ld.tokens) \cap Solana :
        \E m \in ld.asked[t] .. Len(chain[t]) :
            {x \in ld.list.txns : x[1] = t} = Newest(t, m)

(* A list is a history of tokens whose lists are kept under key k: of      *)
(* these tokens and, where no error took anything from it, whole as of     *)
(* some moment for each of them.                                           *)
HistoryFor(k, list) ==
    \E o \in Openings :
        /\ KeyOf(o) = k
        /\ \A x \in list.txns : x[1] \in TokensOf(o)
        /\ ~ list.lossy =>
              \A t \in TokensOf(o) :
                  /\ t \in VeChain => <<t, 0>> \in list.txns
                  /\ t \in Solana =>
                        \E m \in 0 .. Len(chain[t]) :
                            {x \in list.txns : x[1] = t} = Newest(t, m)

(* Whatever comes in while a load walks its tokens and their transactions: *)
(* the list that it stores, if no error took anything from it, has of each *)
(* token exactly the newest transfers as of some moment of the load.       *)
(* Whatever is stored late, falls back or is left, what is in the cache    *)
(* and what a screen shows is such a list, of tokens of the same key.      *)
WholeUnlessErrors ==
    /\ \A c \in Loads :
          load[c].at = "storing" /\ ~ load[c].list.lossy => Whole(load[c])
    /\ \A k \in Keys : cache[k] # NoItem => HistoryFor(k, cache[k].list)
    /\ screen.mounted /\ screen.shown # NoList =>
          HistoryFor(KeyOf(screen.tokens), screen.shown)

TxnsOf(list) == IF list = NoList THEN {} ELSE list.txns

(* The list that the load began with, or begins and ends with at once.     *)
FallsBack ==
    \/ load[Own] # Idle /\ screen.shown' = load[Own].old
    \/ /\ load[Own] = Idle /\ cache[KeyOf(screen.tokens)] # NoItem
       /\ screen.shown' = cache[KeyOf(screen.tokens)].list

(* A transaction of a token that a screen is for goes away from it only if *)
(* newer ones push it out of the limit or an error left it out of the new  *)
(* list, unless the screen falls back on an older list.                    *)
NothingVanishes ==
    [][screen.mounted /\ screen'.mounted /\ ~ FallsBack
       /\ ~ (screen.shown' # NoList /\ screen.shown'.lossy) =>
          \A x \in TxnsOf(screen.shown) \ TxnsOf(screen.shown') :
              x[1] \in TokensOf(screen.tokens) =>
                  x[1] \in Solana /\ x[2] + Limit <= Len(chain[x[1]])
      ]_historyVars

(* The screen is what ResourceView says a resource on a screen is.         *)
Phase ==
    IF ~ screen.mounted THEN "closed"
    ELSE IF load[Own] = Idle THEN "idle"
    ELSE IF load[Own].force THEN "refreshing" ELSE "loading"

Shown ==
    IF ~ screen.mounted \/ screen.shown = NoList THEN NoList
    ELSE [txns |-> screen.shown.txns]

View == INSTANCE ResourceView WITH Views <- {Own},
    Data <- [txns: SUBSET Txn], NoData <- NoList,
    phase <- [i \in {Own} |-> Phase], shown <- [i \in {Own} |-> Shown]

FollowsView == View!ViewSteps
=============================================================================
