# LETSTOP wallet: a TLA+ development

The application under `src/src` is a React Native wallet of about 5200 lines of
TSX: a stack of screens, a React context that holds the wallets, a cache in
front of AsyncStorage, and a provider for each of three chains.  It is
single-threaded JavaScript.  Almost every operation waits for something (the
Keychain, AsyncStorage, an HTTP server, an RPC node), and the user, the timers
and the other handlers run on while it waits.  The models are about what can
happen between two awaits: an action is one synchronous stretch of JavaScript,
from one await to the next.

The repository has no tests and no documents of its own.  What the code is
meant to do is taken from the code, and from its comments and alerts where a
property quotes one.

## 1. The system

| Part | State it keeps | Operations | What is hard about it |
|---|---|---|---|
| `utils/CacheManager.tsx` | static `cache`, `updateCallbacks`; AsyncStorage behind it | `getData`, `setData`, `getCachedData`, `clearCache`, the callbacks, `initializeCache` at load | `cachedItem` is read before an await and used after it; `setItem` may fail after memory was written; the boot clears and reads the storage while screens write |
| `hooks/useCacheManager.tsx` | `data`, `isLoading`, `isRefreshing`, `isLoadingRef` per instance | load on mount and on a new `fetchFunction`, `refresh` | loads outlive their screen; the ref is a lock that only the finally clause releases |
| `contexts/WalletContext.tsx` | the three wallets, `chainToWallet` | `createWallets`, `importWallets`, `registerWallet`, `getBalance`, `getHistory`, `signTransaction`, ... | several awaits per operation, no lock, nothing rolled back |
| `utils/BlockchainFetcher.tsx` | none (the secrets in the Keychain) | `createWallets`, `isValidRecipient`, `SignTransaction`, `getBalances`, histories | stores two secrets in two calls; swallows some errors, rethrows others |
| `utils/SecretsManager.tsx` | the Keychain | set, get, delete | calls are queued and answered in order, may be rejected |
| `utils/{Solana,VeChain,Ethereum}Provider.tsx` | none | keys, `signTransaction`, balances, past transactions | long chains of RPC calls; one promise that never settles |
| Passcode screen | passcode fields, `retryCount`, `isSuspended` | set, confirm, verify; suspension timers | closures over old counts; overlapping timeouts |
| Initial, ImportWallet, Mnemonics, MnemonicsConfirmation, WalletSettings, `Navigation.tsx` | the stack of screens | create, import, show the phrase, go back | handlers act on whatever screen is focused when they end |
| Transfer screen | the form, `loading`, `modalVisible` | review, confirm, `performTransfer` | runs on after the form was edited or the screen left |
| Convert screen | form, balances, warning | swap, claim, `performConvertion` | several conversions at once, `goBack` at the end of each |
| WalletDashboard screen | three cached resources, `currentPairIndex` | an interval, pull to refresh, switch, navigation | three loads that come, fail and are replaced in any order |
| WalletHistory screen | one cached resource | refresh | errors caught on four levels, each with another outcome; the key of the cache names no wallet |

How they interact: a screen calls the context; the context calls
BlockchainFetcher, which calls the providers and SecretsManager; the dashboard
and the history read through `useCacheManager`, which calls `CacheManager` with
a function of the context to fetch with; handlers end by calling the navigation,
whichever screen is focused by then.  There are no messages and no threads:
the interleavings are those of promises, timers and taps.

What makes each part correct is said in sections 3 and 4, property by property;
`PROJECT.json` lists the hazards they are for, at the lines where they bite.

## 2. The modules

| Module | Models |
|---|---|
| `CacheManager` | the class, with AsyncStorage (external) as a queue of operations that are served in order and may fail |
| `UseCacheManager` | hook instances and their loads; EXTENDS `CacheManager` and drives its actions |
| `ResourceView` | abstract: what a screen may expect of a resource it shows through the hook |
| `Orders` | abstract: what a user may expect of what was confirmed, a transfer or a conversion |
| `WalletSession` | creating and importing wallets, the secrets, the stack of screens, restarts; the Keychain (external) as a queue |
| `PasscodeScreen` | the entry fields, attempts, suspension and timeouts of one Passcode screen |
| `TransferScreen` | the form and every await of `performTransfer`, through the providers to the server |
| `ConvertScreen` | the form, the dialog and every await of `performConvertion` |
| `DashboardScreen` | the three resources of the dashboard, each within what `ResourceView` allows, the interval and the pair index |
| `WalletHistory` | the history end to end: the screen, the hook and the cache, `getHistory`, BlockchainFetcher's two history functions, `getPastTransactions` of the providers; the chain (external) |
| `WalletBalances` | the balances end to end: the wallets of the context, `getBalance`, the cache, the dashboards that show them |
| `MC*` | small instances: constants, symmetry sets |
| `*_proofs` | the theorems of a module and their proofs |

Correspondence with the code (`PROJECT.json`, "map", gives the lines of every
definition):

* **CacheManager.**  `cache` and `disk` map keys to items; the versions of the
  remote data stand for the data.  `GetData` is the code up to the fetch,
  `FetchSucceeds` / `FetchFails` the continuation, `SetItemDone` /
  `SetItemFails` that of `setItem`; both failures fall back on the `cachedItem`
  of the beginning.  `ClearDone`, `GetAllKeysDone`, `MultiGetDone` are
  `initializeCache`.  `FetchHangs` is a fetch that never settles, as
  `SolanaProvider.getBalance` is after an error.  The app itself never registers
  a callback and never clears a key; both are in the model as the class offers
  them.
* **UseCacheManager.**  `StartLoad` is `loadData` up to its await on `getData`,
  `FinishLoad` the rest with the finally clause.  `Mount`, `Reload`, `Refresh`
  are its callers.  An unmounted instance keeps its load: the load still writes
  the cache.  Mounted instances may share a key: a wallet that is created from
  the settings opens a dashboard above the one that is there.
* **ResourceView**, **Orders** stand for no code: they are what a screen may
  expect of a resource, and a user of what was confirmed.  The hook, the history
  and the balances implement the first (`View`), `DashboardScreen` is written
  over it.  Transfers and conversions implement the second (`OrderOf`): an order
  is posted at most once, in the terms that the modal or the dialog said, the
  token included, and in no others, and not after the user was told that it
  failed.  Only some of them are such orders (`IsOrder`): transfers of the one
  token whose address is in `signTransaction`, and conversions of STOP by a
  number.  The code posts the others in other terms than it showed.
* **WalletSession.**  A handler that runs is a task at one of its awaits.  The
  Keychain's calls take effect when they are made and are answered in order: as
  each call sees all earlier ones, no handler can tell the difference.  Wallets
  are named by the phrase their keys derive from.  `Replace`, `Navigate`, `Pop`
  are React Navigation's, applied to the focused screen whoever calls them.
* **PasscodeScreen.**  An attempt carries the `retryCount` of the render that it
  was tapped in, as the closure does.  `Timeout` is one of the timeouts that are
  set; several may be.  After a right attempt the screen stays usable while the
  phrase is read and imported; `Leave` is the end of that.
* **TransferScreen.**  Amounts are parts of a token, so that an amount may be
  fractional; `NaN` is a text that is no number, and compares as in JavaScript.
  A transfer carries the form of the render whose Confirm was tapped (`reviewed`)
  and whether its screen is still mounted (`mine`).  `Mint` is the token whose
  address `signTransaction` has in its code: what it posts is of that token,
  whichever was reviewed.  It need not be one of the screen's tokens.
* **ConvertScreen.**  The same for conversions; `asked` is what the dialog said:
  amount, direction and token.  A screen is opened for one token and the credit
  that names it, so the token stands for both assets.  `RequestFor` is what
  `performConvertion` makes of it: STOP's address if an asset is STOP and else
  none, and null for an amount that is NaN.
* **DashboardScreen.**  `view` says of each resource what it shows and whether a
  load is out.  `WalletsChange` is a render of the provider that gives two of the
  three fetch functions a new identity; `Interval` and `HandleUserRefresh` are
  the refreshes; `Rendered` throws where the code indexes a pair that is not
  there; `GetBalanceFails` is the RPC error after which the promise hangs.
  `OpenSettings`, `Send`, `OpenConvert` and `OpenHistory` leave it mounted below
  another screen; what the settings lead to is `WalletSession`'s.
* **WalletHistory.**  A load is at one of its awaits: the signatures of a token,
  one transaction of it, or the storage.  `Onward` is the loop of
  `getAllTokensHistory` from one token to the next await, with `getTokenHistory`
  for a list of one.  What an error does depends on where it strikes: `Skipped`
  leaves out a transaction, `SignaturesFail` a token, an address that is no key
  the rest of the list, `Caught` everything new.  `screen.filled` is the
  `chainToWallet` that the screen's first render captured: `importWallets` never
  fills it, so `getHistory` throws where it looks an address up.  A transaction is
  named by its token and its place on the chain.
* **WalletBalances.**  Balances are named by the wallet they are of.
  `WalletsChange` is the end of an import or a creation: three setters, which
  React may render one by one, so that the reload may still be for the old Solana
  wallet; a load that is out drops the reload.  There may be several dashboards
  (`Boards`, numbered from the bottom of the stack), because creating a wallet
  from the settings opens another above the first; all are mounted, render with
  every new wallet and refresh, under one key.  The load of a dashboard that was
  left runs on (`Left`) and writes that key, too.  `Hang` is the RPC error after
  which `getBalance` never settles.

## 3. What is checked

Every run but the last two must pass.

| Run | Question | Properties |
|---|---|---|
| `cache` | Two `getData` calls that overlap on a key, the boot, failing fetches and writes, a hanging fetch, a callback, a restart | `NoItemFromEarlierSession`: nothing fetched before the last start is served. `RegisteredHearsDisk`: a registered callback heard what is on disk. `MemoryGoesBackOnlyWhenOvertaken`: memory goes back to older data only when a running fetch was overtaken, or by the boot |
| `hook` | A screen left and opened again while its load runs, refreshes, new fetch functions, expiry | `OneLoadPerHook`, `SpinnersTellTheTruth`, `AnswerNotOlderThanShown`, `CachedOnlyWhileYoung`. `LoadsCanEnd`: a taken lock belongs to a load, and what that load waits for, its fetch, a `setItem` in the queue or its own continuation, is under way |
| `hook_ends` | The same under fairness, with a restart | `EveryLoadEnds`; `ImplementsView`: the hook implements `ResourceView`, its fairness included |
| `session` | Two handlers that overlap in every order, rejected calls, a restart | `SecretsOfOnePhrase`, `WalletOfStoredKey`, `ShownPhraseIsWallet`, `WalletScreensHaveWallet` |
| `passcode` | Overlapping attempts with stale counts, timeouts of several suspensions | `SuspendedAfterThree`: never suspended too early. `SuspensionEnds` |
| `transfer` | Two transfers over a form that is edited, left and opened again; tokens of known and unknown balance on three chains; every kind of recipient and amount | `OneTransferAtATime`, `SentIsCovered`, `LoadingIsOfATransfer`. `SentAsReviewedIfMint`: what is posted has the recipient and the amount of the modal, and its token if and only if that is the fixed one |
| `convert` | Conversions of STOP and of another token that overlap, over a form that is edited, swapped, closed and opened again | `ConvertWithinBalance`. `StopConversionsKeepOrders`: each conversion of STOP by a number is an order of `Orders`, posted at most once, as its dialog said, token included. `ScreenCloses`: a screen with a conversion out closes. `ClosesItsOwn`: a conversion whose screen is there closes that one |
| `dashboard` | Three resources that come, fail and are replaced in every order, with the interval, pulls, switches and the screens opened from it | `PairIsThere`: the pair that is rendered is there, unless the pair was switched before there were any or a list came with fewer pairs. `RefreshesIfLoadsEnd`: the interval refreshes the balances again and again, if their loads end |
| `history` | Histories of a token and of a list, opened, pulled, left and opened again while transactions arrive and errors are swallowed on every level; a token without an account, one of VeChain, one of no chain | `WholeUnlessErrors`: a list that is stored, cached or on a screen, unless an error took something from it, has the newest transfers of each token as of one moment of the load. `NothingVanishes`: a shown transaction goes only past the limit, by an error, or by falling back. `FollowsView`: the screen does what `ResourceView` allows |
| `balances` | Wallets change while loads of two dashboards, one above the other, and of one that was left are out, hang, fail and answer in every order | `BalancesOfWallet`: once the wallets stay and the errors are over, every open dashboard comes to show theirs, if no load of it hangs forever. `GoesBackOnlyOverwritten`: later balances give way to earlier ones only in the answer of a load that another dashboard's overtook, and on a screen only after that |
| `three_attempts` | violation | `ThreeAttempts` |
| `stuck_refresh` | violation | `ForcesRefresh` |

Each passing run also checks the type invariant of its module.

### Where the code differs from what it says

Shown by a run:

* `three_attempts`: `setRetryCount(retryCount + 1)` counts from the render of the
  tap (`Passcode.Screen.tsx:64`), so wrong attempts that overlap count once and a
  fourth is answered; the alert says "out of 3" (`:72`).
* `stuck_refresh`: after one RPC error `getBalance` never settles
  (`SolanaProvider.tsx:527`), so the load of the balances never ends and the
  interval refreshes nothing until the dashboard is mounted again; "This will
  force a refresh" (`WalletDashboard.Screen.tsx:97`).

Met while modelling, in the models as the code has it, without a run:

* `isValidRecipient` throws on a text that is not a base58 key
  (`BlockchainFetcher.tsx:213`) instead of refusing it; "Check is given address
  is valid" (`:207`).  The handler of the review does not catch it.
* A value such as `1.2.3` is `NaN`, passes both checks and is posted as null
  (`Convert.screen.tsx:86`); "Please enter a positive amount" (`:87`).
* A conversion names a token only if an asset is STOP (`Convert.screen.tsx:120`)
  and posts '' otherwise, while its dialog names the assets (`:93`) and
  `getSupportedCredits` has one that converts to B3TR (`WalletContext.tsx:74`).
* Every transfer on Solana is signed and posted for one fixed mint
  (`SolanaProvider.tsx:419`, `:478`), beside which `txn.token` is commented out,
  while the modal shows the token that was chosen (`Transfer.Screen.tsx:246`).
  The check of the amount is against the balance of the chosen one.
* `importWallets` sets no `chainToWallet` (`WalletContext.tsx:146`), so the
  history of an imported wallet throws on every token of Solana or VeChain and
  the screen shows none; after a creation it is the created wallet's.
* Errors of the RPC node are swallowed (`SolanaProvider.tsx:134`, `:141`): an
  incomplete list is cached as a good one for five minutes, and an empty list
  has nothing that could be pulled (`WalletHistory.Screen.tsx:194`).
* The keys of the cache name no wallet: a dashboard shows the balances of the
  wallet before until a load for the new one ends, up to a minute later when the
  reload was dropped.  A load of another dashboard, one that was left or one
  still mounted below it, may store the earlier wallet's balances over the later
  one's, and a dashboard that is opened then shows them first.
* A forced refresh stores its answer with `expirationTime` 0
  (`useCacheManager.tsx:38`): it has expired by the next millisecond, whatever
  "30 days expiration" the screen asked for (`WalletDashboard.Screen.tsx:33`).
* A wallet can be created before there is a passcode (`Initial.Screen.tsx:56`),
  against the comment on line 58.
* No VeChain key is ever stored, so `signTransaction` returns the transaction
  unsigned (`VeChainProvider.tsx:137`); "bf adds user address and signature"
  (`WalletContext.tsx:307`).
* `swapAssets` leaves the warning and the disabled button of the value before
  (`Convert.screen.tsx:47`).
* `BigInt` throws on an amount that is not whole after scaling, so Max of a
  fractional balance on Solana always ends in an error (`SolanaProvider.tsx:448`).
* Every mount of the Passcode screen deletes the passcode and the phrase
  (`Passcode.Screen.tsx:23`), also when a late import mounts it over the screen
  that has yet to show the phrase.
* Send and History dereference `tokensD!` while it may be null
  (`WalletDashboard.Screen.tsx:159`).
* "1 minutes cache expiration" is 5 minutes (`WalletHistory.Screen.tsx:38`).

## 4. Bounds, fairness, symmetry

Every bound is a CONSTANT with a comment that says so, and is in a guard.

* `cache`: one key, two calls, one callback, time and version up to 1, one
  restart, clearing with at most two operations queued.  The properties relate
  items, calls and callbacks of one key, and keys share nothing but the queue;
  two calls are what it takes to overtake one.  5.1 million states.
* `hook`: two instances of one key, two loads, time up to 2 so that an item can be
  young, at its boundary and expired; no restart, which `hook_ends` has.  Both
  instances may be mounted at once.  4.1 million states.
* `session`: two phrases, two tasks, four screens deep, two rejected calls, one
  restart: each hazard named for it needs two tasks and one fault; the second
  fault lets both tasks be cut short.  3.2 million states.
* `passcode`: two attempts at a time, six wrong ones between suspensions, three
  timeouts: enough for two suspensions to overlap.  A right attempt may be among
  them, after which more are made until the screen is replaced.
* `transfer`: two transfers, two Solana addresses (so that a late reading of the
  form can be told), an Ethereum address, one refused, one unreadable, tokens of
  Solana with and without a balance, of which the first is the `Mint`, of VeChain and of Ethereum, amounts whole and
  fractional, covered and not.  3.7 million states.
* `convert`: two conversions, a credit of 3, STOP of 1 and another token of 4, so
  that a swap may go to the smaller or the larger balance, values 0 to 4 and NaN.
  1.2 million states.
* `history`: tokens of Solana with up to three transactions and one, a limit of
  two signatures (so that newer ones push older ones out), one load that was
  left, three transactions and one error in all: the properties speak of one
  error at a time, and of one load overtaking another.  5.0 million states.
* `balances`: three wallets, so that the one before the last is not the first;
  two dashboards, and one load that was left beside them: three loads that can
  answer in any order; one error, so that a load hangs or falls back, which every
  other can run into.  2.1 million states.
* `dashboard`: token lists with no token, a token no credit converts to, one and
  two pairs; two changes of the wallets.

Symmetry is used for model values that are interchangeable (calls, instances,
tasks, transfers, addresses) and only in runs without liveness properties.

Runs say `CHECK_DEADLOCK FALSE` because the bounds end behaviours, and because the
app may stop: a user may do nothing, a handler that threw is gone.

Fairness.  `hook_ends`: AsyncStorage, the fetch functions and JavaScript settle
what was started, each call for itself; the instance has no fetch that hangs
(`CanHang = {}`), which is the assumption `EveryLoadEnds` needs, and
`stuck_refresh` shows what happens without it.  `passcode`: the Keychain answers
and `setTimeout` fires.  `convert`: the Keychain and `fetch` answer or fail.
`dashboard`: `setInterval` fires, and loads answer or fail, but for a load of the
balances after `GetBalanceFails`.  `balances`: the interval fires, `getBalance`
answers unless it hangs, AsyncStorage answers, time passes; that loads hang is
left to `BalancesOfWallet` itself, which assumes they do not do so forever, for
each dashboard.  It also rests on the bound of the errors: were there no end of
them, every `setItem` could fail and every load fall back on what it had.
`history` states no fairness: its loads walk a list of signatures that is fetched
once, so that they end as `EveryLoadEnds` says of a fetch that settles.  Nothing is assumed of the user, of renders or
of the provider: all of that stays unfair.

History variables (`torn`, `overtaken` of the session, `wrong` of the passcode,
`early`, `shrunk` of the dashboard, `overwritten` of the balances, `asked` and
`lossy` of the history, `at`, `ses` of items) record what a property
speaks of and guard no action, except where a bound is put on `wrong`.

## 5. What is proved

The proofs hold for every value of the constants that satisfies the named
assumptions of the module (`BoundsAssumption`, `SessionAssumption`,
`TransferAssumption`, ...), which say that bounds are naturals and that special
values are not data.  TLC evaluates the assumptions on every run.

| Module | Theorems | The inductive invariant, and why it is needed |
|---|---|---|
| `UseCacheManager_proofs`, of `CacheManager` | `CacheTypeCorrect`, `EarlierSessionsForgotten` | `CacheInv`: a queued `setItem` belongs to a call that stores and carries an item of this session; the operations of the boot are in the queue in order, one at a time; once `clear` was answered the disk has only items of this session.  Without these the copy made by `multiGet` could bring back anything |
| `UseCacheManager_proofs`, of `CacheManager` | `CallbacksHearDisk`, `MemoryGoesForward` | `HeardInv`: a callback that is not registered heard nothing.  `TruthInv`: no item in memory, on disk or in the queue, no answer and nothing fallen back on is newer than its source, and the request of a call is no older than what the call saw before it; so older data in memory is always that of a fetch that was overtaken, or the boot's |
| `UseCacheManager_proofs` | `HookTypeCorrect`, `LoadsExcludeEachOther`, `SpinnersRight`, `HooksUseCacheManager`, `HooksForgetEarlierSessions` | `HookInv`: a load that runs holds its instance's lock, and a mounted instance whose lock is taken has one.  `HooksUseCacheManager` is the refinement: every step of the hooks is a step of `CacheManager` or leaves it alone, so that what is proved of the cache holds of it under the hooks |
| `UseCacheManager_proofs` | `NobodyWaitsInVain`, `NoLoadIsLost` | `NothingWaitsInVain` beside `CacheInv`: the `setItem` that is answered is of a call that stores and stops storing with it, and each operation of the boot is appended when the one before is answered, so that serving one takes nothing that another waits for.  For the hooks `LockReleased`, `HookInv`'s lock for screens that are gone as well, beside `ShownInv` |
| `UseCacheManager_proofs` | `AnswersNotOlder`, `CachedWhileYoung`, `HooksImplementView`, `EachHookIsAView` | `ShownInv`: what a screen shows is no newer than the source, and its load asked the source after that was shown.  `YoungInv`: no item anywhere, and no call, has a lifetime above that of its key.  `HooksImplementView` is the second refinement, step by step: the lock of `HookInv` is what makes a hook one view with one load.  `EachHookIsAView` takes one instance out of that: a step of another view leaves it alone, and closing all of them closes it |
| `WalletSession_proofs` | `SessionTypeCorrect`, `WalletBehindEveryScreen` | `SessionInv`: a task that writes has a phrase; a Passcode screen is always the focused one, and sets a passcode only after its effect; without a fault no passcode is there to be verified, so no dashboard comes up without `chainToWallet` |
| `WalletSession_proofs` | `OnePhraseStored`, `StoredKeyOfWallet`, `PhraseShownOfWallet` | `SecretsInv`: the writers are ordered by the secret they are at and, at the same secret, by their place in the Keychain's queue; each secret is of the newest task that called for it.  As every task calls for them in the same order and the queue lets none overtake another, the last to end has all three, and when nobody writes they agree.  The wallets are set by the last answer, which is why `Settled` has to exclude an overtaken import |
| `WalletSession_proofs` | `EveryHandlerIsAnswered` | beside `SecretsInv`, that a handler waits for a call of its own kind (`CallsOf`): the continuations then make the next call or end, and a place in the queue is one handler's only |
| `PasscodeScreen_proofs` | `PasscodeTypeCorrect`, `NeverSuspendedEarly` | `PasscodeInv`: the count on the screen, and the stale count of every attempt under way, are at most the wrong attempts so far |
| `PasscodeScreen_proofs` | `SuspensionsAreTimed` | `SuspensionIsTimed` is inductive beside the types: verifications are asked of a usable screen, so none carries a count above two; the one that carries two suspends and sets its timeout in the same step, and a timeout resets count and suspension together, whichever suspension it was set for |
| `TransferScreen_proofs` | `TransferTypeCorrect`, `TransfersExcludeEachOther`, `LoadingOnlyForTransfers`, `MintSentAsReviewed`, `TransfersCovered` | `TransferInv`: what an open modal shows passed the review and is not loading; a confirmed transfer keeps the values it was reviewed with; past the provider's key check the recipient is a Solana address and the amount a number |
| `ConvertScreen_proofs` | `ConvertTypeCorrect`, `ConversionsCovered`, `StopConversionsAsAsked` | `ConvertInv`: while Convert is enabled the value is covered by the balance of the asset it is from, whichever way the assets stand, and a dialog says such a value |
| `TransferScreen_proofs`, `ConvertScreen_proofs` | `MintTransfersAreOrders`, `StopConversionsAreOrders` | no more than the invariants above: they say that what is posted is what was confirmed, of the token that the code posts; the proof follows each activation from await to await and finds it confirmed, posted and over, in this order, if it is of that token, and no order at all otherwise.  `StopConversionsAsAsked` is the invariant part, stated for itself, and says of the other conversions what they post |
| `ConvertScreen_proofs` | `ConversionsCloseTheirOwn` | `MineIsOpen`: a conversion that runs and whose screen is still there has the focused screen; every `goBack`, of the user or of another conversion, takes the screen from all of them at once |
| `WalletHistory_proofs` | `HistoryTypeCorrect`, `HistoriesWhole`, `ShownStays` | `HistoryInv`: of each token before the one a load is at, its list has the newest transfers as of one moment, of those after it nothing, and of the one it is at those above the places still to come; this is kept while the chain grows because a place never changes what it holds |
| `WalletHistory_proofs` | `HistoryFollowsView` | no more than `HistoryInv` (a load of the screen's own only while it is mounted); each load is followed to its next await or its end, for what the screen shows of it |
| `WalletBalances_proofs` | `BalancesTypeCorrect`, `LoadsInOrder` | `BalancesInv`: nothing is of a wallet yet to come; a load that was not overtaken asks for a wallet no older than the cache's, because who answers overtakes all the others; a screen's own load, and what that may fall back on, ask for none older than is shown; until an overtaken load overwrote it, the cache is no older than any screen and than any answer that is being stored |
| `WalletBalances_proofs` | `BalancesImplementView` | of `BalancesInv`, that a load of a screen's own is out only while it is mounted; a load that hangs keeps its phase, and the loads that were left and the other dashboards change no phase of this one |
| `DashboardScreen_proofs` | `DashTypeCorrect`, `PairRenders` | `DashInv`: until the last resource is there the list is empty, and only index 0 is right for every list that may come then; afterwards the index is below the length of a list that did not shrink |
| `DashboardScreen_proofs` | `HangsFreezeBalances` | `HungIsOut`: a load that will never end is out, and intervals, pulls and new wallets leave a resource alone whose load is out |

Every invariant theorem has the same shape: the initial states satisfy the
invariant, every action keeps it (one lemma or step per action), it implies the
property, and PTL puts the three together.

The same frame gives the refinements: each step of the detailed module, from a
state of its invariant, is a step of the abstract one under the mapping, or
leaves the mapped variables alone.  The secrets of the session have two
invariants, `SessionInv` for the shape of the stack and the tasks and, on top
of it, `SecretsInv`; so have the hooks, so that no proof carries more than it
uses.

Some properties are stated by a theorem and by no run: `UsesCacheManager`,
`NothingWaitsInVain`, `NoHandlerIsForgotten`, `SuspensionIsTimed`,
`MintTransfersKeepOrders`, `PostedAsAskedIfStop` and `HungIsFrozen`, beside the
steps of `ResourceView` that `HooksImplementView`, `EachHookIsAView` and
`BalancesImplementView` speak of.  The theorem says of every instance what a run would say of one,
and the runs keep what no proof covers, or what a fault of the code would show
in a trace.

The safety half of liveness is proved where it has one, what must be there for
fairness to act on: `NoLoadIsLost` for `EveryLoadEnds`, `SuspensionsAreTimed`
for `SuspensionEnds`, `EveryHandlerIsAnswered` for the handlers of the session;
and `HangsFreezeBalances` says why `RefreshesIfLoadsEnd` has to assume that
loads end.

Only model-checked: the liveness properties (`EveryLoadEnds`, `SuspensionEnds`,
`ScreenCloses`, `RefreshesIfLoadsEnd`, `BalancesOfWallet`) and `ImplementsView`,
of which `HooksImplementView` proves all but the fairness: that needs ENABLED,
which the prover does not handle.  Every invariant and every action property of
the passing runs is proved.  No module declares a RECURSIVE operator, so all of
them can be proved about; what a recursive definition computes for every input
would need induction over data, which the installed provers cannot do.

## 6. What is not modelled

* Key derivation, encodings and addresses: a phrase names its keys.
* The wallet that a history is of: `WalletHistory` has one, whose `chainToWallet`
  is filled or not.  That its keys name no wallet is the same defect as in
  `WalletBalances`, which models it.
* The words that are selected in MnemonicsConfirmation, which nothing reads.
* Layout, styles, icons, clipboard, the browser of the history screen, logging.
* The native shell, pods, gems, polyfills and build files: nearly all of the
  repository's files and lines, and none of the wallet's logic.
* The server: whether it recognises a repeated request, or checks a balance.

## 7. Plan

1. A dashboard over three instances of `UseCacheManager` and one cache: that
   their joint steps, of a render, an interval and a pull, are those that
   `DashboardScreen` takes its resources to make.  `EachHookIsAView` gives each
   instance alone, and nothing yet gives the three together.
2. Transfer and Convert over the session's stack and Keychain: which key signs
   after an import, which screen a late `goBack` closes.
3. An abstract store of secrets, one phrase at a time, and the session as its
   implementation while no handler overtakes another.
