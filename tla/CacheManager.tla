---------------------------- MODULE CacheManager ----------------------------
(***************************************************************************)
(* The static class CacheManager (src/src/utils/CacheManager.tsx): an      *)
(* in-memory cache in front of AsyncStorage, the getData calls in flight   *)
(* over it, the update callbacks, and initializeCache, which runs when the *)
(* module is loaded.                                                       *)
(*                                                                         *)
(* An action is one synchronous stretch of JavaScript, from one await to   *)
(* the next.  AsyncStorage (external) serves its operations in the order   *)
(* they were issued: the queue.  Serving an operation and running the      *)
(* continuation of its await is one step, which loses nothing since the    *)
(* answers come back in the order of the operations.                       *)
(*                                                                         *)
(* What a fetch function returns is a version of the remote data: the      *)
(* answer is any version the source had between the request and now.       *)
(***************************************************************************)
EXTENDS Naturals, Sequences

CONSTANTS
    Keys,         \* cache keys: 'dashboard-tokens', 'transactions-all', ...
    Calls,        \* activations of getData, in flight or free
    Callbacks,    \* functions given to registerUpdateCallback
    CanFail,      \* keys whose fetch function may reject
    CanHang,      \* keys whose fetch function may never settle
    Lifetimes,    \* values of the parameter expirationTime
    MaxTime,      \* bound: last value of the clock
    MaxVersion,   \* bound: last version of the remote data
    MaxSession,   \* bound: how often the app is started again
    MaxQueue,     \* bound: no clearCache beyond this many operations in flight
    NoItem,       \* undefined: no entry in the cache or on disk
    NoData        \* null: no data; also "nothing heard yet"

ASSUME BoundsAssumption ==
    {MaxTime, MaxVersion, MaxSession, MaxQueue} \subseteq Nat

ASSUME LifetimesAssumption == Lifetimes \subseteq Nat

ASSUME KeysAssumption == CanFail \subseteq Keys /\ CanHang \subseteq Keys

Version == 0 .. MaxVersion

(* CacheItem<T>; at and ses are history: when and in which session the    *)
(* data was fetched.                                                       *)
Item == [data: Version, expiration: Nat, at: Nat, ses: Nat]

ASSUME NoItemAssumption == NoItem \notin Item
ASSUME NoDataAssumption == NoData \notin Version

VARIABLES
    now,        \* Date.now()
    remote,     \* current version of the data behind each key
    session,    \* how often the app was started
    cache,      \* CacheManager.cache
    disk,       \* what AsyncStorage holds
    queue,      \* AsyncStorage operations issued and not yet answered
    boot,       \* where initializeCache is
    bootKeys,   \* its constant "keys"
    call,       \* the getData activations
    callbacks,  \* CacheManager.updateCallbacks
    heard       \* last value each registered callback was called with

world == <<now, remote, session>>
bootVars == <<boot, bootKeys>>
listeners == <<callbacks, heard>>
cacheVars == <<world, cache, disk, queue, bootVars, call, listeners>>

Present(store, k) == store[k] # NoItem

DataOf(item) == IF item = NoItem THEN NoData ELSE item.data

Idle == [pc |-> "idle"]

(* A call that fetches remembers the item it saw before (cachedItem) and   *)
(* since, the version of the source when the request left.                 *)
Call ==
    [pc: {"idle"}]
    \cup [pc: {"fetching", "hung"}, key: Keys, life: Lifetimes,
          old: Item \cup {NoItem}, since: Version]
    \cup [pc: {"storing"}, key: Keys, life: Lifetimes,
          old: Item \cup {NoItem}, val: Version]
    \cup [pc: {"returned"}, key: Keys, val: Version]
    \cup [pc: {"threw"}, key: Keys]

Operation ==
    [op: {"clear", "getAllKeys", "multiGet"}]
    \cup [op: {"setItem"}, key: Keys, item: Item, call: Calls]
    \cup [op: {"removeItem"}, key: Keys]

CacheTypeOK ==
    /\ now \in Nat
    /\ remote \in [Keys -> Version]
    /\ session \in Nat
    /\ cache \in [Keys -> Item \cup {NoItem}]
    /\ disk \in [Keys -> Item \cup {NoItem}]
    /\ queue \in Seq(Operation)
    /\ boot \in {"clear", "getAllKeys", "multiGet", "done", "failed"}
    /\ bootKeys \subseteq Keys
    /\ call \in [Calls -> Call]
    /\ callbacks \in [Keys -> SUBSET Callbacks]
    /\ heard \in [Keys -> [Callbacks -> Version \cup {NoData, NoItem}]]

-----------------------------------------------------------------------------
(* Loading the module: everything empty, initializeCache has issued clear. *)
Boot ==
    /\ cache' = [k \in Keys |-> NoItem]
    /\ queue' = <<[op |-> "clear"]>>
    /\ boot' = "clear"
    /\ bootKeys' = {}
    /\ call' = [c \in Calls |-> Idle]
    /\ callbacks' = [k \in Keys |-> {}]
    /\ heard' = [k \in Keys |-> [f \in Callbacks |-> NoItem]]

CacheInit ==
    /\ now = 0
    /\ remote = [k \in Keys |-> 0]
    /\ session = 0
    /\ disk = [k \in Keys |-> NoItem]
    /\ cache = [k \in Keys |-> NoItem]
    /\ queue = <<[op |-> "clear"]>>
    /\ boot = "clear"
    /\ bootKeys = {}
    /\ call = [c \in Calls |-> Idle]
    /\ callbacks = [k \in Keys |-> {}]
    /\ heard = [k \in Keys |-> [f \in Callbacks |-> NoItem]]

(* The operating system kills the app and the user starts it again.        *)
Restart ==
    /\ session < MaxSession
    /\ session' = session + 1
    /\ Boot
    /\ UNCHANGED <<now, remote, disk>>

Tick ==
    /\ now < MaxTime
    /\ now' = now + 1
    /\ UNCHANGED <<remote, session, cache, disk, queue, bootVars, call, listeners>>

RemoteChanges(k) ==
    /\ remote[k] < MaxVersion
    /\ remote' = [remote EXCEPT ![k] = @ + 1]
    /\ UNCHANGED <<now, session, cache, disk, queue, bootVars, call, listeners>>

-----------------------------------------------------------------------------
\* Mutation: isExpired only looks whether there is an item.
NeverExpired(k) == ~ Present(cache, k)

(* isExpired compares strictly, getData does not: an item is neither at    *)
(* the instant it expires for the former, and stale for the latter.        *)
IsExpired(k) == Present(cache, k) => now > cache[k].expiration

NeedsFetch(k, life) ==
    (Present(cache, k) /\ life # 0) => cache[k].expiration <= now

(* getData up to its first await: ask the source, or answer at once.       *)
GetData(c, k, life) ==
    /\ call[c].pc = "idle"
    /\ \/ /\ NeedsFetch(k, life)
          /\ call' = [call EXCEPT ![c] = [pc |-> "fetching", key |-> k,
                         life |-> life, old |-> cache[k], since |-> remote[k]]]
       \/ /\ ~ NeedsFetch(k, life)
          /\ call' = [call EXCEPT ![c] = [pc |-> "returned", key |-> k,
                                          val |-> cache[k].data]]
    /\ UNCHANGED <<world, cache, disk, queue, bootVars, listeners>>

Fresh(v, life) ==
    [data |-> v, expiration |-> now + life, at |-> now, ses |-> session]

(* The fetch function resolves: setData writes memory and issues setItem.  *)
FetchSucceeds(c, v) ==
    /\ call[c].pc = "fetching"
    /\ v \in call[c].since .. remote[call[c].key]
    /\ LET k    == call[c].key
           item == Fresh(v, call[c].life)
       IN  /\ cache' = [cache EXCEPT ![k] = item]
           /\ queue' = Append(queue, [op |-> "setItem", key |-> k,
                                      item |-> item, call |-> c])
           /\ call' = [call EXCEPT ![c] = [pc |-> "storing", key |-> k,
                          life |-> @.life, old |-> @.old, val |-> v]]
    /\ UNCHANGED <<world, disk, bootVars, listeners>>

\* Mutation: the catch clause does not test cachedItem.
CaughtUnguarded(c) ==
    [pc |-> "returned", key |-> call[c].key, val |-> DataOf(call[c].old)]

(* The catch clause of getData: fall back on the item seen before.         *)
Caught(c) ==
    IF call[c].old = NoItem
    THEN [pc |-> "threw", key |-> call[c].key]
    ELSE [pc |-> "returned", key |-> call[c].key, val |-> call[c].old.data]

FetchFails(c) ==
    /\ call[c].pc = "fetching"
    /\ call[c].key \in CanFail
    /\ call' = [call EXCEPT ![c] = Caught(c)]
    /\ UNCHANGED <<world, cache, disk, queue, bootVars, listeners>>

FetchHangs(c) ==
    /\ call[c].pc = "fetching"
    /\ call[c].key \in CanHang
    /\ call' = [call EXCEPT ![c].pc = "hung"]
    /\ UNCHANGED <<world, cache, disk, queue, bootVars, listeners>>

(* The caller's await takes the answer.                                    *)
Answered(c) == call[c].pc \in {"returned", "threw"}

TakeAnswer(c) ==
    /\ Answered(c)
    /\ call' = [call EXCEPT ![c] = Idle]
    /\ UNCHANGED <<world, cache, disk, queue, bootVars, listeners>>

-----------------------------------------------------------------------------
ClearCache(k) ==
    /\ Len(queue) < MaxQueue
    /\ cache' = [cache EXCEPT ![k] = NoItem]
    /\ queue' = Append(queue, [op |-> "removeItem", key |-> k])
    /\ UNCHANGED <<world, disk, bootVars, call, listeners>>

RegisterUpdateCallback(k, f) ==
    /\ callbacks' = [callbacks EXCEPT ![k] = @ \cup {f}]
    /\ UNCHANGED <<world, cache, disk, queue, bootVars, call, heard>>

UnregisterUpdateCallback(k, f) ==
    /\ callbacks' = [callbacks EXCEPT ![k] = @ \ {f}]
    /\ heard' = [heard EXCEPT ![k][f] = NoItem]
    /\ UNCHANGED <<world, cache, disk, queue, bootVars, call>>

\* Mutation: callbacks are not told that their data was removed.
NotifiedNonNull(k, data) ==
    [heard EXCEPT ![k] = [f \in Callbacks |->
        IF f \in callbacks[k] /\ data # NoData THEN data ELSE @[f]]]

(* notifyUpdateCallbacks: call every callback of the key with the data.    *)
Notified(k, data) ==
    [heard EXCEPT ![k] =
        [f \in Callbacks |-> IF f \in callbacks[k] THEN data ELSE @[f]]]

-----------------------------------------------------------------------------
(* AsyncStorage answers the operation at the head of the queue.            *)
Serving(op) == queue # <<>> /\ Head(queue).op = op

\* Mutation: setData writes memory after the await as well.
SetItemDoneLateMemory ==
    /\ Serving("setItem")
    /\ LET o == Head(queue)
       IN  /\ disk' = [disk EXCEPT ![o.key] = o.item]
           /\ cache' = [cache EXCEPT ![o.key] = o.item]
           /\ heard' = Notified(o.key, o.item.data)
           /\ call' = [call EXCEPT ![o.call] = [pc |-> "returned",
                                       key |-> o.key, val |-> o.item.data]]
    /\ queue' = Tail(queue)
    /\ UNCHANGED <<world, bootVars, callbacks>>

SetItemDone ==
    /\ Serving("setItem")
    /\ LET o == Head(queue)
       IN  /\ disk' = [disk EXCEPT ![o.key] = o.item]
           /\ heard' = Notified(o.key, o.item.data)
           /\ call' = [call EXCEPT ![o.call] = [pc |-> "returned",
                                       key |-> o.key, val |-> o.item.data]]
    /\ queue' = Tail(queue)
    /\ UNCHANGED <<world, cache, bootVars, callbacks>>

(* setItem rejects after memory was written: getData reports the old item. *)
SetItemFails ==
    /\ Serving("setItem")
    /\ call' = [call EXCEPT ![Head(queue).call] = Caught(Head(queue).call)]
    /\ queue' = Tail(queue)
    /\ UNCHANGED <<world, cache, disk, bootVars, listeners>>

RemoveItemDone ==
    /\ Serving("removeItem")
    /\ disk' = [disk EXCEPT ![Head(queue).key] = NoItem]
    /\ heard' = Notified(Head(queue).key, NoData)
    /\ queue' = Tail(queue)
    /\ UNCHANGED <<world, cache, bootVars, call, callbacks>>

RemoveItemFails ==
    /\ Serving("removeItem")
    /\ queue' = Tail(queue)
    /\ UNCHANGED <<world, cache, disk, bootVars, call, listeners>>

\* Mutation: initializeCache goes on with an uncleared storage.
ClearDoneKeepingDisk ==
    /\ Serving("clear")
    /\ boot' = "getAllKeys"
    /\ queue' = Append(Tail(queue), [op |-> "getAllKeys"])
    /\ UNCHANGED <<world, cache, disk, bootKeys, call, listeners>>

(* initializeCache: clear, getAllKeys, multiGet, then fill the memory.     *)
ClearDone ==
    /\ Serving("clear")
    /\ disk' = [k \in Keys |-> NoItem]
    /\ boot' = "getAllKeys"
    /\ queue' = Append(Tail(queue), [op |-> "getAllKeys"])
    /\ UNCHANGED <<world, cache, bootKeys, call, listeners>>

GetAllKeysDone ==
    /\ Serving("getAllKeys")
    /\ bootKeys' = {k \in Keys : Present(disk, k)}
    /\ boot' = "multiGet"
    /\ queue' = Append(Tail(queue), [op |-> "multiGet"])
    /\ UNCHANGED <<world, cache, disk, call, listeners>>

MultiGetDone ==
    /\ Serving("multiGet")
    /\ cache' = [k \in Keys |-> IF k \in bootKeys /\ Present(disk, k)
                                THEN disk[k] ELSE cache[k]]
    /\ boot' = "done"
    /\ queue' = Tail(queue)
    /\ UNCHANGED <<world, disk, bootKeys, call, listeners>>

BootFails ==
    /\ queue # <<>>
    /\ Head(queue).op \in {"clear", "getAllKeys", "multiGet"}
    /\ boot' = "failed"
    /\ queue' = Tail(queue)
    /\ UNCHANGED <<world, cache, disk, bootKeys, call, listeners>>

StorageAnswers ==
    \/ SetItemDone \/ SetItemFails
    \/ RemoveItemDone \/ RemoveItemFails
    \/ ClearDone \/ GetAllKeysDone \/ MultiGetDone \/ BootFails

FetchSettles(c) ==
    \/ \E v \in Version : FetchSucceeds(c, v)
    \/ FetchFails(c)
    \/ FetchHangs(c)

-----------------------------------------------------------------------------
CacheNext ==
    \/ Restart
    \/ Tick
    \/ \E k \in Keys : RemoteChanges(k)
    \/ \E k \in Keys : ClearCache(k)
    \/ \E c \in Calls, k \in Keys, life \in Lifetimes : GetData(c, k, life)
    \/ \E c \in Calls : FetchSettles(c) \/ TakeAnswer(c)
    \/ \E k \in Keys, f \in Callbacks :
          RegisterUpdateCallback(k, f) \/ UnregisterUpdateCallback(k, f)
    \/ StorageAnswers

CacheSpec == CacheInit /\ [][CacheNext]_cacheVars

-----------------------------------------------------------------------------
(* Nothing fetched before the app was last started is ever served: every   *)
(* item in memory, and every item a call may fall back on, is of this      *)
(* session.  initializeCache reads back what AsyncStorage holds, so this   *)
(* rests on its clear being issued first and answered before its reads,    *)
(* while getData calls are already writing.                                *)
NoItemFromEarlierSession ==
    /\ \A k \in Keys : Present(cache, k) => cache[k].ses = session
    /\ \A c \in Calls :
          /\ call[c].pc \in {"fetching", "hung", "storing"}
          /\ call[c].old # NoItem
          => call[c].old.ses = session

(* A callback that stays registered last heard what AsyncStorage holds for *)
(* its key (null once removed): setData and clearCache notify only after   *)
(* their write was acknowledged, and nobody else writes after the boot.    *)
RegisteredHearsDisk ==
    \A k \in Keys : \A f \in callbacks[k] :
        heard[k][f] # NoItem => heard[k][f] = DataOf(disk[k])

(* Nobody waits for an answer that is not coming: a getData that stores    *)
(* waits for a setItem of its own still in AsyncStorage's queue, and       *)
(* initializeCache for the operation it issued last.                       *)
NothingWaitsInVain ==
    /\ \A c \in Calls : call[c].pc = "storing" =>
          \E j \in 1 .. Len(queue) :
              queue[j].op = "setItem" /\ queue[j].call = c
    /\ boot \notin {"done", "failed"} =>
          \E j \in 1 .. Len(queue) : queue[j].op = boot

(* Memory goes back to older data only when a fetch still running was      *)
(* overtaken by another write of its key, or when initializeCache copies   *)
(* the disk: a getData that runs alone never replaces newer by older.      *)
Overtaken(k) ==
    \E c \in Calls : /\ call[c].pc = "fetching"
                     /\ call[c].key = k
                     /\ call[c].old # cache[k]

MemoryGoesBackOnlyWhenOvertaken ==
    [][\A k \in Keys :
          /\ Present(cache, k) /\ Present(cache', k)
          /\ cache'[k].data < cache[k].data
          => Overtaken(k) \/ Serving("multiGet")]_cacheVars
=============================================================================
