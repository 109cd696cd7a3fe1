--------------------------- MODULE UseCacheManager ---------------------------
(***************************************************************************)
(* The hook useCacheManager (src/src/hooks/useCacheManager.tsx) on top of  *)
(* CacheManager: hook instances are mounted and unmounted with their       *)
(* screens, load, and are refreshed, while the loads of instances that are *)
(* gone run on in the background and write the same cache.                 *)
(*                                                                         *)
(* A load is an activation of loadData; it uses the getData activation of  *)
(* the same name.  The await on getCachedData waits for nothing outside    *)
(* JavaScript: what follows it runs before any other event, so loadData up *)
(* to its await on getData is one step.                                    *)
(***************************************************************************)
EXTENDS CacheManager

CONSTANTS
    Hooks,    \* hook instances
    KeyOf,    \* the key each instance is created with
    Life      \* the expirationTime its screen passes for a key

ASSUME HooksAssumption ==
    /\ KeyOf \in [Hooks -> Keys]
    /\ Life \in [Keys -> Lifetimes \ {0}]
    /\ 0 \in Lifetimes

VARIABLES
    hook,     \* the state and the ref of every instance
    load      \* the loadData activations

hookVars == <<hook, load>>
vars == <<cacheVars, hookVars>>

(* What is left of an unmounted instance is its isLoadingRef (locked).     *)
Hook == [mounted: BOOLEAN, data: Version \cup {NoData},
         isLoading: BOOLEAN, isRefreshing: BOOLEAN, locked: BOOLEAN]

Load == [pc: {"idle"}] \cup [pc: {"getting"}, hook: Hooks, force: BOOLEAN]

HookTypeOK ==
    /\ CacheTypeOK
    /\ hook \in [Hooks -> Hook]
    /\ load \in [Calls -> Load]

NewHook == [mounted |-> FALSE, data |-> NoData, isLoading |-> TRUE,
            isRefreshing |-> FALSE, locked |-> FALSE]

Init ==
    /\ CacheInit
    /\ hook = [i \in Hooks |-> NewHook]
    /\ load = [c \in Calls |-> Idle]

LoadOf(c, i) == load[c].pc = "getting" /\ load[c].hook = i

-----------------------------------------------------------------------------
Cached(i) == DataOf(cache[KeyOf[i]])

MustGet(i, force) ==
    force \/ Cached(i) = NoData \/ IsExpired(KeyOf[i])

\* Mutation: loadData does not test isLoadingRef.
MayStartUnlocked(c, h) == load[c].pc = "idle" /\ call[c].pc = "idle"

(* isLoadingRef.current is false, for the instance whose state is h.       *)
MayStart(c, h) == load[c].pc = "idle" /\ call[c].pc = "idle" /\ ~ h.locked

\* Mutation: a load begins by emptying the screen.
ShownBlank(i, h, force) == IF force THEN NoData ELSE Cached(i)

(* What is on screen once a load has begun: the cached data, unless the    *)
(* load is forced.                                                         *)
Shown(i, h, force) ==
    IF ~ force /\ Cached(i) # NoData THEN Cached(i) ELSE h.data

\* Mutation: the flags are reset on success only, not in a finally.
EndedIfReturned(h, answer) ==
    IF answer.pc = "returned"
    THEN [h EXCEPT !.data = answer.val, !.isLoading = FALSE,
                   !.isRefreshing = FALSE, !.locked = FALSE]
    ELSE h

\* Mutation: data is set after an error too.
EndedUndefined(h, answer) ==
    [h EXCEPT !.data = IF answer.pc = "returned" THEN answer.val ELSE NoItem,
              !.isLoading = FALSE, !.isRefreshing = FALSE, !.locked = FALSE]

(* The state after the answer of getData and the finally clause.           *)
Ended(h, answer) ==
    [h EXCEPT !.data = IF answer.pc = "returned" THEN answer.val ELSE @,
              !.isLoading = FALSE, !.isRefreshing = FALSE, !.locked = FALSE]

(* loadData(force) of instance i, whose state is h: show the cached data,  *)
(* then call getData, unless the data is young: then the load ends at once.*)
StartLoad(c, i, h, force) ==
    /\ MayStart(c, h)
    /\ LET begun == [h EXCEPT
               !.data = Shown(i, h, force),
               !.isLoading = @ /\ (force \/ Cached(i) = NoData)]
       IN  \/ /\ MustGet(i, force)
              /\ hook' = [hook EXCEPT ![i] =
                    [begun EXCEPT !.isRefreshing = @ \/ force,
                                  !.locked = TRUE]]
              /\ load' = [load EXCEPT ![c] =
                    [pc |-> "getting", hook |-> i, force |-> force]]
              /\ GetData(c, KeyOf[i], IF force THEN 0 ELSE Life[KeyOf[i]])
           \/ /\ ~ MustGet(i, force)
              /\ hook' = [hook EXCEPT ![i] =
                    Ended(begun, [pc |-> "returned", val |-> begun.data])]
              /\ UNCHANGED <<cacheVars, load>>

(* The first render and its effect.  Two mounted instances may have one    *)
(* key: a dashboard can be on the stack above another.  An instance whose  *)
(* load still runs is not new.                                             *)
Mount(i) ==
    /\ ~ hook[i].mounted
    /\ \A c \in Calls : ~ LoadOf(c, i)
    /\ \E c \in Calls :
          StartLoad(c, i, [NewHook EXCEPT !.mounted = TRUE], FALSE)

Unmount(i) ==
    /\ hook[i].mounted
    /\ hook' = [hook EXCEPT ![i].mounted = FALSE]
    /\ UNCHANGED <<cacheVars, load>>

(* A render gives fetchFunction a new identity: the effect loads again.    *)
(* When a load is running, this and refresh return without effect.         *)
Reload(i) ==
    /\ hook[i].mounted
    /\ \E c \in Calls : StartLoad(c, i, hook[i], FALSE)

Refresh(i) ==
    /\ hook[i].mounted
    /\ \E c \in Calls : StartLoad(c, i, hook[i], TRUE)

(* The answer of getData reaches loadData.  The setters of an unmounted    *)
(* instance have no effect anybody sees.                                   *)
FinishLoad(c) ==
    /\ load[c].pc = "getting"
    /\ TakeAnswer(c)
    /\ hook' = [hook EXCEPT ![load[c].hook] = Ended(@, call[c])]
    /\ load' = [load EXCEPT ![c] = Idle]

AppRestart ==
    /\ Restart
    /\ hook' = [i \in Hooks |-> NewHook]
    /\ load' = [c \in Calls |-> Idle]

(* Steps of the world and of CacheManager that do not involve the hooks.   *)
Background ==
    /\ \/ Tick
       \/ \E k \in Keys : RemoteChanges(k)
       \/ \E c \in Calls : FetchSettles(c)
       \/ StorageAnswers
    /\ UNCHANGED hookVars

Next ==
    \/ \E i \in Hooks : Mount(i) \/ Unmount(i) \/ Reload(i) \/ Refresh(i)
    \/ \E c \in Calls : FinishLoad(c)
    \/ Background
    \/ AppRestart

Spec == Init /\ [][Next]_vars

(* fetch, AsyncStorage and JavaScript settle what was started (but for a   *)
(* fetch function that never does, FetchHangs); nothing obliges the user   *)
(* or a render to do anything.                                             *)
FairSpec ==
    /\ Spec
    /\ WF_vars(StorageAnswers /\ UNCHANGED hookVars)
    /\ \A c \in Calls : /\ WF_vars(FetchSettles(c) /\ UNCHANGED hookVars)
                        /\ WF_vars(FinishLoad(c))

-----------------------------------------------------------------------------
(* isLoadingRef is a lock: no instance ever has two loads in flight, be    *)
(* they started by mounting, a render, the timer or the user.              *)
OneLoadPerHook ==
    \A c, d \in Calls : \A i \in Hooks :
        LoadOf(c, i) /\ LoadOf(d, i) => c = d

(* A mounted screen spins exactly while there is something to wait for:    *)
(* isRefreshing while its forced load runs, isLoading only while a load    *)
(* runs, and the ref is taken exactly while one does.                      *)
SpinnersTellTheTruth ==
    \A i \in Hooks : hook[i].mounted =>
        /\ hook[i].isRefreshing <=>
              \E c \in Calls : LoadOf(c, i) /\ load[c].force
        /\ hook[i].isLoading => \E c \in Calls : LoadOf(c, i)
        /\ hook[i].locked <=> \E c \in Calls : LoadOf(c, i)

(* A load that shows the cached data and leaves it at that shows data at   *)
(* most the screen's lifetime old, whoever stored it: another instance, a  *)
(* forced refresh or initializeCache.                                      *)
CachedOnlyWhileYoung ==
    [][\A i \in Hooks :
          /\ hook'[i].mounted /\ hook'[i] # hook[i]
          /\ ~ hook[i].locked /\ ~ hook'[i].locked
          => /\ hook'[i].data = Cached(i)
             /\ now <= cache[KeyOf[i]].at + Life[KeyOf[i]]]_vars

(* What an instance has fetched is never older than what it shows: a       *)
(* screen goes back to older data only on the fallback of a failed fetch   *)
(* or setItem, never with the answer of the source.                        *)
AnswerNotOlderThanShown ==
    \A c \in Calls, i \in Hooks :
        /\ LoadOf(c, i) /\ hook[i].mounted
        /\ call[c].pc = "storing" /\ hook[i].data # NoData
        => hook[i].data <= call[c].val

(* What every later load of an instance waits for is under way: a taken    *)
(* isLoadingRef, of a screen that is gone as well, belongs to a load whose *)
(* getData has not been forgotten, and that waits for its fetch, for a     *)
(* setItem still in the queue, or only for its own continuation.           *)
LoadsCanEnd ==
    /\ NothingWaitsInVain
    /\ \A i \in Hooks : hook[i].locked => \E c \in Calls : LoadOf(c, i)
    /\ \A c \in Calls : load[c].pc = "getting" => call[c].pc # "idle"

(* Every load ends, so no later load is dropped for ever.  Holds when no   *)
(* fetch function hangs.                                                   *)
EveryLoadEnds == \A i \in Hooks : hook[i].locked ~> ~ hook[i].locked

(* The hook keeps CacheManager's rules: a CacheManager behaviour is left.  *)
UsesCacheManager == CacheSpec

(* The hook implements ResourceView.                                       *)
Phase(i) == IF ~ hook[i].mounted THEN "closed"
            ELSE IF hook[i].isRefreshing THEN "refreshing"
            ELSE IF hook[i].locked THEN "loading" ELSE "idle"

View == INSTANCE ResourceView WITH
            Views <- Hooks, Data <- Version, NoData <- NoData,
            phase <- [i \in Hooks |-> Phase(i)],
            shown <- [i \in Hooks |-> IF hook[i].mounted THEN hook[i].data
                                      ELSE NoData]

ImplementsView == View!ViewSpec

(* Each instance does so by itself, although the others share its cache    *)
(* and may share its key: screens can be modelled one view at a time.      *)
Alone(i) == INSTANCE ResourceView WITH
                Views <- {i}, Data <- Version, NoData <- NoData,
                phase <- [j \in {i} |-> Phase(j)],
                shown <- [j \in {i} |-> IF hook[j].mounted THEN hook[j].data
                                        ELSE NoData]
=============================================================================
