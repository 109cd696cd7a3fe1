---------------------------- MODULE ResourceView ----------------------------
(***************************************************************************)
(* What a screen may expect of a resource it shows through useCacheManager,*)
(* whatever the cache, the storage and the network do: its data appears    *)
(* when a load begins or ends and never disappears, a refresh leaves it in *)
(* place until the answer, one load runs at a time, and every load ends.   *)
(***************************************************************************)
CONSTANTS Views, Data, NoData

VARIABLES phase, shown

viewVars == <<phase, shown>>

Busy(i) == phase[i] \in {"loading", "refreshing"}

ViewInit ==
    /\ phase = [i \in Views |-> "closed"]
    /\ shown = [i \in Views |-> NoData]

(* A load begins: with nothing to show or with old data, it must fetch;    *)
(* it may also be satisfied, or fail, at once.                             *)
Begin(i, d) ==
    /\ shown' = [shown EXCEPT ![i] = d]
    /\ \/ phase' = [phase EXCEPT ![i] = "loading"]
       \/ phase' = [phase EXCEPT ![i] = "idle"]

Open(i) ==
    /\ phase[i] = "closed"
    /\ \E d \in Data \cup {NoData} : Begin(i, d)

Reload(i) ==
    /\ phase[i] = "idle"
    /\ \E d \in Data \cup {shown[i]} : Begin(i, d)

Refresh(i) ==
    /\ phase[i] = "idle"
    /\ phase' = [phase EXCEPT ![i] = "refreshing"]
    /\ UNCHANGED shown

Settle(i) ==
    /\ Busy(i)
    /\ phase' = [phase EXCEPT ![i] = "idle"]
    /\ \E d \in Data \cup {shown[i]} : shown' = [shown EXCEPT ![i] = d]

Close(i) ==
    /\ phase[i] # "closed"
    /\ phase' = [phase EXCEPT ![i] = "closed"]
    /\ shown' = [shown EXCEPT ![i] = NoData]

(* The app dies: every view closes at once.                                *)
CloseAll ==
    /\ phase' = [i \in Views |-> "closed"]
    /\ shown' = [i \in Views |-> NoData]

ViewNext ==
    \/ \E i \in Views : Open(i) \/ Reload(i) \/ Refresh(i) \/ Settle(i)
                        \/ Close(i)
    \/ CloseAll

ViewSteps == ViewInit /\ [][ViewNext]_viewVars

ViewSpec ==
    /\ ViewSteps
    /\ \A i \in Views : WF_viewVars(Settle(i))
=============================================================================
