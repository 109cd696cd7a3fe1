----------------------- MODULE UseCacheManager_proofs -----------------------
(***************************************************************************)
(* Proofs about the cache and its hook.                                    *)
(*                                                                         *)
(* CacheManager: type correctness, and the theorem that nothing fetched    *)
(* before the app was last started is ever served.  Both rest on the order *)
(* of the AsyncStorage queue, which the inductive invariant spells out.    *)
(*                                                                         *)
(* A registered callback last heard what AsyncStorage holds; and no item,  *)
(* wherever it is, is newer than its source, so memory goes back to older  *)
(* data only where a running fetch was overtaken.                          *)
(*                                                                         *)
(* useCacheManager keeps the rules of CacheManager, so what is proved of   *)
(* the cache holds under any number of hooks; isLoadingRef is a lock: one  *)
(* load per instance, spinners that match it; cached data left on a screen *)
(* is young, an answer of the source is no older than what is shown; and   *)
(* every step of the hooks is one of ResourceView.                         *)
(***************************************************************************)
EXTENDS UseCacheManager, SequenceTheorems, TLAPS

USE DEF cacheVars, world, bootVars, listeners

(* Every setItem in the queue belongs to a call of its own that waits for  *)
(* it, so its answer finds the call where setData left it.                 *)
StoresHaveTheirCall ==
    /\ \A j \in 1 .. Len(queue) : queue[j].op = "setItem" =>
          /\ call[queue[j].call].pc = "storing"
          /\ queue[j].item.ses = session
    /\ \A i, j \in 1 .. Len(queue) :
          /\ queue[i].op = "setItem" /\ queue[j].op = "setItem"
          /\ queue[i].call = queue[j].call
          => i = j

BootOps == {"clear", "getAllKeys", "multiGet"}

(* The operations of initializeCache come one at a time, and clear comes   *)
(* before everything else.                                                 *)
BootInOrder ==
    /\ \A j \in 1 .. Len(queue) :
          /\ queue[j].op = "clear" => j = 1 /\ boot = "clear"
          /\ queue[j].op \in {"getAllKeys", "multiGet"} =>
                boot = queue[j].op
    /\ \A i, j \in 1 .. Len(queue) :
          queue[i].op \in BootOps /\ queue[j].op \in BootOps => i = j
    /\ boot = "clear" => queue # <<>> /\ Head(queue).op = "clear"

(* Once the storage was cleared, it holds data of this session only.       *)
ClearedDisk ==
    boot \in {"getAllKeys", "multiGet", "done"} =>
        \A k \in Keys : Present(disk, k) => disk[k].ses = session

CacheInv ==
    /\ CacheTypeOK
    /\ StoresHaveTheirCall
    /\ BootInOrder
    /\ ClearedDisk
    /\ NoItemFromEarlierSession

-----------------------------------------------------------------------------
(* What appending one operation to the queue does to its elements.         *)
LEMMA Appended ==
    ASSUME NEW S, NEW q \in Seq(S), NEW x \in S
    PROVE  /\ Append(q, x) \in Seq(S)
           /\ Append(q, x) # <<>>
           /\ Len(Append(q, x)) = Len(q) + 1
           /\ \A j \in 1 .. Len(q) : Append(q, x)[j] = q[j]
           /\ Append(q, x)[Len(q) + 1] = x
           /\ q # <<>> => Head(Append(q, x)) = Head(q)
           /\ Len(q) \in Nat
  <1>1. /\ Append(q, x) \in Seq(S)
        /\ Append(q, x) # <<>>
        /\ Len(Append(q, x)) = Len(q) + 1
        /\ \A j \in 1 .. Len(q) : Append(q, x)[j] = q[j]
        /\ Append(q, x)[Len(q) + 1] = x
    BY AppendProperties
  <1>2. Len(q) \in Nat
    BY LenProperties
  <1>3. q # <<>> => Head(Append(q, x)) = Head(q)
    <2>1. SUFFICES ASSUME q # <<>> PROVE Head(Append(q, x)) = Head(q)
      OBVIOUS
    <2>2. Head(q) = q[1] /\ 1 \in 1 .. Len(q)
      BY <2>1, <1>2, EmptySeq
    <2>3. Head(Append(q, x)) = Append(q, x)[1]
      BY <1>1
    <2>4. QED
      BY <1>1, <2>2, <2>3
  <1>4. QED
    BY <1>1, <1>2, <1>3

(* What answering the head of the queue does to its elements.              *)
LEMMA Served ==
    ASSUME NEW S, NEW q \in Seq(S), q # <<>>
    PROVE  /\ Tail(q) \in Seq(S)
           /\ Len(Tail(q)) = Len(q) - 1
           /\ Len(q) \in Nat /\ Len(q) >= 1
           /\ \A j \in 1 .. Len(Tail(q)) : Tail(q)[j] = q[j + 1]
           /\ Head(q) = q[1]
           /\ Head(q) \in S
  BY LenProperties, EmptySeq, HeadTailProperties

(* The item setData stores.                                                *)
LEMMA FreshItem ==
    ASSUME CacheTypeOK, NEW v \in Version, NEW life \in Lifetimes
    PROVE  /\ Fresh(v, life) \in Item
           /\ Fresh(v, life).data = v
           /\ Fresh(v, life).ses = session
  BY LifetimesAssumption DEF CacheTypeOK, Fresh, Item

(* The catch clause answers with the old item or throws.                   *)
LEMMA CaughtAnswer ==
    ASSUME CacheTypeOK, NEW c \in Calls,
           call[c].pc \in {"fetching", "storing"}
    PROVE  /\ Caught(c) \in Call
           /\ Caught(c).pc \in {"returned", "threw"}
  <1>1. call[c] \in Call
    BY DEF CacheTypeOK
  <1>2. call[c].key \in Keys /\ call[c].old \in Item \cup {NoItem}
    BY <1>1 DEF Call
  <1>3. CASE call[c].old = NoItem
    BY <1>2, <1>3 DEF Caught, Call
  <1>4. CASE call[c].old # NoItem
    <2>1. call[c].old.data \in Version
      BY <1>2, <1>4 DEF Item
    <2>2. QED
      BY <1>2, <1>4, <2>1 DEF Caught, Call
  <1>5. QED
    BY <1>3, <1>4
-----------------------------------------------------------------------------
LEMMA CacheInitially == CacheInit => CacheInv
  <1>1. SUFFICES ASSUME CacheInit PROVE CacheInv
    OBVIOUS
  <1>2. queue = <<[op |-> "clear"]>> /\ Len(queue) = 1 /\ queue # <<>>
        /\ Head(queue) = [op |-> "clear"] /\ queue[1] = [op |-> "clear"]
    BY <1>1 DEF CacheInit
  <1>3. CacheTypeOK
    <2>1. queue \in Seq(Operation)
      BY <1>1 DEF CacheInit, Operation
    <2>2. call \in [Calls -> Call]
      BY <1>1 DEF CacheInit, Call, Idle
    <2>3. 0 \in Version
      BY BoundsAssumption DEF Version
    <2>4. QED
      BY <1>1, <2>1, <2>2, <2>3 DEF CacheInit, CacheTypeOK
  <1>4. StoresHaveTheirCall
    BY <1>2 DEF StoresHaveTheirCall
  <1>5. BootInOrder
    BY <1>1, <1>2 DEF BootInOrder, CacheInit, BootOps
  <1>6. ClearedDisk
    BY <1>1 DEF ClearedDisk, CacheInit
  <1>7. NoItemFromEarlierSession
    BY <1>1 DEF NoItemFromEarlierSession, CacheInit, Present, Idle
  <1>8. QED
    BY <1>3, <1>4, <1>5, <1>6, <1>7 DEF CacheInv

(* A call that is not waiting for its setItem moves on, nothing else does. *)
LEMMA CallMovesOn ==
    ASSUME CacheInv, NEW c \in Calls, call[c].pc # "storing",
           NEW r \in Call, r.pc # "storing",
           r.pc \in {"fetching", "hung"} /\ r.old # NoItem =>
              r.old.ses = session,
           call' = [call EXCEPT ![c] = r],
           UNCHANGED <<now, remote, session, cache, disk, queue, boot,
                       bootKeys, callbacks, heard>>
    PROVE  CacheInv'
  <1> USE DEF CacheInv
  <1>1. CacheTypeOK'
    BY DEF CacheTypeOK
  <1>2. \A j \in 1 .. Len(queue) :
           queue[j].op = "setItem" => queue[j].call # c
    BY DEF StoresHaveTheirCall
  <1>3. \A d \in Calls : d # c => call'[d] = call[d]
    BY DEF CacheTypeOK
  <1>4. \A j \in 1 .. Len(queue) :
           queue[j].op = "setItem" => queue[j].call \in Calls
    <2>1. \A j \in 1 .. Len(queue) : queue[j] \in Operation
      BY ElementOfSeq DEF CacheTypeOK
    <2>2. QED
      BY <2>1 DEF Operation
  <1>5. StoresHaveTheirCall'
    BY <1>2, <1>3, <1>4 DEF StoresHaveTheirCall
  <1>6. BootInOrder'
    BY DEF BootInOrder
  <1>7. ClearedDisk'
    BY DEF ClearedDisk, Present
  <1>8. NoItemFromEarlierSession'
    BY <1>3 DEF NoItemFromEarlierSession, CacheTypeOK, Present
  <1>9. QED
    BY <1>1, <1>5, <1>6, <1>7, <1>8

LEMMA GetDataStep ==
    ASSUME CacheInv, NEW c \in Calls, NEW k \in Keys, NEW life \in Lifetimes,
           GetData(c, k, life)
    PROVE  CacheInv'
  <1>1. CacheTypeOK /\ NoItemFromEarlierSession
    BY DEF CacheInv
  <1>2. cache[k] \in Item \cup {NoItem} /\ remote[k] \in Version
    BY <1>1 DEF CacheTypeOK
  <1>3. CASE NeedsFetch(k, life)
            /\ call' = [call EXCEPT ![c] = [pc |-> "fetching", key |-> k,
                         life |-> life, old |-> cache[k], since |-> remote[k]]]
    <2> DEFINE r == [pc |-> "fetching", key |-> k, life |-> life,
                     old |-> cache[k], since |-> remote[k]]
    <2>1. r \in Call
      BY <1>2 DEF Call
    <2>2. r.old # NoItem => r.old.ses = session
      BY <1>1 DEF NoItemFromEarlierSession, Present
    <2>3. QED
      BY <1>3, <2>1, <2>2, CallMovesOn DEF GetData
  <1>4. CASE ~ NeedsFetch(k, life)
            /\ call' = [call EXCEPT ![c] = [pc |-> "returned", key |-> k,
                                            val |-> cache[k].data]]
    <2> DEFINE r == [pc |-> "returned", key |-> k, val |-> cache[k].data]
    <2>1. cache[k] \in Item
      BY <1>2, <1>4 DEF NeedsFetch, Present
    <2>2. r \in Call
      BY <2>1 DEF Call, Item
    <2>3. QED
      BY <1>4, <2>2, CallMovesOn DEF GetData
  <1>5. QED
    BY <1>3, <1>4 DEF GetData

LEMMA FetchFailsStep ==
    ASSUME CacheInv, NEW c \in Calls, FetchFails(c)
    PROVE  CacheInv'
  <1>1. Caught(c) \in Call /\ Caught(c).pc \in {"returned", "threw"}
    BY CaughtAnswer DEF CacheInv, FetchFails
  <1>2. QED
    BY <1>1, CallMovesOn DEF FetchFails

LEMMA FetchHangsStep ==
    ASSUME CacheInv, NEW c \in Calls, FetchHangs(c)
    PROVE  CacheInv'
  <1> DEFINE r == [call[c] EXCEPT !.pc = "hung"]
  <1>1. call[c] \in Call /\ call[c].pc = "fetching"
    BY DEF CacheInv, CacheTypeOK, FetchHangs
  <1>2. call[c].old # NoItem => call[c].old.ses = session
    BY <1>1 DEF CacheInv, NoItemFromEarlierSession
  <1>3. r \in Call /\ r.pc = "hung" /\ r.old = call[c].old
    BY <1>1 DEF Call
  <1>4. call' = [call EXCEPT ![c] = r]
    BY DEF FetchHangs
  <1>5. QED
    BY <1>1, <1>2, <1>3, <1>4, CallMovesOn DEF FetchHangs

LEMMA TakeAnswerStep ==
    ASSUME CacheInv, NEW c \in Calls, TakeAnswer(c)
    PROVE  CacheInv'
  <1>1. Idle \in Call /\ Idle.pc = "idle"
    BY DEF Idle, Call
  <1>2. QED
    BY <1>1, CallMovesOn DEF TakeAnswer, Answered
-----------------------------------------------------------------------------
(* What is left in the queue once its head is answered.                    *)
LEMMA RestOfQueue ==
    ASSUME CacheInv, queue # <<>>
    PROVE  /\ Tail(queue) \in Seq(Operation)
           /\ Head(queue) \in Operation
           /\ \A j \in 1 .. Len(Tail(queue)) :
                 /\ Tail(queue)[j] \in Operation
                 /\ Tail(queue)[j].op # "clear"
                 /\ Tail(queue)[j].op \in {"getAllKeys", "multiGet"} =>
                       boot = Tail(queue)[j].op
                 /\ ~ (Head(queue).op \in BootOps
                       /\ Tail(queue)[j].op \in BootOps)
                 /\ Tail(queue)[j].op = "setItem" =>
                       /\ call[Tail(queue)[j].call].pc = "storing"
                       /\ Tail(queue)[j].item.ses = session
                       /\ Head(queue).op = "setItem" =>
                             Tail(queue)[j].call # Head(queue).call
           /\ \A i, j \in 1 .. Len(Tail(queue)) :
                 /\ Tail(queue)[i].op = "setItem"
                 /\ Tail(queue)[j].op = "setItem"
                 /\ Tail(queue)[i].call = Tail(queue)[j].call
                 => i = j
           /\ \A i, j \in 1 .. Len(Tail(queue)) :
                 /\ Tail(queue)[i].op \in BootOps
                 /\ Tail(queue)[j].op \in BootOps
                 => i = j
           /\ Head(queue).op = "setItem" =>
                 /\ Head(queue).call \in Calls /\ Head(queue).key \in Keys
                 /\ Head(queue).item \in Item
                 /\ Head(queue).item.ses = session
                 /\ call[Head(queue).call].pc = "storing"
  <1>1. queue \in Seq(Operation)
    BY DEF CacheInv, CacheTypeOK
  <1>2. /\ Tail(queue) \in Seq(Operation)
        /\ Len(Tail(queue)) = Len(queue) - 1
        /\ Len(queue) \in Nat /\ Len(queue) >= 1
        /\ \A j \in 1 .. Len(Tail(queue)) : Tail(queue)[j] = queue[j + 1]
        /\ Head(queue) = queue[1]
        /\ Head(queue) \in Operation
    BY <1>1, Served
  <1>3. \A j \in 1 .. Len(Tail(queue)) : /\ j + 1 \in 1 .. Len(queue)
                                         /\ j + 1 # 1
    BY <1>2
  <1>4. 1 \in 1 .. Len(queue)
    BY <1>2
  <1>5. \A j \in 1 .. Len(Tail(queue)) : Tail(queue)[j] \in Operation
    BY <1>2, ElementOfSeq
  <1>6. ASSUME NEW j \in 1 .. Len(Tail(queue))
        PROVE  /\ Tail(queue)[j].op # "clear"
               /\ Tail(queue)[j].op \in {"getAllKeys", "multiGet"} =>
                     boot = Tail(queue)[j].op
               /\ ~ (Head(queue).op \in BootOps
                     /\ Tail(queue)[j].op \in BootOps)
    BY <1>2, <1>3, <1>4 DEF CacheInv, BootInOrder
  <1>7. ASSUME NEW j \in 1 .. Len(Tail(queue)), Tail(queue)[j].op = "setItem"
        PROVE  /\ call[Tail(queue)[j].call].pc = "storing"
               /\ Tail(queue)[j].item.ses = session
               /\ Head(queue).op = "setItem" =>
                     Tail(queue)[j].call # Head(queue).call
    BY <1>2, <1>3, <1>4, <1>7 DEF CacheInv, StoresHaveTheirCall
  <1>8. ASSUME NEW i \in 1 .. Len(Tail(queue)),
               NEW j \in 1 .. Len(Tail(queue)),
               Tail(queue)[i].op = "setItem", Tail(queue)[j].op = "setItem",
               Tail(queue)[i].call = Tail(queue)[j].call
        PROVE  i = j
    <2>1. i + 1 = j + 1
      BY <1>2, <1>3, <1>8 DEF CacheInv, StoresHaveTheirCall
    <2>2. QED
      BY <2>1, <1>2
  <1>9. ASSUME NEW i \in 1 .. Len(Tail(queue)),
               NEW j \in 1 .. Len(Tail(queue)),
               Tail(queue)[i].op \in BootOps, Tail(queue)[j].op \in BootOps
        PROVE  i = j
    <2>1. i + 1 = j + 1
      BY <1>2, <1>3, <1>9 DEF CacheInv, BootInOrder
    <2>2. QED
      BY <2>1, <1>2
  <1>10. ASSUME Head(queue).op = "setItem"
         PROVE  /\ Head(queue).call \in Calls /\ Head(queue).key \in Keys
                /\ Head(queue).item \in Item
                /\ Head(queue).item.ses = session
                /\ call[Head(queue).call].pc = "storing"
    <2>1. /\ Head(queue).call \in Calls /\ Head(queue).key \in Keys
          /\ Head(queue).item \in Item
      BY <1>2, <1>10 DEF Operation
    <2>2. QED
      BY <1>2, <1>4, <1>10, <2>1 DEF CacheInv, StoresHaveTheirCall
  <1>11. QED
    BY <1>2, <1>5, <1>6, <1>7, <1>8, <1>9, <1>10

LEMMA FetchSucceedsStep ==
    ASSUME CacheInv, NEW c \in Calls, NEW v \in Version, FetchSucceeds(c, v)
    PROVE  CacheInv'
  <1> DEFINE k == call[c].key
             item == Fresh(v, call[c].life)
             o == [op |-> "setItem", key |-> k, item |-> item, call |-> c]
             r == [pc |-> "storing", key |-> k, life |-> call[c].life,
                   old |-> call[c].old, val |-> v]
  <1>1. /\ call[c] \in Call /\ call[c].pc = "fetching"
        /\ queue \in Seq(Operation)
    BY DEF CacheInv, CacheTypeOK, FetchSucceeds
  <1>2. k \in Keys /\ call[c].life \in Lifetimes
    BY <1>1 DEF Call
  <1>3. item \in Item /\ item.ses = session
    BY <1>2, FreshItem DEF CacheInv
  <1>4. o \in Operation
    BY <1>2, <1>3 DEF Operation
  <1>5. r \in Call
    BY <1>1 DEF Call
  <1>6. /\ cache' = [cache EXCEPT ![k] = item]
        /\ queue' = Append(queue, o)
        /\ call' = [call EXCEPT ![c] = r]
        /\ UNCHANGED <<now, remote, session, disk, boot, bootKeys, callbacks,
                       heard>>
    BY DEF FetchSucceeds
  <1>7. /\ queue' \in Seq(Operation)
        /\ queue' # <<>>
        /\ Len(queue') = Len(queue) + 1 /\ Len(queue) \in Nat
        /\ \A j \in 1 .. Len(queue) : queue'[j] = queue[j]
        /\ queue'[Len(queue) + 1] = o
        /\ queue # <<>> => Head(queue') = Head(queue)
    BY <1>1, <1>4, <1>6, Appended
  <1>8. \A j \in 1 .. Len(queue') : j \in 1 .. Len(queue) \/ j = Len(queue) + 1
    BY <1>7
  <1>9. CacheTypeOK'
    BY <1>2, <1>3, <1>5, <1>6, <1>7 DEF CacheInv, CacheTypeOK
  <1>10. \A d \in Calls : call'[d] = IF d = c THEN r ELSE call[d]
    BY <1>6 DEF CacheInv, CacheTypeOK
  <1>11. \A j \in 1 .. Len(queue) : queue[j].op = "setItem" =>
            /\ queue[j].call \in Calls /\ queue[j].call # c
            /\ call[queue[j].call].pc = "storing"
            /\ queue[j].item.ses = session
    <2>1. \A j \in 1 .. Len(queue) : queue[j] \in Operation
      BY <1>1, ElementOfSeq
    <2>2. \A j \in 1 .. Len(queue) :
             queue[j].op = "setItem" => queue[j].call \in Calls
      BY <2>1 DEF Operation
    <2>3. QED
      BY <1>1, <2>2 DEF CacheInv, StoresHaveTheirCall
  <1>12. StoresHaveTheirCall'
    <2>1. ASSUME NEW j \in 1 .. Len(queue'), queue'[j].op = "setItem"
          PROVE  /\ call'[queue'[j].call].pc = "storing"
                 /\ queue'[j].item.ses = session'
      <3>1. CASE j \in 1 .. Len(queue)
        BY <3>1, <2>1, <1>6, <1>7, <1>10, <1>11
      <3>2. CASE j = Len(queue) + 1
        BY <3>2, <1>3, <1>6, <1>7, <1>10
      <3>3. QED
        BY <3>1, <3>2, <1>8
    <2>2. ASSUME NEW i \in 1 .. Len(queue'), NEW j \in 1 .. Len(queue'),
                 queue'[i].op = "setItem", queue'[j].op = "setItem",
                 queue'[i].call = queue'[j].call
          PROVE  i = j
      <3>1. CASE i \in 1 .. Len(queue) /\ j \in 1 .. Len(queue)
        BY <3>1, <2>2, <1>7 DEF CacheInv, StoresHaveTheirCall
      <3>2. CASE i \in 1 .. Len(queue) /\ j = Len(queue) + 1
        BY <3>2, <2>2, <1>7, <1>11
      <3>3. CASE i = Len(queue) + 1 /\ j \in 1 .. Len(queue)
        BY <3>3, <2>2, <1>7, <1>11
      <3>4. CASE i = Len(queue) + 1 /\ j = Len(queue) + 1
        BY <3>4
      <3>5. QED
        BY <3>1, <3>2, <3>3, <3>4, <1>8
    <2>3. QED
      BY <2>1, <2>2 DEF StoresHaveTheirCall
  <1>13. BootInOrder'
    <2>1. \A j \in 1 .. Len(queue') : queue'[j].op \in BootOps =>
             j \in 1 .. Len(queue) /\ queue'[j] = queue[j]
      BY <1>7, <1>8 DEF BootOps
    <2>2. QED
      BY <1>6, <1>7, <2>1 DEF CacheInv, BootInOrder, BootOps
  <1>14. ClearedDisk'
    BY <1>6 DEF CacheInv, ClearedDisk, Present
  <1>15. NoItemFromEarlierSession'
    <2>1. ASSUME NEW l \in Keys, Present(cache', l)
          PROVE  cache'[l].ses = session'
      BY <2>1, <1>3, <1>6
         DEF CacheInv, CacheTypeOK, NoItemFromEarlierSession, Present
    <2>2. ASSUME NEW d \in Calls,
                 call'[d].pc \in {"fetching", "hung", "storing"},
                 call'[d].old # NoItem
          PROVE  call'[d].old.ses = session'
      BY <2>2, <1>1, <1>6, <1>10 DEF CacheInv, NoItemFromEarlierSession
    <2>3. QED
      BY <2>1, <2>2 DEF NoItemFromEarlierSession, Present
  <1>16. QED
    BY <1>9, <1>12, <1>13, <1>14, <1>15 DEF CacheInv
(* The boot operation at the head of the queue is the one boot names.      *)
LEMMA HeadOfBoot ==
    ASSUME CacheInv, queue # <<>>,
           Head(queue).op \in {"getAllKeys", "multiGet"}
    PROVE  boot = Head(queue).op
  <1>1. queue \in Seq(Operation)
    BY DEF CacheInv, CacheTypeOK
  <1>2. 1 \in 1 .. Len(queue) /\ Head(queue) = queue[1]
    BY <1>1, Served
  <1>3. QED
    BY <1>2 DEF CacheInv, BootInOrder

(* An operation is answered, its call (if it has one) is told; what is     *)
(* left of the queue keeps its place.                                      *)
LEMMA QueueMovesOn ==
    ASSUME CacheInv, queue # <<>>, queue' = Tail(queue), session' = session,
           boot' \in {boot, "done", "failed"},
           boot' # boot => Head(queue).op \in BootOps,
           Head(queue).op = "clear" => boot' # "clear",
           \/ call' = call
           \/ /\ Head(queue).op = "setItem"
              /\ \E r \in Call : call' = [call EXCEPT ![Head(queue).call] = r]
    PROVE  StoresHaveTheirCall' /\ BootInOrder'
  <1>1. \A j \in 1 .. Len(Tail(queue)) :
           /\ Tail(queue)[j] \in Operation
           /\ Tail(queue)[j].op = "setItem" => Tail(queue)[j].call \in Calls
    BY RestOfQueue DEF Operation
  <1>2. \A j \in 1 .. Len(Tail(queue)) : Tail(queue)[j].op = "setItem" =>
           call'[Tail(queue)[j].call] = call[Tail(queue)[j].call]
    <2>1. CASE call' = call
      BY <2>1
    <2>2. CASE Head(queue).op = "setItem"
               /\ \E r \in Call : call' = [call EXCEPT ![Head(queue).call] = r]
      BY <2>2, <1>1, RestOfQueue DEF CacheInv, CacheTypeOK
    <2>3. QED
      BY <2>1, <2>2
  <1>3. StoresHaveTheirCall'
    BY <1>1, <1>2, RestOfQueue DEF StoresHaveTheirCall
  <1>4. boot' # "clear"
    <2>1. boot = "clear" => Head(queue).op = "clear"
      BY DEF CacheInv, BootInOrder
    <2>2. QED
      BY <2>1
  <1>5. \A j \in 1 .. Len(Tail(queue)) :
           Tail(queue)[j].op \in {"getAllKeys", "multiGet"} =>
              boot' = Tail(queue)[j].op
    <2>1. CASE boot' = boot
      BY <2>1, RestOfQueue
    <2>2. CASE boot' # boot
      BY <2>2, RestOfQueue DEF BootOps
    <2>3. QED
      BY <2>1, <2>2
  <1>6. BootInOrder'
    BY <1>4, <1>5, RestOfQueue DEF BootInOrder
  <1>7. QED
    BY <1>3, <1>6
LEMMA SetItemDoneStep ==
    ASSUME CacheInv, SetItemDone
    PROVE  CacheInv'
  <1> DEFINE o == Head(queue)
             r == [pc |-> "returned", key |-> o.key, val |-> o.item.data]
  <1>1. /\ queue # <<>> /\ o.op = "setItem"
        /\ o.call \in Calls /\ o.key \in Keys /\ o.item \in Item
        /\ o.item.ses = session
        /\ queue' = Tail(queue) /\ queue' \in Seq(Operation)
    BY RestOfQueue DEF SetItemDone, Serving
  <1>2. r \in Call /\ o.item.data \in Version
    BY <1>1 DEF Call, Item
  <1>3. /\ disk' = [disk EXCEPT ![o.key] = o.item]
        /\ heard' = Notified(o.key, o.item.data)
        /\ call' = [call EXCEPT ![o.call] = r]
        /\ UNCHANGED <<now, remote, session, cache, boot, bootKeys, callbacks>>
    BY DEF SetItemDone
  <1>4. CacheTypeOK'
    <2>1. heard' \in [Keys -> [Callbacks -> Version \cup {NoData, NoItem}]]
      BY <1>1, <1>2, <1>3 DEF CacheInv, CacheTypeOK, Notified
    <2>2. QED
      BY <1>1, <1>2, <1>3, <2>1 DEF CacheInv, CacheTypeOK
  <1>5. StoresHaveTheirCall' /\ BootInOrder'
    BY <1>1, <1>2, <1>3, QueueMovesOn
  <1>6. ClearedDisk'
    BY <1>1, <1>3 DEF CacheInv, CacheTypeOK, ClearedDisk, Present
  <1>7. NoItemFromEarlierSession'
    BY <1>1, <1>3 DEF CacheInv, CacheTypeOK, NoItemFromEarlierSession, Present
  <1>8. QED
    BY <1>4, <1>5, <1>6, <1>7 DEF CacheInv

LEMMA SetItemFailsStep ==
    ASSUME CacheInv, SetItemFails
    PROVE  CacheInv'
  <1> DEFINE c == Head(queue).call
             r == Caught(c)
  <1>1. /\ queue # <<>> /\ Head(queue).op = "setItem" /\ c \in Calls
        /\ call[c].pc = "storing"
        /\ queue' = Tail(queue) /\ queue' \in Seq(Operation)
    BY RestOfQueue DEF SetItemFails, Serving
  <1>2. r \in Call /\ r.pc \in {"returned", "threw"}
    BY <1>1, CaughtAnswer DEF CacheInv
  <1>3. /\ call' = [call EXCEPT ![c] = r]
        /\ UNCHANGED <<now, remote, session, cache, disk, boot, bootKeys,
                       callbacks, heard>>
    BY DEF SetItemFails
  <1>4. CacheTypeOK'
    BY <1>1, <1>2, <1>3 DEF CacheInv, CacheTypeOK
  <1>5. StoresHaveTheirCall' /\ BootInOrder'
    BY <1>1, <1>2, <1>3, QueueMovesOn
  <1>6. ClearedDisk'
    BY <1>3 DEF CacheInv, ClearedDisk, Present
  <1>7. NoItemFromEarlierSession'
    BY <1>1, <1>2, <1>3
       DEF CacheInv, CacheTypeOK, NoItemFromEarlierSession, Present
  <1>8. QED
    BY <1>4, <1>5, <1>6, <1>7 DEF CacheInv

LEMMA RemoveItemStep ==
    ASSUME CacheInv, RemoveItemDone \/ RemoveItemFails
    PROVE  CacheInv'
  <1>1. /\ queue # <<>> /\ Head(queue).op = "removeItem"
        /\ queue' = Tail(queue) /\ queue' \in Seq(Operation)
        /\ Head(queue).key \in Keys
        /\ UNCHANGED <<now, remote, session, cache, boot, bootKeys, call,
                       callbacks>>
    BY RestOfQueue DEF RemoveItemDone, RemoveItemFails, Serving, Operation
  <1>2. /\ \/ disk' = disk
           \/ disk' = [disk EXCEPT ![Head(queue).key] = NoItem]
        /\ \/ heard' = heard
           \/ heard' = Notified(Head(queue).key, NoData)
    BY DEF RemoveItemDone, RemoveItemFails
  <1>3. CacheTypeOK'
    <2>1. disk' \in [Keys -> Item \cup {NoItem}]
      BY <1>1, <1>2 DEF CacheInv, CacheTypeOK
    <2>2. heard' \in [Keys -> [Callbacks -> Version \cup {NoData, NoItem}]]
      <3>1. CASE heard' = heard
        BY <3>1 DEF CacheInv, CacheTypeOK
      <3>2. CASE heard' = Notified(Head(queue).key, NoData)
        BY <3>2, <1>1 DEF CacheInv, CacheTypeOK, Notified
      <3>3. QED
        BY <1>2, <3>1, <3>2
    <2>3. QED
      BY <1>1, <2>1, <2>2 DEF CacheInv, CacheTypeOK
  <1>4. StoresHaveTheirCall' /\ BootInOrder'
    BY <1>1, QueueMovesOn
  <1>5. ClearedDisk'
    BY <1>1, <1>2 DEF CacheInv, CacheTypeOK, ClearedDisk, Present
  <1>6. NoItemFromEarlierSession'
    BY <1>1 DEF CacheInv, NoItemFromEarlierSession, Present
  <1>7. QED
    BY <1>3, <1>4, <1>5, <1>6 DEF CacheInv

(* clear and getAllKeys are answered and issue the next boot operation.    *)
LEMMA NextBootOperation ==
    ASSUME CacheInv, queue # <<>>, Head(queue).op \in BootOps,
           NEW b \in {"getAllKeys", "multiGet"}, boot' = b,
           queue' = Append(Tail(queue), [op |-> b]),
           UNCHANGED <<session, call>>
    PROVE  queue' \in Seq(Operation) /\ StoresHaveTheirCall' /\ BootInOrder'
  <1> DEFINE q == Tail(queue)
  <1>1. q \in Seq(Operation) /\ [op |-> b] \in Operation
    BY RestOfQueue DEF Operation
  <1>2. /\ queue' \in Seq(Operation)
        /\ queue' # <<>>
        /\ Len(queue') = Len(q) + 1 /\ Len(q) \in Nat
        /\ \A j \in 1 .. Len(q) : queue'[j] = q[j]
        /\ queue'[Len(q) + 1] = [op |-> b]
    BY <1>1, Appended
  <1>3. \A j \in 1 .. Len(queue') : j \in 1 .. Len(q) \/ j = Len(q) + 1
    BY <1>2
  <1>4. \A j \in 1 .. Len(queue') :
           /\ queue'[j].op = "setItem" =>
                 j \in 1 .. Len(q) /\ queue'[j] = q[j]
           /\ queue'[j].op \in BootOps =>
                 j = Len(q) + 1 /\ queue'[j].op = b
    <2>1. ASSUME NEW j \in 1 .. Len(q)
          PROVE  queue'[j] = q[j] /\ queue'[j].op \notin BootOps
      BY <1>2, RestOfQueue
    <2>2. queue'[Len(q) + 1].op = b /\ b # "setItem"
      BY <1>2
    <2>3. QED
      BY <1>3, <2>1, <2>2
  <1>5. StoresHaveTheirCall'
    <2>1. ASSUME NEW j \in 1 .. Len(queue'), queue'[j].op = "setItem"
          PROVE  /\ call'[queue'[j].call].pc = "storing"
                 /\ queue'[j].item.ses = session'
      BY <2>1, <1>4, RestOfQueue
    <2>2. ASSUME NEW i \in 1 .. Len(queue'), NEW j \in 1 .. Len(queue'),
                 queue'[i].op = "setItem", queue'[j].op = "setItem",
                 queue'[i].call = queue'[j].call
          PROVE  i = j
      BY <2>2, <1>4, RestOfQueue
    <2>3. QED
      BY <2>1, <2>2 DEF StoresHaveTheirCall
  <1>6. BootInOrder'
    BY <1>2, <1>4 DEF BootInOrder, BootOps
  <1>7. QED
    BY <1>2, <1>5, <1>6

LEMMA ClearDoneStep ==
    ASSUME CacheInv, ClearDone
    PROVE  CacheInv'
  <1>1. queue # <<>> /\ Head(queue).op \in BootOps
    BY DEF ClearDone, Serving, BootOps
  <1>2. queue' \in Seq(Operation) /\ StoresHaveTheirCall' /\ BootInOrder'
    BY <1>1, NextBootOperation DEF ClearDone
  <1>3. CacheTypeOK'
    BY <1>2 DEF CacheInv, CacheTypeOK, ClearDone
  <1>4. ClearedDisk'
    BY DEF ClearedDisk, ClearDone, Present
  <1>5. NoItemFromEarlierSession'
    BY DEF CacheInv, NoItemFromEarlierSession, ClearDone, Present
  <1>6. QED
    BY <1>2, <1>3, <1>4, <1>5 DEF CacheInv

LEMMA GetAllKeysDoneStep ==
    ASSUME CacheInv, GetAllKeysDone
    PROVE  CacheInv'
  <1>1. queue # <<>> /\ Head(queue).op \in BootOps /\ boot = "getAllKeys"
    <2>1. queue # <<>> /\ Head(queue).op = "getAllKeys"
      BY DEF GetAllKeysDone, Serving
    <2>2. QED
      BY <2>1, HeadOfBoot DEF BootOps
  <1>2. queue' \in Seq(Operation) /\ StoresHaveTheirCall' /\ BootInOrder'
    BY <1>1, NextBootOperation DEF GetAllKeysDone
  <1>3. CacheTypeOK'
    BY <1>2 DEF CacheInv, CacheTypeOK, GetAllKeysDone
  <1>4. ClearedDisk'
    BY <1>1 DEF CacheInv, ClearedDisk, GetAllKeysDone, Present
  <1>5. NoItemFromEarlierSession'
    BY DEF CacheInv, NoItemFromEarlierSession, GetAllKeysDone, Present
  <1>6. QED
    BY <1>2, <1>3, <1>4, <1>5 DEF CacheInv

LEMMA MultiGetDoneStep ==
    ASSUME CacheInv, MultiGetDone
    PROVE  CacheInv'
  <1>1. /\ queue # <<>> /\ Head(queue).op = "multiGet"
        /\ boot = "multiGet" /\ boot' = "done"
        /\ queue' = Tail(queue) /\ queue' \in Seq(Operation)
        /\ UNCHANGED <<now, remote, session, disk, bootKeys, call, callbacks,
                       heard>>
    BY HeadOfBoot, RestOfQueue DEF MultiGetDone, Serving, BootOps
  <1>2. \A k \in Keys :
           cache'[k] = IF k \in bootKeys /\ Present(disk, k) THEN disk[k]
                       ELSE cache[k]
    BY DEF MultiGetDone
  <1>3. CacheTypeOK'
    <2>1. cache' \in [Keys -> Item \cup {NoItem}]
      BY DEF CacheInv, CacheTypeOK, MultiGetDone
    <2>2. QED
      BY <1>1, <2>1 DEF CacheInv, CacheTypeOK
  <1>4. StoresHaveTheirCall' /\ BootInOrder'
    BY <1>1, QueueMovesOn DEF BootOps
  <1>5. ClearedDisk'
    BY <1>1 DEF CacheInv, ClearedDisk, Present
  <1>6. NoItemFromEarlierSession'
    BY <1>1, <1>2 DEF CacheInv, ClearedDisk, NoItemFromEarlierSession, Present
  <1>7. QED
    BY <1>3, <1>4, <1>5, <1>6 DEF CacheInv

LEMMA BootFailsStep ==
    ASSUME CacheInv, BootFails
    PROVE  CacheInv'
  <1>1. /\ queue # <<>> /\ Head(queue).op \in BootOps /\ boot' = "failed"
        /\ queue' = Tail(queue) /\ queue' \in Seq(Operation)
        /\ UNCHANGED <<now, remote, session, cache, disk, bootKeys, call,
                       callbacks, heard>>
    BY RestOfQueue DEF BootFails, BootOps
  <1>2. CacheTypeOK'
    BY <1>1 DEF CacheInv, CacheTypeOK
  <1>3. StoresHaveTheirCall' /\ BootInOrder'
    BY <1>1, QueueMovesOn
  <1>4. ClearedDisk'
    BY <1>1 DEF ClearedDisk
  <1>5. NoItemFromEarlierSession'
    BY <1>1 DEF CacheInv, NoItemFromEarlierSession, Present
  <1>6. QED
    BY <1>2, <1>3, <1>4, <1>5 DEF CacheInv
LEMMA ClearCacheStep ==
    ASSUME CacheInv, NEW k \in Keys, ClearCache(k)
    PROVE  CacheInv'
  <1> DEFINE o == [op |-> "removeItem", key |-> k]
  <1>1. queue \in Seq(Operation) /\ o \in Operation
    BY DEF CacheInv, CacheTypeOK, Operation
  <1>2. /\ cache' = [cache EXCEPT ![k] = NoItem]
        /\ queue' = Append(queue, o)
        /\ UNCHANGED <<now, remote, session, disk, boot, bootKeys, call,
                       callbacks, heard>>
    BY DEF ClearCache
  <1>3. /\ queue' \in Seq(Operation)
        /\ queue' # <<>>
        /\ Len(queue') = Len(queue) + 1 /\ Len(queue) \in Nat
        /\ \A j \in 1 .. Len(queue) : queue'[j] = queue[j]
        /\ queue'[Len(queue) + 1] = o
        /\ queue # <<>> => Head(queue') = Head(queue)
    BY <1>1, <1>2, Appended
  <1>4. \A j \in 1 .. Len(queue') :
           queue'[j].op \in BootOps \cup {"setItem"} =>
              j \in 1 .. Len(queue) /\ queue'[j] = queue[j]
    <2>1. \A j \in 1 .. Len(queue') :
             j \in 1 .. Len(queue) \/ j = Len(queue) + 1
      BY <1>3
    <2>2. QED
      BY <1>3, <2>1 DEF BootOps
  <1>5. CacheTypeOK'
    BY <1>2, <1>3 DEF CacheInv, CacheTypeOK
  <1>6. StoresHaveTheirCall'
    BY <1>2, <1>4 DEF CacheInv, StoresHaveTheirCall
  <1>7. BootInOrder'
    BY <1>2, <1>3, <1>4 DEF CacheInv, BootInOrder, BootOps
  <1>8. ClearedDisk'
    BY <1>2 DEF CacheInv, ClearedDisk, Present
  <1>9. NoItemFromEarlierSession'
    BY <1>2 DEF CacheInv, CacheTypeOK, NoItemFromEarlierSession, Present
  <1>10. QED
    BY <1>5, <1>6, <1>7, <1>8, <1>9 DEF CacheInv

(* The clock, the source and the registrations touch nothing the invariant *)
(* speaks of.                                                              *)
LEMMA OtherStep ==
    ASSUME CacheInv,
           \/ Tick
           \/ \E k \in Keys : RemoteChanges(k)
           \/ \E k \in Keys, f \in Callbacks :
                 RegisterUpdateCallback(k, f) \/ UnregisterUpdateCallback(k, f)
           \/ UNCHANGED cacheVars
    PROVE  CacheInv'
  <1>1. UNCHANGED <<session, cache, disk, queue, boot, bootKeys, call>>
    BY DEF Tick, RemoteChanges, RegisterUpdateCallback,
           UnregisterUpdateCallback, cacheVars
  <1>2. now' \in Nat
    BY DEF CacheInv, CacheTypeOK, Tick, RemoteChanges, RegisterUpdateCallback,
           UnregisterUpdateCallback, cacheVars
  <1>3. remote' \in [Keys -> Version]
    BY BoundsAssumption
       DEF CacheInv, CacheTypeOK, Tick, RemoteChanges, RegisterUpdateCallback,
           UnregisterUpdateCallback, cacheVars, Version
  <1>4. /\ callbacks' \in [Keys -> SUBSET Callbacks]
        /\ heard' \in [Keys -> [Callbacks -> Version \cup {NoData, NoItem}]]
    <2>1. CASE Tick \/ (\E k \in Keys : RemoteChanges(k)) \/ UNCHANGED cacheVars
      BY <2>1 DEF CacheInv, CacheTypeOK, Tick, RemoteChanges, cacheVars
    <2>2. ASSUME NEW k \in Keys, NEW f \in Callbacks,
                 RegisterUpdateCallback(k, f)
          PROVE  /\ callbacks' \in [Keys -> SUBSET Callbacks]
                 /\ heard' \in [Keys -> [Callbacks -> Version \cup {NoData, NoItem}]]
      BY <2>2 DEF CacheInv, CacheTypeOK, RegisterUpdateCallback
    <2>3. ASSUME NEW k \in Keys, NEW f \in Callbacks,
                 UnregisterUpdateCallback(k, f)
          PROVE  /\ callbacks' \in [Keys -> SUBSET Callbacks]
                 /\ heard' \in [Keys -> [Callbacks -> Version \cup {NoData, NoItem}]]
      BY <2>3 DEF CacheInv, CacheTypeOK, UnregisterUpdateCallback
    <2>4. QED
      BY <2>1, <2>2, <2>3
  <1>5. CacheTypeOK'
    BY <1>1, <1>2, <1>3, <1>4 DEF CacheInv, CacheTypeOK
  <1>6. QED
    BY <1>1, <1>5
       DEF CacheInv, StoresHaveTheirCall, BootInOrder, ClearedDisk,
           NoItemFromEarlierSession, Present

LEMMA RestartStep ==
    ASSUME CacheInv, Restart
    PROVE  CacheInv'
  <1>1. /\ session' = session + 1
        /\ cache' = [k \in Keys |-> NoItem]
        /\ queue' = <<[op |-> "clear"]>>
        /\ boot' = "clear"
        /\ bootKeys' = {}
        /\ call' = [c \in Calls |-> Idle]
        /\ callbacks' = [k \in Keys |-> {}]
        /\ heard' = [k \in Keys |-> [f \in Callbacks |-> NoItem]]
        /\ UNCHANGED <<now, remote, disk>>
    BY DEF Restart, Boot
  <1>2. /\ Len(queue') = 1 /\ queue' # <<>>
        /\ Head(queue') = [op |-> "clear"] /\ queue'[1] = [op |-> "clear"]
    BY <1>1
  <1>3. CacheTypeOK'
    <2>1. queue' \in Seq(Operation)
      BY <1>1 DEF Operation
    <2>2. call' \in [Calls -> Call]
      BY <1>1 DEF Call, Idle
    <2>3. QED
      BY <1>1, <2>1, <2>2 DEF CacheInv, CacheTypeOK
  <1>4. StoresHaveTheirCall'
    BY <1>2 DEF StoresHaveTheirCall
  <1>5. BootInOrder'
    BY <1>1, <1>2 DEF BootInOrder, BootOps
  <1>6. ClearedDisk'
    BY <1>1 DEF ClearedDisk
  <1>7. NoItemFromEarlierSession'
    BY <1>1 DEF NoItemFromEarlierSession, Present, Idle
  <1>8. QED
    BY <1>3, <1>4, <1>5, <1>6, <1>7 DEF CacheInv

-----------------------------------------------------------------------------
(* Every step of the cache keeps the invariant.                            *)
LEMMA CacheInductive == CacheInv /\ [CacheNext]_cacheVars => CacheInv'
  <1>1. SUFFICES ASSUME CacheInv, [CacheNext]_cacheVars PROVE CacheInv'
    OBVIOUS
  <1>2. CASE Restart
    BY <1>1, <1>2, RestartStep
  <1>3. CASE \/ Tick
             \/ \E k \in Keys : RemoteChanges(k)
             \/ \E k \in Keys, f \in Callbacks :
                   RegisterUpdateCallback(k, f)
                   \/ UnregisterUpdateCallback(k, f)
             \/ UNCHANGED cacheVars
    BY <1>1, <1>3, OtherStep
  <1>4. ASSUME NEW k \in Keys, ClearCache(k) PROVE CacheInv'
    BY <1>1, <1>4, ClearCacheStep
  <1>5. ASSUME NEW c \in Calls, NEW k \in Keys, NEW life \in Lifetimes,
               GetData(c, k, life)
        PROVE  CacheInv'
    BY <1>1, <1>5, GetDataStep
  <1>6. ASSUME NEW c \in Calls, FetchSettles(c) PROVE CacheInv'
    BY <1>1, <1>6, FetchSucceedsStep, FetchFailsStep, FetchHangsStep
       DEF FetchSettles
  <1>7. ASSUME NEW c \in Calls, TakeAnswer(c) PROVE CacheInv'
    BY <1>1, <1>7, TakeAnswerStep
  <1>8. CASE StorageAnswers
    BY <1>1, <1>8, SetItemDoneStep, SetItemFailsStep, RemoveItemStep,
       ClearDoneStep, GetAllKeysDoneStep, MultiGetDoneStep, BootFailsStep
       DEF StorageAnswers
  <1>9. QED
    BY <1>1, <1>2, <1>3, <1>4, <1>5, <1>6, <1>7, <1>8 DEF CacheNext

(* CacheManager and AsyncStorage keep the types of their state; that the   *)
(* answer to a setItem finds its call waiting is part of it.               *)
THEOREM CacheTypeCorrect == CacheSpec => []CacheTypeOK
  <1>1. CacheInv => CacheTypeOK
    BY DEF CacheInv
  <1>2. QED
    BY <1>1, CacheInitially, CacheInductive, PTL DEF CacheSpec

(* Nothing fetched before the app was last started is ever served, however *)
(* many calls run while initializeCache does, and whatever AsyncStorage    *)
(* still holds.                                                            *)
THEOREM EarlierSessionsForgotten == CacheSpec => []NoItemFromEarlierSession
  <1>1. CacheInv => NoItemFromEarlierSession
    BY DEF CacheInv
  <1>2. QED
    BY <1>1, CacheInitially, CacheInductive, PTL DEF CacheSpec

-----------------------------------------------------------------------------
(* The hooks.                                                              *)

(* A step of a hook is a step of CacheManager or leaves it alone.          *)
LEMMA StartLoadIsGetData ==
    ASSUME NEW c \in Calls, NEW i \in Hooks, NEW h, NEW force \in BOOLEAN,
           StartLoad(c, i, h, force)
    PROVE  [CacheNext]_cacheVars
  <1>1. KeyOf[i] \in Keys
    BY HooksAssumption
  <1>2. (IF force THEN 0 ELSE Life[KeyOf[i]]) \in Lifetimes
    BY <1>1, HooksAssumption
  <1>3. CASE GetData(c, KeyOf[i], IF force THEN 0 ELSE Life[KeyOf[i]])
    BY <1>1, <1>2, <1>3 DEF CacheNext
  <1>4. CASE UNCHANGED cacheVars
    BY <1>4
  <1>5. QED
    BY <1>3, <1>4 DEF StartLoad

LEMMA HookStepIsCacheStep == [Next]_vars => [CacheNext]_cacheVars
  <1>1. SUFFICES ASSUME [Next]_vars PROVE [CacheNext]_cacheVars
    OBVIOUS
  <1>2. ASSUME NEW i \in Hooks, Mount(i) \/ Reload(i) \/ Refresh(i)
        PROVE  [CacheNext]_cacheVars
    BY <1>2, StartLoadIsGetData DEF Mount, Reload, Refresh
  <1>3. ASSUME NEW i \in Hooks, Unmount(i)
        PROVE  [CacheNext]_cacheVars
    BY <1>3 DEF Unmount
  <1>4. ASSUME NEW c \in Calls, FinishLoad(c)
        PROVE  [CacheNext]_cacheVars
    BY <1>4 DEF FinishLoad, CacheNext
  <1>5. CASE Background
    BY <1>5 DEF Background, CacheNext
  <1>6. CASE AppRestart
    BY <1>6 DEF AppRestart, CacheNext
  <1>7. CASE UNCHANGED vars
    BY <1>7 DEF vars
  <1>8. QED
    BY <1>1, <1>2, <1>3, <1>4, <1>5, <1>6, <1>7 DEF Next

(* The hooks use CacheManager as its specification allows.                 *)
THEOREM HooksUseCacheManager == Spec => UsesCacheManager
  <1>1. Init => CacheInit
    BY DEF Init
  <1>2. QED
    BY <1>1, HookStepIsCacheStep, PTL DEF Spec, CacheSpec, UsesCacheManager

(* No screen is ever served data fetched before the app was last started.  *)
THEOREM HooksForgetEarlierSessions == Spec => []NoItemFromEarlierSession
  BY HooksUseCacheManager, EarlierSessionsForgotten, PTL DEF UsesCacheManager

-----------------------------------------------------------------------------
(* The ref is taken while a load runs, mounted or not, and not longer.     *)
LockHeld ==
    \A i \in Hooks :
        /\ (\E c \in Calls : LoadOf(c, i)) => hook[i].locked
        /\ hook[i].mounted /\ hook[i].locked => \E c \in Calls : LoadOf(c, i)

HookInv ==
    /\ CacheInv
    /\ hook \in [Hooks -> Hook]
    /\ load \in [Calls -> Load]
    /\ OneLoadPerHook
    /\ LockHeld
    /\ SpinnersTellTheTruth

LEMMA HookInitially == Init => HookInv
  <1>1. SUFFICES ASSUME Init PROVE HookInv
    OBVIOUS
  <1>2. CacheInv
    BY <1>1, CacheInitially DEF Init
  <1>3. NewHook \in Hook /\ ~ NewHook.mounted /\ ~ NewHook.locked
    BY DEF NewHook, Hook
  <1>4. Idle \in Load /\ Idle.pc = "idle"
    BY DEF Idle, Load
  <1>5. QED
    BY <1>1, <1>2, <1>3, <1>4
       DEF Init, HookInv, OneLoadPerHook, LockHeld, SpinnersTellTheTruth, LoadOf

(* What a load shows of the cache is data or nothing.                      *)
LEMMA CachedType ==
    ASSUME CacheInv, NEW i \in Hooks
    PROVE  Cached(i) \in Version \cup {NoData}
  <1>1. KeyOf[i] \in Keys
    BY HooksAssumption
  <1>2. cache[KeyOf[i]] \in Item \cup {NoItem}
    BY <1>1 DEF CacheInv, CacheTypeOK
  <1>3. QED
    BY <1>2 DEF Cached, DataOf, Item

(* A load begins on an instance that has none.                             *)
LEMMA StartLoadStep ==
    ASSUME HookInv, NEW c \in Calls, NEW i \in Hooks, NEW h \in Hook,
           NEW force \in BOOLEAN, h.mounted, ~ h.isRefreshing,
           \A d \in Calls : ~ LoadOf(d, i),
           StartLoad(c, i, h, force)
    PROVE  HookInv'
  <1>1. CacheInv'
    BY StartLoadIsGetData, CacheInductive DEF HookInv
  <1> DEFINE begun == [h EXCEPT !.data = Shown(i, h, force),
                         !.isLoading = @ /\ (force \/ Cached(i) = NoData)]
  <1>2. /\ begun \in Hook
        /\ begun.mounted /\ ~ begun.isRefreshing /\ begun.locked = h.locked
    BY CachedType DEF HookInv, Hook, Shown
  <1>3. load[c].pc = "idle" /\ ~ h.locked
    BY DEF StartLoad, MayStart
  <1>4. CASE /\ hook' = [hook EXCEPT ![i] =
                    [begun EXCEPT !.isRefreshing = @ \/ force,
                                  !.locked = TRUE]]
             /\ load' = [load EXCEPT ![c] =
                    [pc |-> "getting", hook |-> i, force |-> force]]
    <2> DEFINE g == [begun EXCEPT !.isRefreshing = @ \/ force, !.locked = TRUE]
               l == [pc |-> "getting", hook |-> i, force |-> force]
    <2>1. g \in Hook /\ g.mounted /\ g.locked /\ g.isRefreshing = force
      BY <1>2 DEF Hook
    <2>2. l \in Load
      BY DEF Load
    <2>3. hook' \in [Hooks -> Hook] /\ load' \in [Calls -> Load]
      BY <1>4, <2>1, <2>2 DEF HookInv
    <2>4. \A j \in Hooks : hook'[j] = IF j = i THEN g ELSE hook[j]
      BY <1>4 DEF HookInv
    <2>5. \A d \in Calls : load'[d] = IF d = c THEN l ELSE load[d]
      BY <1>4 DEF HookInv
    <2>6. \A d \in Calls, j \in Hooks :
             LoadOf(d, j)' <=> (d = c /\ j = i) \/ (LoadOf(d, j) /\ j # i)
      BY <1>3, <2>5 DEF LoadOf
    <2>7. OneLoadPerHook'
      BY <2>6 DEF HookInv, OneLoadPerHook
    <2>8. LockHeld'
      BY <2>1, <2>4, <2>6 DEF HookInv, LockHeld
    <2>9. SpinnersTellTheTruth'
      <3>1. ASSUME NEW j \in Hooks, j # i, hook'[j].mounted
            PROVE  /\ hook'[j].isRefreshing <=>
                         \E d \in Calls : LoadOf(d, j)' /\ load'[d].force
                   /\ hook'[j].isLoading => \E d \in Calls : LoadOf(d, j)'
                   /\ hook'[j].locked <=> \E d \in Calls : LoadOf(d, j)'
        <4>1. hook'[j] = hook[j]
          BY <2>4, <3>1
        <4>2. \A d \in Calls :
                 /\ LoadOf(d, j)' <=> LoadOf(d, j)
                 /\ LoadOf(d, j) => load'[d] = load[d]
          BY <1>3, <2>5, <2>6, <3>1 DEF LoadOf
        <4>3. QED
          BY <3>1, <4>1, <4>2 DEF HookInv, SpinnersTellTheTruth
      <3>2. /\ hook'[i].isRefreshing <=>
                  \E d \in Calls : LoadOf(d, i)' /\ load'[d].force
            /\ hook'[i].isLoading => \E d \in Calls : LoadOf(d, i)'
            /\ hook'[i].locked <=> \E d \in Calls : LoadOf(d, i)'
        <4>1. \A d \in Calls : LoadOf(d, i)' <=> d = c
          BY <2>6
        <4>2. load'[c].force = force
          BY <2>5
        <4>3. hook'[i] = g
          BY <2>4
        <4>4. QED
          BY <2>1, <4>1, <4>2, <4>3
      <3>3. QED
        BY <3>1, <3>2 DEF SpinnersTellTheTruth
    <2>10. QED
      BY <1>1, <2>3, <2>7, <2>8, <2>9 DEF HookInv
  <1>5. CASE /\ hook' = [hook EXCEPT ![i] =
                    Ended(begun, [pc |-> "returned", val |-> begun.data])]
             /\ UNCHANGED load
    <2> DEFINE g == Ended(begun, [pc |-> "returned", val |-> begun.data])
    <2>1. g \in Hook /\ g.mounted /\ ~ g.locked /\ ~ g.isRefreshing
          /\ ~ g.isLoading
      BY <1>2 DEF Hook, Ended
    <2>2. hook' \in [Hooks -> Hook] /\ load' = load
      BY <1>5, <2>1 DEF HookInv
    <2>3. \A j \in Hooks : hook'[j] = IF j = i THEN g ELSE hook[j]
      BY <1>5 DEF HookInv
    <2>4. OneLoadPerHook'
      BY <2>2 DEF HookInv, OneLoadPerHook, LoadOf
    <2>5. LockHeld'
      BY <2>1, <2>2, <2>3 DEF HookInv, LockHeld, LoadOf
    <2>6. SpinnersTellTheTruth'
      BY <2>1, <2>2, <2>3 DEF HookInv, SpinnersTellTheTruth, LoadOf
    <2>7. QED
      BY <1>1, <2>2, <2>4, <2>5, <2>6 DEF HookInv
  <1>6. QED
    BY <1>4, <1>5 DEF StartLoad
LEMMA MountStep ==
    ASSUME HookInv, NEW i \in Hooks, Mount(i)
    PROVE  HookInv'
  <1> DEFINE h == [NewHook EXCEPT !.mounted = TRUE]
  <1>1. h \in Hook /\ h.mounted /\ ~ h.isRefreshing
    BY DEF NewHook, Hook
  <1>2. PICK c \in Calls : StartLoad(c, i, h, FALSE)
    BY DEF Mount
  <1>3. \A d \in Calls : ~ LoadOf(d, i)
    BY DEF Mount
  <1>4. QED
    BY <1>1, <1>2, <1>3, StartLoadStep

LEMMA ReloadRefreshStep ==
    ASSUME HookInv, NEW i \in Hooks, Reload(i) \/ Refresh(i)
    PROVE  HookInv'
  <1>1. PICK c \in Calls, force \in BOOLEAN : StartLoad(c, i, hook[i], force)
    BY DEF Reload, Refresh
  <1>2. hook[i] \in Hook /\ hook[i].mounted
    BY DEF HookInv, Reload, Refresh
  <1>3. ~ hook[i].locked
    BY <1>1 DEF StartLoad, MayStart
  <1>4. \A d \in Calls : ~ LoadOf(d, i)
    BY <1>3 DEF HookInv, LockHeld
  <1>5. ~ hook[i].isRefreshing
    BY <1>2, <1>4 DEF HookInv, SpinnersTellTheTruth, Hook
  <1>6. QED
    BY <1>1, <1>2, <1>4, <1>5, StartLoadStep

LEMMA UnmountStep ==
    ASSUME HookInv, NEW i \in Hooks, Unmount(i)
    PROVE  HookInv'
  <1>1. CacheInv'
    BY CacheInductive DEF HookInv, Unmount
  <1> DEFINE g == [hook[i] EXCEPT !.mounted = FALSE]
  <1>2. g \in Hook /\ ~ g.mounted /\ g.locked = hook[i].locked
    BY DEF HookInv, Hook
  <1>3. /\ hook' \in [Hooks -> Hook]
        /\ \A j \in Hooks : hook'[j] = IF j = i THEN g ELSE hook[j]
    BY <1>2 DEF HookInv, Unmount
  <1>4. load' = load
    BY DEF Unmount
  <1>5. OneLoadPerHook'
    BY <1>4 DEF HookInv, OneLoadPerHook, LoadOf
  <1>6. LockHeld'
    BY <1>2, <1>3, <1>4 DEF HookInv, LockHeld, LoadOf
  <1>7. SpinnersTellTheTruth'
    BY <1>2, <1>3, <1>4 DEF HookInv, SpinnersTellTheTruth, LoadOf
  <1>8. QED
    BY <1>1, <1>3, <1>4, <1>5, <1>6, <1>7 DEF HookInv

LEMMA FinishLoadStep ==
    ASSUME HookInv, NEW c \in Calls, FinishLoad(c)
    PROVE  HookInv'
  <1>1. CacheInv'
    BY CacheInductive DEF HookInv, FinishLoad, CacheNext
  <1>2. PICK i \in Hooks : load[c].hook = i /\ LoadOf(c, i)
    BY DEF HookInv, FinishLoad, Load, LoadOf
  <1> DEFINE g == Ended(hook[i], call[c])
  <1>3. call[c].pc = "returned" => call[c].val \in Version
    <2>1. call[c] \in Call
      BY DEF HookInv, CacheInv, CacheTypeOK
    <2>2. QED
      BY <2>1 DEF Call
  <1>4. g \in Hook /\ g.mounted = hook[i].mounted /\ ~ g.locked
        /\ ~ g.isRefreshing /\ ~ g.isLoading
    BY <1>2, <1>3 DEF HookInv, Hook, Ended
  <1>5. Idle \in Load /\ Idle.pc = "idle"
    BY DEF Idle, Load
  <1>6. /\ hook' \in [Hooks -> Hook] /\ load' \in [Calls -> Load]
        /\ \A j \in Hooks : hook'[j] = IF j = i THEN g ELSE hook[j]
        /\ \A d \in Calls : load'[d] = IF d = c THEN Idle ELSE load[d]
    BY <1>2, <1>4, <1>5 DEF HookInv, FinishLoad
  <1>7. ASSUME NEW d \in Calls, NEW j \in Hooks
        PROVE  LoadOf(d, j)' <=> LoadOf(d, j) /\ d # c
    <2>1. CASE d = c
      BY <2>1, <1>5, <1>6 DEF LoadOf
    <2>2. CASE d # c
      BY <2>2, <1>6 DEF LoadOf
    <2>3. QED
      BY <2>1, <2>2
  <1>8. \A d \in Calls : ~ LoadOf(d, i)'
    BY <1>2, <1>7 DEF HookInv, OneLoadPerHook
  <1>9. \A d \in Calls, j \in Hooks :
           j # i => /\ LoadOf(d, j)' <=> LoadOf(d, j)
                    /\ LoadOf(d, j) => load'[d] = load[d]
    BY <1>2, <1>6, <1>7 DEF LoadOf
  <1>10. OneLoadPerHook'
    BY <1>7 DEF HookInv, OneLoadPerHook
  <1>11. LockHeld'
    BY <1>4, <1>6, <1>8, <1>9 DEF HookInv, LockHeld
  <1>12. SpinnersTellTheTruth'
    <2>1. ASSUME NEW j \in Hooks, j # i, hook'[j].mounted
          PROVE  /\ hook'[j].isRefreshing <=>
                       \E d \in Calls : LoadOf(d, j)' /\ load'[d].force
                 /\ hook'[j].isLoading => \E d \in Calls : LoadOf(d, j)'
                 /\ hook'[j].locked <=> \E d \in Calls : LoadOf(d, j)'
      BY <2>1, <1>6, <1>9 DEF HookInv, SpinnersTellTheTruth
    <2>2. ~ hook'[i].isRefreshing /\ ~ hook'[i].isLoading /\ ~ hook'[i].locked
      BY <1>4, <1>6
    <2>3. QED
      BY <2>1, <2>2, <1>8 DEF SpinnersTellTheTruth
  <1>13. QED
    BY <1>1, <1>6, <1>10, <1>11, <1>12 DEF HookInv

LEMMA AppRestartStep ==
    ASSUME HookInv, AppRestart
    PROVE  HookInv'
  <1>1. CacheInv'
    BY CacheInductive DEF HookInv, AppRestart, CacheNext
  <1>2. NewHook \in Hook /\ ~ NewHook.mounted /\ ~ NewHook.locked
    BY DEF NewHook, Hook
  <1>3. Idle \in Load /\ Idle.pc = "idle"
    BY DEF Idle, Load
  <1>4. QED
    BY <1>1, <1>2, <1>3
       DEF AppRestart, HookInv, OneLoadPerHook, LockHeld,
           SpinnersTellTheTruth, LoadOf

LEMMA BackgroundStep ==
    ASSUME HookInv, Background \/ UNCHANGED vars
    PROVE  HookInv'
  <1>1. CacheInv'
    BY HookStepIsCacheStep, CacheInductive DEF HookInv, Next
  <1>2. hook' = hook /\ load' = load
    BY DEF Background, vars, hookVars
  <1>3. QED
    BY <1>1, <1>2
       DEF HookInv, OneLoadPerHook, LockHeld, SpinnersTellTheTruth, LoadOf

(* Every step of the hooks keeps it.                                       *)
LEMMA HookInductive == HookInv /\ [Next]_vars => HookInv'
  BY MountStep, ReloadRefreshStep, UnmountStep, FinishLoadStep,
     AppRestartStep, BackgroundStep DEF Next

LEMMA HookInvariant == Spec => []HookInv
  BY HookInitially, HookInductive, PTL DEF Spec

(* isLoadingRef excludes: whoever asks (mounting, a render with a new      *)
(* fetchFunction, the timer, the user), an instance never has two loads    *)
(* in flight.                                                              *)
THEOREM LoadsExcludeEachOther == Spec => []OneLoadPerHook
  <1>1. HookInv => OneLoadPerHook
    BY DEF HookInv
  <1>2. QED
    BY <1>1, HookInvariant, PTL

(* On a mounted screen isRefreshing, isLoading and the ref are up exactly  *)
(* as long as a load of that screen says so.                               *)
THEOREM SpinnersRight == Spec => []SpinnersTellTheTruth
  <1>1. HookInv => SpinnersTellTheTruth
    BY DEF HookInv
  <1>2. QED
    BY <1>1, HookInvariant, PTL

(* The hooks keep the types of their state and of the cache.               *)
THEOREM HookTypeCorrect == Spec => []HookTypeOK
  <1>1. HookInv => HookTypeOK
    BY DEF HookInv, HookTypeOK, CacheInv
  <1>2. QED
    BY <1>1, HookInvariant, PTL

(* A callback that is not registered heard nothing, and none heard before  *)
(* the storage was cleared.                                                *)
HeardInv ==
    /\ \A k \in Keys, f \in Callbacks :
          f \notin callbacks[k] \/ boot = "clear" => heard[k][f] = NoItem
    /\ RegisteredHearsDisk

LEMMA HeardInitially == CacheInit => HeardInv
BY DEF CacheInit, HeardInv, RegisteredHearsDisk

(* AsyncStorage acknowledges a write, and the callbacks of its key hear it.*)
LEMMA WriteHeard ==
    ASSUME CacheTypeOK, HeardInv, NEW k \in Keys, NEW item \in Item \cup {NoItem},
           boot # "clear", disk' = [disk EXCEPT ![k] = item],
           heard' = Notified(k, DataOf(item)), UNCHANGED <<boot, callbacks>>
    PROVE  HeardInv'
<1>1. /\ disk \in [Keys -> Item \cup {NoItem}]
      /\ callbacks \in [Keys -> SUBSET Callbacks]
      /\ heard \in [Keys -> [Callbacks -> Version \cup {NoData, NoItem}]]
  BY DEF CacheTypeOK
<1>2. /\ disk'[k] = item
      /\ \A j \in Keys : j # k => disk'[j] = disk[j] /\ heard'[j] = heard[j]
      /\ \A f \in Callbacks : heard'[k][f] =
            IF f \in callbacks[k] THEN DataOf(item) ELSE heard[k][f]
  BY <1>1 DEF Notified
<1>3. ASSUME NEW j \in Keys, NEW f \in Callbacks, f \notin callbacks[j]
      PROVE  heard'[j][f] = NoItem
  BY <1>2, <1>3 DEF HeardInv
<1>4. ASSUME NEW j \in Keys, NEW f \in callbacks[j], heard'[j][f] # NoItem
      PROVE  heard'[j][f] = DataOf(disk'[j])
  BY <1>1, <1>2, <1>4 DEF HeardInv, RegisteredHearsDisk
<1>5. QED
  BY <1>3, <1>4 DEF HeardInv, RegisteredHearsDisk

LEMMA HeardInductive ==
    CacheInv /\ HeardInv /\ [CacheNext]_cacheVars => HeardInv'
<1> SUFFICES ASSUME CacheInv, HeardInv, [CacheNext]_cacheVars
             PROVE  HeardInv'
  OBVIOUS
<1>1. /\ CacheTypeOK /\ BootInOrder
      /\ callbacks \in [Keys -> SUBSET Callbacks]
      /\ heard \in [Keys -> [Callbacks -> Version \cup {NoData, NoItem}]]
      /\ queue \in Seq(Operation)
  BY DEF CacheInv, CacheTypeOK
<1>2. ASSUME UNCHANGED <<disk, listeners>>, boot' = "clear" => boot = "clear"
      PROVE  HeardInv'
  BY <1>2 DEF HeardInv, RegisteredHearsDisk
<1>3. CASE Restart
  BY <1>3 DEF Restart, Boot, HeardInv, RegisteredHearsDisk
<1>4. ASSUME NEW k \in Keys, NEW f \in Callbacks, RegisterUpdateCallback(k, f)
      PROVE  HeardInv'
  <2>1. /\ \A j \in Keys, g \in Callbacks :
              g \in callbacks[j] => g \in callbacks'[j]
        /\ \A j \in Keys : \A g \in callbacks'[j] :
              g \in callbacks[j] \/ (g \in Callbacks /\ g = f /\ j = k)
        /\ UNCHANGED <<disk, heard, boot>>
    BY <1>1, <1>4 DEF RegisterUpdateCallback
  <2>2. \A j \in Keys : \A g \in callbacks'[j] :
           g \in callbacks[j] \/ heard[j][g] = NoItem
    BY <2>1 DEF HeardInv
  <2>3. QED
    BY <2>1, <2>2 DEF HeardInv, RegisteredHearsDisk
<1>5. ASSUME NEW k \in Keys, NEW f \in Callbacks, UnregisterUpdateCallback(k, f)
      PROVE  HeardInv'
  <2>1. /\ \A j \in Keys, g \in Callbacks :
              /\ g \notin callbacks'[j] => g \notin callbacks[j] \/ (j = k /\ g = f)
              /\ heard'[j][g] = IF j = k /\ g = f THEN NoItem ELSE heard[j][g]
        /\ \A j \in Keys : callbacks'[j] \subseteq callbacks[j]
        /\ UNCHANGED <<disk, boot>>
    BY <1>1, <1>5 DEF UnregisterUpdateCallback
  <2>2. QED
    BY <1>1, <2>1 DEF HeardInv, RegisteredHearsDisk
<1>6. ASSUME queue # <<>>, Head(queue).op \in {"setItem", "removeItem"}
      PROVE  boot # "clear"
  BY <1>1, <1>6 DEF BootInOrder
<1>7. CASE SetItemDone
  <2>1. /\ queue # <<>> /\ Head(queue).op = "setItem"
        /\ Head(queue) \in Operation
    BY <1>1, <1>7 DEF SetItemDone, Serving
  <2>2. Head(queue).key \in Keys /\ Head(queue).item \in Item
    BY <2>1 DEF Operation
  <2>3. DataOf(Head(queue).item) = Head(queue).item.data
    BY <2>2, NoItemAssumption DEF DataOf
  <2>4. QED
    BY <1>1, <1>6, <1>7, <2>1, <2>2, <2>3, WriteHeard DEF SetItemDone
<1>8. CASE RemoveItemDone
  <2>1. /\ queue # <<>> /\ Head(queue).op = "removeItem"
        /\ Head(queue) \in Operation
    BY <1>1, <1>8 DEF RemoveItemDone, Serving
  <2>2. Head(queue).key \in Keys /\ DataOf(NoItem) = NoData
    BY <2>1 DEF Operation, DataOf
  <2>3. QED
    BY <1>1, <1>6, <1>8, <2>1, <2>2, WriteHeard DEF RemoveItemDone
<1>9. CASE ClearDone
  <2>1. boot = "clear"
    <3>1. queue # <<>> /\ Head(queue).op = "clear"
      BY <1>9 DEF ClearDone, Serving
    <3>2. Head(queue) = queue[1] /\ 1 \in 1 .. Len(queue)
      BY <1>1, <3>1, Served
    <3>3. QED
      BY <1>1, <3>1, <3>2 DEF BootInOrder
  <2>2. UNCHANGED listeners /\ boot' = "getAllKeys"
    BY <1>9 DEF ClearDone
  <2>3. QED
    BY <1>1, <2>1, <2>2 DEF HeardInv, RegisteredHearsDisk
<1>10. CASE \/ SetItemFails \/ RemoveItemFails \/ GetAllKeysDone
            \/ MultiGetDone \/ BootFails
  BY <1>2, <1>10 DEF SetItemFails, RemoveItemFails, GetAllKeysDone,
     MultiGetDone, BootFails
<1>11. CASE \/ Tick \/ \E k \in Keys : RemoteChanges(k) \/ ClearCache(k)
  BY <1>2, <1>11 DEF Tick, RemoteChanges, ClearCache
<1>12. CASE \E c \in Calls : \/ FetchSettles(c) \/ TakeAnswer(c)
                             \/ \E k \in Keys, life \in Lifetimes :
                                   GetData(c, k, life)
  BY <1>2, <1>12 DEF FetchSettles, FetchSucceeds, FetchFails, FetchHangs,
     TakeAnswer, GetData
<1>13. CASE UNCHANGED cacheVars
  BY <1>2, <1>13
<1>14. QED
  BY <1>3, <1>4, <1>5, <1>7, <1>8, <1>9, <1>10, <1>11, <1>12, <1>13
     DEF CacheNext, StorageAnswers

(* A registered callback last heard what AsyncStorage holds.               *)
THEOREM CallbacksHearDisk == CacheSpec => []RegisteredHearsDisk
<1>1. HeardInv => RegisteredHearsDisk
  BY DEF HeardInv
<1>2. QED
  BY <1>1, CacheInitially, CacheInductive, HeardInitially, HeardInductive,
     PTL DEF CacheSpec

-----------------------------------------------------------------------------
(* Every item in memory, on disk and on its way there is one of G.         *)
Stored(G) ==
    /\ \A k \in Keys : /\ cache[k] \in G[k] \cup {NoItem}
                       /\ disk[k] \in G[k] \cup {NoItem}
    /\ \A j \in 1 .. Len(queue) :
          queue[j].op = "setItem" => queue[j].item \in G[queue[j].key]

(* Only a fetch function brings items in.                                  *)
LEMMA ItemsFlow ==
    ASSUME CacheTypeOK, [CacheNext]_cacheVars,
           NEW G \in [Keys -> SUBSET Item], Stored(G),
           \A c \in Calls, v \in Version :
              FetchSucceeds(c, v) => Fresh(v, call[c].life) \in G[call[c].key]
    PROVE  Stored(G)'
<1>1. /\ queue \in Seq(Operation) /\ call \in [Calls -> Call]
      /\ cache \in [Keys -> Item \cup {NoItem}]
      /\ disk \in [Keys -> Item \cup {NoItem}]
  BY DEF CacheTypeOK
<1>2. ASSUME UNCHANGED <<cache, disk, queue>>  PROVE Stored(G)'
  BY <1>2 DEF Stored
<1>3. ASSUME queue # <<>>
      PROVE  /\ queue[1] = Head(queue) /\ Head(queue) \in Operation
             /\ 1 \in 1 .. Len(queue)
             /\ \A j \in 1 .. Len(Tail(queue)) :
                   j + 1 \in 1 .. Len(queue) /\ Tail(queue)[j] = queue[j + 1]
  BY <1>1, <1>3, Served
<1>4. ASSUME queue # <<>>, queue' = Tail(queue),
             \A k \in Keys : /\ cache'[k] \in G[k] \cup {NoItem}
                             /\ disk'[k] \in G[k] \cup {NoItem}
      PROVE  Stored(G)'
  BY <1>3, <1>4 DEF Stored
<1>5. ASSUME NEW x \in Operation, x.op = "setItem" => x.item \in G[x.key],
             NEW q \in Seq(Operation), queue' = Append(q, x),
             q = queue \/ (queue # <<>> /\ q = Tail(queue)),
             \A k \in Keys : /\ cache'[k] \in G[k] \cup {NoItem}
                             /\ disk'[k] \in G[k] \cup {NoItem}
      PROVE  Stored(G)'
  <2>1. /\ Len(queue') = Len(q) + 1 /\ queue'[Len(q) + 1] = x
        /\ \A j \in 1 .. Len(q) : queue'[j] = q[j]
        /\ Len(q) \in Nat
    BY <1>5, Appended
  <2>2. \A j \in 1 .. Len(q) : q[j].op = "setItem" => q[j].item \in G[q[j].key]
    <3>1. CASE q = queue
      BY <3>1 DEF Stored
    <3>2. CASE queue # <<>> /\ q = Tail(queue)
      BY <1>3, <3>2 DEF Stored
    <3>3. QED
      BY <1>5, <3>1, <3>2
  <2>3. ASSUME NEW j \in 1 .. Len(queue'), queue'[j].op = "setItem"
        PROVE  queue'[j].item \in G[queue'[j].key]
    <3>1. CASE j = Len(q) + 1
      BY <1>5, <2>1, <2>3, <3>1
    <3>2. CASE j # Len(q) + 1
      <4>1. j \in 1 .. Len(q)
        BY <2>1, <3>2
      <4>2. QED
        BY <2>1, <2>2, <2>3, <4>1
    <3>3. QED
      BY <3>1, <3>2
  <2>4. QED
    BY <1>5, <2>3 DEF Stored
<1>6. CASE Restart
  BY <1>6 DEF Restart, Boot, Stored
<1>7. CASE \/ Tick
           \/ \E k \in Keys : RemoteChanges(k)
           \/ \E k \in Keys, f \in Callbacks :
                 RegisterUpdateCallback(k, f) \/ UnregisterUpdateCallback(k, f)
           \/ UNCHANGED cacheVars
  BY <1>2, <1>7 DEF Tick, RegisterUpdateCallback, UnregisterUpdateCallback,
     RemoteChanges
<1>8. ASSUME NEW k \in Keys, ClearCache(k)  PROVE Stored(G)'
  <2>1. /\ [op |-> "removeItem", key |-> k] \in Operation
        /\ [op |-> "removeItem", key |-> k].op # "setItem"
    BY DEF Operation
  <2>2. \A j \in Keys : /\ cache'[j] \in G[j] \cup {NoItem}
                        /\ disk'[j] \in G[j] \cup {NoItem}
    BY <1>1, <1>8 DEF ClearCache, Stored
  <2>3. queue' = Append(queue, [op |-> "removeItem", key |-> k])
    BY <1>8 DEF ClearCache
  <2>4. QED
    BY <1>1, <1>5, <2>1, <2>2, <2>3
<1>9. ASSUME NEW c \in Calls,
             FetchFails(c) \/ FetchHangs(c) \/ TakeAnswer(c)
      PROVE  Stored(G)'
  BY <1>2, <1>9 DEF FetchFails, FetchHangs, TakeAnswer
<1>a. ASSUME NEW c \in Calls, NEW k \in Keys, NEW life \in Lifetimes,
             GetData(c, k, life)
      PROVE  Stored(G)'
  BY <1>2, <1>a DEF GetData
<1>10. ASSUME NEW c \in Calls, NEW v \in Version, FetchSucceeds(c, v)
       PROVE  Stored(G)'
  <2>1. PICK item, k : item = Fresh(v, call[c].life) /\ k = call[c].key
    OBVIOUS
  <2>2. call[c] \in Call /\ call[c].pc = "fetching"
    BY <1>1, <1>10 DEF FetchSucceeds
  <2>3. k \in Keys /\ item \in G[k] /\ item \in Item
    BY <1>10, <2>1, <2>2 DEF Call
  <2>4. /\ cache' = [cache EXCEPT ![k] = item] /\ UNCHANGED disk
        /\ queue' = Append(queue, [op |-> "setItem", key |-> k,
                                   item |-> item, call |-> c])
    BY <1>10, <2>1 DEF FetchSucceeds
  <2>5. PICK x : x = [op |-> "setItem", key |-> k, item |-> item, call |-> c]
    OBVIOUS
  <2>6. x \in Operation /\ x.item = item /\ x.key = k
    BY <2>3, <2>5 DEF Operation
  <2>7. \A j \in Keys : /\ cache'[j] \in G[j] \cup {NoItem}
                        /\ disk'[j] \in G[j] \cup {NoItem}
    BY <1>1, <2>3, <2>4 DEF Stored
  <2>8. QED
    BY <1>1, <1>5, <2>3, <2>4, <2>5, <2>6, <2>7
<1>11. CASE SetItemDone
  <2>1. /\ queue # <<>> /\ Head(queue).op = "setItem" /\ queue' = Tail(queue)
        /\ disk' = [disk EXCEPT ![Head(queue).key] = Head(queue).item]
        /\ UNCHANGED cache
    BY <1>11 DEF SetItemDone, Serving
  <2>2. Head(queue).item \in G[Head(queue).key]
    BY <1>3, <2>1 DEF Stored
  <2>3. \A j \in Keys : /\ cache'[j] \in G[j] \cup {NoItem}
                        /\ disk'[j] \in G[j] \cup {NoItem}
    BY <1>1, <2>1, <2>2 DEF Stored
  <2>4. QED
    BY <1>4, <2>1, <2>3
<1>12. CASE RemoveItemDone
  <2>1. \A j \in Keys : /\ cache'[j] \in G[j] \cup {NoItem}
                        /\ disk'[j] \in G[j] \cup {NoItem}
    BY <1>1, <1>12 DEF RemoveItemDone, Stored
  <2>2. QED
    BY <1>4, <1>12, <2>1 DEF RemoveItemDone, Serving
<1>13. CASE SetItemFails \/ RemoveItemFails \/ BootFails
  BY <1>4, <1>13 DEF SetItemFails, RemoveItemFails, BootFails, Serving, Stored
<1>14. CASE ClearDone \/ GetAllKeysDone
  <2>1. PICK x \in Operation : /\ x.op # "setItem"
                               /\ queue' = Append(Tail(queue), x)
    <3>1. /\ [op |-> "getAllKeys"] \in Operation
          /\ [op |-> "multiGet"] \in Operation
      BY DEF Operation
    <3>2. QED
      BY <1>14, <3>1 DEF ClearDone, GetAllKeysDone
  <2>2. queue # <<>> /\ Tail(queue) \in Seq(Operation)
    BY <1>1, <1>14, Served DEF ClearDone, GetAllKeysDone, Serving
  <2>3. \A j \in Keys : /\ cache'[j] \in G[j] \cup {NoItem}
                        /\ disk'[j] \in G[j] \cup {NoItem}
    BY <1>14 DEF ClearDone, GetAllKeysDone, Stored
  <2>4. QED
    BY <1>5, <2>1, <2>2, <2>3
<1>15. CASE MultiGetDone
  <2>1. \A j \in Keys : /\ cache'[j] \in G[j] \cup {NoItem}
                        /\ disk'[j] \in G[j] \cup {NoItem}
    BY <1>15 DEF MultiGetDone, Stored
  <2>2. QED
    BY <1>4, <1>15, <2>1 DEF MultiGetDone, Serving
<1>16. CASE StorageAnswers
  BY <1>11, <1>12, <1>13, <1>14, <1>15, <1>16 DEF StorageAnswers
<1>17. ASSUME NEW c \in Calls, FetchSettles(c)  PROVE Stored(G)'
  BY <1>9, <1>10, <1>17 DEF FetchSettles
<1>18. QED
  BY <1>6, <1>7, <1>8, <1>9, <1>16, <1>17, <1>a DEF CacheNext

-----------------------------------------------------------------------------
(* No item, no answer and nothing a call fell back on is newer than the    *)
(* source, and a request is no older than what its call saw before.        *)
TrueItems == [k \in Keys |-> {item \in Item : item.data <= remote[k]}]

TrueCall(r) ==
    /\ r.pc \in {"fetching", "hung"} =>
          /\ r.since <= remote[r.key]
          /\ r.old # NoItem => r.old.data <= r.since
    /\ r.pc = "storing" /\ r.old # NoItem => r.old.data <= remote[r.key]
    /\ r.pc \in {"storing", "returned"} => r.val <= remote[r.key]

CallsTrue == \A c \in Calls : TrueCall(call[c])

(* A setItem in the queue is under the key of its call.                    *)
StoresUnderKey ==
    \A j \in 1 .. Len(queue) : queue[j].op = "setItem" =>
        queue[j].key = call[queue[j].call].key

TruthInv ==
    /\ CacheInv
    /\ Stored(TrueItems)
    /\ CallsTrue
    /\ StoresUnderKey

LEMMA RemoteGrows ==
    ASSUME CacheTypeOK, [CacheNext]_cacheVars, NEW k \in Keys
    PROVE  remote[k] \in Nat /\ remote[k] <= remote'[k]
<1>a. remote \in [Keys -> Version]
  BY DEF CacheTypeOK
<1>1. remote[k] \in Nat
  BY <1>a DEF Version
<1>2. CASE UNCHANGED remote
  BY <1>1, <1>2
<1>3. CASE \E j \in Keys : RemoteChanges(j)
  BY <1>1, <1>3, <1>a DEF RemoteChanges
<1>4. CASE UNCHANGED cacheVars
  BY <1>2, <1>4
<1>5. CASE StorageAnswers
  BY <1>2, <1>5 DEF StorageAnswers, SetItemDone, SetItemFails,
     RemoveItemDone, RemoveItemFails, ClearDone, GetAllKeysDone, MultiGetDone,
     BootFails
<1>6. ASSUME NEW c \in Calls, FetchSettles(c) \/ TakeAnswer(c)
      PROVE  remote[k] \in Nat /\ remote[k] <= remote'[k]
  BY <1>2, <1>6 DEF FetchSettles, FetchSucceeds, FetchFails, FetchHangs,
     TakeAnswer
<1>7. ASSUME NEW c \in Calls, NEW j \in Keys, NEW life \in Lifetimes,
             GetData(c, j, life)
      PROVE  remote[k] \in Nat /\ remote[k] <= remote'[k]
  BY <1>2, <1>7 DEF GetData
<1>8. CASE Restart
  BY <1>2, <1>8 DEF Restart
<1>9. CASE Tick
  BY <1>2, <1>9 DEF Tick
<1>10. ASSUME NEW j \in Keys, ClearCache(j)
       PROVE  remote[k] \in Nat /\ remote[k] <= remote'[k]
  BY <1>2, <1>10 DEF ClearCache
<1>11. ASSUME NEW j \in Keys, NEW f \in Callbacks,
              RegisterUpdateCallback(j, f) \/ UnregisterUpdateCallback(j, f)
       PROVE  remote[k] \in Nat /\ remote[k] <= remote'[k]
  BY <1>2, <1>11 DEF RegisterUpdateCallback, UnregisterUpdateCallback
<1>12. QED
  BY <1>3, <1>4, <1>5, <1>6, <1>7, <1>8, <1>9, <1>10, <1>11 DEF CacheNext

(* The items stay true.                                                    *)
LEMMA ItemsStayTrue ==
    TruthInv /\ [CacheNext]_cacheVars => Stored(TrueItems)'
<1> SUFFICES ASSUME TruthInv, [CacheNext]_cacheVars
             PROVE  Stored(TrueItems)'
  OBVIOUS
<1>1. CacheTypeOK
  BY DEF TruthInv, CacheInv
<1>2. PICK G \in [Keys -> SUBSET Item] :
        G = [k \in Keys |-> {item \in Item : item.data <= remote'[k]}]
  OBVIOUS
<1>3. \A k \in Keys : TrueItems[k] \subseteq G[k]
  <2>1. \A k \in Keys : remote[k] \in Nat /\ remote[k] <= remote'[k]
    BY <1>1, RemoteGrows
  <2>2. \A item \in Item : item.data \in Nat
    BY DEF Item, Version
  <2>3. \A k \in Keys : remote'[k] \in Nat
    BY <1>1, CacheInductive DEF TruthInv, CacheInv, CacheTypeOK, Version
  <2>4. QED
    BY <1>2, <2>1, <2>2, <2>3 DEF TrueItems
<1>4. Stored(G)
  <2>1. \A j \in 1 .. Len(queue) : queue[j].op = "setItem" =>
           queue[j].key \in Keys
    <3>1. \A j \in 1 .. Len(queue) : queue[j] \in Operation
      BY <1>1 DEF CacheTypeOK
    <3>2. QED
      BY <3>1 DEF Operation
  <2>2. QED
    BY <1>3, <2>1 DEF TruthInv, Stored
<1>5. ASSUME NEW c \in Calls, NEW v \in Version, FetchSucceeds(c, v)
      PROVE  Fresh(v, call[c].life) \in G[call[c].key]
  <2>1. /\ call[c] \in Call /\ call[c].pc = "fetching"
        /\ v \in call[c].since .. remote[call[c].key]
    BY <1>1, <1>5 DEF FetchSucceeds, CacheTypeOK
  <2>2. call[c].key \in Keys /\ call[c].life \in Lifetimes
    BY <2>1 DEF Call
  <2>3. /\ Fresh(v, call[c].life) \in Item
        /\ Fresh(v, call[c].life).data = v
    BY <1>1, <2>2, FreshItem
  <2>4. v <= remote[call[c].key] /\ UNCHANGED remote
    BY <1>5, <2>1 DEF FetchSucceeds
  <2>5. QED
    BY <1>2, <2>2, <2>3, <2>4
<1>6. Stored(G)'
  BY <1>1, <1>4, <1>5, ItemsFlow
<1>7. TrueItems' = G
  BY <1>2 DEF TrueItems
<1>8. QED
  BY <1>6, <1>7 DEF Stored

(* What a call falls back on is no newer than the source.                  *)
LEMMA CaughtTrue ==
    ASSUME TruthInv, NEW c \in Calls, call[c].pc \in {"fetching", "storing"}
    PROVE  TrueCall(Caught(c)) /\ Caught(c).key = call[c].key
<1>1. /\ call[c] \in Call /\ remote \in [Keys -> Version]
      /\ Version \subseteq Nat
  BY DEF TruthInv, CacheInv, CacheTypeOK, Version
<1>2. /\ call[c].key \in Keys /\ call[c].old \in Item \cup {NoItem}
      /\ call[c].pc = "fetching" => call[c].since \in Version
  BY <1>1 DEF Call
<1>3. call[c].old # NoItem => call[c].old.data \in Nat
  BY <1>1, <1>2 DEF Item
<1>4. call[c].old # NoItem => call[c].old.data <= remote[call[c].key]
  <2>1. remote[call[c].key] \in Nat
    BY <1>1, <1>2
  <2>2. CASE call[c].pc = "storing"
    BY <2>2 DEF TruthInv, CallsTrue, TrueCall
  <2>3. CASE call[c].pc = "fetching"
    <3>1. call[c].since \in Nat /\ call[c].since <= remote[call[c].key]
      BY <1>1, <1>2, <2>3 DEF TruthInv, CallsTrue, TrueCall
    <3>2. call[c].old # NoItem => call[c].old.data <= call[c].since
      BY <2>3 DEF TruthInv, CallsTrue, TrueCall
    <3>3. QED
      BY <1>3, <2>1, <3>1, <3>2
  <2>4. QED
    BY <2>2, <2>3
<1>5. CASE call[c].old = NoItem
  BY <1>5 DEF Caught, TrueCall
<1>6. CASE call[c].old # NoItem
  BY <1>4, <1>6 DEF Caught, TrueCall
<1>7. QED
  BY <1>5, <1>6

(* The source only goes forward.                                           *)
LEMMA TrueLater ==
    ASSUME TruthInv, [CacheNext]_cacheVars, NEW r \in Call, TrueCall(r)
    PROVE  TrueCall(r)'
<1>1. CacheTypeOK
  BY DEF TruthInv, CacheInv
<1>2. \A k \in Keys : remote[k] \in Nat /\ remote[k] <= remote'[k]
  BY <1>1, RemoteGrows
<1>3. \A k \in Keys : remote'[k] \in Nat
  BY CacheInductive DEF TruthInv, CacheInv, CacheTypeOK, Version
<1>4. CASE r.pc \in {"fetching", "hung"}
  <2>1. r.key \in Keys /\ r.since \in Nat
    BY <1>4 DEF Call, Version
  <2>2. r.since <= remote'[r.key]
    BY <1>2, <1>3, <1>4, <2>1 DEF TrueCall
  <2>3. QED
    BY <1>4, <2>2 DEF TrueCall
<1>5. CASE r.pc = "storing"
  <2>1. /\ r.key \in Keys /\ r.val \in Nat
        /\ r.old # NoItem => r.old.data \in Nat
    BY <1>5 DEF Call, Version, Item
  <2>2. /\ r.val <= remote'[r.key]
        /\ r.old # NoItem => r.old.data <= remote'[r.key]
    BY <1>2, <1>3, <1>5, <2>1 DEF TrueCall
  <2>3. QED
    BY <1>5, <2>2 DEF TrueCall
<1>6. CASE r.pc = "returned"
  <2>1. r.key \in Keys /\ r.val \in Nat
    BY <1>6 DEF Call, Version
  <2>2. r.val <= remote'[r.key]
    BY <1>2, <1>3, <1>6, <2>1 DEF TrueCall
  <2>3. QED
    BY <1>6, <2>2 DEF TrueCall
<1>7. CASE r.pc \notin {"fetching", "hung", "storing", "returned"}
  BY <1>7 DEF TrueCall
<1>8. QED
  BY <1>4, <1>5, <1>6, <1>7

(* One call moves on; the setItem it waited for, if any, is answered.      *)
LEMMA CallGoesOn ==
    ASSUME TruthInv, [CacheNext]_cacheVars, NEW c \in Calls, NEW r \in Call,
           TrueCall(r), call' = [call EXCEPT ![c] = r],
           \/ call[c].pc # "storing" /\ UNCHANGED queue
           \/ /\ queue # <<>> /\ queue' = Tail(queue)
              /\ Head(queue).op = "setItem" /\ Head(queue).call = c
    PROVE  CallsTrue' /\ StoresUnderKey'
<1>1. /\ CacheTypeOK /\ StoresHaveTheirCall
      /\ call \in [Calls -> Call] /\ queue \in Seq(Operation)
  BY DEF TruthInv, CacheInv, CacheTypeOK
<1>2. \A d \in Calls : call'[d] = IF d = c THEN r ELSE call[d]
  BY <1>1
<1>3. ASSUME NEW d \in Calls  PROVE TrueCall(call[d])'
  <2>1. PICK s \in Call : s = call'[d] /\ TrueCall(s)
    BY <1>1, <1>2 DEF TruthInv, CallsTrue
  <2>2. TrueCall(s)'
    BY <2>1, TrueLater
  <2>3. QED
    BY <2>1, <2>2 DEF TrueCall
<1>4. \A j \in 1 .. Len(queue) : queue[j].op = "setItem" =>
         /\ queue[j].call \in Calls /\ call[queue[j].call].pc = "storing"
         /\ queue[j].key = call[queue[j].call].key
  <2>1. \A j \in 1 .. Len(queue) : queue[j] \in Operation
    BY <1>1
  <2>2. QED
    BY <1>1, <2>1 DEF Operation, StoresHaveTheirCall, TruthInv, StoresUnderKey
<1>5. CASE call[c].pc # "storing" /\ UNCHANGED queue
  BY <1>2, <1>3, <1>4, <1>5 DEF CallsTrue, StoresUnderKey
<1>6. CASE /\ queue # <<>> /\ queue' = Tail(queue)
           /\ Head(queue).op = "setItem" /\ Head(queue).call = c
  <2>1. /\ Head(queue) = queue[1] /\ 1 \in 1 .. Len(queue)
        /\ \A j \in 1 .. Len(queue') : /\ j + 1 \in 1 .. Len(queue)
                                       /\ queue'[j] = queue[j + 1]
                                       /\ j + 1 # 1
    BY <1>1, <1>6, Served
  <2>2. \A j \in 1 .. Len(queue') : queue'[j].op = "setItem" =>
           queue'[j].call # c
    BY <1>1, <1>6, <2>1 DEF StoresHaveTheirCall
  <2>3. StoresUnderKey'
    BY <1>2, <1>4, <2>1, <2>2 DEF StoresUnderKey
  <2>4. QED
    BY <1>3, <2>3 DEF CallsTrue
<1>7. QED
  BY <1>5, <1>6

(* The calls stay, and the queue gets no setItem.                          *)
LEMMA CallsStay ==
    ASSUME TruthInv, [CacheNext]_cacheVars, UNCHANGED call,
           \/ UNCHANGED queue
           \/ queue # <<>> /\ queue' = Tail(queue)
           \/ \E x \in Operation : /\ x.op # "setItem"
                                   /\ queue' = Append(queue, x)
           \/ \E x \in Operation : /\ x.op # "setItem" /\ queue # <<>>
                                   /\ queue' = Append(Tail(queue), x)
    PROVE  CallsTrue' /\ StoresUnderKey'
<1>1. call \in [Calls -> Call] /\ queue \in Seq(Operation) /\ StoresUnderKey
  BY DEF TruthInv, CacheInv, CacheTypeOK
<1>2. ASSUME NEW d \in Calls  PROVE TrueCall(call[d])'
  <2>1. PICK s \in Call : s = call[d] /\ TrueCall(s)
    BY <1>1 DEF TruthInv, CallsTrue
  <2>2. TrueCall(s)'
    BY <2>1, TrueLater
  <2>3. QED
    BY <2>1, <2>2 DEF TrueCall
<1>3. ASSUME NEW q \in Seq(Operation),
             \A j \in 1 .. Len(q) : q[j].op = "setItem" =>
                q[j].key = call[q[j].call].key,
             NEW x \in Operation, x.op # "setItem", queue' = Append(q, x)
      PROVE  StoresUnderKey'
  <2>1. /\ Len(queue') = Len(q) + 1 /\ queue'[Len(q) + 1] = x
        /\ \A j \in 1 .. Len(q) : queue'[j] = q[j]
        /\ Len(q) \in Nat
    BY <1>3, Appended
  <2>2. \A j \in 1 .. Len(queue') : j = Len(q) + 1 \/ j \in 1 .. Len(q)
    BY <2>1
  <2>3. QED
    BY <1>3, <2>1, <2>2 DEF StoresUnderKey
<1>4. ASSUME queue # <<>>
      PROVE  /\ Tail(queue) \in Seq(Operation)
             /\ \A j \in 1 .. Len(Tail(queue)) :
                   Tail(queue)[j].op = "setItem" =>
                      Tail(queue)[j].key = call[Tail(queue)[j].call].key
  <2>1. /\ Tail(queue) \in Seq(Operation)
        /\ \A j \in 1 .. Len(Tail(queue)) :
              j + 1 \in 1 .. Len(queue) /\ Tail(queue)[j] = queue[j + 1]
    BY <1>1, <1>4, Served
  <2>2. QED
    BY <1>1, <2>1 DEF StoresUnderKey
<1>5. CASE UNCHANGED queue
  BY <1>1, <1>2, <1>5 DEF CallsTrue, StoresUnderKey
<1>6. CASE queue # <<>> /\ queue' = Tail(queue)
  BY <1>2, <1>4, <1>6 DEF CallsTrue, StoresUnderKey
<1>7. CASE \E x \in Operation : /\ x.op # "setItem"
                                /\ queue' = Append(queue, x)
  <2>1. StoresUnderKey'
    BY <1>1, <1>3, <1>7 DEF StoresUnderKey
  <2>2. QED
    BY <1>2, <2>1 DEF CallsTrue
<1>8. CASE \E x \in Operation : /\ x.op # "setItem" /\ queue # <<>>
                                /\ queue' = Append(Tail(queue), x)
  <2>1. StoresUnderKey'
    BY <1>3, <1>4, <1>8
  <2>2. QED
    BY <1>2, <2>1 DEF CallsTrue
<1>9. QED
  BY <1>5, <1>6, <1>7, <1>8

LEMMA TruthInitially == CacheInit => TruthInv
<1> SUFFICES ASSUME CacheInit  PROVE TruthInv
  OBVIOUS
<1>1. queue = <<[op |-> "clear"]>> /\ Len(queue) = 1 /\ queue[1].op = "clear"
  BY DEF CacheInit
<1>2. Stored(TrueItems)
  BY <1>1 DEF CacheInit, Stored
<1>3. CallsTrue
  BY DEF CacheInit, CallsTrue, TrueCall, Idle
<1>4. StoresUnderKey
  BY <1>1 DEF StoresUnderKey
<1>5. QED
  BY <1>2, <1>3, <1>4, CacheInitially DEF TruthInv

LEMMA TruthInductive == TruthInv /\ [CacheNext]_cacheVars => TruthInv'
<1> SUFFICES ASSUME TruthInv, [CacheNext]_cacheVars  PROVE TruthInv'
  OBVIOUS
<1>1. /\ CacheInv /\ CacheInv' /\ Stored(TrueItems) /\ Stored(TrueItems)'
      /\ CallsTrue /\ StoresUnderKey /\ CacheTypeOK
  BY CacheInductive, ItemsStayTrue DEF TruthInv, CacheInv
<1>2. /\ call \in [Calls -> Call] /\ queue \in Seq(Operation)
      /\ cache \in [Keys -> Item \cup {NoItem}]
      /\ remote \in [Keys -> Version] /\ Version \subseteq Nat
  BY <1>1 DEF CacheTypeOK, Version
<1> SUFFICES CallsTrue' /\ StoresUnderKey'
  BY <1>1 DEF TruthInv
<1>3. CASE Restart
  <2>1. queue' = <<[op |-> "clear"]>> /\ call' = [d \in Calls |-> Idle]
    BY <1>3 DEF Restart, Boot
  <2>2. StoresUnderKey'
    BY <2>1 DEF StoresUnderKey
  <2>3. QED
    BY <2>1, <2>2 DEF CallsTrue, TrueCall, Idle
<1>4. CASE \/ Tick
           \/ \E k \in Keys : RemoteChanges(k)
           \/ \E k \in Keys, f \in Callbacks :
                 RegisterUpdateCallback(k, f) \/ UnregisterUpdateCallback(k, f)
           \/ UNCHANGED cacheVars
  BY <1>4, CallsStay DEF Tick, RemoteChanges, RegisterUpdateCallback,
     UnregisterUpdateCallback
<1>5. ASSUME NEW k \in Keys, ClearCache(k)  PROVE CallsTrue' /\ StoresUnderKey'
  <2>1. PICK x \in Operation : x = [op |-> "removeItem", key |-> k]
    BY DEF Operation
  <2>2. x.op # "setItem" /\ queue' = Append(queue, x) /\ UNCHANGED call
    BY <1>5, <2>1 DEF ClearCache
  <2>3. QED
    BY <2>2, CallsStay
<1>6. ASSUME NEW c \in Calls, NEW k \in Keys, NEW life \in Lifetimes,
             GetData(c, k, life)
      PROVE  CallsTrue' /\ StoresUnderKey'
  <2>1. call[c].pc = "idle" /\ UNCHANGED queue
    BY <1>6 DEF GetData
  <2>2. cache[k] # NoItem => cache[k].data <= remote[k] /\ cache[k] \in Item
    BY <1>1 DEF Stored, TrueItems
  <2>3. CASE NeedsFetch(k, life)
    <3>1. PICK r : r = [pc |-> "fetching", key |-> k, life |-> life,
                        old |-> cache[k], since |-> remote[k]]
      OBVIOUS
    <3>2. r \in Call
      BY <1>2, <3>1 DEF Call
    <3>3. TrueCall(r)
      <4>1. remote[k] \in Nat /\ r.key = k /\ r.since = remote[k]
        BY <1>2, <3>1
      <4>2. r.pc = "fetching" /\ r.old = cache[k]
        BY <3>1
      <4>3. r.since <= remote[r.key]
        BY <4>1
      <4>4. r.old # NoItem => r.old.data <= r.since
        BY <2>2, <4>1, <4>2
      <4>5. QED
        BY <4>2, <4>3, <4>4 DEF TrueCall
    <3>4. call' = [call EXCEPT ![c] = r]
      BY <1>6, <2>3, <3>1 DEF GetData
    <3>5. QED
      BY <2>1, <3>2, <3>3, <3>4, CallGoesOn
  <2>4. CASE ~ NeedsFetch(k, life)
    <3>1. cache[k] # NoItem
      BY <2>4 DEF NeedsFetch, Present
    <3>2. PICK r : r = [pc |-> "returned", key |-> k, val |-> cache[k].data]
      OBVIOUS
    <3>3. r \in Call
      BY <2>2, <3>1, <3>2 DEF Call, Item
    <3>4. TrueCall(r)
      BY <2>2, <3>1, <3>2 DEF TrueCall
    <3>5. call' = [call EXCEPT ![c] = r]
      BY <1>6, <2>4, <3>2 DEF GetData
    <3>6. QED
      BY <2>1, <3>3, <3>4, <3>5, CallGoesOn
  <2>5. QED
    BY <2>3, <2>4
<1>7. ASSUME NEW c \in Calls, NEW v \in Version, FetchSucceeds(c, v)
      PROVE  CallsTrue' /\ StoresUnderKey'
  <2>1. /\ call[c] \in Call /\ call[c].pc = "fetching"
        /\ v \in call[c].since .. remote[call[c].key] /\ UNCHANGED remote
    BY <1>2, <1>7 DEF FetchSucceeds
  <2>2. PICK r : r = [pc |-> "storing", key |-> call[c].key,
                      life |-> call[c].life, old |-> call[c].old, val |-> v]
    OBVIOUS
  <2>3. r \in Call /\ r.key = call[c].key
    BY <2>1, <2>2 DEF Call
  <2>4. call' = [call EXCEPT ![c] = r]
    BY <1>7, <2>1, <2>2 DEF FetchSucceeds, Call
  <2>5. PICK item, x : /\ item = Fresh(v, call[c].life)
                       /\ x = [op |-> "setItem", key |-> call[c].key,
                               item |-> item, call |-> c]
    OBVIOUS
  <2>6. /\ queue' = Append(queue, x) /\ x.key = call[c].key /\ x.call = c
        /\ x \in Operation
    <3>1. item \in Item
      BY <1>1, <2>1, <2>5, FreshItem DEF Call
    <3>2. queue' = Append(queue, x) /\ x.key = call[c].key /\ x.call = c
      BY <1>7, <2>5 DEF FetchSucceeds
    <3>3. QED
      BY <2>1, <2>5, <3>1, <3>2 DEF Operation, Call
  <2>7. TrueCall(r)
    <3>1. /\ call[c].old # NoItem => call[c].old.data <= call[c].since
          /\ call[c].since <= remote[call[c].key]
      BY <1>1, <2>1 DEF CallsTrue, TrueCall
    <3>2. /\ call[c].since \in Nat /\ remote[call[c].key] \in Nat
          /\ call[c].old # NoItem => call[c].old.data \in Nat
      BY <1>2, <2>1 DEF Call, Item
    <3>3. call[c].old # NoItem => call[c].old.data <= remote[call[c].key]
      BY <3>1, <3>2
    <3>4. v <= remote[call[c].key]
      BY <2>1
    <3>5. QED
      BY <2>2, <3>3, <3>4 DEF TrueCall
  <2>8. CallsTrue'
    <3>1. ASSUME NEW d \in Calls  PROVE TrueCall(call[d])'
      <4>1. PICK s \in Call : s = call'[d] /\ TrueCall(s)
        BY <1>1, <1>2, <2>3, <2>4, <2>7 DEF CallsTrue
      <4>2. TrueCall(s)'
        BY <4>1, TrueLater
      <4>3. QED
        BY <4>1, <4>2 DEF TrueCall
    <3>2. QED
      BY <3>1 DEF CallsTrue
  <2>9. StoresUnderKey'
    <3>1. /\ Len(queue') = Len(queue) + 1 /\ queue'[Len(queue) + 1] = x
          /\ \A j \in 1 .. Len(queue) : queue'[j] = queue[j]
          /\ Len(queue) \in Nat
      BY <1>2, <2>6, Appended
    <3>2. \A d \in Calls : call'[d].key = call[d].key
      BY <1>2, <2>3, <2>4
    <3>3. \A j \in 1 .. Len(queue) : queue[j].op = "setItem" =>
             queue[j].call \in Calls /\ queue[j].key = call[queue[j].call].key
      <4>1. \A j \in 1 .. Len(queue) : queue[j] \in Operation
        BY <1>2
      <4>2. QED
        BY <1>1, <4>1 DEF Operation, StoresUnderKey
    <3>4. \A j \in 1 .. Len(queue') : j = Len(queue) + 1 \/ j \in 1 .. Len(queue)
      BY <3>1
    <3>5. QED
      BY <2>6, <3>1, <3>2, <3>3, <3>4 DEF StoresUnderKey
  <2>10. QED
    BY <2>8, <2>9
<1>8. ASSUME NEW c \in Calls, FetchFails(c)  PROVE CallsTrue' /\ StoresUnderKey'
  <2>1. /\ call[c].pc = "fetching" /\ UNCHANGED queue
        /\ call' = [call EXCEPT ![c] = Caught(c)]
    BY <1>8 DEF FetchFails
  <2>2. Caught(c) \in Call /\ TrueCall(Caught(c))
    BY <1>1, <2>1, CaughtAnswer, CaughtTrue
  <2>3. QED
    BY <2>1, <2>2, CallGoesOn
<1>9. ASSUME NEW c \in Calls, FetchHangs(c)  PROVE CallsTrue' /\ StoresUnderKey'
  <2>1. /\ call[c] \in Call /\ call[c].pc = "fetching" /\ UNCHANGED queue
        /\ call' = [call EXCEPT ![c].pc = "hung"]
    BY <1>2, <1>9 DEF FetchHangs
  <2>2. PICK r : r = [call[c] EXCEPT !.pc = "hung"]
    OBVIOUS
  <2>3. /\ r \in Call /\ r.pc = "hung" /\ r.key = call[c].key
        /\ r.old = call[c].old /\ r.since = call[c].since
    BY <2>1, <2>2 DEF Call
  <2>4. TrueCall(r)
    BY <1>1, <2>1, <2>3 DEF CallsTrue, TrueCall
  <2>5. call' = [call EXCEPT ![c] = r]
    BY <2>1, <2>2
  <2>6. QED
    BY <2>1, <2>3, <2>4, <2>5, CallGoesOn
<1>10. ASSUME NEW c \in Calls, TakeAnswer(c)
       PROVE  CallsTrue' /\ StoresUnderKey'
  <2>1. /\ call[c].pc # "storing" /\ UNCHANGED queue
        /\ call' = [call EXCEPT ![c] = Idle]
    BY <1>10 DEF TakeAnswer, Answered
  <2>2. Idle \in Call /\ TrueCall(Idle)
    BY DEF Idle, Call, TrueCall
  <2>3. QED
    BY <2>1, <2>2, CallGoesOn
<1>11. ASSUME queue # <<>>, Head(queue).op = "setItem"
       PROVE  /\ Head(queue) \in Operation /\ Head(queue).call \in Calls
              /\ Head(queue).key \in Keys /\ Head(queue).item \in Item
              /\ Head(queue).item.data <= remote[Head(queue).key]
              /\ call[Head(queue).call].pc = "storing"
              /\ Head(queue).key = call[Head(queue).call].key
  <2>1. Head(queue) = queue[1] /\ 1 \in 1 .. Len(queue) /\ Head(queue) \in Operation
    BY <1>2, <1>11, Served
  <2>2. /\ Head(queue).call \in Calls /\ Head(queue).key \in Keys
        /\ Head(queue).item \in Item
    BY <1>11, <2>1 DEF Operation
  <2>3. Head(queue).item \in TrueItems[Head(queue).key]
    BY <1>1, <1>11, <2>1 DEF Stored
  <2>4. /\ call[Head(queue).call].pc = "storing"
        /\ Head(queue).key = call[Head(queue).call].key
    BY <1>1, <1>11, <2>1 DEF CacheInv, StoresHaveTheirCall, StoresUnderKey
  <2>5. QED
    BY <2>1, <2>2, <2>3, <2>4 DEF TrueItems
<1>12. CASE SetItemDone
  <2>1. /\ queue # <<>> /\ Head(queue).op = "setItem" /\ queue' = Tail(queue)
    BY <1>12 DEF SetItemDone, Serving
  <2>2. PICK c, r : /\ c \in Calls /\ c = Head(queue).call
                    /\ r = [pc |-> "returned", key |-> Head(queue).key,
                            val |-> Head(queue).item.data]
    BY <1>11, <2>1
  <2>3. call' = [call EXCEPT ![c] = r]
    BY <1>12, <2>2 DEF SetItemDone
  <2>4. r \in Call /\ TrueCall(r)
    BY <1>11, <2>1, <2>2 DEF Call, TrueCall, Item
  <2>5. QED
    BY <2>1, <2>2, <2>3, <2>4, CallGoesOn
<1>13. CASE SetItemFails
  <2>1. /\ queue # <<>> /\ Head(queue).op = "setItem" /\ queue' = Tail(queue)
    BY <1>13 DEF SetItemFails, Serving
  <2>2. PICK c \in Calls : c = Head(queue).call /\ call[c].pc = "storing"
    BY <1>11, <2>1
  <2>3. call' = [call EXCEPT ![c] = Caught(c)]
    BY <1>13, <2>2 DEF SetItemFails
  <2>4. Caught(c) \in Call /\ TrueCall(Caught(c))
    BY <1>1, <2>2, CaughtAnswer, CaughtTrue
  <2>5. QED
    BY <2>1, <2>2, <2>3, <2>4, CallGoesOn
<1>14. CASE RemoveItemDone \/ RemoveItemFails \/ MultiGetDone \/ BootFails
  BY <1>14, CallsStay DEF RemoveItemDone, RemoveItemFails, MultiGetDone,
     BootFails, Serving
<1>15. CASE ClearDone \/ GetAllKeysDone
  <2>1. PICK x \in Operation : /\ x.op # "setItem"
                               /\ queue' = Append(Tail(queue), x)
    <3>1. /\ [op |-> "getAllKeys"] \in Operation
          /\ [op |-> "multiGet"] \in Operation
      BY DEF Operation
    <3>2. QED
      BY <1>15, <3>1 DEF ClearDone, GetAllKeysDone
  <2>2. queue # <<>> /\ UNCHANGED call
    BY <1>15 DEF ClearDone, GetAllKeysDone, Serving
  <2>3. QED
    BY <2>1, <2>2, CallsStay
<1>16. CASE StorageAnswers
  BY <1>12, <1>13, <1>14, <1>15, <1>16 DEF StorageAnswers
<1>17. ASSUME NEW c \in Calls, FetchSettles(c)
       PROVE  CallsTrue' /\ StoresUnderKey'
  BY <1>7, <1>8, <1>9, <1>17 DEF FetchSettles
<1>18. QED
  BY <1>3, <1>4, <1>5, <1>6, <1>10, <1>16, <1>17 DEF CacheNext

(* Memory goes back to older data only with an answer that was overtaken   *)
(* by another write, or when initializeCache copies the disk.              *)
LEMMA GoesBackOnlyWhenOvertaken ==
    ASSUME TruthInv, CacheNext, NEW k \in Keys, Present(cache, k),
           Present(cache', k), cache'[k].data < cache[k].data,
           ~ Overtaken(k)
    PROVE  Serving("multiGet")
<1>1. /\ CacheTypeOK /\ call \in [Calls -> Call]
      /\ cache \in [Keys -> Item \cup {NoItem}] /\ CallsTrue
  BY DEF TruthInv, CacheInv, CacheTypeOK
<1>2. cache[k].data \in Nat
  BY <1>1 DEF Present, Item, Version
<1>3. ~ UNCHANGED cache
  BY <1>2
<1>4. ASSUME NEW c \in Calls, NEW v \in Version, FetchSucceeds(c, v)
      PROVE  FALSE
  <2>1. /\ call[c] \in Call /\ call[c].pc = "fetching"
        /\ v \in call[c].since .. remote[call[c].key]
        /\ cache' = [cache EXCEPT ![call[c].key] = Fresh(v, call[c].life)]
    BY <1>1, <1>4 DEF FetchSucceeds
  <2>2. call[c].key = k
    BY <1>1, <1>2, <2>1
  <2>3. cache'[k].data = v
    BY <1>1, <2>1, <2>2 DEF Fresh
  <2>4. call[c].old = cache[k]
    BY <2>1, <2>2 DEF Overtaken
  <2>5. cache[k].data <= call[c].since
    BY <1>1, <2>1, <2>4 DEF CallsTrue, TrueCall, Present
  <2>6. call[c].since \in Nat
    BY <2>1 DEF Call, Version
  <2>7. QED
    BY <1>2, <2>1, <2>3, <2>5, <2>6
<1>5. ASSUME NEW j \in Keys, ClearCache(j)  PROVE FALSE
  <2>1. cache' = [cache EXCEPT ![j] = NoItem]
    BY <1>5 DEF ClearCache
  <2>2. j = k => cache'[k] = NoItem
    BY <1>1, <2>1
  <2>3. j # k => cache'[k] = cache[k]
    BY <1>1, <2>1
  <2>4. QED
    BY <1>2, <2>2, <2>3 DEF Present
<1>6. ~ Restart
  BY DEF Restart, Boot, Present
<1>7. CASE MultiGetDone
  BY <1>7 DEF MultiGetDone
<1>8. ASSUME StorageAnswers, ~ MultiGetDone  PROVE FALSE
  BY <1>3, <1>8 DEF StorageAnswers, SetItemDone, SetItemFails,
     RemoveItemDone, RemoveItemFails, ClearDone, GetAllKeysDone, BootFails
<1>9. ASSUME NEW c \in Calls, FetchSettles(c) \/ TakeAnswer(c)  PROVE FALSE
  BY <1>3, <1>4, <1>9 DEF FetchSettles, FetchFails, FetchHangs, TakeAnswer
<1>10. ASSUME NEW c \in Calls, NEW j \in Keys, NEW life \in Lifetimes,
              GetData(c, j, life)
       PROVE  FALSE
  BY <1>3, <1>10 DEF GetData
<1>11. ASSUME \/ Tick
              \/ \E j \in Keys : RemoteChanges(j)
              \/ \E j \in Keys, f \in Callbacks :
                    RegisterUpdateCallback(j, f) \/ UnregisterUpdateCallback(j, f)
       PROVE  FALSE
  BY <1>3, <1>11 DEF Tick, RemoteChanges, RegisterUpdateCallback,
     UnregisterUpdateCallback
<1>12. QED
  BY <1>5, <1>6, <1>7, <1>8, <1>9, <1>10, <1>11 DEF CacheNext

(* Memory goes back to older data only where a fetch was overtaken or      *)
(* initializeCache copies the disk.                                        *)
THEOREM MemoryGoesForward == CacheSpec => MemoryGoesBackOnlyWhenOvertaken
<1>1. TruthInv /\ [CacheNext]_cacheVars =>
         [\A k \in Keys :
             /\ Present(cache, k) /\ Present(cache', k)
             /\ cache'[k].data < cache[k].data
             => Overtaken(k) \/ Serving("multiGet")]_cacheVars
  <2> SUFFICES ASSUME TruthInv, CacheNext, NEW k \in Keys, Present(cache, k),
                      Present(cache', k), cache'[k].data < cache[k].data
               PROVE  Overtaken(k) \/ Serving("multiGet")
    OBVIOUS
  <2>1. QED
    BY GoesBackOnlyWhenOvertaken
<1>2. QED
  BY <1>1, TruthInitially, TruthInductive, PTL
     DEF CacheSpec, MemoryGoesBackOnlyWhenOvertaken

-----------------------------------------------------------------------------
(* What a screen shows is no newer than the source, and its load asked     *)
(* the source after it was shown.                                          *)
LoadsTheirKey ==
    \A c \in Calls, i \in Hooks :
        LoadOf(c, i) => call[c].pc # "idle" /\ call[c].key = KeyOf[i]

ShownTrue ==
    \A i \in Hooks : hook[i].mounted /\ hook[i].data # NoData =>
        hook[i].data <= remote[KeyOf[i]]

AskedAfterShown ==
    \A c \in Calls, i \in Hooks :
        /\ LoadOf(c, i) /\ hook[i].mounted /\ hook[i].data # NoData
        => /\ call[c].pc \in {"fetching", "hung"} =>
                 hook[i].data <= call[c].since
           /\ call[c].pc = "storing" => hook[i].data <= call[c].val

ShownInv ==
    /\ HookInv /\ TruthInv
    /\ LoadsTheirKey
    /\ ShownTrue
    /\ AskedAfterShown

(* What becomes of a call when no hook takes part.                         *)
LEMMA CallInBackground ==
    ASSUME TruthInv, NEW d \in Calls,
           \/ Tick
           \/ \E k \in Keys : RemoteChanges(k)
           \/ \E c \in Calls : FetchSettles(c)
           \/ StorageAnswers
    PROVE  /\ call'[d].key = call[d].key
           /\ \/ call'[d] = call[d]
              \/ /\ call[d].pc = "fetching" /\ call'[d].pc = "hung"
                 /\ call'[d].since = call[d].since
              \/ /\ call[d].pc = "fetching" /\ call'[d].pc = "storing"
                 /\ call'[d].val \in Nat /\ call[d].since <= call'[d].val
              \/ call'[d].pc \in {"returned", "threw"}
<1>1. /\ call \in [Calls -> Call] /\ queue \in Seq(Operation)
      /\ StoresHaveTheirCall /\ StoresUnderKey /\ CacheTypeOK
  BY DEF TruthInv, CacheInv, CacheTypeOK
<1>2. ASSUME NEW c \in Calls, NEW v \in Version, FetchSucceeds(c, v)
      PROVE  \/ call'[d] = call[d]
             \/ /\ call[d].pc = "fetching" /\ call'[d].pc = "storing"
                /\ call'[d].val \in Nat /\ call[d].since <= call'[d].val
                /\ call'[d].key = call[d].key
  <2>1. /\ call[c].pc = "fetching" /\ v \in call[c].since .. remote[call[c].key]
        /\ call[c] \in Call
        /\ call' = [call EXCEPT ![c] = [pc |-> "storing", key |-> call[c].key,
                       life |-> call[c].life, old |-> call[c].old, val |-> v]]
    BY <1>1, <1>2 DEF FetchSucceeds, Call
  <2>2. v \in Nat
    BY DEF Version
  <2>3. CASE d = c
    BY <1>1, <2>1, <2>2, <2>3
  <2>4. CASE d # c
    BY <1>1, <2>1, <2>4
  <2>5. QED
    BY <2>3, <2>4
<1>3. ASSUME NEW c \in Calls, call[c].pc \in {"fetching", "storing"},
             call' = [call EXCEPT ![c] = Caught(c)]
      PROVE  \/ call'[d] = call[d]
             \/ /\ call'[d].pc \in {"returned", "threw"}
                /\ call'[d].key = call[d].key
  BY <1>1, <1>3, CaughtAnswer, CaughtTrue
<1>4. ASSUME NEW c \in Calls, FetchFails(c)
      PROVE  \/ call'[d] = call[d]
             \/ /\ call'[d].pc \in {"returned", "threw"}
                /\ call'[d].key = call[d].key
  BY <1>3, <1>4 DEF FetchFails
<1>5. ASSUME NEW c \in Calls, FetchHangs(c)
      PROVE  \/ call'[d] = call[d]
             \/ /\ call[d].pc = "fetching" /\ call'[d].pc = "hung"
                /\ call'[d].since = call[d].since
                /\ call'[d].key = call[d].key
  <2>1. /\ call[c].pc = "fetching" /\ call[c] \in Call
        /\ call' = [call EXCEPT ![c] = [call[c] EXCEPT !.pc = "hung"]]
    BY <1>1, <1>5 DEF FetchHangs
  <2>2. PICK r : r = [call[c] EXCEPT !.pc = "hung"]
    OBVIOUS
  <2>3. r.pc = "hung" /\ r.since = call[c].since /\ r.key = call[c].key
    BY <2>1, <2>2 DEF Call
  <2>4. \A e \in Calls : call'[e] = IF e = c THEN r ELSE call[e]
    BY <1>1, <2>1, <2>2
  <2>5. QED
    BY <2>1, <2>3, <2>4
<1>6. ASSUME queue # <<>>, Head(queue).op = "setItem"
      PROVE  /\ Head(queue).call \in Calls
             /\ call[Head(queue).call].pc = "storing"
             /\ Head(queue).key = call[Head(queue).call].key
  <2>1. /\ Head(queue) = queue[1] /\ 1 \in 1 .. Len(queue)
        /\ Head(queue) \in Operation
    BY <1>1, <1>6, Served
  <2>2. QED
    BY <1>1, <1>6, <2>1 DEF Operation, StoresHaveTheirCall, StoresUnderKey
<1>7. CASE SetItemDone
  <2>1. queue # <<>> /\ Head(queue).op = "setItem"
    BY <1>7 DEF SetItemDone, Serving
  <2>2. PICK c, r : /\ c \in Calls /\ c = Head(queue).call
                    /\ r = [pc |-> "returned", key |-> Head(queue).key,
                            val |-> Head(queue).item.data]
    BY <1>6, <2>1
  <2>3. call' = [call EXCEPT ![c] = r]
    BY <1>7, <2>2 DEF SetItemDone
  <2>4. r.pc = "returned" /\ r.key = call[c].key
    BY <1>6, <2>1, <2>2
  <2>5. QED
    BY <1>1, <2>3, <2>4
<1>8. CASE SetItemFails
  <2>1. queue # <<>> /\ Head(queue).op = "setItem"
    BY <1>8 DEF SetItemFails, Serving
  <2>2. PICK c \in Calls : c = Head(queue).call /\ call[c].pc = "storing"
    BY <1>6, <2>1
  <2>3. call' = [call EXCEPT ![c] = Caught(c)]
    BY <1>8, <2>2 DEF SetItemFails
  <2>4. QED
    BY <1>3, <2>2, <2>3
<1>9. CASE \/ Tick
           \/ \E k \in Keys : RemoteChanges(k)
           \/ RemoveItemDone
           \/ RemoveItemFails
           \/ ClearDone
           \/ GetAllKeysDone
           \/ MultiGetDone
           \/ BootFails
  BY <1>9 DEF Tick, RemoteChanges, RemoveItemDone, RemoveItemFails, ClearDone,
     GetAllKeysDone, MultiGetDone, BootFails
<1>10. ASSUME NEW c \in Calls, FetchSettles(c)
       PROVE  /\ call'[d].key = call[d].key
              /\ \/ call'[d] = call[d]
                 \/ /\ call[d].pc = "fetching" /\ call'[d].pc = "hung"
                    /\ call'[d].since = call[d].since
                 \/ /\ call[d].pc = "fetching" /\ call'[d].pc = "storing"
                    /\ call'[d].val \in Nat /\ call[d].since <= call'[d].val
                 \/ call'[d].pc \in {"returned", "threw"}
  BY <1>2, <1>4, <1>5, <1>10 DEF FetchSettles
<1>11. QED
  BY <1>7, <1>8, <1>9, <1>10 DEF StorageAnswers

LEMMA ShownInitially == Init => ShownInv
<1> SUFFICES ASSUME Init  PROVE ShownInv
  OBVIOUS
<1>1. HookInv /\ TruthInv
  BY HookInitially, TruthInitially DEF Init
<1>2. /\ \A c \in Calls, i \in Hooks : ~ LoadOf(c, i)
      /\ \A i \in Hooks : ~ hook[i].mounted
  BY DEF Init, LoadOf, Idle, NewHook
<1>3. LoadsTheirKey
  <2>1. ASSUME NEW c \in Calls, NEW i \in Hooks, LoadOf(c, i)  PROVE FALSE
    BY <1>2, <2>1
  <2>2. QED
    BY <2>1 DEF LoadsTheirKey
<1>4. ShownTrue
  BY <1>2 DEF ShownTrue
<1>5. AskedAfterShown
  BY <1>2 DEF AskedAfterShown
<1>6. QED
  BY <1>1, <1>3, <1>4, <1>5 DEF ShownInv

LEMMA BackgroundShows ==
    ASSUME ShownInv, Background
    PROVE  LoadsTheirKey' /\ ShownTrue' /\ AskedAfterShown'
<1>1. /\ hook' = hook /\ load' = load
      /\ [CacheNext]_cacheVars
      /\ TruthInv /\ CacheTypeOK /\ hook \in [Hooks -> Hook]
      /\ call \in [Calls -> Call] /\ remote \in [Keys -> Version]
      /\ KeyOf \in [Hooks -> Keys]
  BY HookStepIsCacheStep, HooksAssumption
     DEF Background, hookVars, Next, ShownInv, HookInv, TruthInv, CacheInv,
         CacheTypeOK
<1>2. \A c \in Calls, i \in Hooks : LoadOf(c, i)' <=> LoadOf(c, i)
  BY <1>1 DEF LoadOf
<1>3. ASSUME NEW d \in Calls, call[d].pc # "idle"
      PROVE  /\ call'[d].pc # "idle" /\ call'[d].key = call[d].key
             /\ \/ call'[d] = call[d]
                \/ /\ call[d].pc = "fetching" /\ call'[d].pc = "hung"
                   /\ call'[d].since = call[d].since
                \/ /\ call[d].pc = "fetching" /\ call'[d].pc = "storing"
                   /\ call'[d].val \in Nat /\ call[d].since <= call'[d].val
                \/ call'[d].pc \in {"returned", "threw"}
  BY <1>1, <1>3, CallInBackground DEF Background
<1>4. LoadsTheirKey'
  BY <1>2, <1>3 DEF ShownInv, LoadsTheirKey
<1>5. ASSUME NEW i \in Hooks, hook[i].mounted, hook[i].data # NoData
      PROVE  hook[i].data \in Nat /\ hook[i].data <= remote'[KeyOf[i]]
  <2>1. hook[i].data \in Nat
    BY <1>1, <1>5 DEF Hook, Version
  <2>2. hook[i].data <= remote[KeyOf[i]]
    BY <1>5 DEF ShownInv, ShownTrue
  <2>3. /\ remote[KeyOf[i]] \in Nat
        /\ remote[KeyOf[i]] <= remote'[KeyOf[i]]
    BY <1>1, RemoteGrows
  <2>4. remote'[KeyOf[i]] \in Nat
    BY <1>1, TruthInductive DEF TruthInv, CacheInv, CacheTypeOK, Version
  <2>5. QED
    BY <2>1, <2>2, <2>3, <2>4
<1>6. ShownTrue'
  BY <1>1, <1>5 DEF ShownTrue
<1>7. ASSUME NEW c \in Calls, NEW i \in Hooks, LoadOf(c, i), hook[i].mounted,
             hook[i].data # NoData
      PROVE  /\ call'[c].pc \in {"fetching", "hung"} =>
                   hook[i].data <= call'[c].since
             /\ call'[c].pc = "storing" => hook[i].data <= call'[c].val
  <2>1. call[c].pc # "idle"
    BY <1>7 DEF ShownInv, LoadsTheirKey
  <2>2. /\ call[c].pc \in {"fetching", "hung"} =>
              hook[i].data <= call[c].since
        /\ call[c].pc = "storing" => hook[i].data <= call[c].val
    BY <1>7 DEF ShownInv, AskedAfterShown
  <2>3. CASE call'[c] = call[c]
    BY <2>2, <2>3
  <2>4. CASE /\ call[c].pc = "fetching" /\ call'[c].pc = "hung"
             /\ call'[c].since = call[c].since
    BY <2>2, <2>4
  <2>5. CASE /\ call[c].pc = "fetching" /\ call'[c].pc = "storing"
             /\ call'[c].val \in Nat /\ call[c].since <= call'[c].val
    <3>1. hook[i].data \in Nat
      BY <1>5, <1>7
    <3>2. call[c].since \in Nat
      <4>1. call[c] \in Call
        BY <1>1
      <4>2. QED
        BY <2>5, <4>1 DEF Call, Version
    <3>3. QED
      BY <2>2, <2>5, <3>1, <3>2
  <2>6. CASE call'[c].pc \in {"returned", "threw"}
    BY <2>6
  <2>7. QED
    BY <1>3, <2>1, <2>3, <2>4, <2>5, <2>6
<1>8. AskedAfterShown'
  BY <1>1, <1>2, <1>7 DEF AskedAfterShown
<1>9. QED
  BY <1>4, <1>6, <1>8

(* What memory has for an instance is no newer than the source.            *)
LEMMA CachedTrue ==
    ASSUME TruthInv, NEW i \in Hooks
    PROVE  Cached(i) \in Version \cup {NoData}
           /\ (Cached(i) # NoData => Cached(i) <= remote[KeyOf[i]])
<1>1. KeyOf[i] \in Keys
  BY HooksAssumption
<1>2. PICK item : item = cache[KeyOf[i]]
  OBVIOUS
<1>3. item = NoItem \/ (item \in Item /\ item.data <= remote[KeyOf[i]])
  BY <1>1, <1>2 DEF TruthInv, Stored, TrueItems
<1>4. Cached(i) = DataOf(item)
  BY <1>2 DEF Cached
<1>5. CASE item = NoItem
  BY <1>4, <1>5 DEF DataOf
<1>6. CASE item # NoItem
  <2>1. Cached(i) = item.data /\ item \in Item /\ item.data <= remote[KeyOf[i]]
    BY <1>3, <1>4, <1>6 DEF DataOf
  <2>2. item.data \in Version
    BY <2>1 DEF Item
  <2>3. QED
    BY <2>1, <2>2
<1>7. QED
  BY <1>5, <1>6

(* A load begins on an instance that has none.                             *)
LEMMA StartLoadShows ==
    ASSUME ShownInv, NEW c \in Calls, NEW i \in Hooks, NEW h \in Hook,
           NEW force \in BOOLEAN, \A d \in Calls : ~ LoadOf(d, i),
           h.data # NoData => h.data <= remote[KeyOf[i]],
           StartLoad(c, i, h, force)
    PROVE  LoadsTheirKey' /\ ShownTrue' /\ AskedAfterShown'
<1>1. /\ hook \in [Hooks -> Hook] /\ load \in [Calls -> Load]
      /\ call \in [Calls -> Call] /\ KeyOf[i] \in Keys
      /\ LoadsTheirKey /\ ShownTrue /\ AskedAfterShown
  BY HooksAssumption DEF ShownInv, HookInv, CacheInv, CacheTypeOK
<1>2. PICK s : s = Shown(i, h, force)
  OBVIOUS
<1>3. /\ s \in Version \cup {NoData}
      /\ s # NoData => s <= remote[KeyOf[i]]
  BY <1>2, CachedTrue DEF ShownInv, Shown, Hook
<1>4. PICK begun : begun = [h EXCEPT !.data = Shown(i, h, force),
                         !.isLoading = @ /\ (force \/ Cached(i) = NoData)]
  OBVIOUS
<1>5. begun \in Hook /\ begun.data = s
  BY <1>2, <1>3, <1>4 DEF Hook
<1>6. ASSUME NEW g \in Hook, g.data = s, hook' = [hook EXCEPT ![i] = g],
             UNCHANGED remote
      PROVE  /\ ShownTrue'
             /\ \A j \in Hooks : j # i => hook'[j] = hook[j]
             /\ hook'[i].data = s
  <2>1. \A j \in Hooks : hook'[j] = IF j = i THEN g ELSE hook[j]
    BY <1>1, <1>6
  <2>2. QED
    BY <1>1, <1>3, <1>6, <2>1 DEF ShownTrue
<1>7. CASE /\ hook' = [hook EXCEPT ![i] =
                    [begun EXCEPT !.isRefreshing = @ \/ force,
                                  !.locked = TRUE]]
           /\ load' = [load EXCEPT ![c] =
                    [pc |-> "getting", hook |-> i, force |-> force]]
           /\ GetData(c, KeyOf[i], IF force THEN 0 ELSE Life[KeyOf[i]])
           /\ load[c].pc = "idle"
  <2>1. PICK g : g = [begun EXCEPT !.isRefreshing = @ \/ force, !.locked = TRUE]
    OBVIOUS
  <2>2. g \in Hook /\ g.data = s
    BY <1>5, <2>1 DEF Hook
  <2>3. hook' = [hook EXCEPT ![i] = g] /\ UNCHANGED remote
    BY <1>7, <2>1 DEF GetData
  <2>4. PICK life : life = IF force THEN 0 ELSE Life[KeyOf[i]]
    OBVIOUS
  <2>5. PICK r : /\ call' = [call EXCEPT ![c] = r]
                 /\ r.key = KeyOf[i]
                 /\ \/ r.pc = "fetching" /\ r.since = remote[KeyOf[i]]
                    \/ r.pc = "returned"
    <3>1. GetData(c, KeyOf[i], life)
      BY <1>7, <2>4
    <3>2. CASE NeedsFetch(KeyOf[i], life)
      <4>1. PICK r : r = [pc |-> "fetching", key |-> KeyOf[i],
                          life |-> life, old |-> cache[KeyOf[i]],
                          since |-> remote[KeyOf[i]]]
        OBVIOUS
      <4>2. call' = [call EXCEPT ![c] = r]
        BY <3>1, <3>2, <4>1 DEF GetData
      <4>3. r.key = KeyOf[i] /\ r.pc = "fetching" /\ r.since = remote[KeyOf[i]]
        BY <4>1
      <4>4. QED
        BY <4>2, <4>3
    <3>3. CASE ~ NeedsFetch(KeyOf[i], life)
      <4>1. PICK r : r = [pc |-> "returned", key |-> KeyOf[i],
                          val |-> cache[KeyOf[i]].data]
        OBVIOUS
      <4>2. call' = [call EXCEPT ![c] = r]
        BY <3>1, <3>3, <4>1 DEF GetData
      <4>3. r.key = KeyOf[i] /\ r.pc = "returned"
        BY <4>1
      <4>4. QED
        BY <4>2, <4>3
    <3>4. QED
      BY <3>2, <3>3
  <2>6. \A d \in Calls, j \in Hooks :
           LoadOf(d, j)' <=> (d = c /\ j = i) \/ (LoadOf(d, j) /\ d # c /\ j # i)
    <3>1. PICK l : l = [pc |-> "getting", hook |-> i, force |-> force]
      OBVIOUS
    <3>2. l.pc = "getting" /\ l.hook = i
      BY <3>1
    <3>3. \A d \in Calls : load'[d] = IF d = c THEN l ELSE load[d]
      BY <1>1, <1>7, <3>1
    <3>4. QED
      BY <1>7, <3>2, <3>3 DEF LoadOf
  <2>7. \A d \in Calls : call'[d] = IF d = c THEN r ELSE call[d]
    BY <1>1, <2>5
  <2>8. /\ ShownTrue' /\ hook'[i].data = s
        /\ \A j \in Hooks : j # i => hook'[j] = hook[j]
    BY <1>6, <2>2, <2>3
  <2>9. LoadsTheirKey'
    BY <1>1, <2>5, <2>6, <2>7 DEF LoadsTheirKey
  <2>10. ASSUME NEW d \in Calls, NEW j \in Hooks, LoadOf(d, j)',
                hook'[j].mounted, hook'[j].data # NoData
         PROVE  /\ call'[d].pc \in {"fetching", "hung"} =>
                      hook'[j].data <= call'[d].since
                /\ call'[d].pc = "storing" => hook'[j].data <= call'[d].val
    <3>1. CASE d = c /\ j = i
      <4>1. call'[d] = r /\ hook'[j].data = s
        BY <2>7, <2>8, <3>1
      <4>2. s <= remote[KeyOf[i]]
        BY <1>3, <2>10, <4>1
      <4>3. QED
        BY <2>5, <4>1, <4>2
    <3>2. CASE LoadOf(d, j) /\ d # c /\ j # i
      <4>1. call'[d] = call[d] /\ hook'[j] = hook[j]
        BY <2>7, <2>8, <3>2
      <4>2. QED
        BY <1>1, <2>10, <3>2, <4>1 DEF AskedAfterShown
    <3>3. QED
      BY <2>6, <2>10, <3>1, <3>2
  <2>11. AskedAfterShown'
    BY <2>10 DEF AskedAfterShown
  <2>12. QED
    BY <2>8, <2>9, <2>11
<1>8. CASE /\ hook' = [hook EXCEPT ![i] =
                    Ended(begun, [pc |-> "returned", val |-> begun.data])]
           /\ UNCHANGED <<cacheVars, load>>
  <2>1. PICK g : g = Ended(begun, [pc |-> "returned", val |-> begun.data])
    OBVIOUS
  <2>2. g \in Hook /\ g.data = s
    BY <1>5, <2>1 DEF Hook, Ended
  <2>3. hook' = [hook EXCEPT ![i] = g] /\ UNCHANGED <<remote, call, load>>
    BY <1>8, <2>1
  <2>4. /\ ShownTrue'
        /\ \A j \in Hooks : j # i => hook'[j] = hook[j]
    BY <1>6, <2>2, <2>3
  <2>5. \A d \in Calls, j \in Hooks : LoadOf(d, j)' <=> LoadOf(d, j)
    BY <2>3 DEF LoadOf
  <2>6. LoadsTheirKey'
    BY <1>1, <2>3, <2>5 DEF LoadsTheirKey
  <2>7. \A d \in Calls, j \in Hooks : LoadOf(d, j) => hook'[j] = hook[j]
    BY <2>4
  <2>8. AskedAfterShown'
    BY <1>1, <2>3, <2>5, <2>7 DEF AskedAfterShown
  <2>9. QED
    BY <2>4, <2>6, <2>8
<1>9. QED
  BY <1>4, <1>7, <1>8 DEF StartLoad, MayStart

(* The answer of a load is no newer than the source, and no other load of  *)
(* its instance runs.                                                      *)
LEMMA FinishLoadShows ==
    ASSUME ShownInv, NEW c \in Calls, FinishLoad(c)
    PROVE  LoadsTheirKey' /\ ShownTrue' /\ AskedAfterShown'
<1>1. /\ hook \in [Hooks -> Hook] /\ load \in [Calls -> Load]
      /\ call \in [Calls -> Call]
      /\ LoadsTheirKey /\ ShownTrue /\ AskedAfterShown /\ OneLoadPerHook
      /\ CallsTrue
  BY DEF ShownInv, HookInv, CacheInv, CacheTypeOK, TruthInv
<1>2. PICK i \in Hooks : load[c].hook = i /\ LoadOf(c, i)
  BY <1>1 DEF FinishLoad, Load, LoadOf
<1>3. PICK g : g = Ended(hook[i], call[c])
  OBVIOUS
<1>4. call[c].pc = "returned" =>
         call[c].val \in Version /\ call[c].val <= remote[KeyOf[i]]
  <2>1. call[c] \in Call
    BY <1>1
  <2>2. call[c].key = KeyOf[i]
    BY <1>1, <1>2 DEF LoadsTheirKey
  <2>3. TrueCall(call[c])
    BY <1>1 DEF CallsTrue
  <2>4. QED
    BY <2>1, <2>2, <2>3 DEF Call, TrueCall
<1>5. /\ g \in Hook /\ g.mounted = hook[i].mounted
      /\ g.data = hook[i].data \/ (call[c].pc = "returned" /\ g.data = call[c].val)
  BY <1>1, <1>3, <1>4 DEF Hook, Ended
<1>6. /\ \A j \in Hooks : hook'[j] = IF j = i THEN g ELSE hook[j]
      /\ \A d \in Calls : load'[d] = IF d = c THEN Idle ELSE load[d]
      /\ \A d \in Calls : call'[d] = IF d = c THEN Idle ELSE call[d]
      /\ UNCHANGED remote
  BY <1>1, <1>2, <1>3 DEF FinishLoad, TakeAnswer
<1>7. ASSUME NEW d \in Calls, NEW j \in Hooks, LoadOf(d, j)'
      PROVE  LoadOf(d, j) /\ d # c /\ j # i
  <2>1. d # c
    BY <1>6, <1>7 DEF LoadOf, Idle
  <2>2. LoadOf(d, j)
    BY <1>6, <1>7, <2>1 DEF LoadOf
  <2>3. QED
    BY <1>1, <1>2, <2>1, <2>2 DEF OneLoadPerHook
<1>8. LoadsTheirKey'
  BY <1>1, <1>6, <1>7 DEF LoadsTheirKey
<1>9. ShownTrue'
  <2>1. ASSUME NEW j \in Hooks, hook'[j].mounted, hook'[j].data # NoData
        PROVE  hook'[j].data <= remote[KeyOf[j]]
    <3>1. CASE j # i
      BY <1>1, <1>6, <2>1, <3>1 DEF ShownTrue
    <3>2. CASE j = i /\ g.data = hook[i].data
      BY <1>1, <1>5, <1>6, <2>1, <3>2 DEF ShownTrue
    <3>3. CASE j = i /\ call[c].pc = "returned" /\ g.data = call[c].val
      BY <1>4, <1>6, <3>3
    <3>4. QED
      BY <1>5, <3>1, <3>2, <3>3
  <2>2. QED
    BY <1>6, <2>1 DEF ShownTrue
<1>10. AskedAfterShown'
  <2>1. \A d \in Calls, j \in Hooks : LoadOf(d, j)' =>
           LoadOf(d, j) /\ call'[d] = call[d] /\ hook'[j] = hook[j]
    BY <1>6, <1>7
  <2>2. QED
    BY <1>1, <2>1 DEF AskedAfterShown
<1>11. QED
  BY <1>8, <1>9, <1>10

(* An unmounted instance shows nothing.                                    *)
LEMMA UnmountShows ==
    ASSUME ShownInv, NEW i \in Hooks, Unmount(i)
    PROVE  LoadsTheirKey' /\ ShownTrue' /\ AskedAfterShown'
<1>1. /\ hook \in [Hooks -> Hook]
      /\ LoadsTheirKey /\ ShownTrue /\ AskedAfterShown
  BY DEF ShownInv, HookInv
<1>2. PICK g : g = [hook[i] EXCEPT !.mounted = FALSE]
  OBVIOUS
<1>3. ~ g.mounted
  BY <1>1, <1>2 DEF Hook
<1>4. /\ \A j \in Hooks : hook'[j] = IF j = i THEN g ELSE hook[j]
      /\ UNCHANGED <<load, call, remote>>
  BY <1>1, <1>2 DEF Unmount
<1>5. \A d \in Calls, j \in Hooks : LoadOf(d, j)' <=> LoadOf(d, j)
  BY <1>4 DEF LoadOf
<1>6. \A j \in Hooks : hook'[j].mounted => hook'[j] = hook[j]
  BY <1>3, <1>4
<1>7. LoadsTheirKey'
  BY <1>1, <1>4, <1>5 DEF LoadsTheirKey
<1>8. ShownTrue'
  BY <1>1, <1>4, <1>6 DEF ShownTrue
<1>9. AskedAfterShown'
  BY <1>1, <1>4, <1>5, <1>6 DEF AskedAfterShown
<1>10. QED
  BY <1>7, <1>8, <1>9

LEMMA ShownInductive == ShownInv /\ [Next]_vars => ShownInv'
<1> SUFFICES ASSUME ShownInv, [Next]_vars  PROVE ShownInv'
  OBVIOUS
<1>1. HookInv' /\ TruthInv'
  BY HookInductive, HookStepIsCacheStep, TruthInductive DEF ShownInv
<1>2. hook \in [Hooks -> Hook] /\ LockHeld
  BY DEF ShownInv, HookInv
<1>3. ASSUME NEW i \in Hooks, Mount(i)
      PROVE  LoadsTheirKey' /\ ShownTrue' /\ AskedAfterShown'
  <2>1. PICK h : h = [NewHook EXCEPT !.mounted = TRUE]
    OBVIOUS
  <2>2. h \in Hook /\ h.data = NoData
    BY <2>1 DEF NewHook, Hook
  <2>3. PICK c \in Calls : StartLoad(c, i, h, FALSE)
    BY <1>3, <2>1 DEF Mount
  <2>4. \A d \in Calls : ~ LoadOf(d, i)
    BY <1>3 DEF Mount
  <2>5. QED
    BY <2>2, <2>3, <2>4, StartLoadShows
<1>4. ASSUME NEW i \in Hooks, Reload(i) \/ Refresh(i)
      PROVE  LoadsTheirKey' /\ ShownTrue' /\ AskedAfterShown'
  <2>1. PICK c \in Calls, force \in BOOLEAN : StartLoad(c, i, hook[i], force)
    BY <1>4 DEF Reload, Refresh
  <2>2. hook[i] \in Hook /\ hook[i].mounted
    BY <1>2, <1>4 DEF Reload, Refresh
  <2>3. ~ hook[i].locked
    BY <2>1 DEF StartLoad, MayStart
  <2>4. \A d \in Calls : ~ LoadOf(d, i)
    BY <1>2, <2>3 DEF LockHeld
  <2>5. hook[i].data # NoData => hook[i].data <= remote[KeyOf[i]]
    BY <2>2 DEF ShownInv, ShownTrue
  <2>6. QED
    BY <2>1, <2>2, <2>4, <2>5, StartLoadShows
<1>5. ASSUME AppRestart
      PROVE  LoadsTheirKey' /\ ShownTrue' /\ AskedAfterShown'
  <2>1. /\ \A c \in Calls, i \in Hooks : ~ LoadOf(c, i)'
        /\ \A i \in Hooks : ~ hook'[i].mounted
    BY <1>5 DEF AppRestart, LoadOf, Idle, NewHook
  <2>2. LoadsTheirKey'
    BY <2>1 DEF LoadsTheirKey
  <2>3. ShownTrue'
    BY <2>1 DEF ShownTrue
  <2>4. AskedAfterShown'
    BY <2>1 DEF AskedAfterShown
  <2>5. QED
    BY <2>2, <2>3, <2>4
<1>6. ASSUME UNCHANGED vars
      PROVE  LoadsTheirKey' /\ ShownTrue' /\ AskedAfterShown'
  BY <1>6 DEF ShownInv, LoadsTheirKey, ShownTrue, AskedAfterShown, LoadOf,
     vars, hookVars
<1>7. LoadsTheirKey' /\ ShownTrue' /\ AskedAfterShown'
  BY <1>3, <1>4, <1>5, <1>6, FinishLoadShows, UnmountShows, BackgroundShows
     DEF Next
<1>8. QED
  BY <1>1, <1>7 DEF ShownInv

(* A screen is never set back by the answer of the source.                 *)
THEOREM AnswersNotOlder == Spec => []AnswerNotOlderThanShown
<1>1. ShownInv => AnswerNotOlderThanShown
  BY DEF ShownInv, AskedAfterShown, AnswerNotOlderThanShown
<1>2. QED
  BY <1>1, ShownInitially, ShownInductive, PTL DEF Spec

-----------------------------------------------------------------------------
(* The hooks ask for no more than the lifetime of a key, so no item expires *)
(* later than that.                                                        *)
YoungItems ==
    [k \in Keys |-> {item \in Item : item.expiration <= item.at + Life[k]}]

YoungCalls ==
    \A c \in Calls : call[c].pc = "fetching" =>
        call[c].life <= Life[call[c].key]

YoungInv == HookInv /\ TruthInv /\ Stored(YoungItems) /\ YoungCalls

LEMMA YoungInitially == Init => YoungInv
<1> SUFFICES ASSUME Init  PROVE YoungInv
  OBVIOUS
<1>1. HookInv /\ TruthInv
  BY HookInitially, TruthInitially DEF Init
<1>2. queue = <<[op |-> "clear"]>> /\ Len(queue) = 1 /\ queue[1].op = "clear"
  BY DEF Init, CacheInit
<1>3. Stored(YoungItems)
  BY <1>2 DEF Init, CacheInit, Stored
<1>4. YoungCalls
  BY DEF Init, CacheInit, YoungCalls, Idle
<1>5. QED
  BY <1>1, <1>3, <1>4 DEF YoungInv

LEMMA ItemsStayYoung ==
    YoungInv /\ [CacheNext]_cacheVars => Stored(YoungItems)'
<1> SUFFICES ASSUME YoungInv, [CacheNext]_cacheVars
             PROVE  Stored(YoungItems)'
  OBVIOUS
<1>1. CacheTypeOK /\ call \in [Calls -> Call] /\ now \in Nat
  BY DEF YoungInv, TruthInv, CacheInv, CacheTypeOK
<1>2. \A k \in Keys : Life[k] \in Nat
  BY HooksAssumption, LifetimesAssumption
<1>3. PICK G \in [Keys -> SUBSET Item] : G = YoungItems
  BY DEF YoungItems
<1>4. ASSUME NEW c \in Calls, NEW v \in Version, FetchSucceeds(c, v)
      PROVE  Fresh(v, call[c].life) \in G[call[c].key]
  <2>1. call[c] \in Call /\ call[c].pc = "fetching"
    BY <1>1, <1>4 DEF FetchSucceeds
  <2>2. call[c].key \in Keys /\ call[c].life \in Lifetimes
    BY <2>1 DEF Call
  <2>3. call[c].life \in Nat /\ call[c].life <= Life[call[c].key]
    BY <1>4, <2>1, <2>2, LifetimesAssumption DEF YoungInv, YoungCalls
  <2>4. /\ Fresh(v, call[c].life) \in Item
        /\ Fresh(v, call[c].life).expiration = now + call[c].life
        /\ Fresh(v, call[c].life).at = now
    BY <1>1, <2>2, FreshItem DEF Fresh
  <2>5. now + call[c].life <= now + Life[call[c].key]
    BY <1>1, <1>2, <2>2, <2>3
  <2>6. QED
    BY <1>3, <2>2, <2>4, <2>5 DEF YoungItems
<1>5. Stored(G)
  BY <1>3 DEF YoungInv
<1>6. Stored(G)'
  BY <1>1, <1>4, <1>5, ItemsFlow
<1>7. QED
  BY <1>3, <1>6 DEF Stored, YoungItems

LEMMA CallsStayYoung == YoungInv /\ [Next]_vars => YoungCalls'
<1> SUFFICES ASSUME YoungInv, [Next]_vars  PROVE YoungCalls'
  OBVIOUS
<1>1. /\ call \in [Calls -> Call] /\ TruthInv /\ YoungCalls
      /\ \A k \in Keys : Life[k] \in Nat
  BY HooksAssumption, LifetimesAssumption
     DEF YoungInv, TruthInv, CacheInv, CacheTypeOK
<1>2. ASSUME NEW c \in Calls, NEW i \in Hooks, NEW h, NEW force \in BOOLEAN,
             StartLoad(c, i, h, force)
      PROVE  YoungCalls'
  <2>1. PICK life, k : /\ life = (IF force THEN 0 ELSE Life[KeyOf[i]])
                       /\ k = KeyOf[i]
    OBVIOUS
  <2>2. k \in Keys /\ life <= Life[k]
    BY <1>1, <2>1, HooksAssumption
  <2>3. CASE GetData(c, k, life)
    <3>1. CASE NeedsFetch(k, life)
      <4>1. PICK r : r = [pc |-> "fetching", key |-> k, life |-> life,
                          old |-> cache[k], since |-> remote[k]]
        OBVIOUS
      <4>2. call' = [call EXCEPT ![c] = r]
        BY <2>3, <3>1, <4>1 DEF GetData
      <4>3. r.key = k /\ r.life = life
        BY <4>1
      <4>4. QED
        BY <1>1, <2>2, <4>2, <4>3 DEF YoungCalls
    <3>2. CASE ~ NeedsFetch(k, life)
      <4>1. PICK r : r = [pc |-> "returned", key |-> k,
                          val |-> cache[k].data]
        OBVIOUS
      <4>2. call' = [call EXCEPT ![c] = r]
        BY <2>3, <3>2, <4>1 DEF GetData
      <4>3. r.pc # "fetching"
        BY <4>1
      <4>4. QED
        BY <1>1, <4>2, <4>3 DEF YoungCalls
    <3>3. QED
      BY <3>1, <3>2
  <2>4. CASE UNCHANGED call
    BY <1>1, <2>4 DEF YoungCalls
  <2>5. QED
    BY <1>2, <2>1, <2>3, <2>4 DEF StartLoad
<1>3. ASSUME NEW i \in Hooks, Mount(i) \/ Reload(i) \/ Refresh(i)
      PROVE  YoungCalls'
  BY <1>2, <1>3 DEF Mount, Reload, Refresh
<1>4. ASSUME NEW c \in Calls, FinishLoad(c)  PROVE YoungCalls'
  <2>1. \A d \in Calls : call'[d] = IF d = c THEN Idle ELSE call[d]
    BY <1>1, <1>4 DEF FinishLoad, TakeAnswer
  <2>2. QED
    BY <1>1, <2>1 DEF YoungCalls, Idle
<1>5. CASE Background
  <2>1. \A d \in Calls : call'[d].pc = "fetching" => call'[d] = call[d]
    BY <1>1, <1>5, CallInBackground DEF Background
  <2>2. QED
    BY <1>1, <2>1 DEF YoungCalls
<1>6. CASE AppRestart
  BY <1>6 DEF AppRestart, Restart, Boot, YoungCalls, Idle
<1>7. CASE (\E i \in Hooks : Unmount(i)) \/ UNCHANGED vars
  BY <1>1, <1>7 DEF Unmount, vars, YoungCalls
<1>8. QED
  BY <1>3, <1>4, <1>5, <1>6, <1>7 DEF Next

LEMMA YoungInductive == YoungInv /\ [Next]_vars => YoungInv'
BY HookInductive, HookStepIsCacheStep, TruthInductive, ItemsStayYoung,
   CallsStayYoung DEF YoungInv

(* A load that ends where it begins shows a young item.                    *)
LEMMA LoadShowsYoung ==
    ASSUME YoungInv, NEW c \in Calls, NEW i \in Hooks, NEW h \in Hook,
           NEW force \in BOOLEAN, StartLoad(c, i, h, force),
           ~ hook'[i].locked
    PROVE  /\ \A j \in Hooks : j # i => hook'[j] = hook[j]
           /\ hook'[i].data = Cached(i)
           /\ now <= cache[KeyOf[i]].at + Life[KeyOf[i]]
<1>1. /\ hook \in [Hooks -> Hook] /\ KeyOf[i] \in Keys /\ now \in Nat
      /\ Stored(YoungItems)
  BY HooksAssumption DEF YoungInv, HookInv, CacheInv, CacheTypeOK
<1>2. Cached(i) \in Version \cup {NoData}
  BY CachedType DEF YoungInv, HookInv
<1>3. Shown(i, h, force) \in Version \cup {NoData}
  BY <1>2 DEF Shown, Hook
<1>4. PICK begun : begun = [h EXCEPT !.data = Shown(i, h, force),
                         !.isLoading = @ /\ (force \/ Cached(i) = NoData)]
  OBVIOUS
<1>5. begun \in Hook /\ begun.data = Shown(i, h, force)
  BY <1>3, <1>4 DEF Hook
<1>6. CASE hook' = [hook EXCEPT ![i] =
              [begun EXCEPT !.isRefreshing = @ \/ force, !.locked = TRUE]]
  <2>1. PICK g : g = [begun EXCEPT !.isRefreshing = @ \/ force, !.locked = TRUE]
    OBVIOUS
  <2>2. g.locked
    BY <1>5, <2>1 DEF Hook
  <2>3. hook'[i] = g
    BY <1>1, <1>6, <2>1
  <2>4. QED
    BY <2>2, <2>3
<1>7. CASE /\ ~ MustGet(i, force)
           /\ hook' = [hook EXCEPT ![i] =
                 Ended(begun, [pc |-> "returned", val |-> begun.data])]
  <2>1. PICK g : g = Ended(begun, [pc |-> "returned", val |-> begun.data])
    OBVIOUS
  <2>2. g.data = begun.data
    BY <1>5, <2>1 DEF Hook, Ended
  <2>3. \A j \in Hooks : hook'[j] = IF j = i THEN g ELSE hook[j]
    BY <1>1, <1>7, <2>1
  <2>4. ~ force /\ Cached(i) # NoData /\ ~ IsExpired(KeyOf[i])
    BY <1>7 DEF MustGet
  <2>5. hook'[i].data = Cached(i)
    BY <1>5, <2>2, <2>3, <2>4 DEF Shown
  <2>6. PICK item : item = cache[KeyOf[i]]
    OBVIOUS
  <2>7. item # NoItem /\ ~ (now > item.expiration)
    BY <2>4, <2>6 DEF IsExpired, Present
  <2>8. item \in Item /\ item.expiration <= item.at + Life[KeyOf[i]]
    BY <1>1, <2>6, <2>7 DEF Stored, YoungItems
  <2>9. item.expiration \in Nat /\ item.at \in Nat /\ Life[KeyOf[i]] \in Nat
    BY <1>1, <2>8, HooksAssumption, LifetimesAssumption DEF Item
  <2>10. now <= item.at + Life[KeyOf[i]]
    BY <1>1, <2>7, <2>8, <2>9
  <2>11. QED
    BY <2>3, <2>5, <2>6, <2>10
<1>8. QED
  BY <1>4, <1>6, <1>7 DEF StartLoad

(* Whatever stored it, the cached data a load leaves on the screen is no   *)
(* older than the lifetime the screen asked for.                           *)
THEOREM CachedWhileYoung == Spec => CachedOnlyWhileYoung
<1>1. ASSUME YoungInv, [Next]_vars, NEW i \in Hooks, hook'[i].mounted,
             hook'[i] # hook[i], ~ hook[i].locked, ~ hook'[i].locked
      PROVE  /\ hook'[i].data = Cached(i)
             /\ now <= cache[KeyOf[i]].at + Life[KeyOf[i]]
  <2>1. hook \in [Hooks -> Hook] /\ load \in [Calls -> Load] /\ LockHeld
    BY <1>1 DEF YoungInv, HookInv
  <2>2. ASSUME NEW j \in Hooks, NEW c \in Calls, NEW h \in Hook,
               NEW force \in BOOLEAN, StartLoad(c, j, h, force)
        PROVE  /\ hook'[i].data = Cached(i)
               /\ now <= cache[KeyOf[i]].at + Life[KeyOf[i]]
    <3>1. j = i
      <4>1. \E g : hook' = [hook EXCEPT ![j] = g]
        BY <2>2 DEF StartLoad
      <4>2. QED
        BY <1>1, <2>1, <4>1
    <3>2. QED
      BY <1>1, <2>2, <3>1, LoadShowsYoung
  <2>3. ASSUME NEW j \in Hooks, Mount(j)
        PROVE  /\ hook'[i].data = Cached(i)
               /\ now <= cache[KeyOf[i]].at + Life[KeyOf[i]]
    <3>1. [NewHook EXCEPT !.mounted = TRUE] \in Hook
      BY DEF NewHook, Hook
    <3>2. QED
      BY <2>2, <2>3, <3>1 DEF Mount
  <2>4. ASSUME NEW j \in Hooks, Reload(j) \/ Refresh(j)
        PROVE  /\ hook'[i].data = Cached(i)
               /\ now <= cache[KeyOf[i]].at + Life[KeyOf[i]]
    BY <2>1, <2>2, <2>4 DEF Reload, Refresh
  <2>5. ASSUME NEW j \in Hooks, Unmount(j)  PROVE FALSE
    <3>1. PICK g : g = [hook[j] EXCEPT !.mounted = FALSE]
      OBVIOUS
    <3>2. ~ g.mounted /\ hook' = [hook EXCEPT ![j] = g]
      BY <2>1, <2>5, <3>1 DEF Unmount, Hook
    <3>3. QED
      BY <1>1, <2>1, <3>2
  <2>6. ASSUME NEW c \in Calls, FinishLoad(c)  PROVE FALSE
    <3>1. PICK j \in Hooks : load[c].hook = j /\ LoadOf(c, j)
      BY <2>1, <2>6 DEF FinishLoad, Load, LoadOf
    <3>2. \E g : hook' = [hook EXCEPT ![j] = g]
      BY <2>6, <3>1 DEF FinishLoad
    <3>3. j = i
      BY <1>1, <2>1, <3>2
    <3>4. QED
      BY <1>1, <2>1, <3>1, <3>3 DEF LockHeld
  <2>7. CASE AppRestart
    BY <1>1, <2>7 DEF AppRestart, NewHook
  <2>8. CASE Background \/ UNCHANGED vars
    BY <1>1, <2>8 DEF Background, vars, hookVars
  <2>9. QED
    BY <1>1, <2>3, <2>4, <2>5, <2>6, <2>7, <2>8 DEF Next
<1>2. YoungInv /\ [Next]_vars =>
         [\A i \in Hooks :
             /\ hook'[i].mounted /\ hook'[i] # hook[i]
             /\ ~ hook[i].locked /\ ~ hook'[i].locked
             => /\ hook'[i].data = Cached(i)
                /\ now <= cache[KeyOf[i]].at + Life[KeyOf[i]]]_vars
  BY <1>1
<1>3. QED
  BY <1>2, YoungInitially, YoungInductive, PTL DEF Spec, CachedOnlyWhileYoung

-----------------------------------------------------------------------------
(* The hook implements ResourceView: every step of the hooks is one of a   *)
(* view, or changes none.                                                  *)
PhaseOf(h) == IF ~ h.mounted THEN "closed"
              ELSE IF h.isRefreshing THEN "refreshing"
              ELSE IF h.locked THEN "loading" ELSE "idle"

ShownOf(h) == IF h.mounted THEN h.data ELSE NoData

phases == [i \in Hooks |-> PhaseOf(hook[i])]
showns == [i \in Hooks |-> ShownOf(hook[i])]

LEMMA ViewMapped ==
    /\ phases = [i \in Hooks |-> Phase(i)]
    /\ phases' = [i \in Hooks |-> Phase(i)]'
    /\ showns = [i \in Hooks |-> IF hook[i].mounted THEN hook[i].data
                                 ELSE NoData]
    /\ showns' = [i \in Hooks |-> IF hook[i].mounted THEN hook[i].data
                                  ELSE NoData]'
BY DEF phases, showns, PhaseOf, ShownOf, Phase

LEMMA OneHookChanges ==
    ASSUME hook \in [Hooks -> Hook], NEW i \in Hooks, NEW g,
           hook' = [hook EXCEPT ![i] = g]
    PROVE  /\ phases' = [phases EXCEPT ![i] = PhaseOf(g)]
           /\ showns' = [showns EXCEPT ![i] = ShownOf(g)]
           /\ phases[i] = PhaseOf(hook[i]) /\ showns[i] = ShownOf(hook[i])
<1>1. \A j \in Hooks : hook'[j] = IF j = i THEN g ELSE hook[j]
  OBVIOUS
<1>2. \A j \in Hooks : /\ PhaseOf(hook'[j]) =
                             IF j = i THEN PhaseOf(g) ELSE PhaseOf(hook[j])
                       /\ ShownOf(hook'[j]) =
                             IF j = i THEN ShownOf(g) ELSE ShownOf(hook[j])
  BY <1>1
<1>3. /\ phases' = [j \in Hooks |-> PhaseOf(hook'[j])]
      /\ showns' = [j \in Hooks |-> ShownOf(hook'[j])]
  BY DEF phases, showns
<1>4. QED
  BY <1>2, <1>3 DEF phases, showns

(* A load begins on an instance whose phase was p and that showed d.       *)
LEMMA StartLoadView ==
    ASSUME HookInv, NEW c \in Calls, NEW i \in Hooks, NEW h \in Hook,
           NEW force \in BOOLEAN, StartLoad(c, i, h, force),
           h.mounted, ~ h.isRefreshing
    PROVE  \E g \in Hook :
              /\ hook' = [hook EXCEPT ![i] = g]
              /\ PhaseOf(g) \in
                    IF force THEN {"refreshing"} ELSE {"loading", "idle"}
              /\ ShownOf(g) \in
                    IF force THEN {h.data} ELSE Version \cup {h.data}
<1>1. Cached(i) \in Version \cup {NoData}
  BY CachedType DEF HookInv
<1>2. PICK s : s = Shown(i, h, force)
  OBVIOUS
<1>3. /\ s \in Version \cup {NoData}
      /\ s \in IF force THEN {h.data} ELSE Version \cup {h.data}
  BY <1>1, <1>2 DEF Shown, Hook
<1>4. PICK begun : begun = [h EXCEPT !.data = Shown(i, h, force),
                         !.isLoading = @ /\ (force \/ Cached(i) = NoData)]
  OBVIOUS
<1>5. begun \in Hook /\ begun.data = s /\ begun.mounted /\ ~ begun.isRefreshing
  BY <1>2, <1>3, <1>4 DEF Hook
<1>6. CASE hook' = [hook EXCEPT ![i] =
              [begun EXCEPT !.isRefreshing = @ \/ force, !.locked = TRUE]]
  <2>1. PICK g : g = [begun EXCEPT !.isRefreshing = @ \/ force, !.locked = TRUE]
    OBVIOUS
  <2>2. /\ g \in Hook /\ g.data = s /\ g.mounted /\ g.locked
        /\ g.isRefreshing = force
    BY <1>5, <2>1 DEF Hook
  <2>3. /\ PhaseOf(g) \in IF force THEN {"refreshing"} ELSE {"loading", "idle"}
        /\ ShownOf(g) = s
    BY <2>2 DEF PhaseOf, ShownOf
  <2>4. QED
    BY <1>3, <1>6, <2>1, <2>2, <2>3
<1>7. CASE /\ ~ MustGet(i, force)
           /\ hook' = [hook EXCEPT ![i] =
                 Ended(begun, [pc |-> "returned", val |-> begun.data])]
  <2>1. PICK g : g = Ended(begun, [pc |-> "returned", val |-> begun.data])
    OBVIOUS
  <2>2. /\ g \in Hook /\ g.data = s /\ g.mounted /\ ~ g.locked
        /\ ~ g.isRefreshing
    BY <1>5, <2>1 DEF Hook, Ended
  <2>3. PhaseOf(g) = "idle" /\ ShownOf(g) = s
    BY <2>2 DEF PhaseOf, ShownOf
  <2>4. ~ force
    BY <1>7 DEF MustGet
  <2>5. QED
    BY <1>3, <1>7, <2>1, <2>2, <2>3, <2>4
<1>8. QED
  BY <1>4, <1>6, <1>7 DEF StartLoad

LEMMA StepOfView ==
    ASSUME HookInv, [Next]_vars
    PROVE  View!ViewNext \/ UNCHANGED <<phases, showns>>
<1>1. hook \in [Hooks -> Hook] /\ load \in [Calls -> Load] /\ LockHeld
      /\ SpinnersTellTheTruth /\ call \in [Calls -> Call]
  BY DEF HookInv, CacheInv, CacheTypeOK
<1>2. ASSUME NEW i \in Hooks, Mount(i)
      PROVE  View!Open(i)
  <2>1. PICK h : h = [NewHook EXCEPT !.mounted = TRUE]
    OBVIOUS
  <2>2. /\ h \in Hook /\ h.data = NoData /\ h.mounted /\ ~ h.isRefreshing
    BY <2>1 DEF NewHook, Hook
  <2>3. PICK c \in Calls : StartLoad(c, i, h, FALSE)
    BY <1>2, <2>1 DEF Mount
  <2>4. PICK g \in Hook : /\ hook' = [hook EXCEPT ![i] = g]
                          /\ PhaseOf(g) \in {"loading", "idle"}
                          /\ ShownOf(g) \in Version \cup {NoData}
    BY <2>2, <2>3, StartLoadView
  <2>5. PhaseOf(hook[i]) = "closed"
    BY <1>2 DEF Mount, PhaseOf
  <2>6. /\ phases' = [phases EXCEPT ![i] = PhaseOf(g)]
        /\ showns' = [showns EXCEPT ![i] = ShownOf(g)]
        /\ phases[i] = "closed"
    BY <1>1, <2>4, <2>5, OneHookChanges
  <2>7. QED
    BY <2>4, <2>6, ViewMapped DEF View!Open, View!Begin
<1>3. ASSUME NEW i \in Hooks, NEW c \in Calls, NEW force \in BOOLEAN,
             StartLoad(c, i, hook[i], force), hook[i].mounted
      PROVE  IF force THEN View!Refresh(i) ELSE View!Reload(i)
  <2>1. ~ hook[i].locked
    BY <1>3 DEF StartLoad, MayStart
  <2>2. ~ hook[i].isRefreshing /\ hook[i] \in Hook
    BY <1>1, <1>3, <2>1 DEF LockHeld, SpinnersTellTheTruth
  <2>3. PICK g \in Hook :
           /\ hook' = [hook EXCEPT ![i] = g]
           /\ PhaseOf(g) \in
                 IF force THEN {"refreshing"} ELSE {"loading", "idle"}
           /\ ShownOf(g) \in
                 IF force THEN {hook[i].data} ELSE Version \cup {hook[i].data}
    BY <1>3, <2>2, StartLoadView
  <2>4. PhaseOf(hook[i]) = "idle" /\ ShownOf(hook[i]) = hook[i].data
    BY <1>3, <2>1, <2>2 DEF PhaseOf, ShownOf
  <2>5. /\ phases' = [phases EXCEPT ![i] = PhaseOf(g)]
        /\ showns' = [showns EXCEPT ![i] = ShownOf(g)]
        /\ phases[i] = "idle" /\ showns[i] = hook[i].data
    BY <1>1, <2>3, <2>4, OneHookChanges
  <2>6. CASE force
    <3>1. PhaseOf(g) = "refreshing" /\ ShownOf(g) = showns[i]
      BY <2>3, <2>5, <2>6
    <3>2. showns' = showns
      BY <2>5, <3>1 DEF showns
    <3>3. QED
      BY <2>5, <2>6, <3>1, <3>2, ViewMapped DEF View!Refresh
  <2>7. CASE ~ force
    <3>1. /\ PhaseOf(g) \in {"loading", "idle"}
          /\ ShownOf(g) \in Version \cup {showns[i]}
      BY <2>3, <2>5, <2>7
    <3>2. QED
      BY <2>5, <2>7, <3>1, ViewMapped DEF View!Reload, View!Begin
  <2>8. QED
    BY <2>6, <2>7
<1>4. ASSUME NEW i \in Hooks, Unmount(i)
      PROVE  View!Close(i)
  <2>1. PICK g : g = [hook[i] EXCEPT !.mounted = FALSE]
    OBVIOUS
  <2>2. ~ g.mounted /\ hook' = [hook EXCEPT ![i] = g]
    BY <1>1, <1>4, <2>1 DEF Unmount, Hook
  <2>3. PhaseOf(g) = "closed" /\ ShownOf(g) = NoData
    BY <2>2 DEF PhaseOf, ShownOf
  <2>4. PhaseOf(hook[i]) # "closed"
    BY <1>4 DEF Unmount, PhaseOf
  <2>5. /\ phases' = [phases EXCEPT ![i] = "closed"]
        /\ showns' = [showns EXCEPT ![i] = NoData]
        /\ phases[i] # "closed"
    BY <1>1, <2>2, <2>3, <2>4, OneHookChanges
  <2>6. QED
    BY <2>5, ViewMapped DEF View!Close
<1>5. ASSUME NEW c \in Calls, FinishLoad(c)
      PROVE  View!ViewNext \/ UNCHANGED <<phases, showns>>
  <2>1. PICK i \in Hooks : load[c].hook = i /\ LoadOf(c, i)
    BY <1>1, <1>5 DEF FinishLoad, Load, LoadOf
  <2>2. PICK g : g = Ended(hook[i], call[c])
    OBVIOUS
  <2>3. call[c].pc = "returned" => call[c].val \in Version
    <3>1. call[c] \in Call
      BY <1>1
    <3>2. QED
      BY <3>1 DEF Call
  <2>4. /\ hook' = [hook EXCEPT ![i] = g]
        /\ g.mounted = hook[i].mounted /\ ~ g.locked /\ ~ g.isRefreshing
        /\ g.data \in Version \cup {hook[i].data}
    BY <1>1, <1>5, <2>1, <2>2, <2>3 DEF FinishLoad, Hook, Ended
  <2>5. hook[i].locked
    BY <1>1, <2>1 DEF LockHeld
  <2>6. /\ phases' = [phases EXCEPT ![i] = PhaseOf(g)]
        /\ showns' = [showns EXCEPT ![i] = ShownOf(g)]
        /\ phases[i] = PhaseOf(hook[i]) /\ showns[i] = ShownOf(hook[i])
    BY <1>1, <2>4, OneHookChanges
  <2>7. CASE hook[i].mounted
    <3>1. /\ PhaseOf(g) = "idle" /\ ShownOf(g) \in Version \cup {showns[i]}
          /\ phases[i] \in {"loading", "refreshing"}
      BY <2>4, <2>5, <2>6, <2>7 DEF PhaseOf, ShownOf
    <3>2. View!Settle(i)
      BY <2>6, <3>1, ViewMapped DEF View!Settle, View!Busy
    <3>3. QED
      BY <3>2 DEF View!ViewNext
  <2>8. CASE ~ hook[i].mounted
    <3>1. PhaseOf(g) = phases[i] /\ ShownOf(g) = showns[i]
      BY <2>4, <2>6, <2>8 DEF PhaseOf, ShownOf
    <3>2. QED
      BY <2>6, <3>1 DEF phases, showns
  <2>9. QED
    BY <2>7, <2>8
<1>6. CASE AppRestart
  <2>1. hook' = [i \in Hooks |-> NewHook]
    BY <1>6 DEF AppRestart
  <2>2. PhaseOf(NewHook) = "closed" /\ ShownOf(NewHook) = NoData
    BY DEF PhaseOf, ShownOf, NewHook
  <2>3. /\ phases' = [i \in Hooks |-> "closed"]
        /\ showns' = [i \in Hooks |-> NoData]
    BY <2>1, <2>2 DEF phases, showns
  <2>4. View!CloseAll
    BY <2>3, ViewMapped DEF View!CloseAll
  <2>5. QED
    BY <2>4 DEF View!ViewNext
<1>7. CASE Background \/ UNCHANGED vars
  BY <1>7 DEF Background, vars, hookVars, phases, showns
<1>8. ASSUME NEW i \in Hooks, Mount(i) \/ Unmount(i) \/ Reload(i) \/ Refresh(i)
      PROVE  View!ViewNext
  <2>1. CASE Reload(i)
    BY <1>3, <2>1 DEF Reload, View!ViewNext
  <2>2. CASE Refresh(i)
    BY <1>3, <2>2 DEF Refresh, View!ViewNext
  <2>3. QED
    BY <1>2, <1>4, <1>8, <2>1, <2>2 DEF View!ViewNext
<1>9. QED
  BY <1>5, <1>6, <1>7, <1>8 DEF Next

(* The hook implements the steps of ResourceView: whatever cache, storage  *)
(* and network do, what a mounted screen shows appears when a load begins  *)
(* or ends, stays in place during a refresh and never disappears.          *)
THEOREM HooksImplementView == Spec => View!ViewSteps
<1>1. Init => View!ViewInit
  <2>1. PhaseOf(NewHook) = "closed" /\ ShownOf(NewHook) = NoData
    BY DEF PhaseOf, ShownOf, NewHook
  <2>2. QED
    BY <2>1, ViewMapped DEF Init, View!ViewInit, phases, showns
<1>2. HookInv /\ [Next]_vars => [View!ViewNext]_(View!viewVars)
  <2>1. UNCHANGED <<phases, showns>> => UNCHANGED View!viewVars
    BY ViewMapped DEF View!viewVars
  <2>2. QED
    BY <2>1, StepOfView
<1>3. QED
  BY <1>1, <1>2, HookInitially, HookInductive, PTL DEF Spec, View!ViewSteps

-----------------------------------------------------------------------------
(* Who waits is answered.                                                  *)

AwaitsStore(c, q) == \E j \in 1 .. Len(q) : q[j].op = "setItem" /\ q[j].call = c
BootIssued(b, q) == \E j \in 1 .. Len(q) : q[j].op = b

LEMMA NothingWaitsByName ==
    NothingWaitsInVain <=>
        /\ \A c \in Calls : call[c].pc = "storing" => AwaitsStore(c, queue)
        /\ boot \notin {"done", "failed"} => BootIssued(boot, queue)
  BY DEF NothingWaitsInVain, AwaitsStore, BootIssued

(* What waits in a queue still does once an operation is appended, and so  *)
(* does what the operation is for.                                         *)
LEMMA AwaitedAfterAppend ==
    ASSUME NEW q \in Seq(Operation), NEW o \in Operation
    PROVE  /\ \A c \in Calls : AwaitsStore(c, q) => AwaitsStore(c, Append(q, o))
           /\ \A b : BootIssued(b, q) => BootIssued(b, Append(q, o))
           /\ o.op = "setItem" => AwaitsStore(o.call, Append(q, o))
           /\ BootIssued(o.op, Append(q, o))
  <1>1. /\ Len(Append(q, o)) = Len(q) + 1 /\ Len(q) \in Nat
        /\ \A j \in 1 .. Len(q) : Append(q, o)[j] = q[j]
        /\ Append(q, o)[Len(q) + 1] = o
    BY Appended
  <1>2. /\ 1 .. Len(q) \subseteq 1 .. Len(Append(q, o))
        /\ Len(q) + 1 \in 1 .. Len(Append(q, o))
    BY <1>1
  <1>3. QED
    BY <1>1, <1>2 DEF AwaitsStore, BootIssued

(* Answering the head of the queue answers nobody else.                    *)
LEMMA AwaitedAfterServing ==
    ASSUME NEW q \in Seq(Operation), q # <<>>
    PROVE  /\ \A c \in Calls :
                 /\ AwaitsStore(c, q)
                 /\ Head(q).op = "setItem" => Head(q).call # c
                 => AwaitsStore(c, Tail(q))
           /\ \A b : BootIssued(b, q) /\ Head(q).op # b => BootIssued(b, Tail(q))
  <1>1. /\ Len(Tail(q)) = Len(q) - 1
        /\ Len(q) \in Nat /\ Len(q) >= 1
        /\ \A j \in 1 .. Len(Tail(q)) : Tail(q)[j] = q[j + 1]
        /\ Head(q) = q[1]
    BY Served
  <1>2. ASSUME NEW j \in 1 .. Len(q), j # 1
        PROVE  j - 1 \in 1 .. Len(Tail(q)) /\ Tail(q)[j - 1] = q[j]
    <2>1. j - 1 \in 1 .. Len(Tail(q)) /\ (j - 1) + 1 = j
      BY <1>1, <1>2
    <2>2. QED
      BY <1>1, <2>1
  <1>3. QED
    BY <1>1, <1>2 DEF AwaitsStore, BootIssued

(* No operation is answered and no call begins to store: everybody waits   *)
(* for what he waited for.                                                 *)
LEMMA WaitingGoesOn ==
    ASSUME CacheInv, NothingWaitsInVain,
           \A d \in Calls : call'[d].pc = "storing" => call[d].pc = "storing",
           UNCHANGED <<queue, boot>>
    PROVE  NothingWaitsInVain'
  BY DEF NothingWaitsInVain

(* The head of the queue is answered, and with it the call or the boot     *)
(* step that waited for it.                                                *)
LEMMA ServingAnswers ==
    ASSUME CacheInv, NothingWaitsInVain, queue # <<>>,
           queue' = Tail(queue) \/ \E o \in Operation :
                queue' = Append(Tail(queue), o) /\ o.op = boot',
           \A d \in Calls : call'[d].pc = "storing" =>
                /\ call[d].pc = "storing"
                /\ Head(queue).op = "setItem" => Head(queue).call # d,
           \/ boot' \in {"done", "failed"}
           \/ boot' = boot /\ Head(queue).op # boot
           \/ \E o \in Operation :
                 queue' = Append(Tail(queue), o) /\ o.op = boot'
    PROVE  NothingWaitsInVain'
  <1>1. queue \in Seq(Operation) /\ Tail(queue) \in Seq(Operation)
    BY RestOfQueue DEF CacheInv, CacheTypeOK
  <1>2. /\ \A d \in Calls : call'[d].pc = "storing" => AwaitsStore(d, Tail(queue))
        /\ boot \notin {"done", "failed"} /\ Head(queue).op # boot
              => BootIssued(boot, Tail(queue))
    BY <1>1, AwaitedAfterServing, NothingWaitsByName
  <1>3. CASE queue' = Tail(queue) /\ (\/ boot' \in {"done", "failed"}
                                      \/ boot' = boot /\ Head(queue).op # boot)
    BY <1>2, <1>3 DEF NothingWaitsInVain, AwaitsStore, BootIssued
  <1>4. ASSUME NEW o \in Operation, queue' = Append(Tail(queue), o),
               o.op = boot'
        PROVE  NothingWaitsInVain'
    <2>1. /\ \A d \in Calls : call'[d].pc = "storing" => AwaitsStore(d, queue')
          /\ BootIssued(boot', queue')
      BY <1>1, <1>2, <1>4, AwaitedAfterAppend
    <2>2. QED
      BY <2>1 DEF NothingWaitsInVain, AwaitsStore, BootIssued
  <1>5. QED
    BY <1>3, <1>4

(* setData issues the setItem its call then waits for.                     *)
LEMMA FetchSucceedsAwaited ==
    ASSUME CacheInv, NothingWaitsInVain, NEW c \in Calls, NEW v \in Version,
           FetchSucceeds(c, v)
    PROVE  NothingWaitsInVain'
  <1> DEFINE o == [op |-> "setItem", key |-> call[c].key,
                   item |-> Fresh(v, call[c].life), call |-> c]
  <1>1. /\ call[c] \in Call /\ call[c].pc = "fetching"
        /\ queue \in Seq(Operation)
    BY DEF CacheInv, CacheTypeOK, FetchSucceeds
  <1>2. call[c].key \in Keys /\ call[c].life \in Lifetimes
    BY <1>1 DEF Call
  <1>3. o \in Operation
    BY <1>2, FreshItem DEF CacheInv, Operation
  <1>4. /\ queue' = Append(queue, o) /\ boot' = boot
        /\ \A d \in Calls : d # c => call'[d] = call[d]
    BY DEF FetchSucceeds, CacheInv, CacheTypeOK
  <1>5. /\ \A d \in Calls : call'[d].pc = "storing" => AwaitsStore(d, queue')
        /\ boot \notin {"done", "failed"} => BootIssued(boot, queue')
    <2>1. o.op = "setItem" /\ o.call = c
      OBVIOUS
    <2> HIDE DEF o
    <2>2. AwaitsStore(c, queue')
      BY <1>1, <1>3, <1>4, <2>1, AwaitedAfterAppend
    <2>3. QED
      BY <1>1, <1>3, <1>4, <2>2, AwaitedAfterAppend, NothingWaitsByName
  <1>6. QED
    BY <1>4, <1>5 DEF NothingWaitsInVain, AwaitsStore, BootIssued

LEMMA ClearCacheAwaited ==
    ASSUME CacheInv, NothingWaitsInVain, NEW k \in Keys, ClearCache(k)
    PROVE  NothingWaitsInVain'
  <1> DEFINE o == [op |-> "removeItem", key |-> k]
  <1>1. o \in Operation /\ queue \in Seq(Operation)
    BY DEF Operation, CacheInv, CacheTypeOK
  <1>2. queue' = Append(queue, o) /\ UNCHANGED <<boot, call>>
    BY DEF ClearCache
  <1> HIDE DEF o
  <1>3. /\ \A d \in Calls : call[d].pc = "storing" => AwaitsStore(d, queue')
        /\ boot \notin {"done", "failed"} => BootIssued(boot, queue')
    BY <1>1, <1>2, AwaitedAfterAppend, NothingWaitsByName
  <1>4. QED
    BY <1>2, <1>3 DEF NothingWaitsInVain, AwaitsStore, BootIssued

(* A setItem is answered and leaves the queue with the call it belongs to. *)
LEMMA SetItemAwaited ==
    ASSUME CacheInv, NothingWaitsInVain, SetItemDone \/ SetItemFails
    PROVE  NothingWaitsInVain'
  <1> DEFINE c == Head(queue).call
  <1>1. /\ queue # <<>> /\ Head(queue).op = "setItem" /\ c \in Calls
        /\ call[c].pc = "storing"
        /\ queue' = Tail(queue) /\ boot' = boot
    BY RestOfQueue DEF SetItemDone, SetItemFails, Serving
  <1>2. /\ call'[c].pc # "storing"
        /\ \A d \in Calls : d # c => call'[d] = call[d]
    <2>1. CASE SetItemDone
      BY <2>1, <1>1 DEF SetItemDone, CacheInv, CacheTypeOK
    <2>2. CASE SetItemFails
      <3>1. Caught(c).pc \in {"returned", "threw"}
        BY <1>1, CaughtAnswer DEF CacheInv
      <3>2. call' = [call EXCEPT ![c] = Caught(c)]
        BY <2>2 DEF SetItemFails
      <3>3. QED
        BY <1>1, <3>1, <3>2 DEF CacheInv, CacheTypeOK
    <2>3. QED
      BY <2>1, <2>2
  <1>3. \A d \in Calls : call'[d].pc = "storing" =>
           call[d].pc = "storing" /\ c # d
    BY <1>1, <1>2
  <1>4. Head(queue).op # boot
    BY <1>1 DEF CacheInv, CacheTypeOK
  <1>5. QED
    BY <1>1, <1>3, <1>4, ServingAnswers

LEMMA BootAwaited ==
    ASSUME CacheInv, NothingWaitsInVain,
           ClearDone \/ GetAllKeysDone \/ MultiGetDone \/ BootFails
    PROVE  NothingWaitsInVain'
  <1>1. queue # <<>> /\ Head(queue).op # "setItem" /\ call' = call
    BY DEF ClearDone, GetAllKeysDone, MultiGetDone, BootFails, Serving
  <1>2. \A d \in Calls : call'[d].pc = "storing" =>
           call[d].pc = "storing" /\ (Head(queue).op = "setItem" =>
                                         Head(queue).call # d)
    BY <1>1
  <1>3. CASE MultiGetDone \/ BootFails
    <2>1. queue' = Tail(queue) /\ boot' \in {"done", "failed"}
      BY <1>3 DEF MultiGetDone, BootFails
    <2>2. QED
      BY <1>1, <1>2, <2>1, ServingAnswers
  <1>4. CASE ClearDone \/ GetAllKeysDone
    <2>1. \E o \in Operation :
             queue' = Append(Tail(queue), o) /\ o.op = boot'
      BY <1>4 DEF ClearDone, GetAllKeysDone, Operation
    <2>2. QED
      BY <1>1, <1>2, <2>1, ServingAnswers
  <1>5. QED
    BY <1>3, <1>4

LEMMA RemoveItemAwaited ==
    ASSUME CacheInv, NothingWaitsInVain, RemoveItemDone \/ RemoveItemFails
    PROVE  NothingWaitsInVain'
  <1>1. /\ queue # <<>> /\ Head(queue).op = "removeItem"
        /\ queue' = Tail(queue) /\ call' = call /\ boot' = boot
    BY DEF RemoveItemDone, RemoveItemFails, Serving
  <1>2. Head(queue).op # boot
    BY <1>1 DEF CacheInv, CacheTypeOK
  <1>3. QED
    BY <1>1, <1>2, ServingAnswers

(* A call moves on that does not begin to store.                           *)
LEMMA CallsAwaited ==
    ASSUME CacheInv, NothingWaitsInVain, NEW c \in Calls,
           \/ \E k \in Keys, life \in Lifetimes : GetData(c, k, life)
           \/ FetchFails(c) \/ FetchHangs(c) \/ TakeAnswer(c)
    PROVE  NothingWaitsInVain'
  <1>1. UNCHANGED <<queue, boot>>
    BY DEF GetData, FetchFails, FetchHangs, TakeAnswer
  <1>2. \A d \in Calls : d # c => call'[d] = call[d]
    BY DEF GetData, FetchFails, FetchHangs, TakeAnswer, CacheInv, CacheTypeOK
  <1>3. call'[c].pc # "storing"
    <2>1. CASE \E k \in Keys, life \in Lifetimes : GetData(c, k, life)
      BY <2>1 DEF GetData, CacheInv, CacheTypeOK
    <2>2. CASE FetchFails(c)
      BY <2>2, CaughtAnswer DEF FetchFails, CacheInv, CacheTypeOK
    <2>3. CASE FetchHangs(c)
      <3>1. call[c] \in Call /\ call[c].pc = "fetching"
        BY <2>3 DEF FetchHangs, CacheInv, CacheTypeOK
      <3>2. [call[c] EXCEPT !.pc = "hung"].pc = "hung"
        BY <3>1 DEF Call
      <3>3. QED
        BY <2>3, <3>2 DEF FetchHangs, CacheInv, CacheTypeOK
    <2>4. CASE TakeAnswer(c)
      BY <2>4 DEF TakeAnswer, Idle, CacheInv, CacheTypeOK
    <2>5. QED
      BY <2>1, <2>2, <2>3, <2>4
  <1>4. QED
    BY <1>1, <1>2, <1>3, WaitingGoesOn

LEMMA RestartAwaited ==
    ASSUME Restart
    PROVE  NothingWaitsInVain'
  <1>1. /\ queue' = <<[op |-> "clear"]>> /\ boot' = "clear"
        /\ \A d \in Calls : call'[d].pc = "idle"
    BY DEF Restart, Boot, Idle
  <1>2. 1 \in 1 .. Len(queue') /\ queue'[1].op = "clear"
    BY <1>1
  <1>3. QED
    BY <1>1, <1>2 DEF NothingWaitsInVain

LEMMA WaitersInductive ==
    CacheInv /\ NothingWaitsInVain /\ [CacheNext]_cacheVars
        => NothingWaitsInVain'
  <1>1. SUFFICES ASSUME CacheInv, NothingWaitsInVain, [CacheNext]_cacheVars
                 PROVE  NothingWaitsInVain'
    OBVIOUS
  <1>2. CASE \/ Tick
             \/ \E k \in Keys : RemoteChanges(k)
             \/ \E k \in Keys, f \in Callbacks :
                   RegisterUpdateCallback(k, f)
                   \/ UnregisterUpdateCallback(k, f)
             \/ UNCHANGED cacheVars
    <2>1. UNCHANGED <<queue, boot, call>>
      BY <1>2 DEF Tick, RemoteChanges, RegisterUpdateCallback,
                  UnregisterUpdateCallback, cacheVars
    <2>2. QED
      BY <1>1, <2>1, WaitingGoesOn
  <1>3. CASE StorageAnswers
    BY <1>1, <1>3, SetItemAwaited, RemoveItemAwaited, BootAwaited
       DEF StorageAnswers
  <1>4. ASSUME NEW c \in Calls, FetchSettles(c) \/ TakeAnswer(c)
        PROVE  NothingWaitsInVain'
    BY <1>1, <1>4, FetchSucceedsAwaited, CallsAwaited DEF FetchSettles
  <1>5. ASSUME NEW c \in Calls, NEW k \in Keys, NEW life \in Lifetimes,
               GetData(c, k, life)
        PROVE  NothingWaitsInVain'
    BY <1>1, <1>5, CallsAwaited
  <1>6. ASSUME NEW k \in Keys, ClearCache(k) PROVE NothingWaitsInVain'
    BY <1>1, <1>6, ClearCacheAwaited
  <1>7. CASE Restart
    BY <1>7, RestartAwaited
  <1>8. QED
    BY <1>1, <1>2, <1>3, <1>4, <1>5, <1>6, <1>7 DEF CacheNext

LEMMA NobodyWaitsAtFirst == CacheInit => NothingWaitsInVain
  <1>1. SUFFICES ASSUME CacheInit PROVE NothingWaitsInVain
    OBVIOUS
  <1>2. /\ queue = <<[op |-> "clear"]>> /\ boot = "clear"
        /\ \A d \in Calls : call[d].pc = "idle"
    BY <1>1 DEF CacheInit, Idle
  <1>3. 1 \in 1 .. Len(queue) /\ queue[1].op = "clear"
    BY <1>2
  <1>4. QED
    BY <1>2, <1>3 DEF NothingWaitsInVain

(* Whatever fails, comes late or is overtaken, a getData that stores and   *)
(* initializeCache are never left waiting for an operation AsyncStorage no *)
(* longer has to answer.                                                   *)
THEOREM NobodyWaitsInVain == CacheSpec => []NothingWaitsInVain
  <1>1. CacheInit => CacheInv /\ NothingWaitsInVain
    BY CacheInitially, NobodyWaitsAtFirst
  <1>2. CacheInv /\ NothingWaitsInVain /\ [CacheNext]_cacheVars
           => (CacheInv /\ NothingWaitsInVain)'
    BY CacheInductive, WaitersInductive
  <1>3. QED
    BY <1>1, <1>2, PTL DEF CacheSpec

(* The ref of an instance that is gone is taken only while its load runs,  *)
(* as that of a mounted one is.                                            *)
LockReleased ==
    \A i \in Hooks : hook[i].locked => \E c \in Calls : LoadOf(c, i)

LEMMA StartLoadReleases ==
    ASSUME HookInv, LockReleased, NEW c \in Calls, NEW i \in Hooks, NEW h,
           NEW force, StartLoad(c, i, h, force), ~ h.locked, h \in Hook
    PROVE  LockReleased'
  <1>1. load[c].pc = "idle" /\ hook \in [Hooks -> Hook]
        /\ load \in [Calls -> Load]
    BY DEF StartLoad, MayStart, HookInv
  <1>2. \A j \in Hooks : j # i => hook'[j] = hook[j]
    BY <1>1 DEF StartLoad
  <1>3. CASE MustGet(i, force)
    <2>1. load' = [load EXCEPT ![c] =
                      [pc |-> "getting", hook |-> i, force |-> force]]
      BY <1>3 DEF StartLoad
    <2>2. /\ LoadOf(c, i)'
          /\ \A d \in Calls, j \in Hooks : LoadOf(d, j) => LoadOf(d, j)'
      BY <1>1, <2>1 DEF LoadOf
    <2>3. QED
      BY <1>2, <2>2 DEF LockReleased
  <1>4. CASE ~ MustGet(i, force)
    <2> DEFINE begun == [h EXCEPT !.data = Shown(i, h, force),
                           !.isLoading = @ /\ (force \/ Cached(i) = NoData)]
               g == Ended(begun, [pc |-> "returned", val |-> begun.data])
    <2>1. hook' = [hook EXCEPT ![i] = g] /\ load' = load
      BY <1>4 DEF StartLoad
    <2>2. ~ g.locked
      BY DEF Ended, Hook
    <2> HIDE DEF g
    <2>3. hook'[i] = g
      BY <1>1, <2>1
    <2>4. QED
      BY <1>2, <2>1, <2>2, <2>3 DEF LockReleased, LoadOf
  <1>5. QED
    BY <1>3, <1>4

LEMMA FinishLoadReleases ==
    ASSUME HookInv, LockReleased, NEW c \in Calls, FinishLoad(c)
    PROVE  LockReleased'
  <1>1. PICK i \in Hooks : i = load[c].hook /\ hook[i] \in Hook
    BY DEF FinishLoad, HookInv, Load
  <1> DEFINE g == Ended(hook[i], call[c])
  <1>2. ~ g.locked
    BY <1>1 DEF Ended, Hook
  <1>3. hook' = [hook EXCEPT ![i] = g]
    BY <1>1 DEF FinishLoad
  <1> HIDE DEF g
  <1>4. \A j \in Hooks : hook'[j] = IF j = i THEN g ELSE hook[j]
    BY <1>3 DEF HookInv
  <1>5. \A d \in Calls, j \in Hooks : LoadOf(d, j) /\ j # i => LoadOf(d, j)'
    BY <1>1 DEF FinishLoad, LoadOf, HookInv
  <1>6. QED
    BY <1>2, <1>4, <1>5 DEF LockReleased

LEMMA LockReleasedInductive ==
    HookInv /\ LockReleased /\ [Next]_vars => LockReleased'
  <1>1. SUFFICES ASSUME HookInv, LockReleased, [Next]_vars PROVE LockReleased'
    OBVIOUS
  <1>2. ASSUME NEW i \in Hooks, Mount(i) PROVE LockReleased'
    <2>1. /\ [NewHook EXCEPT !.mounted = TRUE] \in Hook
          /\ ~ [NewHook EXCEPT !.mounted = TRUE].locked
      BY DEF NewHook, Hook
    <2>2. QED
      BY <1>1, <1>2, <2>1, StartLoadReleases DEF Mount
  <1>3. ASSUME NEW i \in Hooks, Reload(i) \/ Refresh(i) PROVE LockReleased'
    <2>1. PICK c \in Calls, force \in BOOLEAN : StartLoad(c, i, hook[i], force)
      BY <1>3 DEF Reload, Refresh
    <2>2. hook[i] \in Hook /\ ~ hook[i].locked
      BY <1>1, <2>1 DEF HookInv, StartLoad, MayStart
    <2>3. QED
      BY <1>1, <2>1, <2>2, StartLoadReleases
  <1>4. ASSUME NEW i \in Hooks, Unmount(i) PROVE LockReleased'
    <2>1. /\ \A j \in Hooks : hook'[j].locked = hook[j].locked
          /\ load' = load
      <3>1. hook' = [hook EXCEPT ![i] = [hook[i] EXCEPT !.mounted = FALSE]]
            /\ load' = load
        BY <1>4 DEF Unmount
      <3>2. PICK g : g = [hook[i] EXCEPT !.mounted = FALSE]
        OBVIOUS
      <3>3. g.locked = hook[i].locked
        BY <1>1, <3>2 DEF HookInv, Hook
      <3>4. QED
        BY <1>1, <3>1, <3>2, <3>3 DEF HookInv
    <2>2. QED
      BY <1>1, <2>1 DEF LockReleased, LoadOf
  <1>5. ASSUME NEW c \in Calls, FinishLoad(c) PROVE LockReleased'
    BY <1>1, <1>5, FinishLoadReleases
  <1>6. CASE Background \/ UNCHANGED vars
    BY <1>1, <1>6 DEF Background, vars, hookVars, LockReleased, LoadOf
  <1>7. CASE AppRestart
    BY <1>7 DEF AppRestart, NewHook, LockReleased
  <1>8. QED
    BY <1>1, <1>2, <1>3, <1>4, <1>5, <1>6, <1>7 DEF Next

(* No load of the hook is lost: whatever keeps isLoadingRef taken is a     *)
(* load whose getData waits for an answer that is under way, or has it.    *)
(* With the fairness of FairSpec nothing else is needed for EveryLoadEnds  *)
(* but that the fetch functions settle.                                    *)
THEOREM NoLoadIsLost == Spec => []LoadsCanEnd
  <1>1. Init => LockReleased
    BY DEF Init, LockReleased, NewHook
  <1>2. Init => NothingWaitsInVain
    BY NobodyWaitsAtFirst DEF Init
  <1>3. ShownInv /\ LockReleased /\ NothingWaitsInVain /\ [Next]_vars
           => (ShownInv /\ LockReleased /\ NothingWaitsInVain)'
    <2>1. ShownInv => HookInv /\ CacheInv
      BY DEF ShownInv, HookInv
    <2>2. QED
      BY <2>1, ShownInductive, LockReleasedInductive, HookStepIsCacheStep,
         WaitersInductive
  <1>4. ShownInv /\ LockReleased /\ NothingWaitsInVain => LoadsCanEnd
    <2>1. SUFFICES ASSUME ShownInv, LockReleased, NothingWaitsInVain
                   PROVE  LoadsCanEnd
      OBVIOUS
    <2>2. ASSUME NEW c \in Calls, load[c].pc = "getting"
          PROVE  call[c].pc # "idle"
      <3>1. load[c].hook \in Hooks /\ LoadOf(c, load[c].hook)
        BY <2>1, <2>2 DEF ShownInv, HookInv, Load, LoadOf
      <3>2. QED
        BY <2>1, <3>1 DEF ShownInv, LoadsTheirKey
    <2>3. QED
      BY <2>1, <2>2 DEF LockReleased, LoadsCanEnd
  <1>5. QED
    BY <1>1, <1>2, <1>3, <1>4, ShownInitially, PTL DEF Spec
-----------------------------------------------------------------------------
(* One instance by itself: what the mapping makes of instance i is what it *)
(* makes of all of them, at i.                                             *)
phaseAt(i) == [j \in {i} |-> PhaseOf(hook[j])]
shownAt(i) == [j \in {i} |-> ShownOf(hook[j])]

LEMMA AloneMapped ==
    ASSUME NEW i \in Hooks
    PROVE  /\ phaseAt(i) = [j \in {i} |-> Phase(j)]
           /\ phaseAt(i)' = [j \in {i} |-> Phase(j)]'
           /\ shownAt(i) = [j \in {i} |-> IF hook[j].mounted THEN hook[j].data
                                          ELSE NoData]
           /\ shownAt(i)' = [j \in {i} |-> IF hook[j].mounted THEN hook[j].data
                                           ELSE NoData]'
BY DEF phaseAt, shownAt, PhaseOf, ShownOf, Phase

LEMMA AloneAt ==
    ASSUME NEW i \in Hooks
    PROVE  /\ phaseAt(i)[i] = phases[i] /\ shownAt(i)[i] = showns[i]
           /\ phaseAt(i)' = [j \in {i} |-> phases'[i]]
           /\ shownAt(i)' = [j \in {i} |-> showns'[i]]
           /\ phaseAt(i)' = [phaseAt(i) EXCEPT ![i] = phases'[i]]
           /\ shownAt(i)' = [shownAt(i) EXCEPT ![i] = showns'[i]]
           /\ phases'[i] = phases[i] => phaseAt(i)' = phaseAt(i)
           /\ showns'[i] = showns[i] => shownAt(i)' = shownAt(i)
BY DEF phaseAt, shownAt, phases, showns

LEMMA StepAlone ==
    ASSUME NEW i \in Hooks, View!ViewNext \/ UNCHANGED <<phases, showns>>
    PROVE  Alone(i)!ViewNext \/ UNCHANGED <<phaseAt(i), shownAt(i)>>
<1>1. /\ phases = [j \in Hooks |-> phases[j]]
      /\ showns = [j \in Hooks |-> showns[j]]
  BY DEF phases, showns
<1>2. CASE UNCHANGED <<phases, showns>>
  BY <1>2, AloneAt
<1>3. ASSUME NEW j \in Hooks, j # i,
             View!Open(j) \/ View!Reload(j) \/ View!Refresh(j)
             \/ View!Settle(j) \/ View!Close(j)
      PROVE  UNCHANGED <<phaseAt(i), shownAt(i)>>
  <2>1. phases'[i] = phases[i] /\ showns'[i] = showns[i]
    BY <1>1, <1>3, ViewMapped
    DEF View!Open, View!Reload, View!Refresh, View!Settle, View!Close,
        View!Begin
  <2>2. QED
    BY <2>1, AloneAt
<1>4. CASE View!Open(i)
  <2>1. PICK d \in Version \cup {NoData}, p \in {"loading", "idle"} :
           phases'[i] = p /\ showns'[i] = d
    BY <1>1, <1>4, ViewMapped DEF View!Open, View!Begin
  <2>2. phases[i] = "closed"
    BY <1>4, ViewMapped DEF View!Open
  <2>3. Alone(i)!Open(i)
    BY <2>1, <2>2, AloneAt, AloneMapped DEF Alone!Open, Alone!Begin
  <2>4. QED
    BY <2>3 DEF Alone!ViewNext
<1>5. CASE View!Reload(i)
  <2>1. PICK d \in Version \cup {showns[i]}, p \in {"loading", "idle"} :
           phases'[i] = p /\ showns'[i] = d
    BY <1>1, <1>5, ViewMapped DEF View!Reload, View!Begin
  <2>2. phases[i] = "idle"
    BY <1>5, ViewMapped DEF View!Reload
  <2>3. Alone(i)!Reload(i)
    BY <2>1, <2>2, AloneAt, AloneMapped DEF Alone!Reload, Alone!Begin
  <2>4. QED
    BY <2>3 DEF Alone!ViewNext
<1>6. CASE View!Refresh(i)
  <2>1. /\ phases[i] = "idle" /\ phases'[i] = "refreshing"
        /\ showns'[i] = showns[i]
    BY <1>1, <1>6, ViewMapped DEF View!Refresh
  <2>2. Alone(i)!Refresh(i)
    BY <2>1, AloneAt, AloneMapped DEF Alone!Refresh
  <2>3. QED
    BY <2>2 DEF Alone!ViewNext
<1>7. CASE View!Settle(i)
  <2>1. /\ phases[i] \in {"loading", "refreshing"} /\ phases'[i] = "idle"
        /\ showns'[i] \in Version \cup {showns[i]}
    BY <1>1, <1>7, ViewMapped DEF View!Settle, View!Busy
  <2>2. /\ phaseAt(i)[i] \in {"loading", "refreshing"}
        /\ phaseAt(i)' = [phaseAt(i) EXCEPT ![i] = "idle"]
        /\ \E d \in Version \cup {shownAt(i)[i]} :
              shownAt(i)' = [shownAt(i) EXCEPT ![i] = d]
    BY <2>1, AloneAt
  <2>3. Alone(i)!Settle(i)
    BY <2>2, AloneMapped DEF Alone!Settle, Alone!Busy
  <2>4. QED
    BY <2>3 DEF Alone!ViewNext
<1>8. CASE View!Close(i)
  <2>1. /\ phases[i] # "closed" /\ phases'[i] = "closed"
        /\ showns'[i] = NoData
    BY <1>1, <1>8, ViewMapped DEF View!Close
  <2>2. Alone(i)!Close(i)
    BY <2>1, AloneAt, AloneMapped DEF Alone!Close
  <2>3. QED
    BY <2>2 DEF Alone!ViewNext
<1>9. CASE View!CloseAll
  <2>1. phases'[i] = "closed" /\ showns'[i] = NoData
    BY <1>9, ViewMapped DEF View!CloseAll
  <2>2. /\ phaseAt(i)' = [j \in {i} |-> "closed"]
        /\ shownAt(i)' = [j \in {i} |-> NoData]
    BY <2>1, AloneAt
  <2>3. Alone(i)!CloseAll
    BY <2>2, AloneMapped DEF Alone!CloseAll
  <2>4. QED
    BY <2>3 DEF Alone!ViewNext
<1>10. QED
  BY <1>2, <1>3, <1>4, <1>5, <1>6, <1>7, <1>8, <1>9 DEF View!ViewNext

(* Each instance is a view by itself, whatever the others do with the      *)
(* cache they share, and with the key they may share: what DashboardScreen *)
(* takes for granted of its three.                                         *)
THEOREM EachHookIsAView == ASSUME NEW i \in Hooks
                           PROVE  Spec => Alone(i)!ViewSteps
<1>1. Init => Alone(i)!ViewInit
  <2>1. PhaseOf(NewHook) = "closed" /\ ShownOf(NewHook) = NoData
    BY DEF PhaseOf, ShownOf, NewHook
  <2>2. QED
    BY <2>1, AloneMapped DEF Init, Alone!ViewInit, phaseAt, shownAt
<1>2. HookInv /\ [Next]_vars => [Alone(i)!ViewNext]_(Alone(i)!viewVars)
  <2>1. UNCHANGED <<phaseAt(i), shownAt(i)>> => UNCHANGED Alone(i)!viewVars
    BY AloneMapped DEF Alone!viewVars
  <2>2. QED
    BY <2>1, StepOfView, StepAlone
<1>3. QED
  BY <1>1, <1>2, HookInitially, HookInductive, PTL DEF Spec, Alone!ViewSteps
=============================================================================
