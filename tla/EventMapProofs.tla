--------------------------- MODULE EventMapProofs ---------------------------
(***************************************************************************)
(* Theorems about EventMap, for any number of coroutines, products and     *)
(* models and any retry time.                                              *)
(***************************************************************************)
EXTENDS EventMap, TLAPS

\* A product's lock is held exactly by the coroutine that fetches its model,
\* and a coroutine that waits or fetches knows its product.
LockInv ==
  /\ \A t \in Tasks : pc[t] # "idle" => product[t] \in Products
  /\ \A t \in Tasks : pc[t] = "fetch" => locks[product[t]] = t
  /\ \A p \in Products : locks[p] # NoTask =>
       pc[locks[p]] = "fetch" /\ product[locks[p]] = p

IInv == TypeOK /\ LockInv /\ NoFetchWhenCached /\ FailureIsThrottled

-----------------------------------------------------------------------------
\* Ending a call keeps the types and the locks right, and only gives back the
\* lock the call held.
LEMMA EndStep ==
  ASSUME TypeOK, LockInv, NEW t \in Tasks, NEW how \in {"returned", "cancelled"},
         End(t, how)
  PROVE  /\ locks' \in [Products -> Tasks \cup {NoTask}]
         /\ pc' \in [Tasks -> {"idle", "lock", "fetch"}]
         /\ product' \in [Tasks -> Products \cup {NoProduct}]
         /\ outcome' \in [Tasks -> {"none", "returned", "cancelled"}]
         /\ LockInv'
         /\ \A u \in Tasks : pc'[u] = "fetch" => u # t /\ pc[u] = "fetch"
         /\ \A u \in Tasks : u # t => product'[u] = product[u]
<1> USE DEF TypeOK, End
<1>1. locks' \in [Products -> Tasks \cup {NoTask}]
  OBVIOUS
<1>2. LockInv'
  BY <1>1 DEF LockInv
<1> QED
  BY <1>1, <1>2

\* So does asking for the map with the lock in hand.
LEMMA UnderLockStep ==
  ASSUME IInv, NEW t \in Tasks, NEW p \in Products, pc[t] # "fetch",
         locks[p] = NoTask, UnderLock(t, p), UNCHANGED <<eventMaps, failedFor>>
  PROVE  IInv'
<1>1. CASE End(t, "returned")
  <2>1. TypeOK' /\ LockInv'
    BY <1>1, EndStep DEF IInv, TypeOK
  <2>2. NoFetchWhenCached' /\ FailureIsThrottled'
    BY <1>1, EndStep DEF IInv, NoFetchWhenCached, FailureIsThrottled, Cached, Throttled
  <2> QED
    BY <2>1, <2>2 DEF IInv
<1>2. CASE /\ ~Cached(p) /\ ~Throttled(p)
           /\ locks' = [locks EXCEPT ![p] = t]
           /\ pc' = [pc EXCEPT ![t] = "fetch"]
           /\ product' = [product EXCEPT ![t] = p]
           /\ UNCHANGED outcome
  <2>1. TypeOK'
    BY <1>2 DEF IInv, TypeOK
  <2>2. LockInv'
    BY <1>2, ConstantsAssumption DEF IInv, TypeOK, LockInv
  <2>3. NoFetchWhenCached' /\ FailureIsThrottled'
    BY <1>2 DEF IInv, TypeOK, NoFetchWhenCached, FailureIsThrottled, Cached, Throttled
  <2> QED
    BY <2>1, <2>2, <2>3 DEF IInv
<1> QED
  BY <1>1, <1>2 DEF UnderLock

\* A call that gives up or is answered without a map.
LEMMA EndKeepsIInv ==
  ASSUME IInv, NEW t \in Tasks, NEW how \in {"returned", "cancelled"},
         End(t, how), UNCHANGED <<eventMaps, failedFor>>
  PROVE  IInv'
<1>1. TypeOK' /\ LockInv'
  BY EndStep DEF IInv, TypeOK
<1>2. NoFetchWhenCached' /\ FailureIsThrottled'
  BY EndStep DEF IInv, NoFetchWhenCached, FailureIsThrottled, Cached, Throttled
<1> QED
  BY <1>1, <1>2 DEF IInv

\* Nobody else fetches the product a coroutine is fetching.
LEMMA OthersFetchOther ==
  ASSUME LockInv, NEW t \in Tasks, NEW u \in Tasks, u # t,
         pc[t] = "fetch", pc[u] = "fetch"
  PROVE  product[u] # product[t]
BY DEF LockInv

\* The invariant survives every step.
LEMMA NextIInv == IInv /\ [Next]_vars => IInv'
<1> SUFFICES ASSUME IInv, [Next]_vars PROVE IInv'
  OBVIOUS
<1>1. ASSUME NEW t \in Tasks, NEW p \in Products, EnsureEventMap(t, p) PROVE IInv'
  <2>1. CASE Cached(p) /\ End(t, "returned")
    BY <1>1, <2>1, EndKeepsIInv DEF EnsureEventMap
  <2>2. CASE LockIsFree(p) /\ UnderLock(t, p)
    BY <1>1, <2>2, UnderLockStep DEF EnsureEventMap, LockIsFree
  <2>3. CASE /\ pc' = [pc EXCEPT ![t] = "lock"]
             /\ product' = [product EXCEPT ![t] = p]
             /\ UNCHANGED <<locks, outcome>>
    <3>1. TypeOK'
      BY <1>1, <2>3 DEF EnsureEventMap, IInv, TypeOK
    <3>2. LockInv'
      BY <1>1, <2>3, ConstantsAssumption DEF EnsureEventMap, IInv, TypeOK, LockInv
    <3>3. \A u \in Tasks : pc'[u] = "fetch" => pc[u] = "fetch" /\ product'[u] = product[u]
      BY <1>1, <2>3 DEF EnsureEventMap, IInv, TypeOK
    <3>4. NoFetchWhenCached' /\ FailureIsThrottled'
      BY <1>1, <3>3 DEF EnsureEventMap, IInv, NoFetchWhenCached, FailureIsThrottled,
                        Cached, Throttled
    <3> QED
      BY <3>1, <3>2, <3>4 DEF IInv
  <2> QED
    BY <1>1, <2>1, <2>2, <2>3 DEF EnsureEventMap
<1>2. ASSUME NEW t \in Tasks, Acquire(t) PROVE IInv'
  BY <1>2, UnderLockStep DEF Acquire, IInv, LockInv
<1>3. ASSUME NEW t \in Tasks, NEW m \in Models, FetchSucceeds(t, m) PROVE IInv'
  <2>1. TypeOK' /\ LockInv'
    <3>1. TypeOK /\ LockInv /\ End(t, "returned")
      BY <1>3 DEF FetchSucceeds, IInv
    <3>2. failedFor' \in [Products -> 0..Never]
      <4>1. Never \in 0..Never /\ 0 \in 0..Never
        BY ConstantsAssumption DEF Never
      <4>2. failedFor \in [Products -> 0..Never]
        BY DEF IInv, TypeOK
      <4> QED
        BY <1>3, <4>1, <4>2 DEF FetchSucceeds
    <3>3. eventMaps' \in [Products -> Models \cup {NoModel}]
      BY <1>3 DEF FetchSucceeds, IInv, TypeOK
    <3> QED
      BY <3>1, <3>2, <3>3, EndStep DEF TypeOK
  <2>2. \A u \in Tasks : pc'[u] = "fetch" =>
          pc[u] = "fetch" /\ product'[u] = product[u] /\ product[u] # product[t]
    BY <1>3, EndStep, OthersFetchOther DEF FetchSucceeds, IInv
  <2>3. NoFetchWhenCached' /\ FailureIsThrottled'
    BY <1>3, <2>2 DEF FetchSucceeds, IInv, TypeOK, NoFetchWhenCached,
                      FailureIsThrottled, Cached, Throttled
  <2> QED
    BY <2>1, <2>3 DEF IInv
<1>4. ASSUME NEW t \in Tasks, FetchFails(t) PROVE IInv'
  <2>1. TypeOK' /\ LockInv'
    <3>1. TypeOK /\ LockInv /\ End(t, "returned") /\ UNCHANGED eventMaps
      BY <1>4 DEF FetchFails, IInv
    <3>2. failedFor' \in [Products -> 0..Never]
      <4>1. Never \in 0..Never /\ 0 \in 0..Never
        BY ConstantsAssumption DEF Never
      <4>2. failedFor \in [Products -> 0..Never]
        BY DEF IInv, TypeOK
      <4> QED
        BY <1>4, <4>1, <4>2 DEF FetchFails
    <3> QED
      BY <3>1, <3>2, EndStep DEF TypeOK
  <2>2. \A u \in Tasks : pc'[u] = "fetch" =>
          pc[u] = "fetch" /\ product'[u] = product[u] /\ product[u] # product[t]
    BY <1>4, EndStep, OthersFetchOther DEF FetchFails, IInv
  <2>3. NoFetchWhenCached' /\ FailureIsThrottled'
    BY <1>4, <2>2 DEF FetchFails, IInv, TypeOK, NoFetchWhenCached,
                      FailureIsThrottled, Cached, Throttled
  <2> QED
    BY <2>1, <2>3 DEF IInv
<1>5. ASSUME NEW t \in Tasks, Cancel(t) PROVE IInv'
  BY <1>5, EndKeepsIInv DEF Cancel
<1>6. ASSUME Tick PROVE IInv'
  <2>1. TypeOK' /\ LockInv' /\ NoFetchWhenCached'
    BY <1>6, ConstantsAssumption DEF Tick, IInv, TypeOK, LockInv,
                                NoFetchWhenCached, Cached, Throttled, Never
  <2>2. FailureIsThrottled'
    BY <1>6 DEF Tick, IInv, TypeOK, LockInv, FailureIsThrottled, Throttled
  <2> QED
    BY <2>1, <2>2 DEF IInv
<1>7. CASE UNCHANGED vars
  BY <1>7 DEF vars, IInv, TypeOK, LockInv, NoFetchWhenCached, FailureIsThrottled,
              Cached, Throttled
<1> QED
  BY <1>1, <1>2, <1>3, <1>4, <1>5, <1>6, <1>7 DEF Next, Answered

\* The inductive invariant holds in every reachable state.
THEOREM Invariance == Spec => []IInv
<1>1. Init => IInv
  BY ConstantsAssumption DEF Init, IInv, TypeOK, LockInv, NoFetchWhenCached,
                             FailureIsThrottled, Never
<1> QED
  BY <1>1, NextIInv, PTL DEF Spec

\* Every variable keeps its type.
THEOREM TypeCorrect == Spec => []TypeOK
<1>1. IInv => TypeOK
  BY DEF IInv
<1> QED
  BY <1>1, Invariance, PTL

\* Pushes of one product share one request.
THEOREM RequestsAreShared == Spec => []OneFetchPerProduct
<1>1. IInv => OneFetchPerProduct
  BY DEF IInv, LockInv, OneFetchPerProduct
<1> QED
  BY <1>1, Invariance, PTL

\* A cached map is never fetched again.
THEOREM CachedIsCached == Spec => []NoFetchWhenCached
<1>1. IInv => NoFetchWhenCached
  BY DEF IInv
<1> QED
  BY <1>1, Invariance, PTL

\* A failed request is not repeated before its time.
THEOREM FailuresAreThrottled == Spec => []FailureIsThrottled
<1>1. IInv => FailureIsThrottled
  BY DEF IInv
<1> QED
  BY <1>1, Invariance, PTL

-----------------------------------------------------------------------------
\* A call that waited comes back with a map or because of a recent failure.
LEMMA EmptyHandedStep ==
  ASSUME IInv, [Next]_vars, NEW t \in Tasks,
         pc[t] # "idle", pc'[t] = "idle", outcome'[t] = "returned"
  PROVE  eventMaps'[product[t]] # NoModel \/ failedFor'[product[t]] < RetrySeconds
<1> USE DEF IInv, TypeOK
<1>0. product[t] \in Products
  BY DEF LockInv
<1>1. ASSUME NEW u \in Tasks, NEW p \in Products, EnsureEventMap(u, p) PROVE FALSE
  <2>1. u # t
    BY <1>1 DEF EnsureEventMap
  <2> QED
    BY <1>1, <2>1 DEF EnsureEventMap, End, UnderLock
<1>2. ASSUME NEW u \in Tasks, Acquire(u)
      PROVE eventMaps'[product[t]] # NoModel \/ failedFor'[product[t]] < RetrySeconds
  <2>1. u = t /\ (Cached(product[t]) \/ Throttled(product[t]))
    BY <1>2 DEF Acquire, UnderLock, End
  <2> QED
    BY <1>2, <2>1 DEF Acquire, Cached, Throttled
<1>3. ASSUME NEW u \in Tasks, NEW m \in Models, FetchSucceeds(u, m)
      PROVE eventMaps'[product[t]] # NoModel
  <2>1. u = t
    BY <1>3 DEF FetchSucceeds, End
  <2> QED
    BY <1>0, <1>3, <2>1, ConstantsAssumption DEF FetchSucceeds
<1>4. ASSUME NEW u \in Tasks, FetchFails(u)
      PROVE failedFor'[product[t]] < RetrySeconds
  <2>1. u = t
    BY <1>4 DEF FetchFails, End
  <2> QED
    BY <1>0, <1>4, <2>1, ConstantsAssumption DEF FetchFails
<1>5. ASSUME NEW u \in Tasks, Cancel(u) PROVE FALSE
  BY <1>5 DEF Cancel, End
<1>6. CASE Tick \/ UNCHANGED vars
  BY <1>6 DEF Tick, vars
<1> QED
  BY <1>1, <1>2, <1>3, <1>4, <1>5, <1>6 DEF Next, Answered

\* An event stays unresolved only because of a recent failure.
THEOREM EmptyHandedIsJustified == Spec => EmptyHandedOnlyAfterFailure
<1>1. IInv /\ [Next]_vars =>
        [\A t \in Tasks :
           pc[t] # "idle" /\ pc'[t] = "idle" /\ outcome'[t] = "returned"
           => eventMaps'[product[t]] # NoModel
              \/ failedFor'[product[t]] < RetrySeconds]_vars
  BY EmptyHandedStep
<1> QED
  BY <1>1, Invariance, PTL DEF Spec, EmptyHandedOnlyAfterFailure

-----------------------------------------------------------------------------
\* A coroutine that holds no lock leaves the locks alone when it ends.
LEMMA EndWithoutLock ==
  ASSUME IInv, NEW t \in Tasks, NEW how, pc[t] # "fetch", End(t, how)
  PROVE  UNCHANGED locks
<1>1. \A p \in Products : locks[p] # t
  BY ConstantsAssumption DEF IInv, LockInv
<1> QED
  BY <1>1 DEF End, IInv, TypeOK

\* A coroutine that fetches gives back just its product's lock.
LEMMA EndWithLock ==
  ASSUME IInv, NEW t \in Tasks, NEW how, pc[t] = "fetch", End(t, how)
  PROVE  /\ product[t] \in Products
         /\ locks[product[t]] # NoTask
         /\ locks' = [locks EXCEPT ![product[t]] = NoTask]
<1>1. product[t] \in Products /\ locks[product[t]] = t
  BY DEF IInv, LockInv
<1>2. \A p \in Products : locks[p] = t => p = product[t]
  BY ConstantsAssumption DEF IInv, LockInv
<1> QED
  BY <1>1, <1>2, ConstantsAssumption DEF End, IInv, TypeOK

\* What happens under the lock is a load or nothing above.
LEMMA UnderLockIsLoad ==
  ASSUME IInv, NEW t \in Tasks, NEW p \in Products, pc[t] # "fetch",
         locks[p] = NoTask, UnderLock(t, p), UNCHANGED eventMaps
  PROVE  [MapFlight!Next]_(MapFlight!vars)
<1>1. CASE End(t, "returned")
  BY <1>1, EndWithoutLock DEF MapFlight!vars
<1>2. CASE ~Cached(p) /\ locks' = [locks EXCEPT ![p] = t]
  <2>1. MapFlight!Load(p, t)
    BY <1>2 DEF MapFlight!Load, Cached
  <2> QED
    BY <2>1 DEF MapFlight!Next
<1> QED
  BY <1>1, <1>2 DEF UnderLock

\* A call that ends without a map gives its load up, or had none.
LEMMA EndIsGiveUp ==
  ASSUME IInv, NEW t \in Tasks, NEW how, End(t, how), UNCHANGED eventMaps
  PROVE  [MapFlight!Next]_(MapFlight!vars)
<1>1. CASE pc[t] = "fetch"
  <2>1. MapFlight!GiveUp(product[t])
    BY <1>1, EndWithLock DEF MapFlight!GiveUp
  <2> QED
    BY <1>1, <2>1, EndWithLock DEF MapFlight!Next
<1>2. CASE pc[t] # "fetch"
  BY <1>2, EndWithoutLock DEF MapFlight!vars
<1> QED
  BY <1>1, <1>2

\* The event maps are single-flight values, product by product.
THEOREM MapRefinement == Spec => MapsAreSingleFlight
<1>1. Init => MapFlight!Init
  BY DEF Init, MapFlight!Init
<1>2. IInv /\ [Next]_vars => [MapFlight!Next]_(MapFlight!vars)
  <2> SUFFICES ASSUME IInv, [Next]_vars PROVE [MapFlight!Next]_(MapFlight!vars)
    OBVIOUS
  <2>1. ASSUME NEW t \in Tasks, NEW p \in Products, EnsureEventMap(t, p)
        PROVE [MapFlight!Next]_(MapFlight!vars)
    <3>1. CASE Cached(p) /\ End(t, "returned")
      BY <2>1, <3>1, EndIsGiveUp DEF EnsureEventMap
    <3>2. CASE LockIsFree(p) /\ UnderLock(t, p)
      BY <2>1, <3>2, UnderLockIsLoad DEF EnsureEventMap, LockIsFree
    <3>3. CASE UNCHANGED locks
      BY <2>1, <3>3 DEF EnsureEventMap, MapFlight!vars
    <3> QED
      BY <2>1, <3>1, <3>2, <3>3 DEF EnsureEventMap
  <2>2. ASSUME NEW t \in Tasks, Acquire(t) PROVE [MapFlight!Next]_(MapFlight!vars)
    BY <2>2, UnderLockIsLoad DEF Acquire, IInv, LockInv
  <2>3. ASSUME NEW t \in Tasks, NEW m \in Models, FetchSucceeds(t, m)
        PROVE [MapFlight!Next]_(MapFlight!vars)
    <3>1. MapFlight!Store(product[t], m)
      BY <2>3, EndWithLock DEF FetchSucceeds, MapFlight!Store
    <3> QED
      BY <2>3, <3>1, EndWithLock DEF FetchSucceeds, MapFlight!Next
  <2>4. ASSUME NEW t \in Tasks, FetchFails(t) \/ Cancel(t)
        PROVE [MapFlight!Next]_(MapFlight!vars)
    BY <2>4, EndIsGiveUp DEF FetchFails, Cancel
  <2>5. CASE Tick \/ UNCHANGED vars
    BY <2>5 DEF Tick, vars, MapFlight!vars
  <2> QED
    BY <2>1, <2>2, <2>3, <2>4, <2>5 DEF Next, Answered
<1> QED
  BY <1>1, <1>2, Invariance, PTL DEF Spec, MapsAreSingleFlight, MapFlight!SafeSpec
=============================================================================
