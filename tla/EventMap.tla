------------------------------ MODULE EventMap ------------------------------
(***************************************************************************)
(* The per-product cache of event translations in ImouDeviceManager        *)
(* (pyimouapi/device.py, async_ensure_event_map): pushes arriving together *)
(* share one getProductModel request, a failed one is not repeated for     *)
(* _EVENT_MAP_RETRY_SECONDS, and a map once cached stays.                  *)
(*                                                                         *)
(* A step runs from one suspension to the next: the product's lock when it *)
(* is taken, and the request.  _event_map_locks_guard is never held across *)
(* a suspension, so nobody ever waits for it.                              *)
(***************************************************************************)
EXTENDS Naturals

CONSTANTS
  Tasks, Products, Models,
  RetrySeconds,              \* _EVENT_MAP_RETRY_SECONDS, in clock ticks
  NoTask, NoProduct, NoModel

ASSUME ConstantsAssumption ==
  /\ NoTask \notin Tasks /\ NoProduct \notin Products /\ NoModel \notin Models
  /\ RetrySeconds \in Nat \ {0}

VARIABLES
  eventMaps,  \* self._event_maps; NoModel: product_id not in it
  failedFor,  \* monotonic() - self._event_map_failed_at[p], see Never
  locks,      \* owner of self._event_map_locks[p]
  pc,         \* where each coroutine is suspended
  product,    \* its product_id
  outcome     \* history: how its last call ended

vars == <<eventMaps, failedFor, locks, pc, product, outcome>>

\* failedFor counts ticks since the last failure up to RetrySeconds, beyond
\* which the code no longer tells times apart; Never: no failure recorded.
Never == RetrySeconds + 1
Throttled(p) == failedFor[p] < RetrySeconds

TypeOK ==
  /\ eventMaps \in [Products -> Models \cup {NoModel}]
  /\ failedFor \in [Products -> 0..Never]
  /\ locks \in [Products -> Tasks \cup {NoTask}]
  /\ pc \in [Tasks -> {"idle", "lock", "fetch"}]
  /\ product \in [Tasks -> Products \cup {NoProduct}]
  /\ outcome \in [Tasks -> {"none", "returned", "cancelled"}]

Init ==
  /\ eventMaps = [p \in Products |-> NoModel]
  /\ failedFor = [p \in Products |-> Never]
  /\ locks = [p \in Products |-> NoTask]
  /\ pc = [t \in Tasks |-> "idle"]
  /\ product = [t \in Tasks |-> NoProduct]
  /\ outcome = [t \in Tasks |-> "none"]

-----------------------------------------------------------------------------
Cached(p) == eventMaps[p] # NoModel

\* asyncio.Lock is free and nobody queues for it.
LockIsFree(p) ==
  locks[p] = NoTask /\ ~\E t \in Tasks : pc[t] = "lock" /\ product[t] = p

\* The call ends and gives back whatever it holds.
End(t, how) ==
  /\ pc' = [pc EXCEPT ![t] = "idle"]
  /\ product' = [product EXCEPT ![t] = NoProduct]
  /\ outcome' = [outcome EXCEPT ![t] = how]
  /\ locks' = [p \in Products |-> IF locks[p] = t THEN NoTask ELSE locks[p]]

\* Holding the lock, without the second look.
UnderLock_NoRecheck(t, p) ==
  \/ Throttled(p) /\ End(t, "returned")
  \/ /\ ~Throttled(p)
     /\ locks' = [locks EXCEPT ![p] = t]
     /\ pc' = [pc EXCEPT ![t] = "fetch"]
     /\ product' = [product EXCEPT ![t] = p]
     /\ UNCHANGED outcome

\* Holding the lock, without the throttle.
UnderLock_NoThrottle(t, p) ==
  \/ Cached(p) /\ End(t, "returned")
  \/ /\ ~Cached(p)
     /\ locks' = [locks EXCEPT ![p] = t]
     /\ pc' = [pc EXCEPT ![t] = "fetch"]
     /\ product' = [product EXCEPT ![t] = p]
     /\ UNCHANGED outcome

\* Holding the lock, where a failure is held against the product for ever.
UnderLock_ForEver(t, p) ==
  \/ (Cached(p) \/ failedFor[p] # Never) /\ End(t, "returned")
  \/ /\ ~Cached(p) /\ failedFor[p] = Never
     /\ locks' = [locks EXCEPT ![p] = t]
     /\ pc' = [pc EXCEPT ![t] = "fetch"]
     /\ product' = [product EXCEPT ![t] = p]
     /\ UNCHANGED outcome

\* Holding the lock: look again, respect the throttle, fetch.
UnderLock(t, p) ==
  \/ (Cached(p) \/ Throttled(p)) /\ End(t, "returned")
  \/ /\ ~Cached(p) /\ ~Throttled(p)
     /\ locks' = [locks EXCEPT ![p] = t]
     /\ pc' = [pc EXCEPT ![t] = "fetch"]
     /\ product' = [product EXCEPT ![t] = p]
     /\ UNCHANGED outcome

\* async_ensure_event_map(p) up to its first suspension.
EnsureEventMap(t, p) ==
  /\ pc[t] = "idle"
  /\ \/ Cached(p) /\ End(t, "returned")
     \/ ~Cached(p) /\ LockIsFree(p) /\ UnderLock(t, p)
     \/ /\ ~Cached(p) /\ ~LockIsFree(p)
        /\ pc' = [pc EXCEPT ![t] = "lock"]
        /\ product' = [product EXCEPT ![t] = p]
        /\ UNCHANGED <<locks, outcome>>
  /\ UNCHANGED <<eventMaps, failedFor>>

\* A waiter gets the product's lock.
Acquire(t) ==
  /\ pc[t] = "lock"
  /\ locks[product[t]] = NoTask
  /\ UnderLock(t, product[t])
  /\ UNCHANGED <<eventMaps, failedFor>>

\* getProductModel answers: forget the failure, cache the map.
FetchSucceeds(t, model) ==
  /\ pc[t] = "fetch"
  /\ failedFor' = [failedFor EXCEPT ![product[t]] = Never]
  /\ eventMaps' = [eventMaps EXCEPT ![product[t]] = model]
  /\ End(t, "returned")

\* The failure is forgotten.
FetchFails_NotNoted(t) ==
  /\ pc[t] = "fetch"
  /\ End(t, "returned")
  /\ UNCHANGED <<eventMaps, failedFor>>

\* except Exception: whatever it was, note when and return.
FetchFails(t) ==
  /\ pc[t] = "fetch"
  /\ failedFor' = [failedFor EXCEPT ![product[t]] = 0]
  /\ End(t, "returned")
  /\ UNCHANGED eventMaps

\* CancelledError is no Exception: nothing is noted.
Cancel(t) ==
  /\ pc[t] \in {"lock", "fetch"}
  /\ End(t, "cancelled")
  /\ UNCHANGED <<eventMaps, failedFor>>

\* Time passes (external).
Tick ==
  /\ \E p \in Products : Throttled(p)
  /\ failedFor' = [p \in Products |->
                     IF Throttled(p) THEN failedFor[p] + 1 ELSE failedFor[p]]
  /\ UNCHANGED <<eventMaps, locks, pc, product, outcome>>

Answered(t) == FetchFails(t) \/ \E m \in Models : FetchSucceeds(t, m)

Next ==
  \/ \E t \in Tasks :
       \/ \E p \in Products : EnsureEventMap(t, p)
       \/ Acquire(t) \/ Answered(t) \/ Cancel(t)
  \/ Tick

Spec == Init /\ [][Next]_vars

\* The client ends every request within its 30 s deadline and asyncio.Lock
\* serves its waiters in order.
Fairness == \A t \in Tasks : WF_vars(Answered(t)) /\ SF_vars(Acquire(t))

FairSpec == Spec /\ Fairness

\* A stream of pushes for p that keeps coming while its map is missing, time
\* that passes, and a platform that answers getProductModel now and then.
PushesKeepComing ==
  /\ WF_vars(Tick)
  /\ \A p \in Products :
       /\ SF_vars(\E t \in Tasks : EnsureEventMap(t, p) /\ ~Cached(p) /\ ~Throttled(p))
       /\ SF_vars(\E t \in Tasks, m \in Models :
                    product[t] = p /\ FetchSucceeds(t, m))

PushSpec == FairSpec /\ PushesKeepComing

-----------------------------------------------------------------------------
(* Safety. *)

\* Pushes of one product that arrive together share one request: whoever
\* fetches owns the product's lock (device.py:322-324).
OneFetchPerProduct ==
  \A t \in Tasks : pc[t] = "fetch" => locks[product[t]] = t

\* A product whose map is cached is not being fetched, not even by a push
\* that looked before the map was there (device.py:324 the second look).
NoFetchWhenCached ==
  \A t \in Tasks : pc[t] = "fetch" => ~Cached(product[t])

\* No request is out for a product within RetrySeconds of its last failure,
\* though every push queued behind the failing request gets the lock next
\* (device.py:81 "A failed product-model fetch is retried after this, instead
\* of on every push").
FailureIsThrottled ==
  \A t \in Tasks : pc[t] = "fetch" => ~Throttled(product[t])

\* A call that waited and comes back without a map comes back because a
\* request failed less than RetrySeconds ago: neither the cancelled request of
\* another push nor a failure long past leaves an event unresolved.
EmptyHandedOnlyAfterFailure ==
  [][\A t \in Tasks :
       pc[t] # "idle" /\ pc'[t] = "idle" /\ outcome'[t] = "returned"
       => eventMaps'[product[t]] # NoModel \/ failedFor'[product[t]] < RetrySeconds]_vars

(* Liveness. *)

\* A failure is not for ever: as long as pushes keep coming, the map of every
\* product is cached in the end.
EventuallyCached == \A p \in Products : <>Cached(p)

(* Refinement. *)

\* Each product's map is a SingleFlight value that never goes bad.
MapFlight == INSTANCE SingleFlight WITH
  Keys <- Products, Callers <- Tasks, Values <- Models, Forcers <- {},
  NoCaller <- NoTask, NoValue <- NoModel,
  value <- eventMaps, bad <- {}, loader <- locks

\* The locks, the second look and the request give what SingleFlight promises.
MapsAreSingleFlight == MapFlight!SafeSpec
=============================================================================
