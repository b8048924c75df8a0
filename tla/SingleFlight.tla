---------------------------- MODULE SingleFlight ----------------------------
(***************************************************************************)
(* What a shared, lazily loaded value promises its callers: at most one    *)
(* load per key is in progress, and a load starts only while the value is  *)
(* missing or known to be bad.  Promised by the token of ImouOpenApiClient *)
(* and by the event translations of ImouDeviceManager.  That the loads end  *)
(* is EveryCallEnds of OpenApiClient and EventuallyCached of EventMap.      *)
(***************************************************************************)
CONSTANTS
  Keys, Callers, Values,
  Forcers,             \* callers that may load over a good value
  NoCaller, NoValue

VARIABLES
  value,   \* what each key currently holds
  bad,     \* values known not to be usable any more
  loader   \* who is loading the key

vars == <<value, bad, loader>>

Init ==
  /\ value = [k \in Keys |-> NoValue]
  /\ bad = {}
  /\ loader = [k \in Keys |-> NoCaller]

\* A caller that needs the value starts a load.
Load(k, c) ==
  /\ loader[k] = NoCaller
  /\ value[k] \in bad \cup {NoValue}
  /\ loader' = [loader EXCEPT ![k] = c]
  /\ UNCHANGED <<value, bad>>

\* A caller that asks for a fresh value whatever is held.
Force(k, c) ==
  /\ c \in Forcers
  /\ loader[k] = NoCaller
  /\ loader' = [loader EXCEPT ![k] = c]
  /\ UNCHANGED <<value, bad>>

Store(k, v) ==
  /\ loader[k] # NoCaller
  /\ value' = [value EXCEPT ![k] = v]
  /\ loader' = [loader EXCEPT ![k] = NoCaller]
  /\ UNCHANGED bad

GiveUp(k) ==
  /\ loader[k] # NoCaller
  /\ loader' = [loader EXCEPT ![k] = NoCaller]
  /\ UNCHANGED <<value, bad>>

Discredit(v) ==
  /\ bad' = bad \cup {v}
  /\ UNCHANGED <<value, loader>>

Next ==
  \/ \E k \in Keys, c \in Callers : Load(k, c) \/ Force(k, c)
  \/ \E k \in Keys, v \in Values : Store(k, v)
  \/ \E k \in Keys : GiveUp(k)
  \/ \E v \in Values : Discredit(v)

SafeSpec == Init /\ [][Next]_vars
=============================================================================
