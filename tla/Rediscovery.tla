---------------------------- MODULE Rediscovery ----------------------------
(***************************************************************************)
(* ImouHaDevice.replace_capabilities against what is in flight: the account *)
(* is listed again while reads and writes of the device's entities wait for *)
(* their answers (pyimouapi/ha_device.py 455-496 and the handlers that      *)
(* store an answer, pyimouapi/sensor.py).                                   *)
(*                                                                         *)
(* The coroutines hold an entity by its key, and look it up again when the  *)
(* answer is there; the alarm panel is held by reference.  So is the select *)
(* of the collection points, which is left out: it goes back to its prompt  *)
(* after every use.                                                         *)
(***************************************************************************)
EXTENDS Naturals, FiniteSets

CONSTANTS
  Polled,    \* sensors read by their name: battery and storage
  Service,   \* sensors read through an iot service, found by their ref
  Reported,  \* sensors that stand in the device's detail and in pushes
  Keyed,     \* switches, binary sensors, texts, and the bulb
  Selects,   \* selects, whose value is under current_option
  Panel,     \* the alarm panel, or the empty set
  Numbers,   \* states of variant "numeric"
  Codes,     \* states of variant "enum", e.g. the storage error codes
  Listings,  \* what a listing may give the device
  Default,   \* the state an entity is configured with; numeric for sensors
  Readers, Writers, NoKey

Sensors == Polled \cup Service \cup Reported
Keys    == Sensors \cup Keyed \cup Selects \cup Panel
Values  == Numbers \cup Codes

ASSUME KindsAssumption ==
  /\ Polled \cap Service = {} /\ Reported \cap (Polled \cup Service) = {}
  /\ Sensors \cap (Keyed \cup Selects \cup Panel) = {}
  /\ Keyed \cap (Selects \cup Panel) = {} /\ Selects \cap Panel = {}
  /\ Listings \subseteq SUBSET Keys
  /\ NoKey \notin Keys /\ Default \notin Values /\ Numbers \cap Codes = {}

VARIABLES
  listed,    \* the entities the last listing gave the device
  present,   \* the entities the device has
  state,     \* PARAM_STATE, or PARAM_CURRENT_OPTION of a select
  variant,   \* PARAM_STATE_VARIANT of a sensor
  last,      \* history: the last value stored since the entity appeared
  reading,   \* per reader: the key whose answer it waits for
  writing,   \* per writer: the key it writes
  value,     \* per writer: the value
  held       \* per writer: the entity was there all the time; for the panel,
             \* the object held is still the device's
vars == <<listed, present, state, variant, last, reading, writing, value, held>>

VariantOf(v) == IF v \in Codes THEN "enum" ELSE "numeric"

TypeOK ==
  /\ listed \subseteq present /\ present \subseteq Keys
  /\ state \in [Keys -> Values \cup {Default}]
  /\ \A k \in Keys \ present : state[k] = Default
  /\ variant \in [Sensors -> {"numeric", "enum"}]
  /\ last \in [Keys -> Values \cup {Default}]
  /\ reading \in [Readers -> Keys \cup {NoKey}]
  /\ writing \in [Writers -> Keys \cup {NoKey}]
  /\ value \in [Writers -> Values \cup {Default}]
  /\ held \in [Writers -> BOOLEAN]

Init ==
  /\ listed = Keys /\ present = Keys
  /\ state = [k \in Keys |-> Default]
  /\ variant = [k \in Sensors |-> "numeric"]
  /\ last = state
  /\ reading = [r \in Readers |-> NoKey]
  /\ writing = [w \in Writers |-> NoKey]
  /\ value = [w \in Writers |-> Default]
  /\ held = [w \in Writers |-> FALSE]

-----------------------------------------------------------------------------
(* Storing a value. *)

\* v is stored in the entry of k; a sensor's variant goes with its state.
Store(k, v) ==
  /\ state' = [state EXCEPT ![k] = v]
  /\ last' = [last EXCEPT ![k] = v]
  /\ variant' = IF k \in Sensors THEN [variant EXCEPT ![k] = VariantOf(v)] ELSE variant

Unstored == UNCHANGED <<state, last, variant>>

\* A poll starts the read of one entity that it finds on the device.  Without
\* its ref, which only the listing gives, a service sensor is not read.
BeginRead(r, k) ==
  /\ reading[r] = NoKey
  /\ k \in present \ (Panel \cup Reported)
  /\ k \in Service => k \in listed
  /\ reading' = [reading EXCEPT ![r] = k]
  /\ UNCHANGED <<listed, present, state, variant, last, writing, value, held>>

EndRead(r) == reading' = [reading EXCEPT ![r] = NoKey]

\* Every entity gets an entry when its answer comes.
ReadAnswered_AnyEntry(r, v) ==
  /\ reading[r] # NoKey
  /\ present' = present \cup {reading[r]}
  /\ Store(reading[r], v)
  /\ EndRead(r)
  /\ UNCHANGED <<listed, writing, value, held>>

\* The answer is stored: apply_sensor_state makes an entry if there is none,
\* every other kind raises KeyError there, which the poll logs.
ReadAnswered(r, v) ==
  /\ reading[r] # NoKey
  /\ LET k == reading[r] IN
       IF k \in present \cup Sensors
         THEN present' = present \cup {k} /\ Store(k, v)
         ELSE UNCHANGED present /\ Unstored
  /\ EndRead(r)
  /\ UNCHANGED <<listed, writing, value, held>>

\* The read fails or its answer has no value.
ReadFails(r) ==
  /\ reading[r] # NoKey
  /\ EndRead(r)
  /\ UNCHANGED <<listed, present, state, variant, last, writing, value, held>>

\* A detail answer or a push: the entities are collected when it is applied,
\* with no await in between.
ApplyProperty(k, v) ==
  /\ k \in present \ (Polled \cup Service)
  /\ Store(k, v)
  /\ UNCHANGED <<listed, present, reading, writing, value, held>>

-----------------------------------------------------------------------------
(* Writes. *)

\* The entry is looked up first; a key that is not there raises at once.
BeginWrite(w, k, v) ==
  /\ writing[w] = NoKey
  /\ k \in present \ Sensors
  /\ writing' = [writing EXCEPT ![w] = k]
  /\ value' = [value EXCEPT ![w] = v]
  /\ held' = [held EXCEPT ![w] = TRUE]
  /\ UNCHANGED <<listed, present, state, variant, last, reading>>

EndWrite(w) ==
  /\ writing' = [writing EXCEPT ![w] = NoKey]
  /\ value' = [value EXCEPT ![w] = Default]
  /\ held' = [held EXCEPT ![w] = FALSE]

\* The panel's mode is left to the next poll.
WriteAnswered_NotPanel(w) ==
  /\ writing[w] # NoKey
  /\ IF writing[w] \in present \ Panel THEN Store(writing[w], value[w]) ELSE Unstored
  /\ EndWrite(w)
  /\ UNCHANGED <<listed, present, reading>>

\* The platform accepted the value.  Into the panel that the call took before
\* it waited, or into the entry the key has now; a key that has gone raises.
WriteAnswered(w) ==
  /\ writing[w] # NoKey
  /\ LET k == writing[w] IN
       IF IF k \in Panel THEN held[w] ELSE k \in present
         THEN Store(k, value[w])
         ELSE Unstored
  /\ EndWrite(w)
  /\ UNCHANGED <<listed, present, reading>>

WriteFails(w) ==
  /\ writing[w] # NoKey
  /\ EndWrite(w)
  /\ UNCHANGED <<listed, present, state, variant, last, reading>>

-----------------------------------------------------------------------------
(* replace_capabilities, with the entities of a freshly listed device. *)

Replace_Forgets(fresh) ==
  /\ listed' = fresh /\ present' = fresh
  /\ state' = [k \in Keys |-> Default]
  /\ last' = [k \in Keys |-> IF k \in fresh \cap present THEN last[k] ELSE Default]
  /\ variant' = [k \in Sensors |-> "numeric"]
  /\ held' = [w \in Writers |-> held[w] /\ writing[w] \in fresh]
  /\ UNCHANGED <<reading, writing, value>>

\* Only what an earlier listing gave is taken away.
Replace_OnlyListed(fresh) ==
  LET kept == present \ (listed \ fresh) IN
  /\ listed' = fresh /\ present' = kept \cup fresh
  /\ state' = [k \in Keys |-> IF k \in kept /\ k \notin Selects THEN state[k] ELSE Default]
  /\ last' = [k \in Keys |-> IF k \in kept THEN last[k] ELSE Default]
  /\ variant' = [k \in Sensors |-> IF k \in kept \ fresh THEN variant[k] ELSE "numeric"]
  /\ held' = [w \in Writers |-> held[w] /\ writing[w] \in fresh]
  /\ UNCHANGED <<reading, writing, value>>

\* Entities that are not listed any more go; the others take PARAM_STATE along
\* and nothing else, so a select's option and a sensor's variant are the fresh
\* ones.  The panel and the bulb keep their object.
Replace(fresh) ==
  LET kept == present \cap fresh IN
  /\ listed' = fresh /\ present' = fresh
  /\ state' = [k \in Keys |-> IF k \in kept \ Selects THEN state[k] ELSE Default]
  /\ last' = [k \in Keys |-> IF k \in kept THEN last[k] ELSE Default]
  /\ variant' = [k \in Sensors |-> "numeric"]
  /\ held' = [w \in Writers |-> held[w] /\ writing[w] \in fresh]
  /\ UNCHANGED <<reading, writing, value>>

-----------------------------------------------------------------------------
Next ==
  \/ \E r \in Readers :
       \/ \E k \in Keys : BeginRead(r, k)
       \/ \E v \in Values : ReadAnswered(r, v)
       \/ ReadFails(r)
  \/ \E w \in Writers :
       \/ \E k \in Keys, v \in Values : BeginWrite(w, k, v)
       \/ WriteAnswered(w) \/ WriteFails(w)
  \/ \E k \in Keys, v \in Values : ApplyProperty(k, v)
  \/ \E fresh \in Listings : Replace(fresh)

Spec == Init /\ [][Next]_vars

\* Requests are answered or end at their deadline, and the caller lists the
\* account again and again.
Fairness ==
  /\ \A r \in Readers : WF_vars(ReadFails(r) \/ \E v \in Values : ReadAnswered(r, v))
  /\ WF_vars(\E fresh \in Listings : Replace(fresh))

FairSpec == Spec /\ Fairness

-----------------------------------------------------------------------------
Ghosts == present \ listed

\* An answer that comes after its entity has gone never brings back a switch,
\* select, text, binary sensor, bulb or panel; it may bring back a sensor, though
\* the caller was told to drop it.
OnlySensorsComeBack == Ghosts \subseteq Sensors

\* A rediscovery at any moment, between a request and its answer too, does not
\* cost an entity that stays the last value stored in it.  At most the option of
\* a select is the default again, and the variant of a sensor "numeric" again.
LastValueSurvives ==
  \A k \in present :
    /\ state[k] = last[k] \/ (k \in Selects /\ state[k] = Default)
    /\ k \in Sensors => variant[k] \in {VariantOf(state[k]), "numeric"}

\* A write the platform accepted is the entity's value when the call ends,
\* unless a rediscovery took the entity away while the call was waiting.
AcceptedWriteShows ==
  [][\A w \in Writers : WriteAnswered(w) /\ held[w] => state'[writing[w]] = value[w]]_vars

\* A service sensor that came back after its entity had gone has lost its ref
\* and is not read any more, so it goes again once the account stays as it is.
ServiceGhostsFade ==
  \A k \in Service : <>[](k \notin listed) => <>[](k \notin present)
=============================================================================
