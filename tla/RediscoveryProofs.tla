--------------------------- MODULE RediscoveryProofs ---------------------------
(***************************************************************************)
(* Theorems about Rediscovery for any number of entities of each kind, of   *)
(* reads and writes under way, and of values.  What is there and what was   *)
(* stored go together; a write holds an entity only while it is there.      *)
(* A device with a countdown is such a device, so all of it holds there too.*)
(***************************************************************************)
EXTENDS Countdown, TLAPS

USE DEF Keys, Sensors, Values

\* An entity that was there all the time is there.
HeldIsPresent == \A w \in Writers : held[w] => writing[w] \in present

IInv == TypeOK /\ OnlySensorsComeBack /\ LastValueSurvives /\ HeldIsPresent

-----------------------------------------------------------------------------
LEMMA VariantType ==
  \A v : VariantOf(v) \in {"numeric", "enum"}
BY DEF VariantOf

\* A value stored in an entity that is there is its state and its last value.
LEMMA StoreKeeps ==
  ASSUME TypeOK, LastValueSurvives, NEW k \in Keys, NEW v \in Values \cup {Default},
         Store(k, v), present' \in {present, present \cup {k}}, k \in present'
  PROVE  /\ state' \in [Keys -> Values \cup {Default}]
         /\ last' \in [Keys -> Values \cup {Default}]
         /\ variant' \in [Sensors -> {"numeric", "enum"}]
         /\ \A j \in Keys \ present' : state'[j] = Default
         /\ LastValueSurvives'
<1>1. /\ state' \in [Keys -> Values \cup {Default}]
      /\ last' \in [Keys -> Values \cup {Default}]
  BY DEF TypeOK, Store
<1>2. variant' \in [Sensors -> {"numeric", "enum"}]
  BY VariantType DEF TypeOK, Store
<1>3. \A j \in Keys : /\ state'[j] = IF j = k THEN v ELSE state[j]
                      /\ last'[j] = IF j = k THEN v ELSE last[j]
  BY DEF TypeOK, Store
<1>4. present' \subseteq Keys /\ present' \subseteq present \cup {k}
  BY DEF TypeOK
<1>5. \A j \in Keys \ present' : state'[j] = Default
  BY <1>3 DEF TypeOK
<1>6. \A j \in Sensors : variant'[j] = IF j = k THEN VariantOf(v) ELSE variant[j]
  BY DEF TypeOK, Store
<1>7. LastValueSurvives'
  BY <1>3, <1>4, <1>6 DEF LastValueSurvives
<1> QED
  BY <1>1, <1>2, <1>5, <1>7

LEMMA UnstoredKeeps ==
  ASSUME IInv, Unstored, present' = present
  PROVE  /\ state' \in [Keys -> Values \cup {Default}]
         /\ last' \in [Keys -> Values \cup {Default}]
         /\ variant' \in [Sensors -> {"numeric", "enum"}]
         /\ \A j \in Keys \ present' : state'[j] = Default
         /\ LastValueSurvives'
BY DEF IInv, TypeOK, LastValueSurvives, Unstored

LEMMA InitInv ==
  Init => IInv
BY DEF Init, IInv, TypeOK, OnlySensorsComeBack, Ghosts, LastValueSurvives, HeldIsPresent

LEMMA ReadAnsweredInv ==
  ASSUME KindsAssumption, IInv, NEW r \in Readers, NEW v \in Values, ReadAnswered(r, v)
  PROVE  IInv'
<1> USE DEF IInv
<1> DEFINE k == reading[r]
<1>1. k \in Keys /\ UNCHANGED <<listed, writing, value, held>>
  BY DEF ReadAnswered, TypeOK
<1>2. reading' \in [Readers -> Keys \cup {NoKey}]
  BY DEF ReadAnswered, EndRead, TypeOK
<1>3. CASE k \in present \cup Sensors
  <2>1. present' = present \cup {k} /\ Store(k, v)
    BY <1>3 DEF ReadAnswered
  <2>2. TypeOK' /\ LastValueSurvives'
    BY <1>1, <1>2, <2>1, StoreKeeps DEF TypeOK
  <2>3. OnlySensorsComeBack' /\ HeldIsPresent'
    BY <1>1, <1>3, <2>1 DEF OnlySensorsComeBack, Ghosts, HeldIsPresent, TypeOK
  <2> QED
    BY <2>2, <2>3
<1>4. CASE k \notin present \cup Sensors
  <2>1. present' = present /\ Unstored
    BY <1>4 DEF ReadAnswered
  <2>2. TypeOK' /\ LastValueSurvives'
    BY <1>1, <1>2, <2>1, UnstoredKeeps DEF TypeOK
  <2>3. OnlySensorsComeBack' /\ HeldIsPresent'
    BY <1>1, <2>1 DEF OnlySensorsComeBack, Ghosts, HeldIsPresent
  <2> QED
    BY <2>2, <2>3
<1> QED
  BY <1>3, <1>4

LEMMA WriteAnsweredInv ==
  ASSUME KindsAssumption, IInv, NEW w \in Writers, WriteAnswered(w)
  PROVE  IInv'
<1> USE DEF IInv
<1> DEFINE k == writing[w]
<1>1. k \in Keys /\ UNCHANGED <<listed, present, reading>>
  BY DEF WriteAnswered, TypeOK
<1>2. /\ writing' \in [Writers -> Keys \cup {NoKey}]
      /\ value' \in [Writers -> Values \cup {Default}]
      /\ held' \in [Writers -> BOOLEAN]
  BY DEF WriteAnswered, EndWrite, TypeOK
<1>3. OnlySensorsComeBack'
  BY <1>1 DEF OnlySensorsComeBack, Ghosts
<1>4. HeldIsPresent'
  BY <1>1 DEF WriteAnswered, EndWrite, HeldIsPresent, TypeOK
<1>5. CASE IF k \in Panel THEN held[w] ELSE k \in present
  <2>1. Store(k, value[w]) /\ k \in present
    BY <1>5 DEF WriteAnswered, HeldIsPresent
  <2>2. TypeOK' /\ LastValueSurvives'
    BY <1>1, <1>2, <2>1, StoreKeeps DEF TypeOK
  <2> QED
    BY <1>3, <1>4, <2>2
<1>6. CASE ~(IF k \in Panel THEN held[w] ELSE k \in present)
  <2>1. Unstored
    BY <1>6 DEF WriteAnswered
  <2>2. TypeOK' /\ LastValueSurvives'
    BY <1>1, <1>2, <2>1, UnstoredKeeps DEF TypeOK
  <2> QED
    BY <1>3, <1>4, <2>2
<1> QED
  BY <1>5, <1>6

LEMMA ReplaceInv ==
  ASSUME KindsAssumption, IInv, NEW fresh \in SUBSET Keys, Replace(fresh)
  PROVE  IInv'
<1> USE DEF IInv
<1>1. /\ state' \in [Keys -> Values \cup {Default}]
      /\ last' \in [Keys -> Values \cup {Default}]
      /\ \A k \in Keys \ present' : state'[k] = Default
      /\ LastValueSurvives'
  BY DEF Replace, TypeOK, LastValueSurvives
<1>2. TypeOK'
  BY <1>1 DEF Replace, TypeOK
<1>3. OnlySensorsComeBack' /\ HeldIsPresent'
  BY DEF Replace, OnlySensorsComeBack, Ghosts, HeldIsPresent
<1> QED
  BY <1>1, <1>2, <1>3

LEMMA StepInv ==
  ASSUME KindsAssumption, IInv, [Next]_vars
  PROVE  IInv'
<1> USE DEF IInv
<1>1. ASSUME NEW r \in Readers, NEW k \in Keys, BeginRead(r, k) PROVE IInv'
  BY <1>1 DEF BeginRead, TypeOK, OnlySensorsComeBack, Ghosts, LastValueSurvives,
     HeldIsPresent
<1>2. ASSUME NEW r \in Readers, NEW v \in Values, ReadAnswered(r, v) PROVE IInv'
  BY <1>2, ReadAnsweredInv
<1>3. ASSUME NEW r \in Readers, ReadFails(r) PROVE IInv'
  BY <1>3 DEF ReadFails, EndRead, TypeOK, OnlySensorsComeBack, Ghosts,
     LastValueSurvives, HeldIsPresent
<1>4. ASSUME NEW w \in Writers, NEW k \in Keys, NEW v \in Values, BeginWrite(w, k, v)
      PROVE  IInv'
  <2>1. TypeOK'
    BY <1>4 DEF BeginWrite, TypeOK
  <2>2. HeldIsPresent'
    BY <1>4 DEF BeginWrite, TypeOK, HeldIsPresent
  <2>3. OnlySensorsComeBack' /\ LastValueSurvives'
    BY <1>4 DEF BeginWrite, OnlySensorsComeBack, Ghosts, LastValueSurvives
  <2> QED
    BY <2>1, <2>2, <2>3
<1>5. ASSUME NEW w \in Writers, WriteAnswered(w) PROVE IInv'
  BY <1>5, WriteAnsweredInv
<1>6. ASSUME NEW w \in Writers, WriteFails(w) PROVE IInv'
  <2>1. TypeOK'
    BY <1>6 DEF WriteFails, EndWrite, TypeOK
  <2>2. HeldIsPresent'
    BY <1>6 DEF WriteFails, EndWrite, TypeOK, HeldIsPresent
  <2>3. OnlySensorsComeBack' /\ LastValueSurvives'
    BY <1>6 DEF WriteFails, OnlySensorsComeBack, Ghosts, LastValueSurvives
  <2> QED
    BY <2>1, <2>2, <2>3
<1>7. ASSUME NEW k \in Keys, NEW v \in Values, ApplyProperty(k, v) PROVE IInv'
  <2>1. /\ k \in present /\ Store(k, v) /\ present' = present
        /\ UNCHANGED <<listed, reading, writing, value, held>>
    BY <1>7 DEF ApplyProperty
  <2>2. TypeOK' /\ LastValueSurvives'
    BY <2>1, StoreKeeps DEF TypeOK
  <2>3. OnlySensorsComeBack' /\ HeldIsPresent'
    BY <2>1 DEF OnlySensorsComeBack, Ghosts, HeldIsPresent
  <2> QED
    BY <2>2, <2>3
<1>8. ASSUME NEW fresh \in Listings, Replace(fresh) PROVE IInv'
  BY <1>8, KindsAssumption, ReplaceInv DEF KindsAssumption
<1>9. CASE UNCHANGED vars
  BY <1>9 DEF vars, TypeOK, OnlySensorsComeBack, Ghosts, LastValueSurvives, HeldIsPresent
<1> QED
  BY <1>1, <1>2, <1>3, <1>4, <1>5, <1>6, <1>7, <1>8, <1>9 DEF Next

LEMMA Invariant ==
  Spec => []IInv
<1>1. IInv /\ [Next]_vars => IInv'
  BY KindsAssumption, StepInv
<1> QED
  BY <1>1, InitInv, PTL DEF Spec

\* Every variable keeps its type; an entity that is not there has no value left
\* from before (replace_capabilities builds on fresh entries, ha_device.py:479).
THEOREM TypeCorrect ==
  Spec => []TypeOK
<1>1. IInv => TypeOK
  BY DEF IInv
<1> QED
  BY <1>1, Invariant, PTL

\* A late answer brings nothing back but a sensor: the other kinds look the
\* entity up again (ha_device.py:1410, 1973) where apply_sensor_state makes one.
THEOREM OthersStayAway ==
  Spec => []OnlySensorsComeBack
<1>1. IInv => OnlySensorsComeBack
  BY DEF IInv
<1> QED
  BY <1>1, Invariant, PTL

\* No rediscovery, whenever it comes, costs an entity that stays its last value
\* (replace_capabilities, ha_device.py:473-479), but for a select's option and a
\* sensor's variant, which go back to what they were configured with.
THEOREM ValuesSurvive ==
  Spec => []LastValueSurvives
<1>1. IInv => LastValueSurvives
  BY DEF IInv
<1> QED
  BY <1>1, Invariant, PTL

\* An accepted write shows when its call ends, unless a rediscovery took the
\* entity away in the meantime (async_set_alarm_mode and the writes by ref).
THEOREM WritesShow ==
  Spec => AcceptedWriteShows
<1> DEFINE Shows ==
      \A w \in Writers : WriteAnswered(w) /\ held[w] => state'[writing[w]] = value[w]
<1>1. IInv /\ [Next]_vars => Shows
  <2> SUFFICES ASSUME IInv, NEW w \in Writers, WriteAnswered(w), held[w]
               PROVE  state'[writing[w]] = value[w]
    OBVIOUS
  <2>1. writing[w] \in Keys /\ writing[w] \in present
    BY DEF IInv, TypeOK, HeldIsPresent, WriteAnswered
  <2>2. Store(writing[w], value[w])
    BY <2>1 DEF WriteAnswered
  <2> QED
    BY <2>1, <2>2 DEF Store, IInv, TypeOK
<1> HIDE DEF Shows
<1>2. Spec => [][Shows]_vars
  BY <1>1, Invariant, PTL DEF Spec
<1> QED
  BY <1>2 DEF AcceptedWriteShows, Shows

-----------------------------------------------------------------------------
(* Countdown. *)

\* A call that has begun a countdown is the write of its minutes.  A bulb that it
\* took and the device still has is there.  What the entry says that it took was
\* shown or said to it, and so was what it turns over.
CallInv(w) ==
  /\ step[w] # "none" => writing[w] = Minutes
  /\ isBulb /\ same[w] => Relay \in present
  /\ step[w] = "read" => Taken(w) \in known[w]
  /\ step[w] \in {"command", "asleep", "again"} => (~turnOn[w]) \in known[w]

CInv == IInv /\ CountdownTypeOK /\ \A w \in Writers : CallInv(w)

LEMMA CountdownInitInv ==
  CountdownInit => CInv
BY InitInv DEF CountdownInit, CInv, CountdownTypeOK, CallInv

\* Of Rediscovery's variables a countdown changes those of a write, and the
\* relay as a push does.
LEMMA RelayStored ==
  ASSUME KindsAssumption, CountdownAssumption, CInv,
         NEW w \in Writers, NEW v \in Values, RelayAnswered(w, v)
  PROVE  ApplyProperty(Relay, v) \/ UNCHANGED vars
<1>1. CASE IF isBulb THEN same[w] ELSE Relay \in present
  <2>1. Relay \in present \ Sensors
    BY <1>1 DEF KindsAssumption, CountdownAssumption, CInv, CallInv
  <2> QED
    BY <1>1, <2>1 DEF RelayAnswered, ApplyProperty
<1>2. CASE ~(IF isBulb THEN same[w] ELSE Relay \in present)
  BY <1>2 DEF RelayAnswered, Unstored, vars
<1> QED
  BY <1>1, <1>2

LEMMA CountdownStep ==
  ASSUME KindsAssumption, CountdownAssumption, CInv, [CountdownNext]_<<vars, cvars>>
  PROVE  [Next]_vars
<1>1. ASSUME NEW w \in Writers, NEW v \in Values, BeginCountdown(w, v) PROVE Next
  BY <1>1 DEF BeginCountdown, Next, CountdownAssumption
<1>2. ASSUME NEW w \in Writers, NEW v \in Values, RelayAnswered(w, v) PROVE [Next]_vars
  BY <1>2, RelayStored DEF Next, CountdownAssumption
<1>3. ASSUME NEW w \in Writers, RelayUnread(w) \/ CommandAsleep(w) \/ CommandAgain(w)
      PROVE  UNCHANGED vars
  BY <1>3 DEF RelayUnread, CommandAsleep, CommandAgain
<1>4. ASSUME NEW w \in Writers, NEW k \in Keys, NEW v \in Values, PlainWrite(w, k, v)
      PROVE  Next
  BY <1>4 DEF PlainWrite, Next
<1>5. ASSUME NEW w \in Writers, Accepted(w) \/ Failed(w) PROVE Next
  BY <1>5 DEF Accepted, Failed, Next
<1>6. ASSUME NEW fresh \in Listings, ReplaceEntries(fresh) PROVE Next
  BY <1>6 DEF ReplaceEntries, Next
<1>7. ASSUME NEW r \in Readers,
             \/ ReadFails(r) \/ \E k \in Keys : BeginRead(r, k)
             \/ \E v \in Values : ReadAnswered(r, v)
      PROVE  Next
  BY <1>7 DEF Next
<1>8. ASSUME NEW k \in Keys, NEW v \in Values, ApplyProperty(k, v) PROVE Next
  BY <1>8 DEF Next
<1> QED
  BY <1>1, <1>2, <1>3, <1>4, <1>5, <1>6, <1>7, <1>8 DEF CountdownNext

\* A call that a step leaves alone keeps its invariant, if it comes to know what
\* the step stores in the relay.
LEMMA LeftAlone ==
  ASSUME NEW w \in Writers, CallInv(w),
         UNCHANGED <<isBulb, step[w], same[w], old[w], turnOn[w], writing[w]>>,
         present \subseteq present', known[w] \subseteq known'[w],
         \/ state'[Relay] = state[Relay]
         \/ step[w] # "read"
         \/ (state'[Relay] = On) \in known'[w]
  PROVE  CallInv(w)'
<1>1. step[w] = "read" => Taken(w)' \in known'[w]
  BY DEF CallInv, Taken
<1> QED
  BY <1>1 DEF CallInv

\* What the platform says of an entity is stored there or nowhere, and a call
\* that reads the relay comes to know it.
LEMMA Heard ==
  ASSUME CountdownAssumption, IInv, CountdownTypeOK,
         NEW k \in Keys, NEW v \in Values \cup {Default},
         Hear(k, v), Store(k, v) \/ Unstored
  PROVE  /\ known' \in [Writers -> SUBSET BOOLEAN]
         /\ \A w \in Writers : known[w] \subseteq known'[w]
         /\ \A w \in Writers :
              \/ state'[Relay] = state[Relay]
              \/ step[w] # "read"
              \/ (state'[Relay] = On) \in known'[w]
<1>1. \A w \in Writers :
        known'[w] = IF k = Relay /\ step[w] = "read" THEN known[w] \cup {v = On} ELSE known[w]
  BY DEF Hear
<1>2. ASSUME NEW w \in Writers PROVE known'[w] \in SUBSET BOOLEAN
  <2>1. known[w] \in SUBSET BOOLEAN
    BY DEF CountdownTypeOK
  <2>2. (v = On) \in BOOLEAN
    OBVIOUS
  <2>3. known[w] \cup {v = On} \in SUBSET BOOLEAN
    BY <2>1, <2>2, Zenon
  <2> QED
    BY <1>1, <2>1, <2>3, Zenon
<1>3. known' \in [Writers -> SUBSET BOOLEAN]
  BY <1>2 DEF Hear
<1>4. state'[Relay] = state[Relay] \/ (k = Relay /\ state'[Relay] = v)
  BY DEF CountdownAssumption, IInv, TypeOK, Store, Unstored
<1> QED
  BY <1>1, <1>3, <1>4

\* What is left to show of a step, beside what Rediscovery shows of it.
Rest == CountdownTypeOK /\ \A w \in Writers : CallInv(w)

\* A read, a push, or a write's end, which says what is in an entity.
LEMMA SaidInv ==
  ASSUME CountdownAssumption, CInv,
         NEW k \in Keys, NEW v \in Values \cup {Default},
         Hear(k, v), Store(k, v) \/ Unstored,
         UNCHANGED <<writing, notes>>, present \subseteq present'
  PROVE  Rest'
<1>1. CountdownTypeOK'
  BY Heard DEF CInv, notes, CountdownTypeOK
<1>2. ASSUME NEW w \in Writers PROVE CallInv(w)'
  BY Heard, LeftAlone DEF CInv, notes
<1> QED
  BY <1>1, <1>2 DEF Rest

LEMMA BeginCountdownInv ==
  ASSUME CountdownAssumption, CInv, NEW w \in Writers, NEW v \in Values,
         BeginCountdown(w, v)
  PROVE  Rest'
<1>1. CountdownTypeOK'
  <2>1. {state[Relay] = On} \in SUBSET BOOLEAN
    OBVIOUS
  <2>2. known' \in [Writers -> SUBSET BOOLEAN]
    BY <2>1, Zenon DEF BeginCountdown, CInv, CountdownTypeOK
  <2> QED
    BY <2>2 DEF BeginCountdown, CInv, CountdownTypeOK
<1>2. Relay \in present /\ UNCHANGED <<present, state>>
  BY DEF BeginCountdown, BeginWrite, CInv, IInv, TypeOK
<1>3. CallInv(w)'
  BY <1>2 DEF BeginCountdown, BeginWrite, CInv, IInv, TypeOK, CountdownTypeOK, CallInv,
     Taken
<1>4. ASSUME NEW u \in Writers \ {w} PROVE CallInv(u)'
  <2>1. UNCHANGED <<isBulb, step[u], same[u], old[u], turnOn[u], known[u], writing[u]>>
    BY DEF BeginCountdown, BeginWrite, CInv, IInv, TypeOK, CountdownTypeOK
  <2> QED
    BY <1>2, <2>1, LeftAlone DEF CInv
<1> QED
  BY <1>1, <1>3, <1>4 DEF Rest

\* A command that turns over what the call knows is right.
LEMMA CommandIsRight ==
  ASSUME CountdownTypeOK, NEW w \in Writers, NEW on \in BOOLEAN,
         Command(w, on), on \in known'[w]
  PROVE  (~turnOn'[w]) \in known'[w]
<1>1. turnOn'[w] = ~on
  BY Zenon DEF Command, CountdownTypeOK
<1>2. (~(~on)) = on
  OBVIOUS
<1> QED
  BY <1>1, <1>2, Zenon

LEMMA RelayAnsweredInv ==
  ASSUME CountdownAssumption, CInv, NEW w \in Writers, NEW v \in Values,
         RelayAnswered(w, v)
  PROVE  Rest'
<1>1. /\ Relay \in Keys /\ UNCHANGED <<present, writing>>
      /\ Hear(Relay, v) /\ (Store(Relay, v) \/ Unstored)
  BY DEF RelayAnswered, CountdownAssumption
<1>2. CountdownTypeOK'
  BY <1>1, Heard DEF RelayAnswered, Command, LetGo, CInv, CountdownTypeOK
<1>3. CallInv(w)'
  <2>1. (v = On) \in known'[w] /\ Taken(w) \in known'[w]
    BY <1>1 DEF RelayAnswered, Hear, CInv, CallInv
  <2>2. (~turnOn'[w]) \in known'[w]
    <3>1. (v = On) \in BOOLEAN /\ Taken(w) \in BOOLEAN
      BY DEF Taken, CInv, CountdownTypeOK
    <3> QED
      BY <2>1, <3>1, CommandIsRight DEF RelayAnswered, CInv
  <2> QED
    BY <1>1, <2>2 DEF RelayAnswered, Command, LetGo, CInv, CountdownTypeOK, CallInv
<1>4. ASSUME NEW u \in Writers \ {w} PROVE CallInv(u)'
  <2>1. UNCHANGED <<isBulb, step[u], same[u], old[u], turnOn[u], writing[u]>>
    BY <1>1 DEF RelayAnswered, Command, LetGo, CInv, CountdownTypeOK
  <2> QED
    BY <1>1, <2>1, Heard, LeftAlone DEF CInv
<1> QED
  BY <1>2, <1>3, <1>4 DEF Rest

\* The call that ends is over; the others hear of a plain write.
LEMMA CallEndsInv ==
  ASSUME CountdownAssumption, CInv, NEW w \in Writers, Accepted(w) \/ Failed(w)
  PROVE  Rest'
<1>1. CASE step[w] = "none" /\ Accepted(w)
  <2>1. /\ writing[w] \in Keys /\ value[w] \in Values \cup {Default}
        /\ Hear(writing[w], value[w])
        /\ (Store(writing[w], value[w]) \/ Unstored)
        /\ UNCHANGED present
    BY <1>1 DEF Accepted, WriteAnswered, CInv, IInv, TypeOK
  <2>2. known' \in [Writers -> SUBSET BOOLEAN]
    BY <2>1, Heard DEF CInv
  <2>3. CountdownTypeOK'
    BY <1>1, <2>2 DEF Accepted, Idle, LetGo, CInv, CountdownTypeOK
  <2>4. CallInv(w)'
    BY <1>1 DEF Accepted, Idle, LetGo, CInv, CountdownTypeOK, CallInv
  <2>5. ASSUME NEW u \in Writers \ {w} PROVE CallInv(u)'
    <3>1. UNCHANGED <<isBulb, step[u], same[u], old[u], turnOn[u], writing[u]>>
      BY <1>1 DEF Accepted, Idle, LetGo, WriteAnswered, EndWrite, CInv, IInv, TypeOK,
         CountdownTypeOK
    <3> QED
      BY <2>1, <3>1, Heard, LeftAlone DEF CInv
  <2> QED
    BY <2>3, <2>4, <2>5 DEF Rest
<1>2. CASE ~(step[w] = "none" /\ Accepted(w))
  <2>1. /\ Idle(w) /\ Forget(w) /\ UNCHANGED present
        /\ \A u \in Writers \ {w} : writing'[u] = writing[u]
    BY <1>2 DEF Accepted, Failed, WriteAnswered, WriteFails, EndWrite, CInv, IInv, TypeOK
  <2>2. state'[Relay] = state[Relay]
    <3>1. CASE Failed(w)
      BY <3>1 DEF Failed, WriteFails
    <3>2. CASE Accepted(w)
      <4>1. writing[w] = Minutes
        BY <1>2, <3>2 DEF Accepted, CInv, CallInv
      <4> QED
        BY <3>2, <4>1 DEF Accepted, WriteAnswered, Store, Unstored, CInv, IInv, TypeOK,
           CountdownAssumption
    <3> QED
      BY <3>1, <3>2
  <2>3. CountdownTypeOK'
    BY <2>1 DEF Idle, LetGo, Forget, CInv, CountdownTypeOK
  <2>4. CallInv(w)'
    BY <2>1 DEF Idle, LetGo, CInv, CountdownTypeOK, CallInv
  <2>5. ASSUME NEW u \in Writers \ {w} PROVE CallInv(u)'
    <3>1. UNCHANGED <<isBulb, step[u], same[u], old[u], turnOn[u], known[u], writing[u]>>
      BY <2>1 DEF Idle, LetGo, Forget, CInv, CountdownTypeOK
    <3> QED
      BY <2>1, <2>2, <3>1, LeftAlone DEF CInv
  <2> QED
    BY <2>3, <2>4, <2>5 DEF Rest
<1> QED
  BY <1>1, <1>2

\* An entry that is replaced says what it last said; a bulb that stays keeps its
\* state with its object.
LEMMA ReplaceEntriesInv ==
  ASSUME KindsAssumption, CountdownAssumption, CInv,
         NEW fresh \in Listings, ReplaceEntries(fresh)
  PROVE  Rest'
<1>1. CountdownTypeOK'
  BY DEF ReplaceEntries, CInv, CountdownTypeOK
<1>2. ASSUME NEW w \in Writers PROVE CallInv(w)'
  <2>1. /\ UNCHANGED <<isBulb, step, known, turnOn, writing>> /\ present' = fresh
        /\ same'[w] => same[w] /\ isBulb /\ Relay \in fresh
    BY DEF ReplaceEntries, Replace
  <2>2. Taken(w)' = Taken(w)
    <3>1. CASE same'[w]
      <4>1. Relay \in present /\ Relay \in Keys /\ Relay \notin Selects
        BY <2>1, <3>1 DEF CInv, CallInv, KindsAssumption, CountdownAssumption
      <4>2. state'[Relay] = state[Relay]
        BY <2>1, <3>1, <4>1 DEF ReplaceEntries, Replace
      <4> QED
        BY <2>1, <3>1, <4>2 DEF Taken
    <3>2. CASE ~same'[w]
      BY <3>2 DEF ReplaceEntries, Taken, CInv, CountdownTypeOK
    <3> QED
      BY <3>1, <3>2
  <2> QED
    BY <2>1, <2>2 DEF CInv, CallInv
<1> QED
  BY <1>1, <1>2 DEF Rest

LEMMA CountdownStepInv ==
  ASSUME KindsAssumption, CountdownAssumption, CInv, [CountdownNext]_<<vars, cvars>>
  PROVE  CInv'
<1>0. IInv'
  BY CountdownStep, StepInv DEF CInv
<1>1. ASSUME NEW r \in Readers, UNCHANGED cvars,
             ReadFails(r) \/ \E k \in Keys : BeginRead(r, k)
      PROVE  Rest'
  BY <1>1, LeftAlone DEF BeginRead, ReadFails, CInv, Rest, cvars, notes, CountdownTypeOK
<1>2. ASSUME NEW r \in Readers, NEW v \in Values,
             ReadAnswered(r, v), Hear(reading[r], v), UNCHANGED notes
      PROVE  Rest'
  <2>1. /\ reading[r] \in Keys /\ (Store(reading[r], v) \/ Unstored)
        /\ present \subseteq present' /\ UNCHANGED writing
    BY <1>2 DEF ReadAnswered, CInv, IInv, TypeOK
  <2> QED
    BY <1>2, <2>1, SaidInv
<1>3. ASSUME NEW k \in Keys, NEW v \in Values,
             ApplyProperty(k, v), Hear(k, v), UNCHANGED notes
      PROVE  Rest'
  BY <1>3, SaidInv DEF ApplyProperty
<1>4. ASSUME NEW w \in Writers, NEW k \in Keys, NEW v \in Values, PlainWrite(w, k, v)
      PROVE  Rest'
  <2>1. UNCHANGED <<present, state, cvars>>
    BY <1>4 DEF PlainWrite, BeginWrite
  <2>2. \A u \in Writers : writing'[u] = writing[u] \/ writing[u] = NoKey
    BY <1>4 DEF PlainWrite, BeginWrite, CInv, IInv, TypeOK
  <2>3. Minutes # NoKey
    BY DEF KindsAssumption, CountdownAssumption
  <2> QED
    BY <2>1, <2>2, <2>3 DEF CInv, Rest, cvars, notes, CountdownTypeOK, CallInv, Taken
<1>5. ASSUME NEW w \in Writers, RelayUnread(w) PROVE Rest'
  <2>1. UNCHANGED <<vars, known>> /\ step[w] = "read" /\ Command(w, Taken(w))
    BY <1>5 DEF RelayUnread
  <2>2. CountdownTypeOK'
    BY <2>1 DEF Command, LetGo, CInv, CountdownTypeOK
  <2>3. (~turnOn'[w]) \in known'[w]
    <3>1. Taken(w) \in BOOLEAN /\ Taken(w) \in known'[w]
      BY <2>1 DEF Taken, CInv, CountdownTypeOK, CallInv
    <3> QED
      BY <2>1, <3>1, CommandIsRight DEF CInv
  <2>4. CallInv(w)'
    BY <2>1, <2>3 DEF vars, Command, LetGo, CInv, CountdownTypeOK, CallInv
  <2>5. ASSUME NEW u \in Writers \ {w} PROVE CallInv(u)'
    <3>1. UNCHANGED <<isBulb, step[u], same[u], old[u], turnOn[u], known[u], writing[u]>>
      BY <2>1 DEF vars, Command, LetGo, CInv, CountdownTypeOK
    <3> QED
      BY <2>1, <3>1, LeftAlone DEF vars, CInv
  <2> QED
    BY <2>2, <2>4, <2>5 DEF Rest
<1>6. ASSUME NEW w \in Writers, CommandAsleep(w) \/ CommandAgain(w) PROVE Rest'
  BY <1>6 DEF vars, CommandAsleep, CommandAgain, CInv, Rest, CountdownTypeOK, CallInv,
     Taken
<1>7. ASSUME UNCHANGED <<vars, cvars>> PROVE Rest'
  <2>1. /\ UNCHANGED <<state, present, writing>>
        /\ UNCHANGED <<isBulb, step, same, old, known, turnOn>>
    BY <1>7 DEF vars, cvars, notes
  <2>2. CountdownTypeOK'
    BY <2>1 DEF CInv, CountdownTypeOK
  <2>3. ASSUME NEW w \in Writers PROVE CallInv(w)'
    BY <2>1, LeftAlone DEF CInv
  <2> QED
    BY <2>2, <2>3 DEF Rest
<1>8. Rest'
  BY <1>1, <1>2, <1>3, <1>4, <1>5, <1>6, <1>7, BeginCountdownInv, RelayAnsweredInv,
     CallEndsInv, ReplaceEntriesInv DEF CountdownNext
<1> QED
  BY <1>0, <1>8 DEF CInv, Rest

LEMMA CountdownInvariant ==
  CountdownSpec => []CInv
<1>1. CInv /\ [CountdownNext]_<<vars, cvars>> => CInv'
  BY KindsAssumption, CountdownAssumption, CountdownStepInv
<1> QED
  BY <1>1, CountdownInitInv, PTL DEF CountdownSpec

\* A device with a countdown is a device of Rediscovery: the countdown adds
\* requests and a note of what it took, and stores what a write and a push store.
THEOREM CountdownIsRediscovery ==
  CountdownSpec => Spec
<1>1. CInv /\ [CountdownNext]_<<vars, cvars>> => [Next]_vars
  BY KindsAssumption, CountdownAssumption, CountdownStep
<1>2. CountdownInit => Init
  BY DEF CountdownInit
<1> QED
  BY <1>1, <1>2, CountdownInvariant, PTL DEF CountdownSpec, Spec

\* Whatever rediscoveries, polls, pushes and other writes do to the relay's entry
\* between the read and its answer, the countdown turns over a state that the relay
\* showed when the call began or that the platform has said of it since, in both
\* attempts (ha_device.py:2099-2107): that of the answer itself unless the entry was
\* replaced, and then perhaps the one the entry had when it was.
THEOREM TurnsOver ==
  CountdownSpec => []CountdownTurnsOver
<1>1. CInv => CountdownTurnsOver
  BY DEF CInv, CallInv, CountdownTurnsOver
<1> QED
  BY <1>1, CountdownInvariant, PTL
=============================================================================
