------------------------- MODULE AbilitySwitchProofs -------------------------
(***************************************************************************)
(* Theorems about AbilitySwitch for any abilities and any number of polls,  *)
(* writes and changes.  What a poll has read so far was so at some time     *)
(* since it began, and a request of a write that came back well was taken.  *)
(***************************************************************************)
EXTENDS AbilitySwitch, TLAPS

\* A switch has abilities and requests, and what is written under an ability's
\* name is read under it.
TableInv == backing # {} /\ parts # {} /\ parts \ {Alarm} \subseteq backing

\* Since a poll began: what is on now, what was read as on, and so for off.
ReadInv ==
  \A p \in Pollers : got[p] # NoRead =>
    /\ enabled \subseteq wasOn[p] /\ backing \ enabled \subseteq wasOff[p]
    /\ \A a \in backing :
         /\ got[p][a] # "idle"
         /\ got[p][a] = "on"  => a \in wasOn[p]
         /\ got[p][a] = "off" => a \in wasOff[p]

\* While a call is under way it has no result, and every request that came back
\* well was taken.
WriteInv ==
  \A w \in Writers : sent[w] # NoWrite =>
    /\ result[w] = "none"
    /\ \A a \in parts : sent[w][a] # "idle" /\ (sent[w][a] = "ok" => a \in taken[w])

IInv == TypeOK /\ TableInv /\ ReadInv /\ WriteInv

-----------------------------------------------------------------------------
(* Parts of the invariant that a step leaves alone. *)

LEMMA NothingRead ==
  ASSUME UNCHANGED table
  PROVE  NoRead' = NoRead /\ NoWrite' = NoWrite
BY DEF table, NoRead, NoWrite

LEMMA TableStays ==
  ASSUME TableInv, UNCHANGED table
  PROVE  TableInv'
BY DEF table, TableInv

LEMMA ReadsUnchanged ==
  ASSUME ReadInv, UNCHANGED <<table, enabled, readVars>>
  PROVE  ReadInv'
BY NothingRead DEF ReadInv, readVars, table

LEMMA WritesUnchanged ==
  ASSUME WriteInv, UNCHANGED <<table, writeVars>>
  PROVE  WriteInv'
BY NothingRead DEF WriteInv, writeVars, table

LEMMA InitInv == Init => IInv
<1> SUFFICES ASSUME Init PROVE IInv
  OBVIOUS
<1>1. backing \subseteq Abilities /\ parts \subseteq Abilities \cup {Alarm}
  BY DEF Init
<1>2. TableInv
  BY BoundsAssumption DEF Init, TableInv
<1>3. TypeOK
  <2>1. /\ got \in [Pollers -> [backing -> {"idle", "asked", "on", "off", "failed", "refused"}]]
        /\ sent \in [Writers -> [parts -> {"idle", "first", "waiting", "second", "ok", "failed"}]]
    BY DEF Init, NoRead, NoWrite
  <2>2. writes \in 0..MaxWrites /\ changes \in 0..MaxChanges
    BY BoundsAssumption DEF Init
  <2>3. wasOn \in [Pollers -> SUBSET backing] /\ wasOff \in [Pollers -> SUBSET backing]
    BY DEF Init
  <2> QED
    BY <1>1, <2>1, <2>2, <2>3 DEF Init, TypeOK
<1>4. ReadInv /\ WriteInv
  BY DEF Init, ReadInv, WriteInv
<1> QED
  BY <1>2, <1>3, <1>4 DEF IInv

-----------------------------------------------------------------------------
(* The device changes. *)

\* Whatever it becomes, the polls under way have watched it.
LEMMA WatchInv ==
  ASSUME IInv, NEW now \in SUBSET backing, Watch(now)
  PROVE  /\ enabled' = now /\ UNCHANGED <<table, got>>
         /\ wasOn' \in [Pollers -> SUBSET backing] /\ wasOff' \in [Pollers -> SUBSET backing]
         /\ ReadInv'
<1>1. enabled' = now /\ UNCHANGED <<table, got>>
  BY DEF Watch
<1>2. wasOn' \in [Pollers -> SUBSET backing] /\ wasOff' \in [Pollers -> SUBSET backing]
  BY DEF Watch, IInv, TypeOK
<1>3. \A p \in Pollers : got[p] # NoRead =>
        wasOn'[p] = wasOn[p] \cup now /\ wasOff'[p] = wasOff[p] \cup (backing \ now)
  BY DEF Watch
<1>4. ReadInv'
  <2> SUFFICES ASSUME NEW p \in Pollers, got[p] # NoRead
               PROVE  /\ now \subseteq wasOn'[p] /\ backing \ now \subseteq wasOff'[p]
                      /\ \A a \in backing :
                           /\ got[p][a] # "idle"
                           /\ got[p][a] = "on"  => a \in wasOn'[p]
                           /\ got[p][a] = "off" => a \in wasOff'[p]
    BY <1>1, NothingRead DEF ReadInv, table
  <2> QED
    BY <1>3 DEF IInv, ReadInv
<1> QED
  BY <1>1, <1>2, <1>4

\* What a request leaves on are abilities of the switch.
LEMMA OutcomeIsBacking ==
  ASSUME IInv, NEW a \in parts, NEW enable \in BOOLEAN, NEW now \in Outcome(a, enable)
  PROVE  now \in SUBSET backing
<1>1. CASE a # Alarm
  BY <1>1 DEF Outcome, IInv, TypeOK, TableInv
<1>2. CASE a = Alarm /\ enable
  BY <1>2 DEF Outcome
<1>3. CASE a = Alarm /\ ~enable
  BY <1>3 DEF Outcome
<1> QED
  BY <1>1, <1>2, <1>3

LEMMA DeviceChangesInv ==
  ASSUME IInv, NEW a \in backing, DeviceChanges(a)
  PROVE  IInv'
<1> DEFINE now == IF a \in enabled THEN enabled \ {a} ELSE enabled \cup {a}
<1>1. now \in SUBSET backing
  BY DEF IInv, TypeOK
<1>2. Watch(now) /\ UNCHANGED <<healthy, sleeping, state, writeVars>>
  BY DEF DeviceChanges
<1> HIDE DEF now
<1>3. /\ enabled' = now /\ UNCHANGED <<table, got>> /\ ReadInv'
      /\ wasOn' \in [Pollers -> SUBSET backing] /\ wasOff' \in [Pollers -> SUBSET backing]
  BY <1>1, <1>2, WatchInv
<1>4. changes' \in 0..MaxChanges
  BY BoundsAssumption DEF DeviceChanges, IInv, TypeOK
<1>5. TypeOK'
  BY <1>1, <1>2, <1>3, <1>4 DEF IInv, TypeOK, table, writeVars
<1>6. TableInv' /\ WriteInv'
  BY <1>2, <1>3, TableStays, WritesUnchanged DEF IInv
<1> QED
  BY <1>3, <1>5, <1>6 DEF IInv

-----------------------------------------------------------------------------
(* Reads. *)

LEMMA BeginReadInv ==
  ASSUME IInv, NEW p \in Pollers, BeginRead(p)
  PROVE  IInv'
<1>1. /\ got' = [got EXCEPT ![p] = [a \in backing |-> "asked"]]
      /\ wasOn' = [wasOn EXCEPT ![p] = enabled]
      /\ wasOff' = [wasOff EXCEPT ![p] = backing \ enabled]
      /\ UNCHANGED <<table, enabled, healthy, sleeping, state, writeVars, changes>>
  BY DEF BeginRead
<1>2. TypeOK'
  BY <1>1 DEF IInv, TypeOK, table, writeVars
<1>3. ReadInv'
  BY <1>1, NothingRead DEF IInv, TypeOK, ReadInv, table
<1> QED
  BY <1>1, <1>2, <1>3, TableStays, WritesUnchanged DEF IInv

LEMMA ReadAnsweredInv ==
  ASSUME IInv, NEW p \in Pollers, NEW a \in backing, ReadAnswered(p, a)
  PROVE  IInv'
<1>1. /\ got[p][a] = "asked"
      /\ UNCHANGED <<table, enabled, healthy, sleeping, state, wasOn, wasOff, writeVars, changes>>
  BY DEF ReadAnswered
<1>2. PICK answer \in {"on", "off", "failed", "refused"} :
        /\ got' = [got EXCEPT ![p][a] = answer]
        /\ answer = "on" => a \in enabled
        /\ answer = "off" => a \notin enabled
  BY DEF ReadAnswered
<1>3. got[p] # NoRead
  BY <1>1 DEF NoRead
<1>4. TypeOK'
  BY <1>1, <1>2 DEF IInv, TypeOK, table, writeVars
<1>5. /\ \A q \in Pollers : q # p => got'[q] = got[q]
      /\ got'[p][a] = answer
      /\ \A b \in backing : b # a => got'[p][b] = got[p][b]
  BY <1>2 DEF IInv, TypeOK
<1>6. a \in enabled => a \in wasOn[p]
  BY <1>3 DEF IInv, ReadInv
<1>7. a \notin enabled => a \in wasOff[p]
  BY <1>3 DEF IInv, ReadInv
<1>8. ReadInv'
  <2> SUFFICES ASSUME NEW q \in Pollers, got'[q] # NoRead
               PROVE  /\ enabled \subseteq wasOn[q] /\ backing \ enabled \subseteq wasOff[q]
                      /\ \A b \in backing :
                           /\ got'[q][b] # "idle"
                           /\ got'[q][b] = "on"  => b \in wasOn[q]
                           /\ got'[q][b] = "off" => b \in wasOff[q]
    BY <1>1, NothingRead DEF ReadInv, table
  <2>1. got[q] # NoRead
    BY <1>3, <1>5
  <2> QED
    BY <1>2, <1>5, <1>6, <1>7, <2>1 DEF IInv, ReadInv
<1> QED
  BY <1>1, <1>4, <1>8, TableStays, WritesUnchanged DEF IInv

LEMMA ReadsGatheredInv ==
  ASSUME IInv, NEW p \in Pollers, ReadsGathered(p)
  PROVE  IInv'
<1>1. /\ got' = [got EXCEPT ![p] = NoRead]
      /\ wasOn' = [wasOn EXCEPT ![p] = {}] /\ wasOff' = [wasOff EXCEPT ![p] = {}]
      /\ UNCHANGED <<table, enabled, healthy, sleeping, writeVars, changes>>
  BY DEF ReadsGathered, EndRead
<1>2. state' \in BOOLEAN
  BY DEF ReadsGathered, IInv, TypeOK, Some
<1>3. NoRead \in [backing -> {"idle", "asked", "on", "off", "failed", "refused"}]
  BY DEF NoRead
<1>4. TypeOK'
  BY <1>1, <1>2, <1>3 DEF IInv, TypeOK, table, writeVars
<1>5. ReadInv'
  BY <1>1, <1>3, NothingRead DEF IInv, TypeOK, ReadInv, table
<1> QED
  BY <1>1, <1>4, <1>5, TableStays, WritesUnchanged DEF IInv

-----------------------------------------------------------------------------
(* Writes. *)

LEMMA BeginWriteInv ==
  ASSUME IInv, NEW w \in Writers, NEW enable \in BOOLEAN, BeginWrite(w, enable)
  PROVE  IInv'
<1>1. /\ sent' = [sent EXCEPT ![w] = [a \in parts |-> "first"]]
      /\ result' = [result EXCEPT ![w] = "none"]
      /\ UNCHANGED <<table, enabled, healthy, sleeping, state, readVars, taken, changes>>
  BY DEF BeginWrite
<1>2. writes' \in 0..MaxWrites /\ target' \in [Writers -> BOOLEAN]
  BY BoundsAssumption DEF BeginWrite, IInv, TypeOK
<1>3. TypeOK'
  BY <1>1, <1>2 DEF IInv, TypeOK, table, readVars
<1>4. WriteInv'
  BY <1>1, NothingRead DEF IInv, TypeOK, WriteInv, table
<1> QED
  BY <1>1, <1>3, <1>4, TableStays, ReadsUnchanged DEF IInv

\* What one request of a call under way comes to.
LEMMA RequestInv ==
  ASSUME IInv, NEW w \in Writers, NEW a \in parts, sent[w][a] # "idle",
         NEW how \in {"waiting", "second", "ok", "failed"},
         sent' = [sent EXCEPT ![w][a] = how],
         \/ taken' = [taken EXCEPT ![w] = @ \cup {a}]
         \/ how # "ok" /\ taken' = taken,
         UNCHANGED <<table, result>>
  PROVE  /\ sent' \in [Writers -> [parts -> {"idle", "first", "waiting", "second", "ok", "failed"}]]
         /\ taken' \in [Writers -> SUBSET parts]
         /\ WriteInv'
<1>1. sent[w] # NoWrite
  BY DEF NoWrite
<1>2. /\ sent' \in [Writers -> [parts -> {"idle", "first", "waiting", "second", "ok", "failed"}]]
      /\ taken' \in [Writers -> SUBSET parts]
  BY DEF IInv, TypeOK
<1>3. /\ \A u \in Writers : u # w => sent'[u] = sent[u] /\ taken'[u] = taken[u]
      /\ sent'[w][a] = how /\ (how = "ok" => a \in taken'[w])
      /\ \A b \in parts : b # a => sent'[w][b] = sent[w][b]
      /\ taken[w] \subseteq taken'[w]
  BY DEF IInv, TypeOK
<1>4. WriteInv'
  <2> SUFFICES ASSUME NEW u \in Writers, sent'[u] # NoWrite
               PROVE  /\ result[u] = "none"
                      /\ \A b \in parts :
                           sent'[u][b] # "idle" /\ (sent'[u][b] = "ok" => b \in taken'[u])
    BY NothingRead DEF WriteInv, table
  <2>1. sent[u] # NoWrite
    BY <1>1, <1>3
  <2> QED
    BY <1>3, <2>1 DEF IInv, WriteInv
<1> QED
  BY <1>2, <1>4

LEMMA WriteServedInv ==
  ASSUME IInv, NEW w \in Writers, NEW a \in parts, WriteServed(w, a)
  PROVE  IInv'
<1>1. PICK now \in Outcome(a, target[w]) : Watch(now)
  BY DEF WriteServed
<1>2. PICK how \in {"ok", "failed"} : sent' = [sent EXCEPT ![w][a] = how]
  BY DEF WriteServed
<1>3. /\ sent[w][a] # "idle" /\ taken' = [taken EXCEPT ![w] = @ \cup {a}]
      /\ UNCHANGED <<healthy, sleeping, state, target, result, writes, changes>>
  BY DEF WriteServed
<1>4. now \in SUBSET backing
  BY OutcomeIsBacking DEF IInv, TypeOK
<1>5. /\ enabled' = now /\ UNCHANGED <<table, got>> /\ ReadInv'
      /\ wasOn' \in [Pollers -> SUBSET backing] /\ wasOff' \in [Pollers -> SUBSET backing]
  BY <1>1, <1>4, WatchInv
<1>6. /\ sent' \in [Writers -> [parts -> {"idle", "first", "waiting", "second", "ok", "failed"}]]
      /\ taken' \in [Writers -> SUBSET parts]
      /\ WriteInv'
  BY <1>2, <1>3, <1>5, RequestInv
<1>7. TypeOK'
  BY <1>3, <1>4, <1>5, <1>6 DEF IInv, TypeOK, table
<1> QED
  BY <1>5, <1>6, <1>7, TableStays DEF IInv

LEMMA RequestWaitsInv ==
  ASSUME IInv, NEW w \in Writers, NEW a \in parts, WriteRejected(w, a) \/ RetryWrite(w, a)
  PROVE  IInv'
<1>1. PICK how \in {"waiting", "second", "failed"} : sent' = [sent EXCEPT ![w][a] = how]
  BY DEF WriteRejected, RetryWrite
<1>2. /\ sent[w][a] # "idle"
      /\ UNCHANGED <<table, enabled, healthy, sleeping, state, readVars, target, taken, result,
                     writes, changes>>
  BY DEF WriteRejected, RetryWrite
<1>3. /\ sent' \in [Writers -> [parts -> {"idle", "first", "waiting", "second", "ok", "failed"}]]
      /\ WriteInv'
  BY <1>1, <1>2, RequestInv
<1>4. TypeOK'
  BY <1>2, <1>3 DEF IInv, TypeOK, table, readVars
<1> QED
  BY <1>2, <1>3, <1>4, TableStays, ReadsUnchanged DEF IInv

LEMMA WritesGatheredInv ==
  ASSUME IInv, NEW w \in Writers, WritesGathered(w)
  PROVE  IInv'
<1>1. /\ sent' = [sent EXCEPT ![w] = NoWrite] /\ taken' = [taken EXCEPT ![w] = {}]
      /\ UNCHANGED <<table, enabled, healthy, sleeping, readVars, target, writes, changes>>
  BY DEF WritesGathered, EndWrite
<1>2. PICK how \in {"ok", "failed"} : result' = [result EXCEPT ![w] = how]
  BY DEF WritesGathered
<1>3. state' \in BOOLEAN
  BY DEF WritesGathered, IInv, TypeOK
<1>4. NoWrite \in [parts -> {"idle", "first", "waiting", "second", "ok", "failed"}]
  BY DEF NoWrite
<1>5. TypeOK'
  BY <1>1, <1>2, <1>3, <1>4 DEF IInv, TypeOK, table, readVars
<1>6. WriteInv'
  BY <1>1, <1>2, <1>4, NothingRead DEF IInv, TypeOK, WriteInv, table
<1> QED
  BY <1>1, <1>5, <1>6, TableStays, ReadsUnchanged DEF IInv

-----------------------------------------------------------------------------
\* The invariant survives every step.
LEMMA StepInv == IInv /\ [Next]_vars => IInv'
<1> SUFFICES ASSUME IInv, [Next]_vars PROVE IInv'
  OBVIOUS
<1>1. ASSUME NEW p \in Pollers, BeginRead(p) PROVE IInv'
  BY <1>1, BeginReadInv
<1>2. ASSUME NEW p \in Pollers, ReadsGathered(p) PROVE IInv'
  BY <1>2, ReadsGatheredInv
<1>3. ASSUME NEW p \in Pollers, NEW a \in backing, ReadAnswered(p, a) PROVE IInv'
  BY <1>3, ReadAnsweredInv
<1>4. ASSUME NEW w \in Writers, NEW enable \in BOOLEAN, BeginWrite(w, enable) PROVE IInv'
  BY <1>4, BeginWriteInv
<1>5. ASSUME NEW w \in Writers, NEW a \in parts, WriteServed(w, a) PROVE IInv'
  BY <1>5, WriteServedInv
<1>6. ASSUME NEW w \in Writers, NEW a \in parts, WriteRejected(w, a) \/ RetryWrite(w, a)
      PROVE  IInv'
  BY <1>6, RequestWaitsInv
<1>7. ASSUME NEW w \in Writers, WritesGathered(w) PROVE IInv'
  BY <1>7, WritesGatheredInv
<1>8. ASSUME NEW a \in backing, DeviceChanges(a) PROVE IInv'
  BY <1>8, DeviceChangesInv
<1>9. CASE HealthChanges \/ StatusChanges
  <2>1. TypeOK'
    BY <1>9 DEF HealthChanges, StatusChanges, IInv, TypeOK, table, readVars, writeVars
  <2> QED
    BY <1>9, <2>1, TableStays, ReadsUnchanged, WritesUnchanged DEF HealthChanges, StatusChanges, IInv
<1>10. CASE UNCHANGED vars
  <2>1. TypeOK'
    BY <1>10 DEF vars, IInv, TypeOK, table, readVars, writeVars
  <2> QED
    BY <1>10, <2>1, TableStays, ReadsUnchanged, WritesUnchanged DEF vars, IInv
<1> QED
  BY <1>1, <1>2, <1>3, <1>4, <1>5, <1>6, <1>7, <1>8, <1>9, <1>10 DEF Next

LEMMA Invariant == Spec => []IInv
BY InitInv, StepInv, PTL DEF Spec

\* Every variable of a switch keeps its type, for any abilities behind it and any
\* number of polls, writes and changes.
THEOREM TypeCorrect == Spec => []TypeOK
<1>1. IInv => TypeOK
  BY DEF IInv
<1> QED
  BY <1>1, Invariant, PTL

-----------------------------------------------------------------------------
\* What a poll makes of a switch was so while it was reading, whatever was
\* changed and whatever failed meanwhile.
THEOREM PollsShowWhatWas == Spec => PollShowsWhatWas
<1> DEFINE Was ==
      \A p \in Pollers : ReadsGathered(p) /\ state' # state =>
        IF state' THEN wasOn[p] # {} ELSE wasOff[p] = backing
<1>1. IInv => Was
  <2> SUFFICES ASSUME IInv, NEW p \in Pollers, ReadsGathered(p), state' # state
               PROVE  IF state' THEN wasOn[p] # {} ELSE wasOff[p] = backing
    OBVIOUS
  <2>1. \A a \in backing : got[p][a] \in {"on", "off", "failed", "refused"}
    BY DEF ReadsGathered, EndRead, IInv, TypeOK
  <2>2. got[p] # NoRead
    BY <2>1 DEF NoRead, IInv, TableInv
  <2>3. ~Some(p, "refused")
    BY DEF ReadsGathered
  <2>4. CASE Some(p, "on")
    <3>1. state' = TRUE
      BY <2>3, <2>4 DEF ReadsGathered
    <3> QED
      BY <2>2, <2>4, <3>1 DEF Some, IInv, ReadInv
  <2>5. CASE ~Some(p, "on")
    <3>1. ~Some(p, "failed") /\ state' = FALSE
      BY <2>3, <2>5 DEF ReadsGathered
    <3>2. \A a \in backing : got[p][a] = "off"
      BY <2>1, <2>3, <2>5, <3>1 DEF Some
    <3>3. backing \subseteq wasOff[p] /\ wasOff[p] \subseteq backing
      BY <2>2, <3>2 DEF IInv, ReadInv, TypeOK
    <3>4. wasOff[p] = backing
      BY <3>3
    <3> QED
      BY <3>1, <3>4
  <2> QED
    BY <2>4, <2>5
<1> HIDE DEF Was
<1>2. Spec => [][Was]_vars
  BY <1>1, Invariant, PTL DEF Spec
<1> QED
  BY <1>2 DEF PollShowsWhatWas, Was

\* A call under way ends only by gathering its requests.
LEMMA CallEnds ==
  ASSUME IInv, [Next]_vars, NEW w \in Writers, sent[w] # NoWrite, result'[w] # "none"
  PROVE  WritesGathered(w)
<1>1. result[w] = "none" /\ result \in [Writers -> {"none", "ok", "failed"}]
  BY DEF IInv, TypeOK, WriteInv
<1>2. result' # result
  BY <1>1
<1>3. ASSUME NEW u \in Writers, NEW enable \in BOOLEAN, BeginWrite(u, enable) PROVE FALSE
  BY <1>1, <1>3 DEF BeginWrite
<1>4. ASSUME NEW u \in Writers, WritesGathered(u) PROVE u = w
  <2>1. PICK how \in {"ok", "failed"} : result' = [result EXCEPT ![u] = how]
    BY <1>4 DEF WritesGathered
  <2> QED
    BY <1>1, <2>1
<1>5. ASSUME \/ \E p \in Pollers :
                  BeginRead(p) \/ ReadsGathered(p) \/ \E a \in backing : ReadAnswered(p, a)
             \/ \E u \in Writers, a \in parts :
                  WriteServed(u, a) \/ WriteRejected(u, a) \/ RetryWrite(u, a)
             \/ \E a \in backing : DeviceChanges(a)
             \/ HealthChanges \/ StatusChanges \/ UNCHANGED vars
      PROVE  FALSE
  BY <1>2, <1>5 DEF BeginRead, ReadsGathered, EndRead, ReadAnswered, WriteServed, WriteRejected,
     RetryWrite, DeviceChanges, HealthChanges, StatusChanges, vars, writeVars
<1> QED
  BY <1>3, <1>4, <1>5 DEF Next

\* A write that reports success was taken by the device.
THEOREM SuccessIsTaken == Spec => SuccessWasTaken
<1> DEFINE Taken ==
      \A w \in Writers : sent[w] # NoWrite /\ result'[w] = "ok" => taken[w] # {}
<1>1. IInv /\ [Next]_vars => Taken
  <2> SUFFICES ASSUME IInv, [Next]_vars, NEW w \in Writers, sent[w] # NoWrite, result'[w] = "ok"
               PROVE  taken[w] # {}
    OBVIOUS
  <2>1. WritesGathered(w)
    BY CallEnds
  <2>2. \A a \in parts : sent[w][a] \in {"ok", "failed"}
    BY <2>1 DEF WritesGathered, EndWrite
  <2>3. ~ \A a \in parts : sent[w][a] = "failed"
    BY <2>1 DEF WritesGathered, IInv, TypeOK
  <2> QED
    BY <2>2, <2>3 DEF IInv, WriteInv
<1> HIDE DEF Taken
<1>2. Spec => [][Taken]_vars
  BY <1>1, Invariant, PTL DEF Spec
<1> QED
  BY <1>2 DEF SuccessWasTaken, Taken

\* A write that reports failure leaves the switch as it was.
THEOREM FailureLeavesTheSwitch == Spec => FailureFlipsNothing
<1> DEFINE Stays ==
      \A w \in Writers : sent[w] # NoWrite /\ result'[w] = "failed" => state' = state
<1>1. IInv /\ [Next]_vars => Stays
  <2> SUFFICES ASSUME IInv, [Next]_vars, NEW w \in Writers, sent[w] # NoWrite,
                      result'[w] = "failed"
               PROVE  state' = state
    OBVIOUS
  <2>1. WritesGathered(w)
    BY CallEnds
  <2> QED
    BY <2>1 DEF WritesGathered, IInv, TypeOK
<1> HIDE DEF Stays
<1>2. Spec => [][Stays]_vars
  BY <1>1, Invariant, PTL DEF Spec
<1> QED
  BY <1>2 DEF FailureFlipsNothing, Stays
=============================================================================
