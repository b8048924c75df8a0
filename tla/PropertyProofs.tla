---------------------------- MODULE PropertyProofs ----------------------------
(***************************************************************************)
(* Theorems about the properties of the thing model: PropertySync, one      *)
(* property that users, polls and pushes write, and BulbLight, several that *)
(* one call writes together.                                                *)
(*                                                                         *)
(* PropertySync, for any property, values, writers and polls: where a call  *)
(* is says which levels have taken its value, and an option is read back as *)
(* the option that was chosen.                                              *)
(*                                                                         *)
(* BulbLight, for all levels, colors, scenes and readings: the two scales   *)
(* come first; the invariant then ties the properties of a call under way   *)
(* to its request and, while no reading has come in between, to the state   *)
(* they were computed from.                                                 *)
(***************************************************************************)
EXTENDS PropertySync, BulbLight, TLAPS

-----------------------------------------------------------------------------
(* The names of values. *)

\* An option that is written is read back as the same option: mute too, which
\* stands for two values.
LEMMA OptionsReadBack ==
  ASSUME NEW kind \in Kinds, NEW option, IsOption(kind, option)
  PROVE  ToFriendly(kind, ToRaw(kind, option)) = option
<1>1. CASE kind = "plain"
  <2>1. DOMAIN KeysOf(kind) = {}
    BY <1>1 DEF KeysOf
  <2> QED
    BY <1>1, <2>1 DEF ToRaw, ToFriendly
<1>2. CASE kind = "device_volume" /\ option = "mute"
  <2>1. "-1" \in DOMAIN VolumeKeys /\ VolumeKeys["-1"] = "mute"
    BY DEF VolumeKeys
  <2>2. KeysOf(kind) = VolumeKeys
    BY <1>2 DEF KeysOf
  <2> QED
    BY <1>2, <2>1, <2>2 DEF ToRaw, ToFriendly
<1>3. CASE kind # "plain" /\ ~(kind = "device_volume" /\ option = "mute")
  <2>1. \E raw \in DOMAIN KeysOf(kind) : KeysOf(kind)[raw] = option
    BY <1>3 DEF IsOption
  <2>2. ToRaw(kind, option) = CHOOSE raw \in DOMAIN KeysOf(kind) : KeysOf(kind)[raw] = option
    BY <1>3 DEF ToRaw
  <2>3. ToRaw(kind, option) \in DOMAIN KeysOf(kind) /\ KeysOf(kind)[ToRaw(kind, option)] = option
    BY <2>1, <2>2
  <2> QED
    BY <2>3 DEF ToFriendly
<1> QED
  BY <1>1, <1>2, <1>3

-----------------------------------------------------------------------------
(* A property of the thing model. *)

\* A call under way is for an option; it is at the second request only behind
\* the first one; and an answer that waits to be read is in the history.
WriterInv ==
  \A w \in Writers :
    /\ wpc[w] = "idle" => acked[w] = {} /\ answer[w] = "none" /\ value[w] = NoValue
    /\ wpc[w] # "idle" =>
         value[w] \in Options /\ IsOption(Kind, value[w]) /\ result[w] = "none"
    /\ wpc[w] = "second" => channelId = "0" /\ "channel" \in acked[w]
    /\ wpc[w] \in InFlight /\ answer[w] = "ok" => Addressed(w) \in acked[w]

\* What a poll holds is an answer to the request it has sent.
PollerInv ==
  \A p \in Pollers :
    /\ ppc[p] = "online" => seen[p] \in {"none"} \cup Modes
    /\ ppc[p] = "detail" => seen[p] \in {"none"} \cup Values

SyncInv == TypeOK /\ WriterInv /\ PollerInv

LEMMA ConstantFacts ==
  ASSUME channelId \in ChannelIds
  PROVE  /\ Kind \in Kinds
         /\ MaxWrites[channelId] \in Nat /\ MaxChanges[channelId] \in Nat
         /\ \A v \in Values : ToFriendly(Kind, v) \in Options
         /\ \A v \in Options : IsOption(Kind, v) => ToRaw(Kind, v) \in Values
<1>1. /\ Kind \in Kinds
      /\ MaxWrites[channelId] \in Nat /\ MaxChanges[channelId] \in Nat
  BY BoundsAssumption DEF Kind
<1>2. \A v \in Values : IsOption(Kind, ToFriendly(Kind, v)) =>
        ToRaw(Kind, ToFriendly(Kind, v)) \in Values
  BY <1>1, RawAssumption DEF Values
<1> QED
  BY <1>1, <1>2 DEF Options

LEMMA SyncInit == Init => SyncInv
<1> SUFFICES ASSUME Init PROVE SyncInv
  OBVIOUS
<1>1. TypeOK
  BY ConstantFacts DEF Init, TypeOK, Levels, Modes, InFlight
<1>2. WriterInv /\ PollerInv
  BY DEF Init, WriterInv, PollerInv, InFlight
<1> QED
  BY <1>1, <1>2 DEF SyncInv

\* The names that Kind, Values and Options stand for never change.
LEMMA NamesStay ==
  ASSUME UNCHANGED channelId
  PROVE  Kind' = Kind /\ Values' = Values /\ Options' = Options
BY DEF Kind, Values, Options

\* Whoever writes nothing keeps the writers' part of the invariant.
LEMMA WritersUnchanged ==
  ASSUME WriterInv, UNCHANGED writerVars, UNCHANGED channelId
  PROVE  WriterInv'
BY NamesStay DEF WriterInv, writerVars, Addressed, InFlight

LEMMA PollersUnchanged ==
  ASSUME PollerInv, UNCHANGED pollVars, UNCHANGED channelId
  PROVE  PollerInv'
BY NamesStay DEF PollerInv, pollVars

\* The end of a call.
LEMMA EndWriteInv ==
  ASSUME SyncInv, NEW w \in Writers, NEW how \in {"ok", "failed"}, EndWrite(w, how),
         UNCHANGED <<deviceVars, cloudVars, status, pollVars>>, local' \in Options
  PROVE  SyncInv'
<1>1. TypeOK'
  BY NamesStay DEF SyncInv, TypeOK, EndWrite, deviceVars, cloudVars, pollVars
<1>2. WriterInv'
  BY NamesStay DEF SyncInv, TypeOK, WriterInv, EndWrite, Addressed, InFlight, deviceVars
<1>3. PollerInv'
  BY PollersUnchanged DEF SyncInv, deviceVars
<1> QED
  BY <1>1, <1>2, <1>3 DEF SyncInv

\* The next request of a call: after an answer or after the wait.
LEMMA SendNextInv ==
  ASSUME SyncInv, NEW w \in Writers, NEW position \in InFlight, SendNext(w, position),
         wpc[w] # "idle", attempt' \in [Writers -> 0..2],
         position = "second" => channelId = "0" /\ "channel" \in acked[w],
         UNCHANGED <<deviceVars, cloudVars, local, status, pollVars>>
  PROVE  SyncInv'
<1>1. TypeOK'
  BY NamesStay DEF SyncInv, TypeOK, SendNext, deviceVars, cloudVars, pollVars, InFlight
<1>2. WriterInv'
  BY NamesStay DEF SyncInv, TypeOK, WriterInv, SendNext, Addressed, InFlight, deviceVars
<1>3. PollerInv'
  BY PollersUnchanged DEF SyncInv, deviceVars
<1> QED
  BY <1>1, <1>2, <1>3 DEF SyncInv

LEMMA BeginWriteInv ==
  ASSUME SyncInv, NEW w \in Writers, NEW v \in Options, BeginWrite(w, v)
  PROVE  SyncInv'
<1>1. writes' \in 0..MaxWrites[channelId]
  BY ConstantFacts DEF SyncInv, TypeOK, BeginWrite
<1>2. TypeOK'
  BY <1>1, NamesStay DEF SyncInv, TypeOK, BeginWrite, deviceVars, cloudVars, pollVars, InFlight
<1>3. WriterInv'
  BY NamesStay DEF SyncInv, TypeOK, WriterInv, BeginWrite, Addressed, InFlight, deviceVars
<1>4. PollerInv'
  BY PollersUnchanged DEF SyncInv, BeginWrite, deviceVars
<1> QED
  BY <1>2, <1>3, <1>4 DEF SyncInv

\* What a call under way stores is a value of the property.
LEMMA ServeWriteInv ==
  ASSUME SyncInv, NEW w \in Writers, ServeWrite(w)
  PROVE  SyncInv'
<1> DEFINE raw == ToRaw(Kind, value[w])
<1>1. /\ wpc[w] \in InFlight /\ wpc[w] # "idle" /\ answer[w] = "none"
      /\ UNCHANGED <<deviceVars, mode, changes, local, status, wpc, value, attempt,
                     result, writes, pollVars>>
  BY DEF ServeWrite, InFlight
<1>2. value[w] \in Options /\ IsOption(Kind, value[w])
  BY <1>1 DEF SyncInv, WriterInv
<1>3. raw \in Values /\ ToFriendly(Kind, raw) = value[w]
  BY <1>2, ConstantFacts, OptionsReadBack DEF SyncInv, TypeOK
<1>4. Addressed(w) \in Levels
  BY DEF Addressed, Levels
<1> HIDE DEF raw
<1>5. \A u \in Writers : Addressed(u)' = Addressed(u)
  BY <1>1 DEF Addressed, deviceVars
<1>6. PollerInv'
  BY <1>1, PollersUnchanged DEF SyncInv, deviceVars
<1>7. CASE /\ cloud' = [cloud EXCEPT ![Addressed(w)] = raw]
           /\ MayPush(raw)
           /\ answer' = [answer EXCEPT ![w] = "ok"]
           /\ acked' = [acked EXCEPT ![w] =
                @ \cup {l \in {Addressed(w)} : ToFriendly(Kind, cloud'[l]) = value[w]}]
  <2>1. cloud'[Addressed(w)] = raw /\ cloud' \in [Levels -> Values]
    BY <1>3, <1>4, <1>7 DEF SyncInv, TypeOK
  <2>2. acked' = [acked EXCEPT ![w] = @ \cup {Addressed(w)}]
    BY <1>3, <1>7, <2>1
  <2>3. pushes' \subseteq Values
    BY <1>3, <1>7 DEF MayPush, SyncInv, TypeOK
  <2>4. TypeOK'
    BY <1>1, <1>4, <1>7, <2>1, <2>2, <2>3, NamesStay DEF SyncInv, TypeOK, deviceVars, pollVars
  <2>5. WriterInv'
    BY <1>1, <1>5, <1>7, <2>2, NamesStay DEF SyncInv, TypeOK, WriterInv, deviceVars, InFlight
  <2> QED
    BY <1>6, <2>4, <2>5 DEF SyncInv
<1>8. CASE /\ \/ answer' = [answer EXCEPT ![w] = "asleep"]
              \/ answer' = [answer EXCEPT ![w] = "refused"]
           /\ UNCHANGED <<cloud, pushes, acked>>
  <2>1. TypeOK'
    BY <1>1, <1>8, NamesStay DEF SyncInv, TypeOK, deviceVars, pollVars
  <2>2. WriterInv'
    BY <1>1, <1>5, <1>8, NamesStay DEF SyncInv, TypeOK, WriterInv, deviceVars, InFlight
  <2> QED
    BY <1>6, <2>1, <2>2 DEF SyncInv
<1> QED
  BY <1>7, <1>8 DEF ServeWrite, raw

LEMMA WriteAnsweredInv ==
  ASSUME SyncInv, NEW w \in Writers, WriteAnswered(w)
  PROVE  SyncInv'
<1>1. wpc[w] # "idle"
  BY DEF WriteAnswered, InFlight
<1>2. CASE wpc[w] = "first" /\ channelId = "0"
  <2>1. "channel" \in acked[w]
    BY <1>2 DEF WriteAnswered, SyncInv, WriterInv, Addressed, InFlight
  <2> QED
    BY <1>1, <1>2, <2>1, SendNextInv DEF WriteAnswered, SyncInv, TypeOK, InFlight
<1>3. CASE ~(wpc[w] = "first" /\ channelId = "0")
  <2>1. local' \in Options
    BY <1>1, <1>3 DEF WriteAnswered, SyncInv, WriterInv
  <2> QED
    BY <1>3, <2>1, EndWriteInv DEF WriteAnswered
<1> QED
  BY <1>2, <1>3

LEMMA WriteRefusedInv ==
  ASSUME SyncInv, NEW w \in Writers, WriteRefused(w)
  PROVE  SyncInv'
<1>1. UNCHANGED <<deviceVars, cloudVars, local, status, pollVars>>
  BY DEF WriteRefused
<1>2. CASE /\ wpc' = [wpc EXCEPT ![w] = "waiting"]
           /\ UNCHANGED <<value, attempt, answer, acked, result, writes>>
  <2>1. TypeOK'
    BY <1>1, <1>2, NamesStay DEF SyncInv, TypeOK, deviceVars, cloudVars, pollVars
  <2>2. wpc[w] # "idle"
    BY DEF WriteRefused, InFlight
  <2>3. WriterInv'
    BY <1>1, <1>2, <2>2, NamesStay DEF SyncInv, TypeOK, WriterInv, Addressed, InFlight, deviceVars
  <2> QED
    BY <1>1, <2>1, <2>3, PollersUnchanged DEF SyncInv, deviceVars
<1>3. CASE EndWrite(w, "failed")
  BY <1>1, <1>3, EndWriteInv DEF SyncInv, TypeOK
<1> QED
  BY <1>2, <1>3 DEF WriteRefused

\* A step of a poll that moves on with a status it has read, or with none.
LEMMA PollStepInv ==
  ASSUME SyncInv, UNCHANGED <<deviceVars, cloudVars, writerVars>>,
         local' \in Options, status' \in Modes,
         NEW p \in Pollers, NEW place \in {"idle", "online", "detail"},
         ppc' = [ppc EXCEPT ![p] = place], seen' = [seen EXCEPT ![p] = "none"]
  PROVE  SyncInv'
<1>1. TypeOK'
  BY NamesStay DEF SyncInv, TypeOK, deviceVars, cloudVars, writerVars
<1>2. WriterInv'
  BY WritersUnchanged DEF SyncInv, deviceVars
<1>3. PollerInv'
  BY NamesStay DEF SyncInv, TypeOK, PollerInv, deviceVars
<1> QED
  BY <1>1, <1>2, <1>3 DEF SyncInv

LEMMA PollInv ==
  ASSUME SyncInv, NEW p \in Pollers,
         \/ BeginPoll(p) \/ ServeOnline(p) \/ \E skip \in BOOLEAN : OnlineAnswered(p, skip)
         \/ ServeDetail(p) \/ DetailAnswered(p) \/ PollFails(p)
  PROVE  SyncInv'
<1>1. local \in Options /\ status \in Modes /\ mode \in Modes /\ Shown \in Values
  BY DEF SyncInv, TypeOK, Shown
<1>2. CASE BeginPoll(p)
  BY <1>1, <1>2, PollStepInv DEF BeginPoll
<1>3. CASE ServeOnline(p) \/ ServeDetail(p)
  <2>1. UNCHANGED <<deviceVars, cloudVars, local, status, writerVars, ppc>>
    BY <1>3 DEF ServeOnline, ServeDetail
  <2>2. WriterInv'
    BY <2>1, WritersUnchanged DEF SyncInv, deviceVars
  <2>3. \/ ppc[p] = "online" /\ seen' = [seen EXCEPT ![p] = mode]
        \/ ppc[p] = "detail" /\ seen' = [seen EXCEPT ![p] = Shown]
    BY <1>3 DEF ServeOnline, ServeDetail
  <2>4. TypeOK'
    BY <1>1, <2>1, <2>3, NamesStay DEF SyncInv, TypeOK, deviceVars, cloudVars, writerVars
  <2>5. PollerInv'
    BY <1>1, <2>1, <2>3, NamesStay DEF SyncInv, TypeOK, PollerInv, deviceVars
  <2> QED
    BY <2>2, <2>4, <2>5 DEF SyncInv
<1>4. ASSUME NEW skip \in BOOLEAN, OnlineAnswered(p, skip) PROVE SyncInv'
  <2>1. status' \in Modes
    BY <1>4 DEF OnlineAnswered, SyncInv, PollerInv
  <2> QED
    BY <1>1, <1>4, <2>1, PollStepInv DEF OnlineAnswered, EndPoll
<1>5. CASE DetailAnswered(p)
  <2>1. local' \in Options
    BY <1>5, ConstantFacts DEF DetailAnswered, SyncInv, TypeOK, PollerInv
  <2> QED
    BY <1>1, <1>5, <2>1, PollStepInv DEF DetailAnswered, EndPoll
<1>6. CASE PollFails(p)
  BY <1>1, <1>6, PollStepInv DEF PollFails, EndPoll
<1> QED
  BY <1>2, <1>3, <1>4, <1>5, <1>6

LEMMA OutsideInv ==
  ASSUME SyncInv,
         \/ \E v \in Values : ApplyPush(v) \/ DeviceChanges(v)
         \/ \E m \in Modes : ModeChanges(m)
  PROVE  SyncInv'
<1>1. UNCHANGED <<deviceVars, status, writerVars, pollVars>>
  BY DEF ApplyPush, DeviceChanges, ModeChanges
<1>2. WriterInv' /\ PollerInv'
  BY <1>1, WritersUnchanged, PollersUnchanged DEF SyncInv, deviceVars
<1>3. /\ cloud' \in [Levels -> Values] /\ mode' \in Modes /\ pushes' \subseteq Values
      /\ local' \in Options /\ changes' \in 0..MaxChanges[channelId]
  BY ConstantFacts DEF ApplyPush, DeviceChanges, ModeChanges, MayPush, SyncInv, TypeOK
<1>4. TypeOK'
  BY <1>1, <1>3, NamesStay DEF SyncInv, TypeOK, deviceVars, writerVars, pollVars
<1> QED
  BY <1>2, <1>4 DEF SyncInv

LEMMA SyncStep == SyncInv /\ [Next]_vars => SyncInv'
<1> SUFFICES ASSUME SyncInv, [Next]_vars PROVE SyncInv'
  OBVIOUS
<1>1. ASSUME NEW w \in Writers, NEW v \in Options, BeginWrite(w, v) PROVE SyncInv'
  BY <1>1, BeginWriteInv
<1>2. ASSUME NEW w \in Writers, ServeWrite(w) PROVE SyncInv'
  BY <1>2, ServeWriteInv
<1>3. ASSUME NEW w \in Writers, WriteAnswered(w) PROVE SyncInv'
  BY <1>3, WriteAnsweredInv
<1>4. ASSUME NEW w \in Writers, WriteRefused(w) PROVE SyncInv'
  BY <1>4, WriteRefusedInv
<1>5. ASSUME NEW w \in Writers, RetryWrite(w) PROVE SyncInv'
  <2>1. attempt' \in [Writers -> 0..2]
    BY <1>5 DEF RetryWrite, SyncInv, TypeOK
  <2> QED
    BY <1>5, <2>1, SendNextInv DEF RetryWrite, InFlight
<1>6. ASSUME NEW w \in Writers, WriteAborted(w) PROVE SyncInv'
  BY <1>6, EndWriteInv DEF WriteAborted, SyncInv, TypeOK
<1>7. ASSUME NEW p \in Pollers,
             \/ BeginPoll(p) \/ ServeOnline(p) \/ \E skip \in BOOLEAN : OnlineAnswered(p, skip)
             \/ ServeDetail(p) \/ DetailAnswered(p) \/ PollFails(p)
      PROVE  SyncInv'
  BY <1>7, PollInv
<1>8. CASE \/ \E v \in Values : ApplyPush(v) \/ DeviceChanges(v)
           \/ \E m \in Modes : ModeChanges(m)
  BY <1>8, OutsideInv
<1>9. CASE UNCHANGED vars
  <2>1. UNCHANGED <<deviceVars, cloudVars, local, status, writerVars, pollVars>>
    BY <1>9 DEF vars
  <2>2. WriterInv' /\ PollerInv'
    BY <2>1, WritersUnchanged, PollersUnchanged DEF SyncInv, deviceVars
  <2>3. TypeOK'
    BY <2>1, NamesStay DEF SyncInv, TypeOK, deviceVars, cloudVars, writerVars, pollVars
  <2> QED
    BY <2>2, <2>3 DEF SyncInv
<1> QED
  BY <1>1, <1>2, <1>3, <1>4, <1>5, <1>6, <1>7, <1>8, <1>9 DEF Next

LEMMA SyncInvariant == Spec => []SyncInv
BY SyncInit, SyncStep, PTL DEF Spec

-----------------------------------------------------------------------------
\* The last answer of a call: every level has its value.
LEMMA LastAnswer ==
  ASSUME SyncInv, NEW w \in Writers, wpc[w] \in InFlight, answer[w] = "ok",
         ~(wpc[w] = "first" /\ channelId = "0")
  PROVE  Targets \subseteq acked[w]
<1>1. /\ Addressed(w) \in acked[w]
      /\ wpc[w] = "second" => channelId = "0" /\ "channel" \in acked[w]
  BY DEF SyncInv, WriterInv
<1>2. channelId \in {"0", "other", "none"}
  BY BoundsAssumption DEF SyncInv, TypeOK
<1> QED
  BY <1>1, <1>2 DEF Targets, Addressed, InFlight, Levels

\* A call ends by its last answer or by a failure, and by no step but its own.
LEMMA CallEnds ==
  ASSUME SyncInv, [Next]_vars, NEW w \in Writers, wpc[w] # "idle", result'[w] # "none"
  PROVE  \/ /\ wpc[w] \in InFlight /\ answer[w] = "ok" /\ result'[w] = "ok"
            /\ ~(wpc[w] = "first" /\ channelId = "0")
         \/ result'[w] = "failed" /\ local' = local
<1>1. result[w] = "none" /\ result \in [Writers -> {"none", "ok", "failed"}]
  BY DEF SyncInv, TypeOK, WriterInv
<1>2. ASSUME NEW u \in Writers, NEW v \in Options, BeginWrite(u, v) PROVE FALSE
  <2>1. wpc[u] = "idle" /\ result' = [result EXCEPT ![u] = "none"]
    BY <1>2 DEF BeginWrite
  <2> QED
    BY <1>1, <2>1
<1>3. ASSUME NEW u \in Writers, NEW how \in {"ok", "failed"}, EndWrite(u, how)
      PROVE  u = w /\ result'[w] = how
  <2>1. result' = [result EXCEPT ![u] = how]
    BY <1>3 DEF EndWrite
  <2> QED
    BY <1>1, <2>1
<1>4. ASSUME NEW u \in Writers, NEW position, SendNext(u, position) PROVE FALSE
  BY <1>1, <1>4 DEF SendNext
<1>5. ASSUME UNCHANGED writerVars PROVE FALSE
  BY <1>1, <1>5 DEF writerVars
<1>6. ASSUME NEW u \in Writers, ServeWrite(u) PROVE FALSE
  BY <1>1, <1>6 DEF ServeWrite
<1>7. ASSUME NEW u \in Writers, WriteAnswered(u)
      PROVE  /\ wpc[w] \in InFlight /\ answer[w] = "ok" /\ result'[w] = "ok"
             /\ ~(wpc[w] = "first" /\ channelId = "0")
  <2>1. ~(wpc[u] = "first" /\ channelId = "0") /\ EndWrite(u, "ok")
    BY <1>4, <1>7 DEF WriteAnswered
  <2> QED
    BY <1>3, <1>7, <2>1 DEF WriteAnswered
<1>8. ASSUME NEW u \in Writers, WriteRefused(u) \/ WriteAborted(u)
      PROVE  result'[w] = "failed" /\ local' = local
  <2>1. EndWrite(u, "failed")
    BY <1>1, <1>8 DEF WriteRefused, WriteAborted
  <2> QED
    BY <1>3, <1>8, <2>1 DEF WriteRefused, WriteAborted
<1>9. ASSUME NEW u \in Writers, RetryWrite(u) PROVE FALSE
  BY <1>4, <1>9 DEF RetryWrite
<1>10. ASSUME NEW p \in Pollers,
              \/ BeginPoll(p) \/ ServeOnline(p) \/ \E skip \in BOOLEAN : OnlineAnswered(p, skip)
              \/ ServeDetail(p) \/ DetailAnswered(p) \/ PollFails(p)
       PROVE  FALSE
  BY <1>5, <1>10 DEF BeginPoll, ServeOnline, OnlineAnswered, ServeDetail, DetailAnswered, PollFails
<1>11. ASSUME \/ \E v \in Values : ApplyPush(v) \/ DeviceChanges(v)
              \/ \E m \in Modes : ModeChanges(m)
       PROVE  FALSE
  BY <1>5, <1>11 DEF ApplyPush, DeviceChanges, ModeChanges
<1>12. ASSUME UNCHANGED vars PROVE FALSE
  BY <1>5, <1>12 DEF vars
<1> QED
  BY <1>2, <1>6, <1>7, <1>8, <1>9, <1>10, <1>11, <1>12 DEF Next

\* Every variable of a property keeps its type, for any property, any values and
\* any number of writes, polls and pushes.
THEOREM SyncTypeCorrect == Spec => []TypeOK
<1>1. SyncInv => TypeOK
  BY DEF SyncInv
<1> QED
  BY <1>1, SyncInvariant, PTL

\* A write that reports success has reached every level, as an option that reads
\* back, whatever attempt it took and whoever wrote, polled or pushed meanwhile.
THEOREM SuccessIsEverywhere == Spec => SuccessReachedEveryLevel
<1> DEFINE Reached ==
      \A w \in Writers : wpc[w] # "idle" /\ result'[w] = "ok" => Targets \subseteq acked[w]
<1>1. SyncInv /\ [Next]_vars => Reached
  <2> SUFFICES ASSUME SyncInv, [Next]_vars,
                      NEW w \in Writers, wpc[w] # "idle", result'[w] = "ok"
               PROVE  Targets \subseteq acked[w]
    OBVIOUS
  <2>1. /\ wpc[w] \in InFlight /\ answer[w] = "ok"
        /\ ~(wpc[w] = "first" /\ channelId = "0")
    BY CallEnds
  <2> QED
    BY <2>1, LastAnswer
<1> HIDE DEF Reached
<1>2. Spec => [][Reached]_vars
  BY <1>1, SyncInvariant, PTL DEF Spec
<1> QED
  BY <1>2 DEF SuccessReachedEveryLevel, Reached

\* A write that fails leaves the local value alone, wherever it fails.
THEOREM FailureChangesNothing == Spec => FailureLeavesLocalAlone
<1> DEFINE Alone ==
      \A w \in Writers : wpc[w] # "idle" /\ result'[w] = "failed" => local' = local
<1>1. SyncInv /\ [Next]_vars => Alone
  BY CallEnds
<1> HIDE DEF Alone
<1>2. Spec => [][Alone]_vars
  BY <1>1, SyncInvariant, PTL DEF Spec
<1> QED
  BY <1>2 DEF FailureLeavesLocalAlone, Alone

-----------------------------------------------------------------------------
(* The property as a Mirror. *)

\* What the answers that wait at the polls say.
Answers == {ToFriendly(Kind, seen[p]) : p \in {q \in Pollers : ppc[q] = "detail" /\ seen[q] # "none"}}
Pushed == {ToFriendly(Kind, v) : v \in pushes}

LEMMA UnderwayParts ==
  Underway = Pushed \cup Answers /\ Underway' = Pushed' \cup Answers'
BY DEF Underway, Pushed, Answers

\* A step that leaves copy, cloud, writes and what is under way alone is none of
\* Mirror's.
LEMMA CopyStutter ==
  ASSUME UNCHANGED <<cloud, channelId, readLevel, local, value, acked, Underway>>
  PROVE  UNCHANGED Copy!vars
<1>1. Kind' = Kind /\ Targets' = Targets
  BY DEF Kind, Targets
<1> QED
  BY <1>1 DEF Copy!vars

LEMMA UnderwayStays ==
  ASSUME UNCHANGED <<channelId, pushes, ppc, seen>>
  PROVE  Underway' = Underway
BY NamesStay DEF Underway

\* Cloud, place and option are the same above.
LEMMA NothingRemote ==
  ASSUME UNCHANGED <<cloud, deviceVars>>
  PROVE  /\ Kind' = Kind /\ Targets' = Targets /\ readLevel' = readLevel
         /\ [l \in Levels |-> ToFriendly(Kind, cloud[l])]' = [l \in Levels |-> ToFriendly(Kind, cloud[l])]
BY DEF Kind, Targets, deviceVars

LEMMA CopyInit ==
  ASSUME Init
  PROVE  Copy!Init
<1>1. Kind \in Kinds
  BY BoundsAssumption DEF Init, Kind
<1>2. PICK v \in Values : cloud = [l \in Levels |-> v]
  BY DEF Init
<1>3. local \in AnyOption /\ ToFriendly(Kind, v) \in AnyOption
  BY <1>1 DEF Init, Options, AnyOption, Values
<1>4. [l \in Levels |-> ToFriendly(Kind, cloud[l])] = [l \in Levels |-> ToFriendly(Kind, v)]
  BY <1>2
<1>5. Underway = {}
  BY DEF Init, Underway
<1>6. Targets \subseteq Levels
  BY BoundsAssumption DEF Init, Targets, Levels
<1> QED
  BY <1>3, <1>4, <1>5, <1>6 DEF Init, Copy!Init

\* The end of a call, with its option or without.
LEMMA EndWriteIsStop ==
  ASSUME SyncInv, NEW w \in Writers, wpc[w] # "idle", NEW how, EndWrite(w, how),
         UNCHANGED <<deviceVars, cloudVars, pollVars>>,
         local' = local \/ (local' = value[w] /\ Targets \subseteq acked[w])
  PROVE  Copy!Next
<1>1. value[w] # NoValue
  <2>1. value[w] \in AnyOption
    BY ConstantFacts DEF SyncInv, TypeOK, WriterInv, Options, Values, AnyOption
  <2> QED
    BY <2>1, BoundsAssumption
<1>2. Underway' = Underway
  BY UnderwayStays DEF cloudVars, deviceVars, pollVars
<1>3. Copy!Stop(w)
  BY <1>1, <1>2, NothingRemote DEF EndWrite, cloudVars, Copy!Stop
<1> QED
  BY <1>3 DEF Copy!Succeed, Copy!GiveUp, Copy!Next

LEMMA BeginWriteIsAsk ==
  ASSUME SyncInv, NEW w \in Writers, NEW v \in Options, BeginWrite(w, v)
  PROVE  Copy!Next
<1>1. v \in AnyOption
  BY ConstantFacts DEF SyncInv, TypeOK, Options, Values, AnyOption
<1>2. value[w] = NoValue
  BY DEF SyncInv, WriterInv, BeginWrite
<1>3. Underway' = Underway
  BY UnderwayStays DEF BeginWrite, cloudVars, deviceVars, pollVars
<1>4. Copy!Ask(w, v)
  BY <1>2, <1>3, NothingRemote DEF BeginWrite, cloudVars, Copy!Ask
<1> QED
  BY <1>1, <1>4 DEF Copy!Next

\* A change of the cloud that may be pushed is told above.
LEMMA PushIsTold ==
  ASSUME NEW v, MayPush(v), UNCHANGED <<channelId, pollVars>>
  PROVE  Copy!Told(ToFriendly(Kind, v))
<1>1. Kind' = Kind /\ Answers' = Answers
  BY NamesStay DEF Answers, pollVars
<1>2. Pushed' \in {Pushed, Pushed \cup {ToFriendly(Kind, v)}}
  <2>1. CASE pushes' = pushes
    BY <1>1, <2>1 DEF Pushed
  <2>2. CASE pushes' = pushes \cup {v}
    BY <1>1, <2>2 DEF Pushed
  <2> QED
    BY <2>1, <2>2 DEF MayPush
<1> QED
  BY <1>1, <1>2, UnderwayParts DEF Copy!Told

LEMMA ServeWriteIsReach ==
  ASSUME SyncInv, NEW w \in Writers, ServeWrite(w)
  PROVE  [Copy!Next]_(Copy!vars)
<1> DEFINE raw == ToRaw(Kind, value[w])
           place == Addressed(w)
<1>1. /\ wpc[w] # "idle"
      /\ UNCHANGED <<deviceVars, local, value, pollVars>>
  BY DEF ServeWrite, InFlight
<1>2. ToFriendly(Kind, raw) = value[w] /\ value[w] # NoValue
  <2>1. value[w] \in Options /\ IsOption(Kind, value[w]) /\ Kind \in Kinds
    BY <1>1, ConstantFacts DEF SyncInv, TypeOK, WriterInv
  <2>2. value[w] \in AnyOption
    BY <2>1 DEF Options, Values, AnyOption
  <2> QED
    BY <2>1, <2>2, OptionsReadBack, BoundsAssumption
<1>3. place \in Levels
  BY DEF Addressed, Levels
<1> HIDE DEF raw, place
<1>4. CASE /\ cloud' = [cloud EXCEPT ![place] = raw]
           /\ MayPush(raw)
           /\ acked' = [acked EXCEPT ![w] =
                @ \cup {l \in {place} : ToFriendly(Kind, cloud'[l]) = value[w]}]
  <2>1. Kind' = Kind /\ Targets' = Targets
    BY <1>1 DEF Kind, Targets, deviceVars
  <2>2. cloud \in [Levels -> Values] /\ acked \in [Writers -> SUBSET Levels]
    BY DEF SyncInv, TypeOK
  <2>3. cloud'[place] = raw
    BY <1>3, <1>4, <2>2
  <2>4. acked' = [acked EXCEPT ![w] = @ \cup {place}]
    BY <1>2, <1>4, <2>2, <2>3
  <2>5. [l \in Levels |-> ToFriendly(Kind, cloud[l])]'
          = [[l \in Levels |-> ToFriendly(Kind, cloud[l])] EXCEPT ![place] = value[w]]
    BY <1>2, <1>3, <1>4, <2>1, <2>2
  <2>6. Copy!Told(value[w])
    BY <1>1, <1>2, <1>4, PushIsTold DEF deviceVars
  <2>7. Copy!Reach(w, place)
    BY <1>1, <1>2, <2>1, <2>4, <2>5, <2>6 DEF Copy!Reach, deviceVars
  <2> QED
    BY <1>3, <2>7 DEF Copy!Next
<1>5. CASE UNCHANGED <<cloud, pushes, acked>>
  BY <1>1, <1>5, CopyStutter, UnderwayStays DEF deviceVars, pollVars
<1> QED
  BY <1>4, <1>5 DEF ServeWrite, raw, place

LEMMA WriteAnsweredIsSuccess ==
  ASSUME SyncInv, NEW w \in Writers, WriteAnswered(w)
  PROVE  [Copy!Next]_(Copy!vars)
<1>1. wpc[w] # "idle" /\ wpc[w] \in InFlight /\ answer[w] = "ok"
  BY DEF WriteAnswered, InFlight
<1>2. CASE wpc[w] = "first" /\ channelId = "0"
  BY <1>2, CopyStutter, UnderwayStays
  DEF WriteAnswered, SendNext, deviceVars, cloudVars, pollVars
<1>3. CASE ~(wpc[w] = "first" /\ channelId = "0")
  BY <1>1, <1>3, LastAnswer, EndWriteIsStop DEF WriteAnswered
<1> QED
  BY <1>2, <1>3

LEMMA WriteGoesOn ==
  ASSUME SyncInv, NEW w \in Writers, WriteRefused(w) \/ RetryWrite(w) \/ WriteAborted(w)
  PROVE  [Copy!Next]_(Copy!vars)
<1>1. wpc[w] # "idle" /\ UNCHANGED <<deviceVars, cloudVars, local, pollVars>>
  BY DEF WriteRefused, RetryWrite, WriteAborted, InFlight
<1>2. CASE EndWrite(w, "failed")
  BY <1>1, <1>2, EndWriteIsStop
<1>3. CASE UNCHANGED <<value, acked>>
  BY <1>1, <1>3, CopyStutter, UnderwayStays DEF deviceVars, cloudVars, pollVars
<1> QED
  BY <1>2, <1>3 DEF WriteRefused, RetryWrite, WriteAborted, SendNext

\* A poll that has not read the property yet has nothing under way.
LEMMA AnswersStay ==
  ASSUME SyncInv, NEW p \in Pollers, UNCHANGED channelId,
         ~(ppc[p] = "detail" /\ seen[p] # "none"), ~(ppc'[p] = "detail" /\ seen'[p] # "none"),
         \A q \in Pollers : q # p => ppc'[q] = ppc[q] /\ seen'[q] = seen[q]
  PROVE  Answers' = Answers
BY NamesStay DEF Answers

\* A poll that ends takes its answer with it, unless another has the same.
LEMMA AnswerGoes ==
  ASSUME SyncInv, NEW p \in Pollers, ppc[p] = "detail", seen[p] # "none", EndPoll(p),
         UNCHANGED <<channelId, pushes>>
  PROVE  /\ ToFriendly(Kind, seen[p]) \in Underway
         /\ Underway' \in {Underway, Underway \ {ToFriendly(Kind, seen[p])}}
<1> DEFINE x == ToFriendly(Kind, seen[p])
           open == {q \in Pollers : ppc[q] = "detail" /\ seen[q] # "none"}
<1>1. Kind' = Kind /\ Pushed' = Pushed
  BY NamesStay DEF Pushed
<1>2. /\ \A q \in Pollers : q # p => ppc'[q] = ppc[q] /\ seen'[q] = seen[q]
      /\ ppc'[p] = "idle"
  BY DEF EndPoll, SyncInv, TypeOK
<1>3. Answers' = {ToFriendly(Kind, seen[q]) : q \in open \ {p}}
  BY <1>1, <1>2 DEF Answers
<1>4. Answers = {ToFriendly(Kind, seen[q]) : q \in open} /\ p \in open
  BY DEF Answers
<1>5. x \in Answers /\ Answers' \subseteq Answers /\ Answers \ {x} \subseteq Answers'
  BY <1>3, <1>4
<1> HIDE DEF x, open
<1>6. Underway = Pushed \cup Answers /\ Underway' = Pushed \cup Answers'
  BY <1>1, UnderwayParts
<1>7. x \in Underway /\ Underway' \subseteq Underway /\ Underway \ {x} \subseteq Underway'
  BY <1>5, <1>6
<1>8. CASE x \in Underway'
  BY <1>7, <1>8 DEF x
<1>9. CASE x \notin Underway'
  BY <1>7, <1>9 DEF x
<1> QED
  BY <1>8, <1>9

LEMMA PollIsReading ==
  ASSUME SyncInv, NEW p \in Pollers,
         \/ BeginPoll(p) \/ ServeOnline(p) \/ \E skip \in BOOLEAN : OnlineAnswered(p, skip)
         \/ ServeDetail(p) \/ DetailAnswered(p) \/ PollFails(p)
  PROVE  [Copy!Next]_(Copy!vars)
<1> USE DEF deviceVars, cloudVars, writerVars
<1>0. ppc \in [Pollers -> {"idle", "online", "detail"}] /\ DOMAIN seen = Pollers
  BY DEF SyncInv, TypeOK
<1>1. ASSUME UNCHANGED <<deviceVars, cloudVars, local, writerVars>>, Answers' = Answers
      PROVE  [Copy!Next]_(Copy!vars)
  <2>1. Underway' = Underway
    BY <1>1, UnderwayParts, NamesStay DEF Pushed
  <2> QED
    BY <1>1, <2>1, CopyStutter
<1>2. CASE BeginPoll(p)
  BY <1>0, <1>1, <1>2, AnswersStay DEF BeginPoll
<1>3. CASE ServeOnline(p)
  BY <1>0, <1>1, <1>3, AnswersStay DEF ServeOnline
<1>4. ASSUME NEW skip \in BOOLEAN, OnlineAnswered(p, skip) PROVE [Copy!Next]_(Copy!vars)
  BY <1>0, <1>1, <1>4, AnswersStay DEF OnlineAnswered, EndPoll
<1>5. CASE ServeDetail(p)
  <2> DEFINE x == ToFriendly(Kind, Shown)
  <2>1. Kind' = Kind /\ Pushed' = Pushed
    BY <1>5, NamesStay DEF ServeDetail, Pushed
  <2>2. seen'[p] = Shown /\ Shown # "none" /\ ppc[p] = "detail" /\ ppc' = ppc
    BY <1>0, <1>5, BoundsAssumption DEF ServeDetail, SyncInv, TypeOK, Shown, Values, Kind
  <2>3. \A q \in Pollers : q # p => seen'[q] = seen[q]
    BY <1>0, <1>5 DEF ServeDetail
  <2>4. Answers' = Answers \cup {x}
    BY <1>5, <2>1, <2>2, <2>3 DEF Answers, ServeDetail
  <2>5. Underway' = Underway \cup {x}
    BY <2>1, <2>4, UnderwayParts
  <2>6. [l \in Levels |-> ToFriendly(Kind, cloud[l])][readLevel] = x
    BY DEF SyncInv, TypeOK, Shown
  <2>7. Copy!Read
    BY <1>5, <2>5, <2>6, NothingRemote DEF ServeDetail, Copy!Read
  <2> QED
    BY <2>7 DEF Copy!Next
<1>6. CASE DetailAnswered(p)
  <2>1. local' = ToFriendly(Kind, seen[p]) /\ UNCHANGED <<deviceVars, cloudVars, writerVars>>
    BY <1>6 DEF DetailAnswered
  <2>2. /\ ToFriendly(Kind, seen[p]) \in Underway
        /\ Underway' \in {Underway, Underway \ {ToFriendly(Kind, seen[p])}}
    BY <1>6, AnswerGoes DEF DetailAnswered
  <2>3. Copy!Apply
    BY <2>1, <2>2, NothingRemote DEF Copy!Apply
  <2> QED
    BY <2>3 DEF Copy!Next
<1>7. CASE PollFails(p)
  <2>1. UNCHANGED <<deviceVars, cloudVars, local, writerVars>> /\ EndPoll(p)
    BY <1>7 DEF PollFails
  <2>2. CASE ppc[p] = "detail" /\ seen[p] # "none"
    <3>1. Underway' \subseteq Underway
      BY <2>1, <2>2, AnswerGoes
    <3>2. Copy!Lose
      BY <2>1, <3>1, NothingRemote DEF Copy!Lose
    <3> QED
      BY <3>2 DEF Copy!Next
  <2>3. CASE ~(ppc[p] = "detail" /\ seen[p] # "none")
    BY <1>0, <1>1, <2>1, <2>3, AnswersStay DEF EndPoll
  <2> QED
    BY <2>2, <2>3
<1> QED
  BY <1>2, <1>3, <1>4, <1>5, <1>6, <1>7

LEMMA ApplyPushIsApply ==
  ASSUME SyncInv, NEW v \in Values, ApplyPush(v)
  PROVE  Copy!Next
<1> DEFINE x == ToFriendly(Kind, v)
<1>1. /\ UNCHANGED <<deviceVars, cloud, writerVars, pollVars>>
      /\ v \in pushes /\ pushes' = pushes \ {v} /\ local' = x
  BY DEF ApplyPush
<1>2. Kind' = Kind /\ Answers' = Answers
  BY <1>1, NamesStay DEF Answers, deviceVars, pollVars
<1>3. x \in Pushed /\ Pushed' \subseteq Pushed /\ Pushed \ {x} \subseteq Pushed'
  BY <1>1, <1>2 DEF Pushed
<1> HIDE DEF x
<1>4. x \in Underway /\ Underway' \subseteq Underway /\ Underway \ {x} \subseteq Underway'
  BY <1>2, <1>3, UnderwayParts
<1>5. Underway' \in {Underway, Underway \ {x}}
  <2>1. CASE x \in Underway'
    BY <1>4, <2>1
  <2>2. CASE x \notin Underway'
    BY <1>4, <2>2
  <2> QED
    BY <2>1, <2>2
<1>6. Copy!Apply
  BY <1>1, <1>4, <1>5, NothingRemote DEF Copy!Apply, writerVars
<1> QED
  BY <1>6 DEF Copy!Next

LEMMA DeviceChangesIsChange ==
  ASSUME SyncInv, NEW v \in Values, DeviceChanges(v)
  PROVE  Copy!Next
<1>1. /\ UNCHANGED <<deviceVars, local, writerVars, pollVars>>
      /\ MayPush(v) /\ cloud' = [l \in Levels |-> v]
  BY DEF DeviceChanges
<1>2. Kind' = Kind /\ Targets' = Targets
  BY <1>1 DEF Kind, Targets, deviceVars
<1>3. ToFriendly(Kind, v) \in AnyOption
  BY ConstantFacts DEF SyncInv, TypeOK, Values, AnyOption
<1>4. [l \in Levels |-> ToFriendly(Kind, cloud[l])]' = [l \in Levels |-> ToFriendly(Kind, v)]
  BY <1>1, <1>2
<1>5. Copy!Told(ToFriendly(Kind, v))
  BY <1>1, PushIsTold DEF deviceVars
<1>6. Copy!Change
  BY <1>1, <1>2, <1>3, <1>4, <1>5 DEF Copy!Change, deviceVars, writerVars
<1> QED
  BY <1>6 DEF Copy!Next

\* Every step is a step of Mirror or leaves it alone.
LEMMA CopyStep ==
  ASSUME SyncInv, [Next]_vars
  PROVE  [Copy!Next]_(Copy!vars)
<1>1. ASSUME NEW w \in Writers, NEW v \in Options, BeginWrite(w, v)
      PROVE  [Copy!Next]_(Copy!vars)
  BY <1>1, BeginWriteIsAsk
<1>2. ASSUME NEW w \in Writers, ServeWrite(w) PROVE [Copy!Next]_(Copy!vars)
  BY <1>2, ServeWriteIsReach
<1>3. ASSUME NEW w \in Writers, WriteAnswered(w) PROVE [Copy!Next]_(Copy!vars)
  BY <1>3, WriteAnsweredIsSuccess
<1>4. ASSUME NEW w \in Writers, WriteRefused(w) \/ RetryWrite(w) \/ WriteAborted(w)
      PROVE  [Copy!Next]_(Copy!vars)
  BY <1>4, WriteGoesOn
<1>5. ASSUME NEW p \in Pollers,
             \/ BeginPoll(p) \/ ServeOnline(p) \/ \E skip \in BOOLEAN : OnlineAnswered(p, skip)
             \/ ServeDetail(p) \/ DetailAnswered(p) \/ PollFails(p)
      PROVE  [Copy!Next]_(Copy!vars)
  BY <1>5, PollIsReading
<1>6. ASSUME NEW v \in Values, ApplyPush(v) PROVE [Copy!Next]_(Copy!vars)
  BY <1>6, ApplyPushIsApply
<1>7. ASSUME NEW v \in Values, DeviceChanges(v) PROVE [Copy!Next]_(Copy!vars)
  BY <1>7, DeviceChangesIsChange
<1>8. ASSUME NEW m \in Modes, ModeChanges(m) PROVE [Copy!Next]_(Copy!vars)
  BY <1>8, CopyStutter, UnderwayStays DEF ModeChanges, deviceVars, writerVars, pollVars
<1>9. CASE UNCHANGED vars
  BY <1>9, CopyStutter, UnderwayStays DEF vars, deviceVars, cloudVars, writerVars, pollVars
<1> QED
  BY <1>1, <1>2, <1>3, <1>4, <1>5, <1>6, <1>7, <1>8, <1>9 DEF Next

\* Writes with their retry, polls and pushes keep what Mirror promises: the option
\* that is shown is one a write has left everywhere, or one that was the cloud's
\* when a reading or a push of it set out.
THEOREM SyncRefinement == Spec => LocalIsMirror
<1>1. Init => Copy!Init
  BY CopyInit
<1>2. SyncInv /\ [Next]_vars => [Copy!Next]_(Copy!vars)
  BY CopyStep
<1> QED
  BY <1>1, <1>2, SyncInvariant, PTL DEF Spec, LocalIsMirror, Copy!SafeSpec

-----------------------------------------------------------------------------
(* The two scales. *)

\* round(n / 100) is at most a half away from n / 100.
LEMMA RoundBy100 ==
  ASSUME NEW n \in Nat
  PROVE  /\ Round(n, 100) \in Nat
         /\ n - 50 =< 100 * Round(n, 100) /\ 100 * Round(n, 100) =< n + 50
<1> DEFINE q == n \div 100
           m == n % 100
<1>1. q \in Nat /\ m \in 0..99 /\ n = 100 * q + m
  OBVIOUS
<1>2. Round(n, 100) \in {q, q + 1}
  BY <1>1 DEF Round
<1>3. CASE 2 * m > 100
  <2>1. Round(n, 100) = q + 1
    BY <1>3, <1>1 DEF Round
  <2> QED
    BY <2>1, <1>1, <1>3
<1>4. CASE 2 * m < 100
  <2>1. Round(n, 100) = q
    BY <1>4, <1>1 DEF Round
  <2> QED
    BY <2>1, <1>1, <1>4
<1>5. CASE 2 * m = 100
  <2> HIDE DEF q, m
  <2> QED
    BY <1>1, <1>2, <1>5
<1> QED
  BY <1>1, <1>3, <1>4, <1>5

\* round(n / 255) is the integer that is less than a half away.
LEMMA RoundBy255 ==
  ASSUME NEW n \in Nat, NEW p \in Nat, 255 * p =< n + 127, n =< 255 * p + 127
  PROVE  Round(n, 255) = p
<1> DEFINE q == n \div 255
           m == n % 255
<1>1. q \in Nat /\ m \in 0..254 /\ n = 255 * q + m
  OBVIOUS
<1>2. Round(n, 255) = IF 2 * m > 255 THEN q + 1 ELSE q
  BY <1>1 DEF Round
<1> HIDE DEF q, m
<1> QED
  BY <1>1, <1>2

\* A bulb level that is turned into a Home Assistant brightness and back is the
\* same level (bulb_light.py 79-88).
THEOREM RoundTrip ==
  \A p \in 1..100 : BrightnessToPercent(PercentToBrightness(p)) = p
<1> SUFFICES ASSUME NEW p \in 1..100
             PROVE  BrightnessToPercent(PercentToBrightness(p)) = p
  OBVIOUS
<1> DEFINE b == Round(p * 255, 100)
<1>1. b \in Nat /\ p * 255 - 50 =< 100 * b /\ 100 * b =< p * 255 + 50
  BY RoundBy100
<1> HIDE DEF b
<1>2. b \in 1..255
  BY <1>1
<1>3. PercentToBrightness(p) = b
  BY <1>2 DEF PercentToBrightness, Clamp, b
<1>4. Round(b * 100, 255) = p
  BY <1>1, <1>2, RoundBy255
<1> QED
  BY <1>2, <1>3, <1>4 DEF BrightnessToPercent, Clamp

-----------------------------------------------------------------------------
(* Types. *)

LEMMA RoundIsInt ==
  ASSUME NEW n \in Nat
  PROVE  Round(n, 255) \in Nat
<1>1. n \div 255 \in Nat
  OBVIOUS
<1> QED
  BY <1>1 DEF Round

LEMMA LevelInRange ==
  ASSUME NEW n \in Int
  PROVE  BrightnessToPercent(n) \in 1..100
<1> DEFINE c == Clamp(0, 255, n)
<1>1. c \in Nat
  BY DEF Clamp
<1> HIDE DEF c
<1>2. Round(c * 100, 255) \in Nat
  BY <1>1, RoundIsInt
<1> QED
  BY <1>2 DEF BrightnessToPercent, Clamp, c

LEMMA BrightnessInRange ==
  ASSUME NEW p \in 1..100
  PROVE  PercentToBrightness(p) \in 1..255
<1>1. Round(p * 255, 100) \in Nat
  BY RoundBy100
<1> QED
  BY <1>1 DEF PercentToBrightness, Clamp

\* What ApplyBulbProperties can fold in.
Foldable(v) ==
  /\ \A key \in Keys \ {"color"} : v[key] \in Int \cup {None}
  /\ v["color"] \in Colors \cup {None}

ShownOK ==
  /\ shown = [key \in Keys |-> shown[key]]
  /\ shown.on \in BOOLEAN /\ shown.mode \in Int /\ shown.scene \in Int
  /\ shown.brightness \in 1..100 /\ shown.value \in 0..100
  /\ shown.color_temp \in MIN_KELVIN..MAX_KELVIN /\ shown.color \in Colors

\* A write moves one slider at most, and none unless asked to.
WriteOK(v, r) ==
  /\ v = [key \in Keys |-> v[key]]
  /\ Foldable(v)
  /\ v["brightness"] = None \/ v["value"] = None
  /\ r.brightness = None => v["brightness"] = None /\ v["value"] = None

\* While undisturbed, a turn_on under way is what the state shown makes of it.
CallOK ==
  /\ WriteOK(payload, request)
  /\ payload["on"] = 1 /\ ~disturbed => payload = PropertiesForTurnOn(request)

BulbInv == BulbTypeOK /\ ShownOK /\ CallOK

LEMMA ClampInRange ==
  \A n \in Int :
    /\ Clamp(1, 100, n) \in 1..100 /\ Clamp(0, 100, n) \in 0..100
    /\ Clamp(MIN_KELVIN, MAX_KELVIN, n) \in MIN_KELVIN..MAX_KELVIN
BY DEF Clamp, MIN_KELVIN, MAX_KELVIN

LEMMA KelvinStays ==
  \A n \in MIN_KELVIN..MAX_KELVIN : Clamp(MIN_KELVIN, MAX_KELVIN, n) = n
BY DEF Clamp, MIN_KELVIN, MAX_KELVIN

LEMMA FoldKeepsShape ==
  ASSUME ConstantsAssumption, ShownOK, NEW v, Foldable(v), ApplyBulbProperties(v)
  PROVE  ShownOK'
<1>1. ASSUME NEW key \in Keys
      PROVE  shown'[key] = IF v[key] = None THEN shown[key] ELSE ClampRead(key, v[key])
  BY DEF ApplyBulbProperties
<1>2. shown' = [key \in Keys |-> shown'[key]]
  BY DEF ApplyBulbProperties
<1>3. shown'["on"] \in BOOLEAN
  <2>1. ClampRead("on", v["on"]) \in BOOLEAN
    BY DEF ClampRead
  <2> QED
    BY <1>1, <2>1 DEF ShownOK, Keys
<1>4. shown'["mode"] \in Int /\ shown'["scene"] \in Int
  <2>1. ClampRead("mode", v["mode"]) = v["mode"]
    BY DEF ClampRead
  <2>2. ClampRead("scene", v["scene"]) = v["scene"]
    BY DEF ClampRead
  <2> QED
    BY <1>1, <2>1, <2>2 DEF ShownOK, Keys, Foldable
<1>5. shown'["brightness"] \in 1..100
  <2>1. ClampRead("brightness", v["brightness"]) = Clamp(1, 100, v["brightness"])
    BY DEF ClampRead
  <2>2. v["brightness"] \in Int \cup {None}
    BY DEF Foldable, Keys
  <2>3. v["brightness"] \in Int => Clamp(1, 100, v["brightness"]) \in 1..100
    BY ClampInRange
  <2> QED
    BY <1>1, <2>1, <2>2, <2>3 DEF ShownOK, Keys
<1>6. shown'["value"] \in 0..100
  <2>1. ClampRead("value", v["value"]) = Clamp(0, 100, v["value"])
    BY DEF ClampRead
  <2>2. v["value"] \in Int \cup {None}
    BY DEF Foldable, Keys
  <2>3. v["value"] \in Int => Clamp(0, 100, v["value"]) \in 0..100
    BY ClampInRange
  <2> QED
    BY <1>1, <2>1, <2>2, <2>3 DEF ShownOK, Keys
<1>7. shown'["color_temp"] \in MIN_KELVIN..MAX_KELVIN
  <2>1. ClampRead("color_temp", v["color_temp"])
          = Clamp(MIN_KELVIN, MAX_KELVIN, v["color_temp"])
    BY DEF ClampRead
  <2>2. v["color_temp"] \in Int \cup {None}
    BY DEF Foldable, Keys
  <2>3. v["color_temp"] \in Int =>
          Clamp(MIN_KELVIN, MAX_KELVIN, v["color_temp"]) \in MIN_KELVIN..MAX_KELVIN
    BY ClampInRange
  <2> QED
    BY <1>1, <2>1, <2>2, <2>3 DEF ShownOK, Keys
<1>8. shown'["color"] \in Colors
  <2>1. ClampRead("color", v["color"]) = v["color"]
    BY DEF ClampRead
  <2> QED
    BY <1>1, <2>1 DEF ShownOK, Keys, Foldable
<1> QED
  BY <1>2, <1>3, <1>4, <1>5, <1>6, <1>7, <1>8 DEF ShownOK

-----------------------------------------------------------------------------
(* What turn_on writes, property by property. *)

\* The properties of a turn_on, one by one.
Written(v, newMode, brightness, white, color_temp, color, scene) ==
  /\ v = [key \in Keys |-> v[key]]
  /\ v["on"] = 1 /\ v["mode"] = newMode /\ v["brightness"] = brightness
  /\ v["value"] = white /\ v["color_temp"] = color_temp
  /\ v["color"] = color /\ v["scene"] = scene

LEMMA EffectWrites ==
  ASSUME NEW r, r.effect # None
  PROVE  Written(PropertiesForTurnOn(r), MODE_SCENE, None, None, None, None, r.effect)
<1>1. PropertiesForTurnOn(r) = [Write("scene", r.effect) EXCEPT !["mode"] = MODE_SCENE]
  BY DEF PropertiesForTurnOn
<1>2. PropertiesForTurnOn(r) =
        [k \in Keys |-> IF k = "mode" THEN MODE_SCENE ELSE IF k = "scene" THEN r.effect
                        ELSE IF k = "on" THEN 1 ELSE None]
  BY <1>1 DEF Keys, Write, Silent
<1> QED
  BY <1>2 DEF Keys, Written

LEMMA ColorWrites ==
  ASSUME NEW r, r.effect = None, r.color # None
  PROVE  Written(PropertiesForTurnOn(r), MODE_COLOR, None, IfGiven(r.brightness),
                 None, r.color, None)
<1>1. PropertiesForTurnOn(r) =
        [Write("color", r.color) EXCEPT
           !["mode"] = MODE_COLOR, !["value"] = IfGiven(r.brightness)]
  BY DEF PropertiesForTurnOn, ColorWrite
<1>2. PropertiesForTurnOn(r) =
        [k \in Keys |-> IF k = "value" THEN IfGiven(r.brightness)
                        ELSE IF k = "mode" THEN MODE_COLOR
                        ELSE IF k = "color" THEN r.color
                        ELSE IF k = "on" THEN 1 ELSE None]
  BY <1>1 DEF Keys, Write, Silent
<1> QED
  BY <1>2 DEF Keys, Written

LEMMA WhiteWrites ==
  ASSUME NEW r, r.effect = None, r.color = None, r.color_temp # None
  PROVE  Written(PropertiesForTurnOn(r), MODE_WHITE, IfGiven(r.brightness), None,
                 Clamp(MIN_KELVIN, MAX_KELVIN, r.color_temp), None, None)
<1>1. PropertiesForTurnOn(r) =
        [Write("color_temp", Clamp(MIN_KELVIN, MAX_KELVIN, r.color_temp)) EXCEPT
           !["mode"] = MODE_WHITE, !["brightness"] = IfGiven(r.brightness)]
  BY DEF PropertiesForTurnOn, WhiteWrite
<1>2. PropertiesForTurnOn(r) =
        [k \in Keys |-> IF k = "brightness" THEN IfGiven(r.brightness)
                        ELSE IF k = "mode" THEN MODE_WHITE
                        ELSE IF k = "color_temp" THEN Clamp(MIN_KELVIN, MAX_KELVIN, r.color_temp)
                        ELSE IF k = "on" THEN 1 ELSE None]
  BY <1>1 DEF Keys, Write, Silent
<1> QED
  BY <1>2 DEF Keys, Written

LEMMA SliderWrites ==
  ASSUME NEW r, r.effect = None, r.color = None, r.color_temp = None,
         r.brightness # None, shown.mode = MODE_COLOR
  PROVE  Written(PropertiesForTurnOn(r), None, None, BrightnessToPercent(r.brightness),
                 None, None, None)
<1>1. PropertiesForTurnOn(r) = Write("value", BrightnessToPercent(r.brightness))
  BY DEF PropertiesForTurnOn, LevelWrite
<1>2. PropertiesForTurnOn(r) =
        [k \in Keys |-> IF k = "value" THEN BrightnessToPercent(r.brightness)
                        ELSE IF k = "on" THEN 1 ELSE None]
  BY <1>1 DEF Keys, Write, Silent
<1> QED
  BY <1>2 DEF Keys, Written

LEMMA WhiteSliderWrites ==
  ASSUME NEW r, r.effect = None, r.color = None, r.color_temp = None,
         r.brightness # None, shown.mode # MODE_COLOR
  PROVE  Written(PropertiesForTurnOn(r),
                 IF shown.mode = MODE_WHITE THEN None ELSE MODE_WHITE,
                 BrightnessToPercent(r.brightness), None, None, None, None)
<1>1. PropertiesForTurnOn(r) =
        [Write("brightness", BrightnessToPercent(r.brightness)) EXCEPT
           !["mode"] = IF shown.mode = MODE_WHITE THEN None ELSE MODE_WHITE]
  BY DEF PropertiesForTurnOn, LevelWrite
<1> DEFINE newMode == IF shown.mode = MODE_WHITE THEN None ELSE MODE_WHITE
<1>2. PropertiesForTurnOn(r) =
        [k \in Keys |-> IF k = "mode" THEN newMode
                        ELSE IF k = "brightness" THEN BrightnessToPercent(r.brightness)
                        ELSE IF k = "on" THEN 1 ELSE None]
  BY <1>1 DEF Keys, Write, Silent
<1> HIDE DEF newMode
<1>3. Written(PropertiesForTurnOn(r), newMode, BrightnessToPercent(r.brightness),
              None, None, None, None)
  BY <1>2 DEF Keys, Written
<1> QED
  BY <1>3 DEF newMode

LEMMA OnWrites ==
  ASSUME NEW r, r.effect = None, r.color = None, r.color_temp = None, r.brightness = None
  PROVE  Written(PropertiesForTurnOn(r), None, None, None, None, None, None)
<1>1. PropertiesForTurnOn(r) = Write("on", 1)
  BY DEF PropertiesForTurnOn
<1>2. PropertiesForTurnOn(r) = [k \in Keys |-> IF k = "on" THEN 1 ELSE None]
  BY <1>1 DEF Keys, Write, Silent
<1> QED
  BY <1>2 DEF Keys, Written

LEMMA WrittenIsOK ==
  ASSUME NEW v, NEW r, NEW newMode \in Int \cup {None}, NEW brightness \in Int \cup {None},
         NEW white \in Int \cup {None}, NEW color_temp \in Int \cup {None},
         NEW color \in Colors \cup {None}, NEW scene \in Int \cup {None},
         Written(v, newMode, brightness, white, color_temp, color, scene),
         brightness = None \/ white = None,
         r.brightness = None => brightness = None /\ white = None
  PROVE  WriteOK(v, r)
BY DEF Written, WriteOK, Foldable, Keys

LEMMA TurnOnIsOK ==
  ASSUME ConstantsAssumption, shown.mode \in Int, NEW r \in Requests
  PROVE  WriteOK(PropertiesForTurnOn(r), r) /\ PropertiesForTurnOn(r)["on"] = 1
<1> DEFINE v == PropertiesForTurnOn(r)
<1>1. /\ r.brightness \in Int \cup {None} /\ r.color_temp \in Int \cup {None}
      /\ r.color \in Colors \cup {None} /\ r.effect \in Int \cup {None}
  BY DEF Requests, ConstantsAssumption
<1>2. /\ IfGiven(r.brightness) \in Int \cup {None}
      /\ r.brightness = None => IfGiven(r.brightness) = None
  BY <1>1, LevelInRange DEF IfGiven
<1>3. None \in Int \cup {None} /\ None \in Colors \cup {None}
  OBVIOUS
<1>4. MODE_WHITE \in Int \cup {None} /\ MODE_COLOR \in Int \cup {None}
      /\ MODE_SCENE \in Int \cup {None}
  BY DEF MODE_WHITE, MODE_COLOR, MODE_SCENE
<1>5. CASE r.effect # None
  <2>1. Written(v, MODE_SCENE, None, None, None, None, r.effect)
    BY <1>5, EffectWrites
  <2> HIDE DEF v
  <2>2. WriteOK(v, r) /\ v["on"] = 1
    BY <1>1, <1>3, <1>4, <2>1, WrittenIsOK DEF Written
  <2> QED
    BY <2>2 DEF v
<1>6. CASE r.effect = None /\ r.color # None
  <2>1. Written(v, MODE_COLOR, None, IfGiven(r.brightness), None, r.color, None)
    BY <1>6, ColorWrites
  <2> HIDE DEF v
  <2>2. WriteOK(v, r) /\ v["on"] = 1
    BY <1>1, <1>2, <1>3, <1>4, <2>1, WrittenIsOK DEF Written
  <2> QED
    BY <2>2 DEF v
<1>7. CASE r.effect = None /\ r.color = None /\ r.color_temp # None
  <2> DEFINE kelvin == Clamp(MIN_KELVIN, MAX_KELVIN, r.color_temp)
  <2>1. kelvin \in Int \cup {None}
    <3>1. kelvin \in MIN_KELVIN..MAX_KELVIN
      BY <1>1, <1>7, ClampInRange
    <3> HIDE DEF kelvin
    <3> QED
      BY <3>1 DEF MIN_KELVIN, MAX_KELVIN
  <2>2. Written(v, MODE_WHITE, IfGiven(r.brightness), None, kelvin, None, None)
    BY <1>7, WhiteWrites
  <2> HIDE DEF v, kelvin
  <2>3. WriteOK(v, r) /\ v["on"] = 1
    BY <1>1, <1>2, <1>3, <1>4, <2>1, <2>2, WrittenIsOK DEF Written
  <2> QED
    BY <2>3 DEF v
<1>8. CASE r.effect = None /\ r.color = None /\ r.color_temp = None /\ r.brightness # None
  <2> DEFINE level == BrightnessToPercent(r.brightness)
             newMode == IF shown.mode = MODE_WHITE THEN None ELSE MODE_WHITE
  <2>1. level \in Int \cup {None} /\ newMode \in Int \cup {None}
    BY <1>1, <1>4, <1>8, LevelInRange
  <2>2. \/ Written(v, None, None, level, None, None, None)
        \/ Written(v, newMode, level, None, None, None, None)
    BY <1>8, SliderWrites, WhiteSliderWrites
  <2> HIDE DEF v, level, newMode
  <2>3. WriteOK(v, r) /\ v["on"] = 1
    BY <1>3, <1>8, <2>1, <2>2, WrittenIsOK DEF Written
  <2> QED
    BY <2>3 DEF v
<1>9. CASE r.effect = None /\ r.color = None /\ r.color_temp = None /\ r.brightness = None
  <2>1. Written(v, None, None, None, None, None, None)
    BY <1>9, OnWrites
  <2> HIDE DEF v
  <2>2. WriteOK(v, r) /\ v["on"] = 1
    BY <1>3, <2>1, WrittenIsOK DEF Written
  <2> QED
    BY <2>2 DEF v
<1> QED
  BY <1>5, <1>6, <1>7, <1>8, <1>9

LEMMA TurnOffIsOK ==
  ASSUME ConstantsAssumption
  PROVE  WriteOK(PropertiesForTurnOff, NoRequest) /\ PropertiesForTurnOff["on"] = 0
BY DEF ConstantsAssumption, WriteOK, PropertiesForTurnOff, Silent, Keys, Foldable

LEMMA SilentIsOK ==
  ASSUME ConstantsAssumption
  PROVE  WriteOK(Silent, NoRequest) /\ Silent["on"] # 1
BY DEF ConstantsAssumption, WriteOK, Silent, Keys, Foldable

LEMMA ReadingIsFoldable ==
  ASSUME ConstantsAssumption, NEW key \in Keys, NEW n \in Readings(key) \cup {None}
  PROVE  Foldable([Silent EXCEPT ![key] = n])
<1>1. IF key = "color" THEN n \in Colors \cup {None} ELSE n \in Int \cup {None}
  BY DEF Readings, Keys, ConstantsAssumption
<1> QED
  BY <1>1 DEF Foldable, Silent, Keys

LEMMA NoRequestIsRequest ==
  NoRequest \in Requests
BY DEF NoRequest, Requests

-----------------------------------------------------------------------------
(* The invariant. *)

LEMMA BulbInitInv ==
  ASSUME ConstantsAssumption, BulbInit
  PROVE  BulbInv
<1>1. PICK c \in Colors :
        shown = [on |-> FALSE, mode |-> MODE_WHITE, brightness |-> 50, value |-> 100,
                 color_temp |-> 3500, color |-> c, scene |-> 0]
  BY DEF BulbInit
<1>2. BulbTypeOK /\ ShownOK
  <2>1. shown = [key \in Keys |-> shown[key]]
    <3>1. DOMAIN shown = Keys
      BY <1>1 DEF Keys
    <3> QED
      BY <1>1, <3>1 DEF Keys
  <2>2. /\ shown.on \in BOOLEAN /\ shown.mode \in Int /\ shown.scene \in Int
        /\ shown.color \in Colors
    BY <1>1 DEF MODE_WHITE
  <2>3. shown.brightness = 50 /\ shown.value = 100 /\ shown.color_temp = 3500
    BY <1>1
  <2>4. shown.brightness \in 1..100 /\ shown.value \in 0..100
    BY <2>3
  <2>5. shown.color_temp \in MIN_KELVIN..MAX_KELVIN
    BY <2>3 DEF MIN_KELVIN, MAX_KELVIN
  <2>6. ShownOK
    BY <2>1, <2>2, <2>4, <2>5 DEF ShownOK
  <2>7. request \in Requests /\ disturbed \in BOOLEAN
    <3>1. request = NoRequest /\ disturbed = FALSE
      BY DEF BulbInit
    <3> QED
      BY <3>1, NoRequestIsRequest
  <2> QED
    BY <2>6, <2>7 DEF ShownOK, BulbTypeOK
<1>3. CallOK
  BY SilentIsOK DEF BulbInit, CallOK
<1> QED
  BY <1>2, <1>3 DEF BulbInv

LEMMA BulbStepInv ==
  ASSUME ConstantsAssumption, BulbInv, [BulbNext]_bulbVars
  PROVE  BulbInv'
<1> USE DEF BulbInv
<1>1. ASSUME NEW r \in Requests, TurnOn(r) PROVE BulbInv'
  <2>1. WriteOK(PropertiesForTurnOn(r), r) /\ PropertiesForTurnOn(r)["on"] = 1
    BY TurnOnIsOK DEF ShownOK
  <2>2. PropertiesForTurnOn(r)' = PropertiesForTurnOn(r)
    BY <1>1 DEF TurnOn, Begin, PropertiesForTurnOn, ColorWrite, WhiteWrite, LevelWrite
  <2>3. ShownOK' /\ BulbTypeOK'
    BY <1>1 DEF TurnOn, Begin, ShownOK, BulbTypeOK
  <2>4. CallOK'
    BY <1>1, <2>1, <2>2 DEF TurnOn, Begin, CallOK, WriteOK, Foldable,
       PropertiesForTurnOn, ColorWrite, WhiteWrite, LevelWrite
  <2> QED
    BY <2>3, <2>4
<1>2. CASE TurnOff
  <2>1. ShownOK' /\ BulbTypeOK'
    BY <1>2, NoRequestIsRequest DEF TurnOff, Begin, ShownOK, BulbTypeOK
  <2>2. CallOK'
    BY <1>2, TurnOffIsOK DEF TurnOff, Begin, CallOK, WriteOK, Foldable
  <2> QED
    BY <2>1, <2>2
<1>3. CASE Answered
  <2>1. ShownOK'
    BY <1>3, FoldKeepsShape DEF Answered, CallOK, WriteOK
  <2>2. BulbTypeOK'
    BY <1>3, <2>1, NoRequestIsRequest DEF Answered, ShownOK, BulbTypeOK
  <2>3. CallOK'
    BY <1>3, SilentIsOK DEF Answered, CallOK, WriteOK, Foldable
  <2> QED
    BY <2>1, <2>2, <2>3
<1>4. CASE Fails
  <2>1. ShownOK' /\ BulbTypeOK'
    BY <1>4, NoRequestIsRequest DEF Fails, ShownOK, BulbTypeOK
  <2>2. CallOK'
    BY <1>4, SilentIsOK DEF Fails, CallOK, WriteOK, Foldable
  <2> QED
    BY <2>1, <2>2
<1>5. ASSUME NEW key \in Keys, NEW n \in Readings(key) \cup {None}, Read(key, n)
      PROVE  BulbInv'
  <2>1. ShownOK'
    BY <1>5, ReadingIsFoldable, FoldKeepsShape DEF Read
  <2>2. BulbTypeOK'
    BY <1>5, <2>1 DEF Read, ShownOK, BulbTypeOK
  <2>3. CallOK'
    <3>1. WriteOK(payload, request)'
      BY <1>5 DEF Read, CallOK, WriteOK, Foldable
    <3>2. payload["on"] = 1 => payload # Silent
      BY SilentIsOK
    <3> QED
      BY <1>5, <3>1, <3>2 DEF Read, CallOK
  <2> QED
    BY <2>1, <2>2, <2>3
<1>6. CASE UNCHANGED bulbVars
  BY <1>6 DEF bulbVars, BulbTypeOK, ShownOK, CallOK, WriteOK, Foldable,
     PropertiesForTurnOn, ColorWrite, WhiteWrite, LevelWrite
<1> QED
  BY <1>1, <1>2, <1>3, <1>4, <1>5, <1>6 DEF BulbNext

LEMMA BulbInvariant ==
  BulbSpec => []BulbInv
<1>1. BulbInit => BulbInv
  BY ConstantsAssumption, BulbInitInv
<1>2. BulbInv /\ [BulbNext]_bulbVars => BulbInv'
  BY ConstantsAssumption, BulbStepInv
<1> QED
  BY <1>1, <1>2, PTL DEF BulbSpec

\* Levels stay within the thing model whatever is asked for or read: what
\* the clamps of apply_properties are for (bulb_light.py:191).
THEOREM BulbTypeCorrect ==
  BulbSpec => []BulbTypeOK
<1>1. BulbInv => BulbTypeOK
  BY DEF BulbInv
<1> QED
  BY <1>1, BulbInvariant, PTL

-----------------------------------------------------------------------------
(* What a call changes. *)

LEMMA Folded ==
  ASSUME NEW v, ApplyBulbProperties(v), NEW key \in Keys
  PROVE  shown'[key] = IF v[key] = None THEN shown[key] ELSE ClampRead(key, v[key])
BY DEF ApplyBulbProperties

\* White and color keep a brightness each: whatever is read while the call is
\* under way, it moves one of the two at most, and neither unless it was asked
\* for a brightness (bulb_light.py:142).
THEOREM OneSliderMoves ==
  BulbSpec => SlidersAreApart
<1> DEFINE Apart ==
      payload # Silent /\ Answered =>
       \/ shown'.brightness = shown.brightness /\ shown'.value = shown.value
       \/ /\ request.brightness # None
          /\ shown'.brightness = shown.brightness \/ shown'.value = shown.value
<1>1. BulbInv /\ [BulbNext]_bulbVars => Apart
  <2> SUFFICES ASSUME BulbInv, Answered PROVE Apart
    OBVIOUS
  <2>1. WriteOK(payload, request)
    BY DEF BulbInv, CallOK
  <2>2. /\ payload["brightness"] = None => shown'["brightness"] = shown["brightness"]
        /\ payload["value"] = None => shown'["value"] = shown["value"]
    BY Folded DEF Answered, Keys
  <2> QED
    BY <2>1, <2>2 DEF WriteOK
<1> HIDE DEF Apart
<1>2. BulbSpec => [][Apart]_bulbVars
  BY <1>1, BulbInvariant, PTL DEF BulbSpec
<1> QED
  BY <1>2 DEF SlidersAreApart, Apart

LEMMA FoldedOn ==
  ASSUME NEW v, v["on"] = 1, ApplyBulbProperties(v), None # 1
  PROVE  shown'["on"] = TRUE
<1>1. ClampRead("on", 1) = TRUE
  BY DEF ClampRead
<1> QED
  BY <1>1, Folded DEF Keys

\* A write that is folded in shows what it wrote and leaves the rest.
LEMMA FoldedWrite ==
  ASSUME NEW v, NEW newMode, NEW brightness, NEW white, NEW color_temp, NEW color, NEW scene,
         Written(v, newMode, brightness, white, color_temp, color, scene),
         ApplyBulbProperties(v)
  PROVE  /\ IF newMode = None THEN shown'["mode"] = shown["mode"] ELSE shown'["mode"] = newMode
         /\ IF brightness = None THEN shown'["brightness"] = shown["brightness"]
            ELSE shown'["brightness"] = Clamp(1, 100, brightness)
         /\ IF white = None THEN shown'["value"] = shown["value"]
            ELSE shown'["value"] = Clamp(0, 100, white)
         /\ IF color_temp = None THEN shown'["color_temp"] = shown["color_temp"]
            ELSE shown'["color_temp"] = Clamp(MIN_KELVIN, MAX_KELVIN, color_temp)
         /\ IF color = None THEN shown'["color"] = shown["color"]
            ELSE shown'["color"] = color
         /\ IF scene = None THEN shown'["scene"] = shown["scene"]
            ELSE shown'["scene"] = scene
<1>1. \A n : /\ ClampRead("mode", n) = n
             /\ ClampRead("brightness", n) = Clamp(1, 100, n)
             /\ ClampRead("value", n) = Clamp(0, 100, n)
             /\ ClampRead("color_temp", n) = Clamp(MIN_KELVIN, MAX_KELVIN, n)
             /\ ClampRead("color", n) = n
             /\ ClampRead("scene", n) = n
  BY DEF ClampRead
<1>2. /\ IF newMode = None THEN shown'["mode"] = shown["mode"] ELSE shown'["mode"] = newMode
      /\ IF color = None THEN shown'["color"] = shown["color"]
         ELSE shown'["color"] = color
      /\ IF scene = None THEN shown'["scene"] = shown["scene"]
         ELSE shown'["scene"] = scene
  BY <1>1, Folded DEF Written, Keys
<1>3. /\ IF brightness = None THEN shown'["brightness"] = shown["brightness"]
         ELSE shown'["brightness"] = Clamp(1, 100, brightness)
      /\ IF white = None THEN shown'["value"] = shown["value"]
         ELSE shown'["value"] = Clamp(0, 100, white)
      /\ IF color_temp = None THEN shown'["color_temp"] = shown["color_temp"]
         ELSE shown'["color_temp"] = Clamp(MIN_KELVIN, MAX_KELVIN, color_temp)
  BY <1>1, Folded DEF Written, Keys
<1> QED
  BY <1>2, <1>3

\* The two brightness scales do not drift: sending back the brightness that is
\* shown turns the bulb on and changes nothing else (percent_to_brightness and
\* brightness_to_percent, bulb_light.py:79-88).
THEOREM ResendIsHarmless ==
  BulbSpec => ResendChangesNothing
<1> DEFINE Harmless ==
      /\ payload["on"] = 1 /\ Answered /\ ~disturbed
      /\ shown.mode \in {MODE_WHITE, MODE_COLOR} /\ Level(shown) # 0
      /\ request = [NoRequest EXCEPT !.brightness = PercentToBrightness(Level(shown))]
      => shown' = [shown EXCEPT !.on = TRUE]
<1>1. BulbInv /\ [BulbNext]_bulbVars => Harmless
  <2> SUFFICES ASSUME BulbInv, payload["on"] = 1, Answered, ~disturbed,
                      shown.mode \in {MODE_WHITE, MODE_COLOR}, Level(shown) # 0,
                      request = [NoRequest EXCEPT
                                   !.brightness = PercentToBrightness(Level(shown))]
               PROVE  shown' = [shown EXCEPT !.on = TRUE]
    OBVIOUS
  <2> DEFINE level == Level(shown)
  <2>1. level \in 1..100
    BY DEF BulbInv, ShownOK, Level
  <2> HIDE DEF level
  <2>2. BrightnessToPercent(PercentToBrightness(level)) = level
        /\ PercentToBrightness(level) \in Int
    <3>1. PercentToBrightness(level) \in 1..255
      BY <2>1, BrightnessInRange
    <3>2. BrightnessToPercent(PercentToBrightness(level)) = level
      BY <2>1, RoundTrip
    <3> QED
      BY <3>1, <3>2
  <2>3. /\ request.brightness = PercentToBrightness(level) /\ request.color = None
        /\ request.color_temp = None /\ request.effect = None
    BY DEF NoRequest, level
  <2>4. None \notin Int
    BY ConstantsAssumption DEF ConstantsAssumption
  <2>5. payload = PropertiesForTurnOn(request) /\ ApplyBulbProperties(payload)
    BY DEF BulbInv, CallOK, Answered
  <2>6. request.brightness # None /\ BrightnessToPercent(request.brightness) = level
    BY <2>2, <2>3, <2>4
  <2>7. level # None /\ None # 1
    BY <2>1, <2>4
  <2>8. /\ shown'["on"] = TRUE /\ shown'["mode"] = shown["mode"]
        /\ shown'["brightness"] = shown["brightness"] /\ shown'["value"] = shown["value"]
        /\ shown'["color_temp"] = shown["color_temp"]
        /\ shown'["color"] = shown["color"] /\ shown'["scene"] = shown["scene"]
    <3>1. CASE shown.mode = MODE_COLOR
      <4>1. Written(payload, None, None, level, None, None, None)
        BY <2>3, <2>5, <2>6, <3>1, SliderWrites
      <4>2. level = shown.value /\ Clamp(0, 100, level) = level
        BY <2>1, <3>1 DEF level, Level, Clamp
      <4>3. shown'["on"] = TRUE
        BY <2>5, <2>7, <4>1, FoldedOn DEF Written
      <4> QED
        BY <2>5, <2>7, <4>1, <4>2, <4>3, FoldedWrite
    <3>2. CASE shown.mode = MODE_WHITE
      <4>1. Written(payload, None, level, None, None, None, None)
        <5>1. shown.mode # MODE_COLOR
          BY <3>2 DEF MODE_WHITE, MODE_COLOR
        <5>2. (IF shown.mode = MODE_WHITE THEN None ELSE MODE_WHITE) = None
          BY <3>2
        <5> QED
          BY <2>3, <2>5, <2>6, <5>1, <5>2, WhiteSliderWrites
      <4>2. level = shown.brightness /\ Clamp(1, 100, level) = level
        BY <2>1, <3>2 DEF level, Level, Clamp, MODE_WHITE, MODE_COLOR
      <4>3. shown'["on"] = TRUE
        BY <2>5, <2>7, <4>1, FoldedOn DEF Written
      <4> QED
        BY <2>5, <2>7, <4>1, <4>2, <4>3, FoldedWrite
    <3> QED
      BY <3>1, <3>2
  <2>9. shown = [key \in Keys |-> shown[key]] /\ shown' = [key \in Keys |-> shown'[key]]
    BY <2>5 DEF BulbInv, ShownOK, ApplyBulbProperties
  <2>10. DOMAIN shown = Keys /\ DOMAIN shown' = Keys
    BY <2>9
  <2>11. \A key \in Keys : shown'[key] = [shown EXCEPT !.on = TRUE][key]
    BY <2>8, <2>9, <2>10 DEF Keys
  <2> QED
    BY <2>9, <2>10, <2>11
<1> HIDE DEF Harmless
<1>2. BulbSpec => [][Harmless]_bulbVars
  BY <1>1, BulbInvariant, PTL DEF BulbSpec
<1> QED
  BY <1>2 DEF ResendChangesNothing, Harmless

\* An accepted turn_on with no reading in between shows what was asked for,
\* whatever mode the bulb was in (properties_for_turn_on and
\* async_set_bulb_light: "so the lamp matches", bulb_light.py:184).
THEOREM AskedAndShown ==
  BulbSpec => AskedIsShown
<1> DEFINE Effect == request.effect # None =>
              shown'.mode = MODE_SCENE /\ shown'.scene = request.effect
           Color == request.color # None =>
              shown'.mode = MODE_COLOR /\ shown'.color = request.color
           White == request.color = None /\ request.color_temp # None =>
              /\ shown'.mode = MODE_WHITE
              /\ request.color_temp \in MIN_KELVIN..MAX_KELVIN =>
                   shown'.color_temp = request.color_temp
           Bright == request.brightness # None =>
              /\ shown'.mode \in {MODE_WHITE, MODE_COLOR}
              /\ Level(shown') = BrightnessToPercent(request.brightness)
           Asked == payload["on"] = 1 /\ Answered /\ ~disturbed =>
              /\ shown'.on
              /\ Effect
              /\ request.effect = None =>
                   /\ Color
                   /\ White
                   /\ Bright
<1>1. BulbInv /\ [BulbNext]_bulbVars => Asked
  <2> SUFFICES ASSUME BulbInv, payload["on"] = 1, Answered, ~disturbed
               PROVE  /\ shown'.on /\ Effect
                      /\ request.effect = None => Color /\ White /\ Bright
    BY DEF Asked
  <2>1. payload = PropertiesForTurnOn(request) /\ ApplyBulbProperties(payload)
    BY DEF BulbInv, CallOK, Answered
  <2>2. None \notin Int
    BY ConstantsAssumption DEF ConstantsAssumption
  <2>3. /\ request.brightness \in Int \cup {None}
        /\ request.color_temp \in Int \cup {None}
    <3>1. request \in Requests
      BY DEF BulbInv, BulbTypeOK
    <3> QED
      BY <3>1, ConstantsAssumption DEF Requests, ConstantsAssumption
  <2>4. shown'.on
    <3>1. shown'["on"] = TRUE
      <4>1. None # 1
        BY <2>2
      <4> QED
        BY <2>1, <4>1, FoldedOn
    <3> QED
      BY <3>1
  <2> DEFINE level == IfGiven(request.brightness)
  <2>5. request.brightness # None =>
          /\ level = BrightnessToPercent(request.brightness) /\ level # None
          /\ Clamp(1, 100, level) = level /\ Clamp(0, 100, level) = level
    <3> SUFFICES ASSUME request.brightness # None
                 PROVE  /\ level = BrightnessToPercent(request.brightness)
                        /\ level # None
                        /\ Clamp(1, 100, level) = level /\ Clamp(0, 100, level) = level
      OBVIOUS
    <3>1. level = BrightnessToPercent(request.brightness)
      BY DEF IfGiven
    <3> HIDE DEF level
    <3>2. level \in 1..100
      BY <2>3, <3>1, LevelInRange
    <3> QED
      BY <2>2, <3>1, <3>2 DEF Clamp
  <2>6. MODE_WHITE # None /\ MODE_COLOR # None /\ MODE_SCENE # None
        /\ MODE_WHITE # MODE_COLOR
    BY <2>2 DEF MODE_WHITE, MODE_COLOR, MODE_SCENE
  <2> HIDE DEF level
  <2>7. CASE request.effect # None
    <3>1. Written(payload, MODE_SCENE, None, None, None, None, request.effect)
      BY <2>1, <2>7, EffectWrites
    <3> QED
      BY <2>1, <2>4, <2>6, <2>7, <3>1, FoldedWrite
  <2>8. CASE request.effect = None /\ request.color # None
    <3>1. Written(payload, MODE_COLOR, None, level, None, request.color, None)
      BY <2>1, <2>8, ColorWrites DEF level
    <3>2. /\ shown'["mode"] = MODE_COLOR /\ shown'["color"] = request.color
          /\ level # None => shown'["value"] = Clamp(0, 100, level)
      BY <2>1, <2>6, <2>8, <3>1, FoldedWrite
    <3>3. Bright
      BY <2>5, <3>2 DEF Level
    <3> QED
      BY <2>4, <2>8, <3>2, <3>3
  <2>9. CASE request.effect = None /\ request.color = None /\ request.color_temp # None
    <3> DEFINE kelvin == Clamp(MIN_KELVIN, MAX_KELVIN, request.color_temp)
    <3>1. Written(payload, MODE_WHITE, level, None, kelvin, None, None)
      BY <2>1, <2>9, WhiteWrites DEF level
    <3>2. /\ kelvin \in MIN_KELVIN..MAX_KELVIN
          /\ request.color_temp \in MIN_KELVIN..MAX_KELVIN => kelvin = request.color_temp
      <4>1. request.color_temp \in Int
        BY <2>3, <2>9
      <4> QED
        BY <4>1, ClampInRange, KelvinStays
    <3> HIDE DEF kelvin
    <3>3. kelvin # None /\ Clamp(MIN_KELVIN, MAX_KELVIN, kelvin) = kelvin
      BY <2>2, <3>2 DEF Clamp, MIN_KELVIN, MAX_KELVIN
    <3>4. /\ shown'["mode"] = MODE_WHITE /\ shown'["color_temp"] = kelvin
          /\ level # None => shown'["brightness"] = Clamp(1, 100, level)
      BY <2>1, <2>6, <3>1, <3>3, FoldedWrite
    <3>5. Bright
      BY <2>5, <2>6, <3>4 DEF Level
    <3> QED
      BY <2>4, <2>9, <3>2, <3>4, <3>5
  <2>10. CASE /\ request.effect = None /\ request.color = None
              /\ request.color_temp = None /\ request.brightness # None
    <3>1. level = BrightnessToPercent(request.brightness)
      BY <2>5, <2>10
    <3>2. CASE shown.mode = MODE_COLOR
      <4>1. Written(payload, None, None, level, None, None, None)
        BY <2>1, <2>10, <3>1, <3>2, SliderWrites
      <4>2. shown'["mode"] = shown["mode"] /\ shown'["value"] = Clamp(0, 100, level)
        BY <2>1, <2>5, <2>10, <4>1, FoldedWrite
      <4> QED
        BY <2>4, <2>5, <2>10, <3>2, <4>2 DEF Level
    <3>3. CASE shown.mode # MODE_COLOR
      <4> DEFINE newMode == IF shown.mode = MODE_WHITE THEN None ELSE MODE_WHITE
      <4>1. Written(payload, newMode, level, None, None, None, None)
        BY <2>1, <2>10, <3>1, <3>3, WhiteSliderWrites
      <4>2. IF newMode = None THEN shown'["mode"] = shown["mode"] ELSE shown'["mode"] = newMode
        BY <2>1, <4>1, FoldedWrite
      <4>3. shown'["mode"] = MODE_WHITE
        BY <2>6, <4>2
      <4> HIDE DEF newMode
      <4>4. shown'["brightness"] = Clamp(1, 100, level)
        BY <2>1, <2>5, <2>10, <4>1, FoldedWrite
      <4> QED
        BY <2>4, <2>5, <2>6, <2>10, <4>3, <4>4 DEF Level
    <3> QED
      BY <3>2, <3>3
  <2>11. CASE /\ request.effect = None /\ request.color = None
              /\ request.color_temp = None /\ request.brightness = None
    BY <2>4, <2>11
  <2> QED
    BY <2>7, <2>8, <2>9, <2>10, <2>11
<1> HIDE DEF Asked
<1>2. BulbSpec => [][Asked]_bulbVars
  BY <1>1, BulbInvariant, PTL DEF BulbSpec
<1> QED
  BY <1>2 DEF AskedIsShown, Asked, Effect, Color, White, Bright
=============================================================================
