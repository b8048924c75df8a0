---------------------------- MODULE PropertySync ----------------------------
(***************************************************************************)
(* One thing-model property of one Home Assistant device, kept both in the *)
(* cloud and in ImouHaDevice: user writes (switch, select, text, alarm     *)
(* mode or bulb, with the sleeping-device retry), polls and pushes reach   *)
(* the local copy in any order (pyimouapi/ha_device.py, dormant_retry.py). *)
(*                                                                         *)
(* Every request is two steps, the platform serving it and the coroutine   *)
(* reading the answer, so an answer can be old by the time it is used.     *)
(* The cloud keeps a value per level: the channel's and the device's own.  *)
(* It keeps the vendor's value, the device object the option that names it.*)
(***************************************************************************)
EXTENDS Naturals, OptionKeys

CONSTANTS
  Writers,     \* coroutines of user-initiated writes
  Pollers,     \* coroutines of status updates
  NoValue,
  ChannelIds,  \* the kinds of channel id a device may have, see Init
  KindOf,      \* the kind of the property looked at, per kind of channel id
  ValuesOf,    \* the vendor's values of a property, per kind
  MaxWrites,   \* bound, per kind of channel id: calls that users make
  MaxChanges   \* bound, likewise: changes made on the device itself or in the app

\* The options of all kinds.
AnyOption == UNION {{ToFriendly(k, v) : v \in ValuesOf[k]} : k \in Kinds}

ASSUME BoundsAssumption ==
  /\ MaxWrites \in [ChannelIds -> Nat] /\ MaxChanges \in [ChannelIds -> Nat]
  /\ ChannelIds \subseteq {"0", "other", "none"}
  /\ KindOf \in [ChannelIds -> Kinds] /\ DOMAIN ValuesOf = Kinds
  /\ NoValue \notin AnyOption /\ \A k \in Kinds : "none" \notin ValuesOf[k]

\* What a write of one of the options stores is one of the vendor's values.
ASSUME RawAssumption ==
  \A k \in Kinds : \A v \in ValuesOf[k] :
    IsOption(k, ToFriendly(k, v)) => ToRaw(k, ToFriendly(k, v)) \in ValuesOf[k]

VARIABLES
  channelId,   \* device.channel_id: "0", "other" or "none"
  readLevel,   \* where _lookup_property finds the property
  cloud,       \* value the platform holds at each level
  mode,        \* what the device is really doing
  local,       \* the entity's PARAM_STATE or PARAM_CURRENT_OPTION
  status,      \* the status sensor of the device
  wpc, value, attempt, answer,  \* per writer
  acked,       \* history: levels where the call's value was stored and
               \* reads back as the option it stands for
  result,      \* history: how the writer's last call ended
  ppc, seen,   \* per poller
  pushes,      \* iotProperty pushes under way
  writes, changes               \* counters of the bounds

deviceVars == <<channelId, readLevel>>
cloudVars  == <<cloud, mode, pushes, changes>>
writerVars == <<wpc, value, attempt, answer, acked, result, writes>>
pollVars   == <<ppc, seen>>
vars == <<deviceVars, cloudVars, local, status, writerVars, pollVars>>

Levels == {"channel", "device"}
Modes  == {"online", "sleep", "offline"}
InFlight == {"first", "second"}

Kind == KindOf[channelId]
Values == ValuesOf[Kind]

\* The options that users choose from.
Options == {ToFriendly(Kind, v) : v \in Values}

\* The value a read of the property returns.
Shown == cloud[readLevel]

\* Levels one write has to reach.
Targets == CASE channelId = "0"     -> Levels
             [] channelId = "other" -> {"channel"}
             [] channelId = "none"  -> {"device"}

TypeOK ==
  /\ channelId \in ChannelIds /\ readLevel \in Levels
  /\ cloud \in [Levels -> Values] /\ mode \in Modes
  /\ local \in Options /\ status \in Modes
  /\ wpc \in [Writers -> {"idle", "waiting"} \cup InFlight]
  /\ value \in [Writers -> Options \cup {NoValue}]
  /\ attempt \in [Writers -> 0..2]
  /\ answer \in [Writers -> {"none", "ok", "asleep", "refused"}]
  /\ acked \in [Writers -> SUBSET Levels]
  /\ result \in [Writers -> {"none", "ok", "failed"}]
  /\ ppc \in [Pollers -> {"idle", "online", "detail"}]
  /\ seen \in [Pollers -> {"none"} \cup Modes \cup Values]
  /\ pushes \subseteq Values
  /\ writes \in 0..MaxWrites[channelId] /\ changes \in 0..MaxChanges[channelId]

Init ==
  /\ channelId \in ChannelIds /\ readLevel \in Levels
  /\ channelId = "other" => readLevel = "channel"
  /\ channelId = "none"  => readLevel = "device"
  /\ \E v \in Values : cloud = [l \in Levels |-> v]
  /\ local \in Options   \* the table's default, whatever the cloud has
  /\ mode = "online" /\ status = "online"
  /\ wpc = [w \in Writers |-> "idle"]
  /\ value = [w \in Writers |-> NoValue]
  /\ attempt = [w \in Writers |-> 0]
  /\ answer = [w \in Writers |-> "none"]
  /\ acked = [w \in Writers |-> {}]
  /\ result = [w \in Writers |-> "none"]
  /\ ppc = [p \in Pollers |-> "idle"]
  /\ seen = [p \in Pollers |-> "none"]
  /\ pushes = {}
  /\ writes = 0 /\ changes = 0

-----------------------------------------------------------------------------
(* Writes. *)

\* The level the request under way addresses.
Addressed(w) ==
  IF wpc[w] = "second" \/ channelId = "none" THEN "device" ELSE "channel"

\* A user chooses v; the first request of _async_write_iot_properties goes out.
\* What is no option of the kind raises before that.
BeginWrite(w, v) ==
  /\ wpc[w] = "idle" /\ writes < MaxWrites[channelId]
  /\ IsOption(Kind, v)
  /\ wpc' = [wpc EXCEPT ![w] = "first"]
  /\ value' = [value EXCEPT ![w] = v]
  /\ attempt' = [attempt EXCEPT ![w] = 1]
  /\ result' = [result EXCEPT ![w] = "none"]
  /\ writes' = writes + 1
  /\ UNCHANGED <<deviceVars, cloudVars, local, status, pollVars, answer, acked>>

\* The call returns or raises.
EndWrite(w, how) ==
  /\ wpc' = [wpc EXCEPT ![w] = "idle"]
  /\ value' = [value EXCEPT ![w] = NoValue]
  /\ attempt' = [attempt EXCEPT ![w] = 0]
  /\ answer' = [answer EXCEPT ![w] = "none"]
  /\ acked' = [acked EXCEPT ![w] = {}]
  /\ result' = [result EXCEPT ![w] = how]
  /\ UNCHANGED writes

\* The next request of the call goes out.
SendNext(w, position) ==
  /\ wpc' = [wpc EXCEPT ![w] = position]
  /\ answer' = [answer EXCEPT ![w] = "none"]
  /\ UNCHANGED <<value, acked, result, writes>>

\* A request succeeded: send the device-level one when the channel is "0", and
\* after the last one set local state and return.
WriteAnswered(w) ==
  /\ wpc[w] \in InFlight /\ answer[w] = "ok"
  /\ IF wpc[w] = "first" /\ channelId = "0"
       THEN SendNext(w, "second") /\ UNCHANGED <<local, attempt>>
       ELSE local' = value[w] /\ EndWrite(w, "ok")
  /\ UNCHANGED <<deviceVars, cloudVars, status, pollVars>>

\* RequestFailedException for which the operation is worth another try: the
\* device sleeps as far as we know and the code may clear.
Retryable(w) == status = "sleep" /\ answer[w] = "asleep"

\* The first attempt waits and tries again when that is worth it; the second
\* one runs outside the try and raises whatever it meets.
WriteRefused(w) ==
  /\ wpc[w] \in InFlight /\ answer[w] \in {"asleep", "refused"}
  /\ IF attempt[w] = 1 /\ Retryable(w)
       THEN /\ wpc' = [wpc EXCEPT ![w] = "waiting"]
            /\ UNCHANGED <<value, attempt, answer, acked, result, writes>>
       ELSE EndWrite(w, "failed")
  /\ UNCHANGED <<deviceVars, cloudVars, local, status, pollVars>>

\* The retry resumes with the device-level call.
RetryWrite_SecondOnly(w) ==
  /\ wpc[w] = "waiting"
  /\ SendNext(w, IF channelId = "0" THEN "second" ELSE "first")
  /\ attempt' = [attempt EXCEPT ![w] = 2]
  /\ UNCHANGED <<deviceVars, cloudVars, local, status, pollVars>>

\* The wait is over; the whole operation starts again.
RetryWrite(w) ==
  /\ wpc[w] = "waiting"
  /\ SendNext(w, "first")
  /\ attempt' = [attempt EXCEPT ![w] = 2]
  /\ UNCHANGED <<deviceVars, cloudVars, local, status, pollVars>>

\* The user interface is updated before the outcome is known.
WriteAborted_Optimistic(w) ==
  /\ wpc[w] # "idle"
  /\ local' = value[w]
  /\ EndWrite(w, "failed")
  /\ UNCHANGED <<deviceVars, cloudVars, status, pollVars>>

\* No answer in time, a connection error or a cancellation, at any moment.  The
\* request may or may not have been served.
WriteAborted(w) ==
  /\ wpc[w] # "idle"
  /\ EndWrite(w, "failed")
  /\ UNCHANGED <<deviceVars, cloudVars, local, status, pollVars>>

-----------------------------------------------------------------------------
(* Polls: _async_update_device_group for one device. *)

BeginPoll(p) ==
  /\ ppc[p] = "idle"
  /\ ppc' = [ppc EXCEPT ![p] = "online"]
  /\ seen' = [seen EXCEPT ![p] = "none"]
  /\ UNCHANGED <<deviceVars, cloudVars, local, status, writerVars>>

EndPoll(p) ==
  /\ ppc' = [ppc EXCEPT ![p] = "idle"]
  /\ seen' = [seen EXCEPT ![p] = "none"]

\* The status is stored; the detail is read unless the device is offline or
\* the caller skips it because pushes cover it.
OnlineAnswered(p, skip) ==
  /\ ppc[p] = "online" /\ seen[p] # "none"
  /\ status' = seen[p]
  /\ IF seen[p] = "offline" \/ skip
       THEN EndPoll(p)
       ELSE /\ ppc' = [ppc EXCEPT ![p] = "detail"]
            /\ seen' = [seen EXCEPT ![p] = "none"]
  /\ UNCHANGED <<deviceVars, cloudVars, local, writerVars>>

\* A poll that trusts what is there already.
DetailAnswered_KeepLocal(p) ==
  /\ ppc[p] = "detail" /\ seen[p] # "none"
  /\ EndPoll(p)
  /\ UNCHANGED <<deviceVars, cloudVars, local, status, writerVars>>

\* The property of the answer is applied.
DetailAnswered(p) ==
  /\ ppc[p] = "detail" /\ seen[p] # "none"
  /\ local' = ToFriendly(Kind, seen[p])
  /\ EndPoll(p)
  /\ UNCHANGED <<deviceVars, cloudVars, status, writerVars>>

\* A read fails; whatever was read before stays applied.
PollFails(p) ==
  /\ ppc[p] # "idle"
  /\ EndPoll(p)
  /\ UNCHANGED <<deviceVars, cloudVars, local, status, writerVars>>

\* apply_iot_property_values of a push, whenever it comes.
ApplyPush(v) ==
  /\ v \in pushes
  /\ pushes' = pushes \ {v}
  /\ local' = ToFriendly(Kind, v)
  /\ UNCHANGED <<deviceVars, cloud, mode, changes, status, writerVars, pollVars>>

-----------------------------------------------------------------------------
(* The platform and the device (external). *)

\* A change may or may not be pushed.
MayPush(v) == pushes' \in {pushes, pushes \cup {v}}

ServeWrite(w) ==
  /\ wpc[w] \in InFlight /\ answer[w] = "none"
  /\ \/ /\ mode # "offline"
        /\ cloud' = [cloud EXCEPT ![Addressed(w)] = ToRaw(Kind, value[w])]
        /\ MayPush(ToRaw(Kind, value[w]))
        /\ answer' = [answer EXCEPT ![w] = "ok"]
        /\ acked' = [acked EXCEPT ![w] =
             @ \cup {l \in {Addressed(w)} : ToFriendly(Kind, cloud'[l]) = value[w]}]
     \/ /\ mode # "online"
        /\ answer' = [answer EXCEPT ![w] = "asleep"]
        /\ UNCHANGED <<cloud, pushes, acked>>
     \/ /\ answer' = [answer EXCEPT ![w] = "refused"]
        /\ UNCHANGED <<cloud, pushes, acked>>
  /\ UNCHANGED <<deviceVars, mode, changes, local, status, wpc, value, attempt,
                 result, writes, pollVars>>

ServeOnline(p) ==
  /\ ppc[p] = "online" /\ seen[p] = "none"
  /\ seen' = [seen EXCEPT ![p] = mode]
  /\ UNCHANGED <<deviceVars, cloudVars, local, status, writerVars, ppc>>

ServeDetail(p) ==
  /\ ppc[p] = "detail" /\ seen[p] = "none"
  /\ seen' = [seen EXCEPT ![p] = Shown]
  /\ UNCHANGED <<deviceVars, cloudVars, local, status, writerVars, ppc>>

\* Somebody uses the device or the vendor's app.
DeviceChanges(v) ==
  /\ changes < MaxChanges[channelId]
  /\ changes' = changes + 1
  /\ cloud' = [l \in Levels |-> v]
  /\ MayPush(v)
  /\ UNCHANGED <<deviceVars, mode, local, status, writerVars, pollVars>>

\* The device falls asleep, wakes, drops off or comes back.
ModeChanges(m) ==
  /\ mode # m
  /\ mode' = m
  /\ UNCHANGED <<deviceVars, cloud, pushes, changes, local, status, writerVars, pollVars>>

-----------------------------------------------------------------------------
Next ==
  \/ \E w \in Writers :
       \/ \E v \in Options : BeginWrite(w, v)
       \/ ServeWrite(w) \/ WriteAnswered(w) \/ WriteRefused(w)
       \/ RetryWrite(w) \/ WriteAborted(w)
  \/ \E p \in Pollers :
       \/ BeginPoll(p) \/ ServeOnline(p)
       \/ \E skip \in BOOLEAN : OnlineAnswered(p, skip)
       \/ ServeDetail(p) \/ DetailAnswered(p) \/ PollFails(p)
  \/ \E v \in Values : ApplyPush(v) \/ DeviceChanges(v)
  \/ \E m \in Modes : ModeChanges(m)

Spec == Init /\ [][Next]_vars

\* Requests are answered or end at their deadline and a wait of some seconds
\* ends; the coordinator polls for ever, reads the detail again and again (a
\* caller that always skips it relies on pushes alone) and is answered
\* sometimes; a push under way is delivered.
Fairness ==
  /\ \A w \in Writers :
       /\ WF_vars(ServeWrite(w))
       /\ WF_vars(WriteAnswered(w) \/ WriteRefused(w))
       /\ WF_vars(RetryWrite(w))
  /\ \A p \in Pollers :
       /\ WF_vars(BeginPoll(p)) /\ SF_vars(ServeOnline(p))
       /\ SF_vars(OnlineAnswered(p, FALSE))
       /\ SF_vars(ServeDetail(p))
       /\ SF_vars(DetailAnswered(p))
  /\ \A k \in Kinds : \A v \in ValuesOf[k] : WF_vars(ApplyPush(v))

FairSpec == Spec /\ Fairness

-----------------------------------------------------------------------------
(* Safety. *)

\* A write that reports success has stored its value at every level it has to,
\* and as one that a poll reads as the option that was chosen, also when it took
\* a retry and the device fell asleep between the two calls
\* (ha_device.py:580 "Local state is updated only after both calls succeed").
SuccessReachedEveryLevel ==
  [][\A w \in Writers : wpc[w] # "idle" /\ result'[w] = "ok"
       => Targets \subseteq acked[w]]_vars

\* A write that fails, at either call, in either attempt or in between, leaves
\* the local value to the polls and pushes.
FailureLeavesLocalAlone ==
  [][\A w \in Writers : wpc[w] # "idle" /\ result'[w] = "failed" => local' = local]_vars

(* Refinement. *)

\* The answers and pushes that have the property and are not applied yet.
Underway ==
  {ToFriendly(Kind, v) : v \in pushes}
    \cup {ToFriendly(Kind, seen[p]) : p \in {q \in Pollers : ppc[q] = "detail" /\ seen[q] # "none"}}

\* Local copy, writes, polls and pushes are those of a Mirror of the options.
Copy == INSTANCE Mirror WITH
  Places <- Levels,
  Values <- AnyOption,
  remote <- [l \in Levels |-> ToFriendly(Kind, cloud[l])],
  targets <- Targets,
  source <- readLevel,
  shown <- local,
  underway <- Underway,
  asked <- value,
  reached <- acked

\* The option that is shown is one that a write left at every level it has to
\* reach, or one that was the cloud's when a read or a push of it set out,
\* whatever was asleep, refused, retried or late (ha_device.py:580 "Local state
\* is updated only after both calls succeed").
LocalIsMirror == Copy!SafeSpec

(* Liveness. *)

\* Whatever old answers and late pushes were applied on the way, once users and
\* device have come to rest and the device stays reachable, the local value
\* ends up equal to the cloud's and stays so.
Converges == <>[](mode # "offline") =>
  <>[](local = ToFriendly(Kind, Shown))
=============================================================================
