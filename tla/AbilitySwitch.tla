---------------------------- MODULE AbilitySwitch ----------------------------
(***************************************************************************)
(* A switch of a device without a product id, backed by abilities that a    *)
(* poll reads side by side and combines (pyimouapi/ha_device.py 1013-1046,  *)
(* 1366-1410, 1443-1472).                                                   *)
(*                                                                         *)
(* In the tables of const.py motion_detect has several abilities, written   *)
(* by one request for the alarm; every other switch has one ability, read   *)
(* and written under its own name.  So a switch is written by one request,  *)
(* and of several writes that are gathered none can fail alone.  A write    *)
(* has the retry for a sleeping device.                                     *)
(***************************************************************************)
EXTENDS Naturals

CONSTANTS
  Abilities,   \* the function types of motion_detect
  Alarm,       \* the request that writes it
  Pollers, Writers,
  MaxWrites,   \* bound: calls that users make
  MaxChanges   \* bound: abilities changed on the device or in the app

ASSUME BoundsAssumption ==
  /\ Abilities # {} /\ Alarm \notin Abilities /\ MaxWrites \in Nat /\ MaxChanges \in Nat

VARIABLES
  backing,    \* the abilities behind the switch
  parts,      \* the requests that write it
  enabled,    \* device: the abilities that are on
  healthy,    \* the platform answers every request
  sleeping,   \* the status sensor says the device sleeps: read when a write
              \* has failed, stored by polls and pushes
  state,      \* PARAM_STATE of the switch
  got,        \* per poller and ability: the read
  wasOn, wasOff,  \* history: abilities seen on, off since the poll began
  target,     \* per writer: enable
  sent,       \* per writer and request: the write
  taken,      \* history: requests of this call that the device took
  result,     \* history: how the writer's last call ended
  writes, changes
table == <<backing, parts>>
readVars  == <<got, wasOn, wasOff>>
writeVars == <<target, sent, taken, result, writes>>
vars == <<table, enabled, healthy, sleeping, state, readVars, writeVars, changes>>

AnyOn == enabled # {}
NoRead  == [a \in backing |-> "idle"]
NoWrite == [a \in parts |-> "idle"]

TypeOK ==
  /\ backing \subseteq Abilities /\ parts \subseteq Abilities \cup {Alarm}
  /\ enabled \subseteq backing /\ healthy \in BOOLEAN /\ sleeping \in BOOLEAN
  /\ state \in BOOLEAN
  /\ got \in [Pollers -> [backing -> {"idle", "asked", "on", "off", "failed", "refused"}]]
  /\ wasOn \in [Pollers -> SUBSET backing] /\ wasOff \in [Pollers -> SUBSET backing]
  /\ target \in [Writers -> BOOLEAN]
  /\ sent \in [Writers -> [parts -> {"idle", "first", "waiting", "second", "ok", "failed"}]]
  /\ taken \in [Writers -> SUBSET parts]
  /\ result \in [Writers -> {"none", "ok", "failed"}]
  /\ writes \in 0..MaxWrites /\ changes \in 0..MaxChanges

Init ==
  /\ \/ backing = Abilities /\ parts = {Alarm}
     \/ \E a \in Abilities : backing = {a} /\ parts = {a}
  /\ enabled \in SUBSET backing /\ healthy = TRUE /\ sleeping \in BOOLEAN
  /\ state = FALSE
  /\ got = [p \in Pollers |-> NoRead]
  /\ wasOn = [p \in Pollers |-> {}] /\ wasOff = wasOn
  /\ target = [w \in Writers |-> FALSE]
  /\ sent = [w \in Writers |-> NoWrite]
  /\ taken = [w \in Writers |-> {}]
  /\ result = [w \in Writers |-> "none"]
  /\ writes = 0 /\ changes = 0

\* What polls under way see of the device when it becomes now.
Watch(now) ==
  /\ enabled' = now
  /\ wasOn'  = [p \in Pollers |-> IF got[p] = NoRead THEN {} ELSE wasOn[p] \cup now]
  /\ wasOff' = [p \in Pollers |-> IF got[p] = NoRead THEN {} ELSE wasOff[p] \cup (backing \ now)]
  /\ UNCHANGED <<table, got>>

-----------------------------------------------------------------------------
(* Reads. *)

BeginRead(p) ==
  /\ got[p] = NoRead
  /\ got' = [got EXCEPT ![p] = [a \in backing |-> "asked"]]
  /\ wasOn' = [wasOn EXCEPT ![p] = enabled]
  /\ wasOff' = [wasOff EXCEPT ![p] = backing \ enabled]
  /\ UNCHANGED <<table, enabled, healthy, sleeping, state, writeVars, changes>>

\* One ability's answer; a failure is logged and counts as no answer.
ReadAnswered(p, a) ==
  /\ got[p][a] = "asked"
  /\ \E answer \in {IF a \in enabled THEN "on" ELSE "off"}
                   \cup IF healthy THEN {} ELSE {"failed", "refused"} :
       got' = [got EXCEPT ![p][a] = answer]
  /\ UNCHANGED <<table, enabled, healthy, sleeping, state, wasOn, wasOff, writeVars, changes>>

EndRead(p) ==
  /\ \A a \in backing : got[p][a] \notin {"idle", "asked"}
  /\ got' = [got EXCEPT ![p] = NoRead]
  /\ wasOn' = [wasOn EXCEPT ![p] = {}] /\ wasOff' = [wasOff EXCEPT ![p] = {}]
  /\ UNCHANGED <<table, enabled, healthy, sleeping, writeVars, changes>>

Some(p, answer) == \E a \in backing : got[p][a] = answer

\* Whoever did not say on is off.
ReadsGathered_FailedIsOff(p) ==
  /\ EndRead(p)
  /\ state' = IF Some(p, "refused") THEN state ELSE Some(p, "on")

\* Nothing but a user's write turns the switch off.
ReadsGathered_KeepsOn(p) ==
  /\ EndRead(p)
  /\ state' = IF Some(p, "refused") THEN state ELSE state \/ Some(p, "on")

\* All answers are in.  A refusal is raised.  One ability that is on makes the
\* switch on; off takes an answer of each.
ReadsGathered(p) ==
  /\ EndRead(p)
  /\ state' = IF Some(p, "refused") THEN state
              ELSE IF Some(p, "on") THEN TRUE
              ELSE IF Some(p, "failed") THEN state
              ELSE FALSE

-----------------------------------------------------------------------------
(* Writes. *)

BeginWrite(w, enable) ==
  /\ sent[w] = NoWrite /\ writes < MaxWrites
  /\ sent' = [sent EXCEPT ![w] = [a \in parts |-> "first"]]
  /\ target' = [target EXCEPT ![w] = enable]
  /\ result' = [result EXCEPT ![w] = "none"]
  /\ writes' = writes + 1
  /\ UNCHANGED <<table, enabled, healthy, sleeping, state, readVars, taken, changes>>

\* What the request leaves on: its ability, or whatever the alarm stands for.
Outcome(a, enable) ==
  CASE a # Alarm          -> {IF enable THEN enabled \cup {a} ELSE enabled \ {a}}
    [] a = Alarm /\ enable -> SUBSET backing \ {{}}
    [] OTHER              -> {{}}

\* The device takes the value; the answer may still be lost.
WriteServed(w, a) ==
  /\ sent[w][a] \in {"first", "second"}
  /\ \E now \in Outcome(a, target[w]) : Watch(now)
  /\ \E how \in {"ok"} \cup IF healthy THEN {} ELSE {"failed"} :
       sent' = [sent EXCEPT ![w][a] = how]
  /\ taken' = [taken EXCEPT ![w] = @ \cup {a}]
  /\ UNCHANGED <<healthy, sleeping, state, target, result, writes, changes>>

\* The device does not take it.  A device that is said to sleep gets a second
\* chance when the error may clear.
WriteRejected(w, a) ==
  /\ sent[w][a] \in {"first", "second"} /\ ~healthy
  /\ \E how \in {"failed"} \cup IF sleeping /\ sent[w][a] = "first" THEN {"waiting"} ELSE {} :
       sent' = [sent EXCEPT ![w][a] = how]
  /\ UNCHANGED <<table, enabled, healthy, sleeping, state, readVars, target, taken, result,
                 writes, changes>>

RetryWrite(w, a) ==
  /\ sent[w][a] = "waiting"
  /\ sent' = [sent EXCEPT ![w][a] = "second"]
  /\ UNCHANGED <<table, enabled, healthy, sleeping, state, readVars, target, taken, result,
                 writes, changes>>

EndWrite(w) ==
  /\ \A a \in parts : sent[w][a] \in {"ok", "failed"}
  /\ sent' = [sent EXCEPT ![w] = NoWrite]
  /\ taken' = [taken EXCEPT ![w] = {}]
  /\ UNCHANGED <<table, enabled, healthy, sleeping, readVars, target, writes, changes>>

\* The switch flips whatever came back.
WritesGathered_Flip(w) ==
  /\ EndWrite(w)
  /\ state' = target[w]
  /\ result' = [result EXCEPT ![w] =
       IF \A a \in parts : sent[w][a] = "failed" THEN "failed" ELSE "ok"]

\* No failure is reported.
WritesGathered_NeverFails(w) ==
  /\ EndWrite(w)
  /\ state' = target[w]
  /\ result' = [result EXCEPT ![w] = "ok"]

\* Every write has ended: the call fails when all of them failed.
WritesGathered(w) ==
  /\ EndWrite(w)
  /\ IF \A a \in parts : sent[w][a] = "failed"
       THEN result' = [result EXCEPT ![w] = "failed"] /\ UNCHANGED state
       ELSE result' = [result EXCEPT ![w] = "ok"] /\ state' = target[w]

-----------------------------------------------------------------------------
(* The device and the platform (external). *)

DeviceChanges(a) ==
  /\ changes < MaxChanges /\ changes' = changes + 1
  /\ Watch(IF a \in enabled THEN enabled \ {a} ELSE enabled \cup {a})
  /\ UNCHANGED <<healthy, sleeping, state, writeVars>>

HealthChanges ==
  /\ healthy' = ~healthy
  /\ UNCHANGED <<table, enabled, sleeping, state, readVars, writeVars, changes>>

\* A poll or a push of the status.
StatusChanges ==
  /\ sleeping' = ~sleeping
  /\ UNCHANGED <<table, enabled, healthy, state, readVars, writeVars, changes>>

Next ==
  \/ \E p \in Pollers :
       BeginRead(p) \/ ReadsGathered(p) \/ \E a \in backing : ReadAnswered(p, a)
  \/ \E w \in Writers :
       \/ \E enable \in BOOLEAN : BeginWrite(w, enable)
       \/ \E a \in parts : WriteServed(w, a) \/ WriteRejected(w, a) \/ RetryWrite(w, a)
       \/ WritesGathered(w)
  \/ \E a \in backing : DeviceChanges(a)
  \/ HealthChanges \/ StatusChanges

Spec == Init /\ [][Next]_vars

\* Requests end, a wait of some seconds ends, and the coordinator polls for ever.
Fairness ==
  /\ \A p \in Pollers :
       /\ WF_vars(BeginRead(p)) /\ WF_vars(ReadsGathered(p))
       /\ \A a \in Abilities : WF_vars(a \in backing /\ ReadAnswered(p, a))
  /\ \A w \in Writers :
       /\ WF_vars(WritesGathered(w))
       /\ \A a \in Abilities \cup {Alarm} :
            /\ WF_vars(a \in parts /\ (WriteServed(w, a) \/ WriteRejected(w, a)))
            /\ WF_vars(a \in parts /\ RetryWrite(w, a))

FairSpec == Spec /\ Fairness

-----------------------------------------------------------------------------
(* Safety. *)

\* What a poll makes of the switch was true at some time since the poll began,
\* whatever failed and whoever wrote meanwhile: off, every ability behind it has
\* been off (ha_device.py:1041 "A failed read must not flip an on switch off");
\* on, one of them has been on.
PollShowsWhatWas ==
  [][\A p \in Pollers : ReadsGathered(p) /\ state' # state =>
       IF state' THEN wasOn[p] # {} ELSE wasOff[p] = backing]_vars

\* A write that reports success was taken by the device, in its first or its
\* second attempt (ha_device.py:1406 "Nothing got through, so the device never
\* took the new state").
SuccessWasTaken ==
  [][\A w \in Writers : sent[w] # NoWrite /\ result'[w] = "ok" => taken[w] # {}]_vars

\* A write that reports failure does not flip the switch.
FailureFlipsNothing ==
  [][\A w \in Writers : sent[w] # NoWrite /\ result'[w] = "failed" => state' = state]_vars

(* Liveness. *)

\* Once users and device have come to rest and the platform answers, the switch
\* shows whether any ability is on.
Converges == <>[]healthy => <>[](state = AnyOn)
=============================================================================
