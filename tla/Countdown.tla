----------------------------- MODULE Countdown -----------------------------
(***************************************************************************)
(* The countdown of a relay or a bulb, which is to turn it over after some   *)
(* minutes, while the account is listed again and polls and writes go on     *)
(* (pyimouapi/ha_device.py _async_set_count_down_switch_time).               *)
(*                                                                         *)
(* It is one of Rediscovery's writes, of the text that holds the minutes:    *)
(* between its begin and its answer the call reads the relay, takes the      *)
(* direction from what it read, and sends the command, twice if the device   *)
(* sleeps.                                                                   *)
(***************************************************************************)
EXTENDS Rediscovery

CONSTANTS
  Relay,   \* the switch that the countdown turns over, or the bulb
  Minutes, \* the text count_down_switch
  On       \* the state of a relay that is on; any other is off

ASSUME CountdownAssumption ==
  Relay \in Keyed /\ Minutes \in Keyed \ {Relay} /\ On \in Values

VARIABLES
  isBulb, \* the relay is a bulb
  step,   \* per writer: where its countdown is
  same,   \* per writer that reads: the entry it took of the relay is still the
          \* device's
  old,    \* per writer that reads: whether that entry said on when it was replaced
  known,  \* history, per writer: whether its relay was on, as shown when the call
          \* began and as the platform has said until the direction is fixed
  turnOn  \* per writer: the direction of the command
notes == <<isBulb, step, same, old, turnOn>>
cvars == <<notes, known>>

CountdownTypeOK ==
  /\ isBulb \in BOOLEAN
  /\ step \in [Writers -> {"none", "read", "command", "asleep", "again"}]
  /\ same \in [Writers -> BOOLEAN]
  /\ old \in [Writers -> BOOLEAN]
  /\ known \in [Writers -> SUBSET BOOLEAN]
  /\ turnOn \in [Writers -> BOOLEAN]

CountdownInit ==
  /\ Init
  /\ isBulb \in BOOLEAN
  /\ step = [w \in Writers |-> "none"]
  /\ same = [w \in Writers |-> FALSE]
  /\ old = [w \in Writers |-> FALSE]
  /\ known = [w \in Writers |-> {}]
  /\ turnOn = [w \in Writers |-> FALSE]

-----------------------------------------------------------------------------
\* The platform has said v of the entity k, by an answer or a push.
Hear(k, v) ==
  known' = [w \in Writers |->
              IF k = Relay /\ step[w] = "read" THEN known[w] \cup {v = On} ELSE known[w]]

\* The texts that are written otherwise do not include the minutes.
PlainWrite(w, k, v) ==
  /\ k # Minutes
  /\ BeginWrite(w, k, v)
  /\ UNCHANGED cvars

\* Without the relay, or its ref, the call raises at once.
BeginCountdown(w, v) ==
  /\ BeginWrite(w, Minutes, v)
  /\ Relay \in listed
  /\ step' = [step EXCEPT ![w] = "read"]
  /\ same' = [same EXCEPT ![w] = TRUE]
  /\ known' = [known EXCEPT ![w] = {state[Relay] = On}]
  /\ UNCHANGED <<isBulb, old, turnOn>>

\* The relay is looked up again; one that has gone is taken to be off.
Taken_LookedUpAgain(w) == state[Relay] = On

\* What the entry that the call took says.
Taken(w) == IF same[w] THEN state[Relay] = On ELSE old[w]

\* The call lets go of the entry.
LetGo(w) ==
  /\ same' = [same EXCEPT ![w] = FALSE]
  /\ old' = [old EXCEPT ![w] = FALSE]
  /\ UNCHANGED isBulb

\* The direction is fixed: against what the relay is as far as the call knows.
Command(w, on) ==
  /\ step' = [step EXCEPT ![w] = "command"]
  /\ turnOn' = [turnOn EXCEPT ![w] = ~on]
  /\ LetGo(w)

\* The answer goes into the bulb that the call took, or into the entry the
\* switch has now, and is read back from the one that the call took.
RelayAnswered(w, v) ==
  /\ step[w] = "read"
  /\ IF (IF isBulb THEN same[w] ELSE Relay \in present) THEN Store(Relay, v) ELSE Unstored
  /\ Command(w, IF isBulb \/ same[w] THEN v = On ELSE Taken(w))
  /\ Hear(Relay, v)
  /\ UNCHANGED <<listed, present, reading, writing, value, held>>

\* A read that fails, or has no value, is logged: the last known state counts.
RelayUnread(w) ==
  /\ step[w] = "read"
  /\ Command(w, Taken(w))
  /\ UNCHANGED <<vars, known>>

Idle(w) ==
  /\ step' = [step EXCEPT ![w] = "none"]
  /\ turnOn' = [turnOn EXCEPT ![w] = FALSE]
  /\ LetGo(w)

\* The call is over, and with it what it knew.
Forget(w) == known' = [known EXCEPT ![w] = {}]

\* The device is asleep: the same command is to be sent once more.
CommandAsleep(w) ==
  /\ step[w] = "command"
  /\ step' = [step EXCEPT ![w] = "asleep"]
  /\ UNCHANGED <<vars, isBulb, same, old, known, turnOn>>

CommandAgain(w) ==
  /\ step[w] = "asleep"
  /\ step' = [step EXCEPT ![w] = "again"]
  /\ UNCHANGED <<vars, isBulb, same, old, known, turnOn>>

\* The command is accepted, or the plain write is, perhaps one of the relay.
Accepted(w) ==
  /\ step[w] \in {"none", "command", "again"}
  /\ WriteAnswered(w)
  /\ Idle(w)
  /\ IF step[w] = "none" THEN Hear(writing[w], value[w]) ELSE Forget(w)

\* Refused credentials end the call at the read too; cancellation anywhere.
Failed(w) == WriteFails(w) /\ Idle(w) /\ Forget(w)

\* A bulb that stays keeps its object; every entry that stays is replaced.
ReplaceEntries(fresh) ==
  LET stays == isBulb /\ Relay \in fresh IN
  /\ Replace(fresh)
  /\ same' = [w \in Writers |-> same[w] /\ stays]
  /\ old' = [w \in Writers |-> IF same[w] /\ ~stays THEN state[Relay] = On ELSE old[w]]
  /\ UNCHANGED <<isBulb, step, known, turnOn>>

-----------------------------------------------------------------------------
CountdownNext ==
  \/ \E r \in Readers :
       \/ UNCHANGED cvars /\ (ReadFails(r) \/ \E k \in Keys : BeginRead(r, k))
       \/ \E v \in Values :
            ReadAnswered(r, v) /\ Hear(reading[r], v) /\ UNCHANGED notes
  \/ \E w \in Writers :
       \/ \E k \in Keys, v \in Values : PlainWrite(w, k, v)
       \/ \E v \in Values : BeginCountdown(w, v) \/ RelayAnswered(w, v)
       \/ RelayUnread(w) \/ CommandAsleep(w) \/ CommandAgain(w)
       \/ Accepted(w) \/ Failed(w)
  \/ \E k \in Keys, v \in Values :
       ApplyProperty(k, v) /\ Hear(k, v) /\ UNCHANGED notes
  \/ \E fresh \in Listings : ReplaceEntries(fresh)

CountdownSpec == CountdownInit /\ [][CountdownNext]_<<vars, cvars>>

CountdownFairSpec ==
  /\ CountdownSpec
  /\ \A r \in Readers : WF_<<vars, cvars>>(ReadFails(r) /\ UNCHANGED cvars)
  /\ WF_<<vars, cvars>>(\E fresh \in Listings : ReplaceEntries(fresh))

-----------------------------------------------------------------------------
\* Whatever a rediscovery does to the relay's entry while the call reads it, and
\* whether that read fails or not, the countdown turns over a state that the relay
\* showed when the call began or that the platform has said of it since: never
\* one left over from before, nor the default of an entry that was made anew (the
\* direction is to depend on whether lamp or relay is on or off now,
\* ha_device.py:2096).
CountdownTurnsOver ==
  \A w \in Writers :
    step[w] \in {"command", "asleep", "again"} => (~turnOn[w]) \in known[w]
=============================================================================
