------------------------------- MODULE Mirror -------------------------------
(***************************************************************************)
(* What the local copy of a value that lives in the cloud promises those    *)
(* who look at it and write through it.  The copy takes a value in two      *)
(* ways only: the end of a write that has reached every place it has to, or *)
(* a reading or notice that was true of the cloud when it set out, however  *)
(* late it is; to begin with it may be anything.  Promised by PropertySync, *)
(* which adds requests, retries, refusals and the device's sleep.  That the *)
(* copy ends up right is Converges of PropertySync.                         *)
(***************************************************************************)
CONSTANTS Places, Values, Writers, NoValue

VARIABLES
  remote,    \* the value at each place
  targets,   \* the places a write has to reach
  source,    \* the place that is read
  shown,     \* the copy
  underway,  \* the values of readings and notices that are not applied yet
  asked,     \* per writer: what it is writing
  reached    \* per writer: the places that have it

vars == <<asked, reached, shown, source, targets, remote, underway>>

Init ==
  /\ targets \subseteq Places /\ source \in Places
  /\ shown \in Values /\ \E v \in Values : remote = [p \in Places |-> v]
  /\ underway = {}
  /\ asked = [w \in Writers |-> NoValue]
  /\ reached = [w \in Writers |-> {}]

Ask(w, v) ==
  /\ asked[w] = NoValue
  /\ asked' = [asked EXCEPT ![w] = v]
  /\ UNCHANGED <<remote, targets, source, shown, underway, reached>>

\* A change may or may not be told.
Told(v) == underway' \in {underway, underway \cup {v}}

Reach(w, p) ==
  /\ asked[w] # NoValue
  /\ reached' = [reached EXCEPT ![w] = @ \cup {p}]
  /\ UNCHANGED <<asked, shown, source, targets>>
  /\ remote' = [remote EXCEPT ![p] = asked[w]]
  /\ Told(asked[w])

\* The write is over.
Stop(w) ==
  /\ asked[w] # NoValue
  /\ asked' = [asked EXCEPT ![w] = NoValue]
  /\ reached' = [reached EXCEPT ![w] = {}]
  /\ UNCHANGED <<remote, targets, source, underway>>

Succeed(w) == targets \subseteq reached[w] /\ shown' = asked[w] /\ Stop(w)
GiveUp(w) == UNCHANGED shown /\ Stop(w)

\* Somebody else changes the value, everywhere.
Change ==
  /\ UNCHANGED <<asked, reached, shown, source, targets>>
  /\ \E v \in Values : remote' = [p \in Places |-> v] /\ Told(v)

Read ==
  /\ UNCHANGED <<asked, reached, shown, source, targets, remote>>
  /\ underway' = underway \cup {remote[source]}

\* Another one of the same value may still be under way.
Apply ==
  /\ UNCHANGED <<asked, reached, source, targets, remote>>
  /\ shown' \in underway
  /\ underway' \in {underway, underway \ {shown'}}

Lose ==
  /\ UNCHANGED <<asked, reached, shown, source, targets, remote>>
  /\ underway' \subseteq underway

Next ==
  \/ Lose \/ Read \/ Apply
  \/ \E w \in Writers :
       \/ \E v \in Values : Ask(w, v)
       \/ \E p \in Places : Reach(w, p)
       \/ Succeed(w) \/ GiveUp(w)
  \/ Change

SafeSpec == Init /\ [][Next]_vars
=============================================================================
