---------------------------- MODULE AccountPoll ----------------------------
(***************************************************************************)
(* A poll: async_update_devices_status over a whole account, or             *)
(* async_update_device_status for one device (pyimouapi/ha_device.py        *)
(* 798-1011). The devices of one physical device form a group, which reads  *)
(* the online status, then the detail, then entity by entity; the groups    *)
(* run side by side and gather() waits for all of them.                     *)
(*                                                                         *)
(* A request ends "ok", "failed" or "refused" (InvalidAppIdOrSecret); what  *)
(* stands behind that is OpenApiClient.                                     *)
(***************************************************************************)
EXTENDS FiniteSets

CONSTANTS
  Devices,   \* Home Assistant devices, i.e. the channels
  Groups,    \* physical devices: the ids of _resolve_device_id
  GroupOf,   \* the group of each device
  Iot        \* devices with a product id, all of a group or none

ASSUME GroupsAssumption == GroupOf \in [Devices -> Groups] /\ Iot \subseteq Devices

VARIABLES
  kind,      \* "idle", or the poll that runs: "account" or "single"
  asked,     \* devices the caller wants updated
  skip,      \* groups whose properties come by push
  gpc,       \* per group: where it is
  outcome,   \* per group: how it ended
  status,    \* per device: the online sensor, "up" standing for all but offline
  pending,   \* devices whose entity reads are under way
  refusing,  \* groups with a refused entity read
  fetched,   \* groups whose detail this poll has applied
  answered,  \* history: groups whose detail the platform gave this poll
  read,      \* history: devices whose entity reads this poll has made
  refusal,   \* history: a request of this poll was refused
  result,    \* how the last poll ended
  returned   \* the set the last poll returned
pollVars == <<kind, asked, skip>>
vars == <<pollVars, gpc, outcome, status, pending, refusing, fetched, answered, read, refusal,
          result, returned>>

\* The devices of g that the poll is to update.
Members(g) == {d \in asked : GroupOf[d] = g}
AskedGroups == {GroupOf[d] : d \in asked}
Online(g) == {d \in Members(g) : status[d] # "offline"}

TypeOK ==
  /\ kind \in {"idle", "account", "single"}
  /\ asked \subseteq Devices /\ skip \subseteq Groups
  /\ gpc \in [Groups -> {"out", "online", "detail", "reads", "done"}]
  /\ outcome \in [Groups -> {"none", "ok", "failed", "refused"}]
  /\ \A g \in Groups : (gpc[g] = "done") = (outcome[g] # "none")
  /\ status \in [Devices -> {"up", "offline"}]
  /\ pending \subseteq {d \in Devices : gpc[GroupOf[d]] = "reads"}
  /\ {refusing, fetched, answered, returned} \subseteq SUBSET Groups
  /\ read \subseteq Devices /\ refusal \in BOOLEAN
  /\ result \in {"none", "returned", "failed", "refused", "cancelled"}

Init ==
  /\ kind = "idle" /\ asked = {} /\ skip = {}
  /\ gpc = [g \in Groups |-> "out"] /\ outcome = [g \in Groups |-> "none"]
  /\ status = [d \in Devices |-> "offline"]
  /\ pending = {} /\ refusing = {} /\ fetched = {} /\ answered = {} /\ read = {} /\ refusal = FALSE
  /\ result = "none" /\ returned = {}

-----------------------------------------------------------------------------
\* The caller polls some devices; with none there is nothing to wait for.
Begin(k, S, sk) ==
  /\ kind = "idle" /\ S # {}
  /\ k = "single" => Cardinality(S) = 1 /\ sk = {}
  /\ kind' = k /\ asked' = S /\ skip' = sk
  /\ gpc' = [g \in Groups |-> IF \E d \in S : GroupOf[d] = g THEN "online" ELSE "out"]
  /\ outcome' = [g \in Groups |-> "none"]
  /\ pending' = {} /\ refusing' = {} /\ fetched' = {}
  /\ answered' = {} /\ read' = {} /\ refusal' = FALSE
  /\ result' = "none" /\ returned' = {}
  /\ UNCHANGED status

\* The group's coroutine returns or raises.
EndGroup(g, how) ==
  /\ gpc' = [gpc EXCEPT ![g] = "done"]
  /\ outcome' = [outcome EXCEPT ![g] = how]

\* The entity reads of the group's online devices go out together.
StartReads(g) ==
  /\ gpc' = [gpc EXCEPT ![g] = "reads"]
  /\ pending' = pending \cup Online(g)
  /\ UNCHANGED outcome

\* The status goes to every channel, a missing or unknown one counting as
\* offline, and the group goes on with those that are not.
OnlineAnswered(g, up) ==
  /\ gpc[g] = "online"
  /\ up \subseteq Members(g)
  /\ status' = [d \in Devices |->
       IF d \in Members(g) THEN IF d \in up THEN "up" ELSE "offline" ELSE status[d]]
  /\ CASE up = {} -> EndGroup(g, "ok") /\ UNCHANGED pending
       [] up \cap Iot # {} /\ g \notin skip ->
            gpc' = [gpc EXCEPT ![g] = "detail"] /\ UNCHANGED <<outcome, pending>>
       [] OTHER -> /\ gpc' = [gpc EXCEPT ![g] = "reads"]
                   /\ pending' = pending \cup up
                   /\ UNCHANGED outcome
  /\ UNCHANGED <<pollVars, refusing, fetched, answered, read, refusal, result, returned>>

\* No status, no update: the exception is the group's.
OnlineFails(g, how) ==
  /\ gpc[g] = "online" /\ how \in {"failed", "refused"}
  /\ EndGroup(g, how)
  /\ refusal' = (refusal \/ how = "refused")
  /\ UNCHANGED <<pollVars, status, pending, refusing, fetched, answered, read, result, returned>>

\* One answer serves all channels of the group.
DetailAnswered(g) ==
  /\ gpc[g] = "detail"
  /\ fetched' = fetched \cup {g} /\ answered' = answered \cup {g}
  /\ StartReads(g)
  /\ UNCHANGED <<pollVars, status, refusing, read, refusal, result, returned>>

\* The group counts as fetched whatever came back.
DetailFails_Counted(g, how) ==
  /\ gpc[g] = "detail" /\ how \in {"failed", "refused"}
  /\ IF how = "refused"
       THEN EndGroup(g, "refused") /\ UNCHANGED <<pending, fetched>>
       ELSE StartReads(g) /\ fetched' = fetched \cup {g}
  /\ refusal' = (refusal \/ how = "refused")
  /\ UNCHANGED <<pollVars, status, refusing, answered, read, result, returned>>

\* Without its detail the group gives up.
DetailFails_GivesUp(g, how) ==
  /\ gpc[g] = "detail" /\ how \in {"failed", "refused"}
  /\ EndGroup(g, IF how = "refused" THEN "refused" ELSE "ok")
  /\ refusal' = (refusal \/ how = "refused")
  /\ UNCHANGED <<pollVars, status, pending, refusing, fetched, answered, read, result, returned>>

\* Refused credentials are raised, any other failure is logged and the reads
\* that do not need the detail are made.
DetailFails(g, how) ==
  /\ gpc[g] = "detail" /\ how \in {"failed", "refused"}
  /\ IF how = "refused"
       THEN EndGroup(g, "refused") /\ UNCHANGED pending
       ELSE StartReads(g)
  /\ refusal' = (refusal \/ how = "refused")
  /\ UNCHANGED <<pollVars, status, refusing, fetched, answered, read, result, returned>>

\* Every failure of a read is logged.
ReadsEnd_Logged(d, how) ==
  /\ d \in pending /\ how \in {"ok", "failed", "refused"}
  /\ pending' = pending \ {d} /\ read' = read \cup {d}
  /\ refusal' = (refusal \/ how = "refused")
  /\ UNCHANGED <<pollVars, gpc, outcome, status, refusing, fetched, answered, result, returned>>

\* The reads of one device are answered or fail; a refusal is remembered while
\* gather() waits for the other reads of the group.
ReadsEnd(d, how) ==
  /\ d \in pending /\ how \in {"ok", "failed", "refused"}
  /\ pending' = pending \ {d} /\ read' = read \cup {d}
  /\ IF how = "refused"
       THEN refusing' = refusing \cup {GroupOf[d]} /\ refusal' = TRUE
       ELSE UNCHANGED <<refusing, refusal>>
  /\ UNCHANGED <<pollVars, gpc, outcome, status, fetched, answered, result, returned>>

\* All reads of the group are in.
ReadsGathered(g) ==
  /\ gpc[g] = "reads" /\ pending \cap Members(g) = {}
  /\ EndGroup(g, IF g \in refusing THEN "refused" ELSE "ok")
  /\ UNCHANGED <<pollVars, status, pending, refusing, fetched, answered, read, refusal, result,
                 returned>>

AllDone == \A g \in AskedGroups : gpc[g] = "done"
Ended(how) == {g \in AskedGroups : outcome[g] = how}

EndPoll(how, set) ==
  /\ kind' = "idle" /\ asked' = {} /\ skip' = {}
  /\ gpc' = [g \in Groups |-> "out"] /\ outcome' = [g \in Groups |-> "none"]
  /\ pending' = {} /\ refusing' = {} /\ fetched' = {}
  /\ result' = how /\ returned' = set
  /\ UNCHANGED <<status, answered, read, refusal>>

\* One dead device is an outage.
Gathered_AnyFailure ==
  /\ kind # "idle" /\ AllDone
  /\ CASE Ended("refused") # {} -> EndPoll("refused", {})
       [] Ended("refused") = {} /\ Ended("failed") # {} /\ kind = "account" ->
            EndPoll("failed", {})
       [] OTHER -> EndPoll("returned", fetched)

\* A group that failed is waited for.
Gathered_AllFetched ==
  /\ kind # "idle" /\ AllDone /\ Ended("failed") = {}
  /\ EndPoll(IF Ended("refused") = {} THEN "returned" ELSE "refused", fetched)

\* Every group has ended.  A refusal is raised; so is an outage of the account,
\* when no group got its status; a single device that is out is logged.
Gathered ==
  /\ kind # "idle" /\ AllDone
  /\ CASE Ended("refused") # {} -> EndPoll("refused", {})
       [] Ended("failed") = AskedGroups /\ kind = "account" -> EndPoll("failed", {})
       [] OTHER -> EndPoll("returned", fetched)

\* The caller's own deadline: gather() cancels what runs.
Cancel == kind # "idle" /\ EndPoll("cancelled", {})

Next ==
  \/ \E k \in {"account", "single"}, S \in SUBSET Devices, sk \in SUBSET Groups :
       Begin(k, S, sk)
  \/ \E g \in Groups :
       \/ \E up \in SUBSET Devices : OnlineAnswered(g, up)
       \/ \E how \in {"failed", "refused"} : OnlineFails(g, how) \/ DetailFails(g, how)
       \/ DetailAnswered(g) \/ ReadsGathered(g)
  \/ \E d \in Devices, how \in {"ok", "failed", "refused"} : ReadsEnd(d, how)
  \/ Gathered \/ Cancel

Spec == Init /\ [][Next]_vars

\* Every request ends (OpenApiClient's EveryCallEnds), and what waits for it
\* goes on.
Fairness ==
  /\ \A g \in Groups :
       /\ WF_vars(\/ \E up \in SUBSET Devices : OnlineAnswered(g, up)
                  \/ \E how \in {"failed", "refused"} : OnlineFails(g, how))
       /\ WF_vars(DetailAnswered(g) \/ \E how \in {"failed", "refused"} : DetailFails(g, how))
       /\ WF_vars(ReadsGathered(g))
  /\ \A d \in Devices : WF_vars(\E how \in {"ok", "failed", "refused"} : ReadsEnd(d, how))
  /\ WF_vars(Gathered)

FairSpec == Spec /\ Fairness

-----------------------------------------------------------------------------
\* Refused credentials, met by whichever request of whichever device, reach the
\* caller in spite of the three gather() calls they pass, and nothing else looks
\* like them (ha_device.py:520 "Refused credentials are the exception to that").
RefusalReachesCaller ==
  result # "none" /\ result # "cancelled" => (result = "refused") = refusal

\* The account poll fails when, and only when, no group got its status
\* (ha_device.py:812-813), so that one dead device is not an outage.
OutageMeansAll ==
  [][/\ kind = "account" /\ kind' = "idle" /\ result' # "cancelled" /\ ~refusal
     => (result' = "failed") = (\A d \in asked : outcome[GroupOf[d]] = "failed")]_vars

\* What a poll returns are groups it has read the detail of: asked for, not
\* skipped, with an online thing-model device.
ReturnedWasRead ==
  [][kind # "idle" /\ result' = "returned" =>
       \A g \in returned' :
         /\ g \in answered /\ g \notin skip /\ outcome[g] = "ok"
         /\ \E d \in Members(g) \cap Iot : status[d] = "up"]_vars

\* When a poll returns, whatever failed in it, every device asked for is offline,
\* was read, or shares a physical device whose status could not be had
\* (ha_device.py:518 "one unhappy entity cannot stop a poll").
NobodyIsForgotten ==
  [][kind # "idle" /\ result' = "returned" =>
       \A d \in asked : \/ outcome[GroupOf[d]] = "failed"
                        \/ status[d] = "offline"
                        \/ d \in read]_vars

\* Every poll comes to an end.
PollEnds == kind # "idle" ~> kind = "idle"
=============================================================================
