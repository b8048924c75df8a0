------------------------------- MODULE Listing -------------------------------
(***************************************************************************)
(* Listing the account page by page, with the ability refs of the thing-   *)
(* model devices read side by side after each page, while the account      *)
(* itself changes (pyimouapi/device.py 363-521 and 831-862).               *)
(*                                                                         *)
(* The code recurses into the next page and extends its list by what comes  *)
(* back; here the list grows page by page, and a failure anywhere loses it, *)
(* as the exception does.                                                   *)
(***************************************************************************)
EXTENDS Naturals, FiniteSets, SequencesExt

CONSTANTS
  Devices,
  Iot,         \* devices with a product id
  PageSize,
  MaxChanges   \* bound: devices added to or removed from the account

ASSUME ListingAssumption ==
  Iot \subseteq Devices /\ PageSize \in Nat \ {0} /\ MaxChanges \in Nat

VARIABLES
  account,   \* the devices of the account, in the platform's order
  changes,
  pc,        \* the call: idle, waiting for a page, or for its details
  fetch,     \* devices to read the refs of; fetch_ability_refs
  page,      \* the page asked for
  onPage,    \* what came on it
  pending,   \* devices whose detail read is under way
  listed,    \* the list built so far
  known,     \* devices whose refs were read; the others keep "unknown"
  broken,    \* history: detail reads of this call that failed
  refusal,   \* history: a request of this call was refused
  stable,    \* history: devices in the account since the call began
  removed, inserted,  \* history: changes since then, an insertion being an
                      \* addition before the end
  result     \* how the last call ended
callVars == <<pc, fetch, page, onPage, pending, listed, known, broken, refusal>>
vars == <<account, changes, callVars, stable, removed, inserted, result>>

Distinct(s) == Cardinality(ToSet(s)) = Len(s)

TypeOK ==
  /\ account \in SeqOf(Devices, Cardinality(Devices)) /\ Distinct(account)
  /\ changes \in 0..MaxChanges
  /\ pc \in {"idle", "page", "details"}
  /\ fetch \subseteq Devices /\ page \in Nat
  /\ Len(onPage) <= PageSize /\ ToSet(onPage) \subseteq Devices
  /\ pending \subseteq fetch \cap Iot \cap ToSet(onPage)
  /\ ToSet(listed) \subseteq Devices
  /\ known \subseteq ToSet(listed) /\ broken \subseteq Devices
  /\ refusal \in BOOLEAN
  /\ stable \subseteq ToSet(account)
  /\ removed \in BOOLEAN /\ inserted \in BOOLEAN
  /\ result \in {"none", "returned", "failed"}

Init ==
  /\ account \in {s \in SeqOf(Devices, Cardinality(Devices)) : Distinct(s)}
  /\ changes = 0
  /\ pc = "idle" /\ fetch = {} /\ page = 0 /\ onPage = <<>> /\ pending = {}
  /\ listed = <<>> /\ known = {} /\ broken = {} /\ refusal = FALSE
  /\ stable = {} /\ removed = FALSE /\ inserted = FALSE
  /\ result = "none"

\* The page as the platform serves it; past the end it is empty.
PageAt(n) == SubSeq(account, (n - 1) * PageSize + 1,
                    IF n * PageSize < Len(account) THEN n * PageSize ELSE Len(account))

-----------------------------------------------------------------------------
\* fetch is every device, none, or a set of ids.
Begin(ids) ==
  /\ pc = "idle"
  /\ pc' = "page" /\ fetch' = ids /\ page' = 1
  /\ onPage' = <<>> /\ pending' = {} /\ listed' = <<>> /\ known' = {}
  /\ broken' = {} /\ refusal' = FALSE
  /\ stable' = ToSet(account) /\ removed' = FALSE /\ inserted' = FALSE
  /\ result' = "none"
  /\ UNCHANGED <<account, changes>>

\* async_get_device_summaries lists in the same way and asks for no details.
BeginSummaries == Begin({})

\* The call ends; what it listed stays to be looked at.
End(how) ==
  /\ pc' = "idle" /\ result' = how
  /\ pending' = {} /\ onPage' = <<>>
  /\ UNCHANGED <<fetch, page>>

\* Only a page that is more than full goes on.
AfterPage_MoreThanFull(entries) ==
  IF Len(entries) > PageSize
    THEN /\ pc' = "page" /\ page' = page + 1
         /\ pending' = {} /\ onPage' = <<>>
         /\ UNCHANGED <<fetch, result>>
    ELSE End("returned")

\* A full page may have more behind it, a short one ends the listing.
AfterPage(entries) ==
  IF Len(entries) >= PageSize
    THEN /\ pc' = "page" /\ page' = page + 1
         /\ pending' = {} /\ onPage' = <<>>
         /\ UNCHANGED <<fetch, result>>
    ELSE End("returned")

\* The page is served and read.  An empty one ends the listing; otherwise the
\* details asked for go out together, if there are any.
PageAnswered ==
  /\ pc = "page"
  /\ LET entries == PageAt(page)
         toFetch == ToSet(entries) \cap Iot \cap fetch IN
       /\ listed' = listed \o entries
       /\ IF entries = <<>> THEN End("returned")
          ELSE IF toFetch = {} THEN AfterPage(entries)
          ELSE /\ pc' = "details" /\ onPage' = entries /\ pending' = toFetch
               /\ UNCHANGED <<fetch, page, result>>
  /\ UNCHANGED <<account, changes, known, broken, refusal, stable, removed, inserted>>

\* The page cannot be had; the exception passes through every page before it.
PageFails(refused) ==
  /\ pc = "page"
  /\ End("failed")
  /\ refusal' = (refusal \/ refused)
  /\ UNCHANGED <<account, changes, listed, known, broken, stable, removed, inserted>>

\* The refs of one device are in.
DetailAnswered(d) ==
  /\ pc = "details" /\ d \in pending
  /\ known' = known \cup {d} /\ pending' = pending \ {d}
  /\ UNCHANGED <<account, changes, pc, fetch, page, onPage, listed, broken, refusal,
                 stable, removed, inserted, result>>

\* gather() stops at the first exception and its results are not looked at.
DetailFails_CostsThePage(d, refused) ==
  /\ pc = "details" /\ d \in pending
  /\ pending' = {}
  /\ broken' = broken \cup {d} /\ refusal' = (refusal \/ refused)
  /\ UNCHANGED <<account, changes, pc, fetch, page, onPage, listed, known, stable,
                 removed, inserted, result>>

\* One detail read fails, with whatever exception; it is logged.
DetailFails(d, refused) ==
  /\ pc = "details" /\ d \in pending
  /\ pending' = pending \ {d}
  /\ broken' = broken \cup {d} /\ refusal' = (refusal \/ refused)
  /\ UNCHANGED <<account, changes, pc, fetch, page, onPage, listed, known, stable,
                 removed, inserted, result>>

\* Waits until every device has answered, the failed ones too.
DetailsGathered_WaitsForAnswers ==
  /\ pc = "details" /\ fetch \cap Iot \cap ToSet(onPage) \subseteq known
  /\ AfterPage(onPage)
  /\ UNCHANGED <<account, changes, listed, known, broken, refusal, stable, removed,
                 inserted>>

\* All detail reads of the page have ended.
DetailsGathered ==
  /\ pc = "details" /\ pending = {}
  /\ AfterPage(onPage)
  /\ UNCHANGED <<account, changes, listed, known, broken, refusal, stable, removed,
                 inserted>>

\* The caller gives up; gather() passes the cancellation on.
Cancel ==
  /\ pc # "idle"
  /\ End("failed")
  /\ UNCHANGED <<account, changes, listed, known, broken, refusal, stable, removed,
                 inserted>>

-----------------------------------------------------------------------------
(* The account (external). *)

Change == changes < MaxChanges /\ changes' = changes + 1

\* Somebody adds a device; the platform puts it anywhere.
AddDevice(d, i) ==
  /\ Change /\ d \notin ToSet(account)
  /\ account' = InsertAt(account, i, d)
  /\ inserted' = (inserted \/ i <= Len(account))
  /\ UNCHANGED <<callVars, stable, removed, result>>

RemoveDevice(i) ==
  /\ Change
  /\ account' = RemoveAt(account, i)
  /\ stable' = stable \ {account[i]}
  /\ removed' = TRUE
  /\ UNCHANGED <<callVars, inserted, result>>

Next ==
  \/ BeginSummaries \/ \E ids \in SUBSET Devices : Begin(ids)
  \/ PageAnswered \/ DetailsGathered \/ Cancel
  \/ \E refused \in BOOLEAN :
       PageFails(refused) \/ \E d \in Devices : DetailFails(d, refused)
  \/ \E d \in Devices : DetailAnswered(d)
  \/ \E d \in Devices, i \in 1..(Len(account) + 1) : AddDevice(d, i)
  \/ \E i \in 1..Len(account) : RemoveDevice(i)

Spec == Init /\ [][Next]_vars

\* Every request ends.
Fairness ==
  /\ WF_vars(PageAnswered \/ \E refused \in BOOLEAN : PageFails(refused))
  /\ \A d \in Devices :
       WF_vars(DetailAnswered(d) \/ \E refused \in BOOLEAN : DetailFails(d, refused))
  /\ WF_vars(DetailsGathered)

FairSpec == Spec /\ Fairness

-----------------------------------------------------------------------------
\* With nobody changing the account, a listing that returns has every device
\* once, in the account's order, also at an exact multiple of the page size
\* (device.py:474-478).  Devices that are added meanwhile push others to a later
\* page, never off the list: only a removal can hide one that was there all the
\* time.
OnlyChangesDisturb ==
  result = "returned" /\ ~removed =>
    /\ stable \subseteq ToSet(listed)
    /\ ~inserted /\ stable = ToSet(account) => listed = account

\* A detail read that fails costs that device its refs and no other one
\* (device.py:455-457 "must not cost the caller its whole account").
OneAccessoryIsLocal ==
  result = "returned" => (fetch \cap Iot \cap ToSet(listed)) \ broken \subseteq known

\* Refused credentials are not a listing
\* (tests/test_auth_failure_propagates.py:83 "The slower listing path keeps
\* surfacing a refusal as it always did").
ListingReportsRefusal == result = "returned" => ~refusal

\* Every listing ends, whatever the number of devices.
ListingEnds == pc # "idle" ~> pc = "idle"
=============================================================================
