# A TLA+ model of Py-Imou-Open-Api

`pyimouapi` is the library behind the Imou integration of Home Assistant: an
asyncio client of the Imou Open API, a device manager that lists an account, and
a manager of Home Assistant devices that polls, writes and takes pushes.
All but the picture decoder runs on one event loop, so what can interleave are the
*suspension points*: a lock, a request, a `gather()`, a sleep. The modules here
model one step from one suspension to the next; a request is two steps where it
matters that its answer may be old when it is used. The picture decoder runs in
the threads of an executor, and there a step is a statement.

## 1. The system

| Component (src/pyimouapi) | State it keeps | Operations | Hard behaviour | What makes it correct |
|---|---|---|---|---|
| Open API client: token, retry (`openapi.py`) | `access_token`, `api_url`, `_token_lock` | `async_request_api`, `async_get_token` | a burst of calls meets one expired token; a refresh moves the client to another host; retry; deadline; cancellation while waiting for the lock | one refresh per rejected token; a token goes to its own host; one retry, with another token; no call is left waiting |
| HTTP session (`openapi.py`) | `_session`, `_session_lock` | `_async_get_session`, `async_download`, `async_close` | close against a request in flight; pool limits; bodies that come in pieces | no session is lost open; downloads do not hold the API; a download is whole |
| Event map cache (`device.py`) | `_event_maps`, locks and failure time per product | `async_ensure_event_map`, `resolve_event` | pushes of one product arrive together; a failure must not be repeated at once, nor be for ever | requests shared; failures throttled; a map in the end |
| Listing (`device.py`) | none between calls | `async_get_devices`, summaries | pages shift while the account changes; details read side by side, any of them failing | all devices, once; a failing accessory costs only itself; a refusal is reported |
| Capability configuration (`ha_device.py`, `const.py`) | the entity dictionaries of a new `ImouHaDevice` | `async_get_devices`, `configure_*` | two levels, fallbacks, exceptions of products, a bulb that takes the relay | no entity twice or lost |
| Rediscovery (`ha_device.py`) | entity dictionaries of a live device | `replace_capabilities`, `apply_identity` | reads and writes hold a key, or the panel itself, across an await | what stays keeps its value; what goes stays gone |
| Account poll (`ha_device.py`) | status sensors, entity states | `async_update_devices_status`, `async_update_device_status` | three nested `gather()`s; partial failure; refusals; the set of groups returned steers the next poll | a refusal reaches the caller; outage means all; nobody is forgotten |
| Property writes, polls, pushes (`ha_device.py`, `dormant_retry.py`) | local value, status | `async_set_*`, `async_select_option`, `apply_iot_property_values` | stale answers, late pushes, a write that is two requests, the retry for a sleeping device | success means everywhere; failure leaves the local value; polls converge |
| Ability switches (`ha_device.py`) | `PARAM_STATE` of a switch | `async_switch_operation`, the read | several abilities, some failing | shows what was true; no flip without a write that got through |
| Bulb light (`bulb_light.py`) | the bulb's dictionary | `properties_for_turn_on/off`, `apply_bulb_properties` | two brightness sliders and three modes; two scales; readings during a call | shows what was asked; no drift |
| Countdown (`ha_device.py`) | the relay's state | `async_set_text_value` of ref 28800 | a read whose failure is swallowed decides the direction; the entry may have been replaced meanwhile; the command may be sent twice | the direction rests on a state that was shown or told since the call began |
| Select options, alarm modes (`select_option.py`, `alarm_mode.py`) | none | `to_friendly`, `to_raw` | two values with one name | what is written reads back as what was chosen |
| Picture decoder (`pic_decode.py`) | `_loaded`, `_sdk` | `load`, `decrypt_bytes` | blocking calls in several threads; keys and buffers tried in turn | no function used undeclared; a picture that can be decrypted is |
| Push helpers (`push.py`) | none | `is_alarm_msg_type`, `pic_urls_from_payload` and others | payloads of several formats | a usable address is found |
| Buttons, siren, collection points, night vision, snapshots, streams | options of two selects | one request each | little | the right request |
| Sensor normalisation (`sensor.py`) | none | `apply_sensor_state` | numbers, codes and texts in one field | state and variant agree |

They interact by calls (`ha_device` → `device` → `openapi`), by shared state
(one client and one HTTP session for all; one `ImouHaDevice` for polls, writes, pushes and
rediscoveries) and by exceptions, `InvalidAppIdOrSecretException` in
particular, which is to pass through every `gather()` while other failures are
logged. Home Assistant, the caller, is not in the repository: it decides when
to poll, list and write. `PROJECT.json` lists the components, and under
"hazards" what is hard to test, each at its line.

## 2. The modules

Each is a state machine whose actions are named after what happens to a
coroutine; definitions called `X_Fault` (`Replace_Forgets` and the like)
are faulty variants of `X` that the properties have to catch, and no part of any
specification.

**SingleFlight** is abstract: a value per key, loaded by one caller at a time,
only when it is missing or known to be bad. Two components implement it.

**Mirror** is abstract as well: the local copy of a value that lives in the cloud. It takes
a value when a write has reached every place it has to, or from a reading or notice
that was true when it set out, and in no other way. PropertySync implements it.

**OpenApiClient** (`openapi.py` 170-299). Per coroutine: where it is suspended
(`pc`), what it was called for, the token and host its request carries, the
token it was refused. `EnsureToken` is `_async_ensure_token` with its first look,
`AcquireTokenLock` the second look under the lock, `SendFetch`/`ReceiveFetch` the
token request with the redirect, `SendData`/`ReceiveData`/`ReceiveOverdue` the
request with the retry on TK1002, `Fail` and `CancelWait` what an exception or
a cancellation leaves behind. External: the platform answers anything to
anything, and lets a token expire at any time. One thing is assumed of it: that it
never hands out again a token it has rejected, on which `RetryUsesOtherToken` rests.

**EventMap** (`device.py` 293-349). One lock per product, the second look, the
throttle. Time is a counter per product that stops where the code no longer
tells times apart; `Tick`, its passing, is external.

**PropertySync** (`ha_device.py` 552-796, 864-907, 1335-1364, 1412-1430,
1924-1973, `dormant_retry.py`). One property of one device. The cloud has the
vendor's value, the device object the option that names it; **OptionKeys**
(`select_option.py`, `alarm_mode.py`) is the tables between the two. As a Mirror it is seen through
these names, and what is under way is the pushes together with the answers that wait at the polls
(`Underway`). The cloud keeps a value per
level, because a write for channel "0" is two requests; `readLevel` says which
one a read returns. The local option starts as any that the tables have, whatever the
cloud has: the device is built with a default and read later. Requests are split into the platform serving them
(`Serve...`) and the coroutine using the answer (`...Answered`).
`WriteAborted` is the deadline, a connection error or a cancellation: the write
may have been served.

**Rediscovery** (`ha_device.py` 455-496 and the handlers that store an answer,
`sensor.py` 46-95). The kinds of entity differ in how a late answer finds its
entry: sensors make one, the panel is held by reference, all others are looked
up and raise when they have gone. Sensors are of three sorts: read by name, read through a
service, or found in the device's detail and in pushes (`Reported`). The select of the collection points, held by
reference until its call ends, is left out: it goes back to its prompt after
every use. What a listing may give (`Listings`) is a
constant: any set of sets of entities, nothing at all included, which is what a
device is configured with whose detail read failed.

**Countdown** (`ha_device.py` 1831-1854, 2092-2145) extends Rediscovery: a
countdown is a write of the text that holds the minutes, which reads the relay
or the bulb before it sends its command. The entry of the relay that the call
took is `same` as the device's until a rediscovery replaces it; afterwards
the call still looks at `old`, what that entry said then. `known` is history: whether the relay was on, as
it was shown when the call began and as the platform has said since. Every behaviour of Countdown is one of
Rediscovery (a theorem), so what is proved of the one holds for the other.

**AccountPoll** (`ha_device.py` 798-1011). A poll of some devices in groups; a
group reads the online status, then the detail, then entity by entity, each
ending "ok", "failed" or "refused"; `ReadsGathered` and `Gathered` are the
`gather()`s.

**Listing** (`device.py` 363-520, 831-862). The recursion over pages, the
details of each page side by side, and an account that changes meanwhile.

**Capabilities** (`ha_device.py` 277-304, 1201-1289, 1540-1722). What a listed
device becomes: its Home Assistant devices, and per entity type the ref or
ability it rests on. The actions are changes of what the platform lists.

**AbilitySwitch** (`ha_device.py` 999-1046, 1366-1410, 1443-1472). The
abilities behind a switch read and combined, and its write. In the tables only
motion detection has several abilities, and one request writes it; `Init`
has both shapes. So the `gather()` of a write has one request in every run, and no part
of it can fail alone. Whether the device is said to sleep changes at any time.

**BulbLight** (`bulb_light.py`, `ha_device.py` 552-567, 670-679). The properties
a call writes are computed when it begins and folded in when it is answered. One call is under way
at a time, and an effect is one that the bulb has: any other raises before anything is sent.

**HttpSession** (`openapi.py` 89-168, 247-257). The session that requests of the
API and downloads share. `AsyncGetSession` is done in one step once the lock is
free, because only `async_close` waits under it (`closing`). Sessions have
identities, so that one which was replaced while requests still use it can be
told from the next. `HasSlot` is `limit_per_host` for a session that the client makes; a session
of the caller's has the connector that the caller gave it, and is taken to have aiohttp's default, one pool for
all hosts. A body comes in parts; `BodyRead` takes all of it for a
request of the API and what is there for a download.

**PicDecode** (`pic_decode.py`). `load()` is one step per statement that another
thread can see: opening the libraries, declaring the constructor (with the
destructor) and the decrypt function on whatever `_sdk` is then. Looking a function up, declaring it and, for
the last, setting `_loaded` are one step, and a library that lacks a function, which no `load()` would get past, is left out. A call of
`decrypt_bytes` is one step per native call; what that answers is external
and says at most that the body is short, the buffer too small or the key wrong.

**PushPayload** (`push.py` 7-70, 159-187). Pure operators on a payload.

**AlarmPicture** composes the three: a push is looked at, its address downloaded,
what came is decrypted, while other threads load the library, requests of the API
come and go and the client is closed. Who joins the three is the caller; `push.py` and
`pic_decode.py` say in which order.

The theorems are in modules of their own. **OpenApiClientProofs**, **EventMapProofs**,
**AccountPollProofs** and **AbilitySwitchProofs** are about one component each,
**RediscoveryProofs** about Rediscovery and Countdown, **PictureProofs** about HttpSession, PicDecode,
PushPayload and AlarmPicture. **DiscoveryProofs** is about Listing and Capabilities and **PropertyProofs**
about PropertySync and BulbLight; so that two such components can be extended together,
Capabilities and BulbLight name their specifications `ConfigSpec` and `BulbSpec`. The `MC...` modules
and `.cfg` files are TLC's instances.

## 3. What the runs show

| Run | States | Question |
|---|---|---|
| `client` | 119,000 | Is a token refreshed once, used with its own host, and every call ended? |
| `event_map` | 28,000 | Are requests shared and throttled, and is a map there in the end? |
| `property` | 540,000 | Does a successful write reach every level and read back as what was chosen, does the local value come from nowhere else than writes, polls and pushes, and does it converge? |
| `rediscovery` | 424,000 | Do answers that come after a rediscovery do any harm, and does a countdown turn the relay over? |
| `poll` | 6,300 | Who is told what, when any request of a poll fails or is refused? |
| `listing` | 236,000 | Is a listing complete while the account changes, and are failures local? |
| `switch` | 133,000 | Does a switch show what was true, and converge? |
| `capabilities` | 28,000 | Do entities survive firmware that lists more, and is what a camera lists for itself there once? |
| `bulb` | 275,000 | Does the bulb show what was asked for, without drift? |
| `picture` | 402,000 | Are sessions closed by their owner, are downloads and requests apart, and does an alarm's picture get to the screen? |
| `picture_short` | violation | A download cut off is a success, and the decoder fails on it. |
| `listing_refusal` | violation | Refused credentials look like a device without entities. |

The two violations are what the code does; the findings in `PROJECT.json` quote
the sentence each of them contradicts. In `picture_short` a body that comes in two pieces
is enough: `StreamReader.read(n)` returns what is there. In `listing_refusal` no account
has to change and one device is enough.

Where the code does less than a reader may expect, the properties say how far it goes:

* A sensor that a rediscovery removed comes back, without its ref, when a read of it was under way
  (`sensor.py` 93, `setdefault`), though `replace_capabilities` "returns entity suffixes that
  disappeared, so the caller can drop them". `OnlySensorsComeBack` says that nothing else does,
  `ServiceGhostsFade` that one read through a service goes again. A battery or storage sensor that
  comes back is read by its name and stays until the next rediscovery.
* A rediscovery keeps `PARAM_STATE` and nothing else: the option of a select and the variant of a
  sensor are the defaults again until the next read (`ha_device.py` 478). `LastValueSurvives`
  excepts the two.
* A countdown reads its direction from the entry it took before the read (`ha_device.py` 2099-2103);
  if a rediscovery replaced that entry meanwhile, the answer goes into the new entry and the direction
  comes from the old one, so it may contradict the very answer, and the retry for a sleeping device
  repeats it. `CountdownTurnsOver` says what holds in that case too: the direction turns over a state that
  was shown when the call began or was told since, never a default nor one from before. (Looking the relay up again
  after the read, as other handlers do, would break it when the relay was taken away meanwhile.)
* A second `load()` replaces the library before it has declared its functions (`pic_decode.py` 98),
  so a decryption in another thread may use it undeclared. `DeclaredBeforeUse` says that it takes
  a second `load()` that overlaps the first, and holds for one that comes alone.
* Downloads are kept apart from the API by `limit_per_host`, which `openapi.py` 111-120 gives to the
  sessions the client makes. In a session of the caller's, hanging downloads can hold the API;
  `DownloadsNeverHoldTheApi` is about the others.
* Of two writes of one property the one that is tried again later wins, though it is the older: nothing in
  the code orders them. `Converges` says only that the copy ends up as the cloud has it.
* The docstring of `_key_candidates` speaks of a serial passed where a password belongs; that case
  has one candidate, and the second is there for a password given for a picture without TCM.
  `RightKeyIsFound` says when the candidates are enough.

### Bounds, and why they are enough

* `client`: two coroutines. Every property relates one call to the token and to
  whoever refreshed it; a third only waits for the same lock. Two tokens (an old one
  and a fresh one) and two hosts (before and after a redirect). The safety
  properties and the refinement are proved for any number.
* `event_map`: three pushes on two products, so that one fetches, one queues and one comes
  late while the other product is independent; the throttle is two ticks, with a tick
  before and one at its end. Safety and refinement are proved.
* `property`: the three kinds of channel id and both levels a property may be found at, two or
  three values, one poll. On channel "0", where a write is two requests, one write and one
  change made elsewhere; on another channel two writes, so that one succeeds while the
  other waits to be tried again. The number of writes (`MaxWrites`) and of changes
  (`MaxChanges`) is bounded; everything else, the device's mode in particular, may change
  for ever.
* `rediscovery`: a service sensor, the relay, the minutes, a select and the panel, one state of each
  variant, listings that give everything, the minutes alone, or nothing. Entities of
  different kinds do not interact, but for the relay and its countdown. There is no `Reported` sensor:
  it differs from others in who stores its value, and costs a run of five minutes. The safety properties
  are proved for any entities and listings, such sensors included.
* `poll`: a group of two thing-model channels and a group of one camera without product
  id: both branches after the online status, groups that fail alone and together. Every
  request ends in every way in every state, so no bound on faults is needed.
* `listing`: four devices on pages of two give zero to two full pages and a page
  and a half; one insertion or one removal at any time (`MaxChanges`).
* `picture`: one request of the API and one download over pools of one connection, three sessions
  (in use, being closed, new), the thread of the download and another one that loads the library; a
  third could only repeat what the second does. Pictures of every key and need of a buffer, whole,
  cut off or no picture at all; pushes of every type with addresses in two of the fields. Safety
  is proved for any of these.
* `switch`: two abilities tell "all" from "some"; a poll, two writes, one change.
* `capabilities`: a type with a fallback that one product misreports and the relay that a
  bulb takes away; channels "0" and "1", one of them, or none.
* `bulb`: levels at both ends, out of range, and where `round()` takes a half up and
  down. That the two scales do not drift is proved for every level.

### Fairness, and why the code justifies it

* Every request ends: `async_request_api` runs under a 30 s deadline
  (`openapi.py` 247), so weak fairness on "answered or failed", never on success. In `picture` even
  that is not assumed of downloads: `DownloadsNeverHoldTheApi` lets storage hang for ever, and asks of
  the API host that it answers, so that nothing but the pool could hold a request. Without fairness
  for downloads it is true only where the client made the session, and says so (`owned`).
* `asyncio.Lock` wakes its waiters in order, so a waiter for a lock that is given back
  again and again gets it: strong fairness on taking the lock.
* `gather()` and code between two awaits run to their end: weak fairness.
* `EventuallyCached` and the two `Converges` and `ServiceGhostsFade` are about the *caller*
  as well: that pushes keep coming, that the coordinator polls for ever and is answered now
  and then (strong fairness, since a request may fail in between), that the account is
  listed again and again. Home Assistant does so; nothing in this library does.
  `Converges` of PropertySync asks in addition that the device does not stay offline and
  that the detail is read now and then, not always skipped in favour of pushes.

## 4. What is proved

All proofs are for any number of calls, tokens, hosts, products, levels, devices, entities and
names; the assumptions are the named `ASSUME`s of the modules, which say that sentinels are
not values, that bounds are numbers, and of which sort the tables' entries are. `RawAssumption` of PropertySync
says that the values of a property include the ones the library writes for its options (a volume that
is muted has -1 among its values, because that is what is written). The strengthened invariants were
checked by TLC on small instances before they were proved.

* **Client** (`IInv` in OpenApiClientProofs). Types; who holds the lock is fetching and the
  other way round; a token in use was current once, and on the host it is sent to; a call that
  retries has been refused and remembers what. The properties of the run are not inductive
  alone: `RefreshOnlyWhenRejected`, for instance, needs the lock (nobody else can store a token
  between the second look and the answer) and that a stale token is a rejected one.
  `TokenRefinement` maps the owner of the lock to SingleFlight's loader.
* **Event map**. The lock and the place of its owner; whoever fetches has found neither map nor
  recent failure, and neither can appear while it owns the lock. `MapRefinement` maps the locks to
  loaders.
* **Property** (`SyncInv` in PropertyProofs). Where a call is says what it has done: at its second request
  the channel level has its value, and an answer that waits to be read is in the history
  (`WriterInv`); so the last answer finds every level there (`LastAnswer`), also after a retry, which starts
  with the first request again. That the option *reads back* is a lemma about the tables, mute with its two
  values included (`OptionsReadBack`). `CallEnds` says that a call ends by its last answer or by a
  failure and by no step of anybody else; with it `SuccessReachedEveryLevel` and `FailureLeavesLocalAlone`
  follow (TLC sees the latter as `GiveUp`, in `LocalIsMirror`).
  `SyncRefinement` maps every step to Mirror: the platform's part of a write is `Reach`, the last answer
  `Succeed`, every failure `GiveUp`, the platform's part of a detail read is `Read`, its application and
  a push's are `Apply`; retries, refusals, the status and the device's sleep are stutters. Two
  answers that say the same are one value under way, which is why `Apply` may leave it there.
* **Switch** (`IInv` in AbilitySwitchProofs). The properties of the run but `Converges`, and the types. For a poll,
  `ReadInv` ties each ability it has read to the history: one read as on or off has been so since the
  poll began, and what is on or off now counts as well, whoever wrote meanwhile. For a write, `WriteInv` says
  that every request that came back well was taken by the device. `TableInv` says that a switch has
  abilities and that what is written is among what is read, so that neither `gather()` is empty.
* **Bulb** (`BulbInv` in PropertyProofs). All three properties of the run and the types. First
  the two scales: going up and down again is the identity on 1..100 (`RoundTrip`), by arithmetic
  on the rounded quotients. Then one lemma per alternative of turn_on says, property by property,
  what it writes. The invariant says that a write under way moves one slider at most and none
  without being asked, and that while no reading came in between it still is what the state shown
  makes of the request; a fold of such a write gives the three properties.
* **Poll** (`IInv` in AccountPollProofs). The properties speak about the end of a poll, the
  invariant about its middle: a refusal that has happened is the outcome of a group or waits in one
  that is still being read; a group whose detail was applied was online, not skipped, and goes on
  to its reads; past the status, a device is offline, read, being read, or its group has failed.
  When every group has ended only the outcomes are left (`RefusalsEnd`), and the four safety properties of
  the run follow. A group is one lemma per step, with the steps that end it and those that
  begin its reads sharing one each.
* **Rediscovery** (`IInv` in RediscoveryProofs). The safety properties of the run and the types.
  `AcceptedWriteShows` needs a strengthening: a write that still holds its entity holds one that
  is present (`HeldIsPresent`), which every rediscovery has to keep.
* **Capabilities** (DiscoveryProofs). The two properties of the run and the types. That the
  search for the first name that is listed finds one is the well-foundedness of < on the positions;
  who supports a name splits by level, and each level grows when a name is gained.
* **Countdown** (`CInv` in RediscoveryProofs). `CallInv` says of each call that it is the write of its
  minutes; that a bulb it still holds is there, so that storing the answer in it is a step that Rediscovery
  knows; and that what its entry says was shown or told to it. The last is what every other step could
  break: whatever stores a value in the relay is an answer, a push or a write, which the call comes to know
  of (`Heard`, `LeftAlone`), and a rediscovery either keeps the bulb's object with its state or leaves the call the
  old entry as it was (`ReplaceEntriesInv`). `CountdownTurnsOver` follows when the direction is fixed.
  `CountdownIsRediscovery` maps every step to a step of Rediscovery or none.
* **Pictures** (PictureProofs). An invariant for the sessions and one for the decoder, each kept by the
  steps of its own component and by those of the composition, which leave it alone. For
  `SessionsHaveOneOwner`: a session is made only when the current one is not open and the lock is free,
  so nothing is lost. For `DeclaredBeforeUse`: a function
  is declared in the library of now, or a thread is about to declare it there (`Covered`). For
  `RightKeyIsFound`: the candidates left are all of them, or the second after the first was the wrong
  key (`Trying`), so a call ends only with the last reason there is. `UsableUrlIsTaken` is inductive together
  with the types; its matter is what the payload's operators compute. `PicUrlStrings` filters a list
  of any length, so the lemmas `KeptExists` and `KeptOf` show that its recursive function exists and keeps what
  it should. In place of induction, whose theorem takes an operator, they take the least position where
  the claim fails (`LeastNumber`, from the well-foundedness of <).
* **Listing** (`IInv` in DiscoveryProofs). The argument is the position in the account up to which pages were
  served: whoever was there all the time and stands before it is listed (`Covered`). An addition pushes
  devices away from that position, never back over it, and only a removal can; without any change the list
  is a prefix of the account. A short page reaches the end. A device of a served page whose refs are wanted
  has them, has failed, or is being read.

Every safety property that a passing run checks is a theorem. Liveness under fairness (`EveryCallEnds`, `EventuallyCached`,
the two `Converges`, `ServiceGhostsFade`, `PollEnds`, `ListingEnds`, `DownloadsNeverHoldTheApi`) is
out of the provers' reach, as is ENABLED, and is model-checked only.

## 5. What is left out

* Signature, nonce, body layout and log lines: no property is about them.
* Time: the deadline is an answer that does not come; a burst that queues for the lock behind
  failing requests waits for each of them, which `EveryCallEnds` does not measure.
* Of the picture decoder the native library, and of the session aiohttp: they are what the code uses
  them for. Beside the limit per host aiohttp has one of 100 connections in all, which a client would meet
  only with ten storage hosts at once; there is one here.
* Two calls of turn_on at once: each is folded in when it is answered, the later answer last.
* The form of values. Most readers accept "1", 1 and true; the read before a countdown
  (`ha_device.py` 1841) accepts 1 only, and an ability's status that is neither "on" nor
  readable counts as off (`ha_device.py` 1454); a status that comes as a number is unknown and counts as offline
  (`ha_device.py` 1527).
* Operations of one request without state (buttons, siren, collection points, night vision, streams), and
  functions that compute one record from another without a case that a unit test would not reach
  (`normalize_push_payload`, collection names, number coercion).
* Repository scripts, which are no part of the library.

## 6. The plan

1. *(done)* Client, event map, property writes, rediscovery, poll, listing, switches,
   capabilities, bulb; theorems about the client, the event map, the bulb, the poll,
   rediscovery and capabilities.
2. *(done)* HTTP session, picture decoder and push payload, and their composition; countdowns on top of
   rediscovery; the names of options in property writes; theorems about all of these but the last,
   and about the listing.
3. A composition of Listing, Capabilities and Rediscovery was planned to show that a detail read
   that fails takes the entities of the live device away. That is one listing of Rediscovery now, the
   one that gives nothing, and its consequences are covered there; a composition would add states and no question.
4. *(done)* Theorems about property writes, ability switches and the address in a push; Mirror, and that
   PropertySync implements it.
5. An abstract specification still worth stating: a poll as one atomic refresh of a set of groups.
   For the liveness properties, the safety they rest on (who holds a lock goes on to give it back) could be stated
   and proved beyond what the invariants already say.
