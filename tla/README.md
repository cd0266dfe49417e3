# Verification of the Smart Tag badge firmware

This directory holds TLA+ models of the badge firmware, the TLC configurations that
check them on small instances, and theorems checked by TLAPS. The badge is a Thread
device (EFR32, Silicon Labs Thread stack; a router in this build, `thread-configuration.h:51`) that joins a mesh, gathers the beacons of its
neighbours, reports the strongest of them, announces itself to a border router and
updates its image over the air. Paths below are relative to the repository.

## 1. The system

### Components

| component | code | state it keeps | operations |
|---|---|---|---|
| Connection manager (join in band) | `connection-manager-jib/connection-manager-jib.c` | `state`, attempts left, orphaned and searching flags, join key, the network state and orphan events (and a long poll timer for sleepy devices) | StartConnect, StopConnect, SearchForParent, LeaveNetwork, the return callbacks of four stack calls, the network status handler, the event handlers |
| OTA bootload client | `ota-bootload-client/ota-bootload-client.c` | `state` and one timer, server, file to download, download status, a static error counter, the stored files | one event handler per state, response handlers for discovery, DNS, query, block, upgrade end, the network status callback |
| Announcements | `sensor-actuator-implementation.c` 460-510 | the address to announce to | the border router request, the command, the global address callback that it shares with the OTA client |
| Application: scan reports, subscriptions | `sensor-actuator-implementation.c`, `scan-debug/scan-debug.c` | `state` and its timer, scan data, the last report, failed reports | the state event, beacon and end of scan, report and its answer, subscribe, connect complete |
| Application: sensors, buzzer, EZ-mode, LEDs, LCD, join key formatting | `sensor-actuator-implementation.c` | attributes, display | read a value, write it out |
| Main loop | `main/main.c`, `thread-bookkeeping.c` | three init flags, time of the last init | init and its retry, initialise the panel and the application, tick, run events |
| Idle and sleep | `idle-sleep/idle-sleep.c` | a flag that is constantly false (76) | none in this build |
| Network management CLI | `network-management-cli/network-management-cli.c` | none | calls the stack |
| E-paper display, SPI, fonts, images | `rutledge-epaper-module/`, `rutledge_spi_porting/` | the panel's RAM and what it shows | clean, draw a string, clear a line, refresh |
| Generated dispatch and stubs | `thread-*.c` | none | fan a call out to its handlers |
| Thread stack, CoAP, storage and policy plugins | not in the repository | network status, queue of callbacks, exchanges, files | as `thread-callbacks.h` and the callers describe |

### How they interact

The firmware has one thread. `main.c:loop` lets the stack tick (`emAfTick`), which delivers
its callbacks, and then runs the application's events that are due (`emberRunTask`). A
handler runs to its end, so each is one action; between two handlers anything may come: a
CLI command, a CoAP message, another callback, a timer. A call to the stack has an
immediate effect, a queued "Return" callback, and often a later network status change.
The network status is fanned out, in a fixed order, to the connection manager and the OTA
client. The application and the OTA client both ask for the device's global addresses and
share `emberGetGlobalAddressReturn`, which carries no token.

### What is hard

* An **event with one timer** is shared by all the states of a component: every handler,
  in whatever order it comes, overwrites it, and one that leaves it inactive without
  something on the way ends the component's work silently.
* **Callbacks are late**: a return or a status speaks of a moment that is over, and a
  command may have changed everything meanwhile.
* **Resets**: an assert that fails resets the device; RAM is lost, the network and the
  images in storage stay.
* **Lost and late answers**: a CoAP exchange times out, a transfer goes on across a
  re-attachment, a multicast has any number of answers and always a timeout.
* **A panel that remembers**: the e-paper keeps its RAM and its picture through a reset, a
  drawing goes over what is there, and a reset may come in the middle of one.
* **Budgets**: join attempts, block errors, report failures; unsigned counters.

`PROJECT.json` lists each hazard at its line, with the properties that cover it.

### What makes each component correct

* Connection manager: joins are begun only in a search; a search spends at most its budget,
  says TIMED_OUT only when that is spent on joins, never stops halfway, and ends; a node without
  a parent always tries again; the handler's `assert(false)` is unreachable.
* OTA client: it never stalls, what its handlers assert of its own state holds whenever they are due, the server is
  told SUCCESS only of a whole image, only a whole image is installed, an image that was
  proposed is not deleted before that, a download ends because every answer brings it nearer
  to its end, the upgrade comes when the server said.
* Announcements: whoever asks gets one; the client's address reaches the client.
* Application: the report is that of the scan data, the state event is never lost, it is
  due only in states the handler knows.
* Main loop: the panel is initialised only on an initialised stack, the application only
  with both, and nothing is drawn before.
* Display: the panel shows the last report, or the banner, and nothing else.

## 2. The modules

| module | what it is |
|---|---|
| `ConnectionManager` | the connection manager and the stack it drives |
| `ConnectionManager_proofs` | type correctness, progress of a search and of an orphan, joins and their budget |
| `OtaUpdate` | abstract: an update (images get complete in storage, one is proposed, it is installed) |
| `OtaBootloadClient` | the OTA client, its exchanges, transfers, storage and policy; `ImplementsUpdate` is the refinement |
| `OtaDelays` | the conversion of delays to milliseconds in an unsigned word, used by `OtaBootloadClient` |
| `SmartTag` | the OTA client composed with the announcements through the shared callback |
| `SensorActuator` | scans, reports and subscriptions of the application |
| `Badge` | the main loop and the e-paper panel around `SensorActuator`, from power on |
| `OtaDelays_proofs` | what the conversion does below its horizon, past it and for times that are over |
| `OtaBootloadClient_proofs` | type correctness, safety and refinement of the OTA client |
| `SmartTag_proofs` | the same for the client among announcements and late lookups |
| `SensorActuator_proofs` | type correctness and safety of the application |
| `Badge_proofs` | order of the initialisation, contents of the panel, the badge implements the application |
| `MC...` | the instances that TLC checks; the values are in the `.cfg` files |

### ConnectionManager

Variables have the names of the C statics; an `EmberEventControl` is a boolean (inactive
or not), or, for the orphan event, also whether the delay of `ORPHAN_REJOIN_DELAY_MINUTES`
runs. `networkStatus` and `callbacks` are the stack: a call such as `emberJoinNetwork`
either is accepted, changes the status and queues `Return(.., TRUE)` and the status change, or is
refused and queues `Return(.., FALSE)`. What it accepts is what `thread-callbacks.h` says.
`StackChangesStatus` is everything the stack does by itself. Callbacks are delivered
oldest first. `NetworkCommand` is the network-management menu of the CLI, which calls the stack behind
the manager's back: `attach`, `form`, `join`, `join-commissioned`, `reset` and `resume`. The two joins are
answered by the same callback, so they are one call here; the callback of `form` is an empty
stub (`thread-callback-stubs.c:556`) and only its status changes are left. The status handler clears the network state event before it looks at
the status (line 134), so each case states what it leaves of the event. `Reboot` is a
power cycle at any moment. Left out: `cnctMgrFlag`, statistics of connection times,
prints, the bytes of the join key (its length decides), and the long poll timer with its flag
`okToLongPoll`: only a sleepy end device arms it (191-192), and this build is a router.

Three history variables are there for the properties: `connectComplete` (the last status the application was
given), `joinsMade` (the joins the manager began since it was last given its attempts) and `keyMissing` (the
key callback had no key when it was last asked). The key callback of this build always returns 8 bytes
(`sensor-actuator-implementation.c:254-293`), so the branches without a key (98-102, 329-332) are not reached on the
badge. They are modelled because the manager has them, and the properties that do not hold
in them say so: there the manager goes on to be searching, and a transition that
was pending goes on, although `thread-callbacks.h:35-36` says that it halts its attempt.

### OtaBootloadClient

`timer` says which delay runs (`now`, `backoff` of 100 ms with jitter, `period` of 10 or
60 minutes, `upgrade` until the time the server gave). `outstanding` counts the exchanges of
each kind, `transfers` are the block-wise transfers with the image their path names and
the block they wait for. `stored` and `content` are the storage: how many blocks a file
has and from which image each was taken, which is what `Whole` looks at. `running` is the
image that was last installed. The asserts are gathered in `Asserts(state)`: a handler runs only if its
asserts hold; if they do not, what is left to the device is `Reboot`, which is a reset at any
moment, a failed assert included. Not gathered there, since they are not about what the client keeps, are the
asserts of the size a server offers (387), of the storage (427-436) and of the stack taking the next request (559): that
one of them fails is `Reboot` and nothing more. The two handlers of a DNS lookup are defined here but are
steps of `SmartTag`, since the addresses they need come through the application. An exchange with no answer,
a bad one, or one the storage refuses to write is a `...Fails` action.

Two assumptions about the environment are named: `PeriodOver` (a CoAP exchange ends within
the 10 minutes of the shortest period; DNS lookups are exempt, and with `MaxTransfers = 2` so is a
transfer), and `ServerGivesTime` (the server speaks of an upgrade time only to a client that
reported SUCCESS, lines 624-629). `upgradeReply` is the pair of times that the server gave last;
`Never` is 0xFFFFFFFF. The policy callbacks are nondeterministic: any lookup of
`ServerLookups`, any offer, any refusal.

`OtaUpdate` knows three things: the images that are complete in storage, the candidate that
the server was told of, the image that runs. The client maps to it by `WholeImages`, by
`Candidate` (`fileSpec` from the upgrade end request with SUCCESS until the installation) and by
`running`. So the refinement says more than the invariants do one by one: the file of a
candidate is not deleted, a candidate is only withdrawn or installed, never exchanged.

### OtaDelays

`convertToMs` shifts a delay in an unsigned word of `Word` values, and what the word does not
hold is lost; `upgradeDelay` is its use for the upgrade, with the unsigned difference of the
server's times before it. A second becomes 1024 and a minute 65536 of the timer's milliseconds; whether 1000 or
1024 of those make a second (`MILLISECOND_TICKS_PER_SECOND`) is defined by the HAL, which is not in
the repository, and the theorems hold for both. `Horizon` is the number of seconds a word holds,
2^22 (48 days) for 32 bits.

### SmartTag

Extends the client by `announceToAddress` and `emberGetGlobalAddressReturn`. The latter
gives the address to the client when its event is active and to the application otherwise,
whoever asked. A call for addresses is answered once per address, hence `last`, or once with the
unspecified address.

### SensorActuator

`scanData` is the array up to `scanCounter`. Nothing that runs empties it
between scans (`initDataBeforeScan` is called by the static `startScanAir` only, 929-931, which nothing
calls), so scans add up until `sendAir` cuts
the list to three. The sort is any permutation that is sorted by strength, because `qsort` is
not stable. A failed assert of the state handler is `AssertionFails`. In this build an
attached device that scans runs into that assert; the subscription and report handlers
are modelled in all orders all the same, which covers more behaviours than the device
has. `failedReports` is capped at `MaxFailures` by a guard of the model (in `reportTemperatureStatusHandler`), so
`TypeOK` says nothing of its wrap at 256.

### Badge

Adds to the application the flags of `main.c:loop` and the panel. `emberInitReturn`, `InitDisplay`
and `InitApplication` are the loop's stages; every step of the application is a tick that waits
for all three. A line of the panel is a record of the text it was last given and of its
`extent`, how far from the left it is not blank: `DisplayStringAt` goes over what is there and
leaves the rest of a longer text, `EPD_DisplayScanInfo` first draws 42 spaces (687), which
blank a line only if it reaches no further. `Length` counts the characters of the banner, the header and
an entry, with the digits that `%d` prints of a strength. `ram` is what was drawn, `shown` what
the panel was last refreshed with. `BadgeReset` is a reset at any moment: it may come in the
middle of drawing or refreshing and then leaves `Noise`, and otherwise the panel goes on showing what it
showed. The panel's RAM is taken to outlive the low power pin that ends each report
(`sendAir` 1050): were it lost, the lines that a report does not draw would be lost with it.
Only the left alignment is used, and no text reaches the 59 characters of a line.

### Instances and bounds

* `MaxCallbacks = 3`: a call queues two callbacks, so three leaves room for one more that
  is older or comes from the stack itself; each hazard of a late callback needs one old
  callback and one call. Longer queues multiply states without a new kind of overlap. The
  theorems hold for every bound of at least two.
* `NumRejoinAttempts = 2`: one attempt that is followed by another, and the last one. The
  code has more; the theorems hold for every number.
* `JoinKeyLengths = {0, 8}`: without a key and with one. `ConnectionLiveness.cfg` takes `{8}`, which is what the
  key callback of this build returns: a search that has no key rests.
* `Versions = {v1, v2}`, `NumBlocks = 2`: two images may be mixed up, a block has a
  successor or is the last. `BlockErrorThreshold = 2`: an error below and one at the threshold.
* `Word = 2^30`, since TLC's integers have 32 bits with the sign; the theorems hold for every
  multiple of 65536, so for 2^32. `Times` has 0 (no time, or an offset), an hour, and 0xFFFFFFFF in that
  word: with them a wait can be none, ordinary, negative, or beyond the horizon.
* `MaxTransfers = 1` is the normal case; 2 is a transfer that outlives the query period.
* `MaxExchanges = 2` of a kind: the present one and one left over.
* `MCSmartTag` has one image, since the mixing of two is the business of
  `MCOtaBootloadClient`, and in exchange all three lookups at once.
* `MCBadge`: two devices, two strengths (so ties occur; -50 and -100, so texts of two lengths
  occur), an array of four, a list of three, two failures until the detachment, two reports
  unanswered. `SensorAssert.cfg` takes strengths of its own, since it needs no panel.

### Fairness

* Weak fairness of delivering callbacks and of running events: the main loop never stops
  doing both (`main.c:loop`), and an event stays due until it runs or is replaced.
* The stack ends a join or an attach: weak fairness of `StackChangesStatus` in a
  transitional status; in other statuses it may rest for ever.
* Strong fairness of a reset of the network state being accepted: the code retries from
  the return callback with no limit (262), so it must rely on that too.
* OTA: weak fairness of the event handler and of each transfer being answered or timing out
  (CoAP retransmission has an end); strong fairness of a block request being accepted by the
  stack, which the code retries for ever (506). No server is assumed to answer well.

`Quiet` in `SearchEnds` is part of the property: a user who issues commands for ever, or a
device that is reset for ever, owes nothing.

## 3. The runs

| run | checks | shows |
|---|---|---|
| `connection_manager` | `TypeOK`, `SearchNeverStalls`, `OrphanNeverStalls`, `EventStateHandled`, `JoinsOnlyInSearch`, `SearchTimesOutAfterAttempts` | in any order of commands, callbacks, events, losses of the parent and resets, the next step of a search and of an orphan is always under way, the assert is unreachable, no join is begun outside a search, and a search with a key that reports TIMED_OUT has begun all its joins (0.9 million states) |
| `connection_liveness` | `SearchEnds` | with a key, as this build always has one, every search ends once commands and resets cease, one that resumes a saved network (the ordinary boot) as well as one that joins, unless the node is on a network and finds no parent (0.4 million states) |
| `ota_client` | `TypeOK`, `NeverStalls`, `HandlersReady`, `SuccessMeansWhole`, `UpgradeOnTime`, `InstallsWholeImage`, `ImplementsUpdate`, `DownloadProgresses`, `DownloadEnds` | losses, errors, re-attachments and resets anywhere neither stall the client nor make it run into an assert about its own state, nor report or install a broken image, nor delete one it has proposed; a download gets nearer to its end with every answer, and ends; the upgrade comes when the server said (98 thousand states) |
| `smart_tag` | `TagTypeOK`, `SuccessMeansWhole`, `StallsOnlyInDiscovery`, `OnlyServerMissing`, `InstallsWholeImage`, `ImplementsUpdate`, `DownloadProgresses` | the same with announcements that disturb the client through the shared callback and with DNS, except that the client may stall in the discovery and may miss its server, and nowhere else and nothing else (1 million states) |
| `badge` | `TypeOK`, `BadgeTypeOK`, `ReportMatchesScan`, `AppNeverStalls`, `PanelShowsReport`, `FullReportStays` | from power on, through scans, reports, subscriptions and resets in any order, the report is that of the scan data and the panel shows it and nothing else (30 thousand states) |
| `connection_leave`, `ota_wait`, `ota_long_transfer`, `announce_finishes`, `dns_wait`, `request_has_server`, `sensor_assert` | one property each, expected to be violated | the findings below |

`NeverStalls` exempts three situations: a client that has never seen the network, a
bootloader that returned (line 700), and an answer without a current time (line 686,
marked TODO in the code).

`FullReportStays` states what the code does where no document says what it should do: the scan data
is cut to three entries before it is sorted and never emptied, so once three beacons are
in it (they may be of one device) a nearer one never gets in before the next reset. That
is also why no report is ever shorter than the one before, which `PanelShowsReport`
rests on: `sendAir` does not clear the lines below its list.

### Findings

1. `connection-manager-jib.c:258` says that a node that leaves goes right back to joining.
   Being attached has set its attempts to zero (189), so the join that leaving triggers
   reports TIMED_OUT instead. That report also disagrees with `thread-callbacks.h:51-53`, which says of
   TIMED_OUT that the device was unable to join after the specified number of attempts: none was made. The
   same holds wherever the manager joins without a search (after `StopConnect`, or when a device starts without a
   network), so `SearchTimesOutAfterAttempts` speaks of the reports that end a search.
2. `ota-bootload-client.c:677` says that an upgrade time of 0xFFFFFFFF means to check
   back later; it schedules the bootload that far ahead instead.
3. `ota-bootload-client.c:468`: the assert that a download starts at a block boundary
   fails after a transfer that outlived the query period has completed the file.
4. `sensor-actuator-implementation.c:480` says the announcement will finish once the
   address is there; while the OTA client's event is active, which includes its periods
   of 10 and 60 minutes, the address goes to the client and the announcement is lost.
5. `thread-callbacks.h:193` says the client waits for the DNS name to be resolved; its own
   event is inactive when its address comes, so the application takes it and the client
   rests in `DISCOVER_SERVER` with nothing under way. The policy that this build configures looks
   servers up by `EMBER_ZCL_OTA_DISCOVER` (`thread-configuration.h:121`), so it takes another policy.
6. `ota-bootload-client.c:143` asserts a server; an announcement's address can start a
   lookup in a client that has none, and the lookup's success schedules the query.
7. `sensor-actuator-implementation.c:872`: the state handler asserts the state IDLE; the end
   of a scan schedules it in another one.

## 4. The proofs

All theorems hold for every value of the constants that satisfies the module's `ASSUME`.

`ConnectionManager_proofs`: `SearchNeverStalls` and `OrphanNeverStalls` are not inductive as they stand: the
handler of the last queued callback may leave nothing behind. The strengthening `IInv`
adds `LastCallback` (the newest callback tells the present status, or is a refusal: a
refusal's handler always schedules something, and the newest status leaves the stack in a
transitional status or is one whose case schedules something) and `WaitHasMore` (the event
in WAIT_FOR_JOIN_NETWORK, whose handler does nothing, is never alone). Lemmas about the
queue (`MoreCallbacks`, `ReportsTail`, `AcceptQueues`, `RejectQueues`) carry the steps of `TypeCorrect`,
`SearchLive`, `OrphanLive` and `HandlerTotal`. `BudgetKept` is the part of `IInv` about the joins: in a search the attempts left and
the joins made add up to the budget (unless it has no key), outside one no attempt is left. `SearchSteps` sorts every step into
those that begin, spend, end or leave alone a search, `BudgetStep` keeps the sum through each sort, and the two action
properties follow: `JoinsSearched` (no attempt is left to a join outside a search) and `TimeOutEarned` (where no attempt is
left to a search, all its joins were made).

`OtaBootloadClient_proofs`: `TypeCorrect` and `UpgradeTimely` hold for every instance. The others
assume `OneTransfer` (`MaxTransfers = 1`: a transfer ends within the query period). They need it: with
two transfers, blocks of an old one get into the file of a new one, TLC finds `SuccessMeansWhole` violated,
and the run `ota_long_transfer` shows the assert that fails. `AssertsHold` alone also assumes
`DeleteExisting`, as `thread-configuration.h:135` configures the policy: without it an
image that is complete is downloaded again from a size that is no block boundary. The properties speak of
the end of a long history, so the invariant `IInv` says what each moment of it owes:

* `TimerFits`: which delays each state can have.
* `OneAtATime`: at most one exchange or transfer is under way, left overs included.
* `Phases`: what is under way was begun in the state it belongs to, and since then at most
  a re-attachment has moved the client to a period, which cannot be over before it ends; a
  transfer is at the end of the file it fills, and that is the file of `fileSpec`.
* `Awaits`: a client without a timer waits for what its state has begun.
* `Ready`: what a state's asserts look at was there when the state was entered.
* `FilesGenuine`: the blocks a file has came from its image. `Complete`: past the
  download the file is complete unless it was given up.

`NeverStalled` follows from `Awaits`, `AssertsHold` from `Ready` and `Phases`,
`SuccessCorrect` and `InstallCorrect` from `FilesGenuine` and `Complete`. There is one lemma
per handler.

`UpgradeTimely` (`UpgradeOnTime`) needs only that a timer that runs to the upgrade was set by a
reply, which holds in every order of answers (`Timed`), and `UpgradeExact` of `OtaDelays_proofs`:
the delay is exact when the time is not over and less than `Horizon` away. The other theorems there say
what happens outside: from the horizon on the image is installed early (`UpgradeEarly`), and for
a time that is just over the client waits nearly a whole word, 49 days, instead of not at all
(`PastUpgradeIsFar`). The configured periods are never cut short and their jitter does not wrap
(`PeriodExact`).

`Progress` (`DownloadProgresses`) is the part of `DownloadEnds` that can be proved: while the
client downloads an image, the errors and the blocks it has add up to one more with every
answer, and nothing takes them back, so it takes at most `NumBlocks + BlockErrorThreshold - 1` answers.
What is left to fairness is that answers come.

`SensorActuator_proofs`: `TypeCorrect`, `ReportCorrect` and `AppLive`. `ReportMatchesScan` needs
`ReportFits` (the last report is never longer than the scan data): `isNeededToSend` only
looks at the places of the new list, so it would take a shorter list for the same.

The refinement `Implementation` (`ImplementsUpdate`) rests on less than `IInv`, which is named
`Core`: types, `FilesGenuine`, `Complete`, and `Apart` (no query is answered and no block comes in while an image
is proposed, and a transfer is at the end of its file). A step that leaves storage alone is a
proposal, a withdrawal or a stutter (`QuietMaps`); the others are an answer to a query (it may
discard a file), the creation of a file, a block, and the installation.

`SmartTag_proofs`: late DNS lookups and the shared callback may send the client from any state back to
the discovery or the query, so `OneAtATime`, `Phases`, `Awaits` and `Ready` no longer hold, as the
findings 4 to 6 show. What is left is the weaker `TagIInv`: a query, a transfer and an upgrade
end request exclude each other, and none is under way in a state whose handler begins one of the
three (`QueryAlone`, `TransferAlone`, `EndAlone`), with `HasImage`, `FilesGenuine`, `Complete`, `TagReady` (what the
asserts look at, but for the server), `TagAwaits` (what a client without a timer waits for,
but for the discovery) and `Discovers` (the discovery, too, without DNS). It implies `Core`, so the lemmas
of the refinement and of the progress serve both specifications: `TagSuccessCorrect`, `TagInstallCorrect`,
`TagImplementation` and `TagProgress`; `TagUpgradeTimely` goes the way of `UpgradeTimely`.
`TagStallsOnlyInDiscovery` and `TagOnlyServerMissing` say that the findings 5 and 6 are all there is: the client stalls nowhere but in the discovery, and only if its policy
uses DNS (`TagNeverStalls`), and of what its handlers assert of its own state nothing fails but that there is a server. `TagTypeCorrect` and
`TagUpgradeTimely` need no assumption, the others assume `OneTransfer`, and `TagOnlyServerMissing` also `DeleteExisting`.

`Badge_proofs`: `PanelCorrect` needs that an initialised panel shows what its RAM holds
(`PanelRefreshed`), that nothing is reported before the application is initialised
(`NothingReported`), and the lemmas that every text is shorter than the 42 spaces, for every strength
of 8 bits, and that `sendAir` never leaves a shorter list. `ReportFrozen` needs `ReportSettled`: a full report names the
entries that the next scan will sort again. `BadgeImplementsApplication` shows that every step of the badge is
one of the application's, a reset of it, or a stutter, so what `SensorActuator_proofs` proves of the application
holds on the badge: `BadgeApplicationTypes`, `BadgeReportCorrect`, `BadgeApplicationLive`.

TLC has checked each inductive invariant on the instances of the runs.

Only model-checked: liveness (`SearchEnds`, `DownloadEnds`: fairness and `ENABLED` are beyond the
prover). Every invariant and every other action property of a passing run is a theorem.

## 5. Not modelled

* The lengths of the delays other than that of the upgrade: which timer runs is all that the
  properties tell apart.
* The timed retry of `emberInit` (`main.c:148-152`): the stack is not ticked before it is
  initialised, so `emberInitReturn` comes out of `emberInit` itself and nothing is initialised twice
  between resets.
* Temperatures: a negative one is converted to an unsigned integer
  (`sensor-actuator-implementation.c:244`), which C leaves undefined, and divided by 10 as an
  unsigned one (352); a hazard without a property, since the outcome is the compiler's.
* Sleep: disabled in this build (`idle-sleep.c:76`).
* SPI transfers, wave form tables, busy waits, fonts, images, and the drawing functions that
  nothing calls: sequential output, or tables. They are most of the repository's lines, as are the
  generated files, which is why the map covers a small share of all lines and nearly all of those
  of the connection manager, the OTA client and the application.
* Generated code: it only calls the handlers that are actions here.
* LEDs, buzzer, EZ-mode, join key text: they keep no state that another handler reads.
* CLI commands that only pass arguments to the stack (commissioning, steering, gateway).
* The network status fanned out to the connection manager and the OTA client in one module:
  the client sees only "attached", which may come at any moment in its own module already, and the
  manager does not see the client, so a composition would have no behaviour that the parts lack.

## 6. Plan

The order was: the component that everything else waits for first (connection manager), then
the one with most to lose (OTA client), then what they share, then the application, then the
loop and the panel around it. All of it is done: `ConnectionManager`,
`OtaUpdate`, `OtaBootloadClient`, `SmartTag`, `SensorActuator` and `Badge`, each with its proofs.
`OtaDelays` came last, written for the proofs.
What could follow: the temperature, once the target's conversion of a negative float is
settled.
