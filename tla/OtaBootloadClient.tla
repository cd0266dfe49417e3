------------------------- MODULE OtaBootloadClient -------------------------
(***************************************************************************)
(* The OTA bootload client (ota-bootload-client/ota-bootload-client.c):    *)
(* discover a server, query it for an image, download the image block by   *)
(* block into storage, tell the server, install at the time it answers.    *)
(*                                                                         *)
(* One event with one timer drives the state machine, and every answer of  *)
(* the network may set it again, as may each attachment to the network.    *)
(* Here are all those handlers and, as the client uses them, the CoAP      *)
(* exchanges it has outstanding, the storage plugin and the policy         *)
(* callbacks.  Acknowledgements (the COAP_ACK cases) change nothing and    *)
(* have no action.  An assert that fails resets the device.  A DNS lookup  *)
(* needs addresses that come through the application, so its two handlers  *)
(* are defined here and are steps of SmartTag.                             *)
(***************************************************************************)
EXTENDS Integers, FiniteSets, OtaDelays

CONSTANTS
  Versions,             \* the images a server may offer
  NoVersion,            \* EMBER_ZCL_OTA_BOOTLOAD_FILE_VERSION_NULL
  NumBlocks,            \* blocks of 256 bytes in an image, the last one partial
  BlockErrorThreshold,  \* ..._OTA_BOOTLOAD_CLIENT_BLOCK_ERROR_THRESHOLD
  ServerLookups,        \* how the policy plugin finds a server
  DeleteExisting,       \* DELETE_EXISTING_IMAGES_BEFORE_DOWNLOAD
  MaxTransfers          \* BOUND: 1 when a transfer ends within the query period

ASSUME OtaAssumption ==
  /\ NoVersion \notin Versions
  /\ NumBlocks \in Nat \ {0}
  /\ BlockErrorThreshold \in Nat \ {0}
  /\ ServerLookups \subseteq {"static", "dns", "discover"}
  /\ DeleteExisting \in BOOLEAN
  /\ MaxTransfers \in Nat \ {0}

VARIABLES
  state,
  timer,           \* emZclOtaBootloadClientEventControl
  haveServer,      \* HAVE_SERVER_INFO()
  ipAddressResolved,
  fileSpec,        \* fileSpecToDownload.version, NoVersion when erased
  downloadStatus,  \* "NULL" when erased
  errors,          \* the static counter of blockResponseHandler
  stored,          \* storage: size of each file in blocks, Absent without one
  content,         \* storage: the image each block of a file was taken from
  running,         \* the image the device runs
  outstanding,     \* exchanges of each kind that are not over
  addressCalls,    \* emberGetGlobalAddresses calls with addresses to come
  transfers,       \* block-wise transfers under way: the path's image, the block
  upgradeReply     \* the times of the last answer to an upgrade end request

serverVars  == <<haveServer, ipAddressResolved>>
imageVars   == <<fileSpec, downloadStatus, errors, upgradeReply>>
storageVars == <<stored, content>>
netVars     == <<outstanding, addressCalls, transfers>>
vars == <<state, timer, serverVars, imageVars, storageVars, running, netVars>>

States == {"NONE", "DISCOVER_SERVER", "QUERY_NEXT_IMAGE", "DOWNLOAD",
           "VERIFY_DOWNLOAD", "UPGRADE_END", "BOOTLOAD"}

\* How far the timer runs: due at once, after 100 ms and jitter, after 10 or 60
\* minutes, at the upgrade time the server gave.
Timers == {"off", "now", "backoff", "period", "upgrade"}

Exchanges == {"dns", "discover", "query", "upgradeEnd"}

\* BOUND: exchanges of one kind, and calls for addresses, at one time.
MaxExchanges == 2

Blocks == 0..(NumBlocks - 1)
Absent == -1
Blank == [b \in Blocks |-> NoVersion]

Slots == 1..MaxTransfers
Transfer == [version : Versions, number : Blocks]
NoTransfer == [version |-> NoVersion, number |-> 0]
Active(i) == transfers[i] # NoTransfer

\* upgradeTime and currentTime as the server gives them; 0xFFFFFFFF is no time.
Never == Word - 1
NoReply == [upgradeTime |-> -1, currentTime |-> -1]
Reply == [upgradeTime : Times, currentTime : Times]

TypeOK ==
  /\ state \in States /\ timer \in Timers
  /\ haveServer \in BOOLEAN /\ ipAddressResolved \in BOOLEAN
  /\ fileSpec \in Versions \cup {NoVersion}
  /\ downloadStatus \in {"NULL", "SUCCESS", "ABORT", "INVALID_IMAGE"}
  /\ errors \in 0..(BlockErrorThreshold - 1)
  /\ stored \in [Versions -> Absent..NumBlocks]
  /\ content \in [Versions -> [Blocks -> Versions \cup {NoVersion}]]
  /\ running \in Versions \cup {NoVersion}
  /\ outstanding \in [Exchanges -> 0..MaxExchanges]
  /\ addressCalls \in 0..MaxExchanges
  /\ transfers \in [Slots -> Transfer \cup {NoTransfer}]
  /\ upgradeReply \in Reply \cup {NoReply}

----------------------------------------------------------------------------
(* The timer.                                                               *)

setState(newState, delay) == state' = newState /\ timer' = delay

scheduleDiscoverServer(eraseServerInfo) ==
  /\ haveServer' = (haveServer /\ ~eraseServerInfo)
  /\ setState("DISCOVER_SERVER", "period")

scheduleQueryNextImage == setState("QUERY_NEXT_IMAGE", "period")

scheduleUpgradeEnd == setState("UPGRADE_END", "backoff")

(***************************************************************************)
(* A CoAP exchange is answered or has timed out well within the 10 minutes *)
(* of the shortest period, and the client starts none while a period timer *)
(* runs, except for a DNS lookup or the next block of a transfer.  So a    *)
(* period is over only when the other exchanges are, and, before a query,  *)
(* when a transfer that was under way has left its slot.                   *)
(***************************************************************************)
PeriodOver ==
  /\ \A e \in Exchanges \ {"dns"} : outstanding[e] = 0
  /\ state = "QUERY_NEXT_IMAGE" => \E i \in Slots : ~Active(i)

Due(s) == state = s /\ timer # "off" /\ (timer = "period" => PeriodOver)

(***************************************************************************)
(* What the handler of each state asserts: a request has a server to go to *)
(* (lines 143, 481), there is an image and a status (422, 570, 603, 604,   *)
(* 695), and a download starts at a block boundary (468).  The last block  *)
(* of an image is not full, so the size of a complete file is not a        *)
(* multiple of the block size.  What is asserted of the server's data      *)
(* (387), of the storage (427-436) and of the stack (559) is not in the    *)
(* client's hands: it is a reset of the device, Reboot.                    *)
(***************************************************************************)
Aligned(v) == stored[v] # NumBlocks

Asserts(s) ==
  /\ s \in {"QUERY_NEXT_IMAGE", "DOWNLOAD", "UPGRADE_END"} => haveServer
  /\ s \in {"DOWNLOAD", "VERIFY_DOWNLOAD", "UPGRADE_END", "BOOTLOAD"} => fileSpec # NoVersion
  /\ s = "DOWNLOAD" => fileSpec # NoVersion /\ Aligned(fileSpec)
  /\ s = "UPGRADE_END" => downloadStatus # "NULL"

Runs(s) == Due(s) /\ Asserts(s)

Open(e) ==
  /\ outstanding[e] < MaxExchanges
  /\ outstanding' = [outstanding EXCEPT ![e] = @ + 1]

Answer(e) ==
  /\ outstanding[e] > 0
  /\ outstanding' = [outstanding EXCEPT ![e] = @ - 1]

\* An event handler that leaves the event inactive, having sent something.
Sent(e) == Open(e) /\ timer' = "off" /\ UNCHANGED <<state, addressCalls>>

----------------------------------------------------------------------------
(* emZclOtaBootloadClientInitCallback and resets of the device.             *)

Init ==
  /\ state = "NONE" /\ timer = "now"
  /\ haveServer = FALSE /\ ipAddressResolved = FALSE
  /\ fileSpec = NoVersion /\ downloadStatus = "NULL" /\ errors = 0
  /\ upgradeReply = NoReply
  /\ stored = [v \in Versions |-> Absent]
  /\ content = [v \in Versions |-> Blank]
  /\ running = NoVersion
  /\ outstanding = [e \in Exchanges |-> 0] /\ addressCalls = 0
  /\ transfers = [i \in Slots |-> NoTransfer]

\* The RAM starts afresh, the images in storage stay.
Restart ==
  /\ state' = "NONE" /\ timer' = "now"
  /\ haveServer' = FALSE /\ ipAddressResolved' = FALSE
  /\ fileSpec' = NoVersion /\ downloadStatus' = "NULL" /\ errors' = 0
  /\ upgradeReply' = NoReply
  /\ outstanding' = [e \in Exchanges |-> 0] /\ addressCalls' = 0
  /\ transfers' = [i \in Slots |-> NoTransfer]

\* At any moment, and so also when the assert of a handler that is due fails.
Reboot == Restart /\ UNCHANGED <<storageVars, running>>

\* Mutant: forgets the server on a re-attachment.
NetworkAttachedAnew ==
  /\ scheduleDiscoverServer(TRUE)
  /\ UNCHANGED <<ipAddressResolved, imageVars, storageVars, running, netVars>>

\* emZclOtaBootloadClientNetworkStatusCallback with an attached status; it
\* ignores all others.
NetworkAttached ==
  /\ scheduleDiscoverServer(FALSE)
  /\ UNCHANGED <<ipAddressResolved, imageVars, storageVars, running, netVars>>

noneStateHandler ==
  /\ Due("NONE")
  /\ timer' = "off"
  /\ UNCHANGED <<state, serverVars, imageVars, storageVars, running, netVars>>

----------------------------------------------------------------------------
(* Server discovery.                                                        *)

\* The policy callbacks fill in the server, its endpoint included.
discoverServerStateHandler ==
  /\ Due("DISCOVER_SERVER")
  /\ \/ /\ haveServer
        /\ scheduleQueryNextImage
        /\ UNCHANGED <<serverVars, outstanding, addressCalls>>
     \/ /\ ~haveServer /\ "static" \in ServerLookups
        /\ haveServer' = TRUE
        /\ scheduleQueryNextImage
        /\ UNCHANGED <<ipAddressResolved, outstanding, addressCalls>>
     \/ /\ ~haveServer /\ "dns" \in ServerLookups
        /\ haveServer' = TRUE
        /\ ipAddressResolved' = FALSE
        /\ addressCalls < MaxExchanges /\ addressCalls' = addressCalls + 1
        /\ timer' = "off" /\ UNCHANGED <<state, outstanding>>
     \/ /\ ~haveServer /\ "discover" \in ServerLookups
        /\ Sent("discover")
        /\ UNCHANGED serverVars
     \/ /\ ~haveServer
        /\ scheduleDiscoverServer(TRUE)
        /\ UNCHANGED <<ipAddressResolved, outstanding, addressCalls>>
  /\ UNCHANGED <<imageVars, storageVars, running, transfers>>

\* One address of the device, or the unspecified address.
OTAGetGlobalAddressCallback(unspecified) ==
  /\ \/ /\ ipAddressResolved
        /\ UNCHANGED <<state, timer, serverVars, outstanding>>
     \/ /\ ~ipAddressResolved               \* no address, or the lookup is not sent
        /\ scheduleDiscoverServer(TRUE)
        /\ UNCHANGED <<ipAddressResolved, outstanding>>
     \/ /\ ~ipAddressResolved /\ ~unspecified
        /\ ipAddressResolved' = TRUE
        /\ Open("dns")
        /\ UNCHANGED <<state, timer, haveServer>>
  /\ UNCHANGED <<imageVars, storageVars, running, transfers>>

dnsLookupResponseHandler ==
  /\ Answer("dns")
  /\ \/ scheduleQueryNextImage /\ UNCHANGED haveServer
     \/ scheduleDiscoverServer(TRUE)
  /\ UNCHANGED <<ipAddressResolved, imageVars, storageVars, running, addressCalls, transfers>>

\* The discovery is a multicast: servers answer until it times out.
ServerResponds ==
  /\ outstanding["discover"] > 0
  /\ ~haveServer
  /\ \/ haveServer' = TRUE /\ scheduleQueryNextImage  \* the application takes it
     \/ scheduleDiscoverServer(FALSE)                 \* the payload was empty
  /\ UNCHANGED <<ipAddressResolved, imageVars, storageVars, running, netVars>>

\* Mutant: takes the end of the discovery for one more acknowledgement.
DiscoveryIgnored ==
  /\ Answer("discover")
  /\ UNCHANGED <<state, timer, serverVars, imageVars, storageVars, running, addressCalls,
                 transfers>>

DiscoveryTimedOut ==
  /\ Answer("discover")
  /\ IF haveServer THEN UNCHANGED <<state, timer, haveServer>>
                   ELSE scheduleDiscoverServer(FALSE)
  /\ UNCHANGED <<ipAddressResolved, imageVars, storageVars, running, addressCalls, transfers>>

----------------------------------------------------------------------------
(* Query next image.                                                        *)

queryNextImageStateHandler ==
  /\ Runs("QUERY_NEXT_IMAGE")
  /\ \/ Sent("query")
     \/ scheduleQueryNextImage /\ UNCHANGED <<outstanding, addressCalls>>  \* not sent
  /\ UNCHANGED <<serverVars, imageVars, storageVars, running, transfers>>

QueryWithoutParameters ==
  /\ Due("QUERY_NEXT_IMAGE")
  /\ scheduleQueryNextImage
  /\ UNCHANGED <<serverVars, imageVars, storageVars, running, netVars>>

QueryFails ==
  /\ Answer("query")
  /\ scheduleDiscoverServer(TRUE)
  /\ UNCHANGED <<ipAddressResolved, imageVars, storageVars, running, addressCalls, transfers>>

\* Mutant: downloads again what it has.
DownloadAgain(v) ==
  /\ UNCHANGED storageVars
  /\ setState("DOWNLOAD", "now")

\* The policy deletes a file it has of the image before it downloads it again.
StartDownload(v) ==
  /\ stored' = [stored EXCEPT ![v] = IF DeleteExisting THEN Absent ELSE @]
  /\ content' = [content EXCEPT ![v] = IF DeleteExisting THEN Blank ELSE @]
  /\ setState("DOWNLOAD", "now")

\* fileSpecToDownload is overwritten whatever the status of the response is.
processQueryNextImageResponse ==
  /\ Answer("query")
  /\ \/ /\ fileSpec' \in Versions
        /\ \/ StartDownload(fileSpec')
           \/ scheduleQueryNextImage /\ UNCHANGED storageVars
        /\ UNCHANGED haveServer
     \/ /\ fileSpec' \in Versions \cup {NoVersion}
        /\ \/ scheduleQueryNextImage /\ UNCHANGED haveServer
           \/ scheduleDiscoverServer(TRUE)
        /\ UNCHANGED storageVars
  /\ UNCHANGED <<ipAddressResolved, downloadStatus, errors, upgradeReply, running,
                 addressCalls, transfers>>

----------------------------------------------------------------------------
(* Download.                                                                *)

\* getCurrentDownloadFileOffset: the file is created if there is none.
OffsetBlock(v) == IF stored[v] = Absent THEN 0 ELSE stored[v]

downloadStateHandler ==
  /\ Runs("DOWNLOAD")
  /\ stored' = [stored EXCEPT ![fileSpec] = OffsetBlock(fileSpec)]
  /\ \/ /\ \E i \in Slots :
             /\ ~Active(i)
             /\ transfers' = [transfers EXCEPT ![i] =
                  [version |-> fileSpec, number |-> OffsetBlock(fileSpec)]]
        /\ timer' = "off" /\ UNCHANGED state
     \/ setState("DOWNLOAD", "now") /\ UNCHANGED transfers  \* not sent
  /\ UNCHANGED <<serverVars, imageVars, content, running, outstanding, addressCalls>>

\* downloadComplete: the application may refuse an image that came in whole.
downloadComplete(status) ==
  /\ downloadStatus' \in {status, "INVALID_IMAGE"}
  /\ scheduleUpgradeEnd

\* Mutant: gives up one error too late.
BlockErrorLate ==
  \/ /\ errors + 1 > BlockErrorThreshold
     /\ errors' = 0
     /\ downloadComplete("ABORT")
  \/ /\ errors + 1 <= BlockErrorThreshold
     /\ errors' = errors + 1
     /\ setState("DOWNLOAD", "backoff")
     /\ UNCHANGED downloadStatus

\* Mutant: each block has its own count of errors.
BlockErrorForgotten ==
  /\ errors' = 0
  /\ setState("DOWNLOAD", "backoff")
  /\ UNCHANGED downloadStatus

\* Mutant: gives up without the ABORT status.
BlockErrorUnreported ==
  \/ /\ errors + 1 >= BlockErrorThreshold
     /\ errors' = 0
     /\ downloadComplete("SUCCESS")
  \/ /\ errors + 1 < BlockErrorThreshold
     /\ errors' = errors + 1
     /\ setState("DOWNLOAD", "backoff")
     /\ UNCHANGED downloadStatus

handleBlockError ==
  \/ /\ errors + 1 >= BlockErrorThreshold
     /\ errors' = 0
     /\ downloadComplete("ABORT")
  \/ /\ errors + 1 < BlockErrorThreshold
     /\ errors' = errors + 1
     /\ setState("DOWNLOAD", "backoff")
     /\ UNCHANGED downloadStatus

TransferOver(i) == transfers' = [transfers EXCEPT ![i] = NoTransfer]

\* No response, a bad one, or one that cannot be written.
BlockFails(i) ==
  /\ Active(i)
  /\ fileSpec # NoVersion
  /\ handleBlockError
  /\ TransferOver(i)
  /\ UNCHANGED <<serverVars, fileSpec, upgradeReply, storageVars, running, outstanding,
                 addressCalls>>

\* The block goes into the file of the current fileSpecToDownload, whatever
\* image the path of the transfer names.
WriteBlock(t) ==
  /\ stored' = [stored EXCEPT ![fileSpec] = IF @ > t.number THEN @ ELSE t.number + 1]
  /\ content' = [content EXCEPT ![fileSpec][t.number] = t.version]

\* Mutant: takes the last but one block for the last.
MoreBlocksEarly(t) == t.number + 2 < NumBlocks

MoreBlocks(t) == t.number + 1 < NumBlocks

BlockArrives(i) ==
  /\ Active(i)
  /\ fileSpec # NoVersion /\ stored[fileSpec] # Absent
  /\ WriteBlock(transfers[i])
  /\ \/ /\ MoreBlocks(transfers[i])
        /\ transfers' = [transfers EXCEPT ![i].number = @ + 1]
        /\ UNCHANGED <<state, timer>>
     \/ /\ ~MoreBlocks(transfers[i])
        /\ TransferOver(i)
        /\ setState("VERIFY_DOWNLOAD", "now")
  /\ UNCHANGED <<serverVars, imageVars, running, outstanding, addressCalls>>

verifyDownloadStateHandler ==
  /\ Runs("VERIFY_DOWNLOAD")
  /\ downloadComplete("SUCCESS")
  /\ UNCHANGED <<serverVars, fileSpec, errors, upgradeReply, storageVars, running, netVars>>

----------------------------------------------------------------------------
(* Upgrade end request.                                                     *)

\* A server only sends a default response to a failed download, so the next
\* query is scheduled here.
upgradeEndStateHandler ==
  /\ Runs("UPGRADE_END")
  /\ \/ scheduleUpgradeEnd /\ UNCHANGED <<outstanding, upgradeReply>>  \* not sent
     \/ /\ Open("upgradeEnd")
        /\ upgradeReply' = NoReply
        /\ IF downloadStatus = "SUCCESS"
           THEN timer' = "off" /\ UNCHANGED state
           ELSE scheduleQueryNextImage
  /\ UNCHANGED <<serverVars, fileSpec, downloadStatus, errors, storageVars, running,
                 addressCalls, transfers>>

\* Mutant: a failed request is not sent again.
UpgradeEndForgotten ==
  /\ Answer("upgradeEnd")
  /\ UNCHANGED <<state, timer, serverVars, imageVars, storageVars, running, addressCalls,
                 transfers>>

UpgradeEndFails ==
  /\ Answer("upgradeEnd")
  /\ scheduleUpgradeEnd
  /\ UNCHANGED <<serverVars, imageVars, storageVars, running, addressCalls, transfers>>

\* The server: it speaks of a time only to a client that reported SUCCESS; to
\* the others it sends a default response, which is not about the image.
ServerGivesTime == downloadStatus = "SUCCESS"

processUpgradeEndResponse ==
  /\ Answer("upgradeEnd")
  /\ fileSpec # NoVersion
  /\ \/ /\ scheduleQueryNextImage         \* not about this image
        /\ UNCHANGED upgradeReply
     \/ /\ ServerGivesTime
        /\ upgradeReply' \in Reply
        /\ IF upgradeReply'.currentTime < Never
           THEN setState("BOOTLOAD", "upgrade")
           ELSE UNCHANGED <<state, timer>>
  /\ UNCHANGED <<serverVars, fileSpec, downloadStatus, errors, storageVars, running,
                 addressCalls, transfers>>

----------------------------------------------------------------------------
(* Bootload: the device restarts with the new image, unless the bootloader  *)
(* refuses it and the call returns.                                         *)

InstallNewImage ==
  /\ Runs("BOOTLOAD")
  /\ Restart
  /\ running' = fileSpec
  /\ UNCHANGED storageVars

InstallRefused ==
  /\ Runs("BOOTLOAD")
  /\ timer' = "off"
  /\ UNCHANGED <<state, serverVars, imageVars, storageVars, running, netVars>>

EventHandler ==
  \/ noneStateHandler
  \/ discoverServerStateHandler
  \/ queryNextImageStateHandler
  \/ QueryWithoutParameters
  \/ downloadStateHandler
  \/ verifyDownloadStateHandler
  \/ upgradeEndStateHandler
  \/ InstallRefused

ResponseHandler ==
  \/ ServerResponds \/ DiscoveryTimedOut
  \/ QueryFails \/ processQueryNextImageResponse
  \/ \E i \in Slots : BlockFails(i) \/ BlockArrives(i)
  \/ UpgradeEndFails \/ processUpgradeEndResponse

Resets == Reboot \/ InstallNewImage

Next == EventHandler \/ ResponseHandler \/ NetworkAttached \/ Resets

Spec == Init /\ [][Next]_vars

\* The main loop runs the event when it is due, the transfer of a block is
\* answered or times out, and the stack takes a request some time.
Fairness ==
  /\ WF_vars(EventHandler)
  /\ WF_vars(\E i \in Slots : BlockFails(i) \/ BlockArrives(i))
  /\ SF_vars(downloadStateHandler /\ transfers' # transfers)

FairSpec == Spec /\ Fairness

----------------------------------------------------------------------------
(* Properties.                                                              *)

\* Every block of the file of v is there and came from the image v.
Whole(v) == stored[v] = NumBlocks /\ \A b \in Blocks : content[v][b] = v

Waiting ==
  \/ addressCalls > 0
  \/ \E e \in Exchanges : outstanding[e] > 0
  \/ \E i \in Slots : Active(i)

(***************************************************************************)
(* The client never stalls: when its one timer is off, an exchange whose   *)
(* end sets it again is under way.  Exempt are a client that has not seen  *)
(* the network yet, a bootloader that returned (line 700) and the answer   *)
(* without a current time (line 686, where the code says TODO).            *)
(***************************************************************************)
NeverStalls ==
  timer = "off" => \/ Waiting
                   \/ state \in {"NONE", "BOOTLOAD"}
                   \/ state = "UPGRADE_END" /\ upgradeReply.currentTime = Never

(***************************************************************************)
(* What the handlers assert of the server, the image and the status (see   *)
(* Asserts) holds whenever they can run, and a block or an answer to the   *)
(* upgrade end that comes in has its image (lines 538 and 662), whatever   *)
(* re-attachments came in between.                                         *)
(***************************************************************************)
HandlersReady ==
  /\ timer # "off" => Asserts(state)
  /\ \A i \in Slots : Active(i) => fileSpec # NoVersion
  /\ outstanding["upgradeEnd"] > 0 => fileSpec # NoVersion

(***************************************************************************)
(* The server is told SUCCESS only of an image that is whole in storage.   *)
(***************************************************************************)
SuccessMeansWhole ==
  state = "UPGRADE_END" /\ downloadStatus = "SUCCESS" => Whole(fileSpec)

(***************************************************************************)
(* The device only ever installs a whole image: every block was received   *)
(* and none of them came from another image.                               *)
(***************************************************************************)
InstallsWholeImage == [][running' # running => Whole(running')]_vars

(***************************************************************************)
(* A client that waits for its upgrade has been given a time, and waits    *)
(* what the last answer asks for, a fortieth of that more at most: neither *)
(* is the image installed early, nor is it put off for weeks.  So it is    *)
(* for a time that is not over and is less than Horizon away.              *)
(***************************************************************************)
Wait(reply) == reply.upgradeTime - reply.currentTime
Delay(reply) == upgradeDelay(reply.upgradeTime, reply.currentTime)
Ordinary(reply) == reply.currentTime # Never /\ Wait(reply) \in 0..(Horizon - 1)

UpgradeOnTime ==
  timer = "upgrade" =>
    /\ upgradeReply # NoReply
    /\ Ordinary(upgradeReply) =>
         Delay(upgradeReply) \in (MILLISECOND_TICKS_PER_SECOND * Wait(upgradeReply))
                                   ..(1025 * Wait(upgradeReply))

\* The images that are whole in storage, and the one the server was told of.
WholeImages == {v \in Versions : Whole(v)}
Candidate ==
  IF state = "BOOTLOAD" \/ (state = "UPGRADE_END" /\ downloadStatus = "SUCCESS")
  THEN fileSpec ELSE NoVersion

Update == INSTANCE OtaUpdate WITH
            Images <- Versions, NoImage <- NoVersion,
            complete <- WholeImages, candidate <- Candidate, installed <- running

(***************************************************************************)
(* The client implements an update: it tells the server of an image, and   *)
(* installs it, only when storage has all of it, and deletes no file that  *)
(* it has told the server of, whatever was lost, late or reset.            *)
(***************************************************************************)
ImplementsUpdate == Update!Spec

(***************************************************************************)
(* A download ends: the image is in, or the errors reach the threshold, or *)
(* the device is attached anew and starts over.                            *)
(***************************************************************************)
DownloadEnds == state = "DOWNLOAD" ~> state # "DOWNLOAD"

(***************************************************************************)
(* What makes it end: every answer to a block, good or bad, that leaves    *)
(* the client downloading the same image brings it one nearer to the last  *)
(* block or to the last error, and nothing takes it back, so that a        *)
(* download takes NumBlocks + BlockErrorThreshold - 1 answers at most.     *)
(***************************************************************************)
Nearer == errors + OffsetBlock(fileSpec)
Answered == \E i \in Slots : Active(i) /\ transfers'[i] # transfers[i]

DownloadProgresses ==
  [][state = "DOWNLOAD" /\ state' = "DOWNLOAD" /\ fileSpec' = fileSpec =>
       Nearer' = IF Answered THEN Nearer + 1 ELSE Nearer]_vars

(***************************************************************************)
(* ota-bootload-client.c:677-678: "if the upgrade time is 0xFFFFFFFF, then *)
(* that means to check back in later to see if we can upgrade".            *)
(***************************************************************************)
WaitMeansCheckBack == upgradeReply.upgradeTime = Never => state # "BOOTLOAD"

(***************************************************************************)
(* ota-bootload-client.c:468: assert(offset % (1 << ..._SIZE_LOG) == 0),   *)
(* "what if the offset of the file is not at a multiple of block size?"    *)
(***************************************************************************)
OffsetAligned == timer # "off" /\ state = "DOWNLOAD" /\ fileSpec # NoVersion => Aligned(fileSpec)
=============================================================================
