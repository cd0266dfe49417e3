--------------------------- MODULE SmartTag_proofs ---------------------------
(***************************************************************************)
(* Proofs about the client among the announcements: what the shared        *)
(* callback and the DNS lookups do to it may send it back to an earlier    *)
(* state at any moment and leave two things under way, but never makes it  *)
(* report or install an image that is not whole, and stalls it nowhere but *)
(* in the discovery.  For every number of images, blocks, errors and       *)
(* routers.                                                                *)
(***************************************************************************)
EXTENDS SmartTag, OtaBootloadClient_proofs

----------------------------------------------------------------------------
(* Types.                                                                   *)

LEMMA DnsType ==
  ASSUME TypeOK, dnsLookupResponseHandler
  PROVE  TypeOK'
<1>1. outstanding' \in [Exchanges -> 0..MaxExchanges]
  BY ExchangeCounts DEF dnsLookupResponseHandler, Exchanges
<1> QED  BY <1>1 DEF dnsLookupResponseHandler, TypeOK, States, Timers, imageVars, storageVars,
                     setState, scheduleDiscoverServer, scheduleQueryNextImage

\* The shared callback, for the client or for the application.
LEMMA AddressType ==
  ASSUME TypeOK, NEW last \in BOOLEAN, NEW unspecified \in BOOLEAN,
         emberGetGlobalAddressReturn(last, unspecified)
  PROVE  TypeOK'
<1>1. addressCalls' \in 0..MaxExchanges
  BY DEF emberGetGlobalAddressReturn, AddressReported, TypeOK, MaxExchanges
<1>2. CASE timer # "off" /\ OTAGetGlobalAddressCallback(unspecified)
  <2>1. outstanding' \in [Exchanges -> 0..MaxExchanges]
    BY <1>2, ExchangeCounts DEF OTAGetGlobalAddressCallback, Exchanges, TypeOK
  <2>2. /\ haveServer' \in BOOLEAN /\ ipAddressResolved' \in BOOLEAN
        /\ state' \in States /\ timer' \in Timers
    BY <1>2 DEF OTAGetGlobalAddressCallback, TypeOK, States, Timers, serverVars, setState,
                scheduleDiscoverServer
  <2>3. UNCHANGED <<imageVars, storageVars, running, transfers>>
    BY <1>2 DEF OTAGetGlobalAddressCallback
  <2> QED  BY <1>1, <2>1, <2>2, <2>3 DEF TypeOK, imageVars, storageVars
<1>3. CASE UNCHANGED <<state, timer, serverVars, imageVars, storageVars, running, outstanding,
                       transfers>>
  BY <1>1, <1>3 DEF TypeOK, serverVars, imageVars, storageVars
<1> QED  BY <1>2, <1>3 DEF emberGetGlobalAddressReturn

LEMMA AnnounceType ==
  ASSUME TypeOK, NEW router \in Routers, announceToAddress(router)
  PROVE  TypeOK'
BY DEF announceToAddress, TypeOK, serverVars, imageVars, storageVars, MaxExchanges

\* Every step of the composition keeps the types of the client.
LEMMA TagStepType == TypeOK /\ [TagNext]_allVars => TypeOK'
<1> SUFFICES ASSUME TypeOK, [TagNext]_allVars PROVE TypeOK'
  OBVIOUS
<1>1. CASE TagReset \/ (ClientStep /\ ~dnsLookupResponseHandler)
  <2>1. Next
    BY <1>1 DEF TagReset, ClientStep, Next
  <2> QED  BY <2>1, StepType
<1>2. CASE ClientStep /\ dnsLookupResponseHandler
  BY <1>2, DnsType
<1>3. CASE UNCHANGED allVars
  BY <1>3, StepType DEF allVars
<1> QED  BY <1>1, <1>2, <1>3, AddressType, AnnounceType DEF TagNext

\* The types of the composed state.
THEOREM TagTypeCorrect == TagSpec => []TagTypeOK
<1>1. TagInit => TagTypeOK
  BY InitType DEF TagInit, TagTypeOK
<1>2. TagTypeOK /\ [TagNext]_allVars => TagTypeOK'
  <2> SUFFICES ASSUME TagTypeOK, [TagNext]_allVars PROVE TagTypeOK'
    OBVIOUS
  <2>1. TypeOK'
    BY TagStepType DEF TagTypeOK
  <2>2. discoverRequestAddress' \in Routers \cup {NoRouter} /\ asked' \subseteq Routers
    BY DEF TagTypeOK, TagNext, TagReset, ClientStep, announceToAddress, allVars, tagVars,
           emberGetGlobalAddressReturn, finishAnnounceToAddress
  <2> QED  BY <2>1, <2>2 DEF TagTypeOK
<1> QED  BY <1>1, <1>2, PTL DEF TagSpec

----------------------------------------------------------------------------
(* Safety.  A lookup that ends late, or an address that was an              *)
(* announcement's, takes the client from any state to the discovery or the  *)
(* query, so of OneAtATime and Phases only this much is left: a query, a    *)
(* transfer and an upgrade end request exclude each other, and none of them *)
(* is under way in a state whose handler would begin one of the three.      *)

QueryAlone ==
  Busy("query") =>
    /\ outstanding["query"] = 1 /\ ~Busy("upgradeEnd") /\ ~Loading
    /\ Patient \/ (state = "QUERY_NEXT_IMAGE" /\ timer = "off")

TransferAlone ==
  Loading =>
    /\ ~Busy("upgradeEnd")
    /\ fileSpec = transfers[1].version /\ stored[fileSpec] = transfers[1].number
    /\ Patient \/ (state \in {"DISCOVER_SERVER", "DOWNLOAD"} /\ timer = "off")

EndAlone ==
  Busy("upgradeEnd") =>
    /\ outstanding["upgradeEnd"] = 1
    /\ Patient \/ (state = "UPGRADE_END" /\ timer = "off")

HasImage ==
  state \in {"VERIFY_DOWNLOAD", "UPGRADE_END", "BOOTLOAD"} \/ Busy("upgradeEnd")
    => fileSpec # NoVersion

\* Of Ready, all but the server.
TagReady ==
  /\ state = "UPGRADE_END" \/ Busy("upgradeEnd") => downloadStatus # "NULL"
  /\ state = "DOWNLOAD" /\ timer # "off" =>
       fileSpec # NoVersion /\ (DeleteExisting => Aligned(fileSpec))

\* Of Awaits, all but the discovery.
TagAwaits ==
  timer = "off" =>
    /\ state = "QUERY_NEXT_IMAGE" => Busy("query")
    /\ state = "DOWNLOAD" => Loading
    /\ state = "UPGRADE_END" => Busy("upgradeEnd") \/ upgradeReply.currentTime = Never

\* A policy that does not use DNS has a discovery under way while it waits for one.
Discovers ==
  "dns" \notin ServerLookups /\ state = "DISCOVER_SERVER" /\ timer = "off"
    => Busy("discover") /\ ~haveServer

TagIInv ==
  /\ TypeOK /\ TimerFits /\ QueryAlone /\ TransferAlone /\ EndAlone /\ HasImage
  /\ FilesGenuine /\ Complete /\ TagReady /\ TagAwaits /\ Discovers

\* A step that begins and ends nothing, touches no file, and leaves the client
\* where it was or takes it to the discovery or the query.
LEMMA GoesBack ==
  ASSUME TagIInv, TypeOK',
         UNCHANGED <<imageVars, storageVars, transfers>>,
         \A e \in {"query", "upgradeEnd"} : outstanding'[e] = outstanding[e],
         \/ UNCHANGED <<state, timer>> /\ Discovers'
         \/ state' \in {"DISCOVER_SERVER", "QUERY_NEXT_IMAGE"} /\ timer' = "period"
  PROVE  TagIInv'
<1> USE DEF TagIInv, Busy, Loading, Active, Patient, imageVars, storageVars
<1>1. TimerFits'
  BY DEF TimerFits
<1>2. QueryAlone' /\ TransferAlone' /\ EndAlone'
  BY DEF QueryAlone, TransferAlone, EndAlone, TypeOK
<1>3. HasImage' /\ Complete'
  BY DEF HasImage, Complete
<1>4. TagReady' /\ TagAwaits' /\ Discovers'
  BY DEF TagReady, TagAwaits, Discovers, Aligned
<1> QED  BY <1>1, <1>2, <1>3, <1>4, StorageKept

\* Re-attachment, discovery, lookups and announcements.
LEMMA DiscoverTagInv ==
  ASSUME OneTransfer, TagIInv, TypeOK',
         \/ NetworkAttached \/ ServerResponds \/ DiscoveryTimedOut \/ QueryWithoutParameters
         \/ dnsLookupResponseHandler
         \/ \E router \in Routers : announceToAddress(router)
         \/ \E last, unspecified \in BOOLEAN : emberGetGlobalAddressReturn(last, unspecified)
  PROVE  TagIInv'
<1>1. /\ UNCHANGED <<imageVars, storageVars, transfers>>
      /\ \/ UNCHANGED <<state, timer>>
         \/ state' \in {"DISCOVER_SERVER", "QUERY_NEXT_IMAGE"} /\ timer' = "period"
  BY DEF NetworkAttached, ServerResponds, DiscoveryTimedOut, QueryWithoutParameters,
         dnsLookupResponseHandler, announceToAddress, emberGetGlobalAddressReturn,
         OTAGetGlobalAddressCallback, scheduleDiscoverServer, scheduleQueryNextImage, setState,
         netVars
<1>2. \A e \in {"query", "upgradeEnd"} : outstanding'[e] = outstanding[e]
  BY DEF NetworkAttached, ServerResponds, DiscoveryTimedOut, QueryWithoutParameters,
         dnsLookupResponseHandler, announceToAddress, emberGetGlobalAddressReturn,
         OTAGetGlobalAddressCallback, Open, Answer, netVars, TagIInv, TypeOK, Exchanges
<1>3. UNCHANGED <<state, timer>> => Discovers'
  BY DEF Discovers, Busy, NetworkAttached, ServerResponds, DiscoveryTimedOut,
         QueryWithoutParameters, dnsLookupResponseHandler, announceToAddress,
         emberGetGlobalAddressReturn, OTAGetGlobalAddressCallback, scheduleDiscoverServer,
         scheduleQueryNextImage, setState, serverVars, netVars, Due, TagIInv
<1> QED  BY <1>1, <1>2, <1>3, GoesBack

LEMMA noneTagInv ==
  ASSUME TagIInv, TypeOK', noneStateHandler PROVE TagIInv'
<1> USE DEF noneStateHandler, Due, TagIInv, Busy, Loading, Active, Patient, imageVars,
      storageVars, netVars
<1>1. TimerFits' /\ HasImage' /\ Complete'
  BY DEF TimerFits, HasImage, Complete
<1>2. QueryAlone' /\ TransferAlone' /\ EndAlone'
  BY DEF QueryAlone, TransferAlone, EndAlone, TypeOK
<1>3. TagReady' /\ TagAwaits' /\ Discovers'
  BY DEF TagReady, TagAwaits, Discovers, Aligned, EndAlone, TypeOK
<1> QED  BY <1>1, <1>2, <1>3, StorageKept

\* The discovery begins when the query and the upgrade end request are over; a
\* transfer may still be under way.
LEMMA discoverServerTagInv ==
  ASSUME TagIInv, TypeOK', discoverServerStateHandler PROVE TagIInv'
<1> USE DEF discoverServerStateHandler, Due, PeriodOver, Sent, Open, scheduleQueryNextImage,
      scheduleDiscoverServer, setState, Exchanges, TagIInv, Busy, Loading, Active, Patient,
      imageVars, storageVars
<1>1. TimerFits' /\ HasImage' /\ Complete'
  BY DEF TimerFits, HasImage, Complete, TypeOK
<1>2. QueryAlone' /\ TransferAlone' /\ EndAlone'
  BY DEF TimerFits, QueryAlone, TransferAlone, EndAlone, TypeOK
<1>3. TagReady' /\ TagAwaits' /\ Discovers'
  <2>1. TagReady' /\ TagAwaits'
    BY DEF TagReady, TagAwaits, Aligned, EndAlone, TimerFits, TypeOK
  <2>2. Discovers'
    BY DEF Discovers, TypeOK, serverVars
  <2> QED  BY <2>1, <2>2
<1> QED  BY <1>1, <1>2, <1>3, StorageKept

\* The query begins when nothing else but a lookup is under way.
LEMMA queryTagInv ==
  ASSUME OneTransfer, TagIInv, TypeOK', queryNextImageStateHandler PROVE TagIInv'
<1> USE OneSlot DEF queryNextImageStateHandler, Runs, Due, PeriodOver, Sent, Open,
      scheduleQueryNextImage, setState, Exchanges, TagIInv, Busy, Loading, Active, Patient,
      imageVars, storageVars
<1>1. TimerFits' /\ HasImage' /\ Complete'
  BY DEF TimerFits, HasImage, Complete, TypeOK
<1>2. QueryAlone' /\ TransferAlone' /\ EndAlone'
  BY DEF TimerFits, QueryAlone, TransferAlone, EndAlone, TypeOK
<1>3. TagReady' /\ TagAwaits' /\ Discovers'
  BY DEF TagReady, TagAwaits, Discovers, Aligned, EndAlone, TypeOK
<1> QED  BY <1>1, <1>2, <1>3, StorageKept

\* An answer to a query: nothing else is under way, so the file it names may be
\* deleted.
LEMMA queryAnswerTagInv ==
  ASSUME OneTransfer, TagIInv, TypeOK', QueryFails \/ processQueryNextImageResponse
  PROVE  TagIInv'
<1> USE DEF QueryFails, processQueryNextImageResponse, Answer, scheduleQueryNextImage,
      scheduleDiscoverServer, setState, Exchanges, TagIInv, Busy, Loading, Active, Patient,
      imageVars
<1>1. TimerFits' /\ HasImage' /\ Complete'
  BY DEF TimerFits, QueryAlone, HasImage, Complete, TypeOK, StartDownload, storageVars
<1>2. QueryAlone' /\ TransferAlone' /\ EndAlone'
  BY DEF QueryAlone, TransferAlone, EndAlone, TypeOK, StartDownload, storageVars
<1>3. FilesGenuine'
  <2>1. CASE UNCHANGED storageVars
    BY <2>1, StorageKept
  <2>2. ASSUME NEW v \in Versions, StartDownload(v) PROVE FilesGenuine'
    BY <2>2, StartKeepsGenuine
  <2>3. UNCHANGED storageVars \/ \E v \in Versions : StartDownload(v)
    BY DEF storageVars
  <2> QED  BY <2>1, <2>2, <2>3, Zenon
<1>4. TagReady' /\ TagAwaits' /\ Discovers'
  BY OtaAssumption DEF QueryAlone, TagReady, TagAwaits, Discovers, Aligned, Absent, StartDownload,
                       TypeOK, storageVars
<1> QED  BY <1>1, <1>2, <1>3, <1>4

LEMMA downloadTagInv ==
  ASSUME OneTransfer, TagIInv, TypeOK', downloadStateHandler PROVE TagIInv'
<1> USE OneSlot DEF downloadStateHandler, Runs, Due, setState, TagIInv, Busy, Loading, Active,
      Patient, imageVars
<1>1. /\ ~Busy("query") /\ ~Busy("upgradeEnd") /\ ~Loading /\ fileSpec \in Versions
      /\ stored' = [stored EXCEPT ![fileSpec] = OffsetBlock(fileSpec)]
      /\ UNCHANGED <<imageVars, content, outstanding>>
  BY DEF QueryAlone, TransferAlone, EndAlone, TypeOK, Asserts
<1>2. TimerFits' /\ HasImage' /\ Complete'
  BY <1>1 DEF TimerFits, HasImage, Complete
<1>3. QueryAlone' /\ EndAlone'
  BY <1>1 DEF QueryAlone, EndAlone
<1>4. TransferAlone'
  BY <1>1 DEF TransferAlone, TypeOK
<1>5. FilesGenuine'
  BY <1>1 DEF FilesGenuine, TypeOK, OffsetBlock, Blocks, Absent
<1>6. TagReady' /\ TagAwaits' /\ Discovers'
  <2>1. OffsetBlock(fileSpec) # NumBlocks /\ OffsetBlock(fileSpec) \in Blocks
    BY OffsetFits, OtaAssumption DEF Blocks
  <2>2. timer' = "off" => Loading'
    BY <2>1, OtaAssumption DEF NoTransfer, TypeOK
  <2> QED  BY <1>1, <2>1, <2>2 DEF TagReady, TagAwaits, Discovers, Aligned, TypeOK
<1> QED  BY <1>2, <1>3, <1>4, <1>5, <1>6

LEMMA BlockFailsTagInv ==
  ASSUME OneTransfer, TagIInv, TypeOK', NEW i \in Slots, BlockFails(i) PROVE TagIInv'
<1> USE DEF BlockFails, TransferOver, handleBlockError, downloadComplete, scheduleUpgradeEnd,
      setState, TagIInv, Busy, Loading, Active, Patient
<1>1. /\ i = 1 /\ Loading /\ transfers'[1] = NoTransfer
      /\ ~Busy("query") /\ ~Busy("upgradeEnd") /\ UNCHANGED outstanding
  BY OneSlot DEF QueryAlone, TransferAlone, TypeOK
<1>2. TimerFits' /\ HasImage' /\ Complete'
  BY <1>1 DEF TimerFits, HasImage, Complete
<1>3. QueryAlone' /\ TransferAlone' /\ EndAlone'
  BY <1>1 DEF QueryAlone, TransferAlone, EndAlone
<1>4. TagReady' /\ TagAwaits' /\ Discovers'
  <2>1. stored[fileSpec] # NumBlocks
    BY <1>1, OtaAssumption DEF TransferAlone, TypeOK, Transfer, Blocks
  <2> QED  BY <1>1, <2>1 DEF TagReady, TagAwaits, Discovers, Aligned, storageVars
<1> QED  BY <1>2, <1>3, <1>4, StorageKept

\* The next block of the one transfer goes to the end of the file it belongs to.
LEMMA BlockArrivesTagInv ==
  ASSUME OneTransfer, TagIInv, TypeOK', NEW i \in Slots, BlockArrives(i) PROVE TagIInv'
<1> USE DEF BlockArrives, setState, TagIInv, Busy, Loading, Active, Patient, imageVars
<1> DEFINE v == fileSpec
           n == transfers[1].number
<1>1. /\ i = 1 /\ Loading /\ v = transfers[1].version /\ stored[v] = n
      /\ ~Busy("query") /\ ~Busy("upgradeEnd") /\ UNCHANGED outstanding
  BY OneSlot DEF QueryAlone, TransferAlone
<1>2. /\ transfers[1] \in Transfer /\ v \in Versions /\ n \in Blocks
  BY <1>1, OneSlot DEF TypeOK, Transfer
<1>3. /\ stored' = [stored EXCEPT ![v] = n + 1]
      /\ content' = [content EXCEPT ![v][n] = v]
  <2>1. n \in Nat
    BY <1>2, OtaAssumption DEF Blocks
  <2>2. stored' = [stored EXCEPT ![v] = IF stored[v] > n THEN stored[v] ELSE n + 1]
    BY <1>1 DEF WriteBlock
  <2>3. content' = [content EXCEPT ![v][n] = v]
    BY <1>1 DEF WriteBlock
  <2>4. (IF stored[v] > n THEN stored[v] ELSE n + 1) = n + 1
    BY <1>1, <2>1
  <2> QED  BY <2>2, <2>3, <2>4, Zenon
<1>4. FilesGenuine'
  <2>1. ASSUME NEW w \in Versions, NEW b \in Blocks, b < stored'[w]
        PROVE  content'[w][b] = w
    <3>1. CASE w # v
      BY <1>3, <2>1, <3>1 DEF FilesGenuine, TypeOK
    <3>2. CASE w = v /\ b = n
      BY <1>2, <1>3, <3>2 DEF TypeOK
    <3>3. CASE w = v /\ b # n
      <4>1. b < stored[v]
        BY <1>1, <1>2, <1>3, <2>1, <3>3, OtaAssumption DEF Blocks, TypeOK
      <4>2. content'[w][b] = content[w][b]
        BY <1>2, <1>3, <3>3 DEF TypeOK
      <4> QED  BY <1>2, <3>3, <4>1, <4>2 DEF FilesGenuine
    <3> QED  BY <3>1, <3>2, <3>3
  <2> QED  BY <2>1 DEF FilesGenuine
<1>5. CASE /\ MoreBlocks(transfers[1])
           /\ transfers' = [transfers EXCEPT ![1].number = n + 1]
           /\ UNCHANGED <<state, timer>>
  <2>1. transfers'[1].version = v /\ transfers'[1].number = n + 1
    BY <1>1, <1>2, <1>5, OneSlot DEF Transfer, TypeOK
  <2>2. TimerFits' /\ QueryAlone' /\ EndAlone'
    BY <1>1, <1>5 DEF TimerFits, QueryAlone, EndAlone
  <2>3. TransferAlone'
    BY <1>1, <1>2, <1>3, <1>5, <2>1 DEF TransferAlone, TypeOK
  <2>4. HasImage' /\ Complete'
    BY <1>1, <1>5 DEF TransferAlone, HasImage, Complete
  <2>5. TagReady' /\ TagAwaits' /\ Discovers'
    <3>1. Loading'
      BY <2>1, <1>2, OtaAssumption DEF NoTransfer, Blocks
    <3> QED  BY <1>1, <1>5, <3>1 DEF TransferAlone, TagReady, TagAwaits, Discovers, serverVars
  <2> QED  BY <1>4, <2>2, <2>3, <2>4, <2>5
<1>6. CASE ~MoreBlocks(transfers[1]) /\ TransferOver(1) /\ setState("VERIFY_DOWNLOAD", "now")
  <2>1. n + 1 = NumBlocks
    <3>1. n \in Nat /\ n <= NumBlocks - 1 /\ NumBlocks \in Nat
      BY <1>2, OtaAssumption DEF Blocks
    <3>2. ~(n + 1 < NumBlocks)
      BY <1>6 DEF MoreBlocks
    <3> HIDE DEF n
    <3> QED  BY <3>1, <3>2
  <2>2. TimerFits' /\ QueryAlone' /\ EndAlone'
    BY <1>1, <1>6 DEF TimerFits, QueryAlone, EndAlone
  <2>3. TransferAlone'
    BY <1>6, OneSlot DEF TransferAlone, TransferOver, TypeOK
  <2>4. HasImage' /\ Complete'
    BY <1>1, <1>2, <1>3, <1>6, <2>1 DEF HasImage, Complete, TypeOK
  <2>5. TagReady' /\ TagAwaits' /\ Discovers'
    BY <1>1, <1>6 DEF TagReady, TagAwaits, Discovers
  <2> QED  BY <1>4, <2>2, <2>3, <2>4, <2>5
<1> QED  BY <1>1, <1>5, <1>6

\* The upgrade end request: sent when none is under way, of a complete image.
LEMMA UpgradeTagInv ==
  ASSUME TagIInv, TypeOK', \/ verifyDownloadStateHandler \/ upgradeEndStateHandler
                           \/ UpgradeEndFails \/ processUpgradeEndResponse \/ InstallRefused
  PROVE  TagIInv'
<1> USE DEF downloadComplete, scheduleUpgradeEnd, scheduleQueryNextImage, Runs, Due, Open, Answer,
      setState, TagIInv, Busy, Loading, Active, Patient, Exchanges, imageVars, storageVars,
      netVars
<1>1. CASE verifyDownloadStateHandler
  <2>1. TimerFits' /\ HasImage' /\ Complete'
    BY <1>1 DEF verifyDownloadStateHandler, TimerFits, EndAlone, HasImage, Complete
  <2>2. QueryAlone' /\ TransferAlone' /\ EndAlone'
    BY <1>1 DEF verifyDownloadStateHandler, QueryAlone, TransferAlone, EndAlone
  <2>3. TagReady' /\ TagAwaits' /\ Discovers'
    BY <1>1 DEF verifyDownloadStateHandler, TagReady, TagAwaits, Discovers, EndAlone, TypeOK
  <2> QED  BY <1>1, <2>1, <2>2, <2>3, StorageKept DEF verifyDownloadStateHandler
<1>2. CASE upgradeEndStateHandler
  <2>1. TimerFits' /\ HasImage' /\ Complete'
    BY <1>2 DEF upgradeEndStateHandler, TimerFits, EndAlone, HasImage, Complete, TypeOK
  <2>2. QueryAlone' /\ TransferAlone' /\ EndAlone'
    BY <1>2 DEF upgradeEndStateHandler, QueryAlone, TransferAlone, EndAlone, TypeOK
  <2>3. TagReady' /\ TagAwaits' /\ Discovers'
    BY <1>2 DEF upgradeEndStateHandler, TagReady, TagAwaits, Discovers, EndAlone, TypeOK
  <2> QED  BY <1>2, <2>1, <2>2, <2>3, StorageKept DEF upgradeEndStateHandler
<1>3. CASE UpgradeEndFails
  <2>1. TimerFits' /\ HasImage' /\ Complete'
    BY <1>3 DEF UpgradeEndFails, TimerFits, EndAlone, HasImage, Complete, TypeOK
  <2>2. QueryAlone' /\ TransferAlone' /\ EndAlone'
    BY <1>3 DEF UpgradeEndFails, QueryAlone, TransferAlone, EndAlone, TypeOK
  <2>3. TagReady' /\ TagAwaits' /\ Discovers'
    BY <1>3 DEF UpgradeEndFails, TagReady, TagAwaits, Discovers, EndAlone, TypeOK
  <2> QED  BY <1>3, <2>1, <2>2, <2>3, StorageKept DEF UpgradeEndFails
<1>4. CASE processUpgradeEndResponse
  <2>1. TimerFits' /\ HasImage' /\ Complete'
    BY <1>4 DEF processUpgradeEndResponse, ServerGivesTime, TimerFits, EndAlone,
                HasImage, Complete, TypeOK
  <2>2. QueryAlone' /\ TransferAlone' /\ EndAlone'
    BY <1>4 DEF processUpgradeEndResponse, QueryAlone, TransferAlone, EndAlone, TypeOK
  <2>3. TagReady' /\ TagAwaits' /\ Discovers'
    BY <1>4, NoTimeIsNever DEF processUpgradeEndResponse, TagReady, TagAwaits, Discovers,
                EndAlone, TypeOK, serverVars
  <2> QED  BY <1>4, <2>1, <2>2, <2>3, StorageKept DEF processUpgradeEndResponse
<1>5. CASE InstallRefused
  <2>1. TimerFits' /\ HasImage' /\ Complete'
    BY <1>5 DEF InstallRefused, TimerFits, HasImage, Complete
  <2>2. QueryAlone' /\ TransferAlone' /\ EndAlone'
    BY <1>5 DEF InstallRefused, QueryAlone, TransferAlone, EndAlone
  <2>3. TagReady' /\ TagAwaits' /\ Discovers'
    BY <1>5 DEF InstallRefused, TagReady, TagAwaits, Discovers, EndAlone, TypeOK
  <2> QED  BY <1>5, <2>1, <2>2, <2>3, StorageKept DEF InstallRefused
<1> QED  BY <1>1, <1>2, <1>3, <1>4, <1>5

\* A reset leaves nothing under way and the files as they are.
LEMMA RestartTagInv == ASSUME TagIInv, TypeOK', Restart, UNCHANGED storageVars PROVE TagIInv'
<1> USE DEF Restart, TagIInv, Busy, Loading, Active, Slots
<1>1. TimerFits' /\ HasImage' /\ Complete'
  BY DEF TimerFits, HasImage, Complete, Exchanges
<1>2. QueryAlone' /\ EndAlone'
  BY DEF QueryAlone, EndAlone, Exchanges
<1>3. TransferAlone'
  <2>1. 1 \in Slots => ~Loading'
    OBVIOUS
  <2>2. 1 \in Slots
    BY OtaAssumption
  <2> QED  BY <2>1, <2>2 DEF TransferAlone
<1>4. TagReady' /\ TagAwaits' /\ Discovers'
  BY DEF TagReady, TagAwaits, Discovers, Exchanges
<1> QED  BY <1>1, <1>2, <1>3, <1>4, StorageKept

LEMMA TagInitInv == TagInit => TagIInv
<1> SUFFICES ASSUME TagInit PROVE TagIInv
  OBVIOUS
<1> USE DEF TagInit, Init, Busy, Loading, Active, Slots
<1>1. TypeOK
  BY InitType
<1>2. TimerFits /\ HasImage /\ Complete
  BY DEF TimerFits, HasImage, Complete, Exchanges
<1>3. QueryAlone /\ EndAlone
  BY DEF QueryAlone, EndAlone, Exchanges
<1>4. 1 \in Slots /\ TransferAlone
  BY OtaAssumption DEF TransferAlone
<1>5. FilesGenuine
  BY DEF FilesGenuine, Blocks, Absent
<1>6. TagReady /\ TagAwaits /\ Discovers
  BY DEF TagReady, TagAwaits, Discovers, Exchanges
<1> QED  BY <1>1, <1>2, <1>3, <1>4, <1>5, <1>6 DEF TagIInv

LEMMA TagStepInv == ASSUME OneTransfer PROVE TagIInv /\ [TagNext]_allVars => TagIInv'
<1> SUFFICES ASSUME OneTransfer, TagIInv, [TagNext]_allVars PROVE TagIInv'
  OBVIOUS
<1>1. TypeOK'
  BY TagStepType DEF TagIInv
<1>2. CASE TagReset
  <2>1. Restart /\ UNCHANGED storageVars
    BY <1>2 DEF TagReset, Resets, Reboot, InstallNewImage, storageVars
  <2> QED  BY <1>1, <2>1, RestartTagInv
<1>3. CASE ClientStep
  BY <1>1, <1>3, DiscoverTagInv, noneTagInv, discoverServerTagInv, queryTagInv,
     queryAnswerTagInv, downloadTagInv, BlockFailsTagInv, BlockArrivesTagInv, UpgradeTagInv
  DEF ClientStep, EventHandler, ResponseHandler
<1>4. CASE \/ \E router \in Routers : announceToAddress(router)
           \/ \E last, unspecified \in BOOLEAN : emberGetGlobalAddressReturn(last, unspecified)
  BY <1>1, <1>4, DiscoverTagInv
<1>5. CASE UNCHANGED allVars
  <2>1. Discovers'
    BY <1>5 DEF allVars, vars, serverVars, netVars, TagIInv, Discovers, Busy
  <2> QED  BY <1>1, <1>5, <2>1, GoesBack DEF allVars, vars, netVars, imageVars, storageVars
<1> QED  BY <1>2, <1>3, <1>4, <1>5 DEF TagNext

----------------------------------------------------------------------------
(* The theorems.                                                            *)

\* The inductive invariant, for every number of images, blocks and routers.
THEOREM TagInvariance == ASSUME OneTransfer PROVE TagSpec => []TagIInv
<1>1. TagInit => TagIInv
  BY TagInitInv
<1>2. TagIInv /\ [TagNext]_allVars => TagIInv'
  BY TagStepInv
<1> QED  BY <1>1, <1>2, PTL DEF TagSpec

LEMMA TagSuccessMaps == TagIInv => SuccessMeansWhole
<1> SUFFICES ASSUME TagIInv, state = "UPGRADE_END", downloadStatus = "SUCCESS"
             PROVE  Whole(fileSpec)
  BY DEF SuccessMeansWhole
<1>1. fileSpec \in Versions /\ stored[fileSpec] = NumBlocks
  BY DEF TagIInv, TypeOK, HasImage, Complete
<1> QED  BY <1>1, OtaAssumption DEF TagIInv, FilesGenuine, Whole, Blocks

\* Among late lookups and announcements, too, the server is told SUCCESS only of
\* a whole image.
THEOREM TagSuccessCorrect == ASSUME OneTransfer PROVE TagSpec => []SuccessMeansWhole
<1>1. TagSpec => []TagIInv
  BY TagInvariance
<1> QED  BY <1>1, TagSuccessMaps, PTL

LEMMA TagStallsMaps == TagIInv => StallsOnlyInDiscovery
<1> SUFFICES ASSUME TagIInv, timer = "off", state \notin {"NONE", "DISCOVER_SERVER", "BOOTLOAD"},
                    ~(state = "UPGRADE_END" /\ upgradeReply.currentTime = Never)
             PROVE  Waiting
  BY DEF StallsOnlyInDiscovery
<1>1. state \in {"QUERY_NEXT_IMAGE", "DOWNLOAD", "UPGRADE_END"}
  BY DEF TagIInv, TypeOK, States, TimerFits
<1>2. Loading \/ \E e \in Exchanges : Busy(e)
  BY <1>1 DEF TagIInv, TagAwaits, Exchanges
<1>3. 1 \in Slots
  BY OtaAssumption DEF Slots
<1> QED  BY <1>2, <1>3 DEF Waiting, Loading, Busy

\* Wherever a late lookup or an announcement sends the client back from, it stalls
\* at most in the discovery.
THEOREM TagStallsOnlyInDiscovery ==
  ASSUME OneTransfer PROVE TagSpec => []StallsOnlyInDiscovery
<1>1. TagSpec => []TagIInv
  BY TagInvariance
<1> QED  BY <1>1, TagStallsMaps, PTL

\* And there only if the policy uses DNS: without it, announcements stall nothing.
THEOREM TagNeverStalls ==
  ASSUME OneTransfer, "dns" \notin ServerLookups PROVE TagSpec => []NeverStalls
<1>1. TagSpec => []TagIInv
  BY TagInvariance
<1>2. ASSUME TagIInv, timer = "off", state = "DISCOVER_SERVER" PROVE Waiting
  BY <1>2 DEF TagIInv, Discovers, Busy, Waiting, Exchanges
<1>3. TagIInv => NeverStalls
  BY <1>2, TagStallsMaps DEF StallsOnlyInDiscovery, NeverStalls
<1> QED  BY <1>1, <1>3, PTL

\* Of what the handlers assert, only the server can be missing, when the policy
\* deletes the file it has of an image before it downloads it again.
THEOREM TagOnlyServerMissing ==
  ASSUME OneTransfer, DeleteExisting PROVE TagSpec => []OnlyServerMissing
<1>1. TagSpec => []TagIInv
  BY TagInvariance
<1>2. ASSUME TagIInv PROVE OnlyServerMissing
  <2>1. timer # "off" /\ haveServer => Asserts(state)
    BY <1>2 DEF TagIInv, TagReady, HasImage, Asserts
  <2>2. ASSUME NEW i \in Slots, Active(i) PROVE fileSpec # NoVersion
    BY <1>2, <2>2, OneSlot, OtaAssumption DEF TagIInv, TypeOK, TransferAlone, Loading, Active,
                                              Transfer
  <2>3. outstanding["upgradeEnd"] > 0 => fileSpec # NoVersion
    BY <1>2 DEF TagIInv, HasImage, Busy
  <2> QED  BY <2>1, <2>2, <2>3 DEF OnlyServerMissing
<1> QED  BY <1>1, <1>2, PTL

LEMMA TagInvariantCore == TagIInv => Core
BY DEF TagIInv, Core, Apart, QueryAlone, TransferAlone, Patient

\* A lookup, an announcement and the shared callback propose nothing.
LEMMA SharedQuiet ==
  ASSUME \/ dnsLookupResponseHandler
         \/ \E router \in Routers : announceToAddress(router)
         \/ \E last, unspecified \in BOOLEAN : emberGetGlobalAddressReturn(last, unspecified)
  PROVE  /\ UNCHANGED <<storageVars, running>>
         /\ Candidate # NoVersion => Candidate' \in {Candidate, NoVersion}
BY DEF dnsLookupResponseHandler, announceToAddress, emberGetGlobalAddressReturn,
       OTAGetGlobalAddressCallback, scheduleDiscoverServer, scheduleQueryNextImage, setState,
       Candidate, imageVars

LEMMA TagUpdateStep ==
  ASSUME OneTransfer, Core, Core', [TagNext]_allVars PROVE [Update!Next]_(Update!update)
<1>1. CASE TagReset \/ (ClientStep /\ ~dnsLookupResponseHandler) \/ UNCHANGED allVars
  <2>1. [Next]_vars
    BY <1>1 DEF TagReset, ClientStep, Next, allVars
  <2> QED  BY <2>1, UpdateStep
<1>2. CASE ~(TagReset \/ (ClientStep /\ ~dnsLookupResponseHandler) \/ UNCHANGED allVars)
  BY <1>2, SharedQuiet, QuietMaps DEF TagNext, ClientStep
<1> QED  BY <1>1, <1>2

\* The client among the announcements still implements an update.
THEOREM TagImplementation == ASSUME OneTransfer PROVE TagSpec => ImplementsUpdate
<1>1. TagSpec => []TagIInv
  BY TagInvariance
<1>2. Core /\ Core' /\ [TagNext]_allVars => [Update!Next]_(Update!update)
  BY TagUpdateStep
<1>3. TagInit => Update!Empty
  BY UpdateInit DEF TagInit
<1> QED  BY <1>1, <1>2, <1>3, TagInvariantCore, PTL DEF TagSpec, ImplementsUpdate, Update!Spec

\* Only the bootload changes the running image.
LEMMA TagInstallMaps ==
  ASSUME Core, [TagNext]_allVars, running' # running PROVE Whole(running')
<1>1. InstallNewImage
  BY DEF TagNext, TagReset, ClientStep, announceToAddress, emberGetGlobalAddressReturn,
         OTAGetGlobalAddressCallback, dnsLookupResponseHandler, Resets, Reboot, NetworkAttached,
         EventHandler, ResponseHandler, noneStateHandler, discoverServerStateHandler,
         ServerResponds, DiscoveryTimedOut, queryNextImageStateHandler, QueryWithoutParameters,
         QueryFails, processQueryNextImageResponse, downloadStateHandler,
         verifyDownloadStateHandler, BlockFails, BlockArrives, upgradeEndStateHandler,
         UpgradeEndFails, processUpgradeEndResponse, InstallRefused, vars, allVars
<1>2. state = "BOOTLOAD" /\ fileSpec # NoVersion /\ running' = fileSpec
  BY <1>1 DEF InstallNewImage, Runs, Due, Asserts
<1>3. Candidate = fileSpec /\ Candidate \in WholeImages
  BY <1>2, CandidateWhole DEF Candidate
<1> QED  BY <1>2, <1>3 DEF WholeImages

\* Whatever comes in late or is reset, only a whole image is ever installed.
THEOREM TagInstallCorrect == ASSUME OneTransfer PROVE TagSpec => InstallsWholeImage
<1>1. TagSpec => []TagIInv
  BY TagInvariance
<1>2. Core /\ [TagNext]_allVars => [running' # running => Whole(running')]_vars
  BY TagInstallMaps
<1> QED  BY <1>1, <1>2, TagInvariantCore, PTL DEF TagSpec, InstallsWholeImage

\* What the announcements and the lookups do to a download is to leave it alone
\* or to leave it.
LEMMA SharedNearer ==
  ASSUME \/ dnsLookupResponseHandler
         \/ \E router \in Routers : announceToAddress(router)
         \/ \E last, unspecified \in BOOLEAN : emberGetGlobalAddressReturn(last, unspecified)
  PROVE  UNCHANGED <<errors, fileSpec, stored, transfers>>
BY DEF dnsLookupResponseHandler, announceToAddress, emberGetGlobalAddressReturn,
       OTAGetGlobalAddressCallback, imageVars, storageVars

LEMMA TagProgressMaps ==
  ASSUME OneTransfer, Core, [TagNext]_allVars,
         state = "DOWNLOAD", state' = "DOWNLOAD", fileSpec' = fileSpec
  PROVE  Nearer' = IF Answered THEN Nearer + 1 ELSE Nearer
<1>1. CASE [Next]_vars
  BY <1>1, ProgressMaps
<1>2. CASE ~[Next]_vars
  <2>1. \/ dnsLookupResponseHandler
        \/ \E router \in Routers : announceToAddress(router)
        \/ \E last, unspecified \in BOOLEAN : emberGetGlobalAddressReturn(last, unspecified)
    BY <1>2 DEF TagNext, TagReset, ClientStep, Next, allVars
  <2> QED  BY <2>1, SharedNearer, NothingNearer
<1> QED  BY <1>1, <1>2

\* Nor do lookups and announcements that come in late take a download back.
THEOREM TagProgress == ASSUME OneTransfer PROVE TagSpec => DownloadProgresses
<1>1. TagSpec => []TagIInv
  BY TagInvariance
<1>2. Core /\ [TagNext]_allVars =>
        [state = "DOWNLOAD" /\ state' = "DOWNLOAD" /\ fileSpec' = fileSpec =>
           Nearer' = IF Answered THEN Nearer + 1 ELSE Nearer]_vars
  BY TagProgressMaps
<1> QED  BY <1>1, <1>2, TagInvariantCore, PTL DEF TagSpec, DownloadProgresses

\* A lookup or an announcement may give up the wait for the upgrade, but does not
\* change how long it is.
LEMMA TagTimedStep == ASSUME Timed, TypeOK', [TagNext]_allVars PROVE Timed'
<1>1. CASE [Next]_vars
  BY <1>1, TimedStep
<1>2. CASE ~[Next]_vars
  <2>1. \/ dnsLookupResponseHandler
        \/ \E router \in Routers : announceToAddress(router)
        \/ \E last, unspecified \in BOOLEAN : emberGetGlobalAddressReturn(last, unspecified)
    BY <1>2 DEF TagNext, TagReset, ClientStep, Next, allVars
  <2>2. upgradeReply' = upgradeReply /\ (timer' = timer \/ timer' = "period")
    BY <2>1 DEF dnsLookupResponseHandler, announceToAddress, emberGetGlobalAddressReturn,
                OTAGetGlobalAddressCallback, imageVars, setState, scheduleDiscoverServer,
                scheduleQueryNextImage
  <2> QED  BY <2>2 DEF Timed
<1> QED  BY <1>1, <1>2

\* Whoever else uses the callback, the upgrade comes when the server said.
THEOREM TagUpgradeTimely == TagSpec => []UpgradeOnTime
<1>1. TagInit => Timed
  BY InitType DEF TagInit, Init, Timed
<1>2. Timed /\ [TagNext]_allVars => Timed'
  BY TagTimedStep, TagStepType DEF Timed
<1> QED  BY <1>1, <1>2, TimedMaps, PTL DEF TagSpec
=============================================================================
