---------------------- MODULE OtaBootloadClient_proofs ----------------------
(***************************************************************************)
(* Proofs about the OTA bootload client: its types for every instance, and *)
(* its safety for every number of images, of blocks and of errors, when a  *)
(* transfer ends within the query period.  That the policy deletes an old  *)
(* file before it is downloaded again matters to one assert only.          *)
(***************************************************************************)
EXTENDS OtaBootloadClient, OtaDelays_proofs, TLAPS

----------------------------------------------------------------------------
(* Types.                                                                   *)

LEMMA ExchangeCounts ==
  ASSUME TypeOK, NEW e \in Exchanges, Open(e) \/ Answer(e)
  PROVE  outstanding' \in [Exchanges -> 0..MaxExchanges]
BY DEF TypeOK, Open, Answer, MaxExchanges

LEMMA ErrorCounts ==
  ASSUME TypeOK, handleBlockError
  PROVE  /\ errors' \in 0..(BlockErrorThreshold - 1)
         /\ downloadStatus' \in {"NULL", "SUCCESS", "ABORT", "INVALID_IMAGE"}
         /\ state' \in States /\ timer' \in Timers
<1>1. BlockErrorThreshold \in Nat \ {0} /\ errors \in 0..(BlockErrorThreshold - 1)
  BY OtaAssumption DEF TypeOK
<1>2. errors' \in 0..(BlockErrorThreshold - 1)
  BY <1>1 DEF handleBlockError
<1> QED
  BY <1>2 DEF handleBlockError, downloadComplete, scheduleUpgradeEnd, setState, States, Timers,
              TypeOK

LEMMA RestartType ==
  ASSUME TypeOK, Restart, stored' = stored, content' = content,
         running' \in Versions \cup {NoVersion}
  PROVE  TypeOK'
<1>1. 0 \in 0..(BlockErrorThreshold - 1) /\ 0 \in 0..MaxExchanges
  BY OtaAssumption DEF MaxExchanges
<1> QED  BY <1>1 DEF TypeOK, Restart, States, Timers, Transfer

LEMMA InitType == Init => TypeOK
<1>1. 0 \in 0..(BlockErrorThreshold - 1) /\ 0 \in 0..MaxExchanges /\ Absent \in Absent..NumBlocks
  BY OtaAssumption DEF MaxExchanges, Absent
<1>2. Blank \in [Blocks -> Versions \cup {NoVersion}]
  BY DEF Blank
<1> QED  BY <1>1, <1>2 DEF Init, TypeOK, States, Timers, Transfer

\* What a step leaves as it is keeps its type.
LEMMA DiscoverType ==
  ASSUME TypeOK, \/ NetworkAttached \/ noneStateHandler \/ discoverServerStateHandler
                 \/ ServerResponds \/ DiscoveryTimedOut
  PROVE  TypeOK'
<1> USE DEF TypeOK, States, Timers, serverVars, imageVars, storageVars, netVars,
      setState, scheduleDiscoverServer, scheduleQueryNextImage
<1>1. CASE NetworkAttached
  BY <1>1 DEF NetworkAttached
<1>2. CASE noneStateHandler
  BY <1>2 DEF noneStateHandler
<1>3. CASE discoverServerStateHandler
  <2>1. outstanding' \in [Exchanges -> 0..MaxExchanges]
    BY <1>3, ExchangeCounts DEF discoverServerStateHandler, Sent, Exchanges
  <2>2. addressCalls' \in 0..MaxExchanges
    BY <1>3 DEF discoverServerStateHandler, Sent, MaxExchanges
  <2> QED  BY <1>3, <2>1, <2>2 DEF discoverServerStateHandler, Sent
<1>4. CASE ServerResponds
  BY <1>4 DEF ServerResponds
<1>5. CASE DiscoveryTimedOut
  <2>1. outstanding' \in [Exchanges -> 0..MaxExchanges]
    BY <1>5, ExchangeCounts DEF DiscoveryTimedOut, Exchanges
  <2> QED  BY <1>5, <2>1 DEF DiscoveryTimedOut
<1> QED  BY <1>1, <1>2, <1>3, <1>4, <1>5

LEMMA QueryType ==
  ASSUME TypeOK, \/ queryNextImageStateHandler \/ QueryWithoutParameters \/ QueryFails
                 \/ processQueryNextImageResponse
  PROVE  TypeOK'
<1> USE DEF TypeOK, States, Timers, serverVars, imageVars, storageVars, netVars,
      setState, scheduleDiscoverServer, scheduleQueryNextImage
<1>1. CASE queryNextImageStateHandler
  <2>1. outstanding' \in [Exchanges -> 0..MaxExchanges]
    BY <1>1, ExchangeCounts DEF queryNextImageStateHandler, Sent, Exchanges
  <2> QED  BY <1>1, <2>1 DEF queryNextImageStateHandler, Sent
<1>2. CASE QueryWithoutParameters
  BY <1>2 DEF QueryWithoutParameters
<1>3. CASE QueryFails
  <2>1. outstanding' \in [Exchanges -> 0..MaxExchanges]
    BY <1>3, ExchangeCounts DEF QueryFails, Exchanges
  <2> QED  BY <1>3, <2>1 DEF QueryFails
<1>4. CASE processQueryNextImageResponse
  <2>1. outstanding' \in [Exchanges -> 0..MaxExchanges]
    BY <1>4, ExchangeCounts DEF processQueryNextImageResponse, Exchanges
  <2>2. Absent \in Absent..NumBlocks /\ Blank \in [Blocks -> Versions \cup {NoVersion}]
    BY OtaAssumption DEF Absent, Blank
  <2>3. stored' \in [Versions -> Absent..NumBlocks]
        /\ content' \in [Versions -> [Blocks -> Versions \cup {NoVersion}]]
    BY <1>4, <2>2 DEF processQueryNextImageResponse, StartDownload
  <2> QED  BY <1>4, <2>1, <2>3 DEF processQueryNextImageResponse, StartDownload
<1> QED  BY <1>1, <1>2, <1>3, <1>4

LEMMA OffsetFits ==
  ASSUME TypeOK, Asserts("DOWNLOAD")
  PROVE  /\ fileSpec \in Versions
         /\ OffsetBlock(fileSpec) \in Blocks /\ OffsetBlock(fileSpec) \in Absent..NumBlocks
<1>1. fileSpec \in Versions /\ stored[fileSpec] \in Absent..NumBlocks
      /\ stored[fileSpec] # NumBlocks /\ NumBlocks \in Nat \ {0}
  BY OtaAssumption DEF TypeOK, Asserts, Aligned
<1> QED  BY <1>1 DEF OffsetBlock, Absent, Blocks

LEMMA DownloadType ==
  ASSUME TypeOK, \/ downloadStateHandler \/ verifyDownloadStateHandler
                 \/ \E i \in Slots : BlockFails(i) \/ BlockArrives(i)
  PROVE  TypeOK'
<1> USE DEF TypeOK, serverVars, imageVars, storageVars, netVars
<1>1. CASE downloadStateHandler
  <2>1. Asserts("DOWNLOAD")
    BY <1>1 DEF downloadStateHandler, Runs
  <2>2. stored' \in [Versions -> Absent..NumBlocks]
    BY <1>1, <2>1, OffsetFits DEF downloadStateHandler
  <2>3. transfers' \in [Slots -> Transfer \cup {NoTransfer}]
    BY <1>1, <2>1, OffsetFits DEF downloadStateHandler, Transfer
  <2> QED  BY <1>1, <2>2, <2>3 DEF downloadStateHandler, setState, States, Timers
<1>2. CASE verifyDownloadStateHandler
  BY <1>2 DEF verifyDownloadStateHandler, downloadComplete, scheduleUpgradeEnd, setState, States,
              Timers
<1>3. ASSUME NEW i \in Slots, BlockFails(i) PROVE TypeOK'
  <2>1. transfers' \in [Slots -> Transfer \cup {NoTransfer}]
    BY <1>3 DEF BlockFails, TransferOver
  <2> QED  BY <1>3, <2>1, ErrorCounts DEF BlockFails
<1>4. ASSUME NEW i \in Slots, BlockArrives(i) PROVE TypeOK'
  <2>1. transfers[i] \in Transfer /\ transfers[i].number \in Blocks
        /\ transfers[i].version \in Versions /\ fileSpec \in Versions
    BY <1>4 DEF BlockArrives, Active, Transfer
  <2>2. stored' \in [Versions -> Absent..NumBlocks]
    <3>1. stored[fileSpec] \in Absent..NumBlocks /\ transfers[i].number + 1 \in Absent..NumBlocks
      BY <2>1, OtaAssumption DEF Blocks, Absent
    <3> QED  BY <1>4, <2>1, <3>1 DEF BlockArrives, WriteBlock
  <2>3. content' \in [Versions -> [Blocks -> Versions \cup {NoVersion}]]
    <3>1. content' = [content EXCEPT ![fileSpec] =
                        [content[fileSpec] EXCEPT ![transfers[i].number] = transfers[i].version]]
      BY <1>4, <2>1 DEF BlockArrives, WriteBlock
    <3>2. [content[fileSpec] EXCEPT ![transfers[i].number] = transfers[i].version]
            \in [Blocks -> Versions \cup {NoVersion}]
      BY <2>1
    <3> QED  BY <2>1, <3>1, <3>2
  <2>4. transfers' \in [Slots -> Transfer \cup {NoTransfer}]
    <3>1. CASE TransferOver(i)
      BY <3>1 DEF TransferOver
    <3>2. CASE MoreBlocks(transfers[i]) /\ transfers' = [transfers EXCEPT ![i].number = @ + 1]
      <4>1. transfers[i].number + 1 \in Blocks
        BY <2>1, <3>2, OtaAssumption DEF MoreBlocks, Blocks
      <4>2. [transfers[i] EXCEPT !.number = @ + 1] \in Transfer
        BY <2>1, <4>1 DEF Transfer
      <4> QED  BY <3>2, <4>2
    <3> QED  BY <1>4, <3>1, <3>2 DEF BlockArrives
  <2>5. state' \in States /\ timer' \in Timers
    BY <1>4 DEF BlockArrives, setState, States, Timers
  <2> QED  BY <1>4, <2>2, <2>3, <2>4, <2>5 DEF BlockArrives
<1> QED  BY <1>1, <1>2, <1>3, <1>4

LEMMA UpgradeType ==
  ASSUME TypeOK, \/ upgradeEndStateHandler \/ UpgradeEndFails \/ processUpgradeEndResponse
                 \/ InstallRefused
  PROVE  TypeOK'
<1> USE DEF TypeOK, States, Timers, serverVars, imageVars, storageVars, netVars,
      setState, scheduleUpgradeEnd, scheduleQueryNextImage
<1>1. CASE upgradeEndStateHandler
  <2>1. outstanding' \in [Exchanges -> 0..MaxExchanges]
    BY <1>1, ExchangeCounts DEF upgradeEndStateHandler, Exchanges
  <2> QED  BY <1>1, <2>1 DEF upgradeEndStateHandler
<1>2. CASE UpgradeEndFails
  <2>1. outstanding' \in [Exchanges -> 0..MaxExchanges]
    BY <1>2, ExchangeCounts DEF UpgradeEndFails, Exchanges
  <2> QED  BY <1>2, <2>1 DEF UpgradeEndFails
<1>3. CASE processUpgradeEndResponse
  <2>1. outstanding' \in [Exchanges -> 0..MaxExchanges]
    BY <1>3, ExchangeCounts DEF processUpgradeEndResponse, Exchanges
  <2> QED  BY <1>3, <2>1 DEF processUpgradeEndResponse
<1>4. CASE InstallRefused
  BY <1>4 DEF InstallRefused
<1> QED  BY <1>1, <1>2, <1>3, <1>4

LEMMA StepType == TypeOK /\ [Next]_vars => TypeOK'
<1> SUFFICES ASSUME TypeOK, [Next]_vars PROVE TypeOK'
  OBVIOUS
<1>1. CASE Resets
  <2>1. /\ Restart /\ stored' = stored /\ content' = content
        /\ running' \in Versions \cup {NoVersion}
    BY <1>1 DEF Resets, Reboot, InstallNewImage, storageVars, TypeOK
  <2> QED  BY <2>1, RestartType
<1>2. CASE UNCHANGED vars
  BY <1>2 DEF vars, serverVars, imageVars, storageVars, netVars, TypeOK
<1> QED
  BY <1>1, <1>2, DiscoverType, QueryType, DownloadType, UpgradeType
     DEF Next, EventHandler, ResponseHandler

\* The types of the client's state, for every instance: errors never reaches
\* the threshold and no block is out of its image.
THEOREM TypeCorrect == Spec => []TypeOK
<1> QED  BY InitType, StepType, PTL DEF Spec

----------------------------------------------------------------------------
(* Safety.                                                                  *)

\* A transfer ends within the query period.
OneTransfer == MaxTransfers = 1

Busy(e) == outstanding[e] > 0
Loading == Active(1)

\* Waiting for a period to pass: the state in which the client lets what it
\* had begun come to its end after a re-attachment.
Patient == state \in {"DISCOVER_SERVER", "QUERY_NEXT_IMAGE"} /\ timer = "period"

\* Each state has its own delays.
TimerFits ==
  /\ state = "NONE" => timer \in {"now", "off"}
  /\ state \in {"DISCOVER_SERVER", "QUERY_NEXT_IMAGE"} => timer \in {"period", "off"}
  /\ state = "DOWNLOAD" => timer \in {"now", "backoff", "off"}
  /\ state = "VERIFY_DOWNLOAD" => timer = "now"
  /\ state = "UPGRADE_END" => timer \in {"backoff", "off"}
  /\ state = "BOOTLOAD" => timer \in {"upgrade", "off"}

\* One exchange or transfer at a time, left overs included.
OneAtATime ==
  /\ \A e \in Exchanges : outstanding[e] <= 1
  /\ \A e, f \in Exchanges : Busy(e) /\ Busy(f) => e = f
  /\ \A e \in Exchanges : Busy(e) => ~Loading
  /\ ~Busy("dns")

\* What is under way was begun in the state it belongs to, and that state has
\* not changed but for a re-attachment.
Phases ==
  /\ Busy("discover") =>
       Patient \/ (state = "DISCOVER_SERVER" /\ timer = "off" /\ ~haveServer)
  /\ Busy("query") =>
       /\ haveServer
       /\ \/ state = "QUERY_NEXT_IMAGE" /\ timer = "off"
          \/ state = "DISCOVER_SERVER" /\ timer = "period"
  /\ Busy("upgradeEnd") =>
       /\ haveServer /\ fileSpec # NoVersion /\ downloadStatus # "NULL"
       /\ Patient \/ (state = "UPGRADE_END" /\ timer = "off")
  /\ Loading =>
       /\ haveServer /\ fileSpec = transfers[1].version
       /\ stored[fileSpec] = transfers[1].number
       /\ Patient \/ (state = "DOWNLOAD" /\ timer = "off")

\* A client whose timer is off waits for what its state has begun.
Awaits ==
  timer = "off" =>
    /\ state = "DISCOVER_SERVER" => Busy("discover") \/ addressCalls > 0
    /\ state = "QUERY_NEXT_IMAGE" => Busy("query")
    /\ state = "DOWNLOAD" => Loading
    /\ state = "UPGRADE_END" => Busy("upgradeEnd") \/ upgradeReply.currentTime = Never

\* What the asserts of a state look at was there when the state was entered;
\* a file that is not deleted may be complete when its download starts again.
Ready ==
  /\ state \notin {"NONE", "DISCOVER_SERVER"} => haveServer
  /\ state \in {"DOWNLOAD", "VERIFY_DOWNLOAD", "UPGRADE_END", "BOOTLOAD"} => fileSpec # NoVersion
  /\ state = "UPGRADE_END" => downloadStatus # "NULL"
  /\ DeleteExisting /\ state = "DOWNLOAD" /\ timer # "off" => Aligned(fileSpec)

\* The blocks a file has are those of its image.
FilesGenuine == \A v \in Versions : \A b \in Blocks : b < stored[v] => content[v][b] = v

\* Past the download the file is complete, unless it was given up.
Complete ==
  \/ state \in {"VERIFY_DOWNLOAD", "BOOTLOAD"}
  \/ downloadStatus = "SUCCESS" /\ (state = "UPGRADE_END" \/ Busy("upgradeEnd"))
  => stored[fileSpec] = NumBlocks

IInv ==
  TypeOK /\ TimerFits /\ OneAtATime /\ Phases /\ Awaits /\ Ready /\ FilesGenuine /\ Complete

\* With one slot, what is said of the transfers is said of the first.
LEMMA OneSlot == OneTransfer => Slots = {1}
BY DEF OneTransfer, Slots

\* Files are genuine after a step that does not touch them.
LEMMA StorageKept == FilesGenuine /\ UNCHANGED storageVars => FilesGenuine'
BY DEF FilesGenuine, storageVars

\* Nor does the start of a download mix files, whether it deletes one or not.
LEMMA StartKeepsGenuine ==
  ASSUME TypeOK, FilesGenuine, NEW v \in Versions, StartDownload(v)
  PROVE  FilesGenuine'
<1>1. CASE DeleteExisting
  <2>1. /\ stored' = [stored EXCEPT ![v] = Absent]
        /\ content' = [content EXCEPT ![v] = Blank]
    BY <1>1 DEF StartDownload
  <2>2. \A b \in Blocks : ~(b < Absent)
    BY DEF Blocks, Absent
  <2> QED  BY <2>1, <2>2 DEF FilesGenuine, TypeOK
<1>2. CASE ~DeleteExisting
  <2>1. stored' = stored /\ content' = content
    BY <1>2 DEF StartDownload, TypeOK
  <2> QED  BY <2>1 DEF FilesGenuine
<1> QED  BY <1>1, <1>2

LEMMA NetworkAttachedInv ==
  ASSUME OneTransfer, IInv, TypeOK', NetworkAttached PROVE IInv'
<1> USE DEF IInv, TypeOK, Exchanges, Busy, Loading, Active, Patient, setState,
      serverVars, imageVars, storageVars, netVars, NetworkAttached,
      scheduleDiscoverServer
<1>1. TimerFits' /\ Awaits'
  BY OneSlot DEF TimerFits, OneAtATime, Phases, Awaits
<1>2. OneAtATime'
  BY OneSlot DEF TimerFits, OneAtATime, Phases
<1>3. Phases'
  BY OneSlot DEF TimerFits, OneAtATime, Phases, Ready
<1>4. Ready' /\ Complete'
  BY OneSlot DEF TimerFits, OneAtATime, Phases, Ready, Complete, Aligned
<1> QED  BY <1>1, <1>2, <1>3, <1>4, StorageKept

LEMMA noneStateHandlerInv ==
  ASSUME OneTransfer, IInv, TypeOK', noneStateHandler PROVE IInv'
<1> USE DEF IInv, TypeOK, Exchanges, Busy, Loading, Active, Patient, setState,
      serverVars, imageVars, storageVars, netVars, noneStateHandler, Due
<1>1. TimerFits' /\ Awaits'
  BY OneSlot DEF TimerFits, OneAtATime, Phases, Awaits
<1>2. OneAtATime'
  BY OneSlot DEF TimerFits, OneAtATime, Phases
<1>3. Phases'
  BY OneSlot DEF TimerFits, OneAtATime, Phases, Ready
<1>4. Ready' /\ Complete'
  BY OneSlot DEF TimerFits, OneAtATime, Phases, Ready, Complete, Aligned
<1> QED  BY <1>1, <1>2, <1>3, <1>4, StorageKept

LEMMA discoverServerStateHandlerInv ==
  ASSUME OneTransfer, IInv, TypeOK', discoverServerStateHandler PROVE IInv'
<1> USE DEF IInv, TypeOK, Exchanges, Busy, Loading, Active, Patient, setState,
      serverVars, imageVars, storageVars, netVars, discoverServerStateHandler, Due,
      PeriodOver, Sent, Open, scheduleQueryNextImage, scheduleDiscoverServer
<1>1. TimerFits' /\ Awaits'
  BY OneSlot DEF TimerFits, OneAtATime, Phases, Awaits
<1>2. OneAtATime'
  BY OneSlot DEF TimerFits, OneAtATime, Phases
<1>3. Phases'
  BY OneSlot DEF TimerFits, OneAtATime, Phases, Ready
<1>4. Ready' /\ Complete'
  BY OneSlot DEF TimerFits, OneAtATime, Phases, Ready, Complete, Aligned
<1> QED  BY <1>1, <1>2, <1>3, <1>4, StorageKept

LEMMA ServerRespondsInv ==
  ASSUME OneTransfer, IInv, TypeOK', ServerResponds PROVE IInv'
<1> USE DEF IInv, TypeOK, Exchanges, Busy, Loading, Active, Patient, setState,
      serverVars, imageVars, storageVars, netVars, ServerResponds,
      scheduleQueryNextImage, scheduleDiscoverServer
<1>1. TimerFits' /\ Awaits'
  BY OneSlot DEF TimerFits, OneAtATime, Phases, Awaits
<1>2. OneAtATime'
  BY OneSlot DEF TimerFits, OneAtATime, Phases
<1>3. Phases'
  BY OneSlot DEF TimerFits, OneAtATime, Phases, Ready
<1>4. Ready' /\ Complete'
  BY OneSlot DEF TimerFits, OneAtATime, Phases, Ready, Complete, Aligned
<1> QED  BY <1>1, <1>2, <1>3, <1>4, StorageKept

LEMMA DiscoveryTimedOutInv ==
  ASSUME OneTransfer, IInv, TypeOK', DiscoveryTimedOut PROVE IInv'
<1> USE DEF IInv, TypeOK, Exchanges, Busy, Loading, Active, Patient, setState,
      serverVars, imageVars, storageVars, netVars, DiscoveryTimedOut, Answer,
      scheduleDiscoverServer
<1>1. TimerFits' /\ Awaits'
  BY OneSlot DEF TimerFits, OneAtATime, Phases, Awaits
<1>2. OneAtATime'
  BY OneSlot DEF TimerFits, OneAtATime, Phases
<1>3. Phases'
  BY OneSlot DEF TimerFits, OneAtATime, Phases, Ready
<1>4. Ready' /\ Complete'
  BY OneSlot DEF TimerFits, OneAtATime, Phases, Ready, Complete, Aligned
<1> QED  BY <1>1, <1>2, <1>3, <1>4, StorageKept

LEMMA queryNextImageStateHandlerInv ==
  ASSUME OneTransfer, IInv, TypeOK', queryNextImageStateHandler PROVE IInv'
<1> USE DEF IInv, TypeOK, Exchanges, Busy, Loading, Active, Patient, setState,
      serverVars, imageVars, storageVars, netVars, queryNextImageStateHandler, Runs,
      Due, PeriodOver, Asserts, Sent, Open, scheduleQueryNextImage
<1>1. TimerFits' /\ Awaits'
  BY OneSlot DEF TimerFits, OneAtATime, Phases, Awaits
<1>2. OneAtATime'
  BY OneSlot DEF TimerFits, OneAtATime, Phases
<1>3. Phases'
  BY OneSlot DEF TimerFits, OneAtATime, Phases, Ready
<1>4. Ready' /\ Complete'
  BY OneSlot DEF TimerFits, OneAtATime, Phases, Ready, Complete, Aligned
<1> QED  BY <1>1, <1>2, <1>3, <1>4, StorageKept

LEMMA QueryWithoutParametersInv ==
  ASSUME OneTransfer, IInv, TypeOK', QueryWithoutParameters PROVE IInv'
<1> USE DEF IInv, TypeOK, Exchanges, Busy, Loading, Active, Patient, setState,
      serverVars, imageVars, storageVars, netVars, QueryWithoutParameters, Due,
      PeriodOver, scheduleQueryNextImage
<1>1. TimerFits' /\ Awaits'
  BY OneSlot DEF TimerFits, OneAtATime, Phases, Awaits
<1>2. OneAtATime'
  BY OneSlot DEF TimerFits, OneAtATime, Phases
<1>3. Phases'
  BY OneSlot DEF TimerFits, OneAtATime, Phases, Ready
<1>4. Ready' /\ Complete'
  BY OneSlot DEF TimerFits, OneAtATime, Phases, Ready, Complete, Aligned
<1> QED  BY <1>1, <1>2, <1>3, <1>4, StorageKept

LEMMA QueryFailsInv ==
  ASSUME OneTransfer, IInv, TypeOK', QueryFails PROVE IInv'
<1> USE DEF IInv, TypeOK, Exchanges, Busy, Loading, Active, Patient, setState,
      serverVars, imageVars, storageVars, netVars, QueryFails, Answer,
      scheduleDiscoverServer
<1>1. TimerFits' /\ Awaits'
  BY OneSlot DEF TimerFits, OneAtATime, Phases, Awaits
<1>2. OneAtATime'
  BY OneSlot DEF TimerFits, OneAtATime, Phases
<1>3. Phases'
  BY OneSlot DEF TimerFits, OneAtATime, Phases, Ready
<1>4. Ready' /\ Complete'
  BY OneSlot DEF TimerFits, OneAtATime, Phases, Ready, Complete, Aligned
<1> QED  BY <1>1, <1>2, <1>3, <1>4, StorageKept

LEMMA verifyDownloadStateHandlerInv ==
  ASSUME OneTransfer, IInv, TypeOK', verifyDownloadStateHandler PROVE IInv'
<1> USE DEF IInv, TypeOK, Exchanges, Busy, Loading, Active, Patient, setState,
      serverVars, imageVars, storageVars, netVars, verifyDownloadStateHandler, Runs,
      Due, Asserts, downloadComplete, scheduleUpgradeEnd
<1>1. TimerFits' /\ Awaits'
  BY OneSlot DEF TimerFits, OneAtATime, Phases, Awaits
<1>2. OneAtATime'
  BY OneSlot DEF TimerFits, OneAtATime, Phases
<1>3. Phases'
  BY OneSlot DEF TimerFits, OneAtATime, Phases, Ready
<1>4. Ready' /\ Complete'
  BY OneSlot DEF TimerFits, OneAtATime, Phases, Ready, Complete, Aligned
<1> QED  BY <1>1, <1>2, <1>3, <1>4, StorageKept

LEMMA upgradeEndStateHandlerInv ==
  ASSUME OneTransfer, IInv, TypeOK', upgradeEndStateHandler PROVE IInv'
<1> USE DEF IInv, TypeOK, Exchanges, Busy, Loading, Active, Patient, setState,
      serverVars, imageVars, storageVars, netVars, upgradeEndStateHandler, Runs, Due,
      Asserts, Open, scheduleUpgradeEnd, scheduleQueryNextImage
<1>1. TimerFits' /\ Awaits'
  BY OneSlot DEF TimerFits, OneAtATime, Phases, Awaits
<1>2. OneAtATime'
  BY OneSlot DEF TimerFits, OneAtATime, Phases
<1>3. Phases'
  BY OneSlot DEF TimerFits, OneAtATime, Phases, Ready
<1>4. Ready' /\ Complete'
  BY OneSlot DEF TimerFits, OneAtATime, Phases, Ready, Complete, Aligned
<1> QED  BY <1>1, <1>2, <1>3, <1>4, StorageKept

LEMMA UpgradeEndFailsInv ==
  ASSUME OneTransfer, IInv, TypeOK', UpgradeEndFails PROVE IInv'
<1> USE DEF IInv, TypeOK, Exchanges, Busy, Loading, Active, Patient, setState,
      serverVars, imageVars, storageVars, netVars, UpgradeEndFails, Answer,
      scheduleUpgradeEnd
<1>1. TimerFits' /\ Awaits'
  BY OneSlot DEF TimerFits, OneAtATime, Phases, Awaits
<1>2. OneAtATime'
  BY OneSlot DEF TimerFits, OneAtATime, Phases
<1>3. Phases'
  BY OneSlot DEF TimerFits, OneAtATime, Phases, Ready
<1>4. Ready' /\ Complete'
  BY OneSlot DEF TimerFits, OneAtATime, Phases, Ready, Complete, Aligned
<1> QED  BY <1>1, <1>2, <1>3, <1>4, StorageKept

LEMMA ReplyInWord ==
  ASSUME NEW r \in Reply
  PROVE  r.upgradeTime \in 0..(Word - 1) /\ r.currentTime \in 0..(Word - 1)
<1>1. r.upgradeTime \in Times /\ r.currentTime \in Times
  BY DEF Reply
<1>2. Times \subseteq 0..(Word - 1)
  BY DelaysAssumption
<1> QED  BY <1>1, <1>2

LEMMA NoTimeIsNever == \A r \in Reply : ~(r.currentTime < Never) => r.currentTime = Never
<1>1. Word \in Nat
  BY DelaysAssumption
<1> QED  BY <1>1, ReplyInWord DEF Never

LEMMA processUpgradeEndResponseInv ==
  ASSUME OneTransfer, IInv, TypeOK', processUpgradeEndResponse PROVE IInv'
<1> USE DEF IInv, TypeOK, Exchanges, Busy, Loading, Active, Patient, setState,
      serverVars, imageVars, storageVars, netVars, processUpgradeEndResponse, Answer,
      ServerGivesTime, scheduleQueryNextImage
<1>1. TimerFits' /\ Awaits'
  BY OneSlot, NoTimeIsNever DEF TimerFits, OneAtATime, Phases, Awaits
<1>2. OneAtATime'
  BY OneSlot DEF TimerFits, OneAtATime, Phases
<1>3. Phases'
  BY OneSlot DEF TimerFits, OneAtATime, Phases, Ready
<1>4. Ready' /\ Complete'
  BY OneSlot DEF TimerFits, OneAtATime, Phases, Ready, Complete, Aligned
<1> QED  BY <1>1, <1>2, <1>3, <1>4, StorageKept

LEMMA InstallRefusedInv ==
  ASSUME OneTransfer, IInv, TypeOK', InstallRefused PROVE IInv'
<1> USE DEF IInv, TypeOK, Exchanges, Busy, Loading, Active, Patient, setState,
      serverVars, imageVars, storageVars, netVars, InstallRefused, Runs, Due, Asserts
<1>1. TimerFits' /\ Awaits'
  BY OneSlot DEF TimerFits, OneAtATime, Phases, Awaits
<1>2. OneAtATime'
  BY OneSlot DEF TimerFits, OneAtATime, Phases
<1>3. Phases'
  BY OneSlot DEF TimerFits, OneAtATime, Phases, Ready
<1>4. Ready' /\ Complete'
  BY OneSlot DEF TimerFits, OneAtATime, Phases, Ready, Complete, Aligned
<1> QED  BY <1>1, <1>2, <1>3, <1>4, StorageKept


LEMMA processQueryNextImageResponseInv ==
  ASSUME OneTransfer, IInv, TypeOK', processQueryNextImageResponse PROVE IInv'
<1> USE DEF IInv, TypeOK, Exchanges, Busy, Loading, Active, Patient, setState,
      serverVars, imageVars, storageVars, netVars, processQueryNextImageResponse,
      Answer, StartDownload, scheduleQueryNextImage, scheduleDiscoverServer
<1>1. TimerFits' /\ Awaits'
  BY OneSlot DEF TimerFits, OneAtATime, Phases, Awaits
<1>2. OneAtATime'
  BY OneSlot DEF TimerFits, OneAtATime, Phases
<1>3. Phases'
  BY OneSlot DEF TimerFits, OneAtATime, Phases, Ready
<1>4. Ready' /\ Complete'
  <2>1. CASE /\ state' \in {"QUERY_NEXT_IMAGE", "DISCOVER_SERVER"}
             /\ haveServer' \/ state' = "DISCOVER_SERVER"
    BY <2>1 DEF OneAtATime, Phases, Ready, Complete
  <2>2. CASE /\ fileSpec' \in Versions /\ StartDownload(fileSpec') /\ UNCHANGED haveServer
    <3>1. /\ state' = "DOWNLOAD" /\ haveServer' /\ fileSpec' # NoVersion
          /\ DeleteExisting => stored'[fileSpec'] = Absent
      BY <2>2, OtaAssumption DEF Phases
    <3>2. Absent # NumBlocks
      BY OtaAssumption DEF Absent
    <3>3. ~Busy("upgradeEnd")'
      BY DEF OneAtATime
    <3>4. Ready'
      <4>1. DeleteExisting => stored'[fileSpec'] # NumBlocks
        BY <3>1, <3>2, Zenon
      <4> QED  BY <3>1, <4>1, Zenon DEF Ready, Aligned
    <3>5. Complete'
      BY <3>1, <3>3, Zenon DEF Complete
    <3> QED  BY <3>4, <3>5
  <2>3. haveServer
    BY DEF Phases
  <2>4. CASE scheduleQueryNextImage /\ UNCHANGED haveServer
    BY <2>1, <2>3, <2>4
  <2>5. CASE scheduleDiscoverServer(TRUE)
    BY <2>1, <2>5
  <2>6. \/ fileSpec' \in Versions /\ StartDownload(fileSpec') /\ UNCHANGED haveServer
        \/ scheduleQueryNextImage /\ UNCHANGED haveServer
        \/ scheduleDiscoverServer(TRUE)
    <3> HIDE DEF StartDownload, scheduleQueryNextImage, scheduleDiscoverServer, Answer
    <3> QED  OBVIOUS
  <2> HIDE DEF StartDownload, scheduleQueryNextImage, scheduleDiscoverServer
  <2> QED  BY <2>2, <2>4, <2>5, <2>6, Zenon
<1>5. FilesGenuine'
  <2>1. CASE UNCHANGED storageVars
    BY <2>1, StorageKept
  <2>2. ASSUME NEW v \in Versions, StartDownload(v) PROVE FilesGenuine'
    BY <2>2, StartKeepsGenuine
  <2>3. UNCHANGED storageVars \/ \E v \in Versions : StartDownload(v)
    OBVIOUS
  <2> HIDE DEF StartDownload
  <2> QED  BY <2>1, <2>2, <2>3
<1> QED  BY <1>1, <1>2, <1>3, <1>4, <1>5

LEMMA downloadStateHandlerInv ==
  ASSUME OneTransfer, IInv, TypeOK', downloadStateHandler PROVE IInv'
<1> USE DEF IInv, TypeOK, Exchanges, Busy, Loading, Active, Patient, setState,
      serverVars, imageVars, storageVars, netVars, downloadStateHandler, Runs, Due
<1>1. /\ state = "DOWNLOAD" /\ timer # "off" /\ fileSpec \in Versions
      /\ OffsetBlock(fileSpec) \in Blocks /\ OffsetBlock(fileSpec) # NumBlocks
      /\ stored' = [stored EXCEPT ![fileSpec] = OffsetBlock(fileSpec)]
  BY OffsetFits, OtaAssumption DEF Blocks
<1>2. /\ ~Loading /\ \A e \in Exchanges : ~Busy(e)
  BY <1>1 DEF Phases, OneAtATime
<1>3. \/ /\ transfers'[1] = [version |-> fileSpec, number |-> OffsetBlock(fileSpec)]
         /\ timer' = "off" /\ state' = "DOWNLOAD"
      \/ timer' = "now" /\ state' = "DOWNLOAD" /\ transfers' = transfers
  BY <1>1, OneSlot
<1>4. transfers'[1] = [version |-> fileSpec, number |-> OffsetBlock(fileSpec)] => Loading'
  BY <1>1, OtaAssumption DEF NoTransfer
<1>5. TimerFits' /\ Awaits'
  BY <1>3, <1>4 DEF TimerFits, Awaits
<1>6. OneAtATime'
  BY <1>2 DEF OneAtATime
<1>7. Phases' /\ Ready' /\ Complete'
  BY <1>1, <1>2, <1>3 DEF Phases, Ready, Complete, Aligned
<1>8. FilesGenuine'
  <2>1. \A b \in Blocks : b < OffsetBlock(fileSpec) => b < stored[fileSpec]
    BY <1>1, OtaAssumption DEF OffsetBlock, Blocks
  <2> QED  BY <1>1, <2>1 DEF FilesGenuine
<1> QED  BY <1>5, <1>6, <1>7, <1>8

\* What ends a transfer with an error finds the client at the transfer's image.
LEMMA BlockFailsInv ==
  ASSUME OneTransfer, IInv, TypeOK', NEW i \in Slots, BlockFails(i) PROVE IInv'
<1> USE DEF IInv, TypeOK, Exchanges, Busy, Loading, Active, Patient, setState,
      serverVars, imageVars, storageVars, netVars, BlockFails, TransferOver,
      handleBlockError, downloadComplete, scheduleUpgradeEnd
<1>1. /\ i = 1 /\ Loading /\ transfers'[1] = NoTransfer
      /\ haveServer /\ fileSpec = transfers[1].version
      /\ stored[fileSpec] = transfers[1].number
      /\ \A e \in Exchanges : ~Busy(e)
  BY OneSlot DEF Phases, OneAtATime
<1>2. transfers[1] \in Transfer
  BY <1>1
<1>3. fileSpec \in Versions /\ stored[fileSpec] # NumBlocks
  BY <1>1, <1>2, OtaAssumption DEF Transfer, Blocks
<1>4. TimerFits' /\ Awaits'
  BY DEF TimerFits, Awaits
<1>5. OneAtATime' /\ Phases'
  BY <1>1 DEF OneAtATime, Phases
<1>6. Ready'
  BY <1>1, <1>3, OtaAssumption DEF Ready, Aligned
<1>7. Complete'
  BY <1>1 DEF Complete
<1> QED  BY <1>4, <1>5, <1>6, <1>7, StorageKept

LEMMA BlockArrivesInv ==
  ASSUME OneTransfer, IInv, TypeOK', NEW i \in Slots, BlockArrives(i) PROVE IInv'
<1> USE DEF IInv, TypeOK, Exchanges, Busy, Loading, Active, Patient, setState,
      serverVars, imageVars, storageVars, netVars, BlockArrives
<1> DEFINE v == fileSpec
           n == transfers[1].number
<1>1. /\ i = 1 /\ Loading /\ haveServer /\ v = transfers[1].version /\ stored[v] = n
      /\ \A e \in Exchanges : ~Busy(e)
  BY OneSlot DEF Phases, OneAtATime
<1>2. v \in Versions /\ n \in Blocks /\ v # NoVersion
  BY <1>1, OtaAssumption DEF Transfer
<1>3. /\ stored' = [stored EXCEPT ![v] = n + 1]
      /\ content' = [content EXCEPT ![v][n] = v]
  <2>1. n \in Nat
    BY <1>2, OtaAssumption DEF Blocks
  <2>2. WriteBlock(transfers[1])
    BY <1>1
  <2>3. stored' = [stored EXCEPT ![v] = IF stored[v] > n THEN stored[v] ELSE n + 1]
    BY <2>2 DEF WriteBlock
  <2>4. content' = [content EXCEPT ![v][n] = v]
    BY <1>1, <2>2 DEF WriteBlock
  <2>5. (IF stored[v] > n THEN stored[v] ELSE n + 1) = n + 1
    BY <1>1, <2>1
  <2>6. stored' = [stored EXCEPT ![v] = n + 1]
    BY <2>3, <2>5, Zenon
  <2> QED  BY <2>4, <2>6
<1>4. FilesGenuine'
  <2>1. ASSUME NEW w \in Versions, NEW b \in Blocks, b < stored'[w]
        PROVE  content'[w][b] = w
    <3>1. CASE w # v
      BY <1>3, <2>1, <3>1 DEF FilesGenuine
    <3>2. CASE w = v /\ b = n
      BY <1>2, <1>3, <3>2
    <3>3. CASE w = v /\ b # n
      <4>1. b < stored[v]
        BY <1>1, <1>2, <1>3, <2>1, <3>3 DEF Blocks
      <4>2. content'[w][b] = content[w][b]
        BY <1>2, <1>3, <3>3
      <4> QED  BY <1>2, <3>3, <4>1, <4>2 DEF FilesGenuine
    <3> QED  BY <3>1, <3>2, <3>3
  <2> QED  BY <2>1 DEF FilesGenuine
<1>5. CASE /\ MoreBlocks(transfers[1])
           /\ transfers' = [transfers EXCEPT ![1].number = n + 1]
           /\ UNCHANGED <<state, timer>>
  <2>1. /\ transfers'[1].version = v /\ transfers'[1].number = n + 1 /\ Loading'
    BY <1>1, <1>2, <1>5 DEF Transfer, NoTransfer
  <2>2. TimerFits' /\ Awaits'
    BY <1>1, <1>5, <2>1 DEF TimerFits, Awaits
  <2>3. OneAtATime' /\ Phases'
    BY <1>1, <1>2, <1>3, <1>5, <2>1 DEF OneAtATime, Phases
  <2>4. Ready' /\ Complete'
    BY <1>1, <1>5 DEF Phases, Ready, Complete
  <2> QED  BY <1>4, <2>2, <2>3, <2>4
<1>6. CASE ~MoreBlocks(transfers[1]) /\ TransferOver(1) /\ setState("VERIFY_DOWNLOAD", "now")
  <2>1. n + 1 = NumBlocks
    <3>1. n \in Nat /\ n <= NumBlocks - 1 /\ NumBlocks \in Nat
      BY <1>2, OtaAssumption DEF Blocks
    <3>2. ~(n + 1 < NumBlocks)
      BY <1>6 DEF MoreBlocks
    <3> HIDE DEF n
    <3> QED  BY <3>1, <3>2
  <2>2. TimerFits' /\ Awaits'
    BY <1>6 DEF TimerFits, Awaits
  <2>3. OneAtATime' /\ Phases'
    BY <1>1, <1>6, OneSlot DEF OneAtATime, Phases, TransferOver
  <2>4. Ready' /\ Complete'
    BY <1>1, <1>2, <1>3, <1>6, <2>1 DEF Ready, Complete
  <2> QED  BY <1>4, <2>2, <2>3, <2>4
<1> QED  BY <1>1, <1>5, <1>6

LEMMA RestartInv ==
  ASSUME OneTransfer, IInv, TypeOK', Restart, UNCHANGED storageVars PROVE IInv'
<1> USE DEF IInv, TypeOK, Exchanges, Busy, Loading, Active, Patient, Restart
<1>1. TimerFits' /\ Awaits'
  BY DEF TimerFits, Awaits
<1>2. OneAtATime' /\ Phases'
  BY OneSlot DEF OneAtATime, Phases
<1>3. Ready' /\ Complete'
  BY DEF Ready, Complete
<1> QED  BY <1>1, <1>2, <1>3, StorageKept

LEMMA InitInv == ASSUME OneTransfer PROVE Init => IInv
<1> SUFFICES ASSUME Init PROVE IInv
  OBVIOUS
<1>1. TypeOK
  BY InitType
<1>2. FilesGenuine
  BY DEF Init, FilesGenuine, Absent, Blocks
<1> QED
  BY <1>1, <1>2, OneSlot
     DEF IInv, Init, Exchanges, Busy, Loading, Active, Patient, TimerFits, OneAtATime, Phases,
         Awaits, Ready, Complete

LEMMA StepInv == ASSUME OneTransfer PROVE IInv /\ [Next]_vars => IInv'
<1> SUFFICES ASSUME IInv, [Next]_vars PROVE IInv'
  OBVIOUS
<1>1. TypeOK'
  BY StepType DEF IInv
<1>2. CASE EventHandler
  BY <1>1, <1>2, noneStateHandlerInv, discoverServerStateHandlerInv,
     queryNextImageStateHandlerInv, QueryWithoutParametersInv, downloadStateHandlerInv,
     verifyDownloadStateHandlerInv, upgradeEndStateHandlerInv, InstallRefusedInv
     DEF EventHandler
<1>3. CASE ResponseHandler
  BY <1>1, <1>3, ServerRespondsInv, DiscoveryTimedOutInv, QueryFailsInv,
     processQueryNextImageResponseInv, BlockFailsInv, BlockArrivesInv, UpgradeEndFailsInv,
     processUpgradeEndResponseInv
     DEF ResponseHandler
<1>4. CASE NetworkAttached
  BY <1>1, <1>4, NetworkAttachedInv
<1>5. CASE Resets
  BY <1>1, <1>5, RestartInv DEF Resets, Reboot, InstallNewImage, storageVars
<1>6. CASE UNCHANGED vars
  BY <1>1, <1>6
     DEF IInv, vars, serverVars, imageVars, storageVars, netVars, Busy, Loading, Active,
         Patient, TimerFits, OneAtATime, Phases, Awaits, Ready, FilesGenuine, Complete, Aligned
<1> QED  BY <1>2, <1>3, <1>4, <1>5, <1>6 DEF Next

----------------------------------------------------------------------------
(* The theorems.                                                            *)

LEMMA NeverStallsMaps == IInv => NeverStalls
<1> SUFFICES ASSUME IInv, timer = "off", state \notin {"NONE", "BOOTLOAD"},
                    ~(state = "UPGRADE_END" /\ upgradeReply.currentTime = Never)
             PROVE  Waiting
  BY DEF NeverStalls
<1>1. state \in {"DISCOVER_SERVER", "QUERY_NEXT_IMAGE", "DOWNLOAD", "UPGRADE_END"}
  BY DEF IInv, TypeOK, States, TimerFits
<1>2. addressCalls > 0 \/ Loading \/ \E e \in Exchanges : Busy(e)
  BY <1>1 DEF IInv, Awaits, Exchanges
<1>3. 1 \in Slots
  BY OtaAssumption DEF Slots
<1> QED  BY <1>2, <1>3 DEF Waiting, Loading, Busy

LEMMA HandlersReadyMaps == ASSUME OneTransfer, DeleteExisting PROVE IInv => HandlersReady
<1> SUFFICES ASSUME IInv PROVE HandlersReady
  OBVIOUS
<1>1. timer # "off" => Asserts(state)
  BY DEF IInv, Ready, Asserts
<1>2. ASSUME NEW i \in Slots, Active(i) PROVE fileSpec # NoVersion
  BY <1>2, OneSlot, OtaAssumption DEF IInv, TypeOK, Phases, Loading, Active, Transfer
<1>3. outstanding["upgradeEnd"] > 0 => fileSpec # NoVersion
  BY DEF IInv, Phases, Busy
<1> QED  BY <1>1, <1>2, <1>3 DEF HandlersReady

\* A complete file is whole, since its blocks are genuine.
LEMMA CompleteIsWhole ==
  ASSUME IInv, fileSpec \in Versions, stored[fileSpec] = NumBlocks PROVE Whole(fileSpec)
BY OtaAssumption DEF IInv, FilesGenuine, Whole, Blocks

LEMMA SuccessMaps == IInv => SuccessMeansWhole
<1> SUFFICES ASSUME IInv, state = "UPGRADE_END", downloadStatus = "SUCCESS"
             PROVE  Whole(fileSpec)
  BY DEF SuccessMeansWhole
<1>1. fileSpec \in Versions /\ stored[fileSpec] = NumBlocks
  BY DEF IInv, TypeOK, Ready, Complete
<1> QED  BY <1>1, CompleteIsWhole

\* Only the bootload changes the running image.
LEMMA InstallMaps ==
  ASSUME IInv, [Next]_vars, running' # running PROVE Whole(running')
<1>1. InstallNewImage
  BY DEF Next, Resets, Reboot, NetworkAttached, EventHandler, ResponseHandler, noneStateHandler,
         discoverServerStateHandler, ServerResponds, DiscoveryTimedOut,
         queryNextImageStateHandler, QueryWithoutParameters, QueryFails,
         processQueryNextImageResponse, downloadStateHandler, verifyDownloadStateHandler,
         BlockFails, BlockArrives, upgradeEndStateHandler, UpgradeEndFails,
         processUpgradeEndResponse, InstallRefused, vars
<1>2. /\ state = "BOOTLOAD" /\ running' = fileSpec
  BY <1>1 DEF InstallNewImage, Runs, Due
<1>3. fileSpec \in Versions /\ stored[fileSpec] = NumBlocks
  BY <1>2 DEF IInv, TypeOK, Ready, Complete
<1> QED  BY <1>2, <1>3, CompleteIsWhole

\* The inductive invariant, for every number of images, blocks and errors.
THEOREM Invariance == ASSUME OneTransfer PROVE Spec => []IInv
<1>1. Init => IInv
  BY InitInv
<1>2. IInv /\ [Next]_vars => IInv'
  BY StepInv
<1> QED  BY <1>1, <1>2, PTL DEF Spec

\* A client whose timer is off always has an exchange under way that sets it.
THEOREM NeverStalled == ASSUME OneTransfer PROVE Spec => []NeverStalls
<1>1. Spec => []IInv
  BY Invariance
<1> QED  BY <1>1, NeverStallsMaps, PTL

\* No assert of a handler that is due can fail, when the policy deletes the file
\* it has of an image before it downloads it again (the configuration shipped).
THEOREM AssertsHold == ASSUME OneTransfer, DeleteExisting PROVE Spec => []HandlersReady
<1>1. Spec => []IInv
  BY Invariance
<1>2. IInv => HandlersReady
  BY HandlersReadyMaps
<1> QED  BY <1>1, <1>2, PTL

\* The server is told SUCCESS only of a whole image.
THEOREM SuccessCorrect == ASSUME OneTransfer PROVE Spec => []SuccessMeansWhole
<1>1. Spec => []IInv
  BY Invariance
<1> QED  BY <1>1, SuccessMaps, PTL

\* Whatever is lost, fails or is reset, only a whole image is ever installed.
THEOREM InstallCorrect == ASSUME OneTransfer PROVE Spec => InstallsWholeImage
<1>1. Spec => []IInv
  BY Invariance
<1>2. IInv /\ [Next]_vars => [running' # running => Whole(running')]_vars
  BY InstallMaps
<1> QED  BY <1>1, <1>2, PTL DEF Spec, InstallsWholeImage

----------------------------------------------------------------------------
(* The client implements an update.                                         *)

\* What the refinement rests on, of the client alone and among the
\* announcements: no query is answered and no block comes in while an image is
\* proposed, and the next block is the one its file lacks.
Apart ==
  /\ Busy("query") \/ Loading => state \notin {"UPGRADE_END", "BOOTLOAD"}
  /\ Busy("query") => state # "DOWNLOAD"
  /\ Loading => fileSpec = transfers[1].version /\ stored[fileSpec] = transfers[1].number

Core == TypeOK /\ FilesGenuine /\ Complete /\ Apart

LEMMA InvariantCore == IInv => Core
BY DEF IInv, Core, Apart, Phases, Patient

\* An image is whole in storage when its file is complete, before and after a step.
LEMMA WholeFiles == Core => WholeImages = {v \in Versions : stored[v] = NumBlocks}
BY OtaAssumption DEF Core, WholeImages, Whole, FilesGenuine, Blocks

LEMMA WholeFilesNext == Core' => WholeImages' = {v \in Versions : stored'[v] = NumBlocks}
BY OtaAssumption DEF Core, WholeImages, Whole, FilesGenuine, Blocks

LEMMA WholeFilesKept ==
  ASSUME Core, Core', \A v \in Versions : stored'[v] = NumBlocks <=> stored[v] = NumBlocks
  PROVE  WholeImages' = WholeImages
BY WholeFiles, WholeFilesNext

\* The candidate is an image, and it is whole.
LEMMA CandidateWhole == Core /\ Candidate # NoVersion => Candidate \in WholeImages
<1> SUFFICES ASSUME Core, Candidate # NoVersion PROVE Candidate \in WholeImages
  OBVIOUS
<1>1. Candidate = fileSpec /\ fileSpec \in Versions /\ stored[fileSpec] = NumBlocks
  BY DEF Core, TypeOK, Candidate, Complete
<1> QED  BY <1>1, WholeFiles

LEMMA CandidateWholeNext == Core' /\ Candidate' # NoVersion => Candidate' \in WholeImages'
<1> SUFFICES ASSUME Core', Candidate' # NoVersion PROVE Candidate' \in WholeImages'
  OBVIOUS
<1>1. Candidate' = fileSpec' /\ fileSpec' \in Versions /\ stored'[fileSpec'] = NumBlocks
  BY DEF Core, TypeOK, Candidate, Complete
<1> QED  BY <1>1, WholeFilesNext

\* A step that leaves storage and the running image alone proposes an image,
\* withdraws it or does nothing that an update can see.
LEMMA QuietMaps ==
  ASSUME Core, Core', UNCHANGED <<storageVars, running>>,
         Candidate # NoVersion => Candidate' \in {Candidate, NoVersion}
  PROVE  [Update!Next]_(Update!update)
<1>1. WholeImages' = WholeImages
  BY DEF storageVars, WholeImages, Whole
<1>2. CASE Candidate' = Candidate
  BY <1>1, <1>2 DEF Update!update
<1>3. CASE Candidate' = NoVersion
  BY <1>1, <1>3 DEF Update!Next, Update!Withdraw
<1>4. CASE Candidate = NoVersion /\ Candidate' # NoVersion
  <2>1. Candidate' \in WholeImages /\ Candidate' \in Versions
    BY <1>1, <1>4, CandidateWholeNext DEF WholeImages
  <2>2. Update!Propose(Candidate')
    BY <1>1, <1>4, <2>1 DEF Update!Propose
  <2> QED  BY <2>1, <2>2 DEF Update!Next
<1> QED  BY <1>2, <1>3, <1>4

\* The steps that do not touch storage.
LEMMA HandlersQuiet ==
  ASSUME OneTransfer, Core,
         \/ noneStateHandler \/ discoverServerStateHandler \/ queryNextImageStateHandler
         \/ QueryWithoutParameters \/ verifyDownloadStateHandler \/ upgradeEndStateHandler
         \/ InstallRefused \/ NetworkAttached \/ Reboot \/ ServerResponds
         \/ DiscoveryTimedOut \/ QueryFails \/ UpgradeEndFails \/ processUpgradeEndResponse
         \/ \E i \in Slots : BlockFails(i)
         \/ UNCHANGED vars
  PROVE  /\ UNCHANGED <<storageVars, running>>
         /\ Candidate # NoVersion => Candidate' \in {Candidate, NoVersion}
<1> USE DEF Candidate, storageVars, setState, scheduleDiscoverServer, scheduleQueryNextImage,
      scheduleUpgradeEnd, imageVars
<1>1. CASE noneStateHandler \/ discoverServerStateHandler \/ ServerResponds \/ DiscoveryTimedOut
  BY <1>1 DEF noneStateHandler, discoverServerStateHandler, ServerResponds, DiscoveryTimedOut,
              Sent
<1>2. CASE queryNextImageStateHandler \/ QueryWithoutParameters \/ QueryFails
  BY <1>2 DEF queryNextImageStateHandler, QueryWithoutParameters, QueryFails, Sent
<1>3. CASE verifyDownloadStateHandler
  BY <1>3 DEF verifyDownloadStateHandler, Runs, Due
<1>4. CASE upgradeEndStateHandler \/ UpgradeEndFails \/ processUpgradeEndResponse
  BY <1>4 DEF upgradeEndStateHandler, UpgradeEndFails, processUpgradeEndResponse
<1>5. CASE InstallRefused \/ NetworkAttached \/ Reboot
  BY <1>5 DEF InstallRefused, NetworkAttached, Reboot, Restart
<1>6. ASSUME NEW i \in Slots, BlockFails(i)
      PROVE  UNCHANGED <<storageVars, running>> /\ Candidate = NoVersion
  <2>1. Loading
    BY <1>6, OneSlot DEF BlockFails, Loading
  <2>2. state \notin {"UPGRADE_END", "BOOTLOAD"}
    BY <2>1 DEF Core, Apart
  <2> QED  BY <1>6, <2>2 DEF BlockFails
<1>7. CASE UNCHANGED vars
  BY <1>7 DEF vars
<1> QED  BY <1>1, <1>2, <1>3, <1>4, <1>5, <1>6, <1>7

\* A query response may discard the file of the image it offers.
LEMMA QueryResponseMaps ==
  ASSUME OneTransfer, Core, Core', processQueryNextImageResponse
  PROVE  [Update!Next]_(Update!update)
<1>1. Candidate = NoVersion /\ Candidate' = NoVersion /\ running' = running
  <2>1. Busy("query")
    BY DEF processQueryNextImageResponse, Answer, Busy
  <2>2. state \notin {"UPGRADE_END", "BOOTLOAD"}
    BY <2>1 DEF Core, Apart
  <2>3. state' \notin {"UPGRADE_END", "BOOTLOAD"}
    BY DEF processQueryNextImageResponse, StartDownload, setState, scheduleQueryNextImage,
           scheduleDiscoverServer
  <2> QED  BY <2>2, <2>3 DEF Candidate, processQueryNextImageResponse
<1>2. CASE UNCHANGED storageVars
  BY <1>1, <1>2, QuietMaps
<1>3. CASE fileSpec' \in Versions /\ StartDownload(fileSpec')
  <2>1. CASE DeleteExisting
    <3>1. stored' = [stored EXCEPT ![fileSpec'] = Absent]
      BY <1>3, <2>1 DEF StartDownload
    <3>2. Absent # NumBlocks
      BY OtaAssumption DEF Absent
    <3>3. WholeImages' = WholeImages \ {fileSpec'}
      BY <1>3, <3>1, <3>2, WholeFiles, WholeFilesNext DEF Core, TypeOK
    <3> QED  BY <1>1, <1>3, <3>3 DEF Update!Next, Update!Discard
  <2>2. CASE ~DeleteExisting
    <3>1. UNCHANGED storageVars
      BY <1>3, <2>2 DEF StartDownload, Core, TypeOK, storageVars
    <3> QED  BY <1>2, <3>1
  <2> QED  BY <2>1, <2>2
<1> QED  BY <1>2, <1>3 DEF processQueryNextImageResponse

\* The file of an image is created without a block.
LEMMA DownloadMaps ==
  ASSUME OneTransfer, Core, Core', downloadStateHandler
  PROVE  [Update!Next]_(Update!update)
<1>1. Candidate = NoVersion /\ Candidate' = NoVersion /\ running' = running
  BY DEF downloadStateHandler, Runs, Due, Candidate, setState
<1>2. fileSpec \in Versions /\ OffsetBlock(fileSpec) # NumBlocks
      /\ (stored[fileSpec] = NumBlocks => OffsetBlock(fileSpec) = NumBlocks)
  BY OffsetFits, OtaAssumption DEF Core, downloadStateHandler, Runs, Blocks, OffsetBlock, Absent
<1>3. stored' = [stored EXCEPT ![fileSpec] = OffsetBlock(fileSpec)]
  BY DEF downloadStateHandler
<1>4. \A v \in Versions : stored'[v] = NumBlocks <=> stored[v] = NumBlocks
  BY <1>2, <1>3 DEF Core, TypeOK
<1>5. WholeImages' = WholeImages
  BY <1>4, WholeFilesKept
<1> QED  BY <1>1, <1>5 DEF Update!update

\* The last block makes its image whole.
LEMMA BlockMaps ==
  ASSUME OneTransfer, Core, Core', NEW i \in Slots, BlockArrives(i)
  PROVE  [Update!Next]_(Update!update)
<1>1. Loading /\ i = 1
  BY OneSlot DEF BlockArrives, Loading
<1>2. Candidate = NoVersion /\ Candidate' = NoVersion /\ running' = running
  BY <1>1 DEF Core, Apart, BlockArrives, setState, Candidate
<1>3. fileSpec \in Versions /\ transfers[i].number \in Blocks
      /\ stored[fileSpec] = transfers[i].number
  BY <1>1 DEF Core, Apart, TypeOK, BlockArrives, Active, Transfer
<1>4. stored' = [stored EXCEPT ![fileSpec] = transfers[i].number + 1]
  <2>1. ~(transfers[i].number > transfers[i].number)
    BY <1>3, OtaAssumption DEF Blocks
  <2> QED  BY <1>3, <2>1 DEF BlockArrives, WriteBlock, Core, TypeOK
<1>5. stored[fileSpec] # NumBlocks
  BY <1>3, OtaAssumption DEF Blocks
<1>6. CASE transfers[i].number + 1 = NumBlocks
  <2>1. WholeImages' = WholeImages \cup {fileSpec}
    BY <1>3, <1>4, <1>6, WholeFiles, WholeFilesNext DEF Core, TypeOK
  <2> QED  BY <1>2, <1>3, <2>1 DEF Update!Next, Update!Fetch
<1>7. CASE transfers[i].number + 1 # NumBlocks
  <2>1. \A v \in Versions : stored'[v] = NumBlocks <=> stored[v] = NumBlocks
    BY <1>3, <1>4, <1>5, <1>7 DEF Core, TypeOK
  <2>2. WholeImages' = WholeImages
    BY <2>1, WholeFilesKept
  <2> QED  BY <1>2, <2>2 DEF Update!update
<1> QED  BY <1>6, <1>7

LEMMA InstallStepMaps ==
  ASSUME Core, Core', InstallNewImage PROVE [Update!Next]_(Update!update)
<1>1. state = "BOOTLOAD" /\ fileSpec # NoVersion
  BY DEF InstallNewImage, Runs, Due, Asserts
<1>2. Candidate = fileSpec /\ Candidate \in WholeImages
  BY <1>1, CandidateWhole DEF Candidate
<1>3. WholeImages' = WholeImages /\ Candidate' = NoVersion /\ running' = Candidate
  BY <1>2 DEF InstallNewImage, Restart, storageVars, WholeImages, Whole, Candidate
<1> QED  BY <1>2, <1>3 DEF Update!Next, Update!Install

LEMMA UpdateStep ==
  ASSUME OneTransfer, Core, Core', [Next]_vars PROVE [Update!Next]_(Update!update)
<1>1. CASE processQueryNextImageResponse
  BY <1>1, QueryResponseMaps
<1>2. CASE downloadStateHandler
  BY <1>2, DownloadMaps
<1>3. CASE \E i \in Slots : BlockArrives(i)
  BY <1>3, BlockMaps
<1>4. CASE InstallNewImage
  BY <1>4, InstallStepMaps
<1>5. CASE ~(\/ processQueryNextImageResponse \/ downloadStateHandler \/ InstallNewImage
             \/ \E i \in Slots : BlockArrives(i))
  BY <1>5, HandlersQuiet, QuietMaps DEF Next, EventHandler, ResponseHandler, Resets
<1> QED  BY <1>1, <1>2, <1>3, <1>4, <1>5

LEMMA UpdateInit == ASSUME Init PROVE Update!Empty
<1>1. WholeImages = {}
  BY OtaAssumption DEF Init, WholeImages, Whole, Absent
<1> QED  BY <1>1 DEF Init, Candidate, Update!Empty

(***************************************************************************)
(* The time of the upgrade.                                                *)
(***************************************************************************)

Timed == TypeOK /\ (timer = "upgrade" => upgradeReply # NoReply)

LEMMA ReplyIsReal == \A r \in Reply : r # NoReply
BY DelaysAssumption DEF Reply, NoReply

LEMMA TimedStep == ASSUME Timed, TypeOK', [Next]_vars PROVE Timed'
<1> USE DEF Timed, setState, scheduleDiscoverServer, scheduleQueryNextImage, scheduleUpgradeEnd,
      serverVars, imageVars, storageVars, netVars
<1>1. CASE EventHandler
  BY <1>1 DEF EventHandler, noneStateHandler, discoverServerStateHandler, Sent,
     queryNextImageStateHandler, QueryWithoutParameters, downloadStateHandler,
     verifyDownloadStateHandler, downloadComplete, upgradeEndStateHandler, InstallRefused,
     Due, Runs
<1>2. CASE ServerResponds \/ DiscoveryTimedOut \/ QueryFails \/ UpgradeEndFails
  BY <1>2 DEF ServerResponds, DiscoveryTimedOut, QueryFails, UpgradeEndFails
<1>3. CASE processQueryNextImageResponse
  BY <1>3 DEF processQueryNextImageResponse, StartDownload
<1>4. CASE \E i \in Slots : BlockFails(i) \/ BlockArrives(i)
  BY <1>4 DEF BlockFails, handleBlockError, downloadComplete, BlockArrives
<1>5. CASE processUpgradeEndResponse
  BY <1>5, ReplyIsReal DEF processUpgradeEndResponse
<1>6. CASE NetworkAttached \/ Resets
  BY <1>6 DEF NetworkAttached, Resets, Reboot, InstallNewImage, Restart
<1>7. CASE UNCHANGED vars
  BY <1>7 DEF vars
<1> QED  BY <1>1, <1>2, <1>3, <1>4, <1>5, <1>6, <1>7 DEF Next, ResponseHandler

LEMMA OrdinaryExact ==
  ASSUME NEW r \in Reply, Ordinary(r) PROVE Delay(r) = 1024 * Wait(r) /\ Wait(r) \in Nat
<1>1. r.upgradeTime \in 0..(Word - 1) /\ r.currentTime \in 0..(Word - 1)
  BY ReplyInWord
<1>2. /\ r.upgradeTime >= r.currentTime /\ r.upgradeTime - r.currentTime < Horizon
      /\ Wait(r) \in Nat
  BY <1>1, WordDivides DEF Ordinary, Wait
<1> QED  BY <1>1, <1>2, UpgradeExact DEF Delay, Wait

LEMMA TimedMaps == Timed => UpgradeOnTime
<1> SUFFICES ASSUME Timed, timer = "upgrade", Ordinary(upgradeReply)
             PROVE  Delay(upgradeReply)
                      \in (MILLISECOND_TICKS_PER_SECOND * Wait(upgradeReply))
                            ..(1025 * Wait(upgradeReply))
  BY DEF UpgradeOnTime, Timed
<1>1. upgradeReply \in Reply
  BY DEF Timed, TypeOK
<1>2. Delay(upgradeReply) = 1024 * Wait(upgradeReply) /\ Wait(upgradeReply) \in Nat
  BY <1>1, OrdinaryExact
<1>3. MILLISECOND_TICKS_PER_SECOND \in {1000, 1024}
  BY DelaysAssumption
<1> HIDE DEF Timed
<1> QED  BY <1>2, <1>3

\* An upgrade that the client waits for comes when the server said, whatever
\* answers came in what order, if its time is not over and not too far away.
THEOREM UpgradeTimely == Spec => []UpgradeOnTime
<1>1. Init => Timed
  BY InitType DEF Init, Timed
<1>2. Timed /\ TypeOK' /\ [Next]_vars => Timed'
  BY TimedStep
<1> QED  BY <1>1, <1>2, TimedMaps, TypeCorrect, PTL DEF Spec

\* Every behaviour of the client is one of the abstract update: nothing is
\* proposed or installed that is not whole, and no candidate is deleted.
THEOREM Implementation == ASSUME OneTransfer PROVE Spec => ImplementsUpdate
<1>1. Spec => []IInv
  BY Invariance
<1>2. Core /\ Core' /\ [Next]_vars => [Update!Next]_(Update!update)
  BY UpdateStep
<1>3. Init => Update!Empty
  BY UpdateInit
<1> QED  BY <1>1, <1>2, <1>3, InvariantCore, PTL DEF Spec, ImplementsUpdate, Update!Spec

----------------------------------------------------------------------------
(* The progress of a download.                                              *)

\* The steps of the client that leave it downloading.
LEMMA StaysDownloading ==
  ASSUME Core, [Next]_vars, state = "DOWNLOAD", state' = "DOWNLOAD"
  PROVE  \/ downloadStateHandler
         \/ \E i \in Slots : BlockFails(i) \/ BlockArrives(i)
         \/ UNCHANGED <<errors, fileSpec, stored, transfers>>
<1> USE DEF setState, scheduleDiscoverServer, scheduleQueryNextImage, scheduleUpgradeEnd,
      imageVars, storageVars, netVars
<1>1. CASE EventHandler
  BY <1>1 DEF EventHandler, noneStateHandler, discoverServerStateHandler,
     queryNextImageStateHandler, QueryWithoutParameters, verifyDownloadStateHandler,
     upgradeEndStateHandler, InstallRefused, Due, Runs
<1>2. CASE ServerResponds \/ DiscoveryTimedOut \/ QueryFails \/ UpgradeEndFails
  BY <1>2 DEF ServerResponds, DiscoveryTimedOut, QueryFails, UpgradeEndFails
<1>3. ~processQueryNextImageResponse
  BY DEF processQueryNextImageResponse, Answer, Core, Apart, Busy
<1>4. CASE processUpgradeEndResponse
  BY <1>4 DEF processUpgradeEndResponse
<1>5. CASE NetworkAttached \/ Resets
  BY <1>5 DEF NetworkAttached, Resets, Reboot, InstallNewImage, Restart
<1>6. CASE UNCHANGED vars
  BY <1>6 DEF vars
<1> QED  BY <1>1, <1>2, <1>3, <1>4, <1>5, <1>6 DEF Next, ResponseHandler

LEMMA NothingNearer ==
  ASSUME UNCHANGED <<errors, fileSpec, stored, transfers>>
  PROVE  Nearer' = Nearer /\ ~Answered
BY DEF Nearer, Answered, OffsetBlock

\* Asking again, from where the file ends, is no progress and no loss.
LEMMA AskedAgain ==
  ASSUME OneTransfer, Core, downloadStateHandler PROVE Nearer' = Nearer /\ ~Answered
<1>1. fileSpec \in Versions /\ fileSpec' = fileSpec /\ errors' = errors
  BY DEF Core, TypeOK, downloadStateHandler, Runs, Asserts, imageVars
<1>2. OffsetBlock(fileSpec)' = OffsetBlock(fileSpec)
  BY <1>1, OtaAssumption DEF downloadStateHandler, Core, TypeOK, OffsetBlock, Absent
<1>3. ~Answered
  BY OneSlot DEF downloadStateHandler, Answered, Active, Core, TypeOK
<1> QED  BY <1>1, <1>2, <1>3 DEF Nearer

LEMMA ErrorNearer ==
  ASSUME OneTransfer, Core, NEW i \in Slots, BlockFails(i), state' = "DOWNLOAD"
  PROVE  Nearer' = Nearer + 1 /\ Answered
<1>1. errors' = errors + 1 /\ fileSpec' = fileSpec /\ stored' = stored
  BY DEF BlockFails, handleBlockError, downloadComplete, scheduleUpgradeEnd, setState, storageVars
<1>2. OffsetBlock(fileSpec) \in Int /\ errors \in Int
  BY OtaAssumption DEF OffsetBlock, Core, TypeOK, Absent, BlockFails
<1>3. Answered
  BY DEF BlockFails, TransferOver, Active, Answered, Core, TypeOK
<1> QED  BY <1>1, <1>2, <1>3 DEF Nearer, OffsetBlock

LEMMA BlockNearer ==
  ASSUME OneTransfer, Core, NEW i \in Slots, BlockArrives(i), state = "DOWNLOAD", state' = "DOWNLOAD"
  PROVE  Nearer' = Nearer + 1 /\ Answered
<1>1. Loading /\ i = 1 /\ transfers[i] \in Transfer
  BY OneSlot DEF BlockArrives, Loading, Active, Core, TypeOK
<1>2. fileSpec \in Versions /\ transfers[i].number \in Blocks /\ stored[fileSpec] = transfers[i].number
  BY <1>1 DEF Core, Apart, TypeOK, Transfer, BlockArrives
<1>3. errors' = errors /\ fileSpec' = fileSpec /\ errors \in Int
  BY DEF BlockArrives, imageVars, Core, TypeOK
<1>4. stored'[fileSpec] = stored[fileSpec] + 1
  BY <1>2 DEF BlockArrives, WriteBlock, Core, TypeOK, Blocks
<1>5. transfers' = [transfers EXCEPT ![i].number = @ + 1]
  BY DEF BlockArrives, setState
<1>6. transfers'[i].number = transfers[i].number + 1
  BY <1>1, <1>5 DEF Core, TypeOK, Transfer
<1>7. Answered
  BY <1>2, <1>6 DEF Answered, BlockArrives, Blocks
<1> QED  BY <1>2, <1>3, <1>4, <1>7 DEF Nearer, OffsetBlock, Blocks, Absent

LEMMA ProgressMaps ==
  ASSUME OneTransfer, Core, [Next]_vars,
         state = "DOWNLOAD", state' = "DOWNLOAD", fileSpec' = fileSpec
  PROVE  Nearer' = IF Answered THEN Nearer + 1 ELSE Nearer
BY StaysDownloading, NothingNearer, AskedAgain, ErrorNearer, BlockNearer

\* Each answer to a block brings the download one nearer to its end, so that
\* the number of blocks and the threshold bound how many answers it takes.
THEOREM Progress == ASSUME OneTransfer PROVE Spec => DownloadProgresses
<1>1. Spec => []IInv
  BY Invariance
<1>2. Core /\ [Next]_vars =>
        [state = "DOWNLOAD" /\ state' = "DOWNLOAD" /\ fileSpec' = fileSpec =>
           Nearer' = IF Answered THEN Nearer + 1 ELSE Nearer]_vars
  BY ProgressMaps
<1> QED  BY <1>1, <1>2, InvariantCore, PTL DEF Spec, DownloadProgresses
=============================================================================
