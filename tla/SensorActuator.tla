--------------------------- MODULE SensorActuator ---------------------------
(***************************************************************************)
(* The badge's application: it gathers the beacons of a scan               *)
(* (scan-debug/scan-debug.c), keeps the strongest ones and reports them to *)
(* a subscriber when they change (sensor-actuator-implementation.c:        *)
(* sendAir, the subscription handlers, the handler of the state event).    *)
(* One state and one event with one timer are shared by the three.         *)
(***************************************************************************)
EXTENDS Integers, Sequences, Functions

CONSTANTS
  Devices,             \* senders of beacons, without the "mobile" networks
  Strengths,           \* received signal strengths
  MaxScanningDevices,  \* MAX_SCANNING_DEVICES
  MaxTopDevices,       \* MAX_TOP_DEVICES
  ReportFailureLimit,  \* REPORT_FAILURE_LIMIT
  MaxReports           \* BOUND: reports that are not answered yet

ASSUME SensorActuatorAssumption ==
  /\ Strengths \subseteq Int
  /\ MaxTopDevices \in Nat \ {0} /\ MaxScanningDevices \in Nat
  /\ MaxTopDevices <= MaxScanningDevices
  /\ ReportFailureLimit \in Nat \ {0} /\ MaxReports \in Nat \ {0}

VARIABLES
  state,
  stateEvent,     \* stateEventControl: how far its timer runs
  failedReports,
  reports,        \* reports that are not answered yet
  scanning,       \* is the stack scanning?
  scanData,       \* its first scanCounter entries
  top3Data        \* what was reported last, without the blank entries

reportVars == <<failedReports, reports>>
scanVars   == <<scanning, scanData, top3Data>>
vars == <<state, stateEvent, reportVars, scanVars>>

Entry == [longId : Devices, rssi : Strengths]

\* BOUND: a scan that is in the way of the detachment may add failures for ever.
MaxFailures == ReportFailureLimit + 1

AppStates == {"INITIAL", "WAIT_FOR_SUBSCRIPTIONS", "REPORT_TEMP_TO_SUBSCRIBER",
              "WAIT_FOR_DATA_CONFIRMATION", "IDLE"}

TypeOK ==
  /\ state \in AppStates
  /\ stateEvent \in {"off", "now", "report", "wait"}
  /\ failedReports \in 0..MaxFailures /\ reports \in 0..MaxReports
  /\ scanning \in BOOLEAN
  /\ scanData \in Seq(Entry) /\ Len(scanData) <= MaxScanningDevices
  /\ top3Data \in Seq(Entry) /\ Len(top3Data) <= MaxTopDevices

Init ==
  /\ state = "INITIAL" /\ stateEvent = "off"
  /\ failedReports = 0 /\ reports = 0
  /\ scanning = FALSE /\ scanData = << >> /\ top3Data = << >>

\* The device is reset, or powered off and on.
Reset ==
  /\ state' = "INITIAL" /\ stateEvent' = "off"
  /\ failedReports' = 0 /\ reports' = 0
  /\ scanning' = FALSE /\ scanData' = << >> /\ top3Data' = << >>

setNextStateWithDelay(nextState, delay) == state' = nextState /\ stateEvent' = delay

setNextState(nextState) == setNextStateWithDelay(nextState, "now")

repeatStateWithDelay(delay) == setNextStateWithDelay(state, delay)

\* emberConnectionManagerConnectCompleteCallback; it ignores the other statuses.
Connected ==
  /\ setNextState("IDLE")
  /\ UNCHANGED <<reportVars, scanVars>>

----------------------------------------------------------------------------
(* The state event.  Its handler asserts that the state is IDLE, and a      *)
(* failed assert resets the device.                                         *)

\* Mutant: the idle state is left without a timer.
IdleOnce == state' = state /\ stateEvent' = "off"

sensorActuatorIdleState == repeatStateWithDelay("wait")

stateEventHandler ==
  /\ stateEvent # "off" /\ state = "IDLE"
  /\ sensorActuatorIdleState
  /\ UNCHANGED <<reportVars, scanVars>>

AssertionFails == stateEvent # "off" /\ state # "IDLE" /\ Reset

----------------------------------------------------------------------------
(* Scans.  initDataBeforeScan has one caller, the static startScanAir       *)
(* (929-931), which nothing calls, so each scan adds to what is left of the *)
(* one before.                                                              *)

networkManagementScanCommand ==
  /\ ~scanning
  /\ scanning' = TRUE
  /\ UNCHANGED <<state, stateEvent, reportVars, scanData, top3Data>>

\* Mutant: does not look whether the array is full.
BeaconOverflows ==
  /\ scanning
  /\ \E beacon \in Entry : scanData' = Append(scanData, beacon)
  /\ UNCHANGED <<state, stateEvent, reportVars, scanning, top3Data>>

emberActiveScanHandler ==
  /\ scanning
  /\ Len(scanData) < MaxScanningDevices
  /\ \E beacon \in Entry : scanData' = Append(scanData, beacon)
  /\ UNCHANGED <<state, stateEvent, reportVars, scanning, top3Data>>

\* The entries that are sorted, in any order of equal strengths.
Sorted(entries) ==
  { s \in {[i \in DOMAIN entries |-> entries[p[i]]] :
             p \in Bijection(DOMAIN entries, DOMAIN entries)} :
      \A i, j \in DOMAIN s : i < j => s[i].rssi >= s[j].rssi }

\* Mutant: keeps the beacons of the last scan instead of the first ones.
LatestEntries ==
  IF Len(scanData) > MaxTopDevices
  THEN SubSeq(scanData, Len(scanData) - MaxTopDevices + 1, Len(scanData)) ELSE scanData

Top == IF Len(scanData) > MaxTopDevices THEN SubSeq(scanData, 1, MaxTopDevices)
                                        ELSE scanData

\* Mutant: looks for each device anywhere in the last report, as the loop that
\* is commented out in the code did.
HasNewDevice(top) ==
  \E i \in DOMAIN top : \A j \in DOMAIN top3Data : top3Data[j].longId # top[i].longId

\* Compares place by place, and only the devices.
isNeededToSend(top) ==
  \E i \in DOMAIN top : i \in DOMAIN top3Data => top3Data[i].longId # top[i].longId

sendReport ==
  \/ /\ reports < MaxReports
     /\ reports' = reports + 1
     /\ setNextState("WAIT_FOR_DATA_CONFIRMATION")
  \/ repeatStateWithDelay("report") /\ UNCHANGED reports  \* not sent

\* emberScanReturn, whatever the status of the scan.
sendAir ==
  /\ scanning
  /\ scanning' = FALSE
  /\ \E top \in Sorted(Top) :
       /\ scanData' = top
       /\ \/ /\ isNeededToSend(top)
             /\ top3Data' = top
             /\ sendReport
          \/ /\ ~isNeededToSend(top)
             /\ setNextStateWithDelay("REPORT_TEMP_TO_SUBSCRIBER", "report")
             /\ UNCHANGED <<top3Data, reports>>
  /\ UNCHANGED failedReports

----------------------------------------------------------------------------
(* Subscriptions.                                                           *)

\* Another state answers SERVICE_UNAVAILABLE.
subscribeHandler ==
  /\ state = "WAIT_FOR_SUBSCRIPTIONS"
  /\ failedReports' = 0
  /\ setNextState("REPORT_TEMP_TO_SUBSCRIBER")
  /\ UNCHANGED <<reports, scanVars>>

stopReportingTemperature == setNextState("WAIT_FOR_SUBSCRIPTIONS")

\* A report was acknowledged, or was not.
reportTemperatureStatusHandler(acked) ==
  /\ reports > 0
  /\ reports' = reports - 1
  /\ \/ /\ state = "WAIT_FOR_DATA_CONFIRMATION"
        /\ failedReports' = IF acked THEN 0 ELSE failedReports + 1
        /\ failedReports' <= MaxFailures
        /\ IF failedReports' < ReportFailureLimit
           THEN setNextStateWithDelay("REPORT_TEMP_TO_SUBSCRIBER", "report")
           ELSE stopReportingTemperature
     \/ /\ state # "WAIT_FOR_DATA_CONFIRMATION"
        /\ UNCHANGED <<state, stateEvent, failedReports>>
  /\ UNCHANGED scanVars

----------------------------------------------------------------------------
Next ==
  \/ Connected
  \/ stateEventHandler
  \/ networkManagementScanCommand \/ emberActiveScanHandler \/ sendAir
  \/ subscribeHandler
  \/ \E acked \in BOOLEAN : reportTemperatureStatusHandler(acked)
  \/ AssertionFails \/ Reset

Spec == Init /\ [][Next]_vars

----------------------------------------------------------------------------
(* Properties.                                                              *)

\* The devices of a list, in its order.
Ids(list) == [i \in DOMAIN list |-> list[i].longId]

(***************************************************************************)
(* Between scans the last report, sent or tried, names the devices of the  *)
(* scan data in the order of their strengths: no scan, however many came   *)
(* before, leaves a report that sendAir should have replaced.              *)
(***************************************************************************)
ReportMatchesScan == ~scanning => Ids(top3Data) = Ids(scanData)

(***************************************************************************)
(* Once connected or scanned, the application always has its event coming: *)
(* whoever sets the shared state also sets the timer, and idling repeats.  *)
(***************************************************************************)
AppNeverStalls == state # "INITIAL" => stateEvent # "off"

(***************************************************************************)
(* sensor-actuator-implementation.c:871-873: assert(false), the event is   *)
(* only due in the state IDLE.                                             *)
(***************************************************************************)
StateEventHandled == stateEvent # "off" => state = "IDLE"
=============================================================================
