------------------------ MODULE SensorActuator_proofs ------------------------
(***************************************************************************)
(* Proofs about the application, for every set of devices, every limit on  *)
(* its lists and on the failures of its reports.                           *)
(***************************************************************************)
EXTENDS SensorActuator, SequenceTheorems, TLAPS

\* The last report is never longer than the scan data it is compared with:
\* without it a report of more devices could pass for one of fewer.
ReportFits == Len(top3Data) <= Len(scanData)

IInv == TypeOK /\ ReportFits /\ ReportMatchesScan /\ AppNeverStalls

----------------------------------------------------------------------------
(* The lists.                                                               *)

\* Sorting a list keeps its length and takes its entries from it.
LEMMA SortedKeeps ==
  ASSUME NEW entries \in Seq(Entry), NEW s \in Sorted(entries)
  PROVE  s \in Seq(Entry) /\ Len(s) = Len(entries)
<1>1. PICK p \in Bijection(DOMAIN entries, DOMAIN entries) :
        s = [i \in DOMAIN entries |-> entries[p[i]]]
  BY DEF Sorted
<1>2. DOMAIN entries = 1..Len(entries) /\ Len(entries) \in Nat
  BY LenProperties
<1>3. p \in [DOMAIN entries -> DOMAIN entries]
  BY DEF Bijection, Injection
<1>4. \A i \in 1..Len(entries) : s[i] \in Entry
  BY <1>1, <1>2, <1>3, ElementOfSeq
<1>5. s \in [1..Len(entries) -> Entry]
  BY <1>1, <1>2, <1>4
<1> QED  BY <1>2, <1>5, SeqDef, LenProperties

\* The list that is sorted is what fits of the scan data.
LEMMA TopFits ==
  ASSUME TypeOK
  PROVE  /\ Top \in Seq(Entry)
         /\ Len(Top) <= MaxTopDevices /\ Len(Top) <= MaxScanningDevices
         /\ Len(Top) = IF Len(scanData) > MaxTopDevices THEN MaxTopDevices ELSE Len(scanData)
<1>1. scanData \in Seq(Entry) /\ Len(scanData) \in Nat
  BY LenProperties DEF TypeOK
<1>2. CASE Len(scanData) > MaxTopDevices
  <2>1. /\ SubSeq(scanData, 1, MaxTopDevices) \in Seq(Entry)
        /\ Len(SubSeq(scanData, 1, MaxTopDevices)) = MaxTopDevices
    BY <1>1, <1>2, SensorActuatorAssumption, SubSeqProperties
  <2> QED  BY <1>2, <2>1, SensorActuatorAssumption DEF Top
<1>3. CASE ~(Len(scanData) > MaxTopDevices)
  BY <1>1, <1>3, SensorActuatorAssumption DEF Top, TypeOK
<1> QED  BY <1>2, <1>3

\* A list that need not be sent names the devices of the last report.
LEMMA SameDevices ==
  ASSUME TypeOK, NEW top \in Seq(Entry), Len(top3Data) <= Len(top), ~isNeededToSend(top)
  PROVE  Len(top) = Len(top3Data) /\ Ids(top3Data) = Ids(top)
<1>1. /\ top3Data \in Seq(Entry)
      /\ Len(top3Data) \in Nat /\ DOMAIN top3Data = 1..Len(top3Data)
      /\ Len(top) \in Nat /\ DOMAIN top = 1..Len(top)
  BY LenProperties DEF TypeOK
<1>2. \A i \in DOMAIN top : i \in DOMAIN top3Data /\ top3Data[i].longId = top[i].longId
  BY DEF isNeededToSend
<1>3. Len(top) <= Len(top3Data)
  <2>1. CASE Len(top) = 0
    BY <1>1, <2>1
  <2>2. CASE Len(top) # 0
    <3>1. Len(top) \in DOMAIN top
      BY <1>1, <2>2
    <3>2. Len(top) \in 1..Len(top3Data)
      BY <1>1, <1>2, <3>1
    <3> QED  BY <1>1, <3>2
  <2> QED  BY <2>1, <2>2
<1>4. Len(top) = Len(top3Data)
  <2>1. \A m, n \in Nat : m <= n /\ n <= m => m = n
    OBVIOUS
  <2>2. Len(top) \in Nat /\ Len(top3Data) \in Nat
    BY <1>1
  <2> QED  BY <1>3, <2>1, <2>2, Zenon
<1>5. DOMAIN top = DOMAIN top3Data
  BY <1>1, <1>4
<1> QED  BY <1>2, <1>4, <1>5 DEF Ids

----------------------------------------------------------------------------
(* The steps.                                                               *)

LEMMA StartInv ==
  ASSUME state' = "INITIAL", stateEvent' = "off", failedReports' = 0, reports' = 0,
         scanning' = FALSE, scanData' = << >>, top3Data' = << >>
  PROVE  IInv'
<1>1. << >> \in Seq(Entry) /\ Len(<< >>) = 0
  BY EmptySeq
<1>2. /\ 0 \in 0..MaxFailures /\ 0 \in 0..MaxReports
      /\ 0 <= MaxScanningDevices /\ 0 <= MaxTopDevices
  BY SensorActuatorAssumption DEF MaxFailures
<1>3. TypeOK'
  <2>1. /\ scanData' \in Seq(Entry) /\ Len(scanData') <= MaxScanningDevices
        /\ top3Data' \in Seq(Entry) /\ Len(top3Data') <= MaxTopDevices
    BY <1>1, <1>2, Zenon
  <2> QED  BY <1>2, <2>1 DEF TypeOK, AppStates
<1> QED  BY <1>1, <1>3 DEF IInv, ReportFits, ReportMatchesScan, AppNeverStalls

\* A step that leaves the lists alone keeps what is known of them.
LEMMA ScanUnchanged ==
  ASSUME IInv, UNCHANGED scanVars
  PROVE  ReportFits' /\ ReportMatchesScan'
BY DEF IInv, scanVars, ReportFits, ReportMatchesScan, Ids

LEMMA SendAirInv == ASSUME IInv, sendAir PROVE IInv'
<1>1. PICK top \in Sorted(Top) :
        /\ scanData' = top
        /\ \/ /\ isNeededToSend(top)
              /\ top3Data' = top
              /\ sendReport
           \/ /\ ~isNeededToSend(top)
              /\ setNextStateWithDelay("REPORT_TEMP_TO_SUBSCRIBER", "report")
              /\ UNCHANGED <<top3Data, reports>>
  BY DEF sendAir
<1>2. /\ top \in Seq(Entry) /\ Len(top) = Len(Top)
      /\ Len(top) <= MaxTopDevices /\ Len(top) <= MaxScanningDevices
  BY <1>1, SortedKeeps, TopFits DEF IInv
<1>3. /\ top3Data \in Seq(Entry) /\ Len(top3Data) <= MaxTopDevices
      /\ Len(top3Data) \in Nat /\ Len(scanData) \in Nat /\ Len(top) \in Nat
  BY <1>2, LenProperties DEF IInv, TypeOK
<1>4. Len(top3Data) <= Len(top)
  BY <1>2, <1>3, TopFits, SensorActuatorAssumption DEF IInv, ReportFits
<1>5. /\ state' \in AppStates /\ stateEvent' \in {"now", "report"}
      /\ reports' \in 0..MaxReports
  <2>1. CASE sendReport
    <3>1. state \in AppStates /\ reports \in 0..MaxReports /\ MaxReports \in Nat
      BY SensorActuatorAssumption DEF IInv, TypeOK
    <3> QED  BY <2>1, <3>1 DEF sendReport, setNextState, setNextStateWithDelay,
                               repeatStateWithDelay, AppStates
  <2>2. CASE setNextStateWithDelay("REPORT_TEMP_TO_SUBSCRIBER", "report") /\ UNCHANGED reports
    BY <2>2 DEF setNextStateWithDelay, AppStates, IInv, TypeOK
  <2> QED  BY <1>1, <2>1, <2>2
<1>6. /\ top3Data' \in Seq(Entry) /\ Len(top3Data') <= MaxTopDevices
      /\ Len(top3Data') <= Len(scanData') /\ Ids(top3Data') = Ids(scanData')
  BY <1>1, <1>2, <1>3, <1>4, SameDevices DEF IInv
<1>7. scanData' \in Seq(Entry) /\ Len(scanData') <= MaxScanningDevices
  BY <1>1, <1>2
<1>8. scanning' = FALSE /\ failedReports' = failedReports
  BY DEF sendAir
<1>9. TypeOK'
  BY <1>5, <1>6, <1>7, <1>8 DEF IInv, TypeOK
<1> QED  BY <1>5, <1>6, <1>9 DEF IInv, ReportFits, ReportMatchesScan, AppNeverStalls, Ids

LEMMA BeaconInv == ASSUME IInv, emberActiveScanHandler PROVE IInv'
<1>1. PICK beacon \in Entry : scanData' = Append(scanData, beacon)
  BY DEF emberActiveScanHandler
<1>2. /\ scanData' \in Seq(Entry) /\ Len(scanData') = Len(scanData) + 1
  BY <1>1, AppendProperties DEF IInv, TypeOK
<1>3. /\ Len(scanData) \in Nat /\ Len(top3Data) \in Nat
      /\ Len(scanData) < MaxScanningDevices /\ MaxScanningDevices \in Nat
  BY LenProperties, SensorActuatorAssumption DEF IInv, TypeOK, emberActiveScanHandler
<1>4. TypeOK'
  BY <1>2, <1>3 DEF IInv, TypeOK, emberActiveScanHandler, reportVars
<1>5. ReportFits'
  BY <1>2, <1>3 DEF IInv, ReportFits, emberActiveScanHandler
<1> QED  BY <1>4, <1>5 DEF IInv, emberActiveScanHandler, ReportMatchesScan, AppNeverStalls

LEMMA ReportAnsweredInv ==
  ASSUME IInv, NEW acked \in BOOLEAN, reportTemperatureStatusHandler(acked)
  PROVE  IInv'
<1>1. /\ reports \in 0..MaxReports /\ MaxReports \in Nat
      /\ failedReports \in 0..MaxFailures /\ MaxFailures \in Nat
  BY SensorActuatorAssumption DEF IInv, TypeOK, MaxFailures
<1>2. reports' \in 0..MaxReports
  BY <1>1 DEF reportTemperatureStatusHandler
<1>3. failedReports' \in 0..MaxFailures
  BY <1>1 DEF reportTemperatureStatusHandler
<1>4. /\ state' \in AppStates /\ stateEvent' \in {"off", "now", "report", "wait"}
      /\ AppNeverStalls'
  BY DEF reportTemperatureStatusHandler, stopReportingTemperature, setNextState,
         setNextStateWithDelay, AppStates, IInv, TypeOK, AppNeverStalls
<1>5. UNCHANGED scanVars
  BY DEF reportTemperatureStatusHandler
<1>6. TypeOK'
  BY <1>2, <1>3, <1>4, <1>5 DEF scanVars, IInv, TypeOK
<1> QED  BY <1>4, <1>5, <1>6, ScanUnchanged DEF IInv

LEMMA StepInv == IInv /\ [Next]_vars => IInv'
<1> SUFFICES ASSUME IInv, [Next]_vars PROVE IInv'
  OBVIOUS
<1>1. CASE Connected
  <2>1. TypeOK' /\ AppNeverStalls'
    BY <1>1 DEF Connected, setNextState, setNextStateWithDelay, IInv, TypeOK, AppStates,
                reportVars, scanVars, AppNeverStalls
  <2> QED  BY <1>1, <2>1, ScanUnchanged DEF Connected, IInv
<1>2. CASE stateEventHandler
  <2>1. TypeOK' /\ AppNeverStalls'
    BY <1>2 DEF stateEventHandler, sensorActuatorIdleState, repeatStateWithDelay,
                setNextStateWithDelay, IInv, TypeOK, reportVars, scanVars, AppNeverStalls
  <2> QED  BY <1>2, <2>1, ScanUnchanged DEF stateEventHandler, IInv
<1>3. CASE networkManagementScanCommand
  BY <1>3 DEF networkManagementScanCommand, IInv, TypeOK, ReportFits, ReportMatchesScan,
              AppNeverStalls, reportVars
<1>4. CASE subscribeHandler
  <2>1. 0 \in 0..MaxFailures
    BY SensorActuatorAssumption DEF MaxFailures
  <2>2. TypeOK' /\ AppNeverStalls'
    BY <1>4, <2>1 DEF subscribeHandler, setNextState, setNextStateWithDelay, IInv, TypeOK,
                      AppStates, scanVars, AppNeverStalls
  <2> QED  BY <1>4, <2>2, ScanUnchanged DEF subscribeHandler, IInv
<1>5. CASE AssertionFails \/ Reset
  BY <1>5, StartInv DEF AssertionFails, Reset
<1>6. CASE UNCHANGED vars
  BY <1>6 DEF vars, reportVars, scanVars, IInv, TypeOK, ReportFits, ReportMatchesScan,
              AppNeverStalls, Ids
<1> QED  BY <1>1, <1>2, <1>3, <1>4, <1>5, <1>6, SendAirInv, BeaconInv, ReportAnsweredInv
         DEF Next

LEMMA InitInv == Init => IInv
<1>1. << >> \in Seq(Entry) /\ Len(<< >>) = 0
  BY EmptySeq
<1>2. /\ 0 \in 0..MaxFailures /\ 0 \in 0..MaxReports
      /\ 0 <= MaxScanningDevices /\ 0 <= MaxTopDevices
  BY SensorActuatorAssumption DEF MaxFailures
<1>3. ASSUME Init
      PROVE  /\ scanData \in Seq(Entry) /\ Len(scanData) <= MaxScanningDevices
             /\ top3Data \in Seq(Entry) /\ Len(top3Data) <= MaxTopDevices
  BY <1>1, <1>2, <1>3, Zenon DEF Init
<1>4. Init => TypeOK
  BY <1>2, <1>3 DEF Init, TypeOK, AppStates
<1> QED
  BY <1>1, <1>4 DEF Init, IInv, ReportFits, ReportMatchesScan, AppNeverStalls

----------------------------------------------------------------------------
(* The theorems.                                                            *)

THEOREM Invariance == Spec => []IInv
<1> QED  BY InitInv, StepInv, PTL DEF Spec

\* The types of the application's state: the arrays never overflow.
THEOREM TypeCorrect == Spec => []TypeOK
<1>1. IInv => TypeOK
  BY DEF IInv
<1> QED  BY Invariance, <1>1, PTL

\* Between scans the last report names the devices of the scan data, whatever
\* the scans before were.
THEOREM ReportCorrect == Spec => []ReportMatchesScan
<1>1. IInv => ReportMatchesScan
  BY DEF IInv
<1> QED  BY Invariance, <1>1, PTL

\* The application always has its event coming.
THEOREM AppLive == Spec => []AppNeverStalls
<1>1. IInv => AppNeverStalls
  BY DEF IInv
<1> QED  BY Invariance, <1>1, PTL
=============================================================================
