----------------------------- MODULE Badge_proofs -----------------------------
(***************************************************************************)
(* Proofs about the badge from power on: what its panel shows and which    *)
(* beacons its report names, for every set of devices and every limit on   *)
(* the lists.  What SensorActuator_proofs shows of the application's steps *)
(* is used here of the steps the main loop lets it take.                   *)
(***************************************************************************)
EXTENDS Badge, SensorActuator_proofs

\* Drawing is always followed by a refresh.
PanelRefreshed == epdInitialized => ram = shown

\* The panel is initialised before the application has anything to report.
NothingReported == ~applicationIsInitialized => top3Data = << >>

\* A full report names the entries that the next scan will sort again.
ReportSettled == Len(top3Data) = MaxTopDevices => Range(top3Data) = Range(Top)

BadgeIInv ==
  IInv /\ BadgeTypeOK /\ PanelRefreshed /\ PanelShowsReport /\ NothingReported /\ ReportSettled

----------------------------------------------------------------------------
(* Lines.                                                                   *)

\* A full report is settled as long as neither list changes.
LEMMA SettledKept ==
  ASSUME ReportSettled, top3Data' = top3Data, scanData' = scanData PROVE ReportSettled'
<1>1. Top' = Top
  BY DEF Top
<1>2. Range(top3Data)' = Range(top3Data) /\ Range(Top)' = Range(Top)
  BY <1>1 DEF Range
<1> QED  BY <1>2 DEF ReportSettled

LEMMA LengthFits ==
  ASSUME NEW text \in Texts
  PROVE  Length(text) \in Nat /\ Length(text) <= SpacesLength /\ Length(text) <= LineLength
<1>1. CASE text = Banner \/ text = Header
  BY <1>1 DEF Length, SpacesLength, LineLength, Banner, Header
<1>2. ASSUME NEW entry \in Entry, text = TopEntry(entry)
      PROVE  Length(text) \in Nat /\ Length(text) <= SpacesLength /\ Length(text) <= LineLength
  <2>1. text.entry = entry /\ text # Banner /\ text # Header
    BY <1>2 DEF TopEntry, Banner, Header
  <2>2. Digits(entry.rssi) \in 1..4
    BY DEF Digits
  <2>3. Length(text) = 25 + Digits(entry.rssi)
    BY <2>1 DEF Length
  <2> QED  BY <2>2, <2>3 DEF SpacesLength, LineLength
<1> QED  BY <1>1, <1>2 DEF Texts

\* A line that shows one text, or none, shows exactly the next one.
LEMMA DrawsExactly ==
  ASSUME NEW text \in Texts, NEW line,
         line = White \/ \E old \in Texts : line = Exactly(old)
  PROVE  EPD_DisplayScanInfo(line, text) = Exactly(text)
<1>1. Length(text) \in Nat
  BY LengthFits
<1>2. line.extent <= SpacesLength
  BY LengthFits DEF White, Exactly, Line, SpacesLength
<1>3. EPD_DisplayScanInfo(line, text) = DisplayStringAt(White, text)
  BY <1>2 DEF EPD_DisplayScanInfo
<1> QED  BY <1>1, <1>3 DEF DisplayStringAt, White, Exactly, Line

LEMMA LineTypes ==
  /\ White \in LineType /\ Noisy \in LineType
  /\ \A text \in Texts : Exactly(text) \in LineType
<1>1. LineLength = 59
  BY DEF LineLength
<1>2. White \in LineType /\ Noisy \in LineType
  BY <1>1 DEF White, Noisy, Line, LineType
<1>3. ASSUME NEW text \in Texts PROVE Exactly(text) \in LineType
  BY <1>1, LengthFits DEF Exactly, Line, LineType
<1> QED  BY <1>2, <1>3

----------------------------------------------------------------------------
(* The panel.                                                               *)

LEMMA ReportPanelType ==
  ASSUME NEW list \in Seq(Entry)
  PROVE  ReportPanel(list) \in [Lines -> LineType]
<1>1. Header \in Texts
  BY DEF Texts
<1>2. \A l \in DOMAIN list : TopEntry(list[l]) \in Texts
  BY LenProperties, ElementOfSeq DEF Texts
<1> QED  BY <1>1, <1>2, LineTypes DEF ReportPanel

LEMMA BannerPanelType == BannerPanel \in [Lines -> LineType]
<1>1. Banner \in Texts
  BY DEF Texts
<1> QED  BY <1>1, LineTypes DEF BannerPanel

\* Drawing a list that is no shorter than the one on the panel replaces all of it.
LEMMA DrawnPanel ==
  ASSUME IInv, PanelRefreshed, PanelShowsReport, epdInitialized,
         NEW top \in Seq(Entry), Len(top3Data) <= Len(top), top # << >>, DrawReport(top)
  PROVE  ram' = ReportPanel(top) /\ shown' = ReportPanel(top)
<1>1. /\ Len(top) \in Nat /\ DOMAIN top = 1..Len(top)
      /\ \A l \in DOMAIN top : TopEntry(top[l]) \in Texts
  BY LenProperties, ElementOfSeq DEF Texts
<1>2. /\ Len(top3Data) \in Nat /\ DOMAIN top3Data = 1..Len(top3Data)
      /\ \A l \in DOMAIN top3Data : TopEntry(top3Data[l]) \in Texts
  BY LenProperties, ElementOfSeq DEF Texts, IInv, TypeOK
<1>3. Banner \in Texts /\ Header \in Texts /\ Lines \subseteq Nat
  BY SensorActuatorAssumption DEF Texts, Lines
<1>4. ram = IF top3Data = << >> THEN BannerPanel ELSE ReportPanel(top3Data)
  BY DEF PanelRefreshed, PanelShowsReport
<1>5. \A l \in Lines : ram[l] = White \/ \E old \in Texts : ram[l] = Exactly(old)
  BY <1>2, <1>3, <1>4 DEF BannerPanel, ReportPanel
<1>6. \A l \in Lines : l # 0 /\ l \notin DOMAIN top => ram[l] = White
  <2>1. ASSUME NEW l \in Lines, l # 0, l \notin DOMAIN top PROVE l \notin DOMAIN top3Data
    BY <1>1, <1>2, <1>3, <2>1
  <2> QED  BY <1>4, <2>1 DEF BannerPanel, ReportPanel
<1>7. ASSUME NEW l \in Lines
      PROVE  /\ EPD_DisplayScanInfo(ram[l], Header) = Exactly(Header)
             /\ l \in DOMAIN top => EPD_DisplayScanInfo(ram[l], TopEntry(top[l]))
                                      = Exactly(TopEntry(top[l]))
  BY <1>1, <1>3, <1>5, DrawsExactly
<1>8. ram' = ReportPanel(top)
  BY <1>6, <1>7 DEF DrawReport, ReportPanel
<1> QED  BY <1>8 DEF DrawReport, EPD_UpdateDisplay

\* The banner on the cleaned panel.
LEMMA BannerDrawn ==
  ASSUME ram' = [EPD_clean EXCEPT ![0] = DisplayStringAt(@, Banner)]
  PROVE  ram' = BannerPanel
<1>1. 0 \in Lines
  BY SensorActuatorAssumption DEF Lines
<1>2. DisplayStringAt(White, Banner) = Exactly(Banner)
  <2>1. Length(Banner) = 35
    BY DEF Length
  <2> QED  BY <2>1 DEF DisplayStringAt, White, Line, Exactly
<1> QED  BY <1>1, <1>2 DEF EPD_clean, BannerPanel

----------------------------------------------------------------------------
(* The list.                                                                *)

\* Sorting keeps the entries.
LEMMA SortedRange ==
  ASSUME NEW entries \in Seq(Entry), NEW s \in Sorted(entries)
  PROVE  Range(s) = Range(entries)
<1>1. PICK p \in Bijection(DOMAIN entries, DOMAIN entries) :
        s = [i \in DOMAIN entries |-> entries[p[i]]]
  BY DEF Sorted
<1>2. /\ p \in [DOMAIN entries -> DOMAIN entries]
      /\ \A t \in DOMAIN entries : \E i \in DOMAIN entries : p[i] = t
  BY DEF Bijection, Injection, Surjection
<1>3. DOMAIN s = DOMAIN entries
  BY <1>1
<1> QED  BY <1>1, <1>2, <1>3 DEF Range

\* A new beacon does not reach the entries that a full report names.
LEMMA BeaconKeepsTop ==
  ASSUME IInv, emberActiveScanHandler, Len(top3Data) = MaxTopDevices
  PROVE  Top' = Top
<1>1. PICK beacon \in Entry : scanData' = Append(scanData, beacon)
  BY DEF emberActiveScanHandler
<1>2. /\ scanData \in Seq(Entry) /\ Len(scanData) \in Nat /\ MaxTopDevices \in Nat \ {0}
      /\ MaxTopDevices <= Len(scanData)
  BY LenProperties, SensorActuatorAssumption DEF IInv, TypeOK, ReportFits
<1>3. Len(scanData') = Len(scanData) + 1 /\ scanData' \in Seq(Entry)
  BY <1>1, <1>2, AppendProperties
<1>4. Top = SubSeq(scanData, 1, MaxTopDevices)
  <2>1. CASE Len(scanData) > MaxTopDevices
    BY <2>1 DEF Top
  <2>2. CASE Len(scanData) = MaxTopDevices
    <3>1. SubSeq(scanData, 1, Len(scanData)) = scanData
      BY <1>2
    <3> QED  BY <2>2, <1>2, <3>1 DEF Top
  <2> QED  BY <1>2, <2>1, <2>2
<1>5. Top' = SubSeq(scanData', 1, MaxTopDevices)
  BY <1>2, <1>3 DEF Top
<1>6. SubSeq(scanData', 1, MaxTopDevices) = SubSeq(scanData, 1, MaxTopDevices)
  BY <1>1, <1>2, <1>3
<1> QED  BY <1>4, <1>5, <1>6

----------------------------------------------------------------------------
(* The steps.                                                               *)

\* A step of the application that is not the end of a scan.
LEMMA AppTickInv == ASSUME BadgeIInv, AppTick PROVE BadgeIInv'
<1>1. IInv /\ [Next]_vars
  BY DEF BadgeIInv, AppTick, Next
<1>2. IInv'
  BY <1>1, StepInv
<1>3. UNCHANGED <<bootVars, panelVars, top3Data>>
  BY DEF AppTick, Connected, stateEventHandler, networkManagementScanCommand, subscribeHandler,
         emberActiveScanHandler, reportTemperatureStatusHandler, scanVars
<1>4. ReportSettled'
  <2>1. CASE emberActiveScanHandler
    BY <1>1, <1>3, <2>1, BeaconKeepsTop DEF BadgeIInv, ReportSettled, Range
  <2>2. CASE ~emberActiveScanHandler
    <3>1. scanData' = scanData
      BY <2>2 DEF AppTick, Connected, stateEventHandler, networkManagementScanCommand,
                  subscribeHandler, reportTemperatureStatusHandler, scanVars
    <3> QED  BY <1>3, <3>1, SettledKept DEF BadgeIInv
  <2> QED  BY <2>1, <2>2
<1>5. BadgeTypeOK' /\ PanelRefreshed' /\ PanelShowsReport' /\ NothingReported'
  BY <1>3 DEF BadgeIInv, bootVars, panelVars, BadgeTypeOK, PanelRefreshed, PanelShowsReport,
              NothingReported, BannerPanel, ReportPanel
<1> QED  BY <1>2, <1>4, <1>5 DEF BadgeIInv

\* What the end of a scan makes of the lists.
LEMMA ScanReturnsLists ==
  ASSUME BadgeIInv, sendAir
  PROVE  /\ scanData' \in Seq(Entry) /\ Len(top3Data) <= Len(scanData')
         /\ Range(scanData') = Range(Top) /\ Top' = scanData'
         /\ \/ isNeededToSend(scanData') /\ top3Data' = scanData'
            \/ ~isNeededToSend(scanData') /\ top3Data' = top3Data
<1>1. PICK top \in Sorted(Top) :
        /\ scanData' = top
        /\ \/ isNeededToSend(top) /\ top3Data' = top
           \/ ~isNeededToSend(top) /\ UNCHANGED top3Data
  BY DEF sendAir
<1>2. /\ top \in Seq(Entry) /\ Len(top) = Len(Top) /\ Len(top) <= MaxTopDevices
      /\ Range(top) = Range(Top)
  BY <1>1, SortedKeeps, SortedRange, TopFits DEF BadgeIInv, IInv
<1>3. Len(top3Data) <= Len(top)
  <2>1. /\ Len(top3Data) \in Nat /\ Len(scanData) \in Nat
        /\ Len(top3Data) <= MaxTopDevices /\ Len(top3Data) <= Len(scanData)
    BY LenProperties DEF BadgeIInv, IInv, TypeOK, ReportFits
  <2> QED  BY <1>2, <2>1, TopFits, SensorActuatorAssumption DEF BadgeIInv, IInv
<1>4. Top' = scanData'
  <2>1. Len(scanData') \in Nat /\ ~(Len(scanData') > MaxTopDevices)
    BY <1>1, <1>2, LenProperties, SensorActuatorAssumption
  <2> QED  BY <2>1 DEF Top
<1> QED  BY <1>1, <1>2, <1>3, <1>4

LEMMA ScanReturnsInv == ASSUME BadgeIInv, ScanReturns PROVE BadgeIInv'
<1>1. IInv' /\ sendAir
  BY SendAirInv DEF ScanReturns, BadgeIInv
<1>2. /\ stackIsInitialized /\ epdInitialized /\ applicationIsInitialized
      /\ UNCHANGED bootVars
  BY DEF ScanReturns, Running
<1>3. ReportSettled'
  <2>1. ASSUME top3Data' = top3Data, Len(top3Data) = MaxTopDevices
        PROVE  Range(top3Data') = Range(Top')
    <3>1. Range(top3Data) = Range(Top)
      BY <2>1 DEF BadgeIInv, ReportSettled
    <3>2. Range(scanData') = Range(Top) /\ Top' = scanData'
      BY <1>1, ScanReturnsLists
    <3> QED  BY <2>1, <3>1, <3>2 DEF Range
  <2>2. CASE top3Data' = scanData'
    BY <1>1, <2>2, ScanReturnsLists DEF ReportSettled, Range
  <2>3. CASE top3Data' = top3Data
    BY <2>1, <2>3 DEF ReportSettled, Range
  <2> QED  BY <1>1, <2>2, <2>3, ScanReturnsLists
<1>4. PanelRefreshed' /\ PanelShowsReport'
      /\ (stackIsInitialized' /\ ram' \in [Lines -> LineType] /\ shown' \in [Lines -> LineType])
  <2>1. CASE isNeededToSend(scanData')
    <3>1. scanData' # << >>
      BY <2>1, EmptySeq DEF isNeededToSend
    <3>2. DrawReport(scanData') /\ top3Data' = scanData'
      BY <1>1, <2>1, ScanReturnsLists DEF ScanReturns
    <3>3. ram' = ReportPanel(scanData') /\ shown' = ReportPanel(scanData')
      BY <1>1, <1>2, <3>1, <3>2, ScanReturnsLists, DrawnPanel DEF BadgeIInv
    <3>4. ReportPanel(scanData') \in [Lines -> LineType]
      BY <1>1, ScanReturnsLists, ReportPanelType
    <3>5. PanelShowsReport'
      BY <3>1, <3>2, <3>3 DEF PanelShowsReport, ReportPanel
    <3> QED  BY <1>2, <3>3, <3>4, <3>5 DEF PanelRefreshed, bootVars
  <2>2. CASE ~isNeededToSend(scanData')
    <3>1. top3Data' = top3Data /\ UNCHANGED panelVars
      BY <1>1, <2>2, ScanReturnsLists DEF ScanReturns
    <3> QED  BY <1>2, <3>1 DEF BadgeIInv, panelVars, bootVars, PanelRefreshed, PanelShowsReport,
                           ReportPanel, BannerPanel, BadgeTypeOK, LineType
  <2> QED  BY <2>1, <2>2
<1>5. BadgeTypeOK' /\ NothingReported'
  BY <1>2, <1>4 DEF BadgeIInv, BadgeTypeOK, NothingReported, bootVars, LineType
<1> QED  BY <1>1, <1>3, <1>4, <1>5 DEF BadgeIInv

LEMMA BootInv ==
  ASSUME BadgeIInv, emberInitReturn \/ InitDisplay \/ InitApplication
  PROVE  BadgeIInv'
<1>1. UNCHANGED vars
  BY DEF emberInitReturn, InitDisplay, InitApplication
<1>2. IInv' /\ ReportSettled'
  <2>1. IInv'
    BY <1>1, StepInv DEF BadgeIInv
  <2>2. top3Data' = top3Data /\ scanData' = scanData
    BY <1>1 DEF vars, scanVars
  <2> QED  BY <2>1, <2>2, SettledKept DEF BadgeIInv
<1>3. UNCHANGED top3Data
  BY <1>1 DEF vars, scanVars
<1>4. CASE emberInitReturn
  BY <1>2, <1>3, <1>4 DEF emberInitReturn, panelVars, BadgeIInv, BadgeTypeOK, PanelRefreshed,
         PanelShowsReport, NothingReported, BannerPanel, ReportPanel
<1>5. CASE InitDisplay
  <2>1. ram' = BannerPanel /\ shown' = BannerPanel
    BY <1>5, BannerDrawn DEF InitDisplay, EPD_UpdateDisplay
  <2>2. top3Data = << >>
    BY <1>5 DEF InitDisplay, BadgeIInv, NothingReported, BadgeTypeOK
  <2>3. BadgeTypeOK'
    BY <1>5, <2>1, BannerPanelType DEF InitDisplay, BadgeIInv, BadgeTypeOK, LineType
  <2> QED  BY <1>2, <1>3, <1>5, <2>1, <2>2, <2>3
           DEF BadgeIInv, PanelRefreshed, PanelShowsReport, NothingReported, BannerPanel
<1>6. CASE InitApplication
  BY <1>2, <1>3, <1>6 DEF InitApplication, panelVars, BadgeIInv, BadgeTypeOK, PanelRefreshed,
         PanelShowsReport, NothingReported, BannerPanel, ReportPanel
<1> QED  BY <1>4, <1>5, <1>6

LEMMA BadgeResetInv == ASSUME BadgeIInv, BadgeReset PROVE BadgeIInv'
<1>1. IInv'
  BY StartInv DEF BadgeReset, Reset
<1>2. top3Data' = << >> /\ Len(top3Data') # MaxTopDevices
  BY EmptySeq, SensorActuatorAssumption DEF BadgeReset, Reset
<1>3. ram' \in [Lines -> LineType] /\ shown' \in [Lines -> LineType]
  BY LineTypes DEF BadgeReset, BadgeIInv, BadgeTypeOK, LineType
<1> QED  BY <1>1, <1>2, <1>3 DEF BadgeReset, BadgeIInv, BadgeTypeOK, LineType, PanelRefreshed,
                                 PanelShowsReport, NothingReported, ReportSettled

LEMMA BadgeInitInv == BadgeInit => BadgeIInv
<1> SUFFICES ASSUME BadgeInit PROVE BadgeIInv
  OBVIOUS
<1>1. IInv
  BY InitInv DEF BadgeInit
<1>2. top3Data = << >> /\ Len(top3Data) # MaxTopDevices
  BY EmptySeq, SensorActuatorAssumption DEF BadgeInit, Init
<1>3. ram \in [Lines -> LineType] /\ shown \in [Lines -> LineType]
  BY LineTypes DEF BadgeInit
<1> QED  BY <1>1, <1>2, <1>3 DEF BadgeInit, BadgeIInv, BadgeTypeOK, LineType, PanelRefreshed,
                                 PanelShowsReport, NothingReported, ReportSettled

LEMMA BadgeStepInv == BadgeIInv /\ [BadgeNext]_badgeVars => BadgeIInv'
<1> SUFFICES ASSUME BadgeIInv, [BadgeNext]_badgeVars PROVE BadgeIInv'
  OBVIOUS
<1>1. CASE UNCHANGED badgeVars
  <2>1. IInv'
    BY <1>1, StepInv DEF BadgeIInv, badgeVars
  <2>2. UNCHANGED <<bootVars, panelVars, scanVars>>
    BY <1>1 DEF badgeVars, vars
  <2>3. BadgeTypeOK' /\ PanelRefreshed' /\ NothingReported'
    BY <2>2 DEF BadgeIInv, bootVars, panelVars, scanVars, BadgeTypeOK, PanelRefreshed,
                NothingReported
  <2>4. PanelShowsReport'
    <3>1. UNCHANGED <<epdInitialized, shown, top3Data>> /\ PanelShowsReport
      BY <2>2 DEF BadgeIInv, bootVars, panelVars, scanVars
    <3> QED  BY <3>1 DEF PanelShowsReport, BannerPanel, ReportPanel
  <2>5. ReportSettled'
    <3>1. top3Data' = top3Data /\ scanData' = scanData
      BY <2>2 DEF scanVars
    <3> QED  BY <3>1, SettledKept DEF BadgeIInv
  <2> QED  BY <2>1, <2>3, <2>4, <2>5 DEF BadgeIInv
<1> QED  BY <1>1, AppTickInv, ScanReturnsInv, BootInv, BadgeResetInv DEF BadgeNext

----------------------------------------------------------------------------
(* The theorems.                                                            *)

\* The invariant of the whole badge holds from power on.
THEOREM BadgeInvariance == BadgeSpec => []BadgeIInv
<1> QED  BY BadgeInitInv, BadgeStepInv, PTL DEF BadgeSpec

\* The order of the initialisation, and the types of the panel.
THEOREM BadgeTypeCorrect == BadgeSpec => []BadgeTypeOK
<1>1. BadgeIInv => BadgeTypeOK
  BY DEF BadgeIInv
<1> QED  BY BadgeInvariance, <1>1, PTL

\* The panel shows the last report and nothing else, whatever it showed before
\* the reset and however many reports there were since.
THEOREM PanelCorrect == BadgeSpec => []PanelShowsReport
<1>1. BadgeIInv => PanelShowsReport
  BY DEF BadgeIInv
<1> QED  BY BadgeInvariance, <1>1, PTL

\* A full report names the same beacons until the next reset.
THEOREM ReportFrozen == BadgeSpec => FullReportStays
<1>1. ASSUME BadgeIInv, [BadgeNext]_badgeVars, Len(top3Data) = MaxTopDevices,
             top3Data' # << >>
      PROVE  Range(top3Data') = Range(top3Data)
  <2>1. CASE ScanReturns
    <3>1. sendAir
      BY <2>1 DEF ScanReturns
    <3>2. Range(top3Data) = Range(Top)
      BY <1>1 DEF BadgeIInv, ReportSettled
    <3>3. CASE top3Data' = scanData'
      BY <1>1, <3>1, <3>2, <3>3, ScanReturnsLists DEF Range
    <3>4. CASE top3Data' = top3Data
      BY <3>4 DEF Range
    <3> QED  BY <1>1, <3>1, <3>3, <3>4, ScanReturnsLists
  <2>2. CASE BadgeReset
    BY <1>1, <2>2 DEF BadgeReset, Reset
  <2>3. CASE ~ScanReturns /\ ~BadgeReset
    <3>1. UNCHANGED top3Data
      BY <1>1, <2>3 DEF BadgeNext, emberInitReturn, InitDisplay, InitApplication, AppTick,
         Connected, stateEventHandler, networkManagementScanCommand, emberActiveScanHandler,
         subscribeHandler, reportTemperatureStatusHandler, scanVars, vars, badgeVars
    <3> QED  BY <3>1 DEF Range
  <2> QED  BY <2>1, <2>2, <2>3
<1>2. BadgeIInv /\ [BadgeNext]_badgeVars
        => [Len(top3Data) = MaxTopDevices /\ top3Data' # << >>
              => Range(top3Data') = Range(top3Data)]_badgeVars
  BY <1>1
<1> QED  BY BadgeInvariance, <1>2, PTL DEF BadgeSpec, FullReportStays

----------------------------------------------------------------------------
(* The badge implements its application: what the main loop, the panel and  *)
(* a reset add are steps of the application or steps it does not see, so    *)
(* everything proved of the application alone holds in the badge.           *)

LEMMA BadgeStepMaps == [BadgeNext]_badgeVars => [Next]_vars
<1> SUFFICES ASSUME [BadgeNext]_badgeVars PROVE [Next]_vars
  OBVIOUS
<1>1. CASE emberInitReturn \/ InitDisplay \/ InitApplication \/ UNCHANGED badgeVars
  BY <1>1 DEF emberInitReturn, InitDisplay, InitApplication, badgeVars
<1>2. CASE ScanReturns
  BY <1>2 DEF ScanReturns, Next
<1>3. CASE AppTick
  BY <1>3 DEF AppTick, Next
<1>4. CASE BadgeReset
  BY <1>4 DEF BadgeReset, Next
<1> QED  BY <1>1, <1>2, <1>3, <1>4 DEF BadgeNext

\* Every behaviour of the badge is one of the application, from power on.
THEOREM BadgeImplementsApplication == BadgeSpec => Spec
<1>1. BadgeInit => Init
  BY DEF BadgeInit
<1> QED  BY <1>1, BadgeStepMaps, PTL DEF BadgeSpec, Spec

\* In the badge, too, no list of the application outgrows its array.
THEOREM BadgeApplicationTypes == BadgeSpec => []TypeOK
<1> QED  BY BadgeImplementsApplication, TypeCorrect, PTL

\* In the badge, too, the last report names the devices of the scan data.
THEOREM BadgeReportCorrect == BadgeSpec => []ReportMatchesScan
<1> QED  BY BadgeImplementsApplication, ReportCorrect, PTL

\* In the badge, too, the application always has its event coming.
THEOREM BadgeApplicationLive == BadgeSpec => []AppNeverStalls
<1> QED  BY BadgeImplementsApplication, AppLive, PTL
=============================================================================
