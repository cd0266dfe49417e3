-------------------------------- MODULE Badge --------------------------------
(***************************************************************************)
(* The badge from power on (main/main.c): its loop waits for the stack,    *)
(* initialises the e-paper panel, then the application, and only then lets *)
(* the application of SensorActuator run.  The panel has a RAM of its own, *)
(* which is what drawing writes to, and goes on showing what it was last   *)
(* refreshed with, through resets and without power                        *)
(* (rutledge-epaper-module/Display_EPD_W21.c).  sendAir redraws the lines  *)
(* of the list it reports, so the panel keeps whatever was drawn before    *)
(* and is not covered.                                                     *)
(***************************************************************************)
EXTENDS SensorActuator

ASSUME BadgeAssumption == Strengths \subseteq -128..127  \* int8_t rssi

VARIABLES
  stackIsInitialized, epdInitialized, applicationIsInitialized,
  ram,    \* the panel's RAM, line by line
  shown   \* what the panel shows

bootVars  == <<stackIsInitialized, epdInitialized, applicationIsInitialized>>
panelVars == <<ram, shown>>
badgeVars == <<vars, bootVars, panelVars>>

----------------------------------------------------------------------------
(* Lines of the panel.  A line is drawn character by character from the     *)
(* left, so a shorter text leaves the end of a longer one: `extent' is how  *)
(* far from the left the line is not blank.                                 *)

Lines == 0..MaxTopDevices

\* Characters of a line: EPD_WIDTH over the width of Font8.
LineLength == 295 \div 5

\* The spaces that EPD_DisplayScanInfo draws to clear a line.
SpacesLength == 42

Banner  == [kind |-> "banner"]  \* "EPAPER TEST EPAPER TEST EPAPER TEST"
Header  == [kind |-> "header"]  \* "EXM:|EUI:<16 digits>"
Nothing == [kind |-> "nothing"]
Noise   == [kind |-> "noise"]   \* what a reset in the middle of drawing leaves
TopEntry(entry) == [kind |-> "top", entry |-> entry]  \* "TOP1:[<16 digits>][-50]"

Texts == {Banner, Header} \cup {TopEntry(entry) : entry \in Entry}

\* The characters that "%d" prints of a strength.
Digits(rssi) ==
  LET size == IF rssi < 0 THEN 0 - rssi ELSE rssi
  IN  (IF rssi < 0 THEN 1 ELSE 0)
        + (IF size >= 100 THEN 3 ELSE IF size >= 10 THEN 2 ELSE 1)

Length(text) ==
  IF text = Banner THEN 35
  ELSE IF text = Header THEN 25
  ELSE 25 + Digits(text.entry.rssi)

Line(text, extent) == [text |-> text, extent |-> extent]

LineType == [text : Texts \cup {Nothing, Noise}, extent : 0..LineLength]

White == Line(Nothing, 0)
Noisy == Line(Noise, LineLength)

\* What a line is when it shows the text and nothing else.
Exactly(text) == Line(text, Length(text))

DisplayStringAt(line, text) ==
  Line(text, IF line.extent > Length(text) THEN line.extent ELSE Length(text))

\* Mutant: draws over what the line shows.
DrawOver(line, text) == DisplayStringAt(line, text)

EPD_DisplayScanInfo(line, text) ==
  DisplayStringAt(IF line.extent <= SpacesLength THEN White ELSE line, text)

\* Mutant: counts on a panel that is white already.
NoCleaning == ram

EPD_clean == [l \in Lines |-> White]

EPD_UpdateDisplay == shown' = ram'

BadgeTypeOK ==
  /\ stackIsInitialized \in BOOLEAN /\ epdInitialized \in BOOLEAN
  /\ applicationIsInitialized \in BOOLEAN
  /\ epdInitialized => stackIsInitialized
  /\ applicationIsInitialized => epdInitialized
  /\ ram \in [Lines -> LineType] /\ shown \in [Lines -> LineType]

----------------------------------------------------------------------------
(* Start and reset: the panel does not know of it.                          *)

BadgeInit ==
  /\ Init
  /\ stackIsInitialized = FALSE /\ epdInitialized = FALSE
  /\ applicationIsInitialized = FALSE
  /\ ram = [l \in Lines |-> Noisy] /\ shown = ram

\* By a failed assert, the watchdog or the user, at any moment: the RAM may be
\* half drawn and the panel half refreshed.
BadgeReset ==
  /\ Reset
  /\ stackIsInitialized' = FALSE /\ epdInitialized' = FALSE
  /\ applicationIsInitialized' = FALSE
  /\ ram' \in {ram, [l \in Lines |-> Noisy]}
  /\ shown' \in {shown, [l \in Lines |-> Noisy]}

\* An answer other than success fails the assert, which is a reset.
emberInitReturn ==
  /\ ~stackIsInitialized
  /\ stackIsInitialized' = TRUE
  /\ applicationIsInitialized' = FALSE
  /\ UNCHANGED <<vars, epdInitialized, panelVars>>

\* Mutant: does not wait for the stack.
InitDisplayFirst ==
  /\ ~epdInitialized
  /\ epdInitialized' = TRUE
  /\ ram' = [EPD_clean EXCEPT ![0] = DisplayStringAt(@, Banner)]
  /\ EPD_UpdateDisplay
  /\ UNCHANGED <<vars, stackIsInitialized, applicationIsInitialized>>

InitDisplay ==
  /\ stackIsInitialized
  /\ ~epdInitialized
  /\ epdInitialized' = TRUE
  /\ ram' = [EPD_clean EXCEPT ![0] = DisplayStringAt(@, Banner)]
  /\ EPD_UpdateDisplay
  /\ UNCHANGED <<vars, stackIsInitialized, applicationIsInitialized>>

\* emAfInit; of the modelled state it changes only this flag.
InitApplication ==
  /\ stackIsInitialized /\ epdInitialized
  /\ ~applicationIsInitialized
  /\ applicationIsInitialized' = TRUE
  /\ UNCHANGED <<vars, stackIsInitialized, epdInitialized, panelVars>>

----------------------------------------------------------------------------
(* The ticks of the loop.                                                   *)

Running == stackIsInitialized /\ epdInitialized /\ applicationIsInitialized

\* The header, and an entry on the line of its place; the lines below stay.
DrawReport(top) ==
  /\ ram' = [l \in Lines |->
               IF l = 0 THEN EPD_DisplayScanInfo(ram[l], Header)
               ELSE IF l \in DOMAIN top THEN EPD_DisplayScanInfo(ram[l], TopEntry(top[l]))
               ELSE ram[l]]
  /\ EPD_UpdateDisplay

\* sendAir, with what it draws before it sends.
ScanReturns ==
  /\ Running
  /\ sendAir
  /\ \/ isNeededToSend(scanData') /\ DrawReport(scanData')
     \/ ~isNeededToSend(scanData') /\ UNCHANGED panelVars
  /\ UNCHANGED bootVars

AppTick ==
  /\ Running
  /\ \/ Connected
     \/ stateEventHandler
     \/ networkManagementScanCommand \/ emberActiveScanHandler
     \/ subscribeHandler
     \/ \E acked \in BOOLEAN : reportTemperatureStatusHandler(acked)
  /\ UNCHANGED <<bootVars, panelVars>>

BadgeNext == emberInitReturn \/ InitDisplay \/ InitApplication \/ ScanReturns \/ AppTick
               \/ BadgeReset

BadgeSpec == BadgeInit /\ [][BadgeNext]_badgeVars

----------------------------------------------------------------------------
(* Properties.                                                              *)

\* The panel with a list, and before the first one.
ReportPanel(list) ==
  [l \in Lines |-> IF l = 0 THEN Exactly(Header)
                   ELSE IF l \in DOMAIN list THEN Exactly(TopEntry(list[l]))
                   ELSE White]

BannerPanel == [l \in Lines |-> IF l = 0 THEN Exactly(Banner) ELSE White]

(***************************************************************************)
(* Once the panel is initialised it shows the last report line by line, or *)
(* the banner when there was none, and nothing else: no end of the banner  *)
(* or of a longer text, no line of a longer report, nothing that a reset   *)
(* in the middle of drawing left in the panel.                             *)
(***************************************************************************)
PanelShowsReport ==
  epdInitialized => shown = IF top3Data = << >> THEN BannerPanel ELSE ReportPanel(top3Data)

(***************************************************************************)
(* A report that has filled its list names the same beacons until the next *)
(* reset: the scan data is cut before it is sorted and never emptied, so a *)
(* nearer beacon of a later scan does not get in, whatever its strength.   *)
(***************************************************************************)
FullReportStays ==
  [][Len(top3Data) = MaxTopDevices /\ top3Data' # << >>
       => Range(top3Data') = Range(top3Data)]_badgeVars
=============================================================================
