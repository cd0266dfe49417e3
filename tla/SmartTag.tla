------------------------------ MODULE SmartTag ------------------------------
(***************************************************************************)
(* The badge's application and its OTA bootload client share one callback, *)
(* emberGetGlobalAddressReturn (sensor-actuator-implementation.c:484-508): *)
(* the application asks the stack for the device's global addresses before *)
(* it announces itself to a border router, the client before it looks up   *)
(* its server, and the callback decides by the client's event whose answer *)
(* it has got.  This module adds the announcements to the client.          *)
(***************************************************************************)
EXTENDS OtaBootloadClient

CONSTANTS
  Routers,   \* addresses that ask for an announcement, allMeshRouters included
  NoRouter   \* the unspecified address, before any did

ASSUME RoutersAssumption == NoRouter \notin Routers

VARIABLES
  discoverRequestAddress,  \* where the next announcement goes
  asked                    \* who asked and has not been sent an announcement

tagVars == <<discoverRequestAddress, asked>>
allVars == <<vars, tagVars>>

TagTypeOK ==
  /\ TypeOK
  /\ discoverRequestAddress \in Routers \cup {NoRouter}
  /\ asked \subseteq Routers

TagInit == Init /\ discoverRequestAddress = NoRouter /\ asked = {}

\* borderRouterDiscoveryHandler and the announce command.
announceToAddress(router) ==
  /\ discoverRequestAddress' = router
  /\ asked' = asked \cup {router}
  /\ addressCalls < MaxExchanges /\ addressCalls' = addressCalls + 1
  /\ UNCHANGED <<state, timer, serverVars, imageVars, storageVars, running, outstanding,
                 transfers>>

\* An announcement that cannot be posted is not tried again.
finishAnnounceToAddress ==
  /\ asked' = asked \ {discoverRequestAddress}
  /\ UNCHANGED discoverRequestAddress

\* The stack answers each call with its addresses, or with the unspecified one
\* when there is none; `last' is the end of an answer.
AddressReported(last) ==
  /\ addressCalls > 0
  /\ addressCalls' = IF last THEN addressCalls - 1 ELSE addressCalls

\* Without an address nothing is sent, and nobody is owed an announcement.
emberGetGlobalAddressReturn(last, unspecified) ==
  /\ AddressReported(last)
  /\ \/ timer # "off" /\ OTAGetGlobalAddressCallback(unspecified)
     \/ timer = "off" /\ UNCHANGED <<state, timer, serverVars, imageVars, storageVars,
                                     running, outstanding, transfers>>
  /\ \/ unspecified /\ asked' = {} /\ UNCHANGED discoverRequestAddress
     \/ ~unspecified /\ timer # "off" /\ UNCHANGED tagVars
     \/ ~unspecified /\ timer = "off" /\ finishAnnounceToAddress

TagReset == Resets /\ discoverRequestAddress' = NoRouter /\ asked' = {}

ClientStep ==
  /\ EventHandler \/ ResponseHandler \/ dnsLookupResponseHandler \/ NetworkAttached
  /\ UNCHANGED tagVars

TagNext ==
  \/ TagReset
  \/ ClientStep
  \/ \E router \in Routers : announceToAddress(router)
  \/ \E last, unspecified \in BOOLEAN : emberGetGlobalAddressReturn(last, unspecified)

TagSpec == TagInit /\ [][TagNext]_allVars

----------------------------------------------------------------------------
(* Properties.                                                              *)

(***************************************************************************)
(* Announcements and late lookups stall the client nowhere but while it    *)
(* discovers its server (where WaitsForDns fails): everywhere else a timer *)
(* that is off has an exchange under way that sets it again, with the      *)
(* exemptions of NeverStalls.                                              *)
(***************************************************************************)
StallsOnlyInDiscovery ==
  timer = "off" => \/ Waiting
                   \/ state \in {"NONE", "DISCOVER_SERVER", "BOOTLOAD"}
                   \/ state = "UPGRADE_END" /\ upgradeReply.currentTime = Never

(***************************************************************************)
(* Nor do they make an assert fail but the one that there is a server      *)
(* (where RequestHasServer fails): a client that has one finds everything  *)
(* else its next handler asserts, though a callback may have sent it back  *)
(* from any state, and a block or an answer to the upgrade end that comes  *)
(* in has its image.                                                       *)
(***************************************************************************)
OnlyServerMissing ==
  /\ timer # "off" /\ haveServer => Asserts(state)
  /\ \A i \in Slots : Active(i) => fileSpec # NoVersion
  /\ outstanding["upgradeEnd"] > 0 => fileSpec # NoVersion

(***************************************************************************)
(* sensor-actuator-implementation.c:480: "The announcement will finish     *)
(* once the global address is returned": when every call for addresses is  *)
(* answered, everybody who asked has been sent an announcement.            *)
(***************************************************************************)
AnnouncementFinishes == addressCalls = 0 => asked = {}

(***************************************************************************)
(* thread-callbacks.h:193-194, of a client that uses DNS: "the OTA Client  *)
(* state machine will wait for the DNS hostname to be resolved", so while  *)
(* it waits in DISCOVER_SERVER there is something to wait for.             *)
(***************************************************************************)
WaitsForDns == state = "DISCOVER_SERVER" /\ timer = "off" => Waiting

(***************************************************************************)
(* ota-bootload-client.c:143, 481: assert(HAVE_SERVER_INFO()), a request   *)
(* has a server to go to whenever the handler that sends it is due.        *)
(***************************************************************************)
RequestHasServer ==
  timer # "off" /\ state \in {"QUERY_NEXT_IMAGE", "DOWNLOAD", "UPGRADE_END"} => haveServer
=============================================================================
