------------------------- MODULE ConnectionManager -------------------------
(***************************************************************************)
(* The "join in band" connection manager of the badge                      *)
(* (connection-manager-jib/connection-manager-jib.c) together with the     *)
(* part of the Thread stack it drives.                                     *)
(*                                                                         *)
(* The firmware is single threaded: the main loop delivers the callbacks   *)
(* the stack has queued, then runs the handlers of the events that are     *)
(* due, and CLI commands and CoAP requests come in between.  Every such    *)
(* handler is one action.  A call to the stack takes effect at once and    *)
(* queues its "Return" callback, and, when the call is accepted, the       *)
(* network status change it starts: "the result is reported later as a     *)
(* network status change" (connection-manager-jib.c:300-302, 364-366).     *)
(* What the stack accepts is what thread-callbacks.h says of each call.    *)
(*                                                                         *)
(* The role of this build is ROUTER (thread-configuration.h:51), so the    *)
(* timer that allows a sleepy end device to poll is never armed (191-192)  *)
(* and okToLongPoll stays FALSE: both are left out.                        *)
(***************************************************************************)
EXTENDS Integers, Sequences

CONSTANTS
  NumRejoinAttempts,  \* ..._JIB_NUM_REJOIN_ATTEMPTS
  JoinKeyLengths,     \* what the join key callback may return
  MaxCallbacks        \* BOUND: callbacks the stack queues of its own accord

ASSUME ConnectionManagerAssumption ==
  /\ NumRejoinAttempts \in Nat \ {0}
  /\ JoinKeyLengths \subseteq Nat /\ JoinKeyLengths # {}
  /\ MaxCallbacks \in Nat \ {0, 1}

VARIABLES
  state, joinAttemptsRemaining, isOrphaned, isSearching, joinKeyLength,
  wasOrphaned,
  networkStateEvent,  \* emConnectionManagerNetworkStateEventControl active?
  orphanEvent,        \* ...OrphanEventControl: inactive, due now, or delayed
  networkStatus,      \* the stack: emberNetworkStatus()
  callbacks,          \* the stack: callbacks not delivered yet, oldest first
  connectComplete,    \* history: last status the application was given since
                      \* StartConnect
  joinsMade,          \* history: joins the manager began since it was last
                      \* given its attempts
  keyMissing          \* history: did the key callback have no key when it was
                      \* last asked since StartConnect?

searchVars == <<joinAttemptsRemaining, isSearching, connectComplete, joinsMade>>
keyVars    == <<joinKeyLength, keyMissing>>
orphanVars == <<isOrphaned, wasOrphaned, orphanEvent>>
eventVars  == <<state, networkStateEvent>>
stackVars  == <<networkStatus, callbacks>>
vars == <<searchVars, keyVars, orphanVars, eventVars, stackVars>>

States == {"INITIAL", "RESUME_NETWORK", "JOIN_NETWORK", "WAIT_FOR_JOIN_NETWORK",
           "JOINED_TO_NETWORK", "RESET_NETWORK_STATE"}

\* The states emConnectionManagerNetworkStateEventHandler has a case for; any
\* other one is its assert(false).
HandledStates == {"RESUME_NETWORK", "JOIN_NETWORK", "WAIT_FOR_JOIN_NETWORK",
                  "RESET_NETWORK_STATE"}

NetworkStatuses == {"NO_NETWORK", "SAVED_NETWORK", "JOINING_NETWORK",
                    "JOINED_NETWORK_ATTACHING", "JOINED_NETWORK_ATTACHED",
                    "JOINED_NETWORK_NO_PARENT"}

\* Statuses the stack leaves on its own, by reporting how the attempt ended.
Transitional == {"JOINING_NETWORK", "JOINED_NETWORK_ATTACHING"}

StackCalls == {"resume", "join", "attach", "reset"}
Return(call, ok) == [kind |-> call, ok |-> ok]
StatusChange(new, old) == [kind |-> "status", new |-> new, old |-> old]
Callback == [kind : StackCalls, ok : BOOLEAN]
              \cup [kind : {"status"}, new : NetworkStatuses, old : NetworkStatuses]

\* Is a change to the status new still to be delivered?
Reports(queue, new) ==
  \E i \in DOMAIN queue : queue[i].kind = "status" /\ queue[i].new = new

TypeOK ==
  /\ state \in States
  /\ joinAttemptsRemaining \in 0..NumRejoinAttempts
  /\ isOrphaned \in BOOLEAN /\ isSearching \in BOOLEAN
  /\ wasOrphaned \in BOOLEAN /\ networkStateEvent \in BOOLEAN
  /\ joinsMade \in 0..NumRejoinAttempts
  /\ joinKeyLength \in JoinKeyLengths \cup {0} /\ keyMissing \in BOOLEAN
  /\ orphanEvent \in {"inactive", "now", "delayed"}
  /\ connectComplete \in {"NONE", "CONNECTED", "TIMED_OUT", "NO_KEY"}
  /\ networkStatus \in NetworkStatuses
  /\ callbacks \in Seq(Callback)

(***************************************************************************)
(* The stack.  `queue' is what is left of the callbacks when the call is   *)
(* made: all of them, or all but the one being delivered.                  *)
(***************************************************************************)
Accept(call, new, queue) ==
  /\ networkStatus' = new
  /\ callbacks' = queue \o <<Return(call, TRUE), StatusChange(new, networkStatus)>>

Reject(call, queue) ==
  /\ callbacks' = Append(queue, Return(call, FALSE))
  /\ UNCHANGED networkStatus

\* Refused unless the network is only saved, "or while a scan was underway".
emberResumeNetwork(queue) ==
  \/ /\ networkStatus = "SAVED_NETWORK"
     /\ Accept("resume", "JOINED_NETWORK_ATTACHING", queue)
  \/ Reject("resume", queue)

\* Refused for a bad argument or when there is a network already.
emberJoinNetwork(queue) ==
  \/ networkStatus = "NO_NETWORK" /\ Accept("join", "JOINING_NETWORK", queue)
  \/ Reject("join", queue)

\* Refused unless the node has no parent and no attach is underway.
emberAttachToNetwork(queue) ==
  IF networkStatus = "JOINED_NETWORK_NO_PARENT"
  THEN Accept("attach", "JOINED_NETWORK_ATTACHING", queue)
  ELSE Reject("attach", queue)

emberResetNetworkState(queue) ==
  \/ Accept("reset", "NO_NETWORK", queue)
  \/ Reject("reset", queue)

\* Refused when there is a network already.  The network formed is this node's,
\* so it is attached, at once or by way of joining.  The return callback is the
\* empty stub of thread-callback-stubs.c:556 and is left out.
emberFormNetwork(queue) ==
  /\ networkStatus = "NO_NETWORK"
  /\ networkStatus' \in {"JOINING_NETWORK", "JOINED_NETWORK_ATTACHED"}
  /\ callbacks' = Append(queue, StatusChange(networkStatus', networkStatus))

\* Joining and attaching end, a parent is lost: the stack changes its status.
StackMoves ==
  { <<"JOINING_NETWORK", "JOINED_NETWORK_ATTACHING">>,
    <<"JOINING_NETWORK", "NO_NETWORK">>,
    <<"JOINED_NETWORK_ATTACHING", "JOINED_NETWORK_ATTACHED">>,
    <<"JOINED_NETWORK_ATTACHING", "JOINED_NETWORK_NO_PARENT">>,
    <<"JOINED_NETWORK_ATTACHED", "JOINED_NETWORK_ATTACHING">>,
    <<"JOINED_NETWORK_ATTACHED", "JOINED_NETWORK_NO_PARENT">> }

StackChangesStatus ==
  /\ Len(callbacks) < MaxCallbacks
  /\ \E new \in NetworkStatuses :
       /\ <<networkStatus, new>> \in StackMoves
       /\ networkStatus' = new
       /\ callbacks' = Append(callbacks, StatusChange(new, networkStatus))
  /\ UNCHANGED <<searchVars, orphanVars, eventVars, keyVars>>

\* Room for what one call to the stack queues.
Room == Len(callbacks) + 2 <= MaxCallbacks

----------------------------------------------------------------------------
(***************************************************************************)
(* Start, power on or reset: the RAM has its initial values, the stack     *)
(* remembers whether it was on a network, and may report that first.       *)
(***************************************************************************)
Init ==
  /\ state = "INITIAL" /\ networkStateEvent = FALSE
  /\ joinAttemptsRemaining = 0 /\ isSearching = FALSE /\ connectComplete = "NONE"
  /\ isOrphaned = FALSE /\ wasOrphaned = FALSE /\ orphanEvent = "inactive"
  /\ joinKeyLength = 0 /\ keyMissing = FALSE /\ joinsMade = 0
  /\ networkStatus \in {"NO_NETWORK", "SAVED_NETWORK"}
  /\ callbacks \in {<< >>, <<StatusChange(networkStatus, networkStatus)>>}

Reboot ==
  /\ state' = "INITIAL" /\ networkStateEvent' = FALSE
  /\ joinAttemptsRemaining' = 0 /\ isSearching' = FALSE /\ connectComplete' = "NONE"
  /\ isOrphaned' = FALSE /\ wasOrphaned' = FALSE /\ orphanEvent' = "inactive"
  /\ joinKeyLength' = 0 /\ keyMissing' = FALSE /\ joinsMade' = 0
  /\ networkStatus' = IF networkStatus \in {"NO_NETWORK", "JOINING_NETWORK"}
                      THEN "NO_NETWORK" ELSE "SAVED_NETWORK"
  /\ callbacks' \in {<< >>, <<StatusChange(networkStatus', networkStatus')>>}

setNextState(nextState) ==
  /\ state' = nextState
  /\ networkStateEvent' = TRUE

----------------------------------------------------------------------------
(* Commands: the connection-manager CLI menu and the net/reset request.     *)

\* Mutant: a search goes on with the attempts that an earlier one left.
GiveLeftAttempts == joinsMade' = 0 /\ UNCHANGED joinAttemptsRemaining

GiveAttempts ==
  /\ joinAttemptsRemaining' = NumRejoinAttempts
  /\ joinsMade' = 0

\* With a saved network: resume it.  Otherwise get the key and reset the
\* network state, which comes back as a NO_NETWORK status and starts joining.
StartConnect ==
  /\ isSearching' = TRUE
  /\ \/ /\ networkStatus = "SAVED_NETWORK"
        /\ GiveAttempts
        /\ setNextState("RESUME_NETWORK")
        /\ keyMissing' = FALSE
        /\ connectComplete' = "NONE"
        /\ UNCHANGED joinKeyLength
     \/ /\ networkStatus # "SAVED_NETWORK"
        /\ joinKeyLength' \in JoinKeyLengths
        /\ keyMissing' = (joinKeyLength' = 0)
        /\ IF keyMissing'
           THEN /\ connectComplete' = "NO_KEY"
                /\ UNCHANGED <<joinAttemptsRemaining, joinsMade, eventVars>>
           ELSE /\ GiveAttempts
                /\ setNextState("RESET_NETWORK_STATE")
                /\ connectComplete' = "NONE"
  /\ UNCHANGED <<orphanVars, stackVars>>

StopConnect ==
  /\ networkStatus # "JOINED_NETWORK_ATTACHED"
  /\ joinAttemptsRemaining' = 0
  /\ isSearching' = FALSE
  /\ UNCHANGED <<connectComplete, joinsMade, keyVars, orphanVars, eventVars, stackVars>>

SearchForParent ==
  /\ isOrphaned
  /\ orphanEvent' = "now"
  /\ UNCHANGED <<searchVars, isOrphaned, wasOrphaned, eventVars,
                 keyVars, stackVars>>

LeaveNetwork ==
  /\ Room
  /\ isOrphaned' = FALSE
  /\ emberResetNetworkState(callbacks)
  /\ UNCHANGED <<searchVars, wasOrphaned, orphanEvent, eventVars, keyVars>>

\* The network-management CLI menu calls the stack directly; `join' and
\* `join-commissioned' are both answered by emberJoinNetworkReturn.
NetworkCommand ==
  /\ Room
  /\ \/ emberResumeNetwork(callbacks)
     \/ emberJoinNetwork(callbacks)
     \/ emberFormNetwork(callbacks)
     \/ emberAttachToNetwork(callbacks)
     \/ emberResetNetworkState(callbacks)
  /\ UNCHANGED <<searchVars, orphanVars, eventVars, keyVars>>

Command == StartConnect \/ StopConnect \/ SearchForParent \/ LeaveNetwork \/ NetworkCommand

----------------------------------------------------------------------------
(* Callbacks of the stack, delivered oldest first.                          *)

Deliver(kind) == callbacks # << >> /\ Head(callbacks).kind = kind

ReturnWith(call, ok) ==
  /\ Deliver(call)
  /\ Head(callbacks).ok = ok

Drop == callbacks' = Tail(callbacks) /\ UNCHANGED networkStatus

emberResetNetworkStateReturn ==
  \/ /\ ReturnWith("reset", FALSE)
     /\ emberResetNetworkState(Tail(callbacks))
     /\ UNCHANGED <<searchVars, orphanVars, eventVars, keyVars>>
  \/ /\ ReturnWith("reset", TRUE)
     /\ isOrphaned' = FALSE
     /\ Drop
     /\ UNCHANGED <<searchVars, wasOrphaned, orphanEvent, eventVars,
                    keyVars>>

emberResumeNetworkReturn ==
  /\ \/ ReturnWith("resume", TRUE) /\ UNCHANGED orphanEvent
     \/ ReturnWith("resume", FALSE) /\ orphanEvent' = "delayed"
  /\ Drop
  /\ UNCHANGED <<searchVars, isOrphaned, wasOrphaned, eventVars, keyVars>>

\* Mutant: takes the accepted join for a finished one.
JoinAcceptedAsJoined == setNextState("JOINED_TO_NETWORK")

JoinAccepted == setNextState("WAIT_FOR_JOIN_NETWORK")

emberJoinNetworkReturn ==
  /\ \/ ReturnWith("join", TRUE) /\ JoinAccepted
     \/ ReturnWith("join", FALSE) /\ setNextState("JOIN_NETWORK")
  /\ Drop
  /\ UNCHANGED <<searchVars, orphanVars, keyVars>>

emberAttachToNetworkReturn ==
  /\ \/ ReturnWith("attach", TRUE) /\ UNCHANGED eventVars
     \/ ReturnWith("attach", FALSE) /\ setNextState("RESET_NETWORK_STATE")
  /\ Drop
  /\ UNCHANGED <<searchVars, orphanVars, keyVars>>

(***************************************************************************)
(* emConnectionManagerJibNetworkStatusHandler.  Every case starts by       *)
(* making the network state event inactive, so a transition that was       *)
(* waiting for the event is dropped unless the case schedules one.         *)
(***************************************************************************)
Status(new) == Deliver("status") /\ Head(callbacks).new = new /\ Drop

\* Mutant: makes the event inactive after the case has scheduled it.
StatusForgets(new, nextState) ==
  /\ Status(new)
  /\ state' = nextState
  /\ networkStateEvent' = FALSE
  /\ UNCHANGED <<searchVars, orphanVars, keyVars>>

StatusSchedules(new, nextState) ==
  /\ Status(new)
  /\ setNextState(nextState)
  /\ UNCHANGED <<searchVars, orphanVars, keyVars>>

StatusJoining ==
  /\ Status("JOINING_NETWORK")
  /\ networkStateEvent' = FALSE
  /\ UNCHANGED <<searchVars, orphanVars, state, keyVars>>

StatusAttaching ==
  /\ Status("JOINED_NETWORK_ATTACHING")
  /\ networkStateEvent' = FALSE
  /\ IF Head(callbacks).old = "JOINED_NETWORK_ATTACHED"
     THEN isOrphaned' = TRUE /\ wasOrphaned' = TRUE
     ELSE UNCHANGED <<isOrphaned, wasOrphaned>>
  /\ UNCHANGED <<searchVars, orphanEvent, state, keyVars>>

\* Mutant: keeps the attempts that were left.
ConnectedKeepsAttempts ==
  /\ isSearching' = FALSE
  /\ connectComplete' = "CONNECTED"
  /\ UNCHANGED <<joinAttemptsRemaining, joinsMade>>

Connected ==
  /\ joinAttemptsRemaining' = 0
  /\ isSearching' = FALSE
  /\ connectComplete' = "CONNECTED"
  /\ UNCHANGED joinsMade

StatusAttached ==
  /\ Status("JOINED_NETWORK_ATTACHED")
  /\ networkStateEvent' = FALSE
  /\ Connected
  /\ UNCHANGED <<keyVars, orphanVars, state>>

\* Mutant: re-attaches only the first time the parent is lost.
ReattachOnce == IF wasOrphaned THEN orphanEvent ELSE "now"

\* The first time the parent is lost the node re-attaches at once, later on
\* after ORPHAN_REJOIN_DELAY_MINUTES.
Reattach == IF wasOrphaned THEN "delayed" ELSE "now"

StatusNoParent ==
  /\ Status("JOINED_NETWORK_NO_PARENT")
  /\ networkStateEvent' = FALSE
  /\ wasOrphaned' = TRUE
  /\ orphanEvent' = Reattach
  /\ UNCHANGED <<searchVars, isOrphaned, state, keyVars>>

NetworkStatusHandler ==
  \/ StatusSchedules("NO_NETWORK", "JOIN_NETWORK")
  \/ StatusSchedules("SAVED_NETWORK", "RESUME_NETWORK")
  \/ StatusJoining
  \/ StatusAttaching
  \/ StatusAttached
  \/ StatusNoParent

DeliverCallback ==
  \/ emberResetNetworkStateReturn
  \/ emberResumeNetworkReturn
  \/ emberJoinNetworkReturn
  \/ emberAttachToNetworkReturn
  \/ NetworkStatusHandler

----------------------------------------------------------------------------
(* Event handlers, run by the main loop when the event is due.              *)

OrphanEventHandler ==
  /\ orphanEvent # "inactive"
  /\ Room
  /\ orphanEvent' = "inactive"
  /\ isOrphaned' = TRUE
  /\ emberAttachToNetwork(callbacks)
  /\ UNCHANGED <<searchVars, wasOrphaned, eventVars, keyVars>>

resumeNetwork ==
  /\ state = "RESUME_NETWORK"
  /\ emberResumeNetwork(callbacks)
  /\ UNCHANGED <<searchVars, keyVars>>

resetNetworkState ==
  /\ state = "RESET_NETWORK_STATE"
  /\ emberResetNetworkState(callbacks)
  /\ UNCHANGED <<searchVars, keyVars>>

\* Mutant: does not look whether an attempt remains.
SpendUnchecked ==
  /\ joinAttemptsRemaining' = joinAttemptsRemaining - 1
  /\ joinsMade' = joinsMade + 1

SpendAttempt ==
  /\ joinAttemptsRemaining > 0
  /\ joinAttemptsRemaining' = joinAttemptsRemaining - 1
  /\ joinsMade' = joinsMade + 1

\* A missing key is asked for again; without one the handler just returns.
joinNetwork ==
  /\ state = "JOIN_NETWORK"
  /\ joinKeyLength' \in IF joinKeyLength = 0 THEN JoinKeyLengths ELSE {joinKeyLength}
  /\ keyMissing' = (joinKeyLength' = 0)
  /\ \/ /\ keyMissing'
        /\ UNCHANGED <<searchVars, stackVars>>
     \/ /\ ~keyMissing'
        /\ SpendAttempt
        /\ emberJoinNetwork(callbacks)
        /\ UNCHANGED <<isSearching, connectComplete>>
     \/ /\ ~keyMissing'
        /\ joinAttemptsRemaining = 0
        /\ isSearching' = FALSE
        /\ connectComplete' = "TIMED_OUT"
        /\ UNCHANGED <<joinAttemptsRemaining, joinsMade, stackVars>>

waitForJoinNetwork ==
  /\ state = "WAIT_FOR_JOIN_NETWORK"
  /\ UNCHANGED <<searchVars, keyVars, stackVars>>

NetworkStateEventHandler ==
  /\ networkStateEvent
  /\ Room
  /\ networkStateEvent' = FALSE
  /\ resumeNetwork \/ joinNetwork \/ waitForJoinNetwork \/ resetNetworkState
  /\ UNCHANGED <<state, orphanVars>>

RunEvent == OrphanEventHandler \/ NetworkStateEventHandler

----------------------------------------------------------------------------
Next == Command \/ DeliverCallback \/ RunEvent \/ StackChangesStatus \/ Reboot

Spec == Init /\ [][Next]_vars

\* The main loop delivers every callback and runs every event that is due; a
\* join or an attach ends; the reset of the network state is not refused for ever.
Fairness ==
  /\ WF_vars(DeliverCallback)
  /\ WF_vars(OrphanEventHandler)
  /\ WF_vars(NetworkStateEventHandler)
  /\ WF_vars(StackChangesStatus /\ networkStatus \in Transitional)
  /\ SF_vars(emberResetNetworkStateReturn /\ networkStatus' = "NO_NETWORK")

FairSpec == Spec /\ Fairness

----------------------------------------------------------------------------
(* Properties.                                                              *)

\* Something that is going to happen without anybody asking: an event that is
\* due or timed, a callback on its way, an attempt the stack is still making.
SomethingPending ==
  \/ networkStateEvent
  \/ orphanEvent # "inactive"
  \/ callbacks # << >>
  \/ networkStatus \in Transitional

(***************************************************************************)
(* A search never stalls: while the manager says it is searching the next  *)
(* step towards an answer is already under way, whether the search joins   *)
(* or resumes a saved network.  The status handler drops the pending       *)
(* network state event at its first line, so each of its cases owes either *)
(* a new event or a status to wait for.  Exempt is a search for which the  *)
(* join key callback had no key when it was last asked (lines 98-102 and   *)
(* 329-332); this build's callback always has one                          *)
(* (sensor-actuator-implementation.c:254-293).                             *)
(***************************************************************************)
SearchNeverStalls == isSearching /\ ~keyMissing => SomethingPending

(***************************************************************************)
(* A node without a parent always has its next re-attach coming, by the    *)
(* orphan event or by the status callback that arms it: the stack does not *)
(* re-attach by itself, and neither commands nor late callbacks disarm it. *)
(***************************************************************************)
OrphanNeverStalls ==
  networkStatus = "JOINED_NETWORK_NO_PARENT" =>
    orphanEvent # "inactive" \/ Reports(callbacks, "JOINED_NETWORK_NO_PARENT")

(***************************************************************************)
(* The network state event is never due in a state its handler has no case *)
(* for: the assert(false) at connection-manager-jib.c:417 never fails.     *)
(***************************************************************************)
EventStateHandled == networkStateEvent => state \in HandledStates

(***************************************************************************)
(* No join is begun outside a search: once the manager is connected, was   *)
(* stopped or has given up, no late return or status, no refused join and  *)
(* no reset of the network state begins another join before the next       *)
(* StartConnect.                                                           *)
(***************************************************************************)
JoinsOnlyInSearch == [][joinsMade' > joinsMade => isSearching]_vars

(***************************************************************************)
(* A search that reports TIMED_OUT has begun as many joins as the options  *)
(* specify, none fewer (thread-callbacks.h:51-53), whatever became of each *)
(* and whatever callbacks of an earlier search came in between.  It speaks *)
(* of reports that end a search: without one a failed join, or a network   *)
(* that is left, is reported as TIMED_OUT too (353-358).  Exempt is a      *)
(* search without a key.                                                   *)
(***************************************************************************)
SearchTimesOutAfterAttempts ==
  [][isSearching /\ ~keyMissing /\ connectComplete' = "TIMED_OUT"
       => joinsMade = NumRejoinAttempts]_vars

\* The newest callback tells of the present status or of a refused call, so the
\* handler of the last one pending never waits for more in vain.
LastCallback ==
  callbacks # << >> =>
    LET last == callbacks[Len(callbacks)]
    IN  \/ last.kind = "status" /\ last.new = networkStatus
        \/ last.kind \in StackCalls /\ ~last.ok

\* The event that waitForJoinNetwork lets go by is not the only thing pending.
WaitHasMore ==
  networkStateEvent /\ state = "WAIT_FOR_JOIN_NETWORK" =>
    orphanEvent # "inactive" \/ callbacks # << >> \/ networkStatus \in Transitional

\* The attempts left and the joins made are those of one StartConnect, unless it
\* had no key; without a search no attempt is left, and an answer ends the search.
BudgetKept ==
  /\ joinAttemptsRemaining + joinsMade <= NumRejoinAttempts
  /\ isSearching /\ (~keyMissing \/ joinAttemptsRemaining > 0) =>
       joinAttemptsRemaining + joinsMade = NumRejoinAttempts
  /\ isSearching => connectComplete # "TIMED_OUT"
  /\ ~isSearching => joinAttemptsRemaining = 0

\* The inductive invariant of the proofs.
IInv ==
  TypeOK /\ LastCallback /\ WaitHasMore /\ SearchNeverStalls /\ OrphanNeverStalls
    /\ EventStateHandled /\ BudgetKept

\* Commands and resets of the device cease.
Quiet == <>[][~Command /\ ~Reboot]_vars

(***************************************************************************)
(* Once commands and resets of the device cease, every search ends, one    *)
(* that resumes a saved network as well as one that joins, or the node is  *)
(* on a network and looking for a parent (for as long as there is none in  *)
(* range).  It holds where the key callback always has a key, as it has in *)
(* this build; without one a search rests (SearchNeverStalls).             *)
(***************************************************************************)
SearchEnds ==
  Quiet => (isSearching ~> ~isSearching \/ networkStatus = "JOINED_NETWORK_NO_PARENT")

(***************************************************************************)
(* connection-manager-jib.c:258-259: "If we ever leave the network, we go  *)
(* right back to joining again.  This could be triggered by an external    *)
(* CLI command."  (Unless the device is reset meanwhile.)                  *)
(***************************************************************************)
LeavingGoesBackToJoining ==
  Quiet =>
    (/\ callbacks # << >>
     /\ Head(callbacks) = StatusChange("NO_NETWORK", "JOINED_NETWORK_ATTACHED"))
      ~> networkStatus = "JOINING_NETWORK" \/ state = "INITIAL"
=============================================================================
