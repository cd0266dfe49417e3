---------------------- MODULE ConnectionManager_proofs ----------------------
(***************************************************************************)
(* Proofs about the connection manager, for every number of attempts,      *)
(* every set of join keys and every bound on the queue of callbacks.       *)
(***************************************************************************)
EXTENDS ConnectionManager, SequenceTheorems, TLAPS

\* The three values a step gives to joinAttemptsRemaining.
LEMMA AttemptsRange ==
  /\ 0 \in 0..NumRejoinAttempts
  /\ NumRejoinAttempts \in 0..NumRejoinAttempts
  /\ \A n \in 0..NumRejoinAttempts : n > 0 => n - 1 \in 0..NumRejoinAttempts
BY ConnectionManagerAssumption

----------------------------------------------------------------------------
(* The queue of callbacks.                                                  *)

\* What a call to the stack leaves behind, when `queue' was pending.
Enqueued(queue) ==
  /\ networkStatus' \in NetworkStatuses
  /\ networkStatus' = "JOINED_NETWORK_NO_PARENT" => networkStatus' = networkStatus
  /\ callbacks' \in Seq(Callback)
  /\ callbacks' # << >>
  /\ LastCallback'
  /\ \A new : Reports(queue, new) => Reports(callbacks', new)

LEMMA CallbackKinds ==
  /\ \A call \in StackCalls, ok \in BOOLEAN : Return(call, ok) \in Callback
  /\ \A new, old \in NetworkStatuses : StatusChange(new, old) \in Callback
  /\ \A c \in Callback : c.kind = "status" => c.new \in NetworkStatuses
BY DEF Return, StatusChange, Callback, StackCalls

\* Adding callbacks keeps what the queue reports, and the last one added is last.
LEMMA MoreCallbacks ==
  ASSUME NEW queue \in Seq(Callback), NEW more \in Seq(Callback), more # << >>
  PROVE  /\ queue \o more \in Seq(Callback)
         /\ queue \o more # << >>
         /\ (queue \o more)[Len(queue \o more)] = more[Len(more)]
         /\ \A new : Reports(queue, new) => Reports(queue \o more, new)
<1> DEFINE longer == queue \o more
<1>1. /\ longer \in Seq(Callback) /\ Len(longer) = Len(queue) + Len(more)
      /\ \A i \in 1..Len(queue) + Len(more) :
           longer[i] = IF i <= Len(queue) THEN queue[i] ELSE more[i - Len(queue)]
  BY ConcatProperties
<1>2. /\ DOMAIN queue = 1..Len(queue) /\ DOMAIN longer = 1..Len(longer)
      /\ Len(queue) \in Nat /\ Len(more) \in Nat \ {0}
  BY <1>1, LenProperties, EmptySeq
<1>3. longer # << >> /\ longer[Len(longer)] = more[Len(more)]
  BY <1>1, <1>2
<1>4. ASSUME NEW new, Reports(queue, new)
      PROVE  Reports(longer, new)
  <2>1. PICK i \in DOMAIN queue : queue[i].kind = "status" /\ queue[i].new = new
    BY <1>4 DEF Reports
  <2>2. i \in DOMAIN longer /\ longer[i] = queue[i]
    BY <1>1, <1>2
  <2> QED  BY <2>1, <2>2 DEF Reports
<1> QED  BY <1>1, <1>3, <1>4

\* Delivering the oldest callback keeps what the others report.
LEMMA ReportsTail ==
  ASSUME NEW queue \in Seq(Callback), queue # << >>, NEW new,
         Reports(queue, new)
  PROVE  \/ Head(queue).kind = "status" /\ Head(queue).new = new
         \/ Reports(Tail(queue), new)
<1>1. /\ Tail(queue) \in Seq(Callback) /\ Len(Tail(queue)) = Len(queue) - 1
      /\ \A i \in 1..Len(Tail(queue)) : Tail(queue)[i] = queue[i + 1]
  BY HeadTailProperties
<1>2. /\ DOMAIN queue = 1..Len(queue) /\ Len(queue) \in Nat
      /\ DOMAIN Tail(queue) = 1..Len(Tail(queue))
  BY <1>1, LenProperties
<1>3. PICK i \in DOMAIN queue : queue[i].kind = "status" /\ queue[i].new = new
  BY DEF Reports
<1>4. CASE i = 1
  BY <1>3, <1>4
<1>5. CASE i # 1
  <2>1. i - 1 \in DOMAIN Tail(queue) /\ Tail(queue)[i - 1] = queue[i]
    BY <1>1, <1>2, <1>5
  <2> QED  BY <1>3, <2>1 DEF Reports
<1> QED  BY <1>4, <1>5

LEMMA ShortSequences ==
  ASSUME NEW S, NEW a \in S, NEW b \in S
  PROVE  /\ <<a>> \in Seq(S) /\ <<a>> # << >> /\ Len(<<a>>) = 1 /\ <<a>>[1] = a
         /\ <<a, b>> \in Seq(S) /\ <<a, b>> # << >> /\ Len(<<a, b>>) = 2
         /\ <<a, b>>[2] = b
OBVIOUS

LEMMA AcceptQueues ==
  ASSUME NEW queue \in Seq(Callback), NEW call \in StackCalls,
         NEW new \in NetworkStatuses, new # "JOINED_NETWORK_NO_PARENT",
         networkStatus \in NetworkStatuses, Accept(call, new, queue)
  PROVE  Enqueued(queue)
<1> DEFINE more == <<Return(call, TRUE), StatusChange(new, networkStatus)>>
<1>1. Return(call, TRUE) \in Callback /\ StatusChange(new, networkStatus) \in Callback
  BY CallbackKinds
<1>2. /\ more \in Seq(Callback) /\ more # << >> /\ Len(more) = 2
      /\ more[2] = StatusChange(new, networkStatus)
  BY <1>1, ShortSequences
<1>3. callbacks' = queue \o more
  BY DEF Accept
<1> HIDE DEF more
<1>4. /\ callbacks' \in Seq(Callback) /\ callbacks' # << >>
      /\ callbacks'[Len(callbacks')] = StatusChange(new, networkStatus)
      /\ \A r : Reports(queue, r) => Reports(callbacks', r)
  BY <1>2, <1>3, MoreCallbacks
<1>5. LastCallback'
  BY <1>4 DEF LastCallback, Accept, StatusChange
<1> QED  BY <1>4, <1>5 DEF Enqueued, Accept

LEMMA RejectQueues ==
  ASSUME NEW queue \in Seq(Callback), NEW call \in StackCalls,
         networkStatus \in NetworkStatuses, Reject(call, queue)
  PROVE  Enqueued(queue)
<1> DEFINE more == <<Return(call, FALSE)>>
<1>1. Return(call, FALSE) \in Callback
  BY CallbackKinds
<1>2. /\ more \in Seq(Callback) /\ more # << >> /\ Len(more) = 1
      /\ more[1] = Return(call, FALSE)
  BY <1>1, ShortSequences
<1>3. callbacks' = queue \o more
  BY <1>1, AppendIsConcat DEF Reject
<1> HIDE DEF more
<1>4. /\ callbacks' \in Seq(Callback) /\ callbacks' # << >>
      /\ callbacks'[Len(callbacks')] = Return(call, FALSE)
      /\ \A r : Reports(queue, r) => Reports(callbacks', r)
  BY <1>2, <1>3, MoreCallbacks
<1>5. LastCallback'
  BY <1>4 DEF LastCallback, Return
<1> QED  BY <1>4, <1>5 DEF Enqueued, Reject

LEMMA FormQueues ==
  ASSUME NEW queue \in Seq(Callback), networkStatus \in NetworkStatuses,
         emberFormNetwork(queue)
  PROVE  Enqueued(queue)
<1> DEFINE change == StatusChange(networkStatus', networkStatus)
           more == <<change>>
<1>1. networkStatus' \in NetworkStatuses /\ networkStatus' # "JOINED_NETWORK_NO_PARENT"
  BY DEF emberFormNetwork, NetworkStatuses
<1>2. change \in Callback /\ change.kind = "status" /\ change.new = networkStatus'
  BY <1>1, CallbackKinds DEF StatusChange
<1>3. callbacks' = Append(queue, change)
  BY DEF emberFormNetwork
<1> HIDE DEF change
<1>4. more \in Seq(Callback) /\ more # << >> /\ Len(more) = 1 /\ more[1] = change
  BY <1>2, ShortSequences
<1>5. callbacks' = queue \o more
  BY <1>2, <1>3, AppendIsConcat
<1> HIDE DEF more
<1>6. /\ callbacks' \in Seq(Callback) /\ callbacks' # << >>
      /\ callbacks'[Len(callbacks')] = change
      /\ \A r : Reports(queue, r) => Reports(callbacks', r)
  BY <1>4, <1>5, MoreCallbacks
<1>7. LastCallback'
  BY <1>2, <1>6 DEF LastCallback
<1> QED  BY <1>1, <1>6, <1>7 DEF Enqueued

\* Every call to the stack.
LEMMA CallQueues ==
  ASSUME NEW queue \in Seq(Callback), networkStatus \in NetworkStatuses,
         \/ emberResumeNetwork(queue) \/ emberJoinNetwork(queue)
         \/ emberFormNetwork(queue) \/ emberAttachToNetwork(queue)
         \/ emberResetNetworkState(queue)
  PROVE  Enqueued(queue)
<1>1. /\ "JOINED_NETWORK_ATTACHING" \in NetworkStatuses
      /\ "JOINING_NETWORK" \in NetworkStatuses /\ "NO_NETWORK" \in NetworkStatuses
  BY DEF NetworkStatuses
<1>2. \A call \in {"resume", "join", "attach", "reset"} : call \in StackCalls
  BY DEF StackCalls
<1> QED  BY <1>1, <1>2, AcceptQueues, RejectQueues, FormQueues
         DEF emberResumeNetwork, emberJoinNetwork, emberAttachToNetwork,
             emberResetNetworkState

\* Delivering the oldest callback: the others stay, and when there are none,
\* it was the one that LastCallback tells about.
LEMMA DropTail ==
  ASSUME callbacks \in Seq(Callback), callbacks # << >>, LastCallback
  PROVE  /\ Head(callbacks) \in Callback
         /\ Tail(callbacks) \in Seq(Callback)
         /\ Tail(callbacks) = << >> =>
              \/ Head(callbacks).kind = "status" /\ Head(callbacks).new = networkStatus
              \/ Head(callbacks).kind \in StackCalls /\ ~Head(callbacks).ok
         /\ callbacks' = Tail(callbacks) /\ networkStatus' = networkStatus => LastCallback'
<1>1. /\ Head(callbacks) \in Callback /\ Tail(callbacks) \in Seq(Callback)
      /\ Len(Tail(callbacks)) = Len(callbacks) - 1
      /\ \A i \in 1..Len(Tail(callbacks)) : Tail(callbacks)[i] = callbacks[i + 1]
  BY HeadTailProperties
<1>2. Len(callbacks) \in Nat \ {0}
  BY EmptySeq
<1>3. CASE Tail(callbacks) = << >>
  <2>1. Len(callbacks) = 1
    <3>1. Len(Tail(callbacks)) = 0
      BY <1>3, EmptySeq
    <3>2. Len(callbacks) - 1 = 0
      BY <1>1, <3>1
    <3> QED  BY <1>2, <3>2
  <2>2. Head(callbacks) = callbacks[Len(callbacks)]
    BY <2>1
  <2> QED  BY <1>1, <1>3, <2>2 DEF LastCallback
<1>4. CASE Tail(callbacks) # << >>
  <2>1. Len(Tail(callbacks)) \in Nat \ {0}
    BY <1>1, <1>4, EmptySeq
  <2>2. Tail(callbacks)[Len(Tail(callbacks))] = callbacks[Len(callbacks)]
    BY <1>1, <1>2, <2>1
  <2> QED  BY <1>1, <1>4, <2>2 DEF LastCallback
<1> QED  BY <1>3, <1>4

----------------------------------------------------------------------------
(* The search and its budget.                                               *)

\* What a step of the manager does to a search; every step is one of them.
Begins ==
  /\ isSearching' = TRUE /\ ~keyMissing' /\ connectComplete' = "NONE"
  /\ joinAttemptsRemaining' = NumRejoinAttempts /\ joinsMade' = 0

BeginsWithoutKey ==
  /\ isSearching' = TRUE /\ keyMissing' /\ connectComplete' = "NO_KEY"
  /\ UNCHANGED <<joinAttemptsRemaining, joinsMade>>

Joins ==
  /\ SpendAttempt
  /\ ~keyMissing'
  /\ UNCHANGED <<isSearching, connectComplete>>

TimesOut ==
  /\ joinAttemptsRemaining = 0
  /\ isSearching' = FALSE /\ connectComplete' = "TIMED_OUT"
  /\ UNCHANGED <<joinAttemptsRemaining, joinsMade>>

Ends ==
  /\ isSearching' = FALSE /\ joinAttemptsRemaining' = 0
  /\ joinsMade' \in {0, joinsMade}
  /\ connectComplete' \in {connectComplete, "CONNECTED", "NONE"}

GoesOn == UNCHANGED searchVars /\ (keyMissing' \/ UNCHANGED keyMissing)

LEMMA SearchSteps ==
  ASSUME [Next]_vars
  PROVE  Begins \/ BeginsWithoutKey \/ Joins \/ TimesOut \/ Ends \/ GoesOn
<1>1. CASE Command
  <2>1. CASE StartConnect
    BY <2>1 DEF StartConnect, GiveAttempts, Begins, BeginsWithoutKey
  <2>2. CASE StopConnect
    BY <2>2 DEF StopConnect, Ends
  <2>3. CASE SearchForParent \/ LeaveNetwork \/ NetworkCommand
    BY <2>3 DEF SearchForParent, LeaveNetwork, NetworkCommand, GoesOn, keyVars
  <2> QED  BY <1>1, <2>1, <2>2, <2>3 DEF Command
<1>2. CASE DeliverCallback
  <2>1. CASE StatusAttached
    BY <2>1 DEF StatusAttached, Connected, Ends
  <2>2. CASE \/ emberResetNetworkStateReturn \/ emberResumeNetworkReturn
             \/ emberJoinNetworkReturn \/ emberAttachToNetworkReturn
    BY <2>2 DEF emberResetNetworkStateReturn, emberResumeNetworkReturn,
                emberJoinNetworkReturn, emberAttachToNetworkReturn, GoesOn, keyVars
  <2>3. CASE NetworkStatusHandler /\ ~StatusAttached
    BY <2>3 DEF NetworkStatusHandler, StatusSchedules, StatusJoining, StatusAttaching,
                StatusNoParent, GoesOn, keyVars
  <2> QED  BY <1>2, <2>1, <2>2, <2>3 DEF DeliverCallback
<1>3. CASE RunEvent
  <2>1. CASE OrphanEventHandler
    BY <2>1 DEF OrphanEventHandler, GoesOn, keyVars
  <2>2. CASE joinNetwork
    BY <2>2 DEF joinNetwork, GoesOn, Joins, TimesOut
  <2>3. CASE resumeNetwork \/ waitForJoinNetwork \/ resetNetworkState
    BY <2>3 DEF resumeNetwork, waitForJoinNetwork, resetNetworkState, GoesOn, keyVars
  <2> QED  BY <1>3, <2>1, <2>2, <2>3 DEF RunEvent, NetworkStateEventHandler
<1>4. CASE Reboot
  BY <1>4 DEF Reboot, Ends
<1>5. CASE StackChangesStatus \/ UNCHANGED vars
  BY <1>5 DEF StackChangesStatus, vars, GoesOn, keyVars
<1> QED  BY <1>1, <1>2, <1>3, <1>4, <1>5 DEF Next

LEMMA BudgetStep == ASSUME TypeOK, BudgetKept, [Next]_vars PROVE BudgetKept'
<1> USE ConnectionManagerAssumption
<1>1. /\ joinAttemptsRemaining \in Nat /\ joinsMade \in Nat
      /\ joinAttemptsRemaining <= NumRejoinAttempts /\ joinsMade <= NumRejoinAttempts
  BY DEF TypeOK
<1>2. CASE Begins
  BY <1>2 DEF Begins, BudgetKept
<1>3. CASE BeginsWithoutKey
  BY <1>1, <1>3 DEF BeginsWithoutKey, BudgetKept
<1>4. CASE Joins
  BY <1>1, <1>4 DEF Joins, SpendAttempt, BudgetKept
<1>5. CASE TimesOut
  BY <1>1, <1>5 DEF TimesOut, BudgetKept
<1>6. CASE Ends
  <2>1. /\ joinAttemptsRemaining' = 0 /\ joinsMade' \in Nat
        /\ joinsMade' <= NumRejoinAttempts
    BY <1>1, <1>6 DEF Ends
  <2>2. joinAttemptsRemaining' + joinsMade' <= NumRejoinAttempts
    <3>1. NumRejoinAttempts \in Nat
      BY DEF ConnectionManagerAssumption
    <3>2. \A a, m \in Nat : a = 0 /\ m <= NumRejoinAttempts => a + m <= NumRejoinAttempts
      BY <3>1
    <3> QED  BY <2>1, <3>2
  <2>3. ~(0 > 0) /\ isSearching' = FALSE
    BY <1>6 DEF Ends
  <2> QED  BY <2>1, <2>2, <2>3 DEF BudgetKept
<1>7. CASE GoesOn
  BY <1>1, <1>7 DEF GoesOn, searchVars, BudgetKept
<1> QED  BY <1>2, <1>3, <1>4, <1>5, <1>6, <1>7, SearchSteps

----------------------------------------------------------------------------
(* The inductive invariant.                                                 *)

\* What the stack may have queued when the device starts.
LEMMA StartQueue ==
  ASSUME NEW status \in NetworkStatuses,
         NEW queue \in {<< >>, <<StatusChange(status, status)>>}
  PROVE  /\ queue \in Seq(Callback)
         /\ queue # << >> =>
              /\ queue[Len(queue)].kind = "status"
              /\ queue[Len(queue)].new = status
<1>1. CASE queue = << >>
  BY <1>1, EmptySeq
<1>2. CASE queue = <<StatusChange(status, status)>>
  <2> DEFINE change == StatusChange(status, status)
  <2>1. change \in Callback /\ change.kind = "status" /\ change.new = status
    BY CallbackKinds DEF StatusChange
  <2> HIDE DEF change
  <2>2. <<change>> \in Seq(Callback) /\ <<change>>[Len(<<change>>)] = change
    BY <2>1, ShortSequences
  <2> QED  BY <1>2, <2>1, <2>2 DEF change
<1> QED  BY <1>1, <1>2

LEMMA InitInv == Init => IInv
<1> SUFFICES ASSUME Init PROVE IInv
  OBVIOUS
<1>1. networkStatus \in NetworkStatuses
  BY DEF Init, NetworkStatuses
<1>2. callbacks \in Seq(Callback) /\ LastCallback
  BY <1>1, StartQueue DEF Init, LastCallback
<1>3. TypeOK
  BY <1>2, AttemptsRange DEF Init, TypeOK, States, NetworkStatuses
<1> QED
  BY <1>2, <1>3, ConnectionManagerAssumption
     DEF BudgetKept, Init, IInv, WaitHasMore, SearchNeverStalls, OrphanNeverStalls,
                    EventStateHandled, SomethingPending

\* Restarts end in a state that Init would allow.
LEMMA RebootInv == Reboot => IInv'
<1> SUFFICES ASSUME Reboot PROVE IInv'
  OBVIOUS
<1>1. networkStatus' \in {"NO_NETWORK", "SAVED_NETWORK"}
  BY DEF Reboot
<1>2. networkStatus' \in NetworkStatuses
  BY <1>1 DEF NetworkStatuses
<1>3. callbacks' \in Seq(Callback) /\ LastCallback'
  <2>1. callbacks' \in {<< >>, <<StatusChange(networkStatus', networkStatus')>>}
    BY DEF Reboot
  <2> QED  BY <1>2, <2>1, StartQueue DEF LastCallback
<1>4. TypeOK'
  BY <1>1, <1>3, AttemptsRange DEF Reboot, TypeOK, States, NetworkStatuses
<1>5. BudgetKept'
  BY ConnectionManagerAssumption DEF Reboot, BudgetKept
<1> QED
  BY <1>1, <1>3, <1>4, <1>5 DEF Reboot, IInv, WaitHasMore, SearchNeverStalls,
         OrphanNeverStalls, EventStateHandled, SomethingPending

\* A step that only queues something keeps the invariant, if what it does to the
\* manager's own variables keeps their types and the handled states.
LEMMA EnqueuedInv ==
  ASSUME IInv, BudgetKept', TypeOK', EventStateHandled', Enqueued(callbacks),
         orphanEvent' = orphanEvent
           \/ orphanEvent' # "inactive"
           \/ networkStatus' # "JOINED_NETWORK_NO_PARENT"
  PROVE  IInv'
BY DEF IInv, Enqueued, WaitHasMore, SearchNeverStalls, OrphanNeverStalls, SomethingPending

LEMMA CommandInv == ASSUME IInv, BudgetKept', Command PROVE IInv'
<1> USE DEF IInv
<1>1. CASE StartConnect
  <2>1. TypeOK'
    <3>1. /\ joinAttemptsRemaining' \in 0..NumRejoinAttempts
          /\ joinKeyLength' \in JoinKeyLengths \cup {joinKeyLength}
          /\ isSearching' = TRUE /\ keyMissing' \in BOOLEAN
          /\ connectComplete' \in {"NONE", "NO_KEY"}
          /\ joinsMade' \in 0..NumRejoinAttempts
          /\ UNCHANGED <<orphanVars, stackVars>>
      BY <1>1, AttemptsRange DEF TypeOK, StartConnect, GiveAttempts
    <3>2. state' \in States /\ networkStateEvent' \in BOOLEAN
      BY <1>1 DEF TypeOK, StartConnect, setNextState, States, eventVars
    <3> QED  BY <1>1, <3>1, <3>2 DEF TypeOK, StartConnect, orphanVars, stackVars
  <2>2. networkStateEvent' \/ keyMissing'
    BY <1>1 DEF StartConnect, setNextState
  <2>3. LastCallback' /\ OrphanNeverStalls'
    BY <1>1 DEF StartConnect, stackVars, orphanVars, LastCallback, OrphanNeverStalls
  <2>4. WaitHasMore' /\ EventStateHandled'
    BY <1>1 DEF StartConnect, setNextState, stackVars, orphanVars, eventVars, WaitHasMore,
               EventStateHandled, HandledStates
  <2> QED  BY <2>1, <2>2, <2>3, <2>4 DEF SearchNeverStalls, SomethingPending
<1>2. CASE StopConnect
  <2>1. TypeOK'
    BY <1>2, AttemptsRange DEF StopConnect, TypeOK, keyVars, stackVars, orphanVars, eventVars
  <2> QED
    BY <1>2, <2>1 DEF StopConnect, stackVars, orphanVars, eventVars, WaitHasMore, LastCallback,
                      SearchNeverStalls, OrphanNeverStalls, EventStateHandled
<1>3. CASE SearchForParent
  <2>1. /\ TypeOK' /\ LastCallback' /\ EventStateHandled'
    BY <1>3 DEF SearchForParent, TypeOK, stackVars, searchVars, keyVars, eventVars,
               LastCallback, EventStateHandled
  <2> QED  BY <1>3, <2>1 DEF SearchForParent, WaitHasMore, SearchNeverStalls,
                             OrphanNeverStalls, SomethingPending
<1>4. CASE LeaveNetwork
  <2>1. Enqueued(callbacks)
    BY <1>4, CallQueues DEF LeaveNetwork, TypeOK
  <2>2. TypeOK' /\ EventStateHandled'
    BY <1>4, <2>1 DEF LeaveNetwork, Enqueued, TypeOK, searchVars, keyVars, eventVars,
                     EventStateHandled
  <2> QED  BY <1>4, <2>1, <2>2, EnqueuedInv DEF LeaveNetwork
<1>5. CASE NetworkCommand
  <2>1. Enqueued(callbacks)
    BY <1>5, CallQueues DEF NetworkCommand, TypeOK
  <2>2. TypeOK' /\ EventStateHandled' /\ orphanEvent' = orphanEvent
    BY <1>5, <2>1 DEF NetworkCommand, Enqueued, TypeOK, searchVars, keyVars, orphanVars, eventVars,
                     EventStateHandled
  <2> QED  BY <2>1, <2>2, EnqueuedInv
<1> QED  BY <1>1, <1>2, <1>3, <1>4, <1>5 DEF Command

LEMMA CallbackInv == ASSUME IInv, BudgetKept', DeliverCallback PROVE IInv'
<1> USE DEF IInv
<1> DEFINE head == Head(callbacks)
           rest == Tail(callbacks)
<1>1. callbacks \in Seq(Callback) /\ callbacks # << >>
  BY DEF TypeOK, DeliverCallback, emberResetNetworkStateReturn, emberResumeNetworkReturn,
         emberJoinNetworkReturn, emberAttachToNetworkReturn, NetworkStatusHandler,
         StatusSchedules, StatusJoining, StatusAttaching, StatusAttached, StatusNoParent,
         ReturnWith, Status, Deliver
<1>2. /\ head \in Callback /\ rest \in Seq(Callback)
      /\ rest = << >> =>
           \/ head.kind = "status" /\ head.new = networkStatus
           \/ head.kind \in StackCalls /\ ~head.ok
      /\ Drop => LastCallback'
  BY <1>1, DropTail DEF Drop
<1>3. /\ "status" \notin StackCalls
      /\ networkStatus = "JOINED_NETWORK_NO_PARENT" =>
           \/ orphanEvent # "inactive"
           \/ head.kind = "status" /\ head.new = "JOINED_NETWORK_NO_PARENT"
           \/ Reports(rest, "JOINED_NETWORK_NO_PARENT")
  BY <1>1, ReportsTail DEF OrphanNeverStalls, StackCalls
<1> HIDE DEF head, rest
<1>4. CASE emberResetNetworkStateReturn
  <2>1. CASE ReturnWith("reset", FALSE) /\ emberResetNetworkState(rest)
             /\ UNCHANGED <<searchVars, orphanVars, eventVars, keyVars>>
    <3>1. Enqueued(rest)
      BY <1>2, <2>1, CallQueues DEF TypeOK
    <3>2. TypeOK' /\ EventStateHandled' /\ LastCallback'
      BY <2>1, <3>1 DEF Enqueued, TypeOK, searchVars, keyVars, orphanVars, eventVars,
                        EventStateHandled
    <3>3. OrphanNeverStalls'
      BY <1>3, <2>1, <3>1 DEF OrphanNeverStalls, Enqueued, orphanVars, ReturnWith, Deliver, head
    <3> QED  BY <3>1, <3>2, <3>3 DEF Enqueued, WaitHasMore, SearchNeverStalls, SomethingPending
  <2>2. CASE ReturnWith("reset", TRUE) /\ isOrphaned' = FALSE /\ Drop
             /\ UNCHANGED <<searchVars, wasOrphaned, orphanEvent, eventVars, keyVars>>
    <3>1. callbacks' = rest /\ LastCallback'
      BY <1>2, <2>2 DEF Drop, rest
    <3>4. TypeOK' /\ EventStateHandled'
      BY <1>2, <2>2, <3>1 DEF Drop, TypeOK, searchVars, keyVars, eventVars, EventStateHandled
    <3>2. callbacks' # << >>
      BY <1>2, <1>3, <2>2 DEF Drop, rest, head, ReturnWith, Deliver
    <3>3. OrphanNeverStalls'
      BY <1>3, <2>2 DEF OrphanNeverStalls, Drop, rest, head, ReturnWith, Deliver
    <3> QED  BY <3>1, <3>2, <3>3, <3>4 DEF WaitHasMore, SearchNeverStalls, SomethingPending
  <2> QED  BY <1>4, <2>1, <2>2 DEF emberResetNetworkStateReturn, rest
<1>5. CASE emberResumeNetworkReturn
  <2>1. /\ callbacks' = rest /\ UNCHANGED networkStatus /\ LastCallback'
        /\ orphanEvent' \in {orphanEvent, "delayed"}
    BY <1>2, <1>5 DEF emberResumeNetworkReturn, Drop, rest
  <2>4. TypeOK' /\ EventStateHandled'
    BY <1>2, <1>5, <2>1 DEF emberResumeNetworkReturn, TypeOK, searchVars, keyVars, eventVars,
                            EventStateHandled
  <2>2. callbacks' # << >> \/ orphanEvent' # "inactive"
    <3>1. head.kind = "resume" /\ (head.ok = TRUE \/ orphanEvent' = "delayed")
      BY <1>5 DEF emberResumeNetworkReturn, ReturnWith, Deliver, head
    <3> QED  BY <1>2, <2>1, <3>1
  <2>3. OrphanNeverStalls'
    BY <1>3, <1>5 DEF emberResumeNetworkReturn, OrphanNeverStalls, Drop, rest, head,
                      ReturnWith, Deliver
  <2> QED  BY <2>1, <2>2, <2>3, <2>4 DEF WaitHasMore, SearchNeverStalls, SomethingPending
<1>6. CASE emberJoinNetworkReturn
  <2>4. callbacks' = rest /\ LastCallback'
    BY <1>2, <1>6 DEF emberJoinNetworkReturn, Drop, rest
  <2>5. /\ networkStateEvent' = TRUE /\ state' \in States \cap HandledStates
        /\ UNCHANGED <<searchVars, orphanVars, keyVars, networkStatus>>
    BY <1>6 DEF emberJoinNetworkReturn, JoinAccepted, setNextState, Drop, States, HandledStates
  <2>1. networkStateEvent' /\ TypeOK' /\ EventStateHandled' /\ LastCallback'
    BY <1>2, <2>4, <2>5 DEF TypeOK, searchVars, keyVars, orphanVars, EventStateHandled
  <2>2. state' = "WAIT_FOR_JOIN_NETWORK" => callbacks' # << >>
    BY <1>2, <1>3, <1>6 DEF emberJoinNetworkReturn, JoinAccepted, setNextState, Drop, rest,
                            head, ReturnWith, Deliver
  <2>3. OrphanNeverStalls'
    BY <1>3, <1>6 DEF emberJoinNetworkReturn, OrphanNeverStalls, Drop, rest, head, orphanVars,
                      ReturnWith, Deliver
  <2> QED  BY <2>1, <2>2, <2>3 DEF WaitHasMore, SearchNeverStalls, SomethingPending
<1>7. CASE emberAttachToNetworkReturn
  <2>1. /\ state' \in States /\ networkStateEvent' \in BOOLEAN
        /\ networkStateEvent' => state' \in HandledStates
    <3>1. CASE UNCHANGED eventVars
      BY <3>1 DEF TypeOK, eventVars, EventStateHandled
    <3>2. CASE setNextState("RESET_NETWORK_STATE")
      BY <3>2 DEF setNextState, States, HandledStates
    <3> QED  BY <1>7, <3>1, <3>2 DEF emberAttachToNetworkReturn
  <2>2. TypeOK' /\ EventStateHandled' /\ LastCallback'
    BY <1>2, <1>7, <2>1 DEF emberAttachToNetworkReturn, Drop, rest, TypeOK, searchVars, keyVars,
                            orphanVars, EventStateHandled
  <2>3. callbacks' # << >> \/ (networkStateEvent' /\ state' = "RESET_NETWORK_STATE")
    BY <1>2, <1>3, <1>7 DEF emberAttachToNetworkReturn, setNextState, Drop, rest, head,
                            ReturnWith, Deliver
  <2>4. OrphanNeverStalls'
    BY <1>3, <1>7 DEF emberAttachToNetworkReturn, OrphanNeverStalls, Drop, rest, head,
                      orphanVars, ReturnWith, Deliver
  <2> QED  BY <2>2, <2>3, <2>4 DEF WaitHasMore, SearchNeverStalls, SomethingPending
<1>8. CASE NetworkStatusHandler
  <2>1. ASSUME NEW nextState \in {"JOIN_NETWORK", "RESUME_NETWORK"},
               NEW new \in {"NO_NETWORK", "SAVED_NETWORK"},
               StatusSchedules(new, nextState)
        PROVE  IInv'
    <3>1. nextState \in States \cap HandledStates
      BY DEF States, HandledStates
    <3>2. TypeOK' /\ EventStateHandled' /\ LastCallback'
      BY <1>2, <2>1, <3>1 DEF StatusSchedules, setNextState, Status, Drop, rest, TypeOK,
                              searchVars, keyVars, orphanVars, EventStateHandled
    <3>3. OrphanNeverStalls'
      BY <1>3, <2>1 DEF StatusSchedules, Status, Deliver, OrphanNeverStalls, Drop, rest, head,
                        orphanVars
    <3> QED  BY <2>1, <3>2, <3>3 DEF StatusSchedules, setNextState, WaitHasMore,
                                     SearchNeverStalls, SomethingPending
  <2>2. CASE StatusJoining
    <3>1. TypeOK' /\ EventStateHandled' /\ LastCallback'
      BY <1>2, <2>2 DEF StatusJoining, Status, Drop, rest, TypeOK, searchVars, keyVars, orphanVars,
                        EventStateHandled
    <3>2. OrphanNeverStalls'
      BY <1>3, <2>2 DEF StatusJoining, Status, Deliver, OrphanNeverStalls, Drop, rest, head,
                        orphanVars
    <3>3. callbacks' # << >> \/ networkStatus' \in Transitional
      BY <1>2, <1>3, <2>2 DEF StatusJoining, Status, Deliver, Drop, rest, head, Transitional
    <3> QED  BY <2>2, <3>1, <3>2, <3>3 DEF StatusJoining, WaitHasMore, SearchNeverStalls,
                                          SomethingPending
  <2>3. CASE StatusAttaching
    <3>1. TypeOK' /\ EventStateHandled' /\ LastCallback'
      BY <1>2, <2>3 DEF StatusAttaching, Status, Drop, rest, TypeOK, searchVars, keyVars,
                        EventStateHandled
    <3>2. OrphanNeverStalls'
      BY <1>3, <2>3 DEF StatusAttaching, Status, Deliver, OrphanNeverStalls, Drop, rest, head
    <3>3. callbacks' # << >> \/ networkStatus' \in Transitional
      BY <1>2, <1>3, <2>3 DEF StatusAttaching, Status, Deliver, Drop, rest, head, Transitional
    <3> QED  BY <2>3, <3>1, <3>2, <3>3 DEF StatusAttaching, WaitHasMore, SearchNeverStalls,
                                          SomethingPending
  <2>4. CASE StatusAttached
    <3>1. joinAttemptsRemaining' \in 0..NumRejoinAttempts
      BY <2>4, AttemptsRange DEF StatusAttached, Connected, TypeOK
    <3>2. TypeOK' /\ EventStateHandled' /\ LastCallback'
      BY <1>2, <2>4, <3>1 DEF StatusAttached, Connected, Status, Drop, rest, TypeOK,
                              keyVars, orphanVars, EventStateHandled
    <3>3. OrphanNeverStalls'
      BY <1>3, <2>4 DEF StatusAttached, Status, Deliver, OrphanNeverStalls, Drop, rest, head,
                        orphanVars
    <3> QED  BY <2>4, <3>2, <3>3 DEF StatusAttached, Connected, WaitHasMore, SearchNeverStalls
  <2>5. CASE StatusNoParent
    <3>1. orphanEvent' \in {"now", "delayed"}
      BY <2>5 DEF StatusNoParent, Reattach
    <3>2. TypeOK' /\ EventStateHandled' /\ LastCallback'
      BY <1>2, <2>5, <3>1 DEF StatusNoParent, Status, Drop, rest, TypeOK, searchVars, keyVars,
                              EventStateHandled
    <3> QED  BY <3>1, <3>2 DEF WaitHasMore, SearchNeverStalls, OrphanNeverStalls,
                               SomethingPending
  <2> QED  BY <1>8, <2>1, <2>2, <2>3, <2>4, <2>5 DEF NetworkStatusHandler
<1> QED  BY <1>4, <1>5, <1>6, <1>7, <1>8 DEF DeliverCallback

LEMMA EventInv == ASSUME IInv, BudgetKept', RunEvent PROVE IInv'
<1> USE DEF IInv
<1>1. CASE OrphanEventHandler
  <2>1. Enqueued(callbacks)
    BY <1>1, CallQueues DEF OrphanEventHandler, TypeOK
  <2>2. TypeOK' /\ EventStateHandled'
    BY <1>1, <2>1 DEF OrphanEventHandler, Enqueued, TypeOK, searchVars, keyVars, eventVars,
                      EventStateHandled
  <2>3. networkStatus' # "JOINED_NETWORK_NO_PARENT"
    BY <1>1 DEF OrphanEventHandler, emberAttachToNetwork, Accept, Reject
  <2> QED  BY <2>1, <2>2, <2>3, EnqueuedInv
<1>2. CASE NetworkStateEventHandler
  <2>1. /\ networkStateEvent' = FALSE /\ EventStateHandled' /\ WaitHasMore'
        /\ state' \in States /\ networkStateEvent' \in BOOLEAN
        /\ isOrphaned' \in BOOLEAN /\ wasOrphaned' \in BOOLEAN
        /\ orphanEvent' \in {"inactive", "now", "delayed"} /\ orphanEvent' = orphanEvent
    BY <1>2 DEF NetworkStateEventHandler, orphanVars, TypeOK, EventStateHandled, WaitHasMore
  <2>2. CASE waitForJoinNetwork
    <3>1. /\ TypeOK' /\ LastCallback' /\ OrphanNeverStalls'
      BY <2>1, <2>2 DEF waitForJoinNetwork, TypeOK, searchVars, keyVars, stackVars,
                        LastCallback, OrphanNeverStalls
    <3>2. SearchNeverStalls'
      BY <1>2, <2>1, <2>2 DEF NetworkStateEventHandler, waitForJoinNetwork, WaitHasMore,
                              SearchNeverStalls, SomethingPending, searchVars, keyVars, stackVars
    <3> QED  BY <2>1, <3>1, <3>2
  <2>3. CASE resumeNetwork \/ resetNetworkState
    <3>1. Enqueued(callbacks)
      BY <2>3, CallQueues DEF resumeNetwork, resetNetworkState, TypeOK
    <3>2. TypeOK'
      BY <2>1, <2>3, <3>1 DEF resumeNetwork, resetNetworkState, Enqueued,
                              TypeOK, searchVars, keyVars
    <3> QED  BY <2>1, <3>1, <3>2, EnqueuedInv
  <2>4. CASE joinNetwork
    <3>1. joinKeyLength' \in JoinKeyLengths \cup {0} /\ keyMissing' \in BOOLEAN
      BY <2>4 DEF joinNetwork, TypeOK
    <3>2. CASE keyMissing' /\ UNCHANGED <<searchVars, stackVars>>
      BY <2>1, <3>1, <3>2 DEF TypeOK, searchVars, stackVars, LastCallback, SearchNeverStalls,
                              OrphanNeverStalls
    <3>3. CASE SpendAttempt /\ emberJoinNetwork(callbacks)
                 /\ UNCHANGED <<isSearching, connectComplete>>
      <4>1. Enqueued(callbacks)
        BY <3>3, CallQueues DEF TypeOK
      <4>2. /\ joinAttemptsRemaining' \in 0..NumRejoinAttempts
            /\ joinsMade' \in 0..NumRejoinAttempts
        BY <3>3, AttemptsRange, ConnectionManagerAssumption DEF SpendAttempt, TypeOK, BudgetKept
      <4>3. TypeOK'
        BY <2>1, <3>1, <3>3, <4>1, <4>2 DEF Enqueued, TypeOK
      <4> QED  BY <2>1, <4>1, <4>3, EnqueuedInv
    <3>4. CASE isSearching' = FALSE /\ connectComplete' = "TIMED_OUT"
                 /\ UNCHANGED <<joinAttemptsRemaining, joinsMade, stackVars>>
      BY <2>1, <3>1, <3>4 DEF TypeOK, stackVars, LastCallback, SearchNeverStalls,
                              OrphanNeverStalls
    <3> QED  BY <2>4, <3>2, <3>3, <3>4 DEF joinNetwork
  <2> QED  BY <1>2, <2>2, <2>3, <2>4 DEF NetworkStateEventHandler
<1> QED  BY <1>1, <1>2 DEF RunEvent

LEMMA StackInv == ASSUME IInv, BudgetKept', StackChangesStatus PROVE IInv'
<1> USE DEF IInv
<1>1. PICK new \in NetworkStatuses :
        networkStatus' = new /\ callbacks' = Append(callbacks, StatusChange(new, networkStatus))
  BY DEF StackChangesStatus
<1> DEFINE change == StatusChange(new, networkStatus)
           more == <<change>>
<1>2. change \in Callback /\ change.kind = "status" /\ change.new = new
  BY CallbackKinds DEF StatusChange, TypeOK
<1> HIDE DEF change
<1>3. /\ more \in Seq(Callback) /\ more # << >> /\ Len(more) = 1 /\ more[1] = change
      /\ Reports(more, new)
  BY <1>2, ShortSequences DEF Reports
<1>4. callbacks \in Seq(Callback) /\ callbacks' = callbacks \o more
  BY <1>1, <1>2, AppendIsConcat DEF change, TypeOK
<1> HIDE DEF more
<1>5. /\ callbacks' \in Seq(Callback) /\ callbacks' # << >>
      /\ callbacks'[Len(callbacks')] = change
  BY <1>3, <1>4, MoreCallbacks
<1>6. LastCallback' /\ Reports(callbacks', new)
  <2>1. Len(callbacks') \in DOMAIN callbacks'
    BY <1>5, LenProperties, EmptySeq
  <2> QED  BY <1>1, <1>2, <1>5, <2>1 DEF LastCallback, Reports
<1>7. TypeOK' /\ EventStateHandled'
  BY <1>1, <1>5 DEF StackChangesStatus, TypeOK, searchVars, keyVars, orphanVars, eventVars,
                    EventStateHandled
<1> QED  BY <1>1, <1>5, <1>6, <1>7 DEF WaitHasMore, SearchNeverStalls, OrphanNeverStalls,
                                      SomethingPending

LEMMA StepInv == IInv /\ [Next]_vars => IInv'
<1>0. IInv /\ [Next]_vars => BudgetKept'
  BY BudgetStep DEF IInv
<1>1. IInv /\ UNCHANGED vars => IInv'
  BY <1>0 DEF IInv, vars, searchVars, keyVars, orphanVars, eventVars, stackVars, TypeOK,
         LastCallback, WaitHasMore, SearchNeverStalls, OrphanNeverStalls, EventStateHandled,
         SomethingPending
<1> QED
  BY <1>0, <1>1, CommandInv, CallbackInv, EventInv, StackInv, RebootInv DEF Next

----------------------------------------------------------------------------
(* The theorems.                                                            *)

THEOREM Invariance == Spec => []IInv
<1> QED  BY InitInv, StepInv, PTL DEF Spec

\* The types of the state, for every instance.
THEOREM TypeCorrect == Spec => []TypeOK
<1>1. IInv => TypeOK
  BY DEF IInv
<1> QED  BY Invariance, <1>1, PTL

\* A search with a join key always has its next step under way: no interleaving
\* of commands, callbacks and events drops the last pending event of a search.
THEOREM SearchLive == Spec => []SearchNeverStalls
<1>1. IInv => SearchNeverStalls
  BY DEF IInv
<1> QED  BY Invariance, <1>1, PTL

\* A node that lost its parent always has the next re-attach coming.
THEOREM OrphanLive == Spec => []OrphanNeverStalls
<1>1. IInv => OrphanNeverStalls
  BY DEF IInv
<1> QED  BY Invariance, <1>1, PTL

\* The network state event handler never meets a state it has no case for.
THEOREM HandlerTotal == Spec => []EventStateHandled
<1>1. IInv => EventStateHandled
  BY DEF IInv
<1> QED  BY Invariance, <1>1, PTL

\* No join is begun outside a search: without one the manager has no attempt left.
THEOREM JoinsSearched == Spec => JoinsOnlyInSearch
<1>1. IInv /\ [Next]_vars => [joinsMade' > joinsMade => isSearching]_vars
  <2> SUFFICES ASSUME IInv, [Next]_vars, joinsMade' > joinsMade
               PROVE  isSearching
    OBVIOUS
  <2>1. joinsMade \in Nat /\ (~isSearching => joinAttemptsRemaining = 0)
    BY ConnectionManagerAssumption DEF IInv, TypeOK, BudgetKept
  <2>2. ~(0 > joinsMade) /\ ~(joinsMade > joinsMade)
    BY <2>1
  <2>3. Joins
    BY <2>2, SearchSteps DEF Begins, BeginsWithoutKey, TimesOut, Ends, GoesOn, searchVars
  <2> QED  BY <2>1, <2>3 DEF Joins, SpendAttempt
<1> QED  BY Invariance, <1>1, PTL DEF Spec, JoinsOnlyInSearch

\* A search with a key that reports TIMED_OUT has made all the joins of its budget.
THEOREM TimeOutEarned == Spec => SearchTimesOutAfterAttempts
<1>1. IInv /\ [Next]_vars =>
        [isSearching /\ ~keyMissing /\ connectComplete' = "TIMED_OUT"
           => joinsMade = NumRejoinAttempts]_vars
  <2> SUFFICES ASSUME IInv, [Next]_vars, isSearching, ~keyMissing,
                      connectComplete' = "TIMED_OUT"
               PROVE  joinsMade = NumRejoinAttempts
    OBVIOUS
  <2>1. connectComplete # "TIMED_OUT"
    BY DEF IInv, BudgetKept
  <2>2. TimesOut
    BY <2>1, SearchSteps DEF Begins, BeginsWithoutKey, Joins, Ends, GoesOn, searchVars
  <2>3. joinsMade \in Nat /\ NumRejoinAttempts \in Nat
    BY ConnectionManagerAssumption DEF IInv, TypeOK
  <2> QED  BY <2>2, <2>3 DEF TimesOut, IInv, BudgetKept
<1> QED  BY Invariance, <1>1, PTL DEF Spec, SearchTimesOutAfterAttempts
=============================================================================
