----------------------- MODULE GattRegistration_proofs -----------------------
(* Theorems about GattRegistration, however often bluetoothd dies, refuses   *)
(* or releases and the App subscribes.                                       *)
EXTENDS GattRegistration, SequenceTheorems, TLAPS

USE DEF flags, bluezVars, Timers

LEMMA InitTypeOK == Init => TypeOK
<1>. SUFFICES ASSUME Init PROVE TypeOK
  OBVIOUS
<1>1. ServerTypes
  BY DEF Init, ServerTypes
<1>2. BusTypes
  BY DEF Init, BusTypes
<1>3. BluezTypes
  BY GattAssumption DEF Init, BluezTypes
<1>. QED
  BY <1>1, <1>2, <1>3 DEF TypeOK

-----------------------------------------------------------------------------
LEMMA PairInSeq == ASSUME NEW S, NEW a \in S, NEW b \in S PROVE <<a, b>> \in Seq(S)
OBVIOUS

LEMMA FunctionIsSeq == ASSUME NEW S, NEW n \in Nat, NEW f \in [1..n -> S] PROVE f \in Seq(S)
OBVIOUS

(* What handlers and bluetoothd put into the queue and the calls. *)
LEMMA ReplyIsEvent == ASSUME NEW call \in Calls, NEW ok \in BOOLEAN PROVE Reply(call, ok) \in Event
BY DEF Reply, Event

LEMMA SignalIsEvent == ASSUME NEW what \in Signals PROVE Signal(what) \in Event
BY DEF Signal, Event

LEMMA SendTypes ==
  ASSUME TypeOK, NEW call \in Calls, NEW q \in Seq(Event), Send(call, q)
  PROVE  BusTypes'
<1>1. Reply(call, FALSE) \in Event
  BY ReplyIsEvent
<1>2. calls \in Seq(Calls)
  BY DEF TypeOK, BusTypes
<1>3. Append(q, Reply(call, FALSE)) \in Seq(Event) /\ Append(calls, call) \in Seq(Calls)
  BY <1>1, <1>2, AppendProperties
<1>. QED
  BY <1>2, <1>3 DEF BusTypes, Send

LEMMA SendNothingTypes ==
  ASSUME TypeOK, NEW q \in Seq(Event), SendNothing(q)
  PROVE  BusTypes'
BY DEF TypeOK, BusTypes, SendNothing

LEMMA QueueType == TypeOK => queue \in Seq(Event) /\ calls \in Seq(Calls)
BY DEF TypeOK, BusTypes

LEMMA RestType == ASSUME TypeOK, Dispatching PROVE Rest \in Seq(Event) /\ Head(queue) \in Event
BY DEF TypeOK, BusTypes, Dispatching, Rest

LEMMA CallNames ==
  /\ {"RegisterApplication", "RegisterAdvertisement", "ReregisterAdvertisement"} \subseteq Calls
  /\ {"UnregisterForRefresh", "UnregisterAdvertisement", "UnregisterApplication"} \subseteq Calls
BY DEF Calls, Registrations, Unregistrations

LEMMA UnregisterGattTypes ==
  ASSUME TypeOK, NEW q \in Seq(Event), UnregisterGatt(q)
  PROVE  BusTypes' /\ loop' \in {loop, "quit"}
BY CallNames, SendTypes, SendNothingTypes DEF UnregisterGatt

LEMMA BeginShutdownTypes ==
  ASSUME TypeOK, NEW q \in Seq(Event), BeginShutdown(q)
  PROVE  /\ BusTypes'
         /\ loop' \in {loop, "quit"}
         /\ shutdown' \in BOOLEAN
         /\ registered' \in BOOLEAN /\ (registered' => registered)
BY CallNames, SendTypes, SendNothingTypes, UnregisterGattTypes
DEF BeginShutdown, TypeOK, ServerTypes

LEMMA ReregisterTypes ==
  ASSUME TypeOK, NEW q \in Seq(Event), Reregister(q)
  PROVE  BusTypes'
BY CallNames, SendTypes, SendNothingTypes DEF Reregister

LEMMA ArmTypes ==
  ASSUME TypeOK, NEW kind \in Timers, Arm(kind)
  PROVE  timers' \in [Timers -> Nat]
BY DEF TypeOK, ServerTypes, Arm

LEMMA FiredTypes ==
  ASSUME TypeOK, NEW kind \in Timers, Fires(kind)
  PROVE  Fired(kind) \in [Timers -> Nat]
BY DEF TypeOK, ServerTypes, Fires, Fired

LEMMA RegistrationFailsTypes ==
  ASSUME TypeOK, Dispatching, NEW kind \in Timers, RegistrationFails(kind)
  PROVE  /\ BusTypes'
         /\ loop' \in {loop, "quit"}
         /\ shutdown' \in BOOLEAN
         /\ ready' \in BOOLEAN
         /\ registered' \in BOOLEAN
         /\ registered' => ready'
         /\ timers' \in [Timers -> Nat]
<1>1. CASE ready
  BY <1>1, RestType, SendNothingTypes, ArmTypes DEF RegistrationFails, TypeOK, ServerTypes
<1>2. CASE ~ready
  BY <1>2, RestType, BeginShutdownTypes DEF RegistrationFails, TypeOK, ServerTypes
<1>. QED
  BY <1>1, <1>2

-----------------------------------------------------------------------------
(* bluetoothd's and the App's variables change in their own steps only. *)
LEMMA NextBluezTypes == TypeOK /\ [Next]_vars => BluezTypes'
<1>. SUFFICES ASSUME TypeOK, [Next]_vars PROVE BluezTypes'
  OBVIOUS
<1>. USE DEF TypeOK, BluezTypes
<1>1. ASSUME Run \/ StartReturns \/ RequestStop \/ ShutdownIdle PROVE BluezTypes'
  BY <1>1 DEF Run, StartReturns, RequestStop, ShutdownIdle
<1>9. ASSUME RunEnds PROVE BluezTypes'
  BY <1>9 DEF RunEnds
<1>2. ASSUME DispatchStep PROVE BluezTypes'
  BY <1>2 DEF DispatchStep, OnGattRegistered, OnAdvertisementRegistered,
    OnAdvertisementReregistered, OnNameOwnerChanged, OnAdvertisementReleased, OnCccdOff,
    OnStopNotify, OnRefreshUnregistered, OnAdvertisementUnregistered, OnGattUnregistered
<1>3. ASSUME TimerStep PROVE BluezTypes'
  BY <1>3 DEF TimerStep, RetryRegisterApplication, ReregisterTimer, RefreshAdvertisement
<1>4. ASSUME Registers \/ Unregisters PROVE BluezTypes'
  BY <1>4 DEF Registers, Unregisters, Answer
<1>5. ASSUME Refuses PROVE BluezTypes'
  <2>1. left'.refusals \in Nat
    BY <1>5 DEF Refuses
  <2>. QED
    BY <1>5, <2>1 DEF Refuses, Answer
<1>6. ASSUME ReleasesAdvertisement PROVE BluezTypes'
  <2>1. left'.releases \in Nat
    BY <1>6 DEF ReleasesAdvertisement
  <2>. QED
    BY <1>6, <2>1 DEF ReleasesAdvertisement
<1>11. ASSUME Restart PROVE BluezTypes'
  BY <1>11 DEF Restart
<1>10. ASSUME Crash PROVE BluezTypes'
  <2>1. left' = [left EXCEPT !.crashes = @ - 1] /\ left.crashes > 0
    BY <1>10 DEF Crash
  <2>2. up' = FALSE /\ app' = FALSE /\ adv' = FALSE /\ subs' = 0
    BY <1>10 DEF Crash
  <2>3. left' \in [crashes : Nat, releases : Nat, refusals : Nat, subs : Nat]
    BY <2>1
  <2>. QED
    BY <2>2, <2>3
<1>7. ASSUME AppStep PROVE BluezTypes'
  BY <1>7 DEF AppStep, AppSubscribes, AppUnsubscribes, AppDisconnects
<1>8. CASE UNCHANGED vars
  BY <1>8 DEF vars
<1>. QED
  BY <1>1, <1>2, <1>3, <1>4, <1>5, <1>6, <1>7, <1>8, <1>9, <1>10, <1>11 DEF Next, BluezStep

(* A type correct queue stays so. *)
LEMMA NextBusTypes == TypeOK /\ [Next]_vars => BusTypes'
<1>. SUFFICES ASSUME TypeOK, [Next]_vars PROVE BusTypes'
  OBVIOUS
<1>1. ASSUME Run PROVE BusTypes'
  BY <1>1, QueueType, CallNames, SendTypes, SendNothingTypes DEF Run
<1>2. ASSUME StartReturns \/ RequestStop \/ UNCHANGED vars PROVE BusTypes'
  BY <1>2 DEF StartReturns, RequestStop, vars, TypeOK, BusTypes
<1>3. ASSUME ShutdownIdle PROVE BusTypes'
  BY <1>3, QueueType, BeginShutdownTypes DEF ShutdownIdle
<1>4. ASSUME RunEnds PROVE BusTypes'
  BY <1>4 DEF RunEnds, BusTypes
<1>5. ASSUME DispatchStep PROVE BusTypes'
  <2>1. Dispatching
    BY <1>5 DEF DispatchStep, Handles, OnGattRegistered, OnAdvertisementRegistered,
      OnAdvertisementReregistered, OnNameOwnerChanged, OnAdvertisementReleased, OnCccdOff,
      OnStopNotify, OnRefreshUnregistered, OnAdvertisementUnregistered, OnGattUnregistered
  <2>. USE <2>1, RestType, CallNames, SendTypes, SendNothingTypes
  <2>2. CASE OnGattRegistered
    BY <2>2, RegistrationFailsTypes DEF OnGattRegistered
  <2>3. CASE OnAdvertisementRegistered
    BY <2>3, RegistrationFailsTypes DEF OnAdvertisementRegistered
  <2>4. CASE OnNameOwnerChanged
    BY <2>4 DEF OnNameOwnerChanged, SetupBluez
  <2>5. CASE OnAdvertisementReregistered \/ OnAdvertisementReleased \/ OnCccdOff \/ OnStopNotify
             \/ OnGattUnregistered
    BY <2>5 DEF OnAdvertisementReregistered, OnAdvertisementReleased, OnCccdOff, OnStopNotify,
      OnGattUnregistered
  <2>6. CASE OnRefreshUnregistered \/ OnAdvertisementUnregistered
    BY <2>6, ReregisterTypes, UnregisterGattTypes
    DEF OnRefreshUnregistered, OnAdvertisementUnregistered
  <2>. QED
    BY <1>5, <2>2, <2>3, <2>4, <2>5, <2>6 DEF DispatchStep
<1>6. ASSUME TimerStep PROVE BusTypes'
  BY <1>6, QueueType, CallNames, SendTypes, SendNothingTypes, ReregisterTypes
  DEF TimerStep, RetryRegisterApplication, ReregisterTimer, RefreshAdvertisement
<1>7. ASSUME BluezStep PROVE BusTypes'
  <2>1. calls # <<>>
    BY <1>7 DEF BluezStep, Registers, Refuses, Unregisters, Answer
  <2>2. Head(calls) \in Calls /\ calls' = Tail(calls) /\ Tail(calls) \in Seq(Calls)
    BY <1>7, <2>1, QueueType, HeadTailProperties
    DEF BluezStep, Registers, Refuses, Unregisters, Answer
  <2>3. adv \in BOOLEAN /\ app \in BOOLEAN
    BY DEF TypeOK, BluezTypes
  <2>4. \A ok \in BOOLEAN : Reply(Head(calls), ok) \in Event
    BY <2>2, ReplyIsEvent
  <2>5. Signal("OwnRelease") \in Event
    BY SignalIsEvent DEF Signals
  <2>6. \E events \in Seq(Event) : Deliver(events)
    <3>1. ASSUME NEW ok \in BOOLEAN PROVE <<Reply(Head(calls), ok)>> \in Seq(Event)
      BY <2>4
    <3>2. <<Signal("OwnRelease"), Reply(Head(calls), TRUE)>> \in Seq(Event)
      BY <2>4, <2>5, PairInSeq
    <3>3. CASE Registers
      BY <3>1, <3>3 DEF Registers
    <3>4. CASE Refuses
      BY <3>1, <3>4 DEF Refuses
    <3>5. CASE Unregisters
      BY <2>3, <3>1, <3>2, <3>5 DEF Unregisters
    <3>. QED
      BY <1>7, <3>3, <3>4, <3>5 DEF BluezStep
  <2>. QED
    BY <2>2, <2>6, QueueType, ConcatProperties DEF Deliver, BusTypes
<1>8. ASSUME Crash PROVE BusTypes'
  <2>1. Signal("Vanished") \in Event
    BY SignalIsEvent DEF Signals
  <2>2. <<Signal("Vanished")>> \in Seq(Event)
    BY <2>1
  <2>3. \A i \in 1..Len(calls) : Reply(calls[i], FALSE) \in Event
    BY QueueType, ElementOfSeq, ReplyIsEvent
  <2>4. Len(calls) \in Nat
    BY QueueType, LenProperties
  <2>5. [i \in 1..Len(calls) |-> Reply(calls[i], FALSE)] \in Seq(Event)
    <3>1. [i \in 1..Len(calls) |-> Reply(calls[i], FALSE)] \in [1..Len(calls) -> Event]
      BY <2>3
    <3>. QED
      BY <3>1, <2>4, FunctionIsSeq
  <2>6. <<Signal("Vanished")>> \o [i \in 1..Len(calls) |-> Reply(calls[i], FALSE)] \in Seq(Event)
    BY <2>2, <2>5, ConcatProperties
  <2>7. queue' \in Seq(Event)
    BY <1>8, <2>6, QueueType, ConcatProperties DEF Crash, Deliver
  <2>8. calls' \in Seq(Calls)
    BY <1>8 DEF Crash
  <2>. QED
    BY <2>7, <2>8 DEF BusTypes
<1>9. ASSUME ReleasesAdvertisement \/ Restart PROVE BusTypes'
  <2>1. <<Signal("Released")>> \in Seq(Event) /\ <<Signal("Appeared")>> \in Seq(Event)
    BY SignalIsEvent DEF Signals
  <2>. QED
    BY <1>9, <2>1, QueueType, ConcatProperties DEF ReleasesAdvertisement, Restart, Deliver, BusTypes
<1>10. ASSUME AppStep PROVE BusTypes'
  <2>1. Signal("CccdOff") \in Event /\ Signal("StopNotify") \in Event
    BY SignalIsEvent DEF Signals
  <2>2. subs \in Nat
    BY DEF TypeOK, BluezTypes
  <2>3. [i \in 1..subs |-> Signal("StopNotify")] \in Seq(Event)
    BY <2>1, <2>2, FunctionIsSeq
  <2>4. <<Signal("CccdOff")>> \in Seq(Event)
    BY <2>1
  <2>. QED
    BY <1>10, <2>3, <2>4, QueueType, ConcatProperties
    DEF AppStep, AppSubscribes, AppUnsubscribes, AppDisconnects, Deliver, BusTypes
<1>. QED
  BY <1>1, <1>2, <1>3, <1>4, <1>5, <1>6, <1>7, <1>8, <1>9, <1>10 DEF Next

(* The server's own flags and timers keep their types. *)
LEMMA NextServerTypes == TypeOK /\ [Next]_vars => ServerTypes'
<1>. SUFFICES ASSUME TypeOK, [Next]_vars PROVE ServerTypes'
  OBVIOUS
<1>0. ServerTypes
  BY DEF TypeOK
<1>1. ASSUME Run PROVE ServerTypes'
  BY <1>0, <1>1 DEF Run, ServerTypes
<1>2. ASSUME StartReturns \/ RequestStop PROVE ServerTypes'
  BY <1>0, <1>2 DEF StartReturns, RequestStop, ServerTypes
<1>3. ASSUME ShutdownIdle PROVE ServerTypes'
  <2>1. /\ loop' \in {loop, "quit"}
        /\ shutdown' \in BOOLEAN
        /\ registered' \in BOOLEAN /\ (registered' => registered)
    BY <1>3, QueueType, BeginShutdownTypes DEF ShutdownIdle
  <2>. QED
    <3>1. UNCHANGED <<prompt, main, ready, gattRegistered, advRegistered, refreshPending, timers>>
      BY <1>3 DEF ShutdownIdle
    <3>. QED
      BY <1>0, <2>1, <3>1 DEF ServerTypes
<1>4. ASSUME RunEnds PROVE ServerTypes'
  <2>1. timers' \in [Timers -> Nat]
    BY <1>4 DEF RunEnds
  <2>. QED
    BY <1>0, <1>4, <2>1 DEF RunEnds, ServerTypes
<1>5. ASSUME OnGattRegistered PROVE ServerTypes'
  <2>1. Dispatching /\ Head(queue).ok \in BOOLEAN
    BY <1>5, RestType DEF OnGattRegistered, Handles, Event
  <2>2. CASE Head(queue).ok
    BY <1>0, <1>5, <2>2 DEF OnGattRegistered, ServerTypes
  <2>3. CASE ~Head(queue).ok
    <3>1. RegistrationFails("retryApplication")
      BY <1>5, <2>3 DEF OnGattRegistered
    <3>2. /\ loop' \in {loop, "quit"} /\ shutdown' \in BOOLEAN /\ ready' \in BOOLEAN
          /\ registered' \in BOOLEAN /\ (registered' => ready') /\ timers' \in [Timers -> Nat]
      BY <2>1, <3>1, RegistrationFailsTypes
    <3>. QED
      BY <1>0, <1>5, <2>3, <3>2 DEF OnGattRegistered, ServerTypes
  <2>. QED
    BY <2>2, <2>3
<1>6. ASSUME OnAdvertisementRegistered PROVE ServerTypes'
  <2>1. Dispatching
    BY <1>6 DEF OnAdvertisementRegistered, Handles
  <2>2. CASE Head(queue).ok
    BY <1>0, <1>6, <2>2 DEF OnAdvertisementRegistered, ServerTypes
  <2>3. CASE ~Head(queue).ok
    <3>1. RegistrationFails("reregister")
      BY <1>6, <2>3 DEF OnAdvertisementRegistered
    <3>2. /\ loop' \in {loop, "quit"} /\ shutdown' \in BOOLEAN /\ ready' \in BOOLEAN
          /\ registered' \in BOOLEAN /\ (registered' => ready') /\ timers' \in [Timers -> Nat]
      BY <2>1, <3>1, RegistrationFailsTypes
    <3>. QED
      BY <1>0, <1>6, <2>3, <3>2 DEF OnAdvertisementRegistered, ServerTypes
  <2>. QED
    BY <2>2, <2>3
<1>7. ASSUME OnNameOwnerChanged PROVE ServerTypes'
  <2>1. timers' \in [Timers -> Nat]
    BY <1>0, <1>7, ArmTypes DEF OnNameOwnerChanged, SetupBluez, ServerTypes
  <2>. QED
    BY <1>0, <1>7, <2>1 DEF OnNameOwnerChanged, ServerTypes
<1>8. ASSUME OnAdvertisementReleased \/ OnAdvertisementReregistered PROVE ServerTypes'
  <2>1. timers' \in [Timers -> Nat]
    BY <1>0, <1>8, ArmTypes DEF OnAdvertisementReleased, OnAdvertisementReregistered, ServerTypes
  <2>. QED
    <3>1. advRegistered' \in BOOLEAN
      BY <1>0, <1>8 DEF OnAdvertisementReleased, OnAdvertisementReregistered, ServerTypes
    <3>2. UNCHANGED <<prompt, main, loop, ready, registered, gattRegistered, refreshPending, shutdown>>
      BY <1>8 DEF OnAdvertisementReleased, OnAdvertisementReregistered
    <3>. QED
      BY <1>0, <2>1, <3>1, <3>2 DEF ServerTypes
<1>9. ASSUME OnCccdOff \/ OnStopNotify PROVE ServerTypes'
  <2>1. timers' \in [Timers -> Nat] /\ refreshPending' \in BOOLEAN
    BY <1>0, <1>9, ArmTypes DEF OnCccdOff, OnStopNotify, OnClientDisconnected, ServerTypes
  <2>. QED
    BY <1>0, <1>9, <2>1 DEF OnCccdOff, OnStopNotify, ServerTypes
<1>10. ASSUME OnRefreshUnregistered \/ OnGattUnregistered PROVE ServerTypes'
  <2>1. loop' \in {loop, "quit"} /\ gattRegistered' \in {gattRegistered, FALSE}
    BY <1>10 DEF OnRefreshUnregistered, OnGattUnregistered
  <2>2. UNCHANGED <<prompt, main, ready, registered, advRegistered, refreshPending, shutdown, timers>>
    BY <1>10 DEF OnRefreshUnregistered, OnGattUnregistered
  <2>. QED
    BY <1>0, <2>1, <2>2 DEF ServerTypes
<1>11. ASSUME OnAdvertisementUnregistered PROVE ServerTypes'
  <2>1. loop' \in {loop, "quit"}
    BY <1>11, RestType, UnregisterGattTypes DEF OnAdvertisementUnregistered, Handles
  <2>. QED
    BY <1>0, <1>11, <2>1 DEF OnAdvertisementUnregistered, ServerTypes
<1>12. ASSUME TimerStep PROVE ServerTypes'
  <2>1. timers' \in [Timers -> Nat]
    BY <1>0, <1>12, FiredTypes
    DEF TimerStep, RetryRegisterApplication, ReregisterTimer, RefreshAdvertisement, ServerTypes
  <2>. QED
    <3>1. /\ UNCHANGED <<prompt, main, loop, ready, registered, gattRegistered, shutdown>>
          /\ refreshPending' \in {refreshPending, FALSE}
          /\ advRegistered' \in {advRegistered, FALSE}
      BY <1>12 DEF TimerStep, RetryRegisterApplication, ReregisterTimer, RefreshAdvertisement
    <3>. QED
      BY <1>0, <2>1, <3>1 DEF ServerTypes
<1>13. ASSUME BluezStep \/ ReleasesAdvertisement \/ Crash \/ Restart \/ AppStep PROVE ServerTypes'
  <2>1. UNCHANGED <<prompt, main, loop, flags, timers>>
    BY <1>13 DEF BluezStep, Registers, Refuses, Unregisters, Answer, ReleasesAdvertisement,
      Crash, Restart, AppStep, AppSubscribes, AppUnsubscribes, AppDisconnects
  <2>. QED
    BY <1>0, <2>1 DEF ServerTypes
<1>14. CASE UNCHANGED vars
  BY <1>0, <1>14 DEF vars, ServerTypes
<1>. QED
  BY <1>1, <1>2, <1>3, <1>4, <1>5, <1>6, <1>7, <1>8, <1>9, <1>10, <1>11, <1>12, <1>13, <1>14
  DEF Next, DispatchStep

(* Type correctness, for any bounds. *)
THEOREM TypeCorrect == Spec => []TypeOK
<1>1. TypeOK /\ [Next]_vars => TypeOK'
  BY NextServerTypes, NextBusTypes, NextBluezTypes DEF TypeOK
<1>. QED
  BY InitTypeOK, <1>1, PTL DEF Spec

-----------------------------------------------------------------------------
(* The refresh flag stands for one timer.  Before the loop runs there is none. *)
RefreshInv ==
    /\ OneRefresh
    /\ loop = "new" => timers["refresh"] = 0 /\ ~refreshPending

LEMMA NextRefresh == TypeOK /\ RefreshInv /\ [Next]_vars => RefreshInv'
<1>. SUFFICES ASSUME TypeOK, RefreshInv, [Next]_vars PROVE RefreshInv'
  OBVIOUS
<1>0. timers \in [Timers -> Nat] /\ refreshPending \in BOOLEAN
  BY DEF TypeOK, ServerTypes
<1>. USE DEF RefreshInv, OneRefresh
<1>1. ASSUME Run \/ StartReturns \/ RequestStop PROVE RefreshInv'
  BY <1>1 DEF Run, StartReturns, RequestStop
<1>2. ASSUME RunEnds PROVE RefreshInv'
  BY <1>2 DEF RunEnds
<1>3. ASSUME NEW kind \in {"retryApplication", "reregister"}, Arm(kind) \/ timers' = timers \/ timers' = Fired(kind)
      PROVE timers'["refresh"] = timers["refresh"]
  BY <1>0, <1>3 DEF Arm, Fired
<1>4. ASSUME loop = "running", loop' \in {loop, "quit"}, refreshPending' = refreshPending,
             timers'["refresh"] = timers["refresh"]
      PROVE RefreshInv'
  BY <1>4
<1>5. ASSUME ShutdownIdle PROVE RefreshInv'
  BY <1>4, <1>5, QueueType, BeginShutdownTypes DEF ShutdownIdle
<1>6. ASSUME OnGattRegistered \/ OnAdvertisementRegistered PROVE RefreshInv'
  <2>1. Dispatching /\ loop = "running" /\ refreshPending' = refreshPending
    BY <1>6 DEF OnGattRegistered, OnAdvertisementRegistered, Handles, Dispatching
  <2>2. CASE loop' = loop /\ timers' = timers
    BY <1>4, <2>1, <2>2
  <2>3. CASE \E kind \in {"retryApplication", "reregister"} : RegistrationFails(kind)
    <3>1. PICK kind \in {"retryApplication", "reregister"} : RegistrationFails(kind)
      BY <2>3
    <3>2. loop' \in {loop, "quit"}
      BY <2>1, <3>1, RegistrationFailsTypes
    <3>3. Arm(kind) \/ timers' = timers
      BY <3>1 DEF RegistrationFails
    <3>. QED
      BY <1>3, <1>4, <2>1, <3>2, <3>3
  <2>. QED
    BY <1>6, <2>2, <2>3 DEF OnGattRegistered, OnAdvertisementRegistered
<1>7. ASSUME OnNameOwnerChanged \/ OnAdvertisementReleased \/ OnAdvertisementReregistered
      PROVE RefreshInv'
  <2>1. loop = "running" /\ loop' = loop /\ refreshPending' = refreshPending
    BY <1>7 DEF OnNameOwnerChanged, OnAdvertisementReleased, OnAdvertisementReregistered,
      Handles, Dispatching
  <2>2. \E kind \in {"retryApplication", "reregister"} : Arm(kind) \/ timers' = timers
    BY <1>7 DEF OnNameOwnerChanged, SetupBluez, OnAdvertisementReleased, OnAdvertisementReregistered
  <2>. QED
    BY <1>3, <1>4, <2>1, <2>2
<1>8. ASSUME OnCccdOff \/ OnStopNotify PROVE RefreshInv'
  BY <1>0, <1>8 DEF OnCccdOff, OnStopNotify, OnClientDisconnected, Arm, Handles, Dispatching
<1>9. ASSUME OnRefreshUnregistered \/ OnGattUnregistered PROVE RefreshInv'
  BY <1>9 DEF OnRefreshUnregistered, OnGattUnregistered
<1>10. ASSUME OnAdvertisementUnregistered PROVE RefreshInv'
  <2>1. loop = "running" /\ loop' \in {loop, "quit"}
    BY <1>10, RestType, UnregisterGattTypes DEF OnAdvertisementUnregistered, Handles, Dispatching
  <2>. QED
    BY <1>4, <1>10, <2>1 DEF OnAdvertisementUnregistered
<1>11. ASSUME RetryRegisterApplication \/ ReregisterTimer PROVE RefreshInv'
  <2>1. loop = "running" /\ loop' = loop /\ refreshPending' = refreshPending
    BY <1>11 DEF RetryRegisterApplication, ReregisterTimer, Fires
  <2>2. \E kind \in {"retryApplication", "reregister"} : timers' = timers \/ timers' = Fired(kind)
    BY <1>11 DEF RetryRegisterApplication, ReregisterTimer
  <2>. QED
    BY <1>3, <1>4, <2>1, <2>2
<1>12. ASSUME RefreshAdvertisement PROVE RefreshInv'
  <2>1. /\ loop = "running" /\ loop' = loop /\ timers["refresh"] > 0
        /\ timers' = [timers EXCEPT !["refresh"] = @ - 1] /\ refreshPending' = FALSE
    BY <1>12 DEF RefreshAdvertisement, Fires, Fired
  <2>. QED
    BY <1>0, <2>1
<1>13. ASSUME BluezStep \/ ReleasesAdvertisement \/ Crash \/ Restart \/ AppStep \/ UNCHANGED vars
       PROVE RefreshInv'
  <2>1. UNCHANGED <<loop, refreshPending, timers>>
    BY <1>13 DEF BluezStep, Registers, Refuses, Unregisters, Answer, ReleasesAdvertisement,
      Crash, Restart, AppStep, AppSubscribes, AppUnsubscribes, AppDisconnects, vars
  <2>. QED
    BY <2>1
<1>. QED
  BY <1>1, <1>2, <1>5, <1>6, <1>7, <1>8, <1>9, <1>10, <1>11, <1>12, <1>13
  DEF Next, DispatchStep, TimerStep

(* The pending flag stands for exactly one refresh timer. *)
THEOREM OneRefreshTimer == Spec => []OneRefresh
<1>1. Init => RefreshInv
  BY DEF Init, RefreshInv, OneRefresh
<1>2. RefreshInv => OneRefresh
  BY DEF RefreshInv
<1>. QED
  BY TypeCorrect, NextRefresh, <1>1, <1>2, PTL DEF Spec

-----------------------------------------------------------------------------
(* What each helper adds to the calls. *)
Adds(call) == Len(calls') > Len(calls) => calls'[Len(calls')] = call

LEMMA SendAdds ==
  ASSUME TypeOK, NEW call \in Calls, NEW q, Send(call, q) \/ SendNothing(q)
  PROVE  Adds(call)
<1>1. calls \in Seq(Calls) /\ Len(calls) \in Nat
  BY QueueType, LenProperties
<1>2. CASE calls' = calls
  BY <1>1, <1>2 DEF Adds
<1>3. CASE calls' = Append(calls, call)
  BY <1>1, <1>3, AppendProperties DEF Adds
<1>. QED
  BY <1>2, <1>3 DEF Send, SendNothing

(* Nothing is registered any more once a shutdown was requested. *)
StartsRegistration == Len(calls') > Len(calls) /\ calls'[Len(calls')] \in Registrations

LEMMA BeginShutdownStartsNone ==
  ASSUME TypeOK, NEW q, BeginShutdown(q) \/ UnregisterGatt(q)
  PROVE  ~StartsRegistration
<1>1. Adds("UnregisterAdvertisement") \/ Adds("UnregisterApplication")
  BY CallNames, SendAdds DEF BeginShutdown, UnregisterGatt
<1>. QED
  BY <1>1 DEF Adds, StartsRegistration, Registrations

LEMMA SendNothingStartsNone == ASSUME TypeOK, NEW q, SendNothing(q) PROVE ~StartsRegistration
BY QueueType, LenProperties DEF SendNothing, StartsRegistration

LEMMA NoneAfterShutdown ==
  ASSUME TypeOK, shutdown, loop # "new", [Next]_vars
  PROVE  StartsRegistration => Handles("RegisterApplication")
                                 /\ calls'[Len(calls')] = "RegisterAdvertisement"
<1>. USE SendNothingStartsNone
<1>1. CASE OnGattRegistered
  <2>1. Head(queue).ok \/ ~StartsRegistration
    BY <1>1, BeginShutdownStartsNone DEF OnGattRegistered, RegistrationFails
  <2>2. Head(queue).ok => Adds("RegisterAdvertisement")
    BY <1>1, CallNames, SendAdds DEF OnGattRegistered
  <2>. QED
    BY <1>1, <2>1, <2>2 DEF OnGattRegistered, Adds, StartsRegistration
<1>2. CASE OnAdvertisementRegistered
  BY <1>2, BeginShutdownStartsNone DEF OnAdvertisementRegistered, RegistrationFails
<1>3. CASE OnNameOwnerChanged \/ OnAdvertisementReleased \/ OnAdvertisementReregistered
           \/ OnCccdOff \/ OnStopNotify \/ OnGattUnregistered
  BY <1>3 DEF OnNameOwnerChanged, OnAdvertisementReleased, OnAdvertisementReregistered,
    OnCccdOff, OnStopNotify, OnGattUnregistered
<1>4. CASE OnRefreshUnregistered \/ ReregisterTimer \/ RefreshAdvertisement
           \/ RetryRegisterApplication
  BY <1>4 DEF OnRefreshUnregistered, ReregisterTimer, RefreshAdvertisement, Reregister,
    RetryRegisterApplication
<1>5. CASE OnAdvertisementUnregistered \/ ShutdownIdle
  BY <1>5, BeginShutdownStartsNone DEF OnAdvertisementUnregistered, ShutdownIdle
<1>6. CASE StartReturns \/ RequestStop \/ ReleasesAdvertisement \/ Restart \/ AppStep
           \/ UNCHANGED vars
  <2>1. calls' = calls
    BY <1>6 DEF StartReturns, RequestStop, ReleasesAdvertisement, Restart, AppStep, AppSubscribes,
      AppUnsubscribes, AppDisconnects, vars
  <2>. QED
    BY <2>1, QueueType, LenProperties DEF StartsRegistration
<1>7. CASE RunEnds \/ Crash
  <2>1. calls' = <<>>
    BY <1>7 DEF RunEnds, Crash
  <2>2. Len(calls') = 0 /\ Len(calls) \in Nat
    BY <2>1, QueueType, LenProperties
  <2>. QED
    BY <2>2 DEF StartsRegistration
<1>8. CASE BluezStep
  <2>1. calls # <<>> /\ calls' = Tail(calls)
    BY <1>8 DEF BluezStep, Registers, Refuses, Unregisters, Answer
  <2>2. Len(calls') = Len(calls) - 1 /\ Len(calls) \in Nat
    BY <2>1, QueueType, LenProperties, HeadTailProperties
  <2>. QED
    BY <2>2 DEF StartsRegistration
<1>9. ~Run
  BY DEF Run
<1>. QED
  BY <1>1, <1>2, <1>3, <1>4, <1>5, <1>6, <1>7, <1>8, <1>9 DEF Next, DispatchStep, TimerStep

(* Before the loop runs nobody can ask for a shutdown. *)
NewInv == loop = "new" => ~shutdown

LEMMA NextNew == TypeOK /\ NewInv /\ [Next]_vars => NewInv'
<1>. SUFFICES ASSUME TypeOK, NewInv, [Next]_vars PROVE NewInv'
  OBVIOUS
<1>1. ASSUME loop = "running", loop' \in {loop, "quit"} PROVE NewInv'
  BY <1>1 DEF NewInv
<1>2. ASSUME UNCHANGED <<loop, shutdown>> PROVE NewInv'
  BY <1>2 DEF NewInv
<1>3. CASE Run \/ RunEnds
  BY <1>3 DEF Run, RunEnds, NewInv
<1>4. CASE ShutdownIdle
  BY <1>1, <1>4, QueueType, BeginShutdownTypes DEF ShutdownIdle
<1>5. CASE OnGattRegistered \/ OnAdvertisementRegistered
  <2>1. Dispatching
    BY <1>5 DEF OnGattRegistered, OnAdvertisementRegistered, Handles
  <2>2. loop' = loop \/ RegistrationFails("retryApplication") \/ RegistrationFails("reregister")
    BY <1>5 DEF OnGattRegistered, OnAdvertisementRegistered
  <2>3. loop' \in {loop, "quit"}
    BY <2>1, <2>2, RegistrationFailsTypes
  <2>. QED
    BY <1>1, <2>1, <2>3 DEF Dispatching
<1>6. CASE OnAdvertisementUnregistered
  <2>1. loop = "running" /\ loop' \in {loop, "quit"}
    BY <1>6, RestType, UnregisterGattTypes DEF OnAdvertisementUnregistered, Handles, Dispatching
  <2>. QED
    BY <1>1, <2>1
<1>7. CASE OnGattUnregistered
  BY <1>7 DEF OnGattUnregistered, NewInv
<1>8. CASE OnNameOwnerChanged \/ OnAdvertisementReleased \/ OnAdvertisementReregistered
           \/ OnCccdOff \/ OnStopNotify \/ OnRefreshUnregistered \/ TimerStep
  BY <1>2, <1>8 DEF OnNameOwnerChanged, OnAdvertisementReleased, OnAdvertisementReregistered,
    OnCccdOff, OnStopNotify, OnRefreshUnregistered, TimerStep, RetryRegisterApplication,
    ReregisterTimer, RefreshAdvertisement
<1>9. CASE StartReturns \/ RequestStop \/ BluezStep \/ ReleasesAdvertisement \/ Crash \/ Restart
           \/ AppStep \/ UNCHANGED vars
  BY <1>2, <1>9 DEF StartReturns, RequestStop, BluezStep, Registers, Refuses, Unregisters, Answer,
    ReleasesAdvertisement, Crash, Restart, AppStep, AppSubscribes, AppUnsubscribes,
    AppDisconnects, vars
<1>. QED
  BY <1>3, <1>4, <1>5, <1>6, <1>7, <1>8, <1>9 DEF Next, DispatchStep

(* After a shutdown request only a registration under way is carried on. *)
THEOREM ShutdownRegistersNothing == Spec => NothingAfterShutdown
<1>1. TypeOK /\ NewInv /\ [Next]_vars
        => [shutdown /\ Len(calls') > Len(calls) /\ calls'[Len(calls')] \in Registrations
              => Handles("RegisterApplication")
                   /\ calls'[Len(calls')] = "RegisterAdvertisement"]_vars
  BY NoneAfterShutdown DEF StartsRegistration, NewInv
<1>2. Init => NewInv
  BY DEF Init, NewInv
<1>. QED
  BY TypeCorrect, NextNew, <1>1, <1>2, PTL DEF Spec, NothingAfterShutdown
-----------------------------------------------------------------------------
(* A sequence after a step: the first s elements of the old one are taken off, *)
(* and what is new in it is in P.                                            *)
Follows(new, old, s, P) ==
    \A j \in 1..Len(new) : IF j + s <= Len(old) THEN new[j] = old[j + s] ELSE new[j] \in P

LEMMA SameFollows == ASSUME NEW S, NEW q \in Seq(S), NEW P PROVE Follows(q, q, 0, P)
BY LenProperties DEF Follows

LEMMA TailFollows ==
  ASSUME NEW S, NEW q \in Seq(S), q # <<>>, NEW P
  PROVE  Follows(Tail(q), q, 1, P) /\ Len(q) <= Len(Tail(q)) + 1
BY LenProperties, HeadTailProperties DEF Follows

LEMMA AppendFollows ==
  ASSUME NEW S, NEW old \in Seq(S), NEW new \in Seq(S), NEW s \in Nat, NEW P, NEW r \in S, r \in P,
         Len(old) <= Len(new) + s, Follows(new, old, s, P)
  PROVE  Follows(Append(new, r), old, s, P)
<1>1. /\ Append(new, r) \in Seq(S) /\ Len(Append(new, r)) = Len(new) + 1
      /\ Append(new, r)[Len(new) + 1] = r
      /\ \A i \in 1..Len(new) : Append(new, r)[i] = new[i]
  BY AppendProperties
<1>2. Len(old) \in Nat /\ Len(new) \in Nat
  BY LenProperties
<1>. SUFFICES ASSUME NEW j \in 1..Len(new) + 1
              PROVE  IF j + s <= Len(old) THEN Append(new, r)[j] = old[j + s] ELSE Append(new, r)[j] \in P
  BY <1>1 DEF Follows
<1>3. CASE j = Len(new) + 1
  BY <1>1, <1>2, <1>3
<1>4. CASE j # Len(new) + 1
  <2>1. j \in 1..Len(new)
    BY <1>2, <1>4
  <2>. QED
    BY <1>1, <2>1 DEF Follows
<1>. QED
  BY <1>3, <1>4

LEMMA ConcatFollows ==
  ASSUME NEW S, NEW q \in Seq(S), NEW P \in SUBSET S, NEW e \in Seq(P)
  PROVE  Follows(q \o e, q, 0, P)
<1>1. e \in Seq(S) /\ \A i \in 1..Len(e) : e[i] \in P
  BY ElementOfSeq
<1>2. /\ Len(q) \in Nat /\ Len(e) \in Nat /\ Len(q \o e) = Len(q) + Len(e)
      /\ \A i \in 1..Len(q) + Len(e) : (q \o e)[i] = IF i <= Len(q) THEN q[i] ELSE e[i - Len(q)]
  BY <1>1, LenProperties, ConcatProperties
<1>. QED
  BY <1>1, <1>2 DEF Follows

LEMMA OneInSeq == ASSUME NEW S, NEW a \in S PROVE <<a>> \in Seq(S)
OBVIOUS

(* One event more, or two. *)
LEMMA ConcatOne ==
  ASSUME NEW S, NEW q \in Seq(S), NEW a \in S
  PROVE  /\ Len(q) \in Nat
         /\ Len(q \o <<a>>) = Len(q) + 1 /\ (q \o <<a>>)[Len(q) + 1] = a
         /\ \A k \in 1..Len(q) : (q \o <<a>>)[k] = q[k]
<1>1. Len(q) \in Nat /\ <<a>> \in Seq(S) /\ Len(<<a>>) = 1
  BY LenProperties, OneInSeq
<1>2. /\ Len(q \o <<a>>) = Len(q) + 1
      /\ \A i \in 1..Len(q) + 1 : (q \o <<a>>)[i] = IF i <= Len(q) THEN q[i] ELSE <<a>>[i - Len(q)]
  BY <1>1, ConcatProperties
<1>3. (Len(q) + 1) - Len(q) = 1 /\ ~(Len(q) + 1 <= Len(q))
  BY <1>1
<1>. QED
  BY <1>1, <1>2, <1>3

LEMMA ConcatTwo ==
  ASSUME NEW S, NEW q \in Seq(S), NEW a \in S, NEW b \in S
  PROVE  /\ Len(q) \in Nat
         /\ Len(q \o <<a, b>>) = Len(q) + 2
         /\ (q \o <<a, b>>)[Len(q) + 1] = a /\ (q \o <<a, b>>)[Len(q) + 2] = b
         /\ \A k \in 1..Len(q) : (q \o <<a, b>>)[k] = q[k]
<1>1. Len(q) \in Nat /\ <<a, b>> \in Seq(S) /\ Len(<<a, b>>) = 2
  BY LenProperties, PairInSeq
<1>2. /\ Len(q \o <<a, b>>) = Len(q) + 2
      /\ \A i \in 1..Len(q) + 2 :
           (q \o <<a, b>>)[i] = IF i <= Len(q) THEN q[i] ELSE <<a, b>>[i - Len(q)]
  BY <1>1, ConcatProperties
<1>3. /\ (Len(q) + 1) - Len(q) = 1 /\ ~(Len(q) + 1 <= Len(q))
      /\ (Len(q) + 2) - Len(q) = 2 /\ ~(Len(q) + 2 <= Len(q))
  BY <1>1
<1>. QED
  BY <1>1, <1>2, <1>3

(* The Release() that a refresh provokes.  A reply that tells of a registered    *)
(* advertisement:                                                            *)
Advertises(e) == e.ok /\ e.what \in {"RegisterAdvertisement", "ReregisterAdvertisement"}

PlainEvents == {e \in Event : e.what # "OwnRelease" /\ ~Advertises(e)}
OtherCalls == Calls \ {"UnregisterForRefresh", "UnregisterAdvertisement"}

(* From the refresh's call, made with nothing else under way, to the Release()   *)
(* it provokes the advertisement counts as not registered, and no reply that    *)
(* would register it comes in between.                                       *)
OwnReleaseInv ==
    prompt /\ ~shutdown =>
        /\ \A i \in 1..Len(calls) : calls[i] # "UnregisterAdvertisement"
        /\ \A i \in 1..Len(calls) : calls[i] = "UnregisterForRefresh" =>
              i = 1 /\ ~advRegistered /\ \A k \in 1..Len(queue) : ~Advertises(queue[k])
        /\ \A j \in 1..Len(queue) : queue[j].what = "OwnRelease" =>
              ~advRegistered /\ \A k \in 1..j - 1 : ~Advertises(queue[k])

LEMMA FollowingKeeps ==
  ASSUME TypeOK, TypeOK', OwnReleaseInv, prompt' = prompt, shutdown => shutdown',
         NEW s \in {0, 1}, NEW t \in {0, 1},
         Follows(queue', queue, s, PlainEvents), Follows(calls', calls, t, OtherCalls),
         advRegistered' => advRegistered \/ (s = 1 /\ queue # <<>> /\ Advertises(Head(queue)))
  PROVE  OwnReleaseInv'
<1>. SUFFICES ASSUME prompt, ~shutdown PROVE OwnReleaseInv'
  BY DEF OwnReleaseInv, TypeOK, ServerTypes
<1>1. /\ Len(queue) \in Nat /\ Len(calls) \in Nat /\ Len(queue') \in Nat /\ Len(calls') \in Nat
      /\ queue \in Seq(Event)
  BY QueueType, LenProperties DEF TypeOK, BusTypes
<1>2. \A k \in 1..Len(queue') : Advertises(queue'[k]) => k + s \in 1..Len(queue) /\ Advertises(queue[k + s])
  BY <1>1 DEF Follows, PlainEvents
<1>3. queue # <<>> => Head(queue) = queue[1] /\ Len(queue) > 0
  BY <1>1, EmptySeq
<1>4. ASSUME NEW i \in 1..Len(calls') PROVE calls'[i] # "UnregisterAdvertisement"
  BY <1>1 DEF Follows, OtherCalls, OwnReleaseInv
<1>5. ASSUME NEW i \in 1..Len(calls'), calls'[i] = "UnregisterForRefresh"
      PROVE  i = 1 /\ ~advRegistered' /\ \A k \in 1..Len(queue') : ~Advertises(queue'[k])
  <2>1. i + t \in 1..Len(calls) /\ calls[i + t] = "UnregisterForRefresh"
    BY <1>1, <1>5 DEF Follows, OtherCalls
  <2>2. i + t = 1 /\ ~advRegistered /\ \A k \in 1..Len(queue) : ~Advertises(queue[k])
    BY <2>1 DEF OwnReleaseInv
  <2>3. ~advRegistered'
    BY <1>1, <1>3, <2>2
  <2>. QED
    BY <1>1, <1>2, <2>2, <2>3
<1>6. ASSUME NEW j \in 1..Len(queue'), queue'[j].what = "OwnRelease"
      PROVE  ~advRegistered' /\ \A k \in 1..j - 1 : ~Advertises(queue'[k])
  <2>1. j + s \in 1..Len(queue) /\ queue[j + s].what = "OwnRelease"
    BY <1>1, <1>6 DEF Follows, PlainEvents
  <2>2. ~advRegistered /\ \A k \in 1..(j + s) - 1 : ~Advertises(queue[k])
    BY <2>1 DEF OwnReleaseInv
  <2>3. ~advRegistered'
    BY <1>1, <1>3, <2>1, <2>2
  <2>. QED
    BY <1>1, <1>2, <2>1, <2>2, <2>3
<1>. QED
  BY <1>4, <1>5, <1>6 DEF OwnReleaseInv

(* What the handlers' calls do to both sequences. *)
LEMMA SendFollows ==
  ASSUME TypeOK, NEW call \in OtherCalls, NEW q \in Seq(Event), NEW s \in {0, 1},
         Send(call, q) \/ SendNothing(q),
         (q = queue /\ s = 0) \/ (Dispatching /\ q = Rest /\ s = 1)
  PROVE  Follows(queue', queue, s, PlainEvents) /\ Follows(calls', calls, 0, OtherCalls)
<1>1. queue \in Seq(Event) /\ calls \in Seq(Calls) /\ Len(calls) \in Nat /\ Len(queue) \in Nat
  BY QueueType, LenProperties
<1>2. Reply(call, FALSE) \in Event /\ Reply(call, FALSE) \in PlainEvents
  BY ReplyIsEvent DEF Reply, PlainEvents, Advertises, OtherCalls, Calls, Registrations, Unregistrations
<1>3. Follows(q, queue, s, PlainEvents) /\ Len(queue) <= Len(q) + s
  <2>1. CASE q = queue /\ s = 0
    BY <1>1, <2>1, SameFollows
  <2>2. CASE Dispatching /\ q = Rest /\ s = 1
    BY <1>1, <2>2, TailFollows DEF Dispatching, Rest
  <2>. QED
    BY <2>1, <2>2
<1>4. Follows(Append(q, Reply(call, FALSE)), queue, s, PlainEvents)
  BY <1>1, <1>2, <1>3, AppendFollows
<1>5. Follows(calls, calls, 0, OtherCalls)
  BY <1>1, SameFollows
<1>6. Follows(Append(calls, call), calls, 0, OtherCalls)
  BY <1>1, <1>5, AppendFollows DEF OtherCalls
<1>. QED
  BY <1>3, <1>4, <1>5, <1>6 DEF Send, SendNothing

LEMMA OtherCallNames ==
  /\ {"RegisterApplication", "RegisterAdvertisement", "ReregisterAdvertisement"} \subseteq OtherCalls
  /\ "UnregisterApplication" \in OtherCalls
BY DEF OtherCalls, Calls, Registrations, Unregistrations

(* Once the shutdown is requested nothing is claimed. *)
LEMMA ShutdownKeeps == shutdown' => OwnReleaseInv'
BY DEF OwnReleaseInv

LEMMA BeginShutdownSets == ASSUME NEW q, BeginShutdown(q), shutdown \in BOOLEAN PROVE shutdown'
BY DEF BeginShutdown
LEMMA NextOwnRelease == TypeOK /\ TypeOK' /\ OwnReleaseInv /\ [Next]_vars => OwnReleaseInv'
<1>. SUFFICES ASSUME TypeOK, TypeOK', OwnReleaseInv, [Next]_vars PROVE OwnReleaseInv'
  OBVIOUS
<1>0. /\ queue \in Seq(Event) /\ calls \in Seq(Calls) /\ shutdown \in BOOLEAN
      /\ Dispatching => Rest \in Seq(Event)
      /\ Follows(queue, queue, 0, PlainEvents) /\ Follows(calls, calls, 0, OtherCalls)
  BY QueueType, RestType, SameFollows DEF TypeOK, ServerTypes
<1>. USE OtherCallNames
<1>1. ASSUME NEW call \in OtherCalls, Send(call, queue) \/ SendNothing(queue),
             UNCHANGED <<prompt, shutdown>>, advRegistered' => advRegistered
      PROVE  OwnReleaseInv'
  <2>1. Follows(queue', queue, 0, PlainEvents) /\ Follows(calls', calls, 0, OtherCalls)
    BY <1>0, <1>1, SendFollows
  <2>. QED
    BY <1>1, <2>1, FollowingKeeps
<1>2. ASSUME Dispatching, NEW call \in OtherCalls, Send(call, Rest) \/ SendNothing(Rest),
             UNCHANGED <<prompt, shutdown>>,
             advRegistered' => advRegistered \/ Advertises(Head(queue))
      PROVE  OwnReleaseInv'
  <2>1. Follows(queue', queue, 1, PlainEvents) /\ Follows(calls', calls, 0, OtherCalls)
    BY <1>0, <1>2, SendFollows
  <2>. QED
    BY <1>2, <2>1, FollowingKeeps DEF Dispatching
<1>3. CASE Run
  BY <1>1, <1>3 DEF Run
<1>4. CASE StartReturns \/ RequestStop \/ UNCHANGED vars
  <2>1. UNCHANGED <<prompt, shutdown, advRegistered, queue, calls>>
    BY <1>4 DEF StartReturns, RequestStop, vars
  <2>. QED
    BY <2>1 DEF OwnReleaseInv
<1>5. CASE ShutdownIdle
  BY <1>0, <1>5, BeginShutdownSets, ShutdownKeeps DEF ShutdownIdle
<1>6. CASE RunEnds
  BY <1>6 DEF RunEnds, OwnReleaseInv
<1>7. CASE OnGattRegistered
  <2>1. CASE Head(queue).ok
    BY <1>2, <1>7, <2>1 DEF OnGattRegistered, Handles
  <2>2. CASE ~Head(queue).ok /\ ready
    BY <1>2, <1>7, <2>2 DEF OnGattRegistered, RegistrationFails, Handles
  <2>3. CASE ~Head(queue).ok /\ ~ready
    BY <1>0, <1>7, <2>3, BeginShutdownSets, ShutdownKeeps DEF OnGattRegistered, RegistrationFails
  <2>. QED
    BY <2>1, <2>2, <2>3
<1>8. CASE OnAdvertisementRegistered
  <2>1. CASE Head(queue).ok
    <3>1. Advertises(Head(queue))
      BY <1>8, <2>1 DEF OnAdvertisementRegistered, Handles, Advertises
    <3>. QED
      BY <1>2, <1>8, <2>1, <3>1 DEF OnAdvertisementRegistered, Handles
  <2>2. CASE ~Head(queue).ok /\ ready
    BY <1>2, <1>8, <2>2 DEF OnAdvertisementRegistered, RegistrationFails, Handles
  <2>3. CASE ~Head(queue).ok /\ ~ready
    BY <1>0, <1>8, <2>3, BeginShutdownSets, ShutdownKeeps
    DEF OnAdvertisementRegistered, RegistrationFails
  <2>. QED
    BY <2>1, <2>2, <2>3
<1>9. CASE OnAdvertisementReregistered
  <2>1. Head(queue).ok => Advertises(Head(queue))
    BY <1>9 DEF OnAdvertisementReregistered, Handles, Advertises
  <2>. QED
    BY <1>2, <1>9, <2>1 DEF OnAdvertisementReregistered, Handles
<1>10. CASE OnNameOwnerChanged
  BY <1>2, <1>10 DEF OnNameOwnerChanged, SetupBluez, Handles
<1>11. CASE OnAdvertisementReleased \/ OnCccdOff \/ OnStopNotify \/ OnGattUnregistered
  BY <1>2, <1>11 DEF OnAdvertisementReleased, OnCccdOff, OnStopNotify, OnGattUnregistered, Handles
<1>12. CASE OnRefreshUnregistered \/ OnAdvertisementUnregistered
  BY <1>2, <1>12 DEF OnRefreshUnregistered, OnAdvertisementUnregistered, Reregister, UnregisterGatt, Handles
<1>13. CASE RetryRegisterApplication \/ ReregisterTimer
  BY <1>1, <1>13 DEF RetryRegisterApplication, ReregisterTimer, Reregister
<1>14. CASE RefreshAdvertisement
  <2>1. CASE shutdown \/ ~gattRegistered \/ ~advRegistered
    BY <1>1, <1>14, <2>1 DEF RefreshAdvertisement, Reregister
  <2>2. CASE prompt /\ Send("UnregisterForRefresh", queue) /\ ~advRegistered'
    <3>1. calls = <<>> /\ queue = <<>> /\ UNCHANGED <<prompt, shutdown>>
      BY <1>14, <2>2 DEF RefreshAdvertisement, Fires
    <3>2. CASE up
      <4>1. calls' = <<"UnregisterForRefresh">> /\ queue' = <<>>
        BY <2>2, <3>1, <3>2 DEF Send
      <4>. QED
        BY <2>2, <4>1 DEF OwnReleaseInv
    <3>3. CASE ~up
      <4>1. calls' = <<>> /\ queue' = Append(queue, Reply("UnregisterForRefresh", FALSE))
        BY <2>2, <3>1, <3>3 DEF Send
      <4>2. queue' = <<Reply("UnregisterForRefresh", FALSE)>>
        BY <3>1, <4>1
      <4>3. Len(calls') = 0 /\ Len(queue') = 1 /\ queue'[1].what # "OwnRelease"
        BY <4>1, <4>2 DEF Reply
      <4>. QED
        BY <4>3 DEF OwnReleaseInv
    <3>. QED
      BY <3>2, <3>3
  <2>3. CASE ~prompt
    BY <1>14, <2>3 DEF RefreshAdvertisement, OwnReleaseInv
  <2>. QED
    BY <1>14, <2>1, <2>2, <2>3 DEF RefreshAdvertisement
(* What happens outside the server: it delivers plain events, except where      *)
(* bluetoothd answers.                                                       *)
<1>15. ASSUME NEW e \in Seq(PlainEvents), Deliver(e),
              NEW t \in {0, 1}, Follows(calls', calls, t, OtherCalls),
              UNCHANGED <<prompt, shutdown, advRegistered>>
       PROVE  OwnReleaseInv'
  <2>1. Follows(queue', queue, 0, PlainEvents)
    BY <1>0, <1>15, ConcatFollows DEF Deliver, PlainEvents
  <2>. QED
    BY <1>15, <2>1, FollowingKeeps
<1>16. ASSUME NEW what \in Signals \ {"OwnRelease"} PROVE Signal(what) \in PlainEvents
  BY SignalIsEvent DEF PlainEvents, Advertises, Signal, Signals
<1>17. CASE ReleasesAdvertisement \/ AppUnsubscribes
  <2>1. PICK what \in {"Released", "CccdOff"} : Deliver(<<Signal(what)>>)
    BY <1>17 DEF ReleasesAdvertisement, AppUnsubscribes
  <2>2. <<Signal(what)>> \in Seq(PlainEvents)
    BY <1>16, OneInSeq DEF Signals
  <2>3. UNCHANGED <<prompt, shutdown, advRegistered, calls>>
    BY <1>17 DEF ReleasesAdvertisement, AppUnsubscribes
  <2>. QED
    BY <1>0, <1>15, <2>1, <2>2, <2>3
<1>18. CASE Restart \/ AppSubscribes
  <2>1. UNCHANGED <<prompt, shutdown, advRegistered, calls>>
    BY <1>18 DEF Restart, AppSubscribes
  <2>2. CASE queue' = queue
    BY <2>1, <2>2 DEF OwnReleaseInv
  <2>3. CASE Deliver(<<Signal("Appeared")>>)
    <3>1. <<Signal("Appeared")>> \in Seq(PlainEvents)
      BY <1>16, OneInSeq DEF Signals
    <3>. QED
      BY <1>0, <1>15, <2>1, <2>3, <3>1
  <2>. QED
    BY <1>18, <2>2, <2>3 DEF Restart, AppSubscribes
<1>19. CASE AppDisconnects
  <2>1. subs \in Nat /\ Signal("StopNotify") \in PlainEvents
    BY <1>16 DEF TypeOK, BluezTypes, Signals
  <2>2. [i \in 1..subs |-> Signal("StopNotify")] \in Seq(PlainEvents)
    BY <2>1, FunctionIsSeq
  <2>3. UNCHANGED <<prompt, shutdown, advRegistered, calls>>
    BY <1>19 DEF AppDisconnects
  <2>. QED
    BY <1>0, <1>15, <1>19, <2>2, <2>3 DEF AppDisconnects
<1>20. CASE Crash
  <2>1. calls' = <<>> /\ UNCHANGED <<prompt, shutdown, advRegistered>>
    BY <1>20 DEF Crash
  <2>2. Follows(calls', calls, 0, OtherCalls)
    BY <2>1 DEF Follows
  <2>3. CASE queue' = queue
    BY <1>0, <2>1, <2>2, <2>3, FollowingKeeps
  <2>4. CASE Deliver(<<Signal("Vanished")>> \o [i \in 1..Len(calls) |-> Reply(calls[i], FALSE)])
    <3>1. Signal("Vanished") \in PlainEvents
      BY <1>16 DEF Signals
    <3>2. \A i \in 1..Len(calls) : Reply(calls[i], FALSE) \in PlainEvents
      <4>. SUFFICES ASSUME NEW i \in 1..Len(calls) PROVE Reply(calls[i], FALSE) \in PlainEvents
        OBVIOUS
      <4>1. calls[i] \in Calls
        BY <1>0, ElementOfSeq
      <4>2. calls[i] # "OwnRelease"
        BY <4>1 DEF Calls, Registrations, Unregistrations
      <4>. QED
        BY <4>1, <4>2, ReplyIsEvent DEF Reply, PlainEvents, Advertises
    <3>3. Len(calls) \in Nat
      BY <1>0, LenProperties
    <3>4. [i \in 1..Len(calls) |-> Reply(calls[i], FALSE)] \in Seq(PlainEvents)
      BY <3>2, <3>3, FunctionIsSeq
    <3>5. <<Signal("Vanished")>> \o [i \in 1..Len(calls) |-> Reply(calls[i], FALSE)] \in Seq(PlainEvents)
      BY <3>1, <3>4, OneInSeq, ConcatProperties
    <3>. QED
      BY <1>15, <2>1, <2>2, <2>4, <3>5
  <2>. QED
    BY <1>20, <2>3, <2>4 DEF Crash
<1>21. CASE BluezStep
  <2>1. calls # <<>> /\ calls' = Tail(calls) /\ UNCHANGED <<prompt, shutdown, advRegistered>>
    BY <1>21 DEF BluezStep, Registers, Refuses, Unregisters, Answer
  <2>2. /\ Follows(calls', calls, 1, OtherCalls)
        /\ Len(calls) \in Nat /\ Len(calls) > 0
        /\ Head(calls) = calls[1] /\ Head(calls) \in Calls
        /\ Len(calls') = Len(calls) - 1 /\ \A i \in 1..Len(calls') : calls'[i] = calls[i + 1]
    BY <1>0, <2>1, TailFollows, LenProperties, EmptySeq, HeadTailProperties
  <2>3. ASSUME NEW ok \in BOOLEAN, Deliver(<<Reply(Head(calls), ok)>>),
               ok => Head(calls) \notin {"RegisterAdvertisement", "ReregisterAdvertisement"}
        PROVE  OwnReleaseInv'
    <3>1. Reply(Head(calls), ok) \in Event
      BY <2>2, ReplyIsEvent
    <3>2. Reply(Head(calls), ok) \in PlainEvents
      BY <2>2, <2>3, <3>1 DEF PlainEvents, Advertises, Reply, Calls, Registrations, Unregistrations
    <3>. QED
      BY <1>15, <2>1, <2>2, <2>3, <3>2, OneInSeq
  <2>4. ASSUME prompt, ~shutdown
        PROVE  \A i \in 1..Len(calls') : calls'[i] \notin {"UnregisterForRefresh", "UnregisterAdvertisement"}
    BY <2>2, <2>4 DEF OwnReleaseInv
  <2>5. CASE Registers
    <3>1. Deliver(<<Reply(Head(calls), TRUE)>>) /\ Head(calls) \in Registrations
      BY <2>5 DEF Registers
    <3>. SUFFICES ASSUME prompt, ~shutdown PROVE OwnReleaseInv'
      BY <2>1 DEF OwnReleaseInv
    <3>2. /\ Len(queue') = Len(queue) + 1 /\ Len(queue) \in Nat
          /\ \A k \in 1..Len(queue) : queue'[k] = queue[k]
          /\ queue'[Len(queue) + 1] = Reply(Head(calls), TRUE)
      <4>1. queue' = queue \o <<Reply(Head(calls), TRUE)>>
        BY <3>1 DEF Deliver
      <4>2. Reply(Head(calls), TRUE) \in Event
        BY <2>2, ReplyIsEvent
      <4>. QED
        BY <1>0, <4>1, <4>2, ConcatOne
    <3>3. Reply(Head(calls), TRUE).what # "OwnRelease"
      BY <3>1 DEF Reply, Registrations
    <3>4. ASSUME NEW j \in 1..Len(queue'), queue'[j].what = "OwnRelease"
          PROVE  ~advRegistered' /\ \A k \in 1..j - 1 : ~Advertises(queue'[k])
      <4>1. j \in 1..Len(queue) /\ queue[j].what = "OwnRelease"
        <5>1. j = Len(queue) + 1 => queue'[j] = Reply(Head(calls), TRUE)
          BY <3>2
        <5>2. j # Len(queue) + 1
          BY <3>3, <3>4, <5>1
        <5>3. j \in 1..Len(queue)
          BY <3>2, <5>2
        <5>. QED
          BY <3>2, <3>4, <5>3
      <4>2. ~advRegistered /\ \A k \in 1..j - 1 : ~Advertises(queue[k])
        BY <4>1 DEF OwnReleaseInv
      <4>. QED
        BY <2>1, <3>2, <4>1, <4>2
    <3>. QED
      BY <2>4, <3>4 DEF OwnReleaseInv
  <2>6. CASE Refuses
    BY <2>3, <2>6 DEF Refuses
  <2>7. CASE Unregisters
    <3>1. Head(calls) \in Unregistrations
      BY <2>7 DEF Unregisters
    <3>2. CASE \E ok \in BOOLEAN : Deliver(<<Reply(Head(calls), ok)>>)
      BY <2>3, <3>1, <3>2 DEF Unregistrations
    <3>3. CASE /\ Deliver(<<Signal("OwnRelease"), Reply(Head(calls), TRUE)>>)
               /\ Head(calls) # "UnregisterApplication"
      <4>. SUFFICES ASSUME prompt, ~shutdown PROVE OwnReleaseInv'
        BY <2>1 DEF OwnReleaseInv
      <4>1. Head(calls) = "UnregisterForRefresh"
        BY <2>2, <3>1, <3>3 DEF Unregistrations, OwnReleaseInv
      <4>2. ~advRegistered /\ \A k \in 1..Len(queue) : ~Advertises(queue[k])
        BY <2>2, <4>1 DEF OwnReleaseInv
      <4>3. /\ Len(queue) \in Nat /\ Len(queue') = Len(queue) + 2
            /\ \A k \in 1..Len(queue) : queue'[k] = queue[k]
            /\ queue'[Len(queue) + 1] = Signal("OwnRelease")
        <5>1. Signal("OwnRelease") \in Event /\ Reply(Head(calls), TRUE) \in Event
          BY <2>2, SignalIsEvent, ReplyIsEvent DEF Signals
        <5>. QED
          BY <1>0, <3>3, <5>1, ConcatTwo DEF Deliver
      <4>4. ~Advertises(Signal("OwnRelease"))
        BY DEF Signal, Advertises
      <4>5. \A j \in 1..Len(queue') : \A k \in 1..j - 1 : ~Advertises(queue'[k])
        BY <4>2, <4>3, <4>4
      <4>. QED
        BY <2>1, <2>4, <4>2, <4>5 DEF OwnReleaseInv
    <3>. QED
      BY <2>7, <3>2, <3>3 DEF Unregisters, TypeOK, BluezTypes
  <2>. QED
    BY <1>21, <2>5, <2>6, <2>7 DEF BluezStep
<1>. QED
  BY <1>3, <1>4, <1>5, <1>6, <1>7, <1>8, <1>9, <1>10, <1>11, <1>12, <1>13, <1>14, <1>17, <1>18,
     <1>19, <1>20, <1>21 DEF Next, DispatchStep, TimerStep, AppStep

(* A Release() that bluetoothd provoked is followed by the reply to the call. *)
LastInv == queue # <<>> => queue[Len(queue)].what # "OwnRelease"

(* A handler takes the first event off, if any, and makes at most one call. *)
Sends(q) == SendNothing(q) \/ \E call \in Calls : Send(call, q)

LEMMA HelpersSend ==
  ASSUME NEW q, UnregisterGatt(q) \/ BeginShutdown(q) \/ Reregister(q) \/ SetupBluez(q)
  PROVE  Sends(q)
BY CallNames DEF Sends, UnregisterGatt, BeginShutdown, Reregister, SetupBluez

LEMMA TailLast ==
  ASSUME NEW S, NEW q \in Seq(S), q # <<>>
  PROVE  Tail(q) # <<>> => Tail(q)[Len(Tail(q))] = q[Len(q)]
<1>1. /\ Tail(q) \in Seq(S) /\ Len(Tail(q)) = Len(q) - 1 /\ Len(q) \in Nat
      /\ \A i \in 1..Len(Tail(q)) : Tail(q)[i] = q[i + 1]
  BY HeadTailProperties, LenProperties
<1>2. Tail(q) # <<>> => Len(Tail(q)) # 0
  BY <1>1, EmptySeq
<1>. QED
  BY <1>1, <1>2

LEMMA SendsKeepsLast ==
  ASSUME TypeOK, LastInv, NEW q \in Seq(Event), q = queue \/ (Dispatching /\ q = Rest), Sends(q)
  PROVE  LastInv'
<1>1. q # <<>> => q[Len(q)].what # "OwnRelease"
  BY QueueType, TailLast DEF LastInv, Dispatching, Rest
<1>2. ASSUME NEW call \in Calls, queue' = Append(q, Reply(call, FALSE)) PROVE LastInv'
  <2>1. Reply(call, FALSE) \in Event /\ Reply(call, FALSE).what # "OwnRelease"
    BY ReplyIsEvent DEF Reply, Calls, Registrations, Unregistrations
  <2>2. Len(queue') = Len(q) + 1 /\ queue'[Len(q) + 1] = Reply(call, FALSE)
    BY <1>2, <2>1, AppendProperties
  <2>. QED
    BY <2>1, <2>2 DEF LastInv
<1>. QED
  BY <1>1, <1>2 DEF Sends, Send, SendNothing, LastInv

LEMMA DeliverKeepsLast ==
  ASSUME TypeOK, NEW e \in Seq(Event), Len(e) > 0, e[Len(e)].what # "OwnRelease", Deliver(e)
  PROVE  LastInv'
<1>1. /\ Len(queue) \in Nat /\ Len(e) \in Nat /\ Len(queue \o e) = Len(queue) + Len(e)
      /\ \A i \in 1..Len(queue) + Len(e) :
           (queue \o e)[i] = IF i <= Len(queue) THEN queue[i] ELSE e[i - Len(queue)]
  BY QueueType, LenProperties, ConcatProperties
<1>2. (Len(queue) + Len(e)) - Len(queue) = Len(e) /\ ~(Len(queue) + Len(e) <= Len(queue))
  BY <1>1
<1>3. (queue \o e)[Len(queue \o e)] = e[Len(e)]
  BY <1>1, <1>2
<1>. QED
  BY <1>3 DEF Deliver, LastInv

LEMMA DeliverOneKeepsLast ==
  ASSUME TypeOK, NEW e \in Event, e.what # "OwnRelease", Deliver(<<e>>)
  PROVE  LastInv'
<1>. DEFINE es == <<e>>
<1>1. es \in Seq(Event) /\ Len(es) = 1 /\ es[1] = e /\ Deliver(es)
  BY OneInSeq
<1>. HIDE DEF es
<1>2. Len(es) > 0 /\ es[Len(es)].what # "OwnRelease"
  BY <1>1
<1>. QED
  BY <1>1, <1>2, DeliverKeepsLast

LEMMA NextLast == TypeOK /\ LastInv /\ [Next]_vars => LastInv'
<1>. SUFFICES ASSUME TypeOK, LastInv, [Next]_vars PROVE LastInv'
  OBVIOUS
<1>0. queue \in Seq(Event) /\ calls \in Seq(Calls) /\ (Dispatching => Rest \in Seq(Event))
  BY QueueType, RestType
<1>1. CASE DispatchStep
  <2>1. Dispatching
    BY <1>1 DEF DispatchStep, Handles, OnGattRegistered, OnAdvertisementRegistered,
      OnAdvertisementReregistered, OnNameOwnerChanged, OnAdvertisementReleased, OnCccdOff,
      OnStopNotify, OnRefreshUnregistered, OnAdvertisementUnregistered, OnGattUnregistered
  <2>2. CASE OnGattRegistered \/ OnAdvertisementRegistered
    <3>1. Sends(Rest)
      BY <2>2, HelpersSend, CallNames
      DEF OnGattRegistered, OnAdvertisementRegistered, RegistrationFails, Sends
    <3>. QED
      BY <1>0, <2>1, <3>1, SendsKeepsLast
  <2>3. CASE OnAdvertisementReregistered \/ OnNameOwnerChanged \/ OnAdvertisementReleased \/ OnCccdOff
             \/ OnStopNotify \/ OnRefreshUnregistered \/ OnAdvertisementUnregistered
             \/ OnGattUnregistered
    <3>1. Sends(Rest)
      BY <2>3, HelpersSend DEF OnAdvertisementReregistered, OnNameOwnerChanged,
        OnAdvertisementReleased, OnCccdOff, OnStopNotify, OnRefreshUnregistered,
        OnAdvertisementUnregistered, OnGattUnregistered, Sends
    <3>. QED
      BY <1>0, <2>1, <3>1, SendsKeepsLast
  <2>. QED
    BY <1>1, <2>2, <2>3 DEF DispatchStep
<1>2. CASE TimerStep \/ Run \/ ShutdownIdle
  <2>1. Sends(queue)
    BY <1>2, HelpersSend, CallNames DEF TimerStep, RetryRegisterApplication, ReregisterTimer,
      RefreshAdvertisement, Run, ShutdownIdle, Sends
  <2>. QED
    BY <1>0, <2>1, SendsKeepsLast
<1>3. CASE StartReturns \/ RequestStop \/ AppSubscribes \/ UNCHANGED vars
  BY <1>3 DEF StartReturns, RequestStop, AppSubscribes, vars, LastInv
<1>4. CASE RunEnds
  BY <1>4 DEF RunEnds, LastInv
<1>5. CASE ReleasesAdvertisement \/ AppUnsubscribes \/ Restart
  <2>1. CASE queue' = queue
    BY <2>1 DEF LastInv
  <2>2. ASSUME NEW what \in Signals \ {"OwnRelease"}, Deliver(<<Signal(what)>>) PROVE LastInv'
    <3>1. Signal(what) \in Event /\ Signal(what).what # "OwnRelease"
      BY SignalIsEvent DEF Signal
    <3>. QED
      BY <2>2, <3>1, DeliverOneKeepsLast
  <2>. QED
    BY <1>5, <2>1, <2>2 DEF ReleasesAdvertisement, AppUnsubscribes, Restart, Signals
<1>6. CASE AppDisconnects
  <2>1. subs \in Nat /\ subs > 0 /\ Signal("StopNotify") \in Event /\ Signal("StopNotify").what # "OwnRelease"
    BY <1>6, SignalIsEvent DEF AppDisconnects, TypeOK, BluezTypes, Signals, Signal
  <2>2. [i \in 1..subs |-> Signal("StopNotify")] \in Seq(Event)
    BY <2>1, FunctionIsSeq
  <2>3. Len([i \in 1..subs |-> Signal("StopNotify")]) = subs
    BY <2>1
  <2>. QED
    BY <1>6, <2>1, <2>2, <2>3, DeliverKeepsLast DEF AppDisconnects
<1>7. CASE Crash
  <2>1. CASE queue' = queue
    BY <2>1 DEF LastInv
  <2>2. CASE Deliver(<<Signal("Vanished")>> \o [i \in 1..Len(calls) |-> Reply(calls[i], FALSE)])
    <3>. DEFINE r == [i \in 1..Len(calls) |-> Reply(calls[i], FALSE)]
                P == {x \in Event : x.what # "OwnRelease"}
    <3>1. Len(calls) \in Nat
      BY <1>0, LenProperties
    <3>2. \A i \in 1..Len(calls) : Reply(calls[i], FALSE) \in P
      <4>. SUFFICES ASSUME NEW i \in 1..Len(calls) PROVE Reply(calls[i], FALSE) \in P
        OBVIOUS
      <4>1. calls[i] \in Calls
        BY <1>0, ElementOfSeq
      <4>. QED
        BY <4>1, ReplyIsEvent DEF Reply, Calls, Registrations, Unregistrations
    <3>3. r \in Seq(P)
      BY <3>1, <3>2, FunctionIsSeq
    <3>4. <<Signal("Vanished")>> \in Seq(P) /\ Len(<<Signal("Vanished")>>) = 1
      <4>1. Signal("Vanished") \in P
        BY SignalIsEvent DEF Signals, Signal
      <4>. QED
        BY <4>1, OneInSeq
    <3>. DEFINE e == <<Signal("Vanished")>> \o r
    <3>5. e \in Seq(P) /\ Len(e) = 1 + Len(r) /\ Len(r) \in Nat
      BY <3>3, <3>4, ConcatProperties, LenProperties
    <3>. HIDE DEF e, r
    <3>6. Len(e) > 0 /\ e[Len(e)] \in P
      BY <3>5, ElementOfSeq
    <3>7. e \in Seq(Event)
      BY <3>5
    <3>. QED
      BY <2>2, <3>6, <3>7, DeliverKeepsLast DEF e, r
  <2>. QED
    BY <1>7, <2>1, <2>2 DEF Crash
<1>8. CASE BluezStep
  <2>1. Head(calls) \in Calls
    BY <1>0, <1>8, HeadTailProperties DEF BluezStep, Registers, Refuses, Unregisters, Answer
  <2>2. \A ok \in BOOLEAN : Reply(Head(calls), ok) \in Event /\ Reply(Head(calls), ok).what # "OwnRelease"
    BY <2>1, ReplyIsEvent DEF Reply, Calls, Registrations, Unregistrations
  <2>3. ASSUME NEW ok \in BOOLEAN, Deliver(<<Reply(Head(calls), ok)>>) PROVE LastInv'
    BY <2>2, <2>3, DeliverOneKeepsLast
  <2>4. CASE Deliver(<<Signal("OwnRelease"), Reply(Head(calls), TRUE)>>)
    <3>1. Signal("OwnRelease") \in Event
      BY SignalIsEvent DEF Signals
    <3>. DEFINE es == <<Signal("OwnRelease"), Reply(Head(calls), TRUE)>>
    <3>2. es \in Seq(Event)
      BY <2>2, <3>1, PairInSeq
    <3>3. Len(es) = 2 /\ es[2] = Reply(Head(calls), TRUE) /\ Deliver(es)
      BY <2>4
    <3>. HIDE DEF es
    <3>4. es[2].what # "OwnRelease"
      BY <2>2, <3>3
    <3>5. Len(es) > 0 /\ es[Len(es)] = es[2]
      BY <3>3
    <3>6. es[Len(es)].what # "OwnRelease"
      BY <3>4, <3>5, Zenon
    <3>. QED
      BY <3>2, <3>3, <3>5, <3>6, DeliverKeepsLast
  <2>. QED
    BY <1>8, <2>3, <2>4 DEF BluezStep, Registers, Refuses, Unregisters, TypeOK, BluezTypes
<1>. QED
  BY <1>1, <1>2, <1>3, <1>4, <1>5, <1>6, <1>7, <1>8 DEF Next, AppStep

(* As long as no reply is overtaken by a timer, the Release() that a refresh     *)
(* provokes schedules no second re-registration: it finds the advertisement     *)
(* already counted as gone (gatt_server.py, _refresh_advertisement), whatever   *)
(* crashes, refusals and subscriptions surround it.                          *)
THEOREM OwnReleaseIsIgnored == Spec => OwnReleaseIgnored
<1>1. Init => OwnReleaseInv
  BY DEF Init, OwnReleaseInv
<1>2. TypeOK /\ OwnReleaseInv /\ LastInv /\ [Next]_vars
        => [prompt /\ Dispatching /\ Head(queue).what = "OwnRelease" /\ queue' = Rest
              => timers' = timers]_vars
  <2>. SUFFICES ASSUME TypeOK, OwnReleaseInv, LastInv, Next, prompt, Dispatching,
                       Head(queue).what = "OwnRelease", queue' = Rest
                PROVE  timers' = timers
    OBVIOUS
  <2>1. shutdown \/ ~advRegistered
    <3>1. Len(queue) \in Nat /\ Len(queue) > 0 /\ Head(queue) = queue[1]
      BY QueueType, LenProperties, EmptySeq DEF Dispatching
    <3>. QED
      BY <3>1 DEF OwnReleaseInv
  <2>2. Len(queue) \in Nat /\ Len(queue') = Len(queue) - 1
    BY QueueType, LenProperties, HeadTailProperties DEF Dispatching, Rest
  <2>3. CASE DispatchStep
    <3>1. OnAdvertisementReleased
      BY <2>3 DEF DispatchStep, Handles, OnGattRegistered, OnAdvertisementRegistered,
        OnAdvertisementReregistered, OnNameOwnerChanged, OnCccdOff, OnStopNotify,
        OnRefreshUnregistered, OnAdvertisementUnregistered, OnGattUnregistered
    <3>. QED
      BY <2>1, <3>1 DEF OnAdvertisementReleased
  <2>4. CASE TimerStep
    BY <2>4 DEF TimerStep, RetryRegisterApplication, ReregisterTimer, RefreshAdvertisement, Fires,
      Dispatching
  <2>5. ~RunEnds
    <3>. SUFFICES ASSUME RunEnds PROVE FALSE
      OBVIOUS
    <3>1. Len(queue') = 0
      BY DEF RunEnds
    <3>2. Len(queue) = 1
      BY <2>2, <3>1
    <3>3. Head(queue) = queue[1]
      BY QueueType DEF Dispatching
    <3>. QED
      BY <3>2, <3>3 DEF LastInv, Dispatching
  <2>6. CASE Run \/ StartReturns \/ RequestStop \/ ShutdownIdle \/ BluezStep \/ ReleasesAdvertisement
             \/ Crash \/ Restart \/ AppStep
    BY <2>6 DEF Run, StartReturns, RequestStop, ShutdownIdle, BluezStep, Registers, Refuses,
      Unregisters, Answer, ReleasesAdvertisement, Crash, Restart, AppStep, AppSubscribes,
      AppUnsubscribes, AppDisconnects
  <2>. QED
    BY <2>3, <2>4, <2>5, <2>6 DEF Next
<1>3. Init => LastInv
  BY DEF Init, LastInv
<1>. QED
  BY TypeCorrect, NextOwnRelease, NextLast, <1>1, <1>2, <1>3, PTL DEF Spec, OwnReleaseIgnored

-----------------------------------------------------------------------------
(* What a queue still has to say.  Has: one of P is in it.  Will: what a flag    *)
(* will be once all of the queue was dispatched, where an event of S sets it     *)
(* and one of C clears it.                                                    *)
Has(q, P) == \E i \in 1..Len(q) : q[i] \in P

NoneAfter(q, n, C) == \A k \in n + 1..Len(q) : q[k] \notin C

Will(flag, S, C, q) ==
    \/ \E i \in 1..Len(q) : q[i] \in S /\ NoneAfter(q, i, C)
    \/ flag /\ NoneAfter(q, 0, C)

LEMMA HasConcat ==
  ASSUME NEW T, NEW a \in Seq(T), NEW b \in Seq(T), NEW P
  PROVE  Has(a \o b, P) <=> Has(a, P) \/ Has(b, P)
<1>1. /\ Len(a) \in Nat /\ Len(b) \in Nat /\ Len(a \o b) = Len(a) + Len(b)
      /\ \A i \in 1..Len(a) + Len(b) : (a \o b)[i] = IF i <= Len(a) THEN a[i] ELSE b[i - Len(a)]
  BY LenProperties, ConcatProperties
<1>2. ASSUME NEW i \in 1..Len(a) + Len(b), (a \o b)[i] \in P PROVE Has(a, P) \/ Has(b, P)
  BY <1>1, <1>2 DEF Has
<1>3. ASSUME NEW i \in 1..Len(a), a[i] \in P PROVE Has(a \o b, P)
  BY <1>1, <1>3 DEF Has
<1>4. ASSUME NEW i \in 1..Len(b), b[i] \in P PROVE Has(a \o b, P)
  <2>1. Len(a) + i \in 1..Len(a) + Len(b) /\ (a \o b)[Len(a) + i] = b[i]
    BY <1>1
  <2>. QED
    BY <1>1, <1>4, <2>1 DEF Has
<1>. QED
  BY <1>1, <1>2, <1>3, <1>4 DEF Has

LEMMA HasOne == ASSUME NEW P, NEW e PROVE (Has(<<e>>, P) <=> e \in P) /\ ~Has(<<>>, P)
BY DEF Has

LEMMA HasAppend ==
  ASSUME NEW T, NEW q \in Seq(T), NEW e \in T, NEW P
  PROVE  Has(Append(q, e), P) <=> Has(q, P) \/ e \in P
<1>1. Append(q, e) = q \o <<e>>
  BY AppendIsConcat
<1>2. Has(q \o <<e>>, P) <=> Has(q, P) \/ Has(<<e>>, P)
  BY OneInSeq, HasConcat
<1>3. Has(<<e>>, P) <=> e \in P
  BY HasOne
<1>. QED
  BY <1>1, <1>2, <1>3, Zenon

LEMMA HeadThenTail ==
  ASSUME NEW T, NEW q \in Seq(T), q # <<>>
  PROVE  q = <<Head(q)>> \o Tail(q) /\ <<Head(q)>> \in Seq(T) /\ Tail(q) \in Seq(T)
<1>1. Head(q) \in T /\ Tail(q) \in Seq(T)
  BY HeadTailProperties
<1>2. <<Head(q)>> \in Seq(T) /\ <<Head(q)>> \o Tail(q) \in Seq(T)
  BY <1>1, OneInSeq, ConcatProperties
<1>3. Len(q) = Len(<<Head(q)>> \o Tail(q)) /\ Len(<<Head(q)>>) = 1
  BY <1>1, <1>2, HeadTailProperties, ConcatProperties, LenProperties
<1>4. ASSUME NEW i \in 1..Len(q) PROVE q[i] = (<<Head(q)>> \o Tail(q))[i]
  BY <1>1, <1>2, <1>3, HeadTailProperties, ConcatProperties, LenProperties
<1>. QED
  BY <1>1, <1>2, <1>3, <1>4, SeqEqual

LEMMA HasTail ==
  ASSUME NEW T, NEW q \in Seq(T), q # <<>>, NEW P
  PROVE  Has(q, P) <=> Head(q) \in P \/ Has(Tail(q), P)
<1>1. Has(<<Head(q)>> \o Tail(q), P) <=> Has(<<Head(q)>>, P) \/ Has(Tail(q), P)
  BY HeadThenTail, HasConcat
<1>. QED
  BY <1>1, HeadThenTail, HasOne

LEMMA NoneAfterConcat ==
  ASSUME NEW T, NEW a \in Seq(T), NEW b \in Seq(T), NEW C
  PROVE  /\ \A n \in 0..Len(a) : NoneAfter(a \o b, n, C) <=> NoneAfter(a, n, C) /\ NoneAfter(b, 0, C)
         /\ \A n \in 1..Len(b) : NoneAfter(a \o b, Len(a) + n, C) <=> NoneAfter(b, n, C)
<1>1. /\ Len(a) \in Nat /\ Len(b) \in Nat /\ Len(a \o b) = Len(a) + Len(b)
      /\ \A i \in 1..Len(a) + Len(b) : (a \o b)[i] = IF i <= Len(a) THEN a[i] ELSE b[i - Len(a)]
  BY LenProperties, ConcatProperties
<1>2. \A k \in 1..Len(b) : (a \o b)[Len(a) + k] = b[k]
  BY <1>1
<1>3. ASSUME NEW n \in 0..Len(a), NoneAfter(a \o b, n, C)
      PROVE  NoneAfter(a, n, C) /\ NoneAfter(b, 0, C)
  <2>1. NoneAfter(a, n, C)
    BY <1>1, <1>3 DEF NoneAfter
  <2>2. ASSUME NEW k \in 1..Len(b) PROVE b[k] \notin C
    <3>1. Len(a) + k \in n + 1..Len(a \o b)
      BY <1>1
    <3>. QED
      BY <1>2, <1>3, <3>1 DEF NoneAfter
  <2>. QED
    BY <2>1, <2>2 DEF NoneAfter
<1>4. ASSUME NEW n \in 0..Len(a), NoneAfter(a, n, C), NoneAfter(b, 0, C)
      PROVE  NoneAfter(a \o b, n, C)
  BY <1>1, <1>4 DEF NoneAfter
<1>5. ASSUME NEW n \in 1..Len(b), NoneAfter(a \o b, Len(a) + n, C) PROVE NoneAfter(b, n, C)
  <2>1. ASSUME NEW k \in n + 1..Len(b) PROVE b[k] \notin C
    <3>1. Len(a) + k \in (Len(a) + n) + 1..Len(a \o b) /\ k \in 1..Len(b)
      BY <1>1
    <3>2. (a \o b)[Len(a) + k] \notin C
      BY <1>5, <3>1, Zenon DEF NoneAfter
    <3>3. (a \o b)[Len(a) + k] = b[k]
      BY <1>2, <3>1, Zenon
    <3>. QED
      BY <3>2, <3>3, Zenon
  <2>. QED
    BY <2>1 DEF NoneAfter
<1>6. ASSUME NEW n \in 1..Len(b), NoneAfter(b, n, C) PROVE NoneAfter(a \o b, Len(a) + n, C)
  BY <1>1, <1>6 DEF NoneAfter
<1>. QED
  BY <1>3, <1>4, <1>5, <1>6

(* A queue and then another one: the first makes the flag, the second changes it. *)
LEMMA WillConcat ==
  ASSUME NEW T, NEW a \in Seq(T), NEW b \in Seq(T), NEW S, NEW C, NEW flag
  PROVE  Will(flag, S, C, a \o b) <=> Will(Will(flag, S, C, a), S, C, b)
<1>1. /\ Len(a) \in Nat /\ Len(b) \in Nat /\ Len(a \o b) = Len(a) + Len(b)
      /\ \A i \in 1..Len(a) + Len(b) : (a \o b)[i] = IF i <= Len(a) THEN a[i] ELSE b[i - Len(a)]
  BY LenProperties, ConcatProperties
<1>2. /\ \A n \in 0..Len(a) : NoneAfter(a \o b, n, C) <=> NoneAfter(a, n, C) /\ NoneAfter(b, 0, C)
      /\ \A n \in 1..Len(b) : NoneAfter(a \o b, Len(a) + n, C) <=> NoneAfter(b, n, C)
  BY NoneAfterConcat
<1>3. ASSUME NEW i \in 1..Len(a \o b), (a \o b)[i] \in S, NoneAfter(a \o b, i, C)
      PROVE  Will(Will(flag, S, C, a), S, C, b)
  <2>1. CASE i <= Len(a)
    BY <1>1, <1>2, <1>3, <2>1 DEF Will
  <2>2. CASE ~(i <= Len(a))
    <3>1. PICK j \in 1..Len(b) : i = Len(a) + j
      <4>1. i - Len(a) \in 1..Len(b) /\ i = Len(a) + (i - Len(a))
        BY <1>1, <2>2
      <4>. QED
        BY <4>1
    <3>2. b[j] \in S /\ NoneAfter(b, j, C)
      BY <1>1, <1>2, <1>3, <3>1
    <3>. QED
      BY <3>2 DEF Will
  <2>. QED
    BY <2>1, <2>2
<1>4. ASSUME flag, NoneAfter(a \o b, 0, C) PROVE Will(Will(flag, S, C, a), S, C, b)
  BY <1>1, <1>2, <1>4 DEF Will
<1>5. ASSUME NEW j \in 1..Len(b), b[j] \in S, NoneAfter(b, j, C) PROVE Will(flag, S, C, a \o b)
  <2>1. Len(a) + j \in 1..Len(a \o b) /\ (a \o b)[Len(a) + j] = b[j]
    BY <1>1
  <2>. QED
    BY <1>2, <1>5, <2>1 DEF Will
<1>6. ASSUME NEW i \in 1..Len(a), a[i] \in S, NoneAfter(a, i, C), NoneAfter(b, 0, C)
      PROVE  Will(flag, S, C, a \o b)
  BY <1>1, <1>2, <1>6 DEF Will
<1>7. ASSUME flag, NoneAfter(a, 0, C), NoneAfter(b, 0, C) PROVE Will(flag, S, C, a \o b)
  BY <1>1, <1>2, <1>7 DEF Will
<1>. QED
  BY <1>3, <1>4, <1>5, <1>6, <1>7 DEF Will

LEMMA WillOne ==
  ASSUME NEW S, NEW C, NEW flag, NEW e
  PROVE  Will(flag, S, C, <<e>>) <=> e \in S \/ (flag /\ e \notin C)
BY DEF Will, NoneAfter

LEMMA WillEmpty ==
  ASSUME NEW S, NEW C, NEW flag \in BOOLEAN, NEW q, q = <<>>
  PROVE  Will(flag, S, C, q) <=> flag
<1>1. Len(q) = 0
  OBVIOUS
<1>2. NoneAfter(q, 0, C) /\ ~\E i \in 1..Len(q) : q[i] \in S
  BY <1>1 DEF NoneAfter
<1>. QED
  BY <1>2, Zenon DEF Will

(* An event more, an event less, and events that say nothing of the flag. *)
LEMMA WillAppend ==
  ASSUME NEW T, NEW q \in Seq(T), NEW e \in T, NEW S, NEW C, NEW flag
  PROVE  Will(flag, S, C, Append(q, e)) <=> e \in S \/ (Will(flag, S, C, q) /\ e \notin C)
<1>1. Append(q, e) = q \o <<e>>
  BY AppendIsConcat
<1>2. Will(flag, S, C, q \o <<e>>) <=> Will(Will(flag, S, C, q), S, C, <<e>>)
  BY OneInSeq, WillConcat
<1>3. Will(Will(flag, S, C, q), S, C, <<e>>) <=> e \in S \/ (Will(flag, S, C, q) /\ e \notin C)
  BY WillOne, Zenon
<1>. QED
  BY <1>1, <1>2, <1>3, Zenon

LEMMA WillTail ==
  ASSUME NEW T, NEW q \in Seq(T), q # <<>>, NEW S, NEW C, NEW flag
  PROVE  Will(flag, S, C, q) <=> Will(Head(q) \in S \/ (flag /\ Head(q) \notin C), S, C, Tail(q))
<1>1. q = <<Head(q)>> \o Tail(q) /\ <<Head(q)>> \in Seq(T) /\ Tail(q) \in Seq(T)
  BY HeadThenTail
<1>2. Will(flag, S, C, <<Head(q)>> \o Tail(q)) <=> Will(Will(flag, S, C, <<Head(q)>>), S, C, Tail(q))
  BY <1>1, WillConcat, Zenon
<1>3. Will(flag, S, C, q) <=> Will(Will(flag, S, C, <<Head(q)>>), S, C, Tail(q))
  BY <1>1, <1>2, Zenon
<1>4. Will(flag, S, C, <<Head(q)>>) <=> Head(q) \in S \/ (flag /\ Head(q) \notin C)
  BY WillOne, Zenon
<1>. QED
  BY <1>3, <1>4 DEF Will

LEMMA WillPlain ==
  ASSUME NEW T, NEW q \in Seq(T), NEW e \in Seq(T), NEW S, NEW C, NEW flag, ~Has(e, S)
  PROVE  /\ Will(flag, S, C, q \o e) => Will(flag, S, C, q)
         /\ ~Has(e, C) => (Will(flag, S, C, q \o e) <=> Will(flag, S, C, q))
<1>1. Will(flag, S, C, q \o e) <=> Will(Will(flag, S, C, q), S, C, e)
  BY WillConcat
<1>2. ~Has(e, C) => NoneAfter(e, 0, C)
  BY DEF Has, NoneAfter
<1>. QED
  BY <1>1, <1>2 DEF Will, Has
-----------------------------------------------------------------------------
(* What the server believes, once all that waits in its queue was dispatched. *)
AppSets == {e \in Event : e.what = "RegisterApplication" /\ e.ok}
AppClears == {e \in Event : e.what = "Vanished"}
AdvSets == {e \in Event : Advertises(e)}
AdvClears == {e \in Event : e.what \in {"Vanished", "Released", "OwnRelease"}}

WillBeRegistered == Will(gattRegistered, AppSets, AppClears, queue)
WillBeAdvertised == Will(advRegistered, AdvSets, AdvClears, queue)

(* What still leads to a registration of the application ... *)
AppEvents == {e \in Event : e.what = "Appeared" \/ (e.what = "RegisterApplication" /\ ~e.ok)}
AppCalls == {"RegisterApplication"}
AppInHand ==
    \/ ~up \/ timers["retryApplication"] > 0
    \/ Has(queue, AppEvents) \/ Has(calls, AppCalls)

(* ... and to one of the advertisement. *)
AdvCalls == {"RegisterAdvertisement", "ReregisterAdvertisement", "UnregisterForRefresh"}
AdvEvents == {e \in Event : e.what \in AdvCalls} \cup AppSets
AdvInHand ==
    \/ advRegistered \/ timers["reregister"] > 0
    \/ Has(queue, AdvEvents) \/ Has(calls, AdvCalls)

(* The calls that end a shutdown. *)
EndCalls == {"UnregisterAdvertisement", "UnregisterApplication"}
EndEvents == {e \in Event : e.what \in EndCalls}

LEMMA SetsPrimed ==
  /\ WillBeRegistered' <=> Will(gattRegistered', AppSets, AppClears, queue')
  /\ WillBeAdvertised' <=> Will(advRegistered', AdvSets, AdvClears, queue')
  /\ AppInHand' <=> \/ ~up' \/ timers'["retryApplication"] > 0
                    \/ Has(queue', AppEvents) \/ Has(calls', AppCalls)
  /\ AdvInHand' <=> \/ advRegistered' \/ timers'["reregister"] > 0
                    \/ Has(queue', AdvEvents) \/ Has(calls', AdvCalls)
BY DEF WillBeRegistered, WillBeAdvertised, AppInHand, AdvInHand

(* What an asynchronous call adds to what the server will believe, and to what  *)
(* is in hand: the call itself, if bluetoothd is there.                      *)
LEMMA SendSays ==
  ASSUME TypeOK, NEW call \in Calls, NEW q \in Seq(Event), Send(call, q) \/ SendNothing(q), NEW flag
  PROVE  /\ Will(flag, AppSets, AppClears, queue') <=> Will(flag, AppSets, AppClears, q)
         /\ Will(flag, AdvSets, AdvClears, queue') <=> Will(flag, AdvSets, AdvClears, q)
<1>1. /\ Reply(call, FALSE) \in Event
      /\ Reply(call, FALSE) \notin AppSets \cup AppClears \cup AdvSets \cup AdvClears
  BY ReplyIsEvent DEF Reply, AppSets, AppClears, AdvSets, AdvClears, Advertises, Calls,
    Registrations, Unregistrations
<1>2. CASE queue' = q
  BY <1>2
<1>3. CASE queue' = Append(q, Reply(call, FALSE))
  <2>1. /\ Will(flag, AppSets, AppClears, queue')
             <=> Reply(call, FALSE) \in AppSets
                   \/ (Will(flag, AppSets, AppClears, q) /\ Reply(call, FALSE) \notin AppClears)
        /\ Will(flag, AdvSets, AdvClears, queue')
             <=> Reply(call, FALSE) \in AdvSets
                   \/ (Will(flag, AdvSets, AdvClears, q) /\ Reply(call, FALSE) \notin AdvClears)
    BY <1>1, <1>3, WillAppend, Zenon
  <2>. QED
    BY <1>1, <2>1
<1>. QED
  BY <1>2, <1>3 DEF Send, SendNothing

LEMMA SendHas ==
  ASSUME TypeOK, NEW call \in Calls, NEW q \in Seq(Event), Send(call, q) \/ SendNothing(q), NEW P
  PROVE  /\ Has(q, P) => Has(queue', P)
         /\ Has(queue', P) => Has(q, P) \/ Reply(call, FALSE) \in P
         /\ Has(calls, P) => Has(calls', P)
         /\ Has(calls', P) => Has(calls, P) \/ call \in P
         /\ up /\ Send(call, q) /\ call \in P => Has(calls', P)
<1>1. Reply(call, FALSE) \in Event /\ calls \in Seq(Calls)
  BY ReplyIsEvent, QueueType
<1>2. /\ Has(Append(q, Reply(call, FALSE)), P) <=> Has(q, P) \/ Reply(call, FALSE) \in P
      /\ Has(Append(calls, call), P) <=> Has(calls, P) \/ call \in P
  BY <1>1, HasAppend, Zenon
<1>. QED
  BY <1>2, Zenon DEF Send, SendNothing
-----------------------------------------------------------------------------
(* A step of the GLib thread touches neither bluetoothd nor the App.          *)
LEMMA HandlerFrame ==
  ASSUME TypeOK, DispatchStep \/ TimerStep \/ ShutdownIdle
  PROVE  loop = "running" /\ loop' \in {"running", "quit"} /\ UNCHANGED <<prompt, up, app, adv, subs>>
<1>1. CASE OnGattRegistered \/ OnAdvertisementRegistered
  <2>1. Dispatching
    BY <1>1 DEF OnGattRegistered, OnAdvertisementRegistered, Handles
  <2>2. loop' = loop \/ RegistrationFails("retryApplication") \/ RegistrationFails("reregister")
    BY <1>1 DEF OnGattRegistered, OnAdvertisementRegistered
  <2>3. loop' \in {loop, "quit"}
    BY <2>1, <2>2, RegistrationFailsTypes
  <2>. QED
    BY <1>1, <2>1, <2>3 DEF Dispatching, OnGattRegistered, OnAdvertisementRegistered
<1>2. CASE OnAdvertisementUnregistered
  <2>1. loop = "running" /\ loop' \in {loop, "quit"}
    BY <1>2, RestType, UnregisterGattTypes DEF OnAdvertisementUnregistered, Handles, Dispatching
  <2>. QED
    BY <1>2, <2>1 DEF OnAdvertisementUnregistered
<1>3. CASE OnGattUnregistered \/ OnNameOwnerChanged \/ OnAdvertisementReleased \/ OnCccdOff
           \/ OnAdvertisementReregistered \/ OnStopNotify \/ OnRefreshUnregistered
  BY <1>3 DEF OnGattUnregistered, OnNameOwnerChanged, OnAdvertisementReleased, OnCccdOff,
    OnAdvertisementReregistered, OnStopNotify, OnRefreshUnregistered, Handles, Dispatching
<1>4. CASE TimerStep
  BY <1>4 DEF TimerStep, RetryRegisterApplication, ReregisterTimer, RefreshAdvertisement, Fires
<1>5. CASE ShutdownIdle
  <2>1. loop' \in {loop, "quit"}
    BY <1>5, QueueType, BeginShutdownTypes DEF ShutdownIdle
  <2>. QED
    BY <1>5, <2>1 DEF ShutdownIdle
<1>. QED
  BY <1>1, <1>2, <1>3, <1>4, <1>5 DEF DispatchStep

(* Nothing has happened before the loop runs, and a bluetoothd that is gone     *)
(* has nothing registered.                                                   *)
FreshInv ==
    /\ app \/ adv => up
    /\ loop = "new" => /\ queue = <<>> /\ calls = <<>> /\ subs = 0
                       /\ ~gattRegistered /\ ~advRegistered /\ ~app /\ ~adv

LEMMA NextFresh == TypeOK /\ FreshInv /\ [Next]_vars => FreshInv'
<1>. SUFFICES ASSUME TypeOK, FreshInv, [Next]_vars PROVE FreshInv'
  OBVIOUS
<1>. USE DEF FreshInv
<1>1. CASE DispatchStep \/ TimerStep \/ ShutdownIdle
  BY <1>1, HandlerFrame
<1>2. CASE Run
  BY <1>2 DEF Run
<1>3. CASE RunEnds
  BY <1>3 DEF RunEnds
<1>4. CASE StartReturns \/ RequestStop \/ UNCHANGED vars
  BY <1>4 DEF StartReturns, RequestStop, vars
<1>5. CASE BluezStep
  <2>1. up' = up /\ up /\ calls # <<>> /\ loop' = loop
    BY <1>5 DEF BluezStep, Registers, Refuses, Unregisters, Answer
  <2>. QED
    BY <2>1
<1>6. CASE ReleasesAdvertisement
  BY <1>6 DEF ReleasesAdvertisement
<1>7. CASE Crash
  <2>1. loop' = loop /\ UNCHANGED <<gattRegistered, advRegistered>>
    BY <1>7 DEF Crash
  <2>2. up' = FALSE /\ app' = FALSE /\ adv' = FALSE /\ subs' = 0 /\ calls' = <<>>
    BY <1>7 DEF Crash
  <2>3. loop = "new" => queue' = queue
    BY <1>7 DEF Crash
  <2>. QED
    BY <2>1, <2>2, <2>3
<1>8. CASE Restart
  <2>1. loop = "new" => queue' = queue
    BY <1>8 DEF Restart
  <2>. QED
    BY <1>8, <2>1 DEF Restart
<1>9. CASE AppStep
  BY <1>9 DEF AppStep, AppSubscribes, AppUnsubscribes, AppDisconnects
<1>. QED
  BY <1>1, <1>2, <1>3, <1>4, <1>5, <1>6, <1>7, <1>8, <1>9 DEF Next

-----------------------------------------------------------------------------
(* The calls that a server makes which is not shutting down. *)
ServeCalls == Calls \ EndCalls
Serves(q) == SendNothing(q) \/ \E call \in ServeCalls : Send(call, q)

LEMMA ServeCallNames ==
  {"RegisterApplication", "RegisterAdvertisement", "ReregisterAdvertisement", "UnregisterForRefresh"}
    \subseteq ServeCalls
BY DEF ServeCalls, EndCalls, Calls, Registrations, Unregistrations

LEMMA DispatchServes ==
  ASSUME TypeOK, DispatchStep, ~shutdown', Head(queue).what \notin EndCalls
  PROVE  Dispatching /\ Serves(Rest)
<1>. USE ServeCallNames DEF Serves
<1>0. shutdown \in BOOLEAN
  BY DEF TypeOK, ServerTypes
<1>1. CASE OnGattRegistered
  <2>1. Head(queue).ok \/ ready
    BY <1>0, <1>1, BeginShutdownSets DEF OnGattRegistered, RegistrationFails
  <2>. QED
    BY <1>1, <2>1 DEF OnGattRegistered, RegistrationFails, Handles
<1>2. CASE OnAdvertisementRegistered
  <2>1. Head(queue).ok \/ ready
    BY <1>0, <1>2, BeginShutdownSets DEF OnAdvertisementRegistered, RegistrationFails
  <2>. QED
    BY <1>2, <2>1 DEF OnAdvertisementRegistered, RegistrationFails, Handles
<1>3. CASE OnNameOwnerChanged
  BY <1>3 DEF OnNameOwnerChanged, SetupBluez, Handles
<1>4. CASE OnAdvertisementReregistered \/ OnAdvertisementReleased \/ OnCccdOff \/ OnStopNotify
  BY <1>4 DEF OnAdvertisementReregistered, OnAdvertisementReleased, OnCccdOff, OnStopNotify, Handles
<1>5. CASE OnRefreshUnregistered
  BY <1>5 DEF OnRefreshUnregistered, Reregister, Handles
<1>6. ~OnAdvertisementUnregistered /\ ~OnGattUnregistered
  BY DEF OnAdvertisementUnregistered, OnGattUnregistered, Handles, EndCalls
<1>. QED
  BY <1>1, <1>2, <1>3, <1>4, <1>5, <1>6 DEF DispatchStep

LEMMA TimerServes == TimerStep \/ Run => Serves(queue)
BY ServeCallNames DEF Serves, TimerStep, RetryRegisterApplication, ReregisterTimer,
   RefreshAdvertisement, Reregister, Run

LEMMA ServesHas ==
  ASSUME TypeOK, NEW q \in Seq(Event), Serves(q)
  PROVE  /\ Has(queue', EndEvents) => Has(q, EndEvents)
         /\ Has(calls', EndCalls) => Has(calls, EndCalls)
<1>1. PICK call \in ServeCalls : Send(call, q) \/ SendNothing(q)
  BY ServeCallNames DEF Serves
<1>2. call \in Calls /\ call \notin EndCalls /\ Reply(call, FALSE) \notin EndEvents
  BY DEF ServeCalls, EndEvents, Reply
<1>. QED
  BY <1>1, <1>2, SendHas, Zenon

(* Without a shutdown nobody unregisters for one. *)
EndInv == ~shutdown => ~Has(queue, EndEvents) /\ ~Has(calls, EndCalls)

LEMMA EndPrimed == EndInv' <=> (~shutdown' => ~Has(queue', EndEvents) /\ ~Has(calls', EndCalls))
BY DEF EndInv

LEMMA DeliverHas ==
  ASSUME TypeOK, NEW e \in Seq(Event), Deliver(e), NEW P
  PROVE  Has(queue', P) <=> Has(queue, P) \/ Has(e, P)
BY QueueType, HasConcat DEF Deliver

LEMMA SignalEnds == ASSUME NEW what \in Signals PROVE Signal(what) \in Event /\ Signal(what) \notin EndEvents
BY SignalIsEvent DEF Signal, Signals, EndEvents, EndCalls

(* What bluetoothd delivers when it dies. *)
LastWords == <<Signal("Vanished")>> \o [i \in 1..Len(calls) |-> Reply(calls[i], FALSE)]

LEMMA LastWordsSay ==
  ASSUME TypeOK
  PROVE  /\ <<Signal("Vanished")>> \in Seq(Event)
         /\ [i \in 1..Len(calls) |-> Reply(calls[i], FALSE)] \in Seq(Event)
         /\ LastWords \in Seq(Event)
         /\ Has(LastWords, EndEvents) <=> Has(calls, EndCalls)
         /\ ~Has([i \in 1..Len(calls) |-> Reply(calls[i], FALSE)], AppSets)
         /\ ~Has([i \in 1..Len(calls) |-> Reply(calls[i], FALSE)], AdvSets)
<1>. DEFINE v == Signal("Vanished")
            r == [i \in 1..Len(calls) |-> Reply(calls[i], FALSE)]
<1>1. calls \in Seq(Calls) /\ Len(calls) \in Nat
  BY QueueType, LenProperties
<1>2. \A i \in 1..Len(calls) : calls[i] \in Calls /\ Reply(calls[i], FALSE) \in Event
  BY <1>1, ElementOfSeq, ReplyIsEvent
<1>3. /\ r \in Seq(Event) /\ Len(r) = Len(calls)
      /\ \A i \in 1..Len(calls) : r[i].what = calls[i] /\ r[i].ok = FALSE
  <2>1. r \in [1..Len(calls) -> Event]
    BY <1>2
  <2>2. \A i \in 1..Len(calls) : r[i] = Reply(calls[i], FALSE)
    OBVIOUS
  <2>. HIDE DEF r
  <2>3. r \in Seq(Event)
    BY <1>1, <2>1, FunctionIsSeq
  <2>4. Len(r) = Len(calls)
    BY <1>1, <2>1, <2>3, LenProperties
  <2>5. \A c : Reply(c, FALSE).what = c /\ Reply(c, FALSE).ok = FALSE
    BY DEF Reply
  <2>6. ASSUME NEW i \in 1..Len(calls) PROVE r[i].what = calls[i] /\ r[i].ok = FALSE
    <3>1. r[i] = Reply(calls[i], FALSE)
      BY <2>2, Zenon
    <3>2. Reply(calls[i], FALSE).what = calls[i] /\ Reply(calls[i], FALSE).ok = FALSE
      BY <2>5, Zenon
    <3>. QED
      BY <3>1, <3>2, Zenon
  <2>. QED
    BY <2>3, <2>4, <2>6, Zenon
<1>4. v \in Event /\ v \notin EndEvents /\ <<v>> \in Seq(Event)
  BY SignalEnds, OneInSeq DEF Signals
<1>5. LastWords = <<v>> \o r
  BY DEF LastWords
<1>. HIDE DEF v, r
<1>6. LastWords \in Seq(Event)
  BY <1>3, <1>4, <1>5, ConcatProperties
<1>7. Has(r, EndEvents) <=> Has(calls, EndCalls)
  BY <1>3 DEF Has, EndEvents
<1>8. Has(LastWords, EndEvents) <=> Has(r, EndEvents)
  <2>1. Has(<<v>> \o r, EndEvents) <=> Has(<<v>>, EndEvents) \/ Has(r, EndEvents)
    BY <1>3, <1>4, HasConcat, Zenon
  <2>2. ~Has(<<v>>, EndEvents)
    BY <1>4, HasOne
  <2>. QED
    BY <1>5, <2>1, <2>2
<1>9. ~Has(r, AppSets) /\ ~Has(r, AdvSets)
  BY <1>3 DEF Has, AppSets, AdvSets, Advertises
<1>. QED
  BY <1>3, <1>4, <1>6, <1>7, <1>8, <1>9 DEF v, r

LEMMA NextEnd == TypeOK /\ TypeOK' /\ EndInv /\ [Next]_vars => EndInv'
<1>. SUFFICES ASSUME TypeOK, TypeOK', EndInv, [Next]_vars, ~shutdown' PROVE EndInv'
  BY DEF EndInv
<1>0. /\ queue \in Seq(Event) /\ calls \in Seq(Calls) /\ shutdown \in BOOLEAN
      /\ Dispatching => Rest \in Seq(Event)
  BY QueueType, RestType DEF TypeOK, ServerTypes
<1>1. ASSUME ~shutdown, Has(queue', EndEvents) => Has(queue, EndEvents) \/ Has(calls, EndCalls),
             Has(calls', EndCalls) => Has(calls, EndCalls)
      PROVE  EndInv'
  BY <1>1, EndPrimed DEF EndInv
<1>2. CASE DispatchStep
  <2>1. ~shutdown
    BY <1>0, <1>2, BeginShutdownSets DEF DispatchStep, OnGattRegistered, OnAdvertisementRegistered,
      RegistrationFails, OnAdvertisementReregistered, OnNameOwnerChanged, OnAdvertisementReleased,
      OnCccdOff, OnStopNotify, OnRefreshUnregistered, OnAdvertisementUnregistered,
      OnGattUnregistered
  <2>2. Dispatching
    BY <1>2 DEF DispatchStep, Handles, OnGattRegistered, OnAdvertisementRegistered,
      OnAdvertisementReregistered, OnNameOwnerChanged, OnAdvertisementReleased, OnCccdOff,
      OnStopNotify, OnRefreshUnregistered, OnAdvertisementUnregistered, OnGattUnregistered
  <2>3. Has(queue, EndEvents) <=> Head(queue) \in EndEvents \/ Has(Rest, EndEvents)
    BY <1>0, <2>2, HasTail, Zenon DEF Dispatching, Rest
  <2>4. Head(queue).what \notin EndCalls
    BY <2>1, <2>2, <2>3, RestType DEF EndInv, EndEvents
  <2>5. Serves(Rest)
    BY <1>2, <2>4, DispatchServes
  <2>. QED
    BY <1>0, <1>1, <2>1, <2>2, <2>3, <2>5, ServesHas
<1>3. CASE TimerStep \/ Run
  <2>1. UNCHANGED shutdown
    BY <1>3 DEF TimerStep, RetryRegisterApplication, ReregisterTimer, RefreshAdvertisement, Run
  <2>. QED
    BY <1>0, <1>1, <1>3, <2>1, TimerServes, ServesHas
<1>4. ~ShutdownIdle
  BY <1>0, BeginShutdownSets DEF ShutdownIdle
<1>5. CASE StartReturns \/ RequestStop \/ AppSubscribes \/ UNCHANGED vars
  <2>1. UNCHANGED <<shutdown, queue, calls>>
    BY <1>5 DEF StartReturns, RequestStop, AppSubscribes, vars
  <2>. QED
    BY <1>1, <2>1
<1>6. CASE RunEnds
  <2>1. queue' = <<>> /\ calls' = <<>> /\ shutdown' = shutdown
    BY <1>6 DEF RunEnds
  <2>. QED
    BY <1>1, <2>1, HasOne
<1>7. CASE ReleasesAdvertisement \/ AppUnsubscribes \/ Restart
  <2>1. UNCHANGED <<shutdown, calls>>
    BY <1>7 DEF ReleasesAdvertisement, AppUnsubscribes, Restart
  <2>2. CASE queue' = queue
    BY <1>1, <2>1, <2>2
  <2>3. ASSUME NEW what \in Signals, Deliver(<<Signal(what)>>) PROVE EndInv'
    <3>1. Signal(what) \in Event /\ Signal(what) \notin EndEvents /\ <<Signal(what)>> \in Seq(Event)
      BY SignalEnds, OneInSeq
    <3>2. Has(queue', EndEvents) <=> Has(queue, EndEvents) \/ Has(<<Signal(what)>>, EndEvents)
      BY <2>3, <3>1, DeliverHas, Zenon
    <3>3. ~Has(<<Signal(what)>>, EndEvents)
      BY <3>1, HasOne, Zenon
    <3>. QED
      BY <1>1, <2>1, <3>2, <3>3
  <2>. QED
    BY <1>7, <2>2, <2>3 DEF ReleasesAdvertisement, AppUnsubscribes, Restart, Signals
<1>8. CASE AppDisconnects
  <2>. DEFINE e == [i \in 1..subs |-> Signal("StopNotify")]
  <2>1. subs \in Nat /\ Signal("StopNotify") \in Event /\ Signal("StopNotify") \notin EndEvents
    BY SignalEnds DEF TypeOK, BluezTypes, Signals
  <2>2. e \in Seq(Event) /\ ~Has(e, EndEvents)
    <3>1. e \in [1..subs -> Event \ EndEvents]
      BY <2>1
    <3>. HIDE DEF e
    <3>2. e \in Seq(Event \ EndEvents)
      BY <2>1, <3>1, FunctionIsSeq
    <3>. QED
      BY <3>2, ElementOfSeq DEF Has
  <2>3. UNCHANGED <<shutdown, calls>> /\ Deliver(e)
    BY <1>8 DEF AppDisconnects
  <2>. HIDE DEF e
  <2>. QED
    BY <1>1, <2>2, <2>3, DeliverHas
<1>9. CASE Crash
  <2>1. shutdown' = shutdown /\ calls' = <<>> /\ (queue' = queue \/ Deliver(LastWords))
    BY <1>9 DEF Crash, LastWords
  <2>2. ~Has(calls', EndCalls)
    BY <2>1, HasOne
  <2>. QED
    BY <1>1, <2>1, <2>2, LastWordsSay, DeliverHas
<1>10. CASE BluezStep
  <2>1. calls # <<>> /\ calls' = Tail(calls) /\ shutdown' = shutdown
    BY <1>10 DEF BluezStep, Registers, Refuses, Unregisters, Answer
  <2>2. Head(calls) \in Calls /\ (Has(calls, EndCalls) <=> Head(calls) \in EndCalls \/ Has(calls', EndCalls))
    BY <1>0, <2>1, HasTail, HeadTailProperties
  <2>3. ASSUME NEW ok \in BOOLEAN
        PROVE  /\ Reply(Head(calls), ok) \in Event
               /\ Reply(Head(calls), ok) \in EndEvents => Head(calls) \in EndCalls
    BY <2>2, ReplyIsEvent DEF EndEvents, Reply
  <2>4. ASSUME NEW ok \in BOOLEAN, Deliver(<<Reply(Head(calls), ok)>>) PROVE EndInv'
    <3>1. <<Reply(Head(calls), ok)>> \in Seq(Event)
      BY <2>3, OneInSeq
    <3>2. Has(queue', EndEvents) <=> Has(queue, EndEvents) \/ Has(<<Reply(Head(calls), ok)>>, EndEvents)
      BY <2>4, <3>1, DeliverHas, Zenon
    <3>3. Has(<<Reply(Head(calls), ok)>>, EndEvents) => Head(calls) \in EndCalls
      BY <2>3, HasOne, Zenon
    <3>. QED
      BY <1>1, <2>1, <2>2, <3>2, <3>3
  <2>5. CASE Deliver(<<Signal("OwnRelease"), Reply(Head(calls), TRUE)>>)
    <3>. DEFINE es == <<Signal("OwnRelease"), Reply(Head(calls), TRUE)>>
    <3>1. Signal("OwnRelease") \in Event /\ Signal("OwnRelease") \notin EndEvents
      BY SignalEnds DEF Signals
    <3>2. es \in Seq(Event)
      BY <2>3, <3>1, PairInSeq
    <3>3. Has(es, EndEvents) => Head(calls) \in EndCalls
      <4>1. Len(es) = 2 /\ es[1] = Signal("OwnRelease") /\ es[2] = Reply(Head(calls), TRUE)
        OBVIOUS
      <4>. HIDE DEF es
      <4>2. ASSUME NEW i \in 1..Len(es) PROVE es[i] \in EndEvents => Head(calls) \in EndCalls
        <5>1. i = 1 \/ i = 2
          BY <4>1
        <5>. QED
          BY <2>3, <3>1, <4>1, <5>1
      <4>. QED
        BY <4>2 DEF Has
    <3>4. Deliver(es)
      BY <2>5
    <3>. HIDE DEF es
    <3>. QED
      BY <1>1, <2>1, <2>2, <3>2, <3>3, <3>4, DeliverHas
  <2>. QED
    BY <1>10, <2>4, <2>5 DEF BluezStep, Registers, Refuses, Unregisters, TypeOK, BluezTypes
<1>. QED
  BY <1>2, <1>3, <1>4, <1>5, <1>6, <1>7, <1>8, <1>9, <1>10 DEF Next, AppStep

-----------------------------------------------------------------------------
(* While it serves, the server's belief is what bluetoothd has: about the       *)
(* application however things are timed, about the advertisement as long as no  *)
(* reply is overtaken.  And what is not registered is in hand.               *)
ServeNow ==
    /\ WillBeRegistered <=> app
    /\ prompt /\ WillBeAdvertised => adv
    /\ prompt /\ ~app => AppInHand
    /\ prompt /\ app => WillBeAdvertised \/ AdvInHand

ServeInv == loop = "running" /\ ~shutdown => ServeNow

(* An event is dispatched: the handler does to the flags what the event says,   *)
(* and whatever the event had in hand is still in hand.                      *)
LEMMA DispatchKeepsServe ==
  ASSUME TypeOK, ServeNow, Dispatching, UNCHANGED <<prompt, up, app, adv>>, Serves(Rest),
         gattRegistered' <=> Head(queue) \in AppSets \/ (gattRegistered /\ Head(queue) \notin AppClears),
         advRegistered' <=> Head(queue) \in AdvSets \/ (advRegistered /\ Head(queue) \notin AdvClears),
         \A kind \in Timers : timers[kind] > 0 => timers'[kind] > 0,
         Head(queue) \in AppEvents => AppInHand',
         app /\ Head(queue) \in AdvEvents => AdvInHand',
         advRegistered /\ ~advRegistered' => timers'["reregister"] > 0 \/ Head(queue) \in AppClears
  PROVE  ServeNow'
<1>1. queue \in Seq(Event) /\ queue # <<>> /\ Rest \in Seq(Event) /\ calls \in Seq(Calls)
  BY QueueType, RestType DEF Dispatching
<1>2. PICK call \in Calls : Send(call, Rest) \/ SendNothing(Rest)
  BY CallNames DEF Serves, ServeCalls
<1>3. WillBeRegistered' <=> WillBeRegistered
  <2>1. WillBeRegistered
          <=> Will(Head(queue) \in AppSets \/ (gattRegistered /\ Head(queue) \notin AppClears),
                   AppSets, AppClears, Rest)
    BY <1>1, WillTail, Zenon DEF WillBeRegistered, Rest
  <2>2. WillBeRegistered' <=> Will(gattRegistered', AppSets, AppClears, Rest)
    BY <1>1, <1>2, SendSays, SetsPrimed, Zenon
  <2>3. Will(gattRegistered', AppSets, AppClears, Rest)
          <=> Will(Head(queue) \in AppSets \/ (gattRegistered /\ Head(queue) \notin AppClears), AppSets, AppClears, Rest)
    BY Zenon DEF Will
  <2>. QED
    BY <2>1, <2>2, <2>3, Zenon
<1>4. WillBeAdvertised' <=> WillBeAdvertised
  <2>1. WillBeAdvertised
          <=> Will(Head(queue) \in AdvSets \/ (advRegistered /\ Head(queue) \notin AdvClears),
                   AdvSets, AdvClears, Rest)
    BY <1>1, WillTail, Zenon DEF WillBeAdvertised, Rest
  <2>2. WillBeAdvertised' <=> Will(advRegistered', AdvSets, AdvClears, Rest)
    BY <1>1, <1>2, SendSays, SetsPrimed, Zenon
  <2>3. Will(advRegistered', AdvSets, AdvClears, Rest)
          <=> Will(Head(queue) \in AdvSets \/ (advRegistered /\ Head(queue) \notin AdvClears), AdvSets, AdvClears, Rest)
    BY Zenon DEF Will
  <2>. QED
    BY <2>1, <2>2, <2>3, Zenon
<1>5. AppInHand => AppInHand'
  <2>1. Has(queue, AppEvents) => Head(queue) \in AppEvents \/ Has(queue', AppEvents)
    BY <1>1, <1>2, HasTail, SendHas, Zenon DEF Rest
  <2>2. Has(calls, AppCalls) => Has(calls', AppCalls)
    BY <1>1, <1>2, SendHas, Zenon
  <2>3. timers["retryApplication"] > 0 => timers'["retryApplication"] > 0
    OBVIOUS
  <2>. QED
    BY <2>1, <2>2, <2>3, SetsPrimed DEF AppInHand
<1>6. ASSUME app, WillBeRegistered, AdvInHand PROVE AdvInHand'
  <2>1. Has(queue, AdvEvents) => Head(queue) \in AdvEvents \/ Has(queue', AdvEvents)
    BY <1>1, <1>2, HasTail, SendHas, Zenon DEF Rest
  <2>2. Has(calls, AdvCalls) => Has(calls', AdvCalls)
    BY <1>1, <1>2, SendHas, Zenon
  <2>3. timers["reregister"] > 0 => timers'["reregister"] > 0
    OBVIOUS
  <2>4. CASE advRegistered /\ ~advRegistered' /\ Head(queue) \in AppClears
    <3>1. Head(queue) \notin AppSets
      BY <2>4 DEF AppSets, AppClears
    <3>2. Will(Head(queue) \in AppSets \/ (gattRegistered /\ Head(queue) \notin AppClears),
               AppSets, AppClears, Rest)
      BY <1>1, <1>6, WillTail, Zenon DEF WillBeRegistered, Rest
    <3>3. Has(Rest, AppSets)
      BY <2>4, <3>1, <3>2 DEF Will, Has
    <3>4. Has(Rest, AdvEvents)
      BY <3>3 DEF Has, AdvEvents
    <3>. QED
      BY <1>1, <1>2, <3>4, SendHas, SetsPrimed
  <2>. QED
    BY <1>6, <2>1, <2>2, <2>3, <2>4, SetsPrimed DEF AdvInHand
<1>. QED
  BY <1>3, <1>4, <1>5, <1>6 DEF ServeNow

(* What a handler sets a timer for is in hand, and so is what it asks for. *)
LEMMA ArmKeeps ==
  ASSUME TypeOK, NEW armed \in Timers, Arm(armed)
  PROVE  timers'[armed] > 0 /\ \A kind \in Timers : timers[kind] > 0 => timers'[kind] > 0
BY DEF Arm, TypeOK, ServerTypes

(* An application that is still to be registered: its reply comes later on. *)
LEMMA ReplyToCome ==
  ASSUME TypeOK, Dispatching, WillBeRegistered, Head(queue) \notin AppSets,
         ~gattRegistered \/ Head(queue) \in AppClears
  PROVE  Has(Rest, AdvEvents)
<1>1. Will(Head(queue) \in AppSets \/ (gattRegistered /\ Head(queue) \notin AppClears),
           AppSets, AppClears, Rest)
  BY QueueType, WillTail, Zenon DEF WillBeRegistered, Rest, Dispatching
<1>2. Has(Rest, AppSets)
  BY <1>1 DEF Will, Has
<1>. QED
  BY <1>2 DEF Has, AdvEvents

(* What an event is to the flags, by its name. *)
LEMMA EventKinds ==
  ASSUME NEW e \in Event
  PROVE  /\ e \in AppSets <=> e.what = "RegisterApplication" /\ e.ok
         /\ e \in AppClears <=> e.what = "Vanished"
         /\ e \in AdvSets <=> e.ok /\ e.what \in {"RegisterAdvertisement", "ReregisterAdvertisement"}
         /\ e \in AdvClears <=> e.what \in {"Vanished", "Released", "OwnRelease"}
         /\ e \in AppEvents <=> e.what = "Appeared" \/ (e.what = "RegisterApplication" /\ ~e.ok)
         /\ e \in AdvEvents <=> \/ e.what \in AdvCalls
                                \/ e.what = "RegisterApplication" /\ e.ok
         /\ e \in EndEvents <=> e.what \in EndCalls
         /\ e.ok \in BOOLEAN
BY DEF AppSets, AppClears, AdvSets, AdvClears, AppEvents, AdvEvents, EndEvents, Advertises, Event

(* Each handler, as long as it starts no shutdown. *)
LEMMA DispatchServe ==
  ASSUME TypeOK, TypeOK', FreshInv, EndInv, ServeNow, ~shutdown, ~shutdown', DispatchStep
  PROVE  ServeNow'
<1>1. Dispatching /\ Head(queue) \in Event /\ Rest \in Seq(Event) /\ queue \in Seq(Event) /\ queue # <<>>
  <2>1. Dispatching
    BY DEF DispatchStep, Handles, OnGattRegistered, OnAdvertisementRegistered,
      OnAdvertisementReregistered, OnNameOwnerChanged, OnAdvertisementReleased, OnCccdOff,
      OnStopNotify, OnRefreshUnregistered, OnAdvertisementUnregistered, OnGattUnregistered
  <2>. QED
    BY <2>1, RestType, QueueType DEF Dispatching
<1>2. Head(queue).what \notin EndCalls
  <2>1. Has(queue, EndEvents) <=> Head(queue) \in EndEvents \/ Has(Rest, EndEvents)
    BY <1>1, HasTail, Zenon DEF Rest
  <2>. QED
    BY <1>1, <2>1, EventKinds DEF EndInv
<1>3. Serves(Rest) /\ UNCHANGED <<prompt, up, app, adv>>
  BY <1>2, DispatchServes, HandlerFrame
<1>4. /\ gattRegistered \in BOOLEAN /\ advRegistered \in BOOLEAN /\ shutdown \in BOOLEAN
      /\ gattRegistered' \in BOOLEAN /\ advRegistered' \in BOOLEAN
      /\ timers \in [Timers -> Nat]
  BY DEF TypeOK, ServerTypes
<1>5. app => up /\ WillBeRegistered
  BY DEF FreshInv, ServeNow
<1>6. ASSUME NEW call \in AdvCalls, up, Send(call, Rest) PROVE AdvInHand'
  <2>1. call \in Calls
    BY CallNames DEF AdvCalls
  <2>2. Has(calls', AdvCalls)
    BY <1>1, <1>6, <2>1, SendHas
  <2>. QED
    BY <2>2, SetsPrimed
<1>7. ASSUME NEW q \in Seq(Event), up => Send("RegisterApplication", q) PROVE AppInHand'
  <2>1. up => Has(calls', AppCalls)
    BY <1>7, CallNames, SendHas DEF AppCalls
  <2>. QED
    BY <1>3, <2>1, SetsPrimed
<1>. USE <1>1, <1>4, EventKinds DEF Handles, Timers
<1>8. CASE OnGattRegistered
  <2>1. Head(queue).what = "RegisterApplication"
    BY <1>8 DEF OnGattRegistered
  <2>2. CASE Head(queue).ok
    <3>1. /\ gattRegistered' /\ timers' = timers /\ advRegistered' = advRegistered
          /\ up => Send("RegisterAdvertisement", Rest)
      BY <1>8, <2>2 DEF OnGattRegistered
    <3>2. app => AdvInHand'
      BY <1>5, <1>6, <3>1 DEF AdvCalls
    <3>. QED
      BY <1>3, <2>1, <2>2, <3>1, <3>2, DispatchKeepsServe
  <2>3. CASE ~Head(queue).ok
    <3>1. ready /\ Arm("retryApplication") /\ UNCHANGED <<gattRegistered, advRegistered>>
      BY <1>8, <2>3, BeginShutdownSets DEF OnGattRegistered, RegistrationFails
    <3>2. AppInHand'
      BY <3>1, ArmKeeps, SetsPrimed
    <3>3. Head(queue) \notin AdvEvents
      BY <2>1, <2>3 DEF AdvCalls
    <3>. QED
      BY <1>3, <2>1, <2>3, <3>1, <3>2, <3>3, ArmKeeps, DispatchKeepsServe
  <2>. QED
    BY <2>2, <2>3
<1>9. CASE OnAdvertisementRegistered
  <2>1. Head(queue).what = "RegisterAdvertisement" /\ gattRegistered' = gattRegistered
    BY <1>9 DEF OnAdvertisementRegistered
  <2>2. CASE Head(queue).ok
    <3>1. advRegistered' /\ timers' = timers
      BY <1>9, <2>2 DEF OnAdvertisementRegistered
    <3>2. AdvInHand'
      BY <3>1, SetsPrimed
    <3>. QED
      BY <1>3, <2>1, <2>2, <3>1, <3>2, DispatchKeepsServe
  <2>3. CASE ~Head(queue).ok
    <3>1. ready /\ Arm("reregister") /\ UNCHANGED advRegistered
      BY <1>9, <2>3, BeginShutdownSets DEF OnAdvertisementRegistered, RegistrationFails
    <3>2. AdvInHand'
      BY <3>1, ArmKeeps, SetsPrimed
    <3>. QED
      BY <1>3, <2>1, <2>3, <3>1, <3>2, ArmKeeps, DispatchKeepsServe
  <2>. QED
    BY <2>2, <2>3
<1>10. CASE OnAdvertisementReregistered
  <2>1. Head(queue).what = "ReregisterAdvertisement" /\ gattRegistered' = gattRegistered
    BY <1>10 DEF OnAdvertisementReregistered
  <2>2. CASE Head(queue).ok
    <3>1. advRegistered' /\ timers' = timers
      BY <1>10, <2>2 DEF OnAdvertisementReregistered
    <3>2. AdvInHand'
      BY <3>1, SetsPrimed
    <3>. QED
      BY <1>3, <2>1, <2>2, <3>1, <3>2, DispatchKeepsServe
  <2>3. CASE ~Head(queue).ok
    <3>1. Arm("reregister") /\ UNCHANGED advRegistered
      BY <1>10, <2>3 DEF OnAdvertisementReregistered
    <3>2. AdvInHand'
      BY <3>1, ArmKeeps, SetsPrimed
    <3>. QED
      BY <1>3, <2>1, <2>3, <3>1, <3>2, ArmKeeps, DispatchKeepsServe
  <2>. QED
    BY <2>2, <2>3
<1>11. CASE OnNameOwnerChanged
  <2>1. CASE Head(queue).what = "Vanished"
    <3>1. ~gattRegistered' /\ ~advRegistered' /\ timers' = timers
      BY <1>11, <2>1 DEF OnNameOwnerChanged
    <3>2. Head(queue) \notin AdvEvents
      BY <2>1 DEF AdvCalls
    <3>. QED
      BY <1>3, <2>1, <3>1, <3>2, DispatchKeepsServe
  <2>2. CASE Head(queue).what = "Appeared"
    <3>1. SetupBluez(Rest) /\ UNCHANGED <<gattRegistered, advRegistered>>
      BY <1>11, <2>2 DEF OnNameOwnerChanged
    <3>2. (up => Send("RegisterApplication", Rest)) /\ (timers' = timers \/ Arm("retryApplication"))
      BY <3>1 DEF SetupBluez
    <3>3. AppInHand'
      BY <1>7, <3>2
    <3>4. Head(queue) \notin AdvEvents
      BY <2>2 DEF AdvCalls
    <3>5. \A kind \in Timers : timers[kind] > 0 => timers'[kind] > 0
      BY <3>2, ArmKeeps
    <3>. QED
      BY <1>3, <2>2, <3>1, <3>3, <3>4, <3>5, DispatchKeepsServe
  <2>. QED
    BY <1>11, <2>1, <2>2 DEF OnNameOwnerChanged
<1>12. CASE OnAdvertisementReleased
  <2>1. /\ Head(queue).what \in {"Released", "OwnRelease"} /\ gattRegistered' = gattRegistered
        /\ ~advRegistered'
        /\ IF advRegistered THEN Arm("reregister") ELSE timers' = timers
    BY <1>12 DEF OnAdvertisementReleased
  <2>2. Head(queue) \notin AdvEvents
    BY <2>1 DEF AdvCalls
  <2>3. /\ \A kind \in Timers : timers[kind] > 0 => timers'[kind] > 0
        /\ advRegistered => timers'["reregister"] > 0
    BY <2>1, ArmKeeps
  <2>. QED
    BY <1>3, <2>1, <2>2, <2>3, DispatchKeepsServe
<1>13. CASE OnCccdOff \/ OnStopNotify
  <2>1. /\ Head(queue).what \in {"CccdOff", "StopNotify"} /\ UNCHANGED <<gattRegistered, advRegistered>>
        /\ timers' = timers \/ Arm("refresh")
    BY <1>13 DEF OnCccdOff, OnStopNotify, OnClientDisconnected
  <2>2. Head(queue) \notin AdvEvents
    BY <2>1 DEF AdvCalls
  <2>3. \A kind \in Timers : timers[kind] > 0 => timers'[kind] > 0
    BY <2>1, ArmKeeps
  <2>. QED
    BY <1>3, <2>1, <2>2, <2>3, DispatchKeepsServe
<1>14. CASE OnRefreshUnregistered
  <2>1. /\ Head(queue).what = "UnregisterForRefresh" /\ Reregister(Rest)
        /\ UNCHANGED <<gattRegistered, advRegistered, timers>>
    BY <1>14 DEF OnRefreshUnregistered
  <2>2. ASSUME app PROVE AdvInHand'
    <3>1. CASE advRegistered
      BY <2>1, <3>1, SetsPrimed
    <3>2. CASE ~gattRegistered
      <4>1. Has(Rest, AdvEvents)
        BY <1>5, <2>1, <2>2, <3>2, ReplyToCome
      <4>2. SendNothing(Rest)
        BY <2>1, <3>2 DEF Reregister
      <4>. QED
        BY <4>1, <4>2, SetsPrimed DEF SendNothing
    <3>3. CASE ~advRegistered /\ gattRegistered
      BY <1>5, <1>6, <2>1, <2>2, <3>3 DEF Reregister, AdvCalls
    <3>. QED
      BY <3>1, <3>2, <3>3
  <2>. QED
    BY <1>3, <2>1, <2>2, DispatchKeepsServe
<1>15. ~OnAdvertisementUnregistered /\ ~OnGattUnregistered
  BY <1>2 DEF OnAdvertisementUnregistered, OnGattUnregistered, EndCalls
<1>. QED
  BY <1>8, <1>9, <1>10, <1>11, <1>12, <1>13, <1>14, <1>15 DEF DispatchStep

(* A timer that waits for what is under way finds both queues empty: the flags  *)
(* are what bluetoothd has.                                                  *)
LEMMA TimerServe ==
  ASSUME TypeOK, TypeOK', FreshInv, ServeNow, ~shutdown, TimerStep
  PROVE  ServeNow'
<1>1. /\ gattRegistered \in BOOLEAN /\ advRegistered \in BOOLEAN /\ timers \in [Timers -> Nat]
      /\ advRegistered' \in BOOLEAN /\ prompt \in BOOLEAN /\ adv \in BOOLEAN /\ app \in BOOLEAN
      /\ queue \in Seq(Event) /\ calls \in Seq(Calls)
  BY QueueType DEF TypeOK, ServerTypes, BluezTypes
<1>2. UNCHANGED <<prompt, up, app, adv, gattRegistered>> /\ Serves(queue)
  <2>1. gattRegistered' = gattRegistered
    BY DEF TimerStep, RetryRegisterApplication, ReregisterTimer, RefreshAdvertisement
  <2>. QED
    BY <2>1, HandlerFrame, TimerServes
<1>3. PICK call \in Calls : Send(call, queue) \/ SendNothing(queue)
  BY <1>2, CallNames DEF Serves, ServeCalls
<1>4. WillBeRegistered' <=> app'
  <2>1. WillBeRegistered' <=> Will(gattRegistered, AppSets, AppClears, queue)
    BY <1>1, <1>2, <1>3, SendSays, SetsPrimed, Zenon
  <2>. QED
    BY <1>2, <2>1 DEF ServeNow, WillBeRegistered
<1>. SUFFICES ASSUME prompt
              PROVE  /\ WillBeAdvertised' => adv'
                     /\ ~app' => AppInHand'
                     /\ app' => WillBeAdvertised' \/ AdvInHand'
  BY <1>2, <1>4 DEF ServeNow
<1>5. queue = <<>> /\ calls = <<>>
  BY DEF TimerStep, RetryRegisterApplication, ReregisterTimer, RefreshAdvertisement, Fires
<1>6. /\ gattRegistered <=> app
      /\ WillBeAdvertised <=> advRegistered
  BY <1>1, <1>5, WillEmpty DEF ServeNow, WillBeRegistered, WillBeAdvertised
<1>7. WillBeAdvertised' <=> advRegistered'
  <2>1. WillBeAdvertised' <=> Will(advRegistered', AdvSets, AdvClears, queue)
    BY <1>1, <1>3, SendSays, SetsPrimed, Zenon
  <2>2. Will(advRegistered', AdvSets, AdvClears, queue) <=> advRegistered'
    BY <1>1, <1>5, WillEmpty
  <2>. QED
    BY <2>1, <2>2
<1>8. advRegistered' => advRegistered
  BY DEF TimerStep, RetryRegisterApplication, ReregisterTimer, RefreshAdvertisement
<1>9. WillBeAdvertised' => adv'
  BY <1>2, <1>6, <1>7, <1>8 DEF ServeNow
<1>10. ASSUME ~app' PROVE AppInHand'
  <2>1. ~app /\ (~up \/ timers["retryApplication"] > 0)
    <3>1. ~Has(queue, AppEvents) /\ ~Has(calls, AppCalls)
      BY <1>5, HasOne
    <3>. QED
      BY <1>2, <1>10, <3>1 DEF ServeNow, AppInHand
  <2>2. CASE RetryRegisterApplication /\ up
    <3>1. Send("RegisterApplication", queue)
      BY <1>6, <2>1, <2>2 DEF RetryRegisterApplication
    <3>2. Has(calls', AppCalls)
      BY <1>1, <2>2, <3>1, CallNames, SendHas DEF AppCalls
    <3>. QED
      BY <3>2, SetsPrimed
  <2>3. CASE ~up
    BY <1>2, <2>3, SetsPrimed
  <2>4. CASE ReregisterTimer \/ RefreshAdvertisement
    <3>1. timers'["retryApplication"] = timers["retryApplication"]
      BY <1>1, <2>4 DEF ReregisterTimer, RefreshAdvertisement, Fired
    <3>. QED
      BY <1>2, <2>1, <3>1, SetsPrimed
  <2>. QED
    BY <2>2, <2>3, <2>4 DEF TimerStep
<1>11. ASSUME app', ~advRegistered' PROVE AdvInHand'
  <2>1. app /\ up /\ gattRegistered
    BY <1>2, <1>6, <1>11 DEF FreshInv
  <2>2. ASSUME NEW c \in AdvCalls, Send(c, queue) PROVE AdvInHand'
    <3>1. c \in Calls
      BY CallNames DEF AdvCalls
    <3>2. Has(calls', AdvCalls)
      BY <1>1, <2>1, <2>2, <3>1, SendHas
    <3>. QED
      BY <3>2, SetsPrimed
  <2>3. CASE RetryRegisterApplication
    <3>1. advRegistered' = advRegistered /\ timers'["reregister"] = timers["reregister"]
      BY <1>1, <2>3 DEF RetryRegisterApplication, Fired
    <3>2. ~Has(queue, AdvEvents) /\ ~Has(calls, AdvCalls)
      BY <1>5, HasOne
    <3>3. timers["reregister"] > 0
      BY <1>6, <1>11, <2>1, <3>1, <3>2 DEF ServeNow, AdvInHand
    <3>. QED
      BY <3>1, <3>3, SetsPrimed
  <2>4. CASE ReregisterTimer
    <3>1. Send("ReregisterAdvertisement", queue)
      BY <1>1, <1>11, <2>1, <2>4 DEF ReregisterTimer, Reregister
    <3>. QED
      BY <2>2, <3>1 DEF AdvCalls
  <2>5. CASE RefreshAdvertisement
    <3>1. Send("ReregisterAdvertisement", queue) \/ Send("UnregisterForRefresh", queue)
      BY <1>1, <1>11, <2>1, <2>5 DEF RefreshAdvertisement, Reregister
    <3>. QED
      BY <2>2, <3>1 DEF AdvCalls
  <2>. QED
    BY <2>3, <2>4, <2>5 DEF TimerStep
<1>. QED
  BY <1>7, <1>9, <1>10, <1>11

(* An event arrives: what will be believed, and what is in hand. *)
LEMMA EventArrives ==
  ASSUME TypeOK, NEW e \in Event, Deliver(<<e>>), UNCHANGED flags
  PROVE  /\ WillBeRegistered' <=> e \in AppSets \/ (WillBeRegistered /\ e \notin AppClears)
         /\ WillBeAdvertised' <=> e \in AdvSets \/ (WillBeAdvertised /\ e \notin AdvClears)
         /\ Has(queue', AppEvents) <=> Has(queue, AppEvents) \/ e \in AppEvents
         /\ Has(queue', AdvEvents) <=> Has(queue, AdvEvents) \/ e \in AdvEvents
<1>1. queue \in Seq(Event) /\ queue' = Append(queue, e)
  BY QueueType, AppendIsConcat DEF Deliver
<1>2. UNCHANGED <<gattRegistered, advRegistered>>
  OBVIOUS
<1>3. WillBeRegistered' <=> e \in AppSets \/ (WillBeRegistered /\ e \notin AppClears)
  <2>1. Will(gattRegistered, AppSets, AppClears, Append(queue, e))
          <=> e \in AppSets \/ (Will(gattRegistered, AppSets, AppClears, queue) /\ e \notin AppClears)
    BY <1>1, WillAppend, Zenon
  <2>. QED
    BY <1>1, <1>2, <2>1, SetsPrimed, Zenon DEF WillBeRegistered
<1>4. WillBeAdvertised' <=> e \in AdvSets \/ (WillBeAdvertised /\ e \notin AdvClears)
  <2>1. Will(advRegistered, AdvSets, AdvClears, Append(queue, e))
          <=> e \in AdvSets \/ (Will(advRegistered, AdvSets, AdvClears, queue) /\ e \notin AdvClears)
    BY <1>1, WillAppend, Zenon
  <2>. QED
    BY <1>1, <1>2, <2>1, SetsPrimed, Zenon DEF WillBeAdvertised
<1>5. /\ Has(queue', AppEvents) <=> Has(queue, AppEvents) \/ e \in AppEvents
      /\ Has(queue', AdvEvents) <=> Has(queue, AdvEvents) \/ e \in AdvEvents
  BY <1>1, HasAppend, Zenon
<1>. QED
  BY <1>3, <1>4, <1>5

(* bluetoothd answers: what it does is what its reply will say, and a call in    *)
(* hand becomes a reply in hand.                                             *)
LEMMA BluezServe ==
  ASSUME TypeOK, EndInv, OwnReleaseInv, ServeNow, ~shutdown, BluezStep
  PROVE  ServeNow'
<1>1. /\ up /\ calls # <<>> /\ calls' = Tail(calls)
      /\ UNCHANGED <<prompt, flags, timers, up>>
  BY DEF BluezStep, Registers, Refuses, Unregisters, Answer
<1>2. /\ calls \in Seq(Calls) /\ queue \in Seq(Event) /\ Head(calls) \in Calls
      /\ app \in BOOLEAN /\ adv \in BOOLEAN /\ prompt \in BOOLEAN
      /\ Head(calls) = calls[1] /\ Len(calls) \in Nat /\ Len(calls) > 0
  BY <1>1, QueueType, LenProperties, EmptySeq, HeadTailProperties DEF TypeOK, BluezTypes, ServerTypes
<1>3. /\ Has(calls, EndCalls) <=> Head(calls) \in EndCalls \/ Has(calls', EndCalls)
      /\ Has(calls, AppCalls) <=> Head(calls) \in AppCalls \/ Has(calls', AppCalls)
      /\ Has(calls, AdvCalls) <=> Head(calls) \in AdvCalls \/ Has(calls', AdvCalls)
  BY <1>1, <1>2, HasTail, Zenon
<1>4. Head(calls) \notin EndCalls
  BY <1>3 DEF EndInv
<1>5. \A ok \in BOOLEAN : /\ Reply(Head(calls), ok) \in Event
                          /\ Reply(Head(calls), ok).what = Head(calls) /\ Reply(Head(calls), ok).ok = ok
  BY <1>2, ReplyIsEvent DEF Reply
<1>6. Head(calls) \notin Signals
  BY <1>2 DEF Calls, Registrations, Unregistrations, Signals
<1>7. CASE Registers
  <2>1. Deliver(<<Reply(Head(calls), TRUE)>>) /\ Head(calls) \in Registrations
    BY <1>7 DEF Registers
  <2>. DEFINE e == Reply(Head(calls), TRUE)
  <2>2. e \in Event /\ e.what = Head(calls) /\ e.ok = TRUE /\ Deliver(<<e>>)
    BY <1>5, <2>1
  <2>. HIDE DEF e
  <2>3. CASE Head(calls) = "RegisterApplication"
    <3>1. app' = TRUE /\ adv' = adv
      BY <1>7, <2>3 DEF Registers
    <3>2. e \in AppSets /\ e \in AdvEvents /\ e \notin AdvSets /\ e \notin AdvClears
      BY <2>2, <2>3, EventKinds
    <3>3. WillBeRegistered' /\ (WillBeAdvertised' => WillBeAdvertised) /\ AdvInHand'
      BY <1>1, <2>2, <3>2, EventArrives, SetsPrimed
    <3>. QED
      BY <1>1, <3>1, <3>3 DEF ServeNow
  <2>4. CASE Head(calls) # "RegisterApplication"
    <3>1. app' = app /\ adv' = TRUE
      BY <1>7, <2>4 DEF Registers
    <3>2. e \notin AppSets /\ e \notin AppClears /\ e \in AdvSets
      BY <2>1, <2>2, <2>4, EventKinds DEF Registrations
    <3>3. WillBeAdvertised' /\ (WillBeRegistered' <=> WillBeRegistered)
      BY <1>1, <2>2, <3>2, EventArrives
    <3>4. AppInHand => AppInHand'
      <4>1. Head(calls) \notin AppCalls
        BY <2>4 DEF AppCalls
      <4>2. Has(queue, AppEvents) => Has(queue', AppEvents)
        BY <1>1, <2>2, EventArrives
      <4>. QED
        BY <1>1, <1>3, <4>1, <4>2, SetsPrimed DEF AppInHand
    <3>. QED
      BY <1>1, <3>1, <3>3, <3>4 DEF ServeNow
  <2>. QED
    BY <2>3, <2>4
<1>8. CASE Refuses
  <2>1. Deliver(<<Reply(Head(calls), FALSE)>>) /\ Head(calls) \in Registrations /\ UNCHANGED <<app, adv>>
    BY <1>8 DEF Refuses
  <2>. DEFINE e == Reply(Head(calls), FALSE)
  <2>2. e \in Event /\ e.what = Head(calls) /\ e.ok = FALSE /\ Deliver(<<e>>)
    BY <1>5, <2>1
  <2>. HIDE DEF e
  <2>3. /\ e \notin AppSets /\ e \notin AppClears /\ e \notin AdvSets /\ e \notin AdvClears
        /\ Head(calls) \in AppCalls => e \in AppEvents
        /\ Head(calls) \in AdvCalls => e \in AdvEvents
    BY <1>6, <2>2, EventKinds DEF AppCalls, Signals
  <2>4. /\ WillBeRegistered' <=> WillBeRegistered
        /\ WillBeAdvertised' <=> WillBeAdvertised
        /\ Has(queue, AppEvents) \/ Head(calls) \in AppCalls => Has(queue', AppEvents)
        /\ Has(queue, AdvEvents) \/ Head(calls) \in AdvCalls => Has(queue', AdvEvents)
    BY <1>1, <2>2, <2>3, EventArrives
  <2>5. (AppInHand => AppInHand') /\ (AdvInHand => AdvInHand')
    BY <1>1, <1>3, <2>4, SetsPrimed DEF AppInHand, AdvInHand
  <2>. QED
    BY <1>1, <2>1, <2>4, <2>5 DEF ServeNow
<1>9. CASE Unregisters
  <2>1. Head(calls) = "UnregisterForRefresh"
    BY <1>4, <1>9 DEF Unregisters, Unregistrations, EndCalls
  <2>2. /\ adv' = FALSE /\ app' = app
        /\ \/ Deliver(<<Reply(Head(calls), adv)>>)
           \/ Deliver(<<Signal("OwnRelease"), Reply(Head(calls), TRUE)>>)
    BY <1>9, <2>1 DEF Unregisters
  <2>3. prompt => ~WillBeAdvertised
    <3>. SUFFICES ASSUME prompt PROVE ~WillBeAdvertised
      OBVIOUS
    <3>1. ~advRegistered /\ \A k \in 1..Len(queue) : ~Advertises(queue[k])
      BY <1>2, <2>1 DEF OwnReleaseInv
    <3>. QED
      BY <3>1 DEF WillBeAdvertised, Will, AdvSets
  <2>4. ASSUME /\ WillBeRegistered' <=> WillBeRegistered
               /\ WillBeAdvertised' => WillBeAdvertised
               /\ Has(queue, AppEvents) => Has(queue', AppEvents)
               /\ Has(queue', AdvEvents)
        PROVE  ServeNow'
    <3>1. AppInHand => AppInHand'
      <4>1. Head(calls) \notin AppCalls
        BY <2>1 DEF AppCalls
      <4>. QED
        BY <1>1, <1>3, <2>4, <4>1, SetsPrimed DEF AppInHand
    <3>2. AdvInHand'
      BY <2>4, SetsPrimed
    <3>. QED
      BY <1>1, <2>2, <2>3, <2>4, <3>1, <3>2 DEF ServeNow
  <2>5. ASSUME NEW ok \in BOOLEAN
        PROVE  LET e == Reply(Head(calls), ok) IN
               e \in Event \ (AppSets \cup AppClears \cup AdvSets \cup AdvClears) /\ e \in AdvEvents
    <3>. DEFINE e == Reply(Head(calls), ok)
    <3>1. e \in Event /\ e.what = "UnregisterForRefresh"
      BY <1>5, <2>1
    <3>. HIDE DEF e
    <3>2. e \in Event \ (AppSets \cup AppClears \cup AdvSets \cup AdvClears) /\ e \in AdvEvents
      BY <3>1, EventKinds DEF AdvCalls
    <3>. QED
      BY <3>2 DEF e
  <2>6. CASE Deliver(<<Reply(Head(calls), adv)>>)
    <3>. DEFINE e == Reply(Head(calls), adv)
    <3>1. e \in Event \ (AppSets \cup AppClears \cup AdvSets \cup AdvClears) /\ e \in AdvEvents /\ Deliver(<<e>>)
      BY <1>2, <2>5, <2>6
    <3>. HIDE DEF e
    <3>. QED
      BY <1>1, <2>4, <3>1, EventArrives
  <2>7. CASE Deliver(<<Signal("OwnRelease"), Reply(Head(calls), TRUE)>>)
    <3>. DEFINE s == Signal("OwnRelease")
                e == Reply(Head(calls), TRUE)
                es == <<s, e>>
    <3>1. s \in Event /\ s \notin AppSets \cup AppClears \cup AdvSets
      BY SignalIsEvent DEF Signals, Signal, AppSets, AppClears, AdvSets, Advertises
    <3>2. e \in Event \ (AppSets \cup AppClears \cup AdvSets \cup AdvClears) /\ e \in AdvEvents
      BY <2>5
    <3>3. Deliver(es)
      BY <2>7
    <3>. HIDE DEF s, e
    <3>4. es \in Seq(Event) /\ Len(es) = 2 /\ es[1] = s /\ es[2] = e
      BY <3>1, <3>2, PairInSeq
    <3>. HIDE DEF es
    <3>5. \A P : Has(es, P) <=> s \in P \/ e \in P
      BY <3>4 DEF Has
    <3>6. /\ Will(gattRegistered, AppSets, AppClears, queue \o es)
               <=> Will(gattRegistered, AppSets, AppClears, queue)
          /\ Will(advRegistered, AdvSets, AdvClears, queue \o es)
               => Will(advRegistered, AdvSets, AdvClears, queue)
      <4>1. ~Has(es, AppSets) /\ ~Has(es, AppClears) /\ ~Has(es, AdvSets)
        BY <3>1, <3>2, <3>5
      <4>. QED
        BY <1>2, <3>4, <4>1, WillPlain, Zenon
    <3>7. /\ WillBeRegistered' <=> WillBeRegistered
          /\ WillBeAdvertised' => WillBeAdvertised
      BY <1>1, <3>3, <3>6, SetsPrimed, Zenon DEF Deliver, WillBeRegistered, WillBeAdvertised
    <3>8. Has(queue, AppEvents) => Has(queue', AppEvents)
      BY <3>3, <3>4, DeliverHas, Zenon
    <3>9. Has(queue', AdvEvents)
      <4>1. Has(es, AdvEvents)
        BY <3>2, <3>5, Zenon
      <4>. QED
        BY <3>3, <3>4, <4>1, DeliverHas, Zenon
    <3>. QED
      BY <2>4, <3>7, <3>8, <3>9
  <2>. QED
    BY <2>2, <2>6, <2>7
<1>. QED
  BY <1>7, <1>8, <1>9 DEF BluezStep

(* Steps that leave all of it alone. *)
LEMMA ServeFrame ==
  ASSUME ServeNow, UNCHANGED <<prompt, gattRegistered, advRegistered, timers, queue, calls, up, app, adv>>
  PROVE  ServeNow'
BY DEF ServeNow, WillBeRegistered, WillBeAdvertised, AppInHand, AdvInHand

(* An event that says nothing of the flags. *)
LEMMA PlainServe ==
  ASSUME TypeOK, ServeNow, NEW e \in Seq(Event), Deliver(e),
         UNCHANGED <<prompt, flags, timers, calls, up, app, adv>>,
         \A i \in 1..Len(e) : e[i].what \in {"CccdOff", "StopNotify"}
  PROVE  ServeNow'
<1>1. ~Has(e, AppSets) /\ ~Has(e, AppClears) /\ ~Has(e, AdvSets) /\ ~Has(e, AdvClears)
  BY DEF Has, AppSets, AppClears, AdvSets, AdvClears, Advertises
<1>2. queue \in Seq(Event)
  BY QueueType
<1>3. /\ Will(gattRegistered, AppSets, AppClears, queue \o e) <=> Will(gattRegistered, AppSets, AppClears, queue)
      /\ Will(advRegistered, AdvSets, AdvClears, queue \o e) <=> Will(advRegistered, AdvSets, AdvClears, queue)
  BY <1>1, <1>2, WillPlain, Zenon
<1>4. (WillBeRegistered' <=> WillBeRegistered) /\ (WillBeAdvertised' <=> WillBeAdvertised)
  BY <1>3, SetsPrimed, Zenon DEF Deliver, WillBeRegistered, WillBeAdvertised
<1>5. /\ Has(queue, AppEvents) => Has(queue', AppEvents)
      /\ Has(queue, AdvEvents) => Has(queue', AdvEvents)
  BY DeliverHas, Zenon
<1>6. (AppInHand => AppInHand') /\ (AdvInHand => AdvInHand')
  BY <1>5, SetsPrimed DEF AppInHand, AdvInHand
<1>. QED
  BY <1>4, <1>6 DEF ServeNow

(* bluetoothd drops the advertisement: the event that tells of it is on its way, *)
(* and so is what the server will do about it.                               *)
LEMMA ReleaseServe ==
  ASSUME TypeOK, ServeNow, ReleasesAdvertisement
  PROVE  ServeNow'
<1>. DEFINE e == Signal("Released")
<1>1. e \in Event /\ e.what = "Released"
  BY SignalIsEvent DEF Signals, Signal
<1>2. /\ Deliver(<<e>>) /\ UNCHANGED <<prompt, flags, timers, calls, up, app>> /\ adv' = FALSE
  BY DEF ReleasesAdvertisement
<1>. HIDE DEF e
<1>3. e \notin AppSets /\ e \notin AppClears /\ e \notin AdvSets /\ e \in AdvClears
  BY <1>1, EventKinds
<1>4. /\ WillBeRegistered' <=> WillBeRegistered
      /\ ~WillBeAdvertised'
      /\ Has(queue, AppEvents) => Has(queue', AppEvents)
      /\ Has(queue, AdvEvents) => Has(queue', AdvEvents)
  BY <1>1, <1>2, <1>3, EventArrives
<1>5. (AppInHand => AppInHand') /\ (AdvInHand => AdvInHand')
  BY <1>2, <1>4, SetsPrimed DEF AppInHand, AdvInHand
<1>6. WillBeAdvertised => AdvInHand
  <2>1. AdvSets \subseteq AdvEvents
    BY DEF AdvSets, AdvEvents, Advertises, AdvCalls
  <2>. QED
    BY <2>1 DEF WillBeAdvertised, Will, AdvInHand, Has
<1>. QED
  BY <1>2, <1>4, <1>5, <1>6 DEF ServeNow

(* It dies: whatever it had registered, its last words clear, and the server has *)
(* to wait for it to come back.                                              *)
LEMMA CrashServe ==
  ASSUME TypeOK, loop = "running", Crash
  PROVE  ServeNow'
<1>. DEFINE v == Signal("Vanished")
            r == [i \in 1..Len(calls) |-> Reply(calls[i], FALSE)]
<1>1. /\ queue' = queue \o (<<v>> \o r)
      /\ UNCHANGED <<flags>> /\ app' = FALSE /\ adv' = FALSE /\ up' = FALSE
  BY DEF Crash, Deliver
<1>2. <<v>> \in Seq(Event) /\ r \in Seq(Event) /\ ~Has(r, AppSets) /\ ~Has(r, AdvSets)
  BY LastWordsSay
<1>3. v \notin AppSets /\ v \in AppClears /\ v \notin AdvSets /\ v \in AdvClears
  <2>1. v \in Event /\ v.what = "Vanished"
    BY SignalIsEvent DEF Signals, Signal
  <2>. HIDE DEF v
  <2>. QED
    BY <2>1, EventKinds
<1>. HIDE DEF v, r
<1>4. queue \in Seq(Event) /\ <<v>> \o r \in Seq(Event)
  BY <1>2, QueueType, ConcatProperties
<1>5. ASSUME NEW S, NEW C, NEW flag, v \notin S, v \in C, ~Has(r, S) PROVE ~Will(flag, S, C, queue')
  <2>1. Will(flag, S, C, queue \o (<<v>> \o r)) <=> Will(Will(flag, S, C, queue), S, C, <<v>> \o r)
    BY <1>4, WillConcat, Zenon
  <2>2. Will(Will(flag, S, C, queue), S, C, <<v>> \o r) => Will(Will(flag, S, C, queue), S, C, <<v>>)
    BY <1>2, <1>5, WillPlain, Zenon
  <2>3. ~Will(Will(flag, S, C, queue), S, C, <<v>>)
    BY <1>5, WillOne, Zenon
  <2>. QED
    BY <1>1, <2>1, <2>2, <2>3, Zenon
<1>6. ~WillBeRegistered' /\ ~WillBeAdvertised'
  BY <1>2, <1>3, <1>5, SetsPrimed, Zenon
<1>7. AppInHand'
  BY <1>1, SetsPrimed
<1>. QED
  BY <1>1, <1>6, <1>7 DEF ServeNow

(* It comes back: the server will be told, and registers again. *)
LEMMA RestartServe ==
  ASSUME TypeOK, FreshInv, ServeNow, loop = "running", Restart
  PROVE  ServeNow'
<1>. DEFINE e == Signal("Appeared")
<1>1. e \in Event /\ e.what = "Appeared"
  BY SignalIsEvent DEF Signals, Signal
<1>2. /\ Deliver(<<e>>) /\ UNCHANGED <<prompt, flags, timers, calls, app, adv>>
      /\ ~app /\ ~adv
  BY DEF Restart, FreshInv
<1>. HIDE DEF e
<1>3. e \notin AppSets /\ e \notin AppClears /\ e \notin AdvSets /\ e \notin AdvClears /\ e \in AppEvents
  BY <1>1, EventKinds
<1>4. /\ WillBeRegistered' <=> WillBeRegistered
      /\ WillBeAdvertised' <=> WillBeAdvertised
      /\ Has(queue', AppEvents)
  BY <1>1, <1>2, <1>3, EventArrives
<1>5. AppInHand'
  BY <1>4, SetsPrimed
<1>. QED
  BY <1>2, <1>4, <1>5 DEF ServeNow

(* The start: the first registration is under way. *)
LEMMA RunServe ==
  ASSUME TypeOK, FreshInv, Run, loop' = "running"
  PROVE  ServeNow'
<1>1. /\ up /\ Send("RegisterApplication", queue)
      /\ UNCHANGED <<gattRegistered, advRegistered, app, adv>> /\ loop = "new"
  BY DEF Run
<1>2. queue = <<>> /\ ~gattRegistered /\ ~advRegistered /\ ~app /\ ~adv
  BY <1>1 DEF FreshInv
<1>3. queue' = <<>> /\ ~gattRegistered' /\ ~advRegistered' /\ ~app' /\ ~adv'
  BY <1>1, <1>2 DEF Send
<1>4. ~WillBeRegistered' /\ ~WillBeAdvertised'
  <2>1. gattRegistered' \in BOOLEAN /\ advRegistered' \in BOOLEAN
    BY <1>1 DEF TypeOK, ServerTypes
  <2>. QED
    BY <1>3, <2>1, WillEmpty, SetsPrimed
<1>5. AppInHand'
  <2>1. Has(calls', AppCalls)
    BY <1>1, QueueType, CallNames, SendHas DEF AppCalls
  <2>. QED
    BY <2>1, SetsPrimed
<1>. QED
  BY <1>3, <1>4, <1>5 DEF ServeNow

LEMMA NextServe ==
  TypeOK /\ TypeOK' /\ FreshInv /\ EndInv /\ OwnReleaseInv /\ ServeInv /\ [Next]_vars => ServeInv'
<1>. SUFFICES ASSUME TypeOK, TypeOK', FreshInv, EndInv, OwnReleaseInv, ServeInv, [Next]_vars,
                     loop' = "running", ~shutdown'
              PROVE  ServeNow'
  BY DEF ServeInv
<1>0. shutdown \in BOOLEAN
  BY DEF TypeOK, ServerTypes
<1>1. CASE DispatchStep
  <2>1. ~shutdown
    BY <1>0, <1>1, BeginShutdownSets DEF DispatchStep, OnGattRegistered, OnAdvertisementRegistered,
      RegistrationFails, OnAdvertisementReregistered, OnNameOwnerChanged, OnAdvertisementReleased,
      OnCccdOff, OnStopNotify, OnRefreshUnregistered, OnAdvertisementUnregistered,
      OnGattUnregistered
  <2>2. loop = "running"
    BY <1>1, HandlerFrame
  <2>. QED
    BY <1>1, <2>1, <2>2, DispatchServe DEF ServeInv
<1>2. CASE TimerStep
  <2>1. ~shutdown
    BY <1>2 DEF TimerStep, RetryRegisterApplication, ReregisterTimer, RefreshAdvertisement
  <2>2. loop = "running"
    BY <1>2, HandlerFrame
  <2>. QED
    BY <1>2, <2>1, <2>2, TimerServe DEF ServeInv
<1>3. CASE Run
  BY <1>3, RunServe
<1>4. ~ShutdownIdle /\ ~RunEnds
  BY <1>0, BeginShutdownSets DEF ShutdownIdle, RunEnds
<1>5. CASE StartReturns \/ RequestStop \/ AppSubscribes \/ UNCHANGED vars
  <2>1. /\ UNCHANGED <<prompt, gattRegistered, advRegistered, timers, queue, calls, up, app, adv>>
        /\ UNCHANGED <<loop, shutdown>>
    BY <1>5 DEF StartReturns, RequestStop, AppSubscribes, vars, flags, bluezVars
  <2>. QED
    BY <2>1, ServeFrame DEF ServeInv
<1>6. CASE BluezStep
  <2>1. UNCHANGED <<loop, shutdown>>
    BY <1>6 DEF BluezStep, Registers, Refuses, Unregisters, Answer, flags
  <2>. QED
    BY <1>6, <2>1, BluezServe DEF ServeInv
<1>7. CASE ReleasesAdvertisement
  <2>1. UNCHANGED <<loop, shutdown>>
    BY <1>7 DEF ReleasesAdvertisement, flags
  <2>. QED
    BY <1>7, <2>1, ReleaseServe DEF ServeInv
<1>8. CASE Crash
  BY <1>8, CrashServe DEF Crash
<1>9. CASE Restart
  <2>1. UNCHANGED <<loop, shutdown>>
    BY <1>9 DEF Restart, flags
  <2>. QED
    BY <1>9, <2>1, RestartServe DEF ServeInv
<1>10. CASE AppUnsubscribes \/ AppDisconnects
  <2>1. /\ UNCHANGED <<loop, shutdown>>
        /\ UNCHANGED <<prompt, flags, timers, calls, up, app, adv>>
    BY <1>10 DEF AppUnsubscribes, AppDisconnects, flags, bluezVars
  <2>2. Signal("CccdOff") \in Event /\ Signal("StopNotify") \in Event /\ subs \in Nat
    BY SignalIsEvent DEF Signals, TypeOK, BluezTypes
  <2>3. CASE AppUnsubscribes
    <3>. DEFINE es == <<Signal("CccdOff")>>
    <3>1. es \in Seq(Event) /\ \A i \in 1..Len(es) : es[i].what \in {"CccdOff", "StopNotify"}
      BY <2>2, OneInSeq DEF Signal
    <3>2. Deliver(es)
      BY <2>3 DEF AppUnsubscribes
    <3>. HIDE DEF es
    <3>. QED
      BY <2>1, <3>1, <3>2, PlainServe DEF ServeInv
  <2>4. CASE AppDisconnects
    <3>. DEFINE es == [i \in 1..subs |-> Signal("StopNotify")]
                P == {e \in Event : e.what \in {"CccdOff", "StopNotify"}}
    <3>1. es \in Seq(Event) /\ \A i \in 1..Len(es) : es[i].what \in {"CccdOff", "StopNotify"}
      <4>1. Signal("StopNotify") \in P
        BY <2>2 DEF Signal
      <4>2. es \in [1..subs -> P] /\ es \in [1..subs -> Event]
        BY <2>2, <4>1
      <4>. HIDE DEF es
      <4>3. es \in Seq(P) /\ es \in Seq(Event)
        BY <2>2, <4>2, FunctionIsSeq
      <4>. QED
        BY <4>3, ElementOfSeq
    <3>2. Deliver(es)
      BY <2>4 DEF AppDisconnects
    <3>. HIDE DEF es
    <3>. QED
      BY <2>1, <3>1, <3>2, PlainServe DEF ServeInv
  <2>. QED
    BY <1>10, <2>3, <2>4
<1>. QED
  BY <1>1, <1>2, <1>3, <1>4, <1>5, <1>6, <1>7, <1>8, <1>9, <1>10 DEF Next, AppStep

LEMMA InitServe == Init => FreshInv /\ EndInv /\ OwnReleaseInv /\ ServeInv
<1>. SUFFICES ASSUME Init PROVE FreshInv /\ EndInv /\ OwnReleaseInv /\ ServeInv
  OBVIOUS
<1>1. /\ queue = <<>> /\ calls = <<>> /\ loop = "new" /\ prompt \in BOOLEAN
      /\ ~gattRegistered /\ ~advRegistered /\ ~app /\ ~adv /\ subs = 0
  BY DEF Init
<1>2. ~Has(queue, EndEvents) /\ ~Has(calls, EndCalls)
  BY <1>1, HasOne
<1>. QED
  BY <1>1, <1>2 DEF FreshInv, EndInv, OwnReleaseInv, ServeInv

LEMMA ServeAlways == Spec => [](TypeOK /\ FreshInv /\ EndInv /\ OwnReleaseInv /\ ServeInv)
BY TypeCorrect, InitServe, NextFresh, NextEnd, NextOwnRelease, NextServe, PTL DEF Spec

(* A server that has heard all it was told is right about bluetoothd: it counts   *)
(* the application as registered exactly when it is, however late or early       *)
(* timers fire; and as long as no reply is overtaken by a timer, it does not     *)
(* count an advertisement as registered that is gone (_gatt_registered and       *)
(* _advertisement_registered, on which every handler decides).                *)
BeliefIsTrue ==
    loop = "running" /\ ~shutdown /\ queue = <<>> =>
        /\ gattRegistered <=> app
        /\ prompt /\ advRegistered => adv

(* What the flags say is so, for any number of deaths, releases and refusals.   *)
THEOREM BeliefsAreTrue == Spec => []BeliefIsTrue
<1>1. TypeOK /\ ServeInv => BeliefIsTrue
  <2>. SUFFICES ASSUME TypeOK, ServeInv, loop = "running", ~shutdown, queue = <<>> PROVE BeliefIsTrue
    BY DEF BeliefIsTrue
  <2>1. gattRegistered \in BOOLEAN /\ advRegistered \in BOOLEAN
    BY DEF TypeOK, ServerTypes
  <2>2. (WillBeRegistered <=> gattRegistered) /\ (WillBeAdvertised <=> advRegistered)
    BY <2>1, WillEmpty DEF WillBeRegistered, WillBeAdvertised
  <2>. QED
    BY <2>2 DEF ServeInv, ServeNow, BeliefIsTrue
<1>. QED
  BY ServeAlways, <1>1, PTL

(* At rest: the loop runs, bluetoothd is up, and nobody waits for anything -- no   *)
(* call, no reply, no signal, no timer.                                      *)
AtRest ==
    /\ loop = "running" /\ ~shutdown /\ up
    /\ calls = <<>> /\ queue = <<>>
    /\ \A kind \in Timers : timers[kind] = 0

RestIsServing == prompt /\ AtRest => app /\ adv

(* No dead end: as long as no reply is overtaken by a timer, a bridge that is   *)
(* not registered, or does not advertise, while bluetoothd is up, waits for      *)
(* something that leads to a registration.  Nothing bluetoothd does -- refuse,   *)
(* release, die at any point, come back -- leaves the bridge at rest and deaf    *)
(* (the timers of 2 and 5 s on every error path of _on_gatt_registered,          *)
(* _on_advertisement_registered, _on_name_owner_changed and the rest).  Heals    *)
(* rests on it; that a timer does fire is left to fairness.                    *)
THEOREM NoDeadEnd == Spec => []RestIsServing
<1>1. TypeOK /\ ServeInv => RestIsServing
  <2>. SUFFICES ASSUME TypeOK, ServeInv, prompt, AtRest PROVE app /\ adv
    BY DEF RestIsServing
  <2>1. gattRegistered \in BOOLEAN /\ advRegistered \in BOOLEAN /\ timers \in [Timers -> Nat]
    BY DEF TypeOK, ServerTypes
  <2>2. ~Has(queue, AppEvents) /\ ~Has(calls, AppCalls) /\ ~Has(queue, AdvEvents) /\ ~Has(calls, AdvCalls)
    BY HasOne DEF AtRest
  <2>3. ServeNow /\ timers["retryApplication"] = 0 /\ timers["reregister"] = 0 /\ up
    BY DEF ServeInv, AtRest, Timers
  <2>4. ~AppInHand /\ (AdvInHand => advRegistered)
    BY <2>2, <2>3 DEF AppInHand, AdvInHand
  <2>5. WillBeAdvertised <=> advRegistered
    BY <2>1, WillEmpty DEF WillBeAdvertised, AtRest
  <2>. QED
    BY <2>3, <2>4, <2>5 DEF ServeNow
<1>. QED
  BY ServeAlways, <1>1, PTL

-----------------------------------------------------------------------------
(* A shutdown is a chain of calls, each made when the one before is answered.    *)
(* The chain does not break: as long as the loop runs a link is under way.      *)
ShutdownIsCarriedOn ==
    shutdown /\ loop = "running" => Has(queue, EndEvents) \/ Has(calls, EndCalls)

LEMMA CarriedOnPrimed ==
  ShutdownIsCarriedOn' <=>
    (shutdown' /\ loop' = "running" => Has(queue', EndEvents) \/ Has(calls', EndCalls))
BY DEF ShutdownIsCarriedOn

LEMMA SendCarriesOn ==
  ASSUME TypeOK, NEW call \in EndCalls, NEW q \in Seq(Event), Send(call, q)
  PROVE  ShutdownIsCarriedOn'
<1>1. call \in Calls /\ Reply(call, FALSE) \in Event /\ Reply(call, FALSE) \in EndEvents
  BY CallNames, ReplyIsEvent DEF EndCalls, EndEvents, Reply
<1>2. up => Has(calls', EndCalls)
  BY <1>1, SendHas
<1>3. ~up => Has(queue', EndEvents)
  <2>1. Has(Append(q, Reply(call, FALSE)), EndEvents) <=> Has(q, EndEvents) \/ Reply(call, FALSE) \in EndEvents
    BY <1>1, HasAppend, Zenon
  <2>. QED
    BY <1>1, <2>1 DEF Send
<1>. QED
  BY <1>2, <1>3, CarriedOnPrimed DEF TypeOK, BluezTypes

LEMMA UnregisterGattCarriesOn ==
  ASSUME TypeOK, NEW q \in Seq(Event), UnregisterGatt(q)
  PROVE  ShutdownIsCarriedOn'
<1>1. CASE gattRegistered
  BY <1>1, SendCarriesOn DEF UnregisterGatt, EndCalls
<1>2. CASE ~gattRegistered
  BY <1>2, CarriedOnPrimed DEF UnregisterGatt
<1>. QED
  BY <1>1, <1>2

LEMMA BeginShutdownCarriesOn ==
  ASSUME TypeOK, NEW q \in Seq(Event), BeginShutdown(q), ~shutdown
  PROVE  ShutdownIsCarriedOn'
<1>1. CASE advRegistered
  BY <1>1, SendCarriesOn DEF BeginShutdown, EndCalls
<1>2. CASE ~advRegistered
  BY <1>2, UnregisterGattCarriesOn DEF BeginShutdown
<1>. QED
  BY <1>1, <1>2

(* A handler that is no link of the chain leaves the links where they are. *)
LEMMA SendKeepsOn ==
  ASSUME TypeOK, ShutdownIsCarriedOn, NEW q \in Seq(Event), Sends(q),
         q = queue \/ (Dispatching /\ q = Rest /\ Head(queue).what \notin EndCalls),
         shutdown' => shutdown, loop' = "running" => loop = "running"
  PROVE  ShutdownIsCarriedOn'
<1>1. PICK call \in Calls : Send(call, q) \/ SendNothing(q)
  BY CallNames DEF Sends
<1>2. (Has(q, EndEvents) => Has(queue', EndEvents)) /\ (Has(calls, EndCalls) => Has(calls', EndCalls))
  BY <1>1, SendHas
<1>3. Has(queue, EndEvents) => Has(q, EndEvents)
  <2>1. CASE q = queue
    BY <2>1
  <2>2. CASE Dispatching /\ q = Rest /\ Head(queue).what \notin EndCalls
    <3>1. Has(queue, EndEvents) <=> Head(queue) \in EndEvents \/ Has(Rest, EndEvents)
      BY <2>2, QueueType, HasTail, Zenon DEF Rest, Dispatching
    <3>. QED
      BY <2>2, <3>1 DEF EndEvents
  <2>. QED
    BY <2>1, <2>2
<1>. QED
  BY <1>2, <1>3, CarriedOnPrimed DEF ShutdownIsCarriedOn

LEMMA NextCarriedOn == TypeOK /\ TypeOK' /\ NewInv /\ ShutdownIsCarriedOn /\ [Next]_vars => ShutdownIsCarriedOn'
<1>. SUFFICES ASSUME TypeOK, TypeOK', NewInv, ShutdownIsCarriedOn, [Next]_vars PROVE ShutdownIsCarriedOn'
  OBVIOUS
<1>0. /\ queue \in Seq(Event) /\ calls \in Seq(Calls) /\ shutdown \in BOOLEAN
      /\ Dispatching => Rest \in Seq(Event)
  BY QueueType, RestType DEF TypeOK, ServerTypes
<1>1. CASE OnGattRegistered \/ OnAdvertisementRegistered
  <2>1. Dispatching /\ Head(queue).what \notin EndCalls
    BY <1>1 DEF OnGattRegistered, OnAdvertisementRegistered, Handles, EndCalls
  <2>2. CASE BeginShutdown(Rest) /\ ~shutdown
    BY <1>0, <2>1, <2>2, BeginShutdownCarriesOn
  <2>3. CASE UNCHANGED <<loop, shutdown>>
    <3>1. Sends(Rest)
      BY <1>1, CallNames, HelpersSend DEF OnGattRegistered, OnAdvertisementRegistered,
        RegistrationFails, Sends
    <3>. QED
      BY <1>0, <2>1, <2>3, <3>1, SendKeepsOn
  <2>4. (BeginShutdown(Rest) /\ ~shutdown) \/ UNCHANGED <<loop, shutdown>>
    BY <1>1 DEF OnGattRegistered, OnAdvertisementRegistered, RegistrationFails, BeginShutdown
  <2>. QED
    BY <2>2, <2>3, <2>4
<1>2. CASE \/ OnAdvertisementReregistered \/ OnNameOwnerChanged \/ OnAdvertisementReleased
           \/ OnCccdOff \/ OnStopNotify \/ OnRefreshUnregistered
  <2>1. /\ Dispatching /\ Head(queue).what \notin EndCalls /\ UNCHANGED <<loop, shutdown>>
        /\ Sends(Rest)
    BY <1>2, CallNames, HelpersSend DEF OnAdvertisementReregistered, OnNameOwnerChanged,
      OnAdvertisementReleased, OnCccdOff, OnStopNotify, OnRefreshUnregistered, Handles, EndCalls, Sends
  <2>. QED
    BY <1>0, <2>1, SendKeepsOn
<1>3. CASE OnAdvertisementUnregistered
  BY <1>0, <1>3, UnregisterGattCarriesOn DEF OnAdvertisementUnregistered, Handles
<1>4. CASE OnGattUnregistered
  BY <1>4, CarriedOnPrimed DEF OnGattUnregistered
<1>5. CASE TimerStep
  <2>1. UNCHANGED <<loop, shutdown>> /\ Sends(queue)
    BY <1>5, CallNames, HelpersSend DEF TimerStep, RetryRegisterApplication, ReregisterTimer,
      RefreshAdvertisement, Sends
  <2>. QED
    BY <1>0, <2>1, SendKeepsOn
<1>6. CASE ShutdownIdle
  BY <1>0, <1>6, BeginShutdownCarriesOn DEF ShutdownIdle
<1>7. CASE Run
  <2>1. shutdown' = shutdown /\ loop = "new"
    BY <1>7 DEF Run
  <2>. QED
    BY <2>1, CarriedOnPrimed DEF NewInv
<1>8. CASE RunEnds
  BY <1>8, CarriedOnPrimed DEF RunEnds
<1>9. CASE StartReturns \/ RequestStop \/ AppSubscribes \/ UNCHANGED vars
  <2>1. UNCHANGED <<loop, shutdown, queue, calls>>
    BY <1>9 DEF StartReturns, RequestStop, AppSubscribes, vars
  <2>. QED
    BY <2>1, CarriedOnPrimed DEF ShutdownIsCarriedOn
<1>10. ASSUME NEW e \in Seq(Event), Deliver(e), UNCHANGED <<loop, shutdown, calls>>
       PROVE  ShutdownIsCarriedOn'
  <2>1. Has(queue, EndEvents) => Has(queue', EndEvents)
    BY <1>10, DeliverHas
  <2>. QED
    BY <1>10, <2>1, CarriedOnPrimed DEF ShutdownIsCarriedOn
<1>11. CASE ReleasesAdvertisement \/ AppUnsubscribes \/ Restart
  <2>1. UNCHANGED <<loop, shutdown, calls>>
    BY <1>11 DEF ReleasesAdvertisement, AppUnsubscribes, Restart
  <2>2. CASE queue' = queue
    BY <2>1, <2>2, CarriedOnPrimed DEF ShutdownIsCarriedOn
  <2>3. ASSUME NEW what \in Signals, Deliver(<<Signal(what)>>) PROVE ShutdownIsCarriedOn'
    <3>1. <<Signal(what)>> \in Seq(Event)
      BY SignalIsEvent, OneInSeq
    <3>. QED
      BY <1>10, <2>1, <2>3, <3>1
  <2>. QED
    BY <1>11, <2>2, <2>3 DEF ReleasesAdvertisement, AppUnsubscribes, Restart, Signals
<1>12. CASE AppDisconnects
  <2>. DEFINE e == [i \in 1..subs |-> Signal("StopNotify")]
  <2>1. subs \in Nat /\ Signal("StopNotify") \in Event
    BY SignalIsEvent DEF TypeOK, BluezTypes, Signals
  <2>2. e \in Seq(Event)
    <3>1. e \in [1..subs -> Event]
      BY <2>1
    <3>. HIDE DEF e
    <3>. QED
      BY <2>1, <3>1, FunctionIsSeq
  <2>3. UNCHANGED <<loop, shutdown, calls>> /\ Deliver(e)
    BY <1>12 DEF AppDisconnects
  <2>. HIDE DEF e
  <2>. QED
    BY <1>10, <2>2, <2>3
<1>13. CASE Crash
  <2>. SUFFICES ASSUME shutdown, loop = "running" PROVE Has(queue', EndEvents)
    BY <1>13, CarriedOnPrimed DEF Crash
  <2>1. Deliver(LastWords)
    BY <1>13 DEF Crash, LastWords
  <2>2. Has(queue', EndEvents) <=> Has(queue, EndEvents) \/ Has(LastWords, EndEvents)
    BY <2>1, LastWordsSay, DeliverHas, Zenon
  <2>3. Has(calls, EndCalls) => Has(LastWords, EndEvents)
    BY LastWordsSay
  <2>. QED
    BY <2>2, <2>3 DEF ShutdownIsCarriedOn
<1>14. CASE BluezStep
  <2>1. calls # <<>> /\ calls' = Tail(calls) /\ UNCHANGED <<loop, shutdown>>
    BY <1>14 DEF BluezStep, Registers, Refuses, Unregisters, Answer
  <2>2. Head(calls) \in Calls /\ (Has(calls, EndCalls) <=> Head(calls) \in EndCalls \/ Has(calls', EndCalls))
    BY <1>0, <2>1, HasTail, HeadTailProperties
  <2>3. ASSUME NEW ok \in BOOLEAN
        PROVE  /\ Reply(Head(calls), ok) \in Event
               /\ Head(calls) \in EndCalls => Reply(Head(calls), ok) \in EndEvents
    BY <2>2, ReplyIsEvent DEF EndEvents, Reply
  <2>4. ASSUME NEW e \in Seq(Event), Deliver(e), Head(calls) \in EndCalls => Has(e, EndEvents)
        PROVE  ShutdownIsCarriedOn'
    <3>1. Has(queue', EndEvents) <=> Has(queue, EndEvents) \/ Has(e, EndEvents)
      BY <2>4, DeliverHas, Zenon
    <3>. QED
      BY <2>1, <2>2, <2>4, <3>1, CarriedOnPrimed DEF ShutdownIsCarriedOn
  <2>5. ASSUME NEW ok \in BOOLEAN, Deliver(<<Reply(Head(calls), ok)>>) PROVE ShutdownIsCarriedOn'
    <3>1. <<Reply(Head(calls), ok)>> \in Seq(Event)
      BY <2>3, OneInSeq
    <3>2. Has(<<Reply(Head(calls), ok)>>, EndEvents) <=> Reply(Head(calls), ok) \in EndEvents
      BY HasOne
    <3>. QED
      BY <2>3, <2>4, <2>5, <3>1, <3>2
  <2>6. CASE Deliver(<<Signal("OwnRelease"), Reply(Head(calls), TRUE)>>)
    <3>. DEFINE es == <<Signal("OwnRelease"), Reply(Head(calls), TRUE)>>
    <3>1. Signal("OwnRelease") \in Event
      BY SignalIsEvent DEF Signals
    <3>2. es \in Seq(Event)
      BY <2>3, <3>1, PairInSeq
    <3>3. Head(calls) \in EndCalls => Has(es, EndEvents)
      <4>1. Len(es) = 2 /\ es[2] = Reply(Head(calls), TRUE)
        OBVIOUS
      <4>. HIDE DEF es
      <4>2. 2 \in 1..Len(es) /\ (Head(calls) \in EndCalls => es[2] \in EndEvents)
        <5>1. Head(calls) \in EndCalls => Reply(Head(calls), TRUE) \in EndEvents
          BY <2>3, TRUE \in BOOLEAN, Zenon
        <5>2. 2 \in 1..Len(es)
          BY <4>1
        <5>. QED
          BY <4>1, <5>1, <5>2, Zenon
      <4>. QED
        BY <4>2, Zenon DEF Has
    <3>4. Deliver(es)
      BY <2>6
    <3>. HIDE DEF es
    <3>. QED
      BY <2>4, <3>2, <3>3, <3>4
  <2>. QED
    BY <1>14, <2>5, <2>6 DEF BluezStep, Registers, Refuses, Unregisters, TypeOK, BluezTypes
<1>. QED
  BY <1>1, <1>2, <1>3, <1>4, <1>5, <1>6, <1>7, <1>8, <1>9, <1>11, <1>12, <1>13, <1>14
  DEF Next, AppStep, DispatchStep

(* However a shutdown began -- a signal, a failed start -- and whatever became of  *)
(* bluetoothd since, the GLib thread has ended, or a call of _begin_shutdown or   *)
(* _unregister_gatt or its reply is on its way: no error path forgets to go on.  *)
(* What ShutdownEnds rests on; that the reply comes is left to fairness.        *)
THEOREM ShutdownNeverStalls == Spec => []ShutdownIsCarriedOn
<1>1. Init => ShutdownIsCarriedOn /\ NewInv
  BY DEF Init, ShutdownIsCarriedOn, NewInv
<1>. QED
  BY TypeCorrect, NextNew, NextCarriedOn, <1>1, PTL DEF Spec
=============================================================================
