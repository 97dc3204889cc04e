-------------------------- MODULE GattRegistration --------------------------
(***************************************************************************)
(* Registration of the BLE service (BleControlServer in                     *)
(* src/xiaozhi_ble/gatt_server.py) with bluetoothd: the GATT application and *)
(* the advertisement are registered at start-up, registered again when       *)
(* bluetoothd restarts or drops the advertisement, refreshed when a client    *)
(* stops its notifications, and unregistered at shutdown.                    *)
(*                                                                         *)
(* Every handler runs on the GLib thread, one at a time.  What is concurrent  *)
(* is bluetoothd: calls wait in `calls', their replies and bluetoothd's own   *)
(* calls and signals in `queue', and timers fire in any order.               *)
(***************************************************************************)
EXTENDS Naturals, Sequences

CONSTANTS
    MaxCrashes,   \* bound: how often bluetoothd dies
    MaxReleases,  \* bound: how often it drops the advertisement by itself
    MaxRefusals,  \* bound: registrations it refuses for reasons of its own
    MaxSubs       \* bound: subscriptions the App ever makes

ASSUME GattAssumption ==
    MaxCrashes \in Nat /\ MaxReleases \in Nat /\ MaxRefusals \in Nat /\ MaxSubs \in Nat

VARIABLES
    prompt,          \* timing, chosen once: before a timer of 2 or 5 s fires, the calls
                     \* under way are answered and the GLib thread is not held up
    main,            \* the main thread: in start(), serving, in stop(), or gone
    loop,            \* the GLib thread: new, running, quit, or ended
    ready,           \* _ready
    registered,      \* _registered
    gattRegistered,  \* _gatt_registered
    advRegistered,   \* _advertisement_registered
    refreshPending,  \* _advertisement_refresh_pending
    shutdown,        \* _shutdown_requested
    timers,          \* how many timers of each kind are set
    queue,           \* what the GLib thread has still to dispatch
    calls,           \* D-Bus calls bluetoothd has still to answer
    up,              \* bluetoothd is on the bus
    app, adv,        \* what bluetoothd has registered
    subs,            \* the App's subscriptions
    left             \* how much of each bound is left

flags == <<ready, registered, gattRegistered, advRegistered, refreshPending, shutdown>>
bluezVars == <<up, app, adv>>
vars == <<prompt, main, loop, flags, timers, queue, calls, bluezVars, subs, left>>

Registrations == {"RegisterApplication", "RegisterAdvertisement", "ReregisterAdvertisement"}
Unregistrations == {"UnregisterForRefresh", "UnregisterAdvertisement", "UnregisterApplication"}
Calls == Registrations \cup Unregistrations
Signals == {"Vanished", "Appeared", "Released", "OwnRelease", "CccdOff", "StopNotify"}
Timers == {"retryApplication", "reregister", "refresh"}

Event == [what : Calls \cup Signals, ok : BOOLEAN]

ServerTypes ==
    /\ prompt \in BOOLEAN
    /\ main \in {"starting", "serving", "stopping", "exited"}
    /\ loop \in {"new", "running", "quit", "ended"}
    /\ ready \in BOOLEAN
    /\ registered \in BOOLEAN
    /\ gattRegistered \in BOOLEAN
    /\ advRegistered \in BOOLEAN
    /\ refreshPending \in BOOLEAN
    /\ shutdown \in BOOLEAN
    /\ timers \in [Timers -> Nat]
    /\ registered => ready

BusTypes ==
    /\ queue \in Seq(Event)
    /\ calls \in Seq(Calls)

BluezTypes ==
    /\ up \in BOOLEAN
    /\ app \in BOOLEAN
    /\ adv \in BOOLEAN
    /\ subs \in Nat
    /\ left \in [crashes : Nat, releases : Nat, refusals : Nat, subs : Nat]

TypeOK == ServerTypes /\ BusTypes /\ BluezTypes

Init ==
    /\ prompt \in BOOLEAN
    /\ main = "starting"
    /\ loop = "new"
    /\ ready = FALSE
    /\ registered = FALSE
    /\ gattRegistered = FALSE
    /\ advRegistered = FALSE
    /\ refreshPending = FALSE
    /\ shutdown = FALSE
    /\ timers = [k \in Timers |-> 0]
    /\ queue = <<>>
    /\ calls = <<>>
    /\ up \in BOOLEAN
    /\ app = FALSE
    /\ adv = FALSE
    /\ subs = 0
    /\ left = [crashes |-> MaxCrashes, releases |-> MaxReleases,
               refusals |-> MaxRefusals, subs |-> MaxSubs]

Reply(call, ok) == [what |-> call, ok |-> ok]
Signal(what) == [what |-> what, ok |-> TRUE]

-----------------------------------------------------------------------------
(* Steps handlers are made of.  q is what remains of the queue. *)

(* An asynchronous call; the bus answers for a bluetoothd that is not there. *)
Send(call, q) ==
    IF up THEN calls' = Append(calls, call) /\ queue' = q
          ELSE calls' = calls /\ queue' = Append(q, Reply(call, FALSE))

SendNothing(q) == queue' = q /\ calls' = calls

Arm(kind) == timers' = [timers EXCEPT ![kind] = @ + 1]
Fired(kind) == [timers EXCEPT ![kind] = @ - 1]
Fires(kind) == loop = "running" /\ timers[kind] > 0 /\ (prompt => calls = <<>> /\ queue = <<>>)

Dispatching == loop = "running" /\ queue # <<>>
Handles(what) == Dispatching /\ Head(queue).what = what
Rest == Tail(queue)

(* _unregister_gatt and _finish_shutdown. *)
UnregisterGatt(q) ==
    IF gattRegistered
      THEN Send("UnregisterApplication", q) /\ loop' = loop
      ELSE SendNothing(q) /\ loop' = "quit"

(* _begin_shutdown. *)
BeginShutdown(q) ==
    IF shutdown
      THEN SendNothing(q) /\ UNCHANGED <<loop, shutdown, registered>>
      ELSE /\ shutdown' = TRUE
           /\ registered' = FALSE
           /\ IF advRegistered
                THEN Send("UnregisterAdvertisement", q) /\ loop' = loop
                ELSE UnregisterGatt(q)

(* _setup_bluez: it raises if bluetoothd cannot be introspected. *)
SetupBluez(q) ==
    IF up THEN Send("RegisterApplication", q) /\ timers' = timers
          ELSE SendNothing(q) /\ Arm("retryApplication")

(* Faulty variant: no check for a shutdown under way. *)
ReregisterAlways(q) ==
    IF advRegistered \/ ~gattRegistered
      THEN SendNothing(q)
      ELSE Send("ReregisterAdvertisement", q)

(* _reregister_advertisement. *)
Reregister(q) ==
    IF shutdown \/ advRegistered \/ ~gattRegistered
      THEN SendNothing(q)
      ELSE Send("ReregisterAdvertisement", q)

-----------------------------------------------------------------------------
(* Start-up. *)

(* _run up to the event loop: a bluetoothd that is not there ends it. *)
Run ==
    /\ loop = "new"
    /\ IF up
         THEN Send("RegisterApplication", queue) /\ loop' = "running" /\ ready' = ready
         ELSE SendNothing(queue) /\ loop' = "quit" /\ ready' = TRUE
    /\ UNCHANGED <<prompt, main, registered, gattRegistered, advRegistered, refreshPending, shutdown,
                   timers, bluezVars, subs, left>>

(* start() returns once _ready is set, or times out; main() exits if it failed. *)
StartReturns ==
    /\ main = "starting"
    /\ main' = IF ready /\ registered THEN "serving" ELSE "exited"
    /\ UNCHANGED <<prompt, loop, flags, timers, queue, calls, bluezVars, subs, left>>

(* A registration failed.  Before _ready that is the end (_fail_startup), *)
(* after it a timer tries again.                                         *)
RegistrationFails(kind) ==
    IF ready
      THEN /\ Arm(kind)
           /\ SendNothing(Rest)
           /\ UNCHANGED <<ready, loop, shutdown, registered>>
      ELSE /\ ready' = TRUE
           /\ BeginShutdown(Rest)
           /\ UNCHANGED timers

(* _on_gatt_registered.  With bluetoothd just gone the next call may raise. *)
OnGattRegistered ==
    /\ Handles("RegisterApplication")
    /\ IF Head(queue).ok
         THEN /\ gattRegistered' = TRUE
              /\ Send("RegisterAdvertisement", Rest) \/ (~up /\ SendNothing(Rest))
              /\ UNCHANGED <<ready, loop, shutdown, registered, timers>>
         ELSE /\ RegistrationFails("retryApplication")
              /\ UNCHANGED gattRegistered
    /\ UNCHANGED <<prompt, main, advRegistered, refreshPending, bluezVars, subs, left>>

(* _on_advertisement_registered. *)
OnAdvertisementRegistered ==
    /\ Handles("RegisterAdvertisement")
    /\ IF Head(queue).ok
         THEN /\ advRegistered' = TRUE
              /\ registered' = TRUE
              /\ ready' = TRUE
              /\ SendNothing(Rest)
              /\ UNCHANGED <<loop, shutdown, timers>>
         ELSE /\ RegistrationFails("reregister")
              /\ UNCHANGED advRegistered
    /\ UNCHANGED <<prompt, main, gattRegistered, refreshPending, bluezVars, subs, left>>

-----------------------------------------------------------------------------
(* Recovery. *)

(* Faulty variant: nobody watches for bluetoothd to come back. *)
OnNameOwnerChangedOnlyGone ==
    /\ Handles("Vanished") \/ Handles("Appeared")
    /\ IF shutdown \/ Head(queue).what = "Appeared"
         THEN SendNothing(Rest) /\ UNCHANGED <<registered, gattRegistered, advRegistered, timers>>
         ELSE /\ registered' = FALSE
              /\ gattRegistered' = FALSE
              /\ advRegistered' = FALSE
              /\ SendNothing(Rest)
              /\ UNCHANGED timers
    /\ UNCHANGED <<prompt, main, loop, ready, refreshPending, shutdown, bluezVars, subs, left>>

(* _on_name_owner_changed. *)
OnNameOwnerChanged ==
    /\ Handles("Vanished") \/ Handles("Appeared")
    /\ IF shutdown
         THEN SendNothing(Rest) /\ UNCHANGED <<registered, gattRegistered, advRegistered, timers>>
         ELSE IF Head(queue).what = "Vanished"
           THEN /\ registered' = FALSE
                /\ gattRegistered' = FALSE
                /\ advRegistered' = FALSE
                /\ SendNothing(Rest)
                /\ UNCHANGED timers
           ELSE SetupBluez(Rest) /\ UNCHANGED <<registered, gattRegistered, advRegistered>>
    /\ UNCHANGED <<prompt, main, loop, ready, refreshPending, shutdown, bluezVars, subs, left>>

(* _retry_register_application. *)
RetryRegisterApplication ==
    /\ Fires("retryApplication")
    /\ IF shutdown \/ gattRegistered
         THEN SendNothing(queue) /\ timers' = Fired("retryApplication")
         ELSE IF up
           THEN Send("RegisterApplication", queue) /\ timers' = Fired("retryApplication")
           ELSE SendNothing(queue) /\ timers' = timers
    /\ UNCHANGED <<prompt, main, loop, flags, bluezVars, subs, left>>

(* Release() and _on_advertisement_released. *)
OnAdvertisementReleased ==
    /\ Handles("Released") \/ Handles("OwnRelease")
    /\ IF shutdown \/ ~advRegistered
         THEN UNCHANGED <<advRegistered, timers>>
         ELSE advRegistered' = FALSE /\ Arm("reregister")
    /\ SendNothing(Rest)
    /\ UNCHANGED <<prompt, main, loop, ready, registered, gattRegistered, refreshPending, shutdown,
                   bluezVars, subs, left>>

(* The timer of _reregister_advertisement. *)
ReregisterTimer ==
    /\ Fires("reregister")
    /\ timers' = Fired("reregister")
    /\ Reregister(queue)
    /\ UNCHANGED <<prompt, main, loop, flags, bluezVars, subs, left>>

(* _on_advertisement_reregistered. *)
OnAdvertisementReregistered ==
    /\ Handles("ReregisterAdvertisement")
    /\ IF Head(queue).ok
         THEN advRegistered' = TRUE /\ UNCHANGED timers
         ELSE Arm("reregister") /\ UNCHANGED advRegistered
    /\ SendNothing(Rest)
    /\ UNCHANGED <<prompt, main, loop, ready, registered, gattRegistered, refreshPending, shutdown,
                   bluezVars, subs, left>>

-----------------------------------------------------------------------------
(* The refresh after a client stopped its notifications. *)

(* Faulty variant: every stop sets a timer of its own. *)
OnClientDisconnectedEachTime ==
    IF shutdown \/ ~gattRegistered
      THEN UNCHANGED <<refreshPending, timers>>
      ELSE refreshPending' = TRUE /\ Arm("refresh")

(* _on_client_disconnected. *)
OnClientDisconnected ==
    IF shutdown \/ ~gattRegistered \/ refreshPending
      THEN UNCHANGED <<refreshPending, timers>>
      ELSE refreshPending' = TRUE /\ Arm("refresh")

(* The App writes 0x0000 to a CCCD, whose stop callback wrap_stop() wrapped. *)
OnCccdOff ==
    /\ Handles("CccdOff")
    /\ OnClientDisconnected
    /\ SendNothing(Rest)
    /\ UNCHANGED <<prompt, main, loop, ready, registered, gattRegistered, advRegistered, shutdown,
                   bluezVars, subs, left>>

(* bluetoothd calls StopNotify() of a characteristic, which nothing wraps. *)
OnStopNotify ==
    /\ Handles("StopNotify")
    /\ SendNothing(Rest)
    /\ UNCHANGED <<prompt, main, loop, flags, timers, bluezVars, subs, left>>

(* Faulty variant: the flag is cleared only when the unregistration is done. *)
RefreshAdvertisementFlagLate ==
    /\ Fires("refresh")
    /\ timers' = Fired("refresh")
    /\ refreshPending' = FALSE
    /\ IF shutdown \/ ~gattRegistered
         THEN SendNothing(queue) /\ UNCHANGED advRegistered
         ELSE IF advRegistered
           THEN advRegistered' = TRUE /\ Send("UnregisterForRefresh", queue)
           ELSE Reregister(queue) /\ UNCHANGED advRegistered
    /\ UNCHANGED <<prompt, main, loop, ready, registered, gattRegistered, shutdown, bluezVars, subs, left>>

(* _refresh_advertisement. *)
RefreshAdvertisement ==
    /\ Fires("refresh")
    /\ timers' = Fired("refresh")
    /\ refreshPending' = FALSE
    /\ IF shutdown \/ ~gattRegistered
         THEN SendNothing(queue) /\ UNCHANGED advRegistered
         ELSE IF advRegistered
           THEN advRegistered' = FALSE /\ Send("UnregisterForRefresh", queue)
           ELSE Reregister(queue) /\ UNCHANGED advRegistered
    /\ UNCHANGED <<prompt, main, loop, ready, registered, gattRegistered, shutdown, bluezVars, subs, left>>

(* _on_advertisement_refresh_unregistered. *)
OnRefreshUnregistered ==
    /\ Handles("UnregisterForRefresh")
    /\ Reregister(Rest)
    /\ UNCHANGED <<prompt, main, loop, flags, timers, bluezVars, subs, left>>

-----------------------------------------------------------------------------
(* Shutdown. *)

(* A signal: the bridge calls stop(), which hands _begin_shutdown to GLib. *)
RequestStop ==
    /\ main = "serving"
    /\ main' = "stopping"
    /\ UNCHANGED <<prompt, loop, flags, timers, queue, calls, bluezVars, subs, left>>

ShutdownIdle ==
    /\ main = "stopping"
    /\ loop = "running"
    /\ ~shutdown
    /\ BeginShutdown(queue)
    /\ UNCHANGED <<prompt, main, ready, gattRegistered, advRegistered, refreshPending, timers,
                   bluezVars, subs, left>>

(* Faulty variant: a failed unregistration ends the shutdown half-way. *)
OnAdvertisementUnregisteredOrStuck ==
    /\ Handles("UnregisterAdvertisement")
    /\ advRegistered' = FALSE
    /\ IF Head(queue).ok THEN UnregisterGatt(Rest) ELSE SendNothing(Rest) /\ loop' = loop
    /\ UNCHANGED <<prompt, main, ready, registered, gattRegistered, refreshPending, shutdown, timers,
                   bluezVars, subs, left>>

(* _on_advertisement_unregistered. *)
OnAdvertisementUnregistered ==
    /\ Handles("UnregisterAdvertisement")
    /\ advRegistered' = FALSE
    /\ UnregisterGatt(Rest)
    /\ UNCHANGED <<prompt, main, ready, registered, gattRegistered, refreshPending, shutdown, timers,
                   bluezVars, subs, left>>

(* _on_gatt_unregistered. *)
OnGattUnregistered ==
    /\ Handles("UnregisterApplication")
    /\ gattRegistered' = FALSE
    /\ SendNothing(Rest)
    /\ loop' = "quit"
    /\ UNCHANGED <<prompt, main, ready, registered, advRegistered, refreshPending, shutdown, timers,
                   bluezVars, subs, left>>

(* The end of _run, or of the process: the bus connection closes, and        *)
(* bluetoothd forgets what was registered over it.                          *)
RunEnds ==
    /\ loop = "quit" \/ (main = "exited" /\ loop # "ended")
    /\ loop' = "ended"
    /\ registered' = FALSE
    /\ ready' = TRUE
    /\ queue' = <<>>
    /\ calls' = <<>>
    /\ timers' = [k \in Timers |-> 0]
    /\ app' = FALSE
    /\ adv' = FALSE
    /\ subs' = 0
    /\ UNCHANGED <<prompt, main, gattRegistered, advRegistered, refreshPending, shutdown, up, left>>

-----------------------------------------------------------------------------
(* bluetoothd and the App. *)

Deliver(events) == queue' = queue \o events

(* bluetoothd answers the oldest call. *)
Answer ==
    /\ up
    /\ calls # <<>>
    /\ calls' = Tail(calls)
    /\ UNCHANGED <<prompt, main, loop, flags, timers, up, subs>>

Registers ==
    /\ Answer
    /\ LET call == Head(calls) IN
         /\ call \in Registrations
         /\ IF call = "RegisterApplication"
              THEN ~app /\ app' = TRUE /\ adv' = adv
              ELSE ~adv /\ adv' = TRUE /\ app' = app
         /\ Deliver(<<Reply(call, TRUE)>>)
    /\ UNCHANGED left

(* It refuses what is already registered, and anything else for its own reasons. *)
Refuses ==
    /\ Answer
    /\ LET call == Head(calls)
           exists == IF call = "RegisterApplication" THEN app ELSE adv IN
         /\ call \in Registrations
         /\ exists \/ left.refusals > 0
         /\ left' = [left EXCEPT !.refusals = IF exists THEN @ ELSE @ - 1]
         /\ Deliver(<<Reply(call, FALSE)>>)
    /\ UNCHANGED <<app, adv>>

(* Unregistering the advertisement may call its Release() first. *)
Unregisters ==
    /\ Answer
    /\ LET call == Head(calls) IN
         /\ call \in Unregistrations
         /\ IF call = "UnregisterApplication"
              THEN /\ app' = FALSE /\ adv' = adv
                   /\ Deliver(<<Reply(call, app)>>)
              ELSE /\ adv' = FALSE /\ app' = app
                   /\ \/ Deliver(<<Reply(call, adv)>>)
                      \/ adv /\ Deliver(<<Signal("OwnRelease"), Reply(call, TRUE)>>)
    /\ UNCHANGED left

ReleasesAdvertisement ==
    /\ up /\ adv
    /\ left.releases > 0
    /\ left' = [left EXCEPT !.releases = @ - 1]
    /\ adv' = FALSE
    /\ Deliver(<<Signal("Released")>>)
    /\ UNCHANGED <<prompt, main, loop, flags, timers, calls, up, app, subs>>

(* The bus tells of the lost name before it fails the calls under way. *)
Crash ==
    /\ up
    /\ left.crashes > 0
    /\ left' = [left EXCEPT !.crashes = @ - 1]
    /\ up' = FALSE /\ app' = FALSE /\ adv' = FALSE
    /\ subs' = 0
    /\ IF loop = "running"
         THEN Deliver(<<Signal("Vanished")>> \o [i \in 1..Len(calls) |-> Reply(calls[i], FALSE)])
         ELSE UNCHANGED queue
    /\ calls' = <<>>
    /\ UNCHANGED <<prompt, main, loop, flags, timers>>

Restart ==
    /\ ~up
    /\ up' = TRUE
    /\ IF loop = "running" THEN Deliver(<<Signal("Appeared")>>) ELSE UNCHANGED queue
    /\ UNCHANGED <<prompt, main, loop, flags, timers, calls, app, adv, subs, left>>

AppSubscribes ==
    /\ up /\ app
    /\ left.subs > 0
    /\ left' = [left EXCEPT !.subs = @ - 1]
    /\ subs' = subs + 1
    /\ UNCHANGED <<prompt, main, loop, flags, timers, queue, calls, bluezVars>>

AppUnsubscribes ==
    /\ up /\ subs > 0
    /\ subs' = subs - 1
    /\ Deliver(<<Signal("CccdOff")>>)
    /\ UNCHANGED <<prompt, main, loop, flags, timers, calls, bluezVars, left>>

AppDisconnects ==
    /\ up /\ subs > 0
    /\ subs' = 0
    /\ Deliver([i \in 1..subs |-> Signal("StopNotify")])
    /\ UNCHANGED <<prompt, main, loop, flags, timers, calls, bluezVars, left>>

-----------------------------------------------------------------------------
DispatchStep ==
    \/ OnGattRegistered \/ OnAdvertisementRegistered \/ OnAdvertisementReregistered
    \/ OnNameOwnerChanged \/ OnAdvertisementReleased \/ OnCccdOff \/ OnStopNotify
    \/ OnRefreshUnregistered \/ OnAdvertisementUnregistered \/ OnGattUnregistered

TimerStep == RetryRegisterApplication \/ ReregisterTimer \/ RefreshAdvertisement

BluezStep == Registers \/ Refuses \/ Unregisters

AppStep == AppSubscribes \/ AppUnsubscribes \/ AppDisconnects

Next ==
    \/ Run \/ StartReturns \/ RequestStop \/ ShutdownIdle \/ RunEnds
    \/ DispatchStep \/ TimerStep \/ BluezStep
    \/ ReleasesAdvertisement \/ Crash \/ Restart \/ AppStep

Spec == Init /\ [][Next]_vars

(* The GLib loop dispatches what is ready and fires every timer, the main     *)
(* thread runs, and a bluetoothd that is up answers.  Nothing makes it crash, *)
(* come back, refuse or release, and nobody need stop the bridge.            *)
Fairness ==
    /\ WF_vars(Run) /\ WF_vars(StartReturns) /\ WF_vars(ShutdownIdle) /\ WF_vars(RunEnds)
    /\ WF_vars(DispatchStep)
    /\ WF_vars(RetryRegisterApplication)
    /\ WF_vars(ReregisterTimer)
    /\ WF_vars(RefreshAdvertisement)
    /\ WF_vars(BluezStep)

FairSpec == Spec /\ Fairness

-----------------------------------------------------------------------------
(* Stops that come while a refresh is planned are collapsed into it: the flag *)
(* stands for exactly one timer, never left set without one (which would end  *)
(* all refreshes) and never two (_advertisement_refresh_pending in             *)
(* _on_client_disconnected and _refresh_advertisement).                      *)
OneRefresh == loop = "running" => timers["refresh"] = (IF refreshPending THEN 1 ELSE 0)

(* Once a shutdown was requested no timer, restart, release or reply starts a   *)
(* registration: only one that was under way is carried on, with the           *)
(* advertisement that follows its reply (the _shutdown_requested checks).      *)
NothingAfterShutdown ==
    [][shutdown /\ Len(calls') > Len(calls) /\ calls'[Len(calls')] \in Registrations
         => Handles("RegisterApplication") /\ calls'[Len(calls')] = "RegisterAdvertisement"]_vars

(* The Release() that the refresh itself provokes schedules no competing       *)
(* re-registration (the comment in _refresh_advertisement), as long as no      *)
(* reply is overtaken by a timer.                                            *)
OwnReleaseIgnored ==
    [][prompt /\ Dispatching /\ Head(queue).what = "OwnRelease" /\ queue' = Rest
         => timers' = timers]_vars

(* A requested shutdown comes to an end, with bluetoothd answering, refusing,   *)
(* gone or gone half-way.                                                     *)
ShutdownEnds == (main = "stopping") ~> (loop = "ended")

(* Whatever bluetoothd went through, once it stays up a serving bridge ends up *)
(* registered and advertising again for good.                                 *)
Serving == main = "serving" /\ loop = "running"
Heals == (prompt /\ <>[](Serving /\ up)) => <>[](app /\ adv)
=============================================================================
