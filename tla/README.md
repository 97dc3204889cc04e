# A TLA+ verification of the xiaozhi BLE/LAN control bridge

The bridge runs on a robot. A phone App talks to it over Bluetooth LE (a GATT
service registered with BlueZ over D-Bus) or over a TCP socket on the LAN; the
bridge relays commands to ROS 2, NetworkManager, a zone-voice web service and two
`ros2 launch` process trees, and relays replies, asynchronous events and monitoring
values back. The code is `src/src/xiaozhi_ble/`; the protocols are
`src/BLE_CONTROL_PROTOCOL.md` and `src/LAN_CONTROL_PROTOCOL.md`.

## 1. Inventory

### Components, their state and their operations

| Component | State | Operations |
|---|---|---|
| Navigation launch tasks, `nav_tasks.py` | `_running` (task -> record), each record's `stop_requested`, process, drainer and waiter threads | `execute` (START, STOP, STATUS), `stop_all`, waiter |
| LAN server, `lan_server.py` | `_values` per channel, `_client`, `_generation`, listener, stop event | accept, replace client + snapshot, reader thread per connection, `_store` (cache + push), `stop` |
| GATT server, `gatt_server.py` | registration flags, shutdown flag, refresh timer and counter, one object per characteristic (value, notifying flag) | `start`, `stop`, BlueZ callbacks, timers, `update_*`/`notify_*` |
| Robot triggers, `robot_control.py` | node, trigger services, clients, pending futures with timers | `start`, `stop`, `execute`, result and timeout callbacks |
| WiFi provisioning, `wifi_config.py` | `_busy`, cached device path | `connect`, worker thread |
| Zone voice, `zone_voice.py` | last notified text, poller thread | `execute` (PLAY, STOP, LIST, STATUS), poller |
| Topic commands, `cmd_vel.py`, `zone_nav.py`, `initial_pose.py` | node, publisher | `start`, `stop`, `execute` |
| Providers, `network.py`, `cpu.py`, `memory.py`, `bandwidth.py`, `audio_endpoint.py`, `battery.py` | last value or sample, poller thread or subscription | `start`, `stop`, poll |
| Characteristics, `gatt_server.py` | value, `notifying`, the descriptor's value, the battery's timer | `ReadValue` with an offset, `WriteValue`, `StartNotify`, `StopNotify`, updates |
| ROS runtime, `ros_runtime.py` | node, stop event, spin thread | `start`, `stop`, spin |
| Bridge, `main.py` | latest LAN address and audio port | wiring, `start`, the undoing of a start, `stop`, forwarding, signals |
| Configuration, `config.py` | parsed YAML | pure getters |

### Who calls whom

Commands run on the GLib thread (BLE) and on LAN reader threads, so two threads may
be inside one component's `execute` at once. Asynchronous results (a waiter's
`STOPPED`, a trigger's outcome, a WiFi result, a poller's value) run on threads of
their own and go through the bridge to *both* transports: to the GATT server by
`GLib.idle_add`, to the LAN server by a direct `_store`. Everything shared is guarded
by one lock per component, and every component releases its lock before it calls
out. Hence the behaviours that are hard to test: two commands interleaved around a
released lock, an asynchronous event overtaking the reply that announced it, a
snapshot sent after a newer push, a kicked client still being served, a stop racing
a call in flight, `bluetoothd` restarting in the middle of a registration, and
change-only values lost before anyone listens. `PROJECT.json` lists each hazard at
its line.

### What makes each component correct

| Component | What it has to guarantee |
|---|---|
| Navigation tasks | one process tree per task; an entry of `_running` is never left behind; an accepted STOP is reported STOPPED; every end is reported; nothing outlives the shutdown |
| LAN server | the newest value of a pushed channel reaches the client; the client slot is owned by the newest connection and cleared by nobody else; `stop()` leaves no client |
| Robot triggers | an accepted call has exactly one outcome, even if its service never answers; a pending call can always time out |
| GATT registration | a serving bridge is registered and advertising again after whatever `bluetoothd` went through; refreshes do not pile up; a shutdown ends and registers nothing |
| Zone voice | every request is answered; the end of an audio is told to both transports; the poller stops |
| WiFi | one attempt at a time; a success leaves exactly its own profile; every attempt is reported, and what is shown last is an outcome |
| Characteristics | who listens has heard what a read would give; a read torn by an update is followed by a notification |
| Providers | what is suppressed as unchanged is what both transports show; the endpoints are those of the current address and port |
| Bridge | what was started is stopped, in an order in which nobody calls a part that is gone; no task outlives the bridge but for a START that overlaps another one or the sweep; the shutdown ends though threads be stuck |

## 2. Modules

| Module | Models | Extended or instantiated by |
|---|---|---|
| `TaskLifecycle` | what the launch manager promises (abstract) | `NavTasks` (`INSTANCE ... WITH`) |
| `NavTasks` | `nav_tasks.py` | `NavTasks_proofs`, `MCNavTasks` |
| `LanServer` | `lan_server.py` without its line grammar | `LanServer_proofs`, `MCLanServer` |
| `RobotControl` | `robot_control.py` | `RobotControl_proofs`, `MCRobotControl` |
| `GattRegistration` | `BleControlServer` of `gatt_server.py`, without the characteristics | `GattRegistration_proofs`, `MCGattRegistration` |
| `ZoneVoice` | `zone_voice.py` and what becomes of its texts on both transports | `MCZoneVoice`, `Characteristics_proofs` (`INSTANCE`) |
| `Provisioning` | what WiFi provisioning promises whoever looks at a transport (abstract) | `WifiConfig` (`INSTANCE ... WITH`) |
| `WifiConfig` | `wifi_config.py` and what becomes of its texts on both transports | `WifiConfig_proofs`, `MCWifiConfig` |
| `Providers` | the five pollers, `_publish_endpoints` of `main.py`, the way of a reading to both transports | `Providers_proofs`, `MCProviders` |
| `Characteristics` | one characteristic of `gatt_server.py`, of each of five kinds | `Characteristics_proofs`, `MCCharacteristics` |
| `Bridge` | `main.py`: start, undo, stop and signals, composed with `ros_runtime.py`, the topic commands and the threads of both transports | `Bridge_proofs`, `MCBridge` |

`Bridge` is the composition of the components' life cycles: each of them appears in
it with what its `start` and `stop` do to the others (a node to sit on, a thread that
calls, a publisher), and with nothing of its inner workings, which have modules of
their own. `Providers` composes the pollers with the creation of the characteristics
and with both transports; `WifiConfig` and `ZoneVoice` follow their texts to both.

The `MC` modules hold only what TLC needs (symmetry sets). Operators commented
"Faulty variant" are what the code would be with a plausible mistake; no
specification uses them, they serve to show that a property can fail
(`PROJECT.json`, "mutants").

### How the models correspond to the code

A step is what runs without releasing the component's lock, or, outside a lock, one
call or assignment that another thread can observe. A thread has a program counter
(`pc`, `reader`, `stage`, `acceptor`, ...) whose values name the places between steps.

**NavTasks.** `running` is `_running`; a launch (`Procs`) stands for a
`_RunningTask`, its process group and its waiter thread. START is four steps, because
`_start` releases the lock between the check (`StartCheck`) and the registration
(`Register`), with the `Popen` (`Spawn`, `SpawnFails`) in between; `StartWaiter` comes
last; if the thread cannot be started (`WaiterNotStarted`) the record stays "unwatched"
in `running`, and nobody removes it. STOP is two: the mark under the lock (`StopMark`) and the signal outside it
(`StopSignal`). The waiter pops the entry by task name (`WaiterPop`) and then reports
(`WaiterReport`). `stop_all` runs on the main thread: a snapshot, a SIGINT for each
launch, waits, and SIGKILL for those that ignore it. STATUS changes nothing and is
the operator `StatusOf`. A process may ignore SIGINT (`stubborn`) or end by itself.

**LanServer.** The lock's critical sections are `StoreValue` (`_store`),
`ReplaceClient`, `Unregister` and the one in `stop()`; every send, close and callback
is a step outside it. A value is a store count, so older and newer differ. A socket
closed by the bridge while its reader is blocked in `recv()` does not wake the reader:
`closed` only takes effect when the reader calls `recv()` again (`LoopTop`).

**RobotControl.** `execute` reads its client and registers its pending call in
separate critical sections; the rclpy done callback, the timer and `stop()` compete to
take the call out of `pending`. `outcome` records what was reported for a call. A
service may answer, refuse, raise, or never answer.

**GattRegistration.** All handlers run on the GLib thread. `calls` holds the
asynchronous D-Bus calls `bluetoothd` has still to answer, `queue` the replies, signals
and calls of `bluetoothd` the GLib thread has still to dispatch (D-Bus keeps their
order; a call to a dead `bluetoothd` gets an error reply). Timers fire in any order.
`bluetoothd` may die, come back, refuse a registration or release the advertisement.

**ZoneVoice.** A request is two steps under the lock: the player does something
(`Ask`) and its response is read or lost (`Answer`, `Polled`). The reply then goes to
the transport that asked, a poll's finding to both. `last` is `_last_notified`; `ble`
and `lan` are the statuses the two transports show.

**WifiConfig.** `Accept` is `connect()` under its lock; `StartWorker` the thread start
after it, which may fail. The worker's steps are its D-Bus calls, each of which may
raise. `_busy` is cleared in a critical section of its own (`Finish`) before the result
is passed to the GLib thread (`ReportBle`) and to the LAN cache (`ReportLan`).
`Provisioning` sees of an attempt that it is new, going on, or over with its outcome
(`Progress`), and of a transport the text it shows; an attempt whose thread could not be
started goes on for ever, as its flag does.

**Providers.** `last` is the provider's `_last`, and a poll that reports (`PollGauge`,
`PollPublisher`) is one step, since nobody else reads it. The callback is then a step
per transport (`TellBle`, `TellLan`), and `_publish_endpoints` a step for each text it
builds and each update it makes, because two pollers may be in it at once and
it takes no lock. `made` counts the characteristics `_run` has created: a report that
finds none is dropped, as `notify_...` does when the object is `None`. A text for a
characteristic waits in `idle` until the GLib thread takes it. `dropped`, `alone` and
`clean` are history.

**Characteristics.** Every handler runs on the GLib thread and is one step. A text is
the number of the order in which the program made it. `Report` is another thread's
`GLib.idle_add`; `Take` runs the closure. The classes of the code fall into five kinds
by what `StartNotify` and an update do: `StartMonitor` notifies the value, `StartStatus`
asks for a new one and tells nothing when there is none to be had (`StatusFails`),
`StartCommand` says nothing; the battery's updates wait for
`Tick`, an endpoint does not notify at all. `ReadHead` and `ReadTail` are the
`ReadValue` calls of one long read.

**Bridge.** `todo` is what the main thread has left of its script: `StartOrder`,
`UndoOrder` (the BLE server did not come up) or `StopOrder`, which are the calls of
`_Bridge.start` and `_Bridge.stop`. A `stop()` that only ends a thread of its part is one
step; the steps that matter to others are apart: the GLib thread closes
(`CloseServer`), ends (`ServerEnds`) and is joined or left (`StopServer`); a topic
command's publisher is destroyed (`DestroyPublisher`) and forgotten
(`ForgetPublisher`), robot control's forgotten under its lock (`ForgetRobotPublisher`)
and destroyed then. The spin thread is the loop of `_spin`: it looks at the event
(`LoopCheck`), polls the node (`EndPoll`) and may run a callback in the poll (`Callback`,
`CallbackEnds`); `stop()` sets the event (`AskSpinStop`), joins the thread and destroys
the node (`DestroyNode`). Meanwhile the GLib thread and a LAN reader look a publisher up
(`Accept`) and use it (`Publish`), or start the task: the check (`AcceptStart`), the
launch (`Launch`) and the registration (`Register`) are steps apart, as in `NavTasks`, so
that two callers can launch two trees of which `entry`, the record in `_running`, keeps
the later one. `stop_all()` is its snapshot (`SnapshotTasks`) and, after a wait in which
callers go on, the end of the trees in it (`EndTasks`). `raced` is a history: who was in a
START that overlapped another one, or the snapshot, or came after it. `Signal` ends the process at once before
its handler is installed and starts `stop()` after it.

## 3. Runs

| Run | Instance | Shows |
|---|---|---|
| `nav_single` | GLib thread only, 2 tasks, 3 launches | one tree per task, none left after shutdown, refinement of `TaskLifecycle` |
| `nav_live` | GLib thread and a LAN reader, 2 launches | no stale entry that has a waiter, STOP confirmed as STOPPED, ends reported, `stop_all` ends what it found |
| `nav_race` | the same | *violated*: two trees of one task |
| `lan` | 2 connections, 1 publisher, 1 pushed channel, commands, `stop()` | newest value reaches the client, slot ownership, `stop()` leaves no client, a kicked App that talks is let go |
| `robot` | 2 calls; a mapped, a topic and an unknown command | one outcome, accepted calls are settled |
| `gatt` | 1 crash, 1 release, 1 refusal, 2 subscriptions | heals, one refresh timer, shutdown ends and registers nothing |
| `chars` | each of the five kinds, 5 texts, 3 of them waiting | listeners hear what a read gives, torn reads are told, the battery catches up |
| `zone` | 1 audio, poller, GLib thread, 1 LAN reader, 1 socket failure | requests answered, changes told |
| `zone_end` | the same | *violated*: the characteristic keeps PLAYING after the end |
| `wifi` | 2 attempts, GLib thread, 1 LAN reader, 1 unreadable profile | no overlap, success saved, outcome shown over BLE, attempts reported, refinement of `Provisioning` |
| `values` | a rate, the memory, or network and audio; 3 levels, threshold 2 | what is suppressed is shown, endpoints are right after an undisturbed publication, a world at rest is shown |
| `startup` | all 15 parts, with and without rclpy, GLib thread and a LAN reader, 2 trees at a time | nothing outlives what it sits on, a destroyed node is not polled, nothing started is left, BLE commands do not meet the shutdown, only a START that overlaps another one or the sweep leaves a task, it ends |

`TypeOK` of every module is a theorem (section 4), and so is `PendingIsTimed` of
`RobotControl`; the runs do not check them again.

**Why the bounds are enough.** The races here are between two threads on one entry:
two commands, a command and a waiter, a call and its timeout, an old and a new
connection. Two of each actor give every such pair; a third launch lets `nav_single`
start a task again after one launch ended and another is ending. One value of a pushed
channel is enough for an update to be lost, and the LAN invariants are proved for any
number. A gauge that moves by one level twice, with a threshold of two, drifts past it
without ever jumping; three texts that wait beside two that are made give a
characteristic an update before, during and after a read or a subscription. The network
and the audio port are the only providers that share anything, hence the setups of
`values`. `Bridge` has one bound, the `Trees` that are
around at a time: two are what two racing STARTs launch, one overwritten and one
registered, and a name is used again once no thread remembers it. One crash, release and refusal of `bluetoothd`
can each fall at any point of a registration, refresh or shutdown, and be combined with
each other.

`MaxIdle` and `MaxLines` limit messages that wait, `MaxText`, `MaxDrifts` and
`MaxChanges` what there is to say, `MaxFailures` and `MaxSkips` how often the player's
socket and NetworkManager's answers fail; the other failures are not limited. Every
bound is a constant named in its module (`Conns` and `Storers` are bounds of `lan`).
Deadlock is not checked: every one of these systems may stop (after a shutdown, with no
launch, connection or attempt left to make).

**Fairness.** A thread that can take a step takes it (`WF` on the steps of each
thread: waiters, readers, workers, callbacks, the GLib loop, `stop` once called), timers
fire, `bluetoothd` answers the calls it holds while it is up, and a process that
honours a signal ends of it. Two strong assumptions: a thread waiting for the zone-voice
lock gets it (the poller leaves it free for a second between polls), and the GLib loop
gets to its idle callbacks while requests keep coming (they have a lower priority than
D-Bus messages; Apps wait for replies). Nothing is assumed of Apps, of the
player, of ROS services or of NetworkManager, which may do nothing or fail for ever.
In `Bridge` only the main thread and the loop of the spin thread (`LoopCheck`,
`EndPoll`) are fair: callbacks, commands in hand, launched trees and the GLib thread may
be stuck for ever, since every join has a timeout; `BridgeEnds` needs no more. The join
of the spin thread takes five seconds and a poll a fraction of one, so it times out only
in a callback: that is the guard of `DestroyNode`. In `Providers` the world need not change, in
`Characteristics` nobody need report or ask.

`Heals` and `OwnReleaseIgnored` also assume `prompt`: no timer of seconds overtakes a
D-Bus reply. It is a variable, chosen at the start, and both properties are false
without it (a success reply dispatched after a release makes the bridge believe it is
advertising).

## 4. Theorems

All are in the `_proofs` modules and hold for every value of the constants that the
`ASSUME`s of the modules allow (distinct identities, bounds that are naturals, finitely
many attempts); TLC evaluates the `ASSUME`s in every run.

| Theorem | Says | Rests on |
|---|---|---|
| `NavTasks_proofs!NoEntryIsStale`, `StoppedIsReportedStopped` | for any number of racing threads | `BookInv`: types, what each command thread holds between its steps, and that reports come last |
| `OneLaunch`, `NoneLeftAtShutdown`, `LifecycleImplemented` | with `LanReaders = {}` | `OneThreadInv`: a launch is registered or in the hands of the one thread that found the entry empty; live trees are waited for or killed |
| `NoLaunchIsOrphaned` | any number of racing threads | `LaunchIsCarried`, inductive: a live tree has its waiter or a thread about to start it, and an accepted STOP has sent its SIGINT or is about to |
| `LanServer_proofs!UpdatesReachClient` | the newest value is received or in flight | `NoLostUpdate` itself is inductive over the types, since the store reads value and client in one critical section |
| `ClientAlwaysServed`, `KickedReaderSparesClient` | slot ownership | `ServedInv`: the client has the current generation, so its own reader may clear it and no older one |
| `ConnectionsAreClosed` | one accepted connection at most is open that nobody is about to close; one installed after `stop()` let the client go is closed unserved | `HandsInv`: which socket the accept thread and `stop()` hold between their steps |
| `RobotControl_proofs!SettledOnce`, `PendingAlwaysTimed` | any number of concurrent calls | `HandInv`: a call is in the hands of at most one of callback, timer and `stop()`, and a timer is let go only after its call left `pending` |
| `AcceptedIsNotLost` | an accepted call is pending, in somebody's hands, or settled | `KeptInv`: nobody lets go of a call before something has become of it |
| `GattRegistration_proofs!OneRefreshTimer`, `ShutdownRegistersNothing` | however often `bluetoothd` dies | `RefreshInv`: before the GLib thread runs, no refresh is pending and no timer set, so a new server starts clean; `NewInv`: nor is a shutdown requested before it runs |
| `OwnReleaseIsIgnored` | a refresh schedules no second re-registration, as long as no timer overtakes a reply (`prompt`) | `OwnReleaseInv`: from the unregister call to the `Release` it provokes the advertisement counts as not registered, and no reply that would register it comes in between; `LastInv`: the reply follows its `Release` in the queue |
| `BeliefsAreTrue`, `NoDeadEnd` | a server that has heard everything is right about the application, and about the advertisement if `prompt`; a server at rest, likewise, is registered and advertises | `FreshInv`, `EndInv` and `ServeInv`, stated over `Will` and `Has`: what the flags will be once the queue is dispatched, and that what is not registered has a call, reply, signal or timer in hand |
| `ShutdownNeverStalls` | a shutdown is a chain of calls with a link always under way | `NewInv` and the chain itself |
| `WifiConfig_proofs!NoOverlap`, `SuccessIsSaved`, `CharacteristicSettles` | any number of attempts over both transports | `BusyInv` (a running attempt holds `busy`, one thread starts a worker), `ProfileInv` (nobody else touches the profiles meanwhile), `ShownInv` (an attempt shown as CONNECTING has its result still to come) |
| `BusyIsReleased`, `OutcomesAreTrue` | `busy` is set exactly when one attempt holds it; no outcome is told that the attempt did not have | `BusyIsHeld` over `BusyInv`; `ResultsAreTrue` with `RepliesTellNone` |
| `ProvisioningImplemented` | `Spec => ImplementsProvisioning` | `OutcomeInv` and `PromiseInv`; every step is a `Begin`, `End` or `Show` of `Provisioning`, or changes nothing of it |
| `Providers_proofs!CacheIsLastReport`, `CharacteristicIsLastReport` | any providers, readings and thresholds | per poller, what it holds between its steps; the last text that waits for a characteristic, or else its value, is the last report made |
| `SuppressedIsShown` | where a poller has nothing to report, both transports show the reading within the threshold | the two theorems before it |
| `EndpointsAreCurrent` | with no publication under way, both transports have the current endpoints, if the last to end ran beside no other | `EndpointsInv`: for each place of a publication that is alone, which text is built and which transport has it; `AloneInv`, `PublishedInv`, `RestInv`: when it is alone and what the ones before it left |
| `Characteristics_proofs!ListenersAreCurrent`, `TornReadersAreTold` | any number of texts | what was notified last is the value unless the kind defers it, and a value that changed since a watched read began was told |
| `ZoneTypeCorrect`, `ZoneLockIsInUse` | for `ZoneVoice`: its types, and that a thread has the lock exactly while it waits for a response | `PollerInv`: a poll asks only for the status. Stated through an `INSTANCE` of `ZoneVoice`, under `ZoneVoiceConstants`, the `ASSUME` of that module |
| `Bridge_proofs!FeaturesDetachFirst`, `NothingIsForgotten` | the shutdown and the undoing | `ScriptInv`: what is up is still to be stopped in the rest of the script, the runtime last |
| `DeadNodeIsLeftAlone` | a callback that outlasts the join never polls the destroyed node when it returns | `EventInv`: once the node is gone the event is set, and stays so |
| `BleEndsBeforeItsParts` | BLE commands and STARTs during the shutdown | `CallerInv`: the first part of the stop script is the BLE server, and what comes after it finds the GLib thread ended or left behind |
| `TasksAreSwept` | any number of trees, over any number of STARTs | `LaunchInv`: what a caller within START holds; `AloneInv`: as long as no START overlapped, the only tree is registered or in the hands of its one caller; `SweepInv`: `stop_all()` is still to come, or has the tree in its snapshot, or has returned |
| `TypeCorrect` of each | type correctness | |

The properties are seldom inductive alone. `OneLaunchPerTask`, for example, says
nothing of the thread between check and registration, where it would break: the
strengthening adds what that thread holds.

Only model-checked is what must happen eventually, because the prover does not reason
about fairness and `ENABLED`. What is proved beside such a property is the safe half of its argument:
that what it waits for is not lost, or that the end comes in the right order.

| Checked under fairness | Proved |
|---|---|
| `EndedIsReported`, `StopIsConfirmed` | `NoLaunchIsOrphaned` |
| `SweptEnds` | `NoneLeftAtShutdown` |
| `StopReleasesClient`, `TalkingKickedEnds` | `ConnectionsAreClosed` |
| `AcceptedIsSettled` | `AcceptedIsNotLost`, `PendingAlwaysTimed` |
| `Heals` | `NoDeadEnd`, `BeliefsAreTrue` |
| `ShutdownEnds` | `ShutdownNeverStalls` |
| `RequestsAnswered`, `ChangeIsTold` | `ZoneLockIsInUse` |
| `StartedIsReported` | `BusyIsReleased`, `OutcomesAreTrue`, `CharacteristicSettles` |
| `WorldIsShown` | `SuppressedIsShown` |
| `BatteryCatchesUp` | `CacheIsLastReport` |
| `BridgeEnds` | `DeadNodeIsLeftAlone`, `FeaturesDetachFirst` |

## 5. What the models found

With a run each:

- Two threads can launch the same navigation task (`nav_race`): the lock is released
  between check and registration; the overwritten tree is out of reach of STOP and
  `stop_all`. "A normal stop first stops the tasks that still run"
  (`BLE_CONTROL_PROTOCOL.md:273`) is then not kept; nor is it when a START registers its
  tree after `stop_all` has taken its snapshot. `TasksEndWithBridge` states these two
  exceptions, and that there is no other.
- The end of an audio may never reach the BLE characteristic (`zone_end`): the poller
  compares with the last status told to *anyone*, and notifies outside the lock.

Seen while modelling, with the step in the model and a note at the hazard:

- START navigation is accepted while localization is STOPPING, although the protocol
  asks for RUNNING (`nav_tasks.py:211`).
- If the waiter of a START cannot be started, the task counts as running for good, and
  every later START is refused (`nav_tasks.py:252`; the stage "unwatched").
- A tree that ignores SIGINT stays STOPPING until the shutdown (`nav_tasks.py:270`).
- A replaced LAN connection is still served (`lan_server.py:357`, `:374`): `close()` does
  not wake the reader, which executes the lines it has and those it gets until its next
  `recv()`, although `lan_server.py:3` promises a single client. A kicked App that stays
  silent even keeps its connection and its thread.
- A quick WiFi failure leaves the LAN at CONNECTING: the reply is stored after the worker
  was started (`lan_server.py:461`), and an App that waits for the result as
  `LAN_CONTROL_PROTOCOL.md:122` has it waits in vain.
- Providers start before the BLE server has its characteristics. A first report that
  comes before them is dropped, and is not repeated until the reading changes
  (`main.py:170`), although `BLE_CONTROL_PROTOCOL.md:157` has the characteristic
  show it.
- If the thread of a WiFi attempt cannot be started, `_busy` stays set and every later
  request is answered BUSY (`wifi_config.py:131`; the stage "lost" of `WifiConfig`).
- Two publications of the endpoints that overlap may leave the older pair
  (`main.py:256`).
- A LAN client may launch a navigation task while the bridge starts. If the start is
  undone, or a signal comes before its handler is installed, nothing stops the task
  (`main.py:190`, `:323`; compare `BLE_CONTROL_PROTOCOL.md:273`).
- The reader of a LAN client is not joined by `stop()`: its commands may be answered
  "ERR internal" by parts that are stopped, or launch a task during and after `stop_all()`
  (`Bridge`, where `BleOutlived` says that BLE commands do neither, unless the GLib
  thread was left behind).
- A push can overtake the snapshot of a new connection (`lan_server.py:360`).
- A call registered after `stop()` took its snapshot is settled by its own timer only
  (`robot_control.py:191`).
- `StopNotify` of a characteristic plans no advertisement refresh; only a CCCD write
  does (`gatt_server.py:1804`, against `src/README.md:24-28`).

## 6. Not modelled

- Byte formats, texts and argument parsing, logs, configuration look-ups (`config.py`).
- The three lines of a LAN WiFi request and the states of the line handler between them.
- Restarting a component after `stop()`: the bridge never does it.
- Sends that block and lines cut by a full socket buffer (`Bridge` has threads that are
  stuck for ever, whatever they wait for); descendants that outlive the leader of a
  launched process group; which network the WiFi device is on.
- The order in which both transports deliver a navigation task's reply and its events:
  `NavTasks` ends where the manager calls out.
- How a battery message that lacks a field is merged with the last one; the counters
  from which the rates are computed.
- A notification that cannot be emitted because the bus is gone: `GattRegistration`
  has the bus, `Characteristics` the value, and no module both.

## 7. Plan

Done, in the order of importance: `TaskLifecycle` and `NavTasks`, `LanServer`,
`RobotControl`, `GattRegistration`, `ZoneVoice`, `Provisioning` and `WifiConfig`,
`Bridge`, `Providers`, `Characteristics`.

What would come next:

1. `NavDelivery`: `TaskLifecycle` composed with the delivery to both transports
   (events that overtake replies).
2. `LanLines`: the line handler with its three-line WiFi request.
3. That `LanServer` implements an abstract "latest value" register per channel.

Runs stay few: a module has one passing run, and a second one only for an instance
that answers another question.
