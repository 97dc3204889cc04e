------------------------------- MODULE Bridge -------------------------------
(***************************************************************************)
(* The life of the bridge (src/xiaozhi_ble/main.py): the order in which its    *)
(* parts are started, undone when the BLE server does not come up, and stopped *)
(* after a signal; the ROS runtime with its spin thread (ros_runtime.py), on   *)
(* whose node the battery provider (battery.py) and the topic commands        *)
(* (cmd_vel.py, zone_nav.py, initial_pose.py) sit; and the threads of both     *)
(* transports, which go on to run commands meanwhile.                         *)
(*                                                                         *)
(* A part whose stop() only ends a thread of its own is stopped in one step:   *)
(* its join ends or times out, and start() and stop() go on alike.  One        *)
(* navigation task stands for both, with the launches of it that may race and  *)
(* the snapshot stop_all() takes; the signals, reports and failures on their   *)
(* way are the module NavTasks.  Left out of robot control: its service calls, *)
(* which are the module RobotControl.                                        *)
(***************************************************************************)
EXTENDS Integers, Sequences

CONSTANTS
    BleThread,  \* the GLib thread
    LanReader,  \* the reader thread of the LAN client
    Trees,      \* bound: launched process trees that are around at a time
    NoTree      \* no tree

ASSUME BridgeAssumption == BleThread # LanReader /\ NoTree \notin Trees

Callers == {BleThread, LanReader}
Topics == {"zone_nav", "cmd_vel", "initial_pose"}
Senders == Topics \cup {"robot_control"}
OnNode == Senders \cup {"battery"}

(* Faulty variant: the runtime goes before what sits on its node.             *)
UndoOrderRuntimeFirst ==
    <<"lan", "zone_voice", "audio", "bandwidth", "memory", "cpu", "network", "ros_runtime",
      "zone_nav", "cmd_vel", "initial_pose", "robot_control", "battery">>

(* Faulty variant: a part is forgotten.                                      *)
UndoOrderShort ==
    <<"lan", "zone_voice", "audio", "bandwidth", "memory", "cpu", "network", "zone_nav", "cmd_vel",
      "initial_pose", "robot_control", "ros_runtime">>

(* start(), the undoing at its end, and stop().                              *)
StartOrder ==
    <<"ros_runtime", "battery", "robot_control", "zone_nav", "cmd_vel", "initial_pose", "network",
      "cpu", "memory", "bandwidth", "audio", "zone_voice", "lan", "server">>
UndoOrder ==
    <<"lan", "zone_voice", "audio", "bandwidth", "memory", "cpu", "network", "zone_nav", "cmd_vel",
      "initial_pose", "robot_control", "battery", "ros_runtime">>
StopOrder ==
    <<"server", "lan", "nav_tasks", "zone_voice", "audio", "bandwidth", "memory", "cpu", "network",
      "zone_nav", "cmd_vel", "initial_pose", "robot_control", "battery", "ros_runtime">>

Parts == {StartOrder[i] : i \in DOMAIN StartOrder} \cup {"nav_tasks"}

VARIABLES
    phase,      \* what the main thread is at
    todo,       \* the parts it has still to start, undo or stop
    rclpy,      \* rclpy can be imported
    up,         \* the parts that were started and not stopped
    server,     \* the BLE server's thread
    serverLeft, \* the main thread gave up waiting for it
    client,     \* a LAN client is connected: its reader runs, and nothing joins it
    node,       \* the rclpy node
    rosStop,    \* _stop_event of the runtime
    spin,       \* the spin thread
    pub,        \* _publisher of each topic command and of robot control
    hand,       \* the command a caller has looked up a publisher or a task for
    internal,   \* history: callers that were answered "ERR internal"
    entry,      \* _running: the tree registered for the task
    child,      \* the tree a caller has launched and not registered yet
    live,       \* the trees that run
    waited,     \* the trees whose waiter has not removed the entry yet
    swept,      \* how far stop_all() is
    found,      \* its snapshot of _running
    raced       \* history: callers whose START overlapped another one or stop_all()

mainVars == <<phase, todo, rclpy, up>>
bleVars == <<server, serverLeft>>
rosVars == <<node, rosStop, spin>>
treeVars == <<entry, child, live, waited>>
sweepVars == <<swept, found>>
callVars == <<hand, internal, raced>>

vars == <<mainVars, bleVars, client, rosVars, pub, callVars, treeVars, sweepVars>>

Nothing == "nothing"
Running == phase \in {"starting", "serving", "undoing", "stopping"}

TypeOK ==
    /\ phase \in {"starting", "serving", "undoing", "stopping", "exited", "failed", "killed"}
    /\ todo \in Seq(Parts)
    /\ rclpy \in BOOLEAN
    /\ up \in SUBSET Parts
    /\ server \in {"off", "starting", "serving", "closing", "ended"}
    /\ serverLeft \in BOOLEAN
    /\ client \in BOOLEAN
    /\ node \in {"none", "up", "destroyed"}
    /\ rosStop \in BOOLEAN
    /\ spin \in {"off", "checking", "polling", "calling", "ended"}
    /\ pub \in [Senders -> {"none", "live", "destroyed", "forgotten"}]
    /\ hand \in [Callers -> Senders \cup {"nav_tasks", Nothing}]
    /\ internal \in SUBSET Callers
    /\ entry \in Trees \cup {NoTree}
    /\ child \in [Callers -> Trees \cup {NoTree}]
    /\ live \in SUBSET Trees
    /\ waited \in SUBSET Trees
    /\ swept \in {"no", "waiting", "done"}
    /\ found \in SUBSET Trees
    /\ raced \in SUBSET Callers
    /\ spin = "off" <=> node = "none"
    /\ node # "up" => \A p \in OnNode : p \notin up

Init ==
    /\ phase = "starting"
    /\ todo = StartOrder
    /\ rclpy \in BOOLEAN
    /\ up = {}
    /\ server = "off"
    /\ serverLeft = FALSE
    /\ client = FALSE
    /\ node = "none"
    /\ rosStop = FALSE
    /\ spin = "off"
    /\ pub = [t \in Senders |-> "none"]
    /\ hand = [c \in Callers |-> Nothing]
    /\ internal = {}
    /\ entry = NoTree
    /\ child = [c \in Callers |-> NoTree]
    /\ live = {}
    /\ waited = {}
    /\ swept = "no"
    /\ found = {}
    /\ raced = {}

-----------------------------------------------------------------------------
(* The main thread starts the parts.                                         *)
Starting(part) == phase = "starting" /\ todo # <<>> /\ Head(todo) = part

StartRos ==
    /\ Starting("ros_runtime")
    /\ IF rclpy
         THEN node' = "up" /\ spin' = "checking" /\ up' = up \cup {"ros_runtime"}
         ELSE UNCHANGED <<node, spin, up>>
    /\ todo' = Tail(todo)
    /\ UNCHANGED <<phase, rclpy, bleVars, client, rosStop, pub, callVars, treeVars, sweepVars>>

(* Only if the runtime has started.                                          *)
StartOnNode(part) ==
    /\ Starting(part)
    /\ up' = IF "ros_runtime" \in up THEN up \cup {part} ELSE up
    /\ pub' = IF part \in Senders /\ "ros_runtime" \in up THEN [pub EXCEPT ![part] = "live"] ELSE pub
    /\ todo' = Tail(todo)
    /\ UNCHANGED <<phase, rclpy, bleVars, client, rosVars, callVars, treeVars, sweepVars>>

StartThread(part) ==
    /\ part \notin OnNode \cup {"ros_runtime", "lan", "server"}
    /\ Starting(part)
    /\ up' = up \cup {part}
    /\ todo' = Tail(todo)
    /\ UNCHANGED <<phase, rclpy, bleVars, client, rosVars, pub, callVars, treeVars, sweepVars>>

(* A port that cannot be bound is only logged.                               *)
StartLan ==
    /\ Starting("lan")
    /\ up' \in {up, up \cup {"lan"}}
    /\ todo' = Tail(todo)
    /\ UNCHANGED <<phase, rclpy, bleVars, client, rosVars, pub, callVars, treeVars, sweepVars>>

(* The BLE server starts a thread and waits for it, five seconds.            *)
StartServer ==
    /\ Starting("server")
    /\ server = "off"
    /\ server' = "starting"
    /\ UNCHANGED <<mainVars, serverLeft, client, rosVars, pub, callVars, treeVars, sweepVars>>

ServerReady ==
    /\ Running
    /\ server = "starting"
    /\ server' \in {"serving", "ended"}
    /\ UNCHANGED <<mainVars, serverLeft, client, rosVars, pub, callVars, treeVars, sweepVars>>

ServerStarted ==
    /\ Starting("server")
    /\ server = "serving"
    /\ phase' = "serving"
    /\ todo' = <<>>
    /\ up' = up \cup {"server"}
    /\ UNCHANGED <<rclpy, bleVars, client, rosVars, pub, callVars, treeVars, sweepVars>>

ServerNotStarted ==
    /\ Starting("server")
    /\ server \in {"starting", "ended"}
    /\ serverLeft' = (server = "starting")
    /\ phase' = "undoing"
    /\ todo' = UndoOrder
    /\ UNCHANGED <<rclpy, up, server, client, rosVars, pub, callVars, treeVars, sweepVars>>

-----------------------------------------------------------------------------
(* A signal: it ends the process at once before its handler is installed,      *)
(* which main() does as soon as start() has succeeded.                       *)
Signal ==
    \/ /\ phase \in {"starting", "undoing"}
       /\ phase' = "killed"
       /\ todo' = todo
       /\ UNCHANGED <<rclpy, up, bleVars, client, rosVars, pub, callVars, treeVars, sweepVars>>
    \/ /\ phase = "serving"
       /\ phase' = "stopping"
       /\ todo' = StopOrder
       /\ UNCHANGED <<rclpy, up, bleVars, client, rosVars, pub, callVars, treeVars, sweepVars>>

(* The main thread undoes or stops the parts.                                *)
Stopping(part) == phase \in {"undoing", "stopping"} /\ todo # <<>> /\ Head(todo) = part
Stopped(part) == todo' = Tail(todo) /\ up' = up \ {part}

(* The callers within START, past its check and not yet registered.          *)
Launching == {c \in Callers : hand[c] = "nav_tasks"}

(* Asked to shut down, the GLib thread still serves what comes before.        *)
CloseServer ==
    /\ Stopping("server")
    /\ server = "serving"
    /\ server' = "closing"
    /\ UNCHANGED <<mainVars, serverLeft, client, rosVars, pub, callVars, treeVars, sweepVars>>

ServerEnds ==
    /\ Running
    /\ server = "closing"
    /\ hand[BleThread] = Nothing
    /\ server' = "ended"
    /\ UNCHANGED <<mainVars, serverLeft, client, rosVars, pub, callVars, treeVars, sweepVars>>

(* Faulty variant: stop() does not wait for the GLib thread.                 *)
StopServerUnjoined ==
    /\ Stopping("server")
    /\ server \in {"closing", "ended"}
    /\ Stopped("server")
    /\ UNCHANGED <<phase, rclpy, bleVars, client, rosVars, pub, callVars, treeVars, sweepVars>>

StopServer ==
    /\ Stopping("server")
    /\ server \in {"closing", "ended"}
    /\ serverLeft' = (server = "closing")
    /\ Stopped("server")
    /\ UNCHANGED <<phase, rclpy, server, client, rosVars, pub, callVars, treeVars, sweepVars>>

(* The parts that have nothing but a thread or a subscription.               *)
StopThread(part) ==
    /\ part \notin Senders \cup {"server", "nav_tasks", "ros_runtime"}
    /\ Stopping(part)
    /\ Stopped(part)
    /\ UNCHANGED <<phase, rclpy, bleVars, client, rosVars, pub, callVars, treeVars, sweepVars>>

(* stop_all() signals what it finds registered ...                           *)
SnapshotTasks ==
    /\ Stopping("nav_tasks")
    /\ swept = "no"
    /\ swept' = "waiting"
    /\ found' = {entry} \ {NoTree}
    /\ raced' = raced \cup Launching
    /\ UNCHANGED <<mainVars, bleVars, client, rosVars, pub, hand, internal, treeVars>>

(* Faulty variant: the trees are signalled, and that is all.                 *)
EndTasksUnwaited ==
    /\ Stopping("nav_tasks")
    /\ swept = "waiting"
    /\ swept' = "done"
    /\ found' = {}
    /\ Stopped("nav_tasks")
    /\ UNCHANGED <<phase, rclpy, bleVars, client, rosVars, pub, callVars, treeVars>>

(* ... and waits for it, ten seconds, after which SIGKILL ends it.           *)
EndTasks ==
    /\ Stopping("nav_tasks")
    /\ swept = "waiting"
    /\ live' = live \ found
    /\ swept' = "done"
    /\ found' = {}
    /\ Stopped("nav_tasks")
    /\ UNCHANGED <<phase, rclpy, bleVars, client, rosVars, pub, callVars, entry, child, waited>>

(* A topic command's publisher is destroyed first and forgotten then.        *)
DestroyPublisher(t) ==
    /\ Stopping(t)
    /\ pub[t] = "live"
    /\ pub' = [pub EXCEPT ![t] = "destroyed"]
    /\ UNCHANGED <<mainVars, bleVars, client, rosVars, callVars, treeVars, sweepVars>>

ForgetPublisher(t) ==
    /\ Stopping(t)
    /\ pub[t] # "live"
    /\ pub' = [pub EXCEPT ![t] = "none"]
    /\ Stopped(t)
    /\ UNCHANGED <<phase, rclpy, bleVars, client, rosVars, callVars, treeVars, sweepVars>>

(* Robot control forgets its publisher under its lock and destroys it then.   *)
ForgetRobotPublisher ==
    /\ Stopping("robot_control")
    /\ pub["robot_control"] = "live"
    /\ pub' = [pub EXCEPT !["robot_control"] = "forgotten"]
    /\ UNCHANGED <<mainVars, bleVars, client, rosVars, callVars, treeVars, sweepVars>>

DestroyRobotPublisher ==
    /\ Stopping("robot_control")
    /\ pub["robot_control"] # "live"
    /\ pub' = [pub EXCEPT !["robot_control"] = "none"]
    /\ Stopped("robot_control")
    /\ UNCHANGED <<phase, rclpy, bleVars, client, rosVars, callVars, treeVars, sweepVars>>

-----------------------------------------------------------------------------
(* The ROS runtime: its event is set, its thread joined, its node destroyed.  *)
AskSpinStop ==
    /\ Stopping("ros_runtime")
    /\ ~rosStop
    /\ rosStop' = TRUE
    /\ UNCHANGED <<mainVars, bleVars, client, node, spin, pub, callVars, treeVars, sweepVars>>

(* Faulty variant: the join has no timeout.                                  *)
DestroyNodeJoined ==
    /\ Stopping("ros_runtime")
    /\ rosStop
    /\ spin \in {"off", "ended"}
    /\ node' = IF node = "up" THEN "destroyed" ELSE node
    /\ Stopped("ros_runtime")
    /\ UNCHANGED <<phase, rclpy, bleVars, client, rosStop, spin, pub, callVars, treeVars, sweepVars>>

(* A poll takes a fraction of a second, the join five: it times out only while *)
(* a callback is under way.                                                  *)
DestroyNode ==
    /\ Stopping("ros_runtime")
    /\ rosStop
    /\ spin \notin {"checking", "polling"}
    /\ node' = IF node = "up" THEN "destroyed" ELSE node
    /\ Stopped("ros_runtime")
    /\ UNCHANGED <<phase, rclpy, bleVars, client, rosStop, spin, pub, callVars, treeVars, sweepVars>>

SpinTo(place) ==
    /\ spin' = place
    /\ UNCHANGED <<mainVars, bleVars, client, node, rosStop, pub, callVars, treeVars, sweepVars>>

(* The loop of the spin thread: as long as the event is not set, spin_once()   *)
(* polls the node ...                                                        *)
LoopCheck ==
    /\ Running
    /\ spin = "checking"
    /\ SpinTo(IF rosStop THEN "ended" ELSE "polling")

EndPoll ==
    /\ Running
    /\ spin = "polling"
    /\ SpinTo("checking")

(* ... and runs a callback, of a battery message or of a service's answer,     *)
(* which tells both transports and may have to wait for a LAN client.         *)
Callback ==
    /\ Running
    /\ spin = "polling"
    /\ up \cap {"battery", "robot_control"} # {}
    /\ SpinTo("calling")

(* Faulty variant: after a callback the node is polled again at once.         *)
CallbackPollsOn ==
    /\ Running
    /\ spin = "calling"
    /\ SpinTo("polling")

CallbackEnds ==
    /\ Running
    /\ spin = "calling"
    /\ SpinTo("checking")

-----------------------------------------------------------------------------
(* The callers: the GLib thread from when it serves to its end, the reader    *)
(* of a LAN client from its connection on.                                   *)
Connect ==
    /\ Running
    /\ "lan" \in up
    /\ ~client
    /\ client' = TRUE
    /\ UNCHANGED <<mainVars, bleVars, rosVars, pub, callVars, treeVars, sweepVars>>

Serves(c) ==
    /\ Running
    /\ IF c = BleThread THEN server \in {"serving", "closing"} ELSE client

(* execute() finds a publisher.  (If not, the command is refused, which        *)
(* changes nothing.)                                                         *)
Accept(c, part) ==
    /\ Serves(c)
    /\ hand[c] = Nothing
    /\ pub[part] \in {"live", "destroyed"}
    /\ hand' = [hand EXCEPT ![c] = part]
    /\ UNCHANGED <<mainVars, bleVars, client, rosVars, pub, internal, raced, treeVars, sweepVars>>

(* publish() of a publisher that was destroyed, or of None, raises, and the   *)
(* transport answers "ERR internal".                                         *)
Publish(c) ==
    /\ Running
    /\ hand[c] \in Senders
    /\ internal' = IF pub[hand[c]] \in {"live", "forgotten"} THEN internal ELSE internal \cup {c}
    /\ hand' = [hand EXCEPT ![c] = Nothing]
    /\ UNCHANGED <<mainVars, bleVars, client, rosVars, pub, raced, treeVars, sweepVars>>

-----------------------------------------------------------------------------
(* START of the task: the check that none is registered, the launch, and the  *)
(* registration are apart, and whoever comes last has the entry.              *)
AcceptStart(c) ==
    /\ Serves(c)
    /\ hand[c] = Nothing
    /\ entry = NoTree
    /\ hand' = [hand EXCEPT ![c] = "nav_tasks"]
    /\ raced' = raced \cup (IF Launching # {} \/ swept # "no" THEN Launching \cup {c} ELSE {})
    /\ UNCHANGED <<mainVars, bleVars, client, rosVars, pub, internal, treeVars, sweepVars>>

RefuseStart(c) ==
    /\ Running
    /\ hand[c] = "nav_tasks"
    /\ child[c] = NoTree
    /\ hand' = [hand EXCEPT ![c] = Nothing]
    /\ UNCHANGED <<mainVars, bleVars, client, rosVars, pub, internal, raced, treeVars, sweepVars>>

(* The name of a tree nothing remembers any more is used again.              *)
Launch(c, t) ==
    /\ Running
    /\ hand[c] = "nav_tasks"
    /\ child[c] = NoTree
    /\ t \notin live \cup waited \cup found \cup {child[d] : d \in Callers}
    /\ child' = [child EXCEPT ![c] = t]
    /\ live' = live \cup {t}
    /\ UNCHANGED <<mainVars, bleVars, client, rosVars, pub, callVars, entry, waited, sweepVars>>

Register(c) ==
    /\ Running
    /\ child[c] # NoTree
    /\ entry' = child[c]
    /\ waited' = waited \cup {child[c]}
    /\ child' = [child EXCEPT ![c] = NoTree]
    /\ hand' = [hand EXCEPT ![c] = Nothing]
    /\ UNCHANGED <<mainVars, bleVars, client, rosVars, pub, internal, raced, live, sweepVars>>

(* A tree ends by itself, or of a signal.                                    *)
TreeEnds(t) ==
    /\ Running
    /\ t \in live
    /\ live' = live \ {t}
    /\ UNCHANGED <<mainVars, bleVars, client, rosVars, pub, callVars, entry, child, waited, sweepVars>>

(* Its waiter removes the entry of the task, whichever tree that is.          *)
WaiterPop(t) ==
    /\ Running
    /\ t \in waited \ live
    /\ entry' = NoTree
    /\ waited' = waited \ {t}
    /\ UNCHANGED <<mainVars, bleVars, client, rosVars, pub, callVars, child, live, sweepVars>>

-----------------------------------------------------------------------------
(* main() returns, or exits with an error; the threads left end with it.      *)
Exit ==
    /\ phase \in {"undoing", "stopping"}
    /\ todo = <<>>
    /\ phase' = IF phase = "undoing" THEN "failed" ELSE "exited"
    /\ UNCHANGED <<todo, rclpy, up, bleVars, client, rosVars, pub, callVars, treeVars, sweepVars>>

-----------------------------------------------------------------------------
StartPart ==
    \/ StartRos
    \/ \E part \in OnNode : StartOnNode(part)
    \/ \E part \in Parts : StartThread(part)
    \/ StartLan
    \/ StartServer
    \/ ServerStarted
    \/ ServerNotStarted

StopPart ==
    \/ CloseServer
    \/ StopServer
    \/ \E part \in Parts : StopThread(part)
    \/ SnapshotTasks
    \/ EndTasks
    \/ \E t \in Topics : DestroyPublisher(t) \/ ForgetPublisher(t)
    \/ ForgetRobotPublisher
    \/ DestroyRobotPublisher
    \/ AskSpinStop
    \/ DestroyNode

SpinStep == LoopCheck \/ EndPoll \/ Callback \/ CallbackEnds

CallerStep(c) ==
    \/ \E part \in Senders : Accept(c, part)
    \/ Publish(c)
    \/ AcceptStart(c)
    \/ RefuseStart(c)
    \/ \E t \in Trees : Launch(c, t)
    \/ Register(c)

Next ==
    \/ StartPart
    \/ StopPart
    \/ Exit
    \/ Signal
    \/ ServerReady
    \/ ServerEnds
    \/ SpinStep
    \/ Connect
    \/ \E t \in Trees : TreeEnds(t) \/ WaiterPop(t)
    \/ \E c \in Callers : CallerStep(c)

Spec == Init /\ [][Next]_vars

(* The main thread goes on, and a spin thread that is not in a callback sees   *)
(* its event.  A callback, a command or the BLE server may take for ever.     *)
FairSpec == Spec /\ WF_vars(StopPart) /\ WF_vars(Exit) /\ WF_vars(LoopCheck \/ EndPoll)

-----------------------------------------------------------------------------
(* When the node is destroyed nothing sits on it any more (main.py:211-212).  *)
DetachedBeforeNode ==
    node = "destroyed" => up \cap OnNode = {} /\ \A t \in Senders : pub[t] = "none"

(* spin_once() is never called with a node that is destroyed: the event was set *)
(* before, so that also a spin thread that is still in a callback when the     *)
(* join has timed out looks at it before it would poll again                  *)
(* (ros_runtime.py:70-93).                                                   *)
PollsSpareDeadNode == node = "destroyed" => spin # "polling"

(* Over BLE no command fails for the shutdown, and no START races stop_all(),   *)
(* unless the GLib thread was left behind: it ends before what it calls is     *)
(* stopped (main.py:198-199).  A START over BLE can race one over LAN.         *)
BleOutlived ==
    /\ BleThread \in internal => serverLeft
    /\ BleThread \in raced => serverLeft \/ LanReader \in raced

(* "A normal stop first stops the tasks that still run"                       *)
(* (BLE_CONTROL_PROTOCOL.md:273): a bridge that stops leaves a task running    *)
(* only if a START over LAN overlapped another one, whose tree it took out of  *)
(* the registry, or the snapshot of stop_all(), after which nobody looks; or   *)
(* if one over BLE did, on a GLib thread that was left behind.  With such a    *)
(* START the promise is not kept (nav_tasks.py:185, 206-245).                 *)
TasksEndWithBridge ==
    phase = "exited" /\ live # {} =>
        LanReader \in raced \/ (serverLeft /\ BleThread \in raced)

(* Whatever was started is stopped, by stop() as by the undoing of start().   *)
NothingLeftStarted == phase \in {"exited", "failed"} => up = {}

(* A bridge that gives up or was told to stop does end, though every thread it *)
(* waits for be stuck.                                                       *)
BridgeEnds == phase \in {"undoing", "stopping"} ~> ~Running
=============================================================================
