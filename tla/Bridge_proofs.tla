---------------------------- MODULE Bridge_proofs ----------------------------
(* Theorems about Bridge.                                                    *)
EXTENDS Bridge, SequenceTheorems, TLAPS

USE DEF mainVars, bleVars, rosVars, callVars, treeVars, sweepVars

-----------------------------------------------------------------------------
(* The three scripts, and what is left of one when its first part is done.    *)

Closing == phase \in {"undoing", "stopping"}
Pending(q) == {q[i] : i \in 1..Len(q)}
RuntimeIsLast(q) == \A i \in 1..Len(q) : q[i] = "ros_runtime" => i = Len(q)

LEMMA StartScript ==
    /\ StartOrder \in Seq(Parts)
    /\ "nav_tasks" \notin Pending(StartOrder)
    /\ Parts = Pending(StartOrder) \cup {"nav_tasks"}
<1>1. DOMAIN StartOrder = 1..14 /\ Len(StartOrder) = 14
  BY DEF StartOrder
<1>2. Parts = Pending(StartOrder) \cup {"nav_tasks"}
  BY <1>1 DEF Parts, Pending
<1>3. StartOrder \in Seq(Parts)
  BY <1>1, <1>2 DEF StartOrder, Pending
<1>4. \A i \in 1..14 : StartOrder[i] # "nav_tasks"
  BY DEF StartOrder
<1>. QED
  BY <1>1, <1>2, <1>3, <1>4 DEF Pending

LEMMA PartsAre ==
    Parts = {"ros_runtime", "battery", "robot_control", "zone_nav", "cmd_vel", "initial_pose",
             "network", "cpu", "memory", "bandwidth", "audio", "zone_voice", "lan", "server",
             "nav_tasks"}
<1>1. DOMAIN StartOrder = 1..14
  BY DEF StartOrder
<1>2. \A i \in 1..14 : StartOrder[i] \in
         {"ros_runtime", "battery", "robot_control", "zone_nav", "cmd_vel", "initial_pose",
          "network", "cpu", "memory", "bandwidth", "audio", "zone_voice", "lan", "server"}
  BY DEF StartOrder
<1>3. /\ StartOrder[1] = "ros_runtime" /\ StartOrder[2] = "battery"
      /\ StartOrder[3] = "robot_control" /\ StartOrder[4] = "zone_nav"
      /\ StartOrder[5] = "cmd_vel" /\ StartOrder[6] = "initial_pose"
      /\ StartOrder[7] = "network" /\ StartOrder[8] = "cpu"
      /\ StartOrder[9] = "memory" /\ StartOrder[10] = "bandwidth"
      /\ StartOrder[11] = "audio" /\ StartOrder[12] = "zone_voice"
      /\ StartOrder[13] = "lan" /\ StartOrder[14] = "server"
  BY DEF StartOrder
<1>. QED
  BY <1>1, <1>2, <1>3 DEF Parts

LEMMA StopScript ==
    /\ StopOrder \in Seq(Parts)
    /\ Parts \subseteq Pending(StopOrder)
    /\ RuntimeIsLast(StopOrder)
    /\ Head(StopOrder) = "server"
    /\ StopOrder # <<>>
    /\ \A i \in 2..Len(StopOrder) : StopOrder[i] # "server"
<1>1. Len(StopOrder) = 15
  BY DEF StopOrder
<1>2. StopOrder \in Seq(Parts) /\ Head(StopOrder) = "server" /\ StopOrder # <<>>
  BY PartsAre DEF StopOrder
<1>3. RuntimeIsLast(StopOrder) /\ \A i \in 2..15 : StopOrder[i] # "server"
  BY <1>1 DEF StopOrder, RuntimeIsLast
<1>4. /\ StopOrder[1] = "server" /\ StopOrder[2] = "lan" /\ StopOrder[3] = "nav_tasks"
      /\ StopOrder[4] = "zone_voice" /\ StopOrder[5] = "audio" /\ StopOrder[6] = "bandwidth"
      /\ StopOrder[7] = "memory" /\ StopOrder[8] = "cpu" /\ StopOrder[9] = "network"
      /\ StopOrder[10] = "zone_nav" /\ StopOrder[11] = "cmd_vel"
      /\ StopOrder[12] = "initial_pose" /\ StopOrder[13] = "robot_control"
      /\ StopOrder[14] = "battery" /\ StopOrder[15] = "ros_runtime"
  BY DEF StopOrder
<1>5. Parts \subseteq Pending(StopOrder)
  BY <1>1, <1>4, PartsAre DEF Pending
<1>. QED
  BY <1>1, <1>2, <1>3, <1>5

LEMMA UndoScript ==
    /\ UndoOrder \in Seq(Parts)
    /\ Parts \ {"server", "nav_tasks"} \subseteq Pending(UndoOrder)
    /\ RuntimeIsLast(UndoOrder)
    /\ "server" \notin Pending(UndoOrder)
<1>1. Len(UndoOrder) = 13
  BY DEF UndoOrder
<1>2. UndoOrder \in Seq(Parts)
  BY PartsAre DEF UndoOrder
<1>3. RuntimeIsLast(UndoOrder)
  BY <1>1 DEF UndoOrder, RuntimeIsLast
<1>4. /\ UndoOrder[1] = "lan" /\ UndoOrder[2] = "zone_voice" /\ UndoOrder[3] = "audio"
      /\ UndoOrder[4] = "bandwidth" /\ UndoOrder[5] = "memory" /\ UndoOrder[6] = "cpu"
      /\ UndoOrder[7] = "network" /\ UndoOrder[8] = "zone_nav" /\ UndoOrder[9] = "cmd_vel"
      /\ UndoOrder[10] = "initial_pose" /\ UndoOrder[11] = "robot_control"
      /\ UndoOrder[12] = "battery" /\ UndoOrder[13] = "ros_runtime"
  BY DEF UndoOrder
<1>5. Parts \ {"server", "nav_tasks"} \subseteq Pending(UndoOrder)
  BY <1>1, <1>4, PartsAre DEF Pending
<1>6. "server" \notin Pending(UndoOrder)
  BY <1>1 DEF UndoOrder, Pending
<1>. QED
  BY <1>2, <1>3, <1>5, <1>6

LEMMA OnePartLess ==
    ASSUME NEW q \in Seq(Parts), q # <<>>
    PROVE  /\ Tail(q) \in Seq(Parts) /\ Head(q) \in Parts
           /\ Pending(q) \subseteq Pending(Tail(q)) \cup {Head(q)}
           /\ Pending(Tail(q)) \subseteq Pending(q)
           /\ RuntimeIsLast(q) => RuntimeIsLast(Tail(q))
           /\ RuntimeIsLast(q) /\ Head(q) = "ros_runtime" => Pending(q) = {"ros_runtime"}
<1>1. Len(q) \in Nat /\ Len(q) # 0
  BY EmptySeq
<1>2. /\ Tail(q) \in Seq(Parts) /\ Head(q) \in Parts
      /\ Len(Tail(q)) = Len(q) - 1
      /\ \A i \in 1..Len(Tail(q)) : Tail(q)[i] = q[i + 1]
  BY HeadTailProperties
<1>3. Head(q) = q[1]
  OBVIOUS
<1>4. \A i \in 1..Len(q) : i = 1 \/ (i - 1 \in 1..Len(Tail(q)) /\ q[i] = Tail(q)[i - 1])
  BY <1>1, <1>2
<1>5. Pending(q) \subseteq Pending(Tail(q)) \cup {Head(q)}
  BY <1>3, <1>4 DEF Pending
<1>6. Pending(Tail(q)) \subseteq Pending(q)
  BY <1>1, <1>2 DEF Pending
<1>7. RuntimeIsLast(q) => RuntimeIsLast(Tail(q))
  <2>. SUFFICES ASSUME RuntimeIsLast(q), NEW i \in 1..Len(Tail(q)), Tail(q)[i] = "ros_runtime"
                PROVE  i = Len(Tail(q))
    BY DEF RuntimeIsLast
  <2>1. i + 1 \in 1..Len(q) /\ q[i + 1] = "ros_runtime"
    BY <1>1, <1>2
  <2>2. i + 1 = Len(q)
    BY <2>1, Zenon DEF RuntimeIsLast
  <2>3. Len(Tail(q)) = Len(q) - 1
    BY <1>2, Zenon
  <2>4. i \in Int
    BY <1>1, <2>3
  <2>5. i + 1 - 1 = i
    BY <2>4
  <2>. QED
    BY <2>2, <2>3, <2>5
<1>8. ASSUME RuntimeIsLast(q), Head(q) = "ros_runtime" PROVE Pending(q) = {"ros_runtime"}
  <2>1. Len(q) = 1
    <3>1. 1 \in 1..Len(q) /\ q[1] = "ros_runtime"
      BY <1>1, <1>3, <1>8
    <3>. QED
      BY <1>8, <3>1, Zenon DEF RuntimeIsLast
  <2>. QED
    BY <1>3, <1>8, <2>1 DEF Pending
<1>. QED
  BY <1>2, <1>5, <1>6, <1>7, <1>8

-----------------------------------------------------------------------------
(* The inductive invariant.  What is up has still to be stopped, the runtime   *)
(* last; what sits on the node is up only as long as the runtime is.          *)
ScriptInv ==
    /\ phase = "starting" => "nav_tasks" \notin Pending(todo) \cup up /\ "server" \notin up
    /\ Closing => up \subseteq Pending(todo) /\ RuntimeIsLast(todo)
    /\ phase \in {"exited", "failed"} => up = {}
    /\ "ros_runtime" \in up <=> node = "up"
    /\ \A t \in Senders : pub[t] # "none" => t \in up

Inv == TypeOK /\ ScriptInv

(* The main thread goes on with its script. *)
LEMMA NextPart ==
    ASSUME Inv, todo # <<>>
    PROVE  /\ Tail(todo) \in Seq(Parts) /\ Head(todo) \in Parts
           /\ Pending(todo) \subseteq Pending(Tail(todo)) \cup {Head(todo)}
           /\ Pending(Tail(todo)) \subseteq Pending(todo)
           /\ RuntimeIsLast(todo) => RuntimeIsLast(Tail(todo))
           /\ RuntimeIsLast(todo) /\ Head(todo) = "ros_runtime" => Pending(todo) = {"ros_runtime"}
           /\ Head(todo) \in Pending(todo)
<1>1. todo \in Seq(Parts)
  BY DEF Inv, TypeOK
<1>2. Head(todo) = todo[1] /\ 1 \in 1..Len(todo)
  BY <1>1, EmptySeq
<1>. QED
  BY <1>1, <1>2, OnePartLess DEF Pending

LEMMA InitInv == Init => Inv
<1>. SUFFICES ASSUME Init PROVE Inv
  OBVIOUS
<1>1. todo \in Seq(Parts) /\ "nav_tasks" \notin Pending(todo)
  BY StartScript DEF Init
<1>2. hand \in [Callers -> Senders \cup {"nav_tasks", Nothing}]
  BY DEF Init
<1>. QED
  BY <1>1, <1>2 DEF Init, Inv, ScriptInv, TypeOK, Closing

LEMMA SomeParts ==
    /\ Topics \subseteq Senders /\ Senders \subseteq OnNode /\ OnNode \subseteq Parts
    /\ "robot_control" \in Senders
    /\ "ros_runtime" \notin OnNode /\ "nav_tasks" \notin OnNode /\ "server" \notin OnNode
    /\ "lan" \notin OnNode
    /\ {"ros_runtime", "nav_tasks", "server", "lan"} \subseteq Parts
BY PartsAre DEF Topics, Senders, OnNode

LEMMA StartKeeps == ASSUME Inv, StartPart PROVE Inv'
<1>. USE DEF Inv, ScriptInv, Closing
<1>1. todo # <<>> /\ phase = "starting"
  BY DEF StartPart, StartRos, StartOnNode, StartThread, StartLan, StartServer, ServerStarted,
         ServerNotStarted, Starting
<1>2. /\ Tail(todo) \in Seq(Parts)
      /\ "nav_tasks" \notin Pending(Tail(todo))
  BY <1>1, NextPart
<1>3. CASE StartRos
  BY <1>1, <1>2, <1>3, SomeParts DEF StartRos, Starting, TypeOK
<1>4. ASSUME NEW part \in OnNode, StartOnNode(part) PROVE Inv'
  <2>1. up' \in SUBSET Parts /\ "nav_tasks" \notin up' /\ "server" \notin up'
    BY <1>1, <1>4, SomeParts DEF StartOnNode, TypeOK
  <2>2. /\ pub' \in [Senders -> {"none", "live", "destroyed", "forgotten"}]
        /\ \A t \in Senders : pub'[t] # "none" => t \in up'
    BY <1>4 DEF StartOnNode, TypeOK
  <2>3. "ros_runtime" \in up' <=> node' = "up"
    BY <1>4, SomeParts DEF StartOnNode
  <2>4. node' # "up" => \A p \in OnNode : p \notin up'
    BY <1>4 DEF StartOnNode, TypeOK
  <2>. QED
    BY <1>1, <1>2, <1>4, <2>1, <2>2, <2>3, <2>4 DEF StartOnNode, Starting, TypeOK
<1>5. ASSUME NEW part \in Parts, StartThread(part) PROVE Inv'
  <2>1. part # "nav_tasks"
    BY <1>1, <1>5, NextPart DEF StartThread, Starting
  <2>. QED
    BY <1>1, <1>2, <1>5, <2>1 DEF StartThread, Starting, TypeOK
<1>6. CASE StartLan
  BY <1>1, <1>2, <1>6, SomeParts DEF StartLan, Starting, TypeOK
<1>7. CASE StartServer
  BY <1>1, <1>7 DEF StartServer, Starting, TypeOK
<1>8. CASE ServerStarted
  <2>1. <<>> \in Seq(Parts)
    OBVIOUS
  <2>. QED
    BY <1>1, <1>8, <2>1, SomeParts DEF ServerStarted, Starting, TypeOK
<1>9. CASE ServerNotStarted
  <2>1. up \subseteq Pending(UndoOrder)
    BY <1>1, UndoScript DEF TypeOK
  <2>. QED
    BY <1>1, <1>9, <2>1, UndoScript DEF ServerNotStarted, Starting, TypeOK
<1>. QED
  BY <1>3, <1>4, <1>5, <1>6, <1>7, <1>8, <1>9 DEF StartPart

(* What stopping a part does to the script and to what is up. *)
LEMMA StoppedPart ==
    ASSUME Inv, NEW part, Stopping(part), Stopped(part)
    PROVE  /\ Closing /\ todo' \in Seq(Parts) /\ up' \in SUBSET Parts
           /\ part \in Parts /\ up' \subseteq Pending(todo') /\ RuntimeIsLast(todo')
           /\ part = "ros_runtime" => up' = {}
<1>1. /\ Closing /\ todo # <<>> /\ Head(todo) = part
      /\ todo' = Tail(todo) /\ up' = up \ {part}
  BY DEF Stopping, Stopped, Closing
<1>2. up \subseteq Pending(todo) /\ RuntimeIsLast(todo) /\ up \subseteq Parts
  BY <1>1 DEF Inv, ScriptInv, TypeOK
<1>. QED
  BY <1>1, <1>2, NextPart

LEMMA StopKeeps == ASSUME Inv, StopPart PROVE Inv'
<1>1. CASE CloseServer
  BY <1>1 DEF CloseServer, Inv, ScriptInv, Closing, TypeOK
<1>2. CASE StopServer
  <2>1. Stopping("server") /\ Stopped("server")
    BY <1>2 DEF StopServer
  <2>. QED
    BY <1>2, <2>1, StoppedPart, SomeParts DEF StopServer, Stopped, Inv, ScriptInv, Closing, TypeOK
<1>3. ASSUME NEW part \in Parts, StopThread(part) PROVE Inv'
  <2>1. Stopping(part) /\ Stopped(part)
    BY <1>3 DEF StopThread
  <2>. QED
    BY <1>3, <2>1, StoppedPart, SomeParts DEF StopThread, Stopped, Inv, ScriptInv, Closing, TypeOK
<1>4. CASE SnapshotTasks
  <2>1. found' \in SUBSET Trees /\ raced' \in SUBSET Callers
    BY <1>4 DEF SnapshotTasks, Launching, Inv, TypeOK
  <2>2. UNCHANGED <<mainVars, bleVars, client, rosVars, pub, hand, internal, treeVars>> /\ swept' = "waiting"
    BY <1>4 DEF SnapshotTasks
  <2>. QED
    BY <2>1, <2>2 DEF Inv, ScriptInv, Closing, TypeOK
<1>10. CASE EndTasks
  <2>1. Stopping("nav_tasks") /\ Stopped("nav_tasks")
    BY <1>10 DEF EndTasks
  <2>2. /\ Closing /\ todo' \in Seq(Parts) /\ up' \in SUBSET Parts
        /\ up' \subseteq Pending(todo') /\ RuntimeIsLast(todo')
    BY <2>1, StoppedPart
  <2>3. /\ UNCHANGED <<phase, rclpy, bleVars, client, rosVars, pub, callVars, entry, child, waited>>
        /\ live' = live \ found /\ swept' = "done" /\ found' = {} /\ up' = up \ {"nav_tasks"}
    BY <1>10 DEF EndTasks, Stopped
  <2>4. TypeOK'
    BY <2>2, <2>3 DEF Inv, TypeOK
  <2>5. ScriptInv'
    BY <2>2, <2>3, SomeParts DEF Inv, ScriptInv, Closing
  <2>. QED
    BY <2>4, <2>5 DEF Inv
<1>5. ASSUME NEW t \in Topics, DestroyPublisher(t) PROVE Inv'
  <2>1. /\ pub' \in [Senders -> {"none", "live", "destroyed", "forgotten"}]
        /\ \A u \in Senders : pub'[u] # "none" => u \in up
    BY <1>5, SomeParts DEF DestroyPublisher, Inv, ScriptInv, TypeOK
  <2>. QED
    BY <1>5, <2>1 DEF DestroyPublisher, Inv, ScriptInv, Closing, TypeOK
<1>6. ASSUME NEW t \in Topics, ForgetPublisher(t) PROVE Inv'
  <2>1. Stopping(t) /\ Stopped(t)
    BY <1>6 DEF ForgetPublisher
  <2>2. /\ pub' \in [Senders -> {"none", "live", "destroyed", "forgotten"}]
        /\ \A u \in Senders : pub'[u] # "none" => u \in up'
    BY <1>6, <2>1, SomeParts DEF ForgetPublisher, Stopped, Inv, ScriptInv, TypeOK
  <2>. QED
    BY <1>6, <2>1, <2>2, StoppedPart, SomeParts
       DEF ForgetPublisher, Stopped, Inv, ScriptInv, Closing, TypeOK
<1>7. CASE AskSpinStop
  BY <1>7 DEF AskSpinStop, Inv, ScriptInv, Closing, TypeOK
<1>8. CASE DestroyNode
  <2>1. Stopping("ros_runtime") /\ Stopped("ros_runtime")
    BY <1>8 DEF DestroyNode
  <2>2. up' = {} /\ node' # "up" /\ \A t \in Senders : pub'[t] = "none"
    <3>1. up' = {} /\ up \subseteq {"ros_runtime"}
      BY <2>1, StoppedPart DEF Stopped
    <3>. QED
      BY <1>8, <3>1, SomeParts DEF DestroyNode, Inv, ScriptInv, TypeOK
  <2>. QED
    BY <1>8, <2>1, <2>2, StoppedPart DEF DestroyNode, Inv, ScriptInv, Closing, TypeOK
<1>9. CASE ForgetRobotPublisher
  <2>1. /\ pub' \in [Senders -> {"none", "live", "destroyed", "forgotten"}]
        /\ \A u \in Senders : pub'[u] # "none" => u \in up
    BY <1>9, SomeParts DEF ForgetRobotPublisher, Inv, ScriptInv, TypeOK
  <2>. QED
    BY <1>9, <2>1 DEF ForgetRobotPublisher, Inv, ScriptInv, Closing, TypeOK
<1>11. CASE DestroyRobotPublisher
  <2>1. Stopping("robot_control") /\ Stopped("robot_control")
    BY <1>11 DEF DestroyRobotPublisher
  <2>2. /\ pub' \in [Senders -> {"none", "live", "destroyed", "forgotten"}]
        /\ \A u \in Senders : pub'[u] # "none" => u \in up'
    BY <1>11, <2>1, SomeParts DEF DestroyRobotPublisher, Stopped, Inv, ScriptInv, TypeOK
  <2>. QED
    BY <1>11, <2>1, <2>2, StoppedPart, SomeParts
       DEF DestroyRobotPublisher, Stopped, Inv, ScriptInv, Closing, TypeOK
<1>. QED
  BY <1>1, <1>2, <1>3, <1>4, <1>5, <1>6, <1>7, <1>8, <1>9, <1>10, <1>11 DEF StopPart

LEMMA NextInv == Inv /\ [Next]_vars => Inv'
<1>. SUFFICES ASSUME Inv, [Next]_vars PROVE Inv'
  OBVIOUS
<1>1. CASE Exit
  <2>1. Pending(todo) = {}
    BY <1>1 DEF Exit, Pending
  <2>. QED
    BY <1>1, <2>1 DEF Exit, Inv, ScriptInv, Closing, TypeOK
<1>2. CASE Signal
  <2>1. \/ phase' = "killed" /\ todo' = todo
        \/ phase' = "stopping" /\ todo' = StopOrder
    BY <1>2 DEF Signal
  <2>2. UNCHANGED <<rclpy, up, bleVars, client, rosVars, pub, callVars, treeVars, sweepVars>>
    BY <1>2 DEF Signal
  <2>3. todo' \in Seq(Parts) /\ (phase' = "stopping" => todo' = StopOrder)
    BY <2>1, StopScript DEF Inv, TypeOK
  <2>4. phase' = "stopping" => up' \subseteq Pending(todo') /\ RuntimeIsLast(todo')
    BY <2>2, <2>3, StopScript DEF Inv, TypeOK
  <2>5. phase' \in {"killed", "stopping"}
    BY <2>1
  <2>6. TypeOK'
    BY <2>2, <2>3, <2>5 DEF Inv, TypeOK
  <2>7. ScriptInv'
    BY <2>2, <2>4, <2>5 DEF Inv, ScriptInv, Closing
  <2>. QED
    BY <2>6, <2>7 DEF Inv
<1>3. CASE ServerReady \/ ServerEnds
  BY <1>3 DEF ServerReady, ServerEnds, Inv, ScriptInv, Closing, TypeOK
<1>4. CASE SpinStep
  <2>1. /\ UNCHANGED <<mainVars, bleVars, client, node, rosStop, pub, callVars, treeVars, sweepVars>>
        /\ spin # "off" /\ spin' \in {"checking", "polling", "calling", "ended"}
    BY <1>4 DEF SpinStep, LoopCheck, EndPoll, Callback, CallbackEnds, SpinTo
  <2>. QED
    BY <2>1 DEF Inv, ScriptInv, Closing, TypeOK
<1>5. ASSUME Connect \/ \E t \in Trees : TreeEnds(t) \/ WaiterPop(t) PROVE Inv'
  <2>1. /\ UNCHANGED <<mainVars, bleVars, rosVars, pub, callVars, child, sweepVars>>
        /\ client' \in BOOLEAN /\ entry' \in Trees \cup {NoTree}
        /\ live' \in SUBSET Trees /\ waited' \in SUBSET Trees
    BY <1>5 DEF Connect, TreeEnds, WaiterPop, Inv, TypeOK
  <2>2. TypeOK'
    BY <2>1 DEF Inv, TypeOK
  <2>3. ScriptInv'
    BY <2>1 DEF Inv, ScriptInv, Closing
  <2>. QED
    BY <2>2, <2>3 DEF Inv
<1>6. ASSUME NEW c \in Callers, CallerStep(c) PROVE Inv'
  <2>1. UNCHANGED <<mainVars, bleVars, client, rosVars, pub, sweepVars>>
    BY <1>6 DEF CallerStep, Accept, Publish, AcceptStart, RefuseStart, Launch, Register
  <2>2. /\ hand' \in [Callers -> Senders \cup {"nav_tasks", Nothing}]
        /\ internal' \in SUBSET Callers /\ raced' \in SUBSET Callers
    BY <1>6 DEF CallerStep, Accept, Publish, AcceptStart, RefuseStart, Launch, Register, Launching,
                Inv, TypeOK
  <2>3. /\ entry' \in Trees \cup {NoTree} /\ child' \in [Callers -> Trees \cup {NoTree}]
        /\ live' \in SUBSET Trees /\ waited' \in SUBSET Trees
    BY <1>6 DEF CallerStep, Accept, Publish, AcceptStart, RefuseStart, Launch, Register, Inv, TypeOK
  <2>4. TypeOK'
    BY <2>1, <2>2, <2>3 DEF Inv, TypeOK
  <2>5. ScriptInv'
    BY <2>1 DEF Inv, ScriptInv, Closing
  <2>. QED
    BY <2>4, <2>5 DEF Inv
<1>7. CASE UNCHANGED vars
  BY <1>7 DEF vars, Inv, ScriptInv, Closing, TypeOK
<1>. QED
  BY <1>1, <1>2, <1>3, <1>4, <1>5, <1>6, <1>7, StartKeeps, StopKeeps DEF Next

LEMMA Invariance == Spec => []Inv
<1>. QED
  BY InitInv, NextInv, PTL DEF Spec

(* The parts and threads keep to their types: in particular nothing sits on a  *)
(* node that is not up (main.py:163-169).                                    *)
THEOREM TypeCorrect == Spec => []TypeOK
<1>1. Inv => TypeOK
  BY DEF Inv
<1>. QED
  BY <1>1, Invariance, PTL

(* Stop and undo alike detach every feature before the node is destroyed, with *)
(* commands and callbacks under way.                                         *)
THEOREM FeaturesDetachFirst == Spec => []DetachedBeforeNode
<1>1. Inv => DetachedBeforeNode
  BY SomeParts DEF Inv, ScriptInv, TypeOK, DetachedBeforeNode
<1>. QED
  BY <1>1, Invariance, PTL

(* Both scripts name every part that start() may have started.               *)
THEOREM NothingIsForgotten == Spec => []NothingLeftStarted
<1>1. Inv => NothingLeftStarted
  BY DEF Inv, ScriptInv, NothingLeftStarted
<1>. QED
  BY <1>1, Invariance, PTL

-----------------------------------------------------------------------------
(* Once the node is destroyed the event is set, and stays so.                *)
EventInv == node = "destroyed" => rosStop /\ spin # "polling"

LEMMA EventNext == Inv /\ EventInv /\ [Next]_vars => EventInv'
<1>. SUFFICES ASSUME Inv, EventInv, [Next]_vars PROVE EventInv'
  OBVIOUS
<1>. USE DEF EventInv
<1>1. CASE StartPart
  BY <1>1 DEF StartPart, StartRos, StartOnNode, StartThread, StartLan, StartServer, ServerStarted,
              ServerNotStarted
<1>2. CASE AskSpinStop
  BY <1>2 DEF AskSpinStop
<1>3. CASE DestroyNode
  BY <1>3 DEF DestroyNode
<1>4. CASE StopPart /\ ~AskSpinStop /\ ~DestroyNode
  <2>1. UNCHANGED rosVars
    BY <1>4 DEF StopPart, CloseServer, StopServer, StopThread, SnapshotTasks, EndTasks,
                DestroyPublisher, ForgetPublisher, ForgetRobotPublisher, DestroyRobotPublisher
  <2>. QED
    BY <2>1
<1>5. CASE SpinStep
  BY <1>5 DEF SpinStep, LoopCheck, EndPoll, Callback, CallbackEnds, SpinTo
<1>6. CASE Exit \/ Signal \/ ServerReady \/ ServerEnds \/ Connect \/ UNCHANGED vars
  BY <1>6 DEF Exit, Signal, ServerReady, ServerEnds, Connect, vars
<1>7. CASE \E t \in Trees : TreeEnds(t) \/ WaiterPop(t)
  BY <1>7 DEF TreeEnds, WaiterPop
<1>8. CASE \E c \in Callers : CallerStep(c)
  BY <1>8 DEF CallerStep, Accept, Publish, AcceptStart, RefuseStart, Launch, Register
<1>. QED
  BY <1>1, <1>2, <1>3, <1>4, <1>5, <1>6, <1>7, <1>8 DEF Next

(* A spin thread that is in a callback when the join times out ends after it,  *)
(* and does not come back to the node.                                       *)
THEOREM DeadNodeIsLeftAlone == Spec => []PollsSpareDeadNode
<1>1. Init => EventInv
  BY DEF Init, EventInv
<1>2. EventInv => PollsSpareDeadNode
  BY DEF EventInv, PollsSpareDeadNode
<1>. QED
  BY <1>1, <1>2, EventNext, Invariance, PTL DEF Spec

-----------------------------------------------------------------------------
(* A caller that has launched a tree is within START until it registers it.    *)
LaunchInv == \A c \in Callers : child[c] # NoTree => c \in Launching

LEMMA Commands ==
    /\ BleThread \in Callers /\ LanReader \in Callers /\ Callers = {BleThread, LanReader}
    /\ BleThread # LanReader
    /\ Nothing \notin Senders /\ Nothing # "nav_tasks" /\ "nav_tasks" \notin Senders
BY BridgeAssumption DEF Callers, Nothing, Senders, Topics

LEMMA LaunchNext == Inv /\ LaunchInv /\ [Next]_vars => LaunchInv'
<1>. SUFFICES ASSUME Inv, LaunchInv, [Next]_vars PROVE LaunchInv'
  OBVIOUS
<1>. USE DEF LaunchInv, Launching
<1>1. CASE StartPart \/ Exit \/ Signal \/ ServerReady \/ ServerEnds \/ SpinStep \/ Connect
  BY <1>1 DEF StartPart, StartRos, StartOnNode, StartThread, StartLan, StartServer, ServerStarted,
              ServerNotStarted, Exit, Signal, ServerReady, ServerEnds, SpinStep, LoopCheck, EndPoll,
              Callback, CallbackEnds, SpinTo, Connect
<1>2. CASE StopPart
  BY <1>2 DEF StopPart, CloseServer, StopServer, StopThread, SnapshotTasks, EndTasks,
              DestroyPublisher, ForgetPublisher, ForgetRobotPublisher, DestroyRobotPublisher,
              AskSpinStop, DestroyNode
<1>3. CASE (\E t \in Trees : TreeEnds(t) \/ WaiterPop(t)) \/ UNCHANGED vars
  BY <1>3 DEF TreeEnds, WaiterPop, vars
<1>4. ASSUME NEW c \in Callers, CallerStep(c) PROVE LaunchInv'
  <2>1. \A d \in Callers : d # c => hand'[d] = hand[d] /\ child'[d] = child[d]
    BY <1>4 DEF CallerStep, Accept, Publish, AcceptStart, RefuseStart, Launch, Register, Inv, TypeOK
  <2>2. child'[c] # NoTree => hand'[c] = "nav_tasks"
    BY <1>4, Commands DEF CallerStep, Accept, Publish, AcceptStart, RefuseStart, Launch, Register,
                          Inv, TypeOK
  <2>. QED
    BY <2>1, <2>2
<1>. QED
  BY <1>1, <1>2, <1>3, <1>4 DEF Next

-----------------------------------------------------------------------------
(* Before any part but the BLE server is undone or stopped, the GLib thread    *)
(* has ended, with no command in hand, or was left behind.                    *)
Left == serverLeft \/ server = "ended"

CallerInv ==
    /\ phase \in {"starting", "serving"} => ~serverLeft
    /\ phase = "undoing" => Left /\ "server" \notin Pending(todo)
    /\ phase = "stopping" =>
          \/ todo = StopOrder /\ ~serverLeft
          \/ Left /\ "server" \notin Pending(todo)
    /\ ~Left => swept = "no" /\ \A t \in Senders : pub[t] \in {"none", "live"}
    /\ ~Left /\ hand[BleThread] \in Senders => pub[hand[BleThread]] = "live"
    /\ server \in {"off", "starting", "ended"} => hand[BleThread] = Nothing
    /\ BleOutlived

(* A part that is not the server is stopped only when that is past. *)
LEMMA PastServer ==
    ASSUME Inv, CallerInv, NEW part, part # "server", Stopping(part)
    PROVE  Left /\ "server" \notin Pending(todo)
BY StopScript DEF Stopping, CallerInv

LEMMA OtherPartKeeps ==
    ASSUME Inv, CallerInv, NEW part, part # "server", Stopping(part),
           UNCHANGED <<phase, server, serverLeft, hand, internal>>,
           raced' = raced \/ raced' = raced \cup Launching,
           Stopped(part) \/ todo' = todo
    PROVE  CallerInv'
<1>1. Left /\ "server" \notin Pending(todo) /\ todo # <<>>
  BY PastServer DEF Stopping
<1>2. "server" \notin Pending(todo')
  BY <1>1, NextPart DEF Stopped
<1>3. BleThread \in Launching => serverLeft
  <2>1. Nothing # "nav_tasks"
    BY DEF Nothing
  <2>. QED
    BY <1>1, <2>1 DEF CallerInv, Left, Launching
<1>4. BleThread \in raced' => serverLeft \/ LanReader \in raced'
  BY <1>3 DEF CallerInv, BleOutlived
<1>. QED
  BY <1>1, <1>2, <1>4 DEF CallerInv, Left, BleOutlived, Stopping

LEMMA CallerStart == ASSUME Inv, CallerInv, StartPart PROVE CallerInv'
<1>. USE DEF CallerInv, Left, BleOutlived, Starting
<1>1. CASE StartRos
  BY <1>1 DEF StartRos
<1>2. ASSUME NEW part \in OnNode, StartOnNode(part) PROVE CallerInv'
  <2>1. \A t \in Senders : pub'[t] = pub[t] \/ pub'[t] = "live"
    BY <1>2 DEF StartOnNode, Inv, TypeOK
  <2>2. UNCHANGED <<phase, rclpy, bleVars, callVars, sweepVars>>
    BY <1>2 DEF StartOnNode
  <2>. QED
    BY <1>2, <2>1, <2>2 DEF StartOnNode
<1>3. ASSUME NEW part \in Parts, StartThread(part) PROVE CallerInv'
  BY <1>3 DEF StartThread
<1>4. CASE StartLan
  BY <1>4 DEF StartLan
<1>5. CASE StartServer
  BY <1>5 DEF StartServer
<1>6. CASE ServerStarted
  BY <1>6 DEF ServerStarted
<1>7. CASE ServerNotStarted
  <2>1. BleOutlived'
    BY <1>7 DEF ServerNotStarted
  <2>2. Left'
    BY <1>7 DEF ServerNotStarted
  <2>3. UNCHANGED <<server, hand>> /\ phase' = "undoing" /\ todo' = UndoOrder
    BY <1>7 DEF ServerNotStarted
  <2>. QED
    BY <2>1, <2>2, <2>3, UndoScript
<1>. QED
  BY <1>1, <1>2, <1>3, <1>4, <1>5, <1>6, <1>7 DEF StartPart

LEMMA CallerStop == ASSUME Inv, CallerInv, StopPart PROVE CallerInv'
<1>1. CASE CloseServer
  BY <1>1 DEF CloseServer, CallerInv, Left, BleOutlived
<1>2. CASE StopServer
  <2>1. /\ Stopping("server") /\ Stopped("server") /\ server \in {"closing", "ended"}
        /\ serverLeft' = (server = "closing")
        /\ UNCHANGED <<phase, server, pub, hand, internal, raced, swept>>
    BY <1>2 DEF StopServer
  <2>2. phase = "undoing" \/ phase = "stopping"
    BY <2>1 DEF Stopping
  <2>3. Left'
    BY <2>1 DEF Left
  <2>4. "server" \in Pending(todo)
    BY <2>1, NextPart DEF Stopping
  <2>5. phase = "stopping" /\ todo = StopOrder /\ ~serverLeft
    BY <2>2, <2>4 DEF CallerInv
  <2>6. "server" \notin Pending(todo')
    <3>1. /\ Len(Tail(StopOrder)) = Len(StopOrder) - 1
          /\ \A i \in 1..Len(Tail(StopOrder)) : Tail(StopOrder)[i] = StopOrder[i + 1]
      BY StopScript, HeadTailProperties
    <3>2. Len(StopOrder) \in Nat
      BY StopScript
    <3>3. \A i \in 1..Len(Tail(StopOrder)) : Tail(StopOrder)[i] # "server"
      BY <3>1, <3>2, StopScript
    <3>. QED
      BY <2>1, <2>5, <3>3 DEF Stopped, Pending
  <2>7. BleOutlived'
    BY <2>1, <2>5 DEF CallerInv, BleOutlived
  <2>. QED
    BY <2>1, <2>3, <2>5, <2>6, <2>7 DEF CallerInv
<1>3. ASSUME NEW part \in Parts, StopThread(part) PROVE CallerInv'
  BY <1>3, OtherPartKeeps DEF StopThread
<1>4. CASE SnapshotTasks \/ EndTasks
  <2>1. "nav_tasks" # "server"
    OBVIOUS
  <2>. QED
    BY <1>4, <2>1, OtherPartKeeps DEF SnapshotTasks, EndTasks
<1>5. ASSUME NEW t \in Topics, DestroyPublisher(t) \/ ForgetPublisher(t) PROVE CallerInv'
  BY <1>5, SomeParts, OtherPartKeeps DEF DestroyPublisher, ForgetPublisher
<1>6. CASE ForgetRobotPublisher \/ DestroyRobotPublisher
  <2>1. "robot_control" # "server"
    OBVIOUS
  <2>. QED
    BY <1>6, <2>1, OtherPartKeeps DEF ForgetRobotPublisher, DestroyRobotPublisher
<1>7. CASE AskSpinStop \/ DestroyNode
  <2>1. "ros_runtime" # "server"
    OBVIOUS
  <2>. QED
    BY <1>7, <2>1, OtherPartKeeps DEF AskSpinStop, DestroyNode
<1>. QED
  BY <1>1, <1>2, <1>3, <1>4, <1>5, <1>6, <1>7 DEF StopPart

(* What a step of a caller does to the invariant hangs on these few facts.    *)
LEMMA CallerActs ==
    ASSUME Inv, CallerInv, NEW c \in Callers,
           UNCHANGED <<mainVars, bleVars, pub, swept>>,
           NEW h, hand' = [hand EXCEPT ![c] = h],
           c = BleThread => \/ h = Nothing /\ server # "ended"
                            \/ server \in {"serving", "closing"} /\ h # Nothing,
           c = BleThread /\ ~Left /\ h \in Senders => pub[h] = "live",
           BleOutlived'
    PROVE  CallerInv'
<1>1. hand[BleThread]' = IF c = BleThread THEN h ELSE hand[BleThread]
  BY Commands DEF Inv, TypeOK
<1>. QED
  BY <1>1, Commands DEF CallerInv, Left

LEMMA CallerCalls == ASSUME Inv, LaunchInv, CallerInv, NEW c \in Callers, CallerStep(c) PROVE CallerInv'
<1>1. ASSUME NEW part \in Senders, Accept(c, part) PROVE CallerInv'
  <2>1. /\ UNCHANGED <<mainVars, bleVars, pub, swept, internal, raced>>
        /\ hand' = [hand EXCEPT ![c] = part]
        /\ Serves(c) /\ pub[part] \in {"live", "destroyed"}
    BY <1>1 DEF Accept
  <2>2. ~Left => pub[part] = "live"
    BY <2>1 DEF CallerInv
  <2>3. BleOutlived'
    BY <2>1 DEF CallerInv, BleOutlived
  <2>4. c = BleThread => server \in {"serving", "closing"} /\ part # Nothing
    BY <2>1, Commands DEF Serves
  <2>. QED
    BY <2>1, <2>2, <2>3, <2>4, CallerActs
<1>2. CASE AcceptStart(c)
  <2>1. /\ UNCHANGED <<mainVars, bleVars, pub, swept, internal>>
        /\ hand[c] = Nothing /\ hand' = [hand EXCEPT ![c] = "nav_tasks"] /\ Serves(c)
        /\ raced' = raced \cup (IF Launching # {} \/ swept # "no" THEN Launching \cup {c} ELSE {})
    BY <1>2 DEF AcceptStart
  <2>2. c = BleThread => server \in {"serving", "closing"} /\ "nav_tasks" # Nothing
    BY <2>1, Commands DEF Serves
  <2>3. c = BleThread /\ swept # "no" => serverLeft
    BY <2>2 DEF CallerInv, Left
  <2>4. c = BleThread => Launching \subseteq {LanReader}
    BY <2>1, Commands DEF Launching
  <2>5. c # BleThread => c = LanReader
    BY Commands
  <2>6. Launching # {} \/ swept # "no" \/ raced' = raced
    BY <2>1
  <2>7. BleThread \in raced' => serverLeft \/ LanReader \in raced'
    BY <2>1, <2>3, <2>4, <2>5, <2>6 DEF CallerInv, BleOutlived
  <2>8. BleOutlived'
    BY <2>1, <2>7 DEF CallerInv, BleOutlived
  <2>. QED
    BY <2>1, <2>2, <2>8, CallerActs, Commands
<1>3. CASE Publish(c) \/ RefuseStart(c) \/ Register(c)
  <2>1. /\ UNCHANGED <<mainVars, bleVars, pub, swept, raced>>
        /\ hand' = [hand EXCEPT ![c] = Nothing]
    BY <1>3 DEF Publish, RefuseStart, Register
  <2>2. c = BleThread => server # "ended"
    BY <1>3, Commands DEF Publish, RefuseStart, Register, CallerInv, LaunchInv, Launching
  <2>3. BleThread \in internal' => serverLeft
    BY <1>3, <2>2 DEF Publish, RefuseStart, Register, CallerInv, BleOutlived, Left
  <2>4. BleOutlived'
    BY <2>1, <2>3 DEF CallerInv, BleOutlived
  <2>. QED
    BY <2>1, <2>2, <2>4, CallerActs, Commands
<1>4. ASSUME NEW t \in Trees, Launch(c, t) PROVE CallerInv'
  BY <1>4 DEF Launch, CallerInv, Left, BleOutlived
<1>. QED
  BY <1>1, <1>2, <1>3, <1>4 DEF CallerStep

LEMMA CallerNext == Inv /\ LaunchInv /\ CallerInv /\ [Next]_vars => CallerInv'
<1>. SUFFICES ASSUME Inv, LaunchInv, CallerInv, [Next]_vars PROVE CallerInv'
  OBVIOUS
<1>. USE DEF CallerInv, Left, BleOutlived
<1>1. CASE Exit
  BY <1>1 DEF Exit
<1>2. CASE Signal
  <2>1. UNCHANGED <<bleVars, pub, callVars, swept>>
    BY <1>2 DEF Signal
  <2>2. \/ phase' = "killed"
        \/ phase = "serving" /\ phase' = "stopping" /\ todo' = StopOrder
    BY <1>2 DEF Signal
  <2>. QED
    BY <2>1, <2>2
<1>3. CASE ServerReady
  BY <1>3 DEF ServerReady
<1>4. CASE ServerEnds
  BY <1>4 DEF ServerEnds
<1>5. CASE SpinStep \/ Connect \/ (\E t \in Trees : TreeEnds(t) \/ WaiterPop(t)) \/ UNCHANGED vars
  <2>1. UNCHANGED <<mainVars, bleVars, pub, callVars, sweepVars>>
    BY <1>5 DEF SpinStep, LoopCheck, EndPoll, Callback, CallbackEnds, SpinTo, Connect, TreeEnds,
                WaiterPop, vars
  <2>. QED
    BY <2>1
<1>. QED
  BY <1>1, <1>2, <1>3, <1>4, <1>5, CallerStart, CallerStop, CallerCalls DEF Next

(* Over BLE no command meets a part that was stopped, and no START overlaps    *)
(* stop_all(), unless the wait for the GLib thread timed out.                *)
THEOREM BleEndsBeforeItsParts == Spec => []BleOutlived
<1>1. Init => CallerInv
  <2>. SUFFICES ASSUME Init PROVE CallerInv
    OBVIOUS
  <2>1. hand[BleThread] = Nothing
    BY Commands DEF Init
  <2>2. \A t \in Senders : pub[t] = "none"
    BY DEF Init
  <2>. QED
    BY <2>1, <2>2, Commands DEF Init, CallerInv, Left, BleOutlived
<1>2. CallerInv => BleOutlived
  BY DEF CallerInv
<1>3. Init => LaunchInv
  BY DEF Init, LaunchInv
<1>. QED
  BY <1>1, <1>2, <1>3, CallerNext, LaunchNext, Invariance, PTL DEF Spec

-----------------------------------------------------------------------------
(* stop_all() is still to come, or it has returned.  As long as no START has   *)
(* overlapped another one or stop_all(), there is no tree but the registered   *)
(* one or that of the one caller that launches, and stop_all() ends it.        *)
SweepInv ==
    /\ phase = "stopping" => swept = "done" \/ "nav_tasks" \in Pending(todo)
    /\ phase = "exited" => swept = "done"

Alone ==
    /\ \A c, d \in Launching : c = d
    /\ Launching # {} => entry = NoTree /\ swept = "no"
    /\ waited \subseteq {entry}
    /\ live \subseteq {entry} \cup {child[c] : c \in Callers}
    /\ swept = "waiting" => live \subseteq found
    /\ swept = "done" => live = {}

AloneInv == raced = {} => Alone

LEMMA SweepStop == ASSUME Inv, SweepInv, StopPart PROVE SweepInv'
<1>1. ASSUME NEW part, part # "nav_tasks", Stopping(part), Stopped(part), UNCHANGED <<phase, swept>>
      PROVE  SweepInv'
  <2>1. /\ todo # <<>> /\ part = Head(todo) /\ todo' = Tail(todo)
        /\ phase \in {"undoing", "stopping"}
    BY <1>1 DEF Stopping, Stopped
  <2>2. "nav_tasks" \in Pending(todo) => "nav_tasks" \in Pending(todo')
    BY <1>1, <2>1, NextPart
  <2>. QED
    BY <1>1, <2>1, <2>2 DEF SweepInv
<1>2. CASE EndTasks
  <2>1. swept' = "done" /\ phase' = phase
    BY <1>2 DEF EndTasks
  <2>. QED
    BY <2>1 DEF SweepInv
<1>3. CASE SnapshotTasks
  BY <1>3 DEF SnapshotTasks, SweepInv
<1>4. CASE CloseServer \/ AskSpinStop \/ ForgetRobotPublisher \/ \E t \in Topics : DestroyPublisher(t)
  <2>1. UNCHANGED <<phase, todo, swept>>
    BY <1>4 DEF CloseServer, AskSpinStop, ForgetRobotPublisher, DestroyPublisher
  <2>. QED
    BY <2>1 DEF SweepInv
<1>5. CASE StopServer
  BY <1>1, <1>5 DEF StopServer
<1>6. ASSUME NEW part \in Parts, StopThread(part) PROVE SweepInv'
  BY <1>1, <1>6 DEF StopThread
<1>7. ASSUME NEW t \in Topics, ForgetPublisher(t) PROVE SweepInv'
  BY <1>1, <1>7 DEF ForgetPublisher, Topics
<1>8. CASE DestroyRobotPublisher
  BY <1>1, <1>8 DEF DestroyRobotPublisher
<1>9. CASE DestroyNode
  BY <1>1, <1>9 DEF DestroyNode
<1>. QED
  BY <1>2, <1>3, <1>4, <1>5, <1>6, <1>7, <1>8, <1>9 DEF StopPart

LEMMA SweepNext == Inv /\ SweepInv /\ [Next]_vars => SweepInv'
<1>. SUFFICES ASSUME Inv, SweepInv, [Next]_vars PROVE SweepInv'
  OBVIOUS
<1>1. CASE Exit
  <2>1. Pending(todo) = {}
    BY <1>1 DEF Exit, Pending
  <2>. QED
    BY <1>1, <2>1 DEF Exit, SweepInv
<1>2. CASE Signal
  <2>1. \/ phase' = "killed"
        \/ phase' = "stopping" /\ todo' = StopOrder
    BY <1>2 DEF Signal
  <2>. QED
    BY <2>1, StopScript, SomeParts DEF SweepInv
<1>3. CASE StartPart
  <2>1. phase' \in {"starting", "serving", "undoing"}
    BY <1>3 DEF StartPart, StartRos, StartOnNode, StartThread, StartLan, StartServer,
                ServerStarted, ServerNotStarted, Starting
  <2>. QED
    BY <2>1 DEF SweepInv
<1>4. CASE \/ ServerReady \/ ServerEnds \/ SpinStep \/ Connect \/ UNCHANGED vars
           \/ \E t \in Trees : TreeEnds(t) \/ WaiterPop(t)
           \/ \E c \in Callers : CallerStep(c)
  <2>1. UNCHANGED <<phase, todo, swept>>
    BY <1>4 DEF ServerReady, ServerEnds, SpinStep, LoopCheck, EndPoll, Callback, CallbackEnds, SpinTo,
                Connect, TreeEnds, WaiterPop, CallerStep, Accept, Publish, AcceptStart, RefuseStart,
                Launch, Register, vars
  <2>. QED
    BY <2>1 DEF SweepInv
<1>. QED
  BY <1>1, <1>2, <1>3, <1>4, SweepStop DEF Next

LEMMA AloneCalls ==
    ASSUME Inv, LaunchInv, AloneInv, NEW c \in Callers, CallerStep(c)
    PROVE  AloneInv'
<1>. SUFFICES ASSUME raced' = {} PROVE Alone'
  BY DEF AloneInv
<1>1. raced = {}
  BY DEF CallerStep, Accept, Publish, AcceptStart, RefuseStart, Launch, Register
<1>2. Alone
  BY <1>1 DEF AloneInv
<1>3. hand \in [Callers -> Senders \cup {"nav_tasks", Nothing}] /\ child \in [Callers -> Trees \cup {NoTree}]
  BY DEF Inv, TypeOK
<1>4. CASE (\E part \in Senders : Accept(c, part)) \/ Publish(c)
  <2>1. UNCHANGED <<treeVars, sweepVars>> /\ c \notin Launching
    BY <1>4, Commands DEF Accept, Publish, Launching
  <2>2. Launching' = Launching
    BY <1>3, <1>4, <2>1, Commands DEF Accept, Publish, Launching
  <2>. QED
    BY <1>2, <2>1, <2>2 DEF Alone
<1>5. CASE AcceptStart(c)
  <2>1. UNCHANGED <<treeVars, sweepVars>> /\ entry = NoTree
    BY <1>5 DEF AcceptStart
  <2>2. Launching = {} /\ swept = "no"
    BY <1>5 DEF AcceptStart
  <2>3. Launching' = {c}
    BY <1>3, <1>5, <2>2 DEF AcceptStart, Launching
  <2>. QED
    BY <1>2, <2>1, <2>2, <2>3 DEF Alone
<1>6. CASE RefuseStart(c)
  <2>1. UNCHANGED <<treeVars, sweepVars>>
    BY <1>6 DEF RefuseStart
  <2>2. Launching' = Launching \ {c}
    BY <1>3, <1>6, Commands DEF RefuseStart, Launching
  <2>. QED
    BY <1>2, <2>1, <2>2 DEF Alone
<1>7. ASSUME NEW t \in Trees, Launch(c, t) PROVE Alone'
  <2>1. /\ UNCHANGED <<entry, waited, swept, found, hand>> /\ live' = live \cup {t}
        /\ child' = [child EXCEPT ![c] = t] /\ child[c] = NoTree /\ c \in Launching
    BY <1>7 DEF Launch, Launching
  <2>2. Launching' = Launching /\ swept = "no" /\ entry = NoTree
    BY <1>2, <2>1 DEF Launching, Alone
  <2>3. \A d \in Callers : child'[d] = IF d = c THEN t ELSE child[d]
    BY <1>3, <2>1
  <2>4. live' \subseteq {entry} \cup {child'[d] : d \in Callers}
    BY <1>2, <2>1, <2>2, <2>3 DEF Alone
  <2>. QED
    BY <1>2, <2>1, <2>2, <2>4 DEF Alone
<1>8. CASE Register(c)
  <2>1. /\ entry' = child[c] /\ waited' = waited \cup {child[c]}
        /\ child' = [child EXCEPT ![c] = NoTree] /\ hand' = [hand EXCEPT ![c] = Nothing]
        /\ UNCHANGED <<live, sweepVars>> /\ c \in Launching
    BY <1>8 DEF Register, LaunchInv
  <2>2. Launching' = Launching \ {c} /\ Launching' = {} /\ swept = "no" /\ entry = NoTree
    BY <1>2, <1>3, <2>1, Commands DEF Launching, Alone
  <2>3. waited' = {child[c]}
    BY <1>2, <2>1, <2>2, BridgeAssumption DEF Alone, Inv, TypeOK
  <2>4. \A d \in Callers : d # c => child[d] = NoTree
    BY <1>2, <2>1 DEF LaunchInv, Alone
  <2>5. live \subseteq {child[c]}
    BY <1>2, <2>2, <2>4, BridgeAssumption DEF Alone, Inv, TypeOK
  <2>. QED
    BY <2>1, <2>2, <2>3, <2>5 DEF Alone
<1>. QED
  BY <1>4, <1>5, <1>6, <1>7, <1>8 DEF CallerStep

LEMMA AloneNext == Inv /\ LaunchInv /\ AloneInv /\ [Next]_vars => AloneInv'
<1>. SUFFICES ASSUME Inv, LaunchInv, AloneInv, [Next]_vars PROVE AloneInv'
  OBVIOUS
<1>1. ASSUME UNCHANGED <<hand, raced, treeVars, sweepVars>> PROVE AloneInv'
  BY <1>1 DEF AloneInv, Alone, Launching
<1>2. CASE StartPart \/ Exit \/ Signal \/ ServerReady \/ ServerEnds \/ SpinStep \/ Connect
  BY <1>1, <1>2 DEF StartPart, StartRos, StartOnNode, StartThread, StartLan, StartServer,
                    ServerStarted, ServerNotStarted, Exit, Signal, ServerReady, ServerEnds, SpinStep,
                    LoopCheck, EndPoll, Callback, CallbackEnds, SpinTo, Connect
<1>3. CASE SnapshotTasks
  <2>. SUFFICES ASSUME raced' = {} PROVE Alone'
    BY DEF AloneInv
  <2>1. /\ swept' = "waiting" /\ found' = {entry} \ {NoTree}
        /\ raced' = raced \cup Launching /\ UNCHANGED <<hand, treeVars>>
    BY <1>3 DEF SnapshotTasks
  <2>2. raced = {} /\ Launching = {} /\ Launching' = {}
    BY <2>1 DEF Launching
  <2>3. Alone
    BY <2>2 DEF AloneInv
  <2>4. \A c \in Callers : child[c] = NoTree
    BY <2>2 DEF LaunchInv
  <2>5. live \subseteq found'
    BY <2>1, <2>3, <2>4, BridgeAssumption DEF Alone, Inv, TypeOK
  <2>. QED
    BY <2>1, <2>2, <2>3, <2>5 DEF Alone
<1>4. CASE EndTasks
  <2>1. /\ swept = "waiting" /\ swept' = "done" /\ live' = live \ found
        /\ UNCHANGED <<hand, raced, entry, child, waited>>
    BY <1>4 DEF EndTasks
  <2>. QED
    BY <2>1 DEF AloneInv, Alone, Launching
<1>5. CASE StopPart /\ ~SnapshotTasks /\ ~EndTasks
  BY <1>1, <1>5 DEF StopPart, CloseServer, StopServer, StopThread, DestroyPublisher, ForgetPublisher,
                    ForgetRobotPublisher, DestroyRobotPublisher, AskSpinStop, DestroyNode
<1>6. ASSUME NEW t \in Trees, TreeEnds(t) PROVE AloneInv'
  BY <1>6 DEF TreeEnds, AloneInv, Alone, Launching
<1>7. ASSUME NEW t \in Trees, WaiterPop(t) PROVE AloneInv'
  <2>1. /\ t \in waited \ live /\ entry' = NoTree /\ waited' = waited \ {t}
        /\ UNCHANGED <<hand, raced, child, live, sweepVars>>
    BY <1>7 DEF WaiterPop
  <2>2. ASSUME raced = {} PROVE Alone'
    <3>1. Alone
      BY <2>2 DEF AloneInv
    <3>2. entry = t
      BY <2>1, <3>1 DEF Alone
    <3>. QED
      BY <2>1, <3>1, <3>2 DEF Alone, Launching
  <2>. QED
    BY <2>1, <2>2 DEF AloneInv
<1>8. ASSUME NEW c \in Callers, CallerStep(c) PROVE AloneInv'
  BY <1>8, AloneCalls
<1>9. CASE UNCHANGED vars
  BY <1>1, <1>9 DEF vars
<1>. QED
  BY <1>2, <1>3, <1>4, <1>5, <1>6, <1>7, <1>8, <1>9 DEF Next

(* A bridge that stops leaves a navigation task running only for a START that  *)
(* overlapped another one or stop_all(): one over LAN, or one of a GLib thread *)
(* that was left behind.                                                     *)
THEOREM TasksAreSwept == Spec => []TasksEndWithBridge
<1>1. Init => SweepInv /\ LaunchInv /\ AloneInv
  BY Commands DEF Init, SweepInv, LaunchInv, AloneInv, Alone, Launching
<1>2. SweepInv /\ AloneInv /\ Inv /\ BleOutlived => TasksEndWithBridge
  <2>1. ASSUME raced # {}, Inv PROVE BleThread \in raced \/ LanReader \in raced
    BY <2>1, Commands DEF Inv, TypeOK
  <2>. QED
    BY <2>1 DEF SweepInv, AloneInv, Alone, BleOutlived, TasksEndWithBridge
<1>. QED
  BY <1>1, <1>2, SweepNext, LaunchNext, AloneNext, Invariance, BleEndsBeforeItsParts, PTL DEF Spec
=============================================================================
