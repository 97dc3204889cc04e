------------------------------ MODULE NavTasks ------------------------------
(***************************************************************************)
(* The navigation launch-task manager (src/xiaozhi_ble/nav_tasks.py).      *)
(*                                                                         *)
(* Commands arrive on the GLib thread of the BLE server and on the reader  *)
(* threads of the LAN server.  A START runs in four steps, because         *)
(* self._lock is released between the state check and the registration of  *)
(* the launched process; a STOP runs in two, because the process group is  *)
(* signalled outside the lock.  Every launched process has a waiter thread *)
(* that removes the task from _running and then reports its end.  The main *)
(* thread runs stop_all() at shutdown, after the GLib thread was joined    *)
(* and while LAN reader threads, which nothing joins, may still be inside  *)
(* a command (src/xiaozhi_ble/main.py, _Bridge.stop).                      *)
(***************************************************************************)
EXTENDS Naturals, FiniteSets

CONSTANTS
    Tasks,         \* the names in TASK_TEMPLATES
    Localization,  \* the task "localization"
    Navigation,    \* the task "navigation", which depends on it
    BleThread,     \* the GLib thread of the BLE server
    LanReaders,    \* the LAN reader threads
    Procs,         \* the launches that can ever happen (bounds the model)
    NoProc         \* no process

Commanders == {BleThread} \cup LanReaders

ASSUME NavAssumption ==
    /\ Localization \in Tasks
    /\ Navigation \in Tasks
    /\ Localization # Navigation
    /\ BleThread \notin LanReaders
    /\ NoProc \notin Procs

VARIABLES
    running,        \* _running: the process registered for each task
    stage,          \* how far each launch's _RunningTask record has come
    taskOf,         \* the task of each launch (_RunningTask.name)
    alive,          \* whether the process still runs
    stopRequested,  \* _RunningTask.stop_requested
    signals,        \* signals delivered to the process group
    stubborn,       \* whether the launched tree ignores SIGINT
    pc,             \* where each command thread is in execute()
    want,           \* the task a START in progress is for
    mine,           \* the process the command in progress handles
    sweep,          \* where the main thread is in stop_all()
    toSignal,       \* snapshot of stop_all() still to be sent SIGINT
    toWait,         \* snapshot of stop_all() still to be waited for
    report,         \* the asynchronous event sent for each launch
    accepted        \* launches for which some STOP was answered STOPPING

vars == <<running, stage, taskOf, alive, stopRequested, signals, stubborn, pc,
          want, mine, sweep, toSignal, toWait, report, accepted>>

procVars == <<running, stage, taskOf, alive, stopRequested, signals, stubborn>>
cmdVars == <<pc, want, mine>>
sweepVars == <<sweep, toSignal, toWait>>
eventVars == <<report, accepted>>

Stages == {"unborn", "spawned", "registered", "unwatched", "waited", "popped", "reported"}

TypeOK ==
    /\ running \in [Tasks -> Procs \cup {NoProc}]
    /\ stage \in [Procs -> Stages]
    /\ taskOf \in [Procs -> Tasks]
    /\ alive \in [Procs -> BOOLEAN]
    /\ stopRequested \in [Procs -> BOOLEAN]
    /\ signals \in [Procs -> SUBSET {"INT", "KILL"}]
    /\ stubborn \in [Procs -> BOOLEAN]
    /\ pc \in [Commanders -> {"idle", "checked", "spawned", "registered", "marked"}]
    /\ want \in [Commanders -> Tasks]
    /\ mine \in [Commanders -> Procs \cup {NoProc}]
    /\ \A c \in Commanders : pc[c] \in {"spawned", "registered", "marked"} => mine[c] \in Procs
    /\ sweep \in {"idle", "signalling", "waiting", "done"}
    /\ toSignal \in SUBSET Procs
    /\ toWait \in SUBSET Procs
    /\ report \in [Procs -> {"none", "STOPPED", "EXITED"}]
    /\ accepted \in SUBSET Procs

Init ==
    /\ running = [t \in Tasks |-> NoProc]
    /\ stage = [p \in Procs |-> "unborn"]
    /\ taskOf = [p \in Procs |-> Localization]
    /\ alive = [p \in Procs |-> FALSE]
    /\ stopRequested = [p \in Procs |-> FALSE]
    /\ signals = [p \in Procs |-> {}]
    /\ stubborn = [p \in Procs |-> FALSE]
    /\ pc = [c \in Commanders |-> "idle"]
    /\ want = [c \in Commanders |-> Localization]
    /\ mine = [c \in Commanders |-> NoProc]
    /\ sweep = "idle"
    /\ toSignal = {}
    /\ toWait = {}
    /\ report = [p \in Procs |-> "none"]
    /\ accepted = {}

-----------------------------------------------------------------------------
(* What STATUS answers for a task. *)
StatusOf(t) ==
    IF running[t] = NoProc THEN "STOPPED"
    ELSE IF stopRequested[running[t]] THEN "STOPPING"
    ELSE "RUNNING"

(* _signal_group: killpg on a group that is gone is ignored. *)
SignalGroup(p, sig) ==
    signals' = [signals EXCEPT ![p] = IF alive[p] THEN @ \cup {sig} ELSE @]

(* A thread takes its next command.  After the main thread entered           *)
(* stop_all() the GLib thread is gone, but LAN readers go through the lines  *)
(* they had received.                                                        *)
MayCommand(c) ==
    /\ pc[c] = "idle"
    /\ sweep = "idle" \/ c \in LanReaders

(* execute() returns its reply and forgets its locals. *)
Return(c) ==
    /\ pc' = [pc EXCEPT ![c] = "idle"]
    /\ want' = [want EXCEPT ![c] = Localization]
    /\ mine' = [mine EXCEPT ![c] = NoProc]

(* Faulty variant: only a running launch refuses START, a stopping one does not. *)
MayStartOverStopping(t) ==
    /\ StatusOf(t) # "RUNNING"
    /\ t = Navigation => running[Localization] # NoProc

(* The locked check at the top of _start: no launch of the task is           *)
(* registered, and navigation finds localization registered, be it running   *)
(* or stopping.  A refused command changes nothing and is no step here.      *)
MayStart(t) ==
    /\ running[t] = NoProc
    /\ t = Navigation => running[Localization] # NoProc

(* The check passes and the lock is released. *)
StartCheck(c, t) ==
    /\ MayCommand(c)
    /\ MayStart(t)
    /\ pc' = [pc EXCEPT ![c] = "checked"]
    /\ want' = [want EXCEPT ![c] = t]
    /\ UNCHANGED <<mine, procVars, sweepVars, eventVars>>

(* No workspace directory, or no log file, or Popen fails. *)
SpawnFails(c) ==
    /\ pc[c] = "checked"
    /\ Return(c)
    /\ UNCHANGED <<procVars, sweepVars, eventVars>>

(* Popen succeeds; nothing records the process yet. *)
Spawn(c, p) ==
    /\ pc[c] = "checked"
    /\ stage[p] = "unborn"
    /\ stage' = [stage EXCEPT ![p] = "spawned"]
    /\ alive' = [alive EXCEPT ![p] = TRUE]
    /\ taskOf' = [taskOf EXCEPT ![p] = want[c]]
    /\ \E b \in BOOLEAN : stubborn' = [stubborn EXCEPT ![p] = b]
    /\ pc' = [pc EXCEPT ![c] = "spawned"]
    /\ mine' = [mine EXCEPT ![c] = p]
    /\ UNCHANGED <<running, stopRequested, signals, want, sweepVars, eventVars>>

(* The record is stored under the lock, whatever the entry held. *)
Register(c) ==
    /\ pc[c] = "spawned"
    /\ running' = [running EXCEPT ![want[c]] = mine[c]]
    /\ stage' = [stage EXCEPT ![mine[c]] = "registered"]
    /\ pc' = [pc EXCEPT ![c] = "registered"]
    /\ UNCHANGED <<taskOf, alive, stopRequested, signals, stubborn, want, mine,
                   sweepVars, eventVars>>

(* Drainer and waiter threads are started and START is answered. *)
StartWaiter(c) ==
    /\ pc[c] = "registered"
    /\ stage' = [stage EXCEPT ![mine[c]] = "waited"]
    /\ Return(c)
    /\ UNCHANGED <<running, taskOf, alive, stopRequested, signals, stubborn,
                   sweepVars, eventVars>>

(* A thread cannot be started: the command ends in "ERR internal", and the    *)
(* record stays as it was, with nobody to remove it.                         *)
WaiterNotStarted(c) ==
    /\ pc[c] = "registered"
    /\ stage' = [stage EXCEPT ![mine[c]] = "unwatched"]
    /\ Return(c)
    /\ UNCHANGED <<running, taskOf, alive, stopRequested, signals, stubborn,
                   sweepVars, eventVars>>

(* Faulty variant: STOP also removes the entry, not waiting for the waiter. *)
StopMarkAndForget(c, t) ==
    /\ MayCommand(c)
    /\ StatusOf(t) = "RUNNING"
    /\ stopRequested' = [stopRequested EXCEPT ![running[t]] = TRUE]
    /\ running' = [running EXCEPT ![t] = NoProc]
    /\ pc' = [pc EXCEPT ![c] = "marked"]
    /\ mine' = [mine EXCEPT ![c] = running[t]]
    /\ accepted' = accepted \cup {running[t]}
    /\ UNCHANGED <<stage, taskOf, alive, signals, stubborn, want, sweepVars, report>>

(* _stop marks the record under the lock ... *)
StopMark(c, t) ==
    /\ MayCommand(c)
    /\ StatusOf(t) = "RUNNING"
    /\ stopRequested' = [stopRequested EXCEPT ![running[t]] = TRUE]
    /\ pc' = [pc EXCEPT ![c] = "marked"]
    /\ mine' = [mine EXCEPT ![c] = running[t]]
    /\ accepted' = accepted \cup {running[t]}
    /\ UNCHANGED <<running, stage, taskOf, alive, signals, stubborn, want,
                   sweepVars, report>>

(* Faulty variant: the SIGINT is forgotten. *)
StopWithoutSignal(c) ==
    /\ pc[c] = "marked"
    /\ Return(c)
    /\ UNCHANGED <<procVars, sweepVars, eventVars>>

(* ... and signals the group after releasing it. *)
StopSignal(c) ==
    /\ pc[c] = "marked"
    /\ SignalGroup(mine[c], "INT")
    /\ Return(c)
    /\ UNCHANGED <<running, stage, taskOf, alive, stopRequested, stubborn, sweepVars,
                   eventVars>>

-----------------------------------------------------------------------------
(* The launched process: it ends of a signal it honours, or on its own. *)
Obeys(p) == "KILL" \in signals[p] \/ ("INT" \in signals[p] /\ ~stubborn[p])

DieOfSignal(p) ==
    /\ alive[p]
    /\ Obeys(p)
    /\ alive' = [alive EXCEPT ![p] = FALSE]
    /\ UNCHANGED <<running, stage, taskOf, stopRequested, signals, stubborn, cmdVars,
                   sweepVars, eventVars>>

Crash(p) ==
    /\ alive[p]
    /\ ~Obeys(p)
    /\ alive' = [alive EXCEPT ![p] = FALSE]
    /\ UNCHANGED <<running, stage, taskOf, stopRequested, signals, stubborn, cmdVars,
                   sweepVars, eventVars>>

(* Faulty variant: the waiter leaves the entry behind. *)
WaiterKeepsEntry(p) ==
    /\ stage[p] = "waited"
    /\ ~alive[p]
    /\ stage' = [stage EXCEPT ![p] = "popped"]
    /\ UNCHANGED <<running, taskOf, alive, stopRequested, signals, stubborn, cmdVars,
                   sweepVars, eventVars>>

(* The waiter saw the process end, joined the drainer (for at most 5 s) and *)
(* pops the task BY NAME.                                                   *)
WaiterPop(p) ==
    /\ stage[p] = "waited"
    /\ ~alive[p]
    /\ running' = [running EXCEPT ![taskOf[p]] = NoProc]
    /\ stage' = [stage EXCEPT ![p] = "popped"]
    /\ UNCHANGED <<taskOf, alive, stopRequested, signals, stubborn, cmdVars, sweepVars,
                   eventVars>>

(* Faulty variant: the verdict is taken from the signals, not from the mark. *)
WaiterReportBySignal(p) ==
    /\ stage[p] = "popped"
    /\ stage' = [stage EXCEPT ![p] = "reported"]
    /\ report' = [report EXCEPT ![p] = IF signals[p] # {} THEN "STOPPED" ELSE "EXITED"]
    /\ UNCHANGED <<running, taskOf, alive, stopRequested, signals, stubborn, cmdVars,
                   sweepVars, accepted>>

(* Faulty variant: only requested ends are reported. *)
WaiterReportIfStopped(p) ==
    /\ stage[p] = "popped"
    /\ stage' = [stage EXCEPT ![p] = "reported"]
    /\ report' = [report EXCEPT ![p] = IF stopRequested[p] THEN "STOPPED" ELSE @]
    /\ UNCHANGED <<running, taskOf, alive, stopRequested, signals, stubborn, cmdVars,
                   sweepVars, accepted>>

(* Outside the lock it reads stop_requested and reports. *)
WaiterReport(p) ==
    /\ stage[p] = "popped"
    /\ stage' = [stage EXCEPT ![p] = "reported"]
    /\ report' = [report EXCEPT ![p] = IF stopRequested[p] THEN "STOPPED" ELSE "EXITED"]
    /\ UNCHANGED <<running, taskOf, alive, stopRequested, signals, stubborn, cmdVars,
                   sweepVars, accepted>>

-----------------------------------------------------------------------------
(* stop_all: snapshot under the lock, once the GLib thread was joined. *)
StopAllSnapshot ==
    /\ sweep = "idle"
    /\ pc[BleThread] = "idle"
    /\ sweep' = "signalling"
    /\ toSignal' = {running[t] : t \in Tasks} \ {NoProc}
    /\ toWait' = {running[t] : t \in Tasks} \ {NoProc}
    /\ UNCHANGED <<procVars, cmdVars, eventVars>>

(* The marking takes no lock. *)
StopAllSignal(p) ==
    /\ sweep = "signalling"
    /\ p \in toSignal
    /\ stopRequested' = [stopRequested EXCEPT ![p] = TRUE]
    /\ SignalGroup(p, "INT")
    /\ toSignal' = toSignal \ {p}
    /\ UNCHANGED <<running, stage, taskOf, alive, stubborn, sweep, toWait, cmdVars, eventVars>>

StopAllSignalled ==
    /\ sweep = "signalling"
    /\ toSignal = {}
    /\ sweep' = "waiting"
    /\ UNCHANGED <<toSignal, toWait, procVars, cmdVars, eventVars>>

(* wait() returned before the deadline ... *)
StopAllSawExit(p) ==
    /\ sweep = "waiting"
    /\ p \in toWait
    /\ ~alive[p]
    /\ toWait' = toWait \ {p}
    /\ UNCHANGED <<sweep, toSignal, procVars, cmdVars, eventVars>>

(* Faulty variant: the timeout is only logged. *)
StopAllGiveUp(p) ==
    /\ sweep = "waiting"
    /\ p \in toWait
    /\ alive[p]
    /\ toWait' = toWait \ {p}
    /\ UNCHANGED <<sweep, toSignal, procVars, cmdVars, eventVars>>

(* ... or timed out, and the group gets SIGKILL. *)
StopAllKill(p) ==
    /\ sweep = "waiting"
    /\ p \in toWait
    /\ alive[p]
    /\ SignalGroup(p, "KILL")
    /\ toWait' = toWait \ {p}
    /\ UNCHANGED <<running, stage, taskOf, alive, stopRequested, stubborn, sweep, toSignal,
                   cmdVars, eventVars>>

StopAllDone ==
    /\ sweep = "waiting"
    /\ toWait = {}
    /\ sweep' = "done"
    /\ UNCHANGED <<toSignal, toWait, procVars, cmdVars, eventVars>>

-----------------------------------------------------------------------------
Command(c) ==
    \E t \in Tasks : StartCheck(c, t) \/ StopMark(c, t)

Continue(c) ==
    \/ SpawnFails(c)
    \/ \E p \in Procs : Spawn(c, p)
    \/ Register(c)
    \/ StartWaiter(c)
    \/ WaiterNotStarted(c)
    \/ StopSignal(c)

Waiter(p) == WaiterPop(p) \/ WaiterReport(p)

StopAll ==
    \/ StopAllSnapshot
    \/ \E p \in Procs : StopAllSignal(p) \/ StopAllSawExit(p) \/ StopAllKill(p)
    \/ StopAllSignalled
    \/ StopAllDone

Next ==
    \/ \E c \in Commanders : Command(c) \/ Continue(c)
    \/ \E p \in Procs : DieOfSignal(p) \/ Crash(p) \/ Waiter(p)
    \/ StopAll

Spec == Init /\ [][Next]_vars

(* Threads that run keep running; a process ends of a signal it honours;     *)
(* stop_all, once begun, goes on.  Nothing obliges a client to send a        *)
(* command, a process to crash, or the main thread to shut down.             *)
Fairness ==
    /\ \A c \in Commanders : WF_vars(Continue(c))
    /\ \A p \in Procs : WF_vars(DieOfSignal(p)) /\ WF_vars(Waiter(p))
    /\ WF_vars(sweep # "idle" /\ StopAll)

FairSpec == Spec /\ Fairness

-----------------------------------------------------------------------------
(* Launches that ended without their waiter having said so yet do not count: *)
(* the manager forgot them at the pop.                                       *)
Launched(p) == stage[p] \in {"spawned", "registered", "unwatched", "waited"}

(* A second START of a task is refused while a launch of it is still in the  *)
(* manager's hands ("already_running" / "stopping" replies of _start), so no *)
(* task ever has two process trees.  It needs every START to come from one   *)
(* thread: the check and the registration are separate critical sections.    *)
OneLaunchPerTask ==
    \A p, q \in Procs :
        Launched(p) /\ Launched(q) /\ taskOf[p] = taskOf[q] => p = q

(* An entry of _running always belongs to a launch of that task whose waiter *)
(* has still to pop it: no task can stay "already_running" on behalf of a    *)
(* launch that nobody will ever remove (_start, _wait_exit), but for one     *)
(* whose waiter could not be started (nav_tasks.py:246-258), which does.     *)
NoStaleEntry ==
    \A t \in Tasks :
        running[t] # NoProc =>
            /\ taskOf[running[t]] = t
            /\ stage[running[t]] \in {"registered", "unwatched", "waited"}

(* A launch whose STOP was answered STOPPING is reported STOPPED, never      *)
(* EXITED: the mark is made under the lock while the entry exists, and the   *)
(* waiter reads it only after it removed the entry (_stop, _wait_exit).      *)
AcceptedStopIsStopped ==
    \A p \in accepted : report[p] # "EXITED"

(* When stop_all() has returned, every launched tree that still lives was    *)
(* sent SIGKILL, "the bridge stops the tasks that are still running when it  *)
(* exits".  It needs every command thread to be finished before stop_all(),  *)
(* which main.py arranges for the GLib thread only.                          *)
ShutdownLeavesNone ==
    sweep = "done" => \A p \in Procs : alive[p] => "KILL" \in signals[p]

(* Every launch that has ended and has a waiter is reported: neither races   *)
(* between commands nor an overwritten entry make the waiter lose it.        *)
EndedIsReported ==
    \A p \in Procs : (stage[p] = "waited" /\ ~alive[p]) ~> report[p] # "none"

(* Whatever stop_all() found registered ends, even when it ignores SIGINT.   *)
SweptEnds ==
    \A p \in Procs : p \in toWait ~> ~alive[p]

(* An accepted STOP is followed by STOPPED for a tree that honours SIGINT and *)
(* has a waiter.                                                             *)
StopIsConfirmed ==
    \A p \in Procs :
        (p \in accepted /\ ~stubborn[p]) ~> report[p] = "STOPPED" \/ stage[p] = "unwatched"

-----------------------------------------------------------------------------
(* The promise of TaskLifecycle, seen through the records: a launch becomes  *)
(* visible when it is registered and ends when its waiter pops it.           *)
PhaseOf(p) ==
    CASE stage[p] \in {"unborn", "spawned"} -> "new"
      [] stage[p] \in {"registered", "unwatched", "waited"} ->
            IF stopRequested[p] THEN "STOPPING" ELSE "RUNNING"
      [] stage[p] = "popped" -> "ended"
      [] stage[p] = "reported" -> "reported"

ShownTask(p) ==
    IF stage[p] \in {"unborn", "spawned"} THEN Localization ELSE taskOf[p]

Lifecycle == INSTANCE TaskLifecycle WITH
    Launches <- Procs,
    phase <- [p \in Procs |-> PhaseOf(p)],
    taskOf <- [p \in Procs |-> ShownTask(p)]

(* With every command on one thread the manager implements TaskLifecycle:    *)
(* registering never replaces a launch that STATUS still shows.              *)
ImplementsLifecycle == Lifecycle!Spec

-----------------------------------------------------------------------------
(* The inductive invariants behind the theorems of NavTasks_proofs. *)

(* What a command thread holds between its steps. *)
CommandInv ==
    /\ \A c \in Commanders :
          /\ pc[c] = "spawned" => stage[mine[c]] = "spawned" /\ taskOf[mine[c]] = want[c]
          /\ pc[c] = "registered" => stage[mine[c]] = "registered"
    /\ \A c, d \in Commanders :
          /\ pc[c] \in {"spawned", "registered"}
          /\ pc[d] \in {"spawned", "registered"}
          /\ mine[c] = mine[d]
          => c = d

(* Reports come last, and an accepted STOP leaves its mark. *)
ReportInv ==
    \A p \in Procs :
        /\ report[p] # "none" => stage[p] = "reported"
        /\ p \in accepted => stopRequested[p]
        /\ p \in accepted => report[p] # "EXITED"

(* Nobody has asked a launch to stop before it was registered. *)
FreshInv ==
    \A p \in Procs :
        stage[p] \in {"unborn", "spawned"} => ~stopRequested[p] /\ p \notin toSignal

(* A launch in the manager's hands is either registered or about to be, and  *)
(* the thread about to register it found the entry empty.                    *)
SingleInv ==
    /\ \A p \in Procs :
          Launched(p) =>
              \/ running[taskOf[p]] = p
              \/ pc[BleThread] = "spawned" /\ mine[BleThread] = p
    /\ pc[BleThread] \in {"checked", "spawned"} => running[want[BleThread]] = NoProc

(* Shutdown: no command is under way and every live tree is still to be      *)
(* waited for or has been killed.                                            *)
SweepInv ==
    /\ \A p \in Procs : alive[p] => Launched(p)
    /\ sweep # "idle" =>
          /\ pc[BleThread] = "idle"
          /\ \A p \in Procs : alive[p] => p \in toWait \/ "KILL" \in signals[p]
    /\ sweep = "done" => toWait = {}
=============================================================================
