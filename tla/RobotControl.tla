---------------------------- MODULE RobotControl ----------------------------
(***************************************************************************)
(* Robot triggers (src/xiaozhi_ble/robot_control.py).  execute() starts an  *)
(* asynchronous Trigger call and returns; the call is then settled by the   *)
(* first of its result (on the ROS spin thread), its timer (on a thread of  *)
(* its own) and stop() (on the main thread).  Taking the call out of        *)
(* _pending under the lock decides which one it is.                         *)
(*                                                                         *)
(* One call is one run of execute().  What a command's service does is left *)
(* open: it answers, refuses, raises or never answers.                      *)
(***************************************************************************)
EXTENDS Naturals, FiniteSets

CONSTANTS
    Calls,        \* the runs of execute() there can ever be
    Commands,     \* command names, and their services
    Mapped,       \* keys of _commands: those mapped to a Trigger service
    Topical,      \* TOPIC_COMMANDS
    HasTrigger,   \* std_srvs was importable in start()
    HasPublisher  \* std_msgs was importable and the topic is not empty

ASSUME RobotAssumption ==
    /\ Mapped \subseteq Commands
    /\ Topical \subseteq Commands
    /\ HasTrigger \in BOOLEAN
    /\ HasPublisher \in BOOLEAN

VARIABLES
    node,       \* _node: not attached yet, attached, or detached by stop()
    publisher,  \* the topic publisher: none, live or destroyed
    clients,    \* keys of _clients
    pending,    \* keys of _pending
    toCancel,   \* calls whose timers stop() has still to cancel
    pc,         \* where each run of execute() is, and its answer when it returned
    cmd,        \* the command of each run
    future,     \* the state of each call's future
    callback,   \* its done callback: none, added, holding the call, or finished
    timer,      \* its timeout timer
    outcome     \* everything that became of each call

vars == <<node, publisher, clients, pending, toCancel, pc, cmd, future, callback, timer, outcome>>

Answers == {"accepted", "published", "raised", "unavailable", "unknown"}
Locations == {"idle", "begin", "client", "wait", "send", "register", "start", "add", "publish"}

TypeOK ==
    /\ node \in {"none", "attached", "stopped"}
    /\ publisher \in {"none", "live", "destroyed"}
    /\ publisher = "destroyed" => node = "stopped"
    /\ clients \subseteq Commands
    /\ pending \subseteq Calls
    /\ toCancel \subseteq Calls
    /\ pc \in [Calls -> Locations \cup Answers]
    /\ cmd \in [Calls -> Commands]
    /\ future \in [Calls -> {"none", "sent", "ok", "refused", "failed", "cancelled"}]
    /\ callback \in [Calls -> {"none", "added", "holding", "reporting", "finished"}]
    /\ timer \in [Calls -> {"none", "created", "running", "due", "holding", "reporting",
                            "ended", "cancelled"}]
    /\ outcome \in [Calls -> SUBSET {"success", "failed", "timeout", "dropped"}]

Init ==
    /\ node = "none"
    /\ publisher = "none"
    /\ clients = {}
    /\ pending = {}
    /\ toCancel = {}
    /\ pc = [c \in Calls |-> "idle"]
    /\ cmd \in [Calls -> Commands]
    /\ future = [c \in Calls |-> "none"]
    /\ callback = [c \in Calls |-> "none"]
    /\ timer = [c \in Calls |-> "none"]
    /\ outcome = [c \in Calls |-> {}]

Goto(c, from, to) == pc[c] = from /\ pc' = [pc EXCEPT ![c] = to]

-----------------------------------------------------------------------------
(* The main thread.  start() attaches once, if there is anything to serve. *)
Start ==
    /\ node = "none"
    /\ (HasTrigger /\ Mapped # {}) \/ HasPublisher
    /\ node' = "attached"
    /\ publisher' = IF HasPublisher THEN "live" ELSE "none"
    /\ UNCHANGED <<clients, pending, toCancel, pc, cmd, future, callback, timer, outcome>>

(* The locked part of stop(): detach, and take every pending call. *)
Stop ==
    /\ node = "attached"
    /\ node' = "stopped"
    /\ toCancel' = pending
    /\ pending' = {}
    /\ clients' = {}
    /\ outcome' = [c \in Calls |-> IF c \in pending THEN outcome[c] \cup {"dropped"} ELSE outcome[c]]
    /\ UNCHANGED <<publisher, pc, cmd, future, callback, timer>>

(* Timer.cancel() has no effect once the timer's function was entered; on a *)
(* timer not started yet it makes the later start() end at once.            *)
Cancelled(t) == IF t \in {"created", "running"} THEN "cancelled" ELSE t

StopCancelsTimer(c) ==
    /\ c \in toCancel
    /\ toCancel' = toCancel \ {c}
    /\ timer' = [timer EXCEPT ![c] = Cancelled(@)]
    /\ UNCHANGED <<node, publisher, clients, pending, pc, cmd, future, callback, outcome>>

StopDestroysPublisher ==
    /\ node = "stopped"
    /\ toCancel = {}
    /\ publisher = "live"
    /\ publisher' = "destroyed"
    /\ UNCHANGED <<node, clients, pending, toCancel, pc, cmd, future, callback, timer, outcome>>

-----------------------------------------------------------------------------
(* execute(), on the GLib thread or a LAN reader thread. *)
Call(c) ==
    /\ Goto(c, "idle", "begin")
    /\ UNCHANGED <<node, publisher, clients, pending, toCancel, cmd, future, callback, timer, outcome>>

(* The snapshot of node, trigger and publisher, and the dispatch on it: a    *)
(* mapped command with Trigger at hand is called, else a topic command is    *)
(* published.                                                               *)
Dispatch(c) ==
    /\ Goto(c, "begin",
            CASE node # "attached" -> "unavailable"
              [] node = "attached" /\ cmd[c] \in Mapped /\ HasTrigger -> "client"
              [] node = "attached" /\ ~(cmd[c] \in Mapped /\ HasTrigger) /\ cmd[c] \in Topical ->
                   IF HasPublisher THEN "publish" ELSE "unavailable"
              [] OTHER -> IF cmd[c] \in Mapped THEN "unavailable" ELSE "unknown")
    /\ UNCHANGED <<node, publisher, clients, pending, toCancel, cmd, future, callback, timer, outcome>>

(* publish() on the publisher of the snapshot, which stop() may have destroyed. *)
PublishTopic(c) ==
    /\ Goto(c, "publish", IF publisher = "destroyed" THEN "raised" ELSE "published")
    /\ UNCHANGED <<node, publisher, clients, pending, toCancel, cmd, future, callback, timer, outcome>>

(* _call_trigger: the service client of the command, created once. *)
GetClient(c) ==
    /\ Goto(c, "client", "wait")
    /\ clients' = clients \cup {cmd[c]}
    /\ UNCHANGED <<node, publisher, pending, toCancel, cmd, future, callback, timer, outcome>>

WaitForService(c) ==
    /\ Goto(c, "wait", "send") \/ Goto(c, "wait", "unavailable")
    /\ UNCHANGED <<node, publisher, clients, pending, toCancel, cmd, future, callback, timer, outcome>>

(* call_async(), and the timer is built. *)
SendRequest(c) ==
    /\ Goto(c, "send", "register")
    /\ future' = [future EXCEPT ![c] = "sent"]
    /\ timer' = [timer EXCEPT ![c] = "created"]
    /\ UNCHANGED <<node, publisher, clients, pending, toCancel, cmd, callback, outcome>>

(* The second locked part: from here on the call can be taken. *)
Register(c) ==
    /\ Goto(c, "register", "start")
    /\ pending' = pending \cup {c}
    /\ UNCHANGED <<node, publisher, clients, toCancel, cmd, future, callback, timer, outcome>>

(* Faulty variant: the timer is built but not started. *)
StartTimerForgotten(c) ==
    /\ Goto(c, "start", "add")
    /\ timer' = timer
    /\ UNCHANGED <<node, publisher, clients, pending, toCancel, cmd, future, callback, outcome>>

StartTimer(c) ==
    /\ Goto(c, "start", "add")
    /\ timer' = [timer EXCEPT ![c] = IF @ = "created" THEN "running" ELSE @]
    /\ UNCHANGED <<node, publisher, clients, pending, toCancel, cmd, future, callback, outcome>>

(* add_done_callback, then the answer None. *)
AddCallback(c) ==
    /\ Goto(c, "add", "accepted")
    /\ callback' = [callback EXCEPT ![c] = "added"]
    /\ UNCHANGED <<node, publisher, clients, pending, toCancel, cmd, future, timer, outcome>>

-----------------------------------------------------------------------------
(* The service answers, or the call fails. *)
ServiceAnswers(c) ==
    /\ future[c] = "sent"
    /\ \E f \in {"ok", "refused", "failed"} : future' = [future EXCEPT ![c] = f]
    /\ UNCHANGED <<node, publisher, clients, pending, toCancel, pc, cmd, callback, timer, outcome>>

(* _on_done, run once the future is done or cancelled and the callback added: *)
(* the first to take the call out of _pending settles it.                    *)
OnDone(c) ==
    /\ callback[c] = "added"
    /\ future[c] \notin {"none", "sent"}
    /\ callback' = [callback EXCEPT ![c] = IF c \in pending THEN "holding" ELSE "finished"]
    /\ pending' = pending \ {c}
    /\ UNCHANGED <<node, publisher, clients, toCancel, pc, cmd, future, timer, outcome>>

(* The rest of _on_done: cancel the timer, look at the result ... *)
OnDoneSettles(c) ==
    /\ callback[c] = "holding"
    /\ timer' = [timer EXCEPT ![c] = Cancelled(@)]
    /\ IF future[c] = "ok"
         THEN /\ callback' = [callback EXCEPT ![c] = "finished"]
              /\ outcome' = [outcome EXCEPT ![c] = @ \cup {"success"}]
         ELSE /\ callback' = [callback EXCEPT ![c] = "reporting"]
              /\ outcome' = outcome
    /\ UNCHANGED <<node, publisher, clients, pending, toCancel, pc, cmd, future>>

(* ... and report a failure. *)
OnDoneReports(c) ==
    /\ callback[c] = "reporting"
    /\ callback' = [callback EXCEPT ![c] = "finished"]
    /\ outcome' = [outcome EXCEPT ![c] = @ \cup {"failed"}]
    /\ UNCHANGED <<node, publisher, clients, pending, toCancel, pc, cmd, future, timer>>

(* The timer expires before it is cancelled: its function is entered. *)
TimerExpires(c) ==
    /\ timer[c] = "running"
    /\ timer' = [timer EXCEPT ![c] = "due"]
    /\ UNCHANGED <<node, publisher, clients, pending, toCancel, pc, cmd, future, callback, outcome>>

(* Faulty variant: a timer that lost the race reports all the same. *)
OnTimeoutUnchecked(c) ==
    /\ timer[c] = "due"
    /\ timer' = [timer EXCEPT ![c] = "holding"]
    /\ pending' = pending \ {c}
    /\ UNCHANGED <<node, publisher, clients, toCancel, pc, cmd, future, callback, outcome>>

(* _on_timeout. *)
OnTimeout(c) ==
    /\ timer[c] = "due"
    /\ timer' = [timer EXCEPT ![c] = IF c \in pending THEN "holding" ELSE "ended"]
    /\ pending' = pending \ {c}
    /\ UNCHANGED <<node, publisher, clients, toCancel, pc, cmd, future, callback, outcome>>

(* future.cancel(), which runs the done callback of a future under way. *)
OnTimeoutCancels(c) ==
    /\ timer[c] = "holding"
    /\ timer' = [timer EXCEPT ![c] = "reporting"]
    /\ future' = [future EXCEPT ![c] = IF @ = "sent" THEN "cancelled" ELSE @]
    /\ UNCHANGED <<node, publisher, clients, pending, toCancel, pc, cmd, callback, outcome>>

OnTimeoutReports(c) ==
    /\ timer[c] = "reporting"
    /\ timer' = [timer EXCEPT ![c] = "ended"]
    /\ outcome' = [outcome EXCEPT ![c] = @ \cup {"timeout"}]
    /\ UNCHANGED <<node, publisher, clients, pending, toCancel, pc, cmd, future, callback>>

-----------------------------------------------------------------------------
StopStep == Stop \/ (\E c \in Calls : StopCancelsTimer(c)) \/ StopDestroysPublisher

ExecuteStep(c) ==
    \/ Dispatch(c) \/ PublishTopic(c) \/ GetClient(c) \/ WaitForService(c)
    \/ SendRequest(c) \/ Register(c) \/ StartTimer(c) \/ AddCallback(c)

DoneStep(c) == OnDone(c) \/ OnDoneSettles(c) \/ OnDoneReports(c)

TimerStep(c) == TimerExpires(c) \/ OnTimeout(c) \/ OnTimeoutCancels(c) \/ OnTimeoutReports(c)

Next ==
    \/ Start
    \/ StopStep
    \/ \E c \in Calls : Call(c) \/ ExecuteStep(c) \/ ServiceAnswers(c) \/ DoneStep(c) \/ TimerStep(c)

Spec == Init /\ [][Next]_vars

(* Threads run, a started timer expires and the executor runs the callback of *)
(* a finished future.  No service need answer, nobody need call or stop.     *)
Fairness ==
    \A c \in Calls :
        /\ WF_vars(ExecuteStep(c))
        /\ WF_vars(DoneStep(c))
        /\ WF_vars(TimerStep(c))

FairSpec == Spec /\ Fairness

-----------------------------------------------------------------------------
(* One thing becomes of a call: whichever order its result, its timeout and  *)
(* stop() come in, at most one of them settles it, so that the App is told    *)
(* of a failure at most once and never of a call that succeeded or that       *)
(* stop() dropped (_pending.pop in _on_done and _on_timeout, clear in stop).  *)
OneOutcome == \A c \in Calls : \A a, b \in outcome[c] : a = b

(* A call that can be settled has a timer that will settle it if nothing else *)
(* does: none is left pending behind a timer that was cancelled or has ended. *)
PendingIsTimed == \A c \in pending : timer[c] \in {"created", "running", "due"}

(* Every call that execute() accepted is settled: it succeeds, fails, times   *)
(* out or is dropped by stop(); a late result of a call that timed out is     *)
(* swallowed (test_call_timeout_is_reported_and_late_result_ignored).         *)
AcceptedIsSettled == \A c \in Calls : pc[c] = "accepted" ~> outcome[c] # {}

(* What OneOutcome rests on: a call is in one hand at a time.  It is still    *)
(* to be registered, or pending, or held by its callback, or held by its      *)
(* timer, or settled.                                                        *)
Unregistered(c) == pc[c] \in {"idle", "begin", "client", "wait", "send", "register"} \cup (Answers \ {"accepted"}) \cup {"publish"}
HeldByCallback(c) == callback[c] \in {"holding", "reporting"}
HeldByTimer(c) == timer[c] \in {"holding", "reporting"}

OneHand ==
    \A c \in Calls :
        /\ Unregistered(c) =>
             /\ c \notin pending
             /\ callback[c] = "none"
             /\ timer[c] \in {"none", "created"}
             /\ timer[c] = "none" <=> pc[c] # "register"
             /\ outcome[c] = {}
        /\ ~Unregistered(c) => (timer[c] = "created" => pc[c] = "start")
        /\ c \in pending => ~HeldByCallback(c) /\ ~HeldByTimer(c) /\ outcome[c] = {}
        /\ HeldByCallback(c) => ~HeldByTimer(c) /\ outcome[c] = {}
        /\ HeldByTimer(c) => outcome[c] = {}
        /\ \A a, b \in outcome[c] : a = b
        /\ callback[c] # "none" => pc[c] = "accepted"

TimedInv ==
    \A c \in Calls :
        /\ timer[c] \in {"none", "cancelled", "ended"} => c \notin pending
        /\ c \in toCancel => outcome[c] # {} /\ ~Unregistered(c)
=============================================================================
