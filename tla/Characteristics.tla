--------------------------- MODULE Characteristics ---------------------------
(***************************************************************************)
(* One GATT characteristic of src/xiaozhi_ble/gatt_server.py: the value it    *)
(* keeps, the notifications of it, its descriptor (the CCCD), reads that take *)
(* several requests, and the updates that other threads hand to the GLib     *)
(* thread, where every handler runs.                                         *)
(*                                                                         *)
(* There are five kinds: a monitor (network, CPU, bandwidth, memory), the     *)
(* battery, a command (robot control, WiFi, zone navigation, velocity,        *)
(* initial pose), a command that also has a status (navigation tasks, zone    *)
(* voice), and an endpoint (LAN, audio).  A text is the number of the order   *)
(* in which the program made it; 0 stands for no text.  Left out: what a text *)
(* says, and a notification that cannot be emitted because the bus is gone.   *)
(***************************************************************************)
EXTENDS Integers, Sequences

CONSTANTS
    Kinds,    \* the kinds that are looked at
    MaxText,  \* bound: texts that are made
    MaxIdle   \* bound: updates that wait for the GLib thread

AllKinds == {"monitor", "battery", "command", "status", "endpoint"}

ASSUME CharacteristicsAssumption ==
    /\ Kinds \subseteq AllKinds
    /\ MaxText \in Nat \ {0}
    /\ MaxIdle \in Nat

VARIABLES
    kind,      \* what the characteristic is
    value,     \* _value
    notifying, \* _notifying
    cccd,      \* _value of the descriptor
    idle,      \* updates that wait for the GLib thread
    ticking,   \* the timer of the battery runs
    made,      \* the last text made
    heard,     \* the App: the text notified last
    quiet,     \* history: nothing was shown since notifications were turned on silently
    read,      \* the App: the texts that the two parts of its last read are of
    watched,   \* history: notifications have been on since that read began
    told       \* history: there was one since

vars == <<kind, value, notifying, cccd, idle, ticking, made, heard, quiet, read, watched, told>>

NotRead == [head |-> 0, tail |-> 0]

TypeOK ==
    /\ kind \in Kinds
    /\ value \in 1..made
    /\ notifying \in BOOLEAN
    /\ cccd \in {"off", "on", "other"}
    /\ idle \in Seq(1..made)
    /\ ticking \in BOOLEAN
    /\ made \in Nat
    /\ heard \in 0..made
    /\ quiet \in BOOLEAN
    /\ read \in [head : 0..made, tail : 0..made]
    /\ watched \in BOOLEAN
    /\ told \in BOOLEAN
    /\ kind = "endpoint" => ~notifying /\ cccd = "off" /\ read.tail = 0
    /\ notifying /\ kind \in {"monitor", "battery"} => heard # 0

(* Every class starts with a text: UNKNOWN, nothing, or the status.          *)
Init ==
    /\ kind \in Kinds
    /\ value = 1
    /\ notifying = FALSE
    /\ cccd = "off"
    /\ idle = <<>>
    /\ ticking = (kind = "battery")
    /\ made = 1
    /\ heard = 0
    /\ quiet = FALSE
    /\ read = NotRead
    /\ watched = FALSE
    /\ told = FALSE

appVars == <<read, watched>>

-----------------------------------------------------------------------------
(* What a handler does with a text: it becomes the value, and if asked to and *)
(* if somebody listens it is notified.                                       *)
Emit(text) == heard' = text /\ told' = TRUE
Hush == UNCHANGED <<heard, told>>

Show(text, notify) ==
    /\ value' = text
    /\ IF notify /\ notifying THEN Emit(text) ELSE Hush
    /\ quiet' = FALSE

MakeText == made < MaxText /\ made' = made + 1

(* Another thread reports: a closure for the GLib thread.                    *)
Report ==
    /\ Len(idle) < MaxIdle
    /\ MakeText
    /\ idle' = Append(idle, made')
    /\ UNCHANGED <<kind, value, notifying, cccd, ticking, heard, quiet, appVars, told>>

(* The GLib thread runs the closure that waits first.                        *)
Take(notify) ==
    /\ idle # <<>>
    /\ Show(Head(idle), notify)
    /\ idle' = Tail(idle)
    /\ UNCHANGED <<kind, notifying, cccd, ticking, made, appVars>>

(* Faulty variant: an update is not notified.                                *)
UpdateMonitorSilently == kind = "monitor" /\ Take(FALSE)

(* update_status, update_usage, update_bandwidth.                            *)
UpdateMonitor == kind = "monitor" /\ Take(TRUE)

(* The battery leaves the notification to its timer.                         *)
UpdateBattery == kind = "battery" /\ Take(FALSE)

UpdateEndpoint == kind = "endpoint" /\ Take(FALSE)

(* report, report_error, report_result.                                      *)
ReportText == kind \in {"command", "status"} /\ Take(TRUE)

(* Faulty variant: the timer goes on only while somebody listens.            *)
TickWhileNotifying ==
    /\ ticking
    /\ IF notifying THEN Emit(value) ELSE Hush
    /\ ticking' = notifying
    /\ UNCHANGED <<kind, value, notifying, cccd, idle, made, quiet, appVars>>

(* The timer of the battery, every second.                                   *)
Tick ==
    /\ ticking
    /\ IF notifying THEN Emit(value) ELSE Hush
    /\ UNCHANGED <<kind, value, notifying, cccd, idle, ticking, made, quiet, appVars>>

(* Faulty variant: a reply is only kept.                                     *)
ReplySilently ==
    /\ kind \in {"command", "status"}
    /\ MakeText
    /\ Show(made', FALSE)
    /\ UNCHANGED <<kind, notifying, cccd, idle, ticking, appVars>>

(* WriteValue of a command: the reply, or what is wrong with it, is shown.    *)
(* (A command that robot control accepts has no reply and changes nothing.)   *)
Reply ==
    /\ kind \in {"command", "status"}
    /\ MakeText
    /\ Show(made', TRUE)
    /\ UNCHANGED <<kind, notifying, cccd, idle, ticking, appVars>>

-----------------------------------------------------------------------------
(* Notifications are turned on and off by a call of StartNotify and           *)
(* StopNotify, or by writing the descriptor.                                 *)

StartMonitor ==
    /\ kind \in {"monitor", "battery"}
    /\ Emit(value)
    /\ UNCHANGED <<value, quiet, made>>

(* A status is asked for now.                                                *)
StartStatus ==
    /\ kind = "status"
    /\ MakeText
    /\ value' = made'
    /\ Emit(made')
    /\ quiet' = quiet

(* If that fails, which is only logged, the new listener is told nothing.     *)
StatusFails ==
    /\ kind = "status"
    /\ quiet' = TRUE
    /\ UNCHANGED <<value, heard, told, made>>

(* A command tells a new listener nothing.                                   *)
StartCommand ==
    /\ kind = "command"
    /\ quiet' = TRUE
    /\ UNCHANGED <<value, heard, told, made>>

StartNotify == notifying' = TRUE /\ (StartMonitor \/ StartStatus \/ StatusFails \/ StartCommand)

StopNotify ==
    /\ notifying' = FALSE
    /\ watched' = FALSE
    /\ UNCHANGED <<value, heard, told, quiet, made>>

HasNotify == kind # "endpoint"

CallStartNotify ==
    /\ HasNotify
    /\ StartNotify
    /\ UNCHANGED <<kind, cccd, idle, ticking, appVars>>

CallStopNotify ==
    /\ HasNotify
    /\ StopNotify
    /\ UNCHANGED <<kind, cccd, idle, ticking, read>>

(* WriteValue of the descriptor: any other two bytes are only kept.          *)
WriteCccd(bits) ==
    /\ HasNotify
    /\ cccd' = bits
    /\ \/ bits = "on" /\ StartNotify /\ UNCHANGED watched
       \/ bits = "off" /\ StopNotify
       \/ bits = "other" /\ UNCHANGED <<value, notifying, heard, told, quiet, made, watched>>
    /\ UNCHANGED <<kind, idle, ticking, read>>

(* ReadValue, without and with an offset.  A text that is longer than one     *)
(* answer takes two requests; an endpoint is not.                            *)
ReadHead ==
    /\ read' = [head |-> value, tail |-> 0]
    /\ watched' = notifying
    /\ told' = FALSE
    /\ UNCHANGED <<kind, value, notifying, cccd, idle, ticking, made, heard, quiet>>

ReadTail ==
    /\ kind # "endpoint"
    /\ read.head # 0
    /\ read.tail = 0
    /\ read' = [read EXCEPT !.tail = value]
    /\ UNCHANGED <<kind, value, notifying, cccd, idle, ticking, made, heard, quiet, watched, told>>

-----------------------------------------------------------------------------
Handler ==
    \/ Reply
    \/ CallStartNotify
    \/ CallStopNotify
    \/ \E bits \in {"off", "on", "other"} : WriteCccd(bits)
    \/ ReadHead
    \/ ReadTail

Update == UpdateMonitor \/ UpdateBattery \/ UpdateEndpoint \/ ReportText

Next == Report \/ Update \/ Tick \/ Handler

Spec == Init /\ [][Next]_vars

(* The GLib loop runs its timer.  Nothing makes a provider report or an App ask. *)
FairSpec == Spec /\ WF_vars(Tick)

-----------------------------------------------------------------------------
(* Who listens has heard what a read would give, whatever came in between of  *)
(* updates, replies and turning notifications on again by either way; only    *)
(* the battery waits for its timer, and a new listener is told nothing by a    *)
(* command, or by a status that could not be had, until there is a text again *)
(* (StartNotify, gatt_server.py:162, 236, 455, 629-634).                      *)
SubscriberIsCurrent ==
    notifying /\ ~quiet /\ kind # "battery" => heard = value

(* A read that took two requests may join the head of one text and the tail of *)
(* another (gatt_server.py:106-115 cuts whatever the value is by then).  Who   *)
(* listened meanwhile has been notified since it began, and so can tell.      *)
Torn == read.tail # 0 /\ read.tail # read.head

TornReadIsTold ==
    Torn /\ watched /\ kind # "battery" => told /\ heard = value

(* The battery does not notify when it changes: the timer, which must never    *)
(* end, makes up for it (gatt_server.py:180-183, 2192-2195).                  *)
BatteryCatchesUp ==
    (kind = "battery" /\ notifying /\ heard # value) ~> (~notifying \/ heard = value)
=============================================================================
