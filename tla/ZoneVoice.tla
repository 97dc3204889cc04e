------------------------------ MODULE ZoneVoice ------------------------------
(***************************************************************************)
(* Zone voice (src/xiaozhi_ble/zone_voice.py) between the player and the     *)
(* two transports.  Commands run on the GLib thread (a write or a             *)
(* subscription over BLE) and on LAN reader threads, and a poller watches      *)
(* what the player does by itself.  Requests to the player are made under one *)
(* lock; what became of them is told outside it: a command's reply to the      *)
(* transport it came from, what a poll found to both (main.py).                *)
(*                                                                         *)
(* A status is a member of Audios (PLAYING it), "IDLE" or "UNKNOWN"; LIST and  *)
(* ERR replies are "OTHER" and tell no status.                               *)
(***************************************************************************)
EXTENDS Naturals, Sequences

CONSTANTS
    Audios,      \* what can be played
    Poller,      \* the poller thread
    Glib,        \* the GLib thread
    LanReaders,  \* the LAN reader threads
    NoThread,    \* nobody
    MaxIdle,     \* bound: updates waiting for the GLib thread
    MaxFailures  \* bound: requests that fail

ZoneVoiceConstants ==
    /\ Poller # Glib
    /\ {Poller, Glib} \cap LanReaders = {}
    /\ NoThread \notin {Poller, Glib} \cup LanReaders
    /\ Audios \cap {"IDLE", "UNKNOWN", "OTHER", "none", "list", "stop", "status"} = {}
    /\ MaxIdle \in Nat
    /\ MaxFailures \in Nat

ASSUME ZoneVoiceAssumption == ZoneVoiceConstants

VARIABLES
    player,     \* what the player does
    failures,   \* how many more requests fail
    lock,       \* who holds _lock
    last,       \* _last_notified
    pc,         \* where each thread is
    asksStatus, \* its request is one for the status
    got,        \* what it was answered, then what it tells
    server,     \* the BLE server: none, serving, or ended
    ble, lan,   \* the status last told over each transport
    idle,       \* updates handed to the GLib thread
    stopEvent   \* _stop_event

transports == <<server, ble, lan, idle, stopEvent>>
vars == <<player, failures, lock, last, pc, asksStatus, got, transports>>

Threads == {Poller, Glib} \cup LanReaders
Clients == Threads \ {Poller}
Statuses == Audios \cup {"IDLE"}
Texts == Statuses \cup {"UNKNOWN"}
Verbs == Audios \cup {"list", "stop", "status"}

TypeOK ==
    /\ player \in Statuses
    /\ failures \in Nat
    /\ lock \in Threads \cup {NoThread}
    /\ last \in Texts \cup {"none"}
    /\ pc \in [Threads -> {"check", "idle", "want", "asked", "tell", "tellLan", "done"}]
    /\ asksStatus \in [Threads -> BOOLEAN]
    /\ got \in [Threads -> Texts \cup {"OTHER", "none"}]
    /\ server \in {"none", "serving", "ended"}
    /\ ble \in Texts \cup {"none"}
    /\ lan \in Texts \cup {"none"}
    /\ idle \in Seq(Texts)
    /\ stopEvent \in BOOLEAN

Init ==
    /\ player \in Statuses
    /\ failures = MaxFailures
    /\ lock = NoThread
    /\ last = "none"
    /\ pc = [t \in Threads |-> IF t = Poller THEN "check" ELSE "idle"]
    /\ asksStatus = [t \in Threads |-> FALSE]
    /\ got = [t \in Threads |-> "none"]
    /\ server = "none"
    /\ ble = "none"
    /\ lan = "none"
    /\ idle = <<>>
    /\ stopEvent = FALSE

Goto(t, from, to) == pc[t] = from /\ pc' = [pc EXCEPT ![t] = to]

-----------------------------------------------------------------------------
(* The player, on its own. *)
PlayerChanges ==
    /\ \E s \in Statuses \ {player} : player' = s
    /\ UNCHANGED <<failures, lock, last, pc, asksStatus, got, transports>>

-----------------------------------------------------------------------------
(* A client makes a request.  The first over BLE is the characteristic's own,  *)
(* in its constructor.                                                       *)
Request(t) ==
    /\ t = Glib => server # "ended"
    /\ Goto(t, "idle", "want")
    /\ UNCHANGED <<player, failures, lock, last, asksStatus, got, transports>>

(* The poller's loop condition. *)
Poll ==
    /\ Goto(Poller, "check", IF stopEvent THEN "done" ELSE "want")
    /\ UNCHANGED <<player, failures, lock, last, asksStatus, got, transports>>

(* What a thread may ask: the poller, the constructor and a subscription ask   *)
(* for the status; PLAY a is written a.                                      *)
VerbsOf(t) == IF t = Poller \/ (t = Glib /\ server = "none") THEN {"status"} ELSE Verbs

(* _request_locked: the player does what it is asked, or refuses. *)
After(v) == CASE v \in Audios -> v [] v = "stop" -> "IDLE" [] OTHER -> player

Ask(t) ==
    /\ Goto(t, "want", "asked")
    /\ lock = NoThread
    /\ lock' = t
    /\ \E v \in VerbsOf(t) :
         /\ asksStatus' = [asksStatus EXCEPT ![t] = v = "status"]
         /\ \/ /\ player' = After(v)
               /\ got' = [got EXCEPT ![t] = IF v = "list" THEN "OTHER" ELSE player']
            \/ /\ v \in Audios \cup {"stop"}
               /\ player' = player
               /\ got' = [got EXCEPT ![t] = "OTHER"]
    /\ UNCHANGED <<failures, last, transports>>

(* Its response, unless the socket fails, times out or returns nonsense. *)
Response(t, ok) ==
    IF ok THEN failures' = failures
          ELSE failures > 0 /\ failures' = failures - 1

Reported(t, ok) == CASE ok -> got[t] [] asksStatus[t] -> "UNKNOWN" [] OTHER -> "OTHER"

(* Faulty variant: an early return that keeps the lock. *)
AnswerKeepsLock(t) ==
    /\ t # Poller
    /\ lock = t
    /\ Goto(t, "asked", "tell")
    /\ \E ok \in BOOLEAN :
         /\ Response(t, ok)
         /\ lock' = IF ok THEN NoThread ELSE t
         /\ got' = [got EXCEPT ![t] = Reported(t, ok)]
         /\ last' = IF got'[t] = "OTHER" THEN last ELSE got'[t]
    /\ asksStatus' = [asksStatus EXCEPT ![t] = FALSE]
    /\ UNCHANGED <<player, transports>>

(* The rest of _list, _play, _stop_playback and _status. *)
Answer(t) ==
    /\ t # Poller
    /\ lock = t
    /\ Goto(t, "asked", "tell")
    /\ lock' = NoThread
    /\ \E ok \in BOOLEAN :
         /\ Response(t, ok)
         /\ got' = [got EXCEPT ![t] = Reported(t, ok)]
         /\ last' = IF got'[t] = "OTHER" THEN last ELSE got'[t]
    /\ asksStatus' = [asksStatus EXCEPT ![t] = FALSE]
    /\ UNCHANGED <<player, transports>>

(* Faulty variant: the end of a playback is not worth a notification. *)
PolledNotEnd ==
    /\ lock = Poller
    /\ \E ok \in BOOLEAN :
         /\ Response(Poller, ok)
         /\ last' = Reported(Poller, ok)
    /\ Goto(Poller, "asked", IF last' \in {last, "IDLE"} THEN "check" ELSE "tell")
    /\ got' = [got EXCEPT ![Poller] = IF last' \in {last, "IDLE"} THEN "none" ELSE last']
    /\ lock' = NoThread
    /\ asksStatus' = [asksStatus EXCEPT ![Poller] = FALSE]
    /\ UNCHANGED <<player, transports>>

(* The rest of _poll_once under the lock. *)
Polled ==
    /\ lock = Poller
    /\ \E ok \in BOOLEAN :
         /\ Response(Poller, ok)
         /\ last' = Reported(Poller, ok)
    /\ Goto(Poller, "asked", IF last' = last THEN "check" ELSE "tell")
    /\ got' = [got EXCEPT ![Poller] = IF last' = last THEN "none" ELSE last']
    /\ lock' = NoThread
    /\ asksStatus' = [asksStatus EXCEPT ![Poller] = FALSE]
    /\ UNCHANGED <<player, transports>>

-----------------------------------------------------------------------------
(* A reply goes to the transport of the request.  The first one over BLE      *)
(* completes the characteristic.                                            *)
ReplyBle ==
    /\ Goto(Glib, "tell", "idle")
    /\ ble' = IF got[Glib] = "OTHER" THEN ble ELSE got[Glib]
    /\ got' = [got EXCEPT ![Glib] = "none"]
    /\ server' = "serving"
    /\ UNCHANGED <<player, failures, lock, last, asksStatus, lan, idle, stopEvent>>

ReplyLan(t) ==
    /\ t \in LanReaders
    /\ Goto(t, "tell", "idle")
    /\ lan' = IF got[t] = "OTHER" THEN lan ELSE got[t]
    /\ got' = [got EXCEPT ![t] = "none"]
    /\ UNCHANGED <<player, failures, lock, last, asksStatus, server, ble, idle, stopEvent>>

(* _forward_zone_voice_event: to the BLE server, which drops it while it has  *)
(* no characteristic and never gets to it once its loop has ended ...        *)
PollerTellsBle ==
    /\ Goto(Poller, "tell", "tellLan")
    /\ IF server = "serving"
         THEN Len(idle) < MaxIdle /\ idle' = Append(idle, got[Poller])
         ELSE idle' = idle
    /\ UNCHANGED <<player, failures, lock, last, asksStatus, got, server, ble, lan, stopEvent>>

(* ... then to the LAN server. *)
PollerTellsLan ==
    /\ Goto(Poller, "tellLan", "check")
    /\ lan' = got[Poller]
    /\ got' = [got EXCEPT ![Poller] = "none"]
    /\ UNCHANGED <<player, failures, lock, last, asksStatus, server, ble, idle, stopEvent>>

(* The GLib thread gets to an update: report(). *)
UpdateBle ==
    /\ server = "serving"
    /\ pc[Glib] = "idle"
    /\ idle # <<>>
    /\ ble' = Head(idle)
    /\ idle' = Tail(idle)
    /\ UNCHANGED <<player, failures, lock, last, pc, asksStatus, got, server, lan, stopEvent>>

(* The bridge stops: first the BLE server, and later the poller. *)
StopServer ==
    /\ server = "serving"
    /\ pc[Glib] = "idle"
    /\ server' = "ended"
    /\ ble' = "none"
    /\ idle' = <<>>
    /\ UNCHANGED <<player, failures, lock, last, pc, asksStatus, got, lan, stopEvent>>

Stop ==
    /\ server = "ended"
    /\ ~stopEvent
    /\ stopEvent' = TRUE
    /\ UNCHANGED <<player, failures, lock, last, pc, asksStatus, got, server, ble, lan, idle>>

-----------------------------------------------------------------------------
PollerStep == Poll \/ Polled \/ PollerTellsBle \/ PollerTellsLan

ClientStep(t) == Answer(t) \/ (t = Glib /\ ReplyBle) \/ ReplyLan(t)

Next ==
    \/ PlayerChanges
    \/ \E t \in Clients : Request(t) \/ ClientStep(t)
    \/ \E t \in Threads : Ask(t)
    \/ PollerStep
    \/ UpdateBle \/ StopServer \/ Stop

Spec == Init /\ [][Next]_vars

(* Threads run, and one that waits for the lock gets it: the poller leaves it *)
(* alone between two polls.  The constructor of the characteristic is run.    *)
(* Clients need not do anything, and the player may do anything.             *)
Fairness ==
    /\ WF_vars(PollerStep)
    /\ WF_vars(UpdateBle)
    /\ WF_vars(server = "none" /\ Request(Glib))
    /\ \A t \in Clients : WF_vars(ClientStep(t))
    /\ \A t \in Threads : SF_vars(Ask(t))

FairSpec == Spec /\ Fairness

-----------------------------------------------------------------------------
(* Every request is answered, whatever becomes of the player's socket in the  *)
(* middle of it: no error path leaves the lock held.                         *)
RequestsAnswered == \A t \in Clients : (pc[t] = "want") ~> (pc[t] = "idle")

(* What the player does by itself is told to both transports ("so the App is  *)
(* notified when audio finishes or when ROS-triggered playback starts"), as   *)
(* long as no client makes a request meanwhile.                              *)
Quiet == \A t \in Clients : pc[t] = "idle"

ChangeIsTold ==
    \A s \in Statuses :
        (server = "serving" /\ Quiet /\ player = s /\ last \notin {s, "none"})
          ~> ((ble = s /\ lan = s) \/ player # s \/ ~Quiet \/ server = "ended")

(* Once an audio has ended the characteristic does not go on showing it as    *)
(* PLAYING (src/BLE_CONTROL_PROTOCOL.md:446 and 594).                        *)
EndIsTold ==
    \A a \in Audios :
        (server = "serving" /\ ble = a /\ player = "IDLE")
          ~> (ble # a \/ player # "IDLE" \/ server = "ended")
=============================================================================
