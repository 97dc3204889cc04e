------------------------------ MODULE WifiConfig ------------------------------
(***************************************************************************)
(* WiFi provisioning (src/xiaozhi_ble/wifi_config.py) between the two        *)
(* transports and NetworkManager.  A request is accepted under a lock; a      *)
(* worker thread replaces the bridge's profile, waits for the device and       *)
(* reports the outcome, which main.py passes on to both transports.            *)
(*                                                                         *)
(* An attempt stands for its request, for the worker thread that carries it    *)
(* out and for the profile it adds: SSID and password are the attempt's own.   *)
(***************************************************************************)
EXTENDS Naturals, Sequences, FiniteSets

CONSTANTS
    Glib,        \* the GLib thread, where BLE requests are handled
    LanReaders,  \* the LAN reader threads
    Attempts,    \* the requests that are accepted
    Old,         \* the profile an earlier run of the bridge may have left
    NoAttempt,   \* what a text without an SSID is about
    MaxSkips     \* bound: profiles that cannot be read when they are looked for

ASSUME WifiAssumption ==
    /\ Glib \notin LanReaders
    /\ IsFiniteSet(Attempts)
    /\ Old \notin Attempts /\ NoAttempt \notin Attempts
    /\ MaxSkips \in Nat

VARIABLES
    busy,      \* _busy
    pc,        \* where each calling thread is
    got,       \* the reply it is about to give
    stage,     \* where each attempt is
    code,      \* whether it succeeded
    profiles,  \* the bridge's profiles that NetworkManager has
    skips,     \* how many more profiles cannot be read
    serving,   \* the BLE characteristic exists
    ble, lan,  \* the value of the characteristic, and of the LAN cache
    idle       \* results handed to the GLib thread

callers == <<busy, pc, got>>
nm == <<profiles, skips>>
shown == <<serving, ble, lan, idle>>
vars == <<callers, stage, code, nm, shown>>

Threads == {Glib} \cup LanReaders
Texts == [what : {"none", "ERR", "CONNECTING", "CONNECTED", "FAILED"}, of : Attempts \cup {NoAttempt}]

TypeOK ==
    /\ busy \in BOOLEAN
    /\ pc \in [Threads -> {"idle", "start", "reply"}]
    /\ got \in [Threads -> Texts]
    /\ stage \in [Attempts -> {"unborn", "accepted", "delete", "add", "wait", "finish",
                               "report", "reportLan", "done", "lost"}]
    /\ code \in [Attempts -> {"none", "connected", "failed"}]
    /\ profiles \subseteq Attempts \cup {Old}
    /\ skips \in Nat
    /\ serving \in BOOLEAN
    /\ ble \in Texts
    /\ lan \in Texts
    /\ idle \in Seq(Texts)

Text(what, a) == [what |-> what, of |-> a]
Nothing == Text("none", NoAttempt)
Err == Text("ERR", NoAttempt)

Init ==
    /\ busy = FALSE
    /\ pc = [t \in Threads |-> "idle"]
    /\ got = [t \in Threads |-> Nothing]
    /\ stage = [a \in Attempts |-> "unborn"]
    /\ code = [a \in Attempts |-> "none"]
    /\ profiles \in SUBSET {Old}
    /\ skips = MaxSkips
    /\ serving = FALSE
    /\ ble = Nothing
    /\ lan = Nothing
    /\ idle = <<>>

-----------------------------------------------------------------------------
(* Requests.                                                                 *)

(* The characteristic is created. *)
Serve ==
    /\ ~serving
    /\ serving' = TRUE
    /\ UNCHANGED <<callers, stage, code, nm, ble, lan, idle>>

Goto(t, from, to) ==
    /\ t = Glib => serving
    /\ pc[t] = from
    /\ pc' = [pc EXCEPT ![t] = to]

Reply(t, text) == got' = [got EXCEPT ![t] = text]

(* The payload is malformed, an attempt is under way, or no device is found:  *)
(* whichever it is, the reply is an ERR and nothing changes.                 *)
Refuse(t) ==
    /\ Goto(t, "idle", "reply")
    /\ Reply(t, Err)
    /\ UNCHANGED <<busy, stage, code, nm, shown>>

(* Faulty variant: a request is accepted during an attempt. *)
AcceptAlways(t) ==
    /\ Goto(t, "idle", "start")
    /\ busy' = TRUE
    /\ \E a \in Attempts :
         /\ stage[a] = "unborn"
         /\ stage' = [stage EXCEPT ![a] = "accepted"]
         /\ Reply(t, Text("CONNECTING", a))
    /\ UNCHANGED <<code, nm, shown>>

(* connect(), under its lock: the request is accepted. *)
Accept(t) ==
    /\ Goto(t, "idle", "start")
    /\ ~busy
    /\ busy' = TRUE
    /\ \E a \in Attempts :
         /\ stage[a] = "unborn"
         /\ stage' = [stage EXCEPT ![a] = "accepted"]
         /\ Reply(t, Text("CONNECTING", a))
    /\ UNCHANGED <<code, nm, shown>>

(* The rest of connect(): the worker is started, or cannot be. *)
StartWorker(t) ==
    /\ Goto(t, "start", "reply")
    /\ LET a == got[t].of IN
         \/ /\ stage' = [stage EXCEPT ![a] = "delete"]
            /\ got' = got
         \/ /\ stage' = [stage EXCEPT ![a] = "lost"]
            /\ Reply(t, Err)
    /\ UNCHANGED <<busy, code, nm, shown>>

ReplyBle ==
    /\ Goto(Glib, "reply", "idle")
    /\ ble' = got[Glib]
    /\ Reply(Glib, Nothing)
    /\ UNCHANGED <<busy, stage, code, nm, serving, lan, idle>>

ReplyLan(t) ==
    /\ t \in LanReaders
    /\ Goto(t, "reply", "idle")
    /\ lan' = got[t]
    /\ Reply(t, Nothing)
    /\ UNCHANGED <<busy, stage, code, nm, serving, ble, idle>>

-----------------------------------------------------------------------------
(* The worker thread: _run and _activate.                                    *)
Step(a, from, to) ==
    /\ stage[a] = from
    /\ stage' = [stage EXCEPT ![a] = to]

(* Faulty variant: an exception ends the worker. *)
FailsUncaught(a, from) ==
    /\ Step(a, from, "lost")
    /\ code' = [code EXCEPT ![a] = "failed"]

(* An exception anywhere in _activate leaves the code at "failed". *)
Fails(a, from) ==
    /\ Step(a, from, "finish")
    /\ code' = [code EXCEPT ![a] = "failed"]

(* Faulty variant: the profile of before is kept. *)
DeleteNone(a) ==
    /\ Step(a, "delete", "add")
    /\ UNCHANGED <<callers, code, nm, shown>>

(* _delete_existing_profile: all of the bridge's profiles but those that       *)
(* cannot be read, or some of them and an exception.                          *)
DeleteProfiles(a) ==
    /\ \E kept \in SUBSET profiles :
         /\ profiles' = kept
         /\ \/ /\ Step(a, "delete", "add")
               /\ Cardinality(kept) <= skips
               /\ skips' = skips - Cardinality(kept)
               /\ code' = code
            \/ /\ Fails(a, "delete")
               /\ skips' = skips
    /\ UNCHANGED <<callers, shown>>

(* AddAndActivateConnection. *)
AddProfile(a) ==
    /\ \/ /\ Step(a, "add", "wait")
          /\ profiles' = profiles \cup {a}
          /\ code' = code
       \/ /\ Fails(a, "add")
          /\ profiles' = profiles
    /\ UNCHANGED <<callers, skips, shown>>

(* _wait_for_activation: the device is activated, on whatever network, or has   *)
(* failed, or the deadline is past (auth, not_found, timeout, failed are one). *)
WaitEnds(a) ==
    /\ \/ /\ Step(a, "wait", "finish")
          /\ code' = [code EXCEPT ![a] = "connected"]
       \/ Fails(a, "wait")
    /\ UNCHANGED <<callers, nm, shown>>

(* The finally of _run. *)
Finish(a) ==
    /\ Step(a, "finish", "report")
    /\ busy' = FALSE
    /\ UNCHANGED <<pc, got, code, nm, shown>>

(* Faulty variant: the SSID is a field, which the next request overwrites. *)
ResultOfNext(a) ==
    LET next == {b \in Attempts : stage[b] \in {"delete", "add", "wait"}} IN
    Text(IF code[a] = "connected" THEN "CONNECTED" ELSE "FAILED",
         IF next = {} THEN a ELSE CHOOSE b \in next : TRUE)

Result(a) == Text(IF code[a] = "connected" THEN "CONNECTED" ELSE "FAILED", a)

(* Faulty variant: the worker writes the characteristic itself. *)
ReportBleDirectly(a) ==
    /\ Step(a, "report", "reportLan")
    /\ ble' = IF serving THEN Result(a) ELSE ble
    /\ UNCHANGED <<callers, code, nm, serving, lan, idle>>

(* _publish_wifi_result: to the GLib thread, if there is a characteristic ... *)
ReportBle(a) ==
    /\ Step(a, "report", "reportLan")
    /\ idle' = IF serving THEN Append(idle, Result(a)) ELSE idle
    /\ UNCHANGED <<callers, code, nm, serving, ble, lan>>

(* ... and to the LAN cache. *)
ReportLan(a) ==
    /\ Step(a, "reportLan", "done")
    /\ lan' = Result(a)
    /\ UNCHANGED <<callers, code, nm, serving, ble, idle>>

(* report_result, when the GLib thread gets to it. *)
UpdateBle ==
    /\ pc[Glib] = "idle"
    /\ idle # <<>>
    /\ ble' = Head(idle)
    /\ idle' = Tail(idle)
    /\ UNCHANGED <<callers, stage, code, nm, serving, lan>>

-----------------------------------------------------------------------------
CallerStep(t) == StartWorker(t) \/ (t = Glib /\ ReplyBle) \/ ReplyLan(t)

WorkerStep(a) ==
    DeleteProfiles(a) \/ AddProfile(a) \/ WaitEnds(a) \/ Finish(a) \/ ReportBle(a) \/ ReportLan(a)

Next ==
    \/ Serve
    \/ \E t \in Threads : Refuse(t) \/ Accept(t) \/ CallerStep(t)
    \/ \E a \in Attempts : WorkerStep(a)
    \/ UpdateBle

Spec == Init /\ [][Next]_vars

(* Threads run, a wait has a deadline, and requests leave the GLib thread idle  *)
(* now and then.  Clients and NetworkManager may do anything.                 *)
Fairness ==
    /\ \A t \in Threads : WF_vars(CallerStep(t))
    /\ \A a \in Attempts : WF_vars(WorkerStep(a))
    /\ SF_vars(UpdateBle)

FairSpec == Spec /\ Fairness

-----------------------------------------------------------------------------
(* "Only one provisioning attempt runs at a time" (wifi_config.py:10),         *)
(* whichever transports the requests come over.                              *)
Running(a) == stage[a] \in {"accepted", "delete", "add", "wait", "finish"}

OneAttempt == \A a, b \in Attempts : Running(a) /\ Running(b) => a = b

(* An attempt holds the flag from its acceptance to its end; one whose worker    *)
(* could not be started holds it for good.                                   *)
Holds(a) == Running(a) \/ stage[a] = "lost"

Progress(a) ==
    CASE stage[a] = "unborn" -> "new"
      [] Holds(a) -> "going"
      [] OTHER -> code[a]

Promise == INSTANCE Provisioning WITH
    Transports <- {"ble", "lan"},
    state <- [a \in Attempts |-> Progress(a)],
    shown <- [tr \in {"ble", "lan"} |-> IF tr = "ble" THEN ble ELSE lan]

(* Whatever order replies and results arrive in, and whatever fails: a result    *)
(* is of the attempt that it names, and is told when that has ended            *)
(* (on_result(code, ssid), wifi_config.py:163-173).                           *)
ImplementsProvisioning == Promise!Spec

(* When an attempt has come to "connected" its profile is saved, and no other  *)
(* of the bridge's is left with credentials of before, unless one could not   *)
(* be read ("so a changed password actually takes effect").                  *)
ConnectedIsSaved ==
    \A a \in Attempts :
        stage[a] = "finish" /\ code[a] = "connected" =>
            a \in profiles /\ (skips = MaxSkips => profiles = {a})

(* Whoever started the attempts and in whatever order they ended: once nothing *)
(* is going on, the characteristic does not show CONNECTING.                  *)
Settled ==
    /\ \A t \in Threads : pc[t] = "idle"
    /\ \A a \in Attempts : stage[a] \in {"unborn", "done", "lost"}
    /\ idle = <<>>

OutcomeIsShown == Settled => ble.what # "CONNECTING"

(* An attempt whose worker was started is reported to both transports, however *)
(* NetworkManager fails.                                                    *)
StartedIsReported ==
    \A a \in Attempts :
        (stage[a] = "delete") ~> (stage[a] = "done" /\ \A i \in 1..Len(idle) : idle[i].of # a)
=============================================================================
