------------------------------ MODULE Providers ------------------------------
(***************************************************************************)
(* The polling providers (src/xiaozhi_ble/network.py, cpu.py, memory.py,     *)
(* bandwidth.py, audio_endpoint.py) and the way of a reading to the two      *)
(* transports (main.py): each poller keeps the reading it reported last and  *)
(* reports changes only, to a GATT characteristic, by way of the GLib idle   *)
(* queue, and to the LAN cache.  Two of them, the network's and the audio     *)
(* port's, also publish the two endpoints the App connects to.               *)
(*                                                                         *)
(* A reading is a pair: <<level, 0>> of a gauge, <<address, 1>> of the WiFi   *)
(* link (a new name or signal counts as a new address), <<port, 1>> of the    *)
(* PCM server; 0 stands for None.  The counters that cpu and bandwidth take   *)
(* their rates from are left out, and a file that cannot be read, after which *)
(* a poll changes nothing.                                                   *)
(***************************************************************************)
EXTENDS Integers, Sequences

CONSTANTS
    Setups,     \* sets of providers that are enabled together (configuration, hardware)
    Threshold,  \* notify_threshold of the gauges
    LanPort,    \* lan_port of the configuration
    MaxLevel,   \* bound: levels of a gauge
    MaxAddress, \* bound: addresses of the robot
    MaxPort,    \* bound: ports of the PCM server
    MaxDrifts,  \* bound: how often a gauge changes
    MaxChanges, \* bound: how often the link or the port changes
    MaxIdle     \* bound: updates of a characteristic that wait when a poll begins

Gauges == {"cpu", "memory", "bandwidth"}
Rates == {"cpu", "bandwidth"}
Publishers == {"network", "audio"}
Pollers == Gauges \cup Publishers
Endpoints == {"lan_endpoint", "audio_endpoint"}
Monitors == Gauges \cup {"network"}
Channels == Monitors \cup Endpoints

ASSUME ProvidersAssumption ==
    /\ Setups \subseteq SUBSET Pollers
    /\ Threshold \in Nat
    /\ LanPort \in Nat \ {0}
    /\ MaxLevel \in Nat /\ MaxAddress \in Nat /\ MaxPort \in Nat
    /\ MaxDrifts \in Nat /\ MaxChanges \in Nat /\ MaxIdle \in Nat

VARIABLES
    enabled,  \* the providers that are enabled
    world,    \* what a poll of each provider would read
    changes,  \* how often the world changed
    sampled,  \* the rates that have their first sample (_previous is set)
    last,     \* _last, _last_reported
    pc,       \* where each poller thread is
    stopSet,  \* the providers whose _stop_event is set
    ipv4,     \* _Bridge._ipv4
    port,     \* _Bridge._audio_port
    texts,    \* the endpoint texts a poller has built to publish
    made,     \* how many characteristics exist
    idle,     \* updates of each characteristic that wait for the GLib thread
    ble,      \* what each characteristic holds
    lan,      \* what the LAN server caches
    dropped,  \* history: characteristics that did not exist at their last report
    alone,    \* history: publications beside which no other ran
    clean     \* history: the last publication to end was one of those

vars == <<enabled, world, changes, sampled, last, pc, stopSet, ipv4, port, texts, made, idle, ble, lan,
          dropped, alone, clean>>

pollVars == <<enabled, world, changes, sampled, last, stopSet>>
bleVars == <<made, idle, ble, dropped>>

Unknown == <<0, 0>>
(* The order in which _run creates the characteristics that providers update; *)
(* the three of the gauges, each of which has a poller of its own, in one step. *)
CharOrder == <<{"network"}, Gauges, {"lan_endpoint"}, {"audio_endpoint"}>>
Exists(ch) == \E i \in 1..made : ch \in CharOrder[i]

NoTexts == [e \in Endpoints |-> Unknown]
Pairs == Nat \X Nat
(* What the files, the ioctl and the query socket can tell.                  *)
Levels == (1..MaxLevel) \X {0}
Links == (0..MaxAddress) \X {1}
Ports == (0..MaxPort) \X {1}
Readings(p) == IF p = "network" THEN Links ELSE IF p = "audio" THEN Ports ELSE Levels

(* format_endpoint                                                           *)
Endpoint(address, number) ==
    IF address = 0 \/ number = 0 THEN Unknown ELSE <<address, number>>

(* Where a thread is within the callback that reports a reading.             *)
Publishing == {"field", "ble", "lan", "lanText", "audioText", "bleLan", "bleAudio", "lanLan",
               "lanAudio"}
Places(p) ==
    {"off", "waiting", "ended"} \cup
        (CASE p = "network" -> Publishing
           [] p = "audio" -> Publishing \ {"ble", "lan"}
           [] OTHER -> {"ble", "lan"})

TypeOK ==
    /\ enabled \in Setups
    /\ world \in [Pollers -> Pairs]
    /\ changes \in Nat
    /\ sampled \in SUBSET Rates
    /\ last \in [Pollers -> Pairs]
    /\ pc \in [Pollers -> Publishing \cup {"off", "waiting", "ended"}]
    /\ \A p \in Pollers : pc[p] \in Places(p)
    /\ stopSet \in SUBSET Pollers
    /\ ipv4 \in Nat
    /\ port \in Nat
    /\ texts \in [Publishers -> [Endpoints -> Pairs]]
    /\ made \in 0..Len(CharOrder)
    /\ idle \in [Channels -> Seq(Pairs)]
    /\ ble \in [Channels -> Pairs]
    /\ lan \in [Channels -> Pairs]
    /\ dropped \in SUBSET Channels
    /\ alone \in SUBSET Publishers
    /\ clean \in BOOLEAN

Init ==
    /\ enabled \in Setups
    /\ world \in [Pollers -> {Unknown} \cup UNION {Readings(p) : p \in Pollers}]
    /\ \A p \in Pollers : world[p] \in IF p \in enabled THEN Readings(p) ELSE {Unknown}
    /\ changes = 0
    /\ sampled = {}
    /\ last = [p \in Pollers |-> Unknown]
    /\ pc = [p \in Pollers |-> "off"]
    /\ stopSet = {}
    /\ ipv4 = 0
    /\ port = 0
    /\ texts = [p \in Publishers |-> NoTexts]
    /\ made = 0
    /\ idle = [ch \in Channels |-> <<>>]
    /\ ble = [ch \in Channels |-> Unknown]
    /\ lan = [ch \in Channels |-> Unknown]
    /\ dropped = {}
    /\ alone = {}
    /\ clean = TRUE

-----------------------------------------------------------------------------
(* The world: load, traffic, the WiFi link, the PCM server.                  *)
Change(p) ==
    /\ p \in enabled
    /\ changes < IF p \in Gauges THEN MaxDrifts ELSE MaxChanges
    /\ changes' = changes + 1
    /\ \E r \in Readings(p) \ {world[p]} : world' = [world EXCEPT ![p] = r]
    /\ UNCHANGED <<enabled, sampled, last, pc, stopSet, ipv4, port, texts, bleVars, lan, alone, clean>>

-----------------------------------------------------------------------------
(* The bridge starts the pollers, and then the BLE server, whose thread      *)
(* creates the characteristics one after the other and runs the GLib loop.   *)
Started == \A p \in enabled : pc[p] # "off"

(* main.py starts the providers in this order, and stops them in the reverse. *)
Order == <<"network", "cpu", "memory", "bandwidth", "audio">>
Before(p) == {q \in enabled : \E i, j \in DOMAIN Order : i < j /\ Order[i] = q /\ Order[j] = p}

Start(p) ==
    /\ p \in enabled
    /\ pc[p] = "off"
    /\ \A q \in Before(p) : pc[q] # "off"
    /\ pc' = [pc EXCEPT ![p] = "waiting"]
    /\ UNCHANGED <<pollVars, ipv4, port, texts, bleVars, lan, alone, clean>>

MakeCharacteristic ==
    /\ Started
    /\ made < Len(CharOrder)
    /\ made' = made + 1
    /\ UNCHANGED <<pollVars, pc, ipv4, port, texts, idle, ble, lan, dropped, alone, clean>>

GlibRuns == made = Len(CharOrder)

(* Faulty variant: a reading that is None is not shown.                      *)
RunIdleKnown(ch) ==
    /\ GlibRuns
    /\ idle[ch] # <<>>
    /\ ble' = IF Head(idle[ch])[1] = 0 THEN ble ELSE [ble EXCEPT ![ch] = Head(idle[ch])]
    /\ idle' = [idle EXCEPT ![ch] = Tail(@)]
    /\ UNCHANGED <<pollVars, pc, ipv4, port, texts, made, lan, dropped, alone, clean>>

(* The GLib thread runs the closure of a notify_... or update_... .          *)
RunIdle(ch) ==
    /\ GlibRuns
    /\ idle[ch] # <<>>
    /\ ble' = [ble EXCEPT ![ch] = Head(idle[ch])]
    /\ idle' = [idle EXCEPT ![ch] = Tail(@)]
    /\ UNCHANGED <<pollVars, pc, ipv4, port, texts, made, lan, dropped, alone, clean>>

(* stop() sets the event and waits, but not for ever, for the thread.        *)
AskStop(p) ==
    /\ GlibRuns
    /\ p \in enabled \ stopSet
    /\ \A q \in enabled : p \in Before(q) => q \in stopSet
    /\ stopSet' = stopSet \cup {p}
    /\ UNCHANGED <<enabled, world, changes, sampled, last, pc, ipv4, port, texts, bleVars, lan, alone, clean>>

EndLoop(p) ==
    /\ pc[p] = "waiting"
    /\ p \in stopSet
    /\ pc' = [pc EXCEPT ![p] = "ended"]
    /\ UNCHANGED <<pollVars, ipv4, port, texts, bleVars, lan, alone, clean>>

-----------------------------------------------------------------------------
(* A poll: it reads, compares with the reading reported last, and keeps the   *)
(* reading as that before the callback runs.                                 *)
Polls(p) ==
    /\ pc[p] = "waiting"
    /\ p \notin stopSet
    /\ \A ch \in Channels : Len(idle[ch]) <= MaxIdle

Distance(a, b) == IF a > b THEN a - b ELSE b - a
Far(old, new) == old = Unknown \/ Distance(old[1], new[1]) >= Threshold

(* The first sample of a rate is only a baseline.                            *)
TakeBaseline(g) ==
    /\ Polls(g)
    /\ g \in Rates \ sampled
    /\ sampled' = sampled \cup {g}
    /\ UNCHANGED <<enabled, world, changes, stopSet, last, pc, ipv4, port, texts, bleVars, lan,
                   alone, clean>>

(* Faulty variant: every sample is kept as the last one.                     *)
PollGaugeDrifts(g) ==
    /\ Polls(g)
    /\ g \notin Rates \ sampled
    /\ last' = [last EXCEPT ![g] = world[g]]
    /\ pc' = IF Far(last[g], world[g]) THEN [pc EXCEPT ![g] = "ble"] ELSE pc
    /\ UNCHANGED <<enabled, world, changes, sampled, stopSet, ipv4, port, texts, bleVars, lan,
                   alone, clean>>

(* cpu, memory, bandwidth: a reading that is far from the one reported last is *)
(* reported.                                                                 *)
PollGauge(g) ==
    /\ Polls(g)
    /\ g \notin Rates \ sampled
    /\ Far(last[g], world[g])
    /\ last' = [last EXCEPT ![g] = world[g]]
    /\ pc' = [pc EXCEPT ![g] = "ble"]
    /\ UNCHANGED <<enabled, world, changes, sampled, stopSet, ipv4, port, texts, bleVars, lan,
                   alone, clean>>

(* network, audio: every change is reported, also one to "no link" and to     *)
(* "no answer".  (History: a publication begins.)                            *)
PollPublisher(p) ==
    /\ Polls(p)
    /\ world[p] # last[p]
    /\ last' = [last EXCEPT ![p] = world[p]]
    /\ pc' = [pc EXCEPT ![p] = "field"]
    /\ alone' = IF \A q \in Publishers \ {p} : pc[q] \notin Publishing THEN {p} ELSE {}
    /\ UNCHANGED <<enabled, world, changes, sampled, stopSet, ipv4, port, texts, bleVars, lan, clean>>

-----------------------------------------------------------------------------
(* The callbacks of main.py.  A notification looks whether the characteristic *)
(* exists; if not, the report is dropped.                                    *)
Notify(ch, value) ==
    IF Exists(ch)
      THEN idle' = [idle EXCEPT ![ch] = Append(@, value)] /\ dropped' = dropped \ {ch}
      ELSE idle' = idle /\ dropped' = dropped \cup {ch}

(* Faulty variant: what BLE cannot take is not offered to the LAN server.    *)
TellBleFirst(m) ==
    /\ pc[m] = "ble"
    /\ Notify(m, last[m])
    /\ pc' = [pc EXCEPT ![m] = IF Exists(m) THEN "lan"
                               ELSE IF m = "network" THEN "lanText" ELSE "waiting"]
    /\ UNCHANGED <<pollVars, ipv4, port, texts, made, ble, lan, alone, clean>>

TellBle(m) ==
    /\ pc[m] = "ble"
    /\ Notify(m, last[m])
    /\ pc' = [pc EXCEPT ![m] = "lan"]
    /\ UNCHANGED <<pollVars, ipv4, port, texts, made, ble, lan, alone, clean>>

TellLan(m) ==
    /\ pc[m] = "lan"
    /\ lan' = [lan EXCEPT ![m] = last[m]]
    /\ pc' = [pc EXCEPT ![m] = IF m = "network" THEN "lanText" ELSE "waiting"]
    /\ UNCHANGED <<pollVars, ipv4, port, texts, bleVars, alone, clean>>

(* Faulty variant: a port that is lost is not published.                     *)
SetFieldQuietly(p) ==
    /\ pc[p] = "field"
    /\ ipv4' = IF p = "network" THEN last[p][1] ELSE ipv4
    /\ port' = IF p = "audio" THEN last[p][1] ELSE port
    /\ pc' = [pc EXCEPT ![p] = IF p = "network" THEN "ble"
                               ELSE IF port' = 0 THEN "waiting" ELSE "lanText"]
    /\ UNCHANGED <<pollVars, texts, bleVars, lan, alone, clean>>

(* _on_network and _on_audio_port keep their part of the endpoints first.    *)
SetField(p) ==
    /\ pc[p] = "field"
    /\ ipv4' = IF p = "network" THEN last[p][1] ELSE ipv4
    /\ port' = IF p = "audio" THEN last[p][1] ELSE port
    /\ pc' = [pc EXCEPT ![p] = IF p = "network" THEN "ble" ELSE "lanText"]
    /\ UNCHANGED <<pollVars, texts, bleVars, lan, alone, clean>>

(* _publish_endpoints, which takes no lock: two texts, then four updates.    *)
BuildText(p, place, e, text, next) ==
    /\ pc[p] = place
    /\ texts' = [texts EXCEPT ![p][e] = text]
    /\ pc' = [pc EXCEPT ![p] = next]
    /\ UNCHANGED <<pollVars, ipv4, port, bleVars, lan, alone, clean>>

BuildLanText(p) == BuildText(p, "lanText", "lan_endpoint", Endpoint(ipv4, LanPort), "audioText")
BuildAudioText(p) == BuildText(p, "audioText", "audio_endpoint", Endpoint(ipv4, port), "bleLan")

EndpointToBle(p, place, e, next) ==
    /\ pc[p] = place
    /\ Notify(e, texts[p][e])
    /\ pc' = [pc EXCEPT ![p] = next]
    /\ UNCHANGED <<pollVars, ipv4, port, texts, made, ble, lan, alone, clean>>

EndpointToLan(p, place, e, next) ==
    /\ pc[p] = place
    /\ lan' = [lan EXCEPT ![e] = texts[p][e]]
    /\ pc' = [pc EXCEPT ![p] = next]
    /\ UNCHANGED <<pollVars, ipv4, port, bleVars>>

UpdateLanEndpoint(p) == EndpointToBle(p, "bleLan", "lan_endpoint", "bleAudio")
UpdateAudioEndpoint(p) == EndpointToBle(p, "bleAudio", "audio_endpoint", "lanLan")
SetLanEndpoint(p) ==
    EndpointToLan(p, "lanLan", "lan_endpoint", "lanAudio") /\ UNCHANGED <<texts, alone, clean>>

(* The texts go with the call.  (History: a publication ends.)               *)
SetAudioEndpoint(p) ==
    /\ EndpointToLan(p, "lanAudio", "audio_endpoint", "waiting")
    /\ texts' = [texts EXCEPT ![p] = NoTexts]
    /\ clean' = (p \in alone)
    /\ alone' = alone \ {p}

-----------------------------------------------------------------------------
PollerStep(p) ==
    \/ p \in Rates /\ TakeBaseline(p)
    \/ p \in Gauges /\ PollGauge(p)
    \/ p \in Publishers /\ PollPublisher(p)
    \/ p \in Monitors /\ TellBle(p)
    \/ p \in Monitors /\ TellLan(p)
    \/ p \in Publishers /\ SetField(p)
    \/ p \in Publishers /\ BuildLanText(p)
    \/ p \in Publishers /\ BuildAudioText(p)
    \/ p \in Publishers /\ UpdateLanEndpoint(p)
    \/ p \in Publishers /\ UpdateAudioEndpoint(p)
    \/ p \in Publishers /\ SetLanEndpoint(p)
    \/ p \in Publishers /\ SetAudioEndpoint(p)
    \/ EndLoop(p)

GlibStep == MakeCharacteristic \/ \E ch \in Channels : RunIdle(ch)

Next ==
    \/ \E p \in Pollers : Change(p) \/ Start(p) \/ AskStop(p) \/ PollerStep(p)
    \/ GlibStep

Spec == Init /\ [][Next]_vars

(* The pollers are started and poll on, the BLE thread gets its objects made *)
(* and its idle callbacks run.  Nothing makes the world change or anybody     *)
(* stop the bridge.                                                          *)
FairSpec ==
    /\ Spec
    /\ WF_vars(\E p \in Pollers : Start(p))
    /\ \A p \in Pollers : WF_vars(PollerStep(p))
    /\ WF_vars(GlibStep)

-----------------------------------------------------------------------------
(* Between two polls the LAN cache holds what the provider reported last, so  *)
(* that suppressing an unchanged reading hides nothing from a LAN client.    *)
LanShowsLast ==
    \A m \in Monitors : pc[m] \notin Publishing => lan[m] = last[m]

(* Once the characteristics exist and every update is carried out, each holds *)
(* what its provider reported last, unless it did not exist at that report   *)
(* (network.py:8-11: the characteristic "caches the latest snapshot").        *)
BleShowsLast ==
    GlibRuns =>
        \A m \in Monitors \ dropped :
            pc[m] \notin Publishing /\ idle[m] = <<>> => ble[m] = last[m]

(* With no publication under way, the endpoints told over either transport    *)
(* are those of the current address and port, if the publication that ended   *)
(* last ran beside no other (main.py:256-262 reads two fields, then makes four *)
(* updates, without a lock).                                                 *)
EndpointOf(e) == Endpoint(ipv4, IF e = "lan_endpoint" THEN LanPort ELSE port)

EndpointsCurrent ==
    clean /\ (\A p \in Publishers : pc[p] \notin Publishing) =>
        \A e \in Endpoints :
            /\ lan[e] = EndpointOf(e)
            /\ GlibRuns /\ idle[e] = <<>> /\ e \notin dropped => ble[e] = EndpointOf(e)

(* A world that has come to rest is shown: within the threshold for a gauge,  *)
(* however slowly it drifted there (cpu.py:133-138), exactly for the network. *)
(* Over BLE only by a characteristic that existed at its last report: a first *)
(* report that was dropped is not made up for (main.py:170-179).             *)
Shows(shown, m) == shown = world[m] \/ (m \in Gauges /\ ~Far(shown, world[m]))

WorldIsShown ==
    <>[](\A m \in Monitors \cap enabled :
            m \in stopSet \/ (Shows(lan[m], m) /\ (m \in dropped \/ Shows(ble[m], m))))
=============================================================================
