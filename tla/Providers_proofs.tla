--------------------------- MODULE Providers_proofs ---------------------------
(* Theorems about Providers, for any set-up, threshold, readings and queues. *)
EXTENDS Providers, SequenceTheorems, TLAPS

USE DEF pollVars, bleVars

-----------------------------------------------------------------------------
(* Readings, texts and the positions of a poller.                            *)

LEMMA PairsArePairs ==
    /\ Unknown \in Pairs
    /\ Levels \subseteq Pairs /\ Links \subseteq Pairs /\ Ports \subseteq Pairs
    /\ \A a, n \in Nat : Endpoint(a, n) \in Pairs
    /\ \A r \in Pairs : r[1] \in Nat
<1>1. Unknown \in Pairs /\ \A r \in Pairs : r[1] \in Nat
  BY DEF Unknown, Pairs
<1>2. Levels \subseteq Pairs /\ Links \subseteq Pairs /\ Ports \subseteq Pairs
  BY ProvidersAssumption DEF Levels, Links, Ports, Pairs
<1>3. ASSUME NEW a \in Nat, NEW n \in Nat PROVE Endpoint(a, n) \in Pairs
  BY <1>1 DEF Endpoint, Pairs
<1>. QED
  BY <1>1, <1>2, <1>3

LEMMA ReadingsArePairs == \A p \in Pollers : Readings(p) \subseteq Pairs
BY PairsArePairs DEF Readings

LEMMA SomePollers ==
    /\ Rates \subseteq Gauges /\ Gauges \subseteq Monitors
    /\ Monitors \subseteq Pollers /\ Publishers \subseteq Pollers
    /\ Monitors \subseteq Channels /\ Endpoints \subseteq Channels
    /\ Monitors \cap Endpoints = {}
    /\ Gauges \cap Publishers = {}
    /\ \A m \in Monitors : m \in Gauges \/ m = "network"
    /\ \A p \in Publishers : p = "network" \/ p = "audio"
    /\ "network" \notin Gauges /\ "audio" \notin Gauges
BY DEF Rates, Gauges, Monitors, Pollers, Publishers, Channels, Endpoints

(* Where a poller of each kind may be. *)
LEMMA PlacesOfPollers ==
    /\ \A g \in Gauges : Places(g) = {"off", "waiting", "ended", "ble", "lan"}
    /\ Places("network") = {"off", "waiting", "ended"} \cup Publishing
    /\ Places("audio") = {"off", "waiting", "ended"} \cup (Publishing \ {"ble", "lan"})
BY DEF Places, Gauges

LEMMA PlacesArePlaces ==
    \A p \in Pollers : Places(p) \subseteq Publishing \cup {"off", "waiting", "ended"}
BY PlacesOfPollers DEF Pollers, Publishers, Publishing

(* A poller goes to one of its own places. *)
LEMMA GoesTo ==
    ASSUME TypeOK, NEW p \in Pollers, NEW x \in Places(p), pc' = [pc EXCEPT ![p] = x]
    PROVE  /\ pc' \in [Pollers -> Publishing \cup {"off", "waiting", "ended"}]
           /\ \A q \in Pollers : pc'[q] \in Places(q)
BY PlacesArePlaces DEF TypeOK

(* What a report does to the queues. *)
LEMMA NotifyTypes ==
    ASSUME TypeOK, NEW ch \in Channels, NEW value \in Pairs, Notify(ch, value)
    PROVE  idle' \in [Channels -> Seq(Pairs)] /\ dropped' \in SUBSET Channels
<1>1. idle \in [Channels -> Seq(Pairs)] /\ dropped \in SUBSET Channels
  BY DEF TypeOK
<1>2. Append(idle[ch], value) \in Seq(Pairs)
  BY <1>1
<1>3. CASE Exists(ch)
  BY <1>1, <1>2, <1>3 DEF Notify
<1>4. CASE ~Exists(ch)
  BY <1>1, <1>4 DEF Notify
<1>. QED
  BY <1>3, <1>4

-----------------------------------------------------------------------------
LEMMA InitTypeOK == Init => TypeOK
<1>. SUFFICES ASSUME Init PROVE TypeOK
  OBVIOUS
<1>1. world \in [Pollers -> Pairs]
  BY PairsArePairs, ReadingsArePairs DEF Init
<1>2. last \in [Pollers -> Pairs] /\ ble \in [Channels -> Pairs] /\ lan \in [Channels -> Pairs]
  BY PairsArePairs DEF Init
<1>3. texts \in [Publishers -> [Endpoints -> Pairs]]
  BY PairsArePairs DEF Init, NoTexts
<1>4. idle \in [Channels -> Seq(Pairs)]
  BY DEF Init
<1>5. /\ pc \in [Pollers -> Publishing \cup {"off", "waiting", "ended"}]
      /\ \A p \in Pollers : pc[p] \in Places(p)
  BY DEF Init, Places
<1>6. made \in 0..Len(CharOrder)
  BY DEF Init, CharOrder
<1>. QED
  BY <1>1, <1>2, <1>3, <1>4, <1>5, <1>6 DEF Init, TypeOK

LEMMA PollTypes ==
    ASSUME TypeOK, NEW p \in Pollers,
           \/ p \in Rates /\ TakeBaseline(p)
           \/ p \in Gauges /\ PollGauge(p)
           \/ p \in Publishers /\ PollPublisher(p)
    PROVE  TypeOK'
<1>1. CASE p \in Rates /\ TakeBaseline(p)
  BY <1>1 DEF TakeBaseline, TypeOK
<1>2. world[p] \in Pairs /\ last \in [Pollers -> Pairs]
  BY DEF TypeOK
<1>3. CASE p \in Gauges /\ PollGauge(p)
  <2>1. "ble" \in Places(p)
    BY <1>3, PlacesOfPollers
  <2>. QED
    BY <1>2, <1>3, <2>1, GoesTo DEF PollGauge, TypeOK
<1>4. CASE p \in Publishers /\ PollPublisher(p)
  <2>1. "field" \in Places(p)
    BY <1>4, PlacesOfPollers, SomePollers DEF Publishing
  <2>2. alone' \in SUBSET Publishers
    BY <1>4 DEF PollPublisher
  <2>. QED
    BY <1>2, <1>4, <2>1, <2>2, GoesTo DEF PollPublisher, TypeOK
<1>. QED
  BY <1>1, <1>3, <1>4

LEMMA TellTypes ==
    ASSUME TypeOK, NEW m \in Monitors, TellBle(m) \/ TellLan(m)
    PROVE  TypeOK'
<1>1. m \in Pollers /\ m \in Channels /\ last[m] \in Pairs
  BY SomePollers DEF TypeOK
<1>2. {"waiting", "lan"} \subseteq Places(m) /\ (m = "network" => "lanText" \in Places(m))
  BY PlacesOfPollers, SomePollers DEF Publishing
<1>3. CASE TellBle(m)
  <2>1. Notify(m, last[m]) /\ pc' = [pc EXCEPT ![m] = "lan"]
    BY <1>3 DEF TellBle
  <2>2. idle' \in [Channels -> Seq(Pairs)] /\ dropped' \in SUBSET Channels
    BY <1>1, <2>1, NotifyTypes
  <2>. QED
    BY <1>1, <1>2, <1>3, <2>1, <2>2, GoesTo DEF TellBle, TypeOK
<1>4. CASE TellLan(m)
  <2>1. PICK x \in Places(m) : pc' = [pc EXCEPT ![m] = x]
    BY <1>2, <1>4 DEF TellLan
  <2>2. lan' \in [Channels -> Pairs]
    BY <1>1, <1>4 DEF TellLan, TypeOK
  <2>. QED
    BY <1>1, <1>4, <2>1, <2>2, GoesTo DEF TellLan, TypeOK
<1>. QED
  BY <1>3, <1>4

(* The steps of a publication. *)
PublishStep(p) ==
    \/ SetField(p)
    \/ BuildLanText(p)
    \/ BuildAudioText(p)
    \/ UpdateLanEndpoint(p)
    \/ UpdateAudioEndpoint(p)
    \/ SetLanEndpoint(p)
    \/ SetAudioEndpoint(p)

LEMMA PublishTypes ==
    ASSUME TypeOK, NEW p \in Publishers, PublishStep(p)
    PROVE  TypeOK'
<1>1. p \in Pollers /\ last[p] \in Pairs /\ last[p][1] \in Nat
  BY SomePollers, PairsArePairs DEF TypeOK
<1>2. /\ (Publishing \ {"ble", "lan"}) \cup {"waiting"} \subseteq Places(p)
      /\ p = "network" => "ble" \in Places(p)
  BY PlacesOfPollers, SomePollers DEF Publishing
<1>3. "lan_endpoint" \in Endpoints /\ "audio_endpoint" \in Endpoints /\ Endpoints \subseteq Channels
  BY DEF Endpoints, Channels
<1>4. CASE SetField(p)
  <2>1. PICK x \in Places(p) : pc' = [pc EXCEPT ![p] = x]
    BY <1>2, <1>4 DEF SetField, Publishing
  <2>2. ipv4' \in Nat /\ port' \in Nat
    BY <1>1, <1>4 DEF SetField, TypeOK
  <2>. QED
    BY <1>1, <1>4, <2>1, <2>2, GoesTo DEF SetField, TypeOK
<1>5. ASSUME NEW place, NEW e \in Endpoints, NEW text \in Pairs, NEW next \in Places(p),
             BuildText(p, place, e, text, next)
      PROVE  TypeOK'
  <2>1. texts' \in [Publishers -> [Endpoints -> Pairs]]
    BY <1>5 DEF BuildText, TypeOK
  <2>. QED
    BY <1>1, <1>5, <2>1, GoesTo DEF BuildText, TypeOK
<1>6. CASE BuildLanText(p) \/ BuildAudioText(p)
  <2>1. Endpoint(ipv4, LanPort) \in Pairs /\ Endpoint(ipv4, port) \in Pairs
    BY PairsArePairs, ProvidersAssumption DEF TypeOK
  <2>2. "audioText" \in Places(p) /\ "bleLan" \in Places(p)
    BY <1>2 DEF Publishing
  <2>. QED
    BY <1>3, <1>5, <1>6, <2>1, <2>2 DEF BuildLanText, BuildAudioText
<1>7. ASSUME NEW place, NEW e \in Endpoints, NEW next \in Places(p), EndpointToBle(p, place, e, next)
      PROVE  TypeOK'
  <2>1. texts[p][e] \in Pairs
    BY DEF TypeOK
  <2>2. idle' \in [Channels -> Seq(Pairs)] /\ dropped' \in SUBSET Channels
    BY <1>3, <1>7, <2>1, NotifyTypes DEF EndpointToBle
  <2>. QED
    BY <1>1, <1>7, <2>2, GoesTo DEF EndpointToBle, TypeOK
<1>8. CASE UpdateLanEndpoint(p) \/ UpdateAudioEndpoint(p)
  <2>1. "bleAudio" \in Places(p) /\ "lanLan" \in Places(p)
    BY <1>2 DEF Publishing
  <2>. QED
    BY <1>3, <1>7, <1>8, <2>1 DEF UpdateLanEndpoint, UpdateAudioEndpoint
<1>9. ASSUME NEW place, NEW e \in Endpoints, NEW next \in Places(p),
             EndpointToLan(p, place, e, next),
             texts' \in [Publishers -> [Endpoints -> Pairs]],
             clean' \in BOOLEAN, alone' \in SUBSET Publishers
      PROVE  TypeOK'
  <2>1. texts[p][e] \in Pairs /\ e \in Channels
    BY <1>3 DEF TypeOK
  <2>2. lan' \in [Channels -> Pairs]
    BY <1>9, <2>1 DEF EndpointToLan, TypeOK
  <2>. QED
    BY <1>1, <1>9, <2>2, GoesTo DEF EndpointToLan, TypeOK
<1>10. CASE SetLanEndpoint(p)
  <2>1. "lanAudio" \in Places(p)
    BY <1>2 DEF Publishing
  <2>2. /\ texts' \in [Publishers -> [Endpoints -> Pairs]]
        /\ clean' \in BOOLEAN
        /\ alone' \in SUBSET Publishers
    BY <1>10 DEF SetLanEndpoint, TypeOK
  <2>. QED
    BY <1>3, <1>9, <1>10, <2>1, <2>2 DEF SetLanEndpoint
<1>11. CASE SetAudioEndpoint(p)
  <2>1. "waiting" \in Places(p)
    BY <1>2
  <2>2. texts' \in [Publishers -> [Endpoints -> Pairs]]
    BY <1>11, PairsArePairs DEF SetAudioEndpoint, NoTexts, TypeOK
  <2>3. clean' \in BOOLEAN /\ alone' \in SUBSET Publishers
    BY <1>11 DEF SetAudioEndpoint, TypeOK
  <2>. QED
    BY <1>3, <1>9, <1>11, <2>1, <2>2, <2>3 DEF SetAudioEndpoint
<1>. QED
  BY <1>4, <1>6, <1>8, <1>10, <1>11 DEF PublishStep

LEMMA OtherTypes ==
    ASSUME TypeOK, GlibStep \/ \E p \in Pollers : Change(p) \/ Start(p) \/ AskStop(p) \/ EndLoop(p)
    PROVE  TypeOK'
<1>1. CASE MakeCharacteristic
  BY <1>1 DEF MakeCharacteristic, TypeOK, CharOrder
<1>2. ASSUME NEW ch \in Channels, RunIdle(ch) PROVE TypeOK'
  <2>1. idle[ch] \in Seq(Pairs) /\ idle[ch] # <<>>
    BY <1>2 DEF RunIdle, TypeOK
  <2>2. Head(idle[ch]) \in Pairs /\ Tail(idle[ch]) \in Seq(Pairs)
    BY <2>1
  <2>. QED
    BY <1>2, <2>2 DEF RunIdle, TypeOK
<1>3. ASSUME NEW p \in Pollers, Change(p) PROVE TypeOK'
  <2>1. PICK r \in Readings(p) : world' = [world EXCEPT ![p] = r]
    BY <1>3 DEF Change
  <2>2. world' \in [Pollers -> Pairs]
    BY <2>1, ReadingsArePairs DEF TypeOK
  <2>. QED
    BY <1>3, <2>2 DEF Change, TypeOK
<1>4. ASSUME NEW p \in Pollers, Start(p) \/ EndLoop(p) PROVE TypeOK'
  <2>1. "waiting" \in Places(p) /\ "ended" \in Places(p)
    BY DEF Places
  <2>. QED
    BY <1>4, <2>1, GoesTo DEF Start, EndLoop, TypeOK
<1>5. ASSUME NEW p \in Pollers, AskStop(p) PROVE TypeOK'
  BY <1>5 DEF AskStop, TypeOK
<1>. QED
  BY <1>1, <1>2, <1>3, <1>4, <1>5 DEF GlibStep

LEMMA NextTypeOK == TypeOK /\ [Next]_vars => TypeOK'
<1>. SUFFICES ASSUME TypeOK, [Next]_vars PROVE TypeOK'
  OBVIOUS
<1>1. CASE UNCHANGED vars
  BY <1>1 DEF vars, TypeOK
<1>2. ASSUME NEW p \in Pollers, PollerStep(p) PROVE TypeOK'
  <2>1. CASE \/ p \in Rates /\ TakeBaseline(p)
             \/ p \in Gauges /\ PollGauge(p)
             \/ p \in Publishers /\ PollPublisher(p)
    BY <2>1, PollTypes
  <2>2. CASE p \in Monitors /\ (TellBle(p) \/ TellLan(p))
    BY <2>2, TellTypes
  <2>3. CASE p \in Publishers /\ PublishStep(p)
    BY <2>3, PublishTypes
  <2>4. CASE EndLoop(p)
    BY <2>4, OtherTypes
  <2>. QED
    BY <1>2, <2>1, <2>2, <2>3, <2>4 DEF PollerStep, PublishStep
<1>. QED
  BY <1>1, <1>2, OtherTypes DEF Next

(* The pollers, the bridge's callbacks and the GLib thread keep their state in *)
(* its type: a gauge never publishes endpoints, and the port of the PCM        *)
(* server never tells a monitor (main.py:220-262).                           *)
THEOREM TypeCorrect == Spec => []TypeOK
<1>1. Init => TypeOK
  BY InitTypeOK
<1>2. TypeOK /\ [Next]_vars => TypeOK'
  BY NextTypeOK
<1>. QED
  BY <1>1, <1>2, PTL DEF Spec

-----------------------------------------------------------------------------
(* A monitor that is past the callback's first part has told the LAN server;   *)
(* one that is past the one before has told BLE, or could not.                *)
LanInv ==
    \A m \in Monitors : pc[m] \notin {"field", "ble", "lan"} => lan[m] = last[m]

(* What a characteristic will hold once its updates are carried out. *)
Latest(ch) == IF idle[ch] = <<>> THEN ble[ch] ELSE idle[ch][Len(idle[ch])]

BleInv ==
    \A m \in Monitors : pc[m] \notin {"field", "ble"} /\ m \notin dropped => Latest(m) = last[m]

(* A report that is not dropped is what the characteristic will hold, and no *)
(* other characteristic hears of it.                                         *)
LEMMA NotifyIsLatest ==
    ASSUME TypeOK, NEW ch \in Channels, NEW value \in Pairs, Notify(ch, value), UNCHANGED ble
    PROVE  /\ ch \notin dropped' => Latest(ch)' = value
           /\ \A c \in Channels \ {ch} : Latest(c)' = Latest(c) /\ (c \in dropped' <=> c \in dropped)
<1>1. idle[ch] \in Seq(Pairs) /\ idle \in [Channels -> Seq(Pairs)]
  BY DEF TypeOK
<1>2. \A c \in Channels \ {ch} : Latest(c)' = Latest(c) /\ (c \in dropped' <=> c \in dropped)
  BY <1>1 DEF Notify, Latest
<1>3. CASE Exists(ch)
  <2>1. idle'[ch] = Append(idle[ch], value)
    BY <1>1, <1>3 DEF Notify
  <2>2. Len(Append(idle[ch], value)) = Len(idle[ch]) + 1
    BY <1>1
  <2>3. Append(idle[ch], value)[Len(idle[ch]) + 1] = value
    BY <1>1
  <2>4. Len(idle'[ch]) = Len(idle[ch]) + 1
    BY <2>1, <2>2
  <2>5. idle'[ch][Len(idle'[ch])] = value
    BY <2>1, <2>3, <2>4, Zenon
  <2>6. idle'[ch] # <<>>
    BY <1>1, <2>1, AppendProperties
  <2>. QED
    BY <1>2, <2>5, <2>6 DEF Latest
<1>4. CASE ~Exists(ch)
  BY <1>2, <1>4 DEF Notify
<1>. QED
  BY <1>3, <1>4

(* A monitor reports: all others keep their part of both invariants. *)
LEMMA OthersKeep ==
    ASSUME TypeOK, LanInv, BleInv, NEW p \in Pollers, NEW x,
           pc' = [pc EXCEPT ![p] = x],
           \A q \in Pollers \ {p} : last'[q] = last[q],
           \A m \in Monitors \ {p} : lan'[m] = lan[m] /\ idle'[m] = idle[m] /\ ble'[m] = ble[m],
           dropped \cap (Monitors \ {p}) \subseteq dropped'
    PROVE  \A m \in Monitors \ {p} :
              /\ pc'[m] \notin {"field", "ble", "lan"} => lan'[m] = last'[m]
              /\ pc'[m] \notin {"field", "ble"} /\ m \notin dropped' => Latest(m)' = last'[m]
<1>. SUFFICES ASSUME NEW m \in Monitors \ {p}
              PROVE  /\ pc'[m] \notin {"field", "ble", "lan"} => lan'[m] = last'[m]
                     /\ pc'[m] \notin {"field", "ble"} /\ m \notin dropped'
                          => Latest(m)' = last'[m]
  OBVIOUS
<1>1. m \in Pollers /\ m # p
  BY SomePollers
<1>2. pc'[m] = pc[m] /\ last'[m] = last[m] /\ lan'[m] = lan[m]
  BY <1>1 DEF TypeOK
<1>3. Latest(m)' = Latest(m)
  BY DEF Latest
<1>4. m \notin dropped' => m \notin dropped
  OBVIOUS
<1>. QED
  BY <1>2, <1>3, <1>4 DEF LanInv, BleInv

LEMMA TellKeeps ==
    ASSUME TypeOK, LanInv, BleInv, NEW m \in Monitors, TellBle(m) \/ TellLan(m)
    PROVE  LanInv' /\ BleInv'
<1>1. m \in Pollers /\ m \in Channels /\ idle \in [Channels -> Seq(Pairs)] /\ lan \in [Channels -> Pairs]
      /\ pc \in [Pollers -> Publishing \cup {"off", "waiting", "ended"}] /\ last[m] \in Pairs
      /\ Monitors \subseteq Channels
  BY SomePollers DEF TypeOK
<1>2. CASE TellBle(m)
  <2>1. /\ pc' = [pc EXCEPT ![m] = "lan"]
        /\ UNCHANGED <<last, lan, ble>>
        /\ Notify(m, last[m])
    BY <1>2 DEF TellBle
  <2>2. \A n \in Monitors \ {m} : idle'[n] = idle[n]
    BY <1>1, <2>1 DEF Notify
  <2>3. dropped \cap (Monitors \ {m}) \subseteq dropped'
    BY <2>1 DEF Notify
  <2>4. m \notin dropped' => Latest(m)' = last'[m]
    BY <1>1, <2>1, NotifyIsLatest
  <2>5. pc'[m] = "lan"
    BY <1>1, <2>1
  <2>6. \A n \in Monitors \ {m} :
           /\ pc'[n] \notin {"field", "ble", "lan"} => lan'[n] = last'[n]
           /\ pc'[n] \notin {"field", "ble"} /\ n \notin dropped' => Latest(n)' = last'[n]
    BY <1>1, <2>1, <2>2, <2>3, OthersKeep
  <2>. QED
    BY <2>4, <2>5, <2>6 DEF LanInv, BleInv
<1>3. CASE TellLan(m)
  <2>1. /\ pc[m] = "lan"
        /\ lan' = [lan EXCEPT ![m] = last[m]]
        /\ UNCHANGED <<last, idle, ble, dropped>>
    BY <1>3 DEF TellLan
  <2>2. PICK x : pc' = [pc EXCEPT ![m] = x]
    BY <1>3 DEF TellLan
  <2>3. \A n \in Monitors \ {m} : lan'[n] = lan[n]
    BY <1>1, <2>1
  <2>4. lan'[m] = last'[m] /\ (m \notin dropped' => Latest(m)' = last'[m])
    BY <1>1, <2>1 DEF Latest, BleInv
  <2>5. \A n \in Monitors \ {m} :
           /\ pc'[n] \notin {"field", "ble", "lan"} => lan'[n] = last'[n]
           /\ pc'[n] \notin {"field", "ble"} /\ n \notin dropped' => Latest(n)' = last'[n]
    BY <1>1, <2>1, <2>2, <2>3, OthersKeep
  <2>. QED
    BY <2>4, <2>5 DEF LanInv, BleInv
<1>. QED
  BY <1>2, <1>3

LEMMA PollKeeps ==
    ASSUME TypeOK, LanInv, BleInv, NEW p \in Pollers,
           \/ p \in Rates /\ TakeBaseline(p)
           \/ p \in Gauges /\ PollGauge(p)
           \/ p \in Publishers /\ PollPublisher(p)
    PROVE  LanInv' /\ BleInv'
<1>1. CASE p \in Rates /\ TakeBaseline(p)
  BY <1>1 DEF TakeBaseline, LanInv, BleInv, Latest
<1>2. ASSUME NEW x \in {"field", "ble"}, pc' = [pc EXCEPT ![p] = x],
             last' = [last EXCEPT ![p] = world[p]], UNCHANGED <<lan, ble, idle, dropped>>
      PROVE  LanInv' /\ BleInv'
  <2>1. pc'[p] = x /\ \A q \in Pollers \ {p} : last'[q] = last[q]
    BY <1>2 DEF TypeOK
  <2>2. \A n \in Monitors \ {p} :
           /\ pc'[n] \notin {"field", "ble", "lan"} => lan'[n] = last'[n]
           /\ pc'[n] \notin {"field", "ble"} /\ n \notin dropped' => Latest(n)' = last'[n]
    BY <1>2, <2>1, OthersKeep
  <2>. QED
    BY <1>2, <2>1, <2>2 DEF LanInv, BleInv
<1>3. CASE p \in Gauges /\ PollGauge(p)
  BY <1>2, <1>3 DEF PollGauge
<1>4. CASE p \in Publishers /\ PollPublisher(p)
  BY <1>2, <1>4 DEF PollPublisher
<1>. QED
  BY <1>1, <1>3, <1>4

(* A publication touches no monitor's values; network's comes after its own. *)
LEMMA PublishKeeps ==
    ASSUME TypeOK, LanInv, BleInv, NEW p \in Publishers, PublishStep(p)
    PROVE  LanInv' /\ BleInv'
<1>1. p \in Pollers /\ \A m \in Monitors : m \notin Endpoints /\ m \in Channels
  BY SomePollers
<1>2. /\ "lan_endpoint" \in Endpoints /\ "audio_endpoint" \in Endpoints
      /\ p \in Monitors => p = "network"
  BY SomePollers DEF Endpoints
<1>3. UNCHANGED last
  BY DEF PublishStep, SetField, BuildLanText, BuildAudioText, BuildText, UpdateLanEndpoint,
         UpdateAudioEndpoint, EndpointToBle, SetLanEndpoint, SetAudioEndpoint, EndpointToLan
<1>4. \A m \in Monitors : idle'[m] = idle[m] /\ ble'[m] = ble[m] /\ lan'[m] = lan[m]
  <2>1. ASSUME NEW place, NEW e \in Endpoints, NEW next, EndpointToBle(p, place, e, next)
        PROVE  \A m \in Monitors : idle'[m] = idle[m] /\ ble'[m] = ble[m] /\ lan'[m] = lan[m]
    BY <1>1, <2>1 DEF EndpointToBle, Notify, TypeOK
  <2>2. ASSUME NEW place, NEW e \in Endpoints, NEW next, EndpointToLan(p, place, e, next)
        PROVE  \A m \in Monitors : idle'[m] = idle[m] /\ ble'[m] = ble[m] /\ lan'[m] = lan[m]
    BY <1>1, <2>2 DEF EndpointToLan, TypeOK
  <2>3. CASE UpdateLanEndpoint(p) \/ UpdateAudioEndpoint(p)
    BY <1>2, <2>1, <2>3 DEF UpdateLanEndpoint, UpdateAudioEndpoint
  <2>4. CASE SetLanEndpoint(p) \/ SetAudioEndpoint(p)
    BY <1>2, <2>2, <2>4 DEF SetLanEndpoint, SetAudioEndpoint
  <2>5. CASE SetField(p) \/ BuildLanText(p) \/ BuildAudioText(p)
    BY <2>5 DEF SetField, BuildLanText, BuildAudioText, BuildText
  <2>. QED
    BY <2>3, <2>4, <2>5 DEF PublishStep
<1>5. \A m \in Monitors : m \notin dropped' => m \notin dropped
  <2>1. ASSUME NEW e \in Endpoints, Notify(e, texts[p][e])
        PROVE  \A m \in Monitors : m \notin dropped' => m \notin dropped
    BY <1>1, <2>1 DEF Notify
  <2>2. CASE UpdateLanEndpoint(p) \/ UpdateAudioEndpoint(p)
    BY <1>2, <2>1, <2>2 DEF UpdateLanEndpoint, UpdateAudioEndpoint, EndpointToBle
  <2>3. CASE ~(UpdateLanEndpoint(p) \/ UpdateAudioEndpoint(p))
    BY <2>3 DEF PublishStep, SetField, BuildLanText, BuildAudioText, BuildText, SetLanEndpoint,
                SetAudioEndpoint, EndpointToLan
  <2>. QED
    BY <2>2, <2>3
<1>6. \A m \in Monitors :
         \/ pc'[m] = pc[m]
         \/ pc[m] \notin {"field", "ble", "lan"}
         \/ pc'[m] \in {"field", "ble"}
  <2>1. CASE p \notin Monitors
    <3>1. PICK x : pc' = [pc EXCEPT ![p] = x]
      BY DEF PublishStep, SetField, BuildLanText, BuildAudioText, BuildText, UpdateLanEndpoint,
             UpdateAudioEndpoint, EndpointToBle, SetLanEndpoint, SetAudioEndpoint, EndpointToLan
    <3>. QED
      BY <2>1, <3>1, SomePollers DEF TypeOK
  <2>2. CASE SetField(p) /\ p = "network"
    BY <1>1, <2>2, SomePollers DEF SetField, TypeOK
  <2>3. CASE ~SetField(p)
    <3>1. PICK x : pc' = [pc EXCEPT ![p] = x] /\ pc[p] \notin {"field", "ble", "lan"}
      BY <2>3 DEF PublishStep, BuildLanText, BuildAudioText, BuildText, UpdateLanEndpoint,
             UpdateAudioEndpoint, EndpointToBle, SetLanEndpoint, SetAudioEndpoint, EndpointToLan
    <3>. QED
      BY <3>1, SomePollers DEF TypeOK
  <2>. QED
    BY <1>2, <2>1, <2>2, <2>3
<1>7. \A m \in Monitors : Latest(m)' = Latest(m)
  BY <1>4 DEF Latest
<1>. QED
  BY <1>3, <1>4, <1>5, <1>6, <1>7 DEF LanInv, BleInv

(* The last update of a queue stays the last when the first is carried out. *)
LEMMA LastOfTail ==
    ASSUME NEW q \in Seq(Pairs), q # <<>>
    PROVE  IF Tail(q) = <<>> THEN Head(q) = q[Len(q)] ELSE Tail(q)[Len(Tail(q))] = q[Len(q)]
<1>1. Len(q) \in Nat /\ Len(q) # 0
  BY EmptySeq
<1>2. /\ Tail(q) \in Seq(Pairs)
      /\ Len(Tail(q)) = Len(q) - 1
      /\ \A i \in 1..Len(Tail(q)) : Tail(q)[i] = q[i + 1]
  BY HeadTailProperties
<1>3. Head(q) = q[1]
  OBVIOUS
<1>4. CASE Tail(q) = <<>>
  <2>1. Len(Tail(q)) = 0
    BY <1>4, EmptySeq, Zenon
  <2>2. Len(q) = 1
    <3>1. Len(q) - 1 = 0
      BY <1>2, <2>1, Zenon
    <3>. QED
      BY <1>1, <3>1
  <2>. QED
    BY <1>3, <1>4, <2>2
<1>5. CASE Tail(q) # <<>>
  <2>1. Len(Tail(q)) # 0
    BY <1>2, <1>5, EmptySeq
  <2>. QED
    BY <1>1, <1>2, <1>5, <2>1
<1>. QED
  BY <1>4, <1>5

(* To carry out an update changes nothing of what will be held in the end. *)
LEMMA RunIdleKeepsLatest ==
    ASSUME TypeOK, NEW ch \in Channels, RunIdle(ch)
    PROVE  \A c \in Channels : Latest(c)' = Latest(c)
<1>1. idle[ch] \in Seq(Pairs) /\ idle[ch] # <<>>
  BY DEF RunIdle, TypeOK
<1>2. idle'[ch] = Tail(idle[ch]) /\ ble'[ch] = Head(idle[ch])
  BY DEF RunIdle, TypeOK
<1>3. Latest(ch)' = Latest(ch)
  BY <1>1, <1>2, LastOfTail DEF Latest
<1>4. \A c \in Channels \ {ch} : idle'[c] = idle[c] /\ ble'[c] = ble[c]
  BY DEF RunIdle, TypeOK
<1>. QED
  BY <1>3, <1>4 DEF Latest

LEMMA OtherKeeps ==
    ASSUME TypeOK, LanInv, BleInv,
           GlibStep \/ \E p \in Pollers : Change(p) \/ Start(p) \/ AskStop(p) \/ EndLoop(p)
    PROVE  LanInv' /\ BleInv'
<1>1. CASE MakeCharacteristic
  BY <1>1 DEF MakeCharacteristic, LanInv, BleInv, Latest
<1>2. ASSUME NEW ch \in Channels, RunIdle(ch) PROVE LanInv' /\ BleInv'
  <2>1. \A m \in Monitors : Latest(m)' = Latest(m)
    BY <1>2, SomePollers, RunIdleKeepsLatest
  <2>2. UNCHANGED <<pc, last, lan, dropped>>
    BY <1>2 DEF RunIdle
  <2>. QED
    BY <2>1, <2>2 DEF LanInv, BleInv
<1>3. ASSUME NEW p \in Pollers, Change(p) \/ AskStop(p) PROVE LanInv' /\ BleInv'
  BY <1>3 DEF Change, AskStop, LanInv, BleInv, Latest
<1>4. ASSUME NEW p \in Pollers, Start(p) \/ EndLoop(p) PROVE LanInv' /\ BleInv'
  <2>1. UNCHANGED <<last, lan, idle, ble, dropped>> /\ pc[p] \notin {"field", "ble", "lan"}
    BY <1>4 DEF Start, EndLoop
  <2>2. \A m \in Monitors : pc'[m] = pc[m] \/ pc[m] \notin {"field", "ble", "lan"}
    BY <1>4, SomePollers DEF Start, EndLoop, TypeOK
  <2>. QED
    BY <2>1, <2>2 DEF LanInv, BleInv, Latest
<1>. QED
  BY <1>1, <1>2, <1>3, <1>4 DEF GlibStep

LEMMA NextKeeps == TypeOK /\ LanInv /\ BleInv /\ [Next]_vars => LanInv' /\ BleInv'
<1>. SUFFICES ASSUME TypeOK, LanInv, BleInv, [Next]_vars PROVE LanInv' /\ BleInv'
  OBVIOUS
<1>1. CASE UNCHANGED vars
  BY <1>1 DEF vars, LanInv, BleInv, Latest
<1>2. ASSUME NEW p \in Pollers, PollerStep(p) PROVE LanInv' /\ BleInv'
  <2>1. CASE \/ p \in Rates /\ TakeBaseline(p)
             \/ p \in Gauges /\ PollGauge(p)
             \/ p \in Publishers /\ PollPublisher(p)
    BY <2>1, PollKeeps
  <2>2. CASE p \in Monitors /\ (TellBle(p) \/ TellLan(p))
    BY <2>2, TellKeeps
  <2>3. CASE p \in Publishers /\ PublishStep(p)
    BY <2>3, PublishKeeps
  <2>4. CASE EndLoop(p)
    BY <2>4, OtherKeeps
  <2>. QED
    BY <1>2, <2>1, <2>2, <2>3, <2>4 DEF PollerStep, PublishStep
<1>. QED
  BY <1>1, <1>2, OtherKeeps DEF Next

LEMMA InitKeeps == Init => LanInv /\ BleInv
BY SomePollers DEF Init, LanInv, BleInv, Latest

(* Between two polls the LAN cache holds what each provider reported last,     *)
(* whatever the thresholds, the other pollers and the shutdown do.           *)
THEOREM CacheIsLastReport == Spec => []LanShowsLast
<1>1. LanInv => LanShowsLast
  BY DEF LanInv, LanShowsLast, Publishing
<1>. QED
  BY <1>1, InitKeeps, NextKeeps, TypeCorrect, PTL DEF Spec

(* So does a characteristic with no update waiting that existed at the last    *)
(* report, for any number of updates that wait.                              *)
THEOREM CharacteristicIsLastReport == Spec => []BleShowsLast
<1>1. BleInv => BleShowsLast
  BY DEF BleInv, BleShowsLast, Latest, Publishing
<1>. QED
  BY <1>1, InitKeeps, NextKeeps, TypeCorrect, PTL DEF Spec
-----------------------------------------------------------------------------
(* The endpoints.  What one of them will say on the characteristic, whether it *)
(* is the current one or not told at all.                                    *)
Told(e) == e \in dropped \/ Latest(e) = EndpointOf(e)

(* How far a publication beside which no other runs has come: its texts are    *)
(* current once built, and the transports it is done with have them.         *)
Published(p) ==
    /\ pc[p] \in {"audioText", "bleLan", "bleAudio", "lanLan", "lanAudio"} =>
          texts[p]["lan_endpoint"] = EndpointOf("lan_endpoint")
    /\ pc[p] \in {"bleLan", "bleAudio", "lanLan", "lanAudio"} =>
          texts[p]["audio_endpoint"] = EndpointOf("audio_endpoint")
    /\ pc[p] \in {"bleAudio", "lanLan", "lanAudio"} => Told("lan_endpoint")
    /\ pc[p] \in {"lanLan", "lanAudio"} => Told("audio_endpoint")
    /\ pc[p] = "lanAudio" => lan["lan_endpoint"] = EndpointOf("lan_endpoint")

AloneInv ==
    \A p \in alone : pc[p] \in Publishing /\ \A q \in Publishers \ {p} : pc[q] \notin Publishing

PublishedInv == \A p \in alone : Published(p)

RestInv ==
    clean /\ (\A p \in Publishers : pc[p] \notin Publishing) =>
        \A e \in Endpoints : lan[e] = EndpointOf(e) /\ Told(e)

EndpointsInv == AloneInv /\ PublishedInv /\ RestInv

LEMMA InitEndpoints == Init => EndpointsInv
<1>. SUFFICES ASSUME Init PROVE EndpointsInv
  OBVIOUS
<1>1. AloneInv /\ PublishedInv
  BY DEF Init, AloneInv, PublishedInv
<1>2. ASSUME NEW e \in Endpoints PROVE lan[e] = EndpointOf(e) /\ Told(e)
  <2>1. EndpointOf(e) = Unknown
    BY DEF Init, EndpointOf, Endpoint
  <2>2. lan[e] = Unknown /\ ble[e] = Unknown /\ idle[e] = <<>>
    BY SomePollers DEF Init
  <2>. QED
    BY <2>1, <2>2 DEF Told, Latest
<1>. QED
  BY <1>1, <1>2 DEF EndpointsInv, RestInv

(* Steps that change no endpoint, no text and no field, and leave publishers    *)
(* where nothing is claimed of them.                                         *)
LEMMA EndpointsFrame ==
    ASSUME TypeOK, EndpointsInv,
           UNCHANGED <<ipv4, port, texts, alone, clean>>,
           \A e \in Endpoints : lan'[e] = lan[e] /\ (Told(e) => Told(e)'),
           \A p \in Publishers :
              \/ pc'[p] = pc[p]
              \/ pc[p] \notin Publishing /\ pc'[p] \notin Publishing
              \/ {pc[p], pc'[p]} \subseteq {"ble", "lan", "lanText"}
    PROVE  EndpointsInv'
<1>1. \A p \in Publishers : pc'[p] \in Publishing <=> pc[p] \in Publishing
  BY DEF Publishing
<1>2. \A e \in Endpoints : EndpointOf(e)' = EndpointOf(e)
  BY DEF EndpointOf
<1>3. alone \subseteq Publishers
  BY DEF TypeOK
<1>4. AloneInv'
  BY <1>1, <1>3 DEF EndpointsInv, AloneInv
<1>5. PublishedInv'
  <2>. SUFFICES ASSUME NEW p \in alone PROVE Published(p)'
    BY DEF PublishedInv
  <2>1. Published(p) /\ p \in Publishers
    BY <1>3 DEF EndpointsInv, PublishedInv
  <2>2. \/ pc'[p] = pc[p]
        \/ pc'[p] \notin Publishing
        \/ pc'[p] \in {"ble", "lan", "lanText"}
    BY <2>1
  <2>3. "lan_endpoint" \in Endpoints /\ "audio_endpoint" \in Endpoints
    BY DEF Endpoints
  <2>. QED
    BY <1>2, <2>1, <2>2, <2>3 DEF Published, Publishing
<1>6. RestInv'
  BY <1>1, <1>2 DEF EndpointsInv, RestInv
<1>. QED
  BY <1>4, <1>5, <1>6 DEF EndpointsInv

(* The steps of providers that publish nothing, of the GLib thread and of the   *)
(* world.                                                                    *)
LEMMA OtherKeepsEndpoints ==
    ASSUME TypeOK, EndpointsInv,
           GlibStep \/ \E p \in Pollers : Change(p) \/ Start(p) \/ AskStop(p) \/ EndLoop(p)
    PROVE  EndpointsInv'
<1>1. CASE MakeCharacteristic
  BY <1>1, EndpointsFrame DEF MakeCharacteristic, Told, Latest, EndpointOf
<1>2. ASSUME NEW ch \in Channels, RunIdle(ch) PROVE EndpointsInv'
  <2>1. \A e \in Endpoints : Latest(e)' = Latest(e)
    BY <1>2, SomePollers, RunIdleKeepsLatest
  <2>2. UNCHANGED <<pc, ipv4, port, texts, alone, clean, lan, dropped>>
    BY <1>2 DEF RunIdle
  <2>3. \A e \in Endpoints : Told(e) => Told(e)'
    BY <2>1, <2>2 DEF Told, EndpointOf
  <2>. QED
    BY <2>2, <2>3, EndpointsFrame
<1>3. ASSUME NEW p \in Pollers, Change(p) \/ AskStop(p) PROVE EndpointsInv'
  <2>1. UNCHANGED <<pc, ipv4, port, texts, alone, clean, lan, dropped, idle, ble>>
    BY <1>3 DEF Change, AskStop
  <2>2. \A e \in Endpoints : Told(e) => Told(e)'
    BY <2>1 DEF Told, EndpointOf, Latest
  <2>. QED
    BY <2>1, <2>2, EndpointsFrame
<1>4. ASSUME NEW p \in Pollers, Start(p) \/ EndLoop(p) PROVE EndpointsInv'
  <2>1. UNCHANGED <<ipv4, port, texts, alone, clean, lan, dropped, idle, ble>>
    BY <1>4 DEF Start, EndLoop
  <2>2. \A e \in Endpoints : Told(e) => Told(e)'
    BY <2>1 DEF Told, EndpointOf, Latest
  <2>3. \A q \in Publishers : pc'[q] = pc[q] \/ (pc[q] \notin Publishing /\ pc'[q] \notin Publishing)
    BY <1>4, SomePollers DEF Start, EndLoop, TypeOK, Publishing
  <2>. QED
    BY <2>1, <2>2, <2>3, EndpointsFrame
<1>. QED
  BY <1>1, <1>2, <1>3, <1>4 DEF GlibStep

(* A monitor's own report. *)
LEMMA TellKeepsEndpoints ==
    ASSUME TypeOK, EndpointsInv, NEW m \in Monitors, TellBle(m) \/ TellLan(m)
    PROVE  EndpointsInv'
<1>1. m \in Channels /\ m \in Pollers /\ last[m] \in Pairs /\ (m \in Publishers => m = "network")
  BY SomePollers DEF TypeOK
<1>2. \A e \in Endpoints : e \in Channels \ {m}
  BY SomePollers
<1>3. UNCHANGED <<ipv4, port, texts, alone, clean>>
  BY DEF TellBle, TellLan
<1>4. \A e \in Endpoints : lan'[e] = lan[e]
  BY <1>2 DEF TellBle, TellLan, TypeOK
<1>5. \A e \in Endpoints : Told(e) => Told(e)'
  <2>1. CASE TellBle(m)
    <3>1. \A e \in Endpoints : Latest(e)' = Latest(e) /\ (e \in dropped' <=> e \in dropped)
      BY <1>1, <1>2, <2>1, NotifyIsLatest DEF TellBle
    <3>. QED
      BY <1>3, <3>1 DEF Told, EndpointOf
  <2>2. CASE TellLan(m)
    BY <2>2 DEF TellLan, Told, EndpointOf, Latest
  <2>. QED
    BY <2>1, <2>2
<1>6. \A p \in Publishers : pc'[p] = pc[p] \/ {pc[p], pc'[p]} \subseteq {"ble", "lan", "lanText"}
  BY <1>1, SomePollers DEF TellBle, TellLan, TypeOK
<1>. QED
  BY <1>3, <1>4, <1>5, <1>6, EndpointsFrame

LEMMA PollKeepsEndpoints ==
    ASSUME TypeOK, EndpointsInv, NEW p \in Pollers,
           \/ p \in Rates /\ TakeBaseline(p)
           \/ p \in Gauges /\ PollGauge(p)
           \/ p \in Publishers /\ PollPublisher(p)
    PROVE  EndpointsInv'
<1>1. CASE (p \in Rates /\ TakeBaseline(p)) \/ (p \in Gauges /\ PollGauge(p))
  <2>1. UNCHANGED <<ipv4, port, texts, alone, clean, lan, dropped, idle, ble>>
    BY <1>1 DEF TakeBaseline, PollGauge
  <2>2. \A e \in Endpoints : Told(e) => Told(e)'
    BY <2>1 DEF Told, EndpointOf, Latest
  <2>3. \A q \in Publishers : pc'[q] = pc[q]
    BY <1>1, SomePollers DEF TakeBaseline, PollGauge, TypeOK
  <2>. QED
    BY <2>1, <2>2, <2>3, EndpointsFrame
<1>2. CASE p \in Publishers /\ PollPublisher(p)
  <2>1. /\ pc[p] = "waiting"
        /\ pc' = [pc EXCEPT ![p] = "field"]
        /\ alone' = IF \A q \in Publishers \ {p} : pc[q] \notin Publishing THEN {p} ELSE {}
    BY <1>2 DEF PollPublisher, Polls
  <2>2. pc'[p] = "field" /\ \A q \in Publishers \ {p} : pc'[q] = pc[q]
    BY <2>1, SomePollers DEF TypeOK
  <2>3. AloneInv'
    BY <1>2, <2>1, <2>2 DEF AloneInv, Publishing
  <2>4. PublishedInv'
    BY <2>1, <2>2 DEF PublishedInv, Published
  <2>5. RestInv'
    BY <1>2, <2>2 DEF RestInv, Publishing
  <2>. QED
    BY <2>3, <2>4, <2>5 DEF EndpointsInv
<1>. QED
  BY <1>1, <1>2

(* A step within a publication: what it claims is all there is to show, because *)
(* an undisturbed one is the only one.                                       *)
LEMMA WithinPublication ==
    ASSUME TypeOK, EndpointsInv, NEW p \in Publishers, NEW x \in Publishing, pc[p] \in Publishing,
           pc' = [pc EXCEPT ![p] = x], UNCHANGED <<alone, clean>>, p \in alone => Published(p)'
    PROVE  EndpointsInv'
<1>1. pc'[p] = x /\ \A q \in Publishers \ {p} : pc'[q] = pc[q]
  BY SomePollers DEF TypeOK
<1>2. alone \subseteq {p}
  BY DEF EndpointsInv, AloneInv, TypeOK
<1>3. AloneInv'
  BY <1>1, <1>2 DEF EndpointsInv, AloneInv
<1>4. PublishedInv'
  BY <1>2 DEF PublishedInv
<1>5. RestInv'
  BY <1>1 DEF RestInv
<1>. QED
  BY <1>3, <1>4, <1>5 DEF EndpointsInv

LEMMA PublishKeepsEndpoints ==
    ASSUME TypeOK, EndpointsInv, NEW p \in Publishers, PublishStep(p)
    PROVE  EndpointsInv'
<1>1. p \in Pollers /\ p \in Publishers /\ pc \in [Pollers -> Publishing \cup {"off", "waiting", "ended"}]
      /\ texts \in [Publishers -> [Endpoints -> Pairs]] /\ lan \in [Channels -> Pairs]
  BY SomePollers DEF TypeOK
<1>2. /\ {"lan_endpoint", "audio_endpoint"} = Endpoints
      /\ "lan_endpoint" \in Channels /\ "audio_endpoint" \in Channels
  BY DEF Endpoints, Channels
<1>3. p \in alone => Published(p)
  BY DEF EndpointsInv, PublishedInv
<1>4. CASE SetField(p)
  <2>1. PICK x \in {"ble", "lanText"} : pc' = [pc EXCEPT ![p] = x]
    BY <1>4 DEF SetField
  <2>2. Published(p)'
    BY <1>1, <2>1 DEF Published
  <2>. QED
    BY <1>4, <2>1, <2>2, WithinPublication DEF SetField, Publishing
<1>5. CASE BuildLanText(p)
  <2>1. /\ pc' = [pc EXCEPT ![p] = "audioText"] /\ pc[p] = "lanText"
        /\ texts' = [texts EXCEPT ![p]["lan_endpoint"] = Endpoint(ipv4, LanPort)]
        /\ UNCHANGED <<ipv4, port, alone, clean>>
    BY <1>5 DEF BuildLanText, BuildText
  <2>2. Published(p)'
    BY <1>1, <1>2, <2>1 DEF Published, EndpointOf
  <2>. QED
    BY <2>1, <2>2, WithinPublication DEF Publishing
<1>6. CASE BuildAudioText(p)
  <2>1. /\ pc' = [pc EXCEPT ![p] = "bleLan"] /\ pc[p] = "audioText"
        /\ texts' = [texts EXCEPT ![p]["audio_endpoint"] = Endpoint(ipv4, port)]
        /\ UNCHANGED <<ipv4, port, alone, clean>>
    BY <1>6 DEF BuildAudioText, BuildText
  <2>2. p \in alone => Published(p)'
    BY <1>1, <1>2, <1>3, <2>1 DEF Published, EndpointOf
  <2>. QED
    BY <2>1, <2>2, WithinPublication DEF Publishing
<1>7. CASE UpdateLanEndpoint(p)
  <2>1. /\ pc' = [pc EXCEPT ![p] = "bleAudio"] /\ pc[p] = "bleLan"
        /\ Notify("lan_endpoint", texts[p]["lan_endpoint"])
        /\ UNCHANGED <<ipv4, port, texts, alone, clean, ble, lan>>
    BY <1>7 DEF UpdateLanEndpoint, EndpointToBle
  <2>2. "lan_endpoint" \notin dropped' => Latest("lan_endpoint")' = texts[p]["lan_endpoint"]
    BY <1>1, <1>2, <2>1, NotifyIsLatest
  <2>3. p \in alone => Published(p)'
    BY <1>1, <1>3, <2>1, <2>2 DEF Published, EndpointOf, Told
  <2>. QED
    BY <2>1, <2>3, WithinPublication DEF Publishing
<1>8. CASE UpdateAudioEndpoint(p)
  <2>1. /\ pc' = [pc EXCEPT ![p] = "lanLan"] /\ pc[p] = "bleAudio"
        /\ Notify("audio_endpoint", texts[p]["audio_endpoint"])
        /\ UNCHANGED <<ipv4, port, texts, alone, clean, ble, lan>>
    BY <1>8 DEF UpdateAudioEndpoint, EndpointToBle
  <2>2. /\ "audio_endpoint" \notin dropped' => Latest("audio_endpoint")' = texts[p]["audio_endpoint"]
        /\ Latest("lan_endpoint")' = Latest("lan_endpoint")
        /\ "lan_endpoint" \in dropped => "lan_endpoint" \in dropped'
    BY <1>1, <1>2, <2>1, NotifyIsLatest
  <2>3. p \in alone => Published(p)'
    BY <1>1, <1>3, <2>1, <2>2 DEF Published, EndpointOf, Told
  <2>. QED
    BY <2>1, <2>3, WithinPublication DEF Publishing
<1>9. CASE SetLanEndpoint(p)
  <2>1. /\ pc' = [pc EXCEPT ![p] = "lanAudio"] /\ pc[p] = "lanLan"
        /\ lan' = [lan EXCEPT !["lan_endpoint"] = texts[p]["lan_endpoint"]]
        /\ UNCHANGED <<ipv4, port, texts, alone, clean, ble, idle, dropped>>
    BY <1>9 DEF SetLanEndpoint, EndpointToLan
  <2>2. p \in alone => Published(p)'
    BY <1>1, <1>2, <1>3, <2>1 DEF Published, EndpointOf, Told, Latest
  <2>. QED
    BY <2>1, <2>2, WithinPublication DEF Publishing
<1>10. CASE SetAudioEndpoint(p)
  <2>1. /\ pc' = [pc EXCEPT ![p] = "waiting"] /\ pc[p] = "lanAudio"
        /\ lan' = [lan EXCEPT !["audio_endpoint"] = texts[p]["audio_endpoint"]]
        /\ clean' = (p \in alone) /\ alone' = alone \ {p}
        /\ UNCHANGED <<ipv4, port, ble, idle, dropped>>
    BY <1>10 DEF SetAudioEndpoint, EndpointToLan
  <2>2. alone' = {}
    BY <2>1 DEF EndpointsInv, AloneInv, TypeOK, Publishing
  <2>3. RestInv'
    <3>. SUFFICES ASSUME p \in alone, NEW e \in Endpoints
                  PROVE  lan'[e] = EndpointOf(e)' /\ Told(e)'
      BY <2>1 DEF RestInv
    <3>1. lan["lan_endpoint"] = EndpointOf("lan_endpoint")
          /\ texts[p]["audio_endpoint"] = EndpointOf("audio_endpoint")
          /\ Told("lan_endpoint") /\ Told("audio_endpoint")
      BY <1>3, <2>1 DEF Published
    <3>2. EndpointOf(e)' = EndpointOf(e) /\ Told(e)' = Told(e)
      BY <2>1 DEF EndpointOf, Told, Latest
    <3>3. lan'[e] = EndpointOf(e)
      BY <1>1, <1>2, <2>1, <3>1
    <3>. QED
      BY <1>2, <3>1, <3>2, <3>3
  <2>. QED
    BY <2>2, <2>3 DEF EndpointsInv, AloneInv, PublishedInv
<1>. QED
  BY <1>4, <1>5, <1>6, <1>7, <1>8, <1>9, <1>10 DEF PublishStep

LEMMA NextEndpoints == TypeOK /\ EndpointsInv /\ [Next]_vars => EndpointsInv'
<1>. SUFFICES ASSUME TypeOK, EndpointsInv, [Next]_vars PROVE EndpointsInv'
  OBVIOUS
<1>1. CASE UNCHANGED vars
  BY <1>1, EndpointsFrame DEF vars, Told, Latest, EndpointOf
<1>2. ASSUME NEW p \in Pollers, PollerStep(p) PROVE EndpointsInv'
  <2>1. CASE \/ p \in Rates /\ TakeBaseline(p)
             \/ p \in Gauges /\ PollGauge(p)
             \/ p \in Publishers /\ PollPublisher(p)
    BY <2>1, PollKeepsEndpoints
  <2>2. CASE p \in Monitors /\ (TellBle(p) \/ TellLan(p))
    BY <2>2, TellKeepsEndpoints
  <2>3. CASE p \in Publishers /\ PublishStep(p)
    BY <2>3, PublishKeepsEndpoints
  <2>4. CASE EndLoop(p)
    BY <2>4, OtherKeepsEndpoints
  <2>. QED
    BY <1>2, <2>1, <2>2, <2>3, <2>4 DEF PollerStep, PublishStep
<1>. QED
  BY <1>1, <1>2, OtherKeepsEndpoints DEF Next

(* With no publication under way the endpoints told over both transports are    *)
(* those of the current address and port, if the last publication to end ran   *)
(* beside no other: one that is undisturbed reads the two fields once it is the *)
(* only one that can change them, and carries what it read to the end          *)
(* (main.py:220-262).                                                        *)
THEOREM EndpointsAreCurrent == Spec => []EndpointsCurrent
<1>1. EndpointsInv => EndpointsCurrent
  <2>. SUFFICES ASSUME EndpointsInv, clean, \A p \in Publishers : pc[p] \notin Publishing,
                       NEW e \in Endpoints
                PROVE  /\ lan[e] = EndpointOf(e)
                       /\ GlibRuns /\ idle[e] = <<>> /\ e \notin dropped => ble[e] = EndpointOf(e)
    BY DEF EndpointsCurrent
  <2>. QED
    BY DEF EndpointsInv, RestInv, Told, Latest
<1>. QED
  BY <1>1, InitEndpoints, NextEndpoints, TypeCorrect, PTL DEF Spec
-----------------------------------------------------------------------------
(* A poller at rest whose next poll would report nothing. *)
NothingToReport(m) ==
    /\ pc[m] = "waiting"
    /\ IF m \in Gauges THEN ~Far(last[m], world[m]) ELSE world[m] = last[m]

QuietIsShown ==
    \A m \in Monitors :
        NothingToReport(m) =>
            /\ Shows(lan[m], m)
            /\ GlibRuns /\ idle[m] = <<>> /\ m \notin dropped => Shows(ble[m], m)

(* A poller that has nothing to report hides nothing: what it suppresses is      *)
(* within the threshold of what is shown, on either transport, although the     *)
(* comparison is with its own last report (cpu.py:133-138).                   *)
THEOREM SuppressedIsShown == Spec => []QuietIsShown
<1>1. LanShowsLast /\ BleShowsLast => QuietIsShown
  <2>. SUFFICES ASSUME LanShowsLast, BleShowsLast, NEW m \in Monitors, NothingToReport(m)
                PROVE  /\ Shows(lan[m], m)
                       /\ GlibRuns /\ idle[m] = <<>> /\ m \notin dropped => Shows(ble[m], m)
    BY DEF QuietIsShown
  <2>1. pc[m] \notin Publishing
    BY DEF NothingToReport, Publishing
  <2>2. Shows(last[m], m)
    BY DEF NothingToReport, Shows
  <2>3. lan[m] = last[m]
    BY <2>1 DEF LanShowsLast
  <2>4. GlibRuns /\ idle[m] = <<>> /\ m \notin dropped => ble[m] = last[m]
    BY <2>1 DEF BleShowsLast
  <2>. QED
    BY <2>2, <2>3, <2>4
<1>. QED
  BY <1>1, CacheIsLastReport, CharacteristicIsLastReport, PTL
=============================================================================
